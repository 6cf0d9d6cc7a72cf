SPECIFICATION Spec
CONSTANTS
    laptop = laptop
    desktop = desktop
    Letters <- MCLetters
    Dotted <- MCDotted
    Publishers = {laptop, desktop}
    Author <- Ann
    Skew <- Behind
    Jobs <- MCJobs
    Refused = {}
    Barred = {}
    Foreign <- MCForeign
    Raising <- MCRaising
    Deletable = {"y"}
    Evictable = {"y"}
    Ttl = 1
    MaxFuture = 0
    MaxTime = 1
    MaxEvents = 2
INVARIANTS TypeOK NoDangling ToldIsCovered PublishedIsServed
