SPECIFICATION Spec
CONSTANTS
    Letters <- MCLetters
    Dotted <- MCDotted
    SourceRelays <- MCSourceRelays
    DefaultServers <- MCServers
    Author = "ann"
    Identifier = ""
    Url <- MCUrl
    Malformed = {"bracket"}
    Public = {"1.1.1.1"}
    allow_private = FALSE
    Proxy = "none"
    Relays = {"op2", "outbox", "mirror"}
    Blobs <- MCBlobs
    Manifests <- MCManifests
    ManifestRelays = {"outbox", "mirror"}
    Policies <- Announcers
    Stray = FALSE
    MaxMoves = 1
INVARIANTS TypeOK OnlyGuardedAsked SourcesSuffice
