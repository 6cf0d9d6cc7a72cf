SPECIFICATION Spec
CONSTANTS
    Letters <- MCLetters
    Events <- World
    Faulty <- Broken
    Botched <- PartDone
INVARIANTS TypeOK OneVersionPerSlot Converges QueryExact
PROPERTIES LossJustified ImplementsRegister
