SPECIFICATION ProcsSpec
CONSTANTS
    daemon = daemon
    sync = sync
    Daemon <- daemon
    Sync <- sync
    Letters <- MCLetters
    Signed <- World
    Unbindable <- NotBound
    Abortive <- NotDone
INVARIANTS ProcsTypeOK AnsweredIsCovered
PROPERTIES NewestOnlyAdvances
