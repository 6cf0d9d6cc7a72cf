SPECIFICATION Spec
CONSTANTS
    Letters <- MCLetters
    Dotted <- MCDotted
    Relays <- TwoRelays
    Servers <- OneServer
    Reliable = {"steady", "default"}
    Chatty = {"shaky"}
    Dripping = {"hinted"}
    Published <- World
    Unasked <- Forgeries
    Malformed <- Broken
    Blobs <- MCBlobs
    Links <- Addresses
    Pubkey <- MCPubkey
    Npub <- MCNpub
    Numeric <- MCNumeric
    MaxIgnored = 1
INVARIANTS TypeOK LinkLeadsHome OneSourceSuffices
PROPERTY RequestAnswered
