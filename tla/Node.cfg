SPECIFICATION NodeSpec
CONSTANTS
    Terminals = {t1, t2}
    Secrets = {5, 26, 7}
    Passwords = {w1, w2, w3}
    Unencodable = {w3}
    FieldP = 43
    OrderN = 31
    Bits = 5
    BaseG <- MCBase
    Keys <- MCKeys
    NpubOf <- MCNpubOf
    Exact <- MCExact
    Slips <- MCSlips
    Works <- MCWorks
    Derives <- MCDerives
    Pins = {None, 25}
    Starts <- MCStarts
    Kilo = 1024
    normalize_pubkey <- MCnormalize
    NoKey = "no key"
    OtherSteps <- MCOtherSteps
    None = None
    Refused = Refused
    Absent = Absent
    Empty = Empty
SYMMETRY Symmetric
INVARIANTS NodeTypeOK KeysHold SignsForHome GoodKeyAccepted OnionScope
