SPECIFICATION Spec
CONSTANTS
    None = None
    Width <- MCWidth
    Ascii <- MCAscii
    Hex <- MCHex
    RuleFiles <- MCRuleFiles
    NameOrder <- MCNames
    Rounds = 2
    Moments <- MCMoments
INVARIANTS
    CapturesAgree
    NothingPrivateIsWritten
    LeftAsFound
    
CHECK_DEADLOCK FALSE
