CONSTANTS
    Preamble <- MCPreamble
    SubframeBits = 4
    AlarmPeriods = 4
    Satellites = {s1}
    SymbolsAt <- MCCleanSymbolsAt
    NoOutput = NoOutput
    MaxSamples = 32
    TowFields <- MCTowFields
    MsgIds <- MCMsgIds
    Indeterminate = Indeterminate
    MaxSubframes = 32
    MaxResets = 0
SPECIFICATION FairSpec
PROPERTY LockedForGood
PROPERTY LockProtocolRefined
CHECK_DEADLOCK FALSE
