CONSTANTS
    Preamble <- MCPreamble
    SubframeBits = 3
    AlarmPeriods = 1
    Satellites = {s1, s2}
    SymbolsAt <- MCSymbolsAt
    NoOutput = NoOutput
    MaxSamples = 9
    TowFields <- MCTowFields
    MsgIds <- MCMsgIds
    Indeterminate = Indeterminate
    MaxSubframes = 9
    MaxResets = 1
SPECIFICATION FrameSpec
SYMMETRY MCSymmetry
INVARIANT AlarmLatchedOnlyAfterAlarm
