CONSTANTS
    Preamble <- MCPreamble
    SubframeBits = 3
    AlarmPeriods = 1
    Satellites = {s1, s2}
    SymbolsAt <- MCFramedSymbolsAt
    NoOutput = NoOutput
    MaxSamples = 15
    TowFields <- MCTowFields
    MsgIds <- MCMsgIds
    Indeterminate = Indeterminate
    MaxSubframes = 15
    MaxResets = 1
SPECIFICATION FrameSpec
SYMMETRY MCSymmetry
INVARIANT TypeOK
INVARIANT EmitOnlyWhenLocked
INVARIANT LockedDecodesEveryPeriod
INVARIANT AlarmOncePerEpisode
