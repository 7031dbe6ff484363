CONSTANTS
    TowFields <- MCTowFields
    MsgIds <- MCMsgIds
    Indeterminate = Indeterminate
    MaxSubframes = 4
    MaxResets = 1
SPECIFICATION NavSpec
CHECK_DEADLOCK FALSE
PROPERTY EphemerisPublishedWhenComplete
