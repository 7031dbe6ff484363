CONSTANTS
    TowFields <- MCTowFields
    MsgIds <- MCMsgIds
    Indeterminate = Indeterminate
    MaxSubframes = 4
    MaxResets = 1
SPECIFICATION NavSpec
INVARIANT NavTypeOK
INVARIANT OneShotDelivery
CHECK_DEADLOCK FALSE
