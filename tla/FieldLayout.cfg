\* subframe_decoder on every subframe ID the 2-bit field can hold and on
\* every message type the decoder has a branch for, plus one it has none for.
CONSTANT MsgIds = {0, 1, 5, 7, 9, 11, 14, 18, 26}
SPECIFICATION LayoutSpec
INVARIANT ReadFieldsDisjoint
