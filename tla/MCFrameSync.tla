----------------------------- MODULE MCFrameSync -----------------------------
(* Model-checking instance of FrameSync: a 2-symbol preamble, a 3-symbol   *)
(* subframe and a watchdog of one subframe, over every symbol stream of    *)
(* MaxSamples symbols, two satellites and one set_satellite call.          *)
EXTENDS FrameSync, TLC

MCPreamble == <<1, -1>>
MCSymbolsAt(k) == {-1, 1}
\* A stream carrying the preamble every subframe, its other symbols free.
MCFramedSymbolsAt(k) ==
    IF (k - 1) % SubframeBits < Len(MCPreamble)
    THEN {MCPreamble[((k - 1) % SubframeBits) + 1]}
    ELSE {-1, 1}
MCTowFields == {0, 1}
MCMsgIds == {0, 9}

MCSymmetry == Permutations(Satellites)
=============================================================================
