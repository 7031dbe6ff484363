--------------------------- MODULE MCVolkKernels ---------------------------
(* Model-checking instance of VolkKernels.  Phases in 1/500 chip, so that  *)
(* the puppet's 0.1 and -0.234 chip are exact; the puppet's 2046-chip code *)
(* and 3 output vectors.  Steps of 0.5, 1 and 1.25 chips per sample;       *)
(* remnant phases within one chip of zero, as the tracking loop's          *)
(* early/prompt/late taps produce, and one half a chip before the end of   *)
(* the code, so that indices run past code_length_chips - 1; sample        *)
(* counts below, at and above a multiple of 4.                             *)
EXTENDS VolkKernels

MCPhaseSteps == {250, 500, 625}
\* Remnant phases -1, -0.25, 0, 0.5 and 2045.5 chips, arranged as a Latin
\* square: each value occurs once for each output vector.  The vectors of a
\* call are computed independently of each other.
MCRem == <<-500, -125, 0, 250, 2045 * 500 + 250>>

MCRemPhases == {[v \in 1..3 |-> MCRem[((v + k) % 5) + 1]] : k \in 0..4}
MCSampleCounts == {1, 4, 6, 9}
MCConvertCounts == {0, 1, 2, 3, 5, 8, 9, 11}
MCPuppetCounts == {1, 3, 4, 7, 9}
MCPuppetRem == -117

============================================================================
