----------------------------- MODULE MCCodeGen -----------------------------
(* Model-checking instance of the code generator and of the acquisition   *)
(* adapter that calls it: PRNs on both sides of the range check and of    *)
(* the end of the delays table, chip shifts at 0 and at the last chip.    *)
(* The adapter's configurations sample the code at 3 samples per code,    *)
(* exactly or with half a sample per millisecond left over, and at        *)
(* IRNSS_L5_OPT_ACQ_FS_HZ = 2 MHz reached from 4 MHz by the automatic     *)
(* resampler, with the bit-transition flag doubling the vector.           *)
EXTENDS AcqAdapter

MCPrns == {0, 1, 2, 11, 16}
MCChipShifts == {0, 1022}
\* delays[10..14] read past the array: the next ICD entry or zero.
MCOutOfBoundsReads == {76, 0}

MCAcqConfs ==
    {[fs_in |-> 3000, resampled_fs |-> 3000, use_automatic_resampler |-> FALSE,
      sampled_ms |-> 2, bit_transition_flag |-> FALSE],
     [fs_in |-> 3500, resampled_fs |-> 3500, use_automatic_resampler |-> FALSE,
      sampled_ms |-> 2, bit_transition_flag |-> FALSE],
     [fs_in |-> 4000000, resampled_fs |-> 2000000, use_automatic_resampler |-> TRUE,
      sampled_ms |-> 1, bit_transition_flag |-> TRUE]}
\* A PRN inside the delays table and one past its end.
MCSynchroPrns == {1, 11}
============================================================================
