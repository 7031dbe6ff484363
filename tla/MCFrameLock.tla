----------------------------- MODULE MCFrameLock -----------------------------
(* Frame acquisition on a clean stream: the preamble at the start of every *)
(* subframe and data symbols that never correlate with it, processed by    *)
(* general_work alone (neither reset() nor set_satellite() is called).     *)
EXTENDS FrameSync

\* Preamble 1,1,-1 with +1 data: no window other than the preamble's, in
\* either polarity, reaches |correlation| = 3.
MCPreamble == <<1, 1, -1>>
MCCleanSymbolsAt(k) ==
    IF (k - 1) % SubframeBits < Len(MCPreamble)
    THEN {MCPreamble[((k - 1) % SubframeBits) + 1]}
    ELSE {1}
MCTowFields == {0, 1}
MCMsgIds == {0}

GeneralWorkNext ==
    \/ \E sym \in SymbolsAt(d_sample_counter + 1) : Receive(sym)
    \/ LatchAlarm \/ Case0 \/ Case1 \/ Case2 \/ CommitPossibleLock \/ CommitLocked \/ TowUpdate

CleanSpec == FrameInit /\ [][GeneralWorkNext]_vars

\* The GNU Radio scheduler calls general_work while input is available.
FairSpec == CleanSpec /\ WF_vars(GeneralWorkNext)

\* The frame-sync state of d_stat as the abstract lock protocol names it.
SyncOf(stat) ==
    CASE stat = NO_PREAMBLE   -> "searching"
      [] stat = POSSIBLE_LOCK -> "candidate"
      [] stat = LOCKED        -> "locked"

Lock == INSTANCE FrameLockAbstract WITH sync <- SyncOf(d_stat), towKnown <- d_flag_TOW_set

(***************************************************************************)
(* general_work implements the abstract lock protocol: d_stat moves from   *)
(* NO_PREAMBLE only to POSSIBLE_LOCK and from there to LOCKED or back, a   *)
(* lost lock returns to NO_PREAMBLE, and d_flag_TOW_set is set only while  *)
(* LOCKED and cleared on every path out of it (case 1 timeout, the third   *)
(* CRC failure), across the split between the switch and the write of     *)
(* d_stat that follows a decode.                                           *)
(***************************************************************************)
LockProtocolRefined == Lock!AbsSpec

(***************************************************************************)
(* Spec section 8: on such a stream, with a subframe ID other than 0 (the *)
(* only one decode_subframe rejects, line 240), the frame                 *)
(* is eventually LOCKED and stays LOCKED: every preamble then lands on the *)
(* instant case 2 expects and every decode succeeds, so the failure count  *)
(* of lines 500-510 never reaches 3.                                       *)
(***************************************************************************)
LockedForGood ==
    page.id # 0 => <>[](d_stat = LOCKED)
=============================================================================
