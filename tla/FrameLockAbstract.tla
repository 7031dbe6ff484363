-------------------------- MODULE FrameLockAbstract --------------------------
(***************************************************************************)
(* What the frame synchronizer of irnss_telemetry_decoder_gs promises      *)
(* about frame lock, without symbols, counters or timing: it searches for  *)
(* a preamble, holds a candidate, locks when a second preamble confirms    *)
(* it, and may abandon a candidate or lose the lock.  A time of week is    *)
(* known only while the frame is locked; leaving LOCKED forgets it.        *)
(***************************************************************************)
VARIABLES sync, towKnown

absVars == <<sync, towKnown>>

SyncStates == {"searching", "candidate", "locked"}

AbsInit == sync = "searching" /\ towKnown = FALSE

Acquire == sync = "searching" /\ sync' = "candidate" /\ UNCHANGED towKnown

Confirm == sync = "candidate" /\ sync' = "locked" /\ UNCHANGED towKnown

Abandon == sync = "candidate" /\ sync' = "searching" /\ towKnown' = FALSE

LearnTow == sync = "locked" /\ towKnown' = TRUE /\ UNCHANGED sync

Lose == sync = "locked" /\ sync' = "searching" /\ towKnown' = FALSE

AbsNext == Acquire \/ Confirm \/ Abandon \/ LearnTow \/ Lose

AbsSpec == AbsInit /\ [][AbsNext]_absVars

============================================================================
