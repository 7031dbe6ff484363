----------------------------- MODULE FrameSync -----------------------------
(***************************************************************************)
(* The Frame Synchronizer: irnss_telemetry_decoder_gs                      *)
(* (src/src/algorithms/telemetry_decoder/gnuradio_blocks/                  *)
(*  irnss_telemetry_decoder_gs.cc), composed with the Message Assembler    *)
(* (NavMessage) that its decode_subframe drives.                           *)
(*                                                                         *)
(* Two threads share the block.  The scheduler thread calls general_work   *)
(* once per symbol; a control thread may call reset() (which takes         *)
(* d_setlock) and set_satellite() (which takes no lock) at any time.       *)
(* general_work holds d_setlock only around line 491, so it is split into  *)
(* the steps between which the control thread's calls can take effect:    *)
(*   Receive      lines 374-388  push the symbol, count it, watchdog       *)
(*   LatchAlarm   line  389      remember that the alarm was sent          *)
(*   Case0/1/2    lines 393-515  the frame-sync switch on d_stat           *)
(*   CommitPossibleLock / CommitLocked  lines 419 / 463: d_stat after a  *)
(*                decode                                                   *)
(*   TowUpdate    lines 517-585  TOW bookkeeping and the output record     *)
(*                                                                         *)
(* Scaling.  IRNSS_L5_SUBFRAME_BITS (600) is SubframeBits, the 16-symbol   *)
(* preamble is Preamble, the alarm factor 20 is AlarmPeriods; millisecond  *)
(* arithmetic keeps the code's constants.  A symbol is the sign class the  *)
(* code tests (Prompt_I < 0.0): -1 or 1.                                   *)
(*                                                                         *)
(* d_page_part_symbols, the buffer decode_subframe reads (lines 418, 461,  *)
(* 486), is reserved (line 92) but never written: its contents are the     *)
(* indeterminate values of fresh heap memory, the same at every call.  The *)
(* subframe decoded from it, page, is therefore chosen once, in Init.      *)
(***************************************************************************)
EXTENDS NavMessage

CONSTANTS
    Preamble,       \* d_preamble_samples: IRNSS_L5_PREAMBLE mapped to +1/-1
    SubframeBits,   \* IRNSS_L5_SUBFRAME_BITS
    AlarmPeriods,   \* the factor in d_max_symbols_without_valid_frame (line 88)
    Satellites,     \* the satellites set_satellite may be given
    SymbolsAt(_),   \* the signs the k-th symbol of the input stream may have
    NoOutput,       \* general_work returned 0
    MaxSamples      \* bound: symbols processed

ASSUME Preamble \in Seq({-1, 1}) /\ Len(Preamble) > 0
ASSUME SubframeBits > Len(Preamble)

L == Len(Preamble)                          \* d_samples_per_preamble
P == SubframeBits                           \* d_preamble_period_symbols, d_required_symbols
Capacity == P + 1                           \* d_symbol_history.set_capacity (line 124)
MaxWithoutValidFrame == P * AlarmPeriods    \* d_max_symbols_without_valid_frame
IRNSS_L5_PREAMBLE_DURATION_MS == 320
IRNSS_L5_SUBFRAME_MS == 12000
IRNSS_L5_SUBFRAME_BITS == 600

VARIABLES
    d_symbol_history, d_sample_counter, d_preamble_index, d_last_valid_preamble,
    d_stat, d_CRC_error_counter, d_flag_frame_sync, d_flag_PLL_180_deg_phase_locked,
    d_flag_TOW_set, d_flag_preamble, d_TOW_at_current_symbol_ms, d_TOW_at_Preamble_ms,
    d_sent_tlm_failed_msg, d_satellite,
    page,              \* the subframe decode_subframe decodes from d_page_part_symbols
    telemetry_to_trk,  \* the alarm codes published on the "telemetry_to_trk" port
    out,               \* the record the last general_work returned, or NoOutput
    pc,                \* the next step of the general_work in progress
    stat_next,         \* the value a pending write of d_stat (lines 419, 463) will store
    stat_seen,         \* history: the d_stat the current call's switch read
    tow_sat,           \* history: the satellite whose decode set d_TOW_at_Preamble_ms
    alarms_since_reset, \* history: alarms published since the last reset()
    reset_pending      \* history: reset() ran and no switch has read d_stat since

syncVars == <<d_symbol_history, d_sample_counter, d_preamble_index, d_last_valid_preamble,
              d_stat, d_CRC_error_counter, d_flag_frame_sync, d_flag_PLL_180_deg_phase_locked,
              d_flag_TOW_set, d_flag_preamble, d_TOW_at_current_symbol_ms, d_TOW_at_Preamble_ms,
              d_sent_tlm_failed_msg, d_satellite, page, telemetry_to_trk, out, pc,
              stat_next, stat_seen, tow_sat, alarms_since_reset, reset_pending>>
vars == <<syncVars, navVars>>

NO_PREAMBLE == 0
POSSIBLE_LOCK == 1
LOCKED == 2

Abs(x) == IF x < 0 THEN -x ELSE x

\* The preamble correlation of lines 402-412 over the oldest L symbols.
Correlation(h) ==
    FoldSeq(LAMBDA x, y : x + y, 0,
            [i \in 1..L |-> IF h[i] < 0 THEN -Preamble[i] ELSE Preamble[i]])

\* boost::circular_buffer::push_back: at capacity the oldest symbol is dropped.
PushBack(h, s) ==
    IF Len(h) = Capacity THEN Tail(Append(h, s)) ELSE Append(h, s)

OutputRecord ==
    [tow : Nat, phase_corrected : BOOLEAN, sat : Satellites,
     tow_sat : Satellites, stat_seen : 0..2]

\* Groups of variables, for UNCHANGED.
lockVars == <<d_preamble_index, d_last_valid_preamble, d_stat, d_CRC_error_counter,
              d_flag_frame_sync, d_flag_PLL_180_deg_phase_locked>>
towVars == <<d_flag_TOW_set, d_TOW_at_current_symbol_ms, d_TOW_at_Preamble_ms, tow_sat>>
alarmVars == <<d_sent_tlm_failed_msg, telemetry_to_trk, alarms_since_reset>>

-----------------------------------------------------------------------------
(* The scheduler thread: general_work, one symbol per call *)

\* Fault variant of AlarmDue: the alarm is not held back once sent.
AlarmDueUnlatched(counter) ==
    /\ d_stat < 2
    /\ counter - d_last_valid_preamble > MaxWithoutValidFrame

\* Lines 381-383 evaluated with the incremented sample counter.
AlarmDue(counter) ==
    /\ d_sent_tlm_failed_msg = FALSE /\ d_stat < 2
    /\ counter - d_last_valid_preamble > MaxWithoutValidFrame

(***************************************************************************)
(* Lines 374-388: copy the input symbol into the history, count it, clear  *)
(* d_flag_preamble, and publish the bad-telemetry alarm (code 1) when it   *)
(* is due.  The latch of line 389 is the next step.                        *)
(***************************************************************************)
Receive(sym) ==
    /\ pc = "idle" /\ d_sample_counter < MaxSamples
    /\ d_symbol_history' = PushBack(d_symbol_history, sym)
    /\ d_sample_counter' = d_sample_counter + 1
    /\ d_flag_preamble' = FALSE
    /\ IF AlarmDue(d_sample_counter + 1)
       THEN /\ telemetry_to_trk' = Append(telemetry_to_trk, 1)
            /\ alarms_since_reset' = alarms_since_reset + 1
            /\ pc' = "latch"
       ELSE /\ pc' = "switch"
            /\ UNCHANGED <<telemetry_to_trk, alarms_since_reset>>
    /\ UNCHANGED <<lockVars, towVars, d_sent_tlm_failed_msg, d_satellite, page, out,
                   stat_next, stat_seen, reset_pending, navVars>>

\* Line 388: d_sent_tlm_failed_msg = true, after the message was published.
LatchAlarm ==
    /\ pc = "latch"
    /\ d_sent_tlm_failed_msg' = TRUE
    /\ pc' = "switch"
    /\ UNCHANGED <<d_symbol_history, d_sample_counter, lockVars, towVars, d_flag_preamble,
                   d_satellite, page, telemetry_to_trk, out, stat_next, stat_seen,
                   alarms_since_reset, reset_pending, navVars>>

\* What every step of the switch does beside its own branch: it reads d_stat.
SwitchKeeps ==
    /\ reset_pending' = FALSE
    /\ UNCHANGED <<d_symbol_history, d_sample_counter, alarmVars, d_satellite, page, out>>

\* Fault variant of Case0: d_flag_TOW_set is not cleared (line 422 dropped).
Case0KeepingTow ==
    /\ pc = "switch" /\ d_stat = NO_PREAMBLE
    /\ stat_seen' = d_stat
    /\ IF Len(d_symbol_history) >= L /\ Abs(Correlation(d_symbol_history)) >= L
       THEN /\ d_preamble_index' = d_sample_counter
            /\ DecodeSubframe(page)
            /\ stat_next' = POSSIBLE_LOCK
            /\ pc' = "commit"
       ELSE /\ pc' = "tow"
            /\ UNCHANGED <<d_preamble_index, stat_next, navVars>>
    /\ UNCHANGED <<d_last_valid_preamble, d_stat, d_CRC_error_counter, d_flag_frame_sync,
                   d_flag_PLL_180_deg_phase_locked, towVars, d_flag_preamble>>
    /\ SwitchKeeps

\* Fault variant of Case0: a first preamble promotes straight to LOCKED.
Case0Promoting ==
    /\ pc = "switch" /\ d_stat = NO_PREAMBLE
    /\ stat_seen' = d_stat
    /\ d_flag_TOW_set' = FALSE
    /\ IF Len(d_symbol_history) >= L /\ Abs(Correlation(d_symbol_history)) >= L
       THEN /\ d_preamble_index' = d_sample_counter
            /\ DecodeSubframe(page)
            /\ stat_next' = LOCKED
            /\ pc' = "commit"
       ELSE /\ pc' = "tow"
            /\ UNCHANGED <<d_preamble_index, stat_next, navVars>>
    /\ UNCHANGED <<d_last_valid_preamble, d_stat, d_CRC_error_counter, d_flag_frame_sync,
                   d_flag_PLL_180_deg_phase_locked, d_TOW_at_current_symbol_ms,
                   d_TOW_at_Preamble_ms, tow_sat, d_flag_preamble>>
    /\ SwitchKeeps

(***************************************************************************)
(* case 0, NO_PREAMBLE (lines 395-424): once L symbols are held, correlate *)
(* the oldest L with the preamble; on a full match in either polarity      *)
(* record the preamble index, decode (result ignored) and go to            *)
(* POSSIBLE_LOCK.  d_flag_TOW_set is cleared in every case.                *)
(***************************************************************************)
Case0 ==
    /\ pc = "switch" /\ d_stat = NO_PREAMBLE
    /\ stat_seen' = d_stat
    /\ d_flag_TOW_set' = FALSE
    /\ IF Len(d_symbol_history) >= L /\ Abs(Correlation(d_symbol_history)) >= L
       THEN /\ d_preamble_index' = d_sample_counter
            /\ DecodeSubframe(page)
            /\ stat_next' = POSSIBLE_LOCK
            /\ pc' = "commit"
       ELSE /\ pc' = "tow"
            /\ UNCHANGED <<d_preamble_index, stat_next, navVars>>
    /\ UNCHANGED <<d_last_valid_preamble, d_stat, d_CRC_error_counter, d_flag_frame_sync,
                   d_flag_PLL_180_deg_phase_locked, d_TOW_at_current_symbol_ms,
                   d_TOW_at_Preamble_ms, tow_sat, d_flag_preamble>>
    /\ SwitchKeeps

(***************************************************************************)
(* case 1, POSSIBLE_LOCK (lines 425-476): once the history is full,        *)
(* correlate; on a match exactly one period after the recorded preamble,  *)
(* record it, clear the error counter, take the polarity from the sign of *)
(* the correlation, decode (result ignored) and go to LOCKED; on a match   *)
(* more than a period after it, go back to NO_PREAMBLE.  preamble_diff is  *)
(* the int32 cast of a difference that stays far below 2^31 here.         *)
(***************************************************************************)
Case1 ==
    /\ pc = "switch" /\ d_stat = POSSIBLE_LOCK
    /\ stat_seen' = d_stat
    /\ LET corr == Correlation(d_symbol_history)
           diff == d_sample_counter - d_preamble_index
       IN  IF Len(d_symbol_history) > P /\ Abs(corr) >= L /\ diff = P THEN
               /\ d_preamble_index' = d_sample_counter
               /\ d_CRC_error_counter' = 0
               /\ d_flag_PLL_180_deg_phase_locked' = (corr < 0)
               /\ DecodeSubframe(page)
               /\ stat_next' = LOCKED
               /\ pc' = "commit"
               /\ UNCHANGED <<d_stat, d_flag_TOW_set>>
           ELSE IF Len(d_symbol_history) > P /\ Abs(corr) >= L /\ diff > P THEN
               /\ d_stat' = NO_PREAMBLE
               /\ d_flag_TOW_set' = FALSE
               /\ pc' = "tow"
               /\ UNCHANGED <<d_preamble_index, d_CRC_error_counter,
                              d_flag_PLL_180_deg_phase_locked, stat_next, navVars>>
           ELSE
               /\ pc' = "tow"
               /\ UNCHANGED <<d_preamble_index, d_CRC_error_counter, d_stat,
                              d_flag_PLL_180_deg_phase_locked, d_flag_TOW_set,
                              stat_next, navVars>>
    /\ UNCHANGED <<d_last_valid_preamble, d_flag_frame_sync, d_TOW_at_current_symbol_ms,
                   d_TOW_at_Preamble_ms, tow_sat, d_flag_preamble>>
    /\ SwitchKeeps

\* Lines 488-496: a decode that succeeded confirms the frame.
FrameConfirmed ==
    /\ d_CRC_error_counter' = 0 /\ d_flag_preamble' = TRUE
    /\ d_last_valid_preamble' = d_sample_counter /\ d_flag_frame_sync' = TRUE
    /\ UNCHANGED <<d_stat, towVars>>

\* Fault variant of CrcFailure: the error counter is not cleared on loss of sync.
CrcFailureKeepingCount ==
    /\ d_CRC_error_counter' = d_CRC_error_counter + 1
    /\ IF d_CRC_error_counter + 1 > 2
       THEN /\ d_flag_frame_sync' = FALSE /\ d_stat' = NO_PREAMBLE
            /\ d_TOW_at_current_symbol_ms' = 0 /\ d_TOW_at_Preamble_ms' = 0
            /\ d_flag_TOW_set' = FALSE
            /\ UNCHANGED tow_sat
       ELSE UNCHANGED <<d_flag_frame_sync, d_stat, towVars>>
    /\ UNCHANGED <<d_flag_preamble, d_last_valid_preamble>>

(***************************************************************************)
(* Lines 500-510: a decode that failed is counted; the third failure in a  *)
(* row loses frame sync, returns to NO_PREAMBLE and forgets the TOW.       *)
(***************************************************************************)
CrcFailure ==
    /\ IF d_CRC_error_counter + 1 > 2
       THEN /\ d_flag_frame_sync' = FALSE /\ d_stat' = NO_PREAMBLE
            /\ d_TOW_at_current_symbol_ms' = 0 /\ d_TOW_at_Preamble_ms' = 0
            /\ d_CRC_error_counter' = 0 /\ d_flag_TOW_set' = FALSE
            /\ UNCHANGED tow_sat
       ELSE /\ d_CRC_error_counter' = d_CRC_error_counter + 1
            /\ UNCHANGED <<d_flag_frame_sync, d_stat, towVars>>
    /\ UNCHANGED <<d_flag_preamble, d_last_valid_preamble>>

\* Fault variant of Case2: the preamble index is not advanced (line 484 dropped).
Case2KeepingIndex ==
    /\ pc = "switch" /\ d_stat = LOCKED
    /\ stat_seen' = d_stat /\ pc' = "tow"
    /\ IF d_sample_counter = d_preamble_index + P
       THEN /\ DecodeSubframe(page)
            /\ IF DecodeOk(page) THEN FrameConfirmed ELSE CrcFailure
       ELSE UNCHANGED <<d_CRC_error_counter, d_flag_preamble, d_last_valid_preamble,
                        d_flag_frame_sync, d_stat, towVars, navVars>>
    /\ UNCHANGED <<d_preamble_index, d_flag_PLL_180_deg_phase_locked, stat_next>>
    /\ SwitchKeeps

(***************************************************************************)
(* case 2, LOCKED (lines 477-514): exactly one period after the recorded   *)
(* preamble, record the new one and decode; the outcome confirms the frame *)
(* or counts a failure.  d_last_valid_preamble is written under d_setlock  *)
(* (line 490), the only lock general_work takes.                           *)
(***************************************************************************)
Case2 ==
    /\ pc = "switch" /\ d_stat = LOCKED
    /\ stat_seen' = d_stat /\ pc' = "tow"
    /\ IF d_sample_counter = d_preamble_index + P
       THEN /\ d_preamble_index' = d_sample_counter
            /\ DecodeSubframe(page)
            /\ IF DecodeOk(page) THEN FrameConfirmed ELSE CrcFailure
       ELSE UNCHANGED <<d_preamble_index, d_CRC_error_counter, d_flag_preamble,
                        d_last_valid_preamble, d_flag_frame_sync, d_stat, towVars, navVars>>
    /\ UNCHANGED <<d_flag_PLL_180_deg_phase_locked, stat_next>>
    /\ SwitchKeeps

\* Line 419: d_stat = 1, written after the decode of case 0.
CommitPossibleLock ==
    /\ pc = "commit" /\ stat_next = POSSIBLE_LOCK
    /\ d_stat' = POSSIBLE_LOCK
    /\ pc' = "tow"
    /\ UNCHANGED <<d_symbol_history, d_sample_counter, d_preamble_index, d_last_valid_preamble,
                   d_CRC_error_counter, d_flag_frame_sync, d_flag_PLL_180_deg_phase_locked,
                   towVars, d_flag_preamble, alarmVars, d_satellite, page, out,
                   stat_next, stat_seen, reset_pending, navVars>>

\* Line 463: d_stat = 2, written after the decode of case 1.
CommitLocked ==
    /\ pc = "commit" /\ stat_next = LOCKED
    /\ d_stat' = LOCKED
    /\ pc' = "tow"
    /\ UNCHANGED <<d_symbol_history, d_sample_counter, d_preamble_index, d_last_valid_preamble,
                   d_CRC_error_counter, d_flag_frame_sync, d_flag_PLL_180_deg_phase_locked,
                   towVars, d_flag_preamble, alarmVars, d_satellite, page, out,
                   stat_next, stat_seen, reset_pending, navVars>>

(***************************************************************************)
(* Lines 517-585: on a call with a valid preamble take the TOW the Message *)
(* Assembler decoded (a zero TOW is ignored); otherwise, once the TOW is   *)
(* known, advance it by IRNSS_L5_PREAMBLE_DURATION_MS.  The uint32 never *)
(* nears 2^32 within the bounds checked, so it is kept as a natural.      *)
(* When the TOW is known, return the symbol stamped with it, its carrier   *)
(* phase shifted by pi if the PLL locked at 180 degrees; otherwise return  *)
(* nothing.                                                                *)
(***************************************************************************)
TowUpdate ==
    /\ pc = "tow"
    /\ pc' = "idle"
    /\ IF d_flag_preamble THEN
           IF nav.d_TOW # 0 THEN
               /\ d_TOW_at_current_symbol_ms' = nav.d_TOW * 1000
               /\ d_TOW_at_Preamble_ms' = nav.d_TOW * 1000
               /\ d_flag_TOW_set' = TRUE
               /\ tow_sat' = d_satellite
           ELSE UNCHANGED towVars
       ELSE IF d_flag_TOW_set THEN
           /\ d_TOW_at_current_symbol_ms' =
                  d_TOW_at_current_symbol_ms + IRNSS_L5_PREAMBLE_DURATION_MS
           /\ UNCHANGED <<d_TOW_at_Preamble_ms, d_flag_TOW_set, tow_sat>>
       ELSE UNCHANGED towVars
    /\ out' = IF d_flag_TOW_set'
              THEN [tow |-> d_TOW_at_current_symbol_ms',
                    phase_corrected |-> d_flag_PLL_180_deg_phase_locked,
                    sat |-> d_satellite, tow_sat |-> tow_sat', stat_seen |-> stat_seen]
              ELSE NoOutput
    /\ UNCHANGED <<d_symbol_history, d_sample_counter, lockVars, d_flag_preamble, alarmVars,
                   d_satellite, page, stat_next, stat_seen, reset_pending, navVars>>

-----------------------------------------------------------------------------
(* The control thread *)

(***************************************************************************)
(* reset() (lines 329-336), under d_setlock: restart the watchdog from the *)
(* current sample, re-arm the alarm and return to NO_PREAMBLE.  It may     *)
(* take effect between any two steps of general_work.                     *)
(***************************************************************************)
Reset ==
    /\ d_last_valid_preamble' = d_sample_counter
    /\ d_sent_tlm_failed_msg' = FALSE
    /\ d_stat' = NO_PREAMBLE
    /\ alarms_since_reset' = 0
    /\ reset_pending' = TRUE
    /\ UNCHANGED <<d_symbol_history, d_sample_counter, d_preamble_index, d_CRC_error_counter,
                   d_flag_frame_sync, d_flag_PLL_180_deg_phase_locked, towVars, d_flag_preamble,
                   d_satellite, page, telemetry_to_trk, out, pc, stat_next, stat_seen, navVars>>

(***************************************************************************)
(* set_satellite (lines 285-326), without a lock: a new navigation-message *)
(* object and the new satellite.  Nothing of the frame synchronizer is     *)
(* touched.                                                                *)
(***************************************************************************)
SetSatellite(s) ==
    /\ NewNavMessage
    /\ d_satellite' = s
    /\ UNCHANGED <<d_symbol_history, d_sample_counter, lockVars, towVars, d_flag_preamble,
                   alarmVars, page, out, pc, stat_next, stat_seen, reset_pending>>
-----------------------------------------------------------------------------
(* The block, from construction (lines 52-137) *)

FrameInit ==
    /\ d_symbol_history = <<>>
    /\ d_sample_counter = 0 /\ d_preamble_index = 0 /\ d_last_valid_preamble = 0
    /\ d_stat = NO_PREAMBLE /\ d_CRC_error_counter = 0
    /\ d_flag_frame_sync = FALSE /\ d_flag_PLL_180_deg_phase_locked = FALSE
    /\ d_flag_TOW_set = FALSE /\ d_flag_preamble = FALSE
    /\ d_TOW_at_current_symbol_ms = 0 /\ d_TOW_at_Preamble_ms = 0
    /\ d_sent_tlm_failed_msg = FALSE
    /\ d_satellite \in Satellites
    /\ page \in InputSubframes
    /\ telemetry_to_trk = <<>> /\ out = NoOutput /\ pc = "idle"
    /\ stat_next = NO_PREAMBLE /\ stat_seen = NO_PREAMBLE
    /\ tow_sat = d_satellite /\ alarms_since_reset = 0 /\ reset_pending = FALSE
    /\ NavInit

FrameNext ==
    \/ \E sym \in SymbolsAt(d_sample_counter + 1) : Receive(sym)
    \/ LatchAlarm
    \/ Case0 \/ Case1 \/ Case2
    \/ CommitPossibleLock
    \/ CommitLocked
    \/ TowUpdate
    \/ Reset
    \/ \E s \in Satellites : SetSatellite(s)

FrameSpec == FrameInit /\ [][FrameNext]_vars

-----------------------------------------------------------------------------
(* Properties *)

TypeOK ==
    /\ d_symbol_history \in Seq({-1, 1}) /\ Len(d_symbol_history) <= Capacity
    /\ d_sample_counter \in 0..MaxSamples
    /\ {d_preamble_index, d_last_valid_preamble} \subseteq 0..MaxSamples
    /\ d_stat \in {NO_PREAMBLE, POSSIBLE_LOCK, LOCKED} /\ stat_next \in 0..2
    /\ d_CRC_error_counter \in 0..2
    /\ d_TOW_at_Preamble_ms \in Nat
    /\ d_TOW_at_current_symbol_ms \in Nat
    /\ d_satellite \in Satellites /\ tow_sat \in Satellites
    /\ out \in OutputRecord \cup {NoOutput}
    /\ pc \in {"idle", "latch", "switch", "commit", "tow"}
    /\ reset_pending \in BOOLEAN
    /\ NavTypeOK

(***************************************************************************)
(* A call of general_work returns a record only from a frame it found      *)
(* LOCKED.  Output is gated by d_flag_TOW_set alone, so this rests on      *)
(* every path back to NO_PREAMBLE (loss of sync, reset() from the control  *)
(* thread, the POSSIBLE_LOCK timeout) clearing that flag before the next   *)
(* record could be returned.                                               *)
(***************************************************************************)
EmitOnlyWhenLocked ==
    (pc = "idle" /\ out # NoOutput) => out.stat_seen = LOCKED

(***************************************************************************)
(* While LOCKED, the recorded preamble index is never more than one        *)
(* subframe behind the sample counter: case 2 matches the exact instant    *)
(* d_preamble_index + period and moves the index on, so the equality test  *)
(* of line 479 can never be skipped past (which would leave the frame      *)
(* LOCKED for ever without decoding or counting failures).                 *)
(***************************************************************************)
LockedDecodesEveryPeriod ==
    d_stat = LOCKED => d_sample_counter - d_preamble_index <= P

(***************************************************************************)
(* The bad-telemetry alarm of lines 381-390 is published at most once      *)
(* between two reset() calls, whatever the interleaving with reset().      *)
(***************************************************************************)
AlarmOncePerEpisode ==
    alarms_since_reset <= 1

(***************************************************************************)
(* Spec section 5: a reset() cannot interleave partially with a decode     *)
(* cycle's state update.  A reset() that lands after the case-1 decode     *)
(* (line 461) and before its d_stat = 2 (line 463) is lost: had it run     *)
(* before the step, general_work would have taken case 0 and could not     *)
(* reach LOCKED.  So until general_work reads d_stat again after a reset,  *)
(* the frame is not LOCKED.  (The d_stat = 1 of line 419 after a reset     *)
(* gives the state the reset followed by the whole step gives, so it is    *)
(* allowed.)                                                               *)
(***************************************************************************)
ResetTakesEffect ==
    reset_pending => d_stat # LOCKED

(***************************************************************************)
(* Spec sections 4.1 and 7: the bad-telemetry alarm is latched until       *)
(* reset().  The latch d_sent_tlm_failed_msg is set only by an alarm       *)
(* published since the last reset(); otherwise the next bad-telemetry      *)
(* period raises no alarm.  It needs the publication (line 387) and the    *)
(* unlocked latch write (line 388) not to be split by reset().             *)
(***************************************************************************)
AlarmLatchedOnlyAfterAlarm ==
    d_sent_tlm_failed_msg => alarms_since_reset >= 1

(***************************************************************************)
(* Spec section 6: set_satellite "also clears all per-satellite decoder    *)
(* state".  So every record general_work returns is stamped with a TOW     *)
(* latched from a subframe decoded while the satellite it now reports was  *)
(* the current one.  set_satellite (lines 285-326) replaces d_nav and      *)
(* d_satellite only; d_flag_TOW_set and the TOW values stay.               *)
(***************************************************************************)
OutputFromCurrentSatellite ==
    (pc = "idle" /\ out # NoOutput) => out.tow_sat = out.sat

=============================================================================
