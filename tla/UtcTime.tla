------------------------------ MODULE UtcTime ------------------------------
(***************************************************************************)
(* IRNSS time to UTC: Irnss_Utc_Model::utc_time (irnss_utc_model.cc) and  *)
(* its copy Irnss_Navigation_Message::utc_time (irnss_navigation_message.cc)*)
(* which reads the same parameters from the message's own fields.          *)
(*                                                                         *)
(* Times are whole seconds.  The drift terms A0 and A1 are taken as zero,  *)
(* so Delta_t_UTC is the leap-second count itself; the branch structure,   *)
(* the fmod calls (C fmod keeps the sign of its first argument), the int32 *)
(* cast inside the six-hour window and the final re-basing are kept.  The  *)
(* receiver's clock is a variable that advances one second per step from   *)
(* a few starting points, so that properties can relate successive results.*)
(***************************************************************************)
EXTENDS Integers, BitField

CONSTANTS
    Starts,       \* IRNSS times of week the clock starts from
    Span,         \* seconds the clock runs from its start
    Weeks,        \* values of i_IRNSS_week
    LeapFrames    \* raw [DeltaT_LS, DeltaT_LSF, WN_LSF, DN] fields of message 9

ASSUME Starts \subseteq 0..604799 /\ Span \in Nat /\ Weeks \subseteq Int

FMod(x, m) == IF x >= 0 THEN x % m ELSE -((-x) % m)

AbsU(x) == IF x < 0 THEN -x ELSE x

FloorDiv(x, m) == x \div m       \* floor() of a quotient: \div rounds down

\* Mutant: the leap-second terms of the day length swapped.
LeapDayLengthSwapped(p) == 86400 + p.DeltaT_LS - p.DeltaT_LSF

\* The length of the day of the leap-second event: 86400 + LSF - LS.
LeapDayLength(p) == 86400 + p.DeltaT_LSF - p.DeltaT_LS

(***************************************************************************)
(* t_utc_daytime, as both copies compute it (utc_model.cc 43-97).          *)
(***************************************************************************)
UtcDaytime(t, week, p) ==
    LET deltaLS  == p.DeltaT_LS            \* d_DeltaT_LS + d_A0 + d_A1 * (...)
        deltaLSF == p.DeltaT_LSF           \* d_DeltaT_LSF + d_A0 + d_A1 * (...)
        weeksToLeapSecondEvent == p.WN_LSF - week
        secondOfLeapSecondEvent == p.DN * 24 * 60 * 60
        W == FMod(t - deltaLS - 43200, 86400) + 43200
        sameWeek ==
            IF AbsU(t - secondOfLeapSecondEvent) > 21600
            THEN FMod(t - deltaLS, 86400)
            ELSE FMod(W, LeapDayLength(p))
    IN  CASE weeksToLeapSecondEvent > 0 -> FMod(t - deltaLS, 86400)
          [] weeksToLeapSecondEvent = 0 ->
                IF (t - secondOfLeapSecondEvent) > 21600
                THEN FMod(t - deltaLSF, 86400)
                ELSE sameWeek
          [] OTHER -> FMod(t - deltaLSF, 86400)

\* Irnss_Utc_Model::utc_time: re-based on whole days.
UtcModelUtcTime(t, week, p) ==
    86400 * FloorDiv(t, 86400) + UtcDaytime(t, week, p)

\* Irnss_Navigation_Message::utc_time: re-based on half days.
NavUtcTime(t, week, p) ==
    43200 * FloorDiv(t, 43200) + UtcDaytime(t, week, p)

\* The leap-second parameters subframe_decoder reads from a message 9 or 26
\* carrying the raw fields r (lines 383-386): two signed and two unsigned
\* fields of the transmitted subframe.
DecodeUtcParams(r) ==
    LET bits == SubframeBits(Transmit({<<IRNSS_DELTAT_LS, r.DeltaT_LS>>,
                                       <<IRNSS_WN_LSF, r.WN_LSF>>,
                                       <<IRNSS_DN, r.DN>>,
                                       <<IRNSS_DELTAT_LSF, r.DeltaT_LSF>>}))
    IN  [DeltaT_LS  |-> ReadNavigationSigned(bits, IRNSS_DELTAT_LS),
         WN_LSF     |-> ReadNavigationUnsigned(bits, IRNSS_WN_LSF),
         DN         |-> ReadNavigationUnsigned(bits, IRNSS_DN),
         DeltaT_LSF |-> ReadNavigationSigned(bits, IRNSS_DELTAT_LSF)]

VARIABLES t, start, week, p, raw

vars == <<t, start, week, p, raw>>

UtcInit ==
    /\ start \in Starts
    /\ t = start
    /\ week \in Weeks
    /\ raw \in LeapFrames
    /\ p = DecodeUtcParams(raw)

\* One second of receiver time passes.
Tick ==
    /\ t < start + Span
    /\ t' = t + 1
    /\ UNCHANGED <<start, week, p, raw>>

\* A message 9 or 26 reloads d_DeltaT_LS, i_WN_LSF, i_DN and d_DeltaT_LSF
\* (subframe_decoder), which the next utc_time call, or the copy that
\* get_utc_model hands out, uses.
LoadUtcParams ==
    /\ \E r \in LeapFrames : raw' = r /\ p' = DecodeUtcParams(r)
    /\ UNCHANGED <<t, start, week>>

UtcNext == Tick \/ LoadUtcParams

UtcSpec == UtcInit /\ [][UtcNext]_vars

----------------------------------------------------------------------------
\* The leap-second parameters utc_time uses are the values the last message
\* transmitted: the signed fields DeltaT_LS and DeltaT_LSF as 8-bit two's
\* complement numbers (read_navigation_signed), WN_LSF and DN as unsigned.
UtcParamsAsTransmitted ==
    p = [DeltaT_LS  |-> TwosComplement(raw.DeltaT_LS, 8),
         WN_LSF     |-> raw.WN_LSF,
         DN         |-> raw.DN,
         DeltaT_LSF |-> TwosComplement(raw.DeltaT_LSF, 8)]

\* The UTC time of day that utc_time computes advances by one second for
\* every second of IRNSS time, through the six-hour window around the leap
\* second event and across its edges, and wraps to 0 only after 86399 or,
\* on the day of the event, after 86399 + DeltaT_LSF - DeltaT_LS (the
\* inserted 23:59:60, or the deleted 23:59:59).
UtcDaytimeAdvances ==
    [][Tick =>
        LET d  == UtcDaytime(t, week, p)
            d2 == UtcDaytime(t', week, p)
        IN  \/ d2 = d + 1
            \/ d2 = 0 /\ d \in {86399, 86399 + p.DeltaT_LSF - p.DeltaT_LS}]_vars

============================================================================
