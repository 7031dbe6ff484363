------------------------------ MODULE MCNavTime ------------------------------
(***************************************************************************)
(* The time conversions applied to the decoded navigation data, composed:  *)
(* the Irnss_Ephemeris side (t_oc and t_oe read from subframes 1 and 2,   *)
(* check_t of transmit time minus either) and the UTC side (the leap-     *)
(* second fields read from message 9 or 26, utc_time at the receiver's    *)
(* clock).  Subframe_decoder feeds both from the same message stream; the  *)
(* two share no variable, so a step of one leaves the other unchanged.     *)
(***************************************************************************)
EXTENDS Integers

VARIABLES
    d_Toc, d_Toe, last,        \* Irnss_Ephemeris (EphemerisTime)
    t, start, week, p, raw     \* the receiver clock and the UTC parameters (UtcTime)

ephVars == <<d_Toc, d_Toe, last>>
utcVars == <<t, start, week, p, raw>>
vars == <<ephVars, utcVars>>

\* Transmit times at the start of the week, around half a week (0.1 s
\* either side) and at its end; reference times 0, 302400 s and 604784 s,
\* the largest the 16-bit field allows, so that every difference lands on or
\* next to a check_t boundary.
MCTransmitTimes == {0, 1, 3023999, 3024000, 3024001, 6047999}
MCRefFields == {0, 18900, 37799}

\* Leap-second event at the start of day 1 (IRNSS time 86400) of week 10.
\* The clock starts just before the six-hour window opens, around UTC
\* midnight of the event day (86400 + 18), just before the window closes,
\* at IRNSS midnight, and at the start of the week.
MCStarts == {0, 64797, 86397, 86415, 107997}
MCSpan == 5
MCWeeks == {10}

\* Raw fields: an inserted second, a deleted second, an event next week,
\* a past event, and an inserted second with negative counts (raw 250 and
\* 251 are -6 and -5 in 8-bit two's complement).
MCLeapFrames ==
    {[DeltaT_LS |-> 18, DeltaT_LSF |-> 19, WN_LSF |-> 10, DN |-> 1],
     [DeltaT_LS |-> 18, DeltaT_LSF |-> 17, WN_LSF |-> 10, DN |-> 1],
     [DeltaT_LS |-> 18, DeltaT_LSF |-> 19, WN_LSF |-> 11, DN |-> 1],
     [DeltaT_LS |-> 18, DeltaT_LSF |-> 19, WN_LSF |-> 9,  DN |-> 1],
     [DeltaT_LS |-> 250, DeltaT_LSF |-> 251, WN_LSF |-> 10, DN |-> 1]}

Eph == INSTANCE EphemerisTime
       WITH TransmitTimes <- MCTransmitTimes, RefFields <- MCRefFields

Utc == INSTANCE UtcTime
       WITH Starts <- MCStarts, Span <- MCSpan, Weeks <- MCWeeks,
            LeapFrames <- MCLeapFrames

NavTimeInit == Eph!EphInit /\ Utc!UtcInit

NavTimeNext ==
    \/ Eph!EphNext /\ UNCHANGED utcVars
    \/ Utc!UtcNext /\ UNCHANGED ephVars

NavTimeSpec == NavTimeInit /\ [][NavTimeNext]_vars

-----------------------------------------------------------------------------
\* Type invariant of the ephemeris side.
EphTypeOK == Eph!EphTypeOK

\* check_t brings every difference of a transmit time and t_oc or t_oe
\* within half a week, by whole weeks, and leaves alone one that already is
\* (Irnss_Ephemeris::check_t and its four callers).
CheckTWrapsIntoHalfWeek == Eph!CheckTWrapsIntoHalfWeek

\* The leap-second fields utc_time uses are those the last message 9 or 26
\* transmitted, the signed ones as 8-bit two's complement
\* (read_navigation_signed/unsigned in subframe_decoder).
UtcParamsAsTransmitted == Utc!UtcParamsAsTransmitted

\* The UTC time of day of utc_time advances one second per second of IRNSS
\* time and wraps only at the end of a day of 86400 + LSF - LS seconds.
UtcDaytimeAdvances == Utc!UtcDaytimeAdvances


=============================================================================
