--------------------------- MODULE EphemerisTime ---------------------------
(***************************************************************************)
(* The time arguments of the orbital and clock model of                    *)
(* src/core/system_parameters/irnss_ephemeris.cc: check_t, and the four    *)
(* places that call it with a transmit time minus a reference time (t_oc   *)
(* or t_oe) decoded by Irnss_Navigation_Message from a 16-bit field scaled *)
(* by 16 s.  The floating-point orbit and clock arithmetic around these    *)
(* calls is not modelled; times are integers in tenths of a second, so     *)
(* that the boundary values 302400.1 and -302400.1 are exact.              *)
(***************************************************************************)
EXTENDS Integers, BitField

CONSTANTS
    TransmitTimes,   \* transmitTime arguments, in 0.1 s
    RefFields        \* raw 16-bit t_oc / t_oe fields

ASSUME TransmitTimes \subseteq Int /\ RefFields \subseteq 0..65535

Tenths == 10
HalfWeek == 302400 * Tenths
Week == 2 * HalfWeek

\* Mutant: a scale factor of 2^5 seconds.
IRNSS_T_OC_LSB_P5 == 32

\* IRNSS_T_OC_LSB = IRNSS_T_OE_LSB = 2^4 seconds.
IRNSS_T_OC_LSB == 16
IRNSS_T_OE_LSB == 16

\* Mutant: the upper bound tested with >=.
CheckTInclusive(time) ==
    CASE time >= HalfWeek  -> time - 2 * HalfWeek
      [] time < -HalfWeek  -> time + 2 * HalfWeek
      [] OTHER             -> time

\* Irnss_Ephemeris::check_t: one week subtracted above half a week, one
\* added below minus half a week.
CheckT(time) ==
    CASE time > HalfWeek   -> time - 2 * HalfWeek
      [] time < -HalfWeek  -> time + 2 * HalfWeek
      [] OTHER             -> time

VARIABLES
    d_Toc,   \* clock reference time, 0.1 s
    d_Toe,   \* ephemeris reference time, 0.1 s
    last     \* the check_t calls of the last operation: [arg, tk] records

vars == <<d_Toc, d_Toe, last>>

EphInit ==
    /\ d_Toc = 0
    /\ d_Toe = 0
    /\ last = {}

Call(arg) == [arg |-> arg, tk |-> CheckT(arg)]

\* The raw field of parameter read back from a subframe that carries f.
FieldRead(parameter, f) ==
    ReadNavigationUnsigned(SubframeBits(Transmit({<<parameter, f>>})), parameter)

\* Subframe 1 decoding: d_Toc = read_navigation_unsigned(IRNSS_T_OC) * LSB.
DecodeToc ==
    \E f \in RefFields :
        /\ d_Toc' = FieldRead(IRNSS_T_OC, f) * IRNSS_T_OC_LSB * Tenths
        /\ UNCHANGED <<d_Toe, last>>

\* Subframe 2 decoding: d_Toe = read_navigation_unsigned(IRNSS_T_OE) * LSB.
DecodeToe ==
    \E f \in RefFields :
        /\ d_Toe' = FieldRead(IRNSS_T_OE, f) * IRNSS_T_OE_LSB * Tenths
        /\ UNCHANGED <<d_Toc, last>>

\* sv_clock_drift: dt = check_t(transmitTime - d_Toc), and through
\* sv_clock_relativistic_term, tk = check_t(transmitTime - d_Toe).
SvClockDrift(tt) ==
    /\ last' = {Call(tt - d_Toc), Call(tt - d_Toe)}
    /\ UNCHANGED <<d_Toc, d_Toe>>

\* sv_clock_relativistic_term: tk = check_t(transmitTime - d_Toe).
SvClockRelativisticTerm(tt) ==
    /\ last' = {Call(tt - d_Toe)}
    /\ UNCHANGED <<d_Toc, d_Toe>>

\* satellite_position: tk = check_t(transmitTime - d_Toe) for the orbit,
\* then tk = check_t(transmitTime - d_Toc) for the clock bias.
SatellitePosition(tt) ==
    /\ last' = {Call(tt - d_Toe), Call(tt - d_Toc)}
    /\ UNCHANGED <<d_Toc, d_Toe>>

EphNext ==
    \/ DecodeToc
    \/ DecodeToe
    \/ \E tt \in TransmitTimes :
        \/ SvClockDrift(tt)
        \/ SvClockRelativisticTerm(tt)
        \/ SatellitePosition(tt)

EphSpec == EphInit /\ [][EphNext]_vars

----------------------------------------------------------------------------
\* Type invariant: the reference times are times of week.
EphTypeOK ==
    /\ d_Toc \in 0..Week /\ d_Toe \in 0..Week
    /\ \A c \in last : c.arg \in Int /\ c.tk \in Int

AbsT(x) == IF x < 0 THEN -x ELSE x

\* Every time difference the orbit and clock formulas use, check_t of a
\* transmit time minus t_oc or t_oe, lies within half a week, differs from
\* the raw difference by whole weeks, and is the raw difference itself when
\* that already lies within half a week (check_t(302400.0) = 302400.0).
CheckTWrapsIntoHalfWeek ==
    \A c \in last :
        /\ AbsT(c.tk) <= HalfWeek
        /\ (c.tk - c.arg) % Week = 0
        /\ AbsT(c.arg) <= HalfWeek => c.tk = c.arg

============================================================================
