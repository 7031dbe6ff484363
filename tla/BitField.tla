------------------------------ MODULE BitField ------------------------------
(***************************************************************************)
(* The bit-field readers of Irnss_Navigation_Message                      *)
(* (irnss_navigation_message.cc): a subframe arrives as a string of '0'   *)
(* and '1', is turned into a std::bitset, and each parameter is a list of  *)
(* (start position, length) slices read most significant bit first.       *)
(* Positions are 1-based as in IRNSS_at_1.h.                               *)
(***************************************************************************)
EXTENDS Integers, Sequences, SequencesExt

IRNSS_L5_DATAFRAME_BITS == 292
N == IRNSS_L5_DATAFRAME_BITS

\* Parameters of IRNSS_at_1.h used by the time models: <<start, length>>.
IRNSS_T_OC       == << <<91, 16>> >>
IRNSS_T_OE       == << <<63, 16>> >>
IRNSS_DELTAT_LS  == << <<73, 8>> >>
IRNSS_WN_LSF     == << <<107, 10>> >>
IRNSS_DN         == << <<117, 4>> >>
IRNSS_DELTAT_LSF == << <<121, 8>> >>

\* std::bitset<N>(subframe): the first character is bit N - 1.
SubframeBits(s) == [k \in 0..N - 1 |-> s[N - k]]

\* The bit indices a parameter is read from, in reading order:
\* bits[N - first - j] for each slice and j = 0 .. length - 1.
BitIndices(parameter) ==
    FlattenSeq([i \in 1..Len(parameter) |->
        [j \in 1..parameter[i][2] |-> N - parameter[i][1] - (j - 1)]])

\* read_navigation_unsigned: value <<= 1 and the bit added, bit by bit.
ReadNavigationUnsigned(bits, parameter) ==
    FoldLeft(LAMBDA value, k : 2 * value + bits[k], 0, BitIndices(parameter))

\* Mutant: no sign extension (value starts at 0 whatever the first bit).
ReadNavigationSignedUnextended(bits, parameter) ==
    FoldLeft(LAMBDA value, k : 2 * value + bits[k], 0, BitIndices(parameter))

\* read_navigation_signed: value starts at all ones when the first bit of
\* the first slice is set, at 0 otherwise; then each bit is shifted in
\* (value *= 2 leaves bit 0 clear, so the mask of line 221 changes nothing).
ReadNavigationSigned(bits, parameter) ==
    FoldLeft(LAMBDA value, k : 2 * value + bits[k],
             IF bits[N - parameter[1][1]] = 1 THEN -1 ELSE 0,
             BitIndices(parameter))

----------------------------------------------------------------------------
(***************************************************************************)
(* The transmitted subframe: a string of N bits carrying the raw field     *)
(* values given as a set of <<parameter, value>> pairs (one slice each),   *)
(* zeros elsewhere.                                                        *)
(***************************************************************************)
FieldBit(field, pos) ==
    LET first == field[1][1][1]
        len   == field[1][1][2]
    IN  IF pos \in first..first + len - 1
        THEN (field[2] \div 2^(first + len - 1 - pos)) % 2
        ELSE 0

Transmit(fields) ==
    [pos \in 1..N |-> IF \E f \in fields : FieldBit(f, pos) = 1 THEN 1 ELSE 0]

\* The value a two's-complement field of len bits with raw bits v stands for.
TwosComplement(v, len) == IF v >= 2^(len - 1) THEN v - 2^len ELSE v

============================================================================
