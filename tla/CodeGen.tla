------------------------------ MODULE CodeGen ------------------------------
(***************************************************************************)
(* The IRNSS L5 SPS spreading-code generator of                            *)
(* src/algorithms/libs/irnss_sdr_signal_replica.cc.                        *)
(*                                                                         *)
(* The two 10-stage shift registers G1 and G2 are simulated step by step  *)
(* exactly as the loops of irnss_l5_sps_code_gen_int do; the code of a     *)
(* PRN is then G1 xor a delayed G2.  Each public function is an action    *)
(* on the destination buffer a call writes, with inputs drawn from small   *)
(* sets; AcqAdapter composes these actions with the one caller of the      *)
(* sampled generator in the repository.  Bits are 0/1 naturals; the       *)
(* output chips are the integers 1 and -1.                                 *)
(***************************************************************************)
EXTENDS Naturals, Integers, Sequences, FiniteSets

CONSTANTS
    Prns,              \* PRN numbers the callers pass (_prn)
    ChipShifts,        \* values of _chip_shift
    OutOfBoundsReads   \* what delays[prn_idx] can read for prn_idx in 10..14

ASSUME Prns \subseteq Int /\ ChipShifts \subseteq 0..1022
ASSUME OutOfBoundsReads \subseteq 0..1023

CodeLength == 1023
Chips == 0..CodeLength - 1

\* The G2 delays table of irnss_l5_sps_code_gen_int (10 entries, PRN 1..10).
Delays == <<935, 38, 564, 370, 944, 107, 20, 304, 152, 868>>

(***************************************************************************)
(* The shift registers.  Bit 0 is the output stage; each step shifts every *)
(* stage down by one and puts the feedback into stage 9.                   *)
(***************************************************************************)
AllOnes == [k \in 0..9 |-> 1]

Feedback1(r) == (r[7] + r[0]) % 2

\* Mutant: the feedback of G2 without the tap on stage 4.
Feedback2MissingTap(r) == (r[8] + r[7] + r[2] + r[1] + r[0]) % 2

Feedback2(r) == (r[8] + r[7] + r[4] + r[2] + r[1] + r[0]) % 2

ShiftIn(r, fb) == [k \in 0..9 |-> IF k = 9 THEN fb ELSE r[k + 1]]

Step(r, which) ==
    ShiftIn(r, IF which = 1 THEN Feedback1(r) ELSE Feedback2(r))

\* The states the register passes through in n steps, starting from r; the
\* run is split in halves so that the recursion stays shallow.
RECURSIVE RegisterTrace(_, _, _)
RegisterTrace(r, which, n) ==
    IF n <= 1 THEN [i \in 1..n |-> r]
    ELSE LET first == RegisterTrace(r, which, n \div 2)
         IN  first \o RegisterTrace(Step(first[n \div 2], which), which, n - n \div 2)

G1Trace == RegisterTrace(AllOnes, 1, CodeLength)
G2Trace == RegisterTrace(AllOnes, 2, CodeLength)

\* G1[lcv] = G1_register[0] and G2[lcv] = G2_register[0] at step lcv.
G1 == [n \in Chips |-> G1Trace[n + 1][0]]
G2 == [n \in Chips |-> G2Trace[n + 1][0]]

(***************************************************************************)
(* The code of irnss_l5_sps_code_gen_int for a G2 delay d read from the    *)
(* table and a chip shift: delay = (1023 - d + shift) % 1023, then chip    *)
(* lcv is G1[(lcv + shift) % 1023] xor G2[delay], delay advancing by one.  *)
(***************************************************************************)
\* Mutant: the chip shift not added to the G2 delay.
DelayStartUnshifted(d, shift) == (CodeLength - d) % CodeLength

DelayStart(d, shift) == ((CodeLength - d) + shift) % CodeLength

\* Mutant: the xor stored as it is (_dest[lcv] = aux).
ChipUnsigned(bit) == bit

Chip(bit) == IF bit = 1 THEN 1 ELSE -1

CodeFromDelay(d, shift) ==
    [lcv \in Chips |->
        Chip((G1[(lcv + shift) % CodeLength]
              + G2[(DelayStart(d, shift) + lcv) % CodeLength]) % 2)]

\* The range check on prn_idx = _prn - 1.
PrnAccepted(prn) == ~(prn - 1 < 0 \/ prn - 1 > 14)

\* What delays[prn_idx] yields: the table entry, or for indices past the
\* end of the 10-entry array any of the values the read can produce.
DelayRead(prn) ==
    CASE ~PrnAccepted(prn)     -> {0}
      [] prn - 1 < Len(Delays) -> {Delays[prn]}
      [] OTHER                 -> OutOfBoundsReads

\* An all-zero buffer: the value-initialised std::array of the callers.
ZeroCode == [lcv \in Chips |-> 0]

(***************************************************************************)
(* irnss_l5_sps_code_gen_complex_sampled: samplesPerCode = fs / 1000; the  *)
(* chip read for sample i is auxCeil((ts * (i + 1)) / tc) - 1, where       *)
(* auxCeil(x) = (int)(x + 1), and the last sample reads chip 1022.  The    *)
(* float quotient is taken exactly: (i + 1) * 1023000 / fs.                *)
(***************************************************************************)
SamplesPerCode(fs) == fs \div (1023000 \div CodeLength)

\* Mutant: the last sample's index not corrected to 1022.
SampledIndexUncorrected(fs, i) == ((i + 1) * 1023000) \div fs

\* _code[_codeValueIndex]; a read past the 1023-chip array yields whatever
\* lies there, which 0 stands for.
CodeAt(code, k) == IF k \in Chips THEN code[k] ELSE 0

SampledIndex(fs, i) ==
    IF i = SamplesPerCode(fs) - 1 THEN CodeLength - 1
    ELSE ((i + 1) * 1023000) \div fs

----------------------------------------------------------------------------
(***************************************************************************)
(* The callers.  dest is the destination buffer the last call wrote,       *)
(* reads the chip indices a sampled call read, call what was asked.        *)
(***************************************************************************)
VARIABLES dest, reads, call

vars == <<dest, reads, call>>

NoCall == [fn |-> "none", prn |-> 0, shift |-> 0, delay |-> 0, accepted |-> FALSE]

CodeGenInit ==
    /\ dest = ZeroCode
    /\ reads = <<>>
    /\ call = NoCall

CallRecord(fn, prn, shift, d) ==
    [fn |-> fn, prn |-> prn, shift |-> shift, delay |-> d, accepted |-> PrnAccepted(prn)]

\* irnss_l5_sps_code_gen_int into the caller's buffer: an early return for a
\* rejected PRN leaves the buffer as it was.
CodeGenInt(prn, shift) ==
    \E d \in DelayRead(prn) :
        /\ dest' = IF PrnAccepted(prn) THEN CodeFromDelay(d, shift) ELSE dest
        /\ reads' = <<>>
        /\ call' = CallRecord("int", prn, shift, d)

\* irnss_l5_sps_gen_float and irnss_l5_sps_code_gen_complex: code_gen_int into
\* a fresh zero-initialised array, then an exact conversion of every chip.
GenConverted(fn, prn, shift) ==
    \E d \in DelayRead(prn) :
        /\ dest' = IF PrnAccepted(prn) THEN CodeFromDelay(d, shift) ELSE ZeroCode
        /\ reads' = <<>>
        /\ call' = CallRecord(fn, prn, shift, d)

\* irnss_l5_sps_code_gen_complex_sampled.
CodeGenComplexSampled(prn, fs, shift) ==
    \E d \in DelayRead(prn) :
        LET code == IF PrnAccepted(prn) THEN CodeFromDelay(d, shift) ELSE ZeroCode
            idx  == [i \in 1..SamplesPerCode(fs) |-> SampledIndex(fs, i - 1)]
        IN  /\ reads' = idx
            /\ dest' = [i \in 1..SamplesPerCode(fs) |-> CodeAt(code, idx[i])]
            /\ call' = CallRecord("sampled", prn, shift, d)

----------------------------------------------------------------------------
\* Type invariant.
CodeGenTypeOK ==
    /\ \/ dest \in [Chips -> {-1, 1}]
       \/ dest = ZeroCode
       \/ \E n \in 1..2000 : dest \in [1..n -> {-1, 0, 1}]
    /\ reads \in Seq(Int)
    /\ call.fn \in {"none", "int", "float", "complex", "sampled"}

\* The number of positions where two +-1 codes agree minus where they differ,
\* with b rotated by lag chips.
Correlation(a, b, lag) ==
    2 * Cardinality({i \in Chips : a[i] = b[(i + lag) % CodeLength]}) - CodeLength

\* The code irnss_l5_sps_code_gen_complex returns (the generator the
\* acquisition uses) for any accepted PRN other than PRN 1, at any shift,
\* forms a Gold pair with the code of PRN 1: their cross-correlation at
\* every lag takes only the three values -1, -65 and 63.  Acquisition relies
\* on this to tell satellites apart; it holds only if the feedback taps of
\* G1 and G2 are those of a preferred pair of polynomials.
\* The code of PRN 1, evaluated once for every lag of the correlation.
Prn1Code == [lcv \in Chips |-> CodeFromDelay(Delays[1], 0)[lcv]]
GoldCrossCorrelation ==
    call.fn = "complex" /\ call.accepted /\ call.delay # Delays[1] =>
        {Correlation(Prn1Code, dest, lag) : lag \in Chips}
            \subseteq {-1, -65, 63}

\* A call with a chip shift s returns the unshifted code of the same PRN
\* rotated left by s chips: the delay of G2 and the index into G1 must both
\* move by the shift (delay += _chip_shift and (lcv + _chip_shift) % 1023).
ChipShiftRotates ==
    call.fn \in {"int", "float", "complex"} /\ call.accepted =>
        LET base == CodeFromDelay(call.delay, 0)
        IN  dest = [lcv \in Chips |-> base[(lcv + call.shift) % CodeLength]]

\* A sampled code reads only chips of the 1023-chip code: the index of the
\* last sample, which rounding would put at 1023, is corrected to 1022.
SampledIndexInBounds ==
    call.fn = "sampled" => \A i \in DOMAIN reads : reads[i] \in Chips

\* Every PRN that passes the range check has an entry in the delays table.
\* The check of irnss_l5_sps_code_gen_int accepts prn_idx up to 14 while the
\* table has 10 entries.
AcceptedPrnHasDelay ==
    call.accepted => call.prn - 1 < Len(Delays)

============================================================================
