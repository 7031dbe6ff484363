---------------------------- MODULE VolkKernels ----------------------------
(***************************************************************************)
(* The VOLK-GNSSSDR kernels of src/algorithms/libs/volk_gnsssdr_module:    *)
(* the fast zero-hold resampler volk_gnsssdr_16ic_xn_resampler_fast_16ic_xn *)
(* in its generic, a_sse2, u_sse2 and neon versions, and the converter     *)
(* volk_gnsssdr_16ic_convert_32fc in all its versions.                     *)
(*                                                                         *)
(* Code phases are exact rationals N / PhaseUnits chips.  The inputs are   *)
(* chosen so that every float the kernels compute is either exactly        *)
(* representable (dyadic values of a few bits) or, for the puppet's 0.1    *)
(* and -0.234, at least 0.034 chip away from every integer and half        *)
(* integer, far beyond the float error of phases below 2^12 chips; so only *)
(* the conversions to int - round(), cvtps (nearest, ties to even), the    *)
(* NEON +0.5-sign trick and the truncating (int) cast - differ.  A kernel  *)
(* reads local_code[index]; the model records the indices a call reads.    *)
(* volk_gnsssdr_16ic_resamplerfastxnpuppet_16ic, the wrapper through which *)
(* the VOLK QA test compares every version with the generic one, is        *)
(* modelled as its own call.                                               *)
(***************************************************************************)
EXTENDS Integers, Sequences, SequencesExt

CONSTANTS
    PhaseUnits,       \* phases are multiples of 1/PhaseUnits chip
    CodeLengthChips,  \* code_length_chips
    PhaseSteps,       \* code_phase_step_chips, in 1/PhaseUnits chips
    RemPhases,        \* rem_code_phase_chips arrays, in 1/PhaseUnits chips
    NumOutVectors,    \* num_out_vectors
    SampleCounts,     \* num_output_samples
    ConvertCounts,    \* num_points of the converter
    PuppetStep,       \* the puppet's code_phase_step_chips, 0.1 chip
    PuppetRem,        \* the puppet's rem_code_phase_chips[n], -0.234 chip
    PuppetCounts      \* num_points of a puppet call

ASSUME PhaseUnits \in Nat \ {0} /\ PhaseUnits % 2 = 0 /\ CodeLengthChips \in Nat \ {0}
ASSUME 10 * PuppetStep = PhaseUnits /\ 1000 * PuppetRem = -234 * PhaseUnits
ASSUME PuppetCounts \subseteq Nat \ {0}
ASSUME PhaseSteps \subseteq Nat /\ RemPhases \subseteq [1..NumOutVectors -> Int]
ASSUME NumOutVectors \in Nat \ {0} /\ SampleCounts \subseteq Nat /\ ConvertCounts \subseteq Nat

Q == PhaseUnits
L == CodeLengthChips

(***************************************************************************)
(* Conversions of a phase X / Q to int.                                    *)
(***************************************************************************)
FloorQ(X) == X \div Q            \* \div rounds towards minus infinity

\* (int) cast: towards zero.
TruncQ(X) == IF X >= 0 THEN X \div Q ELSE -((-X) \div Q)

\* C round(): to nearest, halves away from zero.
RoundQ(X) == IF X >= 0 THEN (2 * X + Q) \div (2 * Q) ELSE -((2 * (-X) + Q) \div (2 * Q))

\* Mutant: the truncating conversion _mm_cvttps_epi32.
CvtpsQTruncating(X) == TruncQ(X)

\* _mm_cvtps_epi32 under _MM_ROUND_NEAREST: to nearest, halves to even.
CvtpsQ(X) ==
    LET f == FloorQ(X)
        r == X - f * Q
    IN  CASE 2 * r < Q -> f
          [] 2 * r > Q -> f + 1
          [] OTHER     -> IF f % 2 = 0 THEN f ELSE f + 1

\* NEON: sign = the sign bit as 0.0/1.0; Round = x + 0.5 - sign; then
\* vcvtq_s32_f32, which truncates.
\* Mutant: the sign term left out.
NeonRoundQUnsigned(X) == TruncQ(X + Q \div 2)

NeonRoundQ(X) ==
    LET sign == IF X < 0 THEN Q ELSE 0
    IN  TruncQ(X + Q \div 2 - sign)

(***************************************************************************)
(* The index of sample n of vector v in each version.  Phase = step * n +  *)
(* rem.  The vector loops subtract 0.5 and convert to nearest; negative    *)
(* indices get code_length_chips added, indices above code_length_chips-1 *)
(* get it subtracted.                                                      *)
(***************************************************************************)
Phase(step, rem, n) == step * n + rem

\* Mutant: no correction of a negative index.
WrapIndexNoNegative(i) == IF i > L - 1 THEN i - L ELSE i

WrapIndex(i) ==
    LET neg == IF i < 0 THEN i + L ELSE i
    IN  IF neg > L - 1 THEN neg - L ELSE neg

GenericIndex(step, rem, n) == WrapIndex(RoundQ(Phase(step, rem, n) - Q \div 2))

Sse2VectorIndex(step, rem, n) == WrapIndex(CvtpsQ(Phase(step, rem, n) - Q \div 2))

NeonVectorIndex(step, rem, n) == WrapIndex(NeonRoundQ(Phase(step, rem, n) - Q \div 2))

\* Mutant: the tail rounding to nearest with (int)(phase + 0.5).
TailIndexRounded(step, rem, n) ==
    LET i   == TruncQ(Phase(step, rem, n) + Q \div 2)
        neg == IF i < 0 THEN i + (L - 1) ELSE i
    IN  IF neg > L - 1 THEN neg - L ELSE neg

\* The scalar tail of the SSE2 and NEON versions: no -0.5, a truncating
\* cast, and code_length_chips - 1 added to a negative index.
TailIndex(step, rem, n) ==
    LET i   == TruncQ(Phase(step, rem, n))
        neg == IF i < 0 THEN i + (L - 1) ELSE i
    IN  IF neg > L - 1 THEN neg - L ELSE neg

\* The indices read for every output vector and sample: the first
\* 4 * (num_output_samples / 4) samples by the vector loop, the rest by the
\* scalar tail.
Indices(vectorIndex(_, _, _), tailIndex(_, _, _), step, rems, count) ==
    [v \in 1..NumOutVectors |->
        [n \in 0..count - 1 |->
            IF n < 4 * (count \div 4) THEN vectorIndex(step, rems[v], n)
            ELSE tailIndex(step, rems[v], n)]]

ResampleFastGeneric(step, rems, count) ==
    Indices(GenericIndex, GenericIndex, step, rems, count)

ResampleFastASse2(step, rems, count) ==
    Indices(Sse2VectorIndex, TailIndex, step, rems, count)

\* Mutant: the tail loop runs to number <= num_output_samples.
ResampleFastUSse2Inclusive(step, rems, count) ==
    [v \in 1..NumOutVectors |->
        [n \in 0..count |->
            IF n < 4 * (count \div 4) THEN Sse2VectorIndex(step, rems[v], n)
            ELSE TailIndex(step, rems[v], n)]]

ResampleFastUSse2(step, rems, count) ==
    Indices(Sse2VectorIndex, TailIndex, step, rems, count)

ResampleFastNeon(step, rems, count) ==
    Indices(NeonVectorIndex, TailIndex, step, rems, count)

(***************************************************************************)
(* volk_gnsssdr_16ic_convert_32fc: each 16-bit complex sample becomes two  *)
(* floats, real then imaginary.  The int16 -> float conversion is exact,   *)
(* so a value keeps its number; what the versions differ in is the layout. *)
(***************************************************************************)
Samples16(in) == FlattenSeq([i \in 1..Len(in) |-> <<in[i].re, in[i].im>>])

ConvertGeneric(in) == Samples16(in)

\* _mm_set_ps / _mm256_set_ps take their arguments from the highest element
\* down and store the last argument first.
\* Mutant: the arguments stored in the order they are written.
SetPsInOrder(args) == args

SetPs(args) == Reverse(args)

\* The arguments the SSE2 and AVX loops pass for the w samples starting at
\* sample first: imag and real of the last sample, ..., of the first.
SetPsArgs(in, first, w) ==
    [k \in 1..2 * w |->
        LET p == first + w - 1 - (k - 1) \div 2
        IN  IF k % 2 = 1 THEN in[p].im ELSE in[p].re]

\* Blocks of w samples through set_ps, then num_points % w samples one by one.
ConvertSetPs(in, w) ==
    LET iters == Len(in) \div w
    IN  FlattenSeq([b \in 1..iters |-> SetPs(SetPsArgs(in, (b - 1) * w + 1, w))])
          \o ConvertGeneric(SubSeq(in, iters * w + 1, Len(in)))

ConvertASse2(in) == ConvertSetPs(in, 2)

ConvertUSse2(in) == ConvertSetPs(in, 2)

ConvertUAvx(in) == ConvertSetPs(in, 4)

ConvertAAvx(in) == ConvertSetPs(in, 4)

\* AVX2 walks the int16 array: num_points / 8 loads of 8 int16 widened in
\* place, then the int16 from avx_iters * 8 up to num_points * 2 one by one.
ConvertAvx2(in) ==
    LET flat  == Samples16(in)
        iters == Len(in) \div 8
    IN  FlattenSeq([b \in 1..iters |-> SubSeq(flat, (b - 1) * 8 + 1, b * 8)])
          \o SubSeq(flat, iters * 8 + 1, 2 * Len(in))

ConvertAAvx2(in) == ConvertAvx2(in)

ConvertUAvx2(in) == ConvertAvx2(in)

\* NEON: num_points / 2 loads of 4 int16 widened and converted in place,
\* then the last odd sample.
ConvertNeon(in) ==
    LET iters == Len(in) \div 2
    IN  FlattenSeq([b \in 1..iters |-> SubSeq(Samples16(in), (b - 1) * 4 + 1, b * 4)])
          \o ConvertGeneric(SubSeq(in, iters * 2 + 1, Len(in)))

\* The input of a converter call: distinct values, so that any misplaced
\* float shows.
Ramp(n) == [i \in 1..n |-> [re |-> i, im |-> -i]]

----------------------------------------------------------------------------
(***************************************************************************)
(* Calls.  out holds what the last call produced: the indices each output  *)
(* vector read for a resampler, the floats for a converter.                *)
(***************************************************************************)
VARIABLES call, out

vars == <<call, out>>

Resamplers == {"generic", "a_sse2", "u_sse2", "neon"}
Converters == {"cv_generic", "cv_a_sse2", "cv_u_sse2", "cv_u_avx", "cv_a_avx",
               "cv_a_avx2", "cv_u_avx2", "cv_neon"}

VolkInit ==
    /\ call = [fn |-> "none", step |-> 0, rems |-> <<>>, count |-> 0]
    /\ out = <<>>

ResampleResult(fn, step, rems, count) ==
    CASE fn = "generic" -> ResampleFastGeneric(step, rems, count)
      [] fn = "a_sse2"  -> ResampleFastASse2(step, rems, count)
      [] fn = "u_sse2"  -> ResampleFastUSse2(step, rems, count)
      [] fn = "neon"    -> ResampleFastNeon(step, rems, count)

ConvertResult(fn, in) ==
    CASE fn = "cv_generic" -> ConvertGeneric(in)
      [] fn = "cv_a_sse2"  -> ConvertASse2(in)
      [] fn = "cv_u_sse2"  -> ConvertUSse2(in)
      [] fn = "cv_u_avx"   -> ConvertUAvx(in)
      [] fn = "cv_a_avx"   -> ConvertAAvx(in)
      [] fn = "cv_a_avx2"  -> ConvertAAvx2(in)
      [] fn = "cv_u_avx2"  -> ConvertUAvx2(in)
      [] fn = "cv_neon"    -> ConvertNeon(in)

Resample(fn) ==
    \E step \in PhaseSteps, rems \in RemPhases, count \in SampleCounts :
        /\ call' = [fn |-> fn, step |-> step, rems |-> rems, count |-> count]
        /\ out' = ResampleResult(fn, step, rems, count)

Convert(fn) ==
    \E count \in ConvertCounts :
        /\ call' = [fn |-> fn, step |-> 0, rems |-> <<>>, count |-> count]
        /\ out' = ConvertResult(fn, Ramp(count))

(***************************************************************************)
(* volk_gnsssdr_16ic_resamplerfastxnpuppet_16ic_{generic,a_sse2,u_sse2,   *)
(* neon}: with code_phase_step_chips = 0.1, code_length_chips = 2046,      *)
(* num_out_vectors = 3 and rem_code_phase_chips[n] = -0.234 for every      *)
(* vector, call the kernel of the same version and copy result_aux[0] to   *)
(* result.  A puppet call is taken only in an instance whose L and         *)
(* NumOutVectors are the puppet's own.                                     *)
(***************************************************************************)
Puppets == {"p_generic", "p_a_sse2", "p_u_sse2", "p_neon"}

PuppetKernel ==
    [p_generic |-> "generic", p_a_sse2 |-> "a_sse2", p_u_sse2 |-> "u_sse2", p_neon |-> "neon"]

PuppetConfigured == CodeLengthChips = 2046 /\ NumOutVectors = 3

ResamplerFastPuppet(fn, count) ==
    ResampleResult(PuppetKernel[fn], PuppetStep,
                   [v \in 1..NumOutVectors |-> PuppetRem], count)[1]

Puppet(fn) ==
    /\ PuppetConfigured
    /\ \E count \in PuppetCounts :
        /\ call' = [fn |-> fn, step |-> PuppetStep, rems |-> <<PuppetRem>>, count |-> count]
        /\ out' = ResamplerFastPuppet(fn, count)

VolkNext ==
    \/ \E fn \in Resamplers : Resample(fn)
    \/ \E fn \in Converters : Convert(fn)
    \/ \E fn \in Puppets : Puppet(fn)

VolkSpec == VolkInit /\ [][VolkNext]_vars

----------------------------------------------------------------------------
\* Type invariant: a resampler fills num_output_samples entries of every
\* output vector, a converter 2 * num_points floats.
VolkTypeOK ==
    \/ call.fn = "none"
    \/ call.fn \in Resamplers /\ out \in [1..NumOutVectors -> [0..call.count - 1 -> Int]]
    \/ call.fn \in Converters /\ out \in [1..2 * call.count -> Int]
    \/ call.fn \in Puppets /\ out \in [0..call.count - 1 -> Int]

\* Every index a resampler version reads lies within local_code, for the
\* phases the inputs produce.
IndexInBounds ==
    /\ call.fn \in Resamplers =>
        \A v \in 1..NumOutVectors : \A n \in DOMAIN out[v] : out[v][n] \in 0..L - 1
    /\ call.fn \in Puppets => \A n \in DOMAIN out : out[n] \in 0..L - 1

\* The samples computed by a vector loop (n < 4 * (num_output_samples / 4)).
VectorPart(fn) ==
    call.fn = fn =>
        \A v \in 1..NumOutVectors : \A n \in 0..4 * (call.count \div 4) - 1 :
            out[v][n] = ResampleFastGeneric(call.step, call.rems, call.count)[v][n]

\* The NEON vector loop, which builds round() from +0.5, the sign bit and a
\* truncating conversion, reads the same indices as the generic version.
NeonVectorMatchesGeneric == VectorPart("neon")

\* The SSE2 vector loop, converting with _mm_cvtps_epi32 under
\* _MM_ROUND_NEAREST (halves to even), reads the same index as the generic
\* version (round(), halves away from zero) at every sample whose phase is
\* not a whole number of chips; on whole-chip phases the two may differ.
Sse2VectorMatchesGenericOffChipEdges ==
    call.fn \in {"a_sse2", "u_sse2"} =>
        \A v \in 1..NumOutVectors : \A n \in 0..4 * (call.count \div 4) - 1 :
            Phase(call.step, call.rems[v], n) % Q # 0 =>
                out[v][n] = ResampleFastGeneric(call.step, call.rems, call.count)[v][n]

\* The scalar tail of the SSE2 and NEON versions, (int)(phase) without the
\* -0.5 offset, reads the same index as the generic version for every
\* sample of positive phase; at phase 0 and below (where it adds
\* code_length_chips - 1, not code_length_chips) the two differ.
TailMatchesGenericForPositivePhase ==
    call.fn \in Resamplers \ {"generic"} =>
        \A v \in 1..NumOutVectors :
            \A n \in 4 * (call.count \div 4)..call.count - 1 :
                Phase(call.step, call.rems[v], n) > 0 =>
                    out[v][n] = ResampleFastGeneric(call.step, call.rems, call.count)[v][n]

\* The VOLK QA test runs the puppet of every version and compares its
\* output with that of the generic puppet.  For num_points of 4 or more
\* every version reads the same indices as the generic one: the samples of
\* negative phase (-0.234, -0.134, -0.034 chip) fall to the vector loop,
\* and the scalar tail sees only positive phases.  (With fewer than 4
\* points they fall to the tail, whose (int) cast reads chip 0 where
\* round() reads chip 2045.)
PuppetMatchesGeneric ==
    call.fn \in Puppets /\ call.count >= 4 =>
        out = ResamplerFastPuppet("p_generic", call.count)

\* Every version of the converter writes the same floats in the same order
\* as the generic one, whatever num_points is left over by its blocks.
ConvertMatchesGeneric ==
    call.fn \in Converters => out = ConvertGeneric(Ramp(call.count))

============================================================================
