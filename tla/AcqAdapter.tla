----------------------------- MODULE AcqAdapter -----------------------------
(***************************************************************************)
(* The acquisition adapter IrnssSpsL5PcpsAcquisition                        *)
(* (src/algorithms/acquisition/adapters/irnss_sps_l5_pcps_acquisition.cc)  *)
(* composed with the code generator it calls.  The adapter is the only     *)
(* caller of irnss_l5_sps_code_gen_complex_sampled in the repository: its  *)
(* set_local_code generates one code period into a local vector (the      *)
(* generator's destination buffer, dest of CodeGen), copies it sampled_ms  *)
(* times into code_ and hands code_ to the pcps_acquisition block.         *)
(*                                                                         *)
(* Acq_Conf::SetFromConfiguration, the configuration and the pcps block    *)
(* are not part of the repository.  A configuration is a record of the     *)
(* Acq_Conf fields the adapter reads; samples_per_ms is taken as           *)
(* resampled_fs / 1000, exactly.                                           *)
(***************************************************************************)
EXTENDS CodeGen

CONSTANTS
    AcqConfs,      \* Acq_Conf values the constructor can be given
    SynchroPrns,   \* gnss_synchro_->PRN values the channel sets
    NoSynchro      \* gnss_synchro_ == nullptr

VARIABLES
    conf,          \* acq_parameters_, fixed by the constructor
    gnss_synchro_, \* the PRN of the Gnss_Synchro the adapter points to
    code_,         \* the local-code vector handed to the block
    local          \* history: the PRN and G2 delay of the last set_local_code

adapterVars == <<conf, gnss_synchro_, code_, local>>
acqVars == <<vars, adapterVars>>

NoLocal == [prn |-> NoSynchro, delay |-> 0]

\* code_length_ = floor(resampled_fs / (1023000 / 1023)).
CodeLength_(c) == c.resampled_fs \div (1023000 \div CodeLength)

\* vector_length_ = floor(sampled_ms * samples_per_ms), doubled when the
\* bit-transition flag is set.
VectorLength_(c) ==
    ((c.sampled_ms * c.resampled_fs) \div 1000) * (IF c.bit_transition_flag THEN 2 ELSE 1)

\* The rate set_local_code generates the code at: resampled_fs with the
\* automatic resampler, fs_in without it.
GenRate(c) ==
    IF c.use_automatic_resampler THEN c.resampled_fs ELSE c.fs_in

\* std::vector<std::complex<float>> code(code_length_) after the generator
\* wrote its samples into it; samples it does not write stay zero.
LocalVector(samples, n) == [i \in 1..n |-> IF i <= Len(samples) THEN samples[i] ELSE 0]

\* Mutant: one copy fewer than sampled_ms.
ReplicateOneShort(code, old, n, times) ==
    [i \in DOMAIN old |-> IF (i - 1) \div n < times - 1 THEN code[((i - 1) % n) + 1] ELSE old[i]]

\* The copy loop: copy i writes code into code_[i * n + 1 .. (i + 1) * n]
\* for i < sampled_ms_; the entries after the last copy keep their value.
Replicate(code, old, n, times) ==
    [i \in DOMAIN old |-> IF (i - 1) \div n < times THEN code[((i - 1) % n) + 1] ELSE old[i]]

-----------------------------------------------------------------------------
\* The constructor: code_ = std::vector(vector_length_), zero-initialised;
\* gnss_synchro_ = nullptr.
AcqInit ==
    /\ CodeGenInit
    /\ conf \in AcqConfs
    /\ gnss_synchro_ = NoSynchro
    /\ code_ = [i \in 1..VectorLength_(conf) |-> 0]
    /\ local = NoLocal

\* set_gnss_synchro: the channel hands over its Gnss_Synchro.
SetGnssSynchro(prn) ==
    /\ gnss_synchro_' = prn
    /\ UNCHANGED <<vars, conf, code_, local>>

\* set_local_code: generate one period at GenRate into the local vector,
\* copy it sampled_ms times into code_ and pass code_ to the block.  It
\* dereferences gnss_synchro_, which the channel sets first.
SetLocalCode ==
    /\ gnss_synchro_ # NoSynchro
    /\ CodeGenComplexSampled(gnss_synchro_, GenRate(conf), 0)
    /\ code_' = Replicate(LocalVector(dest', CodeLength_(conf)), code_,
                          CodeLength_(conf), conf.sampled_ms)
    /\ local' = [prn |-> gnss_synchro_, delay |-> call'.delay]
    /\ UNCHANGED <<conf, gnss_synchro_>>

AdapterNext ==
    \/ \E prn \in SynchroPrns : SetGnssSynchro(prn)
    \/ SetLocalCode

\* The generator's other entry points, called with any PRN and chip shift.
DirectCalls ==
    \E prn \in Prns, shift \in ChipShifts :
        \/ CodeGenInt(prn, shift)
        \/ GenConverted("float", prn, shift)
        \/ GenConverted("complex", prn, shift)

AcqNext ==
    \/ DirectCalls /\ UNCHANGED adapterVars
    \/ AdapterNext

AcqSpec == AcqInit /\ [][AcqNext]_acqVars

-----------------------------------------------------------------------------
\* One period of the code of the PRN with G2 delay d, sampled at rate fs by
\* the reference rule: sample i (from 0) holds the chip under its end
\* instant, the last sample the last chip.
SampledReference(d, fs) ==
    [i \in 1..SamplesPerCode(fs) |-> CodeFromDelay(d, 0)[SampledIndex(fs, i - 1)]]

(***************************************************************************)
(* The local code the block correlates against is sampled_ms periods of    *)
(* the code of the PRN set_local_code read from gnss_synchro_, sampled at  *)
(* resampled_fs (the rate of the samples the block receives), followed by  *)
(* zeros up to vector_length_.  It needs the two branches of               *)
(* set_local_code to pick the rate that matches code_length_, the copy     *)
(* loop to lay the periods end to end, and the tail never to be written.   *)
(***************************************************************************)
LocalCodeReplicates ==
    local # NoLocal =>
        LET n   == CodeLength_(conf)
            ref == SampledReference(local.delay, conf.resampled_fs)
        IN  /\ Len(ref) = n
            /\ conf.sampled_ms * n <= Len(code_)
            /\ \A i \in DOMAIN code_ :
                   code_[i] = IF i <= conf.sampled_ms * n THEN ref[((i - 1) % n) + 1] ELSE 0
=============================================================================
