# TLA+ models of the IRNSS L5 telemetry decoder

This directory models the IRNSS L5 navigation-message decoding chain of this
repository. It checks the models with TLC. The chain has two parts:

* the GNU Radio block `irnss_telemetry_decoder_gs`
  (`src/src/algorithms/telemetry_decoder/gnuradio_blocks/`), called the
  **Frame Synchronizer** here;
* the navigation-message object `Irnss_Navigation_Message`
  (`src/src/core/system_parameters/`), called the **Message Assembler**.

## 1. The system

| Part | Source | State | Operations |
|---|---|---|---|
| Frame Synchronizer | `irnss_telemetry_decoder_gs.cc/.h` | symbol history (circular buffer of 601), sample counter, preamble index, last valid preamble, `d_stat` (0 NO_PREAMBLE, 1 POSSIBLE_LOCK, 2 LOCKED), CRC error counter, frame-sync, PLL-180, TOW-set and preamble flags, the two TOW values, the alarm latch, the satellite | `general_work` (one symbol per call), `reset()`, `set_satellite()`, `decode_subframe` |
| Message Assembler | `irnss_navigation_message.cc/.h` | TOW of each subframe type, Iono/UTC valid flags, ephemeris-valid flag, the decoded fields | `reset`, `subframe_decoder`, `satellite_validation`, `get_ephemeris`, `get_iono`, `get_utc_model`, `utc_time` |
| Convolutional decoder | `decode_subframe`, `deinterleaver` (decoder .cc) | none (pure) | de-interleave 8x73, flip every 2nd symbol, Viterbi |
| Bit-field codec | `read_navigation_bool/unsigned/signed` | none (pure) | field extraction over 292 bits |
| Orbital/clock model | `irnss_ephemeris.cc` | stored clock-bias results | `check_t`, `sv_clock_drift`, `sv_clock_relativistic_term`, `satellitePosition` |
| UTC model | `irnss_utc_model.cc`, `Irnss_Navigation_Message::utc_time` | none | `utc_time` |
| Code generator | `irnss_sdr_signal_replica.cc` | none (pure) | the L5 SPS spreading code from two 10-bit LFSRs |
| Acquisition adapter | `acquisition/adapters/irnss_sps_l5_pcps_acquisition.cc` | `code_length_`, `vector_length_`, the local code `code_`, `gnss_synchro_` | `set_gnss_synchro`, `set_local_code` (calls the sampled code generator), setters that forward to the acquisition block |
| Other adapters | `tracking/`, `telemetry_decoder/adapters/` | configuration | forward to GNU Radio blocks |
| VOLK kernels, cpu_features test | `volk_gnsssdr_module/` | none | SIMD numeric kernels |

How the parts interact:

* **Two threads share the block.** The GNU Radio scheduler thread calls
  `general_work` once per tracked symbol. A control thread (the channel)
  may call `reset()` or `set_satellite()` at any time.
* **Locking.** `reset()` takes `d_setlock`, but `general_work` takes it only
  around one assignment (line 490), and `set_satellite()` takes no lock at
  all.
* **Decoding.** In each of the three states, `general_work` may call
  `decode_subframe`. That runs the convolutional decoder, then
  `d_nav.subframe_decoder`, then a publication switch that pushes Ephemeris,
  Iono and UTC objects on the "telemetry" port.
* **Watchdog.** It publishes an alarm code on "telemetry_to_trk".

The behaviours that are hard to test:

* the control thread's calls land between the unlocked steps of
  `general_work`;
* the watchdog latch;
* the order of subframe types;
* the one-shot delivery of the Iono and UTC models;
* acquisition timing, which depends on how full the history is.

Every hazard is listed in `PROJECT.json`, at its line.

## 2. Modules

* **`NavMessage.tla`: the Message Assembler, and the publication switch of
  `decode_subframe`.**
  * *State.* `nav` is a record of the object's flags and TOWs; each
    data-bearing field holds the *index of the subframe that loaded it*
    (provenance), not the value. `telemetry` is the sequence of
    publications. The history variables are `received` (subframes since the
    last reset) and `epoch` (objects replaced).
  * *Actions.* `DecodeSubframe(sf)` is the whole of `decode_subframe` after
    Viterbi: `subframe_decoder`, then the switch with its validation and
    its reads that clear the flags. `NewNavMessage` is
    `d_nav = Irnss_Navigation_Message()` in `set_satellite`.
  * *Inputs.* A subframe is the triple (ID in the 2-bit field, TOW field,
    message ID).
  * *Code details kept.* The `case 3 or 4:` label is modelled by what C++
    makes of it (`IonoUtcCaseLabel` = 1). `d_TOW_SF4` is never reset, so it
    starts as a model value `Indeterminate`.
* **`FrameSync.tla`: the Frame Synchronizer. It EXTENDS `NavMessage` and
  composes it.** `general_work` is split at the points where the control
  thread can interleave:

  | Action | Source lines | What it does |
  |---|---|---|
  | `Receive(sym)` | 366-387 | push the symbol, count it, run the watchdog and publish the alarm |
  | `LatchAlarm` | 388 | set the alarm latch |
  | `Case0` | 395-424 | the NO_PREAMBLE branch of the switch |
  | `Case1` | 425-476 | the POSSIBLE_LOCK branch of the switch |
  | `Case2` | 477-514 | the LOCKED branch, with `FrameConfirmed` and `CrcFailure` for the decode outcome |
  | `CommitPossibleLock` | 419 | `d_stat = 1` after the case-0 decode |
  | `CommitLocked` | 463 | `d_stat = 2` after the case-1 decode |
  | `TowUpdate` | 517-585 | the TOW update and the returned record |
  | `Reset` | 329-336 | `reset()`, whole |
  | `SetSatellite(s)` | 285-326 | `set_satellite()`, whole |

  * `pc` names the next step. `stat_next` holds the value a pending
    `d_stat` write will store.
  * The history variables are `stat_seen`, `tow_sat`,
    `alarms_since_reset` and `reset_pending`.
  * A symbol is its sign class (the code tests only `Prompt_I < 0`).
  * The subframe decoded from `d_page_part_symbols` is `page`, chosen once
    in `Init`. That buffer is reserved but never written (line 92), so
    every decode reads the same indeterminate memory.
* **`MCFrameSync.tla`** instantiates `FrameSync` with a 2-symbol preamble and
  a 3-symbol subframe:
  * `MCSymbolsAt` allows every symbol stream.
  * `MCFramedSymbolsAt` fixes the preamble at the start of each subframe and
    leaves the data symbol free.
  * The two satellites are model values under symmetry.
* **`FrameLockAbstract.tla`: what the lock logic promises.** `sync` is
  searching, tentative or locked, and `towKnown` says whether a TOW is
  held. The actions are `Acquire`, `Confirm`, `Abandon`, `LearnTow`
  (only when locked) and `Lose` (which forgets the TOW).
* **`MCFrameLock.tla`** runs only `general_work` (no control thread) on a
  clean stream: preamble `1,1,-1`, subframe 4, data `+1`, so no data window
  correlates. It adds the fairness spec and two properties:
  * `LockedForGood`, the acquisition liveness;
  * `LockProtocolRefined`, which states that `FrameSync` implements
    `FrameLockAbstract`. It uses `INSTANCE FrameLockAbstract WITH
    sync <- SyncOf(d_stat), towKnown <- d_flag_TOW_set`.
* **`MCNavMessage.tla`** instantiates `NavMessage` alone:
  * TOW fields {0, 1, 131071};
  * message IDs {0, 9, 11, 26}.

* **`BitField.tla`: the bit-field codec.**
  * The field parameters of `irnss_navigation_message.h`.
  * `SubframeBits`, which is the `std::bitset` built from the decoded
    string: bit `N - pos` holds character `pos`.
  * `ReadNavigationUnsigned` and `ReadNavigationSigned` as folds of
    `2v + b` over the field's bits. For the signed reader the fold starts
    from -1 when the first bit is set (the sign extension of lines
    201-229).
  * `Transmit` and `TwosComplement` are test-input and reference helpers.
    They are not code.
* **`FieldLayout.tla`: the field tables and what `subframe_decoder` reads.**
  It EXTENDS `BitField`.
  * Every `<start, length>` table of `IRNSS_at_1.h` (lines 102-223) is an
    entry of the function `Field`, keyed by the C++ name, in six groups:
    header, subframe 1, subframe 2, paging, UTC (messages 9/26), and EOP
    and ionosphere (message 11).
  * `Sf1Reads`, `Sf2Reads`, `PagedReads`, `UtcReads` and `Msg11Reads` are
    the parameters each branch of the `switch (subframe_ID)` reads, in the
    code's order. `ReadsOf(id, msg)` puts together the list of one call.
  * The state is `subframe_ID` and `read`, the parameters the last call
    read. `SubframeDecoder(id, msg)` is one call, for every value of the
    2-bit ID and for a set of message types.
* **`UtcTime.tla`: both copies of `utc_time`.**
  * `UtcDaytime` is the common leap-second branch structure
    (`irnss_utc_model.cc` 43-97), with C `fmod` as `FMod`.
  * `UtcModelUtcTime` re-bases the result on 86400 s. `NavUtcTime`
    re-bases it on 43200 s.
  * The state is a receiver clock `t` that `Tick`s from a few starting
    points, plus the leap-second parameters `p`. `LoadUtcParams` re-reads
    `p` from a message-9 subframe through `BitField`.
  * A0 and A1 are zero, so times are whole seconds.
* **`EphemerisTime.tla`: the time arguments of `irnss_ephemeris.cc`.**
  * `CheckT` is `check_t`. Times are in tenths of a second.
  * `DecodeToc` and `DecodeToe` read the 16-bit fields through
    `BitField` and scale them by 16 s.
  * The three callers (`sv_clock_drift`, `sv_clock_relativistic_term`,
    `satellitePosition`) record the `check_t` calls they make.
* **`CodeGen.tla`: the spreading-code generator.**
  * G1 and G2 are stepped 1023 times by `RegisterTrace`, a recursion
    split in halves.
  * `CodeFromDelay` is the xor with a delayed G2.
  * The actions are the four public functions, with PRNs, chip shifts
    and sample rates taken from small sets.
  * A read past the 10-entry delay table is a nondeterministic choice
    (`OutOfBoundsReads`).
* **`AcqAdapter.tla`: the acquisition adapter, composed with `CodeGen`.**
  It EXTENDS `CodeGen`. The adapter is the only caller of the sampled
  generator in the repository, so its `SetLocalCode` *is* that call:
  * *State.* `conf` is the `Acq_Conf` the constructor received (a record
    of `fs_in`, `resampled_fs`, `use_automatic_resampler`, `sampled_ms` and
    `bit_transition_flag`). `gnss_synchro_` is the PRN the adapter points
    to. `code_` is the local-code vector. `local` is a history variable
    holding the PRN and G2 delay of the last `set_local_code`.
  * *Actions.* `AcqInit` is the constructor: `code_length_`,
    `vector_length_` and a zeroed `code_`. `SetGnssSynchro(prn)` is
    `set_gnss_synchro`. `SetLocalCode` runs `CodeGenComplexSampled` at
    `GenRate(conf)` into the local vector, then the copy loop
    (`Replicate`). The generator's other entry points stay actions of their
    own (`DirectCalls`).
  * `Acq_Conf` and the `pcps_acquisition` block are not in the repository.
    `samples_per_ms` is taken as `resampled_fs / 1000`.
* **`VolkKernels.tla`: the fast resampler and the `16ic -> 32fc`
  converter.**
  * The resampler is modelled in its generic, SSE2 and NEON versions.
  * Phases are exact multiples of 1/`PhaseUnits` chip. The int
    conversions are what differ: `round`, `cvtps` (ties to even), NEON's
    +0.5 trick, and truncation.
  * Each call records the `local_code` indices it reads.
  * `Puppet` is the QA wrapper `volk_gnsssdr_16ic_resamplerfastxnpuppet_16ic`
    of each version. It fixes the step at 0.1 chip, the phase at -0.234
    chip, the code at 2046 chips and 3 vectors, and returns vector 0.
* **`MCNavTime.tla`** composes `EphemerisTime` and `UtcTime` as two named
  INSTANCEs (`Eph`, `Utc`). `Subframe_decoder` feeds both from the same
  message stream, and they share no variable, so a step of one leaves the
  other unchanged.
* **`MCCodeGen`, `MCVolkKernels`** give the constants their values.
  `MCCodeGen` checks `AcqSpec`, the adapter composed with the generator.

Every definition that models code is listed in `PROJECT.json` "map", with
its lines. The fault variants (`...KeepingTow`, `...Unlatched`, etc.) sit
just before the definition they vary.

## 3. Runs

| Run | Config | Expect | What it shows |
|---|---|---|---|
| frame_sync | `MCFrameSync.cfg` | pass | See the detail after this table. |
| lock_kept | `MCFrameLock.cfg` | pass | Under weak fairness of `general_work`, a clean stream is eventually LOCKED and stays LOCKED (`LockedForGood`). Every step of `general_work` is a step of the abstract lock protocol, under the mapping of `d_stat` and `d_flag_TOW_set` (`LockProtocolRefined`). |
| nav_assembler | `MCNavMessage.cfg` | pass | Each Iono/UTC publication in one object carries data loaded after the previous one of its kind, and never the reset values (`OneShotDelivery`). |
| codegen | `MCCodeGen.cfg` | pass | Every accepted PRN's code forms a Gold pair with PRN 1 (cross-correlation only -1, -65, 63). A chip shift rotates the code. The sampled generator reads only chips 0..1022. The local code `set_local_code` hands to the acquisition block is `sampled_ms` periods of the PRN's code sampled at `resampled_fs`, then zeros up to `vector_length_` (`LocalCodeReplicates`). |
| volk_kernels | `MCVolkKernels.cfg` | pass | For initial phases from -1 chip to the code length plus 9.5 chips, every resampler version reads inside `local_code` (phases at or below minus one code length, where the kernels would read `local_code[-1]`, are not reached). NEON rounds like the generic version everywhere. SSE2 does so except on whole-chip phases. The scalar tail does so for positive phases. Every converter lays out the floats like the generic one. With 4 or more points, every QA puppet returns what the generic puppet returns (`PuppetMatchesGeneric`). |
| nav_time | `MCNavTime.cfg` | pass | `check_t` brings every orbit and clock time difference within half a week, by whole weeks, and leaves it alone at exactly +-302400 s (`CheckTWrapsIntoHalfWeek`). Through the leap-second window, for an inserted and a deleted second, the UTC time of day advances one second per second. It wraps only at the end of the day, whose length is 86400 + LSF - LS (`UtcDaytimeAdvances`). The leap-second fields are read back as sent, negative ones included (`UtcParamsAsTransmitted`). |
| alarm_rearm | `MCFrame_AlarmLatchedOnlyAfterAlarm.cfg` | violation | The trace is alarm (line 387), `reset()`, latch (line 388). The latch is then set with no alarm since the reset, so the next bad-telemetry episode raises none (`AlarmLatchedOnlyAfterAlarm`). |
| lost_reset | `MCFrame_ResetTakesEffect.cfg` | violation | The trace is the case-1 decode (line 461), `reset()`, then `d_stat = 2` (line 463). The frame is LOCKED although no step has read `d_stat` since the reset, which no serial order reaches: a reset before the step would have sent `general_work` through case 0. The same write after case 0 (line 419) gives the state of a reset before the step, so `ResetTakesEffect` allows it. |
| ephemeris_publication | `MCNav_EphemerisPublishedWhenComplete.cfg` | violation | An Ephemeris is never published: paged subframes write `d_TOW_SF4`, but validation reads `d_TOW_SF3`. |
| codegen_prn_range | `MCCodeGen_AcceptedPrnHasDelay.cfg` | violation | PRN 11 passes the range check (`prn_idx` up to 14), but the delays table has 10 entries. |
| tow_after_set_satellite | `MCFrame_OutputFromCurrentSatellite.cfg` | violation | `set_satellite()` replaces `d_satellite` and `d_nav` but keeps `d_TOW_at_current_symbol_ms` and the lock state, so a record stamped for the new satellite carries the TOW decoded from the old one. Spec §6 says the block restarts for the new satellite. |
| field_layout | `FieldLayout.cfg` | violation | `IRNSS_OMEGA` (argument of perigee) is declared with the slice of `IRNSS_OMEGA_0`, `{143, 32}`, so subframe 2 reads both from the same bits and never reads bits 175-206. With the slice set to `{175, 32}`, every branch reads disjoint fields before the CRC. |

The frame_sync run covers every stream of 15 symbols with the preamble at
each subframe start. `reset()` and `set_satellite()` can land at every step
boundary. It checks:

* only LOCKED frames return records (`EmitOnlyWhenLocked`);
* LOCKED never passes its decode instant (`LockedDecodesEveryPeriod`);
* at most one alarm is raised per reset (`AlarmOncePerEpisode`);
* `TypeOK` holds.

Other disagreements met while modelling are recorded in `FrameSync.tla`
and `NavMessage.tla` comments and in `PROJECT.json` hazards. No run checks
them. They are:

* the TOW advancing 320 ms per 20 ms symbol (line 537), which spec §4.1
  prescribes as well;
* a clean stream locking only after 4 subframes;
* the re-basing of `utc_time`. `Irnss_Navigation_Message::utc_time`
  re-bases the UTC time of day on 43200 s (line 544), so every afternoon
  its result is 43200 - DeltaT_LS s ahead of IRNSS time.
  `Irnss_Utc_Model::utc_time` re-bases on the IRNSS day (line 99), so in
  the DeltaT_LS s after each IRNSS midnight it is a day ahead. Neither
  function has a caller in this repository;
* `case 3 or 4` being `case 1`.

Each property of a passing run has a mutant in `PROJECT.json`. A mutant
replaces one mapped definition by its fault variant, and TLC then reports the
property violated. Two examples:

* dropping the `d_flag_TOW_set = false` of line 422 breaks
  `EmitOnlyWhenLocked`;
* a NO_PREAMBLE branch that goes straight to LOCKED (`Case0Promoting`)
  breaks `LockProtocolRefined`.

## 4. Bounds

* **frame_sync.** The frame parameters are SubframeBits = 3, preamble length
  2 and watchdog = 1 subframe. `MaxSamples` = 15 allows:
  * a lock (earliest at symbol 5);
  * three failed decodes in LOCKED, giving a loss of sync at symbols 8, 11
    and 14;
  * the watchdog alarm (after symbol 3);
  * a reset and a satellite change at every step boundary.

  Every action and every branch of the switch fires. The run takes about
  40 s and visits 3.3 M states.
* **The Frame violation runs** use the unconstrained stream and 9 symbols.
  That is enough for each counterexample.
* **lock_kept.** With SubframeBits = 4, the code locks at symbol 17.
  `MaxSamples` = 32 leaves room for three further subframes, so three failed
  decodes would lose the lock at symbol 29.
* **nav_assembler.** 4 subframes and one replacement of `d_nav`. This is
  enough for a page (ID 3) to be followed by a subframe 1 that publishes
  it, and then by a second page and subframe 1.
* **codegen.** The PRNs are {0, 1, 2, 11, 16}: below range, the first two
  table entries, past the table, and above range. The chip shifts are
  {0, 1022}. The sample rates are {3 kHz, 1.023 MHz, 2 MHz}, which cover
  fewer samples than chips, one per chip, and the rounding of the last
  index to 1023. The codes are the full 1023 chips. The sampled generator
  is reached through the adapter, whose three configurations are: 3 kHz
  with `sampled_ms` 2; 3.5 kHz with `sampled_ms` 2, where
  `vector_length_` = 7 leaves one sample after the two copies; and 4 MHz
  with the automatic resampler at 2 MHz (`IRNSS_L5_OPT_ACQ_FS_HZ`) and the
  bit-transition flag, where the two branches of `set_local_code` differ.
  The adapter's PRNs are 1 (in the table) and 11 (past it). The run takes
  about 90 s.
* **volk_kernels.** Phases are in 1/500 chip, so that the puppet's 0.1 and
  -0.234 chip are exact. The code has the puppet's 2046 chips, and there
  are 3 output vectors.
  * Steps are {0.5, 1, 1.25} chips.
  * Initial phases are {-1, -0.25, 0, 0.5, 2045.5} chips, arranged as a
    Latin square over the three vectors. Vectors are computed
    independently, so this covers every value for every vector. It
    reaches both ends of the code, whole-chip ties and negative phases.
  * The sample counts {1, 4, 6, 9} exercise the 4-wide vector body and
    the scalar tail. The converter counts 0..11 cover both vector widths.
  * The puppet counts {1, 3, 4, 7, 9} include the counts below 4, where
    the tail reads negative phases.
* **nav_time.** The transmit times include 302399.9, 302400.0 and
  302400.1 s. The reference fields reach a half and a full week.
  The clocks run 5 s across the interesting instants:
  * IRNSS midnight;
  * the start and the end of the six-hour window around the event of
    day 1;
  * the event in IRNSS time, and the event 18 s later in UTC. The leap-second records include an inserted
  and a deleted second, the event a week ahead and a week behind, and
  negative 8-bit counts (250, 251).
* **field_layout.** Every value of the 2-bit subframe ID (0..3), and the
  message types 0, 5, 7, 9, 11, 14, 18 and 26, which have a branch of
  their own, plus type 1, which has none. Every branch of the switch is
  taken.
* **Deadlock checking.**
  * `MCNavMessage` and `MCFrameLock` run with CHECK_DEADLOCK FALSE. The
    Message Assembler is a passive object whose caller may stop calling
    it, and `general_work` stops when its input ends.
  * `MCFrameSync` checks deadlock, because `reset()` is always enabled.
  * The pure-operator modules check deadlock. A caller can always make
    another call, and `LoadUtcParams` is always enabled.

## 5. Fairness

* **Safety runs** assume no fairness.
* **`LockedForGood`** assumes weak fairness of the `general_work` steps
  only. The GNU Radio scheduler calls `general_work` whenever input is
  available, and the stream in `MCFrameLock` is available up to
  `MaxSamples`.
* **No fairness** is assumed for `reset()` or `set_satellite()`. They are
  excluded from that run, because a control thread that keeps resetting
  the block prevents any lock.

## 6. Not modelled, and why

* **Sample contents.** The Viterbi decoder, the de-interleaver and the
  symbol contents of a page enter only as the chosen subframe. The buffer
  they read is never written, so in the code the result is fixed.
* **Field values in the Message Assembler.** Decoded values are replaced
  by provenance. Scaling by LSB factors and the IODEC/IODE cross-check
  (commented out in the code) are not modelled.
* **Floating-point orbit and clock arithmetic.** The Kepler iteration and
  the trigonometry of `satellitePosition` are out of TLC's reach. Only the
  time arguments (`check_t`) are modelled.
* **UTC drift terms.** A0 and A1 are zero, so `utc_time` is exact in whole
  seconds.
* **`read_navigation_bool`** is a single bit test. `FieldLayout` counts
  the bit it reads as the parameter's field.
* **The acquisition adapter's forwarding members** (`set_threshold`,
  `set_doppler_*`, `set_state`, `init`, `reset`, `stop_acquisition`,
  `set_resampler_latency`) store a value and pass it to the
  `pcps_acquisition` block, which is not in this repository; `connect` and
  friends wire GNU Radio blocks. No property reads what they pass on. The
  order in which the channel calls `set_gnss_synchro` and
  `set_local_code` is the channel's; `SetLocalCode` requires the former.
* **The tracking and telemetry-decoder adapters and `Irnss_Iono`.** They
  only copy configuration or values (see `PROJECT.json` components). The
  tracking adapter leaves `tracking_` null for any `item_type` other than
  `gr_complex`, and then dereferences it (line 83 and every later member).
  This is listed as a hazard. It is a null dereference on first use, with
  no ordering for a model to explore.
* **The other VOLK puppets** (`16ic`, `16i`, `32f` and `32fc`
  `resamplerxnpuppet`) call the `xn_resampler` kernels. Those kernels are
  not in this repository, so there is nothing to compare the puppets with.
* **The convolutional decoder.** The Viterbi routine is not in the
  repository (only its call, line 178). The de-interleaver and the
  polarity flip read `d_page_part_symbols`, which is reserved but never
  written, so what they compute never depends on the received symbols.

## 7. Plan

Remaining, in order:

1. A composed model in which `FrameSync` decodes subframes whose fields
   are read through `BitField`.
2. Larger instances of `MCFrameSync` with two satellites and more
   subframes.
