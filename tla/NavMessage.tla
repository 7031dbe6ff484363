----------------------------- MODULE NavMessage -----------------------------
(***************************************************************************)
(* The Message Assembler of the IRNSS L5 telemetry chain:                  *)
(*   Irnss_Navigation_Message (irnss_navigation_message.cc): reset,        *)
(*   subframe_decoder, satellite_validation, get_iono, get_utc_model;      *)
(* and the dispatch of decode_subframe (irnss_telemetry_decoder_gs.cc,     *)
(* lines 233-279) that hands a decoded subframe to it and publishes        *)
(* Ephemeris / Iono / UTC objects on the "telemetry" message port.         *)
(*                                                                         *)
(* Data abstraction.  A decoded 292-bit subframe is a record of the three  *)
(* fields that steer control: the 2-bit subframe ID, the 17-bit TOW field  *)
(* and, for the paged subframes, the 6-bit message ID.  Every other field  *)
(* (clock, orbit, iono, UTC coefficients) is abstracted to its provenance: *)
(* the index, in the sequence of subframes decoded since the last reset,   *)
(* of the subframe that last wrote it (0: the value set by reset()).       *)
(***************************************************************************)
EXTENDS Naturals, Sequences, SequencesExt

CONSTANTS
    TowFields,      \* values of the 17-bit IRNSS_TOW field that are enumerated
    MsgIds,         \* values of the 6-bit IRNSS_SV_DATA_ID field that are enumerated
    Indeterminate,  \* the value of a field that the constructor leaves uninitialized
    MaxSubframes,   \* bound: subframes decoded between two resets
    MaxResets       \* bound: number of resets (new Irnss_Navigation_Message objects)

ASSUME TowFields \subseteq 0..(2^17 - 1) /\ 0 \in TowFields
ASSUME MsgIds \subseteq 0..63
ASSUME MaxSubframes \in Nat /\ MaxResets \in Nat

\* IRNSS_SUBFRAME_ID is the slice {28, 2}: two bits, so the IDs 0..3.
SubframeIds == 0..3
Subframes == [id : SubframeIds, tow : TowFields, msg : MsgIds]

\* Fault variant of TowOf: the 17-bit field read as a signed one.
TowOfSigned(sf) == (IF sf.tow >= 2^16 THEN sf.tow - 2^17 ELSE sf.tow) * 6

\* d_TOW_SFx = read_navigation_unsigned(IRNSS_TOW) * 6
TowOf(sf) == sf.tow * 6

VARIABLES
    nav,        \* the fields of the Irnss_Navigation_Message object d_nav
    received,   \* history: the subframes handed to subframe_decoder since reset
    telemetry,  \* the objects published on the "telemetry" port, in order
    epoch       \* history: how many times d_nav has been replaced

navVars == <<nav, received, telemetry, epoch>>

Provenance == 0..MaxSubframes

NavFields ==
    [d_TOW : Nat, d_TOW_SF1 : Nat, d_TOW_SF2 : Nat, d_TOW_SF3 : Nat,
     d_TOW_SF4 : Nat \cup {Indeterminate},
     flag_iono_valid : BOOLEAN, flag_utc_model_valid : BOOLEAN,
     b_valid_ephemeris_set_flag : BOOLEAN,
     sf1_data : Provenance, sf2_data : Provenance,
     iono_data : Provenance, utc_data : Provenance]

Published ==
    [kind : {"ephemeris", "iono", "utc"}, epoch : 0..MaxResets, data : Seq(Provenance)]

(***************************************************************************)
(* Irnss_Navigation_Message::reset() (lines 30-149).  d_TOW_SF4 is not     *)
(* reset (line 37 is commented out): it keeps what the constructor left.   *)
(***************************************************************************)
NavReset ==
    [d_TOW |-> 0, d_TOW_SF1 |-> 0, d_TOW_SF2 |-> 0, d_TOW_SF3 |-> 0,
     d_TOW_SF4 |-> Indeterminate,
     flag_iono_valid |-> FALSE, flag_utc_model_valid |-> FALSE,
     b_valid_ephemeris_set_flag |-> FALSE,
     sf1_data |-> 0, sf2_data |-> 0, iono_data |-> 0, utc_data |-> 0]

(***************************************************************************)
(* subframe_decoder(subframe) (lines 232-481), the k-th subframe since     *)
(* reset.  Subframe 1 loads the clock and orbit-correction fields,         *)
(* subframe 2 the Keplerian fields, subframes 3 and 4 a page selected by   *)
(* the message ID: 9 loads the UTC fields and sets their flag, 26 loads    *)
(* the same UTC fields without setting it, 11 loads the EOP and iono       *)
(* fields and sets the iono flag, 0, 5, 7, 14 and 18 load nothing.  The    *)
(* paged subframes store their TOW in d_TOW_SF4 (line 347).                *)
(***************************************************************************)
SubframeDecoder(n, sf, k) ==
    CASE sf.id = 1 ->
            [n EXCEPT !.d_TOW_SF1 = TowOf(sf), !.d_TOW = TowOf(sf), !.sf1_data = k]
      [] sf.id = 2 ->
            [n EXCEPT !.d_TOW_SF2 = TowOf(sf), !.d_TOW = TowOf(sf), !.sf2_data = k]
      [] sf.id \in {3, 4} ->
            [n EXCEPT !.d_TOW_SF4 = TowOf(sf), !.d_TOW = TowOf(sf),
                      !.utc_data = IF sf.msg \in {9, 26} THEN k ELSE @,
                      !.flag_utc_model_valid = @ \/ sf.msg = 9,
                      !.iono_data = IF sf.msg = 11 THEN k ELSE @,
                      !.flag_iono_valid = @ \/ sf.msg = 11]
      [] OTHER -> n

\* satellite_validation() (lines 641-658): the IODE cross-check is disabled.
SatelliteValidation(n) ==
    n.d_TOW_SF1 # 0 /\ n.d_TOW_SF2 # 0 /\ n.d_TOW_SF3 # 0

\* get_ephemeris() (lines 550-601): a copy of the current fields.
EphemerisItem(n) ==
    [kind |-> "ephemeris", epoch |-> epoch, data |-> <<n.sf1_data, n.sf2_data>>]

\* Fault variant of get_iono: the flag is not cleared after the read.
GetIonoKeepingFlag(n) ==
    <<[kind |-> "iono", epoch |-> epoch, data |-> <<n.iono_data>>], n>>

\* get_iono() (lines 604-619): the copy, and the object with its flag cleared.
GetIono(n) ==
    <<[kind |-> "iono", epoch |-> epoch, data |-> <<n.iono_data>>],
      [n EXCEPT !.flag_iono_valid = FALSE]>>

\* get_utc_model() (lines 622-638): the copy, and the object with its flag cleared.
GetUtcModel(n) ==
    <<[kind |-> "utc", epoch |-> epoch, data |-> <<n.utc_data>>],
      [n EXCEPT !.flag_utc_model_valid = FALSE]>>

(***************************************************************************)
(* The case label written `case 3 or 4:` (decoder_gs.cc line 257) is the   *)
(* C++ expression `3 or 4`, the bool true, converted to the int 1.         *)
(***************************************************************************)
IonoUtcCaseLabel == IF 3 # 0 \/ 4 # 0 THEN 1 ELSE 0

(***************************************************************************)
(* The publication switch of decode_subframe (lines 240-276) applied to    *)
(* the object n returned by subframe_decoder: the pair of the object after *)
(* the switch and the sequence of objects it publishes.                    *)
(***************************************************************************)
PublishFor(n, id) ==
    IF id = 2 THEN
        LET ok == SatelliteValidation(n)
            n1 == [n EXCEPT !.b_valid_ephemeris_set_flag = ok]
        IN  <<n1, IF ok THEN <<EphemerisItem(n1)>> ELSE <<>>>>
    ELSE IF id = IonoUtcCaseLabel THEN
        LET i == IF n.flag_iono_valid THEN GetIono(n) ELSE <<<<>>, n>>
            u == IF i[2].flag_utc_model_valid THEN GetUtcModel(i[2]) ELSE <<<<>>, i[2]>>
        IN  <<u[2], (IF n.flag_iono_valid THEN <<i[1]>> ELSE <<>>)
                    \o (IF i[2].flag_utc_model_valid THEN <<u[1]>> ELSE <<>>)>>
    ELSE <<n, <<>>>>

\* Fault variant of DecodeOk: an off-by-one in the lower bound of the ID.
DecodeOkFromTwo(sf) == sf.id > 1 /\ sf.id < 5

\* The value decode_subframe returns (line 240): the ID is one of 1..4.
DecodeOk(sf) == sf.id > 0 /\ sf.id < 5

(***************************************************************************)
(* decode_subframe, from the call of subframe_decoder (line 233) to the    *)
(* end of the publication switch: one atomic step on d_nav and the port.   *)
(***************************************************************************)
DecodeSubframe(sf) ==
    /\ Len(received) < MaxSubframes
    /\ LET r == PublishFor(SubframeDecoder(nav, sf, Len(received) + 1), sf.id)
       IN  /\ nav' = r[1]
           /\ telemetry' = telemetry \o r[2]
    /\ received' = Append(received, sf)
    /\ UNCHANGED epoch

(***************************************************************************)
(* set_satellite (decoder_gs.cc line 297): d_nav = Irnss_Navigation_Message() *)
(***************************************************************************)
NewNavMessage ==
    /\ epoch < MaxResets
    /\ nav' = NavReset
    /\ received' = <<>>
    /\ epoch' = epoch + 1
    /\ UNCHANGED telemetry

NavInit ==
    /\ nav = NavReset
    /\ received = <<>>
    /\ telemetry = <<>>
    /\ epoch = 0

(***************************************************************************)
(* The subframes enumerated as inputs: the message ID is read only for the *)
(* paged subframes and the TOW not at all for ID 0, so the other bits are  *)
(* fixed to 0 there.                                                       *)
(***************************************************************************)
InputSubframes ==
    {sf \in Subframes : /\ sf.id \notin {3, 4} => sf.msg = 0
                        /\ sf.id = 0 => sf.tow = 0}

NavNext ==
    \/ \E sf \in InputSubframes : DecodeSubframe(sf)
    \/ NewNavMessage

NavSpec == NavInit /\ [][NavNext]_navVars

-----------------------------------------------------------------------------
(* Properties *)

NavTypeOK ==
    /\ nav \in NavFields
    /\ received \in Seq(Subframes)
    /\ telemetry \in Seq(Published)
    /\ epoch \in 0..MaxResets

\* The publications of one kind made while d_nav was the epoch-th object.
PubsOf(kind, e) ==
    SelectSeq(telemetry, LAMBDA p : p.kind = kind /\ p.epoch = e)

(***************************************************************************)
(* One-shot delivery of the Iono and UTC models (get_iono/get_utc_model    *)
(* clear the valid flag after the read): within one navigation-message     *)
(* object every published Iono or UTC model carries data loaded by a page  *)
(* decoded after the one the previous publication of that kind carried,    *)
(* and never the values reset() left.  Violated if a flag survives a read, *)
(* or a publication happens before any page loaded the model.              *)
(***************************************************************************)
OneShotDelivery ==
    \A kind \in {"iono", "utc"}, e \in 0..epoch :
        LET s == PubsOf(kind, e)
        IN  \A i \in 1..Len(s) :
                /\ s[i].data[1] >= 1
                /\ i > 1 => s[i - 1].data[1] < s[i].data[1]

\* The TOW of the latest subframe with an ID in ids, 0 if there is none.
LatestTow(ids) ==
    LET i == SelectLastInSeq(received, LAMBDA sf : sf.id \in ids)
    IN  IF i = 0 THEN 0 ELSE TowOf(received[i])

(***************************************************************************)
(* Spec 4.5 and 8: an Ephemeris is published when subframe 2 is decoded   *)
(* and subframes 1, 2 and a paged subframe (3 or 4) have each delivered a  *)
(* nonzero TOW since the last reset (satellite_validation).                *)
(***************************************************************************)
EphemerisPublishedWhenComplete ==
    [][ ( /\ Len(received') = Len(received) + 1
          /\ Last(received').id = 2
          /\ epoch' = epoch
          /\ \A ids \in {{1}, {2}, {3, 4}} : LatestTow(ids)' # 0 )
        => \E i \in Len(telemetry) + 1..Len(telemetry') :
               telemetry'[i].kind = "ephemeris" ]_navVars
=============================================================================
