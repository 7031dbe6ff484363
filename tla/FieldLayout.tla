----------------------------- MODULE FieldLayout -----------------------------
(***************************************************************************)
(* The field layout of IRNSS_at_1.h and the fields subframe_decoder        *)
(* (irnss_navigation_message.cc) reads with it.  A parameter is a list of  *)
(* <<start, length>> slices of the 292-bit subframe, 1-based; each branch  *)
(* of the decoder's switch reads a fixed list of parameters.  The state is *)
(* the set of parameters the last call read, so an invariant over it       *)
(* speaks of every branch the decoder can take.                            *)
(***************************************************************************)
EXTENDS BitField, FiniteSets, TLC

CONSTANT MsgIds    \* IRNSS_SV_DATA_ID values of the paged subframes

VARIABLES
    subframe_ID,   \* the value subframe_decoder returned last
    read           \* the parameters it read on the way

layoutVars == <<subframe_ID, read>>

\* Fields common to every subframe.
HeaderFields ==
    [IRNSS_TOW |-> << <<9, 17>> >>, IRNSS_ALERT_FLAG |-> << <<26, 1>> >>,
     IRNSS_AUTO_NAV |-> << <<27, 1>> >>, IRNSS_SUBFRAME_ID |-> << <<28, 2>> >>,
     IRNSS_CRC |-> << <<263, 24>> >>, IRNSS_TAIL |-> << <<287, 6>> >>]

\* Subframe 1: clock, group delay and orbit corrections.
Subframe1Fields ==
    [IRNSS_WEEK |-> << <<31, 10>> >>, IRNSS_A_F0 |-> << <<41, 22>> >>,
     IRNSS_A_F1 |-> << <<63, 16>> >>, IRNSS_A_F2 |-> << <<79, 8>> >>,
     IRNSS_SV_ACCURACY |-> << <<87, 4>> >>, IRNSS_T_OC |-> IRNSS_T_OC,
     IRNSS_T_GD |-> << <<107, 8>> >>, IRNSS_DELTA_N |-> << <<115, 22>> >>,
     IRNSS_IODC |-> << <<137, 8>> >>, IRNSS_L5_FLAG |-> << <<155, 1>> >>,
     IRNSS_S_FLAG |-> << <<156, 1>> >>, IRNSS_C_UC |-> << <<157, 15>> >>,
     IRNSS_C_US |-> << <<172, 15>> >>, IRNSS_C_IC |-> << <<187, 15>> >>,
     IRNSS_C_IS |-> << <<202, 15>> >>, IRNSS_C_RC |-> << <<217, 15>> >>,
     IRNSS_C_RS |-> << <<232, 15>> >>, IRNSS_I_DOT |-> << <<247, 14>> >>]

\* Subframe 2: the orbit.  IRNSS_OMEGA is declared with the slice of
\* IRNSS_OMEGA_0, as in the header.
Subframe2Fields ==
    [IRNSS_M_0 |-> << <<31, 32>> >>, IRNSS_T_OE |-> IRNSS_T_OE,
     IRNSS_ECCENTRICITY |-> << <<79, 32>> >>, IRNSS_SQRT_A |-> << <<111, 32>> >>,
     IRNSS_OMEGA_0 |-> << <<143, 32>> >>, IRNSS_OMEGA |-> << <<143, 32>> >>,
     IRNSS_OMEGA_DOT |-> << <<207, 22>> >>, IRNSS_I_0 |-> << <<229, 32>> >>]

\* Subframes 3 and 4: the message type and the PRN the page is about.
PagedFields ==
    [IRNSS_SV_DATA_ID |-> << <<31, 6>> >>, IRNSS_SV_PAGE |-> << <<257, 6>> >>]

\* Message types 9 and 26: UTC parameters.
UtcFields ==
    [IRNSS_A_0 |-> << <<37, 16>> >>, IRNSS_A_1 |-> << <<53, 13>> >>,
     IRNSS_A_2 |-> << <<66, 7>> >>, IRNSS_DELTAT_LS |-> IRNSS_DELTAT_LS,
     IRNSS_T_OT |-> << <<81, 16>> >>, IRNSS_WN_T |-> << <<97, 10>> >>,
     IRNSS_WN_LSF |-> IRNSS_WN_LSF, IRNSS_DN |-> IRNSS_DN,
     IRNSS_DELTAT_LSF |-> IRNSS_DELTAT_LSF]

\* Message type 11: earth orientation and ionospheric coefficients.
EopIonoFields ==
    [IRNSS_T_EOP |-> << <<37, 16>> >>, IRNSS_PM_X |-> << <<53, 21>> >>,
     IRNSS_PM_X_DOT |-> << <<74, 15>> >>, IRNSS_PM_Y |-> << <<89, 21>> >>,
     IRNSS_PM_Y_DOT |-> << <<110, 15>> >>, IRNSS_DELTA_UT1 |-> << <<125, 31>> >>,
     IRNSS_DELTA_UT1_DOT |-> << <<156, 19>> >>,
     IRNSS_ALPHA_0 |-> << <<175, 8>> >>, IRNSS_ALPHA_1 |-> << <<183, 8>> >>,
     IRNSS_ALPHA_2 |-> << <<191, 8>> >>, IRNSS_ALPHA_3 |-> << <<199, 8>> >>,
     IRNSS_BETA_0 |-> << <<207, 8>> >>, IRNSS_BETA_1 |-> << <<215, 8>> >>,
     IRNSS_BETA_2 |-> << <<223, 8>> >>, IRNSS_BETA_3 |-> << <<231, 8>> >>]

\* Every parameter the header declares, by name (the groups share none).
Field == HeaderFields @@ Subframe1Fields @@ Subframe2Fields @@ PagedFields
            @@ UtcFields @@ EopIonoFields

\* The bit positions a parameter occupies.
SliceBits(p) ==
    UNION {s[1]..s[1] + s[2] - 1 : s \in Range(Field[p])}

----------------------------------------------------------------------------
\* The parameters each branch of the switch reads, in the code's order.
Sf1Reads ==
    << "IRNSS_TOW", "IRNSS_ALERT_FLAG", "IRNSS_WEEK", "IRNSS_A_F0",
       "IRNSS_A_F1", "IRNSS_A_F2", "IRNSS_SV_ACCURACY", "IRNSS_T_OC",
       "IRNSS_T_GD", "IRNSS_DELTA_N", "IRNSS_IODC", "IRNSS_L5_FLAG",
       "IRNSS_S_FLAG", "IRNSS_C_US", "IRNSS_C_UC", "IRNSS_C_IC", "IRNSS_C_IS",
       "IRNSS_C_RC", "IRNSS_C_RS", "IRNSS_I_DOT" >>

Sf2Reads ==
    << "IRNSS_TOW", "IRNSS_ALERT_FLAG", "IRNSS_M_0", "IRNSS_T_OE",
       "IRNSS_ECCENTRICITY", "IRNSS_SQRT_A", "IRNSS_OMEGA_0", "IRNSS_OMEGA",
       "IRNSS_OMEGA_DOT", "IRNSS_I_0" >>

PagedReads ==
    << "IRNSS_TOW", "IRNSS_ALERT_FLAG", "IRNSS_SV_PAGE", "IRNSS_SV_DATA_ID" >>

\* Message types 9 and 26 read the same list.
UtcReads ==
    << "IRNSS_A_2", "IRNSS_A_1", "IRNSS_A_0", "IRNSS_T_OT", "IRNSS_WN_T",
       "IRNSS_DELTAT_LS", "IRNSS_WN_LSF", "IRNSS_DN", "IRNSS_DELTAT_LSF" >>

Msg11Reads ==
    << "IRNSS_T_EOP", "IRNSS_PM_X", "IRNSS_PM_X_DOT", "IRNSS_PM_Y",
       "IRNSS_PM_Y_DOT", "IRNSS_DELTA_UT1", "IRNSS_DELTA_UT1_DOT",
       "IRNSS_ALPHA_0", "IRNSS_ALPHA_1", "IRNSS_ALPHA_2", "IRNSS_ALPHA_3",
       "IRNSS_BETA_0", "IRNSS_BETA_1", "IRNSS_BETA_2", "IRNSS_BETA_3" >>

\* The message-type branches of case 3/4: types 5, 7, 14, 18 and 0 are
\* empty placeholders, 9 and 26 read the UTC fields, 11 the EOP/iono ones.
MsgReads(msg) ==
    CASE msg \in {9, 26} -> UtcReads
      [] msg = 11        -> Msg11Reads
      [] OTHER           -> << >>

\* The whole list one call reads for the subframe ID id and message type msg.
ReadsOf(id, msg) ==
    << "IRNSS_SUBFRAME_ID" >> \o
    CASE id = 1        -> Sf1Reads
      [] id = 2        -> Sf2Reads
      [] id \in {3, 4} -> PagedReads \o MsgReads(msg)
      [] OTHER         -> << >>

----------------------------------------------------------------------------
\* Before any call: subframe_ID starts at 0 and nothing has been read.
LayoutInit ==
    /\ subframe_ID = 0
    /\ read = {}

\* subframe_decoder on a subframe whose 2-bit ID field holds id and, for a
\* paged subframe, whose 6-bit message type is msg.
SubframeDecoder(id, msg) ==
    /\ subframe_ID' = id
    /\ read' = Range(ReadsOf(id, msg))

LayoutNext ==
    \E id \in 0..2^Field.IRNSS_SUBFRAME_ID[1][2] - 1, msg \in MsgIds :
        SubframeDecoder(id, msg)

LayoutSpec == LayoutInit /\ [][LayoutNext]_layoutVars

----------------------------------------------------------------------------
(***************************************************************************)
(* Every two distinct parameters one subframe_decoder call reads come from *)
(* disjoint bits of the subframe, and none of them from the CRC or tail.   *)
(* The ICD gives each parameter a field of its own, and spec section 4.4   *)
(* lists longitude of the ascending node and argument of perigee as two    *)
(* parameters of subframe 2.  A wrong start in any of the slice tables of  *)
(* IRNSS_at_1.h makes two values share bits, which no unit test of one     *)
(* reader notices.                                                         *)
(***************************************************************************)
ReadFieldsDisjoint ==
    /\ \A p, q \in read : p # q => SliceBits(p) \cap SliceBits(q) = {}
    /\ \A p \in read : SliceBits(p) \subseteq 1..Field.IRNSS_CRC[1][1] - 1
=============================================================================
