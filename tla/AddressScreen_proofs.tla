-------------------------- MODULE AddressScreen_proofs --------------------------
(***************************************************************************)
(* What is proved about AddressScreen, for both kinds of device, any       *)
(* subaddresses and any destinations.                                      *)
(***************************************************************************)
EXTENDS AddressScreen, TLAPS

\* Why each screen shows what it shows: every output draws a screen of its own, so
\* none stays formatted over an address on the screen, nor over the one a touch
\* device's home screen has ready.
AddressInv ==
  /\ tx_in_progress \in BOOLEAN /\ io_reply_pending \in BOOLEAN
  /\ OwedReplyHasItsScreen
  /\ screen = "address" /\ disp_addr_mode = NoMode =>
       label = Main /\ ux_address \in {Main, Blank}
  /\ screen = "address" /\ disp_addr_mode # NoMode =>
       label = disp_addr_mode /\ ux_address = disp_addr_mode
  /\ touch /\ screen = "home" => ux_address \in {Main, Blank}
  /\ tx_in_progress /\ screen = "address" => disp_addr_mode = NoMode

\* The commands.
LEMMA HostSteps ==
  ASSUME AddressInv, Host, UNCHANGED touch
  PROVE  AddressInv'
<1>1. ASSUME NEW mode \in Asked, DisplayAddress(mode) PROVE AddressInv'
  <2>1. mode # NoMode
    BY DEF Asked, NoMode, Main, Whole, Sub
  <2> QED BY <1>1, <2>1 DEF DisplayAddress, MayDisplay, AddressInv, OwedReplyHasItsScreen,
            LabelOf, tx
<1>2. CASE ExportViewKey
  BY <1>2 DEF ExportViewKey, Draw, AddressInv, OwedReplyHasItsScreen, tx
<1>3. CASE GetTxProof
  BY <1>3 DEF GetTxProof, AddressInv, OwedReplyHasItsScreen, tx, display
<1>4. CASE OpenTx
  BY <1>4 DEF OpenTx, Draw, AddressInv, OwedReplyHasItsScreen
<1>5. ASSUME NEW d, NEW last \in BOOLEAN, NEW fits \in BOOLEAN, Output(d, last, fits)
      PROVE  AddressInv'
  <2>1. CASE Asks(last)
    BY <1>5, <2>1 DEF Output, DrawOutput, EndTx, AddressInv, OwedReplyHasItsScreen
  <2>2. CASE ~Asks(last)
    BY <1>5, <2>2 DEF Output, DrawOutput, Asks, EndTx, AddressInv, OwedReplyHasItsScreen
  <2> QED BY <2>1, <2>2
<1>6. CASE PrehashFinalize
  BY <1>6 DEF PrehashFinalize, Draw, AddressInv, OwedReplyHasItsScreen, tx, display
<1>7. CASE CloseTx
  BY <1>7 DEF CloseTx, EndTx, Home, AddressInv, OwedReplyHasItsScreen, display
<1>8. CASE Reset
  BY <1>8 DEF Reset, Reinit, EndTx, AddressInv, OwedReplyHasItsScreen, display
<1> QED BY <1>1, <1>2, <1>3, <1>4, <1>5, <1>6, <1>7, <1>8 DEF Host

\* The buttons and the screen.
LEMMA UserSteps ==
  ASSUME AddressInv, User, UNCHANGED touch
  PROVE  AddressInv'
<1>1. CASE LeaveAddress
  BY <1>1 DEF LeaveAddress, Finish, AddressInv, OwedReplyHasItsScreen, tx
<1>2. CASE AnswerExport
  BY <1>2 DEF AnswerExport, Finish, AddressInv, OwedReplyHasItsScreen, tx
<1>3. CASE AcceptReview
  BY <1>3 DEF AcceptReview, Draw, AddressInv, OwedReplyHasItsScreen, tx
<1>4. CASE RejectReview
  BY <1>4 DEF RejectReview, EndTx, Draw, AddressInv, OwedReplyHasItsScreen
<1>5. CASE ComeHome
  BY <1>5 DEF ComeHome, Home, AddressInv, OwedReplyHasItsScreen, tx
<1>6. CASE ShowAccount
  BY <1>6 DEF ShowAccount, LabelOf, AddressInv, OwedReplyHasItsScreen, tx
<1>7. CASE ChangeSettings
  BY <1>7 DEF ChangeSettings, Reinit, EndTx, AddressInv, OwedReplyHasItsScreen, display
<1> QED BY <1>1, <1>2, <1>3, <1>4, <1>5, <1>6, <1>7 DEF User

THEOREM AddressScreenIsSound == Spec => []AddressInv
<1>1. Init => AddressInv
  BY DEF Init, AddressInv, OwedReplyHasItsScreen
<1>2. AddressInv /\ [Next]_vars => AddressInv'
  <2> SUFFICES ASSUME AddressInv, [Next]_vars PROVE AddressInv'
    OBVIOUS
  <2>1. CASE UNCHANGED vars
    BY <2>1 DEF vars, tx, display, AddressInv, OwedReplyHasItsScreen
  <2> QED BY <2>1, HostSteps, UserSteps DEF Next
<1> QED BY <1>1, <1>2, PTL DEF Spec

\* monero_key.c and the display modules: the address on the screen is the one the
\* label above it names.
THEOREM ScreenShowsItsAddress == Spec => []AddressIsAsLabelled
<1>1. AddressInv => AddressIsAsLabelled
  BY DEF AddressInv, AddressIsAsLabelled, OwedReplyHasItsScreen
<1> QED BY <1>1, AddressScreenIsSound, PTL

\* monero_ux_nano.c and monero_ux_nbgl.c: whoever opened a screen, exactly the one
\* a command waits for sends its reply.
THEOREM ReplyHasItsScreen == Spec => []OwedReplyHasItsScreen
<1>1. AddressInv => OwedReplyHasItsScreen
  BY DEF AddressInv
<1> QED BY <1>1, AddressScreenIsSound, PTL

\* monero_dispatch.c:95-101: no address a command asked for is on the screen during
\* a transaction, whatever else the host asks and the user opens meanwhile.
THEOREM NoAddressAskedMidway == Spec => []NoAddressAskedInTransaction
<1>1. AddressInv => NoAddressAskedInTransaction
  BY DEF AddressInv, OwedReplyHasItsScreen, NoAddressAskedInTransaction
<1> QED BY <1>1, AddressScreenIsSound, PTL
=============================================================================
