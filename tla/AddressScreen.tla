---------------------------- MODULE AddressScreen ----------------------------
(***************************************************************************)
(* The screen that shows an address (monero_key.c, monero_ux_nano.c,       *)
(* monero_ux_nbgl.c and monero_ux_nbgl_menu.c): the host's, which owes a   *)
(* reply, and the user's own, which does not.  They share ux_address with  *)
(* the outputs of a transaction and disp_addr_mode with each other.        *)
(***************************************************************************)
CONSTANTS
  Subs, Dests  \* subaddresses the host asks for, destinations of outputs

VARIABLES
  touch,           \* a device with a touch screen, or one with buttons
  tx_in_progress,
  phase,           \* "outs", "end" after the last output, "signed" after the prehash
  io_reply_pending,
  ux_address,      \* whose address it holds
  disp_addr_mode,  \* NoMode, or what DISPLAY_ADDRESS asked for
  screen,          \* "home", "busy", "status", "address", "export" or "review"
  label            \* what the address screen says the address is

tx      == <<tx_in_progress, phase>>
display == <<screen, label>>
vars    == <<touch, tx, io_reply_pending, ux_address, disp_addr_mode, display>>

NoMode == <<"none">>
Main   == <<"main">>
Whole  == <<"integrated">>
Sub(s) == <<"sub", s>>
To(d)  == <<"output", d>>
Blank  == <<"">>
Change == "change"

\* What DISP_MAIN, DISP_SUB and DISP_INTEGRATED show; mode 0 shows as DISP_MAIN.
LabelOf(mode) == IF mode = NoMode THEN Main ELSE mode

-----------------------------------------------------------------------------
(* Screens. *)

\* Mutant: a touch device keeps the address when it comes home.
HomeKeepsAddress == screen' = "home" /\ UNCHANGED <<label, ux_address, disp_addr_mode>>

\* ui_menu_main_display: display_home_and_settings prepares the own address and
\* clears the mode; a button device prepares it when it is asked for.
Home ==
  /\ screen' = "home" /\ UNCHANGED label
  /\ IF touch THEN ux_address' = Main /\ disp_addr_mode' = NoMode
              ELSE UNCHANGED <<ux_address, disp_addr_mode>>

\* Mutant: the mode outlives the question.
FinishKeepsMode(mode) ==
  /\ screen' = IF touch THEN "status" ELSE "home"
  /\ UNCHANGED <<label, ux_address, disp_addr_mode>>

\* The end of a question: a status on a touch device, which leads home, and the
\* home menu on the other.
Finish(mode) ==
  /\ screen' = IF touch THEN "status" ELSE "home"
  /\ disp_addr_mode' = mode
  /\ UNCHANGED <<label, ux_address>>

Draw(s) == screen' = s /\ UNCHANGED <<label, ux_address, disp_addr_mode>>

EndTx == tx_in_progress' = FALSE /\ phase' = "outs"

Init ==
  /\ touch \in BOOLEAN
  /\ tx_in_progress = FALSE /\ phase = "outs"
  /\ io_reply_pending = FALSE
  /\ ux_address = Main /\ disp_addr_mode = NoMode
  /\ screen = "home" /\ label = Main

-----------------------------------------------------------------------------
(* The host. *)

\* Mutant: an address may be asked for during a transaction.
MayDisplayAnytime == ~io_reply_pending

\* check_ins_access.
MayDisplay == ~io_reply_pending /\ ~tx_in_progress

\* monero_apdu_display_address and ui_menu_any_pubaddr_display.
DisplayAddress(mode) ==
  /\ MayDisplay
  /\ disp_addr_mode' = mode /\ ux_address' = mode
  /\ screen' = "address" /\ label' = LabelOf(mode)
  /\ io_reply_pending' = TRUE
  /\ UNCHANGED tx

\* monero_apdu_get_key, P1=2, during a transaction too.
ExportViewKey ==
  /\ ~io_reply_pending
  /\ Draw("export") /\ io_reply_pending' = TRUE
  /\ UNCHANGED tx

OpenTx ==
  /\ ~io_reply_pending /\ ~tx_in_progress
  /\ tx_in_progress' = TRUE /\ phase' = "outs"
  /\ Draw("busy")
  /\ UNCHANGED io_reply_pending

\* Does an output draw the review, or a touch device's spinner.
Asks(last) == last \/ ~touch

\* Mutant: a touch device queues the rows of an output behind the screen it has.
DrawOnlyReview(last) == IF Asks(last) THEN screen' = "review" ELSE UNCHANGED screen

\* ui_menu_validation_action_confirm, or the review of the output.
DrawOutput(last) == screen' = IF Asks(last) THEN "review" ELSE "busy"

\* An output, before the last one, the last one or after it: a destination is
\* formatted into ux_address, change shows none, like the fee and a timelock.  If
\* its rows do not fit on a touch device, the transaction is aborted and the reply
\* sent, but the screen is drawn all the same.
Output(d, last, fits) ==
  /\ ~io_reply_pending /\ tx_in_progress
  /\ phase = "outs" \/ (phase = "end" /\ ~last)
  /\ fits \/ touch
  /\ IF fits THEN phase' = (IF last THEN "end" ELSE phase) /\ UNCHANGED tx_in_progress
             ELSE EndTx
  /\ ux_address' = IF d = Change THEN ux_address ELSE To(d)
  /\ io_reply_pending' = (fits /\ Asks(last))
  /\ DrawOutput(last)
  /\ UNCHANGED <<label, disp_addr_mode>>

\* ui_menu_transaction_signed, after the prehash.
PrehashFinalize ==
  /\ ~io_reply_pending /\ tx_in_progress /\ phase # "outs"
  /\ phase' = "signed"
  /\ IF touch THEN Draw("status") ELSE UNCHANGED <<display, ux_address, disp_addr_mode>>
  /\ UNCHANGED <<tx_in_progress, io_reply_pending>>

\* monero_apdu_close_tx: a button device goes home.
CloseTx ==
  /\ ~io_reply_pending /\ EndTx
  /\ IF touch THEN UNCHANGED <<display, ux_address, disp_addr_mode>> ELSE Home
  /\ UNCHANGED io_reply_pending

\* monero_apdu_get_tx_proof, at any time: its working buffer tmp is a union with
\* the texts of the screens, and is wiped at the end.
GetTxProof ==
  /\ ~io_reply_pending
  /\ ux_address' = Blank /\ disp_addr_mode' = NoMode
  /\ UNCHANGED <<tx, io_reply_pending, display>>

\* monero_init: the state is wiped and the own address formatted.
Reinit ==
  /\ EndTx /\ io_reply_pending' = FALSE
  /\ ux_address' = Main /\ disp_addr_mode' = NoMode

\* monero_apdu_reset: its reply follows at once, the screen stays.
Reset == ~io_reply_pending /\ Reinit /\ UNCHANGED display

-----------------------------------------------------------------------------
(* The user. *)

\* "Ok", or a touch device's reject: SW_OK either way, if a reply is owed.
LeaveAddress ==
  /\ screen = "address" /\ Finish(NoMode)
  /\ io_reply_pending' = IF disp_addr_mode # NoMode THEN FALSE ELSE io_reply_pending
  /\ UNCHANGED tx

AnswerExport ==
  /\ screen = "export" /\ io_reply_pending' = FALSE /\ Finish(disp_addr_mode)
  /\ UNCHANGED tx

\* A touch device spins on; "Processing TX" on the other.  A review left over from
\* an aborted transaction ends like any other.
AcceptReview ==
  /\ screen = "review" /\ io_reply_pending' = FALSE /\ Draw("busy")
  /\ UNCHANGED tx

\* monero_abort_tx.
RejectReview ==
  /\ screen = "review" /\ io_reply_pending' = FALSE /\ EndTx
  /\ Draw(IF touch THEN "status" ELSE "busy")

\* A status ends by itself; a click leaves an information screen.
ComeHome ==
  /\ IF touch THEN screen = "status" ELSE screen = "busy"
  /\ Home
  /\ UNCHANGED <<tx, io_reply_pending>>

\* Mutant: both devices show what ux_address holds.
ShowAsItIs ==
  /\ screen = "home" /\ screen' = "address"
  /\ label' = LabelOf(disp_addr_mode)
  /\ UNCHANGED <<ux_address, disp_addr_mode, tx, io_reply_pending>>

\* display_account, and ui_menu_pubaddr_display on a button device.
ShowAccount ==
  /\ screen = "home" /\ screen' = "address"
  /\ IF touch
     THEN label' = LabelOf(disp_addr_mode) /\ UNCHANGED <<ux_address, disp_addr_mode>>
     ELSE label' = Main /\ ux_address' = Main /\ disp_addr_mode' = NoMode
  /\ UNCHANGED <<tx, io_reply_pending>>

\* A setting changed in the menus.
ChangeSettings == screen = "home" /\ Reinit /\ UNCHANGED display

Asked == {Main, Whole} \cup {Sub(s) : s \in Subs}

Host ==
  \/ \E mode \in Asked : DisplayAddress(mode)
  \/ ExportViewKey \/ GetTxProof \/ OpenTx
  \/ \E d \in Dests \cup {Change}, last, fits \in BOOLEAN : Output(d, last, fits)
  \/ PrehashFinalize \/ CloseTx \/ Reset

User ==
  \/ LeaveAddress \/ AnswerExport \/ AcceptReview \/ RejectReview
  \/ ComeHome \/ ShowAccount \/ ChangeSettings

Next == (Host \/ User) /\ UNCHANGED touch

Spec == Init /\ [][Next]_vars

-----------------------------------------------------------------------------
(* Properties. *)

\* The address on the screen is the one its label says it is: the one asked for,
\* or the user's own.  INS_GET_TX_PROOF may leave the user's own blank, but never
\* the one a command asked for, and no address is ever another's.
AddressIsAsLabelled ==
  screen = "address" =>
    \/ ux_address = label
    \/ ux_address = Blank /\ ~io_reply_pending

\* A reply is owed exactly while the screen that will send it is up, so that a
\* look at the own address never answers a command, and a command about an
\* address is answered once.  The review of an aborted transaction, drawn because
\* its rows did not fit, owes none.
OwedReplyHasItsScreen ==
  /\ io_reply_pending <=>
       \/ screen = "review" /\ tx_in_progress
       \/ screen = "export"
       \/ screen = "address" /\ disp_addr_mode # NoMode
  /\ disp_addr_mode # NoMode => screen = "address"

\* monero_dispatch.c:95-101: the address screen a command asks for does not run
\* during a transaction.  The home screen may come back between two commands of one
\* (monero_ux_nbgl.c:49-52), after a question about the view key for instance, but
\* all the user can open there is the own address, which answers nothing.
NoAddressAskedInTransaction ==
  tx_in_progress /\ screen = "address" =>
    label = Main /\ ux_address \in {Main, Blank} /\ ~io_reply_pending
=============================================================================
