----------------------------- MODULE ButtonReview -----------------------------
(***************************************************************************)
(* The transaction review of button devices (monero_ux_nano.c): one flow   *)
(* of steps per command, each with an accept of its own.  The steps show   *)
(* the shared buffers as they are when drawn, and between two commands the *)
(* user may walk through the menus, which write to the same buffers.       *)
(*                                                                         *)
(* The host's commands appear as the calls they make to the display, in    *)
(* every order the dispatcher lets them come in.  What else they check     *)
(* before they call it is in MoneroTx.                                     *)
(***************************************************************************)
EXTENDS Naturals, Sequences

CONSTANTS
  Network,            \* "MAINNET", "STAGENET" or "TESTNET"
  Amounts, Dests,     \* texts the handlers format
  Accounts,           \* accounts change may go to, 0 the primary one
  MaxOuts             \* bound on the outputs of a transaction

ASSUME ReviewConstantsOK ==
  /\ Network \in {"MAINNET", "STAGENET", "TESTNET"}
  /\ Accounts \subseteq Nat /\ MaxOuts \in Nat

VARIABLES
  phase,              \* which command comes next: "prefix", "fee", "outs", "end"
  outs,               \* outputs told in this transaction
  tx_in_progress, outputs_reviewed, user_approved,
  io_reply_pending,
  ux_amount, ux_address, changeTitleBuf,
  screen,             \* "menu", "address", "info" or "flow"
  flow,               \* the steps of the flow before its "Sign transaction"
  step,               \* how many of them the user has paged through
  told, read,         \* history: rows told; rows as the user read them
  warned              \* history: did the user pass the network warning

host    == <<phase, outs, tx_in_progress, outputs_reviewed>>
texts   == <<ux_amount, ux_address, changeTitleBuf>>
display == <<screen, flow, step>>
history == <<told, read, warned>>
vars    == <<host, user_approved, io_reply_pending, texts, display, history>>

-----------------------------------------------------------------------------
(* Flows.  A step is its title; what it shows is looked up when drawn. *)

Blank == "blank"
OwnAddress == "own address"

\* monero_format_change_title.
ChangeTitle(major) == <<"Change", major>>

\* What a step shows.
Drawn(title) ==
  CASE title = "Destination"     -> <<title, ux_address>>
    [] title = "&changeTitleBuf" -> <<changeTitleBuf, ux_amount>>
    [] OTHER                     -> <<title, ux_amount>>

\* Mutant: no warning before the change that comes last.
WarnUnlessChange(plain) ==
  IF Network = "MAINNET" \/ plain = <<"&changeTitleBuf">> THEN plain
                                                          ELSE <<"net">> \o plain

\* start_terminal_review: the flow with or without the warning step.
start_terminal_review(plain) == IF Network = "MAINNET" THEN plain ELSE <<"net">> \o plain

\* ux_flow_init, for a review whose reply is then owed.
ux_flow_init(steps) ==
  /\ screen' = "flow" /\ flow' = steps /\ step' = 0 /\ io_reply_pending' = TRUE

\* ui_menu_info_display2.
Info == screen' = "info" /\ flow' = <<>> /\ step' = 0

-----------------------------------------------------------------------------
(* The host's side. *)

Init ==
  /\ phase = "end" /\ outs = 0
  /\ tx_in_progress = FALSE /\ outputs_reviewed = FALSE /\ user_approved = FALSE
  /\ io_reply_pending = FALSE
  /\ ux_amount = Blank /\ ux_address = OwnAddress /\ changeTitleBuf = Blank
  /\ screen = "menu" /\ flow = <<>> /\ step = 0
  /\ told = <<>> /\ read = <<>> /\ warned = FALSE

\* OPEN_TX, after a CLOSE_TX if need be.
OpenTx ==
  /\ ~io_reply_pending
  /\ phase' = "prefix" /\ outs' = 0
  /\ tx_in_progress' = TRUE /\ outputs_reviewed' = FALSE /\ user_approved' = FALSE
  /\ Info
  /\ told' = <<>> /\ read' = <<>> /\ warned' = FALSE
  /\ UNCHANGED <<io_reply_pending, texts>>

\* A command of the transaction, in its turn.
Turn(now, next) ==
  /\ ~io_reply_pending /\ tx_in_progress
  /\ phase = now /\ phase' = next
  /\ UNCHANGED <<tx_in_progress, user_approved, read, warned>>

\* INS_PREFIX_HASH, P1=1: ui_menu_timelock_validation_display, or nothing.
Timelock(lock) ==
  /\ Turn("prefix", "fee")
  /\ ux_amount' = lock
  /\ ux_flow_init(<<"Timelock">>)
  /\ told' = <<<<"Timelock", lock>>>>
  /\ UNCHANGED <<outs, outputs_reviewed, ux_address, changeTitleBuf>>

NoTimelock ==
  /\ Turn("prefix", "fee")
  /\ UNCHANGED <<outs, outputs_reviewed, io_reply_pending, texts, display, told>>

\* INS_VALIDATE, P1=1.
Fee(amt) ==
  /\ Turn("fee", "outs")
  /\ ux_amount' = amt
  /\ ux_flow_init(<<"Fee">>)
  /\ told' = Append(told, <<"Fee", amt>>)
  /\ UNCHANGED <<outs, outputs_reviewed, ux_address, changeTitleBuf>>

\* INS_VALIDATE, P1=2: the bit is raised before the last review is drawn, and
\* stays.  Outputs may follow the last one, each with a flow to be accepted; a
\* second last one fails the check against OUTK.
Output(amt, steps, last) ==
  /\ \/ Turn("outs", IF last THEN "end" ELSE "outs")
     \/ Turn("end", "end") /\ ~last
  /\ outs < MaxOuts /\ outs' = outs + 1
  /\ outputs_reviewed' = (outputs_reviewed \/ last)
  /\ ux_amount' = amt
  /\ ux_flow_init(IF last THEN start_terminal_review(steps) ELSE steps)

\* ui_menu_validation_display and its _last.
Destination(amt, to, last) ==
  /\ Output(amt, <<"Amount", "Destination">>, last)
  /\ ux_address' = to
  /\ told' = told \o <<<<"Amount", amt>>, <<"Destination", to>>>>
  /\ UNCHANGED changeTitleBuf

\* ui_menu_change_validation_display and its _last.
Change(amt, major, last) ==
  /\ Output(amt, <<"&changeTitleBuf">>, last)
  /\ changeTitleBuf' = ChangeTitle(major)
  /\ told' = Append(told, <<ChangeTitle(major), amt>>)
  /\ UNCHANGED ux_address

-----------------------------------------------------------------------------
(* The user's side. *)

\* The user pages on from a step, having read it.
NextStep ==
  /\ screen = "flow" /\ step < Len(flow)
  /\ step' = step + 1
  /\ IF flow[step + 1] = "net"
     THEN warned' = TRUE /\ UNCHANGED read
     ELSE read' = Append(read, Drawn(flow[step + 1])) /\ UNCHANGED warned
  /\ UNCHANGED <<host, user_approved, io_reply_pending, texts, screen, flow, told>>

\* Mutant: every accept approves.
ApproveAnyReview == user_approved' = TRUE

approve_if_terminal_review ==
  user_approved' = (user_approved \/ outputs_reviewed)

\* "Sign transaction", in ui_menu_amount_validation_action and
\* ui_menu_validation_action.
Accept ==
  /\ screen = "flow" /\ step = Len(flow)
  /\ approve_if_terminal_review
  /\ io_reply_pending' = FALSE /\ Info
  /\ UNCHANGED <<host, texts, history>>

\* "Reject": monero_abort_tx, then the reply; "Processing TX" replaces the notice.
Reject ==
  /\ screen = "flow" /\ step = Len(flow)
  /\ tx_in_progress' = FALSE /\ outputs_reviewed' = FALSE /\ user_approved' = FALSE
  /\ io_reply_pending' = FALSE /\ Info
  /\ UNCHANGED <<phase, outs, texts, history>>

\* Mutant: a click leaves a review for the menu too.
ClickAnywhere ==
  /\ screen \in {"info", "flow"} /\ screen' = "menu" /\ flow' = <<>> /\ step' = 0
  /\ UNCHANGED <<host, user_approved, io_reply_pending, texts, history>>

\* A click on an information screen: ui_menu_main_display.
Click ==
  /\ screen = "info" /\ screen' = "menu"
  /\ UNCHANGED <<host, user_approved, io_reply_pending, texts, flow, step, history>>

\* ui_menu_pubaddr_display from the menu, and its "Ok": no reply is owed.
ShowOwnAddress ==
  /\ screen = "menu" /\ screen' = "address" /\ ux_address' = OwnAddress
  /\ UNCHANGED <<host, user_approved, io_reply_pending, ux_amount, changeTitleBuf,
                 flow, step, history>>

LeaveAddress ==
  /\ screen = "address" /\ screen' = "menu"
  /\ UNCHANGED <<host, user_approved, io_reply_pending, texts, flow, step, history>>

\* An account, a network or a reset chosen in the menus: monero_init wipes the
\* transaction, but not the titles, which are outside G_monero_vstate.
ChangeSettings ==
  /\ screen = "menu"
  /\ phase' = "end" /\ outs' = 0
  /\ tx_in_progress' = FALSE /\ outputs_reviewed' = FALSE /\ user_approved' = FALSE
  /\ io_reply_pending' = FALSE
  /\ ux_amount' = Blank /\ ux_address' = OwnAddress
  /\ told' = <<>> /\ read' = <<>> /\ warned' = FALSE
  /\ UNCHANGED <<changeTitleBuf, display>>

User == NextStep \/ Accept \/ Reject

Next ==
  \/ OpenTx
  \/ \E lock \in Amounts : Timelock(lock)
  \/ NoTimelock
  \/ \E amt \in Amounts : Fee(amt)
  \/ \E amt \in Amounts, to \in Dests, last \in BOOLEAN : Destination(amt, to, last)
  \/ \E amt \in Amounts, major \in Accounts, last \in BOOLEAN : Change(amt, major, last)
  \/ User
  \/ Click \/ ShowOwnAddress \/ LeaveAddress \/ ChangeSettings

\* The user does not leave a review for ever.
Spec == Init /\ [][Next]_vars /\ WF_vars(User)

-----------------------------------------------------------------------------
(* Properties. *)

\* A reply is owed exactly while the flow that will give it is on the screen.
\* Otherwise the device, which refuses every command meanwhile, would be stuck,
\* or the screen would decide about a transaction that is gone.
OwedReplyHasItsFlow ==
  /\ io_reply_pending <=> screen = "flow"
  /\ screen = "flow" => tx_in_progress /\ step \in 0..Len(flow)

Promise == INSTANCE ReviewPromise WITH
  told    <- IF tx_in_progress THEN told ELSE <<>>,
  seen    <- IF tx_in_progress THEN read ELSE <<>>,
  closed  <- tx_in_progress /\ phase = "end",
  verdict <- IF ~tx_in_progress THEN "closed"
             ELSE IF user_approved THEN "approved" ELSE "open"

\* What the user approves on a button device is all the handlers told by then,
\* titles of the change included, and not before the accept of the last review,
\* although every accept looks the same and the menus share the buffers.
KeepsPromise == Promise!Spec

\* monero_ux_nano.c:121-131: off the main network nobody signs unwarned.
ApprovedAfterWarning == user_approved /\ Network # "MAINNET" => warned

\* Every command that asks the user is answered in the end.
Answered == io_reply_pending ~> ~io_reply_pending
=============================================================================
