----------------------------- MODULE TouchReview -----------------------------
(***************************************************************************)
(* The transaction review of touch devices (monero_ux_nbgl.c): rows are    *)
(* queued over many commands as pairs of pointers, into buffers that are   *)
(* shared or reused, and read when the review is drawn.                    *)
(*                                                                         *)
(* The host's commands appear as the calls they make to the display, in    *)
(* every order the dispatcher lets them come in.  What else they check     *)
(* before they call it is in MoneroTx.                                     *)
(***************************************************************************)
EXTENDS Naturals, Sequences

CONSTANTS
  Network,            \* "MAINNET", "STAGENET" or "TESTNET"
  Amounts, Dests,     \* texts the handlers format
  Accounts,           \* accounts change may go to, 0 the primary one
  MaxOuts,            \* bound on the outputs of a transaction
  MAX_TAGVALUE_NUMBER, MAX_AMOUNT_NUMBER, MAX_ADDR_NUMBER

ASSUME ReviewConstantsOK ==
  /\ Network \in {"MAINNET", "STAGENET", "TESTNET"}
  /\ Accounts \subseteq Nat /\ MaxOuts \in Nat
  /\ {MAX_TAGVALUE_NUMBER, MAX_AMOUNT_NUMBER} \subseteq Nat \ {0, 1}
  /\ MAX_ADDR_NUMBER \in Nat \ {0}

VARIABLES
  phase,              \* which command comes next: "prefix", "fee", "outs", "end"
  outs,               \* outputs told in this transaction
  tx_in_progress, user_approved, io_reply_pending,
  ux_amount,          \* G_monero_vstate.ux_amount and .ux_address
  ux_address,
  transactionContext, \* rows and their buffers
  changeTitleBuf,
  screen,             \* "none", "warning" or "review"
  page,               \* rows of the review the user has paged through
  told, read,         \* history: rows told; rows as the user read them
  warned              \* history: did the user pass the network warning

host    == <<phase, outs, tx_in_progress, user_approved, io_reply_pending>>
texts   == <<ux_amount, ux_address, transactionContext, changeTitleBuf>>
display == <<screen, page>>
history == <<told, read, warned>>
vars    == <<host, texts, display, history>>

-----------------------------------------------------------------------------
(* Rows.  A title is a text, or the pointer to changeTitleBuf; a value is a *)
(* pointer to an amount or to an address buffer.                            *)

Pair(item, value) == [item |-> item, value |-> value]
Blank == "blank"

\* reset_context.  Buffers and pairs keep what they held.
reset_context(t) == [t EXCEPT !.nbPairs = 0, !.amountNum = 0, !.addrNum = 0]

\* Mutant: one amount too many.
HasAmountRow_offByOne(t) ==
  t.amountNum <= MAX_AMOUNT_NUMBER /\ t.nbPairs < MAX_TAGVALUE_NUMBER

HasAmountRow(t)  == t.amountNum < MAX_AMOUNT_NUMBER /\ t.nbPairs < MAX_TAGVALUE_NUMBER
HasAddressRow(t) == t.addrNum < MAX_ADDR_NUMBER /\ t.nbPairs < MAX_TAGVALUE_NUMBER

\* Mutant: a row points to the text of the output at hand instead of a copy.
add_amount_uncopied(t, title, text) ==
  IF ~HasAmountRow(t) THEN t
  ELSE [t EXCEPT !.amountBuffer[0] = text,
                 !.pairs[t.nbPairs] = Pair(title, <<"amount", 0>>),
                 !.nbPairs = @ + 1, !.amountNum = @ + 1]

\* add_amount and add_address, when there is room; else nothing is added.
add_amount(t, title, text) ==
  IF ~HasAmountRow(t) THEN t
  ELSE [t EXCEPT !.amountBuffer[t.amountNum] = text,
                 !.pairs[t.nbPairs] = Pair(title, <<"amount", t.amountNum>>),
                 !.nbPairs = @ + 1, !.amountNum = @ + 1]

add_address(t, text) ==
  IF ~HasAddressRow(t) THEN t
  ELSE [t EXCEPT !.dstBuffer[t.addrNum] = text,
                 !.pairs[t.nbPairs] = Pair("Destination", <<"dst", t.addrNum>>),
                 !.nbPairs = @ + 1, !.addrNum = @ + 1]

\* What the screen shows for a pair.
Deref(p) ==
  << IF p.item = "&changeTitleBuf" THEN changeTitleBuf ELSE p.item,
     IF p.value[1] = "amount" THEN transactionContext.amountBuffer[p.value[2]]
                              ELSE transactionContext.dstBuffer[p.value[2]] >>

\* monero_format_change_title.
ChangeTitle(major) == <<"Change", major>>

-----------------------------------------------------------------------------
(* The host's side. *)

Init ==
  /\ phase = "end" /\ outs = 0
  /\ tx_in_progress = FALSE /\ user_approved = FALSE /\ io_reply_pending = FALSE
  /\ ux_amount = Blank /\ ux_address = Blank /\ changeTitleBuf = Blank
  /\ transactionContext =
       [pairs |-> [k \in 0..MAX_TAGVALUE_NUMBER - 1 |-> Pair(Blank, <<"amount", 0>>)],
        nbPairs |-> 0,
        amountBuffer |-> [k \in 0..MAX_AMOUNT_NUMBER - 1 |-> Blank], amountNum |-> 0,
        dstBuffer |-> [k \in 0..MAX_ADDR_NUMBER - 1 |-> Blank], addrNum |-> 0]
  /\ screen = "none" /\ page = 0
  /\ told = <<>> /\ read = <<>> /\ warned = FALSE

\* OPEN_TX, after a CLOSE_TX if need be: the spinner replaces any screen.
OpenTx ==
  /\ ~io_reply_pending
  /\ phase' = "prefix" /\ outs' = 0
  /\ tx_in_progress' = TRUE /\ user_approved' = FALSE
  /\ screen' = "none" /\ page' = 0
  /\ told' = <<>> /\ read' = <<>> /\ warned' = FALSE
  /\ UNCHANGED <<io_reply_pending, texts>>

\* A command of the transaction, in its turn.
Turn(now, next) ==
  ~io_reply_pending /\ tx_in_progress /\ phase = now /\ phase' = next

\* INS_PREFIX_HASH, P1=1: ui_menu_timelock_validation_display, or
\* ui_menu_transaction_start.
Timelock(lock) ==
  /\ Turn("prefix", "fee")
  /\ ux_amount' = lock
  /\ transactionContext' =
       add_amount(reset_context(transactionContext), "Timelock", lock)
  /\ told' = <<<<"Timelock", lock>>>>
  /\ UNCHANGED <<outs, tx_in_progress, user_approved, io_reply_pending, ux_address,
                 changeTitleBuf, display, read, warned>>

NoTimelock ==
  /\ Turn("prefix", "fee")
  /\ transactionContext' = reset_context(transactionContext)
  /\ UNCHANGED <<outs, tx_in_progress, user_approved, io_reply_pending, ux_amount,
                 ux_address, changeTitleBuf, display, history>>

\* INS_VALIDATE, P1=1.  There is room: at most the timelock is queued.
Fee(amt) ==
  /\ Turn("fee", "outs")
  /\ ux_amount' = amt
  /\ transactionContext' = add_amount(transactionContext, "Fee", amt)
  /\ told' = Append(told, <<"Fee", amt>>)
  /\ UNCHANGED <<outs, tx_in_progress, user_approved, io_reply_pending, ux_address,
                 changeTitleBuf, display, read, warned>>

\* Mutant: the warning is for one of the test networks only.
StartOnStagenet == IF Network = "STAGENET" THEN "warning" ELSE "review"

\* start_signature.
StartSignature == IF Network = "MAINNET" THEN "review" ELSE "warning"

\* What follows the rows of an output: one that did not fit has aborted the
\* transaction and replied.  The last one draws the review all the same, and
\* if nothing was aborted its reply is owed.
Shown(fits, last) ==
  /\ tx_in_progress' = fits
  /\ user_approved' = (fits /\ user_approved)
  /\ IF last THEN screen' = StartSignature /\ page' = 0 /\ io_reply_pending' = fits
             ELSE UNCHANGED <<screen, page, io_reply_pending>>
  /\ UNCHANGED <<read, warned>>

\* INS_VALIDATE, P1=2.  Outputs may follow the last one, when the review is over:
\* their rows are queued from the first again and wait for a review that does not
\* come, because a second last one fails the check against OUTK.
NextOutput(last) ==
  /\ \/ Turn("outs", IF last THEN "end" ELSE "outs")
     \/ Turn("end", "end") /\ ~last
  /\ outs < MaxOuts /\ outs' = outs + 1

\* ui_menu_validation_display and its _last.
Destination(amt, to, last) ==
  LET withAmount == add_amount(transactionContext, "Amount", amt) IN
  /\ NextOutput(last)
  /\ ux_amount' = amt /\ ux_address' = to
  /\ transactionContext' = add_address(withAmount, to)
  /\ told' = Append(Append(told, <<"Amount", amt>>), <<"Destination", to>>)
  /\ Shown(HasAmountRow(transactionContext) /\ HasAddressRow(withAmount), last)
  /\ UNCHANGED changeTitleBuf

\* ui_menu_change_validation_display and its _last.
Change(amt, major, last) ==
  /\ NextOutput(last)
  /\ ux_amount' = amt /\ changeTitleBuf' = ChangeTitle(major)
  /\ transactionContext' = add_amount(transactionContext, "&changeTitleBuf", amt)
  /\ told' = Append(told, <<ChangeTitle(major), amt>>)
  /\ Shown(HasAmountRow(transactionContext), last)
  /\ UNCHANGED ux_address

-----------------------------------------------------------------------------
(* The user's side. *)

\* network_warning_choice: go on to the review.
PassWarning ==
  /\ screen = "warning" /\ screen' = "review" /\ warned' = TRUE
  /\ UNCHANGED <<host, texts, page, told, read>>

\* The user pages on; a row is read as its page is drawn.
TurnPage ==
  /\ screen = "review" /\ page < transactionContext.nbPairs
  /\ page' = page + 1
  /\ read' = Append(read, Deref(transactionContext.pairs[page]))
  /\ UNCHANGED <<host, texts, screen, told, warned>>

\* ui_menu_validation_action: the question comes after the last row.
Accept ==
  /\ screen = "review" /\ page = transactionContext.nbPairs
  /\ user_approved' = TRUE
  /\ transactionContext' = reset_context(transactionContext)
  /\ io_reply_pending' = FALSE /\ screen' = "none" /\ page' = 0
  /\ UNCHANGED <<phase, outs, tx_in_progress, ux_amount, ux_address,
                 changeTitleBuf, history>>

\* At the warning, or anywhere in the review.
Reject ==
  /\ screen # "none" /\ screen' = "none" /\ page' = 0
  /\ tx_in_progress' = FALSE /\ user_approved' = FALSE /\ io_reply_pending' = FALSE
  /\ UNCHANGED <<phase, outs, texts, history>>

Next ==
  \/ OpenTx
  \/ \E lock \in Amounts : Timelock(lock)
  \/ NoTimelock
  \/ \E amt \in Amounts : Fee(amt)
  \/ \E amt \in Amounts, to \in Dests, last \in BOOLEAN : Destination(amt, to, last)
  \/ \E amt \in Amounts, major \in Accounts, last \in BOOLEAN : Change(amt, major, last)
  \/ PassWarning \/ TurnPage \/ Accept \/ Reject

Spec == Init /\ [][Next]_vars

-----------------------------------------------------------------------------
(* Properties. *)

\* The counts never run past the arrays they index, in whatever order rows were
\* queued, refused and reset, and the user is on a page that exists
\* (monero_ux_nbgl.c:106-149, 194-198).
RowsFit ==
  /\ transactionContext.nbPairs \in 0..MAX_TAGVALUE_NUMBER
  /\ transactionContext.amountNum \in 0..MAX_AMOUNT_NUMBER
  /\ transactionContext.addrNum \in 0..MAX_ADDR_NUMBER
  /\ page \in 0..transactionContext.nbPairs

\* Of the title of a change row, only that it is one.
WithoutAccount(row) == IF row[1] \in {ChangeTitle(m) : m \in Accounts}
                       THEN <<"Change", row[2]>> ELSE row
Rows(rows) == [k \in DOMAIN rows |-> WithoutAccount(rows[k])]

\* In an approved or pending transaction, the rows as a review's promise knows
\* them; an aborted one is over, whatever is still on screen.
Promise == INSTANCE ReviewPromise WITH
  told    <- IF tx_in_progress THEN Rows(told) ELSE <<>>,
  seen    <- IF tx_in_progress THEN Rows(read) ELSE <<>>,
  closed  <- tx_in_progress /\ phase = "end",
  verdict <- IF ~tx_in_progress THEN "closed"
             ELSE IF user_approved THEN "approved" ELSE "open"

\* What the user approves on a touch device is all the handlers told by then,
\* amounts and destinations word for word and in order, although every row is read
\* long after the command that queued it, through buffers the later ones write to.
KeepsPromise == Promise!Spec

\* monero_ux_nbgl.c:178-190: off the main network nobody signs unwarned, in a
\* transaction that has been warned about.
ApprovedAfterWarning ==
  tx_in_progress /\ user_approved /\ Network # "MAINNET" => warned

\* monero_ux_nbgl.c:230-231: a non-primary account of the change is surfaced, so
\* that a host cannot silently route change to an undisplayed account.  The rows
\* read are those told before the approval.
ChangeAccountsTold ==
  tx_in_progress /\ user_approved => read = SubSeq(told, 1, Len(read))
=============================================================================
