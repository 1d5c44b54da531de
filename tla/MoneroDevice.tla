---------------------------- MODULE MoneroDevice ----------------------------
(***************************************************************************)
(* The state of the Monero Ledger app (monero_v_state_t, src/src/          *)
(* monero_types.h) as far as a transaction concerns it, the main loop that *)
(* receives commands and owes replies, and the review screens.             *)
(*                                                                         *)
(* A digest is the sequence of the items that were hashed; a cleared       *)
(* digest or a freshly initialised hash context is <<>>.  A context that   *)
(* was finalised and not initialised again carries the item Final, so      *)
(* whatever it yields afterwards differs from every proper digest.         *)
(*                                                                         *)
(* Every error status makes the main loop kill the app, which wipes the    *)
(* volatile state: the action Kill stands for all error paths, and each    *)
(* handler models the path on which its checks succeed.                    *)
(***************************************************************************)
EXTENDS Integers, Sequences, FiniteSets

CONSTANTS
  Touch,          \* TRUE: touch screens (NBGL); FALSE: button screens (BAGL)
  Versions,       \* protocol versions the host may speak
  HostModes,      \* signature modes the host may ask for
  Dest,           \* addresses an output may name, no two with one view key
  Own,            \* those that belong to this wallet
  Subaddr,        \* those that are subaddresses
  Amount,         \* amounts and fees
  Masked,         \* destinations a payment ID may be masked for
  Locks,          \* may the prefix lock the transaction
  MaxChunks,      \* largest P2 of INS_PREFIX_HASH (255 in the code)
  MaxStep,        \* largest P2 of the other commands (255 in the code)
  MaxOutputs,     \* bound on tx_output_cnt
  MaxSign,        \* largest tx_sign_cnt (2^32 - 1 in the code)
  MaxRingMsgs,    \* bound on the messages hashed into one ring challenge
  MaxAmountRows,  \* rows of the touch review: MAX_AMOUNT_NUMBER (6),
  MaxAddressRows, \*                           MAX_ADDR_NUMBER (3),
  MaxRows         \*                           MAX_TAGVALUE_NUMBER (9)

ASSUME ConstantsOK ==
  /\ Touch \in BOOLEAN
  /\ Versions \subseteq {0, 3, 4} /\ HostModes \subseteq {"REAL", "FAKE"}
  /\ Own \subseteq Dest /\ Subaddr \subseteq Dest /\ Masked \subseteq Dest
  /\ Locks \subseteq BOOLEAN
  /\ Amount \subseteq Nat
  /\ {MaxChunks, MaxStep, MaxOutputs, MaxSign, MaxRingMsgs} \subseteq Nat
  /\ {MaxAmountRows, MaxAddressRows, MaxRows} \subseteq Nat
  \* the timelock and the fee always fit
  /\ MaxAmountRows >= 2 /\ MaxRows >= 2

VARIABLES
  power,                \* is the app running
  protocol,             \* version latched by the first command
  io_reply_pending,     \* a received command still owes its reply
  review,               \* the question on screen, or <<>>
  rows,                 \* touch only: what is queued for the final review
  tx_in_progress,
  tx_sig_mode,
  tx_state,             \* tx_state_ins, tx_state_p1, tx_state_p2
  tx_stages,
  tx_prehash_more,
  tx_output_cnt,
  tx_payment_id,        \* <<>>, or the payment ID and whom it was masked for
  outkeys, OUTK,        \* outputs derived / streamed for review, and digest
  out_eph, OUT_EPH,     \* output keys derived / found in the prefix, digest
  prefix_outkeys_done,  \* the prefix parser reached PFX_DONE
  commitment, C,        \* chain of output commitments, and its digest
  keccakH,              \* the running transaction hash
  prefixH, mlsagH,      \* its results
  tx_sign_cnt,
  alphas,               \* tx_sign_cnt of each nonce handle hmac_key validates
  c,                    \* the challenge, or <<>>
  clsag_match_history,
  signatures,           \* history: real signatures released since start-up
  shown                 \* history: what the user accepted in this transaction

session   == <<power, protocol, io_reply_pending, review, rows>>
txInfo    == <<tx_prehash_more, tx_output_cnt, tx_payment_id>>
outChains == <<outkeys, OUTK, out_eph, OUT_EPH, prefix_outkeys_done>>
sums      == <<commitment, C>>
hashes    == <<keccakH, prefixH, mlsagH>>
ring      == <<tx_sign_cnt, alphas, c, clsag_match_history, signatures>>
txState   == <<tx_in_progress, tx_sig_mode, tx_state, tx_stages, txInfo,
               outChains, sums, hashes, ring>>
vars      == <<session, txState, shown>>

Unset == 255    \* protocol before the first command: 0xff

Modes  == {"NONE", "REAL", "FAKE"}
Stages == {"PREFIX_FINALIZED", "OUTPUTS_REVIEWED", "USER_APPROVED",
           "PREHASH_FINALIZED"}
Ins    == {"NONE", "OPEN_TX", "STEALTH", "GEN_TXOUT_KEYS", "PREFIX_HASH",
           "GEN_COMMITMENT_MASK", "BLIND", "VALIDATE", "MLSAG", "CLSAG"}
At(ins, p1, p2) == [ins |-> ins, p1 |-> p1, p2 |-> p2]

Real  == tx_sig_mode = "REAL"
Final == [kind |-> "final"]

\* What a user is told, or is queued to be told, by kind and in order.
Items   == {"timelock", "fee", "out", "address"}
NoItems == [kind \in Items |-> <<>>]
Add(items, item) == [items EXCEPT ![item.kind] = Append(@, item)]

\* Mutant: the wrong mode is gated.
FakeOnlyStageCheck(required) == ~Real => required \subseteq tx_stages

\* The stages a handler requires.  Only real transactions are gated.
monero_tx_stages_check(required) == Real => required \subseteq tx_stages

-----------------------------------------------------------------------------
(* Start-up, reset and the end of a transaction. *)

Init ==
  /\ power = "on" /\ review = <<>> /\ rows = NoItems
  /\ protocol = Unset /\ io_reply_pending = FALSE
  /\ tx_in_progress = FALSE /\ tx_sig_mode = "NONE"
  /\ tx_state = At("NONE", 0, 0) /\ tx_stages = {}
  /\ tx_prehash_more = FALSE /\ tx_output_cnt = 0 /\ tx_payment_id = <<>>
  /\ outkeys = <<>> /\ OUTK = <<>> /\ out_eph = <<>> /\ OUT_EPH = <<>>
  /\ prefix_outkeys_done = FALSE
  /\ commitment = <<>> /\ C = <<>>
  /\ keccakH = <<>> /\ prefixH = <<>> /\ mlsagH = <<>>
  /\ tx_sign_cnt = 0 /\ alphas = {} /\ c = <<>>
  /\ clsag_match_history = <<FALSE, FALSE, FALSE>>
  /\ signatures = <<>> /\ shown = NoItems

\* Mutant: the stages survive a reset.
ClearTxButStages ==
  /\ alphas' = {} /\ c' = <<>>
  /\ keccakH' = <<>> /\ prefixH' = <<>> /\ mlsagH' = <<>>
  /\ commitment' = <<>> /\ C' = <<>>
  /\ outkeys' = <<>> /\ out_eph' = <<>> /\ prefix_outkeys_done' = FALSE
  /\ tx_output_cnt' = 0 /\ tx_payment_id' = <<>> /\ tx_prehash_more' = FALSE
  /\ shown' = NoItems /\ UNCHANGED tx_stages

\* monero_reset_tx, all but the flag tx_in_progress.  A new hmac_key disowns
\* every handle.
ClearTx ==
  /\ alphas' = {} /\ c' = <<>>
  /\ keccakH' = <<>> /\ prefixH' = <<>> /\ mlsagH' = <<>>
  /\ commitment' = <<>> /\ C' = <<>>
  /\ outkeys' = <<>> /\ out_eph' = <<>> /\ prefix_outkeys_done' = FALSE
  /\ tx_stages' = {} /\ tx_output_cnt' = 0
  /\ tx_payment_id' = <<>> /\ tx_prehash_more' = FALSE
  /\ shown' = NoItems

\* These and the command state survive.
KeptByReset == <<OUTK, OUT_EPH, tx_sig_mode, tx_sign_cnt, clsag_match_history,
                 signatures>>

monero_reset_tx == ClearTx /\ tx_in_progress' = FALSE /\ UNCHANGED KeptByReset

\* The bzero of monero_v_state_t, in monero_init and before an exit.
Bzero ==
  /\ ClearTx /\ tx_in_progress' = FALSE
  /\ protocol' = Unset /\ io_reply_pending' = FALSE
  /\ tx_sig_mode' = "NONE" /\ tx_state' = At("NONE", 0, 0)
  /\ OUTK' = <<>> /\ OUT_EPH' = <<>>
  /\ tx_sign_cnt' = 0 /\ clsag_match_history' = <<FALSE, FALSE, FALSE>>
  /\ signatures' = <<>>

-----------------------------------------------------------------------------
(* The main loop. *)

\* The first command latches its protocol version for all.
check_protocol == \E v \in Versions : protocol \in {Unset, v} /\ protocol' = v

\* Mutant: app_main does not refuse a command while a reply is owed.
ListeningAlways == power = "on" /\ check_protocol

\* A command was received, and none is unanswered.
Listening == power = "on" /\ ~io_reply_pending /\ check_protocol

\* The handler returns SW_OK: the reply leaves before the next command.
Sync == Listening /\ UNCHANGED <<power, io_reply_pending, review>>

\* An error status, or a command that arrives while a reply is owed: the app
\* answers, wipes its state and exits.  A command can always be refused (bad
\* length, unknown instruction), and the user can always quit.
Kill ==
  /\ power = "on" /\ power' = "off"
  /\ review' = <<>> /\ rows' = NoItems /\ Bzero

Boot ==
  /\ power = "off" /\ power' = "on"
  /\ UNCHANGED <<protocol, io_reply_pending, review, rows, txState, shown>>

\* monero_init, run by INS_RESET in the middle of whatever was going on, or by
\* a change of the settings while no question is on screen.
Reinit ==
  /\ power = "on" /\ ~io_reply_pending
  /\ Bzero /\ UNCHANGED <<power, review, rows>>

\* The commands that touch nothing modelled here: keys, derivations, proofs.
ReadOnlyCommand == Sync /\ UNCHANGED <<rows, txState, shown>>

-----------------------------------------------------------------------------
(* The review screens.                                                      *)

Question(what, item, last) == [what |-> what, item |-> item, last |-> last]

\* The row with an output's destination; an amount row is the item itself.
Address(o) == [kind |-> "address", out |-> o]

\* amountNum, addrNum and nbPairs of the rows queued.
amountNum(queued) == Len(queued.timelock) + Len(queued.fee) + Len(queued.out)
addrNum(queued)   == Len(queued.address)
nbPairs(queued)   == amountNum(queued) + addrNum(queued)

HasAmountRow(queued)  == amountNum(queued) < MaxAmountRows /\ nbPairs(queued) < MaxRows
HasAddressRow(queued) == addrNum(queued) < MaxAddressRows /\ nbPairs(queued) < MaxRows

\* Without a free row nothing is added.
add_amount(queued, item) == IF HasAmountRow(queued) THEN Add(queued, item) ELSE queued
add_address(queued, o) ==
  IF HasAddressRow(queued) THEN Add(queued, Address(o)) ELSE queued

\* A button device asks about every item, and replies when the user answers.
\* A touch device queues the item and replies at once, except for the last
\* item, which puts the whole review on screen.
Ask(item, last, newRows) ==
  /\ Listening /\ UNCHANGED power
  /\ rows' = newRows
  /\ IF last \/ ~Touch
     THEN review' = <<Question("tx", item, last)>> /\ io_reply_pending' = TRUE
     ELSE UNCHANGED <<review, io_reply_pending>>

\* Export of the view key (any time) and the display of an address (never
\* during a transaction): a screen of its own, answered later.
AskOther(what) ==
  /\ Listening
  /\ what = "address" => ~tx_in_progress
  /\ review' = <<Question(what, [kind |-> what], FALSE)>>
  /\ io_reply_pending' = TRUE
  /\ UNCHANGED <<power, rows, txState, shown>>

\* Mutant: the reply leaves without clearing the flag.
AnsweredButOwing == /\ review # <<>> /\ review' = <<>>
                    /\ UNCHANGED <<power, protocol, io_reply_pending>>

Answered == /\ review # <<>> /\ review' = <<>> /\ io_reply_pending' = FALSE
            /\ UNCHANGED <<power, protocol>>

AnswerOther ==
  /\ review # <<>> /\ review[1].what # "tx"
  /\ Answered /\ UNCHANGED <<rows, txState, shown>>

\* ui_menu_amount_validation_action, ui_menu_validation_action: accept.  Only
\* the review that closed the output set approves a button device's
\* transaction; the touch review is always that one.
Accept ==
  /\ review # <<>> /\ review[1].what = "tx" /\ Answered
  /\ tx_stages' = tx_stages \cup
       IF Touch \/ "OUTPUTS_REVIEWED" \in tx_stages THEN {"USER_APPROVED"} ELSE {}
  /\ rows' = NoItems
  /\ shown' = IF Touch THEN rows ELSE Add(shown, review[1].item)
  /\ UNCHANGED <<tx_in_progress, tx_sig_mode, tx_state, txInfo, outChains,
                 sums, hashes, ring>>

Reject ==
  /\ review # <<>> /\ review[1].what = "tx" /\ Answered
  /\ monero_reset_tx /\ UNCHANGED <<rows, tx_state>>

=============================================================================
