------------------------------ MODULE MoneroTx ------------------------------
(***************************************************************************)
(* The commands that build and sign a transaction: the dispatcher's state  *)
(* machine (monero_dispatch.c) and the handlers behind it.  An action is   *)
(* one command with the P1/P2 checks of the dispatcher, the whole handler  *)
(* and the update of tx_state that follows.                                *)
(*                                                                         *)
(* An output is [to, chg, ak]: destination, change flag and the amount key *)
(* the device derived for it, named by the output's index.  The output key *)
(* that goes on chain is the pair of destination and index.  A commitment  *)
(* is determined by the amount key and the amount.                         *)
(***************************************************************************)
EXTENDS MoneroDevice

Output     == [to : Dest, chg : BOOLEAN, ak : 0..MaxOutputs - 1]
EphKey     == [to : Dest, ak : 0..MaxOutputs - 1]
PaymentId  == [to : Masked, dummy : BOOLEAN]
Commitment == [ak : 0..MaxOutputs - 1, amt : Amount]

Key(o)        == [to |-> o.to, ak |-> o.ak]
Commit(o, amt) == [ak |-> o.ak, amt |-> amt]

\* What the transaction hash absorbs.
Header(lock)   == [kind |-> "header", lock |-> lock]
\* A piece of the prefix stream: some output keys (in the model one, or all that
\* were derived), the payment ID nonce of `extra` if any, and whether the parser
\* gets to the end of `extra` in it.
Chunks ==
  [kind : {"chunk"}, outs : {<<>>, OUT_EPH} \cup {<<e>> : e \in EphKey},
   nonce : {<<>>} \cup {<<p>> : p \in PaymentId}, end : BOOLEAN]
Fee(amt)       == [kind |-> "fee", amt |-> amt]
PseudoOut      == [kind |-> "pseudoOut"]
EcdhInfo(k)    == [kind |-> "ecdhInfo", of |-> k]
OutPk(k)       == [kind |-> "outPk", of |-> k]

\* What the user is told.
Timelock       == [kind |-> "timelock"]
OutputItem(o, amt) ==
  [kind |-> "out", out |-> o, amt |-> amt,
   pid |-> ~o.chg /\ tx_payment_id # <<>> /\ ~tx_payment_id[1].dummy]

More == BOOLEAN   \* IN_OPTION_MORE_COMMAND
Step == 1..MaxStep

After(inss)    == tx_state.ins \in inss
In(ins, p1)    == tx_state.ins = ins /\ tx_state.p1 = p1
Goto(ins, p1, p2) == tx_state' = At(ins, p1, p2)

-----------------------------------------------------------------------------
(* Opening and closing. *)

\* Mutant: the mode may change during a transaction.
SetSignatureModeAnyTime(mode) ==
  /\ Sync
  /\ mode = "REAL" => protocol' \in {3, 4}
  /\ tx_sig_mode' = mode
  /\ UNCHANGED <<rows, tx_in_progress, tx_state, tx_stages, txInfo, outChains,
                 sums, hashes, ring, shown>>

SetSignatureMode(mode) ==
  /\ Sync
  /\ ~tx_in_progress
  /\ mode = "REAL" => protocol' \in {3, 4}
  /\ tx_sig_mode' = mode
  /\ UNCHANGED <<rows, tx_in_progress, tx_state, tx_stages, txInfo, outChains,
                 sums, hashes, ring, shown>>

\* What is on screen makes way for "Processing TX".
OpenTx ==
  /\ Listening /\ UNCHANGED <<power, io_reply_pending>> /\ review' = <<>>
  /\ tx_state.ins = "NONE"
  /\ ClearTx /\ tx_in_progress' = TRUE /\ UNCHANGED KeptByReset
  /\ Goto("OPEN_TX", 1, 0)
  /\ UNCHANGED rows

\* Mutant: the next transaction cannot be opened.
CloseTxOnly == Sync /\ monero_reset_tx /\ UNCHANGED <<tx_state, rows>>

CloseTx == Sync /\ monero_reset_tx /\ Goto("NONE", 0, 0) /\ UNCHANGED rows

\* In a transaction.  Outside one INS_STEALTH keeps nothing: ReadOnlyCommand.
Stealth(pid) ==
  /\ Sync
  /\ tx_in_progress /\ After({"OPEN_TX", "STEALTH"})
  /\ IF Real THEN tx_payment_id = <<>> /\ tx_payment_id' = <<pid>>
             ELSE UNCHANGED tx_payment_id
  /\ Goto("STEALTH", 0, 0)
  /\ UNCHANGED <<rows, tx_in_progress, tx_sig_mode, tx_stages, tx_prehash_more,
                 tx_output_cnt, outChains, sums, hashes, ring, shown>>

-----------------------------------------------------------------------------
(* Outputs: derivation, and the prefix that must carry them. *)

GenTxoutKeys(to, chg) ==
  LET o == [to |-> to, chg |-> chg, ak |-> tx_output_cnt] IN
  /\ Sync
  /\ tx_in_progress /\ After({"OPEN_TX", "GEN_TXOUT_KEYS", "STEALTH"})
  /\ tx_output_cnt < MaxOutputs /\ tx_output_cnt' = tx_output_cnt + 1
  /\ IF Real
     THEN outkeys' = Append(outkeys, o) /\ out_eph' = Append(out_eph, Key(o))
     ELSE UNCHANGED <<outkeys, out_eph>>
  /\ Goto("GEN_TXOUT_KEYS", 0, 0)
  /\ UNCHANGED <<rows, tx_in_progress, tx_sig_mode, tx_stages, tx_prehash_more,
                 tx_payment_id, OUTK, OUT_EPH, prefix_outkeys_done, sums,
                 hashes, ring, shown>>

\* Mutant: a timelock is not shown.
AnnounceNothing(lock) == Sync /\ rows' = NoItems

\* A timelock is shown.  A touch review starts here.
Announce(lock) ==
  IF lock
  THEN Ask(Timelock, FALSE, IF Touch THEN Add(NoItems, Timelock) ELSE NoItems)
  ELSE Sync /\ rows' = NoItems

\* P1=1: version and timelock.
PrefixHashInit(lock) ==
  /\ tx_in_progress /\ After({"GEN_TXOUT_KEYS"})
  /\ tx_stages' = tx_stages \ {"PREFIX_FINALIZED"}
  /\ keccakH' = Append(keccakH, Header(lock))
  /\ IF Real
     THEN OUT_EPH' = out_eph /\ out_eph' = <<>> /\ prefix_outkeys_done' = FALSE
     ELSE UNCHANGED <<OUT_EPH, out_eph, prefix_outkeys_done>>
  /\ IF Real THEN Announce(lock) ELSE Sync /\ UNCHANGED rows
  /\ Goto("PREFIX_HASH", 1, 0)
  /\ UNCHANGED <<tx_in_progress, tx_sig_mode, txInfo, outkeys, OUTK, sums,
                 prefixH, mlsagH, ring, shown>>

\* Mutant: the output keys are not compared.
ParsedAsAnything(chunk) == chunk.nonce = tx_payment_id

\* Mutant: a payment ID nonce that never appears is not missed.
ParsedWithoutNonce(chunk) ==
  out_eph \o chunk.outs = OUT_EPH /\ chunk.nonce \in {<<>>, tx_payment_id}

\* At the end of the stream the output keys are the derived ones, and there is a
\* payment ID nonce exactly when the device made one.
ParsedAsDerived(chunk) ==
  out_eph \o chunk.outs = OUT_EPH /\ chunk.nonce = tx_payment_id

\* monero_prefix_outkeys_parse: the keys of the stream are hashed and checked at
\* its end; the nonce is in `extra`.  What follows `extra` is skipped.
ParsePrefix(chunk) ==
  IF prefix_outkeys_done THEN UNCHANGED <<out_eph, prefix_outkeys_done>>
  ELSE /\ chunk.nonce # <<>> => chunk.end
       /\ chunk.end => ParsedAsDerived(chunk)
       /\ out_eph' = out_eph \o chunk.outs \o (IF chunk.end THEN <<Final>> ELSE <<>>)
       /\ prefix_outkeys_done' = chunk.end

\* P1=2: a piece of the prefix, the last one when MORE is clear.
PrefixHashUpdate(chunk, more, p2) ==
  /\ Sync
  /\ tx_in_progress
  /\ \/ In("PREFIX_HASH", 1) /\ p2 = 1
     \/ In("PREFIX_HASH", 2) /\ p2 = tx_state.p2 + 1
  /\ IF Real THEN ParsePrefix(chunk)
             ELSE UNCHANGED <<out_eph, prefix_outkeys_done>>
  /\ IF more
     THEN keccakH' = Append(keccakH, chunk) /\ UNCHANGED <<prefixH, tx_stages>>
     ELSE /\ Real => prefix_outkeys_done'
          /\ prefixH' = Append(keccakH, chunk)
          /\ keccakH' = Append(prefixH', Final)
          /\ tx_stages' = tx_stages \cup IF Real THEN {"PREFIX_FINALIZED"} ELSE {}
  /\ Goto("PREFIX_HASH", 2, p2)
  /\ UNCHANGED <<rows, tx_in_progress, tx_sig_mode, txInfo, outkeys, OUTK,
                 OUT_EPH, sums, mlsagH, ring, shown>>

\* Both return what they compute and keep nothing.
GenCommitmentMask ==
  /\ Sync
  /\ tx_in_progress /\ After({"PREFIX_HASH", "GEN_COMMITMENT_MASK"})
  /\ monero_tx_stages_check({"PREFIX_FINALIZED"})
  /\ tx_output_cnt > 0    \* an amount key of this transaction
  /\ Goto("GEN_COMMITMENT_MASK", 0, 0)
  /\ UNCHANGED <<rows, tx_in_progress, tx_sig_mode, tx_stages, txInfo,
                 outChains, sums, hashes, ring, shown>>

Blind ==
  /\ Sync
  /\ tx_in_progress
  /\ \/ tx_sig_mode = "FAKE" /\ After({"PREFIX_HASH", "BLIND"})
     \/ Real /\ After({"GEN_COMMITMENT_MASK", "BLIND"})
  /\ tx_output_cnt > 0
  /\ Goto("BLIND", 0, 0)
  /\ UNCHANGED <<rows, tx_in_progress, tx_sig_mode, tx_stages, txInfo,
                 outChains, sums, hashes, ring, shown>>

-----------------------------------------------------------------------------
(* INS_VALIDATE: the fee, the outputs one by one, the output commitments.   *)

\* Mutant: INS_VALIDATE starts over at any time.
ValidateStepAnew(p1, p2) ==
  /\ tx_in_progress
  /\ \/ After({"BLIND", "VALIDATE"}) /\ p1 = 1 /\ p2 = 1
     \/ In("VALIDATE", p1) /\ p2 = tx_state.p2 + 1
     \/ In("VALIDATE", p1 - 1) /\ p2 = 1
  /\ Goto("VALIDATE", p1, p2)

ValidateStep(p1, p2) ==
  /\ tx_in_progress
  /\ \/ After({"BLIND"}) /\ p1 = 1 /\ p2 = 1
     \/ In("VALIDATE", p1) /\ p2 = tx_state.p2 + 1
     \/ In("VALIDATE", p1 - 1) /\ p2 = 1
  /\ Goto("VALIDATE", p1, p2)

\* Mutant: the hash is not begun anew.
PrehashInitFeeHashOn(amt, more) ==
  /\ ValidateStep(1, 1)
  /\ Real
  /\ tx_prehash_more' = more
  /\ OUTK' = outkeys /\ outkeys' = <<>> /\ commitment' = <<>>
  /\ keccakH' = Append(keccakH, Fee(amt))
  /\ Ask(Fee(amt), FALSE, IF Touch THEN Add(rows, Fee(amt)) ELSE rows)
  /\ UNCHANGED <<tx_in_progress, tx_sig_mode, tx_stages, tx_output_cnt,
                 tx_payment_id, out_eph, OUT_EPH, prefix_outkeys_done, C,
                 prefixH, mlsagH, ring, shown>>

\* P1=1, P2=1 of a real transaction: the output set is closed and the fee shown.
\* The fee always fits on a touch device: at most the timelock is queued.
PrehashInitFee(amt, more) ==
  /\ ValidateStep(1, 1)
  /\ Real
  /\ tx_prehash_more' = more
  /\ OUTK' = outkeys /\ outkeys' = <<>> /\ commitment' = <<>>
  /\ keccakH' = <<Fee(amt)>>
  /\ Ask(Fee(amt), FALSE, IF Touch THEN Add(rows, Fee(amt)) ELSE rows)
  /\ UNCHANGED <<tx_in_progress, tx_sig_mode, tx_stages, tx_output_cnt,
                 tx_payment_id, out_eph, OUT_EPH, prefix_outkeys_done, C,
                 prefixH, mlsagH, ring, shown>>

\* P1=1 otherwise: bytes nobody reviews.
PrehashInit(more, p2) ==
  /\ Sync
  /\ ValidateStep(1, p2)
  /\ IF Real THEN p2 > 1 /\ tx_prehash_more /\ tx_prehash_more' = more
             ELSE UNCHANGED tx_prehash_more
  /\ keccakH' = Append(keccakH, PseudoOut)
  /\ UNCHANGED <<rows, tx_in_progress, tx_sig_mode, tx_stages, tx_output_cnt,
                 tx_payment_id, outChains, sums, prefixH, mlsagH, ring, shown>>

\* Mutant: the output set may end anywhere.
ClosesAnything(o) == TRUE

\* The last output completes the list the device derived.
ClosesOutkeys(o) == Append(outkeys, o) = OUTK

\* Mutant: change may go anywhere.
ForeignChange(o, amt) == TRUE

\* monero_check_change_address, for change that is worth anything.
OwnChange(o, amt) == amt # 0 => o.to \in Own

\* What a real output must pass to be shown.  The commitment check passes: the
\* host sends the commitment of the amount.
Reviewable(o, amt, more) ==
  /\ IF o.chg
     THEN OwnChange(o, amt)
     ELSE /\ amt # 0
          /\ tx_payment_id # <<>> =>
               /\ o.to = tx_payment_id[1].to
               /\ tx_payment_id[1].dummy \/ o.to \notin Subaddr
  /\ ~more => ClosesOutkeys(o)

\* Mutant: the address of a destination is not shown.
OutputRowsUnaddressed(o, amt) == add_amount(rows, OutputItem(o, amt))

\* The rows the touch review needs for an output, and whether they are free.
OutputRows(o, amt) ==
  LET queued == add_amount(rows, OutputItem(o, amt)) IN
  IF o.chg THEN queued ELSE add_address(queued, o)
Overflows(o, amt) ==
  Touch /\ ~(/\ HasAmountRow(rows)
             /\ o.chg \/ HasAddressRow(add_amount(rows, OutputItem(o, amt))))

\* P1=2 of a real transaction.  MORE clear closes the output set.
PrehashUpdate(o, amt, more, p2) ==
  /\ ValidateStep(2, p2)
  /\ Real /\ o.ak < tx_output_cnt
  /\ Reviewable(o, amt, more)
  /\ ~Overflows(o, amt)
  /\ keccakH' = Append(keccakH, EcdhInfo(Commit(o, amt)))
  /\ IF more
     THEN /\ outkeys' = Append(outkeys, o)
          /\ commitment' = Append(commitment, Commit(o, amt))
          /\ UNCHANGED <<C, tx_stages>>
     ELSE /\ outkeys' = Append(Append(outkeys, o), Final)
          /\ C' = Append(commitment, Commit(o, amt)) /\ commitment' = <<>>
          /\ tx_stages' = tx_stages \cup {"OUTPUTS_REVIEWED"}
  /\ Ask(OutputItem(o, amt), ~more,
         IF Touch THEN OutputRows(o, amt) ELSE rows)
  /\ UNCHANGED <<tx_in_progress, tx_sig_mode, txInfo, OUTK, out_eph, OUT_EPH,
                 prefix_outkeys_done, prefixH, mlsagH, ring, shown>>

\* The same when a row does not fit: the transaction is aborted and refused, and
\* then the display goes on as if the row were there.  Short of the last output
\* that is a second reply; at the last, the review is drawn with no reply owed.
PrehashUpdateOverflow(o, amt, more, p2) ==
  /\ ValidateStep(2, p2)
  /\ Real /\ o.ak < tx_output_cnt
  /\ Reviewable(o, amt, more)
  /\ Overflows(o, amt)
  /\ Listening /\ UNCHANGED <<power, io_reply_pending>>
  /\ monero_reset_tx
  /\ rows' = OutputRows(o, amt)
  /\ review' = IF more THEN review
                       ELSE <<Question("tx", OutputItem(o, amt), TRUE)>>

\* P1=2 of a fake transaction.
PrehashUpdateFake(o, amt, p2) ==
  /\ Sync
  /\ ValidateStep(2, p2)
  /\ ~Real /\ o.ak < tx_output_cnt
  /\ keccakH' = Append(keccakH, EcdhInfo(Commit(o, amt)))
  /\ UNCHANGED <<rows, tx_in_progress, tx_sig_mode, tx_stages, txInfo,
                 outChains, sums, prefixH, mlsagH, ring, shown>>

\* P1=3 with MORE: one output commitment.
PrehashAccumulate(k, p2) ==
  /\ Sync
  /\ ValidateStep(3, p2)
  /\ keccakH' = Append(keccakH, OutPk(k))
  /\ commitment' = Append(commitment, k)
  /\ UNCHANGED <<rows, tx_in_progress, tx_sig_mode, tx_stages, txInfo,
                 outChains, C, prefixH, mlsagH, ring, shown>>

\* Mutant: the commitments absorbed are not compared.
FinalizableUncommitted(message) ==
  /\ monero_tx_stages_check({"USER_APPROVED", "PREFIX_FINALIZED",
                             "OUTPUTS_REVIEWED"})
  /\ protocol' >= 3 => message = prefixH

Finalizable(message) ==
  /\ monero_tx_stages_check({"USER_APPROVED", "PREFIX_FINALIZED",
                             "OUTPUTS_REVIEWED"})
  /\ Real => commitment = C
  /\ protocol' >= 3 => message = prefixH

\* P1=3 without: the checks that unlock signing, and the hash to be signed.
PrehashFinalize(message, p2) ==
  /\ Sync
  /\ ValidateStep(3, p2)
  /\ Finalizable(message)
  /\ mlsagH' = <<[message |-> message, body |-> keccakH]>>
  /\ keccakH' = <<Final>>
  /\ commitment' = IF Real THEN Append(commitment, Final) ELSE commitment
  /\ tx_stages' = tx_stages \cup IF Real THEN {"PREHASH_FINALIZED"} ELSE {}
  /\ UNCHANGED <<rows, tx_in_progress, tx_sig_mode, txInfo, outChains, C,
                 prefixH, ring, shown>>

-----------------------------------------------------------------------------
(* INS_MLSAG and INS_CLSAG: one ring signature after the other, each of     *)
(* P1=1 prepare, P1=2 hash (repeated), P1=3 sign.  P2 matters to P1=2 only  *)
(* and is 0 elsewhere.                                                      *)

\* Mutant: one ring signature is all there is.
RingStepOnce(ins, p1, p2) ==
  /\ tx_in_progress
  /\ protocol' \in IF ins = "CLSAG" THEN {4} ELSE {3, 4}
  /\ monero_tx_stages_check({"PREHASH_FINALIZED"})
  /\ \/ In("VALIDATE", 3) /\ p1 = 1
     \/ In(ins, 1) /\ p1 = 2 /\ p2 = 1
     \/ In(ins, 2) /\ p1 = 2 /\ (tx_state.p2 # 0 => p2 = 1)
     \/ In(ins, 2) /\ p1 = 3 /\ tx_state.p2 # 0

\* Mutant: a second signature may follow the first.
RingStepSignAgain(ins, p1, p2) ==
  /\ tx_in_progress
  /\ protocol' \in IF ins = "CLSAG" THEN {4} ELSE {3, 4}
  /\ monero_tx_stages_check({"PREHASH_FINALIZED"})
  /\ \/ In("VALIDATE", 3) /\ p1 = 1
     \/ In(ins, 1) /\ p1 = 2 /\ p2 = 1
     \/ In(ins, 2) /\ p1 = 2 /\ (tx_state.p2 # 0 => p2 = 1)
     \/ In(ins, 2) /\ p1 = 3 /\ tx_state.p2 # 0
     \/ In(ins, 3) /\ p1 \in {1, 3}

RingStep(ins, p1, p2) ==
  /\ tx_in_progress
  /\ protocol' \in IF ins = "CLSAG" THEN {4} ELSE {3, 4}
  /\ monero_tx_stages_check({"PREHASH_FINALIZED"})
  /\ \/ In("VALIDATE", 3) /\ p1 = 1
     \/ In(ins, 1) /\ p1 = 2 /\ p2 = 1
     \/ In(ins, 2) /\ p1 = 2 /\ (tx_state.p2 # 0 => p2 = 1)
     \/ In(ins, 2) /\ p1 = 3 /\ tx_state.p2 # 0
     \/ In(ins, 3) /\ p1 = 1

\* Mutant: the last count is not refused.
UseSignCountTooFar == tx_sign_cnt <= MaxSign /\ tx_sign_cnt' = tx_sign_cnt + 1

\* Both prepares count the ring signature first, and stop at the last count.
UseSignCount == tx_sign_cnt < MaxSign /\ tx_sign_cnt' = tx_sign_cnt + 1

Prepare(ins) ==
  /\ Sync
  /\ RingStep(ins, 1, 0)
  /\ UseSignCount
  /\ alphas' = alphas \cup {tx_sign_cnt'}
  /\ Goto(ins, 1, 0)
  /\ UNCHANGED <<rows, tx_in_progress, tx_sig_mode, tx_stages, txInfo,
                 outChains, sums, hashes, c, clsag_match_history, signatures,
                 shown>>

RingMsg(prehash) == IF prehash THEN [kind |-> "prehash", of |-> mlsagH]
                               ELSE [kind |-> "other"]

\* Mutant: CLSAG does not look for mlsagH.
HistoryIgnored(ins, history) == TRUE

\* CLSAG takes every message from the host and wants mlsagH to be the last but
\* two (clsag_match_history: oldest first).
HistoryMatches(ins, history) == ins = "CLSAG" => history[1]

\* The challenge over everything hashed since P2=1.
Challenge(ins, over) == [ring |-> tx_sign_cnt, ins |-> ins, over |-> over]

\* The first message of MLSAG is mlsagH.
Hash(ins, prehash, more, p2) ==
  LET msgs == Append(IF p2 = 1 THEN <<>> ELSE keccakH, RingMsg(prehash))
      seen == IF p2 = 1 THEN <<FALSE, FALSE, FALSE>> ELSE clsag_match_history
      now  == IF ins = "CLSAG" THEN <<seen[2], seen[3], prehash>>
                               ELSE clsag_match_history
  IN
  /\ Sync
  /\ RingStep(ins, 2, p2)
  /\ Len(msgs) <= MaxRingMsgs
  /\ ins = "MLSAG" /\ p2 = 1 => prehash
  /\ clsag_match_history' = now
  /\ IF more
     THEN keccakH' = msgs /\ UNCHANGED c
     ELSE /\ HistoryMatches(ins, now)
          /\ keccakH' = Append(msgs, Final) /\ c' = <<Challenge(ins, msgs)>>
  /\ Goto(ins, 2, IF more THEN 0 ELSE p2)
  /\ UNCHANGED <<rows, tx_in_progress, tx_sig_mode, tx_stages, txInfo,
                 outChains, sums, prefixH, mlsagH, tx_sign_cnt, alphas,
                 signatures, shown>>

\* The hmac of a nonce handle covers tx_sign_cnt: only the current one is taken.
HasNonce == tx_sign_cnt \in alphas

\* A real signature needs a nonce handle.  A fake one is made of the host's own
\* scalars.
Sign(ins) ==
  /\ Sync
  /\ RingStep(ins, 3, 0)
  /\ monero_tx_stages_check({"USER_APPROVED", "PREHASH_FINALIZED"})
  /\ \/ tx_sig_mode = "FAKE" /\ UNCHANGED signatures
     \/ /\ Real /\ HasNonce
        /\ signatures' = Append(signatures, [alpha |-> tx_sign_cnt, c |-> c])
  /\ Goto(ins, 3, 0)
  /\ UNCHANGED <<rows, tx_in_progress, tx_sig_mode, tx_stages, txInfo,
                 outChains, sums, hashes, tx_sign_cnt, alphas, c,
                 clsag_match_history, shown>>

-----------------------------------------------------------------------------
(* The specification.  The host sends any command with any input. *)

BuildCommand ==
  \/ \E mode \in HostModes : SetSignatureMode(mode)
  \/ OpenTx
  \/ CloseTx
  \/ \E pid \in PaymentId : Stealth(pid)
  \/ \E to \in Dest, chg \in BOOLEAN : GenTxoutKeys(to, chg)
  \/ \E lock \in Locks : PrefixHashInit(lock)
  \/ \E chunk \in Chunks, more \in More, p2 \in 1..MaxChunks :
       PrefixHashUpdate(chunk, more, p2)
  \/ GenCommitmentMask
  \/ Blind

ValidateCommand ==
  \/ \E amt \in Amount, more \in More : PrehashInitFee(amt, more)
  \/ \E more \in More, p2 \in Step : PrehashInit(more, p2)
  \/ \E o \in Output, amt \in Amount, p2 \in Step :
       \/ \E more \in More : \/ PrehashUpdate(o, amt, more, p2)
                             \/ PrehashUpdateOverflow(o, amt, more, p2)
       \/ PrehashUpdateFake(o, amt, p2)
  \/ \E k \in Commitment, p2 \in Step : PrehashAccumulate(k, p2)
  \/ \E message \in {prefixH, <<[kind |-> "other"]>>}, p2 \in Step :
       PrehashFinalize(message, p2)

RingCommand ==
  \E ins \in {"MLSAG", "CLSAG"} :
    \/ Prepare(ins)
    \/ \E prehash \in BOOLEAN, more \in More, p2 \in Step :
         Hash(ins, prehash, more, p2)
    \/ Sign(ins)

User == Accept \/ Reject \/ AnswerOther

Next ==
  \/ BuildCommand \/ ValidateCommand \/ RingCommand
  \/ ReadOnlyCommand \/ \E what \in {"viewKey", "address"} : AskOther(what)
  \/ User
  \/ Reinit \/ Kill \/ Boot

Spec == Init /\ [][Next]_vars

-----------------------------------------------------------------------------
(* Properties. *)

\* Every variable has its type; the contents of a digest are left open.
TypeOK ==
  /\ power \in {"on", "off"}
  /\ protocol \in {Unset} \cup Versions
  /\ io_reply_pending \in BOOLEAN /\ tx_in_progress \in BOOLEAN
  /\ tx_prehash_more \in BOOLEAN /\ prefix_outkeys_done \in BOOLEAN
  /\ tx_sig_mode \in Modes
  /\ tx_state \in [ins : Ins, p1 : 0..3, p2 : Nat]
  /\ tx_stages \subseteq Stages
  /\ tx_output_cnt \in 0..MaxOutputs
  /\ tx_payment_id \in {<<>>} \cup {<<pid>> : pid \in PaymentId}
  /\ tx_sign_cnt \in 0..MaxSign /\ alphas \subseteq 1..tx_sign_cnt

\* monero_types.h:110-112: while a question is on screen the command that put it
\* there owes its reply, which is what keeps the host out; and no reply is owed
\* for long without a question.
ReviewOwesReply == io_reply_pending <=> review # <<>>

\* Signing unlocks only in a real transaction that went through every stage.
SealIsWhole ==
  "PREHASH_FINALIZED" \in tx_stages =>
    tx_stages = Stages /\ Real /\ tx_in_progress

\* monero_types.h:144-148: a raised bit always means that real work happened.
\* Only a real transaction in progress has bits; approval comes after the output
\* set was closed; the hash to sign comes after everything else.
StagesEarned ==
  /\ tx_stages # {} => Real /\ tx_in_progress
  /\ "USER_APPROVED" \in tx_stages => "OUTPUTS_REVIEWED" \in tx_stages
  /\ SealIsWhole

\* The outputs the review was about: those counted when the set was closed.
ReviewedOuts == SubSeq(shown.out, 1, Len(OUTK))
ReviewedCommitments ==
  [i \in DOMAIN ReviewedOuts |-> Commit(ReviewedOuts[i].out, ReviewedOuts[i].amt)]

\* What the user approved is the list of outputs the device derived, one by one
\* and in order, C is the digest of the commitments to the amounts shown, and an
\* output is shown with its address (on touch devices a row of its own) or sends
\* nothing out of the wallet.
ApprovedOutputs ==
  tx_in_progress /\ "USER_APPROVED" \in tx_stages =>
    /\ [i \in DOMAIN ReviewedOuts |-> ReviewedOuts[i].out] = OUTK
    /\ C = ReviewedCommitments
    /\ \A i \in DOMAIN ReviewedOuts : LET o == ReviewedOuts[i].out IN
         IF o.chg THEN ReviewedOuts[i].amt # 0 => o.to \in Own
                  ELSE Touch => \E j \in DOMAIN shown.address : shown.address[j] = Address(o)

Ends(prefix) == {i \in DOMAIN prefix : prefix[i].kind = "chunk" /\ prefix[i].end}
EndOf(prefix) == CHOOSE i \in Ends(prefix) : \A j \in Ends(prefix) : i <= j
Outs(piece)   == IF piece.kind = "chunk" THEN piece.outs ELSE <<>>
\* The first n pieces of a prefix have these output keys and no other: the keys can
\* be cut so that every piece has the part between two cuts.
Carries(prefix, n, keys) ==
  \E cut \in [0..n -> 0..Len(keys)] :
    /\ cut[0] = 0 /\ cut[n] = Len(keys)
    /\ \A i \in 1..n : /\ Len(Outs(prefix[i])) = cut[i] - cut[i - 1]
                       /\ \A j \in 1..Len(Outs(prefix[i])) :
                            Outs(prefix[i])[j] = keys[cut[i - 1] + j]

\* The prefix under the hash to be signed has the reviewed outputs and no other,
\* locks the transaction exactly if the user was told, and carries a payment ID
\* exactly when the device made one: the one shown with every destination, and
\* masked for that destination.
SignedPrefixIsReviewed ==
  "PREHASH_FINALIZED" \in tx_stages =>
    LET prefix == mlsagH[1].message
        nonce  == prefix[EndOf(prefix)].nonce
    IN /\ Ends(prefix) # {}
       /\ Carries(prefix, EndOf(prefix),
                  [i \in DOMAIN ReviewedOuts |-> Key(ReviewedOuts[i].out)])
       /\ prefix[1].lock <=> shown.timelock # <<>>
       /\ \A i \in DOMAIN ReviewedOuts : ~ReviewedOuts[i].out.chg =>
            /\ ReviewedOuts[i].pid <=> nonce # <<>> /\ ~nonce[1].dummy
            /\ nonce # <<>> => nonce[1].to = ReviewedOuts[i].out.to

\* The rest of that hash is the one fee the user saw, the pseudo-outs, the encrypted
\* amounts, those of the reviewed outputs first, and output commitments that are the
\* last of those reviewed, each one left out being made up for by an encrypted
\* amount nobody approved.
SignedBodyIsReviewed ==
  "PREHASH_FINALIZED" \in tx_stages =>
    LET body == mlsagH[1].body
        n    == Len(OUTK)
        p    == Len(body) - 1 - 2 * n
    IN /\ p >= 0 /\ shown.fee = <<body[1]>>
       /\ \A i \in 1..p : body[1 + i] = PseudoOut
       /\ \E extra \in 0..n :
            /\ \A i \in 1..n + extra : body[1 + p + i].kind = "ecdhInfo"
            /\ \A i \in 1..n : body[1 + p + i].of = ReviewedCommitments[i]
            /\ \A i \in 1..n - extra :
                 body[1 + p + n + extra + i] = OutPk(ReviewedCommitments[extra + i])

\* Nothing about a transaction changes while a question stays on screen.
FrozenUnderReview ==
  [][review # <<>> /\ review' = review => UNCHANGED <<txState, shown>>]_vars

\* A real signature is released in the transaction the user approved, under the
\* hash sealed for it, and its challenge was computed for its own nonce and
\* absorbed that hash.
RealSignatureEarned ==
  [][Len(signatures') > Len(signatures) =>
       /\ Real /\ tx_in_progress /\ tx_stages = Stages
       /\ c # <<>> /\ c[1].ring = tx_sign_cnt /\ c[1].ins = tx_state.ins
       /\ \E i \in DOMAIN c[1].over :
            c[1].over[i] = [kind |-> "prehash", of |-> mlsagH]]_vars

\* No nonce serves two real signatures.
NonceUsedOnce ==
  \A i, j \in DOMAIN signatures :
    signatures[i].alpha = signatures[j].alpha => i = j

\* How far the transaction is, and what the user accepted of it.
StageReached ==
  IF ~tx_in_progress THEN "idle"
  ELSE IF "PREHASH_FINALIZED" \in tx_stages THEN "sealed"
  ELSE IF "USER_APPROVED" \in tx_stages THEN "approved" ELSE "open"
ToldOfIt == IF tx_in_progress THEN shown ELSE NoItems

Signer == INSTANCE SignerPromise WITH
  Nothing <- NoItems,
  stage <- StageReached, told <- ToldOfIt, signed <- signatures

\* The stages, the review and the ring signatures together keep what a signing
\* device promises: sealed only when approved, what was approved stands still from
\* then on, and signatures are for what is sealed, each with a nonce of its own.
KeepsPromise == Signer!Spec
=============================================================================
