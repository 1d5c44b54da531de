--------------------------- MODULE MoneroTx_proofs ---------------------------
(***************************************************************************)
(* Theorems about MoneroTx, for every value of its constants.  In the      *)
(* first half: types, the stages that unlock signing, the single use of    *)
(* each nonce, what a real signature rests on, on button devices the reply *)
(* that is owed while, and only while, a question is on screen, and that   *)
(* all of this together implements SignerPromise.  In the second: what a   *)
(* signature covers is what the user approved.                             *)
(***************************************************************************)
EXTENDS MoneroTx, TLAPS, WellFoundedInduction

-----------------------------------------------------------------------------
(* What the commands of one instruction have in common. *)

\* A sequence is one over any larger set.
LEMMA SeqMonotone ==
  ASSUME NEW S, NEW x, NEW s \in Seq(S)
  PROVE  s \in Seq(S \cup {x})
<1>1. s \in [1..Len(s) -> S \cup {x}] /\ Len(s) \in Nat
  OBVIOUS
<1> QED BY <1>1

\* A question or a queued row leaves the loop where it was, but for the reply.
LEMMA AskFramed ==
  ASSUME NEW item, NEW last \in BOOLEAN, NEW newRows, Ask(item, last, newRows)
  PROVE  /\ Listening /\ UNCHANGED power
         /\ io_reply_pending' \in {TRUE, io_reply_pending}
BY ConstantsOK DEF ConstantsOK, Ask

\* What every command of INS_VALIDATE leaves alone, or only clears.
ValidateFrame ==
  /\ Listening /\ UNCHANGED power
  /\ io_reply_pending' \in {TRUE, io_reply_pending}
  /\ \E p1 \in 1..3, p2 \in Nat \ {0} : ValidateStep(p1, p2)
  /\ UNCHANGED <<tx_sig_mode, OUT_EPH, tx_sign_cnt, clsag_match_history,
                 signatures>>
  /\ alphas' \subseteq alphas
  /\ tx_output_cnt' \in {0, tx_output_cnt} /\ tx_payment_id' \in {<<>>, tx_payment_id}
  /\ tx_in_progress' \in {FALSE, tx_in_progress}
  /\ tx_prehash_more' \in BOOLEAN \cup {tx_prehash_more}
  /\ prefix_outkeys_done' \in {FALSE, prefix_outkeys_done}

\* Every command of INS_VALIDATE is framed so.
LEMMA ValidateFramed == ASSUME ValidateCommand PROVE ValidateFrame
<1> USE ConstantsOK DEF ConstantsOK, ValidateFrame, Sync, ring, outChains,
        txInfo, Step, More
<1>1. ASSUME NEW amt \in Amount, NEW more \in More, PrehashInitFee(amt, more)
      PROVE  ValidateFrame
  <2>1. \E newRows : Ask(Fee(amt), FALSE, newRows)
    BY <1>1 DEF PrehashInitFee
  <2>2. /\ Listening /\ UNCHANGED power
        /\ io_reply_pending' \in {TRUE, io_reply_pending}
    BY <2>1, AskFramed
  <2>3. \E q1 \in 1..3, q2 \in Nat \ {0} : ValidateStep(q1, q2)
    BY <1>1 DEF PrehashInitFee
  <2>4. /\ UNCHANGED <<tx_sig_mode, OUT_EPH, alphas, tx_sign_cnt,
                       clsag_match_history, signatures, tx_output_cnt,
                       tx_payment_id, tx_in_progress, prefix_outkeys_done>>
        /\ tx_prehash_more' \in BOOLEAN \cup {tx_prehash_more}
    BY <1>1 DEF PrehashInitFee
  <2> QED BY <2>2, <2>3, <2>4
<1>2. ASSUME NEW more \in More, NEW p2 \in Step, PrehashInit(more, p2)
      PROVE  ValidateFrame
  BY <1>2 DEF PrehashInit
<1>3. ASSUME NEW o \in Output, NEW amt \in Amount, NEW more \in More,
             NEW p2 \in Step, PrehashUpdate(o, amt, more, p2)
      PROVE  ValidateFrame
  <2>1. \E newRows : Ask(OutputItem(o, amt), ~more, newRows)
    BY <1>3 DEF PrehashUpdate
  <2>2. /\ Listening /\ UNCHANGED power
        /\ io_reply_pending' \in {TRUE, io_reply_pending}
    BY <2>1, AskFramed
  <2>3. \E q1 \in 1..3, q2 \in Nat \ {0} : ValidateStep(q1, q2)
    BY <1>3 DEF PrehashUpdate
  <2>4. /\ UNCHANGED <<tx_sig_mode, OUT_EPH, alphas, tx_sign_cnt,
                       clsag_match_history, signatures, tx_output_cnt,
                       tx_payment_id, tx_in_progress, prefix_outkeys_done>>
        /\ tx_prehash_more' \in BOOLEAN \cup {tx_prehash_more}
    BY <1>3 DEF PrehashUpdate
  <2> QED BY <2>2, <2>3, <2>4
<1>4. ASSUME NEW o \in Output, NEW amt \in Amount, NEW more \in More,
             NEW p2 \in Step, PrehashUpdateOverflow(o, amt, more, p2)
      PROVE  ValidateFrame
  <2>1. Listening /\ UNCHANGED <<power, io_reply_pending>>
    BY <1>4 DEF PrehashUpdateOverflow
  <2>2. \E q1 \in 1..3, q2 \in Nat \ {0} : ValidateStep(q1, q2)
    BY <1>4 DEF PrehashUpdateOverflow
  <2>3. monero_reset_tx
    BY <1>4 DEF PrehashUpdateOverflow
  <2>4. UNCHANGED <<tx_sig_mode, OUT_EPH, tx_sign_cnt, clsag_match_history,
                    signatures>>
    BY <2>3 DEF monero_reset_tx, KeptByReset
  <2>5. /\ alphas' = {} /\ tx_output_cnt' = 0 /\ tx_payment_id' = <<>>
        /\ tx_in_progress' = FALSE /\ tx_prehash_more' = FALSE
        /\ prefix_outkeys_done' = FALSE
    BY <2>3 DEF monero_reset_tx, ClearTx
  <2> QED BY <2>1, <2>2, <2>4, <2>5
<1>5. ASSUME NEW o \in Output, NEW amt \in Amount, NEW p2 \in Step,
             PrehashUpdateFake(o, amt, p2)
      PROVE  ValidateFrame
  BY <1>5 DEF PrehashUpdateFake
<1>6. ASSUME NEW k \in Commitment, NEW p2 \in Step, PrehashAccumulate(k, p2)
      PROVE  ValidateFrame
  BY <1>6 DEF PrehashAccumulate
<1>7. ASSUME NEW message \in {prefixH, <<[kind |-> "other"]>>}, NEW p2 \in Step,
             PrehashFinalize(message, p2)
      PROVE  ValidateFrame
  BY <1>7 DEF PrehashFinalize
<1> QED BY <1>1, <1>2, <1>3, <1>4, <1>5, <1>6, <1>7 DEF ValidateCommand

\* What every command of INS_MLSAG and INS_CLSAG leaves alone, and how the count
\* of ring signatures moves.
RingFrame ==
  /\ Sync
  /\ UNCHANGED <<rows, tx_in_progress, tx_sig_mode, tx_stages, txInfo,
                 outChains, sums, prefixH, mlsagH, shown>>
  /\ \E ins \in {"MLSAG", "CLSAG"}, p1 \in 1..3, p2 \in Nat : Goto(ins, p1, p2)
  /\ \/ UNCHANGED <<tx_sign_cnt, alphas>>
     \/ UseSignCount /\ alphas' = alphas \cup {tx_sign_cnt'}

\* Every command of INS_MLSAG and INS_CLSAG is framed so.
LEMMA RingFramed == ASSUME RingCommand PROVE RingFrame
<1> SUFFICES ASSUME NEW ins \in {"MLSAG", "CLSAG"},
                    \/ Prepare(ins)
                    \/ \E prehash \in BOOLEAN, more \in More, p2 \in Step :
                         Hash(ins, prehash, more, p2)
                    \/ Sign(ins)
             PROVE  RingFrame
  BY DEF RingCommand
<1> USE DEF RingFrame, hashes
<1>1. CASE Prepare(ins)
  BY <1>1 DEF Prepare
<1>2. ASSUME NEW prehash \in BOOLEAN, NEW more \in More, NEW p2 \in Step,
             Hash(ins, prehash, more, p2)
      PROVE  RingFrame
  <2>1. (IF more THEN 0 ELSE p2) \in Nat
    BY ConstantsOK DEF ConstantsOK, Step, More
  <2> QED BY <1>2, <2>1 DEF Hash
<1>3. CASE Sign(ins)
  BY <1>3 DEF Sign
<1> QED BY <1>1, <1>2, <1>3

\* For the transaction a step is a command that builds, validates or signs, an
\* answer about the transaction, a wipe, or nothing.
LEMMA StepKinds ==
  ASSUME [Next]_vars
  PROVE  \/ BuildCommand \/ ValidateCommand \/ RingCommand
         \/ Accept \/ Reject \/ Bzero \/ UNCHANGED txState
<1>1. CASE ReadOnlyCommand \/ (\E what \in {"viewKey", "address"} : AskOther(what))
  BY <1>1 DEF ReadOnlyCommand, AskOther
<1>2. CASE User
  BY <1>2 DEF User, AnswerOther
<1>3. CASE Reinit \/ Kill \/ Boot
  BY <1>3 DEF Reinit, Kill, Boot
<1>4. CASE UNCHANGED vars
  BY <1>4 DEF vars
<1> QED BY <1>1, <1>2, <1>3, <1>4 DEF Next

-----------------------------------------------------------------------------
(* Type correctness: TypeOK in parts, each preserved by every step. *)

FlagsOK ==
  /\ io_reply_pending \in BOOLEAN /\ tx_in_progress \in BOOLEAN
  /\ tx_prehash_more \in BOOLEAN /\ prefix_outkeys_done \in BOOLEAN
SessionOK ==
  /\ power \in {"on", "off"}
  /\ protocol \in {Unset} \cup Versions
ModeOK    == tx_sig_mode \in Modes
StateOK   == tx_state \in [ins : Ins, p1 : 0..3, p2 : Nat]
StagesOK  == tx_stages \subseteq Stages
OutputsOK ==
  /\ tx_output_cnt \in 0..MaxOutputs
  /\ tx_payment_id \in {<<>>} \cup {<<pid>> : pid \in PaymentId}
CountOK   == tx_sign_cnt \in 0..MaxSign /\ alphas \subseteq 1..tx_sign_cnt

\* TypeOK is the conjunction of its parts.
LEMMA TypeParts ==
  TypeOK <=> /\ FlagsOK /\ SessionOK /\ ModeOK /\ StateOK
             /\ StagesOK /\ OutputsOK /\ CountOK
BY DEF TypeOK, FlagsOK, SessionOK, ModeOK, StateOK, StagesOK, OutputsOK, CountOK

\* The flags are assigned truth values only.
LEMMA FlagsStep == ASSUME FlagsOK, [Next]_vars PROVE FlagsOK'
<1> USE DEF FlagsOK, Sync, Listening, Ask, txInfo, outChains
<1>1. CASE BuildCommand
  BY <1>1 DEF BuildCommand, SetSignatureMode, OpenTx, CloseTx, Stealth,
     GenTxoutKeys, PrefixHashInit, PrefixHashUpdate, GenCommitmentMask, Blind,
     Announce, ParsePrefix, Chunks, monero_reset_tx, ClearTx
<1>2. CASE ValidateCommand
  BY <1>2, ValidateFramed DEF ValidateFrame
<1>3. CASE RingCommand
  BY <1>3, RingFramed DEF RingFrame
<1>4. CASE ReadOnlyCommand \/ (\E what \in {"viewKey", "address"} : AskOther(what))
  BY <1>4 DEF ReadOnlyCommand, AskOther, txState
<1>5. CASE User
  BY <1>5 DEF User, Accept, Reject, AnswerOther, Answered, monero_reset_tx,
     ClearTx, txState
<1>6. CASE Reinit \/ Kill \/ Boot
  BY <1>6 DEF Reinit, Kill, Boot, Bzero, ClearTx, txState
<1>7. CASE UNCHANGED vars
  BY <1>7 DEF vars, session, txState
<1> QED BY <1>1, <1>2, <1>3, <1>4, <1>5, <1>6, <1>7 DEF Next

\* The app runs or not, and speaks a version it knows.
LEMMA SessionStep == ASSUME SessionOK, [Next]_vars PROVE SessionOK'
<1> USE DEF SessionOK, Sync, Listening, check_protocol, Ask
<1>1. CASE BuildCommand
  BY <1>1 DEF BuildCommand, SetSignatureMode, OpenTx, CloseTx, Stealth,
     GenTxoutKeys, PrefixHashInit, PrefixHashUpdate, GenCommitmentMask, Blind,
     Announce
<1>2. CASE ValidateCommand
  BY <1>2, ValidateFramed DEF ValidateFrame
<1>3. CASE RingCommand
  BY <1>3, RingFramed DEF RingFrame
<1>4. CASE ReadOnlyCommand \/ (\E what \in {"viewKey", "address"} : AskOther(what))
  BY <1>4 DEF ReadOnlyCommand, AskOther
<1>5. CASE User
  BY <1>5 DEF User, Accept, Reject, AnswerOther, Answered
<1>6. CASE Reinit \/ Kill \/ Boot
  BY <1>6 DEF Reinit, Kill, Boot, Bzero
<1>7. CASE UNCHANGED vars
  BY <1>7 DEF vars, session
<1> QED BY <1>1, <1>2, <1>3, <1>4, <1>5, <1>6, <1>7 DEF Next

\* Only SetSignatureMode and a wipe set the mode.
LEMMA ModeStep == ASSUME ModeOK, [Next]_vars PROVE ModeOK'
<1> USE ConstantsOK DEF ConstantsOK, ModeOK, Modes
<1>1. CASE BuildCommand
  BY <1>1 DEF BuildCommand, SetSignatureMode, OpenTx, CloseTx, Stealth,
     GenTxoutKeys, PrefixHashInit, PrefixHashUpdate, GenCommitmentMask, Blind,
     monero_reset_tx, KeptByReset
<1>2. CASE ValidateCommand
  BY <1>2, ValidateFramed DEF ValidateFrame
<1>3. CASE RingCommand
  BY <1>3, RingFramed DEF RingFrame
<1>4. CASE Accept \/ Reject
  BY <1>4 DEF Accept, Reject, monero_reset_tx, KeptByReset
<1>5. CASE Bzero
  BY <1>5 DEF Bzero
<1>6. CASE UNCHANGED txState
  BY <1>6 DEF txState
<1> QED BY <1>1, <1>2, <1>3, <1>4, <1>5, <1>6, StepKinds

\* The dispatcher records the instruction, P1 and P2 of what it ran.
LEMMA StateStep == ASSUME StateOK, [Next]_vars PROVE StateOK'
<1> USE ConstantsOK DEF ConstantsOK, StateOK, Ins, Goto, At
<1>1. CASE BuildCommand
  <2>1. CASE \E mode \in HostModes : SetSignatureMode(mode)
    BY <2>1 DEF SetSignatureMode
  <2>2. CASE OpenTx \/ CloseTx
    BY <2>2 DEF OpenTx, CloseTx
  <2>3. CASE \E pid \in PaymentId : Stealth(pid)
    BY <2>3 DEF Stealth
  <2>4. CASE \E to \in Dest, chg \in BOOLEAN : GenTxoutKeys(to, chg)
    BY <2>4 DEF GenTxoutKeys
  <2>5. CASE \E lock \in Locks : PrefixHashInit(lock)
    BY <2>5 DEF PrefixHashInit
  <2>6. ASSUME NEW chunk \in Chunks, NEW more \in More, NEW p2 \in 1..MaxChunks,
               PrefixHashUpdate(chunk, more, p2)
        PROVE  StateOK'
    BY <2>6 DEF PrefixHashUpdate
  <2>7. CASE GenCommitmentMask \/ Blind
    BY <2>7 DEF GenCommitmentMask, Blind
  <2> QED BY <1>1, <2>1, <2>2, <2>3, <2>4, <2>5, <2>6, <2>7 DEF BuildCommand
<1>2. CASE ValidateCommand
  BY <1>2, ValidateFramed DEF ValidateFrame, ValidateStep
<1>3. CASE RingCommand
  BY <1>3, RingFramed DEF RingFrame
<1>4. CASE Accept \/ Reject
  BY <1>4 DEF Accept, Reject
<1>5. CASE Bzero
  BY <1>5 DEF Bzero
<1>6. CASE UNCHANGED txState
  BY <1>6 DEF txState
<1> QED BY <1>1, <1>2, <1>3, <1>4, <1>5, <1>6, StepKinds

\* Outputs are counted up to the bound; a payment ID is kept once.
LEMMA OutputsStep == ASSUME OutputsOK, [Next]_vars PROVE OutputsOK'
<1> USE ConstantsOK DEF ConstantsOK, OutputsOK, txInfo
<1>1. CASE BuildCommand
  <2>1. CASE \E mode \in HostModes : SetSignatureMode(mode)
    BY <2>1 DEF SetSignatureMode
  <2>2. CASE OpenTx \/ CloseTx
    BY <2>2 DEF OpenTx, CloseTx, monero_reset_tx, ClearTx
  <2>3. ASSUME NEW pid \in PaymentId, Stealth(pid)
        PROVE  OutputsOK'
    BY <2>3 DEF Stealth
  <2>4. ASSUME NEW to \in Dest, NEW chg \in BOOLEAN, GenTxoutKeys(to, chg)
        PROVE  OutputsOK'
    BY <2>4 DEF GenTxoutKeys
  <2>5. CASE \E lock \in Locks : PrefixHashInit(lock)
    BY <2>5 DEF PrefixHashInit
  <2>6. ASSUME NEW chunk \in Chunks, NEW more \in More, NEW p2 \in 1..MaxChunks,
               PrefixHashUpdate(chunk, more, p2)
        PROVE  OutputsOK'
    BY <2>6 DEF PrefixHashUpdate
  <2>7. CASE GenCommitmentMask \/ Blind
    BY <2>7 DEF GenCommitmentMask, Blind
  <2> QED BY <1>1, <2>1, <2>2, <2>3, <2>4, <2>5, <2>6, <2>7 DEF BuildCommand
<1>2. CASE ValidateCommand
  BY <1>2, ValidateFramed DEF ValidateFrame
<1>3. CASE RingCommand
  BY <1>3, RingFramed DEF RingFrame
<1>4. CASE Accept \/ Reject
  BY <1>4 DEF Accept, Reject, monero_reset_tx, ClearTx
<1>5. CASE Bzero
  BY <1>5 DEF Bzero, ClearTx
<1>6. CASE UNCHANGED txState
  BY <1>6 DEF txState
<1> QED BY <1>1, <1>2, <1>3, <1>4, <1>5, <1>6, StepKinds

\* Nonces are numbered by the count of ring signatures begun.
LEMMA CountStep == ASSUME CountOK, [Next]_vars PROVE CountOK'
<1> USE ConstantsOK DEF ConstantsOK, CountOK, ring
<1>1. CASE BuildCommand
  BY <1>1 DEF BuildCommand, SetSignatureMode, OpenTx, CloseTx, Stealth,
     GenTxoutKeys, PrefixHashInit, PrefixHashUpdate, GenCommitmentMask, Blind,
     monero_reset_tx, ClearTx, KeptByReset
<1>2. CASE ValidateCommand
  BY <1>2, ValidateFramed DEF ValidateFrame
<1>3. CASE RingCommand
  <2>1. CASE UNCHANGED <<tx_sign_cnt, alphas>>
    BY <2>1
  <2>2. CASE UseSignCount /\ alphas' = alphas \cup {tx_sign_cnt'}
    <3>1. tx_sign_cnt' = tx_sign_cnt + 1 /\ tx_sign_cnt' \in 0..MaxSign
      BY <2>2 DEF UseSignCount
    <3>2. alphas' \subseteq 1..tx_sign_cnt'
      <4> SUFFICES ASSUME NEW a \in alphas' PROVE a \in 1..tx_sign_cnt'
        OBVIOUS
      <4>1. a \in alphas \/ a = tx_sign_cnt'
        BY <2>2
      <4>2. CASE a \in alphas
        <5>1. a \in 1..tx_sign_cnt
          BY <4>2
        <5>2. tx_sign_cnt \in Int
          OBVIOUS
        <5> HIDE DEF CountOK
        <5> QED BY <5>1, <5>2, <3>1
      <4>3. CASE a = tx_sign_cnt'
        <5>1. tx_sign_cnt \in Int /\ tx_sign_cnt >= 0
          OBVIOUS
        <5> QED BY <5>1, <4>3, <3>1
      <4> QED BY <4>1, <4>2, <4>3
    <3> QED BY <3>1, <3>2
  <2> QED BY <1>3, <2>1, <2>2, RingFramed DEF RingFrame
<1>4. CASE Accept \/ Reject
  BY <1>4 DEF Accept, Reject, monero_reset_tx, ClearTx, KeptByReset
<1>5. CASE Bzero
  BY <1>5 DEF Bzero, ClearTx
<1>6. CASE UNCHANGED txState
  BY <1>6 DEF txState
<1> QED BY <1>1, <1>2, <1>3, <1>4, <1>5, <1>6, StepKinds

\* What a command of INS_VALIDATE does to the stages.
StagesRaised ==
  \/ UNCHANGED <<tx_stages, tx_in_progress>>
  \/ tx_stages' = {} /\ ~tx_in_progress'
  \/ /\ tx_stages' = tx_stages \cup {"OUTPUTS_REVIEWED"}
     /\ Real /\ tx_in_progress /\ tx_in_progress'
     /\ \E p2 \in Step : ValidateStep(2, p2)
  \/ /\ tx_stages' = tx_stages \cup {"PREHASH_FINALIZED"}
     /\ {"USER_APPROVED", "PREFIX_FINALIZED", "OUTPUTS_REVIEWED"}
          \subseteq tx_stages
     /\ Real /\ tx_in_progress /\ tx_in_progress'
     /\ tx_state'.p1 = 3

\* INS_VALIDATE raises a stage in a real transaction in progress only: that the
\* outputs were reviewed short of P1=3, and that the hash is final at P1=3, once
\* the three other stages were reached.
LEMMA ValidateStages == ASSUME ValidateCommand PROVE StagesRaised
<1>1. CASE \E amt \in Amount, more \in More : PrehashInitFee(amt, more)
  BY <1>1 DEF PrehashInitFee, StagesRaised
<1>2. CASE \E more \in More, p2 \in Step : PrehashInit(more, p2)
  BY <1>2 DEF PrehashInit, StagesRaised
<1>3. ASSUME NEW o \in Output, NEW amt \in Amount, NEW more \in More,
             NEW p2 \in Step, PrehashUpdate(o, amt, more, p2)
      PROVE  StagesRaised
  <2>1. ValidateStep(2, p2) /\ Real /\ UNCHANGED tx_in_progress
    BY <1>3 DEF PrehashUpdate
  <2>2. tx_in_progress
    BY <2>1 DEF ValidateStep
  <2>3. UNCHANGED tx_stages \/ tx_stages' = tx_stages \cup {"OUTPUTS_REVIEWED"}
    BY <1>3 DEF PrehashUpdate
  <2> QED BY <2>1, <2>2, <2>3 DEF StagesRaised
<1>4. CASE \E o \in Output, amt \in Amount, more \in More, p2 \in Step :
             PrehashUpdateOverflow(o, amt, more, p2)
  <2>1. monero_reset_tx
    BY <1>4 DEF PrehashUpdateOverflow
  <2> QED BY <2>1 DEF monero_reset_tx, ClearTx, StagesRaised
<1>5. CASE \E o \in Output, amt \in Amount, p2 \in Step :
             PrehashUpdateFake(o, amt, p2)
  BY <1>5 DEF PrehashUpdateFake, StagesRaised
<1>6. CASE \E k \in Commitment, p2 \in Step : PrehashAccumulate(k, p2)
  BY <1>6 DEF PrehashAccumulate, StagesRaised
<1>7. ASSUME NEW message, NEW p2 \in Step, PrehashFinalize(message, p2)
      PROVE  StagesRaised
  <2>1. ValidateStep(3, p2) /\ Finalizable(message) /\ UNCHANGED tx_in_progress
    BY <1>7 DEF PrehashFinalize
  <2>2. tx_in_progress /\ tx_state'.p1 = 3
    BY <2>1 DEF ValidateStep, Goto, At
  <2>3. CASE Real
    <3>1. tx_stages' = tx_stages \cup {"PREHASH_FINALIZED"}
      BY <1>7, <2>3 DEF PrehashFinalize
    <3>2. {"USER_APPROVED", "PREFIX_FINALIZED", "OUTPUTS_REVIEWED"} \subseteq tx_stages
      BY <2>1, <2>3 DEF Finalizable, monero_tx_stages_check
    <3> QED BY <3>1, <3>2, <2>1, <2>2, <2>3 DEF StagesRaised
  <2>4. CASE ~Real
    BY <1>7, <2>4 DEF PrehashFinalize, StagesRaised
  <2> QED BY <2>3, <2>4
<1> QED BY <1>1, <1>2, <1>3, <1>4, <1>5, <1>6, <1>7 DEF ValidateCommand

\* Stages are raised one by one, out of Stages.
LEMMA StagesStep == ASSUME StagesOK, [Next]_vars PROVE StagesOK'
<1> USE DEF StagesOK, Stages
<1>1. CASE BuildCommand
  <2>1. \/ UNCHANGED tx_stages \/ tx_stages' = {}
        \/ tx_stages' = tx_stages \ {"PREFIX_FINALIZED"}
        \/ tx_stages' = tx_stages \cup {"PREFIX_FINALIZED"}
    BY <1>1 DEF BuildCommand, SetSignatureMode, OpenTx, CloseTx, Stealth,
       GenTxoutKeys, PrefixHashInit, PrefixHashUpdate, GenCommitmentMask, Blind,
       monero_reset_tx, ClearTx
  <2> QED BY <2>1
<1>2. CASE ValidateCommand
  <2>1. \/ UNCHANGED tx_stages \/ tx_stages' = {}
        \/ tx_stages' = tx_stages \cup {"OUTPUTS_REVIEWED"}
        \/ tx_stages' = tx_stages \cup {"PREHASH_FINALIZED"}
    BY <1>2, ValidateStages DEF StagesRaised
  <2> QED BY <2>1
<1>3. CASE RingCommand
  BY <1>3, RingFramed DEF RingFrame
<1>4. CASE Accept \/ Reject
  BY <1>4 DEF Accept, Reject, monero_reset_tx, ClearTx
<1>5. CASE Bzero
  BY <1>5 DEF Bzero, ClearTx
<1>6. CASE UNCHANGED txState
  BY <1>6 DEF txState
<1> QED BY <1>1, <1>2, <1>3, <1>4, <1>5, <1>6, StepKinds

\* Every variable keeps its type: the command state, the stages, the counters
\* and the nonce handles of monero_v_state_t stay within their ranges.
THEOREM TypeCorrect == Spec => []TypeOK
<1>1. Init => TypeOK
  <2> SUFFICES ASSUME Init PROVE TypeOK
    OBVIOUS
  <2> USE ConstantsOK DEF ConstantsOK, Init
  <2>1. FlagsOK /\ SessionOK /\ ModeOK /\ StagesOK
    BY DEF FlagsOK, SessionOK, ModeOK, Modes, StagesOK, Stages
  <2>2. StateOK
    BY DEF StateOK, Ins, At
  <2>3. OutputsOK /\ CountOK
    BY DEF OutputsOK, CountOK
  <2> QED BY <2>1, <2>2, <2>3, TypeParts
<1>2. TypeOK /\ [Next]_vars => TypeOK'
  <2> SUFFICES ASSUME TypeOK, [Next]_vars PROVE TypeOK'
    OBVIOUS
  <2>1. /\ FlagsOK /\ SessionOK /\ ModeOK /\ StateOK
        /\ StagesOK /\ OutputsOK /\ CountOK
    BY TypeParts
  <2>2. /\ FlagsOK' /\ SessionOK' /\ ModeOK' /\ StateOK'
        /\ StagesOK' /\ OutputsOK' /\ CountOK'
    BY <2>1, FlagsStep, SessionStep, ModeStep, StateStep, StagesStep,
       OutputsStep, CountStep
  <2> QED
    BY <2>2 DEF TypeOK, FlagsOK, SessionOK, ModeOK, StateOK, StagesOK,
       OutputsOK, CountOK
<1> QED BY <1>1, <1>2, PTL DEF Spec

-----------------------------------------------------------------------------
(* The seal: PREHASH_FINALIZED stands for all the stages. *)

\* Once the hash to sign is final, the dispatcher is past the stages that could
\* lower a stage or change the mode.
SealInv ==
  /\ StagesOK
  /\ SealIsWhole
  /\ "PREHASH_FINALIZED" \in tx_stages =>
       In("VALIDATE", 3) \/ After({"MLSAG", "CLSAG"})

\* The seal is lifted, or stays over the same stages, by the commands that build
\* a transaction.
LEMMA SealBuilt == ASSUME SealInv, StagesOK', BuildCommand PROVE SealInv'
<1> USE DEF SealInv, SealIsWhole, Real, In, After
<1>1. CASE \E mode \in HostModes : SetSignatureMode(mode)
  BY <1>1 DEF SetSignatureMode
<1>2. CASE OpenTx \/ CloseTx
  BY <1>2 DEF OpenTx, CloseTx, monero_reset_tx, ClearTx
<1>3. CASE \E pid \in PaymentId : Stealth(pid)
  BY <1>3 DEF Stealth
<1>4. CASE \E to \in Dest, chg \in BOOLEAN : GenTxoutKeys(to, chg)
  BY <1>4 DEF GenTxoutKeys
<1>5. CASE \E lock \in Locks : PrefixHashInit(lock)
  BY <1>5 DEF PrefixHashInit
<1>6. ASSUME NEW chunk \in Chunks, NEW more \in More, NEW p2 \in 1..MaxChunks,
             PrefixHashUpdate(chunk, more, p2)
      PROVE  SealInv'
  <2>1. tx_state.ins = "PREFIX_HASH"
    BY <1>6 DEF PrefixHashUpdate
  <2>2. "PREHASH_FINALIZED" \notin tx_stages
    BY <2>1
  <2>3. tx_stages' \subseteq tx_stages \cup {"PREFIX_FINALIZED"}
    BY <1>6 DEF PrefixHashUpdate
  <2> QED BY <2>2, <2>3
<1>7. CASE GenCommitmentMask \/ Blind
  BY <1>7 DEF GenCommitmentMask, Blind
<1> QED BY <1>1, <1>2, <1>3, <1>4, <1>5, <1>6, <1>7 DEF BuildCommand

\* INS_VALIDATE seals a transaction that has every other stage.
LEMMA SealValidated == ASSUME SealInv, StagesOK', ValidateCommand PROVE SealInv'
<1> USE DEF SealInv
<1>1. PICK p1 \in 1..3, p2 \in Nat \ {0} : ValidateStep(p1, p2)
  BY ValidateFramed DEF ValidateFrame
<1>2. tx_in_progress /\ tx_state' = At("VALIDATE", p1, p2) /\ UNCHANGED tx_sig_mode
  BY <1>1, ValidateFramed DEF ValidateFrame, ValidateStep, Goto
<1>3. "PREHASH_FINALIZED" \in tx_stages => In("VALIDATE", 3) /\ p1 = 3
  BY <1>1 DEF ValidateStep, In, After
<1>4. CASE UNCHANGED <<tx_stages, tx_in_progress>>
  BY <1>2, <1>3, <1>4 DEF SealIsWhole, Real, In, At
<1>5. CASE tx_stages' = {}
  BY <1>5 DEF SealIsWhole
<1>6. CASE /\ tx_stages' = tx_stages \cup {"OUTPUTS_REVIEWED"}
           /\ \E q2 \in Step : ValidateStep(2, q2)
  <2>1. p1 = 2
    BY <1>2, <1>6 DEF ValidateStep, Goto, At
  <2> QED BY <1>3, <1>6, <2>1 DEF SealIsWhole
<1>7. CASE /\ tx_stages' = tx_stages \cup {"PREHASH_FINALIZED"}
           /\ {"USER_APPROVED", "PREFIX_FINALIZED", "OUTPUTS_REVIEWED"}
                \subseteq tx_stages
           /\ Real /\ tx_in_progress'
           /\ tx_state'.p1 = 3
  BY <1>2, <1>7 DEF SealIsWhole, StagesOK, Stages, Real, In, At
<1> QED BY <1>4, <1>5, <1>6, <1>7, ValidateStages DEF StagesRaised

\* No step breaks the seal.
LEMMA SealStep == ASSUME SealInv, [Next]_vars PROVE SealInv'
<1>1. StagesOK'
  BY StagesStep DEF SealInv
<1> USE <1>1 DEF SealInv, SealIsWhole
<1>2. CASE BuildCommand
  BY <1>2, SealBuilt
<1>3. CASE ValidateCommand
  BY <1>3, SealValidated
<1>4. CASE RingCommand
  BY <1>4, RingFramed DEF RingFrame, Goto, At, After, Real
<1>5. CASE Accept
  BY <1>5 DEF Accept, StagesOK, Stages, Real, In, After
<1>6. CASE Reject \/ Bzero
  BY <1>6 DEF Reject, Bzero, monero_reset_tx, ClearTx
<1>7. CASE UNCHANGED txState
  BY <1>7 DEF txState, Real, In, After
<1> QED BY <1>2, <1>3, <1>4, <1>5, <1>6, <1>7, StepKinds

\* monero_types.h, the stages of a transaction: PREHASH_FINALIZED, which unlocks
\* signing, is up only in a real transaction in progress that finished its
\* prefix, reviewed its outputs and was approved.
THEOREM SealNeverPartial == Spec => []SealIsWhole
<1>1. Init => SealInv
  BY DEF Init, SealInv, SealIsWhole, StagesOK
<1>2. SealInv /\ [Next]_vars => SealInv'
  BY SealStep
<1>3. SealInv => SealIsWhole
  BY DEF SealInv
<1> QED BY <1>1, <1>2, <1>3, PTL DEF Spec

-----------------------------------------------------------------------------
(* Nonces. *)

\* A ring signature is under way whose nonce was not used yet.
Unsigned ==
  tx_in_progress /\ After({"MLSAG", "CLSAG"}) /\ tx_state.p1 \in {1, 2}

\* The signatures of earlier rings have smaller numbers, and while a ring is
\* under way no signature has its number.
NonceInv ==
  /\ CountOK
  /\ \E S : signatures \in Seq(S)
  /\ \A i \in DOMAIN signatures :
       /\ signatures[i].alpha \in Nat
       /\ signatures[i].alpha <= tx_sign_cnt
       /\ Unsigned => signatures[i].alpha < tx_sign_cnt
  /\ NonceUsedOnce

\* A command that builds a transaction ends a ring signature under way, or leaves
\* it as it is.
LEMMA BuildLeavesRing ==
  ASSUME BuildCommand
  PROVE  \/ UNCHANGED <<tx_in_progress, tx_state, hashes, ring>>
         \/ ~After({"MLSAG", "CLSAG"})'
<1> USE DEF Goto, At, After
<1>1. CASE \E mode \in HostModes : SetSignatureMode(mode)
  BY <1>1 DEF SetSignatureMode
<1>2. CASE OpenTx \/ CloseTx \/ GenCommitmentMask \/ Blind
  BY <1>2 DEF OpenTx, CloseTx, GenCommitmentMask, Blind
<1>3. CASE \E pid \in PaymentId : Stealth(pid)
  BY <1>3 DEF Stealth
<1>4. CASE \E to \in Dest, chg \in BOOLEAN : GenTxoutKeys(to, chg)
  BY <1>4 DEF GenTxoutKeys
<1>5. CASE \E lock \in Locks : PrefixHashInit(lock)
  BY <1>5 DEF PrefixHashInit
<1>6. CASE \E chunk \in Chunks, more \in More, p2 \in 1..MaxChunks :
             PrefixHashUpdate(chunk, more, p2)
  BY <1>6 DEF PrefixHashUpdate
<1> QED BY <1>1, <1>2, <1>3, <1>4, <1>5, <1>6 DEF BuildCommand

\* Only INS_MLSAG and INS_CLSAG touch what NonceInv is about, except that a wipe
\* forgets it.
LEMMA NonceFramed ==
  ASSUME [Next]_vars, ~RingCommand, ~Bzero
  PROVE  /\ UNCHANGED <<tx_sign_cnt, signatures>>
         /\ Unsigned' => Unsigned
<1>1. CASE BuildCommand
  <2>1. UNCHANGED <<tx_sign_cnt, signatures>>
    BY <1>1 DEF BuildCommand, SetSignatureMode, OpenTx, CloseTx, Stealth,
       GenTxoutKeys, PrefixHashInit, PrefixHashUpdate, GenCommitmentMask, Blind,
       monero_reset_tx, KeptByReset, ring
  <2>2. UNCHANGED <<tx_in_progress, tx_state, hashes, ring>> \/ ~After({"MLSAG", "CLSAG"})'
    BY <1>1, BuildLeavesRing
  <2> QED BY <2>1, <2>2 DEF Unsigned, After
<1>2. CASE ValidateCommand
  BY <1>2, ValidateFramed DEF ValidateFrame, ValidateStep, Goto, At, Unsigned, After
<1>3. CASE Accept \/ Reject
  BY <1>3 DEF Accept, Reject, monero_reset_tx, KeptByReset, ring, Unsigned, After
<1>4. CASE UNCHANGED txState
  BY <1>4 DEF txState, ring, Unsigned, After
<1> QED BY <1>1, <1>2, <1>3, <1>4, StepKinds

\* A new ring signature gets a new number, and signing ends the ring.
LEMMA NonceRing == ASSUME NonceInv, CountOK', RingCommand PROVE NonceInv'
<1> PICK ins \in {"MLSAG", "CLSAG"} :
           \/ Prepare(ins)
           \/ \E prehash \in BOOLEAN, more \in More, p2 \in Step :
                Hash(ins, prehash, more, p2)
           \/ Sign(ins)
  BY DEF RingCommand
<1> USE DEF NonceInv
<1>0. tx_sign_cnt \in Nat
  BY DEF CountOK
<1>1. CASE Prepare(ins)
  <2>1. UNCHANGED signatures /\ tx_sign_cnt' = tx_sign_cnt + 1
    BY <1>1 DEF Prepare, UseSignCount
  <2>2. \A i \in DOMAIN signatures' : signatures'[i].alpha < tx_sign_cnt'
    BY <1>0, <2>1
  <2> QED BY <1>0, <2>1, <2>2 DEF NonceUsedOnce
<1>2. CASE \E prehash \in BOOLEAN, more \in More, p2 \in Step :
             Hash(ins, prehash, more, p2)
  <2>1. UNCHANGED <<tx_sign_cnt, signatures>>
    BY <1>2 DEF Hash
  <2>2. Unsigned
    BY <1>2 DEF Hash, RingStep, In, Unsigned, After
  <2> QED BY <2>1, <2>2 DEF NonceUsedOnce
<1>3. CASE Sign(ins)
  <2>1. ~Unsigned'
    BY <1>3 DEF Sign, Goto, At, Unsigned, After
  <2>2. CASE UNCHANGED signatures
    <3>1. UNCHANGED tx_sign_cnt
      BY <1>3 DEF Sign
    <3> QED BY <2>1, <2>2, <3>1 DEF NonceUsedOnce
  <2>3. CASE signatures' = Append(signatures, [alpha |-> tx_sign_cnt, c |-> c])
    <3> DEFINE new == [alpha |-> tx_sign_cnt, c |-> c]
    <3>1. Unsigned /\ UNCHANGED tx_sign_cnt
      BY <1>3 DEF Sign, RingStep, In, Unsigned, After
    <3>2. PICK S : signatures \in Seq(S)
      OBVIOUS
    <3>3. signatures \in Seq(S \cup {new}) /\ new \in S \cup {new}
      BY <3>2, SeqMonotone
    <3>4. signatures' \in Seq(S \cup {new})
      BY <3>3, <2>3
    <3>5. \A i \in DOMAIN signatures' :
            \/ i \in DOMAIN signatures /\ signatures'[i] = signatures[i]
            \/ i = Len(signatures) + 1 /\ signatures'[i] = new
      BY <3>3, <2>3
    <3>6. \A i \in DOMAIN signatures : signatures[i].alpha # new.alpha
      BY <3>1, <1>0
    <3>7. NonceUsedOnce'
      BY <3>5, <3>6 DEF NonceUsedOnce
    <3> QED BY <3>1, <3>4, <3>5, <3>7, <2>1, <1>0
  <2> QED BY <1>3, <2>2, <2>3 DEF Sign
<1> QED BY <1>1, <1>2, <1>3

\* NonceInv is inductive.
LEMMA NonceAlways == Spec => []NonceInv
<1>1. Init => NonceInv
  <2> SUFFICES ASSUME Init PROVE NonceInv
    OBVIOUS
  <2>1. CountOK
    BY ConstantsOK DEF ConstantsOK, Init, CountOK
  <2>2. signatures = <<>>
    BY DEF Init
  <2> QED BY <2>1, <2>2 DEF NonceInv, NonceUsedOnce
<1>2. NonceInv /\ [Next]_vars => NonceInv'
  <2> SUFFICES ASSUME NonceInv, [Next]_vars PROVE NonceInv'
    OBVIOUS
  <2>1. CountOK'
    BY CountStep DEF NonceInv
  <2>2. CASE RingCommand
    BY <2>1, <2>2, NonceRing
  <2>3. CASE Bzero
    <3>1. signatures' = <<>>
      BY <2>3 DEF Bzero
    <3> QED BY <2>1, <3>1 DEF NonceInv, NonceUsedOnce
  <2>4. CASE ~RingCommand /\ ~Bzero
    BY <2>1, <2>4, NonceFramed DEF NonceInv, NonceUsedOnce
  <2> QED BY <2>2, <2>3, <2>4
<1> QED BY <1>1, <1>2, PTL DEF Spec

\* monero_mlsag_sign and monero_clsag_sign: no two real signatures since start-up
\* are made with the same secret nonce, whatever transactions they belong to.
THEOREM NonceNeverReused == Spec => []NonceUsedOnce
<1>1. NonceInv => NonceUsedOnce
  BY DEF NonceInv
<1> QED BY <1>1, NonceAlways, PTL

-----------------------------------------------------------------------------
(* What a real signature rests on. *)

RingMsgs == {RingMsg(TRUE), RingMsg(FALSE)}

\* clsag_match_history: an entry is raised for mlsagH only, and its place in the
\* history is the place of mlsagH in the digest, from the end.
Window(msgs, history) ==
  \A k \in 1..3 : history[k] =>
    Len(msgs) + k - 3 \in 1..Len(msgs) /\ msgs[Len(msgs) + k - 3] = RingMsg(TRUE)

\* The digest a challenge is made of.
Absorbed(ins, msgs, history) ==
  /\ msgs \in Seq(RingMsgs) /\ Len(msgs) >= 1
  /\ ins = "MLSAG" => msgs[1] = RingMsg(TRUE)
  /\ ins = "CLSAG" => Window(msgs, history)

\* The challenge of the ring under way.
Challenged(ins) ==
  /\ c # <<>> /\ c[1].ring = tx_sign_cnt /\ c[1].ins = ins
  /\ \E i \in DOMAIN c[1].over : c[1].over[i] = RingMsg(TRUE)

\* Between two INS_*_HASH commands the digest is growing; P2 # 0 is the last one,
\* and the challenge is ready.
RingInv ==
  tx_in_progress /\ After({"MLSAG", "CLSAG"}) /\ tx_state.p1 = 2 =>
    IF tx_state.p2 = 0 THEN Absorbed(tx_state.ins, keccakH, clsag_match_history)
                       ELSE Challenged(tx_state.ins)

\* One more message moves the window by one.
LEMMA WindowSlides ==
  ASSUME NEW msgs \in Seq(RingMsgs), NEW history, Window(msgs, history),
         NEW prehash \in BOOLEAN
  PROVE  Window(Append(msgs, RingMsg(prehash)), <<history[2], history[3], prehash>>)
<1> DEFINE next == Append(msgs, RingMsg(prehash))
           now  == <<history[2], history[3], prehash>>
<1>1. RingMsg(prehash) \in RingMsgs
  BY DEF RingMsgs
<1>2. Len(next) = Len(msgs) + 1 /\ Len(msgs) \in Nat
  BY <1>1
<1>3. \A i \in 1..Len(msgs) : next[i] = msgs[i]
  BY <1>1
<1>4. next[Len(next)] = RingMsg(prehash)
  BY <1>1, <1>2
<1>5. now[1] = history[2] /\ now[2] = history[3] /\ now[3] = prehash
  OBVIOUS
<1> HIDE DEF next, now
<1>6. ASSUME NEW k \in 1..3, now[k]
      PROVE  Len(next) + k - 3 \in 1..Len(next) /\ next[Len(next) + k - 3] = RingMsg(TRUE)
  <2>1. CASE k = 3
    <3>1. prehash
      BY <1>5, <1>6, <2>1
    <3>2. RingMsg(prehash) = RingMsg(TRUE)
      BY <3>1 DEF RingMsg
    <3>3. Len(next) + k - 3 = Len(next) /\ Len(next) \in 1..Len(next)
      BY <1>2, <2>1
    <3> QED BY <1>4, <3>2, <3>3
  <2>2. CASE k \in 1..2
    <3>1. history[k + 1] /\ k + 1 \in 1..3
      BY <1>5, <1>6, <2>2
    <3>2. /\ Len(msgs) + (k + 1) - 3 \in 1..Len(msgs)
          /\ msgs[Len(msgs) + (k + 1) - 3] = RingMsg(TRUE)
      BY <3>1 DEF Window
    <3>3. k \in Int /\ Len(next) \in Int /\ Len(msgs) \in Int
      BY <1>2
    <3>4. Len(next) + k - 3 = Len(msgs) + (k + 1) - 3
      BY <1>2, <3>3
    <3>5. Len(next) + k - 3 \in 1..Len(next)
      BY <1>2, <3>2, <3>3, <3>4
    <3> QED BY <1>3, <3>2, <3>4, <3>5
  <2>3. k = 3 \/ k \in 1..2
    OBVIOUS
  <2> QED BY <2>1, <2>2, <2>3
<1>7. Window(next, now)
  BY <1>6 DEF Window
<1> QED BY <1>7 DEF next, now

\* INS_MLSAG and INS_CLSAG, P1=2, keep what the challenge needs.
LEMMA HashAbsorbs ==
  ASSUME RingInv, NEW ins \in {"MLSAG", "CLSAG"}, NEW prehash \in BOOLEAN,
         NEW more \in More, NEW p2 \in Step, Hash(ins, prehash, more, p2)
  PROVE  RingInv'
<1> DEFINE old  == IF p2 = 1 THEN <<>> ELSE keccakH
           msgs == Append(old, RingMsg(prehash))
           seen == IF p2 = 1 THEN <<FALSE, FALSE, FALSE>> ELSE clsag_match_history
           now  == IF ins = "CLSAG" THEN <<seen[2], seen[3], prehash>>
                                    ELSE clsag_match_history
<1>1. old \in Seq(RingMsgs) /\ RingMsg(prehash) \in RingMsgs
      /\ (ins = "CLSAG" => Window(old, seen))
      /\ (p2 # 1 /\ ins = "MLSAG" => Len(old) >= 1 /\ old[1] = RingMsg(TRUE))
  <2>0. RingMsg(prehash) \in RingMsgs
    BY DEF RingMsgs
  <2>1. CASE p2 = 1
    BY <2>0, <2>1 DEF Window
  <2>2. CASE p2 # 1
    <3>1. tx_in_progress /\ tx_state.ins = ins /\ tx_state.p1 = 2 /\ tx_state.p2 = 0
      BY <2>2 DEF Hash, RingStep, In
    <3>2. Absorbed(ins, keccakH, clsag_match_history)
      BY <3>1 DEF RingInv, After
    <3> QED BY <2>0, <2>2, <3>2 DEF Absorbed
  <2> QED BY <2>1, <2>2
<1>2. Absorbed(ins, msgs, now)
  <2>1. msgs \in Seq(RingMsgs) /\ Len(msgs) = Len(old) + 1 /\ Len(old) \in Nat
    BY <1>1
  <2>2. ins = "CLSAG" => Window(msgs, now)
    BY <1>1, WindowSlides
  <2>3. ins = "MLSAG" => msgs[1] = RingMsg(TRUE)
    <3>1. CASE p2 = 1
      <4>1. ins = "MLSAG" => RingMsg(prehash) = RingMsg(TRUE)
        BY <3>1 DEF Hash, RingMsg
      <4>2. msgs[1] = RingMsg(prehash)
        BY <1>1, <3>1
      <4> QED BY <4>1, <4>2
    <3>2. CASE p2 # 1
      <4>1. Len(old) >= 1 => msgs[1] = old[1]
        BY <1>1
      <4> QED BY <1>1, <3>2, <4>1
    <3> QED BY <3>1, <3>2
  <2> HIDE DEF msgs, now, old, seen
  <2>4. Len(msgs) >= 1
    BY <2>1
  <2> QED BY <2>1, <2>2, <2>3, <2>4 DEF Absorbed
<1>3. /\ UNCHANGED <<mlsagH, tx_sign_cnt>> /\ clsag_match_history' = now
      /\ tx_state' = At(ins, 2, IF more THEN 0 ELSE p2)
      /\ IF more THEN keccakH' = msgs
                 ELSE HistoryMatches(ins, now) /\ c' = <<Challenge(ins, msgs)>>
  BY DEF Hash, Goto
<1> HIDE DEF msgs, now
<1>4. CASE more
  <2>1. Absorbed(ins, keccakH, clsag_match_history)'
    BY <1>2, <1>3, <1>4 DEF Absorbed, Window, RingMsgs, RingMsg
  <2> QED BY <1>3, <1>4, <2>1 DEF RingInv, At
<1>5. CASE ~more
  <2>1. \E i \in DOMAIN msgs : msgs[i] = RingMsg(TRUE)
    <3>1. CASE ins = "MLSAG"
      <4>1. 1 \in DOMAIN msgs
        BY <1>2 DEF Absorbed
      <4> QED BY <4>1, <3>1, <1>2 DEF Absorbed
    <3>2. CASE ins = "CLSAG"
      <4>1. now[1]
        BY <1>3, <1>5, <3>2 DEF HistoryMatches
      <4>2. /\ Len(msgs) + 1 - 3 \in 1..Len(msgs)
            /\ msgs[Len(msgs) + 1 - 3] = RingMsg(TRUE)
        <5>1. Window(msgs, now) /\ 1 \in 1..3
          BY <3>2, <1>2 DEF Absorbed
        <5> QED BY <4>1, <5>1 DEF Window
      <4>3. DOMAIN msgs = 1..Len(msgs)
        BY <1>2 DEF Absorbed
      <4> QED BY <4>2, <4>3
    <3> QED BY <3>1, <3>2
  <2>2. c' # <<>> /\ c'[1] = Challenge(ins, msgs)
    BY <1>3, <1>5
  <2>3. Challenged(ins)'
    BY <1>3, <2>1, <2>2 DEF Challenged, Challenge, RingMsg
  <2>4. p2 # 0
    BY DEF Step
  <2> QED BY <1>3, <1>5, <2>3, <2>4 DEF RingInv, At
<1> QED BY <1>4, <1>5 DEF More

\* No step spoils a challenge that is not over.
LEMMA RingStepInv == ASSUME RingInv, [Next]_vars PROVE RingInv'
<1> USE DEF RingInv
<1>1. CASE UNCHANGED <<tx_in_progress, tx_state, hashes, ring>>
  BY <1>1 DEF hashes, ring, After, Absorbed, Window, Challenged, RingMsgs, RingMsg
<1>2. CASE ~After({"MLSAG", "CLSAG"})' \/ tx_in_progress' = FALSE
  BY <1>2 DEF After
<1>3. CASE BuildCommand
  BY <1>1, <1>2, <1>3, BuildLeavesRing
<1>4. CASE ValidateCommand
  <2>1. ~After({"MLSAG", "CLSAG"})'
    BY <1>4, ValidateFramed DEF ValidateFrame, ValidateStep, Goto, At, After
  <2> QED BY <2>1, <1>2
<1>5. CASE RingCommand
  <2> PICK ins \in {"MLSAG", "CLSAG"} :
             \/ Prepare(ins)
             \/ \E prehash \in BOOLEAN, more \in More, p2 \in Step :
                  Hash(ins, prehash, more, p2)
             \/ Sign(ins)
    BY <1>5 DEF RingCommand
  <2>1. CASE Prepare(ins) \/ Sign(ins)
    <3>1. tx_state'.p1 # 2
      BY <2>1 DEF Prepare, Sign, Goto, At
    <3> QED BY <3>1
  <2>2. CASE \E prehash \in BOOLEAN, more \in More, p2 \in Step :
               Hash(ins, prehash, more, p2)
    BY <2>2, HashAbsorbs
  <2> QED BY <2>1, <2>2
<1>6. CASE Accept
  BY <1>1, <1>6 DEF Accept
<1>7. CASE Reject \/ Bzero
  BY <1>2, <1>7 DEF Reject, Bzero, monero_reset_tx
<1>8. CASE UNCHANGED txState
  BY <1>1, <1>8 DEF txState
<1> QED BY <1>3, <1>4, <1>5, <1>6, <1>7, <1>8, StepKinds

\* monero_mlsag_sign and monero_clsag_sign: a real signature is released in the
\* transaction the user approved, under the hash sealed for it, and its challenge
\* was computed for its own nonce and absorbed that hash.
THEOREM RealSignatureIsEarned == Spec => RealSignatureEarned
<1> DEFINE Inv == SealInv /\ RingInv /\ NonceInv
           Earned == /\ Real /\ tx_in_progress /\ tx_stages = Stages
                     /\ c # <<>> /\ c[1].ring = tx_sign_cnt
                     /\ c[1].ins = tx_state.ins
                     /\ \E i \in DOMAIN c[1].over :
                          c[1].over[i] = [kind |-> "prehash", of |-> mlsagH]
           Step1 == Len(signatures') > Len(signatures) => Earned
<1>1. Init => RingInv
  BY DEF Init, RingInv
<1>2. Inv /\ [Next]_vars => Step1
  <2> SUFFICES ASSUME Inv, [Next]_vars, Len(signatures') > Len(signatures)
               PROVE  Earned
    OBVIOUS
  <2>0. Len(signatures) \in Nat
    BY DEF NonceInv
  <2>1. RingCommand
    <3>1. CASE Bzero
      <4>1. signatures' = <<>>
        BY <3>1 DEF Bzero
      <4> QED BY <2>0, <4>1
    <3>2. CASE ~Bzero /\ ~RingCommand
      BY <2>0, <3>2, NonceFramed
    <3> QED BY <3>1, <3>2
  <2>2. PICK ins \in {"MLSAG", "CLSAG"} : Sign(ins)
    <3> PICK ins \in {"MLSAG", "CLSAG"} :
               \/ Prepare(ins)
               \/ \E prehash \in BOOLEAN, more \in More, p2 \in Step :
                    Hash(ins, prehash, more, p2)
               \/ Sign(ins)
      BY <2>1 DEF RingCommand
    <3>1. CASE Prepare(ins)
      BY <2>0, <3>1 DEF Prepare
    <3>2. CASE \E prehash \in BOOLEAN, more \in More, p2 \in Step :
                 Hash(ins, prehash, more, p2)
      BY <2>0, <3>2 DEF Hash
    <3> QED BY <3>1, <3>2
  <2>3. Real
    BY <2>0, <2>2 DEF Sign
  <2>4. /\ tx_in_progress /\ "PREHASH_FINALIZED" \in tx_stages
        /\ tx_state.ins = ins /\ tx_state.p1 = 2 /\ tx_state.p2 # 0
    BY <2>2, <2>3 DEF Sign, RingStep, monero_tx_stages_check, In
  <2>5. tx_stages = Stages
    BY <2>4 DEF SealInv, SealIsWhole
  <2>6. Challenged(ins)
    BY <2>4 DEF RingInv, After
  <2> QED BY <2>3, <2>4, <2>5, <2>6 DEF Challenged, RingMsg
<1>3. Spec => []Inv
  <2>1. Init => SealInv /\ RingInv
    BY <1>1 DEF Init, SealInv, SealIsWhole, StagesOK
  <2>2. SealInv /\ RingInv /\ [Next]_vars => SealInv' /\ RingInv'
    BY SealStep, RingStepInv
  <2> QED BY <2>1, <2>2, NonceAlways, PTL DEF Spec
<1> QED BY <1>2, <1>3, PTL DEF RealSignatureEarned, Spec

-----------------------------------------------------------------------------
(* Button devices: every question owes a reply.  (A touch device whose review *)
(* overflows breaks this; see PrehashUpdateOverflow.)                         *)

\* A command runs when no reply is owed, and either replies or asks.
RepliesOrAsks ==
  /\ ~io_reply_pending
  /\ \/ UNCHANGED io_reply_pending /\ review' \in {review, <<>>}
     \/ io_reply_pending' = TRUE /\ review' # <<>>

\* On a button device an item is a question that owes its reply.
LEMMA AskAsks ==
  ASSUME ~Touch, NEW item, NEW last, NEW newRows, Ask(item, last, newRows)
  PROVE  RepliesOrAsks
<1>1. \A x : <<x>> # <<>>
  OBVIOUS
<1> QED BY <1>1 DEF Ask, Listening, RepliesOrAsks

\* A command that returns SW_OK replies.
LEMMA SyncReplies == ASSUME Sync PROVE RepliesOrAsks
BY DEF Sync, Listening, RepliesOrAsks

\* So does every command of a transaction, or it asks.
LEMMA CommandReplies ==
  ASSUME ~Touch, BuildCommand \/ ValidateCommand \/ RingCommand
  PROVE  RepliesOrAsks
<1>1. CASE BuildCommand
  <2>1. ASSUME NEW lock \in Locks, PrefixHashInit(lock)
        PROVE  RepliesOrAsks
    <3>1. Sync \/ \E newRows : Ask(Timelock, FALSE, newRows)
      BY <2>1 DEF PrefixHashInit, Announce
    <3> QED BY <3>1, AskAsks, SyncReplies
  <2>2. CASE OpenTx
    BY <2>2 DEF OpenTx, Listening, RepliesOrAsks
  <2>3. CASE ~OpenTx /\ ~\E lock \in Locks : PrefixHashInit(lock)
    <3>1. Sync
      BY <1>1, <2>3 DEF BuildCommand, SetSignatureMode, CloseTx, Stealth,
         GenTxoutKeys, PrefixHashUpdate, GenCommitmentMask, Blind
    <3> QED BY <3>1, SyncReplies
  <2> QED BY <2>1, <2>2, <2>3
<1>2. CASE ValidateCommand
  <2>1. ASSUME NEW amt \in Amount, NEW more \in More, PrehashInitFee(amt, more)
        PROVE  RepliesOrAsks
    <3>1. \E newRows : Ask(Fee(amt), FALSE, newRows)
      BY <2>1 DEF PrehashInitFee
    <3> QED BY <3>1, AskAsks
  <2>2. ASSUME NEW o \in Output, NEW amt \in Amount, NEW more \in More,
               NEW p2 \in Step, PrehashUpdate(o, amt, more, p2)
        PROVE  RepliesOrAsks
    <3>1. \E newRows : Ask(OutputItem(o, amt), ~more, newRows)
      BY <2>2 DEF PrehashUpdate
    <3> QED BY <3>1, AskAsks
  <2>3. ASSUME NEW o \in Output, NEW amt \in Amount, NEW more \in More,
               NEW p2 \in Step, PrehashUpdateOverflow(o, amt, more, p2)
        PROVE  FALSE
    BY <2>3 DEF PrehashUpdateOverflow, Overflows
  <2>4. CASE \/ \E more \in More, p2 \in Step : PrehashInit(more, p2)
             \/ \E o \in Output, amt \in Amount, p2 \in Step :
                  PrehashUpdateFake(o, amt, p2)
             \/ \E k \in Commitment, p2 \in Step : PrehashAccumulate(k, p2)
             \/ \E message \in {prefixH, <<[kind |-> "other"]>>}, p2 \in Step :
                  PrehashFinalize(message, p2)
    <3>1. Sync
      BY <2>4 DEF PrehashInit, PrehashUpdateFake, PrehashAccumulate, PrehashFinalize
    <3> QED BY <3>1, SyncReplies
  <2> QED BY <1>2, <2>1, <2>2, <2>3, <2>4 DEF ValidateCommand
<1>3. CASE RingCommand
  <2>1. Sync
    BY <1>3, RingFramed DEF RingFrame
  <2> QED BY <2>1, SyncReplies
<1> QED BY <1>1, <1>2, <1>3

\* What a step of a button device may do about replies.
LEMMA ReplyStep ==
  ASSUME ~Touch, [Next]_vars
  PROVE  \/ RepliesOrAsks
         \/ review' = <<>> /\ io_reply_pending' = FALSE
         \/ UNCHANGED <<txState, shown, io_reply_pending, review>>
         \/ ~io_reply_pending /\ io_reply_pending' = FALSE /\ UNCHANGED review
<1>1. CASE BuildCommand \/ ValidateCommand \/ RingCommand
  BY <1>1, CommandReplies
<1>2. CASE ReadOnlyCommand
  BY <1>2, SyncReplies DEF ReadOnlyCommand
<1>3. CASE \E what \in {"viewKey", "address"} : AskOther(what)
  <2>1. \A x : <<x>> # <<>>
    OBVIOUS
  <2> QED BY <1>3, <2>1 DEF AskOther, Listening, RepliesOrAsks
<1>4. CASE User
  BY <1>4 DEF User, Accept, Reject, AnswerOther, Answered
<1>5. CASE Reinit
  BY <1>5 DEF Reinit, Bzero
<1>6. CASE Kill
  BY <1>6 DEF Kill, Bzero
<1>7. CASE Boot \/ UNCHANGED vars
  BY <1>7 DEF Boot, vars, session
<1> QED BY <1>1, <1>2, <1>3, <1>4, <1>5, <1>6, <1>7 DEF Next

\* monero_types.h, io_reply_pending, and app_main: on a button device a question
\* is on screen exactly while a received command owes its reply.
THEOREM ButtonReviewOwesReply == ~Touch => (Spec => []ReviewOwesReply)
<1> SUFFICES ASSUME ~Touch PROVE Spec => []ReviewOwesReply
  OBVIOUS
<1>1. Init => ReviewOwesReply
  BY DEF Init, ReviewOwesReply
<1>2. ReviewOwesReply /\ [Next]_vars => ReviewOwesReply'
  BY ReplyStep DEF RepliesOrAsks, ReviewOwesReply
<1> QED BY <1>1, <1>2, PTL DEF Spec

\* What the user is looking at is what the device holds: while a question stays
\* on the screen of a button device, nothing about the transaction changes.
THEOREM ButtonFrozenUnderReview == ~Touch => (Spec => FrozenUnderReview)
<1> SUFFICES ASSUME ~Touch PROVE Spec => FrozenUnderReview
  OBVIOUS
<1>1. ReviewOwesReply /\ [Next]_vars =>
        (review # <<>> /\ review' = review => UNCHANGED <<txState, shown>>)
  BY ReplyStep DEF RepliesOrAsks, ReviewOwesReply
<1>2. Spec => []ReviewOwesReply
  BY ButtonReviewOwesReply
<1> QED BY <1>1, <1>2, PTL DEF Spec, FrozenUnderReview

-----------------------------------------------------------------------------
(* Button devices: every stage is earned. *)

\* A stage stands for real work of the transaction in progress, and approval for
\* the approval of a closed output set.
EarnedInv ==
  /\ SealInv
  /\ tx_stages # {} => Real /\ tx_in_progress
  /\ "USER_APPROVED" \in tx_stages => "OUTPUTS_REVIEWED" \in tx_stages

\* The commands that build a transaction keep it so.
LEMMA EarnedBuilt == ASSUME EarnedInv, SealInv', BuildCommand PROVE EarnedInv'
<1> USE DEF EarnedInv, Real
<1>1. CASE \E mode \in HostModes : SetSignatureMode(mode)
  BY <1>1 DEF SetSignatureMode
<1>2. CASE OpenTx \/ CloseTx
  BY <1>2 DEF OpenTx, CloseTx, monero_reset_tx, ClearTx
<1>3. CASE \E pid \in PaymentId : Stealth(pid)
  BY <1>3 DEF Stealth
<1>4. CASE \E to \in Dest, chg \in BOOLEAN : GenTxoutKeys(to, chg)
  BY <1>4 DEF GenTxoutKeys
<1>5. CASE \E lock \in Locks : PrefixHashInit(lock)
  BY <1>5 DEF PrefixHashInit
<1>6. ASSUME NEW chunk \in Chunks, NEW more \in More, NEW p2 \in 1..MaxChunks,
             PrefixHashUpdate(chunk, more, p2)
      PROVE  EarnedInv'
  <2>1. tx_in_progress /\ UNCHANGED <<tx_in_progress, tx_sig_mode>>
    BY <1>6 DEF PrefixHashUpdate
  <2>2. \/ UNCHANGED tx_stages
        \/ Real /\ tx_stages' = tx_stages \cup {"PREFIX_FINALIZED"}
    BY <1>6 DEF PrefixHashUpdate
  <2> QED BY <2>1, <2>2
<1>7. CASE GenCommitmentMask \/ Blind
  BY <1>7 DEF GenCommitmentMask, Blind
<1> QED BY <1>1, <1>2, <1>3, <1>4, <1>5, <1>6, <1>7 DEF BuildCommand

\* No step of a button device breaks it.
LEMMA EarnedStep == ASSUME ~Touch, EarnedInv, [Next]_vars PROVE EarnedInv'
<1>1. SealInv'
  BY SealStep DEF EarnedInv
<1> USE <1>1 DEF EarnedInv
<1>2. CASE BuildCommand
  BY <1>2, EarnedBuilt
<1>3. CASE ValidateCommand
  <2>1. UNCHANGED tx_sig_mode
    BY <1>3, ValidateFramed DEF ValidateFrame
  <2> QED BY <1>3, <2>1, ValidateStages DEF StagesRaised, Real
<1>4. CASE RingCommand
  BY <1>4, RingFramed DEF RingFrame, Real
<1>5. CASE Accept
  BY <1>5 DEF Accept, Real
<1>6. CASE Reject \/ Bzero
  BY <1>6 DEF Reject, Bzero, monero_reset_tx, ClearTx
<1>7. CASE UNCHANGED txState
  BY <1>7 DEF txState, Real
<1> QED BY <1>2, <1>3, <1>4, <1>5, <1>6, <1>7, StepKinds

\* monero_types.h, the stages of a transaction: on a button device a raised bit
\* always means that real work happened, in the transaction in progress, and in
\* the order the review needs.
THEOREM ButtonStagesEarned == ~Touch => (Spec => []StagesEarned)
<1> SUFFICES ASSUME ~Touch PROVE Spec => []StagesEarned
  OBVIOUS
<1>1. Init => EarnedInv
  BY DEF Init, EarnedInv, SealInv, SealIsWhole, StagesOK
<1>2. EarnedInv /\ [Next]_vars => EarnedInv'
  BY EarnedStep
<1>3. EarnedInv => StagesEarned
  BY DEF EarnedInv, SealInv, StagesEarned
<1> QED BY <1>1, <1>2, <1>3, PTL DEF Spec


-----------------------------------------------------------------------------
(* Questions and the seal. *)

Sealed == "PREHASH_FINALIZED" \in tx_stages

\* A transaction in progress was opened and not closed; a question on screen owes
\* its reply; and none is about the transaction once it is sealed.
Quiet ==
  /\ tx_in_progress => tx_state.ins # "NONE"
  /\ tx_in_progress /\ review # <<>> => io_reply_pending
  /\ tx_in_progress /\ Sealed /\ review # <<>> => review[1].what # "tx"

\* A command before the seal may ask; any other leaves the screen as it is, or
\* clears it.
LeavesQuiet ==
  \/ ~tx_in_progress'
  \/ tx_state'.ins # "NONE" /\ review' = <<>>
  \/ /\ tx_state'.ins # "NONE" /\ tx_in_progress /\ ~io_reply_pending
     /\ review' = review
  \/ /\ tx_state'.ins # "NONE" /\ io_reply_pending' = TRUE
     /\ tx_state'.ins \notin {"MLSAG", "CLSAG"}
     /\ ~(tx_state'.ins = "VALIDATE" /\ tx_state'.p1 = 3)

\* An item is asked about, or queued without a change of the screen.
LEMMA AskQuiet ==
  ASSUME NEW item, NEW last, NEW newRows, Ask(item, last, newRows)
  PROVE  /\ ~io_reply_pending
         /\ review' = review \/ io_reply_pending' = TRUE
BY DEF Ask, Listening

\* The commands that build a transaction.
LEMMA BuildQuiet == ASSUME BuildCommand PROVE LeavesQuiet
<1> USE DEF LeavesQuiet, Sync, Listening, Goto, At
<1>1. CASE \E mode \in HostModes : SetSignatureMode(mode)
  BY <1>1 DEF SetSignatureMode
<1>2. CASE OpenTx \/ CloseTx
  BY <1>2 DEF OpenTx, CloseTx, monero_reset_tx
<1>3. CASE \E pid \in PaymentId : Stealth(pid)
  BY <1>3 DEF Stealth
<1>4. CASE \E to \in Dest, chg \in BOOLEAN : GenTxoutKeys(to, chg)
  BY <1>4 DEF GenTxoutKeys
<1>5. ASSUME NEW lock \in Locks, PrefixHashInit(lock)
      PROVE  LeavesQuiet
  <2>1. tx_in_progress /\ tx_state' = At("PREFIX_HASH", 1, 0)
    BY <1>5 DEF PrefixHashInit
  <2>2. CASE Sync
    BY <2>1, <2>2
  <2>3. CASE \E newRows : Ask(Timelock, FALSE, newRows)
    <3>1. ~io_reply_pending /\ (review' = review \/ io_reply_pending' = TRUE)
      BY <2>3, AskQuiet
    <3> QED BY <2>1, <3>1
  <2> QED BY <1>5, <2>2, <2>3 DEF PrefixHashInit, Announce
<1>6. CASE \E chunk \in Chunks, more \in More, p2 \in 1..MaxChunks :
             PrefixHashUpdate(chunk, more, p2)
  BY <1>6 DEF PrefixHashUpdate
<1>7. CASE GenCommitmentMask \/ Blind
  BY <1>7 DEF GenCommitmentMask, Blind
<1> QED BY <1>1, <1>2, <1>3, <1>4, <1>5, <1>6, <1>7 DEF BuildCommand

\* Those of INS_VALIDATE.
LEMMA ValidateQuiet == ASSUME ValidateCommand PROVE LeavesQuiet
<1> USE DEF LeavesQuiet, Goto, At
<1>1. ASSUME NEW amt \in Amount, NEW more \in More, PrehashInitFee(amt, more)
      PROVE  LeavesQuiet
  <2>1. \E newRows : Ask(Fee(amt), FALSE, newRows)
    BY <1>1 DEF PrehashInitFee
  <2>2. ~io_reply_pending /\ (review' = review \/ io_reply_pending' = TRUE)
    BY <2>1, AskQuiet
  <2>3. tx_in_progress /\ tx_state' = At("VALIDATE", 1, 1)
    BY <1>1 DEF PrehashInitFee, ValidateStep
  <2> QED BY <2>2, <2>3
<1>2. ASSUME NEW o \in Output, NEW amt \in Amount, NEW more \in More,
             NEW p2 \in Step, PrehashUpdate(o, amt, more, p2)
      PROVE  LeavesQuiet
  <2>1. \E newRows : Ask(OutputItem(o, amt), ~more, newRows)
    BY <1>2 DEF PrehashUpdate
  <2>2. ~io_reply_pending /\ (review' = review \/ io_reply_pending' = TRUE)
    BY <2>1, AskQuiet
  <2>3. tx_in_progress /\ tx_state' = At("VALIDATE", 2, p2)
    BY <1>2 DEF PrehashUpdate, ValidateStep
  <2> QED BY <2>2, <2>3
<1>3. ASSUME NEW o \in Output, NEW amt \in Amount, NEW more \in More,
             NEW p2 \in Step, PrehashUpdateOverflow(o, amt, more, p2)
      PROVE  LeavesQuiet
  BY <1>3 DEF PrehashUpdateOverflow, monero_reset_tx
<1>4. CASE \/ \E more \in More, p2 \in Step : PrehashInit(more, p2)
           \/ \E o \in Output, amt \in Amount, p2 \in Step :
                PrehashUpdateFake(o, amt, p2)
           \/ \E k \in Commitment, p2 \in Step : PrehashAccumulate(k, p2)
           \/ \E message \in {prefixH, <<[kind |-> "other"]>>}, p2 \in Step :
                PrehashFinalize(message, p2)
  <2>1. Sync
    BY <1>4 DEF PrehashInit, PrehashUpdateFake, PrehashAccumulate, PrehashFinalize
  <2>2. \E p1 \in 1..3, p2 \in Step : ValidateStep(p1, p2)
    BY <1>4 DEF PrehashInit, PrehashUpdateFake, PrehashAccumulate, PrehashFinalize
  <2> QED BY <2>1, <2>2 DEF Sync, Listening, ValidateStep
<1> QED BY <1>1, <1>2, <1>3, <1>4 DEF ValidateCommand

\* Those of INS_MLSAG and INS_CLSAG.
LEMMA RingQuiet == ASSUME RingCommand PROVE LeavesQuiet
<1> PICK ins \in {"MLSAG", "CLSAG"} :
           \/ Prepare(ins)
           \/ \E prehash \in BOOLEAN, more \in More, p2 \in Step :
                Hash(ins, prehash, more, p2)
           \/ Sign(ins)
  BY DEF RingCommand
<1>1. tx_in_progress
  <2>1. CASE Prepare(ins)
    BY <2>1 DEF Prepare, RingStep
  <2>2. CASE \E prehash \in BOOLEAN, more \in More, p2 \in Step :
               Hash(ins, prehash, more, p2)
    BY <2>2 DEF Hash, RingStep
  <2>3. CASE Sign(ins)
    BY <2>3 DEF Sign, RingStep
  <2> QED BY <2>1, <2>2, <2>3
<1>2. Sync /\ \E i \in {"MLSAG", "CLSAG"}, p1 \in 1..3, p2 \in Nat : Goto(i, p1, p2)
  BY RingFramed DEF RingFrame
<1> QED BY <1>1, <1>2 DEF LeavesQuiet, Sync, Listening, Goto, At

\* No step breaks Quiet.
LEMMA QuietStep == ASSUME Quiet, SealInv', [Next]_vars PROVE Quiet'
<1>1. CASE BuildCommand \/ ValidateCommand \/ RingCommand
  <2>1. LeavesQuiet
    BY <1>1, BuildQuiet, ValidateQuiet, RingQuiet
  <2>2. Sealed' => \/ tx_state'.ins = "VALIDATE" /\ tx_state'.p1 = 3
                   \/ tx_state'.ins \in {"MLSAG", "CLSAG"}
    BY DEF SealInv, Sealed, In, After
  <2> QED BY <2>1, <2>2 DEF LeavesQuiet, Quiet
<1>2. CASE ReadOnlyCommand
  BY <1>2 DEF ReadOnlyCommand, Sync, Listening, txState, Quiet, Sealed
<1>3. ASSUME NEW what \in {"viewKey", "address"}, AskOther(what)
      PROVE  Quiet'
  <2>1. review' = <<Question(what, [kind |-> what], FALSE)>>
    BY <1>3 DEF AskOther
  <2>2. review'[1].what # "tx"
    BY <2>1 DEF Question
  <2> QED BY <1>3, <2>2 DEF AskOther, txState, Quiet
<1>4. CASE User
  <2>1. review' = <<>> /\ (UNCHANGED <<tx_in_progress, tx_state>> \/ ~tx_in_progress')
    BY <1>4 DEF User, Accept, Reject, AnswerOther, Answered, monero_reset_tx, txState
  <2> QED BY <2>1 DEF Quiet
<1>5. CASE Reinit \/ Kill
  BY <1>5 DEF Reinit, Kill, Bzero, Quiet
<1>6. CASE Boot \/ UNCHANGED vars
  BY <1>6 DEF Boot, vars, session, txState, Quiet, Sealed
<1> QED BY <1>1, <1>2, <1>3, <1>4, <1>5, <1>6 DEF Next

-----------------------------------------------------------------------------
(* Every step is a step of the promise. *)

\* What the mapping looks at.
Same ==
  /\ UNCHANGED <<tx_in_progress, shown, signatures>>
  /\ Sealed' <=> Sealed
  /\ "USER_APPROVED" \in tx_stages' <=> "USER_APPROVED" \in tx_stages

Promised == [Signer!Next]_Signer!promise

\* If that stands still, so does the promise.
LEMMA SameIsPromised == ASSUME Same PROVE Promised
<1>1. StageReached' = StageReached
  BY DEF Same, Sealed, StageReached
<1>2. ToldOfIt' = ToldOfIt
  BY DEF Same, ToldOfIt
<1> QED BY <1>1, <1>2 DEF Same, Promised, Signer!promise

\* A transaction that is reset is at its end.
LEMMA ResetIsPromised ==
  ASSUME ~tx_in_progress', signatures' \in {signatures, <<>>}
  PROVE  Promised
<1>1. StageReached' = "idle" /\ ToldOfIt' = NoItems
  BY DEF StageReached, ToldOfIt
<1> QED BY <1>1 DEF Promised, Signer!Next, Signer!End

\* Building a transaction opens it, closes it, or is not seen.
LEMMA BuildIsPromised == ASSUME Quiet, BuildCommand PROVE Promised
<1>1. CASE OpenTx
  <2>1. ~tx_in_progress
    BY <1>1 DEF OpenTx, Quiet
  <2>2. tx_in_progress' /\ tx_stages' = {} /\ shown' = NoItems /\ UNCHANGED signatures
    BY <1>1 DEF OpenTx, ClearTx, KeptByReset
  <2>3. StageReached = "idle" /\ StageReached' = "open" /\ ToldOfIt' = NoItems
    BY <2>1, <2>2 DEF StageReached, ToldOfIt
  <2> QED BY <2>2, <2>3 DEF Promised, Signer!Next, Signer!Begin
<1>2. CASE CloseTx
  <2>1. ~tx_in_progress' /\ UNCHANGED signatures
    BY <1>2 DEF CloseTx, monero_reset_tx, KeptByReset
  <2> QED BY <2>1, ResetIsPromised
<1>3. CASE \E mode \in HostModes : SetSignatureMode(mode)
  <2>1. Same
    BY <1>3 DEF SetSignatureMode, ring, Same, Sealed
  <2> QED BY <2>1, SameIsPromised
<1>4. CASE \E pid \in PaymentId : Stealth(pid)
  <2>1. Same
    BY <1>4 DEF Stealth, ring, Same, Sealed
  <2> QED BY <2>1, SameIsPromised
<1>5. CASE \E to \in Dest, chg \in BOOLEAN : GenTxoutKeys(to, chg)
  <2>1. Same
    BY <1>5 DEF GenTxoutKeys, ring, Same, Sealed
  <2> QED BY <2>1, SameIsPromised
<1>6. CASE \E lock \in Locks : PrefixHashInit(lock)
  <2>1. Same
    BY <1>6 DEF PrefixHashInit, ring, Same, Sealed
  <2> QED BY <2>1, SameIsPromised
<1>7. ASSUME NEW chunk \in Chunks, NEW more \in More, NEW p2 \in 1..MaxChunks,
             PrefixHashUpdate(chunk, more, p2)
      PROVE  Promised
  <2>1. UNCHANGED <<tx_in_progress, shown, signatures>>
    BY <1>7 DEF PrefixHashUpdate, ring
  <2>2. tx_stages' \in {tx_stages, tx_stages \cup {"PREFIX_FINALIZED"},
                        tx_stages \cup {}}
    BY <1>7 DEF PrefixHashUpdate
  <2>3. Same
    BY <2>1, <2>2 DEF Same, Sealed
  <2> QED BY <2>3, SameIsPromised
<1>8. CASE GenCommitmentMask \/ Blind
  <2>1. Same
    BY <1>8 DEF GenCommitmentMask, Blind, ring, Same, Sealed
  <2> QED BY <2>1, SameIsPromised
<1> QED BY <1>1, <1>2, <1>3, <1>4, <1>5, <1>6, <1>7, <1>8 DEF BuildCommand

\* What INS_VALIDATE leaves alone: it resets the transaction, or tells nothing
\* and signs nothing.
LEMMA ValidateTellsNothing ==
  ASSUME ValidateCommand
  PROVE  /\ UNCHANGED signatures
         /\ ~tx_in_progress' \/ UNCHANGED <<tx_in_progress, shown>>
<1>1. CASE \E o \in Output, amt \in Amount, more \in More, p2 \in Step :
             PrehashUpdateOverflow(o, amt, more, p2)
  BY <1>1 DEF PrehashUpdateOverflow, monero_reset_tx, KeptByReset
<1>2. ASSUME NEW o \in Output, NEW amt \in Amount, NEW more \in More,
             NEW p2 \in Step, PrehashUpdate(o, amt, more, p2)
      PROVE  UNCHANGED <<signatures, tx_in_progress, shown>>
  BY <1>2 DEF PrehashUpdate, ring
<1>3. CASE \/ \E amt \in Amount, more \in More : PrehashInitFee(amt, more)
           \/ \E more \in More, p2 \in Step : PrehashInit(more, p2)
           \/ \E o \in Output, amt \in Amount, p2 \in Step :
                PrehashUpdateFake(o, amt, p2)
  BY <1>3 DEF PrehashInitFee, PrehashInit, PrehashUpdateFake, ring
<1>4. CASE \/ \E k \in Commitment, p2 \in Step : PrehashAccumulate(k, p2)
           \/ \E message \in {prefixH, <<[kind |-> "other"]>>}, p2 \in Step :
                PrehashFinalize(message, p2)
  BY <1>4 DEF PrehashAccumulate, PrehashFinalize, ring
<1> QED BY <1>1, <1>2, <1>3, <1>4 DEF ValidateCommand

\* INS_VALIDATE seals what is approved, ends a transaction, or is not seen.
LEMMA ValidateIsPromised == ASSUME ValidateCommand PROVE Promised
<1>1. CASE ~tx_in_progress'
  BY <1>1, ValidateTellsNothing, ResetIsPromised
<1>2. CASE tx_in_progress' /\ UNCHANGED <<tx_in_progress, shown, signatures>>
  <2>1. CASE tx_stages' = tx_stages
    <3>1. Same
      BY <1>2, <2>1 DEF Same, Sealed
    <3> QED BY <3>1, SameIsPromised
  <2>2. CASE tx_stages' = tx_stages \cup {"OUTPUTS_REVIEWED"}
    <3>1. Same
      BY <1>2, <2>2 DEF Same, Sealed
    <3> QED BY <3>1, SameIsPromised
  <2>3. CASE /\ tx_stages' = tx_stages \cup {"PREHASH_FINALIZED"}
             /\ "USER_APPROVED" \in tx_stages
    <3>1. CASE Sealed
      <4>1. Same
        BY <1>2, <2>3, <3>1 DEF Same, Sealed
      <4> QED BY <4>1, SameIsPromised
    <3>2. CASE ~Sealed
      <4>1. StageReached = "approved" /\ StageReached' = "sealed"
        BY <1>2, <2>3, <3>2 DEF StageReached, Sealed
      <4>2. ToldOfIt' = ToldOfIt
        BY <1>2 DEF ToldOfIt
      <4> QED BY <1>2, <4>1, <4>2 DEF Promised, Signer!Next, Signer!Seal
    <3> QED BY <3>1, <3>2
  <2> QED BY <1>2, <2>1, <2>2, <2>3, ValidateStages DEF StagesRaised
<1> QED BY <1>1, <1>2, ValidateTellsNothing

\* A ring signature releases something when it is signed, under the seal and with
\* a nonce that signed nothing before.
LEMMA RingIsPromised == ASSUME NonceInv, RingCommand PROVE Promised
<1> PICK ins \in {"MLSAG", "CLSAG"} :
           \/ Prepare(ins)
           \/ \E prehash \in BOOLEAN, more \in More, p2 \in Step :
                Hash(ins, prehash, more, p2)
           \/ Sign(ins)
  BY DEF RingCommand
<1>1. UNCHANGED <<tx_in_progress, tx_stages, shown>>
  BY RingFramed DEF RingFrame
<1>2. CASE UNCHANGED signatures
  <2>1. Same
    BY <1>1, <1>2 DEF Same, Sealed
  <2> QED BY <2>1, SameIsPromised
<1>3. CASE /\ Sign(ins) /\ Real
           /\ signatures' = Append(signatures, [alpha |-> tx_sign_cnt, c |-> c])
  <2> DEFINE new == [alpha |-> tx_sign_cnt, c |-> c]
  <2>1. tx_in_progress /\ Sealed /\ Unsigned
    BY <1>3 DEF Sign, RingStep, monero_tx_stages_check, Sealed, Unsigned, In, After
  <2>2. StageReached = "sealed" /\ StageReached' = "sealed" /\ ToldOfIt' = ToldOfIt
    BY <1>1, <2>1 DEF StageReached, ToldOfIt, Sealed
  <2>3. PICK S : signatures \in Seq(S)
    BY DEF NonceInv
  <2>4. signatures \in Seq(S \cup {new}) /\ new \in S \cup {new}
    BY <2>3, SeqMonotone
  <2>5. Len(signatures') = Len(signatures) + 1 /\ signatures'[Len(signatures')] = new
    BY <1>3, <2>4
  <2>6. \A i \in 1..Len(signatures) : signatures'[i] = signatures[i]
    BY <1>3, <2>4
  <2>7. \A i \in 1..Len(signatures) : signatures[i].alpha # tx_sign_cnt
    <3>1. tx_sign_cnt \in Nat /\ DOMAIN signatures = 1..Len(signatures)
      BY <2>4 DEF NonceInv, CountOK
    <3>2. \A i \in DOMAIN signatures :
            signatures[i].alpha \in Nat /\ signatures[i].alpha < tx_sign_cnt
      BY <2>1 DEF NonceInv
    <3> QED BY <3>1, <3>2
  <2>8. Signer!Sign
    BY <2>2, <2>5, <2>6, <2>7 DEF Signer!Sign
  <2> QED BY <2>8 DEF Promised, Signer!Next
<1>4. CASE Prepare(ins)
  BY <1>2, <1>4 DEF Prepare
<1>5. CASE \E prehash \in BOOLEAN, more \in More, p2 \in Step :
             Hash(ins, prehash, more, p2)
  BY <1>2, <1>5 DEF Hash
<1>6. CASE Sign(ins)
  BY <1>2, <1>3, <1>6 DEF Sign
<1> QED BY <1>4, <1>5, <1>6

\* The user accepts something of a transaction that is not sealed, or of one that
\* is no longer in progress.
LEMMA AcceptIsPromised == ASSUME Quiet, Accept PROVE Promised
<1>1. UNCHANGED <<tx_in_progress, signatures>>
  BY DEF Accept, ring
<1>2. CASE ~tx_in_progress
  <2>1. StageReached' = StageReached /\ ToldOfIt' = ToldOfIt
    BY <1>1, <1>2 DEF StageReached, ToldOfIt
  <2> QED BY <1>1, <2>1 DEF Promised, Signer!promise
<1>3. CASE tx_in_progress
  <2>1. ~Sealed
    BY <1>3 DEF Accept, Quiet
  <2>2. /\ "PREHASH_FINALIZED" \in tx_stages' <=> "PREHASH_FINALIZED" \in tx_stages
        /\ "USER_APPROVED" \in tx_stages => "USER_APPROVED" \in tx_stages'
    BY DEF Accept
  <2>3. /\ StageReached \in {"open", "approved"}
        /\ StageReached' \in {StageReached, "approved"}
    BY <1>1, <1>3, <2>1, <2>2 DEF StageReached, Sealed
  <2>4. Signer!Tell
    BY <1>1, <2>3 DEF Signer!Tell
  <2> QED BY <2>4 DEF Promised, Signer!Next
<1> QED BY <1>2, <1>3

\* Every step.
LEMMA StepIsPromised == ASSUME Quiet, NonceInv, [Next]_vars PROVE Promised
<1>1. CASE BuildCommand
  BY <1>1, BuildIsPromised
<1>2. CASE ValidateCommand
  BY <1>2, ValidateIsPromised
<1>3. CASE RingCommand
  BY <1>3, RingIsPromised
<1>4. CASE Accept
  BY <1>4, AcceptIsPromised
<1>5. CASE Reject
  <2>1. ~tx_in_progress' /\ UNCHANGED signatures
    BY <1>5 DEF Reject, monero_reset_tx, KeptByReset
  <2> QED BY <2>1, ResetIsPromised
<1>6. CASE Reinit \/ Kill
  <2>1. ~tx_in_progress' /\ signatures' = <<>>
    BY <1>6 DEF Reinit, Kill, Bzero
  <2> QED BY <2>1, ResetIsPromised
<1>7. CASE UNCHANGED <<txState, shown>>
  <2>1. Same
    BY <1>7 DEF txState, ring, Same, Sealed
  <2> QED BY <2>1, SameIsPromised
<1>8. CASE ReadOnlyCommand \/ (\E what \in {"viewKey", "address"} : AskOther(what))
           \/ AnswerOther \/ Boot \/ UNCHANGED vars
  BY <1>7, <1>8 DEF ReadOnlyCommand, AskOther, AnswerOther, Boot, vars
<1> QED BY <1>1, <1>2, <1>3, <1>4, <1>5, <1>6, <1>8 DEF Next, User

-----------------------------------------------------------------------------
\* monero_dispatch.c, the stages of monero_types.h, the review and the ring
\* signatures, together: on either kind of screen, even when a review overflows,
\* what is signed was approved, what was approved stands still under the seal,
\* and every signature has a nonce of its own.
THEOREM SignerKeepsPromise == Spec => KeepsPromise
<1>1. Init => Signer!Init
  BY DEF Init, Signer!Init, StageReached, ToldOfIt
<1>2. Spec => [](SealInv /\ Quiet)
  <2>1. Init => SealInv /\ Quiet
    BY DEF Init, SealInv, StagesOK, SealIsWhole, Quiet
  <2>2. SealInv /\ Quiet /\ [Next]_vars => (SealInv /\ Quiet)'
    BY SealStep, QuietStep
  <2> QED BY <2>1, <2>2, PTL DEF Spec
<1>3. Quiet /\ NonceInv /\ [Next]_vars => [Signer!Next]_Signer!promise
  BY StepIsPromised DEF Promised
<1> QED BY <1>1, <1>2, <1>3, NonceAlways, PTL DEF Spec, KeepsPromise, Signer!Spec

-----------------------------------------------------------------------------
(***************************************************************************)
(* What a signature covers is what the user approved, for either kind of   *)
(* screen: the outputs, their order and amounts, the destinations, the     *)
(* fee, the lock and the payment ID.                                       *)
(*                                                                         *)
(* The argument follows the transaction.  What the user was told or is     *)
(* being asked grows by one item per command (Told); every list the device *)
(* keeps meanwhile (outkeys, commitment, the hash) is tied to it item by   *)
(* item; and what was closed or sealed stays as it was.                    *)
(***************************************************************************)

(* The invariant. *)

\* A real transaction in progress.
Live      == tx_in_progress /\ Real
\* A question about it is on screen.
Asking    == review # <<>> /\ review[1].what = "tx"
Finalized == "PREFIX_FINALIZED" \in tx_stages
Closed    == "OUTPUTS_REVIEWED" \in tx_stages
Approved  == "USER_APPROVED" \in tx_stages

\* Before the prefix, and since the output set was fixed.
Building == tx_state.ins \in {"OPEN_TX", "STEALTH", "GEN_TXOUT_KEYS"}
Signing  == tx_state.ins \in {"MLSAG", "CLSAG"}
Fixed    == tx_state.ins = "VALIDATE" \/ Signing

\* What the user was told or is being asked.  A touch device queues it first.
Told ==
  IF Touch THEN IF Approved THEN shown ELSE rows
           ELSE IF Asking THEN Add(shown, review[1].item) ELSE shown

OutItem == [kind : {"out"}, out : Output, amt : Amount, pid : BOOLEAN]
Shape(items) == items = [kind \in Items |-> items[kind]]
\* The items of a review are sequences, by kind.
ItemsOK(items) ==
  /\ Shape(items)
  /\ items.timelock \in Seq({Timelock})
  /\ items.fee \in Seq([kind : {"fee"}, amt : Amount])
  /\ items.out \in Seq(OutItem)
  /\ items.address \in Seq([kind : {"address"}, out : Output])

\* Which questions there are, and where in its commands the transaction is.
AskedInv ==
  /\ tx_state.ins = "VALIDATE" => tx_state.p1 \in 1..3 /\ tx_state.p2 \in Nat \ {0}
  /\ Approved => Closed
  /\ Closed => Fixed /\ ~(tx_state.ins = "VALIDATE" /\ tx_state.p1 = 1)
  /\ ItemsOK(shown)
  /\ Building => shown = NoItems /\ ~Asking /\ tx_stages = {}
  /\ Asking /\ Touch => Closed /\ ~Approved
  /\ Signing \/ tx_state.p1 = 3 => ~Asking

\* An output that was shown: change is the wallet's own, and a destination is the
\* one the payment ID was made for.
Sound(item) ==
  IF item.out.chg
  THEN ~item.pid /\ (item.amt # 0 => item.out.to \in Own)
  ELSE /\ item.pid <=> tx_payment_id # <<>> /\ ~tx_payment_id[1].dummy
       /\ tx_payment_id # <<>> => tx_payment_id[1].to = item.out.to

ToldInv ==
  /\ ItemsOK(Told)
  /\ ~Fixed => Told.fee = <<>> /\ Told.out = <<>>
  /\ \A i \in 1..Len(Told.out) :
       /\ Sound(Told.out[i])
       /\ Touch /\ ~Told.out[i].out.chg =>
            \E j \in 1..Len(Told.address) : Told.address[j] = Address(Told.out[i].out)

\* The outputs the device derived, and their keys on chain.
Derived == IF Fixed THEN OUTK ELSE outkeys
KeysOf(keys, outs) ==
  Len(keys) = Len(outs) /\ \A i \in 1..Len(outs) : keys[i] = Key(outs[i])
DerivedInv ==
  /\ Derived \in Seq(Output)
  /\ IF Building THEN out_eph \in Seq(EphKey) /\ KeysOf(out_eph, outkeys)
                 ELSE OUT_EPH \in Seq(EphKey) /\ KeysOf(OUT_EPH, Derived)

Piece == [kind : {"chunk"}, outs : Seq(EphKey),
          nonce : {<<>>} \cup {<<p>> : p \in PaymentId}, end : BOOLEAN]
PrefixItem == Piece \cup {Final} \cup {Header(lock) : lock \in BOOLEAN}

\* A prefix begins with its lock, which the user was told of if it is set, and only then.
Headed(prefix) ==
  /\ prefix \in Seq(PrefixItem) /\ Len(prefix) >= 1
  /\ prefix[1].kind = "header"
  /\ prefix[1].lock <=> Told.timelock # <<>>
\* It was parsed to the end and carries what the device derived.
Parsed(prefix) ==
  /\ Ends(prefix) # {}
  /\ Carries(prefix, EndOf(prefix), OUT_EPH)
  /\ prefix[EndOf(prefix)].nonce = tx_payment_id

PrefixInv ==
  /\ Building => keccakH = <<>>
  /\ tx_state.ins = "PREFIX_HASH" =>
       /\ Headed(keccakH)
       /\ IF prefix_outkeys_done THEN Parsed(keccakH)
          ELSE /\ Ends(keccakH) = {}
               /\ out_eph \in Seq(EphKey)
               /\ Carries(keccakH, Len(keccakH), out_eph)
  /\ Finalized => Headed(prefixH) /\ Parsed(prefixH)

\* The outputs told are those streamed, and the first of them those derived.
Outputs(told, outs) ==
  \A i \in 1..Len(outs) : told[i].out = outs[i]
Amounts(told, commitments) ==
  \A i \in 1..Len(commitments) : commitments[i] = Commit(told[i].out, told[i].amt)

OutputsInv ==
  /\ tx_state.ins = "VALIDATE" /\ ~Closed /\ tx_state.p1 # 3 =>
       /\ outkeys \in Seq(Output) /\ Len(outkeys) = Len(Told.out)
       /\ commitment \in Seq(Commitment) /\ Len(commitment) = Len(Told.out)
       /\ tx_state.p1 = 1 => Told.out = <<>>
       /\ Outputs(Told.out, outkeys)
       /\ Amounts(Told.out, commitment)
  /\ Closed =>
       /\ outkeys \in Seq(Output \cup {Final}) /\ Len(outkeys) > Len(OUTK)
       /\ C \in Seq(Commitment) /\ Len(C) = Len(OUTK) /\ Len(OUTK) <= Len(Told.out)
       /\ Outputs(Told.out, OUTK)
       /\ Amounts(Told.out, C)
       /\ Approved => Len(OUTK) <= Len(shown.out)

BodyItem == {Fee(amt) : amt \in Amount} \cup {PseudoOut}
            \cup {EcdhInfo(k) : k \in Commitment} \cup {OutPk(k) : k \in Commitment}

\* The hash before the output set is closed: the fee, p pseudo-outs, and the
\* encrypted amounts of what was streamed.
OpenBody(body, p, streamed) ==
  /\ Len(body) = 1 + p + Len(streamed)
  /\ \A i \in 1..p : body[1 + i] = PseudoOut
  /\ \A i \in 1..Len(streamed) : body[1 + p + i] = EcdhInfo(streamed[i])
\* After it: those of the reviewed outputs, extra more, and then the commitments.
\* What is in the chain are the commitments of the extra and the ones that follow.
ClosedBody(body, p, extra, reviewed, chain) ==
  /\ Len(body) = 1 + p + Len(reviewed) + Len(chain)
  /\ \A i \in 1..p : body[1 + i] = PseudoOut
  /\ \A i \in 1..Len(reviewed) + extra : body[1 + p + i].kind = "ecdhInfo"
  /\ \A i \in 1..Len(reviewed) : body[1 + p + i].of = reviewed[i]
  /\ \A i \in extra + 1..Len(chain) : body[1 + p + Len(reviewed) + i] = OutPk(chain[i])

BodyInv ==
  tx_state.ins = "VALIDATE" /\ ~Sealed =>
    /\ keccakH \in Seq(BodyItem) /\ Len(keccakH) >= 1
    /\ Told.fee = <<keccakH[1]>>
    /\ ~Closed /\ tx_state.p1 # 3 => \E p \in Nat : OpenBody(keccakH, p, commitment)
    /\ Closed =>
         /\ commitment \in Seq(Commitment)
         /\ \E p \in Nat, extra \in 0..Len(commitment) :
              /\ ClosedBody(keccakH, p, extra, C, commitment)
              /\ tx_state.p1 # 3 => extra = Len(commitment)

\* The hash sealed is one that was built so.  It cannot be built again, for the chain
\* of commitments went past what was reviewed.
SealedInv ==
  Sealed =>
    /\ commitment \in Seq(Commitment \cup {Final}) /\ Len(commitment) > Len(C)
    /\ mlsagH = <<mlsagH[1]>>
    /\ Headed(mlsagH[1].message) /\ Parsed(mlsagH[1].message)
    /\ Told.fee = <<mlsagH[1].body[1]>>
    /\ \E p \in Nat, extra \in 0..Len(C) : ClosedBody(mlsagH[1].body, p, extra, C, C)

ReviewInv ==
  Live => /\ AskedInv /\ (~Building => ToldInv) /\ DerivedInv /\ PrefixInv
          /\ OutputsInv /\ BodyInv /\ SealedInv

-----------------------------------------------------------------------------
(* Prefixes. *)

\* A set of naturals has a least element.
LEMMA Least ==
  ASSUME NEW S \in SUBSET Nat, S # {}
  PROVE  \E i \in S : \A j \in S : i <= j
<1> DEFINE R == OpToRel(<, Nat)
<1>1. IsWellFoundedOn(R, Nat)
  BY NatLessThanWellFounded
<1> HIDE DEF R
<1>2. PICK i \in S : \A j \in S : <<j, i>> \notin R
  BY <1>1, WFMin
<1>3. \A j \in S : ~(j < i)
  BY <1>2 DEF R, OpToRel
<1> QED BY <1>3

\* The end of a prefix, if it has one, is the first of its ends.
LEMMA EndIsFirst ==
  ASSUME NEW s \in Seq(PrefixItem), Ends(s) # {}
  PROVE  /\ EndOf(s) \in Ends(s) /\ EndOf(s) \in 1..Len(s)
         /\ \A j \in Ends(s) : EndOf(s) <= j
<1>1. Ends(s) \subseteq 1..Len(s) /\ Len(s) \in Nat
  BY DEF Ends
<1>2. Ends(s) \subseteq Nat
  BY <1>1
<1>3. PICK i \in Ends(s) : \A j \in Ends(s) : i <= j
  BY <1>2, Least
<1> QED BY <1>1, <1>3 DEF EndOf

\* What is appended comes after everything else, and may be an end itself.
LEMMA EndsAppended ==
  ASSUME NEW s \in Seq(PrefixItem), NEW x \in PrefixItem
  PROVE  Ends(Append(s, x)) =
           Ends(s) \cup IF x.kind = "chunk" /\ x.end THEN {Len(s) + 1} ELSE {}
<1>1. /\ Len(Append(s, x)) = Len(s) + 1 /\ Len(s) \in Nat
      /\ Append(s, x)[Len(s) + 1] = x
      /\ \A i \in 1..Len(s) : Append(s, x)[i] = s[i]
      /\ DOMAIN Append(s, x) = 1..Len(s) + 1 /\ DOMAIN s = 1..Len(s)
  OBVIOUS
<1>2. 1..Len(s) + 1 = 1..Len(s) \cup {Len(s) + 1}
  BY <1>1
<1> QED BY <1>1, <1>2 DEF Ends

\* A prefix that goes on after its end carries what it carried.
LEMMA ParsedOn ==
  ASSUME NEW s \in Seq(PrefixItem), Parsed(s), NEW x \in PrefixItem
  PROVE  Parsed(Append(s, x))
<1> DEFINE t == Append(s, x)
<1>1. /\ EndOf(s) \in Ends(s) /\ EndOf(s) \in 1..Len(s)
      /\ \A j \in Ends(s) : EndOf(s) <= j
  BY EndIsFirst DEF Parsed
<1>2. /\ t \in Seq(PrefixItem) /\ Len(s) \in Nat
      /\ \A i \in 1..Len(s) : t[i] = s[i]
  OBVIOUS
<1>3. Ends(t) = Ends(s) \/ Ends(t) = Ends(s) \cup {Len(s) + 1}
  BY EndsAppended
<1>4. Ends(t) # {} /\ EndOf(s) \in Ends(t) /\ \A j \in Ends(t) : EndOf(s) <= j
  BY <1>1, <1>2, <1>3
<1>5. EndOf(t) \in Ends(t) /\ \A j \in Ends(t) : EndOf(t) <= j
  BY <1>2, <1>4, EndIsFirst
<1>6. EndOf(t) \in Nat /\ EndOf(s) \in Nat
  <2>1. EndOf(t) \in 1..Len(t)
    BY <1>2, <1>4, EndIsFirst
  <2> QED BY <1>1, <2>1
<1>7. EndOf(t) = EndOf(s)
  BY <1>4, <1>5, <1>6
<1>8. \A i \in 1..EndOf(s) : t[i] = s[i]
  BY <1>1, <1>2
<1>9. Carries(t, EndOf(s), OUT_EPH)
  <2> DEFINE e == EndOf(s)
  <2>1. Carries(s, e, OUT_EPH) /\ \A i \in 1..e : t[i] = s[i]
    BY <1>8 DEF Parsed
  <2> HIDE DEF e, t
  <2>2. PICK cut \in [0..e -> 0..Len(OUT_EPH)] :
          /\ cut[0] = 0 /\ cut[e] = Len(OUT_EPH)
          /\ \A i \in 1..e : /\ Len(Outs(s[i])) = cut[i] - cut[i - 1]
                             /\ \A j \in 1..Len(Outs(s[i])) :
                                  Outs(s[i])[j] = OUT_EPH[cut[i - 1] + j]
    BY <2>1 DEF Carries
  <2>3. \A i \in 1..e : /\ Len(Outs(t[i])) = cut[i] - cut[i - 1]
                        /\ \A j \in 1..Len(Outs(t[i])) :
                             Outs(t[i])[j] = OUT_EPH[cut[i - 1] + j]
    BY <2>1, <2>2
  <2>4. Carries(t, e, OUT_EPH)
    BY <2>2, <2>3 DEF Carries
  <2> QED BY <2>4 DEF e, t
<1>10. t[EndOf(s)].nonce = tx_payment_id
  BY <1>1, <1>2 DEF Parsed
<1> QED BY <1>4, <1>7, <1>9, <1>10 DEF Parsed

\* One more piece carries its own keys after those of the pieces before.
LEMMA CarriesMore ==
  ASSUME NEW s \in Seq(PrefixItem), NEW keys \in Seq(EphKey), NEW x \in Piece,
         Carries(s, Len(s), keys)
  PROVE  Carries(Append(s, x), Len(s) + 1, keys \o x.outs)
<1> DEFINE n == Len(s)
           t == Append(s, x)
           all == keys \o x.outs
<1>1. PICK cut \in [0..n -> 0..Len(keys)] :
        /\ cut[0] = 0 /\ cut[n] = Len(keys)
        /\ \A i \in 1..n : /\ Len(Outs(s[i])) = cut[i] - cut[i - 1]
                           /\ \A j \in 1..Len(Outs(s[i])) :
                                Outs(s[i])[j] = keys[cut[i - 1] + j]
  BY DEF Carries
<1>2. /\ n \in Nat /\ t[n + 1] = x /\ \A i \in 1..n : t[i] = s[i]
  OBVIOUS
<1>3. x.outs \in Seq(EphKey) /\ x.kind = "chunk" /\ Outs(x) = x.outs
  BY DEF Piece, Outs
<1>4. /\ Len(keys) \in Nat /\ Len(x.outs) \in Nat
      /\ Len(all) = Len(keys) + Len(x.outs)
      /\ \A j \in 1..Len(keys) : all[j] = keys[j]
      /\ \A j \in 1..Len(x.outs) : all[Len(keys) + j] = x.outs[j]
  BY <1>3
<1> DEFINE next == [i \in 0..n + 1 |-> IF i = n + 1 THEN Len(all) ELSE cut[i]]
<1>5. next \in [0..n + 1 -> 0..Len(all)]
  BY <1>2, <1>4
<1>6. next[0] = 0 /\ next[n + 1] = Len(all) /\ \A i \in 0..n : next[i] = cut[i]
  BY <1>1, <1>2
<1>7. ASSUME NEW i \in 1..n + 1
      PROVE  /\ Len(Outs(t[i])) = next[i] - next[i - 1]
             /\ \A j \in 1..Len(Outs(t[i])) : Outs(t[i])[j] = all[next[i - 1] + j]
  <2>1. CASE i = n + 1
    <3>1. Outs(t[i]) = x.outs /\ next[i] = Len(all) /\ next[i - 1] = Len(keys)
      BY <1>1, <1>2, <1>3, <1>6, <2>1
    <3>2. Len(Outs(t[i])) = next[i] - next[i - 1]
      BY <1>4, <3>1
    <3>3. \A j \in 1..Len(Outs(t[i])) : Outs(t[i])[j] = all[next[i - 1] + j]
      BY <1>4, <3>1
    <3> QED BY <3>2, <3>3
  <2>2. CASE i \in 1..n
    <3>1. /\ t[i] = s[i] /\ i - 1 \in 0..n /\ i \in 0..n
          /\ next[i] = cut[i] /\ next[i - 1] = cut[i - 1]
      BY <1>2, <1>6, <2>2
    <3>2. /\ cut[i] \in 0..Len(keys) /\ cut[i - 1] \in 0..Len(keys)
          /\ Len(Outs(s[i])) = cut[i] - cut[i - 1]
      BY <1>1, <2>2, <3>1
    <3>3. ASSUME NEW j \in 1..Len(Outs(s[i]))
          PROVE  Outs(s[i])[j] = all[cut[i - 1] + j]
      <4>1. cut[i - 1] + j \in 1..Len(keys)
        BY <1>4, <3>2
      <4> QED BY <1>1, <1>4, <2>2, <4>1
    <3> QED BY <3>1, <3>2, <3>3
  <2>3. i = n + 1 \/ i \in 1..n
    BY <1>2
  <2> QED BY <2>1, <2>2, <2>3
<1> HIDE DEF next
<1> QED BY <1>5, <1>6, <1>7 DEF Carries

-----------------------------------------------------------------------------
(* Items. *)

\* Of the four lists one grows.
LEMMA AddShape ==
  ASSUME NEW items, Shape(items), NEW x, x.kind \in Items, NEW next, next = Add(items, x)
  PROVE  /\ Shape(next)
         /\ next.timelock =
              IF x.kind = "timelock" THEN Append(items.timelock, x) ELSE items.timelock
         /\ next.fee =
              IF x.kind = "fee" THEN Append(items.fee, x) ELSE items.fee
         /\ next.out =
              IF x.kind = "out" THEN Append(items.out, x) ELSE items.out
         /\ next.address =
              IF x.kind = "address" THEN Append(items.address, x) ELSE items.address
<1>1. \A k \in Items : next[k] = IF x.kind = k THEN Append(items[k], x) ELSE items[k]
  BY DEF Add, Shape
<1>2. Shape(next)
  BY DEF Add, Shape
<1>3. "timelock" \in Items /\ "fee" \in Items /\ "out" \in Items /\ "address" \in Items
  BY DEF Items
<1> QED BY <1>1, <1>2, <1>3

\* A fresh list of items is empty throughout.
LEMMA NothingTold ==
  /\ ItemsOK(NoItems) /\ NoItems.timelock = <<>> /\ NoItems.fee = <<>>
  /\ NoItems.out = <<>> /\ NoItems.address = <<>>
BY DEF ItemsOK, Shape, NoItems, Items

\* The timelock is added to the timelocks,
LEMMA TimelockAdded ==
  ASSUME NEW items, ItemsOK(items), NEW next, next = Add(items, Timelock)
  PROVE  /\ ItemsOK(next) /\ next.timelock = Append(items.timelock, Timelock)
         /\ next.fee = items.fee /\ next.out = items.out
         /\ next.address = items.address
<1> DEFINE x == Timelock
<1>1. x.kind = "timelock" /\ x \in {Timelock}
  BY DEF Timelock
<1>2. Shape(items) /\ x.kind \in Items /\ next = Add(items, x)
  BY <1>1 DEF ItemsOK, Items
<1> HIDE DEF x
<1>3. next.timelock =
        IF x.kind = "timelock" THEN Append(items.timelock, x) ELSE items.timelock
  BY <1>2, AddShape
<1>4. next.timelock = Append(items.timelock, x)
  BY <1>1, <1>3
<1>5. Shape(next)
  BY <1>2, AddShape
<1>6. next.fee = items.fee /\ next.out = items.out
      /\ next.address = items.address
  BY <1>1, <1>2, AddShape
<1>7. Append(items.timelock, x) \in Seq({Timelock})
  BY <1>1 DEF ItemsOK
<1>8. ItemsOK(next)
  BY <1>4, <1>5, <1>6, <1>7 DEF ItemsOK
<1> QED BY <1>4, <1>6, <1>8 DEF x

\* a fee to the fees,
LEMMA FeeAdded ==
  ASSUME NEW items, ItemsOK(items), NEW amt \in Amount,
         NEW next, next = Add(items, Fee(amt))
  PROVE  /\ ItemsOK(next) /\ next.fee = Append(items.fee, Fee(amt))
         /\ next.timelock = items.timelock /\ next.out = items.out
         /\ next.address = items.address
<1> DEFINE x == Fee(amt)
<1>1. x.kind = "fee" /\ x \in [kind : {"fee"}, amt : Amount]
  BY DEF Fee
<1>2. Shape(items) /\ x.kind \in Items /\ next = Add(items, x)
  BY <1>1 DEF ItemsOK, Items
<1> HIDE DEF x
<1>3. next.fee =
        IF x.kind = "fee" THEN Append(items.fee, x) ELSE items.fee
  BY <1>2, AddShape
<1>4. next.fee = Append(items.fee, x)
  BY <1>1, <1>3
<1>5. Shape(next)
  BY <1>2, AddShape
<1>6. next.timelock = items.timelock /\ next.out = items.out
      /\ next.address = items.address
  BY <1>1, <1>2, AddShape
<1>7. Append(items.fee, x) \in Seq([kind : {"fee"}, amt : Amount])
  BY <1>1 DEF ItemsOK
<1>8. ItemsOK(next)
  BY <1>4, <1>5, <1>6, <1>7 DEF ItemsOK
<1> QED BY <1>4, <1>6, <1>8 DEF x

\* an output to the outputs,
LEMMA OutAdded ==
  ASSUME NEW items, ItemsOK(items), NEW item \in OutItem,
         NEW next, next = Add(items, item)
  PROVE  /\ ItemsOK(next) /\ next.out = Append(items.out, item)
         /\ next.timelock = items.timelock /\ next.fee = items.fee
         /\ next.address = items.address
<1> DEFINE x == item
<1>1. x.kind = "out" /\ x \in OutItem
  BY DEF OutItem
<1>2. Shape(items) /\ x.kind \in Items /\ next = Add(items, x)
  BY <1>1 DEF ItemsOK, Items
<1> HIDE DEF x
<1>3. next.out =
        IF x.kind = "out" THEN Append(items.out, x) ELSE items.out
  BY <1>2, AddShape
<1>4. next.out = Append(items.out, x)
  BY <1>1, <1>3
<1>5. Shape(next)
  BY <1>2, AddShape
<1>6. next.timelock = items.timelock /\ next.fee = items.fee
      /\ next.address = items.address
  BY <1>1, <1>2, AddShape
<1>7. Append(items.out, x) \in Seq(OutItem)
  BY <1>1 DEF ItemsOK
<1>8. ItemsOK(next)
  BY <1>4, <1>5, <1>6, <1>7 DEF ItemsOK
<1> QED BY <1>4, <1>6, <1>8 DEF x

\* and an address to the addresses.
LEMMA AddressAdded ==
  ASSUME NEW items, ItemsOK(items), NEW o \in Output,
         NEW next, next = Add(items, Address(o))
  PROVE  /\ ItemsOK(next) /\ next.address = Append(items.address, Address(o))
         /\ next.timelock = items.timelock /\ next.fee = items.fee
         /\ next.out = items.out
<1> DEFINE x == Address(o)
<1>1. x.kind = "address" /\ x \in [kind : {"address"}, out : Output]
  BY DEF Address
<1>2. Shape(items) /\ x.kind \in Items /\ next = Add(items, x)
  BY <1>1 DEF ItemsOK, Items
<1> HIDE DEF x
<1>3. next.address =
        IF x.kind = "address" THEN Append(items.address, x) ELSE items.address
  BY <1>2, AddShape
<1>4. next.address = Append(items.address, x)
  BY <1>1, <1>3
<1>5. Shape(next)
  BY <1>2, AddShape
<1>6. next.timelock = items.timelock /\ next.fee = items.fee
      /\ next.out = items.out
  BY <1>1, <1>2, AddShape
<1>7. Append(items.address, x) \in Seq([kind : {"address"}, out : Output])
  BY <1>1 DEF ItemsOK
<1>8. ItemsOK(next)
  BY <1>4, <1>5, <1>6, <1>7 DEF ItemsOK
<1> QED BY <1>4, <1>6, <1>8 DEF x

-----------------------------------------------------------------------------
(* The steps of a real transaction. *)

\* Nothing about the transaction happens, on or off the screen.
Idle ==
  /\ UNCHANGED <<txState, shown, rows>>
  /\ Asking' <=> Asking
  /\ Asking => review' = review

\* The commands of a real transaction, and no other ends or begins one.
Builds ==
  \/ \E pid \in PaymentId : Stealth(pid)
  \/ \E to \in Dest, chg \in BOOLEAN : GenTxoutKeys(to, chg)
Prefixes ==
  \/ \E lock \in Locks : PrefixHashInit(lock)
  \/ \E chunk \in Chunks, more \in More, p2 \in 1..MaxChunks :
       PrefixHashUpdate(chunk, more, p2)
Validates ==
  \/ \E amt \in Amount, more \in More : PrehashInitFee(amt, more)
  \/ \E more \in More, p2 \in Step : PrehashInit(more, p2)
  \/ \E o \in Output, amt \in Amount, more \in More, p2 \in Step :
       PrehashUpdate(o, amt, more, p2)
  \/ \E k \in Commitment, p2 \in Step : PrehashAccumulate(k, p2)
  \/ \E message \in {prefixH, <<[kind |-> "other"]>>}, p2 \in Step :
       PrehashFinalize(message, p2)
RealCommand ==
  Builds \/ Prefixes \/ GenCommitmentMask \/ Blind \/ Validates \/ RingCommand

\* A building command opens the transaction or is one of its own.
LEMMA BuildCases ==
  ASSUME BuildCommand, Live'
  PROVE  OpenTx \/ (Live /\ Listening /\ RealCommand)
<1> USE DEF Live, Real
<1>1. CASE \E mode \in HostModes : SetSignatureMode(mode)
  BY <1>1 DEF SetSignatureMode
<1>2. CASE CloseTx
  BY <1>2 DEF CloseTx, monero_reset_tx
<1>3. CASE Builds
  BY <1>3 DEF Builds, RealCommand, Stealth, GenTxoutKeys, Sync
<1>4. ASSUME NEW lock \in Locks, PrefixHashInit(lock)
      PROVE  Live /\ Listening /\ RealCommand
  <2>1. Listening
    BY <1>4 DEF PrefixHashInit, Announce, Sync, Ask
  <2> QED BY <1>4, <2>1 DEF Prefixes, RealCommand, PrefixHashInit
<1>5. ASSUME NEW chunk \in Chunks, NEW more \in More, NEW p2 \in 1..MaxChunks,
             PrefixHashUpdate(chunk, more, p2)
      PROVE  Live /\ Listening /\ RealCommand
  BY <1>5 DEF Prefixes, RealCommand, PrefixHashUpdate, Sync
<1>6. CASE GenCommitmentMask \/ Blind
  BY <1>6 DEF RealCommand, GenCommitmentMask, Blind, Sync
<1> QED BY <1>1, <1>2, <1>3, <1>4, <1>5, <1>6 DEF BuildCommand, Builds

\* So is one of INS_VALIDATE.
LEMMA ValidateCases ==
  ASSUME ValidateCommand, Live'
  PROVE  Live /\ Listening /\ RealCommand
<1> USE DEF Live, Real
<1>1. ASSUME NEW amt \in Amount, NEW more \in More, PrehashInitFee(amt, more)
      PROVE  Live /\ Listening /\ RealCommand
  BY <1>1 DEF PrehashInitFee, Ask, Validates, RealCommand
<1>2. ASSUME NEW more \in More, NEW p2 \in Step, PrehashInit(more, p2)
      PROVE  Live /\ Listening /\ RealCommand
  BY <1>2 DEF PrehashInit, Sync, Validates, RealCommand
<1>3. ASSUME NEW o \in Output, NEW amt \in Amount, NEW more \in More, NEW p2 \in Step,
             PrehashUpdate(o, amt, more, p2)
      PROVE  Live /\ Listening /\ RealCommand
  <2>1. Validates
    BY <1>3 DEF Validates
  <2> QED BY <1>3, <2>1 DEF PrehashUpdate, Ask, RealCommand
<1>4. ASSUME NEW o \in Output, NEW amt \in Amount, NEW more \in More, NEW p2 \in Step,
             PrehashUpdateOverflow(o, amt, more, p2)
      PROVE  FALSE
  BY <1>4 DEF PrehashUpdateOverflow, monero_reset_tx
<1>5. ASSUME NEW o \in Output, NEW amt \in Amount, NEW p2 \in Step,
             PrehashUpdateFake(o, amt, p2)
      PROVE  FALSE
  BY <1>5 DEF PrehashUpdateFake
<1>6. ASSUME NEW k \in Commitment, NEW p2 \in Step, PrehashAccumulate(k, p2)
      PROVE  Live /\ Listening /\ RealCommand
  BY <1>6 DEF PrehashAccumulate, Sync, Validates, RealCommand
<1>7. ASSUME NEW message \in {prefixH, <<[kind |-> "other"]>>}, NEW p2 \in Step,
             PrehashFinalize(message, p2)
      PROVE  Live /\ Listening /\ RealCommand
  BY <1>7 DEF PrehashFinalize, Sync, Validates, RealCommand
<1> QED BY <1>1, <1>2, <1>3, <1>4, <1>5, <1>6, <1>7 DEF ValidateCommand

\* A real transaction is in progress after a step that opened it, that left it
\* alone, in which the user accepted something, or that was a command taken while
\* nothing was on screen.
LEMMA StepCases ==
  ASSUME Quiet, [Next]_vars, Live'
  PROVE  \/ OpenTx
         \/ Live /\ (Idle \/ Accept \/ (review = <<>> /\ RealCommand))
<1> USE DEF Live, Real
<1>1. Live /\ Listening => review = <<>>
  BY DEF Quiet, Listening
<1>2. CASE BuildCommand \/ ValidateCommand
  BY <1>1, <1>2, BuildCases, ValidateCases
<1>3. CASE RingCommand
  BY <1>1, <1>3, RingFramed DEF RingFrame, Sync, RealCommand
<1>4. CASE ReadOnlyCommand \/ Boot \/ UNCHANGED vars
  BY <1>4 DEF ReadOnlyCommand, Sync, Boot, vars, session, Idle, Asking, txState
<1>5. ASSUME NEW what \in {"viewKey", "address"}, AskOther(what)
      PROVE  Live /\ Idle
  <2>1. review' = <<Question(what, [kind |-> what], FALSE)>> /\ review = <<>>
    BY <1>1, <1>5 DEF AskOther, txState
  <2>2. ~Asking' /\ ~Asking
    BY <2>1 DEF Asking, Question
  <2> QED BY <1>5, <2>2 DEF AskOther, Idle, txState
<1>6. CASE AnswerOther
  BY <1>6 DEF AnswerOther, Answered, Idle, Asking, txState
<1>7. CASE Accept
  BY <1>7 DEF Accept
<1>8. CASE Reject \/ Reinit \/ Kill
  BY <1>8 DEF Reject, Reinit, Kill, Bzero, monero_reset_tx
<1> QED BY <1>2, <1>3, <1>4, <1>5, <1>6, <1>7, <1>8 DEF Next, User

-----------------------------------------------------------------------------
(* What the user is told, command by command. *)

\* Most commands tell nothing.
LEMMA ToldStill ==
  ASSUME review = <<>>, UNCHANGED <<review, rows, shown>>, Approved' <=> Approved
  PROVE  Told' = Told /\ ~Asking /\ ~Asking'
BY DEF Told, Asking

\* Those of a button device ask;
LEMMA ButtonAsks ==
  ASSUME ~Touch, NEW item, NEW last, NEW newRows, Ask(item, last, newRows),
         review = <<>>, UNCHANGED shown
  PROVE  Told' = Add(Told, item) /\ Asking'
<1>1. review' = <<Question("tx", item, last)>>
  BY DEF Ask
<1>2. review'[1].what = "tx" /\ review'[1].item = item /\ review' # <<>>
  BY <1>1 DEF Question
<1> QED BY <1>2 DEF Told, Asking

\* a touch device queues, and asks at the end.
LEMMA TouchQueues ==
  ASSUME Touch, NEW item, NEW last \in BOOLEAN, NEW newRows, Ask(item, last, newRows),
         review = <<>>, UNCHANGED shown, Approved' <=> Approved
  PROVE  /\ Told' = IF Approved THEN Told ELSE newRows
         /\ Asking' <=> last
<1>1. rows' = newRows
  BY DEF Ask
<1>2. CASE last
  <2>1. review' = <<Question("tx", item, last)>>
    BY <1>2 DEF Ask
  <2>2. review'[1].what = "tx" /\ review' # <<>>
    BY <2>1 DEF Question
  <2> QED BY <1>1, <1>2, <2>2 DEF Told, Asking
<1>3. CASE ~last
  BY <1>1, <1>3 DEF Ask, Told, Asking
<1> QED BY <1>2, <1>3

\* The prefix starts a review, with the timelock if there is one.
LEMMA AnnounceTells ==
  ASSUME NEW lock \in BOOLEAN, Announce(lock), review = <<>>, UNCHANGED shown,
         shown = NoItems, ~Approved, ~Approved'
  PROVE  /\ Told' = IF lock THEN Add(NoItems, Timelock) ELSE NoItems
         /\ Touch => ~Asking'
<1>1. Touch \in BOOLEAN
  BY ConstantsOK DEF ConstantsOK
<1>2. CASE ~lock
  BY <1>2 DEF Announce, Sync, Told, Asking
<1>3. CASE lock /\ Touch
  <2>1. Ask(Timelock, FALSE, Add(NoItems, Timelock))
    BY <1>3 DEF Announce
  <2> QED BY <1>3, <2>1, TouchQueues
<1>4. CASE lock /\ ~Touch
  <2>1. Ask(Timelock, FALSE, NoItems)
    BY <1>4 DEF Announce
  <2>2. Told' = Add(Told, Timelock) /\ Told = shown
    BY <1>4, <2>1, ButtonAsks DEF Told, Asking
  <2> QED BY <1>4, <2>2
<1> QED BY <1>1, <1>2, <1>3, <1>4

\* The fee is told next.
LEMMA FeeTells ==
  ASSUME NEW amt \in Amount, NEW more \in BOOLEAN, PrehashInitFee(amt, more),
         review = <<>>, ~Approved
  PROVE  /\ Told' = Add(Told, Fee(amt))
         /\ Touch => ~Asking'
<1>1. UNCHANGED <<shown, tx_stages>> /\ (Approved' <=> Approved)
  BY DEF PrehashInitFee, Approved
<1>2. CASE Touch
  <2>1. Ask(Fee(amt), FALSE, Add(rows, Fee(amt)))
    BY <1>2 DEF PrehashInitFee
  <2> QED BY <1>1, <1>2, <2>1, TouchQueues DEF Told
<1>3. CASE ~Touch
  <2>1. Ask(Fee(amt), FALSE, rows)
    BY <1>3 DEF PrehashInitFee
  <2> QED BY <1>1, <1>3, <2>1, ButtonAsks
<1> QED BY <1>2, <1>3

\* An output is told with its address, but nothing more once a touch review is
\* over.
LEMMA OutputTells ==
  ASSUME NEW o \in Output, NEW amt \in Amount, NEW more \in BOOLEAN, NEW p2 \in Step,
         PrehashUpdate(o, amt, more, p2), review = <<>>
  PROVE  LET item == OutputItem(o, amt) IN
         /\ Told' = IF ~Touch THEN Add(Told, item)
                    ELSE IF Approved THEN Told
                    ELSE IF o.chg THEN Add(Told, item)
                    ELSE Add(Add(Told, item), Address(o))
         /\ Touch => (Asking' <=> ~more)
         /\ Approved' <=> Approved
<1> DEFINE item == OutputItem(o, amt)
<1>1. UNCHANGED shown /\ (Approved' <=> Approved)
  BY DEF PrehashUpdate, Approved
<1>2. CASE Touch
  <2>1. Ask(item, ~more, OutputRows(o, amt))
    BY <1>2 DEF PrehashUpdate
  <2>2. (~more) \in BOOLEAN
    OBVIOUS
  <2>3. (Told' = IF Approved THEN Told ELSE OutputRows(o, amt)) /\ (Asking' <=> ~more)
    BY <1>1, <1>2, <2>1, <2>2, TouchQueues
  <2>4. HasAmountRow(rows) /\ (o.chg \/ HasAddressRow(add_amount(rows, item)))
    BY <1>2 DEF PrehashUpdate, Overflows
  <2>5. OutputRows(o, amt) = IF o.chg THEN Add(rows, item)
                                      ELSE Add(Add(rows, item), Address(o))
    BY <2>4 DEF OutputRows, add_amount, add_address
  <2>6. ~Approved => Told = rows
    BY <1>2 DEF Told
  <2> QED BY <1>1, <1>2, <2>3, <2>5, <2>6
<1>3. CASE ~Touch
  <2>1. Ask(item, ~more, rows)
    BY <1>3 DEF PrehashUpdate
  <2> QED BY <1>1, <1>3, <2>1, ButtonAsks
<1> QED BY <1>2, <1>3

\* Accepting it changes nothing of what was told.
LEMMA AcceptTells ==
  ASSUME Accept, AskedInv
  PROVE  /\ Told' = Told /\ shown' = Told /\ Asking /\ ~Asking'
         /\ Approved' <=> Approved \/ Closed
<1>1. Asking /\ ~Asking'
  BY DEF Accept, Answered, Asking
<1>2. Touch \in BOOLEAN
  BY ConstantsOK DEF ConstantsOK
<1>3. CASE Touch
  <2>1. shown' = rows /\ Approved' /\ ~Approved /\ Closed
    BY <1>1, <1>3 DEF Accept, AskedInv, Approved
  <2> QED BY <1>1, <1>3, <2>1 DEF Told
<1>4. CASE ~Touch
  <2>1. shown' = Add(shown, review[1].item)
    BY <1>4 DEF Accept
  <2>2. Approved' <=> Approved \/ Closed
    BY <1>4 DEF Accept, Approved, Closed
  <2> QED BY <1>1, <1>4, <2>1, <2>2 DEF Told
<1> QED BY <1>2, <1>3, <1>4

-----------------------------------------------------------------------------
(* Which questions there are: AskedInv. *)

\* The last output closes a set that is open.
LEMMA ClosesOnce ==
  ASSUME AskedInv, OutputsInv, NEW o \in Output, NEW amt \in Amount, NEW p2 \in Step,
         PrehashUpdate(o, amt, FALSE, p2)
  PROVE  ~Closed /\ ~Approved /\ Append(outkeys, o) = OUTK
<1>1. Append(outkeys, o) = OUTK
  BY DEF PrehashUpdate, Reviewable, ClosesOutkeys
<1>2. ASSUME Closed PROVE FALSE
  <2>1. outkeys \in Seq(Output \cup {Final}) /\ Len(outkeys) > Len(OUTK)
    BY <1>2 DEF OutputsInv
  <2>2. Len(Append(outkeys, o)) = Len(outkeys) + 1 /\ Len(outkeys) \in Nat
    BY <2>1
  <2> QED BY <1>1, <2>1, <2>2
<1> QED BY <1>1, <1>2 DEF AskedInv

\* Before INS_VALIDATE a question can only be about the timelock, on a button device.
LEMMA AskedBuilt ==
  ASSUME AskedInv, review = <<>>, Live,
         Builds \/ Prefixes \/ GenCommitmentMask \/ Blind
  PROVE  AskedInv'
<1> USE DEF AskedInv, Goto, At, After, In, Sync, Approved, Closed, Fixed, Building,
        Signing
<1>1. CASE Builds
  <2>1. /\ Building /\ UNCHANGED <<shown, review, tx_stages>>
        /\ tx_state' = At("STEALTH", 0, 0) \/ tx_state' = At("GEN_TXOUT_KEYS", 0, 0)
    BY <1>1 DEF Builds, Stealth, GenTxoutKeys
  <2>2. Building' /\ ~Asking' /\ ~Fixed' /\ tx_state'.p1 = 0
    BY <2>1 DEF Asking
  <2> QED BY <2>1, <2>2
<1>2. ASSUME NEW lock \in Locks, PrefixHashInit(lock)
      PROVE  AskedInv'
  <2>1. /\ Building /\ tx_state' = At("PREFIX_HASH", 1, 0) /\ UNCHANGED shown
        /\ tx_stages' \subseteq tx_stages
    BY <1>2 DEF PrefixHashInit
  <2>2. /\ tx_stages = {} /\ tx_stages' = {} /\ shown = NoItems
        /\ Announce(lock) /\ lock \in BOOLEAN
    BY <1>2, <2>1, ConstantsOK DEF ConstantsOK, PrefixHashInit, Live
  <2>3. Touch => ~Asking'
    BY <2>1, <2>2, AnnounceTells
  <2> QED BY <2>1, <2>2, <2>3
<1>3. ASSUME NEW chunk \in Chunks, NEW more \in More, NEW p2 \in 1..MaxChunks,
             PrefixHashUpdate(chunk, more, p2)
      PROVE  AskedInv'
  <2>1. /\ tx_state.ins = "PREFIX_HASH" /\ tx_state' = At("PREFIX_HASH", 2, p2)
        /\ tx_stages' \subseteq tx_stages \cup {"PREFIX_FINALIZED"}
        /\ UNCHANGED <<shown, review>>
    BY <1>3 DEF PrefixHashUpdate
  <2>2. ~Closed /\ ~Approved /\ ~Closed' /\ ~Approved'
    BY <2>1
  <2>3. ~Asking'
    BY <2>1 DEF Asking
  <2> QED BY <2>1, <2>2, <2>3
<1>4. CASE GenCommitmentMask \/ Blind
  <2>1. /\ tx_state.ins \in {"PREFIX_HASH", "GEN_COMMITMENT_MASK", "BLIND"}
        /\ \E ins \in {"GEN_COMMITMENT_MASK", "BLIND"} : tx_state' = At(ins, 0, 0)
        /\ UNCHANGED <<shown, review, tx_stages>>
    BY <1>4 DEF GenCommitmentMask, Blind
  <2> QED BY <2>1 DEF Asking
<1> QED BY <1>1, <1>2, <1>3, <1>4 DEF Prefixes

\* INS_VALIDATE comes after INS_BLIND, and its P1 from 1 to 3 one by one.
LEMMA ValidateTurns ==
  ASSUME AskedInv, NEW p1 \in 1..3, NEW p2 \in Nat \ {0}, ValidateStep(p1, p2)
  PROVE  /\ tx_state'.ins = "VALIDATE" /\ tx_state'.p1 = p1 /\ tx_state'.p2 = p2
         /\ p1 = 1 => \/ tx_state.ins = "BLIND" /\ p2 = 1
                      \/ tx_state.ins = "VALIDATE" /\ tx_state.p1 = 1 /\ p2 > 1
         /\ p1 = 2 => tx_state.ins = "VALIDATE" /\ tx_state.p1 \in {1, 2}
         /\ p1 = 3 => tx_state.ins = "VALIDATE" /\ tx_state.p1 \in {2, 3}
<1>1. p2 \in Nat \ {0}
  OBVIOUS
<1>2. \/ tx_state.ins = "BLIND" /\ p1 = 1 /\ p2 = 1
      \/ tx_state.ins = "VALIDATE" /\ tx_state.p1 = p1 /\ p2 = tx_state.p2 + 1
      \/ tx_state.ins = "VALIDATE" /\ tx_state.p1 = p1 - 1 /\ p2 = 1
  BY DEF ValidateStep, After, In
<1>3. tx_state' = At("VALIDATE", p1, p2)
  BY DEF ValidateStep, Goto
<1>4. tx_state.ins = "VALIDATE" => tx_state.p1 \in 1..3 /\ tx_state.p2 \in Nat \ {0}
  BY DEF AskedInv
<1>5. tx_state'.ins = "VALIDATE" /\ tx_state'.p1 = p1 /\ tx_state'.p2 = p2
  BY <1>3 DEF At
<1>6. CASE tx_state.ins = "BLIND" /\ p1 = 1 /\ p2 = 1
  BY <1>1, <1>5, <1>6
<1>7. CASE tx_state.ins = "VALIDATE" /\ tx_state.p1 = p1 /\ p2 = tx_state.p2 + 1
  BY <1>1, <1>4, <1>5, <1>7
<1>8. CASE tx_state.ins = "VALIDATE" /\ tx_state.p1 = p1 - 1 /\ p2 = 1
  BY <1>1, <1>4, <1>5, <1>8
<1> QED BY <1>2, <1>6, <1>7, <1>8

\* P2 of INS_VALIDATE counts from 1.
LEMMA StepPositive == ASSUME NEW p2 \in Step PROVE p2 \in Nat \ {0}
BY ConstantsOK DEF ConstantsOK, Step

\* INS_VALIDATE asks until its P1=3, and closes the output set once.
LEMMA AskedValidated ==
  ASSUME AskedInv, OutputsInv, review = <<>>, Live, Validates
  PROVE  AskedInv'
<1> USE DEF Approved, Closed, Fixed, Building, Signing
<1>1. ASSUME NEW amt \in Amount, NEW more \in More, PrehashInitFee(amt, more)
      PROVE  AskedInv'
  <2>1. ValidateStep(1, 1) /\ UNCHANGED <<shown, tx_stages>> /\ more \in BOOLEAN
    BY <1>1 DEF PrehashInitFee, More
  <2>2. tx_state'.ins = "VALIDATE" /\ tx_state'.p1 = 1 /\ tx_state'.p2 = 1
        /\ (tx_state.ins = "BLIND" \/ (tx_state.ins = "VALIDATE" /\ tx_state.p1 = 1))
    BY <2>1, ValidateTurns
  <2>3. ~Closed /\ ~Approved
    BY <2>2 DEF AskedInv
  <2>4. Touch => ~Asking'
    BY <1>1, <2>1, <2>3, FeeTells
  <2> QED BY <2>1, <2>2, <2>3, <2>4 DEF AskedInv
<1>2. ASSUME NEW more \in More, NEW p2 \in Step, PrehashInit(more, p2)
      PROVE  AskedInv'
  <2>1. ValidateStep(1, p2) /\ p2 > 1 /\ UNCHANGED <<shown, tx_stages, review>>
    BY <1>2 DEF PrehashInit, Live, Sync
  <2>2. p2 \in Nat \ {0}
    BY StepPositive
  <2>3. /\ tx_state'.ins = "VALIDATE" /\ tx_state'.p1 = 1 /\ tx_state'.p2 = p2
        /\ tx_state.ins = "VALIDATE" /\ tx_state.p1 = 1
    BY <2>1, <2>2, ValidateTurns
  <2> QED BY <2>1, <2>2, <2>3 DEF AskedInv, Asking
<1>3. ASSUME NEW o \in Output, NEW amt \in Amount, NEW more \in More, NEW p2 \in Step,
             PrehashUpdate(o, amt, more, p2)
      PROVE  AskedInv'
  <2>1. /\ ValidateStep(2, p2) /\ UNCHANGED shown /\ more \in BOOLEAN
        /\ tx_stages' = tx_stages \cup IF more THEN {} ELSE {"OUTPUTS_REVIEWED"}
    BY <1>3 DEF PrehashUpdate, More
  <2>2. p2 \in Nat \ {0}
    BY StepPositive
  <2>3. /\ tx_state'.ins = "VALIDATE" /\ tx_state'.p1 = 2 /\ tx_state'.p2 = p2
        /\ tx_state.ins = "VALIDATE" /\ tx_state.p1 \in {1, 2}
    BY <2>1, <2>2, ValidateTurns
  <2>4. (Touch => (Asking' <=> ~more)) /\ (Approved' <=> Approved)
    BY <1>3, <2>1, OutputTells
  <2>5. ~more => ~Approved /\ Closed'
    BY <1>3, <2>1, ClosesOnce
  <2>6. Closed => Closed'
    BY <2>1
  <2> QED BY <2>1, <2>2, <2>3, <2>4, <2>5, <2>6 DEF AskedInv
<1>4. ASSUME NEW p2 \in Step, ValidateStep(3, p2), UNCHANGED <<shown, review>>,
             UNCHANGED tx_stages \/ tx_stages' = tx_stages \cup {"PREHASH_FINALIZED"}
      PROVE  AskedInv'
  <2>1. p2 \in Nat \ {0}
    BY StepPositive
  <2>2. /\ tx_state'.ins = "VALIDATE" /\ tx_state'.p1 = 3 /\ tx_state'.p2 = p2
        /\ tx_state.ins = "VALIDATE" /\ tx_state.p1 \in {2, 3}
    BY <1>4, <2>1, ValidateTurns
  <2>3. ~Asking' /\ (Approved' <=> Approved) /\ (Closed' <=> Closed)
    BY <1>4 DEF Asking
  <2> QED BY <1>4, <2>1, <2>2, <2>3 DEF AskedInv
<1>5. CASE \E k \in Commitment, p2 \in Step : PrehashAccumulate(k, p2)
  BY <1>4, <1>5 DEF PrehashAccumulate, Sync
<1>6. CASE \E message \in {prefixH, <<[kind |-> "other"]>>}, p2 \in Step :
             PrehashFinalize(message, p2)
  BY <1>4, <1>6 DEF PrehashFinalize, Sync, Live
<1> QED BY <1>1, <1>2, <1>3, <1>5, <1>6 DEF Validates

\* The questions stay where they may be, command by command.
LEMMA AskedStep ==
  ASSUME AskedInv, OutputsInv, review = <<>>, Live, RealCommand
  PROVE  AskedInv'
<1>1. CASE RingCommand
  <2>1. RingFrame
    BY <1>1, RingFramed
  <2>2. UNCHANGED <<shown, review, tx_stages>> /\ tx_state'.ins \in {"MLSAG", "CLSAG"}
    BY <2>1 DEF RingFrame, Sync, Goto, At
  <2>3. ~Asking'
    BY <2>2 DEF Asking
  <2> QED BY <2>2, <2>3 DEF AskedInv, Approved, Closed, Fixed, Signing, Building
<1> QED BY <1>1, AskedBuilt, AskedValidated DEF RealCommand

-----------------------------------------------------------------------------
(* What the user was told: ToldInv. *)

\* The commands that tell the user nothing.
Silent ==
  \/ \E chunk \in Chunks, more \in More, p2 \in 1..MaxChunks :
       PrefixHashUpdate(chunk, more, p2)
  \/ GenCommitmentMask \/ Blind
  \/ \E more \in More, p2 \in Step : PrehashInit(more, p2)
  \/ \E k \in Commitment, p2 \in Step : PrehashAccumulate(k, p2)
  \/ \E message \in {prefixH, <<[kind |-> "other"]>>}, p2 \in Step :
       PrehashFinalize(message, p2)
  \/ RingCommand

\* They leave the screen and what is known of the outputs.
SilentFrame ==
  /\ UNCHANGED <<review, rows, shown, tx_payment_id, outkeys, OUTK, OUT_EPH, C>>
  /\ (Approved' <=> Approved) /\ (Closed' <=> Closed)
  /\ ~Building /\ ~Building' /\ (Fixed' <=> Fixed)

\* Every one of them does.
LEMMA SilentFramed == ASSUME AskedInv, Live, review = <<>>, Silent PROVE SilentFrame
<1> USE DEF SilentFrame, Sync, txInfo, outChains, sums, Approved, Closed, Building, Fixed,
        Signing, Goto, At, After, In
<1>1. CASE \E chunk \in Chunks, more \in More, p2 \in 1..MaxChunks :
             PrefixHashUpdate(chunk, more, p2)
  BY <1>1 DEF PrefixHashUpdate
<1>2. CASE GenCommitmentMask \/ Blind
  <2>1. CASE GenCommitmentMask
    BY <2>1 DEF GenCommitmentMask
  <2>2. CASE Blind
    <3>1. tx_state.ins \in {"GEN_COMMITMENT_MASK", "BLIND"}
      BY <2>2 DEF Blind, Live, Real
    <3> QED BY <2>2, <3>1 DEF Blind
  <2> QED BY <1>2, <2>1, <2>2
<1>3. ASSUME NEW more \in More, NEW p2 \in Step, PrehashInit(more, p2)
      PROVE  SilentFrame
  <2>1. p2 > 1 /\ p2 # 1 /\ ValidateStep(1, p2)
    BY <1>3, StepPositive DEF PrehashInit, Live
  <2>2. Fixed /\ Fixed' /\ ~Building /\ ~Building'
    BY <2>1 DEF ValidateStep
  <2> QED BY <1>3, <2>2 DEF PrehashInit
<1>4. ASSUME NEW k \in Commitment, NEW p2 \in Step, PrehashAccumulate(k, p2)
      PROVE  SilentFrame
  BY <1>4 DEF PrehashAccumulate, ValidateStep
<1>5. ASSUME NEW message \in {prefixH, <<[kind |-> "other"]>>}, NEW p2 \in Step,
             PrehashFinalize(message, p2)
      PROVE  SilentFrame
  BY <1>5 DEF PrehashFinalize, ValidateStep
<1>6. ASSUME NEW ins \in {"MLSAG", "CLSAG"}, NEW p1, NEW p2, RingStep(ins, p1, p2)
      PROVE  Fixed
  BY <1>6 DEF RingStep
<1>7. CASE RingCommand
  <2>1. RingFrame
    BY <1>7, RingFramed
  <2>2. PICK ins \in {"MLSAG", "CLSAG"} :
          \/ RingStep(ins, 1, 0) \/ RingStep(ins, 3, 0)
          \/ \E p2 \in Step : RingStep(ins, 2, p2)
    <3>1. PICK ins \in {"MLSAG", "CLSAG"} :
            \/ Prepare(ins) \/ Sign(ins)
            \/ \E prehash \in BOOLEAN, more \in More, p2 \in Step :
                 Hash(ins, prehash, more, p2)
      BY <1>7 DEF RingCommand
    <3>2. Prepare(ins) => RingStep(ins, 1, 0)
      BY DEF Prepare
    <3>3. Sign(ins) => RingStep(ins, 3, 0)
      BY DEF Sign
    <3>4. ASSUME NEW prehash \in BOOLEAN, NEW more \in More, NEW p2 \in Step,
                 Hash(ins, prehash, more, p2)
          PROVE  RingStep(ins, 2, p2)
      BY <3>4 DEF Hash
    <3> QED BY <3>1, <3>2, <3>3, <3>4
  <2>3. Fixed
    BY <1>6, <2>2
  <2> QED BY <2>1, <2>3 DEF RingFrame
<1> QED BY <1>1, <1>2, <1>3, <1>4, <1>5, <1>7 DEF Silent

\* A step is one of them or tells one item, unless outputs are still derived.
LEMMA CommandCases ==
  ASSUME RealCommand
  PROVE  \/ Builds \/ Silent
         \/ \E lock \in Locks : PrefixHashInit(lock)
         \/ \E amt \in Amount, more \in BOOLEAN : PrehashInitFee(amt, more)
         \/ \E o \in Output, amt \in Amount, more \in BOOLEAN, p2 \in Step :
              PrehashUpdate(o, amt, more, p2)
BY DEF RealCommand, Prefixes, Validates, Silent, More

\* What is not told anew is told still, with the payment ID it was told with.
LEMMA ToldKept ==
  ASSUME ToldInv, Told' = Told, UNCHANGED tx_payment_id, Fixed => Fixed'
  PROVE  ToldInv'
BY DEF ToldInv, Sound

\* An output that may be shown is a sound one.
LEMMA SoundOutput ==
  ASSUME OutputsOK, NEW o \in Output, NEW amt \in Amount, NEW more, Reviewable(o, amt, more)
  PROVE  OutputItem(o, amt) \in OutItem /\ Sound(OutputItem(o, amt))
<1>1. o.chg \in BOOLEAN
  BY DEF Output
<1>2. tx_payment_id # <<>> => tx_payment_id[1].dummy \in BOOLEAN
  BY DEF OutputsOK, PaymentId
<1>3. OutputItem(o, amt) \in OutItem
  BY DEF OutputItem, OutItem
<1>4. /\ OutputItem(o, amt).out = o /\ OutputItem(o, amt).amt = amt
      /\ OutputItem(o, amt).pid =
           (~o.chg /\ tx_payment_id # <<>> /\ ~tx_payment_id[1].dummy)
  BY DEF OutputItem
<1>5. Sound(OutputItem(o, amt))
  BY <1>1, <1>2, <1>4 DEF Sound, Reviewable, OwnChange
<1> QED BY <1>3, <1>5

\* One more output told, with its address.
LEMMA ToldOneMore ==
  ASSUME ToldInv, OutputsOK, UNCHANGED tx_payment_id, Fixed',
         NEW o \in Output, NEW amt \in Amount, NEW more, Reviewable(o, amt, more),
         Told' = IF Touch /\ ~o.chg THEN Add(Add(Told, OutputItem(o, amt)), Address(o))
                                    ELSE Add(Told, OutputItem(o, amt))
  PROVE  /\ ToldInv' /\ Told'.out = Append(Told.out, OutputItem(o, amt))
         /\ Told'.timelock = Told.timelock /\ Told'.fee = Told.fee
<1> DEFINE item == OutputItem(o, amt)
           mid  == Add(Told, item)
<1>1. item \in OutItem /\ Sound(item) /\ item.out = o
  BY SoundOutput DEF OutputItem
<1>2. ItemsOK(Told)
  BY DEF ToldInv
<1>3. /\ ItemsOK(mid) /\ mid.out = Append(Told.out, item)
      /\ mid.address = Told.address
      /\ mid.timelock = Told.timelock /\ mid.fee = Told.fee
  BY <1>1, <1>2, OutAdded
<1>4. /\ ItemsOK(Told') /\ Told'.out = Append(Told.out, item)
      /\ Told'.address = IF Touch /\ ~o.chg THEN Append(Told.address, Address(o))
                                            ELSE Told.address
      /\ Told'.timelock = Told.timelock /\ Told'.fee = Told.fee
  <2>1. CASE Touch /\ ~o.chg
    <3>1. Told' = Add(mid, Address(o))
      BY <2>1
    <3> HIDE DEF mid
    <3> QED BY <1>3, <2>1, <3>1, AddressAdded
  <2>2. CASE ~(Touch /\ ~o.chg)
    BY <1>3, <2>2
  <2> QED BY <2>1, <2>2
<1> HIDE DEF mid, item
<1>5. Told.out \in Seq(OutItem) /\ Told.address \in Seq([kind : {"address"}, out : Output])
  BY <1>2 DEF ItemsOK
<1>6. ASSUME NEW i \in 1..Len(Told'.out)
      PROVE  /\ Sound(Told'.out[i])
             /\ Touch /\ ~Told'.out[i].out.chg =>
                  \E j \in 1..Len(Told'.address) :
                    Told'.address[j] = Address(Told'.out[i].out)
  <2>1. CASE i = Len(Told.out) + 1
    <3>1. Told'.out[i] = item
      BY <1>4, <1>5, <2>1
    <3>2. Touch /\ ~o.chg =>
            /\ Len(Told'.address) = Len(Told.address) + 1
            /\ Told'.address[Len(Told.address) + 1] = Address(o)
            /\ Len(Told.address) \in Nat
      <4> SUFFICES ASSUME Touch /\ ~o.chg
                   PROVE  /\ Len(Told'.address) = Len(Told.address) + 1
                          /\ Told'.address[Len(Told.address) + 1] = Address(o)
                          /\ Len(Told.address) \in Nat
        OBVIOUS
      <4>1. Told'.address = Append(Told.address, Address(o))
        BY <1>4
      <4> QED BY <1>5, <4>1
    <3>3. Touch /\ ~o.chg => \E j \in 1..Len(Told'.address) : Told'.address[j] = Address(o)
      BY <3>2
    <3> QED BY <1>1, <3>1, <3>3
  <2>2. CASE i \in 1..Len(Told.out)
    <3>1. Told'.out[i] = Told.out[i]
      BY <1>1, <1>4, <1>5, <2>2
    <3>2. \A j \in 1..Len(Told.address) :
            j \in 1..Len(Told'.address) /\ Told'.address[j] = Told.address[j]
      <4>1. CASE Told'.address = Told.address
        BY <4>1
      <4>2. CASE Told'.address = Append(Told.address, Address(o))
        BY <1>5, <4>2
      <4> QED BY <1>4, <4>1, <4>2
    <3> QED BY <2>2, <3>1, <3>2 DEF ToldInv
  <2>3. i = Len(Told.out) + 1 \/ i \in 1..Len(Told.out)
    BY <1>1, <1>4, <1>5
  <2> QED BY <2>1, <2>2, <2>3
<1>7. \A x : Sound(x)' <=> Sound(x)
  BY DEF Sound
<1> QED BY <1>4, <1>6, <1>7 DEF ToldInv, item

\* The fee comes once, right after INS_BLIND, and fixes the outputs.
LEMMA FeeOnce ==
  ASSUME AskedInv, NEW amt, NEW more, PrehashInitFee(amt, more)
  PROVE  /\ tx_state.ins = "BLIND" /\ ~Fixed /\ ~Building /\ ~Closed /\ ~Approved
         /\ tx_state' = At("VALIDATE", 1, 1) /\ Fixed' /\ ~Building'
<1>1. ValidateStep(1, 1)
  BY DEF PrehashInitFee
<1>2. tx_state.ins = "BLIND"
  BY <1>1, ValidateTurns
<1>3. tx_state' = At("VALIDATE", 1, 1)
  BY <1>1 DEF ValidateStep, Goto
<1>4. ~Fixed /\ ~Building /\ Fixed' /\ ~Building'
  BY <1>2, <1>3 DEF Fixed, Signing, Building, At
<1> QED BY <1>2, <1>3, <1>4 DEF AskedInv

\* It is the only one told.
LEMMA ToldFee ==
  ASSUME AskedInv, ToldInv, review = <<>>,
         NEW amt \in Amount, NEW more \in BOOLEAN, PrehashInitFee(amt, more)
  PROVE  /\ ToldInv' /\ Told'.fee = <<Fee(amt)>> /\ Told'.out = <<>>
         /\ Told'.timelock = Told.timelock
<1>1. ~Approved /\ ~Fixed /\ Fixed'
  BY FeeOnce
<1>2. Told' = Add(Told, Fee(amt))
  BY <1>1, FeeTells
<1>3. Told.fee = <<>> /\ Told.out = <<>> /\ ItemsOK(Told)
  BY <1>1 DEF ToldInv
<1>4. /\ ItemsOK(Told') /\ Told'.out = <<>> /\ Told'.timelock = Told.timelock
      /\ Told'.fee = Append(Told.fee, Fee(amt))
  BY <1>2, <1>3, FeeAdded
<1>5. Told'.fee = <<Fee(amt)>>
  BY <1>3, <1>4
<1>6. ToldInv'
  BY <1>1, <1>4 DEF ToldInv
<1> QED BY <1>4, <1>5, <1>6

\* An output is one more told, but nothing more once a touch review is over.
LEMMA ToldUpdate ==
  ASSUME ToldInv, OutputsOK, review = <<>>, NEW o \in Output, NEW amt \in Amount,
         NEW more \in BOOLEAN, NEW p2 \in Step, PrehashUpdate(o, amt, more, p2)
  PROVE  /\ ToldInv' /\ Told'.timelock = Told.timelock /\ Told'.fee = Told.fee
         /\ Told'.out = IF Touch /\ Approved THEN Told.out
                        ELSE Append(Told.out, OutputItem(o, amt))
<1>1. /\ tx_state'.ins = "VALIDATE" /\ Reviewable(o, amt, more)
      /\ UNCHANGED tx_payment_id
  BY DEF PrehashUpdate, ValidateStep, Goto, At, txInfo
<1>2. Fixed'
  BY <1>1 DEF Fixed
<1>3. Told' = IF ~Touch THEN Add(Told, OutputItem(o, amt))
              ELSE IF Approved THEN Told
              ELSE IF o.chg THEN Add(Told, OutputItem(o, amt))
              ELSE Add(Add(Told, OutputItem(o, amt)), Address(o))
  BY OutputTells
<1>4. CASE Touch /\ Approved
  <2>1. Told' = Told
    BY <1>3, <1>4
  <2> QED BY <1>1, <1>2, <1>4, <2>1, ToldKept
<1>5. CASE ~(Touch /\ Approved)
  <2>1. Told' = IF Touch /\ ~o.chg THEN Add(Add(Told, OutputItem(o, amt)), Address(o))
                                   ELSE Add(Told, OutputItem(o, amt))
    BY <1>3, <1>5
  <2> QED BY <1>1, <1>2, <1>5, <2>1, ToldOneMore
<1> QED BY <1>4, <1>5

\* What is told stays sound, command by command.
LEMMA ToldCommand ==
  ASSUME AskedInv, ~Building => ToldInv, OutputsOK, review = <<>>, Live, RealCommand
  PROVE  ~Building' => ToldInv'
<1> USE DEF Building, Fixed, Signing, Goto, At, After, In
<1>1. CASE Builds
  <2>1. tx_state' = At("STEALTH", 0, 0) \/ tx_state' = At("GEN_TXOUT_KEYS", 0, 0)
    BY <1>1 DEF Builds, Stealth, GenTxoutKeys
  <2> QED BY <2>1
<1>2. CASE Silent
  <2>1. SilentFrame
    BY <1>2, SilentFramed
  <2>2. Told' = Told
    BY <2>1, ToldStill DEF SilentFrame
  <2> QED BY <2>1, <2>2, ToldKept DEF SilentFrame
<1>3. ASSUME NEW lock \in Locks, PrefixHashInit(lock)
      PROVE  ToldInv'
  <2>1. /\ Building /\ tx_state'.ins = "PREFIX_HASH"
        /\ Announce(lock) /\ UNCHANGED shown /\ lock \in BOOLEAN
    BY <1>3, ConstantsOK DEF ConstantsOK, PrefixHashInit, Live
  <2>2. tx_stages = {} /\ tx_stages' = {} /\ shown = NoItems
    BY <1>3, <2>1 DEF PrefixHashInit, AskedInv
  <2>3. Told' = IF lock THEN Add(NoItems, Timelock) ELSE NoItems
    BY <2>1, <2>2, AnnounceTells DEF Approved
  <2>4. ItemsOK(Told') /\ Told'.fee = <<>> /\ Told'.out = <<>>
    BY <2>1, <2>3, NothingTold, TimelockAdded
  <2>5. ~Fixed'
    BY <2>1
  <2> QED BY <2>4, <2>5 DEF ToldInv
<1>4. ASSUME NEW amt \in Amount, NEW more \in BOOLEAN, PrehashInitFee(amt, more)
      PROVE  ToldInv'
  <2>1. ~Building
    BY <1>4, FeeOnce
  <2> QED BY <1>4, <2>1, ToldFee
<1>5. ASSUME NEW o \in Output, NEW amt \in Amount, NEW more \in BOOLEAN,
             NEW p2 \in Step, PrehashUpdate(o, amt, more, p2)
      PROVE  ToldInv'
  <2>1. ~Building
    BY <1>5 DEF PrehashUpdate, ValidateStep
  <2> QED BY <1>5, <2>1, ToldUpdate
<1> QED BY <1>1, <1>2, <1>3, <1>4, <1>5, CommandCases

-----------------------------------------------------------------------------
(* What the device derived: DerivedInv. *)

\* Outputs have keys.
LEMMA KeyOfOutput == ASSUME NEW o \in Output PROVE Key(o) \in EphKey
BY DEF Key, Output, EphKey

\* The keys follow the outputs, one by one.
LEMMA KeyAppended ==
  ASSUME NEW keys \in Seq(EphKey), NEW outs \in Seq(Output), KeysOf(keys, outs),
         NEW o \in Output
  PROVE  /\ Append(keys, Key(o)) \in Seq(EphKey) /\ Append(outs, o) \in Seq(Output)
         /\ KeysOf(Append(keys, Key(o)), Append(outs, o))
<1>1. Key(o) \in EphKey
  BY KeyOfOutput
<1> DEFINE k == Key(o)
<1> HIDE DEF k
<1>2. /\ Append(keys, k) \in Seq(EphKey) /\ Append(outs, o) \in Seq(Output)
      /\ Len(Append(keys, k)) = Len(keys) + 1 /\ Append(keys, k)[Len(keys) + 1] = k
      /\ Len(Append(outs, o)) = Len(outs) + 1 /\ Append(outs, o)[Len(outs) + 1] = o
      /\ \A i \in 1..Len(keys) : Append(keys, k)[i] = keys[i]
      /\ \A i \in 1..Len(outs) : Append(outs, o)[i] = outs[i]
      /\ Len(keys) \in Nat
  BY <1>1 DEF k
<1>3. Len(keys) = Len(outs) /\ \A i \in 1..Len(outs) : keys[i] = Key(outs[i])
  BY DEF KeysOf
<1>4. ASSUME NEW i \in 1..Len(Append(outs, o))
      PROVE  Append(keys, k)[i] = Key(Append(outs, o)[i])
  <2>1. CASE i = Len(outs) + 1
    BY <1>2, <1>3, <2>1 DEF k
  <2>2. CASE i \in 1..Len(outs)
    BY <1>2, <1>3, <2>2
  <2>3. i = Len(outs) + 1 \/ i \in 1..Len(outs)
    BY <1>2, <1>3
  <2> QED BY <2>1, <2>2, <2>3
<1> QED BY <1>2, <1>3, <1>4 DEF KeysOf, k

\* The keys of the outputs derived stay theirs, command by command.
LEMMA DerivedCommand ==
  ASSUME AskedInv, DerivedInv, OutputsOK, review = <<>>, Live, RealCommand
  PROVE  DerivedInv'
<1> USE DEF Building, Fixed, Signing, Goto, At, After, In
<1>1. ASSUME NEW pid \in PaymentId, Stealth(pid)
      PROVE  DerivedInv'
  <2>1. UNCHANGED <<outkeys, out_eph>> /\ Building /\ Building' /\ ~Fixed /\ ~Fixed'
    BY <1>1 DEF Stealth, outChains
  <2> QED BY <2>1 DEF DerivedInv, Derived
<1>2. ASSUME NEW to \in Dest, NEW chg \in BOOLEAN, GenTxoutKeys(to, chg)
      PROVE  DerivedInv'
  <2> DEFINE o == [to |-> to, chg |-> chg, ak |-> tx_output_cnt]
  <2>1. Building /\ Building' /\ ~Fixed /\ ~Fixed'
    BY <1>2 DEF GenTxoutKeys
  <2>2. /\ outkeys' = Append(outkeys, o) /\ out_eph' = Append(out_eph, Key(o))
        /\ tx_output_cnt < MaxOutputs
    BY <1>2 DEF GenTxoutKeys, Live
  <2>3. o \in Output
    BY <2>2, ConstantsOK DEF ConstantsOK, OutputsOK, Output
  <2>4. outkeys \in Seq(Output) /\ out_eph \in Seq(EphKey) /\ KeysOf(out_eph, outkeys)
    BY <2>1 DEF DerivedInv, Derived
  <2> HIDE DEF o
  <2>5. /\ outkeys' \in Seq(Output) /\ out_eph' \in Seq(EphKey)
        /\ KeysOf(out_eph', outkeys')
    BY <2>2, <2>3, <2>4, KeyAppended
  <2> QED BY <2>1, <2>5 DEF DerivedInv, Derived, KeysOf
<1>3. CASE Silent
  <2>1. SilentFrame
    BY <1>3, SilentFramed
  <2>2. ~Building /\ ~Building' /\ Derived' = Derived /\ UNCHANGED OUT_EPH
    BY <2>1 DEF SilentFrame, Derived
  <2> HIDE DEF Building
  <2> QED BY <2>2 DEF DerivedInv, KeysOf
<1>4. ASSUME NEW lock \in Locks, PrefixHashInit(lock)
      PROVE  DerivedInv'
  <2>1. /\ Building /\ ~Fixed /\ ~Building' /\ ~Fixed'
        /\ OUT_EPH' = out_eph /\ UNCHANGED outkeys
    BY <1>4 DEF PrefixHashInit, Live
  <2> QED BY <2>1 DEF DerivedInv, Derived, KeysOf
<1>5. ASSUME NEW amt \in Amount, NEW more \in BOOLEAN, PrehashInitFee(amt, more)
      PROVE  DerivedInv'
  <2>1. ~Fixed /\ ~Building /\ Fixed' /\ ~Building'
    BY <1>5, FeeOnce
  <2>2. OUTK' = outkeys /\ UNCHANGED OUT_EPH
    BY <1>5 DEF PrehashInitFee
  <2>3. Derived' = Derived
    BY <2>1, <2>2 DEF Derived
  <2> HIDE DEF Building
  <2> QED BY <2>1, <2>2, <2>3 DEF DerivedInv, KeysOf
<1>6. ASSUME NEW o \in Output, NEW amt \in Amount, NEW more \in BOOLEAN,
             NEW p2 \in Step, PrehashUpdate(o, amt, more, p2)
      PROVE  DerivedInv'
  <2>1. /\ tx_state.ins = "VALIDATE" /\ tx_state'.ins = "VALIDATE"
        /\ UNCHANGED <<OUTK, OUT_EPH>>
    BY <1>6 DEF PrehashUpdate, ValidateStep
  <2> QED BY <2>1 DEF DerivedInv, Derived, KeysOf
<1> QED BY <1>1, <1>2, <1>3, <1>4, <1>5, <1>6, CommandCases DEF Builds

-----------------------------------------------------------------------------
(* The prefix: PrefixInv. *)

\* The commands after the prefix leave it and what it is compared with.
Later == GenCommitmentMask \/ Blind \/ Validates \/ RingCommand

\* Every one of them does.
LEMMA LaterLeavesPrefix ==
  ASSUME AskedInv, ~Building => ToldInv, OutputsOK, review = <<>>, Live, Later
  PROVE  /\ ~Building /\ ~Building' /\ tx_state'.ins # "PREFIX_HASH"
         /\ UNCHANGED <<prefixH, OUT_EPH, tx_payment_id>> /\ (Finalized' <=> Finalized)
         /\ Told'.timelock = Told.timelock
<1> USE DEF Finalized, Sync, txInfo, outChains, hashes, Goto, At
<1>1. CASE GenCommitmentMask \/ Blind \/ RingCommand
  <2>1. SilentFrame /\ Silent
    BY <1>1, SilentFramed DEF Silent
  <2>2. Told' = Told
    BY <2>1, ToldStill DEF SilentFrame
  <2>3. UNCHANGED <<prefixH, tx_stages>> /\ tx_state'.ins # "PREFIX_HASH"
    BY <1>1, RingFramed DEF RingFrame, GenCommitmentMask, Blind
  <2> QED BY <2>1, <2>2, <2>3 DEF SilentFrame
<1>2. ASSUME NEW amt \in Amount, NEW more \in BOOLEAN, PrehashInitFee(amt, more)
      PROVE  /\ ~Building /\ ~Building' /\ tx_state'.ins # "PREFIX_HASH"
             /\ UNCHANGED <<prefixH, OUT_EPH, tx_payment_id>> /\ (Finalized' <=> Finalized)
             /\ Told'.timelock = Told.timelock
  <2>1. ~Building /\ ~Building' /\ tx_state'.ins # "PREFIX_HASH"
    BY <1>2, FeeOnce
  <2> QED BY <1>2, <2>1, ToldFee DEF PrehashInitFee
<1>3. ASSUME NEW o \in Output, NEW amt \in Amount, NEW more \in BOOLEAN, NEW p2 \in Step,
             PrehashUpdate(o, amt, more, p2)
      PROVE  /\ ~Building /\ ~Building' /\ tx_state'.ins # "PREFIX_HASH"
             /\ UNCHANGED <<prefixH, OUT_EPH, tx_payment_id>> /\ (Finalized' <=> Finalized)
             /\ Told'.timelock = Told.timelock
  <2>1. ~Building /\ ~Building' /\ tx_state'.ins # "PREFIX_HASH"
    BY <1>3 DEF PrehashUpdate, ValidateStep, Building, After, In
  <2>2. tx_stages' \in {tx_stages, tx_stages \cup {"OUTPUTS_REVIEWED"}}
    BY <1>3 DEF PrehashUpdate
  <2> QED BY <1>3, <2>1, <2>2, ToldUpdate DEF PrehashUpdate
<1>4. ASSUME Silent, UNCHANGED prefixH, NEW p1, NEW p2, ValidateStep(p1, p2),
             UNCHANGED tx_stages \/ tx_stages' = tx_stages \cup {"PREHASH_FINALIZED"}
      PROVE  /\ ~Building /\ ~Building' /\ tx_state'.ins # "PREFIX_HASH"
             /\ UNCHANGED <<prefixH, OUT_EPH, tx_payment_id>> /\ (Finalized' <=> Finalized)
             /\ Told'.timelock = Told.timelock
  <2>1. SilentFrame
    BY <1>4, SilentFramed
  <2>2. Told' = Told
    BY <2>1, ToldStill DEF SilentFrame
  <2> QED BY <1>4, <2>1, <2>2 DEF SilentFrame, ValidateStep
<1>5. ASSUME NEW more \in More, NEW p2 \in Step, PrehashInit(more, p2)
      PROVE  Silent /\ UNCHANGED prefixH /\ ValidateStep(1, p2) /\ UNCHANGED tx_stages
  BY <1>5 DEF PrehashInit, Silent
<1>6. ASSUME NEW k \in Commitment, NEW p2 \in Step, PrehashAccumulate(k, p2)
      PROVE  Silent /\ UNCHANGED prefixH /\ ValidateStep(3, p2) /\ UNCHANGED tx_stages
  BY <1>6 DEF PrehashAccumulate, Silent
<1>7. ASSUME NEW message \in {prefixH, <<[kind |-> "other"]>>}, NEW p2 \in Step,
             PrehashFinalize(message, p2)
      PROVE  /\ Silent /\ UNCHANGED prefixH /\ ValidateStep(3, p2)
             /\ tx_stages' = tx_stages \cup {"PREHASH_FINALIZED"}
  BY <1>7 DEF PrehashFinalize, Silent, Live
<1> QED BY <1>1, <1>2, <1>3, <1>4, <1>5, <1>6, <1>7 DEF Later, Validates, More

\* So it keeps being what it was.
LEMMA PrefixKept ==
  ASSUME UNCHANGED <<OUT_EPH, tx_payment_id>>, Told'.timelock = Told.timelock, NEW prefix
  PROVE  (Headed(prefix)' <=> Headed(prefix)) /\ (Parsed(prefix)' <=> Parsed(prefix))
BY DEF Headed, Parsed

\* A piece of the stream is a piece.
LEMMA ChunkIsPiece ==
  ASSUME OUT_EPH \in Seq(EphKey), NEW chunk \in Chunks
  PROVE  chunk \in Piece
<1>1. chunk.outs \in Seq(EphKey)
  <2>1. chunk.outs \in {<<>>, OUT_EPH} \cup {<<e>> : e \in EphKey}
    BY DEF Chunks
  <2>2. \A e \in EphKey : <<e>> \in Seq(EphKey)
    OBVIOUS
  <2>3. <<>> \in Seq(EphKey)
    OBVIOUS
  <2> QED BY <2>1, <2>2, <2>3
<1>2. chunk = [kind |-> chunk.kind, outs |-> chunk.outs, nonce |-> chunk.nonce,
               end |-> chunk.end]
  BY DEF Chunks
<1>3. /\ chunk.kind \in {"chunk"} /\ chunk.end \in BOOLEAN
      /\ chunk.nonce \in {<<>>} \cup {<<p>> : p \in PaymentId}
  BY DEF Chunks
<1> QED BY <1>1, <1>2, <1>3 DEF Piece

\* A header alone has no end and carries nothing.
LEMMA HeaderCarriesNothing ==
  ASSUME NEW lock \in BOOLEAN
  PROVE  /\ <<Header(lock)>> \in Seq(PrefixItem) /\ Len(<<Header(lock)>>) = 1
         /\ <<Header(lock)>>[1] = Header(lock)
         /\ Ends(<<Header(lock)>>) = {} /\ Carries(<<Header(lock)>>, 1, <<>>)
<1> DEFINE h == Header(lock)
<1>1. h \in PrefixItem /\ h.kind = "header" /\ h.kind # "chunk"
  BY DEF PrefixItem, Header
<1> HIDE DEF h
<1>2. /\ <<h>> \in Seq(PrefixItem) /\ Len(<<h>>) = 1 /\ <<h>>[1] = h
      /\ DOMAIN <<h>> = {1}
  BY <1>1
<1>3. Ends(<<h>>) = {}
  BY <1>1, <1>2 DEF Ends
<1> DEFINE cut == [i \in 0..1 |-> 0]
<1>4. cut \in [0..1 -> 0..Len(<<>>)] /\ cut[0] = 0 /\ cut[1] = Len(<<>>)
  OBVIOUS
<1>5. \A i \in 1..1 : i = 1 /\ i - 1 = 0
  OBVIOUS
<1>6. Outs(h) = <<>> /\ Outs(<<h>>[1]) = <<>>
  BY <1>1, <1>2 DEF Outs
<1>7. /\ Len(Outs(<<h>>[1])) = cut[1] - cut[0]
      /\ \A j \in 1..Len(Outs(<<h>>[1])) : Outs(<<h>>[1])[j] = <<>>[cut[0] + j]
  BY <1>4, <1>6
<1>8. Carries(<<h>>, 1, <<>>)
  <2> HIDE DEF cut
  <2> QED BY <1>4, <1>5, <1>7 DEF Carries
<1> QED BY <1>2, <1>3, <1>8 DEF h

\* The prefix grows by one piece, which may be the one that ends it.
LEMMA PrefixGrows ==
  ASSUME NEW s \in Seq(PrefixItem), Headed(s), NEW chunk \in Chunks,
         OUT_EPH \in Seq(EphKey), ParsePrefix(chunk),
         IF prefix_outkeys_done THEN Parsed(s)
         ELSE Ends(s) = {} /\ out_eph \in Seq(EphKey) /\ Carries(s, Len(s), out_eph),
         prefix_outkeys_done \in BOOLEAN
  PROVE  LET t == Append(s, chunk) IN
         /\ Headed(t)
         /\ IF prefix_outkeys_done' THEN Parsed(t)
            ELSE Ends(t) = {} /\ out_eph' \in Seq(EphKey) /\ Carries(t, Len(t), out_eph')
<1> DEFINE t == Append(s, chunk)
<1>1. chunk \in Piece /\ chunk \in PrefixItem /\ chunk.kind = "chunk"
      /\ chunk.outs \in Seq(EphKey) /\ chunk.end \in BOOLEAN
  BY ChunkIsPiece DEF PrefixItem, Piece
<1>2. /\ t \in Seq(PrefixItem) /\ Len(t) = Len(s) + 1 /\ t[Len(s) + 1] = chunk
      /\ Len(s) \in Nat /\ \A i \in 1..Len(s) : t[i] = s[i]
  BY <1>1
<1>3. Headed(t)
  BY <1>2 DEF Headed
<1>4. CASE prefix_outkeys_done
  <2>1. prefix_outkeys_done' /\ Parsed(s)
    BY <1>4 DEF ParsePrefix
  <2>2. Parsed(t)
    BY <1>1, <2>1, ParsedOn
  <2> QED BY <1>3, <2>1, <2>2
<1>5. CASE ~prefix_outkeys_done
  <2>1. /\ Ends(s) = {} /\ out_eph \in Seq(EphKey) /\ Carries(s, Len(s), out_eph)
        /\ chunk.end => ParsedAsDerived(chunk)
        /\ out_eph' = out_eph \o chunk.outs \o (IF chunk.end THEN <<Final>> ELSE <<>>)
        /\ prefix_outkeys_done' = chunk.end
    BY <1>5 DEF ParsePrefix
  <2>2. Carries(t, Len(t), out_eph \o chunk.outs)
    BY <1>1, <1>2, <2>1, CarriesMore
  <2>3. Ends(t) = IF chunk.end THEN {Len(t)} ELSE {}
    <3>1. Ends(t) = Ends(s) \cup IF chunk.kind = "chunk" /\ chunk.end
                                THEN {Len(s) + 1} ELSE {}
      BY <1>1, EndsAppended
    <3> QED BY <1>1, <1>2, <2>1, <3>1
  <2>4. CASE chunk.end
    <3>1. EndOf(t) = Len(t) /\ Ends(t) # {}
      <4>1. EndOf(t) \in Ends(t)
        BY <1>2, <2>3, <2>4, EndIsFirst
      <4> QED BY <2>3, <2>4, <4>1
    <3>2. out_eph \o chunk.outs = OUT_EPH /\ chunk.nonce = tx_payment_id
      BY <2>1, <2>4 DEF ParsedAsDerived
    <3>3. Parsed(t)
      <4>1. Carries(t, EndOf(t), OUT_EPH)
        BY <2>2, <3>1, <3>2
      <4>2. t[EndOf(t)] = chunk
        BY <1>2, <3>1
      <4> HIDE DEF t
      <4> QED BY <3>1, <3>2, <4>1, <4>2 DEF Parsed
    <3> QED BY <1>3, <2>1, <2>4, <3>3
  <2>5. CASE ~chunk.end
    <3>1. out_eph' = out_eph \o chunk.outs
      <4>1. out_eph \o chunk.outs \in Seq(EphKey)
        BY <1>1, <2>1
      <4>2. (out_eph \o chunk.outs) \o <<>> = out_eph \o chunk.outs
        BY <4>1
      <4> QED BY <2>1, <2>5, <4>2
    <3>2. out_eph' \in Seq(EphKey)
      <4>1. \A a, b \in Seq(EphKey) : a \o b \in Seq(EphKey)
        OBVIOUS
      <4> QED BY <1>1, <2>1, <3>1, <4>1
    <3> QED BY <1>3, <2>1, <2>2, <2>3, <2>5, <3>1, <3>2
  <2> QED BY <1>1, <2>4, <2>5
<1> QED BY <1>4, <1>5

\* The prefix hashed stays the one that was parsed, command by command.
LEMMA PrefixCommand ==
  ASSUME AskedInv, ~Building => ToldInv, DerivedInv, PrefixInv, OutputsOK, FlagsOK,
         review = <<>>, Live, RealCommand
  PROVE  PrefixInv'
<1>1. CASE Later
  <2>1. /\ ~Building' /\ tx_state'.ins # "PREFIX_HASH" /\ UNCHANGED prefixH
        /\ Finalized' <=> Finalized
        /\ UNCHANGED <<OUT_EPH, tx_payment_id>> /\ Told'.timelock = Told.timelock
    BY <1>1, LaterLeavesPrefix
  <2>2. \A s : (Headed(s)' <=> Headed(s)) /\ (Parsed(s)' <=> Parsed(s))
    BY <2>1, PrefixKept
  <2> QED BY <2>1, <2>2 DEF PrefixInv
<1>2. CASE Builds
  <2>1. /\ Building /\ UNCHANGED <<keccakH, tx_stages>>
        /\ tx_state' = At("STEALTH", 0, 0) \/ tx_state' = At("GEN_TXOUT_KEYS", 0, 0)
    BY <1>2 DEF Builds, Stealth, GenTxoutKeys, hashes, Goto, After, Building
  <2>2. ~Finalized'
    BY <2>1 DEF AskedInv, Finalized
  <2>3. tx_state'.ins # "PREFIX_HASH"
    BY <2>1 DEF At
  <2> QED BY <2>1, <2>2, <2>3 DEF PrefixInv
<1>3. ASSUME NEW lock \in Locks, PrefixHashInit(lock)
      PROVE  PrefixInv'
  <2>1. /\ Building /\ tx_state'.ins = "PREFIX_HASH" /\ lock \in BOOLEAN
        /\ Announce(lock) /\ UNCHANGED shown
        /\ keccakH' = Append(keccakH, Header(lock))
        /\ out_eph' = <<>> /\ prefix_outkeys_done' = FALSE
    BY <1>3, ConstantsOK
       DEF ConstantsOK, PrefixHashInit, Live, After, Building, Goto, At
  <2>2. tx_stages = {} /\ tx_stages' = {} /\ shown = NoItems /\ keccakH = <<>>
    BY <1>3, <2>1 DEF PrefixHashInit, AskedInv, PrefixInv
  <2>3. Told' = IF lock THEN Add(NoItems, Timelock) ELSE NoItems
    BY <2>1, <2>2, AnnounceTells DEF Approved
  <2>4. lock <=> Told'.timelock # <<>>
    <3>1. Told'.timelock = IF lock THEN Append(<<>>, Timelock) ELSE <<>>
      BY <2>3, NothingTold, TimelockAdded
    <3>2. Append(<<>>, Timelock) # <<>>
      OBVIOUS
    <3> QED BY <2>1, <3>1, <3>2
  <2>5. /\ keccakH' = <<Header(lock)>>
        /\ keccakH' \in Seq(PrefixItem) /\ Len(keccakH') = 1
        /\ keccakH'[1] = Header(lock)
        /\ Ends(keccakH') = {} /\ Carries(keccakH', 1, <<>>)
    BY <2>1, <2>2, HeaderCarriesNothing
  <2>6. Headed(keccakH)'
    BY <2>4, <2>5 DEF Headed, Header
  <2>7. ~Building' /\ ~Finalized'
    BY <2>1, <2>2 DEF Building, Finalized
  <2>8. out_eph' \in Seq(EphKey)
    BY <2>1
  <2> QED BY <2>1, <2>5, <2>6, <2>7, <2>8 DEF PrefixInv, Ends, Carries
<1>4. ASSUME NEW chunk \in Chunks, NEW more \in More, NEW p2 \in 1..MaxChunks,
             PrefixHashUpdate(chunk, more, p2)
      PROVE  PrefixInv'
  <2> DEFINE t == Append(keccakH, chunk)
  <2>1. /\ tx_state.ins = "PREFIX_HASH" /\ tx_state'.ins = "PREFIX_HASH"
        /\ ParsePrefix(chunk)
        /\ UNCHANGED <<OUT_EPH, tx_payment_id>>
    BY <1>4 DEF PrefixHashUpdate, In, Goto, At, Live, txInfo
  <2>2. OUT_EPH \in Seq(EphKey) /\ ~Building'
    BY <2>1 DEF Building, DerivedInv
  <2>3. /\ Headed(keccakH) /\ keccakH \in Seq(PrefixItem)
        /\ IF prefix_outkeys_done THEN Parsed(keccakH)
           ELSE /\ Ends(keccakH) = {} /\ out_eph \in Seq(EphKey)
                /\ Carries(keccakH, Len(keccakH), out_eph)
    BY <2>1 DEF PrefixInv, Headed
  <2>4. /\ Headed(t)
        /\ IF prefix_outkeys_done' THEN Parsed(t)
           ELSE Ends(t) = {} /\ out_eph' \in Seq(EphKey) /\ Carries(t, Len(t), out_eph')
    BY <2>1, <2>2, <2>3, PrefixGrows DEF FlagsOK
  <2>5. t \in Seq(PrefixItem)
    BY <2>4 DEF Headed
  <2>6. Told' = Told
    <3>1. SilentFrame
      BY <1>4, SilentFramed DEF Silent
    <3> QED BY <3>1, ToldStill DEF SilentFrame
  <2>7. \A s : (Headed(s)' <=> Headed(s)) /\ (Parsed(s)' <=> Parsed(s))
    BY <2>1, <2>6, PrefixKept
  <2> HIDE DEF t
  <2>8. CASE more
    <3>1. keccakH' = t /\ UNCHANGED <<prefixH, tx_stages>>
      BY <1>4, <2>8 DEF PrefixHashUpdate, t
    <3> QED BY <2>1, <2>2, <2>4, <2>7, <3>1 DEF PrefixInv, Finalized
  <2>9. CASE ~more
    <3>1. /\ keccakH' = Append(t, Final) /\ prefixH' = t /\ prefix_outkeys_done'
      BY <1>4, <2>9 DEF PrefixHashUpdate, Live, t
    <3>2. Headed(t) /\ Parsed(t)
      BY <2>4, <3>1
    <3>3. Final \in PrefixItem
      BY DEF PrefixItem
    <3>4. Parsed(Append(t, Final))
      BY <2>5, <3>2, <3>3, ParsedOn
    <3>5. Headed(Append(t, Final))
      BY <2>5, <3>2, <3>3 DEF Headed
    <3> QED BY <2>1, <2>2, <2>7, <3>1, <3>2, <3>4, <3>5 DEF PrefixInv
  <2> QED BY <2>8, <2>9 DEF More
<1> QED BY <1>1, <1>2, <1>3, <1>4 DEF RealCommand, Prefixes, Later

-----------------------------------------------------------------------------
(* The outputs streamed for review: OutputsInv. *)

\* What was told first stays first.
LEMMA ToldFirst ==
  ASSUME NEW told \in Seq(OutItem), NEW item \in OutItem, NEW outs, NEW commitments,
         Outputs(told, outs), Amounts(told, commitments),
         Len(outs) \in 0..Len(told), Len(commitments) \in 0..Len(told)
  PROVE  Outputs(Append(told, item), outs) /\ Amounts(Append(told, item), commitments)
<1>1. Len(told) \in Nat /\ \A i \in 1..Len(told) : Append(told, item)[i] = told[i]
  OBVIOUS
<1>2. \A i \in 1..Len(outs) : i \in 1..Len(told)
  BY <1>1
<1>3. \A i \in 1..Len(commitments) : i \in 1..Len(told)
  BY <1>1
<1> QED BY <1>1, <1>2, <1>3 DEF Outputs, Amounts

\* An output is streamed as it is told, and committed to with its amount.
LEMMA StreamedAsTold ==
  ASSUME NEW told \in Seq(OutItem), NEW item \in OutItem,
         NEW outs \in Seq(Output), NEW commitments \in Seq(Commitment),
         Outputs(told, outs), Amounts(told, commitments),
         Len(outs) = Len(told), Len(commitments) = Len(told),
         NEW k \in Commitment, k = Commit(item.out, item.amt)
  PROVE  /\ Append(outs, item.out) \in Seq(Output)
         /\ Append(commitments, k) \in Seq(Commitment)
         /\ Len(Append(outs, item.out)) = Len(Append(told, item))
         /\ Len(Append(commitments, k)) = Len(Append(told, item))
         /\ Outputs(Append(told, item), Append(outs, item.out))
         /\ Amounts(Append(told, item), Append(commitments, k))
<1> DEFINE n == Len(told)
           o == item.out
<1>1. o \in Output
  BY DEF OutItem
<1>2. /\ n \in Nat /\ Append(told, item)[n + 1] = item
      /\ \A i \in 1..n : Append(told, item)[i] = told[i]
      /\ Len(Append(told, item)) = n + 1
  OBVIOUS
<1> HIDE DEF o
<1>3. /\ Append(outs, o) \in Seq(Output) /\ Len(Append(outs, o)) = n + 1
      /\ Append(outs, o)[n + 1] = o
      /\ \A i \in 1..n : Append(outs, o)[i] = outs[i]
  BY <1>1
<1>4. /\ Append(commitments, k) \in Seq(Commitment)
      /\ Len(Append(commitments, k)) = n + 1 /\ Append(commitments, k)[n + 1] = k
      /\ \A i \in 1..n : Append(commitments, k)[i] = commitments[i]
  OBVIOUS
<1> HIDE DEF n
<1>5. \A i \in 1..n + 1 : i \in 1..n \/ i = n + 1
  BY <1>2
<1>6. /\ \A i \in 1..n : told[i].out = outs[i]
      /\ \A i \in 1..n : commitments[i] = Commit(told[i].out, told[i].amt)
  BY DEF Outputs, Amounts, n
<1>7. Outputs(Append(told, item), Append(outs, o))
  BY <1>2, <1>3, <1>5, <1>6 DEF Outputs, o
<1>8. Amounts(Append(told, item), Append(commitments, k))
  BY <1>2, <1>4, <1>5, <1>6 DEF Amounts
<1> QED BY <1>2, <1>3, <1>4, <1>7, <1>8 DEF o

\* A commitment is one.
LEMMA CommitIsCommitment ==
  ASSUME NEW o \in Output, NEW amt \in Amount PROVE Commit(o, amt) \in Commitment
BY DEF Commit, Commitment, Output

\* The commands before INS_VALIDATE leave the output set to be fixed.
LEMMA NotFixed ==
  ASSUME Builds \/ Prefixes \/ GenCommitmentMask \/ Blind
  PROVE  ~Fixed'
<1>1. \E ins \in {"STEALTH", "GEN_TXOUT_KEYS", "PREFIX_HASH", "GEN_COMMITMENT_MASK",
                  "BLIND"}, p1, p2 \in Nat : tx_state' = At(ins, p1, p2)
  <2>1. CASE Builds
    BY <2>1 DEF Builds, Stealth, GenTxoutKeys, Goto
  <2>2. CASE Prefixes
    BY <2>2 DEF Prefixes, PrefixHashInit, PrefixHashUpdate, Goto
  <2>3. CASE GenCommitmentMask \/ Blind
    BY <2>3 DEF GenCommitmentMask, Blind, Goto
  <2> QED BY <2>1, <2>2, <2>3
<1> QED BY <1>1 DEF Fixed, Signing, At

\* The commands that are not INS_VALIDATE's tie nothing.
LEMMA OutputsUntied == ASSUME AskedInv', ~Fixed' PROVE OutputsInv'
BY DEF AskedInv, OutputsInv, Fixed

\* What is silent leaves a closed output set as it is.
LEMMA OutputsSilent ==
  ASSUME AskedInv, OutputsInv, review = <<>>, Live, Silent,
         tx_state'.ins = "VALIDATE" /\ tx_state'.p1 # 3 =>
           tx_state.ins = "VALIDATE" /\ tx_state.p1 = tx_state'.p1 /\ UNCHANGED commitment
  PROVE  OutputsInv'
<1>1. SilentFrame
  BY SilentFramed
<1>2. Told' = Told
  BY <1>1, ToldStill DEF SilentFrame
<1>3. /\ UNCHANGED <<shown, outkeys, OUTK, C>>
      /\ (Closed' <=> Closed) /\ (Approved' <=> Approved)
  BY <1>1 DEF SilentFrame
<1> QED BY <1>2, <1>3 DEF OutputsInv, Outputs, Amounts

\* One more output is streamed.
LEMMA OutputsUpdate ==
  ASSUME AskedInv, ToldInv, OutputsInv, OutputsOK, DerivedInv, review = <<>>,
         NEW o \in Output, NEW amt \in Amount, NEW more \in BOOLEAN, NEW p2 \in Step,
         PrehashUpdate(o, amt, more, p2)
  PROVE  OutputsInv'
<1> DEFINE item == OutputItem(o, amt)
           k    == Commit(o, amt)
<1>1. /\ tx_state.ins = "VALIDATE" /\ tx_state.p1 \in {1, 2}
      /\ tx_state'.ins = "VALIDATE" /\ tx_state'.p1 = 2
  BY StepPositive, ValidateTurns DEF PrehashUpdate
<1>2. /\ Told'.out = IF Touch /\ Approved THEN Told.out ELSE Append(Told.out, item)
      /\ Told.out \in Seq(OutItem)
  BY ToldUpdate DEF ToldInv, ItemsOK
<1>3. item \in OutItem /\ item.out = o /\ item.amt = amt
  BY SoundOutput DEF OutputItem, PrehashUpdate
<1>4. k \in Commitment /\ k = Commit(item.out, item.amt)
  BY <1>3, CommitIsCommitment
<1>5. UNCHANGED <<OUTK, shown>> /\ (Approved' <=> Approved)
  BY OutputTells DEF PrehashUpdate
<1> HIDE DEF item, k
<1>6. CASE ~Closed
  <2>1. /\ outkeys \in Seq(Output) /\ Len(outkeys) = Len(Told.out)
        /\ commitment \in Seq(Commitment) /\ Len(commitment) = Len(Told.out)
        /\ Outputs(Told.out, outkeys) /\ Amounts(Told.out, commitment)
    BY <1>1, <1>6 DEF OutputsInv
  <2>2. ~Approved /\ Told'.out = Append(Told.out, item)
    BY <1>2, <1>6 DEF AskedInv
  <2>3. /\ Append(outkeys, o) \in Seq(Output)
        /\ Append(commitment, k) \in Seq(Commitment)
        /\ Len(Append(outkeys, o)) = Len(Told'.out)
        /\ Len(Append(commitment, k)) = Len(Told'.out)
        /\ Outputs(Told'.out, Append(outkeys, o))
        /\ Amounts(Told'.out, Append(commitment, k))
    BY <1>2, <1>3, <1>4, <2>1, <2>2, StreamedAsTold
  <2>4. CASE more
    <3>1. /\ outkeys' = Append(outkeys, o) /\ commitment' = Append(commitment, k)
          /\ ~Closed'
      BY <1>6, <2>4 DEF PrehashUpdate, Closed, k
    <3> QED BY <1>1, <2>3, <3>1 DEF OutputsInv, Outputs, Amounts
  <2>5. CASE ~more
    <3>1. /\ outkeys' = Append(Append(outkeys, o), Final)
          /\ C' = Append(commitment, k) /\ Closed'
      BY <2>5 DEF PrehashUpdate, Closed, k
    <3>2. OUTK' = Append(outkeys, o) /\ ~Approved'
      BY <1>5, <2>2, <2>5, ClosesOnce
    <3>3. OUTK' \in Seq(Output) /\ outkeys' = Append(OUTK', Final)
      BY <2>3, <3>1, <3>2
    <3>4. outkeys' \in Seq(Output \cup {Final}) /\ Len(outkeys') > Len(OUTK')
      BY <3>3
    <3>5. Len(OUTK') \in Nat
      BY <3>3
    <3> QED BY <2>3, <3>1, <3>2, <3>4, <3>5 DEF OutputsInv, Outputs, Amounts
  <2> QED BY <2>4, <2>5
<1>7. CASE Closed
  <2>1. more
    BY <1>7, ClosesOnce
  <2>2. /\ outkeys' = Append(outkeys, o) /\ UNCHANGED C /\ Closed'
    BY <1>7, <2>1 DEF PrehashUpdate, Closed
  <2>3. /\ outkeys \in Seq(Output \cup {Final}) /\ Len(outkeys) > Len(OUTK)
        /\ C \in Seq(Commitment) /\ Len(C) = Len(OUTK) /\ Len(OUTK) <= Len(Told.out)
        /\ Outputs(Told.out, OUTK) /\ Amounts(Told.out, C)
        /\ Approved => Len(OUTK) <= Len(shown.out)
    BY <1>7 DEF OutputsInv
  <2>4. OUTK \in Seq(Output) /\ Len(OUTK) \in Nat
    BY <1>1 DEF DerivedInv, Derived, Fixed
  <2>5. outkeys' \in Seq(Output \cup {Final}) /\ Len(outkeys') > Len(OUTK)
    BY <2>2, <2>3, <2>4
  <2>6. /\ Len(OUTK) <= Len(Told'.out)
        /\ Outputs(Told'.out, OUTK) /\ Amounts(Told'.out, C)
    <3>1. CASE Told'.out = Told.out
      BY <2>3, <3>1
    <3>2. CASE Told'.out = Append(Told.out, item)
      <4>1. Len(OUTK) \in 0..Len(Told.out) /\ Len(C) \in 0..Len(Told.out)
        BY <1>2, <2>3, <2>4
      <4>2. Len(Told'.out) = Len(Told.out) + 1
        BY <1>2, <3>2
      <4> QED BY <1>2, <1>3, <2>3, <3>2, <4>1, <4>2, ToldFirst
    <3> QED BY <1>2, <3>1, <3>2
  <2> QED BY <1>5, <2>2, <2>3, <2>5, <2>6 DEF OutputsInv, Outputs, Amounts
<1> QED BY <1>6, <1>7

\* What was streamed stays what was told, command by command.
LEMMA OutputsCommand ==
  ASSUME AskedInv, AskedInv', ~Building => ToldInv, DerivedInv, OutputsInv, OutputsOK,
         review = <<>>, Live, RealCommand
  PROVE  OutputsInv'
<1>1. CASE Builds \/ Prefixes \/ GenCommitmentMask \/ Blind
  <2>1. ~Fixed'
    BY <1>1, NotFixed
  <2> QED BY <2>1, OutputsUntied
<1>2. ASSUME NEW amt \in Amount, NEW more \in More, PrehashInitFee(amt, more)
      PROVE  OutputsInv'
  <2>1. more \in BOOLEAN
    BY DEF More
  <2>2. ~Building /\ ~Closed
    BY <1>2, FeeOnce
  <2>3. Told'.out = <<>>
    BY <1>2, <2>1, <2>2, ToldFee
  <2>4. outkeys' = <<>> /\ commitment' = <<>> /\ ~Closed'
    BY <1>2, <2>2 DEF PrehashInitFee, Closed
  <2> QED BY <2>3, <2>4 DEF OutputsInv, Outputs, Amounts
<1>3. ASSUME NEW more \in More, NEW p2 \in Step, PrehashInit(more, p2)
      PROVE  OutputsInv'
  <2>1. ValidateStep(1, p2) /\ p2 > 1 /\ p2 # 1 /\ UNCHANGED commitment
    BY <1>3, StepPositive DEF PrehashInit, Live, sums
  <2>2. tx_state.ins = "VALIDATE" /\ tx_state.p1 = 1 /\ tx_state'.p1 = 1
    BY <2>1, StepPositive, ValidateTurns
  <2>3. Silent
    BY <1>3 DEF Silent
  <2> QED BY <2>1, <2>2, <2>3, OutputsSilent
<1>4. ASSUME NEW o \in Output, NEW amt \in Amount, NEW more \in More, NEW p2 \in Step,
             PrehashUpdate(o, amt, more, p2)
      PROVE  OutputsInv'
  <2>1. more \in BOOLEAN
    BY DEF More
  <2>2. ~Building
    BY <1>4 DEF PrehashUpdate, ValidateStep, After, In, Building
  <2> QED BY <1>4, <2>1, <2>2, OutputsUpdate
<1>5. CASE (\E k \in Commitment, p2 \in Step : PrehashAccumulate(k, p2))
           \/ (\E message \in {prefixH, <<[kind |-> "other"]>>}, p2 \in Step :
                 PrehashFinalize(message, p2))
  <2>1. tx_state'.p1 = 3
    BY <1>5 DEF PrehashAccumulate, PrehashFinalize, ValidateStep, Goto, At
  <2>2. Silent
    BY <1>5 DEF Silent
  <2> QED BY <2>1, <2>2, OutputsSilent
<1>6. CASE RingCommand
  <2>1. tx_state'.ins # "VALIDATE"
    BY <1>6, RingFramed DEF RingFrame, Goto, At
  <2>2. Silent
    BY <1>6 DEF Silent
  <2> QED BY <2>1, <2>2, OutputsSilent
<1> QED BY <1>1, <1>2, <1>3, <1>4, <1>5, <1>6 DEF RealCommand, Validates

-----------------------------------------------------------------------------
(* The rest of the hash: BodyInv. *)

\* Bytes nobody reviews come before the first output.
LEMMA PseudoHashed ==
  ASSUME NEW body \in Seq(BodyItem), NEW p \in Nat, OpenBody(body, p, <<>>)
  PROVE  OpenBody(Append(body, PseudoOut), p + 1, <<>>)
<1> DEFINE x == PseudoOut
<1>1. x \in BodyItem
  BY DEF BodyItem
<1> HIDE DEF x
<1>2. /\ Len(Append(body, x)) = Len(body) + 1 /\ Append(body, x)[Len(body) + 1] = x
      /\ \A i \in 1..Len(body) : Append(body, x)[i] = body[i]
      /\ Len(<<>>) = 0
  BY <1>1
<1>3. Len(body) = 1 + p /\ \A i \in 1..p : body[1 + i] = x
  BY <1>2 DEF OpenBody, x
<1>4. \A i \in 1..p + 1 : Append(body, x)[1 + i] = x
  <2>1. \A i \in 1..p + 1 : i = p + 1 \/ (i \in 1..p /\ 1 + i \in 1..Len(body))
    BY <1>3
  <2> QED BY <1>2, <1>3, <2>1
<1> QED BY <1>2, <1>3, <1>4 DEF OpenBody, x

\* Each output adds its encrypted amount.
LEMMA AmountHashed ==
  ASSUME NEW body \in Seq(BodyItem), NEW p \in Nat, NEW streamed \in Seq(Commitment),
         OpenBody(body, p, streamed), NEW k \in Commitment
  PROVE  OpenBody(Append(body, EcdhInfo(k)), p, Append(streamed, k))
<1> DEFINE x == EcdhInfo(k)
           n == Len(streamed)
           t == Append(body, x)
           u == Append(streamed, k)
<1>1. x \in BodyItem
  BY DEF BodyItem
<1> HIDE DEF x
<1>2. /\ Len(t) = Len(body) + 1 /\ t[Len(body) + 1] = x
      /\ \A i \in 1..Len(body) : t[i] = body[i]
  BY <1>1
<1>3. /\ Len(u) = n + 1 /\ u[n + 1] = k /\ \A i \in 1..n : u[i] = streamed[i]
      /\ n \in Nat
  OBVIOUS
<1>4. /\ Len(body) = 1 + p + n
      /\ \A i \in 1..p : body[1 + i] = PseudoOut
      /\ \A i \in 1..n : body[1 + p + i] = EcdhInfo(streamed[i])
  BY DEF OpenBody
<1> HIDE DEF t, u, n
<1>5. \A i \in 1..p : t[1 + i] = PseudoOut
  BY <1>2, <1>3, <1>4
<1>6. ASSUME NEW i \in 1..n + 1 PROVE t[1 + p + i] = EcdhInfo(u[i])
  <2>1. CASE i = n + 1
    BY <1>2, <1>3, <1>4, <2>1 DEF x
  <2>2. CASE i \in 1..n
    <3>1. 1 + p + i \in 1..Len(body)
      BY <1>3, <1>4, <2>2
    <3> QED BY <1>2, <1>3, <1>4, <2>2, <3>1
  <2> QED BY <1>3, <2>1, <2>2
<1>7. Len(t) = 1 + p + Len(u)
  BY <1>2, <1>3, <1>4
<1>8. \A i \in 1..Len(u) : t[1 + p + i] = EcdhInfo(u[i])
  BY <1>3, <1>6
<1>9. OpenBody(t, p, u)
  BY <1>5, <1>7, <1>8 DEF OpenBody
<1> QED BY <1>9 DEF t, u, x

\* The last one closes the output set.
LEMMA BodyCloses ==
  ASSUME NEW body, NEW p \in Nat, NEW streamed \in Seq(Commitment),
         OpenBody(body, p, streamed)
  PROVE  ClosedBody(body, p, 0, streamed, <<>>)
<1>1. Len(<<>>) = 0 /\ Len(streamed) \in Nat
  OBVIOUS
<1>2. /\ Len(body) = 1 + p + Len(streamed)
      /\ \A i \in 1..p : body[1 + i] = PseudoOut
      /\ \A i \in 1..Len(streamed) : body[1 + p + i] = EcdhInfo(streamed[i])
  BY DEF OpenBody
<1>3. \A i \in 1..Len(streamed) :
        body[1 + p + i].kind = "ecdhInfo" /\ body[1 + p + i].of = streamed[i]
  <2>1. \A k : EcdhInfo(k).kind = "ecdhInfo" /\ EcdhInfo(k).of = k
    BY DEF EcdhInfo
  <2> QED BY <1>2, <2>1
<1> QED BY <1>1, <1>2, <1>3 DEF ClosedBody

\* More outputs may be streamed after it, but they are no reviewed ones.
LEMMA ExtraHashed ==
  ASSUME NEW body \in Seq(BodyItem), NEW p \in Nat, NEW reviewed \in Seq(Commitment),
         NEW chain \in Seq(Commitment),
         ClosedBody(body, p, Len(chain), reviewed, chain), NEW k \in Commitment
  PROVE  ClosedBody(Append(body, EcdhInfo(k)), p, Len(chain) + 1, reviewed, Append(chain, k))
<1> DEFINE x == EcdhInfo(k)
           n == Len(reviewed)
           m == Len(chain)
           t == Append(body, x)
<1>1. x \in BodyItem /\ x.kind = "ecdhInfo"
  BY DEF BodyItem, EcdhInfo
<1> HIDE DEF x
<1>2. /\ Len(t) = Len(body) + 1 /\ t[Len(body) + 1] = x
      /\ \A i \in 1..Len(body) : t[i] = body[i]
  BY <1>1
<1>3. Len(Append(chain, k)) = m + 1 /\ n \in Nat /\ m \in Nat
  OBVIOUS
<1>4. /\ Len(body) = 1 + p + n + m
      /\ \A i \in 1..p : body[1 + i] = PseudoOut
      /\ \A i \in 1..n + m : body[1 + p + i].kind = "ecdhInfo"
      /\ \A i \in 1..n : body[1 + p + i].of = reviewed[i]
  BY DEF ClosedBody
<1> HIDE DEF t, n, m
<1>5. \A i \in 1..p : 1 + i \in 1..Len(body)
  BY <1>3, <1>4
<1>6. \A i \in 1..n + m : 1 + p + i \in 1..Len(body)
  BY <1>3, <1>4
<1>7. \A i \in 1..n : i \in 1..n + m
  BY <1>3
<1>8. \A i \in 1..n + (m + 1) : i \in 1..n + m \/ 1 + p + i = Len(body) + 1
  BY <1>3, <1>4
<1>9. \A i \in m + 1 + 1..m + 1 : FALSE
  BY <1>3
<1>10. \A i \in 1..n + (m + 1) : t[1 + p + i].kind = "ecdhInfo"
  BY <1>1, <1>2, <1>4, <1>6, <1>8
<1>11. Len(t) = 1 + p + n + (m + 1)
  BY <1>2, <1>3, <1>4
<1>12. /\ \A i \in 1..p : t[1 + i] = PseudoOut
       /\ \A i \in 1..n : t[1 + p + i].of = reviewed[i]
  BY <1>2, <1>4, <1>5, <1>6, <1>7
<1>13. ClosedBody(t, p, m + 1, reviewed, Append(chain, k))
  BY <1>3, <1>9, <1>10, <1>11, <1>12 DEF ClosedBody, n
<1> QED BY <1>13 DEF t, x, m

\* Then come output commitments.
LEMMA CommitmentHashed ==
  ASSUME NEW body \in Seq(BodyItem), NEW p \in Nat, NEW reviewed \in Seq(Commitment),
         NEW chain \in Seq(Commitment), NEW extra \in 0..Len(chain),
         ClosedBody(body, p, extra, reviewed, chain), NEW k \in Commitment
  PROVE  ClosedBody(Append(body, OutPk(k)), p, extra, reviewed, Append(chain, k))
<1> DEFINE x == OutPk(k)
           n == Len(reviewed)
           m == Len(chain)
           t == Append(body, x)
           u == Append(chain, k)
<1>1. x \in BodyItem
  BY DEF BodyItem
<1> HIDE DEF x
<1>2. /\ Len(t) = Len(body) + 1 /\ t[Len(body) + 1] = x
      /\ \A i \in 1..Len(body) : t[i] = body[i]
  BY <1>1
<1>3. /\ Len(u) = m + 1 /\ u[m + 1] = k /\ \A i \in 1..m : u[i] = chain[i]
      /\ n \in Nat /\ m \in Nat /\ extra \in Nat /\ extra <= m
  OBVIOUS
<1>4. /\ Len(body) = 1 + p + n + m
      /\ \A i \in 1..p : body[1 + i] = PseudoOut
      /\ \A i \in 1..n + extra : body[1 + p + i].kind = "ecdhInfo"
      /\ \A i \in 1..n : body[1 + p + i].of = reviewed[i]
      /\ \A i \in extra + 1..m : body[1 + p + n + i] = OutPk(chain[i])
  BY DEF ClosedBody
<1> HIDE DEF t, u, n, m
<1>5. \A i \in 1..p : 1 + i \in 1..Len(body)
  BY <1>3, <1>4
<1>6. \A i \in 1..n + extra : 1 + p + i \in 1..Len(body)
  BY <1>3, <1>4
<1>7. \A i \in 1..n : i \in 1..n + extra
  BY <1>3
<1>8. \A i \in extra + 1..m + 1 :
        \/ i \in extra + 1..m /\ i \in 1..m /\ 1 + p + n + i \in 1..Len(body)
        \/ i = m + 1 /\ 1 + p + n + i = Len(body) + 1
  BY <1>3, <1>4
<1>9. \A i \in extra + 1..m + 1 : t[1 + p + n + i] = OutPk(u[i])
  BY <1>2, <1>3, <1>4, <1>8 DEF x
<1>10. /\ \A i \in 1..p : t[1 + i] = PseudoOut
       /\ \A i \in 1..n + extra : t[1 + p + i].kind = "ecdhInfo"
       /\ \A i \in 1..n : t[1 + p + i].of = reviewed[i]
  BY <1>2, <1>4, <1>5, <1>6, <1>7
<1>11. Len(t) = 1 + p + n + Len(u)
  BY <1>2, <1>3, <1>4
<1>12. ClosedBody(t, p, extra, reviewed, u)
  BY <1>3, <1>9, <1>10, <1>11 DEF ClosedBody, n
<1> QED BY <1>12 DEF t, u, x

\* An output adds its encrypted amount, before and after the output set is closed.
LEMMA BodyUpdate ==
  ASSUME AskedInv, ToldInv, OutputsInv, DerivedInv, OutputsOK, BodyInv, review = <<>>,
         NEW o \in Output, NEW amt \in Amount, NEW more \in BOOLEAN, NEW p2 \in Step,
         PrehashUpdate(o, amt, more, p2)
  PROVE  BodyInv'
<1> DEFINE k == Commit(o, amt)
<1>1. /\ tx_state.ins = "VALIDATE" /\ tx_state.p1 \in {1, 2} /\ tx_state.p1 # 3
      /\ tx_state'.ins = "VALIDATE" /\ tx_state'.p1 = 2
  BY StepPositive, ValidateTurns DEF PrehashUpdate
<1>2. Told'.fee = Told.fee
  BY ToldUpdate
<1>3. k \in Commitment
  BY CommitIsCommitment
<1> HIDE DEF k
<1>4. keccakH' = Append(keccakH, EcdhInfo(k)) /\ EcdhInfo(k) \in BodyItem
  BY <1>3 DEF PrehashUpdate, BodyItem, k
<1>5. ~Sealed' => ~Sealed
  BY DEF PrehashUpdate, Sealed
<1> SUFFICES ASSUME ~Sealed'
             PROVE  BodyInv'
  BY DEF BodyInv
<1>6. keccakH \in Seq(BodyItem) /\ Len(keccakH) >= 1 /\ Told.fee = <<keccakH[1]>>
  BY <1>1, <1>5 DEF BodyInv
<1>7. keccakH' \in Seq(BodyItem) /\ Len(keccakH') >= 1 /\ keccakH'[1] = keccakH[1]
  BY <1>4, <1>6
<1>8. CASE ~Closed
  <2>1. PICK p \in Nat : OpenBody(keccakH, p, commitment)
    BY <1>1, <1>5, <1>8 DEF BodyInv
  <2>2. commitment \in Seq(Commitment)
    BY <1>1, <1>8 DEF OutputsInv
  <2>3. OpenBody(keccakH', p, Append(commitment, k))
    BY <1>3, <1>4, <1>6, <2>1, <2>2, AmountHashed
  <2>4. CASE more
    <3>1. commitment' = Append(commitment, k) /\ ~Closed'
      BY <1>8, <2>4 DEF PrehashUpdate, Closed, k
    <3> QED BY <1>2, <1>6, <1>7, <2>3, <3>1 DEF BodyInv
  <2>5. CASE ~more
    <3>1. C' = Append(commitment, k) /\ commitment' = <<>> /\ Closed'
      BY <2>5 DEF PrehashUpdate, Closed, k
    <3>2. Append(commitment, k) \in Seq(Commitment)
      BY <1>3, <2>2
    <3>3. ClosedBody(keccakH', p, 0, C', commitment')
      BY <2>3, <3>1, <3>2, BodyCloses
    <3>4. commitment' \in Seq(Commitment) /\ Len(commitment') = 0
      BY <3>1
    <3> QED BY <1>2, <1>6, <1>7, <3>1, <3>3, <3>4 DEF BodyInv
  <2> QED BY <2>4, <2>5
<1>9. CASE Closed
  <2>1. more
    BY <1>9, ClosesOnce
  <2>2. /\ commitment' = Append(commitment, k) /\ UNCHANGED C /\ Closed'
    BY <1>9, <2>1 DEF PrehashUpdate, Closed, k
  <2>3. /\ commitment \in Seq(Commitment)
        /\ \E p \in Nat : ClosedBody(keccakH, p, Len(commitment), C, commitment)
    BY <1>1, <1>5, <1>9 DEF BodyInv
  <2>4. PICK p \in Nat : ClosedBody(keccakH, p, Len(commitment), C, commitment)
    BY <2>3
  <2>5. C \in Seq(Commitment)
    BY <1>9 DEF OutputsInv
  <2>6. ClosedBody(keccakH', p, Len(commitment) + 1, C', commitment')
    BY <1>3, <1>4, <1>6, <2>2, <2>3, <2>4, <2>5, ExtraHashed
  <2>7. /\ commitment' \in Seq(Commitment)
        /\ Len(commitment') = Len(commitment) + 1 /\ Len(commitment') \in 0..Len(commitment')
    BY <1>3, <2>2, <2>3
  <2>8. ClosedBody(keccakH', p, Len(commitment'), C', commitment')
    BY <2>6, <2>7
  <2> QED BY <1>1, <1>2, <1>6, <1>7, <2>2, <2>7, <2>8 DEF BodyInv
<1> QED BY <1>8, <1>9

\* The hash stays so made, command by command, until it is sealed.
LEMMA BodyCommand ==
  ASSUME AskedInv, AskedInv', ~Building => ToldInv, DerivedInv, OutputsInv, BodyInv,
         OutputsOK, review = <<>>, Live, RealCommand
  PROVE  BodyInv'
<1>1. CASE Builds \/ Prefixes \/ GenCommitmentMask \/ Blind
  <2>1. ~Fixed'
    BY <1>1, NotFixed
  <2> QED BY <2>1 DEF Fixed, BodyInv
<1>2. ASSUME NEW amt \in Amount, NEW more \in More, PrehashInitFee(amt, more)
      PROVE  BodyInv'
  <2>1. more \in BOOLEAN
    BY DEF More
  <2>2. ~Building /\ ~Closed
    BY <1>2, FeeOnce
  <2>3. Told'.fee = <<Fee(amt)>>
    BY <1>2, <2>1, <2>2, ToldFee
  <2>4. keccakH' = <<Fee(amt)>> /\ commitment' = <<>> /\ ~Closed'
    BY <1>2, <2>2 DEF PrehashInitFee, Closed
  <2>5. Fee(amt) \in BodyItem
    BY DEF BodyItem
  <2>6. keccakH' \in Seq(BodyItem) /\ Len(keccakH') = 1 /\ keccakH'[1] = Fee(amt)
    BY <2>4, <2>5
  <2>7. OpenBody(keccakH', 0, commitment')
    BY <2>4, <2>6 DEF OpenBody
  <2> QED BY <2>3, <2>4, <2>6, <2>7 DEF BodyInv
<1>3. ASSUME NEW more \in More, NEW p2 \in Step, PrehashInit(more, p2)
      PROVE  BodyInv'
  <2>1. /\ ValidateStep(1, p2) /\ p2 > 1 /\ p2 # 1
        /\ UNCHANGED <<commitment, tx_stages>> /\ keccakH' = Append(keccakH, PseudoOut)
    BY <1>3, StepPositive DEF PrehashInit, Live, sums
  <2>2. /\ tx_state.ins = "VALIDATE" /\ tx_state.p1 = 1
        /\ tx_state'.ins = "VALIDATE" /\ tx_state'.p1 = 1
    BY <2>1, StepPositive, ValidateTurns
  <2>3. ~Closed /\ ~Closed' /\ (Sealed' <=> Sealed)
    BY <2>1, <2>2 DEF AskedInv, Closed, Sealed
  <2>4. Told' = Told
    <3>1. SilentFrame
      BY <1>3, SilentFramed DEF Silent
    <3> QED BY <3>1, ToldStill DEF SilentFrame
  <2>5. commitment = <<>>
    BY <2>2, <2>3 DEF OutputsInv
  <2> SUFFICES ASSUME ~Sealed
               PROVE  BodyInv'
    BY <2>3 DEF BodyInv
  <2>6. /\ keccakH \in Seq(BodyItem) /\ Len(keccakH) >= 1
        /\ Told.fee = <<keccakH[1]>>
        /\ \E p \in Nat : OpenBody(keccakH, p, commitment)
    BY <2>2, <2>3 DEF BodyInv
  <2>7. PICK p \in Nat : OpenBody(keccakH, p, <<>>)
    BY <2>5, <2>6
  <2>8. OpenBody(keccakH', p + 1, commitment')
    BY <2>1, <2>5, <2>6, <2>7, PseudoHashed
  <2>9. PseudoOut \in BodyItem
    BY DEF BodyItem
  <2>10. /\ keccakH' \in Seq(BodyItem) /\ Len(keccakH') >= 1
         /\ keccakH'[1] = keccakH[1] /\ p + 1 \in Nat
    BY <2>1, <2>6, <2>9
  <2> QED BY <2>3, <2>4, <2>6, <2>8, <2>10 DEF BodyInv
<1>4. ASSUME NEW o \in Output, NEW amt \in Amount, NEW more \in More, NEW p2 \in Step,
             PrehashUpdate(o, amt, more, p2)
      PROVE  BodyInv'
  <2>1. more \in BOOLEAN
    BY DEF More
  <2>2. ~Building
    BY <1>4 DEF PrehashUpdate, ValidateStep, After, In, Building
  <2> QED BY <1>4, <2>1, <2>2, BodyUpdate
<1>5. ASSUME NEW k \in Commitment, NEW p2 \in Step, PrehashAccumulate(k, p2)
      PROVE  BodyInv'
  <2>1. /\ ValidateStep(3, p2) /\ UNCHANGED <<tx_stages, C>>
        /\ keccakH' = Append(keccakH, OutPk(k)) /\ commitment' = Append(commitment, k)
    BY <1>5 DEF PrehashAccumulate
  <2>2. tx_state.ins = "VALIDATE" /\ tx_state'.p1 = 3
    BY <2>1, StepPositive, ValidateTurns
  <2>3. Told' = Told
    <3>1. SilentFrame
      BY <1>5, SilentFramed DEF Silent
    <3> QED BY <3>1, ToldStill DEF SilentFrame
  <2>4. (Sealed' <=> Sealed) /\ (Closed' <=> Closed)
    BY <2>1 DEF Sealed, Closed
  <2> SUFFICES ASSUME ~Sealed
               PROVE  BodyInv'
    BY <2>4 DEF BodyInv
  <2>5. keccakH \in Seq(BodyItem) /\ Len(keccakH) >= 1 /\ Told.fee = <<keccakH[1]>>
    BY <2>2 DEF BodyInv
  <2>6. OutPk(k) \in BodyItem
    BY DEF BodyItem
  <2>7. keccakH' \in Seq(BodyItem) /\ Len(keccakH') >= 1 /\ keccakH'[1] = keccakH[1]
    BY <2>1, <2>5, <2>6
  <2>8. CASE ~Closed
    BY <2>2, <2>3, <2>4, <2>5, <2>7, <2>8 DEF BodyInv
  <2>9. CASE Closed
    <3>1. PICK p \in Nat, extra \in 0..Len(commitment) :
            ClosedBody(keccakH, p, extra, C, commitment)
      BY <2>2, <2>9 DEF BodyInv
    <3>2. commitment \in Seq(Commitment) /\ C \in Seq(Commitment)
      BY <2>2, <2>9 DEF BodyInv, OutputsInv
    <3>3. ClosedBody(keccakH', p, extra, C', commitment')
      BY <2>1, <2>5, <3>1, <3>2, CommitmentHashed
    <3>4. commitment' \in Seq(Commitment) /\ extra \in 0..Len(commitment')
      BY <2>1, <3>2
    <3> QED BY <2>2, <2>3, <2>4, <2>5, <2>7, <2>9, <3>3, <3>4 DEF BodyInv
  <2> QED BY <2>8, <2>9
<1>6. ASSUME NEW message \in {prefixH, <<[kind |-> "other"]>>}, NEW p2 \in Step,
             PrehashFinalize(message, p2)
      PROVE  BodyInv'
  <2>1. Sealed'
    BY <1>6 DEF PrehashFinalize, Live, Sealed
  <2> QED BY <2>1 DEF BodyInv
<1>7. CASE RingCommand
  <2>1. tx_state'.ins # "VALIDATE"
    BY <1>7, RingFramed DEF RingFrame, Goto, At
  <2> QED BY <2>1 DEF BodyInv
<1> QED BY <1>1, <1>2, <1>3, <1>4, <1>5, <1>6, <1>7 DEF RealCommand, Validates

-----------------------------------------------------------------------------
(* The seal: SealedInv. *)

\* A transaction of a mode that signs for real speaks a version with ring signatures.
ProtocolInv == Real => protocol \in {3, 4}

\* The mode is set under such a version only, and the version is latched.
LEMMA ProtocolStep == ASSUME ProtocolInv, [Next]_vars PROVE ProtocolInv'
<1> USE DEF ProtocolInv, Real, Sync, Listening, check_protocol, Ask
<1>1. ASSUME UNCHANGED tx_sig_mode, UNCHANGED protocol \/ check_protocol
      PROVE  ProtocolInv'
  BY <1>1 DEF Unset
<1>2. CASE BuildCommand
  <2>1. CASE \E mode \in HostModes : SetSignatureMode(mode)
    BY <2>1 DEF SetSignatureMode
  <2>2. CASE OpenTx \/ CloseTx
    BY <1>1, <2>2 DEF OpenTx, CloseTx, monero_reset_tx, KeptByReset
  <2>3. CASE \E pid \in PaymentId : Stealth(pid)
    BY <1>1, <2>3 DEF Stealth
  <2>4. CASE \E to \in Dest, chg \in BOOLEAN : GenTxoutKeys(to, chg)
    BY <1>1, <2>4 DEF GenTxoutKeys
  <2>5. CASE \E lock \in Locks : PrefixHashInit(lock)
    BY <1>1, <2>5 DEF PrefixHashInit, Announce
  <2>6. CASE \E chunk \in Chunks, more \in More, p2 \in 1..MaxChunks :
               PrefixHashUpdate(chunk, more, p2)
    BY <1>1, <2>6 DEF PrefixHashUpdate
  <2>7. CASE GenCommitmentMask \/ Blind
    BY <1>1, <2>7 DEF GenCommitmentMask, Blind
  <2> QED BY <1>2, <2>1, <2>2, <2>3, <2>4, <2>5, <2>6, <2>7 DEF BuildCommand
<1>3. CASE ValidateCommand
  BY <1>1, <1>3, ValidateFramed DEF ValidateFrame
<1>4. CASE RingCommand
  BY <1>1, <1>4, RingFramed DEF RingFrame
<1>5. CASE ReadOnlyCommand \/ (\E what \in {"viewKey", "address"} : AskOther(what))
  BY <1>1, <1>5 DEF ReadOnlyCommand, AskOther, txState
<1>6. CASE User
  BY <1>1, <1>6 DEF User, Accept, Reject, AnswerOther, Answered, monero_reset_tx,
                    KeptByReset, txState
<1>7. CASE Reinit \/ Kill \/ Boot
  BY <1>7 DEF Reinit, Kill, Boot, Bzero, txState
<1>8. CASE UNCHANGED vars
  BY <1>8 DEF vars, session, txState
<1> QED BY <1>2, <1>3, <1>4, <1>5, <1>6, <1>7, <1>8 DEF Next

\* Only the last command of INS_VALIDATE seals.
LEMMA OnlyFinalizeSeals ==
  ASSUME Live, RealCommand, ~Sealed, Sealed'
  PROVE  \E message \in {prefixH, <<[kind |-> "other"]>>}, p2 \in Step :
           PrehashFinalize(message, p2)
<1> USE DEF Sealed
<1>1. CASE Builds \/ Prefixes \/ GenCommitmentMask \/ Blind
  <2>1. tx_stages' \subseteq tx_stages \cup {"PREFIX_FINALIZED"}
    <3>1. CASE Builds
      BY <3>1 DEF Builds, Stealth, GenTxoutKeys
    <3>2. CASE Prefixes
      BY <3>2 DEF Prefixes, PrefixHashInit, PrefixHashUpdate
    <3>3. CASE GenCommitmentMask \/ Blind
      BY <3>3 DEF GenCommitmentMask, Blind
    <3> QED BY <1>1, <3>1, <3>2, <3>3
  <2> QED BY <2>1
<1>2. CASE RingCommand
  BY <1>2, RingFramed DEF RingFrame
<1>3. ASSUME NEW amt \in Amount, NEW more \in More, PrehashInitFee(amt, more)
      PROVE  FALSE
  BY <1>3 DEF PrehashInitFee
<1>4. ASSUME NEW more \in More, NEW p2 \in Step, PrehashInit(more, p2)
      PROVE  FALSE
  BY <1>4 DEF PrehashInit
<1>5. ASSUME NEW o \in Output, NEW amt \in Amount, NEW more \in More, NEW p2 \in Step,
             PrehashUpdate(o, amt, more, p2)
      PROVE  FALSE
  <2>1. tx_stages' \subseteq tx_stages \cup {"OUTPUTS_REVIEWED"}
    BY <1>5 DEF PrehashUpdate
  <2> QED BY <2>1
<1>6. ASSUME NEW k \in Commitment, NEW p2 \in Step, PrehashAccumulate(k, p2)
      PROVE  FALSE
  BY <1>6 DEF PrehashAccumulate
<1> QED BY <1>1, <1>2, <1>3, <1>4, <1>5, <1>6 DEF RealCommand, Validates

\* The hash is sealed over what the invariant says of it.
LEMMA Seals ==
  ASSUME AskedInv, ~Building => ToldInv, PrefixInv, OutputsInv, BodyInv, ProtocolInv,
         review = <<>>, Live, ~Sealed,
         NEW message \in {prefixH, <<[kind |-> "other"]>>}, NEW p2 \in Step,
         PrehashFinalize(message, p2)
  PROVE  SealedInv'
<1>1. /\ Sync /\ ValidateStep(3, p2) /\ Finalizable(message)
      /\ mlsagH' = <<[message |-> message, body |-> keccakH]>>
      /\ commitment' = Append(commitment, Final)
      /\ UNCHANGED <<C, OUT_EPH, tx_payment_id>>
  BY DEF PrehashFinalize, Live, outChains, txInfo
<1>2. /\ Closed /\ Finalized /\ commitment = C
      /\ protocol' >= 3 => message = prefixH
  BY <1>1 DEF Finalizable, Live, monero_tx_stages_check, Closed, Finalized
<1>3. message = prefixH
  <2>1. protocol \in {3, 4} /\ protocol' = protocol
    BY <1>1 DEF ProtocolInv, Live, Sync, Listening, check_protocol, Unset
  <2> QED BY <1>2, <2>1
<1>4. Headed(message) /\ Parsed(message)
  BY <1>2, <1>3 DEF PrefixInv
<1>5. tx_state.ins = "VALIDATE"
  BY <1>1, StepPositive, ValidateTurns
<1>6. Told' = Told
  <2>1. SilentFrame
    BY SilentFramed DEF Silent
  <2> QED BY <2>1, ToldStill DEF SilentFrame
<1>7. \A s : (Headed(s)' <=> Headed(s)) /\ (Parsed(s)' <=> Parsed(s))
  BY <1>1, <1>6, PrefixKept
<1>8. mlsagH' = <<mlsagH'[1]>> /\ mlsagH'[1].message = message /\ mlsagH'[1].body = keccakH
  BY <1>1
<1>9. /\ C \in Seq(Commitment) /\ commitment' \in Seq(Commitment \cup {Final})
      /\ Len(commitment') > Len(C)
  BY <1>1, <1>2 DEF OutputsInv
<1>10. Told.fee = <<keccakH[1]>>
  BY <1>5 DEF BodyInv
<1>11. PICK p \in Nat, extra \in 0..Len(C) : ClosedBody(keccakH, p, extra, C, C)
  BY <1>2, <1>5 DEF BodyInv
<1>12. Headed(mlsagH[1].message)' /\ Parsed(mlsagH[1].message)'
  BY <1>4, <1>7, <1>8
<1> QED BY <1>1, <1>6, <1>8, <1>9, <1>10, <1>11, <1>12 DEF SealedInv

\* What follows the seal are commitments nothing is made of, and ring signatures.
LEMMA AfterSeal ==
  ASSUME AskedInv, SealInv, Sealed, Live, RealCommand
  PROVE  \/ RingCommand
         \/ \E k \in Commitment, p2 \in Step : PrehashAccumulate(k, p2)
         \/ \E message \in {prefixH, <<[kind |-> "other"]>>}, p2 \in Step :
              PrehashFinalize(message, p2)
<1>1. (tx_state.ins = "VALIDATE" /\ tx_state.p1 = 3) \/ tx_state.ins \in {"MLSAG", "CLSAG"}
  BY DEF SealInv, Sealed, In, After
<1>2. ASSUME NEW p1 \in {1, 2}, NEW p2 \in Nat \ {0}, ValidateStep(p1, p2)
      PROVE  FALSE
  <2>1. p1 \in 1..3
    OBVIOUS
  <2>2. tx_state.ins = "BLIND" \/ (tx_state.ins = "VALIDATE" /\ tx_state.p1 \in {1, 2})
    BY <1>2, <2>1, ValidateTurns
  <2> QED BY <1>1, <2>2
<1>3. ASSUME NEW amt \in Amount, NEW more \in More, PrehashInitFee(amt, more)
      PROVE  FALSE
  BY <1>2, <1>3 DEF PrehashInitFee
<1>4. ASSUME NEW more \in More, NEW p2 \in Step, PrehashInit(more, p2)
      PROVE  FALSE
  BY <1>2, <1>4, StepPositive DEF PrehashInit
<1>5. ASSUME NEW o \in Output, NEW amt \in Amount, NEW more \in More, NEW p2 \in Step,
             PrehashUpdate(o, amt, more, p2)
      PROVE  FALSE
  BY <1>2, <1>5, StepPositive DEF PrehashUpdate
<1>6. ~(Builds \/ Prefixes \/ GenCommitmentMask \/ Blind)
  <2>1. ~Builds
    BY <1>1 DEF Builds, Stealth, GenTxoutKeys, After
  <2>2. ~Prefixes
    BY <1>1 DEF Prefixes, PrefixHashInit, PrefixHashUpdate, After, In
  <2>3. ~GenCommitmentMask /\ ~Blind
    BY <1>1 DEF GenCommitmentMask, Blind, After
  <2> QED BY <2>1, <2>2, <2>3
<1> QED BY <1>3, <1>4, <1>5, <1>6 DEF RealCommand, Validates

\* The seal stays over what it was put on, command by command.
LEMMA SealedCommand ==
  ASSUME AskedInv, ~Building => ToldInv, PrefixInv, OutputsInv, BodyInv, SealedInv,
         SealInv, ProtocolInv, review = <<>>, Live, RealCommand
  PROVE  SealedInv'
<1>1. CASE ~Sealed
  <2>1. CASE Sealed'
    BY <1>1, <2>1, OnlyFinalizeSeals, Seals
  <2>2. CASE ~Sealed'
    BY <2>2 DEF SealedInv
  <2> QED BY <2>1, <2>2
<1>2. CASE Sealed
  <2>1. /\ commitment \in Seq(Commitment \cup {Final}) /\ Len(commitment) > Len(C)
        /\ mlsagH = <<mlsagH[1]>>
        /\ Headed(mlsagH[1].message) /\ Parsed(mlsagH[1].message)
        /\ Told.fee = <<mlsagH[1].body[1]>>
        /\ \E p \in Nat, extra \in 0..Len(C) : ClosedBody(mlsagH[1].body, p, extra, C, C)
    BY <1>2 DEF SealedInv
  <2>2. ASSUME NEW message \in {prefixH, <<[kind |-> "other"]>>}, NEW p2 \in Step,
               PrehashFinalize(message, p2)
        PROVE  FALSE
    <3>1. commitment = C
      BY <2>2 DEF PrehashFinalize, Finalizable, Live
    <3>2. Len(commitment) \in Nat
      BY <2>1
    <3> QED BY <2>1, <3>1, <3>2
  <2>3. CASE \/ RingCommand
             \/ \E k \in Commitment, p2 \in Step : PrehashAccumulate(k, p2)
    <3>1. SilentFrame
      BY <2>3, SilentFramed DEF Silent
    <3>2. Told' = Told
      BY <3>1, ToldStill DEF SilentFrame
    <3>3. \A s : (Headed(s)' <=> Headed(s)) /\ (Parsed(s)' <=> Parsed(s))
      BY <3>1, <3>2, PrefixKept DEF SilentFrame
    <3>4. UNCHANGED <<mlsagH, C>>
      BY <2>3, RingFramed DEF RingFrame, PrehashAccumulate, sums
    <3>5. /\ commitment' \in Seq(Commitment \cup {Final})
          /\ Len(commitment') > Len(C)
      <4>1. CASE RingCommand
        <5>1. UNCHANGED commitment
          BY <4>1, RingFramed DEF RingFrame, sums
        <5> QED BY <2>1, <5>1
      <4>2. ASSUME NEW k \in Commitment, NEW p2 \in Step, PrehashAccumulate(k, p2)
            PROVE  /\ commitment' \in Seq(Commitment \cup {Final})
                   /\ Len(commitment') > Len(C)
        <5>1. commitment' = Append(commitment, k)
          BY <4>2 DEF PrehashAccumulate
        <5>2. Closed
          BY <1>2 DEF SealInv, SealIsWhole, Sealed, Closed, Stages
        <5>3. Len(C) \in Nat
          BY <5>2 DEF OutputsInv
        <5> QED BY <2>1, <5>1, <5>3
      <4> QED BY <2>3, <4>1, <4>2
    <3>6. Headed(mlsagH[1].message)' /\ Parsed(mlsagH[1].message)'
      BY <2>1, <3>3, <3>4
    <3> QED BY <2>1, <3>2, <3>4, <3>5, <3>6 DEF SealedInv
  <2> QED BY <1>2, <2>2, <2>3, AfterSeal
<1> QED BY <1>1, <1>2

-----------------------------------------------------------------------------
(* Every step: ReviewInv. *)

\* Nothing happens to a transaction left alone.
LEMMA IdleKeeps == ASSUME ReviewInv, Live, Idle PROVE ReviewInv'
<1>1. UNCHANGED <<txState, shown, rows>>
  BY DEF Idle
<1>2. /\ UNCHANGED <<tx_stages, tx_state, tx_payment_id, outkeys, OUTK, out_eph, OUT_EPH>>
      /\ UNCHANGED <<prefix_outkeys_done, commitment, C, keccakH, prefixH, mlsagH>>
  BY <1>1 DEF txState, txInfo, outChains, sums, hashes
<1>3. Told' = Told /\ (Asking' <=> Asking)
  BY <1>1, <1>2 DEF Idle, Told, Approved
<1>4. AskedInv'
  BY <1>1, <1>2, <1>3 DEF ReviewInv, AskedInv, Approved, Closed, Fixed, Signing, Building
<1>5. (~Building => ToldInv)'
  BY <1>2, <1>3 DEF ReviewInv, ToldInv, Sound, Fixed, Signing, Building
<1>6. DerivedInv'
  BY <1>2 DEF ReviewInv, DerivedInv, Derived, KeysOf, Fixed, Signing, Building
<1>7. PrefixInv'
  BY <1>2, <1>3 DEF ReviewInv, PrefixInv, Headed, Parsed, Building, Finalized
<1>8. OutputsInv'
  BY <1>1, <1>2, <1>3 DEF ReviewInv, OutputsInv, Outputs, Amounts, Closed, Approved
<1>9. BodyInv'
  BY <1>2, <1>3 DEF ReviewInv, BodyInv, Sealed, Closed
<1>10. SealedInv'
  BY <1>2, <1>3 DEF ReviewInv, SealedInv, Headed, Parsed, Sealed
<1> QED BY <1>4, <1>5, <1>6, <1>7, <1>8, <1>9, <1>10 DEF ReviewInv

\* An answer changes what is on screen into what was shown.
LEMMA AcceptKeeps == ASSUME ReviewInv, Live, Accept PROVE ReviewInv'
<1>1. /\ AskedInv /\ (~Building => ToldInv) /\ DerivedInv /\ PrefixInv
      /\ OutputsInv /\ BodyInv /\ SealedInv
  BY DEF ReviewInv
<1>2. /\ Told' = Told /\ shown' = Told /\ Asking /\ ~Asking'
      /\ Approved' <=> Approved \/ Closed
  BY <1>1, AcceptTells
<1>3. /\ UNCHANGED <<tx_state, tx_payment_id, outkeys, OUTK, out_eph, OUT_EPH>>
      /\ UNCHANGED <<prefix_outkeys_done, commitment, C, keccakH, prefixH, mlsagH>>
      /\ tx_stages' \in {tx_stages, tx_stages \cup {"USER_APPROVED"}}
  BY DEF Accept, txInfo, outChains, sums, hashes
<1>4. ~Building /\ ToldInv
  BY <1>1, <1>2 DEF AskedInv
<1>5. /\ (Closed' <=> Closed) /\ (Finalized' <=> Finalized) /\ (Sealed' <=> Sealed)
      /\ (Building' <=> Building) /\ (Fixed' <=> Fixed) /\ (Signing' <=> Signing)
  BY <1>3 DEF Closed, Finalized, Sealed, Building, Fixed, Signing
<1>6. AskedInv'
  BY <1>1, <1>2, <1>3, <1>4, <1>5 DEF AskedInv, ToldInv
<1>7. ToldInv'
  BY <1>2, <1>3, <1>4, <1>5 DEF ToldInv, Sound
<1>8. DerivedInv'
  BY <1>1, <1>3, <1>5 DEF DerivedInv, Derived, KeysOf
<1>9. PrefixInv'
  BY <1>1, <1>2, <1>3, <1>5 DEF PrefixInv, Headed, Parsed
<1>10. OutputsInv'
  BY <1>1, <1>2, <1>3, <1>5 DEF OutputsInv, Outputs, Amounts
<1>11. BodyInv'
  BY <1>1, <1>2, <1>3, <1>5 DEF BodyInv
<1>12. SealedInv'
  BY <1>1, <1>2, <1>3, <1>5 DEF SealedInv, Headed, Parsed
<1> QED BY <1>6, <1>7, <1>8, <1>9, <1>10, <1>11, <1>12 DEF ReviewInv

\* A transaction is opened with nothing told, derived or hashed.
LEMMA OpenTxClears == ASSUME OpenTx PROVE ReviewInv'
<1>1. /\ tx_state' = At("OPEN_TX", 1, 0) /\ tx_stages' = {} /\ review' = <<>>
      /\ shown' = NoItems /\ outkeys' = <<>> /\ out_eph' = <<>> /\ keccakH' = <<>>
  BY DEF OpenTx, ClearTx, Goto
<1>2. Building' /\ ~Fixed' /\ ~Asking' /\ ~Signing'
  BY <1>1 DEF Building, Fixed, Signing, Asking, At
<1>3. ~Approved' /\ ~Closed' /\ ~Finalized' /\ ~Sealed'
  BY <1>1 DEF Approved, Closed, Finalized, Sealed
<1>4. tx_state'.ins = "OPEN_TX" /\ tx_state'.ins # "VALIDATE"
      /\ tx_state'.ins # "PREFIX_HASH"
  BY <1>1 DEF At
<1>5. AskedInv'
  BY <1>1, <1>2, <1>3, <1>4, NothingTold DEF AskedInv
<1>6. DerivedInv'
  BY <1>1, <1>2 DEF DerivedInv, Derived, KeysOf
<1>7. PrefixInv'
  BY <1>1, <1>3, <1>4 DEF PrefixInv
<1>8. OutputsInv' /\ BodyInv' /\ SealedInv'
  BY <1>3, <1>4 DEF OutputsInv, BodyInv, SealedInv
<1> QED BY <1>2, <1>5, <1>6, <1>7, <1>8 DEF ReviewInv

\* What holds besides it, of every transaction.
Grounds == Quiet /\ SealInv /\ OutputsOK /\ FlagsOK /\ ProtocolInv

\* Every step preserves the invariant.
LEMMA ReviewStep == ASSUME ReviewInv, Grounds, [Next]_vars PROVE ReviewInv'
<1> SUFFICES ASSUME Live'
             PROVE  ReviewInv'
  BY DEF ReviewInv
<1>1. CASE OpenTx
  BY <1>1, OpenTxClears
<1>2. CASE Live /\ Idle
  BY <1>2, IdleKeeps
<1>3. CASE Live /\ Accept
  BY <1>3, AcceptKeeps
<1>4. CASE Live /\ review = <<>> /\ RealCommand
  <2>1. /\ AskedInv /\ (~Building => ToldInv) /\ DerivedInv /\ PrefixInv
        /\ OutputsInv /\ BodyInv /\ SealedInv
    BY <1>4 DEF ReviewInv
  <2>2. SealInv /\ OutputsOK /\ FlagsOK /\ ProtocolInv
    BY DEF Grounds
  <2>3. AskedInv'
    BY <1>4, <2>1, AskedStep
  <2>4. ~Building' => ToldInv'
    BY <1>4, <2>1, <2>2, ToldCommand
  <2>5. DerivedInv'
    BY <1>4, <2>1, <2>2, DerivedCommand
  <2>6. PrefixInv'
    BY <1>4, <2>1, <2>2, PrefixCommand
  <2>7. OutputsInv'
    BY <1>4, <2>1, <2>2, <2>3, OutputsCommand
  <2>8. BodyInv'
    BY <1>4, <2>1, <2>2, <2>3, BodyCommand
  <2>9. SealedInv'
    BY <1>4, <2>1, <2>2, SealedCommand
  <2> QED BY <2>3, <2>4, <2>5, <2>6, <2>7, <2>8, <2>9 DEF ReviewInv
<1> QED BY <1>1, <1>2, <1>3, <1>4, StepCases DEF Grounds

\* The invariant holds throughout.
LEMMA ReviewAlways == Spec => [](ReviewInv /\ Grounds)
<1>1. Init => ReviewInv /\ Grounds
  <2> SUFFICES ASSUME Init
               PROVE  ReviewInv /\ Grounds
    OBVIOUS
  <2>1. ReviewInv
    BY DEF Init, ReviewInv, Live
  <2>2. Quiet /\ SealInv
    BY DEF Init, Quiet, SealInv, StagesOK, SealIsWhole
  <2>3. OutputsOK /\ FlagsOK
    <3>1. MaxOutputs \in Nat
      BY ConstantsOK DEF ConstantsOK
    <3>2. tx_output_cnt \in 0..MaxOutputs
      BY <3>1 DEF Init
    <3> QED BY <3>2 DEF Init, OutputsOK, FlagsOK
  <2>4. ProtocolInv
    BY DEF Init, ProtocolInv, Real
  <2> QED BY <2>1, <2>2, <2>3, <2>4 DEF Grounds
<1>2. ReviewInv /\ Grounds /\ [Next]_vars => (ReviewInv /\ Grounds)'
  <2> SUFFICES ASSUME ReviewInv, Grounds, [Next]_vars
               PROVE  (ReviewInv /\ Grounds)'
    OBVIOUS
  <2>1. ReviewInv'
    BY ReviewStep
  <2>2. SealInv'
    BY SealStep DEF Grounds
  <2>3. Quiet' /\ OutputsOK' /\ FlagsOK' /\ ProtocolInv'
    BY <2>2, QuietStep, OutputsStep, FlagsStep, ProtocolStep DEF Grounds
  <2> QED BY <2>1, <2>2, <2>3 DEF Grounds
<1> QED BY <1>1, <1>2, PTL DEF Spec

-----------------------------------------------------------------------------
(* What the runs check of it. *)

\* A transaction that is not for real has no stage, and asks nothing.
FakeInv == tx_in_progress /\ ~Real => tx_stages = {} /\ ~Asking

\* No step of such a transaction raises a stage or asks.
LEMMA FakeStep == ASSUME FakeInv, Quiet, [Next]_vars PROVE FakeInv'
<1> USE DEF FakeInv, Real
<1>1. ASSUME tx_in_progress, UNCHANGED tx_sig_mode, ~Real => UNCHANGED tx_stages /\ ~Asking'
      PROVE  FakeInv'
  BY <1>1
<1>2. tx_in_progress /\ Listening => review = <<>>
  BY DEF Quiet, Listening
<1>3. ASSUME review = <<>>, UNCHANGED review
      PROVE  ~Asking'
  BY <1>3 DEF Asking
<1>4. CASE BuildCommand
  <2>1. CASE \E mode \in HostModes : SetSignatureMode(mode)
    BY <2>1 DEF SetSignatureMode
  <2>2. CASE OpenTx \/ CloseTx
    BY <2>2 DEF OpenTx, CloseTx, monero_reset_tx, ClearTx, Asking
  <2>3. CASE \E pid \in PaymentId : Stealth(pid)
    BY <1>1, <1>2, <1>3, <2>3 DEF Stealth, Sync
  <2>4. CASE \E to \in Dest, chg \in BOOLEAN : GenTxoutKeys(to, chg)
    BY <1>1, <1>2, <1>3, <2>4 DEF GenTxoutKeys, Sync
  <2>5. ASSUME NEW lock \in Locks, PrefixHashInit(lock)
        PROVE  FakeInv'
    <3>1. tx_in_progress /\ UNCHANGED tx_sig_mode /\ tx_stages' = tx_stages \ {"PREFIX_FINALIZED"}
      BY <2>5 DEF PrefixHashInit
    <3>2. CASE ~Real
      <4>1. Sync
        BY <2>5, <3>2 DEF PrefixHashInit
      <4> QED BY <1>2, <1>3, <3>1, <3>2, <4>1 DEF Sync
    <3>3. CASE Real
      BY <3>1, <3>3
    <3> QED BY <3>2, <3>3
  <2>6. ASSUME NEW chunk \in Chunks, NEW more \in More, NEW p2 \in 1..MaxChunks,
               PrefixHashUpdate(chunk, more, p2)
        PROVE  FakeInv'
    BY <1>1, <1>2, <1>3, <2>6 DEF PrefixHashUpdate, Sync
  <2>7. CASE GenCommitmentMask \/ Blind
    BY <1>1, <1>2, <1>3, <2>7 DEF GenCommitmentMask, Blind, Sync
  <2> QED BY <1>4, <2>1, <2>2, <2>3, <2>4, <2>5, <2>6, <2>7 DEF BuildCommand
<1>5. CASE ValidateCommand
  <2>1. ASSUME NEW amt \in Amount, NEW more \in More, PrehashInitFee(amt, more)
        PROVE  FakeInv'
    BY <2>1 DEF PrehashInitFee
  <2>2. ASSUME NEW more \in More, NEW p2 \in Step, PrehashInit(more, p2)
        PROVE  FakeInv'
    BY <1>1, <1>2, <1>3, <2>2 DEF PrehashInit, Sync, ValidateStep
  <2>3. ASSUME NEW o \in Output, NEW amt \in Amount, NEW more \in More, NEW p2 \in Step,
               PrehashUpdate(o, amt, more, p2) \/ PrehashUpdateOverflow(o, amt, more, p2)
        PROVE  FakeInv'
    BY <2>3 DEF PrehashUpdate, PrehashUpdateOverflow, monero_reset_tx
  <2>4. ASSUME NEW o \in Output, NEW amt \in Amount, NEW p2 \in Step,
               PrehashUpdateFake(o, amt, p2)
        PROVE  FakeInv'
    BY <1>1, <1>2, <1>3, <2>4 DEF PrehashUpdateFake, Sync, ValidateStep
  <2>5. ASSUME NEW k \in Commitment, NEW p2 \in Step, PrehashAccumulate(k, p2)
        PROVE  FakeInv'
    BY <1>1, <1>2, <1>3, <2>5 DEF PrehashAccumulate, Sync, ValidateStep
  <2>6. ASSUME NEW message \in {prefixH, <<[kind |-> "other"]>>}, NEW p2 \in Step,
               PrehashFinalize(message, p2)
        PROVE  FakeInv'
    BY <1>1, <1>2, <1>3, <2>6 DEF PrehashFinalize, Sync, ValidateStep
  <2> QED BY <1>5, <2>1, <2>2, <2>3, <2>4, <2>5, <2>6 DEF ValidateCommand
<1>6. CASE RingCommand
  BY <1>2, <1>3, <1>6, RingFramed DEF RingFrame, Sync
<1>7. CASE ReadOnlyCommand \/ Boot \/ UNCHANGED vars
  BY <1>7 DEF ReadOnlyCommand, Sync, Boot, vars, session, txState, Asking
<1>8. ASSUME NEW what \in {"viewKey", "address"}, AskOther(what)
      PROVE  FakeInv'
  <2>1. review' = <<Question(what, [kind |-> what], FALSE)>>
    BY <1>8 DEF AskOther
  <2>2. ~Asking'
    BY <2>1 DEF Asking, Question
  <2> QED BY <1>8, <2>2 DEF AskOther, txState
<1>9. CASE User
  <2>1. CASE Accept
    BY <2>1 DEF Accept, Asking
  <2>2. CASE Reject
    BY <2>2 DEF Reject, monero_reset_tx
  <2>3. CASE AnswerOther
    BY <2>3 DEF AnswerOther, Answered, txState, Asking
  <2> QED BY <1>9, <2>1, <2>2, <2>3 DEF User
<1>10. CASE Reinit \/ Kill
  BY <1>10 DEF Reinit, Kill, Bzero
<1> QED BY <1>4, <1>5, <1>6, <1>7, <1>8, <1>9, <1>10 DEF Next

\* So it stays.
LEMMA FakeAlways == Spec => []FakeInv
<1>1. Init => FakeInv
  BY DEF Init, FakeInv
<1>2. FakeInv /\ Grounds /\ [Next]_vars => FakeInv'
  BY FakeStep DEF Grounds
<1> QED BY <1>1, <1>2, ReviewAlways, PTL DEF Spec

\* What is on screen comes after what was shown.
LEMMA ShownFirst ==
  ASSUME ItemsOK(shown), NEW i \in 1..Len(shown.out), Touch => Approved
  PROVE  Told.out[i] = shown.out[i]
<1>1. CASE ~Touch /\ Asking
  <2> DEFINE x == review[1].item
  <2>1. Told = Add(shown, x) /\ Shape(shown) /\ shown.out \in Seq(OutItem)
    BY <1>1 DEF Told, ItemsOK
  <2> HIDE DEF x
  <2>2. Told.out = IF x.kind = "out" THEN Append(shown.out, x) ELSE shown.out
    BY <2>1 DEF Add, Shape, Items
  <2> QED BY <2>1, <2>2
<1>2. CASE ~(~Touch /\ Asking)
  BY <1>2 DEF Told
<1> QED BY <1>1, <1>2

\* The outputs reviewed are those derived, with the amounts committed to.
LEMMA Reviewed ==
  ASSUME ReviewInv, Live, Approved
  PROVE  /\ OUTK \in Seq(Output) /\ C \in Seq(Commitment) /\ Len(C) = Len(OUTK)
         /\ Len(OUTK) <= Len(shown.out) /\ shown.out \in Seq(OutItem)
         /\ DOMAIN ReviewedOuts = 1..Len(OUTK)
         /\ \A i \in 1..Len(OUTK) :
              /\ ReviewedOuts[i] = shown.out[i] /\ ReviewedOuts[i] = Told.out[i]
              /\ ReviewedOuts[i].out = OUTK[i]
              /\ C[i] = Commit(ReviewedOuts[i].out, ReviewedOuts[i].amt)
              /\ Sound(ReviewedOuts[i])
         /\ C = ReviewedCommitments
<1>1. AskedInv /\ Closed /\ ToldInv /\ DerivedInv /\ OutputsInv /\ ItemsOK(shown)
  <2>1. AskedInv /\ (~Building => ToldInv) /\ DerivedInv /\ OutputsInv
    BY DEF ReviewInv
  <2>2. Closed /\ ~Building /\ ItemsOK(shown)
    BY <2>1 DEF AskedInv, Approved
  <2> QED BY <2>1, <2>2
<1>2. OUTK \in Seq(Output)
  BY <1>1 DEF AskedInv, DerivedInv, Derived
<1>3. /\ C \in Seq(Commitment) /\ Len(C) = Len(OUTK) /\ Len(OUTK) <= Len(Told.out)
      /\ Outputs(Told.out, OUTK) /\ Amounts(Told.out, C) /\ Len(OUTK) <= Len(shown.out)
  BY <1>1 DEF OutputsInv
<1>4. shown.out \in Seq(OutItem) /\ Told.out \in Seq(OutItem)
  BY <1>1 DEF ItemsOK, ToldInv
<1> DEFINE n == Len(OUTK)
<1>5. n \in Nat /\ n <= Len(shown.out) /\ Len(shown.out) \in Nat /\ Len(Told.out) \in Nat
  BY <1>2, <1>3, <1>4
<1>6. /\ DOMAIN ReviewedOuts = 1..n
      /\ \A i \in 1..n : ReviewedOuts[i] = shown.out[i]
  BY <1>4, <1>5 DEF ReviewedOuts
<1>7. \A i \in 1..n : i \in 1..Len(shown.out) /\ i \in 1..Len(Told.out)
  BY <1>3, <1>5
<1>8. \A i \in 1..n : ReviewedOuts[i] = Told.out[i]
  BY <1>1, <1>6, <1>7, ShownFirst
<1>9. ASSUME NEW i \in 1..n
      PROVE  /\ ReviewedOuts[i].out = OUTK[i] /\ Sound(ReviewedOuts[i])
             /\ C[i] = Commit(ReviewedOuts[i].out, ReviewedOuts[i].amt)
  BY <1>1, <1>3, <1>7, <1>8 DEF Outputs, Amounts, ToldInv
<1>10. C = [i \in 1..n |-> C[i]]
  BY <1>3
<1>11. C = ReviewedCommitments
  BY <1>6, <1>9, <1>10 DEF ReviewedCommitments
<1> QED BY <1>2, <1>3, <1>4, <1>6, <1>8, <1>9, <1>11

-----------------------------------------------------------------------------
\* monero_prehash.c, monero_key.c, the review screens: what the user approved is,
\* output by output, what the device derived; the commitments it insists on are to
\* the amounts that were shown; and a destination was shown with its address.
THEOREM ApprovedAreDerived == Spec => []ApprovedOutputs
<1>1. ASSUME ReviewInv, FakeInv
      PROVE  ApprovedOutputs
  <2> SUFFICES ASSUME tx_in_progress, Approved
               PROVE  ApprovedOutputs
    BY DEF ApprovedOutputs, Approved
  <2>1. Live
    BY <1>1 DEF FakeInv, Live, Approved
  <2>2. /\ OUTK \in Seq(Output) /\ DOMAIN ReviewedOuts = 1..Len(OUTK)
        /\ C = ReviewedCommitments
        /\ \A i \in 1..Len(OUTK) :
             /\ ReviewedOuts[i] = Told.out[i] /\ ReviewedOuts[i].out = OUTK[i]
             /\ Sound(ReviewedOuts[i])
    BY <1>1, <2>1, Reviewed
  <2>3. [i \in DOMAIN ReviewedOuts |-> ReviewedOuts[i].out] = OUTK
    <3>1. OUTK = [i \in 1..Len(OUTK) |-> OUTK[i]]
      BY <2>2
    <3> QED BY <2>2, <3>1
  <2>4. ToldInv /\ OutputsInv /\ Closed
    <3>1. AskedInv /\ (~Building => ToldInv) /\ OutputsInv
      BY <1>1, <2>1 DEF ReviewInv
    <3> QED BY <3>1 DEF AskedInv, Approved
  <2>5. ASSUME NEW i \in DOMAIN ReviewedOuts
        PROVE  IF ReviewedOuts[i].out.chg
               THEN ReviewedOuts[i].amt # 0 => ReviewedOuts[i].out.to \in Own
               ELSE Touch => \E j \in DOMAIN shown.address :
                               shown.address[j] = Address(ReviewedOuts[i].out)
    <3>1. CASE ReviewedOuts[i].out.chg
      BY <2>2, <3>1 DEF Sound
    <3>2. CASE ~ReviewedOuts[i].out.chg /\ Touch
      <4>1. Told = shown
        BY <3>2 DEF Told
      <4>2. i \in 1..Len(Told.out)
        BY <2>2, <2>4 DEF OutputsInv, ToldInv, ItemsOK
      <4>3. \E j \in 1..Len(shown.address) :
              shown.address[j] = Address(ReviewedOuts[i].out)
        BY <2>2, <2>4, <3>2, <4>1, <4>2 DEF ToldInv
      <4>4. DOMAIN shown.address = 1..Len(shown.address)
        BY <2>4, <4>1 DEF ToldInv, ItemsOK
      <4> QED BY <3>2, <4>3, <4>4
    <3>3. CASE ~ReviewedOuts[i].out.chg /\ ~Touch
      BY <3>3
    <3> QED BY <3>1, <3>2, <3>3
  <2> QED BY <2>2, <2>3, <2>5 DEF ApprovedOutputs
<1> QED BY <1>1, FakeAlways, ReviewAlways, PTL

\* What is sealed was shown to the last item.
LEMMA SealedIsShown ==
  ASSUME ReviewInv, Grounds, Sealed
  PROVE  /\ Live /\ Approved /\ Closed /\ Told = shown
         /\ AskedInv /\ ToldInv /\ DerivedInv /\ OutputsInv /\ SealedInv
<1>1. Live /\ Approved /\ Closed
  BY DEF Grounds, SealInv, SealIsWhole, Sealed, Live, Approved, Closed, Stages
<1>2. ~Asking
  BY <1>1 DEF Grounds, Quiet, Live, Asking
<1>3. Told = shown
  BY <1>1, <1>2 DEF Told
<1>4. AskedInv /\ (~Building => ToldInv) /\ DerivedInv /\ OutputsInv /\ SealedInv
  BY <1>1 DEF ReviewInv
<1> QED BY <1>1, <1>3, <1>4 DEF AskedInv, Approved

\* monero_prefix.c, monero_prehash.c: the prefix under the hash to be signed carries
\* the outputs that were reviewed and no other, in their order, locks nothing the user
\* was not told of, and has the payment ID shown with every destination.
THEOREM PrefixIsReviewed == Spec => []SignedPrefixIsReviewed
<1>1. ASSUME ReviewInv, Grounds
      PROVE  SignedPrefixIsReviewed
  <2> SUFFICES ASSUME Sealed
               PROVE  SignedPrefixIsReviewed
    BY DEF SignedPrefixIsReviewed, Sealed
  <2> DEFINE prefix == mlsagH[1].message
             nonce  == prefix[EndOf(prefix)].nonce
  <2>1. /\ Live /\ Approved /\ Closed /\ Told = shown
        /\ AskedInv /\ DerivedInv /\ SealedInv
    BY <1>1, SealedIsShown
  <2>2. /\ DOMAIN ReviewedOuts = 1..Len(OUTK) /\ OUTK \in Seq(Output)
        /\ \A i \in 1..Len(OUTK) :
             ReviewedOuts[i].out = OUTK[i] /\ Sound(ReviewedOuts[i])
    BY <1>1, <2>1, Reviewed
  <2>3. Headed(prefix) /\ Parsed(prefix)
    BY <2>1 DEF SealedInv
  <2>4. OUT_EPH \in Seq(EphKey) /\ KeysOf(OUT_EPH, OUTK)
    <3>1. Fixed /\ ~Building
      BY <2>1 DEF AskedInv, Fixed, Signing, Building
    <3> QED BY <2>1, <3>1 DEF DerivedInv, Derived
  <2>5. OUT_EPH = [i \in DOMAIN ReviewedOuts |-> Key(ReviewedOuts[i].out)]
    <3>1. OUT_EPH = [i \in 1..Len(OUT_EPH) |-> OUT_EPH[i]]
      BY <2>4
    <3>2. /\ Len(OUT_EPH) = Len(OUTK)
          /\ \A i \in 1..Len(OUTK) : OUT_EPH[i] = Key(ReviewedOuts[i].out)
      BY <2>2, <2>4 DEF KeysOf
    <3> QED BY <2>2, <3>1, <3>2
  <2>6. /\ Ends(prefix) # {} /\ Carries(prefix, EndOf(prefix), OUT_EPH)
        /\ nonce = tx_payment_id
    BY <2>3 DEF Parsed
  <2>7. prefix[1].lock <=> shown.timelock # <<>>
    BY <2>1, <2>3 DEF Headed
  <2> HIDE DEF nonce, prefix
  <2>8. ASSUME NEW i \in DOMAIN ReviewedOuts, ~ReviewedOuts[i].out.chg
        PROVE  /\ ReviewedOuts[i].pid <=> nonce # <<>> /\ ~nonce[1].dummy
               /\ nonce # <<>> => nonce[1].to = ReviewedOuts[i].out.to
    BY <2>2, <2>6, <2>8 DEF Sound
  <2> QED BY <2>5, <2>6, <2>7, <2>8 DEF SignedPrefixIsReviewed, prefix, nonce
<1> QED BY <1>1, ReviewAlways, PTL

\* monero_prehash.c: the rest of that hash has the fee that was shown and the amounts
\* and commitments of the outputs reviewed; what else is in it takes the place of
\* commitments, and hides none of the amounts.
THEOREM BodyIsReviewed == Spec => []SignedBodyIsReviewed
<1>1. ASSUME ReviewInv, Grounds
      PROVE  SignedBodyIsReviewed
  <2> SUFFICES ASSUME Sealed
               PROVE  SignedBodyIsReviewed
    BY DEF SignedBodyIsReviewed, Sealed
  <2> DEFINE body == mlsagH[1].body
             n    == Len(OUTK)
             p    == Len(body) - 1 - 2 * n
  <2>1. Live /\ Approved /\ Told = shown /\ SealedInv
    BY <1>1, SealedIsShown
  <2>2. /\ OUTK \in Seq(Output) /\ Len(C) = n /\ C = ReviewedCommitments
    BY <1>1, <2>1, Reviewed
  <2>3. n \in Nat
    BY <2>2
  <2>4. shown.fee = <<body[1]>>
    BY <2>1 DEF SealedInv
  <2>5. PICK q \in Nat, extra \in 0..n : ClosedBody(body, q, extra, C, C)
    BY <2>1, <2>2 DEF SealedInv
  <2> HIDE DEF body
  <2>6. /\ Len(body) = 1 + q + n + n
        /\ \A i \in 1..q : body[1 + i] = PseudoOut
        /\ \A i \in 1..n + extra : body[1 + q + i].kind = "ecdhInfo"
        /\ \A i \in 1..n : body[1 + q + i].of = C[i]
        /\ \A i \in extra + 1..n : body[1 + q + n + i] = OutPk(C[i])
    BY <2>2, <2>5 DEF ClosedBody
  <2>7. p = q
    BY <2>3, <2>6
  <2> HIDE DEF n, p
  <2>8. ASSUME NEW i \in 1..n - extra
        PROVE  body[1 + q + n + extra + i] = OutPk(C[extra + i])
    <3>1. /\ extra + i \in extra + 1..n
          /\ 1 + q + n + (extra + i) = 1 + q + n + extra + i
      BY <2>3
    <3> QED BY <2>6, <3>1
  <2> QED
    BY <2>2, <2>4, <2>6, <2>7, <2>8 DEF SignedBodyIsReviewed, body, n, p
<1> QED BY <1>1, ReviewAlways, PTL

-----------------------------------------------------------------------------
(* What overflows cannot break: a review that does not fit takes its transaction *)
(* with it.                                                                      *)

\* monero_types.h, the stages of a transaction: on either kind of device a transaction
\* in progress has a stage only for real work done in it, and in the order the
\* review needs.
THEOREM StagesAreEarned == Spec => [](tx_in_progress => StagesEarned)
<1>1. ReviewInv /\ Grounds /\ FakeInv => (tx_in_progress => StagesEarned)
  <2> SUFFICES ASSUME ReviewInv, Grounds, FakeInv, tx_in_progress
               PROVE  StagesEarned
    OBVIOUS
  <2>1. Real => (Approved => Closed)
    BY DEF ReviewInv, Live, AskedInv
  <2>2. tx_stages # {} => Real
    BY DEF FakeInv
  <2>3. Approved => Closed
    BY <2>1, <2>2 DEF Approved
  <2> QED BY <2>2, <2>3 DEF StagesEarned, Grounds, SealInv, Approved, Closed
<1> QED BY <1>1, FakeAlways, ReviewAlways, PTL

\* A command runs when no reply is owed.
LEMMA CommandsListen ==
  ASSUME BuildCommand \/ ValidateCommand \/ RingCommand
  PROVE  ~io_reply_pending
<1>1. CASE BuildCommand
  BY <1>1 DEF BuildCommand, SetSignatureMode, OpenTx, CloseTx, Stealth, GenTxoutKeys,
     PrefixHashInit, Announce, Ask, PrefixHashUpdate, GenCommitmentMask, Blind, Sync, Listening
<1>2. CASE ValidateCommand
  <2>1. ASSUME NEW amt \in Amount, NEW more \in More, PrehashInitFee(amt, more)
        PROVE  Listening
    BY <2>1 DEF PrehashInitFee, Ask
  <2>2. ASSUME NEW o \in Output, NEW amt \in Amount, NEW more \in More, NEW p2 \in Step,
               PrehashUpdate(o, amt, more, p2) \/ PrehashUpdateOverflow(o, amt, more, p2)
        PROVE  Listening
    BY <2>2 DEF PrehashUpdate, PrehashUpdateOverflow, Ask
  <2>3. CASE \/ \E more \in More, p2 \in Step : PrehashInit(more, p2)
             \/ \E o \in Output, amt \in Amount, p2 \in Step :
                  PrehashUpdateFake(o, amt, p2)
             \/ \E k \in Commitment, p2 \in Step : PrehashAccumulate(k, p2)
             \/ \E message \in {prefixH, <<[kind |-> "other"]>>}, p2 \in Step :
                  PrehashFinalize(message, p2)
    BY <2>3 DEF PrehashInit, PrehashUpdateFake, PrehashAccumulate, PrehashFinalize, Sync,
       Listening
  <2> QED BY <1>2, <2>1, <2>2, <2>3 DEF ValidateCommand, Listening
<1>3. CASE RingCommand
  BY <1>3, RingFramed DEF RingFrame, Sync, Listening
<1> QED BY <1>1, <1>2, <1>3

\* monero_types.h, io_reply_pending, and app_main: on either kind of device, nothing
\* about a transaction in progress changes while a question stays on the screen.
THEOREM FrozenInProgress ==
  Spec => [][tx_in_progress /\ review # <<>> /\ review' = review
             => UNCHANGED <<txState, shown>>]_vars
<1>1. ASSUME Quiet, [Next]_vars, tx_in_progress, review # <<>>, review' = review
      PROVE  UNCHANGED <<txState, shown>>
  <2>1. io_reply_pending
    BY <1>1 DEF Quiet
  <2>2. CASE BuildCommand \/ ValidateCommand \/ RingCommand
    BY <2>1, <2>2, CommandsListen
  <2>3. CASE ReadOnlyCommand \/ (\E what \in {"viewKey", "address"} : AskOther(what))
    BY <2>1, <2>3 DEF ReadOnlyCommand, AskOther, Sync, Listening
  <2>4. CASE User
    BY <1>1, <2>4 DEF User, Accept, Reject, AnswerOther, Answered
  <2>5. CASE Reinit \/ Kill
    BY <1>1, <2>1, <2>5 DEF Reinit, Kill
  <2>6. CASE Boot \/ UNCHANGED vars
    BY <2>6 DEF Boot, vars, session
  <2> QED BY <1>1, <2>2, <2>3, <2>4, <2>5, <2>6 DEF Next
<1>2. Quiet /\ [Next]_vars
      => [tx_in_progress /\ review # <<>> /\ review' = review
          => UNCHANGED <<txState, shown>>]_vars
  BY <1>1
<1>3. Grounds => Quiet
  BY DEF Grounds
<1> QED BY <1>2, <1>3, ReviewAlways, PTL DEF Spec

=============================================================================
