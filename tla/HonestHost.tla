------------------------------ MODULE HonestHost ------------------------------
(***************************************************************************)
(* The device under a wallet that wants its transactions signed: the       *)
(* commands come in the order of tests/test_sig_real_simple.py, each made  *)
(* by tests/monero_client/monero_cmd.py, with the ring signatures that     *)
(* follow in the dispatcher.  The user accepts or rejects what is asked,   *)
(* the device may be unplugged in the middle, and the wallet comes back    *)
(* with its next transaction.                                              *)
(***************************************************************************)
EXTENDS MoneroTx

CONSTANTS
  Plans,           \* the transactions the wallet may want
  MaxTransactions

(* A plan has outs, a sequence of [to, chg, amt]; whether it is locked; its fee *)
(* and its payment ID, if any; the number of pieces its prefix is sent in and   *)
(* of pseudo-outs; and its ring signatures, rings of them, by ins.              *)
PlanFields == {"mode", "outs", "lock", "fee", "pid", "pieces", "pseudo", "rings", "ins"}
Planned(p) ==
  /\ p = [field \in PlanFields |-> p[field]]
  /\ p.mode \in HostModes /\ p.lock \in Locks /\ p.fee \in Amount
  /\ p.outs \in Seq([to : Dest, chg : BOOLEAN, amt : Amount])
  /\ Len(p.outs) \in 1..MaxOutputs /\ Len(p.outs) < MaxStep
  /\ p.pid \in {<<>>} \cup {<<pid>> : pid \in PaymentId}
  /\ p.pieces \in 1..MaxChunks /\ p.pseudo \in Nat /\ p.pseudo < MaxStep
  /\ p.rings \in Nat /\ p.ins \in {"MLSAG", "CLSAG"}

ASSUME PlansOK ==
  /\ MaxTransactions \in Nat \ {0} /\ MaxStep >= 3
  /\ \A p \in Plans : Planned(p)

VARIABLES
  plan,     \* the transaction being made
  pc,       \* the next command of its program; 0: INS_RESET; beyond it: none
  left,     \* transactions still to come
  before    \* signatures when it began

host     == <<plan, pc, left, before>>
hostVars == <<vars, host>>

Command(name, i) == [name |-> name, i |-> i]
Each(name, n)    == [i \in 1..n |-> Command(name, i)]

\* What a wallet asks for: something to send, change to itself or worth nothing,
\* and a payment ID only when there is one address to mask it for.
Honest(p) ==
  LET sent == {i \in DOMAIN p.outs : ~p.outs[i].chg} IN
  /\ sent # {} /\ \A i \in sent : p.outs[i].amt # 0
  /\ \A i \in DOMAIN p.outs \ sent : p.outs[i].amt # 0 => p.outs[i].to \in Own
  /\ p.pid # <<>> => \A i \in sent :
       /\ p.outs[i].to = p.pid[1].to
       /\ p.outs[i].to \in Subaddr => p.pid[1].dummy

RingProgram == <<Command("PREPARE", 0), Command("HASH", 1), Command("HASH", 2),
                 Command("HASH", 3), Command("SIGN", 0)>>
\* One ring signature after the other.
RingPrograms(rings) == [k \in 1..5 * rings |-> RingProgram[((k - 1) % 5) + 1]]

Program(p) ==
  LET n == Len(p.outs) real == p.mode = "REAL" IN
     Each("SET_SIGNATURE_MODE", 1) \o Each("OPEN_TX", 1)
  \o Each("STEALTH", Len(p.pid)) \o Each("GEN_TXOUT_KEYS", n)
  \o Each("PREFIX_HASH_INIT", 1) \o Each("PREFIX_HASH_UPDATE", p.pieces)
  \o Each("GEN_COMMITMENT_MASK", IF real THEN n ELSE 0) \o Each("BLIND", n)
  \o Each("PREHASH_FEE", 1) \o Each("PREHASH_PSEUDO_OUT", p.pseudo)
  \o Each("PREHASH_UPDATE", n) \o Each("PREHASH_ACCUMULATE", n)
  \o Each("PREHASH_FINALIZE", 1)
  \o RingPrograms(p.rings)
  \o Each("CLOSE_TX", 1)

\* The i-th output of the plan as the device named it.
DeviceOutput(i) ==
  [to |-> plan.outs[i].to, chg |-> plan.outs[i].chg, ak |-> i - 1]

\* The keys of the outputs are in the first piece, `extra` ends in the last.
ChunkAt(i) ==
  [kind  |-> "chunk", outs |-> IF i = 1 THEN OUT_EPH ELSE <<>>,
   nonce |-> IF i = plan.pieces THEN plan.pid ELSE <<>>, end |-> i = plan.pieces]

Perform(name, i) ==
  \/ name = "SET_SIGNATURE_MODE" /\ SetSignatureMode(plan.mode)
  \/ name = "OPEN_TX" /\ OpenTx
  \/ name = "STEALTH" /\ Stealth(plan.pid[1])
  \/ name = "GEN_TXOUT_KEYS" /\ GenTxoutKeys(plan.outs[i].to, plan.outs[i].chg)
  \/ name = "PREFIX_HASH_INIT" /\ PrefixHashInit(plan.lock)
  \/ name = "PREFIX_HASH_UPDATE" /\ PrefixHashUpdate(ChunkAt(i), i < plan.pieces, i)
  \/ name = "GEN_COMMITMENT_MASK" /\ GenCommitmentMask
  \/ name = "BLIND" /\ Blind
  \/ name = "PREHASH_FEE" /\ \/ PrehashInitFee(plan.fee, plan.pseudo > 0)
                             \/ PrehashInit(plan.pseudo > 0, 1)
  \/ name = "PREHASH_PSEUDO_OUT" /\ PrehashInit(i < plan.pseudo, i + 1)
  \/ name = "PREHASH_UPDATE" /\
       \/ PrehashUpdate(DeviceOutput(i), plan.outs[i].amt, i < Len(plan.outs), i)
       \/ PrehashUpdateFake(DeviceOutput(i), plan.outs[i].amt, i)
  \/ name = "PREHASH_ACCUMULATE" /\
       PrehashAccumulate(Commit(DeviceOutput(i), plan.outs[i].amt), i)
  \/ name = "PREHASH_FINALIZE" /\ PrehashFinalize(prefixH, Len(plan.outs) + 1)
  \/ name = "PREPARE" /\ Prepare(plan.ins)
  \/ name = "HASH" /\ Hash(plan.ins, i = 1, i < 3, i)
  \/ name = "SIGN" /\ Sign(plan.ins)
  \/ name = "CLOSE_TX" /\ CloseTx

-----------------------------------------------------------------------------
(* The wallet, the user and the plug. *)

End      == Len(Program(plan))
Finished == pc > End

HostInit ==
  /\ Init
  /\ plan \in Plans /\ pc = 1 /\ left = MaxTransactions - 1 /\ before = 0

HostStep ==
  /\ pc \in 1..End
  /\ LET command == Program(plan)[pc] IN Perform(command.name, command.i)
  /\ pc' = pc + 1 /\ UNCHANGED <<plan, left, before>>

HostReset == pc = 0 /\ Reinit /\ pc' = End + 1 /\ UNCHANGED <<plan, left, before>>

NextTransaction ==
  /\ Finished /\ left > 0 /\ power = "on"
  /\ plan' \in Plans /\ pc' = 1 /\ left' = left - 1 /\ before' = Len(signatures)
  /\ UNCHANGED vars

UserAccepts == Accept /\ UNCHANGED host

\* The wallet gives the transaction up: it closes it, or starts over.
UserRejects == Reject /\ pc' \in {End, 0} /\ UNCHANGED <<plan, left, before>>

Unplug   == pc \in 1..End /\ Kill /\ pc' = End + 1 /\ UNCHANGED <<plan, left, before>>
PlugIn   == Boot /\ UNCHANGED host
Rest     == Finished /\ left = 0 /\ power = "on" /\ UNCHANGED hostVars

HostNext ==
  \/ HostStep \/ HostReset \/ NextTransaction
  \/ UserAccepts \/ UserRejects
  \/ Unplug \/ PlugIn \/ Rest

\* The wallet goes on as long as it is answered, the user answers, and an unplugged
\* device is plugged in again.
HostFairness ==
  /\ WF_hostVars(HostStep \/ HostReset \/ NextTransaction)
  /\ WF_hostVars(UserAccepts \/ UserRejects)
  /\ WF_hostVars(PlugIn)

HostSpec == HostInit /\ [][HostNext]_hostVars /\ HostFairness

-----------------------------------------------------------------------------
(* Properties. *)

\* No command of a wallet that keeps to the order is refused, whatever became of the
\* transaction before: all of its transactions come to an end.
EveryTransactionEnds == <>(Finished /\ left = 0)

\* What the user approved gets all its signatures, unless the device is unplugged.
ApprovedIsSigned ==
  ("USER_APPROVED" \in tx_stages) ~>
    (power = "off" \/ Len(signatures) = before + plan.rings)

\* The items of the plan, by kind.
PlannedItems ==
  [timelock |-> IF plan.lock THEN <<Timelock>> ELSE <<>>,
   fee      |-> <<Fee(plan.fee)>>,
   out      |-> [i \in DOMAIN plan.outs |->
                  [kind |-> "out", out |-> DeviceOutput(i), amt |-> plan.outs[i].amt,
                   pid |-> ~plan.outs[i].chg /\ plan.pid # <<>> /\ ~plan.pid[1].dummy]]]

\* While a transaction is being made, what the user accepted is a beginning of the
\* plan, the timelock before the fee and the fee before the outputs; all of it when
\* approved; nothing is asked for a transaction that only estimates.
ToldThePlan ==
  tx_in_progress =>
    /\ \A kind \in DOMAIN PlannedItems : \E n \in 0..Len(PlannedItems[kind]) :
         shown[kind] = SubSeq(PlannedItems[kind], 1, n)
    /\ shown.fee # <<>> => shown.timelock = PlannedItems.timelock
    /\ shown.out # <<>> => shown.fee = PlannedItems.fee
    /\ "USER_APPROVED" \in tx_stages =>
         \A kind \in DOMAIN PlannedItems : shown[kind] = PlannedItems[kind]
    /\ ~Real => shown = NoItems /\ review = <<>>

\* The commitment to an output of the plan.
PlannedCommit(i) == Commit(DeviceOutput(i), plan.outs[i].amt)

\* The hash that the plan amounts to: its fee, its pseudo-outs, the encrypted amounts of
\* its outputs and the commitments to them, in that order and nothing else.
IsPlannedBody(body) ==
  LET n == Len(plan.outs) IN
  /\ Len(body) = 1 + plan.pseudo + n + n
  /\ body[1] = Fee(plan.fee)
  /\ \A i \in 1..plan.pseudo : body[1 + i] = PseudoOut
  /\ \A i \in 1..n : /\ body[1 + plan.pseudo + i] = EcdhInfo(PlannedCommit(i))
                     /\ body[1 + plan.pseudo + n + i] = OutPk(PlannedCommit(i))

\* Once the hash of a real transaction is sealed for signing, it is that of the plan: the
\* prefix has its outputs, payment ID and lock, and the rest is its fee and amounts.
SignedIsPlan ==
  "PREHASH_FINALIZED" \in tx_stages =>
    LET prefix == mlsagH[1].message IN
    /\ Carries(prefix, EndOf(prefix), [i \in DOMAIN plan.outs |-> Key(DeviceOutput(i))])
    /\ prefix[EndOf(prefix)].nonce = plan.pid
    /\ prefix[1].lock <=> plan.lock
    /\ IsPlannedBody(mlsagH[1].body)
=============================================================================
