---------------------------- MODULE SignerPromise ----------------------------
(***************************************************************************)
(* What a signing device promises, whatever its commands: one transaction  *)
(* at a time; it is sealed only once it was approved; from then on what    *)
(* the user was told of it stands still until it ends; a signature is      *)
(* released for a sealed transaction only, and no nonce serves two.        *)
(* MoneroTx implements this.                                               *)
(***************************************************************************)
EXTENDS Integers, Sequences

CONSTANT Nothing   \* what a user was told who was told nothing

VARIABLES
  stage,    \* "idle" without a transaction, "open", "approved", "sealed"
  told,     \* what the user accepted of the transaction
  signed    \* the signatures released so far, each with its nonce

promise == <<stage, told, signed>>

Init == stage = "idle" /\ told = Nothing /\ signed = <<>>

Begin == stage = "idle" /\ stage' = "open" /\ told' = Nothing /\ UNCHANGED signed

\* The transaction ends, or the device starts anew and forgets.
End == stage' = "idle" /\ told' = Nothing /\ signed' \in {signed, <<>>}

\* The user accepts something; that may be the approval.
Tell ==
  /\ stage \in {"open", "approved"} /\ stage' \in {stage, "approved"}
  /\ UNCHANGED signed

Seal == stage = "approved" /\ stage' = "sealed" /\ UNCHANGED <<told, signed>>

Sign ==
  /\ stage = "sealed" /\ UNCHANGED <<stage, told>>
  /\ Len(signed') = Len(signed) + 1
  /\ \A i \in 1..Len(signed) :
       signed'[i] = signed[i] /\ signed'[Len(signed')].alpha # signed[i].alpha

Next == Begin \/ End \/ Tell \/ Seal \/ Sign

Spec == Init /\ [][Next]_promise
=============================================================================
