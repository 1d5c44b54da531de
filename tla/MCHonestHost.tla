----------------------------- MODULE MCHonestHost -----------------------------
(***************************************************************************)
(* Transactions for HonestHost: one or two outputs, to this wallet, to     *)
(* another or to a subaddress, with and without change, a lock, a payment  *)
(* ID, pseudo-outs and a split prefix; two ring signatures each.           *)
(***************************************************************************)
EXTENDS HonestHost

CONSTANTS alice, bob, sub

Send(to)  == [to |-> to, chg |-> FALSE, amt |-> 1]
Back(amt) == [to |-> alice, chg |-> TRUE, amt |-> amt]
\* What a wallet adds when there is no change: nothing, to a random address.
Dummy     == [to |-> bob, chg |-> TRUE, amt |-> 0]

MCOuts == {<<Send(bob)>>, <<Send(sub), Back(1)>>, <<Back(1), Send(bob)>>,
           <<Send(alice), Dummy>>, <<Send(bob), Send(sub)>>}
MCPids == {<<>>} \cup {<<[to |-> to, dummy |-> d]>> : to \in {bob, sub}, d \in BOOLEAN}

MCPlans ==
  {p \in [mode : {"REAL", "FAKE"}, outs : MCOuts, lock : BOOLEAN, fee : {1},
          pid : MCPids, pieces : {1, 2}, pseudo : {0, 2}, rings : {2},
          ins : {"MLSAG", "CLSAG"}] :
     /\ Honest(p)
     \* together, to keep the instance small
     /\ p.lock = (p.pieces = 2) /\ (p.pseudo = 0) = (p.ins = "CLSAG")}
=============================================================================
