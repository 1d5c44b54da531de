----------------------------- MODULE MCAmountText -----------------------------
(***************************************************************************)
(* Numbers for AmountText: zero, and of some lengths up to the 20 digits   *)
(* of a uint64_t those with at most one digit but the first that is not 0: *)
(* runs of zeros before the point, after it and across it, to the end or   *)
(* not.                                                                    *)
(***************************************************************************)
EXTENDS AmountText

CONSTANT Lengths

MCNumbers ==
  {<<>>} \cup
  UNION {{[i \in 1..len |-> IF i = 1 THEN "1" ELSE IF i = j THEN "2" ELSE "0"] :
            j \in {1, 2, len \div 2, len}} : len \in Lengths}
=============================================================================
