---------------------------- MODULE ReviewPromise ----------------------------
(***************************************************************************)
(* What a review promises, whatever the screen: the handlers tell rows,    *)
(* the user reads them in order, and a transaction is approved once, when  *)
(* its output set is closed and everything told was read, word for word.   *)
(* What the handlers tell after that is no part of the approval: nothing   *)
(* says that it is read.  TouchReview and ButtonReview implement this.     *)
(***************************************************************************)
EXTENDS Sequences, SequencesExt

VARIABLES
  told,     \* rows the handlers of this transaction handed to the display
  seen,     \* rows the user read, as they were on the screen
  closed,   \* was the last output told
  verdict   \* "closed" without a transaction, "open", "approved"

promise == <<told, seen, closed, verdict>>

Blank == told' = <<>> /\ seen' = <<>> /\ closed' = FALSE

Init == told = <<>> /\ seen = <<>> /\ closed = FALSE /\ verdict = "closed"

Begin == Blank /\ verdict' = "open"

\* A transaction ends, approved or not.
End == Blank /\ verdict' = "closed"

More == told' # told /\ IsPrefix(told, told')

\* From the last output to the approval, nothing more is told.
Tell ==
  /\ verdict = "open" /\ ~closed /\ More
  /\ closed' \in BOOLEAN
  /\ UNCHANGED <<seen, verdict>>

TellMore ==
  /\ verdict = "approved" /\ More
  /\ UNCHANGED <<seen, closed, verdict>>

Read ==
  /\ verdict # "closed"
  /\ seen' # seen /\ IsPrefix(seen, seen') /\ IsPrefix(seen', told)
  /\ UNCHANGED <<told, closed, verdict>>

Approve ==
  /\ verdict = "open" /\ closed /\ seen = told
  /\ verdict' = "approved"
  /\ UNCHANGED <<told, seen, closed>>

Next == Begin \/ End \/ Tell \/ TellMore \/ Read \/ Approve

Spec == Init /\ [][Next]_promise
=============================================================================
