------------------------------ MODULE AmountText ------------------------------
(***************************************************************************)
(* The numbers of a review as text: monero_uint642str, monero_amount2str   *)
(* and monero_bamount2uint64 (monero_crypto.c), and the handlers that use  *)
(* them on the one buffer ux_amount.  Nothing clears that buffer from one  *)
(* number to the next, or from one transaction to the next, so what a text *)
(* does not overwrite stays.                                               *)
(*                                                                         *)
(* A number is the sequence of its decimal digits, zero is <<>>.  Lengths  *)
(* are those of the code.                                                  *)
(***************************************************************************)
EXTENDS Integers, Sequences, SequencesExt

CONSTANTS Numbers   \* those that appear; uint64_t

Digit == {"0", "1", "2", "3", "4", "5", "6", "7", "8", "9"}

ASSUME NumbersOK ==
  \A n \in Numbers : n \in Seq(Digit) /\ Len(n) <= 20 /\ (n # <<>> => n[1] # "0")

VARIABLES
  ux_amount,
  phase,      \* "prefix", "fee" or "outs": what the transaction is up to
  told        \* what ux_amount was last filled for

vars == <<ux_amount, phase, told>>

MAX_AMOUNT_LENGTH == 23
Buffer == 0..MAX_AMOUNT_LENGTH - 1
NUL    == "nul"
Blank  == [i \in Buffer |-> NUL]
Suffix == <<" ", "X", "M", "R">>

\* The scalar an output commits to: its low eight bytes, and whether any of the
\* others is set.
Scalar == [low : Numbers, high : BOOLEAN]
Told(kind, v, short) == [kind |-> kind, v |-> v, short |-> short]

-----------------------------------------------------------------------------
(* The conversions.  Each takes the buffer, and the length it may write. *)

\* Mutant: the buffer is not cleared first.
PutOver(str, text, str_len) ==
  [i \in Buffer |-> IF i < Len(text) THEN text[i + 1] ELSE str[i]]

\* The text at the start of a buffer of which str_len bytes were cleared.
Put(str, text, str_len) ==
  [i \in Buffer |-> IF i < Len(text) THEN text[i + 1]
                    ELSE IF i < str_len THEN NUL ELSE str[i]]

\* monero_uint642str: refused, and the app exits, if it does not fit.  A number of
\* str_len digits fits, and then nothing ends it.
Fits(n, str_len) == Len(n) <= str_len
monero_uint642str(n, str, str_len) == Put(str, n, str_len)

\* stramount: 20 digits, then the first eight moved down to make room for a point.
Units(n) == [i \in 0..20 |-> IF i > 20 - Len(n) THEN n[i - (20 - Len(n))] ELSE "0"]
Pointed(n) ==
  [i \in 0..20 |-> IF i < 8 THEN Units(n)[i + 1]
                   ELSE IF i = 8 THEN "." ELSE Units(n)[i]]

\* Mutant: all leading zeros go.
FirstNonZero(s) == CHOOSE i \in 0..20 : s[i] # "0" /\ \A j \in 0..i - 1 : s[j] = "0"

\* The first character shown: one zero stays before the point.
FirstShown(s) ==
  LET i == FirstNonZero(s) IN IF s[i] = "." THEN i - 1 ELSE i
\* The last one: zeros after the point go, the point stays.
LastShown(s) == CHOOSE i \in 0..20 : s[i] # "0" /\ \A j \in i + 1..20 : s[j] = "0"

monero_amount2str(n, str, str_len) ==
  LET s    == Pointed(n)
      text == SubSeq([i \in 1..21 |-> s[i - 1]], FirstShown(s) + 1, LastShown(s) + 1)
      len  == IF Len(text) > str_len - 1 THEN str_len - 1 ELSE Len(text)
  IN  Put(str, IF n = <<>> THEN <<"0">> ELSE SubSeq(text, 1, len), str_len)

\* The C string a buffer holds; no digit runs to its last byte.
CString(str) ==
  LET end == CHOOSE i \in Buffer : str[i] = NUL /\ \A j \in 0..i - 1 : str[j] # NUL
  IN  [i \in 1..end |-> str[i - 1]]

\* snprintf at its end, with what is left of the buffer.
AppendXMR(str) ==
  LET text == CString(str) \o Suffix
      len  == IF Len(text) > MAX_AMOUNT_LENGTH - 1 THEN MAX_AMOUNT_LENGTH - 1
                                                   ELSE Len(text)
  IN  Put(str, SubSeq(text, 1, len), len + 1)

-----------------------------------------------------------------------------
(* The handlers. *)

Init ==
  /\ ux_amount = Blank /\ phase = "prefix"
  /\ told = Told("none", [low |-> <<>>, high |-> FALSE], FALSE)

\* A transaction begins; the last one may have ended anywhere.
OpenTx == phase' = "prefix" /\ UNCHANGED <<ux_amount, told>>

\* monero_init, and the end of monero_apdu_get_tx_proof.
Wipe ==
  /\ ux_amount' = Blank /\ UNCHANGED phase
  /\ told' = Told("none", [low |-> <<>>, high |-> FALSE], FALSE)

\* monero_apdu_prefix_hash_init: a timelock of zero is not shown.
Timelock(n) ==
  /\ phase = "prefix" /\ phase' = "fee"
  /\ IF n = <<>> THEN UNCHANGED <<ux_amount, told>>
     ELSE /\ Fits(n, 15)
          /\ ux_amount' = monero_uint642str(n, ux_amount, 15)
          /\ told' = Told("timelock", [low |-> n, high |-> FALSE], FALSE)

\* Mutant: the fee has the room of an output.
FeeLength_hardCoded == 15

\* sizeof(G_monero_vstate.ux_amount).
FeeLength == MAX_AMOUNT_LENGTH

\* monero_apdu_mlsag_prehash_init.
Fee(n) ==
  /\ phase = "fee" /\ phase' = "outs"
  /\ ux_amount' = AppendXMR(monero_amount2str(n, ux_amount, FeeLength))
  /\ told' = Told("fee", [low |-> n, high |-> FALSE], FALSE)

\* A short amount has no other bytes.
Canonical(v, short) == short => ~v.high

\* monero_apdu_mlsag_prehash_update: monero_bamount2uint64 takes the low bytes.
\* An output that is not change is not worth nothing.
Output(v, short, is_change) ==
  /\ phase = "outs" /\ UNCHANGED phase
  /\ Canonical(v, short)
  /\ v.low # <<>> \/ is_change
  /\ ux_amount' = AppendXMR(monero_amount2str(v.low, ux_amount, 15))
  /\ told' = Told("output", v, short)

Next ==
  \/ OpenTx \/ Wipe
  \/ \E n \in Numbers : Timelock(n) \/ Fee(n)
  \/ \E v \in Scalar, short, is_change \in BOOLEAN : Output(v, short, is_change)

Spec == Init /\ [][Next]_vars

-----------------------------------------------------------------------------
(* Properties.  The text of a number again, by what it means: the digits left *)
(* of the twelfth from the right, a point, and the rest without zeros at its  *)
(* end.                                                                       *)

Padded(n)   == [i \in 1..13 - Len(n) |-> "0"] \o n
Coins(n)    == SubSeq(Padded(n), 1, Len(Padded(n)) - 12) \o <<".">>
Fraction(n) == SubSeq(Padded(n), Len(Padded(n)) - 11, Len(Padded(n)))
Stripped(s) == CHOOSE t \in {SubSeq(s, 1, k) : k \in 0..Len(s)} :
  /\ \A i \in Len(t) + 1..Len(s) : s[i] = "0"
  /\ t # <<>> => t[Len(t)] # "0"
Exact(n) == IF n = <<>> THEN <<"0">> ELSE Coins(n) \o Stripped(Fraction(n))

Cut(s, len) == SubSeq(s, 1, IF Len(s) < len THEN Len(s) ELSE len)
Shown       == CString(ux_amount)

\* tests/test_vuln_fee_review_width.py:2: "The fee at review has to be the fee that
\* was hashed".  All of it is shown, whatever was shown before; the largest fees
\* push out some of " XMR".
FeeText ==
  told.kind = "fee" =>
    /\ Shown = Cut(Exact(told.v.low) \o Suffix, 22)
    /\ IsPrefix(Exact(told.v.low), Shown)

\* The amount of an output is that of its commitment, if the encoding is short, and
\* loses to the hard-coded 15 only digits after the point, past the fourteenth
\* character; nothing of another text is left.
OutputText ==
  told.kind = "output" =>
    /\ told.short => ~told.v.high
    /\ Shown = Cut(Exact(told.v.low), 14) \o Suffix
    /\ told.v.low # <<>> => IsPrefix(Coins(told.v.low), Shown)

\* A timelock is shown whole; one of 15 digits may be followed by what an earlier
\* text left, and a longer one is refused.
TimelockText ==
  told.kind = "timelock" =>
    IF Len(told.v.low) < 15 THEN Shown = told.v.low ELSE IsPrefix(told.v.low, Shown)
=============================================================================
