--------------------------- MODULE MCPrefixParser ---------------------------
(***************************************************************************)
(* Prefixes for PrefixParser, well-formed and not, and the verdict that    *)
(* the layout described in monero_prefix.c:37-57 calls for: each field of  *)
(* a prefix by construction, instead of by a machine.                      *)
(*                                                                         *)
(* Digits are small: a varint has two bits a byte and five in all, keys    *)
(* and payment IDs have two bytes, padding at most three.                  *)
(***************************************************************************)
EXTENDS PrefixParser

LOCAL INSTANCE SequencesExt

CONSTANTS MaxFields,   \* fields of `extra`
          Extras,      \* vary `extra`
          Outputs      \* vary inputs and outputs

RECURSIVE Num(_)
\* The shortest varint of n.
Num(n) == IF n < Base THEN <<n>> ELSE <<Base + (n % Base)>> \o Num(n \div Base)

Out2(a, b)    == [tag |-> 2, body |-> <<a, b>>]
Out3(a, b, v) == [tag |-> 3, body |-> <<a, b, v>>]
R == <<6, 1>>

Plain   == [outs |-> <<Out2(1, 2)>>, r |-> R, addk |-> <<>>, pid |-> <<>>]
Paid    == [outs |-> <<Out3(1, 2, 3)>>, r |-> R, addk |-> <<>>, pid |-> <<1, 4>>]
Subaddr == [outs |-> <<Out3(1, 0, 3), Out2(3, 3)>>, r |-> R,
            addk |-> <<2, 2, 6, 1>>, pid |-> <<>>]
Both    == [outs |-> <<Out2(1, 2)>>, r |-> R, addk |-> <<4, 0>>, pid |-> <<1, 4>>]
MCTxs   == {Plain, Paid, Subaddr, Both}

-----------------------------------------------------------------------------
(* Inputs and outputs. *)

\* One input: amount, offsets, key image.  7, 0 is a long form of 3; 7, 5, 1 is
\* 23, which needs the top bit.
GoodInputs == {<<0>>, <<1, 2, 0, 1, 7, 0, 2, 2>>,
               <<2, 2, 7, 5, 1, 0, 0, 0, 2, 1, 2, 6, 1, 7, 0, 3, 4>>}
\* A tag of another kind; a varint one bit too long.
BadInputs  == {<<1, 3>>, <<1, 2, 7, 5, 2, 0, 0, 0>>}

OutBytes(out) == <<0, out.tag>> \o out.body
VoutOf(outs)  == Num(Len(outs)) \o FlattenSeq([i \in DOMAIN outs |-> OutBytes(outs[i])])

\* Wrong: a key, the order, the number.  The last has the bytes of the keys and
\* view tags of Subaddr in order, but the view tag elsewhere.
OtherOuts ==
  {<<Out2(1, 3)>>, <<Out3(1, 2, 3)>>, <<Out2(3, 3), Out3(1, 0, 3)>>, <<>>,
   <<Out3(1, 0, 3)>>, <<Out2(1, 0), Out3(3, 3, 3)>>}

-----------------------------------------------------------------------------
(* Fields of `extra`. *)

Field(kind, bytes) == [kind |-> kind, bytes |-> bytes]

PubOf(t)   == Field("R", <<1>> \o t.r)
AddkOf(t)  == Field("ADDK", <<4>> \o Num(Len(t.outs)) \o t.addk)
NonceOf(t) == Field("PID", <<2, PidSize>> \o t.pid)
Tlvs        == {Field("TLV", <<3, 1, 1>>), Field("TLV", <<MinerTag, 2, 0, 2>>)}
EmptyTlv    == Field("TLV", <<3, 0>>)
Zeros(n)    == Field("PADDING", [i \in 1..n |-> 0])

\* What no well-formed `extra` has; what does not fit may be cut by the length.
Wrong == {Field("wrong", bytes) : bytes \in
            {<<1, 7, 1>>, <<1, 6, 2>>, <<4, 1, 4, 1>>, <<4, 2, 2, 2>>, <<2, 2, 1, 5>>,
             <<2, 2, 3, 4>>, <<2, 1, 1>>, <<3, 7>>, <<0, 1>>, <<0, 0, 0, 0>>, <<6>>}}

FieldsOf(t) == {PubOf(t), EmptyTlv} \cup Tlvs \cup
                {Zeros(n) : n \in 1..PaddingMax} \cup
                (IF t.addk = <<>> THEN {} ELSE {AddkOf(t)}) \cup
                (IF t.pid = <<>> THEN {} ELSE {NonceOf(t)})

ExtraBytes(fields) == FlattenSeq([i \in DOMAIN fields |-> fields[i].bytes])
Count(fields, kind) == Len(SelectSeq(fields, LAMBDA f : f.kind = kind))

\* R once, the additional keys and the payment ID once if the device made them,
\* padding at the end only.
Lawful(t, fields) ==
  /\ Count(fields, "wrong") = 0
  /\ Count(fields, "R") = 1
  /\ Count(fields, "ADDK") = (IF t.addk = <<>> THEN 0 ELSE 1)
  /\ Count(fields, "PID") = (IF t.pid = <<>> THEN 0 ELSE 1)
  /\ \A i \in DOMAIN fields : fields[i].kind = "PADDING" => i = Len(fields)
\* The shape the parser sees the end of only with one more byte, and so refuses at
\* the very end of a prefix: monero_prefix.c:683-690 runs for a byte that has come.
EndsEmpty(fields) ==
  \/ fields[Len(fields)] = EmptyTlv
  \/ fields[Len(fields)] = Zeros(1)

ExtrasOf(t) == BoundedSeq(FieldsOf(t), MaxFields + 1)
LawfulExtras == [t \in MCTxs |-> {fs \in ExtrasOf(t) : Lawful(t, fs)}]

Prefix(ins, outs, fields, cut) ==
  LET extra == ExtraBytes(fields)
  IN  ins \o VoutOf(outs) \o Num(Len(extra) + cut) \o extra

\* The prefixes the layout allows for a transaction, with `extra` as given.
WellFormedWith(t, extras) ==
  {Prefix(ins, t.outs, fs, 0) : ins \in GoodInputs, fs \in extras}
WellFormed == [t \in MCTxs |-> WellFormedWith(t, LawfulExtras[t])]
Decidable  == [t \in MCTxs |->
  WellFormedWith(t, {fs \in LawfulExtras[t] : ~EndsEmpty(fs)})]

-----------------------------------------------------------------------------
(* What is sent. *)

BasicExtra(t) == CHOOSE fs \in LawfulExtras[t] :
  Len(fs) = 1 + (IF t.addk = <<>> THEN 0 ELSE 1) + (IF t.pid = <<>> THEN 0 ELSE 1)

\* Good and bad fields in any order, with a length that may be one off; and up to
\* MaxFields good ones.
SentWithExtras(t) ==
  LET pool == FieldsOf(t) \cup Wrong IN
  {Prefix(<<0>>, t.outs, fs, cut) \o <<0>> :
     fs \in BoundedSeq(pool, MaxFields - 1), cut \in {-1, 0, 1}}
    \cup {Prefix(<<0>>, t.outs, fs, 0) : fs \in BoundedSeq(FieldsOf(t), MaxFields)}

SentWithOutputs(t) ==
  {Prefix(ins, outs, BasicExtra(t), 0) :
     ins \in GoodInputs \cup BadInputs, outs \in {t.outs} \cup OtherOuts}

MCCases ==
  UNION {[tx : {t}, stream :
            (IF Extras THEN {s \in SentWithExtras(t) : \A i \in DOMAIN s : s[i] >= 0}
                       ELSE {}) \cup
            (IF Outputs THEN SentWithOutputs(t) ELSE {})] : t \in MCTxs}

-----------------------------------------------------------------------------
(* Properties. *)

Parsed == SubSeq(stream, 1, pos)

\* What the parser accepts is a prefix of the prescribed layout that carries the
\* derived outputs, R, the additional keys and the payment ID, and nothing else
\* that needs review, wherever the chunks were cut.
AcceptedIsWellFormed ==
  outkeys_done => \E p \in WellFormed[tx] : IsPrefix(p, Parsed)

\* tests/test_vuln_prefix_extra.py:8-10: "the only failure mode is the parser
\* erroring on a valid tx_extra shape".  A well-formed prefix is refused only if
\* the host stops short of its end.
Accepts(p) ==
  stream = p => /\ pos = Len(p) /\ sw = "ok" => outkeys_done
                /\ sw = "refused" => pos < Len(p) /\ pos = lim /\ ~more
WellFormedIsAccepted == stream \in Decidable[tx] => Accepts(stream)
=============================================================================
