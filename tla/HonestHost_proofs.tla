-------------------------- MODULE HonestHost_proofs --------------------------
(***************************************************************************)
(* What a host that follows the protocol gets from the device, for every   *)
(* value of the constants and either kind of screen: its user is told its  *)
(* plan, all of it and nothing else, and the hash it is given to sign is   *)
(* that of its plan.                                                       *)
(*                                                                         *)
(* The program of a plan is laid out command by command, so that the place *)
(* of the host in it (pc) says which command comes next and what the       *)
(* device must have been told by then.  The invariant (HostInv) ties what  *)
(* the user was told to that place; the rest is what MoneroTx_proofs says  *)
(* of any host, of which this one is an instance.                          *)
(***************************************************************************)
EXTENDS HonestHost, MoneroTx_proofs

-----------------------------------------------------------------------------
(* The invariant. *)

\* Where in the program of the plan its commands begin.
OutCount == Len(plan.outs)
Keys    == 3 + Len(plan.pid)
Stream  == Keys + OutCount
Masks   == Stream + 1 + plan.pieces
Blinds  == Masks + (IF plan.mode = "REAL" THEN OutCount ELSE 0)
FeeAt   == Blinds + OutCount
Reviews == FeeAt + 1 + plan.pseudo
Sums    == Reviews + OutCount
Seal    == Sums + OutCount
Rings   == Seal + 1

\* How many outputs were reviewed.
SentCount == IF pc <= Reviews THEN 0 ELSE IF pc >= Sums THEN OutCount ELSE pc - Reviews

\* The user was told what the plan has so far.
ToldSoFar ==
  /\ Told.timelock = PlannedItems.timelock
  /\ Told.fee = IF pc > FeeAt THEN PlannedItems.fee ELSE <<>>
  /\ Told.out = SubSeq(PlannedItems.out, 1, SentCount)

\* What a button device has on screen is the last item told.
AskedLast ==
  LET kind == review[1].item.kind IN
  \/ kind = "timelock" /\ pc = Stream + 1
  \/ kind = "fee" /\ pc = FeeAt + 1
  \/ kind = "out" /\ pc \in Reviews + 1..Sums

\* A real transaction.
Underway ==
  /\ tx_payment_id = IF pc < Keys THEN <<>> ELSE plan.pid
  /\ Building <=> pc <= Stream
  /\ ~Building => ToldSoFar
  /\ Closed => pc >= Sums
  /\ Touch /\ ~Approved => shown = NoItems
  /\ Asking => ~Approved /\ (~Touch => AskedLast)

\* A transaction is in progress only between its opening and its closing, and what
\* is on screen is about it.
HostInv ==
  /\ pc = 2 => tx_sig_mode = plan.mode
  /\ review # <<>> => tx_in_progress /\ Asking
  /\ tx_in_progress =>
       /\ pc \in 3..End /\ tx_sig_mode = plan.mode
       /\ IF Real THEN Underway ELSE shown = NoItems

-----------------------------------------------------------------------------
(* The program of a plan, command by command. *)

\* The commands a program is made of.
CommandNames ==
  {"SET_SIGNATURE_MODE", "OPEN_TX", "STEALTH", "GEN_TXOUT_KEYS", "PREFIX_HASH_INIT",
   "PREFIX_HASH_UPDATE", "GEN_COMMITMENT_MASK", "BLIND", "PREHASH_FEE",
   "PREHASH_PSEUDO_OUT", "PREHASH_UPDATE", "PREHASH_ACCUMULATE", "PREHASH_FINALIZE",
   "PREPARE", "HASH", "SIGN", "CLOSE_TX"}
Commands == [name : CommandNames, i : Nat]

\* A program laid out up to place p, the same up to there as another, and one with the
\* commands of one name from p to before q.
Laid(s, p)            == s \in Seq(Commands) /\ Len(s) = p - 1
Upto(t, s, p)         == \A k \in 1..p - 1 : t[k] = s[k]
Follow(t, p, q, n, e) == \A k \in p..q - 1 : k - (p - 1) \in 1..n /\ t[k] = e[k - (p - 1)]
Holds(s, p, q, name)  == \A k \in p..q - 1 : s[k] = Command(name, k - (p - 1))

\* One sequence after another.
LEMMA Joined ==
  ASSUME NEW s \in Seq(Commands), NEW e \in Seq(Commands)
  PROVE  /\ s \o e \in Seq(Commands) /\ Len(s \o e) = Len(s) + Len(e)
         /\ \A k \in 1..Len(s) : (s \o e)[k] = s[k]
         /\ \A k \in Len(s) + 1..Len(s) + Len(e) :
              k - Len(s) \in 1..Len(e) /\ (s \o e)[k] = e[k - Len(s)]
OBVIOUS

\* A table of commands is a sequence of them.
LEMMA IsCommands ==
  ASSUME NEW n \in Nat, NEW f, f = [k \in 1..n |-> f[k]], \A k \in 1..n : f[k] \in Commands
  PROVE  f \in Seq(Commands) /\ Len(f) = n
OBVIOUS

\* A program that goes on with more commands begins as it did, and they come after.
LEMMA LaidOn ==
  ASSUME NEW s, NEW p \in Nat \ {0}, Laid(s, p), NEW n \in Nat, NEW q \in Nat, q = p + n,
         NEW e \in Seq(Commands), Len(e) = n, NEW t, t = s \o e
  PROVE  /\ Laid(t, q) /\ Upto(t, s, p) /\ Follow(t, p, q, n, e)
<1> DEFINE m == p - 1
<1>1. s \in Seq(Commands) /\ m \in Nat /\ Len(s) = m /\ q - 1 = m + n
  BY DEF Laid
<1> HIDE DEF m
<1>2. /\ t \in Seq(Commands) /\ Len(t) = m + n
      /\ \A k \in 1..m : t[k] = s[k]
      /\ \A k \in m + 1..m + n : k - m \in 1..n /\ t[k] = e[k - m]
  <2>1. /\ s \o e \in Seq(Commands) /\ Len(s \o e) = Len(s) + Len(e)
        /\ \A k \in 1..Len(s) : (s \o e)[k] = s[k]
        /\ \A k \in Len(s) + 1..Len(s) + Len(e) :
             k - Len(s) \in 1..Len(e) /\ (s \o e)[k] = e[k - Len(s)]
    BY <1>1, Joined
  <2> QED BY <1>1, <2>1
<1>3. Laid(t, q) /\ Upto(t, s, p)
  BY <1>1, <1>2 DEF Laid, Upto, m
<1>4. p..q - 1 = m + 1..m + n
  BY <1>1 DEF m
<1> QED BY <1>2, <1>3, <1>4 DEF m, Follow

\* Commands of one name after others.
LEMMA Then ==
  ASSUME NEW s, NEW p \in Nat \ {0}, Laid(s, p), NEW name \in CommandNames, NEW n \in Nat,
         NEW q \in Nat, q = p + n, NEW t, t = s \o Each(name, n)
  PROVE  Laid(t, q) /\ Upto(t, s, p) /\ Holds(t, p, q, name)
<1> DEFINE e == Each(name, n)
<1>1. e \in Seq(Commands) /\ Len(e) = n /\ \A k \in 1..n : e[k] = Command(name, k)
  BY DEF Each, Command, Commands
<1>2. t = s \o e
  OBVIOUS
<1> HIDE DEF e
<1>3. /\ Laid(t, q) /\ Upto(t, s, p) /\ Follow(t, p, q, n, e)
  BY <1>1, <1>2, LaidOn
<1>4. Holds(t, p, q, name)
  BY <1>1, <1>3 DEF Holds, Follow
<1> QED BY <1>3, <1>4

\* What a longer program begins with stays there.
LEMMA UptoUpto ==
  ASSUME NEW s, NEW t, NEW u, NEW p \in Nat, NEW q \in Nat, p <= q, Upto(t, s, p), Upto(u, t, q)
  PROVE  Upto(u, s, p)
BY DEF Upto

\* Commands of one name stay where they are in a longer program.
LEMMA HoldsStill ==
  ASSUME NEW t, NEW u, NEW p \in Nat \ {0}, NEW q \in Nat, NEW r \in Nat, q <= r,
         NEW name, Holds(t, p, q, name), Upto(u, t, r)
  PROVE  Holds(u, p, q, name)
BY DEF Holds, Upto

\* Ring signatures are made by three commands.
RingCommands == {x \in Commands : \/ x.name \in {"PREPARE", "SIGN"}
                                  \/ x.name = "HASH" /\ x.i \in 1..3}

\* The ring commands after others.
LEMMA ThenRings ==
  ASSUME NEW s, NEW p \in Nat \ {0}, Laid(s, p), NEW rings \in Nat,
         NEW q \in Nat, q = p + 5 * rings, NEW t, t = s \o RingPrograms(rings)
  PROVE  /\ Laid(t, q) /\ Upto(t, s, p)
         /\ \A k \in p..q - 1 : t[k] \in RingCommands
<1> DEFINE e == RingPrograms(rings)
<1>1. \A j \in 1..5 : RingProgram[j] \in RingCommands
  <2>1. \A j \in 1..5 : j = 1 \/ j = 2 \/ j = 3 \/ j = 4 \/ j = 5
    OBVIOUS
  <2>2. /\ RingProgram[1] = Command("PREPARE", 0) /\ RingProgram[2] = Command("HASH", 1)
        /\ RingProgram[3] = Command("HASH", 2) /\ RingProgram[4] = Command("HASH", 3)
        /\ RingProgram[5] = Command("SIGN", 0)
    BY DEF RingProgram
  <2>3. /\ Command("PREPARE", 0) \in RingCommands /\ Command("SIGN", 0) \in RingCommands
        /\ \A i \in 1..3 : Command("HASH", i) \in RingCommands
    <3>1. /\ Command("PREPARE", 0) \in Commands /\ Command("SIGN", 0) \in Commands
          /\ \A i \in 1..3 : Command("HASH", i) \in Commands
      BY DEF Command, Commands, CommandNames
    <3>2. /\ Command("PREPARE", 0).name = "PREPARE" /\ Command("SIGN", 0).name = "SIGN"
          /\ \A i \in 1..3 : Command("HASH", i).name = "HASH" /\ Command("HASH", i).i = i
      BY DEF Command
    <3> QED BY <3>1, <3>2 DEF RingCommands
  <2> QED BY <2>1, <2>2, <2>3
<1>2. \A k \in 1..5 * rings : ((k - 1) % 5) + 1 \in 1..5
  OBVIOUS
<1>3. \A k \in 1..5 * rings : e[k] \in RingCommands
  BY <1>1, <1>2 DEF RingPrograms
<1>4. 5 * rings \in Nat
  OBVIOUS
<1> DEFINE n == 5 * rings
<1>5. e = [k \in 1..n |-> e[k]] /\ \A k \in 1..n : e[k] \in Commands
  BY <1>3 DEF RingPrograms, RingCommands
<1>6. t = s \o e /\ n \in Nat /\ q = p + n
  BY <1>4
<1>7. \A k \in 1..n : e[k] \in RingCommands
  BY <1>3
<1> HIDE DEF e, n
<1>8. Len(e) = n /\ e \in Seq(Commands)
  BY <1>5, <1>6, IsCommands
<1>9. /\ Laid(t, q) /\ Upto(t, s, p) /\ Follow(t, p, q, n, e)
  BY <1>6, <1>8, LaidOn
<1>10. \A k \in p..q - 1 : t[k] \in RingCommands
  BY <1>7, <1>9 DEF Follow
<1> QED BY <1>9, <1>10

\* The fields of the plan, and the places in its program.
LEMMA PlanIs ==
  ASSUME plan \in Plans
  PROVE  /\ plan.mode \in HostModes /\ plan.mode \in {"REAL", "FAKE"}
         /\ plan.lock \in Locks /\ plan.lock \in BOOLEAN /\ plan.fee \in Amount
         /\ plan.outs \in Seq([to : Dest, chg : BOOLEAN, amt : Amount])
         /\ OutCount \in 1..MaxOutputs /\ OutCount < MaxStep
         /\ plan.pid = <<>> \/ \E pid \in PaymentId : plan.pid = <<pid>>
         /\ Len(plan.pid) \in 0..1
         /\ plan.pieces \in 1..MaxChunks /\ plan.pseudo \in Nat /\ plan.pseudo < MaxStep
         /\ plan.rings \in Nat /\ plan.ins \in {"MLSAG", "CLSAG"}
         /\ MaxStep \in Nat /\ MaxStep >= 3 /\ MaxOutputs \in Nat /\ MaxChunks \in Nat
<1>1. Planned(plan) /\ MaxStep >= 3
  BY PlansOK
<1>2. /\ HostModes \subseteq {"REAL", "FAKE"} /\ Locks \subseteq BOOLEAN
      /\ MaxStep \in Nat /\ MaxOutputs \in Nat /\ MaxChunks \in Nat
  BY ConstantsOK DEF ConstantsOK
<1>3. plan.pid = <<>> \/ \E pid \in PaymentId : plan.pid = <<pid>>
  BY <1>1 DEF Planned
<1>4. Len(plan.pid) \in 0..1
  <2>1. CASE plan.pid = <<>>
    BY <2>1
  <2>2. ASSUME NEW pid \in PaymentId, plan.pid = <<pid>>
        PROVE  Len(plan.pid) = 1
    <3>1. Len(<<pid>>) = 1
      OBVIOUS
    <3> QED BY <2>2, <3>1
  <2> QED BY <1>3, <2>1, <2>2
<1> QED BY <1>1, <1>2, <1>3, <1>4 DEF Planned, OutCount

\* The places are in the order of the program, and each part of it that cannot be empty is not.
LEMMA PlaceOrder ==
  ASSUME plan \in Plans
  PROVE  /\ Keys \in Nat \ {0} /\ Stream \in Nat \ {0} /\ Masks \in Nat \ {0}
         /\ Blinds \in Nat \ {0} /\ FeeAt \in Nat \ {0} /\ Reviews \in Nat \ {0}
         /\ Sums \in Nat \ {0} /\ Seal \in Nat \ {0} /\ Rings \in Nat \ {0}
         /\ 3 <= Keys /\ Keys < Stream /\ Stream + 1 < Masks /\ Masks <= Blinds
         /\ Blinds < FeeAt /\ FeeAt < Reviews /\ Reviews < Sums /\ Sums < Seal /\ Seal < Rings
<1>1. /\ OutCount \in Nat \ {0} /\ Len(plan.pid) \in 0..1
      /\ plan.pieces \in Nat \ {0} /\ plan.pseudo \in Nat
  BY PlanIs
<1> DEFINE r == IF plan.mode = "REAL" THEN OutCount ELSE 0
<1>2. r \in Nat
  BY <1>1
<1>3. Keys \in Nat \ {0} /\ 3 <= Keys
  BY <1>1 DEF Keys
<1>4. Stream \in Nat \ {0} /\ Keys < Stream
  BY <1>1, <1>3 DEF Stream
<1>5. Masks \in Nat \ {0} /\ Stream + 1 < Masks
  BY <1>1, <1>4 DEF Masks
<1>6. Blinds = Masks + r
  BY DEF Blinds
<1> HIDE DEF r
<1>7. Blinds \in Nat \ {0} /\ Masks <= Blinds
  BY <1>2, <1>5, <1>6
<1>8. FeeAt \in Nat \ {0} /\ Blinds < FeeAt
  BY <1>1, <1>7 DEF FeeAt
<1>9. Reviews \in Nat \ {0} /\ FeeAt < Reviews
  BY <1>1, <1>8 DEF Reviews
<1>10. Sums \in Nat \ {0} /\ Reviews < Sums
  BY <1>1, <1>9 DEF Sums
<1>11. Seal \in Nat \ {0} /\ Sums < Seal
  BY <1>1, <1>10 DEF Seal
<1>12. Rings \in Nat \ {0} /\ Seal < Rings
  BY <1>11 DEF Rings
<1> QED BY <1>3, <1>4, <1>5, <1>7, <1>8, <1>9, <1>10, <1>11, <1>12

\* How far apart they are.
LEMMA PlaceWidths ==
  ASSUME plan \in Plans
  PROVE  /\ OutCount \in Nat \ {0} /\ plan.pieces \in Nat \ {0} /\ plan.pseudo \in Nat
         /\ Keys \in 3..4 /\ Stream = Keys + OutCount /\ Masks = Stream + 1 + plan.pieces
         /\ FeeAt = Blinds + OutCount /\ Reviews = FeeAt + 1 + plan.pseudo
         /\ Sums = Reviews + OutCount /\ Seal = Sums + OutCount /\ Rings = Seal + 1
<1>1. Len(plan.pid) \in 0..1
  BY PlanIs
<1>2. Keys \in 3..4
  <2>1. PICK n \in 0..1 : n = Len(plan.pid)
    BY <1>1
  <2>2. Keys = 3 + n
    BY <2>1 DEF Keys
  <2> QED BY <2>2
<1>3. /\ OutCount \in Nat \ {0} /\ plan.pieces \in Nat \ {0} /\ plan.pseudo \in Nat
  BY PlanIs
<1> QED BY <1>2, <1>3 DEF Stream, Masks, FeeAt, Reviews, Sums, Seal, Rings

\* The whole of it.
LEMMA ProgramIs ==
  ASSUME plan \in Plans
  PROVE  /\ End \in Nat \ {0} /\ Rings <= End
         /\ Holds(Program(plan), 1, 2, "SET_SIGNATURE_MODE")
         /\ Holds(Program(plan), 2, 3, "OPEN_TX")
         /\ Holds(Program(plan), 3, Keys, "STEALTH")
         /\ Holds(Program(plan), Keys, Stream, "GEN_TXOUT_KEYS")
         /\ Holds(Program(plan), Stream, Stream + 1, "PREFIX_HASH_INIT")
         /\ Holds(Program(plan), Stream + 1, Masks, "PREFIX_HASH_UPDATE")
         /\ Holds(Program(plan), Masks, Blinds, "GEN_COMMITMENT_MASK")
         /\ Holds(Program(plan), Blinds, FeeAt, "BLIND")
         /\ Holds(Program(plan), FeeAt, FeeAt + 1, "PREHASH_FEE")
         /\ Holds(Program(plan), FeeAt + 1, Reviews, "PREHASH_PSEUDO_OUT")
         /\ Holds(Program(plan), Reviews, Sums, "PREHASH_UPDATE")
         /\ Holds(Program(plan), Sums, Seal, "PREHASH_ACCUMULATE")
         /\ Holds(Program(plan), Seal, Rings, "PREHASH_FINALIZE")
         /\ \A k \in Rings..End - 1 : Program(plan)[k] \in RingCommands
         /\ Holds(Program(plan), End, End + 1, "CLOSE_TX")
<1> DEFINE n   == Len(plan.outs)
           r   == IF plan.mode = "REAL" THEN n ELSE 0
           s0  == <<>>
           s1  == s0 \o Each("SET_SIGNATURE_MODE", 1)
           s2  == s1 \o Each("OPEN_TX", 1)
           s3  == s2 \o Each("STEALTH", Len(plan.pid))
           s4  == s3 \o Each("GEN_TXOUT_KEYS", n)
           s5  == s4 \o Each("PREFIX_HASH_INIT", 1)
           s6  == s5 \o Each("PREFIX_HASH_UPDATE", plan.pieces)
           s7  == s6 \o Each("GEN_COMMITMENT_MASK", r)
           s8  == s7 \o Each("BLIND", n)
           s9  == s8 \o Each("PREHASH_FEE", 1)
           s10  == s9 \o Each("PREHASH_PSEUDO_OUT", plan.pseudo)
           s11  == s10 \o Each("PREHASH_UPDATE", n)
           s12  == s11 \o Each("PREHASH_ACCUMULATE", n)
           s13  == s12 \o Each("PREHASH_FINALIZE", 1)
           s14 == s13 \o RingPrograms(plan.rings)
           s15 == s14 \o Each("CLOSE_TX", 1)
<1>a. Program(plan) = s15
  <2>1. <<>> \o Each("SET_SIGNATURE_MODE", 1) = Each("SET_SIGNATURE_MODE", 1)
    BY DEF Each
  <2> QED BY <2>1 DEF Program
<1>b. /\ n \in Nat /\ r \in Nat /\ n = OutCount /\ Len(plan.pid) \in Nat
      /\ plan.pieces \in Nat /\ plan.pseudo \in Nat /\ plan.rings \in Nat
      /\ 5 * plan.rings \in Nat
      /\ r = IF plan.mode = "REAL" THEN OutCount ELSE 0
  BY PlanIs DEF OutCount
<1>0. Laid(s0, 1)
  BY DEF Laid
<1> HIDE DEF n, r, s0, s1, s2, s3, s4, s5, s6, s7, s8, s9, s10, s11, s12, s13, s14, s15
<1>c. /\ Keys = 3 + Len(plan.pid) /\ Stream = Keys + n /\ Masks = Stream + 1 + plan.pieces
      /\ Blinds = Masks + r /\ FeeAt = Blinds + n /\ Reviews = FeeAt + 1 + plan.pseudo
      /\ Sums = Reviews + n /\ Seal = Sums + n /\ Rings = Seal + 1
  BY <1>b DEF Keys, Stream, Masks, Blinds, FeeAt, Reviews, Sums, Seal, Rings
<1>f. /\ 3 <= Keys /\ Keys <= Stream /\ Stream + 1 <= Masks /\ Masks <= Blinds
      /\ Blinds <= FeeAt /\ FeeAt + 1 <= Reviews /\ Reviews <= Sums /\ Sums <= Seal
      /\ Seal <= Rings /\ Stream + 1 \in Nat \ {0} /\ FeeAt + 1 \in Nat \ {0}
      /\ 1 \in Nat \ {0} /\ 2 \in Nat \ {0} /\ 3 \in Nat \ {0}
  BY PlaceOrder
<1>1. Laid(s1, 2) /\ Upto(s1, s0, 1) /\ Holds(s1, 1, 2, "SET_SIGNATURE_MODE")
  <2>1. /\ 1 \in Nat /\ 2 \in Nat /\ 1 \in Nat \ {0}
        /\ 2 = 1 + 1 /\ "SET_SIGNATURE_MODE" \in CommandNames
    BY <1>b, <1>c, <1>f, PlaceOrder DEF CommandNames
  <2>2. s1 = s0 \o Each("SET_SIGNATURE_MODE", 1)
    BY DEF s1
  <2> QED BY <1>0, <2>1, <2>2, Then
<1>2. Laid(s2, 3) /\ Upto(s2, s1, 2) /\ Holds(s2, 2, 3, "OPEN_TX")
  <2>1. /\ 1 \in Nat /\ 3 \in Nat /\ 2 \in Nat \ {0}
        /\ 3 = 2 + 1 /\ "OPEN_TX" \in CommandNames
    BY <1>b, <1>c, <1>f, PlaceOrder DEF CommandNames
  <2>2. s2 = s1 \o Each("OPEN_TX", 1)
    BY DEF s2
  <2> QED BY <1>1, <2>1, <2>2, Then
<1>3. Laid(s3, Keys) /\ Upto(s3, s2, 3) /\ Holds(s3, 3, Keys, "STEALTH")
  <2>1. /\ Len(plan.pid) \in Nat /\ Keys \in Nat /\ 3 \in Nat \ {0}
        /\ Keys = 3 + Len(plan.pid) /\ "STEALTH" \in CommandNames
    BY <1>b, <1>c, <1>f, PlaceOrder DEF CommandNames
  <2>2. s3 = s2 \o Each("STEALTH", Len(plan.pid))
    BY DEF s3
  <2> QED BY <1>2, <2>1, <2>2, Then
<1>4. Laid(s4, Stream) /\ Upto(s4, s3, Keys) /\ Holds(s4, Keys, Stream, "GEN_TXOUT_KEYS")
  <2>1. /\ n \in Nat /\ Stream \in Nat /\ Keys \in Nat \ {0}
        /\ Stream = Keys + n /\ "GEN_TXOUT_KEYS" \in CommandNames
    BY <1>b, <1>c, <1>f, PlaceOrder DEF CommandNames
  <2>2. s4 = s3 \o Each("GEN_TXOUT_KEYS", n)
    BY DEF s4
  <2> QED BY <1>3, <2>1, <2>2, Then
<1>5. /\ Laid(s5, Stream + 1) /\ Upto(s5, s4, Stream)
      /\ Holds(s5, Stream, Stream + 1, "PREFIX_HASH_INIT")
  <2>1. /\ 1 \in Nat /\ Stream + 1 \in Nat /\ Stream \in Nat \ {0}
        /\ Stream + 1 = Stream + 1 /\ "PREFIX_HASH_INIT" \in CommandNames
    BY <1>b, <1>c, <1>f, PlaceOrder DEF CommandNames
  <2>2. s5 = s4 \o Each("PREFIX_HASH_INIT", 1)
    BY DEF s5
  <2> QED BY <1>4, <2>1, <2>2, Then
<1>6. /\ Laid(s6, Masks) /\ Upto(s6, s5, Stream + 1)
      /\ Holds(s6, Stream + 1, Masks, "PREFIX_HASH_UPDATE")
  <2>1. /\ plan.pieces \in Nat /\ Masks \in Nat /\ Stream + 1 \in Nat \ {0}
        /\ Masks = Stream + 1 + plan.pieces /\ "PREFIX_HASH_UPDATE" \in CommandNames
    BY <1>b, <1>c, <1>f, PlaceOrder DEF CommandNames
  <2>2. s6 = s5 \o Each("PREFIX_HASH_UPDATE", plan.pieces)
    BY DEF s6
  <2> QED BY <1>5, <2>1, <2>2, Then
<1>7. Laid(s7, Blinds) /\ Upto(s7, s6, Masks) /\ Holds(s7, Masks, Blinds, "GEN_COMMITMENT_MASK")
  <2>1. /\ r \in Nat /\ Blinds \in Nat /\ Masks \in Nat \ {0}
        /\ Blinds = Masks + r /\ "GEN_COMMITMENT_MASK" \in CommandNames
    BY <1>b, <1>c, <1>f, PlaceOrder DEF CommandNames
  <2>2. s7 = s6 \o Each("GEN_COMMITMENT_MASK", r)
    BY DEF s7
  <2> QED BY <1>6, <2>1, <2>2, Then
<1>8. Laid(s8, FeeAt) /\ Upto(s8, s7, Blinds) /\ Holds(s8, Blinds, FeeAt, "BLIND")
  <2>1. /\ n \in Nat /\ FeeAt \in Nat /\ Blinds \in Nat \ {0}
        /\ FeeAt = Blinds + n /\ "BLIND" \in CommandNames
    BY <1>b, <1>c, <1>f, PlaceOrder DEF CommandNames
  <2>2. s8 = s7 \o Each("BLIND", n)
    BY DEF s8
  <2> QED BY <1>7, <2>1, <2>2, Then
<1>9. Laid(s9, FeeAt + 1) /\ Upto(s9, s8, FeeAt) /\ Holds(s9, FeeAt, FeeAt + 1, "PREHASH_FEE")
  <2>1. /\ 1 \in Nat /\ FeeAt + 1 \in Nat /\ FeeAt \in Nat \ {0}
        /\ FeeAt + 1 = FeeAt + 1 /\ "PREHASH_FEE" \in CommandNames
    BY <1>b, <1>c, <1>f, PlaceOrder DEF CommandNames
  <2>2. s9 = s8 \o Each("PREHASH_FEE", 1)
    BY DEF s9
  <2> QED BY <1>8, <2>1, <2>2, Then
<1>10. /\ Laid(s10, Reviews) /\ Upto(s10, s9, FeeAt + 1)
       /\ Holds(s10, FeeAt + 1, Reviews, "PREHASH_PSEUDO_OUT")
  <2>1. /\ plan.pseudo \in Nat /\ Reviews \in Nat /\ FeeAt + 1 \in Nat \ {0}
        /\ Reviews = FeeAt + 1 + plan.pseudo /\ "PREHASH_PSEUDO_OUT" \in CommandNames
    BY <1>b, <1>c, <1>f, PlaceOrder DEF CommandNames
  <2>2. s10 = s9 \o Each("PREHASH_PSEUDO_OUT", plan.pseudo)
    BY DEF s10
  <2> QED BY <1>9, <2>1, <2>2, Then
<1>11. Laid(s11, Sums) /\ Upto(s11, s10, Reviews) /\ Holds(s11, Reviews, Sums, "PREHASH_UPDATE")
  <2>1. /\ n \in Nat /\ Sums \in Nat /\ Reviews \in Nat \ {0}
        /\ Sums = Reviews + n /\ "PREHASH_UPDATE" \in CommandNames
    BY <1>b, <1>c, <1>f, PlaceOrder DEF CommandNames
  <2>2. s11 = s10 \o Each("PREHASH_UPDATE", n)
    BY DEF s11
  <2> QED BY <1>10, <2>1, <2>2, Then
<1>12. Laid(s12, Seal) /\ Upto(s12, s11, Sums) /\ Holds(s12, Sums, Seal, "PREHASH_ACCUMULATE")
  <2>1. /\ n \in Nat /\ Seal \in Nat /\ Sums \in Nat \ {0}
        /\ Seal = Sums + n /\ "PREHASH_ACCUMULATE" \in CommandNames
    BY <1>b, <1>c, <1>f, PlaceOrder DEF CommandNames
  <2>2. s12 = s11 \o Each("PREHASH_ACCUMULATE", n)
    BY DEF s12
  <2> QED BY <1>11, <2>1, <2>2, Then
<1>13. Laid(s13, Rings) /\ Upto(s13, s12, Seal) /\ Holds(s13, Seal, Rings, "PREHASH_FINALIZE")
  <2>1. /\ 1 \in Nat /\ Rings \in Nat /\ Seal \in Nat \ {0}
        /\ Rings = Seal + 1 /\ "PREHASH_FINALIZE" \in CommandNames
    BY <1>b, <1>c, <1>f, PlaceOrder DEF CommandNames
  <2>2. s13 = s12 \o Each("PREHASH_FINALIZE", 1)
    BY DEF s13
  <2> QED BY <1>12, <2>1, <2>2, Then
<1> DEFINE m   == 5 * plan.rings
           end == Rings + m
<1>g. m \in Nat
  BY <1>b
<1> HIDE DEF m
<1>d. end \in Nat /\ Rings <= end
  BY <1>g, PlaceOrder
<1>14. Laid(s14, end) /\ Upto(s14, s13, Rings) /\ \A k \in Rings..end - 1 : s14[k] \in RingCommands
  <2>1. end = Rings + 5 * plan.rings
    BY DEF m
  <2>2. s14 = s13 \o RingPrograms(plan.rings)
    BY DEF s14
  <2> HIDE DEF end
  <2> QED BY <1>b, <1>d, <1>13, <2>1, <2>2, ThenRings, PlaceOrder
<1> HIDE DEF end
<1>15. Laid(s15, end + 1) /\ Upto(s15, s14, end) /\ Holds(s15, end, end + 1, "CLOSE_TX")
  <2>1. 1 \in Nat /\ "CLOSE_TX" \in CommandNames /\ s15 = s14 \o Each("CLOSE_TX", 1)
    BY DEF CommandNames, s15
  <2>2. end \in Nat \ {0} /\ end + 1 \in Nat /\ end + 1 = end + 1
    BY <1>d, PlaceOrder
  <2> QED BY <1>14, <2>1, <2>2, Then
<1>e. End = end /\ End \in Nat \ {0} /\ Rings <= End
  <2>1. End = end
    BY <1>a, <1>d, <1>15 DEF End, Laid
  <2> QED BY <1>d, <2>1, PlaceOrder
\* What was put in front stays there.
<1>16. Upto(s15, s13, Rings)
  BY <1>d, <1>f, PlaceOrder, <1>14, <1>15, UptoUpto
<1>17. Upto(s15, s12, Seal)
  BY <1>f, PlaceOrder, <1>13, <1>16, UptoUpto
<1>18. Upto(s15, s11, Sums)
  BY <1>f, PlaceOrder, <1>12, <1>17, UptoUpto
<1>19. Upto(s15, s10, Reviews)
  BY <1>f, PlaceOrder, <1>11, <1>18, UptoUpto
<1>20. Upto(s15, s9, FeeAt + 1)
  BY <1>f, PlaceOrder, <1>10, <1>19, UptoUpto
<1>21. Upto(s15, s8, FeeAt)
  BY <1>f, PlaceOrder, <1>9, <1>20, UptoUpto
<1>22. Upto(s15, s7, Blinds)
  BY <1>f, PlaceOrder, <1>8, <1>21, UptoUpto
<1>23. Upto(s15, s6, Masks)
  BY <1>f, PlaceOrder, <1>7, <1>22, UptoUpto
<1>24. Upto(s15, s5, Stream + 1)
  BY <1>f, PlaceOrder, <1>6, <1>23, UptoUpto
<1>25. Upto(s15, s4, Stream)
  BY <1>f, PlaceOrder, <1>5, <1>24, UptoUpto
<1>26. Upto(s15, s3, Keys)
  BY <1>f, PlaceOrder, <1>4, <1>25, UptoUpto
<1>27. Upto(s15, s2, 3)
  BY <1>f, PlaceOrder, <1>3, <1>26, UptoUpto
<1>28. Upto(s15, s1, 2)
  BY <1>f, PlaceOrder, <1>2, <1>27, UptoUpto
<1>29. Holds(s15, 1, 2, "SET_SIGNATURE_MODE")
  BY <1>f, PlaceOrder, <1>1, <1>28, HoldsStill
<1>30. Holds(s15, 2, 3, "OPEN_TX")
  BY <1>f, PlaceOrder, <1>2, <1>27, HoldsStill
<1>31. Holds(s15, 3, Keys, "STEALTH")
  BY <1>f, PlaceOrder, <1>3, <1>26, HoldsStill
<1>32. Holds(s15, Keys, Stream, "GEN_TXOUT_KEYS")
  BY <1>f, PlaceOrder, <1>4, <1>25, HoldsStill
<1>33. Holds(s15, Stream, Stream + 1, "PREFIX_HASH_INIT")
  BY <1>f, PlaceOrder, <1>5, <1>24, HoldsStill
<1>34. Holds(s15, Stream + 1, Masks, "PREFIX_HASH_UPDATE")
  BY <1>f, PlaceOrder, <1>6, <1>23, HoldsStill
<1>35. Holds(s15, Masks, Blinds, "GEN_COMMITMENT_MASK")
  BY <1>f, PlaceOrder, <1>7, <1>22, HoldsStill
<1>36. Holds(s15, Blinds, FeeAt, "BLIND")
  BY <1>f, PlaceOrder, <1>8, <1>21, HoldsStill
<1>37. Holds(s15, FeeAt, FeeAt + 1, "PREHASH_FEE")
  BY <1>f, PlaceOrder, <1>9, <1>20, HoldsStill
<1>38. Holds(s15, FeeAt + 1, Reviews, "PREHASH_PSEUDO_OUT")
  BY <1>f, PlaceOrder, <1>10, <1>19, HoldsStill
<1>39. Holds(s15, Reviews, Sums, "PREHASH_UPDATE")
  BY <1>f, PlaceOrder, <1>11, <1>18, HoldsStill
<1>40. Holds(s15, Sums, Seal, "PREHASH_ACCUMULATE")
  BY <1>f, PlaceOrder, <1>12, <1>17, HoldsStill
<1>41. Holds(s15, Seal, Rings, "PREHASH_FINALIZE")
  BY <1>f, PlaceOrder, <1>13, <1>16, HoldsStill
<1>42. \A k \in Rings..end - 1 : s15[k] \in RingCommands
  BY <1>d, PlaceOrder, <1>14, <1>15 DEF Upto
<1> QED BY <1>a, <1>d, <1>e, <1>15, <1>29, <1>30, <1>31, <1>32, <1>33, <1>34,
          <1>35, <1>36, <1>37, <1>38, <1>39, <1>40, <1>41, <1>42 DEF end, m

\* The commands of the program, each at its place.
HostCommand ==
  \/ pc = 1 /\ SetSignatureMode(plan.mode)
  \/ pc = 2 /\ OpenTx
  \/ pc = 3 /\ pc < Keys /\ Stealth(plan.pid[1])
  \/ \E i \in 1..OutCount :
       pc = Keys - 1 + i /\ GenTxoutKeys(plan.outs[i].to, plan.outs[i].chg)
  \/ pc = Stream /\ PrefixHashInit(plan.lock)
  \/ \E i \in 1..plan.pieces :
       pc = Stream + i /\ PrefixHashUpdate(ChunkAt(i), i < plan.pieces, i)
  \/ pc \in Masks..Blinds - 1 /\ GenCommitmentMask
  \/ pc \in Blinds..FeeAt - 1 /\ Blind
  \/ pc = FeeAt /\ \/ PrehashInitFee(plan.fee, plan.pseudo > 0)
                   \/ PrehashInit(plan.pseudo > 0, 1)
  \/ \E i \in 1..plan.pseudo : pc = FeeAt + i /\ PrehashInit(i < plan.pseudo, i + 1)
  \/ \E i \in 1..OutCount : pc = Reviews - 1 + i /\
       \/ PrehashUpdate(DeviceOutput(i), plan.outs[i].amt, i < OutCount, i)
       \/ PrehashUpdateFake(DeviceOutput(i), plan.outs[i].amt, i)
  \/ \E i \in 1..OutCount : pc = Sums - 1 + i /\
       PrehashAccumulate(Commit(DeviceOutput(i), plan.outs[i].amt), i)
  \/ pc = Seal /\ PrehashFinalize(prefixH, OutCount + 1)
  \/ pc \in Rings..End - 1 /\ RingCommand
  \/ pc = End /\ CloseTx

\* What a place holds is performed there.
LEMMA PerformedAt ==
  ASSUME NEW p \in Nat \ {0}, NEW q \in Nat, NEW name, Holds(Program(plan), p, q, name),
         HostStep, pc \in p..q - 1
  PROVE  Perform(name, pc - (p - 1))
<1>1. Program(plan)[pc] = Command(name, pc - (p - 1))
  BY DEF Holds
<1>2. Program(plan)[pc].name = name /\ Program(plan)[pc].i = pc - (p - 1)
  BY <1>1 DEF Command
<1> QED BY <1>2 DEF HostStep

\* A ring command is one of the dispatcher's.
LEMMA RingPerformed ==
  ASSUME plan \in Plans, HostStep, Program(plan)[pc] \in RingCommands
  PROVE  RingCommand
<1> DEFINE name == Program(plan)[pc].name
           i    == Program(plan)[pc].i
<1>1. Perform(name, i) /\ (name \in {"PREPARE", "SIGN"} \/ (name = "HASH" /\ i \in 1..3))
  BY DEF HostStep, RingCommands
<1>2. plan.ins \in {"MLSAG", "CLSAG"} /\ 1..3 \subseteq Step
  BY PlanIs DEF Step
<1> HIDE DEF name, i
<1>3. CASE name = "PREPARE"
  <2>1. Prepare(plan.ins)
    BY <1>1, <1>3 DEF Perform
  <2> QED BY <1>2, <2>1 DEF RingCommand
<1>4. CASE name = "SIGN"
  <2>1. Sign(plan.ins)
    BY <1>1, <1>4 DEF Perform
  <2> QED BY <1>2, <2>1 DEF RingCommand
<1>5. CASE name = "HASH" /\ i \in 1..3
  <2>1. Hash(plan.ins, i = 1, i < 3, i)
    BY <1>1, <1>5 DEF Perform
  <2>2. (i = 1) \in BOOLEAN /\ (i < 3) \in More /\ i \in Step
    BY <1>2, <1>5 DEF More
  <2> QED BY <1>2, <2>1, <2>2 DEF RingCommand
<1> QED BY <1>1, <1>3, <1>4, <1>5

\* The host performs the command of the place where it is.
LEMMA PerformsCommand ==
  ASSUME plan \in Plans, HostStep
  PROVE  HostCommand
<1>1. pc \in 1..End
  BY DEF HostStep
<1>2. /\ 1 \in Nat \ {0} /\ 2 \in Nat \ {0} /\ 3 \in Nat \ {0} /\ FeeAt + 1 \in Nat \ {0}
      /\ Stream + 1 \in Nat \ {0} /\ End \in Nat \ {0} /\ End + 1 \in Nat /\ Rings <= End
  BY PlaceOrder, ProgramIs
<1>3. \/ pc = 1 \/ pc = 2 \/ pc \in 3..Keys - 1 \/ pc \in Keys..Stream - 1 \/ pc = Stream
      \/ pc \in Stream + 1..Masks - 1 \/ pc \in Masks..Blinds - 1 \/ pc \in Blinds..FeeAt - 1
      \/ pc = FeeAt \/ pc \in FeeAt + 1..Reviews - 1 \/ pc \in Reviews..Sums - 1
      \/ pc \in Sums..Seal - 1 \/ pc = Seal \/ pc \in Rings..End - 1 \/ pc = End
  <2>1. Rings = Seal + 1
    BY DEF Rings
  <2> QED BY <1>1, <1>2, <2>1, PlaceOrder
<1>4. CASE pc = 1
  <2>1. Perform("SET_SIGNATURE_MODE", pc - (1 - 1))
    BY <1>2, <1>4, ProgramIs, PerformedAt
  <2>2. SetSignatureMode(plan.mode)
    BY <2>1 DEF Perform
  <2> QED BY <1>4, <2>2 DEF HostCommand
<1>5. CASE pc = 2
  <2>1. Perform("OPEN_TX", pc - (2 - 1))
    BY <1>2, <1>5, ProgramIs, PerformedAt
  <2>2. OpenTx
    BY <2>1 DEF Perform
  <2> QED BY <1>5, <2>2 DEF HostCommand
<1>6. CASE pc \in 3..Keys - 1
  <2>1. Perform("STEALTH", pc - (3 - 1))
    BY <1>2, <1>6, PlaceOrder, ProgramIs, PerformedAt
  <2>2. Stealth(plan.pid[1])
    BY <2>1 DEF Perform
  <2>3. pc = 3 /\ pc < Keys
    <3>1. Keys \in 3..4
      BY PlaceWidths
    <3> QED BY <1>6, <3>1
  <2> QED BY <2>2, <2>3 DEF HostCommand
<1>7. CASE pc \in Keys..Stream - 1
  <2>1. PICK i \in 1..OutCount : i = pc - (Keys - 1)
    <3>1. pc - (Keys - 1) \in 1..OutCount
      BY <1>7, PlaceWidths, PlaceOrder
    <3> QED BY <3>1
  <2>2. Perform("GEN_TXOUT_KEYS", i)
    BY <1>7, <2>1, PlaceOrder, ProgramIs, PerformedAt
  <2>3. GenTxoutKeys(plan.outs[i].to, plan.outs[i].chg)
    BY <2>2 DEF Perform
  <2>4. pc = Keys - 1 + i
    BY <1>7, <2>1, PlaceOrder
  <2> QED BY <2>3, <2>4 DEF HostCommand
<1>8. CASE pc = Stream
  <2>1. Perform("PREFIX_HASH_INIT", pc - (Stream - 1))
    BY <1>2, <1>8, PlaceOrder, ProgramIs, PerformedAt
  <2>2. PrefixHashInit(plan.lock)
    BY <2>1 DEF Perform
  <2> QED BY <1>8, <2>2 DEF HostCommand
<1>9. CASE pc \in Stream + 1..Masks - 1
  <2>1. PICK i \in 1..plan.pieces : i = pc - Stream
    <3>1. pc - Stream \in 1..plan.pieces
      BY <1>9, PlaceWidths, PlaceOrder
    <3> QED BY <3>1
  <2>2. pc - (Stream + 1 - 1) = i /\ pc = Stream + i
    BY <1>9, <2>1, PlaceOrder
  <2>3. Perform("PREFIX_HASH_UPDATE", i)
    BY <1>2, <1>9, <2>2, PlaceOrder, ProgramIs, PerformedAt
  <2>4. PrefixHashUpdate(ChunkAt(i), i < plan.pieces, i)
    BY <2>3 DEF Perform
  <2> QED BY <2>2, <2>4 DEF HostCommand
<1>10. CASE pc \in Masks..Blinds - 1
  <2>1. Perform("GEN_COMMITMENT_MASK", pc - (Masks - 1))
    BY <1>10, PlaceOrder, ProgramIs, PerformedAt
  <2>2. GenCommitmentMask
    BY <2>1 DEF Perform
  <2> QED BY <1>10, <2>2 DEF HostCommand
<1>11. CASE pc \in Blinds..FeeAt - 1
  <2>1. Perform("BLIND", pc - (Blinds - 1))
    BY <1>11, PlaceOrder, ProgramIs, PerformedAt
  <2>2. Blind
    BY <2>1 DEF Perform
  <2> QED BY <1>11, <2>2 DEF HostCommand
<1>12. CASE pc = FeeAt
  <2>1. Perform("PREHASH_FEE", pc - (FeeAt - 1))
    BY <1>2, <1>12, PlaceOrder, ProgramIs, PerformedAt
  <2>2. PrehashInitFee(plan.fee, plan.pseudo > 0) \/ PrehashInit(plan.pseudo > 0, 1)
    BY <2>1 DEF Perform
  <2> QED BY <1>12, <2>2 DEF HostCommand
<1>13. CASE pc \in FeeAt + 1..Reviews - 1
  <2>1. PICK i \in 1..plan.pseudo : i = pc - FeeAt
    <3>1. pc - FeeAt \in 1..plan.pseudo
      BY <1>13, PlaceWidths, PlaceOrder
    <3> QED BY <3>1
  <2>2. pc - (FeeAt + 1 - 1) = i /\ pc = FeeAt + i
    BY <1>13, <2>1, PlaceOrder
  <2>3. Perform("PREHASH_PSEUDO_OUT", i)
    BY <1>2, <1>13, <2>2, PlaceOrder, ProgramIs, PerformedAt
  <2>4. PrehashInit(i < plan.pseudo, i + 1)
    BY <2>3 DEF Perform
  <2> QED BY <2>2, <2>4 DEF HostCommand
<1>14. CASE pc \in Reviews..Sums - 1
  <2>1. PICK i \in 1..OutCount : i = pc - (Reviews - 1)
    <3>1. pc - (Reviews - 1) \in 1..OutCount
      BY <1>14, PlaceWidths, PlaceOrder
    <3> QED BY <3>1
  <2>2. Perform("PREHASH_UPDATE", i)
    BY <1>14, <2>1, PlaceOrder, ProgramIs, PerformedAt
  <2>3. \/ PrehashUpdate(DeviceOutput(i), plan.outs[i].amt, i < OutCount, i)
        \/ PrehashUpdateFake(DeviceOutput(i), plan.outs[i].amt, i)
    BY <2>2 DEF Perform, OutCount
  <2>4. pc = Reviews - 1 + i
    BY <1>14, <2>1, PlaceOrder
  <2> QED BY <2>3, <2>4 DEF HostCommand
<1>15. CASE pc \in Sums..Seal - 1
  <2>1. PICK i \in 1..OutCount : i = pc - (Sums - 1)
    <3>1. pc - (Sums - 1) \in 1..OutCount
      BY <1>15, PlaceWidths, PlaceOrder
    <3> QED BY <3>1
  <2>2. Perform("PREHASH_ACCUMULATE", i)
    BY <1>15, <2>1, PlaceOrder, ProgramIs, PerformedAt
  <2>3. PrehashAccumulate(Commit(DeviceOutput(i), plan.outs[i].amt), i)
    BY <2>2 DEF Perform
  <2>4. pc = Sums - 1 + i
    BY <1>15, <2>1, PlaceOrder
  <2> QED BY <2>3, <2>4 DEF HostCommand
<1>16. CASE pc = Seal
  <2>1. Seal \in Seal..Rings - 1
    BY PlaceOrder
  <2>2. Perform("PREHASH_FINALIZE", pc - (Seal - 1))
    BY <1>16, <2>1, PlaceOrder, ProgramIs, PerformedAt
  <2>3. PrehashFinalize(prefixH, OutCount + 1)
    BY <2>2 DEF Perform, OutCount
  <2> QED BY <1>16, <2>3 DEF HostCommand
<1>17. CASE pc \in Rings..End - 1
  BY <1>17, ProgramIs, RingPerformed DEF HostCommand
<1>18. CASE pc = End
  <2>1. pc \in End..End + 1 - 1
    BY <1>2, <1>18
  <2>2. Perform("CLOSE_TX", pc - (End - 1))
    BY <1>2, <2>1, ProgramIs, PerformedAt
  <2>3. CloseTx
    BY <2>2 DEF Perform
  <2> QED BY <1>18, <2>3 DEF HostCommand
<1> QED BY <1>3, <1>4, <1>5, <1>6, <1>7, <1>8, <1>9, <1>10, <1>11, <1>12, <1>13, <1>14, <1>15,
           <1>16, <1>17, <1>18

-----------------------------------------------------------------------------
(* An honest host is a host. *)

\* An element of a sequence is one of its set.
LEMMA ElementIn == ASSUME NEW S, NEW s \in Seq(S), NEW i \in 1..Len(s) PROVE s[i] \in S
OBVIOUS

\* The i-th output of the plan is one the device may have.
LEMMA PlannedOutput ==
  ASSUME plan \in Plans, NEW i \in 1..OutCount
  PROVE  /\ plan.outs[i].to \in Dest /\ plan.outs[i].chg \in BOOLEAN
         /\ plan.outs[i].amt \in Amount
         /\ DeviceOutput(i) \in Output /\ Commit(DeviceOutput(i), plan.outs[i].amt) \in Commitment
<1>1. plan.outs \in Seq([to : Dest, chg : BOOLEAN, amt : Amount]) /\ OutCount \in 1..MaxOutputs
      /\ MaxOutputs \in Nat
  BY PlanIs
<1>2. plan.outs[i] \in [to : Dest, chg : BOOLEAN, amt : Amount]
  BY <1>1, ElementIn DEF OutCount
<1>3. plan.outs[i].to \in Dest /\ plan.outs[i].chg \in BOOLEAN /\ plan.outs[i].amt \in Amount
  BY <1>2
<1>4. i - 1 \in 0..MaxOutputs - 1
  BY <1>1
<1>5. DeviceOutput(i) \in Output /\ DeviceOutput(i).ak = i - 1
  BY <1>3, <1>4 DEF DeviceOutput, Output
<1>6. Commit(DeviceOutput(i), plan.outs[i].amt) \in Commitment
  BY <1>3, <1>4, <1>5 DEF Commit, Commitment
<1> QED BY <1>3, <1>5, <1>6

\* So is a piece of its prefix.
LEMMA PlannedChunk ==
  ASSUME plan \in Plans, NEW i \in 1..plan.pieces
  PROVE  ChunkAt(i) \in Chunks
<1>1. plan.pid \in {<<>>} \cup {<<pid>> : pid \in PaymentId}
  BY PlansOK DEF Planned
<1>2. (i = plan.pieces) \in BOOLEAN
  OBVIOUS
<1> QED BY <1>1, <1>2 DEF ChunkAt, Chunks

\* The payment ID of a plan that has one.
LEMMA PlannedPid ==
  ASSUME plan \in Plans, 3 < Keys
  PROVE  plan.pid[1] \in PaymentId /\ plan.pid = <<plan.pid[1]>> /\ Keys = 4
<1>1. plan.pid = <<>> \/ \E pid \in PaymentId : plan.pid = <<pid>>
  BY PlanIs
<1>2. CASE plan.pid = <<>>
  <2>1. Len(plan.pid) = 0
    BY <1>2
  <2> QED BY <2>1 DEF Keys
<1>3. ASSUME NEW pid \in PaymentId, plan.pid = <<pid>>
      PROVE  plan.pid[1] \in PaymentId /\ plan.pid = <<plan.pid[1]>> /\ Keys = 4
  <2>1. Len(<<pid>>) = 1 /\ <<pid>>[1] = pid
    OBVIOUS
  <2>2. Len(plan.pid) = 1
    BY <1>3, <2>1
  <2> QED BY <1>3, <2>1, <2>2 DEF Keys
<1> QED BY <1>1, <1>2, <1>3

\* What it sends any host might send.
LEMMA CommandIsStep ==
  ASSUME plan \in Plans, HostCommand
  PROVE  BuildCommand \/ ValidateCommand \/ RingCommand
<1>1. CASE pc = 1 /\ SetSignatureMode(plan.mode)
  BY <1>1, PlanIs DEF BuildCommand
<1>2. CASE OpenTx \/ CloseTx \/ GenCommitmentMask \/ Blind
  BY <1>2 DEF BuildCommand
<1>3. CASE pc = 3 /\ pc < Keys /\ Stealth(plan.pid[1])
  <2>1. plan.pid[1] \in PaymentId
    BY <1>3, PlannedPid
  <2> QED BY <1>3, <2>1 DEF BuildCommand
<1>4. ASSUME NEW i \in 1..OutCount, GenTxoutKeys(plan.outs[i].to, plan.outs[i].chg)
      PROVE  BuildCommand
  BY <1>4, PlannedOutput DEF BuildCommand
<1>5. CASE PrefixHashInit(plan.lock)
  BY <1>5, PlanIs DEF BuildCommand
<1>6. ASSUME NEW i \in 1..plan.pieces, PrefixHashUpdate(ChunkAt(i), i < plan.pieces, i)
      PROVE  BuildCommand
  <2>1. i \in 1..MaxChunks
    BY PlanIs
  <2>2. ChunkAt(i) \in Chunks /\ (i < plan.pieces) \in More
    BY PlannedChunk DEF More
  <2> QED BY <1>6, <2>1, <2>2 DEF BuildCommand
<1>7. CASE PrehashInitFee(plan.fee, plan.pseudo > 0) \/ PrehashInit(plan.pseudo > 0, 1)
  <2>1. plan.fee \in Amount /\ (plan.pseudo > 0) \in More /\ 1 \in Step
    BY PlanIs DEF More, Step
  <2> QED BY <1>7, <2>1 DEF ValidateCommand
<1>8. ASSUME NEW i \in 1..plan.pseudo, PrehashInit(i < plan.pseudo, i + 1)
      PROVE  ValidateCommand
  <2>1. plan.pseudo \in Nat /\ plan.pseudo < MaxStep /\ MaxStep \in Nat
    BY PlanIs
  <2>2. (i < plan.pseudo) \in More /\ i + 1 \in Step
    BY <2>1 DEF More, Step
  <2> QED BY <1>8, <2>2 DEF ValidateCommand
<1>9. ASSUME NEW i \in 1..OutCount
      PROVE  i \in Step /\ (i < OutCount) \in More /\ OutCount + 1 \in Step
  <2>1. OutCount \in Nat /\ OutCount < MaxStep /\ MaxStep \in Nat
    BY PlanIs
  <2> QED BY <2>1 DEF Step, More
<1>10. ASSUME NEW i \in 1..OutCount,
              PrehashUpdate(DeviceOutput(i), plan.outs[i].amt, i < OutCount, i)
       PROVE  ValidateCommand
  BY <1>9, <1>10, PlannedOutput DEF ValidateCommand
<1>11. ASSUME NEW i \in 1..OutCount, PrehashUpdateFake(DeviceOutput(i), plan.outs[i].amt, i)
       PROVE  ValidateCommand
  BY <1>9, <1>11, PlannedOutput DEF ValidateCommand
<1>12. ASSUME NEW i \in 1..OutCount,
              PrehashAccumulate(Commit(DeviceOutput(i), plan.outs[i].amt), i)
       PROVE  ValidateCommand
  BY <1>9, <1>12, PlannedOutput DEF ValidateCommand
<1>13. CASE PrehashFinalize(prefixH, OutCount + 1)
  <2>1. 1 \in 1..OutCount
    BY PlanIs
  <2>2. OutCount + 1 \in Step
    BY <1>9, <2>1
  <2> QED BY <1>13, <2>2 DEF ValidateCommand
<1>14. CASE RingCommand
  BY <1>14
<1> QED BY <1>1, <1>2, <1>3, <1>4, <1>5, <1>6, <1>7, <1>8, <1>10, <1>11, <1>12, <1>13, <1>14
        DEF HostCommand

\* The plan is one of the plans, and the place one of its program or after it.
PlaceInv == plan \in Plans /\ pc \in 0..End + 1

\* A step of the host is a step of the device.
LEMMA HostIsStep == ASSUME PlaceInv, [HostNext]_hostVars PROVE [Next]_vars
<1>1. CASE HostStep
  BY <1>1, PerformsCommand, CommandIsStep DEF PlaceInv, Next
<1>2. CASE HostReset \/ Unplug \/ PlugIn
  BY <1>2 DEF HostReset, Unplug, PlugIn, Next
<1>3. CASE UserAccepts \/ UserRejects
  BY <1>3 DEF UserAccepts, UserRejects, Next, User
<1>4. CASE NextTransaction \/ Rest \/ UNCHANGED hostVars
  BY <1>4 DEF NextTransaction, Rest, hostVars
<1> QED BY <1>1, <1>2, <1>3, <1>4 DEF HostNext

\* The host begins at the first command of a plan.
LEMMA PlaceInit == ASSUME HostInit PROVE PlaceInv
<1>1. plan \in Plans /\ pc = 1
  BY DEF HostInit
<1>2. End \in Nat
  BY <1>1, ProgramIs
<1> QED BY <1>1, <1>2 DEF PlaceInv

\* The program has a last command.
LEMMA EndThere == plan \in Plans => End \in Nat
BY ProgramIs

\* The host stays within its program.
LEMMA PlaceStep == ASSUME PlaceInv, [HostNext]_hostVars PROVE PlaceInv'
<1>1. plan \in Plans /\ pc \in 0..End + 1 /\ End \in Nat \ {0}
  BY ProgramIs DEF PlaceInv
<1>2. plan' = plan => End' = End
  BY DEF End
<1>3. CASE HostStep
  BY <1>1, <1>2, <1>3 DEF HostStep, PlaceInv
<1>4. CASE HostReset \/ Unplug \/ UserRejects
  BY <1>1, <1>2, <1>4 DEF HostReset, Unplug, UserRejects, PlaceInv
<1>5. CASE NextTransaction
  <2>1. plan' \in Plans /\ pc' = 1
    BY <1>5 DEF NextTransaction
  <2>2. (plan \in Plans => End \in Nat)'
    BY EndThere, PTL
  <2> QED BY <2>1, <2>2 DEF PlaceInv
<1>6. CASE UserAccepts \/ PlugIn \/ Rest \/ UNCHANGED hostVars
  BY <1>1, <1>2, <1>6 DEF UserAccepts, PlugIn, Rest, hostVars, host, PlaceInv
<1> QED BY <1>3, <1>4, <1>5, <1>6 DEF HostNext

\* An honest host implements any host: all that holds of MoneroTx holds under it.
THEOREM HonestIsHost == HostSpec => Spec
<1>1. HostInit => PlaceInv /\ Init
  BY PlaceInit DEF HostInit
<1>2. PlaceInv /\ [HostNext]_hostVars => PlaceInv' /\ [Next]_vars
  BY PlaceStep, HostIsStep
<1> QED BY <1>1, <1>2, PTL DEF HostSpec, Spec

-----------------------------------------------------------------------------
(* The host's invariant, step by step. *)

\* What holds of any transaction.
Known == PlaceInv /\ ReviewInv /\ Grounds /\ FakeInv

\* The places are those of the plan.
LEMMA PlacesStay ==
  ASSUME plan' = plan
  PROVE  /\ OutCount' = OutCount /\ Keys' = Keys /\ Stream' = Stream /\ FeeAt' = FeeAt
         /\ Reviews' = Reviews /\ Sums' = Sums /\ End' = End
<1>1. OutCount' = OutCount /\ Keys' = Keys /\ End' = End
  BY DEF OutCount, Keys, End
<1>2. Stream' = Stream /\ Masks' = Masks
  BY <1>1 DEF Stream, Masks
<1>3. Blinds' = Blinds
  BY <1>1, <1>2 DEF Blinds
<1>4. FeeAt' = FeeAt /\ Reviews' = Reviews /\ Sums' = Sums
  BY <1>1, <1>3 DEF FeeAt, Reviews, Sums
<1> QED BY <1>1, <1>2, <1>4

\* Nothing is asked when a command comes,
LEMMA NothingAsked ==
  ASSUME HostInv, Known, ~io_reply_pending
  PROVE  review = <<>>
BY DEF HostInv, Known, Grounds, Quiet

\* and each command of the program is one that comes.
LEMMA CommandListens ==
  ASSUME plan \in Plans, HostCommand
  PROVE  Listening
<1>1. CASE \E i \in 1..plan.pieces : PrefixHashUpdate(ChunkAt(i), i < plan.pieces, i)
  BY <1>1 DEF PrefixHashUpdate, Sync
<1>2. CASE PrefixHashInit(plan.lock)
  BY <1>2 DEF PrefixHashInit, Announce, Ask, Sync
<1>3. CASE \/ SetSignatureMode(plan.mode) \/ OpenTx \/ Stealth(plan.pid[1])
           \/ GenCommitmentMask \/ Blind \/ CloseTx
  BY <1>3 DEF SetSignatureMode, OpenTx, Stealth, GenCommitmentMask, Blind, CloseTx, Sync
<1>4. CASE \E i \in 1..OutCount : GenTxoutKeys(plan.outs[i].to, plan.outs[i].chg)
  BY <1>4 DEF GenTxoutKeys, Sync
<1>5. CASE PrehashInitFee(plan.fee, plan.pseudo > 0)
  BY <1>5 DEF PrehashInitFee, Ask
<1>6. CASE \/ PrehashInit(plan.pseudo > 0, 1)
           \/ \E i \in 1..plan.pseudo : PrehashInit(i < plan.pseudo, i + 1)
  BY <1>6 DEF PrehashInit, Sync
<1>7. CASE \E i \in 1..OutCount :
             \/ PrehashUpdate(DeviceOutput(i), plan.outs[i].amt, i < OutCount, i)
             \/ PrehashUpdateFake(DeviceOutput(i), plan.outs[i].amt, i)
             \/ PrehashAccumulate(Commit(DeviceOutput(i), plan.outs[i].amt), i)
  BY <1>7 DEF PrehashUpdate, PrehashUpdateFake, PrehashAccumulate, Sync, Ask
<1>8. CASE PrehashFinalize(prefixH, OutCount + 1)
  BY <1>8 DEF PrehashFinalize, Sync
<1>9. CASE RingCommand
  BY <1>9, RingFramed DEF RingFrame, Sync
<1> QED BY <1>1, <1>2, <1>3, <1>4, <1>5, <1>6, <1>7, <1>8, <1>9 DEF HostCommand

\* Whatever ends a transaction, or comes between two.
LEMMA NoTransaction ==
  ASSUME ~tx_in_progress', review' = <<>>, pc' # 2
  PROVE  HostInv'
BY DEF HostInv

\* A transaction that ends leaves nothing on screen.
LEMMA EndsQuietly ==
  ASSUME HostInv, Known, HostReset \/ Unplug \/ UserRejects \/ NextTransaction
  PROVE  HostInv'
<1>1. End \in Nat /\ End >= 3 /\ pc \in 0..End + 1
  BY PlaceOrder, ProgramIs DEF Known, PlaceInv
<1>2. CASE HostReset
  <2>1. review = <<>>
    BY <1>2, NothingAsked DEF HostReset, Reinit
  <2>2. ~tx_in_progress' /\ review' = <<>> /\ pc' # 2
    BY <1>1, <1>2, <2>1 DEF HostReset, Reinit, Bzero
  <2> QED BY <2>2, NoTransaction
<1>3. CASE Unplug
  <2>1. ~tx_in_progress' /\ review' = <<>> /\ pc' # 2
    BY <1>1, <1>3 DEF Unplug, Kill, Bzero
  <2> QED BY <2>1, NoTransaction
<1>4. CASE UserRejects
  <2>1. ~tx_in_progress' /\ review' = <<>> /\ pc' # 2
    BY <1>1, <1>4 DEF UserRejects, Reject, Answered, monero_reset_tx
  <2> QED BY <2>1, NoTransaction
<1>5. CASE NextTransaction
  <2>1. pc > End /\ pc' = 1 /\ UNCHANGED <<tx_in_progress, review>>
    BY <1>5 DEF NextTransaction, Finished, vars, session, txState
  <2>2. ~tx_in_progress /\ review = <<>>
    BY <1>1, <2>1 DEF HostInv
  <2> QED BY <2>1, <2>2, NoTransaction
<1> QED BY <1>2, <1>3, <1>4, <1>5

\* A host that waits.
LEMMA HostWaits ==
  ASSUME HostInv, UNCHANGED <<review, rows, txState, shown, host>>
  PROVE  HostInv'
<1>1. /\ UNCHANGED <<plan, pc, tx_in_progress, tx_sig_mode, tx_state, tx_stages, tx_payment_id>>
      /\ UNCHANGED <<review, rows, shown>>
  BY DEF txState, txInfo, host
<1>2. /\ OutCount' = OutCount /\ Keys' = Keys /\ Stream' = Stream /\ FeeAt' = FeeAt
      /\ Reviews' = Reviews /\ Sums' = Sums /\ End' = End
  BY <1>1, PlacesStay
<1>3. /\ (Asking' <=> Asking) /\ (Approved' <=> Approved) /\ (Closed' <=> Closed)
      /\ (Building' <=> Building) /\ (Real' <=> Real)
  BY <1>1 DEF Asking, Approved, Closed, Building, Real
<1>4. Told' = Told
  BY <1>1, <1>3 DEF Told
<1>5. PlannedItems' = PlannedItems
  BY <1>1 DEF PlannedItems, DeviceOutput
<1>6. SentCount' = SentCount
  BY <1>1, <1>2 DEF SentCount
<1>7. (ToldSoFar' <=> ToldSoFar) /\ (AskedLast' <=> AskedLast)
  BY <1>1, <1>2, <1>4, <1>5, <1>6 DEF ToldSoFar, AskedLast
<1>8. Underway' <=> Underway
  BY <1>1, <1>2, <1>3, <1>7 DEF Underway
<1> QED BY <1>1, <1>2, <1>3, <1>8 DEF HostInv

\* The mode is set before the transaction is opened,
LEMMA HostSetsMode ==
  ASSUME HostInv, Known, HostStep, pc = 1, SetSignatureMode(plan.mode)
  PROVE  HostInv'
<1>1. review = <<>> /\ ~tx_in_progress
  BY NothingAsked DEF SetSignatureMode, Sync, Listening
<1>2. /\ tx_sig_mode' = plan.mode /\ plan' = plan /\ review' = review
      /\ tx_in_progress' = tx_in_progress
  BY DEF SetSignatureMode, HostStep, Sync
<1> QED BY <1>1, <1>2 DEF HostInv

\* and opened with it.
LEMMA HostOpens ==
  ASSUME HostInv, Known, HostStep, pc = 2, OpenTx
  PROVE  HostInv'
<1>1. /\ pc' = 3 /\ plan' = plan /\ review' = <<>> /\ tx_in_progress'
      /\ tx_sig_mode' = plan' .mode /\ shown' = NoItems /\ tx_payment_id' = <<>>
      /\ tx_stages' = {} /\ tx_state' = At("OPEN_TX", 1, 0)
  BY DEF HostStep, OpenTx, ClearTx, KeptByReset, Goto, HostInv
<1>2. plan \in Plans
  BY DEF Known, PlaceInv
<1>3. /\ Keys' = Keys /\ Stream' = Stream /\ End' = End /\ End >= 3 /\ Stream >= 3 /\ Keys >= 3
      /\ End \in Nat /\ Stream \in Nat /\ Keys \in Nat
  BY <1>1, <1>2, PlacesStay, PlaceOrder, ProgramIs
<1>4. Building' /\ ~Closed' /\ ~Asking'
  BY <1>1 DEF Building, Closed, Asking, At
<1>5. Keys = 3 => plan.pid = <<>>
  <2>1. plan.pid = <<>> \/ \E pid \in PaymentId : plan.pid = <<pid>>
    BY <1>2, PlanIs
  <2>2. ASSUME NEW pid \in PaymentId, plan.pid = <<pid>>
        PROVE  Keys # 3
    <3>1. Len(<<pid>>) = 1
      OBVIOUS
    <3>2. Len(plan.pid) = 1
      BY <2>2, <3>1
    <3> QED BY <3>2 DEF Keys
  <2> QED BY <2>1, <2>2
<1>6. tx_payment_id' = IF pc' < Keys' THEN <<>> ELSE plan'.pid
  BY <1>1, <1>3, <1>5
<1>7. Underway'
  BY <1>1, <1>3, <1>4, <1>6 DEF Underway
<1> QED BY <1>1, <1>3, <1>7 DEF HostInv

\* A transaction is closed at the end of its program,
LEMMA HostCloses ==
  ASSUME HostInv, Known, HostStep, pc = End, CloseTx
  PROVE  HostInv'
<1>1. End \in Nat /\ End >= 3
  BY PlaceOrder, ProgramIs DEF Known, PlaceInv
<1>2. review = <<>>
  BY NothingAsked DEF CloseTx, Sync, Listening
<1>3. ~tx_in_progress' /\ review' = <<>> /\ pc' # 2
  BY <1>1, <1>2 DEF CloseTx, Sync, monero_reset_tx, HostStep
<1> QED BY <1>3, NoTransaction

\* and until then each command takes it one place on.
LEMMA HostGoesOn ==
  ASSUME HostInv, Known, HostStep
  PROVE  /\ review = <<>> /\ HostCommand
         /\ plan \in Plans /\ plan' = plan /\ pc' = pc + 1 /\ pc \in Nat /\ End \in Nat
         /\ tx_in_progress => pc \in 3..End /\ tx_sig_mode = plan.mode
         /\ OutCount' = OutCount /\ Keys' = Keys /\ Stream' = Stream /\ FeeAt' = FeeAt
         /\ Reviews' = Reviews /\ Sums' = Sums /\ End' = End
         /\ PlannedItems' = PlannedItems
<1>1. plan \in Plans /\ plan' = plan /\ pc' = pc + 1 /\ pc \in 1..End
  BY DEF Known, PlaceInv, HostStep
<1>2. HostCommand
  BY <1>1, PerformsCommand
<1>3. review = <<>>
  BY <1>1, <1>2, CommandListens, NothingAsked DEF Listening
<1>4. End \in Nat
  BY <1>1, ProgramIs
<1>5. PlannedItems' = PlannedItems
  BY <1>1 DEF PlannedItems, DeviceOutput
<1>6. /\ OutCount' = OutCount /\ Keys' = Keys /\ Stream' = Stream /\ FeeAt' = FeeAt
      /\ Reviews' = Reviews /\ Sums' = Sums /\ End' = End
  BY <1>1, PlacesStay
<1> QED BY <1>1, <1>2, <1>3, <1>4, <1>5, <1>6 DEF HostInv

\* A real transaction goes on.
LEMMA HostStays ==
  ASSUME HostInv, Known, HostStep, Live, pc < End, UNCHANGED <<tx_in_progress, tx_sig_mode>>,
         review' # <<>> => Asking', Underway'
  PROVE  HostInv'
<1>1. /\ pc \in 3..End /\ pc' = pc + 1 /\ plan' = plan /\ tx_sig_mode = plan.mode
      /\ End \in Nat /\ End' = End
  BY HostGoesOn DEF Live
<1>2. pc' \in 3..End' /\ tx_sig_mode' = plan'.mode /\ tx_in_progress' /\ Real'
  BY <1>1 DEF Live, Real
<1> QED BY <1>1, <1>2 DEF HostInv

\* What is known of a real transaction.
LEMMA UnderwayNow ==
  ASSUME HostInv, Known, Live
  PROVE  /\ Underway /\ AskedInv /\ (~Building => ToldInv) /\ OutputsOK
         /\ Approved => Closed
BY DEF HostInv, Known, ReviewInv, Live, Grounds, AskedInv

\* Its outputs are derived.
LEMMA HostDerives ==
  ASSUME HostInv, Known, HostStep, Live, pc < Stream, pc < End,
         UNCHANGED <<tx_in_progress, tx_sig_mode, tx_stages, shown, review>>,
         tx_state'.ins \in {"STEALTH", "GEN_TXOUT_KEYS"},
         tx_payment_id' = IF pc' < Keys THEN <<>> ELSE plan.pid
  PROVE  HostInv'
<1>1. /\ review = <<>> /\ plan' = plan /\ pc' = pc + 1 /\ pc \in Nat /\ plan \in Plans
      /\ Keys' = Keys /\ Stream' = Stream /\ Sums' = Sums
  BY HostGoesOn
<1>2. Stream \in Nat /\ Stream < Sums /\ Sums \in Nat
  BY <1>1, PlaceOrder
<1>3. Building' /\ ~Asking'
  BY <1>1 DEF Building, Asking
<1>4. Underway /\ AskedInv
  BY UnderwayNow
<1>5. Building
  BY <1>1, <1>2, <1>4 DEF Underway
<1>6. shown = NoItems /\ ~Closed'
  BY <1>4, <1>5 DEF AskedInv, Closed
<1>7. pc' <= Stream
  BY <1>1, <1>2
<1>8. Underway'
  BY <1>1, <1>3, <1>6, <1>7 DEF Underway
<1> QED BY <1>1, <1>8, HostStays

\* Its prefix begins.
LEMMA HostStreams ==
  ASSUME HostInv, Known, HostStep, Live, pc = Stream, pc < End, PrefixHashInit(plan.lock)
  PROVE  HostInv'
<1>1. /\ review = <<>> /\ plan' = plan /\ pc' = pc + 1 /\ pc \in Nat /\ plan \in Plans
      /\ Keys' = Keys /\ Stream' = Stream /\ Sums' = Sums /\ FeeAt' = FeeAt
      /\ Reviews' = Reviews /\ PlannedItems' = PlannedItems
  BY HostGoesOn
<1>2. /\ Keys \in Nat /\ Stream \in Nat /\ FeeAt \in Nat /\ Reviews \in Nat /\ Sums \in Nat
      /\ Keys < Stream /\ Stream + 1 < FeeAt /\ FeeAt < Reviews /\ Reviews < Sums
  BY <1>1, PlaceOrder
<1>3. Underway /\ AskedInv
  BY UnderwayNow
<1>4. Building
  BY <1>1, <1>2, <1>3 DEF Underway
<1>5. shown = NoItems /\ tx_stages = {}
  BY <1>3, <1>4 DEF AskedInv
<1>6. /\ UNCHANGED <<tx_in_progress, tx_sig_mode, shown, tx_payment_id>> /\ tx_stages' = {}
      /\ Announce(plan.lock) /\ tx_state' = At("PREFIX_HASH", 1, 0)
  BY <1>5 DEF PrefixHashInit, Live, txInfo, Goto
<1>7. ~Approved /\ ~Approved' /\ ~Closed' /\ ~Building'
  BY <1>5, <1>6 DEF Approved, Closed, Building, At
<1>8. plan.lock \in BOOLEAN
  BY <1>1, PlanIs
<1>9. /\ Told' = IF plan.lock THEN Add(NoItems, Timelock) ELSE NoItems
      /\ Touch => ~Asking'
  BY <1>1, <1>5, <1>6, <1>7, <1>8, AnnounceTells
<1>10. /\ Told'.timelock = PlannedItems.timelock /\ Told'.fee = <<>> /\ Told'.out = <<>>
  <2>1. CASE plan.lock
    <3>1. Told' = Add(NoItems, Timelock)
      BY <1>9, <2>1
    <3>2. /\ Told'.timelock = Append(NoItems.timelock, Timelock)
          /\ Told'.fee = NoItems.fee /\ Told'.out = NoItems.out
      BY <3>1, NothingTold, TimelockAdded
    <3>3. Append(<<>>, Timelock) = <<Timelock>>
      OBVIOUS
    <3>4. PlannedItems.timelock = <<Timelock>>
      BY <2>1 DEF PlannedItems
    <3> QED BY <3>2, <3>3, <3>4, NothingTold
  <2>2. CASE ~plan.lock
    <3>1. Told' = NoItems
      BY <1>9, <2>2
    <3>2. PlannedItems.timelock = <<>>
      BY <2>2 DEF PlannedItems
    <3> QED BY <3>1, <3>2, NothingTold
  <2> QED BY <2>1, <2>2
<1>11. SentCount' = 0
  BY <1>1, <1>2 DEF SentCount
<1>12. SubSeq(PlannedItems.out, 1, 0) = <<>>
  BY DEF PlannedItems
<1>13. ToldSoFar'
  BY <1>1, <1>2, <1>10, <1>11, <1>12 DEF ToldSoFar
<1>14. review' # <<>> => Asking' /\ plan.lock /\ review'[1].item = Timelock
  <2>1. CASE plan.lock /\ ~Touch
    BY <1>6, <2>1 DEF Announce, Ask, Asking, Question
  <2>2. CASE ~plan.lock \/ Touch
    BY <1>1, <1>6, <2>2 DEF Announce, Ask, Sync
  <2> QED BY <2>1, <2>2
<1>15. Asking' => AskedLast'
  <2> SUFFICES ASSUME Asking' PROVE AskedLast'
    OBVIOUS
  <2>1. review'[1].item.kind = "timelock"
    BY <1>14 DEF Asking, Timelock
  <2> QED BY <1>1, <2>1 DEF AskedLast
<1>16. tx_payment_id = IF pc < Keys THEN <<>> ELSE plan.pid
  BY <1>3 DEF Underway
<1>17. tx_payment_id' = IF pc' < Keys' THEN <<>> ELSE plan'.pid
  BY <1>1, <1>2, <1>6, <1>16
<1>18. (Building' <=> pc' <= Stream')
  BY <1>1, <1>2, <1>7
<1>19. Underway'
  BY <1>5, <1>6, <1>7, <1>13, <1>15, <1>17, <1>18 DEF Underway
<1> QED BY <1>6, <1>14, <1>19, HostStays

\* The commands that tell nothing come where nothing is told.
LEMMA HostSilent ==
  ASSUME HostInv, Known, HostStep, Live, pc < End, Silent,
         UNCHANGED <<tx_in_progress, tx_sig_mode>>,
         pc > Stream, pc # FeeAt, pc < Reviews \/ pc >= Sums
  PROVE  HostInv'
<1>1. /\ review = <<>> /\ plan' = plan /\ pc' = pc + 1 /\ pc \in Nat /\ plan \in Plans
      /\ Keys' = Keys /\ Stream' = Stream /\ Sums' = Sums /\ FeeAt' = FeeAt
      /\ OutCount' = OutCount /\ Reviews' = Reviews /\ PlannedItems' = PlannedItems
  BY HostGoesOn
<1>2. /\ Keys \in Nat /\ Stream \in Nat /\ FeeAt \in Nat /\ Reviews \in Nat /\ Sums \in Nat
      /\ Keys < Stream /\ Reviews < Sums
  BY <1>1, PlaceOrder
<1>3. Underway /\ AskedInv
  BY UnderwayNow
<1>4. SilentFrame
  BY <1>1, <1>3, SilentFramed
<1>5. /\ UNCHANGED <<review, rows, shown, tx_payment_id>> /\ (Approved' <=> Approved)
      /\ (Closed' <=> Closed) /\ ~Building /\ ~Building'
  BY <1>4 DEF SilentFrame
<1>6. Told' = Told /\ ~Asking'
  BY <1>1, <1>5, ToldStill
<1>7. pc' > FeeAt <=> pc > FeeAt
  BY <1>1, <1>2
<1>8. SentCount' = SentCount
  BY <1>1, <1>2 DEF SentCount
<1>9. ToldSoFar'
  BY <1>1, <1>3, <1>5, <1>6, <1>7, <1>8 DEF Underway, ToldSoFar
<1>10. tx_payment_id' = IF pc' < Keys' THEN <<>> ELSE plan'.pid
  BY <1>1, <1>2, <1>3, <1>5 DEF Underway
<1>11. (Building' <=> pc' <= Stream') /\ (Closed' => pc' >= Sums')
  BY <1>1, <1>2, <1>3, <1>5 DEF Underway
<1>12. Touch /\ ~Approved' => shown' = NoItems
  BY <1>3, <1>5 DEF Underway
<1>13. Underway'
  BY <1>6, <1>9, <1>10, <1>11, <1>12 DEF Underway
<1> QED BY <1>1, <1>5, <1>13, HostStays

\* The fee is told,
LEMMA HostTellsFee ==
  ASSUME HostInv, Known, HostStep, Live, pc = FeeAt, pc < End,
         PrehashInitFee(plan.fee, plan.pseudo > 0)
  PROVE  HostInv'
<1>1. /\ review = <<>> /\ plan' = plan /\ pc' = pc + 1 /\ pc \in Nat /\ plan \in Plans
      /\ Keys' = Keys /\ Stream' = Stream /\ Sums' = Sums /\ FeeAt' = FeeAt
      /\ OutCount' = OutCount /\ Reviews' = Reviews /\ PlannedItems' = PlannedItems
  BY HostGoesOn
<1>2. /\ Keys \in Nat /\ Stream \in Nat /\ FeeAt \in Nat /\ Reviews \in Nat /\ Sums \in Nat
      /\ Keys < Stream /\ Stream < FeeAt /\ FeeAt < Reviews /\ Reviews < Sums
  BY <1>1, PlaceOrder
<1>3. Underway /\ AskedInv /\ (~Building => ToldInv)
  BY UnderwayNow
<1>4. plan.fee \in Amount /\ (plan.pseudo > 0) \in BOOLEAN
  BY <1>1, PlanIs
<1>5. ~Building /\ ~Building' /\ ~Closed /\ ~Approved
  BY <1>3, FeeOnce
<1>6. Told'.fee = <<Fee(plan.fee)>> /\ Told'.out = <<>> /\ Told'.timelock = Told.timelock
  BY <1>1, <1>3, <1>4, <1>5, ToldFee
<1>7. Touch => ~Asking'
  BY <1>1, <1>4, <1>5, FeeTells
<1>8. /\ UNCHANGED <<tx_in_progress, tx_sig_mode, tx_stages, tx_payment_id, shown>>
      /\ \E last \in BOOLEAN : \E newRows : Ask(Fee(plan.fee), last, newRows)
  BY DEF PrehashInitFee
<1>9. ~Closed' /\ ~Approved'
  BY <1>5, <1>8 DEF Closed, Approved
<1>10. review' # <<>> => Asking' /\ review'[1].item = Fee(plan.fee)
  BY <1>1, <1>8 DEF Ask, Asking, Question
<1>11. Asking' => AskedLast'
  <2> SUFFICES ASSUME Asking' PROVE AskedLast'
    OBVIOUS
  <2>1. review'[1].item.kind = "fee"
    BY <1>10 DEF Asking, Fee
  <2> QED BY <1>1, <2>1 DEF AskedLast
<1>12. PlannedItems.fee = <<Fee(plan.fee)>> /\ SubSeq(PlannedItems.out, 1, 0) = <<>>
  BY DEF PlannedItems
<1>13. SentCount' = 0
  BY <1>1, <1>2 DEF SentCount
<1>14. pc' > FeeAt'
  BY <1>1, <1>2
<1>15. Told.timelock = PlannedItems.timelock
  BY <1>3, <1>5 DEF Underway, ToldSoFar
<1>16. ToldSoFar'
  BY <1>1, <1>6, <1>12, <1>13, <1>14, <1>15 DEF ToldSoFar
<1>17. tx_payment_id' = IF pc' < Keys' THEN <<>> ELSE plan'.pid
  BY <1>1, <1>2, <1>3, <1>8 DEF Underway
<1>18. (Building' <=> pc' <= Stream') /\ (Touch /\ ~Approved' => shown' = NoItems)
  BY <1>1, <1>2, <1>3, <1>5, <1>8 DEF Underway
<1>19. Underway'
  BY <1>7, <1>9, <1>11, <1>16, <1>17, <1>18 DEF Underway
<1> QED BY <1>8, <1>10, <1>19, HostStays

\* The items of the outputs are those of the plan.
LEMMA ItemPlanned ==
  ASSUME plan \in Plans, NEW i \in 1..OutCount, tx_payment_id = plan.pid
  PROVE  /\ i \in DOMAIN plan.outs
         /\ OutputItem(DeviceOutput(i), plan.outs[i].amt) = PlannedItems.out[i]
<1>1. i \in DOMAIN plan.outs
  <2>1. plan.outs \in Seq([to : Dest, chg : BOOLEAN, amt : Amount])
    BY PlanIs
  <2> QED BY <2>1 DEF OutCount
<1>2. DeviceOutput(i).chg = plan.outs[i].chg
  BY DEF DeviceOutput
<1>3. PlannedItems.out[i] =
        [kind |-> "out", out |-> DeviceOutput(i), amt |-> plan.outs[i].amt,
         pid |-> ~plan.outs[i].chg /\ plan.pid # <<>> /\ ~plan.pid[1].dummy]
  BY <1>1 DEF PlannedItems
<1> QED BY <1>1, <1>2, <1>3 DEF OutputItem

\* There are as many as outputs.
LEMMA ItemsPlanned ==
  ASSUME plan \in Plans
  PROVE  /\ PlannedItems.out = [i \in 1..OutCount |-> PlannedItems.out[i]]
         /\ Len(PlannedItems.out) = OutCount /\ OutCount \in Nat
<1>1. plan.outs \in Seq([to : Dest, chg : BOOLEAN, amt : Amount])
  BY PlanIs
<1>2. DOMAIN plan.outs = 1..OutCount /\ OutCount \in Nat
  BY <1>1 DEF OutCount
<1>3. PlannedItems.out =
        [i \in 1..OutCount |->
          [kind |-> "out", out |-> DeviceOutput(i), amt |-> plan.outs[i].amt,
           pid |-> ~plan.outs[i].chg /\ plan.pid # <<>> /\ ~plan.pid[1].dummy]]
  BY <1>2 DEF PlannedItems
<1> DEFINE items == PlannedItems.out
<1>4. DOMAIN items = 1..OutCount /\ items = [i \in DOMAIN items |-> items[i]]
  BY <1>3
<1> HIDE DEF items
<1>5. items = [i \in 1..OutCount |-> items[i]] /\ Len(items) = OutCount
  BY <1>2, <1>4
<1> QED BY <1>2, <1>5 DEF items

\* A beginning goes on with the next.
LEMMA BeginningGrows ==
  ASSUME NEW s, NEW n \in Nat, s = [i \in 1..n |-> s[i]], NEW i \in 1..n
  PROVE  Append(SubSeq(s, 1, i - 1), s[i]) = SubSeq(s, 1, i)
<1> DEFINE S == {s[j] : j \in 1..n}
<1>1. s \in Seq(S) /\ Len(s) = n
  OBVIOUS
<1> HIDE DEF S
<1>2. i \in Nat /\ i - 1 \in 0..n
  OBVIOUS
<1>3. /\ SubSeq(s, 1, i - 1) \in Seq(S) /\ Len(SubSeq(s, 1, i - 1)) = i - 1
      /\ \A j \in 1..i - 1 : SubSeq(s, 1, i - 1)[j] = s[j]
  BY <1>1, <1>2
<1>4. SubSeq(s, 1, i) \in Seq(S) /\ Len(SubSeq(s, 1, i)) = i
      /\ \A j \in 1..i : SubSeq(s, 1, i)[j] = s[j]
  BY <1>1, <1>2
<1> DEFINE short == SubSeq(s, 1, i - 1)
           long  == SubSeq(s, 1, i)
           t == Append(short, s[i])
<1>5. s[i] \in S
  BY <1>1
<1> HIDE DEF short, long
<1>6. short \in Seq(S) /\ Len(short) = i - 1 /\ (\A j \in 1..i - 1 : short[j] = s[j])
  BY <1>3 DEF short
<1>7. long \in Seq(S) /\ Len(long) = i /\ (\A j \in 1..i : long[j] = s[j])
  BY <1>4 DEF long
<1>8. /\ t \in Seq(S) /\ Len(t) = i /\ t[i] = s[i]
      /\ \A j \in 1..i - 1 : t[j] = s[j]
  <2> DEFINE x == s[i]
             n0 == i - 1
  <2>1. short \in Seq(S) /\ x \in S /\ Len(short) = n0 /\ n0 \in Nat /\ i = n0 + 1
    BY <1>2, <1>5, <1>6
  <2> HIDE DEF x, n0
  <2>2. /\ Append(short, x) \in Seq(S) /\ Len(Append(short, x)) = n0 + 1
        /\ Append(short, x)[n0 + 1] = x
        /\ \A j \in 1..n0 : Append(short, x)[j] = short[j]
    BY <2>1
  <2> QED BY <1>6, <2>1, <2>2 DEF x, n0
<1>9. ASSUME NEW j \in 1..i PROVE t[j] = long[j]
  <2>1. j = i \/ j \in 1..i - 1
    BY <1>2
  <2>2. long[j] = s[j]
    BY <1>7
  <2>3. t[j] = s[j]
    BY <1>8, <2>1
  <2> QED BY <2>2, <2>3
<1>10. t = long
  <2> HIDE DEF t
  <2> QED BY <1>7, <1>8, <1>9
<1> QED BY <1>10 DEF t, short, long

\* and the outputs, one after the other.
LEMMA HostTellsOutput ==
  ASSUME HostInv, Known, HostStep, Live, pc < End,
         NEW i \in 1..OutCount, pc = Reviews - 1 + i,
         PrehashUpdate(DeviceOutput(i), plan.outs[i].amt, i < OutCount, i)
  PROVE  HostInv'
<1> DEFINE o    == DeviceOutput(i)
           amt  == plan.outs[i].amt
           more == i < OutCount
<1>1. /\ review = <<>> /\ plan' = plan /\ pc' = pc + 1 /\ pc \in Nat /\ plan \in Plans
      /\ Keys' = Keys /\ Stream' = Stream /\ Sums' = Sums /\ FeeAt' = FeeAt
      /\ OutCount' = OutCount /\ Reviews' = Reviews /\ PlannedItems' = PlannedItems
  BY HostGoesOn
<1>2. /\ Keys \in Nat /\ Stream \in Nat /\ FeeAt \in Nat /\ Reviews \in Nat /\ Sums \in Nat
      /\ Keys < Stream /\ Stream < FeeAt /\ FeeAt < Reviews /\ Reviews < Sums
  BY <1>1, PlaceOrder
<1>3. OutCount \in Nat /\ Sums = Reviews + OutCount /\ OutCount < MaxStep /\ MaxStep \in Nat
  BY <1>1, PlaceWidths, PlanIs
<1>4. Underway /\ AskedInv /\ (~Building => ToldInv) /\ OutputsOK /\ (Approved => Closed)
  BY UnderwayNow
<1>5. pc < Sums /\ pc > Stream /\ pc > FeeAt /\ pc >= Keys
  BY <1>2, <1>3
<1>6. ~Building /\ ~Closed /\ ~Approved
  BY <1>2, <1>4, <1>5, <1>1 DEF Underway
<1>7. o \in Output /\ amt \in Amount /\ more \in BOOLEAN /\ i \in Step
  BY <1>1, <1>3, PlannedOutput DEF Step
<1> HIDE DEF o, amt, more
<1>8. PrehashUpdate(o, amt, more, i)
  BY DEF o, amt, more
<1>9. /\ Told'.timelock = Told.timelock /\ Told'.fee = Told.fee
      /\ Told'.out = Append(Told.out, OutputItem(o, amt))
  BY <1>1, <1>4, <1>6, <1>7, <1>8, ToldUpdate
<1>10. Approved' <=> Approved
  BY <1>1, <1>7, <1>8, OutputTells
<1>11. /\ UNCHANGED <<tx_in_progress, tx_sig_mode, tx_payment_id, shown>>
       /\ \E last \in BOOLEAN : \E newRows : Ask(OutputItem(o, amt), last, newRows)
       /\ tx_state'.ins = "VALIDATE"
       /\ tx_stages' = tx_stages \/ ~more
  <2>1. /\ UNCHANGED <<tx_in_progress, tx_sig_mode, tx_payment_id, shown>>
        /\ tx_stages' = tx_stages \/ ~more
    BY <1>8 DEF PrehashUpdate, txInfo
  <2>2. \E last \in BOOLEAN : \E newRows : Ask(OutputItem(o, amt), last, newRows)
    <3>1. (~more) \in BOOLEAN
      BY <1>7
    <3>2. Ask(OutputItem(o, amt), ~more, IF Touch THEN OutputRows(o, amt) ELSE rows)
      BY <1>8 DEF PrehashUpdate
    <3> QED BY <3>1, <3>2
  <2>3. tx_state'.ins = "VALIDATE"
    BY <1>8 DEF PrehashUpdate, ValidateStep, Goto, At
  <2> QED BY <2>1, <2>2, <2>3
<1>12. review' # <<>> => Asking' /\ review'[1].item = OutputItem(o, amt)
  BY <1>1, <1>11 DEF Ask, Asking, Question
<1>13. pc' \in Reviews + 1..Sums /\ pc' - Reviews = i /\ (~more => pc' = Sums)
  <2>1. i \in Nat /\ i >= 1 /\ i <= OutCount /\ (~more => i = OutCount)
    BY <1>3 DEF more
  <2>2. pc' = Reviews + i
    BY <1>1, <1>2, <2>1
  <2>3. pc' \in Reviews + 1..Sums /\ pc' - Reviews = i
    BY <1>2, <1>3, <2>1, <2>2
  <2>4. ~more => pc' = Sums
    BY <1>3, <2>1, <2>2
  <2> QED BY <2>3, <2>4
<1>14. Asking' => AskedLast'
  <2> SUFFICES ASSUME Asking' PROVE AskedLast'
    OBVIOUS
  <2>1. review'[1].item.kind = "out"
    BY <1>12 DEF Asking, OutputItem
  <2> QED BY <1>1, <1>13, <2>1 DEF AskedLast
<1>15. tx_payment_id = plan.pid
  BY <1>1, <1>2, <1>4, <1>5 DEF Underway
<1>16. OutputItem(o, amt) = PlannedItems.out[i]
  BY <1>1, <1>15, ItemPlanned DEF o, amt
<1>17. SentCount = i - 1 /\ SentCount' = i
  BY <1>1, <1>2, <1>3, <1>13 DEF SentCount
<1>18. Told.out = SubSeq(PlannedItems.out, 1, i - 1) /\ Told.fee = PlannedItems.fee
       /\ Told.timelock = PlannedItems.timelock
  BY <1>4, <1>5, <1>6, <1>17 DEF Underway, ToldSoFar
<1>19. Told'.out = SubSeq(PlannedItems.out, 1, i)
  BY <1>1, <1>9, <1>16, <1>18, ItemsPlanned, BeginningGrows
<1>20. pc' > FeeAt' /\ pc' >= Keys'
  BY <1>1, <1>2, <1>5
<1>21. ToldSoFar'
  BY <1>1, <1>9, <1>17, <1>18, <1>19, <1>20 DEF ToldSoFar
<1>22. Closed' => pc' >= Sums'
  <2>1. CASE ~more
    BY <1>1, <1>2, <1>13, <2>1
  <2>2. CASE more
    BY <1>6, <1>11, <2>2 DEF Closed
  <2> QED BY <2>1, <2>2
<1>23. (Building' <=> pc' <= Stream') /\ (Touch /\ ~Approved' => shown' = NoItems)
  <2>1. ~Building'
    BY <1>11 DEF Building
  <2>2. ~(pc' <= Stream')
    BY <1>1, <1>2, <1>5
  <2> QED BY <1>4, <1>6, <1>11, <2>1, <2>2 DEF Underway
<1>24. tx_payment_id' = IF pc' < Keys' THEN <<>> ELSE plan'.pid
  BY <1>1, <1>2, <1>11, <1>15, <1>20
<1>25. Underway'
  BY <1>6, <1>10, <1>14, <1>21, <1>22, <1>23, <1>24 DEF Underway
<1> QED BY <1>11, <1>12, <1>25, HostStays

\* A ring command is one of a transaction in progress, and shows nothing.
LEMMA RingShowsNothing ==
  ASSUME RingCommand
  PROVE  tx_in_progress /\ UNCHANGED <<tx_in_progress, tx_sig_mode, shown, review>>
<1>1. UNCHANGED <<tx_in_progress, tx_sig_mode, shown, review>>
  BY RingFramed DEF RingFrame, Sync
<1>2. PICK ins \in {"MLSAG", "CLSAG"} :
        \/ Prepare(ins) \/ Sign(ins)
        \/ \E prehash \in BOOLEAN, more \in More, p2 \in Step : Hash(ins, prehash, more, p2)
  BY DEF RingCommand
<1>3. CASE Prepare(ins) \/ Sign(ins)
  <2>1. RingStep(ins, 1, 0) \/ RingStep(ins, 3, 0)
    BY <1>3 DEF Prepare, Sign
  <2> QED BY <1>1, <2>1 DEF RingStep
<1>4. ASSUME NEW prehash \in BOOLEAN, NEW more \in More, NEW p2 \in Step,
             Hash(ins, prehash, more, p2)
      PROVE  tx_in_progress
  BY <1>4 DEF Hash, RingStep
<1> QED BY <1>1, <1>2, <1>3, <1>4

\* Nor does it seal anything.
LEMMA RingSealsNothing == RingCommand => UNCHANGED <<mlsagH, tx_stages>>
BY DEF RingCommand, Prepare, Hash, Sign, hashes

\* The commands between opening and closing are those of a transaction in progress.
LEMMA HostInProgress ==
  ASSUME HostCommand, pc # 1, pc # 2, pc # End
  PROVE  tx_in_progress
<1>1. ASSUME NEW i \in 1..OutCount, GenTxoutKeys(plan.outs[i].to, plan.outs[i].chg)
      PROVE  tx_in_progress
  BY <1>1 DEF GenTxoutKeys
<1>2. CASE Stealth(plan.pid[1]) \/ PrefixHashInit(plan.lock) \/ GenCommitmentMask \/ Blind
  BY <1>2 DEF Stealth, PrefixHashInit, GenCommitmentMask, Blind
<1>3. ASSUME NEW i \in 1..plan.pieces, PrefixHashUpdate(ChunkAt(i), i < plan.pieces, i)
      PROVE  tx_in_progress
  BY <1>3 DEF PrefixHashUpdate
<1>4. CASE PrehashInitFee(plan.fee, plan.pseudo > 0) \/ PrehashInit(plan.pseudo > 0, 1)
  BY <1>4 DEF PrehashInitFee, PrehashInit, ValidateStep
<1>5. ASSUME NEW i \in 1..plan.pseudo, PrehashInit(i < plan.pseudo, i + 1)
      PROVE  tx_in_progress
  BY <1>5 DEF PrehashInit, ValidateStep
<1>6. ASSUME NEW i \in 1..OutCount,
             \/ PrehashUpdate(DeviceOutput(i), plan.outs[i].amt, i < OutCount, i)
             \/ PrehashUpdateFake(DeviceOutput(i), plan.outs[i].amt, i)
             \/ PrehashAccumulate(Commit(DeviceOutput(i), plan.outs[i].amt), i)
      PROVE  tx_in_progress
  BY <1>6 DEF PrehashUpdate, PrehashUpdateFake, PrehashAccumulate, ValidateStep
<1>7. CASE PrehashFinalize(prefixH, OutCount + 1)
  BY <1>7 DEF PrehashFinalize, ValidateStep
<1>8. CASE RingCommand
  BY <1>8, RingShowsNothing
<1> QED BY <1>1, <1>2, <1>3, <1>4, <1>5, <1>6, <1>7, <1>8 DEF HostCommand

\* One that only estimates shows nothing.
LEMMA HostFake ==
  ASSUME HostInv, Known, HostStep, tx_in_progress, ~Real, pc < End
  PROVE  HostInv'
<1>1. /\ HostCommand /\ review = <<>> /\ pc \in 3..End /\ pc' = pc + 1 /\ plan' = plan
      /\ tx_sig_mode = plan.mode /\ End' = End /\ End \in Nat
  BY HostGoesOn
<1> DEFINE Kept == UNCHANGED <<tx_in_progress, tx_sig_mode, shown, review>>
<1>2. pc # 1 /\ pc # 2 /\ pc # End
  BY <1>1
<1>3. Kept
  <2>1. ASSUME NEW i \in 1..OutCount, GenTxoutKeys(plan.outs[i].to, plan.outs[i].chg)
        PROVE  Kept
    BY <2>1 DEF GenTxoutKeys, Sync
  <2>2. CASE Stealth(plan.pid[1]) \/ PrefixHashInit(plan.lock) \/ GenCommitmentMask \/ Blind
    BY <2>2 DEF Stealth, PrefixHashInit, GenCommitmentMask, Blind, Sync
  <2>3. ASSUME NEW i \in 1..plan.pieces, PrefixHashUpdate(ChunkAt(i), i < plan.pieces, i)
        PROVE  Kept
    BY <2>3 DEF PrefixHashUpdate, Sync
  <2>4. CASE PrehashInitFee(plan.fee, plan.pseudo > 0) \/ PrehashInit(plan.pseudo > 0, 1)
    BY <2>4 DEF PrehashInitFee, PrehashInit, Sync
  <2>5. ASSUME NEW i \in 1..plan.pseudo, PrehashInit(i < plan.pseudo, i + 1)
        PROVE  Kept
    BY <2>5 DEF PrehashInit, Sync
  <2>6. ASSUME NEW i \in 1..OutCount,
               \/ PrehashUpdate(DeviceOutput(i), plan.outs[i].amt, i < OutCount, i)
               \/ PrehashUpdateFake(DeviceOutput(i), plan.outs[i].amt, i)
               \/ PrehashAccumulate(Commit(DeviceOutput(i), plan.outs[i].amt), i)
        PROVE  Kept
    BY <2>6 DEF PrehashUpdate, PrehashUpdateFake, PrehashAccumulate, Sync
  <2>7. CASE PrehashFinalize(prefixH, OutCount + 1)
    BY <2>7 DEF PrehashFinalize, Sync
  <2>8. CASE RingCommand
    BY <2>8, RingShowsNothing
  <2> HIDE DEF Kept
  <2> QED BY <1>1, <1>2, <2>1, <2>2, <2>3, <2>4, <2>5, <2>6, <2>7, <2>8 DEF HostCommand
<1>4. pc' \in 3..End' /\ pc' # 2
  BY <1>1
<1>5. shown = NoItems
  BY DEF HostInv
<1> QED BY <1>1, <1>3, <1>4, <1>5 DEF HostInv, Real

\* A real one, command by command.
LEMMA HostReal ==
  ASSUME HostInv, Known, HostStep, Live, pc < End
  PROVE  HostInv'
<1>1. /\ HostCommand /\ review = <<>> /\ pc \in 3..End /\ pc' = pc + 1 /\ pc \in Nat
      /\ plan \in Plans /\ End \in Nat
  BY HostGoesOn DEF Live
<1>2. pc # 1 /\ pc # 2 /\ pc # End
  BY <1>1
<1>3. /\ Keys \in Nat /\ Stream \in Nat /\ Masks \in Nat /\ Blinds \in Nat /\ FeeAt \in Nat
      /\ Reviews \in Nat /\ Sums \in Nat /\ Seal \in Nat /\ Rings \in Nat
      /\ 3 <= Keys /\ Keys < Stream /\ Stream + 1 < Masks /\ Masks <= Blinds
      /\ Blinds < FeeAt /\ FeeAt < Reviews /\ Reviews < Sums /\ Sums < Seal /\ Seal < Rings
  BY <1>1, PlaceOrder
<1>4. /\ OutCount \in Nat /\ plan.pieces \in Nat /\ plan.pseudo \in Nat
      /\ Stream = Keys + OutCount /\ Masks = Stream + 1 + plan.pieces
      /\ Reviews = FeeAt + 1 + plan.pseudo /\ Sums = Reviews + OutCount
      /\ Seal = Sums + OutCount
  BY <1>1, PlaceWidths
<1>5. Underway
  BY UnderwayNow
<1>6. CASE pc = 3 /\ pc < Keys /\ Stealth(plan.pid[1])
  <2>1. plan.pid = <<plan.pid[1]>> /\ Keys = 4
    BY <1>1, <1>6, PlannedPid
  <2>2. /\ UNCHANGED <<tx_in_progress, tx_sig_mode, tx_stages, shown, review>>
        /\ tx_state'.ins = "STEALTH" /\ tx_payment_id' = <<plan.pid[1]>>
    BY <1>6 DEF Stealth, Sync, Goto, At, Live
  <2>3. ~(pc' < Keys) /\ pc < Stream
    BY <1>1, <1>3, <1>6, <2>1
  <2> QED BY <2>1, <2>2, <2>3, HostDerives
<1>7. ASSUME NEW i \in 1..OutCount, pc = Keys - 1 + i,
             GenTxoutKeys(plan.outs[i].to, plan.outs[i].chg)
      PROVE  HostInv'
  <2>1. /\ UNCHANGED <<tx_in_progress, tx_sig_mode, tx_stages, shown, review, tx_payment_id>>
        /\ tx_state'.ins = "GEN_TXOUT_KEYS"
    BY <1>7 DEF GenTxoutKeys, Sync, Goto, At
  <2>2. ~(pc < Keys) /\ ~(pc' < Keys) /\ pc < Stream
    <3>1. /\ i \in Nat /\ i >= 1 /\ i <= OutCount /\ Keys \in Nat /\ OutCount \in Nat
          /\ pc = Keys - 1 + i /\ pc' = pc + 1 /\ Stream = Keys + OutCount
      BY <1>1, <1>3, <1>4, <1>7
    <3> QED BY <3>1
  <2>3. tx_payment_id = plan.pid
    BY <1>5, <2>2 DEF Underway
  <2> QED BY <2>1, <2>2, <2>3, HostDerives
<1>8. CASE pc = Stream /\ PrefixHashInit(plan.lock)
  BY <1>8, HostStreams
<1>9. ASSUME NEW i \in 1..plan.pieces, pc = Stream + i,
             PrefixHashUpdate(ChunkAt(i), i < plan.pieces, i)
      PROVE  HostInv'
  <2>1. i \in 1..MaxChunks
    BY <1>1, PlanIs
  <2>2. ChunkAt(i) \in Chunks /\ (i < plan.pieces) \in More
    BY <1>1, PlannedChunk DEF More
  <2>3. Silent
    BY <1>9, <2>1, <2>2 DEF Silent
  <2>4. UNCHANGED <<tx_in_progress, tx_sig_mode>>
    BY <1>9 DEF PrefixHashUpdate
  <2>5. pc > Stream /\ pc # FeeAt /\ pc < Reviews
    BY <1>3, <1>4, <1>9
  <2> QED BY <2>3, <2>4, <2>5, HostSilent
<1>10. CASE pc \in Masks..FeeAt - 1 /\ (GenCommitmentMask \/ Blind)
  <2>1. Silent
    BY <1>10 DEF Silent
  <2>2. UNCHANGED <<tx_in_progress, tx_sig_mode>>
    BY <1>10 DEF GenCommitmentMask, Blind
  <2>3. pc > Stream /\ pc # FeeAt /\ pc < Reviews
    BY <1>3, <1>10
  <2> QED BY <2>1, <2>2, <2>3, HostSilent
<1>11. CASE pc = FeeAt /\ PrehashInitFee(plan.fee, plan.pseudo > 0)
  BY <1>11, HostTellsFee
<1>12. ~PrehashInit(plan.pseudo > 0, 1)
  BY DEF PrehashInit, Live
<1>13. ASSUME NEW i \in 1..plan.pseudo, pc = FeeAt + i, PrehashInit(i < plan.pseudo, i + 1)
       PROVE  HostInv'
  <2>1. plan.pseudo < MaxStep /\ MaxStep \in Nat
    BY <1>1, PlanIs
  <2>2. (i < plan.pseudo) \in More /\ i + 1 \in Step
    BY <1>4, <2>1 DEF More, Step
  <2>3. Silent
    BY <1>13, <2>2 DEF Silent
  <2>4. UNCHANGED <<tx_in_progress, tx_sig_mode>>
    BY <1>13 DEF PrehashInit
  <2>5. pc > Stream /\ pc # FeeAt /\ pc < Reviews
    BY <1>3, <1>4, <1>13
  <2> QED BY <2>3, <2>4, <2>5, HostSilent
<1>14. ASSUME NEW i \in 1..OutCount, pc = Reviews - 1 + i,
              PrehashUpdate(DeviceOutput(i), plan.outs[i].amt, i < OutCount, i)
       PROVE  HostInv'
  BY <1>14, HostTellsOutput
<1>15. ASSUME NEW i \in 1..OutCount
       PROVE  ~PrehashUpdateFake(DeviceOutput(i), plan.outs[i].amt, i)
  BY DEF PrehashUpdateFake, Live
<1>16. ASSUME NEW i \in 1..OutCount
       PROVE  i \in Step /\ OutCount + 1 \in Step
  <2>1. OutCount < MaxStep /\ MaxStep \in Nat
    BY <1>1, PlanIs
  <2> QED BY <1>4, <2>1 DEF Step
<1>17. ASSUME NEW i \in 1..OutCount, pc = Sums - 1 + i,
              PrehashAccumulate(Commit(DeviceOutput(i), plan.outs[i].amt), i)
       PROVE  HostInv'
  <2>1. Commit(DeviceOutput(i), plan.outs[i].amt) \in Commitment
    BY <1>1, PlannedOutput
  <2>2. Silent
    BY <1>16, <1>17, <2>1 DEF Silent
  <2>3. UNCHANGED <<tx_in_progress, tx_sig_mode>>
    BY <1>17 DEF PrehashAccumulate
  <2>4. pc > Stream /\ pc # FeeAt /\ pc >= Sums
    BY <1>3, <1>17
  <2> QED BY <2>2, <2>3, <2>4, HostSilent
<1>18. CASE pc = Seal /\ PrehashFinalize(prefixH, OutCount + 1)
  <2>1. 1 \in 1..OutCount
    BY <1>1, PlaceWidths
  <2>2. Silent
    BY <1>16, <1>18, <2>1 DEF Silent
  <2>3. UNCHANGED <<tx_in_progress, tx_sig_mode>>
    BY <1>18 DEF PrehashFinalize
  <2>4. pc > Stream /\ pc # FeeAt /\ pc >= Sums
    BY <1>3, <1>18
  <2> QED BY <2>2, <2>3, <2>4, HostSilent
<1>19. CASE pc \in Rings..End - 1 /\ RingCommand
  <2>1. Silent
    BY <1>19 DEF Silent
  <2>2. UNCHANGED <<tx_in_progress, tx_sig_mode>>
    BY <1>19, RingShowsNothing
  <2>3. pc > Stream /\ pc # FeeAt /\ pc >= Sums
    BY <1>1, <1>3, <1>19
  <2> QED BY <2>1, <2>2, <2>3, HostSilent
<1>20. Masks..Blinds - 1 \subseteq Masks..FeeAt - 1 /\ Blinds..FeeAt - 1 \subseteq Masks..FeeAt - 1
  BY <1>3
<1> QED BY <1>1, <1>2, <1>6, <1>7, <1>8, <1>9, <1>10, <1>11, <1>12, <1>13, <1>14, <1>15,
           <1>17, <1>18, <1>19, <1>20 DEF HostCommand

\* What the user accepts.
LEMMA HostAccepts ==
  ASSUME HostInv, Known, UserAccepts
  PROVE  HostInv'
<1>1. Accept /\ UNCHANGED host
  BY DEF UserAccepts
<1>2. plan \in Plans /\ plan' = plan /\ pc' = pc
  BY <1>1 DEF host, Known, PlaceInv
<1>3. tx_in_progress /\ Asking /\ Live
  BY <1>1 DEF Accept, HostInv, Known, FakeInv, Live
<1>4. Underway /\ AskedInv /\ (Approved => Closed)
  BY <1>3, UnderwayNow
<1>5. Told' = Told /\ shown' = Told /\ ~Asking' /\ (Approved' <=> Approved \/ Closed)
  BY <1>1, <1>4, AcceptTells
<1>6. /\ UNCHANGED <<tx_in_progress, tx_sig_mode, tx_state, tx_payment_id>> /\ review' = <<>>
      /\ Touch => Approved'
  BY <1>1 DEF Accept, Answered, txInfo, Approved
<1>7. (Building' <=> Building) /\ (Closed' <=> Closed) /\ Real'
  BY <1>1, <1>3, <1>6 DEF Building, Closed, Accept, Live, Real
<1>8. /\ OutCount' = OutCount /\ Keys' = Keys /\ Stream' = Stream /\ FeeAt' = FeeAt
      /\ Reviews' = Reviews /\ Sums' = Sums /\ End' = End
  BY <1>2, PlacesStay
<1>9. PlannedItems' = PlannedItems
  BY <1>2 DEF PlannedItems, DeviceOutput
<1>10. SentCount' = SentCount
  BY <1>2, <1>8 DEF SentCount
<1>11. ~Building' => ToldSoFar'
  BY <1>2, <1>4, <1>5, <1>7, <1>8, <1>9, <1>10 DEF Underway, ToldSoFar
<1>12. tx_payment_id' = IF pc' < Keys' THEN <<>> ELSE plan'.pid
  BY <1>2, <1>4, <1>6, <1>8 DEF Underway
<1>13. (Building' <=> pc' <= Stream') /\ (Closed' => pc' >= Sums')
  BY <1>2, <1>4, <1>7, <1>8 DEF Underway
<1>14. Underway'
  BY <1>5, <1>6, <1>11, <1>12, <1>13 DEF Underway
<1>15. pc \in 3..End /\ tx_sig_mode = plan.mode
  BY <1>3 DEF HostInv
<1>16. pc' \in 3..End' /\ tx_sig_mode' = plan'.mode /\ tx_in_progress'
  BY <1>2, <1>3, <1>6, <1>8, <1>15
<1> QED BY <1>6, <1>7, <1>14, <1>16, <1>2, <1>15 DEF HostInv

\* Every step of the host keeps its invariant.
LEMMA HostInvStep ==
  ASSUME HostInv, Known, [HostNext]_hostVars
  PROVE  HostInv'
<1>1. CASE HostStep
  <2>1. /\ HostCommand /\ pc \in 1..End /\ End \in Nat /\ plan \in Plans
    BY <1>1, HostGoesOn DEF HostStep
  <2>2. End >= Rings /\ Rings > 3 /\ Rings \in Nat
    BY <2>1, PlaceOrder, ProgramIs
  <2>3. CASE pc = 1
    <3>1. SetSignatureMode(plan.mode)
      BY <1>1, <2>1, <2>3, ProgramIs, PerformedAt DEF Perform
    <3> QED BY <1>1, <2>3, <3>1, HostSetsMode
  <2>4. CASE pc = 2
    <3>1. OpenTx
      BY <1>1, <2>1, <2>4, ProgramIs, PerformedAt DEF Perform
    <3> QED BY <1>1, <2>4, <3>1, HostOpens
  <2>5. CASE pc = End
    <3>1. CloseTx
      BY <1>1, <2>1, <2>5, ProgramIs, PerformedAt DEF Perform
    <3> QED BY <1>1, <2>5, <3>1, HostCloses
  <2>6. CASE pc # 1 /\ pc # 2 /\ pc # End
    <3>1. tx_in_progress /\ pc < End
      BY <2>1, <2>6, HostInProgress
    <3> QED BY <1>1, <3>1, HostReal, HostFake DEF Live
  <2> QED BY <2>3, <2>4, <2>5, <2>6
<1>2. CASE HostReset \/ Unplug \/ UserRejects \/ NextTransaction
  BY <1>2, EndsQuietly
<1>3. CASE UserAccepts
  BY <1>3, HostAccepts
<1>4. CASE PlugIn \/ Rest \/ UNCHANGED hostVars
  <2>1. UNCHANGED <<review, rows, txState, shown, host>>
    BY <1>4 DEF PlugIn, Boot, Rest, hostVars, vars, session
  <2> QED BY <2>1, HostWaits
<1> QED BY <1>1, <1>2, <1>3, <1>4 DEF HostNext

\* At power-on no transaction is in progress.
LEMMA HostInvInit == ASSUME HostInit PROVE HostInv
<1>1. ~tx_in_progress /\ review = <<>> /\ pc = 1
  BY DEF HostInit, Init
<1> QED BY <1>1 DEF HostInv

\* So it always holds.
LEMMA HostAlways == HostSpec => [](HostInv /\ Known)
<1>1. HostInit => HostInv /\ PlaceInv
  BY HostInvInit, PlaceInit
<1>2. PlaceInv /\ [HostNext]_hostVars => PlaceInv'
  BY PlaceStep
<1>3. HostInv /\ Known /\ [HostNext]_hostVars => HostInv'
  BY HostInvStep
<1>4. PlaceInv /\ ReviewInv /\ Grounds /\ FakeInv => Known
  BY DEF Known
<1>5. HostSpec => [](ReviewInv /\ Grounds) /\ []FakeInv
  BY HonestIsHost, ReviewAlways, FakeAlways, PTL
<1>6. HostSpec => []PlaceInv
  BY <1>1, <1>2, PTL DEF HostSpec
<1>7. HostSpec => []Known
  BY <1>4, <1>5, <1>6, PTL
<1>8. HostSpec => []HostInv
  BY <1>1, <1>3, <1>7, PTL DEF HostSpec
<1> QED BY <1>7, <1>8, PTL

-----------------------------------------------------------------------------
(* What the user accepted. *)

\* Nothing yet, the timelock, the timelock and the fee, or these and the first outputs.
Heard(items) ==
  \/ items.timelock = <<>> /\ items.fee = <<>> /\ items.out = <<>>
  \/ items.timelock = PlannedItems.timelock /\ items.fee = <<>> /\ items.out = <<>>
  \/ /\ items.timelock = PlannedItems.timelock /\ items.fee = PlannedItems.fee
     /\ \E n \in 0..OutCount : items.out = SubSeq(PlannedItems.out, 1, n)

\* Each list of items is a beginning of itself, and so is nothing.
LEMMA Whole ==
  ASSUME NEW S, NEW s \in Seq(S)
  PROVE  SubSeq(s, 1, Len(s)) = s /\ SubSeq(s, 1, 0) = <<>> /\ Len(s) \in Nat
OBVIOUS

\* The items of a plan are sequences.
LEMMA PlannedLists ==
  ASSUME plan \in Plans
  PROVE  /\ DOMAIN PlannedItems = {"timelock", "fee", "out"}
         /\ \A kind \in DOMAIN PlannedItems :
              /\ SubSeq(PlannedItems[kind], 1, Len(PlannedItems[kind])) = PlannedItems[kind]
              /\ SubSeq(PlannedItems[kind], 1, 0) = <<>> /\ Len(PlannedItems[kind]) \in Nat
         /\ PlannedItems.timelock = <<>> \/ PlannedItems.timelock = <<Timelock>>
         /\ PlannedItems.fee = <<Fee(plan.fee)>>
<1>1. /\ DOMAIN PlannedItems = {"timelock", "fee", "out"}
      /\ PlannedItems.timelock = <<>> \/ PlannedItems.timelock = <<Timelock>>
      /\ PlannedItems.fee = <<Fee(plan.fee)>>
  BY DEF PlannedItems
<1>2. PlannedItems.out \in Seq({PlannedItems.out[i] : i \in 1..OutCount})
  <2>1. PlannedItems.out = [i \in 1..OutCount |-> PlannedItems.out[i]] /\ OutCount \in Nat
    BY ItemsPlanned
  <2> QED BY <2>1
<1>3. PlannedItems.timelock \in Seq({Timelock}) /\ PlannedItems.fee \in Seq({Fee(plan.fee)})
  <2>1. \A x : <<x>> \in Seq({x}) /\ <<>> \in Seq({x})
    OBVIOUS
  <2> QED BY <1>1, <2>1
<1>4. ASSUME NEW kind \in DOMAIN PlannedItems
      PROVE  /\ SubSeq(PlannedItems[kind], 1, Len(PlannedItems[kind])) = PlannedItems[kind]
             /\ SubSeq(PlannedItems[kind], 1, 0) = <<>> /\ Len(PlannedItems[kind]) \in Nat
  <2>1. kind = "timelock" \/ kind = "fee" \/ kind = "out"
    BY <1>1
  <2> QED BY <1>2, <1>3, <2>1, Whole
<1> QED BY <1>1, <1>4

\* What was heard so is a beginning of the plan.
LEMMA HeardIsBeginning ==
  ASSUME plan \in Plans, NEW items, Heard(items)
  PROVE  /\ \A kind \in DOMAIN PlannedItems : \E n \in 0..Len(PlannedItems[kind]) :
              items[kind] = SubSeq(PlannedItems[kind], 1, n)
         /\ items.fee # <<>> => items.timelock = PlannedItems.timelock
         /\ items.out # <<>> => items.fee = PlannedItems.fee
<1>1. /\ DOMAIN PlannedItems = {"timelock", "fee", "out"}
      /\ \A kind \in DOMAIN PlannedItems :
           /\ SubSeq(PlannedItems[kind], 1, Len(PlannedItems[kind])) = PlannedItems[kind]
           /\ SubSeq(PlannedItems[kind], 1, 0) = <<>> /\ Len(PlannedItems[kind]) \in Nat
  BY PlannedLists
<1>2. Len(PlannedItems.out) = OutCount
  BY ItemsPlanned
<1>3. ASSUME NEW kind \in DOMAIN PlannedItems,
             items[kind] = <<>> \/ items[kind] = PlannedItems[kind]
      PROVE  \E n \in 0..Len(PlannedItems[kind]) : items[kind] = SubSeq(PlannedItems[kind], 1, n)
  <2>1. 0 \in 0..Len(PlannedItems[kind]) /\ Len(PlannedItems[kind]) \in 0..Len(PlannedItems[kind])
    BY <1>1
  <2> QED BY <1>1, <1>3, <2>1
<1>4. /\ items.timelock = <<>> \/ items.timelock = PlannedItems.timelock
      /\ items.fee = <<>> \/ items.fee = PlannedItems.fee
      /\ items.out = <<>> \/ \E n \in 0..OutCount : items.out = SubSeq(PlannedItems.out, 1, n)
  BY DEF Heard
<1>5. "timelock" \in DOMAIN PlannedItems /\ "fee" \in DOMAIN PlannedItems
      /\ "out" \in DOMAIN PlannedItems
  BY <1>1
<1>6. \E n \in 0..Len(PlannedItems.timelock) :
        items.timelock = SubSeq(PlannedItems.timelock, 1, n)
  BY <1>3, <1>4, <1>5
<1>7. \E n \in 0..Len(PlannedItems.fee) : items.fee = SubSeq(PlannedItems.fee, 1, n)
  BY <1>3, <1>4, <1>5
<1>8. \E n \in 0..Len(PlannedItems.out) : items.out = SubSeq(PlannedItems.out, 1, n)
  BY <1>2, <1>3, <1>4, <1>5
<1>9. /\ items.fee # <<>> => items.timelock = PlannedItems.timelock
      /\ items.out # <<>> => items.fee = PlannedItems.fee
  BY DEF Heard
<1> QED BY <1>1, <1>6, <1>7, <1>8, <1>9

\* What is appended comes last.
LEMMA Appended ==
  ASSUME NEW S, NEW t \in Seq(S), NEW x \in S
  PROVE  /\ Len(Append(t, x)) = Len(t) + 1 /\ Len(t) \in Nat
         /\ \A j \in 1..Len(t) : Append(t, x)[j] = t[j]
OBVIOUS

\* The last of a beginning may still be on screen.
LEMMA AllButLast ==
  ASSUME NEW S, NEW s, NEW n \in Nat, s = [i \in 1..n |-> s[i]], NEW m \in 1..n,
         NEW t \in Seq(S), NEW x \in S, Append(t, x) = SubSeq(s, 1, m)
  PROVE  t = SubSeq(s, 1, m - 1)
<1> DEFINE R == {s[j] : j \in 1..n}
<1>1. s \in Seq(R) /\ Len(s) = n
  OBVIOUS
<1> HIDE DEF R
<1>2. m \in Nat /\ m - 1 \in 0..n /\ m - 1 \in Nat
  OBVIOUS
<1> DEFINE u == SubSeq(s, 1, m - 1)
           v == SubSeq(s, 1, m)
<1>3. u \in Seq(R) /\ Len(u) = m - 1 /\ (\A j \in 1..m - 1 : u[j] = s[j])
  BY <1>1, <1>2
<1>4. v \in Seq(R) /\ Len(v) = m /\ (\A j \in 1..m : v[j] = s[j])
  BY <1>1, <1>2
<1> HIDE DEF u, v
<1>5. /\ Len(Append(t, x)) = Len(t) + 1 /\ Len(t) \in Nat
      /\ \A j \in 1..Len(t) : Append(t, x)[j] = t[j]
  BY Appended
<1>6. Append(t, x) = v
  BY DEF v
<1>7. Len(t) = m - 1 /\ \A j \in 1..m - 1 : t[j] = v[j]
  BY <1>2, <1>4, <1>5, <1>6
<1>8. ASSUME NEW j \in 1..m - 1 PROVE t[j] = u[j]
  <2>1. j \in 1..m
    BY <1>2
  <2> QED BY <1>3, <1>4, <1>7, <2>1
<1>9. t = u
  BY <1>3, <1>7, <1>8
<1> QED BY <1>9 DEF u

\* So it is with all that is told of a real transaction.
LEMMA ToldIsHeard ==
  ASSUME plan \in Plans, pc \in Nat, ToldSoFar
  PROVE  Heard(Told) /\ SentCount \in 0..OutCount
<1>1. /\ FeeAt \in Nat /\ Reviews \in Nat /\ Sums \in Nat /\ FeeAt < Reviews /\ Reviews < Sums
      /\ OutCount \in Nat /\ Sums = Reviews + OutCount
  BY PlaceOrder, PlaceWidths
<1>2. SentCount \in 0..OutCount
  BY <1>1 DEF SentCount
<1>3. pc <= FeeAt => SentCount = 0
  BY <1>1 DEF SentCount
<1>4. SubSeq(PlannedItems.out, 1, 0) = <<>>
  BY DEF PlannedItems
<1>5. /\ Told.timelock = PlannedItems.timelock
      /\ Told.fee = IF pc > FeeAt THEN PlannedItems.fee ELSE <<>>
      /\ Told.out = SubSeq(PlannedItems.out, 1, SentCount)
  BY DEF ToldSoFar
<1>6. CASE pc > FeeAt
  BY <1>2, <1>5, <1>6 DEF Heard
<1>7. CASE ~(pc > FeeAt)
  <2>1. SentCount = 0
    BY <1>1, <1>3, <1>7
  <2> QED BY <1>2, <1>4, <1>5, <1>7, <2>1 DEF Heard
<1> QED BY <1>2, <1>6, <1>7

\* What was accepted on a button device goes to what is on screen, if anything is.
LEMMA ButtonHeard ==
  ASSUME HostInv, Known, Live, ~Touch, Asking
  PROVE  Heard(shown)
<1>1. plan \in Plans /\ pc \in Nat
  <2>1. plan \in Plans /\ End \in Nat /\ pc \in 3..End
    BY ProgramIs DEF Known, PlaceInv, HostInv, Live
  <2> QED BY <2>1
<1>2. Underway /\ AskedInv
  BY UnderwayNow
<1>3. AskedLast /\ ~Building /\ ToldSoFar
  BY <1>2 DEF Underway, AskedInv
<1> DEFINE item == review[1].item
<1>4. Told = Add(shown, item) /\ ItemsOK(shown)
  BY <1>2 DEF Told, AskedInv
<1>5. item.kind = "timelock" \/ item.kind = "fee" \/ item.kind = "out"
  BY <1>3 DEF AskedLast
<1>6. /\ item.kind = "timelock" => pc = Stream + 1
      /\ item.kind = "fee" => pc = FeeAt + 1
      /\ item.kind = "out" => pc \in Reviews + 1..Sums
  BY <1>3 DEF AskedLast
<1> HIDE DEF item
<1>7. item.kind \in Items /\ Shape(shown)
  BY <1>4, <1>5 DEF Items, ItemsOK
<1>8. /\ Told.timelock =
           IF item.kind = "timelock" THEN Append(shown.timelock, item) ELSE shown.timelock
      /\ Told.fee = IF item.kind = "fee" THEN Append(shown.fee, item) ELSE shown.fee
      /\ Told.out = IF item.kind = "out" THEN Append(shown.out, item) ELSE shown.out
  BY <1>4, <1>7, AddShape
<1>9. /\ shown.timelock \in Seq({Timelock})
      /\ shown.fee \in Seq([kind : {"fee"}, amt : Amount]) /\ shown.out \in Seq(OutItem)
  BY <1>4 DEF ItemsOK
<1>10. /\ FeeAt \in Nat /\ Reviews \in Nat /\ Sums \in Nat /\ Stream \in Nat
       /\ Stream + 1 < FeeAt /\ FeeAt < Reviews
       /\ Reviews < Sums /\ OutCount \in Nat /\ Sums = Reviews + OutCount
  BY <1>1, PlaceOrder, PlaceWidths
<1>11. ASSUME NEW S, NEW t \in Seq(S), NEW x, NEW y, Append(t, x) = <<y>>
       PROVE  t = <<>>
  <2>1. Len(Append(t, x)) = Len(t) + 1 /\ Len(t) \in Nat
    OBVIOUS
  <2>2. Len(<<y>>) = 1
    OBVIOUS
  <2>3. Len(t) = 0
    BY <1>11, <2>1, <2>2
  <2> QED BY <2>3
<1>12. PlannedItems.timelock = <<>> \/ PlannedItems.timelock = <<Timelock>>
  BY <1>1, PlannedLists
<1>13. PlannedItems.fee = <<Fee(plan.fee)>> /\ SubSeq(PlannedItems.out, 1, 0) = <<>>
  BY <1>1, PlannedLists DEF PlannedItems
<1>14. CASE item.kind = "timelock"
  <2>1. pc = Stream + 1 /\ pc <= FeeAt /\ SentCount = 0
    BY <1>6, <1>10, <1>14 DEF SentCount
  <2>2. shown.fee = <<>> /\ shown.out = <<>>
    <3>1. ~(pc > FeeAt)
      BY <1>10, <2>1
    <3>2. Told.fee = <<>> /\ Told.out = SubSeq(PlannedItems.out, 1, 0)
      BY <1>3, <2>1, <3>1 DEF ToldSoFar
    <3> QED BY <1>8, <1>13, <1>14, <3>2
  <2>3. Append(shown.timelock, item) = PlannedItems.timelock
    BY <1>3, <1>8, <1>14 DEF ToldSoFar
  <2>4. Append(shown.timelock, item) # <<>>
    BY <1>9
  <2>5. shown.timelock = <<>>
    BY <1>9, <1>11, <1>12, <2>3, <2>4
  <2> QED BY <2>2, <2>5 DEF Heard
<1>15. CASE item.kind = "fee"
  <2>1. pc > FeeAt /\ SentCount = 0
    BY <1>6, <1>10, <1>15 DEF SentCount
  <2>2. shown.timelock = PlannedItems.timelock /\ shown.out = <<>>
    BY <1>3, <1>8, <1>13, <1>15, <2>1 DEF ToldSoFar
  <2>3. Append(shown.fee, item) = <<Fee(plan.fee)>>
    BY <1>3, <1>8, <1>13, <1>15, <2>1 DEF ToldSoFar
  <2>4. shown.fee = <<>>
    BY <1>9, <1>11, <2>3
  <2> QED BY <2>2, <2>4 DEF Heard
<1>16. CASE item.kind = "out"
  <2>1. pc > FeeAt /\ SentCount \in 1..OutCount
    BY <1>6, <1>10, <1>16 DEF SentCount
  <2>2. shown.timelock = PlannedItems.timelock /\ shown.fee = PlannedItems.fee
    BY <1>3, <1>8, <1>16, <2>1 DEF ToldSoFar
  <2>3. Append(shown.out, item) = SubSeq(PlannedItems.out, 1, SentCount)
    BY <1>3, <1>8, <1>16 DEF ToldSoFar
  <2>4. shown.out \in Seq(OutItem \cup {item}) /\ item \in OutItem \cup {item}
    BY <1>9
  <2>5. shown.out = SubSeq(PlannedItems.out, 1, SentCount - 1)
    BY <1>1, <2>1, <2>3, <2>4, ItemsPlanned, AllButLast
  <2>6. SentCount - 1 \in 0..OutCount
    BY <1>10, <2>1
  <2> QED BY <2>2, <2>5, <2>6 DEF Heard
<1> QED BY <1>5, <1>14, <1>15, <1>16

\* The user heard a beginning of the plan, and approved all of it.
LEMMA RealHeard ==
  ASSUME HostInv, Known, Live
  PROVE  /\ Heard(shown)
         /\ Approved => \A kind \in DOMAIN PlannedItems : shown[kind] = PlannedItems[kind]
<1>1. plan \in Plans /\ pc \in Nat
  <2>1. plan \in Plans /\ End \in Nat /\ pc \in 3..End
    BY ProgramIs DEF Known, PlaceInv, HostInv, Live
  <2> QED BY <2>1
<1>2. Underway /\ AskedInv /\ (Approved => Closed)
  BY UnderwayNow
<1>3. Touch \in BOOLEAN
  BY ConstantsOK DEF ConstantsOK
<1>4. CASE shown = NoItems /\ ~Approved
  BY <1>4, NothingTold DEF Heard
<1>5. CASE ~Touch /\ Asking
  <2>1. ~Approved
    BY <1>2, <1>5 DEF Underway
  <2> QED BY <1>5, <2>1, ButtonHeard
<1>6. CASE ~Building /\ shown = Told
  <2>1. ToldSoFar
    BY <1>2, <1>6 DEF Underway
  <2>2. Heard(shown)
    BY <1>1, <1>6, <2>1, ToldIsHeard
  <2>3. ASSUME Approved, NEW kind \in DOMAIN PlannedItems
        PROVE  shown[kind] = PlannedItems[kind]
    <3>1. pc >= Sums
      BY <1>2, <2>3 DEF Underway
    <3>2. FeeAt \in Nat /\ Reviews \in Nat /\ Sums \in Nat /\ FeeAt < Reviews /\ Reviews < Sums
      BY <1>1, PlaceOrder
    <3>3. SentCount = OutCount /\ pc > FeeAt
      BY <1>1, <3>1, <3>2 DEF SentCount
    <3>4. SubSeq(PlannedItems.out, 1, OutCount) = PlannedItems.out
      BY <1>1, PlannedLists, ItemsPlanned
    <3>5. /\ shown.timelock = PlannedItems.timelock /\ shown.fee = PlannedItems.fee
          /\ shown.out = PlannedItems.out
      BY <1>6, <2>1, <3>3, <3>4 DEF ToldSoFar
    <3>6. kind = "timelock" \/ kind = "fee" \/ kind = "out"
      BY <1>1, PlannedLists
    <3> QED BY <3>5, <3>6
  <2> QED BY <2>2, <2>3
<1>7. \/ shown = NoItems /\ ~Approved
      \/ ~Touch /\ Asking
      \/ ~Building /\ shown = Told
  <2>1. CASE Building
    BY <1>2, <2>1 DEF AskedInv, Approved
  <2>2. CASE ~Building /\ Touch
    BY <1>2, <2>2 DEF Underway, Told
  <2>3. CASE ~Building /\ ~Touch
    BY <2>3 DEF Told
  <2> QED BY <1>3, <2>1, <2>2, <2>3
<1> QED BY <1>4, <1>5, <1>6, <1>7

\* tests/test_sig_real_simple.py, the order of its commands: whatever the wallet and the
\* user do, what was accepted is a beginning of the plan, the timelock first, then the
\* fee, then the outputs; approved is the whole plan; and nothing is asked about a
\* transaction that only estimates.
THEOREM PlanIsTold == HostSpec => []ToldThePlan
<1>1. ASSUME HostInv, Known
      PROVE  ToldThePlan
  <2> SUFFICES ASSUME tx_in_progress
               PROVE  ToldThePlan
    BY DEF ToldThePlan
  <2>1. plan \in Plans
    BY <1>1 DEF Known, PlaceInv
  <2>2. CASE Real
    <3>1. Live
      BY <2>2 DEF Live
    <3>2. /\ Heard(shown)
          /\ Approved => \A kind \in DOMAIN PlannedItems : shown[kind] = PlannedItems[kind]
      BY <1>1, <3>1, RealHeard
    <3>3. /\ \A kind \in DOMAIN PlannedItems : \E n \in 0..Len(PlannedItems[kind]) :
               shown[kind] = SubSeq(PlannedItems[kind], 1, n)
          /\ shown.fee # <<>> => shown.timelock = PlannedItems.timelock
          /\ shown.out # <<>> => shown.fee = PlannedItems.fee
      BY <2>1, <3>2, HeardIsBeginning
    <3> QED BY <2>2, <3>2, <3>3 DEF ToldThePlan, Approved
  <2>3. CASE ~Real
    <3>1. shown = NoItems /\ ~Asking /\ tx_stages = {}
      BY <1>1, <2>3 DEF HostInv, Known, FakeInv
    <3>2. review = <<>>
      BY <1>1, <3>1 DEF HostInv
    <3>3. Heard(shown)
      BY <3>1, NothingTold DEF Heard
    <3>4. /\ \A kind \in DOMAIN PlannedItems : \E n \in 0..Len(PlannedItems[kind]) :
               shown[kind] = SubSeq(PlannedItems[kind], 1, n)
          /\ shown.fee # <<>> => shown.timelock = PlannedItems.timelock
          /\ shown.out # <<>> => shown.fee = PlannedItems.fee
      BY <2>1, <3>3, HeardIsBeginning
    <3> QED BY <3>1, <3>2, <3>4 DEF ToldThePlan
  <2> QED BY <2>2, <2>3
<1> QED BY <1>1, HostAlways, PTL

-----------------------------------------------------------------------------
(* What is signed of it. *)

\* Once the outputs were reviewed all of them were told.
LEMMA ClosedToldAll ==
  PlaceInv /\ HostInv /\ ReviewInv /\ Live /\ Closed =>
    Told.out = PlannedItems.out /\ Len(Told.out) = OutCount /\ OutCount \in Nat
<1> SUFFICES ASSUME PlaceInv, HostInv, ReviewInv, Live, Closed
             PROVE  Told.out = PlannedItems.out /\ Len(Told.out) = OutCount /\ OutCount \in Nat
  OBVIOUS
<1>1. plan \in Plans /\ pc \in Nat
  <2>1. plan \in Plans /\ End \in Nat /\ pc \in 3..End
    BY ProgramIs DEF PlaceInv, HostInv, Live
  <2> QED BY <2>1
<1>2. Underway /\ AskedInv
  BY DEF HostInv, ReviewInv, Live
<1>3. ~Building /\ ToldSoFar /\ pc >= Sums
  BY <1>2 DEF Underway, AskedInv, Building, Fixed, Signing
<1>4. Reviews \in Nat /\ Sums \in Nat /\ Reviews < Sums
  BY <1>1, PlaceOrder
<1>5. SentCount = OutCount
  BY <1>1, <1>3, <1>4 DEF SentCount
<1>6. SubSeq(PlannedItems.out, 1, OutCount) = PlannedItems.out
  BY <1>1, PlannedLists, ItemsPlanned
<1> QED BY <1>1, <1>3, <1>5, <1>6, ItemsPlanned DEF ToldSoFar

\* Those the device derived are as many.
AllDerived == Live /\ Closed => Len(OUTK) = OutCount

\* The transaction had all its outputs derived before it was closed.
LEMMA AllDerivedStep ==
  ASSUME AllDerived, HostInv, Known, [HostNext]_hostVars
  PROVE  AllDerived'
<1> SUFFICES ASSUME Live', Closed'
             PROVE  Len(OUTK') = OutCount'
  BY DEF AllDerived
<1>1. PlaceInv /\ ReviewInv /\ Grounds /\ [Next]_vars
  BY HostIsStep DEF Known
<1>2. PlaceInv' /\ HostInv' /\ ReviewInv'
  BY <1>1, PlaceStep, HostInvStep, ReviewStep
<1>3. Told'.out = PlannedItems'.out /\ Len(Told'.out) = OutCount' /\ OutCount' \in Nat
  <2>1. (PlaceInv /\ HostInv /\ ReviewInv /\ Live /\ Closed =>
           Told.out = PlannedItems.out /\ Len(Told.out) = OutCount /\ OutCount \in Nat)'
    BY ClosedToldAll, PTL
  <2> QED BY <1>2, <2>1
<1>4. ASSUME Live, plan' # plan PROVE FALSE
  <2>1. NextTransaction
    BY <1>4 DEF HostNext, HostStep, HostReset, UserAccepts, UserRejects, Unplug, PlugIn, Rest,
       hostVars, host
  <2>2. pc > End /\ pc \in 3..End /\ End \in Nat
    BY <1>1, <1>4, <2>1, ProgramIs DEF NextTransaction, Finished, HostInv, Live, PlaceInv
  <2> QED BY <2>2
<1>5. ASSUME Live PROVE OutCount' = OutCount
  BY <1>4, <1>5, PlacesStay
<1>6. CASE OpenTx
  BY <1>6 DEF OpenTx, ClearTx, Closed
<1>7. CASE Live /\ Idle
  <2>1. OUTK' = OUTK /\ Closed
    BY <1>7 DEF Idle, txState, outChains, Closed
  <2> QED BY <1>5, <1>7, <2>1 DEF AllDerived
<1>8. CASE Live /\ Accept
  <2>1. OUTK' = OUTK /\ Closed
    BY <1>8 DEF Accept, outChains, Closed
  <2> QED BY <1>5, <1>8, <2>1 DEF AllDerived
<1>9. CASE Live /\ review = <<>> /\ RealCommand
  <2>1. AskedInv /\ OutputsInv /\ (~Building => ToldInv) /\ OutputsOK
    BY <1>1, <1>9 DEF ReviewInv, Grounds
  <2>2. CASE Closed /\ OUTK' = OUTK
    BY <1>5, <1>9, <2>2 DEF AllDerived
  <2>3. CASE Builds
    BY <2>2, <2>3 DEF Builds, Stealth, GenTxoutKeys, outChains, Closed
  <2>4. CASE Silent
    <3>1. SilentFrame
      BY <1>9, <2>1, <2>4, SilentFramed
    <3> QED BY <2>2, <3>1 DEF SilentFrame
  <2>5. ASSUME NEW lock \in Locks, PrefixHashInit(lock)
        PROVE  Len(OUTK') = OutCount'
    BY <2>2, <2>5 DEF PrefixHashInit, Closed
  <2>6. ASSUME NEW amt \in Amount, NEW more \in BOOLEAN, PrehashInitFee(amt, more)
        PROVE  FALSE
    <3>1. ~Closed
      BY <2>1, <2>6, FeeOnce
    <3> QED BY <2>6, <3>1 DEF PrehashInitFee, Closed
  <2>7. ASSUME NEW o \in Output, NEW amt \in Amount, NEW more \in BOOLEAN, NEW p2 \in Step,
               PrehashUpdate(o, amt, more, p2)
        PROVE  Len(OUTK') = OutCount'
    <3>1. OUTK' = OUTK
      BY <2>7 DEF PrehashUpdate
    <3>2. CASE more
      BY <2>2, <2>7, <3>1, <3>2 DEF PrehashUpdate, Closed
    <3>3. CASE ~more
      <4>1. PrehashUpdate(o, amt, FALSE, p2)
        <5>1. more = FALSE
          BY <3>3
        <5> QED BY <2>7, <5>1
      <4>2. ~Closed /\ ~Approved /\ Append(outkeys, o) = OUTK
        BY <2>1, <4>1, ClosesOnce
      <4>3. tx_state.ins = "VALIDATE" /\ tx_state.p1 \in {1, 2}
        <5>1. ValidateStep(2, p2) /\ p2 \in Nat \ {0}
          BY <2>7, StepPositive DEF PrehashUpdate
        <5> QED BY <2>1, <5>1, ValidateTurns
      <4>4. outkeys \in Seq(Output) /\ Len(outkeys) = Len(Told.out) /\ ~Building
        BY <2>1, <4>2, <4>3 DEF OutputsInv, Building
      <4>5. Told'.out = Append(Told.out, OutputItem(o, amt)) /\ ToldInv
        BY <1>9, <2>1, <2>7, <4>2, <4>4, ToldUpdate
      <4>6. Told.out \in Seq(OutItem)
        BY <4>5 DEF ToldInv, ItemsOK
      <4>7. Len(OUTK) = Len(outkeys) + 1
        <5>1. Len(Append(outkeys, o)) = Len(outkeys) + 1
          BY <4>4
        <5> QED BY <4>2, <5>1
      <4>8. Len(Told'.out) = Len(Told.out) + 1
        <5>1. \A x : Len(Append(Told.out, x)) = Len(Told.out) + 1
          BY <4>6
        <5> QED BY <4>5, <5>1
      <4> QED BY <1>3, <3>1, <4>4, <4>7, <4>8
    <3> QED BY <3>2, <3>3
  <2> QED BY <1>9, <2>3, <2>4, <2>5, <2>6, <2>7, CommandCases
<1>10. \/ OpenTx
       \/ Live /\ (Idle \/ Accept \/ (review = <<>> /\ RealCommand))
  BY <1>1, StepCases DEF Grounds
<1> QED BY <1>6, <1>7, <1>8, <1>9, <1>10

\* So it is at all times.
LEMMA AllDerivedAlways == HostSpec => []AllDerived
<1>1. HostInit => AllDerived
  BY DEF HostInit, Init, AllDerived, Live
<1>2. AllDerived /\ HostInv /\ Known /\ [HostNext]_hostVars => AllDerived'
  BY AllDerivedStep
<1> QED BY <1>1, <1>2, HostAlways, PTL DEF HostSpec

\* What the command at a place of the program adds to the hash,
ItemAt(place) ==
  IF place = FeeAt THEN Fee(plan.fee)
  ELSE IF place < Reviews THEN PseudoOut
  ELSE IF place < Sums THEN EcdhInfo(PlannedCommit(place - Reviews + 1))
  ELSE OutPk(PlannedCommit(place - Sums + 1))

\* the hash with the items of all places before one,
Hashed(body, place) ==
  /\ body \in Seq(BodyItem) /\ Len(body) = place - FeeAt
  /\ \A k \in 1..Len(body) : body[k] = ItemAt(FeeAt - 1 + k)

\* and what the device has of it: the running hash until it is sealed, then the seal.
HashedSoFar ==
  Live =>
    /\ pc \in FeeAt + 1..Seal => Hashed(keccakH, pc)
    /\ Sealed => pc > Seal /\ Hashed(mlsagH[1].body, Seal)

\* The places are in their order, as numbers.
LEMMA HashPlaces ==
  ASSUME plan \in Plans
  PROVE  /\ FeeAt \in Nat /\ Reviews \in Nat /\ Sums \in Nat /\ Seal \in Nat
         /\ 3 < FeeAt /\ Reviews = FeeAt + 1 + plan.pseudo /\ Sums = Reviews + OutCount
         /\ Seal = Sums + OutCount /\ plan.pseudo \in Nat /\ OutCount \in Nat \ {0}
<1>1. /\ Keys \in Nat /\ Stream \in Nat /\ Masks \in Nat /\ Blinds \in Nat /\ FeeAt \in Nat
      /\ 3 <= Keys /\ Keys < Stream /\ Stream + 1 < Masks /\ Masks <= Blinds
      /\ Blinds < FeeAt
  BY PlaceOrder
<1>2. 3 < FeeAt
  BY <1>1
<1> QED BY <1>2, PlaceOrder, PlaceWidths

\* The hash of the plan is the same as long as the plan is.
LEMMA HashedStays ==
  ASSUME plan' = plan, NEW body, NEW place
  PROVE  Hashed(body, place)' <=> Hashed(body, place)
<1>1. FeeAt' = FeeAt /\ Reviews' = Reviews /\ Sums' = Sums
  BY PlacesStay
<1>2. \A i : PlannedCommit(i)' = PlannedCommit(i)
  BY DEF PlannedCommit, DeviceOutput
<1>3. \A k : ItemAt(k)' = ItemAt(k)
  BY <1>1, <1>2 DEF ItemAt
<1> QED BY <1>1, <1>3 DEF Hashed

\* It begins with the fee,
LEMMA HashBegins ==
  ASSUME plan \in Plans
  PROVE  Hashed(<<Fee(plan.fee)>>, FeeAt + 1)
<1>1. FeeAt \in Nat /\ Fee(plan.fee) \in BodyItem
  BY HashPlaces, PlanIs DEF BodyItem
<1>2. <<Fee(plan.fee)>> \in Seq(BodyItem) /\ Len(<<Fee(plan.fee)>>) = 1
  BY <1>1
<1>3. ItemAt(FeeAt) = Fee(plan.fee)
  BY DEF ItemAt
<1>4. \A k \in 1..1 : <<Fee(plan.fee)>>[k] = ItemAt(FeeAt - 1 + k)
  <2>1. FeeAt - 1 + 1 = FeeAt
    BY <1>1
  <2> QED BY <1>3, <2>1
<1> QED BY <1>1, <1>2, <1>4 DEF Hashed

\* and grows by the item of each place.
LEMMA HashGrows ==
  ASSUME plan \in Plans, NEW body, NEW place \in Nat, place > FeeAt, Hashed(body, place),
         NEW item \in BodyItem, item = ItemAt(place)
  PROVE  Hashed(Append(body, item), place + 1)
<1> DEFINE n == place - FeeAt
<1>1. FeeAt \in Nat /\ n \in Nat /\ FeeAt - 1 + (n + 1) = place /\ n + 1 = (place + 1) - FeeAt
  BY HashPlaces
<1>2. body \in Seq(BodyItem) /\ Len(body) = n /\ \A k \in 1..n : body[k] = ItemAt(FeeAt - 1 + k)
  BY DEF Hashed
<1> HIDE DEF n
<1>3. /\ Append(body, item) \in Seq(BodyItem) /\ Len(Append(body, item)) = n + 1
      /\ Append(body, item)[n + 1] = item
      /\ \A k \in 1..n : Append(body, item)[k] = body[k]
  BY <1>1, <1>2
<1>4. ASSUME NEW k \in 1..n + 1
      PROVE  Append(body, item)[k] = ItemAt(FeeAt - 1 + k)
  <2>1. CASE k = n + 1
    BY <1>1, <1>3, <2>1
  <2>2. CASE k \in 1..n
    BY <1>2, <1>3, <2>2
  <2>3. k = n + 1 \/ k \in 1..n
    BY <1>1
  <2> QED BY <2>1, <2>2, <2>3
<1> QED BY <1>1, <1>3, <1>4 DEF Hashed

\* A step that does nothing to the hash, the seal or the place leaves it so.
LEMMA HashWaits ==
  ASSUME HashedSoFar, Live, plan' = plan, pc' = pc, UNCHANGED <<keccakH, mlsagH>>,
         Sealed' <=> Sealed
  PROVE  HashedSoFar'
<1>1. FeeAt' = FeeAt /\ Sums' = Sums /\ OutCount' = OutCount
  BY PlacesStay
<1>2. Seal' = Seal
  BY <1>1 DEF Seal
<1>3. \A body, place : Hashed(body, place)' <=> Hashed(body, place)
  BY HashedStays
<1> QED BY <1>1, <1>2, <1>3 DEF HashedSoFar

\* A command before the fee leaves nothing sealed.
LEMMA HashNotBegun ==
  ASSUME HashedSoFar, Live, plan \in Plans, plan' = plan, pc \in Nat, pc' = pc + 1, pc < FeeAt,
         Sealed' => Sealed
  PROVE  HashedSoFar'
<1>1. FeeAt' = FeeAt /\ Sums' = Sums /\ OutCount' = OutCount
  BY PlacesStay
<1>2. /\ FeeAt \in Nat /\ Seal \in Nat /\ FeeAt < Seal
  <2>1. /\ FeeAt \in Nat /\ Seal \in Nat /\ FeeAt < Reviews /\ Reviews < Sums /\ Sums < Seal
        /\ Reviews \in Nat /\ Sums \in Nat
    BY PlaceOrder
  <2> QED BY <2>1
<1>3. ~Sealed
  BY <1>2 DEF HashedSoFar
<1>4. ~(pc' \in FeeAt' + 1..Seal')
  BY <1>1, <1>2
<1> QED BY <1>3, <1>4 DEF HashedSoFar

\* One that absorbs the item of its place goes on with the hash.
LEMMA HashGoesOn ==
  ASSUME HashedSoFar, Live, plan \in Plans, plan' = plan, pc \in FeeAt + 1..Seal - 1, pc' = pc + 1,
         NEW item \in BodyItem, item = ItemAt(pc), keccakH' = Append(keccakH, item),
         Sealed' => Sealed
  PROVE  HashedSoFar'
<1>1. FeeAt' = FeeAt /\ Sums' = Sums /\ OutCount' = OutCount
  BY PlacesStay
<1>2. FeeAt \in Nat /\ Seal \in Nat
  BY HashPlaces
<1>3. pc \in Nat /\ pc > FeeAt /\ pc < Seal /\ pc \in FeeAt + 1..Seal
  BY <1>2
<1>4. Hashed(keccakH, pc) /\ ~Sealed
  BY <1>2, <1>3 DEF HashedSoFar
<1>5. Hashed(keccakH', pc')
  BY <1>3, <1>4, HashGrows
<1>6. Hashed(keccakH, pc)'
  <2>1. \A body, place : Hashed(body, place)' <=> Hashed(body, place)
    BY HashedStays
  <2> QED BY <1>5, <2>1
<1> QED BY <1>4, <1>6 DEF HashedSoFar

\* The commands of the program, one after the other.
LEMMA HashCommand ==
  ASSUME HashedSoFar, HostInv, Known, HostStep, Live, pc < End
  PROVE  HashedSoFar'
<1>1. /\ HostCommand /\ pc \in 3..End /\ pc' = pc + 1 /\ pc \in Nat
      /\ plan \in Plans /\ plan' = plan /\ End \in Nat
  BY HostGoesOn DEF Live
<1>2. pc # 1 /\ pc # 2 /\ pc # End
  BY <1>1
<1>3. /\ Keys \in Nat /\ Stream \in Nat /\ Masks \in Nat /\ Blinds \in Nat /\ FeeAt \in Nat
      /\ Reviews \in Nat /\ Sums \in Nat /\ Seal \in Nat /\ Rings \in Nat
      /\ 3 <= Keys /\ Keys < Stream /\ Stream + 1 < Masks /\ Masks <= Blinds
      /\ Blinds < FeeAt /\ FeeAt < Reviews /\ Reviews < Sums /\ Sums < Seal /\ Seal < Rings
  BY <1>1, PlaceOrder
<1>4. /\ OutCount \in Nat /\ plan.pieces \in Nat /\ plan.pseudo \in Nat
      /\ Stream = Keys + OutCount /\ Masks = Stream + 1 + plan.pieces
      /\ Reviews = FeeAt + 1 + plan.pseudo /\ Sums = Reviews + OutCount
      /\ Seal = Sums + OutCount
  BY <1>1, PlaceWidths
<1> USE DEF Sealed
<1>5. CASE pc = 3 /\ pc < Keys /\ Stealth(plan.pid[1])
  <2>1. pc < FeeAt
    BY <1>3, <1>5
  <2>2. UNCHANGED tx_stages
    BY <1>5 DEF Stealth
  <2> QED BY <1>1, <2>1, <2>2, HashNotBegun
<1>6. ASSUME NEW i \in 1..OutCount, pc = Keys - 1 + i,
             GenTxoutKeys(plan.outs[i].to, plan.outs[i].chg)
      PROVE  HashedSoFar'
  <2>1. pc < FeeAt
    <3>1. i \in Nat /\ i <= OutCount /\ pc < Stream
      BY <1>3, <1>4, <1>6
    <3> QED BY <1>1, <1>3, <3>1
  <2>2. UNCHANGED tx_stages
    BY <1>6 DEF GenTxoutKeys
  <2> QED BY <1>1, <2>1, <2>2, HashNotBegun
<1>7. CASE pc = Stream /\ PrefixHashInit(plan.lock)
  <2>1. pc < FeeAt
    BY <1>3, <1>7
  <2>2. Sealed' => Sealed
    BY <1>7 DEF PrefixHashInit
  <2> QED BY <1>1, <2>1, <2>2, HashNotBegun
<1>8. ASSUME NEW i \in 1..plan.pieces, pc = Stream + i,
             PrefixHashUpdate(ChunkAt(i), i < plan.pieces, i)
      PROVE  HashedSoFar'
  <2>1. pc < FeeAt
    <3>1. i \in Nat /\ i <= plan.pieces /\ pc < Masks
      BY <1>3, <1>4, <1>8
    <3> QED BY <1>1, <1>3, <3>1
  <2>2. Sealed' => Sealed
    BY <1>8 DEF PrefixHashUpdate
  <2> QED BY <1>1, <2>1, <2>2, HashNotBegun
<1>9. CASE pc \in Masks..FeeAt - 1 /\ (GenCommitmentMask \/ Blind)
  <2>1. pc < FeeAt
    BY <1>3, <1>9
  <2>2. UNCHANGED tx_stages
    BY <1>9 DEF GenCommitmentMask, Blind
  <2> QED BY <1>1, <2>1, <2>2, HashNotBegun
<1>10. CASE pc = FeeAt /\ PrehashInitFee(plan.fee, plan.pseudo > 0)
  <2>1. keccakH' = <<Fee(plan.fee)>> /\ tx_stages' = tx_stages
    BY <1>10 DEF PrehashInitFee
  <2>2. ~Sealed
    BY <1>3, <1>10 DEF HashedSoFar
  <2>3. Hashed(keccakH', pc')
    BY <1>1, <1>10, <2>1, HashBegins
  <2>4. \A body, place : Hashed(body, place)' <=> Hashed(body, place)
    BY <1>1, HashedStays
  <2> QED BY <2>1, <2>2, <2>3, <2>4 DEF HashedSoFar
<1>11. ~PrehashInit(plan.pseudo > 0, 1)
  BY DEF PrehashInit, Live
<1>12. ASSUME NEW i \in 1..plan.pseudo, pc = FeeAt + i, PrehashInit(i < plan.pseudo, i + 1)
       PROVE  HashedSoFar'
  <2>1. /\ pc \in FeeAt + 1..Seal - 1 /\ pc # FeeAt /\ pc < Reviews
    BY <1>3, <1>4, <1>12
  <2>2. keccakH' = Append(keccakH, PseudoOut) /\ tx_stages' = tx_stages
    BY <1>12 DEF PrehashInit
  <2>3. PseudoOut \in BodyItem /\ PseudoOut = ItemAt(pc)
    BY <2>1 DEF BodyItem, ItemAt
  <2> QED BY <1>1, <2>1, <2>2, <2>3, HashGoesOn
<1>13. ASSUME NEW i \in 1..OutCount, pc = Reviews - 1 + i,
              PrehashUpdate(DeviceOutput(i), plan.outs[i].amt, i < OutCount, i)
       PROVE  HashedSoFar'
  <2>1. /\ pc \in FeeAt + 1..Seal - 1 /\ pc # FeeAt /\ ~(pc < Reviews) /\ pc < Sums
        /\ pc - Reviews + 1 = i
    BY <1>3, <1>4, <1>13
  <2>2. keccakH' = Append(keccakH, EcdhInfo(PlannedCommit(i)))
    BY <1>13 DEF PrehashUpdate, PlannedCommit
  <2>3. Sealed' => Sealed
    BY <1>13 DEF PrehashUpdate
  <2>4. PlannedCommit(i) \in Commitment
    BY <1>1, PlannedOutput DEF PlannedCommit
  <2>5. EcdhInfo(PlannedCommit(i)) \in BodyItem /\ EcdhInfo(PlannedCommit(i)) = ItemAt(pc)
    BY <2>1, <2>4 DEF BodyItem, ItemAt
  <2> QED BY <1>1, <2>1, <2>2, <2>3, <2>5, HashGoesOn
<1>14. ASSUME NEW i \in 1..OutCount
       PROVE  ~PrehashUpdateFake(DeviceOutput(i), plan.outs[i].amt, i)
  BY DEF PrehashUpdateFake, Live
<1>15. ASSUME NEW i \in 1..OutCount, pc = Sums - 1 + i,
              PrehashAccumulate(Commit(DeviceOutput(i), plan.outs[i].amt), i)
       PROVE  HashedSoFar'
  <2>1. /\ pc \in FeeAt + 1..Seal - 1 /\ pc # FeeAt /\ ~(pc < Reviews) /\ ~(pc < Sums)
        /\ pc - Sums + 1 = i
    BY <1>3, <1>4, <1>15
  <2>2. keccakH' = Append(keccakH, OutPk(PlannedCommit(i))) /\ tx_stages' = tx_stages
    BY <1>15 DEF PrehashAccumulate, PlannedCommit
  <2>3. PlannedCommit(i) \in Commitment
    BY <1>1, PlannedOutput DEF PlannedCommit
  <2>4. OutPk(PlannedCommit(i)) \in BodyItem /\ OutPk(PlannedCommit(i)) = ItemAt(pc)
    BY <2>1, <2>3 DEF BodyItem, ItemAt
  <2> QED BY <1>1, <2>1, <2>2, <2>4, HashGoesOn
\* Past the last item it is sealed, and stays so.
<1>16. pc >= Seal => Seal' = Seal /\ pc' > Seal
  <2>1. Sums' = Sums /\ OutCount' = OutCount
    BY <1>1, PlacesStay
  <2> QED BY <1>1, <1>3, <2>1 DEF Seal
<1>17. CASE pc = Seal /\ PrehashFinalize(prefixH, OutCount + 1)
  <2>1. mlsagH'[1].body = keccakH
    BY <1>17 DEF PrehashFinalize
  <2>2. Hashed(keccakH, Seal)
    BY <1>3, <1>17 DEF HashedSoFar
  <2>3. \A body, place : Hashed(body, place)' <=> Hashed(body, place)
    BY <1>1, HashedStays
  <2>4. Hashed(mlsagH[1].body, Seal)'
    BY <1>16, <1>17, <2>1, <2>2, <2>3, <1>3
  <2>5. ~(pc' \in FeeAt' + 1..Seal') /\ pc' > Seal'
    BY <1>1, <1>3, <1>16, <1>17
  <2> QED BY <2>4, <2>5 DEF HashedSoFar
<1>18. CASE pc \in Rings..End - 1 /\ RingCommand
  <2>1. UNCHANGED <<mlsagH, tx_stages>>
    BY <1>18, RingSealsNothing
  <2>2. pc >= Seal
    BY <1>1, <1>3, <1>18
  <2>3. \A body, place : Hashed(body, place)' <=> Hashed(body, place)
    BY <1>1, HashedStays
  <2>4. ~(pc' \in FeeAt' + 1..Seal') /\ pc' > Seal'
    BY <1>1, <1>3, <1>16, <2>2
  <2> QED BY <1>16, <2>1, <2>2, <2>3, <2>4 DEF HashedSoFar
<1>19. Masks..Blinds - 1 \subseteq Masks..FeeAt - 1 /\ Blinds..FeeAt - 1 \subseteq Masks..FeeAt - 1
  BY <1>3
<1> QED BY <1>1, <1>2, <1>5, <1>6, <1>7, <1>8, <1>9, <1>10, <1>11, <1>12, <1>13, <1>14, <1>15,
           <1>17, <1>18, <1>19 DEF HostCommand

\* So is everything else.
LEMMA HashedStep ==
  ASSUME HashedSoFar, HostInv, Known, [HostNext]_hostVars
  PROVE  HashedSoFar'
<1> SUFFICES ASSUME Live'
             PROVE  HashedSoFar'
  BY DEF HashedSoFar
<1>1. plan \in Plans /\ End \in Nat /\ End >= 3 /\ pc \in 0..End + 1
  BY PlaceOrder, ProgramIs DEF Known, PlaceInv
<1>2. tx_in_progress => pc \in 3..End
  BY DEF HostInv
<1>3. HostInv'
  BY HostInvStep
<1>4. CASE HostStep
  <2>1. HostCommand /\ plan' = plan /\ pc' = pc + 1 /\ pc \in Nat
    BY <1>4, HostGoesOn
  <2>2. pc # 1
    <3>1. pc = 1 => SetSignatureMode(plan.mode)
      BY <1>1, <1>4, ProgramIs, PerformedAt DEF Perform
    <3> QED BY <1>2, <3>1 DEF SetSignatureMode, Live
  <2>3. CASE pc = 2
    <3>1. OpenTx
      BY <1>1, <1>4, <2>3, ProgramIs, PerformedAt DEF Perform
    <3>2. ~Sealed' /\ FeeAt' = FeeAt /\ pc' = 3 /\ Sums' = Sums /\ OutCount' = OutCount
      BY <2>1, <2>3, <3>1, PlacesStay DEF OpenTx, ClearTx, Sealed
    <3>3. FeeAt \in Nat /\ Seal \in Nat /\ 3 < FeeAt /\ Seal' = Seal
      BY <1>1, <3>2, HashPlaces DEF Seal
    <3> QED BY <3>2, <3>3 DEF HashedSoFar
  <2>4. pc # End
    <3>1. pc = End => CloseTx
      BY <1>1, <1>4, ProgramIs, PerformedAt DEF Perform
    <3> QED BY <3>1 DEF CloseTx, monero_reset_tx, Live
  <2>5. CASE pc # 2
    <3>1. tx_in_progress
      BY <2>1, <2>2, <2>4, <2>5, HostInProgress
    <3>2. tx_sig_mode = plan.mode /\ tx_sig_mode' = plan'.mode
      BY <1>3, <3>1 DEF HostInv, Live
    <3>3. Live /\ pc < End
      BY <1>1, <1>2, <2>1, <2>4, <3>1, <3>2 DEF Live, Real
    <3> QED BY <1>4, <3>3, HashCommand
  <2> QED BY <2>3, <2>5
<1>5. CASE HostReset \/ Unplug \/ UserRejects
  BY <1>5 DEF HostReset, Reinit, Bzero, Unplug, Kill, UserRejects, Reject, Answered,
              monero_reset_tx, Live
<1>6. CASE NextTransaction
  BY <1>1, <1>2, <1>6 DEF NextTransaction, Finished, vars, txState, Live
<1>7. CASE UserAccepts
  <2>1. /\ plan' = plan /\ pc' = pc /\ UNCHANGED <<keccakH, mlsagH, tx_in_progress, tx_sig_mode>>
        /\ Sealed' <=> Sealed
    BY <1>7 DEF UserAccepts, host, Accept, hashes, Sealed
  <2> QED BY <2>1, HashWaits DEF Live, Real
<1>8. CASE PlugIn \/ Rest \/ UNCHANGED hostVars
  <2>1. UNCHANGED <<txState, host>>
    BY <1>8 DEF PlugIn, Boot, Rest, hostVars, vars, session
  <2>2. /\ plan' = plan /\ pc' = pc
        /\ UNCHANGED <<keccakH, mlsagH, tx_in_progress, tx_sig_mode, tx_stages>>
    BY <2>1 DEF txState, hashes, host
  <2> QED BY <2>2, HashWaits DEF Live, Real, Sealed
<1> QED BY <1>4, <1>5, <1>6, <1>7, <1>8 DEF HostNext

\* What the device has of the hash is at all times that of the plan.
LEMMA HashedAlways == HostSpec => []HashedSoFar
<1>1. HostInit => HashedSoFar
  BY DEF HostInit, Init, HashedSoFar, Live
<1>2. HashedSoFar /\ HostInv /\ Known /\ [HostNext]_hostVars => HashedSoFar'
  BY HashedStep
<1> QED BY <1>1, <1>2, HostAlways, PTL DEF HostSpec

\* Sealed, it is all of it.
LEMMA WholeBody ==
  ASSUME plan \in Plans, NEW body, Hashed(body, Seal)
  PROVE  IsPlannedBody(body)
<1>0. PICK p \in Nat, n \in Nat : p = plan.pseudo /\ n = OutCount
  BY HashPlaces
<1>1. /\ FeeAt \in Nat /\ Reviews = FeeAt + 1 + p /\ Sums = Reviews + n /\ Seal = Sums + n
  BY <1>0, HashPlaces
<1>2. Len(body) = 1 + p + n + n
  BY <1>1 DEF Hashed
<1>3. ASSUME NEW k \in 1..1 + p + n + n
      PROVE  body[k] = ItemAt(FeeAt - 1 + k)
  BY <1>2 DEF Hashed
<1>4. body[1] = Fee(plan.fee)
  <2>1. FeeAt - 1 + 1 = FeeAt /\ 1 \in 1..1 + p + n + n
    BY <1>1
  <2> QED BY <1>3, <2>1 DEF ItemAt
<1>5. ASSUME NEW i \in 1..p
      PROVE  body[1 + i] = PseudoOut
  <2>1. /\ 1 + i \in 1..1 + p + n + n /\ FeeAt - 1 + (1 + i) # FeeAt
        /\ FeeAt - 1 + (1 + i) < Reviews
    BY <1>1
  <2> QED BY <1>3, <2>1 DEF ItemAt
<1>6. ASSUME NEW i \in 1..n
      PROVE  /\ body[1 + p + i] = EcdhInfo(PlannedCommit(i))
             /\ body[1 + p + n + i] = OutPk(PlannedCommit(i))
  <2>1. body[1 + p + i] = EcdhInfo(PlannedCommit(i))
    <3> DEFINE at == FeeAt - 1 + (1 + p + i)
    <3>1. /\ 1 + p + i \in 1..1 + p + n + n /\ at # FeeAt /\ ~(at < Reviews) /\ at < Sums
          /\ at - Reviews + 1 = i
      BY <1>1
    <3>2. body[1 + p + i] = ItemAt(at)
      BY <1>3, <3>1
    <3> HIDE DEF at
    <3> QED BY <3>1, <3>2 DEF ItemAt
  <2>2. body[1 + p + n + i] = OutPk(PlannedCommit(i))
    <3> DEFINE at == FeeAt - 1 + (1 + p + n + i)
    <3>1. /\ 1 + p + n + i \in 1..1 + p + n + n /\ at # FeeAt /\ ~(at < Reviews)
          /\ ~(at < Sums) /\ at - Sums + 1 = i
      BY <1>1
    <3>2. body[1 + p + n + i] = ItemAt(at)
      BY <1>3, <3>1
    <3> HIDE DEF at
    <3> QED BY <3>1, <3>2 DEF ItemAt
  <2> QED BY <2>1, <2>2
<1> QED BY <1>0, <1>2, <1>4, <1>5, <1>6 DEF IsPlannedBody, OutCount

\* monero_prehash.c and tests/test_sig_real_simple.py: under a wallet that makes its
\* transaction in the order of the test client, whatever the user and the plug do, what
\* gets signed is what the wallet planned, all of it and nothing else.
THEOREM PlanIsSigned == HostSpec => []SignedIsPlan
<1>1. ASSUME HostInv, Known, AllDerived, HashedSoFar
      PROVE  SignedIsPlan
  <2> SUFFICES ASSUME Sealed
               PROVE  SignedIsPlan
    BY DEF SignedIsPlan, Sealed
  <2> DEFINE prefix == mlsagH[1].message
             n      == Len(plan.outs)
  <2>1. plan \in Plans /\ PlaceInv /\ ReviewInv /\ Grounds
    BY <1>1 DEF Known, PlaceInv
  <2>2. /\ Live /\ Closed /\ DerivedInv /\ OutputsInv /\ SealedInv /\ AskedInv
    BY <2>1, SealedIsShown
  <2>3. n = OutCount /\ n \in Nat /\ Len(OUTK) = n /\ Told.out = PlannedItems.out
    BY <1>1, <2>1, <2>2, ClosedToldAll DEF AllDerived, OutCount
  <2>4. Underway /\ ~Building /\ ToldSoFar /\ Fixed
    BY <1>1, <2>2 DEF HostInv, Underway, AskedInv, Building, Fixed, Signing, Live
  <2>5. tx_payment_id = plan.pid
    <3>1. Keys \in Nat /\ Stream \in Nat /\ Keys < Stream
      BY <2>1, PlaceOrder
    <3>2. End \in Nat /\ pc \in 3..End /\ ~(pc <= Stream)
      BY <1>1, <2>1, <2>2, <2>4, ProgramIs DEF HostInv, Live, Underway
    <3>3. ~(pc < Keys)
      BY <3>1, <3>2
    <3> QED BY <2>4, <3>3 DEF Underway
  <2>6. Told.timelock = PlannedItems.timelock
    BY <2>4 DEF ToldSoFar
  <2>7. ASSUME NEW i \in 1..n
        PROVE  OUTK[i] = DeviceOutput(i)
    <3>1. i \in DOMAIN plan.outs
      BY <2>1, <2>3, ItemPlanned
    <3>2. Told.out[i].out = DeviceOutput(i)
      BY <2>3, <3>1 DEF PlannedItems
    <3>3. Outputs(Told.out, OUTK)
      BY <2>2 DEF OutputsInv
    <3> QED BY <2>3, <3>2, <3>3 DEF Outputs
  <2>8. OUT_EPH = [i \in DOMAIN plan.outs |-> Key(DeviceOutput(i))]
    <3>1. OUT_EPH \in Seq(EphKey) /\ KeysOf(OUT_EPH, OUTK)
      BY <2>2, <2>4 DEF DerivedInv, Derived
    <3>2. Len(OUT_EPH) = n /\ \A i \in 1..n : OUT_EPH[i] = Key(OUTK[i])
      BY <2>3, <3>1 DEF KeysOf
    <3>3. OUT_EPH = [i \in 1..Len(OUT_EPH) |-> OUT_EPH[i]]
      BY <3>1
    <3>4. DOMAIN plan.outs = 1..n
      BY <2>1, PlanIs DEF Planned
    <3> QED BY <2>7, <3>2, <3>3, <3>4
  <2>9. /\ Carries(prefix, EndOf(prefix), OUT_EPH)
        /\ prefix[EndOf(prefix)].nonce = tx_payment_id
        /\ prefix[1].lock <=> Told.timelock # <<>>
    BY <2>2 DEF SealedInv, Headed, Parsed
  <2>10. prefix[1].lock <=> plan.lock
    BY <2>6, <2>9 DEF PlannedItems
  <2>11. IsPlannedBody(mlsagH[1].body)
    BY <1>1, <2>1, <2>2, WholeBody DEF HashedSoFar
  <2> QED BY <2>5, <2>8, <2>9, <2>10, <2>11 DEF SignedIsPlan, prefix
<1> QED BY <1>1, HostAlways, AllDerivedAlways, HashedAlways, PTL

=============================================================================
