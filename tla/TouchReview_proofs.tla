--------------------------- MODULE TouchReview_proofs ---------------------------
(***************************************************************************)
(* What is proved about TouchReview, for every network, all texts and      *)
(* accounts, any number of outputs and any size of the tables: rows never  *)
(* run past their tables, no one signs unwarned off the main network, and  *)
(* ReviewPromise is implemented, up to the account of a change.            *)
(***************************************************************************)
EXTENDS TouchReview, SequenceTheorems, TLAPS

-----------------------------------------------------------------------------
(* Sequences of rows. *)

\* A sequence is a prefix of one that agrees with it as far as it goes.
LEMMA Agreement ==
  ASSUME NEW S, NEW s \in Seq(S), NEW t \in Seq(S),
         Len(s) <= Len(t), \A i \in 1..Len(s) : s[i] = t[i]
  PROVE  SubSeq(s, 1, Len(s)) = SubSeq(t, 1, Len(s))
<1> DEFINE n == Len(s)
<1>1. n \in Nat /\ Len(t) \in Nat
  BY LenProperties
<1>2. \A i \in 1..n : s[i] \in S /\ t[i] \in S
  <2> TAKE i \in 1..n
  <2>1. i \in 1..Len(t)
    BY <1>1
  <2> QED BY <2>1, ElementOfSeq
<1>3. /\ SubSeq(s, 1, n) \in Seq(S) /\ Len(SubSeq(s, 1, n)) = n
      /\ \A i \in 1..n : SubSeq(s, 1, n)[i] = s[i]
  BY <1>1, SubSeqFull
<1>4. /\ SubSeq(t, 1, n) \in Seq(S) /\ Len(SubSeq(t, 1, n)) = IF 1 <= n THEN n - 1 + 1 ELSE 0
      /\ \A i \in 1..(n - 1 + 1) : SubSeq(t, 1, n)[i] = t[1 + i - 1]
  BY <1>1, <1>2, SubSeqProperties
<1>5. Len(SubSeq(t, 1, n)) = n /\ \A i \in 1..n : SubSeq(t, 1, n)[i] = t[i]
  BY <1>1, <1>4
<1> QED BY <1>3, <1>4, <1>5, SeqEqual

-----------------------------------------------------------------------------
(* The screen. *)

Titles  == {"Timelock", "Fee", "Amount", "Destination"}
Changes == {ChangeTitle(major) : major \in Accounts}
Items   == Titles \cup Changes
Texts   == Amounts \cup Dests
Row     == Items \X Texts

\* What the title of a pair points to.
Pointed == Titles \cup {"&changeTitleBuf"}

\* The table of rows and the buffers they point to.
PairSet == [item : Titles \cup {"&changeTitleBuf", Blank}, value : {"amount", "dst"} \X Nat]
Context ==
  [pairs        : [0..(MAX_TAGVALUE_NUMBER - 1) -> PairSet],
   nbPairs      : 0..MAX_TAGVALUE_NUMBER,
   amountBuffer : [0..(MAX_AMOUNT_NUMBER - 1) -> Texts \cup {Blank}],
   amountNum    : 0..MAX_AMOUNT_NUMBER,
   dstBuffer    : [0..(MAX_ADDR_NUMBER - 1) -> Texts \cup {Blank}],
   addrNum      : 0..MAX_ADDR_NUMBER]

\* What is on screen, and how far the user is, in every state.  From the last
\* output to the decision a reply is owed, so the outputs that follow the last one
\* come after the approval, when there is no review on the screen.
ScreenInv ==
  /\ transactionContext \in Context
  /\ page \in 0..transactionContext.nbPairs
  /\ phase # "end" => screen = "none"
  /\ screen = "none" => page = 0
  /\ screen \in {"none", "warning", "review"}
  /\ tx_in_progress /\ phase = "end" /\ ~user_approved => io_reply_pending
  /\ screen = "review" /\ Network # "MAINNET" => warned
  /\ {tx_in_progress, user_approved} \subseteq BOOLEAN
  /\ tx_in_progress /\ user_approved => phase = "end" /\ screen = "none"
  /\ tx_in_progress /\ user_approved /\ Network # "MAINNET" => warned

-----------------------------------------------------------------------------
(* The table. *)

\* A row that has room.
LEMMA AmountAdded ==
  ASSUME NEW t \in Context, HasAmountRow(t), NEW item \in Pointed,
         NEW text \in Texts
  PROVE  /\ add_amount(t, item, text) \in Context
         /\ add_amount(t, item, text).nbPairs = t.nbPairs + 1
         /\ add_amount(t, item, text).amountNum = t.amountNum + 1
         /\ add_amount(t, item, text).addrNum = t.addrNum
         /\ add_amount(t, item, text).dstBuffer = t.dstBuffer
         /\ add_amount(t, item, text).amountBuffer = [t.amountBuffer EXCEPT ![t.amountNum] = text]
         /\ add_amount(t, item, text).pairs =
              [t.pairs EXCEPT ![t.nbPairs] = Pair(item, <<"amount", t.amountNum>>)]
<1>1. /\ t.nbPairs \in 0..(MAX_TAGVALUE_NUMBER - 1) /\ t.amountNum \in 0..(MAX_AMOUNT_NUMBER - 1)
      /\ t.nbPairs + 1 \in 0..MAX_TAGVALUE_NUMBER /\ t.amountNum + 1 \in 0..MAX_AMOUNT_NUMBER
      /\ t.amountNum \in Nat
  BY ReviewConstantsOK DEF HasAmountRow, Context
<1>2. Pair(item, <<"amount", t.amountNum>>) \in PairSet
  BY <1>1 DEF Pair, PairSet, Pointed
<1>3. add_amount(t, item, text) =
        [t EXCEPT !.amountBuffer[t.amountNum] = text,
                  !.pairs[t.nbPairs] = Pair(item, <<"amount", t.amountNum>>),
                  !.nbPairs = @ + 1, !.amountNum = @ + 1]
  BY DEF add_amount
<1>4. add_amount(t, item, text) =
           [pairs |-> [t.pairs EXCEPT ![t.nbPairs] = Pair(item, <<"amount", t.amountNum>>)],
            nbPairs |-> t.nbPairs + 1,
            amountBuffer |-> [t.amountBuffer EXCEPT ![t.amountNum] = text],
            amountNum |-> t.amountNum + 1,
            dstBuffer |-> t.dstBuffer,
            addrNum |-> t.addrNum]
  BY <1>3 DEF Context
<1>5. /\ [t.pairs EXCEPT ![t.nbPairs] = Pair(item, <<"amount", t.amountNum>>)] \in [0..(MAX_TAGVALUE_NUMBER - 1) -> PairSet]
      /\ [t.amountBuffer EXCEPT ![t.amountNum] = text] \in [0..(MAX_AMOUNT_NUMBER - 1) -> Texts \cup {Blank}]
  <2>1. /\ t.pairs \in [0..(MAX_TAGVALUE_NUMBER - 1) -> PairSet]
        /\ t.amountBuffer \in [0..(MAX_AMOUNT_NUMBER - 1) -> Texts \cup {Blank}]
    BY DEF Context
  <2> QED BY <1>1, <1>2, <2>1
<1>6. add_amount(t, item, text) \in Context
  BY <1>1, <1>4, <1>5 DEF Context
<1> QED BY <1>4, <1>6

LEMMA AddressAdded ==
  ASSUME NEW t \in Context, HasAddressRow(t), NEW text \in Texts
  PROVE  /\ add_address(t, text) \in Context
         /\ add_address(t, text).nbPairs = t.nbPairs + 1
         /\ add_address(t, text).amountNum = t.amountNum
         /\ add_address(t, text).addrNum = t.addrNum + 1
         /\ add_address(t, text).amountBuffer = t.amountBuffer
         /\ add_address(t, text).dstBuffer = [t.dstBuffer EXCEPT ![t.addrNum] = text]
         /\ add_address(t, text).pairs =
              [t.pairs EXCEPT ![t.nbPairs] = Pair("Destination", <<"dst", t.addrNum>>)]
<1>1. /\ t.nbPairs \in 0..(MAX_TAGVALUE_NUMBER - 1) /\ t.addrNum \in 0..(MAX_ADDR_NUMBER - 1)
      /\ t.nbPairs + 1 \in 0..MAX_TAGVALUE_NUMBER /\ t.addrNum + 1 \in 0..MAX_ADDR_NUMBER
      /\ t.addrNum \in Nat
  BY ReviewConstantsOK DEF HasAddressRow, Context
<1>2. Pair("Destination", <<"dst", t.addrNum>>) \in PairSet
  BY <1>1 DEF Pair, PairSet, Titles
<1>3. add_address(t, text) =
        [t EXCEPT !.dstBuffer[t.addrNum] = text,
                  !.pairs[t.nbPairs] = Pair("Destination", <<"dst", t.addrNum>>),
                  !.nbPairs = @ + 1, !.addrNum = @ + 1]
  BY DEF add_address
<1>4. add_address(t, text) =
           [pairs |-> [t.pairs EXCEPT ![t.nbPairs] = Pair("Destination", <<"dst", t.addrNum>>)],
            nbPairs |-> t.nbPairs + 1,
            amountBuffer |-> t.amountBuffer,
            amountNum |-> t.amountNum,
            dstBuffer |-> [t.dstBuffer EXCEPT ![t.addrNum] = text],
            addrNum |-> t.addrNum + 1]
  BY <1>3 DEF Context
<1>5. /\ [t.pairs EXCEPT ![t.nbPairs] = Pair("Destination", <<"dst", t.addrNum>>)] \in [0..(MAX_TAGVALUE_NUMBER - 1) -> PairSet]
      /\ [t.dstBuffer EXCEPT ![t.addrNum] = text] \in [0..(MAX_ADDR_NUMBER - 1) -> Texts \cup {Blank}]
  <2>1. /\ t.pairs \in [0..(MAX_TAGVALUE_NUMBER - 1) -> PairSet]
        /\ t.dstBuffer \in [0..(MAX_ADDR_NUMBER - 1) -> Texts \cup {Blank}]
    BY DEF Context
  <2> QED BY <1>1, <1>2, <2>1
<1>6. add_address(t, text) \in Context
  BY <1>1, <1>4, <1>5 DEF Context
<1> QED BY <1>4, <1>6

\* A row is added or the table stays as it is.
LEMMA AmountKeepsContext ==
  ASSUME NEW t \in Context, NEW item \in Pointed, NEW text \in Texts
  PROVE  add_amount(t, item, text) \in Context /\ t.nbPairs <= add_amount(t, item, text).nbPairs
<1>1. t.nbPairs \in Nat
  BY ReviewConstantsOK DEF Context
<1>2. CASE HasAmountRow(t)
  <2>1. add_amount(t, item, text) \in Context /\ add_amount(t, item, text).nbPairs = t.nbPairs + 1
    BY <1>2, AmountAdded
  <2> QED BY <1>1, <2>1
<1>3. CASE ~HasAmountRow(t)
  BY <1>1, <1>3 DEF add_amount
<1> QED BY <1>2, <1>3

LEMMA AddressKeepsContext ==
  ASSUME NEW t \in Context, NEW text \in Texts
  PROVE  add_address(t, text) \in Context /\ t.nbPairs <= add_address(t, text).nbPairs
<1>1. t.nbPairs \in Nat
  BY ReviewConstantsOK DEF Context
<1>2. CASE HasAddressRow(t)
  <2>1. add_address(t, text) \in Context /\ add_address(t, text).nbPairs = t.nbPairs + 1
    BY <1>2, AddressAdded
  <2> QED BY <1>1, <2>1
<1>3. CASE ~HasAddressRow(t)
  BY <1>1, <1>3 DEF add_address
<1> QED BY <1>2, <1>3

LEMMA ResetKeepsContext ==
  ASSUME NEW t \in Context
  PROVE  /\ reset_context(t) \in Context
         /\ reset_context(t).nbPairs = 0 /\ reset_context(t).amountNum = 0
         /\ reset_context(t).addrNum = 0
<1>1. 0 \in 0..MAX_TAGVALUE_NUMBER /\ 0 \in 0..MAX_AMOUNT_NUMBER /\ 0 \in 0..MAX_ADDR_NUMBER
  BY ReviewConstantsOK
<1> QED BY <1>1 DEF reset_context, Context

-----------------------------------------------------------------------------
(* The screen. *)

\* The commands before the outputs.
LEMMA EarlySteps ==
  ASSUME ScreenInv,
         \/ \E lock \in Amounts : Timelock(lock)
         \/ NoTimelock
         \/ \E amt \in Amounts : Fee(amt)
  PROVE  ScreenInv'
<1>1. /\ transactionContext \in Context /\ phase # "end" /\ phase' # "end"
      /\ screen = "none" /\ page = 0
      /\ UNCHANGED <<tx_in_progress, user_approved, screen, page, warned>>
  BY DEF ScreenInv, Timelock, NoTimelock, Fee, Turn, display, history
<1>2. reset_context(transactionContext) \in Context
  BY <1>1, ResetKeepsContext
<1>3. transactionContext' \in Context
  <2>1. ASSUME NEW lock \in Amounts, Timelock(lock) PROVE transactionContext' \in Context
    <3>1. "Timelock" \in Pointed /\ lock \in Texts
      BY DEF Pointed, Titles, Texts
    <3> QED BY <1>2, <2>1, <3>1, AmountKeepsContext DEF Timelock
  <2>2. ASSUME NEW amt \in Amounts, Fee(amt) PROVE transactionContext' \in Context
    <3>1. "Fee" \in Pointed /\ amt \in Texts
      BY DEF Pointed, Titles, Texts
    <3> QED BY <1>1, <2>2, <3>1, AmountKeepsContext DEF Fee
  <2> QED BY <1>2, <2>1, <2>2 DEF NoTimelock
<1>4. page' \in 0..transactionContext'.nbPairs
  BY <1>1, <1>3 DEF Context
<1> QED BY <1>1, <1>3, <1>4 DEF ScreenInv

\* An output: what it does to the table, and to the screen.
LEMMA OutputFrame ==
  ASSUME ScreenInv, NEW last \in BOOLEAN, NEW fits \in BOOLEAN,
         NextOutput(last), Shown(fits, last), transactionContext' \in Context
  PROVE  /\ ScreenInv'
         /\ tx_in_progress /\ phase' \in {"outs", "end"}
         /\ IF user_approved THEN phase = "end" /\ phase' = "end" ELSE phase = "outs"
         /\ tx_in_progress' = fits /\ user_approved' = (fits /\ user_approved)
         /\ page = 0 /\ page' = 0
         /\ UNCHANGED <<read, warned>>
<1>1. /\ tx_in_progress /\ ~io_reply_pending
      /\ \/ phase = "outs" /\ phase' = (IF last THEN "end" ELSE "outs")
         \/ phase = "end" /\ phase' = "end" /\ ~last
  BY DEF NextOutput, Turn
<1>2. /\ screen = "none" /\ page = 0
      /\ IF user_approved THEN phase = "end" /\ phase' = "end" /\ ~last ELSE phase = "outs"
  BY <1>1 DEF ScreenInv
<1>3. /\ tx_in_progress' = fits /\ user_approved' = (fits /\ user_approved)
      /\ UNCHANGED <<read, warned>>
  BY DEF Shown
<1>4. user_approved' \in BOOLEAN /\ tx_in_progress' \in BOOLEAN
  BY <1>3
<1>5. /\ page' = 0 /\ screen' \in {"none", "warning", "review"}
      /\ screen' = "review" => Network = "MAINNET"
      /\ phase' # "end" \/ user_approved => screen' = "none"
  <2>1. CASE last
    BY <2>1, <1>1, <1>2 DEF Shown, StartSignature
  <2>2. CASE ~last
    BY <2>2, <1>1, <1>2 DEF Shown
  <2> QED BY <2>1, <2>2
<1>6. page' \in 0..transactionContext'.nbPairs
  BY <1>5 DEF Context
<1>7. tx_in_progress' /\ phase' = "end" /\ ~user_approved' => io_reply_pending'
  <2>1. CASE last
    BY <2>1, <1>3 DEF Shown
  <2>2. CASE ~last
    BY <2>2, <1>1, <1>2, <1>3
  <2> QED BY <2>1, <2>2
<1>8. /\ tx_in_progress' /\ user_approved' => phase' = "end" /\ screen' = "none"
      /\ tx_in_progress' /\ user_approved' /\ Network # "MAINNET" => warned'
  BY <1>1, <1>2, <1>3, <1>5 DEF ScreenInv
<1>9. ScreenInv'
  BY <1>3, <1>4, <1>5, <1>6, <1>7, <1>8 DEF ScreenInv
<1> QED BY <1>1, <1>2, <1>3, <1>5, <1>9

LEMMA OutputSteps ==
  ASSUME ScreenInv,
         \/ \E amt \in Amounts, to \in Dests, last \in BOOLEAN : Destination(amt, to, last)
         \/ \E amt \in Amounts, major \in Accounts, last \in BOOLEAN : Change(amt, major, last)
  PROVE  ScreenInv'
<1>1. transactionContext \in Context
  BY DEF ScreenInv
<1>2. ASSUME NEW amt \in Amounts, NEW to \in Dests, NEW last \in BOOLEAN,
             Destination(amt, to, last)
      PROVE  ScreenInv'
  <2> DEFINE withAmount == add_amount(transactionContext, "Amount", amt)
             fits == HasAmountRow(transactionContext) /\ HasAddressRow(withAmount)
  <2>1. "Amount" \in Pointed /\ amt \in Texts /\ to \in Texts
    BY DEF Pointed, Titles, Texts
  <2>2. withAmount \in Context
    BY <1>1, <2>1, AmountKeepsContext
  <2>3. NextOutput(last) /\ Shown(fits, last) /\ transactionContext' = add_address(withAmount, to)
    BY <1>2 DEF Destination
  <2>4. fits \in BOOLEAN
    BY DEF HasAmountRow, HasAddressRow
  <2> HIDE DEF withAmount, fits
  <2>5. transactionContext' \in Context
    BY <2>1, <2>2, <2>3, AddressKeepsContext
  <2> QED BY <2>3, <2>4, <2>5, OutputFrame
<1>3. ASSUME NEW amt \in Amounts, NEW major \in Accounts, NEW last \in BOOLEAN,
             Change(amt, major, last)
      PROVE  ScreenInv'
  <2> DEFINE fits == HasAmountRow(transactionContext)
  <2>1. "&changeTitleBuf" \in Pointed /\ amt \in Texts
    BY DEF Pointed, Titles, Texts
  <2>2. /\ NextOutput(last) /\ Shown(fits, last)
        /\ transactionContext' = add_amount(transactionContext, "&changeTitleBuf", amt)
    BY <1>3 DEF Change
  <2>3. fits \in BOOLEAN
    BY DEF HasAmountRow
  <2>4. transactionContext' \in Context
    BY <1>1, <2>1, <2>2, AmountKeepsContext
  <2> HIDE DEF fits
  <2> QED BY <2>2, <2>3, <2>4, OutputFrame
<1> QED BY <1>2, <1>3

\* The user, and a transaction that begins.
LEMMA UserSteps ==
  ASSUME ScreenInv, OpenTx \/ PassWarning \/ TurnPage \/ Accept \/ Reject
  PROVE  ScreenInv'
<1>0. transactionContext \in Context /\ transactionContext.nbPairs \in Nat /\ page \in Nat
  BY ReviewConstantsOK DEF ScreenInv, Context
<1>1. CASE OpenTx
  <2>1. /\ phase' # "end" /\ screen' = "none" /\ page' = 0 /\ user_approved' = FALSE
        /\ tx_in_progress' = TRUE /\ UNCHANGED transactionContext
    BY <1>1 DEF OpenTx, texts
  <2>2. page' \in 0..transactionContext'.nbPairs
    BY <1>0, <2>1
  <2> QED BY <2>1, <2>2 DEF ScreenInv
<1>2. CASE PassWarning
  BY <1>2 DEF PassWarning, ScreenInv, host, texts
<1>3. CASE TurnPage
  <2>1. /\ screen = "review" /\ page < transactionContext.nbPairs /\ page' = page + 1
        /\ UNCHANGED <<phase, tx_in_progress, user_approved, io_reply_pending,
                       transactionContext, screen, warned>>
    BY <1>3 DEF TurnPage, host, texts
  <2>2. page' \in 0..transactionContext'.nbPairs
    BY <1>0, <2>1
  <2>3. phase = "end"
    BY <2>1 DEF ScreenInv
  <2> QED BY <2>1, <2>2, <2>3 DEF ScreenInv
<1>4. CASE Accept
  <2>1. /\ screen = "review" /\ screen' = "none" /\ page' = 0 /\ user_approved' = TRUE
        /\ transactionContext' = reset_context(transactionContext)
        /\ UNCHANGED <<phase, tx_in_progress, warned>>
    BY <1>4 DEF Accept, history
  <2>2. transactionContext' \in Context /\ page' \in 0..transactionContext'.nbPairs
    BY <1>0, <2>1, ResetKeepsContext
  <2>3. phase = "end" /\ (Network # "MAINNET" => warned)
    BY <2>1 DEF ScreenInv
  <2> QED BY <2>1, <2>2, <2>3 DEF ScreenInv
<1>5. CASE Reject
  <2>1. /\ screen' = "none" /\ page' = 0 /\ user_approved' = FALSE /\ tx_in_progress' = FALSE
        /\ UNCHANGED <<phase, transactionContext>>
    BY <1>5 DEF Reject, texts
  <2>2. page' \in 0..transactionContext'.nbPairs
    BY <1>0, <2>1
  <2> QED BY <2>1, <2>2 DEF ScreenInv
<1> QED BY <1>1, <1>2, <1>3, <1>4, <1>5

THEOREM TouchScreenIsSound == Spec => []ScreenInv
<1>1. Init => ScreenInv
  <2> SUFFICES ASSUME Init PROVE ScreenInv
    OBVIOUS
  <2>1. transactionContext \in Context /\ transactionContext.nbPairs = 0
    <3>1. Pair(Blank, <<"amount", 0>>) \in PairSet
      BY DEF Pair, PairSet
    <3>2. 0 \in 0..MAX_TAGVALUE_NUMBER /\ 0 \in 0..MAX_AMOUNT_NUMBER /\ 0 \in 0..MAX_ADDR_NUMBER
      BY ReviewConstantsOK
    <3> QED BY <3>1, <3>2 DEF Init, Context
  <2>2. page \in 0..transactionContext.nbPairs
    BY <2>1 DEF Init
  <2> QED BY <2>1, <2>2 DEF Init, ScreenInv
<1>2. ScreenInv /\ [Next]_vars => ScreenInv'
  <2> SUFFICES ASSUME ScreenInv, [Next]_vars
               PROVE  ScreenInv'
    OBVIOUS
  <2>1. CASE UNCHANGED vars
    BY <2>1 DEF vars, host, texts, display, history, ScreenInv
  <2> QED BY <2>1, EarlySteps, OutputSteps, UserSteps DEF Next
<1> QED BY <1>1, <1>2, PTL DEF Spec

\* monero_ux_nbgl.c:106-149: no count runs past its array, whatever was queued,
\* refused or left over.
THEOREM RowsAlwaysFit == Spec => []RowsFit
<1>1. ScreenInv => RowsFit
  BY DEF ScreenInv, RowsFit, Context
<1> QED BY <1>1, TouchScreenIsSound, PTL

\* monero_ux_nbgl.c:178-206: the approval is given past the warning only.
THEOREM ApprovalIsWarned == Spec => []ApprovedAfterWarning
<1>1. ScreenInv => ApprovedAfterWarning
  BY DEF ScreenInv, ApprovedAfterWarning
<1> QED BY <1>1, TouchScreenIsSound, PTL

-----------------------------------------------------------------------------
(* What the table holds. *)

\* A title as it was told, and the item it was queued as; buf is the title of
\* the change.
Titled(item, title, buf) ==
  IF item = "&changeTitleBuf" THEN title \in Changes /\ buf \in Changes
                              ELSE title = item /\ title \in Titles

\* Pair k, through its buffer, is the row that was told; no two rows share one.
RowFits(t, k, row, buf) ==
  \/ \E j \in 0..(t.amountNum - 1), item \in Pointed :
       /\ t.pairs[k] = Pair(item, <<"amount", j>>)
       /\ t.amountBuffer[j] = row[2] /\ Titled(item, row[1], buf)
  \/ \E j \in 0..(t.addrNum - 1) :
       /\ t.pairs[k] = Pair("Destination", <<"dst", j>>)
       /\ t.dstBuffer[j] = row[2] /\ row[1] = "Destination"

Queued(t, rows, buf) ==
  /\ Len(rows) = t.nbPairs
  /\ \A k \in 0..(t.nbPairs - 1) : RowFits(t, k, rows[k + 1], buf)

LEMMA QueuedAmount ==
  ASSUME NEW t \in Context, HasAmountRow(t), NEW rows \in Seq(Row), NEW buf, NEW buf2,
         Queued(t, rows, buf), buf \in Changes => buf2 \in Changes,
         NEW item \in Pointed, NEW title \in Items, NEW text \in Texts,
         Titled(item, title, buf2)
  PROVE  Queued(add_amount(t, item, text), Append(rows, <<title, text>>), buf2)
<1> DEFINE n == add_amount(t, item, text)
           told2 == Append(rows, <<title, text>>)
<1>1. /\ n.nbPairs = t.nbPairs + 1 /\ n.amountNum = t.amountNum + 1 /\ n.addrNum = t.addrNum
      /\ n.dstBuffer = t.dstBuffer
      /\ n.amountBuffer = [t.amountBuffer EXCEPT ![t.amountNum] = text]
      /\ n.pairs = [t.pairs EXCEPT ![t.nbPairs] = Pair(item, <<"amount", t.amountNum>>)]
  BY AmountAdded
<1>2. /\ t.nbPairs \in 0..(MAX_TAGVALUE_NUMBER - 1) /\ t.amountNum \in 0..(MAX_AMOUNT_NUMBER - 1)
      /\ t.nbPairs \in Nat /\ t.amountNum \in Nat /\ t.addrNum \in Nat
      /\ DOMAIN t.pairs = 0..(MAX_TAGVALUE_NUMBER - 1)
      /\ DOMAIN t.amountBuffer = 0..(MAX_AMOUNT_NUMBER - 1)
  BY ReviewConstantsOK DEF HasAmountRow, Context
<1>3. <<title, text>> \in Row
  BY DEF Row
<1>4. /\ Len(told2) = Len(rows) + 1 /\ \A i \in 1..Len(rows) : told2[i] = rows[i]
      /\ told2[Len(rows) + 1] = <<title, text>>
  BY <1>3, AppendProperties
<1>5. Len(rows) = t.nbPairs
  BY DEF Queued
<1> HIDE DEF n, told2
<1>6. RowFits(n, t.nbPairs, told2[t.nbPairs + 1], buf2)
  <2>1. t.amountNum \in 0..(n.amountNum - 1)
    BY <1>1, <1>2
  <2>2. n.pairs[t.nbPairs] = Pair(item, <<"amount", t.amountNum>>)
    BY <1>1, <1>2
  <2>3. n.amountBuffer[t.amountNum] = text
    BY <1>1, <1>2
  <2>4. told2[t.nbPairs + 1][1] = title /\ told2[t.nbPairs + 1][2] = text
    BY <1>4, <1>5
  <2>5. Titled(item, told2[t.nbPairs + 1][1], buf2)
    BY <2>4
  <2> QED BY <2>1, <2>2, <2>3, <2>4, <2>5 DEF RowFits
<1>7. ASSUME NEW k \in 0..(t.nbPairs - 1)
      PROVE  RowFits(n, k, told2[k + 1], buf2)
  <2>1. k # t.nbPairs /\ k + 1 \in 1..Len(rows) /\ k \in 0..(MAX_TAGVALUE_NUMBER - 1)
    <3>1. k \in Nat /\ k < t.nbPairs
      BY <1>2
    <3>2. MAX_TAGVALUE_NUMBER \in Nat /\ t.nbPairs < MAX_TAGVALUE_NUMBER
      BY <1>2, ReviewConstantsOK
    <3> QED BY <1>2, <1>5, <3>1, <3>2
  <2>2. told2[k + 1] = rows[k + 1] /\ n.pairs[k] = t.pairs[k]
    BY <1>1, <1>2, <1>4, <2>1
  <2>3. RowFits(t, k, rows[k + 1], buf)
    BY <1>7 DEF Queued
  <2>4. ASSUME NEW j \in 0..(t.amountNum - 1), NEW it \in Pointed,
               t.pairs[k] = Pair(it, <<"amount", j>>),
               t.amountBuffer[j] = rows[k + 1][2], Titled(it, rows[k + 1][1], buf)
        PROVE  RowFits(n, k, told2[k + 1], buf2)
    <3>1. j \in 0..(n.amountNum - 1) /\ j # t.amountNum
      BY <1>1, <1>2
    <3>2. n.amountBuffer[j] = t.amountBuffer[j]
      BY <1>1, <1>2, <3>1
    <3>3. Titled(it, rows[k + 1][1], buf2)
      BY <2>4 DEF Titled
    <3> QED BY <2>2, <2>4, <3>1, <3>2, <3>3 DEF RowFits
  <2>5. ASSUME NEW j \in 0..(t.addrNum - 1),
               t.pairs[k] = Pair("Destination", <<"dst", j>>),
               t.dstBuffer[j] = rows[k + 1][2], rows[k + 1][1] = "Destination"
        PROVE  RowFits(n, k, told2[k + 1], buf2)
    BY <1>1, <2>2, <2>5 DEF RowFits
  <2> QED BY <2>3, <2>4, <2>5 DEF RowFits
<1>8. \A k \in 0..(n.nbPairs - 1) : k = t.nbPairs \/ k \in 0..(t.nbPairs - 1)
  BY <1>1, <1>2
<1>9. Len(told2) = n.nbPairs
  BY <1>1, <1>4, <1>5
<1>10. Queued(n, told2, buf2)
  BY <1>6, <1>7, <1>8, <1>9 DEF Queued
<1> QED BY <1>10 DEF n, told2

LEMMA QueuedAddress ==
  ASSUME NEW t \in Context, HasAddressRow(t), NEW rows \in Seq(Row), NEW buf,
         Queued(t, rows, buf), NEW text \in Texts
  PROVE  Queued(add_address(t, text), Append(rows, <<"Destination", text>>), buf)
<1> DEFINE n == add_address(t, text)
           told2 == Append(rows, <<"Destination", text>>)
<1>1. /\ n.nbPairs = t.nbPairs + 1 /\ n.amountNum = t.amountNum /\ n.addrNum = t.addrNum + 1
      /\ n.amountBuffer = t.amountBuffer
      /\ n.dstBuffer = [t.dstBuffer EXCEPT ![t.addrNum] = text]
      /\ n.pairs = [t.pairs EXCEPT ![t.nbPairs] = Pair("Destination", <<"dst", t.addrNum>>)]
  BY AddressAdded
<1>2. /\ t.nbPairs \in 0..(MAX_TAGVALUE_NUMBER - 1) /\ t.addrNum \in 0..(MAX_ADDR_NUMBER - 1)
      /\ t.nbPairs \in Nat /\ t.addrNum \in Nat /\ t.amountNum \in Nat
      /\ DOMAIN t.pairs = 0..(MAX_TAGVALUE_NUMBER - 1)
      /\ DOMAIN t.dstBuffer = 0..(MAX_ADDR_NUMBER - 1)
  BY ReviewConstantsOK DEF HasAddressRow, Context
<1>3. <<"Destination", text>> \in Row
  BY DEF Row, Items, Titles
<1>4. /\ Len(told2) = Len(rows) + 1 /\ \A i \in 1..Len(rows) : told2[i] = rows[i]
      /\ told2[Len(rows) + 1] = <<"Destination", text>>
  BY <1>3, AppendProperties
<1>5. Len(rows) = t.nbPairs
  BY DEF Queued
<1> HIDE DEF n, told2
<1>6. RowFits(n, t.nbPairs, told2[t.nbPairs + 1], buf)
  <2>1. t.addrNum \in 0..(n.addrNum - 1)
    BY <1>1, <1>2
  <2>2. n.pairs[t.nbPairs] = Pair("Destination", <<"dst", t.addrNum>>)
    BY <1>1, <1>2
  <2>3. n.dstBuffer[t.addrNum] = text
    BY <1>1, <1>2
  <2>4. told2[t.nbPairs + 1][1] = "Destination" /\ told2[t.nbPairs + 1][2] = text
    BY <1>4, <1>5
  <2> QED BY <2>1, <2>2, <2>3, <2>4 DEF RowFits
<1>7. ASSUME NEW k \in 0..(t.nbPairs - 1)
      PROVE  RowFits(n, k, told2[k + 1], buf)
  <2>1. k # t.nbPairs /\ k + 1 \in 1..Len(rows) /\ k \in 0..(MAX_TAGVALUE_NUMBER - 1)
    <3>1. k \in Nat /\ k < t.nbPairs
      BY <1>2
    <3>2. MAX_TAGVALUE_NUMBER \in Nat /\ t.nbPairs < MAX_TAGVALUE_NUMBER
      BY <1>2, ReviewConstantsOK
    <3> QED BY <1>2, <1>5, <3>1, <3>2
  <2>2. told2[k + 1] = rows[k + 1] /\ n.pairs[k] = t.pairs[k]
    BY <1>1, <1>2, <1>4, <2>1
  <2>3. RowFits(t, k, rows[k + 1], buf)
    BY <1>7 DEF Queued
  <2>4. ASSUME NEW j \in 0..(t.addrNum - 1),
               t.pairs[k] = Pair("Destination", <<"dst", j>>),
               t.dstBuffer[j] = rows[k + 1][2], rows[k + 1][1] = "Destination"
        PROVE  RowFits(n, k, told2[k + 1], buf)
    <3>1. j \in 0..(n.addrNum - 1) /\ j # t.addrNum
      BY <1>1, <1>2
    <3>2. n.dstBuffer[j] = t.dstBuffer[j]
      BY <1>1, <1>2, <3>1
    <3> QED BY <2>2, <2>4, <3>1, <3>2 DEF RowFits
  <2>5. ASSUME NEW j \in 0..(t.amountNum - 1), NEW it \in Pointed,
               t.pairs[k] = Pair(it, <<"amount", j>>),
               t.amountBuffer[j] = rows[k + 1][2], Titled(it, rows[k + 1][1], buf)
        PROVE  RowFits(n, k, told2[k + 1], buf)
    BY <1>1, <2>2, <2>5 DEF RowFits
  <2> QED BY <2>3, <2>4, <2>5 DEF RowFits
<1>8. \A k \in 0..(n.nbPairs - 1) : k = t.nbPairs \/ k \in 0..(t.nbPairs - 1)
  BY <1>1, <1>2
<1>9. Len(told2) = n.nbPairs
  BY <1>1, <1>4, <1>5
<1>10. Queued(n, told2, buf)
  BY <1>6, <1>7, <1>8, <1>9 DEF Queued
<1> QED BY <1>10 DEF n, told2

\* What the screen shows for a queued row is that row, but for the account.
LEMMA ShownAsTold ==
  ASSUME NEW k \in 0..(transactionContext.nbPairs - 1), NEW row \in Row,
         RowFits(transactionContext, k, row, changeTitleBuf)
  PROVE  /\ Deref(transactionContext.pairs[k]) \in Row
         /\ WithoutAccount(Deref(transactionContext.pairs[k])) = WithoutAccount(row)
<1> DEFINE p == transactionContext.pairs[k]
<1>1. row = <<row[1], row[2]>> /\ row[1] \in Items /\ row[2] \in Texts
  BY DEF Row
<1>2. ASSUME NEW j, NEW item \in Pointed,
             p = Pair(item, <<"amount", j>>),
             transactionContext.amountBuffer[j] = row[2], Titled(item, row[1], changeTitleBuf)
      PROVE  Deref(p) \in Row /\ WithoutAccount(Deref(p)) = WithoutAccount(row)
  <2>1. p.item = item /\ p.value[1] = "amount" /\ p.value[2] = j
    BY <1>2 DEF Pair
  <2>2. CASE item = "&changeTitleBuf"
    <3>1. Deref(p) = <<changeTitleBuf, row[2]>>
      BY <1>2, <2>1, <2>2 DEF Deref
    <3>2. changeTitleBuf \in Changes /\ row[1] \in Changes
      BY <1>2, <2>2 DEF Titled
    <3>3. Deref(p) \in Row
      BY <1>1, <3>1, <3>2 DEF Row, Items
    <3>4. WithoutAccount(Deref(p)) = <<"Change", row[2]>>
      BY <3>1, <3>2 DEF WithoutAccount, Changes
    <3>5. WithoutAccount(row) = <<"Change", row[2]>>
      BY <3>2 DEF WithoutAccount, Changes
    <3> QED BY <3>3, <3>4, <3>5
  <2>3. CASE item # "&changeTitleBuf"
    <3>1. row[1] = item
      BY <1>2, <2>3 DEF Titled
    <3>2. Deref(p) = <<row[1], row[2]>>
      BY <1>2, <2>1, <2>3, <3>1 DEF Deref
    <3>3. Deref(p) = row
      BY <1>1, <3>2
    <3> QED BY <3>3
  <2> QED BY <2>2, <2>3
<1>3. ASSUME NEW j, p = Pair("Destination", <<"dst", j>>),
             transactionContext.dstBuffer[j] = row[2], row[1] = "Destination"
      PROVE  Deref(p) \in Row /\ WithoutAccount(Deref(p)) = WithoutAccount(row)
  <2>1. p.item = "Destination" /\ p.value[1] = "dst" /\ p.value[2] = j
    BY <1>3 DEF Pair
  <2>2. Deref(p) = <<row[1], row[2]>>
    BY <1>3, <2>1 DEF Deref
  <2>3. Deref(p) = row
    BY <1>1, <2>2
  <2> QED BY <2>3
<1> QED BY <1>2, <1>3 DEF RowFits

-----------------------------------------------------------------------------
(* What the user has read, and the promise. *)

\* The rows of a transaction and how far they were read, up to the approval.  The
\* table starts anew with it, and the rows told after it are not read.
RowsInv ==
  tx_in_progress =>
    /\ told \in Seq(Row) /\ read \in Seq(Row)
    /\ phase = "prefix" => told = <<>> /\ read = <<>>
    /\ phase = "fee" => transactionContext.nbPairs <= 1 /\ transactionContext.amountNum <= 1
    /\ phase # "prefix" /\ ~user_approved =>
         Queued(transactionContext, told, changeTitleBuf)
    /\ ~user_approved =>
         /\ Len(read) = page /\ Len(read) <= Len(told)
         /\ \A i \in 1..Len(read) : WithoutAccount(read[i]) = WithoutAccount(told[i])

\* One step of the review's promise, or none.
Promised == [Promise!Next]_Promise!promise

\* Rows without the accounts.
Plainly == {WithoutAccount(row) : row \in Row}

LEMMA RowsPlain ==
  ASSUME NEW rows \in Seq(Row)
  PROVE  /\ Rows(rows) \in Seq(Plainly) /\ Len(Rows(rows)) = Len(rows)
         /\ \A i \in 1..Len(rows) : Rows(rows)[i] = WithoutAccount(rows[i])
<1>1. Len(rows) \in Nat /\ DOMAIN rows = 1..Len(rows)
  BY LenProperties
<1>2. ASSUME NEW i \in 1..Len(rows) PROVE WithoutAccount(rows[i]) \in Plainly
  <2>1. rows[i] \in Row
    BY ElementOfSeq
  <2> QED BY <2>1 DEF Plainly
<1>3. Rows(rows) = [i \in 1..Len(rows) |-> WithoutAccount(rows[i])]
  BY <1>1 DEF Rows
<1>4. Rows(rows) \in [1..Len(rows) -> Plainly]
  BY <1>2, <1>3
<1>5. Rows(rows) \in Seq(Plainly) /\ Len(Rows(rows)) = Len(rows)
  BY <1>1, <1>4, <1>3, SeqDef, LenProperties
<1> QED BY <1>3, <1>5

LEMMA PrefixPlain ==
  ASSUME NEW s \in Seq(Row), NEW t \in Seq(Row), Len(s) <= Len(t),
         \A i \in 1..Len(s) : WithoutAccount(s[i]) = WithoutAccount(t[i])
  PROVE  Promise!IsPrefix(Rows(s), Rows(t))
<1>1. /\ Rows(s) \in Seq(Plainly) /\ Len(Rows(s)) = Len(s)
      /\ \A i \in 1..Len(s) : Rows(s)[i] = WithoutAccount(s[i])
  BY RowsPlain
<1>2. /\ Rows(t) \in Seq(Plainly) /\ Len(Rows(t)) = Len(t)
      /\ \A i \in 1..Len(t) : Rows(t)[i] = WithoutAccount(t[i])
  BY RowsPlain
<1>3. \A i \in 1..Len(s) : i \in 1..Len(t)
  BY LenProperties
<1>4. \A i \in 1..Len(Rows(s)) : Rows(s)[i] = Rows(t)[i]
  BY <1>1, <1>2, <1>3
<1>5. SubSeq(Rows(s), 1, Len(Rows(s))) = SubSeq(Rows(t), 1, Len(Rows(s)))
  BY <1>1, <1>2, <1>4, Agreement
<1> QED BY <1>1, <1>2, <1>5 DEF Promise!IsPrefix

\* Rows that were told or read one by one.
LEMMA MoreRows ==
  ASSUME NEW s \in Seq(Row), NEW row \in Row
  PROVE  /\ Append(s, row) \in Seq(Row) /\ Len(Append(s, row)) = Len(s) + 1
         /\ \A i \in 1..Len(s) : Append(s, row)[i] = s[i]
         /\ Append(s, row)[Len(s) + 1] = row
         /\ Promise!IsPrefix(Rows(s), Rows(Append(s, row)))
         /\ Rows(Append(s, row)) # Rows(s)
<1> DEFINE t == Append(s, row)
<1>1. /\ t \in Seq(Row) /\ Len(t) = Len(s) + 1 /\ \A i \in 1..Len(s) : t[i] = s[i]
      /\ t[Len(s) + 1] = row
  BY AppendProperties
<1> HIDE DEF t
<1>2. Len(s) \in Nat
  BY LenProperties
<1>3. Len(s) <= Len(t) /\ Len(s) # Len(t)
  BY <1>1, <1>2
<1>4. Promise!IsPrefix(Rows(s), Rows(t))
  BY <1>1, <1>3, PrefixPlain
<1>5. Len(Rows(s)) = Len(s) /\ Len(Rows(t)) = Len(t)
  BY <1>1, RowsPlain
<1>6. Rows(t) # Rows(s)
  BY <1>3, <1>5
<1> QED BY <1>1, <1>4, <1>6 DEF t

\* A transaction that is over, and one that begins.
LEMMA OverIsPromised == ASSUME ~tx_in_progress' PROVE RowsInv' /\ Promised
BY DEF RowsInv, Promised, Promise!Next, Promise!End, Promise!Blank

LEMMA NoRows == Rows(<<>>) = <<>> /\ <<>> \in Seq(Row)
<1>1. <<>> \in Seq(Row)
  OBVIOUS
<1>2. Rows(<<>>) \in Seq(Plainly) /\ Len(Rows(<<>>)) = 0
  BY <1>1, RowsPlain, EmptySeq
<1> QED BY <1>1, <1>2, EmptySeq

LEMMA BegunIsPromised ==
  ASSUME tx_in_progress', told' = <<>>, read' = <<>>, phase' # "end", ~user_approved'
  PROVE  Promised
<1>1. Rows(told)' = <<>> /\ Rows(read)' = <<>>
  BY NoRows
<1> QED BY <1>1 DEF Promised, Promise!Next, Promise!Begin, Promise!Blank

\* Where nothing of this changes, the promise stands still.
LEMMA SameIsPromised ==
  ASSUME UNCHANGED <<tx_in_progress, told, read, user_approved>>,
         phase' = "end" <=> phase = "end"
  PROVE  Promised
<1>1. Rows(told)' = Rows(told) /\ Rows(read)' = Rows(read)
  BY DEF Rows
<1> QED BY <1>1 DEF Promised, Promise!promise

\* Rows are told, until the last output is or after its approval.
LEMMA ToldIsPromised ==
  ASSUME tx_in_progress,
         IF user_approved THEN phase = "end" /\ phase' = "end" ELSE phase # "end",
         UNCHANGED <<tx_in_progress, read, user_approved>>,
         Promise!IsPrefix(Rows(told), Rows(told')), Rows(told') # Rows(told)
  PROVE  Promised
<1>1. Rows(told)' = Rows(told') /\ Rows(read)' = Rows(read)
  BY DEF Rows
<1>2. CASE user_approved
  BY <1>1, <1>2 DEF Promised, Promise!Next, Promise!TellMore, Promise!More
<1>3. CASE ~user_approved
  BY <1>1, <1>3 DEF Promised, Promise!Next, Promise!Tell, Promise!More
<1> QED BY <1>2, <1>3

\* The commands before the outputs.  There is room for their rows.
LEMMA EarlyPromised ==
  ASSUME ScreenInv, RowsInv,
         \/ \E lock \in Amounts : Timelock(lock)
         \/ NoTimelock
         \/ \E amt \in Amounts : Fee(amt)
  PROVE  RowsInv' /\ Promised
<1>1. /\ tx_in_progress /\ phase # "end" /\ phase' \notin {"prefix", "end"}
      /\ ~user_approved /\ screen = "none" /\ page = 0 /\ page' = 0
      /\ UNCHANGED <<tx_in_progress, user_approved, changeTitleBuf, read>>
      /\ transactionContext \in Context
  BY DEF ScreenInv, Timelock, NoTimelock, Fee, Turn, display, history
<1>2. /\ told \in Seq(Row) /\ read = <<>> /\ Len(read) = 0
  <2>1. read \in Seq(Row) /\ Len(read) = 0 /\ told \in Seq(Row)
    BY <1>1 DEF RowsInv
  <2> QED BY <2>1, EmptySeq
<1> DEFINE blank == reset_context(transactionContext)
<1>3. blank \in Context /\ blank.nbPairs = 0 /\ blank.amountNum = 0 /\ blank.addrNum = 0
  BY <1>1, ResetKeepsContext
<1>4. Len(<<>>) = 0
  OBVIOUS
<1>5. Queued(blank, <<>>, changeTitleBuf)
  BY <1>3, <1>4 DEF Queued
<1> HIDE DEF blank
<1>6. HasAmountRow(blank)
  BY <1>3, ReviewConstantsOK DEF HasAmountRow
<1>7. ASSUME told' \in Seq(Row), Queued(transactionContext', told', changeTitleBuf'),
             phase' = "fee" =>
               transactionContext'.nbPairs <= 1 /\ transactionContext'.amountNum <= 1
      PROVE  RowsInv'
  <2>1. Len(told') \in Nat
    BY <1>7, LenProperties
  <2>2. Len(read') = page' /\ Len(read') <= Len(told') /\ \A i \in 1..Len(read') : FALSE
    BY <1>1, <1>2, <2>1
  <2>3. read' \in Seq(Row)
    BY <1>1, <1>2, NoRows
  <2> QED BY <1>1, <1>7, <2>2, <2>3 DEF RowsInv
<1>8. ASSUME NEW lock \in Amounts, Timelock(lock)
      PROVE  RowsInv' /\ Promised
  <2>1. /\ phase = "prefix" /\ transactionContext' = add_amount(blank, "Timelock", lock)
        /\ told' = <<<<"Timelock", lock>>>>
    BY <1>8 DEF Timelock, Turn, blank
  <2>2. told = <<>>
    BY <1>1, <2>1 DEF RowsInv
  <2>3. told' = Append(<<>>, <<"Timelock", lock>>) /\ <<"Timelock", lock>> \in Row
    BY <2>1 DEF Row, Items, Titles, Texts
  <2>4. /\ told' \in Seq(Row) /\ Promise!IsPrefix(Rows(told), Rows(told'))
        /\ Rows(told') # Rows(told)
    BY <2>2, <2>3, NoRows, MoreRows
  <2>5. /\ "Timelock" \in Pointed /\ "Timelock" \in Items /\ lock \in Texts
        /\ Titled("Timelock", "Timelock", changeTitleBuf)
    BY DEF Titled, Pointed, Items, Titles, Texts
  <2>6. Queued(transactionContext', told', changeTitleBuf)
    BY <1>3, <1>5, <1>6, <2>1, <2>3, <2>5, NoRows, QueuedAmount
  <2>7. changeTitleBuf' = changeTitleBuf
    BY <1>1
  <2>8. transactionContext'.nbPairs <= 1 /\ transactionContext'.amountNum <= 1
    <3>1. /\ transactionContext'.nbPairs = blank.nbPairs + 1
          /\ transactionContext'.amountNum = blank.amountNum + 1
      BY <1>3, <1>6, <2>1, <2>5, AmountAdded
    <3> QED BY <1>3, <3>1
  <2> QED BY <1>1, <1>7, <2>4, <2>6, <2>7, <2>8, ToldIsPromised
<1>9. ASSUME NoTimelock PROVE RowsInv' /\ Promised
  <2>1. /\ phase = "prefix" /\ transactionContext' = blank /\ told' = told
        /\ phase' = "end" <=> phase = "end"
    BY <1>1, <1>9 DEF NoTimelock, Turn, history, blank
  <2>2. told = <<>>
    BY <1>1, <2>1 DEF RowsInv
  <2>3. changeTitleBuf' = changeTitleBuf
    BY <1>1
  <2>4. Queued(transactionContext', told', changeTitleBuf')
    BY <1>5, <2>1, <2>2, <2>3
  <2>5. transactionContext'.nbPairs <= 1 /\ transactionContext'.amountNum <= 1
    BY <1>3, <2>1
  <2> QED BY <1>1, <1>2, <1>7, <2>1, <2>4, <2>5, SameIsPromised
<1>10. ASSUME NEW amt \in Amounts, Fee(amt)
       PROVE  RowsInv' /\ Promised
  <2>1. /\ phase = "fee" /\ transactionContext' = add_amount(transactionContext, "Fee", amt)
        /\ told' = Append(told, <<"Fee", amt>>)
    BY <1>10 DEF Fee, Turn
  <2>2. Queued(transactionContext, told, changeTitleBuf)
    BY <1>1, <2>1 DEF RowsInv
  <2>3. <<"Fee", amt>> \in Row
    BY DEF Row, Items, Titles, Texts
  <2>4. /\ told' \in Seq(Row) /\ Promise!IsPrefix(Rows(told), Rows(told'))
        /\ Rows(told') # Rows(told) /\ Len(told') = Len(told) + 1
    BY <1>2, <2>1, <2>3, MoreRows
  <2>5. /\ "Fee" \in Pointed /\ "Fee" \in Items /\ amt \in Texts
        /\ Titled("Fee", "Fee", changeTitleBuf)
    BY DEF Titled, Pointed, Items, Titles, Texts
  <2>6. changeTitleBuf' = changeTitleBuf
    BY <1>1
  <2>7. HasAmountRow(transactionContext)
    <3>1. transactionContext.nbPairs <= 1 /\ transactionContext.amountNum <= 1
      BY <1>1, <2>1 DEF RowsInv
    <3>2. transactionContext.nbPairs \in Nat /\ transactionContext.amountNum \in Nat
      BY <1>1, ReviewConstantsOK DEF Context
    <3> QED BY <3>1, <3>2, ReviewConstantsOK DEF HasAmountRow
  <2>8. Queued(transactionContext', told', changeTitleBuf)
    BY <1>1, <1>2, <2>1, <2>2, <2>5, <2>7, QueuedAmount
  <2>9. phase' # "fee"
    BY <1>10 DEF Fee, Turn
  <2> QED BY <1>1, <1>7, <2>4, <2>6, <2>8, <2>9, ToldIsPromised
<1> QED BY <1>8, <1>9, <1>10

\* An output: rows that fit are told, and one that does not ends the transaction.
LEMMA OutputRows ==
  ASSUME ScreenInv, ScreenInv', RowsInv, NEW last \in BOOLEAN, NEW fits \in BOOLEAN,
         NextOutput(last), Shown(fits, last), transactionContext' \in Context,
         fits => /\ told' \in Seq(Row)
                 /\ ~user_approved => Queued(transactionContext', told', changeTitleBuf')
                 /\ Promise!IsPrefix(Rows(told), Rows(told')) /\ Rows(told') # Rows(told)
  PROVE  RowsInv' /\ Promised
<1>1. /\ tx_in_progress /\ phase' \in {"outs", "end"}
      /\ IF user_approved THEN phase = "end" /\ phase' = "end" ELSE phase = "outs"
      /\ tx_in_progress' = fits /\ user_approved' = (fits /\ user_approved)
      /\ page = 0 /\ page' = 0
      /\ UNCHANGED <<read, warned>>
  BY OutputFrame
<1>2. CASE ~fits
  BY <1>1, <1>2, OverIsPromised
<1>3. CASE fits
  <2>1. read \in Seq(Row) /\ (~user_approved => Len(read) = 0)
    BY <1>1 DEF RowsInv
  <2>2. Len(told') \in Nat
    BY <1>3, LenProperties
  <2>3. ~user_approved =>
          Len(read') = page' /\ Len(read') <= Len(told') /\ \A i \in 1..Len(read') : FALSE
    BY <1>1, <2>1, <2>2
  <2>4. read' \in Seq(Row) /\ (user_approved' <=> user_approved)
    BY <1>1, <1>3, <2>1
  <2>5. RowsInv'
    BY <1>1, <1>3, <2>3, <2>4 DEF RowsInv
  <2>6. UNCHANGED <<tx_in_progress, read, user_approved>>
    <3>1. tx_in_progress' = tx_in_progress
      BY <1>1, <1>3 DEF ScreenInv
    <3>2. user_approved' = user_approved
      BY <1>1, <1>3 DEF ScreenInv
    <3> QED BY <1>1, <3>1, <3>2
  <2>7. Promised
    BY <1>1, <1>3, <2>6, ToldIsPromised
  <2> QED BY <2>5, <2>7
<1> QED BY <1>2, <1>3

LEMMA OutputPromised ==
  ASSUME ScreenInv, RowsInv,
         \/ \E amt \in Amounts, to \in Dests, last \in BOOLEAN : Destination(amt, to, last)
         \/ \E amt \in Amounts, major \in Accounts, last \in BOOLEAN : Change(amt, major, last)
  PROVE  RowsInv' /\ Promised
<1>1. transactionContext \in Context /\ ScreenInv'
  BY OutputSteps DEF ScreenInv
<1>2. ASSUME NEW last, NextOutput(last)
      PROVE  /\ told \in Seq(Row)
             /\ ~user_approved => Queued(transactionContext, told, changeTitleBuf)
  <2>1. tx_in_progress /\ phase # "prefix"
    BY <1>2 DEF NextOutput, Turn
  <2> QED BY <2>1 DEF RowsInv
<1>3. ASSUME NEW amt \in Amounts, NEW to \in Dests, NEW last \in BOOLEAN,
             Destination(amt, to, last)
      PROVE  RowsInv' /\ Promised
  <2> DEFINE withAmount == add_amount(transactionContext, "Amount", amt)
             toldAmount == Append(told, <<"Amount", amt>>)
             fits == HasAmountRow(transactionContext) /\ HasAddressRow(withAmount)
  <2>1. /\ NextOutput(last) /\ Shown(fits, last)
        /\ transactionContext' = add_address(withAmount, to)
        /\ told' = Append(toldAmount, <<"Destination", to>>)
        /\ changeTitleBuf' = changeTitleBuf
    BY <1>3 DEF Destination
  <2>2. /\ told \in Seq(Row)
        /\ ~user_approved => Queued(transactionContext, told, changeTitleBuf)
    BY <1>2, <2>1
  <2>3. /\ "Amount" \in Pointed /\ "Amount" \in Items /\ amt \in Texts /\ to \in Texts
        /\ Titled("Amount", "Amount", changeTitleBuf)
    BY DEF Titled, Pointed, Items, Titles, Texts
  <2>4. <<"Amount", amt>> \in Row /\ <<"Destination", to>> \in Row
    BY DEF Row, Items, Titles, Texts
  <2>5. /\ toldAmount \in Seq(Row) /\ Len(toldAmount) = Len(told) + 1
        /\ \A i \in 1..Len(told) : toldAmount[i] = told[i]
    BY <2>2, <2>4, MoreRows
  <2> HIDE DEF toldAmount
  <2>6. /\ told' \in Seq(Row) /\ Len(told') = Len(toldAmount) + 1
        /\ \A i \in 1..Len(toldAmount) : told'[i] = toldAmount[i]
    BY <2>1, <2>4, <2>5, MoreRows
  <2>7. withAmount \in Context
    BY <1>1, <2>3, AmountKeepsContext
  <2>8. transactionContext' \in Context
    BY <2>1, <2>3, <2>7, AddressKeepsContext
  <2>9. fits \in BOOLEAN
    BY DEF HasAmountRow, HasAddressRow
  <2>10. ASSUME fits
         PROVE  /\ told' \in Seq(Row)
                /\ ~user_approved => Queued(transactionContext', told', changeTitleBuf')
                /\ Promise!IsPrefix(Rows(told), Rows(told')) /\ Rows(told') # Rows(told)
    <3>1. HasAmountRow(transactionContext) /\ HasAddressRow(withAmount)
      BY <2>10
    <3>2. ~user_approved => Queued(withAmount, toldAmount, changeTitleBuf)
      BY <1>1, <2>2, <2>3, <3>1, QueuedAmount DEF toldAmount
    <3> HIDE DEF withAmount
    <3>3. ~user_approved =>
            Queued(add_address(withAmount, to), Append(toldAmount, <<"Destination", to>>),
                   changeTitleBuf)
      BY <2>3, <2>5, <2>7, <3>1, <3>2, QueuedAddress
    <3>4. Len(told) \in Nat /\ Len(told') = Len(told) + 2
      BY <2>2, <2>5, <2>6, LenProperties
    <3>5. \A i \in 1..Len(told) : i \in 1..Len(toldAmount)
      BY <2>5, <3>4
    <3>6. \A i \in 1..Len(told) : told'[i] = told[i]
      BY <2>5, <2>6, <3>5
    <3>7. Promise!IsPrefix(Rows(told), Rows(told'))
      BY <2>2, <2>6, <3>4, <3>6, PrefixPlain
    <3>8. Len(Rows(told')) # Len(Rows(told))
      BY <2>2, <2>6, <3>4, RowsPlain
    <3> QED BY <2>1, <2>6, <3>3, <3>7, <3>8
  <2> HIDE DEF fits, withAmount
  <2> QED BY <1>1, <2>1, <2>8, <2>9, <2>10, OutputRows
<1>4. ASSUME NEW amt \in Amounts, NEW major \in Accounts, NEW last \in BOOLEAN,
             Change(amt, major, last)
      PROVE  RowsInv' /\ Promised
  <2> DEFINE fits == HasAmountRow(transactionContext)
  <2>1. /\ NextOutput(last) /\ Shown(fits, last)
        /\ transactionContext' = add_amount(transactionContext, "&changeTitleBuf", amt)
        /\ told' = Append(told, <<ChangeTitle(major), amt>>)
        /\ changeTitleBuf' = ChangeTitle(major)
    BY <1>4 DEF Change
  <2>2. /\ told \in Seq(Row)
        /\ ~user_approved => Queued(transactionContext, told, changeTitleBuf)
    BY <1>2, <2>1
  <2>3. /\ "&changeTitleBuf" \in Pointed /\ amt \in Texts
        /\ ChangeTitle(major) \in Changes /\ ChangeTitle(major) \in Items
    BY DEF Pointed, Texts, Changes, Items
  <2>4. Titled("&changeTitleBuf", ChangeTitle(major), changeTitleBuf')
    BY <2>1, <2>3 DEF Titled
  <2>5. <<ChangeTitle(major), amt>> \in Row
    BY <2>3 DEF Row
  <2>6. transactionContext' \in Context
    BY <1>1, <2>1, <2>3, AmountKeepsContext
  <2>7. fits \in BOOLEAN
    BY DEF HasAmountRow
  <2>8. ASSUME fits
        PROVE  /\ told' \in Seq(Row)
               /\ ~user_approved => Queued(transactionContext', told', changeTitleBuf')
               /\ Promise!IsPrefix(Rows(told), Rows(told')) /\ Rows(told') # Rows(told)
    <3>1. changeTitleBuf' \in Changes
      BY <2>1, <2>3
    <3>2. ~user_approved => Queued(transactionContext', told', changeTitleBuf')
      BY <1>1, <2>1, <2>2, <2>3, <2>4, <2>8, <3>1, QueuedAmount
    <3> QED BY <2>1, <2>2, <2>5, <3>2, MoreRows
  <2> HIDE DEF fits
  <2> QED BY <1>1, <2>1, <2>6, <2>7, <2>8, OutputRows
<1> QED BY <1>3, <1>4

\* The user turns a page: what the screen shows is the next row that was told.
LEMMA PagePromised ==
  ASSUME ScreenInv, RowsInv, TurnPage
  PROVE  RowsInv' /\ Promised
<1> DEFINE row == Deref(transactionContext.pairs[page])
<1>1. /\ screen = "review" /\ page < transactionContext.nbPairs /\ page' = page + 1
      /\ read' = Append(read, row)
      /\ UNCHANGED <<phase, tx_in_progress, user_approved, transactionContext,
                     changeTitleBuf, told>>
  BY DEF TurnPage, host, texts
<1>2. CASE ~tx_in_progress
  BY <1>1, <1>2, OverIsPromised
<1>3. CASE tx_in_progress
  <2>1. phase = "end" /\ ~user_approved
    BY <1>1, <1>3 DEF ScreenInv
  <2>2. /\ told \in Seq(Row) /\ read \in Seq(Row) /\ Len(read) = page
        /\ Queued(transactionContext, told, changeTitleBuf)
        /\ \A i \in 1..Len(read) : WithoutAccount(read[i]) = WithoutAccount(told[i])
    BY <1>3, <2>1 DEF RowsInv
  <2>3. page \in Nat /\ transactionContext.nbPairs \in Nat
    BY ReviewConstantsOK DEF ScreenInv, Context
  <2>4. page \in 0..(transactionContext.nbPairs - 1) /\ Len(told) = transactionContext.nbPairs
    BY <1>1, <2>2, <2>3 DEF Queued
  <2>5. page + 1 \in 1..Len(told)
    BY <2>4
  <2>6. told[page + 1] \in Row
    BY <2>2, <2>5, ElementOfSeq
  <2>7. RowFits(transactionContext, page, told[page + 1], changeTitleBuf)
    BY <2>2, <2>4 DEF Queued
  <2>8. row \in Row /\ WithoutAccount(row) = WithoutAccount(told[page + 1])
    BY <2>4, <2>6, <2>7, ShownAsTold
  <2> HIDE DEF row
  <2>9. /\ read' \in Seq(Row) /\ Len(read') = page + 1
        /\ \A i \in 1..page : read'[i] = read[i]
        /\ read'[page + 1] = row
        /\ Promise!IsPrefix(Rows(read), Rows(read')) /\ Rows(read') # Rows(read)
    BY <1>1, <2>2, <2>8, MoreRows
  <2>10. \A i \in 1..Len(read') : i \in 1..page \/ i = page + 1
    BY <2>3, <2>9
  <2>11. \A i \in 1..Len(read') : WithoutAccount(read'[i]) = WithoutAccount(told[i])
    BY <2>2, <2>8, <2>9, <2>10
  <2>12. Len(read') <= Len(told)
    BY <2>3, <2>4, <2>9
  <2>13. Promise!IsPrefix(Rows(read'), Rows(told))
    BY <2>2, <2>9, <2>11, <2>12, PrefixPlain
  <2>14. Rows(read)' = Rows(read') /\ Rows(told)' = Rows(told)
    BY <1>1 DEF Rows
  <2>15. Promised
    BY <1>1, <1>3, <2>1, <2>9, <2>13, <2>14 DEF Promised, Promise!Next, Promise!Read
  <2>16. RowsInv'
    <3>1. Queued(transactionContext', told', changeTitleBuf')
      BY <1>1, <2>2
    <3>2. /\ Len(read') = page' /\ Len(read') <= Len(told')
          /\ \A i \in 1..Len(read') : WithoutAccount(read'[i]) = WithoutAccount(told'[i])
      BY <1>1, <2>9, <2>11, <2>12
    <3>3. phase' = "end" /\ ~user_approved' /\ told' \in Seq(Row)
      BY <1>1, <2>1, <2>2
    <3> QED BY <2>9, <3>1, <3>2, <3>3 DEF RowsInv
  <2> QED BY <2>15, <2>16
<1> QED BY <1>2, <1>3

\* The user approves: the last page was turned.
LEMMA AcceptPromised ==
  ASSUME ScreenInv, RowsInv, Accept
  PROVE  RowsInv' /\ Promised
<1>1. /\ screen = "review" /\ page = transactionContext.nbPairs /\ user_approved' = TRUE
      /\ UNCHANGED <<phase, tx_in_progress, told, read>>
  BY DEF Accept, history
<1>2. CASE ~tx_in_progress
  BY <1>1, <1>2, OverIsPromised
<1>3. CASE tx_in_progress
  <2>1. phase = "end" /\ ~user_approved
    BY <1>1, <1>3 DEF ScreenInv
  <2>2. /\ told \in Seq(Row) /\ read \in Seq(Row) /\ Len(read) = page
        /\ Queued(transactionContext, told, changeTitleBuf)
        /\ \A i \in 1..Len(read) : WithoutAccount(read[i]) = WithoutAccount(told[i])
    BY <1>3, <2>1 DEF RowsInv
  <2>3. Len(told) = Len(read)
    BY <1>1, <2>2 DEF Queued
  <2>4. /\ Rows(told) \in Seq(Plainly) /\ Len(Rows(told)) = Len(told)
        /\ \A i \in 1..Len(told) : Rows(told)[i] = WithoutAccount(told[i])
    BY <2>2, RowsPlain
  <2>5. /\ Rows(read) \in Seq(Plainly) /\ Len(Rows(read)) = Len(read)
        /\ \A i \in 1..Len(read) : Rows(read)[i] = WithoutAccount(read[i])
    BY <2>2, RowsPlain
  <2>6. Rows(read) = Rows(told)
    BY <2>2, <2>3, <2>4, <2>5, SeqEqual
  <2>7. Rows(read)' = Rows(read) /\ Rows(told)' = Rows(told)
    BY <1>1 DEF Rows
  <2>8. Promised
    BY <1>1, <1>3, <2>1, <2>6, <2>7 DEF Promised, Promise!Next, Promise!Approve
  <2>9. RowsInv'
    BY <1>1, <1>3, <2>1, <2>2 DEF RowsInv
  <2> QED BY <2>8, <2>9
<1> QED BY <1>2, <1>3

LEMMA UserPromised ==
  ASSUME ScreenInv, RowsInv, OpenTx \/ PassWarning \/ TurnPage \/ Accept \/ Reject
  PROVE  RowsInv' /\ Promised
<1>1. CASE OpenTx
  <2>1. /\ tx_in_progress' = TRUE /\ user_approved' = FALSE /\ phase' = "prefix"
        /\ told' = <<>> /\ read' = <<>> /\ page' = 0
    BY <1>1 DEF OpenTx
  <2>2. Len(<<>>) = 0 /\ \A i \in 1..Len(<<>>) : FALSE
    OBVIOUS
  <2>3. RowsInv'
    BY <2>1, <2>2, NoRows DEF RowsInv
  <2> QED BY <2>1, <2>3, BegunIsPromised
<1>2. CASE PassWarning
  <2>1. UNCHANGED <<phase, tx_in_progress, user_approved, transactionContext,
                    changeTitleBuf, page, told, read>>
    BY <1>2 DEF PassWarning, host, texts
  <2>2. RowsInv'
    BY <2>1 DEF RowsInv, Rows, Queued, RowFits
  <2> QED BY <2>1, <2>2, SameIsPromised
<1>3. CASE Reject
  BY <1>3, OverIsPromised DEF Reject
<1> QED BY <1>1, <1>2, <1>3, PagePromised, AcceptPromised

\* monero_ux_nbgl.c:92-104, 178-275: what the user approves on a touch device is
\* all the handlers told by then, word for word and in order, but for the account of
\* a change.
THEOREM TouchKeepsPromise == Spec => KeepsPromise
<1>1. Init => RowsInv /\ Promise!Init
  BY DEF Init, RowsInv, Promise!Init
<1>2. ScreenInv /\ RowsInv /\ [Next]_vars => RowsInv' /\ Promised
  <2> SUFFICES ASSUME ScreenInv, RowsInv, [Next]_vars
               PROVE  RowsInv' /\ Promised
    OBVIOUS
  <2>1. CASE UNCHANGED vars
    <3>1. UNCHANGED <<phase, tx_in_progress, user_approved, transactionContext,
                      changeTitleBuf, page, told, read>>
      BY <2>1 DEF vars, host, texts, display, history
    <3>2. RowsInv'
      BY <3>1 DEF RowsInv, Rows, Queued, RowFits
    <3> QED BY <3>1, <3>2, SameIsPromised
  <2> QED BY <2>1, EarlyPromised, OutputPromised, UserPromised DEF Next
<1> QED BY <1>1, <1>2, TouchScreenIsSound, PTL DEF Spec, KeepsPromise, Promise!Spec, Promised
=============================================================================
