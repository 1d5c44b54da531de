-------------------------- MODULE ButtonReview_proofs --------------------------
(***************************************************************************)
(* What is proved about ButtonReview, for every network, all texts and     *)
(* accounts and any number of outputs: the flow on screen and the reply    *)
(* that is owed belong together, no one signs off the main network who has *)
(* not passed its warning, and ReviewPromise is implemented.               *)
(***************************************************************************)
EXTENDS ButtonReview, SequenceTheorems, TLAPS

-----------------------------------------------------------------------------
(* Sequences of rows. *)

\* A sequence is a prefix of every extension of it, and a proper one if anything
\* was added.
LEMMA Extension ==
  ASSUME NEW S, NEW s \in Seq(S), NEW t \in Seq(S)
  PROVE  /\ Len(s) <= Len(s \o t) /\ SubSeq(s, 1, Len(s)) = SubSeq(s \o t, 1, Len(s))
         /\ t # <<>> => s \o t # s
<1>1. Len(s) \in Nat /\ Len(t) \in Nat
  BY LenProperties
<1>2. Len(s) <= Len(s \o t)
  BY <1>1, ConcatProperties
<1>3. CASE Len(s) = 0
  <2>1. SubSeq(s, 1, Len(s)) = <<>>
    BY <1>3, SubSeqEmpty
  <2>2. SubSeq(s \o t, 1, Len(s)) = <<>>
    BY <1>3, SubSeqEmpty
  <2> QED BY <1>2, <2>1, <2>2, ConcatEqualIffEmpty
<1>4. CASE Len(s) # 0
  <2>1. 1 \in 1..Len(s) /\ Len(s) \in 1..Len(s)
    BY <1>1, <1>4
  <2>2. SubSeq(s \o t, 1, Len(s)) = SubSeq(s, 1, Len(s))
    BY <2>1, SubSeqOfConcat1
  <2> QED BY <1>2, <2>2, ConcatEqualIffEmpty
<1> QED BY <1>3, <1>4

\* One row is taken from what is left and added to what was read.
LEMMA OneRowOn ==
  ASSUME NEW S, NEW s \in Seq(S), NEW e \in S, NEW t \in Seq(S)
  PROVE  /\ s \o (<<e>> \o t) = Append(s, e) \o t
         /\ Append(s, e) \in Seq(S) /\ Append(s, e) = s \o <<e>> /\ Append(s, e) # s
<1>1. <<e>> \in Seq(S) /\ <<e>> # <<>>
  OBVIOUS
<1>2. (s \o <<e>>) \o t = s \o (<<e>> \o t)
  BY <1>1, ConcatAssociative
<1>3. Append(s, e) = s \o <<e>>
  BY AppendIsConcat
<1>4. Append(s, e) # s
  BY <1>1, <1>3, ConcatEqualIffEmpty
<1> QED BY <1>2, <1>3, <1>4, AppendProperties

-----------------------------------------------------------------------------
(* The screen. *)

Titles == {"net", "Timelock", "Fee", "Amount", "Destination", "&changeTitleBuf"}

\* The last review asks for the approval, and it begins with the warning: who is
\* past its first step has been warned.  Until it is given the review stays, so the
\* outputs that follow the last one come after it.
ButtonInv ==
  /\ OwedReplyHasItsFlow
  /\ flow \in Seq(Titles) /\ step \in Nat
  /\ {outputs_reviewed, user_approved} \subseteq BOOLEAN
  /\ outputs_reviewed => phase = "end"
  /\ phase = "end" /\ tx_in_progress /\ ~user_approved => screen = "flow" /\ outputs_reviewed
  /\ outputs_reviewed /\ ~user_approved /\ screen = "flow" /\ Network # "MAINNET" =>
       /\ Len(flow) > 0 /\ flow[1] = "net"
       /\ step > 0 => warned
  /\ user_approved /\ Network # "MAINNET" => warned

-----------------------------------------------------------------------------
(* The flows. *)

\* The flow of a review, and where its warning is.
LEMMA TerminalFlow ==
  ASSUME NEW plain \in Seq(Titles)
  PROVE  /\ start_terminal_review(plain) \in Seq(Titles)
         /\ Network # "MAINNET" =>
              /\ Len(start_terminal_review(plain)) > 0
              /\ start_terminal_review(plain)[1] = "net"
<1>1. CASE Network = "MAINNET"
  BY <1>1 DEF start_terminal_review
<1>2. CASE Network # "MAINNET"
  <2>1. start_terminal_review(plain) = <<"net">> \o plain
    BY <1>2 DEF start_terminal_review
  <2>2. <<"net">> \in Seq(Titles) /\ Len(<<"net">>) = 1 /\ <<"net">>[1] = "net"
    BY DEF Titles
  <2>3. <<"net">> \o plain \in Seq(Titles) /\ Len(<<"net">> \o plain) > 0
        /\ (<<"net">> \o plain)[1] = "net"
    BY <2>2
  <2> QED BY <2>1, <2>3
<1> QED BY <1>1, <1>2

\* A command shows its flow.
LEMMA FlowStarts ==
  ASSUME ButtonInv, NEW steps \in Seq(Titles), ux_flow_init(steps), tx_in_progress',
         outputs_reviewed' \in BOOLEAN, user_approved' = user_approved, warned' = warned,
         outputs_reviewed' => phase' = "end",
         phase' = "end" /\ ~user_approved => outputs_reviewed',
         outputs_reviewed' /\ ~user_approved /\ Network # "MAINNET" =>
           Len(steps) > 0 /\ steps[1] = "net"
  PROVE  ButtonInv'
<1>1. screen' = "flow" /\ flow' = steps /\ step' = 0 /\ io_reply_pending' = TRUE
  BY DEF ux_flow_init
<1>2. step' \in 0..Len(flow')
  BY <1>1
<1> QED BY <1>1, <1>2 DEF ButtonInv, OwedReplyHasItsFlow

\* The two commands before the outputs.
LEMMA EarlySteps ==
  ASSUME ButtonInv,
         \/ \E lock \in Amounts : Timelock(lock)
         \/ NoTimelock
         \/ \E amt \in Amounts : Fee(amt)
  PROVE  ButtonInv'
<1>1. CASE \E lock \in Amounts : Timelock(lock)
  <2>1. /\ ux_flow_init(<<"Timelock">>) /\ phase = "prefix" /\ phase' = "fee"
        /\ tx_in_progress' /\ UNCHANGED <<outputs_reviewed, user_approved, warned>>
    BY <1>1 DEF Timelock, Turn
  <2>2. <<"Timelock">> \in Seq(Titles)
    BY DEF Titles
  <2>3. outputs_reviewed' \in BOOLEAN /\ ~outputs_reviewed'
    BY <2>1 DEF ButtonInv
  <2> QED BY <2>1, <2>2, <2>3, FlowStarts
<1>2. CASE NoTimelock
  <2>1. /\ phase = "prefix" /\ phase' = "fee" /\ tx_in_progress'
        /\ UNCHANGED <<outputs_reviewed, user_approved, warned, io_reply_pending, display>>
    BY <1>2 DEF NoTimelock, Turn
  <2> QED BY <2>1 DEF ButtonInv, OwedReplyHasItsFlow, display
<1>3. CASE \E amt \in Amounts : Fee(amt)
  <2>1. /\ ux_flow_init(<<"Fee">>) /\ phase = "fee" /\ phase' = "outs"
        /\ tx_in_progress' /\ UNCHANGED <<outputs_reviewed, user_approved, warned>>
    BY <1>3 DEF Fee, Turn
  <2>2. <<"Fee">> \in Seq(Titles)
    BY DEF Titles
  <2>3. outputs_reviewed' \in BOOLEAN /\ ~outputs_reviewed'
    BY <2>1 DEF ButtonInv
  <2> QED BY <2>1, <2>2, <2>3, FlowStarts
<1> QED BY <1>1, <1>2, <1>3

\* An output after the last one comes after the approval.
LEMMA LaterOutput ==
  ASSUME ButtonInv, NEW amt, NEW steps, NEW last \in BOOLEAN, Output(amt, steps, last)
  PROVE  \/ phase = "outs" /\ phase' = IF last THEN "end" ELSE "outs"
         \/ user_approved /\ ~last /\ phase = "end" /\ phase' = "end"
<1>1. \/ Turn("outs", IF last THEN "end" ELSE "outs")
      \/ Turn("end", "end") /\ ~last
  BY DEF Output
<1>2. CASE Turn("outs", IF last THEN "end" ELSE "outs")
  BY <1>2 DEF Turn
<1>3. CASE Turn("end", "end") /\ ~last
  <2>1. ~io_reply_pending /\ tx_in_progress /\ phase = "end" /\ phase' = "end"
    BY <1>3 DEF Turn
  <2>2. user_approved
    BY <2>1 DEF ButtonInv, OwedReplyHasItsFlow
  <2> QED BY <1>3, <2>1, <2>2
<1> QED BY <1>1, <1>2, <1>3

\* An output.
LEMMA OutputStep ==
  ASSUME ButtonInv, NEW amt, NEW steps \in Seq(Titles), NEW last \in BOOLEAN,
         Output(amt, steps, last)
  PROVE  ButtonInv'
<1>1. /\ tx_in_progress' /\ UNCHANGED <<user_approved, warned>>
      /\ outputs_reviewed' = (outputs_reviewed \/ last)
      /\ ux_flow_init(IF last THEN start_terminal_review(steps) ELSE steps)
  BY DEF Output, Turn
<1>2. outputs_reviewed' \in BOOLEAN
  BY <1>1
<1>3. CASE last
  <2>1. outputs_reviewed' /\ phase' = "end"
    BY <1>1, <1>3, LaterOutput
  <2> QED BY <1>1, <1>2, <1>3, <2>1, TerminalFlow, FlowStarts
<1>4. CASE ~last /\ phase = "outs"
  <2>1. ~outputs_reviewed' /\ phase' = "outs"
    BY <1>1, <1>4, LaterOutput DEF ButtonInv
  <2> QED BY <1>1, <1>2, <1>4, <2>1, FlowStarts
<1>5. CASE ~last /\ phase # "outs"
  <2>1. user_approved /\ phase' = "end"
    BY <1>5, LaterOutput
  <2> QED BY <1>1, <1>2, <1>5, <2>1, FlowStarts
<1> QED BY <1>3, <1>4, <1>5

LEMMA OutputSteps ==
  ASSUME ButtonInv,
         \/ \E amt \in Amounts, to \in Dests, last \in BOOLEAN : Destination(amt, to, last)
         \/ \E amt \in Amounts, major \in Accounts, last \in BOOLEAN : Change(amt, major, last)
  PROVE  ButtonInv'
<1>1. <<"Amount", "Destination">> \in Seq(Titles) /\ <<"&changeTitleBuf">> \in Seq(Titles)
  BY DEF Titles
<1> QED BY <1>1, OutputStep DEF Destination, Change

-----------------------------------------------------------------------------
(* The user. *)

LEMMA UserStep == ASSUME ButtonInv, User PROVE ButtonInv'
<1>1. CASE NextStep
  <2>1. /\ screen = "flow" /\ step < Len(flow) /\ step' = step + 1
        /\ UNCHANGED <<phase, tx_in_progress, outputs_reviewed, user_approved,
                       io_reply_pending, screen, flow>>
        /\ IF flow[step + 1] = "net" THEN warned' = TRUE ELSE UNCHANGED warned
    BY <1>1 DEF NextStep, host
  <2>2. Len(flow) \in Nat /\ step \in Nat
    BY DEF ButtonInv
  <2>3. step' \in Nat /\ step' \in 0..Len(flow) /\ step' > 0
    BY <2>1, <2>2
  <2>4. warned => warned'
    BY <2>1
  <2>5. outputs_reviewed /\ ~user_approved /\ Network # "MAINNET" => warned'
    <3>1. CASE step = 0
      <4>1. outputs_reviewed /\ ~user_approved /\ Network # "MAINNET" =>
              flow[step + 1] = "net"
        BY <2>1, <3>1 DEF ButtonInv
      <4> QED BY <2>1, <4>1
    <3>2. CASE step > 0
      BY <2>1, <2>4, <3>2 DEF ButtonInv
    <3> QED BY <2>2, <3>1, <3>2
  <2> QED BY <2>1, <2>3, <2>4, <2>5 DEF ButtonInv, OwedReplyHasItsFlow
<1>2. CASE Accept
  <2>1. /\ screen = "flow" /\ step = Len(flow)
        /\ user_approved' = (user_approved \/ outputs_reviewed)
        /\ io_reply_pending' = FALSE /\ screen' = "info" /\ flow' = <<>> /\ step' = 0
        /\ UNCHANGED <<phase, tx_in_progress, outputs_reviewed, warned>>
    BY <1>2 DEF Accept, approve_if_terminal_review, Info, host, history
  <2>2. outputs_reviewed /\ Network # "MAINNET" => warned
    BY <2>1 DEF ButtonInv
  <2>3. user_approved' \in BOOLEAN
    BY <2>1
  <2>4. user_approved' /\ Network # "MAINNET" => warned'
    BY <2>1, <2>2 DEF ButtonInv
  <2>5. phase' = "end" /\ tx_in_progress' => user_approved'
    BY <2>1 DEF ButtonInv
  <2> QED BY <2>1, <2>3, <2>4, <2>5 DEF ButtonInv, OwedReplyHasItsFlow
<1>3. CASE Reject
  <2>1. /\ tx_in_progress' = FALSE /\ outputs_reviewed' = FALSE /\ user_approved' = FALSE
        /\ io_reply_pending' = FALSE /\ screen' = "info" /\ flow' = <<>> /\ step' = 0
    BY <1>3 DEF Reject, Info
  <2>2. flow' \in Seq(Titles) /\ step' \in Nat
    BY <2>1
  <2>3. OwedReplyHasItsFlow'
    BY <2>1 DEF OwedReplyHasItsFlow
  <2> QED BY <2>1, <2>2, <2>3 DEF ButtonInv
<1> QED BY <1>1, <1>2, <1>3 DEF User

\* Beside the reviews: a transaction opened, the menus.
LEMMA MenuStep ==
  ASSUME ButtonInv, OpenTx \/ Click \/ ShowOwnAddress \/ LeaveAddress \/ ChangeSettings
  PROVE  ButtonInv'
<1>1. CASE OpenTx
  <2>1. /\ outputs_reviewed' = FALSE /\ user_approved' = FALSE /\ ~io_reply_pending
        /\ phase' = "prefix" /\ io_reply_pending' = io_reply_pending
        /\ screen' = "info" /\ flow' = <<>> /\ step' = 0
    BY <1>1 DEF OpenTx, Info
  <2>2. flow' \in Seq(Titles) /\ step' \in Nat
    BY <2>1
  <2>3. OwedReplyHasItsFlow'
    BY <2>1 DEF OwedReplyHasItsFlow
  <2> QED BY <2>1, <2>2, <2>3 DEF ButtonInv
<1>2. CASE ChangeSettings
  <2>1. /\ tx_in_progress' = FALSE /\ outputs_reviewed' = FALSE /\ user_approved' = FALSE
        /\ io_reply_pending' = FALSE /\ screen = "menu" /\ UNCHANGED <<screen, flow, step>>
    BY <1>2 DEF ChangeSettings, display
  <2>2. flow' \in Seq(Titles) /\ step' \in Nat
    BY <2>1 DEF ButtonInv
  <2>3. OwedReplyHasItsFlow'
    BY <2>1 DEF OwedReplyHasItsFlow
  <2> QED BY <2>1, <2>2, <2>3 DEF ButtonInv
<1>3. CASE Click \/ ShowOwnAddress \/ LeaveAddress
  <2>1. /\ screen # "flow" /\ screen' # "flow"
        /\ UNCHANGED <<phase, tx_in_progress, outputs_reviewed, user_approved,
                       io_reply_pending, warned>>
    BY <1>3 DEF Click, ShowOwnAddress, LeaveAddress, host, history
  <2>2. flow' \in Seq(Titles) /\ step' \in Nat
    BY <1>3 DEF Click, ShowOwnAddress, LeaveAddress, ButtonInv
  <2> QED BY <2>1, <2>2 DEF ButtonInv, OwedReplyHasItsFlow
<1> QED BY <1>1, <1>2, <1>3

-----------------------------------------------------------------------------
(* The theorems. *)

THEOREM ButtonsAreSound == Spec => []ButtonInv
<1>1. Init => ButtonInv
  <2> SUFFICES ASSUME Init PROVE ButtonInv
    OBVIOUS
  <2>1. flow \in Seq(Titles) /\ step \in Nat
    BY DEF Init
  <2>2. OwedReplyHasItsFlow
    BY DEF Init, OwedReplyHasItsFlow
  <2> QED BY <2>1, <2>2 DEF Init, ButtonInv
<1>2. ButtonInv /\ [Next]_vars => ButtonInv'
  <2> SUFFICES ASSUME ButtonInv, [Next]_vars
               PROVE  ButtonInv'
    OBVIOUS
  <2>1. CASE UNCHANGED vars
    BY <2>1 DEF vars, host, display, history, ButtonInv, OwedReplyHasItsFlow
  <2> QED BY <2>1, EarlySteps, OutputSteps, UserStep, MenuStep DEF Next
<1> QED BY <1>1, <1>2, PTL DEF Spec

\* monero_ux_nano.c:206-229, 701-710: the device waits for an answer exactly while
\* the flow that gives it is on screen, whatever the menus did before.
THEOREM ReplyHasItsFlow == Spec => []OwedReplyHasItsFlow
<1>1. ButtonInv => OwedReplyHasItsFlow
  BY DEF ButtonInv
<1> QED BY <1>1, ButtonsAreSound, PTL

\* monero_ux_nano.c:121-156: the approval is given past the warning only.
THEOREM ApprovalIsWarned == Spec => []ApprovedAfterWarning
<1>1. ButtonInv => ApprovedAfterWarning
  BY DEF ButtonInv, ApprovedAfterWarning
<1> QED BY <1>1, ButtonsAreSound, PTL

-----------------------------------------------------------------------------
(* What the rest of a flow will show. *)

Items  == Titles \cup {Blank} \cup {ChangeTitle(major) : major \in Accounts}
Values == Amounts \cup Dests \cup {Blank, OwnAddress}
Row    == Items \X Values

\* The flows without their warning.
Plains == {<<"Timelock">>, <<"Fee">>, <<"Amount", "Destination">>, <<"&changeTitleBuf">>}

\* The warning comes before something, an amount before its destination, and
\* any other step comes last.
Shape(f) ==
  /\ Len(f) > 0
  /\ \A k \in 1..Len(f) :
       /\ f[k] = "net"    => k < Len(f) /\ f[k + 1] # "net"
       /\ f[k] = "Amount" => k < Len(f) /\ f[k + 1] = "Destination"
       /\ f[k] \notin {"net", "Amount"} => k = Len(f)

\* The rows of a step and of those after it.
RowsFrom(title) ==
  IF title = "Amount" THEN <<Drawn("Amount"), Drawn("Destination")>> ELSE <<Drawn(title)>>

\* The step of f after k which shows a row.
Coming(f, k) == IF f[k + 1] = "net" THEN f[k + 2] ELSE f[k + 1]

Unread ==
  IF screen # "flow" \/ step = Len(flow) THEN <<>> ELSE RowsFrom(Coming(flow, step))

\* All that was told has been read, or is what the rest of the flow will show, of
\* an output after the approval too.  The menus write to the texts, but there is no menu under a flow.
RowsInv ==
  /\ told \in Seq(Row) /\ read \in Seq(Row)
  /\ ux_amount \in Values /\ ux_address \in Values /\ changeTitleBuf \in Items
  /\ screen = "flow" => Shape(flow)
  /\ tx_in_progress => told = read \o Unread
  /\ tx_in_progress /\ phase = "prefix" => told = <<>>
  /\ user_approved => phase = "end"

LEMMA DrawnRow ==
  ASSUME ux_amount \in Values, ux_address \in Values, changeTitleBuf \in Items,
         NEW title \in Titles
  PROVE  Drawn(title) \in Row /\ RowsFrom(title) \in Seq(Row) /\ RowsFrom(title) # <<>>
<1>1. \A x \in Titles : Drawn(x) \in Row
  BY DEF Drawn, Row, Items
<1>2. "Amount" \in Titles /\ "Destination" \in Titles
  BY DEF Titles
<1> QED BY <1>1, <1>2 DEF RowsFrom

\* The flow of a review, warning or not, comes to the rows of its plain flow.
LEMMA PlainShape ==
  ASSUME NEW plain \in Plains
  PROVE  plain \in Seq(Titles) /\ Shape(plain) /\ Coming(plain, 0) = plain[1]
         /\ plain[1] \in Titles /\ plain[1] # "net"
<1>1. CASE plain = <<"Timelock">>
  BY <1>1 DEF Titles, Shape, Coming
<1>2. CASE plain = <<"Fee">>
  BY <1>2 DEF Titles, Shape, Coming
<1>3. CASE plain = <<"Amount", "Destination">>
  BY <1>3 DEF Titles, Shape, Coming
<1>4. CASE plain = <<"&changeTitleBuf">>
  BY <1>4 DEF Titles, Shape, Coming
<1> QED BY <1>1, <1>2, <1>3, <1>4 DEF Plains

LEMMA ReviewShape ==
  ASSUME NEW plain \in Plains
  PROVE  /\ Shape(start_terminal_review(plain))
         /\ Coming(start_terminal_review(plain), 0) = plain[1]
<1>1. CASE Network = "MAINNET"
  BY <1>1, PlainShape DEF start_terminal_review
<1>2. CASE Network # "MAINNET"
  <2> DEFINE f == start_terminal_review(plain)
  <2>1. f = <<"net">> \o plain
    BY <1>2 DEF start_terminal_review
  <2>2. plain \in Seq(Titles) /\ Len(plain) \in Nat /\ Len(plain) > 0
    BY PlainShape DEF Shape
  <2>3. <<"net">> \in Seq(Titles) /\ Len(<<"net">>) = 1 /\ <<"net">>[1] = "net"
    BY DEF Titles
  <2> HIDE DEF f
  <2>4. /\ Len(f) = 1 + Len(plain)
        /\ \A i \in 1..(1 + Len(plain)) :
             f[i] = IF i <= 1 THEN <<"net">>[i] ELSE plain[i - 1]
    BY <2>1, <2>2, <2>3, ConcatProperties
  <2>5. f[1] = "net" /\ f[2] = plain[1]
    BY <2>2, <2>3, <2>4
  <2>6. \A i \in 2..Len(f) : i - 1 \in 1..Len(plain) /\ f[i] = plain[i - 1]
    BY <2>2, <2>4
  <2>7. Shape(f)
    <3> SUFFICES ASSUME NEW k \in 1..Len(f)
                 PROVE  /\ f[k] = "net"    => k < Len(f) /\ f[k + 1] # "net"
                        /\ f[k] = "Amount" => k < Len(f) /\ f[k + 1] = "Destination"
                        /\ f[k] \notin {"net", "Amount"} => k = Len(f)
      BY <2>2, <2>4 DEF Shape
    <3>1. CASE k = 1
      BY <2>2, <2>4, <2>5, <3>1, PlainShape
    <3>2. CASE k # 1
      <4>1. k - 1 \in 1..Len(plain) /\ f[k] = plain[k - 1] /\ Len(f) \in Nat
        BY <2>2, <2>4, <2>6, <3>2
      <4>2. k < Len(f) => f[k + 1] = plain[(k - 1) + 1]
        BY <2>2, <2>4, <2>6, <4>1
      <4>3. k < Len(f) <=> k - 1 < Len(plain)
        BY <2>2, <2>4, <4>1
      <4>4. /\ plain[k - 1] = "net" => k - 1 < Len(plain) /\ plain[(k - 1) + 1] # "net"
            /\ plain[k - 1] = "Amount" =>
                 k - 1 < Len(plain) /\ plain[(k - 1) + 1] = "Destination"
            /\ plain[k - 1] \notin {"net", "Amount"} => k - 1 = Len(plain)
        BY <4>1, PlainShape DEF Shape
      <4>5. k - 1 = Len(plain) => k = Len(f)
        BY <2>2, <2>4, <4>1
      <4> QED BY <4>1, <4>2, <4>3, <4>4, <4>5
    <3> QED BY <3>1, <3>2
  <2>8. Coming(f, 0) = plain[1]
    BY <2>5 DEF Coming
  <2> QED BY <2>7, <2>8 DEF f
<1> QED BY <1>1, <1>2

-----------------------------------------------------------------------------
(* Every step is a step of the promise. *)

Promised == [Promise!Next]_Promise!promise

\* A transaction that is over, and one that begins.
LEMMA OverIsPromised == ASSUME ~tx_in_progress' PROVE Promised
BY DEF Promised, Promise!Next, Promise!End, Promise!Blank

LEMMA BegunIsPromised ==
  ASSUME tx_in_progress', told' = <<>>, read' = <<>>, phase' # "end", ~user_approved'
  PROVE  Promised
BY DEF Promised, Promise!Next, Promise!Begin, Promise!Blank

\* Where nothing of this changes, the promise stands still.
LEMMA SameIsPromised ==
  ASSUME UNCHANGED <<tx_in_progress, told, read, user_approved>>,
         phase' = "end" <=> phase = "end"
  PROVE  Promised
BY DEF Promised, Promise!promise

\* Rows are told, before the last output and its approval or after both.
LEMMA ToldIsPromised ==
  ASSUME RowsInv, tx_in_progress, UNCHANGED <<tx_in_progress, read, user_approved>>,
         phase # "end" \/ (user_approved /\ phase' = "end"),
         NEW rows \in Seq(Row), rows # <<>>, told' = told \o rows
  PROVE  Promised
<1>1. told \in Seq(Row) /\ (user_approved => phase = "end")
  BY DEF RowsInv
<1>2. /\ Len(told) <= Len(told') /\ SubSeq(told, 1, Len(told)) = SubSeq(told', 1, Len(told))
      /\ told' # told
  BY <1>1, Extension
<1>3. Promise!More
  BY <1>2 DEF Promise!IsPrefix, Promise!More
<1>4. CASE phase # "end"
  <2>1. ~user_approved
    BY <1>1, <1>4
  <2> QED BY <1>3, <1>4, <2>1 DEF Promised, Promise!Next, Promise!Tell, Promise!More
<1>5. CASE phase = "end"
  BY <1>3, <1>5 DEF Promised, Promise!Next, Promise!TellMore, Promise!More
<1> QED BY <1>4, <1>5

\* A row is read.
LEMMA ReadIsPromised ==
  ASSUME RowsInv, tx_in_progress, UNCHANGED <<tx_in_progress, told, user_approved, phase>>,
         screen = "flow",
         NEW row \in Row, NEW rest \in Seq(Row), told = read \o (<<row>> \o rest),
         read' = Append(read, row)
  PROVE  Promised
<1>1. read \in Seq(Row) /\ row \in Row /\ rest \in Seq(Row)
  BY DEF RowsInv
<1>2. told = read' \o rest /\ read' \in Seq(Row) /\ read' = read \o <<row>> /\ read' # read
  <2>1. /\ read \o (<<row>> \o rest) = Append(read, row) \o rest
        /\ Append(read, row) \in Seq(Row) /\ Append(read, row) = read \o <<row>>
        /\ Append(read, row) # read
    BY <1>1, OneRowOn
  <2> QED BY <2>1
<1>3. Promise!IsPrefix(read, read')
  BY <1>1, <1>2, Extension DEF Promise!IsPrefix
<1>4. Promise!IsPrefix(read', told)
  BY <1>2, Extension DEF Promise!IsPrefix
<1> QED BY <1>1, <1>2, <1>3, <1>4 DEF Promised, Promise!Next, Promise!Read

\* A command that tells the rows of a flow and shows the flow.
LEMMA FlowTold ==
  ASSUME ButtonInv, RowsInv, NEW plain \in Plains, NEW f,
         f \in {plain, start_terminal_review(plain)},
         ux_flow_init(f), ~io_reply_pending, tx_in_progress,
         phase # "end" \/ (user_approved /\ phase' = "end"), phase' # "prefix",
         ux_amount' \in Values, ux_address' \in Values, changeTitleBuf' \in Items,
         told' = told \o RowsFrom(plain[1])',
         UNCHANGED <<tx_in_progress, user_approved, read>>
  PROVE  RowsInv' /\ Promised
<1>1. screen # "flow" /\ (user_approved => phase = "end")
  BY DEF ButtonInv, OwedReplyHasItsFlow, RowsInv
<1>2. told = read /\ told \in Seq(Row)
  BY <1>1, ConcatEmptySeq DEF RowsInv, Unread
<1>3. screen' = "flow" /\ flow' = f /\ step' = 0
  BY DEF ux_flow_init
<1>4. Shape(f) /\ Coming(f, 0) = plain[1] /\ plain[1] \in Titles
  BY PlainShape, ReviewShape
<1>5. RowsFrom(plain[1])' \in Seq(Row) /\ RowsFrom(plain[1])' # <<>>
  <2>1. \A title \in Titles : Drawn(title)' \in Row
    BY DEF Drawn, Row, Items
  <2>2. "Amount" \in Titles /\ "Destination" \in Titles
    BY DEF Titles
  <2> QED BY <1>4, <2>1, <2>2 DEF RowsFrom
<1>6. Unread' = RowsFrom(plain[1])'
  <2>1. Len(f) # 0
    BY <1>4 DEF Shape
  <2> QED BY <1>3, <1>4, <2>1 DEF Unread, RowsFrom
<1>7. told' \in Seq(Row) /\ told' = read' \o Unread'
  BY <1>2, <1>5, <1>6, ConcatProperties
<1>8. Shape(flow')
  BY <1>3, <1>4
<1>9. RowsInv'
  BY <1>1, <1>2, <1>3, <1>7, <1>8 DEF RowsInv, Shape
<1>10. Promised
  BY <1>5, ToldIsPromised
<1> QED BY <1>9, <1>10

LEMMA EarlyPromised ==
  ASSUME ButtonInv, RowsInv,
         \/ \E lock \in Amounts : Timelock(lock)
         \/ NoTimelock
         \/ \E amt \in Amounts : Fee(amt)
  PROVE  RowsInv' /\ Promised
<1>1. ASSUME NEW lock \in Amounts, Timelock(lock)
      PROVE  RowsInv' /\ Promised
  <2>1. /\ ux_flow_init(<<"Timelock">>) /\ ~io_reply_pending /\ tx_in_progress
        /\ phase = "prefix" /\ phase' = "fee" /\ ux_amount' = lock
        /\ told' = <<<<"Timelock", lock>>>>
        /\ UNCHANGED <<tx_in_progress, user_approved, read, ux_address, changeTitleBuf>>
    BY <1>1 DEF Timelock, Turn
  <2>2. <<"Timelock">> \in Plains /\ <<"Timelock">>[1] = "Timelock"
    BY DEF Plains
  <2>3. RowsFrom("Timelock")' = <<<<"Timelock", lock>>>>
    BY <2>1 DEF RowsFrom, Drawn
  <2>4. told = <<>> /\ <<<<"Timelock", lock>>>> \in Seq(Row)
    BY <2>1 DEF RowsInv, Row, Items, Titles, Values
  <2>5. told' = told \o RowsFrom(<<"Timelock">>[1])'
    BY <2>1, <2>2, <2>3, <2>4, ConcatEmptySeq
  <2>6. /\ ux_amount' \in Values /\ ux_address' \in Values /\ changeTitleBuf' \in Items
    BY <2>1 DEF RowsInv, Values
  <2>7. phase # "end" /\ phase' # "prefix"
    BY <2>1
  <2> QED BY <2>1, <2>2, <2>5, <2>6, <2>7, FlowTold
<1>2. CASE NoTimelock
  <2>1. /\ phase = "prefix" /\ phase' = "fee"
        /\ UNCHANGED <<tx_in_progress, user_approved, read, told>>
        /\ UNCHANGED <<ux_amount, ux_address, changeTitleBuf, screen, flow, step>>
    BY <1>2 DEF NoTimelock, Turn, texts, display
  <2>2. Unread' = Unread
    BY <2>1 DEF Unread, RowsFrom, Coming, Drawn
  <2>3. RowsInv'
    BY <2>1, <2>2 DEF RowsInv, Shape
  <2> QED BY <2>1, <2>3, SameIsPromised
<1>3. ASSUME NEW amt \in Amounts, Fee(amt)
      PROVE  RowsInv' /\ Promised
  <2>1. /\ ux_flow_init(<<"Fee">>) /\ ~io_reply_pending /\ tx_in_progress
        /\ phase = "fee" /\ phase' = "outs" /\ ux_amount' = amt
        /\ told' = Append(told, <<"Fee", amt>>)
        /\ UNCHANGED <<tx_in_progress, user_approved, read, ux_address, changeTitleBuf>>
    BY <1>3 DEF Fee, Turn
  <2>2. <<"Fee">> \in Plains /\ <<"Fee">>[1] = "Fee"
    BY DEF Plains
  <2>3. RowsFrom("Fee")' = <<<<"Fee", amt>>>>
    BY <2>1 DEF RowsFrom, Drawn
  <2>4. told \in Seq(Row) /\ <<"Fee", amt>> \in Row
    BY DEF RowsInv, Row, Items, Titles, Values
  <2>5. told' = told \o RowsFrom(<<"Fee">>[1])'
    BY <2>1, <2>2, <2>3, <2>4, AppendIsConcat
  <2>6. /\ ux_amount' \in Values /\ ux_address' \in Values /\ changeTitleBuf' \in Items
    BY <2>1 DEF RowsInv, Values
  <2>7. phase # "end" /\ phase' # "prefix"
    BY <2>1
  <2> QED BY <2>1, <2>2, <2>5, <2>6, <2>7, FlowTold
<1> QED BY <1>1, <1>2, <1>3

LEMMA OutputPromised ==
  ASSUME ButtonInv, RowsInv,
         \/ \E amt \in Amounts, to \in Dests, last \in BOOLEAN : Destination(amt, to, last)
         \/ \E amt \in Amounts, major \in Accounts, last \in BOOLEAN : Change(amt, major, last)
  PROVE  RowsInv' /\ Promised
<1>1. ASSUME NEW amt \in Amounts, NEW to \in Dests, NEW last \in BOOLEAN,
             Destination(amt, to, last)
      PROVE  RowsInv' /\ Promised
  <2> DEFINE plain == <<"Amount", "Destination">>
             f == IF last THEN start_terminal_review(plain) ELSE plain
  <2>1. /\ ux_flow_init(f) /\ ~io_reply_pending /\ tx_in_progress
        /\ phase # "end" \/ (user_approved /\ phase' = "end")
        /\ phase' \in {"outs", "end"}
        /\ ux_amount' = amt /\ ux_address' = to
        /\ told' = told \o <<<<"Amount", amt>>, <<"Destination", to>>>>
        /\ UNCHANGED <<tx_in_progress, user_approved, read, changeTitleBuf>>
    BY <1>1, LaterOutput DEF Destination, Output, Turn
  <2>2. plain \in Plains /\ plain[1] = "Amount"
    BY DEF Plains
  <2>3. RowsFrom("Amount")' = <<<<"Amount", amt>>, <<"Destination", to>>>>
    BY <2>1 DEF RowsFrom, Drawn
  <2>4. /\ ux_amount' \in Values /\ ux_address' \in Values /\ changeTitleBuf' \in Items
    BY <2>1 DEF RowsInv, Values
  <2>5. f \in {plain, start_terminal_review(plain)} /\ phase' # "prefix"
    BY <2>1
  <2>6. told' = told \o RowsFrom(plain[1])'
    BY <2>1, <2>2, <2>3
  <2> HIDE DEF plain, f
  <2> QED BY <2>1, <2>2, <2>4, <2>5, <2>6, FlowTold
<1>2. ASSUME NEW amt \in Amounts, NEW major \in Accounts, NEW last \in BOOLEAN,
             Change(amt, major, last)
      PROVE  RowsInv' /\ Promised
  <2> DEFINE plain == <<"&changeTitleBuf">>
             f == IF last THEN start_terminal_review(plain) ELSE plain
  <2>1. /\ ux_flow_init(f) /\ ~io_reply_pending /\ tx_in_progress
        /\ phase # "end" \/ (user_approved /\ phase' = "end")
        /\ phase' \in {"outs", "end"}
        /\ ux_amount' = amt /\ changeTitleBuf' = ChangeTitle(major)
        /\ told' = Append(told, <<ChangeTitle(major), amt>>)
        /\ UNCHANGED <<tx_in_progress, user_approved, read, ux_address>>
    BY <1>2, LaterOutput DEF Change, Output, Turn
  <2>2. plain \in Plains /\ plain[1] = "&changeTitleBuf"
    BY DEF Plains
  <2>3. RowsFrom("&changeTitleBuf")' = <<<<ChangeTitle(major), amt>>>>
    BY <2>1 DEF RowsFrom, Drawn
  <2>4. told \in Seq(Row) /\ <<ChangeTitle(major), amt>> \in Row
    BY DEF RowsInv, Row, Items, Values
  <2>5. /\ ux_amount' \in Values /\ ux_address' \in Values /\ changeTitleBuf' \in Items
    BY <2>1 DEF RowsInv, Values, Items
  <2>6. f \in {plain, start_terminal_review(plain)} /\ phase' # "prefix"
    BY <2>1
  <2>7. told' = told \o RowsFrom(plain[1])'
    BY <2>1, <2>2, <2>3, <2>4, AppendIsConcat
  <2> HIDE DEF plain, f
  <2> QED BY <2>1, <2>2, <2>5, <2>6, <2>7, FlowTold
<1> QED BY <1>1, <1>2

\* The user pages on: over the warning, an amount, or the last step of a flow.
LEMMA NextStepPromised ==
  ASSUME ButtonInv, RowsInv, NextStep
  PROVE  RowsInv' /\ Promised
<1> DEFINE title == flow[step + 1]
<1>1. /\ screen = "flow" /\ step < Len(flow) /\ step' = step + 1 /\ tx_in_progress
      /\ UNCHANGED <<phase, tx_in_progress, user_approved, ux_amount, ux_address,
                     changeTitleBuf, screen, flow, told>>
  BY DEF NextStep, host, texts, ButtonInv, OwedReplyHasItsFlow
<1>2. /\ step \in Nat /\ Len(flow) \in Nat /\ step + 1 \in 1..Len(flow)
      /\ flow \in Seq(Titles) /\ Shape(flow)
  BY <1>1 DEF ButtonInv, RowsInv
<1>3. told = read \o RowsFrom(Coming(flow, step)) /\ read \in Seq(Row)
  <2>1. step # Len(flow)
    BY <1>1, <1>2
  <2> QED BY <1>1, <2>1 DEF RowsInv, Unread
<1>4. title \in Titles
  BY <1>2, ElementOfSeq
<1>5. \A x \in Titles : Drawn(x) \in Row /\ RowsFrom(x) \in Seq(Row) /\ RowsFrom(x)' = RowsFrom(x)
  <2>1. \A x \in Titles : Drawn(x) \in Row /\ RowsFrom(x) \in Seq(Row)
    BY DrawnRow DEF RowsInv
  <2>2. \A x : RowsFrom(x)' = RowsFrom(x)
    BY <1>1 DEF RowsFrom, Drawn
  <2> QED BY <2>1, <2>2
<1>6. CASE title = "net"
  <2>1. step + 1 < Len(flow) /\ flow[step + 2] # "net"
    <3>1. step + 1 < Len(flow) /\ flow[(step + 1) + 1] # "net"
      BY <1>2, <1>6 DEF Shape
    <3> QED BY <1>2, <3>1
  <2>2. UNCHANGED read
    BY <1>6 DEF NextStep
  <2>3. Coming(flow, step) = flow[step + 2] /\ Coming(flow', step') = flow[step + 2]
    BY <1>1, <1>2, <1>6, <2>1 DEF Coming
  <2>4. step' # Len(flow')
    BY <1>1, <1>2, <2>1
  <2>5. Unread' = RowsFrom(flow[step + 2])
    <3>1. Unread' = RowsFrom(Coming(flow, step))'
      BY <1>1, <2>4 DEF Unread
    <3>2. \A x : RowsFrom(x)' = RowsFrom(x)
      BY <1>1 DEF RowsFrom, Drawn
    <3>3. Unread' = IF "Amount" = flow[step + 2]
                    THEN <<Drawn("Amount"), Drawn("Destination")>>
                    ELSE <<Drawn(flow[step + 2])>>
      BY <1>1, <2>3, <3>1 DEF RowsFrom, Drawn
    <3> QED BY <3>3 DEF RowsFrom
  <2>6. RowsInv'
    BY <1>1, <1>2, <1>3, <2>2, <2>3, <2>5 DEF RowsInv, Shape
  <2> QED BY <1>1, <2>2, <2>6, SameIsPromised
<1>7. ASSUME title # "net", NEW rest \in Seq(Row),
             RowsFrom(title) = <<Drawn(title)>> \o rest, Unread' = rest
      PROVE  RowsInv' /\ Promised
  <2>1. read' = Append(read, Drawn(title)) /\ Drawn(title) \in Row
    BY <1>4, <1>5, <1>7 DEF NextStep
  <2>2. told = read \o (<<Drawn(title)>> \o rest)
    BY <1>3, <1>7 DEF Coming
  <2>3. told' = read' \o rest /\ read' \in Seq(Row)
    <3>1. /\ read \o (<<Drawn(title)>> \o rest) = Append(read, Drawn(title)) \o rest
          /\ Append(read, Drawn(title)) \in Seq(Row)
      <4> DEFINE row == Drawn(title)
      <4>1. row \in Row /\ rest \in Seq(Row) /\ read \in Seq(Row)
        BY <1>3, <1>7, <2>1
      <4> HIDE DEF row
      <4>2. /\ read \o (<<row>> \o rest) = Append(read, row) \o rest
            /\ Append(read, row) \in Seq(Row)
        BY <4>1, OneRowOn
      <4> QED BY <4>2 DEF row
    <3> QED BY <1>1, <2>1, <2>2, <3>1
  <2>4. RowsInv'
    BY <1>1, <1>2, <1>7, <2>3 DEF RowsInv, Shape
  <2>5. Promised
    BY <1>1, <2>1, <2>2, ReadIsPromised
  <2> QED BY <2>4, <2>5
<1>8. CASE title = "Amount"
  <2>1. step + 1 < Len(flow) /\ flow[(step + 1) + 1] = "Destination"
    BY <1>2, <1>8 DEF Shape
  <2>2. "Destination" \in Titles
    BY DEF Titles
  <2>3. RowsFrom(title) = <<Drawn(title)>> \o <<Drawn("Destination")>>
    BY <1>8 DEF RowsFrom
  <2>4. step' # Len(flow') /\ Coming(flow', step') = "Destination"
    BY <1>1, <1>2, <2>1 DEF Coming
  <2>5. Unread' = <<Drawn("Destination")>>
    BY <1>1, <2>4 DEF Unread, RowsFrom, Coming, Drawn
  <2>6. <<Drawn("Destination")>> \in Seq(Row)
    BY <1>5, <2>2
  <2> QED BY <1>7, <1>8, <2>3, <2>5, <2>6
<1>9. CASE title \notin {"net", "Amount"}
  <2>1. step + 1 = Len(flow)
    BY <1>2, <1>9 DEF Shape
  <2>2. Unread' = <<>> /\ <<>> \in Seq(Row)
    BY <1>1, <2>1 DEF Unread
  <2>3. RowsFrom(title) = <<Drawn(title)>> /\ <<Drawn(title)>> \in Seq(Row)
    BY <1>4, <1>5, <1>9 DEF RowsFrom
  <2>4. RowsFrom(title) = <<Drawn(title)>> \o <<>>
    BY <2>3, ConcatEmptySeq
  <2> QED BY <1>7, <1>9, <2>2, <2>4
<1> QED BY <1>6, <1>8, <1>9

\* The decision: approved past the last step, when nothing is unread.  What is
\* accepted after that approves nothing new.
LEMMA DecisionPromised ==
  ASSUME ButtonInv, RowsInv, Accept \/ Reject
  PROVE  RowsInv' /\ Promised
<1>1. CASE Accept
  <2>1. /\ screen = "flow" /\ step = Len(flow) /\ screen' = "info"
        /\ user_approved' = (user_approved \/ outputs_reviewed)
        /\ UNCHANGED <<phase, tx_in_progress, ux_amount, ux_address, changeTitleBuf,
                       told, read>>
    BY <1>1 DEF Accept, approve_if_terminal_review, Info, host, texts, history
  <2>2. tx_in_progress
    BY <2>1 DEF ButtonInv, OwedReplyHasItsFlow
  <2>3. Unread = <<>> /\ Unread' = <<>>
    BY <2>1 DEF Unread
  <2>4. told = read
    BY <2>2, <2>3, ConcatEmptySeq DEF RowsInv
  <2>5. user_approved' => phase = "end"
    BY <2>1 DEF ButtonInv, RowsInv
  <2>6. RowsInv'
    <3>1. told' = read' \o Unread'
      BY <2>1, <2>3, <2>4, ConcatEmptySeq DEF RowsInv
    <3> QED BY <2>1, <2>5, <3>1 DEF RowsInv, Shape
  <2>7. CASE outputs_reviewed /\ ~user_approved
    <3>1. user_approved' /\ phase = "end"
      BY <2>1, <2>5, <2>7
    <3> QED BY <2>1, <2>2, <2>4, <2>6, <2>7, <3>1 DEF Promised, Promise!Next, Promise!Approve
  <2>8. CASE ~outputs_reviewed \/ user_approved
    <3>1. user_approved' = user_approved
      BY <2>1, <2>8 DEF ButtonInv
    <3> QED BY <2>1, <2>6, <3>1, SameIsPromised
  <2> QED BY <2>7, <2>8
<1>2. CASE Reject
  <2>1. /\ ~tx_in_progress' /\ ~user_approved' /\ screen' = "info"
        /\ UNCHANGED <<ux_amount, ux_address, changeTitleBuf, told, read>>
    BY <1>2 DEF Reject, Info, texts, history
  <2>2. RowsInv'
    BY <2>1 DEF RowsInv, Shape
  <2> QED BY <2>1, <2>2, OverIsPromised
<1> QED BY <1>1, <1>2

LEMMA MenuPromised ==
  ASSUME ButtonInv, RowsInv,
         OpenTx \/ Click \/ ShowOwnAddress \/ LeaveAddress \/ ChangeSettings
  PROVE  RowsInv' /\ Promised
<1>1. CASE OpenTx
  <2>1. /\ phase' = "prefix" /\ tx_in_progress' /\ ~user_approved' /\ screen' = "info"
        /\ told' = <<>> /\ read' = <<>>
        /\ UNCHANGED <<ux_amount, ux_address, changeTitleBuf>>
    BY <1>1 DEF OpenTx, Info, texts
  <2>2. Unread' = <<>> /\ told' = read' \o Unread' /\ told' \in Seq(Row)
    <3>1. Unread' = <<>> /\ <<>> \in Seq(Row)
      BY <2>1 DEF Unread
    <3> QED BY <2>1, <3>1, ConcatEmptySeq
  <2>3. RowsInv'
    BY <2>1, <2>2 DEF RowsInv, Shape
  <2> QED BY <2>1, <2>3, BegunIsPromised
<1>2. CASE ChangeSettings
  <2>1. /\ ~tx_in_progress' /\ ~user_approved' /\ told' = <<>> /\ read' = <<>>
        /\ ux_amount' = Blank /\ ux_address' = OwnAddress /\ screen' # "flow"
        /\ UNCHANGED changeTitleBuf
    BY <1>2 DEF ChangeSettings, display
  <2>2. told' \in Seq(Row) /\ read' \in Seq(Row)
    BY <2>1
  <2>3. RowsInv'
    BY <2>1, <2>2 DEF RowsInv, Values, Shape
  <2> QED BY <2>1, <2>3, OverIsPromised
<1>3. CASE Click \/ ShowOwnAddress \/ LeaveAddress
  <2>1. /\ screen # "flow" /\ screen' # "flow"
        /\ UNCHANGED <<phase, tx_in_progress, user_approved, ux_amount, changeTitleBuf,
                       told, read>>
        /\ ux_address' \in {ux_address, OwnAddress}
    BY <1>3 DEF Click, ShowOwnAddress, LeaveAddress, host, texts, history
  <2>2. Unread' = Unread
    BY <2>1 DEF Unread
  <2>3. RowsInv'
    BY <2>1, <2>2 DEF RowsInv, Values, Shape
  <2> QED BY <2>1, <2>3, SameIsPromised
<1> QED BY <1>1, <1>2, <1>3

\* monero_ux_nano.c: what is approved on a button device was told and was read,
\* all of it and word for word, although every review ends in the same accept and
\* shows texts the menus write to.
THEOREM ButtonsKeepPromise == Spec => KeepsPromise
<1>1. Init => RowsInv /\ Promise!Init
  <2> SUFFICES ASSUME Init PROVE RowsInv /\ Promise!Init
    OBVIOUS
  <2>1. told \in Seq(Row) /\ read \in Seq(Row) /\ ~tx_in_progress /\ ~user_approved
    BY DEF Init
  <2>2. RowsInv
    BY <2>1 DEF Init, RowsInv, Values, Items
  <2> QED BY <2>1, <2>2 DEF Promise!Init
<1>2. ButtonInv /\ RowsInv /\ [Next]_vars => RowsInv' /\ Promised
  <2> SUFFICES ASSUME ButtonInv, RowsInv, [Next]_vars
               PROVE  RowsInv' /\ Promised
    OBVIOUS
  <2>1. CASE UNCHANGED vars
    <3>1. /\ UNCHANGED <<phase, tx_in_progress, user_approved, ux_amount, ux_address,
                         changeTitleBuf, screen, flow, step, told, read>>
      BY <2>1 DEF vars, host, texts, display, history
    <3>2. Unread' = Unread
      BY <3>1 DEF Unread, RowsFrom, Coming, Drawn
    <3>3. RowsInv'
      BY <3>1, <3>2 DEF RowsInv, Shape
    <3> QED BY <3>1, <3>3, SameIsPromised
  <2> QED BY <2>1, EarlyPromised, OutputPromised, NextStepPromised, DecisionPromised,
             MenuPromised DEF Next, User
<1> QED BY <1>1, <1>2, ButtonsAreSound, PTL DEF Spec, KeepsPromise, Promised, Promise!Spec
=============================================================================
