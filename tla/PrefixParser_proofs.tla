------------------------ MODULE PrefixParser_proofs ------------------------
(***************************************************************************)
(* Proofs about the prefix parser, for every stream, every way to cut it   *)
(* into chunks and every size of its fields.                               *)
(***************************************************************************)
EXTENDS PrefixParser, TLAPS

\* While the parser goes on, each state has room for what it is about to take:
\* the counters it will count down are positive, and what is left of a field fits
\* into what is left of `extra`.
Room ==
  sw = "ok" =>
    /\ state \in {"VIN_TAG", "VIN_AMOUNT", "VIN_OFF_CNT", "VIN_OFF", "VIN_KIMG"} =>
         vin_remaining >= 1
    /\ state = "VIN_OFF" => off_remaining >= 1
    /\ state \in {"VOUT_AMOUNT", "VOUT_TAG", "VOUT_KEY", "VOUT_VTAG"} =>
         vout_remaining >= 1
    /\ state \in {"VIN_KIMG", "VOUT_KEY", "EXTRA_PUBKEY", "EXTRA_ADDK"} =>
         field_off < KeySize
    /\ state = "EXTRA_NONCE_PID" => field_off < PidSize
    /\ state = "EXTRA_TAG" => extra_remaining >= 1
    /\ state = "EXTRA_PUBKEY" => extra_remaining >= KeySize - field_off
    /\ state = "EXTRA_NONCE_PID" => extra_remaining >= PidSize - field_off /\ tx.pid # <<>>
    /\ state = "EXTRA_ADDK" =>
         off_remaining >= 1 /\ extra_remaining >= off_remaining * KeySize - field_off
    /\ state \in {"EXTRA_SKIP", "EXTRA_PADDING"} => off_remaining <= extra_remaining

\* TypeOK in three parts: the flags, what a turn of the loop reads, what it moves.
Flags    == /\ more \in BOOLEAN /\ extra_acc \in BOOLEAN /\ outkeys_done \in BOOLEAN
            /\ found \subseteq {"R", "ADDK", "PID"}
Window   == tx \in Tx /\ stream \in Seq(Byte) /\ lim \in 0..Len(stream)
Measures ==
  /\ pos \in 0..lim
  /\ sw \in {"ok", "refused", "finalized"}
  /\ state \in PfxStates
  /\ vi_val \in Nat /\ vi_unit \in Nat
  /\ outkey_tag \in {0, 2, 3}

Counted == Window /\ Measures /\ NoWrap /\ Room

USE ParserConstantsOK

LEMMA TypeInParts == TypeOK <=> Flags /\ Window /\ Measures
BY Zenon DEF TypeOK, Flags, Window, Measures

LEMMA LimNat == ASSUME Window PROVE lim \in Nat /\ Len(stream) \in Nat
BY DEF Window

LEMMA StatesNamed ==
  /\ "VIN_TAG" \in PfxStates
  /\ "VIN_AMOUNT" \in PfxStates
  /\ "VIN_OFF_CNT" \in PfxStates
  /\ "VIN_OFF" \in PfxStates
  /\ "VIN_KIMG" \in PfxStates
  /\ "VOUT_CNT" \in PfxStates
  /\ "VOUT_AMOUNT" \in PfxStates
  /\ "VOUT_TAG" \in PfxStates
  /\ "VOUT_KEY" \in PfxStates
  /\ "VOUT_VTAG" \in PfxStates
  /\ "EXTRA_LEN" \in PfxStates
  /\ "EXTRA_TAG" \in PfxStates
  /\ "EXTRA_PUBKEY" \in PfxStates
  /\ "EXTRA_ADDK_CNT" \in PfxStates
  /\ "EXTRA_ADDK" \in PfxStates
  /\ "EXTRA_NONCE_LEN" \in PfxStates
  /\ "EXTRA_NONCE_PID" \in PfxStates
  /\ "EXTRA_TLV_LEN" \in PfxStates
  /\ "EXTRA_SKIP" \in PfxStates
  /\ "EXTRA_PADDING" \in PfxStates
  /\ "DONE" \in PfxStates
BY DEF PfxStates

\* The byte at hand is a number, and what a varint holds with it is one.
LEMMA ByteAtHand ==
  ASSUME Window, Measures, pos < lim
  PROVE  /\ c \in Byte /\ c \in Nat /\ Value \in Nat /\ vi_unit * Base \in Nat
         /\ lim \in Nat /\ pos + 1 \in 0..lim
<1>1. lim \in Nat /\ pos \in Nat /\ pos + 1 \in 0..lim
  BY LimNat DEF Measures
<1>2. c \in Byte
  BY <1>1 DEF Window, Measures, c
<1>3. c \in Nat /\ c % Base \in Nat
  BY <1>2
<1>4. \A a, b \in Nat : a * b \in Nat
  OBVIOUS
<1>5. vi_val \in Nat /\ vi_unit \in Nat /\ Base \in Nat
  BY DEF Measures
<1>6. (c % Base) * vi_unit \in Nat /\ vi_unit * Base \in Nat
  BY <1>3, <1>4, <1>5
<1> QED
  BY <1>1, <1>2, <1>3, <1>5, <1>6 DEF Value

\* What is taken is between nothing and all that is asked for, and was received.
LEMMA TakenFits ==
  ASSUME Window, Measures, pos < lim, NEW n \in Nat
  PROVE  /\ Taken(n) \in 0..n /\ pos + Taken(n) \in 0..lim /\ lim \in Nat
         /\ n > 0 => Taken(n) > 0
BY LimNat DEF Measures, Taken

LEMMA CountedInit == Init => Counted
<1> SUFFICES ASSUME Init PROVE Counted
  OBVIOUS
<1>1. PICK p \in Cases : tx = p.tx /\ stream = p.stream
  BY DEF Init
<1>2. tx \in Tx /\ stream \in Seq(Byte)
  BY <1>1
<1>3. Len(stream) \in Nat /\ KeySize \in Nat /\ PidSize \in Nat
  BY <1>2
<1>4. Window /\ Measures
  BY <1>2, <1>3 DEF Init, Window, Measures, PfxStates
<1>5. NoWrap
  BY <1>3 DEF Init, NoWrap
<1>6. Room
  BY DEF Init, Room
<1> QED
  BY <1>4, <1>5, <1>6 DEF Counted

-----------------------------------------------------------------------------
(* Inputs and outputs. *)

LEMMA FieldFits ==
  \A n \in 0..KeySize : n \in 0..(IF KeySize > PidSize THEN KeySize ELSE PidSize)
OBVIOUS

\* A turn that does not change the input keeps the window.
LEMMA WindowKept == ASSUME Window, UNCHANGED input PROVE Window'
BY DEF Window, input

LEMMA CountedInputs ==
  ASSUME Counted, UNCHANGED input,
         VinCnt \/ VinTag \/ VinAmount \/ VinOffCnt \/ VinOff \/ VinKimg
  PROVE  Counted'
<1> USE DEF Counted, input, varint, counters, field, verdict, At, Eat, Refuse,
            Enter, pfx_enter_varint, Varint, Accumulate, NextOffset
<1>1. /\ pos < lim /\ c \in Nat /\ Value \in Nat /\ vi_unit * Base \in Nat
      /\ lim \in Nat /\ pos + 1 \in 0..lim
  BY ByteAtHand DEF VinCnt, VinTag, VinAmount, VinOffCnt, VinOff, VinKimg
<1>2. Window'
  BY WindowKept
<1>3. CASE VinCnt
  <2>1. Measures'
    BY StatesNamed, <1>1, <1>3 DEF VinCnt, Measures
  <2>2. NoWrap' /\ Room'
    BY <1>1, <1>3 DEF VinCnt, NoWrap, Room
  <2> QED
    BY <1>2, <2>1, <2>2
<1>4. CASE VinTag
  <2>1. Measures'
    BY StatesNamed, <1>1, <1>4 DEF VinTag, Measures
  <2>2. NoWrap' /\ Room'
    BY <1>1, <1>4 DEF VinTag, NoWrap, Room
  <2> QED
    BY <1>2, <2>1, <2>2
<1>5. CASE VinAmount
  <2>1. Measures'
    BY StatesNamed, <1>1, <1>5 DEF VinAmount, Measures
  <2>2. NoWrap' /\ Room'
    BY <1>1, <1>5 DEF VinAmount, NoWrap, Room
  <2> QED
    BY <1>2, <2>1, <2>2
<1>6. CASE VinOffCnt
  <2>1. Measures'
    BY StatesNamed, <1>1, <1>6 DEF VinOffCnt, Measures
  <2>2. NoWrap' /\ Room'
    BY <1>1, <1>6 DEF VinOffCnt, NoWrap, Room
  <2> QED
    BY <1>2, <2>1, <2>2
<1>7. CASE VinOff
  <2>1. Measures'
    BY StatesNamed, <1>1, <1>7 DEF VinOff, Measures
  <2>2. NoWrap' /\ Room'
    BY <1>1, <1>7 DEF VinOff, NoWrap, Room
  <2> QED
    BY <1>2, <2>1, <2>2
<1>8. CASE VinKimg
  <2>1. KeySize - field_off \in Nat
    BY <1>8 DEF VinKimg, NoWrap, Room
  <2>2. /\ Taken(KeySize - field_off) \in 0..(KeySize - field_off)
        /\ pos + Taken(KeySize - field_off) \in 0..lim
    BY <1>1, <2>1, TakenFits
  <2>3. Measures'
    BY StatesNamed, <1>1, <1>8, <2>1, <2>2 DEF VinKimg, Stay, Measures, NoWrap
  <2>4. NoWrap'
    BY FieldFits, <1>1, <1>8, <2>1, <2>2 DEF VinKimg, Stay, NoWrap, Room
  <2>5. Room'
    BY <1>1, <1>8, <2>1, <2>2 DEF VinKimg, Stay, NoWrap, Room
  <2> QED
    BY <1>2, <2>3, <2>4, <2>5
<1> QED
  BY <1>3, <1>4, <1>5, <1>6, <1>7, <1>8

\* How an output ends, the transcript left aside.
OutputEnds(left) ==
  /\ vout_remaining' = left
  /\ UNCHANGED <<vin_remaining, off_remaining, extra_remaining>>
  /\ \/ left > 0 /\ sw' = sw /\ state' = "VOUT_AMOUNT" /\ vi_val' = 0 /\ vi_unit' = 1
     \/ sw' = sw /\ state' = "EXTRA_LEN" /\ vi_val' = 0 /\ vi_unit' = 1
     \/ sw' = "refused" /\ UNCHANGED <<state, vi_val, vi_unit>>

LEMMA OutputEndsHow ==
  ASSUME NEW left, NEW hashed, NextOutput(left, hashed)
  PROVE  OutputEnds(left)
BY DEF NextOutput, OutputEnds, pfx_enter_varint, varint

LEMMA CountedOutputs ==
  ASSUME Counted, UNCHANGED input,
         VoutCnt \/ VoutAmount \/ VoutTag \/ VoutKey \/ VoutVtag
  PROVE  Counted'
<1> USE DEF Counted, input, varint, counters, field, verdict, At, Eat, Refuse,
            Enter, pfx_enter_varint, Stay, Varint, Accumulate, NextOutput
<1>1. /\ pos < lim /\ c \in Nat /\ Value \in Nat /\ vi_unit * Base \in Nat
      /\ lim \in Nat /\ pos + 1 \in 0..lim
  BY ByteAtHand DEF VoutCnt, VoutAmount, VoutTag, VoutKey, VoutVtag
<1>2. Window'
  BY WindowKept
<1>3. CASE VoutCnt
  <2>1. Measures'
    BY StatesNamed, <1>1, <1>3 DEF VoutCnt, Measures, NoWrap
  <2>2. NoWrap'
    BY <1>1, <1>3 DEF VoutCnt, NoWrap, Room
  <2>3. Room'
    BY <1>1, <1>3 DEF VoutCnt, NoWrap, Room
  <2> QED
    BY <1>2, <2>1, <2>2, <2>3
<1>4. CASE VoutAmount
  <2>1. Measures'
    BY StatesNamed, <1>1, <1>4 DEF VoutAmount, Measures, NoWrap
  <2>2. NoWrap'
    BY <1>1, <1>4 DEF VoutAmount, NoWrap, Room
  <2>3. Room'
    BY <1>1, <1>4 DEF VoutAmount, NoWrap, Room
  <2> QED
    BY <1>2, <2>1, <2>2, <2>3
<1>5. CASE VoutTag
  <2>1. Measures'
    BY StatesNamed, <1>1, <1>5 DEF VoutTag, Measures, NoWrap
  <2>2. NoWrap'
    BY <1>1, <1>5 DEF VoutTag, NoWrap, Room
  <2>3. Room'
    BY <1>1, <1>5 DEF VoutTag, NoWrap, Room
  <2> QED
    BY <1>2, <2>1, <2>2, <2>3
<1>6. CASE VoutKey
  <2> DEFINE take == Taken(KeySize - field_off)
  <2>1. KeySize - field_off \in Nat
    BY <1>6 DEF VoutKey, NoWrap, Room
  <2>2. take \in 0..(KeySize - field_off) /\ pos + take \in 0..lim
    BY <1>1, <2>1, TakenFits
  <2>3. /\ sw = "ok" /\ state = "VOUT_KEY" /\ vout_remaining >= 1
        /\ pos' = pos + take /\ field_off' = field_off + take
        /\ UNCHANGED outkey_tag
    BY <1>6 DEF VoutKey, Room
  <2>4. \/ OutputEnds(vout_remaining - 1)
        \/ /\ field_off + take = KeySize /\ state' = "VOUT_VTAG"
           /\ UNCHANGED <<sw, vi_val, vi_unit, counters>>
        \/ /\ field_off + take # KeySize
           /\ UNCHANGED <<sw, state, vi_val, vi_unit, counters>>
    BY <1>6, OutputEndsHow DEF VoutKey
  <2> HIDE DEF take
  <2>5. Measures'
    BY StatesNamed, <1>1, <2>1, <2>2, <2>3, <2>4 DEF OutputEnds, Measures, NoWrap
  <2>6. NoWrap'
    BY FieldFits, <1>1, <2>1, <2>2, <2>3, <2>4 DEF OutputEnds, NoWrap
  <2>7. Room'
    BY <1>1, <2>1, <2>2, <2>3, <2>4 DEF OutputEnds, NoWrap, Room
  <2> QED
    BY <1>2, <2>5, <2>6, <2>7
<1>7. CASE VoutVtag
  <2>1. Measures'
    BY StatesNamed, <1>1, <1>7 DEF VoutVtag, Measures, NoWrap
  <2>2. NoWrap'
    BY <1>1, <1>7 DEF VoutVtag, NoWrap, Room
  <2>3. Room'
    BY <1>1, <1>7 DEF VoutVtag, NoWrap, Room
  <2> QED
    BY <1>2, <2>1, <2>2, <2>3
<1> QED
  BY <1>3, <1>4, <1>5, <1>6, <1>7

-----------------------------------------------------------------------------
(* `extra`. *)

\* How a field of `extra` ends, what was found left aside.
FieldEnds(left) ==
  /\ extra_remaining' = left
  /\ \/ left > 0 /\ sw' = sw /\ state' = "EXTRA_TAG" /\ UNCHANGED <<vi_val, vi_unit>>
     \/ sw' = sw /\ state' = "DONE" /\ UNCHANGED <<vi_val, vi_unit>>
     \/ sw' = "refused" /\ UNCHANGED <<state, vi_val, vi_unit>>

LEMMA FieldEndsHow ==
  ASSUME NEW left, NEW seen, NextField(left, seen)
  PROVE  FieldEnds(left)
BY DEF NextField, FieldEnds, Enter, varint

\* R and the payment ID: so many bytes more, and perhaps the end of the field.
LEMMA CountedCompare ==
  ASSUME Counted, UNCHANGED input, pos < lim, sw = "ok",
         NEW size \in {KeySize, PidSize}, NEW want, NEW name, Compare(want, size, name),
         size - field_off \in Nat, extra_remaining >= size - field_off,
         \/ state = "EXTRA_PUBKEY" /\ size = KeySize
         \/ state = "EXTRA_NONCE_PID" /\ size = PidSize
  PROVE  Counted'
<1> DEFINE take == Taken(size - field_off)
<1>1. take \in 0..(size - field_off) /\ pos + take \in 0..lim /\ lim \in Nat
  BY TakenFits DEF Counted
<1>2. /\ pos' = pos + take /\ field_off' = field_off + take
      /\ UNCHANGED <<vin_remaining, off_remaining, vout_remaining, outkey_tag, tx>>
  BY DEF Compare, Eat, input
<1>3. \/ FieldEnds(extra_remaining - take)
      \/ /\ sw' = "refused" /\ UNCHANGED <<state, vi_val, vi_unit, extra_remaining>>
      \/ /\ field_off + take < size
         /\ extra_remaining' = extra_remaining - take
         /\ UNCHANGED <<sw, state, vi_val, vi_unit>>
  BY FieldEndsHow DEF Compare, Stay, varint
<1> HIDE DEF take
<1>4. Window'
  BY WindowKept DEF Counted
<1>5. Measures'
  BY StatesNamed, <1>1, <1>2, <1>3 DEF FieldEnds, Counted, Measures, NoWrap, input
<1>6. NoWrap'
  BY <1>1, <1>2, <1>3 DEF FieldEnds, Counted, NoWrap
<1>7. Room'
  BY <1>1, <1>2, <1>3 DEF FieldEnds, Counted, NoWrap, Room
<1> QED
  BY <1>4, <1>5, <1>6, <1>7 DEF Counted

\* Skipped bytes and padding.
LEMMA CountedPassOver ==
  ASSUME Counted, UNCHANGED input, pos < lim, sw = "ok",
         NEW zeros \in BOOLEAN, PassOver(zeros),
         state \in {"EXTRA_SKIP", "EXTRA_PADDING"}
  PROVE  Counted'
<1> DEFINE take == Taken(off_remaining)
<1>1. take \in 0..off_remaining /\ pos + take \in 0..lim /\ lim \in Nat
  BY TakenFits DEF Counted, NoWrap
<1>2. \/ Refuse
      \/ /\ pos' = pos + take /\ off_remaining' = off_remaining - take
         /\ UNCHANGED <<vin_remaining, vout_remaining, field_off, outkey_tag>>
         /\ \/ FieldEnds(extra_remaining - take)
            \/ /\ extra_remaining' = extra_remaining - take
               /\ UNCHANGED <<sw, state, vi_val, vi_unit>>
  BY FieldEndsHow DEF PassOver, Stay, varint, field, Eat
<1> HIDE DEF take
<1> USE DEF FieldEnds, Counted, NoWrap, Refuse, varint, counters, field
<1>3. Window'
  BY WindowKept
<1>4. Measures'
  BY StatesNamed, <1>1, <1>2 DEF Measures, input
<1>5. NoWrap'
  BY <1>1, <1>2 DEF Room
<1>6. Room'
  BY <1>1, <1>2 DEF Room
<1> QED
  BY <1>3, <1>4, <1>5, <1>6

LEMMA CountedExtra ==
  ASSUME Counted, UNCHANGED input,
         \/ ExtraLen \/ ExtraTag \/ ExtraPubkey \/ ExtraAddkCnt \/ ExtraAddk
         \/ ExtraNonceLen \/ ExtraNoncePid \/ ExtraTlvLen \/ ExtraSkip
         \/ ExtraPadding \/ Done
  PROVE  Counted'
<1> USE DEF Counted, input, varint, counters, field, verdict, At, Eat, Refuse,
            Enter, pfx_enter_varint, Accumulate
<1>1. /\ pos < lim /\ c \in Nat /\ Value \in Nat /\ vi_unit * Base \in Nat
      /\ lim \in Nat /\ pos + 1 \in 0..lim
  BY ByteAtHand DEF ExtraLen, ExtraTag, ExtraPubkey, ExtraAddkCnt, ExtraAddk,
     ExtraNonceLen, ExtraNoncePid, ExtraTlvLen, ExtraSkip, ExtraPadding, Done
<1>2. Window'
  BY WindowKept
<1>3. CASE ExtraLen
  <2>1. /\ sw = "ok" /\ state = "EXTRA_LEN"
        /\ UNCHANGED <<vin_remaining, off_remaining, vout_remaining, outkey_tag,
                       field_off, tx>>
        /\ \/ Refuse
           \/ pos' = pos + 1 /\ Accumulate /\ UNCHANGED extra_remaining
           \/ pos' = pos + 1 /\ FieldEnds(Value)
    BY <1>3, FieldEndsHow DEF ExtraLen, Varint
  <2>2. Measures'
    BY StatesNamed, <1>1, <2>1 DEF FieldEnds, Measures
  <2>3. NoWrap' /\ Room'
    BY <1>1, <2>1 DEF FieldEnds, NoWrap, Room
  <2> QED
    BY <1>2, <2>2, <2>3
<1>4. CASE ExtraTag
  <2> DEFINE left == extra_remaining - 1
  <2>1. sw = "ok" /\ extra_remaining >= 1 /\ UNCHANGED tx
    BY <1>4 DEF ExtraTag, Room
  <2>2. \/ Refuse
        \/ /\ pos' = pos + 1 /\ extra_remaining' = left /\ sw' = sw
           /\ UNCHANGED <<vin_remaining, vout_remaining, outkey_tag>>
           /\ \/ left >= KeySize /\ field_off' = 0 /\ state' = "EXTRA_PUBKEY"
                 /\ UNCHANGED <<vi_val, vi_unit, off_remaining>>
              \/ /\ state' \in {"EXTRA_ADDK_CNT", "EXTRA_TLV_LEN"}
                 /\ vi_val' = 0 /\ vi_unit' = 1 /\ UNCHANGED <<field_off, off_remaining>>
              \/ state' = "EXTRA_NONCE_LEN" /\ UNCHANGED <<vi_val, vi_unit, field_off, off_remaining>>
              \/ /\ state' = "EXTRA_PADDING" /\ off_remaining' = left
                 /\ UNCHANGED <<vi_val, vi_unit, field_off>>
    <3>1. CASE ~TagAllowed(c, left)
      BY Zenon, <1>4, <3>1 DEF ExtraTag
    <3>2. CASE TagAllowed(c, left)
      <4>1. /\ pos' = pos + 1 /\ extra_remaining' = left
            /\ UNCHANGED <<vin_remaining, vout_remaining, outkey_tag>>
            /\ TagLeadsTo(c, left)
        BY <1>4, <3>2 DEF ExtraTag
      <4>2. c = 1 => left >= KeySize
        BY <3>2 DEF TagAllowed
      <4> QED
        BY Zenon, <4>1, <4>2 DEF TagLeadsTo
    <3> QED
      BY <3>1, <3>2
  <2>3. left \in Nat
    BY <2>1 DEF NoWrap
  <2> HIDE DEF left
  <2>4. Measures'
    BY StatesNamed, <1>1, <2>1, <2>2 DEF Measures
  <2>5. NoWrap'
    BY FieldFits, <1>1, <2>1, <2>2, <2>3 DEF NoWrap
  <2>6. Room'
    BY <1>1, <2>1, <2>2, <2>3 DEF NoWrap, Room
  <2> QED
    BY <1>2, <2>4, <2>5, <2>6
<1>5. CASE ExtraPubkey
  BY <1>1, <1>5, CountedCompare DEF ExtraPubkey, NoWrap, Room
<1>6. CASE ExtraNoncePid
  BY <1>1, <1>6, CountedCompare DEF ExtraNoncePid, NoWrap, Room
<1>7. CASE ExtraAddkCnt
  <2>1. tx_output_cnt > 0 \/ tx.addk = <<>>
    BY DEF Window, Tx, tx_output_cnt
  <2>2. Measures'
    BY StatesNamed, <1>1, <1>7 DEF ExtraAddkCnt, ExtraVarint, Measures, NoWrap
  <2>3. /\ off_remaining' \in {Value, off_remaining} /\ field_off' \in {0, field_off}
        /\ \/ extra_remaining' = extra_remaining
           \/ extra_remaining # 0 /\ extra_remaining' = extra_remaining - 1
        /\ UNCHANGED <<vin_remaining, vout_remaining>>
    BY <1>7 DEF ExtraAddkCnt, ExtraVarint
  <2>5. NoWrap'
    BY FieldFits, <1>1, <2>3 DEF NoWrap
  <2>4. Room'
    BY <1>1, <1>7, <2>1 DEF ExtraAddkCnt, ExtraVarint, NoWrap, Room
  <2> QED
    BY <1>2, <2>2, <2>5, <2>4
<1>8. CASE ExtraAddk
  <2> DEFINE take == Taken(KeySize - field_off)
  <2>1. KeySize - field_off \in Nat
    BY <1>8 DEF ExtraAddk, NoWrap, Room
  <2>2. take \in 0..(KeySize - field_off) /\ pos + take \in 0..lim
    BY <1>1, <2>1, TakenFits
  <2>3. /\ sw = "ok" /\ state = "EXTRA_ADDK" /\ pos' = pos + take
        /\ field_off' = (IF field_off + take = KeySize THEN 0 ELSE field_off + take)
        /\ off_remaining' = (IF field_off + take = KeySize THEN off_remaining - 1
                                                           ELSE off_remaining)
        /\ UNCHANGED <<vin_remaining, vout_remaining, outkey_tag, tx>>
        /\ \/ /\ ~(field_off + take = KeySize /\ off_remaining = 1)
              /\ extra_remaining' = extra_remaining - take
              /\ UNCHANGED <<sw, state, vi_val, vi_unit>>
           \/ /\ field_off + take = KeySize /\ off_remaining = 1
              /\ \/ FieldEnds(extra_remaining - take)
                 \/ sw' = "refused" /\ UNCHANGED <<state, vi_val, vi_unit, extra_remaining>>
    BY <1>8, FieldEndsHow DEF ExtraAddk, Stay
  <2>4. off_remaining >= 1 /\ extra_remaining >= off_remaining * KeySize - field_off
    BY <1>8 DEF ExtraAddk, Room
  <2> HIDE DEF take
  <2>5. /\ off_remaining * KeySize \in Nat
        /\ (off_remaining - 1) * KeySize = off_remaining * KeySize - KeySize
        /\ (off_remaining - 1) * KeySize \in Nat
    BY <2>4 DEF NoWrap
  <2>6. Measures'
    BY StatesNamed, <1>1, <2>1, <2>2, <2>3 DEF FieldEnds, Measures, NoWrap
  <2>7. extra_remaining - take \in Nat
    BY <2>1, <2>2, <2>4, <2>5 DEF NoWrap
  <2>8. NoWrap'
    BY FieldFits, <1>1, <2>1, <2>2, <2>3, <2>4, <2>7 DEF FieldEnds, NoWrap
  <2>9. Room'
    BY <1>1, <2>1, <2>2, <2>3, <2>4, <2>5, <2>7 DEF FieldEnds, NoWrap, Room
  <2> QED
    BY <1>2, <2>6, <2>8, <2>9
<1>9. CASE ExtraNonceLen
  <2>1. Measures'
    BY StatesNamed, <1>1, <1>9 DEF ExtraNonceLen, Measures, NoWrap
  <2>2. NoWrap'
    BY <1>1, <1>9 DEF ExtraNonceLen, NoWrap, Room
  <2>3. Room'
    BY <1>1, <1>9 DEF ExtraNonceLen, NoWrap, Room
  <2> QED
    BY <1>2, <2>1, <2>2, <2>3
<1>10. CASE ExtraTlvLen
  <2>1. Measures'
    BY StatesNamed, <1>1, <1>10 DEF ExtraTlvLen, ExtraVarint,  Measures, NoWrap
  <2>2. NoWrap'
    BY <1>1, <1>10 DEF ExtraTlvLen, ExtraVarint,  NoWrap, Room
  <2>3. Room'
    BY <1>1, <1>10 DEF ExtraTlvLen, ExtraVarint,  NoWrap, Room
  <2> QED
    BY <1>2, <2>1, <2>2, <2>3
<1>11. CASE ExtraSkip
  BY <1>1, <1>11, CountedPassOver DEF ExtraSkip
<1>12. CASE ExtraPadding
  BY <1>1, <1>12, CountedPassOver DEF ExtraPadding
<1>13. CASE Done
  <2>1. Measures'
    BY StatesNamed, <1>1, <1>13 DEF Done, Measures, NoWrap
  <2>2. NoWrap'
    BY <1>1, <1>13 DEF Done, NoWrap, Room
  <2>3. Room'
    BY <1>1, <1>13 DEF Done, NoWrap, Room
  <2> QED
    BY <1>2, <2>1, <2>2, <2>3
<1> QED
  BY <1>3, <1>4, <1>5, <1>6, <1>7, <1>8, <1>9, <1>10, <1>11, <1>12, <1>13

-----------------------------------------------------------------------------
(* The invariant. *)

LEMMA CountedChunks ==
  ASSUME Counted,
         (\E n \in 0..MaxChunk, announced \in BOOLEAN : Chunk(n, announced)) \/ LastChunk
  PROVE  Counted'
<1>1. CASE LastChunk
  <2>1. UNCHANGED <<tx, stream, lim, pos, state, vi_val, vi_unit, counters, field_off,
                    outkey_tag>> /\ sw' \in {"finalized", "refused"}
    BY <1>1 DEF LastChunk, input, varint, field
  <2> QED
    BY <2>1 DEF Counted, Window, Measures, NoWrap, Room, counters
<1>2. CASE \E n \in 0..MaxChunk, announced \in BOOLEAN : Chunk(n, announced)
  <2>1. PICK n \in 0..MaxChunk, announced \in BOOLEAN : Chunk(n, announced)
    BY <1>2
  <2>2. /\ n \in Nat /\ n <= Len(stream) - lim /\ lim' = lim + n /\ pos = lim
        /\ UNCHANGED <<tx, stream, pos, sw, state, vi_val, vi_unit, counters, field_off,
                       outkey_tag>>
    BY <2>1 DEF Chunk, varint, field
  <2>3. lim \in Nat /\ Len(stream) \in Nat
    BY LimNat DEF Counted
  <2> QED
    BY <2>2, <2>3 DEF Counted, Window, Measures, NoWrap, Room, counters
<1> QED
  BY <1>1, <1>2

\* Before `extra`, nothing is found and nothing is done, and `extra` is reached
\* with the transcript of the derivations.
InExtra == {"EXTRA_LEN", "EXTRA_TAG", "EXTRA_PUBKEY", "EXTRA_ADDK_CNT", "EXTRA_ADDK",
            "EXTRA_NONCE_LEN", "EXTRA_NONCE_PID", "EXTRA_TLV_LEN", "EXTRA_SKIP",
            "EXTRA_PADDING", "DONE"}

\* What makes DoneIsVerified inductive.
Verified ==
  /\ state \in InExtra => out_eph = OUT_EPH
  /\ outkeys_done => state = "DONE" /\ Required \subseteq found

InputTurn  == VinCnt \/ VinTag \/ VinAmount \/ VinOffCnt \/ VinOff \/ VinKimg
OutputTurn == VoutCnt \/ VoutAmount \/ VoutTag \/ VoutKey \/ VoutVtag
ExtraTurn  == \/ ExtraLen \/ ExtraTag \/ ExtraPubkey \/ ExtraAddkCnt \/ ExtraAddk
              \/ ExtraNonceLen \/ ExtraNoncePid \/ ExtraTlvLen \/ ExtraSkip
              \/ ExtraPadding

LEMMA InputTurnHow ==
  ASSUME InputTurn
  PROVE  state \notin InExtra /\ state' \notin InExtra /\ UNCHANGED <<verdict, extra_acc>>
<1> USE DEF InExtra, At, Refuse, Enter, pfx_enter_varint, Stay, Varint, Accumulate,
            NextOffset, varint, field
<1>1. CASE VinCnt
  BY <1>1 DEF VinCnt
<1>2. CASE VinTag
  BY <1>2 DEF VinTag
<1>3. CASE VinAmount
  BY <1>3 DEF VinAmount
<1>4. CASE VinOffCnt
  BY <1>4 DEF VinOffCnt
<1>5. CASE VinOff
  BY <1>5 DEF VinOff
<1>6. CASE VinKimg
  BY <1>6 DEF VinKimg
<1> QED
  BY <1>1, <1>2, <1>3, <1>4, <1>5, <1>6 DEF InputTurn

LEMMA OutputTurnHow ==
  ASSUME OutputTurn
  PROVE  /\ state \notin InExtra /\ UNCHANGED <<verdict, extra_acc>>
         /\ state' \in InExtra => out_eph' = OUT_EPH
<1> USE DEF InExtra, At, Refuse, Enter, pfx_enter_varint, Stay, Varint, Accumulate,
            NextOutput, varint, field
<1>1. CASE VoutCnt
  BY <1>1 DEF VoutCnt
<1>2. CASE VoutAmount
  BY <1>2 DEF VoutAmount
<1>3. CASE VoutTag
  BY <1>3 DEF VoutTag
<1>4. CASE VoutKey
  BY <1>4 DEF VoutKey
<1>5. CASE VoutVtag
  BY <1>5 DEF VoutVtag
<1> QED
  BY <1>1, <1>2, <1>3, <1>4, <1>5 DEF OutputTurn

Names == {"R", "ADDK", "PID"}

\* A turn within `extra` leaves the verdict alone, or ends a field.
LEMMA ExtraTurnHow ==
  ASSUME ExtraTurn, extra_acc \in BOOLEAN
  PROVE  /\ state \in InExtra \ {"DONE"} /\ out_eph' = out_eph /\ extra_acc' \in BOOLEAN
         /\ \/ UNCHANGED verdict
            \/ \E left : \/ NextField(left, found)
                         \/ \E name \in Names : NextField(left, found \cup {name})
<1> USE DEF InExtra, At, Refuse, Stay, Varint, Accumulate, ExtraVarint, Enter,
            field, digests
<1>1. CASE ExtraLen
  BY <1>1 DEF ExtraLen
<1>2. CASE ExtraTag
  BY <1>2 DEF ExtraTag, TagLeadsTo
<1>3. CASE ExtraPubkey
  BY <1>3 DEF ExtraPubkey, Compare, Differs, Names
<1>4. CASE ExtraAddkCnt
  BY <1>4 DEF ExtraAddkCnt
<1>5. CASE ExtraAddk
  BY <1>5 DEF ExtraAddk, Names
<1>6. CASE ExtraNonceLen
  BY <1>6 DEF ExtraNonceLen
<1>7. CASE ExtraNoncePid
  BY <1>7 DEF ExtraNoncePid, Compare, Differs, Names
<1>8. CASE ExtraTlvLen
  BY <1>8 DEF ExtraTlvLen
<1>9. CASE ExtraSkip
  BY <1>9 DEF ExtraSkip, PassOver
<1>10. CASE ExtraPadding
  BY <1>10 DEF ExtraPadding, PassOver
<1> QED
  BY <1>1, <1>2, <1>3, <1>4, <1>5, <1>6, <1>7, <1>8, <1>9, <1>10 DEF ExtraTurn

LEMMA TurnIsOne == Turn <=> InputTurn \/ OutputTurn \/ ExtraTurn \/ Done
BY DEF Turn, InputTurn, OutputTurn, ExtraTurn

\* A field ends: what was found stays within Names, and done means verified.
LEMMA NextFieldVerdict ==
  ASSUME Flags, ~outkeys_done, NEW left, NEW seen, seen \subseteq Names,
         NextField(left, seen), UNCHANGED tx
  PROVE  /\ found' \subseteq Names /\ outkeys_done' \in BOOLEAN
         /\ outkeys_done' => state' = "DONE" /\ Required' \subseteq found'
<1>1. found' = seen
  BY DEF NextField
<1>2. \/ outkeys_done' = outkeys_done
      \/ outkeys_done' = TRUE /\ state' = "DONE" /\ Required \subseteq seen
  BY Zenon DEF NextField, Enter
<1>3. Required' = Required
  BY DEF Required
<1>4. CASE outkeys_done' = outkeys_done
  BY Zenon, <1>1, <1>4 DEF Flags
<1>5. CASE outkeys_done' = TRUE /\ state' = "DONE" /\ Required \subseteq seen
  BY Zenon, <1>1, <1>3, <1>5
<1> QED
  BY Zenon, <1>2, <1>4, <1>5

\* The flags and the verdict, through every step.
LEMMA VerdictStep ==
  ASSUME Flags, Verified, [Next]_vars
  PROVE  Flags' /\ Verified'
<1> USE DEF Names
<1>1. CASE UNCHANGED vars
  <2>1. UNCHANGED <<tx, more, state, extra_acc, out_eph, found, outkeys_done>>
    BY <1>1 DEF vars, input, field, digests, verdict
  <2>2. Required' = Required /\ OUT_EPH' = OUT_EPH
    BY <2>1 DEF Required, OUT_EPH, Transcript
  <2> QED
    BY Zenon, <2>1, <2>2 DEF Flags, Verified
<1>2. CASE \E n \in 0..MaxChunk, announced \in BOOLEAN : Chunk(n, announced)
  <2>1. PICK n \in 0..MaxChunk, announced \in BOOLEAN : Chunk(n, announced)
    BY <1>2
  <2>2. /\ UNCHANGED <<tx, state, extra_acc, out_eph, found, outkeys_done>>
        /\ more' \in BOOLEAN
    BY <2>1 DEF Chunk, field, digests, verdict
  <2>3. Required' = Required /\ OUT_EPH' = OUT_EPH
    BY <2>2 DEF Required, OUT_EPH, Transcript
  <2> QED
    BY Zenon, <2>2, <2>3 DEF Flags, Verified
<1>3. CASE LastChunk
  <2>1. UNCHANGED <<tx, more, state, extra_acc, out_eph, found, outkeys_done>>
    BY <1>3 DEF LastChunk, input, field, digests, verdict
  <2>2. Required' = Required /\ OUT_EPH' = OUT_EPH
    BY <2>1 DEF Required, OUT_EPH, Transcript
  <2> QED
    BY Zenon, <2>1, <2>2 DEF Flags, Verified
<1>4. CASE Turn /\ UNCHANGED input
  <2>1. UNCHANGED <<tx, more>>
    BY <1>4 DEF input
  <2>2. Required' = Required /\ OUT_EPH' = OUT_EPH
    BY <2>1 DEF Required, OUT_EPH, Transcript
  <2>3. "DONE" \in InExtra
    BY DEF InExtra
  <2>4. CASE InputTurn
    <3>1. state' \notin InExtra /\ UNCHANGED <<found, outkeys_done, extra_acc>>
      BY <2>4, InputTurnHow DEF verdict
    <3>2. ~outkeys_done
      BY Zenon, <2>3, <2>4, InputTurnHow DEF Verified
    <3> QED
      BY Zenon, <2>1, <3>1, <3>2 DEF Flags, Verified
  <2>5. CASE OutputTurn
    <3>1. UNCHANGED <<found, outkeys_done, extra_acc>>
      BY <2>5, OutputTurnHow DEF verdict
    <3>2. ~outkeys_done
      BY Zenon, <2>3, <2>5, OutputTurnHow DEF Verified
    <3>3. state' \in InExtra => out_eph' = OUT_EPH
      BY <2>5, OutputTurnHow
    <3> QED
      BY Zenon, <2>1, <2>2, <3>1, <3>2, <3>3 DEF Flags, Verified
  <2>6. CASE ExtraTurn
    <3>1. extra_acc' \in BOOLEAN /\ state \in InExtra \ {"DONE"} /\ out_eph' = out_eph
      BY <2>6, ExtraTurnHow DEF Flags
    <3>2. ~outkeys_done
      BY Zenon, <3>1 DEF Verified
    <3>3. /\ found' \subseteq Names /\ outkeys_done' \in BOOLEAN
          /\ outkeys_done' => state' = "DONE" /\ Required' \subseteq found'
      <4>1. CASE UNCHANGED verdict
        <5>1. found' = found /\ outkeys_done' = outkeys_done
          BY <4>1 DEF verdict
        <5> QED
          BY Zenon, <5>1, <3>2 DEF Flags
      <4>2. CASE \E left : NextField(left, found)
        <5>1. PICK left : NextField(left, found)
          BY <4>2
        <5>2. found \subseteq Names
          BY Zenon DEF Flags
        <5> QED
          BY Zenon, <5>1, <5>2, <3>2, <2>1, NextFieldVerdict
      <4>3. CASE \E left : \E name \in Names : NextField(left, found \cup {name})
        <5>0. PICK left : \E name \in Names : NextField(left, found \cup {name})
          BY <4>3
        <5>1. PICK name \in Names : NextField(left, found \cup {name})
          BY <5>0
        <5>2. found \cup {name} \subseteq Names
          BY Zenon, <5>1 DEF Flags
        <5> QED
          BY Zenon, <5>1, <5>2, <3>2, <2>1, NextFieldVerdict
      <4> QED
        BY Zenon, <4>1, <4>2, <4>3, <2>6, ExtraTurnHow DEF Flags
    <3> QED
      BY Zenon, <2>1, <2>2, <3>1, <3>3 DEF Flags, Verified
  <2>7. CASE Done
    <3>1. UNCHANGED <<state, extra_acc, out_eph, found, outkeys_done>>
      BY <2>7 DEF Done, field, digests, verdict
    <3> QED
      BY Zenon, <2>1, <2>2, <3>1 DEF Flags, Verified
  <2> QED
    BY <1>4, TurnIsOne, <2>4, <2>5, <2>6, <2>7
<1> QED
  BY <1>1, <1>2, <1>3, <1>4 DEF Next

LEMMA CountedStep ==
  ASSUME Counted, [Next]_vars
  PROVE  Counted'
<1>1. CASE UNCHANGED vars
  BY <1>1 DEF vars, input, varint, counters, field, Counted, Window, Measures, NoWrap, Room
<1>2. CASE Turn /\ UNCHANGED input
  BY <1>2, TurnIsOne, CountedInputs, CountedOutputs, CountedExtra
     DEF InputTurn, OutputTurn, ExtraTurn
<1> QED
  BY <1>1, <1>2, CountedChunks DEF Next

LEMMA FlagsInit == Init => Flags /\ Verified
<1>1. Init => Flags
  BY Zenon DEF Init, Flags
<1>2. Init => state = "VIN_CNT" /\ outkeys_done = FALSE
  BY DEF Init
<1> QED
  BY <1>1, <1>2 DEF Verified, InExtra

\* Every variable keeps its type, the parser reads no byte it was not given, and
\* no unsigned counter is taken below zero, whatever the stream and the chunks.
LEMMA CountedAlways == Spec => [](Counted /\ Flags /\ Verified)
<1>1. Init => Counted /\ Flags /\ Verified
  BY CountedInit, FlagsInit
<1>2. Counted /\ Flags /\ Verified /\ [Next]_vars => (Counted /\ Flags /\ Verified)'
  BY CountedStep, VerdictStep
<1> QED
  BY <1>1, <1>2, PTL DEF Spec

\* Every variable keeps its type, and the parser reads no byte it was not given.
THEOREM ParserTypeCorrect == Spec => []TypeOK
<1>1. Counted /\ Flags /\ Verified => TypeOK
  BY TypeInParts DEF Counted
<1> QED
  BY <1>1, CountedAlways, PTL

\* No unsigned counter of the parser wraps, for every stream a host may send and
\* every way to cut it into chunks.
THEOREM ParserNeverWraps == Spec => []NoWrap
<1>1. Counted /\ Flags /\ Verified => NoWrap
  BY DEF Counted
<1> QED
  BY <1>1, CountedAlways, PTL

\* A parser that is done has verified the outputs and what `extra` must carry.
THEOREM ParserDoneIsVerified == Spec => []DoneIsVerified
<1>1. ASSUME Verified PROVE DoneIsVerified
  <2>1. outkeys_done => /\ "R" \in found
                        /\ tx.addk # <<>> => "ADDK" \in found
                        /\ tx.pid # <<>> => "PID" \in found
    <3>1. /\ "R" \in Required
          /\ tx.addk # <<>> => "ADDK" \in Required
          /\ tx.pid # <<>> => "PID" \in Required
      BY DEF Required
    <3> QED
      BY Zenon, <1>1, <3>1 DEF Verified
  <2>2. "DONE" \in InExtra
    BY DEF InExtra
  <2>3. outkeys_done => state = "DONE" /\ out_eph = OUT_EPH
    BY Zenon, <1>1, <2>2 DEF Verified
  <2> QED
    BY Zenon, <2>1, <2>3 DEF DoneIsVerified
<1>2. Counted /\ Flags /\ Verified => DoneIsVerified
  BY <1>1
<1> QED
  BY <1>2, CountedAlways, PTL

-----------------------------------------------------------------------------
(* What was found was in the stream. *)

\* The field_off bytes before position p are the first ones of `want`.
Matching(st, p, off, want) ==
  off <= p /\ \A k \in 1..off : st[p - off + k] = want[k]

\* What makes FoundAppeared inductive: a field in progress matches as long as
\* extra_acc is clear.
Matches ==
  sw = "ok" /\ ~extra_acc =>
    /\ state = "EXTRA_PUBKEY" => Matching(stream, pos, field_off, tx.r)
    /\ state = "EXTRA_NONCE_PID" => Matching(stream, pos, field_off, tx.pid)

\* Appeared, of any stream and position.
Seen(st, p, want) ==
  \E i \in 0..p : \A k \in DOMAIN want : st[i + k] = want[k] /\ i + k <= p

\* What two equal segments say of the sequences they are taken from.
LEMMA SegmentsEqual ==
  ASSUME NEW s \in Seq(Byte), NEW t \in Seq(Byte),
         NEW a \in Nat, NEW b \in Nat, NEW n \in Nat,
         a + n <= Len(s), b + n <= Len(t),
         SubSeq(s, a + 1, a + n) = SubSeq(t, b + 1, b + n)
  PROVE  \A k \in 1..n : s[a + k] = t[b + k]
<1> SUFFICES ASSUME NEW k \in 1..n PROVE s[a + k] = t[b + k]
  OBVIOUS
<1>1. SubSeq(s, a + 1, a + n)[k] = s[a + k]
  OBVIOUS
<1>2. SubSeq(t, b + 1, b + n)[k] = t[b + k]
  OBVIOUS
<1> QED
  BY <1>1, <1>2

\* What was seen stays seen as the parser moves on.
LEMMA SeenStays ==
  ASSUME NEW st, NEW p \in Nat, NEW q \in Nat, p <= q, NEW want,
         \A k \in DOMAIN want : k \in Nat, Seen(st, p, want)
  PROVE  Seen(st, q, want)
<1>1. PICK i \in 0..p : \A k \in DOMAIN want : st[i + k] = want[k] /\ i + k <= p
  BY DEF Seen
<1>2. i \in 0..q
  OBVIOUS
<1>3. \A k \in DOMAIN want : st[i + k] = want[k] /\ i + k <= q
  BY <1>1
<1> QED
  BY <1>2, <1>3 DEF Seen

\* A whole field that matched was seen.
LEMMA WholeIsSeen ==
  ASSUME NEW st, NEW p \in Nat, NEW size \in Nat, NEW want \in Seq(Byte),
         Len(want) = size, Matching(st, p, size, want)
  PROVE  Seen(st, p, want)
<1>1. p - size \in 0..p /\ DOMAIN want = 1..size
  BY DEF Matching
<1>2. \A k \in 1..size : st[(p - size) + k] = want[k] /\ (p - size) + k <= p
  BY DEF Matching
<1> QED
  BY <1>1, <1>2 DEF Seen

\* A turn of pfx_extra_compare: what matched goes on matching, and a whole field is
\* counted only if it was seen.
LEMMA CompareMatches ==
  ASSUME Counted, UNCHANGED input, pos < lim, extra_acc \in BOOLEAN,
         NEW size \in Nat, NEW want \in Seq(Byte), Len(want) = size, NEW name,
         field_off \in Nat, field_off < size, Compare(want, size, name),
         ~extra_acc => Matching(stream, pos, field_off, want)
  PROVE  /\ ~extra_acc' => Matching(stream', pos', field_off', want)
         /\ found' = found \/ (found' = found \cup {name} /\ Seen(stream', pos', want))
<1> DEFINE take == Taken(size - field_off)
<1>1. take \in 0..(size - field_off) /\ pos + take \in 0..lim /\ lim \in Nat /\ pos \in Nat
  <2>1. size - field_off \in Nat
    OBVIOUS
  <2>2. take \in 0..(size - field_off) /\ pos + take \in 0..lim /\ lim \in Nat
    BY <2>1, TakenFits DEF Counted
  <2>3. pos \in Nat
    BY LimNat DEF Counted, Measures
  <2> QED
    BY <2>2, <2>3
<1>2. pos' = pos + take /\ field_off' = field_off + take /\ stream' = stream
  BY DEF Compare, Eat, input
<1>3. extra_acc' = Differs(want, take)
  BY DEF Compare
<1>4. /\ stream \in Seq(Byte) /\ pos + take <= Len(stream)
  BY <1>1 DEF Counted, Window
<1> HIDE DEF take
<1>5. ASSUME ~Differs(want, take)
      PROVE  Matching(stream, pos + take, field_off + take, want)
  <2>1. Matching(stream, pos, field_off, want)
    BY <1>5 DEF Differs
  <2>2. SubSeq(stream, pos + 1, pos + take) = SubSeq(want, field_off + 1, field_off + take)
    BY <1>5 DEF Differs, Ahead
  <2>3. field_off + take <= Len(want) /\ take \in Nat
    BY <1>1
  <2>4. \A k \in 1..take : stream[pos + k] = want[field_off + k]
    <3>1. pos \in Nat /\ field_off \in Nat /\ field_off + take <= Len(want)
          /\ take \in Nat /\ pos + take <= Len(stream)
      BY <1>1, <1>4, <2>3
    <3> QED
      BY <3>1, <1>4, <2>2, SegmentsEqual
  <2>5. ASSUME NEW k \in 1..(field_off + take)
        PROVE  stream[(pos + take) - (field_off + take) + k] = want[k]
    <3>1. (pos + take) - (field_off + take) + k = (pos - field_off) + k
      BY <1>1, <2>3
    <3>2. CASE k <= field_off
      BY <2>1, <3>1, <3>2 DEF Matching
    <3>3. CASE k > field_off
      <4>1. k - field_off \in 1..take /\ pos + (k - field_off) = (pos - field_off) + k
        BY <1>1, <2>3, <3>3
      <4>2. stream[pos + (k - field_off)] = want[field_off + (k - field_off)]
        BY <2>4, <4>1
      <4>3. field_off + (k - field_off) = k
        OBVIOUS
      <4> QED
        BY <3>1, <4>1, <4>2, <4>3
    <3> QED
      BY <1>1, <2>3, <3>2, <3>3
  <2>6. field_off + take <= pos + take
    BY <1>1, <2>1 DEF Matching
  <2> QED
    BY <2>5, <2>6 DEF Matching
<1>6. \/ found' = found
      \/ /\ found' = found \cup {name} /\ ~Differs(want, take)
         /\ ~(field_off + take < size)
  BY DEF Compare, NextField, verdict, take
<1>7. ASSUME ~Differs(want, take), ~(field_off + take < size)
      PROVE  Seen(stream, pos + take, want)
  <2>1. field_off + take = size /\ pos + take \in Nat
    BY <1>1, <1>7
  <2> QED
    BY <1>5, <1>7, <2>1, WholeIsSeen
<1> QED
  <2>1. ~extra_acc' => Matching(stream', pos', field_off', want)
    BY Zenon, <1>2, <1>3, <1>5
  <2>2. found' = found \/ (found' = found \cup {name} /\ Seen(stream', pos', want))
    BY Zenon, <1>2, <1>6, <1>7
  <2> QED
    BY Zenon, <2>1, <2>2

\* What is expected in `extra` has its size.
LEMMA WantedSizes ==
  ASSUME Window
  PROVE  /\ tx.r \in Seq(Byte) /\ Len(tx.r) = KeySize
         /\ tx.pid # <<>> => tx.pid \in Seq(Byte) /\ Len(tx.pid) = PidSize
<1>1. \A n \in Nat : \A f \in [1..n -> Byte] : f \in Seq(Byte) /\ Len(f) = n
  OBVIOUS
<1>2. tx.r \in [1..KeySize -> Byte]
  BY DEF Window, Tx, Bytes
<1>3. tx.pid # <<>> => tx.pid \in [1..PidSize -> Byte]
  BY DEF Window, Tx, Bytes
<1> QED
  BY <1>1, <1>2, <1>3

\* The parser never goes back.
LEMMA PosGrows ==
  ASSUME Counted, Turn
  PROVE  pos \in Nat /\ pos' >= pos
<1> USE DEF At, Eat, Refuse, Varint, ExtraVarint
<1>1. pos \in Nat /\ lim \in Nat /\ pos < lim /\ sw = "ok"
  <2>1. pos < lim /\ sw = "ok"
    BY DEF Turn, VinCnt, VinTag, VinAmount, VinOffCnt, VinOff, VinKimg, VoutCnt,
       VoutAmount, VoutTag, VoutKey, VoutVtag, ExtraLen, ExtraTag, ExtraPubkey,
       ExtraAddkCnt, ExtraAddk, ExtraNonceLen, ExtraNoncePid, ExtraTlvLen,
       ExtraSkip, ExtraPadding, Done
  <2>2. pos \in Nat /\ lim \in Nat
    BY LimNat DEF Counted, Measures
  <2> QED
    BY <2>1, <2>2
<1>2. ASSUME VinKimg \/ VoutKey \/ ExtraPubkey \/ ExtraAddk
      PROVE  pos' >= pos
  <2>1. KeySize - field_off \in Nat
    BY <1>2 DEF VinKimg, VoutKey, ExtraPubkey, ExtraAddk, Counted, NoWrap, Room
  <2>2. Taken(KeySize - field_off) \in Nat
    BY <1>1, <2>1 DEF Taken, Counted
  <2>3. pos' = pos + Taken(KeySize - field_off)
    <3>1. CASE VinKimg
      BY <2>1, <2>2, <3>1 DEF VinKimg, Counted, NoWrap
    <3>2. CASE VoutKey \/ ExtraPubkey \/ ExtraAddk
      BY <3>2 DEF VoutKey, ExtraPubkey, ExtraAddk, Compare
    <3> QED
      BY <1>2, <3>1, <3>2
  <2> QED
    BY <1>1, <2>2, <2>3
<1>3. ASSUME ExtraNoncePid
      PROVE  pos' >= pos
  <2>1. Taken(PidSize - field_off) \in Nat
    BY <1>1, <1>3 DEF ExtraNoncePid, Counted, NoWrap, Room, Taken
  <2> QED
    BY <1>1, <1>3, <2>1 DEF ExtraNoncePid, Compare
<1>4. ASSUME ExtraSkip \/ ExtraPadding
      PROVE  pos' >= pos
  <2>1. Taken(off_remaining) \in Nat
    BY <1>1 DEF Counted, NoWrap, Taken
  <2> QED
    BY <1>1, <1>4, <2>1 DEF ExtraSkip, ExtraPadding, PassOver
<1>5. ASSUME Turn, ~(VinKimg \/ VoutKey \/ ExtraPubkey \/ ExtraAddk),
             ~ExtraNoncePid, ~(ExtraSkip \/ ExtraPadding)
      PROVE  pos' \in {pos, pos + 1, lim}
  BY <1>5 DEF Turn, VinCnt, VinTag, VinAmount, VinOffCnt, VinOff,
     VoutCnt, VoutAmount, VoutTag, VoutVtag, ExtraLen, ExtraTag,
     ExtraAddkCnt, ExtraNonceLen, ExtraTlvLen, Done
<1> QED
  BY <1>1, <1>2, <1>3, <1>4, <1>5

\* The other turns begin a comparison anew, and find nothing but ADDK.
LEMMA OtherTurnHow ==
  ASSUME Turn, ~ExtraPubkey, ~ExtraNoncePid
  PROVE  /\ found' = found \/ found' = found \cup {"ADDK"}
         /\ \/ sw' # "ok" \/ field_off' = 0
            \/ state' \notin {"EXTRA_PUBKEY", "EXTRA_NONCE_PID"}
<1> USE DEF At, Refuse, Enter, pfx_enter_varint, Stay, Varint, ExtraVarint, Accumulate,
            varint, field, verdict
<1>1. CASE InputTurn
  BY <1>1, InputTurnHow DEF InExtra
<1>2. CASE OutputTurn
  <2>1. found' = found
    BY <1>2, OutputTurnHow
  <2>2. state' \notin {"EXTRA_PUBKEY", "EXTRA_NONCE_PID"}
    <3>1. CASE VoutKey
      BY <3>1 DEF VoutKey, NextOutput
    <3>2. CASE VoutCnt
      BY <3>2 DEF VoutCnt, NextOutput
    <3>3. CASE VoutAmount \/ VoutTag \/ VoutVtag
      BY <3>3 DEF VoutAmount, VoutTag, VoutVtag, NextOutput
    <3> QED
      BY <1>2, <3>1, <3>2, <3>3 DEF OutputTurn
  <2> QED
    BY <2>1, <2>2
<1>3. CASE Done
  BY <1>3 DEF Done
<1>4. CASE ExtraLen
  BY <1>4 DEF ExtraLen, NextField
<1>5. CASE ExtraTag
  BY <1>5 DEF ExtraTag, TagLeadsTo
<1>6. CASE ExtraAddkCnt
  BY <1>6 DEF ExtraAddkCnt
<1>7. CASE ExtraAddk
  BY <1>7 DEF ExtraAddk, NextField
<1>8. CASE ExtraNonceLen
  BY <1>8 DEF ExtraNonceLen
<1>9. CASE ExtraTlvLen
  BY <1>9 DEF ExtraTlvLen
<1>10. CASE ExtraSkip \/ ExtraPadding
  BY <1>10 DEF ExtraSkip, ExtraPadding, PassOver, NextField
<1> QED
  BY <1>1, <1>2, <1>3, <1>4, <1>5, <1>6, <1>7, <1>8, <1>9, <1>10, TurnIsOne
     DEF ExtraTurn

\* What was found was seen, and goes on having been seen.
SeenSoFar ==
  /\ "R" \in found => Seen(stream, pos, tx.r)
  /\ "PID" \in found => tx.pid # <<>> /\ Seen(stream, pos, tx.pid)

LEMMA SeenIsKept ==
  ASSUME Window, SeenSoFar, NEW q \in Nat, pos \in Nat, q >= pos
  PROVE  /\ "R" \in found => Seen(stream, q, tx.r)
         /\ "PID" \in found => tx.pid # <<>> /\ Seen(stream, q, tx.pid)
<1>1. /\ \A k \in DOMAIN tx.r : k \in Nat
      /\ tx.pid # <<>> => \A k \in DOMAIN tx.pid : k \in Nat
  BY WantedSizes
<1>2. CASE "R" \in found
  BY <1>1, <1>2, SeenStays DEF SeenSoFar
<1>3. CASE "PID" \in found
  BY <1>1, <1>3, SeenStays DEF SeenSoFar
<1> QED
  BY <1>2, <1>3

LEMMA FoundTurn ==
  ASSUME Counted, Flags, Matches, SeenSoFar, Turn, UNCHANGED input, Counted'
  PROVE  Matches' /\ SeenSoFar'
<1>1. tx' = tx /\ stream' = stream /\ pos' \in Nat /\ pos \in Nat /\ pos' >= pos
  <2>1. tx' = tx /\ stream' = stream
    BY DEF input
  <2>2. pos' \in Nat
    BY DEF Counted, Measures, Window
  <2> QED
    BY <2>1, <2>2, PosGrows
<1>2. /\ "R" \in found => Seen(stream', pos', tx'.r)
      /\ "PID" \in found => tx'.pid # <<>> /\ Seen(stream', pos', tx'.pid)
  BY Zenon, <1>1, SeenIsKept DEF Counted
<1>3. CASE ~ExtraPubkey /\ ~ExtraNoncePid
  <2>1. SeenSoFar'
    <3>1. "R" \in found' => "R" \in found
      BY <1>3, OtherTurnHow
    <3>2. "PID" \in found' => "PID" \in found
      BY <1>3, OtherTurnHow
    <3> QED
      BY Zenon, <1>2, <3>1, <3>2 DEF SeenSoFar
  <2>2. CASE field_off' = 0
    <3>1. \A want : Matching(stream', pos', field_off', want)
      BY <1>1, <2>2 DEF Matching
    <3> QED
      BY Zenon, <2>1, <3>1 DEF Matches
  <2>3. CASE sw' # "ok" \/ state' \notin {"EXTRA_PUBKEY", "EXTRA_NONCE_PID"}
    <3>1. Matches'
      BY <2>3 DEF Matches
    <3> QED
      BY <2>1, <3>1
  <2> QED
    BY <1>3, <2>2, <2>3, OtherTurnHow
<1>4. CASE ExtraPubkey
  <2>1. /\ pos < lim /\ sw = "ok" /\ state = "EXTRA_PUBKEY" /\ field_off \in Nat
        /\ field_off < KeySize /\ Compare(tx.r, KeySize, "R")
    BY <1>4 DEF ExtraPubkey, At, Counted, NoWrap, Room
  <2>2. ~extra_acc => Matching(stream, pos, field_off, tx.r)
    BY <2>1 DEF Matches
  <2>3. /\ ~extra_acc' => Matching(stream', pos', field_off', tx.r)
        /\ found' = found \/ (found' = found \cup {"R"} /\ Seen(stream', pos', tx.r))
    <3>1. tx.r \in Seq(Byte) /\ Len(tx.r) = KeySize /\ KeySize \in Nat
      BY WantedSizes DEF Counted
    <3>2. extra_acc \in BOOLEAN
      BY Zenon DEF Flags
    <3> QED
      BY Zenon, <2>1, <2>2, <3>1, <3>2, CompareMatches
  <2>4. state' # "EXTRA_NONCE_PID"
    BY <2>1 DEF Compare, Stay, NextField, Enter
  <2>5. Matches'
    BY Zenon, <1>1, <2>3, <2>4 DEF Matches
  <2>6. SeenSoFar'
    <3>1. "R" \in found' => "R" \in found \/ Seen(stream', pos', tx.r)
      BY <2>3
    <3>2. "PID" \in found' => "PID" \in found
      BY <2>3
    <3> QED
      BY Zenon, <1>1, <1>2, <3>1, <3>2 DEF SeenSoFar
  <2> QED
    BY <2>5, <2>6
<1>5. CASE ExtraNoncePid
  <2>1. /\ pos < lim /\ sw = "ok" /\ state = "EXTRA_NONCE_PID" /\ field_off \in Nat
        /\ field_off < PidSize /\ Compare(tx.pid, PidSize, "PID") /\ tx.pid # <<>>
    BY <1>5 DEF ExtraNoncePid, At, Counted, NoWrap, Room
  <2>2. ~extra_acc => Matching(stream, pos, field_off, tx.pid)
    BY <2>1 DEF Matches
  <2>3. /\ ~extra_acc' => Matching(stream', pos', field_off', tx.pid)
        /\ found' = found \/ (found' = found \cup {"PID"} /\ Seen(stream', pos', tx.pid))
    <3>1. tx.pid \in Seq(Byte) /\ Len(tx.pid) = PidSize /\ PidSize \in Nat
      BY <2>1, WantedSizes DEF Counted
    <3>2. extra_acc \in BOOLEAN
      BY Zenon DEF Flags
    <3> QED
      BY Zenon, <2>1, <2>2, <3>1, <3>2, CompareMatches
  <2>4. state' # "EXTRA_PUBKEY"
    BY <2>1 DEF Compare, Stay, NextField, Enter
  <2>5. Matches'
    BY Zenon, <1>1, <2>3, <2>4 DEF Matches
  <2>6. SeenSoFar'
    <3>1. "PID" \in found' => "PID" \in found \/ Seen(stream', pos', tx.pid)
      BY <2>3
    <3>2. "R" \in found' => "R" \in found
      BY <2>3
    <3> QED
      BY Zenon, <1>1, <1>2, <2>1, <3>1, <3>2 DEF SeenSoFar
  <2> QED
    BY <2>5, <2>6
<1> QED
  BY <1>3, <1>4, <1>5

\* A field the parser counts as matched is in the stream, whole and in one piece,
\* for every stream and however the chunks cut it.
THEOREM ParserFoundAppeared == Spec => []FoundAppeared
<1>1. Init => Matches /\ SeenSoFar
  BY DEF Init, Matches, SeenSoFar
<1>2. ASSUME Counted, Flags, Matches, SeenSoFar, [Next]_vars, Counted'
      PROVE  Matches' /\ SeenSoFar'
  <2>1. CASE UNCHANGED vars
    BY <1>2, <2>1 DEF vars, input, field, verdict, Matches, SeenSoFar
  <2>2. CASE Turn /\ UNCHANGED input
    BY <1>2, <2>2, FoundTurn
  <2>3. CASE \/ \E n \in 0..MaxChunk, announced \in BOOLEAN : Chunk(n, announced)
             \/ LastChunk
    <3>1. /\ UNCHANGED <<tx, stream, pos, state, field_off, extra_acc, found>>
          /\ sw' = "ok" => sw = "ok"
      BY <2>3 DEF Chunk, LastChunk, input, field, verdict
    <3> QED
      BY Zenon, <1>2, <3>1 DEF Matches, SeenSoFar
  <2> QED
    BY <1>2, <2>1, <2>2, <2>3 DEF Next
<1>3. SeenSoFar => FoundAppeared
  BY Zenon DEF SeenSoFar, FoundAppeared, Seen, Appeared
<1> QED
  BY <1>1, <1>2, <1>3, CountedAlways, PTL DEF Spec

=============================================================================
