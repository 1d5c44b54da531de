---------------------------- MODULE PrefixParser ----------------------------
(***************************************************************************)
(* The parser of the transaction prefix (monero_prefix.c), byte by byte:   *)
(* what INS_PREFIX_HASH does with the bytes of a real transaction after    *)
(* the version and the timelock.  MoneroTx knows it as ParsePrefix.        *)
(*                                                                         *)
(* An action is one turn of the parser's loop, one case of its switch.     *)
(* Nothing else runs until the chunk is used up (pos = lim).               *)
(*                                                                         *)
(* prefix_vi_shift is kept as its weight, vi_unit = 2^shift.  Counters are *)
(* integers here and unsigned 64-bit there: NoWrap says that it makes no   *)
(* difference.                                                             *)
(***************************************************************************)
EXTENDS Integers, Sequences

LOCAL INSTANCE SequencesExt

CONSTANTS
  Base,        \* 128: bytes below it end a varint
  TopBit,      \* 2^63, the highest bit of a varint: a power of Base
  KeySize,     \* 32
  PidSize,     \* 9: TX_EXTRA_NONCE_ENCRYPTED_PAYMENT_ID_SIZE
  PaddingMax,  \* 255: TX_EXTRA_PADDING_MAX_COUNT
  MinerTag,    \* 0xDE
  Byte,        \* 0..255
  Cases,    \* what the device may have derived, and what the host then sends
  MaxChunk     \* bytes of a chunk

Bytes(n) == [1..n -> Byte]

\* A derived output: its tag, the bytes of the key and, with tag 3, the view tag.
Derived == [tag : {2}, body : Bytes(KeySize)] \cup
           [tag : {3}, body : Bytes(KeySize + 1)]

\* outs: what GEN_TXOUT_KEYS derived; r: EXTRA_R; addk: <<>>, or the bytes of the
\* additional keys; pid: <<>>, or the nonce INS_STEALTH made.
Tx == {t \in [outs : Seq(Derived), r : Bytes(KeySize), addk : Seq(Byte),
              pid : {<<>>} \cup Bytes(PidSize)] : t.addk # <<>> => t.outs # <<>>}

ASSUME ParserConstantsOK ==
  /\ Base \in Nat \ {0} /\ TopBit \in Nat \ {0} /\ Byte \subseteq Nat
  /\ KeySize \in Nat \ {0} /\ PidSize \in Nat \ {0}
  /\ PaddingMax \in Nat /\ MaxChunk \in Nat /\ MinerTag \in Nat \ (0..4)
  /\ Cases \subseteq [tx : Tx, stream : Seq(Byte)]

VARIABLES
  tx,               \* the transaction, fixed
  stream,           \* what the host will send, fixed
  pos, lim, more,   \* bytes parsed, bytes received, is another chunk announced
  sw,               \* "ok", "refused", or "finalized" after the last chunk
  state,            \* prefix_state
  vi_val, vi_unit,  \* the varint being read
  vin_remaining, off_remaining, vout_remaining, extra_remaining,
  field_off,        \* bytes of the current field
  outkey_tag,       \* tag of the current output
  extra_acc,        \* does the current field differ from the expected one
  out_eph, addk,    \* what the two hash contexts absorbed
  found,            \* prefix_extra_r_found, _addk_found, _pid_found
  outkeys_done      \* prefix_outkeys_done

input    == <<tx, stream, lim, more>>
varint   == <<vi_val, vi_unit>>
counters == <<vin_remaining, off_remaining, vout_remaining, extra_remaining>>
field    == <<field_off, outkey_tag, extra_acc>>
digests  == <<out_eph, addk>>
verdict  == <<found, outkeys_done>>
vars     == <<input, pos, sw, state, varint, counters, field, digests, verdict>>

PfxStates ==
  {"VIN_CNT", "VIN_TAG", "VIN_AMOUNT", "VIN_OFF_CNT", "VIN_OFF", "VIN_KIMG",
   "VOUT_CNT", "VOUT_AMOUNT", "VOUT_TAG", "VOUT_KEY", "VOUT_VTAG",
   "EXTRA_LEN", "EXTRA_TAG", "EXTRA_PUBKEY", "EXTRA_ADDK_CNT", "EXTRA_ADDK",
   "EXTRA_NONCE_LEN", "EXTRA_NONCE_PID", "EXTRA_TLV_LEN", "EXTRA_SKIP",
   "EXTRA_PADDING", "DONE"}

tx_output_cnt == Len(tx.outs)

\* Mutant: the transcript is a bare run of bytes.
NoFrame(tag, index) == <<>>

\* The transcript of an output: its kind and position, then the bytes.
Frame(tag, index) == <<<<tag, index>>>>
AsHashed(bytes) == [i \in DOMAIN bytes |-> <<bytes[i]>>]
Transcript(i) == Frame(tx.outs[i].tag, i - 1) \o AsHashed(tx.outs[i].body)
OUT_EPH == FlattenSeq([i \in DOMAIN tx.outs |-> Transcript(i)])

-----------------------------------------------------------------------------
(* Input, and the ways a turn of the loop ends. *)

\* i < len, in state s.
At(s) == sw = "ok" /\ state = s /\ pos < lim

\* The next byte, and what is left of the chunk, up to n bytes.
c == stream[pos + 1]
Taken(n) == IF lim - pos < n THEN lim - pos ELSE n
Ahead(n) == SubSeq(stream, pos + 1, pos + n)
Eat(n)   == pos' = pos + n

\* An error status ends the app, and whatever it had parsed.
Refuse ==
  /\ sw' = "refused"
  /\ UNCHANGED <<pos, state, varint, counters, field, digests, verdict>>

Enter(s) == state' = s /\ UNCHANGED <<sw, varint>>
pfx_enter_varint(s) == state' = s /\ vi_val' = 0 /\ vi_unit' = 1 /\ UNCHANGED sw
Stay == UNCHANGED <<sw, state, varint>>

\* Mutant: the last byte is refused even if it fits.
LastByteRefused == vi_unit >= TopBit

\* pfx_varint_byte: -1, then 1 if Complete, then 0.  What the accumulator holds
\* once a varint is complete is never read again.
Overlong   == vi_unit > TopBit \/ (vi_unit = TopBit /\ c > 1)
Complete   == c < Base
Value      == vi_val + (c % Base) * vi_unit
Accumulate == vi_val' = Value /\ vi_unit' = vi_unit * Base /\ UNCHANGED <<sw, state>>

\* A byte of a varint outside `extra`; if it is the last, Then happens.
Varint(Then) ==
  IF Overlong THEN Refuse
  ELSE /\ Eat(1) /\ UNCHANGED <<extra_acc, outkey_tag>>
       /\ IF Complete THEN Then
          ELSE Accumulate /\ UNCHANGED <<counters, field_off, digests, verdict>>

-----------------------------------------------------------------------------
(* Inputs: parsed to find their end. *)

VinCnt ==
  /\ At("VIN_CNT")
  /\ Varint(/\ vin_remaining' = Value
            /\ IF Value = 0 THEN pfx_enter_varint("VOUT_CNT") ELSE Enter("VIN_TAG")
            /\ UNCHANGED <<off_remaining, vout_remaining, extra_remaining,
                           field_off, digests, verdict>>)

VinTag ==
  /\ At("VIN_TAG")
  /\ IF c # 2 THEN Refuse
     ELSE /\ Eat(1) /\ pfx_enter_varint("VIN_AMOUNT")
          /\ UNCHANGED <<counters, field, digests, verdict>>

VinAmount ==
  /\ At("VIN_AMOUNT")
  /\ Varint(/\ pfx_enter_varint("VIN_OFF_CNT")
            /\ UNCHANGED <<counters, field_off, digests, verdict>>)

\* The key offsets are counted down, and then the key image begins.
NextOffset(left) ==
  /\ off_remaining' = left
  /\ IF left = 0 THEN Enter("VIN_KIMG") /\ field_off' = 0
     ELSE pfx_enter_varint("VIN_OFF") /\ UNCHANGED field_off
  /\ UNCHANGED <<vin_remaining, vout_remaining, extra_remaining, digests, verdict>>

VinOffCnt == At("VIN_OFF_CNT") /\ Varint(NextOffset(Value))
VinOff    == At("VIN_OFF") /\ Varint(NextOffset(off_remaining - 1))

VinKimg ==
  /\ At("VIN_KIMG")
  /\ LET off == field_off + Taken(KeySize - field_off) IN
     /\ Eat(off - field_off) /\ field_off' = off
     /\ IF off < KeySize THEN Stay /\ UNCHANGED vin_remaining
        ELSE /\ vin_remaining' = vin_remaining - 1
             /\ IF vin_remaining = 1 THEN pfx_enter_varint("VOUT_CNT")
                                     ELSE Enter("VIN_TAG")
     /\ UNCHANGED <<off_remaining, vout_remaining, extra_remaining, outkey_tag,
                    extra_acc, digests, verdict>>

-----------------------------------------------------------------------------
(* Outputs: hashed as the deriving side hashed them. *)

\* monero_sha256_out_eph_frame.  Counting down gives the index.
FrameNext(tag) == out_eph \o Frame(tag, tx_output_cnt - vout_remaining)

\* pfx_finish_output, pfx_finalize_outkeys: after the last output the transcript
\* is the one of the derivations.
NextOutput(left, hashed) ==
  /\ vout_remaining' = left /\ out_eph' = hashed
  /\ IF left > 0 THEN pfx_enter_varint("VOUT_AMOUNT")
     ELSE IF hashed = OUT_EPH THEN pfx_enter_varint("EXTRA_LEN")
     ELSE sw' = "refused" /\ UNCHANGED <<state, varint>>
  /\ UNCHANGED <<vin_remaining, off_remaining, extra_remaining, addk, verdict>>

VoutCnt ==
  /\ At("VOUT_CNT")
  /\ Varint(IF Value = tx_output_cnt
            THEN NextOutput(Value, out_eph) /\ UNCHANGED field_off
            ELSE /\ sw' = "refused"
                 /\ UNCHANGED <<state, varint, counters, field_off, digests, verdict>>)

VoutAmount ==
  /\ At("VOUT_AMOUNT")
  /\ Varint(/\ Enter("VOUT_TAG")
            /\ UNCHANGED <<counters, field_off, digests, verdict>>)

VoutTag ==
  /\ At("VOUT_TAG")
  /\ IF c \notin {2, 3} THEN Refuse
     ELSE /\ Eat(1) /\ Enter("VOUT_KEY")
          /\ out_eph' = FrameNext(c)
          /\ outkey_tag' = c /\ field_off' = 0
          /\ UNCHANGED <<counters, extra_acc, addk, verdict>>

VoutKey ==
  /\ At("VOUT_KEY")
  /\ LET take   == Taken(KeySize - field_off)
         hashed == out_eph \o AsHashed(Ahead(take))
     IN /\ Eat(take) /\ field_off' = field_off + take
        /\ IF field_off + take = KeySize /\ outkey_tag = 2
           THEN NextOutput(vout_remaining - 1, hashed)
           ELSE /\ IF field_off + take = KeySize THEN Enter("VOUT_VTAG") ELSE Stay
                /\ out_eph' = hashed /\ UNCHANGED <<counters, addk, verdict>>
        /\ UNCHANGED <<outkey_tag, extra_acc>>

VoutVtag ==
  /\ At("VOUT_VTAG")
  /\ Eat(1) /\ NextOutput(vout_remaining - 1, Append(out_eph, <<c>>))
  /\ UNCHANGED field

-----------------------------------------------------------------------------
(* `extra`: fields in any order, each consumed within extra_remaining. *)

\* Mutant: additional keys that were derived need not appear.
RequiredButAddk == {"R"} \cup (IF tx.pid # <<>> THEN {"PID"} ELSE {})

\* What `extra` must have carried at its end.
Required == {"R"} \cup (IF tx.addk # <<>> THEN {"ADDK"} ELSE {})
                  \cup (IF tx.pid # <<>> THEN {"PID"} ELSE {})

\* A field ends with `left` bytes of `extra` to come: the next tag, or
\* pfx_finalize_extra.
NextField(left, seen) ==
  /\ extra_remaining' = left /\ found' = seen
  /\ IF left > 0 THEN Enter("EXTRA_TAG") /\ UNCHANGED outkeys_done
     ELSE IF Required \subseteq seen THEN Enter("DONE") /\ outkeys_done' = TRUE
     ELSE sw' = "refused" /\ UNCHANGED <<state, varint, outkeys_done>>

ExtraLen ==
  /\ At("EXTRA_LEN")
  /\ Varint(/\ NextField(Value, found)
            /\ UNCHANGED <<vin_remaining, off_remaining, vout_remaining,
                           field_off, digests>>)

\* A tag, with `left` bytes of `extra` after it, leads to a field.
TagLeadsTo(tag, left) ==
  \/ tag = 1 /\ field_off' = 0 /\ extra_acc' = FALSE /\ Enter("EXTRA_PUBKEY")
             /\ UNCHANGED off_remaining
  \/ tag = 4 /\ pfx_enter_varint("EXTRA_ADDK_CNT")
             /\ UNCHANGED <<field_off, extra_acc, off_remaining>>
  \/ tag = 2 /\ Enter("EXTRA_NONCE_LEN")
             /\ UNCHANGED <<field_off, extra_acc, off_remaining>>
  \/ tag \in {3, MinerTag} /\ pfx_enter_varint("EXTRA_TLV_LEN")
             /\ UNCHANGED <<field_off, extra_acc, off_remaining>>
  \/ tag = 0 /\ off_remaining' = left /\ Enter("EXTRA_PADDING")
             /\ UNCHANGED <<field_off, extra_acc>>

\* Mutant: R is refused where nothing follows it.
TagNeverLast(tag, left) ==
  \/ tag = 1 /\ "R" \notin found /\ left > KeySize
  \/ tag \in {2, 3, 4, MinerTag}
  \/ tag = 0 /\ left <= PaddingMax - 1

\* Mutant: R need not fit into what is left of `extra`.
TagWithoutRoom(tag, left) ==
  \/ tag = 1 /\ "R" \notin found
  \/ tag \in {2, 3, 4, MinerTag}
  \/ tag = 0 /\ left <= PaddingMax - 1

\* R comes once and fits; padding is short; an unknown tag has no length.
TagAllowed(tag, left) ==
  \/ tag = 1 /\ "R" \notin found /\ left >= KeySize
  \/ tag \in {2, 3, 4, MinerTag}
  \/ tag = 0 /\ left <= PaddingMax - 1

ExtraTag ==
  /\ At("EXTRA_TAG")
  /\ IF ~TagAllowed(c, extra_remaining - 1) THEN Refuse
     ELSE /\ Eat(1) /\ extra_remaining' = extra_remaining - 1
          /\ TagLeadsTo(c, extra_remaining - 1)
          /\ UNCHANGED <<vin_remaining, vout_remaining, outkey_tag, digests, verdict>>

\* Mutant: a chunk forgets the mismatch of the one before.
DiffersInThisChunk(want, take) ==
  Ahead(take) # SubSeq(want, field_off + 1, field_off + take)

\* extra_acc outlives the chunk.
Differs(want, take) ==
  extra_acc \/ Ahead(take) # SubSeq(want, field_off + 1, field_off + take)

\* pfx_extra_compare, and what its callers do once the field is whole.
Compare(want, size, name) ==
  LET take == Taken(size - field_off) IN
  /\ Eat(take) /\ field_off' = field_off + take
  /\ extra_acc' = Differs(want, take)
  /\ IF field_off + take < size
     THEN extra_remaining' = extra_remaining - take /\ Stay /\ UNCHANGED verdict
     ELSE IF Differs(want, take)
     THEN sw' = "refused" /\ UNCHANGED <<state, varint, extra_remaining, verdict>>
     ELSE NextField(extra_remaining - take, found \cup {name})
  /\ UNCHANGED <<vin_remaining, off_remaining, vout_remaining, outkey_tag, digests>>

ExtraPubkey   == At("EXTRA_PUBKEY") /\ Compare(tx.r, KeySize, "R")
ExtraNoncePid == At("EXTRA_NONCE_PID") /\ Compare(tx.pid, PidSize, "PID")

\* A byte of a varint inside `extra`; if it is the last and the value is allowed,
\* so many keys or bytes follow, in state s.
ExtraVarint(allowed, s) ==
  IF extra_remaining = 0 \/ Overlong \/ (Complete /\ ~allowed) THEN Refuse
  ELSE /\ Eat(1) /\ extra_remaining' = extra_remaining - 1
       /\ IF Complete
          THEN Enter(s) /\ off_remaining' = Value
          ELSE Accumulate /\ UNCHANGED off_remaining
       /\ field_off' = IF Complete /\ s = "EXTRA_ADDK" THEN 0 ELSE field_off
       /\ UNCHANGED <<vin_remaining, vout_remaining, outkey_tag, extra_acc,
                      digests, verdict>>

\* One additional key for each output, if there are any.
ExtraAddkCnt ==
  /\ At("EXTRA_ADDK_CNT")
  /\ ExtraVarint(/\ tx.addk # <<>> /\ Value = tx_output_cnt
                 /\ extra_remaining - 1 >= Value * KeySize, "EXTRA_ADDK")

\* All keys are hashed, and the hash is ADDK.  The context is not initialised
\* again: whatever it absorbs next, it will not be ADDK.
ExtraAddk ==
  /\ At("EXTRA_ADDK")
  /\ LET take   == Taken(KeySize - field_off)
         hashed == addk \o AsHashed(Ahead(take))
         whole  == field_off + take = KeySize
         last   == whole /\ off_remaining = 1
     IN /\ Eat(take)
        /\ field_off' = IF whole THEN 0 ELSE field_off + take
        /\ off_remaining' = IF whole THEN off_remaining - 1 ELSE off_remaining
        /\ addk' = IF last THEN Append(hashed, <<>>) ELSE hashed
        /\ IF ~last
           THEN extra_remaining' = extra_remaining - take /\ Stay /\ UNCHANGED verdict
           ELSE IF hashed = AsHashed(tx.addk)
           THEN NextField(extra_remaining - take, found \cup {"ADDK"})
           ELSE sw' = "refused" /\ UNCHANGED <<state, varint, extra_remaining, verdict>>
  /\ UNCHANGED <<vin_remaining, vout_remaining, outkey_tag, extra_acc, out_eph>>

\* The only nonce is the payment ID the device made, once.
ExtraNonceLen ==
  /\ At("EXTRA_NONCE_LEN")
  /\ IF /\ extra_remaining > 0 /\ extra_remaining - 1 >= c
        /\ tx.pid # <<>> /\ "PID" \notin found /\ c = PidSize
     THEN /\ Eat(1) /\ extra_remaining' = extra_remaining - 1
          /\ field_off' = 0 /\ extra_acc' = FALSE /\ Enter("EXTRA_NONCE_PID")
          /\ UNCHANGED <<vin_remaining, off_remaining, vout_remaining,
                         outkey_tag, digests, verdict>>
     ELSE Refuse

\* Merge mining and minergate: a length and so many bytes.
ExtraTlvLen ==
  /\ At("EXTRA_TLV_LEN")
  /\ ExtraVarint(extra_remaining - 1 >= Value, "EXTRA_SKIP")

\* Mutant: a field of no bytes is waited for.
PassOverSome(zeros) ==
  LET take == Taken(off_remaining) IN
  IF take = 0 THEN UNCHANGED <<pos, sw, state, varint, counters, field, digests, verdict>>
  ELSE /\ Eat(take) /\ off_remaining' = off_remaining - take
       /\ IF off_remaining = take THEN NextField(extra_remaining - take, found)
          ELSE extra_remaining' = extra_remaining - take /\ Stay /\ UNCHANGED verdict
       /\ UNCHANGED <<vin_remaining, vout_remaining, field, digests>>

\* Bytes passed over, zeros only if it is padding.  With none to pass over, this
\* is the turn of the loop that ends the field, and it needs one more byte to
\* be there.
PassOver(zeros) ==
  LET take == Taken(off_remaining) IN
  IF zeros /\ \E i \in 1..take : stream[pos + i] # 0 THEN Refuse
  ELSE /\ Eat(take) /\ off_remaining' = off_remaining - take
       /\ IF off_remaining = take THEN NextField(extra_remaining - take, found)
          ELSE extra_remaining' = extra_remaining - take /\ Stay /\ UNCHANGED verdict
       /\ UNCHANGED <<vin_remaining, vout_remaining, field, digests>>

ExtraSkip    == At("EXTRA_SKIP") /\ PassOver(FALSE)
ExtraPadding == At("EXTRA_PADDING") /\ PassOver(TRUE)

\* The rest of the stream is not looked at.
Done ==
  /\ At("DONE") /\ pos' = lim
  /\ UNCHANGED <<sw, state, varint, counters, field, digests, verdict>>

-----------------------------------------------------------------------------
(* The chunks, and the specification. *)

\* The state monero_prefix_outkeys_reset leaves, for a transaction with these
\* outputs and this prefix to come.
Init ==
  /\ \E p \in Cases : tx = p.tx /\ stream = p.stream
  /\ pos = 0 /\ lim = 0 /\ more = TRUE /\ sw = "ok"
  /\ state = "VIN_CNT" /\ vi_val = 0 /\ vi_unit = 1
  /\ vin_remaining = 0 /\ off_remaining = 0
  /\ vout_remaining = 0 /\ extra_remaining = 0
  /\ field_off = 0 /\ outkey_tag = 0 /\ extra_acc = FALSE
  /\ out_eph = <<>> /\ addk = <<>>
  /\ found = {} /\ outkeys_done = FALSE

\* The next INS_PREFIX_HASH, P1=2.
Chunk(n, announced) ==
  /\ sw = "ok" /\ pos = lim /\ more
  /\ n <= Len(stream) - lim
  /\ lim' = lim + n /\ more' = announced
  /\ UNCHANGED <<tx, stream, pos, sw, state, varint, counters, field, digests,
                 verdict>>

\* The last chunk is parsed: the prefix is hashed if the parser got to its end.
LastChunk ==
  /\ sw = "ok" /\ pos = lim /\ ~more
  /\ sw' = IF outkeys_done THEN "finalized" ELSE "refused"
  /\ UNCHANGED <<input, pos, state, varint, counters, field, digests, verdict>>

Turn ==
  \/ VinCnt \/ VinTag \/ VinAmount \/ VinOffCnt \/ VinOff \/ VinKimg
  \/ VoutCnt \/ VoutAmount \/ VoutTag \/ VoutKey \/ VoutVtag
  \/ ExtraLen \/ ExtraTag \/ ExtraPubkey \/ ExtraAddkCnt \/ ExtraAddk
  \/ ExtraNonceLen \/ ExtraNoncePid \/ ExtraTlvLen \/ ExtraSkip
  \/ ExtraPadding \/ Done

Next ==
  \/ \E n \in 0..MaxChunk, announced \in BOOLEAN : Chunk(n, announced)
  \/ LastChunk
  \/ Turn /\ UNCHANGED input

Spec == Init /\ [][Next]_vars /\ WF_vars(LastChunk \/ (Turn /\ UNCHANGED input))

-----------------------------------------------------------------------------
(* Properties. *)

\* Every variable has its type, digests apart; and the parser stays within the
\* bytes it was given.
TypeOK ==
  /\ tx \in Tx /\ stream \in Seq(Byte)
  /\ lim \in 0..Len(stream) /\ pos \in 0..lim /\ more \in BOOLEAN
  /\ sw \in {"ok", "refused", "finalized"}
  /\ state \in PfxStates
  /\ vi_val \in Nat /\ vi_unit \in Nat
  /\ outkey_tag \in {0, 2, 3} /\ extra_acc \in BOOLEAN
  /\ found \subseteq {"R", "ADDK", "PID"} /\ outkeys_done \in BOOLEAN

\* No unsigned counter of the parser is ever taken below zero, whatever the
\* lengths and counts in the stream say: a field never runs past the end of
\* `extra`, and a wrapped counter never lets the parser run on.
NoWrap ==
  /\ vin_remaining \in Nat /\ off_remaining \in Nat
  /\ vout_remaining \in Nat /\ extra_remaining \in Nat
  /\ field_off \in 0..(IF KeySize > PidSize THEN KeySize ELSE PidSize)

\* Somewhere in what was parsed is exactly `want`.
Appeared(want) ==
  \E i \in 0..pos : \A k \in DOMAIN want : stream[i + k] = want[k] /\ i + k <= pos

\* A field the parser counts as matched is in the stream, whole and in one piece,
\* however the chunks cut it.
FoundAppeared ==
  /\ "R" \in found => Appeared(tx.r)
  /\ "PID" \in found => tx.pid # <<>> /\ Appeared(tx.pid)

\* monero_types.h:240: outkeys_done says that vout and extra are verified.  The
\* transcript of the parsed outputs is the one of the derived outputs, R was found,
\* and the additional keys and the payment ID if the device made them.
DoneIsVerified ==
  outkeys_done =>
    /\ state = "DONE" /\ out_eph = OUT_EPH
    /\ "R" \in found
    /\ tx.addk # <<>> => "ADDK" \in found
    /\ tx.pid # <<>> => "PID" \in found

\* No input makes the loop spin: every chunk is answered.
ChunkAnswered == pos < lim ~> (pos = lim \/ sw # "ok")
=============================================================================
