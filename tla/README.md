# A TLA+ model of the Monero app for Ledger devices

The app keeps a Monero wallet's private keys on a hardware device.  A host (the
wallet software) sends it commands; the device derives the outputs of a
transaction, shows the user where the money goes, and signs if the user agrees.
The host is free to send any command at any time, so everything that makes the
app correct is in the order of commands it accepts, in what it remembers between
them, and in what it has shown before it signs.

The modules here model that part: the command state machine, the digests that tie
what was derived to what was shown and to what is signed, the parser of the
transaction prefix, the screens and the buffers they show, the settings in
persistent memory, the main loop between them, and a wallet that uses all of it.  Paths are relative to the repository, `src/src/...`
being the app's own sources.

## Inventory

| Part | Sources | State it keeps | Operations |
|---|---|---|---|
| Main loop and I/O | `monero_main.c`, `monero_io.c` | `protocol`, `io_reply_pending`, the APDU buffer | receive, refuse, dispatch, reply now or later, die on an error status |
| Dispatcher | `monero_dispatch.c` | `tx_state_ins/p1/p2` | which instruction may follow which, per instruction P1/P2 |
| Transaction lifecycle | `monero_open_tx.c` | `tx_in_progress`, `tx_sig_mode`, `tx_stages`, `hmac_key`, `r`, `R` | set mode, open, close, reset, abort, check stages |
| Output keys | `monero_key.c` | `tx_output_cnt`, chains `outkeys` and `out_eph` | GEN_TXOUT_KEYS, change address check; stateless derivations |
| Payment ID | `monero_stealth.c` | `tx_payment_id*` | STEALTH: one per transaction, masked for one destination |
| Prefix | `monero_prefix.c` | `keccakH`, `prefixH`, the stream parser | PREFIX_HASH P1=1 and P1=2 |
| Blinding | `monero_blind.c` | none | GEN_COMMITMENT_MASK, BLIND |
| Prehash | `monero_prehash.c` | `OUTK`, `commitment`, `C`, `mlsagH` | VALIDATE P1=1, 2, 3 |
| Ring signatures | `monero_mlsag.c`, `monero_clsag.c` | `tx_sign_cnt`, `c`, `clsag_match_history` | prepare, hash, sign |
| Button screens | `monero_ux_nano.c` | the current screen | one question per item, accept, reject |
| Touch screens | `monero_ux_nbgl.c`, `monero_ux_common.c` | queued rows | queue a row, show the review, accept, reject |
| Init and reset | `monero_init.c` | all of `monero_v_state_t` | start, INS_RESET, wipe |
| Settings and menus | `monero_nvram.c`, `monero_ux_nbgl_menu.c`, part of `monero_init.c` and `monero_key.c` | NVM | install, account, network, reset, put/get key |
| Address screen | part of `monero_key.c`, `monero_ux_nano.c`, `monero_ux_nbgl.c`, `monero_ux_nbgl_menu.c` | `ux_address`, `disp_addr_mode` | DISPLAY_ADDRESS, the user's own address |
| Text | part of `monero_crypto.c`, `monero_monero.c` | `ux_amount` | amounts, fees, timelocks, base58 |
| Transaction proofs | `monero_proof.c` | none | GET_TX_PROOF |
| Primitives | `monero_crypto.c` | none | curve and hash arithmetic |
| Wallet | `tests/` | its own program | the order of commands of an honest host |

**How they interact.**  There is one thread.  The main loop receives a command and
calls the dispatcher, which calls a handler, which either returns `SW_OK` (the
reply leaves at once) or puts a screen up and leaves the reply to the screen's
callback.  While a screen is up the loop goes on and can receive another command:
`io_reply_pending` is what makes it refuse.  Every other status kills the app,
which first wipes its volatile state.  Handlers talk to one another only through
`monero_v_state_t`.

**A transaction**, as a host sends it: SET_SIGNATURE_MODE, OPEN_TX, STEALTH (if
there is a payment ID), GEN_TXOUT_KEYS per output, PREFIX_HASH, GEN_COMMITMENT_MASK
and BLIND per output, VALIDATE 1 (fee, pseudo-outputs), 2 (each output is shown), 3
(commitments, then the hash to be signed), CLSAG or MLSAG prepare, hash and sign
per input, CLOSE_TX.

**What is hard about it.**

- The device sees an output four times (derived, in the prefix, shown, in the
  commitments), in four messages of the host's making, and only digests compared
  at the right moments tie them together.
- The prefix is checked before anything is shown; change is derived before its
  amount, and so the need for an ownership check, is known; the payment ID is
  masked before its destination appears.
- The host decides which output is the last, and may stop, repeat, go on too long or
  reset anything half-way.
- `tx_state` is not enough to know how far a transaction got, so `tx_stages`
  records work done; each bit must mean what it says after every detour.
- Nonce handles and `tx_sign_cnt` outlive transactions.
- Screens answer later than commands, and the two kinds of screen differ: buttons
  confirm each item, touch devices everything at once, from a table of rows with
  room for six amounts, three addresses and nine rows in all.
- What a screen shows is read from buffers when it is drawn, long after the command
  that filled them, and the buffers are reused by later commands and by the menus.
- The prefix comes in chunks cut anywhere, with varints, counts and lengths that
  belong to the host, into counters that are unsigned.
- Persistent memory is written field by field, and power may fail in between.

`PROJECT.json` lists these hazards at their lines.

**What makes each part correct.**  Main loop: one unanswered command at most, and
nothing moves under a question.  Lifecycle: no bit without the work.  Output keys,
prefix, payment ID, prehash: approved, shown, hashed and signed are the same
thing.  Ring signatures: a nonce is used once, and only the sealed hash is signed.
Screens: approval covers everything that was to be shown, as it was told; a reply is
owed exactly while there is a screen that sends it.  Parser: it accepts the
prefixes of the transaction that was derived, and these only.  Settings: what is
loaded is what was stored, and a change happens whole or not at all.

## Modules

| Module | Models | Extends or instantiates |
|---|---|---|
| `MoneroDevice` | state, start-up, reset, main loop, screens | |
| `MoneroTx` | the commands of a transaction | extends `MoneroDevice`, implements `SignerPromise` |
| `SignerPromise` | abstract: open, approved, sealed, signed | |
| `PrefixParser`, `MCPrefixParser` | the parser of the prefix, byte by byte; its inputs and the layout they follow | |
| `ReviewPromise` | abstract: rows told, rows read, approval | |
| `ButtonReview` | flows and menus of button devices | implements `ReviewPromise` |
| `TouchReview` | the table of rows of touch devices | implements `ReviewPromise` |
| `AddressScreen` | the address screen and all who write to its buffer | |
| `Settings` | persistent memory, menus, power | |
| `AmountText`, `MCAmountText` | numbers as text, on one buffer | |
| `HonestHost`, `MCHonestHost` | a wallet, its user and the plug, composed with the device | extends `MoneroTx` |
| `*_proofs` | theorems about the module of that name | extend it |
| `HonestHost_proofs` | theorems about `HonestHost`, from those about any host | extends `MoneroTx_proofs` too |

`MoneroTx` is the whole device at the grain of commands.  The other modules each
look closer at one of its parts: `PrefixParser` is what `ParsePrefix` stands for,
`ButtonReview` and `TouchReview` are what `Ask` and `Accept` stand for, with the texts on the
screen, which `MoneroTx` has as values.  In those modules a command of the host is
the calls it makes on the part, in every order in which the dispatcher accepts the
commands; what a handler checks before it makes the calls is in `MoneroTx`.

### `MoneroDevice` and `MoneroTx`

Variables have the names of the fields of `monero_v_state_t`; `tx_state` is the
triple `tx_state_ins/p1/p2`, `tx_stages` the set of raised bits, `tx_payment_id`
gathers `tx_payment_id_set`, `_pub` and `_is_dummy`.  `review` is the screen,
`rows` the touch device's queue.  `shown` and `signatures` are history: what the
user accepted in this transaction, which real signatures left the device.  `rows`
and `shown` keep each kind of item (timelock, fee, output, address) in a list of
its own: the code counts amount rows and address rows apart (`amountNum`,
`addrNum`), and nothing depends on how kinds interleave.  In which order the rows
stand on the screen is the matter of `TouchReview`.

An action is one command: the dispatcher's checks, the whole handler, the
update of `tx_state` behind it.  It is enabled exactly when the device would
accept the command.

- *Errors.*  Any error status kills the app, so a handler's failure paths are all
  the action `Kill`, which is always possible (the host can always send something
  wrong, the user can always quit).  `Boot` starts the app again.
- *Digests* are the sequences of the items absorbed.  Equality of digests is
  equality of sequences, which is what collision resistance buys.  A context
  finalised but not initialised again carries the mark `Final`: the code may
  absorb more into it, and what it then yields equals no proper digest.
- *Keys and points.*  An output is its destination, change flag and amount key
  (named by its index in the transaction).  The key on chain is determined by
  destination and index, a commitment by amount key and amount.  That a commitment
  opens to the amount shown is the check of `monero_prehash.c:260-302`, whose
  passing is what `Commit` says.
- *Amounts* are those a range proof accepts, below 2^64, as any verifier of the
  transaction demands: the screen shows the low eight bytes of a 32-byte scalar.
- *Handles.*  A secret the device hands to the host comes back with an hmac.  An
  amount key is accepted if its index is below `tx_output_cnt`; a nonce handle if
  it was made under the present `hmac_key` and `tx_sign_cnt` (`alphas`, `HasNonce`).
- *Prefix.*  A command carries a piece of the stream: output keys, maybe a payment
  ID nonce, maybe the end of `extra`.  Bytes after the end are hashed, not parsed.
- *Destinations.*  `Dest` are the addresses an output may name, no two with one view
  key: the check that a masked payment ID belongs to the destination compares view keys
  only (`monero_prehash.c:218-220`).
- *Left out:* `tx_cnt` (only displayed), the transaction key `r`, `R`, the
  additional transaction keys, the mask part of a commitment, P2 of ring prepare
  and sign, which no check uses.

### `PrefixParser`

An action is one case of the switch in the parser's loop, for one byte; `Chunk` is
the arrival of a command, `LastChunk` its verdict.  States, counters and flags
have the code's names.  A varint's shift is kept as its weight.  Counters are
integers, and `NoWrap` says that unsigned arithmetic would make no difference.
`MCPrefixParser` builds prefixes from the layout that `monero_prefix.c:37-57` describes,
well-formed ones and ones with an error, and says which are which by
construction; it shares no definition with the parser's own transitions.

### `ButtonReview`, `TouchReview`, `ReviewPromise`

Both have the display's functions as actions with the code's names, the buffers
`ux_amount`, `ux_address`, `changeTitleBuf`, and on a touch device the table
`transactionContext` with its pairs of pointers.  What the user reads is what the
pointers lead to when a step of a flow or a page is drawn (`read`); `told` is what
the handlers meant.  The mapping to `ReviewPromise` forgets both outside a
transaction.  On a touch device it also forgets the account in the title of a
change: that the code does not keep it is a finding below.  On a button device the
user may walk through the menus, which write to the same buffers, between any two
commands.

The output that closes the set does not end the outputs.  The dispatcher goes on
accepting them (`monero_dispatch.c:416-434`) when the review is over, and the handler
tells the display about each (`monero_prehash.c:337-378`): a button device runs another
flow, with the bit that approves still up, and a touch device queues rows from the first
again and replies at once, for a review that never comes, since no second output can
close the set (`monero_prehash.c:324-335`).  `ReviewPromise` therefore
speaks of what was told *by the approval*: between the last output and the approval nothing is
told (`Tell`), afterwards more may be (`TellMore`), and nothing says whether it is
read.  That such outputs do not get signed as if they had been reviewed is
`SignedBodyIsReviewed` of `MoneroTx`.

### `AddressScreen`

One boolean tells the kind of device.  It has every writer of `ux_address` and
`disp_addr_mode`: DISPLAY_ADDRESS, the outputs of a transaction, the home page,
the menus, INS_RESET, and INS_GET_TX_PROOF, whose working buffer is a union with
them (`monero_types.h`).  The view key may be exported at any time, transactions
included (`monero_dispatch.c:65-67`, `monero_key.c:187-191`); its answer leads a touch device home, from where
the user can open the own address in the middle of a transaction.  `Output` is an
output before the last, the last, or one after it, whose rows fit or, on a touch
device, do not: then the transaction is aborted and answered, and the spinner or the review is
drawn all the same.  The fee and a timelock do to these variables what an output to
change does.

### `Settings`

`nvm` has the fields of `monero_nv_state_s`; `job` are the writes left of a call,
made one by one, and `PowerCut` may come between any two.  The assumption on the
platform: `nvm_write` of a block erases and writes in the order of addresses, and a
field that was not reached keeps its value.  What an erase leaves of the field
it stopped in is not the old value; the magic is first in the block.

### `AmountText`

A number is the sequence of its digits, twenty at most as in 64 bits, a buffer a function from indices to
characters.  The conversions write where the code writes, and leave what it leaves
from the previous number.  The reference is the decimal text with trailing zeros
stripped.

### `HonestHost`

The program of a wallet as a sequence of commands, taken from
`tests/test_sig_real_simple.py` and `tests/monero_client/monero_cmd.py`.  That test runs
a build whose check of the commitments is bypassed and sends one of them fewer; the app as it is
shipped has all of them in `C`, so the wallet here sends them all before the one that finalises.  It drives
the actions of `MoneroTx` unchanged; the user accepts or rejects, the device may be unplugged
between two commands, and the wallet comes back with another transaction.

A plan is what the wallet wants: its outputs, its fee, whether it is locked, a payment
ID or none, in how many pieces it sends the prefix, how many pseudo-outs and ring signatures
it has.  `Planned` says which values these may have, and `PlansOK` that each plan of the wallet has such: at
least one output, and P2 of VALIDATE large enough to count them.  `Honest` is what a
wallet must keep to besides if no command of it is to be refused; only the run's
liveness needs it, and only the run's plans (`MCPlans`) are chosen by it.

### Bounds

| Constant | Stands for | In the code |
|---|---|---|
| `MaxOutputs`, `MaxOuts` | outputs per transaction | unbounded |
| `MaxChunks` | P2 of PREFIX_HASH | 255 |
| `MaxStep` | P2 of VALIDATE and ring hash | 255 |
| `MaxSign` | `tx_sign_cnt` | 2^32 - 1 |
| `MaxRingMsgs` | messages in one ring challenge | unbounded |
| `MaxAmountRows`, `MaxAddressRows`, `MaxRows`; `MAX_AMOUNT_NUMBER`, `MAX_ADDR_NUMBER`, `MAX_TAGVALUE_NUMBER` | rows of a touch review | 6, 3, 9 |
| `Base`, `TopBit`, `KeySize`, `PidSize`, `PaddingMax` | 128, 2^63, 32, 9, 255 | the same |
| `MaxChunk` | bytes of a chunk | 254 |
| `MaxFields` | fields of `extra` in a run | unbounded |
| `MaxCuts` | power cuts in the middle of a change | unbounded |
| `MaxTransactions` | transactions of a wallet | unbounded |
| `Dest`, `Own`, `Subaddr`, `Amount`, `Masked`, `Locks`, `Versions`, `HostModes`, `Accounts`, ... | what may be sent, shown or chosen | all |

The theorems hold for every value their assumptions admit; only TLC needs small
ones.  Two outputs tell order and identity apart; two chunks split a key from the
end of the stream; three ring messages fill the CLSAG window.  `MaxStep` of a run is
the least that lets its longest VALIDATE phase finish.  The parser's digits are small so that a
varint still has five bytes, a top bit and a long form, and chunks of one to three
bytes cut every field everywhere.  The small row limits are in the code's order,
and both kinds of overflow happen.  Two cuts let power fail in the repair of what
the first one left.

## Runs

The runs of `MoneroTx` allow reset, death, restart, rejection, view-key and address
screens at every point, and every order of commands the dispatcher admits.

| Run | Instance | Shows |
|---|---|---|
| `ReviewButtons` | buttons, two outputs, own and foreign, change or not | `SignedPrefixIsReviewed`, `SignedBodyIsReviewed`, `FrozenUnderReview`, `KeepsPromise` (of `SignerPromise`) |
| `ReviewTouch` | touch, timelock, prefix in two pieces, a payment ID masked for one of two destinations | `ReviewOwesReply`, `StagesEarned`, `ApprovedOutputs`, `SignedPrefixIsReviewed` |
| `RingSign` | protocols 3 and 4, real and fake, ring signatures of three messages, reviews that overflow | `TypeOK`, `SealIsWhole`, `NonceUsedOnce`, `RealSignatureEarned` |
| `ReviewOverflow` | touch, four outputs, the code's own row limits | violates `ReviewOwesReply` |
| `Prefixes` | every sequence of up to three good fields of `extra`, or two with bad ones, every kind of input and output, good and bad, lengths one off, any chunks | `NoWrap`, `AcceptedIsWellFormed`, `WellFormedIsAccepted`, `FoundAppeared`, `DoneIsVerified`, `ChunkAnswered` |
| `TouchRows` | touch, test network, three outputs, after the approval too, small tables | `RowsFit`, `ApprovedAfterWarning`, `KeepsPromise` (of `ReviewPromise`) |
| `ChangeTitles` | the same with one text of a kind | violates `ChangeAccountsTold` |
| `ButtonFlows` | buttons, test network, three outputs, after the approval too, menus at any time | `OwedReplyHasItsFlow`, `ApprovedAfterWarning`, `KeepsPromise` (of `ReviewPromise`), `Answered` |
| `SettingsCuts` | three accounts, three networks, two power cuts | `SessionIsOfSettings`, `AlwaysLoads`, `TestNetworkConfirmed`, `NothingHalfChanged`, `WorksAgain` |
| `Addresses` | both kinds of device, two subaddresses, two destinations, exports at any time, rows that fit or not | `AddressIsAsLabelled`, `OwedReplyHasItsScreen`, `NoAddressAskedInTransaction` |
| `AmountText` | numbers of one to twenty digits, zeros everywhere, in any order on one buffer | `FeeText`, `OutputText`, `TimelockText` |
| `HonestHost` | two transactions of a wallet, accepted, rejected or cut off | `ToldThePlan`, `SignedIsPlan`, `EveryTransactionEnds`, `ApprovedIsSigned` |

`ReviewButtons` makes no ring signatures (`MaxSign = 0`) and stays in real mode, so of
`SignerPromise` it checks everything up to the seal; the signatures are checked in
`RingSign`, as `RealSignatureEarned`, and by the theorem `SignerKeepsPromise`.  In
`TouchRows` a transaction has three outputs and one account of the change: the rows of an output
after the approval always fit there, and that a row which does not fit then aborts the
transaction like any other is left to the theorem `TouchKeepsPromise`.

The properties, in the order of a transaction.  Of `MoneroTx`:

- `ReviewOwesReply`: a question is on screen exactly while a reply is owed.
- `FrozenUnderReview`: nothing about the transaction changes under a question.
- `StagesEarned`, `SealIsWhole`: stage bits exist only in a real transaction in
  progress; approval presupposes a closed output set; the seal (PREHASH_FINALIZED)
  presupposes all the rest.
- `ApprovedOutputs`: what was approved is, in order, the list of derived outputs;
  `C` covers the amounts shown; change that is worth something is the wallet's own;
  and on a touch device each destination has its address row.
- `SignedPrefixIsReviewed`: the prefix under the signed hash has these outputs and
  no other (`Carries`: the list of keys can be cut so that each piece of the stream holds
  the part between two cuts), is locked exactly if that was shown, and carries a payment ID exactly if the review
  said so, masked for each of the transaction's destinations.
- `SignedBodyIsReviewed`: the fee is the one shown, the encrypted amounts are those
  reviewed, and so are the commitments, position by position.  The statement is exact about one
  freedom the code leaves: after the set is closed the host may have more outputs
  *shown*, whose encrypted amounts and commitments then join the chains.  The output
  commitments the host sends explicitly are then the last of those reviewed; what
  is hashed no longer parses as the transaction whose prefix was checked.
- `RealSignatureEarned`: when a real signature leaves, every stage was passed, and
  the challenge was computed for this ring, under this scheme, and absorbed the
  sealed hash.
- `NonceUsedOnce`: no two real signatures of one session use the same nonce.
- `KeepsPromise`: all of this together implements `SignerPromise`.

Of the parts:

- Parser: a prefix is accepted if (`WellFormedIsAccepted`) and only if
  (`AcceptedIsWellFormed`) it is a well-formed one of the derived transaction, for
  every way to cut it, but for the last disagreement listed below; a field counted
  as found is in the stream whole and in one piece (`FoundAppeared`); the end means
  that all was compared (`DoneIsVerified`); no counter wraps (`NoWrap`); and
  every chunk is answered (`ChunkAnswered`).
- Reviews: `KeepsPromise` says that what is approved is all that was told by then, read
  word for word; `ApprovedAfterWarning` that nobody signs on a test network
  unwarned; `RowsFit` that the table never runs past its arrays; `OwedReplyHasItsFlow`
  and `Answered` that no command waits for a screen that is not there, or for ever.
- Addresses: the address on screen is the one its label says (`AddressIsAsLabelled`); a
  reply is sent by the screen that owes it and by no other, and the review of an aborted
  transaction owes none (`OwedReplyHasItsScreen`); in a transaction the only address
  that can be on screen is the user's own, which answers nothing
  (`NoAddressAskedInTransaction`).  The last is what `monero_dispatch.c:95-101` is
  for, the refusal of INS_DISPLAY_ADDRESS during a transaction; that an address may be
  up between two commands all the same is said at `monero_ux_nbgl.c:49-52`.
- Settings: the session is of the settings (`SessionIsOfSettings`), which can always be
  loaded (`AlwaysLoads`) and were confirmed if they name a test network; a change
  that was cut leaves old settings, new ones, or a fresh installation
  (`NothingHalfChanged`), and the device works again (`WorksAgain`).
- Texts: fee and output amounts and timelocks read as the numbers they are
  of, cut where the buffers say.
- Wallet: what the user accepts is the wallet's plan, kind by kind and in order
  (`ToldThePlan`); the hash that is then signed is that of the plan, its prefix with the
  planned outputs, payment ID and lock, its body with the fee, as many
  pseudo-outs, encrypted amounts and commitments as planned, each in its place, and nothing more
  (`SignedIsPlan`); no command in
  its order is refused after whatever happened before (`EveryTransactionEnds`), and an
  approved transaction gets all its signatures (`ApprovedIsSigned`).

### Disagreements between the code and what is said of it

1. `monero_types.h:110-112` promises that `io_reply_pending` is set while a
   confirmation is on screen, so that a second command is refused.  On touch
   devices there is a state where it is not.  If the address of the output that closes
   the set has no free row (a transaction to four addresses), `add_address`
   (`monero_ux_nbgl.c:129-149`) aborts the transaction and sends a reply, returns, and
   `ui_menu_validation_display_last` draws the review all the same.  `ReviewOverflow`
   finds it.  `RingSign`, whose reviews without change overflow, explores what is
   possible from there, and `SealNeverPartial` and
   `RealSignatureIsEarned` prove it for all parameters: the stages were cleared with
   the transaction, so an acceptance on that screen unlocks no signature.
2. `monero_ux_nbgl.c:230-231` says that a non-primary account of the change is
   surfaced.  All change rows point to the one `changeTitleBuf`, so with two change
   outputs both show the account of the later one (`ChangeTitles`).

Three more were met while modelling, and have no run of their own:

3. `tests/test_vuln_prefix_extra.py:192` treats one byte of padding as valid.  At
   the very end of a prefix the parser refuses it, and an empty field there too, because
   the comparison of lengths (`monero_prefix.c:683-690`, `820`) runs only for a byte
   that has come.  `MCPrefixParser` names these prefixes `EndsEmpty` and claims nothing
   of whether they are accepted.
4. `monero_prehash.c:359` gives the conversion of an output's amount a length of 15, not that of
   the buffer (23), so an amount of more than 14 characters is shown without its
   last digits.  `OutputText` says exactly this.
5. A timelock of exactly 15 digits fills the 15 bytes it was given, and nothing ends it but what
   the buffer held (`monero_crypto.c:1587-1592` refuses only `len > str_len`).
   `TimelockText` claims the text of the others.

## Fairness

Safety properties assume none.  Liveness rests on:

- `PrefixParser`: the loop goes on, `WF_vars(LastChunk \/ (Turn /\ UNCHANGED input))`.  It is a `while` in one
  handler.  Nothing is assumed about the host sending more.
- `ButtonReview`: `WF_vars(User)`: the user does not leave a review for ever.  Steps only
  go forward, so that is enough.
- `Settings`: the processor goes on, and the user switches a device that went off on
  again.  Power fails at most `MaxCuts` times in the middle of a change, or nobody
  could promise anything.
- `HonestHost`: the wallet goes on when it is answered, the user answers, and an
  unplugged device is plugged in again: assumptions about the host and its
  user, not about the device, which promises nothing without them.

## Proofs

All theorems hold for every value of the constants that the `ASSUME` of the module
admits.

| Theorem | Property | Inductive invariant |
|---|---|---|
| `MoneroTx_proofs`: `TypeCorrect` | `TypeOK` | itself, variable group by variable group |
| `SealNeverPartial` | `SealIsWhole` | `SealInv`: a sealed transaction is past P1=3 of VALIDATE |
| `NonceNeverReused` | `NonceUsedOnce` | `NonceInv`: counts only grow; before a ring signature is released, all others have smaller counts |
| `RealSignatureIsEarned` | `RealSignatureEarned` | `RingInv`: what `keccakH`, the window and `c` hold between hash commands |
| `ButtonReviewOwesReply` | `ReviewOwesReply`, buttons | itself |
| `ButtonFrozenUnderReview` | `FrozenUnderReview`, buttons | from `ButtonReviewOwesReply` |
| `ButtonStagesEarned` | `StagesEarned`, buttons | `EarnedInv`: with `SealInv` |
| `SignerKeepsPromise` | `KeepsPromise` | `Quiet`: no question of the review is open under the seal; with `SealInv`, `NonceInv` |
| `ApprovedAreDerived`, `PrefixIsReviewed`, `BodyIsReviewed` | `ApprovedOutputs`, `SignedPrefixIsReviewed`, `SignedBodyIsReviewed` | `ReviewInv`, with `Grounds` |
| `StagesAreEarned` | `StagesEarned`, of a transaction in progress | `ReviewInv` and `FakeInv` |
| `FrozenInProgress` | what `FrozenUnderReview` says, of a transaction in progress | `Quiet` |
| `HonestHost_proofs`: `HonestIsHost` | all of `MoneroTx`'s, of this host | `PlaceInv` |
| `PlanIsTold` | `ToldThePlan` | `HostInv`, with `ReviewInv`, `Grounds` and `FakeInv` |
| `PlanIsSigned` | `SignedIsPlan` | `HashedSoFar` and `AllDerived`, with `HostInv` |
| `PrefixParser_proofs`: `ParserTypeCorrect`, `ParserNeverWraps` | the types, `NoWrap` | `Counted`: each state has room for what it is about to take |
| `ParserDoneIsVerified` | `DoneIsVerified` | `Verified`, with the types |
| `ParserFoundAppeared` | `FoundAppeared` | `SeenSoFar`: while a field still matches, the bytes before the present one are those wanted |
| `ButtonReview_proofs`: `ReplyHasItsFlow`, `ApprovalIsWarned` | `OwedReplyHasItsFlow`, `ApprovedAfterWarning` | `ButtonInv`: only the last review asks for the approval, begins with the warning and stays until it is answered; so outputs after it come to a transaction already approved |
| `ButtonsKeepPromise` | `KeepsPromise` | `RowsInv`: told = read followed by what the rest of the flow will show |
| `TouchReview_proofs`: `RowsAlwaysFit`, `ApprovalIsWarned` | `RowsFit`, `ApprovedAfterWarning` | `ScreenInv` |
| `TouchKeepsPromise` | `KeepsPromise` | `RowsInv`: each pair leads, through a buffer of its own, to the row that was told |
| `Settings_proofs`: `SettingsAlwaysLoad`, `SessionFollowsSettings`, `TestNetworkIsConfirmed`, `ChangesAreWhole` | `AlwaysLoads`, `SessionIsOfSettings`, `TestNetworkConfirmed`, `NothingHalfChanged` | `MemoryInv`: what memory may hold after each of the seven writes of an installation, and which change is under way |
| `AddressScreen_proofs`: `ScreenShowsItsAddress`, `ReplyHasItsScreen`, `NoAddressAskedMidway` | `AddressIsAsLabelled`, `OwedReplyHasItsScreen`, `NoAddressAskedInTransaction` | `AddressInv`: an address on screen is the one asked for, or the own one; every output draws a screen of its own, so none writes to an address in view |
| `AmountText_proofs`: `FeeIsShown`, `OutputIsShown`, `TimelockIsShown` | `FeeText`, `OutputText`, `TimelockText` | `TextInv`: the last byte of the buffer is never written, so every text ends in it |

`SealIsWhole` is not inductive: a sealed transaction that could go back to the
prefix or to a review would lose a stage and keep the seal.  `SealInv` adds that
the command state is by then one from which no such command is accepted.
`NonceUsedOnce` needs to know, in the middle of a ring signature, that the
current count has not been used yet: `Unsigned` in `NonceInv`.  For
`RealSignatureEarned` the difficulty is CLSAG, which takes every message from the
host: `Window` says that the three bits of history are the last three messages
since the hash began, so a match in the oldest bit is a message that was absorbed.

### What is signed was reviewed

`ApprovedOutputs`, `SignedPrefixIsReviewed` and `SignedBodyIsReviewed` compare lists that are built by many
commands: the outputs derived, the keys in the prefix, the rows told, the commitments
chained, the items hashed.  They hold at the end only because of what holds
half-way, and `ReviewInv` says what that is, for a real transaction in progress:

- `ToldInv`.  `Told` is what the user was told *or is being asked*: on a button device
  the items accepted and the one on screen, on a touch device the queue until it is
  approved.  So defined, one command adds one item (on a touch device an address with
  it), an acceptance changes nothing (`AcceptKeeps`), and both kinds of screen share one argument.
  Every item told is `Sound`: change of the wallet's own, a destination that is the
  one the payment ID was made for.
- `DerivedInv`: as many keys on chain as outputs derived, each the key of its output.
- `PrefixInv`: the stream so far has the first of these keys, cut as the commands
  cut it; once it was parsed to its end, all of them, the payment ID, and a lock exactly if told.
- `OutputsInv`: until the set is closed, output, commitment and item told grow together and
  agree index by index.  Closing compares the digest with that of the derivation,
  so from then on `OUTK` and `C` are those of the first items told, and stand still.
- `BodyInv`: the running hash is the fee, the pseudo-outputs, an encrypted amount
  for each commitment, and in P1=3 the commitments (`OpenBody`, `ClosedBody`).
- `SealedInv`: the sealed hash is one that was built so.  It cannot be built a second
  time: finalising put a mark on the chain of commitments, which is then longer than `C`.
- `AskedInv`: in which commands a question can be on screen at all.

`Grounds` is what holds beside it of every transaction: `Quiet`, `SealInv`, the types
of the output chains, the flags, and that a transaction in real mode speaks a protocol version
with ring signatures (`ProtocolInv`).  `FakeInv` disposes of the transactions that are not real:
they have no stages and ask nothing.  `OutputsOK`, `FlagsOK` and `Quiet` are from
the first half of the module.

A step is then one of few kinds: opening (`OpenTxClears`), a command that leaves the transaction
alone (`IdleKeeps`), an acceptance (`AcceptKeeps`), or a command of a real transaction, for
which each part of `ReviewInv` has a lemma of its own (`AskedStep`, `ToldCommand`,
`DerivedCommand`, `PrefixCommand`, `OutputsCommand`, `BodyCommand`, `SealedCommand`).  All of it is stated
pointwise on indices, so no induction over sequences is needed; that a parsed prefix has a
*first* end is the least element of a set of naturals (`Least`).  Given
`ReviewInv`, `ProtocolInv` and `FakeInv` as invariants of `ReviewButtons`, `ReviewTouch` and
`RingSign`, TLC finds no exception.

The theorems include the review that overflows: then a row is missing, but the
transaction is gone with it, and nothing of it can be approved.

### What an honest host gets

The theorems about `MoneroTx` say what the device keeps to against any host.  Those of
`HonestHost_proofs` say what a host gets that follows the protocol, whatever its plans and
on either kind of screen: its user is told the plan, and what the device gives it to sign is
the plan.  They assume the order of `HostSpec` and `PlansOK`, nothing else:
the user may reject, power may go at any place, and what comes before the transaction does
not matter.

`HonestIsHost` shows that each step of the wallet is one of `MoneroTx` (or none), so every
invariant proved there holds here.  For that, and for all that follows, the program is laid
out by places: `Keys`, `Stream`, `Masks`, `Blinds`, `FeeAt`, `Reviews`, `Sums`, `Seal`, `Rings` are where
its phases begin, and `ProgramIs` says which command stands at each place.  A phase may be empty
(no payment ID, no pseudo-outs, an estimate without masks), and the places follow from
the plan.

`ToldThePlan` speaks of what was shown and not of how far the host is, so it says nothing of what
the next command will show.  `HostInv` adds that: in a real transaction under way, `pc` tells which payment ID
the device made, when the review begins and when its outputs may be closed, and what the
user was told *or is being asked* (`ToldSoFar`, about the `Told` of `ReviewInv`), item for item;
a question on a button device is about the item the wallet told last (`AskedLast`).  What
was accepted is that list, or that list without the item on screen (`Heard`), hence a
beginning of the plan.  An estimate tells nothing, and after a rejection or an overflowing
touch review no transaction is in progress.

`SignedIsPlan` goes further than `SignedBodyIsReviewed`, which leaves open how many pseudo-outs were
hashed and whether outputs were shown after the set was closed.  `ItemAt(place)` is the item that the
command at a place adds to the running hash, and `HashedSoFar` that the hash is
these items up to the present place, one by one.  `AllDerived` says that the set of outputs is closed
with the planned number, so that the prefix whose keys it was compared with has them
all.  The seal then copies a hash that is complete.

TLC finds no exception to `HostInv` and `HashedSoFar` either, with buttons or with
a touch screen.

### Amounts as text

The theorems of `AmountText_proofs` are about every number of at most twenty digits and every
history of the buffer, where the run takes representatives.  The code writes digits into
an array from a place it computes and then moves, pads and strips; the reference is an
integer part, a dot and twelve decimals.  The two are shown to agree place by
place (`PointedAre`, `PaddedAre`, `ReferenceInArray`), so the last digit that is not a zero
is at the same place in both (`LastExists`, `StrippedIs`) and the texts are equal
(`CodeTextIsExact`).  A text that fits is written with its NUL behind it, one that does not is
cut (`PutText`, `PutPrefix`); what an earlier conversion left lies after a NUL, and
`TextInv` says that there always is one.

### The others

In the refinements every step of the detailed module is shown to be a step of the
promise or none (`Promised`).  `NoWrap` is not inductive because a counter is safe
to decrease only in states entered with a check; `Room` is the table of these.  The touch review's `RowFits` is what
makes late reading harmless: two rows never share an amount or an address buffer, since
both counts only grow until the review ends.  `ReviewConstantsOK` asks for two
amounts and two rows at least, for the timelock and the fee; the code has six and nine.

`ButtonReviewOwesReply`, `ButtonFrozenUnderReview` and `ButtonStagesEarned` are about
buttons because a touch review that overflows (`ReviewOverflow`) leaves a question, and later a
stage, that belong to no transaction.  Of a transaction in progress the last two hold on
either device (`FrozenInProgress`, `StagesAreEarned`): `Quiet` gives the owed reply that keeps
the host out, and `AskedInv` the order of the stages.  The run `ReviewTouch` checks
the full properties on an instance whose rows fit.

Model-checked only:

- `AcceptedIsWellFormed`, `WellFormedIsAccepted`: the reference enumerates prefixes, flattens
  their fields and writes varints recursively; what such definitions compute is
  proved by induction over data, which is out of the prover's reach.  What the parser's own
  state says of an accepted prefix is proved (`ParserDoneIsVerified`, `ParserFoundAppeared`).
- `ChunkAnswered`, `Answered`, `WorksAgain`, `EveryTransactionEnds`,
  `ApprovedIsSigned`: liveness under fairness.

## Not modelled

- Curve and hash arithmetic (`monero_crypto.c` but for the text conversions): taken as
  given by its callers.  Numbers modulo 2^255 - 19 are out of a model checker's reach.
- The arithmetic of a transaction proof (`monero_proof.c`): it keeps nothing.
- Base58 (`monero_monero.c`): an address is a value, and no property tells its characters apart.
- PUT_KEY: exists in debug builds only.
- The byte-level APDU buffer (`monero_io.c`): a cursor into one command; every
  fetch past its end is an error, and so a `Kill`.
- Handles other than those of nonces and amount keys: they carry a secret out and
  in again, and nothing is remembered.
- The additional transaction keys of `MoneroTx`: `PrefixParser` has them.
- The SDK, glyphs, icons, unit tests, and the tests of the Python client that
  `HonestHost` does not follow.

## What is left

1. *Model.*  `monero_io.c` with its cursor; GET_TX_PROOF's own output; a touch
   device under `HonestHost`, whose liveness now is about buttons.
2. *Proofs.*  The layout of a prefix as a relation between the stream and the places where its
   fields begin, without recursion: then that what is accepted has this layout
   could be proved for every prefix.
