---------------------------- MODULE Settings_proofs ----------------------------
(***************************************************************************)
(* What is proved about Settings, for every set of accounts and any number *)
(* of power cuts.  Memory is followed through the seven writes of an       *)
(* installation: how far the job is says what the fields hold, and so what *)
(* the next start will find if the power fails there.                      *)
(***************************************************************************)
EXTENDS Settings, SequenceTheorems, TLAPS

Networks == {"MAINNET", "STAGENET", "TESTNET"}
Memory == [magic : {"zero", "C_MAGIC"}, network_id : Networks,
           key_mode : {"zero", "SEED"}, account_id : Nat]

\* What is left of an installation after its first k writes.
Rest(net, k) == [i \in 1..(7 - k) |-> monero_install(net)[k + i]]

\* No write is left: memory is what was asked for, or a cut left something else.
Settled ==
  /\ nvm.magic = "C_MAGIC" =>
       \/ asked = SettingsOf(nvm)
       \/ cuts > 0 /\ SettingsOf(nvm) \in {settled, JustInstalled}
  /\ nvm.magic # "C_MAGIC" => asked = JustInstalled \/ cuts > 0

\* The writes left are those of an installation after k of them.
Installing(net, k) ==
  /\ job = Rest(net, k)
  /\ asked = [JustInstalled EXCEPT !.network_id = net] \/ (cuts > 0 /\ net = "MAINNET")
  /\ net # "MAINNET" => net \in confirmed
  /\ k = 0 /\ nvm.magic = "C_MAGIC" => SettingsOf(nvm) = settled
  /\ k \in 1..6 => nvm.magic = "zero"
  /\ k \in 2..5 => nvm.network_id = "MAINNET"
  /\ k = 6      => nvm.network_id = net
  /\ k \in 4..6 => nvm.account_id = 0
  /\ k \in 5..6 => nvm.key_mode = "SEED"

\* The one write of another change is left.
Changing ==
  /\ nvm.magic = "C_MAGIC" /\ SettingsOf(nvm) = settled
  /\ \/ job = <<ResetWrite>> /\ asked = JustInstalled
     \/ \E idx \in Accounts :
          /\ job = <<Write("account_id", idx)>>
          /\ asked = [settled EXCEPT !.account_id = idx]

\* The invariant.
MemoryInv ==
  /\ nvm \in Memory /\ cuts \in Nat
  /\ nvm.magic = "C_MAGIC" => nvm.key_mode = "SEED"
  /\ nvm.magic = "C_MAGIC" /\ nvm.network_id # "MAINNET" => nvm.network_id \in confirmed
  /\ screen = "switch?" => pendingNetwork = picked
  /\ picked \in Networks
  /\ power # "dead"
  /\ power = "on" =>
       /\ nvm.magic = "C_MAGIC"
       /\ settled = SettingsOf(nvm) /\ asked = SettingsOf(nvm)
       /\ session = [keys |-> <<nvm.account_id>>, name |-> <<nvm.account_id>>,
                     address |-> <<nvm.network_id, nvm.account_id>>]
  /\ power \in {"on", "off"} => job = <<>>
  /\ job = <<>> => Settled
  /\ job # <<>> => Changing \/ \E net \in Networks, k \in 0..6 : Installing(net, k)

-----------------------------------------------------------------------------
(* The writes. *)

Writes == [field : {"magic", "network_id", "key_mode", "account_id"},
           value : {"zero", "C_MAGIC", "SEED"} \cup Networks \cup Nat]

LEMMA InstallWrites ==
  ASSUME NEW net \in Networks
  PROVE  /\ monero_install(net) \in Seq(Writes)
         /\ Len(monero_install(net)) = 7
<1>1. /\ Write("magic", "zero") \in Writes
      /\ Write("network_id", "MAINNET") \in Writes
      /\ Write("key_mode", "zero") \in Writes
      /\ Write("account_id", 0) \in Writes
      /\ Write("key_mode", "SEED") \in Writes
      /\ Write("network_id", net) \in Writes
      /\ Write("magic", "C_MAGIC") \in Writes
  BY DEF Write, Writes, Networks
<1> QED BY <1>1 DEF monero_install

\* One write after the other.
LEMMA RestStep ==
  ASSUME NEW net \in Networks, NEW k \in 0..6
  PROVE  /\ Rest(net, k) # <<>>
         /\ Head(Rest(net, k)) = monero_install(net)[k + 1]
         /\ k < 6 => Tail(Rest(net, k)) = Rest(net, k + 1)
         /\ k = 6 => Tail(Rest(net, k)) = <<>>
<1> DEFINE s == monero_install(net)
<1>1. s \in Seq(Writes) /\ Len(s) = 7
  BY InstallWrites
<1> HIDE DEF s
<1>2. \A j \in 0..6 :
        /\ Rest(net, j) \in Seq(Writes) /\ Len(Rest(net, j)) = 7 - j
        /\ \A i \in 1..(7 - j) : Rest(net, j)[i] = s[j + i]
  <2> TAKE j \in 0..6
  <2>1. Rest(net, j) = [i \in 1..(7 - j) |-> s[j + i]]
    BY DEF Rest, s
  <2>2. 7 - j \in Nat /\ \A i \in 1..(7 - j) : s[j + i] \in Writes
    <3>1. \A i \in 1..(7 - j) : j + i \in 1..7
      OBVIOUS
    <3>2. \A i \in 1..7 : s[i] \in Writes
      BY <1>1, ElementOfSeq
    <3> QED BY <3>1, <3>2
  <2>3. Rest(net, j) \in Seq(Writes)
    BY <2>1, <2>2
  <2>4. Len(Rest(net, j)) = 7 - j
    BY <2>1, <2>2
  <2>5. \A i \in 1..(7 - j) : Rest(net, j)[i] = s[j + i]
    BY <2>1
  <2> QED BY <2>3, <2>4, <2>5
<1>3. Rest(net, k) # <<>> /\ Head(Rest(net, k)) = s[k + 1]
  <2>1. Rest(net, k) \in Seq(Writes) /\ Len(Rest(net, k)) = 7 - k
    BY <1>2
  <2>2. 1 \in 1..(7 - k) /\ 7 - k # 0
    OBVIOUS
  <2>3. Rest(net, k)[1] = s[k + 1]
    BY <1>2, <2>2
  <2>4. Rest(net, k) # <<>>
    BY <2>1, <2>2, EmptySeq
  <2> QED BY <2>1, <2>3, <2>4, HeadTailProperties
<1>4. ASSUME k = 6 PROVE Tail(Rest(net, k)) = <<>>
  BY <1>2, <1>4
<1>5. ASSUME k < 6 PROVE Tail(Rest(net, k)) = Rest(net, k + 1)
  <2> DEFINE r == Rest(net, k)
             q == Rest(net, k + 1)
  <2>1. k + 1 \in 0..6 /\ 7 - (k + 1) = 6 - k
    BY <1>5
  <2>2. q \in Seq(Writes) /\ Len(q) = 6 - k /\ \A i \in 1..(6 - k) : q[i] = s[(k + 1) + i]
    BY <1>2, <2>1
  <2>3. r \in Seq(Writes) /\ Len(r) = 7 - k /\ \A i \in 1..(7 - k) : r[i] = s[k + i]
    BY <1>2
  <2>4. r # <<>>
    BY <1>3
  <2> HIDE DEF r, q
  <2>5. Tail(r) \in Seq(Writes) /\ Len(Tail(r)) = Len(r) - 1
    BY <2>3, <2>4
  <2>6. \A i \in 1..Len(Tail(r)) : Tail(r)[i] = r[i + 1]
    BY <2>3, <2>4
  <2>7. \A i \in 1..(6 - k) : Tail(r)[i] = q[i]
    <3> TAKE i \in 1..(6 - k)
    <3>1. i + 1 \in 1..(7 - k) /\ k + (i + 1) = (k + 1) + i
      OBVIOUS
    <3>2. r[i + 1] = s[(k + 1) + i]
      BY <2>3, <3>1
    <3> QED BY <2>2, <2>3, <2>5, <2>6, <3>2
  <2>8. Len(Tail(r)) = Len(q)
    BY <2>2, <2>3, <2>5
  <2>9. Tail(r) = q
    BY <2>2, <2>5, <2>7, <2>8, SeqEqual
  <2> QED BY <2>9 DEF r, q
<1> QED BY <1>3, <1>4, <1>5 DEF s

\* Before its first write, all of it is left.
LEMMA RestWhole ==
  ASSUME NEW net \in Networks
  PROVE  monero_install(net) = Rest(net, 0)
<1> DEFINE s == monero_install(net)
<1>1. s \in Seq(Writes) /\ Len(s) = 7
  BY InstallWrites
<1>2. Rest(net, 0) = [i \in 1..7 |-> s[i]]
  BY DEF Rest
<1> HIDE DEF s
<1>3. s = [i \in 1..7 |-> s[i]]
  BY <1>1
<1> QED BY <1>2, <1>3 DEF s

\* What a write does to memory.
LEMMA Written ==
  ASSUME nvm \in Memory, NEW f \in {"magic", "network_id", "key_mode", "account_id"},
         NEW v, nvm' = [nvm EXCEPT ![f] = v],
         f = "magic" => v \in {"zero", "C_MAGIC"}, f = "network_id" => v \in Networks,
         f = "key_mode" => v \in {"zero", "SEED"}, f = "account_id" => v \in Nat
  PROVE  /\ nvm' \in Memory
         /\ nvm'.magic      = IF f = "magic" THEN v ELSE nvm.magic
         /\ nvm'.network_id = IF f = "network_id" THEN v ELSE nvm.network_id
         /\ nvm'.key_mode   = IF f = "key_mode" THEN v ELSE nvm.key_mode
         /\ nvm'.account_id = IF f = "account_id" THEN v ELSE nvm.account_id
<1>1. CASE f = "magic"
  BY <1>1 DEF Memory
<1>2. CASE f = "network_id"
  BY <1>2 DEF Memory
<1>3. CASE f = "key_mode"
  BY <1>3 DEF Memory
<1>4. CASE f = "account_id"
  BY <1>4 DEF Memory
<1> QED BY <1>1, <1>2, <1>3, <1>4

\* The writes of an installation, by their numbers.
LEMMA InstallAt ==
  ASSUME NEW net
  PROVE  /\ monero_install(net)[1] = Write("magic", "zero")
         /\ monero_install(net)[2] = Write("network_id", "MAINNET")
         /\ monero_install(net)[3] = Write("key_mode", "zero")
         /\ monero_install(net)[4] = Write("account_id", 0)
         /\ monero_install(net)[5] = Write("key_mode", "SEED")
         /\ monero_install(net)[6] = Write("network_id", net)
         /\ monero_install(net)[7] = Write("magic", "C_MAGIC")
BY DEF monero_install

\* One more write of an installation.
LEMMA InstallStep ==
  ASSUME MemoryInv, NEW net \in Networks, NEW k \in 0..6, Installing(net, k), Step
  PROVE  MemoryInv'
<1> DEFINE w == monero_install(net)[k + 1]
<1>1. UNCHANGED <<power, session, pendingNetwork, screen, cuts, settled, asked, picked,
                  confirmed>>
      /\ power = "busy" /\ job # <<>>
  BY DEF Step
<1>2. nvm' = [nvm EXCEPT ![w.field] = w.value]
  BY RestStep DEF Step, Installing
<1>3. /\ k < 6 => job' = Rest(net, k + 1) /\ job' # <<>>
      /\ k = 6 => job' = <<>>
  <2>1. job' = Tail(Rest(net, k))
    BY DEF Step, Installing
  <2>2. CASE k < 6
    <3>1. k + 1 \in 0..6
      BY <2>2
    <3> QED BY <2>1, <2>2, <3>1, RestStep
  <2> QED BY <2>1, <2>2, RestStep
<1>4. /\ k = 0 => w = Write("magic", "zero")
      /\ k = 1 => w = Write("network_id", "MAINNET")
      /\ k = 2 => w = Write("key_mode", "zero")
      /\ k = 3 => w = Write("account_id", 0)
      /\ k = 4 => w = Write("key_mode", "SEED")
      /\ k = 5 => w = Write("network_id", net)
      /\ k = 6 => w = Write("magic", "C_MAGIC")
  BY InstallAt
<1> HIDE DEF w
<1>5. /\ nvm' \in Memory
      /\ nvm'.magic = CASE k = 0 -> "zero" [] k = 6 -> "C_MAGIC" [] OTHER -> nvm.magic
      /\ nvm'.network_id = CASE k = 1 -> "MAINNET" [] k = 5 -> net [] OTHER -> nvm.network_id
      /\ nvm'.key_mode = CASE k = 2 -> "zero" [] k = 4 -> "SEED" [] OTHER -> nvm.key_mode
      /\ nvm'.account_id = IF k = 3 THEN 0 ELSE nvm.account_id
  <2> DEFINE f == w.field
             v == w.value
  <2>1. /\ k = 0 => f = "magic" /\ v = "zero"
        /\ k = 1 => f = "network_id" /\ v = "MAINNET"
        /\ k = 2 => f = "key_mode" /\ v = "zero"
        /\ k = 3 => f = "account_id" /\ v = 0
        /\ k = 4 => f = "key_mode" /\ v = "SEED"
        /\ k = 5 => f = "network_id" /\ v = net
        /\ k = 6 => f = "magic" /\ v = "C_MAGIC"
    BY <1>4 DEF Write
  <2>2. nvm' = [nvm EXCEPT ![f] = v]
    BY <1>2
  <2> HIDE DEF f, v
  <2>3. k \in {0, 1, 2, 3, 4, 5, 6}
    OBVIOUS
  <2>4. /\ f \in {"magic", "network_id", "key_mode", "account_id"}
        /\ f = "magic" => v \in {"zero", "C_MAGIC"}
        /\ f = "network_id" => v \in Networks
        /\ f = "key_mode" => v \in {"zero", "SEED"}
        /\ f = "account_id" => v \in Nat
    BY <2>1, <2>3 DEF Networks
  <2>5. nvm \in Memory
    BY DEF MemoryInv
  <2>6. /\ nvm' \in Memory
        /\ nvm'.magic      = IF f = "magic" THEN v ELSE nvm.magic
        /\ nvm'.network_id = IF f = "network_id" THEN v ELSE nvm.network_id
        /\ nvm'.key_mode   = IF f = "key_mode" THEN v ELSE nvm.key_mode
        /\ nvm'.account_id = IF f = "account_id" THEN v ELSE nvm.account_id
    BY <2>2, <2>4, <2>5, Written
  <2> QED BY <2>1, <2>3, <2>6
<1>6. CASE k < 6
  <2>1. k + 1 \in 1..6 /\ nvm'.magic = "zero"
    BY <1>5, <1>6 DEF Installing
  <2>2. Installing(net, k + 1)'
    <3>1. /\ k + 1 \in 2..5 => nvm'.network_id = "MAINNET"
          /\ k + 1 = 6      => nvm'.network_id = net
          /\ k + 1 \in 4..6 => nvm'.account_id = 0
          /\ k + 1 \in 5..6 => nvm'.key_mode = "SEED"
      BY <1>5, <1>6 DEF Installing
    <3> QED BY <1>1, <1>3, <1>6, <2>1, <3>1 DEF Installing
  <2>3. job' # <<>> /\ k + 1 \in 0..6
    BY <1>3, <1>6
  <2> QED BY <1>1, <1>5, <2>1, <2>2, <2>3 DEF MemoryInv
<1>7. CASE k = 6
  <2>1. /\ nvm'.magic = "C_MAGIC" /\ nvm'.network_id = net /\ nvm'.account_id = 0
        /\ nvm'.key_mode = "SEED" /\ job' = <<>>
    BY <1>3, <1>5, <1>7 DEF Installing
  <2>2. SettingsOf(nvm)' = [JustInstalled EXCEPT !.network_id = net]
    BY <2>1 DEF SettingsOf, JustInstalled
  <2>3. net = "MAINNET" => [JustInstalled EXCEPT !.network_id = net] = JustInstalled
    BY DEF JustInstalled
  <2>4. Settled'
    BY <1>1, <2>1, <2>2, <2>3 DEF Settled, Installing
  <2> QED BY <1>1, <1>5, <2>1, <2>4 DEF MemoryInv, Installing
<1> QED BY <1>6, <1>7

\* The one write of another change.
LEMMA ChangeStep ==
  ASSUME MemoryInv, Changing, Step
  PROVE  MemoryInv'
<1>1. UNCHANGED <<power, session, pendingNetwork, screen, cuts, settled, asked, picked,
                  confirmed>>
      /\ power = "busy" /\ nvm \in Memory
  BY DEF Step, MemoryInv
<1>2. CASE job = <<ResetWrite>> /\ asked = JustInstalled
  <2>1. job' = <<>> /\ nvm' = [nvm EXCEPT !["magic"] = "zero"]
    <3>1. Head(job) = Write("magic", "zero") /\ Tail(job) = <<>>
      BY <1>2 DEF ResetWrite
    <3>2. Head(job).field = "magic" /\ Head(job).value = "zero"
      BY <3>1 DEF Write
    <3> QED BY <3>1, <3>2 DEF Step
  <2>2. nvm' \in Memory /\ nvm'.magic = "zero"
    BY <1>1, <2>1, Written
  <2>3. Settled'
    BY <1>1, <1>2, <2>2 DEF Settled
  <2> QED BY <1>1, <2>1, <2>2, <2>3 DEF MemoryInv
<1>3. ASSUME NEW idx \in Accounts,
             job = <<Write("account_id", idx)>>, asked = [settled EXCEPT !.account_id = idx]
      PROVE  MemoryInv'
  <2>0. idx \in Nat
    BY SettingsConstantsOK
  <2>1. job' = <<>> /\ nvm' = [nvm EXCEPT !["account_id"] = idx]
    <3>1. Head(job) = Write("account_id", idx) /\ Tail(job) = <<>>
      BY <1>3
    <3>2. Head(job).field = "account_id" /\ Head(job).value = idx
      BY <3>1 DEF Write
    <3> QED BY <3>1, <3>2 DEF Step
  <2>2. /\ nvm' \in Memory /\ nvm'.account_id = idx
        /\ nvm'.magic = nvm.magic /\ nvm'.network_id = nvm.network_id
        /\ nvm'.key_mode = nvm.key_mode
    BY <1>1, <2>0, <2>1, Written
  <2>3. asked' = SettingsOf(nvm)'
    BY <1>1, <1>3, <2>2 DEF Changing, SettingsOf
  <2>4. Settled'
    BY <1>1, <2>2, <2>3 DEF Settled, Changing
  <2> QED BY <1>1, <2>1, <2>2, <2>4 DEF MemoryInv
<1> QED BY <1>2, <1>3 DEF Changing

\* monero_init and the power.
LEMMA PowerStep ==
  ASSUME MemoryInv, PowerOn \/ NotInstalled \/ Load \/ Quit \/ PowerCut
  PROVE  MemoryInv'
<1>1. CASE PowerOn
  <2>1. power = "off"
    BY <1>1 DEF PowerOn, MemoryInv
  <2> QED BY <1>1, <2>1 DEF PowerOn, MemoryInv, Settled
<1>2. CASE NotInstalled
  <2>1. /\ job' = monero_install("MAINNET") /\ job = <<>> /\ nvm.magic # "C_MAGIC"
        /\ UNCHANGED <<power, nvm, pendingNetwork, screen, cuts, settled, asked, picked,
                       confirmed>>
        /\ power = "busy"
    BY <1>2 DEF NotInstalled
  <2>2. job' = Rest("MAINNET", 0) /\ job' # <<>> /\ "MAINNET" \in Networks
    BY <2>1, RestWhole, RestStep DEF Networks
  <2>3. [JustInstalled EXCEPT !.network_id = "MAINNET"] = JustInstalled
    BY DEF JustInstalled
  <2>4. Installing("MAINNET", 0)'
    BY <2>1, <2>2, <2>3 DEF Installing, MemoryInv, Settled
  <2> QED BY <2>1, <2>2, <2>4 DEF MemoryInv
<1>3. CASE Load
  <2>1. nvm.key_mode = "SEED" /\ nvm.magic = "C_MAGIC" /\ job = <<>>
    BY <1>3 DEF Load, MemoryInv
  <2>2. /\ power' = "on" /\ UNCHANGED <<nvm, job, pendingNetwork, screen, cuts, picked>>
        /\ session' = [keys |-> <<nvm.account_id>>, name |-> <<nvm.account_id>>,
                       address |-> <<nvm.network_id, nvm.account_id>>]
        /\ settled' = SettingsOf(nvm) /\ asked' = SettingsOf(nvm)
        /\ confirmed' = confirmed \cap {nvm.network_id}
    BY <1>3, <2>1 DEF Load
  <2>3. Settled'
    BY <2>1, <2>2 DEF Settled, SettingsOf
  <2> QED BY <2>1, <2>2, <2>3 DEF MemoryInv, SettingsOf
<1>4. CASE Quit
  BY <1>4 DEF Quit, MemoryInv, Settled
<1>5. CASE PowerCut
  <2>1. /\ power' = "off" /\ job' = <<>> /\ cuts' = cuts + 1
        /\ UNCHANGED <<nvm, pendingNetwork, screen, settled, asked, picked, confirmed>>
    BY <1>5 DEF PowerCut
  <2>2. cuts' \in Nat /\ cuts' > 0
    BY <2>1 DEF MemoryInv
  <2>3. nvm.magic = "C_MAGIC" =>
          asked = SettingsOf(nvm) \/ SettingsOf(nvm) \in {settled, JustInstalled}
    BY DEF MemoryInv, Settled, Changing, Installing
  <2>4. Settled'
    BY <2>1, <2>2, <2>3 DEF Settled, SettingsOf
  <2> QED BY <2>1, <2>2, <2>4 DEF MemoryInv
<1> QED BY <1>1, <1>2, <1>3, <1>4, <1>5

\* A network that is set, from a device that is on.
LEMMA SetNetStep ==
  ASSUME MemoryInv, NEW net \in Networks, power = "on", SetNet(net),
         net # "MAINNET" => net \in confirmed', confirmed \subseteq confirmed',
         UNCHANGED picked
  PROVE  MemoryInv'
<1>1. /\ power' = "busy" /\ job' = monero_install(net) /\ screen' = "menu"
      /\ asked' = [JustInstalled EXCEPT !.network_id = net]
      /\ UNCHANGED <<nvm, session, cuts, settled>>
  BY DEF SetNet, Change
<1>2. job' = Rest(net, 0) /\ job' # <<>>
  BY <1>1, RestWhole, RestStep
<1>3. Installing(net, 0)'
  BY <1>1, <1>2 DEF Installing, MemoryInv
<1> QED BY <1>1, <1>2, <1>3 DEF MemoryInv

\* What the user and the host do with a device that is on.
LEMMA UserStep ==
  ASSUME MemoryInv,
         \/ \E idx \in Accounts : SelectAccount(idx)
         \/ \E k \in DOMAIN MenuNetworks : SelectNetwork(k)
         \/ \E switch \in BOOLEAN : ConfirmNetwork(switch)
         \/ AskReset \/ Reset \/ monero_apdu_reset \/ OtherScreen
  PROVE  MemoryInv'
<1>1. ASSUME NEW idx \in Accounts, SelectAccount(idx)
      PROVE  MemoryInv'
  <2>1. /\ power = "on" /\ power' = "busy" /\ job' = <<Write("account_id", idx)>>
        /\ asked' = [SettingsOf(nvm) EXCEPT !.account_id = idx] /\ screen' = "menu"
        /\ UNCHANGED <<nvm, session, cuts, settled, pendingNetwork, picked, confirmed>>
    BY <1>1 DEF SelectAccount, Change
  <2>2. Changing' /\ job' # <<>>
    BY <2>1 DEF Changing, MemoryInv, SettingsOf
  <2> QED BY <2>1, <2>2 DEF MemoryInv
<1>2. ASSUME NEW k \in DOMAIN MenuNetworks, SelectNetwork(k)
      PROVE  MemoryInv'
  <2>1. MenuNames[k] = MenuNetworks[k] /\ MenuNetworks[k] \in Networks
    BY DEF MenuNames, MenuNetworks, Networks
  <2>2. power = "on" /\ picked' = MenuNetworks[k]
    BY <1>2, <2>1 DEF SelectNetwork
  <2>3. CASE MenuNetworks[k] = "MAINNET"
    <3>1. /\ power' = "busy" /\ job' = monero_install("MAINNET") /\ screen' = "menu"
          /\ asked' = [JustInstalled EXCEPT !.network_id = "MAINNET"]
          /\ UNCHANGED <<nvm, session, cuts, settled, confirmed>>
      BY <1>2, <2>3 DEF SelectNetwork, SetNet, Change
    <3>2. job' = Rest("MAINNET", 0) /\ job' # <<>>
      BY <2>1, <2>3, <3>1, RestWhole, RestStep
    <3>3. Installing("MAINNET", 0)'
      BY <2>2, <3>1, <3>2 DEF Installing, MemoryInv
    <3> QED BY <2>1, <2>2, <2>3, <3>1, <3>2, <3>3 DEF MemoryInv
  <2>4. CASE MenuNetworks[k] # "MAINNET"
    <3>1. /\ pendingNetwork' = MenuNetworks[k]
          /\ UNCHANGED <<power, nvm, job, session, cuts, settled, asked, confirmed>>
      BY <1>2, <2>4 DEF SelectNetwork
    <3> QED BY <2>1, <2>2, <3>1 DEF MemoryInv, Settled
  <2> QED BY <2>3, <2>4
<1>3. ASSUME NEW switch \in BOOLEAN, ConfirmNetwork(switch)
      PROVE  MemoryInv'
  <2>1. CASE switch
    <3>1. /\ SetNet(picked) /\ confirmed' = confirmed \cup {picked} /\ power = "on"
          /\ UNCHANGED picked
      BY <1>3, <2>1 DEF ConfirmNetwork, MemoryInv
    <3>2. picked \in Networks
      BY DEF MemoryInv
    <3> QED BY <3>1, <3>2, SetNetStep
  <2>2. CASE ~switch
    BY <1>3, <2>2 DEF ConfirmNetwork, MemoryInv, Settled
  <2> QED BY <2>1, <2>2
<1>4. CASE AskReset
  BY <1>4 DEF AskReset, MemoryInv, Settled
<1>5. CASE Reset
  <2>1. /\ power = "on" /\ power' = "busy" /\ job' = <<ResetWrite>>
        /\ asked' = JustInstalled /\ screen' = "menu"
        /\ UNCHANGED <<nvm, session, cuts, settled, pendingNetwork, picked, confirmed>>
    BY <1>5 DEF Reset, Change
  <2>2. Changing' /\ job' # <<>>
    BY <2>1 DEF Changing, MemoryInv, SettingsOf
  <2> QED BY <2>1, <2>2 DEF MemoryInv
<1>6. CASE monero_apdu_reset
  BY <1>6 DEF monero_apdu_reset, MemoryInv, Settled
<1>7. CASE OtherScreen
  <2>1. screen' # "switch?"
    BY <1>7 DEF OtherScreen
  <2> QED BY <1>7, <2>1 DEF OtherScreen, MemoryInv, Settled
<1> QED BY <1>1, <1>2, <1>3, <1>4, <1>5, <1>6, <1>7

-----------------------------------------------------------------------------
(* The theorems. *)

\* The invariant holds from the first start on.
THEOREM MemoryIsSound == Spec => []MemoryInv
<1>1. Init => MemoryInv
  BY DEF Init, MemoryInv, Memory, Networks, Settled, JustInstalled
<1>2. MemoryInv /\ [Next]_vars => MemoryInv'
  <2> SUFFICES ASSUME MemoryInv, [Next]_vars
               PROVE  MemoryInv'
    OBVIOUS
  <2>1. CASE Step
    <3>1. Changing \/ \E net \in Networks, k \in 0..6 : Installing(net, k)
      BY <2>1 DEF Step, MemoryInv
    <3> QED BY <2>1, <3>1, InstallStep, ChangeStep
  <2>2. CASE UNCHANGED vars
    BY <2>2 DEF vars, MemoryInv, Settled, Changing, Installing
  <2> QED BY <2>1, <2>2, PowerStep, UserStep DEF Next
<1> QED BY <1>1, <1>2, PTL DEF Spec

\* monero_init.c:60-157: whatever write the power failed after, there is a next
\* start, as what the magic vouches for is in place before it is.
THEOREM SettingsAlwaysLoad == Spec => []AlwaysLoads
<1>1. MemoryInv => AlwaysLoads
  BY DEF MemoryInv, AlwaysLoads
<1> QED BY <1>1, MemoryIsSound, PTL

\* monero_init.c:60-157: keys, name and address are those of the memory.
THEOREM SessionFollowsSettings == Spec => []SessionIsOfSettings
<1>1. MemoryInv => SessionIsOfSettings
  BY DEF MemoryInv, SessionIsOfSettings
<1> QED BY <1>1, MemoryIsSound, PTL

\* monero_ux_nano.c:447-500: no way to a test network but the user's own choice.
THEOREM TestNetworkIsConfirmed == Spec => []TestNetworkConfirmed
<1>1. MemoryInv => TestNetworkConfirmed
  BY DEF MemoryInv, TestNetworkConfirmed
<1> QED BY <1>1, MemoryIsSound, PTL

\* monero_init.c:191-215: a change that a cut interrupts, at whatever write and
\* however often, leaves no mixture of two settings.
THEOREM ChangesAreWhole == Spec => NothingHalfChanged
<1>1. MemoryInv /\ [Next]_vars =>
        [power # "on" /\ power' = "on" =>
           \/ asked = SettingsOf(nvm')
           \/ cuts > 0 /\ SettingsOf(nvm') \in {settled, JustInstalled}]_vars
  <2> SUFFICES ASSUME MemoryInv, Next, power # "on", power' = "on"
               PROVE  \/ asked = SettingsOf(nvm')
                      \/ cuts > 0 /\ SettingsOf(nvm') \in {settled, JustInstalled}
    OBVIOUS
  <2>1. Load
    BY DEF Next, Step, PowerOn, NotInstalled, Quit, PowerCut, SelectAccount, Change,
           SelectNetwork, SetNet, ConfirmNetwork, AskReset, Reset, monero_apdu_reset,
           OtherScreen
  <2>2. job = <<>> /\ nvm.magic = "C_MAGIC" /\ nvm' = nvm
    BY <2>1 DEF Load
  <2> QED BY <2>2 DEF MemoryInv, Settled
<1> QED BY <1>1, MemoryIsSound, PTL DEF Spec, NothingHalfChanged
=============================================================================
