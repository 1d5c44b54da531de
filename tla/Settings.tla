------------------------------- MODULE Settings -------------------------------
(***************************************************************************)
(* The settings in persistent memory (monero_init.c), the menus that       *)
(* change them (monero_ux_nano.c, monero_ux_nbgl_menu.c), and power that   *)
(* may fail between any two writes.                                        *)
(*                                                                         *)
(* Release build: PUT_KEY is refused, so key_mode is SEED once installed.  *)
(* nvm_write erases a block in the order of its addresses; what it leaves  *)
(* of a field it was erasing is not the old value.                         *)
(***************************************************************************)
EXTENDS Naturals, Sequences

CONSTANTS
  Accounts,   \* accounts the menu offers, 0 the one of a fresh installation
  MaxCuts     \* bound on the power cuts in the middle of a change

ASSUME SettingsConstantsOK == 0 \in Accounts /\ Accounts \subseteq Nat /\ MaxCuts \in Nat

VARIABLES
  power,          \* "off", "busy" in monero_init and its callers, "on", "dead"
  nvm,            \* N_monero_pstate
  job,            \* writes to nvm left before monero_init goes on
  session,        \* what monero_init keeps in G_monero_vstate, or None
  pendingNetwork,
  screen,         \* "menu", "switch?", "reset?" or "other"
  cuts,           \* power cuts so far
  settled,        \* history: the settings the device was last on with
  asked,          \* history: the settings the last change is to lead to
  picked,         \* history: the network whose name the user picked last
  confirmed       \* history: the test networks switched to since last on, and
                  \* the one the device was last on with

vars == <<power, nvm, job, session, pendingNetwork, screen, cuts, settled, asked,
          picked, confirmed>>

None == [keys |-> <<>>, name |-> <<>>, address |-> <<>>]

\* Mutant: the order of the enumeration.
MenuNetworks_byId == <<"MAINNET", "TESTNET", "STAGENET">>

\* network_submenu_selector and network_settings_control_cb: the order of the
\* menu, which is not that of enum network_type.
MenuNetworks == <<"MAINNET", "STAGENET", "TESTNET">>

\* What network_submenu_getter_values and networkNames show for the entries.
MenuNames == <<"MAINNET", "STAGENET", "TESTNET">>

SettingsOf(memory) ==
  [network_id |-> memory.network_id, account_id |-> memory.account_id]
JustInstalled == [network_id |-> "MAINNET", account_id |-> 0]

-----------------------------------------------------------------------------
(* Persistent memory. *)

Write(field, value) == [field |-> field, value |-> value]

\* Mutant: the magic comes before what it vouches for.
MagicFirst(net) ==
  << Write("magic", "zero"), Write("network_id", "MAINNET"), Write("key_mode", "zero"),
     Write("account_id", 0), Write("magic", "C_MAGIC"), Write("key_mode", "SEED"),
     Write("network_id", net) >>

\* monero_install: everything erased, in the order of monero_nv_state_s, then
\* the key mode, the network and, last, the magic.
monero_install(net) ==
  << Write("magic", "zero"), Write("network_id", "MAINNET"), Write("key_mode", "zero"),
     Write("account_id", 0),
     Write("key_mode", "SEED"), Write("network_id", net), Write("magic", "C_MAGIC") >>

Step ==
  /\ power = "busy" /\ job # <<>>
  /\ nvm' = [nvm EXCEPT ![Head(job).field] = Head(job).value]
  /\ job' = Tail(job)
  /\ UNCHANGED <<power, session, pendingNetwork, screen, cuts, settled, asked, picked,
                 confirmed>>

-----------------------------------------------------------------------------
(* Initialisation. *)

Init ==
  /\ power = "off" /\ job = <<>> /\ session = None
  /\ nvm = [magic |-> "zero", network_id |-> "MAINNET", key_mode |-> "zero",
            account_id |-> 0]
  /\ pendingNetwork = "MAINNET" /\ screen = "menu" /\ cuts = 0
  /\ settled = JustInstalled /\ asked = JustInstalled
  /\ picked = "MAINNET" /\ confirmed = {}

\* Power comes back, or an application that gave up is started again.
PowerOn ==
  /\ power \in {"off", "dead"} /\ power' = "busy"
  /\ pendingNetwork' = "MAINNET" /\ screen' = "menu"
  /\ UNCHANGED <<nvm, job, session, cuts, settled, asked, picked, confirmed>>

\* monero_init, once the writes of its caller are made.
NotInstalled ==
  /\ power = "busy" /\ job = <<>> /\ nvm.magic # "C_MAGIC"
  /\ job' = monero_install("MAINNET")
  /\ session' = None
  /\ UNCHANGED <<power, nvm, pendingNetwork, screen, cuts, settled, asked, picked,
                 confirmed>>

\* monero_init_private_key and monero_init_ux.
Load ==
  /\ power = "busy" /\ job = <<>> /\ nvm.magic = "C_MAGIC"
  /\ IF nvm.key_mode = "SEED"
     THEN /\ power' = "on"
          /\ session' = [keys |-> <<nvm.account_id>>, name |-> <<nvm.account_id>>,
                         address |-> <<nvm.network_id, nvm.account_id>>]
          /\ settled' = SettingsOf(nvm) /\ asked' = SettingsOf(nvm)
          /\ confirmed' = confirmed \cap {nvm.network_id}
     ELSE power' = "dead" /\ session' = None /\ UNCHANGED <<settled, asked, confirmed>>
  /\ UNCHANGED <<nvm, job, pendingNetwork, screen, cuts, picked>>

Quit ==
  /\ power = "on" /\ power' = "off" /\ session' = None
  /\ UNCHANGED <<nvm, job, pendingNetwork, screen, cuts, settled, asked, picked,
                 confirmed>>

PowerCut ==
  /\ power = "busy" /\ cuts < MaxCuts
  /\ power' = "off" /\ cuts' = cuts + 1 /\ session' = None /\ job' = <<>>
  /\ UNCHANGED <<nvm, pendingNetwork, screen, settled, asked, picked, confirmed>>

-----------------------------------------------------------------------------
(* The user and the host. *)

\* A callback that writes, runs monero_init and draws a menu.
Change(writes, wanted) ==
  /\ power' = "busy" /\ job' = writes /\ asked' = wanted
  /\ screen' = "menu"
  /\ UNCHANGED <<nvm, session, cuts, settled>>

\* Mutant: the session is not set up again.
AccountWithoutInit(idx) ==
  /\ power = "on" /\ screen = "menu"
  /\ nvm' = [nvm EXCEPT !.account_id = idx]
  /\ UNCHANGED <<power, job, session, pendingNetwork, screen, cuts, settled, asked,
                 picked, confirmed>>

\* account_submenu_selector and account_settings_control_cb.
SelectAccount(idx) ==
  /\ power = "on" /\ screen = "menu"
  /\ Change(<<Write("account_id", idx)>>, [SettingsOf(nvm) EXCEPT !.account_id = idx])
  /\ UNCHANGED <<pendingNetwork, picked, confirmed>>

\* network_set_net and apply_network.
SetNet(net) == Change(monero_install(net), [JustInstalled EXCEPT !.network_id = net])

\* network_submenu_selector and network_settings_control_cb: the main network at
\* once, a test network after a question.
SelectNetwork(k) ==
  /\ power = "on" /\ screen = "menu"
  /\ picked' = MenuNames[k]
  /\ IF MenuNetworks[k] = "MAINNET"
     THEN SetNet("MAINNET") /\ UNCHANGED <<pendingNetwork, confirmed>>
     ELSE /\ pendingNetwork' = MenuNetworks[k] /\ screen' = "switch?"
          /\ UNCHANGED <<power, nvm, job, session, cuts, settled, asked, confirmed>>

\* network_confirm_action and network_choice.
ConfirmNetwork(switch) ==
  /\ power = "on" /\ screen = "switch?"
  /\ IF switch
     THEN SetNet(pendingNetwork) /\ confirmed' = confirmed \cup {picked}
     ELSE /\ screen' = "menu"
          /\ UNCHANGED <<power, nvm, job, session, cuts, settled, asked, confirmed>>
  /\ UNCHANGED <<pendingNetwork, picked>>

AskReset ==
  /\ power = "on" /\ screen = "menu" /\ screen' = "reset?"
  /\ UNCHANGED <<power, nvm, job, session, pendingNetwork, cuts, settled, asked, picked,
                 confirmed>>

\* Mutant: the reset keeps the installation.
ResetToMainnet == Write("network_id", "MAINNET")

\* The four bytes ui_menu_reset_action and resetCallback write over the magic.
ResetWrite == Write("magic", "zero")

Reset ==
  /\ power = "on" /\ screen = "reset?"
  /\ Change(<<ResetWrite>>, JustInstalled)
  /\ UNCHANGED <<pendingNetwork, picked, confirmed>>

\* INS_RESET from a client it supports.
monero_apdu_reset ==
  /\ power = "on" /\ power' = "busy"
  /\ UNCHANGED <<nvm, job, session, pendingNetwork, screen, cuts, settled, asked, picked,
                 confirmed>>

\* Any other screen: one the host asks for replaces a question, and the user
\* comes back from it, or from a question, to the menu.
OtherScreen ==
  /\ power = "on" /\ screen' = IF screen \in {"reset?", "other"} THEN "menu" ELSE "other"
  /\ UNCHANGED <<power, nvm, job, session, pendingNetwork, cuts, settled, asked, picked,
                 confirmed>>

Next ==
  \/ Step \/ PowerOn \/ NotInstalled \/ Load \/ Quit \/ PowerCut
  \/ \E idx \in Accounts : SelectAccount(idx)
  \/ \E k \in DOMAIN MenuNetworks : SelectNetwork(k)
  \/ \E switch \in BOOLEAN : ConfirmNetwork(switch)
  \/ AskReset \/ Reset \/ monero_apdu_reset \/ OtherScreen

\* The processor goes on, and the user switches a device that went off on again.
Fairness == WF_vars(Step \/ NotInstalled \/ Load) /\ WF_vars(PowerOn)

Spec == Init /\ [][Next]_vars /\ Fairness

-----------------------------------------------------------------------------
(* Properties. *)

\* The keys, the name and the address the device works with and shows are those
\* of the settings in memory, after every change, cut and restart.
SessionIsOfSettings ==
  power = "on" =>
    session = [keys |-> <<nvm.account_id>>, name |-> <<nvm.account_id>>,
               address |-> <<nvm.network_id, nvm.account_id>>]

\* Whatever write the power failed after, the next start finds memory that is
\* not installed, or keys it can load: monero_init never gives up.
AlwaysLoads == power # "dead"

\* A test network is in use only if the user picked that one and confirmed it.
TestNetworkConfirmed ==
  power = "on" /\ nvm.network_id # "MAINNET" => nvm.network_id \in confirmed

\* doc/user/bolos-app-monero.rst, Reset: "erase all Monero Application data and
\* reset the application in its 'just installed' state"; likewise a change of
\* network.  A change that is cut short leaves the settings of before, the ones
\* asked for, or those of a new installation, and no mixture.
NothingHalfChanged ==
  [][power # "on" /\ power' = "on" =>
       \/ asked = SettingsOf(nvm')
       \/ cuts > 0 /\ SettingsOf(nvm') \in {settled, JustInstalled}]_vars

\* A device whose power stays on long enough works again.
WorksAgain == power = "busy" ~> power = "on"
=============================================================================
