-------------------------- MODULE VanLpConfigBanks --------------------------
(***************************************************************************)
(* Publication of the ACK and reply configuration from the HP tasks to the *)
(* LP core: two banks in shared RAM, a published and an applied generation *)
(* counter, a critical section among the HP tasks, no lock on the LP side. *)
(*                                                                         *)
(* A bank is copied word by word while the LP core runs.  A word of a bank *)
(* holds the whole configuration it was copied from, so that a bank is     *)
(* torn exactly when two of its words differ.                              *)
(***************************************************************************)
EXTENDS Integers, VanApiLock

CONSTANTS
  ConfigSlots,         (* ACK and reply slots                              *)
  Settings,            (* what a slot can be set to                        *)
  InitialConfig,       (* the configuration Start writes to bank 0         *)
  NoConfig,            (* a word of a bank that was never written          *)
  WordCount,           (* sizeof(VanLpConfig) / 4, 152 in the code         *)
  GenerationModulus    (* generations are uint32_t: 2^32 in the code       *)

Configs == [ConfigSlots -> Settings]

ASSUME ConfigAssumption ==
  /\ InitialConfig \in Configs
  /\ NoConfig \notin Configs
  /\ WordCount \in Nat \ {0}
  /\ GenerationModulus \in Nat \ {0}
  /\ GenerationModulus % 2 = 0

VARIABLES
  banks,           (* VAN_CONFIG                                           *)
  published,       (* VAN_CONFIG_PUBLISHED                                 *)
  applied,         (* VAN_CONFIG_APPLIED                                   *)
  configuration,   (* _configuration, the HP tasks' private copy           *)
  copied,          (* how many words PublishConfiguration has copied       *)
  pc,              (* where each task is in its Set... call                *)
  request,         (* its arguments                                        *)
  cfgPc,           (* where the LP core is in monitor_once                 *)
  lpPublished,     (* its local "published"                                *)
  lpBank,          (* the bank monitor.config points to                    *)
  cfgSeen          (* the configurations this transaction has read from    *)

setterVars == <<configuration, lock, copied, pc, request>>
cfgVars == <<cfgPc, lpPublished, lpBank, cfgSeen>>
banksVars == <<banks, published, applied, setterVars, cfgVars>>

Generations == 0 .. GenerationModulus - 1
Words == 1 .. WordCount

NextGeneration(g) == IF g + 1 = GenerationModulus THEN 0 ELSE g + 1

IsConfigurationReady == published = applied
(* As if PublishConfiguration wrote the bank in use.                       *)
TargetBank_InUse == published % 2

TargetBank == NextGeneration(published) % 2

-----------------------------------------------------------------------------
(* HP tasks: SetAckIdentifier, SetAckIdentifiers, SetRequestedReplyFrame   *)
(* and SetQueryRequesterAckEnabled differ in the slots they change only.   *)

Call(t, s, v) ==
  /\ pc[t] = "idle"
  /\ pc' = [pc EXCEPT ![t] = "wait"]
  /\ request' = [request EXCEPT ![t] = [slot |-> s, setting |-> v]]
  /\ UNCHANGED <<banks, published, applied, configuration, lock, copied, cfgVars>>

(* WaitForConfiguration polls without the lock, for at most 50 ms.         *)
WaitReady(t) ==
  /\ pc[t] = "wait"
  /\ IsConfigurationReady
  /\ pc' = [pc EXCEPT ![t] = "enter"]
  /\ UNCHANGED <<banks, published, applied, configuration, lock, copied, request, cfgVars>>

(* As if WaitForConfiguration had no time limit.                           *)
WaitTimeout_Never(t) == pc[t] = "wait" /\ FALSE /\ UNCHANGED banksVars

WaitTimeout(t) ==
  /\ pc[t] = "wait"
  /\ ~IsConfigurationReady
  /\ pc' = [pc EXCEPT ![t] = "idle"]
  /\ UNCHANGED <<banks, published, applied, configuration, lock, copied, request, cfgVars>>

(* Another task may have published since the poll: the call is refused.    *)
EnterRefused(t) ==
  /\ pc[t] = "enter"
  /\ lock = NoTask
  /\ ~IsConfigurationReady
  /\ pc' = [pc EXCEPT ![t] = "idle"]
  /\ UNCHANGED <<banks, published, applied, configuration, lock, copied, request, cfgVars>>

(* As if readiness were not checked again inside the critical section.     *)
EnterAccepted_Unchecked(t) ==
  /\ pc[t] = "enter"
  /\ lock = NoTask
  /\ lock' = t
  /\ configuration' = [configuration EXCEPT ![request[t].slot] = request[t].setting]
  /\ copied' = 0
  /\ pc' = [pc EXCEPT ![t] = "copy"]
  /\ UNCHANGED <<banks, published, applied, request, cfgVars>>

EnterAccepted(t) ==
  /\ pc[t] = "enter"
  /\ lock = NoTask
  /\ IsConfigurationReady
  /\ lock' = t
  /\ configuration' = [configuration EXCEPT ![request[t].slot] = request[t].setting]
  /\ copied' = 0
  /\ pc' = [pc EXCEPT ![t] = "copy"]
  /\ UNCHANGED <<banks, published, applied, request, cfgVars>>

CopyWord(t) ==
  /\ pc[t] = "copy"
  /\ copied < WordCount
  /\ banks' = [banks EXCEPT ![TargetBank][copied + 1] = configuration]
  /\ copied' = copied + 1
  /\ UNCHANGED <<published, applied, configuration, lock, pc, request, cfgVars>>

(* As if the generation could be published before the copy is complete.    *)
Publish_Early(t) ==
  /\ pc[t] = "copy"
  /\ published' = NextGeneration(published)
  /\ lock' = NoTask
  /\ pc' = [pc EXCEPT ![t] = "idle"]
  /\ UNCHANGED <<banks, applied, configuration, copied, request, cfgVars>>

Publish(t) ==
  /\ pc[t] = "copy"
  /\ copied = WordCount
  /\ published' = NextGeneration(published)
  /\ lock' = NoTask
  /\ pc' = [pc EXCEPT ![t] = "idle"]
  /\ UNCHANGED <<banks, applied, configuration, copied, request, cfgVars>>

TaskStep(t) ==
  \/ WaitReady(t)
  \/ WaitTimeout(t)
  \/ EnterRefused(t)
  \/ EnterAccepted(t)
  \/ CopyWord(t)
  \/ Publish(t)

-----------------------------------------------------------------------------
(* LP core: main and monitor_once.                                         *)

(* main runs at its own pace after VAN_START_APP: HP tasks may already     *)
(* have published generation 1.                                            *)
LpBoot ==
  /\ cfgPc = "boot"
  /\ lpBank' = 0
  /\ cfgPc' = "idle"
  /\ UNCHANGED <<banks, published, applied, setterVars, lpPublished, cfgSeen>>

(* As if generations were ordered although they wrap.                      *)
LpLoadPublished_Ordered ==
  /\ cfgPc = "idle"
  /\ lpPublished' = published
  /\ cfgPc' = IF published > applied THEN "adopt" ELSE "monitor"
  /\ UNCHANGED <<banks, published, applied, setterVars, lpBank, cfgSeen>>

LpLoadPublished ==
  /\ cfgPc = "idle"
  /\ lpPublished' = published
  /\ cfgPc' = IF published # applied THEN "adopt" ELSE "monitor"
  /\ UNCHANGED <<banks, published, applied, setterVars, lpBank, cfgSeen>>

LpAdopt ==
  /\ cfgPc = "adopt"
  /\ lpBank' = lpPublished % 2
  /\ cfgPc' = "acknowledge"
  /\ UNCHANGED <<banks, published, applied, setterVars, lpPublished, cfgSeen>>

LpAcknowledge ==
  /\ cfgPc = "acknowledge"
  /\ applied' = lpPublished
  /\ cfgPc' = "monitor"
  /\ UNCHANGED <<banks, published, setterVars, lpPublished, lpBank, cfgSeen>>

LpQuietBus ==
  /\ cfgPc = "monitor"
  /\ cfgPc' = "idle"
  /\ UNCHANGED <<banks, published, applied, setterVars, lpPublished, lpBank, cfgSeen>>

LpBeginTransaction ==
  /\ cfgPc = "monitor"
  /\ cfgPc' = "transaction"
  /\ UNCHANGED <<banks, published, applied, setterVars, lpPublished, lpBank, cfgSeen>>

(* enabledMask, matchMask, replies and queryAckEnabled are read through    *)
(* monitor.config at different times of the frame.                         *)
LpReadWord(w) ==
  /\ cfgPc = "transaction"
  /\ cfgSeen' = cfgSeen \cup {banks[lpBank][w]}
  /\ UNCHANGED <<banks, published, applied, setterVars, cfgPc, lpPublished, lpBank>>

LpEndTransaction ==
  /\ cfgPc = "transaction"
  /\ cfgPc' = "idle"
  /\ cfgSeen' = {}
  /\ UNCHANGED <<banks, published, applied, setterVars, lpPublished, lpBank>>

LpConfigStep ==
  \/ LpBoot
  \/ LpLoadPublished
  \/ LpAdopt
  \/ LpAcknowledge
  \/ LpQuietBus
  \/ LpBeginTransaction
  \/ \E w \in Words : LpReadWord(w)
  \/ LpEndTransaction

-----------------------------------------------------------------------------
BanksInit ==
  /\ banks = [b \in 0 .. 1 |-> [w \in Words |-> IF b = 0 THEN InitialConfig ELSE NoConfig]]
  /\ published = 0
  /\ applied = 0
  /\ configuration = InitialConfig
  /\ lock = NoTask
  /\ copied = 0
  /\ pc = [t \in Tasks |-> "idle"]
  /\ request \in [Tasks -> [slot : ConfigSlots, setting : Settings]]
  /\ cfgPc = "boot"
  /\ lpPublished = 0
  /\ lpBank = 0
  /\ cfgSeen = {}

TaskNext(t) ==
  \/ \E s \in ConfigSlots, v \in Settings : Call(t, s, v)
  \/ TaskStep(t)

BanksNext ==
  \/ \E t \in Tasks : TaskNext(t)
  \/ LpConfigStep

BanksSpec == BanksInit /\ [][BanksNext]_banksVars

(* The LP core loops for ever and a bus transaction ends; a task inside a  *)
(* Set... call is scheduled.  The critical section disables interrupts on  *)
(* the single HP core, so a task that runs at all finds the lock free:     *)
(* entering is strongly fair.                                              *)
LpFairness ==
  /\ WF_banksVars(LpBoot \/ LpLoadPublished \/ LpAdopt \/ LpAcknowledge \/ LpQuietBus)
  /\ WF_banksVars(LpEndTransaction)

BanksFairSpec ==
  /\ BanksSpec
  /\ LpFairness
  /\ \A t \in Tasks :
       /\ WF_banksVars(WaitReady(t) \/ WaitTimeout(t))
       /\ SF_banksVars(EnterRefused(t) \/ EnterAccepted(t))
       /\ WF_banksVars(CopyWord(t) \/ Publish(t))

-----------------------------------------------------------------------------
BanksTypeOK ==
  /\ banks \in [0 .. 1 -> [Words -> Configs \cup {NoConfig}]]
  /\ published \in Generations
  /\ applied \in Generations
  /\ configuration \in Configs
  /\ lock \in Tasks \cup {NoTask}
  /\ copied \in 0 .. WordCount
  /\ pc \in [Tasks -> {"idle", "wait", "enter", "copy"}]
  /\ request \in [Tasks -> [slot : ConfigSlots, setting : Settings]]
  /\ cfgPc \in {"boot", "idle", "adopt", "acknowledge", "monitor", "transaction"}
  /\ lpPublished \in Generations
  /\ lpBank \in 0 .. 1
  /\ cfgSeen \subseteq (Configs \cup {NoConfig})

(* The bank of the published generation is never written: a task copies    *)
(* into the other one.                                                     *)
PublishedConfig == banks[published % 2][1]

(* The critical section: one task copies at a time, only after the LP core *)
(* acknowledged the previous generation, and its private copy differs from *)
(* the published configuration in the slot it was asked to change.         *)
CriticalInv ==
  /\ \A t \in Tasks : pc[t] = "copy" <=> lock = t
  /\ lock = NoTask => configuration = PublishedConfig
  /\ lock # NoTask =>
       /\ IsConfigurationReady
       /\ configuration = [PublishedConfig EXCEPT ![request[lock].slot] = request[lock].setting]
       /\ \A w \in Words : w <= copied => banks[TargetBank][w] = configuration

(* The LP core's pointer: the applied generation, or the newer one it is   *)
(* about to acknowledge.                                                   *)
PointerInv ==
  /\ published = applied \/ published = NextGeneration(applied)
  /\ cfgPc \in {"adopt", "acknowledge"} => lpPublished = published /\ published # applied
  /\ cfgPc = "boot" => applied = 0
  /\ lpBank = IF cfgPc = "acknowledge" THEN published % 2 ELSE applied % 2

(* Both the published bank and the LP core's bank are whole, and one       *)
(* transaction reads one configuration.                                    *)
WholeInv ==
  /\ \A w \in Words : /\ banks[published % 2][w] = PublishedConfig
                      /\ banks[lpBank][w] = banks[lpBank][1]
  /\ PublishedConfig \in Configs
  /\ banks[lpBank][1] \in Configs
  /\ cfgSeen \subseteq {banks[lpBank][1]}
  /\ cfgPc # "transaction" => cfgSeen = {}

(* The inductive invariant.                                                *)
BankInv ==
  /\ BanksTypeOK
  /\ CriticalInv
  /\ PointerInv
  /\ WholeInv

(* A transaction never sees two configurations, however many updates are   *)
(* published while it lasts.                                               *)
OneConfigPerTransaction == \A c, d \in cfgSeen : c = d

(* The banks implement an atomically replaced configuration.               *)
Register == INSTANCE AtomicConfig WITH
  latest <- PublishedConfig,
  active <- banks[lpBank][1],
  busy <- cfgPc = "transaction"

ImplementsAtomicConfig == Register!Spec

(* A published generation is applied, whatever the HP tasks do.            *)
EveryUpdateApplied ==
  \A g \in Generations : (published = g /\ applied # g) ~> (applied = g)

(* A Set... call returns, also when all tasks call at once.                *)
EverySetReturns == \A t \in Tasks : (pc[t] # "idle") ~> (pc[t] = "idle")
=============================================================================
