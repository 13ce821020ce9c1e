--------------------------- MODULE VanLpDriverProofs --------------------------
(***************************************************************************)
(* The three protocols between the HP tasks and the LP core.  The          *)
(* configuration banks and the outbox share the critical section           *)
(* vanApiLock: the banks are correct for every number of tasks, every      *)
(* configuration and bank size, and every even number of generations; the  *)
(* outbox for every number of tasks, frames, fields and retries.  The      *)
(* receive ring takes no lock: it is correct for every length, every index *)
(* width that is a multiple of it, and every set of captures.              *)
(***************************************************************************)
EXTENDS VanLpConfigBanks, VanLpOutbox, VanLpRxQueue, SequenceTheorems, TLAPS

-----------------------------------------------------------------------------
(* The configuration banks.                                                *)

(* Consecutive generations live in different banks, also across the wrap.  *)
LEMMA Parity ==
  ASSUME NEW g \in Generations
  PROVE  /\ NextGeneration(g) \in Generations
         /\ g % 2 \in 0 .. 1
         /\ NextGeneration(g) % 2 \in 0 .. 1
         /\ NextGeneration(g) % 2 # g % 2
  BY ConfigAssumption, SMT DEF Generations, NextGeneration

LEMMA FirstWord == 1 \in Words
  BY ConfigAssumption DEF Words

LEMMA BanksInitially == BanksInit => BankInv
<1>. SUFFICES ASSUME BanksInit PROVE BankInv
  OBVIOUS
<1>1. 0 \in Generations /\ 0 % 2 = 0 /\ 0 \in 0 .. WordCount
  BY ConfigAssumption, SMT DEF Generations
<1>2. BanksTypeOK
  BY <1>1, ConfigAssumption, SMT DEF BanksTypeOK, BanksInit
<1>3. PublishedConfig = InitialConfig
  BY <1>1, FirstWord DEF BanksInit, PublishedConfig
<1>4. CriticalInv
  BY <1>3, LockAssumption DEF CriticalInv, BanksInit
<1>5. PointerInv
  BY <1>1 DEF PointerInv, BanksInit
<1>6. WholeInv
  BY <1>1, <1>3, FirstWord, ConfigAssumption DEF WholeInv, BanksInit
<1>. QED BY <1>2, <1>4, <1>5, <1>6 DEF BankInv

-----------------------------------------------------------------------------
(* HP tasks.                                                               *)

(* Steps that only move a task outside the critical section.               *)
LEMMA OutsideKeeps ==
  ASSUME NEW t \in Tasks, BankInv,
         \/ \E s \in ConfigSlots, v \in Settings : Call(t, s, v)
         \/ WaitReady(t)
         \/ WaitTimeout(t)
         \/ EnterRefused(t)
  PROVE  BankInv'
<1>. USE DEF BankInv
<1>0. /\ UNCHANGED <<banks, published, applied, configuration, lock, copied, cfgVars>>
      /\ pc[t] # "copy" /\ pc'[t] # "copy"
      /\ \E step \in {"idle", "wait", "enter"} : pc' = [pc EXCEPT ![t] = step]
      /\ \A u \in Tasks : u # t => request'[u] = request[u]
  BY DEF Call, WaitReady, WaitTimeout, EnterRefused, BanksTypeOK
<1>1. request' \in [Tasks -> [slot : ConfigSlots, setting : Settings]]
  BY DEF Call, WaitReady, WaitTimeout, EnterRefused, BanksTypeOK
<1>2. BanksTypeOK'
  BY <1>0, <1>1 DEF BanksTypeOK, cfgVars
<1>3. \A u \in Tasks : (pc'[u] = "copy") <=> (pc[u] = "copy")
  BY <1>0 DEF BanksTypeOK
<1>4. lock # NoTask => lock \in Tasks /\ lock # t
  BY <1>0 DEF CriticalInv, BanksTypeOK
<1>5. CriticalInv'
  BY <1>0, <1>3, <1>4 DEF CriticalInv, IsConfigurationReady, TargetBank, PublishedConfig
<1>6. PointerInv' /\ WholeInv'
  BY <1>0 DEF PointerInv, WholeInv, PublishedConfig, cfgVars
<1>. QED BY <1>2, <1>5, <1>6

LEMMA EnterAcceptedKeeps ==
  ASSUME NEW t \in Tasks, BankInv, EnterAccepted(t)
  PROVE  BankInv'
<1>. USE DEF BankInv
<1>1. BanksTypeOK'
  <2>1. request[t].slot \in ConfigSlots /\ request[t].setting \in Settings
    BY DEF BanksTypeOK
  <2>2. configuration' \in Configs
    BY <2>1 DEF BanksTypeOK, EnterAccepted, Configs
  <2>. QED BY <2>2, ConfigAssumption, SMT DEF BanksTypeOK, EnterAccepted, cfgVars
<1>2. CriticalInv'
  <2>1. \A u \in Tasks : pc'[u] = "copy" <=> lock' = u
    BY LockAssumption DEF CriticalInv, EnterAccepted, BanksTypeOK
  <2>2. t # NoTask
    BY LockAssumption
  <2>3. \A w \in Words : ~(w <= copied')
    BY SMT DEF EnterAccepted, Words
  <2>. QED
    BY <2>1, <2>2, <2>3
       DEF CriticalInv, EnterAccepted, IsConfigurationReady, PublishedConfig, TargetBank
<1>3. PointerInv' /\ WholeInv'
  BY DEF PointerInv, WholeInv, PublishedConfig, cfgVars, EnterAccepted
<1>. QED BY <1>1, <1>2, <1>3

(* While a task copies, neither the published bank nor the LP core's bank  *)
(* is the one it writes.                                                   *)
LEMMA CopyTarget ==
  ASSUME NEW t \in Tasks, BankInv, pc[t] = "copy"
  PROVE  /\ lock = t /\ lock # NoTask
         /\ published = applied
         /\ cfgPc \notin {"adopt", "acknowledge"}
         /\ lpBank = published % 2
         /\ TargetBank \in 0 .. 1
         /\ TargetBank # published % 2
<1>1. lock = t /\ lock # NoTask /\ published = applied
  BY LockAssumption DEF BankInv, CriticalInv, IsConfigurationReady
<1>2. published \in Generations
  BY DEF BankInv, BanksTypeOK
<1>. QED BY <1>1, <1>2, Parity DEF BankInv, PointerInv, TargetBank

LEMMA CopyWordKeeps ==
  ASSUME NEW t \in Tasks, BankInv, CopyWord(t)
  PROVE  BankInv'
<1>1. /\ lock = t /\ lock # NoTask
      /\ published = applied
      /\ lpBank = published % 2
      /\ TargetBank \in 0 .. 1
      /\ TargetBank # published % 2
  BY CopyTarget DEF CopyWord
<1>2. copied + 1 \in Words /\ copied + 1 \in 0 .. WordCount /\ copied \in Int
  BY ConfigAssumption, SMT DEF BankInv, BanksTypeOK, CopyWord, Words
<1>3. configuration \in Configs
  BY DEF BankInv, BanksTypeOK
<1>4. /\ banks' \in [0 .. 1 -> [Words -> Configs \cup {NoConfig}]]
      /\ banks'[published % 2] = banks[published % 2]
      /\ banks'[TargetBank][copied + 1] = configuration
      /\ \A w \in Words : w # copied + 1 => banks'[TargetBank][w] = banks[TargetBank][w]
  <2>1. banks \in [0 .. 1 -> [Words -> Configs \cup {NoConfig}]]
    BY DEF BankInv, BanksTypeOK
  <2>2. published % 2 \in 0 .. 1
    BY Parity DEF BankInv, BanksTypeOK
  <2>. QED BY <1>1, <1>2, <1>3, <2>1, <2>2 DEF CopyWord
<1>. USE DEF BankInv
<1>5. BanksTypeOK'
  BY <1>2, <1>4 DEF BanksTypeOK, CopyWord, cfgVars
<1>6. PublishedConfig' = PublishedConfig /\ TargetBank' = TargetBank
  BY <1>4 DEF PublishedConfig, TargetBank, CopyWord
<1>7. \A w \in Words : w <= copied' => banks'[TargetBank][w] = configuration
  <2>. SUFFICES ASSUME NEW w \in Words, w <= copied + 1
                PROVE  banks'[TargetBank][w] = configuration
    BY DEF CopyWord
  <2>1. CASE w = copied + 1
    BY <1>4, <2>1
  <2>2. CASE w <= copied
    BY <1>1, <1>2, <1>4, <2>2 DEF CriticalInv, Words
  <2>. QED BY <1>2, <2>1, <2>2 DEF Words
<1>8. CriticalInv'
  BY <1>1, <1>6, <1>7 DEF CriticalInv, CopyWord, IsConfigurationReady
<1>9. PointerInv'
  BY DEF PointerInv, CopyWord, cfgVars
<1>10. WholeInv'
  BY <1>1, <1>4, <1>6 DEF WholeInv, CopyWord, cfgVars
<1>. QED BY <1>5, <1>8, <1>9, <1>10

LEMMA PublishFacts ==
  ASSUME NEW t \in Tasks, BankInv, Publish(t)
  PROVE  /\ published = applied
         /\ lock = t
         /\ published' = NextGeneration(published)
         /\ \A w \in Words : banks[published' % 2][w] = configuration
         /\ PublishedConfig' = configuration
         /\ configuration =
              [PublishedConfig EXCEPT ![request[t].slot] = request[t].setting]
<1>1. lock = t /\ lock # NoTask /\ published = applied
  BY CopyTarget DEF Publish
<1>2. /\ configuration =
           [PublishedConfig EXCEPT ![request[t].slot] = request[t].setting]
      /\ \A w \in Words : w <= copied => banks[TargetBank][w] = configuration
  BY <1>1 DEF BankInv, CriticalInv
<1>3. \A w \in Words : w <= copied
  BY ConfigAssumption, SMT DEF Publish, Words
<1>. QED BY <1>1, <1>2, <1>3, FirstWord DEF Publish, TargetBank, PublishedConfig

LEMMA PublishKeeps ==
  ASSUME NEW t \in Tasks, BankInv, Publish(t)
  PROVE  BankInv'
<1>1. /\ published = applied
      /\ lock = t
      /\ published' = NextGeneration(published)
      /\ \A w \in Words : banks[published' % 2][w] = configuration
      /\ PublishedConfig' = configuration
  BY PublishFacts
<1>. USE DEF BankInv
<1>2. published' \in Generations /\ published' % 2 # published % 2
  BY <1>1, Parity DEF BanksTypeOK
<1>3. BanksTypeOK'
  BY <1>2 DEF BanksTypeOK, Publish, cfgVars
<1>4. CriticalInv'
  <2>1. \A u \in Tasks : pc'[u] # "copy"
    BY <1>1 DEF CriticalInv, Publish, BanksTypeOK
  <2>. QED BY <1>1, <2>1, LockAssumption DEF CriticalInv, Publish
<1>5. PointerInv'
  BY <1>1, <1>2 DEF PointerInv, Publish, cfgVars
<1>6. WholeInv'
  BY <1>1 DEF WholeInv, Publish, cfgVars, BanksTypeOK
<1>. QED BY <1>3, <1>4, <1>5, <1>6

-----------------------------------------------------------------------------
(* LP core.                                                                *)

LEMMA LpKeeps ==
  ASSUME BankInv, LpConfigStep
  PROVE  BankInv'
<1>. USE DEF BankInv
<1>0. /\ UNCHANGED <<banks, published, setterVars>>
      /\ published \in Generations /\ published' = published
      /\ applied \in Generations /\ lpPublished \in Generations
  BY DEF LpConfigStep, LpBoot, LpLoadPublished, LpAdopt, LpAcknowledge, LpQuietBus,
         LpBeginTransaction, LpReadWord, LpEndTransaction, BanksTypeOK
<1>p. published % 2 \in 0 .. 1 /\ applied % 2 \in 0 .. 1
  BY <1>0, Parity
<1>s. UNCHANGED <<PublishedConfig, TargetBank>>
  BY <1>0 DEF PublishedConfig, TargetBank
<1>w. \A w \in Words : banks[published % 2][w] = PublishedConfig
  BY DEF WholeInv
(* Only adopting moves the pointer, only acknowledging moves applied.      *)
<1>1. CASE applied' = applied /\ lpBank' = lpBank
  <2>1. BanksTypeOK'
    <3>1. lpPublished' \in Generations
      BY <1>0, <1>1 DEF LpConfigStep, LpBoot, LpLoadPublished, LpAdopt,
           LpAcknowledge, LpQuietBus, LpBeginTransaction, LpReadWord, LpEndTransaction, cfgVars
    <3>2. cfgPc' \in {"boot", "idle", "adopt", "acknowledge", "monitor", "transaction"}
      BY <1>1 DEF LpConfigStep, LpBoot, LpLoadPublished, LpAdopt,
           LpAcknowledge, LpQuietBus, LpBeginTransaction, LpReadWord, LpEndTransaction
    <3>3. cfgSeen' \subseteq Configs \cup {NoConfig}
      <4>1. \A w \in Words : banks[lpBank][w] \in Configs \cup {NoConfig}
        BY DEF BanksTypeOK
      <4>. QED BY <1>1, <4>1 DEF LpConfigStep, LpBoot, LpLoadPublished, LpAdopt,
           LpAcknowledge, LpQuietBus, LpBeginTransaction, LpReadWord, LpEndTransaction, BanksTypeOK
    <3>. QED BY <1>0, <1>1, <3>1, <3>2, <3>3 DEF BanksTypeOK, setterVars
  <2>2. CriticalInv'
    BY <1>0, <1>1, <1>s DEF CriticalInv, IsConfigurationReady, setterVars
  <2>3. PointerInv'
    <3>1. CASE LpBoot \/ LpQuietBus \/ LpBeginTransaction \/ LpEndTransaction
      BY <1>0, <1>1, <3>1 DEF PointerInv, LpBoot, LpQuietBus, LpBeginTransaction,
                              LpEndTransaction
    <3>2. CASE LpLoadPublished
      BY <1>0, <1>1, <3>2 DEF PointerInv, LpLoadPublished
    <3>3. CASE LpAdopt
      BY <1>0, <1>1, <3>3 DEF PointerInv, LpAdopt
    <3>4. CASE LpAcknowledge
      BY <1>0, <1>1, <3>4 DEF PointerInv, LpAcknowledge
    <3>5. CASE \E w \in Words : LpReadWord(w)
      BY <1>0, <1>1, <3>5 DEF PointerInv, LpReadWord
    <3>. QED BY <3>1, <3>2, <3>3, <3>4, <3>5 DEF LpConfigStep
  <2>4. WholeInv'
    <3>1. cfgSeen' \subseteq {banks[lpBank][1]} /\ (cfgPc' # "transaction" => cfgSeen' = {})
      BY DEF WholeInv, LpConfigStep, LpBoot, LpLoadPublished, LpAdopt, LpAcknowledge,
             LpQuietBus, LpBeginTransaction, LpReadWord, LpEndTransaction
    <3>. QED BY <1>0, <1>1, <1>s, <3>1 DEF WholeInv
  <2>. QED BY <2>1, <2>2, <2>3, <2>4
<1>2. CASE LpAdopt
  <2>1. /\ lpPublished = published
        /\ lpBank' = published % 2
        /\ UNCHANGED <<banks, published, applied, setterVars, lpPublished, cfgSeen>>
    BY <1>2 DEF PointerInv, LpAdopt
  <2>2. BanksTypeOK'
    BY <1>2, <1>p, <2>1 DEF BanksTypeOK, LpAdopt, setterVars
  <2>3. CriticalInv'
    BY <1>s, <2>1 DEF CriticalInv, IsConfigurationReady, setterVars
  <2>4. PointerInv'
    BY <1>2, <2>1 DEF PointerInv, LpAdopt
  <2>5. WholeInv'
    BY <1>2, <1>s, <1>w, <2>1, FirstWord DEF WholeInv, LpAdopt
  <2>. QED BY <2>2, <2>3, <2>4, <2>5
<1>3. CASE LpAcknowledge
  <2>1. /\ lpPublished = published
        /\ applied' = published
        /\ UNCHANGED <<banks, published, setterVars, lpPublished, lpBank, cfgSeen>>
    BY <1>3 DEF PointerInv, LpAcknowledge
  <2>2. BanksTypeOK'
    BY <1>0, <1>3, <2>1 DEF BanksTypeOK, LpAcknowledge, setterVars
  <2>3. CriticalInv'
    BY <1>s, <2>1 DEF CriticalInv, IsConfigurationReady, setterVars
  <2>4. PointerInv'
    BY <1>3, <2>1 DEF PointerInv, LpAcknowledge
  <2>5. WholeInv'
    BY <1>3, <1>s, <2>1 DEF WholeInv, LpAcknowledge
  <2>. QED BY <2>2, <2>3, <2>4, <2>5
<1>4. CASE LpBoot
  <2>1. lpBank = 0
    <3>1. 0 % 2 = 0
      OBVIOUS
    <3>. QED BY <1>4, <3>1 DEF PointerInv, LpBoot
  <2>. QED BY <1>1, <1>4, <2>1 DEF LpBoot
<1>. QED
  BY <1>1, <1>2, <1>3, <1>4
     DEF LpConfigStep, LpLoadPublished, LpQuietBus, LpBeginTransaction, LpReadWord,
         LpEndTransaction

-----------------------------------------------------------------------------
LEMMA BanksStutterKeeps == BankInv /\ UNCHANGED banksVars => BankInv'
<1>. SUFFICES ASSUME BankInv, UNCHANGED banksVars PROVE BankInv'
  OBVIOUS
<1>. USE DEF banksVars, setterVars, cfgVars
<1>1. BanksTypeOK'
  BY DEF BankInv, BanksTypeOK
<1>2. CriticalInv'
  BY DEF BankInv, CriticalInv, IsConfigurationReady, PublishedConfig, TargetBank
<1>3. PointerInv' /\ WholeInv'
  BY DEF BankInv, PointerInv, WholeInv, PublishedConfig
<1>. QED BY <1>1, <1>2, <1>3 DEF BankInv

(* The banks of every size, used by any number of tasks, keep their        *)
(* invariant: in particular neither the published bank nor the bank the LP *)
(* core works from is ever torn.                                           *)
THEOREM BanksCorrect == BanksSpec => []BankInv
<1>1. BanksInit => BankInv
  BY BanksInitially
<1>2. BankInv /\ [BanksNext]_banksVars => BankInv'
  BY OutsideKeeps, EnterAcceptedKeeps, CopyWordKeeps, PublishKeeps, LpKeeps, BanksStutterKeeps
     DEF BanksNext, TaskNext, TaskStep
<1>. QED BY <1>1, <1>2, PTL DEF BanksSpec

(* A bus transaction works with one configuration from its first read to   *)
(* its last.                                                               *)
THEOREM OneConfigPerTransactionHolds == BanksSpec => []OneConfigPerTransaction
<1>1. BankInv => OneConfigPerTransaction
  BY DEF BankInv, WholeInv, OneConfigPerTransaction
<1>. QED BY <1>1, BanksCorrect, PTL

-----------------------------------------------------------------------------
LEMMA BanksStepRefines ==
  ASSUME BankInv, BankInv', [BanksNext]_banksVars
  PROVE  [Register!Next]_(Register!vars)
<1>. USE DEF Register!vars
<1>1. ASSUME NEW t \in Tasks,
             \/ \E s \in ConfigSlots, v \in Settings : Call(t, s, v)
             \/ WaitReady(t)
             \/ WaitTimeout(t)
             \/ EnterRefused(t)
             \/ EnterAccepted(t)
      PROVE  UNCHANGED Register!vars
  BY <1>1 DEF Call, WaitReady, WaitTimeout, EnterRefused, EnterAccepted, cfgVars, PublishedConfig
<1>2. ASSUME NEW t \in Tasks, CopyWord(t)
      PROVE  UNCHANGED Register!vars
  <2>1. /\ lpBank = published % 2 /\ TargetBank \in 0 .. 1 /\ TargetBank # published % 2
    BY <1>2, CopyTarget DEF CopyWord
  <2>2. banks'[published % 2] = banks[published % 2]
    <3>1. published % 2 \in 0 .. 1
      BY Parity DEF BankInv, BanksTypeOK
    <3>. QED BY <1>2, <2>1, <3>1 DEF CopyWord, BankInv, BanksTypeOK
  <2>. QED BY <1>2, <2>1, <2>2 DEF CopyWord, PublishedConfig, cfgVars
<1>3. ASSUME NEW t \in Tasks, Publish(t)
      PROVE  \E s \in ConfigSlots, v \in Settings : Register!Update(s, v)
  <2>1. request[t].slot \in ConfigSlots /\ request[t].setting \in Settings
    BY DEF BankInv, BanksTypeOK
  <2>2. banks[lpBank][1] = PublishedConfig
    BY <1>3, CopyTarget DEF Publish, PublishedConfig
  <2>3. PublishedConfig' = [PublishedConfig EXCEPT ![request[t].slot] = request[t].setting]
    BY <1>3, PublishFacts
  <2>4. UNCHANGED <<banks, cfgPc, lpBank>>
    BY <1>3 DEF Publish, cfgVars
  <2>5. Register!Update(request[t].slot, request[t].setting)
    BY <2>2, <2>3, <2>4 DEF Register!Update
  <2>. QED BY <2>1, <2>5
<1>4. ASSUME LpConfigStep
      PROVE  [Register!Next]_(Register!vars)
  <2>0. UNCHANGED <<banks, published, PublishedConfig>>
    BY <1>4 DEF LpConfigStep, LpBoot, LpLoadPublished, LpAdopt, LpAcknowledge, LpQuietBus,
           LpBeginTransaction, LpReadWord, LpEndTransaction, PublishedConfig
  <2>1. CASE LpAdopt
    <3>1. lpPublished = published
      BY <2>1 DEF BankInv, PointerInv, LpAdopt
    <3>2. Register!Adopt
      BY <2>0, <2>1, <3>1 DEF Register!Adopt, LpAdopt, PublishedConfig
    <3>. QED BY <3>2 DEF Register!Next
  <2>2. CASE LpBeginTransaction
    BY <2>0, <2>2 DEF Register!Next, Register!BeginTransaction, LpBeginTransaction
  <2>3. CASE LpEndTransaction
    BY <2>0, <2>3 DEF Register!Next, Register!EndTransaction, LpEndTransaction
  <2>4. CASE LpBoot
    <3>1. lpBank = 0
      BY <2>4 DEF BankInv, PointerInv, LpBoot
    <3>. QED BY <2>0, <2>4, <3>1 DEF LpBoot
  <2>5. CASE \/ LpLoadPublished \/ LpAcknowledge \/ LpQuietBus
             \/ \E w \in Words : LpReadWord(w)
    BY <2>0, <2>5 DEF LpLoadPublished, LpAcknowledge, LpQuietBus, LpReadWord
  <2>. QED BY <1>4, <2>1, <2>2, <2>3, <2>4, <2>5 DEF LpConfigStep
<1>5. CASE UNCHANGED banksVars
  BY <1>5 DEF banksVars, cfgVars, PublishedConfig
<1>. QED
  BY <1>1, <1>2, <1>3, <1>4, <1>5 DEF BanksNext, TaskNext, TaskStep, Register!Next

(* The banks implement a configuration that is replaced atomically, and    *)
(* only between bus transactions.                                          *)
THEOREM BanksImplementAtomicConfig == BanksSpec => ImplementsAtomicConfig
<1>1. BanksInit => Register!Init
  <2>1. 0 % 2 = 0
    OBVIOUS
  <2>. QED BY <2>1, FirstWord DEF BanksInit, Register!Init, PublishedConfig
<1>2. BankInv /\ BankInv' /\ [BanksNext]_banksVars => [Register!Next]_(Register!vars)
  BY BanksStepRefines
<1>. QED BY <1>1, <1>2, BanksCorrect, PTL DEF BanksSpec, ImplementsAtomicConfig, Register!Spec

-----------------------------------------------------------------------------
(* The outbox.                                                             *)

LEMMA FirstAndLast == 1 \in Fields /\ FieldCount \in Fields
  BY OutboxAssumption DEF Fields

LEMMA AttemptFacts ==
  ASSUME NEW a \in Attempts
  PROVE  a.frame \in Frames /\ a.result \in Results(a.frame)
  BY DEF Attempts

LEMMA AttemptOf ==
  ASSUME NEW f \in Frames, NEW r \in Results(f)
  PROVE  [frame |-> f, result |-> r] \in Attempts
  BY DEF Attempts

LEMMA InitEstablishes == Init => OutboxInv
<1>. SUFFICES ASSUME Init PROVE OutboxInv
  OBVIOUS
<1>1. TypeOK
  <2>1. 0 \in 0 .. FieldCount /\ 0 \in 0 .. RetryCount - 1
    BY OutboxAssumption
  <2>2. outbox \in [Fields -> Frames \cup {NoFrame}]
    BY DEF Init
  <2>. QED BY <2>1, <2>2 DEF Init, TypeOK
<1>2. OwnershipInv
  BY DEF Init, OwnershipInv
<1>3. FieldsInv
  BY FirstAndLast DEF Init, FieldsInv
<1>4. CompletionInv
  BY DEF Init, CompletionInv
<1>5. CompletionConsistent
  BY FirstAndLast DEF Init, CompletionConsistent
<1>. QED BY <1>1, <1>2, <1>3, <1>4, <1>5 DEF OutboxInv

-----------------------------------------------------------------------------
(* HP tasks.                                                               *)

LEMMA EnterKeeps ==
  ASSUME NEW t \in Tasks, NEW f \in Frames, OutboxInv, Enter(t, f)
  PROVE  OutboxInv'
<1>. USE DEF OutboxInv, Enter, completion, lpVars
<1>1. TypeOK'
  BY OutboxAssumption DEF TypeOK
<1>2. OwnershipInv'
  BY LockAssumption DEF OwnershipInv, IsTxPossible
<1>3. FieldsInv'
  BY OutboxAssumption DEF FieldsInv, OwnershipInv, Fields, IsTxPossible
<1>4. CompletionInv'
  BY DEF CompletionInv, LostArbitration
<1>5. CompletionConsistent'
  BY OutboxAssumption DEF CompletionConsistent
<1>. QED BY <1>1, <1>2, <1>3, <1>4, <1>5

LEMMA StoreFieldKeeps ==
  ASSUME OutboxInv, StoreField
  PROVE  OutboxInv'
<1>. USE DEF OutboxInv, StoreField, completion, lpVars
<1>0. /\ lpPc = "monitor"
      /\ lpSeen = {} /\ txFinished /\ lock # NoTask
      /\ submission \in Frames
      /\ stored \in Int /\ stored + 1 \in Fields /\ stored + 1 \in 0 .. FieldCount
  <2>1. lpPc = "monitor"
    BY DEF OwnershipInv, TypeOK
  <2>. QED BY <2>1, OutboxAssumption DEF OwnershipInv, FieldsInv, TypeOK, Fields
<1>1. TypeOK'
  BY <1>0 DEF TypeOK
<1>2. OwnershipInv'
  BY DEF OwnershipInv
<1>3. FieldsInv'
  <2>1. \A k \in Fields : k <= stored + 1 => outbox'[k] = submission
    <3>. SUFFICES ASSUME NEW k \in Fields, k <= stored + 1
                  PROVE  outbox'[k] = submission
      OBVIOUS
    <3>1. CASE k = stored + 1
      BY <1>0, <3>1 DEF TypeOK
    <3>2. CASE k <= stored
      BY <1>0, <3>2 DEF FieldsInv, TypeOK, Fields
    <3>. QED BY <1>0, <3>1, <3>2 DEF Fields
  <2>. QED BY <1>0, <2>1 DEF FieldsInv
<1>4. CompletionInv'
  BY <1>0 DEF CompletionInv
<1>5. CompletionConsistent'
  BY <1>0 DEF CompletionConsistent
<1>. QED BY <1>1, <1>2, <1>3, <1>4, <1>5

LEMMA ClearFinishedKeeps ==
  ASSUME OutboxInv, ClearFinished
  PROVE  OutboxInv'
<1>. USE DEF OutboxInv, ClearFinished, completion, lpVars
<1>0. \A k \in Fields : outbox[k] = submission
  BY OutboxAssumption DEF FieldsInv, Fields
<1>1. TypeOK'
  BY DEF TypeOK
<1>2. OwnershipInv'
  BY DEF OwnershipInv
<1>3. FieldsInv'
  BY <1>0, FirstAndLast DEF FieldsInv
<1>4. CompletionInv'
  BY DEF CompletionInv, LostArbitration
<1>5. CompletionConsistent'
  BY DEF CompletionConsistent
<1>. QED BY <1>1, <1>2, <1>3, <1>4, <1>5

LEMMA StartTxKeeps ==
  ASSUME OutboxInv, StartTx
  PROVE  OutboxInv'
<1>. USE DEF OutboxInv, StartTx, completion, lpVars
<1>1. TypeOK'
  BY OutboxAssumption DEF TypeOK
<1>2. OwnershipInv'
  BY DEF OwnershipInv
<1>3. FieldsInv'
  BY FirstAndLast DEF FieldsInv
<1>4. CompletionInv'
  BY DEF CompletionInv, LostArbitration
<1>5. CompletionConsistent'
  BY DEF CompletionConsistent, OwnershipInv
<1>. QED BY <1>1, <1>2, <1>3, <1>4, <1>5

-----------------------------------------------------------------------------
(* LP core.  No step of it touches the fields or the critical section.     *)

LEMMA LpScanKeeps ==
  ASSUME OutboxInv,
         \/ LpSeesStart
         \/ LpBusTaken
         \/ LpDriveSof
         \/ \E k \in Fields : LpReadField(k)
         \/ LpCommitCapture
  PROVE  OutboxInv'
<1>. USE DEF OutboxInv
<1>0. /\ UNCHANGED <<outbox, startTx, txFinished, completion, hpVars, lpOutcome, retries>>
      /\ UNCHANGED LostArbitration
  BY DEF LpSeesStart, LpBusTaken, LpDriveSof, LpReadField, LpCommitCapture, LostArbitration
<1>1. lpSeen' \subseteq {outbox[1]}
  <2>1. ASSUME NEW k \in Fields, LpReadField(k)
        PROVE  outbox[k] = outbox[1]
    BY <2>1 DEF LpReadField, OwnershipInv, FieldsInv
  <2>. QED BY <2>1 DEF FieldsInv, LpSeesStart, LpBusTaken, LpDriveSof, LpReadField,
                       LpCommitCapture
<1>2. /\ lpPc' \in {"monitor", "prepare", "transmit", "capture", "result"}
      /\ lpPc' # "monitor" => startTx
      /\ lpPc' = "monitor" => lpSeen' = {}
      /\ lpPc' \in {"capture", "result"} => lpPc = "capture"
  BY DEF LpSeesStart, LpBusTaken, LpDriveSof, LpReadField, LpCommitCapture, OwnershipInv
<1>3. lpPc # "finish"
  BY DEF LpSeesStart, LpBusTaken, LpDriveSof, LpReadField, LpCommitCapture
<1>4. TypeOK'
  <2>1. lpSeen' \subseteq Frames \cup {NoFrame}
    BY <1>1, FirstAndLast DEF TypeOK
  <2>. QED BY <1>0, <1>2, <2>1 DEF TypeOK, completion, hpVars
<1>5. OwnershipInv'
  BY <1>0, <1>2, <1>3 DEF OwnershipInv, hpVars
<1>6. FieldsInv'
  BY <1>0, <1>1, <1>2 DEF FieldsInv, hpVars
<1>7. CompletionInv'
  BY <1>0, <1>2 DEF CompletionInv, completion
<1>8. CompletionConsistent'
  BY <1>0 DEF CompletionConsistent, completion, hpVars
<1>. QED BY <1>4, <1>5, <1>6, <1>7, <1>8

LEMMA LpEndKeeps ==
  ASSUME OutboxInv, LpEnd
  PROVE  OutboxInv'
<1>. USE DEF OutboxInv
<1>1. PICK result \in Results(outbox[1]) : LpEndTransmit(result)
  BY DEF LpEnd
<1>2. startTx /\ outbox[1] \in Frames /\ lpPc = "transmit" /\ ~txFinished
  BY <1>1 DEF LpEndTransmit, OwnershipInv, FieldsInv
<1>3. lpOutcome' \in Attempts /\ lpOutcome'.frame = outbox[1]
  BY <1>1, <1>2, AttemptOf DEF LpEndTransmit
<1>. USE DEF LpEndTransmit, completion, hpVars
<1>4. lpPc' \in {"capture", "result"}
  BY <1>1
<1>5. TypeOK'
  BY <1>1, <1>3, <1>4 DEF TypeOK
<1>6. OwnershipInv'
  BY <1>1, <1>2, <1>4 DEF OwnershipInv
<1>7. FieldsInv'
  BY <1>1, <1>4 DEF FieldsInv
<1>8. CompletionInv'
  BY <1>1, <1>3, <1>4 DEF CompletionInv
<1>9. CompletionConsistent'
  BY <1>1, <1>2 DEF CompletionConsistent
<1>. QED BY <1>5, <1>6, <1>7, <1>8, <1>9

(* The steps that store a completion word or decide what to do next.       *)
LEMMA LpStoreKeeps ==
  ASSUME OutboxInv, LpStoreResult \/ LpStoreTrace \/ LpStoreDetail
  PROVE  OutboxInv'
<1>. USE DEF OutboxInv, LpStoreResult, LpStoreTrace, LpStoreDetail
<1>0. /\ UNCHANGED <<outbox, startTx, txFinished, hpVars, lpOutcome, retries, LostArbitration>>
      /\ startTx /\ ~txFinished /\ lpOutcome \in Attempts
      /\ lpPc' \in {"trace", "detail", "decide"}
      /\ lpSeen' = {}
  BY DEF OwnershipInv, CompletionInv, FieldsInv, LostArbitration
<1>1. TypeOK'
  BY <1>0 DEF TypeOK, hpVars
<1>2. OwnershipInv'
  BY <1>0 DEF OwnershipInv, hpVars
<1>3. FieldsInv'
  BY <1>0 DEF FieldsInv, hpVars
<1>4. CompletionInv'
  BY <1>0 DEF CompletionInv
<1>5. CompletionConsistent'
  BY <1>0 DEF CompletionConsistent
<1>. QED BY <1>1, <1>2, <1>3, <1>4, <1>5

LEMMA LpDecideKeeps ==
  ASSUME OutboxInv, LpRetain \/ LpClearStart
  PROVE  OutboxInv'
<1>. USE DEF OutboxInv, LpRetain, LpClearStart
<1>0. /\ UNCHANGED <<outbox, txFinished, completion, hpVars, lpSeen>>
      /\ startTx /\ ~txFinished /\ hpPc = "idle"
  BY DEF OwnershipInv
<1>1. TypeOK'
  <2>1. retries' \in 0 .. RetryCount - 1
    BY OutboxAssumption DEF TypeOK
  <2>. QED BY <1>0, <2>1 DEF TypeOK, completion, hpVars
<1>2. OwnershipInv'
  BY <1>0 DEF OwnershipInv, hpVars
<1>3. FieldsInv'
  BY <1>0 DEF FieldsInv, hpVars
<1>4. CompletionInv'
  BY <1>0 DEF CompletionInv, completion, LostArbitration
<1>5. CompletionConsistent'
  BY <1>0 DEF CompletionConsistent
<1>. QED BY <1>1, <1>2, <1>3, <1>4, <1>5

LEMMA LpSetFinishedKeeps ==
  ASSUME OutboxInv, LpSetFinished
  PROVE  OutboxInv'
<1>. USE DEF OutboxInv, LpSetFinished
<1>0. /\ UNCHANGED <<outbox, startTx, completion, hpVars, lpSeen, retries>>
      /\ ~startTx /\ ~txFinished /\ hpPc = "idle"
      /\ outbox[1] \in Frames
      /\ lpOutcome \in Attempts /\ lpOutcome.frame = outbox[1]
      /\ txResult = lpOutcome /\ txDetail = lpOutcome
      /\ LostArbitration => txTrace = lpOutcome
  BY DEF OwnershipInv, CompletionInv, FieldsInv
<1>1. TypeOK'
  BY <1>0 DEF TypeOK, completion, hpVars
<1>2. OwnershipInv'
  BY <1>0 DEF OwnershipInv, hpVars
<1>3. FieldsInv'
  BY <1>0 DEF FieldsInv, hpVars
<1>4. CompletionInv'
  BY DEF CompletionInv
<1>5. CompletionConsistent'
  BY <1>0, OutboxAssumption DEF CompletionConsistent, completion, LostArbitration
<1>. QED BY <1>1, <1>2, <1>3, <1>4, <1>5

-----------------------------------------------------------------------------
LEMMA StutterKeeps == OutboxInv /\ UNCHANGED vars => OutboxInv'
<1>. SUFFICES ASSUME OutboxInv, UNCHANGED vars PROVE OutboxInv'
  OBVIOUS
<1>. USE DEF OutboxInv, vars, completion, hpVars, lpVars
<1>1. TypeOK'
  BY DEF TypeOK
<1>2. OwnershipInv' /\ FieldsInv'
  BY DEF OwnershipInv, FieldsInv
<1>3. CompletionInv' /\ CompletionConsistent'
  BY DEF CompletionInv, CompletionConsistent, LostArbitration
<1>. QED BY <1>1, <1>2, <1>3

(* The handshake keeps its invariant: fields, owner and completion words   *)
(* agree in every state that the other core can observe.                   *)
THEOREM OutboxCorrect == Spec => []OutboxInv
<1>1. Init => OutboxInv
  BY InitEstablishes
<1>2. OutboxInv /\ [Next]_vars => OutboxInv'
  BY EnterKeeps, StoreFieldKeeps, ClearFinishedKeeps, StartTxKeeps, LpScanKeeps,
     LpEndKeeps, LpStoreKeeps, LpDecideKeeps, LpSetFinishedKeeps, StutterKeeps
     DEF Next, HpStep, LpStep, LpComplete
<1>. QED BY <1>1, <1>2, PTL DEF Spec

(* A transmission reads the fields of one submitted frame.                 *)
THEOREM OneFrameOnTheBus == Spec => []OneFramePerTransmission
<1>1. OutboxInv => OneFramePerTransmission
  <2>. SUFFICES ASSUME OutboxInv PROVE OneFramePerTransmission
    OBVIOUS
  <2>1. CASE lpSeen = {}
    BY <2>1 DEF OneFramePerTransmission
  <2>2. CASE lpSeen # {}
    <3>1. lpPc \notin {"monitor", "finish"}
      BY <2>2 DEF OutboxInv, FieldsInv
    <3>2. outbox[1] \in Frames
      BY <3>1 DEF OutboxInv, OwnershipInv, FieldsInv
    <3>. QED BY <3>2 DEF OutboxInv, FieldsInv, OneFramePerTransmission
  <2>. QED BY <2>1, <2>2
<1>. QED BY <1>1, OutboxCorrect, PTL

(* No HP task stores into the outbox between VAN_START_TX and the end of   *)
(* the last attempt.                                                       *)
THEOREM SendingUndisturbed == Spec => NoStoreWhileSending
<1>1. OutboxInv /\ [Next]_vars => [startTx => outbox' = outbox]_vars
  <2>. SUFFICES ASSUME OutboxInv, [Next]_vars, startTx
                PROVE  outbox' = outbox
    OBVIOUS
  <2>1. hpPc = "idle"
    BY DEF OutboxInv, OwnershipInv
  <2>. QED
    BY <2>1 DEF Next, vars, Enter, HpStep, StoreField, ClearFinished, StartTx, LpStep,
       LpSeesStart, LpBusTaken, LpDriveSof, LpReadField, LpComplete, LpEnd, LpEndTransmit,
       LpCommitCapture, LpStoreResult, LpStoreTrace, LpStoreDetail, LpRetain, LpClearStart,
       LpSetFinished
<1>. QED BY <1>1, OutboxCorrect, PTL DEF Spec, NoStoreWhileSending

-----------------------------------------------------------------------------
LEMMA StepRefines ==
  ASSUME OutboxInv, [Next]_vars
  PROVE  [Mailbox!Next]_(Mailbox!vars)
<1>. USE DEF Mailbox!vars, OutboxInv
<1>1. ASSUME NEW t \in Tasks, NEW f \in Frames, Enter(t, f)
      PROVE  UNCHANGED Mailbox!vars
  BY <1>1 DEF Enter, completion, lpVars
<1>2. CASE StoreField
  <2>1. ~startTx /\ lpPc # "finish"
    BY <1>2 DEF StoreField, OwnershipInv
  <2>. QED BY <1>2, <2>1 DEF StoreField, completion, lpVars
<1>3. CASE ClearFinished
  BY <1>3 DEF ClearFinished, completion, lpVars
<1>4. CASE StartTx
  <2>1. ~startTx /\ lpPc # "finish" /\ outbox[1] \in Frames
    BY <1>4 DEF StartTx, OwnershipInv, FieldsInv
  <2>2. Mailbox!Submit(outbox[1])
    BY <1>4, <2>1 DEF StartTx, completion, lpVars, Mailbox!Submit
  <2>. QED BY <2>1, <2>2 DEF Mailbox!Next
<1>5. CASE LpStoreResult
  <2>1. startTx /\ outbox[1] \in Frames
    BY <1>5 DEF LpStoreResult, OwnershipInv, FieldsInv
  <2>2. lpOutcome \in Attempts /\ lpOutcome.frame = outbox[1]
    BY <1>5 DEF LpStoreResult, CompletionInv
  <2>3. /\ lpOutcome.result \in Results(outbox[1])
        /\ lpOutcome = [frame |-> outbox[1], result |-> lpOutcome.result]
    BY <2>2 DEF Attempts
  <2>4. Mailbox!Attempt(lpOutcome.result)
    BY <1>5, <2>1, <2>3, OutboxAssumption DEF LpStoreResult, Mailbox!Attempt
  <2>. QED BY <2>1, <2>3, <2>4, OutboxAssumption DEF Mailbox!Next
<1>6. CASE LpSetFinished
  <2>1. /\ ~startTx /\ outbox[1] \in Frames
        /\ txResult \in Attempts /\ txResult.frame = outbox[1]
    BY <1>6 DEF LpSetFinished, OwnershipInv, FieldsInv, CompletionInv
  <2>2. Mailbox!Finish
    BY <1>6, <2>1, OutboxAssumption DEF LpSetFinished, completion, Mailbox!Finish
  <2>. QED BY <2>2 DEF Mailbox!Next
<1>7. CASE LpStoreTrace \/ LpStoreDetail \/ LpRetain \/ LpClearStart
  <2>1. startTx
    BY <1>7 DEF LpStoreTrace, LpStoreDetail, LpRetain, LpClearStart, OwnershipInv
  <2>. QED BY <1>7, <2>1 DEF LpStoreTrace, LpStoreDetail, LpRetain, LpClearStart, completion
<1>8. CASE \/ LpSeesStart
           \/ LpBusTaken
           \/ LpDriveSof
           \/ \E k \in Fields : LpReadField(k)
           \/ LpEnd
           \/ LpCommitCapture
  BY <1>8 DEF LpSeesStart, LpBusTaken, LpDriveSof, LpReadField, LpEnd, LpEndTransmit,
              LpCommitCapture, completion
<1>9. CASE UNCHANGED vars
  BY <1>9 DEF vars, completion, lpVars
<1>. QED
  BY <1>1, <1>2, <1>3, <1>4, <1>5, <1>6, <1>7, <1>8, <1>9
     DEF Next, HpStep, LpStep, LpComplete

(* The handshake implements a mailbox for one frame: accepted only when    *)
(* free, finished once, with the outcome of its own last attempt.          *)
THEOREM OutboxImplementsMailbox == Spec => ImplementsAtomicOutbox
<1>1. Init => Mailbox!Init
  BY DEF Init, Mailbox!Init
<1>2. OutboxInv /\ [Next]_vars => [Mailbox!Next]_(Mailbox!vars)
  BY StepRefines
<1>. QED BY <1>1, <1>2, OutboxCorrect, PTL DEF Spec, ImplementsAtomicOutbox, Mailbox!Spec
-----------------------------------------------------------------------------
(* Division with remainder.                                                *)

LEMMA DivMod ==
  ASSUME NEW L \in Nat \ {0}, NEW a \in Int
  PROVE  /\ a \div L \in Int
         /\ (a % L) \in 0 .. L - 1
         /\ a = L * (a \div L) + (a % L)
  BY SMT

LEMMA RemainderUnique ==
  ASSUME NEW L \in Nat \ {0}, NEW q1 \in Int, NEW q2 \in Int,
         NEW r1 \in 0 .. L - 1, NEW r2 \in 0 .. L - 1,
         L * q1 + r1 = L * q2 + r2
  PROVE  r1 = r2
<1>1. CASE q1 = q2
  BY <1>1
<1>2. CASE q1 >= q2 + 1
  <2>1. L * q1 >= L * (q2 + 1)
    BY <1>2
  <2>2. L * (q2 + 1) = L * q2 + L
    OBVIOUS
  <2>. QED BY <2>1, <2>2
<1>3. CASE q2 >= q1 + 1
  <2>1. L * q2 >= L * (q1 + 1)
    BY <1>3
  <2>2. L * (q1 + 1) = L * q1 + L
    OBVIOUS
  <2>. QED BY <2>1, <2>2
<1>. QED BY <1>1, <1>2, <1>3

LEMMA RemainderOfShift ==
  ASSUME NEW L \in Nat \ {0}, NEW a \in Int, NEW m \in Int, m % L = 0
  PROVE  (a - m) % L = a % L
<1>. DEFINE qa == a \div L
            qm == m \div L
            qd == (a - m) \div L
            ra == a % L
            rd == (a - m) % L
<1>1. /\ qa \in Int /\ qm \in Int /\ qd \in Int
      /\ ra \in 0 .. L - 1 /\ rd \in 0 .. L - 1
      /\ a = L * qa + ra
      /\ m = L * qm
      /\ a - m = L * qd + rd
  BY DivMod
<1>. HIDE DEF qa, qm, qd, ra, rd
<1>2. L * qd + rd = L * (qa - qm) + ra
  BY <1>1
<1>3. qa - qm \in Int
  BY <1>1
<1>4. rd = ra
  BY <1>1, <1>2, <1>3, RemainderUnique
<1>. QED BY <1>4 DEF ra, rd

LEMMA RemaindersDiffer ==
  ASSUME NEW L \in Nat \ {0}, NEW a \in Int, NEW b \in Int, a < b, b < a + L
  PROVE  a % L # b % L
<1>. DEFINE qa == a \div L
            qb == b \div L
            ra == a % L
            rb == b % L
<1>. SUFFICES ASSUME ra = rb PROVE FALSE
  OBVIOUS
<1>1. /\ qa \in Int /\ qb \in Int /\ ra \in Int /\ rb \in Int
      /\ a = L * qa + ra
      /\ b = L * qb + rb
  BY DivMod
<1>. HIDE DEF qa, qb, ra, rb
<1>2. b - a = L * (qb - qa)
  BY <1>1
<1>3. CASE qb - qa <= 0
  <2>1. L * (qb - qa) <= 0
    BY <1>1, <1>3
  <2>. QED BY <1>2, <2>1
<1>4. CASE qb - qa >= 1
  <2>1. L * (qb - qa) >= L
    BY <1>1, <1>4
  <2>. QED BY <1>2, <2>1
<1>. QED BY <1>1, <1>3, <1>4

-----------------------------------------------------------------------------
(* 32-bit positions on the ring.                                           *)

LEMMA PositionFacts ==
  ASSUME NEW r \in Indices, NEW w \in Indices
  PROVE  /\ Next32(r) \in Indices
         /\ Distance(r, w) \in 0 .. IndexModulus - 1
         /\ Distance(r, w) = 0 <=> r = w
         /\ Plus(r, Distance(r, w)) = w
         /\ Distance(r, w) < IndexModulus - 1
              => Distance(r, Next32(w)) = Distance(r, w) + 1
         /\ Distance(r, w) > 0
              => Distance(Next32(r), w) = Distance(r, w) - 1
BY RxQueueAssumption DEF Indices, Next32, Distance, Plus

LEMMA PlusFacts ==
  ASSUME NEW r \in Indices, NEW k \in 0 .. QueueLength - 1
  PROVE  /\ Plus(r, k) \in Indices
         /\ Plus(r, 0) = r
         /\ Plus(Next32(r), k) = Plus(r, k + 1)
         /\ SlotOf(Plus(r, k)) \in Slots
         /\ SlotOf(Plus(r, k)) = (r + k) % QueueLength
<1>1. Plus(r, k) \in Indices /\ Plus(r, 0) = r
  BY RxQueueAssumption DEF Indices, Plus
<1>2. Plus(Next32(r), k) = Plus(r, k + 1)
  BY RxQueueAssumption DEF Indices, Plus, Next32
<1>3. SlotOf(Plus(r, k)) \in Slots
  <2>1. Plus(r, k) \in Int /\ QueueLength \in Nat \ {0}
    BY <1>1, RxQueueAssumption DEF Indices
  <2>. HIDE DEF Plus
  <2>. QED BY <2>1, DivMod DEF SlotOf, Slots
<1>4. SlotOf(Plus(r, k)) = (r + k) % QueueLength
  <2>. DEFINE a == r + k
  <2>1. /\ a \in Int /\ IndexModulus \in Int
        /\ QueueLength \in Nat \ {0} /\ IndexModulus % QueueLength = 0
    BY RxQueueAssumption DEF Indices
  <2>. HIDE DEF a
  <2>2. (a - IndexModulus) % QueueLength = a % QueueLength
    BY <2>1, RemainderOfShift
  <2>3. Plus(r, k) = a \/ Plus(r, k) = a - IndexModulus
    BY RxQueueAssumption DEF Plus, Indices, a
  <2>4. SlotOf(Plus(r, k)) = a % QueueLength
    <3>. HIDE DEF Plus
    <3>. QED BY <2>2, <2>3 DEF SlotOf
  <2>. QED BY <2>4 DEF a
<1>. QED BY <1>1, <1>2, <1>3, <1>4

(* Within one round of the ring, different positions are different slots.  *)
LEMMA SlotsDiffer ==
  ASSUME NEW r \in Indices,
         NEW j \in 0 .. QueueLength - 1, NEW k \in 0 .. QueueLength - 1, j # k
  PROVE  SlotOf(Plus(r, j)) # SlotOf(Plus(r, k))
<1>1. /\ SlotOf(Plus(r, j)) = (r + j) % QueueLength
      /\ SlotOf(Plus(r, k)) = (r + k) % QueueLength
  BY PlusFacts
<1>2. r + j \in Int /\ r + k \in Int /\ QueueLength \in Nat \ {0}
  BY RxQueueAssumption DEF Indices
<1>3. CASE j < k
  <2>1. r + j < r + k /\ r + k < r + j + QueueLength
    BY <1>2, <1>3 DEF Indices
  <2>. QED BY <1>1, <1>2, <2>1, RemaindersDiffer
<1>4. CASE k < j
  <2>1. r + k < r + j /\ r + j < r + k + QueueLength
    BY <1>2, <1>4 DEF Indices
  <2>. QED BY <1>1, <1>2, <2>1, RemaindersDiffer
<1>. QED BY <1>3, <1>4

-----------------------------------------------------------------------------
(* The slots of the published entries and the slot being filled.           *)

LEMMA RingFacts ==
  ASSUME RingTypeOK, NeverOverfull
  PROVE  /\ Occupancy \in 0 .. QueueLength
         /\ SlotOf(readIndex) \in Slots
         /\ SlotOf(writeIndex) \in Slots
         /\ Occupancy = 0 <=> readIndex = writeIndex
         /\ \A k \in 0 .. Occupancy - 1 : PublishedSlot(k) \in Slots
         /\ PublishedSlot(0) = SlotOf(readIndex)
         /\ Occupancy < QueueLength => PublishedSlot(Occupancy) = SlotOf(writeIndex)
         /\ Occupancy < QueueLength =>
              \A k \in 0 .. Occupancy - 1 : PublishedSlot(k) # SlotOf(writeIndex)
<1>1. /\ Occupancy \in 0 .. IndexModulus - 1
      /\ Occupancy = 0 <=> readIndex = writeIndex
      /\ Plus(readIndex, Occupancy) = writeIndex
  BY PositionFacts DEF RingTypeOK, Occupancy
<1>2. Occupancy \in 0 .. QueueLength
  BY <1>1, RxQueueAssumption DEF NeverOverfull
<1>3. readIndex \in Indices /\ writeIndex \in Indices /\ QueueLength \in Nat \ {0}
  BY RxQueueAssumption DEF RingTypeOK
<1>4. SlotOf(readIndex) \in Slots /\ SlotOf(writeIndex) \in Slots
  <2>1. /\ SlotOf(Plus(readIndex, 0)) \in Slots /\ Plus(readIndex, 0) = readIndex
        /\ SlotOf(Plus(writeIndex, 0)) \in Slots /\ Plus(writeIndex, 0) = writeIndex
    BY <1>3, PlusFacts
  <2>. QED BY <2>1
<1>5. \A k \in 0 .. Occupancy - 1 : PublishedSlot(k) \in Slots
  BY <1>2, <1>3, PlusFacts DEF PublishedSlot
<1>6. PublishedSlot(0) = SlotOf(readIndex)
  BY <1>3, PlusFacts DEF PublishedSlot
<1>7. Occupancy < QueueLength => PublishedSlot(Occupancy) = SlotOf(writeIndex)
  BY <1>1 DEF PublishedSlot
<1>8. Occupancy < QueueLength =>
        \A k \in 0 .. Occupancy - 1 : PublishedSlot(k) # PublishedSlot(Occupancy)
  BY <1>2, <1>3, SlotsDiffer DEF PublishedSlot
<1>. QED BY <1>1, <1>2, <1>4, <1>5, <1>6, <1>7, <1>8
-----------------------------------------------------------------------------
(* The inductive invariant, one lemma for each group of actions.           *)

LEMMA InitRing == RingInit => RingInv
<1>. SUFFICES ASSUME RingInit PROVE RingInv
  OBVIOUS
<1>1. Occupancy = 0
  BY DEF RingInit, Occupancy, Distance
<1>2. RingTypeOK
  BY RxQueueAssumption DEF RingInit, RingTypeOK, Entry, Whole, Slots, Indices
<1>3. NeverOverfull /\ PublishedEntriesWhole
  BY <1>1, RxQueueAssumption DEF NeverOverfull, PublishedEntriesWhole
<1>4. FillingInv /\ CopyingInv /\ DeliveredWhole
  BY DEF RingInit, FillingInv, CopyingInv, DeliveredWhole
<1>. QED BY <1>2, <1>3, <1>4 DEF RingInv

LEMMA CountersRing ==
  ASSUME RingInv, NEW c \in Captures, CommitMalformed(c) \/ CommitOverflow(c)
  PROVE  RingInv'
<1>1. UNCHANGED <<frames, writeIndex, readIndex, commitVars, receiveVars>>
  BY DEF CommitMalformed, CommitOverflow
<1>2. RingTypeOK'
  <2>1. /\ overflowCount' \in 0 .. CounterModulus - 1
        /\ malformedCount' \in 0 .. CounterModulus - 1
    <3>1. \A n \in Int : (n % CounterModulus) \in 0 .. CounterModulus - 1
      BY DivMod, RxQueueAssumption
    <3>. QED BY <3>1 DEF CommitMalformed, CommitOverflow, RingInv, RingTypeOK
  <2>2. UNCHANGED <<receivedCount, maxOccupancy>>
    BY DEF CommitMalformed, CommitOverflow
  <2>. QED BY <1>1, <2>1, <2>2 DEF RingInv, RingTypeOK, commitVars, receiveVars
<1>. QED
  BY <1>1, <1>2
     DEF RingInv, commitVars, receiveVars, NeverOverfull, Occupancy, PublishedEntriesWhole,
         PublishedSlot, FillingInv, CopyingInv, DeliveredWhole

LEMMA BeginRing ==
  ASSUME RingInv, NEW c \in Captures, CommitBegin(c)
  PROVE  RingInv'
<1>1. Occupancy \in 0 .. QueueLength
  BY RingFacts DEF RingInv
<1>2. RingTypeOK'
  BY <1>1, RxQueueAssumption DEF RingInv, RingTypeOK, CommitBegin, receiveVars, counters
<1>3. FillingInv'
  BY DEF RingInv, CommitBegin, FillingInv, Occupancy
<1>. QED
  BY <1>2, <1>3
     DEF RingInv, CommitBegin, receiveVars, NeverOverfull, Occupancy, PublishedEntriesWhole,
         PublishedSlot, CopyingInv, DeliveredWhole

LEMMA StoreRing ==
  ASSUME RingInv, StoreGroupCount \/ StoreGroups \/ StoreAck
  PROVE  RingInv'
<1>. DEFINE s == SlotOf(writeIndex)
<1>1. /\ Occupancy < QueueLength
      /\ s \in Slots
      /\ Occupancy \in 0 .. QueueLength
      /\ \A k \in 0 .. Occupancy - 1 : PublishedSlot(k) \in Slots /\ PublishedSlot(k) # s
      /\ PublishedSlot(0) = SlotOf(readIndex)
      /\ lpCapture \in WellFormed
  <2>1. commitPc \in {"groupCount", "groups", "ack"}
    BY DEF StoreGroupCount, StoreGroups, StoreAck, Store
  <2>. QED BY <2>1, RingFacts DEF RingInv, FillingInv
<1>. HIDE DEF s
<1>2. /\ frames \in [Slots -> Entry]
      /\ UNCHANGED <<writeIndex, readIndex, counters, lpCapture, lpOccupancy, receiveVars>>
  BY DEF RingInv, RingTypeOK, StoreGroupCount, StoreGroups, StoreAck, Store
<1>3. /\ frames' \in [Slots -> Entry]
      /\ \A t \in Slots : t # s => frames'[t] = frames[t]
  <2>1. \E f \in {"groupCount", "groups", "ack"} :
          frames' = [frames EXCEPT ![s][f] = lpCapture]
    BY DEF StoreGroupCount, StoreGroups, StoreAck, Store, s
  <2>2. lpCapture \in Captures
    BY <1>1, RxQueueAssumption
  <2>. QED BY <1>1, <1>2, <2>1, <2>2 DEF Entry
<1>4. RingTypeOK'
  BY <1>2, <1>3
     DEF RingInv, RingTypeOK, StoreGroupCount, StoreGroups, StoreAck, Store, receiveVars, counters
<1>5. NeverOverfull'
  BY <1>2 DEF RingInv, NeverOverfull, Occupancy
<1>6. \A k \in 0 .. Occupancy - 1 : frames'[PublishedSlot(k)] = frames[PublishedSlot(k)]
  BY <1>1, <1>3
<1>7. PublishedEntriesWhole'
  BY <1>2, <1>6 DEF RingInv, PublishedEntriesWhole, Occupancy, PublishedSlot
<1>8. FillingInv'
  <2>1. CASE StoreGroupCount
    BY <1>1, <1>2, <2>1
       DEF RingInv, FillingInv, StoreGroupCount, Store, Occupancy, Entry, s
  <2>2. CASE StoreGroups
    BY <1>1, <1>2, <2>2
       DEF RingInv, FillingInv, StoreGroups, Store, Occupancy, Entry, s
  <2>3. CASE StoreAck
    BY <1>1, <1>2, <2>3
       DEF RingInv, FillingInv, StoreAck, Store, Occupancy, Entry, s
  <2>. QED BY <2>1, <2>2, <2>3
<1>9. CopyingInv'
  <2>1. CASE receivePc = "poll"
    BY <1>2, <2>1 DEF CopyingInv, receiveVars
  <2>2. CASE receivePc # "poll"
    <3>1. Occupancy > 0
      BY <2>2 DEF RingInv, CopyingInv
    <3>2. frames'[SlotOf(readIndex)] = frames[SlotOf(readIndex)]
      BY <1>1, <1>6, <3>1
    <3>. QED BY <1>2, <3>1, <3>2 DEF RingInv, CopyingInv, receiveVars, Occupancy
  <2>. QED BY <2>1, <2>2
<1>10. DeliveredWhole'
  BY <1>2 DEF RingInv, DeliveredWhole, receiveVars
<1>. QED BY <1>4, <1>5, <1>7, <1>8, <1>9, <1>10 DEF RingInv

LEMMA PublishRing ==
  ASSUME RingInv, PublishEntry
  PROVE  RingInv'
<1>1. /\ Occupancy < QueueLength
      /\ Occupancy \in 0 .. QueueLength
      /\ PublishedSlot(Occupancy) = SlotOf(writeIndex)
      /\ SlotOf(writeIndex) \in Slots
      /\ lpCapture \in WellFormed
      /\ frames[SlotOf(writeIndex)] \in Entry
  BY RingFacts DEF RingInv, FillingInv, PublishEntry, RingTypeOK
<1>2. Occupancy' = Occupancy + 1 /\ writeIndex' \in Indices
  BY <1>1, PositionFacts, RxQueueAssumption DEF PublishEntry, Occupancy, RingInv, RingTypeOK
<1>3. RingTypeOK'
  BY <1>2 DEF RingInv, RingTypeOK, PublishEntry, receiveVars, counters
<1>4. NeverOverfull'
  BY <1>1, <1>2, RxQueueAssumption DEF NeverOverfull, PublishEntry
<1>5. frames[PublishedSlot(Occupancy)] = Whole(lpCapture)
  BY <1>1 DEF RingInv, FillingInv, PublishEntry, Entry, Whole
<1>6. PublishedEntriesWhole'
  <2>1. \A k \in 0 .. Occupancy : \E c \in WellFormed : frames[PublishedSlot(k)] = Whole(c)
    BY <1>1, <1>5 DEF RingInv, PublishedEntriesWhole
  <2>. QED BY <1>1, <1>2, <2>1 DEF PublishedEntriesWhole, PublishedSlot, PublishEntry
<1>7. FillingInv'
  BY DEF PublishEntry, FillingInv
<1>8. CopyingInv'
  BY <1>1, <1>2 DEF RingInv, CopyingInv, PublishEntry, receiveVars
<1>9. DeliveredWhole'
  BY DEF RingInv, DeliveredWhole, PublishEntry, receiveVars
<1>. QED BY <1>3, <1>4, <1>6, <1>7, <1>8, <1>9 DEF RingInv

LEMMA AccountRing ==
  ASSUME RingInv, Account
  PROVE  RingInv'
<1>1. receivedCount' \in Indices
  BY PositionFacts DEF RingInv, RingTypeOK, Account
<1>2. maxOccupancy' \in 0 .. QueueLength
  BY RxQueueAssumption DEF RingInv, RingTypeOK, Account
<1>3. RingTypeOK'
  BY <1>1, <1>2, RxQueueAssumption DEF RingInv, RingTypeOK, Account, receiveVars
<1>. QED
  BY <1>3
     DEF RingInv, Account, receiveVars, NeverOverfull, Occupancy, PublishedEntriesWhole,
         PublishedSlot, FillingInv, CopyingInv, DeliveredWhole

LEMMA CopyRing ==
  ASSUME RingInv, PollNotEmpty \/ CopyGroupCount \/ CopyGroups \/ CopyAck
  PROVE  RingInv'
<1>1. UNCHANGED <<frames, writeIndex, readIndex, counters, commitVars, delivered>>
  BY DEF PollNotEmpty, CopyGroupCount, CopyGroups, CopyAck, Copy
<1>2. /\ Occupancy \in 0 .. QueueLength
      /\ Occupancy = 0 <=> readIndex = writeIndex
      /\ SlotOf(readIndex) \in Slots
      /\ PublishedSlot(0) = SlotOf(readIndex)
  BY RingFacts DEF RingInv
<1>3. Occupancy > 0
  BY <1>2 DEF RingInv, CopyingInv, PollNotEmpty, CopyGroupCount, CopyGroups, CopyAck, Copy
<1>4. PICK c \in WellFormed : frames[SlotOf(readIndex)] = Whole(c)
  BY <1>2, <1>3 DEF RingInv, PublishedEntriesWhole
<1>5. frames[SlotOf(readIndex)] \in Entry /\ hpCopy \in Entry
  BY <1>2 DEF RingInv, RingTypeOK
<1>6. hpCopy' \in Entry /\ receivePc' \in {"groupCount", "groups", "ack", "release"}
  BY <1>4, <1>5 DEF PollNotEmpty, CopyGroupCount, CopyGroups, CopyAck, Copy, Entry, Whole
<1>7. RingTypeOK'
  BY <1>1, <1>6 DEF RingInv, RingTypeOK, commitVars, counters
<1>8. CopyingInv'
  <2>1. CASE PollNotEmpty
    BY <1>1, <1>3, <2>1 DEF CopyingInv, PollNotEmpty, Occupancy
  <2>2. CASE CopyGroupCount
    BY <1>1, <1>3, <1>4, <1>5, <2>2
       DEF CopyingInv, CopyGroupCount, Occupancy, Entry, Whole
  <2>3. CASE CopyGroups
    BY <1>1, <1>3, <1>5, <2>3 DEF RingInv, CopyingInv, CopyGroups, Copy, Occupancy, Entry
  <2>4. CASE CopyAck
    BY <1>1, <1>3, <1>5, <2>4 DEF RingInv, CopyingInv, CopyAck, Copy, Occupancy, Entry
  <2>. QED BY <2>1, <2>2, <2>3, <2>4
<1>9. DeliveredWhole'
  BY <1>1, <1>6 DEF RingInv, DeliveredWhole
<1>. QED
  BY <1>1, <1>7, <1>8, <1>9
     DEF RingInv, commitVars, NeverOverfull, Occupancy, PublishedEntriesWhole,
         PublishedSlot, FillingInv

LEMMA ReleaseRing ==
  ASSUME RingInv, Release
  PROVE  RingInv'
<1>1. /\ Occupancy \in 0 .. QueueLength
      /\ Occupancy > 0
      /\ PublishedSlot(0) = SlotOf(readIndex)
      /\ readIndex \in Indices
      /\ writeIndex \in Indices
  BY RingFacts DEF RingInv, CopyingInv, Release, RingTypeOK
<1>2. Occupancy' = Occupancy - 1 /\ readIndex' \in Indices
  BY <1>1, PositionFacts DEF Release, Occupancy
<1>3. PICK c \in WellFormed : frames[SlotOf(readIndex)] = Whole(c)
  BY <1>1 DEF RingInv, PublishedEntriesWhole
<1>4. delivered' = Whole(c)
  BY <1>3 DEF RingInv, CopyingInv, DeliveredWhole, Release, RingTypeOK, Entry, Whole
<1>5. Whole(c) \in Entry /\ Whole(NoCapture) \in Entry
  BY RxQueueAssumption DEF Whole, Entry
<1>6. RingTypeOK'
  BY <1>2, <1>4, <1>5 DEF RingInv, RingTypeOK, Release, commitVars, counters
<1>7. NeverOverfull'
  BY <1>1, <1>2, RxQueueAssumption DEF NeverOverfull
<1>8. PublishedEntriesWhole'
  <2>1. \A k \in 0 .. Occupancy' - 1 : PublishedSlot(k)' = PublishedSlot(k + 1)
    <3>. SUFFICES ASSUME NEW k \in 0 .. Occupancy' - 1
                  PROVE  PublishedSlot(k)' = PublishedSlot(k + 1)
      OBVIOUS
    <3>1. k \in 0 .. QueueLength - 1
      BY <1>1, <1>2, RxQueueAssumption
    <3>2. Plus(Next32(readIndex), k) = Plus(readIndex, k + 1)
      BY <1>1, <3>1, PlusFacts
    <3>. QED BY <3>2 DEF PublishedSlot, Release, Plus
  <2>2. \A k \in 0 .. Occupancy' - 1 : k + 1 \in 0 .. Occupancy - 1
    BY <1>1, <1>2
  <2>3. \A k \in 0 .. Occupancy' - 1 :
          \E d \in WellFormed : frames[PublishedSlot(k + 1)] = Whole(d)
    BY <2>2 DEF RingInv, PublishedEntriesWhole
  <2>. QED BY <2>1, <2>3 DEF PublishedEntriesWhole, Release
<1>9. FillingInv'
  BY <1>1, <1>2, RxQueueAssumption DEF RingInv, FillingInv, Release, commitVars
<1>10. CopyingInv'
  BY DEF CopyingInv, Release
<1>11. DeliveredWhole'
  BY <1>4 DEF DeliveredWhole, Release
<1>. QED BY <1>6, <1>7, <1>8, <1>9, <1>10, <1>11 DEF RingInv

(* Every reachable state of the ring satisfies the inductive invariant: in *)
(* particular no published entry is ever torn, the LP core fills only free *)
(* entries, and the HP task delivers whole captures.                       *)
THEOREM RingCorrect == RingSpec => []RingInv
<1>1. RingInit => RingInv
  BY InitRing
<1>2. RingInv /\ [RingNext]_ringVars => RingInv'
  <2>. SUFFICES ASSUME RingInv, [RingNext]_ringVars PROVE RingInv'
    OBVIOUS
  <2>1. CASE CommitStep
    BY <2>1, CountersRing, BeginRing, StoreRing, PublishRing, AccountRing DEF CommitStep
  <2>2. CASE ReceiveStep
    BY <2>2, CopyRing, ReleaseRing DEF ReceiveStep
  <2>3. CASE UNCHANGED ringVars
    BY <2>3
       DEF ringVars, commitVars, receiveVars, counters, RingInv, RingTypeOK, NeverOverfull,
           Occupancy, PublishedEntriesWhole, PublishedSlot, FillingInv, CopyingInv, DeliveredWhole
  <2>. QED BY <2>1, <2>2, <2>3 DEF RingNext
<1>. QED BY <1>1, <1>2, PTL DEF RingSpec
-----------------------------------------------------------------------------
(* Refinement: the ring is the bounded drop-newest queue.                  *)

FrameValues == {Whole(c) : c \in WellFormed}

LEMMA ContentsFacts ==
  ASSUME RingInv
  PROVE  /\ Contents \in Seq(FrameValues)
         /\ Len(Contents) = Occupancy
         /\ \A k \in 1 .. Occupancy : Contents[k] = frames[PublishedSlot(k - 1)]
         /\ Contents = <<>> <=> Occupancy = 0
<1>1. Occupancy \in Nat
  BY RingFacts, RxQueueAssumption DEF RingInv
<1>2. Contents \in [1 .. Occupancy -> FrameValues]
  <2>1. \A k \in 1 .. Occupancy : frames[PublishedSlot(k - 1)] \in FrameValues
    <3>1. \A k \in 1 .. Occupancy : k - 1 \in 0 .. Occupancy - 1
      BY <1>1
    <3>. QED BY <3>1 DEF RingInv, PublishedEntriesWhole, FrameValues
  <2>. QED BY <2>1 DEF Contents
<1>3. Contents \in Seq(FrameValues)
  BY <1>1, <1>2, SeqDef
<1>4. Len(Contents) = Occupancy
  BY <1>1, <1>2, <1>3, LenProperties
<1>5. Contents = <<>> <=> Occupancy = 0
  BY <1>1, <1>3, <1>4, EmptySeq
<1>. QED BY <1>3, <1>4, <1>5 DEF Contents

(* A step that leaves the published entries and the indices alone is not   *)
(* seen by the abstract queue.                                             *)
LEMMA ContentsUnchanged ==
  ASSUME RingInv, UNCHANGED <<writeIndex, readIndex>>,
         \A k \in 0 .. Occupancy - 1 : frames'[PublishedSlot(k)] = frames[PublishedSlot(k)]
  PROVE  Contents' = Contents
<1>1. Occupancy \in Nat /\ Occupancy' = Occupancy
  BY RingFacts, RxQueueAssumption DEF RingInv, Occupancy
<1>2. \A k \in 1 .. Occupancy : k - 1 \in 0 .. Occupancy - 1
  BY <1>1
<1>3. \A k \in 1 .. Occupancy : frames'[PublishedSlot(k - 1)] = frames[PublishedSlot(k - 1)]
  BY <1>2
<1>. QED BY <1>1, <1>3 DEF Contents, PublishedSlot

(* Every step of the ring is a step of the abstract queue or a stutter.    *)
LEMMA RingStepRefines ==
  ASSUME RingInv, RingInv', [RingNext]_ringVars
  PROVE  [Fifo!Next]_(Fifo!vars)
<1>. USE DEF Fifo!vars
<1>1. /\ Occupancy \in 0 .. QueueLength
      /\ Occupancy < QueueLength => PublishedSlot(Occupancy) = SlotOf(writeIndex)
      /\ Occupancy < QueueLength =>
           \A k \in 0 .. Occupancy - 1 : PublishedSlot(k) # SlotOf(writeIndex)
      /\ \A k \in 0 .. Occupancy - 1 : PublishedSlot(k) \in Slots
      /\ SlotOf(writeIndex) \in Slots
      /\ PublishedSlot(0) = SlotOf(readIndex)
      /\ frames \in [Slots -> Entry]
      /\ readIndex \in Indices /\ writeIndex \in Indices
  BY RingFacts DEF RingInv, RingTypeOK
<1>2. ASSUME UNCHANGED <<frames, writeIndex, readIndex, overflowCount, delivered>>
      PROVE  UNCHANGED <<Contents, delivered, overflowCount>>
  BY <1>2, ContentsUnchanged
<1>3. ASSUME NEW c \in Captures, CommitOverflow(c)
      PROVE  Fifo!DropNewest
  <2>1. Contents' = Contents
    BY <1>3, ContentsUnchanged DEF CommitOverflow
  <2>2. Len(Contents) = QueueLength
    BY <1>1, <1>3, ContentsFacts, RxQueueAssumption DEF CommitOverflow
  <2>. QED BY <1>3, <2>1, <2>2 DEF CommitOverflow, receiveVars, Fifo!DropNewest
<1>4. ASSUME StoreGroupCount \/ StoreGroups \/ StoreAck
      PROVE  UNCHANGED <<Contents, delivered, overflowCount>>
  <2>1. Occupancy < QueueLength
    BY <1>4 DEF RingInv, FillingInv, StoreGroupCount, StoreGroups, StoreAck, Store
  <2>2. \A t \in Slots : t # SlotOf(writeIndex) => frames'[t] = frames[t]
    BY <1>1, <1>4 DEF StoreGroupCount, StoreGroups, StoreAck, Store
  <2>3. Contents' = Contents
    BY <1>1, <1>4, <2>1, <2>2, ContentsUnchanged
       DEF StoreGroupCount, StoreGroups, StoreAck, Store
  <2>. QED
    BY <1>4, <2>3 DEF StoreGroupCount, StoreGroups, StoreAck, Store, receiveVars, counters
<1>5. ASSUME PublishEntry
      PROVE  \E v \in FrameValues : Fifo!Put(v)
  <2>. DEFINE v == Whole(lpCapture)
  <2>1. /\ Occupancy < QueueLength
        /\ frames[SlotOf(writeIndex)] = v
        /\ v \in FrameValues
    BY <1>1, <1>5 DEF RingInv, FillingInv, PublishEntry, Entry, Whole, FrameValues
  <2>2. Occupancy' = Occupancy + 1
    <3>1. Occupancy < IndexModulus - 1
      BY <1>1, <2>1, RxQueueAssumption
    <3>. QED BY <1>1, <1>5, <3>1, PositionFacts DEF PublishEntry, Occupancy
  <2>3. /\ Contents \in Seq(FrameValues) /\ Len(Contents) = Occupancy
        /\ \A k \in 1 .. Occupancy : Contents[k] = frames[PublishedSlot(k - 1)]
    BY ContentsFacts
  <2>. HIDE DEF v
  <2>. DEFINE appended == Append(Contents, v)
  <2>4. /\ appended \in [1 .. Occupancy + 1 -> FrameValues]
        /\ \A k \in 1 .. Occupancy : appended[k] = Contents[k]
        /\ appended[Occupancy + 1] = v
    <3>1. /\ appended \in Seq(FrameValues) /\ Len(appended) = Occupancy + 1
          /\ \A k \in 1 .. Occupancy : appended[k] = Contents[k]
          /\ appended[Occupancy + 1] = v
      BY <2>1, <2>3, AppendProperties
    <3>. HIDE DEF appended
    <3>. QED BY <3>1, LenProperties
  <2>5. Contents' = [k \in 1 .. Occupancy + 1 |-> frames[PublishedSlot(k - 1)]]
    BY <1>5, <2>2 DEF Contents, PublishedSlot, PublishEntry
  <2>6. frames[PublishedSlot((Occupancy + 1) - 1)] = v
    <3>1. (Occupancy + 1) - 1 = Occupancy
      BY <1>1
    <3>. QED BY <1>1, <2>1, <3>1
  <2>7. \A k \in 1 .. Occupancy + 1 : k = Occupancy + 1 \/ k \in 1 .. Occupancy
    BY <1>1
  <2>8. Contents' = appended
    <3>. HIDE DEF appended
    <3>1. \A k \in 1 .. Occupancy + 1 : appended[k] = frames[PublishedSlot(k - 1)]
      BY <2>3, <2>4, <2>6, <2>7
    <3>2. appended = [k \in 1 .. Occupancy + 1 |-> appended[k]]
      BY <2>4
    <3>. QED BY <2>5, <3>1, <3>2
  <2>. QED BY <1>5, <2>1, <2>3, <2>8 DEF Fifo!Put, PublishEntry, receiveVars, counters
<1>6. ASSUME Release
      PROVE  Fifo!Get
  <2>1. Occupancy > 0 /\ receivePc = "release"
    BY <1>6 DEF RingInv, CopyingInv, DeliveredWhole, Release
  <2>2. Occupancy' = Occupancy - 1
    BY <1>1, <1>6, <2>1, PositionFacts DEF Release, Occupancy
  <2>3. /\ Contents \in Seq(FrameValues) /\ Len(Contents) = Occupancy
        /\ \A k \in 1 .. Occupancy : Contents[k] = frames[PublishedSlot(k - 1)]
        /\ Contents # <<>>
    BY <1>1, <2>1, ContentsFacts
  <2>4. Head(Contents) = delivered'
    <3>1. Head(Contents) = frames[SlotOf(readIndex)]
      BY <1>1, <2>1, <2>3
    <3>2. hpCopy = frames[SlotOf(readIndex)]
      <4>1. PublishedSlot(0) \in Slots
        BY <1>1, <2>1
      <4>2. hpCopy \in Entry /\ frames[SlotOf(readIndex)] \in Entry
        BY <1>1, <4>1 DEF RingInv, RingTypeOK
      <4>. QED BY <2>1, <4>2 DEF RingInv, CopyingInv, Entry
    <3>. QED BY <1>6, <2>1, <3>1, <3>2 DEF Release
  <2>5. \A k \in 1 .. Occupancy - 1 : PublishedSlot(k - 1)' = PublishedSlot(k)
    <3>. SUFFICES ASSUME NEW k \in 1 .. Occupancy - 1
                  PROVE  PublishedSlot(k - 1)' = PublishedSlot(k)
      OBVIOUS
    <3>1. k - 1 \in 0 .. QueueLength - 1 /\ (k - 1) + 1 = k
      BY <1>1, RxQueueAssumption
    <3>2. Plus(Next32(readIndex), k - 1) = Plus(readIndex, k)
      BY <1>1, <3>1, PlusFacts
    <3>. QED BY <1>6, <3>2 DEF PublishedSlot, Release, Plus
  <2>6. Contents' = [k \in 1 .. Occupancy - 1 |-> frames[PublishedSlot(k)]]
    BY <1>6, <2>2, <2>5 DEF Contents, Release
  <2>. DEFINE rest == Tail(Contents)
  <2>7. rest = [k \in 1 .. Occupancy - 1 |-> Contents[k + 1]]
    <3>1. /\ rest \in Seq(FrameValues) /\ Len(rest) = Occupancy - 1
          /\ \A k \in 1 .. Occupancy - 1 : rest[k] = Contents[k + 1]
      BY <2>3, HeadTailProperties
    <3>. HIDE DEF rest
    <3>2. rest \in [1 .. Occupancy - 1 -> FrameValues]
      BY <3>1, LenProperties
    <3>. QED BY <3>1, <3>2
  <2>8. \A k \in 1 .. Occupancy - 1 : Contents[k + 1] = frames[PublishedSlot(k)]
    <3>1. \A k \in 1 .. Occupancy - 1 : k + 1 \in 1 .. Occupancy /\ (k + 1) - 1 = k
      BY <1>1
    <3>. QED BY <2>3, <3>1
  <2>9. Contents' = Tail(Contents)
    BY <2>6, <2>7, <2>8
  <2>. QED BY <1>6, <2>3, <2>4, <2>9 DEF Fifo!Get, Release, counters
<1>7. CASE CommitStep
  <2>1. ASSUME NEW c \in Captures, CommitMalformed(c) \/ CommitBegin(c)
        PROVE  UNCHANGED <<Contents, delivered, overflowCount>>
    BY <1>2, <2>1 DEF CommitMalformed, CommitBegin, receiveVars, counters
  <2>2. ASSUME Account
        PROVE  UNCHANGED <<Contents, delivered, overflowCount>>
    BY <1>2, <2>2 DEF Account, receiveVars
  <2>. QED BY <1>3, <1>4, <1>5, <1>7, <2>1, <2>2 DEF CommitStep, Fifo!Next, FrameValues
<1>8. CASE ReceiveStep
  <2>1. ASSUME PollNotEmpty \/ CopyGroupCount \/ CopyGroups \/ CopyAck
        PROVE  UNCHANGED <<Contents, delivered, overflowCount>>
    BY <1>2, <2>1 DEF PollNotEmpty, CopyGroupCount, CopyGroups, CopyAck, Copy, counters
  <2>. QED BY <1>6, <1>8, <2>1 DEF ReceiveStep, Fifo!Next
<1>9. CASE UNCHANGED ringVars
  BY <1>2, <1>9 DEF ringVars, counters, receiveVars
<1>. QED BY <1>7, <1>8, <1>9 DEF RingNext

(* The two cores together implement a bounded first-in first-out queue     *)
(* that drops only the newest frame and only when it is full.              *)
THEOREM RingImplementsFifo == RingSpec => ImplementsFifo
<1>1. RingInit => Fifo!Init
  <2>. SUFFICES ASSUME RingInit PROVE Fifo!Init
    OBVIOUS
  <2>1. Occupancy = 0
    BY DEF RingInit, Occupancy, Distance
  <2>2. Contents = <<>>
    BY <2>1 DEF Contents
  <2>. QED BY <2>2 DEF RingInit, Fifo!Init
<1>2. RingInv /\ RingInv' /\ [RingNext]_ringVars => [Fifo!Next]_(Fifo!vars)
  BY RingStepRefines
<1>. QED BY <1>1, <1>2, RingCorrect, PTL DEF RingSpec, ImplementsFifo, Fifo!Spec

(* The entry under the reader's hands does not change, whatever the LP     *)
(* core does meanwhile.                                                    *)
THEOREM ReaderUndisturbed == RingSpec => NoStoreUnderReader
<1>1. RingInv /\ [RingNext]_ringVars
        => [receivePc # "poll" => frames'[SlotOf(readIndex)] = frames[SlotOf(readIndex)]]_ringVars
  <2>. SUFFICES ASSUME RingInv, [RingNext]_ringVars, receivePc # "poll"
                PROVE  frames'[SlotOf(readIndex)] = frames[SlotOf(readIndex)]
    OBVIOUS
  <2>1. CASE StoreGroupCount \/ StoreGroups \/ StoreAck
    <3>1. Occupancy < QueueLength /\ Occupancy > 0
      BY <2>1
         DEF RingInv, FillingInv, CopyingInv, StoreGroupCount, StoreGroups, StoreAck, Store
    <3>2. /\ SlotOf(readIndex) \in Slots /\ SlotOf(readIndex) # SlotOf(writeIndex)
          /\ frames \in [Slots -> Entry]
      <4>1. /\ Occupancy \in 0 .. QueueLength
            /\ \A k \in 0 .. Occupancy - 1 : PublishedSlot(k) # SlotOf(writeIndex)
            /\ PublishedSlot(0) = SlotOf(readIndex)
            /\ SlotOf(readIndex) \in Slots
        BY <3>1, RingFacts DEF RingInv
      <4>. QED BY <3>1, <4>1 DEF RingInv, RingTypeOK
    <3>. QED BY <2>1, <3>2 DEF StoreGroupCount, StoreGroups, StoreAck, Store
  <2>2. CASE UNCHANGED frames
    BY <2>2
  <2>3. frames' = frames \/ StoreGroupCount \/ StoreGroups \/ StoreAck
    BY DEF RingNext, CommitStep, ReceiveStep, CommitMalformed, CommitOverflow, CommitBegin,
           PublishEntry, Account, PollNotEmpty, CopyGroupCount, CopyGroups, CopyAck, Copy,
           Release, ringVars
  <2>. QED BY <2>1, <2>2, <2>3
<1>. QED BY <1>1, RingCorrect, PTL DEF RingSpec, NoStoreUnderReader
=============================================================================
