------------------------ MODULE MessageSchedulerProofs ------------------------
(***************************************************************************)
(* ScheduleInv holds for every list of handlers and whatever their periods *)
(* and offsets.                                                            *)
(***************************************************************************)
EXTENDS MessageScheduler, TLAPS

Entries == [content : 0..MaxVersion, active : BOOLEAN, nextDue : Nat]

(* ScheduleInv is not inductive: Update goes through entries that must     *)
(* still be there when it comes to them.                                   *)
TodoScheduled == \A id \in out.todo : Scheduled(id)

ScheduleIInv == ScheduleInv /\ TodoScheduled

-----------------------------------------------------------------------------
(* Arithmetic of slots.                                                    *)

LEMMA MultiplesOf ==
  ASSUME NEW p \in Nat \ {0}, NEW q \in Int
  PROVE  (p * q) % p = 0
<1> DEFINE d == (p * q) \div p
           r == (p * q) % p
<1>1. d \in Int /\ r \in 0 .. p - 1 /\ p * q = p * d + r
  BY SMT
<1>2. p * (q - d) = r
  BY <1>1
<1>3. CASE q - d >= 1
  <2>1. p * (q - d) >= p BY <1>1, <1>3
  <2> QED BY <1>1, <1>2, <2>1
<1>4. CASE q - d <= -1
  <2>1. p * (q - d) <= -p BY <1>1, <1>4
  <2> QED BY <1>1, <1>2, <2>1
<1>5. CASE q - d = 0
  BY <1>1, <1>2, <1>5
<1> QED
  <2>1. q - d \in Int BY <1>1
  <2> QED BY <2>1, <1>3, <1>4, <1>5

(* SlotAfter stays on the grid of an entry and is the first slot after t.  *)
LEMMA SlotAfterFacts ==
  ASSUME NEW due \in Nat, NEW p \in Nat \ {0}, NEW t \in Nat, due <= t,
         NEW first \in Nat, (due - first) % p = 0
  PROVE  /\ SlotAfter(due, p, t) \in Nat
         /\ t < SlotAfter(due, p, t) /\ SlotAfter(due, p, t) <= t + p
         /\ (SlotAfter(due, p, t) - first) % p = 0
<1> DEFINE k == (t - due) \div p
           m == (due - first) \div p
<1>1. /\ k \in Int /\ m \in Int
      /\ p * k <= t - due /\ t - due < p * k + p
      /\ due - first = p * m
  <2>1. t - due \in Int /\ due - first \in Int OBVIOUS
  <2>2. \A a \in Int : a \div p \in Int /\ a % p \in 0 .. p - 1
                         /\ a = p * (a \div p) + (a % p)
    BY SMT
  <2> QED BY <2>1, <2>2
<1>2. SlotAfter(due, p, t) = due + p * k + p
  BY <1>1 DEF SlotAfter
<1>3. p * k \in Int BY <1>1
<1>4. SlotAfter(due, p, t) - first = p * (m + k + 1)
  BY <1>1, <1>2
<1>5. (p * (m + k + 1)) % p = 0
  BY <1>1, MultiplesOf
<1> QED BY <1>1, <1>2, <1>3, <1>4, <1>5

-----------------------------------------------------------------------------
(* The parts of the invariant.                                             *)

LEMMA InitSchedule == Init => ScheduleIInv
<1> SUFFICES ASSUME Init PROVE ScheduleIInv OBVIOUS
<1>1. Handlers[1] \in Ids /\ 1 \in DOMAIN Handlers
  BY SchedulerAssumption DEF Ids
<1>2. \A id \in Ids : ~Scheduled(id) BY DEF Init, Scheduled
<1>3. TypeOK
  BY <1>1, SchedulerAssumption DEF Init, TypeOK, NoMessage, Message
<1>4. NoPhaseDrift /\ NextSlotInReach /\ TodoScheduled
  BY <1>2 DEF Init, NoPhaseDrift, NextSlotInReach, TodoScheduled
<1> QED BY <1>3, <1>4 DEF ScheduleIInv, ScheduleInv

(* A message in the type of its version.                                   *)
LEMMA GeneratedType ==
  ASSUME TypeOK, NEW id \in Ids, NEW msg \in Generated(id)
  PROVE  msg \in Message
BY DEF Generated, Message, TypeOK

LEMMA CurrentType == TypeOK => Current \in Ids
BY DEF TypeOK, Current, Ids

LEMMA ScheduledType ==
  ASSUME TypeOK, NEW id \in Ids
  PROVE  Scheduled(id) <=> sched[id] \in Entries
BY DEF TypeOK, Scheduled, Absent, Entries

(* AddOrUpdate keeps the slot of an entry it finds and starts that of a    *)
(* new one at its offset.                                                  *)
LEMMA AddOrUpdateKeeps ==
  ASSUME ScheduleIInv, NEW id \in Ids, NEW msg \in Message, AddOrUpdate(id, msg),
         UNCHANGED curTime
  PROVE  /\ sched' \in [Ids -> {Absent} \union Entries]
         /\ firstDue' \in [Ids -> Nat]
         /\ NoPhaseDrift' /\ NextSlotInReach'
         /\ \A i \in Ids : Scheduled(i) => Scheduled(i)'
<1> USE DEF ScheduleIInv, ScheduleInv
<1>1. /\ Offset[id] \in Nat /\ curTime \in Nat /\ Period \in [Ids -> Nat \ {0}]
      /\ sched \in [Ids -> {Absent} \union Entries] /\ firstDue \in [Ids -> Nat]
  <2>1. Offset[id] \in Nat /\ Period \in [Ids -> Nat \ {0}] BY SchedulerAssumption
  <2>2. curTime \in Nat BY SchedulerAssumption DEF TypeOK
  <2>3. sched \in [Ids -> {Absent} \union Entries] /\ firstDue \in [Ids -> Nat]
    BY DEF TypeOK, Entries
  <2> QED BY <2>1, <2>2, <2>3
<1>2. CASE Scheduled(id)
  <2>1. sched[id] \in Entries BY <1>2, ScheduledType
  <2>2. /\ sched' = [sched EXCEPT ![id] = [content |-> msg.content, active |-> msg.active,
                                           nextDue |-> sched[id].nextDue]]
        /\ firstDue' = firstDue
    BY <1>2 DEF AddOrUpdate
  <2>3. sched'[id] \in Entries /\ sched'[id].nextDue = sched[id].nextDue
    BY <1>1, <2>1, <2>2 DEF Message, Entries
  <2>4. \A i \in Ids : i # id => sched'[i] = sched[i]
    BY <1>1, <2>2
  <2>5. sched' \in [Ids -> {Absent} \union Entries]
    BY <1>1, <2>2, <2>3
  <2>6. \A i \in Ids : Scheduled(i)' => Scheduled(i) /\ sched'[i].nextDue = sched[i].nextDue
    BY <1>2, <2>3, <2>4 DEF Scheduled
  <2>7. NoPhaseDrift'
    BY <2>2, <2>6 DEF NoPhaseDrift
  <2>8. NextSlotInReach'
    BY <2>2, <2>6 DEF NextSlotInReach
  <2>9. \A i \in Ids : Scheduled(i) => Scheduled(i)'
    BY <2>3, <2>4 DEF Scheduled, Absent, Entries
  <2> QED BY <1>1, <2>2, <2>5, <2>7, <2>8, <2>9
<1>3. CASE ~Scheduled(id)
  <2> DEFINE first == curTime + Offset[id]
  <2>1. first \in Nat BY <1>1
  <2>2. /\ sched' = [sched EXCEPT ![id] = [content |-> msg.content, active |-> msg.active,
                                           nextDue |-> first]]
        /\ firstDue' = [firstDue EXCEPT ![id] = first]
    BY <1>3 DEF AddOrUpdate
  <2>3. sched'[id] \in Entries /\ sched'[id].nextDue = first /\ firstDue'[id] = first
    BY <1>1, <2>1, <2>2 DEF Message, Entries
  <2>4. \A i \in Ids : i # id => sched'[i] = sched[i] /\ firstDue'[i] = firstDue[i]
    BY <1>1, <2>2
  <2>5. sched' \in [Ids -> {Absent} \union Entries] /\ firstDue' \in [Ids -> Nat]
    BY <1>1, <2>1, <2>2, <2>3
  <2>6. (first - first) % Period[id] = 0
    <3>1. Period[id] \in Nat \ {0} BY <1>1
    <3>2. (Period[id] * 0) % Period[id] = 0 BY <3>1, MultiplesOf
    <3> QED BY <2>1, <3>1, <3>2
  <2>7. NoPhaseDrift'
    <3> SUFFICES ASSUME NEW i \in Ids, Scheduled(i)'
                 PROVE  (sched'[i].nextDue - firstDue'[i]) % Period[i] = 0
      BY DEF NoPhaseDrift
    <3>1. CASE i = id BY <3>1, <2>3, <2>6
    <3>2. CASE i # id BY <3>2, <2>4 DEF NoPhaseDrift, Scheduled
    <3> QED BY <3>1, <3>2
  <2>8. NextSlotInReach'
    <3> SUFFICES ASSUME NEW i \in Ids, Scheduled(i)'
                 PROVE  \/ sched'[i].nextDue <= curTime' + Period[i]
                        \/ /\ sched'[i].nextDue = firstDue'[i]
                           /\ firstDue'[i] <= curTime' + Offset[i]
      BY DEF NextSlotInReach
    <3>1. CASE i = id BY <3>1, <2>1, <2>3
    <3>2. CASE i # id BY <3>2, <2>4 DEF NextSlotInReach, Scheduled
    <3> QED BY <3>1, <3>2
  <2>9. \A i \in Ids : Scheduled(i) => Scheduled(i)'
    BY <2>3, <2>4 DEF Scheduled, Absent, Entries
  <2> QED BY <2>5, <2>7, <2>8, <2>9
<1> QED BY <1>2, <1>3

(* Actions that leave the entries and CurrenTime alone.                    *)
LEMMA QuietKeeps ==
  ASSUME ScheduleIInv, UNCHANGED <<sched, firstDue, curTime>>
  PROVE  NoPhaseDrift' /\ NextSlotInReach' /\ \A i \in Ids : Scheduled(i)' <=> Scheduled(i)
BY DEF ScheduleIInv, ScheduleInv, NoPhaseDrift, NextSlotInReach, Scheduled

(* Tick and Parse count up to their bounds.                                *)
LEMMA EnvironmentKeeps == ScheduleIInv /\ (Tick \/ Parse) => ScheduleIInv'
<1> SUFFICES ASSUME ScheduleIInv, Tick \/ Parse PROVE ScheduleIInv' OBVIOUS
<1> USE DEF ScheduleIInv, ScheduleInv
<1>1. UNCHANGED <<sched, firstDue, curTime, out, rdr, lock, lastSlot, stale>> BY DEF Tick, Parse
<1>2. now' \in 0 .. MaxTime /\ curTime' \in 0 .. now' /\ version' \in 0 .. MaxVersion
  <2>1. /\ MaxTime \in Nat /\ MaxVersion \in Nat
        /\ now \in 0 .. MaxTime /\ curTime \in 0 .. now /\ version \in 0 .. MaxVersion
    BY SchedulerAssumption DEF TypeOK
  <2>2. CASE Tick BY <2>1, <2>2 DEF Tick
  <2>3. CASE Parse BY <2>1, <2>3 DEF Parse
  <2> QED BY <2>2, <2>3
<1>3. TypeOK' BY <1>1, <1>2 DEF TypeOK
<1>4. NoPhaseDrift' /\ NextSlotInReach' /\ TodoScheduled'
  BY <1>1, QuietKeeps DEF TodoScheduled, Scheduled
<1> QED BY <1>3, <1>4

(* The reader task.                                                        *)
LEMMA SignalKeeps == ASSUME ScheduleIInv, NEW id \in SignalIds, Signal(id) PROVE ScheduleIInv'
<1> USE DEF ScheduleIInv, ScheduleInv
<1>1. UNCHANGED <<now, version, sched, firstDue, curTime, out, lock, lastSlot, stale>> BY DEF Signal
<1>2. id \in Ids BY SchedulerAssumption
<1>3. PICK msg \in Generated(id) : rdr' = [pc |-> "add", id |-> id, msg |-> msg] BY DEF Signal
<1>4. msg \in Message BY <1>2, <1>3, GeneratedType
<1>5. rdr.pc # "sending" BY DEF Signal
<1>6. TypeOK' BY <1>1, <1>2, <1>3, <1>4, <1>5 DEF TypeOK
<1>7. NoPhaseDrift' /\ NextSlotInReach' /\ TodoScheduled'
  BY <1>1, QuietKeeps DEF TodoScheduled, Scheduled
<1> QED BY <1>6, <1>7

LEMMA ImmediateAddKeeps == ScheduleIInv /\ ImmediateAdd => ScheduleIInv'
<1> SUFFICES ASSUME ScheduleIInv, ImmediateAdd PROVE ScheduleIInv' OBVIOUS
<1> USE DEF ScheduleIInv, ScheduleInv
<1>1. /\ UNCHANGED <<now, curTime, version, lock, out, lastSlot, stale>>
      /\ rdr' = [rdr EXCEPT !.pc = "send", !.msg = NoMessage]
      /\ rdr.pc = "add" /\ rdr.id \in Ids /\ rdr.msg \in Message
  BY DEF ImmediateAdd, TypeOK
<1>2. /\ sched' \in [Ids -> {Absent} \union Entries]
      /\ firstDue' \in [Ids -> Nat]
      /\ NoPhaseDrift' /\ NextSlotInReach'
      /\ \A i \in Ids : Scheduled(i) => Scheduled(i)'
  <2>1. CASE AddOrUpdate(rdr.id, rdr.msg) BY <1>1, <2>1, AddOrUpdateKeeps
  <2>2. CASE UNCHANGED <<sched, firstDue>> BY <1>1, <2>2, QuietKeeps DEF TypeOK, Entries
  <2> QED BY <2>1, <2>2 DEF ImmediateAdd
<1>3. rdr' \in [pc : {"idle", "add", "send", "sending"}, id : Ids, msg : Message]
  <2>1. NoMessage \in Message BY SchedulerAssumption DEF NoMessage, Message
  <2> QED BY <1>1, <2>1 DEF TypeOK
<1>4. TypeOK' BY <1>1, <1>2, <1>3 DEF TypeOK, Entries
<1>5. TodoScheduled' BY <1>1, <1>2 DEF TodoScheduled, TypeOK
<1> QED BY <1>2, <1>4, <1>5

LEMMA ImmediateSendKeeps == ScheduleIInv /\ (ImmediateLock \/ ImmediateSend) => ScheduleIInv'
<1> SUFFICES ASSUME ScheduleIInv, ImmediateLock \/ ImmediateSend PROVE ScheduleIInv' OBVIOUS
<1> USE DEF ScheduleIInv, ScheduleInv
<1>1. UNCHANGED <<now, version, sched, firstDue, curTime, out, lastSlot, stale>>
  BY DEF ImmediateLock, ImmediateSend
<1>2. /\ rdr' \in [pc : {"idle", "add", "send", "sending"}, id : Ids, msg : Message]
      /\ lock' \in {"free", "output", "reader"}
      /\ lock' = "output" <=> out.pc = "updating"
      /\ lock' = "reader" <=> rdr'.pc = "sending"
  BY DEF ImmediateLock, ImmediateSend, TypeOK
<1>3. TypeOK' BY <1>1, <1>2 DEF TypeOK
<1>4. NoPhaseDrift' /\ NextSlotInReach' /\ TodoScheduled'
  BY <1>1, QuietKeeps DEF TodoScheduled, Scheduled
<1> QED BY <1>3, <1>4

-----------------------------------------------------------------------------
(* The output task.                                                        *)

OutType == [pc : {"idle", "check", "generate", "add", "update", "updating"},
            i : DOMAIN Handlers, msg : Message, todo : SUBSET Ids, began : 0..MaxVersion]

LEMMA NextHandlerType ==
  ASSUME TypeOK
  PROVE  /\ NextHandler \in OutType
         /\ NextHandler.pc \in {"check", "update"}
         /\ NextHandler.todo = out.todo
<1>1. out \in OutType BY DEF TypeOK, OutType
<1>2. NoMessage \in Message BY SchedulerAssumption DEF NoMessage, Message
<1>3. /\ DOMAIN Handlers = 1 .. Len(Handlers) /\ Len(Handlers) \in Nat
      /\ 1 \in DOMAIN Handlers
  BY SchedulerAssumption
<1>4. CASE out.i < Len(Handlers)
  <2>1. out.i + 1 \in DOMAIN Handlers BY <1>1, <1>3, <1>4 DEF OutType
  <2> QED BY <1>1, <1>2, <1>4, <2>1 DEF NextHandler, OutType
<1>5. CASE ~(out.i < Len(Handlers))
  BY <1>1, <1>2, <1>3, <1>5 DEF NextHandler, OutType
<1> QED BY <1>4, <1>5

(* A round begins with a later clock, which brings every slot nearer.      *)
LEMMA StartRoundKeeps == ScheduleIInv /\ StartRound => ScheduleIInv'
<1> SUFFICES ASSUME ScheduleIInv, StartRound PROVE ScheduleIInv' OBVIOUS
<1> USE DEF ScheduleIInv, ScheduleInv
<1>1. /\ UNCHANGED <<now, version, sched, lock, rdr, firstDue, lastSlot, stale>>
      /\ out' = [out EXCEPT !.pc = "check", !.began = version]
      /\ curTime' = now /\ out.pc = "idle"
  BY DEF StartRound
<1>2. curTime \in Nat /\ curTime' \in Nat /\ curTime <= curTime' /\ curTime' \in 0 .. now'
  BY <1>1, SchedulerAssumption DEF TypeOK
<1>3. out' \in OutType /\ out'.pc = "check" /\ out'.todo = out.todo
  BY <1>1 DEF TypeOK, OutType
<1>4. TypeOK' BY <1>1, <1>2, <1>3 DEF TypeOK, OutType
<1>5. NoPhaseDrift' /\ TodoScheduled'
  BY <1>1, <1>3 DEF NoPhaseDrift, TodoScheduled, Scheduled
<1>6. NextSlotInReach'
  <2> SUFFICES ASSUME NEW id \in Ids, Scheduled(id)
               PROVE  \/ sched[id].nextDue <= curTime' + Period[id]
                      \/ /\ sched[id].nextDue = firstDue[id]
                         /\ firstDue[id] <= curTime' + Offset[id]
    BY <1>1 DEF NextSlotInReach, Scheduled
  <2>1. Period[id] \in Nat /\ Offset[id] \in Nat BY SchedulerAssumption
  <2>2. sched[id].nextDue \in Nat /\ firstDue[id] \in Nat
    BY ScheduledType DEF Entries, TypeOK
  <2>3. \/ sched[id].nextDue <= curTime + Period[id]
        \/ sched[id].nextDue = firstDue[id] /\ firstDue[id] <= curTime + Offset[id]
    BY DEF NextSlotInReach
  <2> QED BY <1>2, <2>1, <2>2, <2>3
<1> QED BY <1>4, <1>5, <1>6

LEMMA GenerateKeeps == ScheduleIInv /\ (CheckDue \/ Generate) => ScheduleIInv'
<1> SUFFICES ASSUME ScheduleIInv, CheckDue \/ Generate PROVE ScheduleIInv' OBVIOUS
<1> USE DEF ScheduleIInv, ScheduleInv
<1>1. UNCHANGED <<now, curTime, version, sched, lock, rdr, firstDue, lastSlot, stale>>
  BY DEF CheckDue, Generate
<1>2. /\ out' \in OutType /\ out.pc # "updating" /\ out'.pc # "updating"
      /\ out'.todo = out.todo
  <2>1. out \in OutType BY DEF TypeOK, OutType
  <2>2. CASE CheckDue
    <3>1. CASE out' = NextHandler BY <2>2, <3>1, NextHandlerType DEF CheckDue
    <3>2. CASE out' = [out EXCEPT !.pc = "generate"] BY <2>1, <2>2, <3>2 DEF CheckDue, OutType
    <3> QED BY <2>2, <3>1, <3>2 DEF CheckDue
  <2>3. CASE Generate
    <3>1. PICK msg \in Generated(Current) : out' = [out EXCEPT !.pc = "add", !.msg = msg]
      BY <2>3 DEF Generate
    <3>2. msg \in Message BY <3>1, GeneratedType, CurrentType
    <3> QED BY <2>1, <2>3, <3>1, <3>2 DEF Generate, OutType
  <2> QED BY <2>2, <2>3
<1>3. TypeOK' BY <1>1, <1>2 DEF TypeOK, OutType
<1>4. NoPhaseDrift' /\ NextSlotInReach' /\ TodoScheduled'
  BY <1>1, <1>2, QuietKeeps DEF TodoScheduled, Scheduled
<1> QED BY <1>3, <1>4

LEMMA PeriodicAddKeeps == ScheduleIInv /\ PeriodicAdd => ScheduleIInv'
<1> SUFFICES ASSUME ScheduleIInv, PeriodicAdd PROVE ScheduleIInv' OBVIOUS
<1> USE DEF ScheduleIInv, ScheduleInv
<1>1. /\ UNCHANGED <<now, curTime, version, lock, rdr, lastSlot>>
      /\ out' = NextHandler /\ out.pc = "add"
      /\ Current \in Ids /\ out.msg \in Message
  BY CurrentType DEF PeriodicAdd, TypeOK
<1>2. /\ sched' \in [Ids -> {Absent} \union Entries]
      /\ firstDue' \in [Ids -> Nat]
      /\ NoPhaseDrift' /\ NextSlotInReach'
      /\ \A i \in Ids : Scheduled(i) => Scheduled(i)'
  <2>1. CASE AddOrUpdate(Current, out.msg) BY <1>1, <2>1, AddOrUpdateKeeps
  <2>2. CASE UNCHANGED <<sched, firstDue>> BY <1>1, <2>2, QuietKeeps DEF TypeOK, Entries
  <2> QED BY <2>1, <2>2 DEF PeriodicAdd
<1>3. stale' \subseteq Ids BY <1>1 DEF PeriodicAdd, TypeOK
<1>4. TypeOK' BY <1>1, <1>2, <1>3, NextHandlerType DEF TypeOK, Entries, OutType
<1>5. TodoScheduled' BY <1>1, <1>2, NextHandlerType DEF TodoScheduled, TypeOK
<1> QED BY <1>2, <1>4, <1>5

LEMMA UpdateEndsKeep == ScheduleIInv /\ (UpdateLock \/ UpdateUnlock) => ScheduleIInv'
<1> SUFFICES ASSUME ScheduleIInv, UpdateLock \/ UpdateUnlock PROVE ScheduleIInv' OBVIOUS
<1> USE DEF ScheduleIInv, ScheduleInv
<1>1. UNCHANGED <<now, curTime, version, sched, rdr, firstDue, lastSlot>>
  BY DEF UpdateLock, UpdateUnlock
<1>2. out \in OutType BY DEF TypeOK, OutType
<1>3. /\ out' \in OutType /\ stale' \subseteq Ids
      /\ lock' \in {"free", "output", "reader"}
      /\ lock' = "output" <=> out'.pc = "updating"
      /\ lock' = "reader" <=> rdr.pc = "sending"
      /\ \A id \in out'.todo : Scheduled(id)
  <2>0. 0 \in 0 .. MaxVersion BY SchedulerAssumption
  <2>1. CASE /\ lock = "free" /\ lock' = "output" /\ UNCHANGED stale
             /\ out' = [out EXCEPT !.pc = "updating", !.todo = {id \in Ids : Scheduled(id)}]
    BY <1>2, <2>1 DEF TypeOK, OutType
  <2>2. CASE UpdateLock /\ lock = "reader" /\ EndRound /\ UNCHANGED lock
    BY <1>2, <2>2, <2>0 DEF EndRound, UpdateLock, TypeOK, OutType, TodoScheduled
  <2>3. CASE UpdateUnlock
    BY <1>2, <2>3, <2>0 DEF UpdateUnlock, EndRound, TypeOK, OutType
  <2> QED BY <2>1, <2>2, <2>3 DEF UpdateLock
<1>4. TypeOK' BY <1>1, <1>3 DEF TypeOK, OutType
<1>5. NoPhaseDrift' /\ NextSlotInReach' /\ TodoScheduled'
  BY <1>1, <1>3, QuietKeeps DEF TodoScheduled, Scheduled
<1> QED BY <1>4, <1>5

(* Update moves the slot of an entry that is due along its grid.           *)
LEMMA UpdateEntryKeeps ==
  ASSUME ScheduleIInv, NEW id \in Ids, UpdateEntry(id)
  PROVE  ScheduleIInv'
<1> USE DEF ScheduleIInv, ScheduleInv
<1>1. /\ UNCHANGED <<now, curTime, version, lock, rdr, firstDue, stale>>
      /\ out' = [out EXCEPT !.todo = out.todo \ {id}]
      /\ out.pc = "updating" /\ id \in out.todo
  BY DEF UpdateEntry
<1>2. Scheduled(id) /\ sched[id] \in Entries
  BY <1>1, ScheduledType DEF TodoScheduled
<1>3. out' \in OutType /\ out'.pc = "updating" /\ out'.todo \subseteq out.todo
  BY <1>1 DEF TypeOK, OutType
<1>4. curTime \in Nat /\ curTime \in 0 .. MaxTime
  BY SchedulerAssumption DEF TypeOK
<1>5. CASE ~IsDue(id, curTime)
  <2>1. UNCHANGED <<sched, lastSlot>> BY <1>5 DEF UpdateEntry
  <2>2. TypeOK' BY <1>1, <1>3, <2>1 DEF TypeOK, OutType
  <2>3. NoPhaseDrift' /\ NextSlotInReach' /\ TodoScheduled'
    BY <1>1, <1>3, <2>1, QuietKeeps DEF TodoScheduled, Scheduled
  <2> QED BY <2>2, <2>3
<1>6. CASE IsDue(id, curTime)
  <2> DEFINE next == SlotAfter(sched[id].nextDue, Period[id], curTime)
  <2>1. /\ sched' = [sched EXCEPT ![id].nextDue = next]
        /\ lastSlot' = IF sched[id].active THEN [lastSlot EXCEPT ![id] = curTime] ELSE lastSlot
    BY <1>6 DEF UpdateEntry
  <2>2. /\ Period[id] \in Nat \ {0} /\ firstDue[id] \in Nat
        /\ sched[id].nextDue \in Nat /\ sched[id].nextDue <= curTime
        /\ (sched[id].nextDue - firstDue[id]) % Period[id] = 0
    <3>1. Period[id] \in Nat \ {0} BY SchedulerAssumption
    <3>2. firstDue[id] \in Nat BY DEF TypeOK
    <3>3. sched[id].nextDue \in Nat BY <1>2 DEF Entries
    <3>4. sched[id].nextDue <= curTime BY <1>4, <1>6, <3>3 DEF IsDue
    <3>5. (sched[id].nextDue - firstDue[id]) % Period[id] = 0 BY <1>2 DEF NoPhaseDrift
    <3> QED BY <3>1, <3>2, <3>3, <3>4, <3>5
  <2>3. /\ next \in Nat /\ next <= curTime + Period[id]
        /\ (next - firstDue[id]) % Period[id] = 0
    <3>1. \A due, first \in Nat, period \in Nat \ {0} :
            due <= curTime /\ (due - first) % period = 0 =>
              LET slot == SlotAfter(due, period, curTime) IN
              /\ slot \in Nat /\ slot <= curTime + period /\ (slot - first) % period = 0
      BY <1>4, SlotAfterFacts
    <3> QED BY <2>2, <3>1
  <2>4. sched \in [Ids -> {Absent} \union Entries] BY DEF TypeOK, Entries
  <2>5. sched'[id] \in Entries /\ sched'[id].nextDue = next
    <3>1. sched'[id] = [sched[id] EXCEPT !.nextDue = next] BY <2>1, <2>4
    <3> HIDE DEF next
    <3> QED BY <1>2, <2>3, <3>1 DEF Entries
  <2>6. \A i \in Ids : i # id => sched'[i] = sched[i] BY <2>1, <2>4
  <2>7. sched' \in [Ids -> {Absent} \union Entries]
    <3>1. sched' = [sched EXCEPT ![id] = [sched[id] EXCEPT !.nextDue = next]] BY <2>1
    <3> HIDE DEF next
    <3> QED BY <2>4, <2>5, <3>1
  <2>8. lastSlot' \in [Ids -> -1..MaxTime] BY <1>4, <2>1 DEF TypeOK
  <2> HIDE DEF next
  <2>9. TypeOK' BY <1>1, <1>3, <2>7, <2>8 DEF TypeOK, OutType, Entries
  <2>10. \A i \in Ids : Scheduled(i)' <=> Scheduled(i)
    BY <1>2, <2>5, <2>6 DEF Scheduled, Absent, Entries
  <2>11. NoPhaseDrift'
    <3> SUFFICES ASSUME NEW i \in Ids, Scheduled(i)
                 PROVE  (sched'[i].nextDue - firstDue[i]) % Period[i] = 0
      BY <1>1, <2>10 DEF NoPhaseDrift
    <3>1. CASE i = id BY <3>1, <2>3, <2>5
    <3>2. CASE i # id BY <3>2, <2>6 DEF NoPhaseDrift
    <3> QED BY <3>1, <3>2
  <2>12. NextSlotInReach'
    <3> SUFFICES ASSUME NEW i \in Ids, Scheduled(i)
                 PROVE  \/ sched'[i].nextDue <= curTime + Period[i]
                        \/ /\ sched'[i].nextDue = firstDue[i]
                           /\ firstDue[i] <= curTime + Offset[i]
      BY <1>1, <2>10 DEF NextSlotInReach
    <3>1. CASE i = id BY <3>1, <2>3, <2>5
    <3>2. CASE i # id BY <3>2, <2>6 DEF NextSlotInReach
    <3> QED BY <3>1, <3>2
  <2>13. TodoScheduled' BY <1>3, <2>10 DEF TodoScheduled, TypeOK
  <2> QED BY <2>9, <2>11, <2>12, <2>13
<1> QED BY <1>5, <1>6

-----------------------------------------------------------------------------
LEMMA NextSchedule == ScheduleIInv /\ [Next]_vars => ScheduleIInv'
<1> SUFFICES ASSUME ScheduleIInv, [Next]_vars PROVE ScheduleIInv' OBVIOUS
<1>1. CASE Tick \/ Parse BY <1>1, EnvironmentKeeps
<1>2. CASE \E id \in SignalIds : Signal(id) BY <1>2, SignalKeeps
<1>3. CASE ImmediateAdd BY <1>3, ImmediateAddKeeps
<1>4. CASE ImmediateLock \/ ImmediateSend BY <1>4, ImmediateSendKeeps
<1>5. CASE StartRound BY <1>5, StartRoundKeeps
<1>6. CASE CheckDue \/ Generate BY <1>6, GenerateKeeps
<1>7. CASE PeriodicAdd BY <1>7, PeriodicAddKeeps
<1>8. CASE UpdateLock \/ UpdateUnlock BY <1>8, UpdateEndsKeep
<1>9. CASE \E id \in Ids : UpdateEntry(id) BY <1>9, UpdateEntryKeeps
<1>10. CASE UNCHANGED vars
  BY <1>10 DEF vars, ScheduleIInv, ScheduleInv, TypeOK, NoPhaseDrift, NextSlotInReach,
               TodoScheduled, Scheduled
<1> QED
  BY <1>1, <1>2, <1>3, <1>4, <1>5, <1>6, <1>7, <1>8, <1>9, <1>10 DEF Next, Reader, Output

(* Whatever the periods and offsets, however late the rounds are and       *)
(* whichever operations are skipped for the mutex, the slots of a message  *)
(* stay on its grid and within its reach.                                  *)
THEOREM ScheduleHolds == Spec => []ScheduleInv
<1>1. ScheduleIInv => ScheduleInv BY DEF ScheduleIInv
<1> QED BY <1>1, InitSchedule, NextSchedule, PTL DEF Spec

-----------------------------------------------------------------------------
(* An entry that has been sent is next due after that.                     *)
SentBeforeDue ==
  \A id \in Ids : lastSlot[id] # -1 => Scheduled(id) /\ lastSlot[id] < sched[id].nextDue

LEMMA AddOrUpdateSent ==
  ASSUME ScheduleIInv, SentBeforeDue, NEW id \in Ids, NEW msg, AddOrUpdate(id, msg),
         UNCHANGED lastSlot
  PROVE  SentBeforeDue'
<1>1. sched \in [Ids -> {Absent} \union Entries] /\ firstDue \in [Ids -> Nat]
  BY DEF ScheduleIInv, ScheduleInv, TypeOK, Entries
<1> SUFFICES ASSUME NEW i \in Ids, lastSlot[i] # -1
             PROVE  Scheduled(i)' /\ lastSlot[i] < sched'[i].nextDue
  BY DEF SentBeforeDue
<1>2. Scheduled(i) /\ lastSlot[i] < sched[i].nextDue BY DEF SentBeforeDue
<1>3. CASE i = id
  <2>1. sched'[id].nextDue = sched[id].nextDue
    BY <1>1, <1>2, <1>3 DEF AddOrUpdate
  <2>2. sched[id].nextDue # -1
    BY <1>2, <1>3, ScheduledType DEF ScheduleIInv, ScheduleInv, Entries
  <2>3. Scheduled(id)' BY <2>1, <2>2 DEF Scheduled, Absent
  <2> QED BY <1>2, <1>3, <2>1, <2>3
<1>4. CASE i # id
  BY <1>1, <1>2, <1>4 DEF AddOrUpdate, Scheduled
<1> QED BY <1>3, <1>4

(* What Update does with an entry that is due.                             *)
LEMMA UpdateEntryFacts ==
  ASSUME ScheduleIInv, NEW id \in Ids, UpdateEntry(id)
  PROVE  /\ \A i \in Ids : i # id => sched'[i] = sched[i] /\ lastSlot'[i] = lastSlot[i]
         /\ ~IsDue(id, curTime) => sched' = sched /\ lastSlot' = lastSlot
         /\ IsDue(id, curTime) =>
              /\ Scheduled(id)' /\ curTime < sched'[id].nextDue /\ sched[id].nextDue <= curTime
              /\ sched'[id].content = sched[id].content
              /\ lastSlot'[id] \in {lastSlot[id], curTime}
<1> USE DEF ScheduleIInv, ScheduleInv
<1>1. sched \in [Ids -> {Absent} \union Entries] /\ lastSlot \in [Ids -> -1..MaxTime]
  BY DEF TypeOK, Entries
<1>2. sched[id] \in Entries /\ Scheduled(id)
  BY ScheduledType DEF UpdateEntry, TodoScheduled
<1>3. curTime \in Nat BY SchedulerAssumption DEF TypeOK
<1>4. CASE IsDue(id, curTime)
  <2> DEFINE next == SlotAfter(sched[id].nextDue, Period[id], curTime)
  <2>1. /\ sched' = [sched EXCEPT ![id].nextDue = next]
        /\ lastSlot' = IF sched[id].active THEN [lastSlot EXCEPT ![id] = curTime] ELSE lastSlot
    BY <1>4 DEF UpdateEntry
  <2>2. Period[id] \in Nat \ {0} BY SchedulerAssumption
  <2>3. firstDue[id] \in Nat /\ (sched[id].nextDue - firstDue[id]) % Period[id] = 0
    BY <1>2 DEF TypeOK, NoPhaseDrift
  <2>4. sched[id].nextDue \in Nat BY <1>2 DEF Entries
  <2>5. sched[id].nextDue <= curTime BY <1>3, <1>4, <2>4 DEF IsDue
  <2>6. next \in Nat /\ curTime < next BY <1>3, <2>2, <2>3, <2>4, <2>5, SlotAfterFacts
  <2>7. sched'[id] = [sched[id] EXCEPT !.nextDue = next] BY <1>1, <2>1
  <2> HIDE DEF next
  <2>8. sched'[id].nextDue = next /\ sched'[id].content = sched[id].content
    BY <1>2, <2>7 DEF Entries
  <2>9. Scheduled(id)' BY <2>6, <2>8 DEF Scheduled, Absent
  <2>10. /\ lastSlot'[id] \in {lastSlot[id], curTime}
         /\ \A i \in Ids : i # id => sched'[i] = sched[i] /\ lastSlot'[i] = lastSlot[i]
    BY <1>1, <2>1
  <2> QED BY <1>4, <2>5, <2>6, <2>8, <2>9, <2>10
<1>5. CASE ~IsDue(id, curTime)
  BY <1>5 DEF UpdateEntry
<1> QED BY <1>4, <1>5

LEMMA NextSent == ScheduleIInv /\ SentBeforeDue /\ [Next]_vars => SentBeforeDue'
<1> SUFFICES ASSUME ScheduleIInv, SentBeforeDue, [Next]_vars PROVE SentBeforeDue' OBVIOUS
<1> USE DEF ScheduleIInv, ScheduleInv
<1>1. CASE ImmediateAdd
  <2>1. rdr.id \in Ids BY DEF TypeOK
  <2>2. CASE AddOrUpdate(rdr.id, rdr.msg) BY <1>1, <2>1, <2>2, AddOrUpdateSent DEF ImmediateAdd
  <2>3. CASE UNCHANGED sched BY <1>1, <2>3 DEF ImmediateAdd, SentBeforeDue, Scheduled
  <2> QED BY <1>1, <2>2, <2>3 DEF ImmediateAdd
<1>2. CASE PeriodicAdd
  <2>1. Current \in Ids BY CurrentType
  <2>2. CASE AddOrUpdate(Current, out.msg) BY <1>2, <2>1, <2>2, AddOrUpdateSent DEF PeriodicAdd
  <2>3. CASE UNCHANGED sched BY <1>2, <2>3 DEF PeriodicAdd, SentBeforeDue, Scheduled
  <2> QED BY <1>2, <2>2, <2>3 DEF PeriodicAdd
<1>3. ASSUME NEW id \in Ids, UpdateEntry(id) PROVE SentBeforeDue'
  <2> SUFFICES ASSUME NEW i \in Ids, lastSlot'[i] # -1
               PROVE  Scheduled(i)' /\ lastSlot'[i] < sched'[i].nextDue
    BY DEF SentBeforeDue
  <2>1. CASE i # id \/ ~IsDue(id, curTime)
    BY <1>3, <2>1, UpdateEntryFacts DEF SentBeforeDue, Scheduled
  <2>2. CASE i = id /\ IsDue(id, curTime)
    <3>1. /\ Scheduled(id)' /\ curTime < sched'[id].nextDue /\ sched[id].nextDue <= curTime
          /\ lastSlot'[id] \in {lastSlot[id], curTime}
      BY <1>3, <2>2, UpdateEntryFacts
    <3>2. CASE lastSlot'[id] = curTime BY <2>2, <3>1, <3>2
    <3>3. CASE lastSlot'[id] = lastSlot[id]
      <4>1. lastSlot[id] < sched[id].nextDue BY <2>2, <3>3 DEF SentBeforeDue
      <4>2. lastSlot[id] \in Int /\ curTime \in Int BY SchedulerAssumption DEF TypeOK
      <4>3. sched[id] \in Entries
        BY <1>3, ScheduledType DEF UpdateEntry, TodoScheduled
      <4>4. sched'[id] \in Entries
        <5>1. ScheduleIInv' BY <1>3, UpdateEntryKeeps
        <5> QED BY <3>1, <5>1 DEF TypeOK, Scheduled, Entries
      <4> QED BY <2>2, <3>1, <3>3, <4>1, <4>2, <4>3, <4>4 DEF Entries
    <3> QED BY <3>1, <3>2, <3>3
  <2> QED BY <2>1, <2>2
<1>4. CASE UNCHANGED <<sched, lastSlot>>
  BY <1>4 DEF SentBeforeDue, Scheduled
<1> QED
  BY <1>1, <1>2, <1>3, <1>4
  DEF Next, Reader, Output, Tick, Parse, Signal, ImmediateLock, ImmediateSend, StartRound,
      CheckDue, Generate, UpdateLock, UpdateUnlock, vars

(* Times on both sides of a slot are in different slots.                   *)
LEMMA SlotsApart ==
  ASSUME NEW p \in Nat \ {0}, NEW first \in Nat, NEW due \in Nat, NEW s \in Int, NEW t \in Int,
         (due - first) % p = 0, s < due, due <= t
  PROVE  (t - first) \div p > (s - first) \div p
<1> DEFINE a == (t - first) \div p
           b == (s - first) \div p
           m == (due - first) \div p
<1>1. /\ a \in Int /\ b \in Int /\ m \in Int
      /\ p * a <= t - first /\ t - first < p * a + p
      /\ p * b <= s - first /\ due - first = p * m
  <2>1. \A x \in Int : x \div p \in Int /\ x % p \in 0 .. p - 1
                         /\ x = p * (x \div p) + (x % p)
    BY SMT
  <2>2. t - first \in Int /\ s - first \in Int /\ due - first \in Int OBVIOUS
  <2> QED BY <2>1, <2>2
<1> HIDE DEF a, b, m
<1>2. p * b \in Int /\ p * m \in Int /\ p * a \in Int BY <1>1
<1>3. p * b < p * m /\ p * m < p * a + p BY <1>1, <1>2
<1>4. b < m
  <2>1. CASE b >= m
    <3>1. p * b >= p * m BY <1>1, <2>1
    <3> QED BY <1>2, <1>3, <3>1
  <2> QED BY <1>1, <2>1
<1>5. m <= a
  <2>1. CASE m >= a + 1
    <3>1. p * m >= p * (a + 1) BY <1>1, <2>1
    <3>2. p * (a + 1) = p * a + p BY <1>1
    <3> QED BY <1>2, <1>3, <3>1, <3>2
  <2> QED BY <1>1, <2>1
<1> QED BY <1>1, <1>4, <1>5 DEF a, b

(* However late the rounds are, no slot of a message is served twice.      *)
THEOREM OneSendPerSlotHolds == Spec => OneSendPerSlot
<1> DEFINE Step == \A id \in Ids : lastSlot'[id] # lastSlot[id] /\ lastSlot[id] # -1
                                    => Slot(id, lastSlot'[id]) > Slot(id, lastSlot[id])
<1>1. Init => SentBeforeDue BY DEF Init, SentBeforeDue
<1>2. ScheduleIInv /\ SentBeforeDue /\ [Next]_vars => [Step]_vars
  <2> SUFFICES ASSUME ScheduleIInv, SentBeforeDue, Next PROVE Step BY DEF vars
  <2> USE DEF ScheduleIInv, ScheduleInv
  <2>1. CASE lastSlot' = lastSlot BY <2>1
  <2>2. ASSUME NEW id \in Ids, UpdateEntry(id) PROVE Step
    <3> SUFFICES ASSUME NEW i \in Ids, lastSlot'[i] # lastSlot[i], lastSlot[i] # -1
                 PROVE  Slot(i, lastSlot'[i]) > Slot(i, lastSlot[i])
      OBVIOUS
    <3>1. i = id /\ IsDue(id, curTime) BY <2>2, UpdateEntryFacts
    <3>2. lastSlot'[i] = curTime /\ sched[i].nextDue <= curTime
      BY <2>2, <3>1, UpdateEntryFacts
    <3>3. Scheduled(i) /\ lastSlot[i] < sched[i].nextDue BY DEF SentBeforeDue
    <3>4. sched[i].nextDue \in Nat BY <3>3, ScheduledType DEF Entries
    <3>5. (sched[i].nextDue - firstDue[i]) % Period[i] = 0 BY <3>3 DEF NoPhaseDrift
    <3>6. Period[i] \in Nat \ {0} BY SchedulerAssumption
    <3>7. firstDue[i] \in Nat /\ lastSlot[i] \in Int /\ curTime \in Int
      BY SchedulerAssumption DEF TypeOK
    <3> QED BY <3>2, <3>3, <3>4, <3>5, <3>6, <3>7, SlotsApart DEF Slot
  <2> QED
    BY <2>1, <2>2
    DEF Next, Reader, Output, Tick, Parse, Signal, ImmediateAdd, ImmediateLock, ImmediateSend,
        StartRound, CheckDue, Generate, PeriodicAdd, UpdateLock, UpdateUnlock
<1> HIDE DEF Step
<1>3. Spec => [][Step]_vars
  BY <1>1, <1>2, InitSchedule, NextSchedule, NextSent, PTL DEF Spec
<1> QED BY <1>3 DEF Step, OneSendPerSlot

-----------------------------------------------------------------------------
(* Where a round is done with a handler, what is due is fresh: a message   *)
(* that was not due then is due later only in another round, and the       *)
(* reader parses nothing between generating a message and storing it.      *)
Handled(j) ==
  \/ out.pc \in {"check", "generate", "add"} /\ j < out.i
  \/ out.pc \in {"update", "updating"}

FreshEntry(id) ==
  Scheduled(id) /\ IsDue(id, curTime) /\ id \notin stale => sched[id].content >= out.began

FreshInv ==
  /\ \A j \in DOMAIN Handlers : Handled(j) => FreshEntry(Handlers[j])
  /\ out.began <= version
  /\ out.pc = "add" => out.msg.content >= out.began
  /\ rdr.pc = "add" => rdr.msg.content = version
  /\ out.pc \in {"idle", "update", "updating"} => out.i = 1

LEMMA FreshTypes ==
  ASSUME TypeOK
  PROVE  /\ version \in Nat /\ out.began \in Nat /\ out.i \in Nat
         /\ out.msg.content \in Nat /\ curTime \in Nat
         /\ rdr.id \in Ids /\ Current \in Ids
         /\ \A j \in DOMAIN Handlers : Handlers[j] \in Ids /\ j \in Nat
<1>1. MaxVersion \in Nat /\ MaxTime \in Nat BY SchedulerAssumption
<1>2. DOMAIN Handlers = 1 .. Len(Handlers) /\ Len(Handlers) \in Nat BY SchedulerAssumption
<1>3. out \in OutType BY DEF TypeOK, OutType
<1>4. \A m \in Message : m.content \in Nat BY <1>1 DEF Message
<1>5. out.began \in Nat /\ out.i \in Nat /\ out.msg \in Message BY <1>1, <1>2, <1>3 DEF OutType
<1>6. version \in Nat /\ curTime \in Nat BY <1>1 DEF TypeOK
<1>7. rdr.id \in Ids BY DEF TypeOK
<1>8. \A j \in DOMAIN Handlers : Handlers[j] \in Ids /\ j \in Nat BY <1>2 DEF Ids
<1> QED BY <1>4, <1>5, <1>6, <1>7, <1>8, CurrentType

(* A message at least as new as the round keeps every entry fresh.         *)
LEMMA AddOrUpdateFresh ==
  ASSUME ScheduleIInv, NEW id \in Ids, NEW msg, AddOrUpdate(id, msg),
         NEW i \in Ids, FreshEntry(i) \/ i = id,
         msg.content >= out.began,
         UNCHANGED <<curTime, stale>>, out'.began = out.began
  PROVE  FreshEntry(i)'
<1>1. sched \in [Ids -> {Absent} \union Entries]
  BY DEF ScheduleIInv, ScheduleInv, TypeOK, Entries
<1>2. CASE i = id
  <2>1. sched'[id].content = msg.content BY <1>1 DEF AddOrUpdate
  <2> QED BY <1>2, <2>1 DEF FreshEntry
<1>3. CASE i # id
  <2>1. sched'[i] = sched[i] BY <1>1, <1>3 DEF AddOrUpdate
  <2> QED BY <1>3, <2>1 DEF FreshEntry, Scheduled, IsDue
<1> QED BY <1>2, <1>3

(* Steps of the others that leave the entries alone.                       *)
LEMMA QuietFresh ==
  ASSUME ScheduleIInv, FreshInv, UNCHANGED <<sched, out, curTime, stale>>
  PROVE  \A j \in DOMAIN Handlers : Handled(j)' => FreshEntry(Handlers[j])'
BY DEF FreshInv, Handled, FreshEntry, Scheduled, IsDue

LEMMA ReaderFresh == ScheduleIInv /\ FreshInv /\ (Tick \/ Reader) => FreshInv'
<1> SUFFICES ASSUME ScheduleIInv, FreshInv, Tick \/ Reader PROVE FreshInv' OBVIOUS
<1> USE DEF ScheduleIInv, ScheduleInv
<1>1. CASE Tick
  BY <1>1, QuietFresh DEF Tick, FreshInv
<1>2. CASE Parse
  <2>1. out.began <= version' BY <1>2, FreshTypes DEF Parse, FreshInv
  <2> QED BY <1>2, <2>1, QuietFresh DEF Parse, FreshInv
<1>3. ASSUME NEW id \in SignalIds, Signal(id) PROVE FreshInv'
  <2>1. rdr'.msg.content = version
    <3>1. PICK msg \in Generated(id) : rdr' = [pc |-> "add", id |-> id, msg |-> msg]
      BY <1>3 DEF Signal
    <3>2. msg.content = version BY <3>1 DEF Generated
    <3> QED BY <3>1, <3>2
  <2> QED BY <1>3, <2>1, QuietFresh DEF Signal, FreshInv
<1>4. CASE ImmediateAdd
  <2>1. /\ UNCHANGED <<out, curTime, stale, version>>
        /\ rdr' = [rdr EXCEPT !.pc = "send", !.msg = NoMessage] /\ rdr.pc = "add"
    BY <1>4 DEF ImmediateAdd
  <2>2. rdr'.pc = "send" BY <2>1 DEF TypeOK
  <2>3. \A j \in DOMAIN Handlers : Handled(j)' => FreshEntry(Handlers[j])'
    <3>1. CASE UNCHANGED <<sched, firstDue>> BY <2>1, <3>1, QuietFresh
    <3>2. CASE AddOrUpdate(rdr.id, rdr.msg)
      <4>1. rdr.msg.content >= out.began BY <2>1, FreshTypes DEF FreshInv
      <4>2. \A j \in DOMAIN Handlers : Handled(j)' => FreshEntry(Handlers[j])
        BY <2>1 DEF FreshInv, Handled
      <4> QED BY <2>1, <3>2, <4>1, <4>2, FreshTypes, AddOrUpdateFresh
    <3> QED BY <1>4, <3>1, <3>2 DEF ImmediateAdd
  <2> QED BY <2>1, <2>2, <2>3 DEF FreshInv
<1>5. CASE ImmediateLock \/ ImmediateSend
  <2>1. UNCHANGED <<sched, out, curTime, stale, version>> /\ rdr'.pc # "add"
    BY <1>5 DEF ImmediateLock, ImmediateSend, TypeOK
  <2> QED BY <2>1, QuietFresh DEF FreshInv
<1> QED BY <1>1, <1>2, <1>3, <1>4, <1>5 DEF Reader

(* NextHandler is done with the current handler and with no other one.     *)
LEMMA NextHandlerHandled ==
  ASSUME TypeOK, out' = NextHandler, out.pc \in {"check", "add"}
  PROVE  /\ out'.began = out.began /\ out'.pc # "add" /\ (out'.pc = "update" => out'.i = 1)
         /\ out'.pc \in {"check", "update"}
         /\ \A j \in DOMAIN Handlers : Handled(j)' => Handled(j) \/ Handlers[j] = Current
<1>1. out \in OutType BY DEF TypeOK, OutType
<1>2. DOMAIN Handlers = 1 .. Len(Handlers) /\ Len(Handlers) \in Nat
  BY SchedulerAssumption
<1>3. CASE out.i < Len(Handlers)
  <2>1. out' = [out EXCEPT !.pc = "check", !.i = @ + 1, !.msg = NoMessage]
    BY <1>3 DEF NextHandler
  <2>2. out'.pc = "check" /\ out'.i = out.i + 1 /\ out'.began = out.began
    BY <1>1, <2>1 DEF OutType
  <2>3. ASSUME NEW j \in DOMAIN Handlers, Handled(j)'
        PROVE  Handled(j) \/ Handlers[j] = Current
    <3>1. j < out.i + 1 BY <2>2, <2>3 DEF Handled
    <3>2. j \in Nat /\ out.i \in Nat BY <1>1, <1>2 DEF OutType
    <3>3. CASE j < out.i BY <3>3 DEF Handled
    <3>4. CASE j = out.i BY <3>4 DEF Current
    <3> QED BY <3>1, <3>2, <3>3, <3>4
  <2> QED BY <2>2, <2>3
<1>4. CASE ~(out.i < Len(Handlers))
  <2>1. out' = [out EXCEPT !.pc = "update", !.i = 1, !.msg = NoMessage]
    BY <1>4 DEF NextHandler
  <2>2. out'.pc = "update" /\ out'.began = out.began /\ out'.i = 1
    BY <1>1, <2>1 DEF OutType
  <2>3. ASSUME NEW j \in DOMAIN Handlers
        PROVE  Handled(j) \/ Handlers[j] = Current
    <3>1. j \in Nat /\ out.i \in 1 .. Len(Handlers) /\ j <= Len(Handlers)
      BY <1>1, <1>2 DEF OutType
    <3>2. j < out.i \/ j = out.i BY <1>2, <1>4, <3>1
    <3> QED BY <3>2 DEF Handled, Current
  <2> QED BY <2>2, <2>3
<1> QED BY <1>3, <1>4

LEMMA GenerationFresh ==
  ScheduleIInv /\ FreshInv /\ (StartRound \/ CheckDue \/ Generate \/ PeriodicAdd) => FreshInv'
<1> SUFFICES ASSUME ScheduleIInv, FreshInv,
                    StartRound \/ CheckDue \/ Generate \/ PeriodicAdd
             PROVE  FreshInv'
  OBVIOUS
<1> USE DEF ScheduleIInv, ScheduleInv
<1>0. out \in OutType BY DEF TypeOK, OutType
<1>1. CASE StartRound
  <2>1. /\ UNCHANGED <<version, rdr>>
        /\ out'.pc = "check" /\ out'.began = version /\ out'.i = 1
    BY <1>0, <1>1 DEF StartRound, OutType, FreshInv
  <2>2. \A j \in DOMAIN Handlers : ~(j < 1) BY SchedulerAssumption
  <2>3. \A j \in DOMAIN Handlers : ~Handled(j)' BY <2>1, <2>2 DEF Handled
  <2> QED BY <2>1, <2>3, FreshTypes DEF FreshInv
<1>2. CASE CheckDue
  <2>1. UNCHANGED <<version, rdr, sched, curTime, stale>> /\ out.pc = "check"
    BY <1>2 DEF CheckDue
  <2>2. CASE lock = "free" /\ Scheduled(Current) /\ ~IsDue(Current, curTime)
    <3>1. out' = NextHandler BY <1>2, <2>2 DEF CheckDue
    <3>2. /\ out'.began = out.began /\ out'.pc # "add"
          /\ out'.pc \in {"check", "update"} /\ (out'.pc = "update" => out'.i = 1)
          /\ \A j \in DOMAIN Handlers : Handled(j)' => Handled(j) \/ Handlers[j] = Current
      BY <2>1, <3>1, NextHandlerHandled
    <3>3. FreshEntry(Current) BY <2>2 DEF FreshEntry
    <3>4. \A j \in DOMAIN Handlers : Handled(j)' => FreshEntry(Handlers[j])
      BY <3>2, <3>3 DEF FreshInv
    <3>5. \A id \in Ids : FreshEntry(id) => FreshEntry(id)'
      BY <2>1, <3>2 DEF FreshEntry, Scheduled, IsDue
    <3> QED BY <2>1, <3>2, <3>4, <3>5, FreshTypes DEF FreshInv
  <2>3. CASE ~(lock = "free" /\ Scheduled(Current) /\ ~IsDue(Current, curTime))
    <3>1. out' = [out EXCEPT !.pc = "generate"] BY <1>2, <2>3 DEF CheckDue
    <3>2. out'.pc = "generate" /\ out'.began = out.began /\ out'.i = out.i
      BY <1>0, <3>1 DEF OutType
    <3>3. \A j \in DOMAIN Handlers : Handled(j)' => Handled(j)
      BY <2>1, <3>2 DEF Handled
    <3> QED BY <2>1, <3>2, <3>3, FreshTypes DEF FreshInv, FreshEntry, Scheduled, IsDue
  <2> QED BY <2>2, <2>3
<1>3. CASE Generate
  <2>1. UNCHANGED <<version, rdr, sched, curTime, stale>> /\ out.pc = "generate"
    BY <1>3 DEF Generate
  <2>2. PICK msg \in Generated(Current) : out' = [out EXCEPT !.pc = "add", !.msg = msg]
    BY <1>3 DEF Generate
  <2>3. msg.content = version BY <2>2 DEF Generated
  <2>4. out'.pc = "add" /\ out'.began = out.began /\ out'.i = out.i /\ out'.msg = msg
    BY <1>0, <2>2 DEF OutType
  <2>5. \A j \in DOMAIN Handlers : Handled(j)' => Handled(j)
    BY <2>1, <2>4 DEF Handled
  <2> QED BY <2>1, <2>3, <2>4, <2>5, FreshTypes DEF FreshInv, FreshEntry, Scheduled, IsDue
<1>4. CASE PeriodicAdd
  <2>1. UNCHANGED <<version, rdr, curTime>> /\ out.pc = "add" /\ out' = NextHandler
    BY <1>4 DEF PeriodicAdd
  <2>2. /\ out'.began = out.began /\ out'.pc # "add"
        /\ out'.pc \in {"check", "update"} /\ (out'.pc = "update" => out'.i = 1)
        /\ \A j \in DOMAIN Handlers : Handled(j)' => Handled(j) \/ Handlers[j] = Current
    BY <2>1, NextHandlerHandled
  <2>3. \A id \in Ids : FreshEntry(id) \/ id = Current => FreshEntry(id)'
    <3>1. CASE AddOrUpdate(Current, out.msg) /\ UNCHANGED stale
      <4>1. out.msg.content >= out.began BY <2>1 DEF FreshInv
      <4> QED BY <2>1, <2>2, <3>1, <4>1, FreshTypes, AddOrUpdateFresh
    <3>2. CASE UNCHANGED sched /\ stale' = stale \union {Current}
      BY <2>1, <2>2, <3>2 DEF FreshEntry, Scheduled, IsDue
    <3> QED BY <1>4, <3>1, <3>2 DEF PeriodicAdd
  <2>4. \A j \in DOMAIN Handlers : Handled(j)' => FreshEntry(Handlers[j])'
    BY <2>2, <2>3, FreshTypes DEF FreshInv
  <2> QED BY <2>1, <2>2, <2>4 DEF FreshInv
<1> QED BY <1>1, <1>2, <1>3, <1>4

LEMMA UpdateFresh ==
  ASSUME ScheduleIInv, FreshInv,
         UpdateLock \/ UpdateUnlock \/ \E id \in Ids : UpdateEntry(id)
  PROVE  FreshInv'
<1> USE DEF ScheduleIInv, ScheduleInv
<1>0. out \in OutType BY DEF TypeOK, OutType
<1>1. CASE EndRound /\ UNCHANGED <<version, rdr>> /\ out.pc \in {"update", "updating"}
  <2>1. out'.pc = "idle" /\ out'.began = 0 /\ out'.i = out.i
    BY <1>0, <1>1 DEF EndRound, OutType
  <2>2. \A j \in DOMAIN Handlers : ~Handled(j)' BY <2>1 DEF Handled
  <2> QED BY <1>1, <2>1, <2>2, FreshTypes DEF FreshInv
<1>2. CASE UpdateLock /\ lock = "free"
  <2>1. /\ UNCHANGED <<version, rdr, sched, curTime, stale>>
        /\ out'.pc = "updating" /\ out'.began = out.began /\ out'.i = out.i
        /\ out.pc = "update"
    BY <1>0, <1>2 DEF UpdateLock, OutType
  <2>2. \A j \in DOMAIN Handlers : Handled(j) BY <2>1 DEF Handled
  <2> QED BY <2>1, <2>2 DEF FreshInv, FreshEntry, Scheduled, IsDue
<1>3. ASSUME NEW id \in Ids, UpdateEntry(id) PROVE FreshInv'
  <2>1. /\ UNCHANGED <<version, rdr, curTime, stale>> /\ out.pc = "updating"
        /\ out'.pc = "updating" /\ out'.began = out.began /\ out'.i = out.i
    BY <1>0, <1>3 DEF UpdateEntry, OutType
  <2>2. \A j \in DOMAIN Handlers : FreshEntry(Handlers[j]) BY <2>1 DEF FreshInv, Handled
  <2>3. ASSUME NEW i \in Ids, FreshEntry(i) PROVE FreshEntry(i)'
    <3>1. CASE sched'[i] = sched[i]
      BY <2>1, <2>3, <3>1 DEF FreshEntry, Scheduled, IsDue
    <3>2. CASE i = id /\ IsDue(id, curTime)
      <4>1. sched'[i].content = sched[i].content BY <1>3, <3>2, UpdateEntryFacts
      <4>2. Scheduled(i) BY <1>3, <3>2 DEF UpdateEntry, TodoScheduled
      <4> QED BY <2>1, <2>3, <3>2, <4>1, <4>2 DEF FreshEntry
    <3> QED BY <1>3, <3>1, <3>2, UpdateEntryFacts
  <2> QED BY <2>1, <2>2, <2>3, FreshTypes DEF FreshInv
<1> QED BY <1>1, <1>2, <1>3 DEF UpdateLock, UpdateUnlock

(* What a round sends is as new as its beginning, unless its refresh was   *)
(* skipped for the mutex.                                                  *)
THEOREM FreshWithinRoundHolds == Spec => []FreshWithinRound
<1>1. Init => FreshInv
  <2> SUFFICES ASSUME Init PROVE FreshInv OBVIOUS
  <2>1. \A j \in DOMAIN Handlers : ~Handled(j) BY DEF Init, Handled
  <2> QED BY <2>1 DEF Init, FreshInv
<1>2. ScheduleIInv /\ FreshInv /\ [Next]_vars => FreshInv'
  <2> SUFFICES ASSUME ScheduleIInv, FreshInv, [Next]_vars PROVE FreshInv' OBVIOUS
  <2>1. CASE UNCHANGED vars
    BY <2>1, QuietFresh DEF vars, FreshInv
  <2>2. CASE Tick \/ Reader BY <2>2, ReaderFresh
  <2>3. CASE Output BY <2>3, GenerationFresh, UpdateFresh DEF Output
  <2> QED BY <2>1, <2>2, <2>3 DEF Next
<1>3. ScheduleIInv /\ FreshInv => FreshWithinRound
  <2> SUFFICES ASSUME ScheduleIInv, FreshInv, NEW id \in Ids,
                      out.pc = "updating", id \in out.todo, IsDue(id, curTime), id \notin stale
               PROVE  sched[id].content >= out.began
    BY DEF FreshWithinRound
  <2>1. PICK j \in DOMAIN Handlers : id = Handlers[j] BY DEF Ids
  <2>2. FreshEntry(id) BY <2>1 DEF FreshInv, Handled
  <2> QED BY <2>2 DEF FreshEntry, ScheduleIInv, TodoScheduled
<1> QED BY <1>1, <1>2, <1>3, InitSchedule, NextSchedule, PTL DEF Spec
=============================================================================
