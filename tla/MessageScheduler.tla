-------------------------- MODULE MessageScheduler --------------------------
(***************************************************************************)
(* The periodic scheduler of one output bus (Protocol/MessageScheduler.hpp)*)
(* with the two tasks that share it: the output task, whose rounds         *)
(* generate every handler's message and then send what is due, and a       *)
(* reader task, which answers an immediate signal by generating one        *)
(* message and sending it at once.  The payload of a message is the        *)
(* version of CarState it was generated from.                              *)
(*                                                                         *)
(* Every operation takes the scheduler's mutex and is skipped when it does *)
(* not get it within 10 ms.  The mutex stays held while frames are handed  *)
(* to the CAN driver, which may block for as long, so skipping is real.    *)
(* CurrenTime is written only by the output task: the reader uses a stale  *)
(* one.  Uptimes stay below 2^32 ms, so its two words are never torn.      *)
(***************************************************************************)
EXTENDS Integers, Sequences, FiniteSets

CONSTANTS
    Handlers,     \* the tuple of message ids, in generation order
    SignalIds,    \* the ids some immediate signal sends
    GatedIds,     \* the ids whose generator may clear isActive
    Period,       \* [ids -> periodicityMs]
    Offset,       \* [ids -> offsetMs]
    MaxTime,      \* bound on the clock, in milliseconds
    MaxVersion    \* bound on the number of CarState changes

Ids == {Handlers[i] : i \in DOMAIN Handlers}

ASSUME SchedulerAssumption ==
    /\ Handlers \in Seq(Ids) \ {<<>>} /\ Len(Handlers) = Cardinality(Ids)
    /\ SignalIds \subseteq Ids /\ GatedIds \subseteq Ids
    /\ Period \in [Ids -> Nat \ {0}] /\ Offset \in [Ids -> Nat]
    /\ MaxTime \in Nat /\ MaxVersion \in Nat

VARIABLES
    now,        \* the clock the output task reads
    curTime,    \* CarState::CurrenTime
    version,    \* version of the vehicle state in CarState
    sched,      \* scheduledMessages: [ids -> entry or Absent]
    lock,       \* holder of the mutex
    out,        \* the output task
    rdr,        \* the reader task
    firstDue,   \* history: the first slot of each entry
    lastSlot,   \* history: time of the last periodic send of each id, or -1
    stale       \* history: ids whose refresh this round was skipped

vars == <<now, curTime, version, sched, lock, out, rdr, firstDue, lastSlot, stale>>

Absent == [nextDue |-> -1]
NoMessage == [content |-> 0, active |-> FALSE]
Message == [content : 0..MaxVersion, active : BOOLEAN]

Scheduled(id) == sched[id] # Absent
IsDue(id, t) == t >= sched[id].nextDue

(* What a generator makes of the vehicle state it reads. *)
Generated(id) ==
    [content : {version}, active : IF id \in GatedIds THEN BOOLEAN ELSE {TRUE}]

(* AddOrUpdateMessage: an existing entry keeps its next slot. *)
AddOrUpdate(id, msg) ==
    /\ sched' = [sched EXCEPT ![id] =
            [content |-> msg.content, active |-> msg.active,
             nextDue |-> IF Scheduled(id) THEN @.nextDue ELSE curTime + Offset[id]]]
    /\ firstDue' = IF Scheduled(id) THEN firstDue
                   ELSE [firstDue EXCEPT ![id] = curTime + Offset[id]]

(* As if the next slot were counted from now, or were just one period on.  *)
SlotAfter_FromNow(due, period, t) == t + period
SlotAfter_NextOnly(due, period, t) == due + period

(* The slot after t on the grid of the entry. *)
SlotAfter(due, period, t) == due + ((t - due) \div period + 1) * period

-----------------------------------------------------------------------------
Init ==
    /\ now = 0 /\ curTime = 0 /\ version = 0 /\ lock = "free"
    /\ sched = [id \in Ids |-> Absent]
    /\ out = [pc |-> "idle", i |-> 1, msg |-> NoMessage, todo |-> {}, began |-> 0]
    /\ rdr = [pc |-> "idle", id |-> Handlers[1], msg |-> NoMessage]
    /\ firstDue = [id \in Ids |-> 0]
    /\ lastSlot = [id \in Ids |-> -1]
    /\ stale = {}

Tick ==
    /\ now < MaxTime
    /\ now' = now + 1
    /\ UNCHANGED <<curTime, version, sched, lock, out, rdr, firstDue, lastSlot, stale>>

(* A received frame is parsed into CarState. *)
Parse ==
    /\ rdr.pc = "idle" /\ version < MaxVersion
    /\ version' = version + 1
    /\ UNCHANGED <<now, curTime, sched, lock, out, rdr, firstDue, lastSlot, stale>>

-----------------------------------------------------------------------------
(* SendImmediateMessage on the reader's task: generate, AddOrUpdateMessage,*)
(* SendImmedateMessage, with the mutex released in between.                *)

Signal(id) ==
    /\ rdr.pc = "idle"
    /\ \E msg \in Generated(id) : rdr' = [pc |-> "add", id |-> id, msg |-> msg]
    /\ UNCHANGED <<now, curTime, version, sched, lock, out, firstDue, lastSlot, stale>>

ImmediateAdd ==
    /\ rdr.pc = "add"
    /\ \/ lock = "free" /\ AddOrUpdate(rdr.id, rdr.msg)
       \/ lock = "output" /\ UNCHANGED <<sched, firstDue>>
    /\ rdr' = [rdr EXCEPT !.pc = "send", !.msg = NoMessage]
    /\ UNCHANGED <<now, curTime, version, lock, out, lastSlot, stale>>

ImmediateLock ==
    /\ rdr.pc = "send"
    /\ \/ lock = "free" /\ lock' = "reader" /\ rdr' = [rdr EXCEPT !.pc = "sending"]
       \/ lock = "output" /\ rdr' = [rdr EXCEPT !.pc = "idle"] /\ UNCHANGED lock
    /\ UNCHANGED <<now, curTime, version, sched, out, firstDue, lastSlot, stale>>

(* The frame, if the entry exists, is handed to the driver; its slots stay.*)
ImmediateSend ==
    /\ rdr.pc = "sending"
    /\ lock' = "free" /\ rdr' = [rdr EXCEPT !.pc = "idle"]
    /\ UNCHANGED <<now, curTime, version, sched, out, firstDue, lastSlot, stale>>

-----------------------------------------------------------------------------
(* A round of the output task: GenerateMessages, then UpdateMessages.      *)

Current == Handlers[out.i]

(* Where the round goes once the current handler is done with. *)
NextHandler ==
    IF out.i < Len(Handlers)
    THEN [out EXCEPT !.pc = "check", !.i = @ + 1, !.msg = NoMessage]
    ELSE [out EXCEPT !.pc = "update", !.i = 1, !.msg = NoMessage]

EndRound ==
    /\ out' = [out EXCEPT !.pc = "idle", !.began = 0]
    /\ stale' = {}

StartRound ==
    /\ out.pc = "idle"
    /\ curTime' = now
    /\ out' = [out EXCEPT !.pc = "check", !.began = version]
    /\ UNCHANGED <<now, version, sched, lock, rdr, firstDue, lastSlot, stale>>

(* As if an id that is just due were not generated.                        *)
CheckDue_Strict ==
    /\ out.pc = "check"
    /\ out' = IF lock = "free" /\ Scheduled(Current) /\ curTime <= sched[Current].nextDue
              THEN NextHandler ELSE [out EXCEPT !.pc = "generate"]
    /\ UNCHANGED <<now, curTime, version, sched, lock, rdr, firstDue, lastSlot, stale>>

(* ShouldGenerateMessage: unknown and due ids, and every id on a timeout. *)
CheckDue ==
    /\ out.pc = "check"
    /\ out' = IF lock = "free" /\ Scheduled(Current) /\ ~IsDue(Current, curTime)
              THEN NextHandler ELSE [out EXCEPT !.pc = "generate"]
    /\ UNCHANGED <<now, curTime, version, sched, lock, rdr, firstDue, lastSlot, stale>>

Generate ==
    /\ out.pc = "generate"
    /\ \E msg \in Generated(Current) : out' = [out EXCEPT !.pc = "add", !.msg = msg]
    /\ UNCHANGED <<now, curTime, version, sched, lock, rdr, firstDue, lastSlot, stale>>

PeriodicAdd ==
    /\ out.pc = "add"
    /\ \/ lock = "free" /\ AddOrUpdate(Current, out.msg) /\ UNCHANGED stale
       \/ /\ lock = "reader"
          /\ stale' = stale \union {Current}
          /\ UNCHANGED <<sched, firstDue>>
    /\ out' = NextHandler
    /\ UNCHANGED <<now, curTime, version, lock, rdr, lastSlot>>

UpdateLock ==
    /\ out.pc = "update"
    /\ \/ /\ lock = "free" /\ lock' = "output"
          /\ out' = [out EXCEPT !.pc = "updating", !.todo = {id \in Ids : Scheduled(id)}]
          /\ UNCHANGED stale
       \/ lock = "reader" /\ EndRound /\ UNCHANGED lock
    /\ UNCHANGED <<now, curTime, version, sched, rdr, firstDue, lastSlot>>

(* One entry of the loop of Update, in the map's unspecified order. *)
UpdateEntry(id) ==
    /\ out.pc = "updating" /\ id \in out.todo
    /\ out' = [out EXCEPT !.todo = @ \ {id}]
    /\ IF IsDue(id, curTime)
       THEN /\ sched' = [sched EXCEPT ![id].nextDue = SlotAfter(@, Period[id], curTime)]
            /\ lastSlot' = IF sched[id].active
                           THEN [lastSlot EXCEPT ![id] = curTime] ELSE lastSlot
       ELSE UNCHANGED <<sched, lastSlot>>
    /\ UNCHANGED <<now, curTime, version, lock, rdr, firstDue, stale>>

UpdateUnlock ==
    /\ out.pc = "updating" /\ out.todo = {}
    /\ lock' = "free" /\ EndRound
    /\ UNCHANGED <<now, curTime, version, sched, rdr, firstDue, lastSlot>>

-----------------------------------------------------------------------------
Reader == Parse \/ (\E id \in SignalIds : Signal(id))
            \/ ImmediateAdd \/ ImmediateLock \/ ImmediateSend

Output == StartRound \/ CheckDue \/ Generate \/ PeriodicAdd
            \/ UpdateLock \/ (\E id \in Ids : UpdateEntry(id)) \/ UpdateUnlock

Next == Tick \/ Reader \/ Output

Spec == Init /\ [][Next]_vars

-----------------------------------------------------------------------------
(* The types of the variables; the mutex is held exactly by the task that  *)
(* is handing frames to the driver.                                        *)
TypeOK ==
    /\ now \in 0..MaxTime /\ curTime \in 0..now /\ version \in 0..MaxVersion
    /\ sched \in [Ids -> {Absent} \union
                         [content : 0..MaxVersion, active : BOOLEAN, nextDue : Nat]]
    /\ out \in [pc : {"idle", "check", "generate", "add", "update", "updating"},
                i : DOMAIN Handlers, msg : Message, todo : SUBSET Ids,
                began : 0..MaxVersion]
    /\ rdr \in [pc : {"idle", "add", "send", "sending"}, id : Ids, msg : Message]
    /\ firstDue \in [Ids -> Nat]
    /\ lastSlot \in [Ids -> -1..MaxTime] /\ stale \subseteq Ids
    /\ lock \in {"free", "output", "reader"}
    /\ lock = "output" <=> out.pc = "updating"
    /\ lock = "reader" <=> rdr.pc = "sending"

(* A message's slots never drift: late rounds, skipped rounds, refreshed   *)
(* contents and immediate sends leave them at first slot + k periods.      *)
NoPhaseDrift ==
    \A id \in Ids : Scheduled(id) => (sched[id].nextDue - firstDue[id]) % Period[id] = 0

(* No message is put off by more than one period, or by its offset while   *)
(* it is new: whatever the stale time an entry is made or served with, its *)
(* next slot is at most that far from CurrenTime.                          *)
NextSlotInReach ==
    \A id \in Ids : Scheduled(id) =>
        \/ sched[id].nextDue <= curTime + Period[id]
        \/ sched[id].nextDue = firstDue[id] /\ firstDue[id] <= curTime + Offset[id]

(* The schedule of every message: held under the mutex by one task at a    *)
(* time, on its grid, and never put off beyond its period.                 *)
ScheduleInv == TypeOK /\ NoPhaseDrift /\ NextSlotInReach

(* However late a round comes, it sends a message once and not once per    *)
(* missed slot: two periodic sends of an id are in different slots.        *)
Slot(id, t) == (t - firstDue[id]) \div Period[id]
OneSendPerSlot ==
    [][\A id \in Ids : lastSlot'[id] # lastSlot[id] /\ lastSlot[id] # -1
            => Slot(id, lastSlot'[id]) > Slot(id, lastSlot[id])]_vars

(* A periodic frame is never staler than the round that sends it: what     *)
(* Update sends was generated from a vehicle state at least as new as the  *)
(* one the round began with, unless its refresh was skipped for the mutex. *)
FreshWithinRound ==
    \A id \in Ids :
        out.pc = "updating" /\ id \in out.todo /\ IsDue(id, curTime) /\ id \notin stale
            => sched[id].content >= out.began
=============================================================================
