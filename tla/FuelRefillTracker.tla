-------------------------- MODULE FuelRefillTracker -------------------------
(***************************************************************************)
(* FuelRefillTracker: fuel levels sampled while the ignition is on, a      *)
(* checkpoint of the last level that counted, a record of refills, and the *)
(* file both are kept in.  SaveState writes a temporary file and renames   *)
(* it, so that a save is one step that replaces the file or leaves it.     *)
(*                                                                         *)
(* Process runs on the task that sends to the destination bus, the DELETE  *)
(* request on the web server's, and the power can go between any two       *)
(* saves.  A call of Process that is not due for a sample and sees no new  *)
(* ignition state changes nothing and is not a step.  Timestamps are left  *)
(* out; FormatTimestamp can only make a save fail.                         *)
(***************************************************************************)
EXTENDS Integers, FiniteSets, SequencesExt

CONSTANTS
  Levels,                  (* the fuel levels read, in percent             *)
  Odometers,               (* the odometer readings                        *)
  SampleCount,             (* 5 in the code                                *)
  HistoryCapacity,         (* 5 in the code                                *)
  MaximumStableSpread,     (* 2 in the code                                *)
  RefillIncrease,          (* 8 in the code                                *)
  CheckpointDecrease,      (* 2 in the code                                *)
  DuplicateDistance,       (* 10 in the code                               *)
  None

Checkpoints == [level : Levels, odometer : Odometers]
Refills == [before : Levels, after : Levels, odometer : Odometers]
States == [checkpoint : Checkpoints \cup {None},
           checkpoints : Seq(Checkpoints), refills : Seq(Refills)]

(* AddSample reads FuelLevel a second time after IsFuelLevelValid; that it *)
(* still finds a level of at most 100 there is an assumption.              *)
ASSUME FuelAssumption ==
  /\ Levels \subseteq 0 .. 100
  /\ Odometers \subseteq Nat
  /\ SampleCount \in Nat \ {0}
  /\ HistoryCapacity \in Nat \ {0}
  /\ MaximumStableSpread \in Nat
  /\ RefillIncrease \in Nat \ {0}
  /\ CheckpointDecrease \in Nat \ {0}
  /\ DuplicateDistance \in Nat
  /\ None \notin Checkpoints \cup States

VARIABLES
  state,                   (* _state                                       *)
  file,                    (* fuel_tracker.json                            *)
  samples,                 (* _samples, the oldest first                   *)
  previousIgnition,        (* None until _ignitionStateInitialized         *)
  startupCheckComplete,
  offCheckpointHandled,
  pending,                 (* ProcessStartup between its two saves         *)
  ignition,                (* CarState.Ignition, set by the reading tasks  *)
  savesWork                (* whether the clock and the flash allow a save *)

tracker == <<samples, previousIgnition, startupCheckComplete, offCheckpointHandled>>
vars == <<state, file, tracker, pending, ignition, savesWork>>

NoState == [checkpoint |-> None, checkpoints |-> <<>>, refills |-> <<>>]

-----------------------------------------------------------------------------
(* The records.                                                            *)

Push(history, record, capacity) ==
  Append(IF Len(history) = capacity THEN Tail(history) ELSE history, record)

WithCheckpoint(s, c) ==
  [s EXCEPT !.checkpoint = c,
            !.checkpoints =
               IF @ # <<>> /\ Last(@) = c
                 THEN @ ELSE Push(@, c, HistoryCapacity)]

WithRefill(s, r) == [s EXCEPT !.refills = Push(@, r, HistoryCapacity)]

Distance(a, b) == IF a > b THEN a - b ELSE b - a

SameRefill(a, b) ==
  /\ a.before = b.before
  /\ a.after = b.after
  /\ Distance(a.odometer, b.odometer) <= DuplicateDistance

(* As if the record of an interrupted startup were not recognised.         *)
IsLastRecordDuplicate_Never(s, r) == FALSE

IsLastRecordDuplicate(s, r) == s.refills # <<>> /\ SameRefill(Last(s.refills), r)

-----------------------------------------------------------------------------
(* The samples.                                                            *)

KeyTurned == previousIgnition \notin {None, ignition}

(* The window after AddSample has seen ignition "running" and this level.  *)
WindowAfter(running, level) ==
  LET kept == IF KeyTurned THEN <<>> ELSE samples IN
  IF running = "off" THEN kept ELSE Push(kept, level, SampleCount)

Below(window, level) == Cardinality({i \in DOMAIN window : window[i] < level})
UpTo(window, level) == Cardinality({i \in DOMAIN window : window[i] <= level})

IsStable(window) ==
  /\ Len(window) = SampleCount
  /\ \A i, j \in DOMAIN window : window[i] - window[j] <= MaximumStableSpread

(* sortedSamples[SampleCount / 2]                                          *)
StableLevel(window) ==
  CHOOSE level \in ToSet(window) :
    /\ Below(window, level) <= SampleCount \div 2
    /\ UpTo(window, level) > SampleCount \div 2

-----------------------------------------------------------------------------
(* What ProcessStartup and ProcessIgnitionOff do with a stable level: the  *)
(* state they try to save (None when they save nothing), whether the call  *)
(* goes on to a second save, and whether the startup check is complete.    *)

Outcome(newState, second, complete) ==
  [state |-> newState, second |-> second, complete |-> complete]

(* As if a suppressed duplicate counted as a failure of AppendRefill.      *)
AppendRefill_DuplicateFails(r) ==
  IF IsLastRecordDuplicate(state, r) THEN Outcome(None, FALSE, FALSE)
                                     ELSE Outcome(WithRefill(state, r), TRUE, FALSE)

(* As if the checkpoint were saved before the refill.                      *)
AppendRefill_CheckpointFirst(r) ==
  Outcome(WithCheckpoint(state, [level |-> r.after, odometer |-> r.odometer]), TRUE, FALSE)

AppendRefill(r) ==
  IF IsLastRecordDuplicate(state, r) THEN Outcome(None, TRUE, FALSE)
                                     ELSE Outcome(WithRefill(state, r), TRUE, FALSE)

(* As if a fall of the level did not move the checkpoint.                  *)
ProcessStartup_NoDecrease(level, odometer) ==
  LET c == state.checkpoint IN
  CASE c = None ->
         Outcome(WithCheckpoint(state, [level |-> level, odometer |-> odometer]), FALSE, TRUE)
    [] c # None /\ level >= c.level + RefillIncrease ->
         AppendRefill([before |-> c.level, after |-> level, odometer |-> odometer])
    [] OTHER -> Outcome(None, FALSE, TRUE)

ProcessStartup(level, odometer) ==
  LET c == state.checkpoint
      moved == WithCheckpoint(state, [level |-> level, odometer |-> odometer])
  IN
  CASE c = None -> Outcome(moved, FALSE, TRUE)
    [] c # None /\ level >= c.level + RefillIncrease ->
         AppendRefill([before |-> c.level, after |-> level, odometer |-> odometer])
    [] c # None /\ c.level >= level + CheckpointDecrease -> Outcome(moved, FALSE, TRUE)
    [] OTHER -> Outcome(None, FALSE, TRUE)

ProcessIgnitionOff(level, odometer) ==
  LET c == state.checkpoint IN
  IF c # None /\ c.level >= level + CheckpointDecrease
    THEN Outcome(WithCheckpoint(state, [level |-> level, odometer |-> odometer]), FALSE, FALSE)
    ELSE Outcome(None, FALSE, FALSE)

-----------------------------------------------------------------------------
TypeOK ==
  /\ state \in States
  /\ Len(state.checkpoints) <= HistoryCapacity
  /\ Len(state.refills) <= HistoryCapacity
  /\ file \in States \cup {None}
  /\ samples \in Seq(Levels)
  /\ Len(samples) <= SampleCount
  /\ previousIgnition \in {"on", "off", None}
  /\ startupCheckComplete \in BOOLEAN
  /\ offCheckpointHandled \in BOOLEAN
  /\ pending \in Checkpoints \cup {None}
  /\ ignition \in {"on", "off"}
  /\ savesWork \in BOOLEAN

Init ==
  /\ state = NoState
  /\ file = None
  /\ samples = <<>>
  /\ previousIgnition = None
  /\ startupCheckComplete = FALSE
  /\ offCheckpointHandled = FALSE
  /\ pending = None
  /\ ignition = "off"
  /\ savesWork \in BOOLEAN

(* As if memory were updated before the file.                              *)
Save_MemoryFirst(newState) ==
  /\ state' = newState
  /\ file' = IF savesWork THEN newState ELSE file

Save(newState) ==
  IF savesWork THEN state' = newState /\ file' = newState
               ELSE UNCHANGED <<state, file>>

(* Process finds the clock or the level unusable, or runs within the first *)
(* seconds after the start.                                                *)
ProcessUnusable ==
  /\ pending = None
  /\ samples' = <<>>
  /\ UNCHANGED <<state, file, previousIgnition, startupCheckComplete,
                 offCheckpointHandled, pending, ignition, savesWork>>

(* The part of Process that both kinds of call share.  AddSample reads the *)
(* ignition again, so that a key turned meanwhile counts for the sample.   *)
TakeSample(running, level) ==
  /\ pending = None
  /\ samples' = WindowAfter(running, level)
  /\ previousIgnition' = ignition
  /\ ignition' = running
  /\ UNCHANGED savesWork

StartupDone == startupCheckComplete /\ ~(KeyTurned /\ ignition = "on")
OffHandled == offCheckpointHandled /\ ~KeyTurned

Decides == /\ IsStable(samples')
           /\ IF ignition = "on" THEN ~StartupDone ELSE ~OffHandled

(* Process with a sample that decides nothing.                             *)
ProcessSample(running, level) ==
  /\ TakeSample(running, level)
  /\ ~Decides
  /\ startupCheckComplete' = StartupDone
  /\ offCheckpointHandled' = OffHandled
  /\ UNCHANGED <<state, file, pending>>

Completes(outcome) == outcome.complete /\ (outcome.state = None \/ savesWork)

(* Process with a sample that makes the level stable.                      *)
ProcessStable(running, level, odometer) ==
  /\ TakeSample(running, level)
  /\ Decides
  /\ LET stable == StableLevel(samples')
         outcome == IF ignition = "on" THEN ProcessStartup(stable, odometer)
                                       ELSE ProcessIgnitionOff(stable, odometer)
     IN
     /\ IF outcome.state = None THEN UNCHANGED <<state, file>> ELSE Save(outcome.state)
     /\ pending' = IF outcome.second /\ (outcome.state = None \/ savesWork)
                     THEN [level |-> stable, odometer |-> odometer] ELSE None
     /\ startupCheckComplete' = (StartupDone \/ Completes(outcome))
     /\ offCheckpointHandled' = (ignition = "off")

(* The second save of ProcessStartup, after AppendRefill.                  *)
SaveCheckpointAfterRefill ==
  /\ pending # None
  /\ Save(WithCheckpoint(state, pending))
  /\ pending' = None
  /\ startupCheckComplete' = (startupCheckComplete \/ savesWork)
  /\ UNCHANGED <<samples, previousIgnition, offCheckpointHandled, ignition, savesWork>>

(* DELETE /api/fuel_tracker.json removes the file and leaves _state.       *)
DeletePersistedData ==
  /\ file # None
  /\ file' = None
  /\ UNCHANGED <<state, tracker, pending, ignition, savesWork>>

(* LoadState keeps the empty state when there is no file or it cannot be   *)
(* read, for want of memory say.                                           *)
LoadState == state' \in {NoState} \cup ({file} \ {None})

(* The power goes and comes back: the constructor calls LoadState.         *)
Restart ==
  /\ LoadState
  /\ samples' = <<>>
  /\ previousIgnition' = None
  /\ startupCheckComplete' = FALSE
  /\ offCheckpointHandled' = FALSE
  /\ pending' = None
  /\ ignition' = "off"
  /\ UNCHANGED <<file, savesWork>>

TurnKey ==
  /\ ignition' = IF ignition = "on" THEN "off" ELSE "on"
  /\ UNCHANGED <<state, file, tracker, pending, savesWork>>

ClockOrFlashChanges ==
  /\ savesWork' = ~savesWork
  /\ UNCHANGED <<state, file, tracker, pending, ignition>>

Process ==
  \/ ProcessUnusable
  \/ \E running \in {"on", "off"}, level \in Levels :
       \/ ProcessSample(running, level)
       \/ \E odometer \in Odometers : ProcessStable(running, level, odometer)

Next ==
  \/ Process
  \/ SaveCheckpointAfterRefill
  \/ DeletePersistedData
  \/ Restart
  \/ TurnKey
  \/ ClockOrFlashChanges

Spec == Init /\ [][Next]_vars

(* The task's loop calls Process again and again.  ProcessStartup comes to *)
(* its second save unless the power goes, and the power does not go each   *)
(* time between the same two saves.                                        *)
FairSpec == Spec /\ WF_vars(Process) /\ SF_vars(SaveCheckpointAfterRefill)

-----------------------------------------------------------------------------
(* What the tracker has in memory is in the file, where the file was not   *)
(* deleted, however saves fail and wherever the power goes: _state is      *)
(* assigned only after SaveState has replaced the file.                    *)
FileHoldsState == state # NoState => file \in {None, state}

(* A refuelling is recorded once: no two neighbours in the record are the  *)
(* same refill, although AppendRefill and SaveCheckpoint are two saves and *)
(* a failed save or a power cut between them makes the startup check run   *)
(* again against the old checkpoint.                                       *)
NoRefillTwice ==
  \A i \in 1 .. Len(state.refills) - 1 :
    ~SameRefill(state.refills[i], state.refills[i + 1])

(* The checkpoint the next refill is measured against is the newest of the *)
(* checkpoint history, whatever SaveCheckpoint's own test for duplicates   *)
(* suppressed.                                                             *)
HistoryEndsAtCheckpoint ==
  state.checkpoint = IF state.checkpoints = <<>> THEN None ELSE Last(state.checkpoints)

(* The three consistency conditions of the tracker: the records fit their  *)
(* fixed buffers, memory agrees with the file, and the checkpoint agrees   *)
(* with its history, through failed saves, a deleted file and power cuts.  *)
TrackerInv == TypeOK /\ FileHoldsState /\ HistoryEndsAtCheckpoint

(* When the startup check is marked complete, the checkpoint agrees with   *)
(* the stable level just measured: less than a refill below it and less    *)
(* than a recorded decrease above it.  Otherwise a failed save would hide  *)
(* a refill or a decrease until the next start.                            *)
SettledOnMeasuredLevel ==
  [][startupCheckComplete' /\ ~startupCheckComplete =>
       /\ IsStable(samples')
       /\ state'.checkpoint # None
       /\ LET measured == StableLevel(samples') IN
            /\ measured < state'.checkpoint.level + RefillIncrease
            /\ state'.checkpoint.level < measured + CheckpointDecrease]_vars

(* A refill is recorded before the checkpoint moves up to its level: while *)
(* the tracker runs, the checkpoint never rises by RefillIncrease without  *)
(* the newest refill ending at the new level, whatever was deleted, failed *)
(* or lost in between.                                                     *)
NoRiseWithoutRefill ==
  [][LET old == state.checkpoint new == state'.checkpoint IN
     (old # None /\ new # None /\ new.level >= old.level + RefillIncrease)
       => state'.refills # <<>> /\ Last(state'.refills).after = new.level]_vars

(* Where saves work in the end, a level that keeps becoming stable with    *)
(* the ignition on completes the startup check again and again: a refill   *)
(* recorded by an interrupted startup does not stop the ones after it.     *)
EveryStartupSettles ==
  (<>[]savesWork /\ []<>(previousIgnition = "on" /\ IsStable(samples)))
    => []<>startupCheckComplete
=============================================================================
