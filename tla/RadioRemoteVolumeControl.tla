---------------------- MODULE RadioRemoteVolumeControl ----------------------
(***************************************************************************)
(* The remote stalk of the radio, from the VAN frame 9C4 to the CAN frame  *)
(* 21F.  A turn of its wheel within 3 s of a volume button is taken out of *)
(* what is forwarded and becomes a short press of that button instead.     *)
(* The reader task parses the frame and sends 21F at once, twice for such  *)
(* a press; the output task sends it periodically.  Both go through        *)
(* CarState and through the scheduler (see MessageScheduler), of which one *)
(* entry is left here, and its mutex.  Both tasks are pinned to one core,  *)
(* and the reader has the higher priority.  The options that change what   *)
(* 21F says are off, and the other fields of both frames are left out.     *)
(***************************************************************************)
EXTENDS Integers

CONSTANTS
  Top,             (* the last position of the wheel, 0xFF                 *)
  Wrap,            (* where it goes on beyond either end, 0x80             *)
  StartPositions,  (* where it may be when the first frame comes           *)
  MaxTurn,         (* bounds its turns between two frames                  *)
  MaxFrames        (* bounds the frames                                    *)

ASSUME RemoteAssumption ==
  /\ Top \in Nat /\ Wrap \in 1 .. Top
  /\ StartPositions \subseteq 0 .. Top
  /\ MaxTurn \in Nat /\ MaxFrames \in Nat

VARIABLES
  stalk,           (* the wheel and the buttons as the next frame has them *)
  control,         (* RadioRemoteVolumeControl                             *)
  remote,          (* CarState.RadioRemote                                 *)
  scheduled,       (* the scheduler's entry of 21F                         *)
  lock,            (* who holds the scheduler's mutex                      *)
  reader,          (* where the reader task is, and what it has generated  *)
  out,             (* where the output task is, and what it has generated  *)
  radio,           (* what the receiver of 21F makes of it, and history:    *)
                   (* the volume command it has not seen yet                *)
  moved            (* history: the frames, and the steps the radio is to see*)

vars == <<stalk, control, remote, scheduled, lock, reader, out, radio, moved>>

-----------------------------------------------------------------------------
(* Positions of the wheel.                                                 *)

Scrolls == [position : 0 .. Top, negative : BOOLEAN, positive : BOOLEAN]
Commands == {"none", "minus", "plus"}
Remotes == [scroll : Scrolls, minus : BOOLEAN, plus : BOOLEAN]

AtZero == [position |-> 0, negative |-> FALSE, positive |-> FALSE]
Untouched == [scroll |-> AtZero, minus |-> FALSE, plus |-> FALSE]
NotScheduled == [Untouched EXCEPT !.scroll.position = -1]

Increment(s) ==
  IF s.position = Top THEN [s EXCEPT !.position = Wrap, !.positive = ~@]
                      ELSE [s EXCEPT !.position = @ + 1]

Decrement(s) ==
  IF s.position = 0 THEN [s EXCEPT !.position = Wrap, !.negative = ~@]
                    ELSE [s EXCEPT !.position = @ - 1]

Advance(s, delta) ==
  LET up[n \in Nat] == IF n = 0 THEN s ELSE Increment(up[n - 1])
      down[n \in Nat] == IF n = 0 THEN s ELSE Decrement(down[n - 1])
  IN IF delta >= 0 THEN up[delta] ELSE down[-delta]

(* The 16-bit arithmetic of the code does not overflow here.               *)
ScrollDelta(previous, current) ==
  CASE current.negative # previous.negative ->
         -(previous.position + 1 + Wrap - current.position)
    [] current.negative = previous.negative /\ current.positive # previous.positive ->
         Top - previous.position + 1 + current.position - Wrap
    [] OTHER -> current.position - previous.position

-----------------------------------------------------------------------------
(* The CAN frame 21F at its receiver, which counts the steps of the wheel  *)
(* as the bridge does.                                                     *)

Command(r) == IF r.minus THEN "minus" ELSE IF r.plus THEN "plus" ELSE "none"

Receive21F(frame) ==
  radio' = [radio EXCEPT
              !.steps = @ + ScrollDelta(radio.scroll, frame.scroll),
              !.scroll = frame.scroll,
              !.command = Command(frame),
              !.awaited = IF Command(frame) = @ THEN "none" ELSE @]

-----------------------------------------------------------------------------
(* The reader task.                                                        *)

(* The stalk is used between two frames.                                   *)
Use(turn, button) ==
  [scroll |-> Advance(stalk.scroll, turn), minus |-> button = "minus", plus |-> button = "plus"]

(* The two windows: after a button, and after a turn in either of them.    *)
Pushed(input) ==
  (input.minus /\ ~control.minus) \/ (input.plus /\ ~control.plus)

WindowOpen(input) == Pushed(input) \/ control.buttonWindow \/ control.scrollWindow

Physical(input) == IF control.initialized THEN control.physical ELSE input.scroll
Forwarded(input) == IF control.initialized THEN control.forwarded ELSE input.scroll
Delta(input) == ScrollDelta(Physical(input), input.scroll)
Suppressed(input) == Delta(input) # 0 /\ WindowOpen(input)

(* As if the position of the wheel were taken over instead of its turn.    *)
NextForwarded_Resync(input) ==
  IF Suppressed(input) THEN Forwarded(input) ELSE input.scroll

NextForwarded(input) ==
  IF Suppressed(input) THEN Forwarded(input) ELSE Advance(Forwarded(input), Delta(input))

(* RadioRemoteVolumeControl::Process, and what Parse makes of its result:  *)
(* the pulse replaces the buttons until it has been sent.                  *)
Process(input) ==
  /\ control' = [initialized |-> TRUE, minus |-> input.minus, plus |-> input.plus,
                 physical |-> input.scroll, forwarded |-> NextForwarded(input),
                 buttonWindow |-> Pushed(input) \/ control.buttonWindow,
                 scrollWindow |-> Suppressed(input)
                                    \/ (control.scrollWindow /\ ~Pushed(input))]
  /\ remote' = [scroll |-> NextForwarded(input),
                minus |-> IF Suppressed(input) THEN Delta(input) < 0 ELSE input.minus,
                plus |-> IF Suppressed(input) THEN Delta(input) > 0 ELSE input.plus]

(* The flags tell that an end was passed between two positions, but not    *)
(* how often.                                                              *)
SameFlags(s, t) == s.negative = t.negative /\ s.positive = t.positive
PassedAnEnd == ~SameFlags(remote.scroll, remote'.scroll)

(* Where this happens while the output task has generated a part of 21F or *)
(* all of it, the radio is sent a flag that is stale beside the position,  *)
(* or a position from before the end after one from beyond it.             *)
RacesOutput == PassedAnEnd /\ out.pc \in {"position", "add"}

(* Where it happens before the radio has seen that an end was passed       *)
(* before, or the wheel is turned so far between two frames that it may    *)
(* have passed an end twice, no flags tell what became of the wheel.       *)
OutrunsFlags(turn) ==
  \/ PassedAnEnd /\ ~SameFlags(radio.scroll, remote.scroll)
  \/ turn > Top + 1 - Wrap
  \/ -turn > Wrap + 1

Parse9C4(turn, button) ==
  LET input == Use(turn, button) IN
  /\ reader.pc = "idle"
  /\ moved.frames < MaxFrames
  /\ stalk' = input
  /\ Process(input)
  /\ reader' = [pc |-> "add", pulse |-> Suppressed(input), message |-> remote']
  /\ moved' =
       [frames |-> moved.frames + 1,
        steps |-> IF control.initialized
                    THEN moved.steps + turn - (IF Suppressed(input) THEN Delta(input) ELSE 0)
                    ELSE ScrollDelta(remote.scroll, input.scroll),
        raced |-> moved.raced \/ RacesOutput,
        outrun |-> moved.outrun \/ OutrunsFlags(turn)]
  /\ radio' = [radio EXCEPT !.awaited = IF Suppressed(input) THEN Command(remote') ELSE "none"]
  /\ UNCHANGED <<scheduled, lock, out>>

(* SendImmediateMessage, which is skipped where the output task holds the  *)
(* mutex for too long.                                                     *)
ImmediateAdd ==
  /\ reader.pc = "add"
  /\ \/ lock = "free" /\ scheduled' = reader.message /\ UNCHANGED radio
     \/ lock = "output" /\ radio' = [radio EXCEPT !.awaited = "none"] /\ UNCHANGED scheduled
  /\ reader' = [reader EXCEPT !.pc = "send"]
  /\ UNCHANGED <<stalk, control, remote, lock, out, moved>>

(* Parse after the first SendImmediateMessage of a pulse: the buttons are  *)
(* released and 21F is generated again.                                    *)
Released == [remote EXCEPT !.minus = FALSE, !.plus = FALSE]

(* As if the second message were sent with the pulse still in CarState.    *)
AfterSend_NotReleased ==
  /\ reader' = IF reader.pulse THEN [pc |-> "add", pulse |-> FALSE, message |-> remote]
                               ELSE [reader EXCEPT !.pc = "idle", !.message = Untouched]
  /\ UNCHANGED remote

AfterSend ==
  IF reader.pulse
    THEN /\ remote' = Released
         /\ reader' = [pc |-> "add", pulse |-> FALSE, message |-> Released]
    ELSE /\ reader' = [reader EXCEPT !.pc = "idle", !.message = Untouched]
         /\ UNCHANGED remote

ImmediateLock ==
  /\ reader.pc = "send"
  /\ lock = "free"
  /\ lock' = "reader"
  /\ reader' = [reader EXCEPT !.pc = "sending"]
  /\ UNCHANGED <<stalk, control, remote, scheduled, out, radio, moved>>

ImmediateRefused ==
  /\ reader.pc = "send"
  /\ lock = "output"
  /\ AfterSend
  /\ radio' = [radio EXCEPT !.awaited = "none"]
  /\ UNCHANGED <<stalk, control, scheduled, lock, out, moved>>

(* The driver may block while the frame is handed over.                    *)
ImmediateSend ==
  /\ reader.pc = "sending"
  /\ IF scheduled # NotScheduled THEN Receive21F(scheduled) ELSE UNCHANGED radio
  /\ lock' = "free"
  /\ AfterSend
  /\ UNCHANGED <<stalk, control, scheduled, out, moved>>

-----------------------------------------------------------------------------
(* The output task, which runs while the reader has nothing to do or waits *)
(* for the mutex or for the driver.                                        *)

OutputRuns ==
  reader.pc \in {"idle", "sending"} \/ (reader.pc \in {"add", "send"} /\ lock = "output")

Goto(place) == out' = [out EXCEPT !.pc = place, !.due = @ /\ place # "idle"]

(* A round in which 21F is due, or is not.  It is generated as well when   *)
(* the scheduler does not tell in time.                                    *)
StartRound(due) ==
  /\ OutputRuns /\ out.pc = "idle"
  /\ out' = [out EXCEPT !.pc = IF due \/ lock = "reader" \/ scheduled = NotScheduled
                                 THEN "generate" ELSE "update",
                        !.due = due]
  /\ UNCHANGED <<stalk, control, remote, scheduled, lock, reader, radio, moved>>

(* Generate reads the buttons and the flags (one step here) first and the  *)
(* position last.                                                          *)
GenerateCommand ==
  /\ OutputRuns /\ out.pc = "generate"
  /\ out' = [out EXCEPT !.pc = "position", !.message = remote]
  /\ UNCHANGED <<stalk, control, remote, scheduled, lock, reader, radio, moved>>

GeneratePosition ==
  /\ OutputRuns /\ out.pc = "position"
  /\ out' = [out EXCEPT !.pc = "add", !.message.scroll.position = remote.scroll.position]
  /\ UNCHANGED <<stalk, control, remote, scheduled, lock, reader, radio, moved>>

PeriodicAdd ==
  /\ OutputRuns /\ out.pc = "add"
  /\ scheduled' = IF lock = "free" THEN out.message ELSE scheduled
  /\ out' = [out EXCEPT !.pc = "update", !.message = Untouched]
  /\ UNCHANGED <<stalk, control, remote, lock, reader, radio, moved>>

(* Update sends 21F when it is due, and other messages in any case.        *)
UpdateLock ==
  /\ OutputRuns /\ out.pc = "update"
  /\ \/ lock = "free" /\ lock' = "output" /\ Goto("sending")
     \/ lock = "reader" /\ Goto("idle") /\ UNCHANGED lock
  /\ UNCHANGED <<stalk, control, remote, scheduled, reader, radio, moved>>

Update ==
  /\ OutputRuns /\ out.pc = "sending"
  /\ IF out.due /\ scheduled # NotScheduled THEN Receive21F(scheduled) ELSE UNCHANGED radio
  /\ lock' = "free"
  /\ Goto("idle")
  /\ UNCHANGED <<stalk, control, remote, scheduled, reader, moved>>

-----------------------------------------------------------------------------
(* Time: a turn opens its window after the button did, or later, so that   *)
(* the window of the button is over first.                                 *)

ButtonWindowEnds ==
  /\ control.buttonWindow
  /\ control' = [control EXCEPT !.buttonWindow = FALSE]
  /\ UNCHANGED <<stalk, remote, scheduled, lock, reader, out, radio, moved>>

ScrollWindowEnds ==
  /\ control.scrollWindow
  /\ ~control.buttonWindow
  /\ control' = [control EXCEPT !.scrollWindow = FALSE]
  /\ UNCHANGED <<stalk, remote, scheduled, lock, reader, out, radio, moved>>

-----------------------------------------------------------------------------
Init ==
  /\ stalk \in {[Untouched EXCEPT !.scroll.position = p] : p \in StartPositions}
  /\ control = [initialized |-> FALSE, minus |-> FALSE, plus |-> FALSE,
                physical |-> AtZero, forwarded |-> AtZero,
                buttonWindow |-> FALSE, scrollWindow |-> FALSE]
  /\ remote = Untouched
  /\ scheduled = NotScheduled
  /\ lock = "free"
  /\ reader = [pc |-> "idle", pulse |-> FALSE, message |-> Untouched]
  /\ out = [pc |-> "idle", due |-> FALSE, message |-> Untouched]
  /\ radio = [scroll |-> AtZero, steps |-> 0, command |-> "none", awaited |-> "none"]
  /\ moved = [frames |-> 0, steps |-> 0, raced |-> FALSE, outrun |-> FALSE]

Reader ==
  \/ \E turn \in -MaxTurn .. MaxTurn, button \in Commands : Parse9C4(turn, button)
  \/ ImmediateAdd
  \/ ImmediateLock
  \/ ImmediateRefused
  \/ ImmediateSend

Output ==
  \/ \E due \in BOOLEAN : StartRound(due)
  \/ GenerateCommand
  \/ GeneratePosition
  \/ PeriodicAdd
  \/ UpdateLock
  \/ Update

Next == Reader \/ Output \/ ButtonWindowEnds \/ ScrollWindowEnds

Spec == Init /\ [][Next]_vars

(* Both tasks run, and 21F is due again and again.                         *)
FairSpec ==
  /\ Spec
  /\ WF_vars(ImmediateAdd \/ ImmediateLock \/ ImmediateRefused \/ ImmediateSend)
  /\ WF_vars(Output)
  /\ SF_vars(StartRound(TRUE))

-----------------------------------------------------------------------------
TypeOK ==
  /\ stalk \in Remotes /\ remote \in Remotes
  /\ control \in [initialized : BOOLEAN, minus : BOOLEAN, plus : BOOLEAN,
                  physical : Scrolls, forwarded : Scrolls,
                  buttonWindow : BOOLEAN, scrollWindow : BOOLEAN]
  /\ scheduled \in Remotes \cup {NotScheduled}
  /\ lock \in {"free", "reader", "output"}
  /\ reader \in [pc : {"idle", "add", "send", "sending"}, pulse : BOOLEAN, message : Remotes]
  /\ out \in [pc : {"idle", "generate", "position", "add", "update", "sending"},
              due : BOOLEAN, message : Remotes]
  /\ radio \in [scroll : Scrolls, steps : Int, command : Commands, awaited : Commands]
  /\ lock = "reader" <=> reader.pc = "sending"
  /\ lock = "output" <=> out.pc = "sending"

(* The radio makes of the frames it has seen, and of the position that is  *)
(* still to be sent, all the turns of the wheel but those that became a    *)
(* volume command: however often the wheel or the forwarded position       *)
(* passes either end, and whichever frames are skipped, overtaken or       *)
(* generated from two positions, up to the first time that was at an end   *)
(* (see RacesOutput) or that a position passed an end again before the     *)
(* radio had seen it pass one, or could have between two frames (see       *)
(* OutrunsFlags; 128 steps with the real ends).  The first frame counts    *)
(* from position 0.                                                        *)
RadioFollowsWheel ==
  ~moved.raced /\ ~moved.outrun =>
    radio.steps + ScrollDelta(radio.scroll, remote.scroll) = moved.steps

(* A turn that became a volume command has been seen as one when the       *)
(* reader is done with it, unless the mutex was refused.                   *)
PulseArrives ==
  reader.pc = "idle" => radio.awaited = "none"

RadioInv == TypeOK /\ RadioFollowsWheel /\ PulseArrives

(* A volume command ends: when the stalk is left alone, the radio is no    *)
(* longer told to change the volume, whatever was refused or overtaken.    *)
VolumeEnds ==
  <>[](reader.pc = "idle" /\ ~stalk.minus /\ ~stalk.plus) => <>[](radio.command = "none")
=============================================================================
