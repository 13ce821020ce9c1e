----------------------- MODULE CanDisplayPopupHandler -----------------------
(***************************************************************************)
(* CanDisplayPopupHandler3: the popups of the display.  The reader task    *)
(* queues popups, clears the seat belt warning and passes the ignition on; *)
(* the output task runs Process.  There is no lock.  Both tasks are pinned *)
(* to one core and the reader has the higher priority: a call of the       *)
(* reader is one step, except that hiding a popup sends it at once, which  *)
(* waits for the scheduler's mutex; Process can be preempted anywhere.     *)
(***************************************************************************)
EXTENDS Naturals

CONSTANTS
  Doors,           (* what DoorStatus1 says when a door is open            *)
  Popups,          (* the other popups the messages ask for                *)
  MaxQueued        (* bounds how often they do                             *)

ASSUME PopupAssumption ==
  /\ 0 \notin Doors
  /\ Popups \subseteq {"ice", "belt", "espOn", "espOff", "other"}
  /\ MaxQueued \in Nat

VARIABLES
  car,             (* CarState: Ignition and DoorStatus                    *)
  isIgnitionOn,
  display,         (* CarState.DisplayMessage: Field1 and the rest         *)
  current,         (* currentPopupMessage, by its type                     *)
  currentDoor,     (* DoorStatus1 of currentDoorMessage                    *)
  visible,         (* isPopupVisible, isDoorMessageVisible and             *)
                   (* isNonDoorMessageVisible                              *)
  shown,           (* riskOfIceShown, seatbeltWarningShown and the         *)
                   (* esp...Shown that are set                             *)
  age,             (* the time since popupAddedToShow: "seen" once Process *)
                   (* has begun since, "old" after the 6 s of display time   *)
  chilled,         (* the types last queued within MESSAGE_CHILLTIME       *)
  proc,            (* where Process is, and what it shows                  *)
  reader,          (* the call that waits while its popup is being hidden  *)
  queued,          (* counts the popups asked for                          *)
  raced            (* history: the reader changed the messages or hid the  *)
                   (* popup after Process had decided what to show, or     *)
                   (* Process showed a popup in the middle of such a call  *)

chosen == <<current, currentDoor>>
vars == <<car, isIgnitionOn, display, chosen, visible, shown, age, chilled,
          proc, reader, queued, raced>>

None == "none"
Types == Popups \cup {None}
Door(status) == [type |-> "door", doors |-> status]
Popup(type) == [type |-> type, doors |-> 0]
NoMessage == Popup(None)
Messages == {Door(s) : s \in Doors \cup {0}} \cup {Popup(t) : t \in Types}

Hidden == [command |-> "hide", message |-> NoMessage]
NotVisible == [popup |-> FALSE, door |-> FALSE, nonDoor |-> FALSE]

ReaderPlaces == {"idle", "queue", "doors", "belt", "reset", "resetBelt"}
ProcPlaces ==
  {"idle", "choose", "timeout", "hide", "hidden", "again", "door", "current",
   "command", "message", "flags", "visible"}

Deciding == proc.pc \notin {"idle", "choose"}

DoorMessageCanBeDisplayed == ~visible.nonDoor \/ current = None

-----------------------------------------------------------------------------
(* The reader task.                                                        *)

Ready == reader.pc = "idle"
Continue(place, type) == [pc |-> place, type |-> type]
Done == Continue("idle", None)

(* HideCurrentPopupMessage in the reader, which does nothing when no popup *)
(* is visible, and otherwise waits in the call at place.                   *)
HideAndWait(place, type) ==
  /\ visible.popup
  /\ display' = Hidden
  /\ visible' = NotVisible
  /\ reader' = Continue(place, type)
  /\ raced' = (raced \/ Deciding)

(* A popup that is visible here was shown while the call was waiting.      *)
SetCurrent(type) ==
  /\ current' = type
  /\ raced' = (raced \/ Deciding \/ visible.popup)

(* What has been shown already is refused.                                 *)
Refused(type) ==
  \/ type \in {"ice", "belt"} \cap shown
  \/ type = "espOn" /\ "espOn" \in shown /\ "espOff" \notin shown
  \/ type = "espOff" /\ "espOff" \in shown /\ "espOn" \notin shown

(* The new popup replaces the current one.  A run of Process that has read *)
(* the clock before may then find that it was queued in the future, and an *)
(* unsigned difference beyond the display time.                            *)
Replace(type) ==
  /\ SetCurrent(type)
  /\ visible' = [visible EXCEPT !.nonDoor = TRUE]
  /\ age' = "new"
  /\ \E future \in BOOLEAN :
       proc' = IF proc.pc = "idle" THEN proc ELSE [proc EXCEPT !.expired = future]
  /\ reader' = Done

(* QueueNewMessage with any message but that of the doors.  The message    *)
(* handler of 8A4 asks for the warning of ice when no popup is visible.    *)
QueueNewMessage(type) ==
  /\ Ready
  /\ queued < MaxQueued
  /\ queued' = queued + 1
  /\ car.ignition
  /\ type = "ice" => ~visible.popup
  /\ type \notin chilled
  /\ chilled' = chilled \cup {type}
  /\ \/ /\ Refused(type) \/ type = current
        /\ UNCHANGED <<display, current, visible, age, proc, reader, raced>>
     \/ /\ ~Refused(type) /\ type # current
        /\ \/ HideAndWait("queue", type) /\ UNCHANGED <<current, age, proc>>
           \/ ~visible.popup /\ Replace(type) /\ UNCHANGED display
  /\ UNCHANGED <<car, isIgnitionOn, currentDoor, shown>>

EndQueue ==
  /\ reader.pc = "queue"
  /\ Replace(reader.type)
  /\ UNCHANGED <<car, isIgnitionOn, display, currentDoor, shown, chilled, queued>>

(* As if a popup of other doors were left on the display.                  *)
HidesDoors_Never(status) == FALSE

HidesDoors(status) == visible.door /\ status # currentDoor

(* Message 564: the status of the doors goes into CarState and, while the  *)
(* ignition is on, to QueueNewMessage.                                     *)
QueueDoors(status) ==
  /\ Ready
  /\ car' = [car EXCEPT !.doors = status]
  /\ currentDoor' = IF car.ignition THEN status ELSE currentDoor
  /\ \/ car.ignition /\ HidesDoors(status) /\ HideAndWait("doors", None)
     \/ /\ ~(car.ignition /\ HidesDoors(status) /\ visible.popup)
        /\ raced' = (raced \/ (Deciding /\ currentDoor' # currentDoor))
        /\ UNCHANGED <<display, visible, reader>>
  /\ UNCHANGED <<isIgnitionOn, current, shown, age, chilled, proc, queued>>

EndDoors ==
  /\ reader.pc = "doors"
  /\ reader' = Done
  /\ UNCHANGED <<car, isIgnitionOn, display, chosen, visible, shown, age, chilled,
                 proc, queued, raced>>

(* Message 524 without a warning.                                          *)
ResetSeatBeltWarning ==
  /\ Ready
  /\ shown' = shown \ {"belt"}
  /\ \/ current = "belt" /\ HideAndWait("belt", None) /\ UNCHANGED current
     \/ /\ current = "belt" /\ ~visible.popup
        /\ SetCurrent(None)
        /\ UNCHANGED <<display, visible, reader>>
     \/ current # "belt" /\ UNCHANGED <<display, visible, reader, current, raced>>
  /\ UNCHANGED <<car, isIgnitionOn, currentDoor, age, chilled, proc, queued>>

EndResetSeatBeltWarning ==
  /\ reader.pc = "belt"
  /\ SetCurrent(None)
  /\ reader' = Done
  /\ UNCHANGED <<car, isIgnitionOn, display, currentDoor, visible, shown, age,
                 chilled, proc, queued>>

(* Message 8A4.                                                            *)
IgnitionOn ==
  /\ Ready
  /\ car' = [car EXCEPT !.ignition = TRUE]
  /\ isIgnitionOn' = TRUE
  /\ UNCHANGED <<display, chosen, visible, shown, age, chilled, proc, reader,
                 queued, raced>>

(* What Reset does besides hiding the popup.                               *)
ClearMessages ==
  /\ SetCurrent(None)
  /\ currentDoor' = 0
  /\ shown' = {"espOn"}
  /\ chilled' = {}
  /\ reader' = Done
  /\ UNCHANGED <<display, visible>>

(* As if the popup were hidden only when the ignition changes.             *)
MustHide_OnChange == visible.popup /\ isIgnitionOn

MustHide == visible.popup

IgnitionOff ==
  /\ Ready
  /\ car' = [car EXCEPT !.ignition = FALSE]
  /\ isIgnitionOn' = FALSE
  /\ \/ /\ MustHide
        /\ HideAndWait("reset", None)
        /\ shown' = shown \ {"ice"}
        /\ UNCHANGED <<chosen, chilled>>
     \/ ~MustHide /\ ClearMessages
  /\ UNCHANGED <<age, proc, queued>>

(* Reset goes through ResetSeatBeltWarning, which hides a popup that       *)
(* Process has shown again meanwhile.                                      *)
EndReset ==
  /\ reader.pc \in {"reset", "resetBelt"}
  /\ LET again == reader.pc = "reset" /\ current = "belt" /\ visible.popup IN
     \/ /\ again
        /\ HideAndWait("resetBelt", None)
        /\ shown' = shown \ {"belt"}
        /\ UNCHANGED <<chosen, chilled>>
     \/ ~again /\ ClearMessages
  /\ UNCHANGED <<car, isIgnitionOn, age, proc, queued>>

-----------------------------------------------------------------------------
(* Process, in the output task.                                            *)

At(place) == proc.pc = place
Goto(place) == proc' = [proc EXCEPT !.pc = place]
readerVars == <<car, isIgnitionOn, current, currentDoor, shown, chilled, reader, queued>>

Start ==
  /\ At("idle")
  /\ isIgnitionOn
  /\ age' = IF age = "new" THEN "seen" ELSE age
  /\ proc' = [proc EXCEPT !.pc = "choose", !.expired = age = "old"]
  /\ UNCHANGED <<readerVars, display, visible, raced>>

ShowDoorsOrEnd ==
  \/ currentDoor # 0 /\ Goto("door") /\ raced' = FALSE
  \/ currentDoor = 0 /\ Goto("idle") /\ UNCHANGED raced

Choose ==
  /\ At("choose")
  /\ \/ DoorMessageCanBeDisplayed /\ ShowDoorsOrEnd
     \/ ~DoorMessageCanBeDisplayed /\ Goto("timeout") /\ UNCHANGED raced
  /\ UNCHANGED <<readerVars, display, visible, age>>

CheckTimeout ==
  /\ At("timeout")
  /\ \/ /\ current # None /\ proc.expired
        /\ proc' = [proc EXCEPT !.pc = "hide", !.timeout = TRUE]
        /\ UNCHANGED <<visible, raced>>
     \/ /\ current # None /\ ~proc.expired
        /\ visible' = [visible EXCEPT !.nonDoor = TRUE]
        /\ raced' = FALSE
        /\ Goto("current")
     \/ /\ current = None
        /\ proc' = [proc EXCEPT !.pc = "hide", !.timeout = FALSE]
        /\ UNCHANGED <<visible, raced>>
  /\ UNCHANGED <<readerVars, display, age>>

(* As if only the flags were reset.                                        *)
Hide_FlagsOnly ==
  /\ At("hide")
  /\ Goto(IF visible.popup THEN "hidden" ELSE "again")
  /\ UNCHANGED <<readerVars, display, visible, age, raced>>

(* HideCurrentPopupMessage.                                                *)
Hide ==
  /\ At("hide")
  /\ \/ visible.popup /\ display' = Hidden /\ Goto("hidden")
     \/ ~visible.popup /\ Goto("again") /\ UNCHANGED display
  /\ UNCHANGED <<readerVars, visible, age, raced>>

EndHide ==
  /\ At("hidden")
  /\ visible' = NotVisible
  /\ Goto("again")
  /\ UNCHANGED <<readerVars, display, age, raced>>

(* After the timeout an open door gets its turn in the same run.           *)
ChooseAgain ==
  /\ At("again")
  /\ \/ proc.timeout /\ DoorMessageCanBeDisplayed /\ ShowDoorsOrEnd
     \/ ~(proc.timeout /\ DoorMessageCanBeDisplayed) /\ Goto("idle") /\ UNCHANGED raced
  /\ UNCHANGED <<readerVars, display, visible, age>>

(* ShowPopupMessage, on a copy of the message.                             *)
Copy ==
  /\ proc.pc \in {"door", "current"}
  /\ proc' = [proc EXCEPT !.pc = "command",
                          !.message = IF At("door") THEN Door(currentDoor)
                                                    ELSE Popup(current)]
  /\ UNCHANGED <<readerVars, display, visible, age, raced>>

WriteCommand ==
  /\ At("command")
  /\ display' = [display EXCEPT !.command = "show"]
  /\ Goto("message")
  /\ UNCHANGED <<readerVars, visible, age, raced>>

WriteMessage ==
  /\ At("message")
  /\ display' = [display EXCEPT !.message = proc.message]
  /\ Goto("flags")
  /\ UNCHANGED <<readerVars, visible, age, raced>>

SetShown ==
  /\ At("flags")
  /\ visible' = [visible EXCEPT !.door = proc.message.type = "door",
                                !.nonDoor = proc.message.type # "door"]
  /\ shown' = CASE proc.message.type = "espOn" -> (shown \ {"espOff"}) \cup {"espOn"}
                [] proc.message.type = "espOff" -> (shown \ {"espOn"}) \cup {"espOff"}
                [] proc.message.type \in {"ice", "belt"} -> shown \cup {proc.message.type}
                [] OTHER -> shown
  /\ Goto("visible")
  /\ UNCHANGED <<car, isIgnitionOn, chosen, chilled, reader, queued, display, age, raced>>

EndShow ==
  /\ At("visible")
  /\ visible' = [visible EXCEPT !.popup = TRUE]
  /\ proc' = [proc EXCEPT !.pc = "idle", !.message = NoMessage]
  /\ UNCHANGED <<readerVars, display, age, raced>>

-----------------------------------------------------------------------------
(* Time.                                                                   *)

(* The display time is 600 rounds of the output task: one at least has     *)
(* begun when it is over.                                                  *)
GrowOld ==
  /\ age = "seen"
  /\ age' = "old"
  /\ UNCHANGED <<readerVars, display, visible, proc, raced>>

ChillTimePasses ==
  /\ chilled # {}
  /\ chilled' = {}
  /\ UNCHANGED <<car, isIgnitionOn, display, chosen, visible, shown, age, proc,
                 reader, queued, raced>>

-----------------------------------------------------------------------------

Init ==
  /\ car = [ignition |-> FALSE, doors |-> 0]
  /\ isIgnitionOn = FALSE
  /\ display = Hidden
  /\ current = None
  /\ currentDoor = 0
  /\ visible = NotVisible
  /\ shown = {"espOn"}
  /\ age = "new"
  /\ chilled = {}
  /\ proc = [pc |-> "idle", message |-> NoMessage, expired |-> FALSE, timeout |-> FALSE]
  /\ reader = Done
  /\ queued = 0
  /\ raced = FALSE

ReaderCall ==
  \/ \E type \in Popups : QueueNewMessage(type)
  \/ \E status \in Doors \cup {0} : QueueDoors(status)
  \/ ResetSeatBeltWarning
  \/ IgnitionOn
  \/ IgnitionOff

ReaderGoesOn ==
  \/ EndQueue
  \/ EndDoors
  \/ EndResetSeatBeltWarning
  \/ EndReset

Process ==
  \/ Start
  \/ Choose
  \/ CheckTimeout
  \/ Hide
  \/ EndHide
  \/ ChooseAgain
  \/ Copy
  \/ WriteCommand
  \/ WriteMessage
  \/ SetShown
  \/ EndShow

Next ==
  \/ ReaderCall
  \/ ReaderGoesOn
  \/ Process
  \/ GrowOld
  \/ ChillTimePasses

Spec == Init /\ [][Next]_vars

(* The tasks run, and the messages on the ignition and the doors keep      *)
(* coming, whether anything has changed or not.                            *)
FairSpec ==
  /\ Spec
  /\ WF_vars(Process)
  /\ WF_vars(ReaderGoesOn)
  /\ WF_vars(GrowOld)
  /\ WF_vars(IgnitionOff /\ ~car.ignition)
  /\ WF_vars(QueueDoors(car.doors))

-----------------------------------------------------------------------------
(* Properties.                                                             *)

PopupTypeOK ==
  /\ car \in [ignition : BOOLEAN, doors : Doors \cup {0}]
  /\ isIgnitionOn \in BOOLEAN /\ raced \in BOOLEAN
  /\ display \in [command : {"show", "hide"}, message : Messages]
  /\ current \in Types /\ currentDoor \in Doors \cup {0}
  /\ visible \in [popup : BOOLEAN, door : BOOLEAN, nonDoor : BOOLEAN]
  /\ shown \subseteq {"ice", "belt", "espOn", "espOff"} /\ chilled \subseteq Popups
  /\ age \in {"new", "seen", "old"} /\ queued \in 0 .. MaxQueued
  /\ proc \in [pc : ProcPlaces, message : Messages, expired : BOOLEAN, timeout : BOOLEAN]
  /\ reader \in [pc : ReaderPlaces, type : Types]

(* What the variables hold, and that nothing is on the display that        *)
(* isPopupVisible does not admit, except while Process writes it: a popup  *)
(* left there unnoticed would never be hidden again.                       *)
PopupInv ==
  /\ PopupTypeOK
  /\ ~visible.popup /\ proc.pc \notin {"message", "flags", "visible"}
       => display.command = "hide"

(* Between the runs of Process the display shows what is current, the      *)
(* status of the doors included, and never doors that are all closed,      *)
(* unless the reader interfered with the run that showed it.               *)
DisplayShowsCurrent ==
  display.command = "show" /\ ~Deciding /\ ~raced =>
    \/ display.message = Door(currentDoor) /\ currentDoor # 0
    \/ display.message = Popup(current) /\ current # None

(* Whatever the two tasks do to each other, the display ends up without a  *)
(* popup when the ignition stays off, and with the open doors when they    *)
(* stay open and no other popup is asked for any more.                     *)
DisplaySettles ==
  /\ <>[]~car.ignition => <>[](display.command = "hide")
  /\ \A status \in Doors :
       <>[](car = [ignition |-> TRUE, doors |-> status])
         => <>[](display = [command |-> "show", message |-> Door(status)])

=============================================================================
