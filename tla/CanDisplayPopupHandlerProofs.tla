--------------------- MODULE CanDisplayPopupHandlerProofs ---------------------
(***************************************************************************)
(* PopupInv and DisplayShowsCurrent hold for every set of doors and of     *)
(* popups and however often they are asked for.                            *)
(***************************************************************************)
EXTENDS CanDisplayPopupHandler, TLAPS

(* PopupInv is not inductive: between the two steps in which Process hides *)
(* a popup the display is hidden already, and nobody but Process shows     *)
(* anything.                                                               *)
Noticed ==
  /\ ~visible.popup /\ proc.pc \notin {"message", "flags", "visible"}
       => display.command = "hide"
  /\ proc.pc \in {"hidden", "again"} => display.command = "hide"

PopupIInv == PopupTypeOK /\ Noticed

LEMMA MessagesType ==
  /\ Hidden \in [command : {"show", "hide"}, message : Messages]
  /\ NoMessage \in Messages
  /\ NotVisible \in [popup : BOOLEAN, door : BOOLEAN, nonDoor : BOOLEAN]
  /\ \A s \in Doors \cup {0} : Door(s) \in Messages
  /\ \A t \in Types : Popup(t) \in Messages
  /\ None \in Types /\ Popups \subseteq Types
BY DEF NoMessage, Messages, Types, Hidden, NotVisible

LEMMA HiddenNotVisible == Hidden.command = "hide" /\ ~NotVisible.popup
BY DEF Hidden, NotVisible

(* Initially no popup is shown.                                            *)
LEMMA PopupInit == Init => PopupIInv
<1> SUFFICES ASSUME Init PROVE PopupIInv OBVIOUS
<1>1. PopupTypeOK
  <2>1. car \in [ignition : BOOLEAN, doors : Doors \cup {0}] BY DEF Init
  <2>2. /\ display \in [command : {"show", "hide"}, message : Messages]
        /\ visible \in [popup : BOOLEAN, door : BOOLEAN, nonDoor : BOOLEAN]
    BY MessagesType DEF Init
  <2>3. proc \in [pc : ProcPlaces, message : Messages, expired : BOOLEAN, timeout : BOOLEAN]
    BY MessagesType DEF Init, ProcPlaces
  <2>4. reader \in [pc : ReaderPlaces, type : Types]
    BY MessagesType DEF Init, Done, Continue, ReaderPlaces
  <2>5. current \in Types /\ queued \in 0 .. MaxQueued
    BY MessagesType, PopupAssumption DEF Init
  <2> QED
    BY <2>1, <2>2, <2>3, <2>4, <2>5 DEF Init, PopupTypeOK
<1>2. Noticed BY HiddenNotVisible DEF Init, Noticed
<1> QED BY <1>1, <1>2 DEF PopupIInv

-----------------------------------------------------------------------------
(* The reader task.                                                        *)

(* The reader hides the popup and clears isPopupVisible in one step.       *)
LEMMA HideAndWaitKeeps ==
  ASSUME PopupIInv, NEW type \in Types,
         NEW place \in ReaderPlaces,
         HideAndWait(place, type)
  PROVE  /\ display' \in [command : {"show", "hide"}, message : Messages]
         /\ visible' \in [popup : BOOLEAN, door : BOOLEAN, nonDoor : BOOLEAN]
         /\ reader' \in [pc : ReaderPlaces, type : Types]
         /\ raced' \in BOOLEAN
         /\ display'.command = "hide"
BY MessagesType, HiddenNotVisible DEF HideAndWait, Continue, PopupIInv, PopupTypeOK

LEMMA ReplaceKeeps ==
  ASSUME PopupIInv, NEW type \in Types, Replace(type)
  PROVE  /\ current' \in Types
         /\ visible' \in [popup : BOOLEAN, door : BOOLEAN, nonDoor : BOOLEAN]
         /\ visible'.popup = visible.popup
         /\ age' \in {"new", "seen", "old"}
         /\ proc' \in [pc : ProcPlaces, message : Messages, expired : BOOLEAN, timeout : BOOLEAN]
         /\ proc'.pc = proc.pc
         /\ reader' \in [pc : ReaderPlaces, type : Types]
         /\ raced' \in BOOLEAN
<1> USE DEF PopupIInv, PopupTypeOK
<1>1. current' \in Types /\ raced' \in BOOLEAN BY DEF Replace, SetCurrent
<1>2. /\ visible' \in [popup : BOOLEAN, door : BOOLEAN, nonDoor : BOOLEAN]
      /\ visible'.popup = visible.popup
  BY DEF Replace
<1>3. PICK future \in BOOLEAN :
        proc' = IF proc.pc = "idle" THEN proc ELSE [proc EXCEPT !.expired = future]
  BY DEF Replace
<1>4. reader' = Done /\ age' = "new" BY DEF Replace
<1> QED BY <1>1, <1>2, <1>3, <1>4, MessagesType DEF Done, Continue, ReaderPlaces

LEMMA QueueKeeps ==
  ASSUME PopupIInv, NEW type \in Popups, QueueNewMessage(type)
  PROVE  PopupIInv'
<1> USE DEF PopupIInv, ReaderPlaces
<1>1. type \in Types BY MessagesType
<1>2. UNCHANGED <<car, isIgnitionOn, currentDoor, shown>> BY DEF QueueNewMessage
<1>3. chilled' \subseteq Popups /\ queued' \in 0 .. MaxQueued
  BY PopupAssumption DEF QueueNewMessage, PopupTypeOK
<1>4. CASE UNCHANGED <<display, current, visible, age, proc, reader, raced>>
  BY <1>2, <1>3, <1>4 DEF PopupTypeOK, Noticed
<1>5. CASE HideAndWait("queue", type) /\ UNCHANGED <<current, age, proc>>
  BY <1>1, <1>2, <1>3, <1>5, HideAndWaitKeeps DEF PopupTypeOK, Noticed
<1>6. CASE Replace(type) /\ UNCHANGED display
  BY <1>1, <1>2, <1>3, <1>6, ReplaceKeeps DEF PopupTypeOK, Noticed
<1> QED BY <1>4, <1>5, <1>6 DEF QueueNewMessage

LEMMA DoorsKeep ==
  ASSUME PopupIInv, NEW status \in Doors \cup {0}, QueueDoors(status)
  PROVE  PopupIInv'
<1> USE DEF PopupIInv, ReaderPlaces
<1>1. UNCHANGED <<isIgnitionOn, current, shown, age, chilled, proc, queued>>
  BY DEF QueueDoors
<1>2. /\ car' \in [ignition : BOOLEAN, doors : Doors \cup {0}]
      /\ currentDoor' \in Doors \cup {0}
  BY DEF QueueDoors, PopupTypeOK
<1>3. CASE HideAndWait("doors", None)
  BY <1>1, <1>2, <1>3, MessagesType, HideAndWaitKeeps DEF PopupTypeOK, Noticed
<1>4. CASE raced' \in BOOLEAN /\ UNCHANGED <<display, visible, reader>>
  BY <1>1, <1>2, <1>4 DEF PopupTypeOK, Noticed
<1> QED BY <1>3, <1>4 DEF QueueDoors

LEMMA ClearKeeps ==
  ASSUME PopupIInv, ClearMessages, UNCHANGED <<age, proc, queued>>,
         car' \in [ignition : BOOLEAN, doors : Doors \cup {0}], isIgnitionOn' \in BOOLEAN
  PROVE  PopupIInv'
<1>1. reader' \in [pc : ReaderPlaces, type : Types]
  BY MessagesType DEF ClearMessages, Done, Continue, ReaderPlaces
<1> QED
  BY <1>1, MessagesType DEF PopupIInv, PopupTypeOK, Noticed, ClearMessages, SetCurrent

(* The calls that clear messages or go on after hiding one.                *)
LEMMA CallsKeep ==
  ASSUME PopupIInv,
         \/ ResetSeatBeltWarning \/ IgnitionOn \/ IgnitionOff \/ ReaderGoesOn
  PROVE  PopupIInv'
<1> USE DEF PopupIInv, ReaderPlaces
<1>1. CASE ResetSeatBeltWarning
  <2>1. UNCHANGED <<car, isIgnitionOn, currentDoor, age, chilled, proc, queued>>
    BY <1>1 DEF ResetSeatBeltWarning
  <2>2. shown' \subseteq {"ice", "belt", "espOn", "espOff"}
    BY <1>1 DEF ResetSeatBeltWarning, PopupTypeOK
  <2>3. CASE HideAndWait("belt", None) /\ UNCHANGED current
    BY <2>1, <2>2, <2>3, MessagesType, HideAndWaitKeeps DEF PopupTypeOK, Noticed
  <2>4. CASE /\ current' \in Types /\ raced' \in BOOLEAN
             /\ UNCHANGED <<display, visible, reader>>
    BY <2>1, <2>2, <2>4 DEF PopupTypeOK, Noticed
  <2> QED BY <1>1, <2>3, <2>4, MessagesType DEF ResetSeatBeltWarning, SetCurrent, PopupTypeOK
<1>2. CASE IgnitionOn
  <2>1. /\ car' \in [ignition : BOOLEAN, doors : Doors \cup {0}]
        /\ isIgnitionOn' \in BOOLEAN
    BY <1>2 DEF IgnitionOn, PopupTypeOK
  <2> QED BY <1>2, <2>1 DEF IgnitionOn, PopupTypeOK, Noticed, chosen
<1>3. CASE IgnitionOff
  <2>1. /\ car' \in [ignition : BOOLEAN, doors : Doors \cup {0}]
        /\ isIgnitionOn' \in BOOLEAN
        /\ UNCHANGED <<age, proc, queued>>
    BY <1>3 DEF IgnitionOff, PopupTypeOK
  <2>2. CASE /\ HideAndWait("reset", None) /\ shown' = shown \ {"ice"}
             /\ UNCHANGED <<chosen, chilled>>
    BY <2>1, <2>2, MessagesType, HideAndWaitKeeps DEF PopupTypeOK, Noticed, chosen
  <2>3. CASE ClearMessages BY <2>1, <2>3, ClearKeeps
  <2> QED BY <1>3, <2>2, <2>3 DEF IgnitionOff
<1>4. CASE EndQueue
  <2>1. reader.type \in Types BY DEF PopupTypeOK
  <2> QED BY <1>4, <2>1, ReplaceKeeps DEF EndQueue, PopupTypeOK, Noticed
<1>5. CASE EndDoors
  BY <1>5, MessagesType DEF EndDoors, Done, Continue, PopupTypeOK, Noticed, chosen
<1>6. CASE EndResetSeatBeltWarning
  BY <1>6, MessagesType
     DEF EndResetSeatBeltWarning, Done, Continue, SetCurrent, PopupTypeOK, Noticed
<1>7. CASE EndReset
  <2>1. /\ car' \in [ignition : BOOLEAN, doors : Doors \cup {0}]
        /\ isIgnitionOn' \in BOOLEAN
        /\ UNCHANGED <<car, isIgnitionOn, age, proc, queued>>
    BY <1>7 DEF EndReset, PopupTypeOK
  <2>2. CASE /\ HideAndWait("resetBelt", None) /\ shown' = shown \ {"belt"}
             /\ UNCHANGED <<chosen, chilled>>
    BY <2>1, <2>2, MessagesType, HideAndWaitKeeps DEF PopupTypeOK, Noticed, chosen
  <2>3. CASE ClearMessages BY <2>1, <2>3, ClearKeeps
  <2> QED BY <1>7, <2>2, <2>3 DEF EndReset
<1> QED BY <1>1, <1>2, <1>3, <1>4, <1>5, <1>6, <1>7 DEF ReaderGoesOn

-----------------------------------------------------------------------------
(* A decision of Process changes neither the display nor the flags.        *)
LEMMA KeepsShown ==
  ASSUME PopupIInv, NEW place \in {"door", "idle", "timeout"}, Goto(place),
         proc.pc \in {"choose", "again"}, raced' \in BOOLEAN,
         UNCHANGED <<readerVars, display, visible, age>>
  PROVE  PopupIInv'
<1>1. /\ proc' \in [pc : ProcPlaces, message : Messages, expired : BOOLEAN, timeout : BOOLEAN]
      /\ proc'.pc = place
  BY DEF Goto, PopupIInv, PopupTypeOK, ProcPlaces
<1> QED BY <1>1 DEF PopupIInv, PopupTypeOK, Noticed, readerVars

(* Process admits the popup in its last step of showing it, and hides it   *)
(* before it denies it.                                                    *)
LEMMA ProcessKeeps ==
  ASSUME PopupIInv, Process
  PROVE  PopupIInv'
<1> USE DEF PopupIInv, At, readerVars
<1>0. ASSUME NEW place \in ProcPlaces, Goto(place)
      PROVE  /\ proc' \in [pc : ProcPlaces, message : Messages, expired : BOOLEAN,
                           timeout : BOOLEAN]
             /\ proc'.pc = place
  BY <1>0 DEF Goto, PopupTypeOK
<1>1. CASE Start
  <2>1. /\ proc' \in [pc : ProcPlaces, message : Messages, expired : BOOLEAN,
                      timeout : BOOLEAN]
        /\ proc'.pc = "choose" /\ proc.pc = "idle"
    BY <1>1 DEF Start, PopupTypeOK, ProcPlaces
  <2> QED BY <1>1, <2>1 DEF Start, PopupTypeOK, Noticed
<1>2. CASE Choose
  <2>1. PICK place \in {"door", "idle", "timeout"} : Goto(place)
    BY <1>2 DEF Choose, ShowDoorsOrEnd
  <2>2. /\ raced' \in BOOLEAN /\ proc.pc = "choose"
        /\ UNCHANGED <<readerVars, display, visible, age>>
    BY <1>2 DEF Choose, ShowDoorsOrEnd, PopupTypeOK
  <2> QED BY <1>0, <2>1, <2>2, KeepsShown
<1>3. CASE CheckTimeout
  <2>1. CASE UNCHANGED <<visible, raced>>
    <3>1. /\ proc' \in [pc : ProcPlaces, message : Messages, expired : BOOLEAN,
                        timeout : BOOLEAN]
          /\ proc'.pc \in {"hide", "current"} /\ proc.pc = "timeout"
      <4>1. {"hide", "current"} \subseteq ProcPlaces BY DEF ProcPlaces
      <4>2. CASE Goto("current") BY <1>0, <1>3, <4>1, <4>2 DEF CheckTimeout
      <4>3. ASSUME NEW timeout \in BOOLEAN,
                   proc' = [proc EXCEPT !.pc = "hide", !.timeout = timeout]
            PROVE  /\ proc' \in [pc : ProcPlaces, message : Messages, expired : BOOLEAN,
                                 timeout : BOOLEAN]
                   /\ proc'.pc = "hide"
        BY <4>1, <4>3 DEF PopupTypeOK
      <4> QED BY <1>3, <4>2, <4>3 DEF CheckTimeout
    <3> QED BY <1>3, <2>1, <3>1 DEF CheckTimeout, PopupTypeOK, Noticed
  <2>2. CASE /\ visible' = [visible EXCEPT !.nonDoor = TRUE] /\ raced' = FALSE
             /\ Goto("current")
    BY <1>3, <2>2, <1>0 DEF CheckTimeout, PopupTypeOK, Noticed, ProcPlaces
  <2> QED BY <1>3, <2>1, <2>2 DEF CheckTimeout
<1>4. CASE Hide
  <2>1. "hidden" \in ProcPlaces /\ "again" \in ProcPlaces BY DEF ProcPlaces
  <2>2. CASE visible.popup /\ display' = Hidden /\ Goto("hidden")
    BY <1>4, <2>1, <2>2, <1>0, MessagesType, HiddenNotVisible DEF Hide, PopupTypeOK, Noticed
  <2>3. CASE ~visible.popup /\ Goto("again") /\ UNCHANGED display
    BY <1>4, <2>1, <2>3, <1>0 DEF Hide, PopupTypeOK, Noticed
  <2> QED BY <1>4, <2>2, <2>3 DEF Hide
<1>5. CASE EndHide
  BY <1>5, <1>0, MessagesType, HiddenNotVisible DEF EndHide, PopupTypeOK, Noticed, ProcPlaces
<1>6. CASE ChooseAgain
  <2>1. PICK place \in {"door", "idle", "timeout"} : Goto(place)
    BY <1>6 DEF ChooseAgain, ShowDoorsOrEnd
  <2>2. /\ raced' \in BOOLEAN /\ proc.pc = "again"
        /\ UNCHANGED <<readerVars, display, visible, age>>
    BY <1>6 DEF ChooseAgain, ShowDoorsOrEnd, PopupTypeOK
  <2> QED BY <1>0, <2>1, <2>2, KeepsShown
<1>7. CASE Copy
  <2>1. (IF proc.pc = "door" THEN Door(currentDoor) ELSE Popup(current)) \in Messages
    BY MessagesType DEF PopupTypeOK
  <2>2. /\ proc' \in [pc : ProcPlaces, message : Messages, expired : BOOLEAN,
                      timeout : BOOLEAN]
        /\ proc'.pc = "command" /\ proc.pc \in {"door", "current"}
    BY <1>7, <2>1 DEF Copy, PopupTypeOK, ProcPlaces
  <2> QED BY <1>7, <2>2 DEF Copy, PopupTypeOK, Noticed
<1>8. CASE WriteCommand
  BY <1>8, <1>0 DEF WriteCommand, PopupTypeOK, Noticed, ProcPlaces
<1>9. CASE WriteMessage
  BY <1>9, <1>0 DEF WriteMessage, PopupTypeOK, Noticed, ProcPlaces
<1>10. CASE SetShown
  <2>1. /\ proc' \in [pc : ProcPlaces, message : Messages, expired : BOOLEAN,
                      timeout : BOOLEAN]
        /\ proc'.pc = "visible"
    BY <1>10, <1>0 DEF SetShown, ProcPlaces
  <2>2. /\ visible' \in [popup : BOOLEAN, door : BOOLEAN, nonDoor : BOOLEAN]
        /\ visible'.popup = visible.popup
    BY <1>10 DEF SetShown, PopupTypeOK
  <2>3. shown' \subseteq {"ice", "belt", "espOn", "espOff"}
    BY <1>10 DEF SetShown, PopupTypeOK
  <2>4. UNCHANGED <<car, isIgnitionOn, current, currentDoor, chilled, reader, queued,
                    display, age, raced>>
    BY <1>10 DEF SetShown, chosen
  <2> QED BY <1>10, <2>1, <2>2, <2>3, <2>4 DEF PopupTypeOK, Noticed
<1>11. CASE EndShow
  <2>1. proc' \in [pc : ProcPlaces, message : Messages, expired : BOOLEAN, timeout : BOOLEAN]
        /\ proc'.pc = "idle"
    BY <1>11, MessagesType DEF EndShow, PopupTypeOK, ProcPlaces
  <2>2. /\ visible' \in [popup : BOOLEAN, door : BOOLEAN, nonDoor : BOOLEAN]
        /\ visible'.popup
    BY <1>11 DEF EndShow, PopupTypeOK
  <2> QED BY <1>11, <2>1, <2>2 DEF EndShow, PopupTypeOK, Noticed
<1> QED
  BY <1>1, <1>2, <1>3, <1>4, <1>5, <1>6, <1>7, <1>8, <1>9, <1>10, <1>11 DEF Process

LEMMA PopupStep ==
  ASSUME PopupIInv, [Next]_vars
  PROVE  PopupIInv'
<1>1. CASE ReaderCall BY <1>1, QueueKeeps, DoorsKeep, CallsKeep DEF ReaderCall
<1>2. CASE GrowOld
  BY <1>2 DEF GrowOld, PopupIInv, PopupTypeOK, Noticed, readerVars
<1>3. CASE ChillTimePasses
  BY <1>3 DEF ChillTimePasses, PopupIInv, PopupTypeOK, Noticed, chosen
<1>4. CASE UNCHANGED vars
  BY <1>4 DEF vars, chosen, PopupIInv, PopupTypeOK, Noticed
<1> QED BY <1>1, <1>2, <1>3, <1>4, CallsKeep, ProcessKeeps DEF Next

(* Nothing is on the display that isPopupVisible does not admit, except    *)
(* while Process writes it.                                                *)
THEOREM PopupNeverUnnoticed == Spec => []PopupInv
<1>1. PopupIInv /\ [Next]_vars => PopupIInv' BY PopupStep
<1>2. PopupIInv => PopupInv BY DEF PopupIInv, PopupInv, Noticed
<1> QED BY PopupInit, <1>1, <1>2, PTL DEF Spec

-----------------------------------------------------------------------------
(* What is shown is current.                                               *)

IsCurrent(message) ==
  \/ message = Door(currentDoor) /\ currentDoor # 0
  \/ message = Popup(current) /\ current # None

(* DisplayShowsCurrent is not inductive.  A run of Process that the reader *)
(* leaves alone shows what it chose, which stays current until it ends;    *)
(* and a popup of the doors is known as one afterwards, or else a new      *)
(* status of the doors would not hide it.                                  *)
Faithful ==
  ~raced =>
    /\ ~Deciding /\ display.command = "show"
         => /\ IsCurrent(display.message)
            /\ display.message.type = "door" => visible.door
    /\ proc.pc = "door" => currentDoor # 0
    /\ proc.pc = "current" => current # None
    /\ proc.pc \in {"command", "message", "flags", "visible"} => IsCurrent(proc.message)
    /\ proc.pc \in {"flags", "visible"} => display.message = proc.message
    /\ proc.pc = "visible" /\ proc.message.type = "door" => visible.door

ShowsIInv == PopupIInv /\ Faithful

(* No popup is of the type that the doors have.                            *)
LEMMA DoorIsNoPopup ==
  /\ \A s : Door(s).type = "door"
  /\ \A t \in Types : Popup(t).type = t /\ t # "door"
BY PopupAssumption DEF Door, Popup, Types, None

(* A step of the reader either counts as interference or finds the display *)
(* hidden, or hides it, while Process has nothing under way.               *)
LEMMA HiddenIsFaithful ==
  ASSUME raced' \/ (~Deciding /\ proc'.pc = proc.pc /\ display'.command = "hide")
  PROVE  Faithful'
BY DEF Faithful, Deciding

LEMMA HideAndWaitFaithful ==
  ASSUME NEW type, NEW place, HideAndWait(place, type), UNCHANGED proc
  PROVE  Faithful'
BY HiddenIsFaithful, HiddenNotVisible DEF HideAndWait

LEMMA SetCurrentFaithful ==
  ASSUME PopupIInv, NEW type, SetCurrent(type), UNCHANGED display, proc'.pc = proc.pc
  PROVE  Faithful'
<1>1. raced' \/ (~Deciding /\ ~visible.popup) BY DEF SetCurrent
<1> QED BY <1>1, HiddenIsFaithful DEF PopupIInv, Noticed, Deciding

LEMMA ClearFaithful ==
  ASSUME PopupIInv, ClearMessages, UNCHANGED proc
  PROVE  Faithful'
BY SetCurrentFaithful DEF ClearMessages

LEMMA ReplaceFaithful ==
  ASSUME PopupIInv, NEW type \in Types, Replace(type), UNCHANGED display
  PROVE  Faithful'
BY ReplaceKeeps, SetCurrentFaithful DEF Replace

(* A new status of the doors replaces nothing but a popup of the doors.    *)
LEMMA DoorsFaithful ==
  ASSUME ShowsIInv, NEW status \in Doors \cup {0}, QueueDoors(status)
  PROVE  Faithful'
<1>1. UNCHANGED <<current, proc>> BY DEF QueueDoors
<1>2. CASE HideAndWait("doors", None) BY <1>1, <1>2, HideAndWaitFaithful
<1>3. ASSUME /\ ~(car.ignition /\ HidesDoors(status) /\ visible.popup)
             /\ raced' = (raced \/ (Deciding /\ currentDoor' # currentDoor))
             /\ UNCHANGED <<display, visible, reader>>
      PROVE  Faithful'
  <2>1. CASE raced' BY <2>1, HiddenIsFaithful
  <2>2. CASE ~raced' /\ currentDoor' = currentDoor
    BY <1>1, <1>3, <2>2 DEF ShowsIInv, Faithful, IsCurrent, Deciding
  <2>3. CASE ~raced' /\ currentDoor' # currentDoor
    <3>1. ~raced /\ ~Deciding BY <1>3, <2>3
    <3>2. car.ignition /\ status # currentDoor BY <2>3 DEF QueueDoors
    <3>3. ~visible.door \/ ~visible.popup BY <1>3, <3>2 DEF HidesDoors
    <3>4. CASE display.command # "show" \/ ~visible.popup
      BY <1>1, <1>3, <3>1, <3>4, HiddenIsFaithful
         DEF ShowsIInv, PopupIInv, PopupTypeOK, Noticed, Deciding
    <3>5. CASE display.command = "show" /\ visible.popup
      <4>1. ~visible.door BY <3>3, <3>5
      <4>2. IsCurrent(display.message) /\ display.message.type # "door"
        BY <3>1, <3>5, <4>1 DEF ShowsIInv, Faithful
      <4>3. display.message = Popup(current) /\ current # None
        BY <4>2, DoorIsNoPopup DEF IsCurrent
      <4>4. IsCurrent(display.message)' BY <1>1, <1>3, <4>3 DEF IsCurrent
      <4>5. proc'.pc \in {"idle", "choose"} BY <1>1, <3>1 DEF Deciding
      <4> QED BY <1>3, <4>2, <4>4, <4>5 DEF Faithful, Deciding
    <3> QED BY <3>4, <3>5
  <2> QED BY <2>1, <2>2, <2>3
<1> QED BY <1>2, <1>3 DEF QueueDoors

(* No call of the reader leaves an outdated message on the display between *)
(* the runs of Process.                                                    *)
LEMMA ReaderFaithful ==
  ASSUME ShowsIInv, ReaderCall \/ ReaderGoesOn
  PROVE  Faithful'
<1> USE DEF ShowsIInv
<1>0. CASE UNCHANGED <<display, current, currentDoor, visible, proc, raced>>
  BY <1>0 DEF Faithful, IsCurrent, Deciding
<1>1. ASSUME NEW type \in Popups, QueueNewMessage(type) PROVE Faithful'
  <2>1. type \in Types /\ UNCHANGED currentDoor
    BY <1>1, MessagesType DEF QueueNewMessage
  <2>2. CASE UNCHANGED <<display, current, visible, age, proc, reader, raced>>
    BY <1>0, <2>1, <2>2
  <2>3. CASE HideAndWait("queue", type) /\ UNCHANGED <<current, age, proc>>
    BY <2>3, HideAndWaitFaithful
  <2>4. CASE Replace(type) /\ UNCHANGED display BY <2>1, <2>4, ReplaceFaithful
  <2> QED BY <1>1, <2>2, <2>3, <2>4 DEF QueueNewMessage
<1>2. CASE ResetSeatBeltWarning
  <2>1. UNCHANGED <<currentDoor, proc>> BY <1>2 DEF ResetSeatBeltWarning
  <2>2. CASE HideAndWait("belt", None) BY <2>1, <2>2, HideAndWaitFaithful
  <2>3. CASE SetCurrent(None) /\ UNCHANGED <<display, visible, reader>>
    BY <2>1, <2>3, SetCurrentFaithful
  <2>4. CASE UNCHANGED <<display, visible, reader, current, raced>>
    BY <1>0, <2>1, <2>4
  <2> QED BY <1>2, <2>2, <2>3, <2>4 DEF ResetSeatBeltWarning
<1>3. CASE IgnitionOn BY <1>0, <1>3 DEF IgnitionOn, chosen
<1>4. CASE IgnitionOff
  <2>1. UNCHANGED proc BY <1>4 DEF IgnitionOff
  <2> QED BY <1>4, <2>1, HideAndWaitFaithful, ClearFaithful DEF IgnitionOff
<1>5. CASE EndQueue
  <2>1. reader.type \in Types BY DEF PopupIInv, PopupTypeOK
  <2> QED BY <1>5, <2>1, ReplaceFaithful DEF EndQueue
<1>6. CASE EndDoors BY <1>0, <1>6 DEF EndDoors, chosen
<1>7. CASE EndResetSeatBeltWarning
  BY <1>7, SetCurrentFaithful DEF EndResetSeatBeltWarning
<1>8. CASE EndReset
  <2>1. UNCHANGED proc BY <1>8 DEF EndReset
  <2> QED BY <1>8, <2>1, HideAndWaitFaithful, ClearFaithful DEF EndReset
<1> QED
  BY <1>1, <1>2, <1>3, <1>4, <1>5, <1>6, <1>7, <1>8, DoorsFaithful
     DEF ReaderCall, ReaderGoesOn

-----------------------------------------------------------------------------
(* Process decides for a message that is current, and writes what it       *)
(* decided for.                                                            *)

LEMMA ChoiceFaithful ==
  ASSUME ShowsIInv, ShowDoorsOrEnd, proc.pc \in {"choose", "again"},
         UNCHANGED <<readerVars, display, visible, age>>
  PROVE  Faithful'
<1> USE DEF ShowsIInv
<1>1. UNCHANGED <<current, currentDoor>> BY DEF readerVars
<1>2. CASE currentDoor # 0 /\ Goto("door") /\ raced' = FALSE
  <2>1. proc'.pc = "door" BY <1>2 DEF Goto, PopupIInv, PopupTypeOK
  <2> QED BY <1>1, <1>2, <2>1 DEF Faithful, Deciding
<1>3. CASE Goto("idle") /\ UNCHANGED raced
  <2>1. proc'.pc = "idle" BY <1>3 DEF Goto, PopupIInv, PopupTypeOK
  <2>2. CASE proc.pc = "choose"
    BY <1>1, <1>3, <2>1, <2>2 DEF Faithful, Deciding, IsCurrent
  <2>3. CASE proc.pc = "again"
    BY <2>1, <2>3 DEF Faithful, Deciding, PopupIInv, Noticed
  <2> QED BY <2>2, <2>3
<1> QED BY <1>2, <1>3 DEF ShowDoorsOrEnd

LEMMA CopyFaithful ==
  ASSUME ShowsIInv, Copy
  PROVE  Faithful'
<1> USE DEF ShowsIInv
<1>1. /\ proc'.pc = "command"
      /\ proc'.message = IF At("door") THEN Door(currentDoor) ELSE Popup(current)
  BY DEF Copy, PopupIInv, PopupTypeOK
<1>2. UNCHANGED <<current, currentDoor, raced>> BY DEF Copy, readerVars
<1>3. ~raced => IsCurrent(proc'.message)
  <2>1. CASE At("door") BY <1>1, <2>1 DEF Faithful, IsCurrent, At
  <2>2. CASE ~At("door") BY <1>1, <2>2 DEF Copy, Faithful, IsCurrent, At
  <2> QED BY <2>1, <2>2
<1>4. IsCurrent(proc.message)' <=> IsCurrent(proc'.message) BY <1>2 DEF IsCurrent
<1> QED BY <1>1, <1>2, <1>3, <1>4 DEF Faithful, Deciding

(* The three steps that write what was decided and the flags.              *)
LEMMA ShowFaithful ==
  ASSUME ShowsIInv, WriteCommand \/ WriteMessage \/ SetShown
  PROVE  Faithful'
<1> USE DEF ShowsIInv, At
<1>0. ASSUME NEW place, Goto(place)
      PROVE  proc'.pc = place /\ proc'.message = proc.message
  BY <1>0 DEF Goto, PopupIInv, PopupTypeOK
<1>1. /\ UNCHANGED <<current, currentDoor, raced, proc.message>>
      /\ IsCurrent(proc.message)' <=> IsCurrent(proc.message)
  BY <1>0 DEF WriteCommand, WriteMessage, SetShown, readerVars, chosen, IsCurrent
<1>2. CASE WriteCommand
  BY <1>0, <1>1, <1>2 DEF WriteCommand, Faithful, Deciding
<1>3. CASE WriteMessage
  <2>1. proc'.pc = "flags" /\ proc.pc = "message" BY <1>0, <1>3 DEF WriteMessage
  <2>2. display'.message = proc.message
    BY <1>3 DEF WriteMessage, PopupIInv, PopupTypeOK
  <2> QED BY <1>1, <2>1, <2>2 DEF Faithful, Deciding
<1>4. CASE SetShown
  <2>1. proc'.pc = "visible" /\ proc.pc = "flags" BY <1>0, <1>4 DEF SetShown
  <2>2. proc.message.type = "door" => visible'.door
    BY <1>4 DEF SetShown, PopupIInv, PopupTypeOK
  <2>3. UNCHANGED display BY <1>4 DEF SetShown
  <2> QED BY <1>1, <2>1, <2>2, <2>3 DEF Faithful, Deciding
<1> QED BY <1>2, <1>3, <1>4

LEMMA EndShowFaithful ==
  ASSUME ShowsIInv, EndShow
  PROVE  Faithful'
<1>1. proc'.pc = "idle" /\ proc.pc = "visible"
  BY DEF EndShow, At, ShowsIInv, PopupIInv, PopupTypeOK
<1>2. visible'.door = visible.door
  BY DEF EndShow, ShowsIInv, PopupIInv, PopupTypeOK
<1>3. UNCHANGED <<current, currentDoor, display, raced>> BY DEF EndShow, readerVars
<1>4. IsCurrent(display.message)' <=> IsCurrent(display.message) BY <1>3 DEF IsCurrent
<1> QED BY <1>1, <1>2, <1>3, <1>4 DEF ShowsIInv, Faithful, Deciding

LEMMA ProcessFaithful ==
  ASSUME ShowsIInv, Process
  PROVE  Faithful'
<1> USE DEF ShowsIInv, At
<1>0. ASSUME NEW place, Goto(place) PROVE proc'.pc = place
  BY <1>0 DEF Goto, PopupIInv, PopupTypeOK
<1>a. ASSUME proc'.pc \in {"timeout", "hide", "hidden", "again"} PROVE Faithful'
  BY <1>a DEF Faithful, Deciding
<1>1. CASE Start
  <2>1. proc'.pc = "choose" /\ proc.pc = "idle"
    BY <1>1 DEF Start, PopupIInv, PopupTypeOK
  <2>2. UNCHANGED <<current, currentDoor, display, visible, raced>>
    BY <1>1 DEF Start, readerVars
  <2> QED BY <2>1, <2>2 DEF Faithful, Deciding, IsCurrent
<1>2. CASE Choose
  <2>1. CASE ShowDoorsOrEnd BY <1>2, <2>1, ChoiceFaithful DEF Choose
  <2>2. CASE Goto("timeout") BY <1>0, <1>a, <2>2
  <2> QED BY <1>2, <2>1, <2>2 DEF Choose
<1>3. CASE CheckTimeout
  <2>1. CASE current # None /\ Goto("current")
    <3>1. proc'.pc = "current" /\ current' # None
      BY <1>0, <1>3, <2>1 DEF CheckTimeout, readerVars
    <3> QED BY <3>1 DEF Faithful, Deciding
  <2>2. CASE proc'.pc = "hide" BY <1>a, <2>2
  <2> QED BY <1>3, <2>1, <2>2 DEF CheckTimeout, PopupIInv, PopupTypeOK
<1>4. CASE Hide BY <1>0, <1>a, <1>4 DEF Hide
<1>5. CASE EndHide BY <1>0, <1>a, <1>5 DEF EndHide
<1>6. CASE ChooseAgain
  <2>1. CASE ShowDoorsOrEnd BY <1>6, <2>1, ChoiceFaithful DEF ChooseAgain
  <2>2. CASE Goto("idle")
    <3>1. proc'.pc = "idle" /\ display'.command = "hide"
      BY <1>0, <1>6, <2>2 DEF ChooseAgain, PopupIInv, Noticed
    <3> QED BY <3>1 DEF Faithful, Deciding
  <2> QED BY <1>6, <2>1, <2>2 DEF ChooseAgain
<1> QED
  BY <1>1, <1>2, <1>3, <1>4, <1>5, <1>6, CopyFaithful, ShowFaithful, EndShowFaithful
     DEF Process

(* Between the runs of Process the display shows what is current, unless   *)
(* the reader interfered with the run that showed it.                      *)
THEOREM PopupShowsCurrent == Spec => []DisplayShowsCurrent
<1>1. Init => ShowsIInv
  BY PopupInit, HiddenNotVisible DEF Init, ShowsIInv, Faithful, Deciding
<1>2. ShowsIInv /\ [Next]_vars => ShowsIInv'
  <2> SUFFICES ASSUME ShowsIInv, [Next]_vars PROVE ShowsIInv' OBVIOUS
  <2>1. PopupIInv' BY PopupStep DEF ShowsIInv
  <2>2. CASE UNCHANGED <<current, currentDoor, display, visible, proc, raced>>
    BY <2>1, <2>2 DEF ShowsIInv, Faithful, IsCurrent, Deciding
  <2>3. CASE GrowOld BY <2>2, <2>3 DEF GrowOld, readerVars
  <2>4. CASE ChillTimePasses BY <2>2, <2>4 DEF ChillTimePasses, chosen
  <2>5. CASE UNCHANGED vars BY <2>2, <2>5 DEF vars, chosen
  <2> QED
    BY <2>1, <2>3, <2>4, <2>5, ReaderFaithful, ProcessFaithful DEF Next, ShowsIInv
<1>3. ShowsIInv => DisplayShowsCurrent
  BY DEF ShowsIInv, Faithful, IsCurrent, DisplayShowsCurrent
<1> QED BY <1>1, <1>2, <1>3, PTL DEF Spec

=============================================================================
