------------------------------ MODULE VanLpBus ------------------------------
(***************************************************************************)
(* The LP core on the VAN bus: monitor_once, receive_frame, track_response *)
(* and transmit_prepared, time slice by time slice, against an environment *)
(* that drives whatever it likes.  The bus is a wired AND: 0 is dominant.  *)
(*                                                                         *)
(* A frame is shortened: two SOF states, identifiers of a few states, the  *)
(* command states RAK, R/W and RTR with one inverse, five-state groups cut *)
(* to their last two states D and !D (A, B and C are only captured), EOD,  *)
(* two ACK states and one EOF state.  A missed deadline is an abort that   *)
(* can happen in every slice.                                              *)
(***************************************************************************)
EXTENDS Integers, Sequences, SequencesExt

CONSTANTS
  Identifiers,         (* sequences of states, all of the same length      *)
  Configurations,      (* what a bank can hold: acks, the identifiers of   *)
                       (* the enabled ACK slots, replies, the sequence of  *)
                       (* the enabled reply slots' frames, and queryAck    *)
  Submissions,         (* prepared frames HP tasks put into the outbox     *)
  NoFrame,
  NoCommit,
  MinEodGroup,         (* first group that may hold EOD, 3 in the code     *)
  MaxGroups,           (* groups scanned after the prefix, 60 in the code  *)
  ArmRun,              (* recessive slices that arm reception, 8           *)
  TxRun                (* recessive slices before an own frame, 16         *)

Bit == {0, 1}
Min2(a, b) == IF a < b THEN a ELSE b

-----------------------------------------------------------------------------
(* Prepared frames.                                                        *)

SofPattern == <<0, 1>>
IdLength == Len(CHOOSE i \in Identifiers : TRUE)

(* RAK, R/W, RTR: COM is 8, C, F or E.                                     *)
Command(kind) ==
  CASE kind = "normal" -> <<0, 0, 0>>
    [] kind = "acked"  -> <<1, 0, 0>>
    [] kind = "query"  -> <<1, 1, 1>>
    [] kind = "reply"  -> <<1, 1, 0>>

Inverted(data) == [k \in 1 .. 2 * Len(data) |->
                     IF k % 2 = 1 THEN data[(k + 1) \div 2] ELSE 1 - data[k \div 2]]

Prefix(id, kind) == SofPattern \o id \o Command(kind) \o <<1 - Command(kind)[3]>>

(* VanFrameBuilder::Build: the last group of the FCS is 00 instead of 01.  *)
Message(f) == Prefix(f.id, f.kind) \o Inverted(f.data) \o <<0, 0>>
Words(f) == Message(f) \o <<1, 1>> \o <<1>>

(* Slices are counted from 0 at SOF[0].                                    *)
RwSlice == 2 + IdLength + 1
RtrSlice == RwSlice + 1
PrefixSlices == RtrSlice + 2
Ack1Slice(f) == Len(Message(f)) + 1

ASSUME BusAssumption ==
  /\ Identifiers # {}
  /\ \A i \in Identifiers : i \in Seq(Bit) /\ Len(i) = IdLength
  /\ \A c \in Configurations :
       /\ c.acks \subseteq Identifiers
       /\ c.replies \in Seq(Range(c.replies))
       /\ \A f \in Range(c.replies) : f.kind = "reply"
       /\ c.queryAck \in BOOLEAN
  /\ \A f \in Submissions \cup UNION {Range(c.replies) : c \in Configurations} :
       /\ f.id \in Identifiers
       /\ f.data \in Seq(Bit)
       /\ Len(f.data) >= MinEodGroup /\ Len(f.data) % 2 = 1 /\ Len(f.data) < MaxGroups
  /\ \A f \in Submissions : f.kind \in {"normal", "acked", "query"}
  /\ MinEodGroup \in Nat /\ MaxGroups \in Nat \ {0}
  /\ ArmRun \in Nat /\ TxRun \in Nat /\ ArmRun < TxRun

VARIABLES
  config,          (* what monitor.config points to                        *)
  driven,          (* the TX latch                                         *)
  recessiveRun,    (* now - highSince, 0 when wasHigh is 0                 *)
  phase,           (* idle, receive, transmit, handover, track, ack0, ack1 *)
  role,            (* of a transmission                                    *)
  frame,           (* the words it sends                                   *)
  capture,         (* the captured states                                  *)
  ack,             (* track_response was asked to acknowledge              *)
  group,           (* groups tracked since the prefix                      *)
  seen,            (* states on the bus since SOF[0]                       *)
  pending,         (* the outbox                                           *)
  committed        (* the capture committed in the last step, if any, and  *)
                   (* what was on the bus                                  *)

vars == <<config, driven, recessiveRun, phase, role, frame, capture, ack, group, seen,
          pending, committed>>

Slice == Len(seen)

-----------------------------------------------------------------------------
(* Every transaction ends with a released bus and without a recessive run. *)
EndTransaction ==
  /\ driven' = 1
  /\ recessiveRun' = 0
  /\ phase' = "idle"
  /\ role' = "none"
  /\ frame' = NoFrame
  /\ capture' = <<>>
  /\ ack' = FALSE
  /\ group' = 0
  /\ seen' = <<>>

(* A local transmission is over, whatever its result: VAN_START_TX = 0.    *)
(* As if every transaction released the outbox.                            *)
EndLocal_Always == pending' = NoFrame

EndLocal == pending' = IF role \in {"normal", "requester"} THEN NoFrame ELSE pending

Commit(states, ackStates, bus) ==
  committed' = [states |-> states, ack |-> ackStates, bus |-> bus]

NothingCommitted == committed' = NoCommit

Abort ==
  /\ EndTransaction
  /\ EndLocal
  /\ NothingCommitted
  /\ UNCHANGED config

(* The environment drives e, and the slice ends.                           *)
Level(e) == Min2(driven, e)

(* A deadline was missed; in every phase of a transaction.                 *)
DeadlineMissed == phase # "idle" /\ Abort

-----------------------------------------------------------------------------
(* monitor_once.                                                           *)

Submit(f) ==
  /\ pending = NoFrame
  /\ pending' = f
  /\ NothingCommitted
  /\ UNCHANGED <<config, driven, recessiveRun, phase, role, frame, capture, ack, group, seen>>

(* A new bank is adopted only between two transactions.                    *)
AdoptConfiguration(c) ==
  /\ phase = "idle"
  /\ config' = c
  /\ NothingCommitted
  /\ UNCHANGED <<driven, recessiveRun, phase, role, frame, capture, ack, group, seen, pending>>

IdleSlice(e) ==
  /\ phase = "idle"
  /\ IF Level(e) = 1
     THEN /\ recessiveRun' = Min2(recessiveRun + 1, TxRun)
          /\ UNCHANGED <<phase, seen>>
     ELSE /\ recessiveRun' = 0
          /\ IF recessiveRun >= ArmRun
             THEN phase' = "receive" /\ seen' = <<0>>
             ELSE UNCHANGED <<phase, seen>>
  /\ capture' = IF phase' = "receive" THEN <<0>> ELSE <<>>
  /\ NothingCommitted
  /\ UNCHANGED <<config, driven, role, frame, ack, group, pending>>

(* SOF[0] is driven without a look at the bus: it is dominant anyway.      *)
StartTransmission ==
  /\ phase = "idle"
  /\ pending # NoFrame
  /\ recessiveRun >= TxRun
  /\ phase' = "transmit"
  /\ role' = IF pending.kind = "query" THEN "requester" ELSE "normal"
  /\ frame' = pending
  /\ driven' = 0
  /\ seen' = <<0>>
  /\ NothingCommitted
  /\ UNCHANGED <<config, recessiveRun, capture, ack, group, pending>>

-----------------------------------------------------------------------------
(* receive_frame.                                                          *)

Agrees(words, states) == \A k \in 1 .. Min2(Len(states), PrefixSlices) : words[k] = states[k]

(* As if ACK candidates were matched on the identifier alone.              *)
AckCandidates_AnyCommand(states) ==
  {i \in config.acks : \E kind \in {"normal", "acked", "query"} :
                          Agrees(Prefix(i, kind), states)}

(* The candidates that matchMask leaves after these states.                *)
AckCandidates(states) == {i \in config.acks : Agrees(Prefix(i, "acked"), states)}
ReplyCandidates(states) ==
  {s \in DOMAIN config.replies : Agrees(Prefix(config.replies[s].id, "reply"), states)}

ReceiveSlice(e) ==
  /\ phase = "receive"
  /\ LET states == Append(seen, Level(e)) IN
     IF Len(states) = 2 /\ states # SofPattern
     THEN Abort
     ELSE /\ seen' = states
          /\ capture' = Append(capture, Level(e))
          /\ IF Slice = RwSlice /\ ReplyCandidates(states) # {}
             THEN LET slot == CHOOSE s \in ReplyCandidates(states) :
                                \A t \in ReplyCandidates(states) : s <= t IN
                  /\ phase' = "transmit"
                  /\ role' = "responder"
                  /\ frame' = config.replies[slot]
                  /\ driven' = 0
             ELSE /\ phase' = IF Slice = PrefixSlices - 1 THEN "track" ELSE "receive"
                  /\ UNCHANGED <<role, frame, driven>>
          /\ ack' = (Slice = PrefixSlices - 1 /\ AckCandidates(states) # {})
          /\ NothingCommitted
          /\ UNCHANGED <<config, recessiveRun, group, pending>>

-----------------------------------------------------------------------------
(* transmit_prepared.  The latch is set to the next state at the slice     *)
(* edge; StartTransmission and ReceiveSlice have driven the first one.     *)

LocalBit == Words(frame)[Slice + 1]
Outcome(e) == Min2(LocalBit, e)

(* A responder does not look at the RTR slice: it drives it dominant.      *)
IsAck1 == Slice = Ack1Slice(frame)
RtrLost(e) == role = "requester" /\ Slice = RtrSlice /\ Outcome(e) = 0
Lost(e) == LocalBit = 1 /\ Outcome(e) = 0 /\ ~IsAck1 /\ ~RtrLost(e)

TransmitSlice(e) ==
  /\ phase = "transmit"
  /\ ~Lost(e) /\ ~RtrLost(e)
  /\ Slice + 1 < Len(Words(frame))
  /\ driven' = LocalBit
  /\ seen' = Append(seen, Outcome(e))
  /\ NothingCommitted
  /\ UNCHANGED <<config, recessiveRun, phase, role, frame, capture, ack, group, pending>>

LoseArbitration(e) ==
  /\ phase = "transmit"
  /\ Lost(e)
  /\ EndTransaction
  /\ EndLocal
  /\ NothingCommitted
  /\ UNCHANGED config

(* As if the request's RTR stayed in the capture.                          *)
LoseRtr_Unpatched(e) ==
  /\ phase = "transmit"
  /\ RtrLost(e)
  /\ driven' = 1
  /\ capture' = SubSeq(Words(frame), 1, RtrSlice) \o <<1, 0>>
  /\ seen' = Append(seen, 0)
  /\ phase' = "handover"
  /\ NothingCommitted
  /\ UNCHANGED <<config, recessiveRun, role, frame, ack, group, pending>>

(* The requested module drives RTR: the requester receives from now on.    *)
LoseRtr(e) ==
  /\ phase = "transmit"
  /\ RtrLost(e)
  /\ driven' = 1
  /\ capture' = SubSeq(Words(frame), 1, RtrSlice) \o <<0, 1>>
  /\ seen' = Append(seen, 0)
  /\ phase' = "handover"
  /\ NothingCommitted
  /\ UNCHANGED <<config, recessiveRun, role, frame, ack, group, pending>>

CompleteTransmission(e) ==
  /\ phase = "transmit"
  /\ ~Lost(e) /\ ~RtrLost(e)
  /\ Slice + 1 = Len(Words(frame))
  /\ Commit(Message(frame), <<1, seen[Ack1Slice(frame) + 1]>>, seen)
  /\ EndTransaction
  /\ EndLocal
  /\ UNCHANGED config

HandoverSlice(e) ==
  /\ phase = "handover"
  /\ IF Level(e) = 1
     THEN /\ phase' = "track"
          /\ seen' = Append(seen, 1)
          /\ ack' = config.queryAck
          /\ NothingCommitted
          /\ UNCHANGED <<config, driven, recessiveRun, role, frame, capture, group, pending>>
     ELSE Abort

-----------------------------------------------------------------------------
(* track_response.                                                         *)

(* The FCS must fit before EOD, and DATA is a whole number of bytes.       *)
EodAllowed == group >= MinEodGroup /\ group % 2 = 1
ScanContinues == group + 1 < MaxGroups

(* The two states of a group; equal ones end the data.                     *)
TrackGroup(d, n) ==
  /\ phase = "track"
  /\ LET states == <<Level(d), Level(n)>> IN
     CASE states = <<0, 0>> /\ EodAllowed ->
            /\ capture' = capture \o states
            /\ seen' = seen \o states
            /\ phase' = "ack0"
            /\ NothingCommitted
            /\ UNCHANGED <<config, driven, recessiveRun, role, frame, ack, group, pending>>
       [] states[1] # states[2] /\ ScanContinues ->
            /\ capture' = capture \o states
            /\ seen' = seen \o states
            /\ group' = group + 1
            /\ NothingCommitted
            /\ UNCHANGED <<config, driven, recessiveRun, phase, role, frame, ack, pending>>
       [] OTHER -> Abort

(* An acknowledging receiver checks ACK[0] and then drives ACK[1].         *)
Ack0Slice(e) ==
  /\ phase = "ack0"
  /\ IF ack /\ Level(e) = 0
     THEN Abort
     ELSE /\ driven' = IF ack THEN 0 ELSE driven
          /\ seen' = Append(seen, Level(e))
          /\ phase' = "ack1"
          /\ NothingCommitted
          /\ UNCHANGED <<config, recessiveRun, role, frame, capture, ack, group, pending>>

Ack1SliceEnds(e) ==
  /\ phase = "ack1"
  /\ Commit(capture, IF ack THEN <<1, 0>> ELSE <<seen[Slice], Level(e)>>,
            Append(seen, Level(e)))
  /\ EndTransaction
  /\ EndLocal
  /\ UNCHANGED config

-----------------------------------------------------------------------------
Init ==
  /\ config \in Configurations
  /\ driven = 1
  /\ recessiveRun = 0
  /\ phase = "idle"
  /\ role = "none"
  /\ frame = NoFrame
  /\ capture = <<>>
  /\ ack = FALSE
  /\ group = 0
  /\ seen = <<>>
  /\ pending = NoFrame
  /\ committed = NoCommit

Next ==
  \/ \E f \in Submissions : Submit(f)
  \/ \E c \in Configurations : AdoptConfiguration(c)
  \/ DeadlineMissed
  \/ StartTransmission
  \/ \E e \in Bit :
       \/ IdleSlice(e)
       \/ ReceiveSlice(e)
       \/ TransmitSlice(e)
       \/ LoseArbitration(e)
       \/ LoseRtr(e)
       \/ CompleteTransmission(e)
       \/ HandoverSlice(e)
       \/ Ack0Slice(e)
       \/ Ack1SliceEnds(e)
  \/ \E d, n \in Bit : TrackGroup(d, n)

Spec == Init /\ [][Next]_vars

-----------------------------------------------------------------------------
(* The types of the variables; the capture buffer is never full before the *)
(* scan for EOD ends.                                                      *)
TypeOK ==
  /\ config \in Configurations
  /\ driven \in Bit
  /\ recessiveRun \in 0 .. TxRun
  /\ phase \in {"idle", "receive", "transmit", "handover", "track", "ack0", "ack1"}
  /\ role \in {"none", "normal", "requester", "responder"}
  /\ seen \in Seq(Bit)
  /\ capture \in Seq(Bit) /\ Len(capture) <= PrefixSlices + 2 * MaxGroups
  /\ ack \in BOOLEAN
  /\ group \in 0 .. MaxGroups - 1

(* What is on the bus so far is the own frame: the transmitter still owns  *)
(* the bus.  ACK[1] belongs to the receivers.                              *)
OwnsBus ==
  /\ phase = "transmit"
  /\ \A k \in 1 .. Slice : k # Ack1Slice(frame) + 1 => seen[k] = Words(frame)[k]
  /\ role = "responder" => \E s \in DOMAIN config.replies : frame = config.replies[s]

(* A complete frame, EOD included, with a recessive ACK[0], that asks this *)
(* node for an acknowledgement: its command is C and its identifier is in  *)
(* an ACK slot, or it is the reply to the own query.                       *)
AckRequested ==
  LET groups == (Slice - 1 - PrefixSlices) \div 2 IN
  /\ groups % 2 = 0 /\ groups > MinEodGroup
  /\ seen[Slice] = 1
  /\ \A g \in 1 .. groups :
       LET k == PrefixSlices + 2 * g IN
       IF g = groups THEN seen[k - 1] = 0 /\ seen[k] = 0 ELSE seen[k - 1] # seen[k]
  /\ \/ \E i \in config.acks : SubSeq(seen, 1, PrefixSlices) = Prefix(i, "acked")
     \/ /\ pending # NoFrame /\ pending.kind = "query" /\ config.queryAck
        /\ SubSeq(seen, 1, PrefixSlices) = Prefix(pending.id, "reply")

(* The node pulls the bus down only as the owner of a frame or in the      *)
(* ACK[1] slice of a frame it was asked to acknowledge: it never disturbs  *)
(* a frame of another node, whatever the others do.                        *)
DominantOnlyWhenEntitled ==
  driven = 0 => OwnsBus \/ (phase = "ack1" /\ AckRequested)

(* What goes into the receive queue is what was on the bus, also when the  *)
(* node captured it from its own prepared words, patched the request into  *)
(* the reply that took it over, or drove ACK[1] without looking.           *)
CommittedAsOnBus ==
  committed # NoCommit => committed.states \o committed.ack = committed.bus

(* commit_capture never finds a malformed capture: an even number of       *)
(* groups, at least the shortest message, at most the capture buffer; a    *)
(* frame is received as a whole or not at all.                             *)
CommittedWholeFrames ==
  committed # NoCommit =>
    LET groups == (Len(committed.states) - PrefixSlices) \div 2 IN
    /\ Len(committed.states) = PrefixSlices + 2 * groups
    /\ groups % 2 = 0
    /\ groups \in MinEodGroup + 1 .. MaxGroups

(* What leaves the capture buffer is a frame, and the one on the bus.      *)
BusInv == TypeOK /\ CommittedWholeFrames /\ CommittedAsOnBus

(* A query that is answered in its own frame is not also completed as      *)
(* unanswered, and a responder's frame leaves the outbox alone: only the   *)
(* end of the own frame takes it out.                                      *)
OutboxReleasedByOwnFrameOnly ==
  [][pending' # pending /\ pending # NoFrame =>
       /\ phase # "idle" /\ phase' = "idle"
       /\ Slice >= 1
       /\ \A k \in 1 .. Min2(Slice, RtrSlice) : seen[k] = Words(pending)[k]]_vars
=============================================================================
