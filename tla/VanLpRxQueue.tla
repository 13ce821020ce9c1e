---------------------------- MODULE VanLpRxQueue ----------------------------
(***************************************************************************)
(* The receive queue of the LP core: a ring of QueueLength entries in      *)
(* shared RAM with one producer (the LP core, commit_capture) and one      *)
(* consumer (the HP task in LpCoreVanTx::ReceiveFrame), no lock, and       *)
(* free-running 32-bit indices.                                            *)
(*                                                                         *)
(* Every load or store of a shared word that the other core can observe is *)
(* a step of its own.  An entry has three fields, written and copied one   *)
(* after the other; a field holds the name of the capture it was taken     *)
(* from, so that a torn entry is one whose fields disagree.  The fences of *)
(* the code order the stores as they are written here.                     *)
(***************************************************************************)
EXTENDS Integers, Sequences

CONSTANTS
  QueueLength,     (* VAN_LP_RX_QUEUE_LENGTH, 4 in the code                *)
  IndexModulus,    (* indices are uint32_t: 2^32 in the code               *)
  CounterModulus,  (* the loss counters are uint32_t: 2^32 in the code     *)
  Captures,        (* captures the LP core can try to commit               *)
  WellFormed,      (* those with an even count of 10..66 groups            *)
  NoCapture        (* the zeroed field of an entry never written           *)

(* The ring must divide the index range, or index % QueueLength would jump *)
(* when an index wraps; and a full ring must not look like an empty one.   *)
ASSUME RxQueueAssumption ==
  /\ QueueLength \in Nat \ {0}
  /\ IndexModulus \in Nat
  /\ IndexModulus > QueueLength
  /\ IndexModulus % QueueLength = 0
  /\ CounterModulus \in Nat \ {0}
  /\ WellFormed \subseteq Captures
  /\ NoCapture \notin Captures

VARIABLES
  frames,          (* the ring entries                                     *)
  writeIndex,      (* next index the LP core publishes                     *)
  readIndex,       (* next index the HP core consumes                      *)
  receivedCount,   (* diagnostics, all written by the LP core only         *)
  overflowCount,
  malformedCount,
  maxOccupancy,
  commitPc,        (* what commit_capture does next                        *)
  lpCapture,       (* the capture being committed                          *)
  lpOccupancy,     (* its local "occupancy"                                *)
  receivePc,       (* what ReceiveFrame does next                          *)
  hpCopy,          (* its local copy of the entry                          *)
  delivered        (* the last copy it returned to its caller              *)

commitVars == <<commitPc, lpCapture, lpOccupancy>>
receiveVars == <<receivePc, hpCopy, delivered>>
counters == <<receivedCount, overflowCount, malformedCount, maxOccupancy>>
ringVars == <<frames, writeIndex, readIndex, counters, commitVars, receiveVars>>

Entry == [groupCount : Captures \cup {NoCapture},
          groups     : Captures \cup {NoCapture},
          ack        : Captures \cup {NoCapture}]

Whole(c) == [groupCount |-> c, groups |-> c, ack |-> c]

Slots == 0 .. QueueLength - 1
Indices == 0 .. IndexModulus - 1

(* uint32_t arithmetic on indices.                                         *)
Next32(i) == IF i + 1 = IndexModulus THEN 0 ELSE i + 1
Distance(from, to) == IF to >= from THEN to - from ELSE to - from + IndexModulus

Occupancy == Distance(readIndex, writeIndex)
SlotOf(i) == i % QueueLength

-----------------------------------------------------------------------------
(* LP core: commit_capture.                                                *)

CommitMalformed(c) ==
  /\ commitPc = "idle"
  /\ c \notin WellFormed
  /\ malformedCount' = (malformedCount + 1) % CounterModulus
  /\ UNCHANGED <<frames, writeIndex, readIndex, receivedCount, overflowCount,
                 maxOccupancy, commitVars, receiveVars>>

CommitOverflow(c) ==
  /\ commitPc = "idle"
  /\ c \in WellFormed
  /\ Occupancy >= QueueLength
  /\ overflowCount' = (overflowCount + 1) % CounterModulus
  /\ UNCHANGED <<frames, writeIndex, readIndex, receivedCount, malformedCount,
                 maxOccupancy, commitVars, receiveVars>>

(* As if the queue-full check were missing.                                *)
CommitBegin_Unchecked(c) ==
  /\ commitPc = "idle"
  /\ c \in WellFormed
  /\ commitPc' = "groupCount"
  /\ lpCapture' = c
  /\ lpOccupancy' = Occupancy % QueueLength
  /\ UNCHANGED <<frames, writeIndex, readIndex, counters, receiveVars>>

CommitBegin(c) ==
  /\ commitPc = "idle"
  /\ c \in WellFormed
  /\ Occupancy < QueueLength
  /\ commitPc' = "groupCount"
  /\ lpCapture' = c
  /\ lpOccupancy' = Occupancy
  /\ UNCHANGED <<frames, writeIndex, readIndex, counters, receiveVars>>

Store(field, nextPc) ==
  /\ commitPc = field
  /\ frames' = [frames EXCEPT ![SlotOf(writeIndex)][field] = lpCapture]
  /\ commitPc' = nextPc
  /\ UNCHANGED <<writeIndex, readIndex, counters, lpCapture, lpOccupancy, receiveVars>>

(* As if the index were published before the ACK states are stored.        *)
StoreGroups_PublishFirst == Store("groups", "publish")

StoreGroupCount == Store("groupCount", "groups")
StoreGroups     == Store("groups", "ack")
StoreAck        == Store("ack", "publish")

(* As if the LP core waited for the reader to drain the ring first.        *)
PublishEntry_Waiting ==
  /\ commitPc = "publish"
  /\ readIndex = writeIndex
  /\ writeIndex' = Next32(writeIndex)
  /\ commitPc' = "account"
  /\ UNCHANGED <<frames, readIndex, counters, lpCapture, lpOccupancy, receiveVars>>

PublishEntry ==
  /\ commitPc = "publish"
  /\ writeIndex' = Next32(writeIndex)
  /\ commitPc' = "account"
  /\ UNCHANGED <<frames, readIndex, counters, lpCapture, lpOccupancy, receiveVars>>

Account ==
  /\ commitPc = "account"
  /\ receivedCount' = Next32(receivedCount)
  /\ maxOccupancy' = IF lpOccupancy + 1 > maxOccupancy
                     THEN lpOccupancy + 1 ELSE maxOccupancy
  /\ commitPc' = "idle"
  /\ lpCapture' = NoCapture
  /\ lpOccupancy' = 0
  /\ UNCHANGED <<frames, writeIndex, readIndex, overflowCount, malformedCount,
                 receiveVars>>

CommitStep ==
  \/ \E c \in Captures : CommitMalformed(c) \/ CommitOverflow(c) \/ CommitBegin(c)
  \/ StoreGroupCount
  \/ StoreGroups
  \/ StoreAck
  \/ PublishEntry
  \/ Account

-----------------------------------------------------------------------------
(* HP core: ReceiveFrame.  It polls while the indices agree.               *)

(* As if free-running indices could be compared with "<".                  *)
PollNotEmpty_Ordered ==
  /\ receivePc = "poll"
  /\ readIndex < writeIndex
  /\ receivePc' = "groupCount"
  /\ UNCHANGED <<frames, writeIndex, readIndex, counters, commitVars, hpCopy, delivered>>

PollNotEmpty ==
  /\ receivePc = "poll"
  /\ readIndex # writeIndex
  /\ receivePc' = "groupCount"
  /\ UNCHANGED <<frames, writeIndex, readIndex, counters, commitVars, hpCopy, delivered>>

(* A count beyond VAN_LP_RX_MAX_GROUPS makes the reader skip the entry.    *)
CopyGroupCount ==
  /\ receivePc = "groupCount"
  /\ LET count == frames[SlotOf(readIndex)].groupCount IN
     /\ hpCopy' = [hpCopy EXCEPT !.groupCount = count]
     /\ receivePc' = IF count \in WellFormed THEN "groups" ELSE "skip"
  /\ UNCHANGED <<frames, writeIndex, readIndex, counters, commitVars, delivered>>

Copy(field, nextPc) ==
  /\ receivePc = field
  /\ hpCopy' = [hpCopy EXCEPT ![field] = frames[SlotOf(readIndex)][field]]
  /\ receivePc' = nextPc
  /\ UNCHANGED <<frames, writeIndex, readIndex, counters, commitVars, delivered>>

CopyGroups == Copy("groups", "ack")
CopyAck    == Copy("ack", "release")

(* As if the reader released everything published meanwhile.               *)
Release_All ==
  /\ receivePc \in {"release", "skip"}
  /\ readIndex' = writeIndex
  /\ delivered' = IF receivePc = "release" THEN hpCopy ELSE delivered
  /\ receivePc' = "poll"
  /\ hpCopy' = Whole(NoCapture)
  /\ UNCHANGED <<frames, writeIndex, counters, commitVars>>

Release ==
  /\ receivePc \in {"release", "skip"}
  /\ readIndex' = Next32(readIndex)
  /\ delivered' = IF receivePc = "release" THEN hpCopy ELSE delivered
  /\ receivePc' = "poll"
  /\ hpCopy' = Whole(NoCapture)
  /\ UNCHANGED <<frames, writeIndex, counters, commitVars>>

ReceiveStep ==
  \/ PollNotEmpty
  \/ CopyGroupCount
  \/ CopyGroups
  \/ CopyAck
  \/ Release

-----------------------------------------------------------------------------
RingInit ==
  /\ frames = [s \in Slots |-> Whole(NoCapture)]
  /\ writeIndex = 0
  /\ readIndex = 0
  /\ receivedCount = 0
  /\ overflowCount = 0
  /\ malformedCount = 0
  /\ maxOccupancy = 0
  /\ commitPc = "idle"
  /\ lpCapture = NoCapture
  /\ lpOccupancy = 0
  /\ receivePc = "poll"
  /\ hpCopy = Whole(NoCapture)
  /\ delivered = Whole(NoCapture)

RingNext == CommitStep \/ ReceiveStep

RingSpec == RingInit /\ [][RingNext]_ringVars

(* The LP core runs commit_capture to its end whatever the HP core does;   *)
(* the HP task that receives is scheduled again and again.                 *)
LpCommitStep == StoreGroupCount \/ StoreGroups \/ StoreAck \/ PublishEntry \/ Account

LpFairSpec == RingSpec /\ WF_ringVars(LpCommitStep)

HpFairness == WF_ringVars(ReceiveStep)

-----------------------------------------------------------------------------
RingTypeOK ==
  /\ frames \in [Slots -> Entry]
  /\ writeIndex \in Indices
  /\ readIndex \in Indices
  /\ receivedCount \in Indices
  /\ overflowCount \in 0 .. CounterModulus - 1
  /\ malformedCount \in 0 .. CounterModulus - 1
  /\ maxOccupancy \in 0 .. QueueLength
  /\ commitPc \in {"idle", "groupCount", "groups", "ack", "publish", "account"}
  /\ lpCapture \in Captures \cup {NoCapture}
  /\ lpOccupancy \in 0 .. QueueLength - 1
  /\ receivePc \in {"poll", "groupCount", "groups", "ack", "release", "skip"}
  /\ hpCopy \in Entry
  /\ delivered \in Entry

(* The indices of the entries published and not yet released, oldest       *)
(* first: the k-th is readIndex + k in 32-bit arithmetic.                  *)
Plus(i, k) == IF i + k >= IndexModulus THEN i + k - IndexModulus ELSE i + k
PublishedSlot(k) == SlotOf(Plus(readIndex, k))

Contents == [k \in 1 .. Occupancy |-> frames[PublishedSlot(k - 1)]]

(* The indices never get further apart than the ring is long, although     *)
(* each core reads the other's index without a lock: the LP core's view of *)
(* readIndex is at worst too old, so it can only overestimate.             *)
NeverOverfull == Occupancy <= QueueLength

(* Every published entry is whole: the reader may start on it at any time, *)
(* also while the LP core is filling the next one.                         *)
PublishedEntriesWhole ==
  \A k \in 0 .. Occupancy - 1 :
    \E c \in WellFormed : frames[PublishedSlot(k)] = Whole(c)

(* What the LP core has stored so far while it fills an entry: the entry   *)
(* is free, and its fields up to commitPc are those of the capture.        *)
FillingInv ==
  commitPc \in {"groupCount", "groups", "ack", "publish"} =>
    LET entry == frames[SlotOf(writeIndex)] IN
    /\ Occupancy < QueueLength
    /\ lpCapture \in WellFormed
    /\ commitPc # "groupCount" => entry.groupCount = lpCapture
    /\ commitPc \in {"ack", "publish"} => entry.groups = lpCapture
    /\ commitPc = "publish" => entry.ack = lpCapture

(* What the HP task has copied so far still agrees with the entry.         *)
CopyingInv ==
  LET entry == frames[SlotOf(readIndex)] IN
  /\ receivePc # "poll" => Occupancy > 0
  /\ receivePc \in {"groups", "ack", "release"} => hpCopy.groupCount = entry.groupCount
  /\ receivePc \in {"ack", "release"} => hpCopy.groups = entry.groups
  /\ receivePc = "release" => hpCopy.ack = entry.ack

(* The LP core never stores into the entry the HP task is copying.         *)
NoStoreUnderReader ==
  [][receivePc # "poll" => frames'[SlotOf(readIndex)] = frames[SlotOf(readIndex)]]_ringVars

(* What the HP task hands to the decoder is one capture, never a mixture   *)
(* of two, and the skip branch of ReceiveFrame is never taken.             *)
DeliveredWhole ==
  /\ delivered \in {Whole(c) : c \in WellFormed \cup {NoCapture}}
  /\ receivePc # "skip"

(* The inductive invariant.                                                *)
RingInv ==
  /\ RingTypeOK
  /\ NeverOverfull
  /\ PublishedEntriesWhole
  /\ FillingInv
  /\ CopyingInv
  /\ DeliveredWhole

(* The ring implements the bounded drop-newest queue.                      *)
Fifo == INSTANCE DropNewestFifo WITH
  Length <- QueueLength,
  Values <- {Whole(c) : c \in WellFormed},
  NoValue <- Whole(NoCapture),
  queue <- Contents,
  dropped <- overflowCount

ImplementsFifo == Fifo!Spec

(* "Receive bookkeeping can never delay ACK, reply or transmit timing"     *)
(* (VanLpShared.h): a commit ends under the fairness of the LP core alone, *)
(* with the HP task stopped for ever at any point.                         *)
CommitNeverBlocks == (commitPc # "idle") ~> (commitPc = "idle")

(* A frame in the queue is delivered as long as the HP task polls: every   *)
(* published index is released.                                            *)
EveryFrameDelivered ==
  HpFairness => \A i \in Indices : (Occupancy > 0 /\ readIndex = i) ~> (readIndex # i)
=============================================================================
