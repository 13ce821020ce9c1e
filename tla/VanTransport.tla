---------------------------- MODULE VanTransport ----------------------------
(***************************************************************************)
(* VANTransportLayer: the FreeRTOS transmit queue, the task that empties   *)
(* it, and the LP core below, composed from what the outbox (AtomicOutbox, *)
(* implemented by VanLpOutbox) and the configuration banks (AtomicConfig,  *)
(* implemented by VanLpConfigBanks) promise.                               *)
(***************************************************************************)
EXTENDS Integers, Sequences

CONSTANTS
  Normals,             (* MessageType::Normal                              *)
  Queries,             (* MessageType::Query                               *)
  ConfigSlots,         (* slots of MessageType::Response and ::AckOnly     *)
  Settings,
  InitialConfig,
  Traced,              (* ids of VAN_LP_TRACE_..., none in the code        *)
  TxQueueLength,       (* TX_QUEUE_LENGTH, 15 in the code                  *)
  MaxRetryCount,       (* MAX_RETRY_COUNT, 5 in the code                   *)
  NoFrame,
  NoOutcome

Frames == Normals \cup Queries
ConfigMessages == [slot : ConfigSlots, setting : Settings]
Bodies == Frames \cup ConfigMessages
QueueItems == [body : Bodies, retryCount : 0 .. MaxRetryCount]

Results(f) ==
  IF f \in Queries THEN {"noResponse", "response", "lost", "aborted"}
                   ELSE {"completed", "lost", "aborted"}

ASSUME TransportAssumption ==
  /\ Normals \cap Queries = {}
  /\ NoFrame \notin Bodies
  /\ Traced \subseteq Frames
  /\ TxQueueLength \in Nat \ {0}
  /\ MaxRetryCount \in Nat
  /\ InitialConfig \in [ConfigSlots -> Settings]

VARIABLES
  txQueue,         (* _txQueue                                             *)
  txPc,            (* where TxTask is in its loop                          *)
  message,         (* its local "message", <<>> or <<item>>                *)
  reportPending,   (* the traced frame whose result it still has to report *)
  reported,        (* the frame it reported last, and the result it read   *)
  pending,         (* the outbox: VAN_START_TX .. VAN_TX_FINISHED          *)
  outcome,
  latest,          (* the configuration banks                              *)
  active,
  busy,
  lpPc             (* where the LP core is in monitor_once                 *)

outboxVars == <<pending, outcome>>
configVars == <<latest, active, busy>>
taskVars == <<txPc, message, reportPending, reported>>
lpVars == <<outboxVars, configVars, lpPc>>
vars == <<txQueue, taskVars, lpVars>>

Outbox == INSTANCE AtomicOutbox WITH Outcomes <- Results
Config == INSTANCE AtomicConfig

IsTxPossible == pending = NoFrame

-----------------------------------------------------------------------------
(* SendMessage, called by the scheduler and the feedback handlers.  It     *)
(* returns 1 whether or not the queue took the message.                    *)

SendMessage(m, highPriority) ==
  LET item == [body |-> m, retryCount |-> 0] IN
  /\ Len(txQueue) < TxQueueLength
  /\ txQueue' = IF highPriority THEN <<item>> \o txQueue ELSE Append(txQueue, item)
  /\ UNCHANGED <<taskVars, lpVars>>

-----------------------------------------------------------------------------
(* TxTask.                                                                 *)

(* reportCompletedTx; the macros that enable it are 0 in the code.         *)
ReportCompleted ==
  IF reportPending # NoFrame /\ IsTxPossible
  THEN /\ reported' = [asked |-> reportPending, got |-> outcome]
       /\ reportPending' = NoFrame
  ELSE UNCHANGED <<reported, reportPending>>

LoopTop ==
  /\ txPc = "top"
  /\ ReportCompleted
  /\ txPc' = "receive"
  /\ UNCHANGED <<txQueue, message, lpVars>>

ReceiveTimeout ==
  /\ txPc = "receive"
  /\ txQueue = <<>>
  /\ reportPending # NoFrame
  /\ txPc' = "top"
  /\ UNCHANGED <<txQueue, message, reportPending, reported, lpVars>>

Receive ==
  /\ txPc = "receive"
  /\ txQueue # <<>>
  /\ message' = <<Head(txQueue)>>
  /\ txQueue' = Tail(txQueue)
  /\ txPc' = "check"
  /\ UNCHANGED <<reportPending, reported, lpVars>>

(* As if the message were dispatched whatever the outbox holds.            *)
CheckBus_Ignored ==
  /\ txPc = "check"
  /\ txPc' = "report"
  /\ UNCHANGED <<txQueue, message, reportPending, reported, lpVars>>

CheckBus ==
  /\ txPc = "check"
  /\ txPc' = IF IsTxPossible THEN "report" ELSE "delay"
  /\ UNCHANGED <<txQueue, message, reportPending, reported, lpVars>>

(* As if the try were not counted, or the message put back behind those    *)
(* that came later.                                                        *)
Requeue_As(mayStay, queue) ==
  /\ txPc = "delay"
  /\ txQueue' = IF mayStay /\ Len(txQueue) < TxQueueLength THEN queue ELSE txQueue
  /\ message' = <<>>
  /\ txPc' = "top"
  /\ UNCHANGED <<reportPending, reported, lpVars>>

Tried(item) == [item EXCEPT !.retryCount = @ + 1]

Requeue_Uncounted == Requeue_As(TRUE, message \o txQueue)
Requeue_Back ==
  Requeue_As(message[1].retryCount < MaxRetryCount,
             Append(txQueue, Tried(message[1])))

(* After two milliseconds the message goes back to the front, if it has    *)
(* tries left and nobody filled its place; otherwise it is gone.           *)
Requeue ==
  /\ txPc = "delay"
  /\ LET retryCount == message[1].retryCount + 1 IN
     IF retryCount <= MaxRetryCount /\ Len(txQueue) < TxQueueLength
     THEN txQueue' = <<[message[1] EXCEPT !.retryCount = retryCount]>> \o txQueue
     ELSE UNCHANGED txQueue
  /\ message' = <<>>
  /\ txPc' = "top"
  /\ UNCHANGED <<reportPending, reported, lpVars>>

ReportBeforeSubmit ==
  /\ txPc = "report"
  /\ ReportCompleted
  /\ txPc' = "dispatch"
  /\ UNCHANGED <<txQueue, message, lpVars>>

(* TrySendFrame refuses a frame when another is pending, and nobody looks. *)
DispatchFrame ==
  /\ txPc = "dispatch"
  /\ message[1].body \in Frames
  /\ IF IsTxPossible THEN Outbox!Submit(message[1].body) ELSE UNCHANGED outboxVars
  /\ reportPending' = IF message[1].body \in Traced THEN message[1].body ELSE NoFrame
  /\ message' = <<>>
  /\ txPc' = "top"
  /\ UNCHANGED <<txQueue, reported, configVars, lpPc>>

(* SetRequestedReplyFrame and SetAckIdentifier wait for the LP core to     *)
(* have adopted the previous configuration.                                *)
DispatchConfig ==
  /\ txPc = "dispatch"
  /\ message[1].body \in ConfigMessages
  /\ Config!Update(message[1].body.slot, message[1].body.setting)
  /\ message' = <<>>
  /\ txPc' = "top"
  /\ UNCHANGED <<txQueue, reportPending, reported, outboxVars, lpPc>>

(* ... for at most 50 ms, and nobody looks at the result.                  *)
ConfigTimeout ==
  /\ txPc = "dispatch"
  /\ message[1].body \in ConfigMessages
  /\ active # latest
  /\ message' = <<>>
  /\ txPc' = "top"
  /\ UNCHANGED <<txQueue, reportPending, reported, lpVars>>

TaskStep ==
  \/ LoopTop
  \/ ReceiveTimeout
  \/ Receive
  \/ CheckBus
  \/ Requeue
  \/ ReportBeforeSubmit
  \/ DispatchFrame
  \/ DispatchConfig
  \/ ConfigTimeout

-----------------------------------------------------------------------------
(* LP core: one iteration of monitor_once after the other.                 *)

LpCheckConfig ==
  /\ lpPc = "monitor"
  /\ IF active # latest THEN Config!Adopt ELSE UNCHANGED configVars
  /\ lpPc' = "bus"
  /\ UNCHANGED <<txQueue, taskVars, outboxVars>>

LpQuietBus ==
  /\ lpPc = "bus"
  /\ lpPc' = "monitor"
  /\ UNCHANGED <<txQueue, taskVars, outboxVars, configVars>>

LpIncoming ==
  /\ lpPc = "bus"
  /\ Config!BeginTransaction
  /\ lpPc' = "incoming"
  /\ UNCHANGED <<txQueue, taskVars, outboxVars>>

LpIncomingEnds ==
  /\ lpPc = "incoming"
  /\ Config!EndTransaction
  /\ lpPc' = "monitor"
  /\ UNCHANGED <<txQueue, taskVars, outboxVars>>

LpTransmit ==
  /\ lpPc = "bus"
  /\ pending # NoFrame
  /\ Config!BeginTransaction
  /\ lpPc' = "transmit"
  /\ UNCHANGED <<txQueue, taskVars, outboxVars>>

(* VAN_RETRY_COUNT is 1: the first attempt is the last.                    *)
LpAttempt(result) ==
  /\ lpPc = "transmit"
  /\ Outbox!Attempt(result)
  /\ Config!EndTransaction
  /\ lpPc' = "finish"
  /\ UNCHANGED <<txQueue, taskVars>>

LpFinish ==
  /\ lpPc = "finish"
  /\ Outbox!Finish
  /\ lpPc' = "monitor"
  /\ UNCHANGED <<txQueue, taskVars, configVars>>

LpEnd == pending # NoFrame /\ \E result \in Results(pending) : LpAttempt(result)

LpStep ==
  \/ LpCheckConfig
  \/ LpQuietBus
  \/ LpIncoming
  \/ LpIncomingEnds
  \/ LpTransmit
  \/ LpEnd
  \/ LpFinish

-----------------------------------------------------------------------------
Init ==
  /\ txQueue = <<>>
  /\ txPc = "top"
  /\ message = <<>>
  /\ reportPending = NoFrame
  /\ reported = NoOutcome
  /\ Outbox!Init
  /\ Config!Init
  /\ lpPc = "monitor"

Next ==
  \/ \E m \in Bodies, highPriority \in BOOLEAN : SendMessage(m, highPriority)
  \/ TaskStep
  \/ LpStep

Spec == Init /\ [][Next]_vars

(* TxTask has the highest priority of the application tasks.               *)
TaskFairSpec == Spec /\ WF_vars(TaskStep)

-----------------------------------------------------------------------------
TypeOK ==
  /\ txQueue \in Seq(QueueItems) /\ Len(txQueue) <= TxQueueLength
  /\ txPc \in {"top", "receive", "check", "delay", "report", "dispatch"}
  /\ message \in {<<>>} \cup {<<item>> : item \in QueueItems}
  /\ reportPending \in Traced \cup {NoFrame}
  /\ pending \in Frames \cup {NoFrame}
  /\ latest \in [ConfigSlots -> Settings]
  /\ active \in [ConfigSlots -> Settings]
  /\ busy \in BOOLEAN
  /\ lpPc \in {"monitor", "bus", "incoming", "transmit", "finish"}

(* The availability that TxTask saw before the report still holds when it  *)
(* submits, so that TrySendFrame never refuses a frame and the message is  *)
(* not lost between the check and the call.                                *)
SubmitNeverRefused ==
  txPc \in {"report", "dispatch"} => IsTxPossible

(* "Track the result before this task can submit another frame and         *)
(* overwrite the completion slot" (VANTransportLayer.cpp): a reported      *)
(* result is that of the frame it is reported for.                         *)
ReportsOwnResult ==
  reported # NoOutcome =>
    reported.got # NoOutcome /\ reported.got.frame = reported.asked

(* Submissions and reports do not mix up frames.                           *)
TransportInv == TypeOK /\ SubmitNeverRefused /\ ReportsOwnResult

(* The messages accepted and not yet dispatched or lost, in the order in   *)
(* which they will be.                                                     *)
Content == [k \in 1 .. Len(message \o txQueue) |-> (message \o txQueue)[k].body]

(* The retries of the head keep the order of the rest and duplicate        *)
(* nothing.                                                                *)
Queue == INSTANCE LossyQueue WITH
  Capacity <- TxQueueLength + 1,
  content <- Content

ImplementsLossyQueue == Queue!Spec

(* The queue does not stop: as long as there are messages, one leaves,     *)
(* also when high-priority messages keep coming, and even when the LP core *)
(* has stopped for ever in the middle of a transmission or an update.      *)
QueueKeepsMoving ==
  []<>(Content = <<>>) \/ []<><<Content # <<>> /\ Content' = Tail(Content)>>_vars

(* "Its TX task waits until the sender accepts another frame, then         *)
(* dispatches" (docs/VAN-LP-CORE-ARCHITECTURE.md): a frame TxTask has      *)
(* taken from the queue is not given up.                                   *)
WaitsUntilAccepted ==
  [][message # <<>> /\ message' = <<>> /\ message[1].body \in Frames =>
       \/ pending' = message[1].body
       \/ txQueue' # txQueue]_vars
=============================================================================
