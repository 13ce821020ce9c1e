----------------------------- MODULE VanLpOutbox ----------------------------
(***************************************************************************)
(* The transmit outbox in shared RAM: LpCoreVanTx::TrySendFrame stores a   *)
(* prepared frame field by field inside the HP critical section and raises *)
(* VAN_START_TX; monitor_once on the LP core reads the fields while it     *)
(* sends the frame, stores result, trace and detail one after the other,   *)
(* and gives the outbox back with VAN_TX_FINISHED.                         *)
(*                                                                         *)
(* A field (a word of VAN_DATA, VAN_DATA_LENGTH, VAN_FRAME_TYPE,           *)
(* VAN_RETRY_COUNT) holds the frame it was stored for; a completion word   *)
(* (VAN_TX_RESULT, VAN_TX_ARBITRATION_TRACE, VAN_TX_ABORT_DETAIL) holds    *)
(* the attempt it was stored for.  The bus decides how an attempt ends.    *)
(***************************************************************************)
EXTENDS Integers, VanApiLock

CONSTANTS
  Normals,             (* frames sent with VAN_FRAME_TYPE = 0              *)
  Queries,             (* reply requests, VAN_FRAME_TYPE = 1               *)
  FieldCount,          (* the stored fields, 37 in the code                *)
  RetryCount,          (* VAN_RETRY_COUNT, 1 in the code                   *)
  NoFrame,
  NoOutcome

Frames == Normals \cup Queries

(* How an attempt to send a frame can end.                                 *)
Results(f) ==
  IF f \in Queries THEN {"noResponse", "response", "lost", "aborted"}
                   ELSE {"completed", "lost", "aborted"}

Attempts == UNION {{[frame |-> f, result |-> r] : r \in Results(f)} : f \in Frames}

ASSUME OutboxAssumption ==
  /\ Normals \cap Queries = {}
  /\ NoFrame \notin Frames
  /\ NoOutcome \notin Attempts
  /\ FieldCount \in Nat \ {0}
  /\ RetryCount \in Nat \ {0}

VARIABLES
  outbox,          (* VAN_DATA and its three parameters                    *)
  startTx,         (* VAN_START_TX                                         *)
  txFinished,      (* VAN_TX_FINISHED                                      *)
  txResult,        (* VAN_TX_RESULT                                        *)
  txTrace,         (* VAN_TX_ARBITRATION_TRACE                             *)
  txDetail,        (* VAN_TX_ABORT_DETAIL and VAN_TX_EOD_TS                *)
  hpPc,            (* where the holder is in TrySendFrame                  *)
  submission,      (* the frame it submits                                 *)
  stored,          (* how many fields it has stored                        *)
  lpPc,            (* where the LP core is in monitor_once                 *)
  lpSeen,          (* the frames whose fields this transmission has read   *)
  lpOutcome,       (* its local "result"                                   *)
  retries          (* monitor.retries                                      *)

completion == <<txResult, txTrace, txDetail>>
hpVars == <<lock, hpPc, submission, stored>>
lpVars == <<lpPc, lpSeen, lpOutcome, retries>>
vars == <<outbox, startTx, txFinished, completion, hpVars, lpVars>>

Fields == 1 .. FieldCount

-----------------------------------------------------------------------------
(* HP tasks: TrySendFrame.  A call that finds the outbox taken returns     *)
(* false and changes nothing.                                              *)

(* As if nobody looked at VAN_TX_FINISHED.                                 *)
IsTxPossible_Ignored == TRUE

IsTxPossible == txFinished

Enter(t, f) ==
  /\ lock = NoTask
  /\ IsTxPossible
  /\ lock' = t
  /\ hpPc' = "store"
  /\ submission' = f
  /\ stored' = 0
  /\ UNCHANGED <<outbox, startTx, txFinished, completion, lpVars>>

StoreField ==
  /\ hpPc = "store"
  /\ stored < FieldCount
  /\ outbox' = [outbox EXCEPT ![stored + 1] = submission]
  /\ stored' = stored + 1
  /\ UNCHANGED <<startTx, txFinished, completion, lock, hpPc, submission, lpVars>>

(* As if VAN_TX_FINISHED were never cleared.                               *)
ClearFinished_Forgotten ==
  /\ hpPc = "store"
  /\ stored = FieldCount
  /\ hpPc' = "start"
  /\ UNCHANGED <<outbox, startTx, txFinished, completion, lock, submission, stored, lpVars>>

ClearFinished ==
  /\ hpPc = "store"
  /\ stored = FieldCount
  /\ txFinished' = FALSE
  /\ hpPc' = "start"
  /\ UNCHANGED <<outbox, startTx, completion, lock, submission, stored, lpVars>>

StartTx ==
  /\ hpPc = "start"
  /\ startTx' = TRUE
  /\ hpPc' = "idle"
  /\ lock' = NoTask
  /\ submission' = NoFrame
  /\ stored' = 0
  /\ UNCHANGED <<outbox, txFinished, completion, lpVars>>

HpStep == StoreField \/ ClearFinished \/ StartTx

-----------------------------------------------------------------------------
(* LP core: the transmit half of monitor_once.  Reception of other frames  *)
(* between two looks at VAN_START_TX touches none of this, and no frame    *)
(* that VanFrameBuilder::Build accepted fails the VAN_DATA_LENGTH check.   *)

LpSeesStart ==
  /\ lpPc = "monitor"
  /\ startTx
  /\ lpPc' = "prepare"
  /\ UNCHANGED <<outbox, startTx, txFinished, completion, hpVars, lpSeen, lpOutcome, retries>>

(* An incoming SOF just before the own one: the frame stays pending.       *)
LpBusTaken ==
  /\ lpPc = "prepare"
  /\ lpPc' = "monitor"
  /\ lpSeen' = {}
  /\ UNCHANGED <<outbox, startTx, txFinished, completion, hpVars, lpOutcome, retries>>

LpDriveSof ==
  /\ lpPc = "prepare"
  /\ lpPc' = "transmit"
  /\ UNCHANGED <<outbox, startTx, txFinished, completion, hpVars, lpSeen, lpOutcome, retries>>

(* capture_prepared_prefix, transmit_prepared and capture_prepared_message *)
(* each read the fields again.                                             *)
LpReadField(k) ==
  /\ lpPc \in {"prepare", "transmit", "capture"}
  /\ lpSeen' = lpSeen \cup {outbox[k]}
  /\ UNCHANGED <<outbox, startTx, txFinished, completion, hpVars, lpPc, lpOutcome, retries>>

LpEndTransmit(result) ==
  /\ lpPc = "transmit"
  /\ lpOutcome' = [frame |-> outbox[1], result |-> result]
  /\ lpPc' = IF result \in {"completed", "noResponse"} THEN "capture" ELSE "result"
  /\ UNCHANGED <<outbox, startTx, txFinished, completion, hpVars, lpSeen, retries>>

LpCommitCapture ==
  /\ lpPc = "capture"
  /\ lpPc' = "result"
  /\ UNCHANGED <<outbox, startTx, txFinished, completion, hpVars, lpSeen, lpOutcome, retries>>

(* As if only a success were stored.                                       *)
LpStoreResult_Success ==
  /\ lpPc = "result"
  /\ txResult' = IF lpOutcome.result = "completed" THEN lpOutcome ELSE txResult
  /\ lpSeen' = {}
  /\ lpPc' = "trace"
  /\ UNCHANGED <<outbox, startTx, txFinished, txTrace, txDetail, hpVars, lpOutcome, retries>>

LpStoreResult ==
  /\ lpPc = "result"
  /\ txResult' = lpOutcome
  /\ lpSeen' = {}
  /\ lpPc' = "trace"
  /\ UNCHANGED <<outbox, startTx, txFinished, txTrace, txDetail, hpVars, lpOutcome, retries>>

LostArbitration == lpOutcome.result = "lost" /\ outbox[FieldCount] \in Normals

LpStoreTrace ==
  /\ lpPc = "trace"
  /\ txTrace' = IF LostArbitration THEN lpOutcome ELSE txTrace
  /\ lpPc' = "detail"
  /\ UNCHANGED <<outbox, startTx, txFinished, txResult, txDetail, hpVars, lpSeen, lpOutcome, retries>>

LpStoreDetail ==
  /\ lpPc = "detail"
  /\ txDetail' = lpOutcome
  /\ lpPc' = "decide"
  /\ UNCHANGED <<outbox, startTx, txFinished, txResult, txTrace, hpVars, lpSeen, lpOutcome, retries>>

(* As if the attempts were not counted.                                    *)
LpRetain_Uncounted ==
  /\ lpPc = "decide"
  /\ LostArbitration
  /\ retries + 1 < RetryCount
  /\ lpOutcome' = NoOutcome
  /\ lpPc' = "monitor"
  /\ UNCHANGED <<outbox, startTx, txFinished, completion, hpVars, lpSeen, retries>>

(* Only a normal frame that lost arbitration is tried again.               *)
LpRetain ==
  /\ lpPc = "decide"
  /\ LostArbitration
  /\ retries + 1 < RetryCount
  /\ retries' = retries + 1
  /\ lpOutcome' = NoOutcome
  /\ lpPc' = "monitor"
  /\ UNCHANGED <<outbox, startTx, txFinished, completion, hpVars, lpSeen>>

(* As if VAN_TX_FINISHED were raised before VAN_START_TX is cleared.       *)
LpClearStart_FinishFirst ==
  /\ lpPc = "decide"
  /\ ~LostArbitration \/ retries + 1 >= RetryCount
  /\ retries' = 0
  /\ txFinished' = TRUE
  /\ lpPc' = "finish"
  /\ UNCHANGED <<outbox, startTx, completion, hpVars, lpSeen, lpOutcome>>

LpClearStart ==
  /\ lpPc = "decide"
  /\ ~LostArbitration \/ retries + 1 >= RetryCount
  /\ retries' = 0
  /\ startTx' = FALSE
  /\ lpPc' = "finish"
  /\ UNCHANGED <<outbox, txFinished, completion, hpVars, lpSeen, lpOutcome>>

LpSetFinished ==
  /\ lpPc = "finish"
  /\ txFinished' = TRUE
  /\ lpOutcome' = NoOutcome
  /\ lpPc' = "monitor"
  /\ UNCHANGED <<outbox, startTx, completion, hpVars, lpSeen, retries>>

LpEnd == \E result \in Results(outbox[1]) : LpEndTransmit(result)

LpComplete ==
  \/ LpEnd
  \/ LpCommitCapture
  \/ LpStoreResult
  \/ LpStoreTrace
  \/ LpStoreDetail
  \/ LpRetain
  \/ LpClearStart
  \/ LpSetFinished

LpStep ==
  \/ LpSeesStart
  \/ LpBusTaken
  \/ LpDriveSof
  \/ \E k \in Fields : LpReadField(k)
  \/ LpComplete

-----------------------------------------------------------------------------
Init ==
  /\ outbox = [k \in Fields |-> NoFrame]
  /\ startTx = FALSE
  /\ txFinished = TRUE
  /\ txResult = NoOutcome
  /\ txTrace = NoOutcome
  /\ txDetail = NoOutcome
  /\ lock = NoTask
  /\ hpPc = "idle"
  /\ submission = NoFrame
  /\ stored = 0
  /\ lpPc = "monitor"
  /\ lpSeen = {}
  /\ lpOutcome = NoOutcome
  /\ retries = 0

Next ==
  \/ \E t \in Tasks, f \in Frames : Enter(t, f)
  \/ HpStep
  \/ LpStep

Spec == Init /\ [][Next]_vars

(* A task in the critical section runs to its end; the LP core loops for   *)
(* ever; the bus is not jammed: it is idle again and again when the LP     *)
(* core is about to start.                                                 *)
FairSpec ==
  /\ Spec
  /\ WF_vars(HpStep)
  /\ WF_vars(LpSeesStart)
  /\ SF_vars(LpDriveSof)
  /\ WF_vars(LpComplete)

-----------------------------------------------------------------------------
TypeOK ==
  /\ outbox \in [Fields -> Frames \cup {NoFrame}]
  /\ startTx \in BOOLEAN
  /\ txFinished \in BOOLEAN
  /\ txResult \in Attempts \cup {NoOutcome}
  /\ txTrace \in Attempts \cup {NoOutcome}
  /\ txDetail \in Attempts \cup {NoOutcome}
  /\ lock \in Tasks \cup {NoTask}
  /\ hpPc \in {"idle", "store", "start"}
  /\ submission \in Frames \cup {NoFrame}
  /\ stored \in 0 .. FieldCount
  /\ lpPc \in {"monitor", "prepare", "transmit", "capture", "result", "trace",
               "detail", "decide", "finish"}
  /\ lpSeen \subseteq Frames \cup {NoFrame}
  /\ lpOutcome \in Attempts \cup {NoOutcome}
  /\ retries \in 0 .. RetryCount - 1

(* Who owns the outbox: the LP core from VAN_START_TX to VAN_TX_FINISHED,  *)
(* an HP task inside the critical section, or nobody.                      *)
OwnershipInv ==
  /\ hpPc = "idle" <=> lock = NoTask
  /\ startTx => ~txFinished /\ hpPc = "idle"
  /\ lpPc \notin {"monitor", "finish"} => startTx
  /\ lpPc = "finish" => ~startTx /\ ~txFinished /\ hpPc = "idle"
  /\ hpPc = "store" => txFinished
  /\ hpPc = "start" => ~txFinished
  /\ hpPc = "idle" /\ ~startTx /\ lpPc # "finish" => txFinished

(* The fields agree with the submission as far as they are stored, and     *)
(* with each other whenever the LP core may read them.                     *)
FieldsInv ==
  /\ hpPc # "idle" => submission \in Frames
  /\ hpPc = "store" => \A k \in Fields : k <= stored => outbox[k] = submission
  /\ hpPc = "start" => \A k \in Fields : outbox[k] = submission
  /\ hpPc = "idle" => \A k \in Fields : outbox[k] = outbox[1]
  /\ ~txFinished => outbox[1] \in Frames
  /\ lpSeen \subseteq {outbox[1]}
  /\ lpPc \in {"monitor", "trace", "detail", "decide", "finish"} => lpSeen = {}

(* How far the completion words follow the attempt.                        *)
CompletionInv ==
  /\ lpPc \in {"capture", "result", "trace", "detail", "decide", "finish"} =>
       lpOutcome \in Attempts /\ lpOutcome.frame = outbox[1]
  /\ lpPc \in {"trace", "detail", "decide", "finish"} => txResult = lpOutcome
  /\ lpPc \in {"detail", "decide", "finish"} /\ LostArbitration => txTrace = lpOutcome
  /\ lpPc \in {"decide", "finish"} => txDetail = lpOutcome

(* What an HP task that finds the outbox free may conclude: the completion *)
(* words are all about the last attempt of the last submission, and the    *)
(* arbitration trace is its own whenever GetLastTxArbitrationTrace returns *)
(* one.  Nobody looks while another task is in the critical section: it    *)
(* masks interrupts on the only HP core.                                   *)
CompletionConsistent ==
  txFinished /\ lock = NoTask =>
    /\ txDetail = txResult
    /\ txResult = NoOutcome <=> outbox[1] = NoFrame
    /\ txResult # NoOutcome =>
         /\ txResult.frame = outbox[1]
         /\ txResult.result = "lost" /\ outbox[FieldCount] \in Normals => txTrace = txResult

(* The inductive invariant.                                                *)
OutboxInv ==
  /\ TypeOK
  /\ OwnershipInv
  /\ FieldsInv
  /\ CompletionInv
  /\ CompletionConsistent

(* What goes out on the bus, and what the receive queue reports as sent,   *)
(* is one frame, never the head of one and the tail of another.            *)
OneFramePerTransmission == lpSeen \subseteq Frames /\ \A f, g \in lpSeen : f = g

(* The outbox does not change under the LP core, from the start of an      *)
(* attempt through its retries to the end of the last one.                 *)
NoStoreWhileSending == [][startTx => outbox' = outbox]_vars

(* The outbox implements a mailbox for one frame.                          *)
Mailbox == INSTANCE AtomicOutbox WITH
  Outcomes <- Results,
  pending <- IF startTx \/ lpPc = "finish" THEN outbox[1] ELSE NoFrame,
  outcome <- txResult

ImplementsAtomicOutbox == Mailbox!Spec

(* A submitted frame is finished, whatever the other tasks and the bus do. *)
EverySubmissionFinishes == startTx ~> txFinished
=============================================================================
