-------------------------- MODULE VanTransportProofs --------------------------
(***************************************************************************)
(* TransportInv holds, and the transmit queue implements LossyQueue, for   *)
(* every set of messages and slots, every length of the queue and every    *)
(* number of retries.                                                      *)
(***************************************************************************)
EXTENDS VanTransport, SequenceTheorems, TLAPS

(* A step of the task has a message in hand exactly between taking it from *)
(* the queue and being done with it.                                       *)
InHand ==
  message # <<>> <=> txPc \in {"check", "delay", "report", "dispatch"}

(* The frame whose result is to be reported is the one in the outbox, or   *)
(* the outbox is free and still holds its outcome.                         *)
ReportIsOfLast ==
  /\ reportPending # NoFrame =>
       \/ pending = reportPending
       \/ pending = NoFrame /\ outcome # NoOutcome /\ outcome.frame = reportPending
  /\ txPc = "dispatch" => reportPending = NoFrame

TransportIInv == TransportInv /\ InHand /\ ReportIsOfLast

-----------------------------------------------------------------------------
LEMMA InitTransport == Init => TransportIInv
<1> SUFFICES ASSUME Init PROVE TransportIInv OBVIOUS
<1>1. TypeOK
  <2>1. /\ txQueue = <<>> /\ txPc = "top" /\ message = <<>> /\ reportPending = NoFrame
        /\ lpPc = "monitor"
    BY DEF Init
  <2>2. pending = NoFrame BY DEF Init, Outbox!Init
  <2>3. latest = InitialConfig /\ active = InitialConfig /\ busy = FALSE
    BY DEF Init, Config!Init
  <2>4. <<>> \in Seq(QueueItems) /\ Len(<<>>) <= TxQueueLength
    <3> HIDE DEF QueueItems
    <3> QED BY TransportAssumption
  <2> QED BY <2>1, <2>2, <2>3, <2>4, TransportAssumption DEF TypeOK
<1>2. SubmitNeverRefused /\ ReportsOwnResult
  BY DEF Init, SubmitNeverRefused, ReportsOwnResult
<1>3. InHand /\ ReportIsOfLast BY DEF Init, InHand, ReportIsOfLast
<1> QED BY <1>1, <1>2, <1>3 DEF TransportIInv, TransportInv

LEMMA ItemTypes ==
  ASSUME TypeOK, message # <<>>
  PROVE  /\ message = <<message[1]>> /\ message[1] \in QueueItems
         /\ message[1].body \in Bodies
BY DEF TypeOK, QueueItems

LEMMA SendMessageKeeps ==
  ASSUME TransportIInv, NEW m \in Bodies, NEW highPriority \in BOOLEAN,
         SendMessage(m, highPriority)
  PROVE  TransportIInv'
<1> USE DEF TransportIInv, TransportInv
<1> DEFINE item == [body |-> m, retryCount |-> 0]
<1>1. item \in QueueItems BY TransportAssumption DEF QueueItems
<1>2. txQueue' \in Seq(QueueItems) /\ Len(txQueue') <= TxQueueLength
  <2>1. /\ txQueue \in Seq(QueueItems) /\ Len(txQueue) < TxQueueLength
        /\ txQueue' = <<item>> \o txQueue \/ txQueue' = Append(txQueue, item)
    BY DEF SendMessage, TypeOK
  <2>2. TxQueueLength \in Nat BY TransportAssumption
  <2> HIDE DEF item
  <2>3. Append(txQueue, item) \in Seq(QueueItems) /\ Len(Append(txQueue, item)) = Len(txQueue) + 1
    BY <1>1, <2>1
  <2>4. <<item>> \o txQueue \in Seq(QueueItems) /\ Len(<<item>> \o txQueue) = Len(txQueue) + 1
    BY <1>1, <2>1
  <2>5. Len(txQueue) \in Nat BY <2>1
  <2> HIDE DEF TransportIInv, TransportInv
  <2> HIDE DEF QueueItems
  <2>6. Len(txQueue) + 1 <= TxQueueLength BY <2>1, <2>2, <2>5
  <2>7. CASE txQueue' = <<item>> \o txQueue
    BY <2>7, <2>4, <2>6
  <2>8. CASE txQueue' = Append(txQueue, item)
    BY <2>8, <2>3, <2>6
  <2> QED BY <2>1, <2>7, <2>8
<1>3. UNCHANGED <<taskVars, lpVars>> BY DEF SendMessage
<1> QED
  BY <1>2, <1>3
  DEF taskVars, lpVars, outboxVars, configVars, TypeOK, SubmitNeverRefused, IsTxPossible,
      ReportsOwnResult, InHand, ReportIsOfLast

(* Reporting reads the outcome of the frame that was submitted last.       *)
LEMMA ReportKeeps ==
  ASSUME TransportIInv, ReportCompleted
  PROVE  /\ reportPending' \in Traced \cup {NoFrame}
         /\ reportPending' \in {reportPending, NoFrame}
         /\ IsTxPossible => reportPending' = NoFrame
         /\ reported' # NoOutcome => reported'.got # NoOutcome
                                       /\ reported'.got.frame = reported'.asked
<1> USE DEF TransportIInv, TransportInv
<1>1. CASE reportPending # NoFrame /\ IsTxPossible
  <2>1. reported' = [asked |-> reportPending, got |-> outcome] /\ reportPending' = NoFrame
    BY <1>1 DEF ReportCompleted
  <2>2. outcome # NoOutcome /\ outcome.frame = reportPending
    BY <1>1 DEF ReportIsOfLast, IsTxPossible
  <2> QED BY <2>1, <2>2
<1>2. CASE ~(reportPending # NoFrame /\ IsTxPossible)
  BY <1>2 DEF ReportCompleted, TypeOK, ReportsOwnResult
<1> QED BY <1>1, <1>2

LEMMA TaskKeeps ==
  ASSUME TransportIInv, TaskStep
  PROVE  TransportIInv'
<1> USE DEF TransportIInv, TransportInv
<1>1. CASE LoopTop \/ ReportBeforeSubmit
  <2>1. /\ ReportCompleted /\ UNCHANGED <<txQueue, message, lpVars>>
        /\ \/ txPc = "top" /\ txPc' = "receive"
           \/ txPc = "report" /\ txPc' = "dispatch" /\ IsTxPossible
    BY <1>1 DEF LoopTop, ReportBeforeSubmit, SubmitNeverRefused
  <2> QED
    BY <2>1, ReportKeeps
    DEF lpVars, outboxVars, configVars, TypeOK, SubmitNeverRefused, IsTxPossible,
        ReportsOwnResult, InHand, ReportIsOfLast
<1>2. CASE ReceiveTimeout \/ CheckBus
  <2>1. UNCHANGED <<txQueue, message, reportPending, reported, lpVars>>
    BY <1>2 DEF ReceiveTimeout, CheckBus
  <2>2. \/ txPc = "receive" /\ txPc' = "top"
        \/ txPc = "check" /\ txPc' = "delay"
        \/ txPc = "check" /\ txPc' = "report" /\ IsTxPossible
    BY <1>2 DEF ReceiveTimeout, CheckBus
  <2> QED
    BY <2>1, <2>2
    DEF lpVars, outboxVars, configVars, TypeOK, SubmitNeverRefused, IsTxPossible,
        ReportsOwnResult, InHand, ReportIsOfLast
<1>3. CASE Receive
  <2>1. /\ txQueue' = Tail(txQueue) /\ message' = <<Head(txQueue)>> /\ txQueue # <<>>
        /\ txPc' = "check" /\ UNCHANGED <<reportPending, reported, lpVars>>
    BY <1>3 DEF Receive
  <2>2. /\ Tail(txQueue) \in Seq(QueueItems) /\ Len(Tail(txQueue)) <= TxQueueLength
        /\ Head(txQueue) \in QueueItems
    BY <2>1, TransportAssumption DEF TypeOK
  <2>3. message' \in {<<item>> : item \in QueueItems} /\ message' # <<>>
    BY <2>1, <2>2
  <2> QED
    BY <2>1, <2>2, <2>3
    DEF lpVars, outboxVars, configVars, TypeOK, SubmitNeverRefused, IsTxPossible,
        ReportsOwnResult, InHand, ReportIsOfLast
<1>4. CASE Requeue
  <2>1. /\ message' = <<>> /\ txPc' = "top" /\ txPc = "delay"
        /\ UNCHANGED <<reportPending, reported, lpVars>>
    BY <1>4 DEF Requeue
  <2>2. txQueue' \in Seq(QueueItems) /\ Len(txQueue') <= TxQueueLength
    <3>1. message[1] \in QueueItems BY <2>1, ItemTypes DEF InHand
    <3>2. CASE UNCHANGED txQueue BY <3>2 DEF TypeOK
    <3>3. CASE /\ message[1].retryCount + 1 <= MaxRetryCount
               /\ Len(txQueue) < TxQueueLength
               /\ txQueue' = <<[message[1] EXCEPT !.retryCount = message[1].retryCount + 1]>>
                                \o txQueue
      <4> DEFINE item == [message[1] EXCEPT !.retryCount = message[1].retryCount + 1]
      <4>1. item \in QueueItems BY <3>1, <3>3, TransportAssumption DEF QueueItems
      <4>2. txQueue \in Seq(QueueItems) BY DEF TypeOK
      <4>3. txQueue' = <<item>> \o txQueue BY <3>3
      <4> HIDE DEF item
      <4> QED BY <3>3, <4>1, <4>2, <4>3, TransportAssumption
    <3> QED BY <1>4, <3>2, <3>3 DEF Requeue
  <2> QED
    BY <2>1, <2>2
    DEF lpVars, outboxVars, configVars, TypeOK, SubmitNeverRefused, IsTxPossible,
        ReportsOwnResult, InHand, ReportIsOfLast
<1>5. CASE DispatchFrame
  <2>1. /\ message[1].body \in Frames /\ txPc = "dispatch" /\ IsTxPossible
        /\ message' = <<>> /\ txPc' = "top"
        /\ UNCHANGED <<txQueue, reported, configVars, lpPc>>
    BY <1>5 DEF DispatchFrame, SubmitNeverRefused
  <2>2. pending' = message[1].body /\ outcome' = outcome
    BY <1>5, <2>1 DEF DispatchFrame, Outbox!Submit
  <2>3. reportPending' = IF message[1].body \in Traced THEN message[1].body ELSE NoFrame
    BY <1>5 DEF DispatchFrame
  <2> QED
    BY <2>1, <2>2, <2>3
    DEF configVars, TypeOK, SubmitNeverRefused, ReportsOwnResult, InHand, ReportIsOfLast
<1>6. CASE DispatchConfig \/ ConfigTimeout
  <2>1. /\ message' = <<>> /\ txPc' = "top" /\ txPc = "dispatch"
        /\ message[1].body \in ConfigMessages
        /\ UNCHANGED <<txQueue, reportPending, reported, outboxVars, lpPc, active, busy>>
    BY <1>6 DEF DispatchConfig, ConfigTimeout, Config!Update, lpVars, configVars
  <2>2. latest' \in [ConfigSlots -> Settings]
    BY <1>6, <2>1
    DEF DispatchConfig, ConfigTimeout, Config!Update, lpVars, configVars, TypeOK, ConfigMessages
  <2> QED
    BY <2>1, <2>2
    DEF outboxVars, TypeOK, SubmitNeverRefused, IsTxPossible,
        ReportsOwnResult, InHand, ReportIsOfLast
<1> QED BY <1>1, <1>2, <1>3, <1>4, <1>5, <1>6 DEF TaskStep

LEMMA LpKeeps ==
  ASSUME TransportIInv, LpStep
  PROVE  TransportIInv'
<1> USE DEF TransportIInv, TransportInv
<1>1. CASE LpCheckConfig \/ LpQuietBus \/ LpIncoming \/ LpIncomingEnds \/ LpTransmit
  <2>1. /\ UNCHANGED <<txQueue, taskVars, outboxVars, latest>>
        /\ active' \in {active, latest} /\ busy' \in BOOLEAN
        /\ lpPc' \in {"monitor", "bus", "incoming", "transmit"}
    BY <1>1
    DEF LpCheckConfig, LpQuietBus, LpIncoming, LpIncomingEnds, LpTransmit, configVars,
        Config!Adopt, Config!BeginTransaction, Config!EndTransaction, TypeOK
  <2> QED
    BY <2>1
    DEF taskVars, outboxVars, TypeOK, SubmitNeverRefused, IsTxPossible,
        ReportsOwnResult, InHand, ReportIsOfLast
<1>2. CASE LpEnd
  <2>1. PICK result \in Results(pending) : LpAttempt(result) BY <1>2 DEF LpEnd
  <2>2. /\ UNCHANGED <<txQueue, taskVars, pending, latest, active>>
        /\ busy' = FALSE /\ lpPc' = "finish" /\ pending # NoFrame
        /\ outcome' = [frame |-> pending, result |-> result]
    BY <2>1 DEF LpAttempt, Outbox!Attempt, Config!EndTransaction
  <2> QED
    BY <2>2
    DEF taskVars, TypeOK, SubmitNeverRefused, IsTxPossible,
        ReportsOwnResult, InHand, ReportIsOfLast
<1>3. CASE LpFinish
  <2>1. /\ UNCHANGED <<txQueue, taskVars, configVars, outcome>>
        /\ pending' = NoFrame /\ lpPc' = "monitor" /\ pending # NoFrame
        /\ outcome # NoOutcome /\ outcome.frame = pending
    BY <1>3 DEF LpFinish, Outbox!Finish
  <2> QED
    BY <2>1
    DEF taskVars, configVars, TypeOK, SubmitNeverRefused, IsTxPossible,
        ReportsOwnResult, InHand, ReportIsOfLast
<1> QED BY <1>1, <1>2, <1>3 DEF LpStep

LEMMA NextTransport == TransportIInv /\ [Next]_vars => TransportIInv'
<1> SUFFICES ASSUME TransportIInv, [Next]_vars PROVE TransportIInv' OBVIOUS
<1>1. CASE UNCHANGED vars
  BY <1>1
  DEF vars, taskVars, lpVars, outboxVars, configVars, TransportIInv, TransportInv, TypeOK,
      SubmitNeverRefused, IsTxPossible, ReportsOwnResult, InHand, ReportIsOfLast
<1> QED BY <1>1, SendMessageKeeps, TaskKeeps, LpKeeps DEF Next

(* The task never submits to a full outbox, and reports the result of the  *)
(* frame it reports on.                                                    *)
THEOREM TransportCorrect == Spec => []TransportInv
<1>1. TransportIInv => TransportInv BY DEF TransportIInv
<1> QED BY <1>1, InitTransport, NextTransport, PTL DEF Spec

-----------------------------------------------------------------------------
(* What the abstract queue sees of a sequence of queue items.              *)
BodiesOf(s) == [k \in 1 .. Len(s) |-> s[k].body]

LEMMA BodiesType ==
  ASSUME NEW s \in Seq(QueueItems)
  PROVE  /\ BodiesOf(s) \in Seq(Bodies) /\ Len(BodiesOf(s)) = Len(s)
         /\ \A k \in 1 .. Len(s) : BodiesOf(s)[k] = s[k].body
<1>1. \A k \in 1 .. Len(s) : s[k].body \in Bodies
  <2> TAKE k \in 1 .. Len(s)
  <2>1. s[k] \in QueueItems BY ElementOfSeq
  <2> QED BY <2>1 DEF QueueItems
<1>2. Len(s) \in Nat BY LenProperties
<1>3. BodiesOf(s) \in [1 .. Len(s) -> Bodies] BY <1>1 DEF BodiesOf
<1>4. BodiesOf(s) \in Seq(Bodies) BY <1>2, <1>3, IsASeq
<1>5. Len(BodiesOf(s)) = Len(s) BY <1>2, <1>3, <1>4, LenProperties
<1> QED BY <1>4, <1>5 DEF BodiesOf

LEMMA BodiesOfTail ==
  ASSUME NEW s \in Seq(QueueItems), s # <<>>
  PROVE  BodiesOf(s) # <<>> /\ BodiesOf(Tail(s)) = Tail(BodiesOf(s))
<1>1. Len(s) \in Nat \ {0} BY EmptySeq, LenProperties
<1>2. BodiesOf(s) \in Seq(Bodies) /\ Len(BodiesOf(s)) = Len(s) BY BodiesType
<1>3. BodiesOf(s) # <<>> BY <1>1, <1>2
<1>4. Tail(s) \in Seq(QueueItems) /\ Len(Tail(s)) = Len(s) - 1
      /\ \A k \in 1 .. Len(Tail(s)) : Tail(s)[k] = s[k + 1]
  BY HeadTailProperties
<1>5. Tail(BodiesOf(s)) \in Seq(Bodies) /\ Len(Tail(BodiesOf(s))) = Len(s) - 1
      /\ \A k \in 1 .. Len(Tail(BodiesOf(s))) : Tail(BodiesOf(s))[k] = BodiesOf(s)[k + 1]
  BY <1>2, <1>3, HeadTailProperties
<1>6. BodiesOf(Tail(s)) \in Seq(Bodies) /\ Len(BodiesOf(Tail(s))) = Len(s) - 1
      /\ \A k \in 1 .. Len(s) - 1 : BodiesOf(Tail(s))[k] = Tail(s)[k].body
  BY <1>4, BodiesType
<1>7. \A k \in 1 .. Len(s) - 1 : BodiesOf(Tail(s))[k] = Tail(BodiesOf(s))[k]
  <2> TAKE k \in 1 .. Len(s) - 1
  <2>1. k + 1 \in 1 .. Len(s) BY <1>1
  <2>2. BodiesOf(s)[k + 1] = s[k + 1].body BY <2>1, BodiesType
  <2> QED BY <1>4, <1>5, <1>6, <2>2
<1> QED BY <1>3, <1>5, <1>6, <1>7, SeqEqual

LEMMA BodiesOfConcat ==
  ASSUME NEW s \in Seq(QueueItems), NEW t \in Seq(QueueItems)
  PROVE  BodiesOf(s \o t) = BodiesOf(s) \o BodiesOf(t)
<1>1. Len(s) \in Nat /\ Len(t) \in Nat BY LenProperties
<1>2. s \o t \in Seq(QueueItems) /\ Len(s \o t) = Len(s) + Len(t)
      /\ \A k \in 1 .. Len(s) + Len(t) :
           (s \o t)[k] = IF k <= Len(s) THEN s[k] ELSE t[k - Len(s)]
  BY ConcatProperties
<1>3. /\ BodiesOf(s) \in Seq(Bodies) /\ Len(BodiesOf(s)) = Len(s)
      /\ BodiesOf(t) \in Seq(Bodies) /\ Len(BodiesOf(t)) = Len(t)
      /\ BodiesOf(s \o t) \in Seq(Bodies) /\ Len(BodiesOf(s \o t)) = Len(s) + Len(t)
  BY <1>2, BodiesType
<1>4. BodiesOf(s) \o BodiesOf(t) \in Seq(Bodies)
      /\ Len(BodiesOf(s) \o BodiesOf(t)) = Len(s) + Len(t)
      /\ \A k \in 1 .. Len(s) + Len(t) :
           (BodiesOf(s) \o BodiesOf(t))[k] =
             IF k <= Len(s) THEN BodiesOf(s)[k] ELSE BodiesOf(t)[k - Len(s)]
  BY <1>3, ConcatProperties
<1>5. \A k \in 1 .. Len(s) + Len(t) :
        BodiesOf(s \o t)[k] = (BodiesOf(s) \o BodiesOf(t))[k]
  <2> TAKE k \in 1 .. Len(s) + Len(t)
  <2>1. BodiesOf(s \o t)[k] = (s \o t)[k].body BY <1>2, BodiesType
  <2>2. CASE k <= Len(s)
    <3>1. k \in 1 .. Len(s) BY <1>1, <2>2
    <3>2. BodiesOf(s)[k] = s[k].body BY <3>1, BodiesType
    <3> QED BY <1>2, <1>4, <2>1, <2>2, <3>2
  <2>3. CASE ~(k <= Len(s))
    <3>1. k - Len(s) \in 1 .. Len(t) BY <1>1, <2>3
    <3>2. BodiesOf(t)[k - Len(s)] = t[k - Len(s)].body BY <3>1, BodiesType
    <3> QED BY <1>2, <1>4, <2>1, <2>3, <3>2
  <2> QED BY <2>2, <2>3
<1> QED BY <1>3, <1>4, <1>5, SeqEqual

LEMMA BodiesOfOne ==
  ASSUME NEW i \in QueueItems
  PROVE  <<i>> \in Seq(QueueItems) /\ BodiesOf(<<i>>) = <<i.body>> /\ i.body \in Bodies
<1>1. <<i>> \in Seq(QueueItems) /\ Len(<<i>>) = 1 /\ <<i>>[1] = i
  <2> HIDE DEF QueueItems
  <2> QED OBVIOUS
<1>2. i.body \in Bodies BY DEF QueueItems
<1>3. BodiesOf(<<i>>) \in Seq(Bodies) /\ Len(BodiesOf(<<i>>)) = 1
      /\ BodiesOf(<<i>>)[1] = i.body
  <2> DEFINE one == <<i>>
  <2>1. one \in Seq(QueueItems) /\ Len(one) = 1 /\ one[1] = i BY <1>1
  <2> HIDE DEF one
  <2>2. BodiesOf(one) \in Seq(Bodies) /\ Len(BodiesOf(one)) = Len(one)
        /\ \A k \in 1 .. Len(one) : BodiesOf(one)[k] = one[k].body
    BY <2>1, BodiesType
  <2>3. BodiesOf(one) \in Seq(Bodies) /\ Len(BodiesOf(one)) = 1
        /\ BodiesOf(one)[1] = i.body
    BY <2>1, <2>2
  <2> QED BY <2>3 DEF one
<1>4. <<i.body>> \in Seq(Bodies) /\ Len(<<i.body>>) = 1 /\ <<i.body>>[1] = i.body
  BY <1>2
<1>5. BodiesOf(<<i>>) = <<i.body>> BY <1>3, <1>4, SeqEqual
<1> QED BY <1>1, <1>2, <1>5

(* The abstract queue is the message in hand followed by the queue.        *)
LEMMA ContentIs ==
  ASSUME TypeOK
  PROVE  /\ message \in Seq(QueueItems) /\ txQueue \in Seq(QueueItems)
         /\ Content = BodiesOf(message) \o BodiesOf(txQueue)
         /\ Content \in Seq(Bodies) /\ Len(Content) = Len(message) + Len(txQueue)
         /\ Len(message) \in {0, 1} /\ Len(txQueue) \in Nat
<1>1. message \in Seq(QueueItems) /\ Len(message) \in {0, 1}
  <2>1. CASE message = <<>> BY <2>1
  <2>2. ASSUME NEW i \in QueueItems, message = <<i>>
        PROVE  message \in Seq(QueueItems) /\ Len(message) = 1
    BY <2>2, BodiesOfOne
  <2> QED BY <2>1, <2>2 DEF TypeOK
<1>2. txQueue \in Seq(QueueItems) /\ Len(txQueue) \in Nat BY LenProperties DEF TypeOK
<1>3. message \o txQueue \in Seq(QueueItems)
      /\ Len(message \o txQueue) = Len(message) + Len(txQueue)
  BY <1>1, <1>2, ConcatProperties
<1>4. Content = BodiesOf(message \o txQueue) BY DEF Content, BodiesOf
<1> QED BY <1>1, <1>2, <1>3, <1>4, BodiesOfConcat, BodiesType

LEMMA SendRefines ==
  ASSUME TypeOK, TypeOK', NEW m \in Bodies, NEW highPriority \in BOOLEAN,
         SendMessage(m, highPriority)
  PROVE  Queue!Next
<1> DEFINE item == [body |-> m, retryCount |-> 0]
           Q == BodiesOf(txQueue)
<1>1. item \in QueueItems BY TransportAssumption DEF QueueItems
<1>2. item.body = m OBVIOUS
<1>3. /\ message' = message /\ Len(txQueue) < TxQueueLength
      /\ txQueue' = <<item>> \o txQueue \/ txQueue' = Append(txQueue, item)
  BY DEF SendMessage, taskVars
<1> HIDE DEF item
<1>4. /\ BodiesOf(<<item>>) = <<m>> /\ <<item>> \in Seq(QueueItems) BY <1>1, <1>2, BodiesOfOne
<1>5. /\ txQueue \in Seq(QueueItems) /\ Q \in Seq(Bodies)
      /\ message \in Seq(QueueItems) /\ Content = BodiesOf(message) \o Q
      /\ Len(Content) < TxQueueLength + 1 /\ Content \in Seq(Bodies)
  <2>1. /\ txQueue \in Seq(QueueItems) /\ message \in Seq(QueueItems)
        /\ Content = BodiesOf(message) \o Q /\ Content \in Seq(Bodies)
        /\ Len(Content) = Len(message) + Len(txQueue)
        /\ Len(message) \in {0, 1} /\ Len(txQueue) \in Nat
    BY ContentIs
  <2>2. Q \in Seq(Bodies) BY <2>1, BodiesType
  <2>3. TxQueueLength \in Nat BY TransportAssumption
  <2>4. Len(Content) < TxQueueLength + 1
    <3> DEFINE l == Len(txQueue)
               h == Len(message)
    <3>1. Len(Content) = h + l /\ h \in {0, 1} /\ l \in Nat /\ l < TxQueueLength
      BY <1>3, <2>1
    <3> HIDE DEF l, h
    <3> QED BY <2>3, <3>1
  <2> QED BY <2>1, <2>2, <2>4
<1>6. Content' = BodiesOf(message) \o BodiesOf(txQueue')
  <2>1. Content' = BodiesOf(message') \o BodiesOf(txQueue')
    <3>1. message' \o txQueue' \in Seq(QueueItems) /\ message' \in Seq(QueueItems)
          /\ txQueue' \in Seq(QueueItems)
      BY <1>3, <1>5, ConcatProperties DEF TypeOK
    <3>2. Content' = BodiesOf(message' \o txQueue') BY DEF Content, BodiesOf
    <3> QED BY <3>1, <3>2, BodiesOfConcat
  <2> QED BY <1>3, <2>1
<1>7. CASE txQueue' = Append(txQueue, item)
  <2>1. txQueue' = txQueue \o <<item>> BY <1>1, <1>5, <1>7, AppendIsConcat
  <2>2. Content' = BodiesOf(message) \o (Q \o <<m>>)
    BY <1>4, <1>5, <1>6, <2>1, BodiesOfConcat
  <2>3. BodiesOf(message) \in Seq(Bodies) /\ <<m>> \in Seq(Bodies)
    BY <1>5, BodiesType
  <2>4. Content' = Content \o <<m>> BY <1>5, <2>2, <2>3, ConcatAssociative
  <2>5. Content' = Append(Content, m) BY <1>5, <2>4, AppendIsConcat
  <2> QED BY <1>5, <2>5 DEF Queue!Next, Queue!PushBack
<1>8. CASE txQueue' = <<item>> \o txQueue
  <2>1. Content' = BodiesOf(message) \o (<<m>> \o Q)
    BY <1>4, <1>5, <1>6, <1>8, BodiesOfConcat
  <2>2. \/ Content' = <<m>> \o Content
        \/ Content # <<>> /\ Content' = <<Head(Content), m>> \o Tail(Content)
    <3>1. CASE message = <<>>
      <4>1. BodiesOf(message) = <<>> BY <3>1 DEF BodiesOf
      <4>2. Content = Q BY <1>5, <4>1, ConcatEmptySeq
      <4>3. Content' = <<m>> \o Q BY <1>5, <2>1, <4>1, ConcatEmptySeq, ConcatProperties
      <4> QED BY <4>2, <4>3
    <3>2. ASSUME NEW i \in QueueItems, message = <<i>>
          PROVE  Content # <<>> /\ Content' = <<Head(Content), m>> \o Tail(Content)
      <4>1. BodiesOf(message) = <<i.body>> /\ i.body \in Bodies BY <3>2, BodiesOfOne
      <4>2. Content = <<i.body>> \o Q BY <1>5, <4>1
      <4>3. Content # <<>> /\ Head(Content) = i.body /\ Tail(Content) = Q
        BY <1>5, <4>1, <4>2
      <4>4. Content' = <<i.body>> \o (<<m>> \o Q) BY <2>1, <4>1
      <4>5. Content' = (<<i.body>> \o <<m>>) \o Q
        <5>1. <<i.body>> \in Seq(Bodies) /\ <<m>> \in Seq(Bodies) BY <4>1
        <5> QED BY <1>5, <4>4, <5>1, ConcatAssociative
      <4>6. <<i.body>> \o <<m>> = <<i.body, m>>
        <5> DEFINE b == i.body
        <5>1. b \in Bodies BY <4>1
        <5> HIDE DEF b
        <5>2. <<b>> \in Seq(Bodies) /\ <<m>> \in Seq(Bodies) /\ <<b, m>> \in Seq(Bodies)
              /\ Len(<<b>>) = 1 /\ Len(<<m>>) = 1 /\ Len(<<b, m>>) = 2
          BY <5>1
        <5>3. \A j \in 1 .. 2 : (<<b>> \o <<m>>)[j] = <<b, m>>[j] BY <5>2
        <5>4. <<b>> \o <<m>> = <<b, m>>
          <6> DEFINE both == <<b>> \o <<m>>
                     pair == <<b, m>>
          <6>1. both \in Seq(Bodies) /\ Len(both) = 2 BY <5>2, ConcatProperties
          <6>2. pair \in Seq(Bodies) /\ Len(pair) = 2 BY <5>2
          <6>3. \A j \in 1 .. 2 : both[j] = pair[j] BY <5>3
          <6> HIDE DEF both, pair
          <6>4. both = pair BY <6>1, <6>2, <6>3, SeqEqual
          <6> QED BY <6>4 DEF both, pair
        <5> QED BY <5>4 DEF b
      <4> QED BY <4>3, <4>5, <4>6
    <3> QED BY <3>1, <3>2 DEF TypeOK
  <2> QED BY <1>5, <2>2 DEF Queue!Next, Queue!PushFront
<1> QED BY <1>3, <1>7, <1>8

(* A message in hand is given up: it leaves the abstract queue.            *)
LEMMA GivingUpRefines ==
  ASSUME TypeOK, TypeOK', message # <<>>, message' = <<>>, txQueue' = txQueue
  PROVE  Queue!PopHead
<1>1. PICK i \in QueueItems : message = <<i>> BY DEF TypeOK
<1>2. BodiesOf(message) = <<i.body>> /\ i.body \in Bodies BY <1>1, BodiesOfOne
<1>3. Content = <<i.body>> \o BodiesOf(txQueue) /\ BodiesOf(txQueue) \in Seq(Bodies)
  BY <1>2, ContentIs, BodiesType
<1>4. Content # <<>> /\ Tail(Content) = BodiesOf(txQueue)
  BY <1>2, <1>3
<1>5. Content' = BodiesOf(txQueue)
  <2>1. message' \o txQueue' = txQueue BY ContentIs, ConcatEmptySeq
  <2> QED BY <2>1 DEF Content, BodiesOf
<1> QED BY <1>4, <1>5 DEF Queue!PopHead

LEMMA TaskRefines ==
  ASSUME TransportIInv, TypeOK', TaskStep
  PROVE  Queue!PopHead \/ UNCHANGED Content
<1>0. TypeOK BY DEF TransportIInv, TransportInv
<1>1. CASE LoopTop \/ ReportBeforeSubmit \/ ReceiveTimeout \/ CheckBus
  <2>1. UNCHANGED <<txQueue, message>>
    BY <1>1 DEF LoopTop, ReportBeforeSubmit, ReceiveTimeout, CheckBus
  <2> QED BY <2>1 DEF Content
<1>2. CASE Receive
  <2>1. message = <<>> BY <1>2 DEF Receive, TransportIInv, InHand
  <2>2. message' = <<Head(txQueue)>> /\ txQueue' = Tail(txQueue) /\ txQueue # <<>>
    BY <1>2 DEF Receive
  <2>3. txQueue \in Seq(QueueItems) BY <1>0, ContentIs
  <2>4. message \o txQueue = txQueue BY <2>1, <2>3, ConcatEmptySeq
  <2>5. <<Head(txQueue)>> \o Tail(txQueue) = txQueue
    <3> HIDE DEF QueueItems
    <3>1. Head(txQueue) \in QueueItems /\ Tail(txQueue) \in Seq(QueueItems)
          /\ Len(Tail(txQueue)) = Len(txQueue) - 1 /\ Len(txQueue) \in Nat
          /\ \A k \in 1 .. Len(Tail(txQueue)) : Tail(txQueue)[k] = txQueue[k + 1]
      BY <2>2, <2>3, HeadTailProperties, LenProperties
    <3>2. <<Head(txQueue)>> \in Seq(QueueItems) /\ Len(<<Head(txQueue)>>) = 1
          /\ <<Head(txQueue)>>[1] = txQueue[1]
      BY <2>2, <2>3, <3>1
    <3> DEFINE whole == <<Head(txQueue)>> \o Tail(txQueue)
    <3>3. whole \in Seq(QueueItems) /\ Len(whole) = Len(txQueue)
          /\ \A k \in 1 .. Len(txQueue) :
               whole[k] = IF k <= 1 THEN <<Head(txQueue)>>[k] ELSE Tail(txQueue)[k - 1]
      BY <3>1, <3>2, ConcatProperties
    <3>4. \A k \in 1 .. Len(txQueue) : whole[k] = txQueue[k]
      BY <3>1, <3>2, <3>3
    <3> HIDE DEF whole
    <3>5. whole = txQueue BY <2>3, <3>3, <3>4, SeqEqual
    <3> QED BY <3>5 DEF whole
  <2> QED BY <2>2, <2>4, <2>5 DEF Content
<1>3. CASE Requeue
  <2>1. message # <<>> /\ message' = <<>> BY <1>3 DEF Requeue, TransportIInv, InHand
  <2>2. CASE UNCHANGED txQueue BY <1>0, <2>1, <2>2, GivingUpRefines
  <2>3. CASE txQueue' = <<[message[1] EXCEPT !.retryCount = message[1].retryCount + 1]>>
                           \o txQueue
    <3> DEFINE item == [message[1] EXCEPT !.retryCount = message[1].retryCount + 1]
    <3>1. message = <<message[1]>> /\ message[1] \in QueueItems BY <1>0, <2>1, ItemTypes
    <3>2. item.body = message[1].body BY <3>1 DEF QueueItems
    <3>3. txQueue' = <<item>> \o txQueue /\ txQueue' \in Seq(QueueItems)
      BY <2>3 DEF TypeOK
    <3> HIDE DEF item
    <3>4. message' \o txQueue' = <<item>> \o txQueue
      BY <2>1, <3>3, ConcatEmptySeq
    <3>5. message \o txQueue = <<message[1]>> \o txQueue BY <3>1
    <3>6. txQueue \in Seq(QueueItems) /\ Len(txQueue) \in Nat BY <1>0, ContentIs
    <3>7. Content = [k \in 1 .. Len(<<message[1]>> \o txQueue) |->
                       (<<message[1]>> \o txQueue)[k].body]
      BY <3>5 DEF Content
    <3>8. Content' = [k \in 1 .. Len(<<item>> \o txQueue) |->
                        (<<item>> \o txQueue)[k].body]
      BY <3>4 DEF Content
    <3>9. /\ Len(<<message[1]>> \o txQueue) = Len(txQueue) + 1
          /\ Len(<<item>> \o txQueue) = Len(txQueue) + 1
          /\ \A k \in 1 .. Len(txQueue) + 1 :
               (<<item>> \o txQueue)[k].body = (<<message[1]>> \o txQueue)[k].body
      <4> HIDE DEF QueueItems
      <4> QED BY <3>2, <3>6
    <3> QED BY <3>7, <3>8, <3>9
  <2> QED BY <1>3, <2>2, <2>3 DEF Requeue
<1>4. CASE DispatchFrame \/ DispatchConfig \/ ConfigTimeout
  <2>1. message # <<>> /\ message' = <<>> /\ txQueue' = txQueue
    BY <1>4 DEF DispatchFrame, DispatchConfig, ConfigTimeout, TransportIInv, InHand
  <2> QED BY <1>0, <2>1, GivingUpRefines
<1> QED BY <1>1, <1>2, <1>3, <1>4 DEF TaskStep

(* The retries of the head keep the order of the others and duplicate      *)
(* nothing: to its callers the queue only ever loses its head.             *)
THEOREM TransportImplementsLossyQueue == Spec => ImplementsLossyQueue
<1>1. Init => Queue!Init
  <2> SUFFICES ASSUME Init PROVE Content = <<>> BY DEF Queue!Init
  <2>1. message \o txQueue = <<>> BY DEF Init
  <2> QED BY <2>1 DEF Content
<1>2. TransportIInv /\ TransportIInv' /\ [Next]_vars => [Queue!Next]_Content
  <2> SUFFICES ASSUME TransportIInv, TransportIInv', [Next]_vars
               PROVE  [Queue!Next]_Content
    OBVIOUS
  <2>1. TypeOK /\ TypeOK' BY DEF TransportIInv, TransportInv
  <2>2. CASE TaskStep BY <2>1, <2>2, TaskRefines DEF Queue!Next
  <2>3. CASE LpStep \/ UNCHANGED vars
    <3>1. UNCHANGED <<txQueue, message>>
      BY <2>3
      DEF LpStep, LpCheckConfig, LpQuietBus, LpIncoming, LpIncomingEnds, LpTransmit, LpEnd,
          LpAttempt, LpFinish, vars, taskVars
    <3> QED BY <3>1 DEF Content
  <2> QED BY <2>1, <2>2, <2>3, SendRefines DEF Next
<1> QED
  BY <1>1, <1>2, InitTransport, NextTransport, PTL
  DEF Spec, ImplementsLossyQueue, Queue!Spec
=============================================================================
