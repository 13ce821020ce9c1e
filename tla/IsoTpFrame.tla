----------------------------- MODULE IsoTpFrame -----------------------------
(***************************************************************************)
(* IsoTpFrame as the diagnostic session uses it: the reader task passes    *)
(* received frames to Receive and then calls Process, while the web        *)
(* server's task, which preempts it, submits requests with Send, resets    *)
(* both directions with SetIds and opens and closes the session.  A        *)
(* message is a sequence of chunks, one for each frame that carries it.    *)
(* The ECU at the other end and the bus between are external.              *)
(***************************************************************************)
EXTENDS Integers, Sequences

CONSTANTS
  Requests,        (* what the client sends, once each                     *)
  Answer,          (* what the ECU may answer to each of them              *)
  Chunks,          (* the number of frames each message takes              *)
  BlockSizes,      (* the block sizes the ECU may ask for, 0 for no limit  *)
  Statuses,        (* the flow statuses it uses: "CTS", "WT", "OVFLW"      *)
  SeqModulus,      (* sequence numbers wrap at 16 in the code              *)
  LenWrap,         (* a uint16_t length taken below zero, in chunks        *)
  RxCapacity,      (* the chunks the buffer of received messages has room  *)
                   (* for, 18 in the 128 bytes of the code                 *)
  MaxFcWait,       (* MAX_FCWAIT_FRAME, 10 in the code                     *)
  BusCapacity,     (* frames in the driver's queue and on the bus          *)
  MaxSessions,     (* bounds the connections of clients                    *)
  MaxSetIds,       (* bounds the identifier commands                       *)
  Idle             (* an ECU without a transfer                            *)

Answers == UNION {Answer[m] : m \in Requests}
Messages == Requests \cup Answers

(* Every length fits into a uint16_t, and an answer tells which request it *)
(* answers.                                                                *)
ASSUME IsoTpAssumption ==
  /\ Requests \cap Answers = {}
  /\ \A m, n \in Requests : m # n => Answer[m] \cap Answer[n] = {}
  /\ Chunks \in [Messages -> 1 .. LenWrap]
  /\ BlockSizes \subseteq Nat
  /\ Statuses \subseteq {"CTS", "WT", "OVFLW"}
  /\ SeqModulus \in Nat \ {0, 1}
  /\ {RxCapacity, MaxFcWait, BusCapacity} \subseteq Nat \ {0}
  /\ {LenWrap, MaxSessions, MaxSetIds} \subseteq Nat

VARIABLES
  session,         (* DiagConnected and what the client has left to do     *)
  tx,              (* _txMsg, fc_wait_frames and wait_fc                   *)
  rx,              (* _rxMsg, rest and wait_cf                             *)
  reader,          (* where the reader task is, and rxBuffer               *)
  toEcu, fromEcu,  (* frames underway, those of the receive queue included *)
  ecuRx, ecuTx     (* the ECU's transfers in either direction              *)

ecuVars == <<ecuRx, ecuTx>>
vars == <<session, tx, rx, reader, toEcu, fromEcu, ecuVars>>

(* tx: the message in Buffer, how many of its chunks Buffer was advanced   *)
(* past (pos) and how many are left by len.  late says that TIMEOUT_FC has *)
(* passed since wait_fc; fcLost is a history variable.                     *)
TxStates == {"IDLE", "SEND", "WAIT_FIRST_FC", "WAIT_FC", "SEND_CF"}
TxMsg ==
  [state : TxStates, msg : Requests \cup {Idle}, pos : Nat, left : 0 .. LenWrap,
   seq : 0 .. SeqModulus, blocksize : BlockSizes \cup {0},
   fcWaits : 0 .. MaxFcWait - 1, late : BOOLEAN, fcLost : BOOLEAN]

(* rx: the chunks in Buffer, and how many are missing by rest.  late says  *)
(* that TIMEOUT_CF has passed since wait_cf; broken is a history variable: *)
(* the session changed, or a first frame was lost, since the message began.*)
(* So is overrun: rcv_cf wrote behind the end of Buffer, on the heap, now  *)
(* or ever before.                                                         *)
RxStates == {"IDLE", "WAIT_DATA", "FINISHED"}
Chunk == {<<m, i>> : m \in Messages, i \in 1 .. LenWrap + 1}
Foreign == <<Idle, 0>>
RxMsg ==
  [state : RxStates, seq : Nat, rest : Nat, buffer : Seq(Chunk \cup {Foreign}),
   late : BOOLEAN, broken : BOOLEAN, overrun : BOOLEAN]

NoFrame       == [type |-> "none"]
Sf(m)         == [type |-> "SF", chunk |-> <<m, 1>>]
Ff(m, count)  == [type |-> "FF", chunk |-> <<m, 1>>, count |-> count]
Cf(m, i, seq) == [type |-> "CF", chunk |-> <<m, i>>, seq |-> seq]
Fc(s, bs)     == [type |-> "FC", status |-> s, bs |-> bs]

(* m, all of it and in order.                                              *)
Whole(m) == [i \in 1 .. Chunks[m] |-> <<m, i>>]
WholeMessages(S) == {Whole(m) : m \in S}

(* SendMessage: the driver takes the frame, or refuses it because its      *)
(* queue is full or the controller is off the bus.                         *)
Transmit(f, accepted) ==
  IF accepted THEN /\ Len(toEcu) < BusCapacity
                   /\ toEcu' = Append(toEcu, f)
              ELSE UNCHANGED toEcu

At(place) == [pc |-> place, frame |-> NoFrame]
Holding(place, f) == [pc |-> place, frame |-> f]

-----------------------------------------------------------------------------
(* The web server's task.                                                  *)

OnClientConnected ==
  /\ ~session.connected
  /\ session.openings > 0
  /\ session' = [session EXCEPT !.connected = TRUE, !.openings = @ - 1]
  /\ UNCHANGED <<tx, rx, reader, toEcu, fromEcu, ecuVars>>

OnClientDisconnected ==
  /\ session.connected
  /\ session' = [session EXCEPT !.connected = FALSE]
  /\ rx' = [rx EXCEPT !.broken = TRUE]
  /\ UNCHANGED <<tx, reader, toEcu, fromEcu, ecuVars>>

(* SendFrames: a request that Send refuses is forgotten.                   *)
Send(m) ==
  /\ session.connected
  /\ m \in session.unsent
  /\ session' = [session EXCEPT !.unsent = @ \ {m}]
  /\ tx' = IF tx.state = "IDLE"
           THEN [tx EXCEPT !.state = "SEND", !.msg = m, !.pos = 0,
                           !.left = Chunks[m], !.fcLost = FALSE]
           ELSE tx
  /\ UNCHANGED <<rx, reader, toEcu, fromEcu, ecuVars>>

(* ChangeId, here to the identifiers of the same ECU.  raced is a history  *)
(* variable: it came in the middle of Receive or Process.                  *)
SetIds ==
  /\ session.connected
  /\ session.setIds > 0
  /\ session' = [session EXCEPT !.setIds = @ - 1,
                                !.raced = @ \/ reader.pc \notin {"poll", "process"}]
  /\ tx' = [tx EXCEPT !.state = "IDLE"]
  /\ rx' = [rx EXCEPT !.state = "IDLE", !.broken = TRUE]
  /\ UNCHANGED <<reader, toEcu, fromEcu, ecuVars>>

-----------------------------------------------------------------------------
(* The reader task: ProcessDestinationOnce, Receive and Loop.              *)

(* A frame of the ECU during a session.                                    *)
Take(type) ==
  /\ reader.pc = "poll"
  /\ session.connected
  /\ fromEcu # <<>>
  /\ Head(fromEcu).type = type
  /\ fromEcu' = Tail(fromEcu)

(* Any other frame of the bus: Receive ignores it, Loop runs.              *)
OtherFrame ==
  /\ reader.pc = "poll"
  /\ session.connected
  /\ reader' = At("process")
  /\ UNCHANGED <<session, tx, rx, toEcu, fromEcu, ecuVars>>

(* Without a session the frame goes to the reader of the VIN, an           *)
(* IsoTpFrame of its own, which may allow a first frame to go on.          *)
Divert ==
  /\ reader.pc = "poll"
  /\ ~session.connected
  /\ fromEcu # <<>>
  /\ fromEcu' = Tail(fromEcu)
  /\ tx' = [tx EXCEPT !.fcLost = @ \/ Head(fromEcu).type = "FC"]
  /\ \/ UNCHANGED toEcu
     \/ Head(fromEcu).type = "FF" /\ Transmit(Fc("CTS", 0), TRUE)
  /\ UNCHANGED <<session, rx, reader, ecuVars>>

ReceiveSf ==
  /\ Take("SF")
  /\ rx' = [rx EXCEPT !.buffer = <<Head(fromEcu).chunk>>, !.state = "FINISHED",
                      !.broken = FALSE]
  /\ reader' = At("process")
  /\ UNCHANGED <<session, tx, toEcu, ecuVars>>

(* rcv_ff: the flow control frame goes out, or is refused, with the        *)
(* parameters of the transmitting side set to zero.                        *)
StartReceiving(seq, rest) ==
  /\ Take("FF")
  /\ rx' = [rx EXCEPT !.seq = seq, !.rest = rest, !.buffer = <<Head(fromEcu).chunk>>,
                      !.state = "WAIT_DATA", !.broken = FALSE]
  /\ tx' = [tx EXCEPT !.blocksize = 0]
  /\ \E accepted \in BOOLEAN : Transmit(Fc("CTS", 0), accepted)
  /\ reader' = At("process")
  /\ UNCHANGED <<session, ecuVars>>

(* As if rest, or seq_id, of a message that was broken off stayed.         *)
ReceiveFf_KeepsRest ==
  StartReceiving(1, IF rx.state = "WAIT_DATA" THEN rx.rest ELSE Head(fromEcu).count - 1)
ReceiveFf_KeepsSeq == StartReceiving(rx.seq, Head(fromEcu).count - 1)

ReceiveFf == StartReceiving(1, Head(fromEcu).count - 1)

(* rcv_fc and rcv_cf read a state, decide, and write it: between the two   *)
(* the web server's task may change it.                                    *)
BeginFc ==
  /\ Take("FC")
  /\ reader' = IF tx.state \in {"WAIT_FIRST_FC", "WAIT_FC"}
               THEN Holding("rcv_fc", Head(fromEcu)) ELSE At("process")
  /\ tx' = IF tx.state = "WAIT_FIRST_FC"
           THEN [tx EXCEPT !.blocksize = Head(fromEcu).bs] ELSE tx
  /\ UNCHANGED <<session, rx, toEcu, ecuVars>>

EndFc ==
  /\ reader.pc = "rcv_fc"
  /\ tx' = CASE reader.frame.status = "CTS" -> [tx EXCEPT !.state = "SEND_CF"]
             [] reader.frame.status = "WT" /\ tx.fcWaits + 1 < MaxFcWait ->
                  [tx EXCEPT !.fcWaits = @ + 1]
             [] reader.frame.status = "WT" /\ tx.fcWaits + 1 >= MaxFcWait ->
                  [tx EXCEPT !.fcWaits = 0, !.state = "IDLE"]
             [] OTHER -> [tx EXCEPT !.state = "IDLE"]
  /\ reader' = At("process")
  /\ UNCHANGED <<session, rx, toEcu, fromEcu, ecuVars>>

CfTimedOut == rx.late /\ rx.seq > 1

BeginCf ==
  /\ Take("CF")
  /\ rx' = IF CfTimedOut THEN [rx EXCEPT !.state = "IDLE"]
                         ELSE [rx EXCEPT !.late = FALSE]
  /\ reader' = IF ~CfTimedOut /\ rx.state = "WAIT_DATA"
               THEN Holding("rcv_cf", Head(fromEcu)) ELSE At("process")
  /\ UNCHANGED <<session, tx, toEcu, ecuVars>>

(* Neither rcv_ff nor rcv_cf compares the length that was announced, which *)
(* may be 4095, with that of Buffer.  What is read behind its end later is *)
(* the chunk or what the owner of that memory has put there.               *)
FitsBuffer == rx.seq < RxCapacity
Stored(chunk) == IF FitsBuffer THEN {chunk} ELSE {chunk, Foreign}

EndCf ==
  /\ reader.pc = "rcv_cf"
  /\ IF reader.frame.seq # rx.seq % SeqModulus
     THEN rx' = [rx EXCEPT !.state = "IDLE", !.seq = 1]
     ELSE \E chunk \in Stored(reader.frame.chunk) :
            rx' = [rx EXCEPT !.buffer = Append(@, chunk),
                             !.seq = @ + 1,
                             !.state = IF rx.rest <= 1 THEN "FINISHED" ELSE @,
                             !.rest = IF @ <= 1 THEN @ ELSE @ - 1,
                             !.overrun = @ \/ ~FitsBuffer]
  /\ reader' = At("process")
  /\ UNCHANGED <<session, tx, toEcu, fromEcu, ecuVars>>

-----------------------------------------------------------------------------
(* Process.  What it sends may be refused, and between its steps the web   *)
(* server's task may reset the direction and submit another message.       *)

Begin(state) == reader.pc = "process" /\ tx.state = state

NothingToSend ==
  /\ reader.pc = "process"
  /\ tx.state \in {"IDLE", "WAIT_FC"}
  /\ reader' = At("poll")
  /\ UNCHANGED <<session, tx, rx, toEcu, fromEcu, ecuVars>>

SendSf ==
  /\ Begin("SEND")
  /\ tx.left <= 1
  /\ \E accepted \in BOOLEAN : Transmit(Sf(tx.msg), accepted)
  /\ reader' = At("sent")
  /\ UNCHANGED <<session, tx, rx, fromEcu, ecuVars>>

(* As if the state were left as it is.                                     *)
EndSend_NoReset ==
  /\ reader.pc = "sent"
  /\ reader' = At("poll")
  /\ UNCHANGED <<session, tx, rx, toEcu, fromEcu, ecuVars>>

(* After a single frame and after the last consecutive one, whether the    *)
(* driver took it or not, and when the first flow control did not come.    *)
EndSend ==
  /\ reader.pc = "sent"
  /\ tx' = [tx EXCEPT !.state = "IDLE"]
  /\ reader' = At("poll")
  /\ UNCHANGED <<session, rx, toEcu, fromEcu, ecuVars>>

(* A first frame the driver refuses is sent again by the next Process.     *)
SendFf(accepted) ==
  /\ Begin("SEND")
  /\ tx.left > 1
  /\ tx' = [tx EXCEPT !.seq = 1]
  /\ Transmit(Ff(tx.msg, tx.left), accepted)
  /\ reader' = At(IF accepted THEN "ff_sent" ELSE "poll")
  /\ UNCHANGED <<session, rx, fromEcu, ecuVars>>

(* Buffer and len behind a chunk that was sent: len is a uint16_t that     *)
(* wraps when a shorter message came in meanwhile.                         *)
Advanced == [tx EXCEPT !.pos = @ + 1, !.left = IF @ > 1 THEN @ - 1 ELSE LenWrap]

EndFf ==
  /\ reader.pc = "ff_sent"
  /\ tx' = [Advanced EXCEPT !.state = "WAIT_FIRST_FC", !.fcWaits = 0, !.late = FALSE]
  /\ reader' = At("poll")
  /\ UNCHANGED <<session, rx, toEcu, fromEcu, ecuVars>>

(* As if a first frame without an answer were waited for like a block.     *)
AwaitFirstFc_Forever ==
  /\ Begin("WAIT_FIRST_FC")
  /\ reader' = At("poll")
  /\ UNCHANGED <<session, tx, rx, toEcu, fromEcu, ecuVars>>

AwaitFirstFc ==
  /\ Begin("WAIT_FIRST_FC")
  /\ reader' = At(IF tx.late THEN "sent" ELSE "poll")
  /\ UNCHANGED <<session, tx, rx, toEcu, fromEcu, ecuVars>>

(* The loop over the consecutive frames of a block: it compares the        *)
(* length, delays, sends, and counts what the driver took.                 *)
LoopTop(left) == At(IF left > 1 THEN "cf_delay" ELSE "last_delay")

BeginBlock ==
  /\ Begin("SEND_CF")
  /\ reader' = LoopTop(tx.left)
  /\ UNCHANGED <<session, tx, rx, toEcu, fromEcu, ecuVars>>

NextCf == Cf(tx.msg, tx.pos + 1, tx.seq)

(* As if Buffer were advanced whether the driver takes the frame or not.   *)
SendCf_BufferAhead(accepted) ==
  /\ reader.pc = "cf_delay"
  /\ Transmit(NextCf, accepted)
  /\ reader' = IF accepted THEN At("cf_sent") ELSE LoopTop(tx.left)
  /\ tx' = IF accepted THEN tx ELSE [tx EXCEPT !.pos = (@ + 1) % (2 * LenWrap)]
  /\ UNCHANGED <<session, rx, fromEcu, ecuVars>>

SendCf(accepted) ==
  /\ reader.pc = "cf_delay"
  /\ Transmit(NextCf, accepted)
  /\ reader' = IF accepted THEN At("cf_sent") ELSE LoopTop(tx.left)
  /\ UNCHANGED <<session, tx, rx, fromEcu, ecuVars>>

(* As if the number of the next frame decided where a block ends.          *)
AtBlockBoundary_NextSeq == tx.blocksize > 0 /\ (tx.seq + 1) % tx.blocksize = 0

AtBlockBoundary == tx.blocksize > 0 /\ tx.seq % tx.blocksize = 0

EndCfSent ==
  /\ reader.pc = "cf_sent"
  /\ tx' = [Advanced EXCEPT !.seq = (@ + 1) % SeqModulus,
                            !.state = IF AtBlockBoundary THEN "WAIT_FC" ELSE @]
  /\ reader' = IF AtBlockBoundary THEN At("poll") ELSE LoopTop(tx'.left)
  /\ UNCHANGED <<session, rx, toEcu, fromEcu, ecuVars>>

SendLastCf ==
  /\ reader.pc = "last_delay"
  /\ \E accepted \in BOOLEAN : Transmit(NextCf, accepted)
  /\ reader' = At("sent")
  /\ UNCHANGED <<session, tx, rx, fromEcu, ecuVars>>

-----------------------------------------------------------------------------
(* Time and the bus.                                                       *)

FcTimePasses ==
  /\ tx.state = "WAIT_FIRST_FC"
  /\ ~tx.late
  /\ tx' = [tx EXCEPT !.late = TRUE]
  /\ UNCHANGED <<session, rx, reader, toEcu, fromEcu, ecuVars>>

CfTimePasses ==
  /\ rx.seq > 1
  /\ ~rx.late
  /\ rx' = [rx EXCEPT !.late = TRUE]
  /\ UNCHANGED <<session, tx, reader, toEcu, fromEcu, ecuVars>>

(* The receive queue of the driver overflows.                              *)
Lose ==
  /\ fromEcu # <<>>
  /\ fromEcu' = Tail(fromEcu)
  /\ tx' = [tx EXCEPT !.fcLost = @ \/ Head(fromEcu).type = "FC"]
  /\ rx' = [rx EXCEPT !.broken = @ \/ Head(fromEcu).type = "FF"]
  /\ UNCHANGED <<session, reader, toEcu, ecuVars>>

-----------------------------------------------------------------------------
(* The ECU, which keeps to the protocol.                                   *)

Receiving == ecuRx # Idle /\ Len(ecuRx.got) < ecuRx.count
Received == ecuRx # Idle /\ Len(ecuRx.got) = ecuRx.count

EcuStarts(f, count, bs, owes) ==
  /\ ecuRx' = [count |-> count, got |-> <<f.chunk>>, bs |-> bs, owes |-> owes]
  /\ ecuTx' = Idle

(* It drops a message out of sequence, and owes a flow control frame after *)
(* each block.                                                             *)
EcuTakesCf(f) ==
  LET got == Append(ecuRx.got, f.chunk)
      blockEnds == /\ ecuRx.bs > 0
                   /\ Len(got) < ecuRx.count
                   /\ (Len(got) - 1) % ecuRx.bs = 0
  IN ecuRx' = IF f.seq = Len(ecuRx.got) % SeqModulus
              THEN [ecuRx EXCEPT !.got = got, !.owes = blockEnds]
              ELSE Idle

EcuReceives ==
  /\ toEcu # <<>>
  /\ toEcu' = Tail(toEcu)
  /\ LET f == Head(toEcu) IN
     \/ f.type = "SF" /\ EcuStarts(f, 1, 0, FALSE)
     \/ f.type = "FF" /\ \E bs \in BlockSizes : EcuStarts(f, f.count, bs, TRUE)
     \/ f.type = "CF" /\ Receiving /\ EcuTakesCf(f) /\ UNCHANGED ecuTx
     \/ f.type = "CF" /\ ~Receiving /\ UNCHANGED ecuVars
     \/ f.type = "FC" /\ ecuTx # Idle /\ ecuTx' = [ecuTx EXCEPT !.allowed = TRUE]
                      /\ UNCHANGED ecuRx
     \/ f.type = "FC" /\ ecuTx = Idle /\ UNCHANGED ecuVars
  /\ UNCHANGED <<session, tx, rx, reader, fromEcu>>

EcuSends(f) ==
  /\ Len(fromEcu) < BusCapacity
  /\ fromEcu' = Append(fromEcu, f)
  /\ UNCHANGED <<session, tx, rx, reader, toEcu>>

EcuControlsFlow ==
  /\ Receiving
  /\ ecuRx.owes
  /\ \E status \in Statuses :
       /\ EcuSends(Fc(status, ecuRx.bs))
       /\ ecuRx' = CASE status = "CTS" -> [ecuRx EXCEPT !.owes = FALSE]
                     [] status = "WT" -> ecuRx
                     [] OTHER -> Idle
  /\ UNCHANGED ecuTx

EcuAnswers ==
  /\ Received
  /\ ecuRx' = Idle
  /\ \E a \in Answer[ecuRx.got[1][1]] :
     IF Chunks[a] = 1
     THEN EcuSends(Sf(a)) /\ ecuTx' = Idle
     ELSE EcuSends(Ff(a, Chunks[a])) /\ ecuTx' = [msg |-> a, sent |-> 1, allowed |-> FALSE]

EcuSendsCf ==
  /\ ecuTx # Idle
  /\ ecuTx.allowed
  /\ EcuSends(Cf(ecuTx.msg, ecuTx.sent + 1, ecuTx.sent % SeqModulus))
  /\ ecuTx' = IF ecuTx.sent + 1 = Chunks[ecuTx.msg] THEN Idle
              ELSE [ecuTx EXCEPT !.sent = @ + 1]
  /\ UNCHANGED ecuRx

(* It gives up a transfer when no frame that would continue it is          *)
(* underway any more.                                                      *)
EcuGivesUp ==
  /\ toEcu = <<>>
  /\ \/ Receiving /\ ecuRx' = Idle /\ UNCHANGED ecuTx
     \/ /\ ecuTx # Idle
        /\ ~ecuTx.allowed
        /\ \A i \in DOMAIN fromEcu : fromEcu[i].type # "FF"
        /\ ecuTx' = Idle
        /\ UNCHANGED ecuRx
  /\ UNCHANGED <<session, tx, rx, reader, toEcu, fromEcu>>

-----------------------------------------------------------------------------

Init ==
  /\ session = [connected |-> FALSE, unsent |-> Requests, openings |-> MaxSessions,
                setIds |-> MaxSetIds, raced |-> FALSE]
  /\ tx = [state |-> "IDLE", msg |-> Idle, pos |-> 0, left |-> 0, seq |-> 1,
           blocksize |-> 0, fcWaits |-> 0, late |-> FALSE, fcLost |-> FALSE]
  /\ rx = [state |-> "IDLE", seq |-> 1, rest |-> 0, buffer |-> <<>>,
           late |-> TRUE, broken |-> FALSE, overrun |-> FALSE]
  /\ reader = At("poll")
  /\ toEcu = <<>> /\ fromEcu = <<>>
  /\ ecuRx = Idle /\ ecuTx = Idle

Client ==
  \/ OnClientConnected
  \/ OnClientDisconnected
  \/ \E m \in Requests : Send(m)
  \/ SetIds

Reader ==
  \/ Divert
  \/ ReceiveSf
  \/ ReceiveFf
  \/ BeginFc
  \/ EndFc
  \/ BeginCf
  \/ EndCf
  \/ NothingToSend
  \/ SendSf
  \/ EndSend
  \/ \E accepted \in BOOLEAN : SendFf(accepted)
  \/ EndFf
  \/ AwaitFirstFc
  \/ BeginBlock
  \/ \E accepted \in BOOLEAN : SendCf(accepted)
  \/ EndCfSent
  \/ SendLastCf

Environment ==
  \/ OtherFrame
  \/ FcTimePasses
  \/ CfTimePasses
  \/ Lose
  \/ EcuReceives
  \/ EcuControlsFlow
  \/ EcuAnswers
  \/ EcuSendsCf
  \/ EcuGivesUp

Next ==
  \/ Client
  \/ Reader
  \/ Environment

Spec == Init /\ [][Next]_vars

(* The reader task keeps running while frames of any kind keep coming, and *)
(* the driver does not refuse for ever.                                    *)
FairSpec ==
  /\ Spec
  /\ WF_vars(Reader)
  /\ WF_vars(OtherFrame)
  /\ WF_vars(EcuReceives)
  /\ WF_vars(FcTimePasses)
  /\ SF_vars(SendFf(TRUE))
  /\ SF_vars(SendCf(TRUE))

-----------------------------------------------------------------------------
(* Properties.  Where rcv_cf has written behind its buffer, the memory it  *)
(* hit may be any, the other direction's buffer included: the properties   *)
(* speak of the time before, and IsoTpInv of when that happens.            *)

(* What the variables hold, that rcv_cf writes each chunk right behind     *)
(* those it has (Buffer + 6 + 7*(seq_id-1)), and that it writes behind the *)
(* end of the buffer only if the ECU has an answer that is too long for it *)
(* (the code does not check, and transfers are broken off and mixed).      *)
IsoTpInv ==
  /\ tx \in TxMsg
  /\ rx \in RxMsg
  /\ rx.state = "WAIT_DATA" => Len(rx.buffer) = rx.seq /\ rx.rest > 0
  /\ reader.pc = "rcv_cf" => Len(rx.buffer) = rx.seq
  /\ rx.overrun => \E a \in Answers : Chunks[a] > RxCapacity
  /\ Len(toEcu) <= BusCapacity /\ Len(fromEcu) <= BusCapacity

(* Receive hands over whole messages of the ECU only, whatever frames are  *)
(* lost and however transfers are broken off, unless the session was       *)
(* changed or the first frame of a later message was lost while the        *)
(* message came in, or a message was too long for the buffer.              *)
RxWhole ==
  rx.state = "FINISHED" /\ ~rx.broken /\ ~rx.overrun
    => rx.buffer \in WholeMessages(Answers)

(* Whatever the driver refuses, what the ECU assembles is a whole request, *)
(* unless the identifiers were set in the middle of Process.               *)
EcuWhole ==
  Received /\ ~session.raced /\ ~rx.overrun
    => ecuRx.got \in WholeMessages(Requests)

(* An answer is complete only after the transmitting side is idle again:   *)
(* Receive, which hands messages over only then, does not swallow it,      *)
(* unless the client went on to another request.                           *)
AnswerIsHandedOver ==
  \A m \in Requests :
    rx.state = "FINISHED" /\ rx.buffer \in WholeMessages(Answer[m]) /\ tx.msg = m
      /\ ~session.raced /\ ~rx.overrun
      => tx.state = "IDLE"

(* With a block size that divides the modulus of the sequence numbers,     *)
(* IsoTpFrame and the ECU count the same blocks: it stops for a flow       *)
(* control frame only where the ECU sends one.                             *)
FcOnItsWay ==
  \/ ecuRx.owes
  \/ \E i \in DOMAIN fromEcu : fromEcu[i].type = "FC"
  \/ toEcu # <<>>
  \/ reader.pc = "rcv_fc"

BlocksAgree ==
  /\ tx.state = "WAIT_FC"
  /\ ~session.raced /\ ~tx.fcLost /\ ~rx.overrun
  /\ Receiving
  /\ ecuRx.bs > 0 => SeqModulus % ecuRx.bs = 0
  => FcOnItsWay

(* A transfer comes to an end, or waits for the flow control of a block,   *)
(* as long as the session is open.                                         *)
TransferEnds ==
  tx.state \in {"SEND", "WAIT_FIRST_FC", "SEND_CF"}
    ~> tx.state \in {"IDLE", "WAIT_FC"} \/ ~session.connected \/ rx.overrun

(* IsoTpFrame.hpp:39 names TIMEOUT_FC the "Timeout between FF and FC or    *)
(* Block CF and FC".                                                       *)
BlockFcTimesOut ==
  tx.state = "WAIT_FC" ~> tx.state # "WAIT_FC" \/ ~session.connected

=============================================================================
