-------------------------- MODULE IsoTpFrameProofs --------------------------
(***************************************************************************)
(* The two directions of the diagnostic session, for all messages,         *)
(* lengths, block sizes and capacities, whatever frames are lost or        *)
(* refused and however sessions and transfers are broken off, up to the    *)
(* first write of rcv_cf behind its buffer:                                *)
(*                                                                         *)
(*   - the types, the place of every chunk in rcv_cf's buffer, and that    *)
(*     only an answer longer than the buffer has room for makes it write   *)
(*     behind: what a reception has and what it still waits for add up to  *)
(*     the length that was announced (OverrunInv);                         *)
(*   - RxWhole: what Receive hands over is a whole message of the ECU.     *)
(*     Every frame underway continues the one before it (Chained), so the  *)
(*     chunks that arrive in one buffer grow in number, and a hole shows   *)
(*     in the last of them: its number exceeds the length of the buffer    *)
(*     (Assembled).  A complete message has no room for a hole;            *)
(*   - EcuWhole: what the ECU assembles is a whole request.  The last      *)
(*     frame underway is the last one the driver accepted;                 *)
(*   - AnswerIsHandedOver: a request leaves the bridge completely only     *)
(*     when its transfer is over (Done), and the ECU answers nothing else; *)
(*   - BlocksAgree, for an ECU that keeps to one block size.               *)
(***************************************************************************)
EXTENDS IsoTpFrame, SequenceTheorems, TLAPS

(* Where the reader task can be, and what can be on the bus.               *)
Places ==
  {"poll", "rcv_fc", "rcv_cf", "process", "sent", "ff_sent", "cf_delay", "cf_sent",
   "last_delay"}

BridgeFrames ==
       [type : {"SF"}, chunk : Requests \X Nat]
  \cup [type : {"FF"}, chunk : Requests \X Nat, count : 2 .. LenWrap]
  \cup [type : {"CF"}, chunk : Requests \X Nat, seq : Nat]
  \cup [type : {"FC"}, status : {"CTS"}, bs : {0}]

EcuFrames ==
       [type : {"SF"}, chunk : Answers \X (1 .. LenWrap)]
  \cup [type : {"FF"}, chunk : Answers \X (1 .. LenWrap), count : 2 .. LenWrap]
  \cup [type : {"CF"}, chunk : Answers \X (1 .. LenWrap), seq : Nat]
  \cup [type : {"FC"}, status : Statuses, bs : BlockSizes \cup {0}]

Reception ==
  [count : Nat, got : Seq(Requests \X Nat), bs : BlockSizes \cup {0}, owes : BOOLEAN]
Transmission == [msg : Answers, sent : Nat, allowed : BOOLEAN]

Data(f) == f.type # "FC"

(* What a frame says of its message is so.                                 *)
Fits(f) ==
  /\ f.type = "SF" => f.chunk[2] = 1 /\ Chunks[f.chunk[1]] = 1
  /\ f.type = "FF" => f.chunk[2] = 1 /\ f.count = Chunks[f.chunk[1]] /\ f.count > 1
  /\ f.type = "CF" => /\ f.chunk[2] \in 2 .. Chunks[f.chunk[1]]
                      /\ f.seq = (f.chunk[2] - 1) % SeqModulus

(* g carries the chunk behind that of f; the first and the last frame of   *)
(* a queue that carry data; every consecutive frame continues what goes    *)
(* before it.                                                              *)
Follows(f, g) ==
  f.type \in {"FF", "CF"} /\ g.chunk = <<f.chunk[1], f.chunk[2] + 1>>

NoData(q) == \A i \in 1 .. Len(q) : ~Data(q[i])
First(q, i) == Data(q[i]) /\ \A k \in 1 .. i - 1 : ~Data(q[k])
Last(q, i) == Data(q[i]) /\ \A k \in i + 1 .. Len(q) : ~Data(q[k])
Chained(q) ==
  \A i, j \in 1 .. Len(q) :
    /\ i < j /\ Data(q[i]) /\ q[j].type = "CF"
    /\ \A k \in i + 1 .. j - 1 : ~Data(q[k])
    => Follows(q[i], q[j])

(* Receive, at the end of the queue.  Nothing is claimed of a message that *)
(* is spoilt.  A chunk in rcv_cf's hands counts as arrived.                *)
Content == Chunk \cup {Foreign}
Spoilt == rx.broken \/ rx.overrun
Arriving == rx.state = "WAIT_DATA" /\ ~Spoilt
Arrived == rx.buffer[Len(rx.buffer)]
InHand == IF reader.pc = "rcv_cf" THEN reader.frame.chunk ELSE Arrived

(* What the buffer holds is a beginning of m, or a hole shows at its end.  *)
Assembled(b, m) ==
  \/ \A i \in 1 .. Len(b) : b[i] = <<m, i>>
  \/ b[Len(b)][2] > Len(b)

AssembledInv ==
  Arriving =>
    LET a == rx.buffer[1][1] IN
      /\ session.connected /\ rx.buffer # <<>>
      /\ a \in Answers /\ Chunks[a] = Len(rx.buffer) + rx.rest
      /\ Arrived[1] = a /\ Arrived[2] <= Chunks[a]
      /\ Assembled(rx.buffer, a)

(* What rcv_cf is about to append continues the message, possibly with a   *)
(* hole in between.                                                        *)
InHandInv ==
  reader.pc = "rcv_cf" /\ ~Spoilt =>
    /\ Arriving
    /\ Fits(reader.frame)
    /\ reader.frame.chunk[1] = rx.buffer[1][1]
    /\ reader.frame.chunk[2] > Arrived[2]

(* What comes next, from the queue or else from the ECU, is later in the   *)
(* same message.                                                           *)
UnderwayInv ==
  /\ Chained(fromEcu)
  /\ \A i \in 1 .. Len(fromEcu) : Fits(fromEcu[i])

NextIsLater ==
  Arriving =>
    \A i \in 1 .. Len(fromEcu) :
      First(fromEcu, i) /\ fromEcu[i].type = "CF" =>
        fromEcu[i].chunk[1] = rx.buffer[1][1] /\ fromEcu[i].chunk[2] > InHand[2]

EcuTxInv ==
  ecuTx # Idle =>
    /\ \A i \in 1 .. Len(fromEcu) :
         Last(fromEcu, i) => /\ fromEcu[i].type \in {"FF", "CF"}
                             /\ fromEcu[i].chunk = <<ecuTx.msg, ecuTx.sent>>
    /\ NoData(fromEcu) /\ Arriving =>
         rx.buffer[1][1] = ecuTx.msg /\ InHand[2] <= ecuTx.sent

RxIInv == AssembledInv /\ InHandInv /\ UnderwayInv /\ NextIsLater /\ EcuTxInv /\ RxWhole

(* Process and EndFc work on the state that made them begin, as long as    *)
(* nobody called SetIds meanwhile (~session.raced).                        *)
ControlInv ==
  /\ reader.pc = "ff_sent" => tx.state = "SEND" /\ tx.left > 1
  /\ reader.pc \in {"cf_delay", "cf_sent"} => tx.state = "SEND_CF" /\ tx.left > 1
  /\ reader.pc = "last_delay" => tx.state = "SEND_CF" /\ tx.left <= 1
  /\ reader.pc = "rcv_fc" => tx.state \in {"WAIT_FIRST_FC", "WAIT_FC"}
  /\ reader.pc = "sent" => tx.state \in {"SEND", "SEND_CF", "WAIT_FIRST_FC"}

(* Buffer, len and the sequence number move together.                      *)
PositionInv ==
  /\ tx.state = "SEND" => tx.pos = 0 /\ tx.left = Chunks[tx.msg]
  /\ tx.state \in {"WAIT_FIRST_FC", "WAIT_FC", "SEND_CF"} =>
       /\ tx.pos >= 1 /\ tx.left >= 1 /\ tx.pos + tx.left = Chunks[tx.msg]
       /\ tx.seq = tx.pos % SeqModulus
  /\ tx.state = "WAIT_FC" => tx.pos >= 2
  /\ reader.pc = "ff_sent" => tx.seq = 1

(* The last chunk of the message in transfer that the driver accepted.     *)
InTransfer ==
  /\ reader.pc # "sent"
  /\ tx.state \in {"WAIT_FIRST_FC", "WAIT_FC", "SEND_CF"} \/ reader.pc = "ff_sent"
SentUpTo == IF reader.pc \in {"ff_sent", "cf_sent"} THEN tx.pos + 1 ELSE tx.pos

SentInv ==
  /\ Chained(toEcu)
  /\ \A i \in 1 .. Len(toEcu) : Fits(toEcu[i])
  /\ InTransfer =>
       \A i \in 1 .. Len(toEcu) :
         Last(toEcu, i) => /\ toEcu[i].type \in {"FF", "CF"}
                           /\ toEcu[i].chunk = <<tx.msg, SentUpTo>>

(* What the ECU assembles is a beginning of a request, and continues with  *)
(* what is underway or else with what Process sends next.                  *)
EcuRxInv ==
  /\ ecuRx # Idle =>
       /\ \A i \in 1 .. Len(ecuRx.got) : ecuRx.got[i] = <<ecuRx.got[1][1], i>>
       /\ ecuRx.count = Chunks[ecuRx.got[1][1]]
       /\ Len(ecuRx.got) <= ecuRx.count
  /\ Receiving =>
       /\ \A i \in 1 .. Len(toEcu) :
            First(toEcu, i) /\ toEcu[i].type = "CF" =>
              toEcu[i].chunk = <<ecuRx.got[1][1], Len(ecuRx.got) + 1>>
       /\ NoData(toEcu) /\ InTransfer =>
            ecuRx.got[1][1] = tx.msg /\ Len(ecuRx.got) = SentUpTo

(* The requests that left the bridge completely; Done counts one, too,     *)
(* whose last frame was just sent.                                         *)
Answered ==
  {m \in Requests : m \notin session.unsent /\ (tx.msg = m => tx.state = "IDLE")}
Done ==
  {m \in Requests : m \notin session.unsent
                    /\ (tx.msg = m => tx.state = "IDLE" \/ reader.pc = "sent")}
Asked == UNION {Answer[m] : m \in Done}

BufferAnswered ==
  /\ rx.state = "WAIT_DATA" \/ reader.pc = "rcv_cf" => rx.buffer # <<>>
  /\ rx.buffer # <<>> =>
       \E m \in Answered : rx.buffer[1][1] \in Answer[m]

FramesAsked ==
  /\ \A i \in 1 .. Len(fromEcu) : Data(fromEcu[i]) => fromEcu[i].chunk[1] \in Asked
  /\ ecuTx # Idle => ecuTx.msg \in Asked

RequestsDone ==
  /\ Received => ecuRx.got[1][1] \in Done
  /\ \A i \in 1 .. Len(toEcu) :
       Data(toEcu[i]) /\ toEcu[i].chunk[2] = Chunks[toEcu[i].chunk[1]]
         => toEcu[i].chunk[1] \in Done

AnswerInv == ~session.raced => BufferAnswered /\ FramesAsked /\ RequestsDone

(* The transmitting side has reached the end of a block.  The flow control *)
(* frame that lets it go on is owed, underway or in hand, or data are on   *)
(* their way that make the ECU owe it.                                     *)
HasFc(q) == \E i \in 1 .. Len(q) : q[i].type = "FC" /\ q[i].status # "WT"
AtBoundary == tx.state = "WAIT_FC" \/ (reader.pc = "cf_sent" /\ AtBlockBoundary)
FcComing ==
  \/ ecuRx.owes
  \/ HasFc(fromEcu)
  \/ ~NoData(toEcu)
  \/ reader.pc = "rcv_fc" /\ reader.frame.status # "WT"

BlockSizeInv == ecuRx # Idle /\ ecuRx.count > 1 => ecuRx.bs \in BlockSizes

BoundaryInv ==
  ~session.raced /\ tx.state = "WAIT_FC" =>
    \E b \in BlockSizes : b > 0 /\ ((tx.pos - 1) % SeqModulus) % b = 0

FcComes ==
  /\ AtBoundary
  /\ ~session.raced /\ ~tx.fcLost
  /\ Receiving
  /\ ecuRx.bs > 0 => SeqModulus % ecuRx.bs = 0
  => FcComing

-----------------------------------------------------------------------------
(* Queues of frames.                                                       *)

LEMMA TailFacts ==
  ASSUME NEW S, NEW q \in Seq(S), q # <<>>
  PROVE  /\ Len(q) \in Nat \ {0} /\ Head(q) = q[1] /\ q[1] \in S
         /\ Tail(q) \in Seq(S) /\ Len(Tail(q)) = Len(q) - 1
         /\ \A i \in 1 .. Len(q) - 1 : Tail(q)[i] = q[i + 1]
<1>1. Len(q) \in Nat \ {0} BY EmptySeq
<1>2. Head(q) = q[1] OBVIOUS
<1> QED BY <1>1, <1>2, HeadTailProperties

LEMMA AppendFacts ==
  ASSUME NEW S, NEW q \in Seq(S), NEW f \in S
  PROVE  /\ Len(q) \in Nat
         /\ Append(q, f) \in Seq(S) /\ Len(Append(q, f)) = Len(q) + 1
         /\ \A i \in 1 .. Len(q) : Append(q, f)[i] = q[i]
         /\ Append(q, f)[Len(q) + 1] = f
<1>1. Len(q) \in Nat BY LenProperties
<1> QED BY <1>1, AppendProperties

LEMMA ChainOfTail ==
  ASSUME NEW S, NEW q \in Seq(S), q # <<>>
  PROVE  /\ Chained(q) => Chained(Tail(q))
         /\ \A i \in 1 .. Len(Tail(q)) :
              /\ Last(Tail(q), i) => Last(q, i + 1)
              /\ First(Tail(q), i) /\ ~Data(q[1]) => First(q, i + 1)
              /\ First(Tail(q), i) /\ Tail(q)[i].type = "CF" /\ Data(q[1]) /\ Chained(q)
                   => Follows(q[1], Tail(q)[i])
         /\ NoData(Tail(q)) /\ ~Data(q[1]) => NoData(q)
         /\ NoData(Tail(q)) /\ Data(q[1]) => Last(q, 1)
<1> DEFINE t == Tail(q)
<1>1. /\ Len(q) \in Nat \ {0} /\ Len(t) = Len(q) - 1
      /\ \A i \in 1 .. Len(t) : t[i] = q[i + 1]
  BY TailFacts
<1> HIDE DEF t
<1>2. \A k \in 2 .. Len(q) : k - 1 \in 1 .. Len(t) /\ t[k - 1] = q[k]
  <2> TAKE k \in 2 .. Len(q)
  <2>1. k - 1 \in 1 .. Len(t) /\ (k - 1) + 1 = k BY <1>1
  <2> QED BY <1>1, <2>1
<1>3. ASSUME Chained(q) PROVE Chained(t)
  <2> SUFFICES ASSUME NEW i \in 1 .. Len(t), NEW j \in 1 .. Len(t),
                      i < j, Data(t[i]), t[j].type = "CF",
                      \A k \in i + 1 .. j - 1 : ~Data(t[k])
               PROVE  Follows(t[i], t[j])
    BY DEF Chained
  <2>2. ASSUME NEW k \in (i + 1) + 1 .. (j + 1) - 1 PROVE ~Data(q[k])
    <3>1. k - 1 \in i + 1 .. j - 1 /\ k \in 2 .. Len(q) BY <1>1
    <3> QED BY <1>2, <3>1
  <2>3. i + 1 \in 1 .. Len(q) /\ j + 1 \in 1 .. Len(q) /\ i + 1 < j + 1 BY <1>1
  <2>4. t[i] = q[i + 1] /\ t[j] = q[j + 1] BY <1>1
  <2> QED BY <1>3, <2>2, <2>3, <2>4 DEF Chained
<1>4. ASSUME NEW i \in 1 .. Len(t), Last(t, i) PROVE Last(q, i + 1)
  <2>2. ASSUME NEW k \in (i + 1) + 1 .. Len(q) PROVE ~Data(q[k])
    <3>1. k - 1 \in i + 1 .. Len(t) /\ k \in 2 .. Len(q) BY <1>1
    <3> QED BY <1>2, <1>4, <3>1 DEF Last
  <2> QED BY <1>1, <1>4, <2>2 DEF Last
<1>5. ASSUME NEW i \in 1 .. Len(t), First(t, i)
      PROVE  \A k \in 2 .. i : ~Data(q[k])
  <2> TAKE k \in 2 .. i
  <2>1. k - 1 \in 1 .. i - 1 /\ k \in 2 .. Len(q) BY <1>1
  <2> QED BY <1>2, <1>5, <2>1 DEF First
<1>6. ASSUME NEW i \in 1 .. Len(t), First(t, i), ~Data(q[1]) PROVE First(q, i + 1)
  <2>1. \A k \in 1 .. (i + 1) - 1 : k = 1 \/ k \in 2 .. i OBVIOUS
  <2> QED BY <1>1, <1>5, <1>6, <2>1 DEF First
<1>7. ASSUME NEW i \in 1 .. Len(t), First(t, i), t[i].type = "CF", Data(q[1]), Chained(q)
      PROVE  Follows(q[1], t[i])
  <2>1. \A k \in 1 + 1 .. (i + 1) - 1 : k \in 2 .. i OBVIOUS
  <2>2. 1 \in 1 .. Len(q) /\ i + 1 \in 1 .. Len(q) /\ 1 < i + 1 BY <1>1
  <2> QED BY <1>1, <1>5, <1>7, <2>1, <2>2 DEF Chained
<1>8. ASSUME NoData(t) PROVE \A k \in 2 .. Len(q) : ~Data(q[k])
  BY <1>2, <1>8 DEF NoData
<1>9. NoData(t) /\ ~Data(q[1]) => NoData(q)
  <2>1. \A k \in 1 .. Len(q) : k = 1 \/ k \in 2 .. Len(q) BY <1>1
  <2> QED BY <1>8, <2>1 DEF NoData
<1>10. NoData(t) /\ Data(q[1]) => Last(q, 1) BY <1>8 DEF Last
<1> QED BY <1>3, <1>4, <1>6, <1>7, <1>9, <1>10 DEF t

LEMMA ChainOfAppend ==
  ASSUME NEW S, NEW q \in Seq(S), NEW f \in S
  PROVE  /\ Chained(q) /\ (f.type = "CF" => \A i \in 1 .. Len(q) : Last(q, i) => Follows(q[i], f))
              => Chained(Append(q, f))
         /\ \A i \in 1 .. Len(Append(q, f)) :
              /\ First(Append(q, f), i) =>
                   \/ i \in 1 .. Len(q) /\ First(q, i) /\ Append(q, f)[i] = q[i]
                   \/ i = Len(q) + 1 /\ NoData(q) /\ Append(q, f)[i] = f
              /\ Last(Append(q, f), i) =>
                   \/ Data(f) /\ Append(q, f)[i] = f
                   \/ ~Data(f) /\ i \in 1 .. Len(q) /\ Last(q, i) /\ Append(q, f)[i] = q[i]
         /\ NoData(Append(q, f)) <=> NoData(q) /\ ~Data(f)
<1> DEFINE a == Append(q, f)
<1>1. /\ Len(q) \in Nat /\ Len(a) = Len(q) + 1
      /\ \A i \in 1 .. Len(q) : a[i] = q[i]
      /\ a[Len(q) + 1] = f
  BY AppendFacts
<1> HIDE DEF a
<1>2. ASSUME Chained(q),
             f.type = "CF" => \A i \in 1 .. Len(q) : Last(q, i) => Follows(q[i], f)
      PROVE  Chained(a)
  <2> SUFFICES ASSUME NEW i \in 1 .. Len(a), NEW j \in 1 .. Len(a),
                      i < j, Data(a[i]), a[j].type = "CF",
                      \A k \in i + 1 .. j - 1 : ~Data(a[k])
               PROVE  Follows(a[i], a[j])
    BY DEF Chained
  <2>1. i \in 1 .. Len(q) /\ a[i] = q[i] BY <1>1
  <2>2. \A k \in i + 1 .. j - 1 : ~Data(q[k])
    <3> TAKE k \in i + 1 .. j - 1
    <3>1. k \in 1 .. Len(q) BY <1>1
    <3> QED BY <1>1, <3>1
  <2>3. CASE j \in 1 .. Len(q) BY <1>1, <1>2, <2>1, <2>2, <2>3 DEF Chained
  <2>4. CASE j = Len(q) + 1
    <3>1. j - 1 = Len(q) BY <1>1, <2>4
    <3>2. Last(q, i) BY <2>1, <2>2, <3>1 DEF Last
    <3> QED BY <1>1, <1>2, <2>1, <2>4, <3>2
  <2> QED BY <1>1, <2>3, <2>4
<1>3. ASSUME NEW i \in 1 .. Len(a), First(a, i)
      PROVE  \/ i \in 1 .. Len(q) /\ First(q, i) /\ a[i] = q[i]
             \/ i = Len(q) + 1 /\ NoData(q) /\ a[i] = f
  <2>1. \A k \in 1 .. i - 1 : k \in 1 .. Len(q) /\ a[k] = q[k] BY <1>1
  <2>2. \A k \in 1 .. i - 1 : ~Data(q[k]) BY <1>3, <2>1 DEF First
  <2>3. CASE i \in 1 .. Len(q) BY <1>1, <1>3, <2>2, <2>3 DEF First
  <2>4. CASE i = Len(q) + 1
    <3>1. i - 1 = Len(q) BY <1>1, <2>4
    <3> QED BY <1>1, <2>2, <2>4, <3>1 DEF NoData
  <2> QED BY <1>1, <2>3, <2>4
<1>4. ASSUME NEW i \in 1 .. Len(a), Last(a, i)
      PROVE  \/ Data(f) /\ a[i] = f
             \/ ~Data(f) /\ i \in 1 .. Len(q) /\ Last(q, i) /\ a[i] = q[i]
  <2>1. CASE i = Len(q) + 1 BY <1>1, <1>4, <2>1 DEF Last
  <2>2. CASE i \in 1 .. Len(q)
    <3>1. Len(q) + 1 \in i + 1 .. Len(a) BY <1>1, <2>2
    <3>2. ~Data(f) BY <1>1, <1>4, <3>1 DEF Last
    <3>3. \A k \in i + 1 .. Len(q) : k \in i + 1 .. Len(a) /\ a[k] = q[k] BY <1>1, <2>2
    <3> QED BY <1>1, <1>4, <2>2, <3>2, <3>3 DEF Last
  <2> QED BY <1>1, <2>1, <2>2
<1>5. NoData(a) <=> NoData(q) /\ ~Data(f)
  <2>1. \A k \in 1 .. Len(a) : k \in 1 .. Len(q) \/ k = Len(q) + 1 BY <1>1
  <2>2. 1 .. Len(q) \subseteq 1 .. Len(a) /\ Len(q) + 1 \in 1 .. Len(a) BY <1>1
  <2> QED BY <1>1, <2>1, <2>2 DEF NoData
<1> QED BY <1>2, <1>3, <1>4, <1>5 DEF a
-----------------------------------------------------------------------------
(* Frames.                                                                 *)

LEMMA Constants ==
  /\ \A m \in Requests : m \in Messages /\ Chunks[m] \in 1 .. LenWrap
  /\ \A a \in Answers : a \in Messages /\ Chunks[a] \in 1 .. LenWrap
  /\ LenWrap \in Nat /\ BusCapacity \in Nat \ {0} /\ MaxFcWait \in Nat \ {0}
  /\ RxCapacity \in Nat \ {0}
  /\ SeqModulus \in Nat \ {0, 1} /\ BlockSizes \subseteq Nat
  /\ \A n \in Nat : (n % SeqModulus) \in 0 .. SeqModulus - 1
<1>1. Messages = Requests \cup Answers BY DEF Messages
<1>2. SeqModulus \in Nat \ {0, 1} BY IsoTpAssumption
<1>3. \A n \in Nat : (n % SeqModulus) \in 0 .. SeqModulus - 1 BY <1>2, SMT
<1> QED BY <1>1, <1>2, <1>3, IsoTpAssumption

LEMMA EcuFrameFacts ==
  ASSUME NEW f \in EcuFrames
  PROVE  /\ f.type \in {"SF", "FF", "CF", "FC"}
         /\ Data(f) => /\ f.chunk[1] \in Answers /\ f.chunk[2] \in 1 .. LenWrap
                       /\ f.chunk[2] \in Nat
                       /\ f.chunk = <<f.chunk[1], f.chunk[2]>>
                       /\ f.chunk \in Chunk
         /\ f.type = "FF" => f.count \in 2 .. LenWrap
         /\ f.type = "CF" => f.seq \in Nat
         /\ f.type = "FC" => f.status \in Statuses /\ f.bs \in BlockSizes \cup {0}
<1>1. CASE f \in [type : {"FC"}, status : Statuses, bs : BlockSizes \cup {0}]
  BY <1>1 DEF Data
<1>2. CASE Data(f)
  <2>1. f.chunk \in Answers \X (1 .. LenWrap)
    BY <1>2 DEF EcuFrames, Data
  <2>2. f.chunk[2] \in 1 .. LenWrap + 1 BY <2>1, Constants
  <2>3. f.chunk \in Chunk BY <2>1, <2>2, Constants DEF Chunk
  <2>4. f.chunk[2] \in Nat BY <2>1, Constants
  <2> QED BY <1>2, <2>1, <2>3, <2>4 DEF EcuFrames, Data
<1> QED BY <1>1, <1>2 DEF EcuFrames, Data

LEMMA BridgeFrameFacts ==
  ASSUME NEW f \in BridgeFrames
  PROVE  /\ f.type \in {"SF", "FF", "CF", "FC"}
         /\ Data(f) => /\ f.chunk \in Requests \X Nat
                       /\ f.chunk[1] \in Requests /\ f.chunk[2] \in Nat
                       /\ f.chunk = <<f.chunk[1], f.chunk[2]>>
         /\ f.type = "FF" => f.count \in 2 .. LenWrap
         /\ f.type = "CF" => f.seq \in Nat
<1>1. CASE Data(f)
  <2>1. f.chunk \in Requests \X Nat BY <1>1 DEF BridgeFrames, Data
  <2> QED BY <1>1, <2>1 DEF BridgeFrames, Data
<1> QED BY <1>1 DEF BridgeFrames, Data

LEMMA FramesMade ==
  /\ \A m \in Requests : Sf(m) \in BridgeFrames
  /\ \A m \in Requests, c \in 2 .. LenWrap : Ff(m, c) \in BridgeFrames
  /\ \A m \in Requests, i \in Nat, s \in Nat : Cf(m, i, s) \in BridgeFrames
  /\ Fc("CTS", 0) \in BridgeFrames
  /\ \A a \in Answers : Sf(a) \in EcuFrames
  /\ \A a \in Answers : Chunks[a] # 1 => Ff(a, Chunks[a]) \in EcuFrames
  /\ \A a \in Answers, i \in 1 .. LenWrap, s \in Nat : Cf(a, i, s) \in EcuFrames
  /\ \A status \in Statuses, bs \in BlockSizes \cup {0} : Fc(status, bs) \in EcuFrames
<1>1. \A a \in Answers : 1 \in 1 .. LenWrap BY Constants
<1> QED BY <1>1, Constants DEF Sf, Ff, Cf, Fc, BridgeFrames, EcuFrames

LEMMA FrameFields ==
  /\ \A m : Sf(m).type = "SF" /\ Sf(m).chunk = <<m, 1>>
  /\ \A m, c : Ff(m, c).type = "FF" /\ Ff(m, c).chunk = <<m, 1>> /\ Ff(m, c).count = c
  /\ \A m, i, s : Cf(m, i, s).type = "CF" /\ Cf(m, i, s).chunk = <<m, i>> /\ Cf(m, i, s).seq = s
  /\ \A s, b : Fc(s, b).type = "FC" /\ Fc(s, b).status = s /\ Fc(s, b).bs = b
BY DEF Sf, Ff, Cf, Fc

-----------------------------------------------------------------------------
(* Types.                                                                  *)

SessionType ==
  session \in [connected : BOOLEAN, unsent : SUBSET Requests, openings : Nat,
               setIds : Nat, raced : BOOLEAN]
ReaderType ==
  /\ reader \in [pc : Places, frame : EcuFrames \cup {NoFrame}]
  /\ reader.pc = "rcv_fc" => reader.frame \in EcuFrames /\ reader.frame.type = "FC"
  /\ reader.pc = "rcv_cf" => reader.frame \in EcuFrames /\ reader.frame.type = "CF"
ToEcuType == toEcu \in Seq(BridgeFrames) /\ Len(toEcu) <= BusCapacity
FromEcuType == fromEcu \in Seq(EcuFrames) /\ Len(fromEcu) <= BusCapacity
EcuRxType == ecuRx = Idle \/ (ecuRx \in Reception /\ ecuRx.got # <<>>)
EcuTxType ==
  ecuTx = Idle \/ (ecuTx \in Transmission /\ ecuTx.sent \in 1 .. Chunks[ecuTx.msg] - 1)
MsgInv ==
  \/ tx.state = "IDLE" /\ reader.pc \in {"poll", "process", "rcv_cf"}
  \/ tx.msg \in Requests /\ tx.msg \notin session.unsent
RxLengths ==
  /\ rx.state = "WAIT_DATA" => Len(rx.buffer) = rx.seq /\ rx.rest > 0
  /\ reader.pc = "rcv_cf" => Len(rx.buffer) = rx.seq

TypeIInv ==
  /\ SessionType /\ tx \in TxMsg /\ rx \in RxMsg /\ ReaderType
  /\ ToEcuType /\ FromEcuType /\ EcuRxType /\ EcuTxType
  /\ MsgInv /\ RxLengths

LEMMA InitTypes == Init => TypeIInv
<1> SUFFICES ASSUME Init PROVE TypeIInv OBVIOUS
<1> USE DEF Init
<1>1. SessionType BY Constants, IsoTpAssumption DEF SessionType
<1>2. tx \in TxMsg BY Constants DEF TxMsg, TxStates
<1>3. rx \in RxMsg BY EmptySeq DEF RxMsg, RxStates, Content
<1>4. ReaderType BY DEF ReaderType, At, Places
<1>5. ToEcuType /\ FromEcuType BY EmptySeq, Constants DEF ToEcuType, FromEcuType
<1>6. EcuRxType /\ EcuTxType BY DEF EcuRxType, EcuTxType
<1>7. MsgInv /\ RxLengths BY DEF MsgInv, RxLengths, At
<1> QED BY <1>1, <1>2, <1>3, <1>4, <1>5, <1>6, <1>7 DEF TypeIInv

LEMMA TransmitTypes ==
  ASSUME ToEcuType, NEW f \in BridgeFrames, NEW accepted \in BOOLEAN, Transmit(f, accepted)
  PROVE  ToEcuType'
<1>1. CASE accepted
  <2>1. /\ Len(toEcu) \in Nat /\ toEcu' = Append(toEcu, f) /\ Len(toEcu) < BusCapacity
        /\ Append(toEcu, f) \in Seq(BridgeFrames) /\ Len(Append(toEcu, f)) = Len(toEcu) + 1
    BY <1>1, AppendFacts DEF Transmit, ToEcuType
  <2> QED BY <2>1, Constants DEF ToEcuType
<1>2. CASE ~accepted BY <1>2 DEF Transmit, ToEcuType
<1> QED BY <1>1, <1>2

LEMMA EcuSendsTypes ==
  ASSUME FromEcuType, NEW f \in EcuFrames, EcuSends(f)
  PROVE  FromEcuType'
<1>1. /\ Len(fromEcu) \in Nat /\ fromEcu' = Append(fromEcu, f) /\ Len(fromEcu) < BusCapacity
      /\ Append(fromEcu, f) \in Seq(EcuFrames) /\ Len(Append(fromEcu, f)) = Len(fromEcu) + 1
  BY AppendFacts DEF EcuSends, FromEcuType
<1> QED BY <1>1, Constants DEF FromEcuType

(* The frame at the head of a queue that is taken.                         *)
LEMMA HeadTaken ==
  ASSUME FromEcuType, fromEcu # <<>>, fromEcu' = Tail(fromEcu)
  PROVE  FromEcuType' /\ Head(fromEcu) \in EcuFrames
BY TailFacts, Constants DEF FromEcuType

(* What the bridge and time do leaves the ECU as it is.                    *)
LEMMA EcuRests ==
  Client \/ Reader \/ OtherFrame \/ FcTimePasses \/ CfTimePasses \/ Lose \/ UNCHANGED vars
  => UNCHANGED ecuRx /\ UNCHANGED ecuTx
<1>1. CASE Client
  BY <1>1 DEF Client, OnClientConnected, OnClientDisconnected, Send, SetIds, ecuVars
<1>2. CASE \/ OtherFrame \/ FcTimePasses \/ CfTimePasses \/ Lose \/ UNCHANGED vars
  BY <1>2 DEF OtherFrame, FcTimePasses, CfTimePasses, Lose, vars, ecuVars
<1>3. CASE \/ Divert \/ ReceiveSf \/ ReceiveFf \/ BeginFc \/ EndFc \/ BeginCf \/ EndCf
           \/ NothingToSend \/ SendSf \/ EndSend
  BY <1>3 DEF Divert, ReceiveSf, ReceiveFf, StartReceiving, BeginFc, EndFc, BeginCf, EndCf,
              NothingToSend, SendSf, EndSend, ecuVars
<1>4. CASE \/ (\E accepted \in BOOLEAN : SendFf(accepted))
           \/ EndFf \/ AwaitFirstFc \/ BeginBlock
           \/ (\E accepted \in BOOLEAN : SendCf(accepted)) \/ EndCfSent \/ SendLastCf
  BY <1>4 DEF SendFf, EndFf, AwaitFirstFc, BeginBlock, SendCf, EndCfSent, SendLastCf, ecuVars
<1> QED BY <1>1, <1>2, <1>3, <1>4 DEF Reader

(* What leaves the tasks and the ECU as they are.                          *)
LEMMA StutterTypes == TypeIInv /\ UNCHANGED vars => TypeIInv'
BY DEF TypeIInv, vars, ecuVars, SessionType, ReaderType, ToEcuType, FromEcuType,
       EcuRxType, EcuTxType, MsgInv, RxLengths, Arriving

LEMMA ClientTypes == TypeIInv /\ Client => TypeIInv'
<1> SUFFICES ASSUME TypeIInv, Client PROVE TypeIInv' OBVIOUS
<1> USE DEF TypeIInv
<1>1. /\ UNCHANGED <<reader, toEcu, fromEcu, ecuRx, ecuTx>>
      /\ UNCHANGED <<rx.buffer, rx.seq>> /\ (rx'.state = "WAIT_DATA" => rx.state = "WAIT_DATA")
      /\ UNCHANGED rx.rest
  BY DEF Client, OnClientConnected, OnClientDisconnected, Send, SetIds, ecuVars, RxMsg
<1>2. ReaderType' /\ ToEcuType' /\ FromEcuType' /\ EcuRxType' /\ EcuTxType' /\ RxLengths'
  BY <1>1 DEF ReaderType, ToEcuType, FromEcuType, EcuRxType, EcuTxType, RxLengths
<1>0. /\ session.openings > 0 => session.openings - 1 \in Nat
      /\ session.setIds > 0 => session.setIds - 1 \in Nat
  BY DEF SessionType
<1>3. CASE OnClientConnected
  <2>1. SessionType' BY <1>0, <1>3 DEF OnClientConnected, SessionType
  <2>2. MsgInv' BY <1>3 DEF OnClientConnected, SessionType, MsgInv
  <2> QED BY <1>2, <1>3, <2>1, <2>2 DEF OnClientConnected
<1>4. CASE OnClientDisconnected
  BY <1>2, <1>4 DEF OnClientDisconnected, SessionType, MsgInv, RxMsg
<1>5. ASSUME NEW m \in Requests, Send(m) PROVE TypeIInv'
  <2>1. SessionType' BY <1>5 DEF Send, SessionType
  <2>2. tx' \in TxMsg
    <3>1. CASE tx.state = "IDLE"
      <4>1. Chunks[m] \in 0 .. LenWrap BY Constants
      <4>2. tx' = [tx EXCEPT !.state = "SEND", !.msg = m, !.pos = 0,
                             !.left = Chunks[m], !.fcLost = FALSE]
        BY <1>5, <3>1 DEF Send
      <4> QED BY <4>1, <4>2 DEF TxMsg, TxStates
    <3> QED BY <1>5, <3>1 DEF Send
  <2>3. MsgInv' BY <1>1, <1>5 DEF Send, MsgInv, TxMsg, SessionType
  <2> QED BY <1>2, <1>5, <2>1, <2>2, <2>3 DEF Send
<1>6. CASE SetIds
  <2>1. SessionType'
    <3>1. PICK r \in BOOLEAN :
            session' = [session EXCEPT !.setIds = @ - 1, !.raced = r]
      BY <1>6 DEF SetIds, SessionType
    <3> QED BY <1>0, <1>6, <3>1 DEF SetIds, SessionType
  <2>2. tx' \in TxMsg /\ rx' \in RxMsg BY <1>6 DEF SetIds, TxMsg, TxStates, RxMsg, RxStates
  <2>3. MsgInv' BY <1>1, <1>6 DEF SetIds, MsgInv, TxMsg, SessionType
  <2> QED BY <1>2, <2>1, <2>2, <2>3
<1> QED BY <1>3, <1>4, <1>5, <1>6 DEF Client

LEMMA AtTypes ==
  /\ \A p : At(p).pc = p
  /\ \A p, f : Holding(p, f).pc = p /\ Holding(p, f).frame = f
  /\ \A p \in Places \ {"rcv_fc", "rcv_cf"} : reader' = At(p) => ReaderType'
  /\ \A f \in EcuFrames :
       \/ f.type = "FC" /\ reader' = Holding("rcv_fc", f)
       \/ f.type = "CF" /\ reader' = Holding("rcv_cf", f)
       => ReaderType'
BY DEF At, Holding, ReaderType, Places

(* What rcv_cf writes when the sequence number is the expected one.        *)
LEMMA CfStored ==
  ASSUME TypeIInv, EndCf, reader.frame.seq = rx.seq % SeqModulus
  PROVE  \E chunk \in Content :
           /\ FitsBuffer => chunk = reader.frame.chunk
           /\ rx' = [rx EXCEPT !.buffer = Append(@, chunk),
                               !.seq = @ + 1,
                               !.state = IF rx.rest <= 1 THEN "FINISHED" ELSE @,
                               !.rest = IF @ <= 1 THEN @ ELSE @ - 1,
                               !.overrun = @ \/ ~FitsBuffer]
           /\ rx'.buffer = Append(rx.buffer, chunk) /\ rx'.seq = rx.seq + 1
           /\ rx'.state = IF rx.rest <= 1 THEN "FINISHED" ELSE rx.state
           /\ rx'.rest = IF rx.rest <= 1 THEN rx.rest ELSE rx.rest - 1
           /\ rx'.broken = rx.broken /\ rx'.overrun = (rx.overrun \/ ~FitsBuffer)
<1>1. reader.frame.chunk \in Chunk
  BY EcuFrameFacts DEF EndCf, TypeIInv, ReaderType, Data
<1>2. PICK chunk \in Stored(reader.frame.chunk) :
        rx' = [rx EXCEPT !.buffer = Append(@, chunk),
                         !.seq = @ + 1,
                         !.state = IF rx.rest <= 1 THEN "FINISHED" ELSE @,
                         !.rest = IF @ <= 1 THEN @ ELSE @ - 1,
                         !.overrun = @ \/ ~FitsBuffer]
  BY DEF EndCf
<1>3. chunk \in Content BY <1>1, <1>2 DEF Stored, Content
<1>4. FitsBuffer => chunk = reader.frame.chunk BY <1>2 DEF Stored
<1>5. rx \in RxMsg BY DEF TypeIInv
<1>6. /\ rx'.buffer = Append(rx.buffer, chunk) /\ rx'.seq = rx.seq + 1
      /\ rx'.state = IF rx.rest <= 1 THEN "FINISHED" ELSE rx.state
      /\ rx'.rest = IF rx.rest <= 1 THEN rx.rest ELSE rx.rest - 1
      /\ rx'.broken = rx.broken /\ rx'.overrun = (rx.overrun \/ ~FitsBuffer)
  BY <1>2, <1>5 DEF RxMsg
<1> QED BY <1>2, <1>3, <1>4, <1>6

LEMMA ReceiverTypes ==
  ASSUME TypeIInv,
         \/ Divert \/ ReceiveSf \/ ReceiveFf \/ BeginFc \/ EndFc \/ BeginCf \/ EndCf \/ OtherFrame
  PROVE  TypeIInv'
<1> USE DEF TypeIInv
<1>1. UNCHANGED session /\ UNCHANGED ecuRx /\ UNCHANGED ecuTx
      /\ SessionType' /\ EcuRxType' /\ EcuTxType'
  BY DEF Divert, ReceiveSf, ReceiveFf, StartReceiving, BeginFc, EndFc, BeginCf, EndCf,
         OtherFrame, ecuVars, SessionType, EcuRxType, EcuTxType
<1>2. Fc("CTS", 0) \in BridgeFrames BY FramesMade
<1>3. \A p \in {"poll", "process"} : p \in Places \ {"rcv_fc", "rcv_cf"} BY DEF Places
<1>4. ASSUME UNCHANGED tx, reader'.pc \in {"poll", "process", "rcv_cf"} PROVE MsgInv'
  BY <1>1, <1>4 DEF MsgInv
<1>5. CASE Divert
  <2>1. FromEcuType' BY <1>5, HeadTaken DEF Divert
  <2>2. ToEcuType' BY <1>2, <1>5, TransmitTypes DEF Divert, ToEcuType
  <2>3. tx' \in TxMsg BY <1>5 DEF Divert, TxMsg
  <2>4. MsgInv' BY <1>1, <1>5 DEF Divert, MsgInv, TxMsg
  <2> QED BY <1>1, <1>5, <2>1, <2>2, <2>3, <2>4 DEF Divert, ReaderType, RxLengths
<1>6. CASE ReceiveSf
  <2>1. FromEcuType' /\ Head(fromEcu) \in EcuFrames BY <1>6, HeadTaken DEF ReceiveSf, Take
  <2>2. Head(fromEcu).chunk \in Chunk
    BY <1>6, <2>1, EcuFrameFacts DEF ReceiveSf, Take, Data
  <2>3. rx' = [rx EXCEPT !.buffer = <<Head(fromEcu).chunk>>, !.state = "FINISHED",
                         !.broken = FALSE]
        /\ reader' = At("process")
    BY <1>6 DEF ReceiveSf
  <2>4. <<Head(fromEcu).chunk>> \in Seq(Content) BY <2>2 DEF Content
  <2>5. rx' \in RxMsg BY <2>3, <2>4 DEF RxMsg, RxStates, Content
  <2>6. ReaderType' /\ reader'.pc = "process" BY <1>3, <2>3, AtTypes
  <2>7. RxLengths' BY <2>3, <2>6 DEF RxLengths, RxMsg
  <2> QED BY <1>1, <1>4, <1>6, <2>1, <2>5, <2>6, <2>7 DEF ReceiveSf, ToEcuType
<1>7. CASE ReceiveFf
  <2>1. FromEcuType' /\ Head(fromEcu) \in EcuFrames /\ Head(fromEcu).type = "FF"
    BY <1>7, HeadTaken DEF ReceiveFf, StartReceiving, Take
  <2>2. Head(fromEcu).chunk \in Chunk /\ Head(fromEcu).count \in 2 .. LenWrap
    BY <2>1, EcuFrameFacts DEF Data
  <2>3. rx' = [rx EXCEPT !.seq = 1, !.rest = Head(fromEcu).count - 1,
                         !.buffer = <<Head(fromEcu).chunk>>,
                         !.state = "WAIT_DATA", !.broken = FALSE]
        /\ reader' = At("process") /\ tx' = [tx EXCEPT !.blocksize = 0]
    BY <1>7 DEF ReceiveFf, StartReceiving
  <2>4. <<Head(fromEcu).chunk>> \in Seq(Content) /\ Len(<<Head(fromEcu).chunk>>) = 1
    BY <2>2 DEF Content
  <2>5. Head(fromEcu).count - 1 \in Nat /\ Head(fromEcu).count - 1 > 0
    BY <2>2, Constants
  <2>6. rx' \in RxMsg BY <2>3, <2>4, <2>5 DEF RxMsg, RxStates, Content
  <2>7. ReaderType' /\ reader'.pc = "process" BY <1>3, <2>3, AtTypes
  <2>8. RxLengths' BY <2>3, <2>4, <2>5, <2>7 DEF RxLengths, RxMsg
  <2>9. tx' \in TxMsg BY <2>3 DEF TxMsg
  <2>10. MsgInv' BY <1>1, <2>3, <2>7 DEF MsgInv, TxMsg
  <2>11. ToEcuType' BY <1>2, <1>7, TransmitTypes DEF ReceiveFf, StartReceiving
  <2> QED BY <1>1, <2>1, <2>6, <2>7, <2>8, <2>9, <2>10, <2>11
<1>8. CASE BeginFc
  <2>1. FromEcuType' /\ Head(fromEcu) \in EcuFrames /\ Head(fromEcu).type = "FC"
    BY <1>8, HeadTaken DEF BeginFc, Take
  <2>2. ReaderType' /\ reader'.pc \in {"rcv_fc", "process"}
    BY <1>3, <1>8, <2>1, AtTypes DEF BeginFc
  <2>3. Head(fromEcu).bs \in BlockSizes \cup {0} BY <2>1, EcuFrameFacts
  <2>4. tx' \in TxMsg BY <1>8, <2>3 DEF BeginFc, TxMsg
  <2>5. tx.state = "IDLE" => reader'.pc = "process" BY <1>8, AtTypes DEF BeginFc
  <2>6. MsgInv' BY <1>1, <1>8, <2>5 DEF BeginFc, MsgInv, TxMsg
  <2> QED BY <1>1, <1>8, <2>1, <2>2, <2>4, <2>6 DEF BeginFc, ToEcuType, RxLengths
<1>9. CASE EndFc
  <2>1. ReaderType' /\ reader'.pc = "process" BY <1>3, <1>9, AtTypes DEF EndFc
  <2>2. tx' \in TxMsg
    <3>1. tx.fcWaits + 1 < MaxFcWait => tx.fcWaits + 1 \in 0 .. MaxFcWait - 1
      <4>1. tx.fcWaits \in 0 .. MaxFcWait - 1 BY DEF TxMsg
      <4>2. MaxFcWait \in Nat BY Constants
      <4> QED BY <4>1, <4>2
    <3>2. 0 \in 0 .. MaxFcWait - 1 BY Constants
    <3>3. \/ tx' = [tx EXCEPT !.state = "SEND_CF"]
          \/ tx.fcWaits + 1 < MaxFcWait /\ tx' = [tx EXCEPT !.fcWaits = @ + 1]
          \/ tx' = [tx EXCEPT !.fcWaits = 0, !.state = "IDLE"]
          \/ tx' = [tx EXCEPT !.state = "IDLE"]
      BY <1>9 DEF EndFc
    <3>4. CASE tx.fcWaits + 1 < MaxFcWait /\ tx' = [tx EXCEPT !.fcWaits = @ + 1]
      BY <3>1, <3>4 DEF TxMsg
    <3>5. CASE tx' = [tx EXCEPT !.fcWaits = 0, !.state = "IDLE"]
      BY <3>2, <3>5 DEF TxMsg, TxStates
    <3>6. CASE tx' = [tx EXCEPT !.state = "SEND_CF"] \/ tx' = [tx EXCEPT !.state = "IDLE"]
      BY <3>6 DEF TxMsg, TxStates
    <3> QED BY <3>3, <3>4, <3>5, <3>6
  <2>3. tx'.msg = tx.msg BY <1>9 DEF EndFc, TxMsg
  <2>4. MsgInv' BY <1>1, <1>9, <2>1, <2>3 DEF EndFc, MsgInv
  <2> QED BY <1>1, <1>9, <2>1, <2>2, <2>4 DEF EndFc, ToEcuType, FromEcuType, RxLengths
<1>10. CASE BeginCf
  <2>1. FromEcuType' /\ Head(fromEcu) \in EcuFrames /\ Head(fromEcu).type = "CF"
    BY <1>10, HeadTaken DEF BeginCf, Take
  <2>2. ReaderType' /\ reader'.pc \in {"rcv_cf", "process"}
    BY <1>3, <1>10, <2>1, AtTypes DEF BeginCf
  <2>3. rx' \in RxMsg BY <1>10 DEF BeginCf, RxMsg, RxStates
  <2>4. reader'.pc = "rcv_cf" => rx.state = "WAIT_DATA" BY <1>10, AtTypes DEF BeginCf
  <2>5. RxLengths' BY <1>10, <2>4 DEF BeginCf, RxLengths, RxMsg
  <2> QED BY <1>1, <1>4, <1>10, <2>1, <2>2, <2>3, <2>5 DEF BeginCf, ToEcuType
<1>11. CASE EndCf
  <2>1. ReaderType' /\ reader'.pc = "process" BY <1>3, <1>11, AtTypes DEF EndCf
  <2>2. reader.frame.chunk \in Chunk
    BY <1>11, EcuFrameFacts DEF EndCf, ReaderType, Data
  <2>3. \A chunk \in Content :
          /\ Append(rx.buffer, chunk) \in Seq(Content)
          /\ Len(Append(rx.buffer, chunk)) = Len(rx.buffer) + 1
    BY AppendFacts DEF RxMsg, Content
  <2>4. CASE reader.frame.seq # rx.seq % SeqModulus
    <3>1. rx' = [rx EXCEPT !.state = "IDLE", !.seq = 1] BY <1>11, <2>4 DEF EndCf
    <3>2. rx' \in RxMsg BY <3>1 DEF RxMsg, RxStates
    <3>3. RxLengths' BY <2>1, <3>1 DEF RxLengths, RxMsg
    <3> QED BY <1>1, <1>4, <1>11, <2>1, <3>2, <3>3 DEF EndCf, ToEcuType, FromEcuType
  <2>5. CASE reader.frame.seq = rx.seq % SeqModulus
    <3>1. PICK chunk \in Content :
            /\ rx' = [rx EXCEPT !.buffer = Append(@, chunk),
                                !.seq = @ + 1,
                                !.state = IF rx.rest <= 1 THEN "FINISHED" ELSE @,
                                !.rest = IF @ <= 1 THEN @ ELSE @ - 1,
                                !.overrun = @ \/ ~FitsBuffer]
            /\ rx'.buffer = Append(rx.buffer, chunk) /\ rx'.seq = rx.seq + 1
            /\ rx'.state = IF rx.rest <= 1 THEN "FINISHED" ELSE rx.state
            /\ rx'.rest = IF rx.rest <= 1 THEN rx.rest ELSE rx.rest - 1
      BY <1>11, <2>5, CfStored
    <3>2. rx.seq + 1 \in Nat /\ (IF rx.rest <= 1 THEN rx.rest ELSE rx.rest - 1) \in Nat
      BY DEF RxMsg
    <3>3. rx' \in RxMsg
      <4>1. rx.overrun \in BOOLEAN BY DEF RxMsg
      <4>2. (rx.overrun \/ ~FitsBuffer) \in BOOLEAN OBVIOUS
      <4>3. \A over \in BOOLEAN :
              [rx EXCEPT !.buffer = Append(@, chunk),
                         !.seq = @ + 1,
                         !.state = IF rx.rest <= 1 THEN "FINISHED" ELSE @,
                         !.rest = IF @ <= 1 THEN @ ELSE @ - 1,
                         !.overrun = over] \in RxMsg
        BY <2>3, <3>2 DEF RxMsg, RxStates, Content
      <4> QED BY <3>1, <4>2, <4>3, Zenon
    <3>4. RxLengths'
      <4>1. rx.rest \in Nat /\ rx.seq = Len(rx.buffer) BY <1>11 DEF EndCf, RxLengths, RxMsg
      <4> QED BY <2>1, <2>3, <3>1, <4>1 DEF RxLengths
    <3> QED BY <1>1, <1>4, <1>11, <2>1, <3>3, <3>4 DEF EndCf, ToEcuType, FromEcuType
  <2> QED BY <2>4, <2>5
<1>12. CASE OtherFrame
  <2>1. ReaderType' /\ reader'.pc = "process" BY <1>3, <1>12, AtTypes DEF OtherFrame
  <2> QED BY <1>1, <1>4, <1>12, <2>1 DEF OtherFrame, ToEcuType, FromEcuType, RxLengths
<1> QED BY <1>5, <1>6, <1>7, <1>8, <1>9, <1>10, <1>11, <1>12

LEMMA SenderTypes ==
  ASSUME TypeIInv,
         \/ NothingToSend \/ SendSf \/ EndSend \/ (\E accepted \in BOOLEAN : SendFf(accepted))
         \/ EndFf \/ AwaitFirstFc \/ BeginBlock
         \/ (\E accepted \in BOOLEAN : SendCf(accepted)) \/ EndCfSent \/ SendLastCf
  PROVE  TypeIInv'
<1> USE DEF TypeIInv
<1>1. /\ UNCHANGED <<session, rx, fromEcu, ecuRx, ecuTx>>
      /\ SessionType' /\ rx' \in RxMsg /\ EcuRxType' /\ EcuTxType' /\ FromEcuType'
  BY DEF NothingToSend, SendSf, EndSend, SendFf, EndFf, AwaitFirstFc, BeginBlock, SendCf,
         EndCfSent, SendLastCf, ecuVars, SessionType, EcuRxType, EcuTxType, FromEcuType
<1>2. ASSUME NEW p \in Places \ {"rcv_fc", "rcv_cf"}, reader' = At(p)
      PROVE  ReaderType' /\ RxLengths' /\ reader'.pc = p
  BY <1>1, <1>2, AtTypes DEF RxLengths
<1>3. \A left : LoopTop(left) = At("cf_delay") \/ LoopTop(left) = At("last_delay")
  BY DEF LoopTop
<1>4. {"poll", "sent", "ff_sent", "cf_delay", "cf_sent", "last_delay"}
        \subseteq Places \ {"rcv_fc", "rcv_cf"}
  BY DEF Places
<1>5. ASSUME tx.state # "IDLE" \/ reader.pc \notin {"poll", "process", "rcv_cf"}
      PROVE  tx.msg \in Requests /\ tx.msg \notin session.unsent
  BY <1>5 DEF MsgInv
<1>6. ASSUME tx.state # "IDLE" \/ reader.pc \notin {"poll", "process", "rcv_cf"},
             tx'.msg = tx.msg
      PROVE  MsgInv'
  BY <1>1, <1>5, <1>6 DEF MsgInv
<1>7. ASSUME tx.state # "IDLE" \/ reader.pc \notin {"poll", "process", "rcv_cf"}
      PROVE  NextCf \in BridgeFrames /\ Sf(tx.msg) \in BridgeFrames
             /\ (tx.left > 1 => Ff(tx.msg, tx.left) \in BridgeFrames)
  <2>1. tx.msg \in Requests /\ tx.pos + 1 \in Nat /\ tx.seq \in Nat
    BY <1>5, <1>7, Constants DEF TxMsg
  <2>2. tx.left \in 0 .. LenWrap /\ LenWrap \in Nat BY Constants DEF TxMsg
  <2>3. tx.left > 1 => tx.left \in 2 .. LenWrap BY <2>2
  <2> QED BY <2>1, <2>3, FramesMade DEF NextCf
<1>8. Advanced \in TxMsg /\ Advanced.msg = tx.msg
  <2>1. tx.pos + 1 \in Nat /\ (IF tx.left > 1 THEN tx.left - 1 ELSE LenWrap) \in 0 .. LenWrap
    <3>1. tx.left \in 0 .. LenWrap /\ LenWrap \in Nat /\ tx.pos \in Nat
      BY Constants DEF TxMsg
    <3> QED BY <3>1
  <2> QED BY <2>1 DEF Advanced, TxMsg
<1>9. CASE NothingToSend
  <2>1. ReaderType' /\ RxLengths' /\ reader'.pc = "poll" BY <1>2, <1>4, <1>9 DEF NothingToSend
  <2> QED BY <1>1, <1>9, <2>1 DEF NothingToSend, MsgInv, ToEcuType
<1>10. CASE SendSf
  <2>1. ReaderType' /\ RxLengths' BY <1>2, <1>4, <1>10 DEF SendSf
  <2>2. tx.state = "SEND" /\ UNCHANGED tx BY <1>10 DEF SendSf, Begin
  <2>3. ToEcuType' BY <1>7, <1>10, <2>2, TransmitTypes DEF SendSf
  <2> QED BY <1>1, <1>6, <2>1, <2>2, <2>3
<1>11. CASE EndSend
  <2>1. ReaderType' /\ RxLengths' /\ reader'.pc = "poll" BY <1>2, <1>4, <1>11 DEF EndSend
  <2>2. tx' \in TxMsg /\ tx'.state = "IDLE" BY <1>11 DEF EndSend, TxMsg, TxStates
  <2> QED BY <1>1, <1>11, <2>1, <2>2 DEF EndSend, MsgInv, ToEcuType
<1>12. CASE \E accepted \in BOOLEAN : SendFf(accepted)
  <2>1. PICK accepted \in BOOLEAN : SendFf(accepted) BY <1>12
  <2>2. ReaderType' /\ RxLengths' BY <1>2, <1>4, <2>1 DEF SendFf
  <2>3. tx.state = "SEND" /\ tx.left > 1 /\ tx' = [tx EXCEPT !.seq = 1]
    BY <2>1 DEF SendFf, Begin
  <2>4. ToEcuType' BY <1>7, <2>1, <2>3, TransmitTypes DEF SendFf
  <2>5. tx' \in TxMsg /\ tx'.msg = tx.msg
    <3>1. 1 \in 0 .. SeqModulus BY Constants
    <3> QED BY <2>3, <3>1 DEF TxMsg
  <2> QED BY <1>1, <1>6, <2>2, <2>3, <2>4, <2>5
<1>13. CASE EndFf
  <2>1. ReaderType' /\ RxLengths' BY <1>2, <1>4, <1>13 DEF EndFf
  <2>2. tx' \in TxMsg /\ tx'.msg = tx.msg
    <3>1. 0 \in 0 .. MaxFcWait - 1 BY Constants
    <3> QED BY <1>8, <1>13, <3>1 DEF EndFf, TxMsg, TxStates
  <2>3. reader.pc = "ff_sent" BY <1>13 DEF EndFf
  <2> QED BY <1>1, <1>6, <1>13, <2>1, <2>2, <2>3 DEF EndFf, ToEcuType
<1>14. CASE AwaitFirstFc
  <2>1. ReaderType' /\ RxLengths' BY <1>2, <1>4, <1>14 DEF AwaitFirstFc
  <2> QED BY <1>1, <1>6, <1>14, <2>1 DEF AwaitFirstFc, Begin, ToEcuType
<1>15. CASE BeginBlock
  <2>1. ReaderType' /\ RxLengths' BY <1>2, <1>3, <1>4, <1>15 DEF BeginBlock
  <2> QED BY <1>1, <1>6, <1>15, <2>1 DEF BeginBlock, Begin, ToEcuType
<1>16. CASE \E accepted \in BOOLEAN : SendCf(accepted)
  <2>1. PICK accepted \in BOOLEAN : SendCf(accepted) BY <1>16
  <2>2. ReaderType' /\ RxLengths' BY <1>2, <1>3, <1>4, <2>1 DEF SendCf
  <2>3. reader.pc = "cf_delay" /\ UNCHANGED tx BY <2>1 DEF SendCf
  <2>4. ToEcuType' BY <1>7, <2>1, <2>3, TransmitTypes DEF SendCf
  <2> QED BY <1>1, <1>6, <2>2, <2>3, <2>4
<1>17. CASE EndCfSent
  <2>1. ReaderType' /\ RxLengths' BY <1>2, <1>3, <1>4, <1>17 DEF EndCfSent
  <2>2. tx' \in TxMsg /\ tx'.msg = tx.msg
    <3>1. ((Advanced.seq + 1) % SeqModulus) \in 0 .. SeqModulus
      <4>1. Advanced.seq + 1 \in Nat /\ SeqModulus \in Nat BY <1>8, Constants DEF TxMsg
      <4>2. ((Advanced.seq + 1) % SeqModulus) \in 0 .. SeqModulus - 1 BY <4>1, Constants
      <4> QED BY <4>1, <4>2
    <3> QED BY <1>8, <1>17, <3>1 DEF EndCfSent, TxMsg, TxStates
  <2>3. reader.pc = "cf_sent" BY <1>17 DEF EndCfSent
  <2> QED BY <1>1, <1>6, <1>17, <2>1, <2>2, <2>3 DEF EndCfSent, ToEcuType
<1>18. CASE SendLastCf
  <2>1. ReaderType' /\ RxLengths' BY <1>2, <1>4, <1>18 DEF SendLastCf
  <2>2. reader.pc = "last_delay" /\ UNCHANGED tx BY <1>18 DEF SendLastCf
  <2>3. ToEcuType' BY <1>7, <1>18, <2>2, TransmitTypes DEF SendLastCf
  <2> QED BY <1>1, <1>6, <2>1, <2>2, <2>3
<1> QED
  BY <1>9, <1>10, <1>11, <1>12, <1>13, <1>14, <1>15, <1>16, <1>17, <1>18

(* The ECU's side of a transfer.                                           *)
LEMMA ReceptionMade ==
  ASSUME NEW count \in Nat, NEW got \in Seq(Requests \X Nat), got # <<>>,
         NEW bs \in BlockSizes \cup {0}, NEW owes \in BOOLEAN,
         ecuRx' = [count |-> count, got |-> got, bs |-> bs, owes |-> owes]
  PROVE  EcuRxType'
<1>1. ecuRx' \in Reception BY DEF Reception
<1>2. ecuRx'.got # <<>> OBVIOUS
<1> QED BY <1>1, <1>2 DEF EcuRxType

LEMMA ReceptionFields ==
  ASSUME EcuRxType, ecuRx # Idle
  PROVE  /\ ecuRx.count \in Nat /\ ecuRx.got \in Seq(Requests \X Nat) /\ ecuRx.got # <<>>
         /\ ecuRx.bs \in BlockSizes \cup {0} /\ ecuRx.owes \in BOOLEAN
         /\ ecuRx = [count |-> ecuRx.count, got |-> ecuRx.got, bs |-> ecuRx.bs,
                     owes |-> ecuRx.owes]
<1>1. ecuRx \in Reception /\ ecuRx.got # <<>> BY DEF EcuRxType
<1>2. ecuRx = [count |-> ecuRx.count, got |-> ecuRx.got, bs |-> ecuRx.bs,
               owes |-> ecuRx.owes]
  BY <1>1 DEF Reception
<1>3. /\ ecuRx.count \in Nat /\ ecuRx.got \in Seq(Requests \X Nat)
      /\ ecuRx.bs \in BlockSizes \cup {0} /\ ecuRx.owes \in BOOLEAN
  BY <1>1 DEF Reception
<1> QED BY <1>1, <1>2, <1>3

LEMMA TransmissionMade ==
  ASSUME NEW a \in Answers, NEW sent \in 1 .. Chunks[a] - 1, NEW allowed \in BOOLEAN,
         ecuTx' = [msg |-> a, sent |-> sent, allowed |-> allowed]
  PROVE  EcuTxType'
<1>1. sent \in Nat BY Constants
<1>2. ecuTx' \in Transmission BY <1>1 DEF Transmission
<1>3. ecuTx'.sent = sent /\ ecuTx'.msg = a OBVIOUS
<1> QED BY <1>2, <1>3 DEF EcuTxType

LEMMA TransmissionFields ==
  ASSUME EcuTxType, ecuTx # Idle
  PROVE  /\ ecuTx.msg \in Answers /\ ecuTx.allowed \in BOOLEAN
         /\ ecuTx.sent \in 1 .. Chunks[ecuTx.msg] - 1
         /\ ecuTx = [msg |-> ecuTx.msg, sent |-> ecuTx.sent, allowed |-> ecuTx.allowed]
<1>1. ecuTx \in Transmission /\ ecuTx.sent \in 1 .. Chunks[ecuTx.msg] - 1 BY DEF EcuTxType
<1>2. ecuTx = [msg |-> ecuTx.msg, sent |-> ecuTx.sent, allowed |-> ecuTx.allowed]
  BY <1>1 DEF Transmission
<1>3. ecuTx.msg \in Answers /\ ecuTx.allowed \in BOOLEAN BY <1>1 DEF Transmission
<1> QED BY <1>1, <1>2, <1>3

LEMMA EnvironmentTypes ==
  ASSUME TypeIInv,
         \/ FcTimePasses \/ CfTimePasses \/ Lose \/ EcuReceives \/ EcuControlsFlow
         \/ EcuAnswers \/ EcuSendsCf \/ EcuGivesUp
  PROVE  TypeIInv'
<1> USE DEF TypeIInv
<1>1. UNCHANGED session /\ UNCHANGED reader /\ SessionType' /\ ReaderType'
  BY DEF FcTimePasses, CfTimePasses, Lose, EcuReceives, EcuControlsFlow, EcuAnswers,
         EcuSendsCf, EcuGivesUp, EcuSends, SessionType, ReaderType
<1>2. CASE FcTimePasses
  <2>1. tx' \in TxMsg /\ tx'.msg = tx.msg /\ tx'.state = tx.state
    BY <1>2 DEF FcTimePasses, TxMsg
  <2> QED BY <1>1, <1>2, <2>1
          DEF FcTimePasses, ecuVars, MsgInv, RxLengths, ToEcuType, FromEcuType, EcuRxType, EcuTxType
<1>3. CASE CfTimePasses
  <2>1. rx' \in RxMsg /\ RxLengths' BY <1>1, <1>3 DEF CfTimePasses, RxMsg, RxLengths
  <2> QED BY <1>1, <1>3, <2>1
          DEF CfTimePasses, ecuVars, MsgInv, ToEcuType, FromEcuType, EcuRxType, EcuTxType
<1>4. CASE Lose
  <2>1. FromEcuType' BY <1>4, HeadTaken DEF Lose
  <2>2. tx' \in TxMsg /\ tx'.msg = tx.msg /\ tx'.state = tx.state BY <1>4 DEF Lose, TxMsg
  <2>3. rx' \in RxMsg /\ RxLengths' BY <1>1, <1>4 DEF Lose, RxMsg, RxLengths
  <2> QED BY <1>1, <1>4, <2>1, <2>2, <2>3 DEF Lose, ecuVars, MsgInv, ToEcuType, EcuRxType, EcuTxType
<1>5. CASE EcuReceives
  <2>1. /\ UNCHANGED <<tx, rx, fromEcu>> /\ tx' \in TxMsg /\ rx' \in RxMsg /\ FromEcuType'
        /\ MsgInv' /\ RxLengths'
    BY <1>1, <1>5 DEF EcuReceives, FromEcuType, MsgInv, RxLengths
  <2>2. ToEcuType' /\ Head(toEcu) \in BridgeFrames
    BY <1>5, TailFacts, Constants DEF EcuReceives, ToEcuType
  <2>3. ASSUME NEW f \in BridgeFrames, NEW count \in Nat, NEW bs \in BlockSizes \cup {0},
               NEW owes \in BOOLEAN, f.type # "FC", EcuStarts(f, count, bs, owes)
        PROVE  EcuRxType' /\ EcuTxType'
    <3>1. f.chunk \in Requests \X Nat BY <2>3, BridgeFrameFacts DEF Data
    <3>2. <<f.chunk>> \in Seq(Requests \X Nat) /\ <<f.chunk>> # <<>> BY <3>1
    <3>3. ecuRx' = [count |-> count, got |-> <<f.chunk>>, bs |-> bs, owes |-> owes]
      BY <2>3 DEF EcuStarts
    <3>4. EcuRxType' BY <3>2, <3>3, ReceptionMade
    <3> QED BY <2>3, <3>4 DEF EcuStarts, EcuTxType
  <2>10. PICK f \in BridgeFrames : f = Head(toEcu) BY <2>2
  <2>4. ASSUME f.type = "SF" /\ EcuStarts(f, 1, 0, FALSE)
       PROVE  EcuRxType' /\ EcuTxType'
    <3>1. 1 \in Nat /\ 0 \in BlockSizes \cup {0} /\ FALSE \in BOOLEAN /\ f.type # "FC" BY <2>4
    <3> QED BY <2>3, <2>4, <3>1
  <2>5. ASSUME f.type = "FF" /\ \E bs \in BlockSizes : EcuStarts(f, f.count, bs, TRUE)
       PROVE  EcuRxType' /\ EcuTxType'
    <3>1. f.count \in 2 .. LenWrap BY <2>5, BridgeFrameFacts
    <3>2. f.count \in Nat /\ f.type # "FC" /\ TRUE \in BOOLEAN BY <2>5, <3>1, Constants
    <3>3. PICK bs \in BlockSizes \cup {0} : EcuStarts(f, f.count, bs, TRUE) BY <2>5
    <3> QED BY <2>3, <3>2, <3>3
  <2>6. ASSUME f.type = "CF" /\ Receiving /\ EcuTakesCf(f) /\ UNCHANGED ecuTx
       PROVE  EcuRxType' /\ EcuTxType'
    <3>1. f.chunk \in Requests \X Nat BY <2>6, BridgeFrameFacts DEF Data
    <3>2. ecuRx # Idle BY <2>6 DEF Receiving
    <3> DEFINE got == Append(ecuRx.got, f.chunk)
    <3>3. got \in Seq(Requests \X Nat) /\ got # <<>>
      <4>1. ecuRx.got \in Seq(Requests \X Nat) BY <3>2, ReceptionFields
      <4>2. Len(got) = Len(ecuRx.got) + 1 /\ Len(ecuRx.got) \in Nat /\ got \in Seq(Requests \X Nat)
        BY <3>1, <4>1, AppendFacts
      <4>3. Len(got) # 0 BY <4>2
      <4> QED BY <4>2, <4>3, EmptySeq
    <3>4. \/ \E owes \in BOOLEAN : ecuRx' = [ecuRx EXCEPT !.got = got, !.owes = owes]
          \/ ecuRx' = Idle
      BY <2>6 DEF EcuTakesCf
    <3> HIDE DEF got
    <3>5. EcuRxType'
      <4>1. CASE ecuRx' = Idle BY <4>1 DEF EcuRxType
      <4>2. ASSUME NEW owes \in BOOLEAN, ecuRx' = [ecuRx EXCEPT !.got = got, !.owes = owes]
            PROVE  EcuRxType'
        <5>1. ecuRx' = [count |-> ecuRx.count, got |-> got, bs |-> ecuRx.bs, owes |-> owes]
          <6>1. ecuRx = [count |-> ecuRx.count, got |-> ecuRx.got, bs |-> ecuRx.bs,
                         owes |-> ecuRx.owes]
            BY <3>2, ReceptionFields
          <6> QED BY <4>2, <6>1
        <5>2. ecuRx.count \in Nat /\ ecuRx.bs \in BlockSizes \cup {0} BY <3>2, ReceptionFields
        <5> QED BY <3>3, <5>1, <5>2, ReceptionMade
      <4> QED BY <3>4, <4>1, <4>2
    <3> QED BY <2>6, <3>5 DEF EcuTxType
  <2>7. ASSUME ecuTx # Idle /\ ecuTx' = [ecuTx EXCEPT !.allowed = TRUE] /\ UNCHANGED ecuRx
       PROVE  EcuRxType' /\ EcuTxType'
    <3>1. /\ ecuTx = [msg |-> ecuTx.msg, sent |-> ecuTx.sent, allowed |-> ecuTx.allowed]
          /\ ecuTx.msg \in Answers /\ ecuTx.sent \in 1 .. Chunks[ecuTx.msg] - 1
      BY <2>7, TransmissionFields
    <3>3. ecuTx' = [msg |-> ecuTx.msg, sent |-> ecuTx.sent, allowed |-> TRUE] BY <2>7, <3>1
    <3>2. EcuTxType' BY <3>1, <3>3, TransmissionMade
    <3> QED BY <2>7, <3>2 DEF EcuRxType
  <2>8. ASSUME UNCHANGED ecuVars
       PROVE  EcuRxType' /\ EcuTxType'
    <3>1. ecuRx' = ecuRx /\ ecuTx' = ecuTx BY <2>8 DEF ecuVars
    <3> QED BY <3>1 DEF EcuRxType, EcuTxType
  <2>9. EcuRxType' /\ EcuTxType'
    BY <1>5, <2>10, <2>4, <2>5, <2>6, <2>7, <2>8 DEF EcuReceives
  <2> QED BY <1>1, <2>1, <2>2, <2>9
<1>6. ASSUME NEW f \in EcuFrames, EcuSends(f)
      PROVE  /\ tx' \in TxMsg /\ rx' \in RxMsg /\ ToEcuType' /\ FromEcuType'
             /\ MsgInv' /\ RxLengths'
  BY <1>1, <1>6, EcuSendsTypes DEF EcuSends, ToEcuType, MsgInv, RxLengths
<1>7. CASE EcuControlsFlow
  <2>1. ecuRx \in Reception /\ ecuRx.bs \in BlockSizes \cup {0}
    BY <1>7 DEF EcuControlsFlow, Receiving, EcuRxType, Reception
  <2>2. PICK status \in Statuses : EcuSends(Fc(status, ecuRx.bs)) BY <1>7 DEF EcuControlsFlow
  <2>3. Fc(status, ecuRx.bs) \in EcuFrames BY <2>1, FramesMade
  <2>4. EcuTxType' BY <1>7 DEF EcuControlsFlow, EcuTxType
  <2>5. ecuRx' = Idle \/ ecuRx' = ecuRx \/ ecuRx' = [ecuRx EXCEPT !.owes = FALSE]
    BY <1>7 DEF EcuControlsFlow
  <2>6. EcuRxType'
    <3>1. ecuRx # Idle BY <1>7 DEF EcuControlsFlow, Receiving
    <3>2. CASE ecuRx' = [ecuRx EXCEPT !.owes = FALSE]
      <4>1. ecuRx' = [count |-> ecuRx.count, got |-> ecuRx.got, bs |-> ecuRx.bs, owes |-> FALSE]
        <5>1. ecuRx = [count |-> ecuRx.count, got |-> ecuRx.got, bs |-> ecuRx.bs,
                       owes |-> ecuRx.owes]
          BY <3>1, ReceptionFields
        <5> QED BY <3>2, <5>1
      <4>2. /\ ecuRx.count \in Nat /\ ecuRx.got \in Seq(Requests \X Nat) /\ ecuRx.got # <<>>
            /\ ecuRx.bs \in BlockSizes \cup {0} /\ FALSE \in BOOLEAN
        BY <3>1, ReceptionFields
      <4> QED BY <4>1, <4>2, ReceptionMade
    <3>3. CASE ecuRx' = Idle \/ ecuRx' = ecuRx BY <3>3 DEF EcuRxType
    <3> QED BY <2>5, <3>2, <3>3
  <2> QED BY <1>1, <1>6, <2>2, <2>3, <2>4, <2>6
<1>8. CASE EcuAnswers
  <2>1. ecuRx \in Reception /\ ecuRx.got # <<>> /\ ecuRx.got \in Seq(Requests \X Nat)
    BY <1>8 DEF EcuAnswers, Received, EcuRxType, Reception
  <2>2. ecuRx.got[1] \in Requests \X Nat BY <2>1, TailFacts
  <2>3. PICK a \in Answer[ecuRx.got[1][1]] :
          IF Chunks[a] = 1
          THEN EcuSends(Sf(a)) /\ ecuTx' = Idle
          ELSE EcuSends(Ff(a, Chunks[a])) /\ ecuTx' = [msg |-> a, sent |-> 1, allowed |-> FALSE]
    BY <1>8 DEF EcuAnswers
  <2>4. a \in Answers BY <2>2, <2>3 DEF Answers
  <2>5. EcuRxType' BY <1>8 DEF EcuAnswers, EcuRxType
  <2>6. CASE Chunks[a] = 1
    BY <1>1, <1>6, <2>3, <2>4, <2>5, <2>6, FramesMade DEF EcuTxType
  <2>7. CASE Chunks[a] # 1
    <3>1. 1 \in 1 .. Chunks[a] - 1 BY <2>4, <2>7, Constants
    <3>2. EcuTxType'
      <4>1. ecuTx' = [msg |-> a, sent |-> 1, allowed |-> FALSE] /\ FALSE \in BOOLEAN
        BY <2>3, <2>7
      <4> QED BY <2>4, <3>1, <4>1, TransmissionMade
    <3> QED BY <1>1, <1>6, <2>3, <2>4, <2>5, <2>7, <3>2, FramesMade
  <2> QED BY <2>6, <2>7
<1>9. CASE EcuSendsCf
  <2>1. ecuTx \in Transmission /\ ecuTx.sent \in 1 .. Chunks[ecuTx.msg] - 1
        /\ ecuTx.msg \in Answers
    BY <1>9 DEF EcuSendsCf, EcuTxType, Transmission
  <2>2. Chunks[ecuTx.msg] \in 1 .. LenWrap /\ LenWrap \in Nat BY <2>1, Constants
  <2>3. ecuTx.sent + 1 \in 1 .. LenWrap /\ ecuTx.sent \in Nat BY <2>1, <2>2
  <2>4. (ecuTx.sent % SeqModulus) \in Nat
    <3>1. (ecuTx.sent % SeqModulus) \in 0 .. SeqModulus - 1 BY <2>3, Constants
    <3> QED BY <3>1
  <2>5. Cf(ecuTx.msg, ecuTx.sent + 1, ecuTx.sent % SeqModulus) \in EcuFrames
    BY <2>1, <2>3, <2>4, FramesMade
  <2>6. EcuRxType' BY <1>9 DEF EcuSendsCf, EcuRxType
  <2>7. EcuTxType'
    <3>1. CASE ecuTx.sent + 1 = Chunks[ecuTx.msg] BY <1>9, <3>1 DEF EcuSendsCf, EcuTxType
    <3>2. CASE ecuTx.sent + 1 # Chunks[ecuTx.msg]
      <4>1. ecuTx' = [ecuTx EXCEPT !.sent = @ + 1] BY <1>9, <3>2 DEF EcuSendsCf
      <4>2. ecuTx.sent + 1 \in 1 .. Chunks[ecuTx.msg] - 1 BY <2>1, <2>2, <3>2
      <4> QED BY <2>1, <2>3, <4>1, <4>2 DEF EcuTxType, Transmission
    <3> QED BY <3>1, <3>2
  <2> QED BY <1>1, <1>6, <1>9, <2>5, <2>6, <2>7 DEF EcuSendsCf
<1>10. CASE EcuGivesUp
  BY <1>1, <1>10 DEF EcuGivesUp, EcuRxType, EcuTxType, MsgInv, RxLengths, ToEcuType, FromEcuType
<1> QED BY <1>2, <1>3, <1>4, <1>5, <1>7, <1>8, <1>9, <1>10

LEMMA NextTypes == TypeIInv /\ [Next]_vars => TypeIInv'
BY StutterTypes, ClientTypes, ReceiverTypes, SenderTypes, EnvironmentTypes
   DEF Next, Reader, Environment

-----------------------------------------------------------------------------
(* The receiving side.                                                     *)

LEMMA TypeFacts ==
  ASSUME TypeIInv
  PROVE  /\ rx.buffer \in Seq(Content) /\ rx.rest \in Nat /\ rx.seq \in Nat
         /\ Spoilt \in BOOLEAN /\ rx.state \in RxStates
         /\ reader.pc = "rcv_cf" =>
              /\ reader.frame \in EcuFrames /\ reader.frame.type = "CF"
              /\ reader.frame.chunk \in Chunk
              /\ reader.frame.chunk = <<reader.frame.chunk[1], reader.frame.chunk[2]>>
         /\ Len(rx.buffer) \in Nat
         /\ fromEcu \in Seq(EcuFrames) /\ Len(fromEcu) \in Nat
         /\ \A i \in 1 .. Len(fromEcu) : fromEcu[i] \in EcuFrames
<1> USE DEF TypeIInv
<1>1. /\ rx.buffer \in Seq(Content) /\ rx.rest \in Nat /\ rx.seq \in Nat
      /\ Spoilt \in BOOLEAN /\ rx.state \in RxStates
  BY DEF RxMsg, Content, Spoilt
<1>2. reader.pc = "rcv_cf" => reader.frame \in EcuFrames /\ reader.frame.type = "CF"
  BY DEF ReaderType
<1>3. reader.pc = "rcv_cf" =>
        /\ reader.frame.chunk \in Chunk
        /\ reader.frame.chunk = <<reader.frame.chunk[1], reader.frame.chunk[2]>>
  BY <1>2, EcuFrameFacts DEF Data
<1>4. fromEcu \in Seq(EcuFrames) BY DEF FromEcuType
<1>5. /\ Len(rx.buffer) \in Nat /\ Len(fromEcu) \in Nat
      /\ \A i \in 1 .. Len(fromEcu) : fromEcu[i] \in EcuFrames
  BY <1>1, <1>4, LenProperties, ElementOfSeq
<1> QED BY <1>1, <1>2, <1>3, <1>4, <1>5

(* What arrived last.                                                      *)
LEMMA BufferNotEmpty ==
  ASSUME TypeIInv, AssembledInv, Arriving
  PROVE  /\ Len(rx.buffer) \in Nat \ {0} /\ Arrived \in Content
         /\ Arrived[2] \in Nat /\ Arrived = <<Arrived[1], Arrived[2]>>
         /\ rx.seq = Len(rx.buffer) /\ rx.rest > 0
<1>1. /\ Len(rx.buffer) = rx.seq /\ rx.rest > 0 /\ rx.rest \in Nat
      /\ Len(rx.buffer) \in Nat /\ rx.buffer \in Seq(Content)
  BY TypeFacts DEF TypeIInv, RxLengths, Arriving
<1>2. rx.buffer # <<>> BY DEF AssembledInv
<1>3. Len(rx.buffer) # 0 BY <1>1, <1>2, EmptySeq
<1>4. Len(rx.buffer) \in 1 .. Len(rx.buffer) BY <1>1, <1>3
<1>5. Arrived \in Content BY <1>1, <1>4, ElementOfSeq DEF Arrived
<1>6. Arrived[2] \in 0 .. LenWrap + 1 /\ Arrived = <<Arrived[1], Arrived[2]>>
  BY <1>5, Constants DEF Content, Chunk, Foreign
<1> QED BY <1>1, <1>3, <1>5, <1>6, Constants

LEMMA InHandType ==
  ASSUME TypeIInv, AssembledInv, Arriving
  PROVE  InHand[2] \in Nat
<1>1. CASE reader.pc = "rcv_cf"
  <2>1. reader.frame.chunk[2] \in Nat BY <1>1, TypeFacts, EcuFrameFacts DEF Data
  <2> QED BY <1>1, <2>1 DEF InHand
<1>2. CASE reader.pc # "rcv_cf" BY <1>2, BufferNotEmpty DEF InHand
<1> QED BY <1>1, <1>2

(* The bus towards the bridge, and the ECU, when a frame is taken.         *)
LEMMA UnderwayBehind ==
  ASSUME TypeIInv, UnderwayInv, EcuTxInv, fromEcu # <<>>, fromEcu' = Tail(fromEcu)
  PROVE  /\ UnderwayInv'
         /\ ecuTx # Idle =>
              \A i \in 1 .. Len(fromEcu') :
                Last(fromEcu', i) => /\ fromEcu'[i].type \in {"FF", "CF"}
                                     /\ fromEcu'[i].chunk = <<ecuTx.msg, ecuTx.sent>>
<1>1. fromEcu \in Seq(EcuFrames) BY TypeFacts
<1>2. /\ Len(fromEcu) \in Nat \ {0} /\ Len(fromEcu') = Len(fromEcu) - 1
      /\ \A i \in 1 .. Len(fromEcu) - 1 : fromEcu'[i] = fromEcu[i + 1]
  BY <1>1, TailFacts
<1>3. \A i \in 1 .. Len(fromEcu') :
        i + 1 \in 1 .. Len(fromEcu) /\ fromEcu'[i] = fromEcu[i + 1]
  BY <1>2
<1>4. Chained(fromEcu') /\ \A i \in 1 .. Len(fromEcu') :
                              Last(fromEcu', i) => Last(fromEcu, i + 1)
  BY <1>1, ChainOfTail DEF UnderwayInv
<1>5. \A i \in 1 .. Len(fromEcu') : Fits(fromEcu'[i]) BY <1>3 DEF UnderwayInv
<1>6. UnderwayInv' BY <1>4, <1>5 DEF UnderwayInv
<1> QED BY <1>3, <1>4, <1>6 DEF EcuTxInv

(* Steps that neither take nor send a frame of the ECU.                    *)
LEMMA RxQuiet ==
  ASSUME TypeIInv, RxIInv,
         rx'.buffer = rx.buffer, rx'.rest = rx.rest, fromEcu' = fromEcu,
         Spoilt' \/ (session.connected => session'.connected),
         \/ Spoilt'
         \/ ~Spoilt /\ rx'.state = rx.state
         \/ ~Spoilt /\ rx'.state = "IDLE" /\ reader'.pc # "rcv_cf",
         \/ reader' = reader
         \/ (reader.pc # "rcv_cf" \/ rx'.state = "IDLE") /\ reader'.pc # "rcv_cf",
         \/ ecuTx' = Idle
         \/ ecuTx # Idle /\ ecuTx'.msg = ecuTx.msg /\ ecuTx'.sent = ecuTx.sent
  PROVE  RxIInv'
<1> USE DEF RxIInv
<1>1. Arriving' => Arriving BY DEF Arriving
<1>2. Arrived' = Arrived /\ (Arriving' => InHand' = InHand)
  BY DEF Arriving, Arrived, InHand
<1>3. AssembledInv' BY <1>1, <1>2 DEF AssembledInv, Arriving, Assembled
<1>4. InHandInv'
  <2> SUFFICES ASSUME (reader.pc = "rcv_cf" /\ ~Spoilt)'
               PROVE  /\ Arriving' /\ Fits(reader'.frame)
                      /\ reader'.frame.chunk[1] = rx'.buffer[1][1]
                      /\ reader'.frame.chunk[2] > Arrived'[2]
    BY DEF InHandInv
  <2>1. reader' = reader /\ ~Spoilt /\ rx'.state = rx.state OBVIOUS
  <2> QED BY <1>2, <2>1 DEF InHandInv, Arriving
<1>5. UnderwayInv' BY DEF UnderwayInv
<1>6. NextIsLater' BY <1>1, <1>2 DEF NextIsLater
<1>7. EcuTxInv' BY <1>1, <1>2 DEF EcuTxInv
<1>8. RxWhole' BY DEF RxWhole, Spoilt
<1> QED BY <1>3, <1>4, <1>5, <1>6, <1>7, <1>8

(* A frame of the ECU is taken from the bus and does not change what is    *)
(* assembled: it is lost, diverted, a flow control frame, or too late.     *)
LEMMA RxTaken ==
  ASSUME TypeIInv, RxIInv, fromEcu # <<>>, fromEcu' = Tail(fromEcu), ecuTx' = ecuTx,
         rx'.buffer = rx.buffer, rx'.rest = rx.rest,
         session.connected => session'.connected,
         \/ Spoilt'
         \/ ~Spoilt /\ rx'.state = rx.state
         \/ ~Spoilt /\ rx'.state = "IDLE" /\ reader'.pc # "rcv_cf",
         reader' = reader \/ (reader.pc # "rcv_cf" /\ reader'.pc # "rcv_cf"),
         Arriving' => fromEcu[1].type # "FF"
  PROVE  RxIInv'
<1> USE DEF RxIInv
<1> DEFINE q == fromEcu
           t == fromEcu'
<1>1. Arriving' => Arriving BY DEF Arriving
<1>2. Arrived' = Arrived /\ InHand' = InHand BY DEF Arrived, InHand
<1>3. AssembledInv' BY <1>1, <1>2 DEF AssembledInv, Arriving, Assembled
<1>4. InHandInv'
  <2> SUFFICES ASSUME (reader.pc = "rcv_cf" /\ ~Spoilt)'
               PROVE  /\ Arriving' /\ Fits(reader'.frame)
                      /\ reader'.frame.chunk[1] = rx'.buffer[1][1]
                      /\ reader'.frame.chunk[2] > Arrived'[2]
    BY DEF InHandInv
  <2>1. reader' = reader /\ ~Spoilt /\ rx'.state = rx.state OBVIOUS
  <2> QED BY <1>2, <2>1 DEF InHandInv, Arriving
<1>5. /\ q \in Seq(EcuFrames) /\ Len(q) \in Nat \ {0} /\ 1 \in 1 .. Len(q)
      /\ q[1] \in EcuFrames /\ q[1].type \in {"SF", "FF", "CF", "FC"}
      /\ Len(t) = Len(q) - 1 /\ \A i \in 1 .. Len(t) : i + 1 \in 1 .. Len(q) /\ t[i] = q[i + 1]
  BY TypeFacts, TailFacts, EcuFrameFacts
<1>6. /\ \A i \in 1 .. Len(t) :
           /\ First(t, i) /\ ~Data(q[1]) => First(q, i + 1)
           /\ First(t, i) /\ t[i].type = "CF" /\ Data(q[1]) => Follows(q[1], t[i])
      /\ NoData(t) /\ ~Data(q[1]) => NoData(q)
      /\ NoData(t) /\ Data(q[1]) => Last(q, 1)
  BY <1>5, ChainOfTail DEF UnderwayInv
<1>7. ASSUME Arriving', q[1].type = "CF"
      PROVE  /\ q[1].chunk[1] = rx.buffer[1][1] /\ q[1].chunk[2] > InHand[2]
             /\ q[1].chunk[2] \in Nat
  <2>1. First(q, 1) BY <1>5, <1>7 DEF First, Data
  <2>2. q[1].chunk[2] \in Nat BY <1>5, <1>7, EcuFrameFacts DEF Data
  <2> QED BY <1>1, <1>5, <1>7, <2>1, <2>2 DEF NextIsLater
<1>8. ASSUME Arriving' PROVE InHand[2] \in Nat BY <1>1, <1>8, InHandType
<1>9. NextIsLater'
  <2> SUFFICES ASSUME Arriving', NEW i \in 1 .. Len(t), First(t, i), t[i].type = "CF"
               PROVE  t[i].chunk[1] = rx.buffer[1][1] /\ t[i].chunk[2] > InHand[2]
    BY <1>2 DEF NextIsLater
  <2>1. CASE ~Data(q[1]) BY <1>1, <1>5, <1>6, <2>1 DEF NextIsLater
  <2>2. CASE Data(q[1])
    <3>1. q[1].type = "CF" /\ t[i].chunk = <<q[1].chunk[1], q[1].chunk[2] + 1>>
      BY <1>6, <2>2 DEF Follows
    <3> QED BY <1>7, <1>8, <3>1
  <2> QED BY <2>1, <2>2
<1>10. EcuTxInv'
  <2>1. ASSUME ecuTx # Idle, NoData(t), Arriving'
        PROVE  rx.buffer[1][1] = ecuTx.msg /\ InHand[2] <= ecuTx.sent
    <3>1. CASE ~Data(q[1]) BY <1>1, <1>6, <2>1, <3>1 DEF EcuTxInv
    <3>2. CASE Data(q[1])
      <4>1. q[1].type \in {"FF", "CF"} /\ q[1].chunk = <<ecuTx.msg, ecuTx.sent>>
        BY <1>5, <1>6, <2>1, <3>2 DEF EcuTxInv
      <4>2. q[1].type = "CF" BY <2>1, <4>1
      <4> QED BY <1>7, <1>8, <2>1, <4>1, <4>2
    <3> QED BY <3>1, <3>2
  <2> QED BY <1>2, <2>1, UnderwayBehind DEF EcuTxInv
<1>11. UnderwayInv' BY UnderwayBehind
<1>12. RxWhole' BY DEF RxWhole, Spoilt
<1> QED BY <1>3, <1>4, <1>9, <1>10, <1>11, <1>12

(* Steps of the ECU that send a frame.                                     *)
LEMMA RxSent ==
  ASSUME TypeIInv, RxIInv, UNCHANGED <<session, rx, reader>>,
         NEW f \in EcuFrames, fromEcu' = Append(fromEcu, f), Fits(f),
         f.type = "CF" => ecuTx # Idle /\ f.chunk = <<ecuTx.msg, ecuTx.sent + 1>>,
         ecuTx' # Idle =>
           \/ ~Data(f) /\ ecuTx' = ecuTx
           \/ f.type \in {"FF", "CF"} /\ f.chunk = <<ecuTx'.msg, ecuTx'.sent>>
  PROVE  RxIInv'
<1> USE DEF RxIInv
<1> DEFINE q == fromEcu
           t == fromEcu'
<1>1. Arriving' = Arriving /\ Arrived' = Arrived /\ InHand' = InHand /\ Spoilt' = Spoilt
  BY DEF Arriving, Arrived, InHand, Spoilt
<1>2. AssembledInv' /\ InHandInv' /\ RxWhole'
  BY <1>1 DEF AssembledInv, Assembled, InHandInv, RxWhole
<1>3. /\ q \in Seq(EcuFrames) /\ Len(q) \in Nat /\ Len(t) = Len(q) + 1
      /\ \A i \in 1 .. Len(q) : t[i] = q[i]
      /\ t[Len(q) + 1] = f
  BY TypeFacts, AppendFacts
<1>4. ASSUME f.type = "CF", NEW i \in 1 .. Len(q), Last(q, i) PROVE Follows(q[i], f)
  <2>1. q[i].type \in {"FF", "CF"} /\ q[i].chunk = <<ecuTx.msg, ecuTx.sent>>
    BY <1>4 DEF EcuTxInv
  <2> QED BY <1>4, <2>1 DEF Follows
<1>5. /\ Chained(t)
      /\ \A i \in 1 .. Len(t) :
           /\ First(t, i) =>
                \/ i \in 1 .. Len(q) /\ First(q, i) /\ t[i] = q[i]
                \/ i = Len(q) + 1 /\ NoData(q) /\ t[i] = f
           /\ Last(t, i) =>
                \/ Data(f) /\ t[i] = f
                \/ ~Data(f) /\ i \in 1 .. Len(q) /\ Last(q, i) /\ t[i] = q[i]
      /\ NoData(t) <=> NoData(q) /\ ~Data(f)
  BY <1>3, <1>4, ChainOfAppend DEF UnderwayInv
<1>6. UnderwayInv'
  <2>1. \A i \in 1 .. Len(t) : i \in 1 .. Len(q) \/ i = Len(q) + 1 BY <1>3
  <2>2. \A i \in 1 .. Len(t) : Fits(t[i]) BY <1>3, <2>1 DEF UnderwayInv
  <2> QED BY <1>5, <2>2 DEF UnderwayInv
<1>7. NextIsLater'
  <2> SUFFICES ASSUME Arriving, NEW i \in 1 .. Len(t), First(t, i), t[i].type = "CF"
               PROVE  t[i].chunk[1] = rx.buffer[1][1] /\ t[i].chunk[2] > InHand[2]
    BY <1>1 DEF NextIsLater
  <2>1. CASE i \in 1 .. Len(q) /\ First(q, i) /\ t[i] = q[i] BY <2>1 DEF NextIsLater
  <2>2. CASE NoData(q) /\ t[i] = f
    <3>1. /\ ecuTx # Idle /\ f.chunk = <<ecuTx.msg, ecuTx.sent + 1>>
          /\ rx.buffer[1][1] = ecuTx.msg /\ InHand[2] <= ecuTx.sent
      BY <2>2 DEF EcuTxInv
    <3>2. InHand[2] \in Nat BY InHandType
    <3>3. ecuTx.sent \in Nat BY <3>1, Constants, TransmissionFields DEF TypeIInv
    <3> QED BY <2>2, <3>1, <3>2, <3>3
  <2> QED BY <1>5, <2>1, <2>2
<1>8. EcuTxInv'
  <2> SUFFICES ASSUME ecuTx' # Idle
               PROVE  /\ \A i \in 1 .. Len(t) :
                           Last(t, i) => /\ t[i].type \in {"FF", "CF"}
                                         /\ t[i].chunk = <<ecuTx'.msg, ecuTx'.sent>>
                      /\ NoData(t) /\ Arriving =>
                           rx.buffer[1][1] = ecuTx'.msg /\ InHand[2] <= ecuTx'.sent
    BY <1>1 DEF EcuTxInv
  <2>1. CASE ~Data(f) /\ ecuTx' = ecuTx BY <1>5, <2>1 DEF EcuTxInv
  <2>2. CASE f.type \in {"FF", "CF"} /\ f.chunk = <<ecuTx'.msg, ecuTx'.sent>>
    BY <1>5, <2>2 DEF Data
  <2> QED BY <2>1, <2>2
<1> QED BY <1>2, <1>6, <1>7, <1>8

LEMMA RxSf == TypeIInv /\ RxIInv /\ ReceiveSf => RxIInv'
<1> SUFFICES ASSUME TypeIInv, RxIInv, ReceiveSf PROVE RxIInv' OBVIOUS
<1> USE DEF RxIInv
<1> DEFINE f == Head(fromEcu)
           a == f.chunk[1]
<1>1. /\ fromEcu # <<>> /\ fromEcu' = Tail(fromEcu) /\ f.type = "SF"
      /\ rx'.buffer = <<f.chunk>> /\ rx'.state = "FINISHED"
      /\ reader'.pc = "process" /\ ecuTx' = ecuTx
  BY DEF ReceiveSf, Take, At, ecuVars, TypeIInv, RxMsg
<1>2. f = fromEcu[1] /\ f \in EcuFrames /\ 1 \in 1 .. Len(fromEcu)
  BY <1>1, TypeFacts, TailFacts
<1>3. a \in Answers /\ f.chunk = <<a, f.chunk[2]>> BY <1>1, <1>2, EcuFrameFacts DEF Data
<1>4. f.chunk[2] = 1 /\ Chunks[a] = 1 BY <1>1, <1>2 DEF UnderwayInv, Fits
<1>5. ~Arriving' BY <1>1 DEF Arriving
<1>6. AssembledInv' /\ InHandInv' /\ NextIsLater'
  BY <1>1, <1>5 DEF AssembledInv, InHandInv, NextIsLater
<1>7. UnderwayInv' /\ EcuTxInv' BY <1>1, <1>5, UnderwayBehind DEF EcuTxInv
<1>8. RxWhole'
  <2>1. Whole(a) = <<<<a, 1>>>> BY <1>4 DEF Whole
  <2>2. rx'.buffer = Whole(a) BY <1>1, <1>3, <1>4, <2>1
  <2> QED BY <1>3, <2>2 DEF RxWhole, WholeMessages
<1> QED BY <1>6, <1>7, <1>8

LEMMA RxFf == TypeIInv /\ RxIInv /\ ReceiveFf => RxIInv'
<1> SUFFICES ASSUME TypeIInv, RxIInv, ReceiveFf PROVE RxIInv' OBVIOUS
<1> USE DEF RxIInv
<1> DEFINE q == fromEcu
           t == fromEcu'
           f == q[1]
           a == f.chunk[1]
<1>1. /\ q # <<>> /\ t = Tail(q) /\ Head(q).type = "FF" /\ session.connected
      /\ rx'.buffer = <<Head(q).chunk>> /\ rx'.state = "WAIT_DATA"
      /\ rx'.rest = Head(q).count - 1
      /\ reader'.pc = "process" /\ ecuTx' = ecuTx /\ session' = session
  BY DEF ReceiveFf, StartReceiving, Take, At, ecuVars, TypeIInv, RxMsg
<1>2. /\ f = Head(q) /\ f \in EcuFrames /\ q \in Seq(EcuFrames) /\ 1 \in 1 .. Len(q)
      /\ Len(q) \in Nat \ {0} /\ Len(t) = Len(q) - 1
  BY <1>1, TypeFacts, TailFacts
<1>3. /\ a \in Answers /\ f.chunk = <<a, f.chunk[2]>> /\ f.count \in 2 .. LenWrap
      /\ f.type = "FF" /\ Data(f)
  BY <1>1, <1>2, EcuFrameFacts DEF Data
<1>4. f.chunk[2] = 1 /\ Chunks[a] = f.count BY <1>1, <1>2 DEF UnderwayInv, Fits
<1>5. /\ rx'.buffer = <<<<a, 1>>>> /\ Len(rx'.buffer) = 1 /\ rx'.buffer[1] = <<a, 1>>
      /\ rx'.rest = Chunks[a] - 1
  BY <1>1, <1>2, <1>3, <1>4
<1>6. Arrived' = <<a, 1>> /\ InHand' = <<a, 1>> BY <1>1, <1>5 DEF Arrived, InHand
<1>7. Chunks[a] \in Nat /\ Chunks[a] >= 1 BY <1>3, Constants
<1>8. AssembledInv'
  <2>1. rx'.buffer # <<>> BY <1>5
  <2>2. Assembled(rx'.buffer, a) BY <1>5 DEF Assembled
  <2>3. Chunks[a] = Len(rx'.buffer) + rx'.rest BY <1>5, <1>7
  <2> QED BY <1>1, <1>3, <1>5, <1>6, <1>7, <2>1, <2>2, <2>3 DEF AssembledInv
<1>9. InHandInv' BY <1>1 DEF InHandInv
<1>10. NextIsLater'
  <2> SUFFICES ASSUME NEW i \in 1 .. Len(t), First(t, i), t[i].type = "CF"
               PROVE  t[i].chunk[1] = a /\ t[i].chunk[2] > 1
    BY <1>5, <1>6 DEF NextIsLater
  <2>1. Follows(f, t[i]) BY <1>1, <1>2, <1>3, ChainOfTail DEF UnderwayInv
  <2>2. t[i].chunk = <<a, 2>> BY <1>4, <2>1 DEF Follows
  <2> QED BY <2>2
<1>11. EcuTxInv'
  <2>1. ASSUME ecuTx # Idle, NoData(t) PROVE a = ecuTx.msg /\ 1 <= ecuTx.sent
    <3>1. Last(q, 1) BY <1>1, <1>2, <1>3, <2>1, ChainOfTail
    <3>2. f.chunk = <<ecuTx.msg, ecuTx.sent>> BY <1>2, <2>1, <3>1 DEF EcuTxInv
    <3> QED BY <1>3, <1>4, <3>2
  <2> QED BY <1>1, <1>5, <1>6, <2>1, UnderwayBehind DEF EcuTxInv
<1>12. UnderwayInv' BY <1>1, UnderwayBehind
<1>13. RxWhole' BY <1>1 DEF RxWhole
<1> QED BY <1>8, <1>9, <1>10, <1>11, <1>12, <1>13

LEMMA RxBeginCf == TypeIInv /\ RxIInv /\ BeginCf => RxIInv'
<1> SUFFICES ASSUME TypeIInv, RxIInv, BeginCf PROVE RxIInv' OBVIOUS
<1> USE DEF RxIInv
<1> DEFINE q == fromEcu
           t == fromEcu'
           f == q[1]
<1>1. /\ q # <<>> /\ t = Tail(q) /\ Head(q).type = "CF" /\ session' = session
      /\ reader.pc = "poll" /\ ecuTx' = ecuTx
      /\ rx'.buffer = rx.buffer /\ rx'.rest = rx.rest /\ Spoilt' = Spoilt
      /\ rx'.state = rx.state \/ (rx'.state = "IDLE" /\ CfTimedOut)
  BY DEF BeginCf, Take, ecuVars, TypeIInv, RxMsg, Spoilt
<1>2. /\ f = Head(q) /\ f \in EcuFrames /\ q \in Seq(EcuFrames) /\ 1 \in 1 .. Len(q)
      /\ Len(q) \in Nat \ {0} /\ Len(t) = Len(q) - 1
  BY <1>1, TypeFacts, TailFacts
<1>3. CASE CfTimedOut \/ rx.state # "WAIT_DATA"
  <2>1. reader'.pc = "process" BY <1>3 DEF BeginCf, At
  <2> QED BY <1>1, <1>2, <2>1, RxTaken
<1>4. CASE ~CfTimedOut /\ rx.state = "WAIT_DATA"
  <2>1. reader'.pc = "rcv_cf" /\ reader'.frame = f /\ rx'.state = rx.state
    BY <1>1, <1>2, <1>4 DEF BeginCf, Holding
  <2>2. /\ Arriving' = Arriving /\ Arrived' = Arrived
        /\ InHand = Arrived /\ InHand' = f.chunk
    BY <1>1, <2>1 DEF Arriving, Arrived, InHand
  <2>3. AssembledInv' BY <1>1, <2>2 DEF AssembledInv, Assembled
  <2>4. /\ Data(f) /\ f.chunk[2] \in Nat /\ f.type = "CF"
        /\ f.chunk = <<f.chunk[1], f.chunk[2]>>
    BY <1>1, <1>2, EcuFrameFacts DEF Data
  <2>5. ASSUME Arriving
        PROVE  f.chunk[1] = rx.buffer[1][1] /\ f.chunk[2] > Arrived[2]
    <3>1. First(q, 1) BY <1>2, <2>4 DEF First
    <3> QED BY <1>2, <2>2, <2>4, <2>5, <3>1 DEF NextIsLater
  <2>6. InHandInv'
    <3>1. Fits(f) BY <1>2 DEF UnderwayInv
    <3> QED BY <1>1, <1>4, <2>1, <2>2, <2>5, <3>1 DEF InHandInv, Arriving
  <2>7. NextIsLater'
    <3> SUFFICES ASSUME Arriving, NEW i \in 1 .. Len(t), First(t, i), t[i].type = "CF"
                 PROVE  t[i].chunk[1] = rx.buffer[1][1] /\ t[i].chunk[2] > f.chunk[2]
      BY <1>1, <2>2 DEF NextIsLater
    <3>1. Follows(f, t[i]) BY <1>1, <1>2, <2>4, ChainOfTail DEF UnderwayInv
    <3> QED BY <2>4, <2>5, <3>1 DEF Follows
  <2>8. EcuTxInv'
    <3>1. ASSUME ecuTx # Idle, NoData(t), Arriving
          PROVE  rx.buffer[1][1] = ecuTx.msg /\ f.chunk[2] <= ecuTx.sent
      <4>1. Last(q, 1) BY <1>1, <1>2, <2>4, <3>1, ChainOfTail
      <4>2. f.chunk = <<ecuTx.msg, ecuTx.sent>> BY <1>2, <3>1, <4>1 DEF EcuTxInv
      <4> QED BY <2>4, <2>5, <3>1, <4>2
    <3> QED BY <1>1, <2>2, <3>1, UnderwayBehind DEF EcuTxInv
  <2>9. UnderwayInv' BY <1>1, UnderwayBehind
  <2>10. RxWhole' BY <1>4, <2>1 DEF RxWhole
  <2> QED BY <2>3, <2>6, <2>7, <2>8, <2>9, <2>10
<1> QED BY <1>3, <1>4

(* A message whose chunks are all there is whole: with a chunk missing the *)
(* last one would lie behind the end of the message.  What lies behind the *)
(* end of the buffer spoils it.                                            *)
LEMMA RxEndCf == TypeIInv /\ RxIInv /\ EndCf => RxIInv'
<1> SUFFICES ASSUME TypeIInv, RxIInv, EndCf PROVE RxIInv' OBVIOUS
<1> USE DEF RxIInv
<1> DEFINE f == reader.frame
           b == rx.buffer
           a == b[1][1]
           k == f.chunk[2]
<1>1. /\ reader.pc = "rcv_cf" /\ reader'.pc = "process" /\ session' = session
      /\ fromEcu' = fromEcu /\ ecuTx' = ecuTx
  BY DEF EndCf, At, ecuVars, TypeIInv, RxMsg
<1>2. CASE f.seq # rx.seq % SeqModulus
  <2>1. /\ rx'.buffer = rx.buffer /\ rx'.rest = rx.rest /\ rx'.state = "IDLE"
        /\ Spoilt' = Spoilt
    BY <1>2 DEF EndCf, TypeIInv, RxMsg, Spoilt
  <2> QED BY <1>1, <2>1, TypeFacts, RxQuiet
<1>4. CASE Spoilt'
  <2>1. ~Arriving' BY <1>4 DEF Arriving
  <2> QED BY <1>1, <1>4, <2>1
          DEF AssembledInv, InHandInv, UnderwayInv, NextIsLater, EcuTxInv, RxWhole, Spoilt
<1>3. CASE f.seq = rx.seq % SeqModulus /\ ~Spoilt'
  <2>1. /\ rx'.buffer = Append(b, f.chunk) /\ Spoilt' = Spoilt
        /\ rx'.state = IF rx.rest <= 1 THEN "FINISHED" ELSE rx.state
        /\ rx'.rest = IF rx.rest <= 1 THEN rx.rest ELSE rx.rest - 1
    <3>1. PICK chunk \in Content :
            /\ FitsBuffer => chunk = f.chunk
            /\ rx'.buffer = Append(b, chunk)
            /\ rx'.state = IF rx.rest <= 1 THEN "FINISHED" ELSE rx.state
            /\ rx'.rest = IF rx.rest <= 1 THEN rx.rest ELSE rx.rest - 1
            /\ rx'.broken = rx.broken /\ rx'.overrun = (rx.overrun \/ ~FitsBuffer)
      BY <1>3, CfStored
    <3>2. FitsBuffer /\ ~Spoilt BY <1>3, <3>1 DEF Spoilt
    <3>3. chunk = f.chunk BY <3>1, <3>2
    <3>4. Spoilt' = Spoilt
      <4>1. Spoilt' = FALSE BY <1>3 DEF Spoilt
      <4>2. Spoilt = FALSE BY <3>2 DEF Spoilt
      <4> QED BY <4>1, <4>2
    <3> QED BY <3>1, <3>3, <3>4
  <2>2. /\ f.chunk \in Chunk /\ k \in Nat /\ f.chunk = <<f.chunk[1], k>>
        /\ b \in Seq(Content) /\ Len(b) \in Nat
    BY <1>1, TypeFacts, EcuFrameFacts DEF Data
  <2> DEFINE n == Len(b)
             c == Append(b, f.chunk)
  <2>3. /\ c \in Seq(Content) /\ Len(c) = n + 1 /\ c[n + 1] = f.chunk
        /\ \A i \in 1 .. n : c[i] = b[i]
    BY <2>2, AppendFacts DEF Content
  <2>4. ASSUME ~Spoilt
        PROVE  /\ Arriving /\ n \in Nat \ {0} /\ rx.rest > 0 /\ rx.rest \in Nat
               /\ session.connected /\ a \in Answers /\ Chunks[a] = n + rx.rest
               /\ Fits(f) /\ f.chunk = <<a, k>> /\ k <= Chunks[a]
               /\ c[1][1] = a /\ Assembled(c, a)
    <3>1. Arriving BY <1>1, <2>4 DEF InHandInv
    <3>2. /\ n \in Nat \ {0} /\ rx.rest > 0 /\ rx.rest \in Nat /\ Arrived[2] \in Nat
      BY <3>1, TypeFacts, BufferNotEmpty
    <3>3. /\ session.connected /\ a \in Answers /\ Chunks[a] = n + rx.rest
          /\ Assembled(b, a)
      BY <3>1 DEF AssembledInv
    <3>4. Fits(f) /\ f.chunk[1] = a /\ k > Arrived[2]
      BY <1>1, <2>4 DEF InHandInv
    <3>5. k \in 2 .. Chunks[a] BY <1>1, <3>4, TypeFacts DEF Fits
    <3>6. c[1] = b[1] BY <2>3, <3>2
    <3>7. Assembled(c, a)
      <4>1. CASE \A i \in 1 .. n : b[i] = <<a, i>>
        <5>1. Arrived = <<a, n>> BY <3>2, <4>1 DEF Arrived
        <5>2. k = n + 1 \/ k > n + 1 BY <2>2, <3>2, <3>4, <5>1
        <5>3. CASE k = n + 1
          <6>1. \A i \in 1 .. n + 1 : c[i] = <<a, i>>
            <7> TAKE i \in 1 .. n + 1
            <7>1. i \in 1 .. n \/ i = n + 1 BY <3>2
            <7> QED BY <2>2, <2>3, <3>4, <4>1, <5>3, <7>1
          <6> QED BY <2>3, <6>1 DEF Assembled
        <5>4. CASE k > n + 1 BY <2>3, <5>4 DEF Assembled
        <5> QED BY <5>2, <5>3, <5>4
      <4>2. CASE b[n][2] > n
        <5>1. k > n + 1 BY <2>2, <3>2, <3>4, <4>2 DEF Arrived
        <5> QED BY <2>3, <5>1 DEF Assembled
      <4> QED BY <3>3, <4>1, <4>2 DEF Assembled
    <3> QED BY <2>2, <3>1, <3>2, <3>3, <3>4, <3>5, <3>6, <3>7
  <2> HIDE DEF c
  <2>5. Arrived' = f.chunk /\ InHand' = f.chunk
    <3>1. rx'.buffer = c BY <2>1 DEF c
    <3>2. Arrived' = f.chunk BY <2>3, <3>1 DEF Arrived
    <3> QED BY <1>1, <3>2 DEF InHand
  <2>6. Arriving' => Arriving /\ rx.rest > 1 /\ ~Spoilt /\ rx'.rest = rx.rest - 1
    BY <1>1, <2>1, <2>2, <2>4, TypeFacts DEF Arriving
  <2>7. AssembledInv'
    <3>1. SUFFICES ASSUME Arriving'
                   PROVE  /\ session.connected /\ c # <<>>
                          /\ a \in Answers /\ Chunks[a] = (n + 1) + (rx.rest - 1)
                          /\ f.chunk[1] = a /\ k <= Chunks[a]
                          /\ c[1][1] = a /\ Assembled(c, a)
      <4>1. rx'.buffer = c BY <2>1 DEF c
      <4> QED BY <1>1, <2>3, <2>4, <2>5, <2>6, <4>1 DEF AssembledInv
    <3>2. c # <<>> BY <2>2, <2>3
    <3>3. ~Spoilt BY <2>6, <3>1
    <3>4. Chunks[a] = (n + 1) + (rx.rest - 1)
      <4>1. Chunks[a] = n + rx.rest /\ n \in Nat /\ rx.rest \in Nat BY <2>4, <3>3
      <4> QED BY <4>1
    <3>5. f.chunk[1] = a BY <2>4, <3>3
    <3> QED BY <2>4, <3>1, <3>2, <3>3, <3>4, <3>5
  <2>8. InHandInv' BY <1>1 DEF InHandInv
  <2>9. InHand = f.chunk BY <1>1 DEF InHand
  <2>10. Arriving' => rx'.buffer[1][1] = a BY <2>1, <2>4, <2>6 DEF c
  <2>11. NextIsLater' BY <1>1, <2>5, <2>6, <2>9, <2>10 DEF NextIsLater
  <2>12. EcuTxInv' BY <1>1, <2>5, <2>6, <2>9, <2>10 DEF EcuTxInv
  <2>13. UnderwayInv' BY <1>1 DEF UnderwayInv
  <2>14. RxWhole'
    <3> SUFFICES ASSUME rx'.state = "FINISHED", ~Spoilt
                 PROVE  c \in WholeMessages(Answers)
      BY <1>1, <2>1 DEF RxWhole, Spoilt, c
    <3>1. rx.rest <= 1 BY <2>1, <2>4 DEF Arriving
    <3>2. Chunks[a] = n + 1 BY <2>4, <3>1
    <3>3. \A i \in 1 .. n + 1 : c[i] = <<a, i>>
      <4>1. c[n + 1][2] <= n + 1 /\ c[n + 1][2] \in Nat BY <2>2, <2>3, <2>4, <3>2
      <4> QED BY <2>2, <2>3, <2>4, <4>1 DEF Assembled
    <3>4. c = Whole(a)
      <4>1. c = [i \in 1 .. n + 1 |-> c[i]] BY <2>3
      <4> QED BY <3>2, <3>3, <4>1 DEF Whole
    <3> QED BY <2>4, <3>4 DEF WholeMessages
  <2> QED BY <2>7, <2>8, <2>11, <2>12, <2>13, <2>14
<1> QED BY <1>2, <1>3, <1>4

-----------------------------------------------------------------------------

LEMMA InitRx == Init => RxIInv
<1> SUFFICES ASSUME Init PROVE RxIInv OBVIOUS
<1>1. /\ rx.state = "IDLE" /\ reader.pc = "poll" /\ fromEcu = <<>> /\ ecuTx = Idle
      /\ Len(fromEcu) = 0
  BY EmptySeq DEF Init, At
<1>2. ~Arriving BY <1>1 DEF Arriving
<1>3. Chained(fromEcu) BY <1>1 DEF Chained
<1> QED BY <1>1, <1>2, <1>3
        DEF RxIInv, AssembledInv, InHandInv, UnderwayInv, NextIsLater, EcuTxInv, RxWhole

LEMMA ClientRx == TypeIInv /\ RxIInv /\ Client => RxIInv'
<1> SUFFICES ASSUME TypeIInv, RxIInv, Client PROVE RxIInv' OBVIOUS
<1>1. rx \in RxMsg /\ session \in [connected : BOOLEAN, unsent : SUBSET Requests,
                                   openings : Nat, setIds : Nat, raced : BOOLEAN]
  BY DEF TypeIInv, SessionType
<1>2. /\ UNCHANGED <<fromEcu, reader, ecuTx>>
      /\ rx'.buffer = rx.buffer /\ rx'.rest = rx.rest
      /\ Spoilt' \/ (session.connected => session'.connected)
      /\ Spoilt' \/ (~Spoilt /\ rx'.state = rx.state)
  BY <1>1 DEF Client, OnClientConnected, OnClientDisconnected, Send, SetIds, ecuVars, RxMsg,
              Spoilt
<1>3. \/ ecuTx' = Idle
      \/ ecuTx # Idle /\ ecuTx'.msg = ecuTx.msg /\ ecuTx'.sent = ecuTx.sent
  BY <1>2
<1> QED BY <1>2, <1>3, RxQuiet

LEMMA ReaderRx == TypeIInv /\ RxIInv /\ (Reader \/ OtherFrame) => RxIInv'
<1> SUFFICES ASSUME TypeIInv, RxIInv, Reader \/ OtherFrame PROVE RxIInv' OBVIOUS
<1>1. rx \in RxMsg /\ Spoilt \in BOOLEAN BY TypeFacts DEF TypeIInv
<1>2. CASE Divert
  <2>1. /\ fromEcu # <<>> /\ fromEcu' = Tail(fromEcu) /\ ecuTx' = ecuTx /\ rx' = rx
        /\ session' = session /\ reader' = reader /\ ~session.connected
    BY <1>2 DEF Divert, ecuVars
  <2>2. Spoilt' = Spoilt BY <2>1 DEF Spoilt
  <2>3. ~Arriving' BY <2>1, <2>2 DEF RxIInv, AssembledInv, Arriving
  <2> QED BY <1>1, <2>1, <2>2, <2>3, RxTaken
<1>3. CASE BeginFc
  <2>1. /\ fromEcu # <<>> /\ fromEcu' = Tail(fromEcu) /\ ecuTx' = ecuTx /\ rx' = rx
        /\ session' = session /\ reader.pc = "poll" /\ reader'.pc # "rcv_cf"
        /\ Head(fromEcu).type = "FC"
    BY <1>3 DEF BeginFc, Take, ecuVars, At, Holding
  <2>2. fromEcu[1].type # "FF" BY <2>1, TypeFacts, TailFacts
  <2>3. Spoilt' = Spoilt BY <2>1 DEF Spoilt
  <2> QED BY <1>1, <2>1, <2>2, <2>3, RxTaken
<1>4. ASSUME UNCHANGED <<session, rx, fromEcu, ecuTx>>,
             reader.pc # "rcv_cf" /\ reader'.pc # "rcv_cf"
      PROVE  RxIInv'
  <2>1. \/ ecuTx' = Idle
        \/ ecuTx # Idle /\ ecuTx'.msg = ecuTx.msg /\ ecuTx'.sent = ecuTx.sent
    BY <1>4
  <2>2. Spoilt' \/ (~Spoilt /\ rx'.state = rx.state) BY <1>1, <1>4 DEF Spoilt
  <2> QED BY <1>4, <2>1, <2>2, RxQuiet
<1>5. ASSUME \/ EndFc \/ NothingToSend \/ SendSf \/ EndSend
             \/ (\E accepted \in BOOLEAN : SendFf(accepted))
             \/ EndFf \/ AwaitFirstFc \/ BeginBlock
             \/ (\E accepted \in BOOLEAN : SendCf(accepted)) \/ EndCfSent \/ SendLastCf
             \/ OtherFrame
      PROVE  RxIInv'
  <2>1. UNCHANGED <<session, rx, fromEcu, ecuTx>> /\ reader.pc # "rcv_cf"
    BY <1>5 DEF EndFc, NothingToSend, SendSf, EndSend, SendFf, EndFf, AwaitFirstFc, BeginBlock,
                SendCf, EndCfSent, SendLastCf, OtherFrame, Begin, ecuVars
  <2>2. reader'.pc # "rcv_cf"
    BY <1>5 DEF EndFc, NothingToSend, SendSf, EndSend, SendFf, EndFf, AwaitFirstFc, BeginBlock,
                SendCf, EndCfSent, SendLastCf, OtherFrame, At, LoopTop
  <2> QED BY <1>4, <2>1, <2>2
<1> QED BY <1>2, <1>3, <1>5, RxSf, RxFf, RxBeginCf, RxEndCf DEF Reader

LEMMA EnvironmentRx == TypeIInv /\ RxIInv /\ Environment => RxIInv'
<1> SUFFICES ASSUME TypeIInv, RxIInv, Environment PROVE RxIInv' OBVIOUS
<1>1. rx \in RxMsg /\ Spoilt \in BOOLEAN BY TypeFacts DEF TypeIInv
<1>2. CASE Lose
  <2>1. /\ fromEcu # <<>> /\ fromEcu' = Tail(fromEcu) /\ ecuTx' = ecuTx
        /\ session' = session /\ reader' = reader
        /\ rx'.buffer = rx.buffer /\ rx'.rest = rx.rest /\ rx'.state = rx.state
        /\ Spoilt' \/ (~Spoilt /\ Head(fromEcu).type # "FF")
    BY <1>1, <1>2 DEF Lose, ecuVars, RxMsg, Spoilt
  <2>2. fromEcu[1] = Head(fromEcu) BY <2>1, TypeFacts, TailFacts
  <2> QED BY <2>1, <2>2, RxTaken DEF Arriving
<1>3. ASSUME \/ ecuTx' = Idle
             \/ ecuTx # Idle /\ ecuTx'.msg = ecuTx.msg /\ ecuTx'.sent = ecuTx.sent,
             UNCHANGED <<session, reader, fromEcu>>,
             rx'.buffer = rx.buffer, rx'.rest = rx.rest, rx'.state = rx.state,
             Spoilt' = Spoilt
      PROVE  RxIInv'
  <2>1. Spoilt' \/ (~Spoilt /\ rx'.state = rx.state) BY <1>1, <1>3
  <2> QED BY <1>3, <2>1, RxQuiet
<1>4. CASE FcTimePasses \/ CfTimePasses
  <2>1. /\ UNCHANGED <<session, reader, fromEcu, ecuTx>>
        /\ rx'.buffer = rx.buffer /\ rx'.rest = rx.rest /\ rx'.state = rx.state
        /\ Spoilt' = Spoilt
    BY <1>1, <1>4 DEF FcTimePasses, CfTimePasses, ecuVars, RxMsg, Spoilt
  <2> QED BY <1>3, <2>1
<1>5. CASE EcuReceives
  <2>1. UNCHANGED <<session, rx, reader, fromEcu>> BY <1>5 DEF EcuReceives
  <2>2. \/ ecuTx' = Idle \/ ecuTx' = ecuTx
        \/ ecuTx # Idle /\ ecuTx' = [ecuTx EXCEPT !.allowed = TRUE]
    BY <1>5 DEF EcuReceives, EcuStarts, ecuVars
  <2>3. \/ ecuTx' = Idle
        \/ ecuTx # Idle /\ ecuTx'.msg = ecuTx.msg /\ ecuTx'.sent = ecuTx.sent
    <3>1. ASSUME ecuTx # Idle, ecuTx' = [ecuTx EXCEPT !.allowed = TRUE]
          PROVE  ecuTx'.msg = ecuTx.msg /\ ecuTx'.sent = ecuTx.sent
      <4>1. ecuTx = [msg |-> ecuTx.msg, sent |-> ecuTx.sent, allowed |-> ecuTx.allowed]
        BY <3>1, TransmissionFields DEF TypeIInv
      <4> QED BY <3>1, <4>1
    <3> QED BY <2>2, <3>1
  <2> QED BY <1>3, <2>1, <2>3 DEF Spoilt
<1>6. CASE EcuGivesUp
  <2>1. UNCHANGED <<session, rx, reader, fromEcu>> /\ (ecuTx' = Idle \/ ecuTx' = ecuTx)
    BY <1>6 DEF EcuGivesUp
  <2> QED BY <1>3, <2>1 DEF Spoilt
<1>7. CASE EcuControlsFlow
  <2>1. ecuRx.bs \in BlockSizes \cup {0}
    BY <1>7, ReceptionFields DEF EcuControlsFlow, Receiving, TypeIInv
  <2>2. PICK status \in Statuses : EcuSends(Fc(status, ecuRx.bs)) BY <1>7 DEF EcuControlsFlow
  <2> DEFINE f == Fc(status, ecuRx.bs)
  <2>3. f \in EcuFrames /\ f.type = "FC" BY <2>1, FramesMade, FrameFields
  <2>4. ecuTx' = ecuTx BY <1>7 DEF EcuControlsFlow
  <2>5. fromEcu' = Append(fromEcu, f) /\ UNCHANGED <<session, rx, reader>>
    BY <2>2 DEF EcuSends
  <2>6. Fits(f) /\ ~Data(f) BY <2>3 DEF Fits, Data
  <2> HIDE DEF f
  <2> QED BY <2>3, <2>4, <2>5, <2>6, RxSent
<1>8. CASE EcuAnswers
  <2>1. ecuRx.got \in Seq(Requests \X Nat) /\ ecuRx.got # <<>>
    BY <1>8, ReceptionFields DEF EcuAnswers, Received, TypeIInv
  <2>2. ecuRx.got[1] \in Requests \X Nat BY <2>1, TailFacts
  <2>3. PICK a \in Answer[ecuRx.got[1][1]] :
          IF Chunks[a] = 1
          THEN EcuSends(Sf(a)) /\ ecuTx' = Idle
          ELSE EcuSends(Ff(a, Chunks[a])) /\ ecuTx' = [msg |-> a, sent |-> 1, allowed |-> FALSE]
    BY <1>8 DEF EcuAnswers
  <2>4. a \in Answers BY <2>2, <2>3 DEF Answers
  <2>5. CASE Chunks[a] = 1
    <3>1. /\ Sf(a) \in EcuFrames /\ Sf(a).type = "SF" /\ Sf(a).chunk = <<a, 1>>
          /\ fromEcu' = Append(fromEcu, Sf(a)) /\ UNCHANGED <<session, rx, reader>>
          /\ ecuTx' = Idle
      BY <2>3, <2>4, <2>5, FramesMade, FrameFields DEF EcuSends
    <3>2. Fits(Sf(a)) BY <2>5, <3>1 DEF Fits
    <3> QED BY <3>1, <3>2, RxSent
  <2>6. CASE Chunks[a] # 1
    <3>1. /\ Ff(a, Chunks[a]) \in EcuFrames /\ Ff(a, Chunks[a]).type = "FF"
          /\ Ff(a, Chunks[a]).chunk = <<a, 1>> /\ Ff(a, Chunks[a]).count = Chunks[a]
          /\ fromEcu' = Append(fromEcu, Ff(a, Chunks[a])) /\ UNCHANGED <<session, rx, reader>>
          /\ ecuTx' = [msg |-> a, sent |-> 1, allowed |-> FALSE]
      BY <2>3, <2>4, <2>6, FramesMade, FrameFields DEF EcuSends
    <3>2. Fits(Ff(a, Chunks[a]))
      <4>1. Chunks[a] > 1 BY <2>4, <2>6, Constants
      <4> QED BY <3>1, <4>1 DEF Fits
    <3>3. ecuTx'.msg = a /\ ecuTx'.sent = 1 BY <3>1
    <3> QED BY <3>1, <3>2, <3>3, RxSent
  <2> QED BY <2>5, <2>6
<1>9. CASE EcuSendsCf
  <2> DEFINE a == ecuTx.msg
             n == ecuTx.sent
             f == Cf(a, n + 1, n % SeqModulus)
  <2>1. /\ ecuTx # Idle /\ a \in Answers /\ n \in 1 .. Chunks[a] - 1
        /\ ecuTx = [msg |-> a, sent |-> n, allowed |-> ecuTx.allowed]
    BY <1>9, TransmissionFields DEF EcuSendsCf, TypeIInv
  <2>2. Chunks[a] \in 1 .. LenWrap /\ LenWrap \in Nat BY <2>1, Constants
  <2>3. n \in Nat /\ n + 1 \in 1 .. LenWrap /\ n + 1 \in 2 .. Chunks[a] BY <2>1, <2>2
  <2>4. (n % SeqModulus) \in Nat
    <3>1. (n % SeqModulus) \in 0 .. SeqModulus - 1 BY <2>3, Constants
    <3> QED BY <3>1
  <2>5. /\ f \in EcuFrames /\ f.type = "CF" /\ f.chunk = <<a, n + 1>>
        /\ f.seq = n % SeqModulus
    BY <2>1, <2>3, <2>4, FramesMade, FrameFields
  <2>6. /\ fromEcu' = Append(fromEcu, f) /\ UNCHANGED <<session, rx, reader>>
        /\ ecuTx' = Idle \/ ecuTx' = [ecuTx EXCEPT !.sent = n + 1]
    BY <1>9 DEF EcuSendsCf, EcuSends
  <2>7. ecuTx' # Idle => ecuTx'.msg = a /\ ecuTx'.sent = n + 1 BY <2>1, <2>6
  <2> HIDE DEF f
  <2>8. Fits(f)
    <3>1. (n + 1) - 1 = n BY <2>3
    <3> QED BY <2>3, <2>5, <3>1 DEF Fits
  <2> QED BY <2>1, <2>5, <2>6, <2>7, <2>8, RxSent
<1>10. CASE OtherFrame BY <1>10, ReaderRx
<1> QED BY <1>2, <1>4, <1>5, <1>6, <1>7, <1>8, <1>9, <1>10 DEF Environment

LEMMA NextRx == TypeIInv /\ RxIInv /\ [Next]_vars => RxIInv'
<1> SUFFICES ASSUME TypeIInv, RxIInv, [Next]_vars PROVE RxIInv' OBVIOUS
<1>1. CASE UNCHANGED vars
  <2>1. /\ UNCHANGED <<session, rx, reader, fromEcu, ecuTx>>
        /\ Spoilt' \/ (~Spoilt /\ rx'.state = rx.state)
    BY <1>1, TypeFacts DEF vars, ecuVars, Spoilt
  <2> QED BY <2>1, RxQuiet
<1> QED BY <1>1, ClientRx, ReaderRx, EnvironmentRx DEF Next

(* What is to come fits what was announced, so that rcv_cf leaves the      *)
(* buffer only for an answer that does not fit it.                         *)
TooLong == \E a \in Answers : Chunks[a] > RxCapacity
OverrunInv ==
  /\ rx.state = "WAIT_DATA" \/ reader.pc = "rcv_cf" =>
       rx.rest > 0 /\ \E a \in Answers : Chunks[a] = Len(rx.buffer) + rx.rest
  /\ rx.overrun => TooLong

LEMMA OverrunKept ==
  ASSUME TypeIInv, UnderwayInv, OverrunInv, [Next]_vars
  PROVE  OverrunInv'
<1>1. rx \in RxMsg /\ rx.buffer \in Seq(Content) BY TypeFacts DEF TypeIInv
<1>2. ASSUME rx'.buffer = rx.buffer, rx'.rest = rx.rest, rx'.overrun = rx.overrun,
             rx'.state = "WAIT_DATA" => rx.state = "WAIT_DATA",
             reader'.pc = "rcv_cf" => reader.pc = "rcv_cf" \/ rx.state = "WAIT_DATA"
      PROVE  OverrunInv'
  BY <1>2 DEF OverrunInv, TooLong
<1>3. CASE ReceiveSf
  <2>1. rx'.state = "FINISHED" /\ rx'.overrun = rx.overrun /\ reader'.pc = "process"
    BY <1>1, <1>3 DEF ReceiveSf, At, RxMsg
  <2> QED BY <2>1 DEF OverrunInv, TooLong
<1>4. CASE ReceiveFf
  <2> DEFINE f == Head(fromEcu)
             a == f.chunk[1]
  <2>1. /\ fromEcu # <<>> /\ f.type = "FF" /\ rx'.buffer = <<f.chunk>>
        /\ rx'.rest = f.count - 1 /\ rx'.overrun = rx.overrun
    BY <1>1, <1>4 DEF ReceiveFf, StartReceiving, Take, RxMsg
  <2>2. f = fromEcu[1] /\ f \in EcuFrames /\ 1 \in 1 .. Len(fromEcu)
    BY <2>1, TypeFacts, TailFacts
  <2>3. a \in Answers /\ f.count = Chunks[a] /\ f.count > 1
    BY <2>1, <2>2, EcuFrameFacts DEF Data, UnderwayInv, Fits
  <2>4. Chunks[a] \in Nat /\ Len(rx'.buffer) = 1
    <3>1. Chunks[a] \in 1 .. LenWrap BY <2>3, Constants
    <3> QED BY <2>1, <3>1
  <2>5. rx'.rest > 0 /\ Chunks[a] = Len(rx'.buffer) + rx'.rest BY <2>1, <2>3, <2>4
  <2> HIDE DEF a
  <2> QED BY <2>1, <2>3, <2>5 DEF OverrunInv, TooLong
<1>5. CASE EndCf
  <2>1. reader.pc = "rcv_cf" /\ reader'.pc = "process" BY <1>5 DEF EndCf, At
  <2>2. PICK a \in Answers : Chunks[a] = Len(rx.buffer) + rx.rest BY <2>1 DEF OverrunInv
  <2>3. /\ rx.rest > 0 /\ rx.rest \in Nat /\ Len(rx.buffer) = rx.seq /\ rx.seq \in Nat
        /\ RxCapacity \in Nat
    BY <2>1, TypeFacts, Constants DEF OverrunInv, TypeIInv, RxLengths
  <2>4. CASE reader.frame.seq # rx.seq % SeqModulus
    <3>1. rx'.state = "IDLE" /\ rx'.overrun = rx.overrun
      BY <1>1, <1>5, <2>4 DEF EndCf, RxMsg
    <3> QED BY <2>1, <3>1 DEF OverrunInv, TooLong
  <2>5. CASE reader.frame.seq = rx.seq % SeqModulus
    <3>1. PICK chunk \in Content :
            /\ rx'.buffer = Append(rx.buffer, chunk)
            /\ rx'.state = IF rx.rest <= 1 THEN "FINISHED" ELSE rx.state
            /\ rx'.rest = IF rx.rest <= 1 THEN rx.rest ELSE rx.rest - 1
            /\ rx'.overrun = (rx.overrun \/ ~FitsBuffer)
      BY <1>5, <2>5, CfStored
    <3>2. Len(rx'.buffer) = Len(rx.buffer) + 1 BY <1>1, <3>1, AppendFacts
    <3>3. rx'.state = "WAIT_DATA" =>
            rx'.rest > 0 /\ Chunks[a] = Len(rx'.buffer) + rx'.rest
      <4> SUFFICES ASSUME rx'.state = "WAIT_DATA"
                   PROVE  rx'.rest > 0 /\ Chunks[a] = Len(rx'.buffer) + rx'.rest
        OBVIOUS
      <4>1. rx.rest > 1 BY <2>3, <3>1
      <4>2. rx'.rest = rx.rest - 1 BY <2>3, <3>1, <4>1
      <4>3. \A n, r \in Nat : n + r = (n + 1) + (r - 1) OBVIOUS
      <4>4. Len(rx.buffer) + rx.rest = Len(rx'.buffer) + rx'.rest BY <2>3, <3>2, <4>2, <4>3
      <4> QED BY <2>2, <2>3, <4>1, <4>2, <4>4
    <3>4. ~FitsBuffer => Chunks[a] > RxCapacity BY <2>2, <2>3 DEF FitsBuffer
    <3>5. rx'.overrun => TooLong BY <2>2, <3>1, <3>4 DEF OverrunInv, TooLong
    <3>6. TooLong' = TooLong BY DEF TooLong
    <3> QED BY <2>1, <2>2, <3>3, <3>5, <3>6 DEF OverrunInv
  <2> QED BY <2>4, <2>5
<1>6. CASE BeginCf
  <2>1. /\ rx'.buffer = rx.buffer /\ rx'.rest = rx.rest /\ rx'.overrun = rx.overrun
        /\ rx'.state = rx.state \/ rx'.state = "IDLE"
    BY <1>1, <1>6 DEF BeginCf, RxMsg
  <2>2. reader'.pc = "rcv_cf" => rx.state = "WAIT_DATA" BY <1>6 DEF BeginCf, At
  <2> QED BY <1>2, <2>1, <2>2
<1>7. CASE Client \/ CfTimePasses \/ Lose
  <2>1. /\ rx'.buffer = rx.buffer /\ rx'.rest = rx.rest /\ rx'.overrun = rx.overrun
        /\ rx'.state \in {rx.state, "IDLE"} /\ reader' = reader
    BY <1>1, <1>7 DEF Client, OnClientConnected, OnClientDisconnected, Send, SetIds,
                      CfTimePasses, Lose, RxMsg
  <2> QED BY <1>2, <2>1
<1>8. ASSUME rx' = rx, reader'.pc = "rcv_cf" => reader.pc = "rcv_cf" PROVE OverrunInv'
  BY <1>2, <1>8
<1>9. CASE \/ FcTimePasses \/ EcuReceives \/ EcuControlsFlow \/ EcuAnswers \/ EcuSendsCf
           \/ EcuGivesUp \/ UNCHANGED vars \/ Divert
  <2>1. rx' = rx /\ reader' = reader
    BY <1>9 DEF FcTimePasses, EcuReceives, EcuControlsFlow, EcuAnswers, EcuSendsCf, EcuGivesUp,
                EcuSends, vars, Divert
  <2> QED BY <1>8, <2>1
<1>10. CASE \/ BeginFc \/ EndFc \/ NothingToSend \/ SendSf \/ EndSend
            \/ (\E accepted \in BOOLEAN : SendFf(accepted))
            \/ EndFf \/ AwaitFirstFc \/ BeginBlock
            \/ (\E accepted \in BOOLEAN : SendCf(accepted)) \/ EndCfSent \/ SendLastCf
            \/ OtherFrame
  <2>1. rx' = rx
    BY <1>10 DEF BeginFc, EndFc, NothingToSend, SendSf, EndSend, SendFf, EndFf, AwaitFirstFc,
                 BeginBlock, SendCf, EndCfSent, SendLastCf, OtherFrame
  <2>2. reader'.pc # "rcv_cf"
    BY <1>10 DEF BeginFc, EndFc, NothingToSend, SendSf, EndSend, SendFf, EndFf, AwaitFirstFc,
                 BeginBlock, SendCf, EndCfSent, SendLastCf, OtherFrame, At, Holding, LoopTop
  <2> QED BY <1>8, <2>1, <2>2
<1> QED BY <1>3, <1>4, <1>5, <1>6, <1>7, <1>9, <1>10 DEF Next, Reader, Environment

LEMMA ReceiverHolds == Spec => [](TypeIInv /\ RxIInv /\ OverrunInv)
<1>1. Init => OverrunInv BY DEF Init, OverrunInv, At
<1>2. TypeIInv /\ RxIInv /\ OverrunInv /\ [Next]_vars => OverrunInv'
  BY OverrunKept DEF RxIInv
<1> QED BY <1>1, <1>2, InitTypes, NextTypes, InitRx, NextRx, PTL DEF Spec

(* Whatever frames the bus loses and however sessions and transfers are    *)
(* broken off, the types hold, every chunk has its place in the buffer,    *)
(* and rcv_cf writes behind its end only for an answer that is too long    *)
(* for it.                                                                 *)
THEOREM TypesHold == Spec => []IsoTpInv
<1>1. TypeIInv /\ OverrunInv => IsoTpInv
  BY DEF TypeIInv, OverrunInv, TooLong, IsoTpInv, RxLengths, ToEcuType, FromEcuType
<1> QED BY <1>1, ReceiverHolds, PTL

(* Receive hands over whole messages only, as long as rcv_cf has not       *)
(* written behind its buffer.                                              *)
THEOREM ReceivedIsWhole == Spec => []RxWhole
<1>1. RxIInv => RxWhole BY DEF RxIInv
<1> QED BY <1>1, ReceiverHolds, PTL

(* With an ECU whose answers fit the buffer rcv_cf never writes behind it, *)
(* and what Receive hands over is whole without that proviso.              *)
THEOREM FittingAnswersAreWhole ==
  ASSUME \A a \in Answers : Chunks[a] <= RxCapacity
  PROVE  Spec => []/\ ~rx.overrun
                   /\ rx.state = "FINISHED" /\ ~rx.broken
                        => rx.buffer \in WholeMessages(Answers)
<1>1. ~TooLong
  <2> SUFFICES ASSUME NEW a \in Answers, Chunks[a] > RxCapacity PROVE FALSE BY DEF TooLong
  <2>1. Chunks[a] <= RxCapacity /\ Chunks[a] \in Nat /\ RxCapacity \in Nat BY Constants
  <2> QED BY <2>1
<1>2. RxIInv /\ OverrunInv =>
        /\ ~rx.overrun
        /\ rx.state = "FINISHED" /\ ~rx.broken => rx.buffer \in WholeMessages(Answers)
  BY <1>1 DEF RxIInv, OverrunInv, RxWhole
<1> QED BY <1>2, ReceiverHolds, PTL
-----------------------------------------------------------------------------
(* The transmitting side.                                                  *)

LEMMA DivMod ==
  ASSUME NEW L \in Nat \ {0}, NEW a \in Int
  PROVE  a \div L \in Int /\ (a % L) \in 0 .. L - 1 /\ a = L * (a \div L) + (a % L)
BY SMT

LEMMA RemainderIs ==
  ASSUME NEW L \in Nat \ {0}, NEW a \in Int, NEW q \in Int, NEW r \in 0 .. L - 1,
         a = L * q + r
  PROVE  a % L = r
<1> DEFINE qa == a \div L
           ra == a % L
<1>1. qa \in Int /\ ra \in 0 .. L - 1 /\ a = L * qa + ra BY DivMod
<1> HIDE DEF qa, ra
<1>2. CASE qa = q
  <2>1. L * qa = L * q /\ L * q \in Int BY <1>2
  <2> QED BY <1>1, <2>1
<1>3. CASE qa >= q + 1
  <2>1. L * qa >= L * (q + 1) /\ L * (q + 1) = L * q + L BY <1>1, <1>3
  <2> QED BY <1>1, <2>1
<1>4. CASE q >= qa + 1
  <2>1. L * q >= L * (qa + 1) /\ L * (qa + 1) = L * qa + L BY <1>1, <1>4
  <2> QED BY <1>1, <2>1
<1>5. ra = r BY <1>1, <1>2, <1>3, <1>4
<1> QED BY <1>5 DEF ra

(* The sequence number of the next frame.                                  *)
LEMMA NextSeq ==
  ASSUME NEW L \in Nat \ {0, 1}, NEW p \in Nat
  PROVE  ((p % L) + 1) % L = (p + 1) % L /\ 1 % L = 1
<1> DEFINE q == p \div L
           r == p % L
<1>1. q \in Int /\ r \in 0 .. L - 1 /\ p = L * q + r /\ p + 1 \in Int BY DivMod
<1>2. 1 % L = 1
  <2>1. 1 = L * 0 + 1 /\ 1 \in 0 .. L - 1 OBVIOUS
  <2> QED BY <2>1, RemainderIs
<1> HIDE DEF q, r
<1>3. (r + 1) % L = (p + 1) % L
  <2>1. CASE r + 1 < L
    <3>1. r + 1 \in 0 .. L - 1 /\ r + 1 \in Int BY <1>1, <2>1
    <3>2. r + 1 = L * 0 + (r + 1) /\ p + 1 = L * q + (r + 1) BY <1>1, <3>1
    <3>3. (r + 1) % L = r + 1 BY <3>1, <3>2, RemainderIs
    <3>4. (p + 1) % L = r + 1 BY <1>1, <3>1, <3>2, RemainderIs
    <3> QED BY <3>3, <3>4
  <2>2. CASE r + 1 = L
    <3>1. 0 \in 0 .. L - 1 /\ r + 1 = L * 1 + 0 BY <1>1, <2>2
    <3>2. p + 1 = L * (q + 1) + 0 /\ q + 1 \in Int
      <4>1. L * (q + 1) = L * q + L BY <1>1
      <4> QED BY <1>1, <2>2, <4>1
    <3>3. (r + 1) % L = 0 BY <1>1, <3>1, RemainderIs
    <3>4. (p + 1) % L = 0 BY <1>1, <3>1, <3>2, RemainderIs
    <3> QED BY <3>3, <3>4
  <2> QED BY <1>1, <2>1, <2>2
<1> QED BY <1>2, <1>3 DEF r

Controlled == ~session.raced => ControlInv /\ PositionInv

LEMMA TxFacts ==
  ASSUME TypeIInv
  PROVE  /\ tx.pos \in Nat /\ tx.left \in Nat /\ tx.left \in 0 .. LenWrap /\ tx.seq \in Nat
         /\ tx.state \in TxStates
         /\ tx.state # "IDLE" => tx.msg \in Requests
         /\ session.raced \in BOOLEAN
<1>1. /\ tx.pos \in Nat /\ tx.left \in 0 .. LenWrap /\ tx.seq \in 0 .. SeqModulus
      /\ tx.state \in TxStates
  BY DEF TypeIInv, TxMsg
<1>2. tx.left \in Nat /\ tx.seq \in Nat BY <1>1, Constants
<1>3. tx.state # "IDLE" => tx.msg \in Requests BY DEF TypeIInv, MsgInv
<1> QED BY <1>1, <1>2, <1>3 DEF TypeIInv, SessionType

(* Steps that change neither the message nor its position.                 *)
LEMMA PositionKept ==
  ASSUME ControlInv, PositionInv, UNCHANGED <<tx.msg, tx.pos, tx.left, tx.seq>>,
         \/ tx'.state = "IDLE"
         \/ tx'.state = tx.state
         \/ tx.state \in {"WAIT_FIRST_FC", "WAIT_FC"} /\ tx'.state = "SEND_CF",
         reader'.pc = "ff_sent" => reader.pc = "ff_sent"
  PROVE  PositionInv'
BY DEF PositionInv

LEMMA ClientControl == TypeIInv /\ Controlled /\ Client => Controlled'
<1> SUFFICES ASSUME TypeIInv, Controlled, Client, ~session'.raced
             PROVE  ControlInv' /\ PositionInv'
  BY DEF Controlled
<1>1. session \in [connected : BOOLEAN, unsent : SUBSET Requests, openings : Nat,
                   setIds : Nat, raced : BOOLEAN] /\ tx \in TxMsg
  BY DEF TypeIInv, SessionType
<1>2. CASE OnClientConnected \/ OnClientDisconnected
  <2>1. tx' = tx /\ reader' = reader /\ session'.raced = session.raced
    BY <1>1, <1>2 DEF OnClientConnected, OnClientDisconnected
  <2> QED BY <2>1 DEF Controlled, ControlInv, PositionInv
<1>3. ASSUME NEW m \in Requests, Send(m) PROVE ControlInv' /\ PositionInv'
  <2>1. reader' = reader /\ session'.raced = session.raced BY <1>1, <1>3 DEF Send
  <2>2. CASE tx.state # "IDLE"
    <3>1. tx' = tx BY <1>3, <2>2 DEF Send
    <3> QED BY <2>1, <3>1 DEF Controlled, ControlInv, PositionInv
  <2>3. CASE tx.state = "IDLE"
    <3>1. /\ tx'.state = "SEND" /\ tx'.msg = m /\ tx'.pos = 0 /\ tx'.left = Chunks[m]
      BY <1>1, <1>3, <2>3 DEF Send, TxMsg
    <3>2. reader.pc \notin {"ff_sent", "cf_delay", "cf_sent", "last_delay", "rcv_fc", "sent"}
      BY <2>1, <2>3 DEF Controlled, ControlInv
    <3> QED BY <2>1, <3>1, <3>2 DEF ControlInv, PositionInv
  <2> QED BY <2>2, <2>3
<1>4. CASE SetIds
  <2>1. /\ reader' = reader /\ tx'.state = "IDLE"
        /\ session'.raced = (session.raced \/ reader.pc \notin {"poll", "process"})
    BY <1>1, <1>4 DEF SetIds, TxMsg
  <2> QED BY <2>1 DEF ControlInv, PositionInv
<1> QED BY <1>2, <1>3, <1>4 DEF Client

LEMMA ReaderControl == TypeIInv /\ Controlled /\ (Reader \/ OtherFrame) => Controlled'
<1> SUFFICES ASSUME TypeIInv, Controlled, Reader \/ OtherFrame, ~session'.raced
             PROVE  ControlInv' /\ PositionInv'
  BY DEF Controlled
<1>1. tx \in TxMsg BY DEF TypeIInv
<1>2. session' = session
  BY DEF Reader, OtherFrame, Divert, ReceiveSf, ReceiveFf, StartReceiving, BeginFc, EndFc,
         BeginCf, EndCf, NothingToSend, SendSf, EndSend, SendFf, EndFf, AwaitFirstFc,
         BeginBlock, SendCf, EndCfSent, SendLastCf
<1>3. ControlInv /\ PositionInv BY <1>2 DEF Controlled
<1>4. ASSUME UNCHANGED <<tx.msg, tx.pos, tx.left, tx.seq, tx.state>>,
             reader' = reader \/ reader'.pc \in {"poll", "process", "rcv_cf"}
      PROVE  ControlInv' /\ PositionInv'
  BY <1>3, <1>4 DEF ControlInv, PositionInv
<1>5. CASE Divert \/ ReceiveSf \/ ReceiveFf \/ BeginCf \/ EndCf \/ NothingToSend \/ OtherFrame
  <2>1. UNCHANGED <<tx.msg, tx.pos, tx.left, tx.seq, tx.state>>
    BY <1>1, <1>5 DEF Divert, ReceiveSf, ReceiveFf, StartReceiving, BeginCf, EndCf,
                      NothingToSend, OtherFrame, TxMsg
  <2>2. reader' = reader \/ reader'.pc \in {"poll", "process", "rcv_cf"}
    <3>1. CASE BeginCf BY <3>1 DEF BeginCf, At, Holding
    <3>2. CASE Divert BY <3>2 DEF Divert
    <3>3. CASE ReceiveSf \/ EndCf \/ OtherFrame
      <4>1. reader' = At("process") BY <3>3 DEF ReceiveSf, EndCf, OtherFrame
      <4> QED BY <4>1 DEF At
    <3>4. CASE ReceiveFf BY <3>4 DEF ReceiveFf, StartReceiving, At
    <3>5. CASE NothingToSend BY <3>5 DEF NothingToSend, At
    <3> QED BY <1>5, <3>1, <3>2, <3>3, <3>4, <3>5
  <2> QED BY <1>4, <2>1, <2>2
<1>6. CASE BeginFc
  <2>1. UNCHANGED <<tx.msg, tx.pos, tx.left, tx.seq, tx.state>>
    BY <1>1, <1>6 DEF BeginFc, TxMsg
  <2>2. \/ reader'.pc = "process"
        \/ reader'.pc = "rcv_fc" /\ tx.state \in {"WAIT_FIRST_FC", "WAIT_FC"}
    BY <1>6 DEF BeginFc, At, Holding
  <2> QED BY <1>3, <2>1, <2>2 DEF ControlInv, PositionInv
<1>7. CASE EndFc
  <2>1. /\ UNCHANGED <<tx.msg, tx.pos, tx.left, tx.seq>>
        /\ tx'.state = "IDLE" \/ tx'.state = tx.state \/ tx'.state = "SEND_CF"
    BY <1>1, <1>7 DEF EndFc, TxMsg
  <2>2. reader.pc = "rcv_fc" /\ reader'.pc = "process" BY <1>7 DEF EndFc, At
  <2>3. tx.state \in {"WAIT_FIRST_FC", "WAIT_FC"} BY <1>3, <2>2 DEF ControlInv
  <2>4. PositionInv' BY <1>3, <2>1, <2>2, <2>3, PositionKept
  <2> QED BY <2>2, <2>4 DEF ControlInv
<1>8. CASE SendSf \/ SendLastCf
  <2>1. tx' = tx /\ reader'.pc = "sent" BY <1>8 DEF SendSf, SendLastCf, At
  <2>2. tx.state \in {"SEND", "SEND_CF"}
    BY <1>3, <1>8 DEF SendSf, SendLastCf, Begin, ControlInv
  <2> QED BY <1>3, <2>1, <2>2 DEF ControlInv, PositionInv
<1>9. CASE EndSend
  <2>1. tx'.state = "IDLE" /\ reader'.pc = "poll" BY <1>1, <1>9 DEF EndSend, At, TxMsg
  <2> QED BY <2>1 DEF ControlInv, PositionInv
<1>10. ASSUME NEW accepted \in BOOLEAN, SendFf(accepted) PROVE ControlInv' /\ PositionInv'
  <2>1. /\ tx'.state = "SEND" /\ UNCHANGED <<tx.msg, tx.pos, tx.left>> /\ tx'.seq = 1
        /\ tx.state = "SEND" /\ tx.left > 1
    BY <1>1, <1>10 DEF SendFf, Begin, TxMsg
  <2>2. reader'.pc \in {"ff_sent", "poll"} BY <1>10 DEF SendFf, At
  <2> QED BY <1>3, <2>1, <2>2 DEF ControlInv, PositionInv
<1>11. CASE EndFf
  <2>1. /\ reader.pc = "ff_sent" /\ reader'.pc = "poll"
        /\ tx'.state = "WAIT_FIRST_FC" /\ tx'.msg = tx.msg /\ tx'.seq = tx.seq
        /\ tx'.pos = tx.pos + 1 /\ tx'.left = IF tx.left > 1 THEN tx.left - 1 ELSE LenWrap
    BY <1>1, <1>11 DEF EndFf, Advanced, At, TxMsg
  <2>2. /\ tx.pos = 0 /\ tx.left = Chunks[tx.msg] /\ tx.left > 1 /\ tx.seq = 1
    BY <1>3, <2>1 DEF ControlInv, PositionInv
  <2>3. tx.left \in Nat BY TxFacts
  <2>4. 1 % SeqModulus = 1 BY Constants, NextSeq
  <2> QED BY <2>1, <2>2, <2>3, <2>4 DEF ControlInv, PositionInv
<1>12. CASE AwaitFirstFc
  <2>1. tx' = tx /\ tx.state = "WAIT_FIRST_FC" /\ reader'.pc \in {"sent", "poll"}
    BY <1>12 DEF AwaitFirstFc, Begin, At
  <2> QED BY <1>3, <2>1 DEF ControlInv, PositionInv
<1>13. ASSUME reader' = LoopTop(tx'.left), tx'.state = "SEND_CF", PositionInv,
              UNCHANGED <<tx.msg, tx.pos, tx.left, tx.seq, tx.state>>
       PROVE  ControlInv' /\ PositionInv'
  <2>1. \/ reader'.pc = "cf_delay" /\ tx'.left > 1
        \/ reader'.pc = "last_delay" /\ ~(tx'.left > 1)
    BY <1>13 DEF LoopTop, At
  <2>2. tx'.left \in Nat BY <1>13, TxFacts
  <2> QED BY <1>13, <2>1, <2>2 DEF ControlInv, PositionInv
<1>14. CASE BeginBlock
  BY <1>3, <1>13, <1>14 DEF BeginBlock, Begin
<1>15. ASSUME NEW accepted \in BOOLEAN, SendCf(accepted) PROVE ControlInv' /\ PositionInv'
  <2>1. tx' = tx /\ tx.state = "SEND_CF" /\ tx.left > 1
    BY <1>3, <1>15 DEF SendCf, ControlInv
  <2>2. CASE accepted
    <3>1. reader'.pc = "cf_sent" BY <1>15, <2>2 DEF SendCf, At
    <3> QED BY <1>3, <2>1, <3>1 DEF ControlInv, PositionInv
  <2>3. CASE ~accepted
    <3>1. reader' = LoopTop(tx.left) BY <1>15, <2>3 DEF SendCf
    <3> QED BY <1>3, <1>13, <2>1, <3>1
  <2> QED BY <2>2, <2>3
<1>16. CASE EndCfSent
  <2>1. /\ tx'.state = IF AtBlockBoundary THEN "WAIT_FC" ELSE tx.state
        /\ tx'.msg = tx.msg /\ tx'.seq = (tx.seq + 1) % SeqModulus
        /\ tx'.pos = tx.pos + 1 /\ tx'.left = IF tx.left > 1 THEN tx.left - 1 ELSE LenWrap
    BY <1>1, <1>16 DEF EndCfSent, Advanced, TxMsg
  <2>2. /\ reader.pc = "cf_sent" /\ tx.state = "SEND_CF" /\ tx.left > 1
        /\ tx.pos >= 1 /\ tx.pos + tx.left = Chunks[tx.msg]
        /\ tx.seq = tx.pos % SeqModulus
    BY <1>3, <1>16 DEF EndCfSent, ControlInv, PositionInv
  <2>3. tx.left \in Nat /\ tx.pos \in Nat BY TxFacts
  <2>4. tx'.seq = (tx.pos + 1) % SeqModulus BY <2>1, <2>2, <2>3, Constants, NextSeq
  <2>5. /\ tx'.pos >= 2 /\ tx'.left >= 1 /\ tx'.pos + tx'.left = Chunks[tx.msg]
        /\ tx'.left \in Nat
    BY <2>1, <2>2, <2>3
  <2>6. \/ reader'.pc = "poll"
        \/ reader'.pc = "cf_delay" /\ tx'.left > 1 /\ tx'.state = "SEND_CF"
        \/ reader'.pc = "last_delay" /\ ~(tx'.left > 1) /\ tx'.state = "SEND_CF"
    BY <1>16, <2>1, <2>2 DEF EndCfSent, LoopTop, At
  <2>7. tx'.state \in {"WAIT_FC", "SEND_CF"} BY <2>1, <2>2
  <2>8. ControlInv' BY <2>5, <2>6 DEF ControlInv
  <2>9. PositionInv'
    <3>1. reader'.pc # "ff_sent" BY <2>6
    <3>2. tx'.pos >= 1 BY <2>1, <2>3
    <3>3. tx'.pos + tx'.left = Chunks[tx'.msg] BY <2>1, <2>5
    <3>4. tx'.seq = tx'.pos % SeqModulus BY <2>1, <2>4
    <3> QED BY <2>5, <2>7, <3>1, <3>2, <3>3, <3>4 DEF PositionInv
  <2> QED BY <2>8, <2>9
<1> QED
  BY <1>5, <1>6, <1>7, <1>8, <1>9, <1>10, <1>11, <1>12, <1>14, <1>15, <1>16 DEF Reader

LEMMA NextControl == TypeIInv /\ Controlled /\ [Next]_vars => Controlled'
<1> SUFFICES ASSUME TypeIInv, Controlled, [Next]_vars PROVE Controlled' OBVIOUS
<1>1. CASE FcTimePasses \/ CfTimePasses \/ Lose \/ EcuReceives \/ EcuControlsFlow
           \/ EcuAnswers \/ EcuSendsCf \/ EcuGivesUp \/ UNCHANGED vars
  <2>1. /\ UNCHANGED <<session, reader>>
        /\ UNCHANGED <<tx.msg, tx.pos, tx.left, tx.seq, tx.state>>
    BY <1>1 DEF FcTimePasses, CfTimePasses, Lose, EcuReceives, EcuControlsFlow, EcuAnswers,
                EcuSendsCf, EcuGivesUp, EcuSends, vars, TypeIInv, TxMsg
  <2> QED BY <2>1 DEF Controlled, ControlInv, PositionInv
<1> QED BY <1>1, ClientControl, ReaderControl DEF Next, Environment

QueueInv == SentInv /\ EcuRxInv

LEMMA ToEcuFacts ==
  ASSUME TypeIInv
  PROVE  /\ toEcu \in Seq(BridgeFrames) /\ Len(toEcu) \in Nat
         /\ \A i \in 1 .. Len(toEcu) : toEcu[i] \in BridgeFrames
<1>1. toEcu \in Seq(BridgeFrames) BY DEF TypeIInv, ToEcuType
<1> QED BY <1>1, LenProperties, ElementOfSeq

(* Steps that neither send a frame to the ECU nor take one there.          *)
LEMMA TxQuiet ==
  ASSUME TypeIInv, QueueInv, toEcu' = toEcu,
         \/ ecuRx' = Idle
         \/ ecuRx # Idle /\ ecuRx'.got = ecuRx.got /\ ecuRx'.count = ecuRx.count,
         InTransfer' => InTransfer /\ tx'.msg = tx.msg /\ SentUpTo' = SentUpTo
  PROVE  QueueInv'
<1>1. SentInv' BY DEF QueueInv, SentInv
<1>2. Receiving' => Receiving /\ ecuRx'.got = ecuRx.got BY DEF Receiving
<1>3. EcuRxInv' BY <1>2 DEF QueueInv, EcuRxInv
<1> QED BY <1>1, <1>3 DEF QueueInv

(* A frame goes out.                                                       *)
LEMMA TxSends ==
  ASSUME TypeIInv, QueueInv, ecuRx' = ecuRx,
         NEW f \in BridgeFrames, toEcu' = Append(toEcu, f), Fits(f),
         f.type = "CF" => InTransfer /\ f.chunk = <<tx.msg, SentUpTo + 1>>,
         InTransfer' =>
           \/ f.type \in {"FF", "CF"} /\ f.chunk = <<tx'.msg, SentUpTo'>>
           \/ ~Data(f) /\ InTransfer /\ tx'.msg = tx.msg /\ SentUpTo' = SentUpTo
  PROVE  QueueInv'
<1> USE DEF QueueInv
<1> DEFINE q == toEcu
           t == toEcu'
<1>1. /\ q \in Seq(BridgeFrames) /\ Len(q) \in Nat /\ Len(t) = Len(q) + 1
      /\ \A i \in 1 .. Len(q) : t[i] = q[i]
      /\ t[Len(q) + 1] = f
  BY ToEcuFacts, AppendFacts
<1>2. ASSUME f.type = "CF", NEW i \in 1 .. Len(q), Last(q, i) PROVE Follows(q[i], f)
  <2>1. q[i].type \in {"FF", "CF"} /\ q[i].chunk = <<tx.msg, SentUpTo>>
    BY <1>2 DEF SentInv
  <2> QED BY <1>2, <2>1 DEF Follows
<1>3. /\ Chained(t)
      /\ \A i \in 1 .. Len(t) :
           /\ First(t, i) =>
                \/ i \in 1 .. Len(q) /\ First(q, i) /\ t[i] = q[i]
                \/ i = Len(q) + 1 /\ NoData(q) /\ t[i] = f
           /\ Last(t, i) =>
                \/ Data(f) /\ t[i] = f
                \/ ~Data(f) /\ i \in 1 .. Len(q) /\ Last(q, i) /\ t[i] = q[i]
      /\ NoData(t) <=> NoData(q) /\ ~Data(f)
  BY <1>1, <1>2, ChainOfAppend DEF SentInv
<1>4. SentInv'
  <2>1. \A i \in 1 .. Len(t) : i \in 1 .. Len(q) \/ i = Len(q) + 1 BY <1>1
  <2>2. \A i \in 1 .. Len(t) : Fits(t[i]) BY <1>1, <2>1 DEF SentInv
  <2>3. ASSUME InTransfer', NEW i \in 1 .. Len(t), Last(t, i)
        PROVE  t[i].type \in {"FF", "CF"} /\ t[i].chunk = <<tx'.msg, SentUpTo'>>
    <3>1. CASE f.type \in {"FF", "CF"} /\ f.chunk = <<tx'.msg, SentUpTo'>>
      BY <1>3, <2>3, <3>1 DEF Data
    <3>2. CASE ~Data(f) /\ InTransfer /\ tx'.msg = tx.msg /\ SentUpTo' = SentUpTo
      BY <1>3, <2>3, <3>2 DEF SentInv
    <3> QED BY <2>3, <3>1, <3>2
  <2> QED BY <1>3, <2>2, <2>3 DEF SentInv
<1>5. EcuRxInv'
  <2>1. Receiving' = Receiving BY DEF Receiving
  <2>2. ASSUME Receiving, NEW i \in 1 .. Len(t), First(t, i), t[i].type = "CF"
        PROVE  t[i].chunk = <<ecuRx.got[1][1], Len(ecuRx.got) + 1>>
    <3>1. CASE i \in 1 .. Len(q) /\ First(q, i) /\ t[i] = q[i] BY <2>2, <3>1 DEF EcuRxInv
    <3>2. CASE NoData(q) /\ t[i] = f BY <2>2, <3>2 DEF EcuRxInv
    <3> QED BY <1>3, <2>2, <3>1, <3>2
  <2>3. ASSUME Receiving, NoData(t), InTransfer'
        PROVE  ecuRx.got[1][1] = tx'.msg /\ Len(ecuRx.got) = SentUpTo'
    BY <1>3, <2>3 DEF EcuRxInv, Data
  <2> QED BY <2>1, <2>2, <2>3 DEF EcuRxInv
<1> QED BY <1>4, <1>5

(* The ECU takes a frame.                                                  *)
LEMMA TxTaken == TypeIInv /\ QueueInv /\ EcuReceives => QueueInv'
<1> SUFFICES ASSUME TypeIInv, QueueInv, EcuReceives PROVE QueueInv' OBVIOUS
<1> USE DEF QueueInv
<1> DEFINE q == toEcu
           t == toEcu'
           f == q[1]
           m == f.chunk[1]
<1>1. /\ q # <<>> /\ t = Tail(q) /\ Len(q) \in Nat \ {0} /\ 1 \in 1 .. Len(q)
      /\ Head(q) = f /\ f \in BridgeFrames /\ q \in Seq(BridgeFrames)
      /\ Len(t) = Len(q) - 1
      /\ \A i \in 1 .. Len(t) : i + 1 \in 1 .. Len(q) /\ t[i] = q[i + 1]
  BY ToEcuFacts, TailFacts DEF EcuReceives
<1>2. UNCHANGED <<tx, reader>> BY DEF EcuReceives
<1>3. tx'.msg = tx.msg /\ InTransfer' = InTransfer /\ SentUpTo' = SentUpTo
  BY <1>2 DEF InTransfer, SentUpTo
<1>4. /\ Chained(t)
      /\ \A i \in 1 .. Len(t) :
           /\ Last(t, i) => Last(q, i + 1)
           /\ First(t, i) /\ ~Data(f) => First(q, i + 1)
           /\ First(t, i) /\ t[i].type = "CF" /\ Data(f) => Follows(f, t[i])
      /\ NoData(t) /\ ~Data(f) => NoData(q)
      /\ NoData(t) /\ Data(f) => Last(q, 1)
  BY <1>1, ChainOfTail DEF SentInv
<1>5. SentInv'
  <2>1. \A i \in 1 .. Len(t) : Fits(t[i]) BY <1>1 DEF SentInv
  <2>2. InTransfer => \A i \in 1 .. Len(t) :
                        Last(t, i) => /\ t[i].type \in {"FF", "CF"}
                                      /\ t[i].chunk = <<tx.msg, SentUpTo>>
    BY <1>1, <1>4 DEF SentInv
  <2> QED BY <1>3, <1>4, <2>1, <2>2 DEF SentInv
<1>6. /\ Fits(f)
      /\ Data(f) => f.chunk \in Requests \X Nat /\ m \in Requests /\ f.chunk[2] \in Nat
                    /\ f.chunk = <<m, f.chunk[2]>>
  BY <1>1, BridgeFrameFacts DEF SentInv
(* What the ECU holds after a frame with data: chunks 1 to n of m.         *)
<1>7. ASSUME Data(f), NEW n \in Nat \ {0}, f.chunk = <<m, n>>, n <= Chunks[m],
             ecuRx'.count = Chunks[m], Len(ecuRx'.got) = n,
             \A i \in 1 .. n : ecuRx'.got[i] = <<m, i>>
      PROVE  EcuRxInv'
  <2>1. ecuRx'.got[1][1] = m
    <3>1. 1 \in 1 .. n OBVIOUS
    <3>2. ecuRx'.got[1] = <<m, 1>> BY <1>7, <3>1
    <3> QED BY <3>2
  <2>2. \A i \in 1 .. Len(t) :
          First(t, i) /\ t[i].type = "CF" => t[i].chunk = <<m, n + 1>>
    BY <1>4, <1>7 DEF Follows
  <2>3. ASSUME NoData(t), InTransfer' PROVE m = tx'.msg /\ n = SentUpTo'
    <3>1. f.chunk = <<tx.msg, SentUpTo>> BY <1>1, <1>3, <1>4, <1>7, <2>3 DEF SentInv
    <3> QED BY <1>3, <1>7, <3>1
  <2> QED BY <1>7, <2>1, <2>2, <2>3 DEF EcuRxInv
<1>8. ASSUME NEW count, NEW bs, NEW owes \in BOOLEAN, EcuStarts(f, count, bs, owes),
             f.type \in {"SF", "FF"}, count = Chunks[m]
      PROVE  EcuRxInv'
  <2>1. Data(f) /\ f.chunk = <<m, 1>>
    BY <1>6, <1>8 DEF Fits, Data
  <2>2. ecuRx'.count = Chunks[m] /\ ecuRx'.got = <<f.chunk>>
    BY <1>8 DEF EcuStarts
  <2>3. Len(ecuRx'.got) = 1 /\ \A i \in 1 .. 1 : ecuRx'.got[i] = <<m, i>>
    BY <2>1, <2>2
  <2>4. 1 <= Chunks[m] BY <1>6, <2>1, Constants
  <2> QED BY <1>7, <2>1, <2>2, <2>3, <2>4
<1>9. CASE f.type = "SF" /\ EcuStarts(f, 1, 0, FALSE)
  <2>1. 1 = Chunks[m] BY <1>6, <1>9 DEF Fits
  <2> QED BY <1>5, <1>8, <1>9, <2>1
<1>10. CASE f.type = "FF" /\ \E bs \in BlockSizes : EcuStarts(f, f.count, bs, TRUE)
  <2>1. f.count = Chunks[m] BY <1>6, <1>10 DEF Fits
  <2> QED BY <1>5, <1>8, <1>10, <2>1
<1>11. CASE f.type = "CF" /\ Receiving /\ EcuTakesCf(f)
  <2> DEFINE g == ecuRx.got
             a == g[1][1]
             n == Len(g)
  <2>1. /\ ecuRx # Idle /\ n < ecuRx.count /\ g \in Seq(Requests \X Nat) /\ g # <<>>
        /\ ecuRx = [count |-> ecuRx.count, got |-> g, bs |-> ecuRx.bs, owes |-> ecuRx.owes]
    BY <1>11, ReceptionFields DEF Receiving, TypeIInv
  <2>2. n \in Nat \ {0} BY <2>1, EmptySeq, LenProperties
  <2>3. Data(f) /\ First(q, 1) BY <1>1, <1>11 DEF First, Data
  <2>4. f.chunk = <<a, n + 1>> /\ ecuRx.count = Chunks[a]
        /\ \A i \in 1 .. n : g[i] = <<a, i>>
    BY <1>1, <1>11, <2>1, <2>3 DEF EcuRxInv
  <2>5. m = a /\ f.chunk[2] = n + 1 BY <2>4
  <2>6. f.seq = n % SeqModulus
    <3>1. f.seq = ((n + 1) - 1) % SeqModulus BY <1>6, <1>11, <2>5 DEF Fits
    <3>2. (n + 1) - 1 = n BY <2>2
    <3> QED BY <3>1, <3>2
  <2> DEFINE h == Append(g, f.chunk)
  <2>7. /\ Len(h) = n + 1 /\ h[n + 1] = f.chunk
        /\ \A i \in 1 .. n : h[i] = g[i]
    BY <1>6, <2>1, <2>3, AppendFacts
  <2>8. \A i \in 1 .. n + 1 : h[i] = <<m, i>>
    <3> TAKE i \in 1 .. n + 1
    <3>1. i \in 1 .. n \/ i = n + 1 BY <2>2
    <3> QED BY <2>4, <2>5, <2>7, <3>1
  <2>9. n + 1 <= Chunks[m]
    <3>1. Chunks[m] \in Nat BY <1>6, <2>3, Constants
    <3> QED BY <2>1, <2>2, <2>4, <2>5, <3>1
  <2>10. PICK owes \in BOOLEAN : ecuRx' = [ecuRx EXCEPT !.got = h, !.owes = owes]
    BY <1>11, <2>6 DEF EcuTakesCf
  <2> HIDE DEF h
  <2>11. ecuRx'.got = h /\ ecuRx'.count = Chunks[m] BY <2>1, <2>4, <2>5, <2>10
  <2>12. EcuRxInv'
    <3>1. n + 1 \in Nat \ {0} /\ f.chunk = <<m, n + 1>> BY <2>2, <2>4, <2>5
    <3> QED BY <1>7, <2>3, <2>7, <2>8, <2>9, <2>11, <3>1
  <2> QED BY <1>5, <2>12
<1>12. ASSUME (f.type = "CF" /\ ~Receiving) \/ f.type = "FC", ecuRx' = ecuRx
       PROVE  EcuRxInv'
  <2>1. Receiving' = Receiving BY <1>12 DEF Receiving
  <2>2. CASE ~Receiving BY <1>12, <2>1, <2>2 DEF EcuRxInv
  <2>3. CASE f.type = "FC"
    <3>1. ~Data(f) BY <2>3 DEF Data
    <3>2. Receiving => \A i \in 1 .. Len(t) :
            First(t, i) /\ t[i].type = "CF" =>
              t[i].chunk = <<ecuRx.got[1][1], Len(ecuRx.got) + 1>>
      BY <1>1, <1>4, <3>1 DEF EcuRxInv
    <3>3. Receiving /\ NoData(t) /\ InTransfer =>
            ecuRx.got[1][1] = tx.msg /\ Len(ecuRx.got) = SentUpTo
      BY <1>4, <3>1 DEF EcuRxInv
    <3> QED BY <1>3, <1>12, <2>1, <3>2, <3>3 DEF EcuRxInv
  <2> QED BY <1>12, <2>2, <2>3
<1>13. CASE ((f.type = "CF" /\ ~Receiving) \/ f.type = "FC") /\ ecuRx' = ecuRx
  BY <1>5, <1>12, <1>13
<1> QED BY <1>1, <1>9, <1>10, <1>11, <1>13 DEF EcuReceives, ecuVars

Queued == ~session.raced => QueueInv

(* A frame that Transmit may not have got rid of.                          *)
LEMMA TxTransmits ==
  ASSUME TypeIInv, QueueInv, ecuRx' = ecuRx,
         NEW f \in BridgeFrames, NEW accepted \in BOOLEAN, Transmit(f, accepted), Fits(f),
         f.type = "CF" => InTransfer /\ f.chunk = <<tx.msg, SentUpTo + 1>>,
         InTransfer' =>
           \/ accepted /\ f.type \in {"FF", "CF"} /\ f.chunk = <<tx'.msg, SentUpTo'>>
           \/ /\ InTransfer /\ tx'.msg = tx.msg /\ SentUpTo' = SentUpTo
              /\ accepted => ~Data(f)
  PROVE  QueueInv'
<1>1. CASE accepted
  <2>1. toEcu' = Append(toEcu, f) BY <1>1 DEF Transmit
  <2> QED BY <1>1, <2>1, TxSends
<1>2. CASE ~accepted
  <2>1. toEcu' = toEcu BY <1>2 DEF Transmit
  <2> QED BY <1>2, <2>1, TxQuiet
<1> QED BY <1>1, <1>2

LEMMA ControlFrame == Fc("CTS", 0) \in BridgeFrames /\ Fits(Fc("CTS", 0)) /\ ~Data(Fc("CTS", 0))
                      /\ Fc("CTS", 0).type = "FC"
BY FramesMade, FrameFields DEF Fits, Data

(* The frame that carries the chunk at Buffer, when there is one.          *)
LEMMA CfFits ==
  ASSUME TypeIInv, PositionInv, tx.state = "SEND_CF"
  PROVE  /\ NextCf \in BridgeFrames /\ NextCf.type = "CF"
         /\ NextCf.chunk = <<tx.msg, tx.pos + 1>> /\ Fits(NextCf)
<1>1. /\ tx.msg \in Requests /\ tx.pos \in Nat /\ tx.left \in Nat /\ tx.seq \in Nat
      /\ tx.pos >= 1 /\ tx.left >= 1 /\ tx.pos + tx.left = Chunks[tx.msg]
      /\ tx.seq = tx.pos % SeqModulus
  BY TxFacts DEF PositionInv
<1>2. /\ NextCf \in BridgeFrames /\ NextCf.type = "CF" /\ NextCf.seq = tx.seq
      /\ NextCf.chunk = <<tx.msg, tx.pos + 1>>
  BY <1>1, FramesMade, FrameFields DEF NextCf
<1>3. tx.pos + 1 \in 2 .. Chunks[tx.msg] /\ (tx.pos + 1) - 1 = tx.pos BY <1>1
<1> QED BY <1>1, <1>2, <1>3 DEF Fits

LEMMA ClientQueue == TypeIInv /\ Controlled /\ Queued /\ Client => Queued'
<1> SUFFICES ASSUME TypeIInv, Controlled, Queued, Client, ~session'.raced PROVE QueueInv'
  BY DEF Queued
<1>1. session \in [connected : BOOLEAN, unsent : SUBSET Requests, openings : Nat,
                   setIds : Nat, raced : BOOLEAN] /\ tx \in TxMsg
  BY DEF TypeIInv, SessionType
<1>2. ~session.raced /\ UNCHANGED <<toEcu, ecuRx, reader>>
  BY <1>1 DEF Client, OnClientConnected, OnClientDisconnected, Send, SetIds, ecuVars
<1>3. ControlInv /\ QueueInv BY <1>2 DEF Controlled, Queued
<1>4. \/ tx' = tx
      \/ tx.state = "IDLE" /\ tx'.state = "SEND"
      \/ tx'.state = "IDLE" /\ reader.pc \in {"poll", "process"}
  <2>1. CASE OnClientConnected \/ OnClientDisconnected
    BY <2>1 DEF OnClientConnected, OnClientDisconnected
  <2>2. CASE \E m \in Requests : Send(m) BY <1>1, <2>2 DEF Send, TxMsg
  <2>3. CASE SetIds BY <1>1, <1>2, <2>3 DEF SetIds, TxMsg
  <2> QED BY <2>1, <2>2, <2>3 DEF Client
<1>5. InTransfer' => InTransfer /\ tx'.msg = tx.msg /\ SentUpTo' = SentUpTo
  BY <1>2, <1>3, <1>4 DEF InTransfer, SentUpTo, ControlInv
<1>6. ecuRx' = Idle \/ (ecuRx # Idle /\ ecuRx'.got = ecuRx.got /\ ecuRx'.count = ecuRx.count)
  BY <1>2
<1> QED BY <1>2, <1>3, <1>5, <1>6, TxQuiet

LEMMA ReaderQueue ==
  TypeIInv /\ Controlled /\ Queued /\ (Reader \/ OtherFrame) => Queued'
<1> SUFFICES ASSUME TypeIInv, Controlled, Queued, Reader \/ OtherFrame, ~session'.raced
             PROVE  QueueInv'
  BY DEF Queued
<1>1. tx \in TxMsg BY DEF TypeIInv
<1>2. session' = session /\ ecuRx' = ecuRx
  BY DEF Reader, OtherFrame, Divert, ReceiveSf, ReceiveFf, StartReceiving, BeginFc, EndFc,
         BeginCf, EndCf, NothingToSend, SendSf, EndSend, SendFf, EndFf, AwaitFirstFc,
         BeginBlock, SendCf, EndCfSent, SendLastCf, ecuVars
<1>3. ControlInv /\ PositionInv /\ QueueInv BY <1>2 DEF Controlled, Queued
<1>4. ASSUME toEcu' = toEcu,
             InTransfer' => InTransfer /\ tx'.msg = tx.msg /\ SentUpTo' = SentUpTo
      PROVE  QueueInv'
  <2>1. ecuRx' = Idle \/ (ecuRx # Idle /\ ecuRx'.got = ecuRx.got /\ ecuRx'.count = ecuRx.count)
    BY <1>2
  <2> QED BY <1>3, <1>4, <2>1, TxQuiet
<1> DEFINE Between == {"poll", "rcv_fc", "rcv_cf", "process", "cf_delay", "last_delay"}
<1>5. ASSUME UNCHANGED <<tx.msg, tx.pos, tx.state>>,
             reader' = reader \/ (reader.pc \in Between /\ reader'.pc \in Between)
      PROVE  InTransfer' = InTransfer /\ tx'.msg = tx.msg /\ SentUpTo' = SentUpTo
  <2>1. InTransfer' = InTransfer BY <1>5 DEF InTransfer
  <2>2. SentUpTo' = SentUpTo BY <1>5 DEF SentUpTo
  <2> QED BY <1>5, <2>1, <2>2
<1>6. CASE Divert
  <2>1. /\ UNCHANGED <<tx.msg, tx.pos, tx.state>> /\ reader' = reader
        /\ toEcu' = toEcu \/ Transmit(Fc("CTS", 0), TRUE)
    BY <1>1, <1>6 DEF Divert, TxMsg
  <2>2. CASE Transmit(Fc("CTS", 0), TRUE)
    <3>1. toEcu' = Append(toEcu, Fc("CTS", 0)) BY <2>2 DEF Transmit
    <3> QED BY <1>2, <1>3, <1>5, <2>1, <3>1, ControlFrame, TxSends
  <2> QED BY <1>4, <1>5, <2>1, <2>2
<1>7. CASE ReceiveFf
  <2>1. /\ UNCHANGED <<tx.msg, tx.pos, tx.state>> /\ reader.pc = "poll"
        /\ reader'.pc = "process"
    BY <1>1, <1>7 DEF ReceiveFf, StartReceiving, Take, At, TxMsg
  <2>2. PICK accepted \in BOOLEAN : Transmit(Fc("CTS", 0), accepted)
    BY <1>7 DEF ReceiveFf, StartReceiving
  <2>3. InTransfer' = InTransfer /\ tx'.msg = tx.msg /\ SentUpTo' = SentUpTo
    BY <1>5, <2>1
  <2> QED BY <1>2, <1>3, <2>2, <2>3, ControlFrame, TxTransmits
<1>8. CASE ReceiveSf \/ BeginFc \/ BeginCf \/ EndCf \/ NothingToSend \/ OtherFrame
  <2>1. UNCHANGED <<tx.msg, tx.pos, tx.state, toEcu>>
    BY <1>1, <1>8 DEF ReceiveSf, BeginFc, BeginCf, EndCf, NothingToSend, OtherFrame, TxMsg
  <2>2. reader.pc \in Between
    BY <1>8 DEF ReceiveSf, BeginFc, BeginCf, EndCf, NothingToSend, OtherFrame, Take
  <2>3. reader'.pc \in Between
    <3>1. CASE BeginFc BY <3>1 DEF BeginFc, At, Holding
    <3>2. CASE BeginCf BY <3>2 DEF BeginCf, At, Holding
    <3>3. CASE ReceiveSf \/ EndCf \/ OtherFrame
      <4>1. reader' = At("process") BY <3>3 DEF ReceiveSf, EndCf, OtherFrame
      <4> QED BY <4>1 DEF At
    <3>4. CASE NothingToSend BY <3>4 DEF NothingToSend, At
    <3> QED BY <1>8, <3>1, <3>2, <3>3, <3>4
  <2> QED BY <1>4, <1>5, <2>1, <2>2, <2>3
<1>9. CASE EndFc
  <2>1. /\ UNCHANGED <<tx.msg, tx.pos, toEcu>> /\ reader.pc = "rcv_fc" /\ reader'.pc = "process"
    BY <1>1, <1>9 DEF EndFc, TxMsg, At
  <2>2. InTransfer BY <1>3, <2>1 DEF ControlInv, InTransfer
  <2>3. SentUpTo' = SentUpTo BY <2>1 DEF SentUpTo
  <2> QED BY <1>4, <2>1, <2>2, <2>3
<1>10. CASE SendSf
  <2>1. /\ tx.state = "SEND" /\ reader'.pc = "sent" /\ tx.left <= 1
    BY <1>10 DEF SendSf, Begin, At
  <2>2. PICK accepted \in BOOLEAN : Transmit(Sf(tx.msg), accepted) BY <1>10 DEF SendSf
  <2>3. tx.msg \in Requests /\ Chunks[tx.msg] = 1
    <3>1. tx.msg \in Requests /\ tx.left = Chunks[tx.msg] BY <1>3, <2>1, TxFacts DEF PositionInv
    <3> QED BY <2>1, <3>1, Constants
  <2>4. /\ Sf(tx.msg) \in BridgeFrames /\ Sf(tx.msg).type = "SF" /\ Fits(Sf(tx.msg))
    BY <2>3, FramesMade, FrameFields DEF Fits
  <2>5. ~InTransfer' BY <2>1 DEF InTransfer
  <2> QED BY <1>2, <1>3, <2>2, <2>4, <2>5, TxTransmits
<1>11. CASE EndSend
  <2>1. tx'.state = "IDLE" /\ reader'.pc = "poll" /\ toEcu' = toEcu
    BY <1>1, <1>11 DEF EndSend, At, TxMsg
  <2> QED BY <1>4, <2>1 DEF InTransfer
<1>12. ASSUME NEW accepted \in BOOLEAN, SendFf(accepted) PROVE QueueInv'
  <2>1. /\ tx'.state = "SEND" /\ UNCHANGED <<tx.msg, tx.pos>>
        /\ tx.state = "SEND" /\ tx.left > 1 /\ Transmit(Ff(tx.msg, tx.left), accepted)
        /\ reader'.pc = IF accepted THEN "ff_sent" ELSE "poll"
    BY <1>1, <1>12 DEF SendFf, Begin, TxMsg, At
  <2>2. tx.msg \in Requests /\ tx.pos = 0 /\ tx.left = Chunks[tx.msg] /\ tx.left \in 2 .. LenWrap
    <3>1. tx.msg \in Requests /\ tx.pos = 0 /\ tx.left = Chunks[tx.msg] /\ tx.left \in 0 .. LenWrap
      BY <1>3, <2>1, TxFacts DEF PositionInv
    <3> QED BY <2>1, <3>1, Constants
  <2> DEFINE f == Ff(tx.msg, tx.left)
  <2>3. /\ f \in BridgeFrames /\ f.type = "FF" /\ f.chunk = <<tx.msg, 1>>
        /\ f.count = tx.left
    BY <2>2, FramesMade, FrameFields
  <2> HIDE DEF f
  <2>4. Fits(f) BY <2>1, <2>2, <2>3 DEF Fits
  <2>5. InTransfer' => accepted /\ f.chunk = <<tx'.msg, SentUpTo'>>
    <3>1. InTransfer' => reader'.pc = "ff_sent" /\ accepted BY <2>1 DEF InTransfer
    <3>2. reader'.pc = "ff_sent" => SentUpTo' = 1
      <4>1. tx'.pos = 0 BY <2>1, <2>2
      <4> QED BY <4>1 DEF SentUpTo
    <3> QED BY <2>1, <2>3, <3>1, <3>2
  <2> QED BY <1>2, <1>3, <2>1, <2>3, <2>4, <2>5, TxTransmits DEF f
<1>13. CASE EndFf
  <2>1. /\ reader.pc = "ff_sent" /\ reader'.pc = "poll" /\ toEcu' = toEcu
        /\ tx'.msg = tx.msg /\ tx'.pos = tx.pos + 1
    BY <1>1, <1>13 DEF EndFf, Advanced, At, TxMsg
  <2>2. InTransfer /\ SentUpTo' = SentUpTo BY <2>1 DEF InTransfer, SentUpTo
  <2> QED BY <1>4, <2>1, <2>2
<1>14. CASE AwaitFirstFc
  <2>1. /\ tx' = tx /\ toEcu' = toEcu /\ reader.pc = "process" /\ reader'.pc \in {"sent", "poll"}
    BY <1>14 DEF AwaitFirstFc, Begin, At
  <2> QED BY <1>4, <2>1 DEF InTransfer, SentUpTo
<1>15. CASE BeginBlock
  <2>1. /\ tx' = tx /\ toEcu' = toEcu /\ reader.pc = "process"
        /\ reader'.pc \in {"cf_delay", "last_delay"}
    BY <1>15 DEF BeginBlock, Begin, LoopTop, At
  <2> QED BY <1>4, <1>5, <2>1
<1>16. ASSUME NEW accepted \in BOOLEAN, SendCf(accepted) PROVE QueueInv'
  <2>1. /\ tx' = tx /\ reader.pc = "cf_delay" /\ Transmit(NextCf, accepted)
        /\ accepted => reader'.pc = "cf_sent"
        /\ ~accepted => reader'.pc \in {"cf_delay", "last_delay"}
    BY <1>16 DEF SendCf, LoopTop, At
  <2>2. tx.state = "SEND_CF" BY <1>3, <2>1 DEF ControlInv
  <2>3. InTransfer /\ SentUpTo = tx.pos BY <2>1, <2>2 DEF InTransfer, SentUpTo
  <2>4. accepted => SentUpTo' = tx.pos + 1 BY <2>1 DEF SentUpTo
  <2>5. ~accepted => SentUpTo' = SentUpTo BY <2>1 DEF SentUpTo
  <2> QED BY <1>2, <1>3, <2>1, <2>2, <2>3, <2>4, <2>5, CfFits, TxTransmits
<1>17. CASE EndCfSent
  <2>1. /\ reader.pc = "cf_sent" /\ toEcu' = toEcu
        /\ tx'.msg = tx.msg /\ tx'.pos = tx.pos + 1
        /\ reader'.pc \in {"poll", "cf_delay", "last_delay"}
    BY <1>1, <1>17 DEF EndCfSent, Advanced, LoopTop, At, TxMsg
  <2>2. InTransfer BY <1>3, <2>1 DEF ControlInv, InTransfer
  <2>3. SentUpTo' = SentUpTo BY <2>1 DEF SentUpTo
  <2> QED BY <1>4, <2>1, <2>2, <2>3
<1>18. CASE SendLastCf
  <2>1. reader.pc = "last_delay" /\ reader'.pc = "sent" BY <1>18 DEF SendLastCf, At
  <2>2. PICK accepted \in BOOLEAN : Transmit(NextCf, accepted) BY <1>18 DEF SendLastCf
  <2>3. tx.state = "SEND_CF" BY <1>3, <2>1 DEF ControlInv
  <2>4. InTransfer /\ SentUpTo = tx.pos /\ ~InTransfer'
    BY <2>1, <2>3 DEF InTransfer, SentUpTo
  <2> QED BY <1>2, <1>3, <2>2, <2>3, <2>4, CfFits, TxTransmits
<1> QED
  BY <1>6, <1>7, <1>8, <1>9, <1>10, <1>11, <1>12, <1>13, <1>14, <1>15, <1>16, <1>17, <1>18
     DEF Reader

LEMMA NextQueue == TypeIInv /\ Controlled /\ Queued /\ [Next]_vars => Queued'
<1> SUFFICES ASSUME TypeIInv, Controlled, Queued, [Next]_vars PROVE Queued' OBVIOUS
<1>1. CASE EcuReceives
  <2>1. session' = session BY <1>1 DEF EcuReceives
  <2> QED BY <1>1, <2>1, TxTaken DEF Queued
<1>2. CASE FcTimePasses \/ CfTimePasses \/ Lose \/ EcuControlsFlow
           \/ EcuAnswers \/ EcuSendsCf \/ EcuGivesUp \/ UNCHANGED vars
  <2>1. /\ UNCHANGED <<session, reader, toEcu>>
        /\ UNCHANGED <<tx.msg, tx.pos, tx.state>>
    BY <1>2 DEF FcTimePasses, CfTimePasses, Lose, EcuControlsFlow, EcuAnswers,
                EcuSendsCf, EcuGivesUp, EcuSends, vars, TypeIInv, TxMsg
  <2>2. \/ ecuRx' = Idle \/ ecuRx' = ecuRx
        \/ ecuRx # Idle /\ ecuRx' = [ecuRx EXCEPT !.owes = FALSE]
    BY <1>2 DEF FcTimePasses, CfTimePasses, Lose, EcuControlsFlow, EcuAnswers,
                EcuSendsCf, EcuGivesUp, Receiving, vars, ecuVars
  <2>3. \/ ecuRx' = Idle
        \/ ecuRx # Idle /\ ecuRx'.got = ecuRx.got /\ ecuRx'.count = ecuRx.count
    <3>1. ASSUME ecuRx # Idle, ecuRx' = [ecuRx EXCEPT !.owes = FALSE]
          PROVE  ecuRx'.got = ecuRx.got /\ ecuRx'.count = ecuRx.count
      <4>1. ecuRx = [count |-> ecuRx.count, got |-> ecuRx.got, bs |-> ecuRx.bs,
                     owes |-> ecuRx.owes]
        BY <3>1, ReceptionFields DEF TypeIInv
      <4> QED BY <3>1, <4>1
    <3> QED BY <2>2, <3>1
  <2>4. InTransfer' => InTransfer /\ tx'.msg = tx.msg /\ SentUpTo' = SentUpTo
    BY <2>1 DEF InTransfer, SentUpTo
  <2> QED BY <2>1, <2>3, <2>4, TxQuiet DEF Queued
<1> QED BY <1>1, <1>2, ClientQueue, ReaderQueue DEF Next, Environment

LEMMA InitTx == Init => Controlled /\ Queued
<1> SUFFICES ASSUME Init PROVE Controlled /\ Queued OBVIOUS
<1>1. /\ tx.state = "IDLE" /\ reader.pc = "poll" /\ toEcu = <<>> /\ ecuRx = Idle
      /\ Len(toEcu) = 0
  BY EmptySeq DEF Init, At
<1>2. Controlled BY <1>1 DEF Controlled, ControlInv, PositionInv
<1>3. ~InTransfer BY <1>1 DEF InTransfer
<1>4. Queued
  BY <1>1, <1>3 DEF Queued, QueueInv, SentInv, EcuRxInv, Receiving, Chained
<1> QED BY <1>2, <1>4

(* What the ECU assembles is a whole request, as long as rcv_cf has not    *)
(* written over the request's buffer from behind its own.                  *)
THEOREM EcuReceivesWhole == Spec => []EcuWhole
<1>1. TypeIInv /\ Queued => EcuWhole
  <2> SUFFICES ASSUME TypeIInv, Queued, Received, ~session.raced
               PROVE  ecuRx.got \in WholeMessages(Requests)
    BY DEF EcuWhole
  <2> DEFINE g == ecuRx.got
             m == g[1][1]
  <2>1. g \in Seq(Requests \X Nat) /\ g # <<>> /\ ecuRx # Idle
    BY ReceptionFields DEF TypeIInv, Received
  <2>2. Len(g) = Chunks[m] /\ \A i \in 1 .. Len(g) : g[i] = <<m, i>>
    BY <2>1 DEF Queued, QueueInv, EcuRxInv, Received
  <2>3. m \in Requests
    <3>1. g[1] \in Requests \X Nat BY <2>1, TailFacts
    <3> QED BY <3>1
  <2>4. g = Whole(m)
    <3>1. g = [i \in 1 .. Len(g) |-> g[i]] BY <2>1
    <3> QED BY <2>2, <3>1 DEF Whole
  <2> QED BY <2>3, <2>4 DEF WholeMessages
<1> QED BY <1>1, InitTypes, NextTypes, InitTx, NextControl, NextQueue, PTL DEF Spec
-----------------------------------------------------------------------------
(* Answers.                                                                *)

(* A request that was sent completely stays so: the client sends it once,  *)
(* and the transmitting side leaves "IDLE" only for another.               *)
LEMMA DoneKept ==
  ASSUME TypeIInv, Controlled, [Next]_vars, ~session'.raced, NEW m \in Requests
  PROVE  (m \in Done => m \in Done') /\ (m \in Answered => m \in Answered')
<1>1. /\ tx \in TxMsg
      /\ session \in [connected : BOOLEAN, unsent : SUBSET Requests, openings : Nat,
                      setIds : Nat, raced : BOOLEAN]
  BY DEF TypeIInv, SessionType
<1>2. ASSUME UNCHANGED session.unsent, tx'.msg = tx.msg,
             tx.state = "IDLE" => tx'.state = "IDLE",
             reader.pc = "sent" => reader'.pc = "sent" \/ tx'.state = "IDLE"
      PROVE  (m \in Done => m \in Done') /\ (m \in Answered => m \in Answered')
  BY <1>2 DEF Done, Answered
<1>3. ASSUME NEW n \in Requests, Send(n)
      PROVE  (m \in Done => m \in Done') /\ (m \in Answered => m \in Answered')
  <2>1. session'.unsent = session.unsent \ {n} /\ n \in session.unsent /\ reader' = reader
    BY <1>1, <1>3 DEF Send
  <2>2. CASE tx.state = "IDLE"
    <3>1. tx'.msg = n BY <1>1, <1>3, <2>2 DEF Send, TxMsg
    <3> QED BY <2>1, <3>1 DEF Done, Answered
  <2>3. CASE tx.state # "IDLE"
    <3>1. tx' = tx BY <1>3, <2>3 DEF Send
    <3> QED BY <2>1, <3>1 DEF Done, Answered
  <2> QED BY <2>2, <2>3
<1>4. CASE OnClientConnected \/ OnClientDisconnected \/ SetIds
  <2>1. /\ UNCHANGED session.unsent /\ reader' = reader /\ tx'.msg = tx.msg
        /\ tx' = tx \/ tx'.state = "IDLE"
    BY <1>1, <1>4 DEF OnClientConnected, OnClientDisconnected, SetIds, TxMsg
  <2> QED BY <1>2, <2>1
<1>5. CASE Reader \/ OtherFrame
  <2>1. session' = session
    BY <1>5 DEF Reader, OtherFrame, Divert, ReceiveSf, ReceiveFf, StartReceiving, BeginFc, EndFc,
       BeginCf, EndCf, NothingToSend, SendSf, EndSend, SendFf, EndFf, AwaitFirstFc,
       BeginBlock, SendCf, EndCfSent, SendLastCf
  <2>2. ControlInv BY <2>1 DEF Controlled
  <2>3. CASE EndSend
    <3>1. tx'.state = "IDLE" /\ tx'.msg = tx.msg BY <1>1, <2>3 DEF EndSend, TxMsg
    <3> QED BY <1>2, <2>1, <3>1
  <2>4. CASE Divert
    <3>1. tx'.state = tx.state /\ tx'.msg = tx.msg /\ reader' = reader
      BY <1>1, <2>4 DEF Divert, TxMsg
    <3> QED BY <1>2, <2>1, <3>1
  <2>5. CASE ReceiveSf \/ ReceiveFf \/ BeginFc \/ BeginCf \/ EndCf
             \/ NothingToSend \/ SendSf \/ AwaitFirstFc \/ BeginBlock \/ SendLastCf \/ OtherFrame
    <3>1. tx'.state = tx.state /\ tx'.msg = tx.msg
      BY <1>1, <2>5 DEF ReceiveSf, ReceiveFf, StartReceiving, BeginFc, BeginCf, EndCf,
         NothingToSend, SendSf, AwaitFirstFc, BeginBlock, SendLastCf, OtherFrame, TxMsg
    <3>2. reader.pc # "sent"
      BY <2>5 DEF ReceiveSf, ReceiveFf, StartReceiving, BeginFc, BeginCf, EndCf, Take,
         NothingToSend, SendSf, AwaitFirstFc, BeginBlock, SendLastCf, OtherFrame, Begin
    <3> QED BY <1>2, <2>1, <3>1, <3>2
  <2>6. CASE EndFc
    <3>1. reader.pc = "rcv_fc" /\ tx'.msg = tx.msg BY <1>1, <2>6 DEF EndFc, TxMsg
    <3>2. tx.state # "IDLE" BY <2>2, <3>1 DEF ControlInv
    <3> QED BY <1>2, <2>1, <3>1, <3>2
  <2>7. CASE EndFf \/ EndCfSent
    <3>1. reader.pc \in {"ff_sent", "cf_sent"} /\ tx'.msg = tx.msg
      BY <1>1, <2>7 DEF EndFf, EndCfSent, Advanced, TxMsg
    <3>2. tx.state # "IDLE" BY <2>2, <3>1 DEF ControlInv
    <3> QED BY <1>2, <2>1, <3>1, <3>2
  <2>8. CASE (\E accepted \in BOOLEAN : SendFf(accepted))
             \/ (\E accepted \in BOOLEAN : SendCf(accepted))
    <3>1. tx'.state = tx.state /\ tx'.msg = tx.msg /\ reader.pc # "sent"
      BY <1>1, <2>8 DEF SendFf, SendCf, Begin, TxMsg
    <3> QED BY <1>2, <2>1, <3>1
  <2> QED BY <1>5, <2>3, <2>4, <2>5, <2>6, <2>7, <2>8 DEF Reader
<1>6. CASE FcTimePasses \/ CfTimePasses \/ Lose \/ EcuReceives \/ EcuControlsFlow
           \/ EcuAnswers \/ EcuSendsCf \/ EcuGivesUp \/ UNCHANGED vars
  <2>1. UNCHANGED <<session, reader, tx.msg, tx.state>>
    BY <1>1, <1>6 DEF FcTimePasses, CfTimePasses, Lose, EcuReceives, EcuControlsFlow, EcuAnswers,
                EcuSendsCf, EcuGivesUp, EcuSends, vars, TxMsg
  <2> QED BY <1>2, <2>1
<1> QED BY <1>3, <1>4, <1>5, <1>6 DEF Next, Client, Environment

LEMMA AskedKept ==
  ASSUME TypeIInv, Controlled, [Next]_vars, ~session'.raced
  PROVE  Done \subseteq Done' /\ Answered \subseteq Answered' /\ Asked \subseteq Asked'
<1>1. Done \subseteq Requests /\ Answered \subseteq Requests BY DEF Done, Answered
<1>2. Done \subseteq Done' /\ Answered \subseteq Answered' BY <1>1, DoneKept
<1> QED BY <1>2 DEF Asked

LEMMA NeverUnraced ==
  ASSUME TypeIInv, [Next]_vars, ~session'.raced
  PROVE  ~session.raced
<1>1. session \in [connected : BOOLEAN, unsent : SUBSET Requests, openings : Nat,
                   setIds : Nat, raced : BOOLEAN]
  BY DEF TypeIInv, SessionType
<1>2. CASE Client
  <2>1. CASE OnClientConnected \/ OnClientDisconnected
    BY <1>1, <2>1 DEF OnClientConnected, OnClientDisconnected
  <2>2. CASE (\E m \in Requests : Send(m)) \/ SetIds BY <1>1, <2>2 DEF Send, SetIds
  <2> QED BY <1>2, <2>1, <2>2 DEF Client
<1>3. CASE Reader \/ Environment \/ UNCHANGED vars
  <2>1. session' = session
    BY <1>3 DEF Reader, OtherFrame, Divert, ReceiveSf, ReceiveFf, StartReceiving, BeginFc, EndFc,
       BeginCf, EndCf, NothingToSend, SendSf, EndSend, SendFf, EndFf, AwaitFirstFc,
       BeginBlock, SendCf, EndCfSent, SendLastCf, Environment, FcTimePasses, CfTimePasses,
       Lose, EcuReceives, EcuControlsFlow, EcuAnswers, EcuSendsCf, EcuGivesUp, EcuSends, vars
  <2> QED BY <2>1
<1> QED BY <1>2, <1>3 DEF Next

(* The receive buffer holds chunks of an answer to a request that was sent *)
(* completely.                                                             *)
LEMMA BufferKept ==
  ASSUME TypeIInv, Controlled, BufferAnswered, FramesAsked, [Next]_vars, ~session'.raced
  PROVE  BufferAnswered'
<1>1. rx \in RxMsg /\ rx.buffer \in Seq(Content) BY TypeFacts DEF TypeIInv
<1>2. ASSUME rx'.buffer # <<>>, rx.buffer # <<>>, rx'.buffer[1] = rx.buffer[1]
      PROVE  BufferAnswered'
  <2>1. PICK m \in Answered : rx.buffer[1][1] \in Answer[m]
    BY <1>2 DEF BufferAnswered
  <2>2. m \in Answered' BY <2>1, AskedKept
  <2> QED BY <1>2, <2>1, <2>2 DEF BufferAnswered
<1>3. ASSUME rx'.buffer = rx.buffer,
             rx'.state = "WAIT_DATA" => rx.state = "WAIT_DATA",
             reader'.pc = "rcv_cf" => reader.pc = "rcv_cf" \/ rx.state = "WAIT_DATA"
      PROVE  BufferAnswered'
  <2>1. CASE rx.buffer = <<>> BY <1>3, <2>1 DEF BufferAnswered
  <2>2. CASE rx.buffer # <<>> BY <1>2, <1>3, <2>2
  <2> QED BY <2>1, <2>2
<1>4. CASE ReceiveSf \/ ReceiveFf
  <2> DEFINE f == Head(fromEcu)
  <2>1. /\ fromEcu # <<>> /\ f.type \in {"SF", "FF"} /\ reader.pc = "poll"
        /\ rx'.buffer = <<f.chunk>>
    BY <1>1, <1>4 DEF ReceiveSf, ReceiveFf, StartReceiving, Take, RxMsg
  <2>2. f = fromEcu[1] /\ 1 \in 1 .. Len(fromEcu) BY <2>1, TypeFacts, TailFacts
  <2>3. f.chunk[1] \in Asked BY <2>1, <2>2 DEF FramesAsked, Data
  <2>4. PICK m \in Done : f.chunk[1] \in Answer[m] BY <2>3 DEF Asked
  <2>5. m \in Answered' BY <2>1, <2>4, AskedKept DEF Done, Answered
  <2>6. rx'.buffer # <<>> /\ rx'.buffer[1] = f.chunk BY <2>1
  <2> QED BY <2>4, <2>5, <2>6 DEF BufferAnswered
<1>5. CASE EndCf
  <2>1. reader.pc = "rcv_cf" /\ reader'.pc = "process" /\ rx.buffer # <<>>
    BY <1>5 DEF EndCf, At, BufferAnswered
  <2>3. CASE rx'.buffer = rx.buffer BY <1>2, <2>1, <2>3
  <2>4. ASSUME NEW chunk \in Content, rx'.buffer = Append(rx.buffer, chunk)
        PROVE  BufferAnswered'
    <3>1. Len(rx.buffer) \in Nat \ {0} BY <1>1, <2>1, TailFacts
    <3>2. /\ Len(rx'.buffer) = Len(rx.buffer) + 1
          /\ \A i \in 1 .. Len(rx.buffer) : rx'.buffer[i] = rx.buffer[i]
      BY <1>1, <2>4, AppendFacts
    <3>3. rx'.buffer # <<>> /\ rx'.buffer[1] = rx.buffer[1] BY <3>1, <3>2
    <3> QED BY <1>2, <2>1, <3>3
  <2>5. \/ rx'.buffer = rx.buffer
        \/ \E chunk \in Content : rx'.buffer = Append(rx.buffer, chunk)
    <3>1. CASE reader.frame.seq = rx.seq % SeqModulus BY <1>5, <3>1, CfStored
    <3>2. CASE reader.frame.seq # rx.seq % SeqModulus BY <1>1, <1>5, <3>2 DEF EndCf, RxMsg
    <3> QED BY <3>1, <3>2
  <2> QED BY <2>3, <2>4, <2>5
<1>6. CASE BeginCf
  <2>1. rx'.buffer = rx.buffer /\ (rx'.state = rx.state \/ rx'.state = "IDLE")
    BY <1>1, <1>6 DEF BeginCf, RxMsg
  <2>2. reader'.pc = "rcv_cf" => rx.state = "WAIT_DATA" BY <1>6 DEF BeginCf, At
  <2> QED BY <1>3, <2>1, <2>2
<1>7. CASE Client \/ CfTimePasses \/ Lose
  <2>1. /\ rx'.buffer = rx.buffer /\ rx'.state \in {rx.state, "IDLE"} /\ reader' = reader
    BY <1>1, <1>7 DEF Client, OnClientConnected, OnClientDisconnected, Send, SetIds,
                      CfTimePasses, Lose, RxMsg
  <2> QED BY <1>3, <2>1
<1>8. ASSUME rx' = rx, reader'.pc = "rcv_cf" => reader.pc = "rcv_cf" PROVE BufferAnswered'
  BY <1>3, <1>8
<1>9. CASE \/ FcTimePasses \/ EcuReceives \/ EcuControlsFlow \/ EcuAnswers \/ EcuSendsCf
           \/ EcuGivesUp \/ UNCHANGED vars \/ Divert
  <2>1. rx' = rx /\ reader' = reader
    BY <1>9 DEF FcTimePasses, EcuReceives, EcuControlsFlow, EcuAnswers, EcuSendsCf, EcuGivesUp,
                EcuSends, vars, Divert
  <2> QED BY <1>8, <2>1
<1>10. CASE \/ BeginFc \/ EndFc \/ NothingToSend \/ SendSf \/ EndSend
            \/ (\E accepted \in BOOLEAN : SendFf(accepted))
            \/ EndFf \/ AwaitFirstFc \/ BeginBlock
            \/ (\E accepted \in BOOLEAN : SendCf(accepted)) \/ EndCfSent \/ SendLastCf
            \/ OtherFrame
  <2>1. rx' = rx
    BY <1>10 DEF BeginFc, EndFc, NothingToSend, SendSf, EndSend, SendFf, EndFf, AwaitFirstFc,
                 BeginBlock, SendCf, EndCfSent, SendLastCf, OtherFrame
  <2>2. CASE BeginFc BY <1>8, <2>1, <2>2 DEF BeginFc, At, Holding
  <2>3. CASE ~BeginFc
    <3>1. reader'.pc # "rcv_cf"
      BY <1>10, <2>3 DEF EndFc, NothingToSend, SendSf, EndSend, SendFf, EndFf, AwaitFirstFc,
                  BeginBlock, SendCf, EndCfSent, SendLastCf, OtherFrame, At, LoopTop
    <3> QED BY <1>8, <2>1, <3>1
  <2> QED BY <2>2, <2>3
<1> QED BY <1>4, <1>5, <1>6, <1>7, <1>9, <1>10 DEF Next, Reader, Environment

(* What the ECU sends answers a request that was sent completely.          *)
LEMMA FramesKept ==
  ASSUME TypeIInv, Controlled, FramesAsked, RequestsDone, [Next]_vars, ~session'.raced
  PROVE  FramesAsked'
<1> DEFINE q == fromEcu
           t == fromEcu'
<1>1. q \in Seq(EcuFrames) /\ Len(q) \in Nat BY TypeFacts
<1>2. ASSUME NEW f \in EcuFrames, t = Append(q, f), Data(f) => f.chunk[1] \in Asked'
      PROVE  \A i \in 1 .. Len(t) : Data(t[i]) => t[i].chunk[1] \in Asked'
  <2> SUFFICES ASSUME NEW i \in 1 .. Len(t), Data(t[i]) PROVE t[i].chunk[1] \in Asked' OBVIOUS
  <2>1. /\ Len(t) = Len(q) + 1 /\ t[Len(q) + 1] = f
        /\ \A k \in 1 .. Len(q) : t[k] = q[k]
    BY <1>1, <1>2, AppendFacts
  <2>2. CASE i \in 1 .. Len(q)
    <3>1. t[i] = q[i] /\ Data(q[i]) BY <2>1, <2>2
    <3>2. q[i].chunk[1] \in Asked BY <2>2, <3>1 DEF FramesAsked
    <3> QED BY <3>1, <3>2, AskedKept
  <2>3. CASE i = Len(q) + 1 BY <1>2, <2>1, <2>3
  <2> QED BY <1>1, <2>1, <2>2, <2>3
<1>3. ASSUME t = q \/ (q # <<>> /\ t = Tail(q))
      PROVE  \A i \in 1 .. Len(t) : Data(t[i]) => t[i].chunk[1] \in Asked'
  <2> SUFFICES ASSUME NEW i \in 1 .. Len(t), Data(t[i]) PROVE t[i].chunk[1] \in Asked' OBVIOUS
  <2>1. PICK k \in 1 .. Len(q) : t[i] = q[k]
    <3>1. CASE t = q BY <3>1
    <3>2. CASE q # <<>> /\ t = Tail(q)
      <4>1. Len(t) = Len(q) - 1 /\ \A j \in 1 .. Len(q) - 1 : t[j] = q[j + 1]
        BY <1>1, <3>2, TailFacts
      <4>2. i + 1 \in 1 .. Len(q) /\ t[i] = q[i + 1] BY <1>1, <4>1
      <4> QED BY <4>2
    <3> QED BY <1>3, <3>1, <3>2
  <2>2. q[k].chunk[1] \in Asked BY <2>1 DEF FramesAsked
  <2> QED BY <2>1, <2>2, AskedKept
<1>4. CASE EcuAnswers
  <2>1. ecuRx.got \in Seq(Requests \X Nat) /\ ecuRx.got # <<>> /\ Received
    BY <1>4, ReceptionFields DEF EcuAnswers, Received, TypeIInv
  <2> DEFINE m == ecuRx.got[1][1]
  <2>2. m \in Requests
    <3>1. ecuRx.got[1] \in Requests \X Nat BY <2>1, TailFacts
    <3> QED BY <3>1
  <2>3. PICK a \in Answer[m] :
          IF Chunks[a] = 1
          THEN EcuSends(Sf(a)) /\ ecuTx' = Idle
          ELSE EcuSends(Ff(a, Chunks[a])) /\ ecuTx' = [msg |-> a, sent |-> 1, allowed |-> FALSE]
    BY <1>4 DEF EcuAnswers
  <2>4. a \in Answers BY <2>2, <2>3 DEF Answers
  <2>5. a \in Asked'
    <3>1. m \in Done BY <2>1 DEF RequestsDone
    <3>2. a \in Asked BY <2>2, <2>3, <3>1 DEF Asked
    <3> QED BY <3>2, AskedKept
  <2>6. CASE Chunks[a] = 1
    <3>1. /\ Sf(a) \in EcuFrames /\ Sf(a).chunk[1] = a
          /\ t = Append(q, Sf(a)) /\ ecuTx' = Idle
      BY <2>3, <2>4, <2>6, FramesMade, FrameFields DEF EcuSends
    <3> QED BY <1>2, <2>5, <3>1 DEF FramesAsked
  <2>7. CASE Chunks[a] # 1
    <3>1. /\ Ff(a, Chunks[a]) \in EcuFrames /\ Ff(a, Chunks[a]).chunk[1] = a
          /\ t = Append(q, Ff(a, Chunks[a])) /\ ecuTx'.msg = a
      BY <2>3, <2>4, <2>7, FramesMade, FrameFields DEF EcuSends
    <3> QED BY <1>2, <2>5, <3>1 DEF FramesAsked
  <2> QED BY <2>6, <2>7
<1>5. CASE EcuSendsCf
  <2> DEFINE a == ecuTx.msg
             n == ecuTx.sent
             f == Cf(a, n + 1, n % SeqModulus)
  <2>1. /\ ecuTx # Idle /\ a \in Answers /\ n \in 1 .. Chunks[a] - 1
        /\ ecuTx = [msg |-> a, sent |-> n, allowed |-> ecuTx.allowed]
    BY <1>5, TransmissionFields DEF EcuSendsCf, TypeIInv
  <2>2. Chunks[a] \in 1 .. LenWrap /\ LenWrap \in Nat BY <2>1, Constants
  <2>3. n \in Nat /\ n + 1 \in 1 .. LenWrap BY <2>1, <2>2
  <2>4. (n % SeqModulus) \in Nat
    <3>1. (n % SeqModulus) \in 0 .. SeqModulus - 1 BY <2>3, Constants
    <3> QED BY <3>1
  <2>5. f \in EcuFrames /\ f.chunk = <<a, n + 1>>
    BY <2>1, <2>3, <2>4, FramesMade, FrameFields
  <2>6. t = Append(q, f) /\ (ecuTx' = Idle \/ ecuTx' = [ecuTx EXCEPT !.sent = n + 1])
    BY <1>5 DEF EcuSendsCf, EcuSends
  <2>7. ecuTx' # Idle => ecuTx'.msg = a BY <2>1, <2>6
  <2>8. a \in Asked' BY <2>1, AskedKept DEF FramesAsked
  <2> HIDE DEF f
  <2>9. f.chunk[1] = a BY <2>5
  <2> QED BY <1>2, <2>5, <2>6, <2>7, <2>8, <2>9 DEF FramesAsked
<1>6. CASE EcuControlsFlow
  <2>1. ecuRx.bs \in BlockSizes \cup {0}
    BY <1>6, ReceptionFields DEF EcuControlsFlow, Receiving, TypeIInv
  <2>2. PICK status \in Statuses : EcuSends(Fc(status, ecuRx.bs)) BY <1>6 DEF EcuControlsFlow
  <2> DEFINE f == Fc(status, ecuRx.bs)
  <2>3. f \in EcuFrames /\ f.type = "FC" BY <2>1, FramesMade, FrameFields
  <2>4. t = Append(q, f) /\ ecuTx' = ecuTx BY <1>6, <2>2 DEF EcuControlsFlow, EcuSends
  <2> HIDE DEF f
  <2>5. \A i \in 1 .. Len(t) : Data(t[i]) => t[i].chunk[1] \in Asked'
    BY <1>2, <2>3, <2>4 DEF Data
  <2>6. ecuTx' # Idle => ecuTx'.msg \in Asked' BY <2>4, AskedKept DEF FramesAsked
  <2> QED BY <2>5, <2>6 DEF FramesAsked
<1>7. ASSUME t = q \/ (q # <<>> /\ t = Tail(q)),
             \/ ecuTx' = Idle
             \/ ecuTx # Idle /\ ecuTx'.msg = ecuTx.msg
      PROVE  FramesAsked'
  <2>1. ecuTx' # Idle => ecuTx'.msg \in Asked' BY <1>7, AskedKept DEF FramesAsked
  <2> QED BY <1>3, <1>7, <2>1 DEF FramesAsked
<1>8. CASE EcuReceives
  <2>1. t = q BY <1>8 DEF EcuReceives
  <2>2. \/ ecuTx' = Idle \/ ecuTx' = ecuTx
        \/ ecuTx # Idle /\ ecuTx' = [ecuTx EXCEPT !.allowed = TRUE]
    BY <1>8 DEF EcuReceives, EcuStarts, ecuVars
  <2>3. ASSUME ecuTx # Idle, ecuTx' = [ecuTx EXCEPT !.allowed = TRUE]
        PROVE  ecuTx'.msg = ecuTx.msg
    <3>1. ecuTx = [msg |-> ecuTx.msg, sent |-> ecuTx.sent, allowed |-> ecuTx.allowed]
      BY <2>3, TransmissionFields DEF TypeIInv
    <3> QED BY <2>3, <3>1
  <2> QED BY <1>7, <2>1, <2>2, <2>3
<1>9. CASE Client \/ Reader \/ OtherFrame \/ FcTimePasses \/ CfTimePasses \/ Lose
           \/ EcuGivesUp \/ UNCHANGED vars
  <2>1. ecuTx' = Idle \/ ecuTx' = ecuTx
    <3>1. CASE EcuGivesUp BY <3>1 DEF EcuGivesUp
    <3>2. CASE ~EcuGivesUp
      <4>1. UNCHANGED ecuTx BY <1>9, <3>2, EcuRests, Zenon
      <4> QED BY <4>1
    <3> QED BY <3>1, <3>2
  <2>2. t = q \/ (q # <<>> /\ t = Tail(q))
    BY <1>9 DEF Client, OnClientConnected, OnClientDisconnected, Send, SetIds,
       Reader, OtherFrame, Divert, ReceiveSf, ReceiveFf, StartReceiving, Take, BeginFc, EndFc,
       BeginCf, EndCf, NothingToSend, SendSf, EndSend, SendFf, EndFf, AwaitFirstFc,
       BeginBlock, SendCf, EndCfSent, SendLastCf, FcTimePasses, CfTimePasses, Lose,
       EcuGivesUp, vars
  <2> QED BY <1>7, <2>1, <2>2
<1> QED BY <1>4, <1>5, <1>6, <1>8, <1>9 DEF Next, Environment

(* A request is complete, on the bus or in the ECU, only when its last     *)
(* frame was sent.                                                         *)
LEMMA RequestsKept ==
  ASSUME TypeIInv, Controlled, Queued, RequestsDone, [Next]_vars, ~session'.raced
  PROVE  RequestsDone'
<1> DEFINE q == toEcu
           t == toEcu'
           Ends(f) == Data(f) /\ f.chunk[2] = Chunks[f.chunk[1]]
<1>1. q \in Seq(BridgeFrames) /\ Len(q) \in Nat BY ToEcuFacts
<1>2. ~session.raced /\ ControlInv /\ PositionInv /\ QueueInv
  BY NeverUnraced, NextControl DEF Controlled, Queued, PositionInv
<1>3. \A i \in 1 .. Len(q) : Ends(q[i]) => q[i].chunk[1] \in Done'
  BY AskedKept DEF RequestsDone
<1>4. Received => ecuRx.got[1][1] \in Done' BY AskedKept DEF RequestsDone
<1>5. ASSUME NEW f \in BridgeFrames, t = Append(q, f), Ends(f) => f.chunk[1] \in Done'
      PROVE  \A i \in 1 .. Len(t) : Ends(t[i]) => t[i].chunk[1] \in Done'
  <2>1. /\ Len(t) = Len(q) + 1 /\ t[Len(q) + 1] = f
        /\ \A k \in 1 .. Len(q) : t[k] = q[k]
    BY <1>1, <1>5, AppendFacts
  <2>2. \A i \in 1 .. Len(t) : i \in 1 .. Len(q) \/ i = Len(q) + 1 BY <1>1, <2>1
  <2> HIDE DEF Ends
  <2> QED BY <1>3, <1>5, <2>1, <2>2
<1>6. ASSUME t = q \/ (q # <<>> /\ t = Tail(q))
      PROVE  \A i \in 1 .. Len(t) : Ends(t[i]) => t[i].chunk[1] \in Done'
  <2> SUFFICES ASSUME NEW i \in 1 .. Len(t), Ends(t[i]) PROVE t[i].chunk[1] \in Done'
    OBVIOUS
  <2>1. PICK k \in 1 .. Len(q) : t[i] = q[k]
    <3>1. CASE t = q BY <3>1
    <3>2. CASE q # <<>> /\ t = Tail(q)
      <4>1. Len(t) = Len(q) - 1 /\ \A j \in 1 .. Len(q) - 1 : t[j] = q[j + 1]
        BY <1>1, <3>2, TailFacts
      <4>2. i + 1 \in 1 .. Len(q) /\ t[i] = q[i + 1] BY <1>1, <4>1
      <4> QED BY <4>2
    <3> QED BY <1>6, <3>1, <3>2
  <2> HIDE DEF Ends
  <2> QED BY <1>3, <2>1
<1>7. ASSUME Received' => ecuRx'.got[1][1] \in Done',
             \A i \in 1 .. Len(t) : Ends(t[i]) => t[i].chunk[1] \in Done'
      PROVE  RequestsDone'
  BY <1>7 DEF RequestsDone
<1>8. ASSUME ecuRx' = ecuRx,
             \/ t = q
             \/ \E f \in BridgeFrames : t = Append(q, f) /\ (Ends(f) => f.chunk[1] \in Done')
      PROVE  RequestsDone'
  <2>1. Received' = Received BY <1>8 DEF Received
  <2>2. Received' => ecuRx'.got[1][1] \in Done' BY <1>4, <1>8, <2>1
  <2> HIDE DEF Ends
  <2> QED BY <1>5, <1>6, <1>7, <1>8, <2>2
<1>9. CASE Divert \/ ReceiveFf
  <2>1. ecuRx' = ecuRx BY <1>9 DEF Divert, ReceiveFf, StartReceiving, ecuVars
  <2>2. t = q \/ t = Append(q, Fc("CTS", 0))
    BY <1>9 DEF Divert, ReceiveFf, StartReceiving, Transmit
  <2>3. ~Ends(Fc("CTS", 0)) BY ControlFrame
  <2> HIDE DEF Ends
  <2> QED BY <1>8, <2>1, <2>2, <2>3, ControlFrame
<1>10. ASSUME tx.state # "IDLE", tx' = tx, session' = session, reader'.pc = "sent"
       PROVE  tx.msg \in Done'
  <2>1. tx.msg \in Requests /\ tx.msg \notin session.unsent
    BY <1>10 DEF TypeIInv, MsgInv
  <2> QED BY <1>10, <2>1 DEF Done
<1>11. CASE SendSf
  <2>1. /\ tx.state = "SEND" /\ reader'.pc = "sent" /\ tx' = tx /\ session' = session
        /\ ecuRx' = ecuRx
    BY <1>11 DEF SendSf, Begin, At, ecuVars
  <2>2. t = q \/ t = Append(q, Sf(tx.msg)) BY <1>11 DEF SendSf, Transmit
  <2>3. tx.msg \in Requests /\ tx.msg \in Done' BY <1>10, <2>1, TxFacts
  <2>4. Sf(tx.msg) \in BridgeFrames /\ Sf(tx.msg).chunk[1] = tx.msg
    BY <2>3, FramesMade, FrameFields
  <2> HIDE DEF Ends
  <2> QED BY <1>8, <2>1, <2>2, <2>3, <2>4
<1>12. ASSUME NEW accepted \in BOOLEAN, SendFf(accepted) PROVE RequestsDone'
  <2>1. /\ tx.state = "SEND" /\ tx.left > 1 /\ ecuRx' = ecuRx
        /\ t = q \/ t = Append(q, Ff(tx.msg, tx.left))
    BY <1>12 DEF SendFf, Begin, Transmit, ecuVars
  <2>2. tx.msg \in Requests /\ tx.left = Chunks[tx.msg] /\ tx.left \in 2 .. LenWrap
    <3>1. tx.msg \in Requests /\ tx.left = Chunks[tx.msg] /\ tx.left \in 0 .. LenWrap
      BY <1>2, <2>1, TxFacts DEF PositionInv
    <3>2. LenWrap \in Nat BY Constants
    <3> QED BY <2>1, <3>1, <3>2
  <2>3. Ff(tx.msg, tx.left) \in BridgeFrames /\ Ff(tx.msg, tx.left).chunk = <<tx.msg, 1>>
    BY <2>2, FramesMade, FrameFields
  <2>4. ~Ends(Ff(tx.msg, tx.left)) BY <2>1, <2>2, <2>3
  <2> HIDE DEF Ends
  <2> QED BY <1>8, <2>1, <2>3, <2>4
<1>13. ASSUME NEW accepted \in BOOLEAN, SendCf(accepted) PROVE RequestsDone'
  <2>1. reader.pc = "cf_delay" /\ ecuRx' = ecuRx /\ (t = q \/ t = Append(q, NextCf))
    BY <1>13 DEF SendCf, Transmit, ecuVars
  <2>2. tx.state = "SEND_CF" /\ tx.left > 1 BY <1>2, <2>1 DEF ControlInv
  <2>3. NextCf \in BridgeFrames /\ NextCf.chunk = <<tx.msg, tx.pos + 1>>
    BY <1>2, <2>2, CfFits
  <2>4. tx.pos + 1 # Chunks[tx.msg]
    <3>1. tx.pos \in Nat /\ tx.left \in Nat /\ tx.pos + tx.left = Chunks[tx.msg]
      BY <1>2, <2>2, TxFacts DEF PositionInv
    <3> QED BY <2>2, <3>1
  <2>5. ~Ends(NextCf) BY <2>3, <2>4
  <2> HIDE DEF Ends
  <2> QED BY <1>8, <2>1, <2>3, <2>5
<1>14. CASE SendLastCf
  <2>1. /\ reader.pc = "last_delay" /\ reader'.pc = "sent" /\ tx' = tx /\ session' = session
        /\ ecuRx' = ecuRx /\ (t = q \/ t = Append(q, NextCf))
    BY <1>14 DEF SendLastCf, Transmit, At, ecuVars
  <2>2. tx.state = "SEND_CF" BY <1>2, <2>1 DEF ControlInv
  <2>3. NextCf \in BridgeFrames /\ NextCf.chunk = <<tx.msg, tx.pos + 1>>
    BY <1>2, <2>2, CfFits
  <2>4. tx.msg \in Done' /\ NextCf.chunk[1] = tx.msg BY <1>10, <2>1, <2>2, <2>3
  <2> HIDE DEF Ends
  <2> QED BY <1>8, <2>1, <2>3, <2>4
<1>15. CASE EcuReceives
  <2> DEFINE f == q[1]
  <2>1. /\ q # <<>> /\ t = Tail(q) /\ 1 \in 1 .. Len(q) /\ Head(q) = f /\ f \in BridgeFrames
    BY <1>1, <1>15, TailFacts DEF EcuReceives
  <2>2. Fits(f) /\ (Ends(f) => f.chunk[1] \in Done') BY <1>2, <1>3, <2>1 DEF QueueInv, SentInv
  <2>3. Data(f) => f.chunk[1] \in Requests /\ f.chunk[2] \in Nat
                   /\ f.chunk = <<f.chunk[1], f.chunk[2]>>
    BY <2>1, BridgeFrameFacts
  <2>4. ASSUME f.type = "SF", EcuStarts(f, 1, 0, FALSE)
        PROVE  ecuRx'.got[1][1] \in Done'
    <3>1. ecuRx'.got = <<f.chunk>> BY <2>4 DEF EcuStarts
    <3>2. Ends(f) BY <2>2, <2>4 DEF Fits, Data
    <3> QED BY <2>2, <3>1, <3>2
  <2>5. ASSUME f.type = "FF", NEW bs \in BlockSizes, EcuStarts(f, f.count, bs, TRUE)
        PROVE  ~Received'
    <3>1. ecuRx'.got = <<f.chunk>> /\ ecuRx'.count = f.count BY <2>5 DEF EcuStarts
    <3>2. f.count > 1 BY <2>2, <2>5 DEF Fits
    <3>3. Len(ecuRx'.got) = 1 BY <3>1
    <3> QED BY <3>1, <3>2, <3>3 DEF Received
  <2>6. ASSUME f.type = "CF", Receiving, EcuTakesCf(f), Received'
        PROVE  ecuRx'.got[1][1] \in Done'
    <3> DEFINE g == ecuRx.got
    <3>1. /\ ecuRx # Idle /\ g \in Seq(Requests \X Nat) /\ g # <<>>
          /\ ecuRx = [count |-> ecuRx.count, got |-> g, bs |-> ecuRx.bs, owes |-> ecuRx.owes]
      BY <2>6, ReceptionFields DEF Receiving, TypeIInv
    <3>2. Len(g) \in Nat \ {0} BY <3>1, TailFacts
    <3>3. Data(f) /\ First(q, 1) BY <2>1, <2>6 DEF First, Data
    <3>4. f.chunk = <<g[1][1], Len(g) + 1>> /\ ecuRx.count = Chunks[g[1][1]]
      BY <1>2, <2>1, <2>6, <3>1, <3>3 DEF QueueInv, EcuRxInv
    <3> DEFINE h == Append(g, f.chunk)
    <3>5. f.chunk \in Requests \X Nat BY <2>1, <3>3, BridgeFrameFacts
    <3>6. /\ Len(h) = Len(g) + 1 /\ \A i \in 1 .. Len(g) : h[i] = g[i]
      BY <3>1, <3>5, AppendFacts
    <3>7. h[1] = g[1]
      <4>1. 1 \in 1 .. Len(g) BY <3>2
      <4> QED BY <3>6, <4>1
    <3>8. PICK owes \in BOOLEAN : ecuRx' = [ecuRx EXCEPT !.got = h, !.owes = owes]
      BY <2>6 DEF EcuTakesCf, Received
    <3> HIDE DEF h
    <3>9. ecuRx'.got = h /\ ecuRx'.count = ecuRx.count BY <3>1, <3>8
    <3>10. Chunks[g[1][1]] = Len(g) + 1 BY <2>6, <3>4, <3>6, <3>9 DEF Received
    <3>11. Ends(f) /\ f.chunk[1] = g[1][1] BY <3>3, <3>4, <3>10
    <3> QED BY <2>2, <3>7, <3>9, <3>11
  <2>7. ASSUME ecuRx' = ecuRx, Received' PROVE ecuRx'.got[1][1] \in Done'
    BY <1>4, <2>7 DEF Received
  <2>8. Received' => ecuRx'.got[1][1] \in Done'
    BY <1>15, <2>1, <2>4, <2>5, <2>6, <2>7 DEF EcuReceives, ecuVars
  <2> HIDE DEF Ends
  <2> QED BY <1>6, <1>7, <2>1, <2>8
<1>16. ASSUME t = q,
              \/ ecuRx' = Idle \/ ecuRx' = ecuRx
              \/ ecuRx # Idle /\ ecuRx' = [ecuRx EXCEPT !.owes = FALSE]
       PROVE  RequestsDone'
  <2>1. ASSUME ecuRx # Idle, ecuRx' = [ecuRx EXCEPT !.owes = FALSE]
        PROVE  ecuRx'.got = ecuRx.got /\ ecuRx'.count = ecuRx.count
    <3>1. ecuRx = [count |-> ecuRx.count, got |-> ecuRx.got, bs |-> ecuRx.bs,
                   owes |-> ecuRx.owes]
      BY <2>1, ReceptionFields DEF TypeIInv
    <3> QED BY <2>1, <3>1
  <2>2. Received' => Received /\ ecuRx'.got = ecuRx.got BY <1>16, <2>1 DEF Received
  <2> HIDE DEF Ends
  <2> QED BY <1>4, <1>6, <1>7, <1>16, <2>2
<1>17. CASE EcuControlsFlow \/ EcuAnswers \/ EcuSendsCf \/ EcuGivesUp
  BY <1>16, <1>17 DEF EcuControlsFlow, EcuAnswers, EcuSendsCf, EcuGivesUp, EcuSends, Receiving
<1>18. CASE Client \/ FcTimePasses \/ CfTimePasses \/ Lose \/ OtherFrame \/ UNCHANGED vars
  BY <1>16, <1>18 DEF Client, OnClientConnected, OnClientDisconnected, Send, SetIds,
     FcTimePasses, CfTimePasses, Lose, OtherFrame, vars, ecuVars
<1>19. CASE ReceiveSf \/ BeginFc \/ EndFc \/ BeginCf \/ EndCf \/ NothingToSend \/ EndSend
            \/ EndFf \/ AwaitFirstFc \/ BeginBlock \/ EndCfSent
  BY <1>16, <1>19 DEF ReceiveSf, BeginFc, EndFc, BeginCf, EndCf, NothingToSend, EndSend,
     EndFf, AwaitFirstFc, BeginBlock, EndCfSent, ecuVars
<1> QED
  BY <1>9, <1>11, <1>12, <1>13, <1>14, <1>15, <1>17, <1>18, <1>19 DEF Next, Reader, Environment

LEMMA NextAnswer ==
  TypeIInv /\ Controlled /\ Queued /\ AnswerInv /\ [Next]_vars => AnswerInv'
<1> SUFFICES ASSUME TypeIInv, Controlled, Queued, AnswerInv, [Next]_vars, ~session'.raced
             PROVE  BufferAnswered' /\ FramesAsked' /\ RequestsDone'
  BY DEF AnswerInv
<1>1. BufferAnswered /\ FramesAsked /\ RequestsDone BY NeverUnraced DEF AnswerInv
<1> QED BY <1>1, BufferKept, FramesKept, RequestsKept

LEMMA InitAnswer == Init => AnswerInv
<1> SUFFICES ASSUME Init PROVE AnswerInv OBVIOUS
<1>1. /\ rx.state = "IDLE" /\ rx.buffer = <<>> /\ reader.pc = "poll" /\ fromEcu = <<>>
      /\ toEcu = <<>> /\ ecuRx = Idle /\ ecuTx = Idle /\ Len(fromEcu) = 0 /\ Len(toEcu) = 0
  BY EmptySeq DEF Init, At
<1> QED BY <1>1 DEF AnswerInv, BufferAnswered, FramesAsked, RequestsDone, Received

(* An answer to the request at hand is complete only when the transmitting *)
(* side is idle, so that Receive hands it over (again up to the first      *)
(* write of rcv_cf behind its buffer, as in the theorem that follows).     *)
THEOREM CompleteAnswerIsHandedOver == Spec => []AnswerIsHandedOver
<1>1. TypeIInv /\ AnswerInv => AnswerIsHandedOver
  <2> SUFFICES ASSUME TypeIInv, AnswerInv, NEW m \in Requests,
                      rx.buffer \in WholeMessages(Answer[m]), tx.msg = m, ~session.raced
               PROVE  tx.state = "IDLE"
    BY DEF AnswerIsHandedOver
  <2>1. PICK a \in Answer[m] : rx.buffer = Whole(a) BY DEF WholeMessages
  <2>2. Chunks[a] \in Nat \ {0}
    <3>1. a \in Answers BY <2>1 DEF Answers
    <3> QED BY <3>1, Constants
  <2>3. rx.buffer[1] = <<a, 1>> /\ rx.buffer # <<>>
    <3>1. 1 \in 1 .. Chunks[a] BY <2>2
    <3>2. rx.buffer[1] = <<a, 1>> BY <2>1, <3>1 DEF Whole
    <3>3. 1 \in DOMAIN rx.buffer BY <2>1, <3>1 DEF Whole
    <3> QED BY <3>2, <3>3
  <2>4. PICK n \in Answered : rx.buffer[1][1] \in Answer[n]
    BY <2>3 DEF AnswerInv, BufferAnswered
  <2>5. n \in Requests /\ a \in Answer[n] BY <2>3, <2>4 DEF Answered
  <2>6. m = n BY <2>1, <2>5, IsoTpAssumption
  <2> QED BY <2>4, <2>6 DEF Answered
<1> QED BY <1>1, InitTypes, NextTypes, InitTx, NextControl, NextQueue, InitAnswer, NextAnswer,
           PTL DEF Spec
-----------------------------------------------------------------------------
(* Blocks.                                                                 *)

LEMMA RemainderOfRemainder ==
  ASSUME NEW L \in Nat \ {0}, NEW b \in Nat \ {0}, L % b = 0, NEW x \in Nat
  PROVE  (x % L) % b = x % b
<1> DEFINE q == x \div L
           r == x % L
           c == L \div b
           d == r \div b
           s == r % b
<1>1. q \in Int /\ r \in 0 .. L - 1 /\ x = L * q + r BY DivMod
<1>2. c \in Int /\ L = b * c
  <2>1. c \in Int /\ L = b * c + (L % b) BY DivMod
  <2> QED BY <2>1
<1>3. d \in Int /\ s \in 0 .. b - 1 /\ r = b * d + s
  <2>1. r \in Int BY <1>1
  <2> HIDE DEF r
  <2> QED BY <2>1, DivMod
<1> HIDE DEF q, r, c, d, s
<1>4. x = b * (c * q + d) + s /\ c * q + d \in Int
  <2>1. L * q = b * (c * q) /\ c * q \in Int BY <1>1, <1>2
  <2>2. b * (c * q + d) = b * (c * q) + b * d BY <1>3, <2>1
  <2> QED BY <1>1, <1>3, <2>1, <2>2
<1> DEFINE k == c * q + d
<1>5. x = b * k + s /\ k \in Int /\ x \in Int BY <1>4
<1> HIDE DEF k
<1>6. x % b = s BY <1>3, <1>5, RemainderIs
<1> QED BY <1>6 DEF r, s

LEMMA HasFcFacts ==
  ASSUME NEW S, NEW q \in Seq(S)
  PROVE  /\ q # <<>> /\ HasFc(q) /\ ~(q[1].type = "FC" /\ q[1].status # "WT") => HasFc(Tail(q))
         /\ \A f \in S : HasFc(q) \/ (f.type = "FC" /\ f.status # "WT") => HasFc(Append(q, f))
<1>1. ASSUME q # <<>>, NEW i \in 1 .. Len(q), q[i].type = "FC", q[i].status # "WT",
             ~(q[1].type = "FC" /\ q[1].status # "WT")
      PROVE  HasFc(Tail(q))
  <2>1. /\ Len(q) \in Nat /\ Len(Tail(q)) = Len(q) - 1
        /\ \A k \in 1 .. Len(q) - 1 : Tail(q)[k] = q[k + 1]
    BY <1>1, TailFacts
  <2>2. i # 1 BY <1>1
  <2>3. i - 1 \in 1 .. Len(q) - 1 /\ (i - 1) + 1 = i BY <2>1, <2>2
  <2>4. Tail(q)[i - 1] = q[i] BY <2>1, <2>3
  <2> QED BY <1>1, <2>1, <2>3, <2>4 DEF HasFc
<1>2. ASSUME NEW f \in S, HasFc(q) \/ (f.type = "FC" /\ f.status # "WT")
      PROVE  HasFc(Append(q, f))
  <2>1. /\ Len(q) \in Nat /\ Len(Append(q, f)) = Len(q) + 1 /\ Append(q, f)[Len(q) + 1] = f
        /\ \A i \in 1 .. Len(q) : Append(q, f)[i] = q[i]
    BY AppendFacts
  <2>2. /\ 1 .. Len(q) \subseteq 1 .. Len(Append(q, f))
        /\ Len(q) + 1 \in 1 .. Len(Append(q, f))
    BY <2>1
  <2> QED BY <1>2, <2>1, <2>2 DEF HasFc
<1> QED BY <1>1, <1>2 DEF HasFc

LEMMA BlockSizeKept == TypeIInv /\ BlockSizeInv /\ [Next]_vars => BlockSizeInv'
<1> SUFFICES ASSUME TypeIInv, BlockSizeInv, [Next]_vars PROVE BlockSizeInv' OBVIOUS
<1>1. ASSUME ecuRx' = Idle \/ (ecuRx # Idle /\ ecuRx'.count = ecuRx.count /\ ecuRx'.bs = ecuRx.bs)
      PROVE  BlockSizeInv'
  BY <1>1 DEF BlockSizeInv
<1>2. ASSUME \/ ecuRx' = Idle \/ ecuRx' = ecuRx
             \/ ecuRx # Idle /\ ecuRx' = [ecuRx EXCEPT !.owes = FALSE]
      PROVE  BlockSizeInv'
  <2>1. ASSUME ecuRx # Idle, ecuRx' = [ecuRx EXCEPT !.owes = FALSE]
        PROVE  ecuRx'.count = ecuRx.count /\ ecuRx'.bs = ecuRx.bs
    <3>1. ecuRx = [count |-> ecuRx.count, got |-> ecuRx.got, bs |-> ecuRx.bs,
                   owes |-> ecuRx.owes]
      BY <2>1, ReceptionFields DEF TypeIInv
    <3> QED BY <2>1, <3>1
  <2> QED BY <1>1, <1>2, <2>1
<1>3. CASE EcuReceives
  <2>1. ASSUME NEW f, EcuStarts(f, 1, 0, FALSE) PROVE BlockSizeInv'
    BY <2>1 DEF EcuStarts, BlockSizeInv
  <2>2. ASSUME NEW f, NEW bs \in BlockSizes, EcuStarts(f, f.count, bs, TRUE)
        PROVE  BlockSizeInv'
    BY <2>2 DEF EcuStarts, BlockSizeInv
  <2>3. ASSUME NEW f, Receiving, EcuTakesCf(f) PROVE BlockSizeInv'
    <3>1. ecuRx # Idle
          /\ ecuRx = [count |-> ecuRx.count, got |-> ecuRx.got, bs |-> ecuRx.bs,
                      owes |-> ecuRx.owes]
      BY <2>3, ReceptionFields DEF Receiving, TypeIInv
    <3> DEFINE got == Append(ecuRx.got, f.chunk)
    <3>2. \/ ecuRx' = Idle
          \/ \E owes \in BOOLEAN : ecuRx' = [ecuRx EXCEPT !.got = got, !.owes = owes]
      BY <2>3 DEF EcuTakesCf
    <3> HIDE DEF got
    <3> QED BY <1>1, <3>1, <3>2
  <2> QED BY <1>2, <1>3, <2>1, <2>2, <2>3 DEF EcuReceives, ecuVars
<1>4. CASE ~EcuReceives
  <2>1. CASE Client \/ Reader \/ OtherFrame \/ FcTimePasses \/ CfTimePasses \/ Lose
             \/ UNCHANGED vars
    <3>1. ecuRx' = ecuRx BY <2>1, EcuRests
    <3> QED BY <1>2, <3>1
  <2>2. CASE EcuControlsFlow \/ EcuAnswers \/ EcuSendsCf \/ EcuGivesUp
    BY <1>2, <2>2 DEF EcuControlsFlow, EcuAnswers, EcuSendsCf, EcuGivesUp, Receiving
  <2> QED BY <1>4, <2>1, <2>2 DEF Next, Environment
<1> QED BY <1>3, <1>4

LEMMA BoundaryKept ==
  TypeIInv /\ Controlled /\ BoundaryInv /\ [Next]_vars => BoundaryInv'
<1> SUFFICES ASSUME TypeIInv, Controlled, BoundaryInv, [Next]_vars, ~session'.raced,
                    tx'.state = "WAIT_FC"
             PROVE  \E b \in BlockSizes : b > 0 /\ ((tx'.pos - 1) % SeqModulus) % b = 0
  BY DEF BoundaryInv
<1>1. tx \in TxMsg /\ ~session.raced BY NeverUnraced DEF TypeIInv
<1>2. CASE tx.state = "WAIT_FC" /\ tx'.pos = tx.pos BY <1>1, <1>2 DEF BoundaryInv
<1>3. CASE EndCfSent
  <2>1. /\ reader.pc = "cf_sent" /\ tx'.pos = tx.pos + 1 /\ tx.pos \in Nat
        /\ AtBlockBoundary \/ tx.state = "WAIT_FC"
    BY <1>1, <1>3 DEF EndCfSent, Advanced, TxMsg
  <2>2. tx.state = "SEND_CF" /\ tx.seq = tx.pos % SeqModulus
    BY <1>1, <2>1 DEF Controlled, ControlInv, PositionInv
  <2>3. tx.blocksize \in BlockSizes /\ tx.blocksize > 0 /\ tx.seq % tx.blocksize = 0
    <3>1. tx.blocksize \in BlockSizes \cup {0} BY <1>1 DEF TxMsg
    <3> QED BY <2>1, <2>2, <3>1 DEF AtBlockBoundary
  <2>4. tx'.pos - 1 = tx.pos BY <2>1
  <2> QED BY <2>2, <2>3, <2>4
<1>4. CASE ~EndCfSent
  <2>1. CASE EndFf BY <1>1, <2>1 DEF EndFf, Advanced, TxMsg
  <2>2. CASE Client
    BY <1>1, <1>2, <2>2 DEF Client, OnClientConnected, OnClientDisconnected, Send, SetIds, TxMsg
  <2>3. CASE EndFc
    <3>1. tx'.pos = tx.pos /\ (tx'.state = tx.state \/ tx'.state \in {"IDLE", "SEND_CF"})
      BY <1>1, <2>3 DEF EndFc, TxMsg
    <3> QED BY <1>2, <3>1
  <2>4. CASE EndSend BY <1>1, <2>4 DEF EndSend, TxMsg
  <2>5. CASE Divert \/ ReceiveSf \/ ReceiveFf \/ BeginFc \/ BeginCf \/ EndCf \/ NothingToSend
             \/ SendSf \/ (\E accepted \in BOOLEAN : SendFf(accepted)) \/ AwaitFirstFc
             \/ BeginBlock \/ (\E accepted \in BOOLEAN : SendCf(accepted)) \/ SendLastCf
    <3>1. tx'.pos = tx.pos /\ tx'.state = tx.state
      BY <1>1, <2>5 DEF Divert, ReceiveSf, ReceiveFf, StartReceiving, BeginFc, BeginCf, EndCf,
         NothingToSend, SendSf, SendFf, AwaitFirstFc, BeginBlock, SendCf, SendLastCf, TxMsg
    <3> QED BY <1>2, <3>1
  <2>6. CASE Environment \/ UNCHANGED vars
    <3>1. tx'.pos = tx.pos /\ tx'.state = tx.state
      BY <1>1, <2>6 DEF Environment, OtherFrame, FcTimePasses, CfTimePasses, Lose, EcuReceives,
         EcuControlsFlow, EcuAnswers, EcuSendsCf, EcuGivesUp, EcuSends, vars, TxMsg
    <3> QED BY <1>2, <3>1
  <2> QED BY <1>4, <2>1, <2>2, <2>3, <2>4, <2>5, <2>6 DEF Next, Reader
<1> QED BY <1>3, <1>4

(* Steps that touch neither the ECU's reception nor the block it is in.    *)
LEMMA FcStaysComing ==
  ASSUME FcComes, ecuRx' = ecuRx, session'.raced \/ ~session.raced,
         tx'.fcLost \/ ~tx.fcLost,
         AtBoundary' => AtBoundary,
         ~tx'.fcLost /\ AtBoundary' /\ HasFc(fromEcu) =>
           HasFc(fromEcu') \/ (reader'.pc = "rcv_fc" /\ reader'.frame.status # "WT"),
         ~NoData(toEcu) => ~NoData(toEcu'),
         AtBoundary' /\ reader.pc = "rcv_fc" /\ reader.frame.status # "WT" =>
           reader'.pc = "rcv_fc" /\ reader'.frame.status # "WT"
  PROVE  FcComes'
<1> SUFFICES ASSUME AtBoundary', ~session'.raced, ~tx'.fcLost, Receiving',
                    ecuRx'.bs > 0 => SeqModulus % ecuRx'.bs = 0
             PROVE  FcComing'
  BY DEF FcComes
<1>1. Receiving BY DEF Receiving
<1>2. FcComing BY <1>1 DEF FcComes
<1> QED BY <1>2 DEF FcComing

LEMMA ClientFc ==
  TypeIInv /\ Controlled /\ FcComes /\ Client => FcComes'
<1> SUFFICES ASSUME TypeIInv, Controlled, FcComes, Client, ~session'.raced, AtBoundary'
             PROVE  FcComes'
  BY DEF FcComes
<1>1. ~session.raced /\ ControlInv BY NeverUnraced DEF Controlled, Next
<1>2. tx \in TxMsg /\ session \in [connected : BOOLEAN, unsent : SUBSET Requests,
                                   openings : Nat, setIds : Nat, raced : BOOLEAN]
  BY DEF TypeIInv, SessionType
<1>3. UNCHANGED <<reader, toEcu, fromEcu, ecuRx>>
  BY DEF Client, OnClientConnected, OnClientDisconnected, Send, SetIds, ecuVars
<1>4. CASE tx' = tx
  <2>1. AtBoundary BY <1>3, <1>4 DEF AtBoundary, AtBlockBoundary
  <2> QED BY <1>1, <1>3, <1>4, <2>1, FcStaysComing
<1>5. CASE tx' # tx
  <2>1. tx'.state # "WAIT_FC" /\ reader.pc # "cf_sent"
    <3>1. CASE \E m \in Requests : Send(m)
      BY <1>1, <1>2, <1>5, <3>1 DEF Send, ControlInv
    <3>2. CASE SetIds BY <1>2, <3>2 DEF SetIds
    <3> QED BY <1>5, <3>1, <3>2 DEF Client, OnClientConnected, OnClientDisconnected
  <2> QED BY <1>3, <2>1 DEF AtBoundary
<1> QED BY <1>4, <1>5

LEMMA ReaderFc ==
  TypeIInv /\ Controlled /\ FcComes /\ (Reader \/ OtherFrame) => FcComes'
<1> SUFFICES ASSUME TypeIInv, Controlled, FcComes, Reader \/ OtherFrame, ~session'.raced,
                    AtBoundary'
             PROVE  FcComes'
  BY DEF FcComes
<1>1. tx \in TxMsg /\ session' = session /\ ecuRx' = ecuRx
  BY DEF TypeIInv, Reader, OtherFrame, Divert, ReceiveSf, ReceiveFf, StartReceiving, BeginFc,
         EndFc, BeginCf, EndCf, NothingToSend, SendSf, EndSend, SendFf, EndFf, AwaitFirstFc,
         BeginBlock, SendCf, EndCfSent, SendLastCf, ecuVars
<1>2. ASSUME NEW f \in BridgeFrames, NEW accepted \in BOOLEAN, Transmit(f, accepted)
      PROVE  /\ ~NoData(toEcu) => ~NoData(toEcu')
             /\ accepted /\ Data(f) => ~NoData(toEcu')
  <2>1. toEcu \in Seq(BridgeFrames) BY ToEcuFacts
  <2>2. NoData(Append(toEcu, f)) <=> NoData(toEcu) /\ ~Data(f) BY <2>1, ChainOfAppend
  <2>3. CASE accepted
    <3>1. toEcu' = Append(toEcu, f) BY <1>2, <2>3 DEF Transmit
    <3> QED BY <2>2, <3>1
  <2>4. CASE ~accepted
    <3>1. toEcu' = toEcu BY <1>2, <2>4 DEF Transmit
    <3> QED BY <2>4, <3>1
  <2> QED BY <2>3, <2>4
<1>3. fromEcu # <<>> =>
        /\ Head(fromEcu) = fromEcu[1] /\ fromEcu[1] \in EcuFrames
        /\ HasFc(fromEcu) /\ ~(fromEcu[1].type = "FC" /\ fromEcu[1].status # "WT")
             => HasFc(Tail(fromEcu))
  BY TypeFacts, TailFacts, HasFcFacts
(* The reader takes a frame.                                               *)
<1>4. CASE Divert
  <2>1. /\ fromEcu # <<>> /\ fromEcu' = Tail(fromEcu) /\ reader' = reader
        /\ tx'.state = tx.state /\ tx'.blocksize = tx.blocksize /\ tx'.seq = tx.seq
        /\ tx'.fcLost <=> tx.fcLost \/ fromEcu[1].type = "FC"
        /\ toEcu' = toEcu \/ Transmit(Fc("CTS", 0), TRUE)
    BY <1>1, <1>3, <1>4 DEF Divert, TxMsg
  <2>2. ~NoData(toEcu) => ~NoData(toEcu') BY <1>2, <2>1, ControlFrame
  <2>3. AtBoundary BY <2>1 DEF AtBoundary, AtBlockBoundary
  <2> QED BY <1>1, <1>3, <2>1, <2>2, <2>3, FcStaysComing
<1>5. CASE ReceiveSf \/ ReceiveFf \/ BeginCf
  <2>1. /\ fromEcu # <<>> /\ fromEcu' = Tail(fromEcu) /\ reader.pc = "poll"
        /\ fromEcu[1].type # "FC"
        /\ tx'.state = tx.state /\ tx'.fcLost = tx.fcLost
        /\ toEcu' = toEcu \/ \E accepted \in BOOLEAN : Transmit(Fc("CTS", 0), accepted)
    BY <1>1, <1>3, <1>5 DEF ReceiveSf, ReceiveFf, StartReceiving, BeginCf, Take, TxMsg
  <2>2. reader'.pc # "cf_sent"
    BY <1>5 DEF ReceiveSf, ReceiveFf, StartReceiving, BeginCf, At, Holding
  <2>3. ~NoData(toEcu) => ~NoData(toEcu') BY <1>2, <2>1, ControlFrame
  <2>4. AtBoundary BY <2>1, <2>2 DEF AtBoundary
  <2> QED BY <1>1, <1>3, <2>1, <2>3, <2>4, FcStaysComing
<1>6. CASE BeginFc
  <2>1. /\ fromEcu # <<>> /\ fromEcu' = Tail(fromEcu) /\ reader.pc = "poll"
        /\ reader'.pc # "cf_sent" /\ toEcu' = toEcu
        /\ tx'.state = tx.state /\ tx'.fcLost = tx.fcLost
        /\ tx.state = "WAIT_FC" => reader'.pc = "rcv_fc" /\ reader'.frame = fromEcu[1]
    BY <1>1, <1>3, <1>6 DEF BeginFc, Take, At, Holding, TxMsg
  <2>2. tx.state = "WAIT_FC" /\ AtBoundary BY <2>1 DEF AtBoundary
  <2>3. HasFc(fromEcu) =>
          HasFc(fromEcu') \/ (reader'.pc = "rcv_fc" /\ reader'.frame.status # "WT")
    BY <1>3, <2>1, <2>2
  <2> QED BY <1>1, <2>1, <2>2, <2>3, FcStaysComing
<1>7. CASE EndFc
  <2>1. /\ reader.pc = "rcv_fc" /\ reader'.pc = "process" /\ UNCHANGED <<fromEcu, toEcu>>
        /\ tx'.fcLost = tx.fcLost
        /\ \/ tx'.state \in {"SEND_CF", "IDLE"}
           \/ reader.frame.status = "WT" /\ tx'.state = tx.state
    BY <1>1, <1>7 DEF EndFc, At, TxMsg
  <2>2. tx'.state = "WAIT_FC" BY <2>1 DEF AtBoundary
  <2>3. AtBoundary /\ reader.frame.status = "WT" BY <2>1, <2>2 DEF AtBoundary
  <2> QED BY <1>1, <2>1, <2>3, FcStaysComing
(* It sends.                                                               *)
<1>8. CASE \E accepted \in BOOLEAN : SendCf(accepted)
  <2>1. PICK accepted \in BOOLEAN : SendCf(accepted) BY <1>8
  <2>2. /\ reader.pc = "cf_delay" /\ tx' = tx /\ Transmit(NextCf, accepted)
        /\ fromEcu' = fromEcu
        /\ ~accepted => reader'.pc \in {"cf_delay", "last_delay"}
    BY <2>1 DEF SendCf, LoopTop, At
  <2>3. NextCf \in BridgeFrames /\ Data(NextCf)
    <3>1. Controlled => ControlInv /\ PositionInv BY <1>1 DEF Controlled
    <3>2. tx.state = "SEND_CF" BY <2>2, <3>1 DEF ControlInv
    <3> QED BY <3>1, <3>2, CfFits DEF Data
  <2>4. CASE accepted
    BY <1>2, <2>2, <2>3, <2>4 DEF FcComes, FcComing
  <2>5. CASE ~accepted
    <3>1. AtBoundary BY <2>2, <2>5 DEF AtBoundary
    <3> QED BY <1>1, <1>2, <2>2, <2>3, <3>1, FcStaysComing
  <2> QED BY <2>4, <2>5
<1>9. CASE EndCfSent
  <2>1. /\ reader.pc = "cf_sent" /\ UNCHANGED <<fromEcu, toEcu>> /\ tx'.fcLost = tx.fcLost
        /\ AtBlockBoundary \/ (reader'.pc # "cf_sent" /\ tx'.state = tx.state)
    BY <1>1, <1>9 DEF EndCfSent, Advanced, LoopTop, At, TxMsg
  <2>2. AtBoundary BY <2>1 DEF AtBoundary
  <2> QED BY <1>1, <2>1, <2>2, FcStaysComing
<1>10. CASE EndSend \/ EndFf
  <2>1. tx'.state # "WAIT_FC" /\ reader'.pc # "cf_sent"
    <3>1. CASE EndSend BY <1>1, <3>1 DEF EndSend, At, TxMsg
    <3>2. CASE EndFf BY <1>1, <3>2 DEF EndFf, Advanced, At, TxMsg
    <3> QED BY <1>10, <3>1, <3>2
  <2> QED BY <2>1 DEF AtBoundary
<1>11. CASE EndCf \/ NothingToSend \/ AwaitFirstFc \/ BeginBlock \/ OtherFrame
            \/ SendSf \/ (\E accepted \in BOOLEAN : SendFf(accepted)) \/ SendLastCf
  <2>1. /\ reader.pc # "rcv_fc" /\ reader'.pc # "cf_sent" /\ fromEcu' = fromEcu
        /\ tx'.state = tx.state /\ tx'.fcLost = tx.fcLost
    <3>1. CASE EndCf
      <4>1. /\ reader.pc = "rcv_cf" /\ reader'.pc = "process" /\ fromEcu' = fromEcu
            /\ tx' = tx
        BY <3>1 DEF EndCf, At
      <4> QED BY <4>1
    <3>2. CASE ~EndCf
      BY <1>1, <1>11, <3>2 DEF NothingToSend, AwaitFirstFc, BeginBlock, Begin, OtherFrame,
         SendSf, SendFf, SendLastCf, LoopTop, At, TxMsg
    <3> QED BY <3>1, <3>2
  <2>2. AtBoundary BY <2>1 DEF AtBoundary
  <2>3. ~NoData(toEcu) => ~NoData(toEcu')
    <3>1. CASE toEcu' = toEcu BY <3>1
    <3>2. CASE SendSf
      <4>1. Sf(tx.msg) \in BridgeFrames BY <3>2, TxFacts, FramesMade DEF SendSf, Begin
      <4> QED BY <1>2, <3>2, <4>1 DEF SendSf
    <3>3. CASE \E accepted \in BOOLEAN : SendFf(accepted)
      <4>1. Ff(tx.msg, tx.left) \in BridgeFrames
        <5>1. tx.msg \in Requests /\ tx.left \in 2 .. LenWrap
          BY <3>3, TxFacts, Constants DEF SendFf, Begin
        <5> QED BY <5>1, FramesMade
      <4> QED BY <1>2, <3>3, <4>1 DEF SendFf
    <3>4. CASE SendLastCf
      <4>1. NextCf \in BridgeFrames
        <5>1. ControlInv /\ PositionInv BY <1>1 DEF Controlled
        <5>2. tx.state = "SEND_CF" BY <3>4, <5>1 DEF ControlInv, SendLastCf
        <5> QED BY <5>1, <5>2, CfFits
      <4> QED BY <1>2, <3>4, <4>1 DEF SendLastCf
    <3> QED BY <1>11, <3>1, <3>2, <3>3, <3>4
            DEF EndCf, NothingToSend, AwaitFirstFc, BeginBlock, OtherFrame
  <2> QED BY <1>1, <2>1, <2>2, <2>3, FcStaysComing
<1> QED BY <1>4, <1>5, <1>6, <1>7, <1>8, <1>9, <1>10, <1>11 DEF Reader

(* The ECU takes a frame: the last one of a block makes it owe a flow      *)
(* control frame.                                                          *)
LEMMA EcuReceivesFc ==
  ASSUME \A b, c \in BlockSizes : b = c
  PROVE  TypeIInv /\ Controlled /\ Queued /\ BlockSizeInv /\ BoundaryInv /\ FcComes
           /\ EcuReceives => FcComes'
<1> SUFFICES ASSUME TypeIInv, Controlled, Queued, BlockSizeInv, BoundaryInv, FcComes,
                    EcuReceives, AtBoundary', ~session'.raced, ~tx'.fcLost, Receiving',
                    ecuRx'.bs > 0 => SeqModulus % ecuRx'.bs = 0
             PROVE  FcComing'
  BY DEF FcComes
<1> DEFINE q == toEcu
           t == toEcu'
           f == q[1]
<1>1. /\ q # <<>> /\ t = Tail(q) /\ q \in Seq(BridgeFrames) /\ Head(q) = f
      /\ f \in BridgeFrames /\ UNCHANGED <<session, tx, reader, fromEcu>>
  BY ToEcuFacts, TailFacts DEF EcuReceives
<1>2. ~session.raced /\ ~tx.fcLost /\ AtBoundary BY <1>1 DEF AtBoundary, AtBlockBoundary
<1>3. ControlInv /\ PositionInv /\ QueueInv BY <1>2 DEF Controlled, Queued
<1>4. CASE f.type = "SF" /\ EcuStarts(f, 1, 0, FALSE)
  <2>1. ecuRx'.count = 1 /\ Len(ecuRx'.got) = 1 BY <1>4 DEF EcuStarts
  <2> QED BY <2>1 DEF Receiving
<1>5. CASE f.type = "FF" /\ \E bs \in BlockSizes : EcuStarts(f, f.count, bs, TRUE)
  BY <1>5 DEF EcuStarts, FcComing
<1>6. CASE f.type = "FC" /\ ecuRx' = ecuRx
  <2>1. FcComing BY <1>2, <1>6 DEF FcComes, Receiving
  <2>2. NoData(t) => NoData(q) BY <1>1, <1>6, ChainOfTail DEF Data
  <2> QED BY <1>1, <1>6, <2>1, <2>2 DEF FcComing
<1>7. CASE f.type = "CF" /\ Receiving /\ EcuTakesCf(f)
  <2> DEFINE g == ecuRx.got
             h == Append(g, f.chunk)
             owes == ecuRx.bs > 0 /\ Len(h) < ecuRx.count /\ (Len(h) - 1) % ecuRx.bs = 0
  <2>1. /\ ecuRx # Idle /\ g \in Seq(Requests \X Nat)
        /\ ecuRx.count \in Nat /\ ecuRx.bs \in BlockSizes \cup {0}
        /\ ecuRx = [count |-> ecuRx.count, got |-> g, bs |-> ecuRx.bs, owes |-> ecuRx.owes]
    BY <1>7, ReceptionFields DEF Receiving, TypeIInv
  <2>2. Len(h) \in Nat \ {0}
    <3>1. f.chunk \in Requests \X Nat BY <1>1, <1>7, BridgeFrameFacts DEF Data
    <3> QED BY <2>1, <3>1, AppendFacts
  <2>3. ecuRx' = [ecuRx EXCEPT !.got = h, !.owes = owes]
    BY <1>7 DEF EcuTakesCf, Receiving
  <2> HIDE DEF h, owes
  <2>4. /\ ecuRx'.got = h /\ ecuRx'.owes = owes /\ ecuRx'.bs = ecuRx.bs
        /\ ecuRx'.count = ecuRx.count
    BY <2>1, <2>3
  <2>5. Len(h) < ecuRx.count BY <2>4 DEF Receiving
  <2>6. ecuRx.bs \in BlockSizes BY <2>1, <2>2, <2>5 DEF BlockSizeInv
  <2>7. CASE ~NoData(t) BY <2>7 DEF FcComing
  <2>8. CASE NoData(t)
    <3>1. QueueInv' BY <1>3, TxTaken
    <3>2. InTransfer /\ SentUpTo = IF reader.pc = "cf_sent" THEN tx.pos + 1 ELSE tx.pos
      BY <1>2, <1>3 DEF AtBoundary, ControlInv, InTransfer, SentUpTo
    <3>3. InTransfer' /\ SentUpTo' = SentUpTo BY <1>1, <3>2 DEF InTransfer, SentUpTo
    <3>4. Len(h) = SentUpTo BY <2>4, <2>8, <3>1, <3>3 DEF QueueInv, EcuRxInv
    <3>5. tx.pos \in Nat /\ tx.seq \in Nat BY TxFacts
    <3>6. PICK b \in BlockSizes : b > 0 /\ ((Len(h) - 1) % SeqModulus) % b = 0
      <4>1. CASE reader.pc = "cf_sent"
        <5>1. tx.state = "SEND_CF" /\ tx.seq = tx.pos % SeqModulus
          BY <1>3, <4>1 DEF ControlInv, PositionInv
        <5>2. AtBlockBoundary BY <1>2, <5>1 DEF AtBoundary
        <5>3. tx.blocksize \in BlockSizes
          BY <5>2 DEF AtBlockBoundary, TypeIInv, TxMsg
        <5>4. Len(h) - 1 = tx.pos BY <3>2, <3>4, <3>5, <4>1
        <5> QED BY <5>1, <5>2, <5>3, <5>4 DEF AtBlockBoundary
      <4>2. CASE reader.pc # "cf_sent"
        <5>1. tx.state = "WAIT_FC" /\ Len(h) = tx.pos
          BY <1>2, <3>2, <3>4, <4>2 DEF AtBoundary
        <5> QED BY <1>2, <5>1 DEF BoundaryInv
      <4> QED BY <4>1, <4>2
    <3>7. ecuRx.bs = b /\ b \in Nat \ {0} /\ SeqModulus % b = 0
      <4>1. ecuRx.bs = b BY <2>6
      <4>2. b \in Nat \ {0} BY <3>6, IsoTpAssumption
      <4> QED BY <2>4, <4>1, <4>2
    <3>8. (Len(h) - 1) % b = 0
      <4> DEFINE p == Len(h) - 1
      <4>1. p \in Nat BY <2>2
      <4> HIDE DEF p
      <4>2. SeqModulus \in Nat \ {0} BY IsoTpAssumption
      <4>3. b \in Nat \ {0} BY <3>7
      <4>4. SeqModulus % b = 0 BY <3>7
      <4>5. (p % SeqModulus) % b = p % b BY <4>1, <4>2, <4>3, <4>4, RemainderOfRemainder, Zenon
      <4> QED BY <3>6, <4>5 DEF p
    <3>9. owes BY <2>5, <3>6, <3>7, <3>8 DEF owes
    <3> QED BY <2>4, <3>9 DEF FcComing
  <2> QED BY <2>7, <2>8
<1>8. CASE ~Receiving /\ ecuRx' = ecuRx BY <1>8 DEF Receiving
<1> QED BY <1>1, <1>4, <1>5, <1>6, <1>7, <1>8 DEF EcuReceives, ecuVars

LEMMA EnvironmentFc ==
  ASSUME \A b, c \in BlockSizes : b = c
  PROVE  TypeIInv /\ Controlled /\ Queued /\ BlockSizeInv /\ BoundaryInv /\ FcComes
           /\ Environment => FcComes'
<1> SUFFICES ASSUME TypeIInv, Controlled, Queued, BlockSizeInv, BoundaryInv, FcComes,
                    Environment
             PROVE  FcComes'
  OBVIOUS
<1>1. tx \in TxMsg /\ fromEcu \in Seq(EcuFrames) BY TypeFacts DEF TypeIInv
<1>2. ASSUME NEW f \in EcuFrames, EcuSends(f), ecuRx' = ecuRx PROVE FcComes'
  <2>1. UNCHANGED <<session, tx, reader, toEcu>> /\ fromEcu' = Append(fromEcu, f)
    BY <1>2 DEF EcuSends
  <2>2. HasFc(fromEcu) => HasFc(fromEcu') BY <1>1, <2>1, HasFcFacts
  <2>3. AtBoundary' => AtBoundary BY <2>1 DEF AtBoundary, AtBlockBoundary
  <2> QED BY <1>2, <2>1, <2>2, <2>3, FcStaysComing
<1>3. CASE EcuReceives BY <1>3, EcuReceivesFc
<1>4. CASE OtherFrame BY <1>4, ReaderFc
<1>5. CASE FcTimePasses \/ CfTimePasses
  <2>1. /\ UNCHANGED <<session, reader, toEcu, fromEcu, ecuRx>>
        /\ tx'.state = tx.state /\ tx'.blocksize = tx.blocksize /\ tx'.seq = tx.seq
        /\ tx'.fcLost = tx.fcLost
    BY <1>1, <1>5 DEF FcTimePasses, CfTimePasses, ecuVars, TxMsg
  <2>2. AtBoundary' => AtBoundary BY <2>1 DEF AtBoundary, AtBlockBoundary
  <2> QED BY <2>1, <2>2, FcStaysComing
<1>6. CASE Lose
  <2>1. /\ UNCHANGED <<session, reader, toEcu, ecuRx>>
        /\ fromEcu # <<>> /\ fromEcu' = Tail(fromEcu)
        /\ tx'.state = tx.state /\ tx'.blocksize = tx.blocksize /\ tx'.seq = tx.seq
        /\ tx'.fcLost <=> tx.fcLost \/ Head(fromEcu).type = "FC"
    BY <1>1, <1>6 DEF Lose, ecuVars, TxMsg
  <2>2. AtBoundary' => AtBoundary BY <2>1 DEF AtBoundary, AtBlockBoundary
  <2>3. Head(fromEcu).type # "FC" /\ HasFc(fromEcu) => HasFc(fromEcu')
    BY <1>1, <2>1, TailFacts, HasFcFacts
  <2> QED BY <2>1, <2>2, <2>3, FcStaysComing
<1>7. CASE EcuControlsFlow
  <2>1. PICK status \in Statuses :
          /\ EcuSends(Fc(status, ecuRx.bs))
          /\ ecuRx' = CASE status = "CTS" -> [ecuRx EXCEPT !.owes = FALSE]
                        [] status = "WT" -> ecuRx
                        [] OTHER -> Idle
    BY <1>7 DEF EcuControlsFlow
  <2> DEFINE f == Fc(status, ecuRx.bs)
  <2>2. f \in EcuFrames /\ f.type = "FC" /\ f.status = status
    <3>1. ecuRx.bs \in BlockSizes \cup {0}
      BY <1>7, ReceptionFields DEF EcuControlsFlow, Receiving, TypeIInv
    <3> QED BY <3>1, FramesMade, FrameFields
  <2>3. CASE status = "WT" BY <1>2, <2>1, <2>2, <2>3
  <2>4. CASE status = "CTS"
    <3>1. fromEcu' = Append(fromEcu, f) BY <2>1 DEF EcuSends
    <3> HIDE DEF f
    <3>2. HasFc(fromEcu') BY <1>1, <2>2, <2>4, <3>1, HasFcFacts
    <3> QED BY <3>2 DEF FcComes, FcComing
  <2>5. CASE status \notin {"WT", "CTS"}
    <3>1. ecuRx' = Idle BY <2>1, <2>5
    <3> QED BY <3>1 DEF FcComes, Receiving
  <2> QED BY <2>3, <2>4, <2>5
<1>8. CASE EcuSendsCf
  <2> DEFINE f == Cf(ecuTx.msg, ecuTx.sent + 1, ecuTx.sent % SeqModulus)
  <2>1. f \in EcuFrames
    <3>1. /\ ecuTx.msg \in Answers /\ ecuTx.sent \in 1 .. Chunks[ecuTx.msg] - 1
          /\ Chunks[ecuTx.msg] \in 1 .. LenWrap /\ LenWrap \in Nat
      BY <1>8, TransmissionFields, Constants DEF EcuSendsCf, TypeIInv
    <3>2. ecuTx.sent + 1 \in 1 .. LenWrap /\ ecuTx.sent \in Nat BY <3>1
    <3>3. (ecuTx.sent % SeqModulus) \in Nat BY <3>2, Constants
    <3> QED BY <3>1, <3>2, <3>3, FramesMade
  <2> QED BY <1>2, <1>8, <2>1 DEF EcuSendsCf
<1>9. CASE EcuAnswers
  BY <1>9 DEF EcuAnswers, FcComes, Receiving
<1>10. CASE EcuGivesUp
  <2>1. CASE ecuRx' = Idle BY <2>1 DEF FcComes, Receiving
  <2>2. CASE ecuRx' = ecuRx
    <3>1. UNCHANGED <<session, tx, reader, toEcu, fromEcu>> BY <1>10 DEF EcuGivesUp
    <3>2. AtBoundary' => AtBoundary BY <3>1 DEF AtBoundary, AtBlockBoundary
    <3> QED BY <2>2, <3>1, <3>2, FcStaysComing
  <2> QED BY <1>10, <2>1, <2>2 DEF EcuGivesUp
<1> QED BY <1>3, <1>4, <1>5, <1>6, <1>7, <1>8, <1>9, <1>10 DEF Environment

(* Wherever the transmitting side stops for a flow control frame, there is *)
(* one to come, as long as the ECU keeps to one block size.                *)
THEOREM BlocksOfOneSizeAgree ==
  ASSUME \A b, c \in BlockSizes : b = c
  PROVE  Spec => []BlocksAgree
<1>1. Init => BlockSizeInv /\ BoundaryInv /\ FcComes
  BY DEF Init, BlockSizeInv, BoundaryInv, FcComes, Receiving
<1>2. TypeIInv /\ Controlled /\ Queued /\ BlockSizeInv /\ BoundaryInv /\ FcComes /\ [Next]_vars
        => FcComes'
  <2>1. UNCHANGED vars /\ FcComes => FcComes'
    BY DEF vars, ecuVars, FcComes, FcComing, AtBoundary, AtBlockBoundary, Receiving
  <2> QED BY <2>1, ClientFc, ReaderFc, EnvironmentFc DEF Next
<1>3. TypeIInv /\ FcComes => BlocksAgree
  <2> SUFFICES ASSUME TypeIInv, FcComes, FcComing PROVE FcOnItsWay
    BY DEF BlocksAgree, FcComes, AtBoundary
  <2>1. HasFc(fromEcu) => \E i \in DOMAIN fromEcu : fromEcu[i].type = "FC"
    BY TypeFacts DEF HasFc
  <2>2. ~NoData(toEcu) => toEcu # <<>> BY EmptySeq DEF NoData
  <2> QED BY <2>1, <2>2 DEF FcComing, FcOnItsWay
<1> QED BY <1>1, <1>2, <1>3, InitTypes, NextTypes, InitTx, NextControl, NextQueue,
           BlockSizeKept, BoundaryKept, PTL DEF Spec

=============================================================================
