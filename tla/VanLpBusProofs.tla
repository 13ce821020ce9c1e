--------------------------- MODULE VanLpBusProofs ---------------------------
(***************************************************************************)
(* The bus engine pulls the bus down only where it is entitled to, and     *)
(* what it commits was on the bus, for every set of identifiers, every     *)
(* configuration, every length of the data and whatever the environment    *)
(* drives.                                                                 *)
(***************************************************************************)
EXTENDS VanLpBus, FiniteSetTheorems, SequenceTheorems, TLAPS

-----------------------------------------------------------------------------
(* The shape of a frame.                                                   *)

Kinds == {"normal", "acked", "query", "reply"}

Frame(f) ==
  /\ f.id \in Identifiers
  /\ f.kind \in Kinds
  /\ f.data \in Seq(Bit)
  /\ Len(f.data) >= MinEodGroup /\ Len(f.data) % 2 = 1 /\ Len(f.data) < MaxGroups

LEMMA FramesGiven ==
  /\ \A f \in Submissions : Frame(f) /\ f.kind # "reply"
  /\ \A c \in Configurations : \A s \in DOMAIN c.replies :
       Frame(c.replies[s]) /\ c.replies[s].kind = "reply"
<1>1. ASSUME NEW f \in Submissions PROVE Frame(f) /\ f.kind # "reply"
  BY BusAssumption DEF Frame, Kinds
<1>2. ASSUME NEW c \in Configurations, NEW s \in DOMAIN c.replies
      PROVE  Frame(c.replies[s]) /\ c.replies[s].kind = "reply"
  <2>1. c.replies[s] \in Range(c.replies) BY DEF Range
  <2>2. c.replies[s].kind = "reply" BY <2>1, BusAssumption
  <2>3. c.replies[s] \in UNION {Range(d.replies) : d \in Configurations} BY <2>1
  <2> QED BY <2>2, <2>3, BusAssumption DEF Frame, Kinds
<1> QED BY <1>1, <1>2

LEMMA Slices ==
  /\ IdLength \in Nat
  /\ RwSlice = IdLength + 3 /\ RtrSlice = IdLength + 4 /\ PrefixSlices = IdLength + 6
  /\ RwSlice \in Nat /\ RtrSlice \in Nat /\ PrefixSlices \in Nat
<1>1. IdLength \in Nat
  <2>1. PICK i \in Identifiers : TRUE BY BusAssumption
  <2>2. i \in Seq(Bit) /\ Len(i) = IdLength BY BusAssumption
  <2> QED BY <2>2, LenProperties
<1> QED BY <1>1 DEF RwSlice, RtrSlice, PrefixSlices

LEMMA CommandFacts ==
  ASSUME NEW kind \in Kinds
  PROVE  /\ Command(kind) \in Seq(Bit) /\ Len(Command(kind)) = 3
         /\ \A k \in 1 .. 3 : Command(kind)[k] \in Bit
         /\ kind \in {"query", "reply"} => Command(kind)[1] = 1 /\ Command(kind)[2] = 1
         /\ kind = "query" => Command(kind)[3] = 1
         /\ kind = "reply" => Command(kind)[3] = 0
<1> DEFINE c == Command(kind)
<1>1. \E x, y, z \in Bit : /\ c = <<x, y, z>>
                           /\ kind \in {"query", "reply"} => x = 1 /\ y = 1
                           /\ kind = "query" => z = 1
                           /\ kind = "reply" => z = 0
  BY DEF Kinds, Command, Bit
<1> HIDE DEF c
<1>2. PICK x \in Bit, y \in Bit, z \in Bit :
        /\ c = <<x, y, z>>
        /\ kind \in {"query", "reply"} => x = 1 /\ y = 1
        /\ kind = "query" => z = 1
        /\ kind = "reply" => z = 0
  BY <1>1
<1>3. c \in Seq(Bit) /\ Len(c) = 3 /\ c[1] = x /\ c[2] = y /\ c[3] = z BY <1>2
<1> QED BY <1>2, <1>3 DEF c

LEMMA PrefixFacts ==
  ASSUME NEW id \in Identifiers, NEW kind \in Kinds
  PROVE  /\ Prefix(id, kind) \in Seq(Bit) /\ Len(Prefix(id, kind)) = PrefixSlices
         /\ Prefix(id, kind)[1] = 0 /\ Prefix(id, kind)[2] = 1
         /\ \A k \in 1 .. IdLength : Prefix(id, kind)[k + 2] = id[k]
         /\ \A k \in 1 .. 3 : Prefix(id, kind)[IdLength + 2 + k] = Command(kind)[k]
         /\ Prefix(id, kind)[PrefixSlices] = 1 - Command(kind)[3]
<1> DEFINE sof == SofPattern
           com == Command(kind)
           rtr == <<1 - com[3]>>
<1>1. id \in Seq(Bit) /\ Len(id) = IdLength /\ IdLength \in Nat BY BusAssumption, Slices
<1>2. com \in Seq(Bit) /\ Len(com) = 3 /\ com[3] \in Bit BY CommandFacts
<1>3. sof \in Seq(Bit) /\ Len(sof) = 2 /\ sof[1] = 0 /\ sof[2] = 1 BY DEF SofPattern, Bit
<1>4. rtr \in Seq(Bit) /\ Len(rtr) = 1 /\ rtr[1] = 1 - com[3]
  <2>1. 1 - com[3] \in Bit BY <1>2 DEF Bit
  <2> QED BY <2>1
<1>5. Prefix(id, kind) = ((sof \o id) \o com) \o rtr BY DEF Prefix
<1> HIDE DEF sof, com, rtr
<1> DEFINE a == sof \o id
           b == a \o com
           p == b \o rtr
<1>6. /\ a \in Seq(Bit) /\ Len(a) = IdLength + 2 /\ a[1] = 0 /\ a[2] = 1
      /\ \A k \in 1 .. IdLength : a[k + 2] = id[k]
  <2>1. /\ a \in Seq(Bit) /\ Len(a) = Len(sof) + Len(id)
        /\ \A k \in 1 .. Len(sof) + Len(id) : a[k] = IF k <= Len(sof) THEN sof[k]
                                                                     ELSE id[k - Len(sof)]
    BY <1>1, <1>3, ConcatProperties
  <2> QED BY <1>1, <1>3, <2>1
<1> HIDE DEF a
<1>7. /\ b \in Seq(Bit) /\ Len(b) = IdLength + 5
      /\ \A k \in 1 .. IdLength + 2 : b[k] = a[k]
      /\ \A k \in 1 .. 3 : b[IdLength + 2 + k] = com[k]
  <2>1. /\ b \in Seq(Bit) /\ Len(b) = Len(a) + Len(com)
        /\ \A k \in 1 .. Len(a) + Len(com) : b[k] = IF k <= Len(a) THEN a[k]
                                                                  ELSE com[k - Len(a)]
    BY <1>2, <1>6, ConcatProperties
  <2> QED BY <1>1, <1>2, <1>6, <2>1
<1> HIDE DEF b
<1>8. /\ p \in Seq(Bit) /\ Len(p) = IdLength + 6
      /\ \A k \in 1 .. IdLength + 5 : p[k] = b[k]
      /\ p[IdLength + 6] = 1 - com[3]
  <2>1. /\ p \in Seq(Bit) /\ Len(p) = Len(b) + Len(rtr)
        /\ \A k \in 1 .. Len(b) + Len(rtr) : p[k] = IF k <= Len(b) THEN b[k]
                                                                  ELSE rtr[k - Len(b)]
    BY <1>4, <1>7, ConcatProperties
  <2> QED BY <1>1, <1>4, <1>7, <2>1
<1>9. p = Prefix(id, kind) BY <1>5 DEF p, b, a
<1> HIDE DEF p
<1>10. /\ p[1] = 0 /\ p[2] = 1
       /\ \A k \in 1 .. IdLength : p[k + 2] = id[k]
       /\ \A k \in 1 .. 3 : p[IdLength + 2 + k] = com[k]
  BY <1>1, <1>6, <1>7, <1>8
<1> QED BY <1>8, <1>9, <1>10, Slices DEF com

(* A query and its reply differ in RTR and its inverse only.               *)
LEMMA QueryAndReply ==
  ASSUME NEW id \in Identifiers
  PROVE  /\ \A k \in 1 .. RtrSlice : Prefix(id, "query")[k] = Prefix(id, "reply")[k]
         /\ Prefix(id, "query")[RtrSlice + 1] = 1
         /\ Prefix(id, "reply")[RtrSlice + 1] = 0 /\ Prefix(id, "reply")[RtrSlice + 2] = 1
<1> DEFINE q == Prefix(id, "query")
           r == Prefix(id, "reply")
<1>1. "query" \in Kinds /\ "reply" \in Kinds BY DEF Kinds
<1>2. /\ q[1] = 0 /\ q[2] = 1
      /\ \A k \in 1 .. IdLength : q[k + 2] = id[k]
      /\ \A k \in 1 .. 3 : q[IdLength + 2 + k] = Command("query")[k]
  BY <1>1, PrefixFacts
<1>3. /\ r[1] = 0 /\ r[2] = 1
      /\ \A k \in 1 .. IdLength : r[k + 2] = id[k]
      /\ \A k \in 1 .. 3 : r[IdLength + 2 + k] = Command("reply")[k]
      /\ r[PrefixSlices] = 1 - Command("reply")[3]
  BY <1>1, PrefixFacts
<1> HIDE DEF q, r
<1>4. /\ Command("query")[1] = 1 /\ Command("query")[2] = 1 /\ Command("query")[3] = 1
      /\ Command("reply")[1] = 1 /\ Command("reply")[2] = 1 /\ Command("reply")[3] = 0
  BY <1>1, CommandFacts
<1>5. /\ q[IdLength + 2 + 1] = 1 /\ q[IdLength + 2 + 2] = 1 /\ q[IdLength + 2 + 3] = 1
      /\ r[IdLength + 2 + 1] = 1 /\ r[IdLength + 2 + 2] = 1 /\ r[IdLength + 2 + 3] = 0
  BY <1>2, <1>3, <1>4
<1>6. ASSUME NEW k \in 1 .. RtrSlice PROVE q[k] = r[k]
  <2>1. k = 1 \/ k = 2 \/ k - 2 \in 1 .. IdLength \/ k = IdLength + 2 + 1 \/ k = IdLength + 2 + 2
    BY Slices
  <2>2. CASE k - 2 \in 1 .. IdLength
    <3>1. q[(k - 2) + 2] = r[(k - 2) + 2] BY <1>2, <1>3, <2>2
    <3>2. (k - 2) + 2 = k OBVIOUS
    <3> QED BY <3>1, <3>2
  <2> QED BY <1>2, <1>3, <1>5, <2>1, <2>2
<1>7. RtrSlice + 1 = IdLength + 2 + 3 /\ RtrSlice + 2 = PrefixSlices BY Slices
<1>8. r[RtrSlice + 2] = 1 BY <1>3, <1>4, <1>7
<1> QED BY <1>5, <1>6, <1>7, <1>8 DEF q, r

LEMMA WordsFacts ==
  ASSUME NEW f, Frame(f)
  PROVE  /\ Len(f.data) \in Nat
         /\ Message(f) \in Seq(Bit) /\ Len(Message(f)) = PrefixSlices + 2 * Len(f.data) + 2
         /\ Words(f) \in Seq(Bit) /\ Len(Words(f)) = Len(Message(f)) + 3
         /\ \A k \in 1 .. Len(Message(f)) : Words(f)[k] = Message(f)[k]
         /\ Words(f)[Len(Message(f)) + 1] = 1
         /\ \A k \in 1 .. PrefixSlices : Words(f)[k] = Prefix(f.id, f.kind)[k]
<1> DEFINE pre == Prefix(f.id, f.kind)
           inv == Inverted(f.data)
           n == Len(f.data)
<1>1. pre \in Seq(Bit) /\ Len(pre) = PrefixSlices /\ PrefixSlices \in Nat
  BY PrefixFacts, Slices DEF Frame
<1>2. n \in Nat /\ f.data \in Seq(Bit) BY LenProperties DEF Frame
<1>3. inv \in Seq(Bit) /\ Len(inv) = 2 * n
  <2>1. ASSUME NEW k \in 1 .. 2 * n
        PROVE  (IF k % 2 = 1 THEN f.data[(k + 1) \div 2] ELSE 1 - f.data[k \div 2]) \in Bit
    <3>1. CASE k % 2 = 1
      <4>1. (k + 1) \div 2 \in 1 .. n BY <1>2, <3>1
      <4>2. f.data[(k + 1) \div 2] \in Bit BY <1>2, <4>1, ElementOfSeq
      <4> QED BY <3>1, <4>2
    <3>2. CASE k % 2 # 1
      <4>1. k \div 2 \in 1 .. n BY <1>2, <3>2
      <4>2. f.data[k \div 2] \in Bit BY <1>2, <4>1, ElementOfSeq
      <4>3. 1 - f.data[k \div 2] \in Bit BY <4>2 DEF Bit
      <4> QED BY <3>2, <4>3
    <3> QED BY <3>1, <3>2
  <2>2. inv \in [1 .. 2 * n -> Bit] BY <2>1 DEF Inverted
  <2>3. 2 * n \in Nat BY <1>2
  <2> HIDE DEF inv
  <2>4. inv \in Seq(Bit) BY <2>2, <2>3, IsASeq
  <2>5. Len(inv) = 2 * n BY <2>2, <2>3, <2>4, LenProperties
  <2> QED BY <2>4, <2>5
<1> DEFINE eod == <<0, 0>>
           ackStates == <<1, 1>>
           eof == <<1>>
<1>4. /\ eod \in Seq(Bit) /\ Len(eod) = 2 /\ ackStates \in Seq(Bit) /\ Len(ackStates) = 2
      /\ ackStates[1] = 1 /\ eof \in Seq(Bit) /\ Len(eof) = 1
  BY DEF Bit
<1>5. Message(f) = (pre \o inv) \o eod BY DEF Message
<1>6. Words(f) = (Message(f) \o ackStates) \o eof BY DEF Words
<1> HIDE DEF pre, inv, eod, ackStates, eof
<1> DEFINE body == pre \o inv
           msg == body \o eod
           acked == msg \o ackStates
           all == acked \o eof
<1>7. /\ body \in Seq(Bit) /\ Len(body) = PrefixSlices + 2 * n
      /\ \A k \in 1 .. PrefixSlices : body[k] = pre[k]
  <2>1. /\ body \in Seq(Bit) /\ Len(body) = Len(pre) + Len(inv)
        /\ \A k \in 1 .. Len(pre) + Len(inv) : body[k] = IF k <= Len(pre) THEN pre[k]
                                                                        ELSE inv[k - Len(pre)]
    BY <1>1, <1>3, ConcatProperties
  <2> HIDE DEF n, body
  <2> QED BY <1>1, <1>2, <1>3, <2>1
<1> HIDE DEF body
<1>8. /\ msg \in Seq(Bit) /\ Len(msg) = PrefixSlices + 2 * n + 2
      /\ \A k \in 1 .. PrefixSlices : msg[k] = pre[k]
  <2>1. /\ msg \in Seq(Bit) /\ Len(msg) = Len(body) + Len(eod)
        /\ \A k \in 1 .. Len(body) + Len(eod) : msg[k] = IF k <= Len(body) THEN body[k]
                                                                         ELSE eod[k - Len(body)]
    BY <1>4, <1>7, ConcatProperties
  <2> HIDE DEF n, msg
  <2> QED BY <1>1, <1>2, <1>4, <1>7, <2>1
<1> HIDE DEF msg
<1> DEFINE l == Len(msg)
<1>9. l \in Nat /\ PrefixSlices <= l
  <2> HIDE DEF n
  <2> QED BY <1>1, <1>2, <1>8
<1>10. /\ acked \in Seq(Bit) /\ Len(acked) = l + 2
       /\ \A k \in 1 .. l : acked[k] = msg[k]
       /\ acked[l + 1] = 1
  <2>1. /\ acked \in Seq(Bit) /\ Len(acked) = Len(msg) + Len(ackStates)
        /\ \A k \in 1 .. Len(msg) + Len(ackStates) :
             acked[k] = IF k <= Len(msg) THEN msg[k] ELSE ackStates[k - Len(msg)]
    BY <1>4, <1>8, ConcatProperties
  <2> HIDE DEF acked
  <2> QED BY <1>4, <1>9, <2>1
<1> HIDE DEF acked
<1>11. /\ all \in Seq(Bit) /\ Len(all) = l + 3
       /\ \A k \in 1 .. l + 2 : all[k] = acked[k]
  <2>1. /\ all \in Seq(Bit) /\ Len(all) = Len(acked) + Len(eof)
        /\ \A k \in 1 .. Len(acked) + Len(eof) :
             all[k] = IF k <= Len(acked) THEN acked[k] ELSE eof[k - Len(acked)]
    BY <1>4, <1>10, ConcatProperties
  <2> HIDE DEF all
  <2> QED BY <1>4, <1>9, <1>10, <2>1
<1>12. Message(f) = msg BY <1>5 DEF msg, body
<1>13. Words(f) = all BY <1>6, <1>12 DEF all, acked
<1> HIDE DEF all
<1>14. /\ \A k \in 1 .. l : all[k] = msg[k]
       /\ all[l + 1] = 1
       /\ \A k \in 1 .. PrefixSlices : all[k] = pre[k]
  <2> HIDE DEF l
  <2>1. ASSUME NEW k \in 1 .. l PROVE all[k] = acked[k] /\ acked[k] = msg[k]
    BY <1>9, <1>10, <1>11
  <2>2. all[l + 1] = acked[l + 1]
    <3>1. l + 1 \in 1 .. l + 2 BY <1>9
    <3> QED BY <1>11, <3>1
  <2>3. ASSUME NEW k \in 1 .. PrefixSlices PROVE all[k] = pre[k]
    <3>1. k \in 1 .. l BY <1>1, <1>9
    <3> QED BY <1>8, <2>1, <3>1
  <2> QED BY <1>10, <2>1, <2>2, <2>3
<1> QED BY <1>2, <1>8, <1>9, <1>11, <1>12, <1>13, <1>14 DEF l, pre

-----------------------------------------------------------------------------
(* The inductive invariant: where the engine is, and what it may conclude  *)
(* from the states it has seen.                                            *)

IdleInv ==
  phase = "idle" =>
    driven = 1 /\ role = "none" /\ ~ack /\ group = 0 /\ seen = <<>> /\ capture = <<>>

ReceiveInv ==
  phase = "receive" =>
    /\ driven = 1 /\ role = "none" /\ ~ack /\ group = 0
    /\ capture = seen /\ Slice \in 1 .. PrefixSlices - 1

OnBus(f) == \A k \in 1 .. Slice : k # Ack1Slice(f) + 1 => seen[k] = Words(f)[k]

TransmitInv ==
  phase = "transmit" =>
    /\ Frame(frame) /\ group = 0 /\ ~ack
    /\ Slice \in 1 .. Len(Words(frame)) - 1 /\ OnBus(frame)
    /\ \/ role = "responder" /\ \E s \in DOMAIN config.replies : frame = config.replies[s]
       \/ /\ role \in {"normal", "requester"}
          /\ pending = frame /\ pending # NoFrame
          /\ role = "requester" <=> frame.kind = "query"

(* The own query was answered in the same frame.                           *)
Requested ==
  /\ pending \in Submissions /\ pending # NoFrame /\ pending.kind = "query"
  /\ \A k \in 1 .. RtrSlice : seen[k] = Words(pending)[k]
  /\ seen[RtrSlice + 1] = 0

HandoverInv ==
  phase = "handover" =>
    /\ driven = 1 /\ role = "requester" /\ ~ack /\ group = 0
    /\ Slice = RtrSlice + 1 /\ capture = Append(seen, 1) /\ Requested

Tracked == \A g \in 1 .. group : seen[PrefixSlices + 2 * g - 1] # seen[PrefixSlices + 2 * g]

(* Why the node is going to acknowledge.                                   *)
AckDue ==
  ack => \/ \E i \in config.acks : \A k \in 1 .. PrefixSlices : seen[k] = Prefix(i, "acked")[k]
         \/ role = "requester" /\ config.queryAck

Following ==
  /\ role \in {"none", "requester"}
  /\ role = "requester" => Requested /\ seen[PrefixSlices] = 1
  /\ AckDue /\ Tracked

TrackInv ==
  phase = "track" =>
    driven = 1 /\ Slice = PrefixSlices + 2 * group /\ capture = seen /\ Following

Eod(k) == EodAllowed /\ seen[k - 1] = 0 /\ seen[k] = 0

Ack0Inv ==
  phase = "ack0" =>
    /\ driven = 1 /\ Slice = PrefixSlices + 2 * group + 2
    /\ capture = seen /\ Following /\ Eod(Slice)

Ack1Inv ==
  phase = "ack1" =>
    /\ driven = IF ack THEN 0 ELSE 1
    /\ Slice = PrefixSlices + 2 * group + 3
    /\ seen = Append(capture, seen[Slice]) /\ Following /\ Eod(Slice - 1)
    /\ ack => seen[Slice] = 1

CommitInv == CommittedWholeFrames /\ CommittedAsOnBus

BusIInv ==
  /\ TypeOK /\ CommitInv
  /\ pending \in Submissions \cup {NoFrame}
  /\ IdleInv /\ ReceiveInv /\ TransmitInv /\ HandoverInv
  /\ TrackInv /\ Ack0Inv /\ Ack1Inv

LEMMA InitBus == Init => BusIInv
<1> SUFFICES ASSUME Init PROVE BusIInv OBVIOUS
<1>1. <<>> \in Seq(Bit) /\ Len(<<>>) = 0 BY EmptySeq
<1>2. MaxGroups \in Nat \ {0} /\ TxRun \in Nat BY BusAssumption
<1>3. TypeOK
  <2>1. Len(<<>>) <= PrefixSlices + 2 * MaxGroups /\ 0 \in 0 .. MaxGroups - 1 /\ 0 \in 0 .. TxRun
    BY <1>1, <1>2, Slices
  <2>2. 1 \in Bit BY DEF Bit
  <2> QED BY <1>1, <2>1, <2>2 DEF Init, TypeOK
<1>4. CommitInv BY DEF Init, CommitInv, CommittedWholeFrames, CommittedAsOnBus
<1> QED
  BY <1>3, <1>4
  DEF Init, BusIInv, IdleInv, ReceiveInv, TransmitInv, HandoverInv, TrackInv, Ack0Inv, Ack1Inv

(* A transaction that ends leaves nothing behind.                          *)
LEMMA EndKeeps ==
  ASSUME BusIInv, EndTransaction, UNCHANGED config, CommitInv',
         pending' \in Submissions \cup {NoFrame}
  PROVE  BusIInv'
<1>1. /\ driven' = 1 /\ recessiveRun' = 0 /\ phase' = "idle" /\ role' = "none"
      /\ capture' = <<>> /\ ack' = FALSE /\ group' = 0 /\ seen' = <<>>
  BY DEF EndTransaction
<1>2. <<>> \in Seq(Bit) /\ Len(<<>>) = 0 BY EmptySeq
<1>3. MaxGroups \in Nat \ {0} /\ TxRun \in Nat BY BusAssumption
<1>4. TypeOK'
  <2>1. Len(<<>>) <= PrefixSlices + 2 * MaxGroups /\ 0 \in 0 .. MaxGroups - 1 /\ 0 \in 0 .. TxRun
    BY <1>2, <1>3, Slices
  <2>2. 1 \in Bit BY DEF Bit
  <2> QED BY <1>1, <1>2, <2>1, <2>2 DEF BusIInv, TypeOK
<1> QED
  BY <1>1, <1>4
  DEF BusIInv, IdleInv, ReceiveInv, TransmitInv, HandoverInv, TrackInv, Ack0Inv, Ack1Inv

LEMMA NothingIsFine == NothingCommitted => CommitInv'
BY DEF NothingCommitted, CommitInv, CommittedWholeFrames, CommittedAsOnBus

LEMMA AbortKeeps ==
  ASSUME BusIInv, Abort
  PROVE  BusIInv'
<1>1. EndTransaction /\ UNCHANGED config /\ NothingCommitted BY DEF Abort
<1>2. pending' \in Submissions \cup {NoFrame} BY DEF Abort, EndLocal, BusIInv
<1> QED BY <1>1, <1>2, EndKeeps, NothingIsFine

LEMMA LevelFacts ==
  ASSUME TypeOK, NEW e \in Bit
  PROVE  /\ Level(e) \in Bit
         /\ driven = 1 => Level(e) = e
         /\ driven = 0 => Level(e) = 0
BY DEF TypeOK, Level, Min2, Bit

(* One more state has been seen; those before it stay.                     *)
LEMMA AppendFacts ==
  ASSUME NEW s \in Seq(Bit), NEW b \in Bit
  PROVE  /\ Append(s, b) \in Seq(Bit) /\ Len(Append(s, b)) = Len(s) + 1 /\ Len(s) \in Nat
         /\ \A k \in 1 .. Len(s) : Append(s, b)[k] = s[k]
         /\ Append(s, b)[Len(s) + 1] = b
BY AppendProperties, LenProperties

LEMMA PairFacts ==
  ASSUME NEW s \in Seq(Bit), NEW x \in Bit, NEW y \in Bit
  PROVE  /\ s \o <<x, y>> \in Seq(Bit) /\ Len(s \o <<x, y>>) = Len(s) + 2 /\ Len(s) \in Nat
         /\ \A k \in 1 .. Len(s) : (s \o <<x, y>>)[k] = s[k]
         /\ (s \o <<x, y>>)[Len(s) + 1] = x /\ (s \o <<x, y>>)[Len(s) + 2] = y
         /\ s \o <<x, y>> = Append(Append(s, x), y)
<1> DEFINE n == Len(s)
           u == <<x, y>>
           c == s \o u
           a == Append(s, x)
           t == Append(a, y)
<1>1. u \in Seq(Bit) /\ Len(u) = 2 /\ u[1] = x /\ u[2] = y OBVIOUS
<1>2. n \in Nat BY LenProperties
<1> HIDE DEF u
<1>3. /\ c \in Seq(Bit) /\ Len(c) = n + Len(u)
      /\ \A k \in 1 .. n + Len(u) : c[k] = IF k <= n THEN s[k] ELSE u[k - n]
  BY <1>1, ConcatProperties
<1>4. a \in Seq(Bit) /\ Len(a) = n + 1 /\ (\A k \in 1 .. n : a[k] = s[k]) /\ a[n + 1] = x
  BY AppendFacts
<1> HIDE DEF a
<1>5. /\ t \in Seq(Bit) /\ Len(t) = Len(a) + 1
      /\ (\A k \in 1 .. Len(a) : t[k] = a[k]) /\ t[Len(a) + 1] = y
  BY <1>4, AppendFacts
<1> HIDE DEF c, t, n
<1>6. c[n + 1] = x /\ c[n + 2] = y /\ \A k \in 1 .. n : c[k] = s[k] BY <1>1, <1>2, <1>3
<1>7. t[n + 1] = x /\ t[n + 2] = y /\ \A k \in 1 .. n : t[k] = s[k] BY <1>2, <1>4, <1>5
<1>8. \A k \in 1 .. n + 2 : c[k] = t[k]
  <2> TAKE k \in 1 .. n + 2
  <2>1. k \in 1 .. n \/ k = n + 1 \/ k = n + 2 BY <1>2
  <2> QED BY <1>6, <1>7, <2>1
<1>9. Len(c) = n + 2 /\ Len(t) = n + 2 BY <1>1, <1>2, <1>3, <1>4, <1>5
<1>10. c = t BY <1>3, <1>5, <1>8, <1>9, SeqEqual
<1> QED BY <1>2, <1>3, <1>6, <1>9, <1>10 DEF c, t, a, u, n

LEMMA QuietKeeps ==
  ASSUME BusIInv,
         \/ \E f \in Submissions : Submit(f)
         \/ \E c \in Configurations : AdoptConfiguration(c)
         \/ UNCHANGED vars
  PROVE  BusIInv'
<1>1. ASSUME NEW f \in Submissions, Submit(f) PROVE BusIInv'
  <2>1. /\ pending = NoFrame /\ pending' = f /\ CommitInv'
        /\ UNCHANGED <<config, driven, recessiveRun, phase, role, frame, capture, ack, group, seen>>
    BY <1>1, NothingIsFine DEF Submit
  <2>2. TypeOK' BY <2>1 DEF BusIInv, TypeOK
  <2>3. IdleInv' /\ ReceiveInv' /\ HandoverInv'
    BY <2>1 DEF BusIInv, IdleInv, ReceiveInv, HandoverInv, Requested, Slice
  <2>4. TransmitInv' BY <2>1 DEF BusIInv, TransmitInv, OnBus, Slice
  <2>5. TrackInv' /\ Ack0Inv' /\ Ack1Inv'
    BY <2>1
    DEF BusIInv, TrackInv, Ack0Inv, Ack1Inv, Following, Requested, AckDue, Tracked, Eod,
        EodAllowed, Slice
  <2> QED BY <2>1, <2>2, <2>3, <2>4, <2>5 DEF BusIInv
<1>2. ASSUME NEW c \in Configurations, AdoptConfiguration(c) PROVE BusIInv'
  <2>1. /\ phase = "idle" /\ config' = c /\ CommitInv'
        /\ UNCHANGED <<driven, recessiveRun, phase, role, frame, capture, ack, group, seen, pending>>
    BY <1>2, NothingIsFine DEF AdoptConfiguration
  <2>2. TypeOK' BY <2>1 DEF BusIInv, TypeOK
  <2> QED
    BY <2>1, <2>2
    DEF BusIInv, IdleInv, ReceiveInv, TransmitInv, HandoverInv, TrackInv, Ack0Inv, Ack1Inv
<1>3. CASE UNCHANGED vars
  <2>1. UNCHANGED <<config, driven, recessiveRun, phase, role, frame, capture, ack, group, seen,
                    pending, committed>>
    BY <1>3 DEF vars
  <2>2. TypeOK' /\ CommitInv'
    BY <2>1 DEF BusIInv, TypeOK, CommitInv, CommittedWholeFrames, CommittedAsOnBus
  <2>3. IdleInv' /\ ReceiveInv' /\ HandoverInv'
    BY <2>1 DEF BusIInv, IdleInv, ReceiveInv, HandoverInv, Requested, Slice
  <2>4. TransmitInv' BY <2>1 DEF BusIInv, TransmitInv, OnBus, Slice
  <2>5. TrackInv' /\ Ack0Inv' /\ Ack1Inv'
    BY <2>1
    DEF BusIInv, TrackInv, Ack0Inv, Ack1Inv, Following, Requested, AckDue, Tracked, Eod,
        EodAllowed, Slice
  <2> QED BY <2>1, <2>2, <2>3, <2>4, <2>5 DEF BusIInv
<1> QED BY <1>1, <1>2, <1>3

LEMMA IdleKeeps ==
  ASSUME BusIInv, NEW e \in Bit, IdleSlice(e)
  PROVE  BusIInv'
<1>1. TypeOK /\ IdleInv /\ phase = "idle" BY DEF BusIInv, IdleSlice
<1>2. /\ CommitInv'
      /\ UNCHANGED <<config, driven, role, frame, ack, group, pending>>
      /\ \/ phase' = "idle" /\ seen' = <<>> /\ capture' = <<>>
         \/ phase' = "receive" /\ seen' = <<0>> /\ capture' = <<0>>
  BY <1>1, NothingIsFine DEF IdleSlice, IdleInv
<1>3. recessiveRun' \in 0 .. TxRun
  <2>1. TxRun \in Nat /\ recessiveRun \in 0 .. TxRun BY <1>1, BusAssumption DEF TypeOK
  <2> QED BY <2>1 DEF IdleSlice, Min2
<1>4. /\ <<>> \in Seq(Bit) /\ Len(<<>>) = 0 /\ <<0>> \in Seq(Bit) /\ Len(<<0>>) = 1
  BY DEF Bit
<1>5. TypeOK'
  <2>1. MaxGroups \in Nat BY BusAssumption
  <2>2. Len(capture') <= PrefixSlices + 2 * MaxGroups
    <3>1. Len(capture') \in {0, 1} BY <1>2, <1>4
    <3>2. PrefixSlices \in Nat /\ PrefixSlices >= 1 BY Slices
    <3> QED BY <2>1, <3>1, <3>2
  <2> QED BY <1>1, <1>2, <1>3, <1>4, <2>2 DEF TypeOK
<1>6. 1 \in 1 .. PrefixSlices - 1 BY Slices
<1>7. ReceiveInv' BY <1>1, <1>2, <1>4, <1>6 DEF ReceiveInv, IdleInv, Slice
<1>8. IdleInv' BY <1>1, <1>2 DEF IdleInv
<1> QED
  BY <1>2, <1>5, <1>7, <1>8
  DEF BusIInv, IdleInv, ReceiveInv, TransmitInv, HandoverInv, TrackInv, Ack0Inv, Ack1Inv

LEMMA StartKeeps ==
  ASSUME BusIInv, StartTransmission
  PROVE  BusIInv'
<1>1. TypeOK /\ IdleInv /\ phase = "idle" BY DEF BusIInv, StartTransmission
<1>2. /\ CommitInv' /\ phase' = "transmit" /\ driven' = 0 /\ seen' = <<0>>
      /\ role' = (IF pending.kind = "query" THEN "requester" ELSE "normal")
      /\ frame' = pending /\ pending # NoFrame
      /\ UNCHANGED <<config, recessiveRun, capture, ack, group, pending>>
  BY NothingIsFine DEF StartTransmission
<1>3. pending \in Submissions /\ Frame(pending) BY <1>2, FramesGiven DEF BusIInv
<1>4. <<0>> \in Seq(Bit) /\ Len(<<0>>) = 1 /\ <<0>>[1] = 0 BY DEF Bit
<1>5. TypeOK' BY <1>1, <1>2, <1>4 DEF TypeOK, Bit
<1>6. Words(pending)[1] = 0 /\ 1 \in 1 .. Len(Words(pending)) - 1
  <2>1. /\ Len(Words(pending)) = Len(Message(pending)) + 3
        /\ Len(Message(pending)) = PrefixSlices + 2 * Len(pending.data) + 2
        /\ Len(pending.data) \in Nat
        /\ \A k \in 1 .. PrefixSlices : Words(pending)[k] = Prefix(pending.id, pending.kind)[k]
    BY <1>3, WordsFacts
  <2>2. Prefix(pending.id, pending.kind)[1] = 0 BY <1>3, PrefixFacts DEF Frame
  <2>3. PrefixSlices \in Nat /\ 1 \in 1 .. PrefixSlices BY Slices
  <2>4. Words(pending)[1] = 0 BY <2>1, <2>2, <2>3
  <2> QED BY <2>1, <2>3, <2>4
<1>7. TransmitInv'
  <2>1. \A k \in 1 .. 1 : <<0>>[k] = Words(pending)[k] BY <1>6, <1>4
  <2>2. Slice' = 1 BY <1>2, <1>4 DEF Slice
  <2>3. Frame(frame') /\ group' = 0 /\ ~ack' /\ Slice' \in 1 .. Len(Words(frame')) - 1
    BY <1>1, <1>2, <1>3, <1>6, <2>2 DEF IdleInv
  <2>4. \A k \in 1 .. Slice' : seen'[k] = Words(frame')[k] BY <1>2, <2>1, <2>2
  <2> QED BY <1>2, <2>3, <2>4 DEF TransmitInv, OnBus
<1> QED
  BY <1>2, <1>3, <1>5, <1>7
  DEF BusIInv, IdleInv, ReceiveInv, HandoverInv, TrackInv, Ack0Inv, Ack1Inv

LEMMA LeastExists ==
  ASSUME NEW X, X \subseteq Int, IsFiniteSet(X), X # {}
  PROVE  \E x \in X : \A y \in X : x <= y
<1> DEFINE UpToX(x) == {y \in X : y <= x}
           F == {UpToX(x) : x \in X}
<1>1. F \subseteq FiniteSubsetsOf(X) BY FS_Subset DEF FiniteSubsetsOf
<1>2. F # {} OBVIOUS
<1>3. IsWellFoundedOn(StrictSubsetOrdering(X), FiniteSubsetsOf(X))
  BY FS_StrictSubsetOrderingWellFounded
<1> HIDE DEF F
<1>4. \E U \in F : \A V \in F : <<V, U>> \notin StrictSubsetOrdering(X)
  BY <1>1, <1>2, <1>3, WFMin
<1> USE DEF F
<1>5. PICK x \in X : \A y \in X : <<UpToX(y), UpToX(x)>> \notin StrictSubsetOrdering(X)
  BY <1>4
<1>6. \A y \in X : x <= y
  <2> SUFFICES ASSUME NEW y \in X, y < x PROVE FALSE OBVIOUS
  <2>0. x \in Int /\ y \in Int /\ \A z \in X : z \in Int OBVIOUS
  <2>1. UpToX(y) \subseteq UpToX(x) /\ x \in UpToX(x) /\ x \notin UpToX(y)
    <3>1. \A z \in UpToX(y) : z \in UpToX(x) BY <2>0
    <3>2. x \in UpToX(x) /\ x \notin UpToX(y) BY <2>0
    <3> QED BY <3>1, <3>2
  <2>2. UpToX(y) \in SUBSET X /\ UpToX(x) \in SUBSET X OBVIOUS
  <2> HIDE DEF UpToX
  <2>3. <<UpToX(y), UpToX(x)>> \in StrictSubsetOrdering(X)
    BY <2>1, <2>2 DEF StrictSubsetOrdering
  <2> QED BY <1>5, <2>3
<1> QED BY <1>6

(* The first of the reply slots that match is taken.                       *)
LEMMA FirstSlot ==
  ASSUME TypeOK, NEW states, ReplyCandidates(states) # {}
  PROVE  LET slot == CHOOSE s \in ReplyCandidates(states) :
                       \A t \in ReplyCandidates(states) : s <= t
         IN  slot \in ReplyCandidates(states)
<1> DEFINE C == ReplyCandidates(states)
<1>1. C \subseteq DOMAIN config.replies BY DEF ReplyCandidates
<1>2. config.replies \in Seq(Range(config.replies)) BY BusAssumption DEF TypeOK
<1>3. DOMAIN config.replies = 1 .. Len(config.replies) /\ Len(config.replies) \in Nat
  BY <1>2, LenProperties
<1>4. IsFiniteSet(C) /\ C \subseteq Int
  <2>1. IsFiniteSet(DOMAIN config.replies) BY <1>3, FS_Interval
  <2>2. IsFiniteSet(C) BY <1>1, <2>1, FS_Subset
  <2>3. DOMAIN config.replies \subseteq Int BY <1>3
  <2> QED BY <1>1, <2>2, <2>3
<1> HIDE DEF C
<1>5. C # {} BY DEF C
<1>6. \E s \in C : \A t \in C : s <= t BY <1>4, <1>5, LeastExists
<1> QED BY <1>6 DEF C

(* Reception goes on, is followed by the rest of the frame, or turns into  *)
(* a reply at R/W.                                                         *)
LEMMA ReceiveKeeps ==
  ASSUME BusIInv, NEW e \in Bit, ReceiveSlice(e)
  PROVE  BusIInv'
<1>1. TypeOK /\ ReceiveInv /\ phase = "receive" BY DEF BusIInv, ReceiveSlice
<1> DEFINE b == Level(e)
           states == Append(seen, b)
<1>2. /\ driven = 1 /\ role = "none" /\ ~ack /\ group = 0 /\ capture = seen
      /\ Slice \in 1 .. PrefixSlices - 1 /\ seen \in Seq(Bit) /\ b \in Bit
  BY <1>1, LevelFacts DEF ReceiveInv, TypeOK
<1>3. /\ states \in Seq(Bit) /\ Len(states) = Slice + 1 /\ Slice \in Nat
  BY <1>2, AppendFacts DEF Slice
<1>4. CASE Len(states) = 2 /\ states # SofPattern
  BY <1>4, AbortKeeps DEF ReceiveSlice
<1>5. CASE ~(Len(states) = 2 /\ states # SofPattern)
  <2>1. /\ seen' = states /\ capture' = states
        /\ ack' = (Slice = PrefixSlices - 1 /\ AckCandidates(states) # {})
        /\ CommitInv' /\ UNCHANGED <<config, recessiveRun, group, pending>>
    BY <1>2, <1>5, NothingIsFine DEF ReceiveSlice
  <2>2. \/ /\ Slice = RwSlice /\ \E s \in ReplyCandidates(states) : frame' = config.replies[s]
           /\ phase' = "transmit" /\ role' = "responder" /\ driven' = 0
        \/ /\ phase' = IF Slice = PrefixSlices - 1 THEN "track" ELSE "receive"
           /\ UNCHANGED <<role, frame, driven>>
    <3>1. CASE Slice = RwSlice /\ ReplyCandidates(states) # {}
      <4> DEFINE slot == CHOOSE s \in ReplyCandidates(states) :
                           \A t \in ReplyCandidates(states) : s <= t
      <4>1. slot \in ReplyCandidates(states) BY <1>1, <3>1, FirstSlot
      <4>2. /\ phase' = "transmit" /\ role' = "responder" /\ driven' = 0
            /\ frame' = config.replies[slot]
        BY <1>5, <3>1 DEF ReceiveSlice
      <4> QED BY <3>1, <4>1, <4>2
    <3>2. CASE ~(Slice = RwSlice /\ ReplyCandidates(states) # {})
      BY <1>5, <3>2 DEF ReceiveSlice
    <3> QED BY <3>1, <3>2
  <2> HIDE DEF states, b
  <2>3. Slice' = Slice + 1 BY <1>3, <2>1 DEF Slice
  <2>4. TypeOK'
    <3>1. Len(capture') <= PrefixSlices + 2 * MaxGroups
      <4>1. MaxGroups \in Nat BY BusAssumption
      <4> QED BY <1>2, <1>3, <2>1, <4>1, Slices
    <3>2. driven' \in Bit /\ role' \in {"none", "responder"}
          /\ phase' \in {"receive", "track", "transmit"}
      BY <1>2, <2>2 DEF Bit
    <3> QED BY <1>1, <1>3, <2>1, <3>1, <3>2 DEF TypeOK
  <2>5. CASE /\ Slice = RwSlice /\ \E s \in ReplyCandidates(states) : frame' = config.replies[s]
             /\ phase' = "transmit" /\ role' = "responder" /\ driven' = 0
    <3>1. PICK s \in ReplyCandidates(states) : frame' = config.replies[s] BY <2>5
    <3>2. /\ s \in DOMAIN config.replies /\ config \in Configurations
          /\ Agrees(Prefix(frame'.id, "reply"), states)
      BY <1>1, <3>1 DEF ReplyCandidates, TypeOK
    <3>3. Frame(frame') /\ frame'.kind = "reply" BY <3>1, <3>2, FramesGiven
    <3>4. /\ Len(Message(frame')) = PrefixSlices + 2 * Len(frame'.data) + 2
          /\ Len(frame'.data) \in Nat /\ Len(Words(frame')) = Len(Message(frame')) + 3
          /\ \A k \in 1 .. PrefixSlices : Words(frame')[k] = Prefix(frame'.id, frame'.kind)[k]
      BY <3>3, WordsFacts
    <3>5. Slice' = RtrSlice /\ Len(states) = RtrSlice BY <1>3, <2>3, <2>5, Slices
    <3>6. \A k \in 1 .. RtrSlice : states[k] = Words(frame')[k]
      <4>1. Min2(Len(states), PrefixSlices) = RtrSlice BY <3>5, Slices DEF Min2
      <4>2. \A k \in 1 .. RtrSlice : Prefix(frame'.id, "reply")[k] = states[k]
        BY <3>2, <4>1 DEF Agrees
      <4> QED BY <3>3, <3>4, <4>2, Slices
    <3>7. Slice' \in 1 .. Len(Words(frame')) - 1
      <4> DEFINE l == Len(Words(frame'))
                 n == Len(frame'.data)
      <4>1. l = PrefixSlices + 2 * n + 2 + 3 /\ n \in Nat BY <3>4
      <4> HIDE DEF l, n
      <4>2. RtrSlice \in 1 .. l - 1 BY <4>1, Slices
      <4> QED BY <3>5, <4>2 DEF l
    <3>8. ~ack'
      <4>1. Slice # PrefixSlices - 1 BY <2>5, Slices
      <4> QED BY <2>1, <4>1
    <3>9. TransmitInv'
      <4>1. \A k \in 1 .. Slice' : seen'[k] = Words(frame')[k] BY <2>1, <3>5, <3>6
      <4>2. \E t \in DOMAIN config'.replies : frame' = config'.replies[t] BY <2>1, <3>1, <3>2
      <4> QED BY <1>2, <2>1, <2>5, <3>3, <3>7, <3>8, <4>1, <4>2 DEF TransmitInv, OnBus
    <3> QED
      BY <2>1, <2>4, <2>5, <3>9
      DEF BusIInv, IdleInv, ReceiveInv, HandoverInv, TrackInv, Ack0Inv, Ack1Inv
  <2>6. CASE /\ phase' = (IF Slice = PrefixSlices - 1 THEN "track" ELSE "receive")
             /\ UNCHANGED <<role, frame, driven>>
    <3>1. CASE Slice = PrefixSlices - 1
      <4>1. phase' = "track" /\ Slice' = PrefixSlices + 2 * group'
        BY <1>2, <2>1, <2>3, <2>6, <3>1, Slices
      <4>2. AckDue'
        <5> SUFFICES ASSUME ack' PROVE AckDue' BY DEF AckDue
        <5>1. PICK i \in config.acks : Agrees(Prefix(i, "acked"), states)
          BY <2>1 DEF AckCandidates
        <5>2. Min2(Len(states), PrefixSlices) = PrefixSlices BY <1>3, <3>1, Slices DEF Min2
        <5>3. \A k \in 1 .. PrefixSlices : states[k] = Prefix(i, "acked")[k]
          BY <5>1, <5>2 DEF Agrees
        <5> QED BY <2>1, <5>3 DEF AckDue
      <4>3. Tracked' BY <1>2, <2>1 DEF Tracked
      <4>4. TrackInv' BY <1>2, <2>1, <2>6, <4>1, <4>2, <4>3 DEF TrackInv, Following
      <4> QED
        BY <2>1, <2>4, <4>1, <4>4
        DEF BusIInv, IdleInv, ReceiveInv, TransmitInv, HandoverInv, Ack0Inv, Ack1Inv
    <3>2. CASE Slice # PrefixSlices - 1
      <4>1. phase' = "receive" /\ ~ack' /\ Slice' \in 1 .. PrefixSlices - 1
        <5>1. phase' = "receive" BY <2>6, <3>2
        <5>2. ~ack' BY <2>1, <3>2
        <5>3. Slice' \in 1 .. PrefixSlices - 1 BY <1>2, <2>3, <3>2, Slices
        <5> QED BY <5>1, <5>2, <5>3
      <4>2. ReceiveInv' BY <1>2, <2>1, <2>6, <4>1 DEF ReceiveInv
      <4> QED
        BY <2>1, <2>4, <4>1, <4>2
        DEF BusIInv, IdleInv, TransmitInv, HandoverInv, TrackInv, Ack0Inv, Ack1Inv
    <3> QED BY <3>1, <3>2
  <2> QED BY <2>2, <2>5, <2>6
<1> QED BY <1>4, <1>5

-----------------------------------------------------------------------------
(* Transmission.                                                           *)

LEMMA TransmitFacts ==
  ASSUME BusIInv, phase = "transmit", NEW e \in Bit
  PROVE  /\ Frame(frame) /\ Slice \in Nat /\ Slice >= 1
         /\ seen \in Seq(Bit) /\ Len(seen) = Slice
         /\ LocalBit \in Bit /\ LocalBit = Words(frame)[Slice + 1]
         /\ Outcome(e) \in Bit
         /\ Lost(e) \/ RtrLost(e) \/ IsAck1 \/ Outcome(e) = LocalBit
<1>1. /\ Frame(frame) /\ Slice \in 1 .. Len(Words(frame)) - 1 /\ seen \in Seq(Bit)
  BY DEF BusIInv, TransmitInv, TypeOK
<1>2. Words(frame) \in Seq(Bit) BY <1>1, WordsFacts
<1>3. Len(Words(frame)) \in Nat BY <1>2, LenProperties
<1>4. Slice + 1 \in 1 .. Len(Words(frame)) BY <1>1, <1>3
<1>5. LocalBit \in Bit BY <1>2, <1>4, ElementOfSeq DEF LocalBit
<1>6. Outcome(e) \in Bit /\ (LocalBit = 0 => Outcome(e) = 0)
  BY <1>5 DEF Outcome, Min2, Bit
<1>7. Lost(e) \/ RtrLost(e) \/ IsAck1 \/ Outcome(e) = LocalBit
  BY <1>5, <1>6 DEF Lost, Bit
<1> QED BY <1>1, <1>5, <1>6, <1>7 DEF Slice, LocalBit

LEMMA TransmitKeeps ==
  ASSUME BusIInv, NEW e \in Bit, TransmitSlice(e)
  PROVE  BusIInv'
<1>1. phase = "transmit" /\ TypeOK /\ TransmitInv BY DEF TransmitSlice, BusIInv
<1> DEFINE o == Outcome(e)
<1>2. /\ Frame(frame) /\ Slice \in Nat /\ Slice >= 1 /\ seen \in Seq(Bit) /\ Len(seen) = Slice
      /\ LocalBit \in Bit /\ LocalBit = Words(frame)[Slice + 1] /\ o \in Bit
      /\ IsAck1 \/ o = LocalBit
  BY <1>1, TransmitFacts DEF TransmitSlice
<1>3. /\ Slice + 1 < Len(Words(frame)) /\ driven' = LocalBit /\ seen' = Append(seen, o)
      /\ CommitInv'
      /\ UNCHANGED <<config, recessiveRun, phase, role, frame, capture, ack, group, pending>>
  BY NothingIsFine DEF TransmitSlice
<1> HIDE DEF o
<1>4. /\ seen' \in Seq(Bit) /\ Slice' = Slice + 1
      /\ \A k \in 1 .. Slice : seen'[k] = seen[k]
      /\ seen'[Slice + 1] = o
  BY <1>2, <1>3, AppendFacts DEF Slice
<1>5. TypeOK' BY <1>1, <1>2, <1>3, <1>4 DEF TypeOK
<1>6. \A k \in 1 .. Slice' : k # Ack1Slice(frame) + 1 => seen'[k] = Words(frame)[k]
  <2> SUFFICES ASSUME NEW k \in 1 .. Slice', k # Ack1Slice(frame) + 1
               PROVE  seen'[k] = Words(frame)[k]
    OBVIOUS
  <2>1. CASE k \in 1 .. Slice BY <1>1, <1>4, <2>1 DEF TransmitInv, OnBus
  <2>2. CASE k = Slice + 1
    <3>1. ~IsAck1 BY <2>2 DEF IsAck1
    <3> QED BY <1>2, <1>4, <2>2, <3>1
  <2> QED BY <1>2, <1>4, <2>1, <2>2
<1>7. Slice' \in 1 .. Len(Words(frame)) - 1
  <2>1. Len(Words(frame)) \in Nat BY <1>2, WordsFacts, LenProperties
  <2> QED BY <1>2, <1>3, <1>4, <2>1
<1>8. TransmitInv' BY <1>1, <1>2, <1>3, <1>6, <1>7 DEF TransmitInv, OnBus
<1> QED
  BY <1>1, <1>3, <1>5, <1>8
  DEF BusIInv, IdleInv, ReceiveInv, HandoverInv, TrackInv, Ack0Inv, Ack1Inv

LEMMA LoseKeeps ==
  ASSUME BusIInv, NEW e \in Bit, LoseArbitration(e)
  PROVE  BusIInv'
<1>1. EndTransaction /\ UNCHANGED config /\ NothingCommitted BY DEF LoseArbitration
<1>2. pending' \in Submissions \cup {NoFrame} BY DEF LoseArbitration, EndLocal, BusIInv
<1> QED BY <1>1, <1>2, EndKeeps, NothingIsFine

(* RTR goes to the requested module.                                       *)
LEMMA LoseRtrKeeps ==
  ASSUME BusIInv, NEW e \in Bit, LoseRtr(e)
  PROVE  BusIInv'
<1>1. phase = "transmit" /\ TypeOK /\ TransmitInv BY DEF LoseRtr, BusIInv
<1>2. /\ Frame(frame) /\ Slice \in Nat /\ Slice >= 1 /\ seen \in Seq(Bit) /\ Len(seen) = Slice
  BY <1>1, TransmitFacts
<1>3. /\ role = "requester" /\ Slice = RtrSlice /\ driven' = 1 /\ seen' = Append(seen, 0)
      /\ capture' = SubSeq(Words(frame), 1, RtrSlice) \o <<0, 1>> /\ phase' = "handover"
      /\ CommitInv'
      /\ UNCHANGED <<config, recessiveRun, role, frame, ack, group, pending>>
  BY NothingIsFine DEF LoseRtr, RtrLost
<1>4. /\ pending = frame /\ pending # NoFrame /\ pending \in Submissions
      /\ pending.kind = "query" /\ ~ack /\ group = 0 /\ OnBus(frame)
  BY <1>1, <1>3 DEF TransmitInv, BusIInv
<1>5. /\ Words(frame) \in Seq(Bit) /\ Len(Words(frame)) = Len(Message(frame)) + 3
      /\ Len(Message(frame)) = PrefixSlices + 2 * Len(frame.data) + 2
      /\ Len(frame.data) \in Nat
  BY <1>2, WordsFacts
<1> DEFINE l == Len(Words(frame))
           n == Len(frame.data)
           own == SubSeq(Words(frame), 1, RtrSlice)
<1>6. l = PrefixSlices + 2 * n + 5 /\ n \in Nat /\ Ack1Slice(frame) = PrefixSlices + 2 * n + 3
  BY <1>5, Slices DEF Ack1Slice
<1> HIDE DEF n
<1>7. RtrSlice \in 1 .. l /\ RtrSlice < Ack1Slice(frame)
  <2> HIDE DEF l
  <2> QED BY <1>6, Slices
<1>8. seen = own
  <2>1. \A k \in 1 .. RtrSlice : seen[k] = Words(frame)[k]
    BY <1>3, <1>4, <1>6, <1>7, Slices DEF OnBus
  <2> DEFINE w == Words(frame)
  <2>2. w \in Seq(Bit) /\ RtrSlice \in 1 .. Len(w) /\ RtrSlice \in Nat
    BY <1>5, <1>7, Slices DEF l
  <2>3. own = SubSeq(w, 1, RtrSlice) OBVIOUS
  <2> HIDE DEF own, w
  <2>4. own \in Seq(Bit) /\ Len(own) = RtrSlice /\ \A k \in 1 .. RtrSlice : own[k] = w[k]
    BY <2>2, <2>3
  <2> QED BY <1>2, <1>3, <2>1, <2>4, SeqEqual DEF w
<1>9. capture' = Append(seen', 1)
  <2>1. 0 \in Bit /\ 1 \in Bit BY DEF Bit
  <2>2. capture' = seen \o <<0, 1>> BY <1>3, <1>8
  <2>3. seen \o <<0, 1>> = Append(Append(seen, 0), 1) BY <1>2, <2>1, PairFacts
  <2> HIDE DEF own
  <2> QED BY <1>3, <2>2, <2>3
<1>10. /\ seen' \in Seq(Bit) /\ Slice' = RtrSlice + 1
       /\ \A k \in 1 .. RtrSlice : seen'[k] = seen[k]
       /\ seen'[RtrSlice + 1] = 0
  <2>1. 0 \in Bit BY DEF Bit
  <2> QED BY <1>2, <1>3, <2>1, AppendFacts DEF Slice
<1>11. Requested'
  <2>1. \A k \in 1 .. RtrSlice : seen'[k] = Words(pending)[k]
    <3> TAKE k \in 1 .. RtrSlice
    <3>1. k \in 1 .. Slice /\ k # Ack1Slice(frame) + 1 BY <1>3, <1>6, <1>7, Slices
    <3>2. seen[k] = Words(frame)[k] BY <1>4, <3>1 DEF OnBus
    <3> QED BY <1>3, <1>4, <1>10, <3>2
  <2> QED BY <1>3, <1>4, <1>10, <2>1 DEF Requested
<1>12. TypeOK'
  <2>1. 1 \in Bit BY DEF Bit
  <2>2. capture' \in Seq(Bit) /\ Len(capture') = RtrSlice + 2
    <3> DEFINE s == seen'
    <3>1. s \in Seq(Bit) /\ Len(s) = RtrSlice + 1 BY <1>10 DEF Slice
    <3>2. capture' = Append(s, 1) BY <1>9
    <3> HIDE DEF s
    <3>3. Append(s, 1) \in Seq(Bit) /\ Len(Append(s, 1)) = Len(s) + 1 BY <2>1, <3>1, AppendFacts
    <3> QED BY <3>1, <3>2, <3>3, Slices
  <2>3. MaxGroups \in Nat BY BusAssumption
  <2>4. Len(capture') <= PrefixSlices + 2 * MaxGroups BY <2>2, <2>3, Slices
  <2> QED BY <1>1, <1>3, <1>10, <2>1, <2>2, <2>4 DEF TypeOK
<1>13. HandoverInv' BY <1>3, <1>4, <1>9, <1>10, <1>11 DEF HandoverInv
<1> QED
  BY <1>3, <1>4, <1>12, <1>13
  DEF BusIInv, IdleInv, ReceiveInv, TransmitInv, TrackInv, Ack0Inv, Ack1Inv

(* A frame sent to its end was on the bus, whoever acknowledged it.        *)
LEMMA CompleteKeeps ==
  ASSUME BusIInv, NEW e \in Bit, CompleteTransmission(e)
  PROVE  BusIInv'
<1>1. phase = "transmit" /\ TypeOK /\ TransmitInv BY DEF CompleteTransmission, BusIInv
<1>2. /\ Frame(frame) /\ Slice \in Nat /\ Slice >= 1 /\ seen \in Seq(Bit) /\ Len(seen) = Slice
      /\ OnBus(frame)
  BY <1>1, TransmitFacts DEF TransmitInv
<1> DEFINE m == Message(frame)
           n == Len(frame.data)
           l == Len(Words(frame))
           last == <<1, seen[Ack1Slice(frame) + 1]>>
           sent == m \o last
<1>3. /\ n \in Nat /\ m \in Seq(Bit) /\ Len(m) = PrefixSlices + 2 * n + 2 /\ l = Len(m) + 3
      /\ \A k \in 1 .. Len(m) : Words(frame)[k] = m[k]
      /\ Words(frame)[Len(m) + 1] = 1
  BY <1>2, WordsFacts
<1>4. /\ Slice + 1 = l /\ EndTransaction /\ UNCHANGED config
      /\ committed' = [states |-> m, ack |-> last, bus |-> seen]
  BY DEF CompleteTransmission, Commit
<1>5. Ack1Slice(frame) = Len(m) + 1 BY DEF Ack1Slice
<1> HIDE DEF l, n, m
<1>6. Len(m) \in Nat /\ Slice = Len(m) + 2
  <2>1. 2 * n \in Nat BY <1>3
  <2> QED BY <1>2, <1>3, <1>4, <2>1, Slices
<1>7. sent = seen
  <2>1. seen[Slice] \in Bit /\ Ack1Slice(frame) + 1 = Slice
    BY <1>2, <1>5, <1>6, ElementOfSeq
  <2>2. last \in Seq(Bit) /\ Len(last) = 2 /\ last[1] = 1 /\ last[2] = seen[Slice]
    BY <2>1 DEF Bit
  <2> HIDE DEF last
  <2>9. /\ sent \in Seq(Bit) /\ Len(sent) = Len(m) + Len(last)
        /\ \A k \in 1 .. Len(m) + Len(last) : sent[k] = IF k <= Len(m) THEN m[k]
                                                                      ELSE last[k - Len(m)]
    BY <1>3, <2>2, ConcatProperties
  <2> HIDE DEF sent
  <2>3. /\ sent \in Seq(Bit) /\ Len(sent) = Len(m) + 2
        /\ \A k \in 1 .. Len(m) + 2 : sent[k] = IF k <= Len(m) THEN m[k] ELSE last[k - Len(m)]
    BY <2>9, <2>2
  <2>4. \A k \in 1 .. Len(m) + 1 : seen[k] = Words(frame)[k]
    BY <1>2, <1>5, <1>6 DEF OnBus
  <2>5. \A k \in 1 .. Len(m) + 2 : sent[k] = seen[k]
    <3> TAKE k \in 1 .. Len(m) + 2
    <3>1. CASE k <= Len(m) BY <1>3, <1>6, <2>3, <2>4, <3>1
    <3>2. CASE k = Len(m) + 1 BY <1>3, <1>6, <2>2, <2>3, <2>4, <3>2
    <3>3. CASE k = Len(m) + 2 BY <1>6, <2>2, <2>3, <3>3
    <3> QED BY <1>6, <3>1, <3>2, <3>3
  <2> QED BY <1>2, <1>6, <2>3, <2>5, SeqEqual
<1>8. CommitInv'
  <2> DEFINE groups == (Len(m) - PrefixSlices) \div 2
  <2>1. n % 2 = 1 /\ n >= MinEodGroup /\ n < MaxGroups BY <1>2 DEF Frame, n
  <2>2. Len(m) - PrefixSlices = 2 * (n + 1) BY <1>3, Slices
  <2>3. groups = n + 1 BY <1>3, <2>2
  <2>4. /\ Len(m) = PrefixSlices + 2 * groups /\ groups % 2 = 0
        /\ groups \in MinEodGroup + 1 .. MaxGroups
    <3>1. MinEodGroup \in Nat /\ MaxGroups \in Nat BY BusAssumption
    <3>2. (n + 1) % 2 = 0 BY <1>3, <2>1
    <3>3. n + 1 \in MinEodGroup + 1 .. MaxGroups BY <1>3, <2>1, <3>1
    <3> HIDE DEF groups
    <3> QED BY <1>3, <2>3, <3>2, <3>3, Slices
  <2>5. CommittedWholeFrames' BY <1>4, <2>4 DEF CommittedWholeFrames
  <2>6. CommittedAsOnBus' BY <1>4, <1>7 DEF CommittedAsOnBus
  <2> QED BY <2>5, <2>6 DEF CommitInv
<1>9. pending' \in Submissions \cup {NoFrame} BY DEF CompleteTransmission, EndLocal, BusIInv
<1> QED BY <1>4, <1>8, <1>9, EndKeeps

-----------------------------------------------------------------------------
(* Following a frame to its end.                                           *)

(* What the node concluded from the states it has seen stays true.         *)
LEMMA Extended ==
  ASSUME TypeOK, Following, Slice \in Nat, Slice >= PrefixSlices + 2 * group,
         \A k \in 1 .. Slice : seen'[k] = seen[k],
         \/ group' = group
         \/ /\ group' = group + 1
            /\ seen'[PrefixSlices + 2 * group + 1] # seen'[PrefixSlices + 2 * group + 2],
         UNCHANGED <<config, role, ack, pending>>
  PROVE  Following'
<1>1. group \in Nat
  <2>1. MaxGroups \in Nat BY BusAssumption
  <2> QED BY <2>1 DEF TypeOK
<1>2. \A k \in 1 .. PrefixSlices : seen'[k] = seen[k] BY <1>1, Slices
<1>3. ASSUME role = "requester" PROVE Requested' /\ seen'[PrefixSlices] = 1
  <2>1. Requested /\ seen[PrefixSlices] = 1 BY <1>3 DEF Following
  <2>2. \A k \in 1 .. RtrSlice : seen'[k] = Words(pending)[k] BY <1>2, <2>1, Slices DEF Requested
  <2>3. seen'[RtrSlice + 1] = 0 BY <1>2, <2>1, Slices DEF Requested
  <2>4. seen'[PrefixSlices] = 1 BY <1>2, <2>1, Slices
  <2> QED BY <2>1, <2>2, <2>3, <2>4 DEF Requested
<1>4. AckDue' BY <1>2 DEF Following, AckDue
<1>5. Tracked'
  <2> SUFFICES ASSUME NEW g \in 1 .. group'
               PROVE  seen'[PrefixSlices + 2 * g - 1] # seen'[PrefixSlices + 2 * g]
    BY DEF Tracked
  <2>1. CASE g \in 1 .. group
    <3>1. /\ PrefixSlices + 2 * g - 1 \in 1 .. Slice /\ PrefixSlices + 2 * g \in 1 .. Slice
      BY <1>1, <2>1, Slices
    <3>2. seen[PrefixSlices + 2 * g - 1] # seen[PrefixSlices + 2 * g]
      BY <2>1 DEF Following, Tracked
    <3> QED BY <3>1, <3>2
  <2>2. CASE g = group + 1 /\ group' = group + 1
    <3>1. /\ PrefixSlices + 2 * g - 1 = PrefixSlices + 2 * group + 1
          /\ PrefixSlices + 2 * g = PrefixSlices + 2 * group + 2
      BY <1>1, <2>2, Slices
    <3> QED BY <1>1, <2>2, <3>1
  <2> QED BY <1>1, <2>1, <2>2
<1> QED BY <1>3, <1>4, <1>5 DEF Following

(* The requested module has driven RTR; its inverse is recessive.          *)
LEMMA HandoverKeeps ==
  ASSUME BusIInv, NEW e \in Bit, HandoverSlice(e)
  PROVE  BusIInv'
<1>1. TypeOK /\ HandoverInv /\ phase = "handover" BY DEF BusIInv, HandoverSlice
<1>2. /\ driven = 1 /\ role = "requester" /\ ~ack /\ group = 0 /\ Slice = RtrSlice + 1
      /\ capture = Append(seen, 1) /\ Requested /\ seen \in Seq(Bit) /\ capture \in Seq(Bit)
  BY <1>1 DEF HandoverInv, TypeOK
<1>3. CASE Level(e) # 1 BY <1>3, AbortKeeps DEF HandoverSlice
<1>4. CASE Level(e) = 1
  <2>1. /\ phase' = "track" /\ seen' = Append(seen, 1) /\ ack' = config.queryAck /\ CommitInv'
        /\ UNCHANGED <<config, driven, recessiveRun, role, frame, capture, group, pending>>
    BY <1>4, NothingIsFine DEF HandoverSlice
  <2>2. 1 \in Bit BY DEF Bit
  <2>3. /\ Slice' = PrefixSlices /\ seen' \in Seq(Bit)
        /\ \A k \in 1 .. RtrSlice + 1 : seen'[k] = seen[k]
        /\ seen'[PrefixSlices] = 1
    <3>1. /\ Append(seen, 1) \in Seq(Bit) /\ Len(Append(seen, 1)) = Slice + 1
          /\ \A k \in 1 .. Slice : Append(seen, 1)[k] = seen[k]
          /\ Append(seen, 1)[Slice + 1] = 1
      BY <1>2, <2>2, AppendFacts DEF Slice
    <3> DEFINE s == Append(seen, 1)
    <3>2. seen' = s /\ Slice' = Len(s) BY <2>1 DEF Slice
    <3> HIDE DEF s
    <3>3. Slice + 1 = PrefixSlices BY <1>2, Slices
    <3> QED BY <1>2, <3>1, <3>2, <3>3 DEF s
  <2>4. TypeOK'
    <3>1. config.queryAck \in BOOLEAN BY <1>1, BusAssumption DEF TypeOK
    <3> QED BY <1>1, <2>1, <2>3, <3>1 DEF TypeOK
  <2>5. Requested'
    <3>1. \A k \in 1 .. RtrSlice : seen'[k] = Words(pending)[k]
      BY <1>2, <2>3, Slices DEF Requested
    <3>2. seen'[RtrSlice + 1] = 0 BY <1>2, <2>3, Slices DEF Requested
    <3> QED BY <1>2, <2>1, <3>1, <3>2 DEF Requested
  <2>6. Following'
    <3>1. Tracked' BY <1>2, <2>1 DEF Tracked
    <3>2. AckDue' BY <1>2, <2>1 DEF AckDue
    <3> QED BY <1>2, <2>1, <2>3, <2>5, <3>1, <3>2 DEF Following
  <2>7. TrackInv'
    <3>1. PrefixSlices = PrefixSlices + 2 * 0 BY Slices
    <3> QED BY <1>2, <2>1, <2>3, <2>6, <3>1 DEF TrackInv
  <2> QED
    BY <2>1, <2>4, <2>7
    DEF BusIInv, IdleInv, ReceiveInv, TransmitInv, HandoverInv, Ack0Inv, Ack1Inv
<1> QED BY <1>3, <1>4

LEMMA TrackKeeps ==
  ASSUME BusIInv, NEW d \in Bit, NEW n \in Bit, TrackGroup(d, n)
  PROVE  BusIInv'
<1>1. TypeOK /\ TrackInv /\ phase = "track" BY DEF BusIInv, TrackGroup
<1>2. /\ driven = 1 /\ Slice = PrefixSlices + 2 * group /\ capture = seen /\ Following
      /\ seen \in Seq(Bit) /\ Len(seen) = Slice
  BY <1>1 DEF TrackInv, TypeOK, Slice
<1>3. Level(d) = d /\ Level(n) = n BY <1>1, <1>2, LevelFacts
<1>4. group \in Nat /\ group < MaxGroups /\ MaxGroups \in Nat /\ Slice \in Nat
  <2>1. MaxGroups \in Nat BY BusAssumption
  <2> QED BY <1>1, <1>2, <2>1, Slices DEF TypeOK
<1> DEFINE t == seen \o <<d, n>>
<1>5. /\ t \in Seq(Bit) /\ Len(t) = Slice + 2
      /\ \A k \in 1 .. Slice : t[k] = seen[k]
      /\ t[Slice + 1] = d /\ t[Slice + 2] = n
  BY <1>2, PairFacts
<1>6. \/ /\ d = 0 /\ n = 0 /\ EodAllowed /\ phase' = "ack0" /\ capture' = t /\ seen' = t
         /\ CommitInv'
         /\ UNCHANGED <<config, driven, recessiveRun, role, frame, ack, group, pending>>
      \/ /\ d # n /\ ScanContinues /\ phase' = "track" /\ capture' = t /\ seen' = t
         /\ group' = group + 1 /\ CommitInv'
         /\ UNCHANGED <<config, driven, recessiveRun, phase, role, frame, ack, pending>>
      \/ Abort
  <2>1. CASE d = 0 /\ n = 0 /\ EodAllowed
    BY <1>2, <1>3, <2>1, NothingIsFine DEF TrackGroup
  <2>2. CASE d # n /\ ScanContinues
    <3>1. <<d, n>> # <<0, 0>> BY <2>2
    <3>2. <<d, n>>[1] # <<d, n>>[2] BY <2>2
    <3> QED BY <1>1, <1>2, <1>3, <2>2, <3>1, <3>2, NothingIsFine DEF TrackGroup
  <2>3. CASE ~(d = 0 /\ n = 0 /\ EodAllowed) /\ ~(d # n /\ ScanContinues)
    BY <1>3, <2>3 DEF TrackGroup
  <2> QED BY <2>1, <2>2, <2>3
<1>7. CASE Abort BY <1>7, AbortKeeps
<1>8. ASSUME seen' = t, capture' = t
      PROVE  /\ Slice' = Slice + 2 /\ seen' \in Seq(Bit) /\ capture' \in Seq(Bit)
             /\ Len(capture') <= PrefixSlices + 2 * MaxGroups
             /\ \A k \in 1 .. Slice : seen'[k] = seen[k]
             /\ seen'[Slice + 1] = d /\ seen'[Slice + 2] = n
  <2>1. Slice' = Len(t) BY <1>8 DEF Slice
  <2> HIDE DEF t
  <2>2. Slice + 2 <= PrefixSlices + 2 * MaxGroups BY <1>2, <1>4, Slices
  <2> QED BY <1>5, <1>8, <2>1, <2>2
<1>9. CASE /\ d = 0 /\ n = 0 /\ EodAllowed /\ phase' = "ack0" /\ capture' = t /\ seen' = t
           /\ CommitInv'
           /\ UNCHANGED <<config, driven, recessiveRun, role, frame, ack, group, pending>>
  <2> HIDE DEF t
  <2>1. TypeOK' BY <1>1, <1>8, <1>9 DEF TypeOK
  <2>2. Following'
    <3>1. Slice >= PrefixSlices + 2 * group BY <1>2, <1>4, Slices
    <3> QED BY <1>1, <1>2, <1>4, <1>8, <1>9, <3>1, Extended
  <2>3. EodAllowed' /\ seen'[Slice' - 1] = 0 /\ seen'[Slice'] = 0
    <3>1. Slice' - 1 = Slice + 1 /\ Slice' = Slice + 2 BY <1>4, <1>8, <1>9
    <3>2. seen'[Slice' - 1] = 0 /\ seen'[Slice'] = 0 BY <1>8, <1>9, <3>1
    <3> QED BY <1>9, <3>2 DEF EodAllowed
  <2>4. Ack0Inv'
    <3>1. Slice' = PrefixSlices + 2 * group' + 2 BY <1>2, <1>4, <1>8, <1>9, Slices
    <3> QED BY <1>2, <1>9, <2>2, <2>3, <3>1 DEF Ack0Inv, Eod
  <2> QED
    BY <1>9, <2>1, <2>4
    DEF BusIInv, IdleInv, ReceiveInv, TransmitInv, HandoverInv, TrackInv, Ack1Inv
<1>10. CASE /\ d # n /\ ScanContinues /\ phase' = "track" /\ capture' = t /\ seen' = t
            /\ group' = group + 1 /\ CommitInv'
            /\ UNCHANGED <<config, driven, recessiveRun, phase, role, frame, ack, pending>>
  <2> HIDE DEF t
  <2>1. group + 1 \in 0 .. MaxGroups - 1 BY <1>4, <1>10 DEF ScanContinues
  <2>2. TypeOK' BY <1>1, <1>8, <1>10, <2>1 DEF TypeOK
  <2>3. Following'
    <3>1. Slice >= PrefixSlices + 2 * group BY <1>2, <1>4, Slices
    <3>2. seen'[PrefixSlices + 2 * group + 1] # seen'[PrefixSlices + 2 * group + 2]
      BY <1>2, <1>8, <1>10
    <3> QED BY <1>1, <1>2, <1>4, <1>8, <1>10, <3>1, <3>2, Extended
  <2>4. TrackInv'
    <3>1. Slice' = PrefixSlices + 2 * group' BY <1>2, <1>4, <1>8, <1>10, Slices
    <3> QED BY <1>2, <1>10, <2>3, <3>1 DEF TrackInv
  <2> QED
    BY <1>10, <2>2, <2>4
    DEF BusIInv, IdleInv, ReceiveInv, TransmitInv, HandoverInv, Ack0Inv, Ack1Inv
<1> QED BY <1>6, <1>7, <1>9, <1>10

LEMMA Ack0Keeps ==
  ASSUME BusIInv, NEW e \in Bit, Ack0Slice(e)
  PROVE  BusIInv'
<1>1. TypeOK /\ Ack0Inv /\ phase = "ack0" BY DEF BusIInv, Ack0Slice
<1>2. /\ driven = 1 /\ Slice = PrefixSlices + 2 * group + 2 /\ capture = seen /\ Following
      /\ EodAllowed /\ seen[Slice - 1] = 0 /\ seen[Slice] = 0
      /\ seen \in Seq(Bit) /\ Len(seen) = Slice
  BY <1>1 DEF Ack0Inv, TypeOK, Slice, Eod
<1>3. Level(e) = e BY <1>1, <1>2, LevelFacts
<1>4. group \in Nat /\ Slice \in Nat
  <2>1. MaxGroups \in Nat BY BusAssumption
  <2> QED BY <1>1, <1>2, <2>1, Slices DEF TypeOK
<1>5. CASE ack /\ Level(e) = 0 BY <1>5, AbortKeeps DEF Ack0Slice
<1>6. CASE ~(ack /\ Level(e) = 0)
  <2> DEFINE t == Append(seen, e)
  <2>1. /\ driven' = (IF ack THEN 0 ELSE driven) /\ seen' = t /\ phase' = "ack1" /\ CommitInv'
        /\ UNCHANGED <<config, recessiveRun, role, frame, capture, ack, group, pending>>
    BY <1>3, <1>6, NothingIsFine DEF Ack0Slice
  <2>2. /\ t \in Seq(Bit) /\ Len(t) = Slice + 1 /\ (\A k \in 1 .. Slice : t[k] = seen[k])
        /\ t[Slice + 1] = e
    BY <1>2, AppendFacts
  <2>3. Slice' = Len(t) BY <2>1 DEF Slice
  <2>4. t = Append(capture, e) BY <1>2
  <2> HIDE DEF t
  <2>5. /\ Slice' = Slice + 1 /\ seen' \in Seq(Bit) /\ \A k \in 1 .. Slice : seen'[k] = seen[k]
    BY <2>1, <2>2, <2>3
  <2>6. seen'[Slice'] = e BY <2>1, <2>2, <2>5
  <2>7. TypeOK' BY <1>1, <1>2, <2>1, <2>5 DEF TypeOK, Bit
  <2>8. Following'
    <3>1. Slice >= PrefixSlices + 2 * group BY <1>2, <1>4, Slices
    <3> QED BY <1>1, <1>2, <1>4, <2>1, <2>5, <3>1, Extended
  <2>9. EodAllowed' /\ seen'[(Slice' - 1) - 1] = 0 /\ seen'[Slice' - 1] = 0
    <3>1. /\ Slice' - 1 = Slice /\ (Slice' - 1) - 1 = Slice - 1
          /\ Slice - 1 \in 1 .. Slice /\ Slice \in 1 .. Slice
      BY <1>2, <1>4, <2>5, Slices
    <3>2. seen'[Slice - 1] = 0 /\ seen'[Slice] = 0 BY <1>2, <2>5, <3>1
    <3>3. EodAllowed' BY <1>2, <2>1 DEF EodAllowed
    <3> QED BY <3>1, <3>2, <3>3
  <2>10. Ack1Inv'
    <3>1. driven' = IF ack' THEN 0 ELSE 1 BY <1>2, <2>1
    <3>2. Slice' = PrefixSlices + 2 * group' + 3 BY <1>2, <1>4, <2>1, <2>5, Slices
    <3>3. seen' = Append(capture', seen'[Slice']) BY <2>1, <2>4, <2>6
    <3>4. ack' => seen'[Slice'] = 1 BY <1>3, <1>6, <2>1, <2>6 DEF Bit
    <3> QED BY <2>8, <2>9, <3>1, <3>2, <3>3, <3>4 DEF Ack1Inv, Eod
  <2> QED
    BY <2>1, <2>7, <2>10
    DEF BusIInv, IdleInv, ReceiveInv, TransmitInv, HandoverInv, TrackInv, Ack0Inv
<1> QED BY <1>5, <1>6

(* A frame that was followed to its end is committed as it was on the bus. *)
LEMMA Ack1Keeps ==
  ASSUME BusIInv, NEW e \in Bit, Ack1SliceEnds(e)
  PROVE  BusIInv'
<1>1. TypeOK /\ Ack1Inv /\ phase = "ack1" BY DEF BusIInv, Ack1SliceEnds
<1>2. /\ driven = (IF ack THEN 0 ELSE 1) /\ Slice = PrefixSlices + 2 * group + 3
      /\ seen = Append(capture, seen[Slice]) /\ EodAllowed /\ (ack => seen[Slice] = 1)
      /\ seen \in Seq(Bit) /\ Len(seen) = Slice /\ capture \in Seq(Bit)
  BY <1>1 DEF Ack1Inv, TypeOK, Slice, Eod
<1>3. group \in Nat /\ group < MaxGroups /\ MaxGroups \in Nat /\ MinEodGroup \in Nat
      /\ Slice \in Nat /\ Slice >= 1
  <2>1. MaxGroups \in Nat /\ MinEodGroup \in Nat BY BusAssumption
  <2> QED BY <1>1, <1>2, <2>1, Slices DEF TypeOK
<1> DEFINE x == seen[Slice]
           y == Level(e)
<1>4. x \in Bit /\ y \in Bit
  <2>1. Slice \in 1 .. Len(seen) BY <1>2, <1>3
  <2> QED BY <1>1, <1>2, <2>1, ElementOfSeq, LevelFacts
<1>5. (IF ack THEN <<1, 0>> ELSE <<x, y>>) = <<x, y>>
  BY <1>1, <1>2, LevelFacts
<1>6. /\ committed' = [states |-> capture, ack |-> <<x, y>>, bus |-> Append(seen, y)]
      /\ EndTransaction /\ UNCHANGED config
  BY <1>5 DEF Ack1SliceEnds, Commit
<1>7. seen = Append(capture, x) BY <1>2
<1> HIDE DEF x, y
<1>8. capture \o <<x, y>> = Append(seen, y) BY <1>2, <1>4, <1>7, PairFacts
<1>9. Len(capture) = PrefixSlices + 2 * (group + 1)
  <2>1. Len(Append(capture, x)) = Len(capture) + 1 /\ Len(capture) \in Nat
    BY <1>2, <1>4, AppendFacts
  <2>2. Len(capture) + 1 = Slice BY <1>2, <1>7, <2>1
  <2> QED BY <1>2, <1>3, <2>1, <2>2, Slices
<1>10. CommittedWholeFrames'
  <2> DEFINE l == Len(capture)
             groups == (l - PrefixSlices) \div 2
  <2>1. l = PrefixSlices + 2 * (group + 1) BY <1>9
  <2> HIDE DEF l
  <2>2. groups = group + 1 BY <1>3, <2>1, Slices
  <2>3. group >= MinEodGroup /\ group % 2 = 1 BY <1>2 DEF EodAllowed
  <2>4. (group + 1) % 2 = 0 /\ group + 1 \in MinEodGroup + 1 .. MaxGroups BY <1>3, <2>3
  <2>5. l = PrefixSlices + 2 * groups /\ groups % 2 = 0 /\ groups \in MinEodGroup + 1 .. MaxGroups
    <3> HIDE DEF groups
    <3> QED BY <2>1, <2>2, <2>4
  <2> QED BY <1>6, <2>5 DEF CommittedWholeFrames, l
<1>11. CommittedAsOnBus' BY <1>6, <1>8 DEF CommittedAsOnBus
<1>12. pending' \in Submissions \cup {NoFrame} BY DEF Ack1SliceEnds, EndLocal, BusIInv
<1> QED BY <1>6, <1>10, <1>11, <1>12, EndKeeps DEF CommitInv

LEMMA NextBus == BusIInv /\ [Next]_vars => BusIInv'
<1> SUFFICES ASSUME BusIInv, [Next]_vars PROVE BusIInv' OBVIOUS
<1>1. CASE \/ \E f \in Submissions : Submit(f)
           \/ \E c \in Configurations : AdoptConfiguration(c)
           \/ UNCHANGED vars
  BY <1>1, QuietKeeps
<1>2. CASE DeadlineMissed BY <1>2, AbortKeeps DEF DeadlineMissed
<1>3. CASE StartTransmission BY <1>3, StartKeeps
<1>4. ASSUME NEW e \in Bit, \/ IdleSlice(e) \/ ReceiveSlice(e) \/ TransmitSlice(e)
                            \/ LoseArbitration(e) \/ LoseRtr(e) \/ CompleteTransmission(e)
                            \/ HandoverSlice(e) \/ Ack0Slice(e) \/ Ack1SliceEnds(e)
      PROVE  BusIInv'
  BY <1>4, IdleKeeps, ReceiveKeeps, TransmitKeeps, LoseKeeps, LoseRtrKeeps, CompleteKeeps,
     HandoverKeeps, Ack0Keeps, Ack1Keeps
<1>5. ASSUME NEW d \in Bit, NEW n \in Bit, TrackGroup(d, n) PROVE BusIInv'
  BY <1>5, TrackKeeps
<1> QED BY <1>1, <1>2, <1>3, <1>4, <1>5 DEF Next

LEMMA BusIsInductive == Spec => []BusIInv
<1> QED BY InitBus, NextBus, PTL DEF Spec

(* What leaves the capture buffer is a whole frame, and the one that was   *)
(* on the bus: received, sent, or answered within the own query.           *)
THEOREM BusCorrect == Spec => []BusInv
<1>1. BusIInv => BusInv BY DEF BusIInv, CommitInv, BusInv
<1> QED BY <1>1, BusIsInductive, PTL

-----------------------------------------------------------------------------
(* Dominant only where entitled.                                           *)

LEMMA EntitledToAck ==
  ASSUME BusIInv, phase = "ack1", ack
  PROVE  AckRequested
<1>1. TypeOK /\ Ack1Inv BY DEF BusIInv
<1>2. /\ Slice = PrefixSlices + 2 * group + 3 /\ Following /\ EodAllowed
      /\ seen[(Slice - 1) - 1] = 0 /\ seen[Slice - 1] = 0 /\ seen[Slice] = 1
      /\ seen \in Seq(Bit) /\ Len(seen) = Slice
  BY <1>1 DEF Ack1Inv, TypeOK, Slice, Eod
<1>3. group \in Nat /\ MaxGroups \in Nat /\ MinEodGroup \in Nat
  <2>1. MaxGroups \in Nat /\ MinEodGroup \in Nat BY BusAssumption
  <2> QED BY <1>1, <2>1 DEF TypeOK
<1> DEFINE groups == (Slice - 1 - PrefixSlices) \div 2
<1>4. groups = group + 1 BY <1>2, <1>3, Slices
<1>5. (group + 1) % 2 = 0 /\ group + 1 > MinEodGroup
  <2>1. group >= MinEodGroup /\ group % 2 = 1 BY <1>2 DEF EodAllowed
  <2> QED BY <1>3, <2>1
<1>6. ASSUME NEW g \in 1 .. group + 1
      PROVE  IF g = group + 1 THEN /\ seen[PrefixSlices + 2 * g - 1] = 0
                                   /\ seen[PrefixSlices + 2 * g] = 0
             ELSE seen[PrefixSlices + 2 * g - 1] # seen[PrefixSlices + 2 * g]
  <2>1. CASE g = group + 1
    <3>1. PrefixSlices + 2 * g - 1 = (Slice - 1) - 1 /\ PrefixSlices + 2 * g = Slice - 1
      BY <1>2, <1>3, <2>1, Slices
    <3> QED BY <1>2, <2>1, <3>1
  <2>2. CASE g # group + 1
    <3>1. g \in 1 .. group BY <1>3, <2>2
    <3> QED BY <1>2, <2>2, <3>1 DEF Following, Tracked
  <2> QED BY <2>1, <2>2
<1> DEFINE head == SubSeq(seen, 1, PrefixSlices)
<1>7. /\ head \in Seq(Bit) /\ Len(head) = PrefixSlices
      /\ \A k \in 1 .. PrefixSlices : head[k] = seen[k]
  <2>1. PrefixSlices \in 1 .. Slice /\ PrefixSlices \in Nat BY <1>2, <1>3, Slices
  <2> QED BY <1>2, <2>1
<1> HIDE DEF head
<1>8. \/ \E i \in config.acks : head = Prefix(i, "acked")
      \/ /\ pending # NoFrame /\ pending.kind = "query" /\ config.queryAck
         /\ head = Prefix(pending.id, "reply")
  <2>1. CASE \E i \in config.acks : \A k \in 1 .. PrefixSlices : seen[k] = Prefix(i, "acked")[k]
    <3>1. PICK i \in config.acks : \A k \in 1 .. PrefixSlices : seen[k] = Prefix(i, "acked")[k]
      BY <2>1
    <3> DEFINE p == Prefix(i, "acked")
    <3>2. i \in Identifiers BY <1>1, BusAssumption DEF TypeOK
    <3>3. p \in Seq(Bit) /\ Len(p) = PrefixSlices BY <3>2, PrefixFacts DEF Kinds
    <3>4. \A k \in 1 .. PrefixSlices : seen[k] = p[k] BY <3>1
    <3> HIDE DEF p
    <3>5. head = p BY <1>7, <3>3, <3>4, SeqEqual
    <3> QED BY <3>5 DEF p
  <2>2. CASE role = "requester" /\ config.queryAck
    <3>1. /\ pending \in Submissions /\ pending # NoFrame /\ pending.kind = "query"
          /\ \A k \in 1 .. RtrSlice : seen[k] = Words(pending)[k]
          /\ seen[RtrSlice + 1] = 0 /\ seen[PrefixSlices] = 1
      BY <1>2, <2>2 DEF Following, Requested
    <3>2. Frame(pending) /\ pending.id \in Identifiers BY <3>1, FramesGiven DEF Frame
    <3> DEFINE p == Prefix(pending.id, "reply")
               q == Prefix(pending.id, "query")
    <3>3. /\ \A k \in 1 .. RtrSlice : q[k] = p[k]
          /\ p[RtrSlice + 1] = 0 /\ p[RtrSlice + 2] = 1
      BY <3>2, QueryAndReply
    <3>4. p \in Seq(Bit) /\ Len(p) = PrefixSlices BY <3>2, PrefixFacts DEF Kinds
    <3>5. \A k \in 1 .. PrefixSlices : Words(pending)[k] = q[k] BY <3>1, <3>2, WordsFacts
    <3> HIDE DEF p, q
    <3>6. \A k \in 1 .. PrefixSlices : seen[k] = p[k]
      <4> TAKE k \in 1 .. PrefixSlices
      <4>1. k \in 1 .. RtrSlice \/ k = RtrSlice + 1 \/ k = RtrSlice + 2 BY Slices
      <4>2. CASE k \in 1 .. RtrSlice BY <3>1, <3>3, <3>5, <4>2
      <4>3. RtrSlice + 2 = PrefixSlices BY Slices
      <4> QED BY <3>1, <3>3, <4>1, <4>2, <4>3
    <3>7. head = p BY <1>7, <3>4, <3>6, SeqEqual
    <3> QED BY <2>2, <3>1, <3>7 DEF p
  <2> QED BY <1>2, <2>1, <2>2 DEF Following, AckDue
<1> HIDE DEF groups
<1>9. groups % 2 = 0 /\ groups > MinEodGroup BY <1>4, <1>5
<1>10. \A g \in 1 .. groups :
         LET k == PrefixSlices + 2 * g IN
         IF g = groups THEN seen[k - 1] = 0 /\ seen[k] = 0 ELSE seen[k - 1] # seen[k]
  <2> TAKE g \in 1 .. groups
  <2>1. g \in 1 .. group + 1 BY <1>3, <1>4
  <2>2. CASE g = group + 1 BY <1>3, <1>4, <1>6, <2>1, Slices, <2>2
  <2>3. CASE g # group + 1 BY <1>3, <1>4, <1>6, <2>1, Slices, <2>3
  <2> QED BY <2>2, <2>3
<1>11. seen[Slice] = 1 BY <1>2
<1> QED BY <1>8, <1>9, <1>10, <1>11, Zenon DEF AckRequested, groups, head

(* The node pulls the bus down only as the owner of a frame or to          *)
(* acknowledge one it was asked to acknowledge.                            *)
THEOREM DominantOnlyWhenEntitledHolds == Spec => []DominantOnlyWhenEntitled
<1>1. BusIInv => DominantOnlyWhenEntitled
  <2> SUFFICES ASSUME BusIInv, driven = 0 PROVE OwnsBus \/ (phase = "ack1" /\ AckRequested)
    BY DEF DominantOnlyWhenEntitled
  <2>1. phase = "transmit" \/ (phase = "ack1" /\ ack)
    BY DEF BusIInv, TypeOK, IdleInv, ReceiveInv, HandoverInv, TrackInv, Ack0Inv, Ack1Inv
  <2>2. CASE phase = "transmit" BY <2>2 DEF BusIInv, TransmitInv, OnBus, OwnsBus
  <2> QED BY <2>1, <2>2, EntitledToAck
<1> QED BY <1>1, BusIsInductive, PTL

-----------------------------------------------------------------------------
(* The end of the own frame, and nothing else, empties the outbox.         *)

LEMMA OwnFrameEnds ==
  ASSUME BusIInv, role \in {"normal", "requester"}
  PROVE  /\ phase # "idle" /\ Slice >= 1
         /\ \A k \in 1 .. Min2(Slice, RtrSlice) : seen[k] = Words(pending)[k]
<1>1. phase \in {"transmit", "handover", "track", "ack0", "ack1"}
  BY DEF BusIInv, TypeOK, IdleInv, ReceiveInv
<1>2. CASE phase = "transmit"
  <2>1. /\ Frame(frame) /\ pending = frame /\ OnBus(frame) /\ Slice \in 1 .. Len(Words(frame)) - 1
    BY <1>2 DEF BusIInv, TransmitInv
  <2>2. Len(Message(frame)) = PrefixSlices + 2 * Len(frame.data) + 2 /\ Len(frame.data) \in Nat
    BY <2>1, WordsFacts
  <2> DEFINE n == Len(frame.data)
  <2>3. Ack1Slice(frame) = PrefixSlices + 2 * n + 3 /\ n \in Nat
    BY <2>2, Slices DEF Ack1Slice
  <2> HIDE DEF n
  <2>4. Slice \in Nat /\ Slice >= 1 BY <2>1
  <2>5. \A k \in 1 .. Min2(Slice, RtrSlice) : k \in 1 .. Slice /\ k # Ack1Slice(frame) + 1
    BY <2>3, <2>4, Slices DEF Min2
  <2> QED BY <1>2, <2>1, <2>4, <2>5 DEF OnBus
<1>3. CASE phase # "transmit"
  <2>1. Requested /\ Slice \in Nat /\ Slice >= RtrSlice
    <3>1. MaxGroups \in Nat BY BusAssumption
    <3>2. group \in Nat BY <3>1 DEF BusIInv, TypeOK
    <3>3. role = "requester" => Requested
      BY <1>1, <1>3 DEF BusIInv, HandoverInv, TrackInv, Ack0Inv, Ack1Inv, Following
    <3>4. Slice \in {RtrSlice + 1, PrefixSlices + 2 * group, PrefixSlices + 2 * group + 2,
                     PrefixSlices + 2 * group + 3}
      BY <1>1, <1>3 DEF BusIInv, HandoverInv, TrackInv, Ack0Inv, Ack1Inv
    <3>5. role = "requester"
      BY <1>1, <1>3 DEF BusIInv, HandoverInv, TrackInv, Ack0Inv, Ack1Inv, Following
    <3> QED BY <3>2, <3>3, <3>4, <3>5, Slices
  <2>2. Min2(Slice, RtrSlice) = RtrSlice /\ Slice >= 1 BY <2>1, Slices DEF Min2
  <2> QED BY <1>1, <2>1, <2>2 DEF Requested
<1> QED BY <1>2, <1>3

(* Only the end of the own frame takes a prepared frame out of the outbox. *)
THEOREM OutboxReleasedByOwnFrameOnlyHolds == Spec => OutboxReleasedByOwnFrameOnly
<1>1. BusIInv /\ [Next]_vars => [pending' # pending /\ pending # NoFrame =>
         /\ phase # "idle" /\ phase' = "idle"
         /\ Slice >= 1
         /\ \A k \in 1 .. Min2(Slice, RtrSlice) : seen[k] = Words(pending)[k]]_vars
  <2> SUFFICES ASSUME BusIInv, Next, pending' # pending, pending # NoFrame
               PROVE  /\ phase # "idle" /\ phase' = "idle"
                      /\ Slice >= 1
                      /\ \A k \in 1 .. Min2(Slice, RtrSlice) : seen[k] = Words(pending)[k]
    OBVIOUS
  <2>1. EndTransaction /\ EndLocal
    BY DEF Next, Submit, AdoptConfiguration, DeadlineMissed, StartTransmission, IdleSlice,
           ReceiveSlice, TransmitSlice, LoseArbitration, LoseRtr, CompleteTransmission,
           HandoverSlice, Ack0Slice, Ack1SliceEnds, TrackGroup, Abort
  <2>2. phase' = "idle" /\ role \in {"normal", "requester"}
    BY <2>1 DEF EndTransaction, EndLocal
  <2> QED BY <2>2, OwnFrameEnds
<1> QED BY <1>1, BusIsInductive, PTL DEF Spec, OutboxReleasedByOwnFrameOnly
=============================================================================
