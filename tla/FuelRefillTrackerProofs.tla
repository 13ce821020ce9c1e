----------------------- MODULE FuelRefillTrackerProofs -----------------------
(***************************************************************************)
(* The file, the record of refills and the checkpoint agree, for every     *)
(* number of samples, length of the histories and set of thresholds,       *)
(* wherever saves fail and the power goes.                                 *)
(***************************************************************************)
EXTENDS FuelRefillTracker, FiniteSetTheorems, SequenceTheorems, TLAPS

-----------------------------------------------------------------------------
(* The median of a window exists: it is the least of the levels with more  *)
(* than half of the samples at or below it.                                *)

LEMMA LeastExists ==
  ASSUME NEW X, X \subseteq Int, IsFiniteSet(X), X # {}
  PROVE  \E x \in X : \A y \in X : x <= y
<1> DEFINE UpToX(x) == {y \in X : y <= x}
           F == {UpToX(x) : x \in X}
<1>1. F \subseteq FiniteSubsetsOf(X) BY FS_Subset DEF FiniteSubsetsOf
<1>2. F # {} OBVIOUS
<1>3. IsWellFoundedOn(StrictSubsetOrdering(X), FiniteSubsetsOf(X))
  BY FS_StrictSubsetOrderingWellFounded
<1> HIDE DEF F
<1>4. \E U \in F : \A V \in F : <<V, U>> \notin StrictSubsetOrdering(X)
  BY <1>1, <1>2, <1>3, WFMin
<1> USE DEF F
<1>5. PICK x \in X : \A y \in X : <<UpToX(y), UpToX(x)>> \notin StrictSubsetOrdering(X)
  BY <1>4
<1>6. \A y \in X : x <= y
  <2> SUFFICES ASSUME NEW y \in X, y < x PROVE FALSE OBVIOUS
  <2>0. x \in Int /\ y \in Int /\ \A z \in X : z \in Int OBVIOUS
  <2>1. UpToX(y) \subseteq UpToX(x) /\ x \in UpToX(x) /\ x \notin UpToX(y)
    <3>1. \A z \in UpToX(y) : z \in UpToX(x) BY <2>0
    <3>2. x \in UpToX(x) /\ x \notin UpToX(y) BY <2>0
    <3> QED BY <3>1, <3>2
  <2>2. UpToX(y) \in SUBSET X /\ UpToX(x) \in SUBSET X OBVIOUS
  <2> HIDE DEF UpToX
  <2>3. <<UpToX(y), UpToX(x)>> \in StrictSubsetOrdering(X)
    BY <2>1, <2>2 DEF StrictSubsetOrdering
  <2> QED BY <1>5, <2>3
<1> QED BY <1>6

LEMMA GreatestExists ==
  ASSUME NEW X, X \subseteq Int, IsFiniteSet(X), X # {}
  PROVE  \E x \in X : \A y \in X : y <= x
<1> DEFINE FromX(x) == {y \in X : x <= y}
           F == {FromX(x) : x \in X}
<1>1. F \subseteq FiniteSubsetsOf(X) BY FS_Subset DEF FiniteSubsetsOf
<1>2. F # {} OBVIOUS
<1>3. IsWellFoundedOn(StrictSubsetOrdering(X), FiniteSubsetsOf(X))
  BY FS_StrictSubsetOrderingWellFounded
<1> HIDE DEF F
<1>4. \E U \in F : \A V \in F : <<V, U>> \notin StrictSubsetOrdering(X)
  BY <1>1, <1>2, <1>3, WFMin
<1> USE DEF F
<1>5. PICK x \in X : \A y \in X : <<FromX(y), FromX(x)>> \notin StrictSubsetOrdering(X)
  BY <1>4
<1>6. \A y \in X : y <= x
  <2> SUFFICES ASSUME NEW y \in X, x < y PROVE FALSE OBVIOUS
  <2>0. x \in Int /\ y \in Int /\ \A z \in X : z \in Int OBVIOUS
  <2>1. FromX(y) \subseteq FromX(x) /\ x \in FromX(x) /\ x \notin FromX(y)
    <3>1. \A z \in FromX(y) : z \in FromX(x) BY <2>0
    <3>2. x \in FromX(x) /\ x \notin FromX(y) BY <2>0
    <3> QED BY <3>1, <3>2
  <2>2. FromX(y) \in SUBSET X /\ FromX(x) \in SUBSET X OBVIOUS
  <2> HIDE DEF FromX
  <2>3. <<FromX(y), FromX(x)>> \in StrictSubsetOrdering(X)
    BY <2>1, <2>2 DEF StrictSubsetOrdering
  <2> QED BY <1>5, <2>3
<1> QED BY <1>6

LEMMA WindowFacts ==
  ASSUME NEW w \in Seq(Levels)
  PROVE  /\ Len(w) \in Nat /\ DOMAIN w = 1 .. Len(w)
         /\ IsFiniteSet(DOMAIN w) /\ Cardinality(DOMAIN w) = Len(w)
         /\ \A i \in DOMAIN w : w[i] \in Levels /\ w[i] \in Int
         /\ ToSet(w) \subseteq Levels /\ ToSet(w) \subseteq Int /\ IsFiniteSet(ToSet(w))
<1>1. Len(w) \in Nat /\ DOMAIN w = 1 .. Len(w) BY LenProperties
<1>2. IsFiniteSet(DOMAIN w) /\ Cardinality(DOMAIN w) = Len(w)
  BY <1>1, FS_Interval
<1>3. \A i \in DOMAIN w : w[i] \in Levels BY <1>1, ElementOfSeq
<1>4. \A l \in Levels : l \in Nat /\ l <= 100 BY FuelAssumption
<1>5. ToSet(w) \subseteq Levels BY <1>3 DEF ToSet
<1>6. IsFiniteSet(ToSet(w))
  <2>1. ToSet(w) \in SUBSET Nat /\ \A l \in ToSet(w) : l <= 100 BY <1>4, <1>5
  <2> QED BY <2>1, FS_BoundedSetOfNaturals
<1> QED BY <1>1, <1>2, <1>3, <1>4, <1>5, <1>6

LEMMA MedianExists ==
  ASSUME NEW w \in Seq(Levels), Len(w) = SampleCount
  PROVE  StableLevel(w) \in Levels
<1> DEFINE half == SampleCount \div 2
           High == {l \in ToSet(w) : UpTo(w, l) > half}
<1>1. SampleCount \in Nat \ {0} /\ half \in Nat /\ half < SampleCount BY FuelAssumption
<1> HIDE DEF half
<1>2. ToSet(w) # {} /\ Cardinality(DOMAIN w) = SampleCount
  <2>1. 1 \in DOMAIN w BY <1>1, WindowFacts
  <2> QED BY <2>1, WindowFacts DEF ToSet
<1>3. High # {}
  <2>1. PICK top \in ToSet(w) : \A y \in ToSet(w) : y <= top
    BY <1>2, WindowFacts, GreatestExists
  <2>2. {i \in DOMAIN w : w[i] <= top} = DOMAIN w BY <2>1 DEF ToSet
  <2>3. UpTo(w, top) = SampleCount BY <1>2, <2>2 DEF UpTo
  <2>4. top \in High BY <1>1, <2>3
  <2> QED BY <2>4
<1>4. PICK v \in High : \A y \in High : v <= y
  <2>1. IsFiniteSet(High) BY WindowFacts, FS_Subset
  <2>2. High \subseteq Int BY WindowFacts
  <2> HIDE DEF High
  <2> QED BY <1>3, <2>1, <2>2, LeastExists
<1>5. v \in ToSet(w) /\ v \in Int /\ UpTo(w, v) > half BY <1>4, WindowFacts
<1>6. Below(w, v) <= half
  <2> DEFINE I == {i \in DOMAIN w : w[i] < v}
             L == {l \in ToSet(w) : l < v}
  <2>1. IsFiniteSet(I) /\ Cardinality(I) \in Nat BY WindowFacts, FS_Subset, FS_CardinalityType
  <2> SUFFICES ASSUME Cardinality(I) > half PROVE FALSE
    BY <1>1, <2>1 DEF Below
  <2>2. I # {} BY <1>1, <2>1, FS_EmptySet
  <2>3. L # {} BY <2>2 DEF ToSet
  <2>4. IsFiniteSet(L) /\ L \subseteq Int BY WindowFacts, FS_Subset
  <2>5. PICK u \in L : \A y \in L : y <= u
    <3> HIDE DEF L
    <3> QED BY <2>3, <2>4, GreatestExists
  <2>6. u \in ToSet(w) /\ u \in Int /\ u < v BY <2>5, WindowFacts
  <2> DEFINE J == {i \in DOMAIN w : w[i] <= u}
  <2>7. I \subseteq J BY <2>5 DEF ToSet
  <2>8. IsFiniteSet(J) /\ Cardinality(J) \in Nat BY WindowFacts, FS_Subset, FS_CardinalityType
  <2>9. Cardinality(I) <= Cardinality(J)
    <3> HIDE DEF I, J
    <3> QED BY <2>7, <2>8, FS_Subset
  <2>10. UpTo(w, u) > half BY <1>1, <2>1, <2>8, <2>9 DEF UpTo
  <2>11. u \in High BY <2>6, <2>10
  <2>12. v <= u BY <1>4, <2>11
  <2> QED BY <1>5, <2>6, <2>12
<1>7. \E level \in ToSet(w) : Below(w, level) <= half /\ UpTo(w, level) > half
  BY <1>5, <1>6
<1>8. StableLevel(w) \in ToSet(w) BY <1>7 DEF StableLevel, half
<1> QED BY <1>8, WindowFacts

-----------------------------------------------------------------------------
(* The records.                                                            *)

NoNeighboursTwice(s) ==
  \A i \in 1 .. Len(s.refills) - 1 : ~SameRefill(s.refills[i], s.refills[i + 1])

EndsAtCheckpoint(s) ==
  s.checkpoint = IF s.checkpoints = <<>> THEN None ELSE Last(s.checkpoints)

Sound(s) ==
  /\ s \in States
  /\ Len(s.checkpoints) <= HistoryCapacity
  /\ Len(s.refills) <= HistoryCapacity
  /\ NoNeighboursTwice(s)
  /\ EndsAtCheckpoint(s)

(* The record under way: the refill is recorded, its level is the stable   *)
(* one, and the window it was measured in is still there.                  *)
PendingInv ==
  pending # None =>
    /\ state.refills # <<>>
    /\ Last(state.refills).after = pending.level
    /\ IsStable(samples)
    /\ pending.level = StableLevel(samples)

FileInv == (file # None => Sound(file)) /\ FileHoldsState

TrackerIInv == TypeOK /\ Sound(state) /\ FileInv /\ PendingInv

(* Push drops the oldest record of a full history and keeps the others and *)
(* their order.                                                            *)
LEMMA PushFacts ==
  ASSUME NEW S, NEW h \in Seq(S), NEW x \in S, NEW n \in Nat \ {0}, Len(h) <= n
  PROVE  /\ Push(h, x, n) \in Seq(S)
         /\ Len(Push(h, x, n)) \in 1 .. n
         /\ Last(Push(h, x, n)) = x
         /\ \A i \in 1 .. Len(Push(h, x, n)) - 1 :
              \/ /\ h # <<>> /\ Push(h, x, n)[i] = Last(h) /\ Push(h, x, n)[i + 1] = x
              \/ \E j \in 1 .. Len(h) - 1 :
                   Push(h, x, n)[i] = h[j] /\ Push(h, x, n)[i + 1] = h[j + 1]
<1> DEFINE kept == IF Len(h) = n THEN Tail(h) ELSE h
           p == Append(kept, x)
<1>1. Len(h) \in Nat BY LenProperties
<1>2. CASE Len(h) = n
  <2>1. h # <<>> BY <1>2, EmptySeq
  <2>2. /\ Tail(h) \in Seq(S) /\ Len(Tail(h)) = n - 1
        /\ \A i \in 1 .. n - 1 : Tail(h)[i] = h[i + 1]
    BY <1>2, <2>1, HeadTailProperties
  <2>3. /\ p \in Seq(S) /\ Len(p) = n /\ p[n] = x
        /\ \A i \in 1 .. n - 1 : p[i] = h[i + 1]
    <3>1. kept = Tail(h) BY <1>2
    <3> HIDE DEF kept
    <3> QED BY <2>2, <3>1, AppendProperties
  <2>4. Push(h, x, n) = p BY DEF Push
  <2> HIDE DEF p
  <2>5. ASSUME NEW i \in 1 .. n - 1
        PROVE  \/ h # <<>> /\ p[i] = Last(h) /\ p[i + 1] = x
               \/ \E j \in 1 .. Len(h) - 1 : p[i] = h[j] /\ p[i + 1] = h[j + 1]
    <3>1. CASE i = n - 1 BY <1>2, <2>1, <2>3, <3>1 DEF Last
    <3>2. CASE i < n - 1
      <4>1. i + 1 \in 1 .. Len(h) - 1 /\ p[i] = h[i + 1] /\ p[i + 1] = h[(i + 1) + 1]
        BY <1>2, <2>3, <3>2
      <4> QED BY <4>1
    <3> QED BY <3>1, <3>2
  <2> QED BY <2>3, <2>4, <2>5 DEF Last
<1>3. CASE Len(h) # n
  <2>1. kept = h BY <1>3
  <2>2. /\ p \in Seq(S) /\ Len(p) = Len(h) + 1 /\ p[Len(h) + 1] = x
        /\ \A i \in 1 .. Len(h) : p[i] = h[i]
    <3> HIDE DEF kept
    <3> QED BY <2>1, AppendProperties
  <2>3. Push(h, x, n) = p BY DEF Push
  <2> HIDE DEF p
  <2>4. ASSUME NEW i \in 1 .. Len(h)
        PROVE  \/ h # <<>> /\ p[i] = Last(h) /\ p[i + 1] = x
               \/ \E j \in 1 .. Len(h) - 1 : p[i] = h[j] /\ p[i + 1] = h[j + 1]
    <3>1. CASE i = Len(h)
      <4>1. h # <<>> BY <1>1, <3>1, EmptySeq
      <4> QED BY <2>2, <3>1, <4>1 DEF Last
    <3>2. CASE i < Len(h)
      <4>1. i \in 1 .. Len(h) - 1 /\ p[i] = h[i] /\ p[i + 1] = h[i + 1]
        BY <1>1, <2>2, <3>2
      <4> QED BY <4>1
    <3> QED BY <1>1, <3>1, <3>2
  <2>5. Len(p) \in 1 .. n /\ Len(p) - 1 = Len(h) BY <1>1, <1>3, <2>2
  <2>6. Last(p) = x BY <2>2 DEF Last
  <2> QED BY <2>2, <2>3, <2>4, <2>5, <2>6
<1> QED BY <1>2, <1>3

LEMMA CheckpointSound ==
  ASSUME NEW s, Sound(s), NEW c \in Checkpoints
  PROVE  /\ Sound(WithCheckpoint(s, c))
         /\ WithCheckpoint(s, c).checkpoint = c
         /\ WithCheckpoint(s, c).refills = s.refills
<1> DEFINE new == WithCheckpoint(s, c)
           h == s.checkpoints
<1>1. h \in Seq(Checkpoints) /\ Len(h) <= HistoryCapacity BY DEF Sound, States
<1>2. HistoryCapacity \in Nat \ {0} BY FuelAssumption
<1>3. /\ new \in [checkpoint : {c}, checkpoints : {new.checkpoints}, refills : {s.refills}]
      /\ new.checkpoint = c /\ new.refills = s.refills
      /\ new.checkpoints = IF h # <<>> /\ Last(h) = c THEN h ELSE Push(h, c, HistoryCapacity)
  BY DEF Sound, States, WithCheckpoint
<1>4. /\ new.checkpoints \in Seq(Checkpoints) /\ Len(new.checkpoints) <= HistoryCapacity
      /\ new.checkpoints # <<>> /\ Last(new.checkpoints) = c
  <2>1. CASE h # <<>> /\ Last(h) = c BY <1>1, <1>3, <2>1
  <2>2. CASE ~(h # <<>> /\ Last(h) = c)
    <3> DEFINE p == Push(h, c, HistoryCapacity)
    <3>1. p \in Seq(Checkpoints) /\ Len(p) \in 1 .. HistoryCapacity /\ Last(p) = c
      BY <1>1, <1>2, PushFacts
    <3>2. new.checkpoints = p BY <1>3, <2>2
    <3> HIDE DEF p, new
    <3>3. p # <<>> BY <3>1, EmptySeq
    <3> QED BY <1>2, <3>1, <3>2, <3>3
  <2> QED BY <2>1, <2>2
<1>5. s.refills \in Seq(Refills) /\ Len(s.refills) <= HistoryCapacity BY DEF Sound, States
<1> HIDE DEF new
<1>6. new \in States BY <1>3, <1>4, <1>5 DEF States
<1>7. NoNeighboursTwice(new) BY <1>3 DEF NoNeighboursTwice, Sound
<1>8. EndsAtCheckpoint(new) BY <1>3, <1>4 DEF EndsAtCheckpoint
<1>9. Sound(new) BY <1>3, <1>4, <1>5, <1>6, <1>7, <1>8 DEF Sound
<1> QED BY <1>3, <1>9 DEF new

LEMMA RefillSound ==
  ASSUME NEW s, Sound(s), NEW r \in Refills, ~IsLastRecordDuplicate(s, r)
  PROVE  /\ Sound(WithRefill(s, r))
         /\ WithRefill(s, r).checkpoint = s.checkpoint
         /\ WithRefill(s, r).refills # <<>>
         /\ Last(WithRefill(s, r).refills) = r
<1> DEFINE new == WithRefill(s, r)
           h == s.refills
           p == Push(h, r, HistoryCapacity)
<1>1. h \in Seq(Refills) /\ Len(h) <= HistoryCapacity BY DEF Sound, States
<1>2. HistoryCapacity \in Nat \ {0} BY FuelAssumption
<1>3. /\ p \in Seq(Refills) /\ Len(p) \in 1 .. HistoryCapacity /\ Last(p) = r
      /\ \A i \in 1 .. Len(p) - 1 :
           \/ h # <<>> /\ p[i] = Last(h) /\ p[i + 1] = r
           \/ \E j \in 1 .. Len(h) - 1 : p[i] = h[j] /\ p[i + 1] = h[j + 1]
  <2>1. /\ Push(h, r, HistoryCapacity) \in Seq(Refills)
        /\ Len(Push(h, r, HistoryCapacity)) \in 1 .. HistoryCapacity
        /\ Last(Push(h, r, HistoryCapacity)) = r
        /\ \A i \in 1 .. Len(Push(h, r, HistoryCapacity)) - 1 :
             \/ /\ h # <<>> /\ Push(h, r, HistoryCapacity)[i] = Last(h)
                /\ Push(h, r, HistoryCapacity)[i + 1] = r
             \/ \E j \in 1 .. Len(h) - 1 :
                  /\ Push(h, r, HistoryCapacity)[i] = h[j]
                  /\ Push(h, r, HistoryCapacity)[i + 1] = h[j + 1]
    <3> HIDE DEF h
    <3> QED BY <1>1, <1>2, PushFacts
  <2> QED BY <2>1
<1>4. /\ new = [checkpoint |-> s.checkpoint, checkpoints |-> s.checkpoints, refills |-> p]
  BY DEF Sound, States, WithRefill
<1> HIDE DEF p, new
<1>5. p # <<>> BY <1>3, EmptySeq
<1>6. NoNeighboursTwice(new)
  <2>1. \A i \in 1 .. Len(p) - 1 : ~SameRefill(p[i], p[i + 1])
    <3> TAKE i \in 1 .. Len(p) - 1
    <3>1. CASE h # <<>> /\ p[i] = Last(h) /\ p[i + 1] = r
      BY <3>1 DEF IsLastRecordDuplicate
    <3>2. ASSUME NEW j \in 1 .. Len(h) - 1, p[i] = h[j] /\ p[i + 1] = h[j + 1]
          PROVE  ~SameRefill(p[i], p[i + 1])
      BY <3>2 DEF Sound, NoNeighboursTwice
    <3> QED BY <1>3, <3>1, <3>2
  <2> QED BY <1>4, <2>1 DEF NoNeighboursTwice
<1>7. new \in States /\ EndsAtCheckpoint(new) /\ Len(new.checkpoints) <= HistoryCapacity
  BY <1>3, <1>4 DEF Sound, States, EndsAtCheckpoint
<1>8. Len(new.refills) <= HistoryCapacity BY <1>2, <1>3, <1>4
<1> QED BY <1>3, <1>4, <1>5, <1>6, <1>7, <1>8 DEF Sound, new

-----------------------------------------------------------------------------
(* The steps.                                                              *)

LEMMA InitTracker == Init => TrackerIInv
<1> SUFFICES ASSUME Init PROVE TrackerIInv OBVIOUS
<1>1. NoState \in States
  <2> HIDE DEF Checkpoints, Refills
  <2> QED BY DEF NoState, States
<1>2. Sound(NoState)
  BY <1>1, FuelAssumption
  DEF Sound, NoState, NoNeighboursTwice, EndsAtCheckpoint
<1>3. samples \in Seq(Levels) /\ Len(samples) <= SampleCount BY FuelAssumption DEF Init
<1>4. TypeOK
  BY <1>1, <1>2, <1>3 DEF Init, TypeOK, Sound
<1> QED
  BY <1>2, <1>4 DEF Init, TrackerIInv, FileInv, FileHoldsState, PendingInv

(* TakeSample leaves a window of levels.                                   *)
LEMMA SampleFacts ==
  ASSUME TypeOK, NEW running \in {"on", "off"}, NEW level \in Levels,
         TakeSample(running, level)
  PROVE  /\ samples' \in Seq(Levels) /\ Len(samples') <= SampleCount
         /\ previousIgnition' \in {"on", "off", None} /\ ignition' \in {"on", "off"}
         /\ pending = None /\ savesWork' = savesWork
         /\ IsStable(samples') => StableLevel(samples') \in Levels
<1> DEFINE kept == IF KeyTurned THEN <<>> ELSE samples
<1>1. kept \in Seq(Levels) /\ Len(kept) <= SampleCount /\ SampleCount \in Nat \ {0}
  BY FuelAssumption DEF TypeOK
<1>2. samples' = IF running = "off" THEN kept ELSE Push(kept, level, SampleCount)
  BY DEF TakeSample, WindowAfter
<1> HIDE DEF kept
<1>3. Push(kept, level, SampleCount) \in Seq(Levels)
      /\ Len(Push(kept, level, SampleCount)) \in 1 .. SampleCount
  BY <1>1, PushFacts
<1>4. samples' \in Seq(Levels) /\ Len(samples') <= SampleCount BY <1>1, <1>2, <1>3
<1>5. IsStable(samples') => StableLevel(samples') \in Levels
  BY <1>4, MedianExists DEF IsStable
<1> QED BY <1>4, <1>5 DEF TakeSample, TypeOK

(* What ProcessStable can do: nothing, move the checkpoint, or go on to    *)
(* the second save, with the refill recorded now or by an earlier start.   *)
Settled(level) ==
  /\ state.checkpoint # None
  /\ level < state.checkpoint.level + RefillIncrease
  /\ state.checkpoint.level < level + CheckpointDecrease

Measured(level, odometer) == [level |-> level, odometer |-> odometer]

Idle(level) ==
  /\ UNCHANGED <<state, file>>
  /\ pending' = None
  /\ startupCheckComplete' /\ ~startupCheckComplete => Settled(level)

Moves(level, odometer) ==
  /\ state' = WithCheckpoint(state, Measured(level, odometer))
  /\ file' = state'
  /\ pending' = None
  /\ state.checkpoint = None \/ state.checkpoint.level >= level + CheckpointDecrease

Records(level, odometer) ==
  \E before \in Levels :
    LET r == [before |-> before, after |-> level, odometer |-> odometer] IN
    /\ \/ /\ ~IsLastRecordDuplicate(state, r)
          /\ state' = WithRefill(state, r)
          /\ file' = state'
       \/ /\ IsLastRecordDuplicate(state, r)
          /\ UNCHANGED <<state, file>>
    /\ pending' = Measured(level, odometer)
    /\ startupCheckComplete' => startupCheckComplete

LEMMA LevelFacts ==
  /\ \A l \in Levels : l \in Nat
  /\ \A k \in Checkpoints : k.level \in Levels /\ k.level \in Nat /\ k # None
  /\ \A l \in Levels, odometer \in Odometers :
       Measured(l, odometer) \in Checkpoints /\ Measured(l, odometer).level = l
  /\ \A s \in States : s # None
<1>1. \A l \in Levels : l \in Nat
  <2>1. Levels \subseteq 0 .. 100 BY FuelAssumption
  <2> QED BY <2>1
<1>2. None \notin Checkpoints /\ None \notin States BY FuelAssumption
<1>3. \A k \in Checkpoints : k.level \in Levels BY DEF Checkpoints
<1>4. \A l \in Levels, odometer \in Odometers :
        Measured(l, odometer) \in Checkpoints /\ Measured(l, odometer).level = l
  BY DEF Checkpoints, Measured
<1>5. \A k \in Checkpoints : k.level \in Nat /\ k # None BY <1>1, <1>2, <1>3
<1>6. \A s \in States : s # None BY <1>2
<1> QED BY <1>1, <1>3, <1>4, <1>5, <1>6

LEMMA StableFacts ==
  ASSUME TypeOK, Sound(state), NEW running \in {"on", "off"}, NEW level \in Levels,
         NEW odometer \in Odometers, ProcessStable(running, level, odometer)
  PROVE  /\ TakeSample(running, level) /\ IsStable(samples')
         /\ startupCheckComplete' \in BOOLEAN /\ offCheckpointHandled' \in BOOLEAN
         /\ \/ Idle(StableLevel(samples'))
            \/ Moves(StableLevel(samples'), odometer)
            \/ Records(StableLevel(samples'), odometer)
<1> DEFINE stable == StableLevel(samples')
           c == state.checkpoint
           moved == WithCheckpoint(state, Measured(stable, odometer))
           outcome == IF ignition = "on" THEN ProcessStartup(stable, odometer)
                                         ELSE ProcessIgnitionOff(stable, odometer)
           refill == [before |-> c.level, after |-> stable, odometer |-> odometer]
<1>1. /\ TakeSample(running, level) /\ IsStable(samples')
      /\ offCheckpointHandled' = (ignition = "off")
      /\ startupCheckComplete' = (StartupDone \/ Completes(outcome))
      /\ IF outcome.state = None THEN UNCHANGED <<state, file>> ELSE Save(outcome.state)
      /\ pending' = IF outcome.second /\ (outcome.state = None \/ savesWork)
                      THEN Measured(stable, odometer) ELSE None
  BY DEF ProcessStable, Decides, Measured
<1>2. StartupDone => startupCheckComplete BY DEF StartupDone
<1>3. stable \in Levels /\ stable \in Nat
  <2>1. stable \in Levels BY <1>1, SampleFacts
  <2> HIDE DEF stable
  <2> QED BY <2>1, LevelFacts
<1>4. c \in Checkpoints \cup {None} BY DEF TypeOK, States
<1>5. RefillIncrease \in Nat \ {0} /\ CheckpointDecrease \in Nat \ {0} BY FuelAssumption
<1>6. moved # None
  <2>1. Measured(stable, odometer) \in Checkpoints BY <1>3, LevelFacts
  <2>2. Sound(moved) BY <2>1, CheckpointSound
  <2> QED BY <2>2, LevelFacts DEF Sound
<1>7. c # None => c.level \in Levels /\ c.level \in Nat BY <1>4, LevelFacts
<1>8. startupCheckComplete' \in BOOLEAN /\ offCheckpointHandled' \in BOOLEAN
  BY <1>1
<1>9. CASE /\ outcome = Outcome(moved, FALSE, ignition = "on")
           /\ c = None \/ c.level >= stable + CheckpointDecrease
  <2>1. outcome.state = moved /\ outcome.second = FALSE BY <1>9 DEF Outcome
  <2> HIDE DEF stable, outcome, moved
  <2>2. pending' = None BY <1>1, <2>1
  <2>3. Save(moved) BY <1>1, <1>6, <2>1
  <2>4. CASE savesWork
    <3>1. state' = moved /\ file' = moved BY <2>3, <2>4 DEF Save
    <3>2. Moves(stable, odometer) BY <1>9, <2>2, <3>1 DEF Moves, moved
    <3> QED BY <1>1, <1>8, <3>2 DEF stable
  <2>5. CASE ~savesWork
    <3>1. UNCHANGED <<state, file>> BY <2>3, <2>5 DEF Save
    <3>2. ~Completes(outcome) BY <1>6, <2>1, <2>5 DEF Completes
    <3>3. Idle(stable) BY <1>1, <1>2, <2>2, <3>1, <3>2 DEF Idle
    <3> QED BY <1>1, <1>8, <3>3 DEF stable
  <2> QED BY <2>4, <2>5
<1>10. CASE /\ c # None
            /\ outcome = AppendRefill(refill)
  <2>1. refill \in Refills BY <1>3, <1>7, <1>10 DEF Refills
  <2>2. CASE IsLastRecordDuplicate(state, refill)
    <3>1. outcome.state = None /\ outcome.second = TRUE /\ outcome.complete = FALSE
      BY <1>10, <2>2 DEF AppendRefill, Outcome
    <3> HIDE DEF outcome, stable
    <3>2. UNCHANGED <<state, file>> /\ pending' = Measured(stable, odometer)
          /\ (startupCheckComplete' => startupCheckComplete)
      BY <1>1, <1>2, <3>1 DEF Completes
    <3>3. Records(stable, odometer)
      BY <1>7, <1>10, <2>2, <3>2 DEF Records, refill
    <3> QED BY <1>1, <1>8, <3>3 DEF stable
  <2>3. CASE ~IsLastRecordDuplicate(state, refill)
    <3> DEFINE recorded == WithRefill(state, refill)
    <3>1. outcome.state = recorded /\ outcome.second = TRUE /\ outcome.complete = FALSE
      BY <1>10, <2>3 DEF AppendRefill, Outcome
    <3>2. recorded # None
      <4>1. Sound(recorded) BY <2>1, <2>3, RefillSound
      <4> QED BY <4>1, LevelFacts DEF Sound
    <3> HIDE DEF outcome, stable, recorded
    <3>3. startupCheckComplete' => startupCheckComplete
      BY <1>1, <1>2, <3>1 DEF Completes
    <3>4. Save(recorded) BY <1>1, <3>1, <3>2
    <3>5. CASE savesWork
      <4>1. state' = recorded /\ file' = recorded /\ pending' = Measured(stable, odometer)
        BY <1>1, <3>1, <3>4, <3>5 DEF Save
      <4>2. Records(stable, odometer)
        BY <1>7, <1>10, <2>3, <3>3, <4>1 DEF Records, refill, recorded
      <4> QED BY <1>1, <1>8, <4>2 DEF stable
    <3>6. CASE ~savesWork
      <4>1. UNCHANGED <<state, file>> /\ pending' = None
        BY <1>1, <3>1, <3>2, <3>4, <3>6 DEF Save
      <4>2. Idle(stable) BY <3>3, <4>1 DEF Idle
      <4> QED BY <1>1, <1>8, <4>2 DEF stable
    <3> QED BY <3>5, <3>6
  <2> QED BY <2>2, <2>3
<1>11. CASE /\ outcome \in {Outcome(None, FALSE, TRUE), Outcome(None, FALSE, FALSE)}
            /\ outcome.complete => Settled(stable)
  <2>1. outcome.state = None /\ outcome.second = FALSE BY <1>11 DEF Outcome
  <2> HIDE DEF stable, outcome
  <2>2. UNCHANGED <<state, file>> /\ pending' = None BY <1>1, <2>1
  <2>3. Idle(stable) BY <1>1, <1>2, <1>11, <2>2 DEF Idle, Completes
  <2> QED BY <1>1, <1>8, <2>3 DEF stable
<1> HIDE DEF stable, moved, refill
<1>12. CASE ignition = "on"
  <2>1. outcome = ProcessStartup(stable, odometer) BY <1>12
  <2>2. moved = WithCheckpoint(state, [level |-> stable, odometer |-> odometer])
    BY DEF moved, Measured
  <2>3. CASE c = None
    <3>1. outcome = Outcome(moved, FALSE, TRUE) BY <2>1, <2>2, <2>3 DEF ProcessStartup
    <3> QED BY <1>9, <1>12, <2>3, <3>1
  <2>4. CASE c # None /\ stable >= c.level + RefillIncrease
    <3>1. ~(c.level >= stable + CheckpointDecrease) BY <1>3, <1>5, <1>7, <2>4
    <3>2. outcome = AppendRefill(refill) BY <2>1, <2>4, <3>1 DEF ProcessStartup, refill
    <3> QED BY <1>10, <2>4, <3>2
  <2>5. CASE c # None /\ c.level >= stable + CheckpointDecrease
    <3>1. ~(stable >= c.level + RefillIncrease) BY <1>3, <1>5, <1>7, <2>5
    <3>2. outcome = Outcome(moved, FALSE, TRUE)
      BY <2>1, <2>2, <2>5, <3>1 DEF ProcessStartup
    <3> QED BY <1>9, <1>12, <2>5, <3>2
  <2>6. CASE /\ c # None /\ ~(stable >= c.level + RefillIncrease)
             /\ ~(c.level >= stable + CheckpointDecrease)
    <3>1. outcome = Outcome(None, FALSE, TRUE) BY <2>1, <2>6 DEF ProcessStartup
    <3>2. Settled(stable) BY <1>3, <1>5, <1>7, <2>6 DEF Settled
    <3> QED BY <1>11, <3>1, <3>2
  <2> QED BY <2>3, <2>4, <2>5, <2>6
<1>13. CASE ignition # "on"
  <2>1. outcome = ProcessIgnitionOff(stable, odometer) BY <1>13
  <2>2. moved = WithCheckpoint(state, [level |-> stable, odometer |-> odometer])
    BY DEF moved, Measured
  <2>3. CASE c # None /\ c.level >= stable + CheckpointDecrease
    <3>1. outcome = Outcome(moved, FALSE, FALSE)
      BY <2>1, <2>2, <2>3 DEF ProcessIgnitionOff
    <3> QED BY <1>9, <1>13, <2>3, <3>1
  <2>4. CASE ~(c # None /\ c.level >= stable + CheckpointDecrease)
    <3>1. outcome = Outcome(None, FALSE, FALSE) BY <2>1, <2>4 DEF ProcessIgnitionOff
    <3>2. ~outcome.complete BY <3>1 DEF Outcome
    <3> QED BY <1>11, <3>1, <3>2
  <2> QED BY <2>3, <2>4
<1> QED BY <1>12, <1>13

LEMMA ProcessStableKeeps ==
  ASSUME TrackerIInv, NEW running \in {"on", "off"}, NEW level \in Levels,
         NEW odometer \in Odometers, ProcessStable(running, level, odometer)
  PROVE  TrackerIInv'
<1> DEFINE stable == StableLevel(samples')
           m == Measured(stable, odometer)
<1>1. TypeOK /\ Sound(state) /\ FileInv BY DEF TrackerIInv
<1>2. /\ TakeSample(running, level) /\ IsStable(samples')
      /\ startupCheckComplete' \in BOOLEAN /\ offCheckpointHandled' \in BOOLEAN
      /\ \/ Idle(stable) \/ Moves(stable, odometer) \/ Records(stable, odometer)
  BY <1>1, StableFacts
<1>3. /\ samples' \in Seq(Levels) /\ Len(samples') <= SampleCount
      /\ previousIgnition' \in {"on", "off", None} /\ ignition' \in {"on", "off"}
      /\ savesWork' = savesWork /\ stable \in Levels
  BY <1>1, <1>2, SampleFacts
<1> HIDE DEF stable
<1>4. m \in Checkpoints /\ m.level = stable BY <1>3, LevelFacts
<1> HIDE DEF m
<1>5. /\ Sound(state') /\ pending' \in Checkpoints \cup {None}
      /\ UNCHANGED <<state, file>> \/ file' = state'
      /\ pending' # None =>
           /\ state'.refills # <<>> /\ Last(state'.refills).after = stable
           /\ pending'.level = stable
  <2>1. CASE Idle(stable) BY <1>1, <2>1 DEF Idle
  <2>2. CASE Moves(stable, odometer)
    BY <1>1, <1>4, <2>2, CheckpointSound DEF Moves, m
  <2>3. CASE Records(stable, odometer)
    <3>1. PICK before \in Levels :
            LET r == [before |-> before, after |-> stable, odometer |-> odometer] IN
            /\ \/ /\ ~IsLastRecordDuplicate(state, r)
                  /\ state' = WithRefill(state, r)
                  /\ file' = state'
               \/ /\ IsLastRecordDuplicate(state, r)
                  /\ UNCHANGED <<state, file>>
            /\ pending' = Measured(stable, odometer)
      BY <2>3 DEF Records
    <3> DEFINE r == [before |-> before, after |-> stable, odometer |-> odometer]
    <3>2. r \in Refills /\ r.after = stable BY <1>3 DEF Refills
    <3>3. pending' = m BY <3>1 DEF m
    <3>4. \/ /\ ~IsLastRecordDuplicate(state, r)
             /\ state' = WithRefill(state, r)
             /\ file' = state'
          \/ /\ IsLastRecordDuplicate(state, r)
             /\ UNCHANGED <<state, file>>
      BY <3>1
    <3> HIDE DEF r
    <3>5. CASE ~IsLastRecordDuplicate(state, r)
      BY <1>1, <1>4, <3>2, <3>3, <3>4, <3>5, RefillSound
    <3>6. CASE IsLastRecordDuplicate(state, r)
      <4>1. state.refills # <<>> /\ Last(state.refills).after = stable
        BY <3>2, <3>6 DEF IsLastRecordDuplicate, SameRefill
      <4> QED BY <1>1, <1>4, <3>3, <3>4, <3>6, <4>1
    <3> QED BY <3>5, <3>6
  <2> QED BY <1>2, <2>1, <2>2, <2>3
<1>6. TypeOK'
  <2>1. file' \in States \cup {None} BY <1>1, <1>5 DEF TypeOK, Sound
  <2> QED BY <1>1, <1>2, <1>3, <1>5, <2>1 DEF TypeOK, Sound
<1>7. FileInv' BY <1>1, <1>5 DEF FileInv, FileHoldsState
<1>8. PendingInv' BY <1>2, <1>5 DEF PendingInv, stable
<1> QED BY <1>5, <1>6, <1>7, <1>8 DEF TrackerIInv

LEMMA SecondSaveKeeps ==
  ASSUME TrackerIInv, SaveCheckpointAfterRefill
  PROVE  TrackerIInv'
<1>1. /\ TypeOK /\ Sound(state) /\ FileInv /\ pending \in Checkpoints
  BY DEF TrackerIInv, SaveCheckpointAfterRefill, TypeOK
<1>2. /\ pending' = None /\ startupCheckComplete' \in BOOLEAN
      /\ UNCHANGED <<samples, previousIgnition, offCheckpointHandled, ignition, savesWork>>
      /\ \/ state' = WithCheckpoint(state, pending) /\ file' = state'
         \/ UNCHANGED <<state, file>>
  BY DEF SaveCheckpointAfterRefill, Save, TrackerIInv, TypeOK
<1>3. Sound(state') BY <1>1, <1>2, CheckpointSound
<1>4. FileInv' BY <1>1, <1>2, <1>3 DEF FileInv, FileHoldsState
<1>5. TypeOK'
  <2>1. file' \in States \cup {None} BY <1>1, <1>2, <1>3 DEF TypeOK, Sound
  <2> QED BY <1>1, <1>2, <1>3, <2>1 DEF TypeOK, Sound
<1>6. PendingInv' BY <1>2 DEF PendingInv
<1> QED BY <1>3, <1>4, <1>5, <1>6 DEF TrackerIInv

LEMMA RestartKeeps ==
  ASSUME TrackerIInv, Restart
  PROVE  TrackerIInv'
<1>1. Sound(NoState)
  <2>1. NoState \in States
    <3> HIDE DEF Checkpoints, Refills
    <3> QED BY DEF NoState, States
  <2> QED BY <2>1, FuelAssumption DEF Sound, NoState, NoNeighboursTwice, EndsAtCheckpoint
<1>2. /\ state' = NoState \/ (file # None /\ state' = file)
      /\ file' = file /\ savesWork' = savesWork /\ samples' = <<>> /\ pending' = None
      /\ previousIgnition' = None /\ ignition' = "off"
      /\ startupCheckComplete' = FALSE /\ offCheckpointHandled' = FALSE
  BY DEF Restart, LoadState
<1>3. Sound(state') BY <1>1, <1>2 DEF TrackerIInv, FileInv
<1>4. FileInv' BY <1>2 DEF TrackerIInv, FileInv, FileHoldsState
<1>5. samples' \in Seq(Levels) /\ Len(samples') <= SampleCount
  <2>1. SampleCount \in Nat BY FuelAssumption
  <2> QED BY <1>2, <2>1, EmptySeq
<1>6. TypeOK' BY <1>2, <1>3, <1>5 DEF TrackerIInv, TypeOK, Sound
<1>7. PendingInv' BY <1>2 DEF PendingInv
<1> QED BY <1>3, <1>4, <1>6, <1>7 DEF TrackerIInv

(* The steps that leave _state alone.                                      *)
LEMMA OthersKeep ==
  ASSUME TrackerIInv,
         \/ ProcessUnusable
         \/ \E running \in {"on", "off"}, level \in Levels : ProcessSample(running, level)
         \/ DeletePersistedData
         \/ TurnKey
         \/ ClockOrFlashChanges
         \/ UNCHANGED vars
  PROVE  TrackerIInv' /\ state' = state
<1>1. TypeOK /\ Sound(state) /\ FileInv /\ PendingInv BY DEF TrackerIInv
<1>2. CASE ProcessUnusable
  <2>1. /\ pending = None /\ samples' = <<>>
        /\ UNCHANGED <<state, file, previousIgnition, startupCheckComplete,
                       offCheckpointHandled, pending, ignition, savesWork>>
    BY <1>2 DEF ProcessUnusable
  <2>2. samples' \in Seq(Levels) /\ Len(samples') <= SampleCount
    <3>1. SampleCount \in Nat BY FuelAssumption
    <3> QED BY <2>1, <3>1, EmptySeq
  <2>3. TypeOK' BY <1>1, <2>1, <2>2 DEF TypeOK
  <2> QED BY <1>1, <2>1, <2>3 DEF TrackerIInv, FileInv, FileHoldsState, PendingInv
<1>3. ASSUME NEW running \in {"on", "off"}, NEW level \in Levels, ProcessSample(running, level)
      PROVE  TrackerIInv' /\ state' = state
  <2>1. /\ TakeSample(running, level) /\ UNCHANGED <<state, file, pending>>
        /\ startupCheckComplete' \in BOOLEAN /\ offCheckpointHandled' \in BOOLEAN
    BY <1>1, <1>3 DEF ProcessSample, StartupDone, OffHandled, TypeOK
  <2>2. /\ samples' \in Seq(Levels) /\ Len(samples') <= SampleCount /\ pending = None
        /\ previousIgnition' \in {"on", "off", None} /\ ignition' \in {"on", "off"}
        /\ savesWork' = savesWork
    BY <1>1, <2>1, SampleFacts
  <2>3. TypeOK' BY <1>1, <2>1, <2>2 DEF TypeOK
  <2> QED BY <1>1, <2>1, <2>2, <2>3 DEF TrackerIInv, FileInv, FileHoldsState, PendingInv
<1>4. CASE DeletePersistedData
  <2>1. file' = None /\ UNCHANGED <<state, tracker, pending, ignition, savesWork>>
    BY <1>4 DEF DeletePersistedData
  <2> QED
    BY <1>1, <2>1
    DEF tracker, TrackerIInv, TypeOK, FileInv, FileHoldsState, PendingInv
<1>5. CASE TurnKey
  <2>1. ignition' \in {"on", "off"} /\ UNCHANGED <<state, file, tracker, pending, savesWork>>
    BY <1>5 DEF TurnKey
  <2> QED
    BY <1>1, <2>1
    DEF tracker, TrackerIInv, TypeOK, FileInv, FileHoldsState, PendingInv
<1>6. CASE ClockOrFlashChanges
  <2>1. savesWork' \in BOOLEAN /\ UNCHANGED <<state, file, tracker, pending, ignition>>
    BY <1>1, <1>6 DEF ClockOrFlashChanges, TypeOK
  <2> QED
    BY <1>1, <2>1
    DEF tracker, TrackerIInv, TypeOK, FileInv, FileHoldsState, PendingInv
<1>7. CASE UNCHANGED vars
  BY <1>1, <1>7
  DEF vars, tracker, TrackerIInv, TypeOK, FileInv, FileHoldsState, PendingInv
<1> QED BY <1>2, <1>3, <1>4, <1>5, <1>6, <1>7

LEMMA NextTracker == TrackerIInv /\ [Next]_vars => TrackerIInv'
BY ProcessStableKeeps, SecondSaveKeeps, RestartKeeps, OthersKeep DEF Next, Process

LEMMA TrackerAlways == Spec => []TrackerIInv
BY InitTracker, NextTracker, PTL DEF Spec

(* The records fit their buffers, memory agrees with the file, and the     *)
(* checkpoint with its history.                                            *)
THEOREM TrackerCorrect == Spec => []TrackerInv
<1>1. TrackerIInv => TrackerInv
  BY DEF TrackerIInv, TrackerInv, FileInv, Sound, EndsAtCheckpoint, HistoryEndsAtCheckpoint
<1> QED BY <1>1, TrackerAlways, PTL

(* A refuelling is recorded once, whichever of its two saves fails or is   *)
(* cut off.                                                                *)
THEOREM NoRefillTwiceHolds == Spec => []NoRefillTwice
<1>1. TrackerIInv => NoRefillTwice
  BY DEF TrackerIInv, Sound, NoNeighboursTwice, NoRefillTwice
<1> QED BY <1>1, TrackerAlways, PTL

(* The checkpoint never moves up by a refill that is not recorded.         *)
THEOREM NoRiseWithoutRefillHolds == Spec => NoRiseWithoutRefill
<1> DEFINE A == LET old == state.checkpoint new == state'.checkpoint IN
                (old # None /\ new # None /\ new.level >= old.level + RefillIncrease)
                  => state'.refills # <<>> /\ Last(state'.refills).after = new.level
<1>1. TrackerIInv /\ [Next]_vars => [A]_vars
  <2> SUFFICES ASSUME TrackerIInv, [Next]_vars,
                      state.checkpoint # None, state'.checkpoint # None,
                      state'.checkpoint.level >= state.checkpoint.level + RefillIncrease
               PROVE  state'.refills # <<>> /\ Last(state'.refills).after = state'.checkpoint.level
    OBVIOUS
  <2>1. TypeOK /\ Sound(state) /\ FileInv /\ PendingInv BY DEF TrackerIInv
  <2>2. state.checkpoint.level \in Nat BY <2>1, LevelFacts DEF TypeOK, States
  <2>3. RefillIncrease \in Nat \ {0} /\ CheckpointDecrease \in Nat \ {0} BY FuelAssumption
  <2>4. state'.checkpoint # state.checkpoint BY <2>2, <2>3
  <2>5. ASSUME NEW running \in {"on", "off"}, NEW level \in Levels,
               NEW odometer \in Odometers, ProcessStable(running, level, odometer)
        PROVE  FALSE
    <3> DEFINE stable == StableLevel(samples')
    <3>1. Idle(stable) \/ Moves(stable, odometer) \/ Records(stable, odometer)
      BY <2>1, <2>5, StableFacts
    <3>2. stable \in Levels /\ stable \in Nat
      BY <2>1, <2>5, StableFacts, SampleFacts, LevelFacts
    <3> HIDE DEF stable
    <3>3. ~Idle(stable) BY <2>4 DEF Idle
    <3>4. CASE Moves(stable, odometer)
      <4>1. Measured(stable, odometer) \in Checkpoints /\ Measured(stable, odometer).level = stable
        BY <3>2, LevelFacts
      <4>2. state'.checkpoint = Measured(stable, odometer)
        BY <2>1, <3>4, <4>1, CheckpointSound DEF Moves
      <4>3. state.checkpoint.level >= stable + CheckpointDecrease BY <3>4 DEF Moves
      <4> QED BY <2>2, <2>3, <3>2, <4>1, <4>2, <4>3
    <3>5. CASE Records(stable, odometer)
      <4>1. PICK before \in Levels :
              LET r == [before |-> before, after |-> stable, odometer |-> odometer] IN
              \/ ~IsLastRecordDuplicate(state, r) /\ state' = WithRefill(state, r)
              \/ state' = state
        BY <3>5 DEF Records
      <4> DEFINE r == [before |-> before, after |-> stable, odometer |-> odometer]
      <4>2. r \in Refills BY <3>2 DEF Refills
      <4>3. state'.checkpoint = state.checkpoint
        <5> HIDE DEF r
        <5>1. \/ ~IsLastRecordDuplicate(state, r) /\ state' = WithRefill(state, r)
              \/ state' = state
          BY <4>1 DEF r
        <5> QED BY <2>1, <4>2, <5>1, RefillSound
      <4> QED BY <2>4, <4>3
    <3> QED BY <3>1, <3>3, <3>4, <3>5
  <2>6. CASE SaveCheckpointAfterRefill
    <3>1. pending \in Checkpoints BY <2>1, <2>6 DEF SaveCheckpointAfterRefill, TypeOK
    <3>2. state' = WithCheckpoint(state, pending)
      BY <2>4, <2>6 DEF SaveCheckpointAfterRefill, Save
    <3>3. state'.checkpoint = pending /\ state'.refills = state.refills
      BY <2>1, <3>1, <3>2, CheckpointSound
    <3> QED BY <2>1, <3>1, <3>3, LevelFacts DEF PendingInv
  <2>7. CASE Restart
    <3>1. state' = NoState \/ state' = state
      BY <2>1, <2>7 DEF Restart, LoadState, FileInv, FileHoldsState, NoState
    <3> QED BY <2>4, <3>1 DEF NoState
  <2>8. CASE \/ ProcessUnusable
             \/ \E running \in {"on", "off"}, level \in Levels : ProcessSample(running, level)
             \/ DeletePersistedData
             \/ TurnKey
             \/ ClockOrFlashChanges
             \/ UNCHANGED vars
    BY <2>4, <2>8, OthersKeep
  <2> QED BY <2>5, <2>6, <2>7, <2>8 DEF Next, Process
<1> QED BY <1>1, TrackerAlways, PTL DEF Spec, NoRiseWithoutRefill

(* The startup check ends with a checkpoint that agrees with the measured  *)
(* level.                                                                  *)
THEOREM SettledOnMeasuredLevelHolds == Spec => SettledOnMeasuredLevel
<1> DEFINE A == startupCheckComplete' /\ ~startupCheckComplete =>
                  /\ IsStable(samples')
                  /\ state'.checkpoint # None
                  /\ LET measured == StableLevel(samples') IN
                       /\ measured < state'.checkpoint.level + RefillIncrease
                       /\ state'.checkpoint.level < measured + CheckpointDecrease
<1>1. TrackerIInv /\ [Next]_vars => [A]_vars
  <2> SUFFICES ASSUME TrackerIInv, [Next]_vars, startupCheckComplete', ~startupCheckComplete
               PROVE  /\ IsStable(samples')
                      /\ state'.checkpoint # None
                      /\ StableLevel(samples') < state'.checkpoint.level + RefillIncrease
                      /\ state'.checkpoint.level < StableLevel(samples') + CheckpointDecrease
    OBVIOUS
  <2> DEFINE stable == StableLevel(samples')
  <2>1. TypeOK /\ Sound(state) /\ PendingInv BY DEF TrackerIInv
  <2>2. RefillIncrease \in Nat \ {0} /\ CheckpointDecrease \in Nat \ {0} BY FuelAssumption
  <2>3. ASSUME NEW running \in {"on", "off"}, NEW level \in Levels,
               NEW odometer \in Odometers, ProcessStable(running, level, odometer)
        PROVE  /\ IsStable(samples') /\ state'.checkpoint # None
               /\ stable < state'.checkpoint.level + RefillIncrease
               /\ state'.checkpoint.level < stable + CheckpointDecrease
    <3>1. /\ IsStable(samples')
          /\ Idle(stable) \/ Moves(stable, odometer) \/ Records(stable, odometer)
      BY <2>1, <2>3, StableFacts
    <3>2. stable \in Levels /\ stable \in Nat
      BY <2>1, <2>3, StableFacts, SampleFacts, LevelFacts
    <3> HIDE DEF stable
    <3>3. CASE Idle(stable) BY <3>1, <3>3 DEF Idle, Settled
    <3>4. CASE Moves(stable, odometer)
      <4>1. /\ Measured(stable, odometer) \in Checkpoints
            /\ Measured(stable, odometer).level = stable
            /\ Measured(stable, odometer) # None
        BY <3>2, LevelFacts
      <4>2. state'.checkpoint = Measured(stable, odometer)
        BY <2>1, <3>4, <4>1, CheckpointSound DEF Moves
      <4> QED BY <2>2, <3>1, <3>2, <4>1, <4>2
    <3>5. ~Records(stable, odometer) BY DEF Records
    <3> QED BY <3>1, <3>3, <3>4, <3>5
  <2>4. CASE SaveCheckpointAfterRefill
    <3>1. pending \in Checkpoints /\ pending # None /\ samples' = samples
      BY <2>1, <2>4 DEF SaveCheckpointAfterRefill, TypeOK
    <3>2. state' = WithCheckpoint(state, pending)
      BY <2>4 DEF SaveCheckpointAfterRefill, Save
    <3>3. state'.checkpoint = pending BY <2>1, <3>1, <3>2, CheckpointSound
    <3>4. IsStable(samples') /\ pending.level = stable BY <2>1, <3>1 DEF PendingInv
    <3>5. pending.level \in Nat BY <3>1, LevelFacts
    <3> QED BY <2>2, <3>1, <3>3, <3>4, <3>5
  <2>5. CASE \E running \in {"on", "off"}, level \in Levels : ProcessSample(running, level)
    BY <2>5 DEF ProcessSample, StartupDone
  <2>6. CASE \/ ProcessUnusable \/ DeletePersistedData \/ Restart \/ TurnKey
             \/ ClockOrFlashChanges \/ UNCHANGED vars
    BY <2>6
    DEF ProcessUnusable, DeletePersistedData, Restart, TurnKey, ClockOrFlashChanges, vars, tracker
  <2> QED BY <2>3, <2>4, <2>5, <2>6 DEF Next, Process
<1> QED BY <1>1, TrackerAlways, PTL DEF Spec, SettledOnMeasuredLevel
=============================================================================
