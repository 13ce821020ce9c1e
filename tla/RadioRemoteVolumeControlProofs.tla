------------------- MODULE RadioRemoteVolumeControlProofs -------------------
(***************************************************************************)
(* The radio remote for every size of the wheel and for any number of      *)
(* frames and turns: what the variables hold, that each volume command     *)
(* arrives, and that the radio follows the wheel.                          *)
(***************************************************************************)
EXTENDS RadioRemoteVolumeControl, FiniteSetTheorems, WellFoundedInduction, TLAPS

-----------------------------------------------------------------------------
(* Induction.  The induction theorems of the library have an operator as a *)
(* parameter, which the provers cannot instantiate; a set of naturals with *)
(* no first element contradicts that strict inclusion is well-founded on   *)
(* finite sets, which has none.                                            *)

LEMMA FirstElement ==
  ASSUME NEW T \in SUBSET Nat, T # {}
  PROVE  \E n \in T : n = 0 \/ n - 1 \notin T
<1>1. SUFFICES ASSUME \A n \in T : n # 0 /\ n - 1 \in T PROVE FALSE OBVIOUS
<1> DEFINE intervals == {0 .. n : n \in T}
           R == StrictSubsetOrdering(Nat)
<1>2. intervals \subseteq FiniteSubsetsOf(Nat) /\ intervals # {}
  <2>1. \A n \in T : 0 .. n \in FiniteSubsetsOf(Nat) BY FS_Interval DEF FiniteSubsetsOf
  <2> QED BY <2>1
<1>3. PICK x \in intervals : \A y \in intervals : ~ (<<y, x>> \in R)
  <2> HIDE DEF intervals, R
  <2>1. IsWellFoundedOn(R, FiniteSubsetsOf(Nat))
    BY FS_StrictSubsetOrderingWellFounded DEF R
  <2> QED BY <1>2, <2>1, WFMin
<1>4. PICK n \in T : x = 0 .. n BY <1>3
<1>5. n - 1 \in T /\ 0 .. n - 1 \in intervals BY <1>1, <1>4
<1>6. <<0 .. n - 1, x>> \in R
  <2>1. n \in x /\ n \notin 0 .. n - 1 BY <1>4
  <2>2. 0 .. n - 1 \subseteq x /\ x \subseteq Nat BY <1>4
  <2> QED BY <2>1, <2>2 DEF StrictSubsetOrdering
<1> QED BY <1>3, <1>5, <1>6

(* A function can be iterated: each finite number of steps can be taken,   *)
(* and they agree on what they have in common.                             *)
LEMMA IterationExists ==
  ASSUME NEW S, NEW first \in S, NEW step \in [S -> S]
  PROVE  \E f \in [Nat -> S] : f[0] = first /\ \A n \in Nat : f[n + 1] = step[f[n]]
<1> DEFINE Steps(g, n) == /\ g \in [0 .. n -> S] /\ g[0] = first
                          /\ \A k \in 0 .. n - 1 : g[k + 1] = step[g[k]]
<1>1. \A n \in Nat : \E g : Steps(g, n)
  <2> DEFINE T == {n \in Nat : ~ \E g : Steps(g, n)}
  <2> SUFFICES ASSUME T # {} PROVE FALSE OBVIOUS
  <2>1. PICK n \in T : n = 0 \/ n - 1 \notin T BY FirstElement
  <2>2. n # 0
    <3>1. Steps([k \in 0 .. 0 |-> first], 0) OBVIOUS
    <3> QED BY <2>1, <3>1
  <2>3. PICK g : Steps(g, n - 1) BY <2>1, <2>2
  <2> DEFINE h == [k \in 0 .. n |-> IF k = n THEN step[g[n - 1]] ELSE g[k]]
  <2>4. Steps(h, n)
    <3>1. n - 1 \in 0 .. n - 1 /\ g[n - 1] \in S BY <2>1, <2>2, <2>3
    <3>2. h \in [0 .. n -> S] BY <2>2, <2>3, <3>1
    <3>3. h[0] = first BY <2>2, <2>3
    <3>4. ASSUME NEW k \in 0 .. n - 1 PROVE h[k + 1] = step[h[k]]
      <4>1. CASE k = n - 1 BY <4>1, <2>2
      <4>2. CASE k # n - 1
        <5>1. k \in 0 .. n - 1 - 1 /\ k + 1 # n /\ k # n BY <4>2, <2>2
        <5>2. h[k + 1] = g[k + 1] /\ h[k] = g[k] BY <5>1
        <5> QED BY <5>1, <5>2, <2>3
      <4> QED BY <4>1, <4>2
    <3> QED BY <3>2, <3>3, <3>4
  <2> QED BY <2>1, <2>4
<1>2. ASSUME NEW m \in Nat, NEW n \in Nat, NEW g, NEW h, Steps(g, m), Steps(h, n),
             NEW j \in Nat, j <= m, j <= n
      PROVE  g[j] = h[j]
  <2> DEFINE T == {k \in Nat : k <= j /\ g[k] # h[k]}
  <2> SUFFICES ASSUME T # {} PROVE FALSE OBVIOUS
  <2>1. PICK k \in T : k = 0 \/ k - 1 \notin T BY FirstElement
  <2>2. k # 0 BY <2>1, <1>2
  <2>3. g[k - 1] = h[k - 1] BY <2>1, <2>2
  <2>4. k - 1 \in 0 .. m - 1 /\ k - 1 \in 0 .. n - 1 /\ k = (k - 1) + 1
    BY <2>1, <2>2, <1>2
  <2>5. g[k] = step[g[k - 1]] /\ h[k] = step[h[k - 1]] BY <2>4, <1>2
  <2> QED BY <2>1, <2>3, <2>5
<1> DEFINE run == [n \in Nat |-> CHOOSE g : Steps(g, n)]
           f == [n \in Nat |-> run[n][n]]
<1>3. \A n \in Nat : Steps(run[n], n) BY <1>1
<1> HIDE DEF run
<1>4. f \in [Nat -> S] BY <1>3
<1>5. f[0] = first BY <1>3
<1>6. ASSUME NEW n \in Nat PROVE f[n + 1] = step[f[n]]
  <2>1. n + 1 \in Nat /\ n \in 0 .. (n + 1) - 1 OBVIOUS
  <2>2. Steps(run[n], n) /\ Steps(run[n + 1], n + 1) BY <1>3, <2>1
  <2> DEFINE g == run[n]
             h == run[n + 1]
  <2>3. Steps(g, n) /\ Steps(h, n + 1) BY <2>2
  <2> HIDE DEF g, h
  <2>4. h[n + 1] = step[h[n]] BY <2>1, <2>3
  <2>5. h[n] = g[n]
    <3> HIDE DEF Steps
    <3>1. n <= n /\ n <= n + 1 OBVIOUS
    <3> QED BY <1>2, <2>1, <2>3, <3>1
  <2> QED BY <2>1, <2>4, <2>5 DEF g, h
<1> QED BY <1>4, <1>5, <1>6

-----------------------------------------------------------------------------
(* The wheel.                                                              *)

LEMMA IncrementFields ==
  ASSUME NEW x \in Scrolls
  PROVE  LET y == Increment(x) IN
         /\ y \in Scrolls /\ y.negative = x.negative
         /\ \/ /\ x.position = Top /\ y.position = Wrap /\ y.positive = ~x.positive
            \/ /\ x.position < Top /\ y.position = x.position + 1
               /\ y.positive = x.positive
<1>0. /\ x.position \in 0 .. Top /\ x.negative \in BOOLEAN /\ x.positive \in BOOLEAN
      /\ x = [position |-> x.position, negative |-> x.negative, positive |-> x.positive]
  BY DEF Scrolls
<1>1. CASE x.position = Top
  <2>1. Increment(x) = [position |-> Wrap, negative |-> x.negative, positive |-> ~x.positive]
    BY <1>0, <1>1 DEF Increment
  <2>2. Wrap \in 0 .. Top BY RemoteAssumption
  <2>3. (~x.positive) \in BOOLEAN OBVIOUS
  <2>4. [position |-> Wrap, negative |-> x.negative, positive |-> ~x.positive] \in Scrolls
    BY <1>0, <2>2, <2>3 DEF Scrolls
  <2> QED BY <1>1, <2>1, <2>4
<1>2. CASE x.position # Top
  <2>1. Increment(x) = [position |-> x.position + 1, negative |-> x.negative,
                        positive |-> x.positive]
    BY <1>0, <1>2 DEF Increment
  <2>2. x.position + 1 \in 0 .. Top /\ x.position < Top BY <1>0, <1>2, RemoteAssumption
  <2> QED BY <1>0, <2>1, <2>2 DEF Scrolls
<1> QED BY <1>1, <1>2

LEMMA DecrementFields ==
  ASSUME NEW x \in Scrolls
  PROVE  LET y == Decrement(x) IN
         /\ y \in Scrolls /\ y.positive = x.positive
         /\ \/ /\ x.position = 0 /\ y.position = Wrap /\ y.negative = ~x.negative
            \/ /\ x.position > 0 /\ y.position = x.position - 1
               /\ y.negative = x.negative
<1>0. /\ x.position \in 0 .. Top /\ x.negative \in BOOLEAN /\ x.positive \in BOOLEAN
      /\ x = [position |-> x.position, negative |-> x.negative, positive |-> x.positive]
  BY DEF Scrolls
<1>1. CASE x.position = 0
  <2>1. Decrement(x) = [position |-> Wrap, negative |-> ~x.negative, positive |-> x.positive]
    BY <1>0, <1>1 DEF Decrement
  <2>2. Wrap \in 0 .. Top BY RemoteAssumption
  <2>3. (~x.negative) \in BOOLEAN OBVIOUS
  <2>4. [position |-> Wrap, negative |-> ~x.negative, positive |-> x.positive] \in Scrolls
    BY <1>0, <2>2, <2>3 DEF Scrolls
  <2> QED BY <1>1, <2>1, <2>4
<1>2. CASE x.position # 0
  <2>1. Decrement(x) = [position |-> x.position - 1, negative |-> x.negative,
                        positive |-> x.positive]
    BY <1>0, <1>2 DEF Decrement
  <2>2. x.position - 1 \in 0 .. Top /\ x.position > 0 BY <1>0, <1>2, RemoteAssumption
  <2> QED BY <1>0, <2>1, <2>2 DEF Scrolls
<1> QED BY <1>1, <1>2

(* The loops of Advance end after as many steps as the wheel was turned.   *)
LEMMA AdvanceSteps ==
  ASSUME NEW s \in Scrolls, NEW delta \in Int
  PROVE  \E f \in [Nat -> Scrolls] :
           /\ f[0] = s
           /\ \/ /\ delta >= 0 /\ Advance(s, delta) = f[delta]
                 /\ \A n \in Nat : f[n + 1] = Increment(f[n])
              \/ /\ delta < 0 /\ Advance(s, delta) = f[-delta]
                 /\ \A n \in Nat : f[n + 1] = Decrement(f[n])
<1> HIDE DEF Scrolls
<1>1. ASSUME NEW f, f[0] = s, NEW g \in [Scrolls -> Scrolls],
             \A n \in Nat : f[n] \in Scrolls => f[n + 1] = g[f[n]]
      PROVE  \A n \in Nat : f[n] \in Scrolls
  <2> DEFINE T == {n \in Nat : f[n] \notin Scrolls}
  <2> SUFFICES ASSUME T # {} PROVE FALSE OBVIOUS
  <2>1. PICK n \in T : n = 0 \/ n - 1 \notin T BY FirstElement
  <2>2. n # 0 BY <1>1, <2>1
  <2>3. n - 1 \in Nat /\ f[n - 1] \in Scrolls /\ (n - 1) + 1 = n BY <2>1, <2>2
  <2>4. f[n] = g[f[n - 1]] BY <1>1, <2>3
  <2> QED BY <1>1, <2>1, <2>3, <2>4
<1>2. CASE delta >= 0
  <2> DEFINE up == CHOOSE up : up = [n \in Nat |-> IF n = 0 THEN s ELSE Increment(up[n - 1])]
             inc == [x \in Scrolls |-> Increment(x)]
  <2>1. inc \in [Scrolls -> Scrolls] BY IncrementFields, DecrementFields
  <2>2. \E f : f = [n \in Nat |-> IF n = 0 THEN s ELSE Increment(f[n - 1])]
    <3>1. PICK f \in [Nat -> Scrolls] :
            f[0] = s /\ \A n \in Nat : f[n + 1] = inc[f[n]]
      <4> HIDE DEF inc
      <4> QED BY <2>1, IterationExists
    <3>2. ASSUME NEW n \in Nat PROVE f[n] = IF n = 0 THEN s ELSE Increment(f[n - 1])
      <4>1. CASE n = 0 BY <3>1, <4>1
      <4>2. CASE n # 0
        <5>1. n - 1 \in Nat /\ (n - 1) + 1 = n BY <4>2
        <5>2. f[n] = inc[f[n - 1]] /\ f[n - 1] \in Scrolls BY <3>1, <5>1
        <5> QED BY <4>2, <5>2
      <4> QED BY <4>1, <4>2
    <3> QED BY <3>1, <3>2
  <2>3. up = [n \in Nat |-> IF n = 0 THEN s ELSE Increment(up[n - 1])] BY <2>2
  <2>4. Advance(s, delta) = up[delta] BY <1>2 DEF Advance
  <2> HIDE DEF up
  <2>5. up[0] = s BY <2>3
  <2>6. ASSUME NEW n \in Nat PROVE up[n + 1] = Increment(up[n])
    <3>1. n + 1 \in Nat /\ n + 1 # 0 /\ (n + 1) - 1 = n OBVIOUS
    <3> QED BY <2>3, <3>1
  <2>7. \A n \in Nat : up[n] \in Scrolls BY <1>1, <2>1, <2>5, <2>6
  <2>8. up \in [Nat -> Scrolls] BY <2>3, <2>7
  <2> QED BY <1>2, <2>4, <2>5, <2>6, <2>8
<1>3. CASE delta < 0
  <2> DEFINE down == CHOOSE down : down = [n \in Nat |-> IF n = 0 THEN s ELSE Decrement(down[n - 1])]
             dec == [x \in Scrolls |-> Decrement(x)]
  <2>1. dec \in [Scrolls -> Scrolls] BY IncrementFields, DecrementFields
  <2>2. \E f : f = [n \in Nat |-> IF n = 0 THEN s ELSE Decrement(f[n - 1])]
    <3>1. PICK f \in [Nat -> Scrolls] :
            f[0] = s /\ \A n \in Nat : f[n + 1] = dec[f[n]]
      <4> HIDE DEF dec
      <4> QED BY <2>1, IterationExists
    <3>2. ASSUME NEW n \in Nat PROVE f[n] = IF n = 0 THEN s ELSE Decrement(f[n - 1])
      <4>1. CASE n = 0 BY <3>1, <4>1
      <4>2. CASE n # 0
        <5>1. n - 1 \in Nat /\ (n - 1) + 1 = n BY <4>2
        <5>2. f[n] = dec[f[n - 1]] /\ f[n - 1] \in Scrolls BY <3>1, <5>1
        <5> QED BY <4>2, <5>2
      <4> QED BY <4>1, <4>2
    <3> QED BY <3>1, <3>2
  <2>3. down = [n \in Nat |-> IF n = 0 THEN s ELSE Decrement(down[n - 1])] BY <2>2
  <2>4. Advance(s, delta) = down[-delta] BY <1>3 DEF Advance
  <2> HIDE DEF down
  <2>5. down[0] = s BY <2>3
  <2>6. ASSUME NEW n \in Nat PROVE down[n + 1] = Decrement(down[n])
    <3>1. n + 1 \in Nat /\ n + 1 # 0 /\ (n + 1) - 1 = n OBVIOUS
    <3> QED BY <2>3, <3>1
  <2>7. \A n \in Nat : down[n] \in Scrolls BY <1>1, <2>1, <2>5, <2>6
  <2>8. down \in [Nat -> Scrolls] BY <2>3, <2>7
  <2> QED BY <1>3, <2>4, <2>5, <2>6, <2>8
<1> QED BY <1>2, <1>3

LEMMA AdvanceType ==
  ASSUME NEW s \in Scrolls, NEW delta \in Int
  PROVE  Advance(s, delta) \in Scrolls
<1> HIDE DEF Scrolls
<1>1. PICK f \in [Nat -> Scrolls] :
        \/ delta >= 0 /\ Advance(s, delta) = f[delta]
        \/ delta < 0 /\ Advance(s, delta) = f[-delta]
  BY AdvanceSteps
<1>2. (delta >= 0 => delta \in Nat) /\ (delta < 0 => -delta \in Nat) OBVIOUS
<1> QED BY <1>1, <1>2

(* At most one end was passed between two positions, or the other end was  *)
(* not.                                                                    *)
OneFlag(s, t) == s.negative = t.negative \/ s.positive = t.positive

(* Where the position is after n steps up from s, or down, that pass the   *)
(* end at most once.                                                       *)
Up(s, n, t) ==
  /\ t.negative = s.negative
  /\ \/ t.positive = s.positive /\ t.position = s.position + n
     \/ t.positive # s.positive /\ t.position = Wrap + n - (Top + 1 - s.position)

Down(s, n, t) ==
  /\ t.positive = s.positive
  /\ \/ t.negative = s.negative /\ t.position = s.position - n
     \/ t.negative # s.negative /\ t.position = Wrap - (n - 1 - s.position)

LEMMA StepUp ==
  ASSUME NEW s \in Scrolls, NEW t \in Scrolls, NEW n \in Nat, n <= Top - Wrap,
         Up(s, n, t)
  PROVE  Up(s, n + 1, Increment(t))
<1> DEFINE u == Increment(t)
<1>0. Top \in Nat /\ Wrap \in Nat /\ Wrap <= Top BY RemoteAssumption
<1>1. /\ u.negative = t.negative
      /\ \/ t.position = Top /\ u.position = Wrap /\ u.positive = ~t.positive
         \/ t.position < Top /\ u.position = t.position + 1 /\ u.positive = t.positive
  BY IncrementFields
<1>2. s.position \in 0 .. Top /\ t.position \in 0 .. Top BY DEF Scrolls
<1> HIDE DEF u
<1>3. CASE t.position = Top
  <2>1. t.positive = s.positive /\ t.position = s.position + n
    BY <1>0, <1>2, <1>3 DEF Up
  <2>2. u.position = Wrap /\ u.positive = ~t.positive BY <1>0, <1>1, <1>3
  <2>3. u.positive # s.positive BY <2>1, <2>2, Zenon
  <2>4. u.position = Wrap + (n + 1) - (Top + 1 - s.position)
    BY <1>0, <1>2, <1>3, <2>1, <2>2
  <2>5. u.negative = s.negative BY <1>1 DEF Up
  <2> QED BY <2>3, <2>4, <2>5 DEF u, Up
<1>4. CASE t.position # Top
  <2>1. u.positive = t.positive /\ u.position = t.position + 1 /\ u.negative = t.negative
    BY <1>1, <1>4
  <2> QED BY <1>0, <1>2, <2>1 DEF u, Up
<1> QED BY <1>3, <1>4

LEMMA StepDown ==
  ASSUME NEW s \in Scrolls, NEW t \in Scrolls, NEW n \in Nat, n <= Wrap,
         Down(s, n, t)
  PROVE  Down(s, n + 1, Decrement(t))
<1> DEFINE u == Decrement(t)
<1>0. Top \in Nat /\ Wrap \in Nat /\ Wrap <= Top BY RemoteAssumption
<1>1. /\ u.positive = t.positive
      /\ \/ t.position = 0 /\ u.position = Wrap /\ u.negative = ~t.negative
         \/ t.position > 0 /\ u.position = t.position - 1 /\ u.negative = t.negative
  BY DecrementFields
<1>2. s.position \in 0 .. Top /\ t.position \in 0 .. Top BY DEF Scrolls
<1> HIDE DEF u
<1>3. CASE t.position = 0
  <2>1. t.negative = s.negative /\ t.position = s.position - n
    BY <1>0, <1>2, <1>3 DEF Down
  <2>2. u.position = Wrap /\ u.negative = ~t.negative BY <1>0, <1>1, <1>3
  <2>3. u.negative # s.negative BY <2>1, <2>2, Zenon
  <2>4. u.position = Wrap - ((n + 1) - 1 - s.position)
    BY <1>0, <1>2, <1>3, <2>1, <2>2
  <2>5. u.positive = s.positive BY <1>1 DEF Down
  <2> QED BY <2>3, <2>4, <2>5 DEF u, Down
<1>4. CASE t.position # 0
  <2>1. u.negative = t.negative /\ u.position = t.position - 1 /\ u.positive = t.positive
    BY <1>1, <1>4
  <2> QED BY <1>0, <1>2, <2>1 DEF u, Down
<1> QED BY <1>3, <1>4

(* ScrollDelta counts the steps of a turn that does not pass an end twice, *)
(* wherever it starts.                                                     *)
LEMMA DeltaOfAdvance ==
  ASSUME NEW s \in Scrolls, NEW delta \in Int,
         delta <= Top + 1 - Wrap, -delta <= Wrap + 1
  PROVE  /\ ScrollDelta(s, Advance(s, delta)) = delta
         /\ OneFlag(s, Advance(s, delta))
<1>1. PICK f \in [Nat -> Scrolls] :
        /\ f[0] = s
        /\ \/ /\ delta >= 0 /\ Advance(s, delta) = f[delta]
              /\ \A k \in Nat : f[k + 1] = Increment(f[k])
           \/ /\ delta < 0 /\ Advance(s, delta) = f[-delta]
              /\ \A k \in Nat : f[k + 1] = Decrement(f[k])
  BY AdvanceSteps
<1>2. Top \in Nat /\ Wrap \in Nat /\ Wrap <= Top /\ s.position \in 0 .. Top
  BY RemoteAssumption DEF Scrolls
<1>3. CASE delta >= 0
  <2> DEFINE T == {k \in Nat : k <= delta /\ ~Up(s, k, f[k])}
  <2>1. T = {}
    <3> SUFFICES ASSUME T # {} PROVE FALSE OBVIOUS
    <3>1. PICK k \in T : k = 0 \/ k - 1 \notin T BY FirstElement
    <3>2. k # 0 BY <1>1, <1>2, <3>1 DEF Up
    <3> DEFINE j == k - 1
    <3>3. j \in Nat /\ j + 1 = k /\ j <= delta /\ Up(s, j, f[j]) BY <1>3, <3>1, <3>2
    <3> HIDE DEF j
    <3>4. j <= Top - Wrap BY <1>2, <3>1, <3>3
    <3>5. f[j] \in Scrolls /\ f[k] = Increment(f[j]) BY <1>1, <1>3, <3>3
    <3>6. Up(s, j + 1, Increment(f[j])) BY <3>3, <3>4, <3>5, StepUp
    <3> QED BY <3>1, <3>3, <3>5, <3>6
  <2> DEFINE t == Advance(s, delta)
  <2>2. delta \in Nat /\ t = f[delta] BY <1>1, <1>3
  <2>3. Up(s, delta, t) /\ t \in Scrolls BY <2>1, <2>2
  <2>4. t.position \in 0 .. Top BY <2>3 DEF Scrolls
  <2> HIDE DEF t, T
  <2>5. ScrollDelta(s, t) = delta BY <1>2, <2>2, <2>3, <2>4 DEF Up, ScrollDelta
  <2> QED BY <2>3, <2>5 DEF t, Up, OneFlag
<1>4. CASE delta < 0
  <2> DEFINE T == {k \in Nat : k <= -delta /\ ~Down(s, k, f[k])}
  <2>1. T = {}
    <3> SUFFICES ASSUME T # {} PROVE FALSE OBVIOUS
    <3>1. PICK k \in T : k = 0 \/ k - 1 \notin T BY FirstElement
    <3>2. k # 0 BY <1>1, <1>2, <3>1 DEF Down
    <3> DEFINE j == k - 1
    <3>3. j \in Nat /\ j + 1 = k /\ j <= -delta /\ Down(s, j, f[j]) BY <1>4, <3>1, <3>2
    <3> HIDE DEF j
    <3>4. j <= Wrap BY <1>2, <3>1, <3>3
    <3>5. f[j] \in Scrolls /\ f[k] = Decrement(f[j]) BY <1>1, <1>4, <3>3
    <3>6. Down(s, j + 1, Decrement(f[j])) BY <3>3, <3>4, <3>5, StepDown
    <3> QED BY <3>1, <3>3, <3>5, <3>6
  <2> DEFINE t == Advance(s, delta)
             n == -delta
  <2>2. n \in Nat /\ delta = -n /\ t = f[n] BY <1>1, <1>4
  <2>3. Down(s, n, t) /\ t \in Scrolls BY <2>1, <2>2
  <2>4. t.position \in 0 .. Top BY <2>3 DEF Scrolls
  <2> HIDE DEF t, n, T
  <2>5. ScrollDelta(s, t) = -n BY <1>2, <2>2, <2>3, <2>4 DEF Down, ScrollDelta
  <2> QED BY <2>2, <2>3, <2>5 DEF t, Down, OneFlag
<1> QED BY <1>3, <1>4

(* A position between two others, on either side of the end that was       *)
(* passed, does not change the sum.                                        *)
LEMMA DeltasAdd ==
  ASSUME NEW a \in Scrolls, NEW b \in Scrolls, NEW c \in Scrolls, OneFlag(a, c),
         SameFlags(a, b) \/ SameFlags(b, c)
  PROVE  ScrollDelta(a, b) + ScrollDelta(b, c) = ScrollDelta(a, c)
<1>1. /\ Top \in Nat /\ Wrap \in Nat
      /\ a.position \in 0 .. Top /\ b.position \in 0 .. Top /\ c.position \in 0 .. Top
  BY RemoteAssumption DEF Scrolls
<1>2. CASE SameFlags(a, b) BY <1>1, <1>2 DEF SameFlags, ScrollDelta
<1>3. CASE SameFlags(b, c) BY <1>1, <1>3 DEF SameFlags, ScrollDelta
<1> QED BY <1>2, <1>3

LEMMA DeltaType ==
  ASSUME NEW a \in Scrolls, NEW b \in Scrolls
  PROVE  ScrollDelta(a, b) \in Int
BY RemoteAssumption DEF Scrolls, ScrollDelta

-----------------------------------------------------------------------------
(* What the variables hold.                                                *)

RemoteTypeOK ==
  /\ TypeOK
  /\ moved \in [frames : 0 .. MaxFrames, steps : Int, raced : BOOLEAN, outrun : BOOLEAN]

LEMMA RemoteTypes ==
  /\ AtZero \in Scrolls /\ Untouched \in Remotes
  /\ Untouched.scroll = AtZero
  /\ ~AtZero.negative /\ ~AtZero.positive /\ AtZero.position = 0
  /\ Command(NotScheduled) = "none"
  /\ \A r \in Remotes : /\ r.scroll \in Scrolls /\ r.minus \in BOOLEAN /\ r.plus \in BOOLEAN
                        /\ Command(r) \in Commands
<1>1. 0 \in 0 .. Top BY RemoteAssumption
<1>2. /\ AtZero \in Scrolls /\ ~AtZero.negative /\ ~AtZero.positive /\ AtZero.position = 0
  BY <1>1 DEF AtZero, Scrolls
<1> HIDE DEF AtZero, Scrolls
<1>3. Untouched \in Remotes /\ Untouched.scroll = AtZero
  BY <1>2 DEF Untouched, Remotes
<1>4. ~NotScheduled.minus /\ ~NotScheduled.plus BY DEF NotScheduled, Untouched
<1> QED BY <1>2, <1>3, <1>4 DEF Remotes, Command, Commands

LEMMA RemoteInitially == Init => RemoteTypeOK
<1> SUFFICES ASSUME Init PROVE RemoteTypeOK OBVIOUS
<1>1. PICK p \in StartPositions : stalk = [Untouched EXCEPT !.scroll.position = p]
  BY DEF Init
<1>2. p \in 0 .. Top BY RemoteAssumption
<1>3. stalk = [scroll |-> [position |-> p, negative |-> FALSE, positive |-> FALSE],
               minus |-> FALSE, plus |-> FALSE]
  BY <1>1 DEF Untouched, AtZero
<1>4. stalk \in Remotes BY <1>2, <1>3 DEF Remotes, Scrolls
<1>5. 0 \in 0 .. MaxFrames BY RemoteAssumption
<1> QED
  BY <1>4, <1>5, RemoteTypes DEF Init, RemoteTypeOK, TypeOK, Commands

LEMMA ParseTypes ==
  ASSUME RemoteTypeOK, NEW input \in Remotes
  PROVE  /\ Physical(input) \in Scrolls /\ Forwarded(input) \in Scrolls
         /\ Delta(input) \in Int /\ NextForwarded(input) \in Scrolls
         /\ Suppressed(input) \in BOOLEAN /\ Pushed(input) \in BOOLEAN
<1>1. input.scroll \in Scrolls BY RemoteTypes
<1>2. Physical(input) \in Scrolls /\ Forwarded(input) \in Scrolls
  BY <1>1 DEF RemoteTypeOK, TypeOK, Physical, Forwarded
<1>3. Delta(input) \in Int BY <1>1, <1>2, DeltaType DEF Delta
<1>4. Advance(Forwarded(input), Delta(input)) \in Scrolls BY <1>2, <1>3, AdvanceType
<1>5. NextForwarded(input) \in Scrolls BY <1>2, <1>4 DEF NextForwarded
<1> QED BY <1>2, <1>3, <1>5 DEF Suppressed, Pushed

LEMMA ParseKeepsType ==
  ASSUME RemoteTypeOK, NEW turn \in -MaxTurn .. MaxTurn, NEW button \in Commands,
         Parse9C4(turn, button)
  PROVE  /\ RemoteTypeOK'
         /\ Use(turn, button) \in Remotes
<1> DEFINE input == Use(turn, button)
<1>0. turn \in Int BY RemoteAssumption
<1>1. input \in Remotes
  <2>1. Advance(stalk.scroll, turn) \in Scrolls
    BY <1>0, AdvanceType, RemoteTypes DEF RemoteTypeOK, TypeOK
  <2> QED BY <2>1 DEF Use, Remotes
<1>2. /\ stalk' = input
      /\ control' = [initialized |-> TRUE, minus |-> input.minus, plus |-> input.plus,
                     physical |-> input.scroll, forwarded |-> NextForwarded(input),
                     buttonWindow |-> Pushed(input) \/ control.buttonWindow,
                     scrollWindow |-> Suppressed(input)
                                        \/ (control.scrollWindow /\ ~Pushed(input))]
      /\ remote' = [scroll |-> NextForwarded(input),
                    minus |-> IF Suppressed(input) THEN Delta(input) < 0 ELSE input.minus,
                    plus |-> IF Suppressed(input) THEN Delta(input) > 0 ELSE input.plus]
      /\ reader.pc = "idle"
      /\ reader' = [pc |-> "add", pulse |-> Suppressed(input), message |-> remote']
      /\ moved' =
           [frames |-> moved.frames + 1,
            steps |-> IF control.initialized
                        THEN moved.steps + turn - (IF Suppressed(input) THEN Delta(input) ELSE 0)
                        ELSE ScrollDelta(remote.scroll, input.scroll),
            raced |-> moved.raced \/ RacesOutput,
            outrun |-> moved.outrun \/ OutrunsFlags(turn)]
      /\ radio' = [radio EXCEPT !.awaited = IF Suppressed(input) THEN Command(remote') ELSE "none"]
      /\ moved.frames < MaxFrames
      /\ UNCHANGED <<scheduled, lock, out>>
  BY DEF Parse9C4, Process
<1> HIDE DEF input
<1>3. /\ Delta(input) \in Int /\ NextForwarded(input) \in Scrolls
      /\ Suppressed(input) \in BOOLEAN /\ Pushed(input) \in BOOLEAN
  BY <1>1, ParseTypes
<1>4. input.scroll \in Scrolls /\ input.minus \in BOOLEAN /\ input.plus \in BOOLEAN
  BY <1>1, RemoteTypes
<1>5. remote' \in Remotes
  <2>1. /\ (IF Suppressed(input) THEN Delta(input) < 0 ELSE input.minus) \in BOOLEAN
        /\ (IF Suppressed(input) THEN Delta(input) > 0 ELSE input.plus) \in BOOLEAN
    <3>1. (Delta(input) < 0) \in BOOLEAN /\ (Delta(input) > 0) \in BOOLEAN OBVIOUS
    <3> QED BY <1>4, <3>1, Zenon
  <2> QED BY <1>2, <1>3, <2>1 DEF Remotes
<1>6. control' \in [initialized : BOOLEAN, minus : BOOLEAN, plus : BOOLEAN,
                    physical : Scrolls, forwarded : Scrolls,
                    buttonWindow : BOOLEAN, scrollWindow : BOOLEAN]
  <2>1. /\ (Pushed(input) \/ control.buttonWindow) \in BOOLEAN
        /\ (Suppressed(input) \/ (control.scrollWindow /\ ~Pushed(input))) \in BOOLEAN
    OBVIOUS
  <2> QED BY <1>2, <1>3, <1>4, <2>1
<1>7. moved' \in [frames : 0 .. MaxFrames, steps : Int, raced : BOOLEAN, outrun : BOOLEAN]
  <2>1. moved.frames + 1 \in 0 .. MaxFrames
    BY <1>2, RemoteAssumption DEF RemoteTypeOK
  <2>2. (IF control.initialized
           THEN moved.steps + turn - (IF Suppressed(input) THEN Delta(input) ELSE 0)
           ELSE ScrollDelta(remote.scroll, input.scroll)) \in Int
    <3>1. remote.scroll \in Scrolls BY RemoteTypes DEF RemoteTypeOK, TypeOK
    <3>2. ScrollDelta(remote.scroll, input.scroll) \in Int BY <1>4, <3>1, DeltaType
    <3>3. moved.steps \in Int BY DEF RemoteTypeOK
    <3> QED BY <1>0, <1>3, <3>2, <3>3
  <2>3. /\ (moved.raced \/ RacesOutput) \in BOOLEAN
        /\ (moved.outrun \/ OutrunsFlags(turn)) \in BOOLEAN
    OBVIOUS
  <2> QED BY <1>2, <2>1, <2>2, <2>3
<1>8. radio' \in [scroll : Scrolls, steps : Int, command : Commands, awaited : Commands]
  <2>1. (IF Suppressed(input) THEN Command(remote') ELSE "none") \in Commands
    BY <1>5, RemoteTypes DEF Commands
  <2> QED BY <1>2, <2>1 DEF RemoteTypeOK, TypeOK
<1>9. /\ reader' \in [pc : {"idle", "add", "send", "sending"}, pulse : BOOLEAN,
                      message : Remotes]
      /\ reader'.pc = "add"
  BY <1>2, <1>3, <1>5
<1> QED
  BY <1>1, <1>2, <1>5, <1>6, <1>7, <1>8, <1>9 DEF RemoteTypeOK, TypeOK, input

LEMMA ReceiveFacts ==
  ASSUME RemoteTypeOK, scheduled \in Remotes, Receive21F(scheduled)
  PROVE  /\ radio' \in [scroll : Scrolls, steps : Int, command : Commands, awaited : Commands]
         /\ radio'.scroll = scheduled.scroll
         /\ radio'.steps = radio.steps + ScrollDelta(radio.scroll, scheduled.scroll)
         /\ radio'.awaited = IF Command(scheduled) = radio.awaited THEN "none"
                                                                  ELSE radio.awaited
<1>1. radio \in [scroll : Scrolls, steps : Int, command : Commands, awaited : Commands]
  BY DEF RemoteTypeOK, TypeOK
<1>2. scheduled.scroll \in Scrolls /\ Command(scheduled) \in Commands BY RemoteTypes
<1>3. ScrollDelta(radio.scroll, scheduled.scroll) \in Int BY <1>1, <1>2, DeltaType
<1>4. "none" \in Commands BY DEF Commands
<1>5. radio' = [scroll |-> scheduled.scroll,
                steps |-> radio.steps + ScrollDelta(radio.scroll, scheduled.scroll),
                command |-> Command(scheduled),
                awaited |-> IF Command(scheduled) = radio.awaited THEN "none"
                                                                 ELSE radio.awaited]
  BY <1>1 DEF Receive21F
<1>6. (IF Command(scheduled) = radio.awaited THEN "none" ELSE radio.awaited) \in Commands
  BY <1>1, <1>4
<1>7. radio.steps + ScrollDelta(radio.scroll, scheduled.scroll) \in Int BY <1>1, <1>3
<1> QED BY <1>2, <1>5, <1>6, <1>7

LEMMA AfterSendFacts ==
  ASSUME RemoteTypeOK, AfterSend
  PROVE  /\ reader' \in [pc : {"idle", "add", "send", "sending"}, pulse : BOOLEAN,
                         message : Remotes]
         /\ remote' \in Remotes /\ remote'.scroll = remote.scroll
         /\ \/ reader'.pc = "idle"
            \/ reader'.pc = "add" /\ reader'.message = remote'
<1>1. Released \in Remotes /\ Released.scroll = remote.scroll
  BY DEF RemoteTypeOK, TypeOK, Remotes, Released
<1>2. /\ remote \in Remotes
      /\ reader \in [pc : {"idle", "add", "send", "sending"}, pulse : BOOLEAN,
                     message : Remotes]
  BY DEF RemoteTypeOK, TypeOK
<1>3. CASE reader.pulse
  <2>1. /\ remote' = Released
        /\ reader' = [pc |-> "add", pulse |-> FALSE, message |-> Released]
    BY <1>3 DEF AfterSend
  <2> QED BY <1>1, <2>1
<1>4. CASE ~reader.pulse
  <2>1. /\ remote' = remote
        /\ reader' = [reader EXCEPT !.pc = "idle", !.message = Untouched]
    BY <1>4 DEF AfterSend
  <2> QED BY <1>2, <2>1, RemoteTypes
<1> QED BY <1>3, <1>4

LEMMA ReaderKeepsType ==
  ASSUME RemoteTypeOK,
         ImmediateAdd \/ ImmediateLock \/ ImmediateRefused \/ ImmediateSend
  PROVE  RemoteTypeOK'
<1> USE DEF RemoteTypeOK
<1>0. "none" \in Commands BY DEF Commands
<1>1. CASE ImmediateAdd BY <1>0, <1>1 DEF ImmediateAdd, TypeOK
<1>2. CASE ImmediateLock BY <1>2 DEF ImmediateLock, TypeOK
<1>3. CASE ImmediateRefused
  BY <1>0, <1>3, AfterSendFacts DEF ImmediateRefused, TypeOK
<1>4. CASE ImmediateSend
  <2>1. radio' \in [scroll : Scrolls, steps : Int, command : Commands, awaited : Commands]
    BY <1>4, ReceiveFacts DEF ImmediateSend, TypeOK
  <2>2. UNCHANGED <<stalk, control, scheduled, out, moved>> /\ lock' = "free"
        /\ reader.pc = "sending" /\ AfterSend
    BY <1>4 DEF ImmediateSend
  <2> QED BY <2>1, <2>2, AfterSendFacts DEF TypeOK
<1> QED BY <1>1, <1>2, <1>3, <1>4

LEMMA OutputKeepsType ==
  ASSUME RemoteTypeOK, Output
  PROVE  RemoteTypeOK'
<1> USE DEF RemoteTypeOK
<1>0. ASSUME NEW place, Goto(place),
             place \in {"idle", "generate", "position", "add", "update", "sending"}
      PROVE  /\ out' \in [pc : {"idle", "generate", "position", "add", "update", "sending"},
                          due : BOOLEAN, message : Remotes]
             /\ out'.pc = place
  BY <1>0 DEF Goto, TypeOK
<1>1. ASSUME NEW due \in BOOLEAN, StartRound(due) PROVE RemoteTypeOK'
  <2>1. /\ out' \in [pc : {"idle", "generate", "position", "add", "update", "sending"},
                     due : BOOLEAN, message : Remotes]
        /\ out'.pc \in {"generate", "update"} /\ out.pc = "idle"
    BY <1>1 DEF StartRound, TypeOK
  <2>2. UNCHANGED <<stalk, control, remote, scheduled, lock, reader, radio, moved>>
    BY <1>1 DEF StartRound
  <2> QED BY <2>1, <2>2 DEF TypeOK
<1>2. CASE GenerateCommand
  <2>1. /\ out' \in [pc : {"idle", "generate", "position", "add", "update", "sending"},
                     due : BOOLEAN, message : Remotes]
        /\ out'.pc = "position" /\ out.pc = "generate"
    BY <1>2 DEF GenerateCommand, TypeOK
  <2>2. UNCHANGED <<stalk, control, remote, scheduled, lock, reader, radio, moved>>
    BY <1>2 DEF GenerateCommand
  <2> QED BY <2>1, <2>2 DEF TypeOK
<1>3. CASE GeneratePosition
  <2>1. /\ out' = [out EXCEPT !.pc = "add", !.message.scroll.position = remote.scroll.position]
        /\ UNCHANGED <<stalk, control, remote, scheduled, lock, reader, radio, moved>>
        /\ out.pc = "position"
    BY <1>3 DEF GeneratePosition
  <2>2. /\ out' \in [pc : {"idle", "generate", "position", "add", "update", "sending"},
                     due : BOOLEAN, message : Remotes]
        /\ out'.pc = "add"
    BY <2>1 DEF TypeOK, Remotes, Scrolls
  <2> QED BY <2>1, <2>2 DEF TypeOK
<1>4. CASE PeriodicAdd
  <2>1. /\ out' \in [pc : {"idle", "generate", "position", "add", "update", "sending"},
                     due : BOOLEAN, message : Remotes]
        /\ out'.pc = "update" /\ out.pc = "add"
    BY <1>4, RemoteTypes DEF PeriodicAdd, TypeOK
  <2>2. /\ scheduled' = scheduled \/ scheduled' = out.message
        /\ UNCHANGED <<stalk, control, remote, lock, reader, radio, moved>>
    BY <1>4 DEF PeriodicAdd
  <2>3. out.message \in Remotes BY DEF TypeOK
  <2> QED BY <2>1, <2>2, <2>3 DEF TypeOK
<1>5. CASE UpdateLock
  <2>1. CASE lock = "free" /\ lock' = "output" /\ Goto("sending")
    BY <1>0, <1>5, <2>1 DEF UpdateLock, TypeOK
  <2>2. CASE lock = "reader" /\ Goto("idle") /\ UNCHANGED lock
    BY <1>0, <1>5, <2>2 DEF UpdateLock, TypeOK
  <2> QED BY <1>5, <2>1, <2>2 DEF UpdateLock
<1>6. CASE Update
  <2>1. radio' \in [scroll : Scrolls, steps : Int, command : Commands, awaited : Commands]
    BY <1>6, ReceiveFacts DEF Update, TypeOK
  <2>2. lock = "output" /\ lock' = "free" BY <1>6 DEF Update, TypeOK
  <2>3. UNCHANGED <<stalk, control, remote, scheduled, reader, moved>>
    BY <1>6 DEF Update
  <2>4. /\ out' \in [pc : {"idle", "generate", "position", "add", "update", "sending"},
                     due : BOOLEAN, message : Remotes]
        /\ out'.pc = "idle"
    BY <1>0, <1>6 DEF Update
  <2> QED BY <2>1, <2>2, <2>3, <2>4 DEF TypeOK
<1> QED BY <1>1, <1>2, <1>3, <1>4, <1>5, <1>6 DEF Output

LEMMA RemoteTypeStep ==
  ASSUME RemoteTypeOK, [Next]_vars
  PROVE  RemoteTypeOK'
<1>1. CASE Reader BY <1>1, ParseKeepsType, ReaderKeepsType DEF Reader
<1>2. CASE Output BY <1>2, OutputKeepsType
<1>3. CASE ButtonWindowEnds \/ ScrollWindowEnds
  <2>1. control' \in [initialized : BOOLEAN, minus : BOOLEAN, plus : BOOLEAN,
                     physical : Scrolls, forwarded : Scrolls,
                     buttonWindow : BOOLEAN, scrollWindow : BOOLEAN]
    <3>1. \/ control' = [control EXCEPT !.buttonWindow = FALSE]
          \/ control' = [control EXCEPT !.scrollWindow = FALSE]
      BY <1>3 DEF ButtonWindowEnds, ScrollWindowEnds
    <3>2. control \in [initialized : BOOLEAN, minus : BOOLEAN, plus : BOOLEAN,
                      physical : Scrolls, forwarded : Scrolls,
                      buttonWindow : BOOLEAN, scrollWindow : BOOLEAN]
      BY DEF RemoteTypeOK, TypeOK
    <3> QED BY <3>1, <3>2
  <2>2. UNCHANGED <<stalk, remote, scheduled, lock, reader, out, radio, moved>>
    BY <1>3 DEF ButtonWindowEnds, ScrollWindowEnds
  <2> QED BY <2>1, <2>2 DEF RemoteTypeOK, TypeOK
<1>4. CASE UNCHANGED vars BY <1>4 DEF vars, RemoteTypeOK, TypeOK
<1> QED BY <1>1, <1>2, <1>3, <1>4 DEF Next

-----------------------------------------------------------------------------
(* The volume commands.                                                    *)

(* A command that the radio has not seen is on its way: in the message of  *)
(* the reader, and then in the scheduler, where the output task does not   *)
(* replace it, as it neither runs nor is given the mutex before 21F is     *)
(* sent.                                                                   *)
PulseUnderway ==
  radio.awaited # "none" =>
    /\ reader.pc # "idle"
    /\ reader.pc = "add" => Command(reader.message) = radio.awaited
    /\ reader.pc \in {"send", "sending"} => Command(scheduled) = radio.awaited
    /\ reader.pc = "send" => lock = "free"

LEMMA ReaderKeepsPulse ==
  ASSUME RemoteTypeOK, PulseUnderway, Reader
  PROVE  PulseUnderway'
<1>0. /\ radio \in [scroll : Scrolls, steps : Int, command : Commands, awaited : Commands]
      /\ lock = "reader" <=> reader.pc = "sending"
  BY DEF RemoteTypeOK, TypeOK
<1>1. ASSUME NEW turn \in -MaxTurn .. MaxTurn, NEW button \in Commands,
             Parse9C4(turn, button)
      PROVE  PulseUnderway'
  <2> DEFINE input == Use(turn, button)
  <2>1. /\ reader' = [pc |-> "add", pulse |-> Suppressed(input), message |-> remote']
        /\ radio' = [radio EXCEPT !.awaited = IF Suppressed(input) THEN Command(remote')
                                                                  ELSE "none"]
    BY <1>1 DEF Parse9C4
  <2> HIDE DEF input
  <2>2. radio'.awaited = (IF Suppressed(input) THEN Command(remote') ELSE "none")
    BY <1>0, <2>1
  <2>3. Command(reader'.message) = Command(remote') /\ reader'.pc = "add" BY <2>1
  <2>4. Command(reader.message)' = Command(reader'.message) BY DEF Command
  <2> QED BY <2>2, <2>3, <2>4 DEF PulseUnderway
<1>2. CASE ImmediateAdd
  <2>1. reader.pc = "add" /\ reader'.pc = "send" /\ lock' = lock
    BY <1>2 DEF ImmediateAdd, RemoteTypeOK, TypeOK
  <2>2. CASE lock = "free" /\ scheduled' = reader.message /\ UNCHANGED radio
    <3>1. Command(scheduled)' = Command(reader.message) BY <2>2 DEF Command
    <3> QED BY <2>1, <2>2, <3>1 DEF PulseUnderway
  <2>3. CASE radio' = [radio EXCEPT !.awaited = "none"]
    BY <1>0, <2>3 DEF PulseUnderway
  <2> QED BY <1>2, <2>2, <2>3 DEF ImmediateAdd
<1>3. CASE ImmediateLock
  <2>1. /\ reader.pc = "send" /\ reader'.pc = "sending" /\ UNCHANGED <<radio, scheduled>>
    BY <1>3 DEF ImmediateLock, RemoteTypeOK, TypeOK
  <2>2. Command(scheduled)' = Command(scheduled) BY <2>1 DEF Command
  <2> QED BY <2>1, <2>2 DEF PulseUnderway
<1>4. CASE ImmediateRefused
  BY <1>0, <1>4 DEF ImmediateRefused, PulseUnderway
<1>5. CASE ImmediateSend
  <2>1. reader.pc = "sending" BY <1>5 DEF ImmediateSend
  <2>2. CASE scheduled # NotScheduled
    <3>1. Receive21F(scheduled) /\ scheduled \in Remotes
      BY <1>5, <2>2 DEF ImmediateSend, RemoteTypeOK, TypeOK
    <3>2. radio'.awaited = "none" BY <2>1, <3>1, ReceiveFacts DEF PulseUnderway
    <3> QED BY <3>2 DEF PulseUnderway
  <2>3. CASE scheduled = NotScheduled
    <3>1. UNCHANGED radio BY <1>5, <2>3 DEF ImmediateSend
    <3> QED BY <2>1, <2>3, <3>1, RemoteTypes DEF PulseUnderway
  <2> QED BY <2>2, <2>3
<1> QED BY <1>1, <1>2, <1>3, <1>4, <1>5 DEF Reader

LEMMA OutputKeepsPulse ==
  ASSUME RemoteTypeOK, PulseUnderway, Output
  PROVE  PulseUnderway'
<1>0. /\ lock = "reader" <=> reader.pc = "sending"
      /\ lock = "output" <=> out.pc = "sending"
      /\ reader.pc \in {"idle", "add", "send", "sending"}
  BY DEF RemoteTypeOK, TypeOK
<1>1. CASE UNCHANGED <<reader, radio, scheduled, lock>>
  BY <1>1 DEF PulseUnderway, Command
<1>2. ASSUME NEW due \in BOOLEAN, StartRound(due) PROVE PulseUnderway'
  BY <1>1, <1>2 DEF StartRound
<1>3. CASE GenerateCommand \/ GeneratePosition
  BY <1>1, <1>3 DEF GenerateCommand, GeneratePosition
<1>4. CASE PeriodicAdd
  <2>1. UNCHANGED <<reader, radio, lock>> /\ OutputRuns BY <1>4 DEF PeriodicAdd
  <2>2. CASE lock = "free"
    <3>1. reader.pc = "idle" BY <1>0, <2>1, <2>2 DEF OutputRuns
    <3> QED BY <2>1, <3>1 DEF PulseUnderway
  <2>3. CASE lock # "free"
    <3>1. UNCHANGED scheduled BY <1>4, <2>3 DEF PeriodicAdd
    <3> QED BY <1>1, <2>1, <3>1
  <2> QED BY <2>2, <2>3
<1>5. CASE UpdateLock
  <2>1. UNCHANGED <<reader, radio, scheduled>> /\ OutputRuns BY <1>5 DEF UpdateLock
  <2>2. CASE lock = "free"
    <3>1. reader.pc = "idle" BY <1>0, <2>1, <2>2 DEF OutputRuns
    <3> QED BY <2>1, <3>1 DEF PulseUnderway
  <2>3. CASE lock # "free"
    <3>1. UNCHANGED lock BY <1>5, <2>3 DEF UpdateLock
    <3> QED BY <1>1, <2>1, <3>1
  <2> QED BY <2>2, <2>3
<1>6. CASE Update
  <2>1. UNCHANGED <<reader, scheduled>> /\ lock = "output" /\ lock' = "free"
    BY <1>0, <1>6 DEF Update
  <2>2. radio'.awaited \in {"none", radio.awaited}
    <3>1. CASE out.due /\ scheduled # NotScheduled
      <4>1. Receive21F(scheduled) /\ scheduled \in Remotes
        BY <1>6, <3>1 DEF Update, RemoteTypeOK, TypeOK
      <4> QED BY <4>1, ReceiveFacts
    <3>2. CASE ~(out.due /\ scheduled # NotScheduled)
      BY <1>6, <3>2 DEF Update
    <3> QED BY <3>1, <3>2
  <2>3. /\ Command(reader.message)' = Command(reader.message)
        /\ Command(scheduled)' = Command(scheduled)
    BY <2>1 DEF Command
  <2> QED BY <2>1, <2>2, <2>3 DEF PulseUnderway
<1> QED BY <1>2, <1>3, <1>4, <1>5, <1>6 DEF Output

LEMMA PulseStep ==
  ASSUME RemoteTypeOK, PulseUnderway, [Next]_vars
  PROVE  PulseUnderway'
<1>1. CASE ButtonWindowEnds \/ ScrollWindowEnds \/ UNCHANGED vars
  BY <1>1 DEF ButtonWindowEnds, ScrollWindowEnds, vars, PulseUnderway, Command
<1> QED BY <1>1, ReaderKeepsPulse, OutputKeepsPulse DEF Next

LEMMA RemoteAlways == Spec => [](RemoteTypeOK /\ PulseUnderway)
<1>1. Init => RemoteTypeOK /\ PulseUnderway
  BY RemoteInitially DEF Init, PulseUnderway
<1>2. RemoteTypeOK /\ PulseUnderway /\ [Next]_vars => (RemoteTypeOK /\ PulseUnderway)'
  BY RemoteTypeStep, PulseStep
<1> QED BY <1>1, <1>2, PTL DEF Spec

(* Whatever the wheel was turned, and however often: a turn that became a  *)
(* volume command has been seen as one when the reader is done with it.    *)
THEOREM PulseAlwaysArrives == Spec => [](TypeOK /\ PulseArrives)
<1>1. RemoteTypeOK /\ PulseUnderway => TypeOK /\ PulseArrives
  BY DEF RemoteTypeOK, PulseUnderway, PulseArrives
<1> QED BY <1>1, RemoteAlways, PTL

-----------------------------------------------------------------------------
(* The turns.                                                              *)

(* Where the wheel and the forwarded position are.                         *)
BridgeFollows ==
  /\ control.initialized =>
       control.physical = stalk.scroll /\ control.forwarded = remote.scroll
  /\ ~control.initialized =>
       remote = Untouched /\ moved.steps = 0 /\ SameFlags(AtZero, stalk.scroll)
  /\ reader.pc = "add" => reader.message = remote

(* What is underway to the radio is on one side or the other of the end    *)
(* that was passed since the frame it has, if any: a frame that was        *)
(* generated before and sent after another has the flags of that one.      *)
FramesFollow ==
  ~moved.raced /\ ~moved.outrun =>
    /\ radio.steps + ScrollDelta(radio.scroll, remote.scroll) = moved.steps
    /\ OneFlag(radio.scroll, remote.scroll)
    /\ scheduled # NotScheduled => \/ SameFlags(radio.scroll, scheduled.scroll)
                                   \/ SameFlags(scheduled.scroll, remote.scroll)
    /\ out.pc \in {"position", "add"} => SameFlags(out.message.scroll, remote.scroll)

WheelIInv == RemoteTypeOK /\ BridgeFollows /\ FramesFollow

LEMMA FlagFacts ==
  /\ \A a : SameFlags(a, a) /\ OneFlag(a, a)
  /\ \A a, b : SameFlags(a, b) => SameFlags(b, a) /\ OneFlag(a, b)
  /\ \A a, b, c : SameFlags(a, b) /\ SameFlags(b, c) => SameFlags(a, c)
  /\ \A a, b, c : SameFlags(a, b) /\ OneFlag(b, c) => OneFlag(a, c)
  /\ \A a, b, c : OneFlag(a, b) /\ SameFlags(b, c) => OneFlag(a, c)
BY DEF SameFlags, OneFlag

LEMMA DeltaOfSelf ==
  ASSUME NEW s \in Scrolls
  PROVE  ScrollDelta(s, s) = 0
BY RemoteAssumption DEF Scrolls, ScrollDelta

LEMMA WheelInitially == Init => WheelIInv
<1> SUFFICES ASSUME Init PROVE WheelIInv OBVIOUS
<1>1. RemoteTypeOK BY RemoteInitially
<1>2. PICK p \in StartPositions : stalk = [Untouched EXCEPT !.scroll.position = p]
  BY DEF Init
<1>3. stalk = [scroll |-> [position |-> p, negative |-> FALSE, positive |-> FALSE],
               minus |-> FALSE, plus |-> FALSE]
  BY <1>2 DEF Untouched, AtZero
<1>4. SameFlags(AtZero, stalk.scroll) BY <1>3 DEF SameFlags, AtZero
<1>5. BridgeFollows BY <1>4 DEF Init, BridgeFollows
<1>6. ScrollDelta(AtZero, AtZero) = 0 BY DeltaOfSelf, RemoteTypes
<1>7. FramesFollow BY <1>6, RemoteTypes, FlagFacts DEF Init, FramesFollow
<1> QED BY <1>1, <1>5, <1>7 DEF WheelIInv

(* A frame: what the wheel was turned is forwarded or taken out.           *)
LEMMA ParseFollows ==
  ASSUME WheelIInv, NEW turn \in -MaxTurn .. MaxTurn, NEW button \in Commands,
         Parse9C4(turn, button)
  PROVE  /\ BridgeFollows'
         /\ ~moved'.outrun =>
              /\ OneFlag(remote.scroll, remote'.scroll)
              /\ moved'.steps = moved.steps + ScrollDelta(remote.scroll, remote'.scroll)
<1> DEFINE input == Use(turn, button)
<1>0. RemoteTypeOK /\ BridgeFollows BY DEF WheelIInv
<1>1. /\ stalk' = input
      /\ control'.initialized /\ control'.physical = input.scroll
      /\ control'.forwarded = NextForwarded(input)
      /\ remote'.scroll = NextForwarded(input)
      /\ reader'.message = remote'
      /\ moved'.steps =
           IF control.initialized
             THEN moved.steps + turn - (IF Suppressed(input) THEN Delta(input) ELSE 0)
             ELSE ScrollDelta(remote.scroll, input.scroll)
      /\ moved'.outrun = (moved.outrun \/ OutrunsFlags(turn))
  BY DEF Parse9C4, Process
<1>2. turn \in Int /\ Top \in Nat /\ Wrap \in Nat BY RemoteAssumption
<1>3. /\ stalk.scroll \in Scrolls /\ remote.scroll \in Scrolls /\ input \in Remotes
      /\ input.scroll \in Scrolls /\ moved.steps \in Int
  BY <1>0, ParseKeepsType, RemoteTypes DEF RemoteTypeOK, TypeOK
<1>4. input.scroll = Advance(stalk.scroll, turn) BY DEF Use
<1> HIDE DEF input
<1>5. BridgeFollows' BY <1>1 DEF BridgeFollows
<1>6. SUFFICES ASSUME ~moved'.outrun
               PROVE  /\ OneFlag(remote.scroll, remote'.scroll)
                      /\ moved'.steps
                           = moved.steps + ScrollDelta(remote.scroll, remote'.scroll)
  BY <1>5
<1>7. turn <= Top + 1 - Wrap /\ -turn <= Wrap + 1
  <2>1. ~(turn > Top + 1 - Wrap) /\ ~(-turn > Wrap + 1)
    BY <1>1, <1>6 DEF OutrunsFlags
  <2> QED BY <1>2, <2>1
<1>8. /\ ScrollDelta(stalk.scroll, input.scroll) = turn
      /\ OneFlag(stalk.scroll, input.scroll)
  BY <1>2, <1>3, <1>4, <1>7, DeltaOfAdvance
<1>9. CASE control.initialized
  <2>1. Physical(input) = stalk.scroll /\ Forwarded(input) = remote.scroll
    BY <1>0, <1>9 DEF Physical, Forwarded, BridgeFollows
  <2>2. Delta(input) = turn BY <1>8, <2>1 DEF Delta
  <2>3. CASE Suppressed(input)
    <3>1. remote'.scroll = remote.scroll BY <1>1, <2>1, <2>3 DEF NextForwarded
    <3>2. moved'.steps = moved.steps BY <1>1, <1>2, <1>3, <1>9, <2>2, <2>3
    <3> QED BY <1>3, <3>1, <3>2, DeltaOfSelf, FlagFacts
  <2>4. CASE ~Suppressed(input)
    <3>1. remote'.scroll = Advance(remote.scroll, turn)
      BY <1>1, <2>1, <2>2, <2>4 DEF NextForwarded
    <3>2. moved'.steps = moved.steps + turn BY <1>1, <1>2, <1>3, <1>9, <2>4
    <3> QED BY <1>2, <1>3, <1>7, <3>1, <3>2, DeltaOfAdvance
  <2> QED BY <2>3, <2>4
<1>10. CASE ~control.initialized
  <2>1. Physical(input) = input.scroll /\ Forwarded(input) = input.scroll
    BY <1>10 DEF Physical, Forwarded
  <2>2. Delta(input) = 0 BY <1>3, <2>1, DeltaOfSelf DEF Delta
  <2>3. NextForwarded(input) = input.scroll
    <3>1. Advance(input.scroll, 0) = input.scroll
      <4>1. PICK f \in [Nat -> Scrolls] :
              f[0] = input.scroll /\ Advance(input.scroll, 0) = f[0]
        <5>1. 0 \in Int /\ 0 >= 0 /\ ~(0 < 0) OBVIOUS
        <5> QED BY <1>3, <5>1, AdvanceSteps, Zenon
      <4> QED BY <4>1
    <3> QED BY <2>1, <2>2, <3>1 DEF NextForwarded, Suppressed
  <2>4. /\ remote.scroll = AtZero /\ moved.steps = 0
        /\ SameFlags(AtZero, stalk.scroll)
    BY <1>0, <1>10, RemoteTypes DEF BridgeFollows
  <2>5. OneFlag(AtZero, input.scroll) BY <1>8, <2>4, FlagFacts
  <2>6. moved'.steps = ScrollDelta(remote.scroll, input.scroll) BY <1>1, <1>10
  <2>7. ScrollDelta(remote.scroll, input.scroll) \in Int BY <1>3, DeltaType
  <2> QED BY <1>1, <2>3, <2>4, <2>5, <2>6, <2>7
<1> QED BY <1>9, <1>10

LEMMA ParseFramesFollow ==
  ASSUME WheelIInv, NEW turn \in -MaxTurn .. MaxTurn, NEW button \in Commands,
         Parse9C4(turn, button)
  PROVE  FramesFollow'
<1> SUFFICES ASSUME ~moved'.raced, ~moved'.outrun PROVE FramesFollow'
  BY DEF FramesFollow
<1>0. RemoteTypeOK /\ RemoteTypeOK' /\ FramesFollow
  BY ParseKeepsType DEF WheelIInv
<1>1. /\ radio' = [radio EXCEPT !.awaited =
                     IF Suppressed(Use(turn, button)) THEN Command(remote') ELSE "none"]
      /\ moved'.raced = (moved.raced \/ RacesOutput)
      /\ moved'.outrun = (moved.outrun \/ OutrunsFlags(turn))
      /\ UNCHANGED <<scheduled, out>>
  BY DEF Parse9C4
<1>2. ~moved.raced /\ ~moved.outrun /\ ~RacesOutput /\ ~OutrunsFlags(turn) BY <1>1
<1>3. radio'.scroll = radio.scroll /\ radio'.steps = radio.steps
  BY <1>0, <1>1 DEF RemoteTypeOK, TypeOK
<1>4. /\ OneFlag(remote.scroll, remote'.scroll)
      /\ moved'.steps = moved.steps + ScrollDelta(remote.scroll, remote'.scroll)
  BY ParseFollows
<1>5. /\ radio.steps + ScrollDelta(radio.scroll, remote.scroll) = moved.steps
      /\ OneFlag(radio.scroll, remote.scroll)
      /\ scheduled # NotScheduled => \/ SameFlags(radio.scroll, scheduled.scroll)
                                     \/ SameFlags(scheduled.scroll, remote.scroll)
      /\ out.pc \in {"position", "add"} => SameFlags(out.message.scroll, remote.scroll)
  BY <1>0, <1>2 DEF FramesFollow
<1>6. SameFlags(radio.scroll, remote.scroll) \/ SameFlags(remote.scroll, remote'.scroll)
  BY <1>2 DEF OutrunsFlags, PassedAnEnd
<1>7. /\ radio.scroll \in Scrolls /\ remote.scroll \in Scrolls /\ remote'.scroll \in Scrolls
      /\ radio.steps \in Int
  BY <1>0, RemoteTypes DEF RemoteTypeOK, TypeOK
<1>8. OneFlag(radio.scroll, remote'.scroll) BY <1>4, <1>5, <1>6, FlagFacts
<1>9. radio.steps + ScrollDelta(radio.scroll, remote'.scroll) = moved'.steps
  <2>1. ScrollDelta(radio.scroll, remote.scroll) + ScrollDelta(remote.scroll, remote'.scroll)
          = ScrollDelta(radio.scroll, remote'.scroll)
    BY <1>6, <1>7, <1>8, DeltasAdd
  <2>2. /\ ScrollDelta(radio.scroll, remote.scroll) \in Int
        /\ ScrollDelta(remote.scroll, remote'.scroll) \in Int
    BY <1>7, DeltaType
  <2> QED BY <1>4, <1>5, <1>7, <2>1, <2>2
<1>10. scheduled # NotScheduled => \/ SameFlags(radio.scroll, scheduled.scroll)
                                   \/ SameFlags(scheduled.scroll, remote'.scroll)
  BY <1>5, <1>6, FlagFacts
<1>11. out.pc \in {"position", "add"} => SameFlags(out.message.scroll, remote'.scroll)
  BY <1>2, <1>5, FlagFacts DEF RacesOutput, PassedAnEnd
<1>12. NotScheduled' = NotScheduled BY DEF NotScheduled, Untouched, AtZero
<1>13. /\ (radio.steps + ScrollDelta(radio.scroll, remote.scroll) = moved.steps)'
       /\ OneFlag(radio.scroll, remote.scroll)'
  BY <1>3, <1>8, <1>9 DEF ScrollDelta, OneFlag
<1>14. (scheduled # NotScheduled => \/ SameFlags(radio.scroll, scheduled.scroll)
                                    \/ SameFlags(scheduled.scroll, remote.scroll))'
  BY <1>1, <1>3, <1>10, <1>12 DEF SameFlags
<1>15. (out.pc \in {"position", "add"} => SameFlags(out.message.scroll, remote.scroll))'
  BY <1>1, <1>11 DEF SameFlags
<1> QED BY <1>13, <1>14, <1>15 DEF FramesFollow

(* The radio is sent what is scheduled.                                    *)
LEMMA ReceiveFollows ==
  ASSUME WheelIInv, scheduled \in Remotes, Receive21F(scheduled), ~moved.raced,
         ~moved.outrun, scheduled # NotScheduled
  PROVE  /\ radio'.scroll = scheduled.scroll
         /\ radio'.steps + ScrollDelta(scheduled.scroll, remote.scroll) = moved.steps
         /\ OneFlag(scheduled.scroll, remote.scroll)
<1>1. /\ radio'.scroll = scheduled.scroll
      /\ radio'.steps = radio.steps + ScrollDelta(radio.scroll, scheduled.scroll)
  BY ReceiveFacts DEF WheelIInv
<1>2. /\ radio.steps + ScrollDelta(radio.scroll, remote.scroll) = moved.steps
      /\ OneFlag(radio.scroll, remote.scroll)
      /\ \/ SameFlags(radio.scroll, scheduled.scroll)
         \/ SameFlags(scheduled.scroll, remote.scroll)
  BY DEF WheelIInv, FramesFollow
<1>3. /\ radio.scroll \in Scrolls /\ scheduled.scroll \in Scrolls
      /\ remote.scroll \in Scrolls /\ radio.steps \in Int
  BY RemoteTypes DEF WheelIInv, RemoteTypeOK, TypeOK
<1>4. ScrollDelta(radio.scroll, scheduled.scroll) + ScrollDelta(scheduled.scroll, remote.scroll)
        = ScrollDelta(radio.scroll, remote.scroll)
  BY <1>2, <1>3, DeltasAdd
<1>5. /\ ScrollDelta(radio.scroll, scheduled.scroll) \in Int
      /\ ScrollDelta(scheduled.scroll, remote.scroll) \in Int
  BY <1>3, DeltaType
<1>6. OneFlag(scheduled.scroll, remote.scroll) BY <1>2, FlagFacts
<1> QED BY <1>1, <1>2, <1>3, <1>4, <1>5, <1>6

(* What a step that leaves the radio and the forwarded position alone has  *)
(* to keep, and one that sends what is scheduled.                          *)
LEMMA FramesKept ==
  ASSUME FramesFollow, UNCHANGED <<scheduled, moved>>, radio'.scroll = radio.scroll,
         radio'.steps = radio.steps, remote'.scroll = remote.scroll,
         (out.pc \in {"position", "add"})' => \/ UNCHANGED out
                                              \/ SameFlags(out.message.scroll, remote.scroll)'
  PROVE  FramesFollow'
<1>1. NotScheduled' = NotScheduled BY DEF NotScheduled, Untouched, AtZero
<1>2. SUFFICES ASSUME ~moved.raced, ~moved.outrun
               PROVE  /\ radio.steps + ScrollDelta(radio.scroll, remote.scroll) = moved.steps
                      /\ OneFlag(radio.scroll, remote.scroll)
                      /\ scheduled # NotScheduled =>
                           \/ SameFlags(radio.scroll, scheduled.scroll)
                           \/ SameFlags(scheduled.scroll, remote.scroll)
                      /\ (out.pc \in {"position", "add"} =>
                            SameFlags(out.message.scroll, remote.scroll))'
  BY <1>1 DEF FramesFollow, ScrollDelta, SameFlags, OneFlag
<1>3. UNCHANGED out => (SameFlags(out.message.scroll, remote.scroll)'
                          <=> SameFlags(out.message.scroll, remote.scroll))
  BY DEF SameFlags
<1> QED BY <1>2, <1>3 DEF FramesFollow

LEMMA FramesSent ==
  ASSUME WheelIInv, UNCHANGED <<scheduled, moved>>, remote'.scroll = remote.scroll,
         scheduled # NotScheduled => Receive21F(scheduled),
         scheduled = NotScheduled => UNCHANGED radio,
         out'.pc \in {"position", "add"} => UNCHANGED out
  PROVE  FramesFollow'
<1>0. FramesFollow BY DEF WheelIInv
<1>1. NotScheduled' = NotScheduled BY DEF NotScheduled, Untouched, AtZero
<1>2. CASE scheduled = NotScheduled BY <1>0, <1>2, FramesKept
<1>3. CASE scheduled # NotScheduled /\ ~moved.raced /\ ~moved.outrun
  <2>1. scheduled \in Remotes BY <1>3 DEF WheelIInv, RemoteTypeOK, TypeOK
  <2>2. /\ radio'.scroll = scheduled.scroll
        /\ radio'.steps + ScrollDelta(scheduled.scroll, remote.scroll) = moved.steps
        /\ OneFlag(scheduled.scroll, remote.scroll)
    BY <1>3, <2>1, ReceiveFollows
  <2>3. /\ (radio.steps + ScrollDelta(radio.scroll, remote.scroll) = moved.steps)'
        /\ OneFlag(radio.scroll, remote.scroll)'
        /\ SameFlags(radio.scroll, scheduled.scroll)'
    BY <2>2 DEF ScrollDelta, OneFlag, SameFlags
  <2>4. (out.pc \in {"position", "add"} => SameFlags(out.message.scroll, remote.scroll))'
    <3> SUFFICES ASSUME out'.pc \in {"position", "add"}
                 PROVE  SameFlags(out.message.scroll, remote.scroll)'
      OBVIOUS
    <3>1. SameFlags(out.message.scroll, remote.scroll) BY <1>0, <1>3 DEF FramesFollow
    <3> QED BY <3>1 DEF SameFlags
  <2> QED BY <2>3, <2>4 DEF FramesFollow
<1>4. CASE moved.raced \/ moved.outrun BY <1>4 DEF FramesFollow
<1> QED BY <1>2, <1>3, <1>4

(* Sending changes neither the wheel nor the forwarded position.           *)
LEMMA ReaderFollows ==
  ASSUME WheelIInv, ImmediateAdd \/ ImmediateLock \/ ImmediateRefused \/ ImmediateSend
  PROVE  BridgeFollows' /\ FramesFollow'
<1>0. /\ RemoteTypeOK /\ BridgeFollows /\ FramesFollow
      /\ UNCHANGED <<stalk, control, out, moved>>
  BY DEF WheelIInv, ImmediateAdd, ImmediateLock, ImmediateRefused, ImmediateSend
<1>1. Untouched' = Untouched /\ AtZero' = AtZero BY DEF Untouched, AtZero
<1>2. ASSUME remote' = remote, reader'.pc # "add" PROVE BridgeFollows'
  BY <1>0, <1>1, <1>2 DEF BridgeFollows, SameFlags
<1>3. ASSUME AfterSend PROVE BridgeFollows' /\ remote'.scroll = remote.scroll
  <2>1. /\ remote'.scroll = remote.scroll
        /\ reader'.pc = "add" => reader'.message = remote'
    BY <1>0, <1>3, AfterSendFacts
  <2>2. ~control.initialized => remote' = Untouched
    <3>1. ~control.initialized => remote = Untouched BY <1>0 DEF BridgeFollows
    <3>2. [Untouched EXCEPT !.minus = FALSE, !.plus = FALSE] = Untouched
      <4>1. /\ Untouched \in [scroll : {AtZero}, minus : BOOLEAN, plus : BOOLEAN]
            /\ ~Untouched.minus /\ ~Untouched.plus
        BY DEF Untouched
      <4> QED BY <4>1
    <3> QED BY <1>3, <3>1, <3>2 DEF AfterSend, Released
  <2> QED BY <1>0, <1>1, <2>1, <2>2 DEF BridgeFollows, SameFlags
<1>4. ASSUME UNCHANGED scheduled, radio'.scroll = radio.scroll,
             radio'.steps = radio.steps, remote'.scroll = remote.scroll
      PROVE  FramesFollow'
  BY <1>0, <1>4, FramesKept
<1>5. radio \in [scroll : Scrolls, steps : Int, command : Commands, awaited : Commands]
  BY <1>0 DEF RemoteTypeOK, TypeOK
<1>6. CASE ImmediateAdd
  <2>1. reader'.pc = "send" /\ remote' = remote /\ reader.pc = "add"
    BY <1>0, <1>6 DEF ImmediateAdd, RemoteTypeOK, TypeOK
  <2>2. CASE scheduled' = reader.message /\ UNCHANGED radio
    <3>1. scheduled' = remote BY <1>0, <2>1, <2>2 DEF BridgeFollows
    <3>2. SameFlags(remote.scroll, remote.scroll) BY FlagFacts
    <3>3. FramesFollow'
      BY <1>0, <2>1, <2>2, <3>1, <3>2 DEF FramesFollow, ScrollDelta, SameFlags, OneFlag
    <3> QED BY <1>2, <2>1, <3>3
  <2>3. CASE radio' = [radio EXCEPT !.awaited = "none"] /\ UNCHANGED scheduled
    BY <1>2, <1>4, <1>5, <2>1, <2>3
  <2> QED BY <1>6, <2>2, <2>3 DEF ImmediateAdd
<1>7. CASE ImmediateLock
  <2>1. reader'.pc = "sending" BY <1>0, <1>7 DEF ImmediateLock, RemoteTypeOK, TypeOK
  <2> QED BY <1>2, <1>4, <1>7, <2>1 DEF ImmediateLock
<1>8. CASE ImmediateRefused
  BY <1>3, <1>4, <1>5, <1>8 DEF ImmediateRefused
<1>9. CASE ImmediateSend
  <2>1. /\ AfterSend /\ UNCHANGED scheduled
        /\ IF scheduled # NotScheduled THEN Receive21F(scheduled) ELSE UNCHANGED radio
    BY <1>9 DEF ImmediateSend
  <2>2. BridgeFollows' /\ remote'.scroll = remote.scroll BY <1>3, <2>1
  <2> QED BY <1>0, <2>1, <2>2, FramesSent
<1> QED BY <1>6, <1>7, <1>8, <1>9

(* The output task may overtake the reader, but not at an end.             *)
LEMMA OutputFollows ==
  ASSUME WheelIInv, Output
  PROVE  BridgeFollows' /\ FramesFollow'
<1>0. /\ RemoteTypeOK /\ BridgeFollows /\ FramesFollow
      /\ UNCHANGED <<stalk, control, remote, reader, moved>>
  BY DEF WheelIInv, Output, StartRound, GenerateCommand, GeneratePosition, PeriodicAdd,
         UpdateLock, Update
<1>1. BridgeFollows'
  <2>1. Untouched' = Untouched /\ AtZero' = AtZero BY DEF Untouched, AtZero
  <2> QED BY <1>0, <2>1 DEF BridgeFollows, SameFlags
<1>2. SUFFICES FramesFollow' BY <1>1
<1>3. ASSUME UNCHANGED <<radio, scheduled>>, out'.pc \notin {"position", "add"}
      PROVE  FramesFollow'
  BY <1>0, <1>3, FramesKept
<1>4. out \in [pc : {"idle", "generate", "position", "add", "update", "sending"},
               due : BOOLEAN, message : Remotes]
  BY <1>0 DEF RemoteTypeOK, TypeOK
<1>5. ASSUME NEW place, Goto(place) PROVE out'.pc = place BY <1>4, <1>5 DEF Goto
<1>6. ASSUME NEW due \in BOOLEAN, StartRound(due) PROVE FramesFollow'
  <2>1. out'.pc \in {"generate", "update"} BY <1>4, <1>6 DEF StartRound
  <2> QED BY <1>3, <1>6, <2>1 DEF StartRound
<1>7. CASE GenerateCommand
  <2>1. out'.message = remote /\ UNCHANGED <<radio, scheduled>>
    BY <1>4, <1>7 DEF GenerateCommand
  <2>2. SameFlags(out.message.scroll, remote.scroll)' BY <1>0, <2>1 DEF SameFlags
  <2> QED BY <1>0, <2>1, <2>2, FramesKept
<1>8. CASE GeneratePosition
  <2>1. /\ out'.message.scroll.negative = out.message.scroll.negative
        /\ out'.message.scroll.positive = out.message.scroll.positive
        /\ out.pc = "position" /\ UNCHANGED <<radio, scheduled>>
    BY <1>4, <1>8 DEF GeneratePosition, Remotes, Scrolls
  <2>2. CASE ~moved.raced /\ ~moved.outrun
    <3>1. SameFlags(out.message.scroll, remote.scroll)'
      BY <1>0, <2>1, <2>2 DEF FramesFollow, SameFlags
    <3> QED BY <1>0, <2>1, <3>1, FramesKept
  <2>3. CASE moved.raced \/ moved.outrun BY <1>0, <2>3 DEF FramesFollow
  <2> QED BY <2>2, <2>3
<1>9. CASE PeriodicAdd
  <2>1. out'.pc = "update" /\ UNCHANGED radio BY <1>4, <1>9 DEF PeriodicAdd
  <2>2. CASE lock = "free"
    <3>1. scheduled' = out.message /\ out.pc = "add" BY <1>9, <2>2 DEF PeriodicAdd
    <3> QED BY <1>0, <2>1, <3>1 DEF FramesFollow, ScrollDelta, SameFlags, OneFlag
  <2>3. CASE lock # "free"
    <3>1. UNCHANGED scheduled BY <1>9, <2>3 DEF PeriodicAdd
    <3> QED BY <1>3, <2>1, <3>1
  <2> QED BY <2>2, <2>3
<1>10. CASE UpdateLock BY <1>3, <1>5, <1>10 DEF UpdateLock
<1>11. CASE Update
  <2>1. out'.pc = "idle" /\ UNCHANGED scheduled BY <1>5, <1>11 DEF Update
  <2>2. CASE out.due /\ scheduled # NotScheduled
    <3>1. Receive21F(scheduled) BY <1>11, <2>2 DEF Update
    <3> QED BY <1>0, <2>1, <2>2, <3>1, FramesSent
  <2>3. CASE ~(out.due /\ scheduled # NotScheduled)
    BY <1>3, <1>11, <2>1, <2>3 DEF Update
  <2> QED BY <2>2, <2>3
<1> QED BY <1>6, <1>7, <1>8, <1>9, <1>10, <1>11 DEF Output

(* What the variables hold, that the radio counts the turns it is meant to *)
(* and that it sees each volume command, for every size of the wheel and   *)
(* any number of frames and turns.                                         *)
THEOREM RadioFollows == Spec => []RadioInv
<1>1. WheelIInv /\ [Next]_vars => WheelIInv'
  <2> SUFFICES ASSUME WheelIInv, [Next]_vars PROVE WheelIInv' OBVIOUS
  <2>1. RemoteTypeOK' BY RemoteTypeStep DEF WheelIInv
  <2>2. CASE Reader
    BY <2>1, <2>2, ParseFollows, ParseFramesFollow, ReaderFollows DEF Reader, WheelIInv
  <2>3. CASE Output BY <2>1, <2>3, OutputFollows DEF WheelIInv
  <2>4. CASE ButtonWindowEnds \/ ScrollWindowEnds \/ UNCHANGED vars
    <3>1. /\ UNCHANGED <<stalk, remote, scheduled, lock, reader, out, radio, moved>>
          /\ control'.initialized = control.initialized
          /\ control'.physical = control.physical
          /\ control'.forwarded = control.forwarded
      BY <2>4
      DEF ButtonWindowEnds, ScrollWindowEnds, vars, WheelIInv, RemoteTypeOK, TypeOK
    <3>2. BridgeFollows'
      <4>1. Untouched' = Untouched /\ AtZero' = AtZero BY DEF Untouched, AtZero
      <4> QED BY <3>1, <4>1 DEF WheelIInv, BridgeFollows, SameFlags
    <3>3. FramesFollow' BY <3>1, FramesKept DEF WheelIInv
    <3> QED BY <2>1, <3>2, <3>3 DEF WheelIInv
  <2> QED BY <2>2, <2>3, <2>4 DEF Next
<1>2. RemoteTypeOK /\ PulseUnderway /\ WheelIInv => RadioInv
  BY DEF RemoteTypeOK, PulseUnderway, PulseArrives, WheelIInv, FramesFollow,
         RadioFollowsWheel, RadioInv
<1> QED BY <1>1, <1>2, WheelInitially, RemoteAlways, PTL DEF Spec
=============================================================================
