---------------------- MODULE ConcurrencyControlProofs ----------------------
(***************************************************************************)
(* For every number of callers and every limits: the gate loses no slot    *)
(* and nobody queues while a slot is unused, until shutdown disables it.   *)
(***************************************************************************)
EXTENDS ConcurrencyControl, FiniteSetTheorems, SequenceTheorems, TLAPS

\* Splicing one entry out of a sequence shifts the later ones by one place.
LEMMA RemoveAtFacts ==
    ASSUME NEW S, NEW s \in Seq(S), NEW i \in 1..Len(s)
    PROVE  /\ RemoveAt(s, i) \in Seq(S)
           /\ Len(RemoveAt(s, i)) = Len(s) - 1
           /\ \A j \in 1..(Len(s) - 1) :
                RemoveAt(s, i)[j] = s[IF j < i THEN j ELSE j + 1]
<1> DEFINE a == SubSeq(s, 1, i - 1)
           b == SubSeq(s, i + 1, Len(s))
<1>1. a \in Seq(S) /\ Len(a) = i - 1 /\ \A j \in 1..(i - 1) : a[j] = s[j]
  OBVIOUS
<1>2. /\ b \in Seq(S) /\ Len(b) = Len(s) - i
      /\ \A j \in 1..(Len(s) - i) : b[j] = s[i + j]
  OBVIOUS
<1> HIDE DEF a, b
<1>3. a \o b \in Seq(S) /\ Len(a \o b) = Len(s) - 1
  <2>1. a \o b \in Seq(S) /\ Len(a \o b) = Len(a) + Len(b)
    BY <1>1, <1>2, ConcatProperties, Zenon
  <2>2. Len(s) \in Nat
    BY LenProperties
  <2> QED BY <1>1, <1>2, <2>1, <2>2
<1>4. ASSUME NEW j \in 1..(Len(s) - 1)
      PROVE  (a \o b)[j] = s[IF j < i THEN j ELSE j + 1]
  <2>1. (a \o b)[j] = IF j <= Len(a) THEN a[j] ELSE b[j - Len(a)]
    BY <1>1, <1>2, <1>3, ConcatProperties
  <2>2. CASE j < i
    BY <1>1, <2>1, <2>2
  <2>3. CASE ~(j < i)
    <3>1. b[j - Len(a)] = s[i + (j - Len(a))]
      BY <1>1, <1>2, <2>3
    <3> QED BY <1>1, <2>1, <2>3, <3>1
  <2> QED BY <2>2, <2>3
<1> QED BY <1>3, <1>4 DEF RemoveAt, a, b

\* Shifting the first entry of a sequence.
LEMMA TailFacts ==
    ASSUME NEW S, NEW s \in Seq(S), s # <<>>
    PROVE  /\ Head(s) = s[1] /\ Head(s) \in S
           /\ Tail(s) \in Seq(S) /\ Len(s) >= 1
           /\ Len(Tail(s)) = Len(s) - 1
           /\ \A j \in 1..(Len(s) - 1) : Tail(s)[j] = s[j + 1]
OBVIOUS

\* A slot that leaves one of the three places for another changes no total.
LEMMA SlotMoves ==
    ASSUME NEW k \in Int, NEW h \in Int, NEW n \in Int,
           NEW k1, NEW h1 \in Int, NEW n1 \in Int,
           \/ k1 = k - 1 /\ h1 + n1 = h + n + 1
           \/ k1 = k + 1 /\ h1 + n1 = h + n - 1
    PROVE  k1 + h1 + n1 = k + h + n
OBVIOUS

\* The holders of a slot in a promise table.
HoldersIn(pr, t) == {c \in Callers : pr[c] = "granted" /\ QueueOf(c) = t}

\* Every set of holders is finite.
LEMMA HoldersFinite ==
    ASSUME NEW pr, NEW t
    PROVE  IsFiniteSet(HoldersIn(pr, t)) /\ Cardinality(HoldersIn(pr, t)) \in Nat
<1>1. IsFiniteSet(HoldersIn(pr, t))
  BY GateAssumption, FS_Subset DEF HoldersIn
<1> QED BY <1>1, FS_CardinalityType

\* Granting a slot to a caller that has none adds one holder of its type.
LEMMA GrantAddsHolder ==
    ASSUME NEW pr \in [Callers -> PromiseStates], NEW c \in Callers,
           pr[c] # "granted", NEW t
    PROVE  LET new == Cardinality(HoldersIn([pr EXCEPT ![c] = "granted"], t))
               old == Cardinality(HoldersIn(pr, t))
           IN  /\ QueueOf(c) = t => new = old + 1
               /\ QueueOf(c) # t => new = old
<1>1. CASE QueueOf(c) = t
  <2>1. HoldersIn([pr EXCEPT ![c] = "granted"], t) = HoldersIn(pr, t) \cup {c}
    BY <1>1 DEF HoldersIn
  <2>2. c \notin HoldersIn(pr, t)
    BY DEF HoldersIn
  <2> QED BY <1>1, <2>1, <2>2, HoldersFinite, FS_AddElement
<1>2. CASE QueueOf(c) # t
  <2>1. HoldersIn([pr EXCEPT ![c] = "granted"], t) = HoldersIn(pr, t)
    BY <1>2 DEF HoldersIn
  <2> QED BY <1>2, <2>1
<1> QED BY <1>1, <1>2

\* Moving a caller to a state other than "granted" removes it from the holders.
LEMMA LeaveRemovesHolder ==
    ASSUME NEW pr \in [Callers -> PromiseStates], NEW c \in Callers,
           NEW x \in PromiseStates \ {"granted"}, NEW t
    PROVE  LET new == Cardinality(HoldersIn([pr EXCEPT ![c] = x], t))
               old == Cardinality(HoldersIn(pr, t))
           IN  /\ pr[c] = "granted" /\ QueueOf(c) = t => new = old - 1
               /\ pr[c] # "granted" \/ QueueOf(c) # t => new = old
<1>1. HoldersIn([pr EXCEPT ![c] = x], t) = HoldersIn(pr, t) \ {c}
  BY DEF HoldersIn
<1>2. CASE pr[c] = "granted" /\ QueueOf(c) = t
  <2>1. c \in HoldersIn(pr, t)
    BY <1>2 DEF HoldersIn
  <2> QED BY <1>1, <1>2, <2>1, HoldersFinite, FS_RemoveElement
<1>3. CASE pr[c] # "granted" \/ QueueOf(c) # t
  <2>1. HoldersIn(pr, t) \ {c} = HoldersIn(pr, t)
    BY <1>3 DEF HoldersIn
  <2> QED BY <1>1, <1>3, <2>1
<1> QED BY <1>2, <1>3
-----------------------------------------------------------------------------
(* What the methods of ConcurrencyQueue do to a queue *)

\* Slots left, held and asked for, of one type.
Total(t) == capacity[t] + Cardinality(HoldersIn(promise, t)) + Len(queue[t])

QueueTypeOK ==
    /\ capacity \in [QueueTypes -> Int]
    /\ queue \in [QueueTypes -> Seq(Callers)]
    /\ promise \in [Callers -> PromiseStates]

\* resolveNext() turns the first waiter, if there is one, into a holder.
LEMMA ResolveNextFacts ==
    ASSUME QueueTypeOK, NEW t \in QueueTypes, NEW q \in Seq(Callers),
           NEW pr \in [Callers -> PromiseStates], WaitersIn(q, pr, t),
           ResolveNext(t, q, pr)
    PROVE  /\ queue' \in [QueueTypes -> Seq(Callers)]
           /\ promise' \in [Callers -> PromiseStates]
           /\ \A u \in QueueTypes : u # t => queue'[u] = queue[u]
           /\ WaitersIn(queue'[t], promise', t)
           /\ \A c \in Callers : promise'[c] # pr[c] =>
                QueueOf(c) = t /\ pr[c] = "waiting" /\ promise'[c] = "granted"
           /\ \A u \in QueueTypes : u # t =>
                Cardinality(HoldersIn(promise', u)) = Cardinality(HoldersIn(pr, u))
           /\ Cardinality(HoldersIn(promise', t)) + Len(queue'[t]) =
                Cardinality(HoldersIn(pr, t)) + Len(q)
           /\ Len(q) > 0 => Len(queue'[t]) = Len(q) - 1
           /\ Len(q) = 0 => Len(queue'[t]) = 0
<1>1. CASE q = <<>>
  <2>1. queue'[t] = q /\ promise' = pr /\ Len(q) = 0
    BY <1>1 DEF ResolveNext, QueueTypeOK
  <2>2. \A u \in QueueTypes : u # t => queue'[u] = queue[u]
    BY DEF ResolveNext, QueueTypeOK
  <2>3. queue' \in [QueueTypes -> Seq(Callers)]
    BY <1>1 DEF ResolveNext, QueueTypeOK
  <2> QED BY <2>1, <2>2, <2>3
<1>2. CASE q # <<>>
  <2> DEFINE h == Head(q)
  <2>1. /\ h = q[1] /\ h \in Callers /\ Tail(q) \in Seq(Callers)
        /\ Len(q) \in Nat /\ Len(q) >= 1 /\ Len(Tail(q)) = Len(q) - 1
        /\ \A j \in 1..(Len(q) - 1) : Tail(q)[j] = q[j + 1]
    BY <1>2, TailFacts
  <2>2. pr[h] = "waiting" /\ QueueOf(h) = t
    BY <2>1 DEF WaitersIn
  <2>3. promise' = [pr EXCEPT ![h] = "granted"]
    BY <1>2 DEF ResolveNext
  <2>4. queue'[t] = Tail(q) /\ queue' \in [QueueTypes -> Seq(Callers)]
    BY <1>2, <2>1 DEF ResolveNext, QueueTypeOK
  <2>5. \A u \in QueueTypes : u # t => queue'[u] = queue[u]
    BY DEF ResolveNext, QueueTypeOK
  <2>6. promise' \in [Callers -> PromiseStates]
    BY <2>1, <2>3 DEF PromiseStates
  <2>7. WaitersIn(queue'[t], promise', t)
    <3>1. ASSUME NEW j \in 1..(Len(q) - 1)
          PROVE  /\ promise'[Tail(q)[j]] = "waiting"
                 /\ QueueOf(Tail(q)[j]) = t
      <4>1. j + 1 \in 1..Len(q) /\ j + 1 # 1 /\ 1 \in 1..Len(q)
        BY <2>1
      <4>2. Tail(q)[j] = q[j + 1] /\ q[j + 1] \in Callers
        BY <2>1, <4>1
      <4>3. q[j + 1] # h
        BY <2>1, <4>1 DEF WaitersIn
      <4> QED BY <4>1, <4>2, <4>3, <2>3 DEF WaitersIn
    <3>2. ASSUME NEW j \in 1..(Len(q) - 1), NEW k \in 1..(Len(q) - 1),
                 Tail(q)[j] = Tail(q)[k]
          PROVE  j = k
      <4>1. j + 1 \in 1..Len(q) /\ k + 1 \in 1..Len(q)
        BY <2>1
      <4>2. q[j + 1] = q[k + 1]
        BY <2>1, <3>2
      <4>3. j + 1 = k + 1
        BY <4>1, <4>2 DEF WaitersIn
      <4> QED BY <4>3
    <3> QED BY <2>1, <2>4, <3>1, <3>2 DEF WaitersIn
  <2>8. Cardinality(HoldersIn(promise', t)) = Cardinality(HoldersIn(pr, t)) + 1
    BY <2>1, <2>2, <2>3, GrantAddsHolder
  <2>9. \A u \in QueueTypes : u # t =>
          Cardinality(HoldersIn(promise', u)) = Cardinality(HoldersIn(pr, u))
    BY <2>1, <2>2, <2>3, GrantAddsHolder
  <2>10. Cardinality(HoldersIn(pr, t)) \in Nat
    BY HoldersFinite
  <2>11. \A c \in Callers : promise'[c] # pr[c] =>
           QueueOf(c) = t /\ pr[c] = "waiting" /\ promise'[c] = "granted"
    BY <2>1, <2>2, <2>3
  <2>12. /\ Len(queue'[t]) = Len(q) - 1
         /\ Cardinality(HoldersIn(promise', t)) + Len(queue'[t]) =
              Cardinality(HoldersIn(pr, t)) + Len(q)
    BY <2>1, <2>4, <2>8, <2>10
  <2> QED BY <2>1, <2>4, <2>5, <2>6, <2>7, <2>9, <2>11, <2>12
<1> QED BY <1>1, <1>2
\* What every method of a queue preserves.
QueueInv == QueueTypeOK /\ QueueHoldsWaiters /\ BacklogCovered

\* enqueue() takes one slot and gives it to the caller, now or later.
LEMMA EnqueueFacts ==
    ASSUME QueueInv, NEW t \in QueueTypes, NEW c \in Callers,
           promise[c] = "idle", QueueOf(c) = t, Enqueue(t, c)
    PROVE  /\ QueueInv'
           /\ \A u \in QueueTypes : Total(u)' = Total(u)
           /\ \A d \in Callers : promise'[d] = "free" => promise[d] = "free"
           /\ \A d \in Callers : promise'[d] \in {"granted", "waiting"} =>
                promise[d] \in {"granted", "waiting"} \/ d = c
<1> USE DEF QueueInv, QueueTypeOK
<1>1. capacity' \in [QueueTypes -> Int] /\ capacity'[t] = capacity[t] - 1
  BY DEF Enqueue
<1>2. \A u \in QueueTypes : u # t => capacity'[u] = capacity[u]
  BY DEF Enqueue
<1>3. queue[t] \in Seq(Callers) /\ Len(queue[t]) \in Nat
  BY LenProperties
<1>4. \A u \in QueueTypes : Cardinality(HoldersIn(promise, u)) \in Nat
  BY HoldersFinite
<1>5. CASE capacity[t] - 1 < 0
  <2>1. queue' = [queue EXCEPT ![t] = Append(@, c)]
    BY <1>5 DEF Enqueue
  <2>2. promise' = [promise EXCEPT ![c] = "waiting"]
    BY <1>5 DEF Enqueue
  <2>3. QueueTypeOK'
    BY <1>1, <1>3, <2>1, <2>2 DEF PromiseStates
  <2>4. /\ queue'[t] = Append(queue[t], c)
        /\ \A u \in QueueTypes : u # t => queue'[u] = queue[u]
    BY <2>1
  <2>5. /\ Len(queue'[t]) = Len(queue[t]) + 1
        /\ \A j \in 1..Len(queue[t]) : queue'[t][j] = queue[t][j]
        /\ queue'[t][Len(queue[t]) + 1] = c
    BY <1>3, <2>4
  <2>6. \A u \in QueueTypes : \A j \in 1..Len(queue[u]) : queue[u][j] # c
    BY DEF QueueHoldsWaiters, WaitersIn
  <2>7. QueueHoldsWaiters'
    <3>1. ASSUME NEW u \in QueueTypes, u # t
          PROVE  WaitersIn(queue'[u], promise', u)
      BY <2>2, <2>4, <2>6, <3>1, ElementOfSeq DEF QueueHoldsWaiters, WaitersIn
    <3>2. ASSUME NEW j \in 1..(Len(queue[t]) + 1)
          PROVE  promise'[queue'[t][j]] = "waiting" /\ QueueOf(queue'[t][j]) = t
      <4>1. CASE j \in 1..Len(queue[t])
        <5>1. queue'[t][j] = queue[t][j] /\ queue[t][j] # c
          BY <2>5, <2>6, <4>1
        <5>2. promise[queue[t][j]] = "waiting" /\ QueueOf(queue[t][j]) = t
          BY <4>1 DEF QueueHoldsWaiters, WaitersIn
        <5>3. queue[t][j] \in Callers
          BY <1>3, <4>1, ElementOfSeq
        <5> QED BY <2>2, <5>1, <5>2, <5>3
      <4>2. CASE j = Len(queue[t]) + 1
        BY <2>2, <2>5, <4>2
      <4> QED BY <1>3, <4>1, <4>2
    <3>3. ASSUME NEW j \in 1..(Len(queue[t]) + 1), NEW k \in 1..(Len(queue[t]) + 1),
                 queue'[t][j] = queue'[t][k]
          PROVE  j = k
      <4>1. WaitersIn(queue[t], promise, t)
        BY DEF QueueHoldsWaiters
      <4>2. \A i \in 1..(Len(queue[t]) + 1) :
              i \in 1..Len(queue[t]) \/ i = Len(queue[t]) + 1
        BY <1>3
      <4>3. CASE j \in 1..Len(queue[t]) /\ k \in 1..Len(queue[t])
        <5>1. queue[t][j] = queue[t][k]
          BY <2>5, <3>3, <4>3
        <5> QED BY <4>1, <4>3, <5>1 DEF WaitersIn
      <4>4. CASE j = Len(queue[t]) + 1 /\ k = Len(queue[t]) + 1
        BY <4>4
      <4>5. CASE j \in 1..Len(queue[t]) /\ k = Len(queue[t]) + 1
        BY <2>5, <2>6, <3>3, <4>5
      <4>6. CASE j = Len(queue[t]) + 1 /\ k \in 1..Len(queue[t])
        BY <2>5, <2>6, <3>3, <4>6
      <4> QED BY <4>2, <4>3, <4>4, <4>5, <4>6
    <3>4. WaitersIn(queue'[t], promise', t)
      BY <2>5, <3>2, <3>3 DEF WaitersIn
    <3> QED BY <3>1, <3>4 DEF QueueHoldsWaiters
  <2>8. BacklogCovered'
    <3>1. Len(queue'[t]) <= (IF capacity'[t] < 0 THEN -capacity'[t] ELSE 0)
      <4>1. Len(queue[t]) <= (IF capacity[t] < 0 THEN -capacity[t] ELSE 0)
        BY DEF BacklogCovered
      <4>2. capacity[t] \in Int
        OBVIOUS
      <4> QED BY <1>1, <1>3, <1>5, <2>5, <4>1, <4>2
    <3> QED BY <1>2, <2>4, <3>1 DEF BacklogCovered
  <2>9. \A u \in QueueTypes :
          Cardinality(HoldersIn(promise', u)) = Cardinality(HoldersIn(promise, u))
    <3>1. "waiting" \in PromiseStates \ {"granted"}
      BY DEF PromiseStates
    <3> QED BY <2>2, <3>1, LeaveRemovesHolder
  <2>10. ASSUME NEW u \in QueueTypes PROVE Total(u)' = Total(u)
    <3>1. CASE u = t
      <4> DEFINE h == Cardinality(HoldersIn(promise, t))
                 h1 == Cardinality(HoldersIn(promise', t))
                 n == Len(queue[t])
                 n1 == Len(queue'[t])
                 k == capacity[t]
                 k1 == capacity'[t]
      <4>1. h \in Nat /\ h1 = h /\ n \in Nat /\ n1 = n + 1
        BY <1>3, <1>4, <2>5, <2>9
      <4>2. k \in Int /\ k1 = k - 1
        BY <1>1
      <4> HIDE DEF h, h1, n, n1, k, k1
      <4>3. k1 + h1 + n1 = k + h + n
        BY <4>1, <4>2, SlotMoves
      <4> QED BY <3>1, <4>3 DEF Total, h, h1, n, n1, k, k1
    <3>2. CASE u # t
      BY <1>2, <2>4, <2>9, <3>2 DEF Total
    <3> QED BY <3>1, <3>2
  <2>11. \A d \in Callers :
           /\ promise'[d] = "free" => promise[d] = "free"
           /\ promise'[d] \in {"granted", "waiting"} =>
                promise[d] \in {"granted", "waiting"} \/ d = c
    BY <2>2
  <2> QED BY <2>3, <2>7, <2>8, <2>10, <2>11
<1>6. CASE ~(capacity[t] - 1 < 0)
  <2>1. queue' = queue /\ promise' = [promise EXCEPT ![c] = "granted"]
    BY <1>6 DEF Enqueue
  <2>2. QueueTypeOK'
    BY <1>1, <2>1 DEF PromiseStates
  <2>3. QueueHoldsWaiters'
    BY <2>1, ElementOfSeq DEF QueueHoldsWaiters, WaitersIn
  <2>4. BacklogCovered'
    <3>1. Len(queue'[t]) <= (IF capacity'[t] < 0 THEN -capacity'[t] ELSE 0)
      BY <1>1, <1>3, <1>6, <2>1 DEF BacklogCovered
    <3> QED BY <1>2, <2>1, <3>1 DEF BacklogCovered
  <2>5. Cardinality(HoldersIn(promise', t)) = Cardinality(HoldersIn(promise, t)) + 1
    BY <2>1, GrantAddsHolder
  <2>6. \A u \in QueueTypes : u # t =>
          Cardinality(HoldersIn(promise', u)) = Cardinality(HoldersIn(promise, u))
    BY <2>1, GrantAddsHolder
  <2>7. ASSUME NEW u \in QueueTypes PROVE Total(u)' = Total(u)
    <3>1. CASE u = t
      BY <1>1, <1>3, <1>4, <2>1, <2>5, <3>1 DEF Total
    <3>2. CASE u # t
      BY <1>2, <2>1, <2>6, <3>2 DEF Total
    <3> QED BY <3>1, <3>2
  <2>8. \A d \in Callers :
          /\ promise'[d] = "free" => promise[d] = "free"
          /\ promise'[d] \in {"granted", "waiting"} =>
               promise[d] \in {"granted", "waiting"} \/ d = c
    BY <2>1
  <2> QED BY <2>2, <2>3, <2>4, <2>7, <2>8
<1> QED BY <1>5, <1>6

\* dequeue() gives the slot of caller c back, and to the first waiter.
LEMMA DequeueFacts ==
    ASSUME QueueInv, NEW t \in QueueTypes, NEW c \in Callers,
           promise[c] \in {"granted", "free"}, QueueOf(c) = t,
           Dequeue(t, [promise EXCEPT ![c] = "done"])
    PROVE  /\ QueueInv'
           /\ promise[c] = "granted" => \A u \in QueueTypes : Total(u)' = Total(u)
           /\ \A d \in Callers : promise'[d] = "free" => promise[d] = "free"
           /\ \A d \in Callers : promise'[d] \in {"granted", "waiting"} =>
                promise[d] \in {"granted", "waiting"}
<1> USE DEF QueueInv, QueueTypeOK
<1> DEFINE pr == [promise EXCEPT ![c] = "done"]
<1>1. /\ capacity' \in [QueueTypes -> Int] /\ capacity'[t] = capacity[t] + 1
      /\ \A u \in QueueTypes : u # t => capacity'[u] = capacity[u]
  BY DEF Dequeue
<1>2. pr \in [Callers -> PromiseStates]
  BY DEF PromiseStates
<1>3. \A u \in QueueTypes : queue[u] \in Seq(Callers) /\ Len(queue[u]) \in Nat
  BY LenProperties
<1>4. \A u \in QueueTypes : WaitersIn(queue[u], pr, u)
  BY <1>3, ElementOfSeq DEF QueueHoldsWaiters, WaitersIn
<1>5. ResolveNext(t, queue[t], pr)
  BY DEF Dequeue
<1>6. \A u \in QueueTypes : Cardinality(HoldersIn(promise, u)) \in Nat
  BY HoldersFinite
<1>a. "done" \in PromiseStates \ {"granted"}
  BY DEF PromiseStates
<1>7. promise[c] = "granted" =>
        Cardinality(HoldersIn(pr, t)) = Cardinality(HoldersIn(promise, t)) - 1
  BY <1>a, LeaveRemovesHolder
<1>8. \A u \in QueueTypes : u # t =>
        Cardinality(HoldersIn(pr, u)) = Cardinality(HoldersIn(promise, u))
  BY <1>a, LeaveRemovesHolder
<1> HIDE DEF pr
<1>9. /\ queue' \in [QueueTypes -> Seq(Callers)]
      /\ promise' \in [Callers -> PromiseStates]
      /\ \A u \in QueueTypes : u # t => queue'[u] = queue[u]
      /\ WaitersIn(queue'[t], promise', t)
      /\ \A d \in Callers : promise'[d] # pr[d] =>
           QueueOf(d) = t /\ pr[d] = "waiting" /\ promise'[d] = "granted"
      /\ \A u \in QueueTypes : u # t =>
           Cardinality(HoldersIn(promise', u)) = Cardinality(HoldersIn(pr, u))
      /\ Cardinality(HoldersIn(promise', t)) + Len(queue'[t]) =
           Cardinality(HoldersIn(pr, t)) + Len(queue[t])
      /\ Len(queue[t]) > 0 => Len(queue'[t]) = Len(queue[t]) - 1
      /\ Len(queue[t]) = 0 => Len(queue'[t]) = 0
  BY <1>2, <1>3, <1>4, <1>5, ResolveNextFacts
<1>10. QueueTypeOK'
  BY <1>1, <1>9
<1>11. QueueHoldsWaiters'
  <2>1. ASSUME NEW u \in QueueTypes, u # t
        PROVE  WaitersIn(queue'[u], promise', u)
    <3>1. ASSUME NEW i \in 1..Len(queue[u])
          PROVE  promise'[queue[u][i]] = "waiting"
      <4>1. queue[u][i] \in Callers
        BY <1>3, ElementOfSeq
      <4>2. pr[queue[u][i]] = "waiting" /\ QueueOf(queue[u][i]) = u
        BY <1>4 DEF WaitersIn
      <4> QED BY <1>9, <2>1, <4>1, <4>2
    <3> QED BY <1>4, <1>9, <2>1, <3>1 DEF WaitersIn
  <2> QED BY <1>9, <2>1 DEF QueueHoldsWaiters
<1>12. BacklogCovered'
  <2>1. Len(queue'[t]) <= (IF capacity'[t] < 0 THEN -capacity'[t] ELSE 0)
    <3>1. Len(queue[t]) <= (IF capacity[t] < 0 THEN -capacity[t] ELSE 0)
      BY DEF BacklogCovered
    <3>2. capacity[t] \in Int
      OBVIOUS
    <3> QED BY <1>1, <1>3, <1>9, <3>1, <3>2
  <2> QED BY <1>1, <1>9, <2>1 DEF BacklogCovered
<1>13. ASSUME promise[c] = "granted", NEW u \in QueueTypes
       PROVE  Total(u)' = Total(u)
  <2>1. CASE u = t
    <3> DEFINE h == Cardinality(HoldersIn(promise, t))
               h1 == Cardinality(HoldersIn(promise', t))
               n == Len(queue[t])
               n1 == Len(queue'[t])
               k == capacity[t]
               k1 == capacity'[t]
    <3>1. h \in Nat /\ h1 \in Nat /\ n \in Nat /\ n1 \in Nat
      BY <1>3, <1>6, <1>9, HoldersFinite, LenProperties
    <3>2. h1 + n1 = h - 1 + n
      BY <1>7, <1>9, <1>13
    <3>3. k \in Int /\ k1 = k + 1
      BY <1>1
    <3> HIDE DEF h, h1, n, n1, k, k1
    <3>4. k1 + h1 + n1 = k + h + n
      BY <3>1, <3>2, <3>3, SlotMoves
    <3> QED BY <2>1, <3>4 DEF Total, h, h1, n, n1, k, k1
  <2>2. CASE u # t
    BY <1>1, <1>8, <1>9, <2>2 DEF Total
  <2> QED BY <2>1, <2>2
<1>14. \A d \in Callers :
         /\ promise'[d] = "free" => promise[d] = "free"
         /\ promise'[d] \in {"granted", "waiting"} =>
              promise[d] \in {"granted", "waiting"}
  BY <1>9 DEF pr
<1> QED BY <1>10, <1>11, <1>12, <1>13, <1>14
\* remove() gives the slot a queued caller asked for to the next waiter.
LEMMA RemoveFacts ==
    ASSUME QueueInv, NEW t \in QueueTypes, NEW x \in DOMAIN queue[t],
           RemoveEntry(t, x)
    PROVE  /\ QueueInv'
           /\ \A u \in QueueTypes : Total(u)' = Total(u)
           /\ \A d \in Callers : promise'[d] = "free" => promise[d] = "free"
           /\ \A d \in Callers : promise'[d] \in {"granted", "waiting"} =>
                promise[d] \in {"granted", "waiting"}
<1> USE DEF QueueInv, QueueTypeOK
<1> DEFINE c == queue[t][x]
           q == RemoveAt(queue[t], x)
           pr == [promise EXCEPT ![c] = "evicted"]
<1>1. /\ capacity' \in [QueueTypes -> Int] /\ capacity'[t] = capacity[t] + 1
      /\ \A u \in QueueTypes : u # t => capacity'[u] = capacity[u]
  BY DEF RemoveEntry
<1>2. \A u \in QueueTypes : queue[u] \in Seq(Callers) /\ Len(queue[u]) \in Nat
  BY LenProperties
<1>3. x \in 1..Len(queue[t]) /\ c \in Callers
  BY <1>2, LenProperties, ElementOfSeq
<1>4. promise[c] = "waiting" /\ QueueOf(c) = t
  BY <1>3 DEF QueueHoldsWaiters, WaitersIn
<1>5. pr \in [Callers -> PromiseStates]
  BY <1>3 DEF PromiseStates
<1>6. /\ q \in Seq(Callers) /\ Len(q) = Len(queue[t]) - 1
      /\ \A j \in 1..(Len(queue[t]) - 1) :
           q[j] = queue[t][IF j < x THEN j ELSE j + 1]
  BY <1>2, <1>3, RemoveAtFacts
<1>7. ResolveNext(t, q, pr)
  BY DEF RemoveEntry
<1>8. \A u \in QueueTypes : Cardinality(HoldersIn(promise, u)) \in Nat
  BY HoldersFinite
<1>9. \A u \in QueueTypes :
        Cardinality(HoldersIn(pr, u)) = Cardinality(HoldersIn(promise, u))
  <2>1. "evicted" \in PromiseStates \ {"granted"}
    BY DEF PromiseStates
  <2> QED BY <1>3, <1>4, <2>1, LeaveRemovesHolder
<1>10. WaitersIn(q, pr, t)
  <2> DEFINE at(j) == IF j < x THEN j ELSE j + 1
  <2>1. ASSUME NEW j \in 1..Len(q)
        PROVE  at(j) \in 1..Len(queue[t]) /\ at(j) # x /\ q[j] = queue[t][at(j)]
    <3> HIDE DEF q
    <3>1. Len(queue[t]) \in Nat /\ x \in 1..Len(queue[t]) /\ j \in 1..(Len(queue[t]) - 1)
      BY <1>2, <1>3, <1>6
    <3>2. at(j) \in 1..Len(queue[t]) /\ at(j) # x
      BY <3>1
    <3>3. q[j] = queue[t][at(j)]
      BY <1>6, <3>1
    <3> QED BY <3>2, <3>3
  <2>2. ASSUME NEW j \in 1..Len(q), NEW k \in 1..Len(q), at(j) = at(k)
        PROVE  j = k
    BY <1>2, <1>3, <1>6, <2>2
  <2> HIDE DEF at, q, pr, c
  <2>3. ASSUME NEW j \in 1..Len(q)
        PROVE  pr[q[j]] = "waiting" /\ QueueOf(q[j]) = t
    <3>1. q[j] \in Callers /\ promise[q[j]] = "waiting" /\ QueueOf(q[j]) = t
      BY <1>6, <2>1, ElementOfSeq DEF QueueHoldsWaiters, WaitersIn
    <3>2. q[j] # c
      BY <1>3, <2>1 DEF QueueHoldsWaiters, WaitersIn, c
    <3> QED BY <3>1, <3>2 DEF pr
  <2>4. ASSUME NEW j \in 1..Len(q), NEW k \in 1..Len(q), q[j] = q[k]
        PROVE  j = k
    <3>1. queue[t][at(j)] = queue[t][at(k)]
      BY <2>1, <2>4
    <3>2. WaitersIn(queue[t], promise, t)
      BY DEF QueueHoldsWaiters
    <3>3. at(j) = at(k)
      <4> DEFINE J == at(j)
                 K == at(k)
      <4>1. J \in 1..Len(queue[t]) /\ K \in 1..Len(queue[t]) /\ queue[t][J] = queue[t][K]
        BY <2>1, <3>1
      <4> HIDE DEF J, K
      <4>2. J = K
        BY <3>2, <4>1 DEF WaitersIn
      <4> QED BY <4>2 DEF J, K
    <3> QED BY <2>2, <3>3
  <2> QED BY <2>3, <2>4 DEF WaitersIn
<1>11. \A u \in QueueTypes : u # t => WaitersIn(queue[u], pr, u)
  BY <1>2, <1>3, <1>4, ElementOfSeq DEF QueueHoldsWaiters, WaitersIn
<1>12. \A d \in Callers :
         /\ pr[d] = "free" => promise[d] = "free"
         /\ pr[d] \in {"granted", "waiting"} => promise[d] \in {"granted", "waiting"}
  BY <1>3
<1> HIDE DEF pr, q, c
<1>13. /\ queue' \in [QueueTypes -> Seq(Callers)]
       /\ promise' \in [Callers -> PromiseStates]
       /\ \A u \in QueueTypes : u # t => queue'[u] = queue[u]
       /\ WaitersIn(queue'[t], promise', t)
       /\ \A d \in Callers : promise'[d] # pr[d] =>
            QueueOf(d) = t /\ pr[d] = "waiting" /\ promise'[d] = "granted"
       /\ \A u \in QueueTypes : u # t =>
            Cardinality(HoldersIn(promise', u)) = Cardinality(HoldersIn(pr, u))
       /\ Cardinality(HoldersIn(promise', t)) + Len(queue'[t]) =
            Cardinality(HoldersIn(pr, t)) + Len(q)
       /\ Len(q) > 0 => Len(queue'[t]) = Len(q) - 1
       /\ Len(q) = 0 => Len(queue'[t]) = 0
  BY <1>5, <1>6, <1>7, <1>10, ResolveNextFacts
<1>14. QueueTypeOK'
  BY <1>1, <1>13
<1>15. QueueHoldsWaiters'
  <2>1. ASSUME NEW u \in QueueTypes, u # t
        PROVE  WaitersIn(queue'[u], promise', u)
    <3>1. ASSUME NEW i \in 1..Len(queue[u])
          PROVE  promise'[queue[u][i]] = "waiting"
      <4>1. queue[u][i] \in Callers
        BY <1>2, ElementOfSeq
      <4>2. pr[queue[u][i]] = "waiting" /\ QueueOf(queue[u][i]) = u
        BY <1>11, <2>1 DEF WaitersIn
      <4> QED BY <1>13, <2>1, <4>1, <4>2
    <3> QED BY <1>11, <1>13, <2>1, <3>1 DEF WaitersIn
  <2> QED BY <1>13, <2>1 DEF QueueHoldsWaiters
<1>16. BacklogCovered'
  <2>1. Len(queue'[t]) <= (IF capacity'[t] < 0 THEN -capacity'[t] ELSE 0)
    <3>1. Len(queue[t]) <= (IF capacity[t] < 0 THEN -capacity[t] ELSE 0)
      BY DEF BacklogCovered
    <3>2. capacity[t] \in Int
      OBVIOUS
    <3> QED BY <1>1, <1>2, <1>6, <1>13, <3>1, <3>2
  <2> QED BY <1>1, <1>13, <2>1 DEF BacklogCovered
<1>17. ASSUME NEW u \in QueueTypes PROVE Total(u)' = Total(u)
  <2>1. CASE u = t
    <3> DEFINE h == Cardinality(HoldersIn(promise, t))
               h1 == Cardinality(HoldersIn(promise', t))
               n == Len(queue[t])
               n1 == Len(queue'[t])
               k == capacity[t]
               k1 == capacity'[t]
    <3>1. h \in Nat /\ h1 \in Nat /\ n \in Nat /\ n1 \in Nat
      BY <1>2, <1>8, <1>13, HoldersFinite, LenProperties
    <3>2. h1 + n1 = h + n - 1
      BY <1>2, <1>6, <1>8, <1>9, <1>13
    <3>3. k \in Int /\ k1 = k + 1
      BY <1>1
    <3> HIDE DEF h, h1, n, n1, k, k1
    <3>4. k1 + h1 + n1 = k + h + n
      BY <3>1, <3>2, <3>3, SlotMoves
    <3> QED BY <2>1, <3>4 DEF Total, h, h1, n, n1, k, k1
  <2>2. CASE u # t
    BY <1>1, <1>9, <1>13, <2>2 DEF Total
  <2> QED BY <2>1, <2>2
<1>18. \A d \in Callers :
         /\ promise'[d] = "free" => promise[d] = "free"
         /\ promise'[d] \in {"granted", "waiting"} =>
              promise[d] \in {"granted", "waiting"}
  BY <1>12, <1>13
<1> QED BY <1>14, <1>15, <1>16, <1>17, <1>18
-----------------------------------------------------------------------------
(* The service *)

\* GateInv in the terms of the lemmas above.
LEMMA GateInvParts ==
    GateInv <=> /\ isEnabled \in BOOLEAN /\ evalQueueResolved \in BOOLEAN
                /\ disabled \in BOOLEAN /\ limits \in [QueueTypes -> Int]
                /\ QueueInv
                /\ LimitsFinal /\ EnabledUntilDisabled /\ FreeMeansUngated
                /\ SlotMeansQueue
                /\ ~disabled => \A t \in QueueTypes : Total(t) = BaseCapacity(t)
BY DEF GateInv, GateTypeOK, QueueInv, QueueTypeOK, SlotsAccounted, Total,
       Holders, HoldersIn

\* ensureEvalQueueResolved() switches the gate on for a queue it builds, and
\* changes nothing for those who got through uncounted before.
LEMMA EnsureFacts ==
    ASSUME GateInv, NEW c \in Callers, EnsureEvalQueueResolved(c)
    PROVE  /\ isEnabled' \in BOOLEAN /\ evalQueueResolved' \in BOOLEAN
           /\ limits' \in [QueueTypes -> Int]
           /\ LimitsFinal'
           /\ \A t \in QueueTypes : limits[t] > 0 => limits'[t] = limits[t]
           /\ ~disabled => \A t \in QueueTypes : limits'[t] > 0 => isEnabled'
           /\ ModeOf[c] = "evaluation" => evalQueueResolved'
           /\ ~disabled => \A d \in Callers : promise[d] = "free" =>
                /\ QueueOf(d) \in QueueTypes => limits'[QueueOf(d)] <= 0
                /\ QueueOf(d) = "evaluation" => evalQueueResolved'
<1> USE GateAssumption DEF GateInv, GateTypeOK
<1>1. CASE ModeOf[c] = "evaluation" /\ ~evalQueueResolved
  <2>1. /\ evalQueueResolved' = TRUE
        /\ limits' = [limits EXCEPT !["evaluation"] = NormaliseLimit(LicensedLimit)]
        /\ isEnabled' = (isEnabled \/ LicensedLimit > 0)
    BY <1>1 DEF EnsureEvalQueueResolved
  <2>2. /\ NormaliseLimit(LicensedLimit) \in Int
        /\ NormaliseLimit(LicensedLimit) > 0 => NormaliseLimit(LicensedLimit) = LicensedLimit
        /\ NormaliseLimit(LicensedLimit) <= 0 => LicensedLimit <= 0
    BY DEF NormaliseLimit
  <2>3. /\ limits'["evaluation"] = NormaliseLimit(LicensedLimit)
        /\ limits'["production"] = limits["production"]
        /\ limits' \in [QueueTypes -> Int]
    BY <2>1, <2>2 DEF QueueTypes
  <2>4. EvaluationLimit <= 0 /\ BaseCapacity("evaluation") = LicensedLimit
    BY <1>1 DEF LimitsFinal, BaseCapacity
  <2>5. LimitsFinal'
    BY <2>1, <2>2, <2>3, <2>4 DEF LimitsFinal, QueueTypes, BaseCapacity
  <2>6. ~disabled => \A t \in QueueTypes : limits'[t] > 0 => isEnabled'
    BY <2>1, <2>2, <2>3 DEF EnabledUntilDisabled, QueueTypes
  <2>7. ~disabled => \A d \in Callers : promise[d] = "free" =>
          /\ QueueOf(d) \in QueueTypes => limits'[QueueOf(d)] <= 0
          /\ QueueOf(d) = "evaluation" => evalQueueResolved'
    BY <1>1, <2>1, <2>3 DEF FreeMeansUngated, QueueTypes
  <2>8. \A t \in QueueTypes : limits[t] > 0 => limits'[t] = limits[t]
    BY <1>1, <2>3 DEF LimitsFinal, QueueTypes
  <2> QED BY <2>1, <2>3, <2>5, <2>6, <2>7, <2>8
<1>2. CASE ~(ModeOf[c] = "evaluation" /\ ~evalQueueResolved)
  <2>1. UNCHANGED <<evalQueueResolved, limits, isEnabled>>
    BY <1>2 DEF EnsureEvalQueueResolved
  <2>2. LimitsFinal'
    BY <2>1 DEF LimitsFinal, BaseCapacity
  <2> QED BY <1>2, <2>1, <2>2 DEF EnabledUntilDisabled, FreeMeansUngated
<1> QED BY <1>1, <1>2

\* The initial state of the service.
LEMMA GateInvInit == GateInit => GateInv
<1> SUFFICES ASSUME GateInit PROVE GateInv
  OBVIOUS
<1> USE GateAssumption DEF GateInit
<1>a. \A l \in Int : /\ NormaliseLimit(l) \in Int
                     /\ NormaliseLimit(l) > 0 => NormaliseLimit(l) = l
                     /\ NormaliseLimit(l) <= 0 => l <= 0
  BY DEF NormaliseLimit
<1>b. /\ limits["production"] = NormaliseLimit(ProductionLimit)
      /\ limits["evaluation"] = NormaliseLimit(EvaluationLimit)
      /\ limits \in [QueueTypes -> Int]
  BY <1>a DEF QueueTypes
<1>c. /\ EvaluationLimit > 0 => evalQueueResolved = TRUE
      /\ ~(EvaluationLimit > 0) => evalQueueResolved = FALSE
      /\ ProductionLimit > 0 \/ EvaluationLimit > 0 => isEnabled = TRUE
      /\ ~(ProductionLimit > 0 \/ EvaluationLimit > 0) => isEnabled = FALSE
      /\ disabled = FALSE /\ promise = [c \in Callers |-> "idle"]
  <2>1. disabled = FALSE /\ promise = [c \in Callers |-> "idle"]
    OBVIOUS
  <2> DEFINE e == EvaluationLimit > 0
             p == ProductionLimit > 0
  <2>2. evalQueueResolved = e /\ isEnabled = (p \/ e)
    BY Zenon
  <2> HIDE DEF e, p
  <2>3. /\ e => evalQueueResolved = TRUE
        /\ p \/ e => isEnabled = TRUE
        /\ ~(p \/ e) => isEnabled = FALSE
    BY <2>2, Zenon
  <2>4. ~e => evalQueueResolved = FALSE
    <3>1. e \in BOOLEAN
      BY SMT DEF e
    <3> QED BY <2>2, <3>1, Zenon
  <2> QED BY <2>1, <2>3, <2>4, Zenon DEF e, p
<1>1. /\ isEnabled \in BOOLEAN /\ evalQueueResolved \in BOOLEAN
      /\ disabled \in BOOLEAN /\ limits \in [QueueTypes -> Int]
  BY <1>b, <1>c
<1>2. QueueTypeOK
  BY DEF QueueTypeOK, QueueTypes, PromiseStates
<1>3. \A t \in QueueTypes : Len(queue[t]) = 0
  OBVIOUS
<1>4. QueueHoldsWaiters /\ BacklogCovered
  BY <1>2, <1>3 DEF QueueHoldsWaiters, WaitersIn, BacklogCovered, QueueTypeOK
<1>5. LimitsFinal
  <2> USE <1>a, <1>b, <1>c
  <2> HIDE DEF GateInit
  <2>1. \A t \in QueueTypes : limits[t] > 0 => limits[t] = BaseCapacity(t)
    BY DEF BaseCapacity, QueueTypes
  <2>2. ~evalQueueResolved => limits["evaluation"] <= 0 /\ EvaluationLimit <= 0
    OBVIOUS
  <2>3. evalQueueResolved /\ limits["evaluation"] <= 0 => LicensedLimit <= 0
    OBVIOUS
  <2> QED BY <2>1, <2>2, <2>3 DEF LimitsFinal
<1>6. EnabledUntilDisabled /\ FreeMeansUngated /\ SlotMeansQueue
  <2>1. EnabledUntilDisabled
    BY <1>a, <1>b, <1>c DEF EnabledUntilDisabled, QueueTypes
  <2>2. FreeMeansUngated /\ SlotMeansQueue
    BY <1>c DEF FreeMeansUngated, SlotMeansQueue
  <2> QED BY <2>1, <2>2
<1>7. ASSUME NEW t \in QueueTypes PROVE Total(t) = BaseCapacity(t)
  <2>1. HoldersIn(promise, t) = {}
    BY DEF HoldersIn
  <2>2. Cardinality(HoldersIn(promise, t)) = 0
    BY <2>1, FS_EmptySet
  <2>3. capacity[t] = BaseCapacity(t) /\ capacity[t] \in Int
    BY DEF BaseCapacity, QueueTypes
  <2> QED BY <1>3, <2>2, <2>3 DEF Total
<1> QED BY <1>1, <1>2, <1>4, <1>5, <1>6, <1>7, GateInvParts DEF QueueInv

\* Every step of the service.
LEMMA GateInvNext == GateInv /\ [GateNext]_gateVars => GateInv'
<1> SUFFICES ASSUME GateInv, [GateNext]_gateVars PROVE GateInv'
  OBVIOUS
<1>1. /\ isEnabled \in BOOLEAN /\ evalQueueResolved \in BOOLEAN
      /\ disabled \in BOOLEAN /\ limits \in [QueueTypes -> Int]
      /\ QueueInv /\ LimitsFinal /\ EnabledUntilDisabled /\ FreeMeansUngated
      /\ SlotMeansQueue
      /\ ~disabled => \A t \in QueueTypes : Total(t) = BaseCapacity(t)
  BY GateInvParts
<1> DEFINE Asks(d) == promise[d] \in {"granted", "waiting"}
\* A step of Throttle, Release or Evict, once its effect on the queue is known.
<1>2. ASSUME NEW c \in Callers, EnsureEvalQueueResolved(c), disabled' = disabled,
             QueueInv',
             ~disabled => \A t \in QueueTypes : Total(t)' = Total(t),
             \A d \in Callers : promise'[d] = "free" =>
               promise[d] = "free" \/ (d = c /\ ~Gated(c)'),
             \A d \in Callers : Asks(d)' => Asks(d) \/ (d = c /\ Gated(c)')
      PROVE  GateInv'
  <2>1. /\ isEnabled' \in BOOLEAN /\ evalQueueResolved' \in BOOLEAN
        /\ limits' \in [QueueTypes -> Int] /\ LimitsFinal'
        /\ \A t \in QueueTypes : limits[t] > 0 => limits'[t] = limits[t]
        /\ ~disabled => \A t \in QueueTypes : limits'[t] > 0 => isEnabled'
        /\ ModeOf[c] = "evaluation" => evalQueueResolved'
        /\ ~disabled => \A d \in Callers : promise[d] = "free" =>
             /\ QueueOf(d) \in QueueTypes => limits'[QueueOf(d)] <= 0
             /\ QueueOf(d) = "evaluation" => evalQueueResolved'
    BY <1>2, EnsureFacts
  <2>2. EnabledUntilDisabled'
    BY <1>2, <2>1 DEF EnabledUntilDisabled
  <2>3. FreeMeansUngated'
    <3> SUFFICES ASSUME ~disabled, NEW d \in Callers, promise'[d] = "free"
                 PROVE  /\ QueueOf(d) \in QueueTypes => limits'[QueueOf(d)] <= 0
                        /\ QueueOf(d) = "evaluation" => evalQueueResolved'
      BY <1>2 DEF FreeMeansUngated
    <3>1. CASE promise[d] = "free"
      BY <2>1, <3>1
    <3>2. CASE d = c /\ ~Gated(c)'
      <4>1. QueueOf(c) = "evaluation" => evalQueueResolved'
        BY <2>1 DEF QueueOf, GetQueue
      <4>2. ASSUME QueueOf(c) \in QueueTypes PROVE limits'[QueueOf(c)] <= 0
        <5>1. ~(limits'[QueueOf(c)] > 0)
          BY <2>1, <3>2, <4>2 DEF Gated
        <5>2. limits'[QueueOf(c)] \in Int
          BY <2>1, <4>2
        <5> QED BY <5>1, <5>2
      <4> QED BY <3>2, <4>1, <4>2
    <3> QED BY <1>2, <3>1, <3>2
  <2>4. SlotMeansQueue'
    <3> SUFFICES ASSUME NEW d \in Callers, Asks(d)'
                 PROVE  QueueOf(d) \in QueueTypes /\ limits'[QueueOf(d)] > 0
      BY DEF SlotMeansQueue
    <3>1. CASE Asks(d)
      BY <1>1, <2>1, <3>1 DEF SlotMeansQueue
    <3>2. CASE d = c /\ Gated(c)'
      BY <3>2 DEF Gated
    <3> QED BY <1>2, <3>1, <3>2
  <2>5. ~disabled' => \A t \in QueueTypes : Total(t)' = BaseCapacity(t)
    BY <1>1, <1>2
  <2>6. disabled' \in BOOLEAN
    BY <1>1, <1>2
  <2>7. GateTypeOK' /\ QueueHoldsWaiters' /\ BacklogCovered'
    BY <1>2, <2>1, <2>6 DEF QueueInv, QueueTypeOK, GateTypeOK
  <2>8. SlotsAccounted'
    BY <2>5 DEF SlotsAccounted, Total, Holders, HoldersIn, BaseCapacity
  <2> QED BY <2>1, <2>2, <2>3, <2>4, <2>7, <2>8 DEF GateInv
<1>3. ASSUME NEW c \in Callers, Throttle(c) PROVE GateInv'
  <2>1. EnsureEvalQueueResolved(c) /\ disabled' = disabled /\ promise[c] = "idle"
    BY <1>3 DEF Throttle
  <2>2. CASE Gated(c)'
    <3>1. Enqueue(QueueOf(c), c) /\ QueueOf(c) \in QueueTypes
      BY <1>3, <2>2 DEF Throttle, Gated
    <3>2. /\ QueueInv'
          /\ \A u \in QueueTypes : Total(u)' = Total(u)
          /\ \A d \in Callers : promise'[d] = "free" => promise[d] = "free"
          /\ \A d \in Callers : Asks(d)' => Asks(d) \/ d = c
      BY <1>1, <2>1, <3>1, EnqueueFacts
    <3> QED BY <1>2, <2>1, <2>2, <3>2
  <2>3. CASE ~Gated(c)'
    <3>1. promise' = [promise EXCEPT ![c] = "free"] /\ UNCHANGED <<capacity, queue>>
      BY <1>3, <2>3 DEF Throttle
    <3>2. QueueInv'
      BY <1>1, <2>1, <3>1, ElementOfSeq
         DEF QueueInv, QueueTypeOK, QueueHoldsWaiters, WaitersIn, BacklogCovered,
             PromiseStates
    <3>3. \A t \in QueueTypes : Total(t)' = Total(t)
      <4>1. "free" \in PromiseStates \ {"granted"}
        BY DEF PromiseStates
      <4>2. \A t \in QueueTypes :
              Cardinality(HoldersIn(promise', t)) = Cardinality(HoldersIn(promise, t))
        BY <1>1, <2>1, <3>1, <4>1, LeaveRemovesHolder DEF QueueInv, QueueTypeOK
      <4> QED BY <3>1, <4>2 DEF Total
    <3>4. \A d \in Callers :
            /\ promise'[d] = "free" => promise[d] = "free" \/ (d = c /\ ~Gated(c)')
            /\ Asks(d)' => Asks(d)
      BY <1>1, <2>3, <3>1 DEF QueueInv, QueueTypeOK
    <3> QED BY <1>2, <2>1, <3>2, <3>3, <3>4
  <2> QED BY <2>2, <2>3
<1>4. ASSUME NEW c \in Callers, Release(c) PROVE GateInv'
  <2>1. /\ EnsureEvalQueueResolved(c) /\ disabled' = disabled
        /\ promise[c] \in {"granted", "free"}
    BY <1>4 DEF Release
  <2>2. CASE Gated(c)'
    <3>1. /\ Dequeue(QueueOf(c), [promise EXCEPT ![c] = "done"])
          /\ QueueOf(c) \in QueueTypes /\ limits'[QueueOf(c)] > 0
      BY <1>4, <2>2 DEF Release, Gated
    <3>2. ~disabled => promise[c] = "granted"
      <4> SUFFICES ASSUME ~disabled, promise[c] = "free" PROVE FALSE
        BY <2>1
      <4>1. limits'[QueueOf(c)] <= 0 /\ limits'[QueueOf(c)] \in Int
        BY <2>1, <3>1, EnsureFacts
      <4> QED BY <3>1, <4>1
    <3>3. /\ QueueInv'
          /\ promise[c] = "granted" => \A u \in QueueTypes : Total(u)' = Total(u)
          /\ \A d \in Callers : promise'[d] = "free" => promise[d] = "free"
          /\ \A d \in Callers : Asks(d)' => Asks(d)
      BY <1>1, <2>1, <3>1, DequeueFacts
    <3> QED BY <1>2, <2>1, <3>2, <3>3
  <2>3. CASE ~Gated(c)'
    <3>1. promise' = [promise EXCEPT ![c] = "done"] /\ UNCHANGED <<capacity, queue>>
      BY <1>4, <2>3 DEF Release
    <3>2. QueueInv'
      BY <1>1, <2>1, <3>1, ElementOfSeq
         DEF QueueInv, QueueTypeOK, QueueHoldsWaiters, WaitersIn, BacklogCovered,
             PromiseStates
    <3>3. ASSUME ~disabled PROVE \A t \in QueueTypes : Total(t)' = Total(t)
      <4>1. promise[c] # "granted"
        <5> SUFFICES ASSUME promise[c] = "granted" PROVE FALSE
          OBVIOUS
        <5>1. QueueOf(c) \in QueueTypes /\ limits[QueueOf(c)] > 0
          BY <1>1 DEF SlotMeansQueue
        <5>2. limits'[QueueOf(c)] > 0 /\ isEnabled'
          BY <2>1, <3>3, <5>1, EnsureFacts
        <5> QED BY <2>3, <5>1, <5>2 DEF Gated
      <4>2. "done" \in PromiseStates \ {"granted"}
        BY DEF PromiseStates
      <4>3. \A t \in QueueTypes :
              Cardinality(HoldersIn(promise', t)) = Cardinality(HoldersIn(promise, t))
        BY <1>1, <3>1, <4>1, <4>2, LeaveRemovesHolder DEF QueueInv, QueueTypeOK
      <4> QED BY <3>1, <4>3 DEF Total
    <3>4. \A d \in Callers :
            (promise'[d] = "free" => promise[d] = "free") /\ (Asks(d)' => Asks(d))
      BY <1>1, <3>1 DEF QueueInv, QueueTypeOK
    <3> QED BY <1>2, <2>1, <3>2, <3>3, <3>4
  <2> QED BY <2>2, <2>3
<1>5. ASSUME NEW c \in Callers, Evict(c) PROVE GateInv'
  <2>1. EnsureEvalQueueResolved(c) /\ disabled' = disabled
    BY <1>5 DEF Evict
  <2>2. CASE Gated(c)' /\ Contains(queue[QueueOf(c)], c)
    <3>1. PICK x \in DOMAIN queue[QueueOf(c)] : RemoveEntry(QueueOf(c), x)
      BY <1>5, <2>2 DEF Evict
    <3>2. QueueOf(c) \in QueueTypes
      BY <2>2 DEF Gated
    <3>3. /\ QueueInv'
          /\ \A u \in QueueTypes : Total(u)' = Total(u)
          /\ \A d \in Callers : promise'[d] = "free" => promise[d] = "free"
          /\ \A d \in Callers : Asks(d)' => Asks(d)
      BY <1>1, <3>1, <3>2, RemoveFacts
    <3> QED BY <1>2, <2>1, <3>3
  <2>3. CASE ~(Gated(c)' /\ Contains(queue[QueueOf(c)], c))
    <3>1. UNCHANGED <<capacity, queue, promise>>
      BY <1>5, <2>3 DEF Evict
    <3>2. QueueInv' /\ \A t \in QueueTypes : Total(t)' = Total(t)
      BY <1>1, <3>1 DEF QueueInv, QueueTypeOK, QueueHoldsWaiters, WaitersIn,
                        BacklogCovered, Total, HoldersIn
    <3>3. \A d \in Callers :
            (promise'[d] = "free" => promise[d] = "free") /\ (Asks(d)' => Asks(d))
      BY <3>1
    <3> QED BY <1>2, <2>1, <3>2, <3>3
  <2> QED BY <2>2, <2>3
<1>6. CASE Disable
  BY <1>6 DEF Disable, GateInv, GateTypeOK, LimitsFinal, EnabledUntilDisabled,
              FreeMeansUngated, SlotMeansQueue, QueueHoldsWaiters, WaitersIn,
              BacklogCovered, SlotsAccounted, BaseCapacity
<1>7. CASE UNCHANGED gateVars
  BY <1>7 DEF gateVars, GateInv, GateTypeOK, LimitsFinal, EnabledUntilDisabled,
              FreeMeansUngated, SlotMeansQueue, QueueHoldsWaiters, WaitersIn,
              BacklogCovered, SlotsAccounted, BaseCapacity, Holders
<1> QED BY <1>3, <1>4, <1>5, <1>6, <1>7 DEF GateNext

-----------------------------------------------------------------------------
(* The theorems *)

\* GateInv holds throughout, for any callers, modes and limits.
THEOREM GateInvariant == GateSpec => []GateInv
BY GateInvInit, GateInvNext, PTL DEF GateSpec

\* The variables of the gate keep their types.
THEOREM GateTypeCorrect == GateSpec => []GateTypeOK
<1>1. GateInv => GateTypeOK
  BY DEF GateInv
<1> QED BY <1>1, GateInvariant, PTL

\* No slot is lost or made up by enqueue, dequeue, remove and the lazy
\* evaluation queue, until shutdown calls disable().
THEOREM SlotsAreConserved == GateSpec => []CapacityConserved
<1>1. GateInv => CapacityConserved
  BY DEF GateInv, SlotsAccounted, CapacityConserved, LimitsFinal
<1> QED BY <1>1, GateInvariant, PTL

\* With a queue at hand the negative capacity is made up of waiters, so the
\* holders are as many as the limit.
LEMMA QueueNeedsHolders == ASSUME GateInv PROVE NoIdleCapacity
<1> SUFFICES ASSUME ~disabled, NEW t \in QueueTypes, queue[t] # <<>>
             PROVE  Cardinality(Holders(t)) >= limits[t]
  BY DEF NoIdleCapacity
<1> DEFINE h == Cardinality(Holders(t))
           n == Len(queue[t])
           k == capacity[t]
           l == limits[t]
           b == BaseCapacity(t)
<1>1. n \in Nat /\ n > 0 /\ k \in Int /\ l \in Int
  BY TailFacts DEF GateInv, GateTypeOK
<1>2. h \in Nat
  BY HoldersFinite DEF Holders, HoldersIn
<1>3. n <= (IF k < 0 THEN -k ELSE 0)
  BY DEF GateInv, BacklogCovered
<1>4. k + h + n = b
  BY DEF GateInv, SlotsAccounted
<1>5. l > 0 => l = b
  BY DEF GateInv, LimitsFinal
<1> HIDE DEF h, n, k, l, b
<1>6. h >= l
  BY <1>1, <1>2, <1>3, <1>4, <1>5
<1> QED BY <1>6 DEF h, l

\* Nobody queues while fewer callers than the limit hold a slot.
THEOREM NoLostWakeup == GateSpec => []NoIdleCapacity
BY QueueNeedsHolders, GateInvariant, PTL

-----------------------------------------------------------------------------
(* Over-admission *)

\* A step that grants no caller a slot does not add a holder.
LEMMA NoGrantNoHolder ==
    ASSUME NEW t, \A c \in Callers : promise'[c] = "granted" => promise[c] = "granted"
    PROVE  Cardinality(Holders(t)') <= Cardinality(Holders(t))
<1>1. HoldersIn(promise', t) \subseteq HoldersIn(promise, t)
  BY DEF HoldersIn
<1>2. Cardinality(HoldersIn(promise', t)) <= Cardinality(HoldersIn(promise, t))
  BY <1>1, HoldersFinite, FS_Subset
<1> QED BY <1>2 DEF Holders, HoldersIn

\* Fewer holders hold no more slots.
LEMMA FewerHolders ==
    ASSUME NEW t, Holders(t)' \subseteq Holders(t)
    PROVE  Cardinality(Holders(t)') <= Cardinality(Holders(t))
<1>1. PICK J : J = Holders(t)'
  OBVIOUS
<1>2. IsFiniteSet(Holders(t))
  BY HoldersFinite DEF Holders, HoldersIn
<1>3. Cardinality(J) <= Cardinality(Holders(t))
  BY <1>1, <1>2, FS_Subset
<1> QED BY <1>1, <1>3

\* A caller that takes the place of another does not add a holder.
LEMMA ReplacedHolder ==
    ASSUME NEW t, NEW c \in Callers, NEW d, c \in Holders(t),
           Holders(t)' \subseteq (Holders(t) \ {c}) \cup {d}
    PROVE  Cardinality(Holders(t)') <= Cardinality(Holders(t))
<1> DEFINE H == Holders(t)
           K == (H \ {c}) \cup {d}
<1>1. IsFiniteSet(H) /\ Cardinality(H) \in Nat
  BY HoldersFinite DEF Holders, HoldersIn
<1>2. IsFiniteSet(H \ {c}) /\ Cardinality(H \ {c}) = Cardinality(H) - 1
  BY <1>1, FS_RemoveElement
<1>3. IsFiniteSet(K) /\ Cardinality(K) \in Nat /\ Cardinality(K) <= Cardinality(H \ {c}) + 1
  <2>1. PICK S : S = H \ {c}
    OBVIOUS
  <2>2. IsFiniteSet(S) /\ Cardinality(S) \in Nat
    BY <1>2, <2>1, FS_CardinalityType
  <2>3. /\ IsFiniteSet(S \cup {d})
        /\ Cardinality(S \cup {d}) = IF d \in S THEN Cardinality(S) ELSE Cardinality(S) + 1
    BY <2>2, FS_AddElement
  <2>4. Cardinality(S \cup {d}) \in Nat /\ Cardinality(S \cup {d}) <= Cardinality(S) + 1
    BY <2>2, <2>3
  <2> QED BY <2>1, <2>3, <2>4
<1>4. PICK J : J = Holders(t)'
  OBVIOUS
<1>5. J \subseteq K
  BY <1>4
<1> HIDE DEF H, K
<1>6. Cardinality(J) <= Cardinality(K) /\ Cardinality(J) \in Nat
  BY <1>3, <1>5, FS_Subset, FS_CardinalityType
<1>7. Cardinality(J) <= Cardinality(H)
  BY <1>1, <1>2, <1>3, <1>6
<1> QED BY <1>4, <1>7 DEF H

\* remove() leaves the entry it splices out evicted.
LEMMA RemoveEvicts ==
    ASSUME GateInv, NEW t \in QueueTypes, NEW i \in DOMAIN queue[t], RemoveEntry(t, i)
    PROVE  promise'[queue[t][i]] = "evicted"
<1> DEFINE c == queue[t][i]
           q == RemoveAt(queue[t], i)
           pr == [promise EXCEPT ![c] = "evicted"]
<1>1. queue[t] \in Seq(Callers) /\ i \in 1 .. Len(queue[t]) /\ promise \in [Callers -> PromiseStates]
  BY DEF GateInv, GateTypeOK
<1>2. c \in Callers /\ pr[c] = "evicted" /\ pr \in [Callers -> PromiseStates]
  BY <1>1 DEF PromiseStates
<1>3. /\ q \in Seq(Callers) /\ Len(q) = Len(queue[t]) - 1
      /\ \A j \in 1 .. (Len(queue[t]) - 1) : q[j] = queue[t][IF j < i THEN j ELSE j + 1]
  BY <1>1, RemoveAtFacts
<1>4. \A j, k \in 1 .. Len(queue[t]) : queue[t][j] = queue[t][k] => j = k
  BY DEF GateInv, QueueHoldsWaiters, WaitersIn
<1>5. promise' = IF q = <<>> THEN pr ELSE [pr EXCEPT ![Head(q)] = "granted"]
  BY DEF RemoveEntry, ResolveNext
<1> HIDE DEF q, pr
<1>6. CASE q = <<>>
  BY <1>2, <1>5, <1>6
<1>7. CASE q # <<>>
  <2>1. Head(q) = q[1] /\ Len(q) >= 1
    BY <1>3, <1>7, TailFacts
  <2>2. q[1] = queue[t][IF 1 < i THEN 1 ELSE 2]
    BY <1>1, <1>3, <2>1
  <2>3. q[1] # c
    BY <1>1, <1>3, <1>4, <2>1, <2>2
  <2> QED BY <1>2, <1>5, <1>7, <2>1, <2>3
<1> QED BY <1>6, <1>7

\* enqueue() admits while there is capacity, dequeue() hands on the slot it was
\* given, and only remove() hands on a slot that nobody held.
LEMMA OverAdmission ==
    ASSUME GateInv, [GateNext]_gateVars, NEW t \in QueueTypes,
           limits'[t] > 0, ~disabled',
           Cardinality(Holders(t)') > limits'[t],
           Cardinality(Holders(t)') > Cardinality(Holders(t))
    PROVE  \E c \in Callers : promise[c] = "waiting" /\ promise'[c] = "evicted"
<1>a. Cardinality(Holders(t)) \in Nat /\ Cardinality(Holders(t)') \in Nat
  BY HoldersFinite DEF Holders, HoldersIn
<1>b. promise \in [Callers -> PromiseStates] /\ queue \in [QueueTypes -> Seq(Callers)]
  BY DEF GateInv, GateTypeOK
<1>c. Cardinality(Holders(t)') <= Cardinality(Holders(t)) => FALSE
  BY <1>a
<1>1. ASSUME NEW c \in Callers, Throttle(c) PROVE FALSE
  <2>1. CASE ~Gated(c)'
    <3>1. \A d \in Callers : promise'[d] = "granted" => promise[d] = "granted"
      BY <1>1, <1>b, <2>1 DEF Throttle
    <3> QED BY <1>c, <3>1, NoGrantNoHolder
  <2>2. CASE Gated(c)'
    <3> DEFINE u == QueueOf(c)
    <3>1. u \in QueueTypes /\ Enqueue(u, c)
      BY <1>1, <2>2 DEF Throttle, Gated
    <3>2. CASE capacity[u] - 1 < 0 \/ u # t
      <4>1. CASE capacity[u] - 1 < 0
        <5>1. \A d \in Callers : promise'[d] = "granted" => promise[d] = "granted"
          BY <1>b, <3>1, <4>1 DEF Enqueue
        <5> QED BY <1>c, <5>1, NoGrantNoHolder
      <4>2. CASE u # t
        <5>1. Holders(t)' \subseteq Holders(t)
          BY <1>b, <3>1, <4>2 DEF Enqueue, Holders
        <5>2. Cardinality(Holders(t)') <= Cardinality(Holders(t))
          BY <5>1, FewerHolders
        <5> QED BY <1>c, <5>2
      <4> QED BY <3>2, <4>1, <4>2
    <3>3. CASE ~(capacity[u] - 1 < 0) /\ u = t
      <4>1. GateInv'
        BY GateInvNext
      <4>2. capacity'[t] + Cardinality(Holders(t)') + Len(queue'[t]) = limits'[t]
        <5>1. (SlotsAccounted /\ LimitsFinal)'
          BY <4>1 DEF GateInv
        <5> QED BY <5>1 DEF SlotsAccounted, LimitsFinal, BaseCapacity
      <4>3. Len(queue'[t]) \in Nat /\ limits'[t] \in Int
        BY <4>1 DEF GateInv, GateTypeOK
      <4>4. capacity'[t] \in Int /\ capacity'[t] >= 0
        BY <3>1, <3>3 DEF Enqueue, GateInv, GateTypeOK
      <4> QED BY <1>a, <4>2, <4>3, <4>4
    <3> QED BY <3>2, <3>3
  <2> QED BY <2>1, <2>2
<1>2. ASSUME NEW c \in Callers, Release(c) PROVE FALSE
  <2> DEFINE u == QueueOf(c)
             pr == [promise EXCEPT ![c] = "done"]
  <2>1. CASE ~Gated(c)'
    <3>1. \A d \in Callers : promise'[d] = "granted" => promise[d] = "granted"
      BY <1>2, <1>b, <2>1 DEF Release
    <3> QED BY <1>c, <3>1, NoGrantNoHolder
  <2>2. CASE Gated(c)'
    <3>1. u \in QueueTypes /\ limits'[u] > 0 /\ Dequeue(u, pr) /\ promise[c] \in {"granted", "free"}
      BY <1>2, <2>2 DEF Release, Gated
    <3>2. promise[c] = "granted"
      <4>1. SUFFICES ASSUME promise[c] = "free" PROVE FALSE
        BY <3>1
      <4>2. ~disabled /\ EnsureEvalQueueResolved(c)
        BY <1>2 DEF Release
      <4>3. limits'[u] <= 0 /\ limits' \in [QueueTypes -> Int]
        BY <3>1, <4>1, <4>2, EnsureFacts
      <4> QED BY <3>1, <4>3
    <3>3. promise' = IF queue[u] = <<>> THEN pr ELSE [pr EXCEPT ![Head(queue[u])] = "granted"]
      BY <3>1 DEF Dequeue, ResolveNext
    <3>4. CASE queue[u] = <<>>
      <4>1. \A d \in Callers : promise'[d] = "granted" => promise[d] = "granted"
        BY <1>b, <3>3, <3>4
      <4> QED BY <1>c, <4>1, NoGrantNoHolder
    <3>5. CASE queue[u] # <<>>
      <4> DEFINE w == Head(queue[u])
      <4>1. w \in Callers /\ w = queue[u][1] /\ 1 \in 1 .. Len(queue[u])
        BY <1>b, <3>1, <3>5, TailFacts
      <4>2. QueueOf(w) = u
        BY <3>1, <4>1 DEF GateInv, QueueHoldsWaiters, WaitersIn
      <4> HIDE DEF w
      <4>3. promise' = [[promise EXCEPT ![c] = "done"] EXCEPT ![w] = "granted"]
        BY <3>3, <3>5 DEF w
      <4>4. CASE u = t
        <5>1. c \in Holders(t)
          BY <3>2, <4>4 DEF Holders
        <5>2. Holders(t)' \subseteq (Holders(t) \ {c}) \cup {w}
          BY <1>b, <4>1, <4>3 DEF Holders
        <5> QED BY <1>c, <5>1, <5>2, ReplacedHolder
      <4>5. CASE u # t
        <5>1. Holders(t)' \subseteq Holders(t)
          BY <1>b, <4>1, <4>2, <4>3, <4>5 DEF Holders
        <5>2. Cardinality(Holders(t)') <= Cardinality(Holders(t))
          BY <5>1, FewerHolders
        <5> QED BY <1>c, <5>2
      <4> QED BY <4>4, <4>5
    <3> QED BY <3>4, <3>5
  <2> QED BY <2>1, <2>2
<1>3. ASSUME NEW c \in Callers, promise[c] = "waiting", Evict(c) PROVE promise'[c] = "evicted"
  <2>1. CASE Gated(c)' /\ Contains(queue[QueueOf(c)], c)
    <3>1. QueueOf(c) \in QueueTypes
      BY <2>1 DEF Gated
    <3>2. PICK i \in DOMAIN queue[QueueOf(c)] : queue[QueueOf(c)][i] = c /\ RemoveEntry(QueueOf(c), i)
      BY <1>3, <2>1 DEF Evict
    <3> QED BY <3>1, <3>2, RemoveEvicts
  <2>2. CASE ~(Gated(c)' /\ Contains(queue[QueueOf(c)], c))
    <3>1. promise' = promise
      BY <1>3, <2>2 DEF Evict
    <3> QED BY <1>c, <3>1, NoGrantNoHolder
  <2> QED BY <2>1, <2>2
<1>4. ASSUME promise' = promise PROVE FALSE
  BY <1>c, <1>4, NoGrantNoHolder
<1> QED BY <1>1, <1>2, <1>3, <1>4 DEF GateNext, Disable, gateVars

\* Beyond the limit the gate admits only through remove(), which raises the
\* capacity for an execution that held no slot.
THEOREM EvictionAloneOverAdmits == GateSpec => OnlyEvictionOverAdmits
<1>1. ASSUME GateInv, [GateNext]_gateVars
      PROVE  \A t \in QueueTypes :
               (/\ limits'[t] > 0 /\ ~disabled'
                /\ Cardinality(Holders(t)') > limits'[t]
                /\ Cardinality(Holders(t)') > Cardinality(Holders(t)))
               => \E c \in Callers : promise[c] = "waiting" /\ promise'[c] = "evicted"
  BY <1>1, OverAdmission
<1> QED BY <1>1, GateInvariant, PTL DEF GateSpec, OnlyEvictionOverAdmits
=============================================================================
