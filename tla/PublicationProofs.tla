------------------------- MODULE PublicationProofs -------------------------
(***************************************************************************)
(* For any mains, workflows, versions and numbers of requests, takeovers   *)
(* and faults: a main that has lost leadership is left without triggers;   *)
(* the published version follows the requests; and a single leader runs    *)
(* what is published.  The rows of the outbox are taken as a set wherever  *)
(* their order plays no part.                                              *)
(***************************************************************************)
EXTENDS Publication, FiniteSetTheorems, SequenceTheorems, TLAPS

-----------------------------------------------------------------------------
(* Sequences *)

\* A finite set in some order: each element once.
LEMMA SetToSeqIs ==
    ASSUME NEW S, IsFiniteSet(S)
    PROVE  /\ Cardinality(S) \in Nat
           /\ SetToSeq(S) \in [1 .. Cardinality(S) -> S]
           /\ \A i, j \in 1 .. Cardinality(S) : SetToSeq(S)[i] = SetToSeq(S)[j] => i = j
           /\ \A x \in S : \E i \in 1 .. Cardinality(S) : SetToSeq(S)[i] = x
<1> DEFINE n == Cardinality(S)
           f == SetToSeq(S)
<1>1. n \in Nat /\ ExistsBijection(1 .. n, S)
  BY FS_CardinalityType
<1>2. \E g \in [1 .. n -> S] : IsInjective(g)
  BY <1>1 DEF ExistsBijection, Bijection, Injection, Surjection
<1>3. f \in [1 .. n -> S] /\ IsInjective(f)
  BY <1>2 DEF SetToSeq
<1>4. IsFiniteSet(1 .. n) /\ Cardinality(1 .. n) = n
  BY <1>1, FS_Interval
<1> HIDE DEF f, n
<1>5. f \in Injection(1 .. n, S)
  BY <1>3 DEF Injection
<1>6. f \in Surjection(1 .. n, S)
  BY <1>4, <1>5, FS_Injection DEF n
<1> QED BY <1>1, <1>3, <1>6 DEF IsInjective, Surjection, f, n

\* An entry taken out of a sequence leaves the others, each in its place or one
\* place further.
LEMMA RemoveAtIs ==
    ASSUME NEW S, NEW s \in Seq(S), NEW k \in 1 .. Len(s)
    PROVE  LET t == RemoveAt(s, k) IN
           /\ t \in Seq(S) /\ Len(t) = Len(s) - 1
           /\ \A i \in 1 .. Len(t) : t[i] = IF i < k THEN s[i] ELSE s[i + 1]
<1> DEFINE a == SubSeq(s, 1, k - 1)
           b == SubSeq(s, k + 1, Len(s))
<1>1. Len(s) \in Nat /\ k \in Nat /\ 1 <= k /\ k <= Len(s)
  OBVIOUS
<1>2. a \in Seq(S) /\ Len(a) = k - 1 /\ \A i \in 1 .. k - 1 : a[i] = s[i]
  BY <1>1
<1>3. b \in Seq(S) /\ Len(b) = Len(s) - k /\ \A i \in 1 .. Len(s) - k : b[i] = s[k + i]
  BY <1>1
<1>4. RemoveAt(s, k) = a \o b
  BY DEF RemoveAt
<1> HIDE DEF a, b
<1>5. /\ a \o b \in Seq(S) /\ Len(a \o b) = Len(s) - 1
      /\ \A i \in 1 .. Len(s) - 1 : (a \o b)[i] = IF i < k THEN a[i] ELSE b[i - (k - 1)]
  <2>1. a \o b \in Seq(S) /\ Len(a \o b) = Len(a) + Len(b)
    BY <1>2, <1>3, ConcatProperties
  <2>2. \A i \in 1 .. Len(a) + Len(b) : (a \o b)[i] = IF i <= Len(a) THEN a[i] ELSE b[i - Len(a)]
    BY <1>2, <1>3, ConcatProperties
  <2>3. Len(a) + Len(b) = Len(s) - 1
    BY <1>1, <1>2, <1>3
  <2>4. \A i \in 1 .. Len(s) - 1 : i <= Len(a) <=> i < k
    BY <1>1, <1>2
  <2> QED BY <1>1, <1>2, <2>1, <2>2, <2>3, <2>4
<1>6. \A i \in 1 .. Len(s) - 1 : (a \o b)[i] = IF i < k THEN s[i] ELSE s[i + 1]
  <2> SUFFICES ASSUME NEW i \in 1 .. Len(s) - 1
               PROVE  (a \o b)[i] = IF i < k THEN s[i] ELSE s[i + 1]
    OBVIOUS
  <2>1. CASE i < k
    BY <1>1, <1>2, <1>5, <2>1
  <2>2. CASE ~(i < k)
    <3>1. i - (k - 1) \in 1 .. Len(s) - k /\ k + (i - (k - 1)) = i + 1
      BY <1>1, <2>2
    <3> QED BY <1>1, <1>3, <1>5, <2>2, <3>1
  <2> QED BY <2>1, <2>2
<1> QED BY <1>4, <1>5, <1>6

\* What a splice of the positions I, at most one, leaves of a sequence.
LEMMA TakenIs ==
    ASSUME NEW S, NEW s \in Seq(S), NEW I \in SUBSET DOMAIN s, \A i, j \in I : i = j
    PROVE  LET t == Taken(s, I) IN
           /\ t \in Seq(S)
           /\ \A i \in DOMAIN t : \E j \in DOMAIN s \ I : t[i] = s[j]
           /\ \A j \in DOMAIN s \ I : \E i \in DOMAIN t : t[i] = s[j]
           /\ \A i, j \in DOMAIN t : \E x, y \in DOMAIN s \ I :
                t[i] = s[x] /\ t[j] = s[y] /\ (x = y => i = j)
<1>1. Len(s) \in Nat /\ DOMAIN s = 1 .. Len(s)
  OBVIOUS
<1>2. CASE I = {}
  BY <1>2 DEF Taken
<1>3. CASE I # {}
  <2>1. PICK k \in I : I = {k} /\ Taken(s, I) = RemoveAt(s, k)
    BY <1>3 DEF Taken
  <2> DEFINE t == Taken(s, I)
             At(i) == IF i < k THEN i ELSE i + 1
  <2>2. /\ t \in Seq(S) /\ Len(t) = Len(s) - 1
        /\ \A i \in 1 .. Len(t) : t[i] = IF i < k THEN s[i] ELSE s[i + 1]
    <3>1. k \in 1 .. Len(s)
      BY <1>1
    <3>2. t = RemoveAt(s, k)
      BY <2>1
    <3> HIDE DEF t
    <3> QED BY <3>1, <3>2, RemoveAtIs
  <2>3. DOMAIN t = 1 .. Len(s) - 1
    BY <2>2
  <2> HIDE DEF t
  <2>4. \A i \in DOMAIN t : At(i) \in DOMAIN s \ I /\ t[i] = s[At(i)]
    BY <1>1, <2>1, <2>2, <2>3
  <2>5. \A i, j \in DOMAIN t : At(i) = At(j) => i = j
    BY <2>3, <2>1, <1>1
  <2>6. ASSUME NEW j \in DOMAIN s \ I PROVE \E i \in DOMAIN t : At(i) = j
    <3>1. CASE j < k
      <4>1. j \in DOMAIN t /\ At(j) = j
        BY <1>1, <2>1, <2>3, <3>1
      <4> QED BY <4>1
    <3>2. CASE ~(j < k)
      <4>1. j - 1 \in DOMAIN t /\ At(j - 1) = j
        BY <1>1, <2>1, <2>3, <3>2
      <4> QED BY <4>1
    <3> QED BY <3>1, <3>2
  <2> HIDE DEF At
  <2>7. \A j \in DOMAIN s \ I : \E i \in DOMAIN t : t[i] = s[j]
    BY <2>4, <2>6
  <2>8. \A i, j \in DOMAIN t : \E x, y \in DOMAIN s \ I :
          t[i] = s[x] /\ t[j] = s[y] /\ (x = y => i = j)
    BY <2>4, <2>5
  <2> QED BY <2>2, <2>4, <2>7, <2>8 DEF t
<1> QED BY <1>2, <1>3

-----------------------------------------------------------------------------
(* The outbox *)

Distinct(s) == \A i, j \in DOMAIN s : s[i].id = s[j].id => i = j

\* What FollowerInv says of the outbox.
Table(s) == s \in Seq(Rows) /\ Distinct(s)

\* The rows of a table.
LEMMA TableRows ==
    ASSUME NEW s, Table(s)
    PROVE  /\ DOMAIN s = 1 .. Len(s) /\ Len(s) \in Nat /\ Range(s) \subseteq Rows
           /\ \A i \in DOMAIN s : s[i] \in Rows /\ s[i] \in Range(s)
           /\ \A r \in Range(s) : \E i \in DOMAIN s : s[i] = r
           /\ \A r, t \in Range(s) : r.id = t.id => r = t
           /\ \A r \in Rows : /\ r.id \in Ids /\ r.workflow \in Workflows /\ r.version \in Versions
                              /\ r.status \in {"pending", "in_progress"}
<1>1. s \in Seq(Rows) /\ DOMAIN s = 1 .. Len(s) /\ Len(s) \in Nat
  BY DEF Table
<1>2. \A i \in DOMAIN s : s[i] \in Rows
  BY <1>1
<1>3. Range(s) = {s[i] : i \in DOMAIN s}
  BY DEF Range
<1>4. \A r \in Rows : /\ r.id \in Ids /\ r.workflow \in Workflows /\ r.version \in Versions
                      /\ r.status \in {"pending", "in_progress"}
  BY DEF Rows
<1> QED BY <1>1, <1>2, <1>3, <1>4 DEF Table, Distinct

\* A position of a status is a row of that status.
LEMMA PositionsAre ==
    ASSUME Table(outbox), NEW w, NEW s
    PROVE  Positions(w, s) # {} <=> \E r \in Range(outbox) : r.workflow = w /\ r.status = s
BY TableRows DEF Positions

\* markCompleted(), or a return that a newer request supersedes, deletes the row.
LEMMA EndedIs ==
    ASSUME Table(outbox), NEW id
    PROVE  LET t == Taken(outbox, InProgress(id)) IN
           /\ Table(t)
           /\ Range(t) = {x \in Range(outbox) : ~(x.id = id /\ x.status = "in_progress")}
<1> DEFINE I == InProgress(id)
           t == Taken(outbox, I)
<1>1. I \in SUBSET DOMAIN outbox /\ \A i, j \in I : i = j
  BY DEF InProgress, Table, Distinct
<1>2. /\ t \in Seq(Rows)
      /\ \A i \in DOMAIN t : \E j \in DOMAIN outbox \ I : t[i] = outbox[j]
      /\ \A j \in DOMAIN outbox \ I : \E i \in DOMAIN t : t[i] = outbox[j]
      /\ \A i, j \in DOMAIN t : \E x, y \in DOMAIN outbox \ I :
           t[i] = outbox[x] /\ t[j] = outbox[y] /\ (x = y => i = j)
  <2> HIDE DEF I
  <2>1. outbox \in Seq(Rows)
    BY DEF Table
  <2> QED BY <1>1, <2>1, TakenIs
<1>3. \A j \in DOMAIN outbox : j \in I <=> outbox[j].id = id /\ outbox[j].status = "in_progress"
  BY DEF InProgress
<1> HIDE DEF I, t
<1>4. Distinct(t)
  <2> SUFFICES ASSUME NEW i \in DOMAIN t, NEW j \in DOMAIN t, t[i].id = t[j].id PROVE i = j
    BY DEF Distinct
  <2>1. PICK x \in DOMAIN outbox, y \in DOMAIN outbox :
          t[i] = outbox[x] /\ t[j] = outbox[y] /\ (x = y => i = j)
    BY <1>2
  <2> QED BY <2>1 DEF Table, Distinct
<1>5. Range(t) = {x \in Range(outbox) : ~(x.id = id /\ x.status = "in_progress")}
  <2>1. ASSUME NEW x \in Range(t)
        PROVE  x \in Range(outbox) /\ ~(x.id = id /\ x.status = "in_progress")
    <3>1. PICK i \in DOMAIN t : t[i] = x
      BY DEF Range
    <3>2. PICK j \in DOMAIN outbox \ I : t[i] = outbox[j]
      BY <1>2
    <3> QED BY <1>3, <3>1, <3>2 DEF Range
  <2>2. ASSUME NEW x \in Range(outbox), ~(x.id = id /\ x.status = "in_progress")
        PROVE  x \in Range(t)
    <3>1. PICK j \in DOMAIN outbox : outbox[j] = x
      BY DEF Range
    <3>2. j \in DOMAIN outbox \ I
      BY <1>3, <2>2, <3>1
    <3>3. PICK i \in DOMAIN t : t[i] = outbox[j]
      BY <1>2, <3>2
    <3> QED BY <3>1, <3>3 DEF Range
  <2> QED BY <2>1, <2>2
<1> QED BY <1>2, <1>4, <1>5 DEF Table, t, I

\* Rows that change in place and keep their ids keep the table.
LEMMA MappedIs ==
    ASSUME Table(outbox), NEW F \in [Rows -> Rows], \A x \in Rows : F[x].id = x.id
    PROVE  LET t == [i \in DOMAIN outbox |-> F[outbox[i]]] IN
           Table(t) /\ Range(t) = {F[x] : x \in Range(outbox)}
<1> DEFINE t == [i \in DOMAIN outbox |-> F[outbox[i]]]
<1>1. /\ DOMAIN outbox = 1 .. Len(outbox) /\ Len(outbox) \in Nat
      /\ \A i \in DOMAIN outbox : outbox[i] \in Rows /\ outbox[i] \in Range(outbox)
  BY TableRows
<1>2. t \in Seq(Rows) /\ DOMAIN t = DOMAIN outbox
  <2>1. t \in [1 .. Len(outbox) -> Rows]
    BY <1>1
  <2> QED BY <1>1, <2>1
<1>3. \A i \in DOMAIN outbox : t[i] = F[outbox[i]]
  OBVIOUS
<1> HIDE DEF t
<1>4. Range(t) = {F[x] : x \in Range(outbox)}
  BY <1>2, <1>3 DEF Range
<1>5. Distinct(t)
  BY <1>1, <1>2, <1>3 DEF Distinct, Table
<1> QED BY <1>2, <1>4, <1>5 DEF Table, t

\* What returnToPending() makes of a row, by the id it is given.
Back(x, id) == IF x.id = id /\ x.status = "in_progress" THEN [x EXCEPT !.status = "pending"] ELSE x

\* returnToPending().
LEMMA ReturnedIs ==
    ASSUME Table(outbox), NEW r
    PROVE  /\ Table(Returned(r))
           /\ \/ /\ \E x \in Range(outbox) : x.workflow = r.workflow /\ x.status = "pending"
                 /\ Range(Returned(r)) = {x \in Range(outbox) : ~(x.id = r.id /\ x.status = "in_progress")}
              \/ /\ ~\E x \in Range(outbox) : x.workflow = r.workflow /\ x.status = "pending"
                 /\ Range(Returned(r)) = {Back(x, r.id) : x \in Range(outbox)}
<1>1. CASE Positions(r.workflow, "pending") # {}
  <2>1. Returned(r) = Taken(outbox, InProgress(r.id))
    BY <1>1 DEF Returned
  <2> QED BY <1>1, <2>1, EndedIs, PositionsAre
<1>2. CASE Positions(r.workflow, "pending") = {}
  <2> DEFINE F == [x \in Rows |-> Back(x, r.id)]
             t == [i \in DOMAIN outbox |-> F[outbox[i]]]
  <2>1. F \in [Rows -> Rows] /\ \A x \in Rows : F[x] = Back(x, r.id) /\ F[x].id = x.id
    BY DEF Back, Rows
  <2>2. Range(outbox) \subseteq Rows /\ \A i \in DOMAIN outbox : outbox[i] \in Rows
    BY TableRows
  <2>3. Returned(r) = [i \in DOMAIN outbox |-> Back(outbox[i], r.id)]
    BY <1>2 DEF Returned, InProgress, Back
  <2>4. t = Returned(r)
    BY <2>2, <2>3
  <2>5. Table(t) /\ Range(t) = {F[x] : x \in Range(outbox)}
    <3> HIDE DEF F
    <3> QED BY <2>1, MappedIs
  <2>6. {F[x] : x \in Range(outbox)} = {Back(x, r.id) : x \in Range(outbox)}
    BY <2>1, <2>2
  <2> HIDE DEF t, F
  <2> QED BY <1>2, <2>4, <2>5, <2>6, PositionsAre
<1> QED BY <1>1, <1>2

\* A claim marks one row.
LEMMA ClaimedIs ==
    ASSUME Table(outbox), NEW i \in DOMAIN outbox
    PROVE  LET t == [outbox EXCEPT ![i].status = "in_progress"]
               r == [outbox[i] EXCEPT !.status = "in_progress"]
           IN  /\ Table(t) /\ t[i] = r /\ r \in Rows
               /\ r.status = "in_progress" /\ r.workflow = outbox[i].workflow
               /\ r.version = outbox[i].version /\ r.id = outbox[i].id
               /\ Range(t) = (Range(outbox) \ {outbox[i]}) \cup {r}
<1> DEFINE r == [outbox[i] EXCEPT !.status = "in_progress"]
           t == [outbox EXCEPT ![i] = r]
<1>1. /\ DOMAIN outbox = 1 .. Len(outbox) /\ Len(outbox) \in Nat
      /\ \A j \in DOMAIN outbox : outbox[j] \in Rows
      /\ outbox \in Seq(Rows)
  BY TableRows DEF Table
<1>2. /\ r \in Rows /\ r.status = "in_progress" /\ r.workflow = outbox[i].workflow
      /\ r.version = outbox[i].version /\ r.id = outbox[i].id
  <2>1. outbox[i] \in Rows
    BY <1>1
  <2> QED BY <2>1 DEF Rows
<1> HIDE DEF r
<1>3. /\ t \in Seq(Rows) /\ DOMAIN t = DOMAIN outbox /\ t[i] = r
      /\ \A j \in DOMAIN outbox \ {i} : t[j] = outbox[j]
  BY <1>1, <1>2
<1> HIDE DEF t
<1>4. Distinct(t)
  BY <1>2, <1>3 DEF Distinct, Table
<1>5. \A j \in DOMAIN outbox \ {i} : outbox[j] # outbox[i]
  BY DEF Table, Distinct
<1>6. Range(t) = (Range(outbox) \ {outbox[i]}) \cup {r}
  BY <1>3, <1>5 DEF Range
<1> QED BY <1>2, <1>3, <1>4, <1>6 DEF Table, t, r

\* Two tables without an id in common make one.
LEMMA ConcatIs ==
    ASSUME NEW a, NEW b, Table(a), Table(b), \A x \in Range(a), y \in Range(b) : x.id # y.id
    PROVE  Table(a \o b) /\ Range(a \o b) = Range(a) \cup Range(b)
<1> DEFINE t == a \o b
<1>1. /\ DOMAIN a = 1 .. Len(a) /\ Len(a) \in Nat /\ \A i \in DOMAIN a : a[i] \in Range(a)
      /\ DOMAIN b = 1 .. Len(b) /\ Len(b) \in Nat /\ \A i \in DOMAIN b : b[i] \in Range(b)
      /\ a \in Seq(Rows) /\ b \in Seq(Rows)
  BY TableRows DEF Table
<1>2. /\ t \in Seq(Rows) /\ Len(t) = Len(a) + Len(b)
      /\ \A i \in 1 .. Len(a) + Len(b) : t[i] = IF i <= Len(a) THEN a[i] ELSE b[i - Len(a)]
  BY <1>1, ConcatProperties
<1>3. DOMAIN t = 1 .. Len(a) + Len(b)
  BY <1>2
<1> HIDE DEF t
<1>4. \A i \in DOMAIN t : \/ i \in DOMAIN a /\ t[i] = a[i]
                          \/ i - Len(a) \in DOMAIN b /\ t[i] = b[i - Len(a)]
  BY <1>1, <1>2, <1>3
<1>5. \A i \in DOMAIN a : i \in DOMAIN t /\ t[i] = a[i]
  BY <1>1, <1>2, <1>3
<1>6. \A i \in DOMAIN b : i + Len(a) \in DOMAIN t /\ t[i + Len(a)] = b[i]
  BY <1>1, <1>2, <1>3
<1>7. Range(t) = Range(a) \cup Range(b)
  BY <1>4, <1>5, <1>6 DEF Range
<1>8. Distinct(t)
  <2> SUFFICES ASSUME NEW i \in DOMAIN t, NEW j \in DOMAIN t, t[i].id = t[j].id PROVE i = j
    BY DEF Distinct
  <2>1. CASE i \in DOMAIN a /\ t[i] = a[i] /\ j \in DOMAIN a /\ t[j] = a[j]
    BY <2>1 DEF Table, Distinct
  <2>2. CASE i \in DOMAIN a /\ t[i] = a[i] /\ j - Len(a) \in DOMAIN b /\ t[j] = b[j - Len(a)]
    BY <1>1, <2>2
  <2>3. CASE j \in DOMAIN a /\ t[j] = a[j] /\ i - Len(a) \in DOMAIN b /\ t[i] = b[i - Len(a)]
    BY <1>1, <2>3
  <2>4. CASE /\ i - Len(a) \in DOMAIN b /\ t[i] = b[i - Len(a)]
             /\ j - Len(a) \in DOMAIN b /\ t[j] = b[j - Len(a)]
    <3>1. i - Len(a) = j - Len(a)
      BY <2>4 DEF Table, Distinct
    <3> QED BY <1>1, <1>3, <3>1
  <2> QED BY <1>4, <2>1, <2>2, <2>3, <2>4
<1> QED BY <1>2, <1>7, <1>8 DEF Table, t

\* The requests of an upsert: one for a workflow.
Requests(versions) ==
    /\ versions \subseteq [workflow : Workflows, version : Versions]
    /\ \A x, y \in versions : x.workflow = y.workflow => x = y
    /\ IsFiniteSet(versions) /\ EnoughIds(versions)

\* The rows an upsert inserts.
LEMMA InsertedIs ==
    ASSUME Table(outbox), NEW versions, Requests(versions)
    PROVE  /\ Table(Inserted(versions))
           /\ \A x \in Range(Inserted(versions)) :
                /\ x.status = "pending" /\ x.id \in FreeIds
                /\ [workflow |-> x.workflow, version |-> x.version] \in versions
                /\ Positions(x.workflow, "pending") = {}
           /\ \A v \in versions : Positions(v.workflow, "pending") = {} =>
                \E x \in Range(Inserted(versions)) : x.workflow = v.workflow
           /\ \A x, y \in Range(Inserted(versions)) : x.workflow = y.workflow => x = y
<1> DEFINE M == Missing(versions)
           ids == SetToSeq(FreeIds)
           rows == SetToSeq(M)
           nF == Cardinality(FreeIds)
           nM == Cardinality(M)
           t == Inserted(versions)
           Row(i) == [id |-> ids[i], workflow |-> rows[i].workflow,
                      version |-> rows[i].version, status |-> "pending"]
<1>1. IsFiniteSet(FreeIds) /\ IsFiniteSet(M) /\ nM <= nF /\ FreeIds \subseteq Ids
      /\ M \subseteq versions /\ \A x \in M : Positions(x.workflow, "pending") = {}
  <2>1. FreeIds \subseteq Ids /\ M \subseteq versions
    BY DEF FreeIds, Missing
  <2>2. IsFiniteSet(FreeIds) /\ IsFiniteSet(M)
    BY <2>1, PublicationAssumption, FS_Subset DEF Requests
  <2> QED BY <2>1, <2>2 DEF Requests, EnoughIds, Missing
<1>2. nF \in Nat /\ ids \in [1 .. nF -> FreeIds] /\ \A i, j \in 1 .. nF : ids[i] = ids[j] => i = j
  BY <1>1, SetToSeqIs
<1>3. /\ nM \in Nat /\ rows \in [1 .. nM -> M] /\ \A x \in M : \E i \in 1 .. nM : rows[i] = x
      /\ \A i, j \in 1 .. nM : rows[i] = rows[j] => i = j
  <2> HIDE DEF M
  <2> QED BY <1>1, SetToSeqIs
<1>4. t = [i \in 1 .. nM |-> Row(i)]
  <2>1. DOMAIN rows = 1 .. nM
    BY <1>3
  <2> QED BY <2>1 DEF Inserted
<1>7. \A v \in versions : Positions(v.workflow, "pending") = {} => v \in M
  BY DEF Missing
<1> HIDE DEF M, ids, rows, nF, nM, t
<1>5. ASSUME NEW i \in 1 .. nM
      PROVE  /\ i \in 1 .. nF /\ ids[i] \in FreeIds
             /\ rows[i] \in M /\ Row(i) \in Rows
             /\ Row(i).status = "pending" /\ Row(i).id = ids[i]
             /\ Row(i).workflow = rows[i].workflow /\ Row(i).version = rows[i].version
             /\ [workflow |-> rows[i].workflow, version |-> rows[i].version] = rows[i]
  <2>1. i \in 1 .. nF
    BY <1>1, <1>2, <1>3
  <2>2. ids[i] \in FreeIds /\ rows[i] \in M
    BY <1>2, <1>3, <2>1
  <2>3. rows[i] \in [workflow : Workflows, version : Versions] /\ ids[i] \in Ids
    BY <1>1, <2>2 DEF Requests
  <2> QED BY <2>1, <2>2, <2>3 DEF Rows
<1>6. t \in Seq(Rows) /\ DOMAIN t = 1 .. nM /\ \A i \in 1 .. nM : t[i] = Row(i)
  <2> HIDE DEF Row
  <2>1. t \in [1 .. nM -> Rows]
    BY <1>4, <1>5
  <2> QED BY <1>3, <1>4, <2>1
<1> HIDE DEF Row
<1>8. Distinct(t)
  <2>1. \A i \in 1 .. nM : i \in 1 .. nF /\ t[i].id = ids[i]
    BY <1>5, <1>6
  <2> QED BY <1>2, <1>6, <2>1 DEF Distinct
<1>9. \A x \in Range(t) : /\ x.status = "pending" /\ x.id \in FreeIds
                          /\ [workflow |-> x.workflow, version |-> x.version] \in versions
                          /\ Positions(x.workflow, "pending") = {}
  <2> SUFFICES ASSUME NEW i \in 1 .. nM
               PROVE  /\ t[i].status = "pending" /\ t[i].id \in FreeIds
                      /\ [workflow |-> t[i].workflow, version |-> t[i].version] \in versions
                      /\ Positions(t[i].workflow, "pending") = {}
    BY <1>6 DEF Range
  <2>1. /\ t[i].workflow = rows[i].workflow /\ t[i].version = rows[i].version /\ rows[i] \in M
        /\ [workflow |-> rows[i].workflow, version |-> rows[i].version] = rows[i]
    BY <1>5, <1>6
  <2> QED BY <1>1, <1>5, <1>6, <2>1
<1>10. \A v \in versions : Positions(v.workflow, "pending") = {} =>
         \E x \in Range(t) : x.workflow = v.workflow
  <2> SUFFICES ASSUME NEW v \in M PROVE \E x \in Range(t) : x.workflow = v.workflow
    BY <1>7
  <2>1. PICK i \in 1 .. nM : rows[i] = v
    BY <1>3
  <2>2. t[i] \in Range(t) /\ t[i].workflow = v.workflow
    BY <1>5, <1>6, <2>1 DEF Range
  <2> QED BY <2>2
<1>11. \A x, y \in Range(t) : x.workflow = y.workflow => x = y
  <2> SUFFICES ASSUME NEW i \in 1 .. nM, NEW j \in 1 .. nM, t[i].workflow = t[j].workflow
               PROVE  t[i] = t[j]
    BY <1>6 DEF Range
  <2>1. rows[i].workflow = rows[j].workflow /\ rows[i] \in versions /\ rows[j] \in versions
    BY <1>1, <1>5, <1>6
  <2>2. i = j
    BY <1>3, <2>1 DEF Requests
  <2> QED BY <2>2
<1> QED BY <1>6, <1>8, <1>9, <1>10, <1>11 DEF Table, t

\* What an upsert makes of a row.
Renewed(x, versions) ==
    LET new == {y.version : y \in {z \in versions : z.workflow = x.workflow}}
    IN  IF x.status = "pending" /\ new # {} THEN [x EXCEPT !.version = CHOOSE v \in new : TRUE] ELSE x

\* A pending row takes the version asked for; nothing else of a row changes.
LEMMA RenewedIs ==
    ASSUME NEW versions, Requests(versions), NEW x \in Rows
    PROVE  LET y == Renewed(x, versions) IN
           /\ y \in Rows /\ y.id = x.id /\ y.workflow = x.workflow /\ y.status = x.status
           /\ x.status = "in_progress" => y = x
           /\ \/ [workflow |-> x.workflow, version |-> y.version] \in versions
              \/ y = x /\ (x.status = "pending" => ~\E v \in versions : v.workflow = x.workflow)
<1> DEFINE S == {z \in versions : z.workflow = x.workflow}
           new == {y.version : y \in S}
           y == Renewed(x, versions)
<1>1. CASE x.status = "pending" /\ new # {}
  <2>1. PICK v \in S : y = [x EXCEPT !.version = v.version]
    <3>1. (CHOOSE v \in new : TRUE) \in new
      BY <1>1
    <3>2. y = [x EXCEPT !.version = CHOOSE v \in new : TRUE]
      BY <1>1 DEF Renewed
    <3> QED BY <3>1, <3>2
  <2>2. v \in versions /\ v \in [workflow : Workflows, version : Versions] /\ v.workflow = x.workflow
    BY DEF Requests
  <2>3. v = [workflow |-> x.workflow, version |-> v.version] /\ v.version \in Versions
    BY <2>2
  <2>4. /\ y \in Rows /\ y.id = x.id /\ y.workflow = x.workflow /\ y.status = x.status
        /\ y.version = v.version
    <3> HIDE DEF y
    <3> QED BY <2>1, <2>3 DEF Rows
  <2> HIDE DEF y
  <2> QED BY <1>1, <2>2, <2>3, <2>4 DEF y
<1>2. CASE ~(x.status = "pending" /\ new # {})
  <2>1. y = x
    BY <1>2 DEF Renewed
  <2>2. x.status = "pending" => ~\E v \in versions : v.workflow = x.workflow
    BY <1>2
  <2> HIDE DEF y
  <2> QED BY <2>1, <2>2 DEF y
<1> QED BY <1>1, <1>2

\* The upsert of publish, unpublish and of the takeover: rows in progress stay,
\* a pending one stays or takes the version asked for, and every workflow
\* asked for has one afterwards.
LEMMA UpsertedIs ==
    ASSUME Table(outbox), NEW versions, Requests(versions)
    PROVE  LET R == Range(Upserted(versions)) IN
           /\ Table(Upserted(versions))
           /\ \A x \in Range(outbox) : x.status = "in_progress" => x \in R
           /\ \A x \in R : x.status = "in_progress" => x \in Range(outbox)
           /\ \A x \in R : x.status = "pending" =>
                \/ [workflow |-> x.workflow, version |-> x.version] \in versions
                \/ x \in Range(outbox) /\ ~\E v \in versions : v.workflow = x.workflow
           /\ \A v \in versions : \E x \in R : x.workflow = v.workflow /\ x.status = "pending"
           /\ \A x \in Range(outbox) : \E y \in R : y.workflow = x.workflow /\ y.status = x.status
           /\ OneRowEach => \A x, y \in R : x.workflow = y.workflow /\ x.status = y.status => x = y
<1> DEFINE F == [x \in Rows |-> Renewed(x, versions)]
           a == Updated(versions)
           b == Inserted(versions)
           A == {Renewed(x, versions) : x \in Range(outbox)}
           B == Range(b)
           R == Range(Upserted(versions))
<1>1. /\ Range(outbox) \subseteq Rows /\ \A i \in DOMAIN outbox : outbox[i] \in Rows
      /\ \A r \in Range(outbox) : \E i \in DOMAIN outbox : outbox[i] = r
      /\ \A r \in Rows : r.status \in {"pending", "in_progress"}
  BY TableRows
<1>2. Table(a) /\ Range(a) = A
  <2>1. \A x \in Rows : Renewed(x, versions) \in Rows /\ Renewed(x, versions).id = x.id
    BY RenewedIs
  <2>2. F \in [Rows -> Rows] /\ \A x \in Rows : F[x] = Renewed(x, versions) /\ F[x].id = x.id
    BY <2>1
  <2>3. a = [i \in DOMAIN outbox |-> Renewed(outbox[i], versions)]
    BY DEF Updated, Renewed
  <2>4. a = [i \in DOMAIN outbox |-> F[outbox[i]]]
    BY <1>1, <2>2, <2>3
  <2>5. {F[x] : x \in Range(outbox)} = A
    BY <1>1, <2>2
  <2> HIDE DEF F, a, A
  <2> QED BY <2>2, <2>4, <2>5, MappedIs
<1>3. /\ Table(b)
      /\ \A x \in B : /\ x.status = "pending" /\ x.id \in FreeIds
                       /\ [workflow |-> x.workflow, version |-> x.version] \in versions
                       /\ ~\E y \in Range(outbox) : y.workflow = x.workflow /\ y.status = "pending"
      /\ \A v \in versions :
           \/ \E y \in Range(outbox) : y.workflow = v.workflow /\ y.status = "pending"
           \/ \E x \in B : x.workflow = v.workflow
      /\ \A x, y \in B : x.workflow = y.workflow => x = y
  BY InsertedIs, PositionsAre
<1> HIDE DEF a, b, F
<1>4. \A x \in A : \E y \in Range(outbox) :
        /\ x = Renewed(y, versions)
        /\ x.id = y.id /\ x.workflow = y.workflow /\ x.status = y.status
        /\ y.status = "in_progress" => x = y
        /\ \/ [workflow |-> x.workflow, version |-> x.version] \in versions
           \/ x = y /\ (x.status = "pending" => ~\E v \in versions : v.workflow = x.workflow)
  <2> SUFFICES ASSUME NEW y \in Range(outbox)
               PROVE  LET x == Renewed(y, versions) IN
                      /\ x.id = y.id /\ x.workflow = y.workflow /\ x.status = y.status
                      /\ y.status = "in_progress" => x = y
                      /\ \/ [workflow |-> x.workflow, version |-> x.version] \in versions
                         \/ x = y /\ (x.status = "pending" => ~\E v \in versions : v.workflow = x.workflow)
    OBVIOUS
  <2>1. y \in Rows
    BY <1>1
  <2> QED BY <2>1, RenewedIs
<1>5. \A y \in Range(outbox) : \E x \in A :
        x.workflow = y.workflow /\ x.status = y.status /\ (y.status = "in_progress" => x = y)
  <2> SUFFICES ASSUME NEW y \in Range(outbox)
               PROVE  LET x == Renewed(y, versions) IN
                      x.workflow = y.workflow /\ x.status = y.status /\ (y.status = "in_progress" => x = y)
    OBVIOUS
  <2>1. y \in Rows
    BY <1>1
  <2> QED BY <2>1, RenewedIs
<1> HIDE DEF A
<1>6. \A x \in A, y \in B : x.id # y.id
  <2> SUFFICES ASSUME NEW x \in A, NEW y \in B PROVE x.id # y.id
    OBVIOUS
  <2>1. \A z \in Range(outbox) : z.id \notin FreeIds
    BY <1>1 DEF FreeIds
  <2>2. PICK z \in Range(outbox) : x.id = z.id
    BY <1>4
  <2>3. y.id \in FreeIds
    BY <1>3
  <2> QED BY <2>1, <2>2, <2>3
<1>7. Table(Upserted(versions)) /\ R = A \cup B
  BY <1>2, <1>3, <1>6, ConcatIs DEF Upserted, a, b
<1> HIDE DEF B, R
<1>8. \A x \in Range(outbox) : x.status = "in_progress" => x \in R
  BY <1>5, <1>7
<1>9. \A x \in R : x.status = "in_progress" => x \in Range(outbox)
  <2> SUFFICES ASSUME NEW x \in R, x.status = "in_progress" PROVE x \in Range(outbox)
    OBVIOUS
  <2>1. x \in A
    BY <1>3, <1>7
  <2>2. PICK y \in Range(outbox) : x.status = y.status /\ (y.status = "in_progress" => x = y)
    BY <1>4, <2>1
  <2> QED BY <2>2
<1>10. \A x \in R : x.status = "pending" =>
         \/ [workflow |-> x.workflow, version |-> x.version] \in versions
         \/ x \in Range(outbox) /\ ~\E v \in versions : v.workflow = x.workflow
  <2> SUFFICES ASSUME NEW x \in R, x.status = "pending"
               PROVE  \/ [workflow |-> x.workflow, version |-> x.version] \in versions
                      \/ x \in Range(outbox) /\ ~\E v \in versions : v.workflow = x.workflow
    OBVIOUS
  <2>1. CASE x \in A
    BY <1>4, <2>1
  <2>2. CASE x \in B
    BY <1>3, <2>2
  <2> QED BY <1>7, <2>1, <2>2
<1>11. \A v \in versions : \E x \in R : x.workflow = v.workflow /\ x.status = "pending"
  <2> SUFFICES ASSUME NEW v \in versions
               PROVE  \E x \in R : x.workflow = v.workflow /\ x.status = "pending"
    OBVIOUS
  <2>1. CASE \E y \in Range(outbox) : y.workflow = v.workflow /\ y.status = "pending"
    <3>1. PICK y \in Range(outbox) : y.workflow = v.workflow /\ y.status = "pending"
      BY <2>1
    <3>2. PICK x \in A : x.workflow = y.workflow /\ x.status = y.status
      BY <1>5
    <3> QED BY <1>7, <3>1, <3>2
  <2>2. CASE \E x \in B : x.workflow = v.workflow
    <3>1. PICK x \in B : x.workflow = v.workflow
      BY <2>2
    <3>2. x.status = "pending" /\ x \in R
      BY <1>3, <1>7
    <3> QED BY <3>1, <3>2
  <2> QED BY <1>3, <2>1, <2>2
<1>12. \A x \in Range(outbox) : \E y \in R : y.workflow = x.workflow /\ y.status = x.status
  BY <1>5, <1>7
<1>13. ASSUME OneRowEach, NEW x \in R, NEW y \in R, x.workflow = y.workflow, x.status = y.status
       PROVE  x = y
  <2>1. CASE x \in A /\ y \in A
    <3>1. PICK r \in Range(outbox) : /\ x = Renewed(r, versions)
                                     /\ x.workflow = r.workflow /\ x.status = r.status
      BY <1>4, <2>1
    <3>2. PICK s \in Range(outbox) : /\ y = Renewed(s, versions)
                                     /\ y.workflow = s.workflow /\ y.status = s.status
      BY <1>4, <2>1
    <3>3. r = s
      BY <1>13, <3>1, <3>2 DEF OneRowEach
    <3> QED BY <3>1, <3>2, <3>3
  <2>2. CASE x \in A /\ y \in B
    <3>1. PICK r \in Range(outbox) : x.workflow = r.workflow /\ x.status = r.status
      BY <1>4, <2>2
    <3>2. y.status = "pending" /\ ~(r.workflow = y.workflow /\ r.status = "pending")
      BY <1>3, <2>2
    <3> QED BY <1>13, <3>1, <3>2
  <2>3. CASE x \in B /\ y \in A
    <3>1. PICK r \in Range(outbox) : y.workflow = r.workflow /\ y.status = r.status
      BY <1>4, <2>3
    <3>2. x.status = "pending" /\ ~(r.workflow = x.workflow /\ r.status = "pending")
      BY <1>3, <2>3
    <3> QED BY <1>13, <3>1, <3>2
  <2>4. CASE x \in B /\ y \in B
    BY <1>3, <1>13, <2>4
  <2> QED BY <1>7, <2>1, <2>2, <2>3, <2>4
<1> QED BY <1>7, <1>8, <1>9, <1>10, <1>11, <1>12, <1>13 DEF R

\* The upsert of one publish or unpublish.
LEMMA RequestOne ==
    ASSUME NEW w \in Workflows, NEW v \in Versions, EnoughIds({[workflow |-> w, version |-> v]})
    PROVE  Requests({[workflow |-> w, version |-> v]})
<1>1. IsFiniteSet({[workflow |-> w, version |-> v]})
  BY FS_Singleton
<1> QED BY <1>1 DEF Requests

\* The upsert of a takeover.
LEMMA RequestActive ==
    ASSUME active \in [Workflows -> Versions \cup {NoVersion}], EnoughIds(ActiveVersions)
    PROVE  Requests(ActiveVersions)
<1> DEFINE W == {x \in Workflows : active[x] # NoVersion}
           f == [w \in W |-> [workflow |-> w, version |-> active[w]]]
<1>1. IsFiniteSet(W)
  BY PublicationAssumption, FS_Subset
<1>2. ActiveVersions = {f[w] : w \in W}
  BY DEF ActiveVersions
<1>3. f \in Surjection(W, ActiveVersions)
  BY <1>2 DEF Surjection
<1>4. IsFiniteSet(ActiveVersions)
  <2> HIDE DEF f, W
  <2> QED BY <1>1, <1>3, FS_Surjection
<1>5. \A x \in ActiveVersions : \E w \in Workflows :
        active[w] \in Versions /\ x = [workflow |-> w, version |-> active[w]]
  BY DEF ActiveVersions
<1>6. /\ ActiveVersions \subseteq [workflow : Workflows, version : Versions]
      /\ \A x, y \in ActiveVersions : x.workflow = y.workflow => x = y
  BY <1>5
<1> QED BY <1>4, <1>6 DEF Requests

-----------------------------------------------------------------------------
(* The queue of a lock *)

Once(q) == \A i, j \in DOMAIN q : q[i] = q[j] => i = j
IsFirst(q, o) == q # <<>> /\ Head(q) = o

\* Teardowns have their numbers, records the next one.
LEMMA OwnersAre == RecordOwner \in Owners /\ RecordOwner \notin Teardowns /\ Teardowns \subseteq Owners
<1>1. MaxTakeovers \in Nat
  BY PublicationAssumption
<1> QED BY <1>1 DEF Owners, Teardowns, RecordOwner

\* Somebody queues for a lock.
LEMMA OwnerQueues ==
    ASSUME NEW q \in Seq(Owners), Once(q), NEW o \in Owners, o \notin Range(q)
    PROVE  LET t == Append(q, o) IN
           /\ t \in Seq(Owners) /\ Once(t) /\ Range(t) = Range(q) \cup {o}
           /\ \A x : IsFirst(q, x) => IsFirst(t, x)
<1> DEFINE t == Append(q, o)
<1>1. /\ t \in Seq(Owners) /\ Len(t) = Len(q) + 1 /\ t[Len(q) + 1] = o
      /\ \A i \in 1 .. Len(q) : t[i] = q[i]
      /\ DOMAIN t = 1 .. Len(q) + 1 /\ DOMAIN q = 1 .. Len(q) /\ Len(q) \in Nat
  OBVIOUS
<1>2. q # <<>> => Head(q) = q[1] /\ 1 \in DOMAIN q
  BY <1>1
<1>3. t # <<>> /\ Head(t) = t[1]
  OBVIOUS
<1> HIDE DEF t
<1>4. \A i \in DOMAIN t : (i \in DOMAIN q /\ t[i] = q[i]) \/ (i = Len(q) + 1 /\ t[i] = o)
  BY <1>1
<1>5. \A i \in DOMAIN q : i \in DOMAIN t /\ t[i] = q[i] /\ q[i] # o
  BY <1>1 DEF Range
<1>6. Range(t) = Range(q) \cup {o}
  BY <1>1, <1>4, <1>5 DEF Range
<1>7. Once(t)
  BY <1>4, <1>5 DEF Once
<1>8. \A x : IsFirst(q, x) => IsFirst(t, x)
  BY <1>1, <1>2, <1>3 DEF IsFirst
<1> QED BY <1>1, <1>6, <1>7, <1>8 DEF t

\* The owner lets go of a lock.
LEMMA OwnerReleases ==
    ASSUME NEW q \in Seq(Owners), Once(q), NEW o, IsFirst(q, o)
    PROVE  Tail(q) \in Seq(Owners) /\ Once(Tail(q)) /\ Range(Tail(q)) = Range(q) \ {o}
<1> DEFINE t == Tail(q)
<1>1. /\ t \in Seq(Owners) /\ Head(q) = q[1] /\ Len(q) \in Nat /\ Len(q) >= 1
      /\ DOMAIN q = 1 .. Len(q) /\ DOMAIN t = 1 .. Len(q) - 1
      /\ \A i \in 1 .. Len(q) - 1 : t[i] = q[i + 1]
  BY DEF IsFirst
<1> HIDE DEF t
<1>2. q[1] = o /\ 1 \in DOMAIN q
  BY <1>1 DEF IsFirst
<1>3. \A i \in DOMAIN t : i + 1 \in DOMAIN q /\ t[i] = q[i + 1] /\ i + 1 # 1
  BY <1>1
<1>4. \A i \in DOMAIN q : i # 1 => i - 1 \in DOMAIN t /\ t[i - 1] = q[i]
  BY <1>1
<1>5. \A i, j \in DOMAIN t : i + 1 = j + 1 => i = j
  BY <1>1
<1>6. Once(t)
  BY <1>3, <1>5 DEF Once
<1>7. \A i \in DOMAIN t : t[i] \in Range(q) \ {o}
  BY <1>2, <1>3 DEF Once, Range
<1>8. \A i \in DOMAIN q : q[i] # o => \E j \in DOMAIN t : t[j] = q[i]
  BY <1>2, <1>4
<1>9. Range(t) = Range(q) \ {o}
  BY <1>7, <1>8 DEF Range
<1> QED BY <1>1, <1>6, <1>9 DEF t

\* A teardown that has waited for 30 seconds leaves the queue of a lock.
LEMMA OwnerGivesUp ==
    ASSUME NEW q \in Seq(Owners), Once(q), NEW o, ~IsFirst(q, o)
    PROVE  LET t == Taken(q, {i \in DOMAIN q : q[i] = o}) IN
           /\ t \in Seq(Owners) /\ Once(t) /\ Range(t) = Range(q) \ {o}
           /\ \A x : IsFirst(q, x) => IsFirst(t, x)
<1> DEFINE I == {i \in DOMAIN q : q[i] = o}
           t == Taken(q, I)
<1>1. I \in SUBSET DOMAIN q /\ \A i, j \in I : i = j
  BY DEF Once
<1>2. /\ t \in Seq(Owners)
      /\ \A i \in DOMAIN t : \E j \in DOMAIN q \ I : t[i] = q[j]
      /\ \A j \in DOMAIN q \ I : \E i \in DOMAIN t : t[i] = q[j]
      /\ \A i, j \in DOMAIN t : \E x, y \in DOMAIN q \ I :
           t[i] = q[x] /\ t[j] = q[y] /\ (x = y => i = j)
  <2> HIDE DEF I
  <2> QED BY <1>1, TakenIs
<1>3. \A x : IsFirst(q, x) => IsFirst(t, x)
  <2> SUFFICES ASSUME q # <<>> PROVE t # <<>> /\ Head(t) = Head(q)
    BY DEF IsFirst
  <2>1. Len(q) \in Nat /\ DOMAIN q = 1 .. Len(q) /\ Head(q) = q[1] /\ 1 \in DOMAIN q /\ 1 \notin I
    BY DEF IsFirst
  <2>2. CASE I = {}
    BY <2>2 DEF Taken
  <2>3. CASE I # {}
    <3>1. PICK k \in I : t = RemoveAt(q, k)
      BY <2>3 DEF Taken
    <3>2. k \in 1 .. Len(q) /\ 1 < k
      BY <2>1, <3>1
    <3> HIDE DEF t, I
    <3>3. t \in Seq(Owners) /\ Len(t) = Len(q) - 1
          /\ \A i \in 1 .. Len(t) : t[i] = IF i < k THEN q[i] ELSE q[i + 1]
      BY <3>1, <3>2, RemoveAtIs
    <3>4. t # <<>> /\ t[1] = q[1] /\ Head(t) = t[1]
      BY <2>1, <3>2, <3>3
    <3> QED BY <2>1, <3>4
  <2> QED BY <2>2, <2>3
<1>4. Once(t)
  <2> HIDE DEF t
  <2> SUFFICES ASSUME NEW i \in DOMAIN t, NEW j \in DOMAIN t, t[i] = t[j] PROVE i = j
    BY DEF Once
  <2>1. PICK x \in DOMAIN q, y \in DOMAIN q : t[i] = q[x] /\ t[j] = q[y] /\ (x = y => i = j)
    BY <1>2
  <2> QED BY <2>1 DEF Once
<1>5. Range(t) = Range(q) \ {o}
  <2> HIDE DEF t
  <2>1. \A i \in DOMAIN t : t[i] \in Range(q) /\ t[i] # o
    BY <1>2 DEF Range
  <2>2. \A j \in DOMAIN q : q[j] # o => \E i \in DOMAIN t : t[i] = q[j]
    BY <1>2
  <2> QED BY <2>1, <2>2 DEF Range
<1> QED BY <1>2, <1>3, <1>4, <1>5

-----------------------------------------------------------------------------
(* A main by itself *)

Drains == {"idle", "claim", "enter"} \cup Applying
Snapshots == [todo : SUBSET Workflows, deferred : SUBSET Workflows, current : SUBSET Workflows]
Plans == [unpublish : BOOLEAN, remove : SUBSET Nodes(Triggers), add : SUBSET Nodes(Triggers)]
Recoveries == [workflow : Workflows, trigger : Triggers]

\* What FollowerInv says of one main with drain d, record r, locks L, teardowns
\* T, triggers R, escaped workflows U, that leads (ld) or shuts down (sd).
MainTypes(d, r, L, T, R, U, ld, sd) ==
    /\ d \in Drains /\ r \in Rows \cup {NoRecord}
    /\ L \in [Workflows -> Seq(Owners)] /\ T \in [Teardowns -> Snapshots]
    /\ R \in [Workflows -> SUBSET Triggers] /\ U \subseteq Workflows
    /\ ld \in BOOLEAN /\ sd \in BOOLEAN
    /\ r = NoRecord <=> d \in {"idle", "claim"}

QueueOK(q, w, d, r, T) ==
    /\ Once(q)
    /\ \A k \in Teardowns : k \in Range(q) <=> w \in T[k].current
    /\ RecordOwner \in Range(q) <=> r # NoRecord /\ r.workflow = w
    /\ d \in Applying /\ r.workflow = w => IsFirst(q, RecordOwner)

LocksOK(d, r, L, T) ==
    /\ \A k \in Teardowns : \A w, x \in T[k].current : w = x
    /\ \A w \in Workflows : QueueOK(L[w], w, d, r, T)

OrderOK(T, ld, sd, n) ==
    /\ \A k \in Teardowns : k > n => T[k] = NoTeardown
    /\ ld /\ ~sd => T[n] = NoTeardown

Ahead(T, w) == \E k \in Teardowns : w \in T[k].todo \cup T[k].deferred \cup T[k].current

CoverOK(d, r, T, R, U, ld) ==
    \A w \in Workflows :
        R[w] # {} \/ (d \in Applying /\ r.workflow = w) => ld \/ w \in U \/ Ahead(T, w)

MainOK(d, r, L, T, R, U, ld, sd, n) ==
    /\ MainTypes(d, r, L, T, R, U, ld, sd)
    /\ LocksOK(d, r, L, T) /\ OrderOK(T, ld, sd, n) /\ CoverOK(d, r, T, R, U, ld)

MainInv(m) ==
    MainOK(drain[m], record[m], lock[m], teardown[m], registered[m], escaped[m],
           isLeader[m], isShuttingDown[m], takeovers)

\* The rest of FollowerInv.
RestOK ==
    /\ active \in [Workflows -> Versions \cup {NoVersion}]
    /\ published \in [Workflows -> Versions \cup {NoVersion}]
    /\ Table(outbox)
    /\ isPolling \in [Mains -> BOOLEAN] /\ enqueuing \subseteq Mains
    /\ plan \in [Mains -> Plans] /\ recovering \in [Mains -> SUBSET Recoveries]
    /\ outcome \in [Workflows -> {"none", "ok", "failed", "partial"}]
    /\ edits \in Nat /\ takeovers \in Nat /\ faults \in Nat /\ takeovers <= MaxTakeovers

\* What each main keeps is a function on the mains.
ByMain ==
    /\ drain = [m \in Mains |-> drain[m]] /\ record = [m \in Mains |-> record[m]]
    /\ lock = [m \in Mains |-> lock[m]] /\ teardown = [m \in Mains |-> teardown[m]]
    /\ registered = [m \in Mains |-> registered[m]] /\ escaped = [m \in Mains |-> escaped[m]]
    /\ isLeader = [m \in Mains |-> isLeader[m]] /\ isShuttingDown = [m \in Mains |-> isShuttingDown[m]]

\* FollowerInv, main by main.
LEMMA InvByMain == FollowerInv <=> RestOK /\ ByMain /\ \A m \in Mains : MainInv(m)
<1>1. ASSUME FollowerInv PROVE RestOK /\ ByMain /\ \A m \in Mains : MainInv(m)
  <2>1. PublicationTypeOK
    BY <1>1 DEF FollowerInv
  <2>2. RestOK
    BY <1>1, <2>1 DEF FollowerInv, PublicationTypeOK, RestOK, Table, Distinct, IdsDistinct, Plans, Recoveries
  <2>3. ByMain
    BY <2>1 DEF PublicationTypeOK, ByMain
  <2>4. ASSUME NEW m \in Mains PROVE MainInv(m)
    <3>1. MainTypes(drain[m], record[m], lock[m], teardown[m], registered[m], escaped[m],
                    isLeader[m], isShuttingDown[m])
      <4>1. drain[m] \in Drains /\ record[m] \in Rows \cup {NoRecord}
        BY <2>1 DEF PublicationTypeOK, Drains
      <4>2. lock[m] \in [Workflows -> Seq(Owners)] /\ teardown[m] \in [Teardowns -> Snapshots]
        BY <2>1 DEF PublicationTypeOK, Snapshots
      <4>3. registered[m] \in [Workflows -> SUBSET Triggers] /\ escaped[m] \subseteq Workflows
        BY <2>1 DEF PublicationTypeOK
      <4>4. isLeader[m] \in BOOLEAN /\ isShuttingDown[m] \in BOOLEAN
        BY <2>1 DEF PublicationTypeOK
      <4>5. record[m] = NoRecord <=> drain[m] \in {"idle", "claim"}
        BY <1>1 DEF FollowerInv, RecordWhileHeld
      <4> QED BY <4>1, <4>2, <4>3, <4>4, <4>5 DEF MainTypes
    <3>2. LocksOK(drain[m], record[m], lock[m], teardown[m])
      BY <1>1 DEF FollowerInv, LockQueues, LocksOK, QueueOK, Applies, OwnsLock, IsFirst, Once
    <3>3. OrderOK(teardown[m], isLeader[m], isShuttingDown[m], takeovers)
      BY <1>1 DEF FollowerInv, TeardownsInOrder, OrderOK
    <3>4. CoverOK(drain[m], record[m], teardown[m], registered[m], escaped[m], isLeader[m])
      BY <1>1 DEF FollowerInv, TriggersCovered, CoverOK, Applies, Ahead, Left
    <3> QED BY <3>1, <3>2, <3>3, <3>4 DEF MainInv, MainOK
  <2> QED BY <2>2, <2>3, <2>4
<1>2. ASSUME RestOK, ByMain, \A m \in Mains : MainInv(m) PROVE FollowerInv
  <2>1. \A m \in Mains : MainTypes(drain[m], record[m], lock[m], teardown[m], registered[m], escaped[m],
                                   isLeader[m], isShuttingDown[m])
    BY <1>2 DEF MainInv, MainOK
  <2>2. PublicationTypeOK
    <3>1. drain \in [Mains -> Drains] /\ record \in [Mains -> Rows \cup {NoRecord}]
      BY <1>2, <2>1 DEF ByMain, MainTypes
    <3>2. /\ lock \in [Mains -> [Workflows -> Seq(Owners)]]
          /\ teardown \in [Mains -> [Teardowns -> Snapshots]]
      BY <1>2, <2>1 DEF ByMain, MainTypes
    <3>3. registered \in [Mains -> [Workflows -> SUBSET Triggers]] /\ escaped \in [Mains -> SUBSET Workflows]
      BY <1>2, <2>1 DEF ByMain, MainTypes
    <3>4. isLeader \in [Mains -> BOOLEAN] /\ isShuttingDown \in [Mains -> BOOLEAN]
      BY <1>2, <2>1 DEF ByMain, MainTypes
    <3> QED BY <1>2, <3>1, <3>2, <3>3, <3>4
            DEF RestOK, Table, PublicationTypeOK, Plans, Recoveries, Drains, Snapshots
  <2>3. IdsDistinct /\ RecordWhileHeld
    BY <1>2, <2>1 DEF RestOK, Table, Distinct, IdsDistinct, RecordWhileHeld, MainTypes
  <2>4. LockQueues
    BY <1>2 DEF MainInv, MainOK, LockQueues, LocksOK, QueueOK, Applies, OwnsLock, IsFirst, Once
  <2>5. TeardownsInOrder
    BY <1>2 DEF MainInv, MainOK, TeardownsInOrder, OrderOK
  <2>6. TriggersCovered
    BY <1>2 DEF MainInv, MainOK, TriggersCovered, CoverOK, Applies, Ahead, Left
  <2> QED BY <2>2, <2>3, <2>4, <2>5, <2>6 DEF FollowerInv
<1> QED BY <1>1, <1>2

\* The same of the next state.
LEMMA InvByMainNext == FollowerInv' <=> RestOK' /\ ByMain' /\ \A m \in Mains : MainInv(m)'
<1> DEFINE Each == \A m \in Mains : MainInv(m)
<1>1. FollowerInv <=> RestOK /\ ByMain /\ Each
  BY InvByMain
<1>2. Each' <=> \A m \in Mains : MainInv(m)'
  OBVIOUS
<1> HIDE DEF Each
<1>3. FollowerInv' <=> RestOK' /\ ByMain' /\ Each'
  BY <1>1, PTL
<1> QED BY <1>2, <1>3

\* A step that sets what main m keeps and leaves the others.
Sets(m, d, r, L, T, R, U, ld, sd) ==
    /\ drain' = [drain EXCEPT ![m] = d] /\ record' = [record EXCEPT ![m] = r]
    /\ lock' = [lock EXCEPT ![m] = L] /\ teardown' = [teardown EXCEPT ![m] = T]
    /\ registered' = [registered EXCEPT ![m] = R] /\ escaped' = [escaped EXCEPT ![m] = U]
    /\ isLeader' = [isLeader EXCEPT ![m] = ld] /\ isShuttingDown' = [isShuttingDown EXCEPT ![m] = sd]

\* Such a step keeps FollowerInv if it keeps it of m.
LEMMA SetsKeeps ==
    ASSUME FollowerInv, NEW m \in Mains, NEW d, NEW r, NEW L, NEW T, NEW R, NEW U, NEW ld, NEW sd,
           Sets(m, d, r, L, T, R, U, ld, sd), takeovers' = takeovers,
           MainOK(d, r, L, T, R, U, ld, sd, takeovers), RestOK'
    PROVE  FollowerInv'
<1>1. RestOK /\ ByMain /\ \A n \in Mains : MainInv(n)
  BY InvByMain
<1>2. ByMain'
  BY <1>1 DEF ByMain, Sets
<1>3. /\ drain'[m] = d /\ record'[m] = r /\ lock'[m] = L /\ teardown'[m] = T
      /\ registered'[m] = R /\ escaped'[m] = U /\ isLeader'[m] = ld /\ isShuttingDown'[m] = sd
  BY <1>1 DEF ByMain, Sets
<1>4. MainInv(m)'
  BY <1>3 DEF MainInv
<1>5. ASSUME NEW n \in Mains, n # m PROVE MainInv(n)'
  <2>1. /\ drain'[n] = drain[n] /\ record'[n] = record[n] /\ lock'[n] = lock[n]
        /\ teardown'[n] = teardown[n] /\ registered'[n] = registered[n]
        /\ escaped'[n] = escaped[n] /\ isLeader'[n] = isLeader[n]
        /\ isShuttingDown'[n] = isShuttingDown[n]
    BY <1>1, <1>5 DEF ByMain, Sets
  <2> QED BY <1>1, <2>1 DEF MainInv
<1>6. \A n \in Mains : MainInv(n)'
  BY <1>4, <1>5
<1> QED BY <1>2, <1>6, InvByMainNext

-----------------------------------------------------------------------------
(* What a step does to its main *)

\* A main that has just started.
LEMMA MainStarts ==
    ASSUME NEW n \in Nat
    PROVE  MainOK("idle", NoRecord, [w \in Workflows |-> <<>>], [k \in Teardowns |-> NoTeardown],
                  [w \in Workflows |-> {}], {}, FALSE, FALSE, n)
<1> DEFINE L == [w \in Workflows |-> <<>>]
           T == [k \in Teardowns |-> NoTeardown]
           R == [w \in Workflows |-> {}]
<1>1. <<>> \in Seq(Owners) /\ Range(<<>>) = {} /\ DOMAIN <<>> = {}
  BY DEF Range
<1>2. L \in [Workflows -> Seq(Owners)] /\ \A w \in Workflows : L[w] = <<>>
  BY <1>1
<1>3. NoTeardown \in Snapshots /\ NoTeardown.current = {}
  BY DEF NoTeardown, Snapshots
<1>4. T \in [Teardowns -> Snapshots] /\ \A k \in Teardowns : T[k] = NoTeardown
  BY <1>3
<1>5. R \in [Workflows -> SUBSET Triggers] /\ \A w \in Workflows : R[w] = {}
  OBVIOUS
<1> HIDE DEF L, T, R
<1>6. MainTypes("idle", NoRecord, L, T, R, {}, FALSE, FALSE)
  BY <1>2, <1>4, <1>5 DEF MainTypes, Drains
<1>7. LocksOK("idle", NoRecord, L, T)
  BY <1>1, <1>2, <1>3, <1>4 DEF LocksOK, QueueOK, Once, Applying
<1>8. OrderOK(T, FALSE, FALSE, n)
  BY <1>4 DEF OrderOK
<1>9. CoverOK("idle", NoRecord, T, R, {}, FALSE)
  BY <1>5 DEF CoverOK, Applying
<1> QED BY <1>6, <1>7, <1>8, <1>9 DEF MainOK, L, T, R

\* A leader begins its teardown, which has everything before it that it runs.
LEMMA MainBegins ==
    ASSUME NEW d, NEW r, NEW L, NEW T, NEW R, NEW U, NEW n \in Teardowns,
           MainOK(d, r, L, T, R, U, TRUE, FALSE, n), NEW b \in BOOLEAN,
           NEW S \in SUBSET Workflows, \A w \in Workflows : R[w] # {} \/ L[w] # <<>> => w \in S
    PROVE  MainOK(d, r, L, [T EXCEPT ![n] = [NoTeardown EXCEPT !.todo = S]], R, U, b, b, n)
<1> DEFINE t == [NoTeardown EXCEPT !.todo = S]
           V == [T EXCEPT ![n] = t]
<1>1. /\ MainTypes(d, r, L, T, R, U, TRUE, FALSE) /\ LocksOK(d, r, L, T)
      /\ OrderOK(T, TRUE, FALSE, n)
  BY DEF MainOK
<1>2. t \in Snapshots /\ t.todo = S /\ t.current = {} /\ NoTeardown.current = {}
  BY DEF NoTeardown, Snapshots
<1>3. T \in [Teardowns -> Snapshots] /\ T[n] = NoTeardown
  BY <1>1 DEF MainTypes, OrderOK
<1> HIDE DEF t
<1>4. V \in [Teardowns -> Snapshots] /\ V[n] = t /\ \A k \in Teardowns \ {n} : V[k] = T[k]
  BY <1>2, <1>3
<1>5. \A k \in Teardowns : V[k].current = T[k].current
  BY <1>2, <1>3, <1>4
<1> HIDE DEF V
<1>6. MainTypes(d, r, L, V, R, U, b, b)
  BY <1>1, <1>4 DEF MainTypes
<1>7. LocksOK(d, r, L, V)
  BY <1>1, <1>5 DEF LocksOK, QueueOK
<1>8. OrderOK(V, b, b, n)
  BY <1>1, <1>4 DEF OrderOK, Teardowns
<1>9. CoverOK(d, r, V, R, U, b)
  <2> SUFFICES ASSUME NEW w \in Workflows, R[w] # {} \/ (d \in Applying /\ r.workflow = w)
               PROVE  Ahead(V, w)
    BY DEF CoverOK
  <2>1. w \in S
    BY <1>1 DEF LocksOK, QueueOK, IsFirst
  <2> QED BY <1>2, <1>4, <2>1 DEF Ahead
<1> QED BY <1>6, <1>7, <1>8, <1>9 DEF MainOK, V, t

\* Between records.
LEMMA MainIdles ==
    ASSUME NEW d \in {"idle", "claim"}, NEW e \in {"idle", "claim"},
           NEW r, NEW L, NEW T, NEW R, NEW U, NEW ld, NEW sd, NEW n,
           MainOK(d, r, L, T, R, U, ld, sd, n)
    PROVE  MainOK(e, r, L, T, R, U, ld, sd, n) /\ r = NoRecord
<1>1. r = NoRecord /\ d \notin Applying /\ e \notin Applying /\ e \in Drains
  BY DEF MainOK, MainTypes, Applying, Drains
<1> QED BY <1>1 DEF MainOK, MainTypes, LocksOK, QueueOK, CoverOK

\* A claimed record queues for its workflow's lock.
LEMMA MainClaims ==
    ASSUME NEW d \in {"idle", "claim"}, NEW r, NEW L, NEW T, NEW R, NEW U, NEW ld, NEW sd, NEW n,
           MainOK(d, r, L, T, R, U, ld, sd, n), NEW x \in Rows, x # NoRecord
    PROVE  MainOK("enter", x, [L EXCEPT ![x.workflow] = Append(@, RecordOwner)], T, R, U, ld, sd, n)
<1> DEFINE v == x.workflow
           q == Append(L[v], RecordOwner)
           K == [L EXCEPT ![v] = q]
<1>1. v \in Workflows /\ r = NoRecord /\ d \notin Applying /\ "enter" \notin Applying /\ "enter" \in Drains
  BY DEF MainOK, MainTypes, Applying, Drains, Rows
<1>2. L \in [Workflows -> Seq(Owners)] /\ LocksOK(d, r, L, T) /\ MainTypes(d, r, L, T, R, U, ld, sd)
      /\ OrderOK(T, ld, sd, n) /\ CoverOK(d, r, T, R, U, ld)
  BY DEF MainOK, MainTypes
<1>3. L[v] \in Seq(Owners) /\ Once(L[v]) /\ RecordOwner \notin Range(L[v])
  BY <1>1, <1>2 DEF LocksOK, QueueOK
<1>4. q \in Seq(Owners) /\ Once(q) /\ Range(q) = Range(L[v]) \cup {RecordOwner}
  BY <1>3, OwnerQueues, OwnersAre
<1> HIDE DEF q
<1>5. K \in [Workflows -> Seq(Owners)] /\ K[v] = q /\ \A w \in Workflows \ {v} : K[w] = L[w]
  BY <1>1, <1>2, <1>4
<1> HIDE DEF K
<1>6. QueueOK(q, v, "enter", x, T)
  BY <1>1, <1>2, <1>4, OwnersAre DEF LocksOK, QueueOK
<1>7. \A w \in Workflows \ {v} : QueueOK(L[w], w, "enter", x, T)
  BY <1>1, <1>2 DEF LocksOK, QueueOK
<1>8. LocksOK("enter", x, K, T)
  BY <1>2, <1>5, <1>6, <1>7 DEF LocksOK
<1>9. MainTypes("enter", x, K, T, R, U, ld, sd)
  BY <1>1, <1>2, <1>5 DEF MainTypes
<1>10. CoverOK("enter", x, T, R, U, ld)
  BY <1>1, <1>2 DEF CoverOK
<1> QED BY <1>2, <1>8, <1>9, <1>10 DEF MainOK, K, q

\* The record gives its lock to the next waiter.
LEMMA MainFinishes ==
    ASSUME NEW d, NEW r, NEW L, NEW T, NEW R, NEW U, NEW ld, NEW sd, NEW n,
           MainOK(d, r, L, T, R, U, ld, sd, n), r # NoRecord, IsFirst(L[r.workflow], RecordOwner)
    PROVE  MainOK("idle", NoRecord, [L EXCEPT ![r.workflow] = Tail(@)], T, R, U, ld, sd, n)
<1> DEFINE v == r.workflow
           q == Tail(L[v])
           K == [L EXCEPT ![v] = q]
<1>1. v \in Workflows /\ "idle" \notin Applying /\ "idle" \in Drains
  BY DEF MainOK, MainTypes, Applying, Drains, Rows
<1>2. L \in [Workflows -> Seq(Owners)] /\ LocksOK(d, r, L, T) /\ MainTypes(d, r, L, T, R, U, ld, sd)
      /\ OrderOK(T, ld, sd, n) /\ CoverOK(d, r, T, R, U, ld)
  BY DEF MainOK, MainTypes
<1>3. L[v] \in Seq(Owners) /\ Once(L[v])
  BY <1>1, <1>2 DEF LocksOK, QueueOK
<1>4. q \in Seq(Owners) /\ Once(q) /\ Range(q) = Range(L[v]) \ {RecordOwner}
  BY <1>3, OwnerReleases
<1> HIDE DEF q
<1>5. K \in [Workflows -> Seq(Owners)] /\ K[v] = q /\ \A w \in Workflows \ {v} : K[w] = L[w]
  BY <1>1, <1>2, <1>4
<1> HIDE DEF K
<1>6. QueueOK(q, v, "idle", NoRecord, T)
  BY <1>1, <1>2, <1>4, OwnersAre DEF LocksOK, QueueOK
<1>7. \A w \in Workflows \ {v} : QueueOK(L[w], w, "idle", NoRecord, T)
  BY <1>1, <1>2 DEF LocksOK, QueueOK
<1>8. LocksOK("idle", NoRecord, K, T)
  BY <1>2, <1>5, <1>6, <1>7 DEF LocksOK
<1>9. MainTypes("idle", NoRecord, K, T, R, U, ld, sd)
  BY <1>1, <1>2, <1>5 DEF MainTypes
<1>10. CoverOK("idle", NoRecord, T, R, U, ld)
  BY <1>1, <1>2 DEF CoverOK
<1> QED BY <1>2, <1>8, <1>9, <1>10 DEF MainOK, K, q

\* A record that owns its lock is applied: on a leader, or because it began on one.
LEMMA MainApplies ==
    ASSUME NEW d, NEW r, NEW L, NEW T, NEW R, NEW U, NEW ld, NEW sd, NEW n,
           MainOK(d, r, L, T, R, U, ld, sd, n), r # NoRecord, IsFirst(L[r.workflow], RecordOwner),
           ld \/ d \in Applying, NEW e \in Applying, NEW X \in SUBSET Triggers
    PROVE  MainOK(e, r, L, T, [R EXCEPT ![r.workflow] = X], U, ld, sd, n)
<1> DEFINE v == r.workflow
           Q == [R EXCEPT ![v] = X]
<1>1. v \in Workflows /\ e \in Drains /\ e \notin {"idle", "claim"}
  BY DEF MainOK, MainTypes, Applying, Drains, Rows
<1>2. R \in [Workflows -> SUBSET Triggers] /\ LocksOK(d, r, L, T) /\ MainTypes(d, r, L, T, R, U, ld, sd)
      /\ OrderOK(T, ld, sd, n) /\ CoverOK(d, r, T, R, U, ld)
  BY DEF MainOK, MainTypes
<1>3. Q \in [Workflows -> SUBSET Triggers] /\ \A w \in Workflows \ {v} : Q[w] = R[w]
  BY <1>1, <1>2
<1> HIDE DEF Q
<1>4. MainTypes(e, r, L, T, Q, U, ld, sd)
  BY <1>1, <1>2, <1>3 DEF MainTypes
<1>5. LocksOK(e, r, L, T)
  BY <1>2 DEF LocksOK, QueueOK
<1>6. CoverOK(e, r, T, Q, U, ld)
  BY <1>1, <1>2, <1>3 DEF CoverOK
<1> QED BY <1>2, <1>4, <1>5, <1>6 DEF MainOK, Q

\* A teardown that has something before it is not the one a leader would begin.
LEMMA OrderKept ==
    ASSUME NEW T \in [Teardowns -> Snapshots], NEW ld, NEW sd, NEW n, OrderOK(T, ld, sd, n),
           NEW k \in Teardowns, T[k] # NoTeardown, NEW t
    PROVE  OrderOK([T EXCEPT ![k] = t], ld, sd, n)
<1>1. \A j \in Teardowns \ {k} : [T EXCEPT ![k] = t][j] = T[j]
  OBVIOUS
<1>2. ~(k > n) /\ (ld /\ ~sd => k # n)
  BY DEF OrderOK
<1>3. ld /\ ~sd => [T EXCEPT ![k] = t][n] = T[n]
  BY <1>2
<1> QED BY <1>1, <1>2, <1>3 DEF OrderOK

\* A teardown puts a locked workflow off.
LEMMA MainDefers ==
    ASSUME NEW d, NEW r, NEW L, NEW T, NEW R, NEW U, NEW ld, NEW sd, NEW n,
           MainOK(d, r, L, T, R, U, ld, sd, n),
           NEW k \in Teardowns, NEW v \in T[k].todo
    PROVE  MainOK(d, r, L, [T EXCEPT ![k] = DeferLocked(T[k], v)], R, U, ld, sd, n)
<1> DEFINE t == DeferLocked(T[k], v)
           V == [T EXCEPT ![k] = t]
<1>1. LocksOK(d, r, L, T) /\ MainTypes(d, r, L, T, R, U, ld, sd)
      /\ OrderOK(T, ld, sd, n) /\ CoverOK(d, r, T, R, U, ld) /\ T \in [Teardowns -> Snapshots]
  BY DEF MainOK, MainTypes
<1>2. T[k] \in Snapshots /\ v \in Workflows
  BY <1>1 DEF Snapshots
<1>3. /\ t \in Snapshots /\ t.current = T[k].current
      /\ t.todo = T[k].todo \ {v} /\ t.deferred = T[k].deferred \cup {v}
  BY <1>2 DEF DeferLocked, Snapshots
<1> HIDE DEF t
<1>4. V \in [Teardowns -> Snapshots] /\ V[k] = t /\ \A j \in Teardowns \ {k} : V[j] = T[j]
  BY <1>1, <1>3
<1>5. \A j \in Teardowns : V[j].current = T[j].current
  BY <1>3, <1>4
<1>6. \A w : Ahead(T, w) => Ahead(V, w)
  BY <1>3, <1>4 DEF Ahead
<1>7. OrderOK(V, ld, sd, n)
  <2>1. T[k] # NoTeardown
    BY DEF NoTeardown
  <2> QED BY <1>1, <2>1, OrderKept
<1> HIDE DEF V
<1>8. MainTypes(d, r, L, V, R, U, ld, sd)
  BY <1>1, <1>4 DEF MainTypes
<1>9. LocksOK(d, r, L, V)
  BY <1>1, <1>5 DEF LocksOK, QueueOK
<1>10. CoverOK(d, r, V, R, U, ld)
  BY <1>1, <1>6 DEF CoverOK
<1> QED BY <1>7, <1>8, <1>9, <1>10 DEF MainOK, V, t

\* A teardown turns to a workflow and queues for its lock.
LEMMA MainQueues ==
    ASSUME NEW d, NEW r, NEW L, NEW T, NEW R, NEW U, NEW ld, NEW sd, NEW n,
           MainOK(d, r, L, T, R, U, ld, sd, n),
           NEW k \in Teardowns, T[k].current = {}, NEW v \in T[k].todo \cup T[k].deferred,
           NEW t \in Snapshots, t.current = {v},
           T[k].todo \cup T[k].deferred \subseteq t.todo \cup t.deferred \cup {v}
    PROVE  MainOK(d, r, [L EXCEPT ![v] = Append(@, k)], [T EXCEPT ![k] = t], R, U, ld, sd, n)
<1> DEFINE q == Append(L[v], k)
           K == [L EXCEPT ![v] = q]
           V == [T EXCEPT ![k] = t]
<1>1. /\ LocksOK(d, r, L, T) /\ MainTypes(d, r, L, T, R, U, ld, sd)
      /\ OrderOK(T, ld, sd, n) /\ CoverOK(d, r, T, R, U, ld) /\ T \in [Teardowns -> Snapshots]
      /\ L \in [Workflows -> Seq(Owners)]
  BY DEF MainOK, MainTypes
<1>2. T[k] \in Snapshots /\ v \in Workflows
  BY <1>1 DEF Snapshots
<1>3. L[v] \in Seq(Owners) /\ Once(L[v]) /\ k \notin Range(L[v]) /\ k \in Owners /\ k # RecordOwner
  BY <1>1, <1>2, OwnersAre DEF LocksOK, QueueOK
<1>4. /\ q \in Seq(Owners) /\ Once(q) /\ Range(q) = Range(L[v]) \cup {k}
      /\ \A x : IsFirst(L[v], x) => IsFirst(q, x)
  BY <1>3, OwnerQueues
<1> HIDE DEF q
<1>5. K \in [Workflows -> Seq(Owners)] /\ K[v] = q /\ \A w \in Workflows \ {v} : K[w] = L[w]
  BY <1>1, <1>2, <1>4
<1>6. V \in [Teardowns -> Snapshots] /\ V[k] = t /\ \A j \in Teardowns \ {k} : V[j] = T[j]
  BY <1>1
<1>7. ASSUME NEW w, Ahead(T, w) PROVE Ahead(V, w)
  <2>1. PICK j \in Teardowns : w \in T[j].todo \cup T[j].deferred \cup T[j].current
    BY <1>7 DEF Ahead
  <2>2. w \in V[j].todo \cup V[j].deferred \cup V[j].current
    BY <1>6, <2>1
  <2> QED BY <2>2 DEF Ahead
<1>8. OrderOK(V, ld, sd, n)
  <2>1. T[k] # NoTeardown
    BY DEF NoTeardown
  <2> QED BY <1>1, <2>1, OrderKept
<1> HIDE DEF K, V
<1>9. QueueOK(q, v, d, r, V)
  <2>1. QueueOK(L[v], v, d, r, T)
    BY <1>1, <1>2 DEF LocksOK
  <2>2. \A j \in Teardowns : j \in Range(q) <=> v \in V[j].current
    BY <1>4, <1>6, <2>1 DEF QueueOK
  <2> QED BY <1>3, <1>4, <2>1, <2>2 DEF QueueOK
<1>10. \A w \in Workflows \ {v} : QueueOK(L[w], w, d, r, V)
  BY <1>1, <1>2, <1>6 DEF LocksOK, QueueOK
<1>11. LocksOK(d, r, K, V)
  <2>1. \A j \in Teardowns : \A w, x \in V[j].current : w = x
    BY <1>1, <1>6 DEF LocksOK
  <2>2. \A w \in Workflows : QueueOK(K[w], w, d, r, V)
    BY <1>5, <1>9, <1>10
  <2> QED BY <2>1, <2>2 DEF LocksOK
<1>12. MainTypes(d, r, K, V, R, U, ld, sd)
  BY <1>1, <1>5, <1>6 DEF MainTypes
<1>13. CoverOK(d, r, V, R, U, ld)
  BY <1>1, <1>7 DEF CoverOK
<1> QED BY <1>8, <1>11, <1>12, <1>13 DEF MainOK, K, q, V

\* What a teardown leaves of a lock's queue, whether it had the lock or not.
LeavesLock(L, v, k, q) ==
    \/ IsFirst(L[v], k) /\ q = Tail(L[v])
    \/ ~IsFirst(L[v], k) /\ q = Taken(L[v], {i \in DOMAIN L[v] : L[v][i] = k})

\* deactivateWorkflow() with the lock, or without it after 30 seconds: workflow v
\* is left with X, and escapes unless it was torn down under its lock; so does
\* what the teardown does not come to any more.
LEMMA MainRemoves ==
    ASSUME NEW d, NEW r, NEW L, NEW T, NEW R, NEW U, NEW ld, NEW sd, NEW n,
           MainOK(d, r, L, T, R, U, ld, sd, n),
           NEW k \in Teardowns, NEW v \in T[k].current, NEW q, LeavesLock(L, v, k, q),
           NEW t \in Snapshots, t.current = {}, NEW X \in SUBSET Triggers, NEW W \in SUBSET Workflows,
           U \ {v} \subseteq W, (X = {} /\ IsFirst(L[v], k)) \/ v \in W,
           T[k].todo \cup T[k].deferred \subseteq t.todo \cup t.deferred \cup W
    PROVE  MainOK(d, r, [L EXCEPT ![v] = q], [T EXCEPT ![k] = t], [R EXCEPT ![v] = X], W, ld, sd, n)
<1> DEFINE K == [L EXCEPT ![v] = q]
           V == [T EXCEPT ![k] = t]
           Q == [R EXCEPT ![v] = X]
<1>1. /\ LocksOK(d, r, L, T) /\ MainTypes(d, r, L, T, R, U, ld, sd)
      /\ OrderOK(T, ld, sd, n) /\ CoverOK(d, r, T, R, U, ld) /\ T \in [Teardowns -> Snapshots]
      /\ L \in [Workflows -> Seq(Owners)] /\ R \in [Workflows -> SUBSET Triggers] /\ U \subseteq Workflows
  BY DEF MainOK, MainTypes
<1>2. T[k] \in Snapshots /\ v \in Workflows
  BY <1>1 DEF Snapshots
<1>3. L[v] \in Seq(Owners) /\ Once(L[v]) /\ k \in Range(L[v]) /\ k \in Owners /\ k # RecordOwner
  BY <1>1, <1>2, OwnersAre DEF LocksOK, QueueOK
<1>4. /\ q \in Seq(Owners) /\ Once(q) /\ Range(q) = Range(L[v]) \ {k}
      /\ \A x : IsFirst(L[v], x) /\ x # k => IsFirst(q, x)
  <2>1. CASE IsFirst(L[v], k) /\ q = Tail(L[v])
    <3>1. \A x : IsFirst(L[v], x) => x = k
      BY <2>1 DEF IsFirst
    <3> QED BY <1>3, <2>1, <3>1, OwnerReleases
  <2>2. CASE ~IsFirst(L[v], k) /\ q = Taken(L[v], {i \in DOMAIN L[v] : L[v][i] = k})
    BY <1>3, <2>2, OwnerGivesUp
  <2> QED BY <2>1, <2>2 DEF LeavesLock
<1>5. K \in [Workflows -> Seq(Owners)] /\ K[v] = q /\ \A w \in Workflows \ {v} : K[w] = L[w]
  BY <1>1, <1>2, <1>4
<1>6. t.current = {} /\ T[k].current = {v}
  BY <1>1 DEF LocksOK
<1>7. V \in [Teardowns -> Snapshots] /\ V[k] = t /\ \A j \in Teardowns \ {k} : V[j] = T[j]
  BY <1>1, <1>6
<1>8. ASSUME NEW w, w # v, Ahead(T, w), w \notin W PROVE Ahead(V, w)
  <2>1. PICK j \in Teardowns : w \in T[j].todo \cup T[j].deferred \cup T[j].current
    BY <1>8 DEF Ahead
  <2>2. w \in V[j].todo \cup V[j].deferred \cup V[j].current
    BY <1>6, <1>7, <1>8, <2>1
  <2> QED BY <2>2 DEF Ahead
<1>9. OrderOK(V, ld, sd, n)
  <2>1. T[k] # NoTeardown
    BY DEF NoTeardown
  <2> QED BY <1>1, <2>1, OrderKept
<1>10. Q \in [Workflows -> SUBSET Triggers] /\ Q[v] = X /\ \A w \in Workflows \ {v} : Q[w] = R[w]
  BY <1>1, <1>2
<1> HIDE DEF K, V, Q
<1>11. QueueOK(q, v, d, r, V)
  <2>1. QueueOK(L[v], v, d, r, T)
    BY <1>1, <1>2 DEF LocksOK
  <2>2. \A j \in Teardowns : j \in Range(q) <=> v \in V[j].current
    BY <1>4, <1>6, <1>7, <2>1 DEF QueueOK
  <2> QED BY <1>3, <1>4, <2>1, <2>2 DEF QueueOK
<1>12. \A w \in Workflows \ {v} : QueueOK(L[w], w, d, r, V)
  <2>1. \A w \in Workflows \ {v}, j \in Teardowns : w \in V[j].current <=> w \in T[j].current
    BY <1>6, <1>7
  <2> QED BY <1>1, <2>1 DEF LocksOK, QueueOK
<1>13. LocksOK(d, r, K, V)
  <2>1. \A j \in Teardowns : \A w, x \in V[j].current : w = x
    BY <1>1, <1>6, <1>7 DEF LocksOK
  <2>2. \A w \in Workflows : QueueOK(K[w], w, d, r, V)
    BY <1>5, <1>11, <1>12
  <2> QED BY <2>1, <2>2 DEF LocksOK
<1>14. MainTypes(d, r, K, V, Q, W, ld, sd)
  BY <1>1, <1>2, <1>5, <1>7, <1>10 DEF MainTypes
<1>15. CoverOK(d, r, V, Q, W, ld)
  <2> SUFFICES ASSUME NEW w \in Workflows, Q[w] # {} \/ (d \in Applying /\ r.workflow = w)
               PROVE  ld \/ w \in W \/ Ahead(V, w)
    BY DEF CoverOK
  <2>1. CASE w # v
    BY <1>1, <1>8, <1>10, <2>1 DEF CoverOK
  <2>2. CASE w = v
    <3>1. CASE v \in W
      BY <2>2, <3>1
    <3>2. CASE X = {} /\ IsFirst(L[v], k)
      <4>1. IsFirst(L[v], RecordOwner)
        BY <1>1, <1>2, <1>10, <2>2, <3>2 DEF LocksOK, QueueOK
      <4> QED BY <1>3, <3>2, <4>1 DEF IsFirst
    <3> QED BY <3>1, <3>2
  <2> QED BY <2>1, <2>2
<1> QED BY <1>9, <1>13, <1>14, <1>15 DEF MainOK, K, V, Q

\* A trigger goes, or one comes back past the lock.
LEMMA MainRecovers ==
    ASSUME NEW d, NEW r, NEW L, NEW T, NEW R, NEW U, NEW ld, NEW sd, NEW n,
           MainOK(d, r, L, T, R, U, ld, sd, n),
           NEW v \in Workflows, NEW X \in SUBSET Triggers, NEW W,
           (X \subseteq R[v] /\ W = U) \/ W = U \cup {v}
    PROVE  MainOK(d, r, L, T, [R EXCEPT ![v] = X], W, ld, sd, n)
<1> DEFINE Q == [R EXCEPT ![v] = X]
<1>1. /\ LocksOK(d, r, L, T) /\ MainTypes(d, r, L, T, R, U, ld, sd)
      /\ OrderOK(T, ld, sd, n) /\ CoverOK(d, r, T, R, U, ld)
      /\ R \in [Workflows -> SUBSET Triggers] /\ U \subseteq Workflows
  BY DEF MainOK, MainTypes
<1>2. Q \in [Workflows -> SUBSET Triggers] /\ Q[v] = X /\ \A w \in Workflows \ {v} : Q[w] = R[w]
  BY <1>1
<1> HIDE DEF Q
<1>3. MainTypes(d, r, L, T, Q, W, ld, sd)
  BY <1>1, <1>2 DEF MainTypes
<1>4. CoverOK(d, r, T, Q, W, ld)
  BY <1>1, <1>2 DEF CoverOK
<1> QED BY <1>1, <1>3, <1>4 DEF MainOK, Q

-----------------------------------------------------------------------------
(* Every step keeps FollowerInv *)

\* What a step leaves alone.
LEMMA KeptFields ==
    ASSUME ByMain, NEW m \in Mains
    PROVE  /\ [drain EXCEPT ![m] = drain[m]] = drain /\ [record EXCEPT ![m] = record[m]] = record
           /\ [lock EXCEPT ![m] = lock[m]] = lock /\ [teardown EXCEPT ![m] = teardown[m]] = teardown
           /\ [registered EXCEPT ![m] = registered[m]] = registered
           /\ [escaped EXCEPT ![m] = escaped[m]] = escaped
           /\ [isLeader EXCEPT ![m] = isLeader[m]] = isLeader
           /\ [isShuttingDown EXCEPT ![m] = isShuttingDown[m]] = isShuttingDown
BY DEF ByMain

mainVars == <<drain, record, lock, teardown, registered, escaped, isLeader, isShuttingDown, takeovers>>

\* A step that changes nothing that FollowerInv says of the mains.
LEMMA RestKeeps ==
    ASSUME FollowerInv, UNCHANGED mainVars, RestOK'
    PROVE  FollowerInv'
<1>1. ByMain /\ \A n \in Mains : MainInv(n)
  BY InvByMain
<1>2. ByMain' /\ \A n \in Mains : MainInv(n)'
  BY <1>1 DEF mainVars, ByMain, MainInv
<1> QED BY <1>2, InvByMainNext

\* A row is not NoRecord.
LEMMA RowIsRecord == NoRecord \notin Rows
BY PublicationAssumption

\* Publish, unpublish, the enqueue of a takeover and a wake-up.
LEMMA FollowerRequests ==
    ASSUME FollowerInv,
           \/ \E w \in Workflows : Unpublish(w) \/ \E v \in Versions : Publish(w, v)
           \/ \E m \in Mains : EnqueueActiveWorkflows(m) \/ WakeUp(m)
    PROVE  FollowerInv'
<1>1. RestOK
  BY InvByMain
<1>2. ASSUME NEW w \in Workflows, Unpublish(w) PROVE FollowerInv'
  <2>1. active[w] \in Versions
    BY <1>1, <1>2 DEF RestOK, Unpublish
  <2>2. Table(outbox')
    BY <1>1, <1>2, <2>1, RequestOne, UpsertedIs DEF Unpublish, RestOK
  <2>3. active' \in [Workflows -> Versions \cup {NoVersion}]
    BY <1>1, <1>2 DEF RestOK, Unpublish
  <2>4. UNCHANGED mainVars /\ edits' \in Nat
        /\ UNCHANGED <<published, isPolling, enqueuing, plan, recovering, outcome, takeovers, faults>>
    BY <1>1, <1>2 DEF Unpublish, mainVars, roleVars, drainVars, triggerVars, RestOK
  <2>5. RestOK'
    BY <1>1, <2>2, <2>3, <2>4 DEF RestOK
  <2> QED BY <2>4, <2>5, RestKeeps
<1>3. ASSUME NEW w \in Workflows, NEW v \in Versions, Publish(w, v) PROVE FollowerInv'
  <2>2. Table(outbox')
    BY <1>1, <1>3, RequestOne, UpsertedIs DEF Publish, RestOK
  <2>3. active' \in [Workflows -> Versions \cup {NoVersion}]
    BY <1>1, <1>3 DEF RestOK, Publish
  <2>4. UNCHANGED mainVars /\ edits' \in Nat
        /\ UNCHANGED <<published, isPolling, enqueuing, plan, recovering, outcome, takeovers, faults>>
    BY <1>1, <1>3 DEF Publish, mainVars, roleVars, drainVars, triggerVars, RestOK
  <2>5. RestOK'
    BY <1>1, <2>2, <2>3, <2>4 DEF RestOK
  <2> QED BY <2>4, <2>5, RestKeeps
<1>4. ASSUME NEW m \in Mains, EnqueueActiveWorkflows(m) PROVE FollowerInv'
  <2>2. Table(outbox')
    BY <1>1, <1>4, RequestActive, UpsertedIs DEF EnqueueActiveWorkflows, RestOK
  <2>3. isPolling' \in [Mains -> BOOLEAN] /\ enqueuing' \subseteq Mains
    BY <1>1, <1>4 DEF RestOK, EnqueueActiveWorkflows
  <2>4. UNCHANGED mainVars
        /\ UNCHANGED <<active, published, plan, recovering, outcome, edits, takeovers, faults>>
    BY <1>1, <1>4 DEF EnqueueActiveWorkflows, mainVars, roleVars, drainVars, triggerVars, RestOK
  <2>5. RestOK'
    BY <1>1, <2>2, <2>3, <2>4 DEF RestOK
  <2> QED BY <2>4, <2>5, RestKeeps
<1>5. ASSUME NEW m \in Mains, WakeUp(m) PROVE FollowerInv'
  <2>3. isPolling' \in [Mains -> BOOLEAN] /\ faults' \in Nat
    BY <1>1, <1>5 DEF RestOK, WakeUp, Fault
  <2>4. UNCHANGED mainVars
        /\ UNCHANGED <<active, published, outbox, enqueuing, plan, recovering, outcome, edits, takeovers>>
    BY <1>1, <1>5 DEF WakeUp, mainVars, dbVars, drainVars, triggerVars
  <2>5. RestOK'
    BY <1>1, <2>3, <2>4 DEF RestOK
  <2> QED BY <2>4, <2>5, RestKeeps
<1> QED BY <1>2, <1>3, <1>4, <1>5

\* A takeover.
LEMMA FollowerTakeover ==
    ASSUME FollowerInv, NEW m \in Mains, Takeover(m)
    PROVE  FollowerInv'
<1>1. RestOK /\ ByMain /\ \A n \in Mains : MainInv(n)
  BY InvByMain
<1>2. /\ takeovers \in Nat /\ takeovers' = takeovers + 1 /\ takeovers' <= MaxTakeovers
      /\ takeovers' \in Teardowns /\ takeovers' \in Nat
  BY <1>1, PublicationAssumption DEF RestOK, Takeover, Teardowns
<1>3. UNCHANGED <<drain, record, lock, teardown, registered, escaped, isShuttingDown, plan, recovering,
                  active, published, outbox, isPolling, outcome, edits, faults>>
  BY DEF Takeover, dbVars, drainVars, triggerVars
<1>4. RestOK'
  BY <1>1, <1>2, <1>3 DEF RestOK, Takeover
<1>5. ByMain'
  BY <1>1, <1>3 DEF ByMain, Takeover
<1>6. ASSUME NEW n \in Mains PROVE MainInv(n)'
  <2> DEFINE d == drain[n]
             r == record[n]
             L == lock[n]
             T == teardown[n]
             R == registered[n]
             U == escaped[n]
             sd == isShuttingDown[n]
             ld == isLeader'[n]
  <2>1. MainOK(d, r, L, T, R, U, isLeader[n], sd, takeovers)
    BY <1>1 DEF MainInv
  <2>2. ld \in BOOLEAN /\ (isLeader[n] => ld)
    <3>1. CASE n = m
      BY <1>1, <3>1 DEF Takeover, ByMain
    <3>2. CASE n # m
      BY <1>1, <2>1, <3>2 DEF Takeover, ByMain, MainOK, MainTypes
    <3> QED BY <3>1, <3>2
  <2>3. T[takeovers'] = NoTeardown /\ \A k \in Teardowns : k > takeovers' => T[k] = NoTeardown
    BY <1>2, <2>1 DEF MainOK, OrderOK, Teardowns
  <2> HIDE DEF d, r, L, T, R, U, sd, ld
  <2>4. MainOK(d, r, L, T, R, U, ld, sd, takeovers')
    BY <2>1, <2>2, <2>3 DEF MainOK, MainTypes, OrderOK, CoverOK
  <2> QED BY <1>3, <2>4 DEF MainInv, d, r, L, T, R, U, sd, ld
<1> QED BY <1>4, <1>5, <1>6, InvByMainNext

\* A stepdown, a shutdown and a restart.
LEMMA FollowerRoles ==
    ASSUME FollowerInv, NEW m \in Mains, Stepdown(m) \/ Shutdown(m) \/ Restart(m)
    PROVE  FollowerInv'
<1>1. RestOK /\ ByMain /\ MainInv(m)
  BY InvByMain
<1>2. takeovers \in Teardowns /\ takeovers \in Nat
  BY <1>1, PublicationAssumption DEF RestOK, Teardowns
<1> DEFINE S == {w \in Workflows : registered[m][w] # {} \/ lock[m][w] # <<>>}
           t == [NoTeardown EXCEPT !.todo = S]
<1>3. ASSUME Stepdown(m) \/ Shutdown(m) PROVE FollowerInv'
  <2>1. isLeader[m] = TRUE /\ isShuttingDown[m] = FALSE
    BY <1>1, <1>3 DEF Stepdown, Shutdown, MainInv, MainOK, MainTypes
  <2>2. /\ teardown' = [teardown EXCEPT ![m] = [teardown[m] EXCEPT ![takeovers] = t]]
        /\ isPolling' = [isPolling EXCEPT ![m] = FALSE]
    BY <1>3 DEF Stepdown, Shutdown, BeginTeardown
  <2>3. UNCHANGED <<drain, record, lock, registered, escaped, plan, recovering, enqueuing, takeovers,
                    active, published, outbox, outcome, edits, faults>>
    BY <1>3 DEF Stepdown, Shutdown, dbVars, drainVars
  <2>4. RestOK'
    BY <1>1, <2>2, <2>3 DEF RestOK
  <2>5. PICK b \in BOOLEAN : /\ isLeader' = [isLeader EXCEPT ![m] = b]
                             /\ isShuttingDown' = [isShuttingDown EXCEPT ![m] = b]
    <3>1. CASE Stepdown(m)
      <4>1. isLeader' = [isLeader EXCEPT ![m] = FALSE] /\ isShuttingDown' = [isShuttingDown EXCEPT ![m] = FALSE]
        BY <1>1, <2>1, <3>1, KeptFields DEF Stepdown
      <4> QED BY <4>1
    <3>2. CASE Shutdown(m)
      <4>1. isLeader' = [isLeader EXCEPT ![m] = TRUE] /\ isShuttingDown' = [isShuttingDown EXCEPT ![m] = TRUE]
        BY <1>1, <2>1, <3>2, KeptFields DEF Shutdown
      <4> QED BY <4>1
    <3> QED BY <1>3, <3>1, <3>2
  <2>6. MainOK(drain[m], record[m], lock[m], teardown[m], registered[m], escaped[m], TRUE, FALSE, takeovers)
    BY <1>1, <2>1 DEF MainInv
  <2>7. MainOK(drain[m], record[m], lock[m], [teardown[m] EXCEPT ![takeovers] = t],
               registered[m], escaped[m], b, b, takeovers)
    <3>1. S \in SUBSET Workflows /\ \A w \in Workflows : registered[m][w] # {} \/ lock[m][w] # <<>> => w \in S
      OBVIOUS
    <3> HIDE DEF S
    <3> QED BY <1>2, <2>5, <2>6, <3>1, MainBegins
  <2> HIDE DEF t
  <2>8. Sets(m, drain[m], record[m], lock[m], [teardown[m] EXCEPT ![takeovers] = t],
             registered[m], escaped[m], b, b)
    BY <1>1, <2>2, <2>3, <2>5, KeptFields DEF Sets
  <2> QED BY <2>3, <2>4, <2>7, <2>8, SetsKeeps
<1>4. ASSUME Restart(m) PROVE FollowerInv'
  <2>1. /\ UNCHANGED <<active, published, outbox, takeovers, outcome, edits>>
        /\ faults' \in Nat /\ enqueuing' \subseteq Mains
        /\ isPolling' \in [Mains -> BOOLEAN] /\ recovering' \in [Mains -> SUBSET Recoveries]
    BY <1>1, <1>4 DEF Restart, dbVars, RestOK, Fault
  <2>2. plan' \in [Mains -> Plans]
    <3>1. NoPlan \in Plans
      BY DEF NoPlan, Plans
    <3> QED BY <1>1, <1>4, <3>1 DEF Restart, RestOK
  <2>3. RestOK'
    BY <1>1, <2>1, <2>2 DEF RestOK
  <2>4. Sets(m, "idle", NoRecord, [w \in Workflows |-> <<>>], [k \in Teardowns |-> NoTeardown],
             [w \in Workflows |-> {}], {}, FALSE, FALSE)
    BY <1>4 DEF Restart, Sets
  <2> QED BY <1>2, <2>1, <2>3, <2>4, MainStarts, SetsKeeps
<1> QED BY <1>3, <1>4

\* The hypotheses that the lemmas on one main start from.
LEMMA MainOf ==
    ASSUME FollowerInv, NEW m \in Mains
    PROVE  /\ RestOK /\ ByMain
           /\ MainOK(drain[m], record[m], lock[m], teardown[m], registered[m], escaped[m],
                     isLeader[m], isShuttingDown[m], takeovers)
           /\ MainTypes(drain[m], record[m], lock[m], teardown[m], registered[m], escaped[m],
                        isLeader[m], isShuttingDown[m])
           /\ LocksOK(drain[m], record[m], lock[m], teardown[m])
BY InvByMain DEF MainInv, MainOK

\* The lock of a record that is applied is the record's.
LEMMA RecordOwnsLock ==
    ASSUME FollowerInv, NEW m \in Mains,
           \/ drain[m] \in Applying
           \/ drain[m] = "enter" /\ OwnsLock(m, record[m].workflow, RecordOwner)
    PROVE  /\ record[m] \in Rows /\ record[m] # NoRecord /\ record[m].workflow \in Workflows
           /\ IsFirst(lock[m][record[m].workflow], RecordOwner)
<1>1. record[m] \in Rows /\ record[m] # NoRecord
  BY MainOf DEF MainTypes, Applying
<1>2. record[m].workflow \in Workflows
  BY <1>1 DEF Rows
<1> QED BY <1>1, <1>2, MainOf DEF LocksOK, QueueOK, OwnsLock, IsFirst

\* A claim.
LEMMA FollowerClaims ==
    ASSUME FollowerInv, NEW m \in Mains, StartClaim(m) \/ Claim(m)
    PROVE  FollowerInv'
<1>1. /\ RestOK /\ ByMain
      /\ MainOK(drain[m], record[m], lock[m], teardown[m], registered[m], escaped[m],
                isLeader[m], isShuttingDown[m], takeovers)
  BY MainOf
<1>2. /\ UNCHANGED <<active, published, isLeader, isPolling, isShuttingDown, enqueuing, takeovers, plan,
                     teardown, registered, recovering, escaped, outcome, edits, faults>>
      /\ drain[m] \in {"idle", "claim"}
  BY DEF StartClaim, Claim, dbVars, roleVars, triggerVars
<1>3. ASSUME NEW e \in {"idle", "claim"}, drain' = [drain EXCEPT ![m] = e], UNCHANGED <<outbox, record, lock>>
      PROVE  FollowerInv'
  <2>1. RestOK'
    BY <1>1, <1>2, <1>3 DEF RestOK
  <2>2. Sets(m, e, record[m], lock[m], teardown[m], registered[m], escaped[m], isLeader[m], isShuttingDown[m])
    BY <1>1, <1>2, <1>3, KeptFields DEF Sets
  <2>3. MainOK(e, record[m], lock[m], teardown[m], registered[m], escaped[m],
               isLeader[m], isShuttingDown[m], takeovers)
    BY <1>1, <1>2, <1>3, MainIdles
  <2> QED BY <1>2, <2>1, <2>2, <2>3, SetsKeeps
<1>4. ASSUME NEW i \in DOMAIN outbox, outbox' = [outbox EXCEPT ![i].status = "in_progress"],
             record' = [record EXCEPT ![m] = outbox'[i]], drain' = [drain EXCEPT ![m] = "enter"],
             lock' = Acquired(m, outbox[i].workflow, RecordOwner)
      PROVE  FollowerInv'
  <2> DEFINE x == outbox'[i]
  <2>1. Table(outbox') /\ x \in Rows /\ x.workflow = outbox[i].workflow
    BY <1>1, <1>4, ClaimedIs DEF RestOK
  <2>2. x # NoRecord
    BY <2>1, RowIsRecord
  <2>3. RestOK'
    BY <1>1, <1>2, <2>1 DEF RestOK
  <2>4. MainOK("enter", x, [lock[m] EXCEPT ![x.workflow] = Append(@, RecordOwner)], teardown[m],
               registered[m], escaped[m], isLeader[m], isShuttingDown[m], takeovers)
    <3> HIDE DEF x
    <3> QED BY <1>1, <1>2, <2>1, <2>2, MainClaims
  <2>5. lock' = [lock EXCEPT ![m] = [lock[m] EXCEPT ![x.workflow] = Append(@, RecordOwner)]]
    BY <1>4, <2>1 DEF Acquired
  <2> HIDE DEF x
  <2>6. record' = [record EXCEPT ![m] = x]
    BY <1>4 DEF x
  <2>7. Sets(m, "enter", x, [lock[m] EXCEPT ![x.workflow] = Append(@, RecordOwner)], teardown[m],
             registered[m], escaped[m], isLeader[m], isShuttingDown[m])
    BY <1>1, <1>2, <1>4, <2>5, <2>6, KeptFields DEF Sets
  <2> QED BY <1>2, <2>3, <2>4, <2>7, SetsKeeps
<1>5. CASE StartClaim(m)
  <2>1. drain' = [drain EXCEPT ![m] = "claim"] /\ UNCHANGED <<outbox, record, lock>>
    BY <1>5 DEF StartClaim, dbVars, triggerVars
  <2> QED BY <1>3, <2>1
<1>6. CASE Claim(m)
  <2>1. CASE drain' = [drain EXCEPT ![m] = "idle"] /\ UNCHANGED <<outbox, record, lock>>
    BY <1>3, <2>1
  <2>2. CASE \E i \in DOMAIN outbox :
               /\ outbox' = [outbox EXCEPT ![i].status = "in_progress"]
               /\ record' = [record EXCEPT ![m] = outbox'[i]]
               /\ drain' = [drain EXCEPT ![m] = "enter"]
               /\ lock' = Acquired(m, outbox[i].workflow, RecordOwner)
    BY <1>4, <2>2
  <2> QED BY <1>6, <2>1, <2>2 DEF Claim
<1> QED BY <1>5, <1>6

\* A record that goes back to the queue, and one that is reported.
LEMMA FollowerFinishes ==
    ASSUME FollowerInv, NEW m \in Mains, ReturnRecord(m) \/ Report(m)
    PROVE  FollowerInv'
<1>1. /\ RestOK /\ ByMain
      /\ MainOK(drain[m], record[m], lock[m], teardown[m], registered[m], escaped[m],
                isLeader[m], isShuttingDown[m], takeovers)
  BY MainOf
<1> DEFINE w == record[m].workflow
<1>2. record[m] # NoRecord /\ w \in Workflows /\ IsFirst(lock[m][w], RecordOwner)
  BY RecordOwnsLock DEF ReturnRecord, Report, Applying
<1>3. /\ UNCHANGED <<active, published, isLeader, isPolling, isShuttingDown, enqueuing, takeovers,
                     teardown, registered, recovering, escaped, outcome, edits>>
      /\ drain' = [drain EXCEPT ![m] = "idle"] /\ record' = [record EXCEPT ![m] = NoRecord]
      /\ plan' = [plan EXCEPT ![m] = NoPlan]
      /\ lock' = [lock EXCEPT ![m] = [lock[m] EXCEPT ![w] = Tail(@)]]
  BY DEF ReturnRecord, Report, Finish, Released, roleVars
<1>4. Table(outbox') /\ faults' \in Nat
  <2>1. CASE ReturnRecord(m)
    BY <1>1, <2>1, ReturnedIs DEF ReturnRecord, RestOK
  <2>2. CASE Report(m)
    <3>1. CASE outbox' = Ended(record[m]) /\ UNCHANGED faults
      BY <1>1, <3>1, EndedIs DEF Ended, RestOK
    <3>2. CASE Fault("unreported") /\ UNCHANGED outbox
      BY <1>1, <3>2 DEF Fault, RestOK
    <3> QED BY <2>2, <3>1, <3>2 DEF Report
  <2> QED BY <2>1, <2>2
<1>5. plan' \in [Mains -> Plans]
  <2>1. NoPlan \in Plans
    BY DEF NoPlan, Plans
  <2> QED BY <1>1, <1>3, <2>1 DEF RestOK
<1>6. RestOK'
  BY <1>1, <1>3, <1>4, <1>5 DEF RestOK
<1>7. MainOK("idle", NoRecord, [lock[m] EXCEPT ![w] = Tail(@)], teardown[m], registered[m], escaped[m],
             isLeader[m], isShuttingDown[m], takeovers)
  BY <1>1, <1>2, MainFinishes
<1> HIDE DEF w
<1>8. Sets(m, "idle", NoRecord, [lock[m] EXCEPT ![w] = Tail(@)], teardown[m], registered[m], escaped[m],
           isLeader[m], isShuttingDown[m])
  BY <1>1, <1>3, KeptFields DEF Sets
<1> QED BY <1>3, <1>6, <1>7, <1>8, SetsKeeps

\* A version's triggers, and the nodes of triggers.
LEMMA VersionTriggers ==
    /\ \A v \in Versions \cup {NoVersion} : OfVersion(v) \subseteq Triggers
    /\ \A X, Y : X \subseteq Y => Nodes(X) \subseteq Nodes(Y)
<1>1. ASSUME NEW v \in Versions \cup {NoVersion} PROVE OfVersion(v) \subseteq Triggers
  <2>1. CASE v = NoVersion
    BY <2>1 DEF OfVersion
  <2>2. CASE v # NoVersion
    BY <2>2 DEF OfVersion, Triggers
  <2> QED BY <2>1, <2>2
<1>2. ASSUME NEW X, NEW Y, X \subseteq Y PROVE Nodes(X) \subseteq Nodes(Y)
  BY <1>2 DEF Nodes
<1> QED BY <1>1, <1>2

\* What resolveVersions() makes of a record and the published version is a plan.
LEMMA ResolvedPlan ==
    ASSUME FollowerInv, NEW m \in Mains, record[m] \in Rows
    PROVE  LET w == record[m].workflow
               old == OfVersion(published[w])
               new == OfVersion(record[m].version)
           IN  /\ [unpublish |-> TRUE, remove |-> Nodes(old), add |-> {}] \in Plans
               /\ [unpublish |-> FALSE, remove |-> Nodes(old \ new),
                   add |-> Nodes(new \ old) \cup Unregistered(m, w, new)] \in Plans
<1> DEFINE w == record[m].workflow
           old == OfVersion(published[w])
           new == OfVersion(record[m].version)
<1>1. w \in Workflows /\ record[m].version \in Versions /\ published[w] \in Versions \cup {NoVersion}
  BY MainOf DEF Rows, RestOK
<1>2. old \subseteq Triggers /\ new \subseteq Triggers
  BY <1>1, VersionTriggers
<1> HIDE DEF w, old, new
<1>3. Nodes(old) \subseteq Nodes(Triggers) /\ Nodes(new) \subseteq Nodes(Triggers)
      /\ Nodes(old \ new) \subseteq Nodes(Triggers) /\ Nodes(new \ old) \subseteq Nodes(Triggers)
  <2>1. old \ new \subseteq Triggers /\ new \ old \subseteq Triggers
    BY <1>2
  <2> QED BY <1>2, <2>1, VersionTriggers
<1>4. Nodes(new \ old) \cup Unregistered(m, w, new) \subseteq Nodes(Triggers)
  BY <1>3 DEF Unregistered
<1> QED BY <1>3, <1>4 DEF Plans, w, old, new

\* A step of a record that owns its lock: the applier goes on to e and leaves
\* the triggers X.
LEMMA FollowerApplies ==
    ASSUME FollowerInv, NEW m \in Mains, NEW e \in Applying, NEW X \in SUBSET Triggers,
           drain[m] \in Applying \/ (drain[m] = "enter" /\ OwnsLock(m, record[m].workflow, RecordOwner) /\ isLeader[m]),
           drain' = [drain EXCEPT ![m] = e],
           registered' = [registered EXCEPT ![m] = [registered[m] EXCEPT ![record[m].workflow] = X]],
           UNCHANGED <<record, lock, teardown, escaped, isLeader, isShuttingDown, takeovers>>, RestOK'
    PROVE  FollowerInv'
<1>1. /\ ByMain
      /\ MainOK(drain[m], record[m], lock[m], teardown[m], registered[m], escaped[m],
                isLeader[m], isShuttingDown[m], takeovers)
  BY MainOf
<1>2. record[m] # NoRecord /\ IsFirst(lock[m][record[m].workflow], RecordOwner)
  BY RecordOwnsLock
<1>3. MainOK(e, record[m], lock[m], teardown[m], [registered[m] EXCEPT ![record[m].workflow] = X],
             escaped[m], isLeader[m], isShuttingDown[m], takeovers)
  BY <1>1, <1>2, MainApplies
<1>4. Sets(m, e, record[m], lock[m], teardown[m], [registered[m] EXCEPT ![record[m].workflow] = X],
           escaped[m], isLeader[m], isShuttingDown[m])
  BY <1>1, KeptFields DEF Sets
<1> QED BY <1>3, <1>4, SetsKeeps

\* The diff of a record and the published version is taken.
LEMMA FollowerResolves ==
    ASSUME FollowerInv, NEW m \in Mains, Resolve(m)
    PROVE  FollowerInv'
<1>1. RestOK /\ ByMain /\ registered[m] \in [Workflows -> SUBSET Triggers]
  BY MainOf DEF MainTypes
<1>2. record[m] \in Rows /\ record[m].workflow \in Workflows
  BY RecordOwnsLock DEF Resolve
<1>3. UNCHANGED <<active, published, outbox, isLeader, isPolling, isShuttingDown, enqueuing, takeovers,
                  record, lock, teardown, registered, recovering, escaped, edits, faults>>
  BY DEF Resolve, dbVars, roleVars, triggerVars
<1>4. plan' \in [Mains -> Plans]
  BY <1>1, <1>2, ResolvedPlan DEF Resolve, RestOK
<1>5. outcome' \in [Workflows -> {"none", "ok", "failed", "partial"}]
  BY <1>1, <1>2 DEF Resolve, RestOK
<1>6. RestOK'
  BY <1>1, <1>3, <1>4, <1>5 DEF RestOK
<1>7. \E e \in Applying : drain' = [drain EXCEPT ![m] = e]
  <2> DEFINE skipped == active[record[m].workflow] = NoVersion /\ published[record[m].workflow] = NoVersion
             e == CASE skipped -> "report"
                    [] plan'[m].remove # {} -> "remove"
                    [] OTHER -> "advance"
  <2>1. drain' = [drain EXCEPT ![m] = e]
    BY DEF Resolve
  <2>2. e \in Applying
    <3> HIDE DEF skipped
    <3> QED BY DEF Applying
  <2> HIDE DEF e
  <2> QED BY <2>1, <2>2
<1>8. /\ registered' = [registered EXCEPT ![m] = [registered[m] EXCEPT ![record[m].workflow] =
                                                    registered[m][record[m].workflow]]]
      /\ registered[m][record[m].workflow] \in SUBSET Triggers
  BY <1>1, <1>2, <1>3, KeptFields
<1>9. drain[m] = "enter" /\ OwnsLock(m, record[m].workflow, RecordOwner) /\ isLeader[m]
  BY DEF Resolve
<1>10. PICK e \in Applying : drain' = [drain EXCEPT ![m] = e]
  BY <1>7
<1> DEFINE X == registered[m][record[m].workflow]
<1>11. X \in SUBSET Triggers
       /\ registered' = [registered EXCEPT ![m] = [registered[m] EXCEPT ![record[m].workflow] = X]]
  BY <1>8
<1> HIDE DEF X
<1> QED BY <1>3, <1>6, <1>9, <1>10, <1>11, FollowerApplies

\* Triggers are removed and registered, and the published version moves between.
LEMMA FollowerMoves ==
    ASSUME FollowerInv, NEW m \in Mains,
           Deactivate(m) \/ DeactivateFails(m) \/ Advance(m) \/ Activate(m)
    PROVE  FollowerInv'
<1> DEFINE w == record[m].workflow
<1>1. RestOK /\ ByMain /\ registered[m] \in [Workflows -> SUBSET Triggers]
  BY MainOf DEF MainTypes
<1>2. drain[m] \in Applying
  BY DEF Deactivate, DeactivateFails, Advance, Activate, Applying
<1>3. record[m] \in Rows /\ w \in Workflows
  BY <1>2, RecordOwnsLock
<1>4. record[m].version \in Versions /\ OfVersion(record[m].version) \subseteq Triggers
  BY <1>3, VersionTriggers DEF Rows
<1>5. UNCHANGED <<active, outbox, isLeader, isPolling, isShuttingDown, enqueuing, takeovers,
                  plan, record, lock, teardown, recovering, escaped, edits>>
  BY DEF Deactivate, DeactivateFails, Advance, Activate, dbVars, roleVars, triggerVars
<1>6. \E e \in Applying : drain' = [drain EXCEPT ![m] = e]
  BY DEF Deactivate, DeactivateFails, Advance, Activate, Applying
<1>7. \A nodes : Without(m, w, nodes) \in SUBSET Triggers
  BY <1>1, <1>3 DEF Without
<1>8. \E X \in SUBSET Triggers : registered' = [registered EXCEPT ![m] = [registered[m] EXCEPT ![w] = X]]
  <2>1. CASE Deactivate(m)
    <3>1. registered' = [registered EXCEPT ![m] = [registered[m] EXCEPT ![w] = Without(m, w, plan[m].remove)]]
      BY <2>1 DEF Deactivate
    <3> QED BY <1>7, <3>1
  <2>2. CASE DeactivateFails(m)
    <3>1. PICK closed : registered' = [registered EXCEPT ![m] = [registered[m] EXCEPT ![w] = Without(m, w, closed)]]
      BY <2>2 DEF DeactivateFails
    <3> QED BY <1>7, <3>1
  <2>3. CASE Advance(m)
    <3>1. registered' = [registered EXCEPT ![m] = [registered[m] EXCEPT ![w] = registered[m][w]]]
      BY <1>1, <1>3, <2>3, KeptFields DEF Advance, triggerVars
    <3>2. registered[m][w] \in SUBSET Triggers
      BY <1>1, <1>3
    <3> QED BY <3>1, <3>2
  <2>4. CASE Activate(m)
    <3>1. PICK failures \in SUBSET plan[m].add :
            LET added == {t \in OfVersion(record[m].version) : t.node \in plan[m].add \ failures}
            IN  registered' = [registered EXCEPT ![m] = [registered[m] EXCEPT ![w] =
                                 Without(m, w, Nodes(added)) \cup added]]
      BY <2>4 DEF Activate
    <3> DEFINE added == {t \in OfVersion(record[m].version) : t.node \in plan[m].add \ failures}
    <3>2. Without(m, w, Nodes(added)) \cup added \in SUBSET Triggers
      BY <1>4, <1>7
    <3> QED BY <3>1, <3>2
  <2> QED BY <2>1, <2>2, <2>3, <2>4
<1>9. RestOK'
  <2>1. published' \in [Workflows -> Versions \cup {NoVersion}]
    BY <1>1, <1>3, <1>4 DEF RestOK, Deactivate, DeactivateFails, Advance, Activate, dbVars
  <2>2. outcome' \in [Workflows -> {"none", "ok", "failed", "partial"}]
    <3>1. \E o \in {"ok", "failed", "partial"} : outcome' = outcome \/ outcome' = [outcome EXCEPT ![w] = o]
      BY DEF Deactivate, DeactivateFails, Advance, Activate
    <3> QED BY <1>1, <1>3, <3>1 DEF RestOK
  <2>3. faults' \in Nat
    <3>1. faults' = faults \/ faults' = faults + 1
      BY DEF Deactivate, DeactivateFails, Advance, Activate, Fault
    <3> QED BY <1>1, <3>1 DEF RestOK
  <2> QED BY <1>1, <1>5, <2>1, <2>2, <2>3 DEF RestOK
<1> HIDE DEF w
<1>10. PICK e \in Applying, X \in SUBSET Triggers :
         /\ drain' = [drain EXCEPT ![m] = e]
         /\ registered' = [registered EXCEPT ![m] = [registered[m] EXCEPT ![w] = X]]
  BY <1>6, <1>8
<1> QED BY <1>2, <1>5, <1>9, <1>10, FollowerApplies DEF w

\* The teardown of a former leader: a workflow is put off, locked, torn down.
LEMMA FollowerTearsDown ==
    ASSUME FollowerInv, NEW m \in Mains, NEW k \in Teardowns,
           TeardownVisit(m, k) \/ TeardownWait(m, k) \/ TeardownRemove(m, k) \/ TeardownThrows(m, k)
    PROVE  FollowerInv'
<1>1. /\ RestOK /\ ByMain
      /\ MainOK(drain[m], record[m], lock[m], teardown[m], registered[m], escaped[m],
                isLeader[m], isShuttingDown[m], takeovers)
      /\ teardown[m][k] \in Snapshots /\ lock[m] \in [Workflows -> Seq(Owners)]
      /\ registered[m] \in [Workflows -> SUBSET Triggers]
  BY MainOf DEF MainTypes
<1>2. UNCHANGED <<active, published, outbox, isLeader, isPolling, isShuttingDown, enqueuing, takeovers,
                  plan, drain, record, recovering, outcome, edits>>
  BY DEF TeardownVisit, TeardownWait, TeardownRemove, TeardownThrows, dbVars, roleVars, drainVars
<1>3. RestOK'
  <2>1. faults' = faults \/ faults' = faults + 1
    <3>1. CASE TeardownVisit(m, k) \/ TeardownWait(m, k)
      BY <3>1 DEF TeardownVisit, TeardownWait
    <3>2. CASE TeardownRemove(m, k) \/ TeardownThrows(m, k)
      BY <3>2 DEF TeardownRemove, TeardownThrows, Fault
    <3> QED BY <3>1, <3>2
  <2>2. faults' \in Nat
    BY <1>1, <2>1 DEF RestOK
  <2> QED BY <1>1, <1>2, <2>2 DEF RestOK
<1>4. ASSUME NEW v \in teardown[m][k].todo, UNCHANGED <<lock, registered, escaped>>,
             Update(m, k, DeferLocked(teardown[m][k], v))
      PROVE  FollowerInv'
  <2>1. MainOK(drain[m], record[m], lock[m], [teardown[m] EXCEPT ![k] = DeferLocked(teardown[m][k], v)],
               registered[m], escaped[m], isLeader[m], isShuttingDown[m], takeovers)
    BY <1>1, MainDefers
  <2>2. teardown' = [teardown EXCEPT ![m] = [teardown[m] EXCEPT ![k] = DeferLocked(teardown[m][k], v)]]
    BY <1>4 DEF Update
  <2>3. Sets(m, drain[m], record[m], lock[m], [teardown[m] EXCEPT ![k] = DeferLocked(teardown[m][k], v)],
             registered[m], escaped[m], isLeader[m], isShuttingDown[m])
    BY <1>1, <1>2, <1>4, <2>2, KeptFields DEF Sets
  <2> QED BY <1>2, <1>3, <2>1, <2>3, SetsKeeps
<1>5. ASSUME NEW v \in teardown[m][k].todo \cup teardown[m][k].deferred, NEW t \in Snapshots,
             t.current = {v}, teardown[m][k].current = {}, UNCHANGED <<registered, escaped>>,
             teardown[m][k].todo \cup teardown[m][k].deferred \subseteq t.todo \cup t.deferred \cup {v},
             Update(m, k, t), lock' = Acquired(m, v, k)
      PROVE  FollowerInv'
  <2>1. MainOK(drain[m], record[m], [lock[m] EXCEPT ![v] = Append(@, k)], [teardown[m] EXCEPT ![k] = t],
               registered[m], escaped[m], isLeader[m], isShuttingDown[m], takeovers)
    BY <1>1, <1>5, MainQueues
  <2>2. /\ teardown' = [teardown EXCEPT ![m] = [teardown[m] EXCEPT ![k] = t]]
        /\ lock' = [lock EXCEPT ![m] = [lock[m] EXCEPT ![v] = Append(@, k)]]
    BY <1>5 DEF Update, Acquired
  <2>3. Sets(m, drain[m], record[m], [lock[m] EXCEPT ![v] = Append(@, k)], [teardown[m] EXCEPT ![k] = t],
             registered[m], escaped[m], isLeader[m], isShuttingDown[m])
    BY <1>1, <1>2, <1>5, <2>2, KeptFields DEF Sets
  <2> QED BY <1>2, <1>3, <2>1, <2>3, SetsKeeps
<1>6. CASE TeardownVisit(m, k)
  <2>1. PICK v \in teardown[m][k].todo :
          IF lock[m][v] # <<>>
            THEN Update(m, k, DeferLocked(teardown[m][k], v)) /\ UNCHANGED lock
            ELSE /\ Update(m, k, [teardown[m][k] EXCEPT !.todo = @ \ {v}, !.current = {v}])
                 /\ lock' = Acquired(m, v, k)
    BY <1>6 DEF TeardownVisit
  <2>2. teardown[m][k].current = {} /\ UNCHANGED <<registered, escaped>>
    BY <1>6 DEF TeardownVisit
  <2>3. CASE lock[m][v] # <<>>
    BY <1>4, <2>1, <2>2, <2>3
  <2>4. CASE lock[m][v] = <<>>
    <3> DEFINE t == [teardown[m][k] EXCEPT !.todo = @ \ {v}, !.current = {v}]
    <3>1. /\ t \in Snapshots /\ t.current = {v}
          /\ teardown[m][k].todo \cup teardown[m][k].deferred \subseteq t.todo \cup t.deferred \cup {v}
      BY <1>1 DEF Snapshots
    <3>2. Update(m, k, t) /\ lock' = Acquired(m, v, k)
      BY <2>1, <2>4
    <3> HIDE DEF t
    <3> QED BY <1>5, <2>2, <3>1, <3>2
  <2> QED BY <2>3, <2>4
<1>7. CASE TeardownWait(m, k)
  <2>1. PICK v \in teardown[m][k].deferred :
          /\ Update(m, k, [teardown[m][k] EXCEPT !.deferred = @ \ {v}, !.current = {v}])
          /\ lock' = Acquired(m, v, k)
    BY <1>7 DEF TeardownWait
  <2>2. teardown[m][k].current = {} /\ UNCHANGED <<registered, escaped>>
    BY <1>7 DEF TeardownWait
  <2> DEFINE t == [teardown[m][k] EXCEPT !.deferred = @ \ {v}, !.current = {v}]
  <2>3. /\ t \in Snapshots /\ t.current = {v}
        /\ teardown[m][k].todo \cup teardown[m][k].deferred \subseteq t.todo \cup t.deferred \cup {v}
    BY <1>1 DEF Snapshots
  <2>4. Update(m, k, t) /\ lock' = Acquired(m, v, k)
    BY <2>1
  <2> HIDE DEF t
  <2> QED BY <1>5, <2>2, <2>3, <2>4
<1>8. ASSUME NEW v \in teardown[m][k].current, NEW t \in Snapshots, t.current = {},
             NEW X \in SUBSET Triggers, NEW W \in SUBSET Workflows,
             escaped[m] \ {v} \subseteq W, (X = {} /\ OwnsLock(m, v, k)) \/ v \in W,
             teardown[m][k].todo \cup teardown[m][k].deferred \subseteq t.todo \cup t.deferred \cup W,
             lock' = (IF OwnsLock(m, v, k) THEN Released(m, v) ELSE GivenUp(m, v, k)), Update(m, k, t),
             registered' = [registered EXCEPT ![m][v] = X], escaped' = [escaped EXCEPT ![m] = W]
      PROVE  FollowerInv'
  <2>1. OwnsLock(m, v, k) <=> IsFirst(lock[m][v], k)
    BY DEF OwnsLock, IsFirst
  <2>2. PICK q : /\ LeavesLock(lock[m], v, k, q)
                 /\ lock' = [lock EXCEPT ![m] = [lock[m] EXCEPT ![v] = q]]
    <3>1. CASE OwnsLock(m, v, k)
      <4>1. lock' = [lock EXCEPT ![m] = [lock[m] EXCEPT ![v] = Tail(lock[m][v])]]
        BY <1>8, <3>1 DEF Released
      <4> QED BY <2>1, <3>1, <4>1 DEF LeavesLock
    <3>2. CASE ~OwnsLock(m, v, k)
      <4> DEFINE q == Taken(lock[m][v], {i \in DOMAIN lock[m][v] : lock[m][v][i] = k})
      <4>1. lock' = [lock EXCEPT ![m] = [lock[m] EXCEPT ![v] = q]]
        BY <1>8, <3>2 DEF GivenUp
      <4> QED BY <2>1, <3>2, <4>1 DEF LeavesLock
    <3> QED BY <3>1, <3>2
  <2>3. MainOK(drain[m], record[m], [lock[m] EXCEPT ![v] = q], [teardown[m] EXCEPT ![k] = t],
               [registered[m] EXCEPT ![v] = X], W, isLeader[m], isShuttingDown[m], takeovers)
    <3>1. /\ escaped[m] \ {v} \subseteq W /\ t.current = {}
          /\ (X = {} /\ IsFirst(lock[m][v], k)) \/ v \in W
          /\ teardown[m][k].todo \cup teardown[m][k].deferred \subseteq t.todo \cup t.deferred \cup W
      BY <1>8, <2>1
    <3>2. MainOK(drain[m], record[m], lock[m], teardown[m], registered[m], escaped[m],
                 isLeader[m], isShuttingDown[m], takeovers) /\ LeavesLock(lock[m], v, k, q)
      BY <1>1, <2>2
    <3> QED BY <3>1, <3>2, MainRemoves
  <2>4. /\ teardown' = [teardown EXCEPT ![m] = [teardown[m] EXCEPT ![k] = t]]
        /\ registered' = [registered EXCEPT ![m] = [registered[m] EXCEPT ![v] = X]]
    BY <1>8 DEF Update
  <2>5. Sets(m, drain[m], record[m], [lock[m] EXCEPT ![v] = q], [teardown[m] EXCEPT ![k] = t],
             [registered[m] EXCEPT ![v] = X], W, isLeader[m], isShuttingDown[m])
    BY <1>1, <1>2, <1>8, <2>2, <2>4, KeptFields DEF Sets
  <2> QED BY <1>2, <1>3, <2>3, <2>5, SetsKeeps
<1>9. escaped[m] \subseteq Workflows
  BY MainOf DEF MainTypes
<1>10. CASE TeardownRemove(m, k)
  <2>1. PICK v \in teardown[m][k].current :
          /\ \/ /\ OwnsLock(m, v, k)
                /\ lock' = Released(m, v)
                /\ escaped' = [escaped EXCEPT ![m] = @ \ {v}]
             \/ /\ ~OwnsLock(m, v, k)
                /\ lock' = GivenUp(m, v, k)
                /\ escaped' = [escaped EXCEPT ![m] = @ \cup {v}]
          /\ registered' = [registered EXCEPT ![m][v] = {}]
    BY <1>10 DEF TeardownRemove
  <2>2. PICK W : /\ escaped' = [escaped EXCEPT ![m] = W]
                 /\ (W = escaped[m] \ {v} /\ OwnsLock(m, v, k)) \/ W = escaped[m] \cup {v}
    BY <2>1
  <2>3. lock' = IF OwnsLock(m, v, k) THEN Released(m, v) ELSE GivenUp(m, v, k)
    BY <2>1
  <2> DEFINE t == [teardown[m][k] EXCEPT !.current = {}]
  <2>4. /\ t \in Snapshots /\ t.current = {} /\ v \in Workflows
        /\ teardown[m][k].todo \cup teardown[m][k].deferred \subseteq t.todo \cup t.deferred
    BY <1>1 DEF Snapshots
  <2>5. Update(m, k, t)
    BY <1>10 DEF TeardownRemove
  <2>6. W \in SUBSET Workflows
    BY <1>9, <2>2, <2>4
  <2> HIDE DEF t
  <2> QED BY <1>8, <2>1, <2>2, <2>3, <2>4, <2>5, <2>6
<1>11. CASE TeardownThrows(m, k)
  <2>1. PICK v \in teardown[m][k].current :
          /\ (OwnsLock(m, v, k) /\ lock' = Released(m, v)) \/ (~OwnsLock(m, v, k) /\ lock' = GivenUp(m, v, k))
          /\ \E kept \in SUBSET registered[m][v] \ {{}} : registered' = [registered EXCEPT ![m][v] = kept]
    BY <1>11 DEF TeardownThrows
  <2>2. PICK kept \in SUBSET registered[m][v] \ {{}} : registered' = [registered EXCEPT ![m][v] = kept]
    BY <2>1
  <2>3. lock' = IF OwnsLock(m, v, k) THEN Released(m, v) ELSE GivenUp(m, v, k)
    BY <2>1
  <2>4. v \in Workflows /\ Left(m, k) \subseteq Workflows /\ kept \in SUBSET Triggers
    BY <1>1 DEF Snapshots, Left
  <2> DEFINE W == escaped[m] \cup Left(m, k)
  <2>5. /\ W \in SUBSET Workflows /\ escaped[m] \ {v} \subseteq W /\ v \in W
        /\ teardown[m][k].todo \cup teardown[m][k].deferred \subseteq W
        /\ escaped' = [escaped EXCEPT ![m] = W]
    BY <1>9, <1>11, <2>4 DEF Left, TeardownThrows
  <2>6. Update(m, k, NoTeardown) /\ NoTeardown \in Snapshots /\ NoTeardown.current = {}
    BY <1>11 DEF TeardownThrows, NoTeardown, Snapshots
  <2> HIDE DEF W
  <2> QED BY <1>8, <2>2, <2>3, <2>4, <2>5, <2>6
<1> QED BY <1>6, <1>7, <1>10, <1>11

\* A trigger fails while it runs, and is registered again.
LEMMA FollowerRuntime ==
    ASSUME FollowerInv, NEW m \in Mains, RuntimeFailure(m) \/ RuntimeRecovered(m)
    PROVE  FollowerInv'
<1>1. /\ RestOK /\ ByMain
      /\ MainOK(drain[m], record[m], lock[m], teardown[m], registered[m], escaped[m],
                isLeader[m], isShuttingDown[m], takeovers)
      /\ registered[m] \in [Workflows -> SUBSET Triggers]
  BY MainOf DEF MainTypes
<1>2. UNCHANGED <<active, published, outbox, isLeader, isPolling, isShuttingDown, enqueuing, takeovers,
                  plan, drain, record, lock, teardown, outcome, edits>>
  BY DEF RuntimeFailure, RuntimeRecovered, dbVars, roleVars, drainVars
<1>3. ASSUME NEW v \in Workflows, NEW X \in SUBSET Triggers, NEW W,
             (X \subseteq registered[m][v] /\ W = escaped[m]) \/ W = escaped[m] \cup {v},
             registered' = [registered EXCEPT ![m] = [registered[m] EXCEPT ![v] = X]],
             escaped' = [escaped EXCEPT ![m] = W], RestOK'
      PROVE  FollowerInv'
  <2>1. MainOK(drain[m], record[m], lock[m], teardown[m], [registered[m] EXCEPT ![v] = X], W,
               isLeader[m], isShuttingDown[m], takeovers)
    BY <1>1, <1>3, MainRecovers
  <2>2. Sets(m, drain[m], record[m], lock[m], teardown[m], [registered[m] EXCEPT ![v] = X], W,
             isLeader[m], isShuttingDown[m])
    BY <1>1, <1>2, <1>3, KeptFields DEF Sets
  <2> QED BY <1>2, <1>3, <2>1, <2>2, SetsKeeps
<1>4. CASE RuntimeFailure(m)
  <2>1. PICK v \in Workflows : \E t \in registered[m][v] :
          /\ recovering' = [recovering EXCEPT ![m] = @ \cup {[workflow |-> v, trigger |-> t]}]
          /\ registered' = [registered EXCEPT ![m][v] = @ \ {t}]
    BY <1>4 DEF RuntimeFailure
  <2> PICK t \in registered[m][v] :
          /\ recovering' = [recovering EXCEPT ![m] = @ \cup {[workflow |-> v, trigger |-> t]}]
          /\ registered' = [registered EXCEPT ![m][v] = @ \ {t}]
    BY <2>1
  <2>2. t \in Triggers
    BY <1>1
  <2>3. [workflow |-> v, trigger |-> t] \in Recoveries
    BY <2>2 DEF Recoveries
  <2>4. recovering' \in [Mains -> SUBSET Recoveries] /\ faults' \in Nat
    BY <1>1, <1>4, <2>1, <2>3 DEF RestOK, RuntimeFailure, Fault
  <2>5. RestOK'
    BY <1>1, <1>2, <2>4 DEF RestOK
  <2> DEFINE X == registered[m][v] \ {t}
  <2>6. X \in SUBSET Triggers /\ X \subseteq registered[m][v]
        /\ registered' = [registered EXCEPT ![m] = [registered[m] EXCEPT ![v] = X]]
    BY <1>1, <2>1
  <2>7. escaped' = [escaped EXCEPT ![m] = escaped[m]]
    BY <1>1, <1>4, KeptFields DEF RuntimeFailure
  <2> HIDE DEF X
  <2> QED BY <1>3, <2>5, <2>6, <2>7
<1>5. CASE RuntimeRecovered(m)
  <2>1. PICK r \in recovering[m] :
          /\ recovering' = [recovering EXCEPT ![m] = @ \ {r}]
          /\ registered' = [registered EXCEPT ![m][r.workflow] =
                              Without(m, r.workflow, {r.trigger.node}) \cup {r.trigger}]
          /\ escaped' = [escaped EXCEPT ![m] = @ \cup {r.workflow}]
    BY <1>5 DEF RuntimeRecovered
  <2>2. r.workflow \in Workflows /\ r.trigger \in Triggers
    BY <1>1 DEF RestOK, Recoveries
  <2>3. recovering' \in [Mains -> SUBSET Recoveries] /\ faults' \in Nat
    BY <1>1, <1>5, <2>1 DEF RestOK, RuntimeRecovered
  <2>4. RestOK'
    BY <1>1, <1>2, <2>3 DEF RestOK
  <2> DEFINE v == r.workflow
             X == Without(m, v, {r.trigger.node}) \cup {r.trigger}
             W == escaped[m] \cup {v}
  <2>5. X \in SUBSET Triggers
    BY <1>1, <2>2 DEF Without
  <2>6. /\ registered' = [registered EXCEPT ![m] = [registered[m] EXCEPT ![v] = X]]
        /\ escaped' = [escaped EXCEPT ![m] = W]
    BY <2>1
  <2>7. v \in Workflows /\ W = escaped[m] \cup {v}
    BY <2>2
  <2> HIDE DEF v, X, W
  <2> QED BY <1>3, <2>4, <2>5, <2>6, <2>7
<1> QED BY <1>4, <1>5

\* Nothing runs and nobody leads.
LEMMA FollowerInit == PublicationInit => FollowerInv
<1> SUFFICES ASSUME PublicationInit PROVE FollowerInv
  OBVIOUS
<1>1. ByMain
  BY DEF PublicationInit, ByMain
<1>2. RestOK
  <2>1. <<>> \in Seq(Rows) /\ DOMAIN <<>> = {}
    OBVIOUS
  <2>2. Table(outbox)
    BY <2>1 DEF PublicationInit, Table, Distinct
  <2>3. NoPlan \in Plans
    BY DEF NoPlan, Plans
  <2>4. plan \in [Mains -> Plans] /\ recovering \in [Mains -> SUBSET Recoveries]
        /\ isPolling \in [Mains -> BOOLEAN] /\ enqueuing \subseteq Mains
    BY <2>3 DEF PublicationInit
  <2>5. /\ active \in [Workflows -> Versions \cup {NoVersion}]
        /\ published \in [Workflows -> Versions \cup {NoVersion}]
        /\ outcome \in [Workflows -> {"none", "ok", "failed", "partial"}]
    BY DEF PublicationInit
  <2>6. edits \in Nat /\ takeovers \in Nat /\ faults \in Nat /\ takeovers <= MaxTakeovers
    BY PublicationAssumption DEF PublicationInit
  <2> QED BY <2>2, <2>4, <2>5, <2>6 DEF RestOK
<1>3. ASSUME NEW m \in Mains PROVE MainInv(m)
  <2>1. /\ drain[m] = "idle" /\ record[m] = NoRecord /\ lock[m] = [w \in Workflows |-> <<>>]
        /\ teardown[m] = [k \in Teardowns |-> NoTeardown] /\ registered[m] = [w \in Workflows |-> {}]
        /\ escaped[m] = {} /\ isLeader[m] = FALSE /\ isShuttingDown[m] = FALSE /\ takeovers \in Nat
    BY DEF PublicationInit
  <2> QED BY <2>1, MainStarts DEF MainInv
<1> QED BY <1>1, <1>2, <1>3, InvByMain

\* Every step of the specification.
LEMMA FollowerStep == FollowerInv /\ [PublicationNext]_vars => FollowerInv'
<1> SUFFICES ASSUME FollowerInv, [PublicationNext]_vars PROVE FollowerInv'
  OBVIOUS
<1>1. CASE UNCHANGED vars
  <2>1. UNCHANGED <<active, published, outbox, isPolling, enqueuing, plan, recovering, outcome, edits,
                    takeovers, faults>>
    BY <1>1 DEF vars, dbVars, roleVars, drainVars, triggerVars
  <2>2. UNCHANGED mainVars
    BY <1>1 DEF vars, dbVars, roleVars, drainVars, triggerVars, mainVars
  <2>3. RestOK'
    BY <2>1, MainOf, InvByMain DEF RestOK
  <2> QED BY <2>2, <2>3, RestKeeps
<1>2. CASE \E w \in Workflows : Unpublish(w) \/ \E v \in Versions : Publish(w, v)
  BY <1>2, FollowerRequests
<1>3. ASSUME NEW m \in Mains, Takeover(m) \/ EnqueueActiveWorkflows(m) \/ WakeUp(m)
                              \/ Stepdown(m) \/ Shutdown(m) \/ Restart(m)
      PROVE  FollowerInv'
  BY <1>3, FollowerRequests, FollowerTakeover, FollowerRoles
<1>4. ASSUME NEW m \in Mains, DrainStep(m) PROVE FollowerInv'
  BY <1>4, FollowerClaims, FollowerFinishes, FollowerResolves, FollowerMoves DEF DrainStep
<1>5. ASSUME NEW m \in Mains, TeardownStep(m) PROVE FollowerInv'
  BY <1>5, FollowerTearsDown DEF TeardownStep
<1>6. ASSUME NEW m \in Mains, RuntimeFailure(m) \/ RuntimeRecovered(m) PROVE FollowerInv'
  BY <1>6, FollowerRuntime
<1> QED BY <1>1, <1>2, <1>3, <1>4, <1>5, <1>6 DEF PublicationNext

\* What FollowerInv says holds throughout.
THEOREM FollowerInvariant == Spec => []FollowerInv
<1> QED BY FollowerInit, FollowerStep, PTL DEF Spec

\* A main that has lost leadership and is done with its teardown runs no
\* trigger: whatever teardown found locked is torn down after the record, and
\* nothing is registered afterwards; except of workflows that escaped, because
\* the lock or a runtime recovery was late or a teardown threw before it was done.
THEOREM FollowersRunNothing == Spec => []NoTriggerOnFollower
<1>1. FollowerInv => NoTriggerOnFollower
  <2> SUFFICES ASSUME FollowerInv, NEW m \in Mains, NEW w \in Workflows, ~isLeader[m], ~TearingDown(m),
                      w \notin escaped[m], registered[m][w] # {}
               PROVE  FALSE
    BY DEF NoTriggerOnFollower
  <2>1. PICK k \in Teardowns : w \in Left(m, k)
    BY DEF FollowerInv, TriggersCovered
  <2>2. teardown[m][k] = NoTeardown
    BY DEF TearingDown
  <2> QED BY <2>1, <2>2 DEF Left, NoTeardown
<1> QED BY <1>1, FollowerInvariant, PTL

-----------------------------------------------------------------------------
(* Without a lease that ends early, every step keeps RequestInv *)

\* A main that is past its claim has a record, a row in progress.
LEMMA HolderHasRow ==
    ASSUME FollowerInv, RequestInv, NEW m \in Mains, drain[m] \notin {"idle", "claim"}
    PROVE  /\ record[m] # NoRecord /\ record[m] \in Rows /\ record[m].workflow \in Workflows
           /\ record[m] \in Range(outbox) /\ record[m].status = "in_progress"
<1>1. record[m] # NoRecord /\ record[m] \in Rows
  BY MainOf DEF MainTypes
<1>2. record[m].workflow \in Workflows
  BY <1>1 DEF Rows
<1> QED BY <1>1, <1>2 DEF RequestInv, RecordIsRow

\* A step that leaves the requests and the rows, and begins to apply nothing.
LEMMA RequestKept ==
    ASSUME RequestInv, UNCHANGED <<outbox, active>>,
           \A n \in Mains : record'[n] = record[n] \/ record'[n] = NoRecord,
           \A n \in Mains : drain'[n] \in Applying =>
              drain[n] \in Applying /\ record'[n] = record[n] /\ plan'[n] = plan[n]
    PROVE  RequestInv'
<1>1. OneRowEach'
  BY DEF RequestInv, OneRowEach
<1>2. RecordIsRow'
  BY DEF RequestInv, RecordIsRow
<1>3. RowsFollowRequests'
  BY DEF RequestInv, RowsFollowRequests, HasPending
<1>4. TargetFollowsRequests'
  BY DEF RequestInv, TargetFollowsRequests, HasPending, Target
<1> QED BY <1>1, <1>2, <1>3, <1>4 DEF RequestInv

\* A step that touches neither requests, rows nor records.
LEMMA RequestOthers ==
    ASSUME FollowerInv, RequestInv, NEW m \in Mains,
           \/ Takeover(m) \/ WakeUp(m) \/ Stepdown(m) \/ Shutdown(m) \/ StartClaim(m)
           \/ \E k \in Teardowns :
                TeardownVisit(m, k) \/ TeardownWait(m, k) \/ TeardownRemove(m, k) \/ TeardownThrows(m, k)
           \/ RuntimeFailure(m) \/ RuntimeRecovered(m)
    PROVE  RequestInv'
<1>1. UNCHANGED <<outbox, active, record, plan>>
  BY DEF Takeover, WakeUp, Stepdown, Shutdown, StartClaim, TeardownVisit, TeardownWait, TeardownRemove,
         TeardownThrows, RuntimeFailure, RuntimeRecovered, dbVars, drainVars
<1>2. UNCHANGED drain \/ drain' = [drain EXCEPT ![m] = "claim"]
  BY DEF Takeover, WakeUp, Stepdown, Shutdown, StartClaim, TeardownVisit, TeardownWait, TeardownRemove,
         TeardownThrows, RuntimeFailure, RuntimeRecovered, drainVars
<1>3. \A n \in Mains : drain'[n] \in Applying => drain[n] \in Applying
  BY <1>2, MainOf DEF ByMain, Applying
<1> QED BY <1>1, <1>3, RequestKept

\* A crash or a restart: the record is nobody's, its row stays in progress.
LEMMA RequestRestart ==
    ASSUME FollowerInv, RequestInv, NEW m \in Mains, Restart(m)
    PROVE  RequestInv'
<1>1. ByMain /\ plan \in [Mains -> Plans]
  BY MainOf DEF RestOK
<1>2. UNCHANGED <<outbox, active>>
  BY DEF Restart, dbVars
<1>3. \A n \in Mains : record'[n] = record[n] \/ record'[n] = NoRecord
  BY <1>1 DEF Restart, ByMain
<1>4. ASSUME NEW n \in Mains, drain'[n] \in Applying
      PROVE  drain[n] \in Applying /\ record'[n] = record[n] /\ plan'[n] = plan[n]
  <2>1. n # m
    BY <1>1, <1>4 DEF Restart, ByMain, Applying
  <2> QED BY <1>1, <1>4, <2>1 DEF Restart, ByMain
<1> QED BY <1>2, <1>3, <1>4, RequestKept

\* Triggers are removed and registered, the published version moves between.
LEMMA RequestMoves ==
    ASSUME FollowerInv, RequestInv, NEW m \in Mains,
           Deactivate(m) \/ DeactivateFails(m) \/ Advance(m) \/ Activate(m)
    PROVE  RequestInv'
<1>1. UNCHANGED <<outbox, active, record, plan>>
  BY DEF Deactivate, DeactivateFails, Advance, Activate, dbVars
<1>2. drain[m] \in Applying /\ \E e : drain' = [drain EXCEPT ![m] = e]
  BY DEF Deactivate, DeactivateFails, Advance, Activate, Applying
<1>3. \A n \in Mains : drain'[n] \in Applying => drain[n] \in Applying
  BY <1>2, MainOf DEF ByMain
<1> QED BY <1>1, <1>3, RequestKept

\* The plan of a record: its version is what was asked for, or is overtaken.
LEMMA RequestResolves ==
    ASSUME FollowerInv, RequestInv, NEW m \in Mains, Resolve(m)
    PROVE  RequestInv'
<1>1. RestOK /\ ByMain
  BY MainOf
<1>2. /\ record[m] # NoRecord /\ record[m] \in Rows /\ record[m].workflow \in Workflows
      /\ record[m] \in Range(outbox) /\ record[m].status = "in_progress"
  BY HolderHasRow DEF Resolve
<1>3. UNCHANGED <<outbox, active, record>>
  BY DEF Resolve, dbVars
<1>4. \A n \in Mains \ {m} : drain'[n] = drain[n] /\ plan'[n] = plan[n]
  BY <1>1 DEF Resolve, RestOK, ByMain
<1>5. /\ active[record[m].workflow] = NoVersion => plan'[m].unpublish = TRUE
      /\ active[record[m].workflow] # NoVersion => plan'[m].unpublish = FALSE
  <2>1. plan'[m] = IF active[record[m].workflow] = NoVersion
                     THEN [unpublish |-> TRUE, remove |-> Nodes(OfVersion(published[record[m].workflow])), add |-> {}]
                     ELSE [unpublish |-> FALSE,
                           remove |-> Nodes(OfVersion(published[record[m].workflow]) \ OfVersion(record[m].version)),
                           add |-> Nodes(OfVersion(record[m].version) \ OfVersion(published[record[m].workflow]))
                                     \cup Unregistered(m, record[m].workflow, OfVersion(record[m].version))]
    BY <1>1 DEF Resolve, RestOK
  <2> QED BY <2>1
<1>6. Target(m)' = active[record[m].workflow] \/ HasPending(record[m].workflow)
  BY <1>2, <1>3, <1>5 DEF Target, RequestInv, RowsFollowRequests
<1>7. OneRowEach' /\ RecordIsRow' /\ RowsFollowRequests'
  BY <1>3 DEF RequestInv, OneRowEach, RecordIsRow, RowsFollowRequests, HasPending
<1>8. TargetFollowsRequests'
  <2> SUFFICES ASSUME NEW n \in Mains, drain'[n] \in Applying
               PROVE  (Target(n) = active[record[n].workflow] \/ HasPending(record[n].workflow))'
    BY DEF TargetFollowsRequests
  <2>1. CASE n = m
    BY <1>3, <1>6, <2>1 DEF HasPending
  <2>2. CASE n # m
    BY <1>3, <1>4, <2>2 DEF RequestInv, TargetFollowsRequests, HasPending, Target
  <2> QED BY <2>1, <2>2
<1> QED BY <1>7, <1>8 DEF RequestInv

\* An upsert that asks for the active versions, where what is asked for changes.
LEMMA RequestUpserts ==
    ASSUME FollowerInv, RequestInv, NEW versions, Requests(versions), outbox' = Upserted(versions),
           UNCHANGED <<drain, record, plan>>,
           active' \in [Workflows -> Versions \cup {NoVersion}],
           \A x \in versions : x.version = active'[x.workflow] \/ active'[x.workflow] = NoVersion,
           \A w \in Workflows : active'[w] = active[w] \/ \E x \in versions : x.workflow = w
    PROVE  RequestInv'
<1> DEFINE O == Range(outbox)
           R == Range(outbox')
<1>1. Table(outbox)
  BY InvByMain DEF RestOK
<1>2. /\ Table(outbox')
      /\ \A x \in O : x.status = "in_progress" => x \in R
      /\ \A x \in R : x.status = "in_progress" => x \in O
      /\ \A x \in R : x.status = "pending" =>
           \/ [workflow |-> x.workflow, version |-> x.version] \in versions
           \/ x \in O /\ ~\E v \in versions : v.workflow = x.workflow
      /\ \A v \in versions : \E x \in R : x.workflow = v.workflow /\ x.status = "pending"
      /\ \A x \in O : \E y \in R : y.workflow = x.workflow /\ y.status = x.status
      /\ OneRowEach => \A x, y \in R : x.workflow = y.workflow /\ x.status = y.status => x = y
  BY <1>1, UpsertedIs
<1>3. /\ \A x \in O : x.workflow \in Workflows
      /\ \A x \in R : x.workflow \in Workflows /\ x.status \in {"pending", "in_progress"}
  BY <1>1, <1>2, TableRows
<1> HIDE DEF R
<1>4. \A w : HasPending(w)' <=> \E x \in R : x.workflow = w /\ x.status = "pending"
  BY DEF HasPending, R
<1>5. ASSUME NEW w, HasPending(w) PROVE HasPending(w)'
  <2>1. PICK x \in O : x.workflow = w /\ x.status = "pending"
    BY <1>5 DEF HasPending
  <2>2. PICK y \in R : y.workflow = x.workflow /\ y.status = x.status
    BY <1>2, <2>1
  <2> QED BY <1>4, <2>1, <2>2
<1>6. \A w \in Workflows : active'[w] = active[w] \/ HasPending(w)'
  BY <1>2, <1>4
<1>7. OneRowEach'
  BY <1>2 DEF RequestInv, OneRowEach, R
<1>8. RecordIsRow'
  <2>1. \A m \in Mains : record[m] # NoRecord => record[m] \in R /\ record[m].status = "in_progress"
    BY <1>2 DEF RequestInv, RecordIsRow
  <2> QED BY <2>1 DEF RequestInv, RecordIsRow, R
<1>9. RowsFollowRequests'
  <2> SUFFICES ASSUME NEW r \in R
               PROVE  \/ r.version = active'[r.workflow] \/ active'[r.workflow] = NoVersion
                      \/ r.status = "in_progress" /\ HasPending(r.workflow)'
    BY DEF RowsFollowRequests, R
  <2>1. r.workflow \in Workflows
    BY <1>3
  <2>2. CASE r.status = "in_progress"
    BY <1>2, <1>5, <1>6, <2>1, <2>2 DEF RequestInv, RowsFollowRequests
  <2>3. CASE r.status = "pending"
    <3>1. CASE [workflow |-> r.workflow, version |-> r.version] \in versions
      BY <3>1
    <3>2. CASE r \in O /\ ~\E v \in versions : v.workflow = r.workflow
      BY <2>1, <2>3, <3>2 DEF RequestInv, RowsFollowRequests
    <3> QED BY <1>2, <2>3, <3>1, <3>2
  <2> QED BY <1>3, <2>2, <2>3
<1>10. TargetFollowsRequests'
  <2> SUFFICES ASSUME NEW m \in Mains, drain[m] \in Applying
               PROVE  Target(m) = active'[record[m].workflow] \/ HasPending(record[m].workflow)'
    BY DEF TargetFollowsRequests, Target
  <2>1. record[m].workflow \in Workflows
    BY HolderHasRow DEF Applying
  <2>2. Target(m) = active[record[m].workflow] \/ HasPending(record[m].workflow)
    BY DEF RequestInv, TargetFollowsRequests
  <2> QED BY <1>5, <1>6, <2>1, <2>2
<1> QED BY <1>7, <1>8, <1>9, <1>10 DEF RequestInv

\* Publish, unpublish and the enqueue of a takeover.
LEMMA RequestEdits ==
    ASSUME FollowerInv, RequestInv,
           \/ \E w \in Workflows : Unpublish(w) \/ \E v \in Versions : Publish(w, v)
           \/ \E m \in Mains : EnqueueActiveWorkflows(m)
    PROVE  RequestInv'
<1>1. active \in [Workflows -> Versions \cup {NoVersion}]
  BY InvByMain DEF RestOK
<1>2. ASSUME NEW w \in Workflows, Unpublish(w) PROVE RequestInv'
  <2> DEFINE x == [workflow |-> w, version |-> active[w]]
  <2>1. Requests({x})
    BY <1>1, <1>2, RequestOne DEF Unpublish
  <2>2. /\ outbox' = Upserted({x}) /\ UNCHANGED <<drain, record, plan>>
        /\ active' = [active EXCEPT ![w] = NoVersion]
    BY <1>2 DEF Unpublish, drainVars
  <2>3. x.workflow = w /\ active' \in [Workflows -> Versions \cup {NoVersion}] /\ active'[w] = NoVersion
        /\ \A y \in Workflows : y # w => active'[y] = active[y]
    BY <1>1, <2>2
  <2> HIDE DEF x
  <2>4. \A y \in {x} : y.version = active'[y.workflow] \/ active'[y.workflow] = NoVersion
    BY <2>3
  <2>5. \A y \in Workflows : active'[y] = active[y] \/ \E z \in {x} : z.workflow = y
    BY <2>3
  <2> QED BY <2>1, <2>2, <2>3, <2>4, <2>5, RequestUpserts
<1>3. ASSUME NEW w \in Workflows, NEW v \in Versions, Publish(w, v) PROVE RequestInv'
  <2> DEFINE x == [workflow |-> w, version |-> v]
  <2>1. Requests({x})
    BY <1>3, RequestOne DEF Publish
  <2>2. /\ outbox' = Upserted({x}) /\ UNCHANGED <<drain, record, plan>>
        /\ active' = [active EXCEPT ![w] = v]
    BY <1>3 DEF Publish, drainVars
  <2>3. /\ x.workflow = w /\ x.version = v
        /\ active' \in [Workflows -> Versions \cup {NoVersion}] /\ active'[w] = v
        /\ \A y \in Workflows : y # w => active'[y] = active[y]
    BY <1>1, <2>2
  <2> HIDE DEF x
  <2>4. \A y \in {x} : y.version = active'[y.workflow] \/ active'[y.workflow] = NoVersion
    BY <2>3
  <2>5. \A y \in Workflows : active'[y] = active[y] \/ \E z \in {x} : z.workflow = y
    BY <2>3
  <2> QED BY <2>1, <2>2, <2>3, <2>4, <2>5, RequestUpserts
<1>4. ASSUME NEW m \in Mains, EnqueueActiveWorkflows(m) PROVE RequestInv'
  <2>1. Requests(ActiveVersions)
    BY <1>1, <1>4, RequestActive DEF EnqueueActiveWorkflows
  <2>2. outbox' = Upserted(ActiveVersions) /\ UNCHANGED <<drain, record, plan, active>>
    BY <1>4 DEF EnqueueActiveWorkflows, drainVars
  <2>3. \A y \in ActiveVersions : y.version = active'[y.workflow]
    BY <2>2 DEF ActiveVersions
  <2> QED BY <1>1, <2>1, <2>2, <2>3, RequestUpserts
<1> QED BY <1>2, <1>3, <1>4

\* A claim takes a row that is nobody's, of a workflow that nobody processes.
LEMMA RequestClaims ==
    ASSUME FollowerInv, RequestInv, "lease" \notin Ops, NEW m \in Mains, Claim(m)
    PROVE  RequestInv'
<1> DEFINE O == Range(outbox)
<1>1. Table(outbox) /\ ByMain
  BY MainOf DEF RestOK
<1>2. CASE UNCHANGED <<outbox, record>> /\ drain' = [drain EXCEPT ![m] = "idle"]
  <2>1. \A n \in Mains : drain'[n] \in Applying => drain[n] \in Applying
    BY <1>1, <1>2 DEF ByMain, Applying
  <2> QED BY <1>2, <2>1, RequestKept DEF Claim
<1>3. ASSUME NEW i \in DOMAIN outbox, Claimable(i), outbox' = [outbox EXCEPT ![i].status = "in_progress"],
             record' = [record EXCEPT ![m] = outbox'[i]], drain' = [drain EXCEPT ![m] = "enter"]
      PROVE  RequestInv'
  <2> DEFINE x == outbox[i]
             r == outbox'[i]
             R == Range(outbox')
  <2>1. /\ R = (O \ {x}) \cup {r} /\ r.status = "in_progress" /\ r.workflow = x.workflow
        /\ r.version = x.version /\ r.id = x.id /\ r \in Rows
        /\ x \in O /\ r = [x EXCEPT !.status = "in_progress"] /\ x \in Rows
    BY <1>1, <1>3, ClaimedIs, TableRows
  <2>2. /\ \A y \in O : y.workflow \in Workflows /\ y.status \in {"pending", "in_progress"}
        /\ \A y, z \in O : y.id = z.id => y = z
    BY <1>1, TableRows
  <2>3. \/ x.status = "pending" /\ \A y \in O : y.workflow = x.workflow => y.status = "pending"
        \/ x.status = "in_progress" /\ r = x /\ \A n \in Mains : record[n] = NoRecord \/ record[n].id # x.id
    <3>1. CASE x.status = "pending" /\ Positions(x.workflow, "in_progress") = {}
      <4>1. ~\E y \in O : y.workflow = x.workflow /\ y.status = "in_progress"
        BY <1>1, <3>1, PositionsAre
      <4> QED BY <2>2, <3>1, <4>1
    <3>2. CASE x.status = "in_progress" /\ ~Held(x.id)
      <4>1. r = x
        <5>1. x = [id |-> x.id, workflow |-> x.workflow, version |-> x.version, status |-> "in_progress"]
          BY <2>1, <3>2 DEF Rows
        <5> HIDE DEF x, r
        <5> QED BY <2>1, <3>2, <5>1
      <4> QED BY <3>2, <4>1 DEF Held
    <3> QED BY <1>3, <3>1, <3>2 DEF Claimable
  <2>4. UNCHANGED <<active, plan>>
    <3>1. Claim(m)
      OBVIOUS
    <3> QED BY <3>1 DEF Claim
  <2>5. record'[m] = r /\ \A n \in Mains \ {m} : record'[n] = record[n] /\ drain'[n] = drain[n]
    BY <1>1, <1>3 DEF ByMain
  <2>6. r # NoRecord /\ drain'[m] = "enter"
    BY <1>1, <1>3, <2>1, RowIsRecord DEF ByMain
  <2> HIDE DEF x, r, R
  <2>7. \A w : HasPending(w)' <=> \E y \in R : y.workflow = w /\ y.status = "pending"
    BY DEF HasPending, R
  <2>8. ASSUME NEW y \in O, y.status = "in_progress", HasPending(y.workflow) PROVE HasPending(y.workflow)'
    <3>1. PICK p \in O : p.workflow = y.workflow /\ p.status = "pending"
      BY <2>8 DEF HasPending
    <3>2. p # x
      BY <2>1, <2>3, <2>8, <3>1
    <3> QED BY <2>1, <2>7, <3>1, <3>2
  <2>9. OneRowEach'
    <3> SUFFICES ASSUME NEW y \in R, NEW z \in R, y.workflow = z.workflow, y.status = z.status PROVE y = z
      BY DEF OneRowEach, R
    <3>1. CASE y \in O /\ z \in O
      BY <3>1 DEF RequestInv, OneRowEach
    <3>2. ASSUME NEW u \in O, u.workflow = r.workflow, u.status = r.status PROVE u = r
      BY <2>1, <2>3, <3>2 DEF RequestInv, OneRowEach
    <3> QED BY <2>1, <3>1, <3>2
  <2>10. ASSUME NEW n \in Mains, n # m, record[n] # NoRecord
         PROVE  /\ record[n] \in R /\ record[n] \in O /\ record[n].status = "in_progress"
                /\ record[n].workflow # r.workflow
    <3>1. record[n] \in O /\ record[n].status = "in_progress"
      BY <2>10 DEF RequestInv, RecordIsRow
    <3>2. record[n] # x
      BY <2>3, <2>10, <3>1
    <3>3. record[n].workflow # x.workflow
      <4>1. CASE x.status = "pending"
        BY <2>3, <3>1, <4>1
      <4>2. CASE x.status = "in_progress"
        BY <2>1, <3>1, <3>2, <4>2 DEF RequestInv, OneRowEach
      <4> QED BY <2>3, <4>1, <4>2
    <3> QED BY <2>1, <3>1, <3>2, <3>3
  <2>11. RecordIsRow'
    <3>1. \A n \in Mains : record'[n] # NoRecord => record'[n] \in R /\ record'[n].status = "in_progress"
      BY <2>1, <2>5, <2>10
    <3>2. \A n, l \in Mains : record'[n] # NoRecord /\ record'[l] # NoRecord
                              /\ record'[n].workflow = record'[l].workflow => n = l
      <4> SUFFICES ASSUME NEW n \in Mains, NEW l \in Mains, record'[n] # NoRecord, record'[l] # NoRecord,
                          record'[n].workflow = record'[l].workflow, n # l
                   PROVE  FALSE
        OBVIOUS
      <4>1. CASE n # m /\ l # m
        BY <2>5, <4>1 DEF RequestInv, RecordIsRow
      <4>2. CASE n = m \/ l = m
        BY <2>5, <2>10, <4>2
      <4> QED BY <4>1, <4>2
    <3> QED BY <3>1, <3>2 DEF RecordIsRow, R
  <2>12. RowsFollowRequests'
    <3> SUFFICES ASSUME NEW y \in R
                 PROVE  \/ y.version = active[y.workflow] \/ active[y.workflow] = NoVersion
                        \/ y.status = "in_progress" /\ HasPending(y.workflow)'
      BY <2>4 DEF RowsFollowRequests, R
    <3>1. CASE y \in O
      BY <2>8, <3>1 DEF RequestInv, RowsFollowRequests
    <3>2. CASE y = r /\ x.status = "pending"
      BY <2>1, <3>2 DEF RequestInv, RowsFollowRequests
    <3> QED BY <2>1, <2>3, <3>1, <3>2
  <2>13. TargetFollowsRequests'
    <3> SUFFICES ASSUME NEW n \in Mains, drain'[n] \in Applying
                 PROVE  (Target(n) = active[record[n].workflow] \/ HasPending(record[n].workflow))'
      BY DEF TargetFollowsRequests
    <3>1. n # m /\ drain[n] \in Applying /\ record'[n] = record[n]
      BY <2>5, <2>6 DEF Applying
    <3>2. Target(n)' = Target(n)
      BY <2>4, <3>1 DEF Target
    <3>3. record[n] # NoRecord
      BY <3>1, HolderHasRow DEF Applying
    <3> QED BY <2>4, <2>8, <2>10, <3>1, <3>2, <3>3 DEF RequestInv, TargetFollowsRequests
  <2> QED BY <2>9, <2>11, <2>12, <2>13 DEF RequestInv
<1>4. UNCHANGED <<active, plan>>
  BY DEF Claim
<1>5. CASE \E i \in DOMAIN outbox :
             /\ Claimable(i) /\ outbox' = [outbox EXCEPT ![i].status = "in_progress"]
             /\ record' = [record EXCEPT ![m] = outbox'[i]] /\ drain' = [drain EXCEPT ![m] = "enter"]
  BY <1>3, <1>5
<1> QED BY <1>2, <1>5 DEF Claim

\* The rows after a finish: the record's row is still in progress, or gone
\* where it was reported or a newer request waits, or back in the queue.
LEMMA FinishedRows ==
    ASSUME FollowerInv, RequestInv, NEW m \in Mains, ReturnRecord(m) \/ Report(m)
    PROVE  LET O == Range(outbox)
               R == Range(outbox')
               r == record[m]
           IN  \/ Report(m) /\ R = O
               \/ /\ Report(m) \/ \E y \in O : y.workflow = r.workflow /\ y.status = "pending"
                  /\ R = O \ {r}
               \/ /\ ~\E y \in O : y.workflow = r.workflow /\ y.status = "pending"
                  /\ R = (O \ {r}) \cup {Back(r, r.id)}
<1> DEFINE O == Range(outbox)
           R == Range(outbox')
           r == record[m]
<1>1. Table(outbox)
  BY MainOf DEF RestOK
<1>2. r # NoRecord /\ r \in Rows /\ r \in O /\ r.status = "in_progress"
  BY HolderHasRow DEF ReturnRecord, Report
<1>3. \A y, z \in O : y.id = z.id => y = z
  BY <1>1, TableRows
<1>4. {x \in O : ~(x.id = r.id /\ x.status = "in_progress")} = O \ {r}
  BY <1>2, <1>3
<1>5. CASE ReturnRecord(m)
  <2>1. outbox' = Returned(r)
    BY <1>5 DEF ReturnRecord
  <2>2. CASE /\ \E y \in O : y.workflow = r.workflow /\ y.status = "pending"
             /\ R = {x \in O : ~(x.id = r.id /\ x.status = "in_progress")}
    BY <1>4, <2>2
  <2>3. CASE /\ ~\E y \in O : y.workflow = r.workflow /\ y.status = "pending"
             /\ R = {Back(x, r.id) : x \in O}
    <3>1. \A x \in O : x # r => Back(x, r.id) = x
      BY <1>2, <1>3 DEF Back
    <3> HIDE DEF R, O, r
    <3>2. R \subseteq (O \ {r}) \cup {Back(r, r.id)}
      BY <2>3, <3>1
    <3>3. (O \ {r}) \cup {Back(r, r.id)} \subseteq R
      BY <1>2, <2>3, <3>1
    <3>4. R = (O \ {r}) \cup {Back(r, r.id)}
      BY <3>2, <3>3
    <3> QED BY <2>3, <3>4 DEF O, R, r
  <2> QED BY <1>1, <2>1, <2>2, <2>3, ReturnedIs
<1>6. CASE Report(m)
  <2>1. CASE outbox' = Ended(r)
    BY <1>1, <1>4, <1>6, <2>1, EndedIs DEF Ended
  <2>2. CASE UNCHANGED outbox
    BY <1>6, <2>2
  <2> QED BY <1>6, <2>1, <2>2 DEF Report
<1> QED BY <1>5, <1>6

\* What a finish leaves: the row of the record is gone, or back in the queue,
\* or nobody's.
LEMMA RequestFinishes ==
    ASSUME FollowerInv, RequestInv, NEW m \in Mains, ReturnRecord(m) \/ Report(m)
    PROVE  RequestInv'
<1> DEFINE O == Range(outbox)
           R == Range(outbox')
           r == record[m]
<1>1. Table(outbox) /\ ByMain /\ plan \in [Mains -> Plans]
  BY MainOf DEF RestOK
<1>2. r # NoRecord /\ r \in Rows /\ r \in O /\ r.status = "in_progress"
  BY HolderHasRow DEF ReturnRecord, Report
<1>3. /\ UNCHANGED active
      /\ drain' = [drain EXCEPT ![m] = "idle"] /\ record' = [record EXCEPT ![m] = NoRecord]
      /\ plan' = [plan EXCEPT ![m] = NoPlan]
  BY DEF ReturnRecord, Report, Finish
<1>4. /\ record'[m] = NoRecord /\ drain'[m] = "idle"
      /\ \A n \in Mains \ {m} : record'[n] = record[n] /\ drain'[n] = drain[n] /\ plan'[n] = plan[n]
  BY <1>1, <1>3 DEF ByMain
<1>5. /\ \A y \in O : y.workflow \in Workflows /\ y.status \in {"pending", "in_progress"}
      /\ \A y, z \in O : y.id = z.id => y = z
      /\ O \subseteq Rows
  BY <1>1, TableRows
<1>6. \/ R = O
      \/ R = O \ {r}
      \/ /\ ~\E y \in O : y.workflow = r.workflow /\ y.status = "pending"
         /\ R = (O \ {r}) \cup {Back(r, r.id)}
  BY FinishedRows
<1>7. /\ Back(r, r.id).status = "pending" /\ Back(r, r.id).workflow = r.workflow
      /\ Back(r, r.id).version = r.version
  BY <1>2 DEF Back, Rows
<1> DEFINE b == Back(r, r.id)
<1> HIDE DEF R, r, b
<1>8. \A w : HasPending(w)' <=> \E y \in R : y.workflow = w /\ y.status = "pending"
  BY DEF HasPending, R
<1>9. ASSUME NEW w, HasPending(w) PROVE HasPending(w)'
  <2>1. PICK p \in O : p.workflow = w /\ p.status = "pending"
    BY <1>9 DEF HasPending
  <2>2. p # r
    BY <1>2, <2>1
  <2> QED BY <1>6, <1>8, <2>1, <2>2
<1>10. ASSUME NEW n \in Mains, n # m, record[n] # NoRecord
       PROVE  record[n] \in R /\ record[n].status = "in_progress"
  <2>1. record[n] \in O /\ record[n].status = "in_progress"
    BY <1>10 DEF RequestInv, RecordIsRow
  <2>2. record[n] # r
    BY <1>2, <1>10 DEF RequestInv, RecordIsRow, r
  <2> QED BY <1>6, <2>1, <2>2
<1>11. OneRowEach'
  <2> SUFFICES ASSUME NEW y \in R, NEW z \in R, y.workflow = z.workflow, y.status = z.status PROVE y = z
    BY DEF OneRowEach, R
  <2>1. CASE y \in O /\ z \in O
    BY <2>1 DEF RequestInv, OneRowEach
  <2>2. CASE y \notin O \/ z \notin O
    BY <1>6, <1>7, <2>2 DEF b
  <2> QED BY <2>1, <2>2
<1>12. RecordIsRow'
  <2>1. \A n \in Mains : record'[n] # NoRecord => record'[n] \in R /\ record'[n].status = "in_progress"
    BY <1>4, <1>10
  <2>2. \A n, l \in Mains : record'[n] # NoRecord /\ record'[l] # NoRecord
                            /\ record'[n].workflow = record'[l].workflow => n = l
    BY <1>4 DEF RequestInv, RecordIsRow
  <2> QED BY <2>1, <2>2 DEF RecordIsRow, R
<1>13. RowsFollowRequests'
  <2> SUFFICES ASSUME NEW y \in R
               PROVE  \/ y.version = active[y.workflow] \/ active[y.workflow] = NoVersion
                      \/ y.status = "in_progress" /\ HasPending(y.workflow)'
    BY <1>3 DEF RowsFollowRequests, R
  <2>1. CASE y \in O
    BY <1>9, <2>1 DEF RequestInv, RowsFollowRequests
  <2>2. CASE y \notin O
    <3>1. y = Back(r, r.id) /\ ~\E x \in O : x.workflow = r.workflow /\ x.status = "pending"
      BY <1>6, <2>2
    <3> QED BY <1>2, <1>7, <3>1 DEF RequestInv, RowsFollowRequests, HasPending
  <2> QED BY <2>1, <2>2
<1>14. TargetFollowsRequests'
  <2> SUFFICES ASSUME NEW n \in Mains, drain'[n] \in Applying
               PROVE  (Target(n) = active[record[n].workflow] \/ HasPending(record[n].workflow))'
    BY DEF TargetFollowsRequests
  <2>1. n # m /\ drain[n] \in Applying /\ record'[n] = record[n] /\ plan'[n] = plan[n]
    BY <1>4 DEF Applying
  <2>2. Target(n)' = Target(n)
    BY <2>1 DEF Target
  <2> QED BY <1>3, <1>9, <2>1, <2>2 DEF RequestInv, TargetFollowsRequests
<1> QED BY <1>11, <1>12, <1>13, <1>14 DEF RequestInv

\* Every step of the specification.
LEMMA RequestStep ==
    ASSUME "lease" \notin Ops
    PROVE  FollowerInv /\ RequestInv /\ [PublicationNext]_vars => RequestInv'
<1> SUFFICES ASSUME FollowerInv, RequestInv, [PublicationNext]_vars PROVE RequestInv'
  OBVIOUS
<1>1. CASE UNCHANGED vars
  <2>1. UNCHANGED <<outbox, active, record, drain, plan>>
    BY <1>1 DEF vars, dbVars, drainVars
  <2> QED BY <2>1, RequestKept
<1>2. CASE \E w \in Workflows : Unpublish(w) \/ \E v \in Versions : Publish(w, v)
  BY <1>2, RequestEdits
<1>3. ASSUME NEW m \in Mains, Takeover(m) \/ EnqueueActiveWorkflows(m) \/ WakeUp(m)
                              \/ Stepdown(m) \/ Shutdown(m) \/ Restart(m)
      PROVE  RequestInv'
  BY <1>3, RequestEdits, RequestOthers, RequestRestart
<1>4. ASSUME NEW m \in Mains, DrainStep(m) PROVE RequestInv'
  BY <1>4, RequestOthers, RequestClaims, RequestFinishes, RequestResolves, RequestMoves DEF DrainStep
<1>5. ASSUME NEW m \in Mains, TeardownStep(m) PROVE RequestInv'
  BY <1>5, RequestOthers DEF TeardownStep
<1>6. ASSUME NEW m \in Mains, RuntimeFailure(m) \/ RuntimeRecovered(m) PROVE RequestInv'
  BY <1>6, RequestOthers
<1> QED BY <1>1, <1>2, <1>3, <1>4, <1>5, <1>6 DEF PublicationNext

\* There are no rows at first.
LEMMA RequestInit == PublicationInit => RequestInv
<1> SUFFICES ASSUME PublicationInit PROVE RequestInv
  OBVIOUS
<1>1. Range(outbox) = {}
  BY DEF PublicationInit, Range
<1>2. \A m \in Mains : record[m] = NoRecord /\ drain[m] = "idle"
  BY DEF PublicationInit
<1> QED BY <1>1, <1>2
        DEF RequestInv, OneRowEach, RecordIsRow, RowsFollowRequests, TargetFollowsRequests, Applying

\* What RequestInv says holds throughout, unless a record outlives its lease.
THEOREM RequestInvariant ==
    ASSUME "lease" \notin Ops
    PROVE  Spec => [](FollowerInv /\ RequestInv)
<1>1. FollowerInv /\ RequestInv /\ [PublicationNext]_vars => (FollowerInv /\ RequestInv)'
  BY FollowerStep, RequestStep
<1> QED BY <1>1, FollowerInit, RequestInit, PTL DEF Spec

\* The published version only changes to what a user asked for last or, while a
\* newer request waits, to what they asked for before: no record that the
\* requests have overtaken has the last word.
THEOREM PublishedFollows ==
    ASSUME "lease" \notin Ops
    PROVE  Spec => PublishedFollowsRequests
<1> DEFINE Follows == \A w \in Workflows : published'[w] # published[w] =>
                         published'[w] = active[w] \/ Positions(w, "pending") # {}
<1>1. FollowerInv /\ RequestInv /\ [PublicationNext]_vars => [Follows]_vars
  <2> SUFFICES ASSUME FollowerInv, RequestInv, PublicationNext,
                      NEW w \in Workflows, published'[w] # published[w]
               PROVE  published'[w] = active[w] \/ Positions(w, "pending") # {}
    BY DEF Follows
  <2>1. RestOK
    BY InvByMain
  <2>2. \E m \in Mains : Advance(m)
    <3> SUFFICES ASSUME \A m \in Mains : ~Advance(m) PROVE UNCHANGED published
      OBVIOUS
    <3>1. CASE \E x \in Workflows : Unpublish(x) \/ \E v \in Versions : Publish(x, v)
      BY <3>1 DEF Unpublish, Publish
    <3>2. ASSUME NEW m \in Mains, Takeover(m) \/ EnqueueActiveWorkflows(m) \/ WakeUp(m)
                                  \/ Stepdown(m) \/ Shutdown(m) \/ Restart(m)
          PROVE  UNCHANGED published
      BY <3>2 DEF Takeover, EnqueueActiveWorkflows, WakeUp, Stepdown, Shutdown, Restart, dbVars
    <3>3. ASSUME NEW m \in Mains, DrainStep(m) PROVE UNCHANGED published
      BY <3>3 DEF DrainStep, StartClaim, Claim, ReturnRecord, Resolve, Deactivate, DeactivateFails, Activate,
                  Report, dbVars
    <3>4. ASSUME NEW m \in Mains, TeardownStep(m) PROVE UNCHANGED published
      BY <3>4 DEF TeardownStep, TeardownVisit, TeardownWait, TeardownRemove, TeardownThrows, dbVars
    <3>5. ASSUME NEW m \in Mains, RuntimeFailure(m) \/ RuntimeRecovered(m) PROVE UNCHANGED published
      BY <3>5 DEF RuntimeFailure, RuntimeRecovered, dbVars
    <3> QED BY <3>1, <3>2, <3>3, <3>4, <3>5 DEF PublicationNext
  <2>3. PICK m \in Mains : Advance(m)
    BY <2>2
  <2>4. drain[m] \in Applying /\ published' = [published EXCEPT ![record[m].workflow] = Target(m)]
    BY <2>3 DEF Advance, Target, Applying
  <2>5. record[m].workflow = w /\ published'[w] = Target(m)
    BY <2>1, <2>4 DEF RestOK
  <2>6. Target(m) = active[w] \/ HasPending(w)
    BY <2>4, <2>5 DEF RequestInv, TargetFollowsRequests
  <2>7. HasPending(w) => Positions(w, "pending") # {}
    BY <2>1, PositionsAre DEF RestOK, HasPending
  <2> QED BY <2>5, <2>6, <2>7
<1>2. Spec => [][Follows]_vars
  BY <1>1, RequestInvariant, PTL DEF Spec
<1> QED BY <1>2 DEF PublishedFollowsRequests

-----------------------------------------------------------------------------
(* LeaderInv, workflow by workflow and main by main *)

PlanAt(m, w) ==
    Applies(m, w) =>
        /\ plan[m].unpublish => plan[m].add = {}
        /\ drain[m] = "remove" => plan[m].remove = Nodes(OfVersion(published[w]) \ OfVersion(Target(m)))
        /\ drain[m] = "add" \/ (drain[m] = "report" /\ outcome[w] = "ok") => published[w] = Target(m)

DoneAt(w) == ~HasRow(w) /\ outcome[w] = "ok" => published[w] = active[w]

MostAt(m, w) ==
    /\ registered[m][w] \subseteq OfVersion(published[w]) \/ (Applies(m, w) /\ drain[m] = "advance")
    /\ Applies(m, w) /\ drain[m] = "advance" => registered[m][w] \subseteq OfVersion(Target(m))
    /\ \A n \in Mains \ {m} : Applies(n, w) => registered[m][w] = {}

\* Of a leader that runs what is published, or will: what will make it so.
WillAt(m, w) ==
    \/ m \in enqueuing /\ active[w] # NoVersion
    \/ HasPending(w)
    \/ \E n \in Mains \ {m} : Applies(n, w) /\ plan[n].unpublish
    \/ /\ \A n \in Mains \ {m} : ~Applies(n, w)
       /\ HasRow(w) \/ outcome[w] # "ok" \/ registered[m][w] = OfVersion(published[w])

Recovers(m, w) == \E r \in recovering[m] : r.workflow = w

OnMain(m, w) ==
    Steady(m, w) =>
        /\ MostAt(m, w)
        /\ ~Recovers(m, w) => (Applies(m, w) => PlanIsComplete(m, w)) /\ WillAt(m, w)

OnWorkflow(w) == DoneAt(w) /\ \A m \in Mains : PlanAt(m, w) /\ OnMain(m, w)

EachWorkflow == \A w \in Workflows : OnWorkflow(w)

\* A main that is past its claim has a record of a workflow.
LEMMA HoldsRow ==
    ASSUME FollowerInv, NEW m \in Mains, drain[m] \notin {"idle", "claim"}
    PROVE  /\ record[m] # NoRecord /\ record[m] \in Rows /\ record[m].workflow \in Workflows
           /\ record[m].version \in Versions
<1>1. record[m] # NoRecord /\ record[m] \in Rows
  BY MainOf DEF MainTypes
<1> QED BY <1>1 DEF Rows

\* LeaderInv, workflow by workflow.
LEMMA LeaderByPart == FollowerInv => (LeaderInv <=> OneLeader /\ EachWorkflow)
<1> SUFFICES ASSUME FollowerInv PROVE LeaderInv <=> OneLeader /\ EachWorkflow
  OBVIOUS
<1>1. PlanIsCurrent <=> \A m \in Mains, w \in Workflows : PlanAt(m, w)
  <2>1. ASSUME PlanIsCurrent, NEW m \in Mains, NEW w \in Workflows PROVE PlanAt(m, w)
    BY <2>1 DEF PlanIsCurrent, PlanAt, Applies
  <2>2. ASSUME \A m \in Mains, w \in Workflows : PlanAt(m, w) PROVE PlanIsCurrent
    <3> SUFFICES ASSUME NEW m \in Mains
                 PROVE  LET w == record[m].workflow
                        IN  /\ drain[m] \in Applying /\ plan[m].unpublish => plan[m].add = {}
                            /\ drain[m] = "remove" =>
                                 plan[m].remove = Nodes(OfVersion(published[w]) \ OfVersion(Target(m)))
                            /\ drain[m] = "add" \/ (drain[m] = "report" /\ outcome[w] = "ok") =>
                                 published[w] = Target(m)
      BY DEF PlanIsCurrent
    <3>1. CASE drain[m] \in Applying
      <4>1. record[m].workflow \in Workflows
        BY <3>1, HoldsRow DEF Applying
      <4>2. PlanAt(m, record[m].workflow) /\ Applies(m, record[m].workflow)
        BY <2>2, <3>1, <4>1 DEF Applies
      <4> QED BY <4>2 DEF PlanAt
    <3>2. CASE drain[m] \notin Applying
      BY <3>2 DEF Applying
    <3> QED BY <3>1, <3>2
  <2> QED BY <2>1, <2>2
<1>2. DoneIsPublished <=> \A w \in Workflows : DoneAt(w)
  BY DEF DoneIsPublished, DoneAt
<1>3. RunsAtMostPublished <=> \A m \in Mains, w \in Workflows : Steady(m, w) => MostAt(m, w)
  BY DEF RunsAtMostPublished, MostAt
<1>4. RunsOrWill <=> \A m \in Mains, w \in Workflows : Steady(m, w) /\ ~Recovers(m, w) =>
                       (Applies(m, w) => PlanIsComplete(m, w)) /\ WillAt(m, w)
  BY DEF RunsOrWill, WillAt, Recovers
<1>5. EachWorkflow <=> /\ \A w \in Workflows : DoneAt(w)
                       /\ \A m \in Mains, w \in Workflows : PlanAt(m, w)
                       /\ \A m \in Mains, w \in Workflows : Steady(m, w) => MostAt(m, w)
                       /\ \A m \in Mains, w \in Workflows : Steady(m, w) /\ ~Recovers(m, w) =>
                            (Applies(m, w) => PlanIsComplete(m, w)) /\ WillAt(m, w)
  BY DEF EachWorkflow, OnWorkflow, OnMain
<1> QED BY <1>1, <1>2, <1>3, <1>4, <1>5 DEF LeaderInv

\* The same of the next state.
LEMMA LeaderByPartNext == FollowerInv' => (LeaderInv' <=> OneLeader' /\ EachWorkflow')
BY LeaderByPart, PTL

\* One main at a time holds a record of a workflow.
LEMMA OneHolder ==
    ASSUME FollowerInv, RequestInv, NEW m \in Mains, NEW n \in Mains,
           drain[m] \notin {"idle", "claim"}, drain[n] \notin {"idle", "claim"},
           record[m].workflow = record[n].workflow
    PROVE  m = n
BY HoldsRow DEF RequestInv, RecordIsRow

\* A step that leaves a workflow's versions, rows and appliers.
Same(w) ==
    /\ published'[w] = published[w] /\ outcome'[w] = outcome[w] /\ active'[w] = active[w]
    /\ HasPending(w) => HasPending(w)'
    /\ HasRow(w)' <=> HasRow(w)
    /\ \A n \in Mains : Applies(n, w)' <=> Applies(n, w)
    /\ \A n \in Mains : Applies(n, w) =>
         drain'[n] = drain[n] /\ plan'[n] = plan[n] /\ record'[n] = record[n]

\* And what a main runs of it, if the main leads afterwards.
SameOn(m, w) ==
    Steady(m, w)' =>
        /\ Steady(m, w) /\ registered'[m][w] = registered[m][w]
        /\ m \in enqueuing /\ active[w] # NoVersion => m \in enqueuing'
        /\ Recovers(m, w) => Recovers(m, w)'

\* Such a step keeps what LeaderInv says of the workflow.
LEMMA SameKeeps ==
    ASSUME NEW w, OnWorkflow(w), Same(w)
    PROVE  DoneAt(w)' /\ \A m \in Mains : PlanAt(m, w)' /\ (SameOn(m, w) => OnMain(m, w)')
<1>1. DoneAt(w)'
  BY DEF OnWorkflow, DoneAt, Same
<1>2. ASSUME NEW n \in Mains, Applies(n, w) PROVE Target(n)' = Target(n)
  BY <1>2 DEF Same, Target
<1>3. ASSUME NEW m \in Mains PROVE PlanAt(m, w)'
  <2> SUFFICES ASSUME Applies(m, w)'
               PROVE  /\ plan'[m].unpublish => plan'[m].add = {}
                      /\ drain'[m] = "remove" =>
                           plan'[m].remove = Nodes(OfVersion(published'[w]) \ OfVersion(Target(m)'))
                      /\ drain'[m] = "add" \/ (drain'[m] = "report" /\ outcome'[w] = "ok") =>
                           published'[w] = Target(m)'
    BY DEF PlanAt, Nodes, OfVersion
  <2>1. Applies(m, w) /\ Target(m)' = Target(m)
    BY <1>2 DEF Same
  <2> QED BY <2>1 DEF OnWorkflow, PlanAt, Same
<1>4. ASSUME NEW m \in Mains, SameOn(m, w), Steady(m, w)' PROVE MostAt(m, w)'
  <2>1. MostAt(m, w) /\ registered'[m][w] = registered[m][w]
    BY <1>4 DEF OnWorkflow, OnMain, SameOn
  <2>2. /\ Applies(m, w)' <=> Applies(m, w)
        /\ Applies(m, w) => drain'[m] = drain[m] /\ Target(m)' = Target(m)
        /\ published'[w] = published[w]
        /\ \A n \in Mains \ {m} : Applies(n, w)' <=> Applies(n, w)
    BY <1>2 DEF Same
  <2>3. \A n \in Mains \ {m} : Applies(n, w)' => registered'[m][w] = {}
    BY <2>1, <2>2 DEF MostAt
  <2> QED BY <2>1, <2>2, <2>3 DEF MostAt, OfVersion
<1>5. ASSUME NEW m \in Mains, SameOn(m, w), Steady(m, w)', ~Recovers(m, w)', Applies(m, w)'
      PROVE  PlanIsComplete(m, w)'
  <2>1. Applies(m, w) /\ Target(m)' = Target(m) /\ drain'[m] = drain[m] /\ plan'[m] = plan[m]
    BY <1>2, <1>5 DEF Same
  <2>2. PlanIsComplete(m, w) /\ registered'[m][w] = registered[m][w]
    BY <1>5, <2>1 DEF OnWorkflow, OnMain, SameOn
  <2> QED BY <2>1, <2>2 DEF PlanIsComplete, OfVersion, Same
<1>6. ASSUME NEW m \in Mains, SameOn(m, w), Steady(m, w)', ~Recovers(m, w)'
      PROVE  WillAt(m, w)'
  <2>1. WillAt(m, w) /\ registered'[m][w] = registered[m][w]
        /\ (m \in enqueuing /\ active[w] # NoVersion => m \in enqueuing')
    BY <1>6 DEF OnWorkflow, OnMain, SameOn
  <2>2. CASE (m \in enqueuing /\ active[w] # NoVersion) \/ HasPending(w)
    BY <2>1, <2>2 DEF WillAt, Same
  <2>3. CASE \E n \in Mains \ {m} : Applies(n, w) /\ plan[n].unpublish
    <3>1. \E n \in Mains \ {m} : Applies(n, w)' /\ plan'[n].unpublish
      BY <2>3 DEF Same
    <3> QED BY <3>1 DEF WillAt
  <2>4. CASE /\ \A n \in Mains \ {m} : ~Applies(n, w)
             /\ HasRow(w) \/ outcome[w] # "ok" \/ registered[m][w] = OfVersion(published[w])
    <3>1. \A n \in Mains \ {m} : ~Applies(n, w)'
      BY <2>4 DEF Same
    <3>2. HasRow(w)' \/ outcome'[w] # "ok" \/ registered'[m][w] = OfVersion(published'[w])
      BY <2>1, <2>4 DEF Same
    <3> QED BY <3>1, <3>2 DEF WillAt, OfVersion
  <2> QED BY <2>1, <2>2, <2>3, <2>4 DEF WillAt
<1>7. ASSUME NEW m \in Mains, SameOn(m, w) PROVE OnMain(m, w)'
  BY <1>4, <1>5, <1>6, <1>7 DEF OnMain
<1> QED BY <1>1, <1>3, <1>7

\* Where it is the same on every main.
LEMMA SameEverywhere ==
    ASSUME NEW w, OnWorkflow(w), Same(w), \A m \in Mains : SameOn(m, w)
    PROVE  OnWorkflow(w)'
BY SameKeeps DEF OnWorkflow

-----------------------------------------------------------------------------
(* With one leader, every step keeps LeaderInv *)

NoOverlap == "overlap" \notin Ops /\ "retake" \notin Ops

\* Who tears down does not lead, or shuts down.
LEMMA TearsDown ==
    ASSUME OneLeader, NEW m \in Mains, NEW k \in Teardowns,
           TeardownVisit(m, k) \/ TeardownWait(m, k) \/ TeardownRemove(m, k) \/ TeardownThrows(m, k)
    PROVE  ~(isLeader[m] /\ ~isShuttingDown[m])
<1>1. teardown[m][k].todo # {} \/ teardown[m][k].deferred # {} \/ teardown[m][k].current # {}
  <2>1. CASE TeardownVisit(m, k)
    BY <2>1 DEF TeardownVisit
  <2>2. CASE TeardownWait(m, k)
    BY <2>2 DEF TeardownWait
  <2>3. CASE TeardownRemove(m, k) \/ TeardownThrows(m, k)
    BY <2>3 DEF TeardownRemove, TeardownThrows
  <2> QED BY <2>1, <2>2, <2>3
<1>2. NoTeardown.todo = {} /\ NoTeardown.deferred = {} /\ NoTeardown.current = {}
  BY DEF NoTeardown
<1>3. teardown[m][k] # NoTeardown
  BY <1>1, <1>2
<1> QED BY <1>3 DEF OneLeader, TearingDown

\* There is one leader, which is done with its teardowns.
LEMMA OneLeaderStep ==
    ASSUME NoOverlap
    PROVE  FollowerInv /\ OneLeader /\ [PublicationNext]_vars => OneLeader'
<1> SUFFICES ASSUME FollowerInv, OneLeader, [PublicationNext]_vars PROVE OneLeader'
  OBVIOUS
<1>1. ASSUME UNCHANGED <<isLeader, isShuttingDown, teardown>>, enqueuing' \subseteq enqueuing
      PROVE  OneLeader'
  BY <1>1 DEF OneLeader, TearingDown
<1>2. CASE UNCHANGED vars
  BY <1>1, <1>2 DEF vars, roleVars, triggerVars
<1>3. ASSUME NEW w \in Workflows, Unpublish(w) \/ \E v \in Versions : Publish(w, v) PROVE OneLeader'
  BY <1>1, <1>3 DEF Unpublish, Publish, roleVars, triggerVars
<1>4. ASSUME NEW m \in Mains, EnqueueActiveWorkflows(m) \/ WakeUp(m) PROVE OneLeader'
  BY <1>1, <1>4 DEF EnqueueActiveWorkflows, WakeUp, triggerVars
<1>5. ASSUME NEW m \in Mains, DrainStep(m) PROVE OneLeader'
  BY <1>1, <1>5 DEF DrainStep, StartClaim, Claim, ReturnRecord, Resolve, Deactivate, DeactivateFails, Advance,
                    Activate, Report, roleVars, triggerVars
<1>6. ASSUME NEW m \in Mains, RuntimeFailure(m) \/ RuntimeRecovered(m) PROVE OneLeader'
  BY <1>1, <1>6 DEF RuntimeFailure, RuntimeRecovered, roleVars
<1>7. ASSUME NEW m \in Mains, TeardownStep(m) PROVE OneLeader'
  <2>1. PICK k \in Teardowns :
          TeardownVisit(m, k) \/ TeardownWait(m, k) \/ TeardownRemove(m, k) \/ TeardownThrows(m, k)
    BY <1>7 DEF TeardownStep
  <2>3. ~(isLeader[m] /\ ~isShuttingDown[m])
    BY <2>1, TearsDown
  <2>4. UNCHANGED <<isLeader, isShuttingDown, enqueuing>>
    BY <2>1 DEF TeardownVisit, TeardownWait, TeardownRemove, TeardownThrows, roleVars
  <2>5. \A n \in Mains \ {m} : teardown'[n] = teardown[n]
    <3>1. \E t : teardown' = [teardown EXCEPT ![m][k] = t]
      BY <2>1 DEF TeardownVisit, TeardownWait, TeardownRemove, TeardownThrows, Update
    <3> QED BY <3>1, MainOf DEF ByMain
  <2> QED BY <2>3, <2>4, <2>5 DEF OneLeader, TearingDown
<1>8. ASSUME NEW m \in Mains, Takeover(m) PROVE OneLeader'
  <2>1. /\ \A n \in Mains : ~isLeader[n]
        /\ ~TearingDown(m) /\ isLeader' = [isLeader EXCEPT ![m] = TRUE]
        /\ enqueuing' = enqueuing \cup {m} /\ UNCHANGED <<isShuttingDown, teardown>>
    BY <1>8 DEF Takeover, NoOverlap, triggerVars
  <2>2. enqueuing = {}
    BY <2>1, InvByMain DEF OneLeader, RestOK
  <2>3. isLeader'[m] /\ \A n \in Mains \ {m} : ~isLeader'[n]
    BY <2>1, MainOf DEF ByMain
  <2> QED BY <2>1, <2>2, <2>3 DEF OneLeader, TearingDown
<1>9. ASSUME NEW m \in Mains, Stepdown(m) PROVE OneLeader'
  <2>1. /\ m \notin enqueuing /\ isLeader' = [isLeader EXCEPT ![m] = FALSE]
        /\ UNCHANGED <<isShuttingDown, enqueuing>>
        /\ \E t : teardown' = [teardown EXCEPT ![m][takeovers] = t]
    BY <1>9 DEF Stepdown, NoOverlap, BeginTeardown
  <2>2. ~isLeader'[m] /\ \A n \in Mains \ {m} : isLeader'[n] = isLeader[n] /\ teardown'[n] = teardown[n]
    BY <2>1, MainOf DEF ByMain
  <2>3. enqueuing \subseteq Mains
    BY InvByMain DEF RestOK
  <2> QED BY <2>1, <2>2, <2>3 DEF OneLeader, TearingDown
<1>10. ASSUME NEW m \in Mains, Shutdown(m) PROVE OneLeader'
  <2>1. /\ isShuttingDown' = [isShuttingDown EXCEPT ![m] = TRUE]
        /\ UNCHANGED <<isLeader, enqueuing>>
        /\ \E t : teardown' = [teardown EXCEPT ![m][takeovers] = t]
    BY <1>10 DEF Shutdown, BeginTeardown
  <2>2. isShuttingDown'[m]
        /\ \A n \in Mains \ {m} : isShuttingDown'[n] = isShuttingDown[n] /\ teardown'[n] = teardown[n]
    BY <2>1, MainOf DEF ByMain
  <2> QED BY <2>1, <2>2 DEF OneLeader, TearingDown
<1>11. ASSUME NEW m \in Mains, Restart(m) PROVE OneLeader'
  <2>1. /\ isLeader' = [isLeader EXCEPT ![m] = FALSE] /\ enqueuing' = enqueuing \ {m}
        /\ isShuttingDown' = [isShuttingDown EXCEPT ![m] = FALSE]
        /\ \E t : teardown' = [teardown EXCEPT ![m] = t]
    BY <1>11 DEF Restart
  <2>2. /\ ~isLeader'[m]
        /\ \A n \in Mains \ {m} : isLeader'[n] = isLeader[n] /\ isShuttingDown'[n] = isShuttingDown[n]
                                  /\ teardown'[n] = teardown[n]
    BY <2>1, MainOf DEF ByMain
  <2>3. enqueuing \subseteq Mains
    BY InvByMain DEF RestOK
  <2> QED BY <2>1, <2>2, <2>3 DEF OneLeader, TearingDown
<1> QED BY <1>2, <1>3, <1>4, <1>5, <1>6, <1>7, <1>8, <1>9, <1>10, <1>11 DEF PublicationNext

\* A step that leaves what is applied, and does not make a leader of anyone.
LEMMA LeaderKept ==
    ASSUME EachWorkflow, UNCHANGED <<active, published, outbox, outcome, record, plan, enqueuing>>,
           \A n \in Mains : drain'[n] \in Applying \/ drain[n] \in Applying => drain'[n] = drain[n],
           \A n \in Mains, w \in Workflows : Steady(n, w)' =>
              /\ Steady(n, w) /\ registered'[n][w] = registered[n][w]
              /\ Recovers(n, w) => Recovers(n, w)'
    PROVE  EachWorkflow'
<1> SUFFICES ASSUME NEW w \in Workflows PROVE OnWorkflow(w)'
  BY DEF EachWorkflow
<1>1. Same(w)
  BY DEF Same, HasPending, HasRow, Applies
<1>2. \A m \in Mains : SameOn(m, w)
  BY DEF SameOn
<1> QED BY <1>1, <1>2, SameEverywhere DEF EachWorkflow

\* A step of another's teardown, the end of a leadership, a wake-up and the
\* start of a claim.
LEMMA LeaderOthers ==
    ASSUME FollowerInv, OneLeader, EachWorkflow, NEW m \in Mains,
           \/ WakeUp(m) \/ Stepdown(m) \/ Shutdown(m) \/ StartClaim(m)
           \/ \E k \in Teardowns :
                TeardownVisit(m, k) \/ TeardownWait(m, k) \/ TeardownRemove(m, k) \/ TeardownThrows(m, k)
    PROVE  EachWorkflow'
<1>1. UNCHANGED <<active, published, outbox, outcome, record, plan, enqueuing, recovering>>
  BY DEF WakeUp, Stepdown, Shutdown, StartClaim, TeardownVisit, TeardownWait, TeardownRemove,
         TeardownThrows, dbVars, drainVars, roleVars, triggerVars
<1>2. UNCHANGED drain \/ (drain[m] = "idle" /\ drain' = [drain EXCEPT ![m] = "claim"])
  BY DEF WakeUp, Stepdown, Shutdown, StartClaim, TeardownVisit, TeardownWait, TeardownRemove,
         TeardownThrows, drainVars
<1>3. \A n \in Mains : drain'[n] \in Applying \/ drain[n] \in Applying => drain'[n] = drain[n]
  BY <1>2, MainOf DEF ByMain, Applying
<1>4. ASSUME NEW n \in Mains, NEW w \in Workflows, Steady(n, w)'
      PROVE  Steady(n, w) /\ registered'[n][w] = registered[n][w]
  <2>1. CASE WakeUp(m) \/ StartClaim(m)
    BY <1>4, <2>1 DEF WakeUp, StartClaim, Steady, roleVars, triggerVars
  <2>2. CASE Stepdown(m)
    <3>1. isLeader' = [isLeader EXCEPT ![m] = FALSE] /\ UNCHANGED <<isShuttingDown, registered, escaped>>
      BY <2>2 DEF Stepdown
    <3> QED BY <1>4, <3>1, MainOf DEF Steady, ByMain
  <2>3. CASE Shutdown(m)
    <3>1. isShuttingDown' = [isShuttingDown EXCEPT ![m] = TRUE] /\ UNCHANGED <<isLeader, registered, escaped>>
      BY <2>3 DEF Shutdown
    <3> QED BY <1>4, <3>1, MainOf DEF Steady, ByMain
  <2>4. ASSUME NEW k \in Teardowns, TeardownVisit(m, k) \/ TeardownWait(m, k)
        PROVE  UNCHANGED <<isLeader, isShuttingDown, registered, escaped>>
    BY <2>4 DEF TeardownVisit, TeardownWait, roleVars
  <2>5. ASSUME NEW k \in Teardowns, TeardownRemove(m, k) \/ TeardownThrows(m, k)
        PROVE  Steady(n, w) /\ registered'[n][w] = registered[n][w]
    <3>1. UNCHANGED <<isLeader, isShuttingDown>>
      BY <2>5 DEF TeardownRemove, TeardownThrows, roleVars
    <3>2. n # m
      BY <1>4, <2>5, <3>1, TearsDown DEF Steady
    <3>3. \E x, X, W : registered' = [registered EXCEPT ![m][x] = X] /\ escaped' = [escaped EXCEPT ![m] = W]
      <4>1. CASE TeardownRemove(m, k)
        BY <4>1 DEF TeardownRemove
      <4>2. CASE TeardownThrows(m, k)
        BY <4>2 DEF TeardownThrows
      <4> QED BY <2>5, <4>1, <4>2
    <3>4. registered'[n] = registered[n] /\ escaped'[n] = escaped[n]
      BY <3>2, <3>3, MainOf DEF ByMain
    <3> QED BY <1>4, <3>1, <3>4 DEF Steady
  <2>6. ASSUME NEW k \in Teardowns, TeardownVisit(m, k) \/ TeardownWait(m, k)
        PROVE  Steady(n, w) /\ registered'[n][w] = registered[n][w]
    BY <1>4, <2>4, <2>6 DEF Steady
  <2> QED BY <2>1, <2>2, <2>3, <2>5, <2>6
<1>5. \A n \in Mains, w \in Workflows : Recovers(n, w)' <=> Recovers(n, w)
  BY <1>1 DEF Recovers
<1> QED BY <1>1, <1>3, <1>4, <1>5, LeaderKept

\* An upsert, of workflows asked for and of the others.
LEMMA UpsertLeaves ==
    ASSUME Table(outbox), NEW versions, Requests(versions), outbox' = Upserted(versions), NEW w \in Workflows
    PROVE  /\ HasPending(w) => HasPending(w)'
           /\ (\E x \in versions : x.workflow = w) => HasPending(w)' /\ HasRow(w)'
           /\ ~(\E x \in versions : x.workflow = w) => (HasRow(w)' <=> HasRow(w))
<1> DEFINE O == Range(outbox)
           R == Range(Upserted(versions))
<1>1. /\ \A x \in R : x.status = "in_progress" => x \in O
      /\ \A x \in R : x.status = "pending" =>
           \/ [workflow |-> x.workflow, version |-> x.version] \in versions
           \/ x \in O /\ ~\E v \in versions : v.workflow = x.workflow
      /\ \A v \in versions : \E x \in R : x.workflow = v.workflow /\ x.status = "pending"
      /\ \A x \in O : \E y \in R : y.workflow = x.workflow /\ y.status = x.status
      /\ \A x \in R : x.status \in {"pending", "in_progress"}
  BY UpsertedIs, TableRows
<1>2. /\ HasPending(w)' <=> \E x \in R : x.workflow = w /\ x.status = "pending"
      /\ HasRow(w)' <=> \E x \in R : x.workflow = w
  BY DEF HasPending, HasRow
<1> HIDE DEF R
<1>3. ASSUME HasPending(w) PROVE HasPending(w)'
  <2>1. PICK x \in O : x.workflow = w /\ x.status = "pending"
    BY <1>3 DEF HasPending
  <2>2. PICK y \in R : y.workflow = x.workflow /\ y.status = x.status
    BY <1>1, <2>1
  <2> QED BY <1>2, <2>1, <2>2
<1>4. ASSUME NEW v \in versions, v.workflow = w PROVE HasPending(w)' /\ HasRow(w)'
  <2>1. PICK y \in R : y.workflow = v.workflow /\ y.status = "pending"
    BY <1>1
  <2> QED BY <1>2, <1>4, <2>1
<1>5. ASSUME ~(\E x \in versions : x.workflow = w) PROVE HasRow(w)' <=> HasRow(w)
  <2>1. ASSUME NEW x \in R, x.workflow = w PROVE x \in O
    <3>1. CASE [workflow |-> x.workflow, version |-> x.version] \in versions
      BY <1>5, <2>1, <3>1
    <3> QED BY <1>1, <3>1
  <2>2. ASSUME NEW x \in O, x.workflow = w PROVE \E y \in R : y.workflow = w
    BY <1>1, <2>2
  <2> QED BY <1>2, <2>1, <2>2 DEF HasRow
<1> QED BY <1>3, <1>4, <1>5

\* A request of the upsert: whatever it changes, a record is to come.
LEMMA LeaderUpserts ==
    ASSUME FollowerInv, EachWorkflow, NEW versions, Requests(versions), outbox' = Upserted(versions),
           UNCHANGED <<published, outcome, drain, record, plan, registered, recovering, escaped,
                       isLeader, isShuttingDown>>,
           \A w \in Workflows : \/ \E x \in versions : x.workflow = w
                                \/ active'[w] = active[w] /\ (UNCHANGED enqueuing \/ active[w] = NoVersion)
    PROVE  EachWorkflow'
<1> SUFFICES ASSUME NEW w \in Workflows PROVE OnWorkflow(w)'
  BY DEF EachWorkflow
<1>1. Table(outbox)
  BY InvByMain DEF RestOK
<1>2. OnWorkflow(w)
  BY DEF EachWorkflow
<1>3. \A m \in Mains : /\ Applies(m, w)' <=> Applies(m, w)
                       /\ Steady(m, w)' <=> Steady(m, w)
                       /\ Recovers(m, w)' <=> Recovers(m, w)
                       /\ Target(m)' = Target(m)
  BY DEF Applies, Steady, Recovers, Target
<1>4. CASE \E x \in versions : x.workflow = w
  <2>1. HasPending(w)' /\ HasRow(w)'
    BY <1>1, <1>4, UpsertLeaves
  <2>2. DoneAt(w)'
    BY <2>1 DEF DoneAt
  <2>3. ASSUME NEW m \in Mains PROVE PlanAt(m, w)'
    BY <1>2, <1>3 DEF OnWorkflow, PlanAt
  <2>4. ASSUME NEW m \in Mains PROVE OnMain(m, w)'
    <3>1. MostAt(m, w) => MostAt(m, w)'
      BY <1>3 DEF MostAt
    <3>2. PlanIsComplete(m, w) => PlanIsComplete(m, w)'
      BY <1>3 DEF PlanIsComplete
    <3>3. WillAt(m, w)'
      BY <2>1 DEF WillAt
    <3> QED BY <1>2, <1>3, <3>1, <3>2, <3>3 DEF OnWorkflow, OnMain
  <2> QED BY <2>2, <2>3, <2>4 DEF OnWorkflow
<1>5. CASE ~\E x \in versions : x.workflow = w
  <2>1. Same(w)
    BY <1>1, <1>3, <1>5, UpsertLeaves DEF Same
  <2>2. \A m \in Mains : SameOn(m, w)
    BY <1>3, <1>5 DEF SameOn
  <2> QED BY <1>2, <2>1, <2>2, SameEverywhere
<1> QED BY <1>4, <1>5

\* Publish, unpublish and the enqueue of a takeover.
LEMMA LeaderEdits ==
    ASSUME FollowerInv, EachWorkflow,
           \/ \E w \in Workflows : Unpublish(w) \/ \E v \in Versions : Publish(w, v)
           \/ \E m \in Mains : EnqueueActiveWorkflows(m)
    PROVE  EachWorkflow'
<1>1. active \in [Workflows -> Versions \cup {NoVersion}]
  BY InvByMain DEF RestOK
<1>2. ASSUME NEW w \in Workflows, NEW v \in Versions, NEW a,
             EnoughIds({[workflow |-> w, version |-> v]}), outbox' = Upserted({[workflow |-> w, version |-> v]}),
             active' = [active EXCEPT ![w] = a],
             UNCHANGED <<published, roleVars, drainVars, triggerVars, outcome, faults>>
      PROVE  EachWorkflow'
  <2> DEFINE x == [workflow |-> w, version |-> v]
  <2>1. Requests({x}) /\ outbox' = Upserted({x}) /\ x.workflow = w
    BY <1>2, RequestOne
  <2>2. \A y \in Workflows : y # w => active'[y] = active[y]
    BY <1>1, <1>2
  <2>3. UNCHANGED <<published, outcome, drain, record, plan, registered, recovering, escaped,
                    isLeader, isShuttingDown, enqueuing>>
    BY <1>2 DEF roleVars, drainVars, triggerVars
  <2> HIDE DEF x
  <2>4. \A y \in Workflows : \/ \E z \in {x} : z.workflow = y
                             \/ active'[y] = active[y] /\ (UNCHANGED enqueuing \/ active[y] = NoVersion)
    BY <2>1, <2>2, <2>3
  <2> QED BY <2>1, <2>3, <2>4, LeaderUpserts
<1>3. ASSUME NEW w \in Workflows, Unpublish(w) PROVE EachWorkflow'
  <2>1. active[w] \in Versions
    BY <1>1, <1>3 DEF Unpublish
  <2> QED BY <1>2, <1>3, <2>1 DEF Unpublish
<1>4. ASSUME NEW w \in Workflows, NEW v \in Versions, Publish(w, v) PROVE EachWorkflow'
  BY <1>2, <1>4 DEF Publish
<1>5. ASSUME NEW m \in Mains, EnqueueActiveWorkflows(m) PROVE EachWorkflow'
  <2>1. Requests(ActiveVersions)
    BY <1>1, <1>5, RequestActive DEF EnqueueActiveWorkflows
  <2>2. /\ outbox' = Upserted(ActiveVersions)
        /\ UNCHANGED <<published, outcome, drain, record, plan, registered, recovering, escaped,
                       isLeader, isShuttingDown, active>>
    BY <1>5 DEF EnqueueActiveWorkflows, drainVars, triggerVars
  <2>3. \A w \in Workflows : active[w] = NoVersion \/ \E x \in ActiveVersions : x.workflow = w
    <3> SUFFICES ASSUME NEW w \in Workflows, active[w] # NoVersion PROVE \E x \in ActiveVersions : x.workflow = w
      OBVIOUS
    <3>1. [workflow |-> w, version |-> active[w]] \in ActiveVersions
      BY DEF ActiveVersions
    <3> QED BY <3>1
  <2> QED BY <2>1, <2>2, <2>3, LeaderUpserts
<1> QED BY <1>3, <1>4, <1>5

\* A takeover: the new leader runs nothing, and queues what is active.
LEMMA LeaderTakesOver ==
    ASSUME NoOverlap, FollowerInv, RequestInv, OneLeader, EachWorkflow, NEW m \in Mains, Takeover(m)
    PROVE  EachWorkflow'
<1> SUFFICES ASSUME NEW w \in Workflows PROVE OnWorkflow(w)'
  BY DEF EachWorkflow
<1>1. OnWorkflow(w)
  BY DEF EachWorkflow
<1>2. /\ \A n \in Mains : ~isLeader[n]
      /\ ~TearingDown(m) /\ isLeader' = [isLeader EXCEPT ![m] = TRUE]
      /\ enqueuing' = enqueuing \cup {m}
      /\ UNCHANGED <<active, published, outbox, outcome, drain, record, plan, teardown, registered,
                     escaped, isShuttingDown>>
  BY DEF Takeover, NoOverlap, dbVars, drainVars, triggerVars
<1>3. /\ HasPending(w)' <=> HasPending(w)
      /\ HasRow(w)' <=> HasRow(w)
      /\ \A n \in Mains : (Applies(n, w)' <=> Applies(n, w)) /\ Target(n)' = Target(n)
  BY <1>2 DEF HasPending, HasRow, Applies, Target
<1>4. DoneAt(w)' /\ \A n \in Mains : PlanAt(n, w)'
  BY <1>1, <1>2, <1>3 DEF OnWorkflow, DoneAt, PlanAt
<1>5. ASSUME NEW n \in Mains, Steady(n, w)' PROVE MostAt(n, w)' /\ ~Applies(n, w)' /\ WillAt(n, w)'
  <2>1. n = m
    BY <1>2, <1>5, MainOf DEF Steady, ByMain
  <2>2. w \notin escaped[m] /\ m \in enqueuing'
    BY <1>2, <1>5, <2>1 DEF Steady
  <2>3. registered[m][w] = {} /\ ~Applies(m, w)
    <3> SUFFICES ASSUME registered[m][w] # {} \/ Applies(m, w) PROVE FALSE
      OBVIOUS
    <3>1. PICK k \in Teardowns : w \in Left(m, k)
      BY <1>2, <2>2 DEF FollowerInv, TriggersCovered
    <3>2. teardown[m][k] = NoTeardown
      BY <1>2 DEF TearingDown
    <3> QED BY <3>1, <3>2 DEF Left, NoTeardown
  <2>4. MostAt(m, w)' /\ ~Applies(m, w)'
    BY <1>2, <1>3, <2>3 DEF MostAt
  <2>5. WillAt(m, w)'
    <3>1. CASE active[w] # NoVersion \/ HasPending(w)
      BY <1>2, <1>3, <2>2, <3>1 DEF WillAt
    <3>2. CASE active[w] = NoVersion /\ ~HasPending(w) /\ \E l \in Mains \ {m} : Applies(l, w)
      <4>1. PICK l \in Mains \ {m} : Applies(l, w)
        BY <3>2
      <4>2. Target(l) = NoVersion
        BY <3>2, <4>1 DEF RequestInv, TargetFollowsRequests, Applies
      <4>3. plan[l].unpublish
        <5>1. record[l].version \in Versions
          BY <4>1, HoldsRow DEF Applies, Applying
        <5> QED BY <4>2, <5>1, PublicationAssumption DEF Target
      <4> QED BY <1>2, <1>3, <4>1, <4>3 DEF WillAt
    <3>3. CASE active[w] = NoVersion /\ \A l \in Mains \ {m} : ~Applies(l, w)
      <4>1. HasRow(w) \/ outcome[w] # "ok" \/ published[w] = NoVersion
        BY <1>1, <3>3 DEF OnWorkflow, DoneAt
      <4>2. HasRow(w) \/ outcome[w] # "ok" \/ registered[m][w] = OfVersion(published[w])
        BY <2>3, <4>1 DEF OfVersion
      <4>3. HasRow(w)' \/ outcome'[w] # "ok" \/ registered'[m][w] = OfVersion(published'[w])
        BY <1>2, <1>3, <4>2
      <4> QED BY <1>3, <3>3, <4>3 DEF WillAt, OfVersion
    <3> QED BY <3>1, <3>2, <3>3
  <2> QED BY <2>1, <2>4, <2>5
<1> QED BY <1>4, <1>5 DEF OnWorkflow, OnMain

\* A row of a workflow that somebody processes is there.
LEMMA AppliedHasRow ==
    ASSUME FollowerInv, RequestInv, NEW n \in Mains, NEW w, Applies(n, w)
    PROVE  HasRow(w) /\ drain[n] \notin {"idle", "claim"} /\ record[n].workflow = w
<1>1. drain[n] \notin {"idle", "claim"} /\ record[n].workflow = w
  BY DEF Applies, Applying
<1> QED BY <1>1, HolderHasRow DEF HasRow

\* A crash: what the main was about to do, its row still asks for.
LEMMA LeaderRestarts ==
    ASSUME FollowerInv, RequestInv, EachWorkflow, NEW m \in Mains, Restart(m)
    PROVE  EachWorkflow'
<1> SUFFICES ASSUME NEW w \in Workflows PROVE OnWorkflow(w)'
  BY DEF EachWorkflow
<1>1. OnWorkflow(w) /\ ByMain /\ RestOK
  BY MainOf DEF EachWorkflow
<1>2. /\ isLeader' = [isLeader EXCEPT ![m] = FALSE] /\ enqueuing' = enqueuing \ {m}
      /\ UNCHANGED <<active, published, outbox, outcome>>
      /\ drain' = [drain EXCEPT ![m] = "idle"]
  BY DEF Restart, dbVars
<1>3. \A n \in Mains \ {m} :
        /\ isLeader'[n] = isLeader[n] /\ isShuttingDown'[n] = isShuttingDown[n]
        /\ drain'[n] = drain[n] /\ record'[n] = record[n] /\ plan'[n] = plan[n]
        /\ registered'[n] = registered[n] /\ recovering'[n] = recovering[n] /\ escaped'[n] = escaped[n]
  BY <1>1 DEF Restart, ByMain, RestOK
<1>4. ~isLeader'[m] /\ drain'[m] = "idle"
  BY <1>1, <1>2 DEF ByMain
<1>5. /\ HasPending(w)' <=> HasPending(w)
      /\ HasRow(w)' <=> HasRow(w)
  BY <1>2 DEF HasPending, HasRow
<1>6. ~Applies(m, w)' /\ ~Steady(m, w)'
  BY <1>4 DEF Applies, Applying, Steady
<1>7. \A n \in Mains \ {m} :
        /\ Applies(n, w)' <=> Applies(n, w)
        /\ Steady(n, w)' <=> Steady(n, w)
        /\ Recovers(n, w)' <=> Recovers(n, w)
        /\ Target(n)' = Target(n)
  BY <1>3 DEF Applies, Steady, Recovers, Target
<1>8. DoneAt(w)'
  BY <1>1, <1>2, <1>5 DEF OnWorkflow, DoneAt
<1>9. ASSUME NEW n \in Mains PROVE PlanAt(n, w)'
  BY <1>1, <1>2, <1>3, <1>6, <1>7 DEF OnWorkflow, PlanAt
<1>10. ASSUME NEW n \in Mains, Steady(n, w)'
       PROVE  MostAt(n, w)' /\ (~Recovers(n, w)' => (Applies(n, w)' => PlanIsComplete(n, w)') /\ WillAt(n, w)')
  <2>1. n # m /\ Steady(n, w)
    BY <1>6, <1>7, <1>10
  <2>2. MostAt(n, w) /\ (~Recovers(n, w) => (Applies(n, w) => PlanIsComplete(n, w)) /\ WillAt(n, w))
    BY <1>1, <2>1 DEF OnWorkflow, OnMain
  <2>3. MostAt(n, w)'
    <3>1. \A l \in Mains \ {n} : Applies(l, w)' => Applies(l, w)
      BY <1>6, <1>7
    <3> QED BY <1>2, <1>3, <1>7, <2>1, <2>2, <3>1 DEF MostAt
  <2>4. Applies(n, w)' /\ PlanIsComplete(n, w) => PlanIsComplete(n, w)'
    BY <1>2, <1>3, <1>7, <2>1 DEF PlanIsComplete
  <2>5. ASSUME WillAt(n, w) PROVE WillAt(n, w)'
    <3>1. CASE (n \in enqueuing /\ active[w] # NoVersion) \/ HasPending(w)
      BY <1>2, <1>5, <2>1, <3>1 DEF WillAt
    <3>2. CASE Applies(m, w)
      <4>1. \A l \in Mains \ {n} : ~Applies(l, w)'
        <5> SUFFICES ASSUME NEW l \in Mains \ {n}, Applies(l, w)' PROVE FALSE
          OBVIOUS
        <5>1. l # m /\ Applies(l, w)
          BY <1>6, <1>7
        <5> QED BY <3>2, <5>1, AppliedHasRow, OneHolder
      <4> QED BY <1>5, <3>2, <4>1, AppliedHasRow DEF WillAt
    <3>3. CASE ~Applies(m, w) /\ \E l \in Mains \ {n} : Applies(l, w) /\ plan[l].unpublish
      <4>1. PICK l \in Mains \ {n} : Applies(l, w) /\ plan[l].unpublish
        BY <3>3
      <4>2. l # m /\ Applies(l, w)' /\ plan'[l].unpublish
        BY <1>3, <1>7, <3>3, <4>1
      <4> QED BY <4>1, <4>2 DEF WillAt
    <3>4. CASE /\ \A l \in Mains \ {n} : ~Applies(l, w)
               /\ HasRow(w) \/ outcome[w] # "ok" \/ registered[n][w] = OfVersion(published[w])
      <4>1. \A l \in Mains \ {n} : ~Applies(l, w)'
        BY <1>6, <1>7, <3>4
      <4>2. HasRow(w)' \/ outcome'[w] # "ok" \/ registered'[n][w] = OfVersion(published'[w])
        BY <1>2, <1>3, <1>5, <2>1, <3>4
      <4> QED BY <4>1, <4>2 DEF WillAt, OfVersion
    <3> QED BY <2>5, <3>1, <3>2, <3>3, <3>4 DEF WillAt
  <2> QED BY <1>7, <2>1, <2>2, <2>3, <2>4, <2>5
<1> QED BY <1>8, <1>9, <1>10 DEF OnWorkflow, OnMain

\* A claim: the row that is taken goes on to say that a record is to come.
LEMMA LeaderClaims ==
    ASSUME FollowerInv, RequestInv, EachWorkflow, NEW m \in Mains, Claim(m), RequestInv', FollowerInv'
    PROVE  EachWorkflow'
<1>1. /\ RestOK /\ ByMain /\ Table(outbox) /\ drain[m] = "claim"
      /\ UNCHANGED <<active, published, plan, registered, recovering, escaped, isLeader, isShuttingDown,
                     enqueuing, outcome>>
  BY MainOf DEF RestOK, Claim, roleVars
<1>2. CASE UNCHANGED <<outbox, record>> /\ drain' = [drain EXCEPT ![m] = "idle"]
  <2>1. \A n \in Mains : drain'[n] \in Applying \/ drain[n] \in Applying => drain'[n] = drain[n]
    BY <1>1, <1>2 DEF ByMain, Applying
  <2>2. \A n \in Mains, w \in Workflows : /\ Steady(n, w)' <=> Steady(n, w)
                                          /\ Recovers(n, w)' <=> Recovers(n, w)
    BY <1>1 DEF Steady, Recovers
  <2> QED BY <1>1, <1>2, <2>1, <2>2, LeaderKept
<1>3. ASSUME NEW i \in DOMAIN outbox, outbox' = [outbox EXCEPT ![i].status = "in_progress"],
             record' = [record EXCEPT ![m] = outbox'[i]], drain' = [drain EXCEPT ![m] = "enter"]
      PROVE  EachWorkflow'
  <2> SUFFICES ASSUME NEW w \in Workflows PROVE OnWorkflow(w)'
    BY DEF EachWorkflow
  <2> DEFINE x == outbox[i]
             r == outbox'[i]
             R == Range(outbox')
             O == Range(outbox)
  <2>1. /\ R = (O \ {x}) \cup {r} /\ r.status = "in_progress" /\ r.workflow = x.workflow
        /\ x \in O /\ r \in Rows
    BY <1>1, <1>3, ClaimedIs, TableRows
  <2>2. /\ record'[m] = r /\ drain'[m] = "enter"
        /\ \A n \in Mains \ {m} : record'[n] = record[n] /\ drain'[n] = drain[n]
    BY <1>1, <1>3 DEF ByMain
  <2>3. OnWorkflow(w)
    BY DEF EachWorkflow
  <2> HIDE DEF x, r, R
  <2>4. HasRow(w)' <=> HasRow(w)
    BY <2>1 DEF HasRow, R
  <2>5. HasPending(w) => HasPending(w)' \/ r.workflow = w
    BY <2>1 DEF HasPending, R
  <2>6. /\ \A n \in Mains : Applies(n, w)' <=> Applies(n, w)
        /\ \A n \in Mains : Applies(n, w) => drain'[n] = drain[n] /\ plan'[n] = plan[n] /\ record'[n] = record[n]
    BY <1>1, <2>2 DEF Applies, Applying
  <2>7. \A n \in Mains : SameOn(n, w)
    BY <1>1 DEF SameOn, Steady, Recovers
  <2>8. CASE HasPending(w)' \/ ~HasPending(w)
    <3>1. Same(w)
      BY <1>1, <2>4, <2>6, <2>8 DEF Same
    <3> QED BY <2>3, <2>7, <3>1, SameEverywhere
  <2>9. CASE r.workflow = w
    <3>1. \A n \in Mains : ~Applies(n, w)'
      <4> SUFFICES ASSUME NEW n \in Mains, Applies(n, w)' PROVE FALSE
        OBVIOUS
      <4>1. n # m /\ Applies(n, w)
        BY <2>2, <2>6 DEF Applies, Applying
      <4>2. record'[n] # NoRecord /\ record'[n].workflow = w
        BY <2>2, <4>1, AppliedHasRow, HoldsRow
      <4>3. record'[m] # NoRecord /\ record'[m].workflow = w
        BY <2>1, <2>2, <2>9, RowIsRecord
      <4> QED BY <4>1, <4>2, <4>3 DEF RequestInv, RecordIsRow
    <3>2. HasRow(w)'
      BY <2>1, <2>9 DEF HasRow, R
    <3>3. DoneAt(w)' /\ \A n \in Mains : PlanAt(n, w)'
      BY <3>1, <3>2 DEF DoneAt, PlanAt
    <3>4. ASSUME NEW n \in Mains, Steady(n, w)' PROVE MostAt(n, w)' /\ WillAt(n, w)'
      <4>1. Steady(n, w) /\ MostAt(n, w) /\ ~Applies(n, w)
        BY <1>1, <2>3, <2>6, <3>1, <3>4 DEF Steady, OnWorkflow, OnMain
      <4>2. registered'[n][w] \subseteq OfVersion(published'[w])
        BY <1>1, <4>1 DEF MostAt
      <4>3. MostAt(n, w)'
        BY <3>1, <4>2 DEF MostAt, OfVersion
      <4>4. WillAt(n, w)'
        BY <3>1, <3>2 DEF WillAt
      <4> QED BY <4>3, <4>4
    <3> QED BY <3>1, <3>3, <3>4 DEF OnWorkflow, OnMain
  <2> QED BY <2>5, <2>8, <2>9
<1>4. CASE \E i \in DOMAIN outbox :
             /\ outbox' = [outbox EXCEPT ![i].status = "in_progress"]
             /\ record' = [record EXCEPT ![m] = outbox'[i]] /\ drain' = [drain EXCEPT ![m] = "enter"]
  BY <1>3, <1>4
<1> QED BY <1>2, <1>4 DEF Claim

\* A record that is no longer to be processed goes back to the queue: it was
\* not being applied, and its workflow still has a row.
LEMMA LeaderReturns ==
    ASSUME FollowerInv, RequestInv, EachWorkflow, NEW m \in Mains, ReturnRecord(m)
    PROVE  EachWorkflow'
<1> SUFFICES ASSUME NEW w \in Workflows PROVE OnWorkflow(w)'
  BY DEF EachWorkflow
<1> DEFINE O == Range(outbox)
           R == Range(outbox')
           r == record[m]
<1>1. /\ RestOK /\ ByMain
      /\ UNCHANGED <<active, published, registered, recovering, escaped, isLeader, isShuttingDown,
                     enqueuing, outcome>>
      /\ drain[m] = "enter" /\ drain' = [drain EXCEPT ![m] = "idle"]
      /\ record' = [record EXCEPT ![m] = NoRecord] /\ plan' = [plan EXCEPT ![m] = NoPlan]
  BY MainOf DEF ReturnRecord, Finish, roleVars
<1>2. r \in Rows /\ r \in O /\ r.status = "in_progress"
  BY <1>1, HolderHasRow
<1>3. /\ drain'[m] = "idle"
      /\ \A n \in Mains \ {m} : record'[n] = record[n] /\ drain'[n] = drain[n] /\ plan'[n] = plan[n]
  BY <1>1 DEF ByMain, RestOK
<1>4. \/ /\ \E y \in O : y.workflow = r.workflow /\ y.status = "pending"
         /\ R = O \ {r}
      \/ R = (O \ {r}) \cup {Back(r, r.id)}
  <2>1. ~Report(m)
    BY <1>1 DEF Report
  <2> QED BY <2>1, FinishedRows
<1>5. Back(r, r.id).workflow = r.workflow
  BY <1>2 DEF Back, Rows
<1>6. HasRow(w)' <=> HasRow(w)
  <2>1. HasRow(w)' <=> \E x \in R : x.workflow = w
    BY DEF HasRow
  <2> HIDE DEF R, r
  <2> QED BY <1>2, <1>4, <1>5, <2>1 DEF HasRow
<1>7. HasPending(w) => HasPending(w)'
  <2>1. HasPending(w)' <=> \E x \in R : x.workflow = w /\ x.status = "pending"
    BY DEF HasPending
  <2> HIDE DEF R, r
  <2> QED BY <1>2, <1>4, <2>1 DEF HasPending
<1>8. /\ \A n \in Mains : Applies(n, w)' <=> Applies(n, w)
      /\ \A n \in Mains : Applies(n, w) => drain'[n] = drain[n] /\ plan'[n] = plan[n] /\ record'[n] = record[n]
  BY <1>1, <1>3 DEF Applies, Applying
<1>9. Same(w)
  BY <1>1, <1>6, <1>7, <1>8 DEF Same
<1>10. \A n \in Mains : SameOn(n, w)
  BY <1>1 DEF SameOn, Steady, Recovers
<1> QED BY <1>9, <1>10, SameEverywhere DEF EachWorkflow

\* A report: a record that went well has made the published version what it
\* asked for, which is what was asked for last, or a newer request waits.
LEMMA LeaderReports ==
    ASSUME FollowerInv, RequestInv, EachWorkflow, NEW m \in Mains, Report(m)
    PROVE  EachWorkflow'
<1> SUFFICES ASSUME NEW w \in Workflows PROVE OnWorkflow(w)'
  BY DEF EachWorkflow
<1> DEFINE O == Range(outbox)
           R == Range(outbox')
           r == record[m]
<1>1. /\ RestOK /\ ByMain
      /\ UNCHANGED <<active, published, registered, recovering, escaped, isLeader, isShuttingDown,
                     enqueuing, outcome>>
      /\ drain[m] = "report" /\ drain' = [drain EXCEPT ![m] = "idle"]
      /\ record' = [record EXCEPT ![m] = NoRecord] /\ plan' = [plan EXCEPT ![m] = NoPlan]
  BY MainOf DEF Report, Finish, roleVars
<1>2. r \in Rows /\ r \in O /\ r.status = "in_progress"
  BY <1>1, HolderHasRow
<1>3. /\ drain'[m] = "idle"
      /\ \A n \in Mains \ {m} : record'[n] = record[n] /\ drain'[n] = drain[n] /\ plan'[n] = plan[n]
  BY <1>1 DEF ByMain, RestOK
<1>4. \/ R = O
      \/ R = O \ {r}
      \/ R = (O \ {r}) \cup {Back(r, r.id)}
  BY FinishedRows
<1>5. HasPending(w) => HasPending(w)'
  <2>1. HasPending(w)' <=> \E x \in R : x.workflow = w /\ x.status = "pending"
    BY DEF HasPending
  <2> HIDE DEF R, r
  <2> QED BY <1>2, <1>4, <2>1 DEF HasPending
<1>6. HasPending(w) => HasRow(w)'
  BY <1>5 DEF HasPending, HasRow
<1>7. Back(r, r.id).workflow = r.workflow
  BY <1>2 DEF Back, Rows
<1>8. OnWorkflow(w)
  BY DEF EachWorkflow
<1>9. \A n \in Mains : SameOn(n, w)
  BY <1>1 DEF SameOn, Steady, Recovers
<1>10. CASE r.workflow # w
  <2>1. HasRow(w)' <=> HasRow(w)
    <3>1. HasRow(w)' <=> \E x \in R : x.workflow = w
      BY DEF HasRow
    <3> HIDE DEF R, r
    <3> QED BY <1>2, <1>4, <1>7, <1>10, <3>1 DEF HasRow
  <2>2. /\ \A n \in Mains : Applies(n, w)' <=> Applies(n, w)
        /\ \A n \in Mains : Applies(n, w) => drain'[n] = drain[n] /\ plan'[n] = plan[n] /\ record'[n] = record[n]
    BY <1>1, <1>3, <1>10 DEF Applies, Applying
  <2>3. Same(w)
    BY <1>1, <1>5, <2>1, <2>2 DEF Same
  <2> QED BY <1>8, <1>9, <2>3, SameEverywhere
<1>11. CASE r.workflow = w
  <2>1. Applies(m, w) /\ drain[m] \notin {"idle", "claim"} /\ record[m].workflow = w
    BY <1>1, <1>11 DEF Applies, Applying
  <2>2. \A n \in Mains \ {m} : ~Applies(n, w)
    BY <2>1, AppliedHasRow, OneHolder
  <2>3. \A n \in Mains : ~Applies(n, w)'
    BY <1>3, <2>2 DEF Applies, Applying
  <2>4. outcome[w] = "ok" => published[w] = Target(m)
    BY <1>1, <1>8, <2>1 DEF OnWorkflow, PlanAt
  <2>5. Target(m) = active[w] \/ HasPending(w)
    BY <2>1 DEF RequestInv, TargetFollowsRequests, Applies
  <2>6. DoneAt(w)'
    BY <1>1, <1>6, <2>4, <2>5 DEF DoneAt
  <2>7. \A n \in Mains : PlanAt(n, w)'
    BY <2>3 DEF PlanAt
  <2>8. ASSUME NEW n \in Mains, Steady(n, w)' PROVE MostAt(n, w)'
    <3>1. MostAt(n, w) /\ ~(Applies(n, w) /\ drain[n] = "advance")
      BY <1>1, <1>8, <1>9, <2>2, <2>8 DEF OnWorkflow, OnMain, SameOn
    <3>2. registered'[n][w] \subseteq OfVersion(published'[w])
      BY <1>1, <3>1 DEF MostAt
    <3> QED BY <2>3, <3>2 DEF MostAt, OfVersion
  <2>9. ASSUME NEW n \in Mains, Steady(n, w)', ~Recovers(n, w)' PROVE WillAt(n, w)'
    <3>1. Steady(n, w) /\ ~Recovers(n, w)
      BY <1>9, <2>9 DEF SameOn
    <3>2. MostAt(n, w) /\ (Applies(n, w) => PlanIsComplete(n, w)) /\ WillAt(n, w)
      BY <1>8, <3>1 DEF OnWorkflow, OnMain
    <3>3. CASE (n \in enqueuing /\ active[w] # NoVersion) \/ HasPending(w)
      BY <1>1, <1>5, <3>3 DEF WillAt
    <3>4. CASE n = m /\ ~HasPending(w)
      <4>1. outcome[w] = "ok" => OfVersion(published[w]) \subseteq registered[m][w]
        BY <1>1, <2>1, <3>2, <3>4 DEF PlanIsComplete
      <4>2. registered[m][w] \subseteq OfVersion(published[w])
        BY <1>1, <3>2, <3>4 DEF MostAt
      <4>3. outcome'[w] # "ok" \/ registered'[n][w] = OfVersion(published'[w])
        BY <1>1, <3>4, <4>1, <4>2
      <4> QED BY <2>3, <4>3 DEF WillAt, OfVersion
    <3>5. CASE n # m /\ plan[m].unpublish
      <4>1. registered[n][w] = {}
        BY <2>1, <3>2, <3>5 DEF MostAt
      <4>2. outcome[w] = "ok" => published[w] = NoVersion
        BY <2>4, <3>5 DEF Target
      <4>3. outcome'[w] # "ok" \/ registered'[n][w] = OfVersion(published'[w])
        BY <1>1, <4>1, <4>2 DEF OfVersion
      <4> QED BY <2>3, <4>3 DEF WillAt, OfVersion
    <3> QED BY <2>1, <2>2, <3>2, <3>3, <3>4, <3>5 DEF WillAt
  <2> QED BY <2>3, <2>6, <2>7, <2>8, <2>9 DEF OnWorkflow, OnMain
<1> QED BY <1>10, <1>11

\* A step of main m with a record of w that it applies, or begins to apply,
\* keeps what LeaderInv says if it keeps it of m and w: the other mains run
\* nothing of w meanwhile.
LEMMA ApplierKeeps ==
    ASSUME FollowerInv, RequestInv, OneLeader, EachWorkflow, NEW m \in Mains, NEW w, w = record[m].workflow,
           drain[m] \in Applying \/ (drain[m] = "enter" /\ isLeader[m]),
           drain[m] \in Applying => UNCHANGED plan,
           NEW e \in Applying, drain' = [drain EXCEPT ![m] = e],
           UNCHANGED <<active, outbox, record, recovering, escaped, isLeader, isShuttingDown, enqueuing>>,
           \A n \in Mains \ {m} : plan'[n] = plan[n] /\ registered'[n] = registered[n],
           \A x \in Workflows \ {w} : /\ published'[x] = published[x] /\ outcome'[x] = outcome[x]
                                      /\ registered'[m][x] = registered[m][x],
           PlanAt(m, w)',
           Steady(m, w) => /\ registered'[m][w] \subseteq OfVersion(published'[w]) \/ e = "advance"
                           /\ e = "advance" => registered'[m][w] \subseteq OfVersion(Target(m)')
                           /\ ~Recovers(m, w) => PlanIsComplete(m, w)'
    PROVE  EachWorkflow'
<1> SUFFICES ASSUME NEW x \in Workflows PROVE OnWorkflow(x)'
  BY DEF EachWorkflow
<1>1. OnWorkflow(x)
  BY DEF EachWorkflow
<1>2. drain[m] \notin {"idle", "claim"} /\ w \in Workflows
  BY HoldsRow DEF Applying
<1>3. drain'[m] = e /\ \A n \in Mains \ {m} : drain'[n] = drain[n]
  BY MainOf DEF ByMain
<1>4. \A n \in Mains : /\ Steady(n, x)' <=> Steady(n, x)
                       /\ Recovers(n, x)' <=> Recovers(n, x)
  BY DEF Steady, Recovers
<1>5. /\ HasPending(x)' <=> HasPending(x)
      /\ HasRow(x)' <=> HasRow(x)
  BY DEF HasPending, HasRow
<1>6. CASE x # w
  <2>1. /\ \A n \in Mains : Applies(n, x)' <=> Applies(n, x)
        /\ \A n \in Mains : Applies(n, x) => drain'[n] = drain[n] /\ plan'[n] = plan[n] /\ record'[n] = record[n]
    BY <1>3, <1>6 DEF Applies
  <2>2. Same(x)
    BY <1>5, <1>6, <2>1 DEF Same
  <2>3. ASSUME NEW n \in Mains PROVE SameOn(n, x)
    <3>1. registered'[n][x] = registered[n][x]
      BY <1>6
    <3> QED BY <1>4, <3>1 DEF SameOn
  <2> QED BY <1>1, <2>2, <2>3, SameEverywhere
<1>7. CASE x = w
  <2>1. Applies(m, w)' /\ (drain[m] \in Applying => Applies(m, w))
    BY <1>3 DEF Applies
  <2>2. \A n \in Mains \ {m} : ~Applies(n, w)
    BY <1>2, AppliedHasRow, OneHolder
  <2>3. \A n \in Mains \ {m} : ~Applies(n, w)'
    BY <1>3, <2>2 DEF Applies
  <2>4. HasRow(w)'
    BY <1>2, <1>5, <1>7, HolderHasRow DEF HasRow
  <2>5. DoneAt(w)'
    BY <2>4 DEF DoneAt
  <2>6. \A n \in Mains : PlanAt(n, w)'
    BY <2>3 DEF PlanAt
  <2>7. ASSUME Steady(m, w)' PROVE MostAt(m, w)' /\ WillAt(m, w)' /\ (~Recovers(m, w)' => PlanIsComplete(m, w)')
    <3>1. Steady(m, w) /\ (Recovers(m, w)' <=> Recovers(m, w))
      BY <1>4, <1>7, <2>7
    <3>2. MostAt(m, w)'
      BY <1>3, <2>1, <2>3, <3>1 DEF MostAt, OfVersion
    <3>3. WillAt(m, w)'
      BY <2>3, <2>4 DEF WillAt
    <3> QED BY <3>1, <3>2, <3>3
  <2>8. ASSUME NEW n \in Mains \ {m}, Steady(n, w)'
        PROVE  MostAt(n, w)' /\ (~Recovers(n, w)' => WillAt(n, w)')
    <3>1. Steady(n, w) /\ (Recovers(n, w)' <=> Recovers(n, w))
      BY <1>4, <1>7, <2>8
    <3>2. drain[m] \in Applying
      BY <3>1 DEF OneLeader, Steady
    <3>3. MostAt(n, w) /\ (~Recovers(n, w) => WillAt(n, w))
      BY <1>1, <1>7, <3>1 DEF OnWorkflow, OnMain
    <3>4. registered'[n][w] = {}
      BY <2>1, <3>2, <3>3 DEF MostAt
    <3>5. MostAt(n, w)'
      BY <2>3, <3>4 DEF MostAt
    <3>6. ASSUME WillAt(n, w) PROVE WillAt(n, w)'
      <4>1. CASE (n \in enqueuing /\ active[w] # NoVersion) \/ HasPending(w)
        BY <1>5, <1>7, <4>1 DEF WillAt
      <4>2. CASE \E l \in Mains \ {n} : Applies(l, w) /\ plan[l].unpublish
        <5>1. plan'[m].unpublish
          BY <2>2, <3>2, <4>2
        <5> QED BY <2>1, <5>1 DEF WillAt
      <4> QED BY <2>1, <3>2, <3>6, <4>1, <4>2 DEF WillAt
    <3> QED BY <3>1, <3>3, <3>5, <3>6
  <2> QED BY <1>7, <2>3, <2>5, <2>6, <2>7, <2>8 DEF OnWorkflow, OnMain
<1> QED BY <1>6, <1>7

\* A version's triggers differ in their nodes.
LEMMA NodesDiffer ==
    ASSUME NEW v \in Versions \cup {NoVersion}
    PROVE  \A t, u \in OfVersion(v) : t.node = u.node => t = u
<1>1. CASE v = NoVersion
  BY <1>1 DEF OfVersion
<1>2. CASE v # NoVersion
  BY <1>2, PublicationAssumption DEF OfVersion
<1> QED BY <1>1, <1>2

\* The nodes of an empty difference.
LEMMA NodesEmpty ==
    ASSUME NEW X, Nodes(X) = {}
    PROVE  X = {}
BY DEF Nodes

\* The diff of a record: what is to be removed runs, what is to be added does not.
LEMMA LeaderResolves ==
    ASSUME FollowerInv, RequestInv, OneLeader, EachWorkflow, NEW m \in Mains, Resolve(m),
           NEW w, w = record[m].workflow
    PROVE  EachWorkflow'
<1> DEFINE old == OfVersion(published[w])
           new == OfVersion(record[m].version)
           unpublish == active[w] = NoVersion
           skipped == unpublish /\ published[w] = NoVersion
           e == CASE skipped -> "report"
                  [] plan'[m].remove # {} -> "remove"
                  [] OTHER -> "advance"
<1>1. /\ RestOK /\ ByMain /\ drain[m] = "enter" /\ isLeader[m]
      /\ UNCHANGED <<active, published, outbox, record, registered, recovering, escaped, isLeader,
                     isShuttingDown, enqueuing>>
  BY MainOf DEF Resolve, dbVars, roleVars, triggerVars
<1>2. w \in Workflows /\ record[m].version \in Versions /\ published[w] \in Versions \cup {NoVersion}
  BY <1>1, HoldsRow DEF RestOK
<1>3. drain' = [drain EXCEPT ![m] = e]
  BY DEF Resolve
<1>4. outcome' = [outcome EXCEPT ![w] = IF skipped THEN "ok" ELSE @]
  BY DEF Resolve
<1>5. plan' = [plan EXCEPT ![m] =
                 IF unpublish
                   THEN [unpublish |-> TRUE, remove |-> Nodes(old), add |-> {}]
                   ELSE [unpublish |-> FALSE, remove |-> Nodes(old \ new),
                         add |-> Nodes(new \ old) \cup Unregistered(m, w, new)]]
  BY DEF Resolve
<1>6. /\ unpublish => plan'[m] = [unpublish |-> TRUE, remove |-> Nodes(old), add |-> {}]
      /\ ~unpublish => plan'[m] = [unpublish |-> FALSE, remove |-> Nodes(old \ new),
                                  add |-> Nodes(new \ old) \cup Unregistered(m, w, new)]
      /\ \A n \in Mains \ {m} : plan'[n] = plan[n]
  <2>1. m \in DOMAIN plan
    BY <1>1 DEF RestOK
  <2> HIDE DEF unpublish, old, new
  <2> QED BY <2>1, <1>5
<1>7. e \in Applying /\ e \in {"report", "remove", "advance"}
      /\ (e = "report" <=> skipped) /\ (e = "advance" => plan'[m].remove = {})
  <2> DEFINE removes == plan'[m].remove # {}
  <2>1. skipped \in BOOLEAN /\ removes \in BOOLEAN /\ (~removes => plan'[m].remove = {})
    OBVIOUS
  <2>2. skipped => ~removes
    <3>1. ASSUME skipped PROVE plan'[m].remove = {}
      BY <1>6, <3>1 DEF OfVersion, Nodes
    <3> QED BY <3>1
  <2>3. e = CASE skipped -> "report" [] removes -> "remove" [] OTHER -> "advance"
    OBVIOUS
  <2> HIDE DEF skipped, removes, e
  <2>4. CASE skipped
    <3>1. e = "report"
      BY <2>3, <2>4, <2>2
    <3> QED BY <2>4, <3>1 DEF Applying
  <2>5. CASE ~skipped /\ removes
    BY <2>1, <2>3, <2>5 DEF Applying
  <2>6. CASE ~skipped /\ ~removes
    BY <2>1, <2>3, <2>6 DEF Applying
  <2> QED BY <2>1, <2>4, <2>5, <2>6
<1>8. \/ /\ unpublish /\ Target(m)' = NoVersion /\ OfVersion(Target(m)') = {}
         /\ plan'[m].remove = Nodes(old \ {}) /\ plan'[m].add = {} /\ plan'[m].unpublish = TRUE
      \/ /\ ~unpublish /\ Target(m)' = record[m].version /\ OfVersion(Target(m)') = new
         /\ plan'[m].remove = Nodes(old \ new) /\ plan'[m].unpublish = FALSE
         /\ plan'[m].add = Nodes(new \ old) \cup Unregistered(m, w, new)
  <2>1. CASE unpublish
    <3>1. plan'[m] = [unpublish |-> TRUE, remove |-> Nodes(old), add |-> {}]
      BY <1>6, <2>1
    <3>2. old \ {} = old
      OBVIOUS
    <3>3. Target(m)' = NoVersion
      BY <3>1 DEF Target
    <3>4. OfVersion(NoVersion) = {}
      BY DEF OfVersion
    <3> QED BY <2>1, <3>1, <3>2, <3>3, <3>4
  <2>2. CASE ~unpublish
    <3>1. plan'[m] = [unpublish |-> FALSE, remove |-> Nodes(old \ new),
                      add |-> Nodes(new \ old) \cup Unregistered(m, w, new)]
      BY <1>6, <2>2
    <3>2. Target(m)' = record[m].version
      BY <1>1, <3>1 DEF Target
    <3> QED BY <2>2, <3>1, <3>2
  <2> QED BY <2>1, <2>2
<1>9. drain'[m] = e /\ (outcome'[w] = "ok" /\ e # "report" => outcome[w] = "ok")
      /\ \A x \in Workflows \ {w} : outcome'[x] = outcome[x]
  BY <1>1, <1>2, <1>3, <1>7, <1>4 DEF ByMain, RestOK
<1>10. OnWorkflow(w)
  BY <1>2 DEF EachWorkflow
<1> HIDE DEF old, new, e
<1>11. PlanAt(m, w)'
  <2>1. plan'[m].unpublish => plan'[m].add = {}
    BY <1>8
  <2>2. plan'[m].remove = Nodes(OfVersion(published'[w]) \ OfVersion(Target(m)'))
    BY <1>1, <1>8 DEF old
  <2>3. drain'[m] = "report" => published'[w] = Target(m)'
    BY <1>1, <1>7, <1>8, <1>9
  <2>4. drain'[m] # "add"
    BY <1>7, <1>9
  <2> QED BY <2>1, <2>2, <2>3, <2>4 DEF PlanAt, OfVersion, Nodes
<1>12. ASSUME Steady(m, w)
       PROVE  /\ registered'[m][w] \subseteq OfVersion(published'[w])
              /\ e = "advance" => registered'[m][w] \subseteq OfVersion(Target(m)')
              /\ PlanIsComplete(m, w)'
  <2>1. registered[m][w] \subseteq old
    BY <1>1, <1>10, <1>12 DEF OnWorkflow, OnMain, MostAt, old
  <2>2. ASSUME e = "advance" PROVE registered[m][w] \subseteq OfVersion(Target(m)')
    <3>1. plan'[m].remove = {}
      BY <1>7, <2>2
    <3>2. CASE unpublish
      BY <1>8, <2>1, <3>1, <3>2, NodesEmpty
    <3>3. CASE ~unpublish
      <4>1. old \ new = {}
        BY <1>8, <3>1, <3>3, NodesEmpty
      <4> QED BY <1>8, <2>1, <3>3, <4>1
    <3> QED BY <3>2, <3>3
  <2>3. ASSUME NEW t \in OfVersion(Target(m)')
        PROVE  t.node \in plan'[m].add
               \/ (t \in registered'[m][w] /\ (drain'[m] = "remove" => t.node \notin plan'[m].remove))
    <3>1. /\ ~unpublish /\ t \in new /\ plan'[m].remove = Nodes(old \ new)
          /\ plan'[m].add = Nodes(new \ old) \cup Unregistered(m, w, new)
      BY <1>8, <2>3
    <3>2. CASE t \notin old
      BY <3>1, <3>2 DEF Nodes
    <3>3. CASE t.node \notin Nodes(registered[m][w])
      BY <3>1, <3>3 DEF Unregistered, Nodes
    <3>4. CASE t \in old /\ t.node \in Nodes(registered[m][w])
      <4>1. \A u \in old : u.node = t.node => u = t
        BY <1>2, <3>4, NodesDiffer DEF old
      <4>2. t \in registered[m][w]
        BY <2>1, <3>4, <4>1 DEF Nodes
      <4>3. t.node \notin Nodes(old \ new)
        BY <3>1, <4>1 DEF Nodes
      <4> QED BY <1>1, <3>1, <4>2, <4>3
    <3> QED BY <3>2, <3>3, <3>4
  <2>4. drain'[m] = "report" => OfVersion(published'[w]) = {}
    BY <1>1, <1>7, <1>9 DEF OfVersion
  <2>5. PlanIsComplete(m, w)'
    <3>1. (\A t \in OfVersion(Target(m)) : t.node \in plan[m].add
             \/ (t \in registered[m][w] /\ (drain[m] = "remove" => t.node \notin plan[m].remove)))'
      BY <2>3 DEF OfVersion
    <3> QED BY <2>4, <3>1 DEF PlanIsComplete, OfVersion
  <2> QED BY <1>1, <2>1, <2>2, <2>5 DEF old
<1>13. \A x \in Workflows \ {w} : published'[x] = published[x] /\ registered'[m][x] = registered[m][x]
       /\ \A n \in Mains \ {m} : registered'[n] = registered[n]
  BY <1>1
<1> QED BY <1>1, <1>3, <1>7, <1>6, <1>9, <1>11, <1>12, <1>13, ApplierKeeps DEF Applying

\* What the triggers X of w, its published version p and its outcome o are to
\* be for main m to go on with e.
Moves(m, w, e, X, p, o) ==
    PlanAt(m, w) =>
        /\ e = "add" \/ (e = "report" /\ o = "ok") => p = Target(m)
        /\ MostAt(m, w) => /\ X \subseteq OfVersion(p) \/ e = "advance"
                           /\ e = "advance" => X \subseteq OfVersion(Target(m))
        /\ PlanIsComplete(m, w) =>
             /\ e \in {"advance", "add"} => \A t \in OfVersion(Target(m)) : t.node \in plan[m].add \/ t \in X
             /\ e = "report" /\ o = "ok" => OfVersion(p) \subseteq X

\* A step of the applier.
LEMMA ApplierMoves ==
    ASSUME FollowerInv, RequestInv, OneLeader, EachWorkflow, NEW m \in Mains, NEW w, w = record[m].workflow,
           drain[m] \in Applying, NEW e \in Applying, e # "remove", drain' = [drain EXCEPT ![m] = e],
           NEW X, registered' = [registered EXCEPT ![m] = [registered[m] EXCEPT ![w] = X]],
           NEW p, published' = [published EXCEPT ![w] = p],
           NEW o, outcome' = [outcome EXCEPT ![w] = o],
           UNCHANGED <<active, outbox, record, plan, recovering, escaped, isLeader, isShuttingDown, enqueuing>>,
           Moves(m, w, e, X, p, o)
    PROVE  EachWorkflow'
<1>1. RestOK /\ ByMain /\ registered[m] \in [Workflows -> SUBSET Triggers]
  BY MainOf DEF MainTypes
<1>2. w \in Workflows
  BY HoldsRow DEF Applying
<1>3. drain'[m] = e /\ published'[w] = p /\ outcome'[w] = o /\ registered'[m][w] = X
  BY <1>1, <1>2 DEF ByMain, RestOK
<1>4. /\ \A n \in Mains \ {m} : plan'[n] = plan[n] /\ registered'[n] = registered[n]
      /\ \A x \in Workflows \ {w} : /\ published'[x] = published[x] /\ outcome'[x] = outcome[x]
                                    /\ registered'[m][x] = registered[m][x]
  BY <1>1, <1>2 DEF ByMain, RestOK
<1>5. Applies(m, w) /\ OnWorkflow(w)
  BY <1>2 DEF Applies, EachWorkflow
<1>6. PlanAt(m, w) /\ OnMain(m, w)
  BY <1>5 DEF OnWorkflow
<1>7. Target(m)' = Target(m)
  BY DEF Target
<1>8. PlanAt(m, w)'
  <2>1. plan'[m].unpublish => plan'[m].add = {}
    BY <1>5, <1>6 DEF PlanAt
  <2>2. drain'[m] # "remove"
    BY <1>3
  <2>3. drain'[m] = "add" \/ (drain'[m] = "report" /\ outcome'[w] = "ok") => published'[w] = Target(m)'
    BY <1>3, <1>6, <1>7 DEF Moves
  <2> QED BY <2>1, <2>2, <2>3 DEF PlanAt
<1>9. ASSUME Steady(m, w)
      PROVE  /\ registered'[m][w] \subseteq OfVersion(published'[w]) \/ e = "advance"
             /\ e = "advance" => registered'[m][w] \subseteq OfVersion(Target(m)')
  <2>1. MostAt(m, w)
    BY <1>6, <1>9 DEF OnMain
  <2>2. /\ X \subseteq OfVersion(p) \/ e = "advance"
        /\ e = "advance" => X \subseteq OfVersion(Target(m))
    BY <1>6, <2>1 DEF Moves
  <2> QED BY <1>3, <1>7, <2>2
<1>10. ASSUME Steady(m, w), ~Recovers(m, w) PROVE PlanIsComplete(m, w)'
  <2>1. PlanIsComplete(m, w)
    BY <1>5, <1>6, <1>10 DEF OnMain
  <2>2. /\ e \in {"advance", "add"} => \A t \in OfVersion(Target(m)) : t.node \in plan[m].add \/ t \in X
        /\ e = "report" /\ o = "ok" => OfVersion(p) \subseteq X
    BY <1>6, <2>1 DEF Moves
  <2> HIDE DEF OfVersion
  <2>3. drain'[m] \in {"remove", "advance", "add"} =>
          \A t \in OfVersion(Target(m)') : t.node \in plan'[m].add \/ t \in registered'[m][w]
    BY <1>3, <1>7, <2>2
  <2>4. drain'[m] = "report" /\ outcome'[w] = "ok" => OfVersion(published'[w]) \subseteq registered'[m][w]
    BY <1>3, <2>2
  <2> QED BY <1>3, <2>3, <2>4 DEF PlanIsComplete, OfVersion
<1> QED BY <1>4, <1>8, <1>9, <1>10, ApplierKeeps

\* Triggers that are removed: of the old version, the target's are left.
LEMMA LeaderDeactivates ==
    ASSUME FollowerInv, RequestInv, OneLeader, EachWorkflow, NEW m \in Mains, Deactivate(m) \/ DeactivateFails(m),
           NEW w, w = record[m].workflow
    PROVE  EachWorkflow'
<1>1. RestOK /\ ByMain /\ drain[m] = "remove" /\ drain[m] \in Applying
      /\ UNCHANGED <<active, published, outbox, record, plan, recovering, escaped, isLeader, isShuttingDown,
                     enqueuing>>
  BY MainOf DEF Deactivate, DeactivateFails, Applying, dbVars, roleVars
<1>2. w \in Workflows
  BY <1>1, HoldsRow
<1>3. published' = [published EXCEPT ![w] = published[w]]
  BY <1>1, <1>2 DEF RestOK
<1>4. Applies(m, w)
  BY <1>1 DEF Applies
<1>5. ASSUME MostAt(m, w) PROVE registered[m][w] \subseteq OfVersion(published[w])
  BY <1>1, <1>5 DEF MostAt
<1>6. CASE Deactivate(m)
  <2> DEFINE X == Without(m, w, plan[m].remove)
  <2>1. /\ registered' = [registered EXCEPT ![m] = [registered[m] EXCEPT ![w] = X]]
        /\ drain' = [drain EXCEPT ![m] = "advance"] /\ outcome' = [outcome EXCEPT ![w] = outcome[w]]
    BY <1>1, <1>2, <1>6 DEF Deactivate, RestOK
  <2>2. \A t : t \in X <=> t \in registered[m][w] /\ t.node \notin plan[m].remove
    BY DEF Without
  <2> HIDE DEF X
  <2>3. ASSUME PlanAt(m, w), MostAt(m, w) PROVE X \subseteq OfVersion(Target(m))
    <3>1. plan[m].remove = Nodes(OfVersion(published[w]) \ OfVersion(Target(m)))
      BY <1>1, <1>4, <2>3 DEF PlanAt
    <3> SUFFICES ASSUME NEW t \in X, t \notin OfVersion(Target(m)) PROVE FALSE
      OBVIOUS
    <3>2. t \in OfVersion(published[w]) /\ t.node \notin plan[m].remove
      BY <1>5, <2>2, <2>3
    <3> QED BY <3>1, <3>2 DEF Nodes
  <2>4. ASSUME PlanIsComplete(m, w)
        PROVE  \A t \in OfVersion(Target(m)) : t.node \in plan[m].add \/ t \in X
    BY <1>1, <2>2, <2>4 DEF PlanIsComplete
  <2> DEFINE p == published[w]
             o == outcome[w]
             e == "advance"
  <2>5. /\ published' = [published EXCEPT ![w] = p] /\ outcome' = [outcome EXCEPT ![w] = o]
        /\ drain' = [drain EXCEPT ![m] = e] /\ e \in Applying /\ e = "advance" /\ e # "remove"
    BY <1>3, <2>1 DEF Applying
  <2>6. registered' = [registered EXCEPT ![m] = [registered[m] EXCEPT ![w] = X]]
    BY <2>1
  <2> HIDE DEF p, o, e
  <2>7. Moves(m, w, e, X, p, o)
    BY <2>3, <2>4, <2>5 DEF Moves
  <2> QED BY <1>1, <2>5, <2>6, <2>7, ApplierMoves
<1>7. CASE DeactivateFails(m)
  <2>1. PICK closed : registered' = [registered EXCEPT ![m] = [registered[m] EXCEPT ![w] = Without(m, w, closed)]]
    BY <1>7 DEF DeactivateFails
  <2> DEFINE X == Without(m, w, closed)
  <2>2. X \subseteq registered[m][w]
    BY DEF Without
  <2>3. /\ registered' = [registered EXCEPT ![m] = [registered[m] EXCEPT ![w] = X]]
        /\ drain' = [drain EXCEPT ![m] = "report"] /\ outcome' = [outcome EXCEPT ![w] = "failed"]
    BY <1>7, <2>1 DEF DeactivateFails
  <2> HIDE DEF X
  <2>4. MostAt(m, w) => X \subseteq OfVersion(published[w])
    BY <1>5, <2>2
  <2>5. Moves(m, w, "report", X, published[w], "failed")
    BY <2>4 DEF Moves
  <2> QED BY <1>1, <1>3, <2>3, <2>5, ApplierMoves DEF Applying
<1> QED BY <1>6, <1>7

\* The published version advances to the target.
LEMMA LeaderAdvances ==
    ASSUME FollowerInv, RequestInv, OneLeader, EachWorkflow, NEW m \in Mains, Advance(m),
           NEW w, w = record[m].workflow
    PROVE  EachWorkflow'
<1>1. RestOK /\ ByMain /\ drain[m] = "advance" /\ drain[m] \in Applying
      /\ registered[m] \in [Workflows -> SUBSET Triggers]
      /\ UNCHANGED <<active, outbox, record, plan, registered, recovering, escaped, isLeader, isShuttingDown,
                     enqueuing>>
  BY MainOf DEF Advance, Applying, dbVars, roleVars, triggerVars, MainTypes
<1>2. w \in Workflows
  BY <1>1, HoldsRow
<1>3. Applies(m, w)
  BY <1>1 DEF Applies
<1> DEFINE p == Target(m)
           X == registered[m][w]
           e == IF plan[m].add # {} THEN "add" ELSE "report"
<1>4. /\ published' = [published EXCEPT ![w] = p] /\ drain' = [drain EXCEPT ![m] = e]
      /\ outcome' = [outcome EXCEPT ![w] = "ok"]
  BY DEF Advance, Target
<1>5. registered' = [registered EXCEPT ![m] = [registered[m] EXCEPT ![w] = X]]
  BY <1>1, <1>2, KeptFields
<1>6. e \in Applying /\ e \in {"add", "report"} /\ (e = "report" => plan[m].add = {})
  BY DEF Applying
<1>7. MostAt(m, w) => X \subseteq OfVersion(p)
  BY <1>1, <1>3 DEF MostAt
<1>8. PlanIsComplete(m, w) => \A t \in OfVersion(p) : t.node \in plan[m].add \/ t \in X
  BY <1>1 DEF PlanIsComplete
<1>9. p = Target(m)
  OBVIOUS
<1> HIDE DEF p, X, e
<1>10. PlanIsComplete(m, w) /\ e = "report" => OfVersion(p) \subseteq X
  BY <1>6, <1>8
<1>11. Moves(m, w, e, X, p, "ok")
  BY <1>6, <1>7, <1>8, <1>9, <1>10 DEF Moves
<1> QED BY <1>1, <1>4, <1>5, <1>6, <1>11, ApplierMoves

\* Triggers of the target are registered, in place of those of their nodes.
LEMMA LeaderActivates ==
    ASSUME FollowerInv, RequestInv, OneLeader, EachWorkflow, NEW m \in Mains, Activate(m),
           NEW w, w = record[m].workflow
    PROVE  EachWorkflow'
<1>1. RestOK /\ ByMain /\ drain[m] = "add" /\ drain[m] \in Applying
      /\ UNCHANGED <<active, published, outbox, record, plan, recovering, escaped, isLeader, isShuttingDown,
                     enqueuing>>
  BY MainOf DEF Activate, Applying, dbVars, roleVars
<1>2. w \in Workflows
  BY <1>1, HoldsRow
<1>3. Applies(m, w) /\ published' = [published EXCEPT ![w] = published[w]]
  BY <1>1, <1>2 DEF Applies, RestOK
<1>4. PICK failures \in SUBSET plan[m].add :
        LET added == {t \in OfVersion(record[m].version) : t.node \in plan[m].add \ failures}
        IN  /\ registered' = [registered EXCEPT ![m] = [registered[m] EXCEPT ![w] =
                                Without(m, w, Nodes(added)) \cup added]]
            /\ outcome' = [outcome EXCEPT ![w] = IF failures = {} THEN "ok" ELSE "partial"]
  BY DEF Activate
<1> DEFINE added == {t \in OfVersion(record[m].version) : t.node \in plan[m].add \ failures}
           X == Without(m, w, Nodes(added)) \cup added
           o == IF failures = {} THEN "ok" ELSE "partial"
<1>5. /\ registered' = [registered EXCEPT ![m] = [registered[m] EXCEPT ![w] = X]]
      /\ outcome' = [outcome EXCEPT ![w] = o] /\ drain' = [drain EXCEPT ![m] = "report"]
  BY <1>4 DEF Activate
<1>6. \A t : t \in X <=> t \in added \/ (t \in registered[m][w] /\ t.node \notin Nodes(added))
  BY DEF Without
<1>7. \A t : t \in added <=> t \in OfVersion(record[m].version) /\ t.node \in plan[m].add /\ t.node \notin failures
  OBVIOUS
<1>8. o = "ok" => failures = {}
  OBVIOUS
<1> HIDE DEF added, X, o
<1>9. ASSUME PlanAt(m, w) PROVE published[w] = Target(m) /\ added \subseteq OfVersion(published[w])
  <2>1. published[w] = Target(m) /\ (plan[m].unpublish => plan[m].add = {})
    BY <1>1, <1>3, <1>9 DEF PlanAt
  <2>2. CASE plan[m].unpublish
    BY <1>7, <2>1, <2>2
  <2>3. CASE ~plan[m].unpublish
    <3>1. Target(m) = record[m].version
      BY <2>3 DEF Target
    <3> QED BY <1>7, <2>1, <3>1
  <2> QED BY <2>1, <2>2, <2>3
<1>10. ASSUME PlanAt(m, w), MostAt(m, w) PROVE X \subseteq OfVersion(published[w])
  <2>1. registered[m][w] \subseteq OfVersion(published[w])
    BY <1>1, <1>10 DEF MostAt
  <2> QED BY <1>6, <1>9, <1>10, <2>1
<1>11. ASSUME PlanAt(m, w), PlanIsComplete(m, w), o = "ok" PROVE OfVersion(published[w]) \subseteq X
  <2> SUFFICES ASSUME NEW t \in OfVersion(published[w]) PROVE t \in X
    OBVIOUS
  <2>1. t \in OfVersion(Target(m)) /\ (t.node \in plan[m].add \/ t \in registered[m][w])
    BY <1>1, <1>9, <1>11 DEF PlanIsComplete
  <2>2. CASE t.node \in plan[m].add
    <3>1. ~plan[m].unpublish
      BY <1>1, <1>3, <1>11, <2>2 DEF PlanAt
    <3>2. t \in OfVersion(record[m].version)
      BY <2>1, <3>1 DEF Target
    <3> QED BY <1>6, <1>7, <1>8, <1>11, <2>2, <3>2
  <2>3. CASE t.node \notin plan[m].add
    <3>1. t.node \notin Nodes(added)
      BY <1>7, <2>3 DEF Nodes
    <3> QED BY <1>6, <2>1, <2>3, <3>1
  <2> QED BY <2>2, <2>3
<1>12. Moves(m, w, "report", X, published[w], o)
  BY <1>9, <1>10, <1>11 DEF Moves
<1> QED BY <1>1, <1>3, <1>5, <1>12, ApplierMoves DEF Applying

\* A trigger that fails while it runs is recovered from, and one that has
\* recovered was registered outside the lock.
LEMMA LeaderRuntime ==
    ASSUME FollowerInv, EachWorkflow, NEW m \in Mains, RuntimeFailure(m) \/ RuntimeRecovered(m)
    PROVE  EachWorkflow'
<1>1. RestOK /\ ByMain /\ registered[m] \in [Workflows -> SUBSET Triggers]
  BY MainOf DEF MainTypes
<1>2. UNCHANGED <<active, published, outbox, outcome, record, plan, drain, enqueuing, isLeader, isShuttingDown>>
  BY DEF RuntimeFailure, RuntimeRecovered, dbVars, roleVars, drainVars
<1>3. \A x \in Workflows : Same(x) /\ OnWorkflow(x)
  BY <1>2 DEF Same, HasPending, HasRow, Applies, EachWorkflow
<1>4. CASE RuntimeFailure(m)
  <2>1. PICK v \in Workflows : \E t \in registered[m][v] :
          /\ recovering' = [recovering EXCEPT ![m] = @ \cup {[workflow |-> v, trigger |-> t]}]
          /\ registered' = [registered EXCEPT ![m][v] = @ \ {t}]
    BY <1>4 DEF RuntimeFailure
  <2>2. PICK t \in registered[m][v] :
          /\ recovering' = [recovering EXCEPT ![m] = @ \cup {[workflow |-> v, trigger |-> t]}]
          /\ registered' = [registered EXCEPT ![m][v] = @ \ {t}]
    BY <2>1
  <2>3. /\ registered'[m][v] \subseteq registered[m][v]
        /\ \A x \in Workflows \ {v} : registered'[m][x] = registered[m][x]
        /\ \A n \in Mains \ {m} : registered'[n] = registered[n] /\ recovering'[n] = recovering[n]
        /\ recovering'[m] = recovering[m] \cup {[workflow |-> v, trigger |-> t]}
    BY <1>1, <2>2 DEF ByMain, RestOK
  <2>4. Recovers(m, v)' /\ \A n \in Mains, x \in Workflows : Recovers(n, x) => Recovers(n, x)'
    <3> DEFINE r == [workflow |-> v, trigger |-> t]
    <3>1. r.workflow = v /\ recovering'[m] = recovering[m] \cup {r}
      BY <2>3
    <3> HIDE DEF r
    <3>2. Recovers(m, v)'
      BY <3>1 DEF Recovers
    <3>3. \A n \in Mains : recovering[n] \subseteq recovering'[n]
      BY <2>3, <3>1
    <3> QED BY <3>2, <3>3 DEF Recovers
  <2>5. \A n \in Mains, x \in Workflows : Steady(n, x)' <=> Steady(n, x)
    BY <1>2, <1>4 DEF Steady, RuntimeFailure
  <2>6. ASSUME NEW n \in Mains, NEW x \in Workflows, n # m \/ x # v PROVE SameOn(n, x)
    <3>1. registered'[n][x] = registered[n][x]
      BY <2>3, <2>6
    <3> QED BY <1>2, <2>4, <2>5, <3>1 DEF SameOn
  <2>7. OnMain(m, v)'
    <3>1. ASSUME Steady(m, v) PROVE MostAt(m, v)'
      <4>1. MostAt(m, v)
        BY <1>3, <3>1 DEF OnWorkflow, OnMain
      <4>2. /\ Target(m)' = Target(m) /\ \A n \in Mains : Applies(n, v)' <=> Applies(n, v)
        BY <1>2 DEF Target, Applies
      <4>3. /\ registered'[m][v] \subseteq OfVersion(published'[v]) \/ (Applies(m, v)' /\ drain'[m] = "advance")
            /\ Applies(m, v)' /\ drain'[m] = "advance" => registered'[m][v] \subseteq OfVersion(Target(m)')
        BY <1>2, <2>3, <4>1, <4>2 DEF MostAt
      <4>4. \A n \in Mains \ {m} : Applies(n, v)' => registered'[m][v] = {}
        BY <2>3, <4>1, <4>2 DEF MostAt
      <4> QED BY <4>3, <4>4 DEF MostAt, OfVersion
    <3> QED BY <2>4, <2>5, <3>1 DEF OnMain
  <2>8. ASSUME NEW x \in Workflows PROVE OnWorkflow(x)'
    <3>1. DoneAt(x)' /\ \A n \in Mains : PlanAt(n, x)' /\ (SameOn(n, x) => OnMain(n, x)')
      BY <1>3, SameKeeps
    <3>2. \A n \in Mains : OnMain(n, x)'
      BY <2>6, <2>7, <3>1
    <3> QED BY <3>1, <3>2 DEF OnWorkflow
  <2> QED BY <2>8 DEF EachWorkflow
<1>5. CASE RuntimeRecovered(m)
  <2>1. PICK r \in recovering[m] :
          /\ recovering' = [recovering EXCEPT ![m] = @ \ {r}]
          /\ registered' = [registered EXCEPT ![m][r.workflow] =
                              Without(m, r.workflow, {r.trigger.node}) \cup {r.trigger}]
          /\ escaped' = [escaped EXCEPT ![m] = @ \cup {r.workflow}]
    BY <1>5 DEF RuntimeRecovered
  <2> DEFINE v == r.workflow
             X == Without(m, v, {r.trigger.node}) \cup {r.trigger}
  <2>2. registered' = [registered EXCEPT ![m] = [registered[m] EXCEPT ![v] = X]]
    BY <2>1
  <2> HIDE DEF X
  <2>3. /\ \A x \in Workflows \ {v} : registered'[m][x] = registered[m][x]
        /\ \A n \in Mains \ {m} : registered'[n] = registered[n]
    BY <1>1, <2>2 DEF ByMain
  <2>4. /\ \A n \in Mains \ {m} : recovering'[n] = recovering[n] /\ escaped'[n] = escaped[n]
        /\ recovering'[m] = recovering[m] \ {r} /\ escaped'[m] = escaped[m] \cup {v}
    BY <1>1, <2>1 DEF ByMain, RestOK
  <2>5. ASSUME NEW n \in Mains, NEW x \in Workflows PROVE SameOn(n, x)
    <3>1. CASE n = m /\ x = v
      BY <2>4, <3>1 DEF SameOn, Steady
    <3>2. CASE n # m \/ x # v
      <4>1. registered'[n][x] = registered[n][x]
        BY <2>3, <3>2
      <4>2. Steady(n, x)' => Steady(n, x)
        BY <1>2, <2>4 DEF Steady
      <4>3. Recovers(n, x) => Recovers(n, x)'
        <5>1. CASE n # m
          BY <2>4, <5>1 DEF Recovers
        <5>2. CASE n = m
          BY <2>4, <3>2, <5>2 DEF Recovers
        <5> QED BY <5>1, <5>2
      <4> QED BY <1>2, <4>1, <4>2, <4>3 DEF SameOn
    <3> QED BY <3>1, <3>2
  <2> QED BY <1>3, <2>5, SameEverywhere DEF EachWorkflow
<1> QED BY <1>4, <1>5

\* Every step of the specification.
LEMMA LeaderStep ==
    ASSUME "lease" \notin Ops, NoOverlap
    PROVE  FollowerInv /\ RequestInv /\ LeaderInv /\ [PublicationNext]_vars => LeaderInv'
<1> SUFFICES ASSUME FollowerInv, RequestInv, LeaderInv, [PublicationNext]_vars PROVE LeaderInv'
  OBVIOUS
<1>1. FollowerInv' /\ RequestInv' /\ OneLeader /\ EachWorkflow /\ OneLeader'
  BY FollowerStep, RequestStep, LeaderByPart, OneLeaderStep
<1>2. CASE UNCHANGED vars
  <2>1. UNCHANGED <<active, published, outbox, outcome, record, plan, enqueuing, drain, isLeader,
                    isShuttingDown, escaped, registered, recovering>>
    BY <1>2 DEF vars, dbVars, roleVars, drainVars, triggerVars
  <2>2. \A n \in Mains, w \in Workflows : Steady(n, w)' =>
          /\ Steady(n, w) /\ registered'[n][w] = registered[n][w]
          /\ Recovers(n, w) => Recovers(n, w)'
    BY <2>1 DEF Steady, Recovers
  <2>3. EachWorkflow'
    BY <1>1, <2>1, <2>2, LeaderKept
  <2> QED BY <1>1, <2>3, LeaderByPartNext
<1>3. ASSUME PublicationNext PROVE EachWorkflow'
  <2>1. CASE \E w \in Workflows : Unpublish(w) \/ \E v \in Versions : Publish(w, v)
    BY <1>1, <2>1, LeaderEdits
  <2>2. ASSUME NEW m \in Mains, Takeover(m) \/ EnqueueActiveWorkflows(m) \/ WakeUp(m)
                                \/ Stepdown(m) \/ Shutdown(m) \/ Restart(m)
        PROVE  EachWorkflow'
    BY <1>1, <2>2, LeaderEdits, LeaderTakesOver, LeaderOthers, LeaderRestarts
  <2>3. ASSUME NEW m \in Mains, DrainStep(m) PROVE EachWorkflow'
    <3>1. CASE StartClaim(m) \/ Claim(m)
      BY <1>1, <3>1, LeaderOthers, LeaderClaims
    <3>2. CASE ReturnRecord(m) \/ Report(m)
      BY <1>1, <3>2, LeaderReturns, LeaderReports
    <3>3. CASE Resolve(m)
      BY <1>1, <3>3, LeaderResolves
    <3>4. CASE Deactivate(m) \/ DeactivateFails(m)
      BY <1>1, <3>4, LeaderDeactivates
    <3>5. CASE Advance(m)
      BY <1>1, <3>5, LeaderAdvances
    <3>6. CASE Activate(m)
      BY <1>1, <3>6, LeaderActivates
    <3> QED BY <2>3, <3>1, <3>2, <3>3, <3>4, <3>5, <3>6 DEF DrainStep
  <2>4. ASSUME NEW m \in Mains, TeardownStep(m) PROVE EachWorkflow'
    BY <1>1, <2>4, LeaderOthers DEF TeardownStep
  <2>5. ASSUME NEW m \in Mains, RuntimeFailure(m) \/ RuntimeRecovered(m) PROVE EachWorkflow'
    BY <1>1, <2>5, LeaderRuntime
  <2> QED BY <1>3, <2>1, <2>2, <2>3, <2>4, <2>5 DEF PublicationNext
<1> QED BY <1>1, <1>2, <1>3, LeaderByPartNext

\* Nobody leads at first.
LEMMA LeaderInit == PublicationInit => LeaderInv
<1> SUFFICES ASSUME PublicationInit PROVE LeaderInv
  OBVIOUS
<1>1. /\ \A m \in Mains : isLeader[m] = FALSE /\ drain[m] = "idle"
      /\ \A w \in Workflows : outcome[w] = "none"
      /\ enqueuing = {}
  BY DEF PublicationInit
<1>2. OneLeader
  BY <1>1 DEF OneLeader
<1>3. PlanIsCurrent
  BY <1>1 DEF PlanIsCurrent, Applying
<1> QED BY <1>1, <1>2, <1>3 DEF LeaderInv, DoneIsPublished, RunsAtMostPublished, RunsOrWill, Steady

\* What LeaderInv says holds throughout, where one main leads at a time and
\* none leads again before its teardown is done.
THEOREM LeaderInvariant ==
    ASSUME "lease" \notin Ops, NoOverlap
    PROVE  Spec => [](FollowerInv /\ RequestInv /\ LeaderInv)
<1>1. FollowerInv /\ RequestInv /\ LeaderInv /\ [PublicationNext]_vars => (FollowerInv /\ RequestInv /\ LeaderInv)'
  BY FollowerStep, RequestStep, LeaderStep
<1> QED BY <1>1, FollowerInit, RequestInit, LeaderInit, PTL DEF Spec

\* When nothing is left to do and one main leads, it runs exactly the triggers of
\* the published version of every workflow whose last record went well: apply()
\* may compute the next diff from the version's row.  Of a workflow that escaped,
\* on this main, an old trigger may still run.
THEOREM LeaderRuns ==
    ASSUME "lease" \notin Ops, NoOverlap
    PROVE  Spec => []LeaderRunsPublished
<1>1. LeaderInv => LeaderRunsPublished
  <2> SUFFICES ASSUME LeaderInv, Quiescent, NEW m \in Mains, NEW w \in Workflows,
                      isLeader[m], outcome[w] = "ok", w \notin escaped[m]
               PROVE  registered[m][w] = OfVersion(published[w])
    BY DEF LeaderRunsPublished
  <2>1. outbox = <<>> /\ enqueuing = {} /\ recovering[m] = {} /\ ~isShuttingDown[m]
        /\ \A n \in Mains : drain[n] = "idle"
    BY DEF Quiescent
  <2>2. ~HasRow(w) /\ ~HasPending(w)
    BY <2>1 DEF HasRow, HasPending, Range
  <2>3. \A n \in Mains : ~Applies(n, w)
    BY <2>1 DEF Applies, Applying
  <2>4. Steady(m, w)
    BY <2>1 DEF Steady
  <2> QED BY <2>1, <2>2, <2>3, <2>4 DEF LeaderInv, RunsOrWill
<1> QED BY <1>1, LeaderInvariant, PTL
=============================================================================
