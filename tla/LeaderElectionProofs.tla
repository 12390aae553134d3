------------------------ MODULE LeaderElectionProofs ------------------------
(***************************************************************************)
(* For any mains and any number of timeouts, lapses and stops: the election*)
(* keeps its types, implements LeaderLease step by step, and so has at most*)
(* one leader more than there were lapses.                                 *)
(***************************************************************************)
EXTENDS LeaderElection, FiniteSetTheorems, SequenceTheorems, TLAPS

HasDel(s) == \E i \in DOMAIN s : s[i].op = "del"
HasAwaited(s) == \E i \in DOMAIN s : Awaited(s[i])

\* The part of ElectionInv that is about one main: its life l, whether it
\* leads d, its check c, the answer r on its way and its pipe s.
MainOK(l, d, c, r, s) ==
    /\ l \in {"off", "booting", "up", "closing"}
    /\ d \in BOOLEAN /\ c \in Checks /\ r \in Replies /\ s \in Seq(Cmds)
    /\ c # "idle" => (d <=> c \in {"renew", "reclaim"})
    /\ OneOfEach(s)
    /\ \A i \in DOMAIN s : Awaited(s[i]) => c # "idle" /\ r = "none" /\ s[i].op = OpOf(c)
    /\ l = "off" => ~d /\ c = "idle"
    /\ l = "booting" <=> c = "init"
    /\ HasDel(s) => l \in {"off", "closing"}
    /\ r \in RepliesTo(c)

RelyOf(l, d, r, s) ==
    \/ l = "up" /\ d
    \/ l \in {"booting", "up"} /\ ~d /\ r \in {"ok", "mine"}
    \/ HasDel(s)

\* A step that sets the fields of main m and leaves those of the others.
Sets(m, l, d, c, r, s) ==
    /\ life' = [life EXCEPT ![m] = l]
    /\ isLeader' = [isLeader EXCEPT ![m] = d]
    /\ check' = [check EXCEPT ![m] = c]
    /\ reply' = [reply EXCEPT ![m] = r]
    /\ pipe' = [pipe EXCEPT ![m] = s]

-----------------------------------------------------------------------------
(* Pipes *)

\* Sending a command that a check awaits.
LEMMA SendAwaited ==
    ASSUME NEW s \in Seq(Cmds), OneOfEach(s), ~HasAwaited(s),
           NEW o \in Ops \ {"del"}
    PROVE  LET t == Append(s, [op |-> o, live |-> TRUE]) IN
           /\ t \in Seq(Cmds) /\ OneOfEach(t)
           /\ HasDel(t) <=> HasDel(s)
           /\ \A i \in DOMAIN t : Awaited(t[i]) => t[i].op = o
<1> DEFINE c == [op |-> o, live |-> TRUE]
           t == Append(s, c)
<1>1. c \in Cmds /\ c.op = o /\ c.live = TRUE
  BY DEF Cmds
<1> HIDE DEF c
<1>2. /\ t \in Seq(Cmds) /\ Len(t) = Len(s) + 1 /\ t[Len(s) + 1] = c
      /\ \A i \in 1 .. Len(s) : t[i] = s[i]
      /\ DOMAIN t = 1 .. Len(s) + 1 /\ DOMAIN s = 1 .. Len(s) /\ Len(s) \in Nat
  BY <1>1
<1> HIDE DEF t
<1>3. \A i \in DOMAIN t : (i \in DOMAIN s /\ t[i] = s[i]) \/ (i = Len(s) + 1 /\ t[i] = c)
  BY <1>2
<1>4. \A i \in DOMAIN s : i \in DOMAIN t /\ t[i] = s[i]
  BY <1>2
<1>5. HasDel(t) <=> HasDel(s)
  BY <1>1, <1>3, <1>4 DEF HasDel
<1>6. \A i \in DOMAIN t : Awaited(t[i]) => t[i].op = o /\ i = Len(s) + 1
  BY <1>1, <1>3 DEF HasAwaited
<1>7. OneOfEach(t)
  BY <1>1, <1>3, <1>6 DEF OneOfEach
<1> QED BY <1>2, <1>5, <1>6, <1>7 DEF t, c

\* Sending a DEL.
LEMMA SendDel ==
    ASSUME NEW s \in Seq(Cmds), OneOfEach(s), ~HasDel(s)
    PROVE  LET t == Append(s, [op |-> "del", live |-> TRUE]) IN
           /\ t \in Seq(Cmds) /\ OneOfEach(t) /\ HasDel(t)
           /\ \A i \in DOMAIN t : Awaited(t[i]) => i \in DOMAIN s /\ t[i] = s[i]
<1> DEFINE c == [op |-> "del", live |-> TRUE]
           t == Append(s, c)
<1>1. c \in Cmds /\ c.op = "del"
  BY DEF Cmds, Ops
<1> HIDE DEF c
<1>2. /\ t \in Seq(Cmds) /\ Len(t) = Len(s) + 1 /\ t[Len(s) + 1] = c
      /\ \A i \in 1 .. Len(s) : t[i] = s[i]
      /\ DOMAIN t = 1 .. Len(s) + 1 /\ DOMAIN s = 1 .. Len(s) /\ Len(s) \in Nat
  BY <1>1
<1> HIDE DEF t
<1>3. \A i \in DOMAIN t : (i \in DOMAIN s /\ t[i] = s[i]) \/ (i = Len(s) + 1 /\ t[i] = c)
  BY <1>2
<1>4. Len(s) + 1 \in DOMAIN t
  BY <1>2
<1>5. HasDel(t)
  BY <1>1, <1>2, <1>4 DEF HasDel
<1>6. \A i \in DOMAIN t : Awaited(t[i]) => i \in DOMAIN s /\ t[i] = s[i]
  BY <1>1, <1>3 DEF Awaited
<1>7. OneOfEach(t)
  <2> SUFFICES ASSUME NEW i \in DOMAIN t, NEW j \in DOMAIN t,
                      (Awaited(t[i]) /\ Awaited(t[j])) \/ (t[i].op = "del" /\ t[j].op = "del")
               PROVE  i = j
    BY DEF OneOfEach
  <2>1. CASE Awaited(t[i]) /\ Awaited(t[j])
    BY <1>6, <2>1 DEF OneOfEach
  <2>2. CASE t[i].op = "del" /\ t[j].op = "del"
    BY <1>3, <2>2 DEF HasDel
  <2> QED BY <2>1, <2>2
<1> QED BY <1>2, <1>5, <1>6, <1>7 DEF t, c

\* Redis takes the first command.
LEMMA TakeFirst ==
    ASSUME NEW s \in Seq(Cmds), OneOfEach(s), s # <<>>
    PROVE  /\ Head(s) \in Cmds /\ 1 \in DOMAIN s /\ Head(s) = s[1]
           /\ Tail(s) \in Seq(Cmds) /\ OneOfEach(Tail(s))
           /\ Awaited(Head(s)) => ~HasAwaited(Tail(s))
           /\ Head(s).op = "del" => ~HasDel(Tail(s)) /\ HasDel(s)
           /\ Head(s).op # "del" => (HasDel(Tail(s)) <=> HasDel(s))
           /\ \A i \in DOMAIN Tail(s) : i + 1 \in DOMAIN s /\ Tail(s)[i] = s[i + 1]
<1>1. /\ Head(s) = s[1] /\ Head(s) \in Cmds /\ Tail(s) \in Seq(Cmds)
      /\ DOMAIN s = 1 .. Len(s) /\ Len(s) \in Nat /\ Len(s) >= 1
      /\ DOMAIN Tail(s) = 1 .. Len(s) - 1
      /\ \A i \in 1 .. Len(s) - 1 : Tail(s)[i] = s[i + 1]
  OBVIOUS
<1>2. 1 \in DOMAIN s
  BY <1>1
<1>3. \A i \in DOMAIN Tail(s) : i + 1 \in DOMAIN s /\ i + 1 # 1 /\ Tail(s)[i] = s[i + 1]
  BY <1>1
<1>4. \A i, j \in DOMAIN Tail(s) : i + 1 = j + 1 => i = j
  BY <1>1
<1>5. OneOfEach(Tail(s))
  BY <1>3, <1>4 DEF OneOfEach
<1>6. Awaited(Head(s)) => ~HasAwaited(Tail(s))
  BY <1>1, <1>2, <1>3 DEF OneOfEach, HasAwaited
<1>7. Head(s).op = "del" => ~HasDel(Tail(s)) /\ HasDel(s)
  BY <1>1, <1>2, <1>3 DEF OneOfEach, HasDel
<1>8. Head(s).op # "del" => (HasDel(Tail(s)) <=> HasDel(s))
  <2>1. HasDel(Tail(s)) => HasDel(s)
    BY <1>3 DEF HasDel
  <2>2. ASSUME Head(s).op # "del", HasDel(s) PROVE HasDel(Tail(s))
    <3>1. PICK i \in DOMAIN s : s[i].op = "del"
      BY <2>2 DEF HasDel
    <3>2. i # 1 /\ i - 1 \in DOMAIN Tail(s) /\ (i - 1) + 1 = i
      BY <1>1, <2>2, <3>1
    <3>3. Tail(s)[i - 1] = s[i]
      BY <1>3, <3>2
    <3> QED BY <3>1, <3>2, <3>3 DEF HasDel
  <2> QED BY <2>1, <2>2
<1> QED BY <1>1, <1>2, <1>3, <1>5, <1>6, <1>7, <1>8

\* Commands keep their place and their operation, and none is awaited.
LEMMA NoneAwaited ==
    ASSUME NEW s \in Seq(Cmds), OneOfEach(s), NEW t \in Seq(Cmds), DOMAIN t = DOMAIN s,
           \A i \in DOMAIN s : t[i].op = s[i].op /\ ~Awaited(t[i])
    PROVE  /\ OneOfEach(t) /\ ~HasAwaited(t)
           /\ HasDel(t) <=> HasDel(s)
BY DEF OneOfEach, HasAwaited, HasDel

\* The process ends: its commands are executed unheard, or not at all.
LEMMA PipeAbandoned ==
    ASSUME NEW s \in Seq(Cmds), OneOfEach(s), NEW t \in {Abandoned(s), <<>>}
    PROVE  /\ t \in Seq(Cmds) /\ OneOfEach(t) /\ ~HasAwaited(t)
           /\ HasDel(t) => HasDel(s)
<1>1. CASE t = Abandoned(s)
  <2>1. Len(s) \in Nat /\ DOMAIN s = 1 .. Len(s) /\ \A i \in DOMAIN s : s[i] \in Cmds
    OBVIOUS
  <2>2. \A i \in DOMAIN s : /\ t[i] = [s[i] EXCEPT !.live = FALSE]
                            /\ t[i] \in Cmds /\ t[i].op = s[i].op /\ ~t[i].live
    BY <1>1, <2>1 DEF Abandoned, Cmds
  <2>3. t = [i \in 1 .. Len(s) |-> t[i]]
    BY <1>1, <2>1 DEF Abandoned
  <2>4. t \in Seq(Cmds) /\ DOMAIN t = DOMAIN s
    BY <2>1, <2>2, <2>3
  <2> QED BY <2>2, <2>4, NoneAwaited DEF Awaited
<1>2. CASE t = <<>>
  BY <1>2 DEF OneOfEach, HasAwaited, HasDel
<1> QED BY <1>1, <1>2

\* Splicing one entry out of a sequence shifts the later ones by one place.
LEMMA RemoveAtFacts ==
    ASSUME NEW S, NEW s \in Seq(S), NEW i \in 1..Len(s)
    PROVE  /\ RemoveAt(s, i) \in Seq(S)
           /\ Len(RemoveAt(s, i)) = Len(s) - 1
           /\ \A j \in 1..(Len(s) - 1) :
                RemoveAt(s, i)[j] = s[IF j < i THEN j ELSE j + 1]
<1> DEFINE a == SubSeq(s, 1, i - 1)
           b == SubSeq(s, i + 1, Len(s))
<1>1. a \in Seq(S) /\ Len(a) = i - 1 /\ \A j \in 1..(i - 1) : a[j] = s[j]
  OBVIOUS
<1>2. /\ b \in Seq(S) /\ Len(b) = Len(s) - i
      /\ \A j \in 1..(Len(s) - i) : b[j] = s[i + j]
  OBVIOUS
<1> HIDE DEF a, b
<1>3. a \o b \in Seq(S) /\ Len(a \o b) = Len(s) - 1
  <2>1. a \o b \in Seq(S) /\ Len(a \o b) = Len(a) + Len(b)
    BY <1>1, <1>2, ConcatProperties, Zenon
  <2>2. Len(s) \in Nat
    BY LenProperties
  <2> QED BY <1>1, <1>2, <2>1, <2>2
<1>4. ASSUME NEW j \in 1..(Len(s) - 1)
      PROVE  (a \o b)[j] = s[IF j < i THEN j ELSE j + 1]
  <2>1. (a \o b)[j] = IF j <= Len(a) THEN a[j] ELSE b[j - Len(a)]
    BY <1>1, <1>2, <1>3, ConcatProperties
  <2>2. CASE j < i
    BY <1>1, <2>1, <2>2
  <2>3. CASE ~(j < i)
    <3>1. b[j - Len(a)] = s[i + (j - Len(a))]
      BY <1>1, <1>2, <2>3
    <3> QED BY <1>1, <2>1, <2>3, <3>1
  <2> QED BY <2>2, <2>3
<1> QED BY <1>3, <1>4 DEF RemoveAt, a, b

\* The awaited command is lost.
LEMMA LoseAwaited ==
    ASSUME NEW s \in Seq(Cmds), OneOfEach(s), NEW k \in DOMAIN s, Awaited(s[k])
    PROVE  LET t == RemoveAt(s, k) IN
           /\ t \in Seq(Cmds) /\ OneOfEach(t) /\ ~HasAwaited(t)
           /\ HasDel(t) <=> HasDel(s)
<1> DEFINE t == RemoveAt(s, k)
           From(j) == IF j < k THEN j ELSE j + 1
<1>1. Len(s) \in Nat /\ DOMAIN s = 1 .. Len(s) /\ k \in 1 .. Len(s)
  OBVIOUS
<1>2. /\ t \in Seq(Cmds) /\ Len(t) = Len(s) - 1
      /\ \A j \in 1 .. (Len(s) - 1) : t[j] = s[From(j)]
  BY <1>1, RemoveAtFacts
<1> HIDE DEF t
<1>3. DOMAIN t = 1 .. (Len(s) - 1)
  BY <1>1, <1>2
<1>4. \A j \in DOMAIN t : From(j) \in DOMAIN s /\ From(j) # k /\ t[j] = s[From(j)]
  BY <1>1, <1>2, <1>3
<1>5. \A i, j \in DOMAIN t : From(i) = From(j) => i = j
  BY <1>1, <1>3
<1>6. \A i \in DOMAIN s : i # k => \E j \in DOMAIN t : From(j) = i
  <2> SUFFICES ASSUME NEW i \in DOMAIN s, i # k PROVE \E j \in DOMAIN t : From(j) = i
    OBVIOUS
  <2>1. CASE i < k
    BY <1>1, <1>3, <2>1
  <2>2. CASE i > k
    <3>1. i - 1 \in DOMAIN t /\ From(i - 1) = i
      BY <1>1, <1>3, <2>2
    <3> QED BY <3>1
  <2> QED BY <1>1, <2>1, <2>2
<1> HIDE DEF From
<1>7. OneOfEach(t)
  BY <1>4, <1>5 DEF OneOfEach
<1>8. ~HasAwaited(t)
  BY <1>4 DEF OneOfEach, HasAwaited
<1>9. HasDel(t) <=> HasDel(s)
  <2>1. HasDel(t) => HasDel(s)
    BY <1>4 DEF HasDel
  <2>2. ASSUME HasDel(s) PROVE HasDel(t)
    <3>1. PICK i \in DOMAIN s : s[i].op = "del"
      BY <2>2 DEF HasDel
    <3>2. i # k
      BY <3>1 DEF Awaited
    <3>3. PICK j \in DOMAIN t : From(j) = i
      BY <1>6, <3>2
    <3> QED BY <1>4, <3>1, <3>3 DEF HasDel
  <2> QED BY <2>1, <2>2
<1> QED BY <1>2, <1>7, <1>8, <1>9 DEF t

\* A rejected command: Redis executes it unheard, or it is lost.
LEMMA PipeTimedOut ==
    ASSUME NEW s \in Seq(Cmds), OneOfEach(s),
           NEW t \in {[i \in DOMAIN s |-> [s[i] EXCEPT !.live = @ /\ s[i].op = "del"]]}
                     \cup {RemoveAt(s, i) : i \in {j \in DOMAIN s : Awaited(s[j])}}
    PROVE  /\ t \in Seq(Cmds) /\ OneOfEach(t) /\ ~HasAwaited(t)
           /\ HasDel(t) <=> HasDel(s)
<1>1. CASE t = [i \in DOMAIN s |-> [s[i] EXCEPT !.live = @ /\ s[i].op = "del"]]
  <2>1. Len(s) \in Nat /\ DOMAIN s = 1 .. Len(s) /\ \A i \in DOMAIN s : s[i] \in Cmds
    OBVIOUS
  <2>2. \A i \in DOMAIN s : t[i] = [s[i] EXCEPT !.live = s[i].live /\ s[i].op = "del"]
    BY <1>1
  <2>3. \A i \in DOMAIN s : t[i] \in Cmds /\ t[i].op = s[i].op /\ ~Awaited(t[i])
    <3> SUFFICES ASSUME NEW i \in DOMAIN s
                 PROVE  t[i] \in Cmds /\ t[i].op = s[i].op /\ ~Awaited(t[i])
      OBVIOUS
    <3>1. PICK c \in Cmds : c = s[i]
      BY <2>1
    <3>2. PICK b \in BOOLEAN : b = (c.live /\ c.op = "del")
      OBVIOUS
    <3>3. t[i] = [c EXCEPT !.live = b]
      BY <2>2, <3>1, <3>2
    <3>4. t[i] \in Cmds /\ t[i].op = c.op /\ t[i].live = b
      BY <3>3 DEF Cmds
    <3> QED BY <3>1, <3>2, <3>4 DEF Awaited
  <2>4. t = [i \in 1 .. Len(s) |-> t[i]]
    BY <1>1, <2>1
  <2>5. t \in Seq(Cmds) /\ DOMAIN t = DOMAIN s
    BY <2>1, <2>3, <2>4
  <2> QED BY <2>3, <2>5, NoneAwaited
<1>2. CASE t \in {RemoveAt(s, i) : i \in {j \in DOMAIN s : Awaited(s[j])}}
  <2>1. PICK k \in DOMAIN s : Awaited(s[k]) /\ t = RemoveAt(s, k)
    BY <1>2
  <2> QED BY <2>1, LoseAwaited
<1> QED BY <1>1, <1>2

-----------------------------------------------------------------------------
(* One main at a time *)

\* ElectionInv is about each main alone.
LEMMA InvParts ==
    ASSUME ElectionInv, NEW m \in Mains
    PROVE  MainOK(life[m], isLeader[m], check[m], reply[m], pipe[m])
BY DEF ElectionInv, ElectionTypeOK, AwaitedIsAsked, LifeInOrder, MainOK, Pending, HasDel

\* Setting the fields of one main to values that fit keeps the invariant, and
\* changes what that main alone relies on.
LEMMA SetsKeeps ==
    ASSUME ElectionInv, NEW m \in Mains, NEW l, NEW d, NEW c, NEW r, NEW s,
           Sets(m, l, d, c, r, s), MainOK(l, d, c, r, s),
           key' \in Mains \cup {NoMain}, {timeouts', lapses', stops'} \subseteq Nat
    PROVE  /\ ElectionInv'
           /\ \A x \in Mains \ {m} :
                (Relies(x)' <=> Relies(x)) /\ (x \in Leaders' <=> x \in Leaders)
           /\ Relies(m)' <=> RelyOf(l, d, r, s)
           /\ m \in Leaders' <=> (l = "up" /\ d)
<1>1. /\ life \in [Mains -> {"off", "booting", "up", "closing"}]
      /\ isLeader \in [Mains -> BOOLEAN] /\ check \in [Mains -> Checks]
      /\ reply \in [Mains -> Replies] /\ pipe \in [Mains -> Seq(Cmds)]
  BY DEF ElectionInv, ElectionTypeOK
<1>2. /\ life' \in [Mains -> {"off", "booting", "up", "closing"}]
      /\ isLeader' \in [Mains -> BOOLEAN] /\ check' \in [Mains -> Checks]
      /\ reply' \in [Mains -> Replies] /\ pipe' \in [Mains -> Seq(Cmds)]
  BY <1>1 DEF Sets, MainOK
<1>3. /\ life'[m] = l /\ isLeader'[m] = d /\ check'[m] = c /\ reply'[m] = r /\ pipe'[m] = s
      /\ \A x \in Mains \ {m} :
           /\ life'[x] = life[x] /\ isLeader'[x] = isLeader[x] /\ check'[x] = check[x]
           /\ reply'[x] = reply[x] /\ pipe'[x] = pipe[x]
  BY <1>1 DEF Sets
<1>4. ASSUME NEW x \in Mains
      PROVE  MainOK(life'[x], isLeader'[x], check'[x], reply'[x], pipe'[x])
  <2>1. CASE x = m
    BY <1>3, <2>1
  <2>2. CASE x # m
    <3>1. MainOK(life[x], isLeader[x], check[x], reply[x], pipe[x])
      BY InvParts
    <3> QED BY <1>3, <2>2, <3>1
  <2> QED BY <2>1, <2>2
<1>5. ElectionTypeOK'
  BY <1>2, <1>4 DEF ElectionTypeOK, MainOK, Cmds
<1>6. AwaitedIsAsked'
  BY <1>4 DEF AwaitedIsAsked, MainOK
<1>7. LifeInOrder'
  BY <1>4 DEF LifeInOrder, MainOK, Pending, HasDel
<1>8. \A x \in Mains \ {m} :
        (Relies(x)' <=> Relies(x)) /\ (x \in Leaders' <=> x \in Leaders)
  BY <1>3 DEF Relies, Pending, Leaders
<1>9. Relies(m)' <=> RelyOf(l, d, r, s)
  BY <1>3 DEF Relies, Pending, RelyOf, HasDel
<1>10. m \in Leaders' <=> (l = "up" /\ d)
  BY <1>3 DEF Leaders
<1> QED BY <1>2, <1>5, <1>6, <1>7, <1>8, <1>9, <1>10 DEF ElectionInv

\* The relying and leading mains, field by field.
LEMMA ReliesParts ==
    ASSUME NEW m \in Mains
    PROVE  /\ Relies(m) <=> RelyOf(life[m], isLeader[m], reply[m], pipe[m])
           /\ m \in Leaders <=> (life[m] = "up" /\ isLeader[m])
           /\ Pending(m, "del") <=> HasDel(pipe[m])
BY DEF Relies, RelyOf, Pending, HasDel, Leaders

\* Fields that a step leaves alone are set to what they are.
LEMMA KeptFields ==
    ASSUME ElectionInv, NEW m \in Mains
    PROVE  /\ life = [life EXCEPT ![m] = life[m]]
           /\ isLeader = [isLeader EXCEPT ![m] = isLeader[m]]
           /\ check = [check EXCEPT ![m] = check[m]]
           /\ reply = [reply EXCEPT ![m] = reply[m]]
           /\ pipe = [pipe EXCEPT ![m] = pipe[m]]
BY DEF ElectionInv, ElectionTypeOK

\* What every step is shown to do.
Implements == ElectionInv' /\ [Lease!LeaseNext]_(Lease!leaseVars)

\* A main that relies on nothing new and does not start to lead retires, or
\* the lease stays as it is.
LEMMA RetireOrStutter ==
    ASSUME NEW m \in Mains, key' = key, lapses' = lapses,
           \A x \in Mains \ {m} :
             (Relies(x)' <=> Relies(x)) /\ (x \in Leaders' <=> x \in Leaders),
           Relies(m)' => Relies(m), m \in Leaders' => m \in Leaders
    PROVE  [Lease!LeaseNext]_(Lease!leaseVars)
<1>a. m \in Leaders => Relies(m)
  BY DEF Leaders, Relies
<1>b. m \in Leaders' => Relies(m)'
  BY DEF Leaders, Relies
<1>c. Leaders \subseteq Mains /\ Leaders' \subseteq Mains
  BY DEF Leaders
<1>d. /\ \A x \in Mains : x \in Stale <=> (x # key /\ Relies(x))
      /\ \A x \in Mains : x \in Stale' <=> (x # key /\ Relies(x)')
      /\ Stale \subseteq Mains /\ Stale' \subseteq Mains
  BY DEF Stale
<1>1. CASE m \in Leaders'
  <2>1. Leaders' = Leaders /\ Stale' = Stale
    BY <1>1, <1>a, <1>b, <1>c, <1>d
  <2> QED BY <2>1 DEF Lease!leaseVars
<1>2. CASE m \notin Leaders'
  <2>1. Leaders' = Leaders \ {m}
    BY <1>2, <1>c
  <2>2. Stale' = Stale \/ Stale' = Stale \ {m}
    <3>1. CASE m \in Stale'
      <4>1. Stale' = Stale
        BY <1>d, <3>1
      <4> QED BY <4>1
    <3>2. CASE m \notin Stale'
      <4>1. Stale' = Stale \ {m}
        BY <1>d, <3>2
      <4> QED BY <4>1
    <3> QED BY <3>1, <3>2
  <2>3. Lease!Retire(m)
    BY <2>1, <2>2 DEF Lease!Retire
  <2> QED BY <2>3 DEF Lease!LeaseNext
<1> QED BY <1>1, <1>2

\* Setting the fields of a main without moving the key or leading anew.
LEMMA CalmSets ==
    ASSUME ElectionInv, NEW m \in Mains, NEW l, NEW d, NEW c, NEW r, NEW s,
           Sets(m, l, d, c, r, s), MainOK(l, d, c, r, s),
           key' = key, lapses' = lapses, timeouts' \in Nat, stops' \in Nat,
           RelyOf(l, d, r, s) => RelyOf(life[m], isLeader[m], reply[m], pipe[m]),
           l = "up" /\ d => life[m] = "up" /\ isLeader[m]
    PROVE  Implements
<1>1. key' \in Mains \cup {NoMain} /\ {timeouts', lapses', stops'} \subseteq Nat
  BY DEF ElectionInv, ElectionTypeOK
<1>2. /\ ElectionInv'
      /\ \A x \in Mains \ {m} :
           (Relies(x)' <=> Relies(x)) /\ (x \in Leaders' <=> x \in Leaders)
      /\ Relies(m)' <=> RelyOf(l, d, r, s)
      /\ m \in Leaders' <=> (l = "up" /\ d)
  BY <1>1, SetsKeeps
<1>3. [Lease!LeaseNext]_(Lease!leaseVars)
  BY <1>2, ReliesParts, RetireOrStutter
<1> QED BY <1>2, <1>3 DEF Implements

-----------------------------------------------------------------------------
(* The steps *)

\* init() and the interval send a command.
LEMMA CheckSteps ==
    ASSUME ElectionInv, NEW m \in Mains, Boot(m) \/ CheckLeader(m)
    PROVE  Implements
<1>a. MainOK(life[m], isLeader[m], check[m], reply[m], pipe[m])
  BY InvParts
<1>b. {timeouts, lapses, stops} \subseteq Nat
  BY DEF ElectionInv, ElectionTypeOK
<1>1. CASE Boot(m)
  <2> DEFINE s == Append(pipe[m], [op |-> "set", live |-> TRUE])
  <2>1. /\ life[m] = "off" /\ pipe[m] = <<>> /\ UNCHANGED <<key, counters>>
        /\ ~isLeader[m] /\ check[m] = "idle" /\ reply[m] = "none"
    BY <1>1, <1>a DEF Boot, MainOK, RepliesTo
  <2>2. Sets(m, "booting", isLeader[m], "init", reply[m], s)
    BY <1>1, KeptFields DEF Boot, Send, Sets
  <2>3. ~HasAwaited(pipe[m]) /\ ~HasDel(pipe[m])
    BY <2>1 DEF HasAwaited, HasDel
  <2>4. /\ s \in Seq(Cmds) /\ OneOfEach(s) /\ ~HasDel(s)
        /\ \A i \in DOMAIN s : Awaited(s[i]) => s[i].op = "set"
    BY <1>a, <2>3, SendAwaited DEF MainOK, Ops
  <2> HIDE DEF s
  <2>5. MainOK("booting", isLeader[m], "init", reply[m], s)
    BY <1>a, <2>1, <2>4 DEF MainOK, Checks, RepliesTo, OpOf
  <2>6. ~RelyOf("booting", isLeader[m], reply[m], s)
    BY <2>1, <2>4 DEF RelyOf
  <2> QED BY <1>b, <2>1, <2>2, <2>5, <2>6, CalmSets DEF counters
<1>2. CASE CheckLeader(m)
  <2>1. PICK k \in {"renew", "get"} : k = IF isLeader[m] THEN "renew" ELSE "get"
    OBVIOUS
  <2> DEFINE s == Append(pipe[m], [op |-> k, live |-> TRUE])
  <2>2. life[m] = "up" /\ check[m] = "idle" /\ reply[m] = "none" /\ UNCHANGED <<key, counters>>
    BY <1>2, <1>a DEF CheckLeader, MainOK, RepliesTo
  <2>3. Sets(m, life[m], isLeader[m], k, reply[m], s)
    BY <1>2, <2>1, KeptFields DEF CheckLeader, Send, Sets
  <2>4. ~HasAwaited(pipe[m]) /\ ~HasDel(pipe[m])
    BY <1>a, <2>2 DEF HasAwaited, MainOK
  <2>5. /\ s \in Seq(Cmds) /\ OneOfEach(s) /\ ~HasDel(s)
        /\ \A i \in DOMAIN s : Awaited(s[i]) => s[i].op = k
    BY <1>a, <2>1, <2>4, SendAwaited DEF MainOK, Ops
  <2> HIDE DEF s
  <2>6. MainOK(life[m], isLeader[m], k, reply[m], s)
    BY <1>a, <2>1, <2>2, <2>5 DEF MainOK, Checks, RepliesTo, OpOf
  <2>7. RelyOf(life[m], isLeader[m], reply[m], s) => RelyOf(life[m], isLeader[m], reply[m], pipe[m])
    BY <2>5 DEF RelyOf
  <2> QED BY <1>b, <2>2, <2>3, <2>6, <2>7, CalmSets DEF counters
<1> QED BY <1>1, <1>2

\* The process ends, by itself or not.
LEMMA GoneIsCalm ==
    ASSUME ElectionInv, NEW m \in Mains, Gone(m),
           NEW s \in {Abandoned(pipe[m]), <<>>}, pipe' = [pipe EXCEPT ![m] = s],
           key' = key, lapses' = lapses, timeouts' \in Nat, stops' \in Nat
    PROVE  Implements
<1>a. MainOK(life[m], isLeader[m], check[m], reply[m], pipe[m])
  BY InvParts
<1>1. Sets(m, "off", FALSE, "idle", "none", s)
  BY DEF Gone, Sets
<1>2. s \in Seq(Cmds) /\ OneOfEach(s) /\ ~HasAwaited(s) /\ (HasDel(s) => HasDel(pipe[m]))
  BY <1>a, PipeAbandoned DEF MainOK
<1>3. MainOK("off", FALSE, "idle", "none", s)
  BY <1>2 DEF MainOK, HasAwaited, Checks, Replies, RepliesTo
<1>4. RelyOf("off", FALSE, "none", s) => RelyOf(life[m], isLeader[m], reply[m], pipe[m])
  BY <1>2 DEF RelyOf
<1> QED BY <1>1, <1>3, <1>4, CalmSets

\* Shutdowns and crashes.
LEMMA EndSteps ==
    ASSUME ElectionInv, NEW m \in Mains,
           Shutdown(m) \/ Closed(m) \/ CloseTimeout(m) \/ Crash(m)
    PROVE  Implements
<1>a. MainOK(life[m], isLeader[m], check[m], reply[m], pipe[m])
  BY InvParts
<1>b. {timeouts, lapses, stops} \subseteq Nat
  BY DEF ElectionInv, ElectionTypeOK
<1>c. key' = key /\ lapses' = lapses /\ timeouts' \in Nat /\ stops' \in Nat
  BY <1>b DEF Shutdown, Closed, CloseTimeout, Crash, counters
<1>1. CASE Shutdown(m) /\ isLeader[m]
  <2> DEFINE s == Append(pipe[m], [op |-> "del", live |-> TRUE])
  <2>1. life[m] = "up" /\ isLeader[m]
    BY <1>1 DEF Shutdown
  <2>2. Sets(m, "closing", isLeader[m], check[m], reply[m], s)
    BY <1>1, KeptFields DEF Shutdown, Send, Sets
  <2>3. /\ s \in Seq(Cmds) /\ OneOfEach(s) /\ HasDel(s)
        /\ \A i \in DOMAIN s : Awaited(s[i]) => i \in DOMAIN pipe[m] /\ s[i] = pipe[m][i]
    BY <1>a, <2>1, SendDel DEF MainOK
  <2> HIDE DEF s
  <2>4. MainOK("closing", isLeader[m], check[m], reply[m], s)
    BY <1>a, <2>1, <2>3 DEF MainOK
  <2>5. RelyOf(life[m], isLeader[m], reply[m], pipe[m])
    BY <2>1 DEF RelyOf
  <2> QED BY <1>c, <2>2, <2>4, <2>5, CalmSets
<1>2. CASE ~(Shutdown(m) /\ isLeader[m])
  <2>1. PICK s \in {Abandoned(pipe[m]), <<>>} : Gone(m) /\ pipe' = [pipe EXCEPT ![m] = s]
    BY <1>2 DEF Shutdown, Closed, CloseTimeout, Crash
  <2> QED BY <1>c, <2>1, GoneIsCalm
<1> QED BY <1>1, <1>2

\* commandTimeout rejects what a check awaits.
LEMMA TimeoutStep ==
    ASSUME ElectionInv, NEW m \in Mains, Timeout(m)
    PROVE  Implements
<1>a. MainOK(life[m], isLeader[m], check[m], reply[m], pipe[m])
  BY InvParts
<1>b. /\ key' = key /\ lapses' = lapses /\ timeouts' \in Nat /\ stops' \in Nat
      /\ check[m] # "idle"
  BY DEF Timeout, ElectionInv, ElectionTypeOK
<1>1. PICK s : /\ pipe' = [pipe EXCEPT ![m] = s]
               /\ s \in {[i \in DOMAIN pipe[m] |->
                            [pipe[m][i] EXCEPT !.live = @ /\ pipe[m][i].op = "del"]]}
                        \cup {RemoveAt(pipe[m], i) : i \in {j \in DOMAIN pipe[m] : Awaited(pipe[m][j])}}
  BY DEF Timeout
<1>2. s \in Seq(Cmds) /\ OneOfEach(s) /\ ~HasAwaited(s) /\ (HasDel(s) <=> HasDel(pipe[m]))
  BY <1>a, <1>1, PipeTimedOut DEF MainOK
<1>3. PICK d \in BOOLEAN : d = (isLeader[m] /\ check[m] = "renew")
  OBVIOUS
<1>4. PICK l : l = IF life[m] = "booting" THEN "up" ELSE life[m]
  OBVIOUS
<1>5. Sets(m, l, d, "idle", "none", s)
  BY <1>1, <1>3, <1>4 DEF Timeout, Sets
<1>6. MainOK(l, d, "idle", "none", s)
  BY <1>a, <1>b, <1>2, <1>3, <1>4 DEF MainOK, HasAwaited, Checks, Replies, RepliesTo
<1>7. l = "up" /\ d => life[m] = "up" /\ isLeader[m]
  BY <1>a, <1>3, <1>4 DEF MainOK
<1>8. RelyOf(l, d, "none", s) => RelyOf(life[m], isLeader[m], reply[m], pipe[m])
  BY <1>2, <1>7 DEF RelyOf
<1> QED BY <1>b, <1>5, <1>6, <1>7, <1>8, CalmSets

\* A check ends.  A main that starts to lead was told the key is its own.
LEMMA ConcludeStep ==
    ASSUME ElectionInv, NEW m \in Mains, NEW d \in BOOLEAN, Conclude(m, d),
           reply[m] # "none", reply' = [reply EXCEPT ![m] = "none"],
           UNCHANGED <<key, counters>>,
           d => isLeader[m] \/ reply[m] \in {"ok", "mine"}
    PROVE  Implements
<1>a. MainOK(life[m], isLeader[m], check[m], reply[m], pipe[m])
  BY InvParts
<1>b. /\ key' = key /\ lapses' = lapses /\ timeouts' \in Nat /\ stops' \in Nat /\ lapses' \in Nat
      /\ key' \in Mains \cup {NoMain}
  BY DEF ElectionInv, ElectionTypeOK, counters
<1>c. check[m] # "idle"
  BY <1>a DEF MainOK, RepliesTo
<1>1. PICK l : l = IF life[m] = "booting" THEN "up" ELSE life[m]
  OBVIOUS
<1>2. Sets(m, l, d, "idle", "none", pipe[m])
  BY <1>1, KeptFields DEF Conclude, Sets
<1>3. MainOK(l, d, "idle", "none", pipe[m])
  BY <1>a, <1>c, <1>1 DEF MainOK, Checks, Replies, RepliesTo
<1>4. CASE l = "up" /\ d => life[m] = "up" /\ isLeader[m]
  <2>1. RelyOf(l, d, "none", pipe[m]) => RelyOf(life[m], isLeader[m], reply[m], pipe[m])
    BY <1>4 DEF RelyOf
  <2> QED BY <1>b, <1>2, <1>3, <1>4, <2>1, CalmSets
<1>5. CASE (l = "up" /\ d) /\ ~(life[m] = "up" /\ isLeader[m])
  <2>1. /\ ElectionInv'
        /\ \A x \in Mains \ {m} :
             (Relies(x)' <=> Relies(x)) /\ (x \in Leaders' <=> x \in Leaders)
        /\ Relies(m)' <=> RelyOf(l, d, "none", pipe[m])
        /\ m \in Leaders' <=> (l = "up" /\ d)
    BY <1>b, <1>2, <1>3, SetsKeeps
  <2>2. life[m] \in {"booting", "up"} /\ ~isLeader[m]
    BY <1>a, <1>1, <1>5 DEF MainOK
  <2>3. Relies(m) /\ Relies(m)' /\ m \in Leaders'
    BY <1>5, <2>1, <2>2, ReliesParts DEF RelyOf
  <2>4. Leaders' = Leaders \cup {m}
    BY <2>1, <2>3 DEF Leaders
  <2>5. Stale' = Stale /\ m \in Stale \cup {key}
    BY <1>b, <2>1, <2>3 DEF Stale
  <2>6. Lease!Lead(m)
    BY <1>b, <2>4, <2>5 DEF Lease!Lead
  <2> QED BY <2>1, <2>6 DEF Implements, Lease!LeaseNext
<1> QED BY <1>4, <1>5

\* A check goes on with a SET, as a leader or as a follower.
LEMMA TrySetStep ==
    ASSUME ElectionInv, NEW m \in Mains, NEW as, TrySet(m, as),
           \/ check[m] = "renew" /\ as = "reclaim"
           \/ check[m] = "get" /\ as = "claim",
           reply[m] # "none", reply' = [reply EXCEPT ![m] = "none"],
           UNCHANGED <<key, counters>>
    PROVE  Implements
<1> DEFINE s == Append(pipe[m], [op |-> "set", live |-> TRUE])
<1>a. MainOK(life[m], isLeader[m], check[m], reply[m], pipe[m])
  BY InvParts
<1>b. key' = key /\ lapses' = lapses /\ timeouts' \in Nat /\ stops' \in Nat
  BY DEF ElectionInv, ElectionTypeOK, counters
<1>1. Sets(m, life[m], isLeader[m], as, "none", s)
  BY KeptFields DEF TrySet, Send, Sets
<1>2. ~HasAwaited(pipe[m])
  BY <1>a DEF HasAwaited, MainOK
<1>3. /\ s \in Seq(Cmds) /\ OneOfEach(s) /\ (HasDel(s) <=> HasDel(pipe[m]))
      /\ \A i \in DOMAIN s : Awaited(s[i]) => s[i].op = "set"
  BY <1>a, <1>2, SendAwaited DEF MainOK, Ops
<1> HIDE DEF s
<1>4. MainOK(life[m], isLeader[m], as, "none", s)
  BY <1>a, <1>3 DEF MainOK, Checks, Replies, RepliesTo, OpOf
<1>5. RelyOf(life[m], isLeader[m], "none", s) => RelyOf(life[m], isLeader[m], reply[m], pipe[m])
  BY <1>3 DEF RelyOf
<1> QED BY <1>b, <1>1, <1>4, <1>5, CalmSets

\* An answer is handled.
LEMMA AnsweredStep ==
    ASSUME ElectionInv, NEW m \in Mains, Answered(m)
    PROVE  Implements
<1>a. MainOK(life[m], isLeader[m], check[m], reply[m], pipe[m])
  BY InvParts
<1>b. /\ reply[m] # "none" /\ reply' = [reply EXCEPT ![m] = "none"]
      /\ UNCHANGED <<key, counters>>
  BY DEF Answered
<1>c. check[m] \in {"init", "renew", "reclaim", "get", "claim"}
  BY <1>a, <1>b DEF MainOK, RepliesTo, Checks
<1>1. CASE check[m] = "renew" /\ reply[m] = "missing"
  BY <1>1, <1>b, TrySetStep DEF Answered, OnRenew
<1>2. CASE check[m] = "get" /\ reply[m] = "vacant"
  BY <1>2, <1>b, TrySetStep DEF Answered, OnGet
<1>3. CASE check[m] = "renew" /\ reply[m] # "missing"
  <2>1. Conclude(m, reply[m] = "success") /\ isLeader[m]
    BY <1>3, <1>a DEF Answered, OnRenew, MainOK
  <2> QED BY <1>b, <2>1, ConcludeStep
<1>4. CASE check[m] = "get" /\ reply[m] # "vacant"
  <2>1. Conclude(m, reply[m] = "mine")
    BY <1>4 DEF Answered, OnGet
  <2> QED BY <1>b, <2>1, ConcludeStep
<1>5. CASE check[m] \in {"init", "reclaim", "claim"}
  <2>1. Conclude(m, reply[m] = "ok")
    BY <1>5 DEF Answered, OnInit, OnReclaim, OnClaim
  <2> QED BY <1>b, <2>1, ConcludeStep
<1> QED BY <1>c, <1>1, <1>2, <1>3, <1>4, <1>5

\* Redis executes a command that leaves the key alone.
LEMMA ExecuteQuery ==
    ASSUME ElectionInv, NEW m \in Mains, pipe[m] # <<>>, NEW r,
           Sets(m, life[m], isLeader[m], check[m], r, Tail(pipe[m])),
           UNCHANGED <<key, counters>>, Head(pipe[m]).op # "del",
           \/ ~Awaited(Head(pipe[m])) /\ r = reply[m]
           \/ Awaited(Head(pipe[m])) /\ r \in RepliesTo(check[m]) /\ r \in Replies,
           r \in {"ok", "mine"} => r = reply[m] \/ m = key
    PROVE  Implements
<1>a. MainOK(life[m], isLeader[m], check[m], reply[m], pipe[m])
  BY InvParts
<1>b. /\ key' = key /\ lapses' = lapses /\ timeouts' \in Nat /\ stops' \in Nat /\ lapses' \in Nat
      /\ key' \in Mains \cup {NoMain}
  BY DEF ElectionInv, ElectionTypeOK, counters
<1> DEFINE s == Tail(pipe[m])
<1>1. /\ s \in Seq(Cmds) /\ OneOfEach(s) /\ 1 \in DOMAIN pipe[m] /\ Head(pipe[m]) = pipe[m][1]
      /\ Awaited(Head(pipe[m])) => ~HasAwaited(s)
      /\ HasDel(s) <=> HasDel(pipe[m])
      /\ \A i \in DOMAIN s : i + 1 \in DOMAIN pipe[m] /\ s[i] = pipe[m][i + 1]
  BY <1>a, TakeFirst DEF MainOK
<1> HIDE DEF s
<1>2. MainOK(life[m], isLeader[m], check[m], r, s)
  <2>1. \A i \in DOMAIN s : Awaited(s[i]) =>
          check[m] # "idle" /\ r = "none" /\ s[i].op = OpOf(check[m])
    BY <1>a, <1>1 DEF MainOK, HasAwaited
  <2>2. r \in Replies /\ r \in RepliesTo(check[m])
    BY <1>a DEF MainOK
  <2> QED BY <1>a, <1>1, <2>1, <2>2 DEF MainOK
<1>3. /\ ElectionInv'
      /\ \A x \in Mains \ {m} :
           (Relies(x)' <=> Relies(x)) /\ (x \in Leaders' <=> x \in Leaders)
      /\ Relies(m)' <=> RelyOf(life[m], isLeader[m], r, s)
      /\ m \in Leaders' <=> (life[m] = "up" /\ isLeader[m])
  BY <1>b, <1>2, SetsKeeps DEF s
<1>4. Leaders' = Leaders
  BY <1>3, ReliesParts DEF Leaders
<1>5. CASE m = key
  <2>1. Stale' = Stale
    BY <1>3, <1>5, <1>b DEF Stale
  <2> QED BY <1>3, <1>4, <1>b, <2>1 DEF Implements, Lease!leaseVars
<1>6. CASE m # key
  <2>1. RelyOf(life[m], isLeader[m], r, s) => RelyOf(life[m], isLeader[m], reply[m], pipe[m])
    BY <1>1, <1>6 DEF RelyOf
  <2> QED BY <1>2, <1>b, <2>1, CalmSets DEF s
<1> QED BY <1>5, <1>6

\* A SET NX that finds no key grants the lease.
LEMMA ExecuteGrant ==
    ASSUME ElectionInv, NEW m \in Mains, pipe[m] # <<>>, NEW r,
           Sets(m, life[m], isLeader[m], check[m], r, Tail(pipe[m])),
           key = NoMain, key' = m, UNCHANGED counters, Head(pipe[m]).op # "del",
           \/ ~Awaited(Head(pipe[m])) /\ r = reply[m]
           \/ Awaited(Head(pipe[m])) /\ r \in RepliesTo(check[m]) /\ r \in Replies
    PROVE  Implements
<1>a. MainOK(life[m], isLeader[m], check[m], reply[m], pipe[m])
  BY InvParts
<1>b. /\ lapses' = lapses /\ timeouts' \in Nat /\ stops' \in Nat /\ lapses' \in Nat
      /\ key' \in Mains \cup {NoMain}
  BY DEF ElectionInv, ElectionTypeOK, counters
<1> DEFINE s == Tail(pipe[m])
<1>1. /\ s \in Seq(Cmds) /\ OneOfEach(s) /\ 1 \in DOMAIN pipe[m] /\ Head(pipe[m]) = pipe[m][1]
      /\ Awaited(Head(pipe[m])) => ~HasAwaited(s)
      /\ HasDel(s) <=> HasDel(pipe[m])
      /\ \A i \in DOMAIN s : i + 1 \in DOMAIN pipe[m] /\ s[i] = pipe[m][i + 1]
  BY <1>a, TakeFirst DEF MainOK
<1> HIDE DEF s
<1>2. MainOK(life[m], isLeader[m], check[m], r, s)
  <2>1. \A i \in DOMAIN s : Awaited(s[i]) =>
          check[m] # "idle" /\ r = "none" /\ s[i].op = OpOf(check[m])
    BY <1>a, <1>1 DEF MainOK, HasAwaited
  <2>2. r \in Replies /\ r \in RepliesTo(check[m])
    BY <1>a DEF MainOK
  <2> QED BY <1>a, <1>1, <2>1, <2>2 DEF MainOK
<1>3. /\ ElectionInv'
      /\ \A x \in Mains \ {m} :
           (Relies(x)' <=> Relies(x)) /\ (x \in Leaders' <=> x \in Leaders)
      /\ Relies(m)' <=> RelyOf(life[m], isLeader[m], r, s)
      /\ m \in Leaders' <=> (life[m] = "up" /\ isLeader[m])
  BY <1>b, <1>2, SetsKeeps DEF s
<1>4. Leaders' = Leaders
  BY <1>3, ReliesParts DEF Leaders
<1>5. Stale' = Stale \ {m}
  BY <1>3, ElectionAssumption DEF Stale
<1>6. Lease!Grant(m)
  BY <1>4, <1>5, <1>b DEF Lease!Grant
<1> QED BY <1>3, <1>6 DEF Implements, Lease!LeaseNext

\* An unguarded DEL takes the key from whoever has it.
LEMMA ExecuteDel ==
    ASSUME ElectionInv, NEW m \in Mains, pipe[m] # <<>>,
           Sets(m, life[m], isLeader[m], check[m], reply[m], Tail(pipe[m])),
           key' = NoMain, UNCHANGED counters, Head(pipe[m]).op = "del"
    PROVE  Implements
<1>a. MainOK(life[m], isLeader[m], check[m], reply[m], pipe[m])
  BY InvParts
<1>b. /\ lapses' = lapses /\ timeouts' \in Nat /\ stops' \in Nat /\ lapses' \in Nat
      /\ key' \in Mains \cup {NoMain} /\ key \in Mains \cup {NoMain}
  BY DEF ElectionInv, ElectionTypeOK, counters
<1> DEFINE s == Tail(pipe[m])
<1>1. /\ s \in Seq(Cmds) /\ OneOfEach(s) /\ ~HasDel(s) /\ HasDel(pipe[m])
      /\ \A i \in DOMAIN s : i + 1 \in DOMAIN pipe[m] /\ s[i] = pipe[m][i + 1]
  BY <1>a, TakeFirst DEF MainOK
<1> HIDE DEF s
<1>2. MainOK(life[m], isLeader[m], check[m], reply[m], s)
  BY <1>a, <1>1 DEF MainOK
<1>3. /\ ElectionInv'
      /\ \A x \in Mains \ {m} :
           (Relies(x)' <=> Relies(x)) /\ (x \in Leaders' <=> x \in Leaders)
      /\ Relies(m)' <=> RelyOf(life[m], isLeader[m], reply[m], s)
      /\ m \in Leaders' <=> (life[m] = "up" /\ isLeader[m])
  BY <1>b, <1>2, SetsKeeps DEF s
<1>4. life[m] \in {"off", "closing"}
  BY <1>a, <1>1 DEF MainOK
<1>5. Relies(m) /\ ~Relies(m)' /\ m \notin Leaders
  BY <1>1, <1>3, <1>4, ReliesParts DEF RelyOf
<1>6. Leaders' = Leaders
  BY <1>3, ReliesParts DEF Leaders
<1>7. \A x \in Mains : (x \in Stale' <=> x # m /\ Relies(x)) /\ (x \in Stale <=> x # key /\ Relies(x))
  BY <1>3, <1>5, ElectionAssumption DEF Stale
<1>8. Stale \subseteq Mains /\ Stale' \subseteq Mains
  BY DEF Stale
<1>9. Leaders \cap {key} \subseteq Stale'
  BY <1>5, <1>7 DEF Leaders, Relies
<1>10. CASE m = key
  <2>1. Stale' = Stale
    BY <1>7, <1>8, <1>10
  <2>2. Lease!Release(m)
    BY <1>5, <1>6, <1>9, <1>10, <1>b, <2>1 DEF Lease!Release
  <2> QED BY <1>3, <2>2 DEF Implements, Lease!LeaseNext
<1>11. CASE m # key
  <2>1. Stale' = Stale \ {m} \/ Stale' = (Stale \ {m}) \cup ({key} \cap Mains)
    <3>1. CASE key \in Mains /\ Relies(key)
      <4>1. Stale' = (Stale \ {m}) \cup ({key} \cap Mains)
        BY <1>7, <1>8, <1>11, <3>1
      <4> QED BY <4>1
    <3>2. CASE ~(key \in Mains /\ Relies(key))
      <4>1. Stale' = Stale \ {m}
        BY <1>7, <1>8, <1>11, <3>2
      <4> QED BY <4>1
    <3> QED BY <3>1, <3>2
  <2>2. m \in Stale
    BY <1>5, <1>7, <1>11
  <2>3. Lease!Release(m)
    BY <1>5, <1>6, <1>9, <1>11, <1>b, <2>1, <2>2 DEF Lease!Release
  <2> QED BY <1>3, <2>3 DEF Implements, Lease!LeaseNext
<1> QED BY <1>10, <1>11

\* Redis executes the next command of a connection.
LEMMA ExecuteStep ==
    ASSUME ElectionInv, NEW m \in Mains, Execute(m)
    PROVE  Implements
<1> DEFINE c == Head(pipe[m])
<1>a. MainOK(life[m], isLeader[m], check[m], reply[m], pipe[m])
  BY InvParts
<1>b. pipe[m] # <<>> /\ UNCHANGED <<life, isLeader, check, counters>>
  BY DEF Execute
<1>c. c \in Cmds /\ c.op \in Ops /\ c.live \in BOOLEAN
      /\ (Awaited(c) => check[m] # "idle" /\ c.op = OpOf(check[m]) /\ reply[m] = "none")
  <2>1. c \in Cmds /\ 1 \in DOMAIN pipe[m] /\ c = pipe[m][1]
    BY <1>a, <1>b, TakeFirst DEF MainOK
  <2> HIDE DEF c
  <2>2. c.op \in Ops /\ c.live \in BOOLEAN
    BY <2>1 DEF Cmds
  <2>3. Awaited(c) => check[m] # "idle" /\ c.op = OpOf(check[m]) /\ reply[m] = "none"
    BY <1>a, <2>1 DEF MainOK
  <2> QED BY <2>1, <2>2, <2>3
<1>1. PICK r : r = IF c.live /\ c.op # "del" THEN Result(m, c.op).reply ELSE reply[m]
  OBVIOUS
<1>2. /\ key' = Result(m, c.op).key
      /\ Sets(m, life[m], isLeader[m], check[m], r, Tail(pipe[m]))
  BY <1>1, <1>b, KeptFields DEF Execute, Sets
<1>3. c.live /\ c.op # "del" <=> Awaited(c)
  BY <1>c DEF Awaited
<1> HIDE DEF c
<1>4. CASE c.op = "del"
  <2>1. key' = NoMain /\ r = reply[m]
    BY <1>1, <1>2, <1>4 DEF Result, ClearLeader
  <2> QED BY <1>2, <1>4, <1>b, <2>1, ExecuteDel DEF c
<1>5. CASE c.op = "set"
  <2>1. Awaited(c) => check[m] \in {"init", "reclaim", "claim"}
    BY <1>5, <1>a, <1>c DEF OpOf, MainOK, Checks
  <2>2. CASE key = NoMain
    <3>1. key' = m /\ r = IF Awaited(c) THEN "ok" ELSE reply[m]
      BY <1>1, <1>2, <1>3, <1>5, <2>2 DEF Result, SetLeaderIfNotExists
    <3>2. Awaited(c) => r \in RepliesTo(check[m]) /\ r \in Replies
      BY <2>1, <3>1 DEF RepliesTo, Replies
    <3> QED BY <1>2, <1>5, <1>b, <2>2, <3>1, <3>2, ExecuteGrant DEF c
  <2>3. CASE key # NoMain
    <3>1. key' = key /\ r = IF Awaited(c) THEN "taken" ELSE reply[m]
      BY <1>1, <1>2, <1>3, <1>5, <2>3 DEF Result, SetLeaderIfNotExists
    <3>2. Awaited(c) => r \in RepliesTo(check[m]) /\ r \in Replies
      BY <2>1, <3>1 DEF RepliesTo, Replies
    <3> QED BY <1>2, <1>5, <1>b, <3>1, <3>2, ExecuteQuery DEF c
  <2> QED BY <2>2, <2>3
<1>6. CASE c.op = "renew"
  <2>1. Awaited(c) => check[m] = "renew"
    BY <1>6, <1>c DEF OpOf
  <2>2. key' = key /\ (Awaited(c) => r \in {"missing", "success", "other"})
        /\ (~Awaited(c) => r = reply[m])
    BY <1>1, <1>2, <1>3, <1>6 DEF Result, TryRenewLeaderTtl
  <2>3. Awaited(c) => r \in RepliesTo(check[m]) /\ r \in Replies
    BY <2>1, <2>2 DEF RepliesTo, Replies
  <2> QED BY <1>2, <1>6, <1>b, <2>2, <2>3, ExecuteQuery DEF c
<1>7. CASE c.op = "get"
  <2>1. Awaited(c) => check[m] = "get"
    BY <1>7, <1>c DEF OpOf
  <2>2. key' = key /\ (Awaited(c) => r \in {"vacant", "mine", "other"} /\ (r = "mine" => key = m))
        /\ (~Awaited(c) => r = reply[m])
    BY <1>1, <1>2, <1>3, <1>7 DEF Result, GetLeader
  <2>3. Awaited(c) => r \in RepliesTo(check[m]) /\ r \in Replies
    BY <2>1, <2>2 DEF RepliesTo, Replies
  <2> QED BY <1>2, <1>7, <1>b, <2>2, <2>3, ExecuteQuery DEF c
<1> QED BY <1>c, <1>4, <1>5, <1>6, <1>7 DEF Ops

\* The key ends by itself.
LEMMA KeyEnds ==
    ASSUME ElectionInv, Expire \/ Lapse
    PROVE  Implements
<1>a. key \in Mains /\ key' = NoMain /\ NoMain \notin Mains
  BY ElectionAssumption DEF Expire, Lapse, ElectionInv, ElectionTypeOK
<1>b. UNCHANGED <<life, isLeader, check, reply, pipe>>
  BY DEF Expire, Lapse
<1>c. {timeouts', lapses', stops'} \subseteq Nat
  BY DEF Expire, Lapse, ElectionInv, ElectionTypeOK, counters
<1>1. ElectionInv'
  BY <1>a, <1>b, <1>c DEF ElectionInv, ElectionTypeOK, AwaitedIsAsked, LifeInOrder, Pending
<1>2. \A x \in Mains : Relies(x)' <=> Relies(x)
  BY <1>b DEF Relies, Pending
<1>3. Leaders' = Leaders
  BY <1>b DEF Leaders
<1>4. CASE Expire
  <2>1. ~Relies(key) /\ UNCHANGED counters
    BY <1>4 DEF Expire
  <2>2. Stale' = Stale
    BY <1>2, <1>a, <2>1 DEF Stale
  <2>3. key \notin Leaders
    BY <2>1 DEF Leaders, Relies
  <2>4. Lease!Vacate
    BY <1>3, <1>a, <2>1, <2>2, <2>3 DEF Lease!Vacate, counters
  <2> QED BY <1>1, <2>4 DEF Implements, Lease!LeaseNext
<1>5. CASE Lapse
  <2>1. Relies(key) /\ lapses' = lapses + 1
    BY <1>5 DEF Lapse
  <2>2. Stale' = Stale \cup {key}
    BY <1>2, <1>a, <2>1 DEF Stale
  <2>3. Lease!Lapse
    BY <1>3, <1>a, <2>1, <2>2 DEF Lease!Lapse
  <2> QED BY <1>1, <2>3 DEF Implements, Lease!LeaseNext
<1> QED BY <1>4, <1>5

\* Every step keeps the invariant and is a step of the lease.
LEMMA ElectionStep ==
    ASSUME ElectionInv, [ElectionNext]_vars
    PROVE  Implements
<1>1. CASE UNCHANGED vars
  <2>1. ElectionInv'
    BY <1>1 DEF vars, counters, ElectionInv, ElectionTypeOK, AwaitedIsAsked, LifeInOrder, Pending
  <2>2. UNCHANGED Lease!leaseVars
    BY <1>1 DEF vars, counters, Lease!leaseVars, Leaders, Stale, Relies, Pending
  <2> QED BY <2>1, <2>2 DEF Implements
<1>2. CASE ElectionNext
  BY <1>2, KeyEnds, CheckSteps, AnsweredStep, ExecuteStep, TimeoutStep, EndSteps
     DEF ElectionNext
<1> QED BY <1>1, <1>2

\* Every main is off at first, and nobody holds the lease.
LEMMA ElectionStart == ElectionInit => ElectionInv /\ Lease!LeaseInit
<1> SUFFICES ASSUME ElectionInit PROVE ElectionInv /\ Lease!LeaseInit
  OBVIOUS
<1>1. /\ key = NoMain /\ lapses = 0 /\ timeouts = 0 /\ stops = 0
      /\ life = [m \in Mains |-> "off"] /\ isLeader = [m \in Mains |-> FALSE]
      /\ check = [m \in Mains |-> "idle"] /\ reply = [m \in Mains |-> "none"]
      /\ pipe = [m \in Mains |-> <<>>]
  BY DEF ElectionInit
<1>2. <<>> \in Seq(Cmds) /\ DOMAIN <<>> = {}
  OBVIOUS
<1>3. pipe \in [Mains -> Seq(Cmds)] /\ \A m \in Mains : DOMAIN pipe[m] = {}
  BY <1>1, <1>2
<1>4. ElectionTypeOK
  BY <1>1, <1>2 DEF ElectionTypeOK, Checks, Replies, Cmds
<1>5. AwaitedIsAsked
  BY <1>3 DEF AwaitedIsAsked, OneOfEach
<1>6. LifeInOrder
  BY <1>1, <1>3 DEF LifeInOrder, Pending, RepliesTo
<1>7. Leaders = {} /\ Stale = {}
  BY <1>1, <1>3 DEF Leaders, Stale, Relies, Pending
<1> QED BY <1>1, <1>3, <1>4, <1>5, <1>6, <1>7 DEF ElectionInv, Lease!LeaseInit

-----------------------------------------------------------------------------
(* What the lease bounds *)

\* Whoever leads holds the lease or has lost it, and each loss cost a lapse.
LeaseInv ==
    /\ lapses \in Nat
    /\ Leaders \subseteq Mains
    /\ Leaders \subseteq Stale \cup {key}
    /\ IsFiniteSet(Stale) /\ Cardinality(Stale) <= lapses

\* Taking a main out of the stale ones leaves no more of them.
LEMMA FewerStale ==
    ASSUME NEW m, IsFiniteSet(Stale)
    PROVE  /\ IsFiniteSet(Stale \ {m}) /\ IsFiniteSet(Stale)
           /\ Cardinality(Stale \ {m}) \in Nat /\ Cardinality(Stale) \in Nat
           /\ Cardinality(Stale \ {m}) = IF m \in Stale THEN Cardinality(Stale) - 1 ELSE Cardinality(Stale)
BY FS_RemoveElement, FS_CardinalityType

\* Adding one to a finite set adds at most one to its size.
LEMMA OneMore ==
    ASSUME NEW S, NEW x, IsFiniteSet(S)
    PROVE  /\ IsFiniteSet(S \cup {x}) /\ Cardinality(S) \in Nat
           /\ Cardinality(S \cup {x}) \in Nat
           /\ Cardinality(S \cup {x}) <= Cardinality(S) + 1
BY FS_AddElement, FS_CardinalityType

\* Nobody leads before the first lease.
LEMMA LeaseInvInit == Lease!LeaseInit => LeaseInv
BY FS_EmptySet DEF Lease!LeaseInit, LeaseInv

\* Every step of the lease keeps its losses paid for.
LEMMA LeaseInvNext ==
    ASSUME NoMain \notin Mains, LeaseInv, [Lease!LeaseNext]_(Lease!leaseVars)
    PROVE  LeaseInv'
<1> USE DEF LeaseInv
<1>1. ASSUME NEW m \in Mains, Lease!Grant(m) PROVE LeaseInv'
  <2>1. IsFiniteSet(Stale') /\ Cardinality(Stale') <= lapses'
    BY <1>1, FewerStale DEF Lease!Grant
  <2> QED BY <1>1, <2>1 DEF Lease!Grant
<1>2. ASSUME NEW m \in Mains, Lease!Lead(m) PROVE LeaseInv'
  BY <1>2 DEF Lease!Lead
<1>3. ASSUME NEW m \in Mains, Lease!Retire(m) PROVE LeaseInv'
  <2>1. IsFiniteSet(Stale') /\ Cardinality(Stale') <= lapses'
    BY <1>3, FewerStale DEF Lease!Retire
  <2> QED BY <1>3, <2>1 DEF Lease!Retire
<1>4. ASSUME NEW m \in Mains, Lease!Release(m) PROVE LeaseInv'
  <2>1. IsFiniteSet(Stale') /\ Cardinality(Stale') <= lapses'
    <3>1. CASE m = key
      BY <1>4, <3>1 DEF Lease!Release
    <3>2. CASE m # key
      <4>1. m \in Stale
        BY <1>4, <3>2 DEF Lease!Release
      <4>2. Stale' = Stale \ {m} \/ Stale' = (Stale \ {m}) \cup {key}
        BY <1>4, <3>2 DEF Lease!Release
      <4>3. /\ IsFiniteSet((Stale \ {m}) \cup {key})
            /\ Cardinality((Stale \ {m}) \cup {key}) <= Cardinality(Stale \ {m}) + 1
            /\ Cardinality((Stale \ {m}) \cup {key}) \in Nat
        BY FewerStale, OneMore
      <4> QED BY <1>4, <4>1, <4>2, <4>3, FewerStale DEF Lease!Release
    <3> QED BY <3>1, <3>2
  <2>2. Leaders' \subseteq Stale' \cup {key'}
    BY <1>4 DEF Lease!Release
  <2> QED BY <1>4, <2>1, <2>2 DEF Lease!Release
<1>5. CASE Lease!Vacate
  BY <1>5 DEF Lease!Vacate
<1>6. CASE Lease!Lapse
  <2>1. /\ IsFiniteSet(Stale \cup {key}) /\ Cardinality(Stale) \in Nat
        /\ Cardinality(Stale \cup {key}) \in Nat
        /\ Cardinality(Stale \cup {key}) <= Cardinality(Stale) + 1
    BY OneMore
  <2>2. IsFiniteSet(Stale') /\ Cardinality(Stale') <= lapses'
    BY <1>6, <2>1 DEF Lease!Lapse
  <2> QED BY <1>6, <2>2 DEF Lease!Lapse
<1>7. CASE UNCHANGED Lease!leaseVars
  BY <1>7 DEF Lease!leaseVars
<1> QED BY <1>1, <1>2, <1>3, <1>4, <1>5, <1>6, <1>7 DEF Lease!LeaseNext

\* Whoever leads without the lease is stale, and that was paid for.
LEMMA LeaseInvBounds == ASSUME LeaseInv PROVE LeadersBounded
<1>1. /\ IsFiniteSet(Stale \cup {key})
      /\ Cardinality(Stale \cup {key}) <= Cardinality(Stale) + 1
      /\ Cardinality(Stale) \in Nat /\ Cardinality(Stale \cup {key}) \in Nat
  BY OneMore DEF LeaseInv
<1>2. IsFiniteSet(Leaders) /\ Cardinality(Leaders) <= Cardinality(Stale \cup {key})
  BY <1>1, FS_Subset DEF LeaseInv
<1>3. Cardinality(Leaders) \in Nat
  BY <1>2, FS_CardinalityType
<1> QED BY <1>1, <1>2, <1>3 DEF LeaseInv, LeadersBounded

-----------------------------------------------------------------------------
(* The theorems *)

\* The variables of the election keep their types, at most one command of a
\* main is awaited, and the asserts of the two checks hold.
THEOREM ElectionTypes == Spec => []ElectionTypeOK
<1>1. ElectionInv /\ [ElectionNext]_vars => ElectionInv'
  BY ElectionStep DEF Implements
<1>2. ElectionInv => ElectionTypeOK
  BY DEF ElectionInv
<1> QED BY <1>1, <1>2, ElectionStart, PTL DEF Spec

\* MultiMainSetup implements the lease, whatever times out, lapses or stops:
\* a main starts to lead only with a key it holds or was shown, and the
\* unguarded DEL of clearLeader() passes staleness on without adding to it.
THEOREM ElectionImplementsLease == Spec => ImplementsLease
<1>1. ElectionInv /\ [ElectionNext]_vars =>
        ElectionInv' /\ [Lease!LeaseNext]_(Lease!leaseVars)
  BY ElectionStep DEF Implements
<1> QED BY <1>1, ElectionStart, PTL DEF Spec, ImplementsLease, Lease!LeaseSpec

\* What a service on 'leader-takeover' and 'leader-stepdown' may rely on: any
\* election that keeps LeaderLease has at most one leader more than lapses.
THEOREM LeaseBoundsLeaders ==
    Lease!LeaseSpec => []LeadersBounded
<1>1. LeaseInv => LeadersBounded
  BY LeaseInvBounds
<1>2. LeaseInv /\ [Lease!LeaseNext]_(Lease!leaseVars) => LeaseInv'
  BY LeaseInvNext, ElectionAssumption
<1> QED BY <1>1, <1>2, LeaseInvInit, PTL DEF Lease!LeaseSpec

\* A second leader is paid for by a key that ended under a main relying on it,
\* however many mains, timeouts, crashes and restarts there are.
THEOREM ElectionBoundsLeaders == Spec => []LeadersBounded
BY ElectionImplementsLease, LeaseBoundsLeaders, PTL DEF ImplementsLease
=============================================================================
