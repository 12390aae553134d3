--------------------------- MODULE LeaderElection ---------------------------
(***************************************************************************)
(* Leader election of the main processes of a multi-main deployment:       *)
(* MultiMainSetup and its Redis client.  The leader is whoever the Redis   *)
(* key names; the key has a TTL that the leader renews from an interval.   *)
(*                                                                         *)
(* A Redis command is three steps: sent, executed by Redis in the order of *)
(* its connection, answered.  commandTimeout rejects a command at any      *)
(* moment, and what was sent may be executed all the same, or be lost.     *)
(* The TTL is not counted: the key of a main that does not rely on it may  *)
(* end at any time, the key of one that does costs one of MaxLapses.       *)
(***************************************************************************)
EXTENDS Naturals, Sequences, FiniteSets, SequencesExt

CONSTANTS
    Mains,        \* host ids; in a container a restarted main has its old one
    NoMain,
    MaxTimeouts,  \* Redis commands rejected by commandTimeout
    MaxLapses,    \* keys that expire under a main relying on them
    MaxStops      \* shutdowns and crashes

ASSUME ElectionAssumption ==
    /\ NoMain \notin Mains /\ IsFiniteSet(Mains)
    /\ {MaxTimeouts, MaxLapses, MaxStops} \subseteq Nat

VARIABLES
    key,       \* the leader key in Redis
    life,      \* "off", "booting" (init() awaited), "up", "closing" (shutdown() awaited)
    isLeader,  \* instanceSettings.isLeader
    check,     \* the command the one init() or checkLeader() under way awaits
    reply,     \* its answer on the way back, or "none"
    pipe,      \* commands Redis has yet to execute: [op, live]
    timeouts, lapses, stops

counters == <<timeouts, lapses, stops>>
vars == <<key, life, isLeader, check, reply, pipe, counters>>

Ops == {"set", "renew", "get", "del"}
Checks == {"idle", "init", "renew", "reclaim", "get", "claim"}
Replies == {"none", "ok", "taken", "success", "missing", "other", "mine", "vacant"}

ElectionInit ==
    /\ key = NoMain
    /\ life = [m \in Mains |-> "off"]
    /\ isLeader = [m \in Mains |-> FALSE]
    /\ check = [m \in Mains |-> "idle"]
    /\ reply = [m \in Mains |-> "none"]
    /\ pipe = [m \in Mains |-> <<>>]
    /\ timeouts = 0 /\ lapses = 0 /\ stops = 0

Send(m, op) == pipe' = [pipe EXCEPT ![m] = Append(@, [op |-> op, live |-> TRUE])]
Pending(m, op) == \E i \in DOMAIN pipe[m] : pipe[m][i].op = op

\* The process still depends on the key: it leads, it is about to because of
\* an answer under way, or its DEL is.
Relies(m) ==
    \/ life[m] = "up" /\ isLeader[m]
    \/ life[m] \in {"booting", "up"} /\ ~isLeader[m] /\ reply[m] \in {"ok", "mine"}
    \/ Pending(m, "del")

-----------------------------------------------------------------------------
(* Redis *)

\* Mutant of SetLeaderIfNotExists: SET without NX
SetAlways(m) == [key |-> m, reply |-> "ok"]

\* SET key host NX
SetLeaderIfNotExists(m) ==
    [key |-> IF key = NoMain THEN m ELSE key, reply |-> IF key = NoMain THEN "ok" ELSE "taken"]

\* The script that extends the TTL of a key that names this host.
TryRenewLeaderTtl(m) ==
    [key |-> key, reply |-> CASE key = NoMain -> "missing"
                              [] key = m -> "success"
                              [] OTHER -> "other"]

GetLeader(m) ==
    [key |-> key, reply |-> CASE key = NoMain -> "vacant"
                              [] key = m -> "mine"
                              [] OTHER -> "other"]

\* DEL, whoever the key names
ClearLeader(m) == [key |-> NoMain, reply |-> "none"]

Result(m, op) ==
    CASE op = "set" -> SetLeaderIfNotExists(m)
      [] op = "renew" -> TryRenewLeaderTtl(m)
      [] op = "get" -> GetLeader(m)
      [] op = "del" -> ClearLeader(m)

\* Redis executes the next command of a connection.
Execute(m) ==
    /\ pipe[m] # <<>>
    /\ LET c == Head(pipe[m])
           r == Result(m, c.op)
       IN  /\ key' = r.key
           /\ reply' = [reply EXCEPT ![m] = IF c.live /\ c.op # "del" THEN r.reply ELSE @]
    /\ pipe' = [pipe EXCEPT ![m] = Tail(@)]
    /\ UNCHANGED <<life, isLeader, check, counters>>

\* The TTL of a key nobody relies on runs out.
Expire ==
    /\ key # NoMain /\ ~Relies(key)
    /\ key' = NoMain
    /\ UNCHANGED <<life, isLeader, check, reply, pipe, counters>>

\* The key ends although its main relies on it: renewals came too late, or
\* Redis lost it.
Lapse ==
    /\ key # NoMain /\ Relies(key)
    /\ lapses < MaxLapses
    /\ key' = NoMain
    /\ lapses' = lapses + 1
    /\ UNCHANGED <<life, isLeader, check, reply, pipe, timeouts, stops>>

-----------------------------------------------------------------------------
(* MultiMainSetup *)

\* init() sends the first SET.  What an earlier life of the host sent is gone.
Boot(m) ==
    /\ life[m] = "off" /\ pipe[m] = <<>>
    /\ life' = [life EXCEPT ![m] = "booting"]
    /\ check' = [check EXCEPT ![m] = "init"]
    /\ Send(m, "set")
    /\ UNCHANGED <<key, isLeader, reply, counters>>

\* The interval: a leader renews, a follower looks.  One check at a time.
CheckLeader(m) ==
    /\ life[m] = "up" /\ check[m] = "idle"
    /\ check' = [check EXCEPT ![m] = IF isLeader[m] THEN "renew" ELSE "get"]
    /\ Send(m, IF isLeader[m] THEN "renew" ELSE "get")
    /\ UNCHANGED <<key, life, isLeader, reply, counters>>

\* The check ends and leaves the main leader or follower.
Conclude(m, leads) ==
    /\ isLeader' = [isLeader EXCEPT ![m] = leads]
    /\ check' = [check EXCEPT ![m] = "idle"]
    /\ life' = [life EXCEPT ![m] = IF @ = "booting" THEN "up" ELSE @]
    /\ UNCHANGED pipe

\* The check goes on with a SET.
TrySet(m, as) ==
    /\ check' = [check EXCEPT ![m] = as]
    /\ Send(m, "set")
    /\ UNCHANGED <<life, isLeader>>

OnInit(m) == Conclude(m, reply[m] = "ok")

\* Mutant of OnRenew: another main's key is no reason to step down
OnRenewDeaf(m) ==
    IF reply[m] = "missing" THEN TrySet(m, "reclaim") ELSE Conclude(m, TRUE)

\* checkAreWeStillLeader()
OnRenew(m) ==
    IF reply[m] = "missing" THEN TrySet(m, "reclaim") ELSE Conclude(m, reply[m] = "success")

\* Mutant of OnReclaim: a refused SET is tried again, the main still leading
OnReclaimRetry(m) == IF reply[m] = "ok" THEN Conclude(m, TRUE) ELSE TrySet(m, "claim")

OnReclaim(m) == Conclude(m, reply[m] = "ok")

\* Mutant of OnGet: a key that names another main is taken for our own
OnGetAnyKey(m) ==
    IF reply[m] = "vacant" THEN TrySet(m, "claim") ELSE Conclude(m, TRUE)

\* checkCanBecomeLeader(): a key with our own id is a takeover too
OnGet(m) ==
    IF reply[m] = "vacant" THEN TrySet(m, "claim") ELSE Conclude(m, reply[m] = "mine")

OnClaim(m) == Conclude(m, reply[m] = "ok")

\* The answer of the awaited command is handled.
Answered(m) ==
    /\ reply[m] # "none"
    /\ CASE check[m] = "init" -> OnInit(m)
         [] check[m] = "renew" -> OnRenew(m)
         [] check[m] = "reclaim" -> OnReclaim(m)
         [] check[m] = "get" -> OnGet(m)
         [] check[m] = "claim" -> OnClaim(m)
    /\ reply' = [reply EXCEPT ![m] = "none"]
    /\ UNCHANGED <<key, counters>>

\* A command whose answer a check awaits.
Awaited(c) == c.live /\ c.op # "del"

Abandoned(s) == [i \in DOMAIN s |-> [s[i] EXCEPT !.live = FALSE]]

\* The awaited command is rejected.  A leader whose renewal fails stays one,
\* a leader whose SET fails steps down.
Timeout(m) ==
    /\ check[m] # "idle"
    /\ timeouts < MaxTimeouts
    /\ timeouts' = timeouts + 1
    /\ isLeader' = [isLeader EXCEPT ![m] = @ /\ check[m] = "renew"]
    /\ check' = [check EXCEPT ![m] = "idle"]
    /\ reply' = [reply EXCEPT ![m] = "none"]
    /\ life' = [life EXCEPT ![m] = IF @ = "booting" THEN "up" ELSE @]
    /\ LET forgotten == [i \in DOMAIN pipe[m] |->
                           [pipe[m][i] EXCEPT !.live = @ /\ pipe[m][i].op = "del"]]
           lost == {RemoveAt(pipe[m], i) : i \in {j \in DOMAIN pipe[m] : Awaited(pipe[m][j])}}
       IN  \E rest \in {forgotten} \cup lost : pipe' = [pipe EXCEPT ![m] = rest]
    /\ UNCHANGED <<key, lapses, stops>>

\* The process is gone; what it sent is executed later, or not at all.
Gone(m) ==
    /\ life' = [life EXCEPT ![m] = "off"]
    /\ isLeader' = [isLeader EXCEPT ![m] = FALSE]
    /\ check' = [check EXCEPT ![m] = "idle"]
    /\ reply' = [reply EXCEPT ![m] = "none"]

\* shutdown(): a leader deletes the key and waits for the answer, a follower
\* just disconnects.
Shutdown(m) ==
    /\ life[m] = "up"
    /\ stops < MaxStops
    /\ stops' = stops + 1
    /\ IF isLeader[m]
         THEN /\ life' = [life EXCEPT ![m] = "closing"]
              /\ Send(m, "del")
              /\ UNCHANGED <<isLeader, check, reply>>
         ELSE /\ Gone(m)
              /\ \E rest \in {Abandoned(pipe[m]), <<>>} : pipe' = [pipe EXCEPT ![m] = rest]
    /\ UNCHANGED <<key, timeouts, lapses>>

\* clearLeader() was answered: disconnect and exit.
Closed(m) ==
    /\ life[m] = "closing" /\ ~Pending(m, "del")
    /\ Gone(m)
    /\ \E rest \in {Abandoned(pipe[m]), <<>>} : pipe' = [pipe EXCEPT ![m] = rest]
    /\ UNCHANGED <<key, counters>>

\* clearLeader() timed out: exit, with the DEL on its way or lost.
CloseTimeout(m) ==
    /\ life[m] = "closing" /\ Pending(m, "del")
    /\ timeouts < MaxTimeouts
    /\ timeouts' = timeouts + 1
    /\ Gone(m)
    /\ \E rest \in {Abandoned(pipe[m]), <<>>} : pipe' = [pipe EXCEPT ![m] = rest]
    /\ UNCHANGED <<key, lapses, stops>>

Crash(m) ==
    /\ life[m] # "off"
    /\ stops < MaxStops
    /\ stops' = stops + 1
    /\ Gone(m)
    /\ \E rest \in {Abandoned(pipe[m]), <<>>} : pipe' = [pipe EXCEPT ![m] = rest]
    /\ UNCHANGED <<key, timeouts, lapses>>

-----------------------------------------------------------------------------

ElectionNext ==
    \/ Expire \/ Lapse
    \/ \E m \in Mains :
         \/ Boot(m) \/ CheckLeader(m) \/ Answered(m) \/ Execute(m) \/ Timeout(m)
         \/ Shutdown(m) \/ Closed(m) \/ CloseTimeout(m) \/ Crash(m)

Spec == ElectionInit /\ [][ElectionNext]_vars

\* The interval fires, Redis answers whatever is not lost, a TTL runs out, and
\* the process handles what it receives.  Boots, shutdowns, crashes and
\* failures owe nothing.
FairSpec ==
    /\ Spec
    /\ WF_vars(Expire)
    /\ \A m \in Mains :
         WF_vars(CheckLeader(m)) /\ WF_vars(Answered(m)) /\ WF_vars(Execute(m)) /\ WF_vars(Closed(m))

-----------------------------------------------------------------------------
(* Properties *)

Leaders == {m \in Mains : life[m] = "up" /\ isLeader[m]}
Stale == {m \in Mains : m # key /\ Relies(m)}

\* Types; at most one command of a main is awaited by a check, a check that
\* awaits a renewal is a leader's and every other check a follower's (the
\* asserts of checkAreWeStillLeader() and checkCanBecomeLeader()).
ElectionTypeOK ==
    /\ key \in Mains \cup {NoMain}
    /\ life \in [Mains -> {"off", "booting", "up", "closing"}]
    /\ isLeader \in [Mains -> BOOLEAN]
    /\ check \in [Mains -> Checks] /\ reply \in [Mains -> Replies]
    /\ \A m \in Mains :
         /\ pipe[m] \in Seq([op : Ops, live : BOOLEAN])
         /\ check[m] # "idle" => (isLeader[m] <=> check[m] \in {"renew", "reclaim"})
    /\ {timeouts, lapses, stops} \subseteq Nat

\* A second leader is always paid for by a key that ended under a main that
\* relied on it: timeouts, late commands, crashes, restarts under the same
\* host id and shutdowns never make one by themselves.
LeadersBounded == Cardinality(Leaders) <= 1 + lapses

\* Election implements the lease its services are written against: a main
\* starts to lead only when it holds the key or was shown it, and an unguarded
\* DEL only passes staleness on, it never adds to it.
Lease == INSTANCE LeaderLease WITH holder <- key, leaders <- Leaders, stale <- Stale
ImplementsLease == Lease!LeaseSpec

\* Once timeouts, lapses and stops are over, one main of those that run leads
\* and holds the key, for good ("eventually the system will recover once
\* Redis is available again").
OneLeaderEventually ==
    <>[](\/ \A m \in Mains : life[m] = "off"
         \/ Cardinality(Leaders) = 1 /\ Leaders = {key})

-----------------------------------------------------------------------------
(* The inductive invariant *)

Cmds == [op : Ops, live : BOOLEAN]

OpOf(c) == IF c \in {"renew", "get"} THEN c ELSE "set"

RepliesTo(c) ==
    {"none"} \cup (IF c = "idle" THEN {}
                   ELSE IF c = "renew" THEN {"success", "missing", "other"}
                   ELSE IF c = "get" THEN {"mine", "vacant", "other"}
                   ELSE {"ok", "taken"})

\* In the pipe s of a main, at most one command is awaited and one a DEL.
OneOfEach(s) ==
    \A i, j \in DOMAIN s :
        (Awaited(s[i]) /\ Awaited(s[j])) \/ (s[i].op = "del" /\ s[j].op = "del") => i = j

\* What is awaited is the command of the check under way, not yet answered.
AwaitedIsAsked ==
    \A m \in Mains :
        /\ OneOfEach(pipe[m])
        /\ \A i \in DOMAIN pipe[m] : Awaited(pipe[m][i]) =>
             /\ check[m] # "idle" /\ reply[m] = "none"
             /\ pipe[m][i].op = OpOf(check[m])

\* A DEL is only ever sent by a main that closes, and answers fit the check.
LifeInOrder ==
    \A m \in Mains :
        /\ life[m] = "off" => ~isLeader[m] /\ check[m] = "idle"
        /\ life[m] = "booting" <=> check[m] = "init"
        /\ Pending(m, "del") => life[m] \in {"off", "closing"}
        /\ reply[m] \in RepliesTo(check[m])

\* What the refinement of LeaderLease rests on.
ElectionInv ==
    /\ ElectionTypeOK /\ pipe \in [Mains -> Seq(Cmds)]
    /\ AwaitedIsAsked /\ LifeInOrder
=============================================================================
