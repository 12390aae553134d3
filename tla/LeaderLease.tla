----------------------------- MODULE LeaderLease -----------------------------
(***************************************************************************)
(* What leader election promises the services that start on                *)
(* 'leader-takeover' and stop on 'leader-stepdown': at any time one main   *)
(* holds the lease, and whoever acts as leader without holding it is paid  *)
(* for by a lease that ran out under a main relying on it.  It does not    *)
(* promise a single leader.                                                *)
(***************************************************************************)
EXTENDS Naturals, FiniteSets

CONSTANTS Mains, NoMain

VARIABLES
    holder,   \* the main the lease names
    leaders,  \* the mains that act as leader
    stale,    \* mains that rely on a lease they no longer hold
    lapses    \* how often the lease ran out under a main relying on it

leaseVars == <<holder, leaders, stale, lapses>>

LeaseInit == holder = NoMain /\ leaders = {} /\ stale = {} /\ lapses = 0

\* A vacant lease goes to one main, which is then no longer stale.
Grant(m) ==
    /\ holder = NoMain
    /\ holder' = m
    /\ stale' = stale \ {m}
    /\ UNCHANGED <<leaders, lapses>>

\* Only a main that holds the lease, or that was shown it and lost it since,
\* starts to act as leader.
Lead(m) ==
    /\ m \in stale \cup {holder}
    /\ leaders' = leaders \cup {m}
    /\ UNCHANGED <<holder, stale, lapses>>

\* A main stops leading; nothing else of it may be stale, or something may.
Retire(m) ==
    /\ leaders' = leaders \ {m}
    /\ stale' \in {stale, stale \ {m}}
    /\ UNCHANGED <<holder, lapses>>

\* The lease ends under a main that no longer relies on it.
Vacate ==
    /\ holder \in Mains \ leaders
    /\ holder' = NoMain
    /\ UNCHANGED <<leaders, stale, lapses>>

\* The lease ends under a main relying on it.
Lapse ==
    /\ holder \in Mains
    /\ holder' = NoMain
    /\ stale' = stale \cup {holder}
    /\ lapses' = lapses + 1
    /\ UNCHANGED leaders

\* A main that stopped leading hands the lease back.  If it was stale it takes
\* the lease from the main that has it, which becomes stale in its place.
Release(m) ==
    /\ m \in (stale \cup {holder}) \ leaders
    /\ holder' = NoMain
    /\ stale' \in IF m = holder THEN {stale}
                  ELSE {stale \ {m}, (stale \ {m}) \cup ({holder} \cap Mains)}
    /\ leaders \cap {holder} \subseteq stale'
    /\ UNCHANGED <<leaders, lapses>>

LeaseNext ==
    \/ \E m \in Mains : Grant(m) \/ Lead(m) \/ Retire(m) \/ Release(m)
    \/ Vacate \/ Lapse

LeaseSpec == LeaseInit /\ [][LeaseNext]_leaseVars
=============================================================================
