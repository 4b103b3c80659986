------------------------------ MODULE LanePool ------------------------------
(***************************************************************************)
(* What gateway/lanes.ts promises its callers, without counters, closures  *)
(* or promises: a pool of slots per lane.  A call asks, owns a slot, and   *)
(* gives it back once; a slot given back while calls are queued passes to  *)
(* one of them in the same step, so a lane with a queue is always full.    *)
(***************************************************************************)
EXTENDS Naturals, FiniteSets

CONSTANTS Lane, Limit, Ticket

VARIABLES owners,  \* per lane, the calls that own a slot
          queue    \* per lane, the calls that asked and wait

vars == <<owners, queue>>

Idle(t) == \A l \in Lane : t \notin owners[l] \cup queue[l]
Full(l) == Cardinality(owners[l]) = Limit[l]

Init ==
    /\ owners = [l \in Lane |-> {}]
    /\ queue = [l \in Lane |-> {}]

Enter(t, l) ==
    /\ Idle(t)
    /\ ~Full(l)
    /\ owners' = [owners EXCEPT ![l] = @ \cup {t}]
    /\ UNCHANGED queue

Ask(t, l) ==
    /\ Idle(t)
    /\ Full(l)
    /\ queue' = [queue EXCEPT ![l] = @ \cup {t}]
    /\ UNCHANGED owners

Leave(t, l) ==
    /\ t \in owners[l]
    /\ queue[l] = {}
    /\ owners' = [owners EXCEPT ![l] = @ \ {t}]
    /\ UNCHANGED queue

Pass(t, u, l) ==
    /\ t \in owners[l]
    /\ u \in queue[l]
    /\ owners' = [owners EXCEPT ![l] = (@ \ {t}) \cup {u}]
    /\ queue' = [queue EXCEPT ![l] = @ \ {u}]

Next == \E l \in Lane, t \in Ticket :
            \/ Enter(t, l) \/ Ask(t, l) \/ Leave(t, l)
            \/ \E u \in Ticket : Pass(t, u, l)

Spec == Init /\ [][Next]_vars
=============================================================================
