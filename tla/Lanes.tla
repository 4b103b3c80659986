------------------------------- MODULE Lanes -------------------------------
(***************************************************************************)
(* LaneController (gateway/lanes.ts): independent pools of slots, one per  *)
(* kind of work, so that a burst of one kind cannot starve another.        *)
(*                                                                         *)
(* A ticket is one acquire() call and the release closure it returns.      *)
(* Waking a waiter takes two steps, as in the code: the releaser hands the *)
(* slot over by resolving the waiter's promise ("granted"), and the        *)
(* waiter's continuation runs later as a microtask ("held").               *)
(***************************************************************************)
EXTENDS Naturals, Sequences, FiniteSets

CONSTANTS Lane,      \* the lanes: chat, cron, heartbeat, self-improve, team
          Limit,     \* number of slots of each lane
          Ticket,    \* the acquire() calls that can be in flight at once
          NoLane     \* the lane of a ticket that was never used

ASSUME LaneAssumption ==
    /\ Limit \in [Lane -> Nat \ {0}]
    /\ NoLane \notin Lane
    /\ IsFiniteSet(Ticket)

VARIABLES active,    \* slots of each lane in use (the counter of the code)
          waiters,   \* per lane, the queued acquire() calls, oldest first
          status,    \* where each ticket is
          laneOf     \* the lane a ticket was last used on

vars == <<active, waiters, status, laneOf>>

\* "done" is the closure's `released` flag: it may still be called again.
Status == {"idle", "waiting", "granted", "held", "done"}

Init ==
    /\ active = [l \in Lane |-> 0]
    /\ waiters = [l \in Lane |-> <<>>]
    /\ status = [t \in Ticket |-> "idle"]
    /\ laneOf = [t \in Ticket |-> NoLane]

\* Mutant: `<=` in place of `<`.
AcquireFastOffByOne(t, l) ==
    /\ status[t] \in {"idle", "done"}
    /\ active[l] =< Limit[l]
    /\ active' = [active EXCEPT ![l] = @ + 1]
    /\ status' = [status EXCEPT ![t] = "held"]
    /\ laneOf' = [laneOf EXCEPT ![t] = l]
    /\ UNCHANGED waiters

\* Mutant: queue without looking for a free slot.
AcquireQueueAlways(t, l) ==
    /\ status[t] \in {"idle", "done"}
    /\ waiters' = [waiters EXCEPT ![l] = Append(@, t)]
    /\ status' = [status EXCEPT ![t] = "waiting"]
    /\ laneOf' = [laneOf EXCEPT ![t] = l]
    /\ UNCHANGED active

\* Mutant: `unshift` in place of `push`.
AcquireQueueInFront(t, l) ==
    /\ status[t] \in {"idle", "done"}
    /\ ~(active[l] < Limit[l])
    /\ waiters' = [waiters EXCEPT ![l] = <<t>> \o @]
    /\ status' = [status EXCEPT ![t] = "waiting"]
    /\ laneOf' = [laneOf EXCEPT ![t] = l]
    /\ UNCHANGED active

(***************************************************************************)
(* acquire(lane): take a slot at once, or queue behind the other waiters.  *)
(***************************************************************************)
AcquireFast(t, l) ==
    /\ status[t] \in {"idle", "done"}
    /\ active[l] < Limit[l]
    /\ active' = [active EXCEPT ![l] = @ + 1]
    /\ status' = [status EXCEPT ![t] = "held"]
    /\ laneOf' = [laneOf EXCEPT ![t] = l]
    /\ UNCHANGED waiters

AcquireQueue(t, l) ==
    /\ status[t] \in {"idle", "done"}
    /\ ~(active[l] < Limit[l])
    /\ waiters' = [waiters EXCEPT ![l] = Append(@, t)]
    /\ status' = [status EXCEPT ![t] = "waiting"]
    /\ laneOf' = [laneOf EXCEPT ![t] = l]
    /\ UNCHANGED active

\* The continuation of `await new Promise(...)`: acquire() returns.
Resume(t) ==
    /\ status[t] = "granted"
    /\ status' = [status EXCEPT ![t] = "held"]
    /\ UNCHANGED <<active, waiters, laneOf>>

(***************************************************************************)
(* The closure built by createRelease(lane).                               *)
(***************************************************************************)
\* Mutant: the waiter is read and not removed.
StillWaitingAll(l) == waiters[l]

\* Which waiter the slot of lane l is handed to, and who stays queued.
NextWaiter(l) == Head(waiters[l])
StillWaiting(l) == Tail(waiters[l])

\* Mutant: the slot is handed over and counted as freed.
HandOverAndFree(t) ==
    LET l == laneOf[t] IN
    /\ status[t] = "held"
    /\ waiters[l] # <<>>
    /\ status' = [status EXCEPT ![t] = "done", ![NextWaiter(l)] = "granted"]
    /\ waiters' = [waiters EXCEPT ![l] = StillWaiting(l)]
    /\ active' = [active EXCEPT ![l] = @ - 1]
    /\ UNCHANGED laneOf

\* Mutant: the waiter leaves the queue and its promise is never resolved.
HandOverLost(t) ==
    LET l == laneOf[t] IN
    /\ status[t] = "held"
    /\ waiters[l] # <<>>
    /\ status' = [status EXCEPT ![t] = "done"]
    /\ waiters' = [waiters EXCEPT ![l] = StillWaiting(l)]
    /\ UNCHANGED <<active, laneOf>>

\* First call, with a waiter: the slot changes hands, `active` stays the same.
ReleaseHandOver(t) ==
    LET l == laneOf[t] IN
    /\ status[t] = "held"
    /\ waiters[l] # <<>>
    /\ status' = [status EXCEPT ![t] = "done", ![NextWaiter(l)] = "granted"]
    /\ waiters' = [waiters EXCEPT ![l] = StillWaiting(l)]
    /\ UNCHANGED <<active, laneOf>>

\* First call, nobody waiting: the slot becomes free.
ReleaseFree(t) ==
    LET l == laneOf[t] IN
    /\ status[t] = "held"
    /\ waiters[l] = <<>>
    /\ status' = [status EXCEPT ![t] = "done"]
    /\ active' = [active EXCEPT ![l] = @ - 1]
    /\ UNCHANGED <<waiters, laneOf>>

\* Mutant: the `released` flag is not tested.
ReleaseAgainCounts(t) ==
    /\ status[t] = "done"
    /\ active' = [active EXCEPT ![laneOf[t]] = @ - 1]
    /\ UNCHANGED <<waiters, status, laneOf>>

\* Any later call: `if (released) return`.
ReleaseAgain(t) ==
    /\ status[t] = "done"
    /\ UNCHANGED vars

Release(t) == ReleaseHandOver(t) \/ ReleaseFree(t) \/ ReleaseAgain(t)

Next ==
    \/ \E t \in Ticket, l \in Lane : AcquireFast(t, l) \/ AcquireQueue(t, l)
    \/ \E t \in Ticket : Resume(t) \/ Release(t)

\* A continuation always runs, and every caller releases in a `finally`.
Fairness ==
    \A t \in Ticket : /\ WF_vars(Resume(t))
                      /\ WF_vars(ReleaseHandOver(t) \/ ReleaseFree(t))

Spec == Init /\ [][Next]_vars
FairSpec == Spec /\ Fairness

-----------------------------------------------------------------------------
\* The tickets that own a slot of lane l, whether or not they know it yet.
Owners(l) == {t \in Ticket : laneOf[t] = l /\ status[t] \in {"granted", "held"}}

\* The tickets queued on lane l.
Queued(l) == {t \in Ticket : laneOf[t] = l /\ status[t] = "waiting"}

TypeOK ==
    /\ active \in [Lane -> Nat]
    /\ waiters \in [Lane -> Seq(Ticket)]
    /\ status \in [Ticket -> Status]
    /\ laneOf \in [Ticket -> Lane \cup {NoLane}]

\* The counter counts the owners of a slot, neither more (a slot lost by a
\* hand-over) nor fewer (a slot freed twice by a repeated release).
SlotsAccounted == \A l \in Lane : active[l] = Cardinality(Owners(l))

\* No lane ever runs more work than its limit ("Only 1 heartbeat at a time").
WithinLimit == \A l \in Lane : Cardinality(Owners(l)) =< Limit[l]

\* No lost wake-up: nobody is queued on a lane that has a free slot.
NoIdleSlot == \A l \in Lane : waiters[l] # <<>> => active[l] = Limit[l]

\* The queue of a lane holds each waiting call of the lane exactly once.
QueueMatches ==
    \A l \in Lane :
        /\ {waiters[l][i] : i \in DOMAIN waiters[l]} = Queued(l)
        /\ \A i, j \in DOMAIN waiters[l] : waiters[l][i] = waiters[l][j] => i = j

\* First come, first served: while a call stays queued, no call that was not
\* queued before it obtains a slot of its lane or gets in front of it.
Precedes(s, u, t) == \E i, j \in DOMAIN s : i < j /\ s[i] = u /\ s[j] = t
Overtakes(u, t, l) ==
    /\ t \in Queued(l) /\ t \in Queued(l)'
    /\ ~Precedes(waiters[l], u, t)
    /\ \/ u \notin Owners(l) /\ u \in Owners(l)'
       \/ Precedes(waiters'[l], u, t)
NoOvertaking == [][\A l \in Lane : \A t, u \in Ticket : ~Overtakes(u, t, l)]_vars

\* Nobody starves: as every holder releases, every queued call gets its slot.
EveryWaiterServed ==
    \A t \in Ticket : status[t] = "waiting" ~> status[t] = "held"

-----------------------------------------------------------------------------
\* What a lane promises, see LanePool.
Pool == INSTANCE LanePool WITH
            owners <- [l \in Lane |-> Owners(l)],
            queue <- [l \in Lane |-> Queued(l)]
PoolSpec == Pool!Spec
=============================================================================
