---------------------------- MODULE LanesProofs ----------------------------
(***************************************************************************)
(* The lane controller is correct for every set of lanes, every limit and  *)
(* every finite number of concurrent callers.                              *)
(***************************************************************************)
EXTENDS Lanes, FiniteSetTheorems, TLAPS

\* A ticket that asked for a slot remembers on which lane.
LaneKnown == \A t \in Ticket : status[t] # "idle" => laneOf[t] \in Lane

\* The counter stays within the limit (WithinLimit says it of the owners).
CounterWithinLimit == \A l \in Lane : active[l] =< Limit[l]

\* Inductive: NoIdleSlot needs the counter bounded, a hand-over keeps
\* SlotsAccounted only because QueueMatches makes the head a waiting ticket.
IInv ==
    /\ TypeOK
    /\ LaneKnown
    /\ SlotsAccounted
    /\ CounterWithinLimit
    /\ NoIdleSlot
    /\ QueueMatches

\* The owners of a lane are finitely many, so that they can be counted.
LEMMA OwnersFinite == ASSUME NEW l \in Lane PROVE IsFiniteSet(Owners(l))
<1>1. Owners(l) \subseteq Ticket
  BY DEF Owners
<1> QED
  BY <1>1, FS_Subset, LaneAssumption

\* Counters and limits are natural numbers, whatever the lane.
LEMMA CounterTypes ==
  ASSUME TypeOK, NEW l \in Lane PROVE active[l] \in Nat /\ Limit[l] \in Nat \ {0}
<1> QED
  BY LaneAssumption DEF TypeOK

\* Before the first acquire() no slot is in use and no queue holds a call.
LEMMA InitIInv == Init => IInv
<1> SUFFICES ASSUME Init PROVE IInv
  OBVIOUS
<1>1. TypeOK
  BY LaneAssumption DEF Init, TypeOK, Status
<1>2. LaneKnown
  BY DEF Init, LaneKnown
<1>3. SlotsAccounted
  <2> SUFFICES ASSUME NEW l \in Lane PROVE active[l] = Cardinality(Owners(l))
    BY DEF SlotsAccounted
  <2>1. Owners(l) = {}
    BY DEF Init, Owners
  <2> QED
    BY <2>1, FS_EmptySet DEF Init
<1>4. CounterWithinLimit
  BY LaneAssumption DEF Init, CounterWithinLimit
<1>5. NoIdleSlot
  BY DEF Init, NoIdleSlot
<1>6. QueueMatches
  BY DEF Init, QueueMatches, Queued
<1> QED
  BY <1>1, <1>2, <1>3, <1>4, <1>5, <1>6 DEF IInv

\* acquire() on a lane with a free slot: the caller becomes one more owner.  The
\* lane had no queue (NoIdleSlot), so that a full lane is not needed after it.
LEMMA FastStep ==
  ASSUME IInv, NEW t \in Ticket, NEW l \in Lane, AcquireFast(t, l)
  PROVE  IInv'
<1> USE DEF AcquireFast
<1>1. TypeOK'
  BY DEF IInv, TypeOK, Status
<1>2. LaneKnown'
  BY DEF IInv, TypeOK, LaneKnown
<1>3. Owners(l)' = Owners(l) \cup {t} /\ t \notin Owners(l)
  BY DEF IInv, TypeOK, Owners
<1>4. \A k \in Lane \ {l} : Owners(k)' = Owners(k)
  BY DEF IInv, TypeOK, Owners
<1>5. \A k \in Lane : Queued(k)' = Queued(k)
  BY DEF IInv, TypeOK, Queued
<1>6. SlotsAccounted'
  <2>1. Cardinality(Owners(l)') = Cardinality(Owners(l)) + 1
    BY <1>3, OwnersFinite, FS_AddElement
  <2>2. active'[l] = active[l] + 1 /\ \A k \in Lane \ {l} : active'[k] = active[k]
    BY DEF IInv, TypeOK
  <2> QED
    BY <1>4, <2>1, <2>2 DEF IInv, SlotsAccounted
<1>7. CounterWithinLimit'
  <2>1. active'[l] = active[l] + 1 /\ \A k \in Lane \ {l} : active'[k] = active[k]
    BY DEF IInv, TypeOK
  <2>2. active[l] + 1 =< Limit[l]
    BY CounterTypes DEF IInv
  <2> QED
    BY <2>1, <2>2 DEF IInv, CounterWithinLimit
<1>8. NoIdleSlot'
  <2>1. waiters[l] = <<>>
    BY CounterTypes DEF IInv, NoIdleSlot
  <2> QED
    BY <2>1 DEF IInv, TypeOK, NoIdleSlot
<1>9. QueueMatches'
  BY <1>5 DEF IInv, QueueMatches
<1> QED
  BY <1>1, <1>2, <1>6, <1>7, <1>8, <1>9 DEF IInv

\* acquire() on a full lane: the caller goes to the end of the queue and of
\* nothing else, so the lane stays full and the queue exact.
LEMMA QueueStep ==
  ASSUME IInv, NEW t \in Ticket, NEW l \in Lane, AcquireQueue(t, l)
  PROVE  IInv'
<1> USE DEF AcquireQueue
<1>1. TypeOK'
  BY DEF IInv, TypeOK, Status
<1>2. LaneKnown'
  BY DEF IInv, TypeOK, LaneKnown
<1>3. \A k \in Lane : Owners(k)' = Owners(k)
  BY DEF IInv, TypeOK, Owners
<1>4. SlotsAccounted'
  BY <1>3 DEF IInv, SlotsAccounted
<1>5. CounterWithinLimit'
  BY DEF IInv, CounterWithinLimit
<1>6. NoIdleSlot'
  <2>1. active[l] = Limit[l]
    BY CounterTypes DEF IInv, CounterWithinLimit
  <2> QED
    BY <2>1 DEF IInv, TypeOK, NoIdleSlot
<1>7. QueueMatches'
  <2>1. Queued(l)' = Queued(l) \cup {t} /\ t \notin Queued(l)
    BY DEF IInv, TypeOK, Queued
  <2>2. \A k \in Lane \ {l} : Queued(k)' = Queued(k) /\ waiters'[k] = waiters[k]
    BY DEF IInv, TypeOK, Queued
  <2>3. waiters[l] \in Seq(Ticket) /\ waiters'[l] = Append(waiters[l], t)
    BY DEF IInv, TypeOK
  <2>4. /\ DOMAIN waiters'[l] = 1..(Len(waiters[l]) + 1)
        /\ DOMAIN waiters[l] = 1..Len(waiters[l])
        /\ Len(waiters[l]) \in Nat
        /\ \A i \in 1..Len(waiters[l]) : waiters'[l][i] = waiters[l][i]
        /\ waiters'[l][Len(waiters[l]) + 1] = t
    BY <2>3
  <2>5. /\ {waiters[l][i] : i \in DOMAIN waiters[l]} = Queued(l)
        /\ \A i, j \in DOMAIN waiters[l] : waiters[l][i] = waiters[l][j] => i = j
    BY DEF IInv, QueueMatches
  <2>6. {waiters'[l][i] : i \in DOMAIN waiters'[l]} = Queued(l)'
    BY <2>1, <2>4, <2>5
  <2>7. \A i, j \in DOMAIN waiters'[l] : waiters'[l][i] = waiters'[l][j] => i = j
    BY <2>1, <2>4, <2>5
  <2> QED
    BY <2>2, <2>6, <2>7 DEF IInv, QueueMatches
<1> QED
  BY <1>1, <1>2, <1>4, <1>5, <1>6, <1>7 DEF IInv

\* The continuation of a woken acquire(): it owned its slot before.
LEMMA ResumeStep ==
  ASSUME IInv, NEW t \in Ticket, Resume(t)
  PROVE  IInv'
<1> USE DEF Resume
<1>1. TypeOK' /\ LaneKnown'
  BY DEF IInv, TypeOK, LaneKnown, Status
<1>2. \A k \in Lane : Owners(k)' = Owners(k) /\ Queued(k)' = Queued(k)
  BY DEF IInv, TypeOK, Owners, Queued
<1> QED
  BY <1>1, <1>2 DEF IInv, SlotsAccounted, CounterWithinLimit, NoIdleSlot, QueueMatches

\* release() with a queue: the slot passes to the head of the queue, a waiting
\* call of this lane by QueueMatches, so that the number of owners is the same.
LEMMA HandOverStep ==
  ASSUME IInv, NEW t \in Ticket, ReleaseHandOver(t)
  PROVE  IInv'
<1> DEFINE l == laneOf[t]
           u == NextWaiter(l)
<1> USE DEF ReleaseHandOver
<1>1. l \in Lane /\ waiters[l] \in Seq(Ticket) /\ waiters[l] # <<>>
  BY DEF IInv, TypeOK, LaneKnown
<1>2. u \in Queued(l) /\ u \in Ticket /\ u # t
  <2>1. u = waiters[l][1] /\ 1 \in DOMAIN waiters[l]
    BY <1>1 DEF NextWaiter
  <2> QED
    BY <1>1, <2>1 DEF IInv, QueueMatches, Queued
<1>3. TypeOK'
  <2>1. StillWaiting(l) \in Seq(Ticket)
    BY <1>1 DEF StillWaiting
  <2> QED
    BY <1>1, <1>2, <2>1 DEF IInv, TypeOK, Status
<1>4. LaneKnown'
  BY <1>1, <1>2 DEF IInv, TypeOK, LaneKnown, Queued
<1>5. Owners(l)' = (Owners(l) \ {t}) \cup {u} /\ t \in Owners(l) /\ u \notin Owners(l)
  BY <1>1, <1>2 DEF IInv, TypeOK, Owners, Queued
<1>6. \A k \in Lane \ {l} : Owners(k)' = Owners(k)
  BY <1>1, <1>2 DEF IInv, TypeOK, Owners, Queued
<1>7. Cardinality(Owners(l)') = Cardinality(Owners(l))
  <2>1. IsFiniteSet(Owners(l)) /\ IsFiniteSet(Owners(l) \ {t})
    BY <1>1, OwnersFinite, FS_RemoveElement
  <2>2. Cardinality(Owners(l)) \in Nat
    BY <2>1, FS_CardinalityType
  <2>3. Cardinality(Owners(l) \ {t}) = Cardinality(Owners(l)) - 1
    BY <1>5, <2>1, FS_RemoveElement
  <2>4. Cardinality((Owners(l) \ {t}) \cup {u}) = Cardinality(Owners(l) \ {t}) + 1
    BY <1>5, <2>1, FS_AddElement
  <2> QED
    BY <1>5, <2>2, <2>3, <2>4
<1>8. SlotsAccounted'
  BY <1>1, <1>6, <1>7 DEF IInv, SlotsAccounted
<1>9. CounterWithinLimit'
  BY DEF IInv, CounterWithinLimit
<1>10. NoIdleSlot'
  BY <1>1 DEF IInv, TypeOK, NoIdleSlot
<1>11. QueueMatches'
  <2>1. Queued(l)' = Queued(l) \ {u}
    BY <1>1, <1>2 DEF IInv, TypeOK, Queued
  <2>2. \A k \in Lane \ {l} : Queued(k)' = Queued(k) /\ waiters'[k] = waiters[k]
    BY <1>1, <1>2 DEF IInv, TypeOK, Queued
  <2>3. waiters'[l] = Tail(waiters[l])
    BY <1>1 DEF IInv, TypeOK, StillWaiting
  <2>4. /\ Len(waiters[l]) \in Nat \ {0}
        /\ DOMAIN waiters[l] = 1..Len(waiters[l])
        /\ DOMAIN waiters'[l] = 1..(Len(waiters[l]) - 1)
        /\ \A i \in 1..(Len(waiters[l]) - 1) : waiters'[l][i] = waiters[l][i + 1]
        /\ waiters[l][1] = u
    <3>1. Len(waiters[l]) \in Nat \ {0} /\ DOMAIN waiters[l] = 1..Len(waiters[l])
      BY <1>1
    <3>2. Len(Tail(waiters[l])) = Len(waiters[l]) - 1 /\ Tail(waiters[l]) \in Seq(Ticket)
      BY <1>1
    <3>3. DOMAIN Tail(waiters[l]) = 1..(Len(waiters[l]) - 1)
      BY <3>2
    <3>4. \A i \in 1..(Len(waiters[l]) - 1) : Tail(waiters[l])[i] = waiters[l][i + 1]
      BY <1>1, <3>1, <3>2
    <3>5. waiters[l][1] = u
      BY <1>1 DEF NextWaiter
    <3> QED
      BY <2>3, <3>1, <3>3, <3>4, <3>5
  <2>5. /\ {waiters[l][i] : i \in DOMAIN waiters[l]} = Queued(l)
        /\ \A i, j \in DOMAIN waiters[l] : waiters[l][i] = waiters[l][j] => i = j
    BY <1>1 DEF IInv, QueueMatches
  <2>6. {waiters'[l][i] : i \in DOMAIN waiters'[l]} = Queued(l)'
    <3>1. ASSUME NEW i \in DOMAIN waiters'[l] PROVE waiters'[l][i] \in Queued(l) \ {u}
      <4>1. i \in 1..(Len(waiters[l]) - 1) /\ i + 1 \in DOMAIN waiters[l] /\ i + 1 # 1
        BY <2>4
      <4>2. 1 \in DOMAIN waiters[l] /\ waiters'[l][i] = waiters[l][i + 1]
        BY <2>4, <4>1
      <4>3. waiters[l][i + 1] # waiters[l][1]
        BY <2>5, <4>1, <4>2
      <4> QED
        BY <2>4, <2>5, <4>1, <4>2, <4>3
    <3>2. ASSUME NEW v \in Queued(l) \ {u}
          PROVE  \E i \in DOMAIN waiters'[l] : v = waiters'[l][i]
      <4>1. PICK j \in DOMAIN waiters[l] : waiters[l][j] = v
        BY <2>5
      <4>2. j # 1
        BY <2>4, <4>1
      <4>3. j - 1 \in DOMAIN waiters'[l] /\ waiters'[l][j - 1] = v
        BY <2>4, <4>1, <4>2
      <4> QED
        BY <4>3
    <3> QED
      BY <2>1, <3>1, <3>2
  <2>7. \A i, j \in DOMAIN waiters'[l] : waiters'[l][i] = waiters'[l][j] => i = j
    <3> SUFFICES ASSUME NEW i \in DOMAIN waiters'[l], NEW j \in DOMAIN waiters'[l],
                        waiters'[l][i] = waiters'[l][j]
                 PROVE  i = j
      OBVIOUS
    <3>1. i + 1 \in DOMAIN waiters[l] /\ j + 1 \in DOMAIN waiters[l]
      BY <2>4
    <3>2. waiters[l][i + 1] = waiters[l][j + 1]
      BY <2>4
    <3>3. i + 1 = j + 1
      BY <2>5, <3>1, <3>2
    <3> QED
      BY <2>4, <3>3
  <2> QED
    BY <2>2, <2>6, <2>7 DEF IInv, QueueMatches
<1> QED
  BY <1>3, <1>4, <1>8, <1>9, <1>10, <1>11 DEF IInv

\* release() without a queue: one owner fewer, and a counter that was positive.
LEMMA FreeStep ==
  ASSUME IInv, NEW t \in Ticket, ReleaseFree(t)
  PROVE  IInv'
<1> DEFINE l == laneOf[t]
<1> USE DEF ReleaseFree
<1>1. l \in Lane
  BY DEF IInv, TypeOK, LaneKnown
<1>2. Owners(l)' = Owners(l) \ {t} /\ t \in Owners(l)
  BY <1>1 DEF IInv, TypeOK, Owners
<1>3. \A k \in Lane \ {l} : Owners(k)' = Owners(k)
  BY <1>1 DEF IInv, TypeOK, Owners
<1>4. \A k \in Lane : Queued(k)' = Queued(k)
  BY DEF IInv, TypeOK, Queued
<1>5. active[l] \in Nat \ {0} /\ active[l] = Cardinality(Owners(l))
  <2>1. IsFiniteSet(Owners(l)) /\ Owners(l) # {}
    BY <1>1, <1>2, OwnersFinite
  <2>2. Cardinality(Owners(l)) \in Nat \ {0}
    BY <2>1, FS_EmptySet, FS_CardinalityType
  <2> QED
    BY <1>1, <2>2 DEF IInv, SlotsAccounted
<1>6. TypeOK'
  BY <1>1, <1>5 DEF IInv, TypeOK, Status
<1>7. LaneKnown'
  BY DEF IInv, TypeOK, LaneKnown
<1>8. SlotsAccounted'
  <2>1. Cardinality(Owners(l) \ {t}) = Cardinality(Owners(l)) - 1
    BY <1>1, <1>2, OwnersFinite, FS_RemoveElement
  <2> QED
    BY <1>1, <1>2, <1>3, <1>5, <2>1 DEF IInv, TypeOK, SlotsAccounted
<1>9. CounterWithinLimit'
  <2>1. active'[l] = active[l] - 1 /\ \A k \in Lane \ {l} : active'[k] = active[k]
    BY <1>1 DEF IInv, TypeOK
  <2>2. active[l] - 1 =< Limit[l]
    BY <1>1, CounterTypes DEF IInv, CounterWithinLimit
  <2> QED
    BY <2>1, <2>2 DEF IInv, CounterWithinLimit
<1>10. NoIdleSlot'
  BY <1>1 DEF IInv, TypeOK, NoIdleSlot
<1>11. QueueMatches'
  BY <1>4 DEF IInv, QueueMatches
<1> QED
  BY <1>6, <1>7, <1>8, <1>9, <1>10, <1>11 DEF IInv

\* A second call of a release closure changes nothing, so neither does a
\* stuttering step.
LEMMA StutterStep == ASSUME IInv, UNCHANGED vars PROVE IInv'
<1> \A k \in Lane : Owners(k)' = Owners(k) /\ Queued(k)' = Queued(k)
  BY DEF vars, Owners, Queued
<1> QED
  BY DEF vars, IInv, TypeOK, LaneKnown, SlotsAccounted, CounterWithinLimit,
         NoIdleSlot, QueueMatches

\* Every call of acquire() and of a release closure keeps the lanes consistent.
LEMMA NextIInv == IInv /\ [Next]_vars => IInv'
<1> SUFFICES ASSUME IInv, [Next]_vars PROVE IInv'
  OBVIOUS
<1>1. ASSUME NEW t \in Ticket, NEW l \in Lane, AcquireFast(t, l) \/ AcquireQueue(t, l)
      PROVE  IInv'
  BY <1>1, FastStep, QueueStep
<1>2. ASSUME NEW t \in Ticket, Resume(t) PROVE IInv'
  BY <1>2, ResumeStep
<1>3. ASSUME NEW t \in Ticket, Release(t) PROVE IInv'
  BY <1>3, HandOverStep, FreeStep, StutterStep DEF Release, ReleaseAgain
<1>4. CASE UNCHANGED vars
  BY <1>4, StutterStep
<1> QED
  BY <1>1, <1>2, <1>3, <1>4 DEF Next

\* The strengthened invariant holds in every state the controller reaches.
THEOREM Inductive == Spec => []IInv
<1> QED
  BY InitIInv, NextIInv, PTL DEF Spec

\* The state of the controller is always well formed.
THEOREM TypeCorrect == Spec => []TypeOK
<1>1. IInv => TypeOK
  BY DEF IInv
<1> QED
  BY <1>1, Inductive, PTL

\* `active` always counts exactly the calls that own a slot: no slot is lost
\* by a hand-over and none is freed twice by a repeated release.
THEOREM SlotsAreAccounted == Spec => []SlotsAccounted
<1>1. IInv => SlotsAccounted
  BY DEF IInv
<1> QED
  BY <1>1, Inductive, PTL

\* A lane never runs more than its limit, whatever the callers do.
THEOREM LaneLimit == Spec => []WithinLimit
<1>1. IInv => WithinLimit
  BY DEF IInv, SlotsAccounted, CounterWithinLimit, WithinLimit
<1> QED
  BY <1>1, Inductive, PTL

\* Nobody is queued on a lane that has a free slot.
THEOREM NoLostWakeUp == Spec => []NoIdleSlot
<1>1. IInv => NoIdleSlot
  BY DEF IInv
<1> QED
  BY <1>1, Inductive, PTL

\* The queue of each lane is exactly its waiting calls, each once.
THEOREM QueueIsExact == Spec => []QueueMatches
<1>1. IInv => QueueMatches
  BY DEF IInv
<1> QED
  BY <1>1, Inductive, PTL

-----------------------------------------------------------------------------
\* Who newly owns a slot of a lane in a step: the caller of a lane with no
\* queue, or the head of the queue.
LEMMA NewOwner ==
  ASSUME IInv, Next, NEW l \in Lane, NEW u \in Ticket, u \notin Owners(l), u \in Owners(l)'
  PROVE  waiters[l] = <<>> \/ u = waiters[l][1]
<1> USE DEF IInv, TypeOK, Owners
<1>1. ASSUME NEW t \in Ticket, NEW k \in Lane, AcquireFast(t, k)
      PROVE  waiters[l] = <<>>
  <2>1. u = t /\ k = l
    BY <1>1 DEF AcquireFast
  <2> QED
    BY <1>1, <2>1, CounterTypes DEF AcquireFast, NoIdleSlot
<1>2. ASSUME NEW t \in Ticket, NEW k \in Lane, AcquireQueue(t, k) PROVE FALSE
  BY <1>2 DEF AcquireQueue
<1>3. ASSUME NEW t \in Ticket, Resume(t) PROVE FALSE
  BY <1>3 DEF Resume
<1>4. ASSUME NEW t \in Ticket, ReleaseHandOver(t) PROVE u = waiters[l][1]
  <2> DEFINE k == laneOf[t]
  <2>1. k \in Lane /\ waiters[k] \in Seq(Ticket) /\ waiters[k] # <<>>
    BY <1>4 DEF ReleaseHandOver, LaneKnown
  <2>2. NextWaiter(k) = waiters[k][1] /\ 1 \in DOMAIN waiters[k]
    BY <2>1 DEF NextWaiter
  <2>3. NextWaiter(k) \in Queued(k)
    BY <2>1, <2>2 DEF QueueMatches
  <2>4. u = NextWaiter(k) /\ l = k
    BY <1>4, <2>3 DEF ReleaseHandOver, Queued
  <2> QED
    BY <2>2, <2>4
<1>5. ASSUME NEW t \in Ticket, ReleaseFree(t) \/ ReleaseAgain(t) PROVE FALSE
  BY <1>5 DEF ReleaseFree, ReleaseAgain, vars
<1> QED
  BY <1>1, <1>2, <1>3, <1>4, <1>5 DEF Next, Release

\* A queue never changes its order: who is before a queued call after a step
\* was before it already.
LEMMA QueueOrderKept ==
  ASSUME IInv, Next, NEW l \in Lane, NEW t \in Queued(l), NEW u \in Ticket,
         Precedes(waiters'[l], u, t)
  PROVE  Precedes(waiters[l], u, t)
<1>1. waiters[l] \in Seq(Ticket) /\ Len(waiters[l]) \in Nat
  BY DEF IInv, TypeOK
<1>2. CASE waiters'[l] = waiters[l]
  BY <1>2 DEF Precedes
<1>3. ASSUME NEW v \in Ticket, AcquireQueue(v, l) PROVE Precedes(waiters[l], u, t)
  <2>1. waiters'[l] = Append(waiters[l], v) /\ v # t
    BY <1>3 DEF AcquireQueue, IInv, TypeOK, Queued
  <2>2. PICK i, j \in 1..(Len(waiters[l]) + 1) :
               i < j /\ waiters'[l][i] = u /\ waiters'[l][j] = t
    BY <1>1, <2>1 DEF Precedes
  <2>3. j \in 1..Len(waiters[l]) /\ i \in 1..Len(waiters[l])
    BY <1>1, <2>1, <2>2
  <2> QED
    BY <1>1, <2>1, <2>2, <2>3 DEF Precedes
<1>4. ASSUME NEW v \in Ticket, ReleaseHandOver(v), laneOf[v] = l
      PROVE  Precedes(waiters[l], u, t)
  <2>1. waiters'[l] = Tail(waiters[l]) /\ waiters[l] # <<>>
    BY <1>4 DEF ReleaseHandOver, StillWaiting, IInv, TypeOK
  <2>a. DOMAIN waiters'[l] = 1..(Len(waiters[l]) - 1)
    BY <1>1, <2>1
  <2>2. PICK i, j \in 1..(Len(waiters[l]) - 1) :
               i < j /\ waiters'[l][i] = u /\ waiters'[l][j] = t
    BY <2>a, Zenon DEF Precedes
  <2>3. /\ i + 1 \in 1..Len(waiters[l]) /\ waiters[l][i + 1] = u
        /\ j + 1 \in 1..Len(waiters[l]) /\ waiters[l][j + 1] = t
        /\ i + 1 < j + 1
    BY <1>1, <2>1, <2>2
  <2> QED
    BY <1>1, <2>3 DEF Precedes
<1>5. \/ waiters'[l] = waiters[l]
      \/ \E v \in Ticket : AcquireQueue(v, l)
      \/ \E v \in Ticket : ReleaseHandOver(v) /\ laneOf[v] = l
  <2>1. ASSUME NEW v \in Ticket, NEW k \in Lane, AcquireFast(v, k)
        PROVE  waiters'[l] = waiters[l]
    BY <2>1 DEF AcquireFast
  <2>2. ASSUME NEW v \in Ticket, NEW k \in Lane \ {l}, AcquireQueue(v, k)
        PROVE  waiters'[l] = waiters[l]
    BY <2>2 DEF AcquireQueue, IInv, TypeOK
  <2>3. ASSUME NEW v \in Ticket, Resume(v) \/ ReleaseFree(v) \/ ReleaseAgain(v)
        PROVE  waiters'[l] = waiters[l]
    BY <2>3 DEF Resume, ReleaseFree, ReleaseAgain, vars
  <2>4. ASSUME NEW v \in Ticket, ReleaseHandOver(v), laneOf[v] # l
        PROVE  waiters'[l] = waiters[l]
    BY <2>4 DEF ReleaseHandOver, IInv, TypeOK
  <2> QED
    BY <2>1, <2>2, <2>3, <2>4 DEF Next, Release
<1> QED
  BY <1>2, <1>3, <1>4, <1>5

\* First come, first served on every lane: a new caller never overtakes the
\* queue, and waiters are served in the order in which they queued.
THEOREM FirstComeFirstServed == Spec => NoOvertaking
<1>1. ASSUME IInv, [Next]_vars
      PROVE  [\A l \in Lane : \A t, u \in Ticket : ~Overtakes(u, t, l)]_vars
  <2> SUFFICES ASSUME Next, NEW l \in Lane, NEW t \in Ticket, NEW u \in Ticket,
                      Overtakes(u, t, l)
               PROVE  FALSE
    BY <1>1
  <2>1. /\ waiters[l] \in Seq(Ticket)
        /\ t \in Queued(l)
        /\ ~Precedes(waiters[l], u, t)
    BY <1>1 DEF IInv, TypeOK, Overtakes
  <2>2. CASE u \notin Owners(l) /\ u \in Owners(l)' /\ t \in Queued(l)'
    <3>1. PICK j \in DOMAIN waiters[l] : waiters[l][j] = t
      BY <1>1, <2>1 DEF IInv, QueueMatches
    <3>2. waiters[l] # <<>> /\ u = waiters[l][1]
      BY <1>1, <2>1, <2>2, <3>1, NewOwner
    <3>3. u # t
      BY <2>2 DEF Owners, Queued
    <3>4. 1 < j /\ 1 \in DOMAIN waiters[l]
      BY <2>1, <3>1, <3>2, <3>3
    <3> QED
      BY <2>1, <3>1, <3>2, <3>4 DEF Precedes
  <2>3. CASE Precedes(waiters'[l], u, t)
    BY <1>1, <2>1, <2>3, QueueOrderKept
  <2> QED
    BY <2>2, <2>3 DEF Overtakes
<1> QED
  BY <1>1, Inductive, PTL DEF Spec, NoOvertaking

-----------------------------------------------------------------------------
\* The controller with its counters, closures and two-step wake-ups implements
\* the slot pool callers rely on.
THEOREM ImplementsPool == Spec => PoolSpec
<1> DEFINE O == [l \in Lane |-> Owners(l)]
           Q == [l \in Lane |-> Queued(l)]
<1>1. Init => Pool!Init
  BY DEF Init, Pool!Init, Owners, Queued
<1>2. ASSUME IInv, [Next]_vars PROVE [Pool!Next]_(Pool!vars)
  <2> USE <1>2 DEF IInv
  <2>0. \A l \in Lane : Pool!Full(l) <=> active[l] = Limit[l]
    <3>1. \A S : Pool!Cardinality(S) = Cardinality(S)
      BY DEF Pool!Cardinality, Cardinality
    <3> QED
      BY <3>1 DEF Pool!Full, SlotsAccounted
  <2>1. ASSUME NEW t \in Ticket, NEW l \in Lane, AcquireFast(t, l)
        PROVE  Pool!Enter(t, l)
    <3>1. Pool!Idle(t)
      BY <2>1 DEF AcquireFast, Pool!Idle, Owners, Queued
    <3>2. ~Pool!Full(l)
      BY <2>0, <2>1, CounterTypes DEF AcquireFast
    <3>3. O' = [O EXCEPT ![l] = @ \cup {t}]
      <4>1. \A k \in Lane : Owners(k)' = IF k = l THEN Owners(k) \cup {t} ELSE Owners(k)
        BY <2>1 DEF AcquireFast, Owners, TypeOK
      <4> QED
        BY <4>1, Zenon
    <3>4. Q' = Q
      BY <2>1 DEF AcquireFast, Queued, TypeOK
    <3> QED
      BY <3>1, <3>2, <3>3, <3>4 DEF Pool!Enter
  <2>2. ASSUME NEW t \in Ticket, NEW l \in Lane, AcquireQueue(t, l)
        PROVE  Pool!Ask(t, l)
    <3>1. Pool!Idle(t)
      BY <2>2 DEF AcquireQueue, Pool!Idle, Owners, Queued
    <3>2. Pool!Full(l)
      BY <2>0, <2>2, CounterTypes DEF AcquireQueue, CounterWithinLimit
    <3>3. Q' = [Q EXCEPT ![l] = @ \cup {t}]
      BY <2>2 DEF AcquireQueue, Queued, TypeOK
    <3>4. O' = O
      BY <2>2 DEF AcquireQueue, Owners, TypeOK
    <3> QED
      BY <3>1, <3>2, <3>3, <3>4 DEF Pool!Ask
  <2>3. ASSUME NEW t \in Ticket, Resume(t) PROVE UNCHANGED Pool!vars
    BY <2>3 DEF Resume, Pool!vars, Owners, Queued, TypeOK
  <2>4. ASSUME NEW t \in Ticket, ReleaseHandOver(t)
        PROVE  \E l \in Lane, u \in Ticket : Pool!Pass(t, u, l)
    <3> DEFINE l == laneOf[t]
               u == NextWaiter(l)
    <3>1. l \in Lane /\ waiters[l] \in Seq(Ticket) /\ waiters[l] # <<>>
      BY <2>4 DEF ReleaseHandOver, TypeOK, LaneKnown
    <3>2. u = waiters[l][1] /\ 1 \in DOMAIN waiters[l]
      BY <3>1 DEF NextWaiter
    <3>3. u \in Queued(l) /\ u \in Ticket /\ u # t
      BY <2>4, <3>1, <3>2 DEF QueueMatches, Queued, ReleaseHandOver
    <3>4. t \in Owners(l)
      BY <2>4 DEF ReleaseHandOver, Owners
    <3>5. O' = [O EXCEPT ![l] = (@ \ {t}) \cup {u}]
      BY <2>4, <3>1, <3>3 DEF ReleaseHandOver, Owners, Queued, TypeOK
    <3>6. Q' = [Q EXCEPT ![l] = @ \ {u}]
      BY <2>4, <3>1, <3>3 DEF ReleaseHandOver, Queued, TypeOK
    <3>7. Pool!Pass(t, u, l)
      BY <3>1, <3>3, <3>4, <3>5, <3>6 DEF Pool!Pass
    <3> QED
      BY <3>1, <3>3, <3>7
  <2>5. ASSUME NEW t \in Ticket, ReleaseFree(t)
        PROVE  \E l \in Lane : Pool!Leave(t, l)
    <3> DEFINE l == laneOf[t]
    <3>1. l \in Lane /\ waiters[l] = <<>>
      BY <2>5 DEF ReleaseFree, TypeOK, LaneKnown
    <3>2. Queued(l) = {} /\ t \in Owners(l)
      BY <2>5, <3>1 DEF QueueMatches, ReleaseFree, Owners
    <3>3. O' = [O EXCEPT ![l] = @ \ {t}]
      BY <2>5, <3>1 DEF ReleaseFree, Owners, TypeOK
    <3>4. Q' = Q
      BY <2>5 DEF ReleaseFree, Queued, TypeOK
    <3>5. Pool!Leave(t, l)
      BY <3>1, <3>2, <3>3, <3>4 DEF Pool!Leave
    <3> QED
      BY <3>1, <3>5
  <2>6. ASSUME UNCHANGED vars PROVE UNCHANGED Pool!vars
    BY <2>6 DEF vars, Pool!vars, Owners, Queued
  <2> QED
    BY <2>1, <2>2, <2>3, <2>4, <2>5, <2>6 DEF Next, Release, ReleaseAgain, Pool!Next
<1> QED
  BY <1>1, <1>2, Inductive, PTL DEF Spec, PoolSpec, Pool!Spec
=============================================================================
