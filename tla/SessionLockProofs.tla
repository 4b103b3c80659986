------------------------- MODULE SessionLockProofs -------------------------
(***************************************************************************)
(* Proofs about the session lock, for finitely many messages, any sessions *)
(* and any lane limit.  The lock is the entry of a map that others delete, *)
(* and the waiters hang on the promise of a message and not on the entry:  *)
(* so the invariant ties the two together.  A clear command breaks the tie *)
(* for its session (HolderIsInside), and only this part of it.  Since the  *)
(* handler keeps to the protocol of the chat lane (KeepsToTheLane), what   *)
(* LanesProofs shows of every lane holds of this one.                      *)
(***************************************************************************)
EXTENDS SessionLock, SequenceTheorems, FiniteSetTheorems, TLAPS

\* What the entry of a session says, when there is one.
LockOf(k) == IF session[k] = NoEntry THEN NoMsg ELSE session[k].lock
SuppressOf(k) == IF session[k] = NoEntry THEN NoMsg ELSE session[k].suppress

\* A message is past its lock, or awaits the lock of another.
Past(m) == pc[m] \in {"locked", "run"}
Waits(m) == pc[m] = "lockwait"

\* A message whose promise others may await: it is inside, or it has resolved it
\* and the continuations of those who awaited it are still to run.
Serves(m) == Past(m) \/ pc[m] = "done"

Shape ==
    /\ session \in [Key -> SessionState \cup {NoEntry}]
    /\ key \in [Msg -> Key]
    /\ pc \in [Msg -> {"new", "lane", "lockwait", "locked", "run", "done"}]
    /\ lockQueue \in [Msg -> Seq(Msg)]

\* Whoever is inside a session holds its lock...
HolderIsInside == \A m \in Msg : Past(m) /\ key[m] \notin cleared => LockOf(key[m]) = m

\* ...and who holds a lock is inside its session.
LockIsLive == \A k \in Key : LockOf(k) # NoMsg => Past(LockOf(k)) /\ key[LockOf(k)] = k

\* Whoever waits is in the queue of a message that is or was inside the session,
WaitersQueued ==
    \A w \in Msg : Waits(w) =>
        \E h \in Msg : /\ Serves(h) /\ key[h] = key[w]
                       /\ \E i \in DOMAIN lockQueue[h] : lockQueue[h][i] = w

\* only waiters of its session are in such a queue, each in one place,
QueuesHoldWaiters ==
    /\ \A h \in Msg : \A i \in DOMAIN lockQueue[h] :
          Waits(lockQueue[h][i]) /\ key[lockQueue[h][i]] = key[h]
    /\ \A g, h \in Msg : \A i \in DOMAIN lockQueue[g], j \in DOMAIN lockQueue[h] :
          lockQueue[g][i] = lockQueue[h][j] => g = h /\ i = j

\* and only a message that got its lock has one.
OnlyServersHaveQueues == \A h \in Msg : lockQueue[h] # <<>> => Serves(h)

\* A run writes into an entry that is still in the map.
AttachedLive == \A m \in attached : m \in Msg /\ session[key[m]] # NoEntry

\* Whose reply is suppressed, and who was silent, was aborted for a successor or
\* by the user; the first abort reason stays.
Superseded == {"new-message", "recent-context", "user-stop"}
StopInv ==
    /\ abortedBy \in [Msg -> Superseded \cup {"no", "timeout"}]
    /\ \A k \in Key : SuppressOf(k) # NoMsg => abortedBy[SuppressOf(k)] \in Superseded
    /\ \A m \in Msg : reply[m] = "silent" => abortedBy[m] \in Superseded

LockInv == Shape /\ AttachedLive /\ HolderIsInside /\ LockIsLive /\ WaitersQueued /\ QueuesHoldWaiters
           /\ OnlyServersHaveQueues

-----------------------------------------------------------------------------
\* The entries a session can have after an assignment to one of its fields.
LEMMA Fields ==
    ASSUME NEW e \in SessionState, NEW v \in MsgOrNone
    PROVE  /\ [e EXCEPT !.lock = v] \in SessionState
           /\ [e EXCEPT !.lock = v].lock = v
           /\ [e EXCEPT !.lock = v].suppress = e.suppress
           /\ [e EXCEPT !.ac = v] \in SessionState
           /\ [e EXCEPT !.ac = v].lock = e.lock
           /\ [e EXCEPT !.ac = v].suppress = e.suppress
           /\ [e EXCEPT !.streamed = v] \in SessionState
           /\ [e EXCEPT !.streamed = v].lock = e.lock
           /\ [e EXCEPT !.streamed = v].suppress = e.suppress
           /\ [e EXCEPT !.suppress = v] \in SessionState
           /\ [e EXCEPT !.suppress = v].lock = e.lock
           /\ [e EXCEPT !.suppress = v].suppress = v
    BY DEF SessionState

\* An update of two fields of an entry leaves its lock and its suppression.
LEMMA TwoFields ==
    ASSUME NEW e \in SessionState, NEW v \in MsgOrNone, NEW w \in MsgOrNone
    PROVE  /\ [e EXCEPT !.ac = v, !.pending = w] \in SessionState
           /\ [e EXCEPT !.ac = v, !.pending = w].lock = e.lock
           /\ [e EXCEPT !.ac = v, !.pending = w].suppress = e.suppress
    BY DEF SessionState

\* An interrupt suppresses the run whose controller the entry had.
LEMMA InterruptedType ==
    ASSUME NEW e \in SessionState
    PROVE  /\ Interrupted(e) \in SessionState
           /\ Interrupted(e).lock = e.lock
           /\ Interrupted(e).suppress = e.ac
    BY DEF Interrupted, SessionState

\* What an assignment to the entry of session k does to locks and suppressions.
LEMMA Assigned ==
    ASSUME Shape, NEW k \in Key, NEW STATE e, e \in SessionState \cup {NoEntry},
           session' = [session EXCEPT ![k] = e]
    PROVE  /\ session' \in [Key -> SessionState \cup {NoEntry}]
           /\ session'[k] = e
           /\ \A j \in Key : j # k => session'[j] = session[j]
           /\ LockOf(k)' = IF e = NoEntry THEN NoMsg ELSE e.lock
           /\ SuppressOf(k)' = IF e = NoEntry THEN NoMsg ELSE e.suppress
           /\ \A j \in Key : j # k => LockOf(j)' = LockOf(j) /\ SuppressOf(j)' = SuppressOf(j)
    BY DEF Shape, LockOf, SuppressOf

\* Without an assignment to the map, locks and suppressions stay.
LEMMA Unassigned ==
    ASSUME session' = session
    PROVE  \A k : LockOf(k)' = LockOf(k) /\ SuppressOf(k)' = SuppressOf(k)
    BY DEF LockOf, SuppressOf

\* The entry a session has or is given by getSession.
LEMMA EntryType ==
    ASSUME Shape, NEW k \in Key
    PROVE  /\ Entry(k) \in SessionState /\ Entry(k) # NoEntry
           /\ Entry(k).lock = LockOf(k) /\ Entry(k).suppress = SuppressOf(k)
           /\ LockOf(k) \in MsgOrNone /\ SuppressOf(k) \in MsgOrNone
           /\ session[k] # NoEntry => Entry(k) = session[k]
<1>1. Fresh \in SessionState /\ Fresh.lock = NoMsg /\ Fresh.suppress = NoMsg
    BY DEF Fresh, SessionState, MsgOrNone
<1>2. CASE session[k] = NoEntry
    BY <1>1, <1>2, SessionAssumption DEF Entry, LockOf, SuppressOf, MsgOrNone
<1>3. CASE session[k] # NoEntry
  <2>1. session[k] \in SessionState
    BY <1>3 DEF Shape
  <2> QED
    BY <1>3, <2>1 DEF Entry, LockOf, SuppressOf, SessionState
<1> QED
    BY <1>2, <1>3

\* A step that takes no lock, frees none but a cleared one, and wakes nobody.
LEMMA QuietKeeps ==
    ASSUME LockInv, Shape', AttachedLive', key' = key, lockQueue' = lockQueue,
           cleared \subseteq cleared',
           \A m \in Msg : (Past(m)' <=> Past(m)) /\ (Waits(m)' <=> Waits(m)) /\ (Serves(m) => Serves(m)'),
           \A k \in Key : LockOf(k)' = LockOf(k) \/ (LockOf(k)' = NoMsg /\ k \in cleared')
    PROVE  LockInv'
<1> USE DEF LockInv
<1>1. \A k \in Key : LockOf(k) \in MsgOrNone
    BY EntryType
<1>2. HolderIsInside'
  <2> SUFFICES ASSUME NEW m \in Msg, Past(m)', key[m] \notin cleared' PROVE LockOf(key[m])' = m
    BY DEF HolderIsInside
  <2> QED
    BY DEF HolderIsInside, Shape
<1>3. LockIsLive'
  <2> SUFFICES ASSUME NEW k \in Key, LockOf(k)' # NoMsg
               PROVE  Past(LockOf(k))' /\ key[LockOf(k)'] = k
    BY DEF LockIsLive
  <2>1. LockOf(k)' = LockOf(k) /\ LockOf(k) \in Msg
    BY <1>1 DEF MsgOrNone
  <2>2. Past(LockOf(k)) /\ key[LockOf(k)] = k
    BY <2>1 DEF LockIsLive
  <2> QED
    BY <2>1, <2>2 DEF Past
<1>4. WaitersQueued'
    BY DEF WaitersQueued
<1>5. QueuesHoldWaiters'
  <2>1. \A h \in Msg : \A i \in DOMAIN lockQueue[h] : lockQueue[h][i] \in Msg
    BY DEF Shape
  <2>2. \A h \in Msg : \A i \in DOMAIN lockQueue[h] : Waits(lockQueue[h][i])'
    <3> SUFFICES ASSUME NEW h \in Msg, NEW i \in DOMAIN lockQueue[h] PROVE Waits(lockQueue[h][i])'
        OBVIOUS
    <3>1. PICK w \in Msg : w = lockQueue[h][i]
        BY <2>1
    <3>2. Waits(w)
        BY <3>1 DEF QueuesHoldWaiters
    <3>3. Waits(w)'
        BY <3>2
    <3> QED
        BY <3>1, <3>3 DEF Waits
  <2> QED
    BY <2>2 DEF QueuesHoldWaiters
<1>6. OnlyServersHaveQueues'
    BY DEF OnlyServersHaveQueues
<1> QED
    BY <1>2, <1>3, <1>4, <1>5, <1>6

\* Where a message is, after it moved.
LEMMA Moved ==
    ASSUME Shape, NEW m \in Msg, NEW w \in {"new", "lane", "lockwait", "locked", "run", "done"},
           pc' = [pc EXCEPT ![m] = w]
    PROVE  /\ pc' \in [Msg -> {"new", "lane", "lockwait", "locked", "run", "done"}]
           /\ pc'[m] = w
           /\ \A n \in Msg : n # m => pc'[n] = pc[n]
           /\ Past(m)' <=> w \in {"locked", "run"}
           /\ Waits(m)' <=> w = "lockwait"
           /\ \A n \in Msg : n # m => (Past(n)' <=> Past(n)) /\ (Waits(n)' <=> Waits(n))
    BY DEF Shape, Past, Waits

-----------------------------------------------------------------------------
\* The steps that neither take nor free a lock.
Quiet(m) == Arrive(m) \/ AnswerFromContext(m) \/ LaneGranted(m) \/ StartRun(m) \/ Stream(m)
            \/ Timeout(m)

\* A step of a message that concerns neither its lock nor any queue.
LEMMA QuietStepKeeps == ASSUME LockInv, NEW m \in Msg, Quiet(m) PROVE LockInv'
<1> USE DEF LockInv
<1>0. PICK k \in Key : k = key[m]
    BY DEF Shape
<1>b. \A n \in Msg : pc[n] \in {"new", "lane", "lockwait", "locked", "run", "done"}
    BY DEF Shape
<1>1. key' = key /\ lockQueue' = lockQueue /\ cleared' = cleared
    BY DEF Quiet, Arrive, AnswerFromContext, LaneGranted, StartRun, Stream, Timeout
<1>2. /\ pc' \in [Msg -> {"new", "lane", "lockwait", "locked", "run", "done"}]
      /\ \A n \in Msg : (Past(n)' <=> Past(n)) /\ (Waits(n)' <=> Waits(n)) /\ (Serves(n) => Serves(n)')
  <2>1. ASSUME pc' = pc
        PROVE  /\ pc' \in [Msg -> {"new", "lane", "lockwait", "locked", "run", "done"}]
               /\ \A n \in Msg : (Past(n)' <=> Past(n)) /\ (Waits(n)' <=> Waits(n)) /\ (Serves(n) => Serves(n)')
    BY <2>1 DEF Shape, Past, Waits, Serves
  <2>2. CASE Arrive(m)
    BY <2>2, Moved DEF Arrive, Past, Waits, Serves
  <2>3. CASE AnswerFromContext(m)
    BY <2>3, Moved DEF AnswerFromContext, Past, Waits, Serves
  <2>4. CASE StartRun(m)
    BY <2>4, Moved DEF StartRun, Past, Waits, Serves
  <2>5. CASE LaneGranted(m) \/ Stream(m) \/ Timeout(m)
    BY <2>1, <2>5 DEF LaneGranted, Stream, Timeout
  <2> QED
    BY <2>2, <2>3, <2>4, <2>5 DEF Quiet
<1>3. ASSUME session' = session, attached' = attached
      PROVE  session' \in [Key -> SessionState \cup {NoEntry}] /\ AttachedLive'
             /\ \A j \in Key : LockOf(j)' = LockOf(j)
    BY <1>1, <1>3, Unassigned DEF Shape, AttachedLive
<1>4. ASSUME NEW STATE e, e \in SessionState, e.lock = LockOf(k), session' = [session EXCEPT ![k] = e],
             attached' \subseteq attached \cup {m}
      PROVE  session' \in [Key -> SessionState \cup {NoEntry}] /\ AttachedLive'
             /\ \A j \in Key : LockOf(j)' = LockOf(j)
  <2>1. e # NoEntry
    BY <1>4, SessionAssumption
  <2>2. /\ session' \in [Key -> SessionState \cup {NoEntry}]
        /\ session'[k] = e
        /\ \A j \in Key : j # k => session'[j] = session[j]
        /\ LockOf(k)' = IF e = NoEntry THEN NoMsg ELSE e.lock
        /\ \A j \in Key : j # k => LockOf(j)' = LockOf(j)
    BY <1>4, Assigned
  <2>3. AttachedLive'
    BY <1>0, <1>1, <1>4, <2>1, <2>2 DEF AttachedLive, Shape
  <2> QED
    BY <1>4, <2>1, <2>2, <2>3
<1>5. session' \in [Key -> SessionState \cup {NoEntry}] /\ AttachedLive'
      /\ \A j \in Key : LockOf(j)' = LockOf(j)
  <2>1. CASE Arrive(m) \/ LaneGranted(m) \/ Timeout(m)
    BY <1>3, <2>1 DEF Arrive, LaneGranted, Timeout
  <2>2. CASE AnswerFromContext(m)
    <3>1. CASE session[k] # NoEntry /\ Abortable(Entry(k))
      <4> DEFINE e == [session[k] EXCEPT !.suppress = Entry(k).ac]
      <4>1. session[k] \in SessionState /\ session[k] = Entry(k) /\ session[k].lock = LockOf(k)
        BY <3>1, EntryType
      <4>2. Entry(k).ac \in MsgOrNone
        BY <4>1 DEF SessionState
      <4>3. e \in SessionState /\ e.lock = LockOf(k)
        BY <4>1, <4>2, Fields
      <4>4. session' = [session EXCEPT ![k] = e] /\ attached' = attached
        BY <1>0, <2>2, <3>1 DEF AnswerFromContext
      <4> HIDE DEF e
      <4> QED
        BY <1>4, <4>3, <4>4
    <3>2. CASE ~(session[k] # NoEntry /\ Abortable(Entry(k)))
        BY <1>0, <1>3, <2>2, <3>2 DEF AnswerFromContext
    <3> QED
        BY <3>1, <3>2
  <2>3. CASE StartRun(m)
    <3> DEFINE e == [Entry(k) EXCEPT !.ac = m, !.pending = NoMsg]
    <3>1. Entry(k) \in SessionState /\ Entry(k).lock = LockOf(k) /\ m \in MsgOrNone /\ NoMsg \in MsgOrNone
        BY EntryType DEF MsgOrNone
    <3>3. e \in SessionState /\ e.lock = LockOf(k)
        BY <3>1, TwoFields
    <3>2. session' = [session EXCEPT ![k] = e] /\ attached' = attached \cup {m}
        BY <1>0, <2>3 DEF StartRun
    <3> HIDE DEF e
    <3> QED
        BY <1>4, <3>3, <3>2
  <2>4. CASE Stream(m)
    <3> DEFINE e == [session[k] EXCEPT !.streamed = m]
    <3>1. session[k] # NoEntry /\ session' = [session EXCEPT ![k] = e] /\ attached' = attached
        BY <1>0, <2>4 DEF Stream, AttachedLive
    <3>3. session[k] \in SessionState /\ session[k].lock = LockOf(k) /\ m \in MsgOrNone
        BY <3>1, EntryType DEF MsgOrNone
    <3>2. e \in SessionState /\ e.lock = LockOf(k)
        BY <3>3, Fields
    <3> HIDE DEF e
    <3> QED
        BY <1>4, <3>1, <3>2
  <2> QED
    BY <2>1, <2>2, <2>3, <2>4 DEF Quiet
<1>6. Shape'
    BY <1>1, <1>2, <1>5 DEF Shape
<1> QED
    BY <1>1, <1>2, <1>5, <1>6, QuietKeeps

\* A user's stop, a clear command and the eviction of a stale entry.
LEMMA OutsideKeeps ==
    ASSUME LockInv, NEW k \in Key, StopSession(k) \/ ClearSession(k) \/ EvictStale(k)
    PROVE  LockInv'
<1> USE DEF LockInv
<1>1. /\ key' = key /\ lockQueue' = lockQueue /\ pc' = pc /\ cleared \subseteq cleared'
      /\ \A m \in Msg : (Past(m)' <=> Past(m)) /\ (Waits(m)' <=> Waits(m)) /\ (Serves(m) => Serves(m)')
    BY DEF StopSession, ClearSession, EvictStale, Past, Waits, Serves
<1>2. CASE StopSession(k)
  <2> DEFINE e == [session[k] EXCEPT !.suppress = session[k].ac]
  <2>1. session[k] # NoEntry /\ session' = [session EXCEPT ![k] = e] /\ attached' = attached
    BY <1>2 DEF StopSession
  <2>2. session[k] \in SessionState /\ session[k].lock = LockOf(k)
    BY <2>1, EntryType
  <2>3. session[k].ac \in MsgOrNone
    BY <2>2 DEF SessionState
  <2>4. e \in SessionState \cup {NoEntry} /\ e.lock = LockOf(k) /\ e # NoEntry
    BY <2>2, <2>3, Fields, SessionAssumption
  <2> HIDE DEF e
  <2>5. /\ session' \in [Key -> SessionState \cup {NoEntry}]
        /\ session'[k] = e /\ \A j \in Key : j # k => session'[j] = session[j]
        /\ \A j \in Key : LockOf(j)' = LockOf(j)
    BY <2>1, <2>4, Assigned
  <2>6. AttachedLive'
    BY <1>1, <2>1, <2>4, <2>5 DEF AttachedLive, Shape
  <2> QED
    BY <1>1, <2>5, <2>6, QuietKeeps DEF Shape
<1>3. CASE ClearSession(k) \/ EvictStale(k)
  <2>1. session' = [session EXCEPT ![k] = NoEntry] /\ attached' = {n \in attached : key[n] # k}
    BY <1>3 DEF ClearSession, EvictStale
  <2>2. /\ session' \in [Key -> SessionState \cup {NoEntry}]
        /\ \A j \in Key : j # k => session'[j] = session[j] /\ LockOf(j)' = LockOf(j)
        /\ LockOf(k)' = NoMsg
    BY <2>1, Assigned
  <2>3. k \in cleared' \/ LockOf(k) = NoMsg
    BY <1>3 DEF ClearSession, EvictStale, LockOf
  <2>4. AttachedLive'
    BY <1>1, <2>1, <2>2 DEF AttachedLive, Shape
  <2> QED
    BY <1>1, <2>2, <2>3, <2>4, QuietKeeps DEF Shape
<1> QED
    BY <1>2, <1>3

-----------------------------------------------------------------------------
\* A message takes the lock of a session that is free (`s.lock = lockPromise`):
\* nobody is inside it unless it was cleared.
LEMMA LockTaken ==
    ASSUME LockInv, NEW m \in Msg, NEW k \in Key, k = key[m], ~Past(m), LockOf(k) = NoMsg,
           NEW e \in SessionState, e.lock = m, session' = [session EXCEPT ![k] = e],
           pc' = [pc EXCEPT ![m] = "locked"],
           key' = key, attached' = attached, cleared' = cleared
    PROVE  /\ session' \in [Key -> SessionState \cup {NoEntry}]
           /\ pc' \in [Msg -> {"new", "lane", "lockwait", "locked", "run", "done"}]
           /\ pc'[m] = "locked" /\ \A n \in Msg : n # m => pc'[n] = pc[n]
           /\ AttachedLive' /\ HolderIsInside' /\ LockIsLive'
<1> USE DEF LockInv
<1>1. e \in SessionState \cup {NoEntry} /\ e # NoEntry
    BY SessionAssumption
<1>2. /\ session' \in [Key -> SessionState \cup {NoEntry}]
      /\ session'[k] # NoEntry /\ LockOf(k)' = m
      /\ \A j \in Key : j # k => session'[j] = session[j] /\ LockOf(j)' = LockOf(j)
    BY <1>1, Assigned
<1>3. /\ pc' \in [Msg -> {"new", "lane", "lockwait", "locked", "run", "done"}]
      /\ pc'[m] = "locked" /\ Past(m)'
      /\ \A n \in Msg : n # m => pc'[n] = pc[n] /\ (Past(n)' <=> Past(n))
    BY Moved
<1>4. AttachedLive'
    BY <1>2 DEF Shape, AttachedLive
<1>5. HolderIsInside'
  <2> SUFFICES ASSUME NEW n \in Msg, Past(n)', key[n] \notin cleared PROVE LockOf(key[n])' = n
    BY DEF HolderIsInside
  <2>1. CASE n = m
    BY <1>2, <2>1
  <2>2. CASE n # m
    <3>1. Past(n) /\ LockOf(key[n]) = n
        BY <1>3, <2>2 DEF HolderIsInside
    <3>2. PICK j \in Key : j = key[n]
        BY DEF Shape
    <3>3. j # k
        BY <3>1, <3>2, SessionAssumption
    <3>4. LockOf(j)' = n
        BY <1>2, <3>1, <3>2, <3>3
    <3> QED
        BY <3>2, <3>4 DEF LockOf
  <2> QED
    BY <2>1, <2>2
<1>6. LockIsLive'
  <2> SUFFICES ASSUME NEW j \in Key, LockOf(j)' # NoMsg
               PROVE  Past(LockOf(j))' /\ key[LockOf(j)'] = j
    BY DEF LockIsLive
  <2>1. CASE j = k
    BY <1>2, <1>3, <2>1 DEF Past
  <2>2. CASE j # k
    <3>1. LockOf(j)' = LockOf(j) /\ LockOf(j) \in Msg
        BY <1>2, <2>2, EntryType DEF MsgOrNone
    <3>2. Past(LockOf(j)) /\ key[LockOf(j)] = j
        BY <3>1 DEF LockIsLive
    <3>3. pc'[LockOf(j)] = pc[LockOf(j)]
        BY <1>3, <2>2, <3>1, <3>2
    <3> QED
        BY <3>1, <3>2, <3>3 DEF Past
  <2> QED
    BY <2>1, <2>2
<1> QED
    BY <1>2, <1>3, <1>4, <1>5, <1>6

\* A message that comes to the lock itself and finds it free.
LEMMA LockFreeKeeps == ASSUME LockInv, NEW m \in Msg, LockFree(m) PROVE LockInv'
<1> USE DEF LockInv
<1>1. PICK k \in Key : k = key[m]
    BY DEF Shape
<1>2. PICK e : e = [Entry(k) EXCEPT !.lock = m]
    OBVIOUS
<1>3. /\ pc[m] = "lane" /\ LockOf(k) = NoMsg
      /\ session' = [session EXCEPT ![k] = e]
      /\ pc' = [pc EXCEPT ![m] = "locked"]
      /\ key' = key /\ lockQueue' = lockQueue /\ attached' = attached /\ cleared' = cleared
    BY <1>1, <1>2, EntryType DEF LockFree
<1>4. e \in SessionState /\ e.lock = m
  <2>1. m \in MsgOrNone /\ Entry(k) \in SessionState
    BY EntryType DEF MsgOrNone
  <2> QED
    BY <1>2, <2>1, Fields
<1>5. ~Past(m) /\ ~Waits(m) /\ ~Serves(m)
    BY <1>3 DEF Past, Waits, Serves
<1>6. /\ session' \in [Key -> SessionState \cup {NoEntry}]
      /\ pc' \in [Msg -> {"new", "lane", "lockwait", "locked", "run", "done"}]
      /\ pc'[m] = "locked" /\ \A n \in Msg : n # m => pc'[n] = pc[n]
      /\ AttachedLive' /\ HolderIsInside' /\ LockIsLive'
    BY <1>1, <1>3, <1>4, <1>5, LockTaken
<1>7. Shape'
    BY <1>3, <1>6 DEF Shape
<1>8. WaitersQueued'
  <2> SUFFICES ASSUME NEW w \in Msg, Waits(w)'
               PROVE  \E h \in Msg : /\ Serves(h)' /\ key[h] = key[w]
                                     /\ \E i \in DOMAIN lockQueue[h] : lockQueue[h][i] = w
    BY <1>3 DEF WaitersQueued
  <2>1. Waits(w)
    BY <1>6 DEF Waits
  <2>2. PICK h \in Msg : /\ Serves(h) /\ key[h] = key[w]
                        /\ \E i \in DOMAIN lockQueue[h] : lockQueue[h][i] = w
    BY <2>1 DEF WaitersQueued
  <2>3. Serves(h)'
    BY <1>5, <1>6, <2>2 DEF Serves, Past
  <2> QED
    BY <2>2, <2>3
<1>9. QueuesHoldWaiters'
  <2>1. \A h \in Msg : \A i \in DOMAIN lockQueue[h] : lockQueue[h][i] \in Msg /\ lockQueue[h][i] # m
    BY <1>5 DEF Shape, QueuesHoldWaiters
  <2>2. \A h \in Msg : \A i \in DOMAIN lockQueue[h] : pc'[lockQueue[h][i]] = "lockwait"
    BY <1>6, <2>1 DEF QueuesHoldWaiters, Waits
  <2> QED
    BY <1>3, <2>2 DEF QueuesHoldWaiters, Waits
<1>10. OnlyServersHaveQueues'
    BY <1>3, <1>5, <1>6 DEF OnlyServersHaveQueues, Serves, Past
<1> QED
    BY <1>6, <1>7, <1>8, <1>9, <1>10

\* The session is busy: the message joins the queue of whoever holds the lock.
LEMMA LockBusyKeeps == ASSUME LockInv, NEW m \in Msg, LockBusy(m) PROVE LockInv'
<1> USE DEF LockInv
<1>1. PICK k \in Key : k = key[m]
    BY DEF Shape
<1>2. PICK h \in Msg : h = LockOf(k) /\ Entry(k).lock = h
    BY <1>1, EntryType DEF LockBusy, MsgOrNone
<1>3. /\ pc[m] = "lane" /\ h # NoMsg
      /\ lockQueue' = [lockQueue EXCEPT ![h] = Append(lockQueue[h], m)]
      /\ pc' = [pc EXCEPT ![m] = "lockwait"]
      /\ key' = key /\ attached' = attached /\ cleared' = cleared
    BY <1>1, <1>2 DEF LockBusy
<1>4. Past(h) /\ key[h] = k /\ h # m
    BY <1>2, <1>3 DEF LockIsLive, Past
<1>5. session[k] # NoEntry /\ Entry(k) = session[k]
    BY <1>2, <1>3, EntryType DEF LockOf
<1>6. /\ session' \in [Key -> SessionState \cup {NoEntry}]
      /\ \A j \in Key : LockOf(j)' = LockOf(j) /\ (session[j] # NoEntry => session'[j] # NoEntry)
  <2>1. CASE Interrupts(Entry(k))
    <3> DEFINE e == Interrupted(Entry(k))
    <3>1. Entry(k) \in SessionState /\ Entry(k).lock = LockOf(k)
        BY EntryType
    <3>3. e \in SessionState /\ e.lock = Entry(k).lock
        BY <3>1, InterruptedType
    <3>4. session' = [session EXCEPT ![k] = e]
        BY <1>1, <2>1 DEF LockBusy
    <3> HIDE DEF e
    <3>5. e \in SessionState \cup {NoEntry} /\ e # NoEntry /\ e.lock = LockOf(k)
        BY <3>1, <3>3, SessionAssumption
    <3>6. /\ session' \in [Key -> SessionState \cup {NoEntry}]
          /\ session'[k] = e
          /\ \A j \in Key : j # k => session'[j] = session[j]
          /\ LockOf(k)' = IF e = NoEntry THEN NoMsg ELSE e.lock
          /\ \A j \in Key : j # k => LockOf(j)' = LockOf(j) /\ SuppressOf(j)' = SuppressOf(j)
        BY <3>4, <3>5, Assigned
    <3> QED
        BY <3>5, <3>6
  <2>2. CASE ~Interrupts(Entry(k))
    <3>1. session' = session
        BY <1>1, <2>2 DEF LockBusy
    <3> QED
        BY <3>1, Unassigned DEF Shape
  <2> QED
    BY <2>1, <2>2
<1>7. /\ pc' \in [Msg -> {"new", "lane", "lockwait", "locked", "run", "done"}]
      /\ ~Past(m)' /\ Waits(m)' /\ ~Past(m) /\ ~Waits(m)
      /\ \A n \in Msg : n # m => pc'[n] = pc[n] /\ (Past(n)' <=> Past(n)) /\ (Waits(n)' <=> Waits(n))
    BY <1>3, Moved DEF Past, Waits
<1>8. /\ lockQueue' \in [Msg -> Seq(Msg)]
      /\ \A g \in Msg : g # h => lockQueue'[g] = lockQueue[g]
      /\ lockQueue[h] \in Seq(Msg) /\ lockQueue'[h] \in Seq(Msg)
      /\ DOMAIN lockQueue[h] = 1..Len(lockQueue[h]) /\ Len(lockQueue[h]) \in Nat
      /\ DOMAIN lockQueue'[h] = 1..(Len(lockQueue[h]) + 1)
      /\ \A i \in 1..Len(lockQueue[h]) : lockQueue'[h][i] = lockQueue[h][i]
      /\ lockQueue'[h][Len(lockQueue[h]) + 1] = m
    BY <1>3 DEF Shape
<1>9. Shape' /\ AttachedLive'
    BY <1>3, <1>6, <1>7, <1>8 DEF Shape, AttachedLive
<1>10. HolderIsInside'
  <2> SUFFICES ASSUME NEW n \in Msg, Past(n)', key[n] \notin cleared PROVE LockOf(key[n])' = n
    BY <1>3 DEF HolderIsInside
  <2>1. Past(n) /\ LockOf(key[n]) = n
    BY <1>7 DEF HolderIsInside
  <2>2. PICK j \in Key : j = key[n]
    BY DEF Shape
  <2>3. LockOf(j)' = n
    BY <1>6, <2>1, <2>2
  <2> QED
    BY <1>3, <2>2, <2>3 DEF LockOf
<1>11. LockIsLive'
  <2> SUFFICES ASSUME NEW j \in Key, LockOf(j)' # NoMsg
               PROVE  Past(LockOf(j))' /\ key[LockOf(j)'] = j
    BY <1>3 DEF LockIsLive
  <2>1. LockOf(j)' = LockOf(j) /\ LockOf(j) \in Msg
    BY <1>6, EntryType DEF MsgOrNone
  <2>2. Past(LockOf(j)) /\ key[LockOf(j)] = j
    BY <2>1 DEF LockIsLive
  <2>3. pc'[LockOf(j)] = pc[LockOf(j)]
    BY <1>3, <1>7, <2>1, <2>2 DEF Shape
  <2> QED
    BY <2>1, <2>2, <2>3 DEF Past
<1>12. WaitersQueued'
  <2> SUFFICES ASSUME NEW w \in Msg, Waits(w)'
               PROVE  \E g \in Msg : /\ Serves(g)' /\ key[g] = key[w]
                                     /\ \E i \in DOMAIN lockQueue'[g] : lockQueue'[g][i] = w
    BY <1>3 DEF WaitersQueued
  <2>1. CASE w = m
    <3>1. Serves(h)' /\ key[h] = key[w]
        BY <1>1, <1>4, <1>7, <2>1 DEF Serves
    <3>2. Len(lockQueue[h]) + 1 \in DOMAIN lockQueue'[h] /\ lockQueue'[h][Len(lockQueue[h]) + 1] = w
        BY <1>8, <2>1
    <3> QED
        BY <3>1, <3>2
  <2>2. CASE w # m
    <3>1. PICK g \in Msg : /\ Serves(g) /\ key[g] = key[w]
                          /\ \E i \in DOMAIN lockQueue[g] : lockQueue[g][i] = w
        BY <1>7, <2>2 DEF WaitersQueued
    <3>2. Serves(g)'
        BY <1>3, <1>7, <3>1 DEF Serves, Past
    <3>3. \E i \in DOMAIN lockQueue'[g] : lockQueue'[g][i] = w
      <4>1. PICK i \in DOMAIN lockQueue[g] : lockQueue[g][i] = w
        BY <3>1
      <4>2. i \in DOMAIN lockQueue'[g] /\ lockQueue'[g][i] = w
        <5>1. CASE g = h
          <6>1. i \in 1..Len(lockQueue[h]) /\ lockQueue[h][i] = w
            BY <1>8, <4>1, <5>1
          <6>2. i \in 1..(Len(lockQueue[h]) + 1)
            BY <1>8, <6>1
          <6> QED
            BY <1>8, <5>1, <6>1, <6>2
        <5>2. CASE g # h
            BY <1>8, <4>1, <5>2
        <5> QED
            BY <5>1, <5>2
      <4> QED
        BY <4>2
    <3> QED
        BY <3>1, <3>2, <3>3
  <2> QED
    BY <2>1, <2>2
<1>13. QueuesHoldWaiters'
  <2>1. \A g \in Msg : \A i \in DOMAIN lockQueue[g] :
            /\ lockQueue[g][i] \in Msg /\ lockQueue[g][i] # m
            /\ pc[lockQueue[g][i]] = "lockwait" /\ key[lockQueue[g][i]] = key[g]
    BY <1>7 DEF Shape, QueuesHoldWaiters, Waits
  <2>2. \A g \in Msg : \A i \in DOMAIN lockQueue'[g] :
            \/ i \in DOMAIN lockQueue[g] /\ lockQueue'[g][i] = lockQueue[g][i]
            \/ g = h /\ i = Len(lockQueue[h]) + 1 /\ lockQueue'[g][i] = m
    <3>1. ASSUME NEW i \in DOMAIN lockQueue'[h]
          PROVE  \/ i \in DOMAIN lockQueue[h] /\ lockQueue'[h][i] = lockQueue[h][i]
                 \/ i = Len(lockQueue[h]) + 1 /\ lockQueue'[h][i] = m
      <4>1. i \in 1..Len(lockQueue[h]) \/ i = Len(lockQueue[h]) + 1
        BY <1>8
      <4> QED
        BY <1>8, <4>1
    <3> QED
        BY <1>8, <3>1
  <2>3. \A g \in Msg : \A i \in DOMAIN lockQueue'[g] :
            pc'[lockQueue'[g][i]] = "lockwait" /\ key[lockQueue'[g][i]] = key[g]
    BY <1>1, <1>3, <1>4, <2>1, <2>2 DEF Shape
  <2>4. \A f, g \in Msg : \A i \in DOMAIN lockQueue'[f], j \in DOMAIN lockQueue'[g] :
            lockQueue'[f][i] = lockQueue'[g][j] => f = g /\ i = j
    BY <2>1, <2>2 DEF QueuesHoldWaiters
  <2> QED
    BY <1>3, <2>3, <2>4 DEF QueuesHoldWaiters, Waits
<1>14. OnlyServersHaveQueues'
    BY <1>3, <1>4, <1>7, <1>8 DEF OnlyServersHaveQueues, Serves, Past
<1> QED
    BY <1>9, <1>10, <1>11, <1>12, <1>13, <1>14

-----------------------------------------------------------------------------
\* The first of the messages that awaited the promise of m, and the others.
LEMMA FirstOfQueue ==
    ASSUME LockInv, NEW m \in Msg, lockQueue[m] # <<>>
    PROVE  \E q \in Seq(Msg), w \in Msg, t \in Seq(Msg) :
             /\ q = lockQueue[m] /\ w = Head(q) /\ t = Tail(q)
             /\ Len(q) \in Nat /\ 1 \in DOMAIN q /\ w = q[1] /\ DOMAIN q = 1..Len(q)
             /\ DOMAIN t = 1..(Len(q) - 1)
             /\ \A i \in 1..(Len(q) - 1) : t[i] = q[i + 1]
             /\ Waits(w) /\ key[w] = key[m] /\ w # m /\ lockQueue[w] = <<>>
<1>1. PICK q \in Seq(Msg) : q = lockQueue[m]
    BY DEF LockInv, Shape
<1>2. /\ Len(q) \in Nat /\ 1 \in DOMAIN q /\ DOMAIN q = 1..Len(q)
      /\ Head(q) \in Msg /\ Head(q) = q[1]
      /\ Tail(q) \in Seq(Msg) /\ DOMAIN Tail(q) = 1..(Len(q) - 1)
      /\ \A i \in 1..(Len(q) - 1) : Tail(q)[i] = q[i + 1]
    BY <1>1
<1>3. PICK w \in Msg : w = Head(q)
    BY <1>2
<1>4. Waits(w) /\ key[w] = key[m]
    BY <1>1, <1>2, <1>3 DEF LockInv, QueuesHoldWaiters
<1>5. ~Serves(w) /\ Serves(m)
    BY <1>4 DEF LockInv, OnlyServersHaveQueues, Serves, Past, Waits
<1>6. w # m /\ lockQueue[w] = <<>>
    BY <1>5 DEF LockInv, OnlyServersHaveQueues
<1> QED
    BY <1>1, <1>2, <1>3, <1>4, <1>6

\* Who is in which place of which queue.
LEMMA PlacesOfQueues ==
    ASSUME LockInv
    PROVE  /\ \A h \in Msg : \A i \in DOMAIN lockQueue[h] :
                /\ lockQueue[h][i] \in Msg
                /\ pc[lockQueue[h][i]] = "lockwait" /\ key[lockQueue[h][i]] = key[h]
           /\ \A g, h \in Msg : \A i \in DOMAIN lockQueue[g], j \in DOMAIN lockQueue[h] :
                lockQueue[g][i] = lockQueue[h][j] => g = h /\ i = j
    BY DEF LockInv, Shape, QueuesHoldWaiters, Waits

\* The continuation of a message that awaited m finds the session free.
LEMMA WakeFreeKeeps == ASSUME LockInv, NEW m \in Msg, WakeFree(m) PROVE LockInv'
<1> USE DEF LockInv
<1>1. pc[m] = "done" /\ lockQueue[m] # <<>>
    BY DEF WakeFree
<1>2. PICK q \in Seq(Msg), w \in Msg, t \in Seq(Msg) :
        /\ q = lockQueue[m] /\ w = Head(q) /\ t = Tail(q)
        /\ Len(q) \in Nat /\ 1 \in DOMAIN q /\ w = q[1] /\ DOMAIN q = 1..Len(q)
        /\ DOMAIN t = 1..(Len(q) - 1)
        /\ \A i \in 1..(Len(q) - 1) : t[i] = q[i + 1]
        /\ Waits(w) /\ key[w] = key[m] /\ w # m /\ lockQueue[w] = <<>>
    BY <1>1, FirstOfQueue
<1>3. PICK k \in Key : k = key[w]
    BY DEF Shape
<1>4. PICK e : e = [Entry(k) EXCEPT !.lock = w]
    OBVIOUS
<1>5. /\ LockOf(k) = NoMsg
      /\ session' = [session EXCEPT ![k] = e]
      /\ lockQueue' = [lockQueue EXCEPT ![m] = t]
      /\ pc' = [pc EXCEPT ![w] = "locked"]
      /\ key' = key /\ attached' = attached /\ cleared' = cleared
    BY <1>2, <1>3, <1>4, EntryType DEF WakeFree
<1>6. e \in SessionState /\ e.lock = w
  <2>1. w \in MsgOrNone /\ Entry(k) \in SessionState
    BY EntryType DEF MsgOrNone
  <2> QED
    BY <1>4, <2>1, Fields
<1>7. ~Past(w) /\ ~Serves(w) /\ pc[w] = "lockwait"
    BY <1>2 DEF Past, Waits, Serves
<1>8. /\ session' \in [Key -> SessionState \cup {NoEntry}]
      /\ pc' \in [Msg -> {"new", "lane", "lockwait", "locked", "run", "done"}]
      /\ pc'[w] = "locked" /\ \A n \in Msg : n # w => pc'[n] = pc[n]
      /\ AttachedLive' /\ HolderIsInside' /\ LockIsLive'
    BY <1>3, <1>5, <1>6, <1>7, LockTaken
<1>9. /\ lockQueue' \in [Msg -> Seq(Msg)]
      /\ lockQueue'[m] = t /\ \A h \in Msg : h # m => lockQueue'[h] = lockQueue[h]
    BY <1>5 DEF Shape
<1>10. Shape'
    BY <1>5, <1>8, <1>9 DEF Shape
<1>11. WaitersQueued'
  <2> SUFFICES ASSUME NEW n \in Msg, Waits(n)'
               PROVE  \E h \in Msg : /\ Serves(h)' /\ key[h] = key[n]
                                     /\ \E i \in DOMAIN lockQueue'[h] : lockQueue'[h][i] = n
    BY <1>5 DEF WaitersQueued
  <2>1. n # w /\ Waits(n)
    BY <1>8 DEF Waits
  <2>2. PICK h \in Msg : /\ Serves(h) /\ key[h] = key[n]
                        /\ \E i \in DOMAIN lockQueue[h] : lockQueue[h][i] = n
    BY <2>1 DEF WaitersQueued
  <2>3. Serves(h)'
    BY <1>7, <1>8, <2>2 DEF Serves, Past
  <2>4. \E i \in DOMAIN lockQueue'[h] : lockQueue'[h][i] = n
    <3>1. CASE h = m
      <4>1. PICK i \in 1..Len(q) : q[i] = n
        BY <1>2, <2>2, <3>1
      <4>2. i # 1
        BY <1>2, <2>1, <4>1
      <4>3. i - 1 \in 1..(Len(q) - 1) /\ (i - 1) + 1 = i
        BY <1>2, <4>1, <4>2
      <4>4. t[i - 1] = n
        BY <1>2, <4>1, <4>3
      <4> QED
        BY <1>2, <1>9, <3>1, <4>3, <4>4
    <3>2. CASE h # m
        BY <1>9, <2>2, <3>2
    <3> QED
        BY <3>1, <3>2
  <2> QED
    BY <2>2, <2>3, <2>4
\* Where an element of a queue was before: its place, or one behind it.
<1>12. \A h \in Msg : \A i \in DOMAIN lockQueue'[h] :
         \/ h # m /\ i \in DOMAIN lockQueue[h] /\ lockQueue'[h][i] = lockQueue[h][i]
         \/ h = m /\ i \in Nat /\ i # 0 /\ i + 1 \in DOMAIN lockQueue[m]
                  /\ lockQueue'[h][i] = lockQueue[m][i + 1]
  <2>1. ASSUME NEW i \in DOMAIN t
        PROVE  i \in Nat /\ i # 0 /\ i + 1 \in 1..Len(q) /\ t[i] = q[i + 1]
    BY <1>2
  <2> QED
    BY <1>2, <1>9, <2>1
<1>13. QueuesHoldWaiters'
  <2>1. \A h \in Msg : \A i \in DOMAIN lockQueue'[h] :
            pc'[lockQueue'[h][i]] = "lockwait" /\ key[lockQueue'[h][i]] = key[h]
    <3> SUFFICES ASSUME NEW h \in Msg, NEW i \in DOMAIN lockQueue'[h]
                 PROVE  pc'[lockQueue'[h][i]] = "lockwait" /\ key[lockQueue'[h][i]] = key[h]
        OBVIOUS
    <3>1. PICK j \in DOMAIN lockQueue[h] : lockQueue'[h][i] = lockQueue[h][j] /\ ~(h = m /\ j = 1)
      <4>1. CASE h # m
        BY <1>12, <4>1
      <4>2. CASE h = m
        <5>1. i \in Nat /\ i # 0 /\ i + 1 \in DOMAIN lockQueue[m] /\ lockQueue'[h][i] = lockQueue[m][i + 1]
            BY <1>12, <4>2
        <5>2. i + 1 # 1
            BY <5>1
        <5> QED
            BY <4>2, <5>1, <5>2
      <4> QED
        BY <4>1, <4>2
    <3>2. lockQueue[h][j] \in Msg /\ pc[lockQueue[h][j]] = "lockwait" /\ key[lockQueue[h][j]] = key[h]
        BY PlacesOfQueues
    <3>3. lockQueue[h][j] # w
        BY <1>2, <3>1, PlacesOfQueues
    <3> QED
        BY <1>8, <3>1, <3>2, <3>3
  <2>2. ASSUME NEW g \in Msg, NEW h \in Msg, NEW i \in DOMAIN lockQueue'[g],
               NEW j \in DOMAIN lockQueue'[h], lockQueue'[g][i] = lockQueue'[h][j]
        PROVE  g = h /\ i = j
    BY <1>12, <2>2, PlacesOfQueues
  <2> QED
    BY <1>5, <2>1, <2>2 DEF QueuesHoldWaiters, Waits
<1>14. OnlyServersHaveQueues'
    BY <1>1, <1>2, <1>7, <1>8, <1>9 DEF OnlyServersHaveQueues, Serves, Past
<1> QED
    BY <1>8, <1>10, <1>11, <1>13, <1>14

\* It finds the session taken: it awaits whoever has it now.
LEMMA WakeBusyKeeps == ASSUME LockInv, NEW m \in Msg, WakeBusy(m) PROVE LockInv'
<1> USE DEF LockInv
<1>1. pc[m] = "done" /\ lockQueue[m] # <<>>
    BY DEF WakeBusy
<1>2. PICK q \in Seq(Msg), w \in Msg, t \in Seq(Msg) :
        /\ q = lockQueue[m] /\ w = Head(q) /\ t = Tail(q)
        /\ Len(q) \in Nat /\ 1 \in DOMAIN q /\ w = q[1] /\ DOMAIN q = 1..Len(q)
        /\ DOMAIN t = 1..(Len(q) - 1)
        /\ \A i \in 1..(Len(q) - 1) : t[i] = q[i + 1]
        /\ Waits(w) /\ key[w] = key[m] /\ w # m /\ lockQueue[w] = <<>>
    BY <1>1, FirstOfQueue
<1>3. PICK k \in Key : k = key[w]
    BY DEF Shape
<1>4. PICK h \in Msg : h = LockOf(k) /\ Entry(k).lock = h /\ h # NoMsg
    BY <1>2, <1>3, EntryType DEF WakeBusy, MsgOrNone
<1>5. Past(h) /\ key[h] = k /\ h # m
    BY <1>1, <1>4 DEF LockIsLive, Past
<1>6. PICK p \in Seq(Msg) : p = lockQueue[h]
    BY DEF Shape
<1>7. /\ lockQueue' = [lockQueue EXCEPT ![m] = t, ![h] = Append(p, w)]
      /\ session' = session /\ pc' = pc /\ key' = key /\ attached' = attached /\ cleared' = cleared
    BY <1>2, <1>3, <1>4, <1>5, <1>6 DEF WakeBusy
<1>8. /\ lockQueue' \in [Msg -> Seq(Msg)]
      /\ lockQueue'[m] = t /\ lockQueue'[h] = Append(p, w)
      /\ \A g \in Msg : g # m /\ g # h => lockQueue'[g] = lockQueue[g]
  <2>0. Append(p, w) \in Seq(Msg)
    OBVIOUS
  <2>1. PICK a \in Seq(Msg) : a = Append(p, w)
    BY <2>0
  <2>2. lockQueue' = [lockQueue EXCEPT ![m] = t, ![h] = a] /\ lockQueue \in [Msg -> Seq(Msg)]
    BY <1>7, <2>1 DEF Shape
  <2> QED
    BY <1>5, <2>1, <2>2
<1>9. /\ Len(p) \in Nat /\ DOMAIN p = 1..Len(p)
      /\ DOMAIN Append(p, w) = 1..(Len(p) + 1)
      /\ \A i \in 1..Len(p) : Append(p, w)[i] = p[i]
      /\ Append(p, w)[Len(p) + 1] = w
    OBVIOUS
<1>10. Shape' /\ AttachedLive' /\ HolderIsInside' /\ LockIsLive'
    BY <1>7, <1>8 DEF Shape, AttachedLive, HolderIsInside, LockIsLive, LockOf, Past
<1>11. WaitersQueued'
  <2>0. \A n \in Msg : (Waits(n)' <=> Waits(n)) /\ (Serves(n)' <=> Serves(n))
    BY <1>7 DEF Waits, Serves, Past
  <2> SUFFICES ASSUME NEW n \in Msg, Waits(n)
               PROVE  \E g \in Msg : /\ Serves(g) /\ key[g] = key[n]
                                     /\ \E i \in DOMAIN lockQueue'[g] : lockQueue'[g][i] = n
    BY <1>7, <2>0 DEF WaitersQueued
  <2>1. CASE n = w
    <3>1. Len(p) + 1 \in DOMAIN lockQueue'[h] /\ lockQueue'[h][Len(p) + 1] = n
        BY <1>8, <1>9, <2>1
    <3> QED
        BY <1>3, <1>5, <2>1, <3>1 DEF Serves
  <2>2. CASE n # w
    <3>1. PICK g \in Msg : /\ Serves(g) /\ key[g] = key[n]
                          /\ \E i \in DOMAIN lockQueue[g] : lockQueue[g][i] = n
        BY DEF WaitersQueued
    <3>2. \E i \in DOMAIN lockQueue'[g] : lockQueue'[g][i] = n
      <4>1. CASE g = m
        <5>1. PICK i \in 1..Len(q) : q[i] = n
            BY <1>2, <3>1, <4>1
        <5>2. i # 1
            BY <1>2, <2>2, <5>1
        <5>3. i - 1 \in 1..(Len(q) - 1) /\ (i - 1) + 1 = i
            BY <1>2, <5>1, <5>2
        <5>4. t[i - 1] = n
            BY <1>2, <5>1, <5>3
        <5> QED
            BY <1>2, <1>8, <4>1, <5>3, <5>4
      <4>2. CASE g = h
        <5>1. PICK i \in 1..Len(p) : p[i] = n
            BY <1>6, <1>9, <3>1, <4>2
        <5>2. i \in 1..(Len(p) + 1) /\ Append(p, w)[i] = n
            BY <1>9, <5>1
        <5> QED
            BY <1>8, <1>9, <4>2, <5>2
      <4>3. CASE g # m /\ g # h
        BY <1>8, <3>1, <4>3
      <4> QED
        BY <4>1, <4>2, <4>3
    <3> QED
        BY <3>1, <3>2
  <2> QED
    BY <2>1, <2>2
\* Where an element of a queue was before.
<1>12. \A g \in Msg : \A i \in DOMAIN lockQueue'[g] :
         \/ g # m /\ i \in DOMAIN lockQueue[g] /\ lockQueue'[g][i] = lockQueue[g][i]
         \/ g = m /\ i \in Nat /\ i # 0 /\ i + 1 \in DOMAIN lockQueue[m]
                  /\ lockQueue'[g][i] = lockQueue[m][i + 1]
         \/ g = h /\ i = Len(p) + 1 /\ lockQueue'[g][i] = lockQueue[m][1]
  <2>1. ASSUME NEW i \in DOMAIN t
        PROVE  i \in Nat /\ i # 0 /\ i + 1 \in 1..Len(q) /\ t[i] = q[i + 1]
    BY <1>2
  <2>2. ASSUME NEW i \in DOMAIN Append(p, w)
        PROVE  \/ i \in DOMAIN p /\ Append(p, w)[i] = p[i]
               \/ i = Len(p) + 1 /\ Append(p, w)[i] = q[1]
    <3>1. i \in 1..Len(p) \/ i = Len(p) + 1
        BY <1>9
    <3> QED
        BY <1>2, <1>9, <3>1
  <2>3. ASSUME NEW g \in Msg, NEW i \in DOMAIN lockQueue'[g]
        PROVE  \/ g # m /\ i \in DOMAIN lockQueue[g] /\ lockQueue'[g][i] = lockQueue[g][i]
               \/ g = m /\ i \in Nat /\ i # 0 /\ i + 1 \in DOMAIN lockQueue[m]
                        /\ lockQueue'[g][i] = lockQueue[m][i + 1]
               \/ g = h /\ i = Len(p) + 1 /\ lockQueue'[g][i] = lockQueue[m][1]
    <3>1. CASE g = m
        BY <1>2, <1>8, <2>1, <3>1
    <3>2. CASE g = h
        BY <1>2, <1>5, <1>6, <1>8, <2>2, <3>2
    <3>3. CASE g # m /\ g # h
        BY <1>8, <3>3
    <3> QED
        BY <3>1, <3>2, <3>3
  <2> QED
    BY <2>3
<1>13. QueuesHoldWaiters'
  <2>1. \A g \in Msg : \A i \in DOMAIN lockQueue'[g] :
            pc[lockQueue'[g][i]] = "lockwait" /\ key[lockQueue'[g][i]] = key[g]
    <3> SUFFICES ASSUME NEW g \in Msg, NEW i \in DOMAIN lockQueue'[g]
                 PROVE  pc[lockQueue'[g][i]] = "lockwait" /\ key[lockQueue'[g][i]] = key[g]
        OBVIOUS
    <3>1. \/ \E j \in DOMAIN lockQueue[g] : lockQueue'[g][i] = lockQueue[g][j]
          \/ g = h /\ lockQueue'[g][i] = w
        BY <1>2, <1>12
    <3>2. CASE \E j \in DOMAIN lockQueue[g] : lockQueue'[g][i] = lockQueue[g][j]
        BY <3>2, PlacesOfQueues
    <3>3. CASE g = h /\ lockQueue'[g][i] = w
        BY <1>2, <1>3, <1>5, <3>3 DEF Waits
    <3> QED
        BY <3>1, <3>2, <3>3
  <2>2. ASSUME NEW f \in Msg, NEW g \in Msg, NEW i \in DOMAIN lockQueue'[f],
               NEW j \in DOMAIN lockQueue'[g], lockQueue'[f][i] = lockQueue'[g][j]
        PROVE  f = g /\ i = j
    <3>1. \A x, y \in Msg : \A c \in DOMAIN lockQueue[x], d \in DOMAIN lockQueue[y] :
              lockQueue[x][c] = lockQueue[y][d] => x = y /\ c = d
        BY PlacesOfQueues
    <3>2. ASSUME NEW x \in Msg, NEW c \in DOMAIN lockQueue[x], NEW y \in Msg, NEW d \in DOMAIN lockQueue[y],
                 lockQueue'[f][i] = lockQueue[x][c], lockQueue'[g][j] = lockQueue[y][d]
          PROVE  x = y /\ c = d
      <4>1. lockQueue[x][c] = lockQueue[y][d]
        BY <2>2, <3>2
      <4> QED
        BY <3>1, <4>1
    <3>3. 1 \in DOMAIN lockQueue[m]
        BY <1>2
    <3>4. CASE f # m /\ i \in DOMAIN lockQueue[f] /\ lockQueue'[f][i] = lockQueue[f][i]
        BY <1>12, <3>2, <3>3, <3>4
    <3>5. CASE f = m /\ i \in Nat /\ i # 0 /\ i + 1 \in DOMAIN lockQueue[m]
               /\ lockQueue'[f][i] = lockQueue[m][i + 1]
      <4>1. CASE g # m /\ j \in DOMAIN lockQueue[g] /\ lockQueue'[g][j] = lockQueue[g][j]
        BY <3>2, <3>5, <4>1
      <4>2. CASE g = m /\ j \in Nat /\ j # 0 /\ j + 1 \in DOMAIN lockQueue[m]
                 /\ lockQueue'[g][j] = lockQueue[m][j + 1]
        <5>1. i + 1 = j + 1
            BY <3>2, <3>5, <4>2
        <5> QED
            BY <3>5, <4>2, <5>1
      <4>3. CASE g = h /\ j = Len(p) + 1 /\ lockQueue'[g][j] = lockQueue[m][1]
        <5>1. i + 1 = 1
            BY <3>2, <3>3, <3>5, <4>3
        <5> QED
            BY <3>5, <5>1
      <4> QED
        BY <1>12, <4>1, <4>2, <4>3
    <3>6. CASE f = h /\ i = Len(p) + 1 /\ lockQueue'[f][i] = lockQueue[m][1]
      <4>1. CASE g # m /\ j \in DOMAIN lockQueue[g] /\ lockQueue'[g][j] = lockQueue[g][j]
        BY <3>2, <3>3, <3>6, <4>1
      <4>2. CASE g = m /\ j \in Nat /\ j # 0 /\ j + 1 \in DOMAIN lockQueue[m]
                 /\ lockQueue'[g][j] = lockQueue[m][j + 1]
        <5>1. j + 1 = 1
            BY <3>2, <3>3, <3>6, <4>2
        <5> QED
            BY <4>2, <5>1
      <4>3. CASE g = h /\ j = Len(p) + 1 /\ lockQueue'[g][j] = lockQueue[m][1]
        BY <3>6, <4>3
      <4> QED
        BY <1>12, <4>1, <4>2, <4>3
    <3> QED
        BY <1>12, <3>4, <3>5, <3>6
  <2> QED
    BY <1>7, <2>1, <2>2 DEF QueuesHoldWaiters, Waits
<1>14. OnlyServersHaveQueues'
    BY <1>1, <1>5, <1>7, <1>8 DEF OnlyServersHaveQueues, Serves, Past
<1> QED
    BY <1>10, <1>11, <1>13, <1>14

-----------------------------------------------------------------------------
\* What the finally blocks leave of an entry.
Unlocked(e) == IF e = NoEntry THEN e ELSE [e EXCEPT !.lock = NoMsg]

\* The finally blocks take the lock from an entry and nothing else.
LEMMA UnlockedType ==
    ASSUME NEW e \in SessionState \cup {NoEntry}
    PROVE  /\ Unlocked(e) \in SessionState \cup {NoEntry}
           /\ Unlocked(e) = NoEntry <=> e = NoEntry
           /\ e # NoEntry => Unlocked(e).lock = NoMsg /\ Unlocked(e).suppress = e.suppress
<1>1. CASE e = NoEntry
    BY <1>1 DEF Unlocked
<1>2. CASE e # NoEntry
  <2>1. e \in SessionState /\ NoMsg \in MsgOrNone /\ Unlocked(e) = [e EXCEPT !.lock = NoMsg]
    BY <1>2 DEF Unlocked, MsgOrNone
  <2>2. /\ [e EXCEPT !.lock = NoMsg] \in SessionState
        /\ [e EXCEPT !.lock = NoMsg].lock = NoMsg
        /\ [e EXCEPT !.lock = NoMsg].suppress = e.suppress
    BY <2>1, Fields
  <2> QED
    BY <1>2, <2>1, <2>2, SessionAssumption
<1> QED
    BY <1>1, <1>2

\* The finally blocks: what they do to the map and to the message.
LEMMA LeaveDoes ==
    ASSUME LockInv, NEW m \in Msg, NEW k \in Key, k = key[m],
           NEW e \in SessionState \cup {NoEntry}, NEW STATE f, f = e, NEW STATE r, Leave(m, f, r)
    PROVE  /\ session' \in [Key -> SessionState \cup {NoEntry}]
           /\ \A j \in Key : j # k => session'[j] = session[j] /\ LockOf(j)' = LockOf(j)
                                                          /\ SuppressOf(j)' = SuppressOf(j)
           /\ LockOf(k)' = NoMsg
           /\ SuppressOf(k)' = IF e = NoEntry THEN NoMsg ELSE e.suppress
           /\ e # NoEntry => session'[k] # NoEntry
           /\ pc' = [pc EXCEPT ![m] = "done"]
           /\ key' = key /\ cleared' = cleared /\ lockQueue' = lockQueue
<1> USE DEF LockInv
<1>1. /\ session' = [session EXCEPT ![k] = Unlocked(f)]
      /\ pc' = [pc EXCEPT ![m] = "done"]
      /\ key' = key /\ cleared' = cleared /\ lockQueue' = lockQueue
    BY DEF Leave, Unlocked
<1>2. PICK u : u = Unlocked(e)
    OBVIOUS
<1>3. /\ u \in SessionState \cup {NoEntry} /\ (u = NoEntry <=> e = NoEntry)
      /\ e # NoEntry => u.lock = NoMsg /\ u.suppress = e.suppress
      /\ session' = [session EXCEPT ![k] = u]
    BY <1>1, <1>2, UnlockedType
<1>4. /\ session' \in [Key -> SessionState \cup {NoEntry}]
      /\ session'[k] = u
      /\ \A j \in Key : j # k => session'[j] = session[j]
      /\ LockOf(k)' = IF u = NoEntry THEN NoMsg ELSE u.lock
      /\ SuppressOf(k)' = IF u = NoEntry THEN NoMsg ELSE u.suppress
      /\ \A j \in Key : j # k => LockOf(j)' = LockOf(j) /\ SuppressOf(j)' = SuppressOf(j)
    BY <1>3, Assigned
<1> QED
    BY <1>1, <1>3, <1>4

\* A message that leaves frees its session; those who await it keep their places.
LEMMA LeaveKeeps ==
    ASSUME LockInv, NEW m \in Msg, NEW e \in SessionState \cup {NoEntry}, NEW STATE f, f = e,
           NEW STATE r, Leave(m, f, r), Past(m),
           \/ attached' = attached /\ (session[key[m]] # NoEntry => e # NoEntry)
           \/ attached' = {n \in attached : key[n] # key[m]}
    PROVE  LockInv'
<1> USE DEF LockInv
<1>1. PICK k \in Key : k = key[m]
    BY DEF Shape
<1>2. /\ session' \in [Key -> SessionState \cup {NoEntry}]
      /\ \A j \in Key : j # k => session'[j] = session[j] /\ LockOf(j)' = LockOf(j)
      /\ LockOf(k)' = NoMsg
      /\ e # NoEntry => session'[k] # NoEntry
      /\ pc' = [pc EXCEPT ![m] = "done"]
      /\ key' = key /\ cleared' = cleared /\ lockQueue' = lockQueue
    BY <1>1, LeaveDoes
<1>3. /\ pc' \in [Msg -> {"new", "lane", "lockwait", "locked", "run", "done"}]
      /\ ~Past(m)' /\ ~Waits(m)' /\ Serves(m)' /\ ~Waits(m)
      /\ \A n \in Msg : n # m => pc'[n] = pc[n] /\ (Past(n)' <=> Past(n)) /\ (Waits(n)' <=> Waits(n))
    BY <1>2, Moved DEF Serves, Past, Waits
<1>4. Shape' /\ AttachedLive'
    BY <1>1, <1>2, <1>3 DEF Shape, AttachedLive
<1>5. \A n \in Msg : Serves(n) => Serves(n)'
    BY <1>3 DEF Serves, Past
<1>6. HolderIsInside'
  <2> SUFFICES ASSUME NEW n \in Msg, Past(n)', key[n] \notin cleared PROVE LockOf(key[n])' = n
    BY <1>2 DEF HolderIsInside
  <2>1. n # m /\ Past(n) /\ LockOf(key[n]) = n
    BY <1>3 DEF HolderIsInside
  <2>2. PICK j \in Key : j = key[n]
    BY DEF Shape
  <2>3. j # k
    BY <1>1, <2>1, <2>2 DEF HolderIsInside
  <2>4. LockOf(j)' = n
    BY <1>2, <2>1, <2>2, <2>3
  <2> QED
    BY <1>2, <2>2, <2>4 DEF LockOf
<1>7. LockIsLive'
  <2> SUFFICES ASSUME NEW j \in Key, LockOf(j)' # NoMsg
               PROVE  Past(LockOf(j))' /\ key[LockOf(j)'] = j
    BY <1>2 DEF LockIsLive
  <2>1. j # k /\ LockOf(j)' = LockOf(j) /\ LockOf(j) \in Msg
    BY <1>2, EntryType DEF MsgOrNone
  <2>2. Past(LockOf(j)) /\ key[LockOf(j)] = j
    BY <2>1 DEF LockIsLive
  <2>3. pc'[LockOf(j)] = pc[LockOf(j)]
    BY <1>1, <1>3, <2>1, <2>2
  <2> QED
    BY <2>1, <2>2, <2>3 DEF Past
<1>8. WaitersQueued'
    BY <1>2, <1>3, <1>5 DEF WaitersQueued
<1>9. QueuesHoldWaiters'
  <2>1. \A h \in Msg : \A i \in DOMAIN lockQueue[h] : pc'[lockQueue[h][i]] = "lockwait"
    BY <1>3, PlacesOfQueues DEF Waits
  <2> QED
    BY <1>2, <2>1 DEF QueuesHoldWaiters, Waits
<1>10. OnlyServersHaveQueues'
    BY <1>2, <1>5 DEF OnlyServersHaveQueues
<1> QED
    BY <1>4, <1>6, <1>7, <1>8, <1>9, <1>10

\* What a message that leaves does to suppressions and replies.
LEMMA LeaveStops ==
    ASSUME LockInv, StopInv, NEW m \in Msg, NEW e \in SessionState \cup {NoEntry}, NEW STATE f, f = e,
           NEW STATE r, Leave(m, f, r),
           e = NoEntry \/ e.suppress \in {SuppressOf(key[m]), NoMsg},
           r = "silent" => abortedBy[m] \in Superseded
    PROVE  StopInv'
<1>1. PICK k \in Key : k = key[m]
    BY DEF LockInv, Shape
<1>2. /\ \A j \in Key : j # k => SuppressOf(j)' = SuppressOf(j)
      /\ SuppressOf(k)' = IF e = NoEntry THEN NoMsg ELSE e.suppress
    BY <1>1, LeaveDoes
<1>3. abortedBy' = abortedBy /\ reply' = [reply EXCEPT ![m] = r]
    BY DEF Leave
<1>4. ASSUME NEW j \in Key, SuppressOf(j)' # NoMsg PROVE abortedBy'[SuppressOf(j)'] \in Superseded
  <2>1. SuppressOf(j)' = SuppressOf(j)
    BY <1>1, <1>2, <1>4
  <2> QED
    BY <1>3, <1>4, <2>1 DEF StopInv
<1>5. ASSUME NEW n \in Msg, reply'[n] = "silent" PROVE abortedBy'[n] \in Superseded
    BY <1>3, <1>5 DEF StopInv
<1> QED
    BY <1>3, <1>4, <1>5 DEF StopInv

\* A message that leaves keeps both invariants, by whatever path.
LEMMA LeavingKeeps ==
    ASSUME LockInv, StopInv, NEW m \in Msg, ReturnEarly(m) \/ EndRun(m)
    PROVE  LockInv' /\ StopInv'
<1>1. Past(m)
    BY DEF ReturnEarly, EndRun, PlanReply, Succeed, FailAborted, FailError, FailOneMillion, Past
<1>2. PICK k \in Key : k = key[m]
    BY DEF LockInv, Shape
<1>3. PICK e : e = session[k]
    OBVIOUS
<1>4. /\ e \in SessionState \cup {NoEntry}
      /\ e # NoEntry => e \in SessionState /\ e.suppress = SuppressOf(k)
    BY <1>3, EntryType DEF LockInv, Shape, SuppressOf
<1>5. NoMsg \in MsgOrNone
    BY DEF MsgOrNone
<1>6. ASSUME NEW u \in SessionState \cup {NoEntry}, NEW STATE f, f = u,
             NEW STATE r, Leave(m, f, r), attached' = attached,
             e # NoEntry => u # NoEntry,
             u = NoEntry \/ u.suppress \in {SuppressOf(k), NoMsg},
             r = "silent" => abortedBy[m] \in Superseded
      PROVE  LockInv' /\ StopInv'
    BY <1>1, <1>2, <1>3, <1>6, LeaveKeeps, LeaveStops
<1>7. CASE ReturnEarly(m)
    BY <1>2, <1>3, <1>4, <1>6, <1>7 DEF ReturnEarly
<1>8. CASE Succeed(m)
    BY <1>2, <1>3, <1>4, <1>6, <1>8 DEF Succeed, EntryAfterSuccess
<1>9. PICK u : u = WithoutController(e)
    OBVIOUS
<1>10. /\ u \in SessionState \cup {NoEntry} /\ (u = NoEntry <=> e = NoEntry)
       /\ u # NoEntry => u \in SessionState /\ u.suppress = SuppressOf(k)
  <2>1. CASE e = NoEntry
    BY <1>9, <2>1 DEF WithoutController
  <2>2. CASE e # NoEntry
    <3>1. [e EXCEPT !.ac = NoMsg] \in SessionState /\ [e EXCEPT !.ac = NoMsg].suppress = e.suppress
        BY <1>4, <1>5, <2>2, Fields
    <3> QED
        BY <1>4, <1>9, <2>2, <3>1, SessionAssumption DEF WithoutController
  <2> QED
    BY <2>1, <2>2
<1>11. CASE PlanReply(m)
  <2>1. Leave(m, WithoutController(session[key[m]]), "plan") /\ attached' = attached
    BY <1>11 DEF PlanReply
  <2>2. WithoutController(session[key[m]]) = u
    BY <1>2, <1>3, <1>9
  <2> QED
    BY <1>6, <1>10, <2>1, <2>2
<1>12. CASE FailError(m)
  <2>1. Leave(m, WithoutController(session[key[m]]), "error") /\ attached' = attached
    BY <1>12 DEF FailError
  <2>2. WithoutController(session[key[m]]) = u
    BY <1>2, <1>3, <1>9
  <2> QED
    BY <1>6, <1>10, <2>1, <2>2
<1>13. CASE FailAborted(m)
  <2>1. PICK v : v = IF u # NoEntry /\ u.suppress = m THEN [u EXCEPT !.suppress = NoMsg] ELSE u
    OBVIOUS
  <2>2. /\ v \in SessionState \cup {NoEntry} /\ (e # NoEntry => v # NoEntry)
        /\ v = NoEntry \/ v.suppress \in {SuppressOf(k), NoMsg}
    <3>1. CASE u # NoEntry /\ u.suppress = m
      <4>1. [u EXCEPT !.suppress = NoMsg] \in SessionState /\ [u EXCEPT !.suppress = NoMsg].suppress = NoMsg
        BY <1>5, <1>10, <3>1, Fields
      <4> QED
        BY <2>1, <3>1, <4>1, SessionAssumption
    <3>2. CASE ~(u # NoEntry /\ u.suppress = m)
        BY <1>10, <2>1, <3>2
    <3> QED
        BY <3>1, <3>2
  <2> DEFINE w == WithoutController(session[key[m]])
             f == IF w # NoEntry /\ w.suppress = m THEN [w EXCEPT !.suppress = NoMsg] ELSE w
             r == IF Silenced(m) THEN "silent" ELSE "stopped"
  <2>3. w = u
    BY <1>2, <1>3, <1>9
  <2>4. Leave(m, f, r) /\ attached' = attached
    BY <1>13 DEF FailAborted
  <2>5. f = v
    BY <2>1, <2>3
  <2>6. r = "silent" => abortedBy[m] \in Superseded
    BY <1>2, <1>3, <1>4, SessionAssumption DEF Silenced, StopInv, SuppressOf, Superseded
  <2> HIDE DEF f, r
  <2> QED
    BY <1>6, <2>2, <2>4, <2>5, <2>6
<1>14. CASE FailOneMillion(m)
  <2>1. Leave(m, NoEntry, "error") /\ attached' = {n \in attached : key[n] # key[m]}
    BY <1>14 DEF FailOneMillion
  <2> QED
    BY <1>1, <2>1, LeaveKeeps, LeaveStops
<1> QED
    BY <1>7, <1>8, <1>11, <1>12, <1>13, <1>14 DEF EndRun

-----------------------------------------------------------------------------
\* The first abort reason of a message stays.
LEMMA AbortDoes ==
    ASSUME StopInv, NEW a \in Msg, NEW why \in Superseded \cup {"timeout"}, Abort(a, why)
    PROVE  /\ abortedBy' \in [Msg -> Superseded \cup {"no", "timeout"}]
           /\ \A n \in Msg : abortedBy[n] # "no" => abortedBy'[n] = abortedBy[n]
           /\ abortedBy[a] = "no" => abortedBy'[a] = why
    BY DEF Abort, StopInv, Superseded

\* A step that aborts whom it suppresses.
LEMMA StopsKept ==
    ASSUME Shape, StopInv, abortedBy' \in [Msg -> Superseded \cup {"no", "timeout"}],
           \A n \in Msg : abortedBy[n] # "no" => abortedBy'[n] = abortedBy[n],
           \A j \in Key : \/ SuppressOf(j)' \in {SuppressOf(j), NoMsg}
                          \/ SuppressOf(j)' # NoMsg => abortedBy'[SuppressOf(j)'] \in Superseded,
           \A n \in Msg : reply'[n] = "silent" => reply[n] = "silent"
    PROVE  StopInv'
<1>1. ASSUME NEW j \in Key, SuppressOf(j)' # NoMsg PROVE abortedBy'[SuppressOf(j)'] \in Superseded
  <2>1. CASE SuppressOf(j)' = SuppressOf(j)
    <3>1. PICK n \in Msg : n = SuppressOf(j)
        BY <1>1, <2>1, EntryType DEF MsgOrNone
    <3>2. abortedBy[n] \in Superseded
        BY <1>1, <2>1, <3>1 DEF StopInv
    <3>3. abortedBy'[n] \in Superseded
        BY <3>2 DEF Superseded
    <3> QED
        BY <2>1, <3>1, <3>3
  <2>2. CASE SuppressOf(j)' # SuppressOf(j)
    BY <1>1, <2>2
  <2> QED
    BY <2>1, <2>2
<1>2. ASSUME NEW n \in Msg, reply'[n] = "silent" PROVE abortedBy'[n] \in Superseded
    BY <1>2 DEF StopInv, Superseded
<1> QED
    BY <1>1, <1>2 DEF StopInv

\* A message or a user suppresses the run in flight: it is aborted, too.
LEMMA SuppressKeeps ==
    ASSUME Shape, StopInv, NEW k \in Key, NEW s \in SessionState, Abortable(s), s.ac \in MsgOrNone,
           NEW why \in Superseded, Abort(s.ac, why),
           NEW e \in SessionState, e.suppress = s.ac, session' = [session EXCEPT ![k] = e],
           \A n \in Msg : reply'[n] = "silent" => reply[n] = "silent"
    PROVE  StopInv'
<1>1. s.ac \in Msg /\ abortedBy[s.ac] = "no"
    BY DEF Abortable, MsgOrNone
<1>2. /\ abortedBy' \in [Msg -> Superseded \cup {"no", "timeout"}]
      /\ \A n \in Msg : abortedBy[n] # "no" => abortedBy'[n] = abortedBy[n]
      /\ abortedBy'[s.ac] = why
    BY <1>1, AbortDoes
<1>3. /\ SuppressOf(k)' = s.ac
      /\ \A j \in Key : j # k => SuppressOf(j)' = SuppressOf(j)
  <2>1. e \in SessionState \cup {NoEntry} /\ e # NoEntry
    BY SessionAssumption
  <2>2. SuppressOf(k)' = IF e = NoEntry THEN NoMsg ELSE e.suppress
    BY <2>1, Assigned
  <2>3. \A j \in Key : j # k => SuppressOf(j)' = SuppressOf(j)
    BY <2>1, Assigned
  <2> QED
    BY <2>1, <2>2, <2>3
<1> QED
    BY <1>1, <1>2, <1>3, StopsKept

\* A step that leaves the suppression of an entry, the aborts and the replies alone.
LEMMA EntryStops ==
    ASSUME Shape, StopInv, NEW k \in Key, NEW e \in SessionState, e.suppress = SuppressOf(k),
           session' = [session EXCEPT ![k] = e], abortedBy' = abortedBy, reply' = reply
    PROVE  StopInv'
<1>1. e \in SessionState \cup {NoEntry} /\ e # NoEntry
    BY SessionAssumption
<1>2. SuppressOf(k)' = IF e = NoEntry THEN NoMsg ELSE e.suppress
    BY <1>1, Assigned
<1>3. \A j \in Key : j # k => SuppressOf(j)' = SuppressOf(j)
    BY <1>1, Assigned
<1>4. \A j \in Key : SuppressOf(j)' = SuppressOf(j)
    BY <1>1, <1>2, <1>3
<1> QED
    BY <1>4, StopsKept DEF StopInv

\* The continuation of a message that awaited the lock.
LEMMA WakeStops ==
    ASSUME LockInv, StopInv, NEW m \in Msg, WakeFree(m) \/ WakeBusy(m) PROVE StopInv'
<1>1. lockQueue[m] # <<>>
    BY DEF WakeFree, WakeBusy
<1>2. PICK w \in Msg : w = Head(lockQueue[m])
    BY <1>1, FirstOfQueue
<1>3. PICK k \in Key : k = key[w]
    BY DEF LockInv, Shape
<1>4. CASE WakeFree(m)
  <2>1. PICK e : e = [Entry(k) EXCEPT !.lock = w]
    OBVIOUS
  <2>2. Entry(k) \in SessionState /\ Entry(k).suppress = SuppressOf(k) /\ w \in MsgOrNone
    BY EntryType DEF LockInv, MsgOrNone
  <2>3. e \in SessionState /\ e.suppress = SuppressOf(k)
    BY <2>1, <2>2, Fields
  <2>4. session' = [session EXCEPT ![k] = e] /\ abortedBy' = abortedBy /\ reply' = reply
    BY <1>2, <1>3, <1>4, <2>1 DEF WakeFree
  <2> QED
    BY <2>3, <2>4, EntryStops DEF LockInv
<1>5. CASE WakeBusy(m)
  <2>1. session' = session /\ abortedBy' = abortedBy /\ reply' = reply
    BY <1>5 DEF WakeBusy
  <2> QED
    BY <2>1, Unassigned, StopsKept DEF LockInv, StopInv
<1> QED
    BY <1>4, <1>5

\* The steps of a message that does not leave keep the record of aborts.
LEMMA HandleStops ==
    ASSUME LockInv, StopInv, NEW m \in Msg, Quiet(m) \/ LockFree(m) \/ LockBusy(m)
    PROVE  StopInv'
<1> USE DEF LockInv
<1>1. PICK k \in Key : k = key[m]
    BY DEF Shape
<1>2. PICK s \in SessionState : s = Entry(k)
    BY EntryType
<1>3. /\ s.suppress = SuppressOf(k) /\ s.ac \in MsgOrNone /\ s.streamed \in MsgOrNone
      /\ session[k] # NoEntry => s = session[k]
    BY <1>2, EntryType DEF SessionState
<1>4. m \in MsgOrNone /\ NoMsg \in MsgOrNone /\ \A n \in MsgOrNone : n # NoMsg => n \in Msg
    BY DEF MsgOrNone
<1>5. ASSUME NEW e \in SessionState, e.suppress = SuppressOf(k), session' = [session EXCEPT ![k] = e],
             abortedBy' = abortedBy, reply' = reply
      PROVE  StopInv'
    BY <1>5, EntryStops
<1>6. ASSUME session' = session, abortedBy' = abortedBy, \A n \in Msg : reply'[n] = "silent" => reply[n] = "silent"
      PROVE  StopInv'
    BY <1>6, Unassigned, StopsKept DEF StopInv
<1>7. CASE Arrive(m) \/ LaneGranted(m)
    BY <1>6, <1>7 DEF Arrive, LaneGranted
<1>8. CASE Timeout(m)
  <2>1. Abort(m, "timeout") /\ session' = session /\ reply' = reply
    BY <1>8 DEF Timeout
  <2>2. /\ abortedBy' \in [Msg -> Superseded \cup {"no", "timeout"}]
        /\ \A n \in Msg : abortedBy[n] # "no" => abortedBy'[n] = abortedBy[n]
    BY <2>1, AbortDoes
  <2> QED
    BY <2>1, <2>2, Unassigned, StopsKept
<1>9. CASE AnswerFromContext(m)
  <2>1. \A n \in Msg : reply'[n] = "silent" => reply[n] = "silent"
    BY <1>9 DEF AnswerFromContext
  <2>2. CASE session[k] # NoEntry /\ Abortable(s)
    <3>1. PICK e : e = [s EXCEPT !.suppress = s.ac]
        OBVIOUS
    <3>2. e \in SessionState /\ e.suppress = s.ac
        BY <1>3, <3>1, Fields
    <3>3. session' = [session EXCEPT ![k] = e] /\ Abort(s.ac, "recent-context")
        BY <1>1, <1>2, <1>3, <1>9, <2>2, <3>1 DEF AnswerFromContext
    <3>4. "recent-context" \in Superseded
        BY DEF Superseded
    <3> QED
        BY <1>3, <2>1, <2>2, <3>2, <3>3, <3>4, SuppressKeeps
  <2>3. CASE ~(session[k] # NoEntry /\ Abortable(s))
    BY <1>1, <1>2, <1>6, <1>9, <2>1, <2>3 DEF AnswerFromContext
  <2> QED
    BY <2>2, <2>3
<1>10. CASE StartRun(m)
  <2>1. PICK e : e = [s EXCEPT !.ac = m, !.pending = NoMsg]
    OBVIOUS
  <2>2. e \in SessionState /\ e.suppress = SuppressOf(k)
    BY <1>3, <1>4, <2>1, TwoFields
  <2>3. session' = [session EXCEPT ![k] = e] /\ abortedBy' = abortedBy /\ reply' = reply
    BY <1>1, <1>2, <1>10, <2>1 DEF StartRun
  <2> QED
    BY <1>5, <2>2, <2>3
<1>11. CASE Stream(m)
  <2>1. session[k] = s
    BY <1>1, <1>3, <1>11 DEF Stream, AttachedLive
  <2>2. PICK e : e = [s EXCEPT !.streamed = m]
    OBVIOUS
  <2>3. e \in SessionState /\ e.suppress = SuppressOf(k)
    BY <1>3, <1>4, <2>2, Fields
  <2>4. session' = [session EXCEPT ![k] = e] /\ abortedBy' = abortedBy /\ reply' = reply
    BY <1>1, <1>11, <2>1, <2>2 DEF Stream
  <2> QED
    BY <1>5, <2>3, <2>4
<1>12. CASE LockFree(m)
  <2>1. PICK e : e = [s EXCEPT !.lock = m]
    OBVIOUS
  <2>2. e \in SessionState /\ e.suppress = SuppressOf(k)
    BY <1>3, <1>4, <2>1, Fields
  <2>3. session' = [session EXCEPT ![k] = e] /\ abortedBy' = abortedBy /\ reply' = reply
    BY <1>1, <1>2, <1>12, <2>1 DEF LockFree
  <2> QED
    BY <1>5, <2>2, <2>3
<1>13. CASE LockBusy(m)
  <2>1. CASE Interrupts(s)
    <3>1. PICK e : e = Interrupted(s)
        OBVIOUS
    <3>2. e \in SessionState /\ e.suppress = s.ac
        BY <3>1, InterruptedType
    <3>3. session' = [session EXCEPT ![k] = e] /\ Abort(s.ac, "new-message") /\ reply' = reply
        BY <1>1, <1>2, <1>13, <2>1, <3>1 DEF LockBusy
    <3>4. "new-message" \in Superseded /\ Abortable(s)
        BY <2>1 DEF Superseded, Interrupts
    <3> QED
        BY <1>3, <3>2, <3>3, <3>4, SuppressKeeps
  <2>2. CASE ~Interrupts(s)
    BY <1>1, <1>2, <1>6, <1>13, <2>2 DEF LockBusy
  <2> QED
    BY <2>1, <2>2
<1> QED
    BY <1>7, <1>8, <1>9, <1>10, <1>11, <1>12, <1>13 DEF Quiet

\* So do a stop, a clear command and an eviction.
LEMMA OutsideStops ==
    ASSUME LockInv, StopInv, NEW k \in Key, StopSession(k) \/ ClearSession(k) \/ EvictStale(k)
    PROVE  StopInv'
<1> USE DEF LockInv
<1>1. CASE StopSession(k)
  <2>1. PICK s \in SessionState : s = session[k]
    BY <1>1 DEF StopSession, Shape
  <2>2. s.ac \in MsgOrNone
    BY DEF SessionState
  <2>3. PICK e : e = [s EXCEPT !.suppress = s.ac]
    OBVIOUS
  <2>4. e \in SessionState /\ e.suppress = s.ac
    BY <2>2, <2>3, Fields
  <2>5. session' = [session EXCEPT ![k] = e] /\ Abort(s.ac, "user-stop") /\ Abortable(s) /\ reply' = reply
    BY <1>1, <2>1, <2>3 DEF StopSession
  <2>6. "user-stop" \in Superseded
    BY DEF Superseded
  <2> QED
    BY <2>2, <2>4, <2>5, <2>6, SuppressKeeps
<1>2. CASE ClearSession(k) \/ EvictStale(k)
  <2>1. session' = [session EXCEPT ![k] = NoEntry] /\ abortedBy' = abortedBy /\ reply' = reply
    BY <1>2 DEF ClearSession, EvictStale
  <2>2. SuppressOf(k)' = NoMsg /\ \A j \in Key : j # k => SuppressOf(j)' = SuppressOf(j)
    BY <2>1, Assigned
  <2> QED
    BY <2>1, <2>2, StopsKept DEF StopInv
<1> QED
    BY <1>1, <1>2

-----------------------------------------------------------------------------
\* The theorems about lanes, for the chat lane the messages use.
LaneLaws == INSTANCE LanesProofs WITH Lane <- {Chat}, Limit <- [l \in {Chat} |-> ChatLimit],
                                      Ticket <- Msg, status <- laneStatus

\* The chat lane meets what the theorems about lanes assume.
LEMMA ChatLaneSetting == LaneLaws!LaneAssumption
<1>1. [l \in {Chat} |-> ChatLimit] \in [{Chat} -> Nat \ {0}] /\ NoLane \notin {Chat}
    BY SessionAssumption
<1>2. LaneLaws!IsFiniteSet(Msg)
    BY SessionAssumption DEF LaneLaws!IsFiniteSet, IsFiniteSet
<1> QED
    BY <1>1, <1>2

\* A message that leaves gives back a slot, and does nothing else to the lane.
LEMMA LeaveIsRelease ==
    ASSUME NEW m \in Msg, NEW f, NEW r, Leave(m, f, r)
    PROVE  ChatLane!Next
    BY DEF Leave, ChatLane!Next, ChatLane!Release

\* The handler, the stops, the clear commands and the sweep use the chat lane as
\* a lane is to be used: a message asks once, and gives back once what it holds.
THEOREM KeepsToTheLane == Spec => ChatLane!Spec
<1>1. Init => ChatLane!Init
    BY DEF Init
<1>2. ASSUME [Next]_vars PROVE [ChatLane!Next]_(ChatLane!vars)
  <2>1. UNCHANGED laneVars => UNCHANGED ChatLane!vars
    BY DEF laneVars, ChatLane!vars
  <2>2. ASSUME NEW m \in Msg, Arrive(m) PROVE ChatLane!Next
    BY <2>2 DEF Arrive, ChatLane!Next
  <2>3. ASSUME NEW m \in Msg, LaneGranted(m) PROVE ChatLane!Next
    BY <2>3 DEF LaneGranted, ChatLane!Next
  <2>4. ASSUME NEW m \in Msg, ReturnEarly(m) \/ EndRun(m) PROVE ChatLane!Next
    <3>1. \E f, r : Leave(m, f, r)
        BY <2>4 DEF ReturnEarly, EndRun, PlanReply, Succeed, FailAborted, FailError, FailOneMillion
    <3> QED
        BY <3>1, LeaveIsRelease
  <2>5. ASSUME NEW m \in Msg,
               \/ AnswerFromContext(m) \/ LockFree(m) \/ LockBusy(m) \/ WakeFree(m) \/ WakeBusy(m)
               \/ StartRun(m) \/ Stream(m) \/ Timeout(m)
        PROVE  UNCHANGED laneVars
    BY <2>5 DEF AnswerFromContext, LockFree, LockBusy, WakeFree, WakeBusy, StartRun, Stream, Timeout
  <2>6. ASSUME NEW k \in Key, StopSession(k) \/ ClearSession(k) \/ EvictStale(k) PROVE UNCHANGED laneVars
    BY <2>6 DEF StopSession, ClearSession, EvictStale
  <2>7. CASE UNCHANGED vars
    BY <2>1, <2>7 DEF vars, laneVars
  <2> QED
    BY <1>2, <2>1, <2>2, <2>3, <2>4, <2>5, <2>6, <2>7 DEF Next, Handle
<1> QED
    BY <1>1, <1>2, PTL DEF Spec, ChatLane!Spec

\* SessionLock and LanesProofs name the same lane.
LEMMA SameLane == ChatLane!Spec => LaneLaws!Spec
<1>1. ChatLane!Init => LaneLaws!Init
    BY DEF ChatLane!Init, LaneLaws!Init
<1>2. [ChatLane!Next]_(ChatLane!vars) => [LaneLaws!Next]_(LaneLaws!vars)
  <2>1. \A m, l : /\ ChatLane!AcquireFast(m, l) <=> LaneLaws!AcquireFast(m, l)
                  /\ ChatLane!AcquireQueue(m, l) <=> LaneLaws!AcquireQueue(m, l)
    BY DEF ChatLane!AcquireFast, LaneLaws!AcquireFast, ChatLane!AcquireQueue, LaneLaws!AcquireQueue
  <2>2. \A m : ChatLane!Resume(m) <=> LaneLaws!Resume(m)
    BY DEF ChatLane!Resume, LaneLaws!Resume
  <2>3. \A l : ChatLane!NextWaiter(l) = LaneLaws!NextWaiter(l) /\ ChatLane!StillWaiting(l) = LaneLaws!StillWaiting(l)
    BY DEF ChatLane!NextWaiter, LaneLaws!NextWaiter, ChatLane!StillWaiting, LaneLaws!StillWaiting
  <2>4. \A m : ChatLane!Release(m) <=> LaneLaws!Release(m)
    BY <2>3 DEF ChatLane!Release, LaneLaws!Release, ChatLane!ReleaseHandOver, LaneLaws!ReleaseHandOver,
           ChatLane!ReleaseFree, LaneLaws!ReleaseFree, ChatLane!ReleaseAgain, LaneLaws!ReleaseAgain,
           ChatLane!vars, LaneLaws!vars
  <2> QED
    BY <2>1, <2>2, <2>4 DEF ChatLane!Next, LaneLaws!Next, ChatLane!vars, LaneLaws!vars
<1> QED
    BY <1>1, <1>2, PTL DEF ChatLane!Spec, LaneLaws!Spec

\* What LanesProofs knows of the chat lane at any moment, in terms of messages.
Owning == {m \in Msg : laneStatus[m] \in {"granted", "held"}}
\* The accounting and the queue of the lane, read for messages.
LEMMA ChatLaneFacts ==
    ASSUME LaneLaws!IInv
    PROVE  /\ ChatLane!TypeOK
           /\ laneStatus \in [Msg -> {"idle", "waiting", "granted", "held", "done"}]
           /\ active[Chat] = Cardinality(Owning)
           /\ \A m \in Msg : laneStatus[m] # "idle" => laneOf[m] = Chat
           /\ waiters[Chat] \in Seq(Msg)
           /\ \A i \in DOMAIN waiters[Chat] : laneStatus[waiters[Chat][i]] = "waiting"
<1> USE DEF LaneLaws!IInv
<1>1. ChatLane!TypeOK /\ laneStatus \in [Msg -> {"idle", "waiting", "granted", "held", "done"}]
      /\ waiters[Chat] \in Seq(Msg)
    BY DEF LaneLaws!TypeOK, ChatLane!TypeOK, LaneLaws!Status, ChatLane!Status
<1>2. \A m \in Msg : laneStatus[m] # "idle" => laneOf[m] = Chat
    BY DEF LaneLaws!LaneKnown
<1>3. active[Chat] = Cardinality(Owning)
  <2>1. LaneLaws!Owners(Chat) = Owning
    BY <1>2 DEF LaneLaws!Owners, Owning
  <2>2. active[Chat] = LaneLaws!Cardinality(Owning)
    BY <2>1 DEF LaneLaws!SlotsAccounted
  <2>3. LaneLaws!Cardinality(Owning) = Cardinality(Owning)
    BY DEF LaneLaws!Cardinality, Cardinality
  <2> QED
    BY <2>2, <2>3
<1>4. \A i \in DOMAIN waiters[Chat] : laneStatus[waiters[Chat][i]] = "waiting"
  <2>1. {waiters[Chat][i] : i \in DOMAIN waiters[Chat]} = LaneLaws!Queued(Chat)
    BY DEF LaneLaws!QueueMatches
  <2> QED
    BY <2>1 DEF LaneLaws!Queued
<1> QED
    BY <1>1, <1>2, <1>3, <1>4

\* The messages with a slot can be counted.
LEMMA OwningFinite == IsFiniteSet(Owning)
<1>1. Owning \subseteq Msg
    BY DEF Owning
<1> QED
    BY <1>1, FS_Subset, SessionAssumption

\* A message queues for a slot only while all are taken...
LEMMA LaneFull ==
    ASSUME LaneLaws!IInv, NEW m \in Msg, laneStatus[m] = "waiting"
    PROVE  active[Chat] = ChatLimit
<1>1. laneOf[m] = Chat
    BY ChatLaneFacts
<1>2. m \in LaneLaws!Queued(Chat)
    BY <1>1 DEF LaneLaws!Queued
<1>3. {waiters[Chat][i] : i \in DOMAIN waiters[Chat]} = LaneLaws!Queued(Chat)
    BY DEF LaneLaws!IInv, LaneLaws!QueueMatches
<1>4. waiters[Chat] # <<>>
    BY <1>2, <1>3
<1> QED
    BY <1>4 DEF LaneLaws!IInv, LaneLaws!NoIdleSlot

\* ...and then somebody has one.
LEMMA FullHasOwner ==
    ASSUME LaneLaws!IInv, active[Chat] = ChatLimit
    PROVE  \E m \in Msg : laneStatus[m] \in {"granted", "held"}
<1>1. Cardinality(Owning) # 0
    BY ChatLaneFacts, SessionAssumption
<1>2. Owning # {}
    BY <1>1, FS_EmptySet
<1> QED
    BY <1>2 DEF Owning

\* The slot of a message: whoever is at or past the lock holds one, who is at the
\* lane has one or asked for one, who has not arrived or has left holds none.
SlotInv ==
    \A m \in Msg : /\ Past(m) \/ Waits(m) => laneStatus[m] = "held"
                   /\ pc[m] = "lane" => laneStatus[m] \in {"waiting", "granted", "held"}
                   /\ pc[m] = "done" => laneStatus[m] \in {"idle", "done"}
                   /\ pc[m] = "new" => laneStatus[m] = "idle"

\* A step that leaves the lane alone may move a message that has its slot on to
\* the lock, or answer one that never asked for a slot.
LEMMA SlotsAlone ==
    ASSUME SlotInv, UNCHANGED laneVars, Shape,
           NEW m \in Msg, NEW p \in {"lockwait", "locked", "run", "done"},
           pc' = [pc EXCEPT ![m] = p],
           \/ p \in {"lockwait", "locked", "run"} /\ laneStatus[m] = "held"
           \/ p = "done" /\ laneStatus[m] = "idle"
    PROVE  SlotInv'
    BY DEF Shape, SlotInv, laneVars, Past, Waits

\* A message arrives: it takes a slot, or queues for one.
LEMMA ArriveSlots ==
    ASSUME Shape, LaneLaws!IInv, SlotInv, NEW m \in Msg, Arrive(m)
    PROVE  SlotInv'
<1>1. laneStatus' \in {[laneStatus EXCEPT ![m] = "held"], [laneStatus EXCEPT ![m] = "waiting"]}
    BY DEF Arrive, ChatLane!AcquireFast, ChatLane!AcquireQueue
<1>2. pc' = [pc EXCEPT ![m] = "lane"]
    BY DEF Arrive
<1> QED
    BY <1>1, <1>2, ChatLaneFacts DEF Shape, SlotInv, Past, Waits

\* The continuation of a woken acquire(): the message owned its slot before.
LEMMA GrantedSlots ==
    ASSUME LaneLaws!IInv, SlotInv, NEW m \in Msg, LaneGranted(m)
    PROVE  SlotInv'
<1>1. /\ laneStatus[m] = "granted" /\ laneStatus' = [laneStatus EXCEPT ![m] = "held"]
      /\ pc' = pc
    BY DEF LaneGranted, ChatLane!Resume
<1> QED
    BY <1>1, ChatLaneFacts DEF SlotInv, Past, Waits

\* Leaving passes the slot of the message on to one that is not at the lock yet.
LEMMA LeaveSlots ==
    ASSUME LockInv, LaneLaws!IInv, SlotInv, NEW m \in Msg, Past(m), NEW STATE f, NEW STATE r, Leave(m, f, r)
    PROVE  SlotInv'
<1>1. laneStatus[m] = "held" /\ laneOf[m] = Chat
    BY ChatLaneFacts DEF SlotInv
<1>2. \A n \in Msg : /\ Past(n)' \/ Waits(n)' => n # m /\ (Past(n) \/ Waits(n))
                     /\ pc'[n] = "lane" => n # m /\ pc[n] = "lane"
                     /\ pc'[n] = "done" => n = m \/ pc[n] = "done"
                     /\ pc'[n] = "new" => pc[n] = "new"
  <2>1. pc \in [Msg -> {"new", "lane", "lockwait", "locked", "run", "done"}]
    BY DEF LockInv, Shape
  <2>2. pc' = [pc EXCEPT ![m] = "done"]
    BY DEF Leave
  <2> QED
    BY <2>1, <2>2 DEF Past, Waits
<1>3. CASE ChatLane!ReleaseHandOver(m)
  <2>1. PICK q \in Seq(Msg) : q = waiters[Chat] /\ q # <<>>
    BY <1>1, <1>3, ChatLaneFacts DEF ChatLane!ReleaseHandOver
  <2>2. PICK u \in Msg : u = Head(q) /\ u = q[1] /\ 1 \in DOMAIN q
    BY <2>1
  <2>3. laneStatus' = [laneStatus EXCEPT ![m] = "done", ![u] = "granted"]
    BY <1>1, <1>3, <2>1, <2>2 DEF ChatLane!ReleaseHandOver, ChatLane!NextWaiter
  <2>4. laneStatus[u] = "waiting"
    BY <2>1, <2>2, ChatLaneFacts
  <2>5. u # m /\ ~Past(u) /\ ~Waits(u) /\ pc[u] # "done" /\ pc[u] # "new"
    BY <1>1, <2>4 DEF SlotInv
  <2> QED
    BY <1>1, <1>2, <2>3, <2>5, ChatLaneFacts DEF SlotInv
<1>4. CASE ChatLane!ReleaseFree(m)
  <2>1. laneStatus' = [laneStatus EXCEPT ![m] = "done"]
    BY <1>4 DEF ChatLane!ReleaseFree
  <2> QED
    BY <1>1, <1>2, <2>1, ChatLaneFacts DEF SlotInv
<1> QED
    BY <1>3, <1>4 DEF Leave

\* Every step keeps the slots paired with their messages.
LEMMA StepSlots == ASSUME LockInv, LaneLaws!IInv, SlotInv, [Next]_vars PROVE SlotInv'
<1>1. Shape
    BY DEF LockInv
<1>2. ASSUME NEW m \in Msg, Arrive(m) \/ LaneGranted(m) PROVE SlotInv'
    BY <1>2, ArriveSlots, GrantedSlots DEF LockInv
<1>3. ASSUME NEW m \in Msg, AnswerFromContext(m) PROVE SlotInv'
  <2>1. pc' = [pc EXCEPT ![m] = "done"] /\ UNCHANGED laneVars /\ laneStatus[m] = "idle"
    BY <1>3 DEF AnswerFromContext, SlotInv
  <2> QED
    BY <1>1, <2>1, SlotsAlone
<1>4. ASSUME NEW m \in Msg, LockFree(m) PROVE SlotInv'
  <2>1. pc' = [pc EXCEPT ![m] = "locked"] /\ UNCHANGED laneVars /\ laneStatus[m] = "held"
    BY <1>4 DEF LockFree
  <2> QED
    BY <1>1, <2>1, SlotsAlone
<1>5. ASSUME NEW m \in Msg, LockBusy(m) PROVE SlotInv'
  <2>1. pc' = [pc EXCEPT ![m] = "lockwait"] /\ UNCHANGED laneVars /\ laneStatus[m] = "held"
    BY <1>5 DEF LockBusy
  <2> QED
    BY <1>1, <2>1, SlotsAlone
<1>6. ASSUME NEW m \in Msg, StartRun(m) PROVE SlotInv'
  <2>1. pc' = [pc EXCEPT ![m] = "run"] /\ UNCHANGED laneVars /\ laneStatus[m] = "held"
    BY <1>6 DEF StartRun, SlotInv, Past
  <2> QED
    BY <1>1, <2>1, SlotsAlone
<1>7. ASSUME pc' = pc, UNCHANGED laneVars PROVE SlotInv'
    BY <1>7 DEF SlotInv, laneVars, Past, Waits
<1>8. ASSUME NEW m \in Msg, ReturnEarly(m) \/ EndRun(m) PROVE SlotInv'
  <2>1. Past(m)
    BY <1>8 DEF ReturnEarly, EndRun, PlanReply, Succeed, FailAborted, FailError, FailOneMillion, Past
  <2>2. CASE ReturnEarly(m)
    BY <2>1, <2>2, LeaveSlots DEF ReturnEarly
  <2>3. CASE PlanReply(m)
    BY <2>1, <2>3, LeaveSlots DEF PlanReply
  <2>4. CASE Succeed(m)
    BY <2>1, <2>4, LeaveSlots DEF Succeed
  <2>5. CASE FailAborted(m)
    BY <2>1, <2>5, LeaveSlots DEF FailAborted
  <2>6. CASE FailError(m)
    BY <2>1, <2>6, LeaveSlots DEF FailError
  <2>7. CASE FailOneMillion(m)
    BY <2>1, <2>7, LeaveSlots DEF FailOneMillion
  <2> QED
    BY <1>8, <2>2, <2>3, <2>4, <2>5, <2>6, <2>7 DEF EndRun
<1>9. ASSUME NEW m \in Msg, Stream(m) \/ Timeout(m) PROVE SlotInv'
    BY <1>7, <1>9 DEF Stream, Timeout
<1>10. ASSUME NEW k \in Key, StopSession(k) \/ ClearSession(k) \/ EvictStale(k) PROVE SlotInv'
    BY <1>7, <1>10 DEF StopSession, ClearSession, EvictStale
<1>11. CASE UNCHANGED vars
    BY <1>7, <1>11 DEF vars
<1>12. ASSUME NEW m \in Msg, WakeFree(m) PROVE SlotInv'
  <2>1. lockQueue[m] # <<>>
    BY <1>12 DEF WakeFree
  <2>2. PICK w \in Msg : w = Head(lockQueue[m]) /\ Waits(w)
    BY <2>1, FirstOfQueue
  <2>3. pc' = [pc EXCEPT ![w] = "locked"] /\ UNCHANGED laneVars /\ laneStatus[w] = "held"
    BY <1>12, <2>2 DEF WakeFree, SlotInv
  <2> QED
    BY <1>1, <2>3, SlotsAlone
<1>13. ASSUME NEW m \in Msg, WakeBusy(m) PROVE SlotInv'
    BY <1>7, <1>13 DEF WakeBusy
<1> QED
    BY <1>2, <1>3, <1>4, <1>5, <1>6, <1>8, <1>9, <1>10, <1>11, <1>12, <1>13 DEF Next, Handle

\* At first no message has a slot.
LEMMA InitSlots == Init => SlotInv
    BY DEF Init, ChatLane!Init, SlotInv, Past, Waits

\* The chat lane's own invariant holds all along.
LEMMA ChatLaneInv == Spec => []LaneLaws!IInv
    BY KeepsToTheLane, SameLane, ChatLaneSetting, LaneLaws!Inductive, PTL

-----------------------------------------------------------------------------
\* At first nobody holds a lock, waits or has been aborted.
LEMMA InitInv == Init => LockInv /\ StopInv
<1> SUFFICES ASSUME Init PROVE LockInv /\ StopInv
    OBVIOUS
<1>1. Shape /\ AttachedLive
    BY DEF Init, Shape, AttachedLive
<1>2. \A k \in Key : LockOf(k) = NoMsg /\ SuppressOf(k) = NoMsg
    BY DEF Init, LockOf, SuppressOf
<1>3. \A m \in Msg : ~Past(m) /\ ~Waits(m) /\ lockQueue[m] = <<>>
    BY DEF Init, Past, Waits
<1>4. LockInv
    BY <1>1, <1>2, <1>3 DEF LockInv, HolderIsInside, LockIsLive, WaitersQueued, QueuesHoldWaiters,
                            OnlyServersHaveQueues
<1>5. StopInv
    BY <1>2 DEF Init, StopInv
<1> QED
    BY <1>4, <1>5

\* Every step keeps both invariants.
LEMMA StepKeeps == ASSUME LockInv, StopInv, [Next]_vars PROVE LockInv' /\ StopInv'
<1>1. ASSUME NEW m \in Msg, Quiet(m) PROVE LockInv' /\ StopInv'
    BY <1>1, QuietStepKeeps, HandleStops
<1>2. ASSUME NEW m \in Msg, LockFree(m) PROVE LockInv' /\ StopInv'
    BY <1>2, LockFreeKeeps, HandleStops
<1>3. ASSUME NEW m \in Msg, LockBusy(m) PROVE LockInv' /\ StopInv'
    BY <1>3, LockBusyKeeps, HandleStops
<1>4. ASSUME NEW m \in Msg, ReturnEarly(m) \/ EndRun(m) PROVE LockInv' /\ StopInv'
    BY <1>4, LeavingKeeps
<1>7. ASSUME NEW m \in Msg, WakeFree(m) PROVE LockInv' /\ StopInv'
    BY <1>7, WakeFreeKeeps, WakeStops
<1>8. ASSUME NEW m \in Msg, WakeBusy(m) PROVE LockInv' /\ StopInv'
    BY <1>8, WakeBusyKeeps, WakeStops
<1>5. ASSUME NEW k \in Key, StopSession(k) \/ ClearSession(k) \/ EvictStale(k) PROVE LockInv' /\ StopInv'
    BY <1>5, OutsideKeeps, OutsideStops
<1>6. CASE UNCHANGED vars
  <2>1. \A k \in Key : LockOf(k)' = LockOf(k) /\ SuppressOf(k)' = SuppressOf(k)
    BY <1>6, Unassigned DEF vars
  <2>2. LockInv'
    <3>1. /\ Shape' /\ AttachedLive'
          /\ \A m \in Msg : (Past(m)' <=> Past(m)) /\ (Waits(m)' <=> Waits(m)) /\ (Serves(m) => Serves(m)')
        BY <1>6 DEF vars, LockInv, Shape, AttachedLive, Past, Waits, Serves
    <3>2. key' = key /\ lockQueue' = lockQueue /\ cleared \subseteq cleared'
        BY <1>6 DEF vars
    <3> QED
        BY <2>1, <3>1, <3>2, QuietKeeps
  <2>3. StopInv'
    BY <1>6, <2>1, StopsKept DEF vars, LockInv, StopInv
  <2> QED
    BY <2>2, <2>3
<1> QED
    BY <1>1, <1>2, <1>3, <1>4, <1>5, <1>6, <1>7, <1>8 DEF Next, Handle, Quiet

\* One message of a session at a time past its lock, whatever is interrupted,
\* stopped, timed out or evicted (acquireSessionLock), as long as no clear
\* command hit the session.
THEOREM OneAtATime == Spec => []SerializedUnlessCleared
<1>1. LockInv => SerializedUnlessCleared
  <2> SUFFICES ASSUME LockInv, NEW k \in Key \ cleared PROVE Cardinality(Inside(k)) =< 1
    BY DEF SerializedUnlessCleared, Serialized
  <2>1. PICK x : x = LockOf(k)
    OBVIOUS
  <2>2. Inside(k) \in SUBSET {x}
    BY <2>1 DEF LockInv, HolderIsInside, Inside, Past
  <2>3. IsFiniteSet({x}) /\ Cardinality({x}) = 1
    BY FS_Singleton
  <2>4. Cardinality(Inside(k)) <= 1
    BY <2>2, <2>3, FS_Subset
  <2> QED
    BY <2>4
<1>2. LockInv /\ StopInv /\ [Next]_vars => (LockInv /\ StopInv)'
    BY StepKeeps
<1> QED
    BY <1>1, <1>2, InitInv, PTL DEF Spec

\* The lock names the message inside the session, and whoever waits for it awaits
\* a message inside, or one that has left and whose promise is resolved: no waiter
\* hangs on a promise nobody will resolve (acquireSessionLock and its release).
THEOREM WaitersFollow == Spec => []WaitersFollowHolder
<1>1. LockInv => WaitersFollowHolder
  <2> SUFFICES ASSUME LockInv, NEW k \in Key \ cleared
               PROVE  /\ \A m \in Inside(k) : session[k] # NoEntry /\ session[k].lock = m
                      /\ \A m \in Msg : key[m] = k /\ pc[m] = "lockwait" =>
                            \E h \in Msg : /\ h \in Inside(k) \/ (key[h] = k /\ pc[h] = "done")
                                           /\ \E i \in DOMAIN lockQueue[h] : lockQueue[h][i] = m
    BY DEF WaitersFollowHolder
  <2>1. ASSUME NEW m \in Inside(k) PROVE session[k] # NoEntry /\ session[k].lock = m
    <3>1. LockOf(k) = m /\ m \in Msg
        BY <2>1 DEF LockInv, HolderIsInside, Inside, Past
    <3> QED
        BY <3>1, SessionAssumption DEF LockOf
  <2>2. ASSUME NEW m \in Msg, key[m] = k, pc[m] = "lockwait"
        PROVE  \E h \in Msg : /\ h \in Inside(k) \/ (key[h] = k /\ pc[h] = "done")
                              /\ \E i \in DOMAIN lockQueue[h] : lockQueue[h][i] = m
    <3>1. PICK h \in Msg : /\ Serves(h) /\ key[h] = k
                          /\ \E i \in DOMAIN lockQueue[h] : lockQueue[h][i] = m
        BY <2>2 DEF LockInv, WaitersQueued, Waits
    <3>2. h \in Inside(k) \/ pc[h] = "done"
        BY <3>1 DEF Inside, Serves, Past
    <3> QED
        BY <3>1, <3>2
  <2> QED
    BY <2>1, <2>2
<1>2. LockInv /\ StopInv /\ [Next]_vars => (LockInv /\ StopInv)'
    BY StepKeeps
<1> QED
    BY <1>1, <1>2, InitInv, PTL DEF Spec

\* A run that timed out is never silent: no message and no stop that comes after
\* the timeout takes its answer away (the catch block of _handleMessageInner).
THEOREM TimeoutsReported == Spec => []TimeoutIsReported
<1>1. StopInv => TimeoutIsReported
    BY DEF StopInv, Superseded, TimeoutIsReported
<1>2. LockInv /\ StopInv /\ [Next]_vars => (LockInv /\ StopInv)'
    BY StepKeeps
<1> QED
    BY <1>1, <1>2, InitInv, PTL DEF Spec

\* The slot a message took of the chat lane is given back when it leaves, on every
\* path out of handleMessage, and the lane counts the messages that own one.
THEOREM SlotsAreReturned == Spec => []SlotPerMessage
<1>1. LaneLaws!IInv /\ SlotInv => SlotPerMessage
    BY ChatLaneFacts DEF SlotInv, SlotPerMessage, Owning
<1>2. LockInv /\ StopInv /\ [Next]_vars => (LockInv /\ StopInv)'
    BY StepKeeps
<1>3. LockInv /\ LaneLaws!IInv /\ SlotInv /\ [Next]_vars => SlotInv'
    BY StepSlots
<1> QED
    BY <1>1, <1>2, <1>3, ChatLaneInv, InitInv, InitSlots, PTL DEF Spec

-----------------------------------------------------------------------------
\* The types of the variables the invariants above do not speak about.
RestInv ==
    /\ attached \subseteq Msg
    /\ folded \in [Msg -> MsgOrNone]
    /\ reply \in [Msg -> {"none", "context", "early", "plan", "text", "silent", "stopped", "error"}]
    /\ cleared \subseteq Clearable

\* At first the other variables have their types.
LEMMA InitRest == Init => RestInv
    BY DEF Init, RestInv, MsgOrNone

\* Leaving writes one reply (the finally blocks).
LEMMA LeaveRest ==
    ASSUME LockInv, RestInv, NEW m \in Msg, NEW STATE f, NEW STATE r, Leave(m, f, r), attached' \subseteq attached,
           r \in {"early", "plan", "text", "silent", "stopped", "error"}
    PROVE  RestInv'
<1>1. reply' = [reply EXCEPT ![m] = r] /\ folded' = folded /\ cleared' = cleared
    BY DEF Leave
<1> QED
    BY <1>1 DEF RestInv

\* Every step keeps the types of the other variables.
LEMMA StepRest == ASSUME LockInv, RestInv, [Next]_vars PROVE RestInv'
<1>1. ASSUME attached' \subseteq Msg, reply' = reply, folded' = folded, cleared' = cleared PROVE RestInv'
    BY <1>1 DEF RestInv
<1>2. ASSUME NEW m \in Msg,
             \/ Arrive(m) \/ LaneGranted(m) \/ LockFree(m) \/ LockBusy(m)
             \/ WakeFree(m) \/ WakeBusy(m) \/ Stream(m) \/ Timeout(m)
      PROVE  RestInv'
  <2>1. attached' = attached /\ reply' = reply /\ folded' = folded /\ cleared' = cleared
    BY <1>2 DEF Arrive, LaneGranted, LockFree, LockBusy, WakeFree, WakeBusy, Stream, Timeout
  <2> QED
    BY <1>1, <2>1 DEF RestInv
<1>3. ASSUME NEW m \in Msg, AnswerFromContext(m) PROVE RestInv'
    BY <1>3 DEF AnswerFromContext, RestInv
<1>4. ASSUME NEW m \in Msg, StartRun(m) PROVE RestInv'
  <2>1. PICK k \in Key : k = key[m]
    BY DEF LockInv, Shape
  <2>2. Entry(k) \in SessionState
    BY EntryType DEF LockInv
  <2>3. Entry(k).pending \in MsgOrNone
    BY <2>2 DEF SessionState
  <2>4. /\ folded' = [folded EXCEPT ![m] = Entry(k).pending]
        /\ attached' = attached \cup {m} /\ reply' = reply /\ cleared' = cleared
    BY <1>4, <2>1 DEF StartRun
  <2> QED
    BY <2>3, <2>4 DEF RestInv
<1>5. ASSUME NEW m \in Msg, ReturnEarly(m) \/ PlanReply(m) \/ Succeed(m) \/ FailError(m) PROVE RestInv'
    BY <1>5, LeaveRest DEF ReturnEarly, PlanReply, Succeed, FailError
<1>6. ASSUME NEW m \in Msg, FailAborted(m) PROVE RestInv'
  <2> DEFINE e == WithoutController(session[key[m]])
             e2 == IF e # NoEntry /\ e.suppress = m THEN [e EXCEPT !.suppress = NoMsg] ELSE e
             r == IF Silenced(m) THEN "silent" ELSE "stopped"
  <2>1. Leave(m, e2, r) /\ attached' \subseteq attached
    BY <1>6 DEF FailAborted
  <2>2. r \in {"early", "plan", "text", "silent", "stopped", "error"}
    OBVIOUS
  <2> HIDE DEF e2, r
  <2> QED
    BY <2>1, <2>2, LeaveRest
<1>7. ASSUME NEW m \in Msg, FailOneMillion(m) PROVE RestInv'
  <2>1. attached' \subseteq attached
    BY <1>7 DEF FailOneMillion
  <2> QED
    BY <1>7, <2>1, LeaveRest DEF FailOneMillion
<1>8. ASSUME NEW k \in Key, StopSession(k) \/ ClearSession(k) \/ EvictStale(k) PROVE RestInv'
    BY <1>8 DEF StopSession, ClearSession, EvictStale, RestInv
<1>9. CASE UNCHANGED vars
    BY <1>9 DEF vars, RestInv
<1> QED
    BY <1>2, <1>3, <1>4, <1>5, <1>6, <1>7, <1>8, <1>9 DEF Next, Handle, EndRun

\* All a message carries through the handler is well formed, the counter of the
\* chat lane included, which never goes below zero.
THEOREM TypeCorrect == Spec => []TypeOK
<1>1. ASSUME LockInv, StopInv, LaneLaws!IInv, RestInv PROVE TypeOK
  <2>1. ChatLane!TypeOK
    BY <1>1, ChatLaneFacts
  <2> QED
    BY <1>1, <2>1 DEF TypeOK, LockInv, Shape, StopInv, Superseded, RestInv
<1>2. LockInv /\ StopInv /\ [Next]_vars => (LockInv /\ StopInv)'
    BY StepKeeps
<1>3. LockInv /\ RestInv /\ [Next]_vars => RestInv'
    BY StepRest
<1> QED
    BY <1>1, <1>2, <1>3, ChatLaneInv, InitInv, InitRest, PTL DEF Spec

-----------------------------------------------------------------------------
\* At most ChatLimit messages are past the lane, running, at a lock or waiting.
LaneIsTheBound == Cardinality({m \in Msg : pc[m] \in {"lockwait", "locked", "run"}}) =< ChatLimit

\* The chat never has more messages at work than the lane has slots, the messages
\* that only wait for their session included: acquireSessionLock is called with
\* the slot of handleMessage in hand, so that a burst to one session fills the
\* lane for all.
THEOREM LaneBoundsTheChat == Spec => []LaneIsTheBound
<1>1. ASSUME LaneLaws!IInv, SlotInv PROVE LaneIsTheBound
  <2> DEFINE S == {m \in Msg : pc[m] \in {"lockwait", "locked", "run"}}
  <2>1. active[Chat] = Cardinality(Owning)
    BY <1>1, ChatLaneFacts
  <2>2. active[Chat] =< ChatLimit
    BY <1>1 DEF LaneLaws!IInv, LaneLaws!CounterWithinLimit
  <2>3. S \subseteq Owning
    BY <1>1 DEF SlotInv, Owning, Past, Waits
  <2>4. Cardinality(S) =< Cardinality(Owning) /\ IsFiniteSet(S)
    BY <2>3, OwningFinite, FS_Subset
  <2>5. Cardinality(S) \in Nat /\ Cardinality(Owning) \in Nat /\ ChatLimit \in Nat
    BY <2>4, OwningFinite, FS_CardinalityType, SessionAssumption
  <2> QED
    BY <2>1, <2>2, <2>4, <2>5 DEF LaneIsTheBound
<1>2. LockInv /\ StopInv /\ [Next]_vars => (LockInv /\ StopInv)'
    BY StepKeeps
<1>3. LockInv /\ LaneLaws!IInv /\ SlotInv /\ [Next]_vars => SlotInv'
    BY StepSlots
<1> QED
    BY <1>1, <1>2, <1>3, ChatLaneInv, InitInv, InitSlots, PTL DEF Spec

\* No slot of the chat lane is idle while a message queues for one, and the
\* messages queue in the order of their arrival.
THEOREM ChatLaneIsFair == Spec => []LaneLaws!NoIdleSlot /\ LaneLaws!NoOvertaking
    BY KeepsToTheLane, SameLane, ChatLaneSetting, LaneLaws!NoLostWakeUp, LaneLaws!FirstComeFirstServed, PTL

-----------------------------------------------------------------------------
\* The guards of what the handler does next with a message (LaneGranted, LockFree
\* or LockBusy, ReturnEarly, StartRun and EndRun), or, once it has left, of the
\* continuations of those who awaited its promise (WakeFree or WakeBusy).
CanGo(m) ==
    \/ pc[m] = "lane" /\ laneStatus[m] \in {"granted", "held"}
    \/ pc[m] \in {"locked", "run"} /\ laneStatus[m] = "held"
    \/ pc[m] = "done" /\ lockQueue[m] # <<>>

\* A message under way goes on by itself, unless it waits for its session or for
\* a slot.  In its session somebody goes on then, who is where it is queued; if
\* all slots are taken, then somebody in the lane goes on.
ChatGoesOn ==
    \A m \in Msg : pc[m] \notin {"new", "done"} =>
        \/ CanGo(m)
        \/ /\ pc[m] = "lockwait"
           /\ \E h \in Msg : /\ key[h] = key[m] /\ CanGo(h)
                             /\ \E i \in DOMAIN lockQueue[h] : lockQueue[h][i] = m
        \/ /\ pc[m] = "lane" /\ laneStatus[m] = "waiting"
           /\ active[Chat] = ChatLimit
           /\ \E h \in Msg : CanGo(h)

\* The chat never waits for itself: a message holds its slot of the lane while it
\* waits for its session, and others wait for slots meanwhile, yet whatever is
\* interrupted, stopped, evicted or cleared, there is always somebody to go on
\* (acquireSessionLock within the lane of handleMessage).  A cleared session may
\* have several inside; it has no waiter that nobody wakes either.
THEOREM ChatCannotStall == Spec => []ChatGoesOn
<1>1. ASSUME LockInv, LaneLaws!IInv, SlotInv PROVE ChatGoesOn
  <2>1. \A m \in Msg : Waits(m) =>
            \E h \in Msg : /\ key[h] = key[m] /\ CanGo(h)
                           /\ \E i \in DOMAIN lockQueue[h] : lockQueue[h][i] = m
    <3> SUFFICES ASSUME NEW m \in Msg, Waits(m)
                 PROVE  \E h \in Msg : /\ key[h] = key[m] /\ CanGo(h)
                                       /\ \E i \in DOMAIN lockQueue[h] : lockQueue[h][i] = m
        OBVIOUS
    <3>1. PICK h \in Msg : /\ Serves(h) /\ key[h] = key[m]
                          /\ \E i \in DOMAIN lockQueue[h] : lockQueue[h][i] = m
        BY <1>1 DEF LockInv, WaitersQueued
    <3>2. lockQueue[h] # <<>>
        BY <3>1
    <3>3. Past(h) => laneStatus[h] = "held"
        BY <1>1 DEF SlotInv
    <3> QED
        BY <3>1, <3>2, <3>3 DEF CanGo, Serves, Past
  <2>2. ASSUME NEW m \in Msg, pc[m] = "lane", laneStatus[m] = "waiting"
        PROVE  active[Chat] = ChatLimit /\ \E h \in Msg : CanGo(h)
    <3>1. active[Chat] = ChatLimit
        BY <1>1, <2>2, LaneFull
    <3>2. PICK n \in Msg : laneStatus[n] \in {"granted", "held"}
        BY <1>1, <3>1, FullHasOwner
    <3>3. Past(n) \/ Waits(n) \/ pc[n] = "lane"
        BY <1>1, <3>2 DEF SlotInv, LockInv, Shape, Past, Waits
    <3>4. CASE Waits(n)
        BY <2>1, <3>1, <3>4
    <3>5. CASE Past(n) \/ pc[n] = "lane"
        BY <1>1, <3>1, <3>2, <3>5 DEF CanGo, SlotInv, Past
    <3> QED
        BY <3>3, <3>4, <3>5
  <2>3. ASSUME NEW m \in Msg, pc[m] \notin {"new", "done"}
        PROVE  CanGo(m) \/ Waits(m) \/ (pc[m] = "lane" /\ laneStatus[m] = "waiting")
    BY <1>1, <2>3 DEF LockInv, Shape, SlotInv, CanGo, Past, Waits
  <2> QED
    BY <2>1, <2>2, <2>3 DEF ChatGoesOn, Waits
<1>2. LockInv /\ StopInv /\ [Next]_vars => (LockInv /\ StopInv)'
    BY StepKeeps
<1>3. LockInv /\ LaneLaws!IInv /\ SlotInv /\ [Next]_vars => SlotInv'
    BY StepSlots
<1> QED
    BY <1>1, <1>2, <1>3, ChatLaneInv, InitInv, InitSlots, PTL DEF Spec

=============================================================================
