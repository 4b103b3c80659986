---------------------------- MODULE SessionLock ----------------------------
(***************************************************************************)
(* How the gateway serialises the messages of a chat session               *)
(* (gateway/router.ts: acquireSessionLock, stopSession, clearSession,      *)
(* evictStaleSessions and the spine of _handleMessageInner), on top of the *)
(* chat lane of gateway/lanes.ts.                                          *)
(*                                                                         *)
(* A message first takes a slot of the chat lane, then the lock of its     *)
(* session; it may answer early, or register an AbortController and run    *)
(* the agent.  A newer message interrupts a running one and folds what it  *)
(* had streamed so far into its own prompt.                                *)
(*                                                                         *)
(* A message stands for its lock promise, its abort controller and its     *)
(* streamed text alike: they are created by it and compared by identity.   *)
(* A lock promise is resolved by exactly one release(), that of the        *)
(* message which is then "done"; the continuations of its awaits run one   *)
(* by one in their order, and another message may come to the lock first.  *)
(***************************************************************************)
EXTENDS Naturals, Sequences, FiniteSets

CONSTANTS Msg,            \* the messages users send
          Key,            \* session keys
          NoMsg, NoEntry, \* absent promise/controller/text; absent map entry
          Chat, NoLane,   \* the chat lane, and no lane
          ChatLimit,      \* slots of the chat lane
          BusyMode,       \* CLEMENTINE_BUSY_INPUT_MODE
          Clearable       \* the sessions a clear command may hit, once each

MsgOrNone == Msg \cup {NoMsg}
SessionState == [lock : MsgOrNone, ac : MsgOrNone, suppress : MsgOrNone,
                 pending : MsgOrNone, streamed : MsgOrNone]

ASSUME SessionAssumption ==
    /\ BusyMode \in {"interrupt", "queue"}
    /\ ChatLimit \in Nat \ {0}
    /\ Clearable \subseteq Key
    /\ IsFiniteSet(Msg)
    /\ NoMsg \notin Msg /\ NoEntry \notin SessionState
    /\ NoLane # Chat

VARIABLES active, waiters, laneStatus, laneOf,  \* the chat lane
          session,    \* the map Gateway.sessions
          key,        \* the session a message belongs to
          pc,         \* how far a message has got
          lockQueue,  \* who awaits the lock promise of a message, in order
          abortedBy,  \* abort reason of the controller of a message
          attached,   \* runs whose captured session object is still in the map
          folded,     \* whose partial text was folded into a message's prompt
          reply,      \* what the user got
          cleared     \* the sessions a clear command has hit

laneVars == <<active, waiters, laneStatus, laneOf>>
vars == <<laneVars, session, key, pc, lockQueue, abortedBy, attached, folded,
          reply, cleared>>

ChatLane == INSTANCE Lanes WITH Lane <- {Chat}, Limit <- [l \in {Chat} |-> ChatLimit],
                                Ticket <- Msg, status <- laneStatus

Fresh == [lock |-> NoMsg, ac |-> NoMsg, suppress |-> NoMsg,
          pending |-> NoMsg, streamed |-> NoMsg]

\* getSession(key)
Entry(k) == IF session[k] = NoEntry THEN Fresh ELSE session[k]

Init ==
    /\ ChatLane!Init
    /\ session = [k \in Key |-> NoEntry]
    /\ key \in [Msg -> Key]
    /\ pc = [m \in Msg |-> "new"]
    /\ lockQueue = [m \in Msg |-> <<>>]
    /\ abortedBy = [m \in Msg |-> "no"]
    /\ attached = {}
    /\ folded = [m \in Msg |-> NoMsg]
    /\ reply = [m \in Msg |-> "none"]
    /\ cleared = {}

-----------------------------------------------------------------------------
\* Mutant: an aborted controller is aborted again.
AbortableTwice(s) == s.ac # NoMsg

\* s.abortController && !s.abortController.signal.aborted
Abortable(s) == s.ac # NoMsg /\ abortedBy[s.ac] = "no"

\* AbortController.abort(reason): the first reason stays.
Abort(m, why) == abortedBy' = [abortedBy EXCEPT ![m] = IF @ = "no" THEN why ELSE @]

\* handleMessage up to `await lanes.acquire('chat')`.
Arrive(m) ==
    /\ pc[m] = "new"
    /\ ChatLane!AcquireFast(m, Chat) \/ ChatLane!AcquireQueue(m, Chat)
    /\ pc' = [pc EXCEPT ![m] = "lane"]
    /\ UNCHANGED <<session, key, lockQueue, abortedBy, attached, folded, reply, cleared>>

\* A message answered from the recent operational context: no lane, no lock,
\* but it replaces the run in flight.
AnswerFromContext(m) ==
    LET s == Entry(key[m]) IN
    /\ pc[m] = "new"
    /\ pc' = [pc EXCEPT ![m] = "done"]
    /\ reply' = [reply EXCEPT ![m] = "context"]
    /\ IF session[key[m]] # NoEntry /\ Abortable(s)
       THEN /\ session' = [session EXCEPT ![key[m]].suppress = s.ac]
            /\ Abort(s.ac, "recent-context")
       ELSE UNCHANGED <<session, abortedBy>>
    /\ UNCHANGED <<laneVars, key, lockQueue, attached, folded, cleared>>

LaneGranted(m) ==
    /\ ChatLane!Resume(m)
    /\ UNCHANGED <<session, key, pc, lockQueue, abortedBy, attached, folded, reply, cleared>>

-----------------------------------------------------------------------------
\* acquireSessionLock: the session is free.
LockFree(m) ==
    LET k == key[m] IN
    /\ pc[m] = "lane" /\ laneStatus[m] = "held"
    /\ Entry(k).lock = NoMsg
    /\ session' = [session EXCEPT ![k] = [Entry(k) EXCEPT !.lock = m]]
    /\ pc' = [pc EXCEPT ![m] = "locked"]
    /\ UNCHANGED <<laneVars, key, lockQueue, abortedBy, attached, folded, reply, cleared>>

\* A new message interrupts when the mode says so and a live controller is there.
Interrupts(s) == BusyMode = "interrupt" /\ Abortable(s)

\* The run in flight is to fall silent; what it streamed waits for its successor.
Interrupted(s) == [s EXCEPT !.pending = s.streamed, !.suppress = s.ac]

\* acquireSessionLock: the session is busy.  Interrupt its run, or just queue.
LockBusy(m) ==
    LET k == key[m]
        s == Entry(k)
    IN
    /\ pc[m] = "lane" /\ laneStatus[m] = "held"
    /\ s.lock # NoMsg
    /\ IF Interrupts(s)
       THEN /\ session' = [session EXCEPT ![k] = Interrupted(s)]
            /\ Abort(s.ac, "new-message")
       ELSE UNCHANGED <<session, abortedBy>>
    /\ lockQueue' = [lockQueue EXCEPT ![s.lock] = Append(@, m)]
    /\ pc' = [pc EXCEPT ![m] = "lockwait"]
    /\ UNCHANGED <<laneVars, key, attached, folded, reply, cleared>>

\* Mutant: `if` in place of `while`: a woken message does not look again.
WakeOnce(m) ==
    LET w == Head(lockQueue[m])
        k == key[w]
    IN
    /\ pc[m] = "done" /\ lockQueue[m] # <<>>
    /\ session' = [session EXCEPT ![k] = [Entry(k) EXCEPT !.lock = w]]
    /\ lockQueue' = [lockQueue EXCEPT ![m] = Tail(@)]
    /\ pc' = [pc EXCEPT ![w] = "locked"]
    /\ UNCHANGED <<laneVars, key, abortedBy, attached, folded, reply, cleared>>

\* `while (s.lock)`: the next message that awaited the promise of m goes on...
WakeFree(m) ==
    LET w == Head(lockQueue[m])
        k == key[w]
    IN
    /\ pc[m] = "done" /\ lockQueue[m] # <<>>
    /\ Entry(k).lock = NoMsg
    /\ session' = [session EXCEPT ![k] = [Entry(k) EXCEPT !.lock = w]]
    /\ lockQueue' = [lockQueue EXCEPT ![m] = Tail(@)]
    /\ pc' = [pc EXCEPT ![w] = "locked"]
    /\ UNCHANGED <<laneVars, key, abortedBy, attached, folded, reply, cleared>>

\* ...or awaits the one who has the session by now.
WakeBusy(m) ==
    LET w == Head(lockQueue[m])
        h == Entry(key[w]).lock
    IN
    /\ pc[m] = "done" /\ lockQueue[m] # <<>>
    /\ h # NoMsg
    /\ lockQueue' = [lockQueue EXCEPT ![m] = Tail(@), ![h] = Append(@, w)]
    /\ UNCHANGED <<laneVars, session, key, pc, abortedBy, attached, folded, reply, cleared>>

\* Register the controller and fold the pending interrupt: no await between.
StartRun(m) ==
    LET k == key[m]
        s == Entry(k)
    IN
    /\ pc[m] = "locked"
    /\ session' = [session EXCEPT ![k] = [s EXCEPT !.ac = m, !.pending = NoMsg]]
    /\ folded' = [folded EXCEPT ![m] = s.pending]
    /\ attached' = attached \cup {m}
    /\ pc' = [pc EXCEPT ![m] = "run"]
    /\ UNCHANGED <<laneVars, key, lockQueue, abortedBy, reply, cleared>>

\* wrappedOnText writes to the session object captured when the run started.
Stream(m) ==
    /\ pc[m] = "run"
    /\ m \in attached
    /\ session' = [session EXCEPT ![key[m]].streamed = m]
    /\ UNCHANGED <<laneVars, key, pc, lockQueue, abortedBy, attached, folded, reply, cleared>>

\* The idle timer or the hard wall timer fires.
Timeout(m) ==
    /\ pc[m] = "run"
    /\ abortedBy[m] = "no"
    /\ Abort(m, "timeout")
    /\ UNCHANGED <<laneVars, session, key, pc, lockQueue, attached, folded, reply, cleared>>

-----------------------------------------------------------------------------
\* Mutant: release() deletes the lock and does not resolve the promise.
LeaveUnresolved(m, e, r) ==
    /\ session' = [session EXCEPT ![key[m]] = IF e = NoEntry THEN e ELSE [e EXCEPT !.lock = NoMsg]]
    /\ pc' = [pc EXCEPT ![m] = "done"]
    /\ reply' = [reply EXCEPT ![m] = r]
    /\ lockQueue' = [lockQueue EXCEPT ![m] = <<>>]
    /\ ChatLane!ReleaseHandOver(m) \/ ChatLane!ReleaseFree(m)
    /\ UNCHANGED <<key, abortedBy, folded, cleared>>

\* The two finally blocks: release() deletes the lock of the CURRENT entry and
\* resolves the promise of m; then releaseLane().  e is the entry of the session
\* when the blocks are reached.
Leave(m, e, r) ==
    /\ session' = [session EXCEPT ![key[m]] = IF e = NoEntry THEN e ELSE [e EXCEPT !.lock = NoMsg]]
    /\ pc' = [pc EXCEPT ![m] = "done"]
    /\ reply' = [reply EXCEPT ![m] = r]
    /\ ChatLane!ReleaseHandOver(m) \/ ChatLane!ReleaseFree(m)
    /\ UNCHANGED <<key, lockQueue, abortedBy, folded, cleared>>

\* Mutant: an early return outside the try block keeps its lane slot.
ReturnEarlyKeepsSlot(m) ==
    /\ pc[m] = "locked"
    /\ lockQueue[m] = <<>>
    /\ pc' = [pc EXCEPT ![m] = "done"]
    /\ session' = [session EXCEPT ![key[m]] = NoEntry]
    /\ reply' = [reply EXCEPT ![m] = "early"]
    /\ UNCHANGED <<laneVars, key, lockQueue, abortedBy, attached, folded, cleared>>

\* Answered without running the agent: blocked, denied, check-in, decision...
ReturnEarly(m) ==
    /\ pc[m] = "locked"
    /\ Leave(m, session[key[m]], "early")
    /\ UNCHANGED attached

\* Mutant: the field is set to a value no reader expects.
ControllerUndefined(e) == IF e = NoEntry THEN e ELSE [e EXCEPT !.ac = NoEntry]

\* Without the controller: what the catch block and the plan-mode return do.
WithoutController(e) == IF e = NoEntry THEN e ELSE [e EXCEPT !.ac = NoMsg]

\* Plan mode answers before the agent runs.
PlanReply(m) ==
    /\ pc[m] = "run"
    /\ Leave(m, WithoutController(session[key[m]]), "plan")
    /\ UNCHANGED attached

\* The agent returns a result: the entry keeps its controller.
EntryAfterSuccess(m) == session[key[m]]
Succeed(m) ==
    /\ pc[m] = "run"
    /\ Leave(m, EntryAfterSuccess(m), "text")
    /\ UNCHANGED attached

\* The catch block of an aborted run: silent when a newer message, the recent
\* context or the user replaced it, "Stopped" otherwise.
Silenced(m) ==
    \/ session[key[m]] # NoEntry /\ session[key[m]].suppress = m
    \/ abortedBy[m] \in {"new-message", "recent-context", "user-stop"}

FailAborted(m) ==
    LET e == WithoutController(session[key[m]])
        e2 == IF e # NoEntry /\ e.suppress = m THEN [e EXCEPT !.suppress = NoMsg] ELSE e
    IN
    /\ pc[m] = "run"
    /\ abortedBy[m] # "no"
    /\ Leave(m, e2, IF Silenced(m) THEN "silent" ELSE "stopped")
    /\ UNCHANGED attached

\* The catch block of a run that failed by itself.  (A context overflow clears the
\* assistant's transcript of the session, assistant.clearSession, and leaves the
\* gateway's entry and its lock as they are.)
FailError(m) ==
    /\ pc[m] = "run"
    /\ abortedBy[m] = "no"
    /\ Leave(m, WithoutController(session[key[m]]), "error")
    /\ UNCHANGED attached

\* one_million_context: the handler clears its own session before it leaves.
FailOneMillion(m) ==
    /\ pc[m] = "run"
    /\ abortedBy[m] = "no"
    /\ Leave(m, NoEntry, "error")
    /\ attached' = {n \in attached : key[n] # key[m]}

EndRun(m) == PlanReply(m) \/ Succeed(m) \/ FailAborted(m) \/ FailError(m) \/ FailOneMillion(m)

-----------------------------------------------------------------------------
\* stopSession, when it finds something to abort (otherwise it changes nothing).
StopSession(k) ==
    /\ session[k] # NoEntry
    /\ Abortable(session[k])
    /\ session' = [session EXCEPT ![k].suppress = session[k].ac]
    /\ Abort(session[k].ac, "user-stop")
    /\ UNCHANGED <<laneVars, key, pc, lockQueue, attached, folded, reply, cleared>>

\* clearSession, from a channel command, whatever the session is doing.
ClearSession(k) ==
    /\ k \in Clearable \ cleared
    /\ session[k] # NoEntry
    /\ session' = [session EXCEPT ![k] = NoEntry]
    /\ attached' = {n \in attached : key[n] # k}
    /\ cleared' = cleared \cup {k}
    /\ UNCHANGED <<laneVars, key, pc, lockQueue, abortedBy, folded, reply>>

InFlight(k) == {m \in Msg : key[m] = k /\ pc[m] \notin {"new", "done"}}

\* evictStaleSessions; an entry untouched for 48 h has no message in flight.
EvictStale(k) ==
    /\ session[k] # NoEntry
    /\ InFlight(k) = {}
    /\ session[k].lock = NoMsg
    /\ session[k].ac = NoMsg
    /\ session' = [session EXCEPT ![k] = NoEntry]
    /\ attached' = {n \in attached : key[n] # k}
    /\ UNCHANGED <<laneVars, key, pc, lockQueue, abortedBy, folded, reply, cleared>>

Handle(m) ==
    \/ Arrive(m) \/ AnswerFromContext(m) \/ LaneGranted(m)
    \/ LockFree(m) \/ LockBusy(m) \/ WakeFree(m) \/ WakeBusy(m) \/ ReturnEarly(m)
    \/ StartRun(m) \/ Stream(m) \/ Timeout(m) \/ EndRun(m)

Next ==
    \/ \E m \in Msg : Handle(m)
    \/ \E k \in Key : StopSession(k) \/ ClearSession(k) \/ EvictStale(k)

Spec == Init /\ [][Next]_vars

\* Continuations run; a run ends, because both timers abort it and the SDK
\* honours the signal; the eviction sweep is periodic.  Users owe nothing.
Fairness ==
    /\ \A m \in Msg : /\ WF_vars(LaneGranted(m))
                      /\ WF_vars(LockFree(m) \/ LockBusy(m))
                      /\ WF_vars(WakeFree(m) \/ WakeBusy(m))
                      /\ WF_vars(ReturnEarly(m) \/ StartRun(m))
                      /\ WF_vars(EndRun(m))
    /\ \A k \in Key : WF_vars(EvictStale(k))
FairSpec == Spec /\ Fairness

-----------------------------------------------------------------------------
TypeOK ==
    /\ ChatLane!TypeOK
    /\ session \in [Key -> SessionState \cup {NoEntry}]
    /\ key \in [Msg -> Key]
    /\ pc \in [Msg -> {"new", "lane", "lockwait", "locked", "run", "done"}]
    /\ lockQueue \in [Msg -> Seq(Msg)]
    /\ abortedBy \in [Msg -> {"no", "new-message", "recent-context", "user-stop", "timeout"}]
    /\ attached \subseteq Msg
    /\ folded \in [Msg -> MsgOrNone]
    /\ reply \in [Msg -> {"none", "context", "early", "plan", "text", "silent", "stopped", "error"}]
    /\ cleared \subseteq Clearable

\* The messages of a session past its lock.
Inside(k) == {m \in Msg : key[m] = k /\ pc[m] \in {"locked", "run"}}

\* "Serialize access to a session": one message of a session at a time.
Serialized(k) == Cardinality(Inside(k)) =< 1

\* Whatever is interrupted, timed out, stopped or evicted, a session handles one
\* message at a time as long as no clear command has discarded its lock.
SerializedUnlessCleared == \A k \in Key \ cleared : Serialized(k)

\* The lock of a session names the message inside it, and everyone who waits
\* for the session awaits the promise of that message, or one already resolved
\* and is about to look again: no waiter is left on a promise nobody resolves.
WaitersFollowHolder ==
    \A k \in Key \ cleared :
        /\ \A m \in Inside(k) : session[k] # NoEntry /\ session[k].lock = m
        /\ \A m \in Msg : key[m] = k /\ pc[m] = "lockwait" =>
              \E h \in Msg : /\ h \in Inside(k) \/ (key[h] = k /\ pc[h] = "done")
                             /\ \E i \in DOMAIN lockQueue[h] : lockQueue[h][i] = m

\* A run that timed out is reported to its user ("Stopped..."), never silenced
\* by a message or a stop that came after the timeout.
TimeoutIsReported ==
    \A m \in Msg : abortedBy[m] = "timeout" => reply[m] # "silent"

\* The slot of the chat lane a message took is given back exactly when the
\* message leaves, on every path through the handler.
SlotPerMessage ==
    active[Chat] = Cardinality({m \in Msg : laneStatus[m] \in {"granted", "held"}})
    /\ \A m \in Msg : pc[m] = "done" => laneStatus[m] \in {"idle", "done"}

\* Every message is answered, whatever is interrupted, stopped or cleared.
EveryMessageAnswered == \A m \in Msg : pc[m] = "lane" ~> pc[m] = "done"

=============================================================================
