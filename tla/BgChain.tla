------------------------------ MODULE BgChain ------------------------------
(***************************************************************************)
(* A chain: a plan of steps, proposed and approved in chat                 *)
(* (gateway/router.ts _maybeHandlePlanMode), each step a background task   *)
(* (agent/bg-orchestrator.ts), advanced when the task of a step settles    *)
(* (gateway/cron-scheduler.ts advanceChainAfterStep), beside the tasks of  *)
(* BackgroundTasks that belong to no chain.  One chat session.             *)
(*                                                                         *)
(* The plan is one JSON file and a task another: dispatchChain and         *)
(* advanceChain write both, the task first, and a crash can come between.  *)
(***************************************************************************)
EXTENDS BackgroundTasks

CONSTANTS Chain,      \* plan ids
          Project,    \* the plans saved in the directory of a project
          NSteps      \* steps of a plan

Step == 1..NSteps

ASSUME ChainAssumption ==
    /\ NSteps \in Nat \ {0}
    /\ "none" \notin Chain
    /\ Project \subseteq Chain
    /\ StepTask = Chain \X Step

VARIABLES plan,      \* status of the plan file
          step,      \* status of each step in the plan file
          settled,   \* step tasks whose chain is about to move, and the status read
          saving,    \* at most one plan still to be saved, its task being created
          asking,    \* plan the planner is writing
          offered,   \* planAwaitingApproval of the session's entry
          held,      \* the one on the entry that the message under way has read
          attached,  \* that entry is still the session's
          dropped,   \* plans asked for or offered when the session was cleared,
                     \* but for one that a message was about to act on
          hurt       \* chains a crash met with a worker or an unfinished move

talkVars == <<asking, offered, held, attached, dropped>>
chainVars == <<plan, step, settled, saving, talkVars, hurt>>
allVars == <<vars, chainVars>>

None == "none"
PlanStatus == {"none", "pending", "in_progress", "paused", "completed"}
StepStatus == {"pending", "running", "done", "failed"}

ChainInit ==
    /\ Init
    /\ plan = [c \in Chain |-> "none"]
    /\ step = [c \in Chain |-> [i \in Step |-> "pending"]]
    /\ settled = [s \in StepTask |-> None]
    /\ saving = {}
    /\ asking = None
    /\ offered = None
    /\ held = None
    /\ attached = FALSE
    /\ dropped = {}
    /\ hurt = {}

\* The daemon is one thread: between two writes of a function only another
\* process, or a crash, can come.
Idle == up /\ saving = {}

-----------------------------------------------------------------------------
(* The conversation.  The session handles one message at a time.           *)

\* A new id, for a new plan or a revised one.
Fresh(c) == plan[c] = "none" /\ c # asking /\ c \notin dropped

\* "/plan" on an entry without an offer; or a message that has read the offer asks
\* for a revision, and the plan stays on offer meanwhile.
Ask(c) ==
    /\ Idle /\ asking = None
    /\ held # None \/ offered = None
    /\ Fresh(c)
    /\ asking' = c
    /\ held' = None
    /\ attached' = IF held = None THEN TRUE ELSE attached
    /\ UNCHANGED <<vars, plan, step, settled, saving, offered, dropped, hurt>>

\* A message meets an offer: it has read the entry, and three imports are awaited
\* before it decides.
ReadEntry ==
    /\ Idle /\ asking = None /\ held = None /\ offered # None
    /\ held' = offered
    /\ attached' = TRUE
    /\ UNCHANGED <<vars, plan, step, settled, saving, asking, offered, dropped, hurt>>

\* It is about something else: normal chat.
LetPass ==
    /\ Idle /\ held # None
    /\ held' = None
    /\ UNCHANGED <<vars, plan, step, settled, saving, asking, offered, attached, dropped, hurt>>

\* delete sess.planAwaitingApproval, on the entry that was read.
TakeOffer ==
    /\ held' = None
    /\ offered' = IF attached THEN None ELSE offered

\* The owner says no, or the plan is not found in the project active by then.
Decline ==
    /\ Idle /\ held # None
    /\ TakeOffer
    /\ UNCHANGED <<vars, plan, step, settled, saving, asking, attached, dropped, hurt>>

\* Mutant: the plan is offered by the session of the moment.
PlanReadyReattached ==
    /\ Idle /\ asking # None
    /\ plan' = [plan EXCEPT ![asking] = "pending"]
    /\ offered' = asking
    /\ asking' = None
    /\ UNCHANGED <<vars, step, settled, saving, held, attached, dropped, hurt>>

\* The planner answers: the plan is saved and offered, on the entry that was
\* read before the planner was asked.
PlanReady ==
    /\ Idle /\ asking # None
    /\ plan' = [plan EXCEPT ![asking] = "pending"]
    /\ offered' = IF attached THEN asking ELSE offered
    /\ asking' = None
    /\ UNCHANGED <<vars, step, settled, saving, held, attached, dropped, hurt>>

PlanFails ==
    /\ Idle /\ asking # None
    /\ asking' = None
    /\ UNCHANGED <<vars, plan, step, settled, saving, offered, held, attached, dropped, hurt>>

\* clearSession deletes the entry, whatever message is being handled.
ClearSession ==
    /\ Idle
    /\ dropped' = dropped \cup ({asking, offered} \ {None, held})
    /\ offered' = None
    /\ attached' = FALSE
    /\ UNCHANGED <<vars, plan, step, settled, saving, asking, held, hurt>>

\* The task of step i is created; the plan p with steps f waits to be saved.
Queue(c, i, p, f) ==
    /\ status' = [status EXCEPT ![<<c, i>>] = "pending"]
    /\ saving' = {[chain |-> c, plan |-> p, step |-> f]}
    /\ UNCHANGED <<up, worker, crashes, plan, step>>

\* The owner approves: dispatchChain, on the plan the message has read, whatever
\* became of the session's entry.
Approve(c) ==
    /\ Idle /\ held = c
    /\ Queue(c, 1, "in_progress", [step[c] EXCEPT ![1] = "running"])
    /\ TakeOffer
    /\ UNCHANGED <<told, stamped, settled, asking, attached, dropped, hurt>>

\* savePlan, after the task was written.
SavePlan ==
    /\ up
    /\ \E w \in saving : /\ plan' = [plan EXCEPT ![w.chain] = w.plan]
                        /\ step' = [step EXCEPT ![w.chain] = w.step]
    /\ saving' = {}
    /\ UNCHANGED <<vars, settled, talkVars, hurt>>

-----------------------------------------------------------------------------
(* The chain.                                                              *)

\* Mutant: the callback passes on what the worker did, not what the file says.
ReadBackWorker(t, s) == s

\* loadBackgroundTask(id) ?? started, after the file was updated.
ReadBack(t, s) == IF status[t] = "cleared" THEN "running" ELSE Outcome(t, s)

\* Mutant: only a worker that succeeds calls back.
SettleStepDoneOnly(t, s) ==
    /\ Settle(t, s)
    /\ settled' = [settled EXCEPT ![t] = IF s = "done" THEN ReadBack(t, s) ELSE None]
    /\ UNCHANGED <<plan, step, saving, talkVars, hurt>>

\* The worker of a step settles, and the callback awaits two imports.
SettleStep(t, s) ==
    /\ Settle(t, s)
    /\ settled' = [settled EXCEPT ![t] = ReadBack(t, s)]
    /\ UNCHANGED <<plan, step, saving, talkVars, hurt>>

\* advanceChain looks in the global directory only.
Found(c) == plan[c] # "none" /\ c \notin Project

\* The first step after i that the plan has not queued.
IsNext(f, i, j) == j > i /\ f[j] = "pending" /\ \A k \in Step : k > i /\ f[k] = "pending" => j <= k

MarkedStep(c, i, s) == [step[c] EXCEPT ![i] = IF s = "done" THEN "done" ELSE "failed"]

\* The chain ends here: completed, or paused by a failure.
Ended(c, i, s) ==
    /\ plan' = [plan EXCEPT ![c] = IF s = "done" THEN "completed" ELSE "paused"]
    /\ step' = [step EXCEPT ![c] = MarkedStep(c, i, s)]
    /\ UNCHANGED <<up, status, worker, crashes, saving>>

Onward(c, i, s) ==
    LET f == MarkedStep(c, i, s)
    IN  \E j \in Step : /\ IsNext(f, i, j)
                        /\ Queue(c, j, plan[c], [f EXCEPT ![j] = "running"])

NoneLeft(c, i, s) == ~\E j \in Step : IsNext(MarkedStep(c, i, s), i, j)

\* Mutant: a failed step is marked and the chain goes on.
MovedOnward(c, i, s) ==
    \/ Onward(c, i, s)
    \/ NoneLeft(c, i, s) /\ Ended(c, i, s)

\* What advanceChain makes of a step that is not terminal yet.
Moved(c, i, s) ==
    \/ s = "done" /\ Onward(c, i, s)
    \/ (s # "done" \/ NoneLeft(c, i, s)) /\ Ended(c, i, s)

\* advanceChainAfterStep, once the imports are there: the chain moves and the
\* chat hears of the step.  A plan that is not found stays as it is, in silence.
Advance(t) ==
    LET c == t[1]
        i == t[2]
    IN  /\ Idle /\ settled[t] # None
        /\ settled' = [settled EXCEPT ![t] = None]
        /\ UNCHANGED <<talkVars, hurt>>
        /\ IF ~Found(c) THEN UNCHANGED <<vars, plan, step, saving>>
           ELSE /\ IF step[c][i] \in {"done", "failed"}
                   THEN UNCHANGED <<up, status, worker, crashes, plan, step, saving>>
                   ELSE Moved(c, i, settled[t])
                /\ told' = [told EXCEPT ![t] = IF settled[t] = "done" THEN "done" ELSE "failed"]
                /\ stamped' = IF status[t] = "cleared" THEN stamped ELSE stamped \cup {t}

-----------------------------------------------------------------------------
\* A crash loses the conversation and every callback; the files stay.
ChainCrash ==
    /\ Crash
    /\ settled' = [t \in StepTask |-> None]
    /\ saving' = {}
    /\ asking' = None
    /\ offered' = None
    /\ held' = None
    /\ attached' = FALSE
    /\ hurt' = hurt \cup {c \in Chain : \E i \in Step : \/ <<c, i>> \in worker
                                                        \/ settled[<<c, i>>] # None}
                    \cup {w.chain : w \in saving}
    /\ UNCHANGED <<plan, step, dropped>>

ChainNext ==
    \/ \E c \in Chain : Ask(c) \/ Approve(c)
    \/ ReadEntry \/ LetPass \/ Decline
    \/ PlanReady \/ PlanFails \/ ClearSession \/ SavePlan
    \/ \E t \in StepTask : \/ Idle /\ SettleStep(t, "done")
                           \/ Idle /\ SettleStep(t, "failed")
                           \/ Advance(t)
    \/ /\ \/ \E t \in Task \ StepTask : Create(t) \/ Complete(t) \/ Fail(t)
          \/ \E t \in Task : PickUp(t) \/ Resume(t)
       /\ Idle
       /\ UNCHANGED chainVars
    \/ /\ \E t \in Task : Cancel(t) \/ Clear(t)
       /\ UNCHANGED chainVars
    \/ Boot /\ UNCHANGED chainVars
    \/ ChainCrash

ChainSpec == ChainInit /\ [][ChainNext]_allVars

\* As for the tasks; and what the daemon awaits arrives: imports, planner, disk.
ChainFairness ==
    /\ WF_allVars(Boot /\ UNCHANGED chainVars)
    /\ WF_allVars(SavePlan)
    /\ \A t \in Task : WF_allVars(Idle /\ PickUp(t) /\ UNCHANGED chainVars)
    /\ \A t \in Task \ StepTask :
          WF_allVars(Idle /\ (Complete(t) \/ Fail(t)) /\ UNCHANGED chainVars)
    /\ \A t \in StepTask :
          /\ WF_allVars(Idle /\ (SettleStep(t, "done") \/ SettleStep(t, "failed")))
          /\ WF_allVars(Advance(t))
FairChainSpec == ChainSpec /\ ChainFairness

-----------------------------------------------------------------------------
ChainTypeOK ==
    /\ TypeOK
    /\ plan \in [Chain -> PlanStatus]
    /\ step \in [Chain -> [Step -> StepStatus]]
    /\ settled \in [StepTask -> {None} \cup (Status \ {"none", "pending", "cleared"})]
    /\ saving \subseteq [chain : Chain, plan : PlanStatus, step : [Step -> StepStatus]]
    /\ Cardinality(saving) <= 1
    /\ {asking, offered, held} \subseteq Chain \cup {None}
    /\ attached \in BOOLEAN
    /\ dropped \subseteq Chain /\ hurt \subseteq Chain

\* The steps of a chain never run side by side: at any time one task of a chain
\* is queued, running or has a worker, through cancels, resumes and crashes.
Busy(t) == status[t] \in {"pending", "running"} \/ t \in worker
OneStepAtATime ==
    \A s, t \in StepTask : (s[1] = t[1] /\ Busy(s) /\ Busy(t)) => s = t

\* A step is queued only after the task of every earlier step ended in success.
\* (The dashboard may have cleared its file since.)
StepsInOrder ==
    [][\A t \in StepTask : (status[t] = "none" /\ status'[t] = "pending") =>
          \A j \in 1..(t[2] - 1) : status[<<t[1], j>>] \in {"done", "cleared"}]_allVars

\* The plan never claims more than the tasks did: a step that is done, and every
\* step of a completed plan, has a task that ended in success, whatever was
\* cancelled while it ran.
PlanMatchesTasks ==
    \A t \in StepTask :
        (step[t[1]][t[2]] = "done" \/ plan[t[1]] = "completed") =>
            status[t] \in {"done", "cleared"}

\* A plan that was asked for or on offer when the session was cleared is never
\* carried out, although the planner may answer after the clear, and a message
\* may revise or let pass what was cleared.  (Except a plan that a message had
\* read just then: it acts on what it has read.)
ClearedPlanNeverRuns ==
    \A t \in StepTask : t[1] \in dropped => status[t] = "none"

\* "The chain only advances when the previous step completed successfully --
\* failures pause the chain": every approved chain completes or pauses, unless a
\* crash met it at work or somebody cancelled or cleared one of its tasks.
Interfered(c) ==
    c \in hurt \/ \E i \in Step : status[<<c, i>>] \in {"aborted", "cleared"}
EveryChainEnds ==
    \A c \in Chain \ Project :
        plan[c] = "in_progress" ~> (plan[c] \in {"completed", "paused"} \/ Interfered(c))
=============================================================================
