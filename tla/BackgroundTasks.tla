-------------------------- MODULE BackgroundTasks --------------------------
(***************************************************************************)
(* Background tasks: one JSON file per task (agent/background-tasks.ts),   *)
(* picked up by the 3 s tick of the cron scheduler and run by a worker     *)
(* promise (gateway/cron-scheduler.ts processBackgroundTasks), cancelled   *)
(* and resumed from chat (gateway/router.ts) or cancelled and cleared from *)
(* the dashboard (cli/dashboard.ts), interrupted by a restart (index.ts).  *)
(*                                                                         *)
(* Every task has an originating chat.  What the chat last heard of a task *)
(* is the last message mirrored into its memory.  The tasks of StepTask    *)
(* are steps of a chain: BgChain creates them and answers for them.        *)
(***************************************************************************)
EXTENDS Naturals, FiniteSets

CONSTANTS Task,        \* task ids
          StepTask,    \* those of kind "step"
          MaxCrashes   \* bound on the crashes of a behaviour

ASSUME TaskAssumption == StepTask \subseteq Task /\ MaxCrashes \in Nat

VARIABLES up,       \* the daemon runs
          status,   \* status of the task file
          worker,   \* tasks with a worker promise in the daemon
          stamped,  \* task files with a mirroredAt field
          told,     \* what the chat last heard of the task
          crashes   \* crashes so far

vars == <<up, status, worker, stamped, told, crashes>>

Terminal == {"done", "failed", "aborted", "interrupted"}
\* "none": not created yet; "cleared": the file was deleted.
Status == {"none", "pending", "running", "cleared"} \cup Terminal
Heard == {"nothing", "started"} \cup Terminal

Init ==
    /\ up = TRUE
    /\ status = [t \in Task |-> "none"]
    /\ worker = {}
    /\ stamped = {}
    /\ told = [t \in Task |-> "nothing"]
    /\ crashes = 0

-----------------------------------------------------------------------------
\* createBackgroundTask: from an accepted offer, a tool call or a chain.
Create(t) ==
    /\ status[t] = "none"
    /\ status' = [status EXCEPT ![t] = "pending"]
    /\ UNCHANGED <<up, worker, stamped, told, crashes>>

\* processBackgroundTasks and markRunning, one synchronous step per task.  The
\* start is mirrored to the chat and not stamped.
PickUp(t) ==
    /\ up
    /\ status[t] = "pending"
    /\ status' = [status EXCEPT ![t] = "running"]
    /\ worker' = worker \cup {t}
    /\ told' = [told EXCEPT ![t] = "started"]
    /\ UNCHANGED <<up, stamped, crashes>>

\* Mutant: markDone and markFailed overwrite any status.
OutcomeAlways(t, s) == s

\* The status markDone and markFailed leave: only a running task changes.
Outcome(t, s) == IF status[t] = "running" THEN s ELSE status[t]

\* Mutant: the stamp is written whether or not the file still exists.
MirrorStampsAlways(t, s) ==
    /\ told' = [told EXCEPT ![t] = s]
    /\ stamped' = stamped \cup {t}

\* mirrorBackgroundTaskToChat: tell the chat, then stamp the file if it exists.
Mirror(t, s) ==
    /\ told' = [told EXCEPT ![t] = s]
    /\ stamped' = IF status'[t] = "cleared" THEN stamped ELSE stamped \cup {t}

\* The worker promise settles: the file is updated, and the chat is told what
\* the worker did, whatever became of the file meanwhile.  The chat hears of a
\* step when its chain has moved.
Settle(t, s) ==
    /\ up
    /\ t \in worker
    /\ worker' = worker \ {t}
    /\ status' = [status EXCEPT ![t] = Outcome(t, s)]
    /\ IF t \in StepTask THEN UNCHANGED <<told, stamped>> ELSE Mirror(t, s)
    /\ UNCHANGED <<up, crashes>>

Complete(t) == Settle(t, "done")
Fail(t) == Settle(t, "failed")

\* Cancel, from chat or dashboard.  The CANCEL file it leaves has no reader.
Cancel(t) ==
    /\ status[t] \in {"pending", "running"}
    /\ status' = [status EXCEPT ![t] = "aborted"]
    /\ UNCHANGED <<up, worker, stamped, told, crashes>>

\* Mutant: any finished task may be resumed.
ResumeAny(t) ==
    /\ up
    /\ status[t] \in Terminal
    /\ status' = [status EXCEPT ![t] = "pending"]
    /\ UNCHANGED <<up, worker, stamped, told, crashes>>

\* resumeBackgroundTask: the mirroredAt field stays.
Resume(t) ==
    /\ up
    /\ status[t] = "interrupted"
    /\ status' = [status EXCEPT ![t] = "pending"]
    /\ UNCHANGED <<up, worker, stamped, told, crashes>>

\* The dashboard clears a task that is neither pending nor running.
Clear(t) ==
    /\ status[t] \in Terminal
    /\ status' = [status EXCEPT ![t] = "cleared"]
    /\ stamped' = stamped \ {t}
    /\ UNCHANGED <<up, worker, told, crashes>>

\* The daemon dies, and its workers with it.
Crash ==
    /\ up /\ crashes < MaxCrashes
    /\ up' = FALSE
    /\ worker' = {}
    /\ crashes' = crashes + 1
    /\ UNCHANGED <<status, stamped, told>>

\* Mutant: the restart does not look at running tasks.
InterruptedNone(t) == status[t]

\* interruptStaleRunningTasks
Interrupted(t) == IF status[t] = "running" THEN "interrupted" ELSE status[t]

\* Mutant: interrupted tasks are not looked at.
UnmirroredWithoutInterrupted ==
    {t \in Task : Interrupted(t) \in Terminal \ {"interrupted"} /\ t \notin stamped}

\* findUnmirroredDeliveries, after the interruption.
Unmirrored == {t \in Task : Interrupted(t) \in Terminal /\ t \notin stamped}

\* Restart: no tick comes between the start of the scheduler and the hygiene.
Boot ==
    /\ ~up
    /\ up' = TRUE
    /\ status' = [t \in Task |-> Interrupted(t)]
    /\ told' = [t \in Task |-> IF t \in Unmirrored THEN Interrupted(t) ELSE told[t]]
    /\ stamped' = stamped \cup Unmirrored
    /\ UNCHANGED <<worker, crashes>>

Next ==
    \/ \E t \in Task : \/ Create(t) \/ PickUp(t) \/ Complete(t) \/ Fail(t)
                       \/ Cancel(t) \/ Resume(t) \/ Clear(t)
    \/ Crash \/ Boot

Spec == Init /\ [][Next]_vars

\* The tick is periodic, a worker is aborted at its time limit, the daemon is
\* restarted by its supervisor.
Fairness ==
    /\ WF_vars(Boot)
    /\ \A t \in Task : WF_vars(PickUp(t)) /\ WF_vars(Complete(t) \/ Fail(t))
FairSpec == Spec /\ Fairness

-----------------------------------------------------------------------------
TypeOK ==
    /\ up \in BOOLEAN
    /\ status \in [Task -> Status]
    /\ worker \subseteq Task
    /\ stamped \subseteq {t \in Task : status[t] \notin {"none", "cleared"}}
    /\ told \in [Task -> Heard]
    /\ crashes \in 0..MaxCrashes

\* A task marked running really runs: no task is stuck in that state after a
\* crash, a cancel, a resume or a late answer of its worker.
RunningHasWorker == up => \A t \in Task : status[t] = "running" => t \in worker

\* A task is never run by two workers at once, whatever is resumed or cancelled
\* while an earlier worker has not settled.
OneWorkerPerTask == [][\A t \in worker : ~PickUp(t)]_vars

\* A worker that settles late leaves a cancelled or cleared task as it is, and a
\* finished task stays finished: only an interrupted one runs again.
FinalStaysFinal ==
    [][\A t \in Task : status[t] \in {"done", "failed", "aborted", "cleared"} =>
          status'[t] \in {status[t], "cleared"}]_vars

\* Every task the daemon accepted ends, through crashes and restarts, and the
\* chat hears how, unless somebody cancelled or cleared it first.  A task that
\* was stamped before is excepted: resume keeps the stamp of an interruption,
\* and a second one is told to nobody.
EveryTaskReported ==
    \A t \in Task \ StepTask : (status[t] = "pending" /\ t \notin stamped) ~>
        (status[t] \in {"aborted", "cleared"} \/ told[t] \in Terminal)
=============================================================================
