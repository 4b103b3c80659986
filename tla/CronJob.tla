------------------------------ MODULE CronJob ------------------------------
(***************************************************************************)
(* The runs of one cron job (gateway/cron-scheduler.ts: runJob, runManual, *)
(* persistRunningJobs, reconcileInterruptedJobs; the approvals and the     *)
(* credit block it uses), on the table of timers of CronSchedule.  The     *)
(* state of runJob is keyed by the job name: jobs meet in the table only.  *)
(*                                                                         *)
(* A run is one call of runJob, from a timer, a chat command, a trigger    *)
(* file or a parent job.  A step is what happens between two awaits.       *)
(***************************************************************************)
EXTENDS CronRunLog, CronSchedule

CONSTANTS Run,          \* calls of runJob that can be in flight together
          JobName,      \* the job
          MaxRetries,   \* job.maxRetries, or NoRetries when it is not set
          NoRetries,
          Backoffs,     \* length of BACKOFF_MS: 5
          Gate,         \* job.requiresConfirmation
          ConfirmMin,   \* job.confirmationTimeoutMin: default 5
          ApprovalMin,  \* the timeout of Gateway.requestApproval: 5
          MaxCrashes    \* bound on the crashes of a behaviour

ASSUME JobAssumption ==
    /\ IsFiniteSet(Run)
    /\ MaxRetries \in Nat \cup {NoRetries}
    /\ NoRetries \notin Nat
    /\ Backoffs \in Nat
    /\ Gate \in BOOLEAN
    /\ ConfirmMin \in Nat \ {0} /\ ApprovalMin \in Nat \ {0}
    /\ MaxCrashes \in Nat
    /\ JobName \in Job

VARIABLES up,           \* the daemon runs
          pc,           \* where each run is
          answer,       \* the owner's reply to a confirmation request
          heard,        \* what of it resolved the approval
          attempt,      \* the attempt a run is at
          budget,       \* its maxAttempts
          running,      \* the job is in runningJobs
          crashFile,    \* the job is in cron-running.json
          blocked,      \* the credit block is active
          log,          \* the newest entries of the run log
          sinceEntry,   \* time since the newest entry, up to an hour
          streak,       \* attempts failed since one did not, up to DisableAt
          crashes       \* crashes so far

logVars == <<log, sinceEntry, streak>>
gateVars == <<answer, heard>>
runVars == <<pc, gateVars, attempt, budget>>
diskVars == <<running, crashFile>>
vars == <<up, runVars, diskVars, blocked, logVars, crashes, tableVars>>

Init ==
    /\ up = TRUE
    /\ pc = [r \in Run |-> "idle"]
    /\ answer = [r \in Run |-> "none"] /\ heard = [r \in Run |-> "none"]
    /\ attempt = [r \in Run |-> 0]
    /\ budget = [r \in Run |-> 0]
    /\ running = FALSE /\ crashFile = FALSE
    /\ blocked = FALSE
    /\ log = <<>> /\ sinceEntry = 0 /\ streak = 0
    /\ crashes = 0
    /\ TableInit /\ file[JobName] = "on"

-----------------------------------------------------------------------------
\* _logRun of a trigger that does not run.
LogSkip ==
    /\ log' = Logged(log, "skip")
    /\ sinceEntry' = 0
    /\ UNCHANGED streak

\* _logRun of an attempt; an attempt that does not fail ends the streak.
LogAttempt(e) ==
    /\ log' = Logged(log, e)
    /\ sinceEntry' = 0
    /\ streak' = IF ~IsFailure(e) THEN 0 ELSE IF streak < DisableAt THEN streak + 1 ELSE streak

Goto(r, where) == pc' = [pc EXCEPT ![r] = where]

\* The credit block is checked before everything else.
TriggerBlocked(r) ==
    /\ up /\ pc[r] = "idle"
    /\ blocked
    /\ LogSkip
    /\ UNCHANGED <<up, runVars, diskVars, blocked, crashes, tableVars>>

\* runJob up to its first await; a trigger that finds the job running returns.
\* With a gate that await is the send of the confirmation request.
Trigger(r) ==
    /\ up /\ pc[r] = "idle"
    /\ ~blocked /\ ~running
    /\ Goto(r, IF Gate THEN "ask" ELSE "advise")
    /\ UNCHANGED <<up, gateVars, attempt, budget, diskVars, blocked, logVars, crashes, tableVars>>

\* The pre-check command says there is no work.
PreCheckFails(r) ==
    /\ up /\ pc[r] = "idle"
    /\ ~blocked /\ ~running
    /\ LogSkip
    /\ UNCHANGED <<up, runVars, diskVars, blocked, crashes, tableVars>>

-----------------------------------------------------------------------------
\* The send has settled, whether or not it reached the owner: the approval is
\* registered and both timers are set.
Asked(r) ==
    /\ up /\ pc[r] = "ask"
    /\ Goto(r, "confirm")
    /\ UNCHANGED <<up, gateVars, attempt, budget, diskVars, blocked, logVars, crashes, tableVars>>

\* The owner has the message while the send is awaited.  No approval is pending
\* yet, so that the reply is an ordinary chat message.
OwnerAnswersEarly(r, a) ==
    /\ up /\ pc[r] = "ask"
    /\ answer' = [answer EXCEPT ![r] = a]
    /\ UNCHANGED <<up, pc, heard, attempt, budget, diskVars, blocked, logVars, crashes, tableVars>>

\* The confirmation gate races the owner's reply, the timer of runJob, which
\* proceeds, and the timer of requestApproval, which resolves false.  Timers
\* of the same duration fire in the order they were set: runJob's is first.
OwnerAnswers(r, a) ==
    /\ up /\ pc[r] = "confirm" /\ heard[r] = "none"
    /\ answer' = [answer EXCEPT ![r] = a] /\ heard' = [heard EXCEPT ![r] = a]
    /\ UNCHANGED <<up, pc, attempt, budget, diskVars, blocked, logVars, crashes, tableVars>>

\* The promise of the gate has settled: its reply is of no more use.
PastGate(r) == answer' = [answer EXCEPT ![r] = "none"] /\ heard' = [heard EXCEPT ![r] = "none"]

\* Mutant: the timers are set in the other order.
GateTimerStrictlyFirst == ConfirmMin < ApprovalMin

GateTimerFirst == ConfirmMin =< ApprovalMin

GateOpens(r) ==
    /\ up /\ pc[r] = "confirm"
    /\ heard[r] = "yes" \/ (heard[r] = "none" /\ GateTimerFirst)
    /\ Goto(r, "advise")
    /\ PastGate(r)
    /\ UNCHANGED <<up, attempt, budget, diskVars, blocked, logVars, crashes, tableVars>>

GateShuts(r) ==
    /\ up /\ pc[r] = "confirm"
    /\ heard[r] = "no" \/ (heard[r] = "none" /\ ~GateTimerFirst)
    /\ Goto(r, "idle")
    /\ LogSkip
    /\ PastGate(r)
    /\ UNCHANGED <<up, attempt, budget, diskVars, blocked, crashes, tableVars>>

-----------------------------------------------------------------------------
\* After `await import(advisor)`: the circuit breaker refuses the run.
BreakerSkips(r) ==
    /\ up /\ pc[r] = "advise"
    /\ ShouldSkip(log, sinceEntry)
    /\ Goto(r, "idle")
    /\ LogSkip
    /\ UNCHANGED <<up, gateVars, attempt, budget, diskVars, blocked, crashes, tableVars>>

\* maxAttempts: an unleashed job (by itself or escalated) is never retried.
Attempts(unleashed) ==
    IF unleashed THEN 1 ELSE
    1 + IF MaxRetries # NoRetries THEN MaxRetries
        ELSE IF ConsecutiveErrors(log) < Backoffs THEN ConsecutiveErrors(log) ELSE Backoffs

\* Mutant: persist the running set before entering it.
BeginPersistsFirst(r) ==
    /\ up /\ pc[r] = "advise"
    /\ ~ShouldSkip(log, sinceEntry)
    /\ running' = TRUE /\ crashFile' = running
    /\ \E unleashed \in BOOLEAN : budget' = [budget EXCEPT ![r] = Attempts(unleashed)]
    /\ attempt' = [attempt EXCEPT ![r] = 1]
    /\ Goto(r, "attempt")
    /\ UNCHANGED <<up, gateVars, blocked, logVars, crashes, tableVars>>

\* Enter runningJobs and persist it.  The check of `running` is an await old.
Begin(r) ==
    /\ up /\ pc[r] = "advise"
    /\ ~ShouldSkip(log, sinceEntry)
    /\ running' = TRUE /\ crashFile' = TRUE
    /\ \E unleashed \in BOOLEAN : budget' = [budget EXCEPT ![r] = Attempts(unleashed)]
    /\ attempt' = [attempt EXCEPT ![r] = 1]
    /\ Goto(r, "attempt")
    /\ UNCHANGED <<up, gateVars, blocked, logVars, crashes, tableVars>>

\* The call returns, and its counters with it.
Return(r) ==
    /\ Goto(r, "idle")
    /\ attempt' = [attempt EXCEPT ![r] = 0] /\ budget' = [budget EXCEPT ![r] = 0]

\* Mutant: the cleanup is skipped.
FinishKeepsRunning(r) ==
    /\ Return(r)
    /\ UNCHANGED <<diskVars, tableVars>>

\* The finally block: leave runningJobs, disable a job that keeps failing.
Finish(r) ==
    /\ Return(r)
    /\ running' = FALSE /\ crashFile' = FALSE
    /\ IF ConsecutiveErrors(log') >= DisableAt /\ JobName \notin disabled
       THEN AutoDisable(JobName)
       ELSE UNCHANGED tableVars

\* The agent returns; the output may reach no channel, which counts as failed.
Succeed(r) ==
    /\ up /\ pc[r] = "attempt"
    /\ \E e \in {"ok", "fail"} : LogAttempt(e)
    /\ Finish(r)
    /\ UNCHANGED <<up, gateVars, blocked, crashes>>

\* A permanent error, or a transient one on the last attempt: the owner is
\* told, which is awaited, before the finally block runs.
FailForGood(r) ==
    /\ up /\ pc[r] = "attempt"
    /\ LogAttempt("fail")
    /\ Goto(r, "closing")
    /\ UNCHANGED <<up, gateVars, attempt, budget, diskVars, blocked, crashes, tableVars>>

\* Mutant: one attempt too many.
FailTransientOffByOne(r) ==
    /\ up /\ pc[r] = "attempt"
    /\ attempt[r] =< budget[r]
    /\ LogAttempt("fail")
    /\ Goto(r, "backoff")
    /\ UNCHANGED <<up, gateVars, attempt, budget, diskVars, blocked, crashes, tableVars>>

\* A transient error with attempts left: sleep, then try again.
FailTransient(r) ==
    /\ up /\ pc[r] = "attempt"
    /\ attempt[r] < budget[r]
    /\ LogAttempt("fail")
    /\ Goto(r, "backoff")
    /\ UNCHANGED <<up, gateVars, attempt, budget, diskVars, blocked, crashes, tableVars>>

Retry(r) ==
    /\ up /\ pc[r] = "backoff"
    /\ attempt' = [attempt EXCEPT ![r] = @ + 1]
    /\ Goto(r, "attempt")
    /\ UNCHANGED <<up, gateVars, budget, diskVars, blocked, logVars, crashes, tableVars>>

\* The usage limit: the block is created, and announced, by the first to hit it.
FailCredit(r) ==
    /\ up /\ pc[r] = "attempt"
    /\ LogAttempt("blocked")
    /\ blocked' = TRUE
    /\ IF blocked
       THEN Finish(r)
       ELSE /\ Goto(r, "closing")
            /\ UNCHANGED <<attempt, budget, diskVars, tableVars>>
    /\ UNCHANGED <<up, gateVars, crashes>>

Close(r) ==
    /\ up /\ pc[r] = "closing"
    /\ UNCHANGED logVars
    /\ Finish(r)
    /\ UNCHANGED <<up, gateVars, blocked, crashes>>

-----------------------------------------------------------------------------
\* Another job hits the usage limit; the block expires.
BlockElsewhere ==
    /\ ~blocked
    /\ blocked' = TRUE
    /\ UNCHANGED <<up, runVars, diskVars, logVars, crashes, tableVars>>

BlockExpires ==
    /\ blocked
    /\ blocked' = FALSE
    /\ UNCHANGED <<up, runVars, diskVars, logVars, crashes, tableVars>>

TimePasses ==
    /\ sinceEntry < Hour
    /\ sinceEntry' = sinceEntry + 1
    /\ UNCHANGED <<up, runVars, diskVars, blocked, log, streak, crashes, tableVars>>

\* Edits, chat commands and reloads, whatever the runs are at.
TableChanges ==
    /\ up
    /\ TableOperation
    /\ UNCHANGED <<up, runVars, diskVars, blocked, logVars, crashes>>

\* The daemon dies: the runs and the sets in memory are gone.
Crash ==
    /\ up /\ crashes < MaxCrashes
    /\ up' = FALSE
    /\ crashes' = crashes + 1
    /\ pc' = [r \in Run |-> "idle"]
    /\ answer' = [r \in Run |-> "none"] /\ heard' = [r \in Run |-> "none"]
    /\ attempt' = [r \in Run |-> 0] /\ budget' = [r \in Run |-> 0]
    /\ running' = FALSE
    /\ UNCHANGED <<crashFile, blocked, logVars, tableVars>>

\* start: report the jobs the crash file names, remove it, schedule afresh.
Start ==
    /\ ~up
    /\ up' = TRUE
    /\ crashFile' = FALSE
    /\ Restart
    /\ UNCHANGED <<runVars, running, blocked, logVars, crashes>>

Step(r) ==
    \/ TriggerBlocked(r) \/ Trigger(r) \/ PreCheckFails(r)
    \/ Asked(r) \/ (\E a \in {"yes", "no"} : OwnerAnswersEarly(r, a) \/ OwnerAnswers(r, a))
    \/ GateOpens(r) \/ GateShuts(r)
    \/ BreakerSkips(r) \/ Begin(r)
    \/ Succeed(r) \/ FailForGood(r) \/ FailTransient(r) \/ Retry(r) \/ FailCredit(r) \/ Close(r)

Next ==
    \/ \E r \in Run : Step(r)
    \/ BlockElsewhere \/ BlockExpires \/ TimePasses \/ TableChanges \/ Crash \/ Start

Spec == Init /\ [][Next]_vars

\* A call that began goes on: timers fire, a run is aborted at its wall-clock
\* limit, sends settle.  A job with a timer is triggered again and again.
Progress(r) ==
    \/ Asked(r) \/ GateOpens(r) \/ GateShuts(r) \/ BreakerSkips(r) \/ Begin(r)
    \/ Succeed(r) \/ FailForGood(r) \/ FailTransient(r) \/ Retry(r) \/ FailCredit(r) \/ Close(r)

Fairness ==
    /\ \A r \in Run : WF_vars(Progress(r)) /\ WF_vars(JobName \in scheduled /\ Trigger(r))
    /\ WF_vars(BlockExpires) /\ WF_vars(Start)

FairSpec == Spec /\ Fairness

-----------------------------------------------------------------------------
InFlight == {r \in Run : pc[r] \in {"attempt", "backoff", "closing"}}

TypeOK ==
    /\ up \in BOOLEAN /\ running \in BOOLEAN /\ crashFile \in BOOLEAN /\ blocked \in BOOLEAN
    /\ pc \in [Run -> {"idle", "ask", "confirm", "advise", "attempt", "backoff", "closing"}]
    /\ answer \in [Run -> {"none", "yes", "no"}] /\ heard \in [Run -> {"none", "yes", "no"}]
    /\ attempt \in [Run -> Nat] /\ budget \in [Run -> Nat]
    /\ \A r \in Run : attempt[r] =< budget[r]
    /\ log \in Logs
    /\ sinceEntry \in 0..Hour
    /\ streak \in 0..DisableAt
    /\ crashes \in 0..MaxCrashes
    /\ TableTypeOK

\* Neither the running set nor the crash file keeps a job none of whose runs is
\* in flight: it would never run again, or be reported as interrupted.
NoGhostRun == up /\ (running \/ crashFile) => InFlight # {}

\* As long as one call of runJob is in flight at a time, the crash file names
\* the job whenever a run is in flight, so that a crash is reported.
CrashFileCoversRun == InFlight # {} => running /\ crashFile

\* The circuit breaker skips, and the scheduler disables, only a job whose last
\* attempts all failed: no healthy attempt is among those it counted.
OnlyStreaksArePunished ==
    [][ /\ \A r \in Run : BreakerSkips(r) => streak >= BreakAt
        /\ pc' # pc /\ JobName \in disabled' \ disabled => streak' >= DisableAt ]_vars

\* "Auto-runs in N min if no reply": the gate shuts only on a refusal of the
\* owner, and what he refused once the approval was registered does not run.
OnlyOwnerRefuses ==
    [][\A r \in Run : pc[r] = "confirm" /\ up' =>
          /\ pc'[r] = "idle" => heard[r] = "no" /\ answer[r] = "no"
          /\ pc'[r] = "advise" => heard[r] # "no"]_vars

\* The breaker "can self-heal": a job that keeps its timer, and that the owner
\* does not keep refusing, is attempted again and again, however often the
\* breaker skips it and whatever a crash interrupted.  A trigger that returns at
\* once (agent paused or over its budget, cooldown, pre-check) is not a Trigger:
\* the property is about a job for which those let some trigger through, again
\* and again.
SelfHeals ==
    <>[](up /\ ~blocked /\ JobName \in scheduled /\ \A r \in Run : heard[r] # "no")
    => []<>(\E r \in Run : pc[r] = "attempt")

\* "Prevent concurrent runs of the same job".
OneRunPerJob == Cardinality(InFlight) =< 1
=============================================================================
