---------------------------- MODULE CronSchedule ----------------------------
(***************************************************************************)
(* Which cron jobs have a live timer (gateway/cron-scheduler.ts: start,    *)
(* watchCronFile, watchAgentsDir, reloadJobs, disableJob, enableJob, the   *)
(* auto-disable at the end of runJob and applySuggestedCronChanges).       *)
(*                                                                         *)
(* A job is defined in the global CRON.md, in the CRON.md of an agent or   *)
(* in schedules.json, the registry of scheduled skills.  The dashboard and *)
(* the tools of the MCP server run in other processes: they only edit      *)
(* those files.  The daemon polls the stat of CRON.md, if it was there at  *)
(* the start, and of the directory of the agents, whose stat an edit of a  *)
(* file two levels down leaves alone; nobody polls schedules.json.         *)
(***************************************************************************)
EXTENDS Naturals, FiniteSets

CONSTANTS Job,       \* job names
          Agents,    \* the jobs defined by an agent
          Registry,  \* the scheduled skills; all other jobs are in CRON.md
          After,     \* the `after:` field of each job
          NoJob,     \* no such field
          Planned    \* the jobs a suggestion of the daily planner may name

ASSUME ScheduleAssumption ==
    /\ Agents \subseteq Job /\ Registry \subseteq Job \ Agents
    /\ NoJob \notin Job
    /\ After \in [Job -> Job \cup {NoJob}]
    /\ \A j \in Registry : After[j] = NoJob
    /\ Planned \subseteq Job

VARIABLES file,       \* what the files say of each job
          loaded,     \* this.jobs: what the last reload read
          disabled,   \* this.disabledJobs
          scheduled,  \* the jobs with a live timer, this.scheduledTasks
          stale,      \* a watched file changed and has not been reloaded yet
          watched     \* CRON.md existed at the start: watchCronFile polls it

tableVars == <<file, loaded, disabled, scheduled, stale, watched>>

\* "implicit": the entry has no `enabled` field, which reads as enabled.
\* "bad": enabled, with a schedule that cron.validate refuses; the schedule of
\* an entry that is off matters once it is switched on.
Definition == {"absent", "off", "on", "implicit", "bad"}
IsOn(v) == v \in {"on", "implicit", "bad"}

\* The tools and the dashboard validate what they write into the registry.
Tables == {d \in [Job -> Definition] : \A j \in Registry : d[j] \in {"absent", "off", "on"}}

\* Enabled, with a schedule that node-cron accepts.
Timed(v) == v \in {"on", "implicit"}

CronMd == Job \ (Agents \cup Registry)

\* The parent of a job among the jobs of the table d, a missing one ignored.
Parent(d, j) == IF d[j] # "absent" /\ After[j] # NoJob /\ d[After[j]] # "absent"
                THEN After[j] ELSE NoJob

\* Disabled by the reload: the ancestors of j never end, so j is in a circular
\* chain of `after:` or leads into one.
Cycled(d, j) == \E S \in SUBSET Job : j \in S /\ \A i \in S : Parent(d, i) \in S

\* Mutant: the reload forgets to consult disabledJobs.
SchedulableDisabled(d, off) == {j \in Job : Timed(d[j]) /\ Parent(d, j) = NoJob}

\* The jobs a reload gives a timer to: the chained ones run after their parent.
\* A cycled job loses its parent but is switched off.
Schedulable(d, off) ==
    {j \in Job : Timed(d[j]) /\ j \notin off /\ Parent(d, j) = NoJob}

\* Mutant: no cycle detection.
LoadedCyclic(d) == [j \in Job |-> IF d[j] = "implicit" THEN "on" ELSE d[j]]

\* this.jobs after a reload of the table d.
Loaded(d) ==
    [j \in Job |-> IF Cycled(d, j) THEN "off" ELSE IF d[j] = "implicit" THEN "on" ELSE d[j]]

\* The disabled jobs a reload of the table d keeps: eviction looks at the jobs
\* of CRON.md and the registry only, the agents' jobs are merged in later.
KeptDisabled(d, off) == {j \in off : j \notin Agents /\ d[j] # "absent"}

-----------------------------------------------------------------------------
\* watchCronFile looks for CRON.md once: a file that appears later is not polled.
WatchedAtStart == {TRUE} \cup {w \in {FALSE} : \A j \in CronMd : file[j] = "absent"}

TableInit ==
    /\ file \in Tables
    /\ loaded = Loaded(file)
    /\ disabled = {}
    /\ scheduled = Schedulable(file, {})
    /\ stale = FALSE
    /\ watched \in WatchedAtStart

\* Mutant: the old timers are not stopped.
ReloadKeepsTimers(off) ==
    /\ disabled' = KeptDisabled(file, off)
    /\ loaded' = Loaded(file)
    /\ scheduled' = scheduled \cup Schedulable(file, KeptDisabled(file, off))
    /\ UNCHANGED <<file, watched>>

\* reloadJobs: every timer is stopped and the table is rebuilt.
ReloadWith(off) ==
    /\ disabled' = KeptDisabled(file, off)
    /\ loaded' = Loaded(file)
    /\ scheduled' = Schedulable(file, KeptDisabled(file, off))
    /\ UNCHANGED <<file, watched>>

\* The poll of watchFile sees the change.
Reload ==
    /\ stale
    /\ ReloadWith(disabled)
    /\ stale' = FALSE

\* An entry of a CRON.md changes.  The poll of the global file sees it, if there
\* is one; nobody sees that of an agent.
Edit(j, v) ==
    /\ file' = [file EXCEPT ![j] = v]
    /\ stale' = (stale \/ (j \in CronMd /\ watched))
    /\ UNCHANGED <<loaded, disabled, scheduled, watched>>

\* The dashboard writes `!enabled`; the schedule of the entry stays what it was.
Toggle(j) ==
    /\ j \notin Registry /\ file[j] # "absent"
    /\ \E v \in CASE file[j] = "on" -> {"off"}
                  [] file[j] = "bad" -> {"off", "bad"}
                  [] file[j] = "implicit" -> {"on"}
                  [] OTHER -> {"on", "bad"} : Edit(j, v)

\* A job is added to or removed from its CRON.md, or gets another schedule.
AddOrRemove(j) ==
    /\ j \notin Registry
    /\ \E v \in {"absent", "on", "implicit", "bad"} : v # file[j] /\ Edit(j, v)

\* schedule_skill, pause_schedule, unschedule_skill and the dashboard's
\* /api/schedules write schedules.json, and nothing else.
SetSchedule(j) ==
    /\ j \in Registry
    /\ \E v \in {"absent", "off", "on"} : v # file[j] /\ file' = [file EXCEPT ![j] = v]
    /\ UNCHANGED <<loaded, disabled, scheduled, stale, watched>>

\* An agent is hired or dismissed: the watched directory changes.
AgentsDirChanges ==
    /\ stale' = TRUE
    /\ UNCHANGED <<file, loaded, disabled, scheduled, watched>>

\* `!cron disable`
DisableJob(j) ==
    /\ loaded[j] # "absent"
    /\ disabled' = disabled \cup {j}
    /\ scheduled' = scheduled \ {j}
    /\ UNCHANGED <<file, loaded, stale, watched>>

\* `!cron enable`: no check that the job exists; reloads at once.
EnableJob(j) ==
    /\ ReloadWith(disabled \ {j})
    /\ UNCHANGED stale

\* The end of runJob, after too many consecutive failures.
AutoDisable(j) ==
    /\ j \notin disabled
    /\ disabled' = disabled \cup {j}
    /\ scheduled' = scheduled \ {j}
    /\ UNCHANGED <<file, loaded, stale, watched>>

\* applySuggestedCronChanges touches disabledJobs and no timer.
SuggestDisable(j) ==
    /\ j \in Planned
    /\ loaded[j] # "absent"
    /\ disabled' = disabled \cup {j}
    /\ UNCHANGED <<file, loaded, scheduled, stale, watched>>

SuggestEnable(j) ==
    /\ j \in Planned
    /\ loaded[j] # "absent"
    /\ disabled' = disabled \ {j}
    /\ UNCHANGED <<file, loaded, scheduled, stale, watched>>

\* `!cron list` reloads when no job is loaded.
ListJobs ==
    /\ \A j \in Job : loaded[j] = "absent"
    /\ ReloadWith(disabled)
    /\ UNCHANGED stale

\* The daemon restarts: disabledJobs lived in memory only.
Restart ==
    /\ disabled' = {}
    /\ loaded' = Loaded(file)
    /\ scheduled' = Schedulable(file, {})
    /\ stale' = FALSE
    /\ watched' \in WatchedAtStart
    /\ UNCHANGED file

\* What others do to the table while the daemon runs: the dashboard and the
\* owner edit files, chat commands and suggestions arrive, the pollers reload.
TableOperation ==
    \/ Reload \/ AgentsDirChanges \/ ListJobs
    \/ \E j \in Job : \/ Toggle(j) \/ AddOrRemove(j) \/ SetSchedule(j)
                      \/ DisableJob(j) \/ EnableJob(j)
                      \/ SuggestDisable(j) \/ SuggestEnable(j)

TableNext == TableOperation \/ Restart \/ \E j \in Job : AutoDisable(j)

TableSpec == TableInit /\ [][TableNext]_tableVars

\* Both pollers run for as long as the daemon does.
TableFairSpec == TableSpec /\ WF_tableVars(Reload)

-----------------------------------------------------------------------------
TableTypeOK ==
    /\ file \in Tables
    /\ loaded \in [Job -> {"absent", "off", "on", "bad"}]
    /\ disabled \subseteq Job
    /\ scheduled \subseteq Job
    /\ stale \in BOOLEAN /\ watched \in BOOLEAN

\* A timer belongs to a job of the table that is on and that no other job
\* triggers: a chained job never runs on its own as well.
TimersAreDefined ==
    \A j \in scheduled : loaded[j] = "on" /\ Parent(loaded, j) = NoJob

\* A disabled job has no timer left, whichever way it was disabled and however
\* often the table was rebuilt since.  The planner's suggestions only mark a job
\* and leave its timer to the next reload.
DisabledHasNoTimer == disabled \cap scheduled \subseteq Planned

\* No job with a valid schedule dies silently: one that is on and not disabled
\* has a timer, or is chained, and then its chain starts at a job outside any
\* cycle.  A job the planner has just enabled waits for the next reload.  A job
\* whose schedule node-cron refuses is left without a timer, with an error in
\* the log; what is chained after it, or after a job that is off, waits with it.
EnabledJobsCanRun ==
    \A j \in Job : IsOn(loaded[j]) /\ j \notin disabled =>
        /\ \/ j \in scheduled \/ Parent(loaded, j) # NoJob
           \/ loaded[j] = "bad" \/ j \in Planned
        /\ ~Cycled(loaded, j)

\* A job of the watched CRON.md that stays switched off, or loses its schedule,
\* stops for good.
OffTakesEffect ==
    \A j \in CronMd :
        <>[](watched /\ ~Timed(file[j])) => <>[](j \notin scheduled)
=============================================================================
