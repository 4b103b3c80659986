------------------------------ MODULE Workflow ------------------------------
(***************************************************************************)
(* A saved workflow: triggered by its timer or from chat                   *)
(* (gateway/cron-scheduler.ts runWorkflow), admitted by the cron lane      *)
(* (gateway/router.ts handleWorkflow), and run wave by wave                *)
(* (agent/workflow-runner.ts), each wave by a pool of workers              *)
(* (agent/wave-scheduler.ts settledWithLimit).                             *)
(*                                                                         *)
(* The graph of dependencies is any at all, cycles included.  What a step  *)
(* does is an external call that succeeds or fails; a failure is an output *)
(* like another for the steps that depend on it.                           *)
(***************************************************************************)
EXTENDS Naturals, FiniteSets

CONSTANTS Step,     \* ids of the steps
          Worker,   \* the loops of settledWithLimit
          Free      \* what a worker holds that holds no step

ASSUME StepAssumption ==
    /\ IsFiniteSet(Step) /\ Step # {}
    /\ Free \notin Step
ASSUME WorkerAssumption == IsFiniteSet(Worker) /\ Worker # {}

VARIABLES deps,      \* dependsOn of each step
          phase,     \* where runWorkflow is; it refuses a trigger unless "idle"
          wave,      \* waveOf, once computed
          level,     \* the wave being run
          todo,      \* its steps that no worker has taken
          job,       \* the step each worker awaits
          outcome,   \* how each step settled
          results,   \* keys of stepResults, the outputs later steps can read
          failures,  \* hasFailures
          logged     \* status of the run's log entry

vars == <<deps, phase, wave, level, todo, job, outcome, results, failures, logged>>

Level == 0..(Cardinality(Step) - 1)
Phase == {"idle", "queued", "running", "synthesis", "report"}

\* Mutant: a step follows one of its dependencies, not all of them.
IsWaveOfOne(w) ==
    \A s \in Step : IF deps[s] = {} THEN w[s] = 0
                    ELSE \E d \in deps[s] : w[s] = w[d] + 1

\* computeWaves: a step comes right after the last of its dependencies.  No w
\* satisfies this if the graph has a cycle, and exactly one if it has none.
IsWave(w) ==
    \A s \in Step : IF deps[s] = {} THEN w[s] = 0
                    ELSE /\ \E d \in deps[s] : w[s] = w[d] + 1
                         /\ \A d \in deps[s] : w[d] < w[s]

Wave(w, k) == {s \in Step : w[s] = k}

Init ==
    /\ deps \in [Step -> SUBSET Step]
    /\ phase = "idle"
    /\ wave = [s \in Step |-> 0]
    /\ level = 0
    /\ todo = {}
    /\ job = [w \in Worker |-> Free]
    /\ outcome = [s \in Step |-> "none"]
    /\ results = {}
    /\ failures = FALSE
    /\ logged = "none"

-----------------------------------------------------------------------------
\* runWorkflow: the name enters runningWorkflows.
Trigger ==
    /\ phase = "idle"
    /\ phase' = "queued"
    /\ UNCHANGED <<deps, wave, level, todo, job, outcome, results, failures, logged>>

\* settledWithLimit takes the steps S: every worker takes one, or none is left.
Deal(S, j) ==
    /\ \A v, w \in Worker : j[v] = j[w] => v = w \/ j[v] = Free
    /\ (\E w \in Worker : j[w] = Free) => \A s \in S : \E w \in Worker : j[w] = s
    /\ job' = j
    /\ todo' = {s \in S : \A w \in Worker : j[w] # s}

\* validateWorkflow finds a cycle (a step that depends on itself is one).
Reject ==
    /\ phase = "queued"
    /\ ~\E w \in [Step -> Level] : IsWave(w)
    /\ logged' = "error"
    /\ phase' = "report"
    /\ UNCHANGED <<deps, wave, level, todo, job, outcome, results, failures>>

\* The lane admits the run and its first wave starts.
Admit ==
    /\ phase = "queued"
    /\ \E w \in [Step -> Level] :
          /\ IsWave(w)
          /\ wave' = w
          /\ \E j \in [Worker -> Wave(w, 0) \cup {Free}] : Deal(Wave(w, 0), j)
    /\ level' = 0
    /\ phase' = "running"
    /\ UNCHANGED <<deps, outcome, results, failures, logged>>

\* Mutant: a worker returns after its first step.
SettleOnce(w, o) ==
    /\ job[w] # Free
    /\ outcome' = [outcome EXCEPT ![job[w]] = o]
    /\ job' = [job EXCEPT ![w] = Free]
    /\ UNCHANGED <<deps, phase, wave, level, todo, results, failures, logged>>

\* The step of a worker settles, and the worker takes the next one if any is left.
Settle(w, o) ==
    /\ job[w] # Free
    /\ outcome' = [outcome EXCEPT ![job[w]] = o]
    /\ \/ /\ todo = {}
          /\ job' = [job EXCEPT ![w] = Free]
          /\ UNCHANGED todo
       \/ \E s \in todo : /\ job' = [job EXCEPT ![w] = s]
                          /\ todo' = todo \ {s}
    /\ UNCHANGED <<deps, phase, wave, level, results, failures, logged>>

\* All workers have returned.
WaveSettled == phase = "running" /\ todo = {} /\ \A w \in Worker : job[w] = Free

\* Mutant: the flag is that of the last wave.
CollectLast ==
    /\ results' = results \cup Wave(wave, level)
    /\ failures' = \E s \in Wave(wave, level) : outcome[s] = "failed"

\* The outputs of a wave become readable when all of it has settled.
Collect ==
    /\ results' = results \cup Wave(wave, level)
    /\ failures' = (failures \/ \E s \in Wave(wave, level) : outcome[s] = "failed")

\* Steps of the waves still to come.
Later == {s \in Step : wave[s] > level}

\* The waves are run in order, empty ones left out.
NextWave ==
    /\ WaveSettled
    /\ Collect
    /\ \E first \in Later :
          /\ \A s \in Later : wave[first] <= wave[s]
          /\ level' = wave[first]
          /\ \E j \in [Worker -> Wave(wave, wave[first]) \cup {Free}] :
                Deal(Wave(wave, wave[first]), j)
    /\ UNCHANGED <<deps, phase, wave, outcome, logged>>

LastWave ==
    /\ WaveSettled
    /\ Later = {}
    /\ Collect
    /\ phase' = "synthesis"
    /\ UNCHANGED <<deps, wave, level, todo, job, outcome, logged>>

\* The synthesis, or its fallback; then the log entry.
Conclude ==
    /\ phase = "synthesis"
    /\ logged' = IF failures THEN "partial" ELSE "ok"
    /\ phase' = "report"
    /\ UNCHANGED <<deps, wave, level, todo, job, outcome, results, failures>>

\* The result is sent, and the name leaves runningWorkflows; the run's locals go.
Report ==
    /\ phase = "report"
    /\ phase' = "idle"
    /\ wave' = [s \in Step |-> 0]
    /\ level' = 0
    /\ outcome' = [s \in Step |-> "none"]
    /\ results' = {}
    /\ failures' = FALSE
    /\ logged' = "none"
    /\ UNCHANGED <<deps, todo, job>>

Run == \/ Reject \/ Admit \/ NextWave \/ LastWave \/ Conclude \/ Report
       \/ \E w \in Worker : Settle(w, "done") \/ Settle(w, "failed")

Next == Trigger \/ Run

Spec == Init /\ [][Next]_vars

\* The lane admits, steps settle (each has a limit of turns), sends return.
FairSpec == Spec /\ WF_vars(Run)

-----------------------------------------------------------------------------
Flying == {s \in Step : \E w \in Worker : job[w] = s}
Settled == {s \in Step : outcome[s] # "none"}

TypeOK ==
    /\ deps \in [Step -> SUBSET Step]
    /\ phase \in Phase
    /\ wave \in [Step -> Level]
    /\ level \in Level
    /\ todo \subseteq Step
    /\ job \in [Worker -> Step \cup {Free}]
    /\ outcome \in [Step -> {"none", "done", "failed"}]
    /\ results \subseteq Step
    /\ failures \in BOOLEAN
    /\ logged \in {"none", "ok", "partial", "error"}

\* The prompt of a step is filled in from outputs that exist: when it is in
\* flight, all it depends on has settled and been collected, failures included.
OutputsAvailable == \A s \in Flying : deps[s] \subseteq results

\* No worker stands still while a step of the wave waits.
NoIdleWorker == todo # {} => \A w \in Worker : job[w] # Free

\* The log tells the truth: "ok" when every step succeeded, "partial" when every
\* step settled and one failed, in whatever wave, "error" when none was started.
HonestLog ==
    /\ logged = "ok" => \A s \in Step : outcome[s] = "done"
    /\ logged = "partial" => /\ Settled = Step
                             /\ \E s \in Step : outcome[s] = "failed"
    /\ logged = "error" => Settled = {}

\* Every run that was triggered ends with a log that tells the truth, whatever
\* steps of whatever waves failed, and the name can run again.
EveryRunEnds ==
    /\ phase = "queued" ~> (phase = "report" /\ HonestLog)
    /\ phase = "report" ~> phase = "idle"

\* The runner keeps what DataFlow promises.
Abstract == INSTANCE DataFlow WITH
    Slot <- Worker, started <- Flying \cup Settled, settled <- Settled
DataFlowSpec == Abstract!Spec
=============================================================================
