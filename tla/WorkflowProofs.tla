--------------------------- MODULE WorkflowProofs ---------------------------
(***************************************************************************)
(* A workflow runs in the order its graph gives, for every graph, every    *)
(* number of steps and every number of workers, it is refused only for a   *)
(* cycle, and its runs come to an end.                                     *)
(***************************************************************************)
EXTENDS Workflow, FiniteSetTheorems, WellFoundedInduction, TLAPS

\* A step is waiting, in flight with one worker, or settled, and never two of them.
Apart ==
    /\ \A s \in todo : outcome[s] = "none" /\ \A w \in Worker : job[w] # s
    /\ \A w \in Worker : job[w] # Free => outcome[job[w]] = "none"
    /\ \A v, w \in Worker : job[v] = job[w] => v = w \/ job[v] = Free

\* Workers exist only while waves are run.
Parked == phase # "running" => todo = {} /\ \A w \in Worker : job[w] = Free

\* While they are: lower waves have settled and been collected, steps wait or fly
\* in the present wave only, and higher waves are untouched.
InOrder ==
    phase = "running" =>
        /\ IsWave(wave)
        /\ \A s \in Step : wave[s] < level => outcome[s] # "none" /\ s \in results
        /\ \A s \in Step : wave[s] = level =>
              \/ s \in todo \/ outcome[s] # "none" \/ \E w \in Worker : job[w] = s
        /\ \A s \in Step : wave[s] > level => outcome[s] = "none"
        /\ \A s \in todo : wave[s] = level
        /\ \A w \in Worker : job[w] # Free => wave[job[w]] = level

\* Before a run nothing has settled; after the last wave everything has.
Bounds ==
    /\ phase \in {"idle", "queued"} => \A s \in Step : outcome[s] = "none"
    /\ phase \in {"idle", "queued"} => failures = FALSE
    /\ phase = "synthesis" => \A s \in Step : outcome[s] # "none"

\* The flag knows the failures of the waves collected so far.
FlagTrue ==
    /\ phase = "running" =>
          (failures <=> \E s \in Step : wave[s] < level /\ outcome[s] = "failed")
    /\ phase = "synthesis" => (failures <=> \E s \in Step : outcome[s] = "failed")

\* The log entry belongs to the report; a run that was not refused left no step out.
LogTrue ==
    /\ phase # "report" => logged = "none"
    /\ phase = "report" => logged # "none"
    /\ logged \in {"ok", "partial"} => \A s \in Step : outcome[s] # "none"
    /\ HonestLog

\* Inductive: that the last wave leaves no step out needs InOrder, and InOrder
\* needs Apart, or a step could settle twice and another never.
IInv == TypeOK /\ Apart /\ Parked /\ InOrder /\ Bounds /\ FlagTrue /\ LogTrue /\ NoIdleWorker

\* Waves are counted from 0.
LEMMA LevelIsNatural == \A k \in Level : k \in Nat
  BY StepAssumption, FS_CardinalityType DEF Level

\* A workflow that has never been triggered.
LEMMA InitIInv == Init => IInv
<1> SUFFICES ASSUME Init PROVE IInv
  OBVIOUS
<1>1. 0 \in Level
  BY StepAssumption, FS_CardinalityType, FS_EmptySet DEF Level
<1>2. TypeOK
  BY <1>1 DEF Init, TypeOK, Phase
<1> QED
  BY <1>2, StepAssumption
     DEF Init, IInv, Apart, Parked, InOrder, Bounds, FlagTrue, LogTrue, HonestLog, NoIdleWorker

\* The workers take the steps of a wave, none of which has settled, while no
\* other step waits or is in flight.
LEMMA DealStep ==
  ASSUME NEW S \in SUBSET Step, NEW j \in [Worker -> S \cup {Free}], Deal(S, j),
         \A s \in S : outcome[s] = "none", outcome' = outcome
  PROVE  /\ Apart' /\ NoIdleWorker'
         /\ \A s \in S : s \in todo' \/ \E w \in Worker : job'[w] = s
         /\ todo' \subseteq S
         /\ \A w \in Worker : job'[w] # Free => job'[w] \in S
         /\ job' \in [Worker -> Step \cup {Free}]
  BY StepAssumption DEF Deal, Apart, NoIdleWorker

\* A trigger queues a run of which nothing has settled.
LEMMA TriggerStep == ASSUME IInv, Trigger PROVE IInv'
  BY DEF Trigger, IInv, TypeOK, Phase, Apart, Parked, InOrder, IsWave, Bounds, FlagTrue,
         LogTrue, HonestLog, Settled, NoIdleWorker

\* A graph with a cycle ends the run before any step.
LEMMA RejectStep == ASSUME IInv, Reject PROVE IInv'
  BY DEF Reject, IInv, TypeOK, Phase, Apart, Parked, InOrder, IsWave, Bounds, FlagTrue,
         LogTrue, HonestLog, Settled, NoIdleWorker

\* The first wave starts with nothing settled.
LEMMA AdmitStep == ASSUME IInv, Admit PROVE IInv'
<1> PICK w \in [Step -> Level] : IsWave(w) /\ wave' = w
                                /\ \E j \in [Worker -> Wave(w, 0) \cup {Free}] : Deal(Wave(w, 0), j)
  BY DEF Admit
<1> PICK j \in [Worker -> Wave(w, 0) \cup {Free}] : Deal(Wave(w, 0), j)
  OBVIOUS
<1>1. /\ Wave(w, 0) \in SUBSET Step /\ \A s \in Wave(w, 0) : w[s] = 0
      /\ \A s \in Step : outcome[s] = "none"
      /\ outcome' = outcome /\ level' = 0 /\ phase' = "running" /\ phase = "queued"
      /\ UNCHANGED <<deps, results, failures, logged>>
  BY DEF Admit, Wave, IInv, Bounds
<1>2. Apart' /\ NoIdleWorker' /\ todo' \subseteq Wave(w, 0)
  BY <1>1, DealStep
<1>3. /\ \A s \in Wave(w, 0) : s \in todo' \/ \E v \in Worker : job'[v] = s
      /\ \A v \in Worker : job'[v] # Free => job'[v] \in Wave(w, 0)
      /\ job' \in [Worker -> Step \cup {Free}]
  BY <1>1, DealStep
<1>4. 0 \in Level /\ Level \subseteq Nat
  BY StepAssumption, FS_CardinalityType, FS_EmptySet DEF Level
<1>5. TypeOK'
  BY <1>1, <1>2, <1>3, <1>4 DEF IInv, TypeOK, Phase
<1>6. InOrder'
  <2>1. \A s \in Step : w[s] \in Nat
    BY <1>4
  <2>2. IsWave(wave)'
    BY <1>1 DEF IsWave
  <2> QED
    BY <1>1, <1>2, <1>3, <2>1, <2>2 DEF InOrder, Wave
<1>7. FlagTrue'
  BY <1>1, <1>4 DEF FlagTrue, IInv, Bounds
<1> QED
  BY <1>1, <1>2, <1>5, <1>6, <1>7
     DEF IInv, Parked, Bounds, LogTrue, HonestLog, Settled

\* A step settles: its worker takes one that waits, in the same wave, or stops.
LEMMA SettleStep ==
  ASSUME IInv, NEW w \in Worker, NEW o \in {"done", "failed"}, Settle(w, o)
  PROVE  IInv'
<1> DEFINE x == job[w]
<1>1. /\ x \in Step /\ x # Free /\ phase = "running" /\ outcome[x] = "none" /\ wave[x] = level
      /\ x \notin todo
  BY DEF Settle, IInv, TypeOK, Apart, Parked, InOrder
<1>2. /\ outcome'[x] = o /\ \A s \in Step \ {x} : outcome'[s] = outcome[s]
      /\ outcome' \in [Step -> {"none", "done", "failed"}]
  BY <1>1 DEF Settle, IInv, TypeOK
<1>3. UNCHANGED <<deps, phase, wave, level, results, failures, logged>>
  BY DEF Settle
<1>4. CASE todo = {}
  <2>1. /\ job'[w] = Free /\ \A v \in Worker \ {w} : job'[v] = job[v]
        /\ job' \in [Worker -> Step \cup {Free}] /\ todo' = {}
    BY <1>4 DEF Settle, IInv, TypeOK
  <2>2. TypeOK' /\ NoIdleWorker'
    BY <1>2, <1>3, <2>1 DEF IInv, TypeOK, NoIdleWorker
  <2>3. Apart'
    BY <1>1, <1>2, <2>1 DEF IInv, TypeOK, Apart
  <2>4. InOrder'
    <3>1. IsWave(wave)'
      BY <1>1, <1>3 DEF IInv, InOrder, IsWave
    <3>2. \A s \in Step : wave[s] = level => outcome'[s] # "none" \/ \E v \in Worker : job'[v] = s
      BY <1>1, <1>2, <1>4, <2>1 DEF IInv, InOrder
    <3>3. \A v \in Worker : job'[v] # Free => wave[job'[v]] = level
      BY <1>1, <2>1 DEF IInv, InOrder
    <3> QED
      BY <1>1, <1>2, <1>3, <2>1, <3>1, <3>2, <3>3, LevelIsNatural DEF IInv, InOrder, TypeOK
  <2> QED
    BY <1>1, <1>2, <1>3, <2>2, <2>3, <2>4, LevelIsNatural
       DEF IInv, TypeOK, Parked, Bounds, FlagTrue, LogTrue, HonestLog, Settled
<1>5. CASE \E s \in todo : job' = [job EXCEPT ![w] = s] /\ todo' = todo \ {s}
  <2> PICK y \in todo : job' = [job EXCEPT ![w] = y] /\ todo' = todo \ {y}
    BY <1>5
  <2>1. /\ y \in Step /\ y # x /\ y # Free /\ outcome[y] = "none" /\ wave[y] = level
        /\ \A v \in Worker : job[v] # y
    BY <1>1, StepAssumption DEF IInv, TypeOK, Apart, InOrder
  <2>2. /\ job'[w] = y /\ \A v \in Worker \ {w} : job'[v] = job[v]
        /\ job' \in [Worker -> Step \cup {Free}]
    BY <2>1 DEF IInv, TypeOK
  <2>3. TypeOK' /\ NoIdleWorker'
    BY <1>2, <1>3, <2>1, <2>2 DEF IInv, TypeOK, NoIdleWorker
  <2>4. Apart'
    BY <1>1, <1>2, <2>1, <2>2 DEF IInv, TypeOK, Apart
  <2>5. InOrder'
    <3>1. IsWave(wave)'
      BY <1>1, <1>3 DEF IInv, InOrder, IsWave
    <3>2. \A s \in Step : wave[s] = level =>
             \/ s \in todo' \/ outcome'[s] # "none" \/ \E v \in Worker : job'[v] = s
      BY <1>1, <1>2, <2>1, <2>2 DEF IInv, InOrder
    <3>3. \A v \in Worker : job'[v] # Free => wave[job'[v]] = level
      BY <1>1, <2>1, <2>2 DEF IInv, InOrder
    <3> QED
      BY <1>1, <1>2, <1>3, <2>1, <3>1, <3>2, <3>3, LevelIsNatural DEF IInv, InOrder, TypeOK
  <2> QED
    BY <1>1, <1>2, <1>3, <2>3, <2>4, <2>5, LevelIsNatural
       DEF IInv, TypeOK, Parked, Bounds, FlagTrue, LogTrue, HonestLog, Settled
<1> QED
  BY <1>4, <1>5 DEF Settle

\* When all workers have returned, the whole wave has settled.
LEMMA WaveDone ==
  ASSUME IInv, WaveSettled
  PROVE  \A s \in Step : wave[s] <= level => outcome[s] # "none"
<1> SUFFICES ASSUME NEW s \in Step, wave[s] <= level PROVE outcome[s] # "none"
  OBVIOUS
<1>1. wave[s] < level \/ wave[s] = level
  BY LevelIsNatural DEF IInv, TypeOK
<1>2. s # Free
  BY StepAssumption
<1> QED
  BY <1>1, <1>2 DEF IInv, InOrder, WaveSettled

\* The flag after the outputs of a wave were collected.
LEMMA CollectStep ==
  ASSUME IInv, phase = "running", Collect
  PROVE  /\ results' \subseteq Step /\ failures' \in BOOLEAN
         /\ \A s \in Step : wave[s] <= level => s \in results'
         /\ failures' <=> \E s \in Step : wave[s] <= level /\ outcome[s] = "failed"
<1>1. \A s \in Step : wave[s] <= level <=> wave[s] < level \/ wave[s] = level
  BY LevelIsNatural DEF IInv, TypeOK
<1>2. \A s \in Step : wave[s] < level => s \in results
  BY DEF IInv, InOrder
<1>3. failures <=> \E s \in Step : wave[s] < level /\ outcome[s] = "failed"
  BY DEF IInv, FlagTrue
<1>4. failures' <=> failures \/ \E s \in Step : wave[s] = level /\ outcome[s] = "failed"
  BY DEF Collect, Wave
<1> QED
  BY <1>1, <1>2, <1>3, <1>4 DEF IInv, TypeOK, Collect, Wave

\* The next wave is the lowest that is left, so that nothing below it is.
LEMMA NextWaveStep == ASSUME IInv, NextWave PROVE IInv'
<1> PICK f \in Later :
      /\ \A s \in Later : wave[f] <= wave[s]
      /\ level' = wave[f]
      /\ \E j \in [Worker -> Wave(wave, wave[f]) \cup {Free}] : Deal(Wave(wave, wave[f]), j)
  BY DEF NextWave
<1> DEFINE S == Wave(wave, wave[f])
<1> PICK j \in [Worker -> S \cup {Free}] : Deal(S, j)
  OBVIOUS
<1>1. /\ phase = "running" /\ WaveSettled /\ Collect
      /\ UNCHANGED <<deps, phase, wave, outcome, logged>>
  BY DEF NextWave, WaveSettled
<1>2. /\ f \in Step /\ wave[f] \in Level /\ wave[f] > level
      /\ \A s \in Step : wave[s] > level => wave[f] <= wave[s]
  BY DEF Later, IInv, TypeOK
<1>3. /\ S \in SUBSET Step /\ \A s \in S : wave[s] = wave[f] /\ outcome[s] = "none"
      /\ \A s \in Step : wave[s] = wave[f] => s \in S
  BY <1>1, <1>2 DEF Wave, IInv, InOrder
<1>4. Apart' /\ NoIdleWorker' /\ todo' \subseteq S
  BY <1>1, <1>3, DealStep
<1>5. /\ \A s \in S : s \in todo' \/ \E v \in Worker : job'[v] = s
      /\ \A v \in Worker : job'[v] # Free => job'[v] \in S
      /\ job' \in [Worker -> Step \cup {Free}]
  BY <1>1, <1>3, DealStep
<1>6. /\ results' \subseteq Step /\ failures' \in BOOLEAN
      /\ \A s \in Step : wave[s] <= level => s \in results'
      /\ failures' <=> \E s \in Step : wave[s] <= level /\ outcome[s] = "failed"
  BY <1>1, CollectStep
<1>7. TypeOK'
  BY <1>1, <1>2, <1>3, <1>4, <1>5, <1>6 DEF IInv, TypeOK
<1>8. \A s \in Step : wave[s] < wave[f] <=> wave[s] <= level
  BY <1>2, LevelIsNatural DEF IInv, TypeOK
<1>9. InOrder'
  <2>1. IsWave(wave)'
    BY <1>1 DEF IInv, InOrder, IsWave
  <2>2. \A s \in Step : wave[s] <= level => outcome[s] # "none"
    BY <1>1, WaveDone
  <2>3. \A s \in Step : wave[s] > wave[f] => outcome[s] = "none"
    BY <1>1, <1>2, LevelIsNatural DEF IInv, InOrder, TypeOK
  <2> QED
    BY <1>1, <1>3, <1>4, <1>5, <1>6, <1>8, <2>1, <2>2, <2>3 DEF InOrder
<1>10. FlagTrue'
  BY <1>1, <1>6, <1>8 DEF FlagTrue
<1> QED
  BY <1>1, <1>4, <1>7, <1>9, <1>10
     DEF IInv, Parked, Bounds, LogTrue, HonestLog, Settled

\* After the last wave every step has settled.
LEMMA LastWaveStep == ASSUME IInv, LastWave PROVE IInv'
<1>1. /\ phase = "running" /\ phase' = "synthesis" /\ WaveSettled /\ Collect /\ Later = {}
      /\ UNCHANGED <<deps, wave, level, todo, job, outcome, logged>>
  BY DEF LastWave, WaveSettled
<1>2. \A s \in Step : wave[s] <= level
  BY <1>1, LevelIsNatural DEF Later, IInv, TypeOK
<1>3. \A s \in Step : outcome[s] # "none"
  BY <1>1, <1>2, WaveDone
<1>4. /\ results' \subseteq Step /\ failures' \in BOOLEAN
      /\ failures' <=> \E s \in Step : outcome[s] = "failed"
  BY <1>1, <1>2, CollectStep
<1>5. TypeOK'
  BY <1>1, <1>4 DEF IInv, TypeOK, Phase
<1> QED
  BY <1>1, <1>3, <1>4, <1>5
     DEF IInv, WaveSettled, Apart, Parked, InOrder, Bounds, FlagTrue, LogTrue, HonestLog, Settled,
         NoIdleWorker

\* Behind the last wave the log entry is made from the flag, which tells whether
\* a step failed.
LEMMA ConcludeStep == ASSUME IInv, Conclude PROVE IInv'
<1>1. TypeOK'
  BY DEF Conclude, IInv, TypeOK, Phase
<1>2. HonestLog'
  BY DEF Conclude, IInv, TypeOK, Bounds, FlagTrue, HonestLog, Settled
<1> QED
  BY <1>1, <1>2
     DEF Conclude, IInv, Apart, Parked, InOrder, Bounds, FlagTrue, LogTrue, NoIdleWorker

\* The run's name and its locals go, and the next may be triggered.
LEMMA ReportStep == ASSUME IInv, Report PROVE IInv'
<1>1. 0 \in Level
  BY StepAssumption, FS_CardinalityType, FS_EmptySet DEF Level
<1>2. TypeOK'
  BY <1>1 DEF Report, IInv, TypeOK, Phase
<1> QED
  BY <1>2 DEF Report, IInv, Apart, Parked, InOrder, Bounds, FlagTrue, LogTrue, HonestLog,
              Settled, NoIdleWorker

\* A step that changes nothing keeps the invariant.
LEMMA StutterStep == ASSUME IInv, UNCHANGED vars PROVE IInv'
  BY DEF vars, IInv, TypeOK, Apart, Parked, InOrder, IsWave, Bounds, FlagTrue, LogTrue,
         HonestLog, Settled, NoIdleWorker

\* The invariant holds in every state a behaviour of the runner reaches.
THEOREM Inductive == Spec => []IInv
<1>1. ASSUME IInv, [Next]_vars PROVE IInv'
  BY <1>1, TriggerStep, RejectStep, AdmitStep, NextWaveStep, LastWaveStep, ConcludeStep,
     ReportStep, SettleStep, StutterStep DEF Next, Run
<1> QED
  BY <1>1, InitIInv, PTL DEF Spec

\* The state of a run is well formed, for every graph and every number of workers.
THEOREM TypeCorrect == Spec => []TypeOK
<1>1. IInv => TypeOK
  BY DEF IInv
<1> QED
  BY <1>1, Inductive, PTL

\* A step in flight finds the output of everything it depends on: what its prompt
\* is filled in from exists, the notes of failed steps included.
THEOREM InputsThere == Spec => []OutputsAvailable
<1>1. IInv => OutputsAvailable
  <2> SUFFICES ASSUME IInv, NEW s \in Flying PROVE deps[s] \subseteq results
    BY DEF OutputsAvailable
  <2>1. PICK w \in Worker : job[w] = s /\ s \in Step /\ s # Free
    BY StepAssumption DEF Flying
  <2>2. phase = "running" /\ wave[s] = level /\ IsWave(wave)
    BY <2>1 DEF IInv, Parked, InOrder
  <2>3. \A d \in deps[s] : d \in Step /\ wave[d] < level
    BY <2>1, <2>2 DEF IInv, TypeOK, IsWave
  <2> QED
    BY <2>2, <2>3 DEF IInv, InOrder
<1> QED
  BY <1>1, Inductive, PTL

\* No worker stands still while a step of its wave waits for one.
THEOREM WorkersBusy == Spec => []NoIdleWorker
<1>1. IInv => NoIdleWorker
  BY DEF IInv
<1> QED
  BY <1>1, Inductive, PTL

\* The status in the run log says what happened to the steps, all of them.
THEOREM LogIsHonest == Spec => []HonestLog
<1>1. IInv => HonestLog
  BY DEF IInv, LogTrue
<1> QED
  BY <1>1, Inductive, PTL

-----------------------------------------------------------------------------
\* Each worker carries one step, so the steps in flight fit in the workers.
LEMMA FewFly ==
  ASSUME NEW j \in [Worker -> Step \cup {Free}]
  PROVE  Abstract!FitsIn({s \in Step : \E w \in Worker : j[w] = s})
<1> DEFINE F == {s \in Step : \E w \in Worker : j[w] = s}
           slot == [s \in F |-> CHOOSE w \in Worker : j[w] = s]
<1>1. \A s \in F : slot[s] \in Worker /\ j[slot[s]] = s
  OBVIOUS
<1>2. slot \in [F -> Worker]
  BY <1>1
<1>3. \A s, t \in F : slot[s] = slot[t] => s = t
  BY <1>1
<1> QED
  BY <1>2, <1>3 DEF Abstract!FitsIn

\* A step of the wave being started has all its dependencies among the settled.
LEMMA DepsSettled ==
  ASSUME IInv, IInv', phase' = "running", NEW s \in Flying'
  PROVE  s \in Step /\ deps'[s] \subseteq Settled'
<1>1. PICK w \in Worker : job'[w] = s /\ s \in Step /\ s # Free
  BY StepAssumption DEF Flying
<1>2. wave'[s] = level' /\ IsWave(wave)'
  BY <1>1 DEF IInv, InOrder
<1>3. \A d \in deps'[s] : d \in Step /\ wave'[d] < level'
  BY <1>1, <1>2 DEF IInv, TypeOK, IsWave
<1> QED
  BY <1>1, <1>3 DEF IInv, InOrder, Settled

\* A step of the runner in which the settled steps grow by S and those started by
\* steps that now fly is one of DataFlow.
LEMMA ProgressStep ==
  ASSUME IInv, IInv', phase' = "running", deps' = deps,
         NEW S \in SUBSET (Flying \ Settled), NEW T \in SUBSET (Step \ (Flying \cup Settled)),
         Settled' = Settled \cup S,
         (Flying \cup Settled)' = (Flying \cup Settled) \cup T
  PROVE  Abstract!Next
<1>1. /\ S \in SUBSET Step /\ T \in SUBSET Step
      /\ S \subseteq (Flying \cup Settled) \ Settled
      /\ T \subseteq Step \ (Flying \cup Settled)
  BY DEF Flying
<1>2. \A t \in T : t \in Flying'
  BY <1>1
<1>3. \A t \in T : deps[t] \subseteq Settled'
  BY <1>2, DepsSettled
<1>4. (Flying \cup Settled)' \ Settled' = Flying'
  <2>1. \A s \in Flying' : s \notin Settled'
    BY StepAssumption DEF IInv, Apart, Flying, Settled
  <2> QED
    BY <2>1
<1>5. Abstract!FitsIn(Flying')
  BY FewFly DEF IInv, TypeOK, Flying
<1>6. Abstract!Progress(S, T)
  BY <1>1, <1>3, <1>4, <1>5 DEF Abstract!Progress
<1> QED
  BY <1>1, <1>6 DEF Abstract!Next

\* A workflow runs as DataFlow promises: each step once, after everything it
\* depends on, no more of them at a time than workers, and all before it ends.
THEOREM ImplementsDataFlow == Spec => DataFlowSpec
<1>1. Init => Abstract!Init
  BY StepAssumption DEF Init, Abstract!Init, Flying, Settled
<1>2. ASSUME IInv, IInv', [Next]_vars PROVE [Abstract!Next]_(Abstract!vars)
  <2> USE <1>2
  <2>1. ASSUME Trigger \/ Reject \/ LastWave \/ Conclude \/ UNCHANGED vars
        PROVE  UNCHANGED Abstract!vars
    BY <2>1 DEF Trigger, Reject, LastWave, Conclude, vars, Abstract!vars, Flying, Settled
  <2>2. ASSUME Admit PROVE Abstract!Next
    <3>1. Settled = {} /\ Settled' = {} /\ Flying = {}
      BY <2>2, StepAssumption DEF Admit, IInv, Bounds, Parked, Settled, Flying
    <3>2. Flying' \in SUBSET (Step \ (Flying \cup Settled))
      BY <3>1 DEF Flying
    <3>3. phase' = "running" /\ deps' = deps
      BY <2>2 DEF Admit
    <3> QED
      BY <3>1, <3>2, <3>3, ProgressStep
  <2>3. ASSUME NEW w \in Worker, NEW o \in {"done", "failed"}, Settle(w, o)
        PROVE  Abstract!Next
    <3> DEFINE x == job[w]
               T == Flying' \ (Flying \cup Settled)
    <3>1. /\ x \in Step /\ x # Free /\ phase = "running" /\ outcome[x] = "none"
          /\ phase' = "running" /\ deps' = deps
      BY <2>3 DEF Settle, IInv, TypeOK, Apart, Parked
    <3>2. {x} \in SUBSET (Flying \ Settled)
      BY <3>1 DEF Flying, Settled
    <3>3. Settled' = Settled \cup {x}
      BY <2>3, <3>1 DEF Settle, IInv, TypeOK, Settled
    <3>4. T \in SUBSET (Step \ (Flying \cup Settled))
      BY DEF Flying
    <3>5. \A s \in Flying \ {x} : s \in Flying'
      <4> SUFFICES ASSUME NEW s \in Flying, s # x PROVE s \in Flying'
        OBVIOUS
      <4>1. PICK v \in Worker : job[v] = s /\ v # w /\ s \in Step
        BY DEF Flying
      <4>2. job'[v] = s
        BY <2>3, <4>1 DEF Settle, IInv, TypeOK
      <4> QED
        BY <4>1, <4>2 DEF Flying
    <3>6. (Flying \cup Settled)' = (Flying \cup Settled) \cup T
      BY <3>2, <3>3, <3>5
    <3> QED
      BY <3>1, <3>2, <3>3, <3>4, <3>6, ProgressStep
  <2>4. ASSUME NextWave PROVE Abstract!Next
    <3>1. Settled' = Settled /\ phase' = "running" /\ deps' = deps
      BY <2>4 DEF NextWave, WaveSettled, Settled
    <3>2. Flying = {}
      BY <2>4, StepAssumption DEF NextWave, WaveSettled, Flying
    <3>3. Flying' \in SUBSET (Step \ (Flying \cup Settled))
      <4>1. \A s \in Flying' : s \in Step /\ s \notin Settled'
        BY StepAssumption DEF IInv, Apart, Flying, Settled
      <4> QED
        BY <3>1, <3>2, <4>1
    <3> QED
      BY <3>1, <3>2, <3>3, ProgressStep
  <2>5. ASSUME Report PROVE [Abstract!Next]_(Abstract!vars)
    <3>1. Settled' = {} /\ Flying' = {} /\ Flying = {} /\ deps' = deps
      BY <2>5, StepAssumption DEF Report, IInv, Parked, Settled, Flying
    <3>2. Settled = Step \/ Settled = {}
      BY <2>5 DEF Report, IInv, TypeOK, LogTrue, HonestLog, Settled
    <3>3. CASE Settled = Step
      BY <3>1, <3>3 DEF Abstract!Next, Abstract!Restart
    <3>4. CASE Settled = {}
      BY <3>1, <3>4 DEF Abstract!vars
    <3> QED
      BY <3>2, <3>3, <3>4
  <2> QED
    BY <1>2, <2>1, <2>2, <2>3, <2>4, <2>5 DEF Next, Run
<1> QED
  BY <1>1, <1>2, Inductive, PTL DEF Spec, DataFlowSpec, Abstract!Spec

-----------------------------------------------------------------------------
\* The waves of a graph, by least counterexamples.  A cycle is stated as a set of
\* steps each of which waits for another of the set: a finite graph has one if
\* and only if some path returns to its start.
Stuck(C) == C # {} /\ \A s \in C : deps[s] \cap C # {}
HasCycle == \E C \in SUBSET Step : Stuck(C)

\* A set of naturals that is not empty has a least element.
LEMMA LeastNatural ==
  ASSUME NEW T, T \subseteq Nat, T # {}
  PROVE  \E n \in T : \A m \in T : n <= m
<1>1. PICK R : R = OpToRel(<, Nat)
  OBVIOUS
<1>2. IsWellFoundedOn(R, Nat)
  BY <1>1, NatLessThanWellFounded
<1>3. PICK n \in T : \A m \in T : ~(<<m, n>> \in R)
  BY <1>2, WFMin
<1>4. \A m, k \in Nat : m < k => <<m, k>> \in R
  BY <1>1 DEF OpToRel
<1>5. ASSUME NEW m \in T PROVE n <= m
  <2>1. ~(m < n)
    BY <1>3, <1>4
  <2> QED
    BY <2>1
<1> QED
  BY <1>5

\* Of elements with bounded numbers one has the least and one the greatest.
LEMMA LeastAndGreatest ==
  ASSUME NEW S, S # {}, NEW f, \A s \in S : f[s] \in Nat, NEW b \in Nat, \A s \in S : f[s] < b
  PROVE  /\ \E s \in S : \A t \in S : f[s] <= f[t]
         /\ \E s \in S : \A t \in S : f[t] <= f[s]
<1>1. \E s \in S : \A t \in S : f[s] <= f[t]
  <2> DEFINE T == {f[s] : s \in S}
  <2>1. T \subseteq Nat /\ T # {}
    OBVIOUS
  <2> HIDE DEF T
  <2>2. PICK n \in T : \A m \in T : n <= m
    BY <2>1, LeastNatural
  <2> QED
    BY <2>2 DEF T
<1>2. \E s \in S : \A t \in S : f[t] <= f[s]
  <2> DEFINE T == {b - f[s] : s \in S}
  <2>1. T \subseteq Nat /\ T # {}
    OBVIOUS
  <2> HIDE DEF T
  <2>2. PICK n \in T : \A m \in T : n <= m
    BY <2>1, LeastNatural
  <2>3. PICK s \in S : n = b - f[s]
    BY DEF T
  <2>4. ASSUME NEW t \in S PROVE f[t] <= f[s]
    <3>1. b - f[s] <= b - f[t]
      BY <2>2, <2>3 DEF T
    <3> QED
      BY <3>1
  <2> QED
    BY <2>4
<1> QED
  BY <1>1, <1>2

\* Waves rise along the dependencies, so no set of steps waits for itself.
LEMMA WavesMeanNoCycle ==
  ASSUME deps \in [Step -> SUBSET Step], NEW w \in [Step -> Level], IsWave(w)
  PROVE  ~HasCycle
<1> SUFFICES ASSUME NEW C \in SUBSET Step, Stuck(C) PROVE FALSE
  BY DEF HasCycle
<1>1. Cardinality(Step) \in Nat /\ \A s \in Step : w[s] \in Nat /\ w[s] < Cardinality(Step)
  BY StepAssumption, FS_CardinalityType DEF Level
<1>2. C # {} /\ \A s \in C : w[s] \in Nat /\ w[s] < Cardinality(Step)
  BY <1>1 DEF Stuck
<1>3. PICK s \in C : \A t \in C : w[s] <= w[t]
  BY <1>1, <1>2, LeastAndGreatest
<1>4. PICK d \in deps[s] : d \in C
  BY DEF Stuck
<1>5. w[d] < w[s] /\ d \in Step
  BY <1>4 DEF IsWave
<1> QED
  BY <1>1, <1>3, <1>4, <1>5

\* The waves of a graph are determined: two assignments agree on the first step
\* at which they could differ, for they agree on all it depends on.
LEMMA WavesAreUnique ==
  ASSUME deps \in [Step -> SUBSET Step], NEW v \in [Step -> Level], NEW w \in [Step -> Level],
         IsWave(v), IsWave(w)
  PROVE  v = w
<1>1. Cardinality(Step) \in Nat /\ \A s \in Step : /\ v[s] \in Nat /\ v[s] < Cardinality(Step)
                                                   /\ w[s] \in Nat
  BY StepAssumption, FS_CardinalityType DEF Level
<1> DEFINE D == {s \in Step : v[s] # w[s]}
<1>2. ASSUME D # {} PROVE FALSE
  <2>1. PICK s \in D : \A t \in D : v[s] <= v[t]
    BY <1>1, <1>2, LeastAndGreatest
  <2>2. \A d \in deps[s] : d \in Step /\ (v[d] < v[s] => v[d] = w[d])
    BY <1>1, <2>1
  <2>3. CASE deps[s] = {}
    BY <2>1, <2>3 DEF IsWave
  <2>4. CASE deps[s] # {}
    <3>1. PICK d \in deps[s] : v[s] = v[d] + 1
      BY <2>1, <2>4 DEF IsWave
    <3>2. PICK e \in deps[s] : w[s] = w[e] + 1
      BY <2>1, <2>4 DEF IsWave
    <3>3. \A x \in deps[s] : v[x] < v[s] /\ w[x] < w[s] /\ v[x] = w[x]
      BY <2>1, <2>2 DEF IsWave
    <3> QED
      BY <1>1, <2>1, <2>2, <3>1, <3>2, <3>3
  <2> QED
    BY <2>3, <2>4
<1>3. \A s \in Step : v[s] = w[s]
  BY <1>2
<1> QED
  BY <1>3

\* A part of the graph that is closed under dependencies and has its waves, fewer
\* of them than steps.
Begun(D, w) ==
  /\ D \subseteq Step /\ w \in [D -> Nat]
  /\ \A s \in D : /\ deps[s] \subseteq D /\ w[s] < Cardinality(D)
                  /\ IF deps[s] = {} THEN w[s] = 0
                     ELSE /\ \E d \in deps[s] : w[s] = w[d] + 1
                          /\ \A d \in deps[s] : w[d] < w[s]

\* A step whose dependencies all have a wave comes right after the last of them.
LEMMA BegunGrows ==
  ASSUME deps \in [Step -> SUBSET Step], NEW D, NEW w, Begun(D, w),
         NEW s \in Step \ D, deps[s] \subseteq D
  PROVE  \E v : Begun(D \cup {s}, v)
<1>1. IsFiniteSet(D) /\ Cardinality(D) \in Nat
  BY StepAssumption, FS_Subset, FS_CardinalityType DEF Begun
<1>2. Cardinality(D \cup {s}) = Cardinality(D) + 1
  BY <1>1, FS_AddElement
<1>3. \A d \in D : w[d] \in Nat /\ w[d] < Cardinality(D)
  BY DEF Begun
<1>4. \E k \in Nat : /\ k < Cardinality(D) + 1
                     /\ IF deps[s] = {} THEN k = 0
                        ELSE /\ \E d \in deps[s] : k = w[d] + 1
                             /\ \A d \in deps[s] : w[d] < k
  <2>1. CASE deps[s] = {}
    BY <1>1, <2>1
  <2>2. CASE deps[s] # {}
    <3>1. \A d \in deps[s] : w[d] \in Nat /\ w[d] < Cardinality(D)
      BY <1>3
    <3>2. PICK d \in deps[s] : \A e \in deps[s] : w[e] <= w[d]
      BY <1>1, <2>2, <3>1, LeastAndGreatest
    <3>3. w[d] + 1 \in Nat /\ w[d] + 1 < Cardinality(D) + 1 /\ \A e \in deps[s] : w[e] < w[d] + 1
      BY <1>1, <3>1, <3>2
    <3> QED
      BY <2>2, <3>3
  <2> QED
    BY <2>1, <2>2
<1>5. PICK k \in Nat : /\ k < Cardinality(D) + 1
                       /\ IF deps[s] = {} THEN k = 0
                          ELSE /\ \E d \in deps[s] : k = w[d] + 1
                               /\ \A d \in deps[s] : w[d] < k
  BY <1>4
<1> DEFINE v == [x \in D \cup {s} |-> IF x = s THEN k ELSE w[x]]
<1>6. v \in [D \cup {s} -> Nat] /\ v[s] = k /\ \A x \in D : v[x] = w[x]
  BY <1>3
<1> HIDE DEF v
<1>7. \A x \in D : deps[x] \subseteq D
  BY DEF Begun
<1>8. ASSUME NEW x \in D
      PROVE  /\ v[x] < Cardinality(D \cup {s})
             /\ IF deps[x] = {} THEN v[x] = 0
                ELSE /\ \E d \in deps[x] : v[x] = v[d] + 1
                     /\ \A d \in deps[x] : v[d] < v[x]
  <2>1. v[x] = w[x] /\ \A d \in deps[x] : v[d] = w[d]
    BY <1>6, <1>7
  <2>2. v[x] < Cardinality(D \cup {s})
    BY <1>1, <1>2, <1>3, <2>1
  <2> QED
    BY <2>1, <2>2 DEF Begun
<1>9. /\ v[s] < Cardinality(D \cup {s})
      /\ IF deps[s] = {} THEN v[s] = 0
         ELSE /\ \E d \in deps[s] : v[s] = v[d] + 1
              /\ \A d \in deps[s] : v[d] < v[s]
  <2>1. \A d \in deps[s] : v[d] = w[d]
    BY <1>6
  <2> QED
    BY <1>2, <1>5, <1>6, <2>1
<1>10. D \cup {s} \subseteq Step /\ \A x \in D \cup {s} : deps[x] \subseteq D \cup {s}
  BY <1>7 DEF Begun
<1>11. \A x \in D \cup {s} : /\ v[x] < Cardinality(D \cup {s})
                             /\ IF deps[x] = {} THEN v[x] = 0
                                ELSE /\ \E d \in deps[x] : v[x] = v[d] + 1
                                     /\ \A d \in deps[x] : v[d] < v[x]
  BY <1>8, <1>9
<1>12. Begun(D \cup {s}, v)
  BY <1>6, <1>10, <1>11 DEF Begun
<1> QED
  BY <1>12

\* A graph without a cycle has waves: the largest part that has them is all of it.
LEMMA WavesExist ==
  ASSUME deps \in [Step -> SUBSET Step], ~HasCycle
  PROVE  \E w \in [Step -> Level] : IsWave(w)
<1> DEFINE N == Cardinality(Step)
           Part == {D \in SUBSET Step : \E w : Begun(D, w)}
           size == [D \in Part |-> Cardinality(D)]
<1>1. N \in Nat /\ \A D \in SUBSET Step : IsFiniteSet(D) /\ Cardinality(D) \in Nat /\ Cardinality(D) <= N
  BY StepAssumption, FS_CardinalityType, FS_Subset
<1>2. {} \in Part
  <2>1. Begun({}, [x \in {} |-> 0])
    BY DEF Begun
  <2> QED
    BY <2>1
<1>3. \A D \in Part : size[D] \in Nat /\ size[D] < N + 1
  BY <1>1
<1>4. Part # {} /\ N + 1 \in Nat
  BY <1>1, <1>2
<1> HIDE DEF size, N
<1>5. PICK D \in Part : \A E \in Part : size[E] <= size[D]
  <2> HIDE DEF Part
  <2> QED
    BY <1>3, <1>4, LeastAndGreatest
<1>6. PICK w : Begun(D, w)
  OBVIOUS
<1>7. D = Step
  <2> SUFFICES ASSUME D # Step PROVE FALSE
    OBVIOUS
  <2>1. Step \ D # {}
    BY <1>5
  <2>2. PICK s \in Step \ D : deps[s] \cap (Step \ D) = {}
    BY <2>1 DEF HasCycle, Stuck
  <2>3. deps[s] \subseteq D
    BY <2>2
  <2>4. D \cup {s} \in Part
    BY <1>6, <2>3, BegunGrows
  <2>5. size[D \cup {s}] = Cardinality(D \cup {s}) /\ size[D] = Cardinality(D)
    BY <1>5, <2>4 DEF size
  <2>6. Cardinality(D \cup {s}) = Cardinality(D) + 1
    BY <1>1, <1>5, <2>2, FS_AddElement
  <2> QED
    BY <1>1, <1>5, <2>4, <2>5, <2>6
<1>8. w \in [Step -> Nat] /\ \A s \in Step : w[s] < N
  BY <1>6, <1>7 DEF Begun, N
<1>9. w \in [Step -> Level]
  BY <1>1, <1>8 DEF Level, N
<1>10. IsWave(w)
  BY <1>6, <1>7 DEF Begun, IsWave
<1> QED
  BY <1>9, <1>10

\* The waves are those of the graph, and exactly the workflows with a cycle are
\* refused: none that could run, and none is run in an order its graph does not give
\* (validateWorkflow, computeWaves).
RefusedRightly ==
  /\ Reject => HasCycle
  /\ Admit => /\ ~HasCycle
              /\ \A w \in [Step -> Level] : IsWave(w) <=> w = wave'

\* A workflow is refused only for a cycle, and one that is admitted has none and
\* runs in the only waves its graph allows (validateWorkflow, computeWaves).
THEOREM OnlyCyclesAreRefused == Spec => [][RefusedRightly]_vars
<1>1. ASSUME IInv PROVE RefusedRightly
  <2>1. deps \in [Step -> SUBSET Step]
    BY <1>1 DEF IInv, TypeOK
  <2>2. ASSUME Reject PROVE HasCycle
    BY <2>1, <2>2, WavesExist DEF Reject
  <2>3. ASSUME Admit PROVE /\ ~HasCycle
                           /\ \A w \in [Step -> Level] : IsWave(w) <=> w = wave'
    <3>1. wave' \in [Step -> Level] /\ IsWave(wave')
      BY <2>3 DEF Admit
    <3>2. ~HasCycle
      BY <2>1, <2>3, WavesMeanNoCycle DEF Admit
    <3>3. ASSUME NEW w \in [Step -> Level], IsWave(w) PROVE w = wave'
      <4>1. PICK u \in [Step -> Level] : u = wave' /\ IsWave(u)
        BY <3>1
      <4> QED
        BY <2>1, <3>3, <4>1, WavesAreUnique
    <3> QED
      BY <3>1, <3>2, <3>3
  <2> QED
    BY <2>2, <2>3 DEF RefusedRightly
<1> QED
  BY <1>1, Inductive, PTL

-----------------------------------------------------------------------------
\* What the end of a run rests on besides fairness: the run can always go on, and
\* each of its steps leaves less to do.

\* The workers can share out the steps S, see Deal.
CanDeal(S) ==
  \E j \in [Worker -> S \cup {Free}] :
     /\ \A v, w \in Worker : j[v] = j[w] => v = w \/ j[v] = Free
     /\ (\E w \in Worker : j[w] = Free) => \A s \in S : \E w \in Worker : j[w] = s

\* However many steps and workers there are, a way to share them out that leaves
\* the fewest workers without a step is one settledWithLimit allows.
LEMMA DealPossible ==
  ASSUME NEW S \in SUBSET Step
  PROVE  CanDeal(S)
<1> DEFINE Busy(j) == {w \in Worker : j[w] # Free}
           Shares == {j \in [Worker -> S \cup {Free}] :
                        \A v, w \in Worker : j[v] = j[w] => v = w \/ j[v] = Free}
           size == [j \in Shares |-> Cardinality(Busy(j))]
           N == Cardinality(Worker)
<1>1. /\ N \in Nat
      /\ \A V \in SUBSET Worker : IsFiniteSet(V) /\ Cardinality(V) \in Nat /\ Cardinality(V) <= N
  BY WorkerAssumption, FS_CardinalityType, FS_Subset
<1>2. [w \in Worker |-> Free] \in Shares
  OBVIOUS
<1>3. \A j \in Shares : size[j] \in Nat /\ size[j] < N + 1
  BY <1>1
<1>4. Shares # {} /\ N + 1 \in Nat
  BY <1>1, <1>2
<1>5. PICK j \in Shares : \A i \in Shares : size[i] <= size[j]
  <2> HIDE DEF Shares, size, N
  <2> QED
    BY <1>3, <1>4, LeastAndGreatest
<1>6. ASSUME NEW w \in Worker, j[w] = Free, NEW s \in S, \A v \in Worker : j[v] # s
      PROVE  FALSE
  <2> DEFINE i == [j EXCEPT ![w] = s]
  <2>1. s # Free
    BY StepAssumption
  <2>2. i \in Shares
    BY <1>6
  <2>3. Busy(i) = Busy(j) \cup {w} /\ w \notin Busy(j)
    BY <1>6, <2>1
  <2>4. Cardinality(Busy(i)) = Cardinality(Busy(j)) + 1
    BY <1>1, <2>3, FS_AddElement
  <2>5. size[i] = Cardinality(Busy(i)) /\ size[j] = Cardinality(Busy(j))
    BY <2>2
  <2>6. size[i] <= size[j] /\ Cardinality(Busy(j)) \in Nat
    BY <1>1, <1>5, <2>2
  <2> QED
    BY <2>4, <2>5, <2>6
<1> QED
  BY <1>5, <1>6 DEF CanDeal

\* The guards of the steps of a run.
CanGoOn ==
  \/ /\ phase = "queued"
     /\ \/ ~\E w \in [Step -> Level] : IsWave(w)
        \/ \E w \in [Step -> Level] : IsWave(w) /\ CanDeal(Wave(w, 0))
  \/ \E w \in Worker : job[w] # Free
  \/ /\ WaveSettled
     /\ \/ Later = {}
        \/ \E first \in Later : /\ \A s \in Later : wave[first] <= wave[s]
                                /\ CanDeal(Wave(wave, wave[first]))
  \/ phase \in {"synthesis", "report"}

\* A run that was triggered is never stuck: while steps wait workers are at them,
\* and when all workers have returned there is a next wave or the synthesis.
THEOREM RunsCannotStall == Spec => [](phase # "idle" => CanGoOn)
<1>1. ASSUME IInv, phase # "idle" PROVE CanGoOn
  <2>1. CASE phase = "queued"
    <3>1. \A w \in [Step -> Level] : CanDeal(Wave(w, 0))
      BY DealPossible DEF Wave
    <3> QED
      BY <2>1, <3>1 DEF CanGoOn
  <2>2. CASE phase = "running" /\ \A w \in Worker : job[w] = Free
    <3>1. todo = {}
      BY <1>1, <2>2, WorkerAssumption DEF IInv, NoIdleWorker
    <3>2. WaveSettled
      BY <2>2, <3>1 DEF WaveSettled
    <3>3. \A k : CanDeal(Wave(wave, k))
      BY DealPossible DEF Wave
    <3>4. CASE Later = {}
      BY <3>2, <3>4 DEF CanGoOn
    <3>5. CASE Later # {}
      <4>1. Later \subseteq Step /\ Cardinality(Step) \in Nat
        BY StepAssumption, FS_CardinalityType DEF Later
      <4>2. \A s \in Later : wave[s] \in Nat /\ wave[s] < Cardinality(Step)
        BY <1>1, <4>1 DEF IInv, TypeOK, Level
      <4>3. PICK first \in Later : \A s \in Later : wave[first] <= wave[s]
        BY <3>5, <4>1, <4>2, LeastAndGreatest
      <4> QED
        BY <3>2, <3>3, <4>3 DEF CanGoOn
    <3> QED
      BY <3>4, <3>5
  <2>3. CASE \E w \in Worker : job[w] # Free
    BY <2>3 DEF CanGoOn
  <2> QED
    BY <1>1, <2>1, <2>2, <2>3 DEF IInv, TypeOK, Phase, CanGoOn
<1> QED
  BY <1>1, Inductive, PTL

\* What a run has left to do: its phases, and in the waves the steps that have not
\* settled and those whose wave has not begun.
Left ==
  IF phase = "queued" THEN 4 + Cardinality(Step) + Cardinality(Step)
  ELSE IF phase = "running" THEN 3 + Cardinality(Step \ Settled) + Cardinality(Later)
  ELSE IF phase = "synthesis" THEN 2
  ELSE IF phase = "report" THEN 1
  ELSE 0

\* Each step of a run leaves less to do, so that a run of n steps is over after at
\* most 2n + 4 of them: no wave is run twice, no worker takes up a step again.
RunCountsDown == Run => Left' \in Nat /\ Left' < Left

\* The sets that are counted are finite, and no larger than the graph.
LEMMA Sizes ==
  /\ Cardinality(Step) \in Nat
  /\ \A S \in SUBSET Step : IsFiniteSet(S) /\ Cardinality(S) \in Nat /\ Cardinality(S) <= Cardinality(Step)
  BY StepAssumption, FS_CardinalityType, FS_Subset

\* A set of steps that loses one has one less.
LEMMA OneLess ==
  ASSUME NEW S \in SUBSET Step, NEW T \in SUBSET S, NEW s \in S, s \notin T
  PROVE  Cardinality(T) < Cardinality(S)
<1>1. IsFiniteSet(S) /\ Cardinality(T) <= Cardinality(S) /\ (Cardinality(S) = Cardinality(T) => S = T)
  BY Sizes, FS_Subset
<1>2. Cardinality(S) \in Nat /\ Cardinality(T) \in Nat
  BY Sizes
<1> QED
  BY <1>1, <1>2

\* A run of n steps is over after at most 2n + 4 steps of the runner: none of them
\* leaves as much to do as it found (runWorkflow, settledWithLimit).
THEOREM RunsAreBounded == Spec => [][RunCountsDown]_vars
<1>1. ASSUME IInv, IInv', Run PROVE Left' \in Nat /\ Left' < Left
  <2>1. CASE Reject
    BY <2>1, Sizes DEF Reject, Left
  <2>2. CASE Admit
    <3>1. phase = "queued" /\ phase' = "running"
      BY <2>2 DEF Admit
    <3>2. (Step \ Settled') \in SUBSET Step /\ Later' \in SUBSET Step
      BY DEF Later
    <3>3. /\ Cardinality(Step \ Settled') \in Nat /\ Cardinality(Later') \in Nat
          /\ Cardinality(Step \ Settled') <= Cardinality(Step)
          /\ Cardinality(Later') <= Cardinality(Step)
      BY <3>2, Sizes
    <3> QED
      BY <3>1, <3>3, Sizes DEF Left
  <2>3. CASE NextWave
    <3>1. PICK first \in Later : \A s \in Later : wave[first] <= wave[s] /\ level' = wave[first]
      BY <2>3 DEF NextWave
    <3>2. phase = "running" /\ phase' = "running" /\ Settled' = Settled /\ wave' = wave
      BY <2>3 DEF NextWave, WaveSettled, Settled
    <3>3. /\ \A s \in Step : wave[s] \in Nat
          /\ level \in Nat /\ Later \subseteq Step /\ wave[first] > level
      BY <1>1, LevelIsNatural DEF IInv, TypeOK, Later
    <3>4. Later' \subseteq Later /\ first \notin Later'
      BY <3>1, <3>2, <3>3 DEF Later
    <3>5. Cardinality(Later') < Cardinality(Later)
      BY <3>3, <3>4, OneLess
    <3>6. /\ Cardinality(Step \ Settled) \in Nat
          /\ Cardinality(Later) \in Nat /\ Cardinality(Later') \in Nat
      BY <3>3, <3>4, Sizes
    <3> QED
      BY <3>2, <3>5, <3>6 DEF Left
  <2>4. CASE LastWave
    <3>1. phase = "running" /\ phase' = "synthesis"
      BY <2>4 DEF LastWave, WaveSettled
    <3>2. Cardinality(Step \ Settled) \in Nat /\ Cardinality(Later) \in Nat
      BY Sizes DEF Later
    <3> QED
      BY <3>1, <3>2 DEF Left
  <2>5. CASE Conclude
    BY <2>5 DEF Conclude, Left
  <2>6. CASE Report
    BY <2>6 DEF Report, Left
  <2>7. ASSUME NEW w \in Worker, NEW o \in {"done", "failed"}, Settle(w, o)
        PROVE  Left' \in Nat /\ Left' < Left
    <3>1. /\ job[w] # Free /\ job[w] \in Step /\ outcome[job[w]] = "none"
          /\ outcome' = [outcome EXCEPT ![job[w]] = o]
          /\ UNCHANGED <<phase, wave, level>>
      BY <1>1, <2>7 DEF Settle, IInv, TypeOK, Apart
    <3>2. phase = "running" /\ phase' = "running"
      BY <1>1, <3>1 DEF IInv, Parked
    <3>3. /\ Step \ Settled' \subseteq Step \ Settled
          /\ job[w] \in Step \ Settled /\ job[w] \notin Step \ Settled'
      BY <1>1, <3>1 DEF Settled, IInv, TypeOK
    <3>4. Cardinality(Step \ Settled') < Cardinality(Step \ Settled)
      BY <3>3, OneLess
    <3>5. Later' = Later /\ Later \subseteq Step
      BY <3>1 DEF Later
    <3>6. /\ Cardinality(Step \ Settled) \in Nat /\ Cardinality(Step \ Settled') \in Nat
          /\ Cardinality(Later) \in Nat
      BY <3>5, Sizes
    <3> QED
      BY <3>2, <3>4, <3>5, <3>6 DEF Left
  <2> QED
    BY <1>1, <2>1, <2>2, <2>3, <2>4, <2>5, <2>6, <2>7 DEF Run
<1>2. IInv /\ IInv' => RunCountsDown
  BY <1>1 DEF RunCountsDown
<1> QED
  BY <1>2, Inductive, PTL
=============================================================================
