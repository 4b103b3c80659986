--------------------------- MODULE BgChainProofs ---------------------------
(***************************************************************************)
(* Chains of background tasks are safe for every number of chains, steps,  *)
(* plain tasks and crashes, plans of projects included.                    *)
(***************************************************************************)
EXTENDS BgChain, FiniteSetTheorems, TLAPS

USE DEF talkVars

\* A worker belongs to a task that was picked up, in a daemon that runs.
Workers ==
    /\ RunningHasWorker
    /\ ~up => worker = {}
    /\ \A t \in Task : status[t] \in {"none", "pending", "interrupted"} => t \notin worker

\* A callback waits only for a task whose worker has settled, and it carries
\* "done" only for a task that is done (or was, before its file was cleared).
Callbacks ==
    \A t \in StepTask : settled[t] # None =>
        /\ t \notin worker
        /\ status[t] \notin {"none", "pending", "running", "interrupted"}
        /\ settled[t] = "done" => status[t] \in {"done", "cleared"}

\* Nothing is left to happen to the task of step i of c.
Over(c, i) ==
    /\ status[<<c, i>>] \in {"done", "cleared"}
    /\ <<c, i>> \notin worker
    /\ settled[<<c, i>>] = None

\* A chain has one task that matters: those before it are over, those after it
\* do not exist.
OneFront ==
    \A c \in Chain, i, j \in Step : i < j /\ status[<<c, j>>] # "none" => Over(c, i)

\* The files of plans run behind those of tasks, never ahead.
PlanBehind ==
    /\ \A c \in Chain, i \in Step : status[<<c, i>>] = "none" =>
          step[c][i] = "pending" /\ \A w \in saving : w.chain = c => w.step[i] = "pending"
    /\ \A c \in Chain, i \in Step : status[<<c, i>>] # "none" => plan[c] # "none"
    /\ \A w \in saving : w.plan # "none" /\ plan[w.chain] # "none"

\* A plan that is being written, on offer, dropped or about to be decided on has
\* no task; what the clear dropped cannot come back on offer, and the message
\* that decides holds the plan on offer unless the session was cleared since.
Untouched ==
    /\ \A c \in Chain : c \in dropped \cup {asking, offered, held} =>
          \A i \in Step : status[<<c, i>>] = "none"
    /\ asking # None => plan[asking] = "none" /\ held = None
    /\ offered # None => offered \notin dropped /\ plan[offered] # "none"
    /\ asking \in dropped => ~attached
    /\ held # None => /\ held \notin dropped /\ plan[held] # "none"
                      /\ offered = IF attached THEN held ELSE None

\* What a plan file says, or is about to say, is what the tasks did.
Honest(p, f, c) ==
    \A i \in Step : (f[i] = "done" \/ p = "completed") => status[<<c, i>>] \in {"done", "cleared"}
Matches ==
    /\ \A c \in Chain : Honest(plan[c], step[c], c)
    /\ \A w \in saving : Honest(w.plan, w.step, w.chain)

IInv == ChainTypeOK /\ Workers /\ Callbacks /\ OneFront /\ PlanBehind /\ Untouched /\ Matches

\* The task of step i of chain c is <<c, i>>, a task like any other; steps are
\* numbered from one and no chain is called None.
LEMMA StepTaskType ==
  /\ StepTask \subseteq Task
  /\ \A c \in Chain, i \in Step : <<c, i>> \in StepTask
  /\ \A t \in StepTask : t[1] \in Chain /\ t[2] \in Step /\ t = <<t[1], t[2]>>
  /\ Step \subseteq Nat /\ 1 \in Step /\ None \notin Chain
  BY TaskAssumption, ChainAssumption DEF Step, None

\* Before the first message nothing is planned, queued or running.
LEMMA InitIInv == ChainInit => IInv
<1> SUFFICES ASSUME ChainInit PROVE IInv
  OBVIOUS
<1>1. TypeOK
  BY TaskAssumption DEF ChainInit, Init, TypeOK, Status, Heard, Terminal
<1>2. ChainTypeOK
  <2>1. settled \in [StepTask -> {None} \cup (Status \ {"none", "pending", "cleared"})]
    BY DEF ChainInit
  <2>2. Cardinality(saving) <= 1
    BY FS_EmptySet DEF ChainInit
  <2> QED
    BY <1>1, <2>1, <2>2 DEF ChainInit, ChainTypeOK, PlanStatus, StepStatus
<1> USE StepTaskType DEF ChainInit, Init
<1>3. Workers
  BY DEF Workers, RunningHasWorker
<1>4. Callbacks /\ OneFront
  BY DEF Callbacks, OneFront, None
<1>5. PlanBehind
  BY DEF PlanBehind
<1>6. Untouched
  BY DEF Untouched
<1>7. Matches
  BY DEF Matches, Honest
<1> QED
  BY <1>2, <1>3, <1>4, <1>5, <1>6, <1>7 DEF IInv

\* The chain's own variables stay well formed while nothing touches them.
LEMMA SameChains == ASSUME ChainTypeOK, TypeOK', UNCHANGED chainVars PROVE ChainTypeOK'
  BY DEF ChainTypeOK, chainVars

\* The conversation about plans touches no task.
LEMMA TalkStep ==
  ASSUME IInv,
         \/ \E c \in Chain : Ask(c)
         \/ ReadEntry \/ LetPass \/ Decline
         \/ PlanReady \/ PlanFails \/ ClearSession
  PROVE  IInv'
<1> USE StepTaskType DEF Ask, ReadEntry, LetPass, Decline, TakeOffer, PlanReady, PlanFails, ClearSession
<1>1. UNCHANGED <<vars, step, settled, saving, hurt>>
  OBVIOUS
<1>0. status' = status
  BY <1>1 DEF vars
<1>2. TypeOK'
  BY <1>1 DEF IInv, ChainTypeOK, TypeOK, vars
<1>3. ChainTypeOK'
  <2>1. plan' \in [Chain -> PlanStatus]
    BY DEF IInv, ChainTypeOK, PlanStatus
  <2>2. asking' \in Chain \cup {None} /\ attached' \in BOOLEAN
    BY DEF IInv, ChainTypeOK
  <2>4. offered' \in Chain \cup {None} /\ held' \in Chain \cup {None}
    BY DEF IInv, ChainTypeOK
  <2>3. dropped' \subseteq Chain
    BY DEF IInv, ChainTypeOK
  <2> QED
    BY <1>1, <1>2, <2>1, <2>2, <2>3, <2>4 DEF IInv, ChainTypeOK
<1>4. Workers' /\ Callbacks' /\ OneFront'
  BY <1>1 DEF IInv, Workers, RunningHasWorker, Callbacks, OneFront, Over, vars
<1>5. ASSUME NEW c \in Chain, Ask(c) PROVE PlanBehind' /\ Untouched' /\ Matches'
  <2>1. /\ asking' = c /\ held' = None /\ UNCHANGED <<status, plan, step, saving, offered, dropped>>
        /\ plan[c] = "none" /\ c \notin dropped /\ c # None
    BY <1>5 DEF Fresh, vars
  <2>2. \A i \in Step : status[<<c, i>>] = "none"
    BY <2>1 DEF IInv, PlanBehind
  <2>3. PlanBehind' /\ Matches'
    BY <2>1 DEF IInv, PlanBehind, Matches, Honest
  <2>4. Untouched'
    BY <2>1, <2>2 DEF IInv, Untouched
  <2> QED
    BY <2>3, <2>4
<1>6. ASSUME ReadEntry \/ LetPass \/ Decline \/ PlanFails \/ ClearSession
      PROVE  PlanBehind' /\ Untouched' /\ Matches'
  <2>1. PlanBehind' /\ Matches'
    BY <1>1, <1>6 DEF IInv, PlanBehind, Matches, Honest, vars
  <2>2. Untouched'
    BY <1>0, <1>6 DEF IInv, ChainTypeOK, Untouched
  <2> QED
    BY <2>1, <2>2
<1>7. ASSUME PlanReady PROVE PlanBehind' /\ Untouched' /\ Matches'
  <2>1. /\ Idle /\ asking \in Chain /\ held = None /\ held' = None /\ asking' = None
        /\ plan' = [plan EXCEPT ![asking] = "pending"] /\ plan \in [Chain -> PlanStatus]
        /\ offered' = IF attached THEN asking ELSE offered
        /\ asking \in dropped => ~attached
        /\ UNCHANGED <<status, step, saving, dropped>>
    BY <1>7 DEF IInv, ChainTypeOK, Untouched, vars
  <2>2. \A c \in Chain : plan'[c] = IF c = asking THEN "pending" ELSE plan[c]
    BY <2>1
  <2>3. PlanBehind' /\ Matches'
    BY <2>1, <2>2 DEF IInv, PlanBehind, Matches, Honest, Idle
  <2>4. Untouched'
    BY <2>1, <2>2 DEF IInv, ChainTypeOK, Untouched
  <2> QED
    BY <2>3, <2>4
<1> QED
  BY <1>3, <1>4, <1>5, <1>6, <1>7 DEF IInv

\* What a step of the tasks must keep for the chains to be none the wiser: tasks
\* that do not exist stay so, what succeeded stays so, and what is over stays over.
LEMMA TasksKept ==
  ASSUME IInv, ChainTypeOK', Callbacks',
         UNCHANGED <<plan, step, saving, asking, offered, held, attached, dropped>>,
         \A t \in StepTask : status'[t] = "none" <=> status[t] = "none",
         \A t \in StepTask : status[t] \in {"done", "cleared"} =>
             /\ status'[t] \in {"done", "cleared"}
             /\ t \notin worker /\ settled[t] = None => t \notin worker' /\ settled'[t] = None
  PROVE  OneFront' /\ PlanBehind' /\ Untouched' /\ Matches'
<1> USE StepTaskType
<1>1. OneFront'
  BY DEF IInv, OneFront, Over
<1>2. PlanBehind'
  BY DEF IInv, PlanBehind
<1>3. Untouched'
  BY DEF IInv, Untouched
<1>4. Matches'
  <2>1. \A c \in Chain, i \in Step :
           status[<<c, i>>] \in {"done", "cleared"} => status'[<<c, i>>] \in {"done", "cleared"}
    OBVIOUS
  <2>2. \A w \in saving : w.chain \in Chain
    BY DEF IInv, ChainTypeOK
  <2> QED
    BY <2>1, <2>2 DEF IInv, Matches, Honest
<1> QED
  BY <1>1, <1>2, <1>3, <1>4

\* A task outside every chain.
LEMMA PlainStep ==
  ASSUME IInv, NEW t \in Task \ StepTask, Create(t) \/ Complete(t) \/ Fail(t), UNCHANGED chainVars
  PROVE  IInv'
<1> USE StepTaskType DEF Create, Complete, Fail, Settle
<1>1. TypeOK'
  BY DEF IInv, ChainTypeOK, TypeOK, Status, Heard, Terminal, Outcome, Mirror, Workers
<1>2. ChainTypeOK'
  BY <1>1, SameChains DEF IInv
<1>3. \A s \in StepTask : status'[s] = status[s] /\ (s \in worker' <=> s \in worker)
  BY DEF IInv, ChainTypeOK, TypeOK
<1>4. Workers'
  BY DEF IInv, ChainTypeOK, TypeOK, Workers, RunningHasWorker, Outcome
<1>5. Callbacks'
  BY <1>3 DEF IInv, Callbacks, chainVars
<1>6. OneFront' /\ PlanBehind' /\ Untouched' /\ Matches'
  BY <1>2, <1>3, <1>5, TasksKept DEF chainVars
<1> QED
  BY <1>2, <1>4, <1>5, <1>6 DEF IInv

\* A step of a chain, or a plain task, is picked up, resumed, cancelled or cleared.
LEMMA ExistingTaskStep ==
  ASSUME IInv, NEW t \in Task, PickUp(t) \/ Resume(t) \/ Cancel(t) \/ Clear(t),
         UNCHANGED chainVars
  PROVE  IInv'
<1> USE StepTaskType DEF PickUp, Resume, Cancel, Clear
<1>1. TypeOK'
  BY DEF IInv, ChainTypeOK, TypeOK, Status, Heard, Terminal
<1>2. ChainTypeOK'
  BY <1>1, SameChains DEF IInv
<1>3. Workers'
  <2>1. TypeOK /\ Workers
    BY DEF IInv, ChainTypeOK
  <2> QED
    BY <2>1 DEF TypeOK, Workers, RunningHasWorker, Terminal
<1>4. Callbacks'
  <2>1. UNCHANGED settled
    BY DEF chainVars
  <2> QED
    BY <2>1 DEF IInv, ChainTypeOK, TypeOK, Callbacks, Terminal
<1>5. \A s \in StepTask : status'[s] = "none" <=> status[s] = "none"
  BY DEF IInv, ChainTypeOK, TypeOK, Terminal
<1>6. \A s \in StepTask : status[s] \in {"done", "cleared"} =>
         status'[s] \in {"done", "cleared"} /\ (s \in worker' => s \in worker)
  BY DEF IInv, ChainTypeOK, TypeOK, Terminal
<1>7. OneFront' /\ PlanBehind' /\ Untouched' /\ Matches'
  BY <1>2, <1>4, <1>5, <1>6, TasksKept DEF chainVars
<1> QED
  BY <1>2, <1>3, <1>4, <1>7 DEF IInv

\* The worker of a step settles: a callback is on its way.
LEMMA SettleTaskStep ==
  ASSUME IInv, NEW t \in StepTask, NEW s \in {"done", "failed"}, SettleStep(t, s)
  PROVE  IInv'
<1> USE StepTaskType DEF SettleStep, Settle, Outcome
<1>1. /\ t \in worker /\ t \in Task /\ status[t] \notin {"none", "pending", "interrupted"}
      /\ UNCHANGED <<told, stamped, up, crashes, plan, step, saving, asking, offered, held, attached,
                     dropped, hurt>>
  BY DEF IInv, Workers
<1>2. TypeOK'
  BY <1>1 DEF IInv, ChainTypeOK, TypeOK, Status, Terminal
<1>3. settled' \in [StepTask -> {None} \cup (Status \ {"none", "pending", "cleared"})]
  BY <1>1 DEF IInv, ChainTypeOK, TypeOK, ReadBack, Status, Terminal
<1>4. ChainTypeOK'
  BY <1>1, <1>2, <1>3 DEF IInv, ChainTypeOK
<1>5. Workers'
  BY <1>1 DEF IInv, ChainTypeOK, TypeOK, Workers, RunningHasWorker
<1>6. Callbacks'
  BY <1>1 DEF IInv, ChainTypeOK, TypeOK, Callbacks, ReadBack
<1>7. \A r \in StepTask : status'[r] = "none" <=> status[r] = "none"
  BY <1>1 DEF IInv, ChainTypeOK, TypeOK
<1>8. \A r \in StepTask : status[r] \in {"done", "cleared"} =>
         /\ status'[r] \in {"done", "cleared"}
         /\ r \notin worker /\ settled[r] = None => r \notin worker' /\ settled'[r] = None
  BY <1>1 DEF IInv, ChainTypeOK, TypeOK
<1>9. OneFront' /\ PlanBehind' /\ Untouched' /\ Matches'
  BY <1>1, <1>4, <1>6, <1>7, <1>8, TasksKept
<1> QED
  BY <1>4, <1>5, <1>6, <1>9 DEF IInv

\* A restart turns running tasks into interrupted ones; a crash loses callbacks
\* and an unsaved plan.
LEMMA BootStep == ASSUME IInv, Boot, UNCHANGED chainVars PROVE IInv'
<1> USE StepTaskType DEF Boot, Interrupted
<1>1. TypeOK'
  BY DEF IInv, ChainTypeOK, TypeOK, Status, Heard, Terminal, Unmirrored
<1>2. ChainTypeOK'
  BY <1>1, SameChains DEF IInv
<1>3. Workers'
  BY DEF IInv, ChainTypeOK, TypeOK, Workers, RunningHasWorker
<1>4. Callbacks'
  BY DEF IInv, Callbacks, chainVars
<1>5. \A s \in StepTask : status'[s] = "none" <=> status[s] = "none"
  OBVIOUS
<1>6. \A s \in StepTask : status[s] \in {"done", "cleared"} =>
         status'[s] \in {"done", "cleared"} /\ (s \in worker' => s \in worker)
  OBVIOUS
<1>7. OneFront' /\ PlanBehind' /\ Untouched' /\ Matches'
  BY <1>2, <1>4, <1>5, <1>6, TasksKept DEF chainVars
<1> QED
  BY <1>2, <1>3, <1>4, <1>7 DEF IInv

\* A crash of the daemon takes the workers and the callbacks with it and leaves
\* the files; a plan whose save was under way stays as it was.
LEMMA CrashStep == ASSUME IInv, ChainCrash PROVE IInv'
<1>1. TypeOK'
  <2>1. /\ up' = FALSE /\ worker' = {} /\ crashes' = crashes + 1 /\ crashes < MaxCrashes
        /\ UNCHANGED <<status, stamped, told>>
    BY DEF ChainCrash, Crash
  <2>2. crashes' \in 0..MaxCrashes
    BY <2>1, TaskAssumption DEF IInv, ChainTypeOK, TypeOK
  <2> QED
    BY <2>1, <2>2 DEF IInv, ChainTypeOK, TypeOK
<1>2. ChainTypeOK'
  <2>1. \A w \in saving : w.chain \in Chain
    BY DEF IInv, ChainTypeOK
  <2>2. hurt' \subseteq Chain
    BY <2>1 DEF IInv, ChainTypeOK, ChainCrash
  <2>3. settled' \in [StepTask -> {None} \cup (Status \ {"none", "pending", "cleared"})]
    BY DEF ChainCrash
  <2>4. Cardinality(saving') <= 1
    BY FS_EmptySet DEF ChainCrash
  <2>5. saving' = {} /\ asking' = None /\ offered' = None /\ held' = None /\ attached' = FALSE
        /\ UNCHANGED <<plan, step, dropped>>
    BY DEF ChainCrash
  <2> QED
    BY <1>1, <2>2, <2>3, <2>4, <2>5 DEF IInv, ChainTypeOK
<1> USE StepTaskType DEF ChainCrash, Crash
<1>3. Workers' /\ Callbacks'
  BY DEF IInv, Workers, RunningHasWorker, Callbacks
<1>4. OneFront'
  BY DEF IInv, OneFront, Over
<1>5. PlanBehind'
  BY DEF IInv, PlanBehind
<1>6. Untouched'
  BY DEF IInv, Untouched
<1>7. Matches'
  BY DEF IInv, Matches, Honest
<1> QED
  BY <1>2, <1>3, <1>4, <1>5, <1>6, <1>7 DEF IInv

\* The plan catches up with the tasks.
LEMMA SaveStep == ASSUME IInv, SavePlan PROVE IInv'
<1> USE StepTaskType
<1> PICK w \in saving : /\ plan' = [plan EXCEPT ![w.chain] = w.plan]
                        /\ step' = [step EXCEPT ![w.chain] = w.step]
  BY DEF SavePlan
<1>1. /\ saving' = {}
      /\ UNCHANGED <<up, status, worker, stamped, told, crashes>>
      /\ UNCHANGED <<settled, asking, offered, held, attached, dropped, hurt>>
      /\ w.chain \in Chain /\ w.plan \in PlanStatus /\ w.step \in [Step -> StepStatus]
  BY DEF SavePlan, vars, IInv, ChainTypeOK
<1>2. /\ plan'[w.chain] = w.plan /\ step'[w.chain] = w.step
      /\ \A c \in Chain \ {w.chain} : plan'[c] = plan[c] /\ step'[c] = step[c]
      /\ plan' \in [Chain -> PlanStatus] /\ step' \in [Chain -> [Step -> StepStatus]]
  BY <1>1 DEF IInv, ChainTypeOK
<1>3. TypeOK'
  BY <1>1 DEF IInv, ChainTypeOK, TypeOK
<1>4. ChainTypeOK'
  BY <1>1, <1>2, <1>3, FS_EmptySet DEF IInv, ChainTypeOK
<1>5. Workers' /\ Callbacks' /\ OneFront'
  BY <1>1 DEF IInv, Workers, RunningHasWorker, Callbacks, OneFront, Over
<1>6. PlanBehind'
  BY <1>1, <1>2 DEF IInv, PlanBehind
<1>7. Untouched'
  BY <1>1, <1>2 DEF IInv, ChainTypeOK, Untouched, PlanBehind
<1>8. Matches'
  BY <1>1, <1>2 DEF IInv, Matches, Honest
<1> QED
  BY <1>4, <1>5, <1>6, <1>7, <1>8 DEF IInv

-----------------------------------------------------------------------------
(* The chain moves.                                                        *)

\* The task of step j is created, after those of all earlier steps are over and
\* before those of later ones exist: what the lemmas about Approve and Advance share.
LEMMA QueueKeeps ==
  ASSUME IInv, Idle, NEW c \in Chain, NEW j \in Step, NEW p \in PlanStatus \ {"none", "completed"},
         NEW f \in [Step -> StepStatus], Queue(c, j, p, f),
         status[<<c, j>>] = "none", plan[c] # "none",
         \A i \in Step : i < j => Over(c, i)',
         \A i \in Step : i > j => status[<<c, i>>] = "none" /\ f[i] = "pending",
         \A i \in Step : f[i] = "done" => status[<<c, i>>] \in {"done", "cleared"},
         c \notin dropped \cup {asking', offered', held'},
         \A t \in StepTask : settled'[t] \in {settled[t], None},
         settled' \in [StepTask -> {None} \cup (Status \ {"none", "pending", "cleared"})],
         asking' = asking, offered' \in {offered, None}, held' = None \/ UNCHANGED <<offered, held>>,
         UNCHANGED <<attached, dropped, hurt>>,
         told' \in [Task -> Heard],
         stamped' \subseteq {t \in Task : status[t] \notin {"none", "cleared"}}
  PROVE  IInv'
<1> USE StepTaskType
<1>1. /\ saving = {} /\ saving' = {[chain |-> c, plan |-> p, step |-> f]}
      /\ UNCHANGED <<up, worker, crashes, plan, step>>
      /\ <<c, j>> \in StepTask /\ <<c, j>> \in Task
  BY DEF Queue, Idle
<1>2. /\ status' \in [Task -> Status] /\ status'[<<c, j>>] = "pending"
      /\ \A t \in Task : t # <<c, j>> => status'[t] = status[t]
  BY <1>1 DEF Queue, IInv, ChainTypeOK, TypeOK, Status
<1>3. \A b \in Chain, i \in Step : b # c \/ i # j => status'[<<b, i>>] = status[<<b, i>>]
  BY <1>2
<1>4. TypeOK'
  BY <1>1, <1>2 DEF IInv, ChainTypeOK, TypeOK
<1>5. ChainTypeOK'
  <2>1. Cardinality(saving') = 1
    BY <1>1, FS_Singleton, Zenon
  <2>2. saving' \subseteq [chain : Chain, plan : PlanStatus, step : [Step -> StepStatus]]
    BY <1>1
  <2> QED
    BY <1>1, <1>4, <2>1, <2>2 DEF IInv, ChainTypeOK
<1>6. Workers'
  BY <1>1, <1>2 DEF IInv, Workers, RunningHasWorker
<1>7. Callbacks'
  BY <1>1, <1>2 DEF IInv, Callbacks
<1>8. OneFront'
  <2> SUFFICES ASSUME NEW b \in Chain, NEW h \in Step, NEW i \in Step, h < i, status'[<<b, i>>] # "none"
               PROVE  Over(b, h)'
    BY DEF OneFront
  <2>1. CASE b = c
    <3>1. ~(i > j)
      BY <1>3, <2>1
    <3>2. i \in Nat /\ j \in Nat /\ h \in Nat
      OBVIOUS
    <3> QED
      BY <2>1, <3>1, <3>2
  <2>2. CASE b # c
    <3>1. Over(b, h)
      BY <1>3, <2>2 DEF IInv, OneFront
    <3> QED
      BY <1>1, <1>3, <2>2, <3>1 DEF Over
  <2> QED
    BY <2>1, <2>2
<1>9. PlanBehind'
  <2>1. \A b \in Chain, i \in Step : status'[<<b, i>>] = "none" => status[<<b, i>>] = "none"
    BY <1>2, <1>3
  <2>2. \A i \in Step : status'[<<c, i>>] = "none" => f[i] = "pending"
    <3> SUFFICES ASSUME NEW i \in Step, status'[<<c, i>>] = "none" PROVE f[i] = "pending"
      OBVIOUS
    <3>1. i # j /\ status[<<c, i>>] = "none" /\ i \in Nat /\ j \in Nat
      BY <1>2, <1>3
    <3>2. ~(i < j)
      <4>1. Over(c, i)' => status'[<<c, i>>] # "none"
        BY DEF Over
      <4> QED
        BY <4>1, <3>1
    <3>3. i > j
      BY <3>1, <3>2
    <3> QED
      BY <3>3
  <2>3. \A b \in Chain, i \in Step : status'[<<b, i>>] # "none" => plan[b] # "none"
    BY <1>3 DEF IInv, PlanBehind
  <2> QED
    BY <1>1, <2>1, <2>2, <2>3 DEF IInv, PlanBehind
<1>10. Untouched'
  BY <1>1, <1>3 DEF IInv, Untouched
<1>11. Matches'
  BY <1>1, <1>2, <1>3 DEF IInv, Matches, Honest
<1> QED
  BY <1>5, <1>6, <1>7, <1>8, <1>9, <1>10, <1>11 DEF IInv

\* The owner approves a plan that has no task yet.
LEMMA ApproveStep == ASSUME IInv, NEW c \in Chain, Approve(c) PROVE IInv'
<1> USE StepTaskType
<1> DEFINE f == [step[c] EXCEPT ![1] = "running"]
<1>1. /\ Idle /\ Queue(c, 1, "in_progress", f) /\ held = c /\ held' = None
      /\ offered' = IF attached THEN None ELSE offered
      /\ UNCHANGED <<told, stamped, settled, asking, attached, dropped, hurt>>
  BY DEF Approve, TakeOffer
<1>2. \A i \in Step : status[<<c, i>>] = "none" /\ step[c][i] = "pending"
  BY <1>1 DEF IInv, Untouched, PlanBehind
<1>3. f \in [Step -> StepStatus] /\ \A i \in Step : f[i] = IF i = 1 THEN "running" ELSE "pending"
  BY <1>2 DEF IInv, ChainTypeOK, StepStatus
<1>4. \A i \in Step : ~(i < 1) /\ (i > 1 => f[i] = "pending") /\ f[i] # "done"
  BY <1>3 DEF Step
<1>5. c \notin dropped /\ plan[c] # "none" /\ c # None /\ asking = None /\ offered' = None
  BY <1>1 DEF IInv, Untouched
<1>6. /\ told' \in [Task -> Heard] /\ stamped' \subseteq {t \in Task : status[t] \notin {"none", "cleared"}}
      /\ settled' \in [StepTask -> {None} \cup (Status \ {"none", "pending", "cleared"})]
  BY <1>1 DEF IInv, ChainTypeOK, TypeOK
<1>7. "in_progress" \in PlanStatus \ {"none", "completed"}
  BY DEF PlanStatus
<1>8. \A i \in Step : i < 1 => Over(c, i)'
  BY <1>4
<1>9. \A i \in Step : i > 1 => status[<<c, i>>] = "none" /\ f[i] = "pending"
  BY <1>2, <1>4
<1>10. \A i \in Step : f[i] = "done" => status[<<c, i>>] \in {"done", "cleared"}
  BY <1>4
<1>11. /\ c \notin dropped \cup {asking', offered', held'} /\ offered' \in {offered, None}
       /\ asking' = asking /\ held' = None
  BY <1>1, <1>5
<1>12. \A t \in StepTask : settled'[t] \in {settled[t], None}
  BY <1>1
<1>13. status[<<c, 1>>] = "none" /\ UNCHANGED <<attached, dropped, hurt>> /\ 1 \in Step
  BY <1>1, <1>2
<1> HIDE DEF f
<1> QED
  BY <1>1, <1>3, <1>5, <1>6, <1>7, <1>8, <1>9, <1>10, <1>11, <1>12, <1>13, QueueKeeps

\* While the callback of a step is on its way, the later steps have no task, the
\* plan says so, and the earlier steps are over.
LEMMA AtFront ==
  ASSUME IInv, NEW c \in Chain, NEW i \in Step, settled[<<c, i>>] # None
  PROVE  /\ status[<<c, i>>] \notin {"none", "pending", "running", "interrupted"}
         /\ <<c, i>> \notin worker
         /\ settled[<<c, i>>] = "done" => status[<<c, i>>] \in {"done", "cleared"}
         /\ \A k \in Step : k < i => Over(c, k)
         /\ \A k \in Step : k > i => status[<<c, k>>] = "none" /\ step[c][k] = "pending"
         /\ plan[c] # "none" /\ c \notin dropped \cup {asking, offered, held}
<1> USE StepTaskType
<1>1. /\ status[<<c, i>>] \notin {"none", "pending", "running", "interrupted"}
      /\ <<c, i>> \notin worker
      /\ settled[<<c, i>>] = "done" => status[<<c, i>>] \in {"done", "cleared"}
  BY DEF IInv, Callbacks
<1>2. \A k \in Step : k < i => Over(c, k)
  BY <1>1 DEF IInv, OneFront
<1>3. \A k \in Step : k > i => status[<<c, k>>] = "none" /\ step[c][k] = "pending"
  <2> SUFFICES ASSUME NEW k \in Step, k > i
               PROVE  status[<<c, k>>] = "none" /\ step[c][k] = "pending"
    OBVIOUS
  <2>1. i < k
    OBVIOUS
  <2>2. status[<<c, k>>] = "none"
    BY <2>1 DEF IInv, OneFront, Over
  <2> QED
    BY <2>2 DEF IInv, PlanBehind
<1>4. plan[c] # "none" /\ c \notin dropped \cup {asking, offered, held}
  BY <1>1 DEF IInv, PlanBehind, Untouched
<1> QED
  BY <1>1, <1>2, <1>3, <1>4

\* What the message of a step leaves in the chat and on the task file.
LEMMA MessageTypes ==
  ASSUME IInv, NEW t \in StepTask, settled[t] # None,
         settled' = [settled EXCEPT ![t] = None],
         \/ UNCHANGED <<told, stamped>>
         \/ /\ told' = [told EXCEPT ![t] = IF settled[t] = "done" THEN "done" ELSE "failed"]
            /\ stamped' = IF status[t] = "cleared" THEN stamped ELSE stamped \cup {t}
  PROVE  /\ told' \in [Task -> Heard]
         /\ stamped' \subseteq {r \in Task : status[r] \notin {"none", "cleared"}}
         /\ settled' \in [StepTask -> {None} \cup (Status \ {"none", "pending", "cleared"})]
         /\ \A r \in StepTask : settled'[r] \in {settled[r], None} /\ settled'[t] = None
<1> USE StepTaskType
<1>1. t \in Task /\ status[t] # "none"
  BY DEF IInv, Callbacks
<1>2. told' \in [Task -> Heard]
  BY <1>1 DEF IInv, ChainTypeOK, TypeOK, Heard, Terminal
<1>3. stamped' \subseteq {r \in Task : status[r] \notin {"none", "cleared"}}
  BY <1>1 DEF IInv, ChainTypeOK, TypeOK
<1>4. settled' \in [StepTask -> {None} \cup (Status \ {"none", "pending", "cleared"})]
  BY DEF IInv, ChainTypeOK
<1> QED
  BY <1>2, <1>3, <1>4 DEF IInv, ChainTypeOK

\* The callback finds no plan, or its step already marked.
LEMMA NothingMoves ==
  ASSUME IInv, NEW t \in StepTask, settled[t] # None,
         settled' = [settled EXCEPT ![t] = None],
         \/ UNCHANGED <<told, stamped>>
         \/ /\ told' = [told EXCEPT ![t] = IF settled[t] = "done" THEN "done" ELSE "failed"]
            /\ stamped' = IF status[t] = "cleared" THEN stamped ELSE stamped \cup {t},
         UNCHANGED <<up, status, worker, crashes, plan, step, saving, asking, offered, held, attached,
                     dropped, hurt>>
  PROVE  IInv'
<1>1. /\ told' \in [Task -> Heard]
      /\ stamped' \subseteq {r \in Task : status[r] \notin {"none", "cleared"}}
      /\ settled' \in [StepTask -> {None} \cup (Status \ {"none", "pending", "cleared"})]
      /\ \A r \in StepTask : settled'[r] \in {settled[r], None}
  BY MessageTypes
<1>2. TypeOK'
  BY <1>1 DEF IInv, ChainTypeOK, TypeOK
<1>3. ChainTypeOK'
  BY <1>1, <1>2 DEF IInv, ChainTypeOK
<1>4. Workers' /\ Callbacks'
  BY <1>1 DEF IInv, Workers, RunningHasWorker, Callbacks
<1>5. \A r \in StepTask : status[r] \in {"done", "cleared"} =>
         /\ status'[r] \in {"done", "cleared"}
         /\ r \notin worker /\ settled[r] = None => r \notin worker' /\ settled'[r] = None
  BY <1>1
<1>6. OneFront' /\ PlanBehind' /\ Untouched' /\ Matches'
  BY <1>3, <1>4, <1>5, TasksKept
<1> QED
  BY <1>3, <1>4, <1>6 DEF IInv

\* The chain completes or pauses.  It completes only when no step is pending in
\* the plan, and then the tasks of all steps are over.
LEMMA EndedStep ==
  ASSUME IInv, Idle, NEW c \in Chain, NEW i \in Step, settled[<<c, i>>] # None,
         settled' = [settled EXCEPT ![<<c, i>>] = None],
         told' \in [Task -> Heard],
         stamped' \subseteq {r \in Task : status[r] \notin {"none", "cleared"}},
         settled' \in [StepTask -> {None} \cup (Status \ {"none", "pending", "cleared"})],
         settled[<<c, i>>] # "done" \/ NoneLeft(c, i, settled[<<c, i>>]),
         Ended(c, i, settled[<<c, i>>]),
         UNCHANGED <<asking, offered, held, attached, dropped, hurt>>
  PROVE  IInv'
<1> USE StepTaskType
<1> DEFINE s == settled[<<c, i>>]
           p == IF s = "done" THEN "completed" ELSE "paused"
           f == MarkedStep(c, i, s)
<1>1. /\ plan' = [plan EXCEPT ![c] = p] /\ step' = [step EXCEPT ![c] = f]
      /\ UNCHANGED <<up, status, worker, crashes, saving>> /\ saving = {}
  BY DEF Ended, Idle
<1>2. /\ f \in [Step -> StepStatus] /\ \A k \in Step : k # i => f[k] = step[c][k]
      /\ f[i] = IF s = "done" THEN "done" ELSE "failed"
  BY DEF MarkedStep, IInv, ChainTypeOK, StepStatus
<1>3. /\ plan'[c] = p /\ p \in PlanStatus /\ step'[c] = f
      /\ \A b \in Chain \ {c} : plan'[b] = plan[b] /\ step'[b] = step[b]
      /\ plan' \in [Chain -> PlanStatus] /\ step' \in [Chain -> [Step -> StepStatus]]
  <2>1. p \in PlanStatus
    BY DEF PlanStatus
  <2> HIDE DEF p, f
  <2> QED
    BY <1>1, <1>2, <2>1 DEF IInv, ChainTypeOK
<1>4. /\ status[<<c, i>>] # "none"
      /\ s = "done" => status[<<c, i>>] \in {"done", "cleared"}
      /\ \A k \in Step : k < i => Over(c, k)
      /\ \A k \in Step : k > i => status[<<c, k>>] = "none" /\ step[c][k] = "pending"
      /\ c \notin dropped \cup {asking, offered, held}
  BY AtFront
<1> HIDE DEF f
<1>5. s = "done" => \A k \in Step : ~(k > i)
  <2> SUFFICES ASSUME s = "done", NEW k \in Step, k > i PROVE FALSE
    OBVIOUS
  <2>1. i + 1 \in Step /\ i \in Nat
    BY ChainAssumption DEF Step
  <2>2. \A h \in Step : h > i => i + 1 <= h
    BY <2>1 DEF Step
  <2>3. f[i + 1] = "pending"
    <3>1. i + 1 # i /\ i + 1 > i
      BY <2>1
    <3>2. f[i + 1] = step[c][i + 1]
      BY <1>2, <2>1, <3>1
    <3>3. step[c][i + 1] = "pending"
      BY <1>4, <2>1, <3>1
    <3> QED
      BY <3>2, <3>3
  <2>4. IsNext(f, i, i + 1)
    BY <2>1, <2>2, <2>3 DEF IsNext
  <2> QED
    BY <2>1, <2>4 DEF NoneLeft, f
<1>6. TypeOK'
  BY <1>1 DEF IInv, ChainTypeOK, TypeOK
<1>7. ChainTypeOK'
  BY <1>1, <1>3, <1>6 DEF IInv, ChainTypeOK
<1>8. Workers' /\ Callbacks'
  BY <1>1 DEF IInv, ChainTypeOK, Workers, RunningHasWorker, Callbacks
<1>9. OneFront'
  BY <1>1 DEF IInv, ChainTypeOK, OneFront, Over
<1>10. PlanBehind'
  <2>1. \A k \in Step : status[<<c, k>>] = "none" => f[k] = "pending"
    BY <1>2, <1>4 DEF IInv, PlanBehind
  <2> QED
    BY <1>1, <1>3, <2>1 DEF IInv, PlanBehind
<1>11. Untouched'
  BY <1>1, <1>3, <1>4 DEF IInv, Untouched
<1>12. Matches'
  <2>1. \A k \in Step : s = "done" => status[<<c, k>>] \in {"done", "cleared"}
    <3> SUFFICES ASSUME NEW k \in Step, s = "done" PROVE status[<<c, k>>] \in {"done", "cleared"}
      OBVIOUS
    <3>1. k < i \/ k = i
      BY <1>5
    <3> QED
      BY <1>4, <3>1 DEF Over
  <2>2. \A k \in Step : f[k] = "done" => status[<<c, k>>] \in {"done", "cleared"}
    <3> SUFFICES ASSUME NEW k \in Step, f[k] = "done"
                 PROVE  status[<<c, k>>] \in {"done", "cleared"}
      OBVIOUS
    <3>1. CASE k = i
      BY <1>2, <1>4, <3>1
    <3>2. CASE k # i
      <4>1. step[c][k] = "done"
        BY <1>2, <3>2
      <4> QED
        BY <4>1 DEF IInv, Matches, Honest
    <3> QED
      BY <3>1, <3>2
  <2>3. \A k \in Step : p = "completed" => status[<<c, k>>] \in {"done", "cleared"}
    BY <2>1
  <2>4. Honest(plan[c], step[c], c)'
    BY <1>1, <1>3, <2>2, <2>3 DEF Honest
  <2>5. \A b \in Chain \ {c} : Honest(plan[b], step[b], b)'
    BY <1>1, <1>3 DEF IInv, Matches, Honest
  <2> QED
    BY <1>1, <2>4, <2>5 DEF Matches
<1> QED
  BY <1>7, <1>8, <1>9, <1>10, <1>11, <1>12 DEF IInv

\* The first pending step is the one after, and none of its tasks exists yet.
LEMMA OnwardStep ==
  ASSUME IInv, Idle, NEW c \in Chain, NEW i \in Step, settled[<<c, i>>] = "done",
         settled' = [settled EXCEPT ![<<c, i>>] = None],
         told' \in [Task -> Heard],
         stamped' \subseteq {r \in Task : status[r] \notin {"none", "cleared"}},
         settled' \in [StepTask -> {None} \cup (Status \ {"none", "pending", "cleared"})],
         \A t \in StepTask : settled'[t] \in {settled[t], None},
         settled'[<<c, i>>] = None,
         Onward(c, i, "done"),
         UNCHANGED <<asking, offered, held, attached, dropped, hurt>>
  PROVE  IInv'
<1> USE StepTaskType
<1> DEFINE g == MarkedStep(c, i, "done")
<1> PICK j \in Step : IsNext(g, i, j) /\ Queue(c, j, plan[c], [g EXCEPT ![j] = "running"])
  BY DEF Onward
<1> DEFINE f == [g EXCEPT ![j] = "running"]
<1>1. /\ g \in [Step -> StepStatus] /\ g[i] = "done"
      /\ \A k \in Step : k # i => g[k] = step[c][k]
  BY DEF MarkedStep, IInv, ChainTypeOK, StepStatus
<1>2. /\ settled[<<c, i>>] # None
      /\ status[<<c, i>>] \in {"done", "cleared"} /\ <<c, i>> \notin worker
      /\ \A k \in Step : k < i => Over(c, k)
      /\ \A k \in Step : k > i => status[<<c, k>>] = "none" /\ step[c][k] = "pending"
      /\ plan[c] # "none" /\ c \notin dropped \cup {asking, offered, held}
  BY AtFront DEF None
<1>3. j > i /\ \A k \in Step : k > i => j <= k
  <2>1. \A k \in Step : k > i => g[k] = "pending"
    BY <1>1, <1>2
  <2> QED
    BY <2>1 DEF IsNext
<1>4. \A k \in Step : k < j => k <= i
  BY <1>3
<1>5. UNCHANGED worker /\ \A k \in Step : k <= i => status'[<<c, k>>] = status[<<c, k>>]
  <2>1. UNCHANGED worker /\ status' = [status EXCEPT ![<<c, j>>] = "pending"]
    BY DEF Queue
  <2>2. \A k \in Step : k <= i => k # j
    BY <1>3
  <2> QED
    BY <2>1, <2>2 DEF IInv, ChainTypeOK, TypeOK
<1>6. \A k \in Step : k < j => Over(c, k)'
  <2> SUFFICES ASSUME NEW k \in Step, k < j PROVE Over(c, k)'
    OBVIOUS
  <2>1. CASE k < i
    BY <1>2, <1>5, <2>1 DEF Over
  <2>2. CASE k = i
    BY <1>2, <1>5, <2>2 DEF Over
  <2> QED
    BY <1>4, <2>1, <2>2
<1>7. f \in [Step -> StepStatus] /\ \A k \in Step : k # j => f[k] = g[k]
  BY <1>1 DEF StepStatus
<1>8. f[j] = "running"
  BY <1>1
<1>9. Queue(c, j, plan[c], f)
  OBVIOUS
<1> HIDE DEF f, g
<1>10. \A k \in Step : k > j => status[<<c, k>>] = "none" /\ f[k] = "pending"
  BY <1>1, <1>2, <1>3, <1>7
<1>11. \A k \in Step : f[k] = "done" => status[<<c, k>>] \in {"done", "cleared"}
  <2> SUFFICES ASSUME NEW k \in Step, f[k] = "done" PROVE status[<<c, k>>] \in {"done", "cleared"}
    OBVIOUS
  <2>1. k # j /\ g[k] = "done"
    BY <1>7, <1>8
  <2>2. CASE k = i
    BY <1>2, <2>2
  <2>3. CASE k # i
    <3>1. step[c][k] = "done"
      BY <1>1, <2>1, <2>3
    <3> QED
      BY <3>1 DEF IInv, Matches, Honest
  <2> QED
    BY <2>2, <2>3
<1>12. status[<<c, j>>] = "none"
  BY <1>2, <1>3
<1>13. plan[c] \in PlanStatus \ {"none", "completed"}
  BY <1>2, <1>12 DEF IInv, ChainTypeOK, Matches, Honest
<1>14. c \notin dropped \cup {asking', offered', held'}
  BY <1>2
<1> QED
  BY <1>2, <1>6, <1>7, <1>9, <1>10, <1>11, <1>12, <1>13, <1>14, QueueKeeps

\* advanceChain keeps the invariant: it marks the step the callback is about,
\* and queues the next one only behind a success.
LEMMA AdvanceStep == ASSUME IInv, NEW t \in StepTask, Advance(t) PROVE IInv'
<1> USE StepTaskType
<1> PICK c \in Chain, i \in Step : t = <<c, i>> /\ c = t[1] /\ i = t[2]
  OBVIOUS
<1>1. /\ settled[t] # None /\ Idle
      /\ settled' = [settled EXCEPT ![t] = None]
      /\ UNCHANGED <<asking, offered, held, attached, dropped, hurt>>
  BY DEF Advance
<1>2. CASE ~Found(c)
  <2>1. UNCHANGED <<vars, plan, step, saving>>
    BY <1>2 DEF Advance
  <2> QED
    BY <1>1, <2>1, NothingMoves DEF vars
<1>3. CASE Found(c)
  <2>1. /\ told' = [told EXCEPT ![t] = IF settled[t] = "done" THEN "done" ELSE "failed"]
        /\ stamped' = IF status[t] = "cleared" THEN stamped ELSE stamped \cup {t}
    BY <1>3 DEF Advance
  <2>2. CASE step[c][i] \in {"done", "failed"}
    <3>1. UNCHANGED <<up, status, worker, crashes, plan, step, saving>>
      BY <1>3, <2>2 DEF Advance
    <3> QED
      BY <1>1, <2>1, <3>1, NothingMoves
  <2>3. CASE step[c][i] \notin {"done", "failed"}
    <3>1. Moved(c, i, settled[t])
      BY <1>3, <2>3 DEF Advance
    <3>2. /\ told' \in [Task -> Heard]
          /\ stamped' \subseteq {r \in Task : status[r] \notin {"none", "cleared"}}
          /\ settled' \in [StepTask -> {None} \cup (Status \ {"none", "pending", "cleared"})]
          /\ \A r \in StepTask : settled'[r] \in {settled[r], None}
          /\ settled'[t] = None
      BY <1>1, <2>1, MessageTypes
    <3>3. CASE settled[t] = "done" /\ Onward(c, i, settled[t])
      <4>1. Onward(c, i, "done") /\ settled[<<c, i>>] = "done" /\ settled'[<<c, i>>] = None
        BY <3>2, <3>3
      <4>2. settled' = [settled EXCEPT ![<<c, i>>] = None]
        BY <1>1
      <4> QED
        BY <1>1, <3>2, <4>1, <4>2, OnwardStep
    <3>4. CASE (settled[t] # "done" \/ NoneLeft(c, i, settled[t])) /\ Ended(c, i, settled[t])
      <4>1. /\ settled[<<c, i>>] # "done" \/ NoneLeft(c, i, settled[<<c, i>>])
            /\ Ended(c, i, settled[<<c, i>>]) /\ settled[<<c, i>>] # None
        BY <1>1, <3>4
      <4>2. settled' = [settled EXCEPT ![<<c, i>>] = None]
        BY <1>1
      <4> QED
        BY <1>1, <3>2, <4>1, <4>2, EndedStep
    <3> QED
      BY <3>1, <3>3, <3>4 DEF Moved
  <2> QED
    BY <2>2, <2>3
<1> QED
  BY <1>2, <1>3

\* A step that changes nothing keeps the invariant.
LEMMA StutterStep == ASSUME IInv, UNCHANGED allVars PROVE IInv'
<1>1. TypeOK'
  BY DEF IInv, ChainTypeOK, TypeOK, allVars, vars
<1>2. ChainTypeOK'
  BY <1>1 DEF IInv, ChainTypeOK, allVars, chainVars
<1> QED
  BY <1>2 DEF allVars, vars, chainVars, IInv, Workers, RunningHasWorker, Callbacks, OneFront, Over,
              PlanBehind, Untouched, Matches, Honest

\* Every step of the program keeps the invariant: one case per action.
LEMMA NextStep == ASSUME IInv, [ChainNext]_allVars PROVE IInv'
<1>1. CASE \E c \in Chain : Ask(c) \/ Approve(c)
  BY <1>1, TalkStep, ApproveStep
<1>2. CASE \/ ReadEntry \/ LetPass \/ Decline
           \/ PlanReady \/ PlanFails \/ ClearSession \/ SavePlan
  BY <1>2, TalkStep, SaveStep
<1>3. CASE \E t \in StepTask : SettleStep(t, "done") \/ SettleStep(t, "failed") \/ Advance(t)
  BY <1>3, SettleTaskStep, AdvanceStep
<1>4. CASE \E t \in Task \ StepTask : (Create(t) \/ Complete(t) \/ Fail(t)) /\ UNCHANGED chainVars
  BY <1>4, PlainStep
<1>5. CASE \E t \in Task : (PickUp(t) \/ Resume(t) \/ Cancel(t) \/ Clear(t)) /\ UNCHANGED chainVars
  BY <1>5, ExistingTaskStep
<1>6. CASE (Boot /\ UNCHANGED chainVars) \/ ChainCrash \/ UNCHANGED allVars
  BY <1>6, BootStep, CrashStep, StutterStep
<1> QED
  BY <1>1, <1>2, <1>3, <1>4, <1>5, <1>6 DEF ChainNext

\* The invariant holds in every state a behaviour of the chains reaches.
THEOREM Inductive == ChainSpec => []IInv
  BY InitIInv, NextStep, PTL DEF ChainSpec

-----------------------------------------------------------------------------
\* Files, callbacks and conversation are well formed.
THEOREM TypeCorrect == ChainSpec => []ChainTypeOK
<1>1. IInv => ChainTypeOK
  BY DEF IInv
<1> QED
  BY <1>1, Inductive, PTL

\* No task is stuck as "running": one that is marked so has its worker.
THEOREM RunningIsReal == ChainSpec => []RunningHasWorker
<1>1. IInv => RunningHasWorker
  BY DEF IInv, Workers
<1> QED
  BY <1>1, Inductive, PTL

\* Of the tasks of a chain one at most is queued or at work.
THEOREM OneAtATime == ChainSpec => []OneStepAtATime
<1>1. IInv => OneStepAtATime
  <2> SUFFICES ASSUME IInv, NEW s \in StepTask, NEW t \in StepTask,
                      s[1] = t[1], Busy(s), Busy(t), s # t
               PROVE  FALSE
    BY DEF OneStepAtATime
  <2>1. /\ s[1] \in Chain /\ s[2] \in Step /\ t[2] \in Step /\ Step \subseteq Nat
        /\ s = <<s[1], s[2]>> /\ t = <<s[1], t[2]>>
    BY StepTaskType
  <2>2. status[s] # "none" /\ status[t] # "none"
    BY StepTaskType DEF Busy, IInv, Workers
  <2>3. s[2] < t[2] \/ t[2] < s[2]
    BY <2>1
  <2>4. Over(s[1], s[2]) \/ Over(s[1], t[2])
    BY <2>1, <2>2, <2>3 DEF IInv, OneFront
  <2> QED
    BY <2>1, <2>4 DEF Over, Busy
<1> QED
  BY <1>1, Inductive, PTL

\* A step the plan calls done, and every step of a completed plan, was done.
THEOREM PlansAreHonest == ChainSpec => []PlanMatchesTasks
<1>1. IInv => PlanMatchesTasks
  BY StepTaskType DEF IInv, Matches, Honest, PlanMatchesTasks
<1> QED
  BY <1>1, Inductive, PTL

\* A plan the owner cleared away is not carried out, whenever the planner answers
\* and whatever a later message approves; only a message that had read its offer
\* when the clear came can still start it (planAwaitingApproval, clearSession).
THEOREM ClearedIsForgotten == ChainSpec => []ClearedPlanNeverRuns
<1>1. IInv => ClearedPlanNeverRuns
  BY StepTaskType DEF IInv, Untouched, ClearedPlanNeverRuns
<1> QED
  BY <1>1, Inductive, PTL

\* Nobody picks up a task whose worker has not settled.
THEOREM NeverTwoWorkers == ChainSpec => OneWorkerPerTask
<1>1. IInv /\ [ChainNext]_allVars => [\A t \in worker : ~PickUp(t)]_vars
  BY DEF IInv, Workers, PickUp, ChainTypeOK, TypeOK
<1> QED
  BY <1>1, Inductive, PTL DEF ChainSpec, OneWorkerPerTask

\* The only new step task is the one that is queued, and it did not exist.
LEMMA QueuedIsNew ==
  ASSUME IInv, NEW c \in Chain, Approve(c) \/ \E i \in Step : Advance(<<c, i>>)
  PROVE  \/ status' = status
         \/ \E j \in Step : status[<<c, j>>] = "none"
                            /\ status' = [status EXCEPT ![<<c, j>>] = "pending"]
<1>1. CASE Approve(c)
  BY <1>1, StepTaskType DEF Approve, Queue, IInv, Untouched
<1>2. ASSUME NEW i \in Step, Advance(<<c, i>>)
      PROVE  \/ status' = status
             \/ \E j \in Step : status[<<c, j>>] = "none"
                                /\ status' = [status EXCEPT ![<<c, j>>] = "pending"]
  <2>1. settled[<<c, i>>] # None
    BY <1>2 DEF Advance
  <2>2. \A k \in Step : k > i => status[<<c, k>>] = "none"
    BY <2>1, AtFront
  <2>3. CASE Moved(c, i, settled[<<c, i>>])
    BY <2>2, <2>3 DEF Moved, Onward, Ended, IsNext, Queue
  <2>4. CASE UNCHANGED status
    BY <2>4
  <2> QED
    BY <1>2, <2>3, <2>4 DEF Advance, vars
<1> QED
  BY <1>1, <1>2

\* The files of tasks, one step at a time.
StatusKept == \A t \in Task :
    status[t] \in {"done", "failed", "aborted", "cleared"} => status'[t] \in {status[t], "cleared"}
InTurn == \A t \in StepTask : (status[t] = "none" /\ status'[t] = "pending") =>
    \A j \in 1..(t[2] - 1) : status[<<t[1], j>>] \in {"done", "cleared"}

\* One step of the program neither revives a task that ended nor queues a step
\* ahead of an earlier one.
LEMMA StatusSteps == ASSUME IInv, IInv', [ChainNext]_allVars PROVE StatusKept /\ InTurn
<1> USE StepTaskType DEF StatusKept, InTurn
<1>1. status \in [Task -> Status]
  BY DEF IInv, ChainTypeOK, TypeOK
<1>2. ASSUME NEW c \in Chain, Approve(c) \/ \E i \in Step : Advance(<<c, i>>)
      PROVE  StatusKept /\ InTurn
  <2>1. CASE status' = status
    BY <2>1
  <2>2. ASSUME NEW j \in Step, status[<<c, j>>] = "none",
               status' = [status EXCEPT ![<<c, j>>] = "pending"]
        PROVE  StatusKept /\ InTurn
    <3>1. StatusKept
      BY <1>1, <2>2
    <3>2. \A t \in StepTask : (status[t] = "none" /\ status'[t] = "pending") => t = <<c, j>>
      BY <1>1, <2>2
    <3>3. ASSUME NEW k \in 1..(j - 1) PROVE status[<<c, k>>] \in {"done", "cleared"}
      <4>1. k \in Step /\ k < j
        BY ChainAssumption DEF Step
      <4>2. status'[<<c, j>>] # "none" /\ status'[<<c, k>>] = status[<<c, k>>]
        BY <1>1, <2>2, <4>1
      <4>3. Over(c, k)'
        BY <4>1, <4>2 DEF IInv, OneFront
      <4> QED
        BY <4>2, <4>3 DEF Over
    <3>4. <<c, j>>[1] = c /\ <<c, j>>[2] = j
      OBVIOUS
    <3> QED
      BY <3>1, <3>2, <3>3, <3>4
  <2> QED
    BY <1>2, <2>1, <2>2, QueuedIsNew
<1>3. CASE \E t \in StepTask : Advance(t)
  <2> PICK t \in StepTask : Advance(t)
    BY <1>3
  <2>1. t[1] \in Chain /\ t[2] \in Step /\ Advance(<<t[1], t[2]>>)
    BY StepTaskType
  <2> QED
    BY <1>2, <2>1
<1>4. CASE UNCHANGED vars
  BY <1>4 DEF vars
<1>5. CASE \E t \in Task \ StepTask : Create(t)
  BY <1>1, <1>5 DEF Create
<1>10. CASE \E t \in Task : PickUp(t) \/ Complete(t) \/ Fail(t) \/ Resume(t) \/ Cancel(t) \/ Clear(t)
  <2>1. StatusKept
    BY <1>1, <1>10 DEF PickUp, Complete, Fail, Settle, Outcome, Resume, Cancel, Clear, Terminal
  <2>2. InTurn
    BY <1>1, <1>10 DEF PickUp, Complete, Fail, Settle, Outcome, Resume, Cancel, Clear, Terminal
  <2> QED
    BY <2>1, <2>2
<1>6. CASE Boot \/ ChainCrash
  BY <1>1, <1>6 DEF Boot, ChainCrash, Crash, Interrupted
<1>7. CASE \E t \in StepTask : SettleStep(t, "done") \/ SettleStep(t, "failed")
  BY <1>1, <1>7 DEF SettleStep, Settle, Outcome
<1>8. CASE \E c \in Chain : Ask(c)
  BY <1>4, <1>8 DEF Ask
<1>9. CASE \/ ReadEntry \/ LetPass \/ Decline
           \/ PlanReady \/ PlanFails \/ ClearSession \/ SavePlan
  BY <1>4, <1>9 DEF ReadEntry, LetPass, Decline, PlanReady, PlanFails, ClearSession, SavePlan
<1> QED
  BY <1>2, <1>3, <1>4, <1>5, <1>6, <1>7, <1>8, <1>9, <1>10 DEF ChainNext, allVars

\* A finished task is finished; a late worker does not revive a cancelled one.
THEOREM FinalIsFinal == ChainSpec => FinalStaysFinal
<1>1. IInv /\ IInv' /\ [ChainNext]_allVars =>
         [\A t \in Task : status[t] \in {"done", "failed", "aborted", "cleared"} =>
             status'[t] \in {status[t], "cleared"}]_vars
  BY StatusSteps DEF StatusKept
<1> QED
  BY <1>1, Inductive, PTL DEF ChainSpec, FinalStaysFinal

\* The steps of a plan are taken up in their order.
THEOREM InOrder == ChainSpec => StepsInOrder
<1>1. IInv /\ IInv' /\ [ChainNext]_allVars =>
         [\A t \in StepTask : (status[t] = "none" /\ status'[t] = "pending") =>
             \A j \in 1..(t[2] - 1) : status[<<t[1], j>>] \in {"done", "cleared"}]_allVars
  BY StatusSteps DEF InTurn
<1> QED
  BY <1>1, Inductive, PTL DEF ChainSpec, StepsInOrder
-----------------------------------------------------------------------------
\* Somebody is to go on with the task: the scheduler, its worker or its callback;
\* or it was cancelled, and its file perhaps cleared since.
Live(t) == status[t] = "pending" \/ t \in worker \/ settled[t] # None
Cancelled(t) == status[t] \in {"aborted", "cleared"}

\* A plan with steps f has a step that it calls running and that is.
AtWork(f, c) == \E i \in Step : f[i] = "running" /\ (Live(<<c, i>>) \/ Cancelled(<<c, i>>))

\* An approved plan is about to be saved with its next step, or is at work on one.
NoChainForgotten ==
    \A c \in Chain \ (Project \cup hurt) :
        plan[c] = "in_progress" => (\E w \in saving : w.chain = c) \/ AtWork(step[c], c)

\* Of the chains no crash has met, a running step has a worker even while the
\* daemon is down; plans are saved one at a time, each with the task just created.
AtWorkInv ==
    /\ NoChainForgotten
    /\ \A w \in saving : AtWork(w.step, w.chain)
    /\ \A v, w \in saving : v = w
    /\ \A t \in StepTask : t[1] \notin hurt /\ status[t] = "running" => t \in worker

\* A step of the tasks alone.
LEMMA WorkGoesOn ==
  ASSUME IInv, AtWorkInv, UNCHANGED <<plan, step, saving, hurt>>,
         \A t \in StepTask : Live(t) \/ Cancelled(t) => Live(t)' \/ Cancelled(t)',
         \A t \in StepTask : t[1] \notin hurt /\ status'[t] = "running" => t \in worker'
  PROVE  AtWorkInv'
<1> USE StepTaskType
<1>1. ASSUME NEW c \in Chain, NEW f, AtWork(f, c) PROVE AtWork(f, c)'
  BY <1>1 DEF AtWork
<1>2. NoChainForgotten'
  <2> SUFFICES ASSUME NEW c \in Chain \ (Project \cup hurt), plan[c] = "in_progress"
               PROVE  (\E w \in saving : w.chain = c) \/ AtWork(step[c], c)'
    BY DEF NoChainForgotten
  <2> QED
    BY <1>1 DEF AtWorkInv, NoChainForgotten
<1>3. \A w \in saving : w.chain \in Chain
  BY DEF IInv, ChainTypeOK
<1>4. ASSUME NEW w \in saving PROVE AtWork(w.step, w.chain)'
  BY <1>1, <1>3 DEF AtWorkInv
<1>5. \A w \in saving' : AtWork(w.step, w.chain)'
  BY <1>4
<1> QED
  BY <1>2, <1>5 DEF AtWorkInv

\* The conversation writes a plan file only for a plan that is not approved yet.
LEMMA TalkWorks ==
  ASSUME IInv, AtWorkInv,
         \/ \E c \in Chain : Ask(c)
         \/ ReadEntry \/ LetPass \/ Decline
         \/ PlanReady \/ PlanFails \/ ClearSession
  PROVE  AtWorkInv'
<1>1. UNCHANGED <<status, worker, settled, step, saving, hurt>>
  BY DEF Ask, ReadEntry, LetPass, Decline, TakeOffer, PlanReady, PlanFails, ClearSession, vars
<1>2. \A c \in Chain : plan'[c] = "in_progress" => plan[c] = "in_progress"
  BY DEF Ask, ReadEntry, LetPass, Decline, TakeOffer, PlanReady, PlanFails, ClearSession, IInv, ChainTypeOK
<1>3. \A c, i : Live(<<c, i>>)' = Live(<<c, i>>) /\ Cancelled(<<c, i>>)' = Cancelled(<<c, i>>)
  BY <1>1 DEF Live, Cancelled
<1>4. \A c, f : AtWork(f, c)' = AtWork(f, c)
  BY <1>3 DEF AtWork
<1> QED
  BY <1>1, <1>2, <1>4 DEF AtWorkInv, NoChainForgotten

\* A task is created, taken up, resumed, cancelled, cleared, or its worker settles.
LEMMA TaskWorks ==
  ASSUME IInv, AtWorkInv,
         \/ \E t \in Task \ StepTask : (Create(t) \/ Complete(t) \/ Fail(t)) /\ UNCHANGED chainVars
         \/ \E t \in Task : (PickUp(t) \/ Resume(t) \/ Cancel(t) \/ Clear(t)) /\ UNCHANGED chainVars
         \/ \E t \in StepTask : SettleStep(t, "done") \/ SettleStep(t, "failed")
  PROVE  AtWorkInv'
<1> USE StepTaskType
<1>1. status \in [Task -> Status] /\ settled \in [StepTask -> {None} \cup (Status \ {"none", "pending", "cleared"})]
  BY DEF IInv, ChainTypeOK, TypeOK
<1>2. ASSUME NEW r \in Task \ StepTask, Create(r) \/ Complete(r) \/ Fail(r), UNCHANGED chainVars
      PROVE  AtWorkInv'
  <2>1. /\ \A t \in StepTask : status'[t] = status[t] /\ (t \in worker' <=> t \in worker)
        /\ UNCHANGED <<plan, step, saving, hurt, settled>>
    BY <1>1, <1>2 DEF Create, Complete, Fail, Settle, chainVars
  <2>2. \A t \in StepTask : Live(t) \/ Cancelled(t) => Live(t)' \/ Cancelled(t)'
    BY <2>1 DEF Live, Cancelled
  <2>3. \A t \in StepTask : t[1] \notin hurt /\ status'[t] = "running" => t \in worker'
    BY <2>1 DEF AtWorkInv
  <2> QED
    BY <2>1, <2>2, <2>3, WorkGoesOn
<1>3. ASSUME NEW r \in Task, PickUp(r) \/ Resume(r) \/ Cancel(r) \/ Clear(r), UNCHANGED chainVars
      PROVE  AtWorkInv'
  <2>1. UNCHANGED <<plan, step, saving, hurt, settled>>
    BY <1>3 DEF chainVars
  <2>2. /\ \A t \in Task : t # r => status'[t] = status[t] /\ (t \in worker' <=> t \in worker)
        /\ worker \subseteq worker'
        /\ status[r] = "pending" => status'[r] = "aborted" \/ r \in worker'
        /\ status[r] \in {"aborted", "cleared"} => status'[r] \in {"aborted", "cleared"}
        /\ status'[r] = "running" => r \in worker'
    BY <1>1, <1>3 DEF PickUp, Resume, Cancel, Clear, Terminal
  <2>3. \A t \in StepTask : Live(t) \/ Cancelled(t) => Live(t)' \/ Cancelled(t)'
    BY <2>1, <2>2 DEF Live, Cancelled
  <2>4. \A t \in StepTask : t[1] \notin hurt /\ status'[t] = "running" => t \in worker'
    BY <2>2 DEF AtWorkInv
  <2> QED
    BY <2>1, <2>3, <2>4, WorkGoesOn
<1>4. ASSUME NEW r \in StepTask, NEW s \in {"done", "failed"}, SettleStep(r, s) PROVE AtWorkInv'
  <2>1. UNCHANGED <<plan, step, saving, hurt>>
    BY <1>4 DEF SettleStep
  <2>2. r \in worker /\ worker' = worker \ {r} /\ status' = [status EXCEPT ![r] = Outcome(r, s)]
        /\ settled' = [settled EXCEPT ![r] = ReadBack(r, s)]
    BY <1>4 DEF SettleStep, Settle
  <2>3. settled'[r] # None /\ status'[r] # "running"
    BY <1>1, <2>2 DEF ReadBack, Outcome, IInv, Workers, None
  <2>4. \A t \in StepTask : t # r => /\ status'[t] = status[t] /\ settled'[t] = settled[t]
                                     /\ t \in worker' <=> t \in worker
    BY <1>1, <2>2
  <2>5. \A t \in StepTask : Live(t) \/ Cancelled(t) => Live(t)' \/ Cancelled(t)'
    BY <2>3, <2>4 DEF Live, Cancelled
  <2>6. \A t \in StepTask : t[1] \notin hurt /\ status'[t] = "running" => t \in worker'
    BY <2>3, <2>4 DEF AtWorkInv
  <2> QED
    BY <2>1, <2>5, <2>6, WorkGoesOn
<1> QED
  BY <1>2, <1>3, <1>4

\* A restart finds no step of an unharmed chain running; one that was queued still is.
LEMMA BootWorks == ASSUME IInv, AtWorkInv, Boot, UNCHANGED chainVars PROVE AtWorkInv'
<1>1. UNCHANGED <<plan, step, saving, hurt, settled, worker>>
  BY DEF Boot, chainVars
<1>2. \A t \in StepTask : /\ status'[t] # "running"
                          /\ status[t] # "running" => status'[t] = status[t]
  BY StepTaskType DEF Boot, Interrupted
<1>3. \A t \in StepTask : Live(t) \/ Cancelled(t) => Live(t)' \/ Cancelled(t)'
  BY <1>1, <1>2 DEF Live, Cancelled
<1> QED
  BY <1>1, <1>2, <1>3, WorkGoesOn

\* A chain the crash did not meet has its next task in the file of the queue.
LEMMA CrashWorks == ASSUME IInv, AtWorkInv, ChainCrash PROVE AtWorkInv'
<1> USE StepTaskType
<1>1. /\ saving' = {} /\ worker' = {} /\ UNCHANGED <<plan, step, status>>
      /\ settled' = [t \in StepTask |-> None] /\ hurt \subseteq hurt'
  BY DEF ChainCrash, Crash
<1>2. ASSUME NEW c \in Chain \ hurt'
      PROVE  /\ \A w \in saving : w.chain # c
             /\ \A i \in Step : <<c, i>> \notin worker /\ settled[<<c, i>>] = None
  BY <1>2 DEF ChainCrash
<1>3. NoChainForgotten'
  <2> SUFFICES ASSUME NEW c \in Chain \ (Project \cup hurt'), plan[c] = "in_progress"
               PROVE  AtWork(step[c], c)'
    BY <1>1 DEF NoChainForgotten
  <2>1. AtWork(step[c], c)
    BY <1>1, <1>2 DEF AtWorkInv, NoChainForgotten
  <2>2. PICK i \in Step : step[c][i] = "running" /\ (Live(<<c, i>>) \/ Cancelled(<<c, i>>))
    BY <2>1 DEF AtWork
  <2>3. status[<<c, i>>] = "pending" \/ Cancelled(<<c, i>>)
    BY <1>2, <2>2 DEF Live
  <2>4. Live(<<c, i>>)' \/ Cancelled(<<c, i>>)'
    BY <1>1, <2>3 DEF Live, Cancelled
  <2> QED
    BY <1>1, <2>2, <2>4 DEF AtWork
<1>4. ASSUME NEW t \in StepTask, t[1] \notin hurt', status[t] = "running" PROVE FALSE
  <2>1. t \in worker
    BY <1>1, <1>4 DEF AtWorkInv
  <2>2. t[1] \in Chain \ hurt' /\ t[2] \in Step /\ t = <<t[1], t[2]>>
    BY <1>4
  <2> QED
    BY <1>2, <2>1, <2>2
<1> QED
  BY <1>1, <1>3, <1>4 DEF AtWorkInv

\* The plan saved says of the step just created that it runs.
LEMMA SaveWorks == ASSUME IInv, AtWorkInv, SavePlan PROVE AtWorkInv'
<1> USE StepTaskType
<1> PICK w \in saving : /\ plan' = [plan EXCEPT ![w.chain] = w.plan]
                        /\ step' = [step EXCEPT ![w.chain] = w.step]
  BY DEF SavePlan
<1>1. saving' = {} /\ UNCHANGED <<status, worker, settled, hurt>>
  BY DEF SavePlan, vars
<1>2. \A v \in saving : v = w
  BY DEF AtWorkInv
<1>3. w.chain \in Chain /\ AtWork(w.step, w.chain)
  BY DEF AtWorkInv, IInv, ChainTypeOK
<1>4. \A c, f : AtWork(f, c)' = AtWork(f, c)
  BY <1>1 DEF AtWork, Live, Cancelled
<1>5. /\ step'[w.chain] = w.step
      /\ \A c \in Chain : c # w.chain => plan'[c] = plan[c] /\ step'[c] = step[c]
  BY <1>3 DEF IInv, ChainTypeOK
<1>6. NoChainForgotten'
  <2> SUFFICES ASSUME NEW c \in Chain \ (Project \cup hurt), plan'[c] = "in_progress"
               PROVE  AtWork(step[c], c)'
    BY <1>1 DEF NoChainForgotten
  <2>1. CASE c = w.chain
    <3>1. AtWork(w.step, c)'
      BY <1>3, <1>4, <2>1
    <3> QED
      BY <1>5, <2>1, <3>1 DEF AtWork
  <2>2. CASE c # w.chain
    <3>1. AtWork(step[c], c)
      BY <1>2, <1>5, <2>2 DEF AtWorkInv, NoChainForgotten
    <3> QED
      BY <1>1, <1>5, <2>2, <3>1 DEF AtWork, Live, Cancelled
  <2> QED
    BY <2>1, <2>2
<1> QED
  BY <1>1, <1>6 DEF AtWorkInv

\* A move of chain c leaves the other chains where they are.
LEMMA OthersWork ==
  ASSUME IInv, AtWorkInv, Idle, NEW c \in Chain,
         \A b \in Chain \ {c} : plan'[b] = plan[b] /\ step'[b] = step[b],
         \A b \in Chain \ {c}, i \in Step : status'[<<b, i>>] = status[<<b, i>>]
                                            /\ settled'[<<b, i>>] = settled[<<b, i>>],
         UNCHANGED <<worker, hurt>>
  PROVE  \A b \in Chain \ (Project \cup hurt \cup {c}) :
            plan'[b] = "in_progress" => AtWork(step[b], b)'
<1> SUFFICES ASSUME NEW b \in Chain \ (Project \cup hurt \cup {c}), plan'[b] = "in_progress"
             PROVE  AtWork(step[b], b)'
  OBVIOUS
<1>1. AtWork(step[b], b)
  BY DEF AtWorkInv, NoChainForgotten, Idle
<1>2. PICK i \in Step : step[b][i] = "running" /\ (Live(<<b, i>>) \/ Cancelled(<<b, i>>))
  BY <1>1 DEF AtWork
<1>3. step'[b][i] = "running" /\ (Live(<<b, i>>)' \/ Cancelled(<<b, i>>)')
  BY <1>2 DEF Live, Cancelled
<1> QED
  BY <1>3 DEF AtWork

\* A step was queued: its plan is about to be saved.
LEMMA QueueWorks ==
  ASSUME IInv, AtWorkInv, Idle, NEW c \in Chain, NEW j \in Step, NEW p, NEW f,
         Queue(c, j, p, f), f[j] = "running", hurt' = hurt,
         \A b \in Chain \ {c}, i \in Step : settled'[<<b, i>>] = settled[<<b, i>>]
  PROVE  AtWorkInv'
<1> USE StepTaskType
<1>1. /\ saving' = {[chain |-> c, plan |-> p, step |-> f]} /\ UNCHANGED <<worker, plan, step>>
      /\ status' = [status EXCEPT ![<<c, j>>] = "pending"]
  BY DEF Queue
<1>2. /\ <<c, j>> \in Task /\ status'[<<c, j>>] = "pending"
      /\ \A t \in Task : t # <<c, j>> => status'[t] = status[t]
  BY <1>1 DEF IInv, ChainTypeOK, TypeOK
<1>3. \A b \in Chain \ {c}, i \in Step : status'[<<b, i>>] = status[<<b, i>>]
  BY <1>2
<1>4. \A b \in Chain \ (Project \cup hurt \cup {c}) : plan'[b] = "in_progress" => AtWork(step[b], b)'
  BY <1>1, <1>3, OthersWork
<1>5. \E w \in saving' : w.chain = c
  BY <1>1
<1>6. NoChainForgotten'
  BY <1>4, <1>5 DEF NoChainForgotten
<1>7. AtWork(f, c)'
  BY <1>2 DEF AtWork, Live
<1>8. \A w \in saving' : AtWork(w.step, w.chain)'
  BY <1>1, <1>7
<1>9. \A t \in StepTask : t[1] \notin hurt' /\ status'[t] = "running" => t \in worker'
  BY <1>1, <1>2 DEF AtWorkInv
<1> QED
  BY <1>1, <1>6, <1>8, <1>9 DEF AtWorkInv

\* Approve begins with the first step, a callback goes on with the next.
LEMMA MoveWorks ==
  ASSUME IInv, AtWorkInv, (\E c \in Chain : Approve(c)) \/ (\E t \in StepTask : Advance(t))
  PROVE  AtWorkInv'
<1> USE StepTaskType
<1>1. ASSUME NEW c \in Chain, Approve(c) PROVE AtWorkInv'
  <2> DEFINE f == [step[c] EXCEPT ![1] = "running"]
  <2>1. Idle /\ Queue(c, 1, "in_progress", f) /\ UNCHANGED <<settled, hurt>>
    BY <1>1 DEF Approve
  <2>2. f[1] = "running"
    BY DEF IInv, ChainTypeOK
  <2> HIDE DEF f
  <2> QED
    BY <2>1, <2>2, QueueWorks
<1>2. ASSUME NEW t \in StepTask, Advance(t) PROVE AtWorkInv'
  <2> PICK c \in Chain, i \in Step : t = <<c, i>> /\ c = t[1] /\ i = t[2]
    OBVIOUS
  <2>1. /\ settled[t] # None /\ Idle /\ saving = {} /\ hurt' = hurt
        /\ settled' = [settled EXCEPT ![t] = None]
    BY <1>2 DEF Advance, Idle
  <2>2. \A r \in StepTask : r # t => settled'[r] = settled[r]
    BY <2>1 DEF IInv, ChainTypeOK
  <2>3. \A b \in Chain, k \in Step : b # c \/ k # i => settled'[<<b, k>>] = settled[<<b, k>>]
    BY <2>2
  <2>4. ASSUME UNCHANGED <<status, worker, saving>>,
               \A b \in Chain \ {c} : plan'[b] = plan[b] /\ step'[b] = step[b],
               c \notin Project \cup hurt /\ plan'[c] = "in_progress" => AtWork(step[c], c)'
        PROVE  AtWorkInv'
    <3>0. /\ \A b \in Chain \ {c}, k \in Step : status'[<<b, k>>] = status[<<b, k>>]
                                              /\ settled'[<<b, k>>] = settled[<<b, k>>]
          /\ UNCHANGED <<worker, hurt>>
      BY <2>1, <2>3, <2>4
    <3>1. \A b \in Chain \ (Project \cup hurt \cup {c}) : plan'[b] = "in_progress" => AtWork(step[b], b)'
      <4>1. \A b \in Chain \ {c} : plan'[b] = plan[b] /\ step'[b] = step[b]
        BY <2>4
      <4> QED
        BY <2>1, <3>0, <4>1, OthersWork
    <3>2. NoChainForgotten'
      BY <2>1, <2>4, <3>1 DEF NoChainForgotten
    <3> QED
      BY <2>1, <2>4, <3>2 DEF AtWorkInv
  <2>5. CASE ~Found(c)
    <3>1. UNCHANGED <<vars, plan, step, saving>>
      BY <1>2, <2>5 DEF Advance
    <3> QED
      BY <2>4, <2>5, <3>1 DEF Found, vars
  <2>6. CASE Found(c) /\ step[c][i] \in {"done", "failed"}
    <3>1. UNCHANGED <<status, worker, plan, step, saving>>
      BY <1>2, <2>6 DEF Advance
    <3>2. ASSUME c \notin Project \cup hurt, plan[c] = "in_progress" PROVE AtWork(step[c], c)'
      <4>1. PICK k \in Step : step[c][k] = "running" /\ (Live(<<c, k>>) \/ Cancelled(<<c, k>>))
        BY <2>1, <3>2 DEF AtWorkInv, NoChainForgotten, AtWork
      <4>2. k # i
        BY <2>6, <4>1
      <4>3. Live(<<c, k>>)' \/ Cancelled(<<c, k>>)'
        BY <2>3, <3>1, <4>1, <4>2 DEF Live, Cancelled
      <4> QED
        BY <3>1, <4>1, <4>3 DEF AtWork
    <3> QED
      BY <2>4, <3>1, <3>2
  <2>7. CASE Found(c) /\ step[c][i] \notin {"done", "failed"}
    <3>1. Moved(c, i, settled[t])
      BY <1>2, <2>7 DEF Advance
    <3>2. CASE settled[t] = "done" /\ Onward(c, i, settled[t])
      <4> DEFINE g == MarkedStep(c, i, settled[t])
      <4>1. PICK j \in Step : IsNext(g, i, j) /\ Queue(c, j, plan[c], [g EXCEPT ![j] = "running"])
        BY <3>2 DEF Onward
      <4> DEFINE f == [g EXCEPT ![j] = "running"]
      <4>2. f[j] = "running"
        BY DEF MarkedStep, IInv, ChainTypeOK
      <4>3. Queue(c, j, plan[c], f)
        BY <4>1
      <4> HIDE DEF f, g
      <4> QED
        BY <2>1, <2>3, <4>2, <4>3, QueueWorks
    <3>3. CASE Ended(c, i, settled[t])
      <4>1. UNCHANGED <<status, worker, saving>>
        BY <3>3 DEF Ended
      <4>2. /\ plan'[c] # "in_progress"
            /\ \A b \in Chain \ {c} : plan'[b] = plan[b] /\ step'[b] = step[b]
        BY <3>3 DEF Ended, IInv, ChainTypeOK
      <4> QED
        BY <2>4, <4>1, <4>2
    <3> QED
      BY <3>1, <3>2, <3>3 DEF Moved
  <2> QED
    BY <2>5, <2>6, <2>7
<1> QED
  BY <1>1, <1>2

\* Every step keeps the chains at work.
LEMMA StepWorks == ASSUME IInv, AtWorkInv, [ChainNext]_allVars PROVE AtWorkInv'
<1>1. CASE \E c \in Chain : Ask(c) \/ Approve(c)
  BY <1>1, TalkWorks, MoveWorks
<1>2. CASE \/ ReadEntry \/ LetPass \/ Decline
           \/ PlanReady \/ PlanFails \/ ClearSession \/ SavePlan
  BY <1>2, TalkWorks, SaveWorks
<1>3. CASE \E t \in StepTask : SettleStep(t, "done") \/ SettleStep(t, "failed") \/ Advance(t)
  BY <1>3, TaskWorks, MoveWorks
<1>4. CASE \E t \in Task \ StepTask : (Create(t) \/ Complete(t) \/ Fail(t)) /\ UNCHANGED chainVars
  BY <1>4, TaskWorks
<1>5. CASE \E t \in Task : (PickUp(t) \/ Resume(t) \/ Cancel(t) \/ Clear(t)) /\ UNCHANGED chainVars
  BY <1>5, TaskWorks
<1>6. CASE (Boot /\ UNCHANGED chainVars) \/ ChainCrash
  BY <1>6, BootWorks, CrashWorks
<1>7. CASE UNCHANGED allVars
  <2>1. UNCHANGED <<plan, step, saving, hurt, settled, status, worker>>
    BY <1>7 DEF allVars, vars, chainVars
  <2>2. \A t \in StepTask : Live(t)' = Live(t) /\ Cancelled(t)' = Cancelled(t)
    BY <2>1 DEF Live, Cancelled
  <2>3. \A t \in StepTask : t[1] \notin hurt /\ status'[t] = "running" => t \in worker'
    BY <2>1 DEF AtWorkInv
  <2> QED
    BY <2>1, <2>2, <2>3, WorkGoesOn
<1> QED
  BY <1>1, <1>2, <1>3, <1>4, <1>5, <1>6, <1>7 DEF ChainNext

\* At first there is no plan.
LEMMA InitWorks == ChainInit => AtWorkInv
  BY StepTaskType DEF ChainInit, Init, AtWorkInv, NoChainForgotten

\* A chain under way is never forgotten: its plan is being saved, or a step that it
\* calls running is queued, has a worker or a callback on its way, which will move
\* the chain.  What stops it for good is a crash that met it at work, a plan saved
\* in a project's directory, or somebody who cancelled the step
\* (dispatchChain, advanceChain and the end of a worker).
THEOREM ChainsAreAtWork == ChainSpec => []NoChainForgotten
<1>1. AtWorkInv => NoChainForgotten
  BY DEF AtWorkInv
<1>2. IInv /\ AtWorkInv /\ [ChainNext]_allVars => AtWorkInv'
  BY StepWorks
<1> QED
  BY <1>1, <1>2, InitWorks, Inductive, PTL DEF ChainSpec
-----------------------------------------------------------------------------
\* Of a plain task that succeeded or failed the chat has heard just that; an end
\* the chat heard of is in the file, unless somebody cancelled the task while it
\* ran; and a task that is interrupted is stamped as told.
OutcomesTold ==
    \A t \in Task \ StepTask :
        /\ status[t] \in {"done", "failed"} => told[t] = status[t]
        /\ told[t] \in {"done", "failed", "aborted"} => status[t] \in {told[t], "aborted", "cleared"}
        /\ status[t] = "interrupted" => t \in stamped

\* A task that waits or runs has been told of as such, or is resumed; a worker
\* that is left has nobody to contradict but who cancelled or cleared its task.
ReportInv ==
    /\ OutcomesTold
    /\ \A t \in Task \ StepTask :
          /\ status[t] = "none" => told[t] = "nothing"
          /\ status[t] = "pending" => told[t] \in {"nothing", "started", "interrupted"}
          /\ status[t] = "pending" /\ t \notin stamped => told[t] = "nothing"
          /\ status[t] = "running" => told[t] = "started"
          /\ status[t] \in {"done", "failed"} => t \notin worker

\* What is to be shown of one task, when the others are left alone.
Reported(t) ==
    /\ status[t] \in {"done", "failed"} => told[t] = status[t] /\ t \notin worker
    /\ told[t] \in {"done", "failed", "aborted"} => status[t] \in {told[t], "aborted", "cleared"}
    /\ status[t] = "interrupted" => t \in stamped
    /\ status[t] = "none" => told[t] = "nothing"
    /\ status[t] = "pending" => told[t] \in {"nothing", "started", "interrupted"}
    /\ status[t] = "pending" /\ t \notin stamped => told[t] = "nothing"
    /\ status[t] = "running" => told[t] = "started"

\* The invariant speaks of each plain task by itself.
LEMMA ReportOfEach ==
  /\ ReportInv <=> \A t \in Task \ StepTask : Reported(t)
  /\ (\A t \in Task \ StepTask : Reported(t)') => ReportInv'
  BY DEF ReportInv, OutcomesTold, Reported

\* A task that is left alone stays as it was reported.
LEMMA SameReported ==
  ASSUME NEW t, Reported(t), status'[t] = status[t], told'[t] = told[t],
         t \in stamped' <=> t \in stamped, t \in worker' => t \in worker
  PROVE  Reported(t)'
  BY DEF Reported

\* An operation on one task.
LEMMA TaskReports ==
  ASSUME IInv, ReportInv, NEW r \in Task,
         \/ r \notin StepTask /\ (Create(r) \/ Complete(r) \/ Fail(r))
         \/ PickUp(r) \/ Resume(r) \/ Cancel(r) \/ Clear(r)
  PROVE  ReportInv'
<1> SUFFICES ASSUME NEW t \in Task \ StepTask PROVE Reported(t)'
  BY ReportOfEach
<1>1. Reported(t)
  BY ReportOfEach
<1>2. /\ status \in [Task -> Status] /\ told \in [Task -> Heard] /\ stamped \subseteq Task
      /\ t \in worker => status[t] \notin {"none", "pending", "interrupted"}
  BY DEF IInv, ChainTypeOK, TypeOK, Workers
<1>3. CASE t # r
  <2>1. status'[t] = status[t] /\ told'[t] = told[t]
    BY <1>2, <1>3 DEF Create, Complete, Fail, Settle, Mirror, PickUp, Resume, Cancel, Clear
  <2>2. t \in stamped' <=> t \in stamped
    BY <1>3 DEF Create, Complete, Fail, Settle, Mirror, PickUp, Resume, Cancel, Clear
  <2>3. t \in worker' => t \in worker
    BY <1>3 DEF Create, Complete, Fail, Settle, Mirror, PickUp, Resume, Cancel, Clear
  <2> QED
    BY <1>1, <2>1, <2>2, <2>3, SameReported
<1>4. CASE t = r /\ Create(t)
  BY <1>1, <1>2, <1>4 DEF Create, Reported
<1>5. CASE t = r /\ (Complete(t) \/ Fail(t))
  <2>1. PICK s \in {"done", "failed"} : Settle(t, s)
    BY <1>5 DEF Complete, Fail
  <2>2. /\ t \in worker /\ t \notin worker'
        /\ status'[t] = (IF status[t] = "running" THEN s ELSE status[t])
        /\ told'[t] = s
    BY <1>2, <2>1 DEF Settle, Mirror, Outcome
  <2>3. status[t] \in {"running", "aborted", "cleared"}
    BY <1>1, <1>2, <2>2 DEF Reported, Status, Terminal
  <2> QED
    BY <2>2, <2>3 DEF Reported
<1>6. CASE t = r /\ PickUp(t)
  BY <1>1, <1>2, <1>6 DEF PickUp, Reported
<1>7. CASE t = r /\ Resume(t)
  <2>1. status[t] = "interrupted" /\ status'[t] = "pending" /\ UNCHANGED <<told, stamped>>
    BY <1>2, <1>7 DEF Resume
  <2>2. t \in stamped /\ told[t] \in {"nothing", "started", "interrupted"}
    BY <1>1, <1>2, <2>1 DEF Reported, Heard, Terminal
  <2> QED
    BY <2>1, <2>2 DEF Reported
<1>8. CASE t = r /\ Cancel(t)
  BY <1>1, <1>2, <1>8 DEF Cancel, Reported
<1>9. CASE t = r /\ Clear(t)
  BY <1>1, <1>2, <1>9 DEF Clear, Reported
<1> QED
  BY <1>3, <1>4, <1>5, <1>6, <1>7, <1>8, <1>9

\* What happens to chains does not touch the files of plain tasks.
LEMMA StepsReport ==
  ASSUME IInv, ReportInv,
         \/ \E t \in StepTask : SettleStep(t, "done") \/ SettleStep(t, "failed") \/ Advance(t)
         \/ \E c \in Chain : Approve(c)
  PROVE  ReportInv'
<1> SUFFICES ASSUME NEW t \in Task \ StepTask PROVE Reported(t)'
  BY ReportOfEach
<1>1. Reported(t)
  BY ReportOfEach
<1> USE StepTaskType
<1>2. status \in [Task -> Status] /\ told \in [Task -> Heard]
  BY DEF IInv, ChainTypeOK, TypeOK
<1>3. ASSUME NEW c \in Chain, NEW i \in Step, NEW p, NEW f, Queue(c, i, p, f)
      PROVE  status'[t] = status[t] /\ worker' = worker
  BY <1>2, <1>3 DEF Queue
<1>4. ASSUME NEW r \in StepTask, NEW s, SettleStep(r, s) PROVE Reported(t)'
  <2>1. status'[t] = status[t] /\ told' = told /\ stamped' = stamped /\ (t \in worker' => t \in worker)
    BY <1>2, <1>4 DEF SettleStep, Settle
  <2> QED
    BY <1>1, <2>1, SameReported
<1>5. ASSUME NEW c \in Chain, Approve(c) PROVE Reported(t)'
  <2>1. status'[t] = status[t] /\ worker' = worker /\ told' = told /\ stamped' = stamped
    BY <1>3, <1>5 DEF Approve
  <2> QED
    BY <1>1, <2>1, SameReported
<1>6. ASSUME NEW r \in StepTask, Advance(r) PROVE Reported(t)'
  <2>1. r[1] \in Chain /\ r[2] \in Step /\ t # r
    OBVIOUS
  <2>2. \/ UNCHANGED vars
        \/ /\ \/ UNCHANGED <<status, worker>>
              \/ Moved(r[1], r[2], settled[r])
           /\ told' = [told EXCEPT ![r] = IF settled[r] = "done" THEN "done" ELSE "failed"]
           /\ stamped' = IF status[r] = "cleared" THEN stamped ELSE stamped \cup {r}
    BY <1>6 DEF Advance
  <2>3. ASSUME Moved(r[1], r[2], settled[r]) PROVE status'[t] = status[t] /\ worker' = worker
    BY <1>3, <2>1, <2>3 DEF Moved, Onward, Ended
  <2>4. status'[t] = status[t] /\ worker' = worker
    BY <2>2, <2>3 DEF vars
  <2>5. told'[t] = told[t] /\ (t \in stamped' <=> t \in stamped)
    BY <1>2, <2>1, <2>2 DEF vars
  <2> QED
    BY <1>1, <2>4, <2>5, SameReported
<1> QED
  BY <1>4, <1>5, <1>6

\* The restart tells of every interruption that bears no stamp yet.
LEMMA OutageReports ==
  ASSUME IInv, ReportInv, Boot \/ ChainCrash
  PROVE  ReportInv'
<1> SUFFICES ASSUME NEW t \in Task \ StepTask PROVE Reported(t)'
  BY ReportOfEach
<1>1. Reported(t)
  BY ReportOfEach
<1>2. CASE Boot
  <2>1. /\ status'[t] = Interrupted(t) /\ worker' = worker
        /\ told'[t] = (IF t \in Unmirrored THEN Interrupted(t) ELSE told[t])
        /\ stamped' = stamped \cup Unmirrored
    BY <1>2 DEF Boot
  <2>2. t \in Unmirrored <=> Interrupted(t) \in Terminal /\ t \notin stamped
    BY DEF Unmirrored
  <2> HIDE DEF Unmirrored
  <2>3. CASE status[t] = "running"
    BY <1>1, <2>1, <2>2, <2>3 DEF Interrupted, Terminal, Reported
  <2>4. CASE status[t] # "running"
    <3>1. status'[t] = status[t]
      BY <2>1, <2>4 DEF Interrupted
    <3> QED
      BY <1>1, <2>1, <2>2, <3>1 DEF Terminal, Reported
  <2> QED
    BY <2>3, <2>4
<1>3. CASE ChainCrash
  BY <1>1, <1>3, SameReported DEF ChainCrash, Crash
<1> QED
  BY <1>2, <1>3

\* Every step keeps the reports true.
LEMMA NextReports == ASSUME IInv, ReportInv, [ChainNext]_allVars PROVE ReportInv'
<1>1. ASSUME UNCHANGED vars PROVE ReportInv'
  BY <1>1 DEF vars, ReportInv, OutcomesTold
<1>2. CASE \/ \E c \in Chain : Ask(c)
           \/ ReadEntry \/ LetPass \/ Decline
           \/ PlanReady \/ PlanFails \/ ClearSession \/ SavePlan
           \/ UNCHANGED allVars
  BY <1>1, <1>2 DEF Ask, ReadEntry, LetPass, Decline, TakeOffer, PlanReady, PlanFails, ClearSession, SavePlan, allVars
<1>3. CASE \/ \E t \in StepTask : SettleStep(t, "done") \/ SettleStep(t, "failed") \/ Advance(t)
           \/ \E c \in Chain : Approve(c)
  BY <1>3, StepsReport
<1>4. CASE \E t \in Task \ StepTask : Create(t) \/ Complete(t) \/ Fail(t)
  BY <1>4, TaskReports
<1>5. CASE \E t \in Task : PickUp(t) \/ Resume(t) \/ Cancel(t) \/ Clear(t)
  BY <1>5, TaskReports
<1>6. CASE Boot \/ ChainCrash
  BY <1>6, OutageReports
<1> QED
  BY <1>2, <1>3, <1>4, <1>5, <1>6 DEF ChainNext

\* At first there is no task to tell of.
LEMMA InitReports == ChainInit => ReportInv
  BY DEF ChainInit, Init, ReportInv, OutcomesTold

\* No outcome is kept from the chat, and none is made up: once a task has ended,
\* however its worker raced cancels, clears, resumes and restarts, the chat has
\* heard how (mirrorBackgroundTaskToChat, findUnmirroredDeliveries).
THEOREM OutcomesAreTold == ChainSpec => []OutcomesTold
<1>1. ReportInv => OutcomesTold
  BY DEF ReportInv
<1>2. IInv /\ ReportInv /\ [ChainNext]_allVars => ReportInv'
  BY NextReports
<1> QED
  BY <1>1, <1>2, InitReports, Inductive, PTL DEF ChainSpec
=============================================================================
