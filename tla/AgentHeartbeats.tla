-------------------------- MODULE AgentHeartbeats --------------------------
(***************************************************************************)
(* The heartbeats of the specialist agents                                 *)
(* (gateway/agent-heartbeat-manager.ts, agent-heartbeat-scheduler.ts): a   *)
(* manager sweeps over the agents that are due, once a minute and whenever *)
(* a watched file wakes one; a tick compares the agent's signals with the  *)
(* fingerprint in its state file and runs the LLM when they differ.        *)
(*                                                                         *)
(* A sweep awaits the runs of its ticks.  Until they end no other sweep    *)
(* begins, but signals change, watchers fire, and a wake writes the state  *)
(* file that the end of the tick will write as well.                       *)
(***************************************************************************)
EXTENDS Naturals, FiniteSets

CONSTANTS Agent,        \* agents other than Clementine
          Signal,       \* what the tasks and goals of an agent can look like
          Nothing,      \* no fingerprint yet
          NoFile,       \* no state file
          Sweep,        \* calls of outerTick that can be in flight together
          MaxCrashes    \* bound on the restarts of a behaviour

ASSUME HeartbeatAssumption ==
    /\ Nothing \notin Signal
    /\ NoFile \notin [print : Signal \cup {Nothing}, due : BOOLEAN]
    /\ MaxCrashes \in Nat

VARIABLES up,           \* the daemon runs
          signal,       \* the tasks and goals of each agent as they are now
          runnable,     \* agents whose status is active
          registered,   \* agents with a scheduler
          waking,       \* agents whose debounce timer runs
          file,         \* state.json: the fingerprint, and whether nextCheckAt is past
          ticking,      \* the flag that keeps sweeps apart
          run,          \* per sweep and agent: the fingerprint of a tick that awaits its run
          shown,        \* history: what the agent's last tick looked at
          crashes       \* restarts so far

vars == <<up, signal, runnable, registered, waking, file, ticking, run, shown, crashes>>

Idle == [a \in Agent |-> Nothing]
InTick(a) == \E s \in Sweep : run[s][a] # Nothing

Init ==
    /\ up = FALSE
    /\ signal \in [Agent -> Signal]
    /\ runnable \in SUBSET Agent
    /\ registered = {} /\ waking = {}
    /\ file = [a \in Agent |-> NoFile]
    /\ ticking = FALSE
    /\ run = [s \in Sweep |-> Idle]
    /\ shown = [a \in Agent |-> Nothing]
    /\ crashes = 0

-----------------------------------------------------------------------------
\* isDue.  An agent without a file is checked against a clock read after the
\* sweep's own, so it is due only if both readings fall in one millisecond.
DueIn(files, early) ==
    {a \in runnable : IF files[a] = NoFile THEN a \in early ELSE files[a].due}

\* The first tick of an agent only takes the fingerprint.
NeedsRun(f, a) == f # NoFile /\ f.print # Nothing /\ f.print # signal[a]

Ticked(a) == [print |-> signal[a], due |-> FALSE]

\* outerTick over the given state files: reconcile, then every due agent ticks.
\* A tick without a run is over at once, and so is a sweep without a run.
Sweeps(s, files, timers) == \E early \in SUBSET Agent :
    LET due == DueIn(files, early)
        awaited == {a \in due : NeedsRun(files[a], a)}
    IN
    /\ registered' = runnable
    /\ waking' = timers \ (registered \ runnable)
    /\ file' = [a \in Agent |-> IF a \in due \ awaited THEN Ticked(a) ELSE files[a]]
    /\ run' = [run EXCEPT ![s] = [a \in Agent |-> IF a \in awaited THEN signal[a] ELSE Nothing]]
    /\ shown' = [a \in Agent |-> IF a \in due THEN signal[a] ELSE shown[a]]
    /\ ticking' = (awaited # {})

\* Mutant: the interval does not look at the flag.
MinuteUnguarded(s) ==
    /\ up /\ run[s] = Idle
    /\ Sweeps(s, file, waking)
    /\ UNCHANGED <<up, signal, runnable, crashes>>

\* The interval, every minute.
Minute(s) ==
    /\ up /\ ~ticking /\ run[s] = Idle
    /\ Sweeps(s, file, waking)
    /\ UNCHANGED <<up, signal, runnable, crashes>>

\* markDue: nextCheckAt is now, the rest of the file as it is.
MarkedDue(a) ==
    [file EXCEPT ![a] = [print |-> IF @ = NoFile THEN Nothing ELSE @.print, due |-> TRUE]]

\* The debounce timer of an agent fires: it is marked as due and, unless a
\* sweep is in flight, one begins.
Wake(s, a) ==
    /\ up /\ a \in waking /\ run[s] = Idle
    /\ IF a \notin registered
       THEN waking' = waking \ {a} /\ UNCHANGED <<registered, file, ticking, run, shown>>
       ELSE IF ticking
       THEN /\ waking' = waking \ {a}
            /\ file' = MarkedDue(a)
            /\ UNCHANGED <<registered, ticking, run, shown>>
       ELSE Sweeps(s, MarkedDue(a), waking \ {a})
    /\ UNCHANGED <<up, signal, runnable, crashes>>

\* Mutant: the fingerprint is taken when the run is over.
SavedLate(s, a) == Ticked(a)

\* What a tick saves at its end: the fingerprint it began with.
Saved(s, a) == [print |-> run[s][a], due |-> FALSE]

\* Mutant: nobody puts the flag down.
TicksForEver(s, a) == ticking

\* The finally block runs once the last tick of the sweep is over.
StillTicking(s, a) == ticking /\ \E b \in Agent \ {a} : run[s][b] # Nothing

\* The run of a tick returns or fails; the tick saves its state.
RunEnds(s, a) ==
    /\ up /\ run[s][a] # Nothing
    /\ file' = [file EXCEPT ![a] = Saved(s, a)]
    /\ run' = [run EXCEPT ![s][a] = Nothing]
    /\ ticking' = StillTicking(s, a)
    /\ UNCHANGED <<up, signal, runnable, registered, waking, shown, crashes>>

-----------------------------------------------------------------------------
\* A task or goal of the agent changes; the watcher hears of it or not.
Change(a) == \E v \in Signal \ {signal[a]}, heard \in BOOLEAN :
    /\ signal' = [signal EXCEPT ![a] = v]
    /\ waking' = IF heard /\ a \in registered THEN waking \cup {a} ELSE waking
    /\ UNCHANGED <<up, runnable, registered, file, ticking, run, shown, crashes>>

\* wake_agent's sentinel, or a goal trigger: a wake without a change.
Call(a) ==
    /\ up
    /\ waking' = waking \cup {a}
    /\ UNCHANGED <<up, signal, runnable, registered, file, ticking, run, shown, crashes>>

\* The owner pauses or resumes an agent.
Toggle(a) ==
    /\ runnable' = (runnable \ {a}) \cup ({a} \ runnable)
    /\ UNCHANGED <<up, signal, registered, waking, file, ticking, run, shown, crashes>>

\* nextCheckAt passes.
TimePasses(a) ==
    /\ file[a] # NoFile /\ ~file[a].due
    /\ file' = [file EXCEPT ![a].due = TRUE]
    /\ UNCHANGED <<up, signal, runnable, registered, waking, ticking, run, shown, crashes>>

\* The daemon stops or dies; a run in flight is as if it had never begun.
Crash ==
    /\ up /\ crashes < MaxCrashes
    /\ up' = FALSE
    /\ crashes' = crashes + 1
    /\ registered' = {} /\ waking' = {}
    /\ ticking' = FALSE
    /\ run' = [s \in Sweep |-> Idle]
    /\ shown' = [a \in Agent |-> IF InTick(a) THEN file[a].print ELSE shown[a]]
    /\ UNCHANGED <<signal, runnable, file>>

\* start(): reconcile and a first sweep.
Start(s) ==
    /\ ~up
    /\ up' = TRUE
    /\ Sweeps(s, file, {})
    /\ UNCHANGED <<signal, runnable, crashes>>

Next ==
    \/ \E s \in Sweep : Minute(s) \/ Start(s)
    \/ \E s \in Sweep, a \in Agent : Wake(s, a) \/ RunEnds(s, a)
    \/ \E a \in Agent : Change(a) \/ Call(a) \/ Toggle(a) \/ TimePasses(a)
    \/ Crash

Spec == Init /\ [][Next]_vars

\* The interval lives as long as the daemon, a run has a limit of turns, the
\* clock goes on, and the daemon is restarted.  No watcher need ever fire.
Fairness ==
    /\ WF_vars(\E s \in Sweep : Minute(s))
    /\ WF_vars(\E s \in Sweep : Start(s))
    /\ \A a \in Agent :
        /\ WF_vars(\E s \in Sweep : RunEnds(s, a))
        /\ WF_vars(TimePasses(a))
FairSpec == Spec /\ Fairness

-----------------------------------------------------------------------------
TypeOK ==
    /\ up \in BOOLEAN /\ ticking \in BOOLEAN
    /\ signal \in [Agent -> Signal]
    /\ runnable \subseteq Agent /\ registered \subseteq Agent /\ waking \subseteq Agent
    /\ file \in [Agent -> [print : Signal \cup {Nothing}, due : BOOLEAN] \cup {NoFile}]
    /\ run \in [Sweep -> [Agent -> Signal \cup {Nothing}]]
    /\ shown \in [Agent -> Signal \cup {Nothing}]
    /\ crashes \in 0..MaxCrashes

\* "If (this.ticking) return": the interval, the wakes and the start never run
\* the LLM of one agent twice at the same time, whichever of them meet.
OneTickPerAgent ==
    \A a \in Agent, s, t \in Sweep :
        run[s][a] # Nothing /\ run[t][a] # Nothing => s = t

\* Signals that change while the agent is thinking are not taken for seen: the
\* fingerprint in the file is one that a tick of the agent looked at, and the
\* last such, so that the next tick still finds the difference.
NoChangeSwallowed ==
    \A a \in Agent : file[a] # NoFile /\ ~InTick(a) => file[a].print \in {shown[a], Nothing}

\* Polling alone brings every lasting change before the agent: once it has a
\* state file, it looks at its signals as they are, or is paused.
EveryChangeShown ==
    \A a \in Agent :
        file[a] # NoFile /\ shown[a] # signal[a] ~> shown[a] = signal[a] \/ a \notin runnable
=============================================================================
