----------------------- MODULE AgentHeartbeatsProofs -----------------------
(***************************************************************************)
(* Proofs about the agents' heartbeats, for any agents, any signals and    *)
(* any number of sweeps that could meet.  The flag is what keeps two runs  *)
(* of an agent apart, so the invariant says that it is up as long as a run *)
(* is in flight; a run's fingerprint is then the last that was looked at.  *)
(***************************************************************************)
EXTENDS AgentHeartbeats, TLAPS

Prints == Signal \cup {Nothing}
File == [print : Prints, due : BOOLEAN]
Files == [Agent -> File \cup {NoFile}]

\* A run in flight holds the flag of a daemon that is up.
Flag == \A s \in Sweep, a \in Agent : run[s][a] # Nothing => ticking /\ up

\* All runs in flight belong to one sweep.
OneSweep ==
    \A s, t \in Sweep : \A a, b \in Agent :
        run[s][a] # Nothing /\ run[t][b] # Nothing => s = t

\* A run looks at what its agent was shown last, and the agent has a file.
Looked ==
    \A s \in Sweep, a \in Agent :
        run[s][a] # Nothing => shown[a] = run[s][a] /\ file[a] # NoFile

IInv == TypeOK /\ Flag /\ OneSweep /\ Looked /\ NoChangeSwallowed

\* Nothing is in flight.
Quiet == \A s \in Sweep, a \in Agent : run[s][a] = Nothing

\* What a sweep finds in the files it is given.
Known(files) ==
    \A a \in Agent : files[a] # NoFile => files[a].print \in {shown[a], Nothing}

-----------------------------------------------------------------------------
\* Initially there are no files and no runs.
LEMMA InitInv == Init => IInv
<1> SUFFICES ASSUME Init PROVE IInv
    OBVIOUS
<1> USE HeartbeatAssumption
<1>1. TypeOK
  <2>1. Idle \in [Agent -> Signal \cup {Nothing}]
    BY DEF Idle
  <2>2. run \in [Sweep -> [Agent -> Signal \cup {Nothing}]]
    BY <2>1 DEF Init
  <2>3. crashes \in 0..MaxCrashes
    BY DEF Init
  <2> QED
    BY <2>2, <2>3 DEF Init, TypeOK
<1>2. Flag /\ OneSweep /\ Looked
    BY DEF Init, Flag, OneSweep, Looked, Idle
<1>3. NoChangeSwallowed
    BY DEF Init, NoChangeSwallowed
<1> QED
    BY <1>1, <1>2, <1>3 DEF IInv

\* A sweep that begins while nothing is in flight, over files that agree with
\* what was shown (outerTick after its check of the flag).
LEMMA SweepKeeps ==
    ASSUME TypeOK, Quiet, up' = TRUE, UNCHANGED <<signal, runnable, crashes>>,
           NEW s \in Sweep, NEW files \in Files, NEW timers \in SUBSET Agent,
           Known(files), Sweeps(s, files, timers)
    PROVE  IInv'
<1> USE HeartbeatAssumption
<1>1. PICK early \in SUBSET Agent :
        LET due == DueIn(files, early)
            awaited == {a \in due : NeedsRun(files[a], a)}
        IN
        /\ registered' = runnable
        /\ waking' = timers \ (registered \ runnable)
        /\ file' = [a \in Agent |-> IF a \in due \ awaited THEN Ticked(a) ELSE files[a]]
        /\ run' = [run EXCEPT ![s] = [a \in Agent |-> IF a \in awaited THEN signal[a] ELSE Nothing]]
        /\ shown' = [a \in Agent |-> IF a \in due THEN signal[a] ELSE shown[a]]
        /\ ticking' = (awaited # {})
    BY DEF Sweeps
<1> DEFINE due == DueIn(files, early)
           awaited == {a \in due : NeedsRun(files[a], a)}
<1>2. /\ registered' = runnable
      /\ waking' = timers \ (registered \ runnable)
      /\ file' = [a \in Agent |-> IF a \in due \ awaited THEN Ticked(a) ELSE files[a]]
      /\ run' = [run EXCEPT ![s] = [a \in Agent |-> IF a \in awaited THEN signal[a] ELSE Nothing]]
      /\ shown' = [a \in Agent |-> IF a \in due THEN signal[a] ELSE shown[a]]
      /\ ticking' = (awaited # {})
    BY <1>1
<1>3. due \subseteq Agent
    BY DEF TypeOK, DueIn
<1>4. \A a \in awaited : a \in due /\ files[a] # NoFile
    BY DEF NeedsRun
<1> HIDE DEF due, awaited
<1>5. signal \in [Agent -> Signal] /\ run \in [Sweep -> [Agent -> Prints]] /\ runnable \subseteq Agent
    BY DEF TypeOK, Prints
<1>6. \A t \in Sweep, a \in Agent :
        run'[t][a] = IF t = s /\ a \in awaited THEN signal[a] ELSE Nothing
    BY <1>2, <1>5 DEF Quiet
<1>7. TypeOK'
  <2>1. file' \in [Agent -> File \cup {NoFile}]
    <3>1. \A a \in Agent : Ticked(a) \in File
        BY <1>5 DEF Ticked, File, Prints
    <3> QED
        BY <1>2, <3>1 DEF Files
  <2>2. run' \in [Sweep -> [Agent -> Prints]]
    <3>1. [a \in Agent |-> IF a \in awaited THEN signal[a] ELSE Nothing] \in [Agent -> Prints]
        BY <1>5 DEF Prints
    <3> QED
        BY <1>2, <1>5, <3>1
  <2>3. shown' \in [Agent -> Prints]
    BY <1>2, <1>5 DEF TypeOK, Prints
  <2>4. up' \in BOOLEAN /\ ticking' \in BOOLEAN
    BY <1>2
  <2>5. registered' \subseteq Agent /\ waking' \subseteq Agent /\ runnable' \subseteq Agent
    BY <1>2, <1>5
  <2> QED
    BY <2>1, <2>2, <2>3, <2>4, <2>5 DEF TypeOK, File, Prints
<1>8. Flag'
    BY <1>2, <1>6 DEF Flag
<1>9. OneSweep'
    BY <1>6 DEF OneSweep
<1>10. Looked'
  <2> SUFFICES ASSUME NEW t \in Sweep, NEW a \in Agent, run'[t][a] # Nothing
               PROVE  shown'[a] = run'[t][a] /\ file'[a] # NoFile
    BY DEF Looked
  <2>1. t = s /\ a \in awaited /\ run'[t][a] = signal[a]
    BY <1>6
  <2>2. shown'[a] = signal[a]
    BY <1>2, <1>4, <2>1
  <2>3. file'[a] = files[a]
    BY <1>2, <2>1
  <2> QED
    BY <1>4, <2>1, <2>2, <2>3
<1>11. NoChangeSwallowed'
  <2> SUFFICES ASSUME NEW a \in Agent, file'[a] # NoFile, ~InTick(a)'
               PROVE  file'[a].print \in {shown'[a], Nothing}
    BY DEF NoChangeSwallowed
  <2>1. a \notin awaited
    <3> SUFFICES ASSUME a \in awaited PROVE FALSE
        OBVIOUS
    <3>1. run'[s][a] = signal[a] /\ signal[a] # Nothing
        BY <1>5, <1>6
    <3> QED
        BY <3>1 DEF InTick
  <2>2. CASE a \in due
    BY <1>2, <2>1, <2>2 DEF Ticked
  <2>3. CASE a \notin due
    BY <1>2, <2>3 DEF Known
  <2> QED
    BY <2>2, <2>3
<1> QED
    BY <1>7, <1>8, <1>9, <1>10, <1>11 DEF IInv

\* Without the flag nothing is in flight, and the files are as they were shown.
LEMMA FlagDown ==
    ASSUME IInv, ~ticking \/ ~up
    PROVE  Quiet /\ Known(file)
<1>1. Quiet
    BY DEF IInv, Flag, Quiet
<1> QED
    BY <1>1 DEF IInv, NoChangeSwallowed, InTick, Quiet, Known

\* markDue writes a file of the right shape and keeps its fingerprint.
LEMMA MarkKeeps ==
    ASSUME IInv, NEW a \in Agent
    PROVE  /\ MarkedDue(a) \in Files
           /\ \A b \in Agent : MarkedDue(a)[b] # NoFile =>
                 MarkedDue(a)[b].print = Nothing
                 \/ (file[b] # NoFile /\ MarkedDue(a)[b].print = file[b].print)
           /\ \A b \in Agent : file[b] # NoFile => MarkedDue(a)[b] # NoFile
<1> USE HeartbeatAssumption
<1>1. file \in Files
    BY DEF IInv, TypeOK, Files, File, Prints
<1>2. [print |-> IF file[a] = NoFile THEN Nothing ELSE file[a].print, due |-> TRUE] \in File
    BY <1>1 DEF Files, File, Prints
<1>3. MarkedDue(a) = [file EXCEPT ![a] =
         [print |-> IF file[a] = NoFile THEN Nothing ELSE file[a].print, due |-> TRUE]]
    BY <1>1 DEF MarkedDue, Files
<1>4. NoFile \notin File
    BY DEF File, Prints
<1>5. MarkedDue(a) \in Files
    BY <1>1, <1>2, <1>3 DEF Files
<1>6. \A b \in Agent \ {a} : MarkedDue(a)[b] = file[b]
    BY <1>1, <1>3 DEF Files
<1>7. /\ MarkedDue(a)[a] \in File
      /\ MarkedDue(a)[a].print = IF file[a] = NoFile THEN Nothing ELSE file[a].print
    BY <1>1, <1>2, <1>3 DEF Files
<1> QED
    BY <1>4, <1>5, <1>6, <1>7

\* A wake over a flag that is down, as a sweep over the marked file.
LEMMA WakeKeeps ==
    ASSUME IInv, NEW s \in Sweep, NEW a \in Agent, Wake(s, a)
    PROVE  IInv'
<1> USE HeartbeatAssumption
<1>1. up /\ up' = TRUE /\ UNCHANGED <<signal, runnable, crashes>>
    BY DEF Wake, IInv, TypeOK
<1>2. MarkedDue(a) \in Files
    BY MarkKeeps
<1>3. \A b \in Agent : MarkedDue(a)[b] # NoFile =>
         MarkedDue(a)[b].print = Nothing
         \/ (file[b] # NoFile /\ MarkedDue(a)[b].print = file[b].print)
    BY MarkKeeps
<1>4. \A b \in Agent : file[b] # NoFile => MarkedDue(a)[b] # NoFile
    BY MarkKeeps
<1>5. CASE a \notin registered
  <2>1. waking' = waking \ {a} /\ UNCHANGED <<registered, file, ticking, run, shown, signal, runnable, crashes, up>>
    BY <1>5 DEF Wake
  <2>2. TypeOK'
    BY <2>1 DEF IInv, TypeOK
  <2> QED
    BY <2>1, <2>2 DEF IInv, Flag, OneSweep, Looked, NoChangeSwallowed, InTick
<1>6. CASE a \in registered /\ ticking
  <2>1. /\ waking' = waking \ {a} /\ file' = MarkedDue(a)
        /\ UNCHANGED <<registered, ticking, run, shown, signal, runnable, crashes, up>>
    BY <1>6 DEF Wake
  <2>2. TypeOK'
    BY <1>2, <2>1 DEF IInv, TypeOK, Files, File, Prints
  <2>3. Flag' /\ OneSweep'
    BY <2>1 DEF IInv, Flag, OneSweep
  <2>4. Looked'
    BY <1>4, <2>1 DEF IInv, Looked
  <2>5. NoChangeSwallowed'
    BY <1>3, <2>1 DEF IInv, NoChangeSwallowed, InTick
  <2> QED
    BY <2>2, <2>3, <2>4, <2>5 DEF IInv
<1>7. CASE a \in registered /\ ~ticking
  <2>1. Sweeps(s, MarkedDue(a), waking \ {a})
    BY <1>7 DEF Wake
  <2>2. Quiet /\ Known(file)
    BY <1>7, FlagDown
  <2>3. Known(MarkedDue(a))
    BY <1>3, <2>2 DEF Known
  <2>4. TypeOK /\ waking \ {a} \in SUBSET Agent
    BY DEF IInv, TypeOK
  <2> QED
    BY <1>1, <1>2, <2>1, <2>2, <2>3, <2>4, SweepKeeps
<1> QED
    BY <1>5, <1>6, <1>7

\* The end of a run: what it saves is what its agent was shown.
LEMMA RunEndsKeeps ==
    ASSUME IInv, NEW s \in Sweep, NEW a \in Agent, RunEnds(s, a)
    PROVE  IInv'
<1> USE HeartbeatAssumption
<1>1. /\ run[s][a] # Nothing /\ up
      /\ file' = [file EXCEPT ![a] = Saved(s, a)]
      /\ run' = [run EXCEPT ![s][a] = Nothing]
      /\ ticking' = StillTicking(s, a)
      /\ UNCHANGED <<up, signal, runnable, registered, waking, shown, crashes>>
    BY DEF RunEnds
<1>2. /\ run \in [Sweep -> [Agent -> Prints]] /\ file \in Files
      /\ signal \in [Agent -> Signal] /\ shown \in [Agent -> Prints]
    BY DEF IInv, TypeOK, Prints, Files, File
<1>3. Saved(s, a) \in File /\ Saved(s, a).print = run[s][a]
    BY <1>2 DEF Saved, File, Prints
<1>4. \A t \in Sweep, b \in Agent :
        run'[t][b] = IF t = s /\ b = a THEN Nothing ELSE run[t][b]
    BY <1>1, <1>2
<1>5. TypeOK'
  <2>1. file' \in Files
    BY <1>1, <1>2, <1>3 DEF Files
  <2>2. run' \in [Sweep -> [Agent -> Prints]]
    BY <1>1, <1>2 DEF Prints
  <2>3. ticking' \in BOOLEAN
    BY <1>1 DEF StillTicking
  <2> QED
    BY <1>1, <2>1, <2>2, <2>3 DEF IInv, TypeOK, Files, File, Prints
<1>6. Flag'
  <2> SUFFICES ASSUME NEW t \in Sweep, NEW b \in Agent, run'[t][b] # Nothing
               PROVE  ticking' /\ up'
    BY DEF Flag
  <2>1. run[t][b] # Nothing /\ ~(t = s /\ b = a)
    BY <1>4
  <2>2. t = s
    BY <1>1, <2>1 DEF IInv, OneSweep
  <2>3. ticking
    BY <1>1 DEF IInv, Flag
  <2>4. StillTicking(s, a)
    BY <2>1, <2>2, <2>3 DEF StillTicking
  <2> QED
    BY <1>1, <2>4
<1>7. OneSweep'
    BY <1>4 DEF IInv, OneSweep
<1>8. Looked'
  <2> SUFFICES ASSUME NEW t \in Sweep, NEW b \in Agent, run'[t][b] # Nothing
               PROVE  shown'[b] = run'[t][b] /\ file'[b] # NoFile
    BY DEF Looked
  <2>1. run[t][b] # Nothing /\ run'[t][b] = run[t][b] /\ ~(t = s /\ b = a)
    BY <1>4
  <2>2. t = s
    BY <1>1, <2>1 DEF IInv, OneSweep
  <2>3. file'[b] = file[b]
    BY <1>1, <1>2, <2>1, <2>2 DEF Files
  <2> QED
    BY <1>1, <2>1, <2>3 DEF IInv, Looked
<1>9. NoChangeSwallowed'
  <2> SUFFICES ASSUME NEW b \in Agent, file'[b] # NoFile, ~InTick(b)'
               PROVE  file'[b].print \in {shown'[b], Nothing}
    BY DEF NoChangeSwallowed
  <2>1. CASE b = a
    <3>1. file'[b].print = run[s][a]
        BY <1>1, <1>2, <1>3, <2>1 DEF Files
    <3>2. shown[a] = run[s][a]
        BY <1>1 DEF IInv, Looked
    <3> QED
        BY <1>1, <2>1, <3>1, <3>2
  <2>2. CASE b # a
    <3>1. file'[b] = file[b]
        BY <1>1, <1>2, <2>2 DEF Files
    <3>2. ~InTick(b)
        BY <1>4, <2>2 DEF InTick
    <3> QED
        BY <1>1, <3>1, <3>2 DEF IInv, NoChangeSwallowed
  <2> QED
    BY <2>1, <2>2
<1> QED
    BY <1>5, <1>6, <1>7, <1>8, <1>9 DEF IInv

\* A crash takes back what the runs it cut off were shown.
LEMMA CrashKeeps ==
    ASSUME IInv, Crash
    PROVE  IInv'
<1> USE HeartbeatAssumption
<1>1. /\ up' = FALSE /\ ticking' = FALSE /\ registered' = {} /\ waking' = {}
      /\ crashes < MaxCrashes /\ crashes' = crashes + 1
      /\ run' = [s \in Sweep |-> Idle]
      /\ shown' = [a \in Agent |-> IF InTick(a) THEN file[a].print ELSE shown[a]]
      /\ UNCHANGED <<signal, runnable, file>>
    BY DEF Crash
<1>2. \A s \in Sweep, a \in Agent : run'[s][a] = Nothing
    BY <1>1 DEF Idle
<1>3. \A a \in Agent : InTick(a) => file[a] # NoFile
    BY DEF IInv, Looked, InTick
<1>4. TypeOK'
  <2>1. run' \in [Sweep -> [Agent -> Prints]]
    <3>1. Idle \in [Agent -> Prints]
        BY DEF Idle, Prints
    <3> QED
        BY <1>1, <3>1
  <2>2. shown' \in [Agent -> Prints]
    <3>1. file \in Files /\ shown \in [Agent -> Prints]
        BY DEF IInv, TypeOK, Files, File, Prints
    <3>2. \A a \in Agent : InTick(a) => file[a].print \in Prints
        BY <1>3, <3>1 DEF Files, File
    <3> QED
        BY <1>1, <3>1, <3>2
  <2>3. crashes' \in 0..MaxCrashes
    BY <1>1 DEF IInv, TypeOK
  <2> QED
    BY <1>1, <2>1, <2>2, <2>3 DEF IInv, TypeOK, Prints
<1>5. Flag' /\ OneSweep' /\ Looked'
    BY <1>2 DEF Flag, OneSweep, Looked
<1>6. NoChangeSwallowed'
    BY <1>1 DEF IInv, NoChangeSwallowed
<1> QED
    BY <1>4, <1>5, <1>6 DEF IInv

\* The invariant is inductive.
LEMMA StepInv == IInv /\ [Next]_vars => IInv'
<1> SUFFICES ASSUME IInv, [Next]_vars PROVE IInv'
    OBVIOUS
<1> USE HeartbeatAssumption
<1>1. TypeOK /\ file \in Files
    BY DEF IInv, TypeOK, Files, File, Prints
<1>2. ASSUME NEW s \in Sweep, Minute(s) PROVE IInv'
  <2>1. up' = TRUE /\ ~ticking /\ UNCHANGED <<signal, runnable, crashes>> /\ Sweeps(s, file, waking)
    BY <1>1, <1>2 DEF Minute, TypeOK
  <2>2. Quiet /\ Known(file)
    BY <2>1, FlagDown
  <2>3. waking \in SUBSET Agent
    BY <1>1 DEF TypeOK
  <2> QED
    BY <1>1, <2>1, <2>2, <2>3, SweepKeeps
<1>3. ASSUME NEW s \in Sweep, Start(s) PROVE IInv'
  <2>1. up' = TRUE /\ ~up /\ UNCHANGED <<signal, runnable, crashes>> /\ Sweeps(s, file, {})
    BY <1>3 DEF Start
  <2>2. Quiet /\ Known(file)
    BY <2>1, FlagDown
  <2>3. {} \in SUBSET Agent
    OBVIOUS
  <2> QED
    BY <1>1, <2>1, <2>2, <2>3, SweepKeeps
<1>4. ASSUME NEW s \in Sweep, NEW a \in Agent, Wake(s, a) PROVE IInv'
    BY <1>4, WakeKeeps
<1>5. ASSUME NEW s \in Sweep, NEW a \in Agent, RunEnds(s, a) PROVE IInv'
    BY <1>5, RunEndsKeeps
<1>6. ASSUME NEW a \in Agent, Change(a) \/ Call(a) \/ Toggle(a) PROVE IInv'
  <2>1. UNCHANGED <<up, registered, file, ticking, run, shown, crashes>>
    BY <1>6 DEF Change, Call, Toggle
  <2>2. signal' \in [Agent -> Signal] /\ waking' \subseteq Agent /\ runnable' \subseteq Agent
    BY <1>1, <1>6 DEF TypeOK, Change, Call, Toggle
  <2>3. TypeOK'
    BY <1>1, <2>1, <2>2 DEF TypeOK
  <2> QED
    BY <2>1, <2>3 DEF IInv, Flag, OneSweep, Looked, NoChangeSwallowed, InTick
<1>7. ASSUME NEW a \in Agent, TimePasses(a) PROVE IInv'
  <2>1. /\ file[a] # NoFile /\ file' = [file EXCEPT ![a].due = TRUE]
        /\ UNCHANGED <<up, signal, runnable, registered, waking, ticking, run, shown, crashes>>
    BY <1>7 DEF TimePasses
  <2>2. file' \in Files /\ \A b \in Agent : file[b] # NoFile =>
            file'[b] # NoFile /\ file'[b].print = file[b].print
    BY <1>1, <2>1 DEF Files, File, Prints
  <2>3. \A b \in Agent : file'[b] # NoFile => file[b] # NoFile
    BY <1>1, <2>1 DEF Files
  <2>4. TypeOK'
    BY <1>1, <2>1, <2>2 DEF TypeOK, Files, File, Prints
  <2> QED
    BY <2>1, <2>2, <2>3, <2>4 DEF IInv, Flag, OneSweep, Looked, NoChangeSwallowed, InTick
<1>8. CASE Crash
    BY <1>8, CrashKeeps
<1>9. CASE UNCHANGED vars
    BY <1>9 DEF vars, IInv, TypeOK, Flag, OneSweep, Looked, NoChangeSwallowed, InTick
<1> QED
    BY <1>2, <1>3, <1>4, <1>5, <1>6, <1>7, <1>8, <1>9 DEF Next

\* The invariant holds in every reachable state.
LEMMA Invariance == Spec => []IInv
<1> QED
    BY InitInv, StepInv, PTL DEF Spec

-----------------------------------------------------------------------------
\* The heartbeats are type correct, for any agents and any number of sweeps.
THEOREM TypeCorrect == Spec => []TypeOK
<1>1. IInv => TypeOK
    BY DEF IInv
<1> QED
    BY <1>1, Invariance, PTL

\* However many sweeps the interval, the wakes and a start set off, an agent
\* never thinks twice at the same time (outerTick's flag).
THEOREM NeverTwice == Spec => []OneTickPerAgent
<1>1. IInv => OneTickPerAgent
    BY DEF IInv, OneSweep, OneTickPerAgent
<1> QED
    BY <1>1, Invariance, PTL

\* The fingerprint saved is the one last looked at: a change during a tick is
\* still a change for the next one (AgentHeartbeatScheduler.tick).
THEOREM ChangesSurvive == Spec => []NoChangeSwallowed
<1>1. IInv => NoChangeSwallowed
    BY DEF IInv
<1> QED
    BY <1>1, Invariance, PTL
-----------------------------------------------------------------------------
\* While the flag is up a run is in flight, whose end takes it down or leaves
\* it to another; while it is down nothing is, and the interval may sweep.
SweepsGoOn ==
    up => IF ticking THEN \E s \in Sweep, a \in Agent : run[s][a] # Nothing
                     ELSE \A s \in Sweep : run[s] = Idle

\* Somebody answers for the flag.
FlagHeld == ticking => \E s \in Sweep, a \in Agent : run[s][a] # Nothing

\* A sweep puts the flag up for the runs it awaits.
LEMMA SweepHolds ==
    ASSUME TypeOK, NEW s \in Sweep, NEW files, NEW timers, Sweeps(s, files, timers)
    PROVE  FlagHeld'
<1>1. PICK awaited \in SUBSET Agent :
        /\ run' = [run EXCEPT ![s] = [a \in Agent |-> IF a \in awaited THEN signal[a] ELSE Nothing]]
        /\ ticking' = (awaited # {})
  <2>1. runnable \subseteq Agent
    BY DEF TypeOK
  <2>2. PICK early \in SUBSET Agent :
          LET due == DueIn(files, early)
              awaited == {a \in due : NeedsRun(files[a], a)}
          IN  /\ run' = [run EXCEPT ![s] =
                           [a \in Agent |-> IF a \in awaited THEN signal[a] ELSE Nothing]]
              /\ ticking' = (awaited # {})
    BY DEF Sweeps
  <2>3. {a \in DueIn(files, early) : NeedsRun(files[a], a)} \subseteq Agent
    BY <2>1 DEF DueIn
  <2> QED
    BY <2>2, <2>3
<1>2. ASSUME NEW a \in awaited PROVE run'[s][a] # Nothing
    BY <1>1, <1>2, HeartbeatAssumption DEF TypeOK
<1> QED
    BY <1>1, <1>2 DEF FlagHeld

\* Every step that puts the flag up, or leaves it up, leaves a run in flight.
LEMMA StepHolds == IInv /\ FlagHeld /\ [Next]_vars => FlagHeld'
<1> SUFFICES ASSUME IInv, FlagHeld, [Next]_vars PROVE FlagHeld'
    OBVIOUS
<1>1. TypeOK
    BY DEF IInv
<1>2. ASSUME UNCHANGED <<ticking, run>> PROVE FlagHeld'
    BY <1>2 DEF FlagHeld
<1>3. ASSUME NEW s \in Sweep, Minute(s) \/ Start(s) PROVE FlagHeld'
    BY <1>1, <1>3, SweepHolds DEF Minute, Start
<1>4. ASSUME NEW s \in Sweep, NEW a \in Agent, Wake(s, a) PROVE FlagHeld'
    BY <1>1, <1>2, <1>4, SweepHolds DEF Wake
<1>5. ASSUME NEW s \in Sweep, NEW a \in Agent, RunEnds(s, a) PROVE FlagHeld'
  <2>1. run' = [run EXCEPT ![s][a] = Nothing] /\ ticking' = StillTicking(s, a)
    BY <1>5 DEF RunEnds
  <2> SUFFICES ASSUME ticking' PROVE \E t \in Sweep, b \in Agent : run'[t][b] # Nothing
    BY DEF FlagHeld
  <2>2. PICK b \in Agent \ {a} : run[s][b] # Nothing
    BY <2>1 DEF StillTicking
  <2>3. run'[s][b] = run[s][b]
    BY <1>1, <2>1 DEF TypeOK
  <2> QED
    BY <2>2, <2>3
<1>6. CASE Crash
    BY <1>6 DEF Crash, FlagHeld
<1>7. ASSUME NEW a \in Agent, Change(a) \/ Call(a) \/ Toggle(a) \/ TimePasses(a) PROVE FlagHeld'
    BY <1>2, <1>7 DEF Change, Call, Toggle, TimePasses
<1> QED
    BY <1>2, <1>3, <1>4, <1>5, <1>6, <1>7 DEF Next, vars

\* The heartbeats never stop for good: the flag that keeps sweeps apart is never
\* left up by wakes, sweeps that await nothing, runs that end in any order and
\* restarts, and when it is down the next minute sweeps (outerTick's finally).
THEOREM FlagComesDown == Spec => []SweepsGoOn
<1>1. Init => FlagHeld
    BY DEF Init, FlagHeld
<1>2. IInv /\ FlagHeld => SweepsGoOn
  <2> SUFFICES ASSUME IInv, FlagHeld, ~ticking, NEW s \in Sweep PROVE run[s] = Idle
    BY DEF SweepsGoOn, FlagHeld
  <2>1. \A a \in Agent : run[s][a] = Nothing
    BY FlagDown DEF Quiet
  <2>2. run[s] \in [Agent -> Signal \cup {Nothing}]
    BY DEF IInv, TypeOK
  <2> QED
    BY <2>1, <2>2 DEF Idle
<1> QED
    BY <1>1, <1>2, StepHolds, Invariance, PTL DEF Spec
=============================================================================
