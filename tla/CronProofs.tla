----------------------------- MODULE CronProofs -----------------------------
(***************************************************************************)
(* The table of cron timers is consistent for every set of jobs, however   *)
(* they are chained and whoever edits, disables or reloads them.           *)
(***************************************************************************)
EXTENDS CronJob, FiniteSetTheorems, SequenceTheorems, TLAPS

\* A timer belongs to a job that is neither chained nor switched off.  What the
\* reload keeps in memory has the chains of the file it was read from, so that
\* the timers can be judged from memory alone, long after the file changed.
TimersFollowTable ==
    /\ TimersAreDefined
    /\ \A j \in Job : IsOn(loaded[j]) => ~Cycled(loaded, j)

\* The jobs that are on with a valid schedule, not disabled and not chained have
\* a timer, the jobs of the planner excepted.
NobodyForgotten ==
    \A j \in Job : loaded[j] = "on" /\ j \notin disabled =>
        j \in scheduled \/ Parent(loaded, j) # NoJob \/ j \in Planned

-----------------------------------------------------------------------------
\* A job in a circular chain is defined: a missing job has no parent.
LEMMA CycledIsDefined ==
  ASSUME NEW d \in Tables, NEW j \in Job, Cycled(d, j)
  PROVE  d[j] # "absent"
<1>1. Parent(d, j) \in Job
  BY DEF Cycled
<1> QED
  BY <1>1, ScheduleAssumption DEF Parent

\* The parser and the cycle detection neither add nor remove a job.
LEMMA LoadedDefines ==
  ASSUME NEW d \in Tables
  PROVE  /\ Loaded(d) \in [Job -> {"absent", "off", "on", "bad"}]
         /\ \A j \in Job : Loaded(d)[j] = "absent" <=> d[j] = "absent"
         /\ \A j \in Job : Loaded(d)[j] = "on" => Timed(d[j])
         /\ \A j \in Job : IsOn(Loaded(d)[j]) => IsOn(d[j]) /\ ~Cycled(d, j)
<1>1. ASSUME NEW j \in Job
      PROVE  /\ Loaded(d)[j] \in {"absent", "off", "on", "bad"}
             /\ Loaded(d)[j] = "absent" <=> d[j] = "absent"
             /\ Loaded(d)[j] = "on" => Timed(d[j])
             /\ IsOn(Loaded(d)[j]) => IsOn(d[j]) /\ ~Cycled(d, j)
  <2>1. d[j] \in Definition
    BY DEF Tables
  <2>2. Cycled(d, j) => d[j] # "absent"
    BY CycledIsDefined
  <2> HIDE DEF Cycled
  <2> QED
    BY <2>1, <2>2 DEF Loaded, IsOn, Timed, Definition
<1> QED
  BY <1>1 DEF Loaded

\* The chains of the table in memory are those of the file.
LEMMA LoadedChains ==
  ASSUME NEW d \in Tables
  PROVE  /\ \A j \in Job : Parent(Loaded(d), j) = Parent(d, j)
         /\ \A j \in Job : Cycled(Loaded(d), j) <=> Cycled(d, j)
<1>1. ASSUME NEW j \in Job PROVE Parent(Loaded(d), j) = Parent(d, j)
  <2>1. After[j] # NoJob => After[j] \in Job
    BY ScheduleAssumption
  <2> QED
    BY <2>1, LoadedDefines DEF Parent
<1> QED
  BY <1>1 DEF Cycled

-----------------------------------------------------------------------------
\* Every rebuild of the table leaves well-formed timers, whatever stays disabled.
LEMMA RebuildIsSound ==
  ASSUME file \in Tables, NEW off \in SUBSET Job,
         loaded' = Loaded(file), scheduled' = Schedulable(file, off)
  PROVE  TimersFollowTable'
<1>1. ASSUME NEW j \in Schedulable(file, off)
      PROVE  Loaded(file)[j] = "on" /\ Parent(Loaded(file), j) = NoJob
  <2>1. j \in Job /\ Timed(file[j]) /\ Parent(file, j) = NoJob
    BY DEF Schedulable
  <2>2. ~Cycled(file, j)
    BY <2>1, ScheduleAssumption DEF Cycled
  <2> QED
    BY <2>1, <2>2, LoadedChains DEF Loaded, Timed
<1>2. ASSUME NEW j \in Job, IsOn(Loaded(file)[j]) PROVE ~Cycled(Loaded(file), j)
  BY <1>2, LoadedDefines, LoadedChains
<1> QED
  BY <1>1, <1>2 DEF TimersFollowTable, TimersAreDefined, Parent, Cycled, IsOn

\* Every rebuild gives its timer to each job that is on and may have one.
LEMMA RebuildIsComplete ==
  ASSUME file \in Tables, NEW off \in SUBSET Job, disabled' = off,
         loaded' = Loaded(file), scheduled' = Schedulable(file, off)
  PROVE  NobodyForgotten' /\ DisabledHasNoTimer'
<1>1. ASSUME NEW j \in Job, Loaded(file)[j] = "on", j \notin off,
             Parent(Loaded(file), j) = NoJob
      PROVE  j \in Schedulable(file, off)
  BY <1>1, LoadedDefines, LoadedChains DEF Schedulable
<1>2. off \cap Schedulable(file, off) = {}
  BY DEF Schedulable
<1> QED
  BY <1>1, <1>2 DEF NobodyForgotten, DisabledHasNoTimer, Parent
-----------------------------------------------------------------------------
\* The invariant that is inductive whatever the planner suggests.
TableIInv == TableTypeOK /\ TimersFollowTable

\* The first load gives a timer to nobody but unchained jobs that are on.
LEMMA TableInitIInv == TableInit => TableIInv
<1> SUFFICES ASSUME TableInit PROVE TableIInv
  OBVIOUS
<1>1. file \in Tables
  BY DEF TableInit
<1>2. TableTypeOK
  BY <1>1, LoadedDefines DEF TableInit, TableTypeOK, WatchedAtStart, Schedulable
<1>3. TimersAreDefined
  <2> SUFFICES ASSUME NEW j \in scheduled
               PROVE  loaded[j] = "on" /\ Parent(loaded, j) = NoJob
    BY DEF TimersAreDefined
  <2>1. j \in Job /\ Timed(file[j]) /\ Parent(file, j) = NoJob
    BY DEF TableInit, Schedulable
  <2>2. ~Cycled(file, j)
    BY <2>1, ScheduleAssumption DEF Cycled
  <2> QED
    BY <1>1, <2>1, <2>2, LoadedChains DEF TableInit, Loaded, Timed
<1>4. \A j \in Job : IsOn(loaded[j]) => ~Cycled(loaded, j)
  BY <1>1, LoadedDefines, LoadedChains DEF TableInit
<1> QED
  BY <1>2, <1>3, <1>4 DEF TableIInv, TimersFollowTable

\* A reload, from whatever set of disabled jobs, keeps the invariant.
LEMMA ReloadStep ==
  ASSUME TableIInv, NEW off \in SUBSET Job, ReloadWith(off), stale' \in BOOLEAN
  PROVE  TableIInv'
<1>1. file \in Tables /\ KeptDisabled(file, off) \in SUBSET Job
  BY DEF TableIInv, TableTypeOK, KeptDisabled
<1>2. TimersFollowTable'
  BY <1>1, RebuildIsSound DEF ReloadWith
<1>3. TableTypeOK'
  BY <1>1, LoadedDefines DEF TableIInv, TableTypeOK, ReloadWith, Schedulable
<1> QED
  BY <1>2, <1>3 DEF TableIInv

\* A restart reads the files afresh and has forgotten what was disabled.
LEMMA RestartStep == ASSUME TableIInv, Restart PROVE TableIInv'
<1>1. file \in Tables /\ {} \in SUBSET Job
  BY DEF TableIInv, TableTypeOK
<1>2. TimersFollowTable'
  BY <1>1, RebuildIsSound DEF Restart
<1>3. TableTypeOK'
  BY <1>1, LoadedDefines DEF TableIInv, TableTypeOK, Restart, WatchedAtStart, Schedulable
<1> QED
  BY <1>2, <1>3 DEF TableIInv

\* A step that leaves the table in memory alone and gives nobody a timer.
LEMMA QuietStep ==
  ASSUME TableIInv, loaded' = loaded, scheduled' \subseteq scheduled, TableTypeOK'
  PROVE  TableIInv'
<1>1. \A j \in Job : Parent(loaded, j)' = Parent(loaded, j)
  BY DEF Parent
<1>2. \A j \in Job : Cycled(loaded, j)' <=> Cycled(loaded, j)
  BY <1>1 DEF Cycled
<1> QED
  BY <1>1, <1>2 DEF TableIInv, TableTypeOK, TimersFollowTable, TimersAreDefined

\* No operation on the table of jobs breaks the invariant.
LEMMA TableNextIInv == TableIInv /\ [TableNext]_tableVars => TableIInv'
<1> SUFFICES ASSUME TableIInv, [TableNext]_tableVars PROVE TableIInv'
  OBVIOUS
<1> USE DEF TableIInv, TableTypeOK
<1>1. CASE Reload
  BY <1>1, ReloadStep DEF Reload
<1>2. CASE AgentsDirChanges
  BY <1>2, QuietStep DEF AgentsDirChanges
<1>3. CASE ListJobs
  BY <1>3, ReloadStep DEF ListJobs
<1>4. CASE Restart
  BY <1>4, RestartStep
<1>5. ASSUME NEW j \in Job, NEW v \in Definition, file' = [file EXCEPT ![j] = v],
             j \in Registry => v \in {"absent", "off", "on"}
      PROVE  file' \in Tables
  <2>1. file' \in [Job -> Definition]
    BY <1>5 DEF Tables
  <2>2. ASSUME NEW i \in Registry PROVE file'[i] \in {"absent", "off", "on"}
    BY <1>5, <2>2, ScheduleAssumption DEF Tables
  <2> QED
    BY <2>1, <2>2 DEF Tables
<1>6. ASSUME NEW j \in Job, Toggle(j) \/ AddOrRemove(j) \/ SetSchedule(j) PROVE TableIInv'
  <2>1. PICK v \in Definition : /\ file' = [file EXCEPT ![j] = v]
                                /\ j \in Registry => v \in {"absent", "off", "on"}
    BY <1>6 DEF Toggle, AddOrRemove, SetSchedule, Edit, Definition
  <2>2. UNCHANGED <<loaded, disabled, scheduled, watched>> /\ stale' \in BOOLEAN
    BY <1>6 DEF Toggle, AddOrRemove, SetSchedule, Edit
  <2>3. file' \in Tables
    BY <1>5, <2>1
  <2> QED
    BY <2>2, <2>3, QuietStep
<1>7. ASSUME NEW j \in Job, DisableJob(j) PROVE TableIInv'
  BY <1>7, QuietStep DEF DisableJob
<1>8. ASSUME NEW j \in Job, EnableJob(j) PROVE TableIInv'
  BY <1>8, ReloadStep DEF EnableJob
<1>9. ASSUME NEW j \in Job, AutoDisable(j) PROVE TableIInv'
  BY <1>9, QuietStep DEF AutoDisable
<1>10. ASSUME NEW j \in Job, SuggestDisable(j) \/ SuggestEnable(j) PROVE TableIInv'
  BY <1>10, QuietStep DEF SuggestDisable, SuggestEnable
<1>11. CASE UNCHANGED tableVars
  BY <1>11, QuietStep DEF tableVars
<1> QED
  BY <1>1, <1>2, <1>3, <1>4, <1>6, <1>7, <1>8, <1>9, <1>10, <1>11 DEF TableNext, TableOperation

\* The strengthened invariant holds of every reachable table.
LEMMA TableInductive == TableSpec => []TableIInv
<1> QED
  BY TableInitIInv, TableNextIInv, PTL DEF TableSpec

\* The table of jobs and timers is always well formed.
THEOREM TableTypeCorrect == TableSpec => []TableTypeOK
<1>1. TableIInv => TableTypeOK
  BY DEF TableIInv
<1> QED
  BY <1>1, TableInductive, PTL

\* However the jobs are chained, edited and disabled, a live timer belongs to a
\* job that is on and that no other job triggers.
THEOREM OnlyDefinedTimers == TableSpec => []TimersAreDefined
<1>1. TableIInv => TimersAreDefined
  BY DEF TableIInv, TimersFollowTable
<1> QED
  BY <1>1, TableInductive, PTL

-----------------------------------------------------------------------------
\* But for the jobs the planner may name, the timers agree with disabledJobs.
AgreesWithDisabled == NobodyForgotten /\ DisabledHasNoTimer

\* Chat commands, edits, reloads, restarts, the auto-disable and suggestions
\* keep the timers in agreement with disabledJobs.
LEMMA NextAgrees ==
  ASSUME TableIInv, AgreesWithDisabled, [TableNext]_tableVars
  PROVE  AgreesWithDisabled'
<1> USE DEF TableIInv, TableTypeOK, AgreesWithDisabled
<1>1. file \in Tables /\ \A off \in SUBSET Job : KeptDisabled(file, off) \in SUBSET Job
  BY DEF KeptDisabled
<1>2. ASSUME NEW off \in SUBSET Job, ReloadWith(off) PROVE AgreesWithDisabled'
  BY <1>1, <1>2, RebuildIsComplete DEF ReloadWith
<1>3. ASSUME NEW j \in Job, loaded' = loaded,
             disabled' = disabled \cup {j}, scheduled' = scheduled \ {j}
      PROVE  AgreesWithDisabled'
  BY <1>3 DEF NobodyForgotten, DisabledHasNoTimer, Parent
<1>4. ASSUME UNCHANGED <<loaded, disabled, scheduled>> PROVE AgreesWithDisabled'
  BY <1>4 DEF NobodyForgotten, DisabledHasNoTimer, Parent
<1>5. CASE Reload \/ ListJobs
  BY <1>2, <1>5 DEF Reload, ListJobs
<1>6. CASE Restart
  BY <1>1, <1>6, RebuildIsComplete DEF Restart
<1>7. ASSUME NEW j \in Job, EnableJob(j) PROVE AgreesWithDisabled'
  BY <1>2, <1>7 DEF EnableJob
<1>8. ASSUME NEW j \in Job, DisableJob(j) \/ AutoDisable(j) PROVE AgreesWithDisabled'
  BY <1>3, <1>8 DEF DisableJob, AutoDisable
<1>9. ASSUME NEW j \in Job, Toggle(j) \/ AddOrRemove(j) \/ SetSchedule(j)
      PROVE  AgreesWithDisabled'
  BY <1>4, <1>9 DEF Toggle, AddOrRemove, SetSchedule, Edit
<1>10. CASE AgentsDirChanges \/ UNCHANGED tableVars
  BY <1>4, <1>10 DEF AgentsDirChanges, tableVars
<1>11. ASSUME NEW j \in Job, SuggestDisable(j) \/ SuggestEnable(j)
       PROVE  AgreesWithDisabled'
  BY <1>11 DEF SuggestDisable, SuggestEnable, NobodyForgotten, DisabledHasNoTimer, Parent
<1> QED
  BY <1>5, <1>6, <1>7, <1>8, <1>9, <1>10, <1>11 DEF TableNext, TableOperation

\* At the first load nothing is disabled and every eligible job has its timer.
LEMMA InitAgrees == TableInit => AgreesWithDisabled
<1> SUFFICES ASSUME TableInit PROVE AgreesWithDisabled
  OBVIOUS
<1>1. file \in Tables
  BY DEF TableInit
<1>2. ASSUME NEW j \in Job, loaded[j] = "on", Parent(loaded, j) = NoJob
      PROVE  j \in scheduled
  BY <1>1, <1>2, LoadedDefines, LoadedChains DEF TableInit, Schedulable
<1> QED
  BY <1>2 DEF TableInit, AgreesWithDisabled, NobodyForgotten, DisabledHasNoTimer

\* The timers agree with disabledJobs in every reachable state.
LEMMA AgreesAlways == TableSpec => []AgreesWithDisabled
<1>1. TableIInv /\ AgreesWithDisabled /\ [TableNext]_tableVars => AgreesWithDisabled'
  BY NextAgrees
<1> QED
  BY <1>1, InitAgrees, TableInductive, PTL DEF TableSpec

\* A disabled job never keeps its timer, whoever disabled it, unless the planner
\* may name it in a suggestion.
THEOREM DisabledStaysQuiet == TableSpec => []DisabledHasNoTimer
<1>1. AgreesWithDisabled => DisabledHasNoTimer
  BY DEF AgreesWithDisabled
<1> QED
  BY <1>1, AgreesAlways, PTL

\* No job that is on dies silently: it has a timer or a parent, waits for the
\* reload after a suggestion, or has a schedule that cron.validate refuses and
\* the reload reports; and no circular chain is above it.
THEOREM NobodyIsStranded == TableSpec => []EnabledJobsCanRun
<1>1. TableIInv /\ AgreesWithDisabled => EnabledJobsCanRun
  BY DEF TableIInv, TableTypeOK, TimersFollowTable, AgreesWithDisabled, NobodyForgotten,
         EnabledJobsCanRun, IsOn
<1> QED
  BY <1>1, TableInductive, AgreesAlways, PTL
-----------------------------------------------------------------------------
\* While CRON.md is watched and no reload is due, memory has the jobs of the file:
\* one that is on is on in the file, and one with a timer is on with a valid
\* schedule.  (Cycles may have switched others off.)
NoEditForgotten ==
  stale \/ ~watched \/
  \A j \in CronMd : /\ loaded[j] = "absent" <=> file[j] = "absent"
                    /\ IsOn(loaded[j]) => IsOn(file[j])
                    /\ j \in scheduled => Timed(file[j])

\* A rebuild reads the file as it is.
LEMMA RebuildReads ==
  ASSUME TableTypeOK, loaded' = Loaded(file), file' = file,
         \A j \in scheduled' : loaded'[j] = "on"
  PROVE  NoEditForgotten'
<1>1. \A j \in Job : /\ loaded'[j] = "absent" <=> file[j] = "absent"
                     /\ IsOn(loaded'[j]) => IsOn(file[j])
                     /\ loaded'[j] = "on" => Timed(file[j])
  BY LoadedDefines DEF TableTypeOK
<1> QED
  BY <1>1 DEF NoEditForgotten, CronMd

\* Every operation on the table reads the whole file, sets stale or leaves both.
LEMMA NextReads ==
  ASSUME TableIInv, TableIInv', NoEditForgotten, [TableNext]_tableVars
  PROVE  NoEditForgotten'
<1> USE DEF TableIInv, TableTypeOK
<1>1. \A j \in scheduled' : loaded'[j] = "on"
  BY DEF TimersFollowTable, TimersAreDefined
<1>2. ASSUME NEW off, ReloadWith(off) PROVE NoEditForgotten'
  BY <1>1, <1>2, RebuildReads DEF ReloadWith
<1>3. ASSUME UNCHANGED <<file, loaded, watched>>, stale' = (stale \/ stale'),
             scheduled' \subseteq scheduled
      PROVE  NoEditForgotten'
  BY <1>3 DEF NoEditForgotten
<1>4. ASSUME NEW j \in Job, Toggle(j) \/ AddOrRemove(j) \/ SetSchedule(j)
      PROVE  NoEditForgotten'
  <2>1. /\ UNCHANGED <<loaded, scheduled, watched>>
        /\ stale' = (stale \/ stale') /\ (j \in CronMd /\ watched => stale')
        /\ \A i \in Job : i # j => file'[i] = file[i]
    BY <1>4 DEF Toggle, AddOrRemove, SetSchedule, Edit, CronMd, Tables
  <2> QED
    BY <2>1 DEF NoEditForgotten, CronMd
<1>5. CASE Reload \/ ListJobs
  BY <1>2, <1>5 DEF Reload, ListJobs
<1>6. CASE Restart
  BY <1>1, <1>6, RebuildReads DEF Restart
<1>7. ASSUME NEW j \in Job, EnableJob(j) PROVE NoEditForgotten'
  BY <1>2, <1>7 DEF EnableJob
<1>8. ASSUME NEW j \in Job,
             DisableJob(j) \/ AutoDisable(j) \/ SuggestDisable(j) \/ SuggestEnable(j)
      PROVE  NoEditForgotten'
  BY <1>3, <1>8 DEF DisableJob, AutoDisable, SuggestDisable, SuggestEnable
<1>9. CASE AgentsDirChanges \/ UNCHANGED tableVars
  BY <1>3, <1>9 DEF AgentsDirChanges, tableVars
<1> QED
  BY <1>4, <1>5, <1>6, <1>7, <1>8, <1>9 DEF TableNext, TableOperation

\* The start reads the file.
LEMMA InitReads == TableInit => NoEditForgotten
<1> SUFFICES ASSUME TableInit PROVE NoEditForgotten
  OBVIOUS
<1>1. file \in Tables
  BY DEF TableInit
<1>2. \A j \in Job : /\ loaded[j] = "absent" <=> file[j] = "absent"
                     /\ IsOn(loaded[j]) => IsOn(file[j])
  BY <1>1, LoadedDefines DEF TableInit
<1>3. \A j \in scheduled : Timed(file[j])
  BY DEF TableInit, Schedulable
<1> QED
  BY <1>2, <1>3 DEF NoEditForgotten, CronMd

\* An edit of a CRON.md that existed at the start is never lost between the
\* watcher and the table, whatever commands, lists and enables reload meanwhile:
\* a job that is off in the file keeps no timer unless the poll is still to come
\* (reloadJobs, watchCronFile).  Of schedules.json, of the files of the agents and
\* of a CRON.md that appeared later the code promises no such thing.
THEOREM EditsAreSeen == TableSpec => []NoEditForgotten
<1>1. TableIInv /\ TableIInv' /\ NoEditForgotten /\ [TableNext]_tableVars => NoEditForgotten'
  BY NextReads
<1> QED
  BY <1>1, InitReads, TableInductive, PTL DEF TableSpec

-----------------------------------------------------------------------------
\* The entries consecutiveErrors counts.
Trailing(l) == {i \in DOMAIN l : IsFailure(l[i]) /\ \A j \in 1..(i - 1) : Transparent(l[j])}

\* A log is a sequence of at most Window entries.
LEMMA LogIsSeq ==
  ASSUME NEW l \in Logs
  PROVE  /\ l \in Seq(EntryKind) /\ Len(l) \in 0..Window /\ DOMAIN l = 1..Len(l)
         /\ \A i \in 1..Len(l) : l[i] \in EntryKind
<1>1. PICK n \in 0..Window : l \in [1..n -> EntryKind]
  BY DEF Logs
<1>2. n \in Nat
  BY <1>1, LogAssumption
<1>3. l \in Seq(EntryKind)
  BY <1>1, <1>2, SeqDef
<1>4. Len(l) = n /\ DOMAIN l = 1..n
  BY <1>1, <1>2, <1>3
<1> QED
  BY <1>1, <1>3, <1>4

\* The new entry comes first, the others follow in their order, and the oldest
\* falls out of a full window.
LEMMA LoggedIs ==
  ASSUME NEW l \in Logs, NEW e \in EntryKind
  PROVE  LET k == IF Len(l) < Window THEN Len(l) + 1 ELSE Window IN
         /\ Logged(l, e) \in Logs
         /\ k \in 1..Window /\ k =< Len(l) + 1
         /\ DOMAIN Logged(l, e) = 1..k
         /\ Logged(l, e)[1] = e
         /\ \A i \in 2..k : Logged(l, e)[i] = l[i - 1]
<1> DEFINE k == IF Len(l) < Window THEN Len(l) + 1 ELSE Window
           m == <<e>> \o l
<1>1. /\ l \in Seq(EntryKind) /\ Len(l) \in 0..Window
      /\ \A i \in 1..Len(l) : l[i] \in EntryKind
  BY LogIsSeq
<1>2. Window \in Nat \ {0}
  BY LogAssumption
<1>3. k \in 1..Window /\ k =< Len(l) + 1
  BY <1>1, <1>2
<1>4. /\ m \in Seq(EntryKind) /\ Len(m) = Len(l) + 1
      /\ m[1] = e
      /\ \A i \in 2..(Len(l) + 1) : m[i] = l[i - 1]
  BY <1>1
<1>5. /\ SubSeq(m, 1, k) \in Seq(EntryKind) /\ Len(SubSeq(m, 1, k)) = k
      /\ \A i \in 1..k : SubSeq(m, 1, k)[i] = m[i]
  BY <1>1, <1>2, <1>3, <1>4
<1>6. DOMAIN SubSeq(m, 1, k) = 1..k /\ SubSeq(m, 1, k) \in [1..k -> EntryKind]
  <2>1. ASSUME NEW q \in Seq(EntryKind), Len(q) = k PROVE DOMAIN q = 1..k /\ q \in [1..k -> EntryKind]
    BY <2>1, LenProperties, ElementOfSeq
  <2> QED
    BY <1>5, <2>1
<1>7. Logged(l, e) = SubSeq(m, 1, k)
  BY DEF Logged
<1>8. Logged(l, e) \in Logs
  BY <1>3, <1>6, <1>7 DEF Logs
<1> QED
  BY <1>3, <1>4, <1>5, <1>6, <1>7, <1>8

\* The count is a natural number.
LEMMA ErrorsAreCounted ==
  ASSUME NEW l \in Logs
  PROVE  IsFiniteSet(Trailing(l)) /\ ConsecutiveErrors(l) = Cardinality(Trailing(l))
         /\ ConsecutiveErrors(l) \in Nat
<1>1. Trailing(l) \in SUBSET (1..Len(l)) /\ Len(l) \in Int /\ 1 \in Int
  BY LogIsSeq, LogAssumption DEF Trailing
<1>2. IsFiniteSet(1..Len(l))
  BY <1>1, FS_Interval
<1>3. IsFiniteSet(Trailing(l))
  BY <1>1, <1>2, FS_Subset
<1> QED
  BY <1>3, FS_CardinalityType DEF ConsecutiveErrors, Trailing

\* An entry that ends a streak leaves nothing to count; another one leaves what
\* was counted before, and a failure adds itself.
LEMMA ErrorsAfter ==
  ASSUME NEW l \in Logs, NEW e \in EntryKind
  PROVE  /\ ~Transparent(e) => ConsecutiveErrors(Logged(l, e)) = 0
         /\ ~IsFailure(e) => ConsecutiveErrors(Logged(l, e)) =< ConsecutiveErrors(l)
         /\ ConsecutiveErrors(Logged(l, e)) =< ConsecutiveErrors(l) + 1
<1> DEFINE k == IF Len(l) < Window THEN Len(l) + 1 ELSE Window
           g == Logged(l, e)
           later == Trailing(g) \ {1}
           f == [i \in later |-> i - 1]
<1>1. /\ g \in Logs /\ k \in 1..Window /\ k =< Len(l) + 1 /\ DOMAIN g = 1..k /\ g[1] = e
      /\ \A i \in 2..k : g[i] = l[i - 1]
  BY LoggedIs
<1>2. Len(l) \in Nat /\ Window \in Nat /\ DOMAIN l = 1..Len(l) /\ k \in Nat
  BY <1>1, LogIsSeq, LogAssumption
<1> HIDE DEF k, g
<1>3. ASSUME NEW i \in later PROVE i \in 2..k /\ i - 1 \in Trailing(l) /\ Transparent(e)
  <2>1. i \in 2..k /\ IsFailure(g[i]) /\ \A j \in 1..(i - 1) : Transparent(g[j])
    BY <1>1, <1>2 DEF Trailing
  <2>2. i - 1 \in 1..Len(l) /\ IsFailure(l[i - 1])
    BY <1>1, <1>2, <2>1
  <2>3. ASSUME NEW j \in 1..((i - 1) - 1) PROVE Transparent(l[j])
    <3>1. j + 1 \in 1..(i - 1) /\ j + 1 \in 2..k /\ (j + 1) - 1 = j
      BY <1>2, <2>1
    <3>2. g[j + 1] = l[j]
      BY <1>1, <3>1
    <3> QED
      BY <2>1, <3>1, <3>2
  <2>4. Transparent(e)
    BY <1>1, <1>2, <2>1
  <2> QED
    BY <1>2, <2>1, <2>2, <2>3, <2>4 DEF Trailing
<1>4. f \in Injection(later, Trailing(l))
  <2>1. f \in [later -> Trailing(l)]
    BY <1>3
  <2>2. ASSUME NEW a \in later, NEW b \in later, f[a] = f[b] PROVE a = b
    <3>1. a \in Int /\ b \in Int /\ a - 1 = b - 1
      BY <1>2, <1>3, <2>2
    <3> QED
      BY <3>1
  <2> QED
    BY <2>1, <2>2 DEF Injection, IsInjective
<1>5. IsFiniteSet(later) /\ Cardinality(later) =< Cardinality(Trailing(l))
  BY <1>4, ErrorsAreCounted, FS_Injection
<1>6. Cardinality(later) \in Nat /\ ConsecutiveErrors(l) \in Nat
      /\ ConsecutiveErrors(l) = Cardinality(Trailing(l))
  BY <1>5, ErrorsAreCounted, FS_CardinalityType
<1>7. ConsecutiveErrors(g) = Cardinality(Trailing(g)) /\ Trailing(g) \subseteq later \cup {1}
      /\ IsFiniteSet(Trailing(g))
  BY <1>1, ErrorsAreCounted
<1>8. IsFailure(e) \/ Trailing(g) = later
  BY <1>1 DEF Trailing
<1>9. CASE ~Transparent(e)
  <2>1. Trailing(g) = {}
    BY <1>3, <1>8, <1>9 DEF Transparent
  <2> QED
    BY <1>6, <1>7, <1>9, <2>1, FS_EmptySet DEF g
<1>10. CASE ~IsFailure(e)
  BY <1>5, <1>6, <1>7, <1>8, <1>9, <1>10 DEF g
<1>11. CASE IsFailure(e) /\ Transparent(e)
  <2>1. IsFiniteSet(later \cup {1}) /\ Cardinality(later \cup {1}) = Cardinality(later) + 1
    BY <1>5, FS_AddElement
  <2>2. Cardinality(Trailing(g)) =< Cardinality(later) + 1 /\ Cardinality(Trailing(g)) \in Nat
    BY <1>7, <2>1, FS_Subset, FS_CardinalityType
  <2> QED
    BY <1>5, <1>6, <1>7, <1>11, <2>2 DEF g
<1> QED
  BY <1>9, <1>10, <1>11

-----------------------------------------------------------------------------
\* The failures the log counts are the newest of the streak, which is all that
\* is known once the streak has reached DisableAt.
LogInv ==
    /\ log \in Logs
    /\ sinceEntry \in 0..Hour
    /\ streak \in 0..DisableAt
    /\ ConsecutiveErrors(log) =< streak \/ streak = DisableAt

\* What a gate heard is the owner's last reply, and only an open gate has heard.
Replies == {"none", "yes", "no"}
GateInv ==
    /\ answer \in [Run -> Replies] /\ heard \in [Run -> Replies]
    /\ \A r \in Run : heard[r] = "none" \/ (pc[r] = "confirm" /\ heard[r] = answer[r])

\* Attempts stay within their budget, a daemon that is down has no run and no
\* mark in memory, and marks belong to a run in flight.
Phases == {"idle", "ask", "confirm", "advise", "attempt", "backoff", "closing"}
RunInv ==
    /\ GateInv
    /\ up \in BOOLEAN /\ running \in BOOLEAN /\ crashFile \in BOOLEAN /\ blocked \in BOOLEAN
    /\ pc \in [Run -> Phases]
    /\ attempt \in [Run -> Nat] /\ budget \in [Run -> Nat]
    /\ crashes \in 0..MaxCrashes
    /\ \A r \in Run : attempt[r] =< budget[r]
    /\ \A r \in Run : pc[r] = "backoff" => attempt[r] < budget[r]
    /\ ~up => ~running /\ \A r \in Run : pc[r] = "idle"
    /\ NoGhostRun

\* _logRun keeps the count below the streak: a skip adds nothing to either, a
\* failure one to both, and what ends the streak ends the count.
LEMMA SkipKeepsLog == ASSUME LogInv, LogSkip PROVE LogInv'
<1>1. log' = Logged(log, "skip") /\ sinceEntry' = 0 /\ streak' = streak /\ "skip" \in EntryKind
  BY DEF LogSkip, EntryKind
<1>2. ~IsFailure("skip")
  BY DEF IsFailure
<1>3. log' \in Logs /\ ConsecutiveErrors(log') =< ConsecutiveErrors(log)
  BY <1>1, <1>2, LoggedIs, ErrorsAfter DEF LogInv
<1>4. ConsecutiveErrors(log) \in Nat /\ ConsecutiveErrors(log') \in Nat
  BY <1>3, ErrorsAreCounted DEF LogInv
<1> QED
  BY <1>1, <1>3, <1>4, LogAssumption DEF LogInv

\* An attempt of a run adds at most one failure to the count and to the streak.
LEMMA AttemptKeepsLog ==
  ASSUME LogInv, NEW e \in {"ok", "fail", "blocked"}, LogAttempt(e)
  PROVE  LogInv'
<1>1. log' = Logged(log, e) /\ sinceEntry' = 0 /\ e \in EntryKind
  BY DEF LogAttempt, EntryKind
<1>2. /\ log' \in Logs
      /\ ~Transparent(e) => ConsecutiveErrors(log') = 0
      /\ ConsecutiveErrors(log') =< ConsecutiveErrors(log) + 1
  BY <1>1, LoggedIs, ErrorsAfter DEF LogInv
<1>3. ConsecutiveErrors(log) \in Nat /\ ConsecutiveErrors(log') \in Nat
  BY <1>2, ErrorsAreCounted DEF LogInv
<1>4. DisableAt \in Nat /\ DisableAt > 0
  BY LogAssumption
<1>5. CASE e = "fail"
  <2>1. streak' = IF streak < DisableAt THEN streak + 1 ELSE streak
    BY <1>5 DEF LogAttempt, IsFailure
  <2> QED
    BY <1>1, <1>2, <1>3, <1>4, <2>1, LogAssumption DEF LogInv
<1>6. CASE e # "fail"
  <2>1. streak' = 0 /\ ~Transparent(e)
    BY <1>6 DEF LogAttempt, IsFailure, Transparent
  <2> QED
    BY <1>1, <1>2, <1>3, <1>4, <2>1, LogAssumption DEF LogInv
<1> QED
  BY <1>5, <1>6

\* Every step logs a skip, logs an attempt, lets time pass, or leaves the log.
LEMMA NextLog == ASSUME LogInv, [Next]_vars PROVE LogInv'
<1>1. ASSUME NEW r \in Run, TriggerBlocked(r) \/ PreCheckFails(r) \/ GateShuts(r) \/ BreakerSkips(r)
      PROVE  LogInv'
  BY <1>1, SkipKeepsLog DEF TriggerBlocked, PreCheckFails, GateShuts, BreakerSkips
<1>2. ASSUME NEW r \in Run, Succeed(r) \/ FailForGood(r) \/ FailTransient(r) \/ FailCredit(r)
      PROVE  LogInv'
  BY <1>2, AttemptKeepsLog DEF Succeed, FailForGood, FailTransient, FailCredit
<1>3. CASE TimePasses
  <2>1. Hour \in Nat
    BY LogAssumption
  <2> QED
    BY <1>3, <2>1 DEF TimePasses, LogInv
<1>4. ASSUME UNCHANGED logVars PROVE LogInv'
  BY <1>4 DEF logVars, LogInv
<1>5. ASSUME NEW r \in Run, \/ Trigger(r) \/ Asked(r) \/ GateOpens(r) \/ Begin(r) \/ Retry(r) \/ Close(r)
                            \/ \E a \in {"yes", "no"} : OwnerAnswersEarly(r, a) \/ OwnerAnswers(r, a)
      PROVE  LogInv'
  BY <1>4, <1>5 DEF Trigger, Asked, GateOpens, Begin, Retry, Close, OwnerAnswersEarly, OwnerAnswers
<1>6. CASE BlockElsewhere \/ BlockExpires \/ TableChanges \/ Crash \/ Start
  BY <1>4, <1>6 DEF BlockElsewhere, BlockExpires, TableChanges, Crash, Start
<1>7. CASE UNCHANGED vars
  BY <1>4, <1>7 DEF vars
<1> QED
  BY <1>1, <1>2, <1>3, <1>5, <1>6, <1>7 DEF Next, Step

-----------------------------------------------------------------------------
\* A step of one run takes it out of the gate or into it with nothing heard; the
\* replies of the others stay.
LEMMA NextGate == ASSUME RunInv, [Next]_vars PROVE GateInv'
<1> USE DEF GateInv, Replies
<1>1. pc \in [Run -> Phases] /\ GateInv
  BY DEF RunInv
<1>2. ASSUME NEW r \in Run, NEW p \in Phases, pc[r] # "confirm", pc' = [pc EXCEPT ![r] = p],
             UNCHANGED gateVars
      PROVE  GateInv'
  BY <1>1, <1>2 DEF gateVars
<1>3. ASSUME NEW r \in Run,
             \/ Trigger(r) \/ Asked(r) \/ BreakerSkips(r) \/ Begin(r) \/ Succeed(r)
             \/ FailForGood(r) \/ FailTransient(r) \/ Retry(r) \/ FailCredit(r) \/ Close(r)
      PROVE  GateInv'
  <2>1. pc[r] # "confirm" /\ UNCHANGED gateVars
    BY <1>3 DEF Trigger, Asked, BreakerSkips, Begin, Succeed, FailForGood, FailTransient, Retry,
                FailCredit, Close
  <2>2. \E p \in Phases : pc' = [pc EXCEPT ![r] = p]
    BY <1>3 DEF Trigger, Asked, BreakerSkips, Begin, Succeed, FailForGood, FailTransient, Retry,
                FailCredit, Close, Finish, Return, Goto, Phases
  <2> QED
    BY <1>2, <2>1, <2>2
<1>4. ASSUME NEW r \in Run, GateOpens(r) \/ GateShuts(r) PROVE GateInv'
  <2>1. \E p \in Phases : pc' = [pc EXCEPT ![r] = p]
    BY <1>4 DEF GateOpens, GateShuts, Goto, Phases
  <2>2. PastGate(r)
    BY <1>4 DEF GateOpens, GateShuts
  <2> QED
    BY <1>1, <2>1, <2>2 DEF PastGate
<1>5. ASSUME NEW r \in Run, NEW a \in {"yes", "no"}, OwnerAnswersEarly(r, a) PROVE GateInv'
  BY <1>1, <1>5 DEF OwnerAnswersEarly
<1>6. ASSUME NEW r \in Run, NEW a \in {"yes", "no"}, OwnerAnswers(r, a) PROVE GateInv'
  BY <1>1, <1>6 DEF OwnerAnswers
<1>7. ASSUME UNCHANGED runVars PROVE GateInv'
  BY <1>1, <1>7 DEF runVars, gateVars
<1>8. ASSUME NEW r \in Run, TriggerBlocked(r) \/ PreCheckFails(r) PROVE GateInv'
  BY <1>7, <1>8 DEF TriggerBlocked, PreCheckFails
<1>9. CASE BlockElsewhere \/ BlockExpires \/ TimePasses \/ TableChanges \/ Start \/ UNCHANGED vars
  BY <1>7, <1>9 DEF BlockElsewhere, BlockExpires, TimePasses, TableChanges, Start, vars
<1>10. CASE Crash
  BY <1>10 DEF Crash
<1> QED
  BY <1>3, <1>4, <1>5, <1>6, <1>8, <1>9, <1>10 DEF Next, Step

\* A step of a run that touches no mark and stays in flight, or stays out.
LEMMA RunMoves ==
  ASSUME RunInv, up, up' = up, NEW r \in Run, NEW p \in Phases, pc' = [pc EXCEPT ![r] = p],
         pc[r] \in {"attempt", "backoff", "closing"} <=> p \in {"attempt", "backoff", "closing"},
         p = "backoff" => attempt[r] < budget[r],
         GateInv', blocked' \in BOOLEAN,
         UNCHANGED <<attempt, budget, diskVars, crashes>>
  PROVE  RunInv'
<1>1. InFlight' = InFlight
  BY DEF RunInv, InFlight
<1>2. NoGhostRun'
  BY <1>1 DEF RunInv, NoGhostRun, diskVars
<1> QED
  BY <1>2 DEF RunInv, diskVars

\* A step that leaves the runs and their marks alone.
LEMMA RunsAlone ==
  ASSUME RunInv, UNCHANGED <<up, pc, attempt, budget, diskVars, crashes>>,
         GateInv', blocked' \in BOOLEAN
  PROVE  RunInv'
<1>1. InFlight' = InFlight
  BY DEF InFlight
<1>2. NoGhostRun'
  BY <1>1 DEF RunInv, NoGhostRun, diskVars
<1> QED
  BY <1>2 DEF RunInv, diskVars

\* The finally block removes the marks with the run, whoever else is in flight.
LEMMA FinishKeepsRuns ==
  ASSUME RunInv, up, NEW r \in Run, Finish(r), blocked' \in BOOLEAN,
         GateInv', UNCHANGED <<up, crashes>>
  PROVE  RunInv'
<1>1. /\ pc' = [pc EXCEPT ![r] = "idle"] /\ running' = FALSE /\ crashFile' = FALSE
      /\ attempt' = [attempt EXCEPT ![r] = 0] /\ budget' = [budget EXCEPT ![r] = 0]
  BY DEF Finish, Return, Goto
<1>2. attempt' \in [Run -> Nat] /\ budget' \in [Run -> Nat] /\ pc' \in [Run -> Phases]
  BY <1>1 DEF RunInv, Phases
<1>3. \A q \in Run : attempt'[q] =< budget'[q] /\ (pc'[q] = "backoff" => attempt'[q] < budget'[q])
  BY <1>1 DEF RunInv
<1>4. NoGhostRun'
  BY <1>1 DEF NoGhostRun
<1> QED
  BY <1>1, <1>2, <1>3, <1>4 DEF RunInv

\* maxAttempts is at least one, whatever retries the job asks for.
LEMMA AttemptsPositive ==
  ASSUME LogInv, NEW unleashed \in BOOLEAN
  PROVE  Attempts(unleashed) \in Nat /\ Attempts(unleashed) >= 1
<1>1. ConsecutiveErrors(log) \in Nat
  BY ErrorsAreCounted DEF LogInv
<1>2. Backoffs \in Nat /\ MaxRetries \in Nat \cup {NoRetries}
  BY JobAssumption
<1> HIDE DEF ConsecutiveErrors
<1> QED
  BY <1>1, <1>2 DEF Attempts

\* A run begins with an attempt, a budget and both marks.
LEMMA BeginKeepsRuns == ASSUME RunInv, GateInv', LogInv, NEW r \in Run, Begin(r) PROVE RunInv'
<1>1. PICK n \in Nat : n >= 1 /\ budget' = [budget EXCEPT ![r] = n]
  BY AttemptsPositive DEF Begin
<1>2. /\ up /\ up' = up /\ running' = TRUE /\ crashFile' = TRUE
      /\ attempt' = [attempt EXCEPT ![r] = 1]
      /\ pc' = [pc EXCEPT ![r] = "attempt"] /\ UNCHANGED <<blocked, crashes>>
  BY DEF Begin, Goto
<1>3. r \in InFlight'
  BY <1>2 DEF RunInv, InFlight
<1> QED
  BY <1>1, <1>2, <1>3 DEF RunInv, NoGhostRun, Phases

\* A crash takes the runs and the mark in memory, a start the mark on disk.
LEMMA OutageKeepsRuns == ASSUME RunInv, GateInv', Crash \/ Start PROVE RunInv'
<1>1. CASE Crash
  <2>1. crashes' \in 0..MaxCrashes
    BY <1>1, JobAssumption DEF Crash, RunInv
  <2>2. up' = FALSE /\ running' = FALSE /\ pc' = [r \in Run |-> "idle"]
        /\ attempt' = [r \in Run |-> 0] /\ budget' = [r \in Run |-> 0]
        /\ UNCHANGED <<crashFile, blocked>>
    BY <1>1 DEF Crash
  <2>3. \A r \in Run : pc'[r] = "idle" /\ attempt'[r] = 0 /\ budget'[r] = 0
    BY <2>2
  <2>4. attempt' \in [Run -> Nat] /\ budget' \in [Run -> Nat] /\ pc' \in [Run -> Phases]
    BY <2>2 DEF Phases
  <2>5. NoGhostRun' /\ crashFile' \in BOOLEAN /\ blocked' \in BOOLEAN
    BY <2>2 DEF RunInv, NoGhostRun
  <2>6. \A r \in Run : attempt'[r] =< budget'[r] /\ pc'[r] # "backoff"
    BY <2>3
  <2>7. up' \in BOOLEAN /\ running' \in BOOLEAN /\ ~running' /\ ~up'
    BY <2>2
  <2> QED
    BY <2>1, <2>3, <2>4, <2>5, <2>6, <2>7 DEF RunInv
<1>2. CASE Start
  BY <1>2 DEF Start, RunInv, NoGhostRun, runVars
<1> QED
  BY <1>1, <1>2

\* Every step keeps the runs, their budgets and their marks in order.
LEMMA NextRuns == ASSUME RunInv, LogInv, [Next]_vars PROVE RunInv'
<1> USE DEF Goto, Phases, runVars
<1>0. GateInv'
  BY NextGate
<1>1. ASSUME NEW r \in Run, TriggerBlocked(r) \/ PreCheckFails(r) PROVE RunInv'
  BY <1>0, <1>1, RunsAlone DEF TriggerBlocked, PreCheckFails, RunInv
<1>2. ASSUME NEW r \in Run, Trigger(r) PROVE RunInv'
  <2> DEFINE p == IF Gate THEN "ask" ELSE "advise"
  <2>1. up /\ up' = up /\ pc[r] = "idle" /\ pc' = [pc EXCEPT ![r] = p]
        /\ blocked' \in BOOLEAN
        /\ UNCHANGED <<attempt, budget, diskVars, crashes>>
    BY <1>2 DEF Trigger, RunInv
  <2>2. p \in {"ask", "advise"}
    OBVIOUS
  <2> HIDE DEF p
  <2> QED
    BY <1>0, <2>1, <2>2, RunMoves
<1>3. ASSUME NEW r \in Run, NEW a \in {"yes", "no"}, OwnerAnswersEarly(r, a) \/ OwnerAnswers(r, a)
      PROVE  RunInv'
  BY <1>0, <1>3, RunsAlone DEF OwnerAnswersEarly, OwnerAnswers, RunInv
<1>4. ASSUME NEW r \in Run, Asked(r) \/ GateOpens(r) PROVE RunInv'
  BY <1>0, <1>4, RunMoves DEF Asked, GateOpens, RunInv
<1>5. ASSUME NEW r \in Run, GateShuts(r) PROVE RunInv'
  BY <1>0, <1>5, RunMoves DEF GateShuts, RunInv
<1>6. ASSUME NEW r \in Run, BreakerSkips(r) PROVE RunInv'
  BY <1>0, <1>6, RunMoves DEF BreakerSkips, RunInv
<1>7. ASSUME NEW r \in Run, Begin(r) PROVE RunInv'
  BY <1>0, <1>7, BeginKeepsRuns
<1>8. ASSUME NEW r \in Run, Succeed(r) \/ Close(r) PROVE RunInv'
  BY <1>0, <1>8, FinishKeepsRuns DEF Succeed, Close, RunInv
<1>9. ASSUME NEW r \in Run, FailForGood(r) PROVE RunInv'
  BY <1>0, <1>9, RunMoves DEF FailForGood, RunInv
<1>10. ASSUME NEW r \in Run, FailTransient(r) PROVE RunInv'
  BY <1>0, <1>10, RunMoves DEF FailTransient, RunInv
<1>11. ASSUME NEW r \in Run, Retry(r) PROVE RunInv'
  <2>1. up /\ up' = up /\ pc[r] = "backoff" /\ attempt' = [attempt EXCEPT ![r] = @ + 1]
        /\ pc' = [pc EXCEPT ![r] = "attempt"] /\ UNCHANGED <<budget, diskVars, blocked, crashes>>
    BY <1>11 DEF Retry
  <2>2. InFlight' = InFlight
    BY <2>1 DEF RunInv, InFlight
  <2>3. NoGhostRun'
    BY <2>1, <2>2 DEF RunInv, NoGhostRun, diskVars
  <2> QED
    BY <1>0, <2>1, <2>3 DEF RunInv, diskVars
<1>12. ASSUME NEW r \in Run, FailCredit(r) PROVE RunInv'
  <2>1. CASE blocked
    BY <1>0, <1>12, <2>1, FinishKeepsRuns DEF FailCredit, RunInv
  <2>2. CASE ~blocked
    BY <1>0, <1>12, <2>2, RunMoves DEF FailCredit, RunInv
  <2> QED
    BY <2>1, <2>2 DEF RunInv
<1>13. CASE BlockElsewhere \/ BlockExpires \/ TimePasses \/ TableChanges
  BY <1>0, <1>13, RunsAlone DEF BlockElsewhere, BlockExpires, TimePasses, TableChanges, RunInv
<1>14. CASE Crash \/ Start
  BY <1>0, <1>14, OutageKeepsRuns
<1>15. CASE UNCHANGED vars
  BY <1>0, <1>15, RunsAlone DEF vars, RunInv
<1> QED
  BY <1>1, <1>2, <1>3, <1>4, <1>5, <1>6, <1>7, <1>8, <1>9, <1>10, <1>11, <1>12, <1>13,
     <1>14, <1>15 DEF Next, Step

\* At first nothing runs and the log is empty.
LEMMA InitRuns == Init => RunInv /\ LogInv
<1> SUFFICES ASSUME Init PROVE RunInv /\ LogInv
  OBVIOUS
<1>1. RunInv
  <2>1. crashes = 0 /\ 0 \in 0..MaxCrashes
    BY JobAssumption DEF Init
  <2>2. up = TRUE /\ running = FALSE /\ crashFile = FALSE /\ blocked = FALSE
    BY DEF Init
  <2>3. pc \in [Run -> {"idle"}] /\ answer \in [Run -> {"none"}] /\ heard \in [Run -> {"none"}]
        /\ attempt \in [Run -> {0}]
        /\ budget \in [Run -> {0}]
    BY DEF Init
  <2>4. /\ pc \in [Run -> Phases] /\ GateInv
        /\ attempt \in [Run -> Nat] /\ budget \in [Run -> Nat]
    BY <2>3 DEF Phases, GateInv, Replies
  <2>5. \A r \in Run : pc[r] = "idle" /\ attempt[r] = 0 /\ budget[r] = 0
    BY <2>3
  <2>6. NoGhostRun
    BY <2>2 DEF NoGhostRun
  <2>7. up \in BOOLEAN /\ running \in BOOLEAN /\ crashFile \in BOOLEAN /\ blocked \in BOOLEAN /\ up
    BY <2>2
  <2>8. \A r \in Run : attempt[r] =< budget[r] /\ pc[r] # "backoff"
    BY <2>5
  <2> QED
    BY <2>1, <2>4, <2>6, <2>7, <2>8 DEF RunInv
<1>2. log = [i \in 1..0 |-> "ok"]
  BY DEF Init
<1>3. log \in Logs
  BY <1>2, LogAssumption DEF Logs, EntryKind
<1>4. Trailing(log) = {}
  BY DEF Init, Trailing
<1>5. ConsecutiveErrors(log) = 0
  BY <1>3, <1>4, ErrorsAreCounted, FS_EmptySet
<1> QED
  BY <1>1, <1>3, <1>5, LogAssumption DEF Init, LogInv

\* Both invariants hold in every reachable state.
LEMMA RunsInductive == Spec => [](RunInv /\ LogInv)
<1>1. (RunInv /\ LogInv) /\ [Next]_vars => (RunInv /\ LogInv)'
  BY NextRuns, NextLog
<1> QED
  BY <1>1, InitRuns, PTL DEF Spec

-----------------------------------------------------------------------------
\* The most attempts a run may make, and the steps a run in a given state has
\* left: two for an attempt, itself and its backoff, which the last one spends
\* on telling the owner.
MostAttempts == 1 + IF MaxRetries # NoRetries THEN MaxRetries ELSE Backoffs

StepsLeft(r) ==
    CASE pc[r] = "ask" -> 2 * MostAttempts + 3
      [] pc[r] = "confirm" -> 2 * MostAttempts + 2
      [] pc[r] = "advise" -> 2 * MostAttempts + 1
      [] pc[r] = "attempt" -> 2 * (budget[r] - attempt[r]) + 2
      [] pc[r] = "backoff" -> 2 * (budget[r] - attempt[r]) + 1
      [] pc[r] = "closing" -> 1
      [] OTHER -> 0

RunCountsDown ==
    \A r \in Run :
        /\ pc[r] # "idle" => StepsLeft(r)' \in Nat /\ StepsLeft(r)' =< StepsLeft(r)
        /\ Progress(r) => StepsLeft(r)' < StepsLeft(r)

\* What the log says never buys a run more attempts than the table of backoffs.
LEMMA AttemptsBounded ==
  ASSUME LogInv, NEW unleashed \in BOOLEAN
  PROVE  Attempts(unleashed) \in 1..MostAttempts /\ MostAttempts \in Nat
<1>1. ConsecutiveErrors(log) \in Nat
  BY ErrorsAreCounted DEF LogInv
<1>2. Backoffs \in Nat /\ MaxRetries \in Nat \cup {NoRetries}
  BY JobAssumption
<1> HIDE DEF ConsecutiveErrors
<1> QED
  BY <1>1, <1>2 DEF Attempts, MostAttempts

\* Every step of a run that began brings it nearer to its end.
LEMMA StepCountsDown ==
  ASSUME RunInv, LogInv, NEW r \in Run, Progress(r)
  PROVE  StepsLeft(r)' \in Nat /\ StepsLeft(r)' < StepsLeft(r)
<1> DEFINE b == budget[r]
           a == attempt[r]
           m == MostAttempts
<1>1. /\ a \in Nat /\ b \in Nat /\ a =< b /\ pc[r] \in Phases
      /\ pc[r] = "backoff" => a < b
  BY DEF RunInv
<1>2. m \in Nat
  BY AttemptsBounded
<1>3. ASSUME NEW p \in Phases, pc' = [pc EXCEPT ![r] = p] PROVE pc'[r] = p
  BY <1>3 DEF RunInv
<1> HIDE DEF m
<1>4. CASE GateOpens(r)
  <2>1. pc[r] = "confirm" /\ pc'[r] = "advise"
    BY <1>3, <1>4 DEF GateOpens, Goto, Phases
  <2>2. StepsLeft(r) = 2 * m + 2 /\ StepsLeft(r)' = 2 * m + 1
    BY <2>1 DEF StepsLeft, m, MostAttempts
  <2> QED
    BY <1>2, <2>2
<1>11. CASE Asked(r)
  <2>1. pc[r] = "ask" /\ pc'[r] = "confirm"
    BY <1>3, <1>11 DEF Asked, Goto, Phases
  <2>2. StepsLeft(r) = 2 * m + 3 /\ StepsLeft(r)' = 2 * m + 2
    BY <2>1 DEF StepsLeft, m, MostAttempts
  <2> QED
    BY <1>2, <2>2
<1>5. CASE GateShuts(r) \/ BreakerSkips(r)
  <2>1. pc[r] \in {"confirm", "advise"} /\ pc'[r] = "idle"
    BY <1>3, <1>5 DEF GateShuts, BreakerSkips, Goto, Phases
  <2>2. StepsLeft(r) \in {2 * m + 1, 2 * m + 2} /\ StepsLeft(r)' = 0
    BY <2>1 DEF StepsLeft, m
  <2> QED
    BY <1>2, <2>2
<1>6. CASE Begin(r)
  <2>1. PICK n \in 1..m : budget' = [budget EXCEPT ![r] = n]
    BY <1>6, AttemptsBounded DEF Begin, m
  <2>2. pc[r] = "advise" /\ pc'[r] = "attempt" /\ attempt'[r] = 1 /\ budget'[r] = n
    BY <1>3, <1>6, <2>1 DEF Begin, Goto, Phases, RunInv
  <2>3. StepsLeft(r) = 2 * m + 1 /\ StepsLeft(r)' = 2 * (n - 1) + 2
    BY <2>2 DEF StepsLeft, m
  <2> QED
    BY <1>2, <2>1, <2>3
<1>7. CASE Succeed(r) \/ Close(r)
  <2>1. pc[r] \in {"attempt", "closing"} /\ pc'[r] = "idle"
    BY <1>3, <1>7 DEF Succeed, Close, Finish, Return, Goto, Phases
  <2>2. StepsLeft(r) \in {2 * (b - a) + 2, 1} /\ StepsLeft(r)' = 0
    BY <2>1 DEF StepsLeft
  <2> QED
    BY <1>1, <2>2
<1>8. CASE FailForGood(r) \/ FailCredit(r)
  <2>1. pc[r] = "attempt" /\ pc'[r] \in {"closing", "idle"}
    BY <1>3, <1>8 DEF FailForGood, FailCredit, Finish, Return, Goto, Phases
  <2>2. StepsLeft(r) = 2 * (b - a) + 2 /\ StepsLeft(r)' \in {0, 1}
    BY <2>1 DEF StepsLeft
  <2> QED
    BY <1>1, <2>2
<1>9. CASE FailTransient(r)
  <2>1. pc[r] = "attempt" /\ pc'[r] = "backoff" /\ budget' = budget /\ attempt' = attempt
    BY <1>3, <1>9 DEF FailTransient, Goto, Phases
  <2>2. StepsLeft(r) = 2 * (b - a) + 2 /\ StepsLeft(r)' = 2 * (b - a) + 1
    BY <2>1 DEF StepsLeft
  <2> QED
    BY <1>1, <2>2
<1>10. CASE Retry(r)
  <2>1. pc[r] = "backoff" /\ pc'[r] = "attempt" /\ budget'[r] = b /\ attempt'[r] = a + 1
    BY <1>3, <1>10 DEF Retry, Goto, Phases, RunInv
  <2>2. StepsLeft(r) = 2 * (b - a) + 1 /\ StepsLeft(r)' = 2 * (b - (a + 1)) + 2
    BY <2>1 DEF StepsLeft
  <2> QED
    BY <1>1, <2>1, <2>2
<1> QED
  BY <1>4, <1>5, <1>6, <1>7, <1>8, <1>9, <1>10, <1>11 DEF Progress

\* What others do, and a reply of the owner, leave a run where it is.
LEMMA OthersLeaveRun ==
  ASSUME RunInv, [Next]_vars, NEW r \in Run, pc[r] # "idle", ~Progress(r), ~Crash
  PROVE  pc'[r] = pc[r] /\ attempt'[r] = attempt[r] /\ budget'[r] = budget[r]
<1> DEFINE Stays == pc'[r] = pc[r] /\ attempt'[r] = attempt[r] /\ budget'[r] = budget[r]
<1>1. ASSUME NEW q \in Run, NEW p \in Phases, q # r, pc' = [pc EXCEPT ![q] = p],
             UNCHANGED <<attempt, budget>>
      PROVE  Stays
  BY <1>1 DEF RunInv
<1>2. ASSUME NEW q \in Run, TriggerBlocked(q) \/ PreCheckFails(q) PROVE Stays
  BY <1>2 DEF TriggerBlocked, PreCheckFails, runVars
<1>3. ASSUME NEW q \in Run, NEW a \in {"yes", "no"}, OwnerAnswersEarly(q, a) \/ OwnerAnswers(q, a)
      PROVE  Stays
  BY <1>3 DEF OwnerAnswersEarly, OwnerAnswers
<1>4. ASSUME NEW q \in Run, Trigger(q) PROVE Stays
  <2>1. q # r /\ pc' = [pc EXCEPT ![q] = IF Gate THEN "ask" ELSE "advise"]
        /\ UNCHANGED <<attempt, budget>>
    BY <1>4 DEF Trigger, Goto
  <2> QED
    BY <2>1 DEF RunInv
<1>5. ASSUME NEW q \in Run, q # r,
             \/ Asked(q) \/ GateOpens(q) \/ GateShuts(q) \/ BreakerSkips(q)
             \/ FailForGood(q) \/ FailTransient(q)
      PROVE  Stays
  BY <1>1, <1>5 DEF Asked, GateOpens, GateShuts, BreakerSkips, FailForGood, FailTransient, Goto, Phases
<1>6. ASSUME NEW q \in Run, q # r, Succeed(q) \/ FailCredit(q) \/ Close(q) PROVE Stays
  <2>1. /\ pc' = [pc EXCEPT ![q] = "idle"] \/ pc' = [pc EXCEPT ![q] = "closing"]
        /\ attempt' = [attempt EXCEPT ![q] = 0] \/ UNCHANGED attempt
        /\ budget' = [budget EXCEPT ![q] = 0] \/ UNCHANGED budget
    BY <1>6 DEF Succeed, FailCredit, Close, Finish, Return, Goto
  <2> QED
    BY <1>6, <2>1 DEF RunInv
<1>7. ASSUME NEW q \in Run, q # r, Begin(q) PROVE Stays
  <2>1. PICK n : budget' = [budget EXCEPT ![q] = n]
    BY <1>7 DEF Begin
  <2> QED
    BY <1>7, <2>1 DEF Begin, Goto, RunInv
<1>8. ASSUME NEW q \in Run, q # r, Retry(q) PROVE Stays
  BY <1>8 DEF Retry, Goto, RunInv
<1>9. CASE BlockElsewhere \/ BlockExpires \/ TimePasses \/ TableChanges \/ Start
  BY <1>9 DEF BlockElsewhere, BlockExpires, TimePasses, TableChanges, Start, runVars
<1>10. CASE UNCHANGED vars
  BY <1>10 DEF vars, runVars
<1>11. ASSUME NEW q \in Run, Step(q) PROVE Stays
  <2>1. CASE q = r
    BY <1>2, <1>3, <1>4, <1>11, <2>1 DEF Step, Progress
  <2>2. CASE q # r
    BY <1>2, <1>3, <1>4, <1>5, <1>6, <1>7, <1>8, <1>11, <2>2 DEF Step
  <2> QED
    BY <2>1, <2>2
<1> QED
  BY <1>9, <1>10, <1>11 DEF Next

\* The steps left are a natural number.
LEMMA StepsAreCounted == ASSUME RunInv, LogInv, NEW r \in Run PROVE StepsLeft(r) \in Nat
<1>1. /\ attempt[r] \in Nat /\ budget[r] \in Nat /\ attempt[r] =< budget[r] /\ pc[r] \in Phases
  BY DEF RunInv
<1>2. MostAttempts \in Nat
  BY AttemptsBounded
<1> HIDE DEF MostAttempts
<1> QED
  BY <1>1, <1>2 DEF StepsLeft, Phases

\* A run of a job cannot go on for ever: whatever the log says, and whatever the
\* other runs, the owner, edits and restarts do meanwhile, a run that began
\* never has more steps left than before, and each step of its own (the gate,
\* the breaker, an attempt, a backoff, the finally block) leaves it fewer.
THEOREM RunsOfAJobEnd == Spec => [][RunCountsDown]_vars
<1>1. ASSUME RunInv, LogInv, [Next]_vars PROVE RunCountsDown
  <2>1. SUFFICES ASSUME NEW r \in Run, pc[r] # "idle" \/ Progress(r)
                 PROVE  /\ StepsLeft(r)' \in Nat /\ StepsLeft(r)' =< StepsLeft(r)
                        /\ Progress(r) => StepsLeft(r)' < StepsLeft(r)
    BY DEF RunCountsDown
  <2>2. StepsLeft(r) \in Nat
    BY <1>1, StepsAreCounted
  <2>3. CASE Progress(r)
    <3>1. StepsLeft(r)' \in Nat /\ StepsLeft(r)' < StepsLeft(r)
      BY <1>1, <2>3, StepCountsDown
    <3> HIDE DEF StepsLeft
    <3> QED
      BY <2>2, <3>1
  <2>4. CASE ~Progress(r) /\ Crash
    <3>1. pc'[r] = "idle"
      BY <2>4 DEF Crash
    <3>2. StepsLeft(r)' = 0
      BY <3>1 DEF StepsLeft
    <3> QED
      BY <2>2, <2>4, <3>2
  <2>5. CASE ~Progress(r) /\ ~Crash
    <3>1. pc[r] # "idle"
      BY <2>1, <2>5
    <3>2. pc'[r] = pc[r] /\ attempt'[r] = attempt[r] /\ budget'[r] = budget[r]
      BY <1>1, <2>5, <3>1, OthersLeaveRun
    <3>3. StepsLeft(r)' = StepsLeft(r)
      BY <3>2 DEF StepsLeft, MostAttempts
    <3> QED
      BY <2>2, <2>5, <3>3
  <2> QED
    BY <2>3, <2>4, <2>5
<1>2. (RunInv /\ LogInv) /\ [Next]_vars => [RunCountsDown]_vars
  BY <1>1
<1> QED
  BY <1>2, RunsInductive, PTL DEF Spec

-----------------------------------------------------------------------------
\* Runs act on the table by its own operations: a run may disable its job, a
\* restart rebuilds the table, all other steps leave it to the others.
LEMMA StepsOnTable == [Next]_vars => [TableNext]_tableVars
<1> SUFFICES ASSUME [Next]_vars PROVE [TableNext]_tableVars
  OBVIOUS
<1>1. ASSUME NEW r \in Run, Succeed(r) \/ FailCredit(r) \/ Close(r) PROVE [TableNext]_tableVars
  <2>1. AutoDisable(JobName) \/ UNCHANGED tableVars
    BY <1>1 DEF Succeed, FailCredit, Close, Finish
  <2> QED
    BY <2>1, JobAssumption DEF TableNext
<1>2. ASSUME NEW r \in Run,
             \/ TriggerBlocked(r) \/ Trigger(r) \/ PreCheckFails(r) \/ Asked(r) \/ GateOpens(r) \/ GateShuts(r)
             \/ (\E a \in {"yes", "no"} : OwnerAnswersEarly(r, a) \/ OwnerAnswers(r, a))
             \/ BreakerSkips(r) \/ Begin(r) \/ FailForGood(r) \/ FailTransient(r) \/ Retry(r)
      PROVE  UNCHANGED tableVars
  BY <1>2 DEF TriggerBlocked, Trigger, PreCheckFails, Asked, GateOpens, GateShuts, OwnerAnswersEarly, OwnerAnswers,
              BreakerSkips, Begin, FailForGood, FailTransient, Retry
<1>3. CASE BlockElsewhere \/ BlockExpires \/ TimePasses \/ Crash \/ UNCHANGED vars
  BY <1>3 DEF BlockElsewhere, BlockExpires, TimePasses, Crash, vars
<1>4. CASE TableChanges \/ Start
  BY <1>4 DEF TableChanges, Start, TableNext
<1> QED
  BY <1>1, <1>2, <1>3, <1>4 DEF Next, Step

\* The runs of a job implement the table of timers: what CronSchedule promises
\* holds while jobs run, crash and disable themselves (runJob, start).
THEOREM RunsKeepTheTable == Spec => TableSpec
<1>1. Init => TableInit
  BY DEF Init
<1> QED
  BY <1>1, StepsOnTable, PTL DEF Spec, TableSpec

\* The run log, the marks and the timers are well formed in every state.
THEOREM TypeCorrect == Spec => []TypeOK
<1>1. RunInv /\ LogInv /\ TableTypeOK => TypeOK
  BY DEF RunInv, GateInv, Replies, LogInv, TypeOK, Phases
<1> QED
  BY <1>1, RunsInductive, RunsKeepTheTable, TableTypeCorrect, PTL

\* Neither runningJobs nor cron-running.json keeps a job none of whose runs is in
\* flight, however many runs overlap: the job can always run again.
THEOREM NoGhosts == Spec => []NoGhostRun
<1>1. RunInv => NoGhostRun
  BY DEF RunInv
<1> QED
  BY <1>1, RunsInductive, PTL

\* In a set of at most one element any two are the same.
LEMMA AtMostOne ==
  ASSUME NEW S, IsFiniteSet(S), Cardinality(S) =< 1, NEW x \in S, NEW y \in S
  PROVE  x = y
<1> SUFFICES ASSUME x # y PROVE FALSE
  OBVIOUS
<1>1. IsFiniteSet({x}) /\ Cardinality({x}) = 1
  BY FS_Singleton
<1>2. Cardinality({x} \cup {y}) = 2
  <2>1. y \notin {x}
    OBVIOUS
  <2>2. Cardinality({x} \cup {y}) = Cardinality({x}) + 1
    BY <1>1, <2>1, FS_AddElement
  <2> QED
    BY <1>1, <2>2
<1>3. {x} \cup {y} \in SUBSET S
  OBVIOUS
<1>4. Cardinality({x} \cup {y}) =< Cardinality(S)
  BY <1>3, FS_Subset
<1>5. Cardinality(S) \in Nat
  BY FS_CardinalityType
<1> QED
  BY <1>2, <1>4, <1>5

\* While one call of runJob is in flight at a time, a crash in the middle of it
\* finds the job in cron-running.json and is reported at the next start.
THEOREM CrashesAreSeen == Spec /\ []OneRunPerJob => []CrashFileCoversRun
<1>1. Init => CrashFileCoversRun
  BY DEF Init, CrashFileCoversRun, InFlight
<1>2. ASSUME RunInv, OneRunPerJob, CrashFileCoversRun, [Next]_vars PROVE CrashFileCoversRun'
  <2> USE DEF CrashFileCoversRun, Goto
  <2>1. ASSUME NEW r \in Run, r \in InFlight, Finish(r) PROVE CrashFileCoversRun'
    <3>1. InFlight \in SUBSET Run
      BY DEF InFlight
    <3>2. IsFiniteSet(InFlight) /\ Cardinality(InFlight) =< 1
      BY <3>1, FS_Subset, JobAssumption, <1>2 DEF OneRunPerJob
    <3>3. \A q \in InFlight : q = r
      BY <2>1, <3>2, AtMostOne
    <3>4. pc' = [pc EXCEPT ![r] = "idle"]
      BY <2>1 DEF Finish, Return
    <3>5. InFlight' = {}
      BY <1>2, <3>3, <3>4 DEF RunInv, InFlight
    <3> QED
      BY <3>5
  <2>2. ASSUME NEW r \in Run, Succeed(r) \/ Close(r) PROVE CrashFileCoversRun'
    <3>1. r \in InFlight /\ Finish(r)
      BY <2>2 DEF Succeed, Close, InFlight
    <3> QED
      BY <2>1, <3>1
  <2>3. ASSUME NEW r \in Run, FailCredit(r) PROVE CrashFileCoversRun'
    <3>1. r \in InFlight
      BY <2>3 DEF FailCredit, InFlight
    <3>2. Finish(r) \/ (pc' = [pc EXCEPT ![r] = "closing"] /\ UNCHANGED diskVars)
      BY <2>3 DEF FailCredit
    <3>3. InFlight # {} => running /\ crashFile
      BY <1>2
    <3> QED
      BY <2>1, <3>1, <3>2, <3>3 DEF diskVars
  <2>4. ASSUME NEW r \in Run, Begin(r) PROVE CrashFileCoversRun'
    BY <2>4 DEF Begin
  <2>5. ASSUME UNCHANGED diskVars, InFlight' \subseteq InFlight PROVE CrashFileCoversRun'
    BY <1>2, <2>5 DEF diskVars
  <2>6. ASSUME NEW r \in Run,
               \/ Trigger(r) \/ Asked(r) \/ GateOpens(r) \/ GateShuts(r) \/ BreakerSkips(r)
               \/ FailForGood(r) \/ FailTransient(r) \/ Retry(r)
        PROVE  CrashFileCoversRun'
    <3>1. UNCHANGED diskVars
      BY <2>6 DEF Trigger, Asked, GateOpens, GateShuts, BreakerSkips, FailForGood, FailTransient, Retry
    <3>2. \E p \in Phases : /\ pc' = [pc EXCEPT ![r] = p]
                            /\ p \in {"attempt", "backoff", "closing"} => r \in InFlight
      BY <2>6 DEF Trigger, Asked, GateOpens, GateShuts, BreakerSkips, FailForGood, FailTransient, Retry,
                  Phases, InFlight
    <3>3. InFlight' \subseteq InFlight
      BY <1>2, <3>2 DEF RunInv, InFlight
    <3> QED
      BY <2>5, <3>1, <3>3
  <2>7. ASSUME NEW r \in Run, \/ TriggerBlocked(r) \/ PreCheckFails(r)
                              \/ \E a \in {"yes", "no"} : OwnerAnswersEarly(r, a) \/ OwnerAnswers(r, a)
        PROVE  CrashFileCoversRun'
    BY <2>5, <2>7 DEF TriggerBlocked, PreCheckFails, OwnerAnswersEarly, OwnerAnswers, runVars, InFlight
  <2>8. CASE BlockElsewhere \/ BlockExpires \/ TimePasses \/ TableChanges \/ UNCHANGED vars
    BY <2>5, <2>8 DEF BlockElsewhere, BlockExpires, TimePasses, TableChanges, vars, runVars, InFlight
  <2>9. CASE Crash
    BY <2>9 DEF Crash, InFlight
  <2>10. CASE Start
    BY <1>2, <2>10 DEF Start, RunInv, runVars, InFlight
  <2> QED
    BY <1>2, <2>2, <2>3, <2>4, <2>6, <2>7, <2>8, <2>9, <2>10 DEF Next, Step
<1> QED
  BY <1>1, <1>2, RunsInductive, PTL DEF Spec

\* The circuit breaker skips and the scheduler disables only after as many
\* failures in a row as they say, whatever was skipped, retried, overlapped or
\* interrupted by a crash in between (ExecutionAdvisor rule 1, end of runJob).
THEOREM StreaksOnly == Spec => OnlyStreaksArePunished
<1>1. ASSUME LogInv, LogInv', [Next]_vars
      PROVE  /\ \A r \in Run : BreakerSkips(r) => streak >= BreakAt
             /\ pc' # pc /\ JobName \in disabled' \ disabled => streak' >= DisableAt
  <2>1. /\ ConsecutiveErrors(log) \in Nat /\ ConsecutiveErrors(log') \in Nat
        /\ streak \in Nat /\ streak' \in Nat /\ BreakAt \in Nat /\ DisableAt \in Nat /\ BreakAt =< DisableAt
    BY <1>1, ErrorsAreCounted, LogAssumption DEF LogInv
  <2>2. ASSUME NEW r \in Run, BreakerSkips(r) PROVE streak >= BreakAt
    <3>1. ConsecutiveErrors(log) >= BreakAt
      BY <2>2 DEF BreakerSkips, ShouldSkip
    <3> QED
      BY <1>1, <2>1, <3>1 DEF LogInv
  <2>3. ASSUME NEW r \in Run, Finish(r), JobName \in disabled' \ disabled PROVE streak' >= DisableAt
    <3>1. ConsecutiveErrors(log') >= DisableAt
      BY <2>3 DEF Finish, tableVars
    <3>2. ConsecutiveErrors(log') =< streak' \/ streak' = DisableAt
      BY <1>1 DEF LogInv
    <3> QED
      BY <2>1, <3>1, <3>2
  <2>4. ASSUME pc' # pc, JobName \in disabled' \ disabled PROVE \E r \in Run : Finish(r)
    <3>1. ASSUME UNCHANGED tableVars \/ pc' = pc \/ disabled' = {} PROVE FALSE
      BY <2>4, <3>1 DEF tableVars
    <3>2. ASSUME NEW r \in Run, Succeed(r) \/ Close(r) \/ FailCredit(r) PROVE Finish(r)
      BY <3>1, <3>2 DEF Succeed, Close, FailCredit
    <3>3. ASSUME NEW r \in Run,
                 \/ TriggerBlocked(r) \/ Trigger(r) \/ PreCheckFails(r) \/ Asked(r) \/ GateOpens(r) \/ GateShuts(r)
                 \/ (\E a \in {"yes", "no"} : OwnerAnswersEarly(r, a) \/ OwnerAnswers(r, a))
                 \/ BreakerSkips(r) \/ Begin(r) \/ FailForGood(r) \/ FailTransient(r) \/ Retry(r)
          PROVE  FALSE
      BY <3>1, <3>3 DEF TriggerBlocked, Trigger, PreCheckFails, Asked, GateOpens, GateShuts, OwnerAnswersEarly, OwnerAnswers,
                        BreakerSkips, Begin, FailForGood, FailTransient, Retry
    <3>4. CASE BlockElsewhere \/ BlockExpires \/ TimePasses \/ Crash \/ UNCHANGED vars
      BY <3>1, <3>4 DEF BlockElsewhere, BlockExpires, TimePasses, Crash, vars
    <3>5. CASE TableChanges \/ Start
      BY <3>1, <3>5 DEF TableChanges, Start, Restart, runVars
    <3> QED
      BY <1>1, <3>2, <3>3, <3>4, <3>5 DEF Next, Step
  <2> QED
    BY <2>2, <2>3, <2>4
<1>2. LogInv /\ LogInv' /\ [Next]_vars =>
        [/\ \A r \in Run : BreakerSkips(r) => streak >= BreakAt
         /\ pc' # pc /\ JobName \in disabled' \ disabled => streak' >= DisableAt]_vars
  BY <1>1
<1> QED
  BY <1>2, RunsInductive, PTL DEF Spec, OnlyStreaksArePunished

\* If the job's own timer fires no later than that of the approval, only a no of
\* the owner shuts the gate, and what he refused once the approval was registered
\* does not run.  (A no that comes before is not heard.)
THEOREM OwnerDecides == ASSUME GateTimerFirst PROVE Spec => OnlyOwnerRefuses
<1>1. RunInv /\ [Next]_vars =>
        [\A r \in Run : pc[r] = "confirm" /\ up' =>
          /\ pc'[r] = "idle" => heard[r] = "no" /\ answer[r] = "no"
          /\ pc'[r] = "advise" => heard[r] # "no"]_vars
  <2> SUFFICES ASSUME RunInv, [Next]_vars, NEW r \in Run, pc[r] = "confirm", up', pc' # pc
               PROVE  /\ pc'[r] = "idle" => heard[r] = "no" /\ answer[r] = "no"
                      /\ pc'[r] = "advise" => heard[r] # "no"
    BY DEF RunInv
  <2>1. up
    BY DEF RunInv
  <2>2. ASSUME NEW q \in Run, q # r, NEW p \in Phases, pc' = [pc EXCEPT ![q] = p]
        PROVE  pc'[r] = "confirm"
    BY <2>2 DEF RunInv
  <2>3. ASSUME NEW q \in Run, Step(q), q # r PROVE \E p \in Phases : pc' = [pc EXCEPT ![q] = p]
    BY <2>3 DEF Step, TriggerBlocked, Trigger, PreCheckFails, Asked, OwnerAnswersEarly, OwnerAnswers,
                GateOpens, GateShuts, BreakerSkips, Begin, Succeed, FailForGood, FailTransient, Retry,
                FailCredit, Close, Finish, Return, Goto, Phases, runVars
  <2>4. ASSUME Step(r) PROVE GateOpens(r) \/ GateShuts(r)
    BY <2>4 DEF Step, TriggerBlocked, Trigger, PreCheckFails, Asked, OwnerAnswersEarly, OwnerAnswers,
                BreakerSkips, Begin, Succeed, FailForGood, FailTransient, Retry, FailCredit, Close
  <2>5. GateOpens(r) => pc'[r] = "advise" /\ heard[r] # "no"
    BY DEF GateOpens, Goto, RunInv
  <2>6. GateShuts(r) => pc'[r] = "idle" /\ heard[r] = "no" /\ answer[r] = "no"
    BY DEF GateShuts, Goto, RunInv, GateInv
  <2>7. \E q \in Run : Step(q)
    BY <2>1 DEF Next, BlockElsewhere, BlockExpires, TimePasses, TableChanges, Crash, Start, vars, runVars
  <2> QED
    BY <2>2, <2>3, <2>4, <2>5, <2>6, <2>7
<1> QED
  BY <1>1, RunsInductive, PTL DEF Spec, OnlyOwnerRefuses
=============================================================================
