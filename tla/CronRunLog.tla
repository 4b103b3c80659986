----------------------------- MODULE CronRunLog -----------------------------
(***************************************************************************)
(* The run log of a cron job as the scheduler and the execution advisor    *)
(* read it (gateway/cron-scheduler.ts CronRunLog, gateway/job-health.ts,   *)
(* rule 1 of agent/execution-advisor.ts).  A log is the newest entries of  *)
(* the file, the newest first; an entry is what the readers tell apart:    *)
(*   "ok"       a run that job-health calls healthy                        *)
(*   "fail"     an attempt that failed, or whose output reached nobody     *)
(*   "blocked"  an attempt stopped by the usage limit of the account       *)
(*   "skip"     a trigger that did not run                                 *)
(***************************************************************************)
EXTENDS Naturals, Sequences, FiniteSets

CONSTANTS Window,      \* entries readRecent returns: 10
          BreakAt,     \* failures that engage the circuit breaker: 5
          DisableAt,   \* failures that disable the job: 10
          Hour         \* CIRCUIT_BREAKER_COOLDOWN_MS in clock ticks

ASSUME LogAssumption ==
    /\ Window \in Nat \ {0}
    /\ BreakAt \in Nat \ {0}
    /\ DisableAt \in BreakAt..Window
    /\ Hour \in Nat \ {0}

EntryKind == {"ok", "fail", "blocked", "skip"}
Logs == UNION {[1..n -> EntryKind] : n \in 0..Window}

\* append, then readRecent(job, Window).
Logged(log, e) == SubSeq(<<e>> \o log, 1, IF Len(log) < Window THEN Len(log) + 1 ELSE Window)

\* isRunHealthFailure
IsFailure(e) == e = "fail"

\* Mutant: no entry ends a streak.
TransparentAll(e) == TRUE

\* What consecutiveErrors looks through: skipped entries do not end a streak.
Transparent(e) == e = "skip" \/ IsFailure(e)

\* consecutiveErrors(job)
ConsecutiveErrors(log) ==
    Cardinality({i \in DOMAIN log : /\ IsFailure(log[i])
                                    /\ \A j \in 1..(i - 1) : Transparent(log[j])})

\* The advisor's circuit breaker: `elapsed` since the newest entry.
ShouldSkip(log, elapsed) == ConsecutiveErrors(log) >= BreakAt /\ elapsed < Hour
=============================================================================
