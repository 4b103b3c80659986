--------------------------- MODULE MCCronSchedule ---------------------------
\* A scheduled skill, and a job of CRON.md and one of an agent that are chained
\* after each other: a cycle when both exist, an orphan when one does.
EXTENDS CronSchedule, TLC
CONSTANTS g, p, q
MCCycle == (g :> NoJob) @@ (p :> q) @@ (q :> p)
=============================================================================
