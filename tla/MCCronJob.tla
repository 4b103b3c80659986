----------------------------- MODULE MCCronJob -----------------------------
EXTENDS CronJob
CONSTANTS r1, r2
MCAfter == [j \in Job |-> NoJob]
=============================================================================
