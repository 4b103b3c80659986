------------------------------ MODULE MCBgChain ------------------------------
\* The steps of the chains, and one task that belongs to none.
EXTENDS BgChain
CONSTANTS b1, c1
MCStepTask == Chain \X (1..NSteps)
MCTask == {b1} \cup MCStepTask
=============================================================================
