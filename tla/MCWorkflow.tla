----------------------------- MODULE MCWorkflow -----------------------------
EXTENDS Workflow, TLC
CONSTANTS a, b, c, w1, w2
WR == INSTANCE WaveRecursion

\* The recursion of the code finds the waves the equations describe, and throws
\* on exactly the graphs that have none: no workflow is refused that could run,
\* and none is run in an order its graph does not give.
RecursionFindsWaves ==
    phase = "idle" =>
        IF WR!Throws(deps) THEN ~\E w \in [Step -> Level] : IsWave(w)
        ELSE \A w \in [Step -> Level] : IsWave(w) <=> w = WR!ComputedWaves(deps)
=============================================================================
