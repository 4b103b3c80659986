--------------------------- MODULE WaveRecursion ---------------------------
(***************************************************************************)
(* getWave of agent/wave-scheduler.ts as the program computes it, to hold  *)
(* against the equations of Workflow!IsWave.  The memo of the code changes *)
(* no value and is left out.                                               *)
(***************************************************************************)
EXTENDS Naturals, FiniteSetsExt

\* What a throw returns: larger than the wave of any step of a small graph.
Thrown == 99

RECURSIVE GetWaveFlat(_, _, _)
\* Mutant: the wave of the latest dependency, not the one after it.
GetWaveFlat(deps, id, visiting) ==
    IF id \in visiting THEN Thrown
    ELSE Max({0} \cup {GetWaveFlat(deps, d, visiting \cup {id}) : d \in deps[id]})

RECURSIVE GetWave(_, _, _)
\* getWave: 0, or one more than the latest dependency; a step met again throws.
GetWave(deps, id, visiting) ==
    IF id \in visiting THEN Thrown
    ELSE Max({0} \cup {GetWave(deps, d, visiting \cup {id}) + 1 : d \in deps[id]})

Throws(deps) == \E id \in DOMAIN deps : GetWave(deps, id, {}) >= Thrown
ComputedWaves(deps) == [id \in DOMAIN deps |-> GetWave(deps, id, {})]
=============================================================================
