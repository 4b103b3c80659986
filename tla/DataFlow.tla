------------------------------ MODULE DataFlow ------------------------------
(***************************************************************************)
(* What a run of a workflow promises, whatever its order of execution: a   *)
(* step is started once, when everything it depends on has settled; never  *)
(* more steps are in flight than there are slots; and the run ends only    *)
(* when every step has settled.                                            *)
(***************************************************************************)
CONSTANTS Step,   \* steps of the workflow
          Slot    \* at most one step in flight each

VARIABLES deps,     \* what each step depends on
          started,  \* steps started in this run
          settled   \* those that succeeded or failed

vars == <<deps, started, settled>>

Init ==
    /\ deps \in [Step -> SUBSET Step]
    /\ started = {} /\ settled = {}

\* Each step of S can be given a slot of its own.
FitsIn(S) == \E slot \in [S -> Slot] : \A s, t \in S : slot[s] = slot[t] => s = t

\* Some steps settle and, in the same instant, others take their place.
Progress(S, T) ==
    /\ S \subseteq started \ settled
    /\ T \subseteq Step \ started
    /\ settled' = settled \cup S
    /\ started' = started \cup T
    /\ \A t \in T : deps[t] \subseteq settled'
    /\ FitsIn(started' \ settled')
    /\ UNCHANGED deps

\* The next run starts from scratch.
Restart ==
    /\ settled = Step
    /\ started' = {} /\ settled' = {}
    /\ UNCHANGED deps

Next == Restart \/ \E S, T \in SUBSET Step : Progress(S, T)

Spec == Init /\ [][Next]_vars
=============================================================================
