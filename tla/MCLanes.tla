------------------------------ MODULE MCLanes ------------------------------
(* A two-slot lane and a one-slot lane, the two shapes of gateway/lanes.ts. *)
EXTENDS Lanes, TLC

CONSTANTS wide, narrow
LaneLimits == (wide :> 2) @@ (narrow :> 1)
=============================================================================
