---------------------------- MODULE MCSlotLedger ----------------------------
(* An instance of SlotLedger: three applications compete for two seats. *)
EXTENDS SlotLedger, TLC

CONSTANTS a1, a2, a3, a4, d1, d2, d3, d4, d5, v1

\* a1's clearance arrives twice; a1, a2 and a3 compete for the two seats of v1,
\* and the district of a4 has no venue.
Five == {d1, d2, d3, d4, d5}
FiveAppOf == d1 :> a1 @@ d2 :> a1 @@ d3 :> a2 @@ d4 :> a3 @@ d5 :> a4
FourVenueOf == a1 :> v1 @@ a2 :> v1 @@ a3 :> v1 @@ a4 :> None
TwoSeats == v1 :> 2
=============================================================================
