----------------------------- MODULE MCCitizen -----------------------------
(***************************************************************************)
(* Two requests at a time, two phones, two agencies, and three instances:  *)
(* one identity with up to two codes; an identity and the one that replaces *)
(* it after an erasure; and one citizen with a session, applications,      *)
(* requests, an officer and the sweep.                                     *)
(***************************************************************************)
EXTENDS Citizen, TLC

CONSTANTS k1, k2, p1, p2

SigningIn == [ids |-> 1, challenges |-> 2, applications |-> 0, requests |-> 0,
              sweeps |-> FALSE, time |-> 1]
Returning == [ids |-> 2, challenges |-> 1, applications |-> 0, requests |-> 0,
              sweeps |-> FALSE, time |-> 1]
Leaving == [ids |-> 1, challenges |-> 1, applications |-> 2, requests |-> 2,
            sweeps |-> TRUE, time |-> 1]
MCBounds == {SigningIn, Returning, Leaving}
MCCaller == {k1, k2}
MCPhone == {p1, p2}
Symmetry == Permutations(MCCaller) \cup Permutations(MCPhone) \cup Permutations(Agency)
=============================================================================
