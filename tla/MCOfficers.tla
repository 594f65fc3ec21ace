---------------------------- MODULE MCOfficers ----------------------------
(***************************************************************************)
(* Two instances: three administrators of one agency, the only             *)
(* administrator of another and an officer to be created, who never sign   *)
(* in; and two administrators who sign in, browse and disable each other.  *)
(***************************************************************************)
EXTENDS Officers, TLC

CONSTANTS a, b, c, z, o, d, e

MCOfficer == {a, b, c, z, o, d, e}
MCAgencyOf == [x \in MCOfficer |-> IF x = z THEN "RNP" ELSE "RDF"]
MCPosts == {"reviewer"}
Accounts == [staff |-> {a, b, c, z, o}, admins |-> {a, b, c, z}, logins |-> 0, time |-> 2, issues |-> 2]
SigningIn == [staff |-> {d, e}, admins |-> {d, e}, logins |-> 1, time |-> 5, issues |-> 0]
MCScopes == {Accounts, SigningIn}
Symmetry == Permutations({a, b, c}) \cup Permutations({d, e})
=============================================================================
