--------------------------- MODULE MCApplications ---------------------------
(* Instances of Applications: who owns which application. *)
EXTENDS Applications

CONSTANTS a1, a2, c1, o1, o2, k1, k2

\* One citizen with one application to the RDF, the agency with a walk-in lane.
OneApp == {a1}
OneCitizenOf == [a \in OneApp |-> c1]
OneAgencyOf == [a \in OneApp |-> "RDF"]
OneCampaignOf == [a \in OneApp |-> k1]
RdfOfficers == {o1, o2}
RdfOfficerAgency == [o \in RdfOfficers |-> "RDF"]

\* One citizen who applies to the RNP and walks in at a campaign of the RDF left
\* from an earlier release, an officer in each agency, campaigns that end.
TwoApps == {a1, a2}
TwoCitizenOf == [a \in TwoApps |-> c1]
TwoAgencyOf == [a \in TwoApps |-> IF a = a1 THEN "RNP" ELSE "RDF"]
TwoCampaignOf == [a \in TwoApps |-> IF a = a1 THEN k1 ELSE k2]
TwoOfficers == {o1, o2}
TwoOfficerAgency == [o \in TwoOfficers |-> IF o = o1 THEN "RNP" ELSE "RDF"]
=============================================================================
