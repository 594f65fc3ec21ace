----------------------------- MODULE MCCampaign -----------------------------
(* One campaign through its whole life, two drafts of its code, a key used for *)
(* two different sessions and one for two campaigns, and a legacy campaign.    *)
EXTENDS Campaign, TLC

Command(op, key, code, body) == [ actor |-> "ann", op |-> op, key |-> key, code |-> code, body |-> body ]
Session(d, capacity, on) ==
  [ district |-> d, date |-> 2, capacity |-> capacity, decision |-> capacity = 0, active |-> on ]

MCAgencyOf == [ ann |-> "RDF" ]
MCCategories == [ RDF |-> { "cadet" } ]
MCLegacy == [ old |-> "RDF" ]
MCDraft == [ districts |-> { "d1", "d2" }, categories |-> { "cadet" }, first |-> 1, last |-> 2 ]

WorkerSymmetry == Permutations(Workers)

MCRequests ==
  { Command("createCampaignDraft", 1, "c1", MCDraft),
    Command("createCampaignPolicyVersion", 2, "c1", [ categories |-> { "cadet" } ]),
    Command("configureCampaignSession", 3, "c1", Session("d1", 1, TRUE)),
    Command("configureCampaignSession", 3, "c1", Session("d1", 1, FALSE)),
    Command("configureCampaignSession", 4, "c1", Session("d2", 0, TRUE)),
    Command("configureCampaignSession", 9, "c1", Session("d2", 0, TRUE)),
    Command("publishCampaign", 5, "c1", None),
    Command("closeCampaignRegistration", 6, "c1", None),
    Command("completeCampaign", 7, "c1", None),
    Command("completeCampaign", 7, "old", None),
    Command("cancelCampaign", 8, "c1", None) }
=============================================================================
