--------------------------- MODULE OfficerAccounts ---------------------------
(***************************************************************************)
(* officer_accounts and officer_activation_codes: what the officer command *)
(* functions (rls/0033) decide and write about one officer, as operators   *)
(* on the two rows.                                                        *)
(***************************************************************************)
EXTENDS Naturals

CONSTANTS
    NoOne,        \* SQL NULL where an officer id is expected
    Admin,        \* the post agency_admin, which no command assigns
    Posts,        \* the assignable posts
    CodeTtl       \* 24 hours, in ticks

\* An account that does not exist yet; its login handle is free.
NoAccount == [st |-> "absent", roles |-> {}, activated |-> FALSE, by |-> NoOne]

\* provision_first_campaign_agency_admin and the operator's own inserts: the
\* stamp trigger dates the activation of an account born with a credential.
Provisioned(roles) ==
    [st |-> "active", roles |-> roles, activated |-> TRUE, by |-> NoOne]

\* The account officer_create inserts: pending, with a sentinel for credential.
Opened(posts, by) ==
    [st |-> "pending", roles |-> posts, activated |-> FALSE, by |-> by]

\* No row in officer_activation_codes.
NoCode == [creator |-> NoOne, issuer |-> NoOne, releaser |-> NoOne, issue |-> 0,
           code |-> 0, redeemed |-> 0, exp |-> 0]

\* officer_private_authorize_admin: read without a lock.
IsActiveAdmin(acct) == acct.st = "active" /\ Admin \in acct.roles

\* officer_private_posts_refusal and its mirror validatePosts.
PostsAccepted(posts) == posts # {} /\ posts \subseteq Posts

\* The check made on the status alone, and only against an account in use.
MutPendingActivation(acct) == acct.st # "active"

\* Only an account that never held a real credential has an activation.
PendingActivation(acct) == acct.st = "pending" /\ ~acct.activated

\* officer_private_open_activation: the first issuer stays the creator, and a
\* code released earlier is gone.
OpenActivation(row, by, t) ==
    [row EXCEPT !.creator = IF @ = NoOne THEN by ELSE @, !.issuer = by,
                !.issue = @ + 1, !.releaser = NoOne, !.code = 0, !.redeemed = 0, !.exp = t + CodeTtl]

\* The four-eyes check made against the latest issuer alone.
MutMayRelease(row, by, t) ==
    /\ row.issue > 0 /\ row.redeemed = 0
    /\ by # row.issuer
    /\ row.releaser = NoOne /\ row.exp > t

\* officer_release_activation after the account is locked: an open activation,
\* neither created nor issued by this administrator, not yet released, in time.
MayRelease(row, by, t) ==
    /\ row.issue > 0 /\ row.redeemed = 0
    /\ by # row.issuer /\ by # row.creator
    /\ row.releaser = NoOne /\ row.exp > t

\* The code is generated now, for this administrator; `code` is its serial.
Released(row, by, serial, t) ==
    [row EXCEPT !.releaser = by, !.code = serial, !.exp = t + CodeTtl]

\* officer_activate: the code on file, released, unused, in time.
MayRedeem(acct, row, serial, t) ==
    /\ acct.st = "pending"
    /\ row.redeemed = 0 /\ row.releaser # NoOne /\ row.exp > t
    /\ row.code = serial

\* The post set officer_assign_posts writes: agency_admin is kept, never added.
AssignedPosts(acct, posts) == posts \cup (acct.roles \cap {Admin})

\* An account disabled before its activation returns to pending.
EnabledAs(acct) == IF acct.activated THEN "active" ELSE "pending"
=============================================================================
