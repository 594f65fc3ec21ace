------------------------------ MODULE Officers ------------------------------
(***************************************************************************)
(* The officer lifecycle: agency administrators create, release, post,     *)
(* disable and enable the officers of their own agency (rls/0033, through  *)
(* iam-service), officers activate their account and sign in, and the edge *)
(* gateway keeps the sessions that carry their authority.                  *)
(*                                                                         *)
(* A command is two steps, because the administrator's own account is read *)
(* without a lock before the command waits for the target's row (and, for  *)
(* a status change, for the agency's advisory lock): everything in between *)
(* may change, the administrator's own status included.  A sign-in is two  *)
(* steps as well: iam-service reads the account and mints a token, and the *)
(* edge stores a session for it afterwards.  A browser request resolves    *)
(* its row and acts on it later.                                           *)
(***************************************************************************)
EXTENDS OfficerAccounts, EdgeSessions, FiniteSets

CONSTANTS
    Officer,      \* every officer that may ever exist, by login handle
    Sessions,     \* ids for rows of edge_sessions
    AgencyOf,     \* officer -> agency; fixed when the account is created
    TokenTtl,     \* lifetime of an officer's bearer token (one hour), in ticks
    Scopes,       \* who takes part, who is provisioned and the bounds, for each instance that is checked
    MaxGen        \* bound on the refreshes of one session

\* agency_admin is no assignable post, SQL NULL is no value of a column, and an
\* instance names officers and bounds.
ASSUME OfficersAssumption ==
    /\ NoOne \notin Officer /\ None \notin Nat /\ Admin \notin Posts
    /\ {TokenTtl, CodeTtl} \subseteq Nat /\ MaxGen \in Nat \ {0}
    /\ \A sc \in Scopes : /\ sc.staff \subseteq Officer /\ sc.admins \subseteq Officer
                          /\ {sc.time, sc.issues} \subseteq Nat

VARIABLES
    scope,      \* the instance; never changes
    now,        \* the clock, in ticks
    acct,       \* officer -> row of officer_accounts
    code,       \* officer -> row of officer_activation_codes
    running,    \* administrators whose command is authorised and waits for its locks
    login,      \* officer -> token minted, session not stored yet, or None
    rows,       \* session id -> row of edge_sessions, or None
    req,        \* session id -> "touch" or "keep" for a request that resolved it, or None
    made        \* history: how many codes were generated for the officer

vars == <<scope, now, acct, code, running, login, rows, req, made>>

\* The administrators the operator provisioned.
FirstAdmins == scope.admins

Tokens == [roles : SUBSET (Posts \cup {Admin}), exp : Nat, cut : BOOLEAN]

TypeOK ==
    /\ now \in 0 .. scope.time
    /\ acct \in [Officer -> [st : {"absent", "pending", "active", "disabled"},
                             roles : SUBSET (Posts \cup {Admin}), activated : BOOLEAN,
                             by : Officer \cup {NoOne}]]
    /\ code \in [Officer -> [creator : Officer \cup {NoOne}, issuer : Officer \cup {NoOne},
                             releaser : Officer \cup {NoOne}, issue : 0 .. scope.issues,
                             code : 0 .. scope.issues, redeemed : 0 .. scope.issues, exp : Nat]]
    /\ running \subseteq Officer
    /\ login \in [Officer -> Tokens \cup {None}]
    /\ \A s \in Sessions : rows[s] # None =>
          /\ rows[s].subject \in Officer
          /\ rows[s].idle <= rows[s].absolute
          /\ rows[s].gen \in 1 .. MaxGen
    /\ req \in [Sessions -> {"touch", "keep", None}]
    /\ made \in [Officer -> 0 .. scope.issues]

Init ==
    /\ scope \in Scopes
    /\ now = 0
    /\ acct = [o \in Officer |-> IF o \in FirstAdmins THEN Provisioned({Admin}) ELSE NoAccount]
    /\ code = [o \in Officer |-> NoCode]
    /\ running = {}
    /\ login = [o \in Officer |-> None]
    /\ rows = [s \in Sessions |-> None]
    /\ req = [s \in Sessions |-> None]
    /\ made = [o \in Officer |-> 0]

-----------------------------------------------------------------------------
(* Administrator commands *)

\* The transaction starts and the actor is authorised, before the command
\* waits for a lock.  Which command it is shows only in what it does then.
Authorize(a) ==
    /\ a \notin running
    /\ IsActiveAdmin(acct[a])
    /\ running' = running \cup {a}
    /\ UNCHANGED <<scope, now, acct, code, login, rows, req, made>>

\* officer_private_lock_target: another agency's officer is not found.
TargetFound(a, o) == acct[o].st # "absent" /\ AgencyOf[o] = AgencyOf[a]

\* End every live session of an officer, in the command's own transaction.  A
\* sign-in under way has no session yet; `cut` marks it, for the properties.
EndSessions(o) ==
    /\ rows' = [s \in Sessions |->
                  IF rows[s] # None /\ rows[s].subject = o THEN Revoked(rows[s], now) ELSE rows[s]]
    /\ login' = [login EXCEPT ![o] = IF @ = None THEN None ELSE [@ EXCEPT !.cut = TRUE]]

\* officer_create: the handle is taken under its advisory lock.
CreateOfficer(a, o, posts) ==
    /\ acct[o].st = "absent" /\ AgencyOf[o] = AgencyOf[a] /\ PostsAccepted(posts)
    /\ code[o].issue < scope.issues
    /\ acct' = [acct EXCEPT ![o] = Opened(posts, a)]
    /\ code' = [code EXCEPT ![o] = OpenActivation(@, a, now)]
    /\ UNCHANGED <<rows, login, made>>

ReissueActivation(a, o) ==
    /\ TargetFound(a, o) /\ o # a /\ PendingActivation(acct[o])
    /\ code[o].issue < scope.issues
    /\ code' = [code EXCEPT ![o] = OpenActivation(@, a, now)]
    /\ UNCHANGED <<acct, rows, login, made>>

ReleaseActivation(a, o) ==
    /\ TargetFound(a, o) /\ PendingActivation(acct[o])
    /\ MayRelease(code[o], a, now)
    /\ made' = [made EXCEPT ![o] = @ + 1]
    /\ code' = [code EXCEPT ![o] = Released(@, a, made[o] + 1, now)]
    /\ UNCHANGED <<acct, rows, login>>

\* A change of posts that leaves the sessions, which copy the roles, alone.
MutAssignPosts(a, o, posts) ==
    LET next == AssignedPosts(acct[o], posts)
    IN  /\ TargetFound(a, o) /\ o # a /\ PostsAccepted(posts)
        /\ next # acct[o].roles
        /\ acct' = [acct EXCEPT ![o].roles = next]
        /\ UNCHANGED <<code, rows, login, made>>

\* officer_assign_posts: the same set again ends no session.
AssignPosts(a, o, posts) ==
    LET next == AssignedPosts(acct[o], posts)
    IN  /\ TargetFound(a, o) /\ o # a /\ PostsAccepted(posts)
        /\ next # acct[o].roles
        /\ acct' = [acct EXCEPT ![o].roles = next]
        /\ EndSessions(o)
        /\ UNCHANGED <<code, made>>

\* The count taken without excluding the target.
MutLastActiveAdmin(agency, o) ==
    /\ IsActiveAdmin(acct[o])
    /\ {p \in Officer : AgencyOf[p] = agency /\ IsActiveAdmin(acct[p])} = {}

\* LAST_ACTIVE_ADMIN, counted under the agency's advisory lock.
LastActiveAdmin(agency, o) ==
    /\ IsActiveAdmin(acct[o])
    /\ {p \in Officer \ {o} : AgencyOf[p] = agency /\ IsActiveAdmin(acct[p])} = {}

\* officer_set_status to disabled.
DisableOfficer(a, o) ==
    /\ TargetFound(a, o) /\ ~LastActiveAdmin(AgencyOf[a], o) /\ o # a
    /\ acct[o].st # "disabled"
    /\ acct' = [acct EXCEPT ![o].st = "disabled"]
    /\ EndSessions(o)
    /\ UNCHANGED <<code, made>>

\* officer_set_status to active.
EnableOfficer(a, o) ==
    /\ TargetFound(a, o) /\ o # a
    /\ acct[o].st = "disabled"
    /\ acct' = [acct EXCEPT ![o].st = EnabledAs(acct[o])]
    /\ UNCHANGED <<code, rows, login, made>>

\* officer_revoke_sessions
RevokeSessions(a, o) ==
    /\ TargetFound(a, o) /\ o # a
    /\ EndSessions(o)
    /\ UNCHANGED <<acct, code, made>>

\* The locks are held: the rest of the function runs and commits.
Execute(a, o) ==
    /\ a \in running
    /\ running' = running \ {a}
    /\ \/ \E posts \in SUBSET Posts : CreateOfficer(a, o, posts) \/ AssignPosts(a, o, posts)
       \/ ReissueActivation(a, o)
       \/ ReleaseActivation(a, o)
       \/ DisableOfficer(a, o)
       \/ EnableOfficer(a, o)
       \/ RevokeSessions(a, o)
    /\ UNCHANGED <<scope, now, req>>

\* ... or a condition of the command fails and it commits nothing, which at any
\* time is the answer to some command (one about an unknown officer).
Refuse(a) ==
    /\ a \in running
    /\ running' = running \ {a}
    /\ UNCHANGED <<scope, now, acct, code, login, rows, req, made>>

-----------------------------------------------------------------------------
(* The officer: activation and sign-in *)

\* officer_activate with any code this officer was ever given.
ActivateOfficer(o, serial) ==
    /\ serial <= made[o]
    /\ MayRedeem(acct[o], code[o], serial, now)
    /\ code' = [code EXCEPT ![o].redeemed = serial]
    /\ acct' = [acct EXCEPT ![o].st = "active", ![o].activated = TRUE]
    /\ UNCHANGED <<scope, now, running, login, rows, req, made>>

\* OfficerLoginService.login: the account as it is now, in a one-hour token.
Login(o) ==
    /\ acct[o].st = "active"
    /\ Cardinality({p \in Officer : login[p] # None}) < scope.logins
    /\ login[o] = None
    /\ login' = [login EXCEPT ![o] = [roles |-> acct[o].roles, exp |-> now + TokenTtl,
                                      cut |-> FALSE]]
    /\ UNCHANGED <<scope, now, acct, code, running, rows, req, made>>

\* verifyAuthToken, which the edge applies once and every service on each call.
Accepts(exp, t) == exp > t

\* officerLoginHandler: verify the token, store the session, answer 204.  `late`
\* keeps, for the properties, whether the officer's access was cut meanwhile.
OpenSession(o, s) ==
    /\ login[o] # None
    /\ login' = [login EXCEPT ![o] = None]
    /\ IF Accepts(login[o].exp, now)
       THEN /\ rows[s] = None
            /\ rows' = [rows EXCEPT ![s] = NewSession(o, login[o], now)]
       ELSE UNCHANGED rows
    /\ UNCHANGED <<scope, now, acct, code, running, req, made>>

-----------------------------------------------------------------------------
(* The edge gateway *)

\* resolveSession: a live row behind the handle, then the handler runs.
Resolve(s, gen) ==
    /\ rows[s] # None /\ req[s] = None
    /\ Opens(rows[s], gen, now)
    /\ Lookup(rows[s], now) = "ACTIVE"
    /\ req' = [req EXCEPT ![s] = IF Stale(rows[s], now) THEN "touch" ELSE "keep"]
    /\ UNCHANGED <<scope, now, acct, code, running, login, rows, made>>

\* What the request then writes: the sliding window, and for a refresh the new
\* pair, for a logout the end of the row.
RowAfter(row, touch, kind) ==
    LET touched == IF touch = "touch" THEN Touched(row, now) ELSE row
    IN  CASE kind = "call"    -> touched
          [] kind = "refresh" -> IF MayRotate(touched, now) THEN Rotated(touched, now) ELSE touched
          [] kind = "logout"  -> Revoked(touched, now)

FinishRequest(s, kind) ==
    /\ req[s] # None
    /\ req' = [req EXCEPT ![s] = None]
    /\ IF rows[s] = None THEN UNCHANGED rows
       ELSE /\ kind = "refresh" => rows[s].gen < MaxGen
            /\ rows' = [rows EXCEPT ![s] = RowAfter(@, req[s], kind)]
    /\ UNCHANGED <<scope, now, acct, code, running, login, made>>

\* The sweep deletes rows past their end.
Sweep ==
    /\ \E s \in Sessions : rows[s] # None /\ Sweepable(rows[s], now)
    /\ rows' = [s \in Sessions |->
                  IF rows[s] # None /\ Sweepable(rows[s], now) THEN None ELSE rows[s]]
    /\ UNCHANGED <<scope, now, acct, code, running, login, req, made>>

\* A tick is long beside a request: no transaction or call spans two of them.
Tick ==
    /\ now < scope.time
    /\ running = {} /\ \A o \in Officer : login[o] = None /\ \A s \in Sessions : req[s] = None
    /\ now' = now + 1
    /\ UNCHANGED <<scope, acct, code, running, login, rows, req, made>>

Next ==
    \/ \E a \in scope.staff : Authorize(a)
    \/ \E a, o \in scope.staff : Execute(a, o)
    \/ \E a \in scope.staff : Refuse(a)
    \/ \E o \in scope.staff : \E n \in 1 .. scope.issues : ActivateOfficer(o, n)
    \/ \E o \in scope.staff : Login(o)
    \/ \E o \in scope.staff, s \in Sessions : OpenSession(o, s)
    \/ \E s \in Sessions, g \in 1 .. MaxGen : Resolve(s, g)
    \/ \E s \in Sessions, kind \in {"call", "refresh", "logout"} : FinishRequest(s, kind)
    \/ Sweep
    \/ Tick

Spec == Init /\ [][Next]_vars

-----------------------------------------------------------------------------
(* Properties *)

\* Two administrators who disable each other, and any other race of status
\* changes, leave every agency somebody who can administer it: the count in
\* officer_set_status is taken under the advisory lock, not at authorisation.
AlwaysAnAdmin ==
    \A first \in FirstAdmins :
        \E o \in Officer : AgencyOf[o] = AgencyOf[first] /\ IsActiveAdmin(acct[o])

\* Whoever holds an activation code neither created the account nor issued the
\* activation the code is for, however often and by whomever it was reissued
\* (rls/0033, FOUR-EYES).
FourEyes ==
    \A o \in Officer : code[o].releaser # NoOne =>
        code[o].releaser \notin {acct[o].by, code[o].issuer}

\* An account is activated with the last code generated for it: a code released
\* before a reissue opens nothing (officer_private_open_activation).
RedeemedIsLatest ==
    \A o \in Officer : code[o].redeemed # 0 => code[o].redeemed = made[o]

\* A session lends exactly the authority its officer has: disabling the officer
\* or changing the posts ends every session there is.  The one that can lend
\* more was stored by a sign-in whose account was read before the change and
\* whose session was written after it.
SessionsMatchAccounts ==
    \A s \in Sessions : rows[s] # None =>
        LET row == rows[s]
        IN  row.revokedAt = None /\ ~row.late =>
                acct[row.subject].st = "active" /\ row.roles = acct[row.subject].roles

\* Even such a session serves no request once a token's lifetime has passed: the
\* services verify the token's own expiry (ADR-036, residual).
LateAccessEndsWithTheToken ==
    \A s \in Sessions : rows[s] # None =>
        (Lookup(rows[s], now) = "ACTIVE" /\ rows[s].late /\ Accepts(rows[s].exp, now)
           => now < rows[s].issued + TokenTtl)

\* No sequence of requests and refreshes carries a session past its ceiling
\* (session.controller.ts: "The absolute ceiling is never advanced").
CeilingHolds ==
    \A s \in Sessions : rows[s] # None =>
        (Lookup(rows[s], now) = "ACTIVE" => now < rows[s].issued + AbsoluteTtl)

\* Once an officer holds a credential no command opens their activation again,
\* not through a disable and an enable either (officer_reissue_activation:
\* "Never a password reset").
ActivatedForGood ==
    [][\A o \in Officer : acct[o].activated =>
          acct'[o].activated /\ acct'[o].st # "pending" /\ code'[o] = code[o]]_vars

\* An activation takes two people and the latest code.
ActivationIsSound == FourEyes /\ RedeemedIsLatest

\* A session lends what its officer has and ends when it must: with a change of
\* the account, with its token, at its ceiling.
SessionsEndInTime ==
    TypeOK /\ SessionsMatchAccounts /\ LateAccessEndsWithTheToken /\ CeilingHolds
=============================================================================
