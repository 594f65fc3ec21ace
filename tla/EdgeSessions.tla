---------------------------- MODULE EdgeSessions ----------------------------
(***************************************************************************)
(* One row of public_core.edge_sessions, the edge gateway's session store: *)
(* the cookie a browser holds is an opaque handle, the row behind it keeps *)
(* a copy of the officer's roles and the sealed upstream token, and ending *)
(* the row is the only way to end the access.  Time is a number of ticks.  *)
(*                                                                         *)
(* A refresh mints a new handle and a new CSRF token together, so the pair *)
(* is one secret here: generation `gen` is the current pair, gen - 1 the   *)
(* previous one, still good until `prevUntil`.                             *)
(***************************************************************************)
EXTENDS Naturals, FiniteSetsExt

CONSTANTS
    None,            \* SQL NULL
    IdleTtl,         \* EDGE_SESSION idle window, in ticks
    AbsoluteTtl,     \* the ceiling of one session
    RotationGrace,   \* how long a rotated-away handle keeps working
    TouchInterval,   \* the sliding window is written at most once per interval
    SweepGrace       \* a dead row is deleted this long after its end

ASSUME SessionClocks ==
    /\ {IdleTtl, AbsoluteTtl, RotationGrace, TouchInterval} \subseteq Nat \ {0}
    /\ SweepGrace \in Nat

\* The sliding deadline, never past the absolute one.
IdleDeadline(t, absolute) == Min({t + IdleTtl, absolute})

\* create(): the roles and the expiry are those of the verified token.
NewSession(subject, token, t) ==
    [subject   |-> subject,        roles    |-> token.roles,
     exp       |-> token.exp,      late     |-> token.cut,
     gen       |-> 1,              prevUntil |-> None,
     issued    |-> t,              seen     |-> t,
     absolute  |-> t + AbsoluteTtl,
     idle      |-> IdleDeadline(t, t + AbsoluteTtl),
     revokedAt |-> None]

\* The WHERE of findByHandle: the current handle, or the previous one in grace.
Opens(row, gen, t) ==
    \/ gen = row.gen
    \/ gen + 1 = row.gen /\ row.prevUntil # None /\ row.prevUntil > t

\* What findByHandle answers, the revocation and the ceiling before the idle
\* window.  A row whose credential will not decrypt answers as revoked too.
Lookup(row, t) ==
    IF row.revokedAt # None THEN "revoked"
    ELSE IF row.absolute <= t THEN "absolute"
    ELSE IF row.idle <= t THEN "idle" ELSE "ACTIVE"

\* Whether the lookup at t will write the sliding window.
Stale(row, t) == row.seen + TouchInterval <= t

\* The UPDATE of #touchIfStale.  t is the instant the lookup read: the row may
\* have been revoked since, and then it is left alone.
Touched(row, t) ==
    IF row.revokedAt # None THEN row
    ELSE [row EXCEPT !.idle = IdleDeadline(t, row.absolute), !.seen = t]

\* The WHERE of rotate(): a row revoked since the lookup is not rotated.
MayRotate(row, t) == row.revokedAt = None /\ row.absolute > t

\* rotate(): both secrets and the idle window move, the ceiling does not.
Rotated(row, t) ==
    [row EXCEPT !.gen = @ + 1, !.prevUntil = t + RotationGrace, !.seen = t,
                !.idle = IdleDeadline(t, row.absolute)]

\* revoke(), and the same UPDATE in officer_private_revoke_sessions: the sealed
\* credential and the previous handle are blanked with the row.
Revoked(row, t) ==
    IF row.revokedAt # None THEN row
    ELSE [row EXCEPT !.revokedAt = t, !.prevUntil = None]

\* deleteExpired(), called with the time SweepGrace ago.
Sweepable(row, t) ==
    \/ row.absolute + SweepGrace < t
    \/ row.revokedAt # None /\ row.revokedAt + SweepGrace < t
=============================================================================
