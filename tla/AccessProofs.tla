---------------------------- MODULE AccessProofs ----------------------------
(***************************************************************************)
(* Who may act in the system: theorems about officers and their sessions,  *)
(* and about citizens, who sign in by one-time code and may be erased.     *)
(***************************************************************************)
EXTENDS Officers, Citizen, FiniteSetTheorems, SequenceTheorems, WellFoundedInduction, TLAPS

(***************************************************************************)
(* Theorems about Officers, for any officers, agencies, sessions, clocks   *)
(* and instances.                                                          *)
(*                                                                         *)
(* The invariant ties together what the code keeps in three tables: an     *)
(* account and the activation it is waiting for (PairOK), the token of a   *)
(* sign-in under way and the account it was minted from (TokenOK), and the *)
(* row of a session and the account it speaks for (RowOK).                 *)
(***************************************************************************)
Accounts ==
    [st : {"absent", "pending", "active", "disabled"}, roles : SUBSET (Posts \cup {Admin}),
     activated : BOOLEAN, by : Officer \cup {NoOne}]

Codes(n) ==
    [creator : Officer \cup {NoOne}, issuer : Officer \cup {NoOne},
     releaser : Officer \cup {NoOne}, issue : 0 .. n,
     code : 0 .. n, redeemed : 0 .. n, exp : Nat]

Rows ==
    [subject : Officer, roles : SUBSET (Posts \cup {Admin}), exp : Nat, late : BOOLEAN,
     gen : 1 .. MaxGen, prevUntil : Nat \cup {None}, issued : Nat, seen : Nat,
     absolute : Nat, idle : Nat, revokedAt : Nat \cup {None}]

\* An account without a credential has a creator, who is the creator of its
\* activation as well; a code on file is the last one generated, and as many
\* codes are generated as activations were opened, at most.
PairOK(ac, co, m) ==
    /\ co.creator = ac.by
    /\ ac.st = "absent" => ac.by = NoOne /\ ~ac.activated
    /\ ac.st = "active" => ac.activated
    /\ ac.st = "pending" => ~ac.activated
    /\ ac.st # "absent" /\ ~ac.activated => ac.by # NoOne
    /\ m <= co.issue
    /\ co.releaser = NoOne => co.code = 0 /\ (co.issue > 0 => m < co.issue)
    /\ co.releaser # NoOne => co.code = m /\ co.releaser \notin {ac.by, co.issuer}
    /\ co.redeemed # 0 => co.releaser # NoOne /\ co.redeemed = m

\* A token lends what the account had when it was minted; unless a command has
\* cut it since, the account still has it.
TokenOK(tok, ac, t) ==
    tok # None =>
        /\ tok.exp <= t + TokenTtl
        /\ ~tok.cut => ac.st = "active" /\ tok.roles = ac.roles

\* A session's deadlines follow from its start, and the row of one that is not
\* revoked and was not late agrees with the account.
RowOK(row, ac) ==
    row # None =>
        /\ row.absolute = row.issued + AbsoluteTtl
        /\ row.idle <= row.absolute
        /\ row.exp <= row.issued + TokenTtl
        /\ row.revokedAt = None /\ ~row.late =>
             ac[row.subject].st = "active" /\ row.roles = ac[row.subject].roles

TypesOK ==
    /\ scope \in Scopes
    /\ now \in 0 .. scope.time
    /\ acct \in [Officer -> Accounts]
    /\ code \in [Officer -> Codes(scope.issues)]
    /\ running \subseteq Officer
    /\ login \in [Officer -> Tokens \cup {None}]
    /\ rows \in [Sessions -> Rows \cup {None}]
    /\ req \in [Sessions -> {"touch", "keep", None}]
    /\ made \in [Officer -> 0 .. scope.issues]

\* The inductive invariant.
IInv ==
    /\ TypesOK
    /\ \A o \in Officer : PairOK(acct[o], code[o], made[o])
    /\ \A o \in Officer : TokenOK(login[o], acct[o], now)
    /\ \A s \in Sessions : RowOK(rows[s], acct)
    /\ AlwaysAnAdmin

-----------------------------------------------------------------------------
(* Facts about the rows *)

LEMMA IdleDeadlineFacts ==
  ASSUME NEW t \in Nat, NEW limit \in Nat
  PROVE  IdleDeadline(t, limit) \in Nat /\ IdleDeadline(t, limit) <= limit
<1>1. PICK m \in {t + IdleTtl, limit} : \A y \in {t + IdleTtl, limit} : m <= y
  BY SessionClocks
<1>2. /\ Min({t + IdleTtl, limit}) \in {t + IdleTtl, limit}
      /\ \A y \in {t + IdleTtl, limit} : Min({t + IdleTtl, limit}) <= y
  BY <1>1 DEF Min
<1> QED BY <1>2, SessionClocks DEF IdleDeadline

\* What a request may do to a row: the officer, the roles, the token's expiry
\* and the ceiling stay, and a revoked row stays revoked.
Continues(row, new) ==
    /\ new \in Rows
    /\ new.subject = row.subject /\ new.roles = row.roles /\ new.exp = row.exp
    /\ new.late = row.late /\ new.issued = row.issued /\ new.absolute = row.absolute
    /\ new.idle = row.idle \/ new.idle <= row.absolute
    /\ new.revokedAt = None => row.revokedAt = None

LEMMA RevokedFacts ==
  ASSUME NEW row \in Rows, NEW t \in Nat
  PROVE  Continues(row, Revoked(row, t)) /\ Revoked(row, t).revokedAt # None
<1>1. CASE row.revokedAt # None
  BY <1>1 DEF Revoked, Continues
<1>2. CASE row.revokedAt = None
  <2>1. Revoked(row, t) = [row EXCEPT !.revokedAt = t, !.prevUntil = None]
    BY <1>2 DEF Revoked
  <2> QED BY <1>2, <2>1, OfficersAssumption, ZenonT(60) DEF Continues, Rows
<1> QED BY <1>1, <1>2

LEMMA TouchedFacts ==
  ASSUME NEW row \in Rows, NEW t \in Nat
  PROVE  Continues(row, Touched(row, t)) /\ Touched(row, t).gen = row.gen
<1>1. CASE row.revokedAt # None
  BY <1>1 DEF Touched, Continues
<1>2. CASE row.revokedAt = None
  <2> DEFINE d == IdleDeadline(t, row.absolute)
  <2>1. Touched(row, t) = [row EXCEPT !.idle = d, !.seen = t]
    BY <1>2 DEF Touched
  <2>2. row.absolute \in Nat
    BY DEF Rows
  <2>3. d \in Nat /\ d <= row.absolute
    BY <2>2, IdleDeadlineFacts
  <2> HIDE DEF d
  <2> QED BY <1>2, <2>1, <2>3 DEF Continues, Rows
<1> QED BY <1>1, <1>2

LEMMA RotatedFacts ==
  ASSUME NEW row \in Rows, NEW t \in Nat, row.gen < MaxGen
  PROVE  Continues(row, Rotated(row, t))
<1> DEFINE d == IdleDeadline(t, row.absolute)
<1>1. /\ row.absolute \in Nat /\ row.gen + 1 \in 1 .. MaxGen
      /\ t + RotationGrace \in Nat
  BY OfficersAssumption, SessionClocks DEF Rows
<1>2. d \in Nat /\ d <= row.absolute
  BY <1>1, IdleDeadlineFacts
<1>3. Rotated(row, t) = [row EXCEPT !.gen = row.gen + 1, !.prevUntil = t + RotationGrace,
                                    !.seen = t, !.idle = d]
  BY DEF Rotated, Rows
<1> HIDE DEF d
<1> QED BY <1>1, <1>2, <1>3 DEF Continues, Rows

LEMMA ContinuesTwice ==
  ASSUME NEW row \in Rows, NEW mid, NEW new, Continues(row, mid), Continues(mid, new)
  PROVE  Continues(row, new)
BY DEF Continues, Rows

\* Touch, then refresh or log out.
LEMMA RowAfterFacts ==
  ASSUME NEW row \in Rows, now \in Nat, NEW touch, NEW kind \in {"call", "refresh", "logout"},
         kind = "refresh" => row.gen < MaxGen
  PROVE  Continues(row, RowAfter(row, touch, kind))
<1> DEFINE mid == IF touch = "touch" THEN Touched(row, now) ELSE row
<1>1. Continues(row, row)
  BY DEF Continues, Rows
<1>2. Continues(row, mid) /\ mid.gen = row.gen /\ mid \in Rows
  BY <1>1, TouchedFacts DEF Continues
<1>3. RowAfter(row, touch, kind) \in {mid, Rotated(mid, now), Revoked(mid, now)}
  BY DEF RowAfter
<1>4. kind # "refresh" => RowAfter(row, touch, kind) \in {mid, Revoked(mid, now)}
  BY DEF RowAfter
<1> HIDE DEF mid
<1>5. Continues(mid, mid) /\ Continues(mid, Revoked(mid, now))
  BY <1>2, RevokedFacts, ZenonT(60) DEF Continues, Rows
<1>6. kind = "refresh" => Continues(mid, Rotated(mid, now))
  BY <1>2, RotatedFacts
<1>7. Continues(mid, RowAfter(row, touch, kind))
  BY <1>3, <1>4, <1>5, <1>6
<1> QED BY <1>2, <1>7, ContinuesTwice

\* A row goes on as before, as far as the account is concerned.
LEMMA ContinuesKeepsRowOK ==
  ASSUME NEW row \in Rows, NEW new, NEW ac, row # None, RowOK(row, ac), Continues(row, new)
  PROVE  RowOK(new, ac)
BY DEF RowOK, Continues, Rows

-----------------------------------------------------------------------------
(* The administrator commands *)

\* Ending the sessions of an officer leaves nothing that speaks for the account
\* as it was: the rows are revoked and the sign-ins under way are cut.
LEMMA EndSessionsFacts ==
  ASSUME IInv, NEW o \in Officer, EndSessions(o), NEW ac,
         \A p \in Officer \ {o} : ac[p] = acct[p]
  PROVE  /\ login' \in [Officer -> Tokens \cup {None}]
         /\ rows' \in [Sessions -> Rows \cup {None}]
         /\ \A p \in Officer : TokenOK(login'[p], ac[p], now)
         /\ \A s \in Sessions : RowOK(rows'[s], ac)
<1>1. /\ now \in Nat
      /\ login \in [Officer -> Tokens \cup {None}]
      /\ rows \in [Sessions -> Rows \cup {None}]
  BY OfficersAssumption DEF IInv, TypesOK
<1>2. /\ login' \in [Officer -> Tokens \cup {None}]
      /\ \A p \in Officer : TokenOK(login'[p], ac[p], now)
  <2>1. ASSUME NEW tok \in Tokens
        PROVE  LET c == [tok EXCEPT !.cut = TRUE]
               IN  c \in Tokens /\ c.cut /\ c.exp = tok.exp
    BY DEF Tokens
  <2>2. CASE login[o] = None
    BY <1>1, <2>2 DEF EndSessions, IInv, TokenOK
  <2>3. CASE login[o] # None
    <3>1. login' = [login EXCEPT ![o] = [login[o] EXCEPT !.cut = TRUE]]
      BY <2>3, <1>1 DEF EndSessions
    <3>2. login[o] \in Tokens /\ TokenOK(login[o], acct[o], now)
      BY <2>3, <1>1 DEF IInv
    <3>3. TokenOK(login'[o], ac[o], now) /\ login'[o] \in Tokens
      BY <1>1, <2>1, <2>3, <3>1, <3>2 DEF TokenOK
    <3>4. \A p \in Officer \ {o} : login'[p] = login[p]
      BY <1>1, <3>1
    <3>5. \A p \in Officer \ {o} : TokenOK(login'[p], ac[p], now)
      BY <3>4 DEF IInv
    <3> QED BY <1>1, <3>1, <3>3, <3>5
  <2> QED BY <2>2, <2>3
<1>3. ASSUME NEW s \in Sessions
      PROVE  rows'[s] \in Rows \cup {None} /\ RowOK(rows'[s], ac)
  <2>1. RowOK(rows[s], acct) /\ rows[s] \in Rows \cup {None}
    BY <1>1 DEF IInv
  <2>2. CASE rows[s] = None
    BY <2>2 DEF EndSessions, RowOK
  <2>3. CASE rows[s] # None /\ rows[s].subject # o
    <3>1. rows'[s] = rows[s] /\ rows[s].subject \in Officer
      BY <2>1, <2>3 DEF EndSessions, Rows
    <3> QED BY <2>1, <2>3, <3>1 DEF RowOK
  <2>4. CASE rows[s] # None /\ rows[s].subject = o
    <3>1. rows'[s] = Revoked(rows[s], now)
      BY <2>4 DEF EndSessions
    <3>2. Continues(rows[s], rows'[s]) /\ rows'[s].revokedAt # None
      BY <1>1, <2>1, <2>4, <3>1, RevokedFacts
    <3> QED BY <2>1, <2>4, <3>2 DEF RowOK, Continues, Rows
  <2> QED BY <2>2, <2>3, <2>4
<1>4. rows' \in [Sessions -> Rows \cup {None}]
  BY <1>3 DEF EndSessions
<1> QED BY <1>2, <1>3, <1>4

\* A command that rewrites the two rows of one officer keeps the invariant when
\* the rows agree, when the sessions are ended or the authority they lend is
\* left alone, and when an administrator remains.
LEMMA CommandKeepsInv ==
  ASSUME IInv, NEW o \in Officer, NEW ac \in Accounts, NEW co \in Codes(scope.issues),
         NEW m \in 0 .. scope.issues,
         UNCHANGED <<scope, now, req>>, running' \subseteq running,
         acct' = [acct EXCEPT ![o] = ac], code' = [code EXCEPT ![o] = co],
         made' = [made EXCEPT ![o] = m],
         PairOK(ac, co, m),
         \/ EndSessions(o)
         \/ /\ UNCHANGED <<login, rows>>
            /\ acct[o].st = "active" => ac.st = "active" /\ ac.roles = acct[o].roles,
         \/ IsActiveAdmin(acct[o]) => IsActiveAdmin(ac)
         \/ \E p \in Officer \ {o} : AgencyOf[p] = AgencyOf[o] /\ IsActiveAdmin(acct[p])
  PROVE  IInv'
<1>1. /\ acct \in [Officer -> Accounts] /\ code \in [Officer -> Codes(scope.issues)]
      /\ made \in [Officer -> 0 .. scope.issues]
  BY DEF IInv, TypesOK
<1>2. /\ acct' \in [Officer -> Accounts] /\ code' \in [Officer -> Codes(scope.issues)]
      /\ made' \in [Officer -> 0 .. scope.issues]
      /\ acct'[o] = ac /\ code'[o] = co /\ made'[o] = m
      /\ \A p \in Officer \ {o} : acct'[p] = acct[p] /\ code'[p] = code[p] /\ made'[p] = made[p]
  BY <1>1
<1>3. \A p \in Officer : PairOK(acct'[p], code'[p], made'[p])
  BY <1>2 DEF IInv
<1>4. /\ login' \in [Officer -> Tokens \cup {None}]
      /\ rows' \in [Sessions -> Rows \cup {None}]
      /\ \A p \in Officer : TokenOK(login'[p], acct'[p], now)
      /\ \A s \in Sessions : RowOK(rows'[s], acct')
  <2>1. CASE EndSessions(o)
    BY <1>2, <2>1, EndSessionsFacts
  <2>2. CASE /\ UNCHANGED <<login, rows>>
             /\ acct[o].st = "active" => ac.st = "active" /\ ac.roles = acct[o].roles
    <3>1. \A p \in Officer : TokenOK(login'[p], acct'[p], now)
      BY <1>2, <2>2 DEF IInv, TokenOK
    <3>2. ASSUME NEW s \in Sessions, rows[s] # None
          PROVE  RowOK(rows[s], acct')
      <4>1. RowOK(rows[s], acct) /\ rows[s].subject \in Officer
        BY <3>2 DEF IInv, TypesOK, Rows
      <4> QED BY <1>2, <2>2, <3>2, <4>1 DEF RowOK
    <3>3. \A s \in Sessions : RowOK(rows'[s], acct')
      BY <2>2, <3>2 DEF RowOK
    <3> QED BY <2>2, <3>1, <3>3 DEF IInv, TypesOK
  <2> QED BY <2>1, <2>2
<1>5. AlwaysAnAdmin'
  <2> SUFFICES ASSUME NEW first \in FirstAdmins
               PROVE  \E p \in Officer : AgencyOf[p] = AgencyOf[first] /\ IsActiveAdmin(acct'[p])
    BY DEF AlwaysAnAdmin, FirstAdmins
  <2>1. PICK p \in Officer : AgencyOf[p] = AgencyOf[first] /\ IsActiveAdmin(acct[p])
    BY DEF IInv, AlwaysAnAdmin
  <2> QED BY <1>2, <2>1
<1>6. TypesOK'
  BY <1>2, <1>4 DEF IInv, TypesOK
<1> QED BY <1>3, <1>4, <1>5, <1>6 DEF IInv

\* What the invariant says of one officer's rows.
LEMMA PairFacts ==
  ASSUME IInv, NEW o \in Officer
  PROVE  /\ scope.issues \in Nat /\ now \in Nat /\ CodeTtl \in Nat
         /\ acct[o] \in Accounts /\ code[o] \in Codes(scope.issues)
         /\ made[o] \in 0 .. scope.issues
         /\ PairOK(acct[o], code[o], made[o])
         /\ acct = [acct EXCEPT ![o] = acct[o]] /\ code = [code EXCEPT ![o] = code[o]]
         /\ made = [made EXCEPT ![o] = made[o]]
<1>1. scope.issues \in Nat /\ scope.time \in Nat /\ CodeTtl \in Nat
  BY OfficersAssumption DEF IInv, TypesOK
<1> QED BY <1>1 DEF IInv, TypesOK

\* An activation opened by administrator a for a creator's account.
LEMMA OpenActivationFacts ==
  ASSUME IInv, NEW o \in Officer, NEW a \in Officer, code[o].issue < scope.issues
  PROVE  LET co == OpenActivation(code[o], a, now)
         IN  /\ co \in Codes(scope.issues)
             /\ co.creator = (IF code[o].creator = NoOne THEN a ELSE code[o].creator)
             /\ co.issue = code[o].issue + 1 /\ co.issuer = a
             /\ co.releaser = NoOne /\ co.code = 0 /\ co.redeemed = 0
<1> DEFINE co == OpenActivation(code[o], a, now)
           c == IF code[o].creator = NoOne THEN a ELSE code[o].creator
<1>1. /\ code[o] \in Codes(scope.issues) /\ now + CodeTtl \in Nat
      /\ scope.issues \in Nat
  BY PairFacts
<1>2. c \in Officer \cup {NoOne} /\ code[o].issue + 1 \in 0 .. scope.issues /\ 0 \in 0 .. scope.issues
  BY <1>1 DEF Codes
<1>3. co = [code[o] EXCEPT !.creator = c, !.issuer = a, !.issue = code[o].issue + 1,
              !.releaser = NoOne, !.code = 0, !.redeemed = 0, !.exp = now + CodeTtl]
  BY <1>1 DEF OpenActivation, Codes
<1>4. /\ co \in Codes(scope.issues) /\ co.creator = c
      /\ co.issue = code[o].issue + 1 /\ co.issuer = a
      /\ co.releaser = NoOne /\ co.code = 0 /\ co.redeemed = 0
  <2> HIDE DEF c, co
  <2> QED BY <1>1, <1>2, <1>3 DEF Codes
<1> QED BY <1>4

LEMMA CreateKeepsInv ==
  ASSUME IInv, NEW a \in Officer, NEW o \in Officer, NEW posts \in SUBSET Posts,
         CreateOfficer(a, o, posts), UNCHANGED <<scope, now, req>>, running' \subseteq running
  PROVE  IInv'
<1> DEFINE ac == Opened(posts, a)
           co == OpenActivation(code[o], a, now)
<1>1. /\ acct[o].st = "absent" /\ acct' = [acct EXCEPT ![o] = ac]
      /\ code[o].issue < scope.issues /\ code' = [code EXCEPT ![o] = co]
      /\ UNCHANGED <<rows, login, made>>
  BY PairFacts DEF CreateOfficer
<1>2. /\ co \in Codes(scope.issues) /\ co.issue = code[o].issue + 1
      /\ co.creator = (IF code[o].creator = NoOne THEN a ELSE code[o].creator)
      /\ co.releaser = NoOne /\ co.code = 0 /\ co.redeemed = 0
  BY <1>1, OpenActivationFacts
<1>3. /\ ac \in Accounts /\ ac.by = a /\ ac.st = "pending" /\ ~ac.activated
  BY DEF Opened, Accounts
<1> HIDE DEF ac, co
<1>4. code[o].issue \in Nat /\ made[o] \in Nat /\ code[o].creator = NoOne /\ made[o] <= code[o].issue
  BY <1>1, PairFacts DEF PairOK, Codes
<1>5. PairOK(ac, co, made[o])
  BY <1>2, <1>3, <1>4, OfficersAssumption DEF PairOK
<1> QED BY <1>1, <1>2, <1>3, <1>5, PairFacts, CommandKeepsInv DEF IsActiveAdmin

LEMMA ReissueKeepsInv ==
  ASSUME IInv, NEW a \in Officer, NEW o \in Officer,
         ReissueActivation(a, o), UNCHANGED <<scope, now, req>>, running' \subseteq running
  PROVE  IInv'
<1> DEFINE co == OpenActivation(code[o], a, now)
<1>1. /\ acct[o].st = "pending" /\ ~acct[o].activated
      /\ code[o].issue < scope.issues /\ code' = [code EXCEPT ![o] = co]
      /\ UNCHANGED <<acct, rows, login, made>>
  BY PairFacts DEF ReissueActivation, PendingActivation
<1>2. /\ co \in Codes(scope.issues) /\ co.issue = code[o].issue + 1
      /\ co.creator = (IF code[o].creator = NoOne THEN a ELSE code[o].creator)
      /\ co.releaser = NoOne /\ co.code = 0 /\ co.redeemed = 0
  BY <1>1, OpenActivationFacts
<1> HIDE DEF co
<1>3. code[o].issue \in Nat /\ made[o] \in Nat /\ PairOK(acct[o], code[o], made[o])
  BY PairFacts DEF Codes
<1>4. PairOK(acct[o], co, made[o])
  BY <1>1, <1>2, <1>3 DEF PairOK
<1> QED BY <1>1, <1>2, <1>4, PairFacts, CommandKeepsInv

LEMMA ReleaseKeepsInv ==
  ASSUME IInv, NEW a \in Officer, NEW o \in Officer,
         ReleaseActivation(a, o), UNCHANGED <<scope, now, req>>, running' \subseteq running
  PROVE  IInv'
<1> DEFINE co == Released(code[o], a, made[o] + 1, now)
<1>1. /\ code[o].issue > 0 /\ code[o].redeemed = 0 /\ code[o].releaser = NoOne
      /\ a # code[o].issuer /\ a # code[o].creator
      /\ code' = [code EXCEPT ![o] = co] /\ made' = [made EXCEPT ![o] = made[o] + 1]
      /\ UNCHANGED <<acct, rows, login>>
  BY PairFacts DEF ReleaseActivation, MayRelease
<1>2. PairOK(acct[o], code[o], made[o]) /\ code[o] \in Codes(scope.issues)
      /\ made[o] \in Nat /\ scope.issues \in Nat /\ now + CodeTtl \in Nat
  BY PairFacts
<1>3. made[o] + 1 <= code[o].issue /\ code[o].issue \in 0 .. scope.issues
  BY <1>1, <1>2 DEF PairOK, Codes
<1>4. made[o] + 1 \in 0 .. scope.issues
  BY <1>2, <1>3
<1>5. co = [code[o] EXCEPT !.releaser = a, !.code = made[o] + 1, !.exp = now + CodeTtl]
  BY DEF Released
<1>6. /\ co \in Codes(scope.issues) /\ co.releaser = a /\ co.code = made[o] + 1
      /\ co.issue = code[o].issue /\ co.redeemed = 0 /\ co.issuer = code[o].issuer
      /\ co.creator = code[o].creator
  <2> HIDE DEF co
  <2> QED BY <1>1, <1>2, <1>4, <1>5 DEF Codes
<1> HIDE DEF co
<1>7. PairOK(acct[o], co, made[o] + 1)
  BY <1>1, <1>2, <1>3, <1>6, OfficersAssumption DEF PairOK
<1> QED BY <1>1, <1>4, <1>6, <1>7, PairFacts, CommandKeepsInv

LEMMA AssignKeepsInv ==
  ASSUME IInv, NEW a \in Officer, NEW o \in Officer, NEW posts \in SUBSET Posts,
         AssignPosts(a, o, posts), UNCHANGED <<scope, now, req>>, running' \subseteq running
  PROVE  IInv'
<1> DEFINE ac == [acct[o] EXCEPT !.roles = AssignedPosts(acct[o], posts)]
<1>1. /\ acct' = [acct EXCEPT ![o] = ac] /\ EndSessions(o) /\ UNCHANGED <<code, made>>
  BY PairFacts DEF AssignPosts
<1>2. /\ AssignedPosts(acct[o], posts) \in SUBSET (Posts \cup {Admin})
      /\ Admin \in acct[o].roles => Admin \in AssignedPosts(acct[o], posts)
  BY PairFacts DEF AssignedPosts, Accounts
<1>3. /\ ac \in Accounts /\ ac.st = acct[o].st /\ ac.activated = acct[o].activated
      /\ ac.by = acct[o].by /\ ac.roles = AssignedPosts(acct[o], posts)
  BY <1>2, PairFacts DEF Accounts
<1> HIDE DEF ac
<1>4. PairOK(ac, code[o], made[o]) /\ (IsActiveAdmin(acct[o]) => IsActiveAdmin(ac))
  BY <1>2, <1>3, PairFacts DEF PairOK, IsActiveAdmin
<1> QED BY <1>1, <1>3, <1>4, PairFacts, CommandKeepsInv

\* The count under the advisory lock is what keeps an administrator.
LEMMA DisableKeepsInv ==
  ASSUME IInv, NEW a \in Officer, NEW o \in Officer,
         DisableOfficer(a, o), UNCHANGED <<scope, now, req>>, running' \subseteq running
  PROVE  IInv'
<1> DEFINE ac == [acct[o] EXCEPT !.st = "disabled"]
<1>1. /\ acct[o].st # "absent" /\ AgencyOf[o] = AgencyOf[a] /\ ~LastActiveAdmin(AgencyOf[a], o)
      /\ acct' = [acct EXCEPT ![o] = ac] /\ EndSessions(o) /\ UNCHANGED <<code, made>>
  BY PairFacts DEF DisableOfficer, TargetFound
<1>2. /\ ac \in Accounts /\ ac.st = "disabled" /\ ac.activated = acct[o].activated
      /\ ac.by = acct[o].by
  BY PairFacts DEF Accounts
<1> HIDE DEF ac
<1>3. PairOK(ac, code[o], made[o])
  BY <1>1, <1>2, PairFacts DEF PairOK
<1>4. \/ ~IsActiveAdmin(acct[o])
      \/ \E p \in Officer \ {o} : AgencyOf[p] = AgencyOf[o] /\ IsActiveAdmin(acct[p])
  BY <1>1 DEF LastActiveAdmin
<1> QED BY <1>1, <1>2, <1>3, <1>4, PairFacts, CommandKeepsInv

LEMMA EnableKeepsInv ==
  ASSUME IInv, NEW a \in Officer, NEW o \in Officer,
         EnableOfficer(a, o), UNCHANGED <<scope, now, req>>, running' \subseteq running
  PROVE  IInv'
<1> DEFINE ac == [acct[o] EXCEPT !.st = EnabledAs(acct[o])]
<1>1. /\ acct[o].st = "disabled" /\ acct' = [acct EXCEPT ![o] = ac]
      /\ UNCHANGED <<code, rows, login, made>>
  BY PairFacts DEF EnableOfficer
<1>2. EnabledAs(acct[o]) = IF acct[o].activated THEN "active" ELSE "pending"
  BY DEF EnabledAs
<1>3. /\ ac \in Accounts /\ ac.st = EnabledAs(acct[o]) /\ ac.activated = acct[o].activated
      /\ ac.by = acct[o].by
  BY <1>2, PairFacts DEF Accounts
<1> HIDE DEF ac
<1>4. PairOK(ac, code[o], made[o])
  BY <1>1, <1>2, <1>3, PairFacts DEF PairOK
<1> QED BY <1>1, <1>3, <1>4, PairFacts, CommandKeepsInv DEF IsActiveAdmin

LEMMA ExecuteKeepsInv ==
  ASSUME IInv, NEW a \in Officer, NEW o \in Officer, Execute(a, o)
  PROVE  IInv'
<1>1. UNCHANGED <<scope, now, req>> /\ running' \subseteq running
  BY DEF Execute
<1>2. CASE \E posts \in SUBSET Posts : CreateOfficer(a, o, posts) \/ AssignPosts(a, o, posts)
  BY <1>1, <1>2, CreateKeepsInv, AssignKeepsInv
<1>3. CASE ReissueActivation(a, o)
  BY <1>1, <1>3, ReissueKeepsInv
<1>4. CASE ReleaseActivation(a, o)
  BY <1>1, <1>4, ReleaseKeepsInv
<1>5. CASE DisableOfficer(a, o)
  BY <1>1, <1>5, DisableKeepsInv
<1>6. CASE EnableOfficer(a, o)
  BY <1>1, <1>6, EnableKeepsInv
<1>7. CASE RevokeSessions(a, o)
  BY <1>1, <1>7, PairFacts, CommandKeepsInv DEF RevokeSessions
<1> QED BY <1>2, <1>3, <1>4, <1>5, <1>6, <1>7 DEF Execute

-----------------------------------------------------------------------------
(* Activation, sign-in and the requests of a browser *)

LEMMA ActivateKeepsInv ==
  ASSUME IInv, NEW o \in Officer, NEW serial \in 1 .. scope.issues, ActivateOfficer(o, serial)
  PROVE  IInv'
<1> DEFINE ac == [acct[o] EXCEPT !.st = "active", !.activated = TRUE]
           co == [code[o] EXCEPT !.redeemed = serial]
<1>1. /\ acct[o].st = "pending" /\ code[o].redeemed = 0 /\ code[o].releaser # NoOne
      /\ code[o].code = serial
      /\ acct' = [acct EXCEPT ![o] = ac] /\ code' = [code EXCEPT ![o] = co]
      /\ UNCHANGED <<scope, now, running, login, rows, req, made>>
  BY PairFacts DEF ActivateOfficer, MayRedeem
<1>2. /\ ac \in Accounts /\ ac.st = "active" /\ ac.activated
      /\ ac.by = acct[o].by /\ ac.roles = acct[o].roles
  BY PairFacts DEF Accounts
<1>3. /\ co \in Codes(scope.issues) /\ co.redeemed = serial /\ co.releaser = code[o].releaser
      /\ co.issuer = code[o].issuer /\ co.creator = code[o].creator
      /\ co.code = code[o].code /\ co.issue = code[o].issue
  BY PairFacts DEF Codes
<1> HIDE DEF ac, co
<1>4. PairOK(ac, co, made[o])
  BY <1>1, <1>2, <1>3, PairFacts DEF PairOK
<1> QED BY <1>1, <1>2, <1>3, <1>4, PairFacts, CommandKeepsInv DEF IsActiveAdmin

\* A step that leaves accounts, codes and the clock alone keeps the invariant
\* when the tokens and the rows it writes are sound.
LEMMA SessionStepKeepsInv ==
  ASSUME IInv, UNCHANGED <<scope, now, acct, code, made>>, running' \subseteq Officer,
         login' \in [Officer -> Tokens \cup {None}],
         rows' \in [Sessions -> Rows \cup {None}],
         req' \in [Sessions -> {"touch", "keep", None}],
         \A o \in Officer : TokenOK(login'[o], acct[o], now),
         \A s \in Sessions : RowOK(rows'[s], acct)
  PROVE  IInv'
BY DEF IInv, TypesOK, AlwaysAnAdmin, FirstAdmins

LEMMA LoginKeepsInv ==
  ASSUME IInv, NEW o \in Officer, Login(o)
  PROVE  IInv'
<1> DEFINE tok == [roles |-> acct[o].roles, exp |-> now + TokenTtl, cut |-> FALSE]
<1>1. /\ acct[o].st = "active" /\ login' = [login EXCEPT ![o] = tok]
      /\ UNCHANGED <<scope, now, acct, code, running, rows, req, made>>
  BY DEF Login
<1>2. now \in Nat /\ TokenTtl \in Nat /\ acct[o] \in Accounts
      /\ login \in [Officer -> Tokens \cup {None}]
  BY PairFacts, OfficersAssumption DEF IInv, TypesOK
<1>3. tok \in Tokens /\ TokenOK(tok, acct[o], now)
  BY <1>1, <1>2 DEF Tokens, TokenOK, Accounts
<1> HIDE DEF tok
<1>4. /\ login' \in [Officer -> Tokens \cup {None}]
      /\ \A p \in Officer : TokenOK(login'[p], acct[p], now)
  BY <1>1, <1>2, <1>3 DEF IInv
<1> QED BY <1>1, <1>4, SessionStepKeepsInv DEF IInv, TypesOK

LEMMA OpenSessionKeepsInv ==
  ASSUME IInv, NEW o \in Officer, NEW s \in Sessions, OpenSession(o, s)
  PROVE  IInv'
<1> DEFINE new == NewSession(o, login[o], now)
<1>1. /\ now \in Nat /\ TokenTtl \in Nat /\ login[o] \in Tokens /\ AbsoluteTtl \in Nat
      /\ 1 \in 1 .. MaxGen
      /\ login \in [Officer -> Tokens \cup {None}] /\ rows \in [Sessions -> Rows \cup {None}]
      /\ TokenOK(login[o], acct[o], now) /\ login[o] # None
  BY PairFacts, OfficersAssumption, SessionClocks DEF IInv, TypesOK, OpenSession
<1>2. IdleDeadline(now, now + AbsoluteTtl) \in Nat
      /\ IdleDeadline(now, now + AbsoluteTtl) <= now + AbsoluteTtl
  <2>1. now \in Nat /\ now + AbsoluteTtl \in Nat
    BY <1>1
  <2> QED BY <2>1, IdleDeadlineFacts
<1>3. new \in Rows /\ RowOK(new, acct)
  BY <1>1, <1>2 DEF NewSession, Rows, RowOK, TokenOK, Tokens
<1> HIDE DEF new
<1>4. /\ login' \in [Officer -> Tokens \cup {None}]
      /\ \A p \in Officer : TokenOK(login'[p], acct[p], now)
  BY <1>1 DEF OpenSession, IInv, TokenOK
<1>5. rows' = rows \/ rows' = [rows EXCEPT ![s] = new]
  BY DEF OpenSession, new
<1>6. /\ rows' \in [Sessions -> Rows \cup {None}]
      /\ \A t \in Sessions : RowOK(rows'[t], acct)
  BY <1>1, <1>3, <1>5 DEF IInv
<1> QED BY <1>4, <1>6, SessionStepKeepsInv DEF OpenSession, IInv, TypesOK

LEMMA FinishRequestKeepsInv ==
  ASSUME IInv, NEW s \in Sessions, NEW kind \in {"call", "refresh", "logout"},
         FinishRequest(s, kind)
  PROVE  IInv'
<1>1. now \in Nat /\ rows \in [Sessions -> Rows \cup {None}]
  BY OfficersAssumption DEF IInv, TypesOK
<1>2. /\ rows' \in [Sessions -> Rows \cup {None}]
      /\ \A t \in Sessions : RowOK(rows'[t], acct)
  <2>1. CASE rows[s] = None
    BY <1>1, <2>1 DEF FinishRequest, IInv
  <2>2. CASE rows[s] # None
    <3> DEFINE new == RowAfter(rows[s], req[s], kind)
    <3>1. rows' = [rows EXCEPT ![s] = new] /\ (kind = "refresh" => rows[s].gen < MaxGen)
      BY <2>2 DEF FinishRequest
    <3>2. Continues(rows[s], new) /\ rows[s] \in Rows
      BY <1>1, <2>2, <3>1, RowAfterFacts
    <3>3. new \in Rows /\ RowOK(new, acct)
      BY <2>2, <3>2, ContinuesKeepsRowOK DEF IInv, Continues
    <3> HIDE DEF new
    <3> QED BY <1>1, <3>1, <3>3 DEF IInv
  <2> QED BY <2>1, <2>2
<1>3. req' \in [Sessions -> {"touch", "keep", None}]
  BY DEF FinishRequest, IInv, TypesOK
<1> QED BY <1>2, <1>3, SessionStepKeepsInv DEF FinishRequest, IInv, TypesOK

LEMMA NextKeepsInv ==
  ASSUME IInv, [Next]_vars
  PROVE  IInv'
<1>1. scope.staff \subseteq Officer
  BY OfficersAssumption DEF IInv, TypesOK
<1>2. CASE \E a \in scope.staff : Authorize(a) \/ Refuse(a)
  BY <1>1, <1>2, SessionStepKeepsInv DEF Authorize, Refuse, IInv, TypesOK
<1>3. CASE \E a, o \in scope.staff : Execute(a, o)
  BY <1>1, <1>3, ExecuteKeepsInv
<1>4. CASE \E o \in scope.staff : \E n \in 1 .. scope.issues : ActivateOfficer(o, n)
  BY <1>1, <1>4, ActivateKeepsInv
<1>5. CASE \E o \in scope.staff : Login(o)
  BY <1>1, <1>5, LoginKeepsInv
<1>6. CASE \E o \in scope.staff, s \in Sessions : OpenSession(o, s)
  BY <1>1, <1>6, OpenSessionKeepsInv
<1>7. CASE \E s \in Sessions, g \in 1 .. MaxGen : Resolve(s, g)
  BY <1>7, SessionStepKeepsInv DEF Resolve, IInv, TypesOK
<1>8. CASE \E s \in Sessions, kind \in {"call", "refresh", "logout"} : FinishRequest(s, kind)
  BY <1>8, FinishRequestKeepsInv
<1>9. CASE Sweep
  BY <1>9, SessionStepKeepsInv DEF Sweep, IInv, TypesOK, RowOK
<1>10. CASE Tick
  <2>1. /\ now' \in 0 .. scope.time /\ now' = now + 1 /\ now \in Nat /\ TokenTtl \in Nat
        /\ UNCHANGED <<scope, acct, code, running, login, rows, req, made>>
    BY <1>10, OfficersAssumption DEF Tick, IInv, TypesOK
  <2>2. ASSUME NEW o \in Officer PROVE TokenOK(login[o], acct[o], now')
    BY <2>1, OfficersAssumption DEF IInv, TypesOK, TokenOK, Tokens
  <2> QED BY <2>1, <2>2 DEF IInv, TypesOK, AlwaysAnAdmin, FirstAdmins
<1>11. CASE UNCHANGED vars
  BY <1>11 DEF vars, IInv, TypesOK, AlwaysAnAdmin, FirstAdmins
<1> QED BY <1>2, <1>3, <1>4, <1>5, <1>6, <1>7, <1>8, <1>9, <1>10, <1>11 DEF Next

LEMMA InitHasInv == Init => IInv
<1> SUFFICES ASSUME Init PROVE IInv
  OBVIOUS
<1>1. scope \in Scopes /\ scope.time \in Nat /\ scope.issues \in Nat /\ FirstAdmins \subseteq Officer
  BY OfficersAssumption DEF Init, FirstAdmins
<1>2. Provisioned({Admin}) \in Accounts /\ NoAccount \in Accounts /\ NoCode \in Codes(scope.issues)
  BY <1>1 DEF Provisioned, NoAccount, NoCode, Accounts, Codes
<1>3. TypesOK
  BY <1>1, <1>2 DEF Init, TypesOK
<1>4. \A o \in Officer : PairOK(acct[o], code[o], made[o])
  BY <1>1 DEF Init, PairOK, Provisioned, NoAccount, NoCode
<1>5. AlwaysAnAdmin
  BY <1>1 DEF Init, AlwaysAnAdmin, IsActiveAdmin, Provisioned
<1> QED BY <1>3, <1>4, <1>5 DEF Init, IInv, TokenOK, RowOK

\* The invariant holds in every reachable state.
THEOREM Invariance == Spec => []IInv
<1> QED BY InitHasInv, NextKeepsInv, PTL DEF Spec

-----------------------------------------------------------------------------
(* The theorems *)

\* Rows, codes, tokens and deadlines keep their types.
THEOREM TypeCorrect == Spec => []TypeOK
<1>1. IInv => TypeOK
  <2> SUFFICES ASSUME IInv PROVE TypeOK
    OBVIOUS
  <2>1. ASSUME NEW s \in Sessions, rows[s] # None
        PROVE  /\ rows[s].subject \in Officer
               /\ rows[s].idle <= rows[s].absolute
               /\ rows[s].gen \in 1 .. MaxGen
    BY <2>1 DEF IInv, TypesOK, RowOK, Rows
  <2> QED BY <2>1 DEF IInv, TypesOK, TypeOK, Accounts, Codes
<1> QED BY <1>1, Invariance, PTL

\* No interleaving of authorised commands leaves an agency without an active
\* administrator.
THEOREM AdminsRemain == Spec => []AlwaysAnAdmin
<1>1. IInv => AlwaysAnAdmin
  BY DEF IInv
<1> QED BY <1>1, Invariance, PTL

\* Whoever releases a code is neither the creator of the account nor the issuer
\* of the activation, and only the last code generated activates.
THEOREM TwoPeopleActivate == Spec => []ActivationIsSound
<1>1. IInv => ActivationIsSound
  BY DEF IInv, PairOK, ActivationIsSound, FourEyes, RedeemedIsLatest
<1> QED BY <1>1, Invariance, PTL

\* A session agrees with its account or is revoked or late; a late one serves
\* nothing after the token's life; no session outlives its ceiling.
THEOREM SessionsEnd == Spec => []SessionsEndInTime
<1>1. IInv => SessionsMatchAccounts /\ LateAccessEndsWithTheToken /\ CeilingHolds
  <2> SUFFICES ASSUME IInv, NEW s \in Sessions, rows[s] # None
               PROVE  /\ rows[s].revokedAt = None /\ ~rows[s].late =>
                             /\ acct[rows[s].subject].st = "active"
                             /\ rows[s].roles = acct[rows[s].subject].roles
                      /\ Accepts(rows[s].exp, now) => now < rows[s].issued + TokenTtl
                      /\ Lookup(rows[s], now) = "ACTIVE" => now < rows[s].issued + AbsoluteTtl
    BY DEF SessionsMatchAccounts, LateAccessEndsWithTheToken, CeilingHolds
  <2>1. RowOK(rows[s], acct) /\ rows[s] \in Rows /\ now \in Nat /\ TokenTtl \in Nat
        /\ AbsoluteTtl \in Nat
    BY OfficersAssumption, SessionClocks DEF IInv, TypesOK
  <2> QED BY <2>1 DEF RowOK, Rows, Accepts, Lookup
<1>2. TypeOK /\ SessionsMatchAccounts /\ LateAccessEndsWithTheToken /\ CeilingHolds
        => SessionsEndInTime
  BY DEF SessionsEndInTime
<1> QED BY <1>1, <1>2, Invariance, TypeCorrect, PTL

\* An officer who holds a credential is never put back before the activation,
\* and no activation code of theirs is written again.
THEOREM NeverReactivated == Spec => ActivatedForGood
<1>1. IInv /\ [Next]_vars =>
        [\A o \in Officer : acct[o].activated =>
            acct'[o].activated /\ acct'[o].st # "pending" /\ code'[o] = code[o]]_vars
  <2> SUFFICES ASSUME IInv, Next, NEW o \in Officer, acct[o].activated
               PROVE  acct'[o].activated /\ acct'[o].st # "pending" /\ code'[o] = code[o]
    BY DEF vars
  <2>1. /\ acct \in [Officer -> Accounts] /\ code \in [Officer -> Codes(scope.issues)]
        /\ acct[o].st \in {"active", "disabled"} /\ scope.staff \subseteq Officer
    BY PairFacts, OfficersAssumption DEF IInv, TypesOK, PairOK, Accounts
  <2>2. CASE UNCHANGED <<acct, code>>
    BY <2>1, <2>2
  <2>3. CASE \E a, p \in scope.staff : Execute(a, p)
    <3> PICK a \in Officer, p \in Officer : Execute(a, p)
      BY <2>1, <2>3
    <3>1. CASE \E posts \in SUBSET Posts : CreateOfficer(a, p, posts)
      BY <2>1, <3>1 DEF CreateOfficer
    <3>2. CASE \E posts \in SUBSET Posts : AssignPosts(a, p, posts)
      BY <2>1, <3>2 DEF AssignPosts, Accounts
    <3>3. CASE ReissueActivation(a, p) \/ ReleaseActivation(a, p)
      BY <2>1, <3>3 DEF ReissueActivation, ReleaseActivation, PendingActivation
    <3>4. CASE DisableOfficer(a, p)
      BY <2>1, <3>4 DEF DisableOfficer, Accounts
    <3>5. CASE EnableOfficer(a, p)
      BY <2>1, <3>5 DEF EnableOfficer, EnabledAs, Accounts
    <3>6. CASE RevokeSessions(a, p)
      BY <2>2, <3>6 DEF RevokeSessions
    <3> QED BY <3>1, <3>2, <3>3, <3>4, <3>5, <3>6 DEF Execute
  <2>4. CASE \E p \in scope.staff : \E n \in 1 .. scope.issues : ActivateOfficer(p, n)
    BY <2>1, <2>4 DEF ActivateOfficer, MayRedeem, Accounts, Codes
  <2> QED BY <2>2, <2>3, <2>4 DEF Next, Authorize, Refuse, Login, OpenSession, Resolve,
                                 FinishRequest, Sweep, Tick
<1> QED BY <1>1, Invariance, PTL DEF Spec, ActivatedForGood

----------------------------------------------------------------------------
(***************************************************************************)
(* Theorems about Citizen, for any number of concurrent requests, phones,  *)
(* agencies, officers, limits and lifetimes.                               *)
(*                                                                         *)
(* The invariant says what a request in flight may rely on (RequestOK):    *)
(* that the challenge it consumed is its own and used up, and that an      *)
(* erasure which overtook it deleted the challenge.  Limits on guesses are *)
(* kept by counting the guesses in flight with the ones recorded.          *)
(***************************************************************************)

Identities ==
    [hash : {"own", "rotated"}, contact : Phone \cup {Null}, biometric : BOOLEAN,
     locked : Agency \cup {Null}, erased : BOOLEAN]

Challenges ==
    [id : Nat, phone : Phone, exp : Nat, attempts : Nat, used : BOOLEAN, gone : BOOLEAN]

SessionRows == [by : Caller, chal : Nat, id : Nat, exp : Nat, ended : BOOLEAN]

Requests == [id : Nat, st : {"PENDING", "EXECUTED", "DECLINED"}]

AppStates == {"none", "open", "closed", "accepted"}

CitizenTypesOK ==
    /\ bound \in Bounds
    /\ clock \in 0 .. bound.time
    /\ attempts \in [failed : Nat, start : Nat, until : Nat]
    /\ ident \in Seq(Identities) /\ Len(ident) <= bound.ids
    /\ token \in [Ids -> Nat]
    /\ chals \in Seq(Challenges)
    /\ \A c \in DOMAIN chals : chals[c].id \in DOMAIN ident
    /\ sessions \subseteq SessionRows
    /\ apps \in [Ids -> [Agency -> AppStates]]
    /\ \A i \in Ids \ DOMAIN ident : apps[i] = NoApps
    /\ late \subseteq Ids \X Agency
    /\ reqs \in Seq(Requests)
    /\ \A r \in DOMAIN reqs : reqs[r].id \in DOMAIN ident
    /\ pc = [k \in Caller |-> pc[k]]
    /\ deciding \in [Erasers -> 0 .. Len(ident)]
    /\ sweep = Null \/ sweep \subseteq DOMAIN ident

\* Where a request stands, what it holds is still true.
RequestOK(p, ids, chs, ss) ==
    /\ p.op \in {"confirm", "file", "apply"} => p.id \in DOMAIN ids
    /\ p.op = "apply" => p.agency \in Agency
    /\ p.op = "wrong" => p.chal \in DOMAIN chs
    /\ p.op \in {"consume", "stamp", "session"} =>
         /\ p \in [op : {"consume", "stamp", "session"}, chal : DOMAIN chs, phone : Phone]
         /\ p.phone = chs[p.chal].phone
    /\ p.op \in {"stamp", "session"} =>
         chs[p.chal].used /\ \A s \in ss : s.chal # p.chal
    /\ p.op = "session" /\ ids[chs[p.chal].id].erased => chs[p.chal].gone

\* Of two sign-ins only one consumed a challenge.
ConsumedOnce ==
    \A k, l \in Caller :
        /\ pc[k].op \in {"stamp", "session"} /\ pc[l].op \in {"stamp", "session"}
        /\ pc[k].chal = pc[l].chal
        => k = l

SessionOK(s, ids, chs) ==
    /\ s.chal \in DOMAIN chs /\ chs[s.chal].used
    /\ s.id = chs[s.chal].id
    /\ ids[s.id].erased => chs[s.chal].gone

\* The identity's own hash is on the living row, and on one row only.
IdentityOK(i, row, aps, lt, chs) ==
    /\ row.erased <=> row.hash = "rotated"
    /\ row.erased => row.contact = Null /\ ~row.biometric /\ row.locked = Null
    /\ \A ag \in Agency : aps[ag] = "accepted" => row.locked # Null
    /\ row.erased => \A ag \in Agency : aps[ag] = "open" => <<i, ag>> \in lt
    /\ row.contact # Null =>
         \E c \in DOMAIN chs : chs[c].id = i /\ chs[c].used /\ chs[c].phone = row.contact

OneOwnHash == \A i, j \in WithOwnHash : i = j

Wrong(c) == {k \in Caller : pc[k].op = "wrong" /\ pc[k].chal = c}
Mismatches == {k \in Caller : pc[k].op = "mismatch"}

\* Guesses recorded and guesses on their way to be recorded.
GuessesOK ==
    \A c \in DOMAIN chals :
        chals[c].attempts + Cardinality(Wrong(c)) <= OtpMaxAttempts + Cardinality(Caller) - 1

\* The failures that count at this moment.
Counted == IF attempts.start + FailureWindow <= clock THEN 0 ELSE attempts.failed

\* A lock that was reached lasts as long as the window it was reached in.
FailuresOK ==
    /\ attempts.start <= clock
    /\ attempts.failed >= MaxFailures => attempts.until >= attempts.start + FailureWindow
    /\ attempts.failed <= MaxFailures + Cardinality(Caller) - 1
    /\ Counted + Cardinality(Mismatches) <= MaxFailures + Cardinality(Caller) - 1
         \/ Mismatches = {}

RequestsOK ==
    /\ \A r, q \in DOMAIN reqs :
         reqs[r].id = reqs[q].id /\ reqs[r].st = "PENDING" /\ reqs[q].st = "PENDING" => r = q
    /\ \A r \in DOMAIN reqs : reqs[r].st = "EXECUTED" => ident[reqs[r].id].erased
    /\ \A f \in Erasers : deciding[f] # 0 => ident[deciding[f]].erased

FlightsOK == (\A k \in Caller : RequestOK(pc[k], ident, chals, sessions)) /\ ConsumedOnce

SessionsOK == (\A s \in sessions : SessionOK(s, ident, chals)) /\ OneSessionPerCode

IdentsOK ==
    /\ \A i \in DOMAIN ident : IdentityOK(i, ident[i], apps[i], late, chals)
    /\ OneOwnHash

\* The inductive invariant.
CitizenInv ==
    CitizenTypesOK /\ FlightsOK /\ SessionsOK /\ IdentsOK /\ GuessesOK /\ FailuresOK /\ RequestsOK

-----------------------------------------------------------------------------
(* What the sequences are *)

\* A function on an initial segment of the numbers is a sequence.
LEMMA SeqOfFunction ==
  ASSUME NEW S, NEW n \in Nat, NEW f \in [1 .. n -> S]
  PROVE  f \in Seq(S) /\ Len(f) = n /\ DOMAIN f = 1 .. n
OBVIOUS

LEMMA TypeFacts ==
  ASSUME CitizenTypesOK
  PROVE  /\ bound.ids \in Nat /\ bound.time \in Nat /\ clock \in Nat
         /\ Len(ident) \in Nat /\ DOMAIN ident = 1 .. Len(ident) /\ DOMAIN ident \subseteq Ids
         /\ ident \in [1 .. Len(ident) -> Identities]
         /\ Len(chals) \in Nat /\ DOMAIN chals = 1 .. Len(chals)
         /\ chals \in [1 .. Len(chals) -> Challenges]
         /\ Len(reqs) \in Nat /\ DOMAIN reqs = 1 .. Len(reqs)
         /\ reqs \in [1 .. Len(reqs) -> Requests]
         /\ Cardinality(Caller) \in Nat
         /\ MaxFailures \in Nat \ {0} /\ OtpMaxAttempts \in Nat \ {0}
<1>1. bound.ids \in Nat /\ bound.time \in Nat
  BY CitizenAssumption DEF CitizenTypesOK
<1>2. clock \in Nat
  BY <1>1 DEF CitizenTypesOK
<1>3. /\ Len(ident) \in Nat /\ DOMAIN ident = 1 .. Len(ident)
      /\ ident \in [1 .. Len(ident) -> Identities]
      /\ Len(chals) \in Nat /\ DOMAIN chals = 1 .. Len(chals)
      /\ chals \in [1 .. Len(chals) -> Challenges]
      /\ Len(reqs) \in Nat /\ DOMAIN reqs = 1 .. Len(reqs)
      /\ reqs \in [1 .. Len(reqs) -> Requests]
  BY LenProperties DEF CitizenTypesOK
<1>4. DOMAIN ident \subseteq Ids
  BY <1>1, <1>3 DEF CitizenTypesOK, Ids
<1>5. Cardinality(Caller) \in Nat
  BY FS_CardinalityType, CitizenAssumption
<1> QED BY <1>1, <1>2, <1>3, <1>4, <1>5, ApplicantLimits

\* What every step does to identities and challenges: rows are added and never
\* taken away, an erasure and the use of a code are for good, and the erasure of
\* an identity deletes its challenges.
Grows(ids, ids2, chs, chs2) ==
    /\ DOMAIN ids \subseteq DOMAIN ids2 /\ DOMAIN chs \subseteq DOMAIN chs2
    /\ \A i \in DOMAIN ids : ids[i].erased => ids2[i].erased
    /\ \A c \in DOMAIN chs :
         /\ chs2[c].id = chs[c].id /\ chs2[c].phone = chs[c].phone
         /\ chs[c].used => chs2[c].used
         /\ chs[c].gone => chs2[c].gone
         /\ ids2[chs[c].id].erased => ids[chs[c].id].erased \/ chs2[c].gone

LEMMA RequestKept ==
  ASSUME NEW ids, NEW ids2, NEW chs, NEW chs2, Grows(ids, ids2, chs, chs2),
         NEW ss, NEW ss2, \A s \in ss2 : \E t \in ss : t.chal = s.chal,
         NEW p, RequestOK(p, ids, chs, ss)
  PROVE  RequestOK(p, ids2, chs2, ss2)
BY DEF RequestOK, Grows

LEMMA SessionKept ==
  ASSUME NEW ids, NEW ids2, NEW chs, NEW chs2, Grows(ids, ids2, chs, chs2),
         NEW s, SessionOK(s, ids, chs)
  PROVE  SessionOK(s, ids2, chs2)
BY DEF SessionOK, Grows

LEMMA NothingGrows ==
  ASSUME NEW ids, NEW chs
  PROVE  Grows(ids, ids, chs, chs)
BY DEF Grows

-----------------------------------------------------------------------------
(* The parts of the invariant that a step leaves alone *)

\* A request moves on and holds what it needs; the others are where they were.
LEMMA FlightsKept ==
  ASSUME CitizenInv, Grows(ident, ident', chals, chals'),
         \A s \in sessions' : \E t \in sessions : t.chal = s.chal,
         NEW k \in Caller, NEW p, pc' = [pc EXCEPT ![k] = p],
         RequestOK(p, ident', chals', sessions'), p.op \notin {"stamp", "session"}
  PROVE  FlightsOK'
<1>1. pc'[k] = p /\ \A l \in Caller \ {k} : pc'[l] = pc[l]
  BY DEF CitizenInv, CitizenTypesOK
<1>2. \A l \in Caller : RequestOK(pc'[l], ident', chals', sessions')
  BY <1>1, RequestKept DEF CitizenInv, FlightsOK
<1>3. ConsumedOnce'
  BY <1>1 DEF CitizenInv, FlightsOK, ConsumedOnce
<1> QED BY <1>2, <1>3 DEF FlightsOK

LEMMA FlightsUntouched ==
  ASSUME CitizenInv, Grows(ident, ident', chals, chals'), UNCHANGED pc,
         \A s \in sessions' : \E t \in sessions : t.chal = s.chal
  PROVE  FlightsOK'
<1>1. \A l \in Caller : RequestOK(pc[l], ident', chals', sessions')
  BY RequestKept DEF CitizenInv, FlightsOK
<1> QED BY <1>1 DEF CitizenInv, FlightsOK, ConsumedOnce

LEMMA SessionsKept ==
  ASSUME CitizenInv, Grows(ident, ident', chals, chals'), sessions' \subseteq sessions
  PROVE  SessionsOK'
<1>1. \A s \in sessions' : SessionOK(s, ident', chals')
  BY SessionKept DEF CitizenInv, SessionsOK
<1> QED BY <1>1 DEF CitizenInv, SessionsOK, OneSessionPerCode

LEMMA IdentsKept ==
  ASSUME CitizenInv, Grows(ident, ident', chals, chals'), UNCHANGED <<ident, apps, late>>
  PROVE  IdentsOK'
<1>1. ASSUME NEW i \in DOMAIN ident
      PROVE  IdentityOK(i, ident[i], apps[i], late, chals')
  BY DEF CitizenInv, IdentsOK, IdentityOK, Grows
<1> QED BY <1>1 DEF CitizenInv, IdentsOK, OneOwnHash, WithOwnHash

LEMMA RequestsKept ==
  ASSUME CitizenInv, Grows(ident, ident', chals, chals'), UNCHANGED <<reqs, deciding>>
  PROVE  RequestsOK'
<1>1. \A f \in Erasers : deciding[f] # 0 => deciding[f] \in DOMAIN ident
  BY TypeFacts DEF CitizenInv, CitizenTypesOK
<1> QED BY <1>1 DEF CitizenInv, RequestsOK, CitizenTypesOK, Grows

\* As few guesses as before are on their way or recorded.
LEMMA GuessesKept ==
  ASSUME CitizenInv,
         \A l \in Caller : pc'[l].op = "wrong" =>
            pc[l].op = "wrong" /\ pc'[l].chal = pc[l].chal,
         DOMAIN chals' = DOMAIN chals,
         \A c \in DOMAIN chals : chals'[c].attempts \in Nat /\ chals'[c].attempts <= chals[c].attempts
  PROVE  GuessesOK'
<1> SUFFICES ASSUME NEW c \in DOMAIN chals
             PROVE  chals'[c].attempts + Cardinality(Wrong(c)') <= OtpMaxAttempts + Cardinality(Caller) - 1
  BY DEF GuessesOK
<1>1. Wrong(c)' \subseteq Wrong(c) /\ Wrong(c) \subseteq Caller
  BY DEF Wrong
<1>2. IsFiniteSet(Wrong(c)) /\ Cardinality(Wrong(c)) \in Nat
  BY <1>1, FS_Subset, FS_CardinalityType, CitizenAssumption
<1>3. Cardinality(Wrong(c)') <= Cardinality(Wrong(c)) /\ Cardinality(Wrong(c)') \in Nat
  BY <1>1, <1>2, FS_Subset, FS_CardinalityType
<1>4. chals[c].attempts + Cardinality(Wrong(c)) <= OtpMaxAttempts + Cardinality(Caller) - 1
  BY DEF CitizenInv, GuessesOK
<1>5. chals[c].attempts \in Nat /\ Cardinality(Caller) \in Nat /\ OtpMaxAttempts \in Nat
  BY TypeFacts DEF CitizenInv, Challenges
<1> QED BY <1>2, <1>3, <1>4, <1>5

LEMMA FailuresKept ==
  ASSUME CitizenInv, UNCHANGED <<attempts, clock>>,
         \A l \in Caller : pc'[l].op = "mismatch" => pc[l].op = "mismatch"
  PROVE  FailuresOK'
<1>1. Mismatches' \subseteq Mismatches /\ Mismatches \subseteq Caller
  BY DEF Mismatches
<1>2. IsFiniteSet(Mismatches) /\ Cardinality(Mismatches) \in Nat
  BY <1>1, FS_Subset, FS_CardinalityType, CitizenAssumption
<1>3. Cardinality(Mismatches') <= Cardinality(Mismatches) /\ Cardinality(Mismatches') \in Nat
  BY <1>1, <1>2, FS_Subset, FS_CardinalityType
<1>4. Counted' = Counted /\ Counted \in Nat /\ Cardinality(Caller) \in Nat /\ MaxFailures \in Nat
  BY TypeFacts DEF Counted, CitizenInv, CitizenTypesOK
<1> QED BY <1>1, <1>2, <1>3, <1>4 DEF CitizenInv, FailuresOK

-----------------------------------------------------------------------------
(* Requests that move on and write nothing but attempts and tokens *)

\* Counting some of the callers.
LEMMA CountCallers ==
  ASSUME NEW S \in SUBSET Caller
  PROVE  /\ IsFiniteSet(S) /\ Cardinality(S) \in Nat
         /\ Cardinality(S) <= Cardinality(Caller) /\ Cardinality(Caller) \in Nat
BY FS_Subset, FS_CardinalityType, CitizenAssumption

\* No failure counts once they are cleared.
LEMMA FailuresCleared ==
  ASSUME CitizenTypesOK, attempts' = NoAttempts, UNCHANGED clock
  PROVE  FailuresOK'
<1>1. Mismatches' \in SUBSET Caller
  BY DEF Mismatches
<1>2. /\ Cardinality(Mismatches') \in Nat /\ Cardinality(Mismatches') <= Cardinality(Caller)
      /\ Cardinality(Caller) \in Nat
  BY <1>1, CountCallers
<1>3. /\ attempts'.failed = 0 /\ attempts'.start = 0 /\ attempts'.until = 0
      /\ clock \in Nat /\ clock' = clock /\ MaxFailures \in Nat \ {0}
  BY TypeFacts DEF NoAttempts
<1>4. Counted' = 0
  BY <1>3 DEF Counted
<1> QED BY <1>2, <1>3, <1>4 DEF FailuresOK

LEMMA QuietMove ==
  ASSUME CitizenInv, NEW k \in Caller, NEW p, pc' = [pc EXCEPT ![k] = p],
         UNCHANGED <<bound, clock, ident, chals, sessions, apps, late, reqs, deciding, sweep>>,
         attempts' \in {attempts, NoAttempts}, token' \in [Ids -> Nat],
         RequestOK(p, ident, chals, sessions),
         p.op \notin {"stamp", "session", "wrong", "mismatch"}
  PROVE  CitizenInv'
<1>1. CitizenTypesOK /\ Grows(ident, ident', chals, chals')
  BY NothingGrows DEF CitizenInv
<1>2. pc'[k] = p /\ \A l \in Caller \ {k} : pc'[l] = pc[l]
  BY <1>1 DEF CitizenTypesOK
<1>3. CitizenTypesOK'
  <2>1. pc' = [l \in Caller |-> pc'[l]]
    BY <1>1 DEF CitizenTypesOK
  <2>2. attempts' \in [failed : Nat, start : Nat, until : Nat]
    BY <1>1 DEF CitizenTypesOK, NoAttempts
  <2> QED BY <1>1, <2>1, <2>2 DEF CitizenTypesOK, Ids
<1>4. FlightsOK'
  BY <1>1, FlightsKept
<1>5. SessionsOK' /\ IdentsOK' /\ RequestsOK'
  BY <1>1, SessionsKept, IdentsKept, RequestsKept
<1>6. GuessesOK'
  <2>1. \A c \in DOMAIN chals : chals[c].attempts \in Nat
    BY <1>1, TypeFacts DEF Challenges
  <2> QED BY <1>2, <2>1, GuessesKept
<1>7. FailuresOK'
  BY <1>1, <1>2, FailuresKept, FailuresCleared
<1> QED BY <1>3, <1>4, <1>5, <1>6, <1>7 DEF CitizenInv

LEMMA IdleOK ==
  ASSUME NEW ids, NEW chs, NEW ss
  PROVE  RequestOK(Idle, ids, chs, ss) /\ Idle.op = "idle"
BY DEF RequestOK, Idle

LEMMA FindIdentityKeepsInv ==
  ASSUME CitizenInv, NEW k \in Caller, FindIdentity(k)
  PROVE  CitizenInv'
<1> DEFINE found == {i \in WithOwnHash : ~ident[i].erased}
           p == IF found = {} THEN [op |-> "create"]
                ELSE [op |-> "confirm", id |-> CHOOSE i \in found : TRUE]
<1>1. found # {} => (CHOOSE i \in found : TRUE) \in DOMAIN ident
  BY DEF WithOwnHash
<1>2. RequestOK(p, ident, chals, sessions) /\ p.op \in {"create", "confirm"}
  BY <1>1 DEF RequestOK
<1>3. pc' = [pc EXCEPT ![k] = p]
  BY DEF FindIdentity, Goto
<1> HIDE DEF p
<1> QED BY <1>2, <1>3, QuietMove DEF FindIdentity, CitizenInv, CitizenTypesOK

LEMMA IssueTokenKeepsInv ==
  ASSUME CitizenInv, NEW k \in Caller, IssueToken(k)
  PROVE  CitizenInv'
<1>1. clock + OnboardingTtl \in Nat
  BY TypeFacts, CitizenAssumption DEF CitizenInv
<1>2. token' \in [Ids -> Nat]
  BY <1>1 DEF IssueToken, CitizenInv, CitizenTypesOK
<1> QED BY <1>2, IdleOK, QuietMove DEF IssueToken, Goto

LEMMA ApplyKeepsInv ==
  ASSUME CitizenInv, NEW k \in Caller, NEW s \in sessions, NEW ag \in Agency, Apply(k, s, ag)
  PROVE  CitizenInv'
<1> DEFINE p == [op |-> "apply", id |-> s.id, agency |-> ag]
<1>1. s.id \in DOMAIN ident
  BY DEF CitizenInv, CitizenTypesOK, SessionsOK, SessionOK
<1>2. RequestOK(p, ident, chals, sessions) /\ p.op = "apply"
  BY <1>1 DEF RequestOK
<1>3. pc' = [pc EXCEPT ![k] = p]
  BY DEF Apply, Goto
<1> HIDE DEF p
<1> QED BY <1>2, <1>3, QuietMove DEF Apply, CitizenInv, CitizenTypesOK

LEMMA FileRequestKeepsInv ==
  ASSUME CitizenInv, NEW k \in Caller, NEW s \in sessions, FileRequest(k, s)
  PROVE  CitizenInv'
<1> DEFINE p == [op |-> "file", id |-> s.id]
<1>1. s.id \in DOMAIN ident
  BY DEF CitizenInv, CitizenTypesOK, SessionsOK, SessionOK
<1>2. RequestOK(p, ident, chals, sessions) /\ p.op = "file"
  BY <1>1 DEF RequestOK
<1>3. pc' = [pc EXCEPT ![k] = p]
  BY DEF FileRequest, Goto
<1> HIDE DEF p
<1> QED BY <1>2, <1>3, QuietMove DEF FileRequest, CitizenInv, CitizenTypesOK

-----------------------------------------------------------------------------
(* Wrong dates of birth *)

\* A step of caller k that writes pc and perhaps attempts.
LEMMA OnboardingTypes ==
  ASSUME CitizenTypesOK, NEW k \in Caller, NEW p, pc' = [pc EXCEPT ![k] = p],
         UNCHANGED <<bound, clock, ident, token, chals, sessions, apps, late, reqs, deciding, sweep>>,
         attempts' \in [failed : Nat, start : Nat, until : Nat]
  PROVE  CitizenTypesOK' /\ pc'[k] = p /\ \A l \in Caller \ {k} : pc'[l] = pc[l]
<1>1. pc' = [l \in Caller |-> pc'[l]]
  BY DEF CitizenTypesOK
<1>2. pc'[k] = p /\ \A l \in Caller \ {k} : pc'[l] = pc[l]
  BY DEF CitizenTypesOK
<1> QED BY <1>1, <1>2 DEF CitizenTypesOK, Ids

\* A national id that is not locked has failures to spare.
LEMMA UnlockedHasRoom ==
  ASSUME CitizenInv, ~OnboardingLocked(attempts, clock)
  PROVE  Counted \in Nat /\ Counted <= MaxFailures - 1
<1>1. /\ attempts.failed \in Nat /\ attempts.start \in Nat /\ attempts.until \in Nat
      /\ clock \in Nat /\ MaxFailures \in Nat \ {0} /\ FailureWindow \in Nat
  BY TypeFacts, ApplicantLimits DEF CitizenInv, CitizenTypesOK
<1>2. attempts.until <= clock
  BY <1>1 DEF OnboardingLocked
<1> QED BY <1>1, <1>2 DEF CitizenInv, FailuresOK, Counted

LEMMA BeginKeepsInv ==
  ASSUME CitizenInv, NEW k \in Caller, NEW right \in BOOLEAN, Begin(k, right)
  PROVE  CitizenInv'
<1>1. CASE right
  <2> DEFINE p == [op |-> "matched"]
  <2>1. RequestOK(p, ident, chals, sessions) /\ p.op = "matched"
    BY DEF RequestOK
  <2>2. pc' = [pc EXCEPT ![k] = p]
    BY <1>1 DEF Begin, Goto
  <2> HIDE DEF p
  <2> QED BY <2>1, <2>2, QuietMove DEF Begin, CitizenInv, CitizenTypesOK
<1>2. CASE ~right
  <2> DEFINE p == [op |-> "mismatch"]
  <2>1. RequestOK(p, ident, chals, sessions) /\ p.op = "mismatch"
    BY DEF RequestOK
  <2>2. pc' = [pc EXCEPT ![k] = p]
    BY <1>2 DEF Begin, Goto
  <2> HIDE DEF p
  <2>3. CitizenTypesOK' /\ pc'[k] = p /\ \A l \in Caller \ {k} : pc'[l] = pc[l]
    BY <2>2, OnboardingTypes DEF CitizenInv, CitizenTypesOK, Begin
  <2>4. Grows(ident, ident', chals, chals')
    BY NothingGrows DEF Begin
  <2>5. FlightsOK'
    BY <2>1, <2>2, <2>4, FlightsKept DEF Begin
  <2>6. SessionsOK' /\ IdentsOK' /\ RequestsOK'
    BY <2>4, SessionsKept, IdentsKept, RequestsKept DEF Begin
  <2>7. GuessesOK'
    <3>1. \A c \in DOMAIN chals : chals[c].attempts \in Nat
      BY TypeFacts DEF Challenges, CitizenInv
    <3> QED BY <2>1, <2>3, <3>1, GuessesKept DEF Begin
  <2>8. FailuresOK'
    <3>1. Counted \in Nat /\ Counted <= MaxFailures - 1 /\ Counted' = Counted
      BY UnlockedHasRoom DEF Begin, Counted
    <3>2. Mismatches' \in SUBSET Caller
      BY DEF Mismatches
    <3>3. /\ Cardinality(Mismatches') \in Nat /\ Cardinality(Mismatches') <= Cardinality(Caller)
          /\ Cardinality(Caller) \in Nat /\ MaxFailures \in Nat
      BY <3>2, CountCallers, ApplicantLimits
    <3>4. Counted' + Cardinality(Mismatches') <= MaxFailures + Cardinality(Caller) - 1
      BY <3>1, <3>3
    <3> QED BY <3>4 DEF Begin, CitizenInv, FailuresOK
  <2> QED BY <2>3, <2>5, <2>6, <2>7, <2>8 DEF CitizenInv
<1> QED BY <1>1, <1>2

LEMMA RecordFailureKeepsInv ==
  ASSUME CitizenInv, NEW k \in Caller, RecordFailure(k)
  PROVE  CitizenInv'
<1> DEFINE fresh == attempts.failed = 0 \/ attempts.start + FailureWindow <= clock
           n == IF fresh THEN 1 ELSE attempts.failed + 1
<1>1. /\ attempts.failed \in Nat /\ attempts.start \in Nat /\ attempts.until \in Nat
      /\ clock \in Nat /\ clock' = clock /\ MaxFailures \in Nat \ {0} /\ FailureWindow \in Nat \ {0}
      /\ LockTime \in Nat /\ LockTime >= FailureWindow
  BY TypeFacts, ApplicantLimits DEF CitizenInv, CitizenTypesOK, RecordFailure
<1>2. /\ attempts'.failed = n /\ attempts'.start = (IF fresh THEN clock ELSE attempts.start)
      /\ attempts'.until = (IF n >= MaxFailures THEN clock + LockTime ELSE attempts.until)
      /\ attempts' \in [failed : Nat, start : Nat, until : Nat]
  BY <1>1 DEF RecordFailure, FailureRecorded
<1>3. pc' = [pc EXCEPT ![k] = Idle]
  BY DEF RecordFailure, Goto
<1>4. CitizenTypesOK' /\ pc'[k] = Idle /\ \A l \in Caller \ {k} : pc'[l] = pc[l]
  BY <1>2, <1>3, OnboardingTypes DEF CitizenInv, RecordFailure
<1>5. Grows(ident, ident', chals, chals')
  BY NothingGrows DEF RecordFailure
<1>6. FlightsOK'
  BY <1>3, <1>5, IdleOK, FlightsKept DEF RecordFailure
<1>7. SessionsOK' /\ IdentsOK' /\ RequestsOK'
  BY <1>5, SessionsKept, IdentsKept, RequestsKept DEF RecordFailure
<1>8. GuessesOK'
  <2>1. \A c \in DOMAIN chals : chals[c].attempts \in Nat
    BY TypeFacts DEF Challenges, CitizenInv
  <2> QED BY <1>4, <2>1, IdleOK, GuessesKept DEF RecordFailure
<1>9. FailuresOK'
  <2>1. Mismatches' = Mismatches \ {k} /\ k \in Mismatches /\ Mismatches \in SUBSET Caller
    BY <1>4 DEF Mismatches, RecordFailure, Idle
  <2>2. /\ Cardinality(Mismatches) \in Nat /\ IsFiniteSet(Mismatches)
        /\ Cardinality(Caller) \in Nat /\ Cardinality(Mismatches) <= Cardinality(Caller)
    BY <2>1, CountCallers
  <2>3. Cardinality(Mismatches') = Cardinality(Mismatches) - 1 /\ Cardinality(Mismatches) >= 1
    BY <2>1, <2>2, FS_RemoveElement, FS_EmptySet
  <2>4. Counted + Cardinality(Mismatches) <= MaxFailures + Cardinality(Caller) - 1
    BY <2>1 DEF CitizenInv, FailuresOK
  <2>5. n = Counted + 1 /\ Counted \in Nat
    BY <1>1 DEF Counted
  <2>6. n + Cardinality(Mismatches') <= MaxFailures + Cardinality(Caller) - 1
    BY <1>1, <2>2, <2>3, <2>4, <2>5
  <2>7. Counted' = n
    BY <1>1, <1>2 DEF Counted
  <2>8. attempts.start <= clock
    BY DEF CitizenInv, FailuresOK
  <2>9. attempts'.failed >= MaxFailures => attempts'.until >= attempts'.start + FailureWindow
    BY <1>1, <1>2, <2>8
  <2> QED BY <1>1, <1>2, <2>2, <2>3, <2>5, <2>6, <2>7, <2>8, <2>9 DEF FailuresOK
<1> QED BY <1>4, <1>6, <1>7, <1>8, <1>9 DEF CitizenInv

-----------------------------------------------------------------------------
(* A row for the citizen, and the codes *)

\* An identity more: nothing refers to it yet.
LEMMA CreateIdentityKeepsInv ==
  ASSUME CitizenInv, NEW k \in Caller, CreateIdentity(k)
  PROVE  CitizenInv'
<1>1. CASE WithOwnHash # {}
  <2> DEFINE p == [op |-> "confirm", id |-> CHOOSE i \in WithOwnHash : TRUE]
  <2>1. RequestOK(p, ident, chals, sessions) /\ p.op = "confirm"
    BY <1>1 DEF RequestOK, WithOwnHash
  <2>2. pc' = [pc EXCEPT ![k] = p] /\ UNCHANGED ident
    BY <1>1 DEF CreateIdentity, Goto
  <2> HIDE DEF p
  <2> QED BY <2>1, <2>2, QuietMove DEF CreateIdentity, CitizenInv, CitizenTypesOK
<1>2. CASE WithOwnHash = {}
  <2> DEFINE n == Len(ident) + 1
             p == [op |-> "confirm", id |-> n]
  <2>1. /\ pc' = [pc EXCEPT ![k] = p] /\ ident' = Append(ident, NewIdentity)
        /\ Len(ident) < bound.ids
    BY <1>2 DEF CreateIdentity, Goto
  <2>2. CitizenTypesOK
    BY DEF CitizenInv
  <2>3. NewIdentity \in Identities
    BY DEF NewIdentity, Identities
  <2>4. /\ ident' \in Seq(Identities) /\ Len(ident') = n /\ DOMAIN ident' = 1 .. n
        /\ \A i \in DOMAIN ident : ident'[i] = ident[i]
        /\ ident'[n] = NewIdentity /\ DOMAIN ident = 1 .. Len(ident) /\ Len(ident) \in Nat
    BY <2>1, <2>2, <2>3, TypeFacts, AppendProperties, LenProperties, SMTT(40) DEF CitizenTypesOK
  <2>5. DOMAIN ident \subseteq DOMAIN ident' /\ n \in DOMAIN ident' /\ n \notin DOMAIN ident
        /\ DOMAIN ident' = DOMAIN ident \cup {n}
    BY <2>4
  <2>6. Grows(ident, ident', chals, chals')
    BY <2>2, <2>4, <2>5 DEF Grows, CreateIdentity, CitizenTypesOK
  <2>7. /\ pc' = [l \in Caller |-> pc'[l]] /\ pc'[k] = p
        /\ \A l \in Caller \ {k} : pc'[l] = pc[l]
    BY <2>1, <2>2 DEF CitizenTypesOK
  <2>8. RequestOK(p, ident', chals', sessions') /\ p.op = "confirm"
    BY <2>5 DEF RequestOK
  <2>9. CitizenTypesOK'
    <3>1. Len(ident') <= bound'.ids
      <4>1. bound' = bound /\ bound.ids \in Nat
        BY <2>2, TypeFacts DEF CreateIdentity
      <4> QED BY <2>1, <2>4, <4>1
    <3>2. deciding' \in [Erasers -> 0 .. Len(ident')]
      <4>1. \A f \in Erasers : deciding[f] \in 0 .. Len(ident')
        BY <2>2, <2>4 DEF CitizenTypesOK
      <4> QED BY <2>2, <4>1 DEF CitizenTypesOK, CreateIdentity
    <3>3. /\ \A c \in DOMAIN chals' : chals'[c].id \in DOMAIN ident'
          /\ \A r \in DOMAIN reqs' : reqs'[r].id \in DOMAIN ident'
          /\ sweep' = Null \/ sweep' \subseteq DOMAIN ident'
      BY <2>2, <2>5 DEF CitizenTypesOK, CreateIdentity
    <3>4. \A i \in Ids' \ DOMAIN ident' : apps'[i] = NoApps
      BY <2>2, <2>5 DEF CitizenTypesOK, CreateIdentity, Ids
    <3> QED BY <2>2, <2>4, <2>7, <3>1, <3>2, <3>3, <3>4 DEF CitizenTypesOK, CreateIdentity, Ids, NoApps
  <2> HIDE DEF p, n
  <2>10. FlightsOK'
    BY <2>1, <2>6, <2>8, FlightsKept DEF CreateIdentity
  <2>11. SessionsOK' /\ RequestsOK'
    BY <2>6, SessionsKept, RequestsKept DEF CreateIdentity
  <2>12. IdentsOK'
    <3>1. \A i \in DOMAIN ident : IdentityOK(i, ident'[i], apps[i], late, chals)
      BY <2>4 DEF CitizenInv, IdentsOK
    <3>2. IdentityOK(n, NewIdentity, apps[n], late, chals)
      <4>1. n \in Ids \ DOMAIN ident
        BY <2>1, <2>2, <2>4, TypeFacts DEF Ids, n
      <4>2. \A ag \in Agency : apps[n][ag] # "accepted"
        BY <2>2, <4>1 DEF CitizenTypesOK, NoApps
      <4> QED BY <4>2 DEF IdentityOK, NewIdentity
    <3>3. WithOwnHash' = {n}
      BY <1>2, <2>4, <2>5 DEF WithOwnHash, NewIdentity
    <3> QED BY <2>4, <2>5, <3>1, <3>2, <3>3 DEF IdentsOK, OneOwnHash, CreateIdentity
  <2>13. GuessesOK' /\ FailuresOK'
    <3>1. \A c \in DOMAIN chals : chals[c].attempts \in Nat
      BY <2>2, TypeFacts DEF Challenges
    <3> QED BY <2>7, <2>8, <3>1, GuessesKept, FailuresKept DEF CreateIdentity
  <2> QED BY <2>9, <2>10, <2>11, <2>12, <2>13 DEF CitizenInv
<1> QED BY <1>1, <1>2

LEMMA RequestOtpKeepsInv ==
  ASSUME CitizenInv, NEW id \in DOMAIN ident, NEW phone \in Phone, RequestOtp(id, phone)
  PROVE  CitizenInv'
<1> DEFINE new == NewChallenge(id, phone, clock)
           n == Len(chals) + 1
<1>1. CitizenTypesOK /\ chals' = Append(chals, new)
  BY DEF CitizenInv, RequestOtp
<1>2. new \in Challenges /\ new.id = id /\ new.attempts = 0
  BY <1>1, TypeFacts, ApplicantLimits DEF NewChallenge, Challenges
<1> HIDE DEF new
<1>3. /\ chals' \in Seq(Challenges) /\ Len(chals') = n /\ DOMAIN chals' = 1 .. n
      /\ \A c \in DOMAIN chals : chals'[c] = chals[c]
      /\ chals'[n] = new /\ DOMAIN chals = 1 .. Len(chals) /\ Len(chals) \in Nat
  BY <1>1, <1>2, TypeFacts, AppendProperties, LenProperties, SMTT(40) DEF CitizenTypesOK
<1>4. DOMAIN chals' = DOMAIN chals \cup {n}
  BY <1>3
<1>5. Grows(ident, ident', chals, chals')
  BY <1>3, <1>4 DEF Grows, RequestOtp
<1>6. CitizenTypesOK'
  <2>1. \A c \in DOMAIN chals' : chals'[c].id \in DOMAIN ident'
    BY <1>1, <1>2, <1>3, <1>4 DEF CitizenTypesOK, RequestOtp
  <2> QED BY <1>1, <1>3, <2>1 DEF CitizenTypesOK, RequestOtp, Ids, NoApps
<1>7. FlightsOK' /\ SessionsOK' /\ IdentsOK' /\ RequestsOK'
  BY <1>5, FlightsUntouched, SessionsKept, IdentsKept, RequestsKept DEF RequestOtp
<1>8. FailuresOK'
  BY FailuresKept DEF RequestOtp
<1>9. GuessesOK'
  <2> SUFFICES ASSUME NEW c \in DOMAIN chals'
               PROVE  chals'[c].attempts + Cardinality(Wrong(c)') <= OtpMaxAttempts + Cardinality(Caller) - 1
    BY DEF GuessesOK
  <2>1. Wrong(c)' = Wrong(c) /\ Wrong(c) \in SUBSET Caller
    BY DEF Wrong, RequestOtp
  <2>2. CASE c \in DOMAIN chals
    BY <1>3, <2>1, <2>2 DEF CitizenInv, GuessesOK
  <2>3. CASE c = n
    <3>1. /\ Cardinality(Wrong(c)) \in Nat /\ Cardinality(Wrong(c)) <= Cardinality(Caller)
          /\ Cardinality(Caller) \in Nat /\ OtpMaxAttempts \in Nat \ {0}
      BY <2>1, CountCallers, ApplicantLimits
    <3> QED BY <1>2, <1>3, <2>1, <2>3, <3>1
  <2> QED BY <1>4, <2>2, <2>3
<1> QED BY <1>6, <1>7, <1>8, <1>9 DEF CitizenInv

\* Some numbers up to n have a greatest among them: the one nearest to n.
LEMMA GreatestUpTo ==
  ASSUME NEW n \in Nat, NEW S \in SUBSET (1 .. n), S # {}
  PROVE  \E d \in S : \A e \in S : e <= d
<1> DEFINE T == {n - x : x \in S}
           R == OpToRel(<, Nat)
<1>1. T \subseteq Nat /\ T # {}
  OBVIOUS
<1>2. \A i, j \in Nat : i < j => <<i, j>> \in R
  BY DEF OpToRel
<1> HIDE DEF R
<1>3. PICK m \in T : \A j \in T : ~(<<j, m>> \in R)
  <2>1. IsWellFoundedOn(R, Nat)
    BY NatLessThanWellFounded DEF R
  <2> QED BY <2>1, <1>1, WFMin
<1>4. PICK x \in S : m = n - x
  OBVIOUS
<1>5. ASSUME NEW y \in S PROVE y <= x
  <2>1. n - y \in T /\ n - y \in Nat /\ n - x \in Nat /\ y \in Nat /\ x \in Nat
    OBVIOUS
  <2>2. ~(n - y < n - x)
    BY <1>2, <1>3, <1>4, <2>1
  <2> QED BY <2>1, <2>2
<1> QED BY <1>5

\* The challenge that is looked up is one of the identity's.
LEMMA LiveChallengeFacts ==
  ASSUME CitizenTypesOK, NEW id, NEW c, c = LiveChallenge(chals, id, clock), c # 0
  PROVE  c \in DOMAIN chals /\ chals[c].id = id /\ Unused(chals[c], clock)
<1> DEFINE live == {d \in DOMAIN chals : chals[d].id = id /\ Unused(chals[d], clock)}
<1>1. live # {} /\ c = CHOOSE d \in live : \A e \in live : e <= d
  BY DEF LiveChallenge
<1>2. live \subseteq 1 .. Len(chals) /\ Len(chals) \in Nat
  BY TypeFacts
<1>3. \E d \in live : \A e \in live : e <= d
  BY <1>1, <1>2, GreatestUpTo
<1>4. c \in live
  BY <1>1, <1>3
<1> QED BY <1>4

LEMMA VerifyOtpKeepsInv ==
  ASSUME CitizenInv, NEW k \in Caller, NEW id \in DOMAIN ident, NEW digits, NEW phone \in Phone,
         VerifyOtp(k, id, digits, phone)
  PROVE  CitizenInv'
<1> DEFINE c == LiveChallenge(chals, id, clock)
<1>1. c # 0 /\ ChallengeOpen(chals[c])
  BY DEF VerifyOtp
<1>2. c \in DOMAIN chals
  BY <1>1, LiveChallengeFacts DEF CitizenInv
<1> HIDE DEF c
<1>3. CASE CodeVerifies(chals, c, digits, phone)
  <2> DEFINE p == [op |-> "consume", chal |-> c, phone |-> phone]
  <2>1. RequestOK(p, ident, chals, sessions) /\ p.op = "consume"
    BY <1>2, <1>3 DEF RequestOK, CodeVerifies
  <2>2. pc' = [pc EXCEPT ![k] = p]
    BY <1>3 DEF VerifyOtp, Goto, c
  <2> HIDE DEF p
  <2> QED BY <2>1, <2>2, QuietMove DEF VerifyOtp, CitizenInv, CitizenTypesOK
<1>4. CASE ~CodeVerifies(chals, c, digits, phone)
  <2> DEFINE p == [op |-> "wrong", chal |-> c]
  <2>1. RequestOK(p, ident, chals, sessions) /\ p.op = "wrong" /\ p.chal = c
    BY <1>2 DEF RequestOK
  <2>2. pc' = [pc EXCEPT ![k] = p]
    BY <1>4 DEF VerifyOtp, Goto, c
  <2> HIDE DEF p
  <2>3. CitizenTypesOK' /\ pc'[k] = p /\ \A l \in Caller \ {k} : pc'[l] = pc[l]
    BY <2>2, OnboardingTypes DEF CitizenInv, CitizenTypesOK, VerifyOtp
  <2>4. Grows(ident, ident', chals, chals')
    BY NothingGrows DEF VerifyOtp
  <2>5. FlightsOK'
    BY <2>1, <2>2, <2>4, FlightsKept DEF VerifyOtp
  <2>6. SessionsOK' /\ IdentsOK' /\ RequestsOK'
    BY <2>4, SessionsKept, IdentsKept, RequestsKept DEF VerifyOtp
  <2>7. FailuresOK'
    BY <2>1, <2>3, FailuresKept DEF VerifyOtp
  <2>8. GuessesOK'
    <3> SUFFICES ASSUME NEW d \in DOMAIN chals
                 PROVE  chals[d].attempts + Cardinality(Wrong(d)') <= OtpMaxAttempts + Cardinality(Caller) - 1
      BY DEF GuessesOK, VerifyOtp
    <3>1. CASE d = c
      <4>1. Wrong(d)' \in SUBSET Caller
        BY DEF Wrong
      <4>2. /\ Cardinality(Wrong(d)') \in Nat /\ Cardinality(Wrong(d)') <= Cardinality(Caller)
            /\ Cardinality(Caller) \in Nat /\ OtpMaxAttempts \in Nat \ {0}
        BY <4>1, CountCallers, ApplicantLimits
      <4>3. chals[d].attempts \in Nat /\ chals[d].attempts < OtpMaxAttempts
        BY <1>1, <3>1, TypeFacts DEF ChallengeOpen, Challenges, CitizenInv
      <4> QED BY <4>2, <4>3
    <3>2. CASE d # c
      <4>1. Wrong(d)' \subseteq Wrong(d) /\ Wrong(d) \in SUBSET Caller
        BY <2>1, <2>3, <3>2 DEF Wrong
      <4>2. IsFiniteSet(Wrong(d)) /\ Cardinality(Wrong(d)) \in Nat /\ Cardinality(Caller) \in Nat
        BY <4>1, CountCallers
      <4>3. Cardinality(Wrong(d)') <= Cardinality(Wrong(d)) /\ Cardinality(Wrong(d)') \in Nat
        BY <4>1, <4>2, FS_Subset, FS_CardinalityType
      <4>4. chals[d].attempts \in Nat /\ OtpMaxAttempts \in Nat
        BY TypeFacts DEF Challenges, CitizenInv
      <4>5. chals[d].attempts + Cardinality(Wrong(d)) <= OtpMaxAttempts + Cardinality(Caller) - 1
        BY DEF CitizenInv, GuessesOK
      <4> QED BY <4>2, <4>3, <4>4, <4>5
    <3> QED BY <3>1, <3>2
  <2> QED BY <2>3, <2>5, <2>6, <2>7, <2>8 DEF CitizenInv
<1> QED BY <1>3, <1>4

-----------------------------------------------------------------------------
(* Steps that write one challenge *)

\* Challenge c is rewritten, and k moves on.
LEMMA ChallengeWritten ==
  ASSUME CitizenTypesOK, NEW k \in Caller, NEW p, pc' = [pc EXCEPT ![k] = p],
         NEW c \in DOMAIN chals, NEW row \in Challenges, row.id = chals[c].id,
         chals' = [chals EXCEPT ![c] = row],
         UNCHANGED <<bound, clock, attempts, ident, token, sessions, apps, late, reqs, deciding, sweep>>
  PROVE  /\ CitizenTypesOK' /\ pc'[k] = p /\ \A l \in Caller \ {k} : pc'[l] = pc[l]
         /\ DOMAIN chals' = DOMAIN chals
         /\ chals'[c] = row /\ \A d \in DOMAIN chals \ {c} : chals'[d] = chals[d]
<1>1. pc' = [l \in Caller |-> pc'[l]]
  BY DEF CitizenTypesOK
<1>2. pc'[k] = p /\ \A l \in Caller \ {k} : pc'[l] = pc[l]
  BY DEF CitizenTypesOK
<1>3. /\ DOMAIN chals' = DOMAIN chals /\ chals'[c] = row
      /\ \A d \in DOMAIN chals \ {c} : chals'[d] = chals[d]
  OBVIOUS
<1>4. chals' \in Seq(Challenges)
  BY TypeFacts, SeqOfFunction
<1>5. \A d \in DOMAIN chals' : chals'[d].id \in DOMAIN ident'
  BY <1>3 DEF CitizenTypesOK
<1> QED BY <1>1, <1>2, <1>3, <1>4, <1>5 DEF CitizenTypesOK, Ids, NoApps

LEMMA RecordFailedAttemptKeepsInv ==
  ASSUME CitizenInv, NEW k \in Caller, RecordFailedAttempt(k)
  PROVE  CitizenInv'
<1> DEFINE c == pc[k].chal
           row == AttemptRecorded(chals[c])
<1>1. CitizenTypesOK /\ c \in DOMAIN chals /\ pc' = [pc EXCEPT ![k] = Idle]
  BY DEF CitizenInv, FlightsOK, RequestOK, RecordFailedAttempt, Goto
<1>2. chals[c] \in Challenges
  BY <1>1, TypeFacts
<1>3. /\ row \in Challenges /\ row.id = chals[c].id /\ row.phone = chals[c].phone
      /\ row.used = chals[c].used /\ row.gone = chals[c].gone
      /\ row.attempts <= chals[c].attempts + 1
  BY <1>2 DEF AttemptRecorded, Challenges
<1>4. chals' = [chals EXCEPT ![c] = row]
  BY <1>1 DEF RecordFailedAttempt
<1> HIDE DEF row
<1>5. /\ CitizenTypesOK' /\ pc'[k] = Idle /\ \A l \in Caller \ {k} : pc'[l] = pc[l]
      /\ DOMAIN chals' = DOMAIN chals
      /\ chals'[c] = row /\ \A d \in DOMAIN chals \ {c} : chals'[d] = chals[d]
  BY <1>1, <1>3, <1>4, ChallengeWritten DEF RecordFailedAttempt
<1>6. Grows(ident, ident', chals, chals')
  BY <1>3, <1>5 DEF Grows, RecordFailedAttempt
<1>7. FlightsOK' /\ SessionsOK' /\ IdentsOK' /\ RequestsOK'
  BY <1>1, <1>6, IdleOK, FlightsKept, SessionsKept, IdentsKept, RequestsKept DEF RecordFailedAttempt
<1>8. FailuresOK'
  BY <1>5, IdleOK, FailuresKept DEF RecordFailedAttempt
<1>9. GuessesOK'
  <2> SUFFICES ASSUME NEW d \in DOMAIN chals
               PROVE  chals'[d].attempts + Cardinality(Wrong(d)') <= OtpMaxAttempts + Cardinality(Caller) - 1
    BY <1>5 DEF GuessesOK
  <2>1. /\ chals[d].attempts \in Nat /\ OtpMaxAttempts \in Nat
        /\ chals[d].attempts + Cardinality(Wrong(d)) <= OtpMaxAttempts + Cardinality(Caller) - 1
    BY <1>1, TypeFacts DEF Challenges, CitizenInv, GuessesOK
  <2>2. Wrong(d) \in SUBSET Caller
    BY DEF Wrong
  <2>3. IsFiniteSet(Wrong(d)) /\ Cardinality(Wrong(d)) \in Nat /\ Cardinality(Caller) \in Nat
    BY <2>2, CountCallers
  <2>4. CASE d = c
    <3>1. Wrong(d)' = Wrong(d) \ {k} /\ k \in Wrong(d)
      BY <1>5, <2>4, IdleOK DEF Wrong, RecordFailedAttempt
    <3>2. Cardinality(Wrong(d)') = Cardinality(Wrong(d)) - 1
      BY <2>3, <3>1, FS_RemoveElement
    <3>3. row.attempts \in Nat
      BY <1>3 DEF Challenges
    <3> QED BY <1>3, <1>5, <2>1, <2>3, <2>4, <3>2, <3>3
  <2>5. CASE d # c
    <3>1. Wrong(d)' = Wrong(d)
      BY <1>5, <2>5, IdleOK DEF Wrong
    <3> QED BY <1>5, <2>1, <2>5, <3>1
  <2> QED BY <2>4, <2>5
<1> QED BY <1>5, <1>7, <1>8, <1>9 DEF CitizenInv

\* A code is used up at most once: the request that does is the only one to
\* go on, and no session came of the code before.
LEMMA ConsumeChallengeKeepsInv ==
  ASSUME CitizenInv, NEW k \in Caller, ConsumeChallenge(k)
  PROVE  CitizenInv'
<1> DEFINE c == pc[k].chal
           row == [chals[c] EXCEPT !.used = TRUE]
           p == [pc[k] EXCEPT !.op = "stamp"]
<1>1. /\ CitizenTypesOK /\ c \in DOMAIN chals
      /\ pc[k] \in [op : {"consume", "stamp", "session"}, chal : DOMAIN chals, phone : Phone]
      /\ pc[k].phone = chals[c].phone
  BY DEF CitizenInv, FlightsOK, RequestOK, ConsumeChallenge
<1>2. CASE ~MayConsume(chals[c], clock)
  <2>1. pc' = [pc EXCEPT ![k] = Idle] /\ UNCHANGED chals
    BY <1>2 DEF ConsumeChallenge, Goto
  <2> QED BY <2>1, <1>1, IdleOK, QuietMove DEF ConsumeChallenge, CitizenTypesOK
<1>3. CASE MayConsume(chals[c], clock)
  <2>1. chals[c] \in Challenges /\ ~chals[c].used
    BY <1>1, <1>3, TypeFacts DEF MayConsume, Unused
  <2>2. /\ row \in Challenges /\ row.id = chals[c].id /\ row.phone = chals[c].phone
        /\ row.used /\ row.gone = chals[c].gone /\ row.attempts = chals[c].attempts
    BY <2>1 DEF Challenges
  <2>3. chals' = [chals EXCEPT ![c] = row] /\ pc' = [pc EXCEPT ![k] = p]
    BY <1>1, <1>3 DEF ConsumeChallenge, Goto
  <2>4. /\ p.op = "stamp" /\ p.chal = c /\ p.phone = chals[c].phone
        /\ p \in [op : {"consume", "stamp", "session"}, chal : DOMAIN chals, phone : Phone]
    BY <1>1
  <2> HIDE DEF row, p
  <2>5. /\ CitizenTypesOK' /\ pc'[k] = p /\ \A l \in Caller \ {k} : pc'[l] = pc[l]
        /\ DOMAIN chals' = DOMAIN chals
        /\ chals'[c] = row /\ \A d \in DOMAIN chals \ {c} : chals'[d] = chals[d]
    BY <1>1, <2>2, <2>3, ChallengeWritten DEF ConsumeChallenge
  <2>6. Grows(ident, ident', chals, chals')
    BY <2>2, <2>5 DEF Grows, ConsumeChallenge
  <2>7. SessionsOK' /\ IdentsOK' /\ RequestsOK'
    BY <2>6, SessionsKept, IdentsKept, RequestsKept DEF ConsumeChallenge
  <2>8. FailuresOK'
    BY <2>4, <2>5, FailuresKept DEF ConsumeChallenge
  <2>9. GuessesOK'
    <3>1. \A d \in DOMAIN chals : chals'[d].attempts \in Nat /\ chals'[d].attempts = chals[d].attempts
      BY <1>1, <2>2, <2>5, TypeFacts DEF Challenges
    <3>2. \A d \in DOMAIN chals : chals'[d].attempts \in Nat /\ chals'[d].attempts <= chals[d].attempts
      BY <3>1
    <3> QED BY <2>4, <2>5, <3>2, GuessesKept
  <2>10. FlightsOK'
    <3>1. RequestOK(p, ident', chals', sessions')
      <4>1. \A s \in sessions : s.chal # c
        BY <2>1 DEF CitizenInv, SessionsOK, SessionOK
      <4> QED BY <2>2, <2>4, <2>5, <4>1 DEF RequestOK, ConsumeChallenge
    <3>2. \A l \in Caller \ {k} : RequestOK(pc[l], ident', chals', sessions')
      BY <2>6, RequestKept DEF CitizenInv, FlightsOK, ConsumeChallenge
    <3>3. \A l \in Caller : pc[l].op \in {"stamp", "session"} => pc[l].chal # c
      BY <2>1 DEF CitizenInv, FlightsOK, RequestOK
    <3>4. ConsumedOnce'
      BY <2>4, <2>5, <3>3 DEF CitizenInv, FlightsOK, ConsumedOnce
    <3> QED BY <2>5, <3>1, <3>2, <3>4 DEF FlightsOK
  <2> QED BY <2>5, <2>7, <2>8, <2>9, <2>10 DEF CitizenInv
<1> QED BY <1>2, <1>3

-----------------------------------------------------------------------------
(* Steps that write one identity and no challenge *)

LEMMA IdentityWritten ==
  ASSUME CitizenTypesOK, NEW i \in DOMAIN ident, NEW row \in Identities,
         ident' = [ident EXCEPT ![i] = row]
  PROVE  /\ ident' \in Seq(Identities) /\ Len(ident') = Len(ident) /\ DOMAIN ident' = DOMAIN ident
         /\ ident'[i] = row /\ \A j \in DOMAIN ident \ {i} : ident'[j] = ident[j]
<1>1. ident' \in [1 .. Len(ident) -> Identities] /\ Len(ident) \in Nat
  BY TypeFacts
<1>2. ident' \in Seq(Identities) /\ Len(ident') = Len(ident) /\ DOMAIN ident' = DOMAIN ident
  BY <1>1, TypeFacts, SeqOfFunction
<1> QED BY <1>2

\* A living identity is written and stays living, for an application or for none.
LEMMA LivingWritten ==
  ASSUME CitizenInv, NEW i \in DOMAIN ident, NEW row \in Identities,
         ident' = [ident EXCEPT ![i] = row],
         row.erased = ident[i].erased, row.hash = ident[i].hash,
         IdentityOK(i, row, apps'[i], late, chals),
         apps' \in [Ids -> [Agency -> AppStates]],
         \A j \in Ids \ {i} : apps'[j] = apps[j],
         UNCHANGED <<bound, clock, attempts, token, chals, sessions, late, reqs, deciding, sweep>>
  PROVE  /\ (pc' = [k \in Caller |-> pc'[k]] => CitizenTypesOK') /\ Grows(ident, ident', chals, chals')
         /\ SessionsOK' /\ IdentsOK' /\ RequestsOK'
<1>1. CitizenTypesOK /\ DOMAIN ident \subseteq Ids
  BY TypeFacts DEF CitizenInv
<1>2. /\ ident' \in Seq(Identities) /\ Len(ident') = Len(ident) /\ DOMAIN ident' = DOMAIN ident
      /\ ident'[i] = row /\ \A j \in DOMAIN ident \ {i} : ident'[j] = ident[j]
  BY <1>1, IdentityWritten
<1>3. Grows(ident, ident', chals, chals')
  BY <1>1, <1>2 DEF Grows, CitizenTypesOK
<1>4. SessionsOK' /\ RequestsOK'
  BY <1>3, SessionsKept, RequestsKept
<1>5. IdentsOK'
  <2>1. ASSUME NEW j \in DOMAIN ident
        PROVE  IdentityOK(j, ident'[j], apps'[j], late, chals)
    BY <1>1, <1>2 DEF CitizenInv, IdentsOK
  <2>2. WithOwnHash' = WithOwnHash
    BY <1>2 DEF WithOwnHash
  <2> QED BY <1>2, <2>1, <2>2 DEF CitizenInv, IdentsOK, OneOwnHash
<1>6. ASSUME pc' = [k \in Caller |-> pc'[k]]
      PROVE  CitizenTypesOK'
  <2>1. /\ \A c \in DOMAIN chals' : chals'[c].id \in DOMAIN ident'
        /\ \A r \in DOMAIN reqs' : reqs'[r].id \in DOMAIN ident'
        /\ sweep' = Null \/ sweep' \subseteq DOMAIN ident'
        /\ deciding' \in [Erasers -> 0 .. Len(ident')]
        /\ Len(ident') <= bound'.ids
    BY <1>1, <1>2 DEF CitizenTypesOK
  <2>2. \A j \in Ids' \ DOMAIN ident' : apps'[j] = NoApps
    BY <1>1, <1>2 DEF CitizenTypesOK, Ids
  <2> QED BY <1>1, <1>2, <1>6, <2>1, <2>2 DEF CitizenTypesOK, Ids, NoApps
<1> QED BY <1>3, <1>4, <1>5, <1>6

\* Nobody guesses anything in the step.
LEMMA NoGuess ==
  ASSUME CitizenInv, UNCHANGED <<attempts, clock, chals>>,
         \A l \in Caller : pc'[l] = pc[l] \/ pc'[l].op \notin {"wrong", "mismatch"}
  PROVE  GuessesOK' /\ FailuresOK'
<1>1. \A c \in DOMAIN chals : chals[c].attempts \in Nat
  BY TypeFacts DEF Challenges, CitizenInv
<1> QED BY <1>1, GuessesKept, FailuresKept

\* The contact that is stamped is the phone of the code that was used up.
LEMMA StampPhoneVerifiedKeepsInv ==
  ASSUME CitizenInv, NEW k \in Caller, StampPhoneVerified(k)
  PROVE  CitizenInv'
<1> DEFINE c == pc[k].chal
           i == chals[c].id
           row == [ident[i] EXCEPT !.contact = pc[k].phone]
           p == [pc[k] EXCEPT !.op = "session"]
<1>1. /\ CitizenTypesOK /\ c \in DOMAIN chals /\ i \in DOMAIN ident /\ chals[c].used
      /\ pc[k] \in [op : {"consume", "stamp", "session"}, chal : DOMAIN chals, phone : Phone]
      /\ pc[k].phone = chals[c].phone /\ \A s \in sessions : s.chal # c
  BY DEF CitizenInv, FlightsOK, RequestOK, StampPhoneVerified, CitizenTypesOK
<1>2. CASE Frozen(ident[i])
  <2>1. pc' = [pc EXCEPT ![k] = Idle] /\ UNCHANGED ident
    BY <1>2 DEF StampPhoneVerified, Goto
  <2> QED BY <2>1, <1>1, IdleOK, QuietMove DEF StampPhoneVerified, CitizenTypesOK
<1>3. CASE ~Frozen(ident[i])
  <2>1. ident[i] \in Identities /\ ~ident[i].erased
    BY <1>1, <1>3, TypeFacts DEF Frozen
  <2>2. /\ row \in Identities /\ row.erased = ident[i].erased /\ row.hash = ident[i].hash
        /\ row.locked = ident[i].locked /\ row.contact = chals[c].phone
    BY <1>1, <2>1 DEF Identities
  <2>3. ident' = [ident EXCEPT ![i] = row] /\ pc' = [pc EXCEPT ![k] = p]
    BY <1>1, <1>3 DEF StampPhoneVerified, Goto
  <2>4. /\ p.op = "session" /\ p.chal = c /\ p.phone = chals[c].phone
        /\ p \in [op : {"consume", "stamp", "session"}, chal : DOMAIN chals, phone : Phone]
    BY <1>1
  <2> HIDE DEF row, p, i
  <2>5. IdentityOK(i, row, apps[i], late, chals)
    BY <1>1, <2>1, <2>2 DEF CitizenInv, IdentsOK, IdentityOK, i
  <2>6. /\ pc' = [l \in Caller |-> pc'[l]] /\ pc'[k] = p
        /\ \A l \in Caller \ {k} : pc'[l] = pc[l]
    BY <1>1, <2>3 DEF CitizenTypesOK
  <2>7. apps' = apps /\ apps \in [Ids -> [Agency -> AppStates]]
    BY <1>1 DEF CitizenTypesOK, StampPhoneVerified
  <2>8. /\ CitizenTypesOK' /\ Grows(ident, ident', chals, chals')
        /\ SessionsOK' /\ IdentsOK' /\ RequestsOK'
    BY <1>1, <2>2, <2>3, <2>5, <2>6, <2>7, LivingWritten DEF StampPhoneVerified
  <2>9. GuessesOK' /\ FailuresOK'
    BY <2>4, <2>6, NoGuess DEF StampPhoneVerified
  <2>10. FlightsOK'
    <3>1. ident'[i] = row /\ ~row.erased
      BY <1>1, <2>1, <2>2, <2>3, IdentityWritten
    <3>2. RequestOK(p, ident', chals', sessions')
      BY <1>1, <2>4, <3>1 DEF RequestOK, StampPhoneVerified, i
    <3>3. \A l \in Caller \ {k} : RequestOK(pc[l], ident', chals', sessions')
      BY <2>8, RequestKept DEF CitizenInv, FlightsOK, StampPhoneVerified
    <3>4. pc[k].op = "stamp"
      BY DEF StampPhoneVerified
    <3>5. ConsumedOnce'
      BY <2>4, <2>6, <3>4 DEF CitizenInv, FlightsOK, ConsumedOnce
    <3> QED BY <2>6, <3>2, <3>3, <3>5 DEF FlightsOK
  <2> QED BY <2>8, <2>9, <2>10 DEF CitizenInv
<1> QED BY <1>2, <1>3

LEMMA AcceptKeepsInv ==
  ASSUME CitizenInv, NEW i \in DOMAIN ident, NEW ag \in Agency, Accept(i, ag)
  PROVE  CitizenInv'
<1> DEFINE row == [ident[i] EXCEPT !.locked = ag]
<1>1. CitizenTypesOK /\ i \in Ids /\ ident[i] \in Identities /\ ~ident[i].erased
  BY TypeFacts DEF CitizenInv, Accept, Frozen
<1>2. /\ row \in Identities /\ row.erased = ident[i].erased /\ row.hash = ident[i].hash
      /\ row.contact = ident[i].contact /\ row.locked = ag /\ ag # Null
  BY <1>1, CitizenAssumption DEF Identities
<1>3. ident' = [ident EXCEPT ![i] = row]
  BY DEF Accept
<1> HIDE DEF row
<1>4. /\ apps' \in [Ids -> [Agency -> AppStates]]
      /\ \A j \in Ids \ {i} : apps'[j] = apps[j]
  BY <1>1 DEF Accept, CitizenTypesOK, AppStates
<1>5. IdentityOK(i, row, apps'[i], late, chals)
  BY <1>1, <1>2 DEF CitizenInv, IdentsOK, IdentityOK
<1>6. pc' = pc /\ pc' = [k \in Caller |-> pc'[k]]
  BY <1>1 DEF Accept, CitizenTypesOK
<1>7. /\ CitizenTypesOK' /\ Grows(ident, ident', chals, chals')
      /\ SessionsOK' /\ IdentsOK' /\ RequestsOK'
  BY <1>2, <1>3, <1>4, <1>5, <1>6, LivingWritten DEF Accept
<1>8. GuessesOK' /\ FailuresOK' /\ FlightsOK'
  BY <1>6, <1>7, NoGuess, FlightsUntouched DEF Accept
<1> QED BY <1>7, <1>8 DEF CitizenInv

LEMMA RecordBiometricResultKeepsInv ==
  ASSUME CitizenInv, NEW i \in DOMAIN ident, RecordBiometricResult(i)
  PROVE  CitizenInv'
<1> DEFINE row == [ident[i] EXCEPT !.biometric = TRUE]
<1>1. CitizenTypesOK /\ i \in Ids /\ ident[i] \in Identities /\ ~ident[i].erased
  BY TypeFacts DEF CitizenInv, RecordBiometricResult
<1>2. /\ row \in Identities /\ row.erased = ident[i].erased /\ row.hash = ident[i].hash
      /\ row.contact = ident[i].contact /\ row.locked = ident[i].locked
  BY <1>1 DEF Identities
<1>3. ident' = [ident EXCEPT ![i] = row] /\ apps' = apps
  BY DEF RecordBiometricResult
<1> HIDE DEF row
<1>4. apps' \in [Ids -> [Agency -> AppStates]]
  BY <1>1, <1>3 DEF CitizenTypesOK
<1>5. IdentityOK(i, row, apps'[i], late, chals)
  BY <1>1, <1>2, <1>3 DEF CitizenInv, IdentsOK, IdentityOK
<1>6. pc' = pc /\ pc' = [k \in Caller |-> pc'[k]]
  BY <1>1 DEF RecordBiometricResult, CitizenTypesOK
<1>7. /\ CitizenTypesOK' /\ Grows(ident, ident', chals, chals')
      /\ SessionsOK' /\ IdentsOK' /\ RequestsOK'
  BY <1>2, <1>3, <1>4, <1>5, <1>6, LivingWritten DEF RecordBiometricResult
<1>8. GuessesOK' /\ FailuresOK' /\ FlightsOK'
  BY <1>6, <1>7, NoGuess, FlightsUntouched DEF RecordBiometricResult
<1> QED BY <1>7, <1>8 DEF CitizenInv

-----------------------------------------------------------------------------
(* Sessions and applications *)

LEMMA CreateSessionKeepsInv ==
  ASSUME CitizenInv, NEW k \in Caller, CreateSession(k)
  PROVE  CitizenInv'
<1> DEFINE c == pc[k].chal
           s == [by |-> k, chal |-> c, id |-> chals[c].id, exp |-> clock + SessionTtl, ended |-> FALSE]
<1>1. /\ CitizenTypesOK /\ c \in DOMAIN chals /\ chals[c].used /\ \A t \in sessions : t.chal # c
      /\ ident[chals[c].id].erased => chals[c].gone
      /\ pc[k].op = "session"
  BY DEF CitizenInv, FlightsOK, RequestOK, CreateSession
<1>2. /\ s \in SessionRows /\ s.chal = c /\ s.id = chals[c].id
  <2>1. c \in Nat /\ chals[c].id \in Nat
    BY <1>1, TypeFacts DEF Challenges
  <2>2. clock + SessionTtl \in Nat
    BY <1>1, TypeFacts, CitizenAssumption
  <2> QED BY <2>1, <2>2 DEF SessionRows
<1>3. sessions' = sessions \cup {s} /\ pc' = [pc EXCEPT ![k] = Idle]
  BY DEF CreateSession, Goto
<1> HIDE DEF s
<1>4. /\ pc' = [l \in Caller |-> pc'[l]] /\ pc'[k] = Idle
      /\ \A l \in Caller \ {k} : pc'[l] = pc[l]
  BY <1>1, <1>3 DEF CitizenTypesOK
<1>5. CitizenTypesOK'
  BY <1>1, <1>2, <1>3, <1>4 DEF CitizenTypesOK, CreateSession, Ids, NoApps
<1>6. Grows(ident, ident', chals, chals')
  BY NothingGrows DEF CreateSession
<1>7. IdentsOK' /\ RequestsOK' /\ GuessesOK' /\ FailuresOK'
  BY <1>4, <1>6, IdleOK, IdentsKept, RequestsKept, NoGuess DEF CreateSession
<1>8. SessionsOK'
  <2>1. SessionOK(s, ident', chals')
    BY <1>1, <1>2 DEF SessionOK, CreateSession
  <2> QED BY <1>1, <1>2, <1>3, <2>1 DEF CitizenInv, SessionsOK, OneSessionPerCode, CreateSession
<1>9. FlightsOK'
  <2>1. \A l \in Caller \ {k} : pc[l].op \in {"stamp", "session"} => pc[l].chal # c
    BY <1>1 DEF CitizenInv, FlightsOK, ConsumedOnce
  <2>2. ASSUME NEW l \in Caller \ {k}
        PROVE  RequestOK(pc[l], ident', chals', sessions')
    BY <1>2, <1>3, <2>1 DEF CitizenInv, FlightsOK, RequestOK, CreateSession
  <2>3. ConsumedOnce'
    BY <1>4, IdleOK DEF CitizenInv, FlightsOK, ConsumedOnce
  <2> QED BY <1>4, <2>2, <2>3, IdleOK DEF FlightsOK
<1> QED BY <1>5, <1>7, <1>8, <1>9 DEF CitizenInv

LEMMA LogoutKeepsInv ==
  ASSUME CitizenInv, NEW s \in sessions, Logout(s)
  PROVE  CitizenInv'
<1> DEFINE t == [s EXCEPT !.ended = TRUE]
<1>1. CitizenTypesOK /\ s \in SessionRows
  BY DEF CitizenInv, CitizenTypesOK
<1>2. t \in SessionRows /\ t.chal = s.chal /\ t.id = s.id
  BY <1>1 DEF SessionRows
<1>3. sessions' = (sessions \ {s}) \cup {t}
  BY DEF Logout
<1> HIDE DEF t
<1>4. CitizenTypesOK'
  BY <1>1, <1>2, <1>3 DEF CitizenTypesOK, Logout, Ids, NoApps
<1>5. Grows(ident, ident', chals, chals')
  BY NothingGrows DEF Logout
<1>6. IdentsOK' /\ RequestsOK' /\ GuessesOK' /\ FailuresOK'
  BY <1>5, IdentsKept, RequestsKept, NoGuess DEF Logout
<1>7. FlightsOK'
  BY <1>2, <1>3, <1>5, FlightsUntouched DEF Logout
<1>8. SessionsOK'
  BY <1>2, <1>3 DEF CitizenInv, SessionsOK, SessionOK, OneSessionPerCode, Logout
<1> QED BY <1>4, <1>6, <1>7, <1>8 DEF CitizenInv

\* An application is filed or closed: the identity's row is as it was.
LEMMA ApplicationWritten ==
  ASSUME CitizenInv, NEW i \in DOMAIN ident, NEW ag \in Agency, NEW st \in {"open", "closed"},
         apps' = [apps EXCEPT ![i][ag] = st],
         late' \in SUBSET (Ids \X Agency), late \subseteq late',
         st = "open" /\ ident[i].erased => <<i, ag>> \in late',
         UNCHANGED <<bound, clock, attempts, ident, token, chals, sessions, reqs, deciding, sweep>>
  PROVE  /\ (pc' = [k \in Caller |-> pc'[k]] => CitizenTypesOK') /\ IdentsOK'
         /\ Grows(ident, ident', chals, chals') /\ SessionsOK' /\ RequestsOK'
<1>1. CitizenTypesOK /\ i \in Ids
  BY TypeFacts DEF CitizenInv
<1>2. /\ apps' \in [Ids -> [Agency -> AppStates]]
      /\ \A j \in Ids \ {i} : apps'[j] = apps[j]
      /\ apps'[i][ag] = st /\ \A b \in Agency \ {ag} : apps'[i][b] = apps[i][b]
  BY <1>1 DEF CitizenTypesOK, AppStates
<1>3. ASSUME NEW j \in DOMAIN ident
      PROVE  IdentityOK(j, ident[j], apps'[j], late', chals)
  <2>1. IdentityOK(j, ident[j], apps[j], late, chals) /\ j \in Ids
    BY <1>1, TypeFacts DEF CitizenInv, IdentsOK
  <2> QED BY <1>2, <2>1 DEF IdentityOK
<1>4. IdentsOK'
  BY <1>3 DEF CitizenInv, IdentsOK, OneOwnHash, WithOwnHash
<1>5. Grows(ident, ident', chals, chals')
  BY NothingGrows
<1>6. SessionsOK' /\ RequestsOK'
  BY <1>5, SessionsKept, RequestsKept
<1>7. ASSUME pc' = [k \in Caller |-> pc'[k]]
      PROVE  CitizenTypesOK'
  <2>1. \A j \in Ids' \ DOMAIN ident' : apps'[j] = NoApps
    BY <1>1, <1>2 DEF CitizenTypesOK, Ids
  <2> QED BY <1>1, <1>2, <1>7, <2>1 DEF CitizenTypesOK, Ids, NoApps
<1> QED BY <1>4, <1>5, <1>6, <1>7

LEMMA InsertApplicationKeepsInv ==
  ASSUME CitizenInv, NEW k \in Caller, InsertApplication(k)
  PROVE  CitizenInv'
<1> DEFINE i == pc[k].id
           ag == pc[k].agency
<1>1. CitizenTypesOK /\ i \in DOMAIN ident /\ i \in Ids /\ ag \in Agency
  BY TypeFacts DEF CitizenInv, FlightsOK, RequestOK, InsertApplication
<1>2. pc' = [pc EXCEPT ![k] = Idle]
  BY DEF InsertApplication, Goto
<1>3. CASE apps[i][ag] \notin {"none", "closed"}
  BY <1>1, <1>2, <1>3, IdleOK, QuietMove DEF InsertApplication, CitizenTypesOK
<1>4. CASE apps[i][ag] \in {"none", "closed"}
  <2>1. /\ apps' = [apps EXCEPT ![i][ag] = "open"]
        /\ late' = IF ident[i].erased THEN late \cup {<<i, ag>>} ELSE late
    BY <1>4 DEF InsertApplication
  <2>2. late' \in SUBSET (Ids \X Agency) /\ late \subseteq late'
    BY <1>1, <2>1 DEF CitizenTypesOK
  <2>3. /\ pc' = [l \in Caller |-> pc'[l]] /\ pc'[k] = Idle
        /\ \A l \in Caller \ {k} : pc'[l] = pc[l]
    BY <1>1, <1>2 DEF CitizenTypesOK
  <2>4. /\ CitizenTypesOK' /\ IdentsOK' /\ Grows(ident, ident', chals, chals')
        /\ SessionsOK' /\ RequestsOK'
    BY <1>1, <2>1, <2>2, <2>3, ApplicationWritten DEF InsertApplication
  <2>5. GuessesOK' /\ FailuresOK' /\ FlightsOK'
    BY <1>2, <2>3, <2>4, IdleOK, NoGuess, FlightsKept DEF InsertApplication
  <2> QED BY <2>4, <2>5 DEF CitizenInv
<1> QED BY <1>3, <1>4

LEMMA CloseKeepsInv ==
  ASSUME CitizenInv, NEW i \in DOMAIN ident, NEW ag \in Agency, Close(i, ag)
  PROVE  CitizenInv'
<1>1. CitizenTypesOK /\ apps' = [apps EXCEPT ![i][ag] = "closed"] /\ UNCHANGED late
  BY DEF CitizenInv, Close
<1>2. late' \in SUBSET (Ids \X Agency) /\ late \subseteq late' /\ pc' = [k \in Caller |-> pc'[k]]
  BY <1>1 DEF CitizenTypesOK, Close
<1>3. /\ CitizenTypesOK' /\ IdentsOK' /\ Grows(ident, ident', chals, chals')
      /\ SessionsOK' /\ RequestsOK'
  BY <1>1, <1>2, ApplicationWritten DEF Close
<1>4. GuessesOK' /\ FailuresOK' /\ FlightsOK'
  BY <1>3, NoGuess, FlightsUntouched DEF Close
<1> QED BY <1>3, <1>4 DEF CitizenInv

-----------------------------------------------------------------------------
(* Erasure *)

\* A request more waits for a decision when none of the citizen's did.
LEMMA InsertRequestKeepsInv ==
  ASSUME CitizenInv, NEW k \in Caller, InsertRequest(k)
  PROVE  CitizenInv'
<1> DEFINE i == pc[k].id
           new == [id |-> i, st |-> "PENDING"]
           n == Len(reqs) + 1
<1>1. CitizenTypesOK /\ i \in DOMAIN ident /\ i \in Nat
  BY TypeFacts DEF CitizenInv, FlightsOK, RequestOK, InsertRequest
<1>2. pc' = [pc EXCEPT ![k] = Idle]
  BY DEF InsertRequest, Goto
<1>3. CASE ~MayFile(i)
  <2>1. UNCHANGED reqs
    BY <1>3 DEF InsertRequest
  <2> QED BY <1>1, <1>2, <2>1, IdleOK, QuietMove DEF InsertRequest, CitizenTypesOK
<1>4. CASE MayFile(i)
  <2>1. reqs' = Append(reqs, new) /\ new \in Requests /\ new.st = "PENDING" /\ new.id = i
    BY <1>1, <1>4 DEF InsertRequest, Requests
  <2> HIDE DEF new
  <2>2. /\ reqs' \in Seq(Requests) /\ DOMAIN reqs' = 1 .. n
        /\ \A r \in DOMAIN reqs : reqs'[r] = reqs[r]
        /\ reqs'[n] = new /\ DOMAIN reqs = 1 .. Len(reqs) /\ Len(reqs) \in Nat
    BY <1>1, <2>1, TypeFacts, AppendProperties, LenProperties, SMTT(40) DEF CitizenTypesOK
  <2>3. DOMAIN reqs' = DOMAIN reqs \cup {n} /\ n \notin DOMAIN reqs
    BY <2>2
  <2>4. /\ pc' = [l \in Caller |-> pc'[l]] /\ pc'[k] = Idle
        /\ \A l \in Caller \ {k} : pc'[l] = pc[l]
    BY <1>1, <1>2 DEF CitizenTypesOK
  <2>5. CitizenTypesOK'
    <3>1. \A r \in DOMAIN reqs' : reqs'[r].id \in DOMAIN ident'
      BY <1>1, <2>1, <2>2, <2>3 DEF CitizenTypesOK, InsertRequest
    <3> QED BY <1>1, <2>2, <2>4, <3>1 DEF CitizenTypesOK, InsertRequest, Ids, NoApps
  <2>6. Grows(ident, ident', chals, chals')
    BY NothingGrows DEF InsertRequest
  <2>7. SessionsOK' /\ IdentsOK' /\ GuessesOK' /\ FailuresOK' /\ FlightsOK'
    BY <1>2, <2>4, <2>6, IdleOK, SessionsKept, IdentsKept, NoGuess, FlightsKept DEF InsertRequest
  <2>8. RequestsOK'
    <3>1. \A r \in DOMAIN reqs : ~(reqs[r].id = i /\ reqs[r].st = "PENDING")
      BY <1>4 DEF MayFile, Pending
    <3> HIDE DEF i, n
    <3> QED BY <2>1, <2>2, <2>3, <3>1 DEF CitizenInv, RequestsOK, InsertRequest
  <2> QED BY <2>5, <2>7, <2>8 DEF CitizenInv
<1> QED BY <1>3, <1>4

\* Decisions: a pending request is stamped, EXECUTED only when its identity is
\* erased.
LEMMA RequestsStamped ==
  ASSUME CitizenInv, NEW S \in SUBSET DOMAIN reqs, NEW st \in {"EXECUTED", "DECLINED"},
         reqs' = [r \in DOMAIN reqs |-> IF r \in S THEN [reqs[r] EXCEPT !.st = st] ELSE reqs[r]],
         st = "EXECUTED" => \A r \in S : ident[reqs[r].id].erased,
         deciding' \in [Erasers -> 0 .. Len(ident)],
         \A f \in Erasers : deciding'[f] \in {0, deciding[f]},
         UNCHANGED <<bound, clock, attempts, ident, token, chals, sessions, apps, late, pc, sweep>>
  PROVE  CitizenInv'
<1>1. CitizenTypesOK /\ reqs \in [1 .. Len(reqs) -> Requests] /\ Len(reqs) \in Nat /\ DOMAIN reqs = 1 .. Len(reqs)
  BY TypeFacts DEF CitizenInv
<1>2. ASSUME NEW r \in DOMAIN reqs
      PROVE  /\ reqs'[r] \in Requests /\ reqs'[r].id = reqs[r].id
             /\ reqs'[r].st = IF r \in S THEN st ELSE reqs[r].st
  BY <1>1 DEF Requests
<1>3. reqs' \in Seq(Requests) /\ DOMAIN reqs' = DOMAIN reqs
  BY <1>1, <1>2, SeqOfFunction
<1>4. CitizenTypesOK'
  <2>1. \A r \in DOMAIN reqs' : reqs'[r].id \in DOMAIN ident'
    BY <1>1, <1>2, <1>3 DEF CitizenTypesOK
  <2> QED BY <1>1, <1>3, <2>1 DEF CitizenTypesOK, Ids, NoApps
<1>5. Grows(ident, ident', chals, chals')
  BY NothingGrows
<1>6. SessionsOK' /\ IdentsOK' /\ GuessesOK' /\ FailuresOK' /\ FlightsOK'
  BY <1>5, SessionsKept, IdentsKept, NoGuess, FlightsUntouched
<1>7. RequestsOK'
  <2>1. \A r, q \in DOMAIN reqs :
           reqs'[r].id = reqs'[q].id /\ reqs'[r].st = "PENDING" /\ reqs'[q].st = "PENDING" => r = q
    BY <1>2 DEF CitizenInv, RequestsOK
  <2>2. \A r \in DOMAIN reqs : reqs'[r].st = "EXECUTED" => ident[reqs'[r].id].erased
    BY <1>2 DEF CitizenInv, RequestsOK
  <2>3. \A f \in Erasers : deciding'[f] # 0 => ident[deciding'[f]].erased
    BY DEF CitizenInv, RequestsOK
  <2> QED BY <1>3, <2>1, <2>2, <2>3 DEF RequestsOK
<1> QED BY <1>4, <1>6, <1>7 DEF CitizenInv

LEMMA DeclineKeepsInv ==
  ASSUME CitizenInv, NEW r \in DOMAIN reqs, Decline(r)
  PROVE  CitizenInv'
<1>1. reqs' = [q \in DOMAIN reqs |-> IF q \in {r} THEN [reqs[q] EXCEPT !.st = "DECLINED"] ELSE reqs[q]]
  BY DEF Decline
<1>2. /\ deciding' \in [Erasers -> 0 .. Len(ident)]
      /\ \A f \in Erasers : deciding'[f] \in {0, deciding[f]}
  BY DEF CitizenInv, CitizenTypesOK, Decline
<1> QED BY <1>1, <1>2, RequestsStamped DEF Decline

LEMMA CloseRequestKeepsInv ==
  ASSUME CitizenInv, NEW f \in Erasers, CloseRequest(f)
  PROVE  CitizenInv'
<1>1. /\ deciding' \in [Erasers -> 0 .. Len(ident)]
      /\ \A g \in Erasers : deciding'[g] \in {0, deciding[g]}
  BY TypeFacts DEF CitizenInv, CitizenTypesOK, CloseRequest
<1>2. ident[deciding[f]].erased
  BY DEF CitizenInv, RequestsOK, CloseRequest
<1>3. CASE MarkExecuted(deciding[f])
  <2> DEFINE S == Pending(deciding[f])
  <2>1. S \in SUBSET DOMAIN reqs /\ \A r \in S : ident[reqs[r].id].erased
    BY <1>2 DEF Pending
  <2>2. reqs' = [r \in DOMAIN reqs |-> IF r \in S THEN [reqs[r] EXCEPT !.st = "EXECUTED"] ELSE reqs[r]]
    BY <1>3 DEF MarkExecuted
  <2> HIDE DEF S
  <2> QED BY <1>1, <2>1, <2>2, RequestsStamped DEF CloseRequest
<1>4. CASE UNCHANGED reqs
  <2>1. reqs' = [r \in DOMAIN reqs |-> IF r \in {} THEN [reqs[r] EXCEPT !.st = "DECLINED"] ELSE reqs[r]]
    BY <1>4, TypeFacts DEF CitizenInv
  <2> QED BY <1>1, <2>1, RequestsStamped DEF CloseRequest
<1> QED BY <1>3, <1>4 DEF CloseRequest

LEMMA DeletedFacts ==
  ASSUME NEW x \in Challenges
  PROVE  /\ Deleted(x) \in Challenges /\ Deleted(x).id = x.id /\ Deleted(x).phone = x.phone
         /\ Deleted(x).used = x.used /\ Deleted(x).gone /\ Deleted(x).attempts = 0
BY DEF Deleted, Challenges

\* Challenges are deleted, whichever they are.
LEMMA ChallengesDeleted ==
  ASSUME CitizenTypesOK, NEW D \in SUBSET DOMAIN chals,
         chals' = [c \in DOMAIN chals |-> IF c \in D THEN Deleted(chals[c]) ELSE chals[c]]
  PROVE  /\ chals' \in Seq(Challenges) /\ DOMAIN chals' = DOMAIN chals
         /\ \A c \in DOMAIN chals :
              /\ chals'[c].id = chals[c].id /\ chals'[c].phone = chals[c].phone
              /\ chals'[c].used = chals[c].used /\ (chals[c].gone \/ c \in D => chals'[c].gone)
              /\ chals'[c].attempts \in Nat /\ chals'[c].attempts <= chals[c].attempts
<1>1. chals \in [1 .. Len(chals) -> Challenges] /\ Len(chals) \in Nat /\ DOMAIN chals = 1 .. Len(chals)
  BY TypeFacts
<1>2. ASSUME NEW c \in DOMAIN chals
      PROVE  /\ chals'[c] \in Challenges
             /\ chals'[c].id = chals[c].id /\ chals'[c].phone = chals[c].phone
             /\ chals'[c].used = chals[c].used /\ (chals[c].gone \/ c \in D => chals'[c].gone)
             /\ chals'[c].attempts \in Nat /\ chals'[c].attempts <= chals[c].attempts
  <2>1. chals[c] \in Challenges
    BY <1>1
  <2>2. CASE c \in D
    <3>1. chals'[c] = Deleted(chals[c]) /\ chals[c].attempts \in Nat
      BY <2>1, <2>2 DEF Challenges
    <3> QED BY <2>1, <3>1, DeletedFacts
  <2>3. CASE c \notin D
    <3>1. chals'[c] = chals[c]
      BY <2>3
    <3> QED BY <2>1, <2>3, <3>1 DEF Challenges
  <2> QED BY <2>2, <2>3
<1>3. chals' \in Seq(Challenges) /\ DOMAIN chals' = DOMAIN chals
  BY <1>1, <1>2, SeqOfFunction
<1> QED BY <1>2, <1>3

\* eraseIdentity of a row that passes the gate, by whomever.
LEMMA ErasedKeepsInv ==
  ASSUME CitizenInv, NEW i \in DOMAIN ident, Erased(i),
         ~ident[i].erased, ~ErasureRefused(ident[i], apps[i]),
         deciding' \in [Erasers -> 0 .. Len(ident)],
         \A f \in Erasers : deciding'[f] \in {0, i, deciding[f]},
         sweep' = Null \/ sweep' \subseteq DOMAIN ident,
         UNCHANGED <<bound, clock, attempts, token, apps, late, reqs, pc>>
  PROVE  CitizenInv'
<1> DEFINE row == Tombstone(ident[i])
           D == {c \in DOMAIN chals : chals[c].id = i}
<1>1. CitizenTypesOK /\ i \in Ids /\ ident[i] \in Identities
  BY TypeFacts DEF CitizenInv
<1>2. /\ row \in Identities /\ row.erased /\ row.hash = "rotated" /\ row.contact = Null
      /\ ~row.biometric /\ row.locked = ident[i].locked
  BY <1>1 DEF Tombstone, Identities
<1>3. /\ ident' = [ident EXCEPT ![i] = row] /\ sessions' \subseteq sessions
      /\ chals' = [c \in DOMAIN chals |-> IF c \in D THEN Deleted(chals[c]) ELSE chals[c]]
  BY DEF Erased
<1>4. ident[i].locked = Null /\ \A ag \in Agency : apps[i][ag] # "open"
  BY DEF ErasureRefused, InTheWay
<1> HIDE DEF row
<1>5. /\ ident' \in Seq(Identities) /\ Len(ident') = Len(ident) /\ DOMAIN ident' = DOMAIN ident
      /\ ident'[i] = row /\ \A j \in DOMAIN ident \ {i} : ident'[j] = ident[j]
  BY <1>1, <1>2, <1>3, IdentityWritten
<1>6. /\ chals' \in Seq(Challenges) /\ DOMAIN chals' = DOMAIN chals
      /\ \A c \in DOMAIN chals :
           /\ chals'[c].id = chals[c].id /\ chals'[c].phone = chals[c].phone
           /\ chals'[c].used = chals[c].used /\ (chals[c].gone \/ c \in D => chals'[c].gone)
           /\ chals'[c].attempts \in Nat /\ chals'[c].attempts <= chals[c].attempts
  BY <1>1, <1>3, ChallengesDeleted
<1>7. Grows(ident, ident', chals, chals')
  BY <1>1, <1>2, <1>5, <1>6 DEF Grows, CitizenTypesOK
<1>8. CitizenTypesOK'
  <2>1. /\ \A c \in DOMAIN chals' : chals'[c].id \in DOMAIN ident'
        /\ \A r \in DOMAIN reqs' : reqs'[r].id \in DOMAIN ident'
        /\ deciding' \in [Erasers -> 0 .. Len(ident')]
        /\ Len(ident') <= bound'.ids
    BY <1>1, <1>5, <1>6 DEF CitizenTypesOK
  <2> QED BY <1>1, <1>3, <1>5, <1>6, <2>1 DEF CitizenTypesOK, Ids, NoApps
<1>9. FlightsOK' /\ SessionsOK'
  BY <1>3, <1>7, FlightsUntouched, SessionsKept
<1>10. GuessesOK' /\ FailuresOK'
  BY <1>6, GuessesKept, FailuresKept
<1>11. IdentsOK'
  <2>1. IdentityOK(i, row, apps[i], late, chals')
    BY <1>2, <1>4 DEF CitizenInv, IdentsOK, IdentityOK
  <2>2. ASSUME NEW j \in DOMAIN ident \ {i}
        PROVE  IdentityOK(j, ident[j], apps[j], late, chals')
    BY <1>6, SMTT(40) DEF CitizenInv, IdentsOK, IdentityOK
  <2>3. WithOwnHash' \subseteq WithOwnHash
    BY <1>2, <1>5 DEF WithOwnHash
  <2> QED BY <1>5, <2>1, <2>2, <2>3 DEF CitizenInv, IdentsOK, OneOwnHash
<1>12. RequestsOK'
  <2>1. \A j \in DOMAIN ident : ident[j].erased => ident'[j].erased
    BY <1>7 DEF Grows
  <2>2. \A f \in Erasers : deciding[f] # 0 => deciding[f] \in DOMAIN ident
    BY <1>1, TypeFacts DEF CitizenTypesOK
  <2> QED BY <1>1, <1>2, <1>5, <2>1, <2>2 DEF CitizenInv, RequestsOK, CitizenTypesOK
<1> QED BY <1>8, <1>9, <1>10, <1>11, <1>12 DEF CitizenInv

\* A step that writes deciding and sweep only.
LEMMA DecidingWritten ==
  ASSUME CitizenInv, deciding' \in [Erasers -> 0 .. Len(ident)],
         \A f \in Erasers : deciding'[f] # 0 => ident[deciding'[f]].erased,
         sweep' = Null \/ sweep' \subseteq DOMAIN ident,
         UNCHANGED <<bound, clock, attempts, ident, token, chals, sessions, apps, late, reqs, pc>>
  PROVE  CitizenInv'
<1>1. CitizenTypesOK'
  BY DEF CitizenInv, CitizenTypesOK, Ids, NoApps
<1>2. Grows(ident, ident', chals, chals')
  BY NothingGrows
<1>3. SessionsOK' /\ IdentsOK' /\ GuessesOK' /\ FailuresOK' /\ FlightsOK'
  BY <1>2, SessionsKept, IdentsKept, NoGuess, FlightsUntouched
<1>4. RequestsOK'
  BY DEF CitizenInv, RequestsOK
<1> QED BY <1>1, <1>3, <1>4 DEF CitizenInv

LEMMA EraseIdentityKeepsInv ==
  ASSUME CitizenInv, NEW f \in Erasers, NEW i \in DOMAIN ident, EraseIdentity(f, i)
  PROVE  CitizenInv'
<1>1. /\ deciding' = [deciding EXCEPT ![f] = IF Executed(i) THEN i ELSE 0]
      /\ deciding \in [Erasers -> 0 .. Len(ident)] /\ i \in 0 .. Len(ident) /\ Len(ident) \in Nat
  BY TypeFacts, SMTT(40) DEF EraseIdentity, CitizenInv, CitizenTypesOK
<1>2. /\ deciding' \in [Erasers -> 0 .. Len(ident)]
      /\ deciding'[f] = (IF Executed(i) THEN i ELSE 0)
      /\ \A g \in Erasers \ {f} : deciding'[g] = deciding[g]
  BY <1>1
<1>3. sweep' = Null \/ sweep' \subseteq DOMAIN ident
  BY DEF EraseIdentity, CitizenInv, CitizenTypesOK
<1>4. CASE ~ident[i].erased /\ ~ErasureRefused(ident[i], apps[i])
  BY <1>2, <1>3, <1>4, ErasedKeepsInv DEF EraseIdentity
<1>5. CASE ~(~ident[i].erased /\ ~ErasureRefused(ident[i], apps[i]))
  <2>1. \A g \in Erasers : deciding'[g] # 0 => ident[deciding'[g]].erased
    BY <1>2, <1>5 DEF CitizenInv, RequestsOK, Executed
  <2> QED BY <1>2, <1>3, <1>5, <2>1, DecidingWritten DEF EraseIdentity
<1> QED BY <1>4, <1>5

LEMMA SweepEraseKeepsInv ==
  ASSUME CitizenInv, NEW i \in DOMAIN ident, SweepErase(i)
  PROVE  CitizenInv'
<1>1. /\ deciding' = deciding /\ deciding \in [Erasers -> 0 .. Len(ident)]
      /\ sweep' \subseteq DOMAIN ident
  BY DEF SweepErase, CitizenInv, CitizenTypesOK
<1>2. CASE ~ident[i].erased /\ ~ErasureRefused(ident[i], apps[i])
  BY <1>1, <1>2, ErasedKeepsInv DEF SweepErase
<1>3. CASE ~(~ident[i].erased /\ ~ErasureRefused(ident[i], apps[i]))
  <2>1. \A g \in Erasers : deciding'[g] # 0 => ident[deciding'[g]].erased
    BY <1>1 DEF CitizenInv, RequestsOK
  <2> QED BY <1>1, <1>3, <2>1, DecidingWritten DEF SweepErase
<1> QED BY <1>2, <1>3

LEMMA SweepReportKeepsInv ==
  ASSUME CitizenInv, SweepReport
  PROVE  CitizenInv'
<1>1. /\ deciding' = deciding /\ deciding \in [Erasers -> 0 .. Len(ident)]
      /\ sweep' \subseteq DOMAIN ident
  BY DEF SweepReport, CitizenInv, CitizenTypesOK
<1>2. \A g \in Erasers : deciding'[g] # 0 => ident[deciding'[g]].erased
  BY <1>1 DEF CitizenInv, RequestsOK
<1> QED BY <1>1, <1>2, DecidingWritten DEF SweepReport

LEMMA SweepPurgeKeepsInv ==
  ASSUME CitizenInv, SweepPurge
  PROVE  CitizenInv'
<1> DEFINE D == {c \in DOMAIN chals : chals[c].exp + PurgeGrace < clock}
<1>1. /\ CitizenTypesOK /\ sessions' \subseteq sessions
      /\ chals' = [c \in DOMAIN chals |-> IF c \in D THEN Deleted(chals[c]) ELSE chals[c]]
  BY DEF SweepPurge, CitizenInv
<1> HIDE DEF D
<1>2. D \in SUBSET DOMAIN chals
  BY DEF D
<1>3. /\ chals' \in Seq(Challenges) /\ DOMAIN chals' = DOMAIN chals
      /\ \A c \in DOMAIN chals :
           /\ chals'[c].id = chals[c].id /\ chals'[c].phone = chals[c].phone
           /\ chals'[c].used = chals[c].used /\ (chals[c].gone \/ c \in D => chals'[c].gone)
           /\ chals'[c].attempts \in Nat /\ chals'[c].attempts <= chals[c].attempts
  BY <1>1, <1>2, ChallengesDeleted
<1>4. Grows(ident, ident', chals, chals')
  BY <1>3 DEF Grows, SweepPurge
<1>5. CitizenTypesOK'
  <2>1. \A c \in DOMAIN chals' : chals'[c].id \in DOMAIN ident'
    BY <1>1, <1>3 DEF CitizenTypesOK, SweepPurge
  <2> QED BY <1>1, <1>3, <2>1 DEF CitizenTypesOK, SweepPurge, Ids, NoApps
<1>6. FlightsOK' /\ SessionsOK' /\ IdentsOK' /\ RequestsOK'
  BY <1>1, <1>4, FlightsUntouched, SessionsKept, IdentsKept, RequestsKept DEF SweepPurge
<1>7. GuessesOK' /\ FailuresOK'
  BY <1>3, GuessesKept, FailuresKept DEF SweepPurge
<1> QED BY <1>5, <1>6, <1>7 DEF CitizenInv

\* A lock that was reached is not outlived by the window it was reached in.
LEMMA TickKeepsInv ==
  ASSUME CitizenInv, Elapse
  PROVE  CitizenInv'
<1>1. CitizenTypesOK /\ clock \in Nat /\ bound.time \in Nat
  BY TypeFacts DEF CitizenInv
<1>2. CitizenTypesOK'
  <2>1. clock' \in 0 .. bound'.time
    BY <1>1 DEF Elapse
  <2> QED BY <1>1, <2>1 DEF CitizenTypesOK, Elapse, Ids, NoApps
<1>3. Grows(ident, ident', chals, chals')
  BY NothingGrows DEF Elapse
<1>4. SessionsOK' /\ IdentsOK' /\ RequestsOK' /\ FlightsOK'
  BY <1>3, SessionsKept, IdentsKept, RequestsKept, FlightsUntouched DEF Elapse
<1>5. GuessesOK'
  BY DEF Elapse, CitizenInv, GuessesOK, Wrong
<1>6. FailuresOK'
  <2>1. Mismatches' = {}
    BY DEF Elapse, Mismatches
  <2>2. attempts.start \in Nat
    BY <1>1 DEF CitizenTypesOK
  <2> QED BY <1>1, <2>1, <2>2 DEF Elapse, CitizenInv, FailuresOK
<1> QED BY <1>2, <1>4, <1>5, <1>6 DEF CitizenInv

-----------------------------------------------------------------------------
(* The theorems *)

LEMMA NextKeepsCitizenInv == CitizenInv /\ [CitizenNext]_citizenVars => CitizenInv'
<1> SUFFICES ASSUME CitizenInv, [CitizenNext]_citizenVars PROVE CitizenInv'
  OBVIOUS
<1>1. CASE UNCHANGED citizenVars
  <2>1. /\ deciding' = deciding /\ deciding \in [Erasers -> 0 .. Len(ident)]
        /\ sweep' = Null \/ sweep' \subseteq DOMAIN ident
    BY <1>1 DEF citizenVars, CitizenInv, CitizenTypesOK
  <2>2. \A g \in Erasers : deciding'[g] # 0 => ident[deciding'[g]].erased
    BY <2>1 DEF CitizenInv, RequestsOK
  <2> QED BY <1>1, <2>1, <2>2, DecidingWritten DEF citizenVars
<1>2. CASE \E k \in Caller : Onboarding(k)
  BY <1>2, BeginKeepsInv, RecordFailureKeepsInv, FindIdentityKeepsInv, CreateIdentityKeepsInv,
     IssueTokenKeepsInv DEF Onboarding
<1>3. CASE \E k \in Caller : SignIn(k)
  BY <1>3, VerifyOtpKeepsInv, RecordFailedAttemptKeepsInv, ConsumeChallengeKeepsInv,
     StampPhoneVerifiedKeepsInv, CreateSessionKeepsInv DEF SignIn
<1>4. CASE \E k \in Caller : SelfService(k)
  BY <1>4, FileRequestKeepsInv, ApplyKeepsInv, InsertApplicationKeepsInv, InsertRequestKeepsInv
     DEF SelfService
<1>5. CASE \E i \in DOMAIN ident, phone \in Phone : RequestOtp(i, phone)
  BY <1>5, RequestOtpKeepsInv
<1>6. CASE \E s \in sessions : Logout(s)
  BY <1>6, LogoutKeepsInv
<1>7. CASE \E i \in DOMAIN ident, ag \in Agency : Close(i, ag) \/ Accept(i, ag)
  BY <1>7, CloseKeepsInv, AcceptKeepsInv
<1>8. CASE \E i \in DOMAIN ident : RecordBiometricResult(i) \/ SweepErase(i)
  BY <1>8, RecordBiometricResultKeepsInv, SweepEraseKeepsInv
<1>9. CASE \E r \in DOMAIN reqs : Decline(r)
  BY <1>9, DeclineKeepsInv
<1>10. CASE \E f \in Erasers : CloseRequest(f) \/ \E i \in DOMAIN ident : EraseIdentity(f, i)
  BY <1>10, CloseRequestKeepsInv, EraseIdentityKeepsInv
<1>11. CASE SweepReport \/ SweepPurge \/ Elapse
  BY <1>11, SweepReportKeepsInv, SweepPurgeKeepsInv, TickKeepsInv
<1> QED BY <1>1, <1>2, <1>3, <1>4, <1>5, <1>6, <1>7, <1>8, <1>9, <1>10, <1>11 DEF CitizenNext

LEMMA InitHasCitizenInv == CitizenInit => CitizenInv
<1> SUFFICES ASSUME CitizenInit PROVE CitizenInv
  OBVIOUS
<1>1. CitizenTypesOK
  <2>1. bound \in Bounds /\ bound.ids \in Nat /\ bound.time \in Nat
    BY CitizenAssumption DEF CitizenInit
  <2>2. ident = <<>> /\ chals = <<>> /\ reqs = <<>> /\ DOMAIN ident = {} /\ Len(ident) = 0
    BY DEF CitizenInit
  <2>3. apps \in [Ids -> [Agency -> AppStates]] /\ \A i \in Ids : apps[i] = NoApps
    BY DEF CitizenInit, NoApps, AppStates
  <2>4. token \in [Ids -> Nat] /\ deciding \in [Erasers -> 0 .. Len(ident)]
    BY <2>2 DEF CitizenInit
  <2>5. attempts \in [failed : Nat, start : Nat, until : Nat]
    BY DEF CitizenInit, NoAttempts
  <2>6. pc = [k \in Caller |-> pc[k]]
    BY DEF CitizenInit
  <2> QED BY <2>1, <2>2, <2>3, <2>4, <2>5, <2>6 DEF CitizenTypesOK, CitizenInit
<1>2. \A k \in Caller : pc[k] = Idle
  BY DEF CitizenInit
<1>3. DOMAIN ident = {} /\ DOMAIN chals = {} /\ DOMAIN reqs = {} /\ sessions = {}
  BY DEF CitizenInit
<1>4. FlightsOK
  BY <1>2, IdleOK DEF FlightsOK, ConsumedOnce
<1>5. SessionsOK /\ IdentsOK /\ GuessesOK
  BY <1>3 DEF SessionsOK, OneSessionPerCode, IdentsOK, OneOwnHash, WithOwnHash, GuessesOK
<1>6. RequestsOK
  BY <1>3 DEF RequestsOK, CitizenInit
<1>7. FailuresOK
  <2>1. Mismatches = {}
    BY <1>2, IdleOK DEF Mismatches
  <2>2. attempts.failed = 0 /\ attempts.start = 0 /\ clock = 0
    BY DEF CitizenInit, NoAttempts
  <2>3. Cardinality(Caller) \in Nat /\ MaxFailures \in Nat \ {0}
    BY <1>1, TypeFacts
  <2> QED BY <2>1, <2>2, <2>3 DEF FailuresOK
<1> QED BY <1>1, <1>4, <1>5, <1>6, <1>7 DEF CitizenInv

\* The invariant holds in every reachable state.
THEOREM CitizenInvariance == CitizenSpec => []CitizenInv
BY InitHasCitizenInv, NextKeepsCitizenInv, PTL DEF CitizenSpec

\* Every variable keeps its type: identities are told by number, sessions and
\* requests in flight name challenges that were used up.
THEOREM CitizenTypeCorrect == CitizenSpec => []CitizenTypeOK
<1>1. ASSUME CitizenInv PROVE CitizenTypeOK
  <2>1. CitizenTypesOK /\ DOMAIN ident \subseteq Ids
    BY <1>1, TypeFacts DEF CitizenInv
  <2>2. attempts \in [failed : 0 .. MaxFailures + Cardinality(Caller), start : Nat, until : Nat]
    <3>1. /\ attempts.failed \in Nat
          /\ attempts.failed <= MaxFailures + Cardinality(Caller) - 1
          /\ MaxFailures \in Nat /\ Cardinality(Caller) \in Nat
      BY <1>1, <2>1, TypeFacts DEF CitizenInv, FailuresOK, CitizenTypesOK
    <3>2. attempts.failed \in 0 .. MaxFailures + Cardinality(Caller)
      BY <3>1
    <3> QED BY <2>1, <3>2 DEF CitizenTypesOK
  <2>3. \A i \in DOMAIN ident : ident[i] \in Identities
    BY <2>1, TypeFacts
  <2>4. \A c \in DOMAIN chals : chals[c].id \in DOMAIN ident /\ chals[c].phone \in Phone
    BY <2>1, TypeFacts DEF CitizenTypesOK, Challenges
  <2>5. \A r \in DOMAIN reqs :
           reqs[r] \in [id : DOMAIN ident, st : {"PENDING", "EXECUTED", "DECLINED"}]
    BY <2>1, TypeFacts DEF CitizenTypesOK, Requests
  <2>6. deciding \in [Erasers -> 0 .. bound.ids]
    <3>1. \A f \in Erasers : deciding[f] \in 0 .. bound.ids
      BY <2>1, TypeFacts DEF CitizenTypesOK
    <3> QED BY <2>1, <3>1 DEF CitizenTypesOK
  <2>7. \A s \in sessions : s.chal \in DOMAIN chals /\ chals[s.chal].used
    BY <1>1 DEF CitizenInv, SessionsOK, SessionOK
  <2>8. \A k \in Caller : pc[k].op \in {"stamp", "session"} => chals[pc[k].chal].used
    BY <1>1 DEF CitizenInv, FlightsOK, RequestOK
  <2>9. sweep = Null \/ sweep \subseteq Ids
    BY <2>1 DEF CitizenTypesOK
  <2> QED BY <2>1, <2>2, <2>3, <2>4, <2>5, <2>6, <2>7, <2>8, <2>9
          DEF CitizenTypeOK, CitizenTypesOK, Identities, AppStates
<1> QED BY <1>1, CitizenInvariance, PTL

\* However many sign-ins race: one session for a code, a contact that answered,
\* and no more wrong codes and dates of birth than the limits and the guesses
\* under way at once allow.
THEOREM SignInSound == CitizenSpec => []SignInIsSound
<1>1. ASSUME CitizenInv PROVE OneSessionPerCode /\ ContactProven /\ GuessesBounded /\ BirthDateGuessesBounded
  <2>1. OneSessionPerCode /\ BirthDateGuessesBounded
    BY <1>1 DEF CitizenInv, SessionsOK, FailuresOK, BirthDateGuessesBounded
  <2>2. ContactProven
    BY <1>1 DEF CitizenInv, IdentsOK, IdentityOK, ContactProven
  <2>3. ASSUME NEW c \in DOMAIN chals
        PROVE  chals[c].attempts <= OtpMaxAttempts + Cardinality(Caller) - 1
    <3>1. Wrong(c) \in SUBSET Caller
      BY DEF Wrong
    <3>2. Cardinality(Wrong(c)) \in Nat /\ Cardinality(Caller) \in Nat
      BY <3>1, CountCallers
    <3>3. chals[c].attempts \in Nat /\ OtpMaxAttempts \in Nat
      BY <1>1, TypeFacts DEF CitizenInv, Challenges
    <3>4. chals[c].attempts + Cardinality(Wrong(c)) <= OtpMaxAttempts + Cardinality(Caller) - 1
      BY <1>1 DEF CitizenInv, GuessesOK
    <3> QED BY <3>2, <3>3, <3>4
  <2> QED BY <2>1, <2>2, <2>3 DEF GuessesBounded
<1>2. CitizenTypeOK /\ OneSessionPerCode /\ ContactProven /\ GuessesBounded /\ BirthDateGuessesBounded
        => SignInIsSound
  BY DEF SignInIsSound
<1> QED BY <1>1, <1>2, CitizenTypeCorrect, CitizenInvariance, PTL

\* A set without two different elements has at most one.
LEMMA AtMostOne ==
  ASSUME NEW S, \A x, y \in S : x = y
  PROVE  Cardinality(S) <= 1
<1>1. CASE S = {}
  BY <1>1, FS_EmptySet
<1>2. CASE S # {}
  <2>1. PICK x \in S : S = {x}
    BY <1>2
  <2> QED BY <2>1, FS_Singleton
<1> QED BY <1>1, <1>2

\* However officers, the sweep and the citizen's own requests interleave:
\* an erasure passed the gate, what it removed stays removed, it ends every
\* sign-in under way, and a request that reads EXECUTED was.
THEOREM ErasureComplete == CitizenSpec => []ErasureIsComplete
<1>1. ASSUME CitizenInv PROVE ErasureIsComplete
  <2>1. OneLivingIdentity
    <3>1. \A i, j \in {l \in DOMAIN ident : ~ident[l].erased} : i = j
      BY <1>1, TypeFacts DEF CitizenInv, IdentsOK, IdentityOK, OneOwnHash, WithOwnHash, Identities
    <3> QED BY <3>1, AtMostOne DEF OneLivingIdentity
  <2>2. ErasedHoldsNothing /\ ErasureGateHolds
    BY <1>1 DEF CitizenInv, IdentsOK, IdentityOK, ErasedHoldsNothing, ErasureGateHolds
  <2>3. NoSessionAfterErasure
    BY <1>1 DEF CitizenInv, SessionsOK, SessionOK, NoSessionAfterErasure
  <2>4. OnePendingRequest
    <3>1. \A i \in DOMAIN ident : \A r, q \in Pending(i) : r = q
      BY <1>1 DEF CitizenInv, RequestsOK, Pending
    <3> QED BY <3>1, AtMostOne DEF OnePendingRequest
  <2>5. ExecutedMeansErased
    BY <1>1 DEF CitizenInv, RequestsOK, ExecutedMeansErased
  <2> QED BY <2>1, <2>2, <2>3, <2>4, <2>5 DEF ErasureIsComplete
<1> QED BY <1>1, CitizenInvariance, PTL

\* Only the insert, the decline and the stamp write requests, and the stamp
\* looks at the status again.
LEMMA StepKeepsDecisions ==
  ASSUME CitizenInv, [CitizenNext]_citizenVars
  PROVE  DecidedOnce
<1>1. CASE UNCHANGED reqs
  BY <1>1 DEF DecidedOnce
<1>2. CASE \E k \in Caller : InsertRequest(k)
  <2>1. PICK k \in Caller : InsertRequest(k)
    BY <1>2
  <2>2. CASE UNCHANGED reqs
    BY <2>2 DEF DecidedOnce
  <2>3. CASE reqs' = Append(reqs, [id |-> pc[k].id, st |-> "PENDING"])
    <3> DEFINE new == [id |-> pc[k].id, st |-> "PENDING"]
    <3>1. pc[k].id \in DOMAIN ident /\ DOMAIN ident = 1 .. Len(ident) /\ Len(ident) \in Nat
      BY <2>1, TypeFacts DEF CitizenInv, FlightsOK, RequestOK, InsertRequest
    <3>2. new \in Requests /\ reqs \in Seq(Requests)
      BY <3>1 DEF Requests, CitizenInv, CitizenTypesOK
    <3> HIDE DEF new
    <3>3. \A r \in DOMAIN reqs : reqs'[r] = reqs[r]
      BY <2>3, <3>2, TypeFacts, AppendProperties DEF CitizenInv, new
    <3> QED BY <3>3 DEF DecidedOnce
  <2> QED BY <2>1, <2>2, <2>3 DEF InsertRequest
<1>3. CASE \E r \in DOMAIN reqs : Decline(r)
  BY <1>3 DEF Decline, DecidedOnce
<1>4. CASE \E f \in Erasers : CloseRequest(f)
  BY <1>4 DEF CloseRequest, MarkExecuted, Pending, DecidedOnce
<1> QED
  BY <1>1, <1>2, <1>3, <1>4, ZenonT(60)
  DEF CitizenNext, citizenVars, Onboarding, SignIn, SelfService, Begin, RecordFailure, FindIdentity, CreateIdentity,
      IssueToken, VerifyOtp, RecordFailedAttempt, ConsumeChallenge, StampPhoneVerified, CreateSession,
      FileRequest, Apply, InsertApplication, RequestOtp, Logout, Close, Accept, RecordBiometricResult,
      EraseIdentity, SweepReport, SweepErase, SweepPurge, Elapse

\* Only IssueToken writes tokens, and the row it confirms still has the own
\* hash, which an erased one has not.
LEMMA StepNamesTheLiving ==
  ASSUME CitizenInv, [CitizenNext]_citizenVars
  PROVE  TokenNamesTheLiving
<1>1. CASE UNCHANGED token
  <2>1. \A i \in Ids : ~(token[i] > token[i])
    BY DEF CitizenInv, CitizenTypesOK
  <2> QED BY <1>1, <2>1 DEF TokenNamesTheLiving
<1>2. CASE \E k \in Caller : IssueToken(k)
  <2>1. PICK k \in Caller : IssueToken(k)
    BY <1>2
  <2> SUFFICES ASSUME NEW i \in Ids, token'[i] > token[i]
               PROVE  ~ident[i].erased
    BY DEF TokenNamesTheLiving
  <2>2. token[i] \in Nat /\ ~(token[i] > token[i])
    BY DEF CitizenInv, CitizenTypesOK
  <2>3. i = pc[k].id /\ Confirmed(i)
    BY <2>1, <2>2 DEF IssueToken, CitizenInv, CitizenTypesOK
  <2> QED BY <2>3 DEF Confirmed, WithOwnHash, CitizenInv, IdentsOK, IdentityOK
<1> QED
  BY <1>1, <1>2, ZenonT(60)
  DEF CitizenNext, citizenVars, Onboarding, SignIn, SelfService, Begin, RecordFailure, FindIdentity, CreateIdentity,
      VerifyOtp, RecordFailedAttempt, ConsumeChallenge, StampPhoneVerified, CreateSession,
      FileRequest, Apply, InsertApplication, InsertRequest, RequestOtp, Logout, Close, Accept,
      RecordBiometricResult, Decline, CloseRequest, EraseIdentity, SweepReport, SweepErase,
      SweepPurge, Elapse

\* No decision on a request is ever overwritten, and no token is issued for an
\* identity that was erased while its owner was onboarding.
THEOREM DecisionsAreFinal == CitizenSpec => DecisionsStand
<1>1. CitizenInv /\ [CitizenNext]_citizenVars => [DecidedOnce /\ TokenNamesTheLiving]_citizenVars
  BY StepKeepsDecisions, StepNamesTheLiving
<1> QED BY <1>1, CitizenInvariance, PTL DEF CitizenSpec, DecisionsStand
=============================================================================
