--------------------------- MODULE AccountsProofs ---------------------------
(***************************************************************************)
(* For any number of handlers, accounts, identities, sessions and          *)
(* restarts, and either store: the wizard makes one owner at most, nobody  *)
(* is locked out and no address leads to two accounts, a provider sign-in  *)
(* is completed once, and an identity stays with its account.              *)
(***************************************************************************)
EXTENDS Accounts, FiniteSetTheorems, WellFoundedInduction, TLAPS

\* A request has what the call it makes next needs, and the account it is about to
\* change or to link exists.
RequestIsSound(r, present) ==
    /\ r.stage \in {"find", "match", "link", "create"} => r.subject \in Subjects
    /\ r.stage \in {"mail", "seed"} => r.mail \in Mails
    /\ r.stage \in {"mail", "password", "revoke", "link"} => r.user \in present
    /\ r.stage = "seed" => r.op = "setup"

HandlersAgree == \A h \in Handlers : RequestIsSound(req[h], users)

\* The accounts the wizard made.
WizardMade == {u \in users : account[u].via = "wizard"}

\* setupMu admits one wizard, and one that has yet to seed its owner is the first.
WizardsTakeTurns ==
    /\ \A g, h \in Handlers : req[g].op = "setup" /\ req[h].op = "setup" => g = h
    /\ \A u, v \in WizardMade : u = v
    /\ \A h \in Handlers : req[h].stage = "seed" => WizardMade = {}

\* AccountsAreReachable, account by account.
HasAccess(u) ==
    \/ account[u].mail # NoMail /\ account[u].pw = TRUE
    \/ \E x \in Subjects : linked[x] = u

Reachable ==
    /\ \A u \in users : HasAccess(u)
    /\ \A u, v \in users : account[u].mail = account[v].mail /\ account[u].mail # NoMail
                              => u = v

\* A state that can be taken was never taken, nor was one that is yet to come.
StatesFresh ==
    \A x \in StateId : /\ uses[x] <= 1
                       /\ x \in states \/ x > begun => uses[x] = 0

\* The inductive invariant.
IInv ==
    /\ TypeOK /\ HandlersAgree /\ WizardsTakeTurns /\ Reachable
    /\ StatesFresh

-----------------------------------------------------------------------------
(* Constants, sets and records. *)

LEMMA Constants ==
    /\ MaxUsers \in Nat /\ MaxSessions \in Nat /\ MaxStates \in Nat /\ MaxRestarts \in Nat
    /\ NoMail \notin Mails /\ NoSubject \notin Subjects
    /\ AdminMail \in Mails \cup {NoMail} /\ MailOf \in [Subjects -> Mails \cup {NoMail}]
  BY AccountsAssumption

\* Every nonempty set of naturals has a least element, so that Min finds one.
LEMMA MinIsElement ==
    ASSUME NEW T \in SUBSET Nat, T # {}
    PROVE  Min(T) \in T
<1>1. PICK m \in T : \A k \in T : ~(<<k, m>> \in OpToRel(<, Nat))
  BY NatLessThanWellFounded, WFMin
<1>2. ASSUME NEW k \in T PROVE m <= k
  <2>1. ~(k < m)
    BY <1>1 DEF OpToRel
  <2> QED
    BY <2>1
<1> QED
  BY <1>2 DEF Min

\* A set whose elements are all equal has at most one.
LEMMA AtMostOne ==
    ASSUME NEW T, \A u, v \in T : u = v
    PROVE  Cardinality(T) <= 1
<1>1. CASE T = {}
  BY <1>1, FS_EmptySet
<1>2. CASE T # {}
  <2>1. PICK u \in T : T = {u}
    BY <1>2
  <2>2. Cardinality({u}) = 1
    BY FS_Singleton
  <2> QED
    BY <2>1, <2>2
<1> QED
  BY <1>1, <1>2

LEMMA RequestFields ==
    ASSUME NEW r \in Request
    PROVE  /\ r.op \in Op /\ r.stage \in Stage /\ r.user \in UserId \cup {NoUser}
           /\ r.mail \in Mails \cup {NoMail} /\ r.subject \in Subjects \cup {NoSubject}
  BY DEF Request

LEMMA IdleIsSound ==
    /\ Idle \in Request /\ Idle.stage = "idle" /\ Idle.op = "none" /\ Idle.user = NoUser
    /\ \A present : RequestIsSound(Idle, present)
  BY DEF Idle, Request, Op, Stage, RequestIsSound

\* A request that begins, field by field.
LEMMA NewRequest ==
    ASSUME NEW op \in Op, NEW stage \in Stage, NEW u \in UserId \cup {NoUser},
           NEW mail \in Mails \cup {NoMail}, NEW subject \in Subjects \cup {NoSubject},
           NEW r, r = [op |-> op, stage |-> stage, user |-> u, mail |-> mail,
                       subject |-> subject]
    PROVE  /\ r \in Request /\ r.op = op /\ r.stage = stage /\ r.user = u
           /\ r.mail = mail /\ r.subject = subject
  BY DEF Request

\* A handler goes on to its next call: the rest of its request stays.
LEMMA GoOnMoves ==
    ASSUME TypeOK, NEW h \in Handlers, NEW stage \in Stage, NEW u \in UserId \cup {NoUser},
           GoOn(h, stage, u)
    PROVE  \E q \in Request :
              /\ req' = [req EXCEPT ![h] = q]
              /\ q.stage = stage /\ q.user = u /\ q.op = req[h].op
              /\ q.mail = req[h].mail /\ q.subject = req[h].subject
<1> DEFINE q == [req[h] EXCEPT !.stage = stage, !.user = u]
<1>1. req[h] \in Request
  BY DEF TypeOK
<1>2. /\ q \in Request /\ q.stage = stage /\ q.user = u /\ q.op = req[h].op
      /\ q.mail = req[h].mail /\ q.subject = req[h].subject
  BY <1>1 DEF Request
<1>3. req' = [req EXCEPT ![h] = q]
  BY DEF GoOn, TypeOK
<1> QED
  BY <1>2, <1>3

\* The table of handlers after handler h has moved.
LEMMA HandlerMoved ==
    ASSUME TypeOK, NEW h \in Handlers, NEW q \in Request, req' = [req EXCEPT ![h] = q]
    PROVE  /\ req' \in [Handlers -> Request] /\ req'[h] = q
           /\ \A g \in Handlers : g # h => req'[g] = req[g]
  BY DEF TypeOK

-----------------------------------------------------------------------------
(* The parts of the invariant, and what each of them looks at. *)

UsersType ==
    /\ users \subseteq 1..created /\ account \in [UserId -> Account]
    /\ linked \in [Subjects -> users \cup {NoUser}] /\ created \in 0..MaxUsers

SessionsType ==
    /\ sessions \subseteq SessionId /\ session \in [SessionId -> Session]
    /\ \A s \in sessions : session[s].user \in users

OidcType ==
    /\ states \subseteq 1..begun /\ discovered \in {"not_asked", "yes", "failed"}
    /\ uses \in [StateId -> Nat] /\ begun \in 0..MaxStates

LEMMA TypeParts ==
    ASSUME IInv
    PROVE  /\ store \in Stores /\ UsersType /\ SessionsType /\ OidcType
           /\ req \in [Handlers -> Request] /\ stale \subseteq Handlers
           /\ restarts \in 0..MaxRestarts
  BY DEF IInv, TypeOK, UsersType, SessionsType, OidcType

\* The accounts have ids that were handed out.
LEMMA UserIds ==
    ASSUME UsersType
    PROVE  /\ users \subseteq UserId /\ NoUser \notin users
           /\ created \in Nat /\ created + 1 \notin users
           /\ created < MaxUsers => created + 1 \in UserId /\ created + 1 \in 0..MaxUsers
  BY Constants DEF UsersType, UserId, NoUser

\* Everything but the accounts and the handlers is as it was.
OthersStay == UNCHANGED <<store, sessionVars, oidcVars, begun, restarts>>

\* No account is removed and none becomes the wizard's.
UsersGrow ==
    /\ users \subseteq users'
    /\ \A u \in users' : account'[u].via = "wizard" =>
                             u \in users /\ account[u].via = "wizard"

\* A handler that is not revoking sessions moves, makes no wizard of itself and adds
\* at most accounts that are not the wizard's.
LEMMA HandlerStepKeepsInv ==
    ASSUME IInv, NEW h \in Handlers, NEW q \in Request, req' = [req EXCEPT ![h] = q],
           req[h].stage # "revoke", q.stage # "seed", q.op = "setup" => req[h].op = "setup",
           RequestIsSound(q, users'), OthersStay,
           UsersGrow, UsersType', Reachable'
    PROVE  IInv'
<1>1. /\ req' \in [Handlers -> Request] /\ req'[h] = q
      /\ \A g \in Handlers : g # h => req'[g] = req[g]
  BY HandlerMoved DEF IInv
<1>2. UNCHANGED <<store, sessions, session, states, discovered, uses, stale, begun, restarts>>
  BY DEF OthersStay, sessionVars, oidcVars
<1>3. TypeOK'
  <2>1. /\ store \in Stores /\ SessionsType /\ OidcType /\ stale \subseteq Handlers
        /\ restarts \in 0..MaxRestarts
    BY TypeParts
  <2>2. SessionsType'
    BY <1>2, <2>1 DEF SessionsType, UsersGrow
  <2>3. OidcType'
    BY <1>2, <2>1 DEF OidcType
  <2> QED
    BY <1>1, <1>2, <2>1, <2>2, <2>3 DEF TypeOK, UsersType, SessionsType, OidcType
<1>4. HandlersAgree'
  <2>1. ASSUME NEW g \in Handlers, g # h PROVE RequestIsSound(req'[g], users')
    BY <1>1, <2>1 DEF IInv, HandlersAgree, RequestIsSound, UsersGrow
  <2> QED
    BY <1>1, <2>1 DEF HandlersAgree
<1>5. WizardsTakeTurns'
  <2>1. WizardMade' \subseteq WizardMade
    BY DEF WizardMade, UsersGrow
  <2>2. \A g \in Handlers : req'[g].op = "setup" => req[g].op = "setup"
    BY <1>1
  <2>3. \A g \in Handlers : req'[g].stage = "seed" => req[g].stage = "seed"
    BY <1>1
  <2> QED
    BY <2>1, <2>2, <2>3 DEF IInv, WizardsTakeTurns
<1>6. StatesFresh'
  BY <1>2 DEF IInv, StatesFresh
<1> QED
  BY <1>3, <1>4, <1>5, <1>6 DEF IInv

\* The same when the accounts are left alone.
LEMMA QuietStepKeepsInv ==
    ASSUME IInv, NEW h \in Handlers, NEW q \in Request, req' = [req EXCEPT ![h] = q],
           req[h].stage # "revoke", q.stage # "seed", q.op = "setup" => req[h].op = "setup",
           RequestIsSound(q, users), OthersStay, UNCHANGED <<users, account, linked, created>>
    PROVE  IInv'
<1>1. UsersGrow
  BY DEF UsersGrow
<1>2. UsersType'
  BY TypeParts DEF UsersType
<1>3. Reachable'
  BY DEF IInv, Reachable, HasAccess
<1>4. RequestIsSound(q, users')
  OBVIOUS
<1> QED
  BY <1>1, <1>2, <1>3, <1>4, HandlerStepKeepsInv

-----------------------------------------------------------------------------
(* Handlers that leave the accounts alone. *)

\* A handler that begins was idle.
LEMMA BeginKeepsInv ==
    ASSUME IInv, NEW h \in Handlers, NEW r \in Request, Begin(h, r), r.op # "setup",
           r.stage # "seed", RequestIsSound(r, users), OthersStay,
           UNCHANGED <<users, account, linked, created>>
    PROVE  IInv'
<1>1. req[h].stage # "revoke" /\ req' = [req EXCEPT ![h] = r]
  BY IdleIsSound DEF Begin
<1> QED
  BY <1>1, QuietStepKeepsInv

LEMMA LoginVerifiedKeepsInv ==
    ASSUME IInv, NEW h \in Handlers, NEW u \in UserId, LoginVerified(h, u)
    PROVE  IInv'
<1> DEFINE r == [Idle EXCEPT !.op = "login", !.stage = "issue", !.user = u]
<1>1. r \in Request /\ r.op = "login" /\ r.stage = "issue"
  BY DEF Idle, Request, Op, Stage
<1>2. /\ Begin(h, r) /\ OthersStay /\ UNCHANGED <<users, account, linked, created>>
  BY DEF LoginVerified, OthersStay, userVars, countVars
<1> HIDE DEF r
<1>3. RequestIsSound(r, users)
  BY <1>1 DEF RequestIsSound
<1> QED
  BY <1>1, <1>2, <1>3, BeginKeepsInv

LEMMA ChangeVerifiedKeepsInv ==
    ASSUME IInv, NEW h \in Handlers, NEW s \in SessionId, NEW op, NEW mail,
           \/ op = "password" /\ mail = NoMail
           \/ op = "mail" /\ mail \in Mails,
           ChangeVerified(h, s, op, mail)
    PROVE  IInv'
<1> DEFINE u == session[s].user
           r == [Idle EXCEPT !.op = op, !.stage = op, !.user = u, !.mail = mail]
<1>1. u \in UserId /\ u \in users
  BY TypeParts, UserIds DEF ChangeVerified, Authenticated
<1>2. r \in Request /\ r.op = op /\ r.stage = op /\ r.mail = mail /\ r.user = u
  BY <1>1 DEF Idle, Request, Op, Stage
<1>3. /\ Begin(h, r) /\ OthersStay /\ UNCHANGED <<users, account, linked, created>>
  BY DEF ChangeVerified, OthersStay, userVars, countVars
<1> HIDE DEF r
<1>4. RequestIsSound(r, users) /\ r.op # "setup" /\ r.stage # "seed"
  BY <1>1, <1>2 DEF RequestIsSound
<1> QED
  BY <1>2, <1>3, <1>4, BeginKeepsInv

\* The statements of UpsertOIDCUser that only read.
LEMMA UpsertReadsKeepInv ==
    ASSUME IInv, NEW h \in Handlers, FindIdentity(h) \/ MatchMail(h)
    PROVE  IInv'
<1>1. /\ req[h].stage \in {"find", "match"} /\ OthersStay
      /\ UNCHANGED <<users, account, linked, created>>
  BY DEF FindIdentity, MatchMail, OthersStay, userVars, countVars
<1>2. /\ req[h].subject \in Subjects /\ users \subseteq UserId
      /\ linked \in [Subjects -> users \cup {NoUser}]
  BY <1>1, TypeParts, UserIds DEF IInv, HandlersAgree, RequestIsSound, UsersType
<1>3. \E stage \in {"issue", "create", "match", "link"}, u \in UserId \cup {NoUser} :
          GoOn(h, stage, u) /\ (stage = "link" => u \in users)
  <2>1. CASE FindIdentity(h)
    <3>1. linked[req[h].subject] \in UserId \cup {NoUser} /\ NoUser \in UserId \cup {NoUser}
      BY <1>2
    <3> QED
      BY <2>1, <3>1 DEF FindIdentity
  <2>2. CASE MatchMail(h)
    <3>1. WithMail(req[h].mail) \subseteq users /\ NoUser \in UserId \cup {NoUser}
      BY DEF WithMail
    <3> QED
      BY <1>2, <2>2, <3>1 DEF MatchMail
  <2> QED
    BY <2>1, <2>2
<1>4. PICK stage \in {"issue", "create", "match", "link"}, u \in UserId \cup {NoUser} :
          GoOn(h, stage, u) /\ (stage = "link" => u \in users)
  BY <1>3
<1>5. stage \in Stage
  BY DEF Stage
<1>6. PICK q \in Request :
          /\ req' = [req EXCEPT ![h] = q]
          /\ q.stage = stage /\ q.user = u /\ q.op = req[h].op
          /\ q.mail = req[h].mail /\ q.subject = req[h].subject
  BY <1>4, <1>5, GoOnMoves DEF IInv
<1>7. RequestIsSound(q, users) /\ q.stage # "seed" /\ req[h].stage # "revoke"
  BY <1>1, <1>2, <1>4, <1>6 DEF RequestIsSound
<1> QED
  BY <1>1, <1>6, <1>7, QuietStepKeepsInv

-----------------------------------------------------------------------------
(* Handlers that change the accounts. *)

\* A new row: its address is nobody's, and it can be signed in to.
LEMMA AddAccount ==
    ASSUME UsersType, Reachable, created < MaxUsers, NEW row \in Account,
           \A u \in users : row.mail # NoMail => account[u].mail # row.mail,
           users' = users \cup {created + 1}, created' = created + 1,
           account' = [account EXCEPT ![created + 1] = row],
           linked' \in [Subjects -> users' \cup {NoUser}],
           \A x \in Subjects : linked[x] # NoUser => linked'[x] = linked[x],
           \/ row.mail # NoMail /\ row.pw = TRUE
           \/ \E x \in Subjects : linked'[x] = created + 1
    PROVE  /\ UsersType' /\ Reachable'
           /\ account'[created + 1] = row /\ \A u \in users : account'[u] = account[u]
<1>1. /\ users \subseteq UserId /\ NoUser \notin users /\ created \in Nat
      /\ created + 1 \notin users /\ created + 1 \in UserId /\ created + 1 \in 0..MaxUsers
  BY UserIds
<1>2. /\ account' \in [UserId -> Account] /\ account'[created + 1] = row
      /\ \A u \in users : account'[u] = account[u]
  BY <1>1 DEF UsersType
<1>3. users' \subseteq 1..created'
  BY <1>1 DEF UsersType
<1>4. UsersType'
  BY <1>1, <1>2, <1>3 DEF UsersType
<1>5. ASSUME NEW u \in users PROVE HasAccess(u)'
  <2>1. HasAccess(u)
    BY DEF Reachable
  <2> QED
    BY <1>1, <1>2, <2>1 DEF HasAccess
<1>6. ASSUME NEW k, k = created + 1 PROVE HasAccess(k)'
  BY <1>2, <1>6 DEF HasAccess
<1>7. ASSUME NEW u \in users' PROVE HasAccess(u)'
  BY <1>5, <1>6, <1>7
<1>8. \A u, v \in users' : account'[u].mail = account'[v].mail /\ account'[u].mail # NoMail
                              => u = v
  BY <1>2 DEF Reachable
<1> QED
  BY <1>2, <1>4, <1>7, <1>8 DEF Reachable

\* CreateTenant, and the last branch of UpsertOIDCUser in memory: an account and its
\* identity in one step.
LEMMA TenantKeepsInv ==
    ASSUME IInv, NEW h \in Handlers, req[h].stage \in {"create", "find"},
           WithMail(req[h].mail) = {}, linked[req[h].subject] = NoUser,
           NewAccount(req[h].mail, FALSE, "provider"),
           linked' = [linked EXCEPT ![req[h].subject] = created + 1],
           GoOn(h, "issue", created + 1), OthersStay
    PROVE  IInv'
<1> DEFINE row == [mail |-> req[h].mail, pw |-> FALSE, via |-> "provider"]
<1>1. UsersType /\ req[h] \in Request
  BY TypeParts
<1>2. req[h].subject \in Subjects /\ req[h].mail \in Mails \cup {NoMail}
  BY <1>1, RequestFields DEF IInv, HandlersAgree, RequestIsSound
<1>3. row \in Account /\ row.mail = req[h].mail /\ row.via = "provider"
  BY <1>2 DEF Account
<1>4. /\ created < MaxUsers /\ users' = users \cup {created + 1} /\ created' = created + 1
      /\ account' = [account EXCEPT ![created + 1] = row]
  BY DEF NewAccount
<1> HIDE DEF row
<1>5. \A u \in users : row.mail # NoMail => account[u].mail # row.mail
  BY <1>3 DEF WithMail
<1>6. /\ linked' \in [Subjects -> users' \cup {NoUser}]
      /\ \A x \in Subjects : linked[x] # NoUser => linked'[x] = linked[x]
      /\ linked'[req[h].subject] = created + 1
  BY <1>1, <1>2, <1>4 DEF UsersType
<1>7. /\ UsersType' /\ Reachable'
      /\ account'[created + 1] = row /\ \A u \in users : account'[u] = account[u]
  BY <1>1, <1>2, <1>3, <1>4, <1>5, <1>6, AddAccount DEF IInv
<1>8. UsersGrow
  BY <1>3, <1>4, <1>7 DEF UsersGrow
<1>9. created + 1 \in UserId \cup {NoUser} /\ "issue" \in Stage
  BY <1>1, <1>4, UserIds DEF Stage
<1>10. PICK q \in Request :
          /\ req' = [req EXCEPT ![h] = q] /\ q.stage = "issue" /\ q.op = req[h].op
  BY <1>9, GoOnMoves DEF IInv
<1>11. RequestIsSound(q, users') /\ req[h].stage # "revoke" /\ q.stage # "seed"
  BY <1>10 DEF RequestIsSound
<1> QED
  BY <1>7, <1>8, <1>10, <1>11, HandlerStepKeepsInv

\* LinkIdentity, and the middle branch of UpsertOIDCUser in memory: an identity is
\* linked to an account that exists, if it is free.
LEMMA LinkKeepsInv ==
    ASSUME IInv, NEW h \in Handlers, req[h].stage \in {"link", "find"}, NEW u \in users,
           linked' \in {LinkedTo(req[h].subject, u), linked},
           GoOn(h, "issue", u), OthersStay, UNCHANGED <<users, account, created>>
    PROVE  IInv'
<1>1. UsersType
  BY TypeParts
<1>2. req[h].subject \in Subjects /\ u \in UserId \cup {NoUser} /\ NoUser \notin users
  BY <1>1, UserIds DEF IInv, HandlersAgree, RequestIsSound
<1>3. /\ linked' \in [Subjects -> users \cup {NoUser}]
      /\ \A x \in Subjects : linked[x] # NoUser => linked'[x] = linked[x]
  BY <1>1, <1>2 DEF UsersType, LinkedTo
<1>4. UsersType' /\ UsersGrow
  BY <1>1, <1>3 DEF UsersType, UsersGrow
<1>5. \A v \in users : HasAccess(v) => HasAccess(v)'
  BY <1>2, <1>3 DEF HasAccess
<1>6. Reachable'
  BY <1>5 DEF IInv, Reachable
<1>7. PICK q \in Request :
          /\ req' = [req EXCEPT ![h] = q] /\ q.stage = "issue" /\ q.op = req[h].op
  BY <1>2, GoOnMoves DEF IInv, Stage
<1>8. RequestIsSound(q, users') /\ req[h].stage # "revoke" /\ q.stage # "seed"
  BY <1>7 DEF RequestIsSound
<1> QED
  BY <1>4, <1>6, <1>7, <1>8, HandlerStepKeepsInv

\* UpsertOIDCUser.
LEMMA UpsertKeepsInv ==
    ASSUME IInv, NEW h \in Handlers, LinkIdentity(h) \/ CreateTenant(h) \/ UpsertInMemory(h)
    PROVE  IInv'
<1>1. OthersStay
  BY DEF LinkIdentity, CreateTenant, UpsertInMemory, OthersStay, countVars
<1>2. CASE LinkIdentity(h)
  <2>1. req[h].stage = "link" /\ req[h].user \in users
    BY <1>2 DEF LinkIdentity, IInv, HandlersAgree, RequestIsSound
  <2> QED
    BY <1>1, <1>2, <2>1, LinkKeepsInv DEF LinkIdentity, countVars
<1>3. CASE CreateTenant(h)
  BY <1>1, <1>3, TenantKeepsInv DEF CreateTenant, IdentityIsFree
<1>4. CASE UpsertInMemory(h)
  <2> DEFINE known == linked[req[h].subject]
  <2>1. CASE known # NoUser /\ GoOn(h, "issue", known) /\ UNCHANGED <<userVars, created>>
    <3>1. UsersType /\ req[h].stage = "find" /\ req[h].subject \in Subjects
      BY <1>4, TypeParts DEF UpsertInMemory, IInv, HandlersAgree, RequestIsSound
    <3>2. known \in users
      BY <2>1, <3>1 DEF UsersType
    <3> QED
      BY <1>1, <2>1, <3>1, <3>2, LinkKeepsInv DEF userVars
  <2>2. CASE /\ known = NoUser
             /\ \E u \in WithMail(req[h].mail) :
                    /\ linked' = LinkedTo(req[h].subject, u)
                    /\ GoOn(h, "issue", u)
             /\ UNCHANGED <<users, account, created>>
    <3>1. req[h].stage = "find" /\ WithMail(req[h].mail) \subseteq users
      BY <1>4 DEF UpsertInMemory, WithMail
    <3> QED
      BY <1>1, <2>2, <3>1, LinkKeepsInv
  <2>3. CASE /\ known = NoUser /\ WithMail(req[h].mail) = {}
             /\ NewAccount(req[h].mail, FALSE, "provider")
             /\ linked' = [linked EXCEPT ![req[h].subject] = created + 1]
             /\ GoOn(h, "issue", created + 1)
    BY <1>1, <1>4, <2>3, TenantKeepsInv DEF UpsertInMemory
  <2> QED
    BY <1>4, <2>1, <2>2, <2>3 DEF UpsertInMemory
<1> QED
  BY <1>2, <1>3, <1>4

\* UpdateUserEmail: the address is free, or the user's own.
LEMMA ChangeMailKeepsInv ==
    ASSUME IInv, NEW h \in Handlers, ChangeMail(h)
    PROVE  IInv'
<1> DEFINE u == req[h].user
           mail == req[h].mail
<1>1. /\ req[h].stage = "mail" /\ u \in users /\ WithMail(mail) \subseteq {u}
      /\ account' = [account EXCEPT ![u].mail = mail] /\ req' = [req EXCEPT ![h] = Idle]
      /\ OthersStay /\ UNCHANGED <<users, linked, created>>
  BY DEF ChangeMail, Return, OthersStay, countVars
<1>2. mail \in Mails /\ mail # NoMail /\ UsersType
  BY <1>1, TypeParts, Constants DEF IInv, HandlersAgree, RequestIsSound
<1>3. u \in UserId /\ users \subseteq UserId
  BY <1>1, <1>2, UserIds
<1> HIDE DEF u, mail
<1>4. /\ account' \in [UserId -> Account] /\ account'[u].mail = mail
      /\ account'[u].pw = account[u].pw /\ account'[u].via = account[u].via
      /\ \A v \in users : v # u => account'[v] = account[v]
  BY <1>1, <1>2, <1>3 DEF UsersType, Account
<1>5. UsersType' /\ UsersGrow
  BY <1>1, <1>2, <1>4 DEF UsersType, UsersGrow
<1>6. \A v \in users : HasAccess(v) => HasAccess(v)'
  BY <1>1, <1>2, <1>4 DEF HasAccess
<1>7. \A v, w \in users : account'[v].mail = account'[w].mail /\ account'[v].mail # NoMail
                             => v = w
  <2>1. \A v \in users : account[v].mail = mail => v = u
    BY <1>1, <1>2 DEF WithMail
  <2> QED
    BY <1>4, <2>1 DEF IInv, Reachable
<1>8. Reachable'
  BY <1>1, <1>6, <1>7 DEF IInv, Reachable
<1>9. Idle \in Request /\ Idle.stage # "seed" /\ Idle.op # "setup" /\ RequestIsSound(Idle, users')
  BY IdleIsSound
<1> QED
  BY <1>1, <1>5, <1>8, <1>9, HandlerStepKeepsInv

-----------------------------------------------------------------------------
(* The wizard. *)

\* setupMu is free and there is no account.
LEMMA SetupBeginKeepsInv ==
    ASSUME IInv, NEW h \in Handlers, NEW mail \in Mails, SetupBegin(h, mail)
    PROVE  IInv'
<1> DEFINE q == [Idle EXCEPT !.op = "setup", !.stage = "seed", !.mail = mail]
<1>1. q \in Request /\ q.op = "setup" /\ q.stage = "seed" /\ q.mail = mail
  BY DEF Idle, Request, Op, Stage
<1>2. /\ \A g \in Handlers : req[g].op # "setup"
      /\ users = {} /\ req[h] = Idle /\ req' = [req EXCEPT ![h] = q]
      /\ UNCHANGED <<store, users, account, linked, sessions, session, states, discovered, uses,
                     stale, created, begun, restarts>>
  BY DEF SetupBegin, Begin, userVars, sessionVars, oidcVars, countVars
<1> HIDE DEF q
<1>3. /\ req' \in [Handlers -> Request] /\ req'[h] = q
      /\ \A g \in Handlers : g # h => req'[g] = req[g]
  BY <1>1, <1>2, HandlerMoved DEF IInv
<1>4. TypeOK'
  BY <1>2, <1>3 DEF IInv, TypeOK
<1>5. HandlersAgree'
  <2>1. RequestIsSound(q, users')
    BY <1>1 DEF RequestIsSound
  <2> QED
    BY <1>2, <1>3, <2>1 DEF IInv, HandlersAgree
<1>6. WizardsTakeTurns'
  <2>1. WizardMade' = {}
    BY <1>2 DEF WizardMade
  <2> QED
    BY <1>2, <1>3, <2>1 DEF WizardsTakeTurns
<1>7. Reachable' /\ StatesFresh'
  BY <1>2 DEF IInv, Reachable, StatesFresh
<1> QED
  BY <1>4, <1>5, <1>6, <1>7 DEF IInv

\* SeedOrgOwner: no account is the wizard's before, and one is after.
LEMMA SetupSeedKeepsInv ==
    ASSUME IInv, NEW h \in Handlers, SetupSeed(h)
    PROVE  IInv'
<1> DEFINE row == [mail |-> req[h].mail, pw |-> TRUE, via |-> "wizard"]
<1>1. /\ req[h].stage = "seed" /\ WithMail(req[h].mail) = {}
      /\ created < MaxUsers /\ users' = users \cup {created + 1} /\ created' = created + 1
      /\ account' = [account EXCEPT ![created + 1] = row]
      /\ GoOn(h, "issue", created + 1)
      /\ UNCHANGED <<store, linked, sessions, session, states, discovered, uses, stale, begun,
                     restarts>>
  BY DEF SetupSeed, NewAccount, sessionVars, oidcVars
<1>2. /\ UsersType /\ req[h].mail \in Mails /\ req[h].mail # NoMail /\ req[h].op = "setup"
      /\ WizardMade = {} /\ \A g \in Handlers : req[g].op = "setup" => g = h
  BY <1>1, TypeParts, Constants DEF IInv, HandlersAgree, RequestIsSound, WizardsTakeTurns
<1>3. row \in Account /\ row.mail = req[h].mail /\ row.pw = TRUE
  BY <1>2 DEF Account
<1> HIDE DEF row
<1>4. \A u \in users : row.mail # NoMail => account[u].mail # row.mail
  BY <1>1, <1>3 DEF WithMail
<1>5. linked' \in [Subjects -> users' \cup {NoUser}]
  BY <1>1, <1>2 DEF UsersType
<1>6. /\ UsersType' /\ Reachable' /\ \A u \in users : account'[u] = account[u]
  BY <1>1, <1>2, <1>3, <1>4, <1>5, AddAccount DEF IInv
<1>7. created + 1 \in UserId \cup {NoUser} /\ "issue" \in Stage
  BY <1>1, <1>2, UserIds DEF Stage
<1>8. PICK q \in Request :
          /\ req' = [req EXCEPT ![h] = q] /\ q.stage = "issue" /\ q.op = req[h].op
  BY <1>1, <1>7, GoOnMoves DEF IInv
<1>9. /\ req' \in [Handlers -> Request] /\ req'[h] = q
      /\ \A g \in Handlers : g # h => req'[g] = req[g]
  BY <1>8, HandlerMoved DEF IInv
<1>10. TypeOK'
  <2>1. /\ store \in Stores /\ SessionsType /\ OidcType /\ stale \subseteq Handlers
        /\ restarts \in 0..MaxRestarts
    BY TypeParts
  <2>2. SessionsType' /\ OidcType'
    BY <1>1, <2>1 DEF SessionsType, OidcType
  <2> QED
    BY <1>1, <1>6, <1>9, <2>1, <2>2 DEF TypeOK, UsersType, SessionsType, OidcType
<1>11. HandlersAgree'
  <2>1. ASSUME NEW g \in Handlers, g # h PROVE RequestIsSound(req'[g], users')
    BY <1>1, <1>9, <2>1 DEF IInv, HandlersAgree, RequestIsSound
  <2>2. RequestIsSound(q, users')
    BY <1>8 DEF RequestIsSound
  <2> QED
    BY <1>9, <2>1, <2>2 DEF HandlersAgree
<1>12. WizardsTakeTurns'
  <2>1. WizardMade' \subseteq {created + 1}
    BY <1>1, <1>2, <1>6 DEF WizardMade
  <2>2. \A g \in Handlers : req'[g].op = "setup" => g = h
    BY <1>2, <1>9
  <2>3. \A g \in Handlers : req'[g].stage # "seed"
    <3>1. \A g \in Handlers : req[g].stage = "seed" => g = h
      BY <1>2 DEF IInv, HandlersAgree, RequestIsSound
    <3> QED
      BY <1>8, <1>9, <3>1
  <2> QED
    BY <2>1, <2>2, <2>3 DEF WizardsTakeTurns
<1>13. StatesFresh'
  BY <1>1 DEF IInv, StatesFresh
<1> QED
  BY <1>6, <1>10, <1>11, <1>12, <1>13 DEF IInv

-----------------------------------------------------------------------------
(* Sessions. *)

\* A handler of sessions leaves the accounts and the provider's states alone.
LEMMA SessionStepKeepsInv ==
    ASSUME IInv, NEW h \in Handlers, NEW q \in Request, req' = [req EXCEPT ![h] = q],
           q.stage # "seed", q.op = "setup" => req[h].op = "setup", RequestIsSound(q, users),
           UNCHANGED <<store, users, account, linked, created, states, discovered, uses, begun,
                       restarts>>,
           SessionsType', stale' \subseteq Handlers
    PROVE  IInv'
<1>1. /\ req' \in [Handlers -> Request] /\ req'[h] = q
      /\ \A g \in Handlers : g # h => req'[g] = req[g]
  BY HandlerMoved DEF IInv
<1>2. TypeOK'
  BY <1>1 DEF IInv, TypeOK, SessionsType
<1>3. HandlersAgree'
  BY <1>1 DEF IInv, HandlersAgree
<1>4. WizardsTakeTurns'
  <2>1. WizardMade' = WizardMade
    BY DEF WizardMade
  <2>2. \A g \in Handlers : /\ req'[g].op = "setup" => req[g].op = "setup"
                            /\ req'[g].stage = "seed" => req[g].stage = "seed"
    BY <1>1
  <2> QED
    BY <2>1, <2>2 DEF IInv, WizardsTakeTurns
<1>5. Reachable' /\ StatesFresh'
  BY DEF IInv, Reachable, HasAccess, StatesFresh
<1> QED
  BY <1>2, <1>3, <1>4, <1>5 DEF IInv

\* CreateSession.
LEMMA IssueSessionKeepsInv ==
    ASSUME IInv, NEW h \in Handlers, IssueSession(h)
    PROVE  IInv'
<1> DEFINE s == Min(SessionId \ sessions)
           new == [user |-> req[h].user, old |-> h \in stale]
<1>1. /\ req[h].stage = "issue" /\ req[h].user \in users /\ sessions # SessionId
      /\ sessions' = sessions \cup {s} /\ session' = [session EXCEPT ![s] = new]
      /\ req' = [req EXCEPT ![h] = Idle]
      /\ UNCHANGED <<store, users, account, linked, created, states, discovered, uses, begun,
                     restarts>>
      /\ stale' = stale \ {h}
  BY DEF IssueSession, Return, userVars, oidcVars
<1>2. /\ sessions \subseteq SessionId /\ session \in [SessionId -> Session]
      /\ \A t \in sessions : session[t].user \in users
      /\ stale \subseteq Handlers /\ users \subseteq UserId
  BY TypeParts, UserIds DEF SessionsType
<1>3. s \in SessionId \ sessions
  <2>1. SessionId \ sessions \in SUBSET Nat /\ SessionId \ sessions # {}
    <3>1. SessionId \subseteq Nat
      BY Constants DEF SessionId
    <3> QED
      BY <1>1, <1>2, <3>1
  <2> QED
    BY <2>1, MinIsElement
<1>4. new \in Session /\ new.user = req[h].user
  BY <1>1, <1>2 DEF Session
<1> HIDE DEF s, new
<1>5. /\ session' \in [SessionId -> Session] /\ session'[s] = new
      /\ \A t \in sessions : session'[t] = session[t]
  BY <1>1, <1>2, <1>3, <1>4
<1>6. SessionsType'
  BY <1>1, <1>2, <1>3, <1>4, <1>5 DEF SessionsType
<1>7. Idle \in Request /\ Idle.stage # "seed" /\ Idle.op # "setup" /\ RequestIsSound(Idle, users)
  BY IdleIsSound
<1> QED
  BY <1>1, <1>2, <1>6, <1>7, SessionStepKeepsInv

\* UpdateUserPassword.
LEMMA ChangePasswordKeepsInv ==
    ASSUME IInv, NEW h \in Handlers, ChangePassword(h)
    PROVE  IInv'
<1>1. /\ req[h].stage = "password" /\ req[h].user \in users
      /\ session' = [s \in SessionId |-> IF session[s].user = req[h].user
                                         THEN [session[s] EXCEPT !.old = TRUE] ELSE session[s]]
      /\ GoOn(h, "revoke", req[h].user)
      /\ UNCHANGED <<store, users, account, linked, created, sessions, states, discovered, uses,
                     begun, restarts>>
      /\ stale' = stale \cup IssuesFor(req[h].user)
  BY DEF ChangePassword, userVars, oidcVars, countVars
<1>2. /\ sessions \subseteq SessionId /\ session \in [SessionId -> Session]
      /\ \A t \in sessions : session[t].user \in users
      /\ stale \subseteq Handlers /\ users \subseteq UserId
  BY TypeParts, UserIds DEF SessionsType
<1>3. /\ session' \in [SessionId -> Session]
      /\ \A s \in SessionId : session'[s].user = session[s].user
      /\ \A s \in SessionId : session[s].user # req[h].user => session'[s] = session[s]
  BY <1>1, <1>2 DEF Session
<1>4. SessionsType'
  BY <1>1, <1>2, <1>3 DEF SessionsType
<1>5. PICK q \in Request :
          /\ req' = [req EXCEPT ![h] = q] /\ q.stage = "revoke" /\ q.user = req[h].user
          /\ q.op = req[h].op
  BY <1>1, <1>2, GoOnMoves DEF IInv, Stage
<1>6. stale' \subseteq Handlers
  BY <1>1, <1>2 DEF IssuesFor
<1>7. RequestIsSound(q, users) /\ q.stage # "seed"
  BY <1>1, <1>5 DEF RequestIsSound
<1> QED
  BY <1>1, <1>2, <1>4, <1>5, <1>6, <1>7, SessionStepKeepsInv

\* DELETE FROM sessions.
LEMMA DeleteSessionsType ==
    ASSUME SessionsType, NEW gone \in SUBSET sessions, DeleteSessions(gone), users' = users
    PROVE  /\ SessionsType' /\ sessions' = sessions \ gone
           /\ \A s \in sessions' : session'[s] = session[s]
<1>1. NoSession \in Session
  BY DEF NoSession, Session
<1> QED
  BY <1>1 DEF SessionsType, DeleteSessions

\* DeleteSessionsForUser, done or failed.
LEMMA RevokeKeepsInv ==
    ASSUME IInv, NEW h \in Handlers, RevokeSessions(h) \/ RevokeFails(h)
    PROVE  IInv'
<1> DEFINE gone == {s \in sessions : session[s].user = req[h].user}
<1>1. /\ req[h].stage = "revoke" /\ GoOn(h, "issue", req[h].user)
      /\ UNCHANGED <<store, users, account, linked, created, states, discovered, uses, begun,
                     restarts, stale>>
      /\ DeleteSessions(gone) \/ UNCHANGED <<sessions, session>>
  BY DEF RevokeSessions, RevokeFails, userVars, sessionVars, oidcVars, countVars
<1>2. /\ SessionsType /\ stale \subseteq Handlers /\ users \subseteq UserId
      /\ req[h].user \in UserId
  BY <1>1, TypeParts, UserIds DEF IInv, HandlersAgree, RequestIsSound
<1>3. PICK q \in Request :
          /\ req' = [req EXCEPT ![h] = q] /\ q.stage = "issue" /\ q.op = req[h].op
  BY <1>1, <1>2, GoOnMoves DEF IInv, Stage
<1>4. RequestIsSound(q, users) /\ q.stage # "seed"
  BY <1>3 DEF RequestIsSound
<1>5. SessionsType'
  <2>1. CASE DeleteSessions(gone)
    BY <1>1, <1>2, <2>1, DeleteSessionsType
  <2>2. CASE UNCHANGED <<sessions, session>>
    BY <1>1, <1>2, <2>2 DEF SessionsType
  <2> QED
    BY <1>1, <2>1, <2>2
<1> QED
  BY <1>1, <1>2, <1>3, <1>4, <1>5, SessionStepKeepsInv

\* A handler that fails has not deleted or issued a session.
LEMMA RequestFailsKeepsInv ==
    ASSUME IInv, NEW h \in Handlers, RequestFails(h)
    PROVE  IInv'
<1>1. /\ req' = [req EXCEPT ![h] = Idle] /\ stale' = stale \ {h}
      /\ UNCHANGED <<store, users, account, linked, created, sessions, session, states, discovered,
                     uses, begun, restarts>>
  BY DEF RequestFails, Return, userVars, oidcVars, countVars
<1>2. Idle \in Request /\ Idle.stage # "seed" /\ Idle.op # "setup" /\ RequestIsSound(Idle, users)
  BY IdleIsSound
<1>3. SessionsType' /\ stale' \subseteq Handlers
  BY <1>1, TypeParts DEF SessionsType
<1> QED
  BY <1>1, <1>2, <1>3, SessionStepKeepsInv

\* handleLogout, or a session expires.
LEMMA SessionEndsKeepsInv ==
    ASSUME IInv, NEW s \in SessionId, SessionEnds(s)
    PROVE  IInv'
<1>1. /\ s \in sessions /\ DeleteSessions({s})
      /\ UNCHANGED <<store, users, account, linked, created, states, discovered, uses, begun,
                     restarts, req, stale>>
  BY DEF SessionEnds, userVars, oidcVars, countVars
<1>2. /\ SessionsType' /\ sessions' = sessions \ {s}
      /\ \A t \in sessions' : session'[t] = session[t]
  BY <1>1, TypeParts, DeleteSessionsType
<1>3. TypeOK'
  BY <1>1, <1>2 DEF IInv, TypeOK, SessionsType
<1>4. HandlersAgree' /\ WizardsTakeTurns'
  BY <1>1 DEF IInv, HandlersAgree, WizardsTakeTurns, WizardMade
<1>5. Reachable' /\ StatesFresh'
  BY <1>1 DEF IInv, Reachable, HasAccess, StatesFresh
<1> QED
  BY <1>3, <1>4, <1>5 DEF IInv

-----------------------------------------------------------------------------
(* Sign-in with a provider. *)

\* Steps of the state store alone.
LEMMA StateStepKeepsInv ==
    ASSUME IInv, UNCHANGED <<store, users, account, linked, created, sessions, session, req,
                             stale, restarts>>,
           OidcType', StatesFresh'
    PROVE  IInv'
<1>1. TypeOK'
  BY DEF IInv, TypeOK, OidcType
<1>2. HandlersAgree' /\ WizardsTakeTurns'
  BY DEF IInv, HandlersAgree, WizardsTakeTurns, WizardMade
<1>3. Reachable'
  BY DEF IInv, Reachable, HasAccess
<1> QED
  BY <1>1, <1>2, <1>3 DEF IInv

LEMMA StateStepsKeepInv ==
    ASSUME IInv, DiscoverFails \/ SignInStart \/ \E x \in StateId : StateExpires(x)
    PROVE  IInv'
<1>0. OidcType /\ StatesFresh
  BY TypeParts DEF IInv
<1>1. CASE DiscoverFails
  <2>1. UNCHANGED <<store, users, account, linked, created, sessions, session, req, stale,
                    restarts, states, uses, begun>> /\ discovered' = "failed"
    BY <1>1 DEF DiscoverFails, userVars, sessionVars, countVars
  <2>2. OidcType' /\ StatesFresh'
    BY <1>0, <2>1 DEF OidcType, StatesFresh
  <2> QED
    BY <2>1, <2>2, StateStepKeepsInv
<1>2. CASE SignInStart
  <2>1. /\ UNCHANGED <<store, users, account, linked, created, sessions, session, req, stale,
                       restarts, uses>>
        /\ discovered' = "yes" /\ begun < MaxStates /\ begun' = begun + 1
        /\ states' = states \cup {begun + 1}
    BY <1>2 DEF SignInStart, userVars, sessionVars
  <2>2. OidcType'
    BY <1>0, <2>1, Constants DEF OidcType
  <2>3. begun \in Nat /\ StateId \subseteq Nat
    BY <1>0, Constants DEF OidcType, StateId
  <2>4. \A x \in StateId : x \in states' \/ x > begun' => x \in states \/ x > begun
    BY <2>1, <2>3
  <2>5. StatesFresh'
    BY <1>0, <2>1, <2>4 DEF StatesFresh
  <2> QED
    BY <2>1, <2>2, <2>5, StateStepKeepsInv
<1>3. CASE \E x \in StateId : StateExpires(x)
  <2>1. /\ UNCHANGED <<store, users, account, linked, created, sessions, session, req, stale,
                       restarts, discovered, uses, begun>>
        /\ states' \subseteq states
    BY <1>3 DEF StateExpires, userVars, sessionVars, countVars
  <2>2. OidcType' /\ StatesFresh'
    BY <1>0, <2>1 DEF OidcType, StatesFresh
  <2> QED
    BY <2>1, <2>2, StateStepKeepsInv
<1> QED
  BY <1>1, <1>2, <1>3

\* stateStore.take removes what it finds: the state was never taken before, and will
\* never be again.
LEMMA CallbackKeepsInv ==
    ASSUME IInv, NEW h \in Handlers, NEW x \in StateId, NEW subject \in Subjects,
           Callback(h, x, subject)
    PROVE  IInv'
<1> DEFINE q == [Idle EXCEPT !.op = "provider", !.stage = "find", !.subject = subject,
                             !.mail = MailOf[subject]]
<1>1. q \in Request /\ q.op = "provider" /\ q.stage = "find" /\ q.subject = subject
  <2>1. MailOf[subject] \in Mails \cup {NoMail}
    BY Constants
  <2> QED
    BY <2>1 DEF Idle, Request, Op, Stage
<1>2. /\ x \in states /\ states' = states \ {x} /\ uses' = [uses EXCEPT ![x] = @ + 1]
      /\ req[h] = Idle /\ req' = [req EXCEPT ![h] = q]
      /\ UNCHANGED <<store, users, account, linked, created, sessions, session, discovered,
                     stale, begun, restarts>>
  BY DEF Callback, TakeState, Begin, userVars, sessionVars, countVars
<1> HIDE DEF q
<1>3. /\ req' \in [Handlers -> Request] /\ req'[h] = q
      /\ \A g \in Handlers : g # h => req'[g] = req[g]
  BY <1>1, <1>2, HandlerMoved DEF IInv
<1>4. OidcType /\ StatesFresh
  BY TypeParts DEF IInv
<1>5. /\ uses' \in [StateId -> Nat] /\ uses'[x] = 1
      /\ \A y \in StateId : y # x => uses'[y] = uses[y]
  <2>1. uses \in [StateId -> Nat] /\ uses[x] = 0
    BY <1>2, <1>4 DEF OidcType, StatesFresh
  <2> QED
    BY <1>2, <2>1
<1>6. OidcType'
  BY <1>2, <1>4, <1>5 DEF OidcType
<1>7. StatesFresh'
  <2>1. ~(x > begun)
    <3>1. x \in 1..begun /\ begun \in Nat
      BY <1>2, <1>4, Constants DEF OidcType
    <3> QED
      BY <3>1
  <2>2. uses'[x] <= 1 /\ x \notin states' /\ ~(x > begun')
    BY <1>2, <1>5, <2>1
  <2>3. ASSUME NEW y \in StateId, y # x
        PROVE  uses'[y] <= 1 /\ (y \in states' \/ y > begun' => uses'[y] = 0)
    BY <1>2, <1>4, <1>5, <2>3 DEF StatesFresh
  <2> QED
    BY <2>2, <2>3 DEF StatesFresh
<1>8. TypeOK'
  BY <1>2, <1>3, <1>6 DEF IInv, TypeOK, OidcType
<1>9. HandlersAgree'
  <2>1. RequestIsSound(q, users)
    BY <1>1 DEF RequestIsSound
  <2> QED
    BY <1>2, <1>3, <2>1 DEF IInv, HandlersAgree
<1>10. WizardsTakeTurns'
  <2>1. WizardMade' = WizardMade
    BY <1>2 DEF WizardMade
  <2>2. \A g \in Handlers : /\ req'[g].op = "setup" => req[g].op = "setup"
                            /\ req'[g].stage = "seed" => req[g].stage = "seed"
    BY <1>1, <1>3
  <2> QED
    BY <2>1, <2>2 DEF IInv, WizardsTakeTurns
<1>11. Reachable'
  BY <1>2 DEF IInv, Reachable, HasAccess
<1> QED
  BY <1>7, <1>8, <1>9, <1>10, <1>11 DEF IInv

-----------------------------------------------------------------------------
(* The start of the API. *)

\* bootstrapOwner adds nothing, or the owner of the environment under a fresh id.
BootstrapMayMake(present, accounts, n, us, more, m) ==
    \/ us = present /\ more = accounts /\ m = n
    \/ \E k \in UserId, row \in Account :
          /\ k = n + 1 /\ row.mail = AdminMail /\ row.pw = TRUE /\ row.via = "environment"
          /\ AdminMail # NoMail /\ \A u \in present : accounts[u].mail # AdminMail
          /\ us = present \cup {k} /\ m = k
          /\ more = [accounts EXCEPT ![k] = row]

LEMMA BootstrapCases ==
    ASSUME NEW present, NEW accounts, NEW n, NEW b \in Bootstrapped(present, accounts, n),
           NEW us, us = b.users, NEW more, more = b.account, NEW m, m = b.created
    PROVE  BootstrapMayMake(present, accounts, n, us, more, m)
<1>1. CASE b = [users |-> present, account |-> accounts, created |-> n]
  BY <1>1 DEF BootstrapMayMake
<1>2. CASE b # [users |-> present, account |-> accounts, created |-> n]
  <2>1. PICK k \in {k \in {n + 1} \cap UserId :
                        /\ AdminMail # NoMail
                        /\ \A u \in present : accounts[u].mail # AdminMail} :
              b = [users |-> present \cup {k}, created |-> k,
                   account |-> [accounts EXCEPT ![k] =
                                   [mail |-> AdminMail, pw |-> TRUE, via |-> "environment"]]]
    BY <1>2, Zenon DEF Bootstrapped
  <2> DEFINE row == [mail |-> AdminMail, pw |-> TRUE, via |-> "environment"]
  <2>2. /\ row \in Account /\ row.mail = AdminMail /\ row.pw = TRUE /\ row.via = "environment"
    BY Constants DEF Account
  <2>3. /\ k = n + 1 /\ k \in UserId /\ AdminMail # NoMail
        /\ \A u \in present : accounts[u].mail # AdminMail
        /\ us = present \cup {k} /\ m = k
        /\ more = [accounts EXCEPT ![k] = row]
    BY <2>1
  <2> HIDE DEF row
  <2> QED
    BY <2>2, <2>3 DEF BootstrapMayMake
<1> QED
  BY <1>1, <1>2

\* UsersType and Reachable, of any tables.
SoundTables(present, accounts, links, n) ==
    /\ n \in 0..MaxUsers /\ present \subseteq 1..n /\ accounts \in [UserId -> Account]
    /\ links \in [Subjects -> present \cup {NoUser}]
    /\ \A u \in present : \/ accounts[u].mail # NoMail /\ accounts[u].pw = TRUE
                          \/ \E x \in Subjects : links[x] = u
    /\ \A u, v \in present : accounts[u].mail = accounts[v].mail /\ accounts[u].mail # NoMail
                                 => u = v

LEMMA SoundTablesMeans ==
    SoundTables(users, account, linked, created) <=> UsersType /\ Reachable
  BY DEF SoundTables, UsersType, Reachable, HasAccess

\* bootstrapOwner leaves accounts that can be signed in to as it found them.
LEMMA BootstrapIsSound ==
    ASSUME NEW present, NEW accounts, NEW links, NEW n, SoundTables(present, accounts, links, n),
           NEW b \in Bootstrapped(present, accounts, n),
           NEW us, us = b.users, NEW more, more = b.account, NEW m, m = b.created
    PROVE  /\ SoundTables(us, more, links, m) /\ present \subseteq us
           /\ \A u \in us : more[u].via = "wizard" =>
                               u \in present /\ accounts[u].via = "wizard"
<1>1. CASE us = present /\ more = accounts /\ m = n
  BY <1>1
<1>2. CASE \E k \in UserId, row \in Account :
                 /\ k = n + 1 /\ row.mail = AdminMail /\ row.pw = TRUE /\ row.via = "environment"
                 /\ AdminMail # NoMail /\ \A u \in present : accounts[u].mail # AdminMail
                 /\ us = present \cup {k} /\ m = k
                 /\ more = [accounts EXCEPT ![k] = row]
  <2>0. PICK k \in UserId, row \in Account :
                 /\ k = n + 1 /\ row.mail = AdminMail /\ row.pw = TRUE /\ row.via = "environment"
                 /\ AdminMail # NoMail /\ \A u \in present : accounts[u].mail # AdminMail
                 /\ us = present \cup {k} /\ m = k
                 /\ more = [accounts EXCEPT ![k] = row]
    BY <1>2
  <2>1. /\ k \notin present /\ present \subseteq UserId /\ present \subseteq 1..k
        /\ k \in 1..k /\ k \in 0..MaxUsers
    BY <2>0, Constants DEF SoundTables, UserId
  <2>2. /\ more \in [UserId -> Account] /\ more[k] = row
        /\ \A u \in present : more[u] = accounts[u]
    BY <2>0, <2>1 DEF SoundTables
  <2>3. links \in [Subjects -> us \cup {NoUser}]
    BY <2>0 DEF SoundTables
  <2>4. \A u, v \in us : more[u].mail = more[v].mail /\ more[u].mail # NoMail => u = v
    <3>1. ASSUME NEW u \in present, NEW v \in present, more[u].mail = more[v].mail,
                 more[u].mail # NoMail
          PROVE  u = v
      BY <2>2, <3>1 DEF SoundTables
    <3>2. \A u \in present : more[u].mail # more[k].mail
      BY <2>0, <2>2
    <3> QED
      BY <2>0, <3>1, <3>2
  <2>5. \A u \in us : \/ more[u].mail # NoMail /\ more[u].pw = TRUE
                      \/ \E x \in Subjects : links[x] = u
    BY <2>0, <2>2 DEF SoundTables
  <2>6. \A u \in us : more[u].via = "wizard" => u \in present /\ accounts[u].via = "wizard"
    BY <2>0, <2>2
  <2>7. us \subseteq 1..m /\ m \in 0..MaxUsers /\ present \subseteq us
    BY <2>0, <2>1
  <2> QED
    BY <2>2, <2>3, <2>4, <2>5, <2>6, <2>7 DEF SoundTables
<1>3. BootstrapMayMake(present, accounts, n, us, more, m)
  BY BootstrapCases
<1> QED
  BY <1>1, <1>2, <1>3 DEF BootstrapMayMake

LEMMA InitHolds == Init => IInv
<1> SUFFICES ASSUME Init PROVE IInv
  OBVIOUS
<1> DEFINE none == [u \in UserId |-> [mail |-> NoMail, pw |-> FALSE, via |-> "none"]]
           links == [x \in Subjects |-> NoUser]
<1>1. PICK b \in Bootstrapped({}, none, 0) :
          users = b.users /\ account = b.account /\ created = b.created
  BY DEF Init
<1>2. none \in [UserId -> Account] /\ links \in [Subjects -> {} \cup {NoUser}] /\ 0 \in 0..MaxUsers
  BY Constants DEF Account
<1>3. /\ store \in Stores /\ linked = links /\ sessions = {}
      /\ session = [s \in SessionId |-> NoSession] /\ states = {} /\ discovered = "not_asked"
      /\ req = [h \in Handlers |-> Idle] /\ uses = [x \in StateId |-> 0] /\ stale = {}
      /\ begun = 0 /\ restarts = 0
  BY DEF Init
<1> HIDE DEF none, links
<1>4. /\ UsersType /\ Reachable /\ \A u \in users : account[u].via # "wizard"
  <2>1. SoundTables({}, none, links, 0)
    BY <1>2 DEF SoundTables
  <2>2. /\ SoundTables(users, account, linked, created)
        /\ \A u \in users : account[u].via # "wizard"
    BY <1>1, <1>3, <2>1, BootstrapIsSound
  <2> QED
    BY <2>2, SoundTablesMeans
<1>5. \A h \in Handlers : req[h] = Idle
  BY <1>3
<1>6. TypeOK
  <2>1. session \in [SessionId -> Session]
    BY <1>3 DEF NoSession, Session
  <2>2. req \in [Handlers -> Request]
    BY <1>3, IdleIsSound
  <2>3. uses \in [StateId -> Nat] /\ begun \in 0..MaxStates /\ restarts \in 0..MaxRestarts
    BY <1>3, Constants
  <2> QED
    BY <1>3, <1>4, <2>1, <2>2, <2>3 DEF TypeOK, UsersType
<1>7. HandlersAgree
  BY <1>5, IdleIsSound DEF HandlersAgree
<1>8. WizardsTakeTurns
  BY <1>4, <1>5, IdleIsSound DEF WizardsTakeTurns, WizardMade
<1>9. StatesFresh
  BY <1>3 DEF StatesFresh
<1> QED
  BY <1>4, <1>6, <1>7, <1>8, <1>9 DEF IInv

\* A restart ends every handler, and keeps the tables of Postgres or none.
LEMMA ApiRestartKeepsInv ==
    ASSUME IInv, ApiRestart
    PROVE  IInv'
<1>1. /\ restarts < MaxRestarts /\ restarts' = restarts + 1
      /\ req' = [h \in Handlers |-> Idle]
      /\ states' = {} /\ discovered' = "not_asked"
      /\ linked' = LinksKept /\ DeleteSessions(SessionsLost)
      /\ stale' = {}
      /\ UNCHANGED <<store, uses, begun>>
  BY DEF ApiRestart
<1>2. PICK b \in Bootstrapped(UsersKept, account, created) :
          users' = b.users /\ account' = b.account /\ created' = b.created
  BY DEF ApiRestart
<1>3. UsersType /\ SessionsType /\ OidcType /\ Reachable
  BY TypeParts DEF IInv
<1>4. /\ UsersKept \subseteq users /\ LinksKept \in [Subjects -> UsersKept \cup {NoUser}]
      /\ \A u \in UsersKept : \/ account[u].mail # NoMail /\ account[u].pw = TRUE
                              \/ \E x \in Subjects : LinksKept[x] = u
  BY <1>3 DEF UsersKept, LinksKept, UsersType, Reachable, HasAccess
<1>5. /\ UsersType' /\ Reachable'
      /\ UsersKept \subseteq users'
      /\ \A u \in users' : account'[u].via = "wizard" => u \in users /\ account[u].via = "wizard"
  <2>1. SoundTables(UsersKept, account, LinksKept, created)
    BY <1>3, <1>4 DEF SoundTables, UsersType, Reachable
  <2>2. /\ SoundTables(users', account', LinksKept, created') /\ UsersKept \subseteq users'
        /\ \A u \in users' : account'[u].via = "wizard" =>
                               u \in UsersKept /\ account[u].via = "wizard"
    BY <1>2, <2>1, BootstrapIsSound
  <2>3. SoundTables(users', account', linked', created')
    BY <1>1, <1>2, <2>2
  <2>4. UsersType' /\ Reachable'
    BY <2>3 DEF SoundTables, UsersType, Reachable, HasAccess
  <2> QED
    BY <1>2, <1>4, <2>2, <2>4
<1>6. /\ SessionsType' /\ sessions' \subseteq sessions
      /\ \A s \in sessions' : session'[s] = session[s]
  <2>1. NoSession \in Session
    BY DEF NoSession, Session
  <2>2. /\ sessions' = sessions \ SessionsLost
        /\ session' = [s \in SessionId |-> IF s \in SessionsLost THEN NoSession ELSE session[s]]
    BY <1>1 DEF DeleteSessions
  <2>3. \A s \in sessions' : session[s].user \in UsersKept
    BY <1>3, <2>2 DEF SessionsLost, UsersKept, SessionsType
  <2>4. /\ session' \in [SessionId -> Session] /\ sessions' \subseteq SessionId
        /\ \A s \in sessions' : session'[s] = session[s]
    BY <1>3, <2>1, <2>2 DEF SessionsType
  <2> QED
    BY <1>5, <2>2, <2>3, <2>4 DEF SessionsType
<1>7. \A h \in Handlers : req'[h] = Idle
  BY <1>1
<1>8. TypeOK'
  <2>1. restarts' \in 0..MaxRestarts
    BY <1>1, TypeParts, Constants
  <2>2. req' \in [Handlers -> Request]
    BY <1>1, IdleIsSound
  <2>3. store' \in Stores /\ stale' \subseteq Handlers
    BY <1>1, TypeParts
  <2>4. OidcType'
    BY <1>1, <1>3 DEF OidcType
  <2> QED
    BY <1>5, <1>6, <2>1, <2>2, <2>3, <2>4 DEF TypeOK, UsersType, SessionsType, OidcType
<1>9. HandlersAgree'
  BY <1>7, IdleIsSound DEF HandlersAgree
<1>10. WizardsTakeTurns'
  <2>1. WizardMade' \subseteq WizardMade
    BY <1>5 DEF WizardMade
  <2> QED
    BY <1>7, <2>1, IdleIsSound DEF IInv, WizardsTakeTurns
<1>11. StatesFresh'
  BY <1>1 DEF IInv, StatesFresh
<1> QED
  BY <1>5, <1>8, <1>9, <1>10, <1>11 DEF IInv

-----------------------------------------------------------------------------
(* The theorems. *)

LEMMA HandleKeepsInv ==
    ASSUME IInv, NEW h \in Handlers, Handle(h)
    PROVE  IInv'
  BY SetupBeginKeepsInv, SetupSeedKeepsInv, LoginVerifiedKeepsInv, ChangeVerifiedKeepsInv,
     ChangeMailKeepsInv, ChangePasswordKeepsInv, RevokeKeepsInv, CallbackKeepsInv,
     UpsertReadsKeepInv, UpsertKeepsInv, IssueSessionKeepsInv, RequestFailsKeepsInv DEF Handle

LEMMA NextKeepsInv == IInv /\ [Next]_vars => IInv'
<1> SUFFICES ASSUME IInv, [Next]_vars PROVE IInv'
  OBVIOUS
<1>1. CASE UNCHANGED vars
  BY <1>1 DEF IInv, TypeOK, HandlersAgree, WizardsTakeTurns, WizardMade, Reachable, HasAccess,
              StatesFresh, vars, userVars, sessionVars, oidcVars, countVars
<1> QED
  BY <1>1, HandleKeepsInv, SessionEndsKeepsInv, StateStepsKeepInv, ApiRestartKeepsInv DEF Next

\* The inductive invariant of accounts and sessions: the account that a handler is about
\* to change or to link exists, wizards take turns, every account can be reached, and a
\* state that can be taken never was.
THEOREM AccountsInvariant == Spec => []IInv
  BY InitHolds, NextKeepsInv, PTL DEF Spec

\* OneWizardOwner for every instance: setupMu, the check for accounts and the seeding
\* between them leave one owner of the wizard, whatever else signs up meanwhile.
THEOREM AccountsHaveOneWizardOwner == Spec => []OneWizardOwner
<1>1. IInv => OneWizardOwner
  BY AtMostOne DEF IInv, WizardsTakeTurns, WizardMade, OneWizardOwner
<1> QED
  BY <1>1, AccountsInvariant, PTL

\* AccountsAreReachable for every instance: no race of sign-ups, links and changes of
\* address leaves an account nobody can sign in to, or one address with two accounts.
THEOREM AccountsStayReachable == Spec => []AccountsAreReachable
<1>1. ASSUME IInv PROVE AccountsAreReachable
  <2>1. ASSUME NEW mail \in Mails PROVE Cardinality(WithMail(mail)) <= 1
    <3>1. \A u, v \in WithMail(mail) : u = v
      BY <1>1 DEF IInv, Reachable, WithMail
    <3> QED
      BY <3>1, AtMostOne
  <2> QED
    BY <1>1, <2>1 DEF AccountsAreReachable, IInv, Reachable, HasAccess
<1> QED
  BY <1>1, AccountsInvariant, PTL

\* StateUsedOnce for every instance: no two callbacks complete one provider sign-in.
THEOREM AccountsUseStatesOnce == Spec => []StateUsedOnce
<1>1. IInv => StateUsedOnce
  BY DEF IInv, StatesFresh, StateUsedOnce
<1> QED
  BY <1>1, AccountsInvariant, PTL

\* An identity changes its account only where it has none, or where all is forgotten.
LinksStay == \A x \in Subjects : linked[x] \in users' => linked'[x] = linked[x]

LEMMA StepsKeepLinks == IInv /\ IInv' /\ [Next]_vars => LinksStay
<1> SUFFICES ASSUME IInv, IInv', [Next]_vars PROVE LinksStay
  OBVIOUS
<1>1. UsersType /\ UsersType' /\ NoUser \notin users'
  <2>1. users' \subseteq 1..created' /\ created' \in 0..MaxUsers
    BY DEF IInv, TypeOK
  <2>2. NoUser \notin users'
    BY <2>1, Constants DEF NoUser
  <2> QED
    BY <2>2, TypeParts DEF IInv, TypeOK, UsersType
<1>2. CASE UNCHANGED linked
  BY <1>2 DEF LinksStay
<1>3. CASE \E h \in Handlers : LinkIdentity(h) \/ CreateTenant(h) \/ UpsertInMemory(h)
  <2>1. PICK h \in Handlers : LinkIdentity(h) \/ CreateTenant(h) \/ UpsertInMemory(h)
    BY <1>3
  <2>2. \/ linked' = linked
        \/ \E u : linked' = LinkedTo(req[h].subject, u)
        \/ /\ linked[req[h].subject] = NoUser
           /\ linked' = [linked EXCEPT ![req[h].subject] = created + 1]
    BY <2>1 DEF LinkIdentity, CreateTenant, UpsertInMemory, IdentityIsFree, userVars
  <2> QED
    BY <1>1, <2>2 DEF UsersType, LinkedTo, LinksStay
<1>4. CASE ApiRestart
  <2>1. CASE store = "memory"
    <3>1. PICK b \in Bootstrapped({}, account, created) : users' = b.users
      BY <1>4, <2>1 DEF ApiRestart, UsersKept
    <3>2. \A u \in users' : u = created + 1
      <4>1. BootstrapMayMake({}, account, created, b.users, b.account, b.created)
        BY BootstrapCases
      <4> QED
        BY <3>1, <4>1 DEF BootstrapMayMake
    <3>3. \A x \in Subjects : linked[x] # created + 1
      BY <1>1, UserIds, Constants DEF UsersType, NoUser
    <3> QED
      BY <3>2, <3>3 DEF LinksStay
  <2>2. CASE store # "memory"
    BY <1>4, <2>2 DEF ApiRestart, LinksKept, LinksStay
  <2> QED
    BY <2>1, <2>2
<1>5. UNCHANGED vars => UNCHANGED linked
  BY DEF vars, userVars
<1>6. ASSUME NEW h \in Handlers, Handle(h)
      PROVE  UNCHANGED linked \/ LinkIdentity(h) \/ CreateTenant(h) \/ UpsertInMemory(h)
  BY <1>6 DEF Handle, SetupBegin, SetupSeed, LoginVerified, ChangeVerified, ChangeMail,
              ChangePassword, RevokeSessions, RevokeFails, Callback, FindIdentity, MatchMail,
              IssueSession, RequestFails, userVars
<1>7. ASSUME \/ \E s \in SessionId : SessionEnds(s)
             \/ \E x \in StateId : StateExpires(x)
             \/ DiscoverFails \/ SignInStart
      PROVE  UNCHANGED linked
  BY <1>7 DEF SessionEnds, StateExpires, DiscoverFails, SignInStart, userVars
<1> QED
  BY <1>2, <1>3, <1>4, <1>5, <1>6, <1>7 DEF Next

\* IdentityStays for every instance: whatever links and sign-ups race for it, an
\* identity leads to the account it first led to for as long as that account exists.
THEOREM AccountsIdentityStays == Spec => IdentityStays
<1>1. IInv /\ IInv' /\ [Next]_vars
        => [\A x \in Subjects : linked[x] \in users' => linked'[x] = linked[x]]_vars
  BY StepsKeepLinks DEF LinksStay
<1> QED
  BY <1>1, AccountsInvariant, PTL DEF Spec, IdentityStays
=============================================================================
