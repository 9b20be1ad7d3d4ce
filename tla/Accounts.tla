------------------------------ MODULE Accounts ------------------------------
(***************************************************************************)
(* Accounts and web sessions of the control plane: the first-boot wizard   *)
(* (httpx/handlers_setup.go) and the owner seeded from the environment     *)
(* (bootstrapOwner), password login and logout (handlers_auth.go), the     *)
(* change of e-mail and password (handlers_account.go), and sign-in with   *)
(* an identity provider (handlers_oidc.go, package oidc), on the users,    *)
(* identities and sessions of either store.                                *)
(*                                                                         *)
(* A handler is a sequence of store calls; between two of them every other *)
(* handler runs.  Each call may fail, and then the handler answers with an *)
(* error.  Logins that are refused change nothing and are left out, and so *)
(* is the content of passwords: an account has one or it has none.  Each   *)
(* account is the owner of an organisation of its own, so organisation and *)
(* role say nothing more.                                                  *)
(***************************************************************************)
EXTENDS Naturals, FiniteSets, FiniteSetsExt

CONSTANTS Handlers,      \* requests that are handled at the same time
          Mails,         \* e-mail addresses
          NoMail,        \* "": an identity without an address
          Subjects,      \* identities at the provider
          NoSubject,     \* the request is not a sign-in with a provider
          MailOf,        \* the address the provider reports for each identity
          AdminMail,     \* ADMIN_EMAIL, or NoMail
          Stores,        \* the stores that may back the API: "memory", "postgres"
          MaxUsers,      \* bound: how many accounts are ever created
          MaxSessions,   \* bound: how many sessions there are at a time
          MaxStates,     \* bound: how many provider sign-ins are started
          MaxRestarts    \* bound: restarts of the API

ASSUME AccountsAssumption ==
    /\ NoMail \notin Mails /\ NoSubject \notin Subjects
    /\ MailOf \in [Subjects -> Mails \cup {NoMail}]
    /\ AdminMail \in Mails \cup {NoMail}
    /\ Stores # {} /\ Stores \subseteq {"memory", "postgres"}
    /\ {MaxUsers, MaxSessions, MaxStates, MaxRestarts} \subseteq Nat

\* Ids are random.  The n-th user or state has the id n; a session that is deleted
\* leaves no trace, so its id may be used again.
UserId == 1..MaxUsers
SessionId == 1..MaxSessions
StateId == 1..MaxStates
NoUser == 0

VARIABLES
    store,      \* the store the API was built and configured with
    users,      \* users: the ids that have a row
    account,    \* users: address, password and origin of each row
    linked,     \* oidc_identities: the user of each identity, or NoUser
    sessions,   \* sessions: the rows that have not expired
    session,    \* sessions: the user; and history: does it go by an older password
    stale,      \* history: handlers that go by an older password
    states,     \* stateStore.m: the provider sign-ins of the last ten minutes
    discovered, \* provider.once: is the discovery document known
    req,        \* the handlers, and where each one is
    uses,       \* history: how often each state was taken
    created, begun, restarts   \* ids handed out, and bound bookkeeping

userVars == <<users, account, linked>>
sessionVars == <<sessions, session, stale>>
oidcVars == <<states, discovered, uses>>
countVars == <<created, begun, restarts>>
vars == <<store, userVars, sessionVars, oidcVars, req, countVars>>

Account == [mail : Mails \cup {NoMail}, pw : BOOLEAN,
            via : {"none", "environment", "wizard", "provider"}]
Session == [user : UserId \cup {NoUser}, old : BOOLEAN]
Op == {"none", "setup", "login", "mail", "password", "provider"}
Stage == {"idle", "seed", "mail", "password", "revoke", "find", "match",
          "link", "create", "issue"}
Request == [op : Op, stage : Stage, user : UserId \cup {NoUser},
            mail : Mails \cup {NoMail}, subject : Subjects \cup {NoSubject}]

Idle == [op |-> "none", stage |-> "idle", user |-> NoUser, mail |-> NoMail,
         subject |-> NoSubject]

TypeOK ==
    /\ store \in Stores
    /\ users \subseteq 1..created /\ account \in [UserId -> Account]
    /\ linked \in [Subjects -> users \cup {NoUser}]
    /\ sessions \subseteq SessionId /\ session \in [SessionId -> Session]
    /\ \A s \in sessions : session[s].user \in users
    /\ stale \subseteq Handlers
    /\ states \subseteq 1..begun
    /\ discovered \in {"not_asked", "yes", "failed"}
    /\ req \in [Handlers -> Request]
    /\ uses \in [StateId -> Nat]
    /\ created \in 0..MaxUsers /\ begun \in 0..MaxStates /\ restarts \in 0..MaxRestarts

-----------------------------------------------------------------------------
(* The tables. *)

\* The accounts an address belongs to (usersByMail, users.email).
WithMail(mail) == {u \in users : mail # NoMail /\ account[u].mail = mail}

\* A new row under a fresh id.
NewAccount(mail, pw, via) ==
    /\ created < MaxUsers
    /\ created' = created + 1
    /\ users' = users \cup {created + 1}
    /\ account' = [account EXCEPT ![created + 1] = [mail |-> mail, pw |-> pw, via |-> via]]

NoSession == [user |-> NoUser, old |-> FALSE]

\* DELETE FROM sessions.
DeleteSessions(gone) ==
    /\ sessions' = sessions \ gone
    /\ session' = [s \in SessionId |-> IF s \in gone THEN NoSession ELSE session[s]]

\* Authenticate: GetSession and GetUser find the session of the request's cookie.
Authenticated(s) == s \in sessions /\ session[s].user \in users

Begin(h, r) == req[h] = Idle /\ req' = [req EXCEPT ![h] = r]
GoOn(h, stage, u) == req' = [req EXCEPT ![h].stage = stage, ![h].user = u]
Return(h) == req' = [req EXCEPT ![h] = Idle]

-----------------------------------------------------------------------------
(* First-boot setup. *)

\* Mutant of SetupBegin: two wizards at a time.
SetupBeginUnlocked(h, mail) ==
    /\ users = {}
    /\ Begin(h, [Idle EXCEPT !.op = "setup", !.stage = "seed", !.mail = mail])
    /\ UNCHANGED <<store, userVars, sessionVars, oidcVars, countVars>>

\* handleSetupComplete takes setupMu, which it holds to its end, and needsSetup
\* finds no account.
SetupBegin(h, mail) ==
    /\ \A g \in Handlers : req[g].op # "setup"
    /\ users = {}
    /\ Begin(h, [Idle EXCEPT !.op = "setup", !.stage = "seed", !.mail = mail])
    /\ UNCHANGED <<store, userVars, sessionVars, oidcVars, countVars>>

\* SeedOrgOwner, which refuses an address that is taken (see RequestFails).
SetupSeed(h) ==
    /\ req[h].stage = "seed"
    /\ WithMail(req[h].mail) = {}
    /\ NewAccount(req[h].mail, TRUE, "wizard")
    /\ GoOn(h, "issue", created + 1)
    /\ UNCHANGED <<store, linked, sessionVars, oidcVars, begun, restarts>>

-----------------------------------------------------------------------------
(* Passwords. *)

\* handleLogin: the row is read and the password matches it.
LoginVerified(h, u) ==
    /\ u \in users /\ account[u].mail # NoMail /\ account[u].pw
    /\ Begin(h, [Idle EXCEPT !.op = "login", !.stage = "issue", !.user = u])
    /\ UNCHANGED <<store, userVars, sessionVars, oidcVars, countVars>>

\* issueSession: CreateSession, and the handler is done.
IssueSession(h) ==
    /\ req[h].stage = "issue"
    /\ req[h].user \in users
    /\ sessions # SessionId
    /\ LET s == Min(SessionId \ sessions)
       IN  /\ sessions' = sessions \cup {s}
           /\ session' = [session EXCEPT ![s] = [user |-> req[h].user, old |-> h \in stale]]
    /\ stale' = stale \ {h}
    /\ Return(h)
    /\ UNCHANGED <<store, userVars, oidcVars, created, begun, restarts>>

\* handleLogout, or the session expires: GetSession finds it no more.
SessionEnds(s) ==
    /\ s \in sessions
    /\ DeleteSessions({s})
    /\ UNCHANGED <<store, stale, userVars, oidcVars, req, countVars>>

\* handleChangeEmail and handleChangePassword: the session is good, and
\* verifyCurrentPassword finds a password that matches.
ChangeVerified(h, s, op, mail) ==
    /\ Authenticated(s)
    /\ account[session[s].user].pw
    /\ Begin(h, [Idle EXCEPT !.op = op, !.stage = op, !.user = session[s].user, !.mail = mail])
    /\ UNCHANGED <<store, userVars, sessionVars, oidcVars, countVars>>

\* UpdateUserEmail.
ChangeMail(h) ==
    /\ req[h].stage = "mail" /\ req[h].user \in users
    /\ WithMail(req[h].mail) \subseteq {req[h].user}
    /\ account' = [account EXCEPT ![req[h].user].mail = req[h].mail]
    /\ Return(h)
    /\ UNCHANGED <<store, users, linked, sessionVars, oidcVars, countVars>>

\* The handlers that have yet to issue a session for the password of u.
IssuesFor(u) == {h \in Handlers : /\ req[h].user = u /\ req[h].op # "provider"
                                  /\ req[h].stage \in {"revoke", "issue"}}

\* UpdateUserPassword: what was verified with another password counts as old.
ChangePassword(h) ==
    /\ req[h].stage = "password" /\ req[h].user \in users
    /\ session' = [s \in SessionId |-> IF session[s].user = req[h].user
                                       THEN [session[s] EXCEPT !.old = TRUE] ELSE session[s]]
    /\ stale' = stale \cup IssuesFor(req[h].user)
    /\ GoOn(h, "revoke", req[h].user)
    /\ UNCHANGED <<store, userVars, sessions, oidcVars, countVars>>

\* DeleteSessionsForUser.
RevokeSessions(h) ==
    /\ req[h].stage = "revoke"
    /\ DeleteSessions({s \in sessions : session[s].user = req[h].user})
    /\ GoOn(h, "issue", req[h].user)
    /\ UNCHANGED <<store, stale, userVars, oidcVars, countVars>>

\* DeleteSessionsForUser fails, which it does in Postgres only: that is logged, and
\* the handler goes on.
RevokeFails(h) ==
    /\ store = "postgres" /\ req[h].stage = "revoke"
    /\ GoOn(h, "issue", req[h].user)
    /\ UNCHANGED <<store, userVars, sessionVars, oidcVars, countVars>>

-----------------------------------------------------------------------------
(* Sign-in with a provider. *)

\* discover asks once, and a failure stays: oidc.Start fails until a restart.
DiscoverFails ==
    /\ discovered = "not_asked"
    /\ discovered' = "failed"
    /\ UNCHANGED <<store, userVars, sessionVars, states, uses, req, countVars>>

\* oidc.Start: a fresh state.
SignInStart ==
    /\ discovered # "failed"
    /\ discovered' = "yes"
    /\ begun < MaxStates
    /\ begun' = begun + 1
    /\ states' = states \cup {begun + 1}
    /\ UNCHANGED <<store, userVars, sessionVars, uses, req, created, restarts>>

\* Ten minutes pass: take refuses the state, and put or take removes it.
StateExpires(x) ==
    /\ x \in states
    /\ states' = states \ {x}
    /\ UNCHANGED <<store, userVars, sessionVars, discovered, uses, req, countVars>>

\* Mutant of TakeState: the state is looked up and kept.
TakeStateKept(x) ==
    /\ uses' = [uses EXCEPT ![x] = @ + 1]
    /\ UNCHANGED states

\* stateStore.take: one step under the lock.
TakeState(x) ==
    /\ states' = states \ {x}
    /\ uses' = [uses EXCEPT ![x] = @ + 1]

\* handleOIDCCallback: the state is taken, and the provider exchanges the code for
\* whichever identity signed in, or refuses it (see RequestFails).
Callback(h, x, subject) ==
    /\ x \in states
    /\ TakeState(x)
    /\ Begin(h, [Idle EXCEPT !.op = "provider", !.stage = "find", !.subject = subject,
                             !.mail = MailOf[subject]])
    /\ UNCHANGED <<store, userVars, sessionVars, discovered, countVars>>

\* UpsertOIDCUser, on Postgres a statement at a time.  A query that fails counts as
\* one that found nothing.  The identity is known ...
FindIdentity(h) ==
    /\ req[h].stage = "find" /\ store = "postgres"
    /\ \/ linked[req[h].subject] # NoUser /\ GoOn(h, "issue", linked[req[h].subject])
       \/ GoOn(h, IF req[h].mail = NoMail THEN "create" ELSE "match", NoUser)
    /\ UNCHANGED <<store, userVars, sessionVars, oidcVars, countVars>>

\* ... or its address is ...
MatchMail(h) ==
    /\ req[h].stage = "match"
    /\ \/ \E u \in WithMail(req[h].mail) : GoOn(h, "link", u)
       \/ GoOn(h, "create", NoUser)
    /\ UNCHANGED <<store, userVars, sessionVars, oidcVars, countVars>>

\* Mutant of LinkedTo: the last one wins.
LinkedToAnew(subject, u) == [linked EXCEPT ![subject] = u]

\* ON CONFLICT DO NOTHING: an identity that has an account keeps it.
LinkedTo(subject, u) == [linked EXCEPT ![subject] = IF @ = NoUser THEN u ELSE @]

\* ... then it is linked, which may fail unnoticed, and the account of the address
\* is signed in ...
LinkIdentity(h) ==
    /\ req[h].stage = "link"
    /\ linked' \in {LinkedTo(req[h].subject, req[h].user), linked}
    /\ GoOn(h, "issue", req[h].user)
    /\ UNCHANGED <<store, users, account, sessionVars, oidcVars, countVars>>

\* Mutant of IdentityIsFree: a second account for an identity.
IdentityIsFreeAlways(subject) == TRUE

\* The primary key of oidc_identities.
IdentityIsFree(subject) == linked[subject] = NoUser

\* ... or an account is created with it, in one transaction, unless its address
\* or the identity has got one meanwhile.
CreateTenant(h) ==
    /\ req[h].stage = "create"
    /\ WithMail(req[h].mail) = {} /\ IdentityIsFree(req[h].subject)
    /\ NewAccount(req[h].mail, FALSE, "provider")
    /\ linked' = [linked EXCEPT ![req[h].subject] = created + 1]
    /\ GoOn(h, "issue", created + 1)
    /\ UNCHANGED <<store, sessionVars, oidcVars, begun, restarts>>

\* UpsertOIDCUser of the memory store: all of it under m.mu.
UpsertInMemory(h) ==
    /\ req[h].stage = "find" /\ store = "memory"
    /\ LET known == linked[req[h].subject]
       IN  \/ /\ known # NoUser
              /\ GoOn(h, "issue", known)
              /\ UNCHANGED <<userVars, created>>
           \/ /\ known = NoUser
              /\ \E u \in WithMail(req[h].mail) :
                    /\ linked' = LinkedTo(req[h].subject, u)
                    /\ GoOn(h, "issue", u)
              /\ UNCHANGED <<users, account, created>>
           \/ /\ known = NoUser /\ WithMail(req[h].mail) = {}
              /\ NewAccount(req[h].mail, FALSE, "provider")
              /\ linked' = [linked EXCEPT ![req[h].subject] = created + 1]
              /\ GoOn(h, "issue", created + 1)
    /\ UNCHANGED <<store, sessionVars, oidcVars, begun, restarts>>

-----------------------------------------------------------------------------
(* Failures and restarts. *)

\* A call fails, an address or an identity is taken, or the provider refuses the
\* code: the handler answers with an error and has done no more than it did.
RequestFails(h) ==
    /\ req[h] # Idle /\ req[h].stage # "revoke"
    /\ Return(h)
    /\ stale' = stale \ {h}
    /\ UNCHANGED <<store, userVars, sessions, session, oidcVars, countVars>>

\* What bootstrapOwner may make of the accounts that are there: the owner of the
\* environment is seeded, unless its address has an account, or the password is
\* refused, or a call fails.
Bootstrapped(present, accounts, n) ==
    {[users |-> present, account |-> accounts, created |-> n]} \cup
    {[users |-> present \cup {k}, created |-> k,
      account |-> [accounts EXCEPT ![k] =
                      [mail |-> AdminMail, pw |-> TRUE, via |-> "environment"]]] :
        k \in {k \in {n + 1} \cap UserId :
                  /\ AdminMail # NoMail
                  /\ \A u \in present : accounts[u].mail # AdminMail}}

\* Postgres keeps its tables over a restart of the API, the memory store nothing.
SessionsLost == IF store = "memory" THEN sessions ELSE {}
LinksKept == IF store = "memory" THEN [x \in Subjects |-> NoUser] ELSE linked
UsersKept == IF store = "memory" THEN {} ELSE users

ApiRestart ==
    /\ restarts < MaxRestarts /\ restarts' = restarts + 1
    /\ req' = [h \in Handlers |-> Idle]
    /\ states' = {} /\ discovered' = "not_asked"
    /\ \E b \in Bootstrapped(UsersKept, account, created) :
          users' = b.users /\ account' = b.account /\ created' = b.created
    /\ linked' = LinksKept
    /\ DeleteSessions(SessionsLost) /\ stale' = {}
    /\ UNCHANGED <<store, uses, begun>>

-----------------------------------------------------------------------------
Init ==
    /\ store \in Stores
    /\ \E b \in Bootstrapped({}, [u \in UserId |-> [mail |-> NoMail, pw |-> FALSE,
                                                   via |-> "none"]], 0) :
          users = b.users /\ account = b.account /\ created = b.created
    /\ linked = [x \in Subjects |-> NoUser]
    /\ sessions = {}
    /\ session = [s \in SessionId |-> NoSession] /\ stale = {}
    /\ states = {} /\ discovered = "not_asked"
    /\ req = [h \in Handlers |-> Idle]
    /\ uses = [x \in StateId |-> 0]
    /\ begun = 0 /\ restarts = 0

Handle(h) ==
    \/ \E mail \in Mails : SetupBegin(h, mail)
    \/ SetupSeed(h)
    \/ \E u \in UserId : LoginVerified(h, u)
    \/ \E s \in SessionId : ChangeVerified(h, s, "password", NoMail)
    \/ \E s \in SessionId, mail \in Mails : ChangeVerified(h, s, "mail", mail)
    \/ ChangeMail(h) \/ ChangePassword(h) \/ RevokeSessions(h) \/ RevokeFails(h)
    \/ \E x \in StateId, subject \in Subjects : Callback(h, x, subject)
    \/ FindIdentity(h) \/ MatchMail(h) \/ LinkIdentity(h)
    \/ CreateTenant(h) \/ UpsertInMemory(h)
    \/ IssueSession(h) \/ RequestFails(h)

Next ==
    \/ \E h \in Handlers : Handle(h)
    \/ \E s \in SessionId : SessionEnds(s)
    \/ \E x \in StateId : StateExpires(x)
    \/ DiscoverFails \/ SignInStart
    \/ ApiRestart

Spec == Init /\ [][Next]_vars

-----------------------------------------------------------------------------
(* Properties. *)

\* The wizard provisions one owner at most, however many of them run at once
\* ("two concurrent wizards cannot both pass the \"no accounts yet\" check",
\* handlers_setup.go).
OneWizardOwner == Cardinality({u \in users : account[u].via = "wizard"}) <= 1

\* Credentials and accounts fit together: nobody is locked out by a race (each
\* account has an address and a password, or an identity that leads to it), and
\* no address leads to two accounts.
AccountsAreReachable ==
    /\ \A u \in users : \/ account[u].mail # NoMail /\ account[u].pw
                        \/ \E x \in Subjects : linked[x] = u
    /\ \A mail \in Mails : Cardinality(WithMail(mail)) <= 1

\* What docs/API.md says of a password change ("revokes every session the user holds")
\* and handlers_account.go of a session from before it ("stops working immediately"):
\* once the change is through, no session that goes by an older password is left.
OldSessionsEnd ==
    \A s \in sessions : session[s].old =>
        \E h \in Handlers : req[h].stage = "revoke" /\ req[h].user = session[s].user

\* A provider sign-in that was started is completed at most once, by however
\* many callbacks.
StateUsedOnce == \A x \in StateId : uses[x] <= 1

\* An identity that leads to an account leads to it as long as it exists.
IdentityStays ==
    [][\A x \in Subjects : linked[x] \in users' => linked'[x] = linked[x]]_vars
=============================================================================
