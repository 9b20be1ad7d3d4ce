-------------------------- MODULE AgentCredential ---------------------------
(***************************************************************************)
(* How an agent gets, loses and repairs the credential it reports with.    *)
(*                                                                         *)
(* Agent side: type enrollment of agent/cmd/pulse-agent/main.go (attempt,  *)
(* enroll, recover, adopt, send), the start-up loop and the ticker that    *)
(* drive it, and identity.json (config.SaveIdentity).  Control-plane side: *)
(* handleEnroll, handleReenroll, the credential check of handleIngest,     *)
(* handleCreateEnrollment and handleRevokeAgent, on the agents, servers    *)
(* and enrollment_tokens of either store, and a restart of the API.        *)
(*                                                                         *)
(* A host is its keypair: identity.json is written once with a fresh key,  *)
(* and the installer keeps the file.  Requests and answers may be lost,    *)
(* and a handler may still be running when its agent has stopped waiting.  *)
(* The agent is one goroutine, so it waits for one request at a time.      *)
(***************************************************************************)
EXTENDS Naturals

CONSTANTS Hosts,         \* the monitored machines, one agent and one key each
          Tokens,        \* enrollment tokens
          NoToken,       \* "": no token configured
          Stores,        \* the stores that may back the API: "memory", "postgres"
          BootToken,     \* PULSE_BOOTSTRAP_ENROLLMENT_TOKEN, or NoToken
          InstallToken,  \* the token each host was first installed with
          StartupTries,  \* attempts of the start-up loop (5 in main.go)
          MaxAgents,     \* bound: how many agent rows are ever created
          MaxFaults,     \* bound: lost messages, refused signatures, failed writes
          MaxRestarts,   \* bound: restarts of the API of agents
          MaxOperator    \* bound: revocations and reinstallations

ASSUME CredentialAssumption ==
    /\ Hosts # {} /\ NoToken \notin Tokens
    /\ Stores # {} /\ Stores \subseteq {"memory", "postgres"}
    /\ BootToken \in Tokens \cup {NoToken}
    /\ InstallToken \in [Hosts -> Tokens \cup {NoToken}]
    /\ {StartupTries, MaxAgents, MaxFaults, MaxRestarts, MaxOperator} \subseteq Nat

\* Agent ids are random and never reused: the n-th row ever created has id n.
\* Zero stands for the id the agent invents for itself before it enrolls,
\* which no control plane knows.
AgentId == 1..MaxAgents
Unregistered == 0

Identity == [enrolled : BOOLEAN, agent : AgentId \cup {Unregistered}]

VARIABLES
    (* the control plane *)
    store,     \* the store it was built and configured with
    tokens,    \* enrollment_tokens: is each one absent, valid, used or expired
    known,     \* agents: the ids that have a row
    revoked,   \* agents: the rows with revoked_at set
    owner,     \* agents: the key (host) each row was created for
    boughtBy,  \* history: the token each row was created with
    servers,   \* servers: the rows, by the agent id they were created with
    issued,    \* how many ids NewID has handed out
    reqs,      \* requests under way, and answers not read yet
    (* the agents *)
    token,     \* cfg.EnrollmentToken of each host
    mem,       \* cfg.Identity in memory
    disk,      \* identity.json
    rejected,  \* enrollment.rejected
    due,       \* enrollment.due(): is the next attempt allowed by now
    phase,     \* where the agent's only goroutine is
    cont,      \* what it does after the attempt under way
    tries,     \* start-up attempts left
    (* bound bookkeeping *)
    faults, restarts, operator

planeVars == <<store, tokens, known, revoked, owner, boughtBy, servers, issued>>
agentVars == <<token, mem, disk, rejected, due, phase, cont, tries>>
boundVars == <<faults, restarts, operator>>
vars == <<planeVars, reqs, agentVars, boundVars>>

TokenState == {"absent", "valid", "used", "expired"}
Kind == {"enroll", "reenroll", "ingest"}
Stage == {"arrived", "consume", "register", "answered"}
Answer == {"none", "ok", "refused", "revoked", "unsupported", "error"}
Phase == {"down", "startup", "idle", "attempting", "sending", "resending"}

Request == [host : Hosts, kind : Kind, tok : Tokens \cup {NoToken},
            agent : AgentId \cup {Unregistered}, stage : Stage,
            answer : Answer, waited : BOOLEAN]

TypeOK ==
    /\ store \in Stores
    /\ tokens \in [Tokens -> TokenState]
    /\ known \subseteq AgentId /\ revoked \subseteq known /\ servers \subseteq AgentId
    /\ owner \in [AgentId -> Hosts]
    /\ boughtBy \in [AgentId -> Tokens \cup {NoToken}]
    /\ issued \in 0..MaxAgents
    /\ reqs \subseteq Request
    /\ token \in [Hosts -> Tokens \cup {NoToken}]
    /\ mem \in [Hosts -> Identity] /\ disk \in [Hosts -> Identity]
    /\ rejected \in [Hosts -> BOOLEAN] /\ due \in [Hosts -> BOOLEAN]
    /\ phase \in [Hosts -> Phase]
    /\ cont \in [Hosts -> {"startup", "idle", "resend"}]
    /\ tries \in [Hosts -> 0..StartupTries]
    /\ faults \in 0..MaxFaults /\ restarts \in 0..MaxRestarts
    /\ operator \in 0..MaxOperator

-----------------------------------------------------------------------------
(* Shared definitions. *)

Rows(h) == {a \in known : owner[a] = h}
Live(h) == Rows(h) \ revoked

\* enrollment.ready: a belief, not a proof.
Ready(h) == mem[h].enrolled /\ ~rejected[h]

Running(h) == phase[h] # "down"

\* GetAgentByPublicKey: the rows it may return for a key.  The memory store
\* returns whichever row a map iteration meets first; Postgres orders live
\* rows first, and the newest of them.
LookupByKey(h) ==
    IF store = "memory" THEN Rows(h)
    ELSE IF Live(h) # {} THEN {a \in Live(h) : \A b \in Live(h) : b <= a}
    ELSE Rows(h)

NewRequest(h, kind) ==
    [host |-> h, kind |-> kind,
     tok |-> IF kind = "ingest" THEN NoToken ELSE token[h],
     agent |-> mem[h].agent, stage |-> "arrived", answer |-> "none", waited |-> TRUE]

Fault == faults < MaxFaults /\ faults' = faults + 1

-----------------------------------------------------------------------------
(* The control plane: the steps of a handler on request r. *)

\* The handler writes its answer.
AnswerTo(r, answer, agent) ==
    reqs' = (reqs \ {r}) \cup
            {[r EXCEPT !.stage = "answered", !.answer = answer, !.agent = agent]}

\* The handler moves on to its next store call.
MoveTo(r, stage) == reqs' = (reqs \ {r}) \cup {[r EXCEPT !.stage = stage]}

\* Mutant of ConsumeToken: the token is looked up but not marked used.
ConsumeTokenReadOnly(r) ==
    /\ \/ r.tok # NoToken /\ tokens[r.tok] = "valid" /\ MoveTo(r, "register")
       \/ ~(r.tok # NoToken /\ tokens[r.tok] = "valid") /\ AnswerTo(r, "refused", r.agent)
    /\ UNCHANGED tokens

\* ConsumeEnrollmentToken: one atomic test-and-set of used_at.
ConsumeToken(r) ==
    \/ /\ r.tok # NoToken /\ tokens[r.tok] = "valid"
       /\ tokens' = [tokens EXCEPT ![r.tok] = "used"]
       /\ MoveTo(r, "register")
    \/ /\ ~(r.tok # NoToken /\ tokens[r.tok] = "valid")
       /\ AnswerTo(r, "refused", r.agent)
       /\ UNCHANGED tokens

\* handleEnroll: the token alone decides; whether the key is known is not asked.
HandleEnroll(r) ==
    /\ r.kind = "enroll" /\ r.stage = "arrived"
    /\ ConsumeToken(r)
    /\ UNCHANGED <<store, known, revoked, owner, boughtBy, servers, issued, agentVars, boundVars>>

\* handleReenroll, up to the token: the key is known and live, known and
\* revoked, or unknown.
HandleReenroll(r) ==
    /\ r.kind = "reenroll" /\ r.stage = "arrived"
    /\ \/ \E a \in LookupByKey(r.host) :
             \/ a \in revoked /\ AnswerTo(r, "revoked", r.agent) /\ UNCHANGED servers
             \/ a \notin revoked /\ AnswerTo(r, "ok", a) /\ servers' = servers \cup {a}
       \/ /\ Rows(r.host) = {}
          /\ IF r.tok = NoToken THEN AnswerTo(r, "refused", r.agent) ELSE MoveTo(r, "consume")
          /\ UNCHANGED servers
    /\ UNCHANGED <<store, tokens, known, revoked, owner, boughtBy, issued, agentVars, boundVars>>

\* handleReenroll for an unknown key that brought a token.
HandleReenrollToken(r) ==
    /\ r.kind = "reenroll" /\ r.stage = "consume"
    /\ ConsumeToken(r)
    /\ UNCHANGED <<store, known, revoked, owner, boughtBy, servers, issued, agentVars, boundVars>>

\* GetAgentByPublicKey cannot be asked: handleReenroll takes the key for an
\* unknown one, also that of a live or a revoked agent.
LookupFails(r) ==
    /\ r.kind = "reenroll" /\ r.stage = "arrived" /\ store = "postgres"
    /\ Fault
    /\ IF r.tok = NoToken THEN AnswerTo(r, "refused", r.agent) ELSE MoveTo(r, "consume")
    /\ UNCHANGED <<planeVars, agentVars, restarts, operator>>

\* ConsumeEnrollmentToken returns an error of the database, before the update or
\* after it: a valid token is refused, and may be spent.
ConsumeFails(r) ==
    /\ <<r.kind, r.stage>> \in {<<"enroll", "arrived">>, <<"reenroll", "consume">>}
    /\ store = "postgres" /\ r.tok # NoToken /\ tokens[r.tok] = "valid"
    /\ Fault
    /\ tokens' \in {tokens, [tokens EXCEPT ![r.tok] = "used"]}
    /\ AnswerTo(r, "refused", r.agent)
    /\ UNCHANGED <<store, known, revoked, owner, boughtBy, servers, issued, agentVars, restarts, operator>>

\* registerAgent: UpsertServer, then CreateAgent, under a fresh id.
RegisterAgent(r) ==
    /\ r.stage = "register"
    /\ issued < MaxAgents
    /\ LET a == issued + 1
       IN  /\ issued' = a
           /\ known' = known \cup {a}
           /\ owner' = [owner EXCEPT ![a] = r.host]
           /\ boughtBy' = [boughtBy EXCEPT ![a] = r.tok]
           /\ servers' = servers \cup {a}
           /\ AnswerTo(r, "ok", a)
    /\ UNCHANGED <<store, tokens, revoked, agentVars, boundVars>>

\* registerAgent returns an error: the token is spent, and the server row may
\* or may not have been written.
RegisterFails(r) ==
    /\ r.stage = "register"
    /\ issued < MaxAgents
    /\ Fault
    /\ issued' = issued + 1
    /\ servers' \in {servers, servers \cup {issued + 1}}
    /\ AnswerTo(r, "error", r.agent)
    /\ UNCHANGED <<store, tokens, known, revoked, owner, boughtBy, agentVars, restarts, operator>>

\* handleIngest: the id must have a live row and the signature must match the
\* key on record; then the message is stored and EnsureServer refreshes the row.
HandleIngest(r) ==
    /\ r.kind = "ingest" /\ r.stage = "arrived"
    /\ \/ /\ r.agent \in known \ revoked /\ owner[r.agent] = r.host
          /\ AnswerTo(r, "ok", r.agent)
          /\ servers' = servers \cup {r.agent}
       \/ /\ ~(r.agent \in known \ revoked /\ owner[r.agent] = r.host)
          /\ AnswerTo(r, "refused", r.agent)
          /\ UNCHANGED servers
    /\ UNCHANGED <<store, tokens, known, revoked, owner, boughtBy, issued, agentVars, boundVars>>

\* verifySignedRequest fails although the key is right: the clocks are more
\* than 60 s apart; or handleIngest could not ask the store for the agent, which
\* answers like an unknown one.
SignatureRefused(r) ==
    /\ r.kind \in {"ingest", "reenroll"} /\ r.stage = "arrived"
    /\ Fault
    /\ AnswerTo(r, "refused", r.agent)
    /\ UNCHANGED <<planeVars, agentVars, restarts, operator>>

\* A control plane without the route answers a reenroll with 404.
ReenrollNotFound(r) ==
    /\ r.kind = "reenroll" /\ r.stage = "arrived"
    /\ Fault
    /\ AnswerTo(r, "unsupported", r.agent)
    /\ UNCHANGED <<planeVars, agentVars, restarts, operator>>

Handler(r) ==
    \/ HandleEnroll(r) \/ HandleReenroll(r) \/ HandleReenrollToken(r)
    \/ RegisterAgent(r) \/ HandleIngest(r)

\* The API is restarted.  Requests in its handlers end without an answer.  The
\* memory store comes back empty and bootstrapEnrollment seeds its token anew;
\* in Postgres everything is still there, and seeding a token it already has
\* fails on its unique hash.
ApiRestart ==
    /\ restarts < MaxRestarts
    /\ restarts' = restarts + 1
    /\ reqs' = {[r EXCEPT !.stage = "answered", !.answer = "error"] :
                   r \in {r \in reqs : r.waited /\ r.stage # "answered"}}
               \cup {r \in reqs : r.stage = "answered"}
    /\ IF store = "memory"
       THEN /\ known' = {} /\ revoked' = {} /\ servers' = {}
            /\ tokens' = [t \in Tokens |-> IF t = BootToken THEN "valid" ELSE "absent"]
       ELSE /\ tokens' = [t \in Tokens |-> IF t = BootToken /\ tokens[t] = "absent"
                                           THEN "valid" ELSE tokens[t]]
            /\ UNCHANGED <<known, revoked, servers>>
    /\ UNCHANGED <<store, owner, boughtBy, issued, agentVars, faults, operator>>

\* handleCreateEnrollment: the operator generates a tracking key.
CreateEnrollment(t) ==
    /\ tokens[t] = "absent" /\ t # BootToken
    /\ tokens' = [tokens EXCEPT ![t] = "valid"]
    /\ UNCHANGED <<store, known, revoked, owner, boughtBy, servers, issued, reqs, agentVars, boundVars>>

TokenExpires(t) ==
    /\ tokens[t] = "valid"
    /\ tokens' = [tokens EXCEPT ![t] = "expired"]
    /\ UNCHANGED <<store, known, revoked, owner, boughtBy, servers, issued, reqs, agentVars, boundVars>>

\* handleRevokeAgent.
RevokeAgent(a) ==
    /\ operator < MaxOperator /\ operator' = operator + 1
    /\ a \in known
    /\ revoked' = revoked \cup {a}
    /\ UNCHANGED <<store, tokens, known, owner, boughtBy, servers, issued, reqs, agentVars,
                   faults, restarts>>

-----------------------------------------------------------------------------
(* The agent. *)

\* Mutant of BeginAttempt: there is only the token to enroll with.
BeginAttemptTokenOnly(h, then, pending) ==
    /\ due' = [due EXCEPT ![h] = FALSE]
    /\ IF token[h] # NoToken
       THEN /\ phase' = [phase EXCEPT ![h] = "attempting"]
            /\ cont' = [cont EXCEPT ![h] = then]
            /\ reqs' = pending \cup {NewRequest(h, "enroll")}
       ELSE /\ phase' = [phase EXCEPT ![h] = IF then = "startup" THEN "startup" ELSE "idle"]
            /\ reqs' = pending
            /\ UNCHANGED cont

\* e.attempt, up to the request: an agent that was enrolled before re-binds
\* with its key, one that never was enrolls with its token, and without a
\* token there is nothing to try.
BeginAttempt(h, then, pending) ==
    /\ due' = [due EXCEPT ![h] = FALSE]
    /\ IF mem[h].enrolled \/ token[h] # NoToken
       THEN /\ phase' = [phase EXCEPT ![h] = "attempting"]
            /\ cont' = [cont EXCEPT ![h] = then]
            /\ reqs' = pending \cup
                  {NewRequest(h, IF mem[h].enrolled THEN "reenroll" ELSE "enroll")}
       ELSE /\ phase' = [phase EXCEPT ![h] = IF then = "startup" THEN "startup" ELSE "idle"]
            /\ reqs' = pending
            /\ UNCHANGED cont

\* The start-up loop of main: up to StartupTries attempts before the first
\* send, only for an agent that has a token and no credential.
StartupAttempt(h) ==
    /\ phase[h] = "startup"
    /\ ~Ready(h) /\ token[h] # NoToken /\ tries[h] > 0
    /\ tries' = [tries EXCEPT ![h] = @ - 1]
    /\ BeginAttempt(h, "startup", reqs)
    /\ UNCHANGED <<planeVars, token, mem, disk, rejected, boundVars>>

StartupDone(h) ==
    /\ phase[h] = "startup"
    /\ Ready(h) \/ token[h] = NoToken \/ tries[h] = 0
    /\ phase' = [phase EXCEPT ![h] = "idle"]
    /\ UNCHANGED <<planeVars, reqs, token, mem, disk, rejected, due, cont, tries, boundVars>>

\* case <-credentialTicker.C.
CredentialTick(h) ==
    /\ phase[h] = "idle"
    /\ ~Ready(h) /\ due[h]
    /\ BeginAttempt(h, "idle", reqs)
    /\ UNCHANGED <<planeVars, token, mem, disk, rejected, tries, boundVars>>

\* Time passes nextAttempt (60 s after an attempt, 15 min after a refusal).
BecomesDue(h) ==
    /\ Running(h) /\ ~due[h]
    /\ due' = [due EXCEPT ![h] = TRUE]
    /\ UNCHANGED <<planeVars, reqs, token, mem, disk, rejected, phase, cont, tries, boundVars>>

\* Any ticker that reports (metrics, discovery, logs) calls e.send, whether or
\* not the agent is ready.
SendTick(h) ==
    /\ phase[h] = "idle"
    /\ phase' = [phase EXCEPT ![h] = "sending"]
    /\ reqs' = reqs \cup {NewRequest(h, "ingest")}
    /\ UNCHANGED <<planeVars, token, mem, disk, rejected, due, cont, tries, boundVars>>

\* The answer r reaches the agent that waits for it.
Waiting(h, r) == r \in reqs /\ r.host = h /\ r.waited /\ r.stage = "answered"

\* e.send: anything but a refusal goes back to the caller.  A refusal marks
\* the credential rejected and, when an attempt is due, repairs it at once.
SendAnswered(h, r) ==
    /\ phase[h] = "sending" /\ Waiting(h, r)
    /\ IF r.answer # "refused"
       THEN /\ phase' = [phase EXCEPT ![h] = "idle"]
            /\ reqs' = reqs \ {r}
            /\ UNCHANGED <<rejected, due, cont>>
       ELSE /\ rejected' = [rejected EXCEPT ![h] = TRUE]
            /\ IF due[h]
               THEN BeginAttempt(h, "resend", reqs \ {r})
               ELSE /\ phase' = [phase EXCEPT ![h] = "idle"]
                    /\ reqs' = reqs \ {r}
                    /\ UNCHANGED <<due, cont>>
    /\ UNCHANGED <<planeVars, token, mem, disk, tries, boundVars>>

\* The second Client.Send of e.send: its result goes to the caller as it is.
ResendAnswered(h, r) ==
    /\ phase[h] = "resending" /\ Waiting(h, r)
    /\ phase' = [phase EXCEPT ![h] = "idle"]
    /\ reqs' = reqs \ {r}
    /\ UNCHANGED <<planeVars, token, mem, disk, rejected, due, cont, tries, boundVars>>

\* Where the goroutine goes after an attempt that got no credential.
AfterFailure(h) == IF cont[h] = "startup" THEN "startup" ELSE "idle"

\* e.adopt: the new ids are used at once and saved, unless the write fails;
\* then the caller of the attempt goes on: the start-up loop ends by itself,
\* and e.send sends its message again under the new id.
Adopt(h, r) ==
    /\ phase[h] = "attempting" /\ Waiting(h, r)
    /\ r.answer = "ok"
    /\ LET id == [enrolled |-> TRUE, agent |-> r.agent]
       IN  /\ mem' = [mem EXCEPT ![h] = id]
           /\ \/ disk' = [disk EXCEPT ![h] = id] /\ UNCHANGED faults
              \/ Fault /\ UNCHANGED disk
    /\ rejected' = [rejected EXCEPT ![h] = FALSE]
    /\ IF cont[h] = "resend"
       THEN /\ phase' = [phase EXCEPT ![h] = "resending"]
            /\ reqs' = (reqs \ {r}) \cup {[NewRequest(h, "ingest") EXCEPT !.agent = r.agent]}
       ELSE /\ phase' = [phase EXCEPT ![h] = cont[h]]
            /\ reqs' = reqs \ {r}
    /\ UNCHANGED <<planeVars, token, due, cont, tries, restarts, operator>>

\* e.recover on ErrReenrollUnsupported: fall back to the token, if there is one.
FallBackToToken(h, r) ==
    /\ phase[h] = "attempting" /\ Waiting(h, r)
    /\ r.answer = "unsupported"
    /\ IF token[h] = NoToken
       THEN /\ reqs' = reqs \ {r}
            /\ phase' = [phase EXCEPT ![h] = AfterFailure(h)]
       ELSE /\ reqs' = (reqs \ {r}) \cup {NewRequest(h, "enroll")}
            /\ UNCHANGED phase
    /\ UNCHANGED <<planeVars, token, mem, disk, rejected, due, cont, tries, boundVars>>

\* Any other answer leaves the agent as it was, until the next attempt.
AttemptFailed(h, r) ==
    /\ phase[h] = "attempting" /\ Waiting(h, r)
    /\ r.answer \in {"refused", "revoked", "error"}
    /\ phase' = [phase EXCEPT ![h] = AfterFailure(h)]
    /\ reqs' = reqs \ {r}
    /\ UNCHANGED <<planeVars, token, mem, disk, rejected, due, cont, tries, boundVars>>

\* The network or a timeout ends the wait.  The request may never have arrived
\* (it is gone), be under way in its handler (it goes on, unwaited), or be
\* answered already (the answer is lost).
RequestLost(r) ==
    /\ r \in reqs /\ r.waited /\ r.answer # "error"
    /\ Fault
    /\ LET failed == [r EXCEPT !.stage = "answered", !.answer = "error"]
       IN  \/ reqs' = (reqs \ {r}) \cup {failed}
           \/ /\ r.stage # "answered"
              /\ reqs' = (reqs \ {r}) \cup {failed, [r EXCEPT !.waited = FALSE]}
    /\ UNCHANGED <<planeVars, agentVars, restarts, operator>>

\* Nobody reads the answer of a request nobody waits for.
DiscardAnswer(r) ==
    /\ r \in reqs /\ ~r.waited /\ r.stage = "answered"
    /\ reqs' = reqs \ {r}
    /\ UNCHANGED <<planeVars, agentVars, boundVars>>

\* The requests left when host h stops waiting.
Unwaited(h) ==
    {r \in reqs : r.host # h \/ ~r.waited}
      \cup {[r EXCEPT !.waited = FALSE] : r \in {q \in reqs : q.host = h /\ q.waited}}

\* main starts: config.Load reads identity.json.
Boot(h, tok) ==
    /\ mem' = [mem EXCEPT ![h] = disk[h]]
    /\ token' = [token EXCEPT ![h] = tok]
    /\ rejected' = [rejected EXCEPT ![h] = FALSE]
    /\ due' = [due EXCEPT ![h] = TRUE]
    /\ phase' = [phase EXCEPT ![h] = "startup"]
    /\ tries' = [tries EXCEPT ![h] = StartupTries]
    /\ reqs' = Unwaited(h)
    /\ UNCHANGED <<planeVars, disk, cont>>

AgentStart(h) ==
    /\ phase[h] = "down"
    /\ Boot(h, token[h])
    /\ UNCHANGED boundVars

AgentCrash(h) ==
    /\ Running(h)
    /\ restarts < MaxRestarts /\ restarts' = restarts + 1
    /\ phase' = [phase EXCEPT ![h] = "down"]
    /\ reqs' = Unwaited(h)
    /\ UNCHANGED <<planeVars, token, mem, disk, rejected, due, cont, tries,
                   faults, operator>>

\* The operator re-runs the install command with a fresh token: the installer
\* rewrites the environment, keeps identity.json and recreates the container.
Reinstall(h, t) ==
    /\ operator < MaxOperator /\ operator' = operator + 1
    /\ tokens[t] = "valid"
    /\ Boot(h, t)
    /\ UNCHANGED <<faults, restarts>>

-----------------------------------------------------------------------------
Init ==
    /\ store \in Stores
    /\ tokens = [t \in Tokens |-> IF t = BootToken \/ \E h \in Hosts : InstallToken[h] = t
                                  THEN "valid" ELSE "absent"]
    /\ known = {} /\ revoked = {} /\ servers = {}
    /\ owner = [a \in AgentId |-> CHOOSE h \in Hosts : TRUE]
    /\ boughtBy = [a \in AgentId |-> NoToken]
    /\ issued = 0
    /\ reqs = {}
    /\ token = InstallToken
    /\ mem = [h \in Hosts |-> [enrolled |-> FALSE, agent |-> Unregistered]]
    /\ disk = mem
    /\ rejected = [h \in Hosts |-> FALSE]
    /\ due = [h \in Hosts |-> TRUE]
    /\ phase = [h \in Hosts |-> "down"]
    /\ cont = [h \in Hosts |-> "idle"]
    /\ tries = [h \in Hosts |-> 0]
    /\ faults = 0 /\ restarts = 0 /\ operator = 0

\* What the agent does on its own.
AgentStep(h) ==
    \/ AgentStart(h) \/ StartupAttempt(h) \/ StartupDone(h)
    \/ \E r \in reqs : \/ SendAnswered(h, r) \/ ResendAnswered(h, r) \/ Adopt(h, r)
                       \/ FallBackToToken(h, r) \/ AttemptFailed(h, r)

Environment ==
    \/ \E r \in reqs : \/ LookupFails(r) \/ ConsumeFails(r) \/ RegisterFails(r)
                       \/ SignatureRefused(r) \/ ReenrollNotFound(r)
                       \/ RequestLost(r) \/ DiscardAnswer(r)
    \/ ApiRestart
    \/ \E t \in Tokens : CreateEnrollment(t) \/ TokenExpires(t)
    \/ \E a \in AgentId : RevokeAgent(a)
    \/ \E h \in Hosts : AgentCrash(h) \/ \E t \in Tokens : Reinstall(h, t)

Next ==
    \/ \E h \in Hosts : AgentStep(h) \/ CredentialTick(h) \/ SendTick(h) \/ BecomesDue(h)
    \/ \E r \in reqs : Handler(r)
    \/ Environment

Spec == Init /\ [][Next]_vars

\* The agent's loop keeps running and its clock advances, every ticker is
\* served again and again (Go's select picks among the ready cases at random),
\* and a handler that started goes on.  What goes wrong, and what the operator
\* does, is owed to nobody.
Fairness ==
    /\ \A h \in Hosts : /\ WF_vars(AgentStep(h))
                        /\ SF_vars(CredentialTick(h)) /\ SF_vars(SendTick(h))
                        /\ WF_vars(BecomesDue(h))
    /\ WF_vars(\E r \in reqs : Handler(r))

FairSpec == Spec /\ Fairness

-----------------------------------------------------------------------------
(* Properties. *)

\* A token buys one agent: no two rows were created with the same token, even
\* when its requests race, are repeated or cross a restart ("Enrollment tokens
\* are single-use", docs/AGENT_PROTOCOL.md).
TokenBuysOneAgent ==
    \A a, b \in known : boughtBy[a] = boughtBy[b] => a = b

\* The credential an agent holds is one the control plane accepts.
Usable(h) == mem[h].agent \in Live(h) /\ ~rejected[h]

\* The agent was enrolled and the control plane has a live row for its key,
\* and none that was revoked.
Repairable(h) == Running(h) /\ mem[h].enrolled /\ Live(h) # {} /\ Rows(h) \cap revoked = {}

\* A rejected credential is repaired without a human: an enrolled agent whose
\* key is on record ends up with an id the control plane accepts, whatever was
\* lost on the way ("The agent now repairs this itself",
\* docs/TROUBLESHOOTING.md).
KnownAgentRecovers ==
    \A h \in Hosts : Repairable(h) ~> (Usable(h) \/ ~Repairable(h))

\* An agent that the control plane has registered gets to know it ("A control
\* plane that is briefly busy right after start-up must not strand the agent",
\* main.go).
RegisteredAgentNotStranded ==
    \A h \in Hosts : (Running(h) /\ Live(h) # {})
                        ~> (mem[h].enrolled \/ ~Running(h) \/ Live(h) = {})
=============================================================================
