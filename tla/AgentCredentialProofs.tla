------------------------ MODULE AgentCredentialProofs -----------------------
(***************************************************************************)
(* For any number of hosts and tokens, either store, and any number of     *)
(* lost messages, restarts, revocations and reinstallations: an enrollment *)
(* token buys one agent row at most.                                       *)
(***************************************************************************)
EXTENDS AgentCredential, TLAPS

\* The requests whose handler has consumed a token and not created a row yet.
Registering(requests) == {r \in requests : r.stage = "register"}

\* Every row was bought with a token that is used up.
RowsArePaid ==
    \A a \in known : /\ a <= issued
                     /\ boughtBy[a] \in Tokens /\ tokens[boughtBy[a]] = "used"

\* A token that was consumed for a row that does not exist yet has bought no other
\* row, and no other handler holds it.
PaidOnce ==
    \A r \in Registering(reqs) :
        /\ r.tok \in Tokens /\ tokens[r.tok] = "used"
        /\ \A a \in known : boughtBy[a] # r.tok
        /\ \A q \in Registering(reqs) : q.tok = r.tok => q = r

\* The inductive invariant.
IInv == TypeOK /\ RowsArePaid /\ PaidOnce /\ TokenBuysOneAgent

-----------------------------------------------------------------------------
(* Requests. *)

LEMMA ConstantsAreNat ==
    /\ StartupTries \in Nat /\ MaxAgents \in Nat /\ MaxFaults \in Nat
    /\ MaxRestarts \in Nat /\ MaxOperator \in Nat
  BY CredentialAssumption

\* The fields of a request.
LEMMA RequestFields ==
    ASSUME NEW r \in Request
    PROVE  /\ r.host \in Hosts /\ r.kind \in Kind /\ r.tok \in Tokens \cup {NoToken}
           /\ r.agent \in AgentId \cup {Unregistered} /\ r.stage \in Stage
           /\ r.answer \in Answer /\ r.waited \in BOOLEAN
  BY DEF Request

\* A handler that answers is no longer registering anybody.
LEMMA AnswerToReqs ==
    ASSUME TypeOK, NEW r \in reqs, NEW answer \in Answer,
           NEW agent \in AgentId \cup {Unregistered}, AnswerTo(r, answer, agent)
    PROVE  /\ reqs' \subseteq Request
           /\ Registering(reqs') = Registering(reqs) \ {r}
<1> DEFINE q == [r EXCEPT !.stage = "answered", !.answer = answer, !.agent = agent]
<1>1. r \in Request
  BY DEF TypeOK
<1>2. q \in Request /\ q.stage = "answered"
  BY <1>1 DEF Request, Stage
<1>3. reqs' = (reqs \ {r}) \cup {q}
  BY DEF AnswerTo
<1> HIDE DEF q
<1> QED
  BY <1>2, <1>3 DEF TypeOK, Registering

LEMMA MoveToReqs ==
    ASSUME TypeOK, NEW r \in reqs, NEW stage \in Stage, MoveTo(r, stage)
    PROVE  LET q == [r EXCEPT !.stage = stage]
           IN  /\ reqs' \subseteq Request
               /\ reqs' = (reqs \ {r}) \cup {q}
               /\ q.stage = stage /\ q.tok = r.tok
<1>1. r \in Request
  BY DEF TypeOK
<1>2. [r EXCEPT !.stage = stage] \in Request
  BY <1>1 DEF Request
<1> QED
  BY <1>1, <1>2 DEF TypeOK, MoveTo, Request

LEMMA NewRequestType ==
    ASSUME TypeOK, NEW h \in Hosts, NEW kind \in Kind
    PROVE  /\ NewRequest(h, kind) \in Request
           /\ NewRequest(h, kind).stage = "arrived"
  BY DEF TypeOK, NewRequest, Request, Identity, Stage, Answer

\* e.attempt sends at most one new request.
LEMMA BeginAttemptReqs ==
    ASSUME TypeOK, NEW h \in Hosts, NEW then \in {"startup", "idle", "resend"},
           NEW pending \in SUBSET reqs, BeginAttempt(h, then, pending)
    PROVE  /\ reqs' \subseteq Request /\ Registering(reqs') \subseteq Registering(reqs)
           /\ due' \in [Hosts -> BOOLEAN] /\ phase' \in [Hosts -> Phase]
           /\ cont' \in [Hosts -> {"startup", "idle", "resend"}]
<1>1. /\ due' \in [Hosts -> BOOLEAN] /\ phase' \in [Hosts -> Phase]
      /\ cont' \in [Hosts -> {"startup", "idle", "resend"}]
  BY DEF BeginAttempt, TypeOK, Phase
<1>2. pending \subseteq Request
  BY DEF TypeOK
<1>3. CASE reqs' = pending
  BY <1>1, <1>2, <1>3 DEF Registering
<1>4. CASE \E kind \in {"enroll", "reenroll"} : reqs' = pending \cup {NewRequest(h, kind)}
  <2>1. PICK kind \in {"enroll", "reenroll"} : reqs' = pending \cup {NewRequest(h, kind)}
    BY <1>4
  <2>2. NewRequest(h, kind) \in Request /\ NewRequest(h, kind).stage = "arrived"
    BY NewRequestType DEF Kind
  <2> QED
    BY <1>1, <1>2, <2>1, <2>2 DEF Registering
<1> QED
  BY <1>3, <1>4 DEF BeginAttempt

\* A request after host h has stopped waiting: its handler is where it was.
AfterWait(h, r) == IF r.host = h /\ r.waited THEN [r EXCEPT !.waited = FALSE] ELSE r

LEMMA UnwaitedReqs ==
    ASSUME TypeOK, NEW h \in Hosts, reqs' = Unwaited(h)
    PROVE  /\ reqs' \subseteq Request
           /\ reqs' = {AfterWait(h, r) : r \in reqs}
           /\ \A r \in reqs : AfterWait(h, r).stage = r.stage /\ AfterWait(h, r).tok = r.tok
<1>1. \A r \in reqs : /\ AfterWait(h, r) \in Request
                      /\ AfterWait(h, r).stage = r.stage /\ AfterWait(h, r).tok = r.tok
  BY DEF TypeOK, Request, AfterWait
<1>2. reqs' = {AfterWait(h, r) : r \in reqs}
  BY DEF Unwaited, AfterWait
<1> QED
  BY <1>1, <1>2

-----------------------------------------------------------------------------
(* What keeps the books. *)

\* Steps that touch neither tokens nor rows, and in which no handler gets to
\* registering.
LEMMA BooksUntouched ==
    ASSUME IInv, TypeOK', UNCHANGED <<tokens, known, boughtBy>>, issued <= issued',
           Registering(reqs') \subseteq Registering(reqs)
    PROVE  IInv'
<1>a. known \subseteq AgentId /\ issued \in 0..MaxAgents /\ issued' \in 0..MaxAgents
  BY DEF IInv, TypeOK
<1>0. known \subseteq Nat /\ issued \in Nat /\ issued' \in Nat
  BY <1>a, ConstantsAreNat DEF AgentId
<1>b. \A a \in known : a <= issued => a <= issued'
  BY <1>0
<1>1. RowsArePaid' /\ TokenBuysOneAgent'
  BY <1>b DEF IInv, RowsArePaid, TokenBuysOneAgent
<1>2. PaidOnce'
  BY DEF IInv, PaidOnce
<1> QED
  BY <1>1, <1>2 DEF IInv

\* The same when host h stops waiting.
LEMMA BooksSurviveLeaving ==
    ASSUME IInv, TypeOK', NEW h \in Hosts, UNCHANGED <<tokens, known, boughtBy, issued>>,
           reqs' = Unwaited(h)
    PROVE  IInv'
<1>1. RowsArePaid' /\ TokenBuysOneAgent'
  BY DEF IInv, RowsArePaid, TokenBuysOneAgent
<1>2. /\ reqs' = {AfterWait(h, r) : r \in reqs}
      /\ \A r \in reqs : AfterWait(h, r).stage = r.stage /\ AfterWait(h, r).tok = r.tok
  BY UnwaitedReqs DEF IInv
<1>3. \A q \in Registering(reqs') : \E r \in Registering(reqs) :
          q = AfterWait(h, r) /\ q.tok = r.tok
  BY <1>2 DEF Registering
<1>4. PaidOnce'
  BY <1>3 DEF IInv, PaidOnce
<1> QED
  BY <1>1, <1>4 DEF IInv

\* ConsumeEnrollmentToken lets one handler pass.
LEMMA ConsumeTokenKeepsInv ==
    ASSUME IInv, NEW r \in reqs, r.stage \in {"arrived", "consume"}, ConsumeToken(r),
           UNCHANGED <<store, known, revoked, owner, boughtBy, servers, issued, agentVars,
                       boundVars>>
    PROVE  IInv'
<1>0. r \in Request /\ r.agent \in AgentId \cup {Unregistered} /\ r.tok \in Tokens \cup {NoToken}
  BY RequestFields DEF IInv, TypeOK
<1>1. CASE r.tok # NoToken /\ tokens[r.tok] = "valid"
  <2> DEFINE q == [r EXCEPT !.stage = "register"]
  <2>1. /\ tokens' = [tokens EXCEPT ![r.tok] = "used"] /\ MoveTo(r, "register")
    BY <1>1 DEF ConsumeToken
  <2>2. /\ reqs' \subseteq Request /\ reqs' = (reqs \ {r}) \cup {q}
        /\ q.stage = "register" /\ q.tok = r.tok
    BY <2>1, MoveToReqs DEF IInv, Stage
  <2> HIDE DEF q
  <2>3. /\ r.tok \in Tokens /\ tokens \in [Tokens -> TokenState]
        /\ tokens' \in [Tokens -> TokenState] /\ tokens'[r.tok] = "used"
        /\ \A t \in Tokens : tokens[t] = "used" => t # r.tok /\ tokens'[t] = "used"
    BY <1>0, <1>1, <2>1 DEF IInv, TypeOK, TokenState
  <2>4. TypeOK'
    BY <2>2, <2>3 DEF IInv, TypeOK, agentVars, boundVars
  <2>5. RowsArePaid' /\ TokenBuysOneAgent'
    BY <2>3 DEF IInv, RowsArePaid, TokenBuysOneAgent
  <2>6. Registering(reqs') = Registering(reqs) \cup {q}
    BY <2>2 DEF Registering
  <2>7. PaidOnce'
    <3>1. \A p \in Registering(reqs) : /\ p.tok \in Tokens /\ p.tok # r.tok
                                         /\ tokens'[p.tok] = "used"
      BY <2>3 DEF IInv, PaidOnce
    <3>2. \A a \in known : boughtBy[a] # r.tok
      BY <2>3 DEF IInv, RowsArePaid
    <3>3. \A p \in Registering(reqs') : /\ p.tok \in Tokens /\ tokens'[p.tok] = "used"
                                          /\ \A a \in known' : boughtBy'[a] # p.tok
      BY <2>2, <2>3, <2>6, <3>1, <3>2 DEF IInv, PaidOnce
    <3>4. \A p, o \in Registering(reqs') : o.tok = p.tok => o = p
      BY <2>2, <2>6, <3>1 DEF IInv, PaidOnce
    <3> QED
      BY <3>3, <3>4 DEF PaidOnce
  <2> QED
    BY <2>4, <2>5, <2>7 DEF IInv
<1>2. CASE ~(r.tok # NoToken /\ tokens[r.tok] = "valid")
  <2>1. AnswerTo(r, "refused", r.agent) /\ UNCHANGED tokens
    BY <1>2 DEF ConsumeToken
  <2>2. reqs' \subseteq Request /\ Registering(reqs') = Registering(reqs) \ {r}
    BY <1>0, <2>1, AnswerToReqs DEF IInv, Answer
  <2>3. TypeOK'
    BY <2>1, <2>2 DEF IInv, TypeOK, agentVars, boundVars
  <2>4. issued <= issued'
    BY ConstantsAreNat DEF IInv, TypeOK
  <2> QED
    BY <2>1, <2>2, <2>3, <2>4, BooksUntouched
<1> QED
  BY <1>1, <1>2

-----------------------------------------------------------------------------
(* The control plane's steps. *)

LEMMA InitHolds == Init => IInv
<1> SUFFICES ASSUME Init PROVE IInv
  OBVIOUS
<1>1. (CHOOSE h \in Hosts : TRUE) \in Hosts
  BY CredentialAssumption
<1>2. owner \in [AgentId -> Hosts]
  BY <1>1 DEF Init
<1>3. mem \in [Hosts -> Identity] /\ disk \in [Hosts -> Identity]
  BY DEF Init, Identity
<1>4. TypeOK
  <2>1. /\ store \in Stores /\ known \subseteq AgentId /\ revoked \subseteq known
        /\ servers \subseteq AgentId /\ reqs \subseteq Request
        /\ token \in [Hosts -> Tokens \cup {NoToken}]
    BY CredentialAssumption DEF Init
  <2>2. /\ tokens \in [Tokens -> TokenState] /\ boughtBy \in [AgentId -> Tokens \cup {NoToken}]
        /\ rejected \in [Hosts -> BOOLEAN] /\ due \in [Hosts -> BOOLEAN]
        /\ phase \in [Hosts -> Phase] /\ cont \in [Hosts -> {"startup", "idle", "resend"}]
    BY DEF Init, TokenState, Phase
  <2>3. /\ issued \in 0..MaxAgents /\ tries \in [Hosts -> 0..StartupTries]
        /\ faults \in 0..MaxFaults /\ restarts \in 0..MaxRestarts
        /\ operator \in 0..MaxOperator
    BY ConstantsAreNat DEF Init
  <2> QED
    BY <1>2, <1>3, <2>1, <2>2, <2>3 DEF TypeOK
<1>5. RowsArePaid /\ PaidOnce /\ TokenBuysOneAgent
  BY DEF Init, RowsArePaid, PaidOnce, TokenBuysOneAgent, Registering
<1> QED
  BY <1>4, <1>5 DEF IInv

\* A handler answers, and touches no row but a server's.
LEMMA AnswerKeepsInv ==
    ASSUME IInv, NEW r \in reqs, NEW answer \in Answer,
           NEW agent \in AgentId \cup {Unregistered}, AnswerTo(r, answer, agent),
           servers' \subseteq AgentId, faults' \in 0..MaxFaults,
           issued' \in 0..MaxAgents, issued <= issued',
           UNCHANGED <<store, tokens, known, revoked, owner, boughtBy, agentVars, restarts,
                       operator>>
    PROVE  IInv'
<1>1. reqs' \subseteq Request /\ Registering(reqs') = Registering(reqs) \ {r}
  BY AnswerToReqs DEF IInv
<1>2. TypeOK'
  BY <1>1 DEF IInv, TypeOK, agentVars
<1> QED
  BY <1>1, <1>2, BooksUntouched

LEMMA HandleReenrollKeepsInv ==
    ASSUME IInv, NEW r \in reqs, HandleReenroll(r)
    PROVE  IInv'
<1>0. /\ r \in Request /\ r.agent \in AgentId \cup {Unregistered} /\ issued \in 0..MaxAgents
      /\ faults \in 0..MaxFaults /\ servers \subseteq AgentId /\ known \subseteq AgentId
  BY RequestFields DEF IInv, TypeOK
<1>1. issued <= issued' /\ issued' \in 0..MaxAgents /\ faults' \in 0..MaxFaults
  BY <1>0, ConstantsAreNat DEF HandleReenroll, boundVars
<1>2. LookupByKey(r.host) \subseteq AgentId
  BY <1>0 DEF LookupByKey, Rows, Live
<1>3. UNCHANGED <<store, tokens, known, revoked, owner, boughtBy, issued, agentVars, faults,
                  restarts, operator>>
  BY DEF HandleReenroll, boundVars
<1>4. ASSUME NEW a \in LookupByKey(r.host), a \in revoked, AnswerTo(r, "revoked", r.agent),
             UNCHANGED servers
      PROVE  IInv'
  <2>1. "revoked" \in Answer /\ servers' \subseteq AgentId
    BY <1>0, <1>4 DEF Answer
  <2> QED
    BY <1>0, <1>1, <1>3, <1>4, <2>1, AnswerKeepsInv
<1>5. ASSUME NEW a \in LookupByKey(r.host), AnswerTo(r, "ok", a), servers' = servers \cup {a}
      PROVE  IInv'
  <2>1. "ok" \in Answer /\ servers' \subseteq AgentId /\ a \in AgentId \cup {Unregistered}
    BY <1>0, <1>2, <1>5 DEF Answer
  <2> QED
    BY <1>1, <1>3, <1>5, <2>1, AnswerKeepsInv
<1>6. CASE AnswerTo(r, "refused", r.agent) /\ UNCHANGED servers
  <2>1. "refused" \in Answer /\ servers' \subseteq AgentId
    BY <1>0, <1>6 DEF Answer
  <2> QED
    BY <1>0, <1>1, <1>3, <1>6, <2>1, AnswerKeepsInv
<1>7. CASE MoveTo(r, "consume") /\ UNCHANGED servers
  <2> DEFINE q == [r EXCEPT !.stage = "consume"]
  <2>1. reqs' \subseteq Request /\ reqs' = (reqs \ {r}) \cup {q} /\ q.stage = "consume"
    BY <1>7, MoveToReqs DEF IInv, Stage
  <2> HIDE DEF q
  <2>2. Registering(reqs') \subseteq Registering(reqs)
    BY <2>1 DEF Registering
  <2>3. TypeOK'
    BY <1>3, <1>7, <2>1 DEF IInv, TypeOK, agentVars
  <2> QED
    BY <1>1, <1>3, <2>2, <2>3, BooksUntouched
<1> QED
  BY <1>4, <1>5, <1>6, <1>7 DEF HandleReenroll

\* registerAgent turns the token its handler holds into a row with a fresh id.
LEMMA RegisterAgentKeepsInv ==
    ASSUME IInv, NEW r \in reqs, RegisterAgent(r)
    PROVE  IInv'
<1> DEFINE a == issued + 1
<1>1. /\ r \in Request /\ r.host \in Hosts /\ r.tok \in Tokens \cup {NoToken}
  BY RequestFields DEF IInv, TypeOK
<1>2. /\ a \in AgentId /\ issued \in Nat /\ issued' = a /\ issued' \in 0..MaxAgents
      /\ known \subseteq AgentId /\ \A b \in known : b \in Nat /\ b <= issued /\ b <= a
      /\ a \notin known
  BY ConstantsAreNat DEF IInv, TypeOK, RegisterAgent, AgentId, RowsArePaid
<1>3. /\ known' = known \cup {a} /\ AnswerTo(r, "ok", a) /\ servers' = servers \cup {a}
      /\ owner' = [owner EXCEPT ![a] = r.host] /\ boughtBy' = [boughtBy EXCEPT ![a] = r.tok]
      /\ UNCHANGED <<store, tokens, revoked, agentVars, boundVars>>
      /\ r \in Registering(reqs)
  BY DEF RegisterAgent, Registering
<1> HIDE DEF a
<1>4. reqs' \subseteq Request /\ Registering(reqs') = Registering(reqs) \ {r}
  BY <1>2, <1>3, AnswerToReqs DEF IInv, Answer
<1>5. TypeOK'
  <2>1. owner' \in [AgentId -> Hosts] /\ boughtBy' \in [AgentId -> Tokens \cup {NoToken}]
    BY <1>1, <1>3 DEF IInv, TypeOK
  <2> QED
    BY <1>2, <1>3, <1>4, <2>1 DEF IInv, TypeOK, agentVars, boundVars
<1>6. boughtBy'[a] = r.tok /\ \A b \in known : boughtBy'[b] = boughtBy[b]
  BY <1>2, <1>3 DEF IInv, TypeOK
<1>7. /\ r.tok \in Tokens /\ tokens[r.tok] = "used"
      /\ \A b \in known : boughtBy[b] # r.tok
      /\ \A q \in Registering(reqs) : q.tok = r.tok => q = r
  BY <1>3 DEF IInv, PaidOnce
<1>8. RowsArePaid'
  BY <1>2, <1>3, <1>6, <1>7 DEF IInv, RowsArePaid
<1>9. TokenBuysOneAgent'
  BY <1>3, <1>6, <1>7 DEF IInv, TokenBuysOneAgent
<1>10. PaidOnce'
  <2>1. \A q \in Registering(reqs') : /\ q \in Registering(reqs) /\ q.tok # r.tok
    BY <1>4, <1>7
  <2> QED
    BY <1>3, <1>6, <2>1 DEF IInv, PaidOnce
<1> QED
  BY <1>5, <1>8, <1>9, <1>10 DEF IInv

LEMMA RegisterFailsKeepsInv ==
    ASSUME IInv, NEW r \in reqs, RegisterFails(r)
    PROVE  IInv'
<1>1. r.agent \in AgentId \cup {Unregistered} /\ "error" \in Answer
  BY RequestFields DEF IInv, TypeOK, Answer
<1>2. /\ issued <= issued' /\ issued' \in 0..MaxAgents /\ issued + 1 \in AgentId
      /\ faults' \in 0..MaxFaults
  BY ConstantsAreNat DEF IInv, TypeOK, RegisterFails, AgentId, Fault
<1>3. servers' \subseteq AgentId
  BY <1>2 DEF IInv, TypeOK, RegisterFails
<1> QED
  BY <1>1, <1>2, <1>3, AnswerKeepsInv DEF RegisterFails

LEMMA HandleIngestKeepsInv ==
    ASSUME IInv, NEW r \in reqs, HandleIngest(r)
    PROVE  IInv'
<1>1. /\ r.agent \in AgentId \cup {Unregistered} /\ "ok" \in Answer /\ "refused" \in Answer
  BY RequestFields DEF IInv, TypeOK, Answer
<1>2. /\ issued <= issued' /\ issued' \in 0..MaxAgents /\ faults' \in 0..MaxFaults
      /\ servers' \subseteq AgentId
  BY ConstantsAreNat DEF IInv, TypeOK, HandleIngest, boundVars
<1>3. /\ AnswerTo(r, "ok", r.agent) \/ AnswerTo(r, "refused", r.agent)
      /\ UNCHANGED <<store, tokens, known, revoked, owner, boughtBy, agentVars, restarts,
                     operator>>
  BY DEF HandleIngest, boundVars
<1> QED
  BY <1>1, <1>2, <1>3, AnswerKeepsInv

\* verifySignedRequest fails, or the route does not exist.
LEMMA RefusalsKeepInv ==
    ASSUME IInv, NEW r \in reqs, SignatureRefused(r) \/ ReenrollNotFound(r)
    PROVE  IInv'
<1>1. r.agent \in AgentId \cup {Unregistered} /\ {"refused", "unsupported"} \subseteq Answer
  BY RequestFields DEF IInv, TypeOK, Answer
<1>2. /\ issued <= issued' /\ issued' \in 0..MaxAgents /\ faults' \in 0..MaxFaults
      /\ servers' \subseteq AgentId
  BY ConstantsAreNat DEF IInv, TypeOK, SignatureRefused, ReenrollNotFound, planeVars, Fault
<1>3. /\ AnswerTo(r, "refused", r.agent) \/ AnswerTo(r, "unsupported", r.agent)
      /\ UNCHANGED <<store, tokens, known, revoked, owner, boughtBy, agentVars, restarts,
                     operator>>
  BY DEF SignatureRefused, ReenrollNotFound, planeVars
<1> QED
  BY <1>1, <1>2, <1>3, AnswerKeepsInv

\* A failed lookup takes the key for an unknown one.
LEMMA LookupFailsKeepsInv ==
    ASSUME IInv, NEW r \in reqs, LookupFails(r)
    PROVE  IInv'
<1>1. r.agent \in AgentId \cup {Unregistered} /\ "refused" \in Answer /\ "consume" \in Stage
  BY RequestFields DEF IInv, TypeOK, Answer, Stage
<1>2. /\ issued <= issued' /\ issued' \in 0..MaxAgents /\ faults' \in 0..MaxFaults
      /\ servers' \subseteq AgentId
  BY ConstantsAreNat DEF IInv, TypeOK, LookupFails, planeVars, Fault
<1>3. UNCHANGED <<store, tokens, known, revoked, owner, boughtBy, servers, issued, agentVars,
                  restarts, operator>>
  BY DEF LookupFails, planeVars
<1>4. CASE AnswerTo(r, "refused", r.agent)
  BY <1>1, <1>2, <1>3, <1>4, AnswerKeepsInv
<1>5. CASE MoveTo(r, "consume")
  <2> DEFINE q == [r EXCEPT !.stage = "consume"]
  <2>1. reqs' \subseteq Request /\ reqs' = (reqs \ {r}) \cup {q} /\ q.stage = "consume"
    BY <1>1, <1>5, MoveToReqs DEF IInv
  <2> HIDE DEF q
  <2>2. Registering(reqs') \subseteq Registering(reqs)
    BY <2>1 DEF Registering
  <2>3. TypeOK'
    BY <1>2, <1>3, <2>1 DEF IInv, TypeOK, agentVars
  <2> QED
    BY <1>2, <1>3, <2>2, <2>3, BooksUntouched
<1> QED
  BY <1>4, <1>5 DEF LookupFails

\* A token that is spent without a handler to use it buys nothing.
LEMMA ConsumeFailsKeepsInv ==
    ASSUME IInv, NEW r \in reqs, ConsumeFails(r)
    PROVE  IInv'
<1>1. r.agent \in AgentId \cup {Unregistered} /\ "refused" \in Answer /\ r.tok \in Tokens
  BY RequestFields DEF IInv, TypeOK, Answer, ConsumeFails
<1>2. /\ tokens' \in [Tokens -> TokenState] /\ faults' \in 0..MaxFaults
      /\ \A t \in Tokens : tokens[t] = "used" => tokens'[t] = "used"
  BY <1>1, ConstantsAreNat DEF IInv, TypeOK, ConsumeFails, Fault, TokenState
<1>3. AnswerTo(r, "refused", r.agent)
      /\ UNCHANGED <<store, known, revoked, owner, boughtBy, servers, issued, agentVars,
                     restarts, operator>>
  BY DEF ConsumeFails
<1>4. reqs' \subseteq Request /\ Registering(reqs') = Registering(reqs) \ {r}
  BY <1>1, <1>3, AnswerToReqs DEF IInv
<1>5. TypeOK'
  BY <1>2, <1>3, <1>4 DEF IInv, TypeOK, agentVars
<1>6. RowsArePaid' /\ TokenBuysOneAgent'
  BY <1>2, <1>3 DEF IInv, RowsArePaid, TokenBuysOneAgent
<1>7. PaidOnce'
  BY <1>2, <1>3, <1>4 DEF IInv, PaidOnce
<1> QED
  BY <1>5, <1>6, <1>7 DEF IInv

\* No handler survives a restart; what a token has bought is forgotten together
\* with the rows (memory) or kept together with them (Postgres).
LEMMA ApiRestartKeepsInv ==
    ASSUME IInv, ApiRestart
    PROVE  IInv'
<1>1. \A r \in reqs : /\ [r EXCEPT !.stage = "answered", !.answer = "error"] \in Request
                      /\ [r EXCEPT !.stage = "answered", !.answer = "error"].stage = "answered"
  BY DEF IInv, TypeOK, Request, Stage, Answer
<1>2. /\ reqs' = {[r EXCEPT !.stage = "answered", !.answer = "error"] :
                     r \in {r \in reqs : r.waited /\ r.stage # "answered"}}
                 \cup {r \in reqs : r.stage = "answered"}
      /\ UNCHANGED <<store, owner, boughtBy, issued, agentVars, faults, operator>>
  BY DEF ApiRestart
<1>3. reqs' \subseteq Request /\ Registering(reqs') = {}
  BY <1>1, <1>2 DEF IInv, TypeOK, Registering
<1>4. restarts' \in 0..MaxRestarts
  <2>1. restarts \in 0..MaxRestarts /\ restarts < MaxRestarts /\ restarts' = restarts + 1
    BY DEF IInv, TypeOK, ApiRestart
  <2> QED
    BY <2>1, ConstantsAreNat
<1>5. PaidOnce'
  BY <1>3 DEF PaidOnce
<1>6. CASE store = "memory"
  <2>1. /\ known' = {} /\ revoked' = {} /\ servers' = {} /\ tokens' \in [Tokens -> TokenState]
    BY <1>6 DEF ApiRestart, TokenState
  <2>2. TypeOK'
    BY <1>2, <1>3, <1>4, <2>1 DEF IInv, TypeOK, agentVars
  <2> QED
    BY <1>5, <2>1, <2>2 DEF IInv, RowsArePaid, TokenBuysOneAgent
<1>7. CASE store # "memory"
  <2>1. /\ UNCHANGED <<known, revoked, servers>> /\ tokens' \in [Tokens -> TokenState]
        /\ \A t \in Tokens : tokens[t] = "used" => tokens'[t] = "used"
    BY <1>7 DEF ApiRestart, IInv, TypeOK, TokenState
  <2>2. TypeOK'
    BY <1>2, <1>3, <1>4, <2>1 DEF IInv, TypeOK, agentVars
  <2>3. RowsArePaid' /\ TokenBuysOneAgent'
    BY <1>2, <2>1 DEF IInv, RowsArePaid, TokenBuysOneAgent
  <2> QED
    BY <1>5, <2>2, <2>3 DEF IInv
<1> QED
  BY <1>6, <1>7

\* A tracking key is generated, or one expires: a used token stays used.
LEMMA TokenStepsKeepInv ==
    ASSUME IInv, NEW t \in Tokens, CreateEnrollment(t) \/ TokenExpires(t)
    PROVE  IInv'
<1>1. /\ UNCHANGED <<store, known, revoked, owner, boughtBy, servers, issued, reqs, agentVars,
                     boundVars>>
      /\ tokens' \in [Tokens -> TokenState]
      /\ \A u \in Tokens : tokens[u] = "used" => tokens'[u] = "used"
  BY DEF CreateEnrollment, TokenExpires, IInv, TypeOK, TokenState
<1>2. TypeOK'
  BY <1>1 DEF IInv, TypeOK, agentVars, boundVars
<1>3. RowsArePaid' /\ TokenBuysOneAgent'
  BY <1>1 DEF IInv, RowsArePaid, TokenBuysOneAgent
<1>4. PaidOnce'
  BY <1>1 DEF IInv, PaidOnce
<1> QED
  BY <1>2, <1>3, <1>4 DEF IInv

LEMMA RevokeAgentKeepsInv ==
    ASSUME IInv, NEW a \in AgentId, RevokeAgent(a)
    PROVE  IInv'
<1>1. /\ UNCHANGED <<store, tokens, known, owner, boughtBy, servers, issued, reqs, agentVars,
                     faults, restarts>>
      /\ revoked' = revoked \cup {a} /\ a \in known
  BY DEF RevokeAgent
<1>2. operator' \in 0..MaxOperator /\ issued <= issued'
  BY <1>1, ConstantsAreNat DEF IInv, TypeOK, RevokeAgent
<1>3. TypeOK'
  BY <1>1, <1>2 DEF IInv, TypeOK, agentVars
<1> QED
  BY <1>1, <1>2, <1>3, BooksUntouched

-----------------------------------------------------------------------------
(* The agent's steps. *)

\* A step of the agent leaves the books of the control plane alone: what is to
\* show is that its own state and the requests keep their types.
LEMMA AgentStepKeepsInv ==
    ASSUME IInv, NEW h \in Hosts, UNCHANGED planeVars,
           reqs' \subseteq Request, Registering(reqs') \subseteq Registering(reqs),
           token' \in [Hosts -> Tokens \cup {NoToken}],
           mem' \in [Hosts -> Identity], disk' \in [Hosts -> Identity],
           rejected' \in [Hosts -> BOOLEAN], due' \in [Hosts -> BOOLEAN],
           phase' \in [Hosts -> Phase], cont' \in [Hosts -> {"startup", "idle", "resend"}],
           tries' \in [Hosts -> 0..StartupTries], faults' \in 0..MaxFaults,
           restarts' \in 0..MaxRestarts, operator' \in 0..MaxOperator
    PROVE  IInv'
<1>1. TypeOK'
  BY DEF IInv, TypeOK, planeVars
<1>2. issued <= issued'
  BY ConstantsAreNat DEF IInv, TypeOK, planeVars
<1> QED
  BY <1>1, <1>2, BooksUntouched DEF planeVars

\* What an agent step that leaves a variable alone keeps.
LEMMA AgentTypes ==
    ASSUME IInv
    PROVE  /\ reqs \subseteq Request
           /\ token \in [Hosts -> Tokens \cup {NoToken}]
           /\ mem \in [Hosts -> Identity] /\ disk \in [Hosts -> Identity]
           /\ rejected \in [Hosts -> BOOLEAN] /\ due \in [Hosts -> BOOLEAN]
           /\ phase \in [Hosts -> Phase] /\ cont \in [Hosts -> {"startup", "idle", "resend"}]
           /\ tries \in [Hosts -> 0..StartupTries] /\ faults \in 0..MaxFaults
           /\ restarts \in 0..MaxRestarts /\ operator \in 0..MaxOperator
  BY DEF IInv, TypeOK

\* The attempts of the start-up loop and of the credential ticker.
LEMMA AttemptsKeepInv ==
    ASSUME IInv, NEW h \in Hosts, StartupAttempt(h) \/ CredentialTick(h)
    PROVE  IInv'
<1>1. PICK then \in {"startup", "idle", "resend"} : BeginAttempt(h, then, reqs)
  BY DEF StartupAttempt, CredentialTick
<1>2. /\ reqs' \subseteq Request /\ Registering(reqs') \subseteq Registering(reqs)
      /\ due' \in [Hosts -> BOOLEAN] /\ phase' \in [Hosts -> Phase]
      /\ cont' \in [Hosts -> {"startup", "idle", "resend"}]
  BY <1>1, BeginAttemptReqs DEF IInv
<1>3. /\ UNCHANGED <<planeVars, token, mem, disk, rejected, boundVars>>
      /\ tries' \in [Hosts -> 0..StartupTries]
  <2>1. CASE StartupAttempt(h)
    <3>1. tries[h] \in 0..StartupTries /\ tries[h] > 0 => tries[h] - 1 \in 0..StartupTries
      BY ConstantsAreNat
    <3> QED
      BY <2>1, <3>1, AgentTypes DEF StartupAttempt
  <2>2. CASE CredentialTick(h)
    BY <2>2, AgentTypes DEF CredentialTick
  <2> QED
    BY <2>1, <2>2
<1> QED
  BY <1>2, <1>3, AgentTypes, AgentStepKeepsInv DEF boundVars

\* The steps of the agent's loop that start no attempt.
LEMMA QuietStepsKeepInv ==
    ASSUME IInv, NEW h \in Hosts, StartupDone(h) \/ BecomesDue(h) \/ SendTick(h)
    PROVE  IInv'
<1>1. /\ UNCHANGED <<planeVars, token, mem, disk, rejected, cont, tries, boundVars>>
      /\ due' \in [Hosts -> BOOLEAN] /\ phase' \in [Hosts -> Phase]
  BY AgentTypes DEF StartupDone, BecomesDue, SendTick, Phase
<1>2. reqs' \subseteq Request /\ Registering(reqs') \subseteq Registering(reqs)
  <2>1. CASE UNCHANGED reqs
    BY <2>1, AgentTypes
  <2>2. CASE reqs' = reqs \cup {NewRequest(h, "ingest")}
    <3>1. NewRequest(h, "ingest") \in Request /\ NewRequest(h, "ingest").stage = "arrived"
      BY NewRequestType DEF IInv, Kind
    <3> QED
      BY <2>2, <3>1, AgentTypes DEF Registering
  <2> QED
    BY <2>1, <2>2 DEF StartupDone, BecomesDue, SendTick
<1> QED
  BY <1>1, <1>2, AgentTypes, AgentStepKeepsInv DEF boundVars

\* e.send gets its answer, and repairs a refused credential at once if it may.
LEMMA SendAnsweredKeepsInv ==
    ASSUME IInv, NEW h \in Hosts, NEW r \in reqs, SendAnswered(h, r)
    PROVE  IInv'
<1>1. /\ UNCHANGED <<planeVars, token, mem, disk, tries, boundVars>>
      /\ rejected' \in [Hosts -> BOOLEAN]
  BY AgentTypes DEF SendAnswered
<1>2. /\ reqs' \subseteq Request /\ Registering(reqs') \subseteq Registering(reqs)
      /\ due' \in [Hosts -> BOOLEAN] /\ phase' \in [Hosts -> Phase]
      /\ cont' \in [Hosts -> {"startup", "idle", "resend"}]
  <2>1. CASE BeginAttempt(h, "resend", reqs \ {r})
    BY <2>1, BeginAttemptReqs DEF IInv
  <2>2. CASE /\ phase' = [phase EXCEPT ![h] = "idle"] /\ reqs' = reqs \ {r}
             /\ UNCHANGED <<due, cont>>
    BY <2>2, AgentTypes DEF Phase, Registering
  <2> QED
    BY <2>1, <2>2 DEF SendAnswered
<1> QED
  BY <1>1, <1>2, AgentTypes, AgentStepKeepsInv DEF boundVars

LEMMA ResendAnsweredKeepsInv ==
    ASSUME IInv, NEW h \in Hosts, NEW r \in reqs, ResendAnswered(h, r)
    PROVE  IInv'
<1>1. /\ UNCHANGED <<planeVars, token, mem, disk, rejected, due, cont, tries, boundVars>>
      /\ phase' \in [Hosts -> Phase] /\ reqs' \subseteq Request
      /\ Registering(reqs') \subseteq Registering(reqs)
  BY AgentTypes DEF ResendAnswered, Phase, Registering
<1> QED
  BY <1>1, AgentTypes, AgentStepKeepsInv DEF boundVars

\* e.adopt, with or without the write of identity.json.
LEMMA AdoptKeepsInv ==
    ASSUME IInv, NEW h \in Hosts, NEW r \in reqs, Adopt(h, r)
    PROVE  IInv'
<1> DEFINE id == [enrolled |-> TRUE, agent |-> r.agent]
           n == [NewRequest(h, "ingest") EXCEPT !.agent = r.agent]
<1>1. r.agent \in AgentId \cup {Unregistered} /\ id \in Identity
  BY AgentTypes, RequestFields DEF Identity
<1>2. n \in Request /\ n.stage = "arrived"
  <2>1. NewRequest(h, "ingest") \in Request /\ NewRequest(h, "ingest").stage = "arrived"
    BY NewRequestType DEF IInv, Kind
  <2> QED
    BY <1>1, <2>1 DEF Request
<1>3. /\ mem' = [mem EXCEPT ![h] = id]
      /\ \/ disk' = [disk EXCEPT ![h] = id] /\ UNCHANGED faults
         \/ Fault /\ UNCHANGED disk
      /\ rejected' = [rejected EXCEPT ![h] = FALSE]
      /\ \/ /\ phase' = [phase EXCEPT ![h] = "resending"]
            /\ reqs' = (reqs \ {r}) \cup {n}
         \/ /\ cont[h] # "resend" /\ phase' = [phase EXCEPT ![h] = cont[h]]
            /\ reqs' = reqs \ {r}
      /\ UNCHANGED <<planeVars, token, due, cont, tries, restarts, operator>>
  BY DEF Adopt
<1> HIDE DEF id, n
<1>4. /\ mem' \in [Hosts -> Identity] /\ disk' \in [Hosts -> Identity]
      /\ rejected' \in [Hosts -> BOOLEAN]
  BY <1>1, <1>3, AgentTypes
<1>5. phase' \in [Hosts -> Phase]
  <2>1. cont[h] # "resend" => cont[h] \in Phase
    BY AgentTypes DEF Phase
  <2>2. "resending" \in Phase
    BY DEF Phase
  <2> QED
    BY <1>3, <2>1, <2>2, AgentTypes
<1>6. faults' \in 0..MaxFaults
  BY <1>3, AgentTypes, ConstantsAreNat DEF Fault
<1>7. reqs' \subseteq Request /\ Registering(reqs') \subseteq Registering(reqs)
  BY <1>2, <1>3, AgentTypes DEF Registering
<1> QED
  BY <1>3, <1>4, <1>5, <1>6, <1>7, AgentTypes, AgentStepKeepsInv

\* e.recover and e.enroll without a credential to adopt.
LEMMA FailuresKeepInv ==
    ASSUME IInv, NEW h \in Hosts, NEW r \in reqs, FallBackToToken(h, r) \/ AttemptFailed(h, r)
    PROVE  IInv'
<1>1. UNCHANGED <<planeVars, token, mem, disk, rejected, due, cont, tries, boundVars>>
  BY DEF FallBackToToken, AttemptFailed
<1>2. phase' \in [Hosts -> Phase]
  BY AgentTypes DEF FallBackToToken, AttemptFailed, AfterFailure, Phase
<1>3. reqs' \subseteq Request /\ Registering(reqs') \subseteq Registering(reqs)
  <2>1. CASE reqs' = reqs \ {r}
    BY <2>1, AgentTypes DEF Registering
  <2>2. CASE reqs' = (reqs \ {r}) \cup {NewRequest(h, "enroll")}
    <3>1. NewRequest(h, "enroll") \in Request /\ NewRequest(h, "enroll").stage = "arrived"
      BY NewRequestType DEF IInv, Kind
    <3> QED
      BY <2>2, <3>1, AgentTypes DEF Registering
  <2> QED
    BY <2>1, <2>2 DEF FallBackToToken, AttemptFailed
<1> QED
  BY <1>1, <1>2, <1>3, AgentTypes, AgentStepKeepsInv DEF boundVars

\* The wait of request r ends: its handler, if it goes on, holds what it held.
LEMMA RequestLostKeepsInv ==
    ASSUME IInv, NEW r \in reqs, RequestLost(r)
    PROVE  IInv'
<1> DEFINE failed == [r EXCEPT !.stage = "answered", !.answer = "error"]
           alone == [r EXCEPT !.waited = FALSE]
<1>1. r \in Request
  BY AgentTypes
<1>2. /\ failed \in Request /\ failed.stage = "answered"
      /\ alone \in Request /\ alone.stage = r.stage /\ alone.tok = r.tok
  BY <1>1 DEF Request, Stage, Answer
<1>3. /\ \/ reqs' = (reqs \ {r}) \cup {failed}
         \/ reqs' = (reqs \ {r}) \cup {failed, alone}
      /\ UNCHANGED <<planeVars, agentVars, restarts, operator>> /\ Fault
  BY DEF RequestLost
<1> HIDE DEF failed, alone
<1>4. faults' \in 0..MaxFaults
  BY <1>3, AgentTypes, ConstantsAreNat DEF Fault
<1>5. TypeOK'
  BY <1>2, <1>3, <1>4 DEF IInv, TypeOK, planeVars, agentVars
<1>6. RowsArePaid' /\ TokenBuysOneAgent'
  BY <1>3 DEF IInv, RowsArePaid, TokenBuysOneAgent, planeVars
<1>7. \A q \in Registering(reqs') :
          \/ q \in Registering(reqs) /\ q # r
          \/ q = alone /\ q.tok = r.tok /\ r \in Registering(reqs)
  BY <1>2, <1>3 DEF Registering
<1>8. PaidOnce'
  BY <1>3, <1>7 DEF IInv, PaidOnce, planeVars
<1> QED
  BY <1>5, <1>6, <1>8 DEF IInv

LEMMA DiscardAnswerKeepsInv ==
    ASSUME IInv, NEW r \in reqs, DiscardAnswer(r)
    PROVE  IInv'
<1>1. /\ UNCHANGED <<planeVars, agentVars, boundVars>> /\ reqs' \subseteq reqs
  BY DEF DiscardAnswer
<1>2. TypeOK'
  BY <1>1 DEF IInv, TypeOK, planeVars, agentVars, boundVars
<1>3. issued <= issued' /\ Registering(reqs') \subseteq Registering(reqs)
  BY <1>1, ConstantsAreNat DEF IInv, TypeOK, planeVars, Registering
<1> QED
  BY <1>1, <1>2, <1>3, BooksUntouched DEF planeVars

\* The agent starts, is reinstalled or dies.
LEMMA LeavingKeepsInv ==
    ASSUME IInv, NEW h \in Hosts,
           AgentStart(h) \/ AgentCrash(h) \/ \E t \in Tokens : Reinstall(h, t)
    PROVE  IInv'
<1>1. UNCHANGED <<planeVars, disk, cont, faults>> /\ reqs' = Unwaited(h)
  BY DEF AgentStart, AgentCrash, Reinstall, Boot, boundVars
<1>2. reqs' \subseteq Request
  BY <1>1, UnwaitedReqs DEF IInv
<1>3. /\ token' \in [Hosts -> Tokens \cup {NoToken}] /\ mem' \in [Hosts -> Identity]
      /\ rejected' \in [Hosts -> BOOLEAN] /\ due' \in [Hosts -> BOOLEAN]
      /\ phase' \in [Hosts -> Phase]
  <2>1. CASE AgentStart(h)
    <3>1. token[h] \in Tokens \cup {NoToken} /\ disk[h] \in Identity
      BY AgentTypes
    <3> QED
      BY <2>1, <3>1, AgentTypes DEF AgentStart, Boot, Phase
  <2>2. CASE AgentCrash(h)
    BY <2>2, AgentTypes DEF AgentCrash, Phase
  <2>3. CASE \E t \in Tokens : Reinstall(h, t)
    BY <2>3, AgentTypes DEF Reinstall, Boot, Phase
  <2> QED
    BY <2>1, <2>2, <2>3
<1>4. tries' \in [Hosts -> 0..StartupTries]
  <2>1. StartupTries \in 0..StartupTries
    BY ConstantsAreNat
  <2> QED
    BY <2>1, AgentTypes DEF AgentStart, AgentCrash, Reinstall, Boot
<1>5. restarts' \in 0..MaxRestarts /\ operator' \in 0..MaxOperator
  <2>1. /\ restarts' = restarts \/ (restarts < MaxRestarts /\ restarts' = restarts + 1)
        /\ operator' = operator \/ (operator < MaxOperator /\ operator' = operator + 1)
    BY DEF AgentStart, AgentCrash, Reinstall, boundVars
  <2> QED
    BY <2>1, AgentTypes, ConstantsAreNat
<1>6. TypeOK'
  BY <1>1, <1>2, <1>3, <1>4, <1>5 DEF IInv, TypeOK, planeVars
<1> QED
  BY <1>1, <1>6, BooksSurviveLeaving DEF planeVars

-----------------------------------------------------------------------------
(* The theorems. *)

LEMMA HandlersKeepInv ==
    ASSUME IInv, NEW r \in reqs, Handler(r)
    PROVE  IInv'
<1>1. CASE HandleEnroll(r) \/ HandleReenrollToken(r)
  <2>1. /\ r.stage \in {"arrived", "consume"} /\ ConsumeToken(r)
        /\ UNCHANGED <<store, known, revoked, owner, boughtBy, servers, issued, agentVars,
                       boundVars>>
    BY <1>1 DEF HandleEnroll, HandleReenrollToken
  <2> QED
    BY <2>1, ConsumeTokenKeepsInv
<1> QED
  BY <1>1, HandleReenrollKeepsInv, RegisterAgentKeepsInv, HandleIngestKeepsInv DEF Handler

LEMMA NextKeepsInv == IInv /\ [Next]_vars => IInv'
<1> SUFFICES ASSUME IInv, [Next]_vars PROVE IInv'
  OBVIOUS
<1>1. CASE UNCHANGED vars
  <2>1. TypeOK' /\ UNCHANGED <<tokens, known, boughtBy, reqs>> /\ issued' = issued
    BY <1>1 DEF IInv, TypeOK, vars, planeVars, agentVars, boundVars
  <2>2. issued <= issued'
    BY <2>1, ConstantsAreNat DEF TypeOK
  <2> QED
    BY <2>1, <2>2, BooksUntouched
<1>2. CASE \E h \in Hosts : AgentStep(h) \/ CredentialTick(h) \/ SendTick(h) \/ BecomesDue(h)
  BY <1>2, LeavingKeepsInv, AttemptsKeepInv, QuietStepsKeepInv, SendAnsweredKeepsInv,
     ResendAnsweredKeepsInv, AdoptKeepsInv, FailuresKeepInv DEF AgentStep
<1>3. CASE \E r \in reqs : Handler(r)
  BY <1>3, HandlersKeepInv
<1>4. CASE Environment
  BY <1>4, LookupFailsKeepsInv, ConsumeFailsKeepsInv, RegisterFailsKeepsInv, RefusalsKeepInv,
     RequestLostKeepsInv, DiscardAnswerKeepsInv, ApiRestartKeepsInv, TokenStepsKeepInv, RevokeAgentKeepsInv, LeavingKeepsInv
     DEF Environment
<1> QED
  BY <1>1, <1>2, <1>3, <1>4 DEF Next

\* The inductive invariant of enrollment: every row, and every handler that is about to
\* write one, has a consumed token of its own.
THEOREM CredentialInvariant == Spec => []IInv
  BY InitHolds, NextKeepsInv, PTL DEF Spec

\* TokenBuysOneAgent for every instance: however enrollments race, are repeated, lost
\* or cut off by a restart, no two rows of the agents table were created with one token.
THEOREM CredentialTokenBuysOneAgent == Spec => []TokenBuysOneAgent
<1>1. IInv => TokenBuysOneAgent
  BY DEF IInv
<1> QED
  BY <1>1, CredentialInvariant, PTL
=============================================================================
