------------------------------ MODULE SshProofs -----------------------------
(***************************************************************************)
(* The two halves of package sshx, which share no state.                   *)
(*                                                                         *)
(* The console, for any number of users, sessions and tabs: no SSH         *)
(* connection is forgotten, a session has one transport at most, and the   *)
(* contract of ConsoleContract is kept.                                    *)
(*                                                                         *)
(* The key setup, for any number of setups, keys, edits and faults: a      *)
(* rewrite of a file that nobody else changes drops no line but those that *)
(* mention its label, and a label has one key at most.                     *)
(***************************************************************************)
EXTENDS SshConsole, KeySetup, FiniteSetTheorems, TLAPS

-----------------------------------------------------------------------------
(* The console.                                                            *)
-----------------------------------------------------------------------------
\* Nobody but its Open knows of a session before it is registered.
Unseen(s) ==
    /\ s \notin sessions \cup doomed \cup closed \cup attached
    /\ \A t \in Tabs : link[<<s, t>>] = NoLink

\* How far Open has got says whether there is a connection, and a session that
\* was registered is in the map, about to be closed, or closed.
Registered ==
    \A s \in Session :
        /\ opening[s] \in {"idle", "dialling"} => term[s] = "none"
        /\ opening[s] \in {"connected", "session", "pty"} => term[s] = "connected"
        /\ opening[s] = "failed" => term[s] \in {"none", "closed"}
        /\ opening[s] = "dialled" => term[s] \in {"live", "exited"}
        /\ opening[s] # "done" => Unseen(s)
        /\ opening[s] = "done" => s \in sessions \cup doomed \cup closed
        /\ opening[s] = "done" => (s \in closed <=> term[s] = "closed")

\* Only the tab that was granted the claim serves the session.
OneClaim ==
    \A s \in Session : \A t \in Tabs :
        /\ Claimed(s, t) => s \in attached
        /\ link[<<s, t>>].pump # "off" => Claimed(s, t)
        /\ \A u \in Tabs : Claimed(s, t) /\ Claimed(s, u) => t = u

\* The inductive invariant.
ConsoleInv == TypeOK /\ Registered /\ OneClaim

\* What the type says of one link.
LEMMA LinkFields ==
    ASSUME TypeOK, NEW s \in Session, NEW t \in Tabs
    PROVE  /\ link[<<s, t>>] \in Link
           /\ link[<<s, t>>] = [via |-> link[<<s, t>>].via, stage |-> link[<<s, t>>].stage,
                            pump |-> link[<<s, t>>].pump, conn |-> link[<<s, t>>].conn]
  BY DEF TypeOK, Link

\* A tab without a handler has claimed nothing.
LEMMA NoLinkClaimsNothing ==
    /\ NoLink \in Link
    /\ NoLink.stage = "idle" /\ NoLink.pump = "off" /\ NoLink.conn = "off"
  BY DEF NoLink, Link

LEMMA InitHolds == Init => ConsoleInv
<1> SUFFICES ASSUME Init PROVE ConsoleInv
  OBVIOUS
<1>1. TypeOK
  BY NoLinkClaimsNothing DEF Init, TypeOK, Opening, Age
<1>2. Registered
  BY DEF Init, Registered, Unseen
<1>3. OneClaim
  BY NoLinkClaimsNothing DEF Init, OneClaim, Claimed
<1> QED
  BY <1>1, <1>2, <1>3 DEF ConsoleInv

-----------------------------------------------------------------------------
(* Steps of Open, of the shell and of the clock: no link changes. *)

\* What changes how far one Open is, and its connection, in a way that the two fit.
LEMMA OpeningKeepsInv ==
    ASSUME ConsoleInv, NEW s \in Session, opening[s] \notin {"dialled", "done"},
           NEW where \in Opening, NEW up \in {"none", "connected", "live", "closed"},
           \/ where = "dialling" /\ up = "none"
           \/ where \in {"connected", "session", "pty"} /\ up = "connected"
           \/ where = "failed" /\ up \in {"none", "closed"}
           \/ where = "dialled" /\ up = "live",
           opening' = [opening EXCEPT ![s] = where], term' = [term EXCEPT ![s] = up],
           UNCHANGED <<managerVars, age, link, stopped>>
    PROVE  ConsoleInv'
<1>1. TypeOK'
  BY DEF ConsoleInv, TypeOK, managerVars
<1>2. OneClaim'
  BY DEF ConsoleInv, OneClaim, Claimed, managerVars
<1>3. \A r \in Session : Unseen(r)' = Unseen(r)
  BY DEF Unseen, managerVars
<1>4. opening'[s] = where /\ term'[s] = up
  BY DEF ConsoleInv, TypeOK
<1>5. \A r \in Session : r # s => opening'[r] = opening[r] /\ term'[r] = term[r]
  BY DEF ConsoleInv, TypeOK
<1>6. Unseen(s)
  BY DEF ConsoleInv, Registered
<1>7. Registered'
  BY <1>3, <1>4, <1>5, <1>6 DEF ConsoleInv, Registered, managerVars
<1> QED
  BY <1>1, <1>2, <1>7 DEF ConsoleInv

LEMMA DialStepKeepsInv ==
    ASSUME ConsoleInv, NEW s \in Session,
           DialClient(s) \/ NewSession(s) \/ RequestPty(s) \/ Shell(s)
    PROVE  ConsoleInv'
<1>1. PICK where \in Opening, up \in {"none", "connected", "live", "closed"} :
           /\ opening[s] \in {"dialling", "connected", "session", "pty"}
           /\ \/ where \in {"connected", "session", "pty"} /\ up = "connected"
              \/ where = "failed" /\ up \in {"none", "closed"}
              \/ where = "dialled" /\ up = "live"
           /\ opening' = [opening EXCEPT ![s] = where] /\ term' = [term EXCEPT ![s] = up]
  <2> USE DEF DialClient, NewSession, RequestPty, Shell, DialStep, Opening
  <2>1. CASE opening' = [opening EXCEPT ![s] = "failed"]
             /\ term' = [term EXCEPT ![s] = IF @ = "none" THEN "none" ELSE "closed"]
    BY <2>1
  <2>2. CASE ~(opening' = [opening EXCEPT ![s] = "failed"]
               /\ term' = [term EXCEPT ![s] = IF @ = "none" THEN "none" ELSE "closed"])
    BY <2>2
  <2> QED
    BY <2>1, <2>2
<1>2. UNCHANGED <<managerVars, age, link, stopped>>
  BY DEF DialClient, NewSession, RequestPty, Shell, DialStep
<1> QED
  BY <1>1, <1>2, OpeningKeepsInv

LEMMA OpenKeepsInv ==
    ASSUME ConsoleInv, NEW s \in Session,
           \/ OpenStart(s) \/ DialClient(s) \/ NewSession(s) \/ RequestPty(s) \/ Shell(s)
           \/ Register(s)
    PROVE  ConsoleInv'
<1>1. CASE OpenStart(s)
  <2>1. term[s] = "none" /\ term' = [term EXCEPT ![s] = "none"]
    BY <1>1 DEF OpenStart, ConsoleInv, Registered, TypeOK
  <2>2. PICK where \in {"dialling", "failed"} : opening' = [opening EXCEPT ![s] = where]
    BY <1>1 DEF OpenStart
  <2> QED
    BY <1>1, <2>1, <2>2, OpeningKeepsInv DEF OpenStart, Opening
<1>2. CASE DialClient(s) \/ NewSession(s) \/ RequestPty(s) \/ Shell(s)
  BY <1>2, DialStepKeepsInv
<1>3. CASE Register(s)
  BY <1>3 DEF Register, ConsoleInv, managerVars, TypeOK, Registered, OneClaim, Unseen, Claimed,
              Opening
<1> QED
  BY <1>1, <1>2, <1>3

LEMMA SurroundingsKeepInv ==
    ASSUME ConsoleInv, NEW s \in Session, ShellExits(s) \/ GrowOlder(s)
    PROVE  ConsoleInv'
<1> USE DEF ConsoleInv, managerVars, TypeOK, Registered, OneClaim, Unseen, Claimed
<1>1. CASE ShellExits(s)
  BY <1>1 DEF ShellExits
<1>2. CASE GrowOlder(s)
  BY <1>2 DEF GrowOlder, Age
<1> QED
  BY <1>1, <1>2

-----------------------------------------------------------------------------
(* Ending a session. *)

LEMMA CloseTerminalKeepsInv ==
    ASSUME ConsoleInv, NEW s \in Session, CloseTerminal(s)
    PROVE  ConsoleInv'
  BY DEF CloseTerminal, ConsoleInv, TypeOK, Registered, OneClaim, Unseen, Claimed

\* Sessions that are or were registered can be forgotten: each of them is then
\* closed, or about to be.
LEMMA ForgetKeepsRegistered ==
    ASSUME ConsoleInv, NEW gone \in SUBSET Session, Forget(gone),
           \A s \in gone : opening[s] = "done",
           UNCHANGED <<opening, term>>,
           \A s \in Session : opening[s] # "done" =>
               \A t \in Tabs : link'[<<s, t>>] = link[<<s, t>>]
    PROVE  /\ Registered'
           /\ sessions' \subseteq Session /\ attached' \subseteq Session
           /\ closed' \subseteq Session /\ doomed' \subseteq Session \ closed'
  BY DEF Forget, ConsoleInv, TypeOK, Registered, Unseen

LEMMA MapIsRegistered ==
    ASSUME ConsoleInv
    PROVE  \A s \in sessions : s \in Session /\ opening[s] = "done"
  BY DEF ConsoleInv, TypeOK, Registered, Unseen

LEMMA SweepsKeepInv ==
    ASSUME ConsoleInv, Reap \/ Shutdown \/ \E s \in Session : Disconnect(s)
    PROVE  ConsoleInv'
<1>1. PICK gone \in SUBSET sessions : Forget(gone)
  BY DEF Reap, Shutdown, Disconnect
<1>2. /\ UNCHANGED <<opening, term, age, link>>
      /\ stopped' \in BOOLEAN
  BY DEF Reap, Shutdown, Disconnect, ConsoleInv, TypeOK
<1>3. gone \in SUBSET Session /\ \A s \in gone : opening[s] = "done"
  BY MapIsRegistered
<1>4. /\ Registered'
      /\ sessions' \subseteq Session /\ attached' \subseteq Session
      /\ closed' \subseteq Session /\ doomed' \subseteq Session \ closed'
  BY <1>1, <1>2, <1>3, ForgetKeepsRegistered
<1>5. OneClaim'
  BY <1>1, <1>2 DEF Forget, ConsoleInv, OneClaim, Claimed
<1> QED
  BY <1>2, <1>4, <1>5 DEF ConsoleInv, TypeOK

-----------------------------------------------------------------------------
(* The handler of a tab. *)

\* Whoever serves a tab found the session in the map.
LEMMA LinkIsRegistered ==
    ASSUME ConsoleInv, NEW s \in Session, NEW t \in Tabs, link[<<s, t>>] # NoLink
    PROVE  opening[s] = "done"
  BY DEF ConsoleInv, Registered, Unseen

\* A handler goes on: it neither claims nor gives back the session, and a pump
\* runs only for the tab that has the claim.
LEMMA HandlerGoesOn ==
    ASSUME ConsoleInv, NEW s \in Session, NEW t \in Tabs, NEW l \in Link,
           link' = [link EXCEPT ![<<s, t>>] = l],
           opening[s] = "done",
           Claimed(s, t) <=> l.stage \in {"upgrading", "serving", "closing", "ended"},
           l.pump # "off" => Claimed(s, t),
           UNCHANGED <<opening, term, age, stopped, attached>>,
           UNCHANGED <<sessions, closed, doomed>> \/ Forget({s})
    PROVE  ConsoleInv'
<1>1. /\ link' \in [Session \X Tabs -> Link]
      /\ link'[<<s, t>>] = l
      /\ \A r \in Session, u \in Tabs : <<r, u>> # <<s, t>> =>
             link'[<<r, u>>] = link[<<r, u>>]
  BY DEF ConsoleInv, TypeOK
<1>2. /\ Registered'
      /\ sessions' \subseteq Session /\ attached' \subseteq Session
      /\ closed' \subseteq Session /\ doomed' \subseteq Session \ closed'
  <2>1. \A r \in Session : opening[r] # "done" =>
             \A u \in Tabs : link'[<<r, u>>] = link[<<r, u>>]
    BY <1>1
  <2>2. CASE Forget({s})
    BY <2>1, <2>2, ForgetKeepsRegistered
  <2>3. CASE UNCHANGED <<sessions, closed, doomed>>
    BY <2>1, <2>3 DEF ConsoleInv, TypeOK, Registered, Unseen
  <2> QED
    BY <2>2, <2>3
<1>3. TypeOK'
  BY <1>1, <1>2 DEF ConsoleInv, TypeOK
<1>4. ASSUME NEW r \in Session, NEW u \in Tabs
      PROVE  /\ Claimed(r, u)' <=> Claimed(r, u)
             /\ link'[<<r, u>>].pump # "off" => Claimed(r, u)
  <2>1. CASE <<r, u>> = <<s, t>>
    BY <1>1, <2>1 DEF Claimed
  <2>2. CASE <<r, u>> # <<s, t>>
    BY <1>1, <2>2 DEF ConsoleInv, OneClaim, Claimed
  <2> QED
    BY <2>1, <2>2
<1>5. attached' = attached
  OBVIOUS
<1>6. OneClaim'
  BY <1>4, <1>5 DEF ConsoleInv, OneClaim
<1> QED
  BY <1>2, <1>3, <1>6 DEF ConsoleInv

LEMMA FindKeepsInv ==
    ASSUME ConsoleInv, NEW s \in Session, NEW t \in Tabs, NEW via \in Transports, Find(s, t, via)
    PROVE  ConsoleInv'
<1> DEFINE l == [via |-> via, stage |-> "found", pump |-> "off", conn |-> "off"]
<1>1. l \in Link
  BY DEF Link
<1>2. link' = [link EXCEPT ![<<s, t>>] = l]
  BY DEF Find, NoLink, ConsoleInv, TypeOK
<1>3. ~Claimed(s, t)
  BY NoLinkClaimsNothing DEF Find, Claimed
<1> QED
  BY <1>1, <1>2, <1>3, HandlerGoesOn, MapIsRegistered DEF Find, managerVars

\* Manager.Attach grants a claim only while nobody has one.
LEMMA AttachKeepsInv ==
    ASSUME ConsoleInv, NEW s \in Session, NEW t \in Tabs, Attach(s, t)
    PROVE  ConsoleInv'
<1>1. opening[s] = "done"
  BY LinkIsRegistered, NoLinkClaimsNothing DEF Attach
<1>2. link[<<s, t>>] \in Link /\ ~Claimed(s, t) /\ link[<<s, t>>].pump = "off"
  BY LinkFields DEF Attach, Claimed, ConsoleInv, OneClaim, Link
<1>3. CASE s \in closed \/ s \in attached
  <2> DEFINE l == [link[<<s, t>>] EXCEPT !.stage = "refused"]
  <2>1. l \in Link /\ link' = [link EXCEPT ![<<s, t>>] = l]
    BY <1>2, <1>3 DEF Attach, Link, ConsoleInv, TypeOK
  <2>2. l.stage = "refused" /\ l.pump = "off"
    BY <1>2 DEF Link
  <2> QED
    BY <1>1, <1>2, <1>3, <2>1, <2>2, HandlerGoesOn DEF Attach
<1>4. CASE s \notin closed /\ s \notin attached
  <2> DEFINE l == [link[<<s, t>>] EXCEPT !.stage = "upgrading"]
  <2>1. /\ l \in Link /\ link' = [link EXCEPT ![<<s, t>>] = l]
        /\ attached' = attached \cup {s}
        /\ UNCHANGED <<opening, term, sessions, closed, doomed, age, stopped>>
    BY <1>2, <1>4 DEF Attach, Link, ConsoleInv, TypeOK
  <2>2. l.stage = "upgrading" /\ l.pump = "off"
    BY <1>2 DEF Link
  <2> HIDE DEF l
  <2>3. /\ link' \in [Session \X Tabs -> Link]
        /\ link'[<<s, t>>] = l
        /\ \A r \in Session, u \in Tabs : <<r, u>> # <<s, t>> =>
               link'[<<r, u>>] = link[<<r, u>>]
    BY <2>1 DEF ConsoleInv, TypeOK
  <2>4. TypeOK'
    BY <2>1, <2>3 DEF ConsoleInv, TypeOK
  <2>5. Registered'
    BY <1>1, <2>1, <2>3 DEF ConsoleInv, Registered, Unseen
  <2>6. /\ Claimed(s, t)' /\ \A u \in Tabs : ~Claimed(s, u)
        /\ \A r \in Session, u \in Tabs : <<r, u>> # <<s, t>> =>
               (Claimed(r, u)' <=> Claimed(r, u))
    BY <1>4, <2>2, <2>3 DEF ConsoleInv, OneClaim, Claimed
  <2>7. \A r \in Session, u \in Tabs : link'[<<r, u>>].pump # "off" => Claimed(r, u)'
    BY <2>2, <2>3, <2>6 DEF ConsoleInv, OneClaim
  <2>8. \A r \in Session, u \in Tabs : Claimed(r, u)' => r \in attached'
    BY <2>1, <2>6 DEF ConsoleInv, OneClaim
  <2>9. \A r \in Session : \A u, v \in Tabs : Claimed(r, u)' /\ Claimed(r, v)' => u = v
    BY <2>6 DEF ConsoleInv, OneClaim
  <2>10. OneClaim'
    BY <2>7, <2>8, <2>9 DEF OneClaim
  <2> QED
    BY <2>4, <2>5, <2>10 DEF ConsoleInv
<1> QED
  BY <1>3, <1>4

LEMMA HandlersKeepInv ==
    ASSUME ConsoleInv, NEW s \in Session, NEW t \in Tabs,
           \/ StartServing(s, t) \/ UpgradeFails(s, t) \/ PumpEnds(s, t)
           \/ PumpWriteFails(s, t) \/ ReaderCancelled(s, t)
           \/ BrowserStalls(s, t) \/ BrowserTakes(s, t) \/ BrowserLeaves(s, t)
           \/ LoopEnds(s, t) \/ KeystrokeFails(s, t) \/ HandlerReturns(s, t)
    PROVE  ConsoleInv'
<1>1. CASE StartServing(s, t)
  <2> DEFINE l == [link[<<s, t>>] EXCEPT !.stage = "serving", !.pump = "running", !.conn = "open"]
  <2>1. link[<<s, t>>] \in Link
    BY LinkFields DEF ConsoleInv
  <2>2. l \in Link
    BY <2>1 DEF Link
  <2>3. link' = [link EXCEPT ![<<s, t>>] = l]
    BY <1>1 DEF StartServing, ConsoleInv, TypeOK
  <2>4. opening[s] = "done"
    BY <1>1, LinkIsRegistered, NoLinkClaimsNothing DEF StartServing
  <2>5. /\ Claimed(s, t) <=> l.stage \in {"upgrading", "serving", "closing", "ended"}
        /\ l.pump # "off" => Claimed(s, t)
    BY <1>1, <2>1 DEF StartServing, Claimed, Link, ConsoleInv, OneClaim
  <2>6. /\ UNCHANGED <<opening, term, age, stopped, attached>>
        /\ UNCHANGED <<sessions, closed, doomed>> \/ Forget({s})
    BY <1>1 DEF StartServing, managerVars, Forget
  <2> HIDE DEF l
  <2> QED
    BY <2>2, <2>3, <2>4, <2>5, <2>6, HandlerGoesOn
<1>2. CASE UpgradeFails(s, t)
  <2> DEFINE l == [link[<<s, t>>] EXCEPT !.stage = "closing"]
  <2>1. link[<<s, t>>] \in Link
    BY LinkFields DEF ConsoleInv
  <2>2. l \in Link
    BY <2>1 DEF Link
  <2>3. link' = [link EXCEPT ![<<s, t>>] = l]
    BY <1>2 DEF UpgradeFails, ConsoleInv, TypeOK
  <2>4. opening[s] = "done"
    BY <1>2, LinkIsRegistered, NoLinkClaimsNothing DEF UpgradeFails
  <2>5. /\ Claimed(s, t) <=> l.stage \in {"upgrading", "serving", "closing", "ended"}
        /\ l.pump # "off" => Claimed(s, t)
    BY <1>2, <2>1 DEF UpgradeFails, Claimed, Link, ConsoleInv, OneClaim
  <2>6. /\ UNCHANGED <<opening, term, age, stopped, attached>>
        /\ UNCHANGED <<sessions, closed, doomed>> \/ Forget({s})
    BY <1>2 DEF UpgradeFails, managerVars, Forget
  <2> HIDE DEF l
  <2> QED
    BY <2>2, <2>3, <2>4, <2>5, <2>6, HandlerGoesOn
<1>3. CASE PumpEnds(s, t)
  <2> DEFINE l == [link[<<s, t>>] EXCEPT !.pump = "done",
                                           !.conn = IF link[<<s, t>>].via = "ws" THEN "shut" ELSE @]
  <2>1. link[<<s, t>>] \in Link
    BY LinkFields DEF ConsoleInv
  <2>2. l \in Link
    BY <2>1 DEF Link
  <2>3. link' = [link EXCEPT ![<<s, t>>] = l]
    BY <1>3 DEF PumpEnds, ConsoleInv, TypeOK
  <2>4. opening[s] = "done"
    BY <1>3, LinkIsRegistered, NoLinkClaimsNothing DEF PumpEnds
  <2>5. /\ Claimed(s, t) <=> l.stage \in {"upgrading", "serving", "closing", "ended"}
        /\ l.pump # "off" => Claimed(s, t)
    BY <1>3, <2>1 DEF PumpEnds, Claimed, Link, ConsoleInv, OneClaim
  <2>6. /\ UNCHANGED <<opening, term, age, stopped, attached>>
        /\ UNCHANGED <<sessions, closed, doomed>> \/ Forget({s})
    BY <1>3 DEF PumpEnds, managerVars, Forget
  <2> HIDE DEF l
  <2> QED
    BY <2>2, <2>3, <2>4, <2>5, <2>6, HandlerGoesOn
<1>4. CASE PumpWriteFails(s, t)
  <2> DEFINE l == [link[<<s, t>>] EXCEPT !.pump = "done"]
  <2>1. link[<<s, t>>] \in Link
    BY LinkFields DEF ConsoleInv
  <2>2. l \in Link
    BY <2>1 DEF Link
  <2>3. link' = [link EXCEPT ![<<s, t>>] = l]
    BY <1>4 DEF PumpWriteFails, ConsoleInv, TypeOK
  <2>4. opening[s] = "done"
    BY <1>4, LinkIsRegistered, NoLinkClaimsNothing DEF PumpWriteFails
  <2>5. /\ Claimed(s, t) <=> l.stage \in {"upgrading", "serving", "closing", "ended"}
        /\ l.pump # "off" => Claimed(s, t)
    BY <1>4, <2>1 DEF PumpWriteFails, Claimed, Link, ConsoleInv, OneClaim
  <2>6. /\ UNCHANGED <<opening, term, age, stopped, attached>>
        /\ UNCHANGED <<sessions, closed, doomed>> \/ Forget({s})
    BY <1>4 DEF PumpWriteFails, managerVars, Forget
  <2> HIDE DEF l
  <2> QED
    BY <2>2, <2>3, <2>4, <2>5, <2>6, HandlerGoesOn
<1>5. CASE ReaderCancelled(s, t)
  <2> DEFINE l == [link[<<s, t>>] EXCEPT !.pump = "done"]
  <2>1. link[<<s, t>>] \in Link
    BY LinkFields DEF ConsoleInv
  <2>2. l \in Link
    BY <2>1 DEF Link
  <2>3. link' = [link EXCEPT ![<<s, t>>] = l]
    BY <1>5 DEF ReaderCancelled, ConsoleInv, TypeOK
  <2>4. opening[s] = "done"
    BY <1>5, LinkIsRegistered, NoLinkClaimsNothing DEF ReaderCancelled
  <2>5. /\ Claimed(s, t) <=> l.stage \in {"upgrading", "serving", "closing", "ended"}
        /\ l.pump # "off" => Claimed(s, t)
    BY <1>5, <2>1 DEF ReaderCancelled, Claimed, Link, ConsoleInv, OneClaim
  <2>6. /\ UNCHANGED <<opening, term, age, stopped, attached>>
        /\ UNCHANGED <<sessions, closed, doomed>> \/ Forget({s})
    BY <1>5 DEF ReaderCancelled, managerVars, Forget
  <2> HIDE DEF l
  <2> QED
    BY <2>2, <2>3, <2>4, <2>5, <2>6, HandlerGoesOn
<1>6. CASE BrowserStalls(s, t) \/ BrowserTakes(s, t) \/ BrowserLeaves(s, t)
  <2>0. PICK c \in {"stuck", "open", "lost"} : link' = [link EXCEPT ![<<s, t>>].conn = c]
    BY <1>6 DEF BrowserStalls, BrowserTakes, BrowserLeaves
  <2> DEFINE l == [link[<<s, t>>] EXCEPT !.conn = c]
  <2>1. link[<<s, t>>] \in Link
    BY LinkFields DEF ConsoleInv
  <2>2. l \in Link
    BY <2>1 DEF Link
  <2>3. link' = [link EXCEPT ![<<s, t>>] = l]
    BY <2>0 DEF ConsoleInv, TypeOK
  <2>4. opening[s] = "done"
    BY <1>6, LinkIsRegistered, NoLinkClaimsNothing DEF BrowserStalls, BrowserTakes, BrowserLeaves
  <2>5. /\ Claimed(s, t) <=> l.stage \in {"upgrading", "serving", "closing", "ended"}
        /\ l.pump # "off" => Claimed(s, t)
    BY <1>6, <2>1 DEF BrowserStalls, BrowserTakes, BrowserLeaves, Claimed, Link, ConsoleInv, OneClaim
  <2>6. /\ UNCHANGED <<opening, term, age, stopped, attached>>
        /\ UNCHANGED <<sessions, closed, doomed>> \/ Forget({s})
    BY <1>6 DEF BrowserStalls, BrowserTakes, BrowserLeaves, managerVars, Forget
  <2> HIDE DEF l
  <2> QED
    BY <2>2, <2>3, <2>4, <2>5, <2>6, HandlerGoesOn
<1>7. CASE LoopEnds(s, t)
  <2> DEFINE l == [link[<<s, t>>] EXCEPT !.stage = "closing"]
  <2>1. link[<<s, t>>] \in Link
    BY LinkFields DEF ConsoleInv
  <2>2. l \in Link
    BY <2>1 DEF Link
  <2>3. link' = [link EXCEPT ![<<s, t>>] = l]
    BY <1>7 DEF LoopEnds, ConsoleInv, TypeOK
  <2>4. opening[s] = "done"
    BY <1>7, LinkIsRegistered, NoLinkClaimsNothing DEF LoopEnds
  <2>5. /\ Claimed(s, t) <=> l.stage \in {"upgrading", "serving", "closing", "ended"}
        /\ l.pump # "off" => Claimed(s, t)
    BY <1>7, <2>1 DEF LoopEnds, Claimed, Link, ConsoleInv, OneClaim
  <2>6. /\ UNCHANGED <<opening, term, age, stopped, attached>>
        /\ UNCHANGED <<sessions, closed, doomed>> \/ Forget({s})
    BY <1>7 DEF LoopEnds, managerVars, Forget
  <2> HIDE DEF l
  <2> QED
    BY <2>2, <2>3, <2>4, <2>5, <2>6, HandlerGoesOn
<1>8. CASE KeystrokeFails(s, t)
  <2> DEFINE l == [link[<<s, t>>] EXCEPT !.stage = "closing", !.conn = "shut"]
  <2>1. link[<<s, t>>] \in Link
    BY LinkFields DEF ConsoleInv
  <2>2. l \in Link
    BY <2>1 DEF Link
  <2>3. link' = [link EXCEPT ![<<s, t>>] = l]
    BY <1>8 DEF KeystrokeFails, ConsoleInv, TypeOK
  <2>4. opening[s] = "done"
    BY <1>8, LinkIsRegistered, NoLinkClaimsNothing DEF KeystrokeFails
  <2>5. /\ Claimed(s, t) <=> l.stage \in {"upgrading", "serving", "closing", "ended"}
        /\ l.pump # "off" => Claimed(s, t)
    BY <1>8, <2>1 DEF KeystrokeFails, Claimed, Link, ConsoleInv, OneClaim
  <2>6. /\ UNCHANGED <<opening, term, age, stopped, attached>>
        /\ UNCHANGED <<sessions, closed, doomed>> \/ Forget({s})
    BY <1>8 DEF KeystrokeFails, managerVars, Forget
  <2> HIDE DEF l
  <2> QED
    BY <2>2, <2>3, <2>4, <2>5, <2>6, HandlerGoesOn
<1>9. CASE HandlerReturns(s, t)
  <2> DEFINE l == [link[<<s, t>>] EXCEPT !.stage = "ended", !.conn = "shut"]
  <2>1. link[<<s, t>>] \in Link
    BY LinkFields DEF ConsoleInv
  <2>2. l \in Link
    BY <2>1 DEF Link
  <2>3. link' = [link EXCEPT ![<<s, t>>] = l]
    BY <1>9 DEF HandlerReturns, ConsoleInv, TypeOK
  <2>4. opening[s] = "done"
    BY <1>9, LinkIsRegistered, NoLinkClaimsNothing DEF HandlerReturns
  <2>5. /\ Claimed(s, t) <=> l.stage \in {"upgrading", "serving", "closing", "ended"}
        /\ l.pump # "off" => Claimed(s, t)
    BY <1>9, <2>1 DEF HandlerReturns, Claimed, Link, ConsoleInv, OneClaim
  <2>6. /\ UNCHANGED <<opening, term, age, stopped, attached>>
        /\ UNCHANGED <<sessions, closed, doomed>> \/ Forget({s})
    BY <1>9 DEF HandlerReturns, managerVars, Forget
  <2> HIDE DEF l
  <2> QED
    BY <2>2, <2>3, <2>4, <2>5, <2>6, HandlerGoesOn
<1> QED
  BY <1>1, <1>2, <1>3, <1>4, <1>5, <1>6, <1>7, <1>8, <1>9

-----------------------------------------------------------------------------
(* The theorems. *)

LEMMA NextKeepsInv == ConsoleInv /\ [Next]_vars => ConsoleInv'
<1> SUFFICES ASSUME ConsoleInv, [Next]_vars PROVE ConsoleInv'
  OBVIOUS
<1>1. CASE UNCHANGED vars
  BY <1>1 DEF vars, managerVars, ConsoleInv, TypeOK, Registered, OneClaim, Unseen, Claimed
<1>2. CASE Reap \/ Shutdown
  BY <1>2, SweepsKeepInv
<1>3. ASSUME NEW s \in Session,
             \/ OpenStart(s) \/ DialClient(s) \/ NewSession(s) \/ RequestPty(s) \/ Shell(s) \/ Register(s)
             \/ CloseTerminal(s) \/ Disconnect(s) \/ ShellExits(s) \/ GrowOlder(s)
      PROVE  ConsoleInv'
  BY <1>3, OpenKeepsInv, CloseTerminalKeepsInv, SweepsKeepInv, SurroundingsKeepInv
<1>4. ASSUME NEW s \in Session, NEW t \in Tabs,
             \/ HandlerStep(s, t) \/ UpgradeFails(s, t)
             \/ PumpWriteFails(s, t) \/ KeystrokeFails(s, t)
             \/ BrowserStalls(s, t) \/ BrowserTakes(s, t) \/ BrowserLeaves(s, t)
      PROVE  ConsoleInv'
  BY <1>4, AttachKeepsInv, HandlersKeepInv DEF HandlerStep
<1>5. ASSUME NEW s \in Session, NEW t \in Tabs, NEW via \in Transports, Find(s, t, via)
      PROVE  ConsoleInv'
  BY <1>5, FindKeepsInv
<1> QED
  BY <1>1, <1>2, <1>3, <1>4, <1>5 DEF Next

\* Type correctness of the console, together with what Open, the map and the
\* links say of each other.
THEOREM ConsoleInvariant == Spec => []ConsoleInv
<1> QED
  BY InitHolds, NextKeepsInv, PTL DEF Spec

\* As long as an SSH connection is up, somebody knows of it and will close it,
\* whatever tabs, reaper, operator and shutdown do at the same time.
THEOREM ConsoleForgetsNoConnection == Spec => []NoConnectionForgotten
<1>1. ConsoleInv => NoConnectionForgotten
  BY DEF ConsoleInv, TypeOK, Opening, Registered, NoConnectionForgotten
<1> QED
  BY <1>1, ConsoleInvariant, PTL

\* However many tabs race for a session, one of them pumps its terminal.
THEOREM ConsoleHasOneTransport == Spec => []OneTransport
<1>1. ConsoleInv => OneTransport
  BY DEF ConsoleInv, OneClaim, OneTransport
<1> QED
  BY <1>1, ConsoleInvariant, PTL

-----------------------------------------------------------------------------
(* The refinement of ConsoleContract. *)

\* The life of a session as the contract sees it.
Life(s) == IF s \in closed THEN "gone"
           ELSE IF s \in attached THEN "held"
           ELSE IF s \in sessions \cup doomed THEN "parked"
           ELSE "absent"

Holders(s) == {t \in Tabs : Claimed(s, t)}

\* A step that changes neither is one the contract does not see.
LEMMA ContractStutters ==
    ASSUME \A s \in Session : Life(s)' = Life(s) /\ Holders(s)' = Holders(s)
    PROVE  UNCHANGED Contract!contractVars
  BY DEF Contract!contractVars, Life, Holders

LEMMA ContractStarts == Init => Contract!ContractInit
  BY NoLinkClaimsNothing DEF Init, Contract!ContractInit, Claimed

\* Forgetting a session that was registered is not its end: that is closing it.
LEMMA ForgettingIsNotSeen ==
    ASSUME ConsoleInv, NEW gone \in SUBSET Session, Forget(gone),
           \A s \in gone : opening[s] = "done"
    PROVE  \A s \in Session : Life(s)' = Life(s)
  BY DEF Forget, ConsoleInv, Registered, Life

\* The steps of a handler other than Attach change no claim.
LEMMA HandlersKeepClaims ==
    ASSUME ConsoleInv, NEW s \in Session, NEW t \in Tabs,
           \/ StartServing(s, t) \/ UpgradeFails(s, t) \/ PumpEnds(s, t)
           \/ PumpWriteFails(s, t) \/ ReaderCancelled(s, t)
           \/ BrowserStalls(s, t) \/ BrowserTakes(s, t) \/ BrowserLeaves(s, t)
           \/ LoopEnds(s, t) \/ KeystrokeFails(s, t) \/ HandlerReturns(s, t)
           \/ \E via \in Transports : Find(s, t, via)
    PROVE  /\ \A r \in Session, u \in Tabs : Claimed(r, u)' <=> Claimed(r, u)
           /\ \/ UNCHANGED managerVars
              \/ Forget({s}) /\ opening[s] = "done"
<1>1. link[<<s, t>>] \in Link /\ link \in [Session \X Tabs -> Link]
  BY LinkFields DEF ConsoleInv, TypeOK
<1>2. \A r \in Session, u \in Tabs : <<r, u>> # <<s, t>> => link'[<<r, u>>] = link[<<r, u>>]
  BY <1>1 DEF StartServing, UpgradeFails, PumpEnds, PumpWriteFails, ReaderCancelled,
              BrowserStalls, BrowserTakes, BrowserLeaves, LoopEnds, KeystrokeFails, HandlerReturns, Find
<1>3. Claimed(s, t)' <=> Claimed(s, t)
  <2>1. CASE PumpEnds(s, t)
    BY <1>1, <2>1 DEF PumpEnds, Claimed, Link
  <2>2. CASE PumpWriteFails(s, t) \/ ReaderCancelled(s, t)
    BY <1>1, <2>2 DEF PumpWriteFails, ReaderCancelled, Claimed, Link
  <2>3. CASE BrowserStalls(s, t) \/ BrowserTakes(s, t) \/ BrowserLeaves(s, t)
    BY <1>1, <2>3 DEF BrowserStalls, BrowserTakes, BrowserLeaves, Claimed, Link
  <2>4. CASE StartServing(s, t) \/ UpgradeFails(s, t)
    BY <1>1, <2>4 DEF StartServing, UpgradeFails, Claimed, Link
  <2>5. CASE LoopEnds(s, t) \/ KeystrokeFails(s, t) \/ HandlerReturns(s, t)
    BY <1>1, <2>5 DEF LoopEnds, KeystrokeFails, HandlerReturns, Claimed, Link
  <2>6. CASE \E via \in Transports : Find(s, t, via)
    BY <1>1, <2>6, NoLinkClaimsNothing DEF Find, Claimed, Link
  <2> QED
    BY <2>1, <2>2, <2>3, <2>4, <2>5, <2>6
<1>4. \A r \in Session, u \in Tabs : Claimed(r, u)' <=> Claimed(r, u)
  BY <1>2, <1>3 DEF Claimed
<1>5. UNCHANGED managerVars \/ (Forget({s}) /\ link[<<s, t>>].stage # "idle")
  BY DEF StartServing, UpgradeFails, PumpEnds, PumpWriteFails, ReaderCancelled,
         BrowserStalls, BrowserTakes, BrowserLeaves, LoopEnds, KeystrokeFails, HandlerReturns, Find
<1> QED
  BY <1>4, <1>5, LinkIsRegistered, NoLinkClaimsNothing

\* A granted claim is a Hold, a refused one is not seen.
LEMMA AttachIsHold ==
    ASSUME ConsoleInv, NEW s \in Session, NEW t \in Tabs, Attach(s, t)
    PROVE  [Contract!ContractNext]_(Contract!contractVars)
<1>1. link[<<s, t>>] \in Link /\ link \in [Session \X Tabs -> Link] /\ opening[s] = "done"
  BY LinkFields, LinkIsRegistered, NoLinkClaimsNothing DEF Attach, ConsoleInv, TypeOK
<1>2. \A r \in Session, u \in Tabs : <<r, u>> # <<s, t>> => (Claimed(r, u)' <=> Claimed(r, u))
  BY <1>1 DEF Attach, Claimed
<1>3. CASE s \in closed \/ s \in attached
  <2>1. ~Claimed(s, t) /\ ~Claimed(s, t)'
    BY <1>1, <1>3 DEF Attach, Claimed, Link
  <2>2. \A r \in Session : Life(r)' = Life(r) /\ Holders(r)' = Holders(r)
    BY <1>2, <1>3, <2>1 DEF Attach, Life, Holders
  <2> QED
    BY <2>2, ContractStutters
<1>4. CASE s \notin closed /\ s \notin attached
  <2>1. Claimed(s, t)' /\ \A u \in Tabs : ~Claimed(s, u)
    BY <1>1, <1>4 DEF Attach, Claimed, Link, ConsoleInv, OneClaim
  <2>2. Holders(s)' = {t} /\ \A r \in Session : r # s => Holders(r)' = Holders(r)
    BY <1>2, <2>1 DEF Holders
  <2>3. /\ Life(s) = "parked" /\ Life(s)' = "held"
        /\ \A r \in Session : r # s => Life(r)' = Life(r)
    BY <1>1, <1>4 DEF Attach, Life, ConsoleInv, Registered
  <2>4. Contract!Hold(s, t)
    BY <2>2, <2>3 DEF Contract!Hold, Life, Holders
  <2> QED
    BY <2>4 DEF Contract!ContractNext
<1> QED
  BY <1>3, <1>4

LEMMA StepIsContractStep ==
    ConsoleInv /\ [Next]_vars => [Contract!ContractNext]_(Contract!contractVars)
<1> SUFFICES ASSUME ConsoleInv, [Next]_vars
             PROVE  [Contract!ContractNext]_(Contract!contractVars)
  OBVIOUS
<1>1. CASE UNCHANGED vars
  <2>1. \A s \in Session : Life(s)' = Life(s) /\ Holders(s)' = Holders(s)
    BY <1>1 DEF vars, managerVars, Life, Holders, Claimed
  <2> QED
    BY <2>1, ContractStutters
<1>2. CASE Reap \/ Shutdown \/ \E s \in Session : Disconnect(s)
  <2>1. PICK gone \in SUBSET sessions : Forget(gone)
    BY <1>2 DEF Reap, Shutdown, Disconnect
  <2>2. gone \in SUBSET Session /\ \A s \in gone : opening[s] = "done"
    BY MapIsRegistered
  <2>3. \A s \in Session : Life(s)' = Life(s)
    BY <2>1, <2>2, ForgettingIsNotSeen
  <2>4. \A s \in Session : Holders(s)' = Holders(s)
    BY <1>2 DEF Reap, Shutdown, Disconnect, Holders, Claimed
  <2> QED
    BY <2>3, <2>4, ContractStutters
<1>3. ASSUME NEW s \in Session, Register(s)
      PROVE  [Contract!ContractNext]_(Contract!contractVars)
  <2>1. /\ Life(s) = "absent" /\ Life(s)' = "parked"
        /\ \A r \in Session : r # s => Life(r)' = Life(r)
    BY <1>3 DEF Register, ConsoleInv, Registered, Unseen, Life
  <2>2. \A r \in Session : Holders(r)' = Holders(r)
    BY <1>3 DEF Register, Holders, Claimed
  <2>3. Contract!Park(s)
    BY <2>1, <2>2 DEF Contract!Park, Life, Holders
  <2> QED
    BY <2>3 DEF Contract!ContractNext
<1>4. ASSUME NEW s \in Session, CloseTerminal(s)
      PROVE  [Contract!ContractNext]_(Contract!contractVars)
  <2>1. /\ Life(s) \in {"parked", "held"} /\ Life(s)' = "gone"
        /\ \A r \in Session : r # s => Life(r)' = Life(r)
    BY <1>4 DEF CloseTerminal, ConsoleInv, TypeOK, Life
  <2>2. \A r \in Session : Holders(r)' = Holders(r)
    BY <1>4 DEF CloseTerminal, Holders, Claimed
  <2>3. Contract!Finish(s)
    BY <2>1, <2>2 DEF Contract!Finish, Life, Holders
  <2> QED
    BY <2>3 DEF Contract!ContractNext
<1>5. ASSUME NEW s \in Session,
             \/ OpenStart(s) \/ DialClient(s) \/ NewSession(s) \/ RequestPty(s) \/ Shell(s)
             \/ ShellExits(s) \/ GrowOlder(s)
      PROVE  [Contract!ContractNext]_(Contract!contractVars)
  <2>1. \A r \in Session : Life(r)' = Life(r) /\ Holders(r)' = Holders(r)
    BY <1>5 DEF OpenStart, DialClient, NewSession, RequestPty, Shell, DialStep,
         ShellExits, GrowOlder, managerVars,
                Life, Holders, Claimed
  <2> QED
    BY <2>1, ContractStutters
<1>6. ASSUME NEW s \in Session, NEW t \in Tabs, Attach(s, t)
      PROVE  [Contract!ContractNext]_(Contract!contractVars)
  BY <1>6, AttachIsHold
<1>7. ASSUME NEW s \in Session, NEW t \in Tabs,
             \/ StartServing(s, t) \/ UpgradeFails(s, t) \/ PumpEnds(s, t)
             \/ PumpWriteFails(s, t) \/ ReaderCancelled(s, t)
             \/ BrowserStalls(s, t) \/ BrowserTakes(s, t) \/ BrowserLeaves(s, t)
             \/ LoopEnds(s, t) \/ KeystrokeFails(s, t) \/ HandlerReturns(s, t)
             \/ \E via \in Transports : Find(s, t, via)
      PROVE  [Contract!ContractNext]_(Contract!contractVars)
  <2>1. /\ \A r \in Session, u \in Tabs : Claimed(r, u)' <=> Claimed(r, u)
        /\ UNCHANGED managerVars \/ (Forget({s}) /\ opening[s] = "done")
    BY <1>7, HandlersKeepClaims
  <2>2. \A r \in Session : Holders(r)' = Holders(r)
    BY <2>1 DEF Holders
  <2>3. \A r \in Session : Life(r)' = Life(r)
    BY <2>1, ForgettingIsNotSeen DEF managerVars, Life
  <2> QED
    BY <2>2, <2>3, ContractStutters
<1> QED
  BY <1>1, <1>2, <1>3, <1>4, <1>5, <1>6, <1>7 DEF Next, HandlerStep

\* The console implements its contract: a session is parked, then held by one
\* claimant, then gone for good.
THEOREM ConsoleKeepsContract == Spec => KeepsContract
<1> QED
  BY ContractStarts, StepIsContractStep, ConsoleInvariant, PTL
     DEF Spec, KeepsContract, Contract!ContractSpec

-----------------------------------------------------------------------------
(* The key setup.                                                          *)
-----------------------------------------------------------------------------
\* A label is on one line at most.
WellFormed(lines) ==
    /\ IsFiniteSet(lines)
    /\ \A l, m \in lines : l.comment \in Comments /\ l.comment = m.comment => l = m

FilesAreWellFormed == WellFormed(file) /\ \A s \in Setups : WellFormed(tmp[s])

\* The copy of s has no line of its label until the key is added; and, while nobody else
\* writes the file, it is what awk wrote, or nothing, until the guard has let it through,
\* and then lacks only lines that PREV counted.
CopyIsSound(s) ==
    /\ at[s] \in {"guard", "append"} => \A l \in tmp[s] : l.comment # comment[s]
    /\ (s \in steady /\ at[s] = "guard") => tmp[s] \in {Filtered(file, comment[s]), {}}
    /\ (s \in steady /\ at[s] \in {"append", "rename"})
          => \A l \in file \ tmp[s] : Mentions(l, comment[s])

CopiesAreSound == \A s \in Setups : CopyIsSound(s)

\* The lines of Pulse's comment, as grep finds them.
Mentioned(s) == {l \in file : Mentions(l, comment[s])}

\* While nobody else writes the file, ORIG and PREV are what they were counted to be.
CountIsTrue(s) ==
    /\ at[s] \in {"countPrev", "filter", "guard"} => counted[s].orig = Cardinality(file)
    /\ at[s] \in {"filter", "guard"} => counted[s].prev = Cardinality(Mentioned(s))

CountsAreTrue == \A s \in steady : CountIsTrue(s)

\* A setup that was not asked for has no script.
ScriptsAgree == \A s \in Setups : answer[s] = "none" => at[s] = "none"

\* The inductive invariant of the key setup.
SetupInv ==
    SetupTypeOK /\ FilesAreWellFormed /\ CopiesAreSound /\ CountsAreTrue /\ ScriptsAgree

-----------------------------------------------------------------------------
(* Lines and files. *)

LEMMA OwnLineFields ==
    ASSUME NEW k \in OwnKeys
    PROVE  OwnLine(k) \in Line /\ OwnLine(k).comment \notin Comments
  BY DEF OwnLine, Line, Comments

LEMMA PulseLineFields ==
    ASSUME SetupTypeOK, NEW s \in Setups
    PROVE  PulseLine(s) \in Line /\ PulseLine(s).comment = comment[s]
  BY DEF PulseLine, Line, SetupTypeOK

LEMMA EmptyIsWellFormed == WellFormed({})
  BY FS_EmptySet DEF WellFormed

\* Lines that are taken out leave a file well formed.
LEMMA SubsetIsWellFormed ==
    ASSUME NEW lines, WellFormed(lines), NEW kept \in SUBSET lines
    PROVE  WellFormed(kept)
<1>1. IsFiniteSet(kept)
  BY FS_Subset DEF WellFormed
<1> QED
  BY <1>1 DEF WellFormed

\* The operator's key goes in.
LEMMA OwnKeyIsWellFormed ==
    ASSUME NEW lines, WellFormed(lines), NEW k \in OwnKeys
    PROVE  WellFormed(lines \cup {OwnLine(k)})
<1> DEFINE x == OwnLine(k)
<1>1. x.comment \notin Comments
  BY OwnLineFields
<1>2. IsFiniteSet(lines \cup {x})
  BY FS_AddElement DEF WellFormed
<1> HIDE DEF x
<1> QED
  BY <1>1, <1>2 DEF WellFormed, x

\* Pulse's key goes into a copy without its label.
LEMMA PulseKeyIsWellFormed ==
    ASSUME SetupTypeOK, NEW lines, WellFormed(lines), NEW s \in Setups,
           \A l \in lines : l.comment # comment[s]
    PROVE  WellFormed(lines \cup {PulseLine(s)})
<1> DEFINE x == PulseLine(s)
<1>1. x.comment = comment[s]
  BY PulseLineFields
<1>2. IsFiniteSet(lines \cup {x})
  BY FS_AddElement DEF WellFormed
<1> HIDE DEF x
<1> QED
  BY <1>1, <1>2 DEF WellFormed, x

\* If no more lines are there than mention the comment, every line does.
LEMMA AllMention ==
    ASSUME SetupInv, NEW s \in Setups, Cardinality(file) <= Cardinality(Mentioned(s))
    PROVE  \A l \in file : Mentions(l, comment[s])
<1>1. IsFiniteSet(file) /\ Mentioned(s) \subseteq file
  BY DEF SetupInv, FilesAreWellFormed, WellFormed, Mentioned
<1>2. /\ IsFiniteSet(Mentioned(s)) /\ Cardinality(Mentioned(s)) <= Cardinality(file)
      /\ Cardinality(Mentioned(s)) = Cardinality(file) => Mentioned(s) = file
  BY <1>1, FS_Subset
<1>3. Cardinality(file) \in Nat /\ Cardinality(Mentioned(s)) \in Nat
  BY <1>1, <1>2, FS_CardinalityType
<1>4. Mentioned(s) = file
  BY <1>2, <1>3
<1> QED
  BY <1>4 DEF Mentioned

LEMMA SetupInitHolds == SetupInit => SetupInv
<1> SUFFICES ASSUME SetupInit PROVE SetupInv
  OBVIOUS
<1>1. WellFormed(file)
  <2>1. IsFiniteSet(want) /\ want \subseteq OwnKeys
    BY KeySetupAssumption, FS_Subset DEF SetupInit
  <2>2. IsFiniteSet(file)
    <3>1. [k \in want |-> OwnLine(k)] \in Surjection(want, file)
      BY DEF SetupInit, Surjection
    <3> QED
      BY <2>1, <3>1, FS_Surjection
  <2>3. \A l \in file : \E k \in OwnKeys : l = OwnLine(k)
    BY <2>1 DEF SetupInit
  <2> QED
    BY <2>2, <2>3, OwnLineFields DEF WellFormed
<1>2. FilesAreWellFormed
  BY <1>1, EmptyIsWellFormed DEF FilesAreWellFormed, SetupInit
<1>3. SetupTypeOK
  BY KeySetupAssumption, OwnLineFields DEF SetupInit, SetupTypeOK, Comments, Answers
<1> QED
  BY <1>2, <1>3 DEF SetupInv, SetupInit, CopiesAreSound, CopyIsSound, CountsAreTrue, ScriptsAgree

-----------------------------------------------------------------------------
(* Logging in, and the answers. *)

\* A failed login is an answer.
LEMMA FailuresAreAnswers ==
    ASSUME NEW c, NEW f \in DialFailures(c)
    PROVE  f \in Answers \ {"none"}
  BY DEF DialFailures, Answers

LEMMA StartSetupKeepsInv ==
    ASSUME SetupInv, NEW s \in Setups, StartSetup(s)
    PROVE  SetupInv'
<1>1. /\ UNCHANGED <<file, present, backup, tmp, counted, offers, edits, faults, want, steady>>
      /\ \A u \in Setups : u # s => at'[u] = at[u] /\ comment'[u] = comment[u] /\ answer'[u] = answer[u]
      /\ at'[s] \in {"none", "test"} /\ answer'[s] # "none"
  <2>1. at[s] = "none"
    BY DEF StartSetup, SetupInv, ScriptsAgree
  <2> QED
    BY <2>1, FailuresAreAnswers DEF StartSetup, history, SetupInv, SetupTypeOK
<1>2. SetupTypeOK'
  BY FailuresAreAnswers DEF StartSetup, history, SetupInv, SetupTypeOK, Answers
<1>3. FilesAreWellFormed' /\ ScriptsAgree'
  BY <1>1 DEF SetupInv, FilesAreWellFormed, WellFormed, ScriptsAgree
<1>4. CopiesAreSound'
  BY <1>1 DEF SetupInv, CopiesAreSound, CopyIsSound
<1>5. CountsAreTrue'
  <2> SUFFICES ASSUME NEW u \in steady PROVE CountIsTrue(u)'
    BY <1>1 DEF CountsAreTrue
  <2>1. u \in Setups /\ CountIsTrue(u)
    BY DEF SetupInv, SetupTypeOK, CountsAreTrue
  <2>2. u # s => Mentioned(u)' = Mentioned(u)
    BY <1>1, <2>1 DEF Mentioned
  <2> QED
    BY <1>1, <2>1, <2>2 DEF CountIsTrue
<1> QED
  BY <1>2, <1>3, <1>4, <1>5 DEF SetupInv

\* The rest of InstallKey changes the answer only.
LEMMA AnswersKeepInv ==
    ASSUME SetupInv, NEW s \in Setups, OutputLost(s) \/ SetupFails(s) \/ VerifyKey(s)
    PROVE  SetupInv'
<1>1. /\ UNCHANGED <<file, present, backup, tmp, at, comment, counted, offers, edits, want, steady>>
      /\ faults' \in 0..MaxFaults
      /\ \E a \in {"lost", "refused", "verified", "warned"} : answer' = [answer EXCEPT ![s] = a]
  BY KeySetupAssumption DEF OutputLost, SetupFails, VerifyKey, history, Fault, NoFault, SetupInv, SetupTypeOK
<1>2. SetupTypeOK'
  BY <1>1 DEF SetupInv, SetupTypeOK, Answers
<1>3. FilesAreWellFormed' /\ ScriptsAgree'
  BY <1>1 DEF SetupInv, FilesAreWellFormed, WellFormed, ScriptsAgree, SetupTypeOK
<1>4. CopiesAreSound' /\ CountsAreTrue'
  BY <1>1 DEF SetupInv, CopiesAreSound, CopyIsSound, CountsAreTrue, CountIsTrue, Mentioned
<1> QED
  BY <1>2, <1>3, <1>4 DEF SetupInv

-----------------------------------------------------------------------------
(* The script. *)

\* A step of the script of s that leaves the file alone can disturb the invariant only
\* in what is said of s itself.
LEMMA ScriptFrame ==
    ASSUME SetupInv, NEW s \in Setups, SetupTypeOK',
           UNCHANGED <<file, comment, answer>>, steady' \subseteq steady \cup {s},
           \A u \in Setups : u # s => at'[u] = at[u] /\ tmp'[u] = tmp[u] /\ counted'[u] = counted[u],
           at[s] # "none", WellFormed(tmp[s])', CopyIsSound(s)', s \in steady' => CountIsTrue(s)'
    PROVE  SetupInv'
<1>1. UNCHANGED <<file, comment, answer>>
  OBVIOUS
<1>2. FilesAreWellFormed'
  BY <1>1 DEF SetupInv, FilesAreWellFormed, WellFormed
<1>3. CopiesAreSound'
  <2> SUFFICES ASSUME NEW u \in Setups PROVE CopyIsSound(u)'
    BY DEF CopiesAreSound
  <2>1. CASE u # s
    BY <1>1, <2>1 DEF SetupInv, CopiesAreSound, CopyIsSound
  <2> QED
    BY <2>1
<1>4. CountsAreTrue'
  <2> SUFFICES ASSUME NEW u \in steady' PROVE CountIsTrue(u)'
    BY DEF CountsAreTrue
  <2>1. u \in Setups /\ Mentioned(u)' = Mentioned(u)
    BY <1>1 DEF SetupTypeOK, Mentioned
  <2> QED
    BY <1>1, <2>1 DEF SetupInv, CountsAreTrue, CountIsTrue
<1>5. ScriptsAgree'
  BY <1>1 DEF SetupInv, ScriptsAgree
<1> QED
  BY <1>2, <1>3, <1>4, <1>5 DEF SetupInv

\* The commands that look at the file, and the end of the script.
LEMMA LooksKeepInv ==
    ASSUME SetupInv, NEW s \in Setups, TestFile(s) \/ LookForKey(s) \/ Report(s) \/ Killed(s)
    PROVE  SetupInv'
<1>1. /\ UNCHANGED <<file, comment, counted, answer, steady>> /\ at[s] # "none"
      /\ at'[s] \in {"create", "look", "report", "countOrig", "done", "killed", "error"}
      /\ tmp'[s] \in {tmp[s], {}}
      /\ \A u \in Setups : u # s => at'[u] = at[u] /\ tmp'[u] = tmp[u]
  BY DEF TestFile, LookForKey, Report, Killed, GiveUp, local, history, SetupInv, SetupTypeOK
<1>2. SetupTypeOK'
  BY KeySetupAssumption
     DEF TestFile, LookForKey, Report, Killed, GiveUp, Fault, NoFault, local, history, SetupInv, SetupTypeOK
<1>3. WellFormed(tmp[s])' /\ CopyIsSound(s)' /\ CountIsTrue(s)'
  BY <1>1, EmptyIsWellFormed DEF SetupInv, FilesAreWellFormed, WellFormed, CopyIsSound, CountIsTrue
<1> QED
  BY <1>1, <1>2, <1>3, ScriptFrame

\* Who empties the file, replaces it or edits it leaves nobody's count and nobody's copy
\* with a claim on it.
LEMMA WriteFrame ==
    ASSUME SetupInv, SetupTypeOK', UNCHANGED <<comment, answer>>, steady' = {}, FilesAreWellFormed',
           \A u \in Setups :
              \/ at'[u] = at[u] /\ tmp'[u] = tmp[u]
              \/ at[u] # "none" /\ at'[u] \in {"look", "report"}
    PROVE  SetupInv'
<1>1. CopiesAreSound'
  BY DEF SetupInv, CopiesAreSound, CopyIsSound
<1>2. CountsAreTrue' /\ ScriptsAgree'
  BY DEF SetupInv, CountsAreTrue, ScriptsAgree
<1> QED
  BY <1>1, <1>2 DEF SetupInv

LEMMA CreateFileKeepsInv ==
    ASSUME SetupInv, NEW s \in Setups, CreateFile(s)
    PROVE  SetupInv'
<1>1. /\ UNCHANGED <<tmp, comment, counted, answer>> /\ at[s] = "create" /\ at'[s] = "look"
      /\ \A u \in Setups : u # s => at'[u] = at[u]
      /\ \/ file' = {} /\ steady' = {}
         \/ UNCHANGED <<file, steady>>
  BY DEF CreateFile, local, SetupInv, SetupTypeOK
<1>2. SetupTypeOK'
  <2>1. /\ file' \in {file, {}} /\ steady' \in {steady, {}}
        /\ at' = [at EXCEPT ![s] = "look"] /\ faults' \in 0..MaxFaults
    BY KeySetupAssumption DEF CreateFile, Fault, NoFault, SetupInv, SetupTypeOK
  <2>2. present' \in BOOLEAN
    BY Zenon DEF CreateFile, SetupInv, SetupTypeOK
  <2> QED
    BY <1>1, <2>1, <2>2 DEF CreateFile, local, SetupInv, SetupTypeOK
<1>3. CASE file' = {} /\ steady' = {}
  <2>1. FilesAreWellFormed'
    BY <1>1, <1>3, EmptyIsWellFormed DEF SetupInv, FilesAreWellFormed, WellFormed
  <2> QED
    BY <1>1, <1>2, <1>3, <2>1, WriteFrame
<1>4. CASE UNCHANGED <<file, steady>>
  <2>1. WellFormed(tmp[s])' /\ CopyIsSound(s)' /\ CountIsTrue(s)'
    BY <1>1 DEF SetupInv, FilesAreWellFormed, WellFormed, CopyIsSound, CountIsTrue
  <2> QED
    BY <1>1, <1>2, <1>4, <2>1, ScriptFrame
<1> QED
  BY <1>1, <1>3, <1>4

LEMMA CountOrigKeepsInv ==
    ASSUME SetupInv, NEW s \in Setups, CountOrig(s)
    PROVE  SetupInv'
<1>1. IsFiniteSet(file) /\ Cardinality(file) \in Nat
  BY FS_CardinalityType DEF SetupInv, FilesAreWellFormed, WellFormed
<1>2. SetupTypeOK'
  BY <1>1 DEF CountOrig, SetupInv, SetupTypeOK
<1>3. /\ UNCHANGED <<file, tmp>>
      /\ at'[s] = "countPrev" /\ counted'[s].orig = Cardinality(file)
      /\ \A u \in Setups : u # s => at'[u] = at[u] /\ counted'[u] = counted[u]
  BY DEF CountOrig, SetupInv, SetupTypeOK
<1>4. WellFormed(tmp[s])' /\ CopyIsSound(s)' /\ CountIsTrue(s)'
  BY <1>3 DEF SetupInv, FilesAreWellFormed, WellFormed, CopyIsSound, CountIsTrue
<1> QED
  BY <1>2, <1>3, <1>4, ScriptFrame DEF CountOrig

LEMMA CountPrevKeepsInv ==
    ASSUME SetupInv, NEW s \in Setups, CountPrev(s)
    PROVE  SetupInv'
<1>1. Cardinality(Mentioned(s)) \in Nat
  <2>1. IsFiniteSet(file) /\ Mentioned(s) \subseteq file
    BY DEF SetupInv, FilesAreWellFormed, WellFormed, Mentioned
  <2> QED
    BY <2>1, FS_Subset, FS_CardinalityType
<1>2. counted' = [counted EXCEPT ![s].prev = Cardinality(Mentioned(s))]
  BY DEF CountPrev, Mentioned
<1>3. SetupTypeOK'
  BY <1>1, <1>2 DEF CountPrev, history, SetupInv, SetupTypeOK
<1>4. /\ UNCHANGED <<file, tmp, comment, steady>> /\ at[s] = "countPrev"
      /\ at'[s] = "filter" /\ counted'[s].prev = Cardinality(Mentioned(s))
      /\ counted'[s].orig = counted[s].orig
      /\ \A u \in Setups : u # s => at'[u] = at[u] /\ counted'[u] = counted[u]
  BY <1>2 DEF CountPrev, history, SetupInv, SetupTypeOK
<1>5. WellFormed(tmp[s])' /\ CopyIsSound(s)'
  BY <1>4 DEF SetupInv, FilesAreWellFormed, WellFormed, CopyIsSound
<1>6. s \in steady => CountIsTrue(s)'
  <2>1. Mentioned(s)' = Mentioned(s)
    BY <1>4 DEF Mentioned
  <2> QED
    BY <1>4, <2>1 DEF SetupInv, CountsAreTrue, CountIsTrue
<1> QED
  BY <1>3, <1>4, <1>5, <1>6, ScriptFrame DEF CountPrev, history

LEMMA FilterKeepsInv ==
    ASSUME SetupInv, NEW s \in Setups, Filter(s)
    PROVE  SetupInv'
<1> DEFINE kept == Filtered(file, comment[s])
<1>1. kept \subseteq file /\ WellFormed(kept)
  BY SubsetIsWellFormed DEF Filtered, SetupInv, FilesAreWellFormed
<1>2. /\ UNCHANGED <<file, comment, counted, answer, steady>>
      /\ at[s] = "filter" /\ at'[s] \in {"guard", "error"}
      /\ \A u \in Setups : u # s => at'[u] = at[u] /\ tmp'[u] = tmp[u]
      /\ tmp'[s] \in {kept, {}}
  BY DEF Filter, GiveUp, local, history, SetupInv, SetupTypeOK
<1>3. SetupTypeOK'
  BY <1>1, KeySetupAssumption
     DEF Filter, GiveUp, Fault, NoFault, local, history, SetupInv, SetupTypeOK
<1>4. WellFormed(tmp[s])'
  BY <1>1, <1>2, EmptyIsWellFormed DEF WellFormed
<1>5. CopyIsSound(s)'
  BY <1>2 DEF CopyIsSound, Filtered
<1>6. s \in steady => CountIsTrue(s)'
  <2>1. Mentioned(s)' = Mentioned(s)
    BY <1>2 DEF Mentioned
  <2> QED
    BY <1>2, <2>1 DEF SetupInv, CountsAreTrue, CountIsTrue
<1> HIDE DEF kept
<1> QED
  BY <1>2, <1>3, <1>4, <1>5, <1>6, ScriptFrame

\* What the guard lets through: what awk dropped carries the label, and where awk has
\* returned nothing every line mentions it.
LEMMA GuardedCopyKeepsOthers ==
    ASSUME SetupInv, NEW s \in steady, at[s] = "guard", ~Refuses(s)
    PROVE  \A l \in file \ tmp[s] : Mentions(l, comment[s])
<1>1. s \in Setups /\ tmp[s] \in {Filtered(file, comment[s]), {}}
  BY DEF SetupInv, SetupTypeOK, CopiesAreSound, CopyIsSound
<1>2. CASE tmp[s] = Filtered(file, comment[s])
  BY <1>2 DEF Filtered, Mentions
<1>3. CASE tmp[s] = {}
  <2>1. Cardinality(tmp[s]) = 0
    BY <1>3, FS_EmptySet
  <2>2. /\ counted[s].orig = Cardinality(file) /\ counted[s].prev = Cardinality(Mentioned(s))
        /\ counted[s].orig \in Nat /\ counted[s].prev \in Nat
    BY <1>1 DEF SetupInv, CountsAreTrue, CountIsTrue, SetupTypeOK
  <2>3. Cardinality(file) <= Cardinality(Mentioned(s))
    BY <2>1, <2>2 DEF Refuses
  <2> QED
    BY <1>1, <2>3, AllMention
<1> QED
  BY <1>1, <1>2, <1>3

LEMMA GuardKeepsInv ==
    ASSUME SetupInv, NEW s \in Setups, GuardAndBackup(s)
    PROVE  SetupInv'
<1>1. /\ UNCHANGED <<file, comment, counted, answer, steady>>
      /\ at[s] = "guard" /\ at'[s] \in {"append", "error"}
      /\ \A u \in Setups : u # s => at'[u] = at[u] /\ tmp'[u] = tmp[u]
      /\ at'[s] = "append" => ~Refuses(s) /\ tmp'[s] = tmp[s]
      /\ tmp'[s] \in {tmp[s], {}}
  BY DEF GuardAndBackup, GiveUp, local, history, SetupInv, SetupTypeOK
<1>2. SetupTypeOK'
  <2>1. /\ at' \in {[at EXCEPT ![s] = "append"], [at EXCEPT ![s] = "error"]}
        /\ tmp' \in {tmp, [tmp EXCEPT ![s] = {}]}
        /\ backup' \in {backup, file} /\ faults' \in 0..MaxFaults
    BY KeySetupAssumption DEF GuardAndBackup, GiveUp, Fault, NoFault, SetupInv, SetupTypeOK
  <2> QED
    BY <1>1, <2>1 DEF GuardAndBackup, local, history, SetupInv, SetupTypeOK
<1>3. WellFormed(tmp[s])' /\ CountIsTrue(s)'
  BY <1>1, EmptyIsWellFormed DEF SetupInv, FilesAreWellFormed, WellFormed, CountIsTrue
<1>4. CopyIsSound(s)'
  BY <1>1, GuardedCopyKeepsOthers DEF SetupInv, CopiesAreSound, CopyIsSound
<1> QED
  BY <1>1, <1>2, <1>3, <1>4, ScriptFrame

LEMMA AppendKeyKeepsInv ==
    ASSUME SetupInv, NEW s \in Setups, AppendKey(s)
    PROVE  SetupInv'
<1> DEFINE longer == tmp[s] \cup {PulseLine(s)}
<1>1. /\ UNCHANGED <<file, comment, counted, answer, steady>>
      /\ at[s] = "append" /\ at'[s] = "rename"
      /\ \A u \in Setups : u # s => at'[u] = at[u] /\ tmp'[u] = tmp[u]
      /\ tmp'[s] \in {tmp[s], longer}
  BY DEF AppendKey, local, history, SetupInv, SetupTypeOK
<1>2. SetupTypeOK'
  BY PulseLineFields, KeySetupAssumption
     DEF AppendKey, Fault, NoFault, local, history, SetupInv, SetupTypeOK
<1>3. WellFormed(tmp[s]) /\ WellFormed(longer)
  BY <1>1, PulseKeyIsWellFormed DEF SetupInv, FilesAreWellFormed, CopiesAreSound, CopyIsSound
<1>4. WellFormed(tmp[s])' /\ CountIsTrue(s)'
  BY <1>1, <1>3 DEF WellFormed, CountIsTrue
<1>5. CopyIsSound(s)'
  BY <1>1 DEF SetupInv, CopiesAreSound, CopyIsSound
<1> HIDE DEF longer
<1> QED
  BY <1>1, <1>2, <1>4, <1>5, ScriptFrame

LEMMA RenameKeepsInv ==
    ASSUME SetupInv, NEW s \in Setups, Rename(s)
    PROVE  SetupInv'
<1>1. /\ UNCHANGED <<comment, counted, answer>> /\ at[s] = "rename" /\ tmp'[s] = {}
      /\ \A u \in Setups : u # s => at'[u] = at[u] /\ tmp'[u] = tmp[u]
      /\ \/ at'[s] = "error" /\ UNCHANGED <<file, steady>>
         \/ at'[s] = "report" /\ file' = tmp[s] /\ steady' = {}
  BY DEF Rename, GiveUp, local, SetupInv, SetupTypeOK
<1>2. SetupTypeOK'
  <2>1. /\ tmp' = [tmp EXCEPT ![s] = {}] /\ tmp[s] \subseteq Line
        /\ file' \in {file, tmp[s]} /\ steady' \in {steady, {}}
        /\ at' \in {[at EXCEPT ![s] = "report"], [at EXCEPT ![s] = "error"]}
        /\ faults' \in 0..MaxFaults
    BY KeySetupAssumption DEF Rename, GiveUp, Fault, NoFault, SetupInv, SetupTypeOK
  <2>2. present' \in BOOLEAN
    BY Zenon DEF Rename, SetupInv, SetupTypeOK
  <2> QED
    BY <1>1, <2>1, <2>2 DEF Rename, local, SetupInv, SetupTypeOK
<1>3. CASE at'[s] = "error" /\ UNCHANGED <<file, steady>>
  <2>1. WellFormed(tmp[s])' /\ CopyIsSound(s)' /\ CountIsTrue(s)'
    BY <1>1, <1>3, EmptyIsWellFormed DEF WellFormed, CopyIsSound, CountIsTrue
  <2> QED
    BY <1>1, <1>2, <1>3, <2>1, ScriptFrame
<1>4. CASE at'[s] = "report" /\ file' = tmp[s] /\ steady' = {}
  <2>1. FilesAreWellFormed'
    BY <1>1, <1>4, EmptyIsWellFormed DEF SetupInv, FilesAreWellFormed, WellFormed
  <2> QED
    BY <1>1, <1>2, <1>4, <2>1, WriteFrame
<1> QED
  BY <1>1, <1>3, <1>4

-----------------------------------------------------------------------------
(* The operator. *)

LEMMA OperatorKeepsInv ==
    ASSUME SetupInv, NEW k \in OwnKeys, AddOwnKey(k) \/ RemoveOwnKey(k)
    PROVE  SetupInv'
<1>1. /\ UNCHANGED <<tmp, at, comment, counted, answer>> /\ steady' = {}
      /\ \/ file' = file \cup {OwnLine(k)}
         \/ file' \in SUBSET file
  BY DEF AddOwnKey, RemoveOwnKey, Edit, local
<1>2. WellFormed(file')
  BY <1>1, OwnKeyIsWellFormed, SubsetIsWellFormed DEF SetupInv, FilesAreWellFormed
<1>3. FilesAreWellFormed'
  BY <1>1, <1>2 DEF SetupInv, FilesAreWellFormed, WellFormed
<1>4. SetupTypeOK'
  <2>1. /\ file' \subseteq Line /\ want' \subseteq OwnKeys /\ edits' \in 0..MaxEdits
        /\ UNCHANGED <<backup, offers, faults>> /\ present' = TRUE
    BY OwnLineFields, KeySetupAssumption
       DEF AddOwnKey, RemoveOwnKey, Edit, SetupInv, SetupTypeOK
  <2> QED
    BY <1>1, <2>1 DEF SetupInv, SetupTypeOK
<1> QED
  BY <1>1, <1>3, <1>4, WriteFrame

-----------------------------------------------------------------------------
(* The theorems. *)

LEMMA SetupNextKeepsInv == SetupInv /\ [SetupNext]_setupVars => SetupInv'
<1> SUFFICES ASSUME SetupInv, [SetupNext]_setupVars PROVE SetupInv'
  OBVIOUS
<1>1. CASE UNCHANGED setupVars
  BY <1>1 DEF setupVars, SetupInv, SetupTypeOK, FilesAreWellFormed, WellFormed,
     CopiesAreSound, CopyIsSound, CountsAreTrue, CountIsTrue, Mentioned, ScriptsAgree
<1>2. ASSUME NEW s \in Setups, Script(s) PROVE SetupInv'
  BY <1>2, LooksKeepInv, CreateFileKeepsInv, CountOrigKeepsInv, CountPrevKeepsInv, FilterKeepsInv,
     GuardKeepsInv, AppendKeyKeepsInv, RenameKeepsInv DEF Script
<1> QED
  BY <1>1, <1>2, StartSetupKeepsInv, AnswersKeepInv, LooksKeepInv, OperatorKeepsInv DEF SetupNext

\* The inductive invariant of the key setup: while nobody else writes the file, its counts
\* are true and a copy that the guard has let through lacks only lines that were counted;
\* every file and every copy has one line of a label at most.
THEOREM SetupInvariant == SetupSpec => []SetupInv
  BY SetupInitHolds, SetupNextKeepsInv, PTL DEF SetupSpec

\* RewriteKeepsOthers for every instance: any number of keys, of setups that overlap and
\* of commands that fail.
THEOREM SetupRewriteKeepsOthers == SetupSpec => []RewriteKeepsOthers
<1>1. SetupInv => RewriteKeepsOthers
  BY DEF SetupInv, SetupTypeOK, CopiesAreSound, CopyIsSound, RewriteKeepsOthers
<1> QED
  BY <1>1, SetupInvariant, PTL

\* OneKeyPerLabel for every instance: setups that overlap, fail or lose their answer
\* do not litter the file.
THEOREM SetupKeepsOneKeyPerLabel == SetupSpec => []OneKeyPerLabel
<1>1. SetupInv => OneKeyPerLabel
  <2> SUFFICES ASSUME SetupInv, NEW c \in Comments
               PROVE  Cardinality({l \in file : l.comment = c}) <= 1
    BY DEF OneKeyPerLabel
  <2> DEFINE S == {l \in file : l.comment = c}
  <2>1. \A l, m \in S : l = m
    BY DEF SetupInv, FilesAreWellFormed, WellFormed
  <2>2. CASE S = {}
    BY <2>2, FS_EmptySet
  <2>3. CASE S # {}
    <3>1. PICK l \in S : S = {l}
      BY <2>1, <2>3
    <3>2. Cardinality({l}) = 1
      BY FS_Singleton
    <3> QED
      BY <3>1, <3>2
  <2> QED
    BY <2>2, <2>3
<1> QED
  BY <1>1, SetupInvariant, PTL
=============================================================================
