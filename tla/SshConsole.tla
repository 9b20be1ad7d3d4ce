----------------------------- MODULE SshConsole -----------------------------
(***************************************************************************)
(* The life of browser SSH sessions: type Manager and type Session of      *)
(* apps/api/internal/sshx/sshx.go, the handlers that open, attach, stream  *)
(* and close them (httpx/handlers_ssh.go, handlers_ssh_stream.go), and the *)
(* reaper.                                                                 *)
(*                                                                         *)
(* Manager.mu guards the map and Session.mu the flags of a session; what   *)
(* happens under one of them is a step, and between two steps everybody    *)
(* else runs: other requests, the reaper, the pump of an attached session, *)
(* the remote shell, the browser.  A transport is a WebSocket (a pump and  *)
(* a read loop) or server-sent events (a reader and the handler's loop).   *)
(***************************************************************************)
EXTENDS Naturals, FiniteSets

CONSTANTS Users, MaxOpens,  \* who opens sessions, and bound: how many each
          Tabs,             \* browser tabs that try to attach
          Transports,       \* of {"ws", "sse"}: what they attach with
          MaxPerUser,       \* maxSessionsPerUser (4)
          MaxTotal          \* maxSessionsTotal (64)

ASSUME ConsoleAssumption ==
    /\ Transports \subseteq {"ws", "sse"}
    /\ {MaxOpens, MaxPerUser, MaxTotal} \subseteq Nat

\* A session is its owner and the number of the open that dials it.
Session == Users \X (1..MaxOpens)
Owner(s) == s[1]

VARIABLES
    opening,   \* Manager.Open, per session: where it is
    term,      \* the SSH connection: none, connected (no shell yet), live, exited (the
               \* shell is gone), closed
    sessions,  \* m.sessions
    attached,  \* Session.attached
    closed,    \* Session.closed
    doomed,    \* removed from the map, Session.close still to run
    age,       \* since CreatedAt: young, past attachWindow, past idleLifetime
    link,      \* the handler that serves a tab: its stage, pump and connection
    stopped    \* Manager.stop is closed: the API shuts down

managerVars == <<sessions, attached, closed, doomed>>
vars == <<opening, term, managerVars, age, link, stopped>>

Opening == {"idle", "dialling", "connected", "session", "pty", "dialled", "done", "failed"}
Age == {"young", "unclaimed", "expired"}
Link == [via : Transports \cup {"none"},
         stage : {"idle", "found", "upgrading", "serving", "closing", "ended",
                  "refused"},
         pump : {"off", "running", "done"},
         conn : {"off", "open", "stuck", "lost", "shut"}]

NoLink == [via |-> "none", stage |-> "idle", pump |-> "off", conn |-> "off"]

TypeOK ==
    /\ opening \in [Session -> Opening]
    /\ term \in [Session -> {"none", "connected", "live", "exited", "closed"}]
    /\ sessions \subseteq Session /\ attached \subseteq Session
    /\ closed \subseteq Session /\ doomed \subseteq Session \ closed
    /\ age \in [Session -> Age]
    /\ link \in [Session \X Tabs -> Link]
    /\ stopped \in BOOLEAN

-----------------------------------------------------------------------------
(* Manager.Open. *)

OwnedBy(u) == {s \in sessions : Owner(s) = u}

\* checkQuota, under m.mu.
QuotaLeft(u) ==
    /\ Cardinality(sessions) < MaxTotal
    /\ Cardinality(OwnedBy(u)) < MaxPerUser

\* Open checks the quota and, without the lock, starts to dial.
OpenStart(s) ==
    /\ opening[s] = "idle" /\ ~stopped
    /\ opening' = [opening EXCEPT ![s] = IF QuotaLeft(Owner(s)) THEN "dialling" ELSE "failed"]
    /\ UNCHANGED <<term, managerVars, age, link, stopped>>

\* Mutant of DialStep: an error path leaves the connection open.
DialStepLeaks(s, from, to, up) ==
    /\ opening[s] = from
    /\ \/ /\ opening' = [opening EXCEPT ![s] = to]
          /\ term' = [term EXCEPT ![s] = up]
       \/ opening' = [opening EXCEPT ![s] = "failed"] /\ UNCHANGED term
    /\ UNCHANGED <<managerVars, age, link, stopped>>

\* A step of Dial leads on, or fails and closes what was opened so far.
DialStep(s, from, to, up) ==
    /\ opening[s] = from
    /\ \/ /\ opening' = [opening EXCEPT ![s] = to]
          /\ term' = [term EXCEPT ![s] = up]
       \/ /\ opening' = [opening EXCEPT ![s] = "failed"]
          /\ term' = [term EXCEPT ![s] = IF @ = "none" THEN "none" ELSE "closed"]
    /\ UNCHANGED <<managerVars, age, link, stopped>>

\* Dial: dialClient, within dialTimeout; then NewSession, RequestPty and Shell, which
\* nothing bounds: a host that stops answering leaves Open waiting.
DialClient(s) == DialStep(s, "dialling", "connected", "connected")
NewSession(s) == DialStep(s, "connected", "session", "connected")
RequestPty(s) == DialStep(s, "session", "pty", "connected")
Shell(s) == DialStep(s, "pty", "dialled", "live")

\* Open registers the session, whether or not its client is still there, and
\* without looking at the quota again.
Register(s) ==
    /\ opening[s] = "dialled"
    /\ opening' = [opening EXCEPT ![s] = "done"]
    /\ sessions' = sessions \cup {s}
    /\ UNCHANGED <<term, attached, closed, doomed, age, link, stopped>>

-----------------------------------------------------------------------------
(* Ending a session. *)

\* Mutant of Forget: the sessions are dropped from the map and not closed.
ForgetOnly(gone) ==
    /\ sessions' = sessions \ gone
    /\ UNCHANGED <<attached, closed, doomed>>

\* The first half of CloseSession, of a reap and of Shutdown: the sessions
\* leave the map; closing each one comes later.
Forget(gone) ==
    /\ sessions' = sessions \ gone
    /\ doomed' = doomed \cup (gone \ closed)
    /\ UNCHANGED <<attached, closed>>

\* Session.close.
CloseTerminal(s) ==
    /\ s \in doomed
    /\ doomed' = doomed \ {s}
    /\ closed' = closed \cup {s}
    /\ term' = [term EXCEPT ![s] = "closed"]
    /\ UNCHANGED <<opening, sessions, attached, age, link, stopped>>

\* handleSSHClose, for a session Get finds.
Disconnect(s) ==
    /\ s \in sessions
    /\ Forget({s})
    /\ UNCHANGED <<opening, term, age, link, stopped>>

\* Mutant of Stale: no ceiling for a session that is attached.
StaleUnclaimed(s) == (s \notin attached /\ age[s] # "young") \/ s \in closed

\* What one tick of the reaper removes.
Stale(s) ==
    \/ s \notin attached /\ age[s] # "young"
    \/ age[s] = "expired"
    \/ s \in closed

Reap ==
    /\ ~stopped
    /\ \E s \in sessions : Stale(s)
    /\ Forget({s \in sessions : Stale(s)})
    /\ UNCHANGED <<opening, term, age, link, stopped>>

\* Manager.Shutdown: the reaper stops and every session is closed.
Shutdown ==
    /\ ~stopped
    /\ stopped' = TRUE
    /\ Forget(sessions)
    /\ UNCHANGED <<opening, term, age, link>>

-----------------------------------------------------------------------------
(* A transport: handleSSHAttach (ws) and handleSSHStream (sse). *)

\* Manager.Get finds the session; the handler keeps the pointer.
Find(s, t, via) ==
    /\ link[<<s, t>>] = NoLink
    /\ s \in sessions
    /\ link' = [link EXCEPT ![<<s, t>>].via = via, ![<<s, t>>].stage = "found"]
    /\ UNCHANGED <<opening, term, managerVars, age, stopped>>

\* Mutant of Attach: a second claim is not refused.
AttachAgain(s, t) ==
    /\ link[<<s, t>>].stage = "found"
    /\ IF s \in closed
       THEN link' = [link EXCEPT ![<<s, t>>].stage = "refused"] /\ UNCHANGED attached
       ELSE /\ attached' = attached \cup {s}
            /\ link' = [link EXCEPT ![<<s, t>>].stage = "upgrading"]
    /\ UNCHANGED <<opening, term, sessions, closed, doomed, age, stopped>>

\* Mutant of Attach: a session that has ended can still be claimed.
AttachClosed(s, t) ==
    /\ link[<<s, t>>].stage = "found"
    /\ IF s \in attached
       THEN link' = [link EXCEPT ![<<s, t>>].stage = "refused"] /\ UNCHANGED attached
       ELSE /\ attached' = attached \cup {s}
            /\ link' = [link EXCEPT ![<<s, t>>].stage = "upgrading"]
    /\ UNCHANGED <<opening, term, sessions, closed, doomed, age, stopped>>

\* Manager.Attach: one claim per session, and none on a closed one.
Attach(s, t) ==
    /\ link[<<s, t>>].stage = "found"
    /\ IF s \in closed \/ s \in attached
       THEN /\ link' = [link EXCEPT ![<<s, t>>].stage = "refused"]
            /\ UNCHANGED attached
       ELSE /\ attached' = attached \cup {s}
            /\ link' = [link EXCEPT ![<<s, t>>].stage = "upgrading"]
    /\ UNCHANGED <<opening, term, sessions, closed, doomed, age, stopped>>

\* wsx.Accept succeeds, or the event stream's headers are out.
StartServing(s, t) ==
    /\ link[<<s, t>>].stage = "upgrading"
    /\ link' = [link EXCEPT ![<<s, t>>].stage = "serving", ![<<s, t>>].pump = "running",
                            ![<<s, t>>].conn = "open"]
    /\ UNCHANGED <<opening, term, managerVars, age, stopped>>

\* wsx.Accept fails: the session is closed.
UpgradeFails(s, t) ==
    /\ link[<<s, t>>].stage = "upgrading" /\ link[<<s, t>>].via = "ws"
    /\ link' = [link EXCEPT ![<<s, t>>].stage = "closing"]
    /\ Forget({s})
    /\ UNCHANGED <<opening, term, age, stopped>>

\* Session.Read fails, because the session was closed or the shell has exited.
\* The WebSocket pump closes the connection with it; the stream's reader closes
\* its channel.
PumpEnds(s, t) ==
    /\ link[<<s, t>>].pump = "running"
    /\ s \in closed \/ term[s] = "exited"
    /\ link' = [link EXCEPT ![<<s, t>>].pump = "done",
                            ![<<s, t>>].conn = IF link[<<s, t>>].via = "ws" THEN "shut" ELSE @]
    /\ UNCHANGED <<opening, term, managerVars, age, stopped>>

\* The WebSocket pump cannot write what it read: the browser is gone, or did
\* not take a frame for 20 s.  The pump returns and leaves the connection open.
PumpWriteFails(s, t) ==
    /\ link[<<s, t>>].pump = "running" /\ link[<<s, t>>].via = "ws"
    /\ s \notin closed /\ term[s] = "live"
    /\ link' = [link EXCEPT ![<<s, t>>].pump = "done"]
    /\ UNCHANGED <<opening, term, managerVars, age, stopped>>

\* The stream's reader ends with the request's context.
ReaderCancelled(s, t) ==
    /\ link[<<s, t>>].pump = "running" /\ link[<<s, t>>].via = "sse"
    /\ link[<<s, t>>].conn = "lost"
    /\ link' = [link EXCEPT ![<<s, t>>].pump = "done"]
    /\ UNCHANGED <<opening, term, managerVars, age, stopped>>

\* The browser takes nothing more of an event stream, without going away: the handler
\* stays in writeEvent, since it has cleared the write deadline.
BrowserStalls(s, t) ==
    /\ link[<<s, t>>].stage = "serving" /\ link[<<s, t>>].via = "sse"
    /\ link[<<s, t>>].conn = "open"
    /\ link' = [link EXCEPT ![<<s, t>>].conn = "stuck"]
    /\ UNCHANGED <<opening, term, managerVars, age, stopped>>

\* It takes what was written, and the handler goes on.
BrowserTakes(s, t) ==
    /\ link[<<s, t>>].conn = "stuck"
    /\ link' = [link EXCEPT ![<<s, t>>].conn = "open"]
    /\ UNCHANGED <<opening, term, managerVars, age, stopped>>

\* The browser goes away.
BrowserLeaves(s, t) ==
    /\ link[<<s, t>>].conn \in {"open", "stuck"}
    /\ link' = [link EXCEPT ![<<s, t>>].conn = "lost"]
    /\ UNCHANGED <<opening, term, managerVars, age, stopped>>

\* Mutant of LoopIsOver: the end of the reader goes unnoticed.
LoopIsOverOnLoss(s, t) == link[<<s, t>>].conn \in {"lost", "shut"}

\* What ends a handler's loop: the connection is gone; or, on a stream, the
\* reader has closed its channel.
LoopIsOver(s, t) ==
    \/ link[<<s, t>>].conn \in {"lost", "shut"}
    \/ link[<<s, t>>].via = "sse" /\ link[<<s, t>>].pump = "done"

LoopEnds(s, t) ==
    /\ link[<<s, t>>].stage = "serving" /\ link[<<s, t>>].conn # "stuck"
    /\ LoopIsOver(s, t)
    /\ link' = [link EXCEPT ![<<s, t>>].stage = "closing"]
    /\ Forget({s})
    /\ UNCHANGED <<opening, term, age, stopped>>

\* A keystroke for a session that has ended closes a WebSocket.
KeystrokeFails(s, t) ==
    /\ link[<<s, t>>].stage = "serving" /\ link[<<s, t>>].via = "ws"
    /\ s \in closed \/ term[s] = "exited"
    /\ link' = [link EXCEPT ![<<s, t>>].stage = "closing", ![<<s, t>>].conn = "shut"]
    /\ Forget({s})
    /\ UNCHANGED <<opening, term, age, stopped>>

\* The handler returns: after its CloseSession, and on a WebSocket once the
\* pump is done.
HandlerReturns(s, t) ==
    /\ link[<<s, t>>].stage = "closing"
    /\ s \in closed
    /\ link[<<s, t>>].via = "ws" => link[<<s, t>>].pump # "running"
    /\ link' = [link EXCEPT ![<<s, t>>].stage = "ended",
                            ![<<s, t>>].conn = "shut"]
    /\ UNCHANGED <<opening, term, managerVars, age, stopped>>

-----------------------------------------------------------------------------
(* The remote shell and the clock. *)

ShellExits(s) ==
    /\ term[s] = "live"
    /\ term' = [term EXCEPT ![s] = "exited"]
    /\ UNCHANGED <<opening, managerVars, age, link, stopped>>

GrowOlder(s) ==
    /\ s \in sessions
    /\ age[s] # "expired"
    /\ age' = [age EXCEPT ![s] = IF @ = "young" THEN "unclaimed" ELSE "expired"]
    /\ UNCHANGED <<opening, term, managerVars, link, stopped>>

-----------------------------------------------------------------------------
Init ==
    /\ opening = [s \in Session |-> "idle"]
    /\ term = [s \in Session |-> "none"]
    /\ sessions = {} /\ attached = {} /\ closed = {} /\ doomed = {}
    /\ age = [s \in Session |-> "young"]
    /\ link = [x \in Session \X Tabs |-> NoLink]
    /\ stopped = FALSE

\* What a handler does without waiting for anybody.
HandlerStep(s, t) ==
    \/ Attach(s, t) \/ StartServing(s, t) \/ LoopEnds(s, t) \/ HandlerReturns(s, t)
    \/ PumpEnds(s, t) \/ ReaderCancelled(s, t)

Next ==
    \/ \E s \in Session :
          \/ OpenStart(s) \/ DialClient(s) \/ NewSession(s) \/ RequestPty(s) \/ Shell(s) \/ Register(s)
          \/ CloseTerminal(s) \/ Disconnect(s) \/ ShellExits(s) \/ GrowOlder(s)
          \/ \E t \in Tabs : \/ HandlerStep(s, t) \/ UpgradeFails(s, t)
                             \/ PumpWriteFails(s, t) \/ BrowserStalls(s, t)
                             \/ BrowserTakes(s, t) \/ BrowserLeaves(s, t)
                             \/ KeystrokeFails(s, t)
                             \/ \E via \in Transports : Find(s, t, via)
    \/ Reap
    \/ Shutdown

Spec == Init /\ [][Next]_vars

\* Goroutines that can run do, the reaper's ticker fires and time passes.  The
\* browser, the remote host and the operator owe nothing: while a browser takes
\* nothing, the handler is blocked and the reader may be, on a full channel.
Fairness ==
    /\ \A s \in Session : /\ WF_vars(Register(s))
                          /\ WF_vars(CloseTerminal(s))
                          /\ WF_vars(GrowOlder(s))
                          /\ \A t \in Tabs :
                                WF_vars(link[<<s, t>>].conn # "stuck" /\ HandlerStep(s, t))
    /\ WF_vars(Reap)

FairSpec == Spec /\ Fairness

-----------------------------------------------------------------------------
(* Properties. *)

\* Has a tab claimed the session.
Claimed(s, t) == link[<<s, t>>].stage \in {"upgrading", "serving", "closing", "ended"}

\* No SSH connection is forgotten: as long as one is up, the Open that dials it has yet
\* to fail or to register it, or it is in the map where the UI and, until Shutdown, the
\* reaper find it, or somebody is about to close it.
NoConnectionForgotten ==
    \A s \in Session : term[s] \in {"connected", "live", "exited"} =>
        \/ opening[s] \in {"connected", "session", "pty", "dialled"}
        \/ s \in sessions \/ s \in doomed

\* A session has one transport at most, whatever tabs and transports race for
\* it ("a second tab gets ErrAlreadyAttached rather than a split terminal").
OneTransport ==
    \A s \in Session : \A t, u \in Tabs :
        link[<<s, t>>].pump # "off" /\ link[<<s, u>>].pump # "off" => t = u

\* Every connection ends: whether or not anybody ever attaches to it, whatever
\* the browser does, the reaper sees to it ("hard ceiling on a single
\* session"), unless the API is shutting down.
EveryConnectionEnds ==
    \A s \in Session : (term[s] \in {"live", "exited"}) ~> (term[s] = "closed" \/ stopped)

\* When the remote shell exits, an event stream that shows it ends, and the browser is
\* told ("session ended"), unless the browser stops taking what it is sent for good.  A
\* WebSocket whose pump could not write is not covered: its handler stays in
\* ReadMessage until the browser is gone.
ShellExitEndsStream ==
    \A s \in Session, t \in Tabs :
        <>[](link[<<s, t>>].conn # "stuck") =>
            ((link[<<s, t>>].stage = "serving" /\ link[<<s, t>>].via = "sse" /\ term[s] = "exited")
                ~> (link[<<s, t>>].stage = "ended" \/ stopped))

\* The console keeps its contract: a session is parked, then held by one
\* claimant, then gone for good.
Contract == INSTANCE ConsoleContract WITH
    Consoles <- Session,
    Claimants <- Tabs,
    life <- [s \in Session |-> IF s \in closed THEN "gone"
                               ELSE IF s \in attached THEN "held"
                               ELSE IF s \in sessions \cup doomed THEN "parked"
                               ELSE "absent"],
    holders <- [s \in Session |-> {t \in Tabs : Claimed(s, t)}]

KeepsContract == Contract!ContractSpec
=============================================================================
