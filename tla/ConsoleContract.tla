-------------------------- MODULE ConsoleContract ---------------------------
(***************************************************************************)
(* What the SSH console promises about one session (comments of            *)
(* apps/api/internal/sshx/sshx.go): a dialled session is parked until one  *)
(* transport claims it, no second one ever does, and once it has ended it  *)
(* stays ended and cannot be claimed.                                      *)
(***************************************************************************)
CONSTANTS Consoles,  \* the sessions
          Claimants  \* what can claim one: browser tabs

VARIABLES life,     \* absent, parked, held or gone
          holders   \* who claimed each session

contractVars == <<life, holders>>

ContractInit ==
    /\ life = [c \in Consoles |-> "absent"]
    /\ holders = [c \in Consoles |-> {}]

\* A dialled session is registered and waits for its transport.
Park(c) ==
    /\ life[c] = "absent"
    /\ life' = [life EXCEPT ![c] = "parked"]
    /\ UNCHANGED holders

\* One transport claims it.
Hold(c, t) ==
    /\ life[c] = "parked"
    /\ life' = [life EXCEPT ![c] = "held"]
    /\ holders' = [holders EXCEPT ![c] = {t}]

\* It ends: closed from the UI, reaped, or its transport is done.
Finish(c) ==
    /\ life[c] \in {"parked", "held"}
    /\ life' = [life EXCEPT ![c] = "gone"]
    /\ UNCHANGED holders

\* Several sessions end in one sweep or one shutdown; each is closed by itself.
ContractNext ==
    \E c \in Consoles : Park(c) \/ Finish(c) \/ \E t \in Claimants : Hold(c, t)

ContractSpec == ContractInit /\ [][ContractNext]_contractVars
=============================================================================
