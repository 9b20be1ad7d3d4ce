------------------------------ MODULE KeySetup ------------------------------
(***************************************************************************)
(* One-click SSH setup: handleSSHSetup logs in to a host with what the      *)
(* operator supplies, runs setupScript there, which rewrites the user's     *)
(* authorized_keys, and logs in again with the new key.  The script runs    *)
(* on a host where the operator edits the same file, where another setup    *)
(* may run at the same time, and where any command may fail; the script is  *)
(* one action per command that reads or writes a file.                      *)
(*                                                                          *)
(* A file is a set of lines: sshd takes the keys in any order, and a line   *)
(* is never there twice, since each request generates a key of its own and  *)
(* the script looks for it before it adds it.                               *)
(***************************************************************************)
EXTENDS Naturals, FiniteSets

CONSTANTS Setups,       \* the requests, each of which generates a key of its own
          OwnKeys,      \* keys the operator manages
          Mentioning,   \* those of them with a Pulse comment in the middle of their line
          MaxEdits,     \* bound: edits by the operator
          MaxFaults     \* bound: faults of the host and of the network

ASSUME KeySetupAssumption ==
    /\ Mentioning \subseteq OwnKeys
    /\ IsFiniteSet(Setups) /\ IsFiniteSet(OwnKeys) /\ Setups \cap OwnKeys = {}
    /\ MaxEdits \in Nat /\ MaxFaults \in Nat

VARIABLES
    file,      \* authorized_keys: a set of lines
    present,   \* whether it is there: a file that is not has no lines
    backup,    \* authorized_keys.pulse-backup
    tmp,       \* tmp[s]: the temporary file of s, authorized_keys.pulse.$$
    at,        \* at[s]: the next command of the script of s
    comment,   \* comment[s]: "plain" (no label) or "labelled" (the server's host name)
    counted,   \* counted[s]: ORIG and PREV
    answer,    \* answer[s]: what the handler answered
    offers,    \* whether the host's sshd lets this user log in with a password
    edits, faults,
    want,      \* history: the operator's keys that are to be in the file
    steady     \* history: setups since whose first count nobody else changed the file

local == <<comment, counted, answer>>
history == <<want, steady>>
setupVars == <<file, present, backup, tmp, at, comment, counted, answer, offers, edits, faults,
               want, steady>>

Comments == {"plain", "labelled"}
Line == [key : Setups \cup OwnKeys, comment : Comments \cup {"own", "mentions"}]
OwnLine(k) == [key |-> k, comment |-> IF k \in Mentioning THEN "mentions" ELSE "own"]
PulseLine(s) == [key |-> s, comment |-> comment[s]]

Holds(lines, k) == \E l \in lines : l.key = k

(***************************************************************************)
(* Logging in.  A request comes with a password, a key, a key that does     *)
(* not parse, or nothing.                                                   *)
(***************************************************************************)
Credentials == {"password", "key", "unreadable", "none"}

\* authMethods: the methods a login tries, and the errors it returns instead.
AuthMethods(c) == CASE c = "password" -> {"password"}
                    [] c = "key" -> {"publickey"}
                    [] OTHER -> {}

\* External: the client tries a method only if the daemon offers it, and its
\* error lists what it tried.
AttemptedMethods(c) ==
    {"none"} \cup (AuthMethods(c) \cap ({"publickey"} \cup IF offers THEN {"password"} ELSE {}))

\* The password had nowhere to go.
PasswordNeverOffered(c) == c = "password" /\ "password" \notin AttemptedMethods(c)

\* dialClient and NewSession, with the code that sshFailure gives their error: how a
\* login with c can fail.  A handshake that fails for any reason but the host key (no
\* common algorithm, a connection cut off, the deadline) is an ErrAuth as well.
DialFailures(c) ==
    IF AuthMethods(c) = {} THEN {"SSH_AUTH_FAILED"}
    ELSE {"SSH_UNREACHABLE", "SSH_HOST_KEY_MISMATCH", "SSH_AUTH_FAILED"}
         \cup IF PasswordNeverOffered(c) THEN {"SSH_PASSWORD_AUTH_UNAVAILABLE"} ELSE {}

\* The answers of handleSSHSetup.  "refused": the script ended with an error step,
\* "lost": its output never came to its end.
Answers == {"none", "waiting", "refused", "lost", "verified", "warned", "SSH_AUTH_FAILED",
            "SSH_UNREACHABLE", "SSH_HOST_KEY_MISMATCH", "SSH_PASSWORD_AUTH_UNAVAILABLE"}

\* handleSSHSetup with InstallKey, up to the start of the script: the key's comment
\* is the label of the server, if it has one.
StartSetup(s) ==
    /\ answer[s] = "none"
    /\ \E c \in Credentials :
          \/ /\ \E f \in DialFailures(c) : answer' = [answer EXCEPT ![s] = f]
             /\ UNCHANGED <<at, comment>>
          \/ \E label \in Comments :
                /\ AuthMethods(c) # {} /\ ~PasswordNeverOffered(c)
                /\ answer' = [answer EXCEPT ![s] = "waiting"]
                /\ comment' = [comment EXCEPT ![s] = label]
                /\ at' = [at EXCEPT ![s] = "test"]
    /\ UNCHANGED <<file, present, backup, tmp, counted, offers, edits, faults, history>>

(***************************************************************************)
(* setupScript                                                              *)
(***************************************************************************)
Fault == faults < MaxFaults /\ faults' = faults + 1
NoFault == UNCHANGED faults

\* The script gives up with an error step and takes its temporary file with it.
GiveUp(s) == /\ at' = [at EXCEPT ![s] = "error"]
             /\ tmp' = [tmp EXCEPT ![s] = {}]

\* The home directory and .ssh are made; [ ! -f "$AK" ]
TestFile(s) ==
    /\ at[s] = "test"
    /\ \/ /\ NoFault
          /\ at' = [at EXCEPT ![s] = IF present THEN "look" ELSE "create"]
          /\ UNCHANGED tmp
       \/ Fault /\ GiveUp(s)
    /\ UNCHANGED <<file, present, backup, local, offers, edits, history>>

\* : > "$AK" empties whatever is there by now; its failure stops nothing.
CreateFile(s) ==
    /\ at[s] = "create"
    /\ \/ NoFault /\ file' = {} /\ present' = TRUE /\ steady' = {}
       \/ Fault /\ UNCHANGED <<file, present, steady>>
    /\ at' = [at EXCEPT ![s] = "look"]
    /\ UNCHANGED <<backup, tmp, local, offers, edits, want>>

\* grep -qF "$KEY" "$AK" finds the key, or it is new; awk works or is missing.
LookForKey(s) ==
    /\ at[s] = "look"
    /\ \/ /\ NoFault
          /\ at' = [at EXCEPT ![s] = IF Holds(file, s) THEN "report" ELSE "countOrig"]
          /\ UNCHANGED tmp
       \/ ~Holds(file, s) /\ Fault /\ GiveUp(s)
    /\ UNCHANGED <<file, present, backup, local, offers, edits, history>>

\* ORIG=$(grep -c '' "$AK")
CountOrig(s) ==
    /\ at[s] = "countOrig"
    /\ counted' = [counted EXCEPT ![s].orig = Cardinality(file)]
    /\ at' = [at EXCEPT ![s] = "countPrev"]
    /\ steady' = steady \cup {s}
    /\ UNCHANGED <<file, present, backup, tmp, comment, answer, offers, edits, faults, want>>

\* grep -cF -- " $COMMENT" finds the comment anywhere in a line, and a comment
\* that goes on after it.
Mentions(line, c) == \/ line.comment \in {c, "mentions"}
                     \/ c = "plain" /\ line.comment = "labelled"

\* PREV=$(grep -cF -- " $COMMENT" "$AK")
CountPrev(s) ==
    /\ at[s] = "countPrev"
    /\ counted' = [counted EXCEPT ![s].prev =
                      Cardinality({l \in file : Mentions(l, comment[s])})]
    /\ at' = [at EXCEPT ![s] = "filter"]
    /\ UNCHANGED <<file, present, backup, tmp, comment, answer, offers, edits, faults, history>>

\* Mutant: the filter is skipped.
MutKeepsAll(lines, c) == lines

\* awk -v c="$COMMENT" '$NF != c': the lines whose last field is another.
Filtered(lines, c) == {l \in lines : l.comment # c}

\* awk writes the temporary file; it fails, surely where there is no file; or it returns
\* nothing and success.
Filter(s) ==
    /\ at[s] = "filter"
    /\ \/ /\ present /\ NoFault
          /\ tmp' = [tmp EXCEPT ![s] = Filtered(file, comment[s])]
          /\ at' = [at EXCEPT ![s] = "guard"]
       \/ ~present /\ NoFault /\ GiveUp(s)
       \/ present /\ Fault /\ GiveUp(s)
       \/ /\ present /\ Fault
          /\ tmp' = [tmp EXCEPT ![s] = {}]
          /\ at' = [at EXCEPT ![s] = "guard"]
    /\ UNCHANGED <<file, present, backup, local, offers, edits, history>>

\* Mutant: only a copy that has grown is refused.
MutLetsLinesGo(s) == counted[s].orig < Cardinality(tmp[s])

\* [ "$DROPPED" -lt 0 ] || [ "$DROPPED" -gt "$PREV" ] refuses.
Refuses(s) == LET kept == Cardinality(tmp[s]) IN
    \/ counted[s].orig < kept
    \/ counted[s].orig - kept > counted[s].prev

\* The guard, and the backup, whose failure stops nothing.
GuardAndBackup(s) ==
    /\ at[s] = "guard"
    /\ \/ /\ Refuses(s)
          /\ NoFault /\ GiveUp(s)
          /\ UNCHANGED backup
       \/ /\ ~Refuses(s)
          /\ at' = [at EXCEPT ![s] = "append"]
          /\ UNCHANGED tmp
          /\ \/ NoFault /\ backup' = file
             \/ Fault /\ UNCHANGED backup
    /\ UNCHANGED <<file, present, local, offers, edits, history>>

\* printf '%s\n' "$KEY" >> "$TMP", whose failure stops nothing.
AppendKey(s) ==
    /\ at[s] = "append"
    /\ \/ NoFault /\ tmp' = [tmp EXCEPT ![s] = @ \cup {PulseLine(s)}]
       \/ Fault /\ UNCHANGED tmp
    /\ at' = [at EXCEPT ![s] = "rename"]
    /\ UNCHANGED <<file, present, backup, local, offers, edits, history>>

\* mv "$TMP" "$AK"
Rename(s) ==
    /\ at[s] = "rename"
    /\ \/ /\ NoFault
          /\ file' = tmp[s] /\ present' = TRUE /\ steady' = {}
          /\ tmp' = [tmp EXCEPT ![s] = {}]
          /\ at' = [at EXCEPT ![s] = "report"]
       \/ /\ Fault /\ GiveUp(s)
          /\ UNCHANGED <<file, present, steady>>
    /\ UNCHANGED <<backup, local, offers, edits, want>>

\* restorecon, the settings of sshd and PULSE-STEP:done; nothing of it is changed.
Report(s) ==
    /\ at[s] = "report"
    /\ at' = [at EXCEPT ![s] = "done"]
    /\ UNCHANGED <<file, present, backup, tmp, local, offers, edits, faults, history>>

\* The host dies or the script is killed: the temporary file stays.
Killed(s) ==
    /\ at[s] \notin {"none", "error", "done", "killed"}
    /\ Fault
    /\ at' = [at EXCEPT ![s] = "killed"]
    /\ UNCHANGED <<file, present, backup, tmp, local, offers, edits, history>>

Script(s) == \/ TestFile(s) \/ CreateFile(s) \/ LookForKey(s) \/ CountOrig(s)
             \/ CountPrev(s) \/ Filter(s) \/ GuardAndBackup(s) \/ AppendKey(s)
             \/ Rename(s) \/ Report(s)

(***************************************************************************)
(* The rest of InstallKey                                                   *)
(***************************************************************************)
\* The connection breaks, or the script was killed, before PULSE-STEP:done was
\* read: InstallKey fails and the private key is forgotten, whatever the script
\* does on the host.
OutputLost(s) ==
    /\ answer[s] = "waiting"
    /\ \/ at[s] = "killed" /\ NoFault
       \/ Fault
    /\ answer' = [answer EXCEPT ![s] = "lost"]
    /\ UNCHANGED <<file, present, backup, tmp, at, comment, counted, offers, edits, history>>

\* CombinedOutput returned an error and parseSetupOutput found no step "done".
SetupFails(s) ==
    /\ answer[s] = "waiting" /\ at[s] = "error"
    /\ answer' = [answer EXCEPT ![s] = "refused"]
    /\ UNCHANGED <<file, present, backup, tmp, at, comment, counted, offers, edits, faults, history>>

\* The login with the new key only: sshd reads the file; if it refuses, or the
\* host is not reached, the answer carries verifyHint.
VerifyKey(s) ==
    /\ answer[s] = "waiting" /\ at[s] = "done"
    /\ \/ Holds(file, s) /\ NoFault /\ answer' = [answer EXCEPT ![s] = "verified"]
       \/ ~Holds(file, s) /\ NoFault /\ answer' = [answer EXCEPT ![s] = "warned"]
       \/ Fault /\ answer' = [answer EXCEPT ![s] = "warned"]
    /\ UNCHANGED <<file, present, backup, tmp, at, comment, counted, offers, edits, history>>

(***************************************************************************)
(* The operator (external) edits the file in place.                         *)
(***************************************************************************)
Edit ==
    /\ edits < MaxEdits /\ edits' = edits + 1
    /\ present' = TRUE /\ steady' = {}
    /\ UNCHANGED <<backup, tmp, at, local, offers, faults>>

AddOwnKey(k) ==
    /\ ~Holds(file, k)
    /\ file' = file \cup {OwnLine(k)}
    /\ want' = want \cup {k}
    /\ Edit

RemoveOwnKey(k) ==
    /\ Holds(file, k)
    /\ file' = {l \in file : l.key # k}
    /\ want' = want \ {k}
    /\ Edit

(***************************************************************************)
(* Before the first setup the file holds the operator's keys; the backup    *)
(* is not there.                                                            *)
(***************************************************************************)
SetupInit ==
    /\ want \in SUBSET OwnKeys
    /\ present \in BOOLEAN /\ (want # {} => present)
    /\ file = {OwnLine(k) : k \in want}
    /\ backup = {}
    /\ tmp = [s \in Setups |-> {}]
    /\ at = [s \in Setups |-> "none"]
    /\ comment = [s \in Setups |-> "plain"]
    /\ counted = [s \in Setups |-> [orig |-> 0, prev |-> 0]]
    /\ answer = [s \in Setups |-> "none"]
    /\ offers \in BOOLEAN
    /\ edits = 0 /\ faults = 0
    /\ steady = {}

SetupNext ==
    \/ \E s \in Setups : \/ StartSetup(s) \/ Script(s) \/ Killed(s)
                         \/ OutputLost(s) \/ SetupFails(s) \/ VerifyKey(s)
    \/ \E k \in OwnKeys : AddOwnKey(k) \/ RemoveOwnKey(k)

SetupSpec == SetupInit /\ [][SetupNext]_setupVars

(***************************************************************************)
(* Properties                                                               *)
(***************************************************************************)
\* Types.
SetupTypeOK ==
    /\ file \subseteq Line /\ backup \subseteq Line
    /\ present \in BOOLEAN
    /\ tmp \in [Setups -> SUBSET Line]
    /\ at \in [Setups -> {"none", "test", "create", "look", "countOrig", "countPrev", "filter",
                          "guard", "append", "rename", "report", "error", "done", "killed"}]
    /\ comment \in [Setups -> Comments]
    /\ counted \in [Setups -> [orig : Nat, prev : Nat]]
    /\ answer \in [Setups -> Answers]
    /\ offers \in BOOLEAN
    /\ edits \in 0..MaxEdits /\ faults \in 0..MaxFaults
    /\ want \subseteq OwnKeys /\ steady \subseteq Setups

\* What docs/SSH_CONSOLE.md says of the operator's keys ("Keys you or your team added are
\* never touched"): exactly the keys the operator wants are in the file, whenever the
\* operator edits it.
OperatorKeysSurvive == \A k \in OwnKeys : Holds(file, k) <=> k \in want

\* What the guard is worth ("a guard that trusts the same tool it is checking cannot catch
\* that tool returning nothing"): a copy that is about to replace a file nobody else has
\* changed since it was counted lacks no line but those that PREV counted, whatever
\* command failed and even when awk returned nothing.
RewriteKeepsOthers ==
    \A s \in steady : at[s] = "rename" => \A l \in file \ tmp[s] : Mentions(l, comment[s])

\* "Running setup twice must not litter the file": whatever setups overlapped, were
\* killed or lost their answer, at most one key of each label is left.
OneKeyPerLabel ==
    \A c \in Comments : Cardinality({l \in file : l.comment = c}) <= 1
=============================================================================
