----------------------------- MODULE MCAccounts -----------------------------
(***************************************************************************)
(* Accounts on small instances: one identity with an address, one without. *)
(***************************************************************************)
EXTENDS Accounts, TLC

CONSTANTS m1, x1

MCMailOf == [x \in Subjects |-> IF x = x1 THEN m1 ELSE NoMail]

\* Handlers are interchangeable.
Symmetric == Permutations(Handlers)
=============================================================================
