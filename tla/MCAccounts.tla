---------------------------- MODULE MCAccounts ----------------------------
(* Accounts where all identities have one address. *)
EXTENDS Accounts
SmallEmailOf == [g \in Identities |-> CHOOSE e \in Emails : TRUE]
============================================================================
