----------------------------- MODULE MCAccounts -----------------------------
(* Three requests of any kind, the three addresses with a meaning.         *)
EXTENDS Accounts

=============================================================================
