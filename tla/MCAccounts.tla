------------------------------ MODULE MCAccounts ------------------------------
(***************************************************************************)
(* Accounts on small instances.                                             *)
(***************************************************************************)
EXTENDS Accounts, TLC

\* Nothing but identity tells two ids, or two browsers, apart.
Interchangeable == Permutations(Id) \cup Permutations(Client)
===============================================================================
