------------------------------- MODULE MCSignUp -------------------------------
(***************************************************************************)
(* SignUp on small instances.                                               *)
(***************************************************************************)
EXTENDS SignUp, TLC

\* Nothing but identity tells two requests apart.
Interchangeable == Permutations(Client)
===============================================================================
