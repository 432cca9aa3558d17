------------------------------ MODULE MCWebTable ------------------------------
(***************************************************************************)
(* WebTable on small instances.                                             *)
(***************************************************************************)
EXTENDS WebTable

MCId == 1..3
===============================================================================
