---------------------------- MODULE MCLinkHeaders -----------------------------
(***************************************************************************)
(* LinkHeaders on small instances.                                          *)
(***************************************************************************)
EXTENDS LinkHeaders, TLC

\* Nothing but identity tells two clients or bodies apart.
Interchangeable == Permutations(Client) \cup Permutations(Body)

\* A client without an encoding, one with everything, and one that lists the
\* encoding as a matter of the connection.
MCRequest ==
  {[names |-> {"If-None-Match"}, connection |-> {}],
   [names |-> Name, connection |-> {}],
   [names |-> Name, connection |-> {"Accept-Encoding"}]}
===============================================================================
