---------------------------- MODULE MCSubscription ----------------------------
(***************************************************************************)
(* Subscription on small instances.                                         *)
(***************************************************************************)
EXTENDS Subscription, TLC

\* Nothing but identity tells two clients, addresses, tokens or variants apart.
Interchangeable ==
  Permutations(Client) \cup Permutations(Url) \cup Permutations(Token)
    \cup Permutations(Variant)

MCTime == 1..2
===============================================================================
