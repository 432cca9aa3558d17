--------------------------- MODULE MCRedisRateLimit ---------------------------
(***************************************************************************)
(* RedisRateLimit on small instances.                                       *)
(***************************************************************************)
EXTENDS RedisRateLimit, TLC

MCLimit == [k \in Key |-> [num |-> 2, duration |-> 2]]

\* Nothing but identity tells two requests apart.
Interchangeable == Permutations(Client)
===============================================================================
