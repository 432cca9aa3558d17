----------------------------- MODULE MCRateLimit ------------------------------
(***************************************************************************)
(* RateLimit with two limits of different lengths that share the map.       *)
(***************************************************************************)
EXTENDS RateLimit

CONSTANTS Short, Long

MCLimit ==
  [k \in Key |-> IF k = Short THEN [num |-> 2, duration |-> 2]
                 ELSE [num |-> 1, duration |-> 3]]
===============================================================================
