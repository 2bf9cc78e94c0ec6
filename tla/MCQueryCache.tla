---------------------------- MODULE MCQueryCache ----------------------------
(* A query, the same one with other variables, one whose document collides   *)
(* with theirs, a mutation that begins with the keyword and one that begins  *)
(* with a fragment; two users.                                               *)
EXTENDS QueryCache, TLC

CONSTANTS query, ofTwo, twin, mutation, fragment, d1, d2, alice, bob

MCHash == [r \in Requests |-> CASE r \in {query, ofTwo, twin} -> 1
                                [] r = mutation -> 2
                                [] r = fragment -> 3]
MCVars == [r \in Requests |-> IF r = ofTwo THEN 2 ELSE 1]
=============================================================================
