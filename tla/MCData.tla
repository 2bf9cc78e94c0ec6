------------------------------- MODULE MCData -------------------------------
(* What a client is told: answers out of the cache of results, what became   *)
(* of the statements on a Postgres connection, events of the supervision     *)
(* tree.  A behaviour is of one of the three.                                *)
EXTENDS PgConnection, MCQueryCache, TreeEvents

CONSTANTS c1, c2, s1, owned, common, r1, r2

Symmetry == Permutations({c1, c2}) \cup Permutations(Clients) \cup Permutations({r1, r2})

\* A service and an agent supervisor.
MCInserted == [n \in TreeNodes |-> IF n = owned THEN "starting" ELSE "running"]

VARIABLE side   \* cache, connection or events

MCInit == Init /\ CacheInit /\ TreeInit /\ side \in {"cache", "connection", "events"}

MCNext ==
  \/ side = "connection" /\ Next /\ UNCHANGED <<cacheVars, treeVars, side>>
  \/ side = "cache" /\ CacheNext /\ UNCHANGED <<vars, treeVars, side>>
  \/ side = "events" /\ TreeNext /\ UNCHANGED <<vars, cacheVars, side>>

MCSpec == MCInit /\ [][MCNext]_<<vars, cacheVars, treeVars, side>>
=============================================================================
