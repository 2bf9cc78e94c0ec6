----------------------------- MODULE MCServices -----------------------------
(* What is supervised, and one of the services: the listener of pubsub.  A   *)
(* behaviour is of one of the two.                                           *)
EXTENDS Supervisor, PubSub, TLC

CONSTANTS root, s1, a1, a2, i1, i2, r1, r2, c1, c2, x, y

Permanent == s1 :> "permanent"

VARIABLE side   \* tree or pubsub

MCInit == Init /\ PubSubInit /\ side \in {"tree", "pubsub"}

MCNext ==
  \/ side = "tree" /\ Next /\ UNCHANGED <<pubsubVars, side>>
  \/ side = "pubsub" /\ PubSubNext /\ UNCHANGED <<vars, side>>

\* Nothing of a tree that nobody asked anything of can run.
MCFairness == Fairness /\ WF_pubsubVars(side = "pubsub" /\ Listener)

MCSpec == MCInit /\ [][MCNext]_<<vars, pubsubVars, side>> /\ MCFairness
=============================================================================
