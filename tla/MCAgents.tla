------------------------------ MODULE MCAgents ------------------------------
(* Turns and orchestrations of two agents, one of which may call the other; *)
(* or the server of conversations, whose instances take turns in one step:  *)
(* a behaviour is of one side or of the other.                              *)
EXTENDS Orchestration, ConversationServer, TLC

CONSTANTS w1, w2

MCOrder == <<w1, w2>>
MCListed == {w1}
MCAnswers == {[text |-> TRUE, calls |-> << >>], [text |-> FALSE, calls |-> << >>],
              [text |-> TRUE, calls |-> <<"work", "missing">>],
              [text |-> FALSE, calls |-> <<w2>>], [text |-> FALSE, calls |-> <<w1>>]}
MCBossAnswers == {[calls |-> << >>], [calls |-> << <<"delegate", w1>>, <<"delegate", w2>> >>],
                  [calls |-> << <<"other">>, <<"delegate", "nobody">> >>]}

-----------------------------------------------------------------------------

CONSTANTS k1, k2, k3, q1, q2, q3

A(verb, c, agent) == [verb |-> verb, conv |-> c, agent |-> agent]
First == A("message", k1, "known")
Then(verb) == A(verb, k1, "none")
Sc(a, b, d, has) ==
  [ask |-> (q1 :> a @@ q2 :> b @@ q3 :> d), durable |-> has]

Idle == Sc(First, First, Then("get"), TRUE)
\* Each of them a conversation of its own: the only scenario in which others come.
Crowd == Sc(First, A("message", k2, "known"), A("message", k3, "known"), FALSE)
MCScenarios ==
  {Idle, Crowd,
   Sc(First, First, Then("get"), FALSE),
   Sc(A("start", k1, "known"), Then("message"), Then("restart"), TRUE),
   Sc(First, Then("stop"), Then("message"), TRUE),
   Sc(First, Then("stopTarget"), A("tell", k2, "none"), FALSE),
   Sc(First, Then("stop"), Then("restart"), FALSE),
   Sc(First, Then("stop"), Then("get"), TRUE),
   Sc(First, Then("restartTarget"), Then("tell"), FALSE),
   Sc(A("message", k1, "unknown"), Then("message"), First, FALSE)}

-----------------------------------------------------------------------------

VARIABLE side   \* turns or server

MCInit ==
  /\ Init /\ ConvInit
  /\ \/ side = "turns" /\ ask = Idle.ask /\ durable = Idle.durable
     \/ side = "server" /\ setup = [mode |-> "mailbox", window |-> 0]

CrowdOnly == others' > others => ask = Crowd.ask

MCNext ==
  \/ side = "turns" /\ Next /\ UNCHANGED <<convVars, side>>
  \/ side = "server" /\ ConvNext /\ UNCHANGED <<vars, side>> /\ CrowdOnly

MCSpec == MCInit /\ [][MCNext]_<<vars, convVars, side>> /\ Fairness /\ ConvFairness
=============================================================================
