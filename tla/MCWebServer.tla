---------------------------- MODULE MCWebServer ----------------------------
(* Two requests of one program, on one worker; with two workers, or with a  *)
(* listener to wait for, two requests of which one is rejected.             *)
EXTENDS WebServer, TLC

CONSTANTS r1, r2

MCRequests == {r1, r2}
App(kind, head, frames, call, items) ==
  [kind |-> kind, head |-> head, frames |-> frames, call |-> call, items |-> items]
Common ==
  {App("wsgi", "good", 1, <<"puff", "start">>, <<"more", "more">>),
   App("wsgi", "good", 0, << >>, <<"start", "more">>),
   App("asgi", "header", 1, <<"receive", "start", "more", "last">>, << >>),
   App("gql", "good", 0, << >>, << >>),
   App("sub", "good", 0, << >>, <<"more", "more">>)}
Refused ==
  {App("gql", "good", 0, <<"reject">>, << >>), App("gql", "good", 0, <<"misreject">>, << >>)}
Odd ==
  {App("wsgi", "good", 2, <<"start">>, << >>),
   App("wsgi", "header", 0, <<"start">>, << >>),
   App("wsgi", "good", 0, <<"start", "start">>, << >>),
   App("wsgi", "good", 0, <<"start">>, <<"more", "raise", "start", "odd", "more">>),
   App("wsgi", "good", 0, <<"start">>, <<"more", "forever", "more">>),
   App("asgi", "path", 0, << >>, << >>),
   App("asgi", "good", 2, <<"drain", "start", "more", "other", "last">>, << >>),
   App("asgi", "good", 0, <<"start", "more", "start", "more">>, << >>),
   App("asgi", "good", 0, <<"puff", "last">>, << >>),
   App("sub", "good", 0, << >>, <<"more", "raise">>)}
\* Each of them with each of the common ones.
MCApps == (r1 :> Common \cup Odd \cup Refused) @@ (r2 :> Common)

MCInit ==
  /\ Init
  /\ workers = 2 \/ pubsub => app[r1] \in Refused /\ app[r2].kind = "gql"
MCSpec == MCInit /\ [][Next]_vars /\ Fairness
=============================================================================
