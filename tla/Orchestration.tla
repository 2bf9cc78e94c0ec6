--------------------------- MODULE Orchestration ---------------------------
(***************************************************************************)
(* The patterns of agents/orchestration.rs over the turns of AgentTurn: a  *)
(* router that picks an agent, a chain that feeds each agent the answer of *)
(* the one before, agents that run in parallel and a call that merges what *)
(* they said, and a supervisor that delegates to its workers.  The agents  *)
(* are Order, in the order of their list; an orchestration runs once.      *)
(***************************************************************************)
EXTENDS AgentTurn

CONSTANTS
  Order,        \* the agents of the orchestration
  Listed,       \* those that are visible from its scopes
  BossAnswers   \* what the model may answer the supervisor: [calls], of
                \* <<"delegate", name>> and <<"other">>

\* An orchestration owns its agents: each is in the list once, and a list without
\* agents is refused before anything runs.
ASSUME OrchestrationAssumption ==
  /\ Order \in Seq(Workers) /\ Order # << >>
  /\ \A i, j \in DOMAIN Order : Order[i] = Order[j] => i = j
  /\ \A a \in BossAnswers : a.calls \in Seq(ToSet(a.calls))

VARIABLE
  job   \* [stage, input, results, ended]: the turns begun, what the next agent
        \* is fed, what has come back so far, and the outcome

vars == <<turnVars, job>>

Names == {Order[i] : i \in DOMAIN Order}
NoName == "noname"

JobInit ==
  job = [stage |-> 0, input |-> "client", results |-> << >>, ended |-> "no"]

Running(mode) == setup.mode = mode /\ job.ended = "no"

AskBoss == llm' = [llm EXCEPT ![Boss] = Asked]
BossHas(state) == llm[Boss].state = state
BossIsIdle == BossHas("idle")
BossDone == llm' = [llm EXCEPT ![Boss] = NoCall]

\* A turn of agent c in a conversation of its own.
RunAgent(c, input) ==
  /\ conv' = [conv EXCEPT ![c] = << <<"user">> >>]
  /\ pc' = [pc EXCEPT ![c] = "round"]
  /\ round' = [round EXCEPT ![c] = 0]
  /\ asker' = [asker EXCEPT ![c] = input]
  /\ unheard' = [unheard EXCEPT ![c] = 0]

TurnsAlone == UNCHANGED <<setup, used, box, reply, alive, limits>>

-----------------------------------------------------------------------------
(* Chain *)

\* The next agent is fed what this one said.
Feed(c) == c

\* What the agent of this stage has been fed, and its outcome.
Fed(stage) == IF stage = 1 THEN "client" ELSE Feed(Order[stage - 1])
StageEnded == job.stage > 0 /\ pc[Order[job.stage]] = "ended"
StageFailed == StageEnded /\ outcome[Order[job.stage]] = "err"

ChainRuns ==
  /\ Running("chain") /\ job.stage < Len(Order)
  /\ job.stage = 0 \/ (StageEnded /\ ~StageFailed)
  /\ job' = [job EXCEPT !.stage = @ + 1, !.input = Fed(job.stage + 1)]
  /\ RunAgent(Order[job.stage + 1], Fed(job.stage + 1))
  /\ UNCHANGED <<llm, todo, outcome>> /\ TurnsAlone

ChainEnds ==
  /\ Running("chain") /\ StageEnded
  /\ StageFailed \/ job.stage = Len(Order)
  /\ job' = [job EXCEPT !.ended = IF StageFailed THEN "err" ELSE "ok",
                        !.input = IF StageFailed THEN @ ELSE Feed(Order[job.stage])]
  /\ UNCHANGED <<llm, conv, pc, round, todo, outcome, asker, unheard>> /\ TurnsAlone

-----------------------------------------------------------------------------
(* Parallel *)

ParallelStarts ==
  /\ Running("parallel") /\ job.stage = 0
  /\ job' = [job EXCEPT !.stage = Len(Order)]
  /\ conv' = [c \in Callers |-> IF c \in Names THEN << <<"user">> >> ELSE conv[c]]
  /\ pc' = [c \in Workers |-> IF c \in Names THEN "round" ELSE pc[c]]
  /\ asker' = [c \in Workers |-> IF c \in Names THEN "client" ELSE asker[c]]
  /\ UNCHANGED <<llm, round, todo, outcome, unheard>> /\ TurnsAlone

\* Mutant: whoever is ready first is listed first.
NextResultAny(results) == CHOOSE c \in Names : pc[c] = "ended" /\ c \notin ToSet(results)

\* The tasks are waited for in the order of the list, errors are results too.
NextResult(results) == Order[Len(results) + 1]

ParallelCollects ==
  /\ Running("parallel") /\ job.stage > 0 /\ Len(job.results) < Len(Order)
  /\ \E c \in Names : pc[c] = "ended" /\ c \notin ToSet(job.results)
  /\ LET c == NextResult(job.results) IN
     /\ pc[c] = "ended"
     /\ job' = [job EXCEPT !.results = Append(@, c)]
  /\ UNCHANGED <<llm, conv, pc, round, todo, outcome, asker, unheard>> /\ TurnsAlone

\* With a merge prompt the model is asked once more.
ParallelMerges ==
  /\ Running("parallel") /\ Len(job.results) = Len(Order) /\ BossIsIdle
  /\ \/ /\ AskBoss /\ UNCHANGED job
        /\ conv' = [conv EXCEPT ![Boss] = << <<"user">> >>]
     \/ /\ job' = [job EXCEPT !.ended = "ok"] /\ UNCHANGED <<llm, conv>>
  /\ UNCHANGED <<pc, round, todo, outcome, asker, unheard>> /\ TurnsAlone

ParallelMerged ==
  /\ Running("parallel") /\ llm[Boss].state \in {"answered", "failed"}
  /\ job' = [job EXCEPT !.ended = IF BossHas("failed") THEN "err" ELSE "ok"]
  /\ BossDone
  /\ UNCHANGED <<conv, pc, round, todo, outcome, asker, unheard>> /\ TurnsAlone

-----------------------------------------------------------------------------
(* Router *)

RouterAsks ==
  /\ Running("router") /\ BossIsIdle
  /\ IF Listed = {} THEN job' = [job EXCEPT !.ended = "err"] /\ UNCHANGED <<llm, conv>>
     ELSE /\ AskBoss /\ UNCHANGED job
          /\ conv' = [conv EXCEPT ![Boss] = << <<"user">> >>]
  /\ UNCHANGED <<pc, round, todo, outcome, asker, unheard>> /\ TurnsAlone

\* Any number of the whole list is taken, whether it was listed or not.
RouterPicks ==
  /\ Running("router") /\ llm[Boss].state \in {"answered", "failed"}
  /\ BossDone
  /\ \/ job' = [job EXCEPT !.ended = "err"]
     \/ /\ BossHas("answered")
        /\ \E i \in DOMAIN Order : job' = [job EXCEPT !.ended = "ok", !.results = <<Order[i]>>]
  /\ UNCHANGED <<conv, pc, round, todo, outcome, asker, unheard>> /\ TurnsAlone

-----------------------------------------------------------------------------
(* Supervisor *)

BossPush(msg) == conv' = [conv EXCEPT ![Boss] = Append(@, msg)]

SupervisorAsks ==
  /\ Running("supervisor") /\ BossIsIdle /\ todo[Boss] = << >>
  /\ IF job.stage = MaxRounds
     THEN job' = [job EXCEPT !.ended = "err"] /\ UNCHANGED <<llm, conv>>
     ELSE /\ AskBoss
          /\ job' = [job EXCEPT !.stage = @ + 1]
          /\ IF job.stage = 0 THEN BossPush(<<"user">>) ELSE UNCHANGED conv
  /\ UNCHANGED <<pc, round, todo, outcome, asker, unheard>> /\ TurnsAlone

SupervisorAnswered ==
  /\ Running("supervisor") /\ llm[Boss].state \in {"answered", "failed"}
  /\ BossDone
  /\ IF BossHas("failed") THEN job' = [job EXCEPT !.ended = "err"] /\ UNCHANGED <<conv, todo>>
     ELSE \E a \in BossAnswers :
       IF a.calls = << >>
       THEN job' = [job EXCEPT !.ended = "ok"] /\ UNCHANGED <<conv, todo>>
       ELSE /\ BossPush(<<"uses", Len(a.calls)>>)
            /\ todo' = [todo EXCEPT ![Boss] = a.calls]
            /\ UNCHANGED job
  /\ UNCHANGED <<pc, round, outcome, asker, unheard>> /\ TurnsAlone

\* delegate: a worker by its name, listed or not.
Delegated == IF todo[Boss] # << >> /\ Head(todo[Boss])[1] = "delegate"
               THEN Head(todo[Boss])[2] ELSE NoName

SupervisorDelegates ==
  /\ Running("supervisor") /\ Delegated \in Names /\ pc[Delegated] = "idle"
  /\ RunAgent(Delegated, "boss")
  /\ UNCHANGED <<llm, todo, outcome, job>> /\ TurnsAlone

\* The text of a worker, its error, or what is wrong with the call.
SupervisorHears ==
  /\ Running("supervisor") /\ todo[Boss] # << >>
  /\ Delegated \in Names => pc[Delegated] = "ended"
  /\ BossPush(<<"result", Len(todo[Boss])>>)
  /\ todo' = [todo EXCEPT ![Boss] = Tail(@)]
  /\ pc' = IF Delegated \in Names THEN [pc EXCEPT ![Delegated] = "idle"] ELSE pc
  /\ UNCHANGED <<llm, round, outcome, asker, unheard, job>> /\ TurnsAlone

-----------------------------------------------------------------------------

Init == TurnInit /\ JobInit

JobNext ==
  \/ ChainRuns \/ ChainEnds
  \/ ParallelStarts \/ ParallelCollects \/ ParallelMerges \/ ParallelMerged
  \/ RouterAsks \/ RouterPicks
  \/ SupervisorAsks \/ SupervisorAnswered \/ SupervisorDelegates \/ SupervisorHears

Next == (TurnNext /\ UNCHANGED job) \/ JobNext

\* Tasks run whenever they can: the provider answers or fails, a tool ends.
Fairness ==
  /\ \A c \in Callers : WF_vars(Attempt(c) /\ UNCHANGED job)
  /\ \A c \in Workers : WF_vars(TurnStep(c) /\ UNCHANGED job)
  /\ WF_vars(JobNext)

Spec == Init /\ [][Next]_vars /\ Fairness

-----------------------------------------------------------------------------

\* What comes out of an orchestration comes from the agents in their order: in a
\* chain every agent was fed what the one before it said, and only a chain whose
\* agents all answered ends well; parallel results are listed like the agents,
\* whoever was ready first, and the answer waits for all of them.
ResultsFollowOrder ==
  /\ setup.mode = "chain" =>
       /\ \A i \in 1..job.stage : asker[Order[i]] = IF i = 1 THEN "client" ELSE Order[i - 1]
       /\ job.ended = "ok" => /\ job.input = Order[Len(Order)]
                              /\ \A i \in DOMAIN Order : outcome[Order[i]] = "ok"
       /\ \A i \in 1..job.stage : i < job.stage => outcome[Order[i]] = "ok"
  /\ setup.mode = "parallel" =>
       /\ job.results = SubSeq(Order, 1, Len(job.results))
       /\ job.ended # "no" => \A i \in DOMAIN Order : pc[Order[i]] = "ended"

\* Every turn ends and so does every orchestration, however the model and the
\* tools fail, unless agents wait for each other's mailboxes in a circle, which
\* no timeout breaks.
EveryTurnEnds ==
  /\ \A c \in Workers :
       (pc[c] \notin {"idle", "ended"}) ~> (pc[c] \in {"idle", "ended"} \/ Circle(c))
  /\ (setup.mode # "mailbox") ~> (job.ended # "no")
=============================================================================
