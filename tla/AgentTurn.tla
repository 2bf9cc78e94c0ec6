----------------------------- MODULE AgentTurn ------------------------------
(***************************************************************************)
(* Turns of an agent: the mailbox that takes one message at a time         *)
(* (agents/mailbox.rs), the rounds of run_turn and their tools             *)
(* (agents/agent.rs, agents/tool.rs, agents/registry_tool.rs), the shared  *)
(* budget (agents/budget.rs), the window of the conversation               *)
(* (agents/conversation.rs) and the retries and fallbacks of a call of the *)
(* language model (agents/llm.rs).                                         *)
(*                                                                         *)
(* Workers are instances of agents, each with its conversation; those of a *)
(* mailbox share the budget of their agent.  The Boss calls the model for  *)
(* an orchestration and has no budget.  A message of a conversation is     *)
(* <<"user">>, <<"said">>, <<"uses", n>> with n tool calls or              *)
(* <<"result", i>>, the result of the i-th of them.                        *)
(***************************************************************************)
EXTENDS Integers, Sequences, FiniteSets, SequencesExt

CONSTANTS
  Workers, Boss,
  Answers,      \* what the model may answer, [text, calls]
  MaxRounds,    \* MAX_TOOL_ROUNDS
  MaxRetries,   \* of the model that is asked for
  Fallbacks,    \* how many models there are to fall back to
  MaxTokens, MaxToolCalls,   \* the budget; a call of the model costs one token
  Windows,      \* summarize_after, 0 for no window
  Modes,        \* what the workers are used for
  MaxMessages, MaxStops      \* bounds of the model

Callers == Workers \cup {Boss}

\* The calls of an answer are a list.
ASSUME AgentTurnAssumption ==
  /\ IsFiniteSet(Workers) /\ Workers # {} /\ Boss \notin Workers
  /\ \A a \in Answers : a.calls \in Seq(ToSet(a.calls))
  /\ MaxTokens \in Nat /\ MaxToolCalls \in Nat
  /\ Windows \subseteq Nat

VARIABLES
  setup,     \* [mode, window], chosen once
  llm,       \* Callers -> the call of the model: [state, model, attempt]
  conv,      \* Callers -> the messages of the conversation
  pc,        \* Workers -> where the turn stands
  round,     \* Workers -> rounds begun in this turn
  todo,      \* Callers -> calls of the last answer that have no result yet
  outcome,   \* Workers -> how the last turn ended
  used,      \* the budget: [tokens, calls]
  box,       \* Workers -> the mailbox, who waits for an answer to what
  asker,     \* Workers -> who waits for the turn that runs
  reply,     \* Workers -> what came back for a message to another agent
  alive,     \* Workers -> there is a mailbox; orchestrations run without
  unheard,   \* Callers -> user messages that got no answer in this conversation
  limits     \* messages sent and mailboxes stopped or restarted

turnVars == <<setup, llm, conv, pc, round, todo, outcome, used, box, asker, reply, alive, unheard,
              limits>>

-----------------------------------------------------------------------------
(* LlmClient. *)

NoCall == [state |-> "idle", model |-> 0, attempt |-> 0]
Asked == [NoCall EXCEPT !.state = "trying"]

\* Three retries for the model itself, one for each fallback.
Retries(model) == IF model = 0 THEN MaxRetries ELSE 1

\* Mutant: a fallback that fails is tried again without end.
NextTryForever(call) ==
  IF call.attempt < Retries(call.model) THEN [call EXCEPT !.attempt = @ + 1]
  ELSE IF call.model < Fallbacks THEN [call EXCEPT !.model = @ + 1, !.attempt = 0]
  ELSE IF call.model > 0 THEN [call EXCEPT !.attempt = 0] ELSE [call EXCEPT !.state = "failed"]

NextModel(call) ==
  IF call.model < Fallbacks THEN [call EXCEPT !.model = @ + 1, !.attempt = 0]
  ELSE [call EXCEPT !.state = "failed"]
\* After a rate limit or a transient error: again, or the next model.
NextTry(call) ==
  IF call.attempt < Retries(call.model) THEN [call EXCEPT !.attempt = @ + 1] ELSE NextModel(call)

\* A stream that has begun and breaks is not asked for again.
Attempt(c) ==
  /\ llm[c].state = "trying"
  /\ \E next \in {[llm[c] EXCEPT !.state = "answered"], [llm[c] EXCEPT !.state = "failed"],
                  NextTry(llm[c]), NextModel(llm[c])} :
       llm' = [llm EXCEPT ![c] = next]
  /\ UNCHANGED <<setup, conv, pc, round, todo, outcome, used, box, asker, reply, alive, unheard,
                 limits>>

-----------------------------------------------------------------------------
(* Conversation. *)

Compact(msgs) ==
  IF setup.window = 0 \/ Len(msgs) <= setup.window THEN msgs
  ELSE SubSeq(msgs, Len(msgs) - setup.window + 1, Len(msgs))

Push(c, msg) == Compact(Append(conv[c], msg))

\* The agents of Parallel are made anew, with a budget that has no limits; the
\* others charge the tracker they share.
Charged == setup.mode # "parallel"

\* Mutant: the budget allows one call more.
LlmBudgetLeftOff == ~Charged \/ used.tokens <= MaxTokens
LlmBudgetLeft == ~Charged \/ used.tokens < MaxTokens
ToolBudgetLeft == ~Charged \/ used.calls < MaxToolCalls
Charge(what) == IF Charged THEN [used EXCEPT ![what] = @ + 1] ELSE used

-----------------------------------------------------------------------------
(* The mailbox. *)

ToBox(c, from) == box' = [box EXCEPT ![c] = Append(@, from)]

ClientSends(c) ==
  /\ setup.mode = "mailbox" /\ alive[c] /\ limits.messages < MaxMessages
  /\ ToBox(c, "client")
  /\ limits' = [limits EXCEPT !.messages = @ + 1]
  /\ UNCHANGED <<setup, llm, conv, pc, round, todo, outcome, used, asker, reply, alive, unheard>>

\* The user message is added as it is; the window comes with the round.
StartTurn(c) ==
  /\ conv' = [conv EXCEPT ![c] = Append(@, <<"user">>)]
  /\ pc' = [pc EXCEPT ![c] = "round"]
  /\ round' = [round EXCEPT ![c] = 0]

TakeMessage(c) ==
  /\ alive[c] /\ pc[c] = "idle" /\ box[c] # << >>
  /\ StartTurn(c)
  /\ box' = [box EXCEPT ![c] = Tail(@)]
  /\ asker' = [asker EXCEPT ![c] = Head(box[c])]
  /\ UNCHANGED <<setup, llm, todo, outcome, used, reply, alive, unheard, limits>>

\* The answer goes to the one who asked; a turn that failed leaves the
\* conversation as it is.
Respond(c) ==
  /\ pc[c] = "ended" /\ setup.mode = "mailbox"
  /\ pc' = [pc EXCEPT ![c] = "idle"]
  /\ reply' = IF asker[c] \in Workers THEN [reply EXCEPT ![asker[c]] = outcome[c]] ELSE reply
  /\ asker' = [asker EXCEPT ![c] = "nobody"]
  /\ UNCHANGED <<setup, llm, conv, round, todo, outcome, used, box, alive, unheard, limits>>

\* Restart: an empty conversation, the mailbox is kept.
RestartMailbox(c) ==
  /\ setup.mode = "mailbox" /\ alive[c] /\ pc[c] = "idle" /\ limits.stops < MaxStops
  /\ conv' = [conv EXCEPT ![c] = << >>]
  /\ unheard' = [unheard EXCEPT ![c] = 0]
  /\ limits' = [limits EXCEPT !.stops = @ + 1]
  /\ UNCHANGED <<setup, llm, pc, round, todo, outcome, used, box, asker, reply, alive>>

\* Stop: whoever waits in the mailbox learns that it is gone.
StopMailbox(c) ==
  /\ setup.mode = "mailbox" /\ alive[c] /\ pc[c] = "idle" /\ limits.stops < MaxStops
  /\ alive' = [alive EXCEPT ![c] = FALSE]
  /\ box' = [box EXCEPT ![c] = << >>]
  /\ reply' = [d \in Workers |-> IF d \in ToSet(box[c]) THEN "err" ELSE reply[d]]
  /\ limits' = [limits EXCEPT !.stops = @ + 1]
  /\ UNCHANGED <<setup, llm, conv, pc, round, todo, outcome, used, asker, unheard>>

-----------------------------------------------------------------------------
(* run_turn. *)

End(c, how) ==
  /\ pc' = [pc EXCEPT ![c] = "ended"]
  /\ outcome' = [outcome EXCEPT ![c] = how]

BeginRound(c) ==
  /\ pc[c] = "round"
  /\ conv' = [conv EXCEPT ![c] = IF round[c] < MaxRounds THEN Compact(@) ELSE @]
  /\ IF round[c] < MaxRounds /\ LlmBudgetLeft
     THEN /\ llm' = [llm EXCEPT ![c] = Asked]
          /\ pc' = [pc EXCEPT ![c] = "calling"]
          /\ round' = [round EXCEPT ![c] = @ + 1]
          /\ UNCHANGED <<outcome, unheard>>
     ELSE /\ End(c, "err")
          /\ unheard' = [unheard EXCEPT ![c] = @ + 1]
          /\ UNCHANGED <<llm, round>>
  /\ UNCHANGED <<setup, todo, used, box, asker, reply, alive, limits>>

\* An answer is charged, then kept: the text, or the calls that are to be made.
TakeAnswer(c) ==
  /\ pc[c] = "calling" /\ llm[c].state = "answered"
  /\ llm' = [llm EXCEPT ![c] = NoCall]
  /\ used' = Charge("tokens")
  /\ \E a \in Answers :
       IF a.calls = << >>
       THEN /\ conv' = [conv EXCEPT ![c] = IF a.text THEN Push(c, <<"said">>) ELSE @]
            /\ unheard' = [unheard EXCEPT ![c] = IF a.text THEN @ ELSE @ + 1]
            /\ End(c, "ok")
            /\ UNCHANGED todo
       ELSE /\ conv' = [conv EXCEPT ![c] = Push(c, <<"uses", Len(a.calls)>>)]
            /\ todo' = [todo EXCEPT ![c] = a.calls]
            /\ pc' = [pc EXCEPT ![c] = "tool"]
            /\ UNCHANGED <<outcome, unheard>>
  /\ UNCHANGED <<setup, round, box, asker, reply, alive, limits>>

LlmFails(c) ==
  /\ pc[c] = "calling" /\ llm[c].state = "failed"
  /\ llm' = [llm EXCEPT ![c] = NoCall]
  /\ unheard' = [unheard EXCEPT ![c] = @ + 1]
  /\ End(c, "err")
  /\ UNCHANGED <<setup, conv, round, todo, used, box, asker, reply, alive, limits>>

\* Mutant: a call that is refused is passed over, without a result.
ResultDropped(c, refused) == IF refused THEN conv[c] ELSE Push(c, <<"result", Len(todo[c])>>)

\* The calls are counted from the last; whatever came of one, it has a result.
Result(c, refused) == Push(c, <<"result", Len(todo[c])>>)

AddResult(c, refused) ==
  /\ conv' = [conv EXCEPT ![c] = Result(c, refused)]
  /\ todo' = [todo EXCEPT ![c] = Tail(@)]
  /\ pc' = [pc EXCEPT ![c] = IF Len(todo[c]) = 1 THEN "round" ELSE "tool"]

\* prepare_tool_call: the capability and the tool, then the budget.
PrepareTool(c) ==
  /\ pc[c] = "tool"
  /\ IF Head(todo[c]) = "missing" \/ ~ToolBudgetLeft
     THEN AddResult(c, TRUE)
     ELSE pc' = [pc EXCEPT ![c] = "ready"] /\ UNCHANGED <<conv, todo>>
  /\ UNCHANGED <<setup, llm, round, outcome, used, box, asker, reply, alive, unheard, limits>>

\* execute_prepared_tool: recorded first.  A message goes to the mailbox of the
\* other agent, and the turn waits for its answer as long as that takes.
RunTool(c) ==
  /\ pc[c] = "ready"
  /\ used' = Charge("calls")
  /\ LET to == Head(todo[c]) IN
     IF to \in Workers /\ alive[to]
     THEN ToBox(to, c) /\ pc' = [pc EXCEPT ![c] = "waiting"]
     ELSE UNCHANGED box /\ pc' = [pc EXCEPT ![c] = "running"]
  /\ UNCHANGED <<setup, llm, conv, round, todo, outcome, asker, reply, alive, unheard, limits>>

ToolEnds(c) ==
  /\ pc[c] = "running"
  /\ AddResult(c, FALSE)
  /\ UNCHANGED <<setup, llm, round, outcome, used, box, asker, reply, alive, unheard, limits>>

ReplyComes(c) ==
  /\ pc[c] = "waiting" /\ reply[c] # "none"
  /\ reply' = [reply EXCEPT ![c] = "none"]
  /\ AddResult(c, FALSE)
  /\ UNCHANGED <<setup, llm, round, outcome, used, box, asker, alive, unheard, limits>>

-----------------------------------------------------------------------------

TurnInit ==
  /\ setup \in [mode : Modes, window : Windows]
  /\ llm = [c \in Callers |-> NoCall]
  /\ conv = [c \in Callers |-> << >>]
  /\ pc = [c \in Workers |-> "idle"]
  /\ round = [c \in Workers |-> 0]
  /\ todo = [c \in Callers |-> << >>]
  /\ outcome = [c \in Workers |-> "none"]
  /\ used = [tokens |-> 0, calls |-> 0]
  /\ box = [c \in Workers |-> << >>]
  /\ asker = [c \in Workers |-> "nobody"]
  /\ reply = [c \in Workers |-> "none"]
  /\ alive = [c \in Workers |-> setup.mode = "mailbox"]
  /\ unheard = [c \in Callers |-> 0]
  /\ limits = [messages |-> 0, stops |-> 0]

\* What a turn does by itself, once it has begun.
TurnStep(c) ==
  \/ TakeMessage(c) \/ Respond(c) \/ BeginRound(c) \/ TakeAnswer(c) \/ LlmFails(c)
  \/ PrepareTool(c) \/ RunTool(c) \/ ToolEnds(c) \/ ReplyComes(c)

TurnNext ==
  \/ \E c \in Callers : Attempt(c)
  \/ \E c \in Workers : TurnStep(c) \/ ClientSends(c) \/ RestartMailbox(c) \/ StopMailbox(c)

-----------------------------------------------------------------------------

\* The results a use has still to get are the next messages, in the order of
\* its calls, those of a turn that runs excepted.
Answered(c, i) ==
  LET n == conv[c][i][2] IN
  \A k \in 1..n :
    \/ i + k > Len(conv[c]) /\ k > n - Len(todo[c])
    \/ i + k <= Len(conv[c]) /\ conv[c][i + k] = <<"result", n - k + 1>>

\* Without its use a result stands only where the window has cut: at the front.
HasUse(c, i) ==
  \E j \in 0..(i - 1) :
    IF j = 0 THEN \A k \in 1..i : conv[c][k][1] = "result"
    ELSE conv[c][j][1] = "uses" /\ \A k \in (j + 1)..i : conv[c][k][1] = "result"

\* Two user messages in a row: the first had no answer, as often as that
\* happened.
DoubledUsers(c) ==
  Cardinality({i \in 1..(Len(conv[c]) - 1) : conv[c][i] = <<"user">> /\ conv[c][i + 1] = <<"user">>})

\* What the model is asked: whenever a request is on its way, every tool call in
\* it is followed by its results in order, a result without its call is only
\* where the window has cut the conversation (and with no window nowhere), and
\* user messages follow each other only after turns without an answer.
RequestsHoldTogether ==
  \A c \in Callers : llm[c].state = "trying" =>
    /\ \A i \in DOMAIN conv[c] : conv[c][i][1] = "uses" => Answered(c, i)
    /\ \A i \in DOMAIN conv[c] : conv[c][i][1] = "result" =>
         /\ HasUse(c, i)
         /\ (setup.window = 0 \/ c = Boss) => conv[c][1][1] # "result"
    /\ DoubledUsers(c) <= unheard[c]
    /\ conv[c] # << >> /\ conv[c][Len(conv[c])][1] \in {"user", "result"}

InCall == {c \in Workers : pc[c] = "calling"}
InTool == {c \in Workers : pc[c] = "ready"}

\* The budget is checked before a call and charged after it, by turns that share
\* it: it is passed by no more than what is under way at once, one call of the
\* model and one tool for each worker.  Agents that run in parallel have none.
BudgetOverrunIsBounded ==
  Charged =>
  /\ used.tokens + Cardinality(InCall) <= MaxTokens + Cardinality(Workers) - 1
  /\ used.calls + Cardinality(InTool) <= MaxToolCalls + Cardinality(Workers) - 1

\* Who a turn waits for, and whether that never ends: messages in a circle.
Waits(c) == IF pc[c] = "waiting" /\ reply[c] = "none" THEN Head(todo[c]) ELSE c
Circle(c) ==
  LET f[n \in 0..Cardinality(Workers)] == IF n = 0 THEN c ELSE Waits(f[n - 1])
      last == f[Cardinality(Workers)]
  IN pc[last] = "waiting" /\ reply[last] = "none"
=============================================================================
