------------------------- MODULE ConversationServer -------------------------
(***************************************************************************)
(* The HTTP server of the agents (agents/server.rs) on a runtime without   *)
(* Redis: requests that start and continue conversations, read them, and   *)
(* stop and restart the instances that hold them; the registry             *)
(* (agents/registry.rs), the tree of the supervisor as far as the server   *)
(* depends on it, the task of an instance (agents/mailbox.rs), and the     *)
(* rows of the database (agents/persistence.rs).  A turn is one step here; *)
(* AgentTurn has the rest.  The three looks of a spawn are one step too;   *)
(* Supervisor has what passes between them, TreeEvents what is told of it. *)
(***************************************************************************)
EXTENDS Integers, Sequences, FiniteSets, SequencesExt

CONSTANTS
  Convs, Requests,
  Scenarios,    \* [ask, durable]: what each request asks, as [verb, conv, agent]
  Room,         \* instances under the supervisor of conversations (1024 in the code)
  DynamicRoom,  \* dynamic nodes of the whole tree (256 in the code)
  MaxOthers,    \* bound: dynamic nodes that are not conversations
  Inbox,        \* of a mailbox (32 in the code)
  MaxFaults     \* bound: accesses to the database that fail, and crashes

Messages == {"start", "message", "tell"}   \* tell: by the key of the registry
Orders == {"stop", "stopTarget", "restart", "restartTarget"}
Asks == [verb : Messages \cup Orders \cup {"get"}, conv : Convs,
         agent : {"known", "unknown", "none"}]

ASSUME ConvAssumption ==
  /\ IsFiniteSet(Convs)
  /\ Scenarios \subseteq [ask : [Requests -> Asks], durable : BOOLEAN]
  /\ Room \in Nat /\ DynamicRoom \in Nat /\ MaxOthers \in Nat
  /\ Inbox \in Nat /\ MaxFaults \in Nat

Unsaved == << <<"unsaved">> >>

VARIABLES
  ask,       \* Requests -> what it asks
  at,        \* Requests -> where its handler is
  answer,    \* Requests -> none, ok, or why not
  before,    \* Requests -> the requests that were over when it began
  seen,      \* Requests -> the history a get returned
  durable,   \* there is a database
  saved,     \* Convs -> the history there
  parent,    \* the supervisor of conversations is in the tree
  node,      \* Convs -> its state in the tree, absent before
  entry,     \* Convs -> it is in the registry
  mailbox,   \* Convs -> with a mailbox
  task,      \* Convs -> off loading open turn saving closed
  history,   \* Convs -> messages: <<"user", r>> and <<"agent", r>>
  queue,     \* Convs -> requests in the mailbox
  orders,    \* Convs -> commands of the supervisor
  others,    \* dynamic nodes that are not conversations
  crowd,     \* history: the most there were of them
  faults, crashed

requests == <<ask, at, answer, before, seen>>
registry == <<entry, mailbox>>
tasks == <<task, history, queue, orders>>
store == <<durable, saved, faults>>
convVars == <<requests, store, parent, node, registry, tasks, others, crowd, crashed>>

C(r) == ask[r].conv
Verb(r) == ask[r].verb
Known(r) == answer[r] = "ok" /\ Verb(r) \in Messages
Goto(r, where) == at' = [at EXCEPT ![r] = where] /\ UNCHANGED answer
Answer(r, what) ==
  /\ at' = [at EXCEPT ![r] = "done"]
  /\ answer' = [answer EXCEPT ![r] = what]
Same == UNCHANGED <<ask, before>>
Transition(c, state) == node' = [node EXCEPT ![c] = state]
Fault == faults < MaxFaults /\ faults' = faults + 1 /\ UNCHANGED <<durable, saved>>

-----------------------------------------------------------------------------
(* A message: the instance is looked up, and made where there is none. *)

\* By HTTP or a WebSocket.  The identifier of a conversation is known when its
\* start has been answered; the registry may be asked for a history directly.
Begin(r) ==
  /\ at[r] = "idle"
  /\ \A q \in Requests \ {r} : Verb(q) = "start" /\ C(q) = C(r) => answer[q] = "ok"
  /\ \/ Verb(r) # "tell" /\ Goto(r, "resolve")
     \/ Verb(r) \in {"tell", "get"} /\ Goto(r, "send")
  /\ before' = [before EXCEPT ![r] = {q \in Requests : at[q] = "done"}]
  /\ UNCHANGED <<ask, seen, store, parent, node, registry, tasks, others, crowd, crashed>>

Resolve(r) ==
  /\ at[r] = "resolve" /\ Verb(r) \in {"start", "message"}
  /\ Goto(r, IF entry[C(r)] THEN "send" ELSE "agent")
  /\ Same /\ UNCHANGED <<seen, store, parent, node, registry, tasks, others, crowd, crashed>>

\* Who is not named is looked up in the row of the conversation.
FindAgent(r) ==
  /\ at[r] = "agent"
  /\ \/ /\ IF ask[r].agent = "known" \/ (ask[r].agent = "none" /\ durable
                                         /\ saved[C(r)] # Unsaved)
             THEN Goto(r, "parent") ELSE Answer(r, "noAgent")
        /\ UNCHANGED faults
     \/ ask[r].agent = "none" /\ durable /\ Fault /\ Answer(r, "fault")
  /\ Same /\ UNCHANGED <<seen, durable, saved, parent, node, registry, tasks, others, crowd, crashed>>

WithParent == IF parent THEN "spawn" ELSE "insert"

\* ensure_static_agent_supervisor looks, and inserts in another step.
FindParent(r) ==
  /\ at[r] = "parent"
  /\ Goto(r, WithParent)
  /\ Same /\ UNCHANGED <<seen, store, parent, node, registry, tasks, others, crowd, crashed>>
InsertParent(r) ==
  /\ at[r] = "insert"
  /\ IF parent THEN Answer(r, "exists") ELSE Goto(r, "spawn")
  /\ parent' = TRUE
  /\ Same /\ UNCHANGED <<seen, store, node, registry, tasks, others, crowd, crashed>>

Children == {c \in Convs : node[c] # "absent"}
DynamicNodes == others + Cardinality(Children)   \* all dynamic nodes

\* Mutant: a node that is there is put in its place again.
RefusesNone(c) ==
  IF Cardinality(Children \ {c}) >= Room THEN "full"
  ELSE IF DynamicNodes >= DynamicRoom THEN "limit" ELSE "no"

\* Mutant: the supervisor of conversations, which is not dynamic, is counted too.
RefusesStatic(c) ==
  IF Cardinality(Children) >= Room THEN "full"
  ELSE IF DynamicNodes + 1 >= DynamicRoom THEN "limit"
  ELSE IF node[c] # "absent" THEN "exists" ELSE "no"

\* ensure_parent_allows_child, enforce_dynamic_limit, insert_node; a node that has
\* stopped is still there, and counts.
Refuses(c) ==
  IF Cardinality(Children) >= Room THEN "full"
  ELSE IF DynamicNodes >= DynamicRoom THEN "limit"
  ELSE IF node[c] # "absent" THEN "exists" ELSE "no"

Spawn(r) ==
  /\ at[r] = "spawn"
  /\ LET c == C(r) IN
     IF Refuses(c) # "no"
       THEN Answer(r, Refuses(c)) /\ UNCHANGED node /\ UNCHANGED tasks
     ELSE /\ Goto(r, "register")
          /\ Transition(c, "running")
          /\ task' = [task EXCEPT ![c] = "loading"]
          /\ queue' = [queue EXCEPT ![c] = << >>]
          /\ orders' = [orders EXCEPT ![c] = << >>]
          /\ UNCHANGED history
  /\ Same /\ UNCHANGED <<seen, store, parent, registry, others, crowd, crashed>>

\* register_mailbox: the entry, and then its mailbox.
Register(r) ==
  /\ at[r] = "register"
  /\ entry' = [entry EXCEPT ![C(r)] = TRUE]
  /\ Goto(r, "control")
  /\ Same /\ UNCHANGED <<seen, store, parent, node, mailbox, tasks, others, crowd, crashed>>
RegisterControl(r) ==
  /\ at[r] = "control"
  /\ mailbox' = [mailbox EXCEPT ![C(r)] = TRUE]
  /\ Goto(r, "send")
  /\ Same /\ UNCHANGED <<seen, store, parent, node, entry, tasks, others, crowd, crashed>>

\* The registry resolves the key anew; a get falls back on the row.
Send(r) ==
  /\ at[r] = "send"
  /\ LET c == C(r) IN
     IF entry[c] THEN Goto(r, "lookup") /\ UNCHANGED <<seen, faults>>
     ELSE IF Verb(r) # "get" \/ ~durable
       THEN Answer(r, "notFound") /\ UNCHANGED <<seen, faults>>
     ELSE \/ /\ Answer(r, IF saved[c] = Unsaved THEN "notFound" ELSE "ok")
             /\ seen' = [seen EXCEPT ![r] = saved[c]]
             /\ UNCHANGED faults
          \/ Fault /\ Answer(r, "fault") /\ UNCHANGED seen
  /\ Same /\ UNCHANGED <<durable, saved, parent, node, registry, tasks, others, crowd, crashed>>

LookupMailbox(r) ==
  /\ at[r] = "lookup"
  /\ IF mailbox[C(r)] THEN Goto(r, "queue") ELSE Answer(r, "mute")
  /\ Same /\ UNCHANGED <<seen, store, parent, node, registry, tasks, others, crowd, crashed>>

\* It waits for room in the mailbox.
Enqueue(r) ==
  /\ at[r] = "queue"
  /\ LET c == C(r) IN
     IF task[c] = "closed" THEN Answer(r, "closed") /\ UNCHANGED queue
     ELSE /\ Len(queue[c]) < Inbox
          /\ queue' = [queue EXCEPT ![c] = Append(@, r)]
          /\ Goto(r, "wait")
  /\ Same /\ UNCHANGED <<seen, store, parent, node, registry, task, history, orders, others, crowd, crashed>>

\* resolve_conversation_target, for a get: the registry, or the row.
ResolveGet(r) ==
  /\ at[r] = "resolve" /\ Verb(r) = "get"
  /\ \/ /\ IF entry[C(r)] \/ (durable /\ saved[C(r)] # Unsaved)
             THEN Goto(r, "send") ELSE Answer(r, "notFound")
        /\ UNCHANGED faults
     \/ ~entry[C(r)] /\ durable /\ Fault /\ Answer(r, "notFound")
  /\ Same /\ UNCHANGED <<seen, durable, saved, parent, node, registry, tasks, others, crowd, crashed>>

-----------------------------------------------------------------------------
(* Orders, by the identifier of the node or by the key of the registry.     *)
(* What is sent is not waited for.                                          *)

Target(r) == Verb(r) \in {"stopTarget", "restartTarget"}
OrderOf(r) == IF Verb(r) \in {"stop", "stopTarget"} THEN "stop" ELSE "restart"

GiveOrder(r) ==
  /\ at[r] = "resolve" /\ Verb(r) \in Orders
  /\ LET c == C(r) IN
     IF \/ Target(r) /\ ~(entry[c] /\ mailbox[c])
        \/ node[c] = "absent" \/ task[c] = "closed"
     THEN Answer(r, "refused") /\ UNCHANGED orders
     ELSE /\ orders' = [orders EXCEPT ![c] = Append(@, OrderOf(r))]
          /\ IF Verb(r) = "restartTarget" THEN Answer(r, "ok") ELSE Goto(r, "registry")
  /\ Same /\ UNCHANGED <<seen, store, parent, node, registry, task, history, queue, others, crowd, crashed>>

\* After a stop the mailbox and then the entry are taken out.
Unregister(r) ==
  /\ at[r] = "registry" /\ OrderOf(r) = "stop"
  /\ mailbox' = [mailbox EXCEPT ![C(r)] = FALSE]
  /\ Goto(r, "unregister")
  /\ Same /\ UNCHANGED <<seen, store, parent, node, entry, tasks, others, crowd, crashed>>
\* After a restart the entry is put in, with the mailbox it has, if any.
AfterOrder(r) ==
  /\ at[r] = "unregister" \/ (at[r] = "registry" /\ OrderOf(r) = "restart")
  /\ entry' = [entry EXCEPT ![C(r)] = OrderOf(r) = "restart"]
  /\ Answer(r, "ok")
  /\ Same /\ UNCHANGED <<seen, store, parent, node, mailbox, tasks, others, crowd, crashed>>

-----------------------------------------------------------------------------
(* The task of an instance. *)

\* A row that cannot be read counts as none.
Load(c) ==
  /\ task[c] = "loading"
  /\ task' = [task EXCEPT ![c] = "open"]
  /\ \/ /\ history' = [history EXCEPT ![c] = IF durable /\ saved[c] # Unsaved
                                               THEN saved[c] ELSE << >>]
        /\ UNCHANGED faults
     \/ durable /\ Fault /\ history' = [history EXCEPT ![c] = << >>]
  /\ Transition(c, "running")
  /\ UNCHANGED <<requests, durable, saved, parent, registry, queue, orders, others, crowd, crashed>>

\* save_conversation_snapshot, whose failure is logged.
Save(c, what) ==
  \/ durable /\ saved' = [saved EXCEPT ![c] = what] /\ UNCHANGED <<durable, faults>>
  \/ durable /\ Fault
  \/ ~durable /\ UNCHANGED store

\* Mutant: a mailbox that stops keeps the requests in it.
DroppedNone(c) == {}

\* The messages that wait in the mailbox are dropped with it.
Dropped(c) == ToSet(queue[c])

ObeyStop(c) ==
  /\ task[c] = "open" /\ orders[c] # << >> /\ Head(orders[c]) = "stop"
  /\ task' = [task EXCEPT ![c] = "closed"]
  /\ Transition(c, "stopped")
  /\ at' = [r \in Requests |-> IF r \in Dropped(c) THEN "done" ELSE at[r]]
  /\ answer' = [r \in Requests |-> IF r \in Dropped(c) THEN "dropped" ELSE answer[r]]
  /\ queue' = [queue EXCEPT ![c] = << >>]
  /\ Same /\ UNCHANGED <<seen, store, parent, registry, history, orders, others, crowd, crashed>>

ObeyRestart(c) ==
  /\ task[c] = "open" /\ orders[c] # << >> /\ Head(orders[c]) = "restart"
  /\ orders' = [orders EXCEPT ![c] = Tail(@)]
  /\ history' = [history EXCEPT ![c] = << >>]
  /\ Save(c, << >>)
  /\ Transition(c, "running")
  /\ UNCHANGED <<requests, parent, registry, task, queue, others, crowd, crashed>>

Take(c) ==
  /\ task[c] = "open" /\ queue[c] # << >>
  /\ queue' = [queue EXCEPT ![c] = Tail(@)]
  /\ LET r == Head(queue[c]) IN
     IF Verb(r) = "get"
       THEN /\ Answer(r, "ok") /\ seen' = [seen EXCEPT ![r] = history[c]]
            /\ UNCHANGED <<task, history>>
     ELSE /\ history' = [history EXCEPT ![c] = Append(@, <<"user", r>>)]
          /\ task' = [task EXCEPT ![c] = "turn"]
          /\ UNCHANGED <<at, answer, seen>>
  /\ Same /\ UNCHANGED <<store, parent, node, registry, orders, others, crowd, crashed>>

\* A failure is put in the tree; the message stays in the history.
TurnEnds(c) ==
  /\ task[c] = "turn"
  /\ task' = [task EXCEPT ![c] = "saving"]
  /\ \/ /\ history' = [history EXCEPT ![c] = Append(@, <<"agent", Last(@)[2]>>)]
        /\ UNCHANGED node
     \/ Transition(c, "failed") /\ UNCHANGED history
  /\ UNCHANGED <<requests, store, parent, registry, queue, orders, others, crowd, crashed>>

\* The row is written before the request is answered.
SaveAndRespond(c) ==
  /\ task[c] = "saving"
  /\ task' = [task EXCEPT ![c] = "open"]
  /\ Save(c, history[c])
  /\ LET last == Last(history[c]) IN
     Answer(last[2], IF last[1] = "agent" THEN "ok" ELSE "failed")
  /\ IF node[c] = "failed" THEN Transition(c, "running") ELSE UNCHANGED node
  /\ Same /\ UNCHANGED <<seen, parent, registry, history, queue, orders, others, crowd, crashed>>

-----------------------------------------------------------------------------

\* An agent or a supervisor that somebody starts at run time takes a place in the
\* tree, and keeps it.
OthersSpawn ==
  /\ others < MaxOthers
  /\ others' = others + 1
  /\ crowd' = IF others' > crowd THEN others' ELSE crowd
  /\ UNCHANGED <<requests, store, parent, node, registry, tasks, crashed>>

\* The process dies and another is started; the rows are what remains.
Crash ==
  /\ ~crashed /\ faults < MaxFaults
  /\ crashed' = TRUE
  /\ LET Cuts(r) == at[r] \notin {"idle", "done"} IN
     /\ at' = [r \in Requests |-> IF Cuts(r) THEN "done" ELSE at[r]]
     /\ answer' = [r \in Requests |-> IF Cuts(r) THEN "lost" ELSE answer[r]]
  /\ parent' = FALSE
  /\ node' = [c \in Convs |-> "absent"]
  /\ entry' = [c \in Convs |-> FALSE] /\ mailbox' = [c \in Convs |-> FALSE]
  /\ task' = [c \in Convs |-> "off"]
  /\ history' = [c \in Convs |-> << >>]
  /\ queue' = [c \in Convs |-> << >>] /\ orders' = [c \in Convs |-> << >>]
  /\ others' = 0
  /\ Same /\ UNCHANGED <<seen, store, crowd>>

ConvInit ==
  /\ at = [r \in Requests |-> "idle"]
  /\ answer = [r \in Requests |-> "none"]
  /\ before = [r \in Requests |-> {}]
  /\ seen = [r \in Requests |-> << >>]
  /\ saved = [c \in Convs |-> Unsaved]
  /\ parent = FALSE
  /\ node = [c \in Convs |-> "absent"]
  /\ entry = [c \in Convs |-> FALSE] /\ mailbox = [c \in Convs |-> FALSE]
  /\ task = [c \in Convs |-> "off"]
  /\ history = [c \in Convs |-> << >>]
  /\ queue = [c \in Convs |-> << >>] /\ orders = [c \in Convs |-> << >>]
  /\ others = 0 /\ crowd = 0
  /\ faults = 0 /\ crashed = FALSE
  /\ \E s \in Scenarios : ask = s.ask /\ durable = s.durable

Handler(r) ==
  \/ Resolve(r) \/ FindAgent(r) \/ FindParent(r) \/ InsertParent(r) \/ Spawn(r)
  \/ Register(r) \/ RegisterControl(r) \/ Send(r) \/ LookupMailbox(r) \/ Enqueue(r)
  \/ ResolveGet(r) \/ GiveOrder(r) \/ Unregister(r) \/ AfterOrder(r)
Instance(c) == Load(c) \/ ObeyStop(c) \/ ObeyRestart(c) \/ Take(c) \/ TurnEnds(c) \/ SaveAndRespond(c)

ConvNext ==
  \/ \E r \in Requests : Begin(r) \/ Handler(r)
  \/ \E c \in Convs : Instance(c)
  \/ OthersSpawn
  \/ Crash

\* Handlers and tasks run whenever they can, and a turn ends.
ConvFairness ==
  /\ \A r \in Requests : WF_convVars(Handler(r))
  /\ \A c \in Convs : WF_convVars(Instance(c))

ConvSpec == ConvInit /\ [][ConvNext]_convVars /\ ConvFairness

-----------------------------------------------------------------------------
(* Properties *)

Begun(q) == at[q] # "idle"
AskedFor(c, verbs) == \E q \in Requests : Begun(q) /\ Verb(q) \in verbs /\ C(q) = c
Wanted == {c \in Convs : AskedFor(c, {"start", "message"})}
HasAnswer(h, r) == \E i \in 1..(Len(h) - 1) : h[i] = <<"user", r>> /\ h[i + 1] = <<"agent", r>>

\* The code may forget: a restart starts the conversation anew, and a row that
\* could not be read or written is not missed.
Forgets(c) == faults > 0 \/ AskedFor(c, {"restart", "restartTarget"}) \/ (crashed /\ ~durable)

\* A conversation has one history, in which every answer follows its message:
\* what a client was answered is in the history of the instance and, with a
\* database, in the row, through a stop, a crash, and two requests that both
\* found no instance; and who reads it finds what was answered before he asked
\* (agents/server.rs:466, agents/mailbox.rs:221, supervision.rs:613).
HistoryIsKept ==
  /\ \A c \in Convs : \A r \in Requests :
       Known(r) /\ C(r) = c /\ ~Forgets(c) =>
         /\ task[c] \in {"open", "turn", "saving"} => HasAnswer(history[c], r)
         /\ durable => HasAnswer(saved[c], r)
  /\ \A c \in Convs : \A i \in DOMAIN history[c] :
       history[c][i][1] = "agent" => i > 1 /\ history[c][i - 1] = <<"user", history[c][i][2]>>
  /\ \A r \in Requests : Verb(r) = "get" /\ answer[r] = "ok" /\ ~Forgets(C(r)) =>
       \A q \in before[r] : Known(q) /\ C(q) = C(r) => HasAnswer(seen[r], q)

\* A conversation that nobody stopped is never refused to a client, but to one
\* that came together with another client's first message, when more of them were
\* asked for than their supervisor has room for, or than the tree has, which counts
\* the dynamic nodes of everybody, or when an agent or the database failed;
\* after a stop the node is in the way of its successor until the process ends; a
\* restart that comes when the entry is gone, or not yet there, leaves one without
\* a mailbox, and so is the entry for a moment when it is put in and when it is
\* taken out (supervision.rs:389, 613, 743, agents/server.rs:674, agents/registry.rs:547).
RefusalsAreExplained ==
  \A r \in Requests :
    LET c == C(r)
        why == answer[r]
        Stopped == AskedFor(c, {"stop", "stopTarget"})
        Rival == \E q \in Requests \ ({r} \cup before[r]) :
                   Begun(q) /\ Verb(q) \in {"start", "message"}
    IN /\ why = "exists" => Rival \/ Stopped
       /\ why \in {"closed", "dropped", "refused"} /\ Verb(r) \notin Orders => Stopped
       /\ why = "mute" => AskedFor(c, {"restart"}) \/ Stopped \/ Rival
       /\ why = "full" => Rival \/ Stopped \/ Cardinality(Wanted) > Room
       /\ why = "limit" => Rival \/ Stopped \/ Cardinality(Wanted) + crowd > DynamicRoom
       /\ why = "noAgent" => ask[r].agent # "known"
       /\ why = "notFound" /\ (\E q \in before[r] : Known(q) /\ C(q) = c) =>
            Stopped \/ crashed \/ faults > 0
       /\ why = "lost" => crashed

\* Every request is answered, however messages, orders and first messages of the
\* same conversation come together, unless the process dies (agents/mailbox.rs:66).
EveryRequestIsAnswered ==
  \A r \in Requests : at[r] # "idle" ~> at[r] = "done"
=============================================================================
