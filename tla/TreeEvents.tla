----------------------------- MODULE TreeEvents -----------------------------
(***************************************************************************)
(* The events of the supervision tree (src/src/supervision.rs) and a       *)
(* client that follows them (ws_runtime_events of src/src/agents/server.rs *)
(* subscribes, takes a snapshot of the tree, and applies what it is sent). *)
(* Whoever changes a node writes it under the lock, drops the lock, reads  *)
(* the node again and sends what it read: steps between which others do    *)
(* theirs.  A service or a managed instance is written by one thread at a  *)
(* time, the request that inserts it and then the task that one spawns; a  *)
(* node without a task, an agent supervisor, by every request that stops   *)
(* or restarts it.  Supervisor says which states follow which; here a task *)
(* may write any.  Of a node, the state and the number of restarts are     *)
(* kept; the broadcast's other receivers have queues of their own.         *)
(***************************************************************************)
EXTENDS Naturals, Sequences

CONSTANTS
  Owned,      \* nodes with a task of their own
  Common,     \* nodes without
  Inserted,   \* of each node: the state it is inserted in, starting for a service
  Callers,    \* requests that insert, stop and restart the nodes without a task
  EventRoom,  \* capacity of the broadcast (256 in the code)
  MaxChanges  \* bound: changes begun

TreeNodes == Owned \cup Common
Actors == Owned \cup Callers     \* a task is named by its node
NodeStates == {"starting", "running", "stopping", "stopped", "failed", "degraded"}

ASSUME TreeAssumption ==
  /\ Owned \cap (Common \cup Callers) = {}
  /\ TreeNodes # {}
  /\ Inserted \in [TreeNodes -> {"starting", "running"}]
  /\ EventRoom \in Nat \ {0}
  /\ MaxChanges \in Nat

VARIABLES
  record,   \* of every node: [state, restarts]; state is absent before it is inserted
  target,   \* the node each actor is, or was last, busy with
  plan,     \* the steps it has still to do
  emitting, \* the emit_event it is in: none, due, or read with what it read
  feed,     \* events sent and not yet received: [node, record]
  lagged,   \* the receiver is behind by more than the room
  watcher,  \* away, subscribed, or watching
  view,     \* what the watcher takes the tree for
  warned,   \* it was told that it lost events
  changes,
  \* History.
  crossed,  \* nodes written between another's reading and its sending
  cut       \* nodes whose last event received is older than one that was lost

acting == <<target, plan, emitting>>
wire == <<feed, lagged, cut>>
client == <<watcher, view, warned>>
treeVars == <<record, acting, wire, client, changes, crossed>>

NotThere == [state |-> "absent", restarts |-> 0]
NoEvent == [at |-> "none", record |-> NotThere]
Due == [at |-> "due", record |-> NotThere]
HasRead(r) == [at |-> "read", record |-> r]

TreeInit ==
  /\ record = [n \in TreeNodes |-> NotThere]
  /\ target \in [Actors -> {CHOOSE n \in TreeNodes : TRUE}]
  /\ plan = [a \in Actors |-> << >>]
  /\ emitting = [a \in Actors |-> NoEvent]
  /\ feed = << >> /\ lagged = FALSE /\ cut = {}
  /\ watcher = "away" /\ view = record /\ warned = FALSE
  /\ changes = 0
  /\ crossed = {}

-----------------------------------------------------------------------------
(* What tasks and requests do to nodes. *)

\* transition_node and record_failure write a state and emit, insert_node as well;
\* bump_restart_count only writes, a scheduled restart only emits.
Steps == NodeStates \cup {"insert", "bump", "emit"}

\* The task of a service or an instance: a transition or a failure, a restart that
\* is announced, a restart of which the next transition tells.
TaskPlans ==
  { <<s>> : s \in NodeStates } \cup
  { <<"failed", "bump", "emit">>, <<"stopping", "bump", "emit">>,
    <<"bump", "degraded", "emit">>, <<"starting", "bump", "running">> }

\* Mutant: the counter is raised when the restart has been told.
RestartPlanLate == <<"starting", "running", "bump">>

\* restart_node and stop_node, for a node without a command channel.
RestartPlan == <<"starting", "bump", "running">>
StopPlan == <<"stopping", "stopped">>

Busy(a, n) == target[a] = n /\ (plan[a] # << >> \/ emitting[a].at # "none")
There(n) == record[n].state # "absent"

Begins(a, n, steps) ==
  /\ plan[a] = << >> /\ emitting[a].at = "none"
  /\ changes < MaxChanges
  /\ changes' = changes + 1
  /\ target' = [target EXCEPT ![a] = n]
  /\ plan' = [plan EXCEPT ![a] = steps]
  /\ UNCHANGED <<record, emitting, wire, client, crossed>>

\* The request that inserts a node with a task spawns the task afterwards, and
\* goes here by its name.
InsertOwned(n) == ~There(n) /\ Begins(n, n, <<"insert">>)
TaskActs(n) == There(n) /\ \E steps \in TaskPlans : Begins(n, n, steps)
InsertCommon(a, n) == Begins(a, n, <<"insert">>)
RestartCommon(a, n) == There(n) /\ Begins(a, n, RestartPlan)
\* A request that stops a subtree does this for one node after the other, in the
\* order collect_descendants gives; to a node with a task it sends a command.
StopCommon(a, n) == There(n) /\ Begins(a, n, StopPlan)

-----------------------------------------------------------------------------
(* The steps of a plan. *)

Emits(a) == emitting[a].at # "none"
Others(a, n) == {b \in Actors \ {a} : Emits(b) /\ target[b] = n}

\* What the next step writes: nothing, for "emit" and for the insertion of a node
\* that is there already.
Written(n, step, r) ==
  CASE step = "insert" -> IF r = NotThere THEN [state |-> Inserted[n], restarts |-> 0] ELSE r
    [] step = "bump" -> [r EXCEPT !.restarts = @ + 1]
    [] step = "emit" -> r
    [] OTHER -> [r EXCEPT !.state = step]

\* insert_node fails when the node exists, before it emits.
Announces(step, r) == step # "bump" /\ (step = "insert" => r = NotThere)

WriteNode(a) ==
  LET n == target[a]
      step == Head(plan[a])
  IN /\ plan[a] # << >> /\ emitting[a].at = "none"
     /\ plan' = [plan EXCEPT ![a] = Tail(@)]
     /\ record' = [record EXCEPT ![n] = Written(n, step, @)]
     /\ emitting' = IF Announces(step, record[n]) THEN [emitting EXCEPT ![a] = Due] ELSE emitting
     /\ crossed' = IF record'[n] = record[n] THEN crossed
                   ELSE IF \E b \in Others(a, n) : emitting[b].at = "read" THEN crossed \cup {n}
                   ELSE IF Others(a, n) = {} THEN crossed \ {n}
                   ELSE crossed
     /\ UNCHANGED <<target, wire, client, changes>>

\* emit_event: the snapshot of the node, by a lock of its own.
ReadNode(a) ==
  /\ emitting[a].at = "due"
  /\ emitting' = [emitting EXCEPT ![a] = HasRead(record[target[a]])]
  /\ UNCHANGED <<record, target, plan, wire, client, changes, crossed>>

\* The broadcast: without a receiver nothing is kept, a full one drops its oldest.
SendEvent(a) ==
  LET event == [node |-> target[a], record |-> emitting[a].record]
      full == Len(feed) = EventRoom
  IN /\ emitting[a].at = "read"
     /\ emitting' = [emitting EXCEPT ![a] = NoEvent]
     /\ IF watcher = "away"
        THEN UNCHANGED wire
        ELSE /\ feed' = Append(IF full THEN Tail(feed) ELSE feed, event)
             /\ lagged' = (lagged \/ full)
             /\ cut' = IF full THEN cut \cup {feed[1].node} ELSE cut
     /\ UNCHANGED <<record, target, plan, client, changes, crossed>>

-----------------------------------------------------------------------------
(* The watcher (handle_runtime_events_ws). *)

SubscribeEvents ==
  /\ watcher = "away"
  /\ watcher' = "subscribed"
  /\ UNCHANGED <<record, acting, wire, view, warned, changes, crossed>>

TakeSnapshot ==
  /\ watcher = "subscribed"
  /\ watcher' = "watching"
  /\ view' = record
  /\ UNCHANGED <<record, acting, wire, warned, changes, crossed>>

Receive ==
  /\ watcher = "watching"
  /\ IF lagged
     THEN /\ lagged' = FALSE
          /\ warned' = TRUE
          /\ UNCHANGED <<feed, cut, view>>
     ELSE /\ feed # << >>
          /\ view' = [view EXCEPT ![Head(feed).node] = Head(feed).record]
          /\ cut' = cut \ {Head(feed).node}
          /\ feed' = Tail(feed)
          /\ UNCHANGED <<lagged, warned>>
  /\ UNCHANGED <<record, acting, watcher, changes, crossed>>

TreeNext ==
  \/ \E n \in Owned : InsertOwned(n) \/ TaskActs(n)
  \/ \E a \in Callers, n \in Common : InsertCommon(a, n) \/ RestartCommon(a, n) \/ StopCommon(a, n)
  \/ \E a \in Actors : WriteNode(a) \/ ReadNode(a) \/ SendEvent(a)
  \/ SubscribeEvents \/ TakeSnapshot \/ Receive

TreeSpec == TreeInit /\ [][TreeNext]_treeVars

-----------------------------------------------------------------------------
(* Properties. *)

Records == [state : NodeStates \cup {"absent"}, restarts : Nat]

\* Every variable has its type.
TreeTypeOK ==
  /\ record \in [TreeNodes -> Records] /\ view \in [TreeNodes -> Records]
  /\ target \in [Actors -> TreeNodes]
  /\ plan \in [Actors -> Seq(Steps)]
  /\ emitting \in [Actors -> [at : {"none", "due", "read"}, record : Records]]
  /\ feed \in Seq([node : TreeNodes, record : Records])
  /\ lagged \in BOOLEAN /\ warned \in BOOLEAN
  /\ cut \subseteq TreeNodes /\ crossed \subseteq TreeNodes
  /\ watcher \in {"away", "subscribed", "watching"}
  /\ changes \in 0..MaxChanges

\* Whoever has received all there is, while nobody is at work on a node, sees the
\* node as it is; but for one whose event it lost, and it was warned of it, and for
\* a node without a task that two requests changed at once: there the event that
\* was read first may have been sent last, and the view stays wrong until the
\* node is changed again (supervision.rs:658-659, 683-693; nothing orders the
\* sends of two writers).
WatchersKeepUp ==
  \A n \in TreeNodes :
    (watcher = "watching" /\ feed = << >> /\ ~lagged /\ \A a \in Actors : ~Busy(a, n)) =>
      \/ view[n] = record[n]
      \/ n \in cut /\ warned
      \/ n \in crossed \cap Common
=============================================================================
