----------------------------- MODULE Supervisor -----------------------------
(***************************************************************************)
(* The supervision tree (src/src/supervision.rs): service tasks with       *)
(* restart policies, agent supervisors, and managed agent instances whose  *)
(* task is the mailbox loop of src/src/agents/mailbox.rs.  A node with a   *)
(* task has a command channel and only its task writes its state; an agent *)
(* supervisor has none and the requests write its state.  Requests of the  *)
(* admin API and of the conversation endpoints run concurrently and take   *)
(* the lock of the tree anew in every step.  Nodes are never removed.      *)
(***************************************************************************)
EXTENDS Naturals, Sequences, FiniteSets

CONSTANTS
  Root,         \* runtime-root
  Services,     \* names of service nodes
  Policy,       \* the restart policy of each
  Sups,         \* names of agent supervisors
  StaticSups,   \* those of the configuration (ensure_static_agent_supervisor)
  Insts,        \* names of agent instances
  Requests,     \* concurrent requests
  MaxChildren,  \* max_children of every agent supervisor
  MaxDynamic,   \* max_dynamic_children
  InboxSize,    \* capacity of a command channel (8 in the code)
  MaxRestarts,  \* bound: where restart_count and its shadow saturate
  MaxAsks       \* bound: requests

Nodes == {Root} \cup Services \cup Sups \cup Insts
Workers == Services \cup Insts     \* the nodes with a task and a channel

ASSUME SupervisorAssumption ==
  /\ Policy \in [Services -> {"permanent", "transient", "temporary"}]
  /\ StaticSups \subseteq Sups
  /\ Root \notin Services \cup Sups \cup Insts
  /\ Services \cap (Sups \cup Insts) = {} /\ Sups \cap Insts = {}
  /\ MaxChildren \in Nat /\ MaxDynamic \in Nat /\ InboxSize \in Nat \ {0}
  /\ MaxRestarts \in Nat /\ MaxAsks \in Nat

VARIABLES
  state,     \* of every node in the tree, "absent" for the others
  parent,    \* Root for the nodes that are not there
  restarts,  \* restart_count
  pc,        \* of the task of a worker
  inbox,     \* its command channel
  alive,     \* tasks of a service that run: the factory's futures
  handle,    \* what its loop holds: none, pending, or the result ok / err
  req,       \* the requests in flight
  \* History.
  starts,    \* how often a service's future was spawned
  racing,    \* spawn requests that overlapped the one that inserted a node
  asks

tree == <<state, parent, restarts>>
service == <<alive, handle, starts>>
vars == <<tree, pc, inbox, service, req, racing, asks>>

Idle == [pc |-> "idle"]
Present == {n \in Nodes : state[n] # "absent"}
Children(p) == {n \in Present \ {Root} : parent[n] = p}
Dynamic == Present \cap ((Sups \ StaticSups) \cup Insts)

Init ==
  /\ state = [n \in Nodes |-> IF n = Root THEN "running" ELSE "absent"]
  /\ parent = [n \in Nodes |-> Root]
  /\ restarts = [n \in Nodes |-> 0]
  /\ pc = [n \in Workers |-> "off"]
  /\ inbox = [n \in Workers |-> << >>]
  /\ alive = [s \in Services |-> 0]
  /\ handle = [s \in Services |-> "none"]
  /\ req = [r \in Requests |-> Idle]
  /\ starts = [s \in Services |-> 0]
  /\ racing = 0
  /\ asks = 0

Transition(n, s) == state' = [state EXCEPT ![n] = s]
Saturate(i, max) == IF i < max THEN i + 1 ELSE max
BumpRestartCount(n) == restarts' = [restarts EXCEPT ![n] = Saturate(@, MaxRestarts)]

-----------------------------------------------------------------------------
(* Requests: register a service, spawn a child, stop, restart. *)

Ask(r, asked) ==
  /\ req[r] = Idle
  /\ asks < MaxAsks
  /\ asks' = asks + 1
  /\ req' = [req EXCEPT ![r] = asked]
  /\ UNCHANGED <<tree, pc, inbox, service, racing>>

Done(r) == req' = [req EXCEPT ![r] = Idle]
GoTo(r, next) == req' = [req EXCEPT ![r].pc = next]

\* ensure_static_agent_supervisor and spawn_service_task look for the node only.
AskStatic(r, n) == n \notin Present /\ Ask(r, [pc |-> "insert", node |-> n, parent |-> Root])
AskChild(r, p, n) ==
  p \in Present /\ Ask(r, [pc |-> "parent", node |-> n, parent |-> p])
AskStop(r, n) == n \in Present \ {Root} /\ Ask(r, [pc |-> "stop", todo |-> {}, node |-> n])
AskRestart(r, n) == n \in Present \ {Root} /\ Ask(r, [pc |-> "restart", node |-> n])

Requesting == UNCHANGED <<pc, inbox, service, racing, asks>>

ParentAllows(p) ==
  /\ p \in Sups => Cardinality(Children(p)) < MaxChildren
  /\ p \in {Root} \cup Sups

EnsureParentAllowsChild(r) ==
  /\ req[r].pc = "parent"
  /\ IF ParentAllows(req[r].parent) THEN GoTo(r, "limit") ELSE Done(r)
  /\ UNCHANGED tree /\ Requesting

\* Mutant: off by one.
LimitAllowsOneMore == Cardinality(Dynamic) <= MaxDynamic

LimitAllows == Cardinality(Dynamic) < MaxDynamic

EnforceDynamicLimit(r) ==
  /\ req[r].pc = "limit"
  /\ IF LimitAllows THEN GoTo(r, "insert") ELSE Done(r)
  /\ UNCHANGED tree /\ Requesting

\* The requests that passed a limit and have not inserted their node.
Spawning == {r \in Requests : /\ req[r].pc \in {"limit", "insert"}
                             /\ req[r].node \notin Services \cup StaticSups}

\* insert_node checks the name and the parent again, not the limits.
InsertNode(r) ==
  LET n == req[r].node IN
  /\ req[r].pc = "insert"
  /\ Done(r)
  /\ IF n \in Present
     THEN UNCHANGED <<tree, pc, racing>>
     ELSE /\ Transition(n, IF n \in Services THEN "starting" ELSE "running")
          /\ parent' = [parent EXCEPT ![n] = req[r].parent]
          /\ pc' = [m \in Workers |-> IF m # n THEN pc[m]
                                      ELSE IF n \in Services THEN "starting" ELSE "boot"]
          /\ racing' = IF Cardinality(Spawning) - 1 > racing
                       THEN Cardinality(Spawning) - 1 ELSE racing
          /\ UNCHANGED restarts
  /\ UNCHANGED <<inbox, service, asks>>

\* collect_descendants: the node and everything below it.
Up(n, i) == LET up[j \in 0..i] == IF j = 0 THEN n ELSE parent[up[j - 1]] IN up[i]
Below(n) == {m \in Present \ {Root} : \E i \in 0..Cardinality(Sups) : Up(m, i) = n}

CollectDescendants(r) ==
  /\ req[r].pc = "stop" /\ req[r].todo = {}
  /\ req' = [req EXCEPT ![r].todo = Below(req[r].node)]
  /\ UNCHANGED tree /\ Requesting

\* The send of a command: waits for room, fails when the receiver is gone.
SendCommand(n, command) ==
  /\ pc[n] # "gone" /\ Len(inbox[n]) < InboxSize
  /\ inbox' = [inbox EXCEPT ![n] = Append(@, command)]

AfterStop(r, n) ==
  IF req[r].todo = {n} THEN Done(r)
  ELSE req' = [req EXCEPT ![r].pc = "stop", ![r].todo = @ \ {n}]

\* The next node to stop: descendants before their ancestors.  A node that is
\* no longer running ends the request, and the rest is not stopped.
StopNext(r) ==
  /\ req[r].pc = "stop" /\ req[r].todo # {}
  /\ \E n \in req[r].todo :
       /\ Below(n) \cap req[r].todo = {n}
       /\ \/ /\ n \in Workers
             /\ \/ SendCommand(n, "stop") /\ AfterStop(r, n)
                \/ pc[n] = "gone" /\ Done(r) /\ UNCHANGED inbox
             /\ UNCHANGED tree
          \/ /\ n \in Sups
             /\ Transition(n, "stopping")
             /\ req' = [req EXCEPT ![r].pc = "settle", ![r].node = n]
             /\ UNCHANGED <<parent, restarts, inbox>>
  /\ UNCHANGED <<pc, service, racing, asks>>

StopSettles(r) ==
  /\ req[r].pc = "settle"
  /\ Transition(req[r].node, "stopped")
  /\ AfterStop(r, req[r].node)
  /\ UNCHANGED <<parent, restarts>> /\ Requesting

RestartNode(r) ==
  LET n == req[r].node IN
  /\ req[r].pc = "restart"
  /\ \/ /\ n \in Workers
        /\ \/ SendCommand(n, "restart")
           \/ pc[n] = "gone" /\ UNCHANGED inbox
        /\ Done(r)
        /\ UNCHANGED tree
     \/ /\ n \in Sups
        /\ Transition(n, "starting")
        /\ GoTo(r, "finish")
        /\ UNCHANGED <<parent, restarts, inbox>>
  /\ UNCHANGED <<pc, service, racing, asks>>

RestartFinishes(r) ==
  /\ req[r].pc = "finish"
  /\ BumpRestartCount(req[r].node)
  /\ Transition(req[r].node, "running")
  /\ Done(r)
  /\ UNCHANGED parent /\ Requesting

-----------------------------------------------------------------------------
(* The loop of a service. *)

Step(n, from, to) == pc[n] = from /\ pc' = [pc EXCEPT ![n] = to]
Looping == UNCHANGED <<parent, req, racing, asks>>

LoopStarts(s) ==
  /\ Step(s, "starting", "spawn")
  /\ Transition(s, "starting")
  /\ UNCHANGED <<restarts, inbox, service>> /\ Looping

SpawnFuture(s) ==
  /\ Step(s, "spawn", "spawned")
  /\ alive' = [alive EXCEPT ![s] = @ + 1]
  /\ handle' = [handle EXCEPT ![s] = "pending"]
  /\ starts' = [starts EXCEPT ![s] = Saturate(@, MaxRestarts + 1)]
  /\ UNCHANGED <<state, restarts, inbox>> /\ Looping

Running(s) ==
  /\ Step(s, "spawned", "select")
  /\ Transition(s, "running")
  /\ UNCHANGED <<restarts, inbox, service>> /\ Looping

\* The future returns, fails or panics, at any time.
FutureEnds(s) ==
  /\ handle[s] = "pending"
  /\ \E result \in {"ok", "err"} : handle' = [handle EXCEPT ![s] = result]
  /\ alive' = [alive EXCEPT ![s] = @ - 1]
  /\ UNCHANGED <<tree, pc, inbox, starts, req, racing, asks>>

TakeCommand(n, command) ==
  /\ inbox[n] # << >> /\ Head(inbox[n]) = command
  /\ inbox' = [inbox EXCEPT ![n] = Tail(@)]

ServiceCommand(s) ==
  /\ \/ TakeCommand(s, "stop") /\ Step(s, "select", "stopping")
     \/ TakeCommand(s, "restart") /\ Step(s, "select", "restarting")
  /\ Transition(s, "stopping")
  /\ UNCHANGED <<restarts, service>> /\ Looping

\* Mutant: the handle is dropped, which detaches the task.
AbortDetaches(s) ==
  /\ \/ Step(s, "stopping", "aborted") /\ UNCHANGED restarts
     \/ Step(s, "restarting", "starting") /\ BumpRestartCount(s)
  /\ handle' = [handle EXCEPT ![s] = "none"]
  /\ UNCHANGED <<state, inbox, alive, starts>> /\ Looping

\* task.abort() and the await that follows it.
Abort(s) ==
  /\ \/ Step(s, "stopping", "aborted") /\ UNCHANGED restarts
     \/ Step(s, "restarting", "starting") /\ BumpRestartCount(s)
  /\ alive' = [alive EXCEPT ![s] = IF handle[s] = "pending" THEN @ - 1 ELSE @]
  /\ handle' = [handle EXCEPT ![s] = "none"]
  /\ UNCHANGED <<state, inbox, starts>> /\ Looping

\* The loop ends and drops the receiver, with the commands in it.
Leave(n, from, final) ==
  /\ Step(n, from, "gone")
  /\ Transition(n, final)
  /\ inbox' = [inbox EXCEPT ![n] = << >>]

\* Mutant: the break is missing.
AbortedContinues(s) ==
  /\ Step(s, "aborted", "starting")
  /\ Transition(s, "stopped")
  /\ UNCHANGED <<restarts, inbox, service>> /\ Looping

Aborted(s) ==
  /\ Leave(s, "aborted", "stopped")
  /\ UNCHANGED <<restarts, service>> /\ Looping

\* Mutant: only a clean end of a permanent service is followed by a restart.
RestartsClean(s) == Policy[s] = "permanent" /\ handle[s] = "ok"

Restarts(s) ==
  \/ Policy[s] = "permanent"
  \/ Policy[s] = "transient" /\ handle[s] = "err"

ServiceExit(s) ==
  /\ handle[s] \in {"ok", "err"}
  /\ IF Restarts(s)
     THEN /\ Step(s, "select", "sleep")
          /\ BumpRestartCount(s)
          /\ Transition(s, IF handle[s] = "ok" THEN "degraded" ELSE "failed")
          /\ UNCHANGED inbox
     ELSE /\ Leave(s, "select", IF handle[s] = "ok" THEN "stopped" ELSE "failed")
          /\ UNCHANGED restarts
  /\ handle' = [handle EXCEPT ![s] = "none"]
  /\ UNCHANGED <<alive, starts>> /\ Looping

\* The backoff is over; commands were not read meanwhile.
Wake(s) ==
  /\ Step(s, "sleep", "starting")
  /\ UNCHANGED <<state, restarts, inbox, service>> /\ Looping

-----------------------------------------------------------------------------
(* The loop of a managed agent instance, as far as its node is concerned. *)

InstanceBoots(n) ==
  /\ Step(n, "boot", "idle")
  /\ Transition(n, "running")
  /\ UNCHANGED <<restarts, inbox, service>> /\ Looping

\* A command, or no mailbox left.
InstanceCommand(n) ==
  /\ \/ /\ TakeCommand(n, "restart") /\ Step(n, "idle", "idle")
        /\ BumpRestartCount(n) /\ Transition(n, "running")
     \/ /\ inbox[n] # << >> /\ Head(inbox[n]) = "stop"
        /\ Leave(n, "idle", "stopped") /\ UNCHANGED restarts
  /\ UNCHANGED service /\ Looping

MailboxDropped(n) ==
  /\ Leave(n, "idle", "stopped")
  /\ UNCHANGED <<restarts, service>> /\ Looping

\* A turn that fails marks the node, and is forgiven once it is answered.
TurnFails(n) ==
  /\ Step(n, "idle", "answer")
  /\ Transition(n, "failed")
  /\ UNCHANGED <<restarts, inbox, service>> /\ Looping

TurnForgiven(n) ==
  /\ Step(n, "answer", "idle")
  /\ Transition(n, IF state[n] = "failed" THEN "running" ELSE state[n])
  /\ UNCHANGED <<restarts, inbox, service>> /\ Looping

-----------------------------------------------------------------------------
RequestStep(r) ==
  \/ EnsureParentAllowsChild(r) \/ EnforceDynamicLimit(r) \/ InsertNode(r)
  \/ CollectDescendants(r) \/ StopNext(r) \/ StopSettles(r)
  \/ RestartNode(r) \/ RestartFinishes(r)

LoopStep(s) ==
  LoopStarts(s) \/ SpawnFuture(s) \/ Running(s) \/ Abort(s) \/ Aborted(s)
  \/ ServiceExit(s) \/ Wake(s)

InstanceStep(n) == InstanceBoots(n) \/ InstanceCommand(n) \/ TurnForgiven(n)

Next ==
  \/ \E r \in Requests : RequestStep(r)
  \/ \E r \in Requests, n \in Services \cup StaticSups : AskStatic(r, n)
  \/ \E r \in Requests, p \in Nodes, n \in (Sups \ StaticSups) \cup Insts : AskChild(r, p, n)
  \/ \E r \in Requests, n \in Nodes : AskStop(r, n) \/ AskRestart(r, n)
  \/ \E s \in Services : LoopStep(s) \/ ServiceCommand(s) \/ FutureEnds(s)
  \/ \E n \in Insts : InstanceStep(n) \/ MailboxDropped(n) \/ TurnFails(n)

\* Tasks and requests run.  tokio::select! picks among its ready branches at
\* random, so a command that is ready again and again is read.
Fairness ==
  /\ \A r \in Requests : WF_vars(RequestStep(r))
  /\ \A s \in Services : WF_vars(LoopStep(s)) /\ SF_vars(ServiceCommand(s))
  /\ \A n \in Insts : WF_vars(InstanceStep(n)) /\ SF_vars(InstanceCommand(n))

Spec == Init /\ [][Next]_vars
FairSpec == Spec /\ Fairness

-----------------------------------------------------------------------------
\* A service never has two futures running, and none once its loop is gone,
\* however stops, restarts and failures interleave; and restart_count counts the
\* futures that followed the first one: every way round the loop, and only they,
\* bumps it.
OneFuturePerService ==
  \A s \in Services :
    /\ alive[s] <= 1 /\ (pc[s] = "gone" => alive[s] = 0)
    /\ pc[s] \in {"spawned", "select"} => starts[s] = restarts[s] + 1

\* No more children than the limits allow, plus the requests that raced.
OverrunOnlyByRace ==
  /\ \A p \in Sups : Cardinality(Children(p)) <= MaxChildren + racing
  /\ Cardinality(Dynamic) <= MaxDynamic + racing

\* A stop command is obeyed, even by a service that keeps failing.
StopIsObeyed ==
  \A n \in Workers : (\E i \in DOMAIN inbox[n] : inbox[n][i] = "stop") ~> pc[n] = "gone"

\* A permanent or transient service whose future failed is started again,
\* unless it was told to stop.
FailedServiceRestarts ==
  \A s \in Services : Policy[s] # "temporary" =>
    (handle[s] = "err" ~> handle[s] = "pending" \/ state[s] = "stopped")
=============================================================================
