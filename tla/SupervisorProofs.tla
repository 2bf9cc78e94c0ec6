-------------------------- MODULE SupervisorProofs --------------------------
(***************************************************************************)
(* Proofs about Supervisor, for every number of services, supervisors,     *)
(* instances and concurrent requests, finite or not, and every limit.      *)
(***************************************************************************)
EXTENDS Supervisor, TreeEvents, FiniteSetTheorems, TLAPS

States == {"absent", "starting", "running", "stopping", "stopped", "degraded", "failed"}
Places == {"off", "starting", "spawn", "spawned", "select", "stopping", "restarting", "aborted",
           "sleep", "gone", "boot", "idle", "answer"}

\* A request for a node that the configuration names has the root as parent,
\* and only supervisors are restarted by a request.
Static == Services \cup StaticSups
Request ==
  {Idle}
    \cup [pc : {"insert"}, node : Static, parent : {Root}]
    \cup [pc : {"parent", "limit", "insert"}, node : Nodes \ (Static \cup {Root}), parent : Nodes]
    \cup [pc : {"stop", "settle"}, todo : SUBSET Nodes, node : Nodes]
    \cup [pc : {"restart"}, node : Nodes]
    \cup [pc : {"finish"}, node : Sups]

TypeInv ==
  /\ state \in [Nodes -> States]
  /\ parent \in [Nodes -> Nodes]
  /\ restarts \in [Nodes -> 0..MaxRestarts]
  /\ pc \in [Workers -> Places]
  /\ alive \in [Services -> Int]
  /\ handle \in [Services -> {"none", "pending", "ok", "err"}]
  /\ starts \in [Services -> 0..(MaxRestarts + 1)]
  /\ req \in [Requests -> Request]
  /\ racing \in Nat

\* However many names there are, the tree and the requests in flight are finite.
Active == {r \in Requests : req[r] # Idle}
FiniteInv == IsFiniteSet(Present) /\ IsFiniteSet(Active)

\* The requests and the loops keep the types, and a restart by request touches
\* supervisors only.
LEMMA TypeStep == TypeInv /\ FiniteInv /\ [Next]_vars => TypeInv'
<1> SUFFICES ASSUME TypeInv, FiniteInv, [Next]_vars PROVE TypeInv'
  OBVIOUS
<1> USE SupervisorAssumption DEF TypeInv, Nodes, Workers, States, Places, Requesting, Looping,
        Transition, GoTo, Done, Step, tree, service
<1>0. \A i, max \in Nat : i <= max => Saturate(i, max) \in 0..max
  BY DEF Saturate
<1>b. ASSUME NEW n \in Nodes, BumpRestartCount(n) PROVE restarts' \in [Nodes -> 0..MaxRestarts]
  BY <1>0, <1>b DEF BumpRestartCount
<1>1. ASSUME NEW r \in Requests, NEW n \in Services \cup StaticSups, AskStatic(r, n) PROVE TypeInv'
  <2>1. [pc |-> "insert", node |-> n, parent |-> Root] \in Request
    BY DEF Request, Static
  <2>2. QED
    BY <1>1, <2>1 DEF AskStatic, Ask
<1>2. ASSUME NEW r \in Requests, NEW p \in Nodes, NEW n \in (Sups \ StaticSups) \cup Insts,
             AskChild(r, p, n)
      PROVE  TypeInv'
  <2>1. [pc |-> "parent", node |-> n, parent |-> p] \in Request
    BY DEF Request, Static
  <2>2. QED
    BY <1>2, <2>1 DEF AskChild, Ask
<1>3. ASSUME NEW r \in Requests, NEW n \in Nodes, AskStop(r, n) \/ AskRestart(r, n) PROVE TypeInv'
  <2>1. /\ [pc |-> "stop", todo |-> {}, node |-> n] \in Request
        /\ [pc |-> "restart", node |-> n] \in Request
    BY DEF Request
  <2>2. CASE AskStop(r, n)
    BY <2>1, <2>2 DEF AskStop, Ask
  <2>3. CASE AskRestart(r, n)
    BY <2>1, <2>3 DEF AskRestart, Ask
  <2>4. QED
    BY <1>3, <2>2, <2>3
<1>4. ASSUME NEW r \in Requests, RequestStep(r) PROVE TypeInv'
  <2> USE DEF Request, Static, Idle
  <2>0. req[r] \in Request /\ Idle \in Request
    OBVIOUS
  <2>1. CASE EnsureParentAllowsChild(r)
    BY <2>0, <2>1 DEF EnsureParentAllowsChild
  <2>2. CASE EnforceDynamicLimit(r)
    BY <2>0, <2>2 DEF EnforceDynamicLimit
  <2>3. CASE InsertNode(r)
    <3>1. req[r].node \in Nodes /\ req[r].parent \in Nodes /\ req' \in [Requests -> Request]
      BY <2>0, <2>3 DEF InsertNode
    <3> HIDE DEF Request
    <3>2. CASE req[r].node \in Present
      BY <2>3, <3>1, <3>2 DEF InsertNode
    <3>3. CASE req[r].node \notin Present
      <4>1. pc' \in [Workers -> Places]
        BY <2>3, <3>1, <3>3 DEF InsertNode
      <4>2. state' \in [Nodes -> States] /\ parent' \in [Nodes -> Nodes]
        BY <2>3, <3>1, <3>3 DEF InsertNode
      <4>3. racing' \in Nat
        <5>1. Cardinality(Spawning) - 1 > racing => Cardinality(Spawning) - 1 \in Nat
          <6>1. Spawning \subseteq Active
            BY DEF Spawning, Active
          <6>2. Cardinality(Spawning) \in Nat
            BY <6>1, FS_Subset, FS_CardinalityType DEF FiniteInv
          <6>3. QED
            BY <6>2
        <5>2. QED
          BY <2>3, <3>3, <5>1 DEF InsertNode
      <4>4. QED
        BY <2>3, <3>1, <3>3, <4>1, <4>2, <4>3 DEF InsertNode
    <3>4. QED
      BY <3>2, <3>3
  <2>4. CASE CollectDescendants(r)
    BY <2>0, <2>4 DEF CollectDescendants, Below, Present
  <2>5. CASE StopNext(r)
    BY <2>0, <2>5 DEF StopNext, AfterStop
  <2>6. CASE StopSettles(r)
    BY <2>0, <2>6 DEF StopSettles, AfterStop
  <2>7. CASE RestartNode(r)
    BY <2>0, <2>7 DEF RestartNode
  <2>8. CASE RestartFinishes(r)
    BY <1>0, <2>0, <2>8 DEF RestartFinishes, BumpRestartCount
  <2>9. QED
    BY <1>4, <2>1, <2>2, <2>3, <2>4, <2>5, <2>6, <2>7, <2>8 DEF RequestStep
<1>5. ASSUME NEW s \in Services, LoopStep(s) \/ ServiceCommand(s) \/ FutureEnds(s) PROVE TypeInv'
  <2>1. CASE LoopStarts(s)
    BY <2>1 DEF LoopStarts
  <2>2. CASE SpawnFuture(s)
    BY <1>0, <2>2 DEF SpawnFuture
  <2>3. CASE Running(s)
    BY <2>3 DEF Running
  <2>4. CASE Abort(s)
    <3>1. restarts' \in [Nodes -> 0..MaxRestarts]
      BY <1>b, <2>4 DEF Abort
    <3>2. pc' \in [Workers -> Places] /\ alive' \in [Services -> Int]
      BY <2>4 DEF Abort
    <3>3. QED
      BY <2>4, <3>1, <3>2 DEF Abort
  <2>5. CASE Aborted(s)
    BY <2>5 DEF Aborted, Leave
  <2>6. CASE ServiceExit(s)
    <3>1. restarts' \in [Nodes -> 0..MaxRestarts]
      BY <1>b, <2>6 DEF ServiceExit
    <3>2. QED
      BY ZenonT(30), <2>6, <3>1 DEF ServiceExit, Leave
  <2>7. CASE Wake(s)
    BY <2>7 DEF Wake
  <2>8. CASE ServiceCommand(s)
    BY <2>8 DEF ServiceCommand
  <2>9. CASE FutureEnds(s)
    BY <2>9 DEF FutureEnds
  <2>10. QED
    BY <1>5, <2>1, <2>2, <2>3, <2>4, <2>5, <2>6, <2>7, <2>8, <2>9 DEF LoopStep
<1>6. ASSUME NEW n \in Insts, InstanceStep(n) \/ MailboxDropped(n) \/ TurnFails(n) PROVE TypeInv'
  <2>1. CASE InstanceBoots(n) \/ TurnFails(n)
    BY <2>1 DEF InstanceBoots, TurnFails
  <2>2. CASE InstanceCommand(n)
    <3>1. restarts' \in [Nodes -> 0..MaxRestarts]
      BY <1>b, <2>2 DEF InstanceCommand
    <3>2. \E to \in Places : pc' = [pc EXCEPT ![n] = to]
      BY <2>2 DEF InstanceCommand, Leave
    <3>3. state' \in [Nodes -> States]
      BY <2>2 DEF InstanceCommand, Leave
    <3>4. QED
      BY <2>2, <3>1, <3>2, <3>3 DEF InstanceCommand
  <2>3. CASE TurnForgiven(n)
    BY <2>3 DEF TurnForgiven
  <2>4. CASE MailboxDropped(n)
    BY <2>4 DEF MailboxDropped, Leave
  <2>5. QED
    BY <1>6, <2>1, <2>2, <2>3, <2>4 DEF InstanceStep
<1>7. CASE UNCHANGED vars
  BY <1>7 DEF vars
<1>8. QED
  BY <1>1, <1>2, <1>3, <1>4, <1>5, <1>6, <1>7 DEF Next

-----------------------------------------------------------------------------
(* The tree grows only where a request inserts a node. *)

\* What has a task is in the tree, and so is what a request stops or restarts.
PresentInv ==
  /\ \A n \in Workers : pc[n] # "off" => n \in Present
  /\ \A r \in Requests :
       /\ req[r].pc \in {"stop", "settle", "restart", "finish"} => req[r].node \in Present
       /\ req[r].pc \in {"stop", "settle"} => req[r].todo \subseteq Present

SameTree == Present' = Present /\ parent' = parent /\ racing' = racing

\* A step keeps PresentInv, and leaves the tree as it is or inserts a node.
LEMMA TreeStep ==
  TypeInv /\ TypeInv' /\ PresentInv /\ [Next]_vars =>
    PresentInv' /\ (SameTree \/ \E r \in Requests : InsertNode(r))
<1> SUFFICES ASSUME TypeInv, TypeInv', PresentInv, [Next]_vars
             PROVE  PresentInv' /\ (SameTree \/ \E r \in Requests : InsertNode(r))
  OBVIOUS
<1> USE SupervisorAssumption DEF Nodes, Workers, Requesting, Looping, tree, service, SameTree
<1>0. ASSUME NEW n \in Present, NEW s \in States \ {"absent"}, Transition(n, s)
      PROVE  Present' = Present
  BY <1>0 DEF Transition, Present, TypeInv
<1>1. ASSUME NEW r \in Requests, NEW n \in Services \cup StaticSups, AskStatic(r, n)
      PROVE  PresentInv' /\ SameTree
  BY <1>1 DEF AskStatic, Ask, PresentInv, TypeInv, Present
<1>2. ASSUME NEW r \in Requests, NEW p \in Nodes, NEW n \in (Sups \ StaticSups) \cup Insts,
             AskChild(r, p, n)
      PROVE  PresentInv' /\ SameTree
  BY <1>2 DEF AskChild, Ask, PresentInv, TypeInv, Present
<1>3. ASSUME NEW r \in Requests, NEW n \in Nodes, AskStop(r, n) \/ AskRestart(r, n)
      PROVE  PresentInv' /\ SameTree
  <2>1. CASE AskStop(r, n)
    BY <2>1 DEF AskStop, Ask, PresentInv, TypeInv, Present
  <2>2. CASE AskRestart(r, n)
    BY <2>2 DEF AskRestart, Ask, PresentInv, TypeInv, Present
  <2>3. QED
    BY <1>3, <2>1, <2>2
<1>4. ASSUME NEW r \in Requests, RequestStep(r), ~InsertNode(r) PROVE PresentInv' /\ SameTree
  <2> USE DEF GoTo, Done
  <2>0. req[r] \in Request /\ Idle \in Request
    BY DEF Request, TypeInv
  <2>1. CASE EnsureParentAllowsChild(r) \/ EnforceDynamicLimit(r)
    <3>1. SameTree
      BY <2>1 DEF EnsureParentAllowsChild, EnforceDynamicLimit, Present
    <3>2. PresentInv'
      BY <2>0, <2>1, <3>1 DEF EnsureParentAllowsChild, EnforceDynamicLimit, PresentInv, TypeInv, Idle,
                         Request
    <3>3. QED
      BY <3>1, <3>2
  <2>2. CASE CollectDescendants(r)
    <3>1. SameTree /\ Below(req[r].node) \subseteq Present
      BY <2>2 DEF CollectDescendants, Present, Below
    <3>2. PresentInv'
      BY <2>0, <2>2, <3>1 DEF CollectDescendants, PresentInv, TypeInv, Request, Idle
    <3>3. QED
      BY <3>1, <3>2
  <2>3. CASE StopNext(r)
    <3>1. PICK n \in req[r].todo :
            \/ /\ n \in Workers
               /\ AfterStop(r, n) \/ Done(r)
               /\ UNCHANGED tree
            \/ /\ n \in Sups
               /\ Transition(n, "stopping")
               /\ req' = [req EXCEPT ![r].pc = "settle", ![r].node = n]
               /\ UNCHANGED parent
      BY <2>3 DEF StopNext
    <3>2. n \in Present /\ req[r].pc = "stop" /\ UNCHANGED <<pc, racing>>
      BY <2>3 DEF StopNext, PresentInv
    <3>3. SameTree
      BY <1>0, <3>1, <3>2 DEF Present, States
    <3>4. PresentInv'
      BY SMTT(30), <2>0, <3>1, <3>2, <3>3 DEF PresentInv, TypeInv, Request, Idle, AfterStop
    <3>5. QED
      BY <3>3, <3>4
  <2>4. CASE StopSettles(r)
    <3>1. SameTree
      BY <1>0, <2>4 DEF StopSettles, PresentInv, States
    <3>2. PresentInv'
      BY SMTT(30), <2>0, <2>4, <3>1 DEF StopSettles, PresentInv, TypeInv, Request, Idle, AfterStop
    <3>3. QED
      BY <3>1, <3>2
  <2>5. CASE RestartNode(r)
    <3>1. SameTree
      BY <1>0, <2>5 DEF RestartNode, PresentInv, States, Present
    <3>2. PresentInv'
      BY <2>0, <2>5, <3>1 DEF RestartNode, PresentInv, TypeInv, Request, Idle
    <3>3. QED
      BY <3>1, <3>2
  <2>6. CASE RestartFinishes(r)
    <3>1. SameTree
      BY <1>0, <2>6 DEF RestartFinishes, PresentInv, States
    <3>2. PresentInv'
      BY <2>0, <2>6, <3>1 DEF RestartFinishes, PresentInv, TypeInv, Request, Idle
    <3>3. QED
      BY <3>1, <3>2
  <2>7. QED
    BY <1>4, <2>1, <2>2, <2>3, <2>4, <2>5, <2>6 DEF RequestStep
<1>5. ASSUME NEW r \in Requests, InsertNode(r) PROVE PresentInv'
  <2>1. Present \subseteq Present'
    BY <1>5 DEF InsertNode, Present, TypeInv, Transition
  <2>2. ASSUME NEW n \in Workers, pc'[n] # "off" PROVE n \in Present'
    BY <1>5, <2>1, <2>2 DEF InsertNode, PresentInv, Present, TypeInv, Transition
  <2>3. \A q \in Requests : req'[q] = req[q] \/ req'[q] = Idle
    BY <1>5 DEF InsertNode, Done, TypeInv
  <2>4. QED
    BY <2>1, <2>2, <2>3 DEF PresentInv, Idle
<1>6. ASSUME NEW s \in Services, LoopStep(s) \/ ServiceCommand(s) \/ FutureEnds(s)
      PROVE  PresentInv' /\ SameTree
  <2>1. /\ UNCHANGED <<parent, racing, req>>
        /\ UNCHANGED pc \/ (pc[s] # "off" /\ \E to \in Places : pc' = [pc EXCEPT ![s] = to])
        /\ UNCHANGED state \/ (pc[s] # "off" /\ \E to \in States \ {"absent"} : Transition(s, to))
    BY <1>6 DEF LoopStep, LoopStarts, SpawnFuture, Running, Abort, Aborted, ServiceExit, Wake,
                ServiceCommand, FutureEnds, Leave, Step, States, Places
  <2>2. SameTree
    BY <1>0, <2>1 DEF PresentInv, Present
  <2>3. QED
    BY <2>1, <2>2 DEF PresentInv, TypeInv
<1>7. ASSUME NEW n \in Insts, InstanceStep(n) \/ MailboxDropped(n) \/ TurnFails(n)
      PROVE  PresentInv' /\ SameTree
  <2>1. state[n] \in States /\ (n \in Present => state[n] # "absent")
    BY DEF TypeInv, Present
  <2>2. /\ UNCHANGED <<parent, racing, req>>
        /\ pc[n] # "off" /\ \E to \in Places : pc' = [pc EXCEPT ![n] = to]
        /\ \E to \in States \ {"absent"} : Transition(n, to)
    BY <1>7, <2>1 DEF InstanceStep, InstanceBoots, InstanceCommand, TurnForgiven, MailboxDropped,
                TurnFails, Leave, Step, States, Places, PresentInv
  <2>3. SameTree
    BY <1>0, <2>2 DEF PresentInv, Present
  <2>4. QED
    BY <2>2, <2>3 DEF PresentInv, TypeInv
<1>8. CASE UNCHANGED vars
  BY <1>8 DEF vars, PresentInv, Present
<1>9. QED
  BY <1>1, <1>2, <1>3, <1>4, <1>5, <1>6, <1>7, <1>8 DEF Next

-----------------------------------------------------------------------------
(* One future per service. *)

\* Where the loop of a service is, what its handle holds, how many futures run
\* and how the two counters stand to each other.
Course(s) ==
  /\ alive[s] = IF handle[s] = "pending" THEN 1 ELSE 0
  /\ handle[s] # "none" <=> pc[s] \in {"spawned", "select", "stopping", "restarting"}
  /\ pc[s] \in {"spawned", "select", "stopping", "restarting"} => starts[s] = restarts[s] + 1
  /\ pc[s] \in {"off", "starting", "spawn", "sleep"} =>
       starts[s] = restarts[s] \/ (restarts[s] = MaxRestarts /\ starts[s] = MaxRestarts + 1)
ServiceInv == \A s \in Services : Course(s)

\* A step keeps the course of every service loop.
LEMMA ServiceStep ==
  TypeInv /\ TypeInv' /\ PresentInv /\ ServiceInv /\ [Next]_vars => ServiceInv'
<1> SUFFICES ASSUME TypeInv, TypeInv', PresentInv, ServiceInv, [Next]_vars, NEW s \in Services PROVE Course(s)'
  BY DEF ServiceInv
<1>0. Course(s) /\ s \in Nodes /\ s \in Workers /\ s \notin Sups /\ s \notin Insts
  BY SupervisorAssumption DEF ServiceInv, Nodes, Workers
<1>t. /\ starts[s] \in 0..(MaxRestarts + 1) /\ restarts[s] \in 0..MaxRestarts /\ MaxRestarts \in Nat
      /\ alive[s] \in Int /\ handle[s] \in {"none", "pending", "ok", "err"} /\ state[s] \in States
      /\ pc[s] \in Places
  BY <1>0, SupervisorAssumption DEF TypeInv
<1> USE DEF Course, Transition, Requesting, Looping, tree, service, Step
<1>1. ASSUME NEW r \in Requests, RequestStep(r) PROVE Course(s)'
  <2>1. CASE InsertNode(r)
    <3>1. CASE req[r].node = s
      BY <1>0, <1>t, <2>1, <3>1 DEF InsertNode, TypeInv, Present, PresentInv
    <3>2. CASE req[r].node # s
      BY <1>0, <1>t, <2>1, <3>2 DEF InsertNode, TypeInv, Present
    <3>3. QED
      BY <3>1, <3>2
  <2>2. CASE EnsureParentAllowsChild(r) \/ EnforceDynamicLimit(r) \/ CollectDescendants(r)
    BY <1>0, <2>2 DEF EnsureParentAllowsChild, EnforceDynamicLimit, CollectDescendants
  <2>3. CASE StopNext(r) \/ StopSettles(r) \/ RestartNode(r)
    BY <1>0, <2>3 DEF StopNext, StopSettles, RestartNode, TypeInv
  <2>4. CASE RestartFinishes(r)
    <3>1. req[r].node \in Sups
      BY <2>4 DEF RestartFinishes, TypeInv, Request, Idle
    <3>2. QED
      BY <1>0, <2>4, <3>1 DEF RestartFinishes, BumpRestartCount, TypeInv
  <2>5. QED
    BY <1>1, <2>1, <2>2, <2>3, <2>4 DEF RequestStep
<1>2. ASSUME NEW r \in Requests, NEW asked, Ask(r, asked) PROVE Course(s)'
  BY <1>0, <1>2 DEF Ask
<1>3. ASSUME NEW u \in Services, u # s, LoopStep(u) \/ ServiceCommand(u) \/ FutureEnds(u)
      PROVE  Course(s)'
  <2>1. UNCHANGED <<alive[s], handle[s], pc[s], starts[s], restarts[s], state[s]>>
    BY <1>3, <1>0 DEF TypeInv, LoopStep, LoopStarts, SpawnFuture, Running, Abort, Aborted,
                      ServiceExit, Wake, ServiceCommand, FutureEnds, Leave, BumpRestartCount
  <2>2. QED
    BY <1>0, <2>1
<1>4. CASE LoopStep(s) \/ ServiceCommand(s) \/ FutureEnds(s)
  <2> USE DEF TypeInv
  <2>1. CASE LoopStarts(s)
    BY <1>0, <1>t, <2>1 DEF LoopStarts
  <2>2. CASE SpawnFuture(s)
    BY <1>0, <1>t, <2>2 DEF SpawnFuture, Saturate
  <2>3. CASE Running(s)
    BY <1>0, <1>t, <2>3 DEF Running
  <2>4. CASE Abort(s)
    BY <1>0, <1>t, <2>4 DEF Abort, BumpRestartCount, Saturate
  <2>5. CASE Aborted(s)
    BY <1>0, <1>t, <2>5 DEF Aborted, Leave
  <2>6. CASE ServiceExit(s)
    BY <1>0, <1>t, <2>6 DEF ServiceExit, Leave, BumpRestartCount, Saturate
  <2>7. CASE Wake(s)
    BY <1>0, <1>t, <2>7 DEF Wake
  <2>8. CASE ServiceCommand(s)
    BY <1>0, <1>t, <2>8 DEF ServiceCommand
  <2>9. CASE FutureEnds(s)
    BY <1>0, <1>t, <2>9 DEF FutureEnds
  <2>10. QED
    BY <1>4, <2>1, <2>2, <2>3, <2>4, <2>5, <2>6, <2>7, <2>8, <2>9 DEF LoopStep
<1>5. ASSUME NEW n \in Insts, InstanceStep(n) \/ MailboxDropped(n) \/ TurnFails(n)
      PROVE  Course(s)'
  <2>1. n # s /\ n \in Nodes
    BY <1>0 DEF Nodes
  <2>2. UNCHANGED <<alive[s], handle[s], pc[s], starts[s], restarts[s], state[s]>>
    BY <1>5, <1>0, <2>1 DEF TypeInv, InstanceStep, InstanceBoots, InstanceCommand, TurnForgiven,
                      MailboxDropped, TurnFails, Leave, BumpRestartCount
  <2>3. QED
    BY <1>0, <2>2
<1>6. CASE UNCHANGED vars
  BY <1>0, <1>6 DEF vars
<1>7. QED
  BY <1>1, <1>2, <1>3, <1>4, <1>5, <1>6 DEF Next, AskStatic, AskChild, AskStop, AskRestart

-----------------------------------------------------------------------------
(* The limits. *)

\* A step adds one node or one active request at most, so both sets stay finite.
LEMMA FiniteStep ==
  TypeInv /\ TypeInv' /\ PresentInv /\ FiniteInv /\ [Next]_vars => FiniteInv'
<1> SUFFICES ASSUME TypeInv, TypeInv', PresentInv, FiniteInv, [Next]_vars PROVE FiniteInv'
  OBVIOUS
<1>1. IsFiniteSet(Present')
  <2>1. CASE SameTree
    BY <2>1 DEF SameTree, FiniteInv
  <2>2. ASSUME NEW r \in Requests, InsertNode(r) PROVE IsFiniteSet(Present')
    <3>1. Present' \subseteq Present \cup {req[r].node}
      BY <2>2 DEF InsertNode, Present, Transition, TypeInv, tree
    <3>2. IsFiniteSet(Present \cup {req[r].node})
      BY FS_AddElement DEF FiniteInv
    <3>3. QED
      BY <3>1, <3>2, FS_Subset
  <2>3. QED
    BY <2>1, <2>2, TreeStep
<1>2. \/ UNCHANGED req
      \/ \E r \in Requests : \E v \in Request : req' = [req EXCEPT ![r] = v]
  <2>1. ASSUME NEW r \in Requests, RequestStep(r) PROVE req' = [req EXCEPT ![r] = req'[r]]
    BY <2>1 DEF RequestStep, EnsureParentAllowsChild, EnforceDynamicLimit, InsertNode,
                CollectDescendants, StopNext, StopSettles, RestartNode, RestartFinishes, AfterStop,
                GoTo, Done, TypeInv
  <2>2. ASSUME NEW r \in Requests, NEW asked, Ask(r, asked) PROVE req' = [req EXCEPT ![r] = req'[r]]
    BY <2>2 DEF Ask, TypeInv
  <2>3. \A r \in Requests : req'[r] \in Request
    BY DEF TypeInv
  <2>4. ASSUME NEW s \in Services, LoopStep(s) \/ ServiceCommand(s) \/ FutureEnds(s)
        PROVE  UNCHANGED req
    BY <2>4 DEF LoopStep, LoopStarts, SpawnFuture, Running, Abort, Aborted, ServiceExit, Wake,
                ServiceCommand, FutureEnds, Looping
  <2>5. ASSUME NEW n \in Insts, InstanceStep(n) \/ MailboxDropped(n) \/ TurnFails(n)
        PROVE  UNCHANGED req
    BY <2>5 DEF InstanceStep, InstanceBoots, InstanceCommand, TurnForgiven, MailboxDropped,
                TurnFails, Looping
  <2>6. CASE UNCHANGED vars
    BY <2>6 DEF vars
  <2>7. QED
    BY <2>1, <2>2, <2>3, <2>4, <2>5, <2>6 DEF Next, AskStatic, AskChild, AskStop, AskRestart
<1>3. PICK r : Active' \subseteq Active \cup {r}
  BY <1>2 DEF Active, TypeInv
<1>4. IsFiniteSet(Active \cup {r})
  BY FS_AddElement DEF FiniteInv
<1>5. QED
  BY <1>1, <1>3, <1>4, FS_Subset DEF FiniteInv

\* A place that passed its limit is taken by the request or given up; and what
\* was pledged when the limit was last seen to hold is all that can exceed it.
Pledged == {r \in Requests : req[r].pc = "insert" /\ req[r].node \notin Static}
Heirs(p) == {r \in Requests : /\ req[r].pc \in {"limit", "insert"}
                              /\ req[r].node \notin Static /\ req[r].parent = p}
Within(count, pledges, max, raced) == count < max \/ count + pledges <= max + raced
LimitInv ==
  /\ Within(Cardinality(Dynamic), Cardinality(Pledged), MaxDynamic, racing)
  /\ \A p \in Sups : Within(Cardinality(Children(p)), Cardinality(Heirs(p)), MaxChildren, racing)

\* Nothing is pledged but where a limit was just seen to hold.
LEMMA Pledging ==
  TypeInv /\ TypeInv' /\ [Next]_vars =>
    /\ Pledged' \subseteq Pledged \/ Cardinality(Dynamic) < MaxDynamic
    /\ \A p \in Sups : Heirs(p)' \subseteq Heirs(p) \/ Cardinality(Children(p)) < MaxChildren
<1> SUFFICES ASSUME TypeInv, TypeInv', [Next]_vars, NEW p
             PROVE  /\ Pledged' \subseteq Pledged \/ Cardinality(Dynamic) < MaxDynamic
                    /\ p \in Sups => \/ Heirs(p)' \subseteq Heirs(p)
                                     \/ Cardinality(Children(p)) < MaxChildren
  OBVIOUS
<1> USE DEF Pledged, Heirs
<1>0. ASSUME NEW r \in Requests, req' = [req EXCEPT ![r] = req'[r]],
             req'[r].pc \notin {"limit", "insert"} \/ req'[r].node \in Static
      PROVE  Pledged' \subseteq Pledged /\ Heirs(p)' \subseteq Heirs(p)
  BY <1>0 DEF TypeInv
<1>1. ASSUME NEW r \in Requests, NEW asked, Ask(r, asked),
             asked.pc \notin {"limit", "insert"} \/ asked.node \in Static
      PROVE  Pledged' \subseteq Pledged /\ Heirs(p)' \subseteq Heirs(p)
  BY <1>0, <1>1 DEF Ask, TypeInv
<1>2. ASSUME NEW r \in Requests, EnsureParentAllowsChild(r)
      PROVE  /\ Pledged' \subseteq Pledged
             /\ p \in Sups => \/ Heirs(p)' \subseteq Heirs(p)
                              \/ Cardinality(Children(p)) < MaxChildren
  <2>0. req[r] \in Request
    BY DEF TypeInv
  <2>1. CASE ParentAllows(req[r].parent)
    <3>1. /\ req' = [req EXCEPT ![r].pc = "limit"] /\ req[r].pc = "parent"
          /\ p \in Sups /\ req[r].parent = p => Cardinality(Children(p)) < MaxChildren
      BY <1>2, <2>1 DEF EnsureParentAllowsChild, ParentAllows, GoTo
    <3>2. req'[r].pc = "limit" /\ req'[r].parent = req[r].parent
      BY <2>0, <3>1 DEF TypeInv, Request, Idle
    <3>3. QED
      BY <3>1, <3>2 DEF TypeInv
  <2>2. CASE ~ParentAllows(req[r].parent)
    BY <1>0, <1>2, <2>2 DEF EnsureParentAllowsChild, Done, Idle, TypeInv
  <2>3. QED
    BY <2>1, <2>2
<1>3. ASSUME NEW r \in Requests, EnforceDynamicLimit(r)
      PROVE  /\ Pledged' \subseteq Pledged \/ Cardinality(Dynamic) < MaxDynamic
             /\ Heirs(p)' \subseteq Heirs(p)
  <2>0. req[r] \in Request
    BY DEF TypeInv
  <2>1. CASE LimitAllows
    <3>1. req' = [req EXCEPT ![r].pc = "insert"] /\ req[r].pc = "limit"
      BY <1>3, <2>1 DEF EnforceDynamicLimit, GoTo
    <3>2. req'[r].node = req[r].node /\ req'[r].parent = req[r].parent
      BY <2>0, <3>1 DEF TypeInv, Request, Idle
    <3>3. QED
      BY <2>1, <3>1, <3>2 DEF TypeInv, LimitAllows
  <2>2. CASE ~LimitAllows
    BY <1>0, <1>3, <2>2 DEF EnforceDynamicLimit, Done, Idle, TypeInv
  <2>3. QED
    BY <2>1, <2>2
<1>4. ASSUME NEW r \in Requests, InsertNode(r)
      PROVE  Pledged' \subseteq Pledged /\ Heirs(p)' \subseteq Heirs(p)
  BY <1>0, <1>4 DEF InsertNode, Done, Idle, TypeInv
<1>5. ASSUME NEW r \in Requests,
             \/ CollectDescendants(r) \/ StopNext(r) \/ StopSettles(r)
             \/ RestartNode(r) \/ RestartFinishes(r)
      PROVE  Pledged' \subseteq Pledged /\ Heirs(p)' \subseteq Heirs(p)
  <2>0. req[r] \in Request
    BY DEF TypeInv
  <2>1. req' = [req EXCEPT ![r] = req'[r]]
    BY <1>5 DEF CollectDescendants, StopNext, StopSettles, RestartNode, RestartFinishes, AfterStop,
                GoTo, Done, TypeInv
  <2>2. req'[r].pc \in {"idle", "stop", "settle", "finish"}
    BY <1>5, <2>0 DEF CollectDescendants, StopNext, StopSettles, RestartNode, RestartFinishes,
                      AfterStop, GoTo, Done, Idle, Request, TypeInv
  <2>3. QED
    BY <1>0, <2>1, <2>2
<1>6. ASSUME UNCHANGED req PROVE Pledged' = Pledged /\ Heirs(p)' = Heirs(p)
  BY <1>6
<1>7. ASSUME NEW s \in Services, LoopStep(s) \/ ServiceCommand(s) \/ FutureEnds(s)
      PROVE  UNCHANGED req
  BY <1>7 DEF LoopStep, LoopStarts, SpawnFuture, Running, Abort, Aborted, ServiceExit, Wake,
              ServiceCommand, FutureEnds, Looping
<1>8. ASSUME NEW n \in Insts, InstanceStep(n) \/ MailboxDropped(n) \/ TurnFails(n)
      PROVE  UNCHANGED req
  BY <1>8 DEF InstanceStep, InstanceBoots, InstanceCommand, TurnForgiven, MailboxDropped,
              TurnFails, Looping
<1>9. CASE \E r \in Requests, n \in Services \cup StaticSups : AskStatic(r, n)
  BY <1>1, <1>9 DEF AskStatic, Static
<1>10. CASE \E r \in Requests, u \in Nodes, n \in (Sups \ StaticSups) \cup Insts : AskChild(r, u, n)
  BY <1>1, <1>10 DEF AskChild
<1>11. CASE \E r \in Requests, n \in Nodes : AskStop(r, n) \/ AskRestart(r, n)
  BY <1>1, <1>11 DEF AskStop, AskRestart
<1>12. CASE UNCHANGED vars
  BY <1>6, <1>12 DEF vars
<1>13. QED
  BY <1>2, <1>3, <1>4, <1>5, <1>6, <1>7, <1>8, <1>9, <1>10, <1>11, <1>12 DEF Next, RequestStep

\* All the sets that are counted are parts of finite ones.
LEMMA Counted ==
  /\ FiniteInv => \A S \in {Dynamic, Pledged, Spawning} \cup {Children(p) : p \in Sups}
                                                        \cup {Heirs(p) : p \in Sups} :
                    IsFiniteSet(S) /\ Cardinality(S) \in Nat
  /\ FiniteInv' => \A S \in {Dynamic', Pledged'} \cup {Children(p)' : p \in Sups}
                                                 \cup {Heirs(p)' : p \in Sups} :
                     IsFiniteSet(S) /\ Cardinality(S) \in Nat
<1>1. ASSUME FiniteInv, NEW S, S \subseteq Present \/ S \subseteq Active
      PROVE  IsFiniteSet(S) /\ Cardinality(S) \in Nat
  BY <1>1, FS_Subset, FS_CardinalityType DEF FiniteInv
<1>2. ASSUME FiniteInv', NEW S, S \subseteq Present' \/ S \subseteq Active'
      PROVE  IsFiniteSet(S) /\ Cardinality(S) \in Nat
  BY <1>2, FS_Subset, FS_CardinalityType DEF FiniteInv
<1>3. /\ Dynamic \subseteq Present /\ \A p \in Sups : Children(p) \subseteq Present
      /\ Pledged \subseteq Active /\ Spawning \subseteq Active
      /\ \A p \in Sups : Heirs(p) \subseteq Active
  BY DEF Dynamic, Children, Pledged, Spawning, Heirs, Active, Idle
<1>4. /\ Dynamic' \subseteq Present' /\ \A p \in Sups : Children(p)' \subseteq Present'
      /\ Pledged' \subseteq Active' /\ \A p \in Sups : Heirs(p)' \subseteq Active'
  BY DEF Dynamic, Children, Pledged, Heirs, Active, Idle
<1>5. QED
  BY <1>1, <1>2, <1>3, <1>4

\* A set grows by one at most when an element is added.
LEMMA AddOne ==
  ASSUME NEW S, IsFiniteSet(S), NEW x
  PROVE  Cardinality(S \cup {x}) <= Cardinality(S) + 1
<1>1. Cardinality(S) \in Nat
  BY FS_CardinalityType
<1>2. Cardinality(S \cup {x}) = IF x \in S THEN Cardinality(S) ELSE Cardinality(S) + 1
  BY FS_AddElement
<1>3. QED
  BY <1>1, <1>2

\* A request that inserts a node gives its pledge up for it, or leaves a mark
\* in racing; any other step keeps the counts.
LEMMA LimitStep ==
  TypeInv /\ TypeInv' /\ PresentInv /\ FiniteInv /\ FiniteInv' /\ LimitInv /\ [Next]_vars => LimitInv'
<1> SUFFICES ASSUME TypeInv, TypeInv', PresentInv, FiniteInv, FiniteInv', LimitInv, [Next]_vars
             PROVE  LimitInv'
  OBVIOUS
<1> USE SupervisorAssumption
<1>r. racing \in Nat /\ racing' \in Nat
  BY DEF TypeInv
<1>c. /\ Cardinality(Dynamic) \in Nat /\ Cardinality(Dynamic') \in Nat
      /\ Cardinality(Pledged) \in Nat /\ Cardinality(Pledged') \in Nat
      /\ Cardinality(Spawning) \in Nat
      /\ \A p \in Sups : /\ Cardinality(Children(p)) \in Nat /\ Cardinality(Children(p)') \in Nat
                         /\ Cardinality(Heirs(p)) \in Nat /\ Cardinality(Heirs(p)') \in Nat
  BY Counted
<1>f. /\ IsFiniteSet(Dynamic) /\ IsFiniteSet(Pledged) /\ IsFiniteSet(Spawning)
      /\ \A p \in Sups : IsFiniteSet(Children(p)) /\ IsFiniteSet(Heirs(p))
  BY Counted
<1>1. CASE SameTree
  <2>1. Dynamic' = Dynamic /\ \A p \in Sups : Children(p)' = Children(p)
    BY <1>1 DEF SameTree, Dynamic, Children
  <2>2. Within(Cardinality(Dynamic'), Cardinality(Pledged'), MaxDynamic, racing')
    <3>1. Pledged' \subseteq Pledged => Cardinality(Pledged') <= Cardinality(Pledged)
      BY Counted, FS_Subset
    <3>2. QED
      BY <1>r, <1>c, <1>1, <2>1, <3>1, Pledging DEF LimitInv, SameTree, Within
  <2>3. ASSUME NEW p \in Sups
        PROVE  Within(Cardinality(Children(p)'), Cardinality(Heirs(p)'), MaxChildren, racing')
    <3>1. Heirs(p)' \subseteq Heirs(p) => Cardinality(Heirs(p)') <= Cardinality(Heirs(p))
      BY Counted, FS_Subset
    <3>2. QED
      BY <1>r, <1>c, <1>1, <2>1, <3>1, Pledging DEF LimitInv, SameTree, Within
  <2>4. QED
    BY <2>2, <2>3 DEF LimitInv
<1>2. ASSUME NEW r \in Requests, InsertNode(r), ~SameTree PROVE LimitInv'
  <2> DEFINE n == req[r].node
  <2>1. /\ req[r] \in Request /\ req[r].pc = "insert" /\ n \notin Present
        /\ Present' = Present \cup {n} /\ parent' = [parent EXCEPT ![n] = req[r].parent]
        /\ req' = [req EXCEPT ![r] = Idle]
        /\ racing <= racing' /\ Cardinality(Spawning) - 1 <= racing'
    <3>1. n \notin Present /\ req[r].pc = "insert" /\ req' = [req EXCEPT ![r] = Idle]
      BY <1>2 DEF InsertNode, SameTree, Present, tree, Done
    <3>2. Present' = Present \cup {n} /\ parent' = [parent EXCEPT ![n] = req[r].parent]
      <4>1. n \in Nodes
        BY <3>1, SupervisorAssumption DEF TypeInv, Request, Idle, Static, Nodes
      <4>2. QED
        BY <1>2, <3>1, <4>1 DEF InsertNode, Transition, TypeInv, Present
    <3>3. Cardinality(Spawning) \in Nat
      BY Counted
    <3>4. racing <= racing' /\ Cardinality(Spawning) - 1 <= racing'
      BY <1>r, <1>2, <3>1, <3>3 DEF InsertNode
    <3>5. QED
      BY <3>1, <3>2, <3>4 DEF TypeInv
  <2>2. n \in Nodes \ {Root} /\ (n \in Static => req[r].parent = Root)
    BY <2>1 DEF Request, Idle, Nodes, Static
  <2>3. ASSUME NEW p \in Sups
        PROVE  Children(p)' = IF req[r].parent = p THEN Children(p) \cup {n} ELSE Children(p)
    BY <2>1, <2>2 DEF Children, TypeInv, Present
  <2>4. Dynamic' = IF n \in Static THEN Dynamic ELSE Dynamic \cup {n}
    BY <2>1, <2>2 DEF Dynamic, Static, Nodes
  <2>5. Pledged' = Pledged \ {r} /\ \A p \in Sups : Heirs(p)' = Heirs(p) \ {r}
    BY <2>1 DEF Pledged, Heirs, Idle, TypeInv
  <2>6. Pledged \subseteq Spawning /\ \A p \in Sups : Heirs(p) \subseteq Spawning
    BY DEF Pledged, Heirs, Spawning, Static
  <2>7. n \notin Static => r \in Pledged /\ \A p \in Sups : req[r].parent = p => r \in Heirs(p)
    BY <2>1 DEF Pledged, Heirs
  <2>8. \A p \in Sups : n \in Static => req[r].parent # p
    BY <2>2
  <2> HIDE DEF n
  <2>9. Within(Cardinality(Dynamic'), Cardinality(Pledged'), MaxDynamic, racing')
    <3>1. CASE n \in Static
      <4>1. Cardinality(Pledged') <= Cardinality(Pledged)
        BY <2>5, Counted, FS_Subset
      <4>2. QED
        BY <1>r, <1>c, <2>1, <2>4, <3>1, <4>1 DEF LimitInv, Within
    <3>2. CASE n \notin Static
      <4>1. /\ Cardinality(Pledged') = Cardinality(Pledged) - 1
            /\ Cardinality(Dynamic') <= Cardinality(Dynamic) + 1
            /\ Cardinality(Pledged) <= Cardinality(Spawning)
        <5>1. Cardinality(Pledged \ {r}) = Cardinality(Pledged) - 1
          BY <1>f, <2>7, <3>2, FS_RemoveElement
        <5>2. Cardinality(Dynamic \cup {n}) <= Cardinality(Dynamic) + 1
          BY <1>f, AddOne
        <5>3. Cardinality(Pledged) <= Cardinality(Spawning)
          BY <1>f, <2>6, FS_Subset
        <5>4. QED
          BY <2>4, <2>5, <3>2, <5>1, <5>2, <5>3
      <4>2. QED
        BY <1>r, <1>c, <2>1, <4>1 DEF LimitInv, Within
    <3>3. QED
      BY <3>1, <3>2
  <2>10. ASSUME NEW p \in Sups
         PROVE  Within(Cardinality(Children(p)'), Cardinality(Heirs(p)'), MaxChildren, racing')
    <3>1. CASE req[r].parent # p
      <4>1. Cardinality(Heirs(p)') <= Cardinality(Heirs(p))
        BY <2>5, Counted, FS_Subset
      <4>2. QED
        BY <1>r, <1>c, <2>1, <2>3, <3>1, <4>1 DEF LimitInv, Within
    <3>2. CASE req[r].parent = p
      <4>1. /\ Cardinality(Heirs(p)') = Cardinality(Heirs(p)) - 1
            /\ Cardinality(Children(p)') <= Cardinality(Children(p)) + 1
            /\ Cardinality(Heirs(p)) <= Cardinality(Spawning)
        <5>1. Cardinality(Heirs(p) \ {r}) = Cardinality(Heirs(p)) - 1
          BY <1>f, <2>7, <2>8, <3>2, FS_RemoveElement
        <5>2. Cardinality(Children(p) \cup {n}) <= Cardinality(Children(p)) + 1
          BY <1>f, AddOne
        <5>3. Cardinality(Heirs(p)) <= Cardinality(Spawning)
          BY <1>f, <2>6, FS_Subset
        <5>4. QED
          BY <2>3, <2>5, <3>2, <5>1, <5>2, <5>3
      <4>2. QED
        BY <1>r, <1>c, <2>1, <4>1 DEF LimitInv, Within
    <3>3. QED
      BY <3>1, <3>2
  <2>11. QED
    BY <2>9, <2>10 DEF LimitInv
<1>3. QED
  BY <1>1, <1>2, TreeStep

-----------------------------------------------------------------------------
IInv == TypeInv /\ FiniteInv /\ PresentInv /\ ServiceInv /\ LimitInv

\* The tree starts with its supervisors and services, within the limits.
LEMMA InitHolds == Init => IInv
<1> SUFFICES ASSUME Init PROVE IInv
  OBVIOUS
<1> USE SupervisorAssumption
<1>1. TypeInv
  BY DEF Init, TypeInv, Request, States, Places, Nodes
<1>2. FiniteInv
  <2>1. Present = {Root} /\ Active = {}
    BY DEF Init, Present, Active, Nodes
  <2>2. QED
    BY <2>1, FS_EmptySet, FS_Singleton DEF FiniteInv
<1>3. PresentInv
  BY DEF Init, PresentInv, Idle
<1>4. ServiceInv
  BY DEF Init, ServiceInv, Course, Nodes, Workers
<1>5. LimitInv
  <2>1. Dynamic = {} /\ Pledged = {} /\ \A p \in Sups : Children(p) = {} /\ Heirs(p) = {}
    BY DEF Init, Dynamic, Pledged, Children, Heirs, Present, Nodes, Idle
  <2>2. racing = 0
    BY DEF Init
  <2>3. QED
    BY <2>1, <2>2, FS_EmptySet DEF LimitInv, Within
<1>6. QED
  BY <1>1, <1>2, <1>3, <1>4, <1>5 DEF IInv

\* All of it is inductive.
THEOREM SpecInvariant == Spec => []IInv
<1>1. IInv /\ [Next]_vars => IInv'
  BY TypeStep, TreeStep, FiniteStep, ServiceStep, LimitStep DEF IInv
<1>2. QED
  BY <1>1, InitHolds, PTL DEF Spec

\* However stops, restarts and failures interleave, a service has at most one
\* future, none when its loop is gone, and restart_count counts the restarts.
THEOREM SpecOneFuturePerService == Spec => []OneFuturePerService
<1>1. IInv => OneFuturePerService
  BY DEF IInv, TypeInv, ServiceInv, Course, OneFuturePerService
<1>2. QED
  BY <1>1, SpecInvariant, PTL

\* However many requests race, max_children and max_dynamic_children are
\* exceeded by no more than the requests that overlapped.
THEOREM SpecOverrunOnlyByRace == Spec => []OverrunOnlyByRace
<1>1. IInv => OverrunOnlyByRace
  <2> SUFFICES ASSUME IInv PROVE OverrunOnlyByRace
    OBVIOUS
  <2>1. /\ racing \in Nat /\ MaxDynamic \in Nat /\ MaxChildren \in Nat
        /\ Cardinality(Dynamic) \in Nat /\ Cardinality(Pledged) \in Nat
        /\ \A p \in Sups : Cardinality(Children(p)) \in Nat /\ Cardinality(Heirs(p)) \in Nat
    BY SupervisorAssumption, Counted DEF IInv, TypeInv
  <2>2. QED
    BY <2>1 DEF IInv, LimitInv, Within, OverrunOnlyByRace
<1>2. QED
  BY <1>1, SpecInvariant, PTL

-----------------------------------------------------------------------------
(* TreeEvents: the view of a client that follows the events of the tree, for *)
(* every number of nodes, requests and changes and every room.               *)

\* No event of the node is on its way; its last one on the way says r.
Silent(n) == \A i \in DOMAIN feed : feed[i].node # n
LastSays(n, r) ==
  \E i \in DOMAIN feed :
    /\ feed[i] = [node |-> n, record |-> r]
    /\ \A j \in DOMAIN feed : j > i => feed[j].node # n

\* Someone will still tell of the node.
Owes(a, n) ==
  target[a] = n /\ (emitting[a].at # "none" \/ (plan[a] # << >> /\ plan[a][1] # "insert"))

\* What there is to receive, or has been received, is the node as it is, or
\* someone will still tell of it, or the last telling was lost or came too late.
Told(n) ==
  \/ LastSays(n, record[n])
  \/ Silent(n) /\ (n \in cut \/ (watcher = "watching" => view[n] = record[n]))
  \/ \E a \in Actors : Owes(a, n)
  \/ n \in crossed

PlanOK(p) ==
  p # << >> => p[Len(p)] # "bump" /\ \A i \in 1..Len(p) : p[i] = "insert" => Len(p) = 1

PlansInv == \A a \in Actors : PlanOK(plan[a])
OwnersInv == \A a \in Actors : (target[a] \in Owned /\ Busy(a, target[a])) => target[a] = a
ReadsInv ==
  \A a \in Actors :
    (emitting[a].at = "read" /\ target[a] \notin crossed) => emitting[a].record = record[target[a]]
LossInv == cut # {} => lagged \/ warned

TreeInv ==
  /\ TreeTypeOK
  /\ PlansInv
  /\ OwnersInv
  /\ ReadsInv
  /\ LossInv
  /\ crossed \subseteq Common
  /\ watcher = "away" => feed = << >>
  /\ \A n \in TreeNodes : Told(n)

LEMMA TailFacts ==
  ASSUME NEW S, NEW s \in Seq(S), s # << >>
  PROVE  /\ Len(s) \in Nat \ {0} /\ Head(s) = s[1] /\ s[1] \in S
         /\ Tail(s) \in Seq(S) /\ Len(Tail(s)) = Len(s) - 1
         /\ \A i \in 1..Len(Tail(s)) : Tail(s)[i] = s[i + 1] /\ i + 1 <= Len(s)
  OBVIOUS

LEMMA NonEmpty == ASSUME NEW S, NEW s \in Seq(S), Len(s) # 0 PROVE s # << >>
  OBVIOUS

LEMMA TreeInitHolds == TreeInit => TreeInv
<1> SUFFICES ASSUME TreeInit PROVE TreeInv
  OBVIOUS
<1> USE TreeAssumption DEF TreeInit, NotThere, NoEvent
<1>1. TreeTypeOK
  <2>1. [state |-> "absent", restarts |-> 0] \in Records
    BY DEF Records
  <2>2. target \in [Actors -> TreeNodes]
    BY DEF TreeNodes
  <2>3. 0 \in 0..MaxChanges
    OBVIOUS
  <2>4. record \in [TreeNodes -> Records] /\ view \in [TreeNodes -> Records]
    BY <2>1
  <2>5. emitting \in [Actors -> [at : {"none", "due", "read"}, record : Records]]
    BY <2>1
  <2>6. plan \in [Actors -> Seq(Steps)] /\ feed \in Seq([node : TreeNodes, record : Records])
    OBVIOUS
  <2>7. QED
    BY <2>2, <2>3, <2>4, <2>5, <2>6 DEF TreeTypeOK
<1>2. PlansInv /\ OwnersInv /\ ReadsInv /\ LossInv /\ crossed \subseteq Common
  BY DEF PlansInv, PlanOK, OwnersInv, ReadsInv, LossInv, Busy
<1>3. \A n \in TreeNodes : Told(n)
  BY DEF Told, Silent
<1>4. QED
  BY <1>1, <1>2, <1>3 DEF TreeInv

\* What begins tells of its node, but for an insertion, and changes nothing yet.
LEMMA BeginsStep ==
  ASSUME TreeInv, NEW a \in Actors, NEW n \in TreeNodes, NEW steps \in Seq(Steps), PlanOK(steps),
         n \in Owned => a = n, Begins(a, n, steps)
  PROVE  TreeInv'
<1> USE DEF TreeInv, Begins
<1>1. TreeTypeOK'
  BY TreeAssumption DEF TreeTypeOK, wire, client
<1>2. target' \in [Actors -> TreeNodes] /\ plan' \in [Actors -> Seq(Steps)]
      /\ target \in [Actors -> TreeNodes] /\ plan \in [Actors -> Seq(Steps)]
  BY <1>1 DEF TreeTypeOK
<1>3. PlansInv'
  BY <1>2 DEF PlansInv
<1>4. OwnersInv'
  BY <1>2 DEF OwnersInv, Busy
<1>5. ReadsInv'
  BY <1>2 DEF ReadsInv
<1>6. LossInv' /\ (crossed \subseteq Common)' /\ (watcher = "away" => feed = << >>)'
  BY DEF LossInv, wire, client
<1>7. ASSUME NEW m \in TreeNodes PROVE Told(m)'
  <2>1. \A b \in Actors : Owes(b, m) => Owes(b, m)'
    BY <1>2 DEF Owes
  <2>2. UNCHANGED <<record, feed, cut, watcher, view, crossed>>
    BY DEF wire, client
  <2>3. Told(m)
    OBVIOUS
  <2>4. QED
    BY <2>1, <2>2, <2>3 DEF Told, LastSays, Silent
<1>8. QED
  BY <1>1, <1>3, <1>4, <1>5, <1>6, <1>7

LEMMA ActsStep ==
  ASSUME TreeInv,
         \/ \E n \in Owned : InsertOwned(n) \/ TaskActs(n)
         \/ \E a \in Callers, n \in Common :
              InsertCommon(a, n) \/ RestartCommon(a, n) \/ StopCommon(a, n)
  PROVE  TreeInv'
<1> USE TreeAssumption DEF Actors, TreeNodes
<1>1. \A p \in TaskPlans \cup {<<"insert">>, RestartPlan, StopPlan} : p \in Seq(Steps) /\ PlanOK(p)
  <2>1. \A s \in Steps \ {"bump"} : <<s>> \in Seq(Steps) /\ PlanOK(<<s>>)
    BY DEF Steps, NodeStates, PlanOK
  <2>2. <<"stopping", "stopped">> \in Seq(Steps) /\ PlanOK(<<"stopping", "stopped">>)
    BY DEF Steps, NodeStates, PlanOK
  <2>3. \A s, t, u \in Steps \ {"insert"} :
          u # "bump" => <<s, t, u>> \in Seq(Steps) /\ PlanOK(<<s, t, u>>)
    BY DEF PlanOK
  <2>4. {"failed", "bump", "emit", "stopping", "degraded", "starting", "running"}
          \subseteq Steps \ {"insert"}
    BY DEF Steps, NodeStates
  <2>5. <<"insert">> \in Seq(Steps) /\ PlanOK(<<"insert">>)
    BY <2>1 DEF Steps
  <2>6. \A s \in NodeStates : <<s>> \in Seq(Steps) /\ PlanOK(<<s>>)
    BY <2>1 DEF Steps, NodeStates
  <2>7. <<"failed", "bump", "emit">> \in Seq(Steps) /\ PlanOK(<<"failed", "bump", "emit">>)
    BY <2>3, <2>4
  <2>8. <<"stopping", "bump", "emit">> \in Seq(Steps) /\ PlanOK(<<"stopping", "bump", "emit">>)
    BY <2>3, <2>4
  <2>9. <<"bump", "degraded", "emit">> \in Seq(Steps) /\ PlanOK(<<"bump", "degraded", "emit">>)
    BY <2>3, <2>4
  <2>10. <<"starting", "bump", "running">> \in Seq(Steps)
         /\ PlanOK(<<"starting", "bump", "running">>)
    BY <2>3, <2>4
  <2>11. QED
    BY <2>2, <2>5, <2>6, <2>7, <2>8, <2>9, <2>10 DEF TaskPlans, RestartPlan, StopPlan
<1>2. ASSUME NEW n \in Owned, InsertOwned(n) \/ TaskActs(n) PROVE TreeInv'
  <2>1. PICK steps \in TaskPlans \cup {<<"insert">>} : Begins(n, n, steps)
    BY <1>2 DEF InsertOwned, TaskActs
  <2>2. QED
    BY <2>1, <1>1, BeginsStep
<1>3. ASSUME NEW a \in Callers, NEW n \in Common,
             InsertCommon(a, n) \/ RestartCommon(a, n) \/ StopCommon(a, n)
      PROVE  TreeInv'
  <2>1. PICK steps \in {<<"insert">>, RestartPlan, StopPlan} : Begins(a, n, steps)
    BY <1>3 DEF InsertCommon, RestartCommon, StopCommon
  <2>2. QED
    BY <2>1, <1>1, BeginsStep
<1>4. QED
  BY <1>2, <1>3

\* Who writes a node will tell of it; a node that is written between another's
\* reading and sending is crossed.
LEMMA WriteStep == ASSUME TreeInv, NEW a \in Actors, WriteNode(a) PROVE TreeInv'
<1> DEFINE n == target[a]
           step == Head(plan[a])
<1> USE DEF TreeInv
<1>1. /\ n \in TreeNodes /\ step \in Steps /\ step = plan[a][1]
      /\ plan[a] # << >> /\ plan[a] \in Seq(Steps) /\ Len(plan[a]) \in Nat \ {0}
      /\ emitting[a].at = "none"
      /\ plan' = [plan EXCEPT ![a] = Tail(plan[a])]
      /\ record' = [record EXCEPT ![n] = Written(n, step, record[n])]
      /\ UNCHANGED <<target, feed, lagged, cut, watcher, view, warned, changes>>
  BY DEF WriteNode, TreeTypeOK, wire, client
<1>2. emitting' = IF Announces(step, record[n]) THEN [emitting EXCEPT ![a] = Due] ELSE emitting
  BY DEF WriteNode
<1>3. crossed' = IF record'[n] = record[n] THEN crossed
                 ELSE IF \E b \in Others(a, n) : emitting[b].at = "read" THEN crossed \cup {n}
                 ELSE IF Others(a, n) = {} THEN crossed \ {n}
                 ELSE crossed
  BY DEF WriteNode
<1> HIDE DEF n, step
<1>4. Written(n, step, record[n]) \in Records /\ record \in [TreeNodes -> Records]
  <2>1. record[n] \in Records /\ record \in [TreeNodes -> Records]
    BY <1>1 DEF TreeTypeOK
  <2>2. [state |-> Inserted[n], restarts |-> 0] \in Records
    BY <1>1, TreeAssumption DEF Records, NodeStates
  <2>3. [record[n] EXCEPT !.restarts = @ + 1] \in Records
    BY <2>1 DEF Records
  <2>4. step \in NodeStates => [record[n] EXCEPT !.state = step] \in Records
    BY <2>1 DEF Records
  <2>5. QED
    BY <1>1, <2>1, <2>2, <2>3, <2>4 DEF Written, Steps
<1>5. TreeTypeOK'
  <2>1. Due \in [at : {"none", "due", "read"}, record : Records]
    BY DEF Due, NotThere, Records, NodeStates
  <2>2. Tail(plan[a]) \in Seq(Steps)
    BY <1>1
  <2>3. crossed' \subseteq TreeNodes
    BY <1>1, <1>3 DEF TreeTypeOK
  <2>4. QED
    BY <1>1, <1>2, <1>4, <2>1, <2>2, <2>3 DEF TreeTypeOK
<1>6. /\ \A b \in Actors \ {a} : plan'[b] = plan[b] /\ emitting'[b] = emitting[b]
      /\ plan'[a] = Tail(plan[a])
      /\ emitting'[a] = (IF Announces(step, record[n]) THEN Due ELSE emitting[a])
      /\ \A m \in TreeNodes \ {n} : record'[m] = record[m]
  BY <1>1, <1>2, <1>4 DEF TreeTypeOK
<1> DEFINE rest == Tail(plan[a])
<1>t. /\ \A i \in 1..Len(rest) : rest[i] = plan[a][i + 1] /\ i + 1 <= Len(plan[a])
      /\ Len(rest) = Len(plan[a]) - 1 /\ rest \in Seq(Steps)
  BY <1>1, TailFacts
<1> HIDE DEF rest
<1>r. plan'[a] = rest
  BY <1>6 DEF rest
<1>7. \A i \in 1..Len(plan'[a]) : plan'[a][i] = plan[a][i + 1] /\ i + 1 <= Len(plan[a])
  BY <1>t, <1>r
<1>8. Len(plan'[a]) = Len(plan[a]) - 1 /\ plan'[a] \in Seq(Steps)
  BY <1>t, <1>r
<1>9. PlansInv'
  <2>1. PlanOK(plan'[a])
    BY <1>1, <1>6, <1>7, <1>8 DEF PlanOK, PlansInv
  <2>2. QED
    BY <2>1, <1>6 DEF PlansInv
<1>10. OwnersInv'
  BY <1>1, <1>6 DEF OwnersInv, Busy, n
<1>11. (crossed \subseteq Common)'
  <2>1. ASSUME n \in Owned, NEW b \in Others(a, n) PROVE FALSE
    BY <1>1, <2>1 DEF Others, Emits, OwnersInv, Busy, n
  <2>2. QED
    BY <1>1, <1>3, <2>1 DEF TreeNodes
<1>12. ReadsInv'
  <2> SUFFICES ASSUME NEW b \in Actors, emitting'[b].at = "read", target[b] \notin crossed'
               PROVE  emitting'[b].record = record'[target[b]]
    BY <1>1 DEF ReadsInv
  <2>1. b # a
    BY <1>1, <1>6 DEF Due
  <2>2. target[b] \in TreeNodes
    BY DEF TreeTypeOK
  <2>3. CASE target[b] # n
    BY <1>3, <1>6, <2>1, <2>2, <2>3 DEF ReadsInv
  <2>4. CASE target[b] = n
    <3>1. b \in Others(a, n) /\ emitting[b].at = "read"
      BY <1>6, <2>1, <2>4 DEF Others, Emits
    <3>2. record'[n] = record[n] /\ crossed' = crossed
      BY <1>3, <2>4, <3>1
    <3>3. QED
      BY <1>6, <2>1, <2>4, <3>1, <3>2 DEF ReadsInv
  <2>5. QED
    BY <2>3, <2>4
<1>13. ASSUME NEW m \in TreeNodes PROVE Told(m)'
  <2>1. \A b \in Actors \ {a} : Owes(b, m) => Owes(b, m)'
    BY <1>1, <1>6 DEF Owes
  <2>2. Told(m)
    OBVIOUS
  <2>3. CASE m # n
    <3>1. ~Owes(a, m)
      BY <2>3 DEF Owes, n
    <3>2. record'[m] = record[m] /\ (m \in crossed => m \in crossed')
      BY <1>3, <1>6, <2>3
    <3>3. QED
      BY <1>1, <2>1, <2>2, <3>1, <3>2 DEF Told, LastSays, Silent
  <2>4. CASE m = n /\ Announces(step, record[n])
    <3>1. Owes(a, m)'
      BY <1>1, <1>6, <2>4 DEF Owes, Due, n
    <3>2. QED
      BY <3>1 DEF Told
  <2>5. CASE m = n /\ step = "bump"
    <3>1. PlanOK(plan[a]) /\ plan[a][Len(plan[a])] # "bump" /\ plan[a][1] = "bump"
      BY <1>1, <2>5 DEF PlansInv, PlanOK
    <3>2. Len(plan[a]) > 1
      BY <1>1, <3>1
    <3>3. Len(plan'[a]) \in Nat \ {0} /\ plan'[a][1] = plan[a][2]
      BY <1>1, <1>7, <1>8, <3>2
    <3>4. plan[a][2] # "insert"
      BY <1>1, <3>1, <3>2 DEF PlanOK
    <3>5. plan'[a] # << >>
      BY <1>8, <3>3, NonEmpty
    <3>6. Owes(a, m)'
      BY <1>1, <2>5, <3>3, <3>4, <3>5 DEF Owes, n
    <3>7. QED
      BY <3>6 DEF Told
  <2>6. CASE m = n /\ ~Announces(step, record[n]) /\ step # "bump"
    <3>1. step = "insert" /\ record'[n] = record[n]
      BY <1>1, <1>4, <2>6 DEF Announces, Written
    <3>2. crossed' = crossed /\ ~Owes(a, m)
      BY <1>1, <1>3, <3>1 DEF Owes
    <3>3. QED
      BY <1>1, <2>1, <2>2, <2>6, <3>1, <3>2 DEF Told, LastSays, Silent
  <2>7. QED
    BY <2>3, <2>4, <2>5, <2>6
<1>14. LossInv' /\ (watcher = "away" => feed = << >>)'
  BY <1>1 DEF LossInv
<1>15. QED
  BY <1>5, <1>9, <1>10, <1>11, <1>12, <1>13, <1>14

LEMMA ReadStep == ASSUME TreeInv, NEW a \in Actors, ReadNode(a) PROVE TreeInv'
<1> USE DEF TreeInv
<1>1. /\ emitting[a].at = "due"
      /\ emitting' = [emitting EXCEPT ![a] = HasRead(record[target[a]])]
      /\ UNCHANGED <<record, target, plan, feed, lagged, cut, watcher, view, warned, changes, crossed>>
      /\ emitting \in [Actors -> [at : {"none", "due", "read"}, record : Records]]
      /\ target[a] \in TreeNodes /\ record[target[a]] \in Records
  BY DEF ReadNode, wire, client, TreeTypeOK
<1>2. /\ emitting'[a] = [at |-> "read", record |-> record[target[a]]]
      /\ \A b \in Actors \ {a} : emitting'[b] = emitting[b]
  BY <1>1 DEF HasRead
<1>3. TreeTypeOK'
  BY <1>1 DEF TreeTypeOK, HasRead
<1>4. PlansInv' /\ LossInv' /\ (crossed \subseteq Common)' /\ (watcher = "away" => feed = << >>)'
  BY <1>1 DEF PlansInv, LossInv
<1>5. OwnersInv'
  BY <1>1, <1>2 DEF OwnersInv, Busy
<1>6. ReadsInv'
  BY <1>1, <1>2 DEF ReadsInv
<1>7. ASSUME NEW m \in TreeNodes PROVE Told(m)'
  <2>1. \A b \in Actors : Owes(b, m) => Owes(b, m)'
    BY <1>1, <1>2 DEF Owes
  <2>2. Told(m)
    OBVIOUS
  <2>3. QED
    BY <1>1, <2>1, <2>2 DEF Told, LastSays, Silent
<1>8. QED
  BY <1>3, <1>4, <1>5, <1>6, <1>7

\* What is sent last is the node as it is, unless it is crossed; what the full
\* broadcast drops is counted as cut.
LEMMA SendStep == ASSUME TreeInv, NEW a \in Actors, SendEvent(a) PROVE TreeInv'
<1> DEFINE n == target[a]
           event == [node |-> n, record |-> emitting[a].record]
           full == Len(feed) = EventRoom
           kept == IF full THEN Tail(feed) ELSE feed
<1> USE DEF TreeInv
<1>1. /\ emitting[a].at = "read"
      /\ emitting' = [emitting EXCEPT ![a] = NoEvent]
      /\ UNCHANGED <<record, target, plan, watcher, view, warned, changes, crossed>>
      /\ emitting \in [Actors -> [at : {"none", "due", "read"}, record : Records]]
      /\ n \in TreeNodes /\ event \in [node : TreeNodes, record : Records]
      /\ feed \in Seq([node : TreeNodes, record : Records])
      /\ cut \subseteq TreeNodes /\ lagged \in BOOLEAN
  BY DEF SendEvent, wire, client, TreeTypeOK
<1>2. \/ watcher = "away" /\ UNCHANGED <<feed, lagged, cut>>
      \/ /\ watcher # "away"
         /\ feed' = Append(kept, event)
         /\ lagged' = (lagged \/ full)
         /\ cut' = IF full THEN cut \cup {feed[1].node} ELSE cut
  BY DEF SendEvent, wire
<1>3. full => feed # << >> /\ feed[1] \in [node : TreeNodes, record : Records]
  <2>1. full => feed # << >>
    BY <1>1, TreeAssumption
  <2>2. QED
    BY <1>1, <2>1, TailFacts
<1>4. kept \in Seq([node : TreeNodes, record : Records])
  BY <1>1, <1>3, TailFacts
<1>5. /\ emitting'[a] = NoEvent
      /\ \A b \in Actors \ {a} : emitting'[b] = emitting[b]
  BY <1>1
<1>6. \A i \in 1..Len(kept) :
        IF full THEN kept[i] = feed[i + 1] /\ i + 1 <= Len(feed) ELSE kept[i] = feed[i]
  BY <1>1, <1>3, TailFacts
<1>7. Len(kept) = (IF full THEN Len(feed) - 1 ELSE Len(feed)) /\ Len(feed) \in Nat
  BY <1>1, <1>3, TailFacts
<1> HIDE DEF kept, full
<1>8. TreeTypeOK'
  <2>1. NoEvent \in [at : {"none", "due", "read"}, record : Records]
    BY DEF NoEvent, NotThere, Records, NodeStates
  <2>2. feed' \in Seq([node : TreeNodes, record : Records])
    <3>1. Append(kept, event) \in Seq([node : TreeNodes, record : Records])
      BY <1>1, <1>4
    <3>2. QED
      BY <1>1, <1>2, <3>1
  <2>3. lagged' \in BOOLEAN /\ cut' \subseteq TreeNodes
    BY <1>1, <1>2, <1>3 DEF full
  <2>4. QED
    BY <1>1, <2>1, <2>2, <2>3 DEF TreeTypeOK
<1>9. PlansInv' /\ (crossed \subseteq Common)' /\ (watcher = "away" => feed = << >>)'
  BY <1>1, <1>2 DEF PlansInv
<1>10. OwnersInv'
  BY <1>1, <1>5 DEF OwnersInv, Busy, NoEvent
<1>11. ReadsInv'
  BY <1>1, <1>5 DEF ReadsInv, NoEvent
<1>12. LossInv'
  BY <1>1, <1>2 DEF LossInv
<1>13. ASSUME NEW m \in TreeNodes PROVE Told(m)'
  <2>1. Told(m)
    OBVIOUS
  <2>2. \A b \in Actors \ {a} : Owes(b, m) => Owes(b, m)'
    BY <1>1, <1>5 DEF Owes
  <2>3. CASE watcher = "away"
    BY <1>1, <1>2, <2>3 DEF Told, Silent
  <2>4. CASE watcher # "away" /\ m = n
    <3>1. n \in crossed \/ emitting[a].record = record[n]
      BY <1>1 DEF ReadsInv
    <3>2. feed' = Append(kept, event)
      BY <1>2, <2>4
    <3>3. Len(feed') = Len(kept) + 1 /\ feed'[Len(feed')] = event /\ Len(kept) \in Nat
          /\ DOMAIN feed' = 1..Len(feed')
      BY <1>4, <3>2
    <3>4. ASSUME emitting[a].record = record[n] PROVE LastSays(m, record[n])'
      <4>1. Len(feed') \in DOMAIN feed' /\ \A j \in DOMAIN feed' : ~(j > Len(feed'))
        BY <3>3
      <4>2. feed'[Len(feed')] = [node |-> m, record |-> record'[n]] /\ n' = n
        BY <1>1, <2>4, <3>3, <3>4
      <4>3. QED
        BY <4>1, <4>2 DEF LastSays
    <3>5. QED
      BY <1>1, <2>4, <3>1, <3>4 DEF Told
  <2>5. CASE watcher # "away" /\ m # n
    <3>1. feed' = Append(kept, event)
      BY <1>2, <2>5
    <3>2. /\ Len(kept) \in Nat /\ DOMAIN feed' = 1..(Len(kept) + 1) /\ DOMAIN feed = 1..Len(feed)
          /\ \A i \in 1..Len(kept) : feed'[i] = kept[i]
          /\ feed'[Len(kept) + 1] = event
      BY <1>1, <1>4, <3>1
    <3>3. event.node # m /\ ~Owes(a, m) /\ (m \in cut => m \in cut')
      BY <1>2, <2>5 DEF Owes
    <3>4. CASE Silent(m)
      <4>1. Silent(m)'
        <5> SUFFICES ASSUME NEW j \in DOMAIN feed' PROVE feed'[j].node # m
          BY DEF Silent
        <5>1. CASE j = Len(kept) + 1
          BY <3>2, <3>3, <5>1
        <5>2. CASE j # Len(kept) + 1
          <6>1. j \in 1..Len(kept)
            BY <3>2, <5>2
          <6>2. feed'[j] = kept[j] /\ (kept[j] = feed[j] \/ kept[j] = feed[j + 1])
            BY <1>6, <3>2, <6>1
          <6>3. j \in DOMAIN feed /\ (full => j + 1 \in DOMAIN feed)
            <7>1. CASE full
              BY <1>7, <3>2, <6>1, <7>1
            <7>2. CASE ~full
              BY <1>7, <3>2, <6>1, <7>2
            <7>3. QED
              BY <7>1, <7>2
          <6>4. QED
            BY <1>6, <3>4, <6>1, <6>2, <6>3 DEF Silent
        <5>3. QED
          BY <5>1, <5>2
      <4>2. ~LastSays(m, record[m])
        BY <3>4 DEF LastSays, Silent
      <4>3. QED
        BY <1>1, <2>1, <2>2, <3>3, <4>1, <4>2 DEF Told
    <3>5. CASE LastSays(m, record[m])
      <4>1. PICK i \in DOMAIN feed :
              /\ feed[i] = [node |-> m, record |-> record[m]]
              /\ \A j \in DOMAIN feed : j > i => feed[j].node # m
        BY <3>5 DEF LastSays
      <4>2. CASE ~full
        <5>1. i \in DOMAIN feed' /\ feed'[i] = feed[i]
          BY <1>6, <1>7, <3>2, <4>1, <4>2
        <5>2. \A j \in DOMAIN feed' : j > i => feed'[j].node # m
          BY <1>6, <1>7, <3>2, <3>3, <4>1, <4>2
        <5>3. QED
          BY <1>1, <4>1, <5>1, <5>2 DEF Told, LastSays
      <4>3. CASE full /\ i > 1
        <5>1. i - 1 \in DOMAIN feed' /\ feed'[i - 1] = feed[i]
          BY <1>6, <1>7, <3>2, <4>1, <4>3
        <5>2. ASSUME NEW j \in DOMAIN feed', j > i - 1 PROVE feed'[j].node # m
          <6>1. CASE j = Len(kept) + 1
            BY <3>2, <3>3, <6>1
          <6>2. CASE j # Len(kept) + 1
            <7>1. j \in 1..Len(kept) /\ j + 1 \in DOMAIN feed /\ j + 1 > i
              BY <1>6, <1>7, <3>2, <4>1, <4>3, <5>2, <6>2
            <7>2. feed'[j] = feed[j + 1]
              BY <1>6, <3>2, <4>3, <7>1
            <7>3. QED
              BY <4>1, <7>1, <7>2
          <6>3. QED
            BY <6>1, <6>2
        <5>3. QED
          BY <1>1, <4>1, <5>1, <5>2 DEF Told, LastSays
      <4>4. CASE full /\ i = 1
        <5>1. Silent(m)'
          <6> SUFFICES ASSUME NEW j \in DOMAIN feed' PROVE feed'[j].node # m
            BY DEF Silent
          <6>1. CASE j = Len(kept) + 1
            BY <3>2, <3>3, <6>1
          <6>2. CASE j # Len(kept) + 1
            <7>1. j \in 1..Len(kept) /\ j + 1 \in DOMAIN feed /\ j + 1 > i
              BY <1>6, <1>7, <3>2, <4>1, <4>4, <6>2
            <7>2. feed'[j] = feed[j + 1]
              BY <1>6, <3>2, <4>4, <7>1
            <7>3. QED
              BY <4>1, <7>1, <7>2
          <6>3. QED
            BY <6>1, <6>2
        <5>2. m \in cut'
          BY <1>2, <2>5, <4>1, <4>4
        <5>3. QED
          BY <5>1, <5>2 DEF Told
      <4>5. QED
        BY <3>2, <4>1, <4>2, <4>3, <4>4
    <3>6. CASE ~Silent(m) /\ ~LastSays(m, record[m])
      BY <1>1, <2>1, <2>2, <3>3, <3>6 DEF Told
    <3>7. QED
      BY <3>4, <3>5, <3>6
  <2>6. QED
    BY <2>3, <2>4, <2>5
<1>14. QED
  BY <1>8, <1>9, <1>10, <1>11, <1>12, <1>13

LEMMA SubscribeStep == ASSUME TreeInv, SubscribeEvents \/ TakeSnapshot PROVE TreeInv'
<1> USE DEF TreeInv
<1>1. /\ UNCHANGED <<record, target, plan, emitting, feed, lagged, cut, warned, changes, crossed>>
      /\ \/ watcher' = "subscribed" /\ view' = view /\ watcher = "away"
         \/ watcher' = "watching" /\ view' = record
  BY DEF SubscribeEvents, TakeSnapshot, acting, wire
<1>2. TreeTypeOK'
  BY <1>1 DEF TreeTypeOK
<1>3. PlansInv' /\ OwnersInv' /\ ReadsInv' /\ LossInv' /\ (crossed \subseteq Common)'
  BY <1>1 DEF PlansInv, OwnersInv, Busy, ReadsInv, LossInv
<1>4. ASSUME NEW m \in TreeNodes PROVE Told(m)'
  <2>1. Told(m)
    OBVIOUS
  <2>2. \A b \in Actors : Owes(b, m) => Owes(b, m)'
    BY <1>1 DEF Owes
  <2>3. QED
    BY <1>1, <2>1, <2>2 DEF Told, LastSays, Silent
<1>5. QED
  BY <1>1, <1>2, <1>3, <1>4

LEMMA ReceiveStep == ASSUME TreeInv, Receive PROVE TreeInv'
<1> USE DEF TreeInv
<1>1. /\ watcher = "watching"
      /\ UNCHANGED <<record, target, plan, emitting, watcher, changes, crossed>>
  BY DEF Receive, acting
<1>2. PlansInv' /\ OwnersInv' /\ ReadsInv' /\ (crossed \subseteq Common)'
  BY <1>1 DEF PlansInv, OwnersInv, Busy, ReadsInv
<1>3. \A m \in TreeNodes, b \in Actors : Owes(b, m) => Owes(b, m)'
  BY <1>1 DEF Owes
<1>4. CASE lagged
  <2>1. lagged' = FALSE /\ warned' = TRUE /\ UNCHANGED <<feed, cut, view>>
    BY <1>4 DEF Receive
  <2>2. TreeTypeOK' /\ LossInv'
    BY <1>1, <2>1 DEF TreeTypeOK, LossInv
  <2>3. \A m \in TreeNodes : Told(m)'
    BY <1>1, <1>3, <2>1 DEF Told, LastSays, Silent
  <2>4. QED
    BY <1>1, <1>2, <2>2, <2>3
<1>5. CASE ~lagged
  <2>1. /\ feed # << >> /\ feed' = Tail(feed)
        /\ view' = [view EXCEPT ![feed[1].node] = feed[1].record]
        /\ cut' = cut \ {feed[1].node}
        /\ UNCHANGED <<lagged, warned>>
    BY <1>5 DEF Receive
  <2>2. /\ feed \in Seq([node : TreeNodes, record : Records])
        /\ feed[1] \in [node : TreeNodes, record : Records]
        /\ view \in [TreeNodes -> Records]
    <3>1. /\ feed \in Seq([node : TreeNodes, record : Records]) /\ view \in [TreeNodes -> Records]
          /\ feed # << >>
      BY <2>1 DEF TreeTypeOK
    <3>2. QED
      BY <3>1, TailFacts
  <2>3. TreeTypeOK' /\ LossInv'
    BY <1>1, <2>1, <2>2 DEF TreeTypeOK, LossInv
  <2>4. /\ Len(feed') = Len(feed) - 1 /\ Len(feed) \in Nat \ {0}
        /\ DOMAIN feed = 1..Len(feed) /\ DOMAIN feed' = 1..Len(feed')
        /\ \A i \in 1..Len(feed') : feed'[i] = feed[i + 1]
    BY <2>1, <2>2
  <2>5. ASSUME NEW m \in TreeNodes PROVE Told(m)'
    <3>1. Told(m)
      OBVIOUS
    <3>2. CASE Silent(m)
      <4>1. feed[1].node # m /\ Silent(m)'
        <5>1. 1 \in DOMAIN feed /\ \A j \in DOMAIN feed' : j + 1 \in DOMAIN feed
          BY <2>4
        <5>2. QED
          BY <2>4, <3>2, <5>1 DEF Silent
      <4>2. view'[m] = view[m] /\ (m \in cut => m \in cut')
        BY <2>1, <2>2, <4>1
      <4>3. ~LastSays(m, record[m])
        BY <3>2 DEF LastSays, Silent
      <4>4. QED
        BY <1>1, <1>3, <3>1, <4>1, <4>2, <4>3 DEF Told
    <3>3. CASE LastSays(m, record[m])
      <4>1. PICK i \in DOMAIN feed :
              /\ feed[i] = [node |-> m, record |-> record[m]]
              /\ \A j \in DOMAIN feed : j > i => feed[j].node # m
        BY <3>3 DEF LastSays
      <4>2. CASE i = 1
        <5>1. Silent(m)'
          BY <2>4, <4>1, <4>2 DEF Silent
        <5>2. view'[m] = record[m]
          BY <2>1, <2>2, <4>1, <4>2
        <5>3. QED
          BY <1>1, <5>1, <5>2 DEF Told
      <4>3. CASE i > 1
        <5>1. i - 1 \in DOMAIN feed' /\ feed'[i - 1] = feed[i]
          BY <2>4, <4>1, <4>3
        <5>2. ASSUME NEW j \in DOMAIN feed', j > i - 1 PROVE feed'[j].node # m
          <6>1. j + 1 \in DOMAIN feed /\ j + 1 > i /\ feed'[j] = feed[j + 1]
            BY <2>4, <4>1, <5>2
          <6>2. QED
            BY <4>1, <6>1
        <5>3. QED
          BY <1>1, <4>1, <5>1, <5>2 DEF Told, LastSays
      <4>4. QED
        BY <2>4, <4>1, <4>2, <4>3
    <3>4. CASE ~Silent(m) /\ ~LastSays(m, record[m])
      BY <1>1, <1>3, <3>1, <3>4 DEF Told
    <3>5. QED
      BY <3>2, <3>3, <3>4
  <2>6. QED
    BY <1>1, <1>2, <2>3, <2>5
<1>6. QED
  BY <1>4, <1>5

LEMMA TreeStutter == TreeInv /\ UNCHANGED treeVars => TreeInv'
<1> SUFFICES ASSUME TreeInv, UNCHANGED treeVars PROVE TreeInv'
  OBVIOUS
<1>1. UNCHANGED <<record, target, plan, emitting, feed, lagged, cut, watcher, view, warned, changes,
                  crossed>>
  BY DEF treeVars, acting, wire, client
<1>2. TreeTypeOK' /\ PlansInv' /\ OwnersInv' /\ ReadsInv' /\ LossInv'
  BY <1>1 DEF TreeInv, TreeTypeOK, PlansInv, OwnersInv, Busy, ReadsInv, LossInv
<1>3. \A m \in TreeNodes : Told(m)'
  BY <1>1 DEF TreeInv, Told, LastSays, Silent, Owes
<1>4. QED
  BY <1>1, <1>2, <1>3 DEF TreeInv

\* A client that has received all there is sees every node as it is, but for
\* one whose event was lost, and it was warned, and one that two requests changed
\* at once; however many write and however small the broadcast.
THEOREM SpecWatchersKeepUp == TreeSpec => []WatchersKeepUp
<1>1. TreeInv /\ [TreeNext]_treeVars => TreeInv'
  BY ActsStep, WriteStep, ReadStep, SendStep, SubscribeStep, ReceiveStep, TreeStutter DEF TreeNext
<1>2. TreeInv => WatchersKeepUp
  <2> SUFFICES ASSUME TreeInv, NEW n \in TreeNodes, watcher = "watching", feed = << >>, ~lagged,
                      \A a \in Actors : ~Busy(a, n)
               PROVE  view[n] = record[n] \/ (n \in cut /\ warned) \/ n \in crossed \cap Common
    BY DEF WatchersKeepUp
  <2>1. \A a \in Actors : ~Owes(a, n)
    BY DEF Owes, Busy
  <2>2. ~LastSays(n, record[n])
    BY DEF LastSays
  <2>3. n \in cut \/ view[n] = record[n] \/ n \in crossed
    BY <2>1, <2>2 DEF TreeInv, Told
  <2>4. QED
    BY <2>3 DEF TreeInv, LossInv
<1>3. QED
  BY <1>1, <1>2, TreeInitHolds, PTL DEF TreeSpec
=============================================================================
