----------------------------- MODULE NamedAgent -----------------------------
(***************************************************************************)
(* One named agent shared by several processes (agents/registry.rs,        *)
(* agents/runtime.rs, agents/mailbox.rs, agents/persistence.rs).  Every    *)
(* process that boots tries to take the lease of the agent in Redis.  The  *)
(* one that gets it loads the saved conversation, runs the mailbox, puts   *)
(* its entry into the registry hash and bridges the Redis queue of remote  *)
(* requests to the mailbox; the others send their messages through that    *)
(* queue.  A stop wipes what the owner put into Redis.  Processes crash,   *)
(* stall and lose calls to Redis and Postgres.                             *)
(***************************************************************************)
EXTENDS Naturals, FiniteSets, SequencesExt

CONSTANTS
  Runtimes,    \* processes, each with an owner_id of its own and started once
  Requests,    \* messages to the agent
  Remote,      \* those whose caller may be in a process without the mailbox
  Local,       \* those whose caller may be in the process that has it
  None,
  LeaseTtl,    \* NAMED_AGENT_LEASE_TTL_SECS in units of NAMED_AGENT_LEASE_RENEW_SECS
  Scenarios,   \* bound: which mishaps may come together
  MaxMoves     \* bound: how often a request is moved back to the queue

Scenario ==
  [asked: SUBSET Requests,  \* requests that are sent
   crashes: Nat,            \* processes that die
   faults: Nat,             \* calls to Redis and Postgres that fail, periods without a renewal
   stops: Nat]              \* stops and restarts that are asked for

ASSUME NamedAgentAssumption ==
  /\ Remote \cup Local = Requests
  /\ None \notin Runtimes /\ None \notin Requests
  /\ LeaseTtl \in Nat \ {0}
  /\ Scenarios \subseteq Scenario /\ MaxMoves \in Nat
  /\ Requests \cap {"off", "loading", "ready", "closed"} = {}

VARIABLES
  \* Redis and Postgres.
  lease, ttl,  \* puff:agents:lease:<key>: owner_id, and periods left
  entry,       \* field <key> of the registry hash: metadata owner_id
  pending,     \* mailbox queue, LPUSH on the left, popped on the right
  processing,  \* what bridges have popped and not acknowledged
  reply,       \* puff:agents:reply:<request_id>
  saved,       \* user messages of the stored conversation
  \* Of each process.
  phase,       \* down, wait, spawn, joined, owner, dead
  leased,      \* processes with the key in leased_keys
  due,         \* those whose renewal task is awake
  ctl,         \* controls[key].mailbox is there
  hset,        \* the task spawned by register() has not written the entry
  wipe,        \* next call of the task spawned by unregister()
  stopping,    \* the node's command channel holds a Stop
  mail,        \* mailbox loop: off, loading, ready, closed, or the turn's request
  conv,        \* user messages of its conversation
  inbox,       \* the mailbox channel
  bridge,      \* remote mailbox bridge: its place, and the request it handles
  \* Callers.
  caller,
  \* History.
  execs,       \* turns run for a request
  recovered,   \* times a request was moved from processing back to pending
  dropped,     \* requests wiped from the queues or whose reply was not written
  forgotten,   \* messages a restart, a failed load or a failed save gave up
  lapsed,      \* a process that renews or wipes lost the lease
  overlapped,  \* a mailbox was started while another one was open
  crashes, faults, stops,
  scenario     \* the element of Scenarios the run stays within

shared == <<lease, ttl, entry>>
queues == <<pending, processing, reply>>
claims == <<phase, leased, due>>
local == <<ctl, hset, wipe, stopping>>
mailbox == <<mail, conv, inbox>>
history == <<execs, recovered, dropped, forgotten, lapsed, overlapped>>
bounds == <<crashes, faults, stops, scenario>>
vars == <<shared, queues, saved, claims, local, mailbox, bridge, caller, history, bounds>>

At(pc, r) == [pc |-> pc, req |-> r]
Alive(p) == phase[p] \notin {"down", "dead"}
Open(p) == mail[p] \notin {"off", "closed"}
Between(p) == mail[p] \in {"ready", "closed"}  \* the loop answers or is gone
Fault == faults < scenario.faults /\ faults' = faults + 1

Init ==
  /\ lease = None /\ ttl = 0 /\ entry = None
  /\ pending = << >> /\ processing = << >>
  /\ reply = [r \in Requests |-> "none"]
  /\ saved = {}
  /\ phase = [p \in Runtimes |-> "down"]
  /\ leased = {} /\ due = {} /\ ctl = {} /\ hset = {} /\ stopping = {}
  /\ wipe = [p \in Runtimes |-> "off"]
  /\ mail = [p \in Runtimes |-> "off"]
  /\ conv = [p \in Runtimes |-> {}]
  /\ inbox = [p \in Runtimes |-> << >>]
  /\ bridge = [p \in Runtimes |-> At("off", None)]
  /\ caller = [r \in Requests |-> "idle"]
  /\ execs = [r \in Requests |-> 0]
  /\ recovered = [r \in Requests |-> 0]
  /\ dropped = {} /\ forgotten = {}
  /\ lapsed = FALSE /\ overlapped = FALSE
  /\ crashes = 0 /\ faults = 0 /\ stops = 0
  /\ scenario \in Scenarios

-----------------------------------------------------------------------------
(* Registration: register_named_agent, try_claim_named_agent. *)

\* Mutant: SET without NX.
AnyLease == TRUE

\* SET NX.
FreeLease == lease = None

\* SET NX EX.  A lease that is taken belongs to another process: every process
\* has a fresh owner_id and claims once, so the GET that follows changes nothing.
Claim(p) ==
  /\ phase[p] = "down"
  /\ IF FreeLease
       THEN /\ lease' = p /\ ttl' = LeaseTtl
            /\ leased' = leased \cup {p}
            /\ phase' = [phase EXCEPT ![p] = "spawn"]
       ELSE /\ phase' = [phase EXCEPT ![p] = "wait"]
            /\ UNCHANGED <<lease, ttl, leased>>
  /\ UNCHANGED <<entry, queues, saved, due, local, mailbox, bridge, caller, history, bounds>>

\* resolve_async finds an entry, whoever wrote it.
Join(p) ==
  /\ phase[p] = "wait" /\ entry # None
  /\ phase' = [phase EXCEPT ![p] = "joined"]
  /\ UNCHANGED <<shared, queues, saved, leased, due, local, mailbox, bridge, caller, history, bounds>>

\* Mutant: a process that waited long enough runs the agent itself.
TakeOver == "spawn"

\* The process does not start.
AfterDeadline == "dead"

\* NAMED_AGENT_REGISTRATION_TIMEOUT_SECS pass without an entry.
GiveUp(p) ==
  /\ phase[p] = "wait" /\ entry = None
  /\ phase' = [phase EXCEPT ![p] = AfterDeadline]
  /\ UNCHANGED <<shared, queues, saved, leased, due, local, mailbox, bridge, caller, history, bounds>>

\* spawn_supervised_agent_mailbox and register_mailbox: nothing awaits.
Spawn(p) ==
  /\ phase[p] = "spawn"
  /\ phase' = [phase EXCEPT ![p] = "owner"]
  /\ mail' = [mail EXCEPT ![p] = "loading"]
  /\ ctl' = ctl \cup {p}
  /\ hset' = hset \cup {p}
  /\ bridge' = [bridge EXCEPT ![p] = At("recover", None)]
  /\ overlapped' = (overlapped \/ \E q \in Runtimes : Open(q))
  /\ UNCHANGED <<shared, queues, saved, leased, due, wipe, stopping, conv, inbox, caller,
                 execs, recovered, dropped, forgotten, lapsed, bounds>>

\* The task of register(); a failed call is ignored.
Publish(p) ==
  /\ p \in hset
  /\ hset' = hset \ {p}
  /\ \/ entry' = p /\ UNCHANGED faults
     \/ Fault /\ UNCHANGED entry
  /\ UNCHANGED <<lease, ttl, queues, saved, claims, ctl, wipe, stopping, mailbox, bridge,
                 caller, history, crashes, stops, scenario>>

-----------------------------------------------------------------------------
(* The lease.  Time passes in periods of the renewal task, and a period ends *)
(* when every task that woke up in it has made its attempt.  A period that   *)
(* ends during the few calls of a wipe counts as a fault.                    *)

Tick ==
  /\ lease # None /\ due = {}
  /\ due' = leased
  /\ IF \E p \in Runtimes : wipe[p] # "off" THEN Fault ELSE UNCHANGED faults
  /\ IF ttl > 1
       THEN ttl' = ttl - 1 /\ UNCHANGED <<lease, lapsed>>
       ELSE /\ ttl' = 0 /\ lease' = None
            /\ lapsed' = (lapsed \/ lease \in leased \/ wipe[lease] # "off")
  /\ UNCHANGED <<entry, queues, saved, phase, leased, local, mailbox, bridge, caller,
                 execs, recovered, dropped, forgotten, overlapped, crashes, stops, scenario>>

\* EXPIRE.
ExtendLease == ttl' = LeaseTtl

\* One turn of the loop of start_named_agent_lease.  An EXPIRE that comes after
\* the lease changed hands only prolongs the lease of its new owner.
Renew(p) ==
  /\ p \in due
  /\ due' = due \ {p}
  /\ \/ /\ p \in leased /\ lease = p
        /\ ExtendLease
        /\ UNCHANGED <<leased, faults>>
     \/ /\ p \in leased => lease # p
        /\ leased' = leased \ {p}
        /\ UNCHANGED <<ttl, faults>>
     \/ p \in leased /\ Fault /\ UNCHANGED <<ttl, leased>>
  /\ UNCHANGED <<lease, entry, queues, saved, phase, local, mailbox, bridge, caller, history,
                 crashes, stops, scenario>>

-----------------------------------------------------------------------------
(* The mailbox loop. *)

\* SELECT conversation_json.
StoredConversation == saved

\* load_conversation_snapshot; after an error the loop starts with a new one.
Load(p) ==
  /\ mail[p] = "loading"
  /\ mail' = [mail EXCEPT ![p] = "ready"]
  /\ \/ /\ conv' = [conv EXCEPT ![p] = StoredConversation]
        /\ UNCHANGED <<forgotten, faults>>
     \/ /\ Fault /\ saved # {}
        /\ forgotten' = forgotten \cup saved
        /\ UNCHANGED conv
  /\ UNCHANGED <<shared, queues, saved, claims, local, inbox, bridge, caller,
                 execs, recovered, dropped, lapsed, overlapped, crashes, stops, scenario>>

\* The loop takes a message, adds it to the conversation and calls run_turn.
StartTurn(p) ==
  /\ mail[p] = "ready" /\ inbox[p] # << >>
  /\ LET r == Head(inbox[p]) IN
       /\ mail' = [mail EXCEPT ![p] = r]
       /\ conv' = [conv EXCEPT ![p] = @ \cup {r}]
       /\ execs' = [execs EXCEPT ![r] = @ + 1]
  /\ inbox' = [inbox EXCEPT ![p] = Tail(@)]
  /\ UNCHANGED <<shared, queues, saved, claims, local, bridge, caller,
                 recovered, dropped, forgotten, lapsed, overlapped, bounds>>

\* What the mailbox tells the sender of r, who may have gone.
Respond(p, r, result) ==
  IF bridge[p] = At("wait", r)
    THEN /\ bridge' = [bridge EXCEPT ![p] = At(result, r)]
         /\ UNCHANGED caller
    ELSE /\ caller' = [caller EXCEPT ![r] = result]
         /\ UNCHANGED bridge

\* run_turn returns; the conversation is saved, then the sender is answered.
FinishTurn(p) ==
  /\ mail[p] \in Requests
  /\ mail' = [mail EXCEPT ![p] = "ready"]
  /\ \/ saved' = conv[p] /\ UNCHANGED <<forgotten, faults>>
     \/ /\ Fault
        /\ forgotten' = forgotten \cup {mail[p]}
        /\ UNCHANGED saved
  /\ \E result \in {"ok", "err"} : Respond(p, mail[p], result)
  /\ UNCHANGED <<shared, queues, claims, local, conv, inbox,
                 execs, recovered, dropped, lapsed, overlapped, crashes, stops, scenario>>

\* SupervisorCommand::Restart: a new conversation is saved over the old one.
Restart(p) ==
  /\ mail[p] = "ready"
  /\ stops < scenario.stops /\ stops' = stops + 1
  /\ conv' = [conv EXCEPT ![p] = {}]
  /\ forgotten' = forgotten \cup conv[p] \cup saved
  /\ \/ saved' = {} /\ UNCHANGED faults
     \/ Fault /\ UNCHANGED saved
  /\ UNCHANGED <<shared, queues, claims, local, mail, inbox, bridge, caller,
                 execs, recovered, dropped, lapsed, overlapped, crashes, scenario>>

\* The loop sees the Stop between two turns.  The messages left in its channel
\* are dropped and their senders told so.
CloseMailbox(p) ==
  /\ p \in stopping /\ mail[p] = "ready"
  /\ mail' = [mail EXCEPT ![p] = "closed"]
  /\ inbox' = [inbox EXCEPT ![p] = << >>]
  /\ LET left == ToSet(inbox[p]) IN
       /\ bridge' = IF bridge[p].pc = "wait" /\ bridge[p].req \in left
                      THEN [bridge EXCEPT ![p].pc = "err"] ELSE bridge
       /\ caller' = [r \in Requests |->
                       IF r \in left /\ bridge[p] # At("wait", r) THEN "err" ELSE caller[r]]
  /\ UNCHANGED <<shared, queues, saved, claims, local, conv, history, bounds>>

-----------------------------------------------------------------------------
(* Stop and unregister. *)

\* stop_node, asked for at the control endpoint or over the control queue,
\* leaves a Stop in the command channel of the node.
Stop(p) ==
  /\ p \in ctl /\ Open(p) /\ p \notin stopping
  /\ stops < scenario.stops /\ stops' = stops + 1
  /\ stopping' = stopping \cup {p}
  /\ UNCHANGED <<shared, queues, saved, claims, ctl, hset, wipe, mailbox, bridge, caller,
                 history, crashes, faults, scenario>>

\* unregister, once stop_node has returned and whether or not the loop saw the Stop.
Unregister(p) ==
  /\ p \in stopping \cap ctl
  /\ ctl' = ctl \ {p}
  /\ leased' = leased \ {p}
  /\ wipe' = [wipe EXCEPT ![p] = "hdel"]
  /\ UNCHANGED <<shared, queues, saved, phase, due, hset, stopping, mailbox, bridge, caller,
                 history, bounds>>

\* The task unregister spawned: HDEL, DEL of the queues, GET and DEL of the
\* lease, each on its own.  Without a connection it does nothing.
WipeEntry(p) ==
  /\ wipe[p] = "hdel"
  /\ \/ /\ entry' = None
        /\ wipe' = [wipe EXCEPT ![p] = "del"]
        /\ UNCHANGED faults
     \/ /\ Fault
        /\ wipe' = [wipe EXCEPT ![p] = "off"]
        /\ UNCHANGED entry
  /\ UNCHANGED <<lease, ttl, queues, saved, claims, ctl, hset, stopping, mailbox, bridge,
                 caller, history, crashes, stops, scenario>>

WipeQueues(p) ==
  /\ wipe[p] = "del"
  /\ wipe' = [wipe EXCEPT ![p] = "get"]
  /\ pending' = << >> /\ processing' = << >>
  /\ dropped' = dropped \cup ToSet(pending) \cup ToSet(processing)
  /\ UNCHANGED <<shared, reply, saved, claims, ctl, hset, stopping, mailbox, bridge, caller,
                 execs, recovered, forgotten, lapsed, overlapped, bounds>>

CheckLease(p) ==
  /\ wipe[p] = "get"
  /\ wipe' = [wipe EXCEPT ![p] = IF lease = p THEN "dellease" ELSE "off"]
  /\ UNCHANGED <<shared, queues, saved, claims, ctl, hset, stopping, mailbox, bridge, caller,
                 history, bounds>>

WipeLease(p) ==
  /\ wipe[p] = "dellease"
  /\ wipe' = [wipe EXCEPT ![p] = "off"]
  /\ lease' = None /\ ttl' = 0
  /\ UNCHANGED <<entry, queues, saved, claims, ctl, hset, stopping, mailbox, bridge, caller,
                 history, bounds>>

-----------------------------------------------------------------------------
(* The remote mailbox bridge.  It is started with the mailbox and never ends *)
(* before the process: after a Stop it answers every request with an error.  *)

\* recover_processing_queue: one RPOPLPUSH, the end of the loop, or an error.
Recover(p) ==
  /\ bridge[p].pc = "recover"
  /\ IF processing # << >>
       THEN /\ recovered[Last(processing)] < MaxMoves
            /\ processing' = Front(processing)
            /\ pending' = <<Last(processing)>> \o pending
            /\ recovered' = [recovered EXCEPT ![Last(processing)] = @ + 1]
            /\ UNCHANGED bridge
       ELSE /\ bridge' = [bridge EXCEPT ![p] = At("greet", None)]
            /\ UNCHANGED <<processing, pending, recovered>>
  /\ UNCHANGED <<shared, reply, saved, claims, local, mailbox, caller,
                 execs, dropped, forgotten, lapsed, overlapped, bounds>>

RecoverFails(p) ==
  /\ bridge[p].pc = "recover" /\ processing # << >>
  /\ Fault
  /\ bridge' = [bridge EXCEPT ![p] = At("greet", None)]
  /\ UNCHANGED <<shared, queues, saved, claims, local, mailbox, caller, history, crashes, stops, scenario>>

\* mailbox.conversation(): the loop has to be there to answer.
Greet(p) ==
  /\ bridge[p].pc = "greet" /\ Between(p)
  /\ bridge' = [bridge EXCEPT ![p] = At("pop", None)]
  /\ UNCHANGED <<shared, queues, saved, claims, local, mailbox, caller, history, bounds>>

\* Mutant: BRPOP, the request is not kept in the processing list.
Forget == pending' = Front(pending) /\ UNCHANGED processing

\* Mutant: the request is copied to the processing list and stays in the queue.
Copy == UNCHANGED pending /\ processing' = <<Last(pending)>> \o processing

\* BRPOPLPUSH.
Move ==
  /\ pending' = Front(pending)
  /\ processing' = <<Last(pending)>> \o processing

\* BRPOPLPUSH, then mailbox.send_message.  When the answer of Redis is lost the
\* request stays in the processing list.
Pop(p) ==
  /\ bridge[p].pc = "pop" /\ pending # << >>
  /\ Move
  /\ LET r == Last(pending) IN
       \/ /\ Open(p)
          /\ inbox' = [inbox EXCEPT ![p] = Append(@, r)]
          /\ bridge' = [bridge EXCEPT ![p] = At("wait", r)]
          /\ UNCHANGED faults
       \/ /\ ~Open(p)
          /\ bridge' = [bridge EXCEPT ![p] = At("err", r)]
          /\ UNCHANGED <<inbox, faults>>
       \/ Fault /\ UNCHANGED <<inbox, bridge>>
  /\ UNCHANGED <<shared, reply, saved, claims, local, mail, conv, caller, history,
                 crashes, stops, scenario>>

\* write_remote_reply; after a success the bridge first asks the loop for its
\* conversation.  A failed call is ignored.
WriteReply(p) ==
  /\ bridge[p].pc \in {"ok", "err"}
  /\ bridge[p].pc = "ok" => Between(p)
  /\ bridge' = [bridge EXCEPT ![p].pc = "ack"]
  /\ \/ /\ reply' = [reply EXCEPT ![bridge[p].req] = bridge[p].pc]
        /\ UNCHANGED <<dropped, faults>>
     \/ /\ Fault
        /\ dropped' = dropped \cup {bridge[p].req}
        /\ UNCHANGED reply
  /\ UNCHANGED <<shared, pending, processing, saved, claims, local, mailbox, caller,
                 execs, recovered, forgotten, lapsed, overlapped, crashes, stops, scenario>>

\* The next round of the bridge's loop.
NextRound(b) == At("pop", None)

\* LREM processing 1; a failed call is ignored.
Ack(p) ==
  /\ bridge[p].pc = "ack"
  /\ bridge' = [bridge EXCEPT ![p] = NextRound(@)]
  /\ \/ processing' = RemoveFirst(processing, bridge[p].req) /\ UNCHANGED faults
     \/ Fault /\ UNCHANGED processing
  /\ UNCHANGED <<shared, pending, reply, saved, claims, local, mailbox, caller, history,
                 crashes, stops, scenario>>

-----------------------------------------------------------------------------
(* Callers: send_message. *)

\* The caller is in a process that has the mailbox.
AskLocal(r, p) ==
  /\ r \in Local \cap scenario.asked /\ caller[r] = "idle" /\ p \in ctl
  /\ \/ /\ Open(p)
        /\ inbox' = [inbox EXCEPT ![p] = Append(@, r)]
        /\ caller' = [caller EXCEPT ![r] = "local"]
     \/ /\ ~Open(p)
        /\ caller' = [caller EXCEPT ![r] = "err"]
        /\ UNCHANGED inbox
  /\ UNCHANGED <<shared, queues, saved, claims, local, mail, conv, bridge, history, bounds>>

\* It is in another one and the registry hash knows the agent.
AskRemote(r) ==
  /\ r \in Remote \cap scenario.asked /\ caller[r] = "idle" /\ entry # None
  /\ caller' = [caller EXCEPT ![r] = "push"]
  /\ UNCHANGED <<shared, queues, saved, claims, local, mailbox, bridge, history, bounds>>

Push(r) ==
  /\ caller[r] = "push"
  /\ caller' = [caller EXCEPT ![r] = "remote"]
  /\ pending' = <<r>> \o pending
  /\ UNCHANGED <<shared, processing, reply, saved, claims, local, mailbox, bridge, history, bounds>>

\* Mutant: a caller that gave up takes an answer that comes late.
WaitingOrLate(r) == caller[r] \in {"remote", "timeout"}

\* wait_for_remote_reply polls.
Waiting(r) == caller[r] = "remote"

\* A poll that finds the reply.
ReadReply(r) ==
  /\ Waiting(r) /\ reply[r] # "none"
  /\ caller' = [caller EXCEPT ![r] = reply[r]]
  /\ reply' = [reply EXCEPT ![r] = "none"]
  /\ UNCHANGED <<shared, pending, processing, saved, claims, local, mailbox, bridge, history, bounds>>

\* REMOTE_REPLY_TIMEOUT_SECS; the request stays where it is.
Timeout(r) ==
  /\ Waiting(r) /\ reply[r] = "none"
  /\ caller' = [caller EXCEPT ![r] = "timeout"]
  /\ UNCHANGED <<shared, queues, saved, claims, local, mailbox, bridge, history, bounds>>

-----------------------------------------------------------------------------
\* A process dies with all its tasks; Redis and Postgres keep what they have.
Crash(p) ==
  /\ Alive(p)
  /\ crashes < scenario.crashes /\ crashes' = crashes + 1
  /\ phase' = [phase EXCEPT ![p] = "dead"]
  /\ leased' = leased \ {p} /\ due' = due \ {p}
  /\ ctl' = ctl \ {p} /\ hset' = hset \ {p} /\ stopping' = stopping \ {p}
  /\ wipe' = [wipe EXCEPT ![p] = "off"]
  /\ mail' = [mail EXCEPT ![p] = "off"]
  /\ conv' = [conv EXCEPT ![p] = {}]
  /\ inbox' = [inbox EXCEPT ![p] = << >>]
  /\ bridge' = [bridge EXCEPT ![p] = At("off", None)]
  /\ caller' = [r \in Requests |->
                  IF caller[r] = "local" /\ (r = mail[p] \/ r \in ToSet(inbox[p]))
                    THEN "err" ELSE caller[r]]
  /\ UNCHANGED <<shared, queues, saved, history, faults, stops, scenario>>

Process(p) ==
  \/ Claim(p) \/ Join(p) \/ GiveUp(p) \/ Spawn(p) \/ Publish(p) \/ Renew(p)
  \/ Load(p) \/ StartTurn(p) \/ FinishTurn(p) \/ Restart(p) \/ CloseMailbox(p)
  \/ Stop(p) \/ Unregister(p) \/ WipeEntry(p) \/ WipeQueues(p) \/ CheckLease(p) \/ WipeLease(p)
  \/ Recover(p) \/ RecoverFails(p) \/ Greet(p) \/ Pop(p) \/ WriteReply(p) \/ Ack(p)
  \/ Crash(p)

Caller(r) ==
  \/ AskRemote(r) \/ Push(r) \/ ReadReply(r) \/ Timeout(r)
  \/ \E p \in Runtimes : AskLocal(r, p)

Next == Tick \/ (\E p \in Runtimes : Process(p)) \/ (\E r \in Requests : Caller(r))

Spec == Init /\ [][Next]_vars

-----------------------------------------------------------------------------
\* The lease does its work: at most one process runs the mailbox of the agent
\* and was not told to stop, unless a process that renews or wipes lost the
\* lease, and that takes LeaseTtl - 1 missed renewals.  unregister removes the
\* entry and the queues before it gives the lease back, so that it never deletes
\* what the next owner wrote.
Serving(p) == Open(p) /\ p \notin stopping
LapseNeedsMissedRenewals == lapsed => faults >= LeaseTtl - 1
SingleOwner ==
  /\ LapseNeedsMissedRenewals
  /\ lapsed \/ Cardinality({p \in Runtimes : Serving(p)}) <= 1
  /\ lapsed \/ \A p \in Runtimes : wipe[p] # "off" => lease = p

\* A turn is run a second time for a request only after a bridge that started
\* moved it back from the processing list.
ExecutedOncePlusRecoveries == \A r \in Requests : execs[r] <= 1 + recovered[r]

\* A remote request for which a caller waits is in Redis, queued, in processing
\* or answered, unless a stop wiped it or its reply could not be written.
RequestKept ==
  \A r \in Requests : caller[r] = "remote" =>
    \/ r \in ToSet(pending) \cup ToSet(processing) \cup dropped
    \/ reply[r] # "none"

\* A message answered with success is in the stored conversation, unless it was
\* given up explicitly or two mailboxes were open at the same time.
AnsweredIsSaved ==
  overlapped \/ \A r \in Requests : caller[r] = "ok" => r \in saved \cup forgotten

\* No message is lost on its way in, and no answered one on its way out.
NoMessageLost == RequestKept /\ AnsweredIsSaved

\* A bridge that starts takes a request away from a live bridge only when one
\* of the two belongs to a stopped agent, or the lease lapsed.
Handling(p, r) == bridge[p].pc \in {"wait", "ok", "err"} /\ bridge[p].req = r
StolenOnlyAroundStops ==
  [][\A r \in Requests : recovered'[r] # recovered[r] =>
       lapsed \/ \A p \in Runtimes : Handling(p, r) =>
         p \in stopping \/ \E q \in stopping : bridge[q].pc = "recover"]_vars

\* Wherever the mailbox runs, a sender sees one agent: no interleaving of owners,
\* bridges and callers runs a message twice without a recovery, answers one with
\* success that was not run, or changes an answer that was given.
Fate(r) ==
  IF caller[r] = "idle" THEN "new"
  ELSE IF caller[r] \in {"push", "remote", "local"} THEN "open"
  ELSE IF caller[r] = "ok" THEN "ok" ELSE "failed"
Promise == INSTANCE AtMostOnce WITH
  Messages <- Requests, fate <- [r \in Requests |-> Fate(r)], runs <- execs, resent <- recovered
ImplementsAtMostOnce == Promise!Spec
=============================================================================
