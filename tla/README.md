# Verification of Puff

TLA+ models of Puff (Rust under `src/src`, Python under `src/puff_py`), the TLC
runs that check them, and TLAPS proofs about them. Paths are relative to the
directory that holds `src/` and `tla/`; a bare `tasks/mod.rs` is
`src/src/tasks/mod.rs`.

Run a model with `tlc -config X.cfg MCModule` and a proof with
`tlapm Module.tla`, both in this directory. `PROJECT.json` lists the components,
the runs, the mutants (a plausible bug for every property of a passing run),
the source lines of every definition, the hazards and the findings.

## Inventory

Puff is a Rust runtime (tokio) that hosts Python programs: HTTP and GraphQL
servers, a task queue, pub/sub, database clients and an agent runtime. The
parts talk to each other through the global `PuffContext`, through channels and
through Redis and Postgres.

| Component | State | Operations | What is hard | What makes it correct |
|---|---|---|---|---|
| Task queue, `tasks/mod.rs` | Redis: queue, payloads, locks, retry counters, results; per worker: page, batch, pooled connection | `add_task`, `next_task`, `do_loop_iteration`, `finish_task` | locks that expire under a slow worker, crashes between commands, a shared pool, results that expire | at least once, no loss, one result, bounded attempts |
| GraphQL result cache, `graphql/query_cache.rs` | map of hashed requests to responses with a time | `execute`, `execute_to_bytes`, `invalidate` | a slow query overtaken by a mutation, what is in the key and what is not, eviction | answers are fresh and one's own, mutations always run |
| Pub/sub, `databases/pubsub.rs` | routing table, event channel, Redis subscriptions | `subscribe`, `unsubscribe`, Drop, the listener | a listener that dies and restarts, lost events, full channel | Redis is subscribed to what is routed |
| Postgres connections, `python/postgres.rs` | sender slot, closed flag, background task with `in_transaction` and `autocommit`, pooled session | statements, commit, rollback, autocommit, close | calls run as spawned tasks, sessions are reused, close and drop race with calls | what was promised is stored, a transaction stays with its connection |
| Supervision tree, `supervision.rs` | node map, command channels, service loops | register, spawn, stop, restart, events | check-then-act on limits, restart and backoff, partial stop, a write and its event under different locks | one future per service, limits, stop is obeyed, a watcher sees the tree |
| Agent registry, `agents/registry.rs` | entries, mailboxes, Redis lease of a named agent, processing lists | register, unregister, claim, renew, remote message, control | lease loss, late and repeated messages, reordered Redis writes | one owner, each message answered once or refused |
| Agent mailbox, `agents/mailbox.rs`, `conversation.rs`, `persistence.rs` | conversation, bounded mailbox, saved snapshot | user message, restart, stop, compaction | restart between turns, failed turns, stale snapshots | the saved conversation is what callers were answered with |
| Agent server, `agents/server.rs` | events of the tree, WebSocket sessions | start, continue, get, stop and restart of a conversation, event stream | two first messages at once, registration in steps, a slow watcher | one history, every request answered, no refusal without a cause |
| Agent turn, `agents/agent.rs`, `tool.rs`, `budget.rs`, `quota.rs` | messages of the turn, spent budget | `run_turn`, `check` and `record`, tools, `message_agent` | check before record, tool errors, iteration limit, agents that call each other | requests the model accepts, bounded loops, bounded overshoot |
| Orchestration, `agents/orchestration.rs` | results of the agents | route, chain, parallel, supervise | partial failure, results out of order | results are those of the agents, in their order |
| LLM client, `agents/llm.rs`, `provider.rs`, `streaming.rs` | models of the fallback chain, buffer of a stream | retries and fallback, parsing, collection of the answer | a stream cut anywhere, tool calls in pieces | the answer is what the model sent |
| Capabilities, skills, sandbox, `agents/capabilities.rs`, `skill.rs`, `sandbox.rs` | what an agent may do | `check_*`, scopes, globs, command lines, mounts | patterns, quoting, defaults, a check when the skill is loaded and not when it runs | a rule allows what it spells and nothing else |
| GraphQL engine, `graphql/puff_schema.rs`, `row_return.rs`, `handlers.rs` | layers of rows and their keys; connections of a context | layered resolution, authorisation, subscriptions | joining the children of all parents at once, nulls, optional fields | the answer of the row-by-row reading |
| Web, `python/wsgi`, `python/asgi`, `program/mod.rs` | request, channels of the body, threads, the GIL, the context | start-up, WSGI, ASGI, GraphQL over HTTP and WebSocket, shutdown | short channels, one GIL, clients that leave, iterables that raise, services that start too early | whole responses, everyone served |
| Values, `json/mod.rs`, conversions of the above | | to and from Python, Postgres, GraphQL, JSON | widths, types that share a form | what was written is read back |
| Python bridge, HTTP client, commands, configuration, evaluation, tracing | | forwarders, I/O and glue | | |

How they interact: `try_run` starts the services of the supervision tree, sets
the context, runs the ASGI lifespan and serves. HTTP and GraphQL handlers go
through the result cache and run SQL on Postgres connections;
`save_memory_via_context` uses a connection of its own. The pub/sub listener is
a service of the supervision tree. An agent instance is a node of that tree
whose task is the mailbox loop; the registry finds its mailbox, in this process
or through Redis; the agent server starts instances and sends to their
mailboxes; a turn in a mailbox calls the model, tools and other agents'
mailboxes. The task queue shares its Redis pool among all workers of a process.

## Modules

| Module | Models | State and actions |
|---|---|---|
| `TaskQueue` | `tasks/mod.rs` | Redis keys are sets of tasks (`queue`, `payloads`, `locked`) and functions (`retries`, `complete`); `pc`, `batch`, `cur` are the local variables of a worker. One action per Redis command, pool operation and run of the task's function; `Abort` (a crash or a failed command), `AddFails`, `CountFails`, `PoolTimeout` and the expiries are the faults. Callers and workers share the pool. |
| `AtLeastOnce` | the promise of the queue | accepted tasks, runs and results; `TaskQueue` implements it (`ImplementsAtLeastOnce`). |
| `AtMostOnce` | the promise of an agent to those who write to it | `fate` is what the sender knows, `runs` the turns of a message, `resent` its recoveries; `NamedAgent` implements it (`ImplementsAtMostOnce`). |
| `QueryCache` | `graphql/query_cache.rs` | `cache` is the map, keyed by the two hashes; a client looks up, executes against a version of the data, and stores; a mutation is executed and then clears the map. `who` is the `auth_obj` of a request, which the execution sees and the key does not. |
| `PubSub` | `databases/pubsub.rs` | `keys` and `subs` are the routing table, `events` the channel, `linkUp`, `subscribed` the Redis connection; the listener connects, subscribes again, then serves events and messages, and dies with the first error. |
| `PgConnection` | `python/postgres.rs`, the constructor of `puff/postgres.py`, the connection of `memory.rs` | a call passes through the stages of its spawned task (`EnsureSender` or `ReadSlot`, `Send`, answer); a background task is named by the call that spawned it and serves one `DbOp` per action; sessions, COMMIT and the pool are external. |
| `Supervisor` | `supervision.rs`, the node side of `mailbox.rs` | `state`, `parent`, `restarts` are the node map; a request takes one lock per action; a service loop has a `pc`, `alive` counts its running futures and `handle` is the one the loop awaits. |
| `TreeEvents` | the writes and the events of `supervision.rs`, the event stream of `agents/server.rs` | `record` is what is kept of a node; whoever changes one follows a `plan` of writes, and between a write and its event (`emitting`) drops the lock, reads the node and sends, three steps; `feed` is the broadcast, `view` what a client takes the tree for. |
| `NamedAgent` | `agents/registry.rs`, `agents/runtime.rs`, the loop of `mailbox.rs`, `persistence.rs` | `lease`, `ttl`, `entry`, `pending`, `processing`, `reply` are the Redis keys, `saved` the row in Postgres; per process, `phase` is the registration, `mail`, `conv`, `inbox` the mailbox loop, `bridge` the remote bridge, `wipe` and `hset` the tasks that `unregister` and `register` spawn. One action per Redis or Postgres call; a process that starts again is another member of `Runtimes`, with a new `owner_id`. |
| `AgentTurn` | `agents/agent.rs`, `tool.rs`, `registry_tool.rs`, `budget.rs`, `conversation.rs`, retries of `llm.rs` | per worker `conv` (the messages sent to the model), `pc` and `round` of `run_turn`, `llm` (model and attempt of the call under way), `todo` (tool calls of the answer), `box` and `asker` (its mailbox); `used` is the shared budget. One action per check, call, attempt, tool and record. |
| `Orchestration` | `agents/orchestration.rs` | extends `AgentTurn`: `job` is how far the pattern has come; its agents' turns interleave. |
| `ConversationServer` | `agents/server.rs`, the registry without Redis, the loop of `mailbox.rs`, `persistence.rs`, the limits of `supervision.rs` | `at` is where the handler of a request stands, one action per await or lock; `node`, `entry`, `mailbox` are the tree and the registry, `others` the dynamic nodes of other supervisors, `task`, `queue`, `orders` the loop of an instance, `saved` the rows. |
| `WebServer` | `python/wsgi`, `python/asgi`, `graphql/handlers.rs`, `python/mod.rs`, `program/mod.rs`, `context.rs` | `boot`, `set`, `early`, `workers`, `pubsub` are the start, with the mutex of the context as `set`, which a panic poisons; per request `conn` is the handler, `py` the call into Python, `out` and `chan` what is on its way to the client; `gil` and `stuck` are who holds the GIL and who waits for it on a worker of tokio. An application is the sequence of things it does and of items it gives. |
| `LayeredQuery` | `graphql/puff_schema.rs`, `row_return.rs` | `Resolve`, the layered execution; `RowByRow`, the reference. |
| `ValueConversions` | arguments and results of `puff_schema.rs`, `row_return.rs`, parameters and columns of `postgres.rs`, `json/mod.rs` | operators from one side's values to another's; integers keep their width. |
| `LlmStream` | `streaming.rs`, `provider.rs`, `collect_chat_response` of `llm.rs` | the parser, the chunks of both providers, the answer, the messages of a request. |
| `AgentRules` | `capabilities.rs`, `skill.rs`, command lines of `tool.rs`, `sandbox.rs` | reading and writing of capabilities, `check_*`, globs, scopes, the tools a skill registers and the lines their calls run (`HowToRun`), mounts. |

`<Module>Proofs` holds the theorems about a module and the invariants they rest
on: `TaskQueueProofs`, `QueryCacheProofs`, `PubSubProofs`, `PgConnectionProofs`,
`SupervisorProofs`, `NamedAgentProofs` and `WebServerProofs`. `SupervisorProofs`
is about `Supervisor`, in its first part, and `TreeEvents`, in its second;
`AgentsProofs` about `AgentTurn` and `Orchestration`, and then about
`ConversationServer`.

`MC<Module>` instantiates a module for TLC and holds its constants. Three of
them put modules side by side that share no state in the models, and a behaviour
is of one of them: `MCData` has `PgConnection`, `QueryCache` and `TreeEvents`,
`MCServices` has `Supervisor` and `PubSub`, `MCAgents` has `Orchestration` and
`ConversationServer`. `MCAlgorithms` enumerates the cases of the last four
modules. Those four use recursive
operators and are for TLC only. Definitions whose comment begins with `Mutant:`
are the bugs the properties are tested against; no specification uses them.

## What the runs check

Bounds are constants of the modules, named in their declarations.

**Task queue.** `task_queue` has two workers, two tasks (one of them not
decodable), one crash or failed command, one retry before the dead letter and a
page of one task, so that paging, the dead letter, expiry under a running task
and a crash between any two commands all occur. It checks that an accepted task
is queued with its payload until a result is recorded (`NoTaskLost`), that two
workers run a task together only after a lock expired (`OverlapOnlyAfterExpiry`),
that attempts are bounded (`StartsBounded`), the refinement
`ImplementsAtLeastOnce`, which says among other things that a result is not
replaced, and that every task settles (`EveryTaskSettles`). The pool has three
connections for two workers and their callers: with two, both workers can hold one
and need another to record an undecodable task, and wait for each other until both
give up. `task_queue_starved` has one connection,
which the idle worker keeps, and finds a task that never settles.

**What a client is told.** `data` has three sides.

- *Result cache.* Two clients with two users make five requests: a query, the
  same with other variables, one that collides with it, a mutation, and a
  mutation that begins with a fragment. The map holds one entry, so that a second
  one empties it, the lifetime is one tick and the data changes twice.
  `AnswersExplained` says that an answer is older than the last mutation only
  when the query that stored it was overtaken, and then for no more than the
  lifetime; that a mutation is skipped only when its text hides it; and that what
  was executed for another request, or another user, is given only out of a live
  entry under the same key. `CacheBounded` holds whatever the clients do at the
  same time. `cached_mutation` takes the document of the module at its word, that
  mutations are never cached, and finds one that is.
- *Postgres.* Two connections take turns on one session, with four calls and one
  fault (a lost session or a failed `pool.get`). One session is the interesting
  case: everything one connection leaves behind is found by the other. A statement
  succeeds, is refused by the server, or stops in the client before it is sent.
  The flag of the task is the state of the server (`FlagMatchesServer`), what was
  answered as stored is stored and what was rolled back is not (`AnswersHold`),
  and only an abandoned transaction reaches another connection
  (`TransactionsStayApart`). `pg_connection_live` adds a connection shared by
  threads, `executemany`, and `close_conn`, with three calls, and checks that
  every call is answered (`EveryCallAnswered`). `pg_connection_saver` is a finding.
- *Events.* A node with a task of its own, a node without one, which two requests
  insert, stop and restart, a broadcast of two events and three changes: two
  writers can cross, and a third event makes the watcher lose one.
  `WatchersKeepUp`: who has received all there is sees each node as it is, unless
  he was warned of a loss, or two requests changed a node without a task at once.

**Services.** `services` has two sides; together they have 262 275 states.

- *Supervision.* Two concurrent requests, three in all, a static and a dynamic
  supervisor, two instances and a permanent service (the only policy the code
  registers), with limits of one child and two dynamic nodes. The service's future
  ends and fails without bound; restart counts saturate at one, which is enough to
  tell a counted round of the loop from an uncounted one. Two requests at a time
  are the race on the limits; the third stops or restarts what they left. Limits
  are passed only by a race (`OverrunOnlyByRace`), a service has one future and
  every failure is counted (`OneFuturePerService`), what is stopped stays stopped
  (`StopIsObeyed`), and a failed service runs again (`FailedServiceRestarts`).
- *Pub/sub.* Two connections, two channels, three calls and two broken Redis
  connections, with a channel of two events. `RoutingFollowsCalls`: the table,
  brought up to date with the queued events, is what the accepted calls say, up to
  events that were lost with a listener, and Redis is subscribed to the keys of the
  table when the listener is in its loop. `SubscribeTakesEffect`: an accepted
  subscribe takes effect unless it was lost.

**Named agents.** `named_agent` has two processes (a third would repeat the
second) and three messages, and a lease of two renewal periods: one missed
renewal loses it, as two do with the 30 s and 10 s of the code. `Scenarios`
bounds which mishaps come together: a remote message with a crash, a failed
call and a stop; a remote and a local message with a crash and a failed call,
or with a crash and a stop; two remote messages with a crash. No more than one
process that was not stopped runs the mailbox unless a process lost its lease,
which takes missed renewals, and the wipe of a stopped agent ends before the
next owner begins (`SingleOwner`); a message runs twice only after a bridge
moved it back (`ExecutedOncePlusRecoveries`), and a bridge takes one from
another live bridge only around a stop (`StolenOnlyAroundStops`); nobody waits
for a message that is nowhere, and what was answered is saved (`NoMessageLost`).
For its sender all of this is one agent: `ImplementsAtMostOnce` is the refinement
of `AtMostOnce`, where a message runs once and once more for each recovery,
success is told only of a message that was run, and the first answer is the last.
A message is new until it is asked, open while its sender waits, here or for a
reply in Redis, and then answered or failed; a stop or a crash fails all the
local messages of a mailbox at once.

**Agents.** A behaviour of `agents` is of one of two sides, which share no
state in the model: the server takes a turn for one step.

- *Turns.* Two workers share a budget of two tokens and two tool calls, or work
  for a chain, a parallel group, a router or a supervisor; one may call the
  other's mailbox; the model answers with a text, nothing, one call of an agent,
  or a known and an unknown tool; it fails with and without a retry, a model
  with one retry has one model to fall back to; two rounds are the limit, and
  windows are none and two messages. Two rounds are enough to reach the limit
  with and without calls left; two tokens are passed by two calls at once.
  `RequestsHoldTogether`: in every request each tool call is followed by its
  results, with the window as the only exception. `BudgetOverrunIsBounded`: by
  what is under way at once. `ResultsFollowOrder`: what an orchestration reports
  is what its agents said, in their order. `EveryTurnEnds`: unless agents wait
  for each other in a circle.
- *Server.* Three requests to one, two or three conversations in ten scenarios,
  which are the operations that meet: two first messages, a stop or restart (by
  node and by registry target) with a message, three conversations at once, a get
  beside a first message, an unknown agent; with and without a database, with one
  fault of the database or one crash. The room of the supervisor and of the
  mailbox are scaled from 1024 and 32 to 2 and 1, and that of dynamic nodes, of
  all supervisors together, from 256 to 2: in the scenario of three conversations
  another supervisor may take one of them, so that each limit refuses somebody.
  `HistoryIsKept`: what was answered is in the history and, with a database, in
  the row, unless the conversation was restarted or the database failed.
  `RefusalsAreExplained`: every refusal has its cause, and of a full tree only the
  nodes that somebody asked for. `EveryRequestIsAnswered`.

**Web.** `web` has a program that starts, with one worker of tokio or two, with a
listener to wait for or not, and two requests at once. One worker is enough to
wait for the GIL with none left; with two, or with a listener, one request is
rejected and the other a query, since the start is what differs. Python is built
with or without a GIL, channels have room for one part and the body limit is one
frame. The applications are those of the code's cases: WSGI applications that start early,
late, twice, use Puff, give a header that is not ASCII, or an iterable with items
that raise, are no parts, or raise for ever; ASGI ones that receive, drain, send no
start, a second one or a foreign message; GraphQL requests that are rejected, with
a rejection that becomes a response or one that does not; and subscriptions whose
acceptor ends or fails. Clients leave at any time: 165 632 states. What is read
is a beginning of the body that was meant, part by part, and all of it when the
response ends well (`ResponsesAreWhole`). Meant are the parts of the iterable, in
their order, without the items that raise or are none, or the parts that an ASGI
application sends behind a start that comes first, up to the last one or to any
other message, where the forwarder stops. An error is the application's doing, and
what is rejected is not executed unless its rejection cannot be built
(`OnlyBadAppsFail`). The program comes up or fails, and who waits is served
(`EveryoneIsServed`), but for the waits named `Forgotten`, `Wedged`, `Spins` and
`NeverReady`.

**Algorithms.** A state of `algorithms` is one input, and no step changes it.
Queries have two levels of selections below two parents and two rows of children, each present, None, or with a null, equal or foreign key; values
are nested twice and reach every boundary of the integers, scaled to 2, 4 and 8;
streams are the events of a provider, which end anywhere and arrive in two
pieces with the cut at most six symbols before the end (a longer second piece
only adds complete events); conversations have up to three messages; patterns and texts of
rules have up to four symbols, and the commands of skills a placeholder and up to
two arguments; these are 467 883 states.
`LayersAgree`: the layered answer is the row-by-row one. `ValuesReadBack` and
`ParamsArrive`: a value that is accepted is read back, or changes as the module
names. `ConversationCrosses`: an answer is the same wherever the stream is cut,
and a request tells the model the whole conversation. `RulesMeanWhatTheySay`:
what a capability, a scope, a command line or a sandbox allows is what it spells,
and a skill runs nothing but its declared commands, filled in with the words of the
call, each of which was allowed as it is declared. `skill_commands` asks that what
runs be allowed, as the design of the agent runtime promises, and finds a command
whose placeholders or flags make it another.

The type invariants are in the proof modules, where the proofs rest on them
(`TypeInv`); `TaskQueue` and `TreeEvents` state their own, `TypeOK` and
`TreeTypeOK`.

## Fairness

- Tokio polls every task that can run: weak fairness of the workers, listeners,
  loops, calls, requests, handlers and instances.
- Redis expires keys and ends pipelines, a task's function returns, a provider
  answers or fails, a tool ends, and bb8's `pool.get` gives up: weak fairness of
  those actions.
- `tokio::select!` picks among its ready branches at random: strong fairness of
  reading a command in the service and instance loops.
- A web client that stays sends its body and reads.
- Nothing is assumed about programs (calls, drops, first messages, stops),
  faults, or the order in which concurrent tasks run. The listener retries its
  connection until it gets one: the bound on faults is the assumption that Redis
  stays up in the end.

## Findings

| Run | What it shows |
|---|---|
| `task_queue_starved` | with as many idle workers as pooled connections, `finish_task` gets none and the task is run again and again |
| `pg_connection_saver` | a saved memory is never committed, and its session returns to the pool inside the transaction |
| `cached_mutation` | a mutation behind a fragment is cached, and for 5 s its repetition is answered without being executed |
| `skill_commands` | the permissions of a skill are compared with the command as declared; what runs is filled in and has flags added, and is not looked at again |

`PROJECT.json` quotes, for each, the line of the repository it contradicts.

More divergences are exceptions in the properties of the passing runs instead of
runs of their own:

- a slow query puts the data from before a mutation back into the cache; two
  requests with equal hashes share an answer, where `query_cache.rs:31` says that
  one of them is executed again; and the `auth_obj` that `handlers.rs:166-173` gives
  to an execution is not in the key, so users of one schema share the answers of
  equal requests (`AnswersExplained`);
- two requests that stop or restart a node without a task at once may send its
  events in the other order, and a watcher keeps the older one (`crossed` in
  `WatchersKeepUp`; no lock spans a write and its event);
- a subscribe that returned true is lost with the events of a listener that dies
  (`lost` in `SubscribeTakesEffect`), and a Redis connection that was closed is
  noticed only when the next event needs it;
- on a connection that threads share, a statement that races with `close()`
  opens a task nobody closes (`Shared` in `TransactionsStayApart`, which
  `data` checks without shared connections);
  `PostgresConnection(autocommit=True)` does not reach the task;
- concurrent spawns overrun the limits of children, which `supervision.rs:837`
  tests with one caller (`racing` in `OverrunOnlyByRace`).

The models make more behaviours visible that no document speaks of. An
exception in a property, or a case of it, names each of them where it matters.

- *Named agents*: a mailbox and its bridge go on after the lease is lost; the
  bridge of a stopped agent goes on popping the queue and answers the messages
  of the next owner with an error; a process that boots within 30 s of a crash
  finds the entry of the dead owner, joins it and never claims; an owner that is
  stopped in the middle of a turn saves its conversation over the one the next
  owner has loaded; a conversation that fails to load is replaced by a new one,
  which is saved over it.
- *Agent server*: node ids are never removed, so a stopped conversation is
  refused until the process ends; a restart while the entry is gone leaves an
  entry without a mailbox, and an entry is without one for a moment when it is
  put in and taken out; `bump_restart_count` sends no event.
- *Turns*: agents of a parallel group are rebuilt with a budget of their own,
  and the supervisor's own calls have none; it delegates to workers that are not
  visible, and a router takes any index of the list; agents that message each
  other in a circle wait for ever, as no call has a time limit; a stream that
  ends without its last event counts as an answer and a broken one is not
  retried; the OpenAI request drops tool results that are blocks of a user
  message.
- *Rules*: `check_sql`, `check_http`, `check_filesystem` and `check_agent` have
  no caller but tests; a pattern that begins with `**` accepts any end, and the
  leftmost search misses matches; what is not a string is read as an empty one;
  any list of URLs gives a sandbox the whole network.
- *Web*: `is_puff_context_ready` asks for the cell of its own thread, so the wait
  for the context ends at once, and a service that looks for the context before it
  is set panics with the mutex in its hand: the mutex is poisoned, the `unwrap` of
  `program/mod.rs:455` panics on the main thread, and the program is over. A task
  of the queue that does so dies in its `JoinSet` and is respawned there
  (`tasks/mod.rs:545-557`), without the supervisor; the mutex is poisoned all the
  same. On a runtime of one worker the main thread waits for the listener of
  pub/sub, which waits for the worker (`NeverReady`). With a free-threaded Python
  the threads of the pool never have a context.
  A WSGI generator waits for ever (`Forgotten`); the GIL is kept while a part waits
  for room in its channel, and with every worker waiting for the GIL nothing moves
  (`Wedged`). An item of the iterable that raises is passed over, like one that is
  neither bytes nor str, and an iterator that raises each time is asked for ever
  (`Spins`). `close()` is not called, a second `start_response` is refused, and a
  header that is not ASCII makes a 500. A rejection that is no response lets its
  request in.
  An ASGI application is run to its end before its response is read, and after
  the body it is told that the client left, who did not; a message that is not
  part of the body truncates it. A batch of GraphQL requests runs the first;
  subscriptions do not close the connection of their context and nobody hears of
  their acceptor's errors. The lifespan has no end when ctrl-C stops the
  program, and a port that is taken is a success.
- *Values*: integers of `@sql` parameters wrap at 32 bits; a datetime a
  producer returns recurses without end; INT2 and FLOAT4 columns panic in
  GraphQL; bytes and tuples become `{}`, a null in a list of integers 0, NaN a
  NULL; text that looks like a UUID is stored as one.

## What is proved

Each proof module states an inductive invariant as a conjunction of named parts,
shows that `Init` implies it and that every step keeps it, with one step of the
proof per action, and derives the properties. All theorems are about every value
of the constants that the module's assumption admits; TLC has looked at each
invariant on the constants of a run before it was proved. The invariants say more
than the properties because a property speaks of the state in which something has
gone wrong, and the steps that lead there have to be excluded one by one.

**Task queue.** `TaskQueueProofs` proves, for any number of tasks, workers,
connections, faults and retries, from `TaskQueueAssumption` (the types of the
constants and `PoolSize`, `TasksPerLoop` and `MaxRetries` as the module states
them):

- `SpecTypeOK`, with `BaseInv`: the types alone are not inductive, because a
  worker's batch must hold tasks that were accepted (`Provenance`) for the
  refinement.
- `SpecOverlapOnlyAfterExpiry`, with `LockInv`: a worker whose lock never
  expired still has it in Redis, so another `SET NX` of its task fails. Without
  this conjunct the property says nothing of the worker that is about to claim.
- `SpecStartsBounded`, with `StartInv`: every start was counted by INCR or is
  among the starts whose INCR failed.
- `SpecQueuedHasPayload` and `SpecNoTaskLost`, with `QueueInv`: a task is in the
  queue or recorded and never both, its payload is there from before the ZADD,
  and a result exists only when it was recorded.
- `SpecImplementsAtLeastOnce`: the safety part of the refinement, from the same
  invariants with `PromiseStep`; every step of the queue is a step of
  `AtLeastOnce` or a stutter.

**Result cache.** `SpecAnswersExplained` needs that the cached entries are as
well explained as the answers (`CacheInv`: an entry of one that no mutation
overtook is not older than the last mutation that returned, and it was executed for
a request with the hashes it is kept under, whoever asked) and what a request knows
at each place of its course (`CourseInv`). `SpecCacheBounded` rests on
`BoundInv`: the budget is looked at under the lock under which the entry is put
in. Assumed are typed constants, at least one request and one user, and hashes that
are defined for all requests; they may collide in any way.

**Pub/sub.** `SpecRoutingFollowsCalls`, with `TableInv`: what the listener still
has to ask Redis, added to what its connection is subscribed to, is the table, in
every place where the connection may break (`RedisInv`), and the events replayed
over the table give the calls (`TableFollowsCalls`). `Buffer` is at least one.

**Postgres.** `SpecFlagMatchesServer`, `SpecAnswersHold` and
`SpecTransactionsStayApart`. A session is the pool's or one task's, and the flag
and the remembered writes of a task are those of its session (`SessionInv`); a
write is made by one answered call and is in one place: held by one session,
stored or undone (`WriteInv`). For `TransactionsStayApart` it takes the whole
course of a connection: a private one has one call at a time besides its closes,
and a task of it that has a transaction to end, or a statement to begin one, stays
in the slot until a close or release is on its way to it (`CallInv`, `CloseInv`);
what another connection finds in a session was abandoned (`ApartInv`). Sets of
connections and sessions and the number of calls are arbitrary; `Shared` is any
set of connections.

**Supervision.** `SpecOneFuturePerService` and `SpecOverrunOnlyByRace`.
`ServiceInv` gives for each place of the loop how many futures there are, what
the loop holds and how the starts relate to `restart_count`. For the limits, the
requests that passed the check and have not inserted are pledges: the children
and the pledges exceed the limit by no more than the overlaps counted in `racing`
(`LimitInv`), and a step that counts must find finite sets, so the tree and the
requests in flight are finite although the names need not be (`FiniteInv`,
`PresentInv`). The assumption says that names of services, supervisors, instances
and the root are different, which the code enforces by refusing a node id that
is there.

`SpecWatchersKeepUp` is about `TreeEvents`, for any set of nodes and requests,
any number of changes and an event channel of at least one. `Told`: the last word
on a node, among the unread events or in the view, is its record, or somebody has
still to tell of it, or its last event was lost, or it was crossed. To keep that
through the steps between a write and its event takes that no plan ends with a
write that is not announced (`PlansInv`), that a node with a task has one writer at
a time (`OwnersInv`), that what was read and not yet sent is the record of a node
that was not crossed (`ReadsInv`), and that the watcher of a lost event is warned or
about to be (`LossInv`).

**Named agents.** `SpecSingleOwner`: unless it lapsed, the lease is with the
process that renews it or wipes (`PlaceInv`, `LeaseInv`).
`SpecNoMessageLost`: `KeptInv` follows a message from the pending list to its
reply, and `SavedInv` says that the conversation of the open mailbox holds all
that is stored, so no save takes an answer back, unless two mailboxes were open
at once. `SpecExecutedOncePlusRecoveries`: every place a message is in leads to
one more execution at most; `OnceInv` counts the places by injections into 1..n,
which needs no finite set of processes. `SpecStolenOnlyAroundStops` is an action
property: both bridges would hold the lease. `SpecImplementsAtMostOnce` is the
refinement, step by step (`PromiseStep`). It needs that an answer finds its
sender open (`AnswerInv`): a message in a mailbox has one sender that waits, the
bridge of the process or a local caller (`OwedInv`); a local caller's message is
in one mailbox and nowhere in Redis (`LocalInv`); a channel holds no message twice
(`ChannelInv`); and success on its way out, in the bridge or the reply, is of a
message that was run (`RanInv`). Requests are the union of remote and
local ones and are not names of phases; nothing is assumed about `Scenarios` but
its type.

**Turns and orchestrations.** The first part of `AgentsProofs` is about the turns
as they run under an orchestration, all patterns included. `SpecRequestsHoldTogether`:
`SoundInv` states at every point of a turn that each tool call is followed by
its results but for those still to come, and that results without a call come
first, where the window cut; the append and the cut are lemmas about sequences.
`UserInv` and `AskInv` give the unanswered messages and the end of a request.
`SpecBudgetOverrunIsBounded` counts the calls under way, of which there is one
for each worker. `SpecResultsFollowOrder`: agents before the stage of a chain
have answered and those behind it are idle (`ChainInv`); the results of a
parallel group are those of a prefix of the list (`ParallelInv`). Assumed are
finitely many workers, a boss that is none of them, a list of different workers
that is not empty, and answers whose tool calls are a sequence.

**Agent server.** In the second part of `AgentsProofs`: `SpecHistoryIsKept` and
`SpecRefusalsAreExplained`. The messages in a mailbox are waiting requests of that
conversation, each once, and the one at work is the last of the history
(`QueueInv`, `TurnInv`); a history only grows, is loaded from a row, or is
emptied by a restart that somebody asked for (`HistInv`, lemma `HistoryMoves`).
For the refusals, each thing that is in a client's way is traced to a request:
orders in a channel and a closed mailbox to an order (`OrderInv`), an entry
without a mailbox to a stop, a restart or a registration under way (`TreeInv`),
a node or supervisor that was not there before to a rival (`RivalInv`), and a
tree that is full, by either limit, to the conversations asked for and the most
nodes that others had. Such causes stay causes,
whatever happens next (lemma `GoesOnKeeps`). Assumed are finitely many
conversations and typed scenarios; what is asked, in what order and by how many is
free.

**Web.** `SpecResponsesAreWhole` and `SpecOnlyBadAppsFail`, for any number of
requests and workers, channels of any length and all applications that do what
`MayCall` lists and give what `MayGive` does (`WebAssumption`). The invariant is one of each request
(`RequestInv`), since requests share only the workers and the GIL, which the two
properties do not depend on. `Place` says where the application, its thread and
the client stand at each place of the handler; `Intake` that the frames read, at
hand and still to come are those of the request, so that nobody is taken for gone
before his body was read; `Causes` traces each failed call and each refusal to a
step of the application, a body or the build. For the body, `Outbox` says that what
was sent waits in the order of the calls and that nothing sent is missing, and
`Bodies` that the parts read, followed by those in the channel, begin what is
meant. How they go on differs: a pump of WSGI or of a subscription has put through
exactly the parts among the items before the one it is at (`Pumped`), while the forwarder of ASGI
has taken a start from the outbox and then one part after another, so that a part
is with the client, in the channel or still in the outbox (`Forwarded`). That the
end is whole (`Covers`) follows when the forwarder meets the last part, a foreign
message or an empty outbox of an application that returned.

What the proofs corrected:

- `SupervisorAssumption` had not said that the kinds of nodes are disjoint.
- `BudgetOverrunIsBounded` was stated for all turns, and is true of those charged
  to the shared budget: the agents of a parallel group have budgets of their own.
- `RefusalsAreExplained` excused a full tree by the number of conversations there
  might be; it now takes that more of them were asked for than there is room, for
  the limit of the supervisor and, with the nodes of others, for that of the tree.
- `ResponsesAreWhole` had counted the parts behind a second `http.response.start`
  among those meant; the forwarder ends the body at any message that is not
  `http.response.body`, and `web` now has such an application.

Only model-checked:

- all liveness properties, which are temporal formulas with fairness and ENABLED
  beyond the prover: `EveryTaskSettles`, `SubscribeTakesEffect`,
  `EveryCallAnswered`, `StopIsObeyed`, `FailedServiceRestarts`, `EveryTurnEnds`,
  `EveryRequestIsAnswered`, `EveryoneIsServed`;
- the four algorithm modules, whose recursive operators the prover cannot reason
  about by induction.

## What is abstracted or not modelled

Payloads, SQL text, messages and responses are model values or absent, except
where a conversion is the subject; durations are ticks or nondeterminism
(backoff, lock times, pool timeouts). `PgConnection` has no SQL that begins or
ends transactions itself, and a statement is a write. `Supervisor` lets siblings
stop in any order. `NamedAgent` has one agent and no control queue (a stop comes
at any time), leaves out the copy of the conversation in Redis, and never
expires a reply. Nor does it have pushes and polls that fail (they answer errors), a wipe that
succeeds in part, or a bound on its inbox (32 in the code). In
`ConversationServer` a turn is a step that succeeds or fails, and the
supervisor of the conversations is never stopped. `TreeEvents` keeps the state and
the restart count of a node: its list of children changes without an event of its
own. In `AgentTurn` what a tool
returns does not matter, and a
call of the model costs one token. `LlmStream` compares neither the reason a model
gives for its end nor its count of tokens, and a stream that breaks is one that
ends. `WebServer` has no headers but a good one and one that is not ASCII, and one
frame is one part of a body; requests that the GraphQL extractor refuses do not
reach its handler. Who raises for ever keeps the GIL there, as an iterator written in
C does (`map(int, repeat("x"))`); one written in Python gives it up from time to
time. `AgentRules` leaves out `requires_approval`.

Not modelled: evaluation, tracing and the SQL tool, which are sequential helpers
without shared state; the HTTP client, the server's listings, the commands and
the configuration, which are I/O and glue; the construction of the GraphQL
schema from Python classes and its serializer; `quota.rs`, whose permits nothing
acquires; Python agents, which take a whole turn over, and the event loop that
runs them (`puff.asyncio_support` is imported and absent from the repository);
wasm hosting and the reading of skill files; `tools_module`; a tool that runs
into its time limit, whose process goes on; forwarders such as
`python/redis.rs`. The components and their
status are in `PROJECT.json`.

## Plan

Everything of the inventory with a protocol is written, every safety and action
property of a protocol is proved, and two components are shown to implement an
abstract specification. Left to model: the control queue of the registry,
`spawn_runtime_child`, agents written in Python.
