------------------------------ MODULE WebServer ------------------------------
(***************************************************************************)
(* The HTTP server: how a program starts (program/mod.rs, context.rs,      *)
(* python/asgi/mod.rs), and how a request passes through WSGI              *)
(* (python/wsgi/), ASGI (python/asgi/) or GraphQL (graphql/handlers.rs),   *)
(* with the threads it takes: the workers of tokio, which wait for the GIL *)
(* where they stand, the threads of Python, and the client that reads the  *)
(* answer or leaves.                                                       *)
(*                                                                         *)
(* An application is what it does: `call' the steps of the call, `items'   *)
(* those of the iterable a WSGI call returns or of the acceptor of a        *)
(* subscription.  The steps are                                            *)
(*   start, more, last, other   what it sends, the parts of the body       *)
(*                              numbered by their place                    *)
(*   receive, drain             it receives one message, or all until it   *)
(*                              is told that the client is gone            *)
(*   puff, raise, reject        it uses Puff, fails, or refuses a request  *)
(*   misreject                  it refuses it, in a way that is no response *)
(*   odd, forever               an item that is no part, and one that       *)
(*                              raises however often it is asked for        *)
(***************************************************************************)
EXTENDS Integers, Sequences, FiniteSets, SequencesExt

CONSTANTS
  Requests,
  Workers,      \* how many workers tokio may have
  Apps,         \* Requests -> what each may meet: [kind, head, frames, call, items]
  Builds,       \* of Python: subset of {"gil", "free"}
  WsgiRoom, AsgiRoom, BodyLimit   \* of the channels and of the buffered body

Sending == {"start", "more", "last", "other"}
MayCall(kind) ==
  CASE kind = "wsgi" -> {"start", "puff", "raise"}
    [] kind = "asgi" -> Sending \cup {"receive", "drain", "puff", "raise"}
    [] OTHER -> {"puff", "raise", "reject", "misreject"}
MayGive(kind) ==
  CASE kind = "wsgi" -> {"start", "more", "odd", "raise", "forever"}
    [] kind = "sub" -> {"more", "raise"}
    [] OTHER -> {}

ASSUME WebAssumption ==
  /\ Workers \cup {WsgiRoom, AsgiRoom, BodyLimit} \subseteq Nat
  /\ \A r \in Requests : \A a \in Apps[r] :
       /\ a \in [kind : {"wsgi", "asgi", "gql", "sub"}, head : {"good", "path", "header"},
                 frames : Nat, call : Seq(MayCall(a.kind)), items : Seq(MayGive(a.kind))]
       /\ a.kind \in {"gql", "sub"} => a.head = "good"

VARIABLES
  build,      \* the build of Python
  workers,    \* of tokio; with one, the main thread is that one
  pubsub,     \* the program has a listener to wait for
  boot,       \* how far the program has come
  set,        \* the mutex in which the threads look for the context: unset set poisoned
  early,      \* the service started before that: none ready failed runs
  app,        \* Requests -> what the request meets
  conn,       \* Requests -> the handler: new buffering environ app answered upgraded
              \*             body over gone
  client,     \* Requests -> here, left
  intake,     \* Requests -> the body: [coming, waiting, read]
  told,       \* Requests -> the app was told that the client has left: no message, no reader
  py,         \* Requests -> the call: [state, at], idle running ok failed
              \*             rejects misrejects lost
  out,        \* Requests -> messages the app has sent, not yet read
  fed,        \* Requests -> nothing more will be put in the channel
  chan,       \* Requests -> parts of the body on their way
  got,        \* Requests -> parts the client has
  status,     \* Requests -> of the response
  done,       \* Requests -> the client has seen its end
  database,   \* Requests -> the connection of a GraphQL context: none open closed
  gil,        \* who holds it across a wait
  stuck       \* tasks that occupy a worker until they have the GIL

vars == <<build, workers, pubsub, boot, set, early, app, conn, client, intake, told, py, out, fed, chan, got,
          status, done, database, gil, stuck>>
bootVars == <<boot, set, early>>
fixed == <<build, workers, pubsub, app>>

-----------------------------------------------------------------------------
(* Start: clients, context, services, and only then the mutex in which the *)
(* threads of tokio look for the context.                                  *)

\* A runtime of one worker runs its tasks where main waits for them, so none
\* while main waits for the listener to be ready.
StartServices ==
  /\ boot = "building" /\ (pubsub => workers > 1)
  /\ boot' = "services"
  /\ early' = "ready"
  /\ UNCHANGED <<set, fixed, conn, client, intake, told, py, out, fed, chan, got, status, done,
                 database, gil, stuck>>

Over == {"failed", "stopped", "panicked"}   \* the process has ended
ServiceRuns == boot \notin Over /\ (workers > 1 \/ boot # "services")

\* with_puff_context on a worker, by a task that dispatches what it found in its
\* queue: it panics with the mutex locked, and again when it finds it poisoned.
\* run_task_workers spawns another in its place.
ServiceUsesContext ==
  /\ early = "ready" /\ ServiceRuns
  /\ IF set = "set" THEN early' = "runs" /\ UNCHANGED set
     ELSE early' = "failed" /\ set' = "poisoned"
  /\ UNCHANGED <<boot, fixed, conn, client, intake, told, py, out, fed, chan, got, status,
                 done, database, gil, stuck>>
ServiceRestarts ==
  /\ early = "failed" /\ ServiceRuns
  /\ early' = "ready"
  /\ UNCHANGED <<boot, set, fixed, conn, client, intake, told, py, out, fed, chan, got, status,
                 done, database, gil, stuck>>

\* Main takes the lock with an unwrap of its own.
SetContext ==
  /\ boot = "services"
  /\ IF set = "poisoned" THEN boot' = "panicked" /\ UNCHANGED set
     ELSE set' = "set" /\ boot' = "lifespan"
  /\ UNCHANGED <<early, fixed, conn, client, intake, told, py, out, fed, chan, got, status, done,
                 database, gil, stuck>>

\* The lifespan of ASGI: the app completes its startup, fails it, or ends
\* without an answer, which counts as support enough.  A port that is taken
\* takes the server through its shutdown at once.
Lifespan ==
  /\ boot = "lifespan"
  /\ boot' \in {"serving", "failed", "stopping"}
  /\ UNCHANGED <<set, early, fixed, conn, client, intake, told, py, out, fed, chan, got, status,
                 done, database, gil, stuck>>
LifespanShutdown ==
  /\ boot = "stopping"
  /\ boot' = "stopped"
  /\ UNCHANGED <<set, early, fixed, conn, client, intake, told, py, out, fed, chan, got, status,
                 done, database, gil, stuck>>

-----------------------------------------------------------------------------
(* Threads. *)

Busy == Cardinality(stuck)
Held == build = "gil" /\ gil # "nobody"
\* A task runs on a worker, the one it waits on included.
Task(t) == boot = "serving" /\ (t \in stuck \/ Busy < workers)
\* A task with the GIL, which it gives back before it waits for anything else.
GilTask(t) == Task(t) /\ ~Held /\ stuck' = stuck \ {t}
PlainTask(t) == Task(t) /\ UNCHANGED stuck
PyThread == boot = "serving" /\ ~Held

Handler(r) == <<r, "handler">>
Forwarder(r) == <<r, "forwarder">>
Producer(r) == <<r, "producer">>

Kind(r) == app[r].kind
GraphQL(r) == Kind(r) \in {"gql", "sub"}
Call(r) == app[r].call
Items(r) == app[r].items

\* How a handler needs it for the result of the call: the messages of ASGI, the
\* error of WSGI that is logged, the object that auth returned.
ReadsResult(r) ==
  /\ conn[r] = "answered"
  /\ CASE Kind(r) = "asgi" -> py[r].state = "ok"
       [] Kind(r) = "wsgi" -> py[r].state # "ok"
       [] OTHER -> py[r].state \in {"ok", "rejects", "misrejects"} /\ database[r] = "none"

\* The acceptor of a subscription is about to publish a value.
Publishing(r) ==
  /\ Kind(r) = "sub" /\ conn[r] = "body" /\ ~fed[r]
  /\ py[r].at <= Len(Items(r)) /\ Items(r)[py[r].at] = "more"

\* What has to have the GIL next: a new handler is a clone of the application's,
\* the environ, the headers and the arguments of a field are Python's; the scope
\* of ASGI is made on a thread of Python.
WantsGil(t) ==
  LET r == t[1] IN
  CASE t[2] = "forwarder" -> Kind(r) = "asgi" /\ conn[r] = "body" /\ ~fed[r] /\ out[r] # << >>
    [] t[2] = "producer" -> Publishing(r)
    [] OTHER ->
       \/ conn[r] \in {"new", "upgraded"}
       \/ conn[r] = "environ" /\ Kind(r) # "asgi"
       \/ ReadsResult(r)

\* The handler goes on, with the GIL if it needs it.
Resumes(r) == IF ReadsResult(r) THEN GilTask(Handler(r)) ELSE PlainTask(Handler(r))

WaitForGil(t) ==
  /\ Held /\ WantsGil(t) /\ t \notin stuck /\ Task(t)
  /\ stuck' = stuck \cup {t}
  /\ UNCHANGED <<bootVars, fixed, conn, client, intake, told, py, out, fed, chan, got, status,
                 done, database, gil>>

-----------------------------------------------------------------------------
(* A request comes in, and its body. *)

Arrive(r) ==
  /\ conn[r] = "new" /\ (Kind(r) = "sub" => build = "gil")
  /\ GilTask(Handler(r))
  /\ conn' = [conn EXCEPT ![r] = IF Kind(r) = "wsgi" THEN "buffering" ELSE "environ"]
  /\ UNCHANGED <<bootVars, fixed, client, intake, told, py, out, fed, chan, got, status, done,
                 database, gil>>

Frame(r) ==
  /\ conn[r] # "new" /\ intake[r].coming > 0 /\ client[r] = "here"
  /\ PlainTask(Handler(r))
  /\ intake' = [intake EXCEPT ![r].coming = @ - 1, ![r].waiting = @ + 1]
  /\ UNCHANGED <<bootVars, fixed, conn, client, told, py, out, fed, chan, got, status, done,
                 database, gil>>

\* A response without the application.
Refuse(r, code) ==
  /\ conn' = [conn EXCEPT ![r] = "over"]
  /\ status' = [status EXCEPT ![r] = code]
  /\ fed' = [fed EXCEPT ![r] = TRUE]

\* Mutant: a body that just fills the buffer is refused.
TooLargeByOne(size) == size >= BodyLimit

TooLarge(size) == size > BodyLimit

\* WSGI has the whole body, up to a limit, before anything else.
Buffered(r) ==
  /\ conn[r] = "buffering" /\ PlainTask(Handler(r))
  /\ IF TooLarge(intake[r].waiting) THEN Refuse(r, "500")
     ELSE /\ intake[r].coming = 0
          /\ conn' = [conn EXCEPT ![r] = "environ"]
          /\ UNCHANGED <<status, fed>>
  /\ UNCHANGED <<bootVars, fixed, client, intake, told, py, out, chan, got, done, database, gil>>

\* Of the request's head: a path that is not UTF-8, and for WSGI, which has
\* headers as text, one that is not ASCII.
Unfit(r) ==
  CASE app[r].head = "path" -> "400"
    [] app[r].head = "header" /\ Kind(r) = "wsgi" -> "500"
    [] OTHER -> "none"

\* The environ is made and the call dispatched to a thread of Python, on which
\* the scope of ASGI is made.
Dispatch(r) ==
  /\ conn[r] = "environ"
  /\ IF Kind(r) = "asgi" THEN PyThread /\ UNCHANGED stuck ELSE GilTask(Handler(r))
  /\ IF Unfit(r) # "none" THEN Refuse(r, Unfit(r)) /\ UNCHANGED py
     ELSE /\ conn' = [conn EXCEPT ![r] = "app"]
          /\ py' = [py EXCEPT ![r].state = "running"]
          /\ UNCHANGED <<status, fed>>
  /\ UNCHANGED <<bootVars, fixed, client, intake, told, out, chan, got, done, database, gil>>

-----------------------------------------------------------------------------
(* The application, one step at a time. *)

Step(r) == Call(r)[py[r].at]
Running(r) == py[r].state = "running" /\ PyThread
Go(r, how) == py' = [py EXCEPT ![r] = [state |-> how, at |-> @.at + 1]]

Ends(r) ==
  /\ Running(r) /\ py[r].at > Len(Call(r))
  /\ Go(r, "ok")
  /\ UNCHANGED <<bootVars, fixed, conn, client, intake, told, out, fed, chan, got, status, done,
                 database, gil, stuck>>

Fails(r) ==
  /\ Running(r) /\ py[r].at <= Len(Call(r)) /\ Step(r) \in {"raise", "reject", "misreject"}
  /\ Go(r, CASE Step(r) = "raise" -> "failed"
            [] Step(r) = "reject" -> "rejects"
            [] OTHER -> "misrejects")
  /\ UNCHANGED <<bootVars, fixed, conn, client, intake, told, out, fed, chan, got, status, done,
                 database, gil, stuck>>

\* A thread of the pool, without the GIL's greenlets, was never given the
\* context: the panic is no Exception, and no result comes back.  ASGI runs on a
\* thread of tokio, which looks in the mutex.
UsesPuff(r) ==
  /\ Running(r) /\ py[r].at <= Len(Call(r)) /\ Step(r) = "puff"
  /\ Go(r, IF build = "free" /\ Kind(r) # "asgi" THEN "lost" ELSE "running")
  /\ UNCHANGED <<bootVars, fixed, conn, client, intake, told, out, fed, chan, got, status, done,
                 database, gil, stuck>>

\* Messages wait without limit until the call has ended; once the handler is gone
\* a send fails, and so does a second start_response.
Sends(r) ==
  /\ Running(r) /\ py[r].at <= Len(Call(r)) /\ Step(r) \in Sending
  /\ IF conn[r] = "gone" \/ (Kind(r) = "wsgi" /\ out[r] # << >>)
     THEN Go(r, "failed") /\ UNCHANGED out
     ELSE /\ Go(r, "running")
          /\ out' = [out EXCEPT ![r] = Append(@, <<Step(r), py[r].at>>)]
  /\ UNCHANGED <<bootVars, fixed, conn, client, intake, told, fed, chan, got, status, done,
                 database, gil, stuck>>

\* Mutant: who asks while the body is on its way is told that the client left.
DisconnectedEarly(r) == intake[r].waiting = 0 \/ conn[r] = "gone"

\* Without a frame, and with none to come, the client counts as gone.
Disconnected(r) ==
  (intake[r].waiting = 0 /\ (intake[r].coming = 0 \/ client[r] = "left")) \/ conn[r] = "gone"

Receives(r) ==
  /\ Running(r) /\ py[r].at <= Len(Call(r)) /\ Step(r) \in {"receive", "drain"}
  /\ Disconnected(r) \/ intake[r].waiting > 0
  /\ IF Disconnected(r)
     THEN told' = [told EXCEPT ![r] = TRUE] /\ UNCHANGED intake
     ELSE intake' = [intake EXCEPT ![r].waiting = @ - 1, ![r].read = @ + 1] /\ UNCHANGED told
  /\ IF Step(r) = "receive" \/ told'[r] THEN Go(r, "running") ELSE UNCHANGED py
  /\ UNCHANGED <<bootVars, fixed, conn, client, out, fed, chan, got, status, done, database, gil,
                 stuck>>

\* The handler has the result of the call.
Returned(r) ==
  /\ conn[r] = "app" /\ py[r].state \notin {"idle", "running"} /\ PlainTask(Handler(r))
  /\ conn' = [conn EXCEPT ![r] = "answered"]
  /\ UNCHANGED <<bootVars, fixed, client, intake, told, py, out, fed, chan, got, status, done,
                 database, gil>>

-----------------------------------------------------------------------------
(* WSGI *)

\* The iterator begins; start_response is part of it in a generator.
Holds(r) == \E i \in DOMAIN Items(r) : Items(r)[i] = "start"

WsgiResponds(r) ==
  /\ Kind(r) = "wsgi" /\ conn[r] = "answered" /\ Resumes(r)
  /\ IF py[r].state # "ok" THEN Refuse(r, "500")
     ELSE IF out[r] # << >>
       THEN /\ conn' = [conn EXCEPT ![r] = "body"]
            /\ status' = [status EXCEPT ![r] = "200"]
            /\ UNCHANGED fed
     ELSE ~Holds(r) /\ Refuse(r, "500")
  /\ py' = [py EXCEPT ![r].at = 1]
  /\ UNCHANGED <<bootVars, fixed, client, intake, told, out, chan, got, done, database, gil>>

\* One thread iterates, with the GIL from the first part to the last: a list of
\* parts runs nothing that would give it up.
Iterating(r) == Kind(r) = "wsgi" /\ conn[r] = "body" /\ ~fed[r] /\ boot = "serving"
OwnsGil(r) == build = "free" \/ gil = r

PumpBegins(r) ==
  /\ Iterating(r) /\ build = "gil" /\ gil = "nobody"
  /\ gil' = r
  /\ UNCHANGED <<bootVars, fixed, conn, client, intake, told, py, out, fed, chan, got, status,
                 done, database, stuck>>

\* Mutant: the thread goes back to its pool with the GIL.
PumpEndsHeld(r) ==
  /\ fed' = [fed EXCEPT ![r] = TRUE]
  /\ UNCHANGED gil

PumpEnds(r) ==
  /\ fed' = [fed EXCEPT ![r] = TRUE]
  /\ gil' = "nobody"

\* blocking_send waits for room, and ends when nobody is there to read.  Flatten
\* asks again after a next that raised, as a second start_response does, and an
\* item that is neither bytes nor text is passed over; an iterator that raises
\* for ever keeps the thread, and the GIL, for ever.
Pump(r) ==
  /\ Iterating(r) /\ OwnsGil(r)
  /\ IF py[r].at > Len(Items(r)) THEN PumpEnds(r) /\ UNCHANGED <<chan, py>>
     ELSE IF Items(r)[py[r].at] = "more"
       THEN IF client[r] = "left" THEN PumpEnds(r) /\ UNCHANGED <<chan, py>>
            ELSE /\ Len(chan[r]) < WsgiRoom
                 /\ chan' = [chan EXCEPT ![r] = Append(@, py[r].at)]
                 /\ py' = [py EXCEPT ![r].at = @ + 1]
                 /\ UNCHANGED <<fed, gil>>
     ELSE /\ Items(r)[py[r].at] # "forever"
          /\ py' = [py EXCEPT ![r].at = @ + 1]
          /\ UNCHANGED <<chan, fed, gil>>
  /\ UNCHANGED <<bootVars, fixed, conn, client, intake, told, out, got, status, done, database,
                 stuck>>

-----------------------------------------------------------------------------
(* ASGI *)

AsgiResponds(r) ==
  /\ Kind(r) = "asgi" /\ conn[r] = "answered" /\ Resumes(r)
  /\ IF py[r].state = "ok" /\ out[r] # << >> /\ Head(out[r])[1] = "start"
     THEN /\ conn' = [conn EXCEPT ![r] = "body"]
          /\ status' = [status EXCEPT ![r] = "200"]
          /\ out' = [out EXCEPT ![r] = Tail(@)]
          /\ UNCHANGED fed
     ELSE Refuse(r, "500") /\ UNCHANGED out
  /\ UNCHANGED <<bootVars, fixed, client, intake, told, py, chan, got, done, database, gil>>

Forwards(m) == m[1] \in {"more", "last"}

\* The forwarder ends with the last part, at a message that is no part, and with
\* a panic when there is no reader.
Forward(r) ==
  /\ Kind(r) = "asgi" /\ conn[r] = "body" /\ ~fed[r]
  /\ IF out[r] = << >> \/ ~Forwards(Head(out[r])) \/ client[r] = "left"
     THEN /\ GilTask(Forwarder(r))
          /\ fed' = [fed EXCEPT ![r] = TRUE]
          /\ UNCHANGED <<chan, out>>
     ELSE /\ Len(chan[r]) < AsgiRoom /\ GilTask(Forwarder(r))
          /\ chan' = [chan EXCEPT ![r] = Append(@, Head(out[r])[2])]
          /\ out' = [out EXCEPT ![r] = Tail(@)]
          /\ fed' = [fed EXCEPT ![r] = Head(out[r])[1] = "last"]
  /\ UNCHANGED <<bootVars, fixed, conn, client, intake, told, py, got, status, done, database, gil>>

-----------------------------------------------------------------------------
(* GraphQL: the call is the one of auth; a query may open the connection of *)
(* its context, which is closed before the answer, the shared one excepted. *)

\* A rejection from which no response can be built is logged, and lets in.
LetIn(r) == py[r].state \in {"ok", "misrejects"}
Authorised(r) == conn[r] = "answered" /\ database[r] = "none" /\ Resumes(r)
Rejected(r) == Refuse(r, IF py[r].state = "rejects" THEN "403" ELSE "500")

GqlAuthorised(r) ==
  /\ Kind(r) = "gql" /\ Authorised(r)
  /\ IF LetIn(r)
     THEN /\ database' \in {[database EXCEPT ![r] = s] : s \in {"open", "shared"}}
          /\ UNCHANGED <<conn, status, fed>>
     ELSE Rejected(r) /\ UNCHANGED database
  /\ UNCHANGED <<bootVars, fixed, client, intake, told, py, out, chan, got, done, gil>>

\* The same for a socket, which is upgraded.
SubscriptionAuthorised(r) ==
  /\ Kind(r) = "sub" /\ Authorised(r)
  /\ IF LetIn(r)
     THEN /\ conn' = [conn EXCEPT ![r] = "upgraded"]
          /\ status' = [status EXCEPT ![r] = "101"]
          /\ UNCHANGED fed
     ELSE Rejected(r)
  /\ UNCHANGED <<bootVars, fixed, client, intake, told, py, out, chan, got, done, database, gil>>

AfterQuery(state) == IF state = "open" THEN "closed" ELSE state

GqlAnswers(r) ==
  /\ Kind(r) = "gql" /\ conn[r] = "answered" /\ database[r] # "none" /\ PlainTask(Handler(r))
  /\ database' = [database EXCEPT ![r] = AfterQuery(@)]
  /\ conn' = [conn EXCEPT ![r] = "body"]
  /\ status' = [status EXCEPT ![r] = "200"]
  /\ fed' = [fed EXCEPT ![r] = TRUE]
  /\ UNCHANGED <<bootVars, fixed, client, intake, told, py, out, chan, got, done, gil>>

\* A build without the GIL says so and closes the socket, before it asks auth.
SubscriptionUnsupported(r) ==
  /\ Kind(r) = "sub" /\ build = "free" /\ conn[r] = "new" /\ PlainTask(Handler(r))
  /\ Refuse(r, "unsupported")
  /\ UNCHANGED <<bootVars, fixed, client, intake, told, py, out, chan, got, done, database, gil>>

\* The client subscribes: the acceptor is dispatched with a sender.
Subscribe(r) ==
  /\ conn[r] = "upgraded" /\ GilTask(Handler(r))
  /\ conn' = [conn EXCEPT ![r] = "body"]
  /\ py' = [py EXCEPT ![r].at = 1]
  /\ UNCHANGED <<bootVars, fixed, client, intake, told, out, fed, chan, got, status, done,
                 database, gil>>

\* SubscriptionSender.__call__: the producer runs with a context of its own, whose
\* connection nothing closes, and the value waits without limit; the acceptor
\* is told when the stream has been dropped, which is some time after the client
\* has left.
Publish(r) ==
  /\ Publishing(r) /\ GilTask(Producer(r))
  /\ \/ client[r] = "left" /\ told' = [told EXCEPT ![r] = TRUE] /\ UNCHANGED chan
     \/ ~told[r] /\ chan' = [chan EXCEPT ![r] = Append(@, py[r].at)] /\ UNCHANGED told
  /\ database' \in {database, [database EXCEPT ![r] = "open"]}
  /\ py' = [py EXCEPT ![r].at = @ + 1]
  /\ UNCHANGED <<bootVars, fixed, conn, client, intake, out, fed, got, status, done, gil>>

\* The stream ends with its sender; an error of the acceptor is heard by nobody.
AcceptorEnds(r) ==
  /\ Kind(r) = "sub" /\ conn[r] = "body" /\ ~fed[r] /\ ~Publishing(r) /\ PyThread
  /\ fed' = [fed EXCEPT ![r] = TRUE]
  /\ UNCHANGED <<bootVars, fixed, conn, client, intake, told, py, out, chan, got, status, done,
                 database, gil, stuck>>

-----------------------------------------------------------------------------
(* The client, through the task of its connection. *)

Answering(r) == conn[r] \in {"body", "over"}

ClientReads(r) ==
  /\ Answering(r) /\ client[r] = "here" /\ ~done[r] /\ PlainTask(Handler(r))
  /\ IF chan[r] # << >>
     THEN /\ got' = [got EXCEPT ![r] = Append(@, Head(chan[r]))]
          /\ chan' = [chan EXCEPT ![r] = Tail(@)]
          /\ UNCHANGED done
     ELSE fed[r] /\ done' = [done EXCEPT ![r] = TRUE] /\ UNCHANGED <<got, chan>>
  /\ UNCHANGED <<bootVars, fixed, conn, client, intake, told, py, out, fed, status, database, gil>>

\* The handler is dropped where it waits; what Python has begun goes on.
ClientLeaves(r) ==
  /\ conn[r] # "new" /\ client[r] = "here" /\ ~done[r]
  /\ Handler(r) \notin stuck /\ PlainTask(Handler(r))
  /\ client' = [client EXCEPT ![r] = "left"]
  /\ conn' = [conn EXCEPT ![r] = IF Answering(r) THEN @ ELSE "gone"]
  /\ UNCHANGED <<bootVars, fixed, intake, told, py, out, fed, chan, got, status, done, database, gil>>

-----------------------------------------------------------------------------

Init ==
  /\ build \in Builds /\ workers \in Workers /\ pubsub \in BOOLEAN
  /\ boot = "building" /\ set = "unset" /\ early = "none"
  /\ app \in {a \in [Requests -> UNION {Apps[r] : r \in Requests}] :
              /\ \A r \in Requests : a[r] \in Apps[r]
              /\ ~ \E r, q \in Requests :        \* a program serves one of the two
                   a[r].kind = "wsgi" /\ a[q].kind = "asgi"}
  /\ conn = [r \in Requests |-> "new"]
  /\ client = [r \in Requests |-> "here"]
  /\ intake = [r \in Requests |-> [coming |-> app[r].frames, waiting |-> 0, read |-> 0]]
  /\ told = [r \in Requests |-> FALSE]
  /\ py = [r \in Requests |-> [state |-> "idle", at |-> 1]]
  /\ out = [r \in Requests |-> << >>]
  /\ fed = [r \in Requests |-> FALSE]
  /\ chan = [r \in Requests |-> << >>]
  /\ got = [r \in Requests |-> << >>]
  /\ status = [r \in Requests |-> "none"]
  /\ done = [r \in Requests |-> FALSE]
  /\ database = [r \in Requests |-> "none"]
  /\ gil = "nobody"
  /\ stuck = {}

Boot == StartServices \/ ServiceUsesContext \/ ServiceRestarts \/ SetContext \/ Lifespan
          \/ LifespanShutdown
HandlerStep(r) ==
  Arrive(r) \/ Buffered(r) \/ Dispatch(r) \/ Returned(r) \/ WsgiResponds(r) \/ AsgiResponds(r)
    \/ GqlAuthorised(r) \/ GqlAnswers(r)
    \/ SubscriptionAuthorised(r) \/ SubscriptionUnsupported(r) \/ Subscribe(r)
Application(r) ==
  Ends(r) \/ Fails(r) \/ UsesPuff(r) \/ Sends(r) \/ Receives(r) \/ Publish(r) \/ AcceptorEnds(r)
Body(r) == PumpBegins(r) \/ Pump(r) \/ Forward(r)

Next ==
  \/ Boot
  \/ \E r \in Requests :
       \/ HandlerStep(r) \/ Application(r) \/ Body(r)
       \/ Frame(r) \/ ClientReads(r) \/ ClientLeaves(r)
       \/ \E t \in {Handler(r), Forwarder(r), Producer(r)} : WaitForGil(t)

\* Threads and tasks run whenever they can, the client reads and sends its body.
Fairness ==
  /\ WF_vars(StartServices \/ SetContext \/ Lifespan \/ LifespanShutdown)
  /\ WF_vars(ServiceUsesContext \/ ServiceRestarts)
  /\ \A r \in Requests :
       /\ WF_vars(HandlerStep(r)) /\ WF_vars(Application(r)) /\ WF_vars(Body(r))
       /\ WF_vars(Frame(r)) /\ WF_vars(ClientReads(r))

Spec == Init /\ [][Next]_vars /\ Fairness

-----------------------------------------------------------------------------
(* Properties *)

\* Places of the parts of the body, as a client would expect them: those of an
\* iterable, whatever lies between them, before it raises for ever; those of an
\* acceptor before it fails; or those sent behind a start, which comes first, up
\* to the last one or to a message that is no part; or none.
Meant(r) ==
  LET Sent == {i \in 1..Len(Call(r)) : Call(r)[i] \in Sending}
  IN CASE Kind(r) = "asgi" ->
         {i \in Sent : /\ Call(r)[i] \in {"more", "last"}
                        /\ \E s \in Sent :
                             /\ Call(r)[s] = "start" /\ s < i
                             /\ \A j \in Sent : j < i /\ j # s => s < j /\ Call(r)[j] = "more"}
       [] Kind(r) = "wsgi" ->
         {i \in 1..Len(Items(r)) : /\ Items(r)[i] = "more"
                                   /\ \A j \in 1..i : Items(r)[j] # "forever"}
       [] OTHER -> {i \in 1..Len(Items(r)) : \A j \in 1..i : Items(r)[j] = "more"}

\* Places in their order, none of those that are meant left out before another.
Begins(s, meant) ==
  /\ \A i, j \in 1..Len(s) : i < j => s[i] < s[j]
  /\ \A i \in 1..Len(s) : s[i] \in meant
  /\ \A i \in 1..Len(s) : \A p \in meant : p < s[i] => \E j \in 1..Len(s) : s[j] = p

\* What a client reads is what the application or the acceptor of a subscription
\* gave, in that order and, when the end of a 200 or a 101 has come, all of it,
\* though the parts pass a thread, a channel that is short and a task that ends
\* in three ways; an application is
\* told that its client left only when it did, or when the whole body has been
\* read; and the answer to a query is given when the connection its context
\* opened is closed (asgi/handler.rs:121, :429, wsgi/handler.rs:302,
\* graphql/handlers.rs:189).
ResponsesAreWhole ==
  \A r \in Requests :
    /\ Begins(got[r], Meant(r))
    /\ done[r] /\ status[r] \in {"200", "101"} => Meant(r) \subseteq ToSet(got[r])
    /\ Kind(r) = "wsgi" => Len(chan[r]) <= WsgiRoom
    /\ Kind(r) = "asgi" => Len(chan[r]) <= AsgiRoom
    /\ told[r] /\ client[r] = "here" => intake[r].read = app[r].frames
    /\ Kind(r) = "gql" /\ conn[r] = "body" => database[r] \in {"closed", "shared"}

\* An application that ends well and answers in the right order is never turned
\* into an error, whatever else the threads are doing.  What is refused is a
\* path, for WSGI a header that is not ASCII or a body that is too large, an
\* application that fails, says nothing first or starts twice, and, without the
\* GIL's greenlets, one that uses Puff from a thread of the pool.  What auth
\* rejects is answered with its rejection and never executed, unless no response
\* can be built from that (wsgi/handler.rs:133, :226, :337, asgi/handler.rs:337,
\* graphql/handlers.rs:212, python/mod.rs:250).
OnlyBadAppsFail ==
  \A r \in Requests :
    LET Starts == {i \in DOMAIN Call(r) : Call(r)[i] = "start"}
        Uses(step) == \E i \in DOMAIN Call(r) : Call(r)[i] = step
        Early == \E i \in DOMAIN Call(r) :
                   /\ Call(r)[i] \in {"more", "last", "other"}
                   /\ \A j \in Starts : i < j
    IN /\ status[r] = "unsupported" => build = "free"
       /\ status[r] = "400" => app[r].head = "path"
       /\ status[r] = "403" => Uses("reject")
       /\ GraphQL(r) /\ status[r] \in {"200", "101"} => ~Uses("reject") \/ Uses("misreject")
       /\ status[r] = "500" =>
            \/ Uses("raise") \/ Early
            \/ ~GraphQL(r) /\ Starts = {}
            \/ Kind(r) = "wsgi" /\ (\/ Cardinality(Starts) > 1
                                  \/ app[r].frames > BodyLimit
                                  \/ app[r].head = "header")
            \/ Kind(r) # "asgi" /\ build = "free" /\ Uses("puff")

\* A WSGI generator calls start_response when it is iterated, which the handler
\* does only once it has the response.
Forgotten(r) == conn[r] = "answered" /\ py[r].state = "ok" /\ out[r] = << >> /\ Holds(r)

\* The thread that has the GIL waits for room in its channel, and every worker
\* that could make some waits for the GIL.
Wedged ==
  /\ Held /\ client[gil] = "here" /\ Len(chan[gil]) = WsgiRoom
  /\ Busy = workers /\ Handler(gil) \notin stuck

\* Its iterator raises for ever.
Spins(r) ==
  /\ Iterating(r) /\ OwnsGil(r)
  /\ py[r].at <= Len(Items(r)) /\ Items(r)[py[r].at] = "forever"

\* Main waits for a listener, and the runtime for main.
NeverReady == boot = "building" /\ pubsub /\ workers < 2

\* Once the program serves, every request ends for a client that waits for it,
\* but for the three ways in which this code makes it wait for ever; the services
\* that were started before there was a context run in the end; and the program
\* comes up, fails or stops, unless it waits for its own runtime; a service that
\* looked for the context too soon takes it down (wsgi/handler.rs:262, :302, :310,
\* program/mod.rs:426, :455, context.rs:72, databases/pubsub.rs:214).
EveryoneIsServed ==
  /\ \A r \in Requests :
       boot = "serving" ~> \/ done[r] \/ client[r] = "left" \/ Forgotten(r) \/ Wedged
                          \/ Spins(r) \/ (Held /\ Spins(gil))
  /\ early = "ready" ~> early = "runs" \/ boot \in Over
  /\ boot = "building" ~> boot \in {"serving"} \cup Over \/ NeverReady
=============================================================================
