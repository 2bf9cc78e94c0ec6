------------------------------- MODULE PubSub -------------------------------
(***************************************************************************)
(* The pub/sub client (src/src/databases/pubsub.rs).  Connections of the   *)
(* program share one Redis connection: subscribe, unsubscribe and Drop     *)
(* queue events in a bounded channel, one supervised listener applies them *)
(* to the routing table and to Redis, and routes the messages it gets.     *)
(* The listener dies with the first Redis error and is started again: the  *)
(* routing table survives, the events queued for the dead one do not.      *)
(***************************************************************************)
EXTENDS Naturals, Sequences, FiniteSets

CONSTANTS
  Conns,      \* PubSubConnections
  Channels,
  Buffer,     \* capacity of the event channel (64 in the code)
  MaxFaults,  \* bound: broken Redis connections
  MaxCalls    \* bound: accepted subscribe and unsubscribe calls

ASSUME PubSubAssumption ==
  Buffer \in Nat \ {0} /\ MaxFaults \in Nat /\ MaxCalls \in Nat

VARIABLES
  keys,       \* the channels with an entry in the routing table
  subs,       \* the connections in the entry of each channel
  events,     \* the events queued for the listener
  sender,     \* "none", "open", or "closed": the listener behind it died
  stage,         \* the listener: connect, resubscribe, loop, call or backoff
  todo,       \* what it still has to ask Redis: a set of <<op, channel>>
  linkUp,     \* its Redis connection works
  subscribed, \* what that connection is subscribed to
  dropped,    \* connections that were dropped
  deaf,       \* connections whose receiver was dropped
  \* History.
  wanted,     \* pairs whose last accepted call was a subscribe
  lost,       \* pairs whose last event was lost
  calls, faults

listenerVars == <<stage, todo, linkUp, subscribed>>
table == <<keys, subs>>
pubsubVars == <<table, events, sender, listenerVars, dropped, deaf, wanted, lost, calls, faults>>

PubSubInit ==
  /\ keys = {}
  /\ subs = [ch \in Channels |-> {}]
  /\ events = << >>
  /\ sender = "none"
  /\ stage = "connect"
  /\ todo = {}
  /\ linkUp = FALSE
  /\ subscribed = {}
  /\ dropped = {} /\ deaf = {}
  /\ wanted = {} /\ lost = {}
  /\ calls = 0 /\ faults = 0

-----------------------------------------------------------------------------
(* The program's side.  A call that finds no sender, or a closed one,       *)
(* returns false and changes nothing.                                       *)

Queue(e) ==
  /\ sender = "open"
  /\ Len(events) < Buffer
  /\ events' = Append(events, e)

Request(op, c, ch) ==
  /\ c \notin dropped
  /\ calls < MaxCalls
  /\ calls' = calls + 1
  /\ Queue([op |-> op, conn |-> c, chan |-> ch])
  /\ lost' = lost \ {<<c, ch>>}
  /\ UNCHANGED <<table, sender, listenerVars, dropped, deaf, faults>>

SubscribeTo(c, ch) == Request("sub", c, ch) /\ wanted' = wanted \cup {<<c, ch>>}

Unsubscribe(c, ch) == Request("unsub", c, ch) /\ wanted' = wanted \ {<<c, ch>>}

\* Drop of a connection: try_send, so the event is lost when it does not fit.
DropConn(c) ==
  /\ c \notin dropped
  /\ dropped' = dropped \cup {c}
  /\ wanted' = {p \in wanted : p[1] # c}
  /\ IF sender = "open" /\ Len(events) < Buffer
     THEN /\ events' = Append(events, [op |-> "drop", conn |-> c])
          /\ lost' = {p \in lost : p[1] # c}
     ELSE /\ lost' = lost \cup ({c} \X Channels)
          /\ UNCHANGED events
  /\ UNCHANGED <<table, sender, listenerVars, deaf, calls, faults>>

\* The receiving half is dropped, with the connection or before it.
CloseReceiver(c) ==
  /\ c \notin deaf
  /\ deaf' = deaf \cup {c}
  /\ UNCHANGED <<table, events, sender, listenerVars, dropped, wanted, lost, calls, faults>>

-----------------------------------------------------------------------------
(* The listener. *)

Connect ==
  /\ stage = "connect"
  /\ linkUp' = TRUE
  /\ subscribed' = {}
  /\ todo' = {"subscribe"} \X keys
  /\ stage' = "resubscribe"
  /\ UNCHANGED <<table, events, sender, dropped, deaf, wanted, lost, calls, faults>>

\* Every subscribe went through: publish a new event channel.
Open ==
  /\ stage = "resubscribe"
  /\ todo = {}
  /\ sender' = "open"
  /\ stage' = "loop"
  /\ UNCHANGED <<table, events, todo, linkUp, subscribed, dropped, deaf, wanted, lost,
                 calls, faults>>

\* One SUBSCRIBE or UNSUBSCRIBE, of the start or of an event.
AskRedis ==
  /\ stage \in {"resubscribe", "call"}
  /\ linkUp
  /\ \E t \in todo :
       /\ todo' = todo \ {t}
       /\ subscribed' = IF t[1] = "subscribe" THEN subscribed \cup {t[2]}
                        ELSE subscribed \ {t[2]}
  /\ stage' = IF stage = "call" /\ todo' = {} THEN "loop" ELSE stage
  /\ UNCHANGED <<table, events, sender, linkUp, dropped, deaf, wanted, lost, calls, faults>>

\* A Redis error ends the listener: its event channel goes with it.
Fail ==
  /\ stage \in {"resubscribe", "call"}
  /\ ~linkUp
  /\ todo # {}
  /\ stage' = "backoff"
  /\ todo' = {}
  /\ sender' = IF sender = "open" THEN "closed" ELSE sender
  /\ events' = << >>
  /\ lost' = lost \cup {p \in Conns \X Channels : \E i \in DOMAIN events :
               /\ events[i].conn = p[1]
               /\ events[i].op # "drop" => events[i].chan = p[2]}
  /\ UNCHANGED <<table, linkUp, subscribed, dropped, deaf, wanted, calls, faults>>

\* The supervisor restarts it after its backoff.
Restart ==
  /\ stage = "backoff"
  /\ stage' = "connect"
  /\ UNCHANGED <<table, events, sender, todo, linkUp, subscribed, dropped, deaf,
                 wanted, lost, calls, faults>>

\* Mutant: a channel that has an entry keeps the subscribers it has.
AddedFirst(c, ch) ==
  /\ subs' = [subs EXCEPT ![ch] = IF ch \in keys THEN @ ELSE {c}]
  /\ keys' = keys \cup {ch}
  /\ todo' = IF ch \in keys THEN {} ELSE {<<"subscribe", ch>>}

\* The routing table with c in the entry of ch; Redis hears of a new entry.
Added(c, ch) ==
  /\ subs' = [subs EXCEPT ![ch] = @ \cup {c}]
  /\ keys' = keys \cup {ch}
  /\ todo' = IF ch \in keys THEN {} ELSE {<<"subscribe", ch>>}

\* Mutant: c leaves only the entries that become empty.
RemovedAlone(c, chans) ==
  LET gone == {ch \in chans : subs[ch] \subseteq {c}} IN
    /\ subs' = [ch \in Channels |-> IF ch \in gone THEN {} ELSE subs[ch]]
    /\ keys' = keys \ gone
    /\ todo' = {"unsubscribe"} \X gone

\* The routing table without c in the entries of chans; an entry that this
\* leaves empty is removed, and Redis is to be unsubscribed from it.
Removed(c, chans) ==
  LET gone == {ch \in chans : subs[ch] \subseteq {c}} IN
    /\ subs' = [ch \in Channels |-> IF ch \in chans THEN subs[ch] \ {c} ELSE subs[ch]]
    /\ keys' = keys \ gone
    /\ todo' = {"unsubscribe"} \X gone

\* handle_event: the routing table first, then Redis if an entry came or went.
HandleEvent ==
  /\ stage = "loop"
  /\ events # << >>
  /\ events' = Tail(events)
  /\ LET e == Head(events) IN
       \/ e.op = "sub" /\ Added(e.conn, e.chan)
       \/ e.op = "unsub" /\ Removed(e.conn, keys \cap {e.chan})
       \/ e.op = "drop" /\ Removed(e.conn, {ch \in keys : e.conn \in subs[ch]})
  /\ stage' = IF todo' = {} THEN "loop" ELSE "call"
  /\ UNCHANGED <<sender, linkUp, subscribed, dropped, deaf, wanted, lost, calls, faults>>

\* handle_msg: deaf subscribers are forgotten, the entry stays.
HandleMessage(ch) ==
  /\ stage = "loop"
  /\ linkUp
  /\ ch \in subscribed
  /\ subs' = [subs EXCEPT ![ch] = @ \ deaf]
  /\ UNCHANGED <<keys, events, sender, listenerVars, dropped, deaf, wanted, lost,
                 calls, faults>>

\* Redis closes the connection; the message stream just ends.
BreakLink ==
  /\ linkUp
  /\ faults < MaxFaults
  /\ faults' = faults + 1
  /\ linkUp' = FALSE
  /\ subscribed' = {}
  /\ UNCHANGED <<table, events, sender, stage, todo, dropped, deaf, wanted, lost, calls>>

Listener == Connect \/ Open \/ AskRedis \/ Fail \/ Restart \/ HandleEvent

PubSubNext ==
  \/ \E c \in Conns : \/ \E ch \in Channels : SubscribeTo(c, ch) \/ Unsubscribe(c, ch)
                      \/ DropConn(c) \/ CloseReceiver(c)
  \/ Listener
  \/ \E ch \in Channels : HandleMessage(ch)
  \/ BreakLink

PubSubSpec == PubSubInit /\ [][PubSubNext]_pubsubVars

\* The runtime polls the listener and the supervisor restarts it.
PubSubFairSpec == PubSubSpec /\ WF_pubsubVars(Listener)

-----------------------------------------------------------------------------
\* What the routing table will say of c and ch once the queue is worked off.
Pending(c, ch) ==
  LET about == {i \in DOMAIN events :
                  events[i].conn = c /\ (events[i].op # "drop" => events[i].chan = ch)}
  IN IF about = {} THEN c \in subs[ch]
     ELSE \E i \in about : (\A j \in about : j <= i) /\ events[i].op = "sub"

\* The routing table, brought up to date with the queued events, is what the
\* accepted calls asked for, across restarts of the listener: nobody is cut
\* off and nobody is served who left, unless the event itself was lost.
TableFollowsCalls ==
  \A c \in Conns \ deaf, ch \in Channels :
    <<c, ch>> \notin lost => (Pending(c, ch) <=> <<c, ch>> \in wanted)

\* And while the listener waits for messages on a working connection, Redis is
\* subscribed to exactly the channels of the table, where every subscriber has
\* its entry: no restart, and no failure halfway through an event, leaves the
\* two apart.
RedisFollowsTable ==
  /\ stage = "loop" /\ linkUp => subscribed = keys
  /\ \A ch \in Channels : subs[ch] # {} => ch \in keys

\* Messages reach those who asked for them: the table follows the calls and
\* Redis follows the table.
RoutingFollowsCalls == TableFollowsCalls /\ RedisFollowsTable

\* A subscribe that returned true takes effect, whatever happens to the
\* listener, unless it is taken back or its event is lost.
SubscribeTakesEffect ==
  \A c \in Conns, ch \in Channels :
    <<c, ch>> \in wanted
      ~> c \in subs[ch] \/ <<c, ch>> \in lost \/ <<c, ch>> \notin wanted \/ c \in deaf
=============================================================================
