---------------------------- MODULE PubSubProofs ----------------------------
(***************************************************************************)
(* Proofs about PubSub, for every number of connections, channels, calls   *)
(* and broken links, and every capacity of the event channel.              *)
(***************************************************************************)
EXTENDS PubSub, SequenceTheorems, TLAPS

Event == [op : {"sub", "unsub"}, conn : Conns, chan : Channels] \cup [op : {"drop"}, conn : Conns]
Pairs == Conns \X Channels

TypeInv ==
  /\ keys \subseteq Channels /\ subscribed \subseteq Channels
  /\ subs \in [Channels -> SUBSET Conns]
  /\ events \in Seq(Event)
  /\ stage \in {"connect", "resubscribe", "loop", "call", "backoff"}
  /\ todo \subseteq {"subscribe", "unsubscribe"} \X Channels
  /\ linkUp \in BOOLEAN
  /\ dropped \subseteq Conns /\ deaf \subseteq Conns
  /\ wanted \subseteq Pairs /\ lost \subseteq Pairs

\* A step keeps the types.
LEMMA TypeStep == TypeInv /\ [PubSubNext]_pubsubVars => TypeInv'
<1> SUFFICES ASSUME TypeInv, [PubSubNext]_pubsubVars PROVE TypeInv'
  OBVIOUS
<1> USE DEF TypeInv, Pairs, table, listenerVars
<1>1. ASSUME NEW c \in Conns, NEW ch \in Channels, SubscribeTo(c, ch) \/ Unsubscribe(c, ch)
      PROVE TypeInv'
  <2>1. /\ [op |-> "sub", conn |-> c, chan |-> ch] \in Event
        /\ [op |-> "unsub", conn |-> c, chan |-> ch] \in Event
    BY DEF Event
  <2>2. events' \in Seq(Event)
    BY SMTT(30), <1>1, <2>1 DEF SubscribeTo, Unsubscribe, Request, Queue
  <2>3. QED
    BY <1>1, <2>2 DEF SubscribeTo, Unsubscribe, Request
<1>2. ASSUME NEW c \in Conns, DropConn(c) PROVE TypeInv'
  <2>1. [op |-> "drop", conn |-> c] \in Event
    BY DEF Event
  <2>2. events' \in Seq(Event)
    BY <1>2, <2>1 DEF DropConn
  <2>3. QED
    BY <1>2, <2>2 DEF DropConn
<1>3. ASSUME NEW c \in Conns, CloseReceiver(c) PROVE TypeInv'
  BY <1>3 DEF CloseReceiver
<1>4. CASE Connect
  BY <1>4 DEF Connect
<1>5. CASE Open
  BY <1>5 DEF Open
<1>6. CASE AskRedis
  BY <1>6 DEF AskRedis
<1>7. CASE Fail
  BY <1>7 DEF Fail
<1>8. CASE Restart
  BY <1>8 DEF Restart
<1>9. CASE HandleEvent
  <2>1. Head(events) \in Event /\ events' \in Seq(Event)
    BY <1>9 DEF HandleEvent
  <2>2. Head(events).conn \in Conns /\ (Head(events).op # "drop" => Head(events).chan \in Channels)
    BY <2>1 DEF Event
  <2>3. QED
    BY <1>9, <2>1, <2>2 DEF HandleEvent, Added, Removed
<1>10. ASSUME NEW ch \in Channels, HandleMessage(ch) PROVE TypeInv'
  BY <1>10 DEF HandleMessage
<1>11. CASE BreakLink
  BY <1>11 DEF BreakLink
<1>12. CASE UNCHANGED pubsubVars
  BY <1>12 DEF pubsubVars
<1>13. QED
  BY <1>1, <1>2, <1>3, <1>4, <1>5, <1>6, <1>7, <1>8, <1>9, <1>10, <1>11, <1>12 DEF PubSubNext, Listener

-----------------------------------------------------------------------------
\* What the listener still has to ask of Redis is the difference between the
\* table and what the connection is subscribed to, in every place where it may
\* fail; and there is nothing to ask where it does not ask.
Todo(op) == {ch \in Channels : <<op, ch>> \in todo}
RedisInv ==
  /\ stage \notin {"resubscribe", "call"} => todo = {}
  /\ Todo("subscribe") \cap Todo("unsubscribe") = {}
  /\ stage \in {"resubscribe", "loop", "call"} /\ linkUp =>
       keys = (subscribed \cup Todo("subscribe")) \ Todo("unsubscribe")
  /\ \A ch \in Channels : subs[ch] # {} => ch \in keys

\* What the listener tells Redis follows what it does to the table.
LEMMA RedisStep == TypeInv /\ RedisInv /\ [PubSubNext]_pubsubVars => RedisInv'
<1> SUFFICES ASSUME TypeInv, RedisInv, [PubSubNext]_pubsubVars PROVE RedisInv'
  OBVIOUS
<1> USE DEF TypeInv, RedisInv, Todo, table, listenerVars
<1>1. ASSUME NEW c \in Conns, NEW ch \in Channels, SubscribeTo(c, ch) \/ Unsubscribe(c, ch)
      PROVE RedisInv'
  BY <1>1 DEF SubscribeTo, Unsubscribe, Request
<1>2. ASSUME NEW c \in Conns, DropConn(c) \/ CloseReceiver(c) PROVE RedisInv'
  BY <1>2 DEF DropConn, CloseReceiver
<1>3. CASE Connect
  BY <1>3 DEF Connect
<1>4. CASE Open
  BY <1>4 DEF Open
<1>5. CASE AskRedis
  BY <1>5 DEF AskRedis
<1>6. CASE Fail
  BY <1>6 DEF Fail
<1>7. CASE Restart
  BY <1>7 DEF Restart
<1>8. CASE HandleEvent
  <2>1. Head(events) \in Event
    BY <1>8 DEF HandleEvent
  <2>2. Head(events).conn \in Conns /\ (Head(events).op # "drop" => Head(events).chan \in Channels)
    BY <2>1 DEF Event
  <2>3. todo = {} /\ stage = "loop"
    BY <1>8 DEF HandleEvent
  <2>4. ASSUME NEW c \in Conns, NEW ch \in Channels, Added(c, ch) PROVE RedisInv'
    BY <1>8, <2>3, <2>4 DEF HandleEvent, Added
  <2>5. ASSUME NEW c \in Conns, NEW chans \in SUBSET keys, Removed(c, chans) PROVE RedisInv'
    BY <1>8, <2>3, <2>5 DEF HandleEvent, Removed
  <2>6. QED
    BY <1>8, <2>2, <2>4, <2>5 DEF HandleEvent
<1>9. ASSUME NEW ch \in Channels, HandleMessage(ch) PROVE RedisInv'
  BY <1>9 DEF HandleMessage
<1>10. CASE BreakLink
  BY <1>10 DEF BreakLink
<1>11. CASE UNCHANGED pubsubVars
  BY <1>11 DEF pubsubVars
<1>12. QED
  BY <1>1, <1>2, <1>3, <1>4, <1>5, <1>6, <1>7, <1>8, <1>9, <1>10, <1>11 DEF PubSubNext, Listener

-----------------------------------------------------------------------------
\* The queued events that speak of c and ch, oldest first.
Speaks(e, c, ch) == e.conn = c /\ (e.op # "drop" => e.chan = ch)

\* An event queued behind the others decides what it speaks of and nothing else.
LEMMA PendingAppend ==
  ASSUME TypeInv, NEW e \in Event, events' = Append(events, e), UNCHANGED subs,
         NEW c \in Conns, NEW ch \in Channels
  PROVE  Pending(c, ch)' <=> IF Speaks(e, c, ch) THEN e.op = "sub" ELSE Pending(c, ch)
<1>1. /\ DOMAIN events = 1..Len(events) /\ DOMAIN events' = 1..(Len(events) + 1) /\ Len(events) \in Nat
      /\ events'[Len(events) + 1] = e /\ \A i \in 1..Len(events) : events'[i] = events[i]
  BY DEF TypeInv
<1>2. CASE Speaks(e, c, ch)
  BY <1>1, <1>2 DEF Pending, Speaks
<1>3. CASE ~Speaks(e, c, ch)
  BY <1>1, <1>3 DEF Pending, Speaks
<1>4. QED
  BY <1>2, <1>3

\* The first event, once it is in the table, leaves the outcome as it was.
LEMMA PendingTail ==
  ASSUME TypeInv, events # << >>, events' = Tail(events),
         NEW c \in Conns, NEW ch \in Channels,
         c \in subs'[ch] <=> IF Speaks(Head(events), c, ch) THEN Head(events).op = "sub" ELSE c \in subs[ch]
  PROVE  Pending(c, ch)' <=> Pending(c, ch)
<1> DEFINE about == {i \in DOMAIN events : Speaks(events[i], c, ch)}
           after == {i \in DOMAIN events' : Speaks(events'[i], c, ch)}
<1>1. /\ Len(events) \in Nat \ {0} /\ Head(events) = events[1]
      /\ DOMAIN events = 1..Len(events) /\ DOMAIN events' = 1..(Len(events) - 1)
      /\ \A i \in 1..(Len(events) - 1) : events'[i] = events[i + 1]
  BY DEF TypeInv
<1>2. /\ \A i \in after : i \in Int /\ i + 1 \in about
      /\ \A j \in about : j \in Int /\ (j = 1 \/ (j > 1 /\ j - 1 \in after))
  BY <1>1
<1>3. 1 \in about <=> Speaks(Head(events), c, ch)
  BY <1>1
<1>4. /\ Pending(c, ch) <=> IF about = {} THEN c \in subs[ch]
                            ELSE \E i \in about : (\A j \in about : j <= i) /\ events[i].op = "sub"
      /\ Pending(c, ch)' <=> IF after = {} THEN c \in subs'[ch]
                             ELSE \E i \in after : (\A j \in after : j <= i) /\ events'[i].op = "sub"
  BY DEF Pending, Speaks
<1>5. about \subseteq 1..Len(events) /\ after \subseteq 1..(Len(events) - 1)
  BY <1>1
<1> HIDE DEF about, after
<1>6. CASE after = {}
  <2>1. about = IF Speaks(Head(events), c, ch) THEN {1} ELSE {}
    BY <1>1, <1>2, <1>3, <1>5, <1>6
  <2>2. QED
    BY <1>1, <1>4, <1>6, <2>1
<1>7. CASE after # {}
  <2>1. about # {}
    BY <1>2, <1>5, <1>7
  <2>2. ASSUME NEW i \in after, \A j \in after : j <= i, events'[i].op = "sub"
        PROVE  Pending(c, ch)
    <3>1. i + 1 \in about /\ events[i + 1].op = "sub"
      BY <1>1, <1>2, <1>5, <2>2
    <3>2. \A j \in about : j <= i + 1
      BY <1>1, <1>2, <1>5, <2>2
    <3>3. QED
      BY <1>4, <2>1, <3>1, <3>2
  <2>3. ASSUME NEW i \in about, \A j \in about : j <= i, events[i].op = "sub"
        PROVE  Pending(c, ch)'
    <3>1. i > 1
      <4>1. PICK j : j \in after
        BY <1>7
      <4>2. j \in Int /\ j >= 1 /\ j + 1 <= i /\ i \in Int
        BY <1>1, <1>2, <1>5, <2>3, <4>1
      <4>3. QED
        BY <4>2
    <3>2. i - 1 \in after /\ events'[i - 1].op = "sub"
      BY <1>1, <1>2, <1>5, <2>3, <3>1
    <3>3. \A j \in after : j <= i - 1
      BY <1>1, <1>2, <1>5, <2>3
    <3>4. QED
      BY <1>4, <1>7, <3>2, <3>3
  <2>4. QED
    BY <1>4, <1>7, <2>1, <2>2, <2>3
<1>8. QED
  BY <1>6, <1>7

TableInv == TypeInv /\ RedisInv /\ TableFollowsCalls

\* A subscription is in one entry of the table and no other changes with it; an
\* entry that is removed was empty but for the one who left.
LEMMA TableChanges ==
  ASSUME TypeInv, RedisInv, HandleEvent, NEW c \in Conns, NEW ch \in Channels
  PROVE  c \in subs'[ch] <=>
           IF Speaks(Head(events), c, ch) THEN Head(events).op = "sub" ELSE c \in subs[ch]
<1> USE DEF Speaks, TypeInv, RedisInv
<1>1. Head(events) \in Event
  BY DEF HandleEvent
<1>2. CASE Head(events).op = "sub"
  BY <1>1, <1>2 DEF HandleEvent, Added, Event
<1>3. CASE Head(events).op = "unsub"
  BY <1>1, <1>3 DEF HandleEvent, Removed, Event
<1>4. CASE Head(events).op = "drop"
  BY <1>1, <1>4 DEF HandleEvent, Removed, Event
<1>5. QED
  BY <1>1, <1>2, <1>3, <1>4 DEF Event

\* A step keeps the agreement of the table, the queue and the calls.
LEMMA TableStep == TableInv /\ [PubSubNext]_pubsubVars => TableFollowsCalls'
<1> SUFFICES ASSUME TableInv, [PubSubNext]_pubsubVars,
                    NEW c \in Conns \ deaf', NEW ch \in Channels, <<c, ch>> \notin lost'
             PROVE  Pending(c, ch)' <=> <<c, ch>> \in wanted'
  BY DEF TableFollowsCalls
<1> USE DEF TableInv, table, listenerVars
<1>0. ASSUME c \notin deaf, <<c, ch>> \notin lost PROVE Pending(c, ch) <=> <<c, ch>> \in wanted
  BY <1>0 DEF TableFollowsCalls
<1>1. ASSUME NEW d \in Conns, NEW k \in Channels, SubscribeTo(d, k) \/ Unsubscribe(d, k)
      PROVE  Pending(c, ch)' <=> <<c, ch>> \in wanted'
  <2> DEFINE e(op) == [op |-> op, conn |-> d, chan |-> k]
  <2>1. e("sub") \in Event /\ e("unsub") \in Event
    BY DEF Event
  <2>2. CASE SubscribeTo(d, k)
    <3>1. /\ events' = Append(events, e("sub")) /\ UNCHANGED <<subs, deaf>>
          /\ lost' = lost \ {<<d, k>>} /\ wanted' = wanted \cup {<<d, k>>}
      BY <2>2 DEF SubscribeTo, Request, Queue
    <3>2. QED
      BY <1>0, <2>1, <3>1, PendingAppend DEF Speaks
  <2>3. CASE Unsubscribe(d, k)
    <3>1. /\ events' = Append(events, e("unsub")) /\ UNCHANGED <<subs, deaf>>
          /\ lost' = lost \ {<<d, k>>} /\ wanted' = wanted \ {<<d, k>>}
      BY <2>3 DEF Unsubscribe, Request, Queue
    <3>2. QED
      BY <1>0, <2>1, <3>1, PendingAppend DEF Speaks
  <2>4. QED
    BY <1>1, <2>2, <2>3
<1>2. ASSUME NEW d \in Conns, DropConn(d) PROVE Pending(c, ch)' <=> <<c, ch>> \in wanted'
  <2> DEFINE e == [op |-> "drop", conn |-> d]
  <2>1. e \in Event
    BY DEF Event
  <2>2. <<c, ch>> \in wanted' <=> <<c, ch>> \in wanted /\ c # d
    BY <1>2 DEF DropConn
  <2>3. UNCHANGED <<subs, deaf>>
    BY <1>2 DEF DropConn
  <2>4. CASE events' = Append(events, e) /\ lost' = {p \in lost : p[1] # d}
    BY <1>0, <2>1, <2>2, <2>3, <2>4, PendingAppend DEF Speaks
  <2>5. CASE UNCHANGED events /\ lost' = lost \cup ({d} \X Channels)
    BY <1>0, <2>2, <2>3, <2>5 DEF Pending
  <2>6. QED
    BY <1>2, <2>4, <2>5 DEF DropConn
<1>3. CASE Fail
  <2>1. \A i \in DOMAIN events : ~Speaks(events[i], c, ch)
    BY <1>3 DEF Fail, Speaks
  <2>2. Pending(c, ch) <=> c \in subs[ch]
    BY <2>1 DEF Pending, Speaks
  <2>3. Pending(c, ch)' <=> c \in subs[ch]
    BY <1>3 DEF Fail, Pending
  <2>4. QED
    BY <1>0, <1>3, <2>2, <2>3 DEF Fail
<1>4. CASE HandleEvent
  <2>1. events # << >> /\ events' = Tail(events) /\ UNCHANGED <<deaf, lost, wanted>>
    BY <1>4 DEF HandleEvent
  <2>2. QED
    BY <1>0, <1>4, <2>1, TableChanges, PendingTail
<1>5. ASSUME NEW k \in Channels, HandleMessage(k) PROVE Pending(c, ch)' <=> <<c, ch>> \in wanted'
  BY <1>0, <1>5 DEF HandleMessage, Pending, TypeInv
<1>6. CASE \/ Connect \/ Open \/ AskRedis \/ Restart \/ BreakLink \/ UNCHANGED pubsubVars
           \/ \E d \in Conns : CloseReceiver(d)
  <2>1. UNCHANGED <<subs, events, lost, wanted>> /\ deaf \subseteq deaf'
    BY <1>6 DEF Connect, Open, AskRedis, Restart, BreakLink, pubsubVars, CloseReceiver
  <2>2. QED
    BY <1>0, <2>1 DEF Pending
<1>7. QED
  BY <1>1, <1>2, <1>3, <1>4, <1>5, <1>6 DEF PubSubNext, Listener

\* The routing table follows the calls and Redis follows the table, for any
\* number of connections, broken links and restarts of the listener.
THEOREM SpecRoutingFollowsCalls == PubSubSpec => []RoutingFollowsCalls
<1>1. PubSubInit => TableInv
  <2> SUFFICES ASSUME PubSubInit PROVE TableInv
    OBVIOUS
  <2>1. TypeInv
    <3>1. events = << >> /\ << >> \in Seq(Event)
      BY DEF PubSubInit
    <3>2. QED
      BY <3>1 DEF PubSubInit, TypeInv, Pairs
  <2>2. RedisInv
    BY DEF PubSubInit, RedisInv, Todo
  <2>3. TableFollowsCalls
    <3>1. DOMAIN events = {}
      BY DEF PubSubInit
    <3>2. QED
      BY <3>1 DEF PubSubInit, TableFollowsCalls, Pending
  <2>4. QED
    BY <2>1, <2>2, <2>3 DEF TableInv
<1>2. TableInv /\ [PubSubNext]_pubsubVars => TableInv'
  BY TypeStep, RedisStep, TableStep DEF TableInv
<1>3. TableInv => RoutingFollowsCalls
  <2> SUFFICES ASSUME TableInv, stage = "loop", linkUp PROVE subscribed = keys
    BY DEF TableInv, RedisInv, RoutingFollowsCalls, RedisFollowsTable
  <2> QED
    BY DEF TableInv, TypeInv, RedisInv, Todo
<1>4. QED
  BY <1>1, <1>2, <1>3, PTL DEF PubSubSpec
=============================================================================
