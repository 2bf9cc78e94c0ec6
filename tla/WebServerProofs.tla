-------------------------- MODULE WebServerProofs --------------------------
(***************************************************************************)
(* Proofs about WebServer, for every number of requests and workers, every *)
(* application, and channels and bodies of every size.                     *)
(***************************************************************************)
EXTENDS WebServer, SequenceTheorems, FiniteSetTheorems, TLAPS

Conns == {"new", "buffering", "environ", "app", "answered", "upgraded", "body", "over", "gone"}
Calls == {"idle", "running", "ok", "failed", "rejects", "misrejects", "lost"}
Codes == {"none", "200", "101", "400", "403", "500", "unsupported"}
Databases == {"none", "open", "shared", "closed"}
Frames == [coming : Nat, waiting : Nat, read : Nat]
Process == [state : Calls, at : Nat \ {0}]
Message == Sending \X (Nat \ {0})
Kinds == {"wsgi", "asgi", "gql", "sub"}

AppType(r) ==
  /\ app[r] \in [kind : Kinds, head : {"good", "path", "header"}, frames : Nat,
                 call : Seq(MayCall(Kind(r))), items : Seq(MayGive(Kind(r)))]
  /\ Kind(r) = "gql" => Items(r) = << >>

TypeInv ==
  /\ \A r \in Requests : AppType(r)
  /\ conn \in [Requests -> Conns]
  /\ client \in [Requests -> {"here", "left"}]
  /\ intake \in [Requests -> Frames]
  /\ told \in [Requests -> BOOLEAN]
  /\ py \in [Requests -> Process]
  /\ out \in [Requests -> Seq(Message)]
  /\ fed \in [Requests -> BOOLEAN]
  /\ chan \in [Requests -> Seq(Nat)]
  /\ got \in [Requests -> Seq(Nat)]
  /\ status \in [Requests -> Codes]
  /\ done \in [Requests -> BOOLEAN]
  /\ database \in [Requests -> Databases]

-----------------------------------------------------------------------------
(* One request. *)

\* How far it is, on either side.
Place(r) ==
  /\ client[r] = "left" => conn[r] \in {"gone", "body", "over"}
  /\ conn[r] = "gone" => client[r] = "left"
  /\ conn[r] = "buffering" => Kind(r) = "wsgi"
  /\ conn[r] = "upgraded" => Kind(r) = "sub"
  /\ conn[r] \in {"new", "buffering", "environ"} => py[r].state = "idle"
  /\ conn[r] = "app" => py[r].state # "idle"
  /\ conn[r] \in {"answered", "upgraded", "body"} => py[r].state \notin {"idle", "running"}
  /\ py[r].state = "idle" => py[r].at = 1 /\ out[r] = << >>
  /\ conn[r] = "over" => status[r] \notin {"none", "200", "101"}
  /\ conn[r] \notin {"body", "over"} => ~fed[r] /\ ~done[r]
  /\ conn[r] # "body" \/ Kind(r) = "gql" => got[r] = << >> /\ chan[r] = << >>
  /\ done[r] => fed[r] /\ chan[r] = << >> /\ client[r] = "here"
  /\ Kind(r) = "gql" /\ conn[r] = "body" => fed[r] /\ database[r] \in {"closed", "shared"}

\* The body of the request.
Intake(r) ==
  /\ intake[r].coming + intake[r].waiting + intake[r].read = app[r].frames
  /\ told[r] /\ client[r] = "here" => intake[r].coming = 0 /\ intake[r].waiting = 0

Has(r, step) == \E i \in 1..Len(Call(r)) : Call(r)[i] = step
StartsAt(r) == {i \in 1..Len(Call(r)) : Call(r)[i] = "start"}
SentAt(r) == {i \in 1..Len(Call(r)) : Call(r)[i] \in Sending}
StartsTwice(r) == \E i, j \in StartsAt(r) : i # j
SpeaksEarly(r) == \E i \in SentAt(r) \ StartsAt(r) : \A j \in StartsAt(r) : i < j

\* Why a call did not end well, and why a request was refused.
Causes(r) ==
  /\ py[r].state = "failed" /\ conn[r] # "gone" =>
       Has(r, "raise") \/ (Kind(r) = "wsgi" /\ StartsTwice(r))
  /\ py[r].state = "lost" => build = "free" /\ Kind(r) # "asgi" /\ Has(r, "puff")
  /\ py[r].state = "rejects" => Has(r, "reject")
  /\ py[r].state = "misrejects" => Has(r, "misreject")
  /\ status[r] = "unsupported" => build = "free"
  /\ status[r] = "400" => app[r].head = "path"
  /\ status[r] = "403" => Has(r, "reject")
  /\ status[r] = "500" =>
       \/ Has(r, "raise") \/ SpeaksEarly(r)
       \/ ~GraphQL(r) /\ StartsAt(r) = {}
       \/ Kind(r) = "wsgi" /\ (StartsTwice(r) \/ app[r].frames > BodyLimit \/ app[r].head = "header")
       \/ Kind(r) # "asgi" /\ build = "free" /\ Has(r, "puff")

\* What auth has been asked, and has let in.
Asked(r) ==
  GraphQL(r) =>
    /\ py[r].state = "running" => \A i \in 1..Len(Call(r)) : i < py[r].at => Call(r)[i] = "puff"
    /\ py[r].state = "ok" => ~Has(r, "reject")
    /\ Kind(r) = "gql" /\ database[r] # "none" => LetIn(r)
    /\ status[r] \in {"200", "101"} => ~Has(r, "reject") \/ Has(r, "misreject")

\* What the application has sent waits in its order.
Outbox(r) ==
  /\ \A n \in 1..Len(out[r]) :
       out[r][n][2] \in SentAt(r) /\ out[r][n][1] = Call(r)[out[r][n][2]]
  /\ \A n, m \in 1..Len(out[r]) : n < m => out[r][n][2] < out[r][m][2]
  /\ py[r].state = "running" => \A n \in 1..Len(out[r]) : out[r][n][2] < py[r].at
  /\ conn[r] \in {"app", "answered"} =>
       /\ py[r].state \in {"running", "ok"} =>
            \A i \in SentAt(r) : i < py[r].at => \E n \in 1..Len(out[r]) : out[r][n][2] = i
       /\ py[r].state = "ok" => py[r].at > Len(Call(r))

\* The parts that the client has or will have.
Parts(r) == got[r] \o chan[r]

Covers(s, meant) == \A p \in meant : \E j \in 1..Len(s) : s[j] = p

\* Everything meant that has been passed is there, and nothing else.
Pumped(r) ==
  /\ Begins(Parts(r), Meant(r))
  /\ ~fed[r] =>
       /\ \A j \in 1..Len(Parts(r)) : Parts(r)[j] < py[r].at
       /\ \A p \in Meant(r) : p < py[r].at => \E j \in 1..Len(Parts(r)) : Parts(r)[j] = p
       /\ \A i \in 1..Len(Items(r)) : i < py[r].at =>
            Items(r)[i] # "forever" /\ (Kind(r) = "sub" => Items(r)[i] = "more")
  /\ fed[r] => Covers(Parts(r), Meant(r))

Forwarded(r) ==
  /\ \E s \in StartsAt(r) :
       /\ \A i \in SentAt(r) :
            \/ i = s
            \/ s < i /\ \E j \in 1..Len(Parts(r)) : Parts(r)[j] = i
            \/ s < i /\ \E n \in 1..Len(out[r]) : out[r][n][2] = i
       /\ \A n \in 1..Len(out[r]) : s < out[r][n][2]
  /\ \A j \in 1..Len(Parts(r)), n \in 1..Len(out[r]) : Parts(r)[j] < out[r][n][2]
  /\ Begins(Parts(r), Meant(r))
  /\ ~fed[r] => \A j \in 1..Len(Parts(r)) : Call(r)[Parts(r)[j]] = "more"
  /\ fed[r] => Covers(Parts(r), Meant(r))

Bodies(r) ==
  /\ Begins(got[r], Meant(r))
  /\ Kind(r) = "wsgi" => Len(chan[r]) <= WsgiRoom
  /\ Kind(r) = "asgi" => Len(chan[r]) <= AsgiRoom
  /\ conn[r] = "body" /\ client[r] = "here" =>
       /\ Kind(r) \in {"wsgi", "sub"} => Pumped(r)
       /\ Kind(r) = "asgi" => Forwarded(r)

RequestInv(r) == Place(r) /\ Intake(r) /\ Causes(r) /\ Outbox(r) /\ Bodies(r)
IInv == TypeInv /\ \A r \in Requests : RequestInv(r) /\ Asked(r)

-----------------------------------------------------------------------------
(* What a step leaves alone. *)

KeepsPlace(r) ==
  /\ conn'[r] = conn[r] /\ client'[r] = client[r] /\ py'[r] = py[r] /\ out'[r] = out[r]
  /\ status'[r] = status[r] /\ fed'[r] = fed[r] /\ done'[r] = done[r] /\ got'[r] = got[r]
  /\ chan'[r] = chan[r] /\ database'[r] = database[r]
KeepsIntake(r) == intake'[r] = intake[r] /\ told'[r] = told[r] /\ client'[r] = client[r]
KeepsCauses(r) ==
  /\ py'[r].state = py[r].state /\ status'[r] = status[r]
  /\ conn[r] = "gone" => conn'[r] = "gone"
KeepsOutbox(r) ==
  /\ out'[r] = out[r] /\ py'[r] = py[r]
  /\ conn'[r] \in {"app", "answered"} => conn[r] \in {"app", "answered"}
KeepsBodies(r) ==
  /\ got'[r] = got[r] /\ chan'[r] = chan[r]
  /\ \/ conn'[r] # "body"
     \/ client'[r] = "left"
     \/ /\ conn'[r] = conn[r] /\ client'[r] = client[r] /\ fed'[r] = fed[r]
        /\ py'[r].at = py[r].at /\ out'[r] = out[r]
Keeps(r) == KeepsPlace(r) /\ KeepsIntake(r)

LEMMA AppStays ==
  ASSUME UNCHANGED fixed, NEW r \in Requests
  PROVE  /\ Kind(r)' = Kind(r) /\ Call(r)' = Call(r) /\ Items(r)' = Items(r)
         /\ app'[r] = app[r] /\ build' = build
         /\ Meant(r)' = Meant(r)
         /\ SentAt(r)' = SentAt(r) /\ StartsAt(r)' = StartsAt(r)
         /\ \A step : Has(r, step)' = Has(r, step)
         /\ StartsTwice(r)' = StartsTwice(r) /\ SpeaksEarly(r)' = SpeaksEarly(r)
<1>1. app' = app /\ build' = build
  BY DEF fixed
<1>2. Kind(r)' = Kind(r) /\ Call(r)' = Call(r) /\ Items(r)' = Items(r)
  BY <1>1 DEF Kind, Call, Items
<1>3. Meant(r)' = Meant(r)
  BY <1>2 DEF Meant
<1>4. SentAt(r)' = SentAt(r) /\ StartsAt(r)' = StartsAt(r)
  BY <1>2 DEF SentAt, StartsAt
<1>5. \A step : Has(r, step)' = Has(r, step)
  BY <1>2 DEF Has
<1>6. StartsTwice(r)' = StartsTwice(r) /\ SpeaksEarly(r)' = SpeaksEarly(r)
  BY <1>4 DEF StartsTwice, SpeaksEarly
<1>7. QED
  BY <1>1, <1>2, <1>3, <1>4, <1>5, <1>6

LEMMA PlaceKept ==
  ASSUME UNCHANGED fixed, NEW r \in Requests, KeepsPlace(r), Place(r)
  PROVE  Place(r)'
BY AppStays DEF Place, KeepsPlace

LEMMA IntakeKept ==
  ASSUME UNCHANGED fixed, NEW r \in Requests, KeepsIntake(r), Intake(r)
  PROVE  Intake(r)'
BY AppStays DEF Intake, KeepsIntake

LEMMA CausesKept ==
  ASSUME UNCHANGED fixed, NEW r \in Requests, KeepsCauses(r), Causes(r)
  PROVE  Causes(r)'
BY AppStays DEF Causes, KeepsCauses, GraphQL

LEMMA OutboxKept ==
  ASSUME UNCHANGED fixed, NEW r \in Requests, KeepsOutbox(r), Outbox(r)
  PROVE  Outbox(r)'
BY AppStays DEF Outbox, KeepsOutbox

LEMMA BodiesKept ==
  ASSUME UNCHANGED fixed, NEW r \in Requests, KeepsBodies(r), Bodies(r)
  PROVE  Bodies(r)'
<1>1. got'[r] = got[r] /\ chan'[r] = chan[r]
  BY DEF KeepsBodies
<1>2. Parts(r)' = Parts(r)
  BY <1>1 DEF Parts
<1>3. CASE conn'[r] # "body" \/ client'[r] # "here"
  BY <1>1, <1>3, AppStays DEF Bodies, Begins
<1>4. CASE /\ conn'[r] = conn[r] /\ client'[r] = client[r] /\ fed'[r] = fed[r]
           /\ py'[r].at = py[r].at /\ out'[r] = out[r]
  <2>1. Pumped(r) => Pumped(r)'
    <3>1. /\ Begins(Parts(r), Meant(r))' = Begins(Parts(r), Meant(r))
          /\ Covers(Parts(r), Meant(r))' = Covers(Parts(r), Meant(r))
      BY <1>2, AppStays DEF Begins, Covers
    <3>2. QED
      BY <1>1, <1>2, <1>4, <3>1, AppStays DEF Pumped
  <2>2. Forwarded(r) => Forwarded(r)'
    <3>1. Begins(Parts(r), Meant(r))' = Begins(Parts(r), Meant(r))
      BY <1>2, AppStays DEF Begins
    <3>2. Covers(Parts(r), Meant(r))' = Covers(Parts(r), Meant(r))
      BY <1>2, AppStays DEF Covers
    <3>3. QED
      BY <1>1, <1>2, <1>4, <3>1, <3>2, AppStays DEF Forwarded
  <2>3. QED
    BY <1>1, <1>4, <2>1, <2>2, AppStays DEF Bodies, Begins
<1>5. QED
  BY <1>3, <1>4 DEF KeepsBodies

LEMMA RequestKept ==
  ASSUME UNCHANGED fixed, NEW r \in Requests, Keeps(r), RequestInv(r)
  PROVE  RequestInv(r)'
<1>1. KeepsPlace(r) /\ KeepsIntake(r) /\ KeepsCauses(r) /\ KeepsOutbox(r) /\ KeepsBodies(r)
  BY DEF Keeps, KeepsPlace, KeepsIntake, KeepsCauses, KeepsOutbox, KeepsBodies
<1>2. QED
  BY <1>1, PlaceKept, IntakeKept, CausesKept, OutboxKept, BodiesKept DEF RequestInv

-----------------------------------------------------------------------------
(* Types. *)

Typed ==
  /\ conn \in [Requests -> Conns]
  /\ client \in [Requests -> {"here", "left"}]
  /\ intake \in [Requests -> Frames]
  /\ told \in [Requests -> BOOLEAN]
  /\ py \in [Requests -> Process]
  /\ out \in [Requests -> Seq(Message)]
  /\ fed \in [Requests -> BOOLEAN]
  /\ chan \in [Requests -> Seq(Nat)]
  /\ got \in [Requests -> Seq(Nat)]
  /\ status \in [Requests -> Codes]
  /\ done \in [Requests -> BOOLEAN]
  /\ database \in [Requests -> Databases]

LEMMA HandlerTypes ==
  ASSUME Typed, NEW r \in Requests, HandlerStep(r) PROVE Typed'
<1>p. py \in [Requests -> Process]
  BY DEF Typed
<1>o. out \in [Requests -> Seq(Message)]
  BY DEF Typed
<1>1. CASE Arrive(r)
  BY <1>1 DEF Arrive, Typed, bootVars, Conns
<1>2. CASE Buffered(r)
  BY <1>2 DEF Buffered, Refuse, Typed, bootVars, Conns, Codes
<1>3. CASE Dispatch(r)
  <2>1. conn' \in [Requests -> Conns] /\ status' \in [Requests -> Codes] /\ fed' \in [Requests -> BOOLEAN]
    <3>1. Unfit(r) \in Codes
      BY DEF Unfit, Codes
    <3>2. QED
      BY <1>3, <3>1 DEF Dispatch, Refuse, Typed, Conns, Codes
  <2>2. py' \in [Requests -> Process]
    <3>1. CASE py' = [py EXCEPT ![r].state = "running"]
      BY <1>p, <3>1 DEF Process, Calls
    <3>2. QED
      BY <1>p, <1>3, <3>1 DEF Dispatch
  <2>3. QED
    BY <1>3, <2>1, <2>2 DEF Dispatch, Typed, bootVars
<1>4. CASE Returned(r)
  BY <1>4 DEF Returned, Typed, bootVars, Conns
<1>5. CASE WsgiResponds(r)
  <2>1. conn' \in [Requests -> Conns] /\ status' \in [Requests -> Codes] /\ fed' \in [Requests -> BOOLEAN]
    BY <1>5 DEF WsgiResponds, Refuse, Typed, Conns, Codes
  <2>2. py' \in [Requests -> Process]
    <3>1. py' = [py EXCEPT ![r].at = 1]
      BY <1>5 DEF WsgiResponds
    <3>2. QED
      BY <1>p, <3>1 DEF Process
  <2>3. QED
    BY <1>5, <2>1, <2>2 DEF WsgiResponds, Typed, bootVars
<1>6. CASE AsgiResponds(r)
  <2>1. conn' \in [Requests -> Conns] /\ status' \in [Requests -> Codes] /\ fed' \in [Requests -> BOOLEAN]
    BY <1>6 DEF AsgiResponds, Refuse, Typed, Conns, Codes
  <2>2. out' \in [Requests -> Seq(Message)]
    <3>1. CASE out[r] # << >> /\ out' = [out EXCEPT ![r] = Tail(@)]
      BY <1>o, <3>1
    <3>2. QED
      BY <1>o, <1>6, <3>1 DEF AsgiResponds
  <2>3. QED
    BY <1>6, <2>1, <2>2 DEF AsgiResponds, Typed, bootVars
<1>7. CASE GqlAuthorised(r)
  <2>1. conn' \in [Requests -> Conns] /\ status' \in [Requests -> Codes] /\ fed' \in [Requests -> BOOLEAN]
    BY <1>7 DEF GqlAuthorised, Rejected, Refuse, Typed, Conns, Codes
  <2>2. database' \in [Requests -> Databases]
    <3>1. \/ database' = database \/ database' = [database EXCEPT ![r] = "open"]
          \/ database' = [database EXCEPT ![r] = "shared"]
      BY <1>7 DEF GqlAuthorised
    <3>2. QED
      BY <3>1 DEF Typed, Databases
  <2>3. QED
    BY <1>7, <2>1, <2>2 DEF GqlAuthorised, Typed, bootVars
<1>8. CASE GqlAnswers(r)
  BY <1>8 DEF GqlAnswers, AfterQuery, Typed, bootVars, Conns, Codes, Databases
<1>9. CASE SubscriptionAuthorised(r)
  BY <1>9 DEF SubscriptionAuthorised, Rejected, Refuse, Typed, bootVars, Conns, Codes
<1>10. CASE SubscriptionUnsupported(r)
  BY <1>10 DEF SubscriptionUnsupported, Refuse, Typed, bootVars, Conns, Codes
<1>11. CASE Subscribe(r)
  <2>1. py' \in [Requests -> Process]
    <3>1. py' = [py EXCEPT ![r].at = 1]
      BY <1>11 DEF Subscribe
    <3>2. QED
      BY <1>p, <3>1 DEF Process
  <2>2. QED
    BY <1>11, <2>1 DEF Subscribe, Typed, bootVars, Conns
<1>12. QED
  BY <1>1, <1>2, <1>3, <1>4, <1>5, <1>6, <1>7, <1>8, <1>9, <1>10, <1>11 DEF HandlerStep

LEMMA ApplicationTypes ==
  ASSUME Typed, NEW r \in Requests, Application(r) PROVE Typed'
<1>p. py \in [Requests -> Process]
  BY DEF Typed
<1>i. intake \in [Requests -> Frames]
  BY DEF Typed
<1>o. out \in [Requests -> Seq(Message)]
  BY DEF Typed
<1>c. chan \in [Requests -> Seq(Nat)]
  BY DEF Typed
<1>g. ASSUME NEW how \in Calls, Go(r, how) PROVE py' \in [Requests -> Process]
  BY <1>p, <1>g DEF Go, Process
<1>u. /\ "ok" \in Calls /\ "failed" \in Calls /\ "rejects" \in Calls
      /\ "misrejects" \in Calls /\ "lost" \in Calls /\ "running" \in Calls
  BY DEF Calls
<1>1. CASE Ends(r)
  BY <1>1, <1>g, <1>u DEF Ends, Typed, bootVars
<1>2. CASE Fails(r)
  BY <1>2, <1>g, <1>u DEF Fails, Typed, bootVars
<1>3. CASE UsesPuff(r)
  BY <1>3, <1>g, <1>u DEF UsesPuff, Typed, bootVars
<1>4. CASE Sends(r)
  <2>1. py' \in [Requests -> Process]
    BY <1>4, <1>g, <1>u DEF Sends
  <2>2. <<Step(r), py[r].at>> \in Message
    <3>1. py[r] \in Process
      BY <1>p
    <3>2. QED
      BY <1>4, <3>1 DEF Sends, Process, Message
  <2>3. out' \in [Requests -> Seq(Message)]
    <3>1. CASE out' = [out EXCEPT ![r] = Append(@, <<Step(r), py[r].at>>)]
      <4> DEFINE m == <<Step(r), py[r].at>>
      <4>1. m \in Message /\ out' = [out EXCEPT ![r] = Append(@, m)]
        BY <2>2, <3>1
      <4> HIDE DEF m
      <4>2. QED
        BY <1>o, <4>1
    <3>2. QED
      BY <1>o, <1>4, <3>1 DEF Sends
  <2>4. QED
    BY <1>4, <2>1, <2>3 DEF Sends, Typed, bootVars
<1>5. CASE Receives(r)
  <2>1. py' \in [Requests -> Process]
    BY <1>5, <1>g, <1>u DEF Receives, Typed
  <2>2. told' \in [Requests -> BOOLEAN]
    BY <1>5 DEF Receives, Typed
  <2>3. intake' \in [Requests -> Frames]
    <3>1. CASE /\ intake[r].waiting > 0
               /\ intake' = [intake EXCEPT ![r].waiting = @ - 1, ![r].read = @ + 1]
      <4>1. intake[r] \in Frames
        BY <1>i
      <4>2. intake[r].waiting - 1 \in Nat /\ intake[r].read + 1 \in Nat
        BY <3>1, <4>1 DEF Frames
      <4>3. QED
        BY <1>i, <3>1, <4>2 DEF Frames
    <3>2. QED
      BY <1>i, <1>5, <3>1 DEF Receives
  <2>4. QED
    BY <1>5, <2>1, <2>2, <2>3 DEF Receives, Typed, bootVars
<1>6. CASE Publish(r)
  <2>1. py' \in [Requests -> Process]
    <3>1. py' = [py EXCEPT ![r].at = @ + 1]
      BY <1>6 DEF Publish
    <3>2. py[r].at + 1 \in Nat \ {0}
      BY <1>p DEF Process
    <3>3. QED
      BY <1>p, <3>1, <3>2 DEF Process
  <2>2. told' \in [Requests -> BOOLEAN] /\ chan' \in [Requests -> Seq(Nat)]
    <3>1. py[r].at \in Nat
      BY <1>p DEF Process
    <3>2. ASSUME chan' = [chan EXCEPT ![r] = Append(@, py[r].at)]
          PROVE  chan' \in [Requests -> Seq(Nat)]
      <4>1. chan[r] \in Seq(Nat)
        BY <1>c
      <4>2. Append(chan[r], py[r].at) \in Seq(Nat)
        BY <3>1, <4>1
      <4> DEFINE parts == Append(chan[r], py[r].at)
      <4>3. parts \in Seq(Nat) /\ chan' = [chan EXCEPT ![r] = parts]
        BY <3>2, <4>2
      <4> HIDE DEF parts
      <4>4. QED
        BY <1>c, <4>3
    <3>3. chan' \in [Requests -> Seq(Nat)]
      BY <1>c, <1>6, <3>2 DEF Publish
    <3>4. told' \in [Requests -> BOOLEAN]
      BY <1>6 DEF Publish, Typed
    <3>5. QED
      BY <3>3, <3>4
  <2>3. database' \in [Requests -> Databases]
    BY <1>6 DEF Publish, Typed, Databases
  <2>4. QED
    BY <1>6, <2>1, <2>2, <2>3 DEF Publish, Typed, bootVars
<1>7. CASE AcceptorEnds(r)
  BY <1>7 DEF AcceptorEnds, Typed, bootVars
<1>8. QED
  BY <1>1, <1>2, <1>3, <1>4, <1>5, <1>6, <1>7 DEF Application

LEMMA BodyTypes ==
  ASSUME Typed, NEW r \in Requests, Body(r) PROVE Typed'
<1>p. py \in [Requests -> Process]
  BY DEF Typed
<1>o. out \in [Requests -> Seq(Message)]
  BY DEF Typed
<1>c. chan \in [Requests -> Seq(Nat)]
  BY DEF Typed
<1>1. CASE PumpBegins(r)
  BY <1>1 DEF PumpBegins, Typed, bootVars
<1>2. CASE Pump(r)
  <2>1. fed' \in [Requests -> BOOLEAN] /\ chan' \in [Requests -> Seq(Nat)]
    <3>1. py[r].at \in Nat
      BY <1>p DEF Process
    <3>2. ASSUME chan' = [chan EXCEPT ![r] = Append(@, py[r].at)]
          PROVE  chan' \in [Requests -> Seq(Nat)]
      <4>1. chan[r] \in Seq(Nat)
        BY <1>c
      <4>2. Append(chan[r], py[r].at) \in Seq(Nat)
        BY <3>1, <4>1
      <4> DEFINE parts == Append(chan[r], py[r].at)
      <4>3. parts \in Seq(Nat) /\ chan' = [chan EXCEPT ![r] = parts]
        BY <3>2, <4>2
      <4> HIDE DEF parts
      <4>4. QED
        BY <1>c, <4>3
    <3>3. chan' \in [Requests -> Seq(Nat)]
      BY <1>c, <1>2, <3>2 DEF Pump
    <3>4. fed' \in [Requests -> BOOLEAN]
      BY <1>2 DEF Pump, PumpEnds, Typed
    <3>5. QED
      BY <3>3, <3>4
  <2>2. py' \in [Requests -> Process]
    <3>1. py[r].at + 1 \in Nat \ {0}
      BY <1>p DEF Process
    <3>2. CASE py' = [py EXCEPT ![r].at = @ + 1]
      BY <1>p, <3>1, <3>2 DEF Process
    <3>3. QED
      BY <1>p, <1>2, <3>2 DEF Pump
  <2>3. QED
    BY <1>2, <2>1, <2>2 DEF Pump, Typed, bootVars
<1>3. CASE Forward(r)
  <2>1. out[r] # << >> => Head(out[r]) \in Message
    <3>1. out[r] \in Seq(Message)
      BY <1>o
    <3>2. QED
      BY <3>1
  <2>2. fed' \in [Requests -> BOOLEAN] /\ chan' \in [Requests -> Seq(Nat)]
    <3>1. fed' \in [Requests -> BOOLEAN]
      BY <1>3 DEF Forward, Typed
    <3>2. ASSUME out[r] # << >>, chan' = [chan EXCEPT ![r] = Append(@, Head(out[r])[2])]
          PROVE  chan' \in [Requests -> Seq(Nat)]
      <4> DEFINE p == Head(out[r])[2]
      <4>1. p \in Nat /\ chan' = [chan EXCEPT ![r] = Append(@, p)]
        BY <2>1, <3>2 DEF Message
      <4> HIDE DEF p
      <4>2. QED
        <5>1. chan[r] \in Seq(Nat)
          BY <1>c
        <5>2. Append(chan[r], p) \in Seq(Nat)
          BY <4>1, <5>1
        <5> DEFINE parts == Append(chan[r], p)
        <5>3. parts \in Seq(Nat) /\ chan' = [chan EXCEPT ![r] = parts]
          BY <4>1, <5>2
        <5> HIDE DEF parts
        <5>4. QED
          BY <1>c, <5>3
    <3>3. chan' \in [Requests -> Seq(Nat)]
      BY <1>c, <1>3, <3>2 DEF Forward
    <3>4. QED
      BY <3>1, <3>3
  <2>3. out' \in [Requests -> Seq(Message)]
    <3>1. CASE out[r] # << >> /\ out' = [out EXCEPT ![r] = Tail(@)]
      BY <1>o, <3>1
    <3>2. QED
      BY <1>o, <1>3, <3>1 DEF Forward
  <2>4. QED
    BY <1>3, <2>2, <2>3 DEF Forward, Typed, bootVars
<1>4. QED
  BY <1>1, <1>2, <1>3 DEF Body

LEMMA ClientTypes ==
  ASSUME Typed, NEW r \in Requests, Frame(r) \/ ClientReads(r) \/ ClientLeaves(r) PROVE Typed'
<1>i. intake \in [Requests -> Frames]
  BY DEF Typed
<1>c. chan \in [Requests -> Seq(Nat)]
  BY DEF Typed
<1>r. got \in [Requests -> Seq(Nat)]
  BY DEF Typed
<1>1. CASE Frame(r)
  <2>1. intake' \in [Requests -> Frames]
    <3>1. intake[r] \in Frames /\ intake[r].coming > 0
      BY <1>i, <1>1 DEF Frame
    <3>2. intake[r].coming - 1 \in Nat /\ intake[r].waiting + 1 \in Nat
      BY <3>1 DEF Frames
    <3>3. intake' = [intake EXCEPT ![r].coming = @ - 1, ![r].waiting = @ + 1]
      BY <1>1 DEF Frame
    <3>4. QED
      BY <1>i, <3>2, <3>3 DEF Frames
  <2>2. QED
    BY <1>1, <2>1 DEF Frame, Typed, bootVars
<1>2. CASE ClientReads(r)
  <2>1. got' \in [Requests -> Seq(Nat)] /\ chan' \in [Requests -> Seq(Nat)] /\ done' \in [Requests -> BOOLEAN]
    <3>1. done' \in [Requests -> BOOLEAN]
      BY <1>2 DEF ClientReads, Typed
    <3>2. CASE chan[r] # << >>
      <4>1. chan[r] \in Seq(Nat)
        BY <1>c
      <4>2. Head(chan[r]) \in Nat /\ Tail(chan[r]) \in Seq(Nat)
        BY <3>2, <4>1
      <4>3. chan' = [chan EXCEPT ![r] = Tail(@)] /\ got' = [got EXCEPT ![r] = Append(@, Head(chan[r]))]
        BY <1>2, <3>2 DEF ClientReads
      <4>4. chan' \in [Requests -> Seq(Nat)]
        BY <1>c, <4>2, <4>3
      <4>5. got' \in [Requests -> Seq(Nat)]
        BY <1>r, <4>2, <4>3
      <4>6. QED
        BY <3>1, <4>4, <4>5
    <3>3. CASE chan[r] = << >>
      BY <1>2, <1>c, <1>r, <3>1, <3>3 DEF ClientReads
    <3>4. QED
      BY <3>2, <3>3
  <2>2. QED
    BY <1>2, <2>1 DEF ClientReads, Typed, bootVars
<1>3. CASE ClientLeaves(r)
  BY <1>3 DEF ClientLeaves, Typed, bootVars, Conns
<1>4. QED
  BY <1>1, <1>2, <1>3

LEMMA FixedStays == [Next]_vars => UNCHANGED fixed
<1>1. Boot => UNCHANGED fixed
  BY DEF Boot, StartServices, ServiceUsesContext, ServiceRestarts, SetContext, Lifespan, LifespanShutdown
<1>2. ASSUME NEW r \in Requests, HandlerStep(r) PROVE UNCHANGED fixed
  BY <1>2 DEF HandlerStep, Arrive, Buffered, Dispatch, Returned, WsgiResponds, AsgiResponds, GqlAuthorised,
         GqlAnswers, SubscriptionAuthorised, SubscriptionUnsupported, Subscribe
<1>3. ASSUME NEW r \in Requests, Application(r) PROVE UNCHANGED fixed
  BY <1>3 DEF Application, Ends, Fails, UsesPuff, Sends, Receives, Publish, AcceptorEnds
<1>4. ASSUME NEW r \in Requests, Body(r) PROVE UNCHANGED fixed
  BY <1>4 DEF Body, PumpBegins, Pump, Forward
<1>5. ASSUME NEW r \in Requests, Frame(r) \/ ClientReads(r) \/ ClientLeaves(r) PROVE UNCHANGED fixed
  BY <1>5 DEF Frame, ClientReads, ClientLeaves
<1>6. ASSUME NEW t, WaitForGil(t) PROVE UNCHANGED fixed
  BY <1>6 DEF WaitForGil
<1>7. UNCHANGED vars => UNCHANGED fixed
  BY DEF vars, fixed
<1>8. QED
  BY <1>1, <1>2, <1>3, <1>4, <1>5, <1>6, <1>7 DEF Next

\* The steps of the start, and of a task that begins to wait.
LEMMA QuietStep ==
  ASSUME Boot \/ (\E t : WaitForGil(t)) \/ UNCHANGED vars
  PROVE  UNCHANGED <<fixed, conn, client, intake, told, py, out, fed, chan, got, status, done, database>>
<1>1. CASE Boot
  BY <1>1 DEF Boot, StartServices, ServiceUsesContext, ServiceRestarts, SetContext, Lifespan, LifespanShutdown
<1>2. CASE \E t : WaitForGil(t)
  BY <1>2 DEF WaitForGil
<1>3. CASE UNCHANGED vars
  BY <1>3 DEF vars, fixed
<1>4. QED
  BY <1>1, <1>2, <1>3

LEMMA TypeStep == TypeInv /\ [Next]_vars => TypeInv'
<1> SUFFICES ASSUME TypeInv, [Next]_vars PROVE TypeInv'
  OBVIOUS
<1>1. Typed
  BY DEF TypeInv, Typed
<1>2. \A r \in Requests : AppType(r)'
  BY FixedStays, AppStays DEF TypeInv, AppType
<1>3. Typed'
  <2>1. CASE Boot \/ (\E t : WaitForGil(t)) \/ UNCHANGED vars
    BY <1>1, <2>1, QuietStep DEF Typed
  <2>2. CASE \E r \in Requests : HandlerStep(r) \/ Application(r) \/ Body(r) \/ Frame(r) \/ ClientReads(r)
                                   \/ ClientLeaves(r)
    BY <1>1, <2>2, HandlerTypes, ApplicationTypes, BodyTypes, ClientTypes
  <2>3. QED
    BY <2>1, <2>2 DEF Next
<1>4. QED
  BY <1>2, <1>3 DEF TypeInv, Typed

-----------------------------------------------------------------------------
(* A step is one of one request. *)

LEMMA OthersKept ==
  ASSUME TypeInv, NEW r \in Requests, NEW q \in Requests, q # r,
         HandlerStep(r) \/ Application(r) \/ Body(r) \/ Frame(r) \/ ClientReads(r) \/ ClientLeaves(r)
  PROVE  Keeps(q)
<1>t. /\ conn \in [Requests -> Conns] /\ client \in [Requests -> {"here", "left"}]
      /\ intake \in [Requests -> Frames] /\ told \in [Requests -> BOOLEAN]
      /\ py \in [Requests -> Process] /\ out \in [Requests -> Seq(Message)]
      /\ fed \in [Requests -> BOOLEAN] /\ chan \in [Requests -> Seq(Nat)] /\ got \in [Requests -> Seq(Nat)]
      /\ status \in [Requests -> Codes] /\ done \in [Requests -> BOOLEAN]
      /\ database \in [Requests -> Databases]
  BY DEF TypeInv
<1>1. CASE HandlerStep(r)
  <2>1. Arrive(r) \/ Returned(r) \/ Subscribe(r) => Keeps(q)
    BY <1>t DEF Arrive, Returned, Subscribe, Keeps, KeepsPlace, KeepsIntake
  <2>2. Buffered(r) \/ Dispatch(r) \/ WsgiResponds(r) => Keeps(q)
    BY <1>t DEF Buffered, Dispatch, WsgiResponds, Refuse, Keeps, KeepsPlace, KeepsIntake
  <2>3. AsgiResponds(r) \/ SubscriptionAuthorised(r) \/ SubscriptionUnsupported(r) => Keeps(q)
    BY <1>t DEF AsgiResponds, SubscriptionAuthorised, SubscriptionUnsupported, Rejected, Refuse, Keeps,
                KeepsPlace, KeepsIntake
  <2>4. GqlAuthorised(r) => Keeps(q)
    BY <1>t DEF GqlAuthorised, Rejected, Refuse, Keeps, KeepsPlace, KeepsIntake
  <2>5. GqlAnswers(r) => Keeps(q)
    BY <1>t DEF GqlAnswers, Keeps, KeepsPlace, KeepsIntake
  <2>6. QED
    BY <1>1, <2>1, <2>2, <2>3, <2>4, <2>5 DEF HandlerStep
<1>2. CASE Application(r)
  <2>1. Ends(r) \/ Fails(r) \/ UsesPuff(r) => Keeps(q)
    BY <1>t DEF Ends, Fails, UsesPuff, Go, Keeps, KeepsPlace, KeepsIntake
  <2>2. Sends(r) => Keeps(q)
    BY <1>t DEF Sends, Go, Keeps, KeepsPlace, KeepsIntake
  <2>3. Receives(r) => Keeps(q)
    BY <1>t DEF Receives, Go, Keeps, KeepsPlace, KeepsIntake
  <2>4. Publish(r) => Keeps(q)
    BY <1>t DEF Publish, Keeps, KeepsPlace, KeepsIntake
  <2>5. AcceptorEnds(r) => Keeps(q)
    BY <1>t DEF AcceptorEnds, Keeps, KeepsPlace, KeepsIntake
  <2>6. QED
    BY <1>2, <2>1, <2>2, <2>3, <2>4, <2>5 DEF Application
<1>3. CASE Body(r)
  <2>1. PumpBegins(r) => Keeps(q)
    BY <1>t DEF PumpBegins, Keeps, KeepsPlace, KeepsIntake
  <2>2. Pump(r) => Keeps(q)
    BY <1>t DEF Pump, PumpEnds, Keeps, KeepsPlace, KeepsIntake
  <2>3. Forward(r) => Keeps(q)
    BY <1>t DEF Forward, Keeps, KeepsPlace, KeepsIntake
  <2>4. QED
    BY <1>3, <2>1, <2>2, <2>3 DEF Body
<1>4. CASE Frame(r) \/ ClientReads(r) \/ ClientLeaves(r)
  BY <1>t, <1>4 DEF Frame, ClientReads, ClientLeaves, Keeps, KeepsPlace, KeepsIntake
<1>5. QED
  BY <1>1, <1>2, <1>3, <1>4

-----------------------------------------------------------------------------
(* The request arrives. *)

LEMMA ArriveStep ==
  ASSUME TypeInv, NEW r \in Requests, RequestInv(r), Arrive(r)
  PROVE  RequestInv(r)'
<1>0. UNCHANGED fixed /\ conn[r] = "new" /\ conn'[r] \in {"buffering", "environ"}
      /\ (conn'[r] = "buffering" <=> Kind(r) = "wsgi")
  BY DEF Arrive, TypeInv
<1>1. Place(r)'
  BY <1>0, AppStays DEF Arrive, Place, RequestInv
<1>2. KeepsIntake(r) /\ KeepsCauses(r) /\ KeepsOutbox(r) /\ KeepsBodies(r)
  BY <1>0 DEF Arrive, KeepsIntake, KeepsCauses, KeepsOutbox, KeepsBodies
<1>3. QED
  BY <1>0, <1>1, <1>2, IntakeKept, CausesKept, OutboxKept, BodiesKept DEF RequestInv

LEMMA FrameStep ==
  ASSUME TypeInv, NEW r \in Requests, RequestInv(r), Frame(r)
  PROVE  RequestInv(r)'
<1>0. /\ UNCHANGED fixed /\ intake[r] \in Frames /\ intake[r].coming > 0
      /\ intake'[r].coming = intake[r].coming - 1 /\ intake'[r].waiting = intake[r].waiting + 1
      /\ intake'[r].read = intake[r].read
  BY DEF Frame, TypeInv, Frames
<1>1. KeepsPlace(r) /\ KeepsCauses(r) /\ KeepsOutbox(r) /\ KeepsBodies(r)
  BY DEF Frame, KeepsPlace, KeepsCauses, KeepsOutbox, KeepsBodies
<1>2. Intake(r)'
  <2>1. told'[r] = told[r] /\ client'[r] = client[r] /\ app'[r] = app[r]
    BY <1>0, AppStays DEF Frame
  <2>2. ~(told[r] /\ client[r] = "here")
    BY <1>0 DEF RequestInv, Intake
  <2>3. QED
    BY <1>0, <2>1, <2>2 DEF RequestInv, Intake, Frames
<1>3. QED
  BY <1>0, <1>1, <1>2, PlaceKept, CausesKept, OutboxKept, BodiesKept DEF RequestInv

\* A refusal ends the request before anything of its body was sent.
LEMMA RefusedPlace ==
  ASSUME TypeInv, NEW r \in Requests, Place(r), UNCHANGED fixed, NEW code, Refuse(r, code),
         code \notin {"none", "200", "101"}, conn[r] \notin {"body", "over", "gone"},
         py'[r].state = py[r].state, out'[r] = out[r] \/ py[r].state # "idle",
         py'[r].at = py[r].at \/ py[r].state # "idle",
         client'[r] = client[r], done'[r] = done[r], got'[r] = got[r], chan'[r] = chan[r]
  PROVE  Place(r)'
<1>1. conn'[r] = "over" /\ status'[r] = code /\ fed'[r] = TRUE
  BY DEF Refuse, TypeInv
<1>2. QED
  BY <1>1, AppStays DEF Place

LEMMA BufferedStep ==
  ASSUME TypeInv, NEW r \in Requests, RequestInv(r), Buffered(r)
  PROVE  RequestInv(r)'
<1>0. /\ UNCHANGED fixed /\ conn[r] = "buffering" /\ Kind(r) = "wsgi" /\ intake[r] \in Frames
      /\ UNCHANGED <<client, intake, told, py, out, chan, got, done, database>>
  BY DEF Buffered, TypeInv, RequestInv, Place
<1>1. KeepsIntake(r)
  BY <1>0 DEF KeepsIntake
<1>2. CASE TooLarge(intake[r].waiting)
  <2>1. Refuse(r, "500")
    BY <1>2 DEF Buffered
  <2>2. Place(r)'
    BY <1>0, <2>1, RefusedPlace DEF RequestInv
  <2>3. conn'[r] = "over" /\ status'[r] = "500"
    BY <2>1 DEF Refuse, TypeInv
  <2>4. KeepsOutbox(r) /\ KeepsBodies(r)
    BY <1>0, <2>3 DEF KeepsOutbox, KeepsBodies
  <2>5. app[r].frames > BodyLimit
    <3>1. intake[r].waiting > BodyLimit /\ BodyLimit \in Nat
      BY <1>2, WebAssumption DEF TooLarge
    <3>2. app[r].frames \in Int
      BY DEF TypeInv, AppType
    <3>3. QED
      BY <1>0, <3>1, <3>2 DEF RequestInv, Intake, Frames
  <2>6. Causes(r)'
    BY <1>0, <2>3, <2>5, AppStays DEF Causes, RequestInv
  <2>7. QED
    BY <1>0, <1>1, <2>2, <2>4, <2>6, IntakeKept, OutboxKept, BodiesKept DEF RequestInv
<1>3. CASE ~TooLarge(intake[r].waiting)
  <2>1. conn'[r] = "environ" /\ UNCHANGED <<status, fed>>
    BY <1>3 DEF Buffered, TypeInv
  <2>2. Place(r)'
    BY <1>0, <2>1, AppStays DEF Place, RequestInv
  <2>3. KeepsCauses(r) /\ KeepsOutbox(r) /\ KeepsBodies(r)
    BY <1>0, <2>1 DEF KeepsCauses, KeepsOutbox, KeepsBodies
  <2>4. QED
    BY <1>0, <1>1, <2>2, <2>3, IntakeKept, CausesKept, OutboxKept, BodiesKept DEF RequestInv
<1>4. QED
  BY <1>2, <1>3

LEMMA DispatchStep ==
  ASSUME TypeInv, NEW r \in Requests, RequestInv(r), Dispatch(r)
  PROVE  RequestInv(r)'
<1>0. /\ UNCHANGED fixed /\ conn[r] = "environ" /\ py[r].state = "idle" /\ py[r].at = 1 /\ out[r] = << >>
      /\ UNCHANGED <<client, intake, told, out, chan, got, done, database>>
  BY DEF Dispatch, RequestInv, Place
<1>1. KeepsIntake(r)
  BY <1>0 DEF KeepsIntake
<1>2. CASE Unfit(r) # "none"
  <2>1. /\ Refuse(r, Unfit(r)) /\ py' = py /\ Unfit(r) \in {"400", "500"}
        /\ Unfit(r) = "400" => app[r].head = "path"
        /\ Unfit(r) = "500" => Kind(r) = "wsgi" /\ app[r].head = "header"
    BY <1>2 DEF Dispatch, Unfit
  <2>2. Place(r)'
    BY <1>0, <2>1, RefusedPlace DEF RequestInv
  <2>3. conn'[r] = "over" /\ status'[r] = Unfit(r)
    BY <2>1 DEF Refuse, TypeInv
  <2>4. KeepsOutbox(r) /\ KeepsBodies(r)
    BY <1>0, <2>1, <2>3 DEF KeepsOutbox, KeepsBodies
  <2>5. Causes(r)'
    BY <1>0, <1>2, <2>1, <2>3, AppStays DEF Causes, RequestInv, GraphQL
  <2>6. QED
    BY <1>0, <1>1, <2>2, <2>4, <2>5, IntakeKept, OutboxKept, BodiesKept DEF RequestInv
<1>3. CASE Unfit(r) = "none"
  <2>1. /\ conn'[r] = "app" /\ UNCHANGED <<status, fed>>
        /\ py'[r].state = "running" /\ py'[r].at = py[r].at
    BY <1>3 DEF Dispatch, TypeInv, Process
  <2>3. Place(r)'
    BY <1>0, <2>1, AppStays DEF Place, RequestInv
  <2>4. KeepsBodies(r)
    BY <1>0, <2>1 DEF KeepsBodies
  <2>5. Causes(r)'
    BY <1>0, <2>1, AppStays DEF Causes, RequestInv, GraphQL
  <2>6. Outbox(r)'
    <3>1. \A i \in SentAt(r) : ~(i < 1)
      BY DEF SentAt
    <3>2. out'[r] = << >> /\ Len(out'[r]) = 0 /\ py'[r].at = 1
      BY <1>0, <2>1
    <3>3. QED
      BY <2>1, <3>1, <3>2, <1>0, AppStays DEF Outbox
  <2>7. QED
    BY <1>0, <1>1, <2>3, <2>4, <2>5, <2>6, IntakeKept, BodiesKept DEF RequestInv
<1>4. QED
  BY <1>2, <1>3

-----------------------------------------------------------------------------
(* The application runs. *)

LEMMA GoPlace ==
  ASSUME TypeInv, NEW r \in Requests, Place(r), UNCHANGED fixed, py[r].state = "running",
         py'[r].state # "idle",
         UNCHANGED <<conn, client, fed, chan, got, status, done, database>>
  PROVE  /\ Place(r)'
         /\ conn[r] \in {"app", "over", "gone"}
         /\ KeepsBodies(r)
<1>1. conn[r] \in {"app", "over", "gone"}
  BY DEF TypeInv, Conns, Place
<1>2. Place(r)'
  BY <1>1, AppStays DEF Place
<1>3. KeepsBodies(r)
  BY <1>1 DEF KeepsBodies
<1>4. QED
  BY <1>1, <1>2, <1>3

\* After a step that sends nothing, what has been sent is still in the box.
LEMMA GoOutbox ==
  ASSUME TypeInv, NEW r \in Requests, Outbox(r), UNCHANGED <<fixed, out, conn>>,
         py[r].state = "running", py'[r].at = py[r].at + 1,
         py'[r].state = "ok" => py[r].at > Len(Call(r)),
         py[r].at > Len(Call(r)) \/ Call(r)[py[r].at] \notin Sending
  PROVE  Outbox(r)'
<1>1. py[r].at \in Nat /\ Len(Call(r)) \in Nat
  BY DEF TypeInv, Process, AppType, Call
<1>2. \A i \in SentAt(r) : i \in 1..Len(Call(r)) /\ Call(r)[i] \in Sending
  BY DEF SentAt
<1>3. \A i \in SentAt(r) : i < py[r].at + 1 => i < py[r].at
  BY <1>1, <1>2
<1>4. \A n \in 1..Len(out[r]) : out[r][n][2] \in Nat
  BY <1>2 DEF Outbox
<1>5. out'[r] = out[r] /\ conn'[r] = conn[r]
  OBVIOUS
<1>6. conn[r] \in {"app", "answered"} =>
        \A i \in SentAt(r) : i < py[r].at => \E n \in 1..Len(out[r]) : out[r][n][2] = i
  BY DEF Outbox
<1>7. \A n \in 1..Len(out[r]) : out[r][n][2] < py[r].at + 1
  BY SMTT(30), <1>1, <1>4 DEF Outbox
<1>8. QED
  BY <1>1, <1>3, <1>5, <1>6, <1>7, AppStays DEF Outbox

LEMMA EndsStep ==
  ASSUME TypeInv, NEW r \in Requests, RequestInv(r), Ends(r)
  PROVE  RequestInv(r)'
<1>0. /\ UNCHANGED <<fixed, conn, client, intake, told, out, fed, chan, got, status, done, database>>
      /\ py[r].state = "running" /\ py[r].at > Len(Call(r))
      /\ py'[r].state = "ok" /\ py'[r].at = py[r].at + 1
  BY DEF Ends, Running, Go, TypeInv, Process
<1>1. Place(r)' /\ KeepsBodies(r)
  BY <1>0, GoPlace DEF RequestInv
<1>2. KeepsIntake(r)
  BY <1>0 DEF KeepsIntake
<1>3. Causes(r)'
  BY <1>0, AppStays DEF Causes, RequestInv, GraphQL
<1>4. Outbox(r)'
  BY <1>0, GoOutbox DEF RequestInv
<1>5. QED
  BY <1>0, <1>1, <1>2, <1>3, <1>4, IntakeKept, BodiesKept DEF RequestInv

LEMMA FailsStep ==
  ASSUME TypeInv, NEW r \in Requests, RequestInv(r), Fails(r)
  PROVE  RequestInv(r)'
<1>0. /\ UNCHANGED <<fixed, conn, client, intake, told, out, fed, chan, got, status, done, database>>
      /\ py[r].state = "running" /\ py[r].at <= Len(Call(r)) /\ Step(r) \in {"raise", "reject", "misreject"}
      /\ py'[r].state = CASE Step(r) = "raise" -> "failed"
                         [] Step(r) = "reject" -> "rejects"
                         [] OTHER -> "misrejects"
      /\ py'[r].at = py[r].at + 1
  BY DEF Fails, Running, Go, TypeInv, Process
<1>1. Place(r)' /\ KeepsBodies(r)
  BY <1>0, GoPlace DEF RequestInv
<1>2. KeepsIntake(r)
  BY <1>0 DEF KeepsIntake
<1>3. py[r].at \in 1..Len(Call(r))
  BY <1>0 DEF TypeInv, Process, AppType, Call
<1>4. Causes(r)'
  <2>1. Has(r, Step(r))
    BY <1>3 DEF Has, Step
  <2>2. QED
    BY <1>0, <2>1, AppStays DEF Causes, RequestInv, GraphQL
<1>5. Outbox(r)'
  <2>1. Call(r)[py[r].at] \notin Sending
    BY <1>0 DEF Step, Sending
  <2>2. QED
    BY <1>0, <2>1, GoOutbox DEF RequestInv
<1>6. QED
  BY <1>0, <1>1, <1>2, <1>4, <1>5, IntakeKept, BodiesKept DEF RequestInv

LEMMA UsesPuffStep ==
  ASSUME TypeInv, NEW r \in Requests, RequestInv(r), UsesPuff(r)
  PROVE  RequestInv(r)'
<1>0. /\ UNCHANGED <<fixed, conn, client, intake, told, out, fed, chan, got, status, done, database>>
      /\ py[r].state = "running" /\ py[r].at <= Len(Call(r)) /\ Step(r) = "puff"
      /\ py'[r].state = IF build = "free" /\ Kind(r) # "asgi" THEN "lost" ELSE "running"
      /\ py'[r].at = py[r].at + 1
  BY DEF UsesPuff, Running, Go, TypeInv, Process
<1>1. Place(r)' /\ KeepsBodies(r)
  BY <1>0, GoPlace DEF RequestInv
<1>2. KeepsIntake(r)
  BY <1>0 DEF KeepsIntake
<1>3. py[r].at \in 1..Len(Call(r))
  BY <1>0 DEF TypeInv, Process, AppType, Call
<1>4. Causes(r)'
  <2>1. Has(r, "puff")
    BY <1>0, <1>3 DEF Has, Step
  <2>2. QED
    BY <1>0, <2>1, AppStays DEF Causes, RequestInv, GraphQL
<1>5. Outbox(r)'
  <2>1. Call(r)[py[r].at] \notin Sending
    BY <1>0 DEF Step, Sending
  <2>2. QED
    BY <1>0, <2>1, GoOutbox DEF RequestInv
<1>6. QED
  BY <1>0, <1>1, <1>2, <1>4, <1>5, IntakeKept, BodiesKept DEF RequestInv

LEMMA ReceivesStep ==
  ASSUME TypeInv, NEW r \in Requests, RequestInv(r), Receives(r)
  PROVE  RequestInv(r)'
<1>0. /\ UNCHANGED <<fixed, conn, client, out, fed, chan, got, status, done, database>>
      /\ py[r].state = "running" /\ py[r].at <= Len(Call(r)) /\ Step(r) \in {"receive", "drain"}
      /\ py' = py \/ (py'[r].state = "running" /\ py'[r].at = py[r].at + 1)
  BY DEF Receives, Running, Go, TypeInv, Process
<1>1. Place(r)' /\ KeepsBodies(r)
  BY <1>0, GoPlace DEF RequestInv
<1>2. Intake(r)'
  <2>1. app'[r] = app[r] /\ intake[r] \in Frames /\ client'[r] = client[r]
    BY <1>0, AppStays DEF RequestInv, Place, TypeInv
  <2>2. CASE Disconnected(r)
    <3>1. intake'[r] = intake[r]
      BY <2>2 DEF Receives
    <3>2. client[r] = "here" => intake[r].coming = 0 /\ intake[r].waiting = 0
      BY <2>2 DEF Disconnected, RequestInv, Place
    <3>3. QED
      BY <2>1, <3>1, <3>2 DEF Intake, RequestInv
  <2>3. CASE ~Disconnected(r)
    <3>1. /\ intake[r].waiting > 0 /\ told'[r] = told[r]
          /\ intake'[r].coming = intake[r].coming /\ intake'[r].waiting = intake[r].waiting - 1
          /\ intake'[r].read = intake[r].read + 1
      BY <2>3 DEF Receives, TypeInv, Frames
    <3>2. ~(told[r] /\ client[r] = "here")
      BY <2>1, <3>1 DEF Intake, RequestInv
    <3>3. QED
      BY <2>1, <3>1, <3>2 DEF Intake, RequestInv, Frames
  <2>4. QED
    BY <2>2, <2>3
<1>3. Causes(r)'
  BY <1>0, AppStays DEF Causes, RequestInv, GraphQL
<1>4. Outbox(r)'
  <2>1. Call(r)[py[r].at] \notin Sending
    BY <1>0 DEF Step, Sending
  <2>2. CASE py' = py
    BY <1>0, <2>2, OutboxKept DEF RequestInv, KeepsOutbox
  <2>3. QED
    BY <1>0, <2>1, <2>2, GoOutbox DEF RequestInv
<1>5. QED
  BY <1>0, <1>1, <1>2, <1>3, <1>4, BodiesKept DEF RequestInv

LEMMA ReturnedStep ==
  ASSUME TypeInv, NEW r \in Requests, RequestInv(r), Returned(r)
  PROVE  RequestInv(r)'
<1>0. /\ UNCHANGED <<fixed, client, intake, told, py, out, fed, chan, got, status, done, database>>
      /\ conn[r] = "app" /\ conn'[r] = "answered" /\ py[r].state \notin {"idle", "running"}
  BY DEF Returned, TypeInv
<1>1. Place(r)'
  BY <1>0, AppStays DEF Place, RequestInv
<1>2. KeepsIntake(r) /\ KeepsCauses(r) /\ KeepsOutbox(r) /\ KeepsBodies(r)
  BY <1>0 DEF KeepsIntake, KeepsCauses, KeepsOutbox, KeepsBodies
<1>3. QED
  BY <1>0, <1>1, <1>2, IntakeKept, CausesKept, OutboxKept, BodiesKept DEF RequestInv

\* What kinds of applications do not do.
LEMMA CallFacts ==
  ASSUME TypeInv, NEW r \in Requests
  PROVE  /\ Len(Call(r)) \in Nat /\ Len(Items(r)) \in Nat
         /\ \A i \in 1..Len(Call(r)) : Call(r)[i] \in MayCall(Kind(r))
         /\ Kind(r) \in Kinds
         /\ Kind(r) = "wsgi" => SentAt(r) = StartsAt(r)
         /\ Kind(r) \in {"wsgi", "asgi"} => ~Has(r, "reject") /\ ~Has(r, "misreject")
         /\ Kind(r) \in {"gql", "sub"} => SentAt(r) = {}
<1>1. Call(r) \in Seq(MayCall(Kind(r))) /\ Items(r) \in Seq(MayGive(Kind(r))) /\ Kind(r) \in Kinds
  BY DEF TypeInv, AppType, Call, Items, Kind
<1>2. \A i \in 1..Len(Call(r)) : Call(r)[i] \in MayCall(Kind(r))
  BY <1>1
<1>3. Len(Call(r)) \in Nat /\ Len(Items(r)) \in Nat
  BY <1>1
<1>4. Kind(r) = "wsgi" => SentAt(r) = StartsAt(r) /\ ~Has(r, "reject") /\ ~Has(r, "misreject")
  BY <1>2 DEF MayCall, SentAt, StartsAt, Has, Sending
<1>5. Kind(r) = "asgi" => ~Has(r, "reject") /\ ~Has(r, "misreject")
  BY <1>2 DEF MayCall, Has, Sending
<1>6. Kind(r) \in {"gql", "sub"} => SentAt(r) = {}
  BY <1>2 DEF MayCall, SentAt, Sending
<1>7. QED
  BY <1>1, <1>2, <1>3, <1>4, <1>5, <1>6

LEMMA SendsStep ==
  ASSUME TypeInv, NEW r \in Requests, RequestInv(r), Sends(r)
  PROVE  RequestInv(r)'
<1> DEFINE at == py[r].at
           kept == conn[r] = "gone" \/ (Kind(r) = "wsgi" /\ out[r] # << >>)
<1>0. /\ UNCHANGED <<fixed, conn, client, intake, told, fed, chan, got, status, done, database>>
      /\ py[r].state = "running" /\ at <= Len(Call(r)) /\ Step(r) \in Sending
      /\ kept => py'[r].state = "failed" /\ out' = out
      /\ ~kept => py'[r].state = "running" /\ out'[r] = Append(out[r], <<Step(r), at>>)
      /\ py'[r].at = at + 1
  BY DEF Sends, Running, Go, TypeInv, Process
<1>1. Place(r)' /\ KeepsBodies(r)
  BY <1>0, GoPlace DEF RequestInv
<1>2. KeepsIntake(r)
  BY <1>0 DEF KeepsIntake
<1>3. at \in SentAt(r) /\ at \in Nat
  BY SMTT(30), <1>0 DEF TypeInv, Process, AppType, Call, SentAt, Step
<1>4. out[r] \in Seq(Message)
  BY DEF TypeInv
<1>5. \A n \in 1..Len(out[r]) : out[r][n][2] \in SentAt(r) /\ out[r][n][2] < at
  BY <1>0 DEF RequestInv, Outbox
<1>6. Causes(r)'
  <2>1. CASE kept
    <3>1. Kind(r) = "wsgi" /\ out[r] # << >> => StartsTwice(r)
      <4>1. SUFFICES ASSUME Kind(r) = "wsgi", out[r] # << >> PROVE StartsTwice(r)
        OBVIOUS
      <4>2. 1 \in 1..Len(out[r])
        BY <1>4, <4>1
      <4>3. out[r][1][2] \in StartsAt(r) /\ at \in StartsAt(r) /\ out[r][1][2] < at
        BY <1>3, <1>5, <4>1, <4>2, CallFacts
      <4>4. out[r][1][2] # at
        BY <1>3, <4>3
      <4>5. QED
        BY <4>3, <4>4 DEF StartsTwice
    <3>2. QED
      BY <1>0, <2>1, <3>1, AppStays DEF Causes, RequestInv, GraphQL
  <2>2. CASE ~kept
    BY <1>0, <2>2, AppStays DEF Causes, RequestInv, GraphQL
  <2>3. QED
    BY <2>1, <2>2
<1>7. Outbox(r)'
  <2>1. CASE kept
    <3>1. out'[r] = out[r] /\ py'[r].state = "failed"
      BY <1>0, <2>1
    <3>2. QED
      BY <1>0, <3>1, AppStays DEF Outbox, RequestInv
  <2>2. CASE ~kept
    <3> DEFINE box == out[r]  new == out'[r]
    <3>1. /\ Len(new) = Len(box) + 1 /\ Len(box) \in Nat
          /\ \A n \in 1..Len(box) : new[n] = box[n]
          /\ new[Len(box) + 1] = <<Step(r), at>>
      BY <1>0, <1>4, <2>2
    <3>2. new[Len(box) + 1][1] = Call(r)[at] /\ new[Len(box) + 1][2] = at
      BY <3>1 DEF Step
    <3>3. \A n \in 1..Len(new) : n \in 1..Len(box) \/ n = Len(box) + 1
      BY <3>1
    <3>4. \A n \in 1..Len(new) : new[n][2] \in SentAt(r) /\ new[n][1] = Call(r)[new[n][2]]
      BY <1>3, <3>1, <3>2, <3>3 DEF RequestInv, Outbox
    <3>5. \A n, m \in 1..Len(new) : n < m => new[n][2] < new[m][2]
      <4>1. TAKE n, m \in 1..Len(new)
      <4>2. HAVE n < m
      <4>3. n \in 1..Len(box) /\ new[n] = box[n]
        BY <3>1, <4>2
      <4>4. CASE m \in 1..Len(box)
        BY <3>1, <4>2, <4>3, <4>4 DEF RequestInv, Outbox
      <4>5. CASE m = Len(box) + 1
        BY <1>5, <3>2, <4>3, <4>5
      <4>6. QED
        BY <3>3, <4>4, <4>5
    <3>6. \A n \in 1..Len(new) : new[n][2] < at + 1
      <4>1. TAKE n \in 1..Len(new)
      <4>2. CASE n \in 1..Len(box)
        <5>1. new[n][2] < at /\ new[n][2] \in Nat
          BY <1>5, <3>1, <4>2 DEF SentAt
        <5>2. QED
          BY <1>3, <5>1
      <4>3. CASE n = Len(box) + 1
        BY <1>3, <3>2, <4>3
      <4>4. QED
        BY <3>3, <4>2, <4>3
    <3>7. ASSUME conn[r] \in {"app", "answered"}, NEW i \in SentAt(r), i < at + 1
          PROVE  \E n \in 1..Len(new) : new[n][2] = i
      <4>1. i < at \/ i = at
        BY <1>3, <3>7 DEF SentAt
      <4>2. CASE i < at
        <5>1. PICK n \in 1..Len(box) : box[n][2] = i
          BY <1>0, <3>7, <4>2 DEF RequestInv, Outbox
        <5>2. n \in 1..Len(new) /\ new[n][2] = i
          BY <3>1, <5>1
        <5>3. QED
          BY <5>2
      <4>3. CASE i = at
        BY <3>1, <3>2, <4>3
      <4>4. QED
        BY <4>1, <4>2, <4>3
    <3> HIDE DEF box, new
    <3>8. new = out'[r]
      BY DEF new
    <3>9. QED
      BY <1>0, <2>2, <3>4, <3>5, <3>6, <3>7, <3>8, AppStays DEF Outbox
  <2>3. QED
    BY <2>1, <2>2
<1>8. QED
  BY <1>0, <1>1, <1>2, <1>6, <1>7, IntakeKept, BodiesKept DEF RequestInv

-----------------------------------------------------------------------------
(* The answer, and its parts. *)

LEMMA Joined ==
  ASSUME NEW s \in Seq(Nat), NEW t \in Seq(Nat)
  PROVE  /\ s \o t \in Seq(Nat) /\ Len(s \o t) = Len(s) + Len(t) /\ Len(s) <= Len(s \o t)
         /\ \A i \in 1..Len(s) : (s \o t)[i] = s[i]
OBVIOUS

LEMMA JoinedAppended ==
  ASSUME NEW s \in Seq(Nat), NEW t \in Seq(Nat), NEW p \in Nat
  PROVE  s \o Append(t, p) = Append(s \o t, p)
<1>1. Append(t, p) = t \o <<p>>
  BY AppendIsConcat
<1>2. <<p>> \in Seq(Nat) /\ s \o t \in Seq(Nat)
  OBVIOUS
<1>3. Append(s \o t, p) = (s \o t) \o <<p>>
  BY <1>2, AppendIsConcat
<1>4. (s \o t) \o <<p>> = s \o (t \o <<p>>)
  BY <1>2, ConcatAssociative
<1>5. QED
  BY <1>1, <1>3, <1>4

LEMMA JoinedMoved ==
  ASSUME NEW s \in Seq(Nat), NEW t \in Seq(Nat), t # << >>
  PROVE  Append(s, Head(t)) \o Tail(t) = s \o t
<1>1. Head(t) \in Nat /\ Tail(t) \in Seq(Nat) /\ Append(s, Head(t)) \in Seq(Nat)
  OBVIOUS
<1>2. Append(s, Head(t)) \o Tail(t) \in Seq(Nat) /\ s \o t \in Seq(Nat)
  BY <1>1
<1>3. Len(Append(s, Head(t)) \o Tail(t)) = Len(s \o t)
  BY <1>1
<1>4. ASSUME NEW i \in 1..Len(s \o t)
      PROVE  (Append(s, Head(t)) \o Tail(t))[i] = (s \o t)[i]
  BY <1>1
<1>5. QED
  BY <1>2, <1>3, <1>4, SeqEqual

LEMMA PartsFacts ==
  ASSUME TypeInv, NEW r \in Requests
  PROVE  /\ Parts(r) \in Seq(Nat) /\ got[r] \in Seq(Nat) /\ chan[r] \in Seq(Nat)
         /\ Len(Parts(r)) = Len(got[r]) + Len(chan[r])
         /\ \A i \in 1..Len(got[r]) : Parts(r)[i] = got[r][i]
<1>1. got[r] \in Seq(Nat) /\ chan[r] \in Seq(Nat)
  BY DEF TypeInv
<1>2. QED
  BY <1>1, Joined DEF Parts

LEMMA NoParts ==
  ASSUME NEW r, got[r] = << >>, chan[r] = << >>
  PROVE  Parts(r) = << >> /\ Len(Parts(r)) = 0
BY DEF Parts

LEMMA PartsAppended ==
  ASSUME TypeInv, NEW r \in Requests, NEW p \in Nat, got'[r] = got[r], chan'[r] = Append(chan[r], p)
  PROVE  Parts(r)' = Append(Parts(r), p)
<1>1. got[r] \in Seq(Nat) /\ chan[r] \in Seq(Nat)
  BY DEF TypeInv
<1>2. got[r] \o Append(chan[r], p) = Append(got[r] \o chan[r], p)
  BY <1>1, JoinedAppended
<1>3. QED
  BY <1>2 DEF Parts

LEMMA PartsMoved ==
  ASSUME TypeInv, NEW r \in Requests, chan[r] # << >>,
         got'[r] = Append(got[r], Head(chan[r])), chan'[r] = Tail(chan[r])
  PROVE  Parts(r)' = Parts(r)
<1>1. got[r] \in Seq(Nat) /\ chan[r] \in Seq(Nat)
  BY DEF TypeInv
<1>2. QED
  BY <1>1, JoinedMoved DEF Parts

\* When a call has ended well, all it sent is in the box.
LEMMA AllSaid ==
  ASSUME TypeInv, NEW r \in Requests, Outbox(r), conn[r] = "answered", py[r].state = "ok"
  PROVE  /\ \A i \in SentAt(r) : \E n \in 1..Len(out[r]) : out[r][n][2] = i
         /\ out[r] = << >> => StartsAt(r) = {}
<1>1. py[r].at > Len(Call(r)) /\ py[r].at \in Nat /\ Len(Call(r)) \in Nat
  BY CallFacts DEF Outbox, TypeInv, Process
<1>2. \A i \in SentAt(r) : \E n \in 1..Len(out[r]) : out[r][n][2] = i
  <2>1. \A i \in SentAt(r) : i < py[r].at
    BY <1>1 DEF SentAt
  <2>2. QED
    BY <2>1 DEF Outbox
<1>3. StartsAt(r) \subseteq SentAt(r)
  BY DEF StartsAt, SentAt, Sending
<1>4. out[r] = << >> => 1..Len(out[r]) = {}
  OBVIOUS
<1>5. QED
  BY <1>2, <1>3, <1>4

-----------------------------------------------------------------------------
(* What is pumped: the parts of an iterable and of an acceptor. *)

LEMMA MeantOfOthers ==
  ASSUME NEW r, Kind(r) # "asgi", NEW p
  PROVE  p \in Meant(r) <=>
           /\ p \in 1..Len(Items(r)) /\ Items(r)[p] = "more"
           /\ \A j \in 1..p : Items(r)[j] # "forever" /\ (Kind(r) # "wsgi" => Items(r)[j] = "more")
BY DEF Meant

LEMMA PumpedAtFirst ==
  ASSUME TypeInv, UNCHANGED fixed, NEW r \in Requests, Kind(r) # "asgi",
         Parts(r)' = << >>, py'[r].at = 1, ~fed'[r]
  PROVE  Pumped(r)'
<1>1. Len(Parts(r)') = 0
  OBVIOUS
<1>2. \A p \in Meant(r) : ~(p < 1)
  BY MeantOfOthers
<1>3. Begins(Parts(r), Meant(r))'
  BY <1>1 DEF Begins
<1>4. \A i \in 1..Len(Items(r)) : ~(i < 1)
  OBVIOUS
<1>5. QED
  BY <1>1, <1>2, <1>3, <1>4, AppStays DEF Pumped

LEMMA BeginsAppended ==
  ASSUME NEW s \in Seq(Nat), NEW meant, NEW at \in Nat, Begins(s, meant), at \in meant,
         \A j \in 1..Len(s) : s[j] < at,
         \A p \in meant : p < at => \E j \in 1..Len(s) : s[j] = p
  PROVE  Begins(Append(s, at), meant)
<1> DEFINE t == Append(s, at)
<1>1. /\ Len(t) = Len(s) + 1 /\ Len(s) \in Nat /\ t[Len(s) + 1] = at
      /\ \A i \in 1..Len(s) : t[i] = s[i] /\ i \in 1..Len(t)
  OBVIOUS
<1> HIDE DEF t
<1>2. \A i \in 1..Len(t) : i \in 1..Len(s) \/ i = Len(s) + 1
  BY <1>1
<1>3. ASSUME NEW i \in 1..Len(t), NEW j \in 1..Len(t), i < j PROVE t[i] < t[j]
  <2>1. i \in 1..Len(s) /\ t[i] = s[i]
    BY <1>1, <1>2, <1>3
  <2>2. CASE j \in 1..Len(s)
    BY <1>1, <1>3, <2>1, <2>2 DEF Begins
  <2>3. CASE j = Len(s) + 1
    BY <1>1, <2>1, <2>3
  <2>4. QED
    BY <1>2, <2>2, <2>3
<1>4. \A i \in 1..Len(t) : t[i] \in meant
  BY <1>1, <1>2 DEF Begins
<1>5. ASSUME NEW i \in 1..Len(t), NEW p \in meant, p < t[i] PROVE \E j \in 1..Len(t) : t[j] = p
  <2>1. \E j \in 1..Len(s) : s[j] = p
    BY <1>1, <1>2, <1>5 DEF Begins
  <2>2. QED
    BY <1>1, <2>1
<1>6. Begins(t, meant)
  BY <1>3, <1>4, <1>5 DEF Begins
<1>7. QED
  BY <1>6 DEF t

\* The next item is a part and is sent, or is passed over.
LEMMA PumpedOn ==
  ASSUME TypeInv, UNCHANGED fixed, NEW r \in Requests, Kind(r) # "asgi", Pumped(r), ~fed[r], ~fed'[r],
         py[r].at \in 1..Len(Items(r)), py'[r].at = py[r].at + 1,
         Items(r)[py[r].at] # "forever", Kind(r) # "wsgi" => Items(r)[py[r].at] = "more",
         Parts(r)' = IF Items(r)[py[r].at] = "more" THEN Append(Parts(r), py[r].at) ELSE Parts(r)
  PROVE  Pumped(r)'
<1> DEFINE at == py[r].at  s == Parts(r)  t == Parts(r)'
<1>0. at \in Nat /\ s \in Seq(Nat) /\ Len(s) \in Nat /\ Len(Items(r)) \in Nat
  BY PartsFacts, CallFacts DEF TypeInv, Process
<1>1. /\ Begins(s, Meant(r)) /\ \A j \in 1..Len(s) : s[j] < at
      /\ \A p \in Meant(r) : p < at => \E j \in 1..Len(s) : s[j] = p
      /\ \A i \in 1..Len(Items(r)) : i < at =>
           Items(r)[i] # "forever" /\ (Kind(r) = "sub" => Items(r)[i] = "more")
      /\ \A j \in 1..Len(s) : s[j] \in Nat
  BY <1>0 DEF Pumped
<1>2. \A p \in Meant(r) : p \in 1..Len(Items(r)) /\ Items(r)[p] = "more"
  BY MeantOfOthers
<1>3. \A i \in 1..Len(Items(r)) : i < at + 1 => i < at \/ i = at
  BY <1>0
<1>4. \A i \in 1..Len(Items(r)) : i < at + 1 =>
        Items(r)[i] # "forever" /\ (Kind(r) = "sub" => Items(r)[i] = "more")
  BY <1>1, <1>3
<1>5. CASE Items(r)[at] = "more"
  <2>1. at \in Meant(r)
    <3>1. Kind(r) # "wsgi" => Kind(r) = "sub" \/ Kind(r) = "gql"
      BY CallFacts DEF Kinds
    <3>2. Kind(r) # "gql"
      BY <1>0 DEF TypeInv, AppType
    <3>3. \A j \in 1..at : j \in 1..Len(Items(r)) /\ j < at + 1
      BY <1>0
    <3>4. QED
      BY <1>4, <1>5, <3>1, <3>2, <3>3, MeantOfOthers
  <2>2. /\ t = Append(s, at) /\ Len(t) = Len(s) + 1 /\ t[Len(s) + 1] = at
        /\ \A j \in 1..Len(s) : t[j] = s[j] /\ j \in 1..Len(t)
        /\ Len(s) + 1 \in 1..Len(t)
    BY <1>0, <1>5
  <2>3. Begins(t, Meant(r))
    BY <1>0, <1>1, <2>1, <2>2, BeginsAppended
  <2>4. \A j \in 1..Len(t) : t[j] < at + 1
    <3>1. \A j \in 1..Len(t) : j \in 1..Len(s) \/ j = Len(s) + 1
      BY <1>0, <2>2
    <3>2. \A j \in 1..Len(s) : s[j] < at + 1
      BY <1>0, <1>1
    <3>3. QED
      BY <1>0, <2>2, <3>1, <3>2
  <2>5. ASSUME NEW p \in Meant(r), p < at + 1 PROVE \E j \in 1..Len(t) : t[j] = p
    <3>1. p < at \/ p = at
      BY <1>2, <1>3, <2>5
    <3>2. QED
      BY <1>1, <2>2, <3>1
  <2>6. Begins(Parts(r), Meant(r))'
    BY <2>3, AppStays DEF Begins
  <2>7. QED
    BY <1>4, <2>4, <2>5, <2>6, AppStays DEF Pumped
<1>6. CASE Items(r)[at] # "more"
  <2>1. t = s
    BY <1>6
  <2>2. \A p \in Meant(r) : p < at + 1 => p < at
    BY <1>2, <1>3, <1>6
  <2>3. \A j \in 1..Len(s) : s[j] < at + 1
    BY <1>0, <1>1
  <2>4. Begins(Parts(r), Meant(r))'
    BY <1>1, <2>1, AppStays DEF Begins
  <2>5. QED
    BY <1>1, <1>4, <2>1, <2>2, <2>3, <2>4, AppStays DEF Pumped
<1>7. QED
  BY <1>5, <1>6

\* The items are at their end, or the acceptor is.
LEMMA PumpedOut ==
  ASSUME TypeInv, UNCHANGED fixed, NEW r \in Requests, Kind(r) # "asgi", Pumped(r), ~fed[r], fed'[r],
         Parts(r)' = Parts(r),
         \/ py[r].at > Len(Items(r))
         \/ Kind(r) # "wsgi" /\ Items(r)[py[r].at] # "more"
  PROVE  Pumped(r)'
<1>0. py[r].at \in Nat \ {0} /\ Len(Items(r)) \in Nat
  BY CallFacts DEF TypeInv, Process
<1>1. ASSUME NEW p \in Meant(r) PROVE p < py[r].at
  <2>1. /\ p \in 1..Len(Items(r))
        /\ \A j \in 1..p : Kind(r) # "wsgi" => Items(r)[j] = "more"
    BY MeantOfOthers
  <2>2. CASE py[r].at > Len(Items(r))
    BY <1>0, <2>1, <2>2
  <2>3. CASE Kind(r) # "wsgi" /\ Items(r)[py[r].at] # "more"
    <3>1. py[r].at \notin 1..p
      BY <2>1, <2>3
    <3>2. QED
      BY <1>0, <2>1, <3>1
  <2>4. QED
    BY <2>2, <2>3
<1>2. Covers(Parts(r), Meant(r))'
  BY <1>1, AppStays DEF Covers, Pumped
<1>3. Begins(Parts(r), Meant(r))'
  BY AppStays DEF Begins, Pumped
<1>4. QED
  BY <1>2, <1>3 DEF Pumped

LEMMA WsgiRespondsStep ==
  ASSUME TypeInv, NEW r \in Requests, RequestInv(r), WsgiResponds(r)
  PROVE  RequestInv(r)'
<1>0. /\ UNCHANGED <<fixed, client, intake, told, out, chan, got, done, database>>
      /\ Kind(r) = "wsgi" /\ conn[r] = "answered" /\ py'[r].state = py[r].state /\ py'[r].at = 1
      /\ py[r].state \in {"ok", "failed", "rejects", "misrejects", "lost"}
  BY DEF WsgiResponds, TypeInv, Process, RequestInv, Place, Calls
<1>1. KeepsIntake(r)
  BY <1>0 DEF KeepsIntake
<1>2. got[r] = << >> /\ chan[r] = << >> /\ ~fed[r] /\ ~done[r]
  BY <1>0 DEF RequestInv, Place
<1>3. ASSUME Refuse(r, "500"), py[r].state = "ok" => out[r] = << >> PROVE RequestInv(r)'
  <2>1. conn'[r] = "over" /\ status'[r] = "500" /\ fed'[r] = TRUE
    BY <1>3 DEF Refuse, TypeInv
  <2>2. Place(r)'
    BY <1>0, <1>3, RefusedPlace DEF RequestInv
  <2>3. KeepsBodies(r)
    BY <1>0, <2>1 DEF KeepsBodies
  <2>4. Outbox(r)'
    BY <1>0, <2>1, AppStays DEF Outbox, RequestInv
  <2>5. py[r].state = "ok" => StartsAt(r) = {}
    BY <1>0, <1>3, AllSaid DEF RequestInv
  <2>6. Causes(r)'
    BY <1>0, <2>1, <2>5, CallFacts, AppStays DEF Causes, RequestInv, GraphQL
  <2>7. QED
    BY <1>0, <1>1, <2>2, <2>3, <2>4, <2>6, IntakeKept, BodiesKept DEF RequestInv
<1>4. ASSUME conn'[r] = "body", status'[r] = "200", fed'[r] = fed[r] PROVE RequestInv(r)'
  <2>1. Place(r)'
    BY <1>0, <1>2, <1>4, AppStays DEF Place, RequestInv
  <2>2. Causes(r)'
    BY <1>0, <1>4, AppStays DEF Causes, RequestInv, GraphQL
  <2>3. Outbox(r)'
    BY <1>0, <1>4, AppStays DEF Outbox, RequestInv
  <2>4. Parts(r)' = << >> /\ Len(Parts(r)') = 0
    BY <1>0, <1>2 DEF Parts
  <2>5. Pumped(r)'
    BY <1>0, <1>2, <1>4, <2>4, PumpedAtFirst
  <2>6. Bodies(r)'
    BY <1>0, <2>5, AppStays DEF Bodies, RequestInv, Begins
  <2>7. QED
    BY <1>0, <1>1, <2>1, <2>2, <2>3, <2>6, IntakeKept DEF RequestInv
<1>5. QED
  BY <1>3, <1>4 DEF WsgiResponds, TypeInv

LEMMA PumpBeginsStep ==
  ASSUME TypeInv, NEW r \in Requests, RequestInv(r), PumpBegins(r)
  PROVE  RequestInv(r)'
<1>1. UNCHANGED fixed /\ Keeps(r)
  BY DEF PumpBegins, Keeps, KeepsPlace, KeepsIntake
<1>2. QED
  BY <1>1, RequestKept

LEMMA PumpStep ==
  ASSUME TypeInv, NEW r \in Requests, RequestInv(r), Pump(r)
  PROVE  RequestInv(r)'
<1> DEFINE at == py[r].at
           over == at > Len(Items(r)) \/ (Items(r)[at] = "more" /\ client[r] = "left")
           sends == ~over /\ Items(r)[at] = "more"
<1>0. /\ UNCHANGED <<fixed, conn, client, intake, told, out, got, status, done, database>>
      /\ Kind(r) = "wsgi" /\ conn[r] = "body" /\ fed[r] = FALSE /\ py'[r].state = py[r].state
      /\ py[r].state \notin {"idle", "running"} /\ at \in Nat \ {0}
      /\ over => fed'[r] = TRUE /\ chan'[r] = chan[r] /\ py'[r].at = at
      /\ ~over => fed'[r] = FALSE /\ py'[r].at = at + 1 /\ Items(r)[at] # "forever"
      /\ sends => Len(chan[r]) < WsgiRoom /\ chan'[r] = Append(chan[r], at)
      /\ ~over /\ ~sends => chan'[r] = chan[r]
  BY DEF Pump, PumpEnds, Iterating, TypeInv, Process, RequestInv, Place
<1>1. KeepsIntake(r) /\ KeepsCauses(r)
  BY <1>0 DEF KeepsIntake, KeepsCauses
<1>2. Place(r)'
  BY <1>0, AppStays DEF Place, RequestInv
<1>3. Outbox(r)'
  BY <1>0, AppStays DEF Outbox, RequestInv
<1>4. chan[r] \in Seq(Nat) /\ WsgiRoom \in Nat
  BY WebAssumption DEF TypeInv
<1>5. Len(chan'[r]) <= WsgiRoom
  <2>1. CASE ~sends
    BY <1>0, <2>1 DEF RequestInv, Bodies
  <2>2. CASE sends
    <3>1. Len(Append(chan[r], at)) = Len(chan[r]) + 1
      BY <1>0, <1>4
    <3>2. QED
      BY <1>0, <1>4, <2>2, <3>1
  <2>3. QED
    BY <2>1, <2>2
<1>6. client[r] = "here" => Pumped(r)'
  <2>1. SUFFICES ASSUME client[r] = "here" PROVE Pumped(r)'
    OBVIOUS
  <2>2. Pumped(r) /\ Len(Items(r)) \in Nat
    BY <1>0, <2>1, CallFacts DEF RequestInv, Bodies
  <2>3. CASE over
    <3>1. Parts(r)' = Parts(r)
      BY <1>0, <2>3 DEF Parts
    <3>2. at > Len(Items(r))
      BY <2>1, <2>3
    <3>3. QED
      BY <1>0, <2>2, <2>3, <3>1, <3>2, PumpedOut
  <2>4. CASE ~over
    <3>1. at \in 1..Len(Items(r))
      BY <1>0, <2>2, <2>4
    <3>2. Parts(r)' = IF Items(r)[at] = "more" THEN Append(Parts(r), at) ELSE Parts(r)
      <4>1. CASE sends
        BY <1>0, <4>1, PartsAppended
      <4>2. CASE ~sends
        BY <1>0, <2>4, <4>2 DEF Parts
      <4>3. QED
        BY <4>1, <4>2
    <3>3. QED
      BY <1>0, <2>2, <2>4, <3>1, <3>2, PumpedOn
  <2>5. QED
    BY <2>3, <2>4
<1>7. Bodies(r)'
  BY <1>0, <1>5, <1>6, AppStays DEF Bodies, RequestInv, Begins
<1>8. QED
  BY <1>0, <1>1, <1>2, <1>3, <1>7, IntakeKept, CausesKept DEF RequestInv

-----------------------------------------------------------------------------
(* The messages of ASGI. *)

LEMMA MeantOfAsgi ==
  ASSUME NEW r, Kind(r) = "asgi", NEW p
  PROVE  p \in Meant(r) <=>
           /\ p \in SentAt(r) /\ Call(r)[p] \in {"more", "last"}
           /\ \E s \in SentAt(r) :
                /\ Call(r)[s] = "start" /\ s < p
                /\ \A j \in SentAt(r) : j < p /\ j # s => s < j /\ Call(r)[j] = "more"
BY DEF Meant, SentAt

\* The box without its first message.
LEMMA Unboxed ==
  ASSUME TypeInv, NEW r \in Requests, out[r] # << >>, out'[r] = Tail(out[r])
  PROVE  /\ 1 \in 1..Len(out[r]) /\ Head(out[r]) = out[r][1]
         /\ \A n \in 1..Len(out'[r]) : n + 1 \in 1..Len(out[r]) /\ out'[r][n] = out[r][n + 1] /\ n + 1 > 1
         /\ \A n \in 1..Len(out[r]) : n = 1 \/ (n - 1 \in 1..Len(out'[r]) /\ out'[r][n - 1] = out[r][n])
<1>1. out[r] \in Seq(Message)
  BY DEF TypeInv
<1>2. Len(out'[r]) = Len(out[r]) - 1 /\ Len(out[r]) \in Nat /\ Len(out[r]) > 0
  BY <1>1
<1>3. \A n \in 1..Len(out'[r]) : out'[r][n] = out[r][n + 1]
  BY <1>1, <1>2
<1>4. Head(out[r]) = out[r][1]
  BY <1>1
<1>5. ASSUME NEW n \in 1..Len(out[r]), n # 1
      PROVE  n - 1 \in 1..Len(out'[r]) /\ out'[r][n - 1] = out[r][n]
  <2>1. n - 1 \in 1..Len(out'[r]) /\ (n - 1) + 1 = n
    BY <1>2, <1>5
  <2>2. QED
    BY <1>3, <2>1
<1>6. QED
  BY <1>2, <1>3, <1>4, <1>5

LEMMA UnboxedOutbox ==
  ASSUME TypeInv, UNCHANGED fixed, NEW r \in Requests, Outbox(r), out[r] # << >>, out'[r] = Tail(out[r]),
         py'[r] = py[r], conn'[r] = "body", py[r].state # "running"
  PROVE  Outbox(r)'
<1>1. \A n \in 1..Len(out'[r]) : n + 1 \in 1..Len(out[r]) /\ out'[r][n] = out[r][n + 1]
  BY Unboxed
<1>2. \A n \in 1..Len(out'[r]) :
        out'[r][n][2] \in SentAt(r) /\ out'[r][n][1] = Call(r)[out'[r][n][2]]
  BY <1>1 DEF Outbox
<1>3. \A n, m \in 1..Len(out'[r]) : n < m => out'[r][n][2] < out'[r][m][2]
  <2>1. TAKE n, m \in 1..Len(out'[r])
  <2>2. n < m => n + 1 < m + 1
    OBVIOUS
  <2>3. QED
    BY <1>1, <2>2 DEF Outbox
<1>4. QED
  BY <1>2, <1>3, AppStays DEF Outbox

LEMMA AsgiRespondsStep ==
  ASSUME TypeInv, NEW r \in Requests, RequestInv(r), AsgiResponds(r)
  PROVE  RequestInv(r)'
<1> DEFINE good == py[r].state = "ok" /\ out[r] # << >> /\ Head(out[r])[1] = "start"
<1>0. /\ UNCHANGED <<fixed, client, intake, told, py, chan, got, done, database>>
      /\ Kind(r) = "asgi" /\ conn[r] = "answered"
      /\ py[r].state \in {"ok", "failed", "rejects", "misrejects", "lost"}
  BY DEF AsgiResponds, TypeInv, Process, RequestInv, Place, Calls
<1>1. KeepsIntake(r)
  BY <1>0 DEF KeepsIntake
<1>2. got[r] = << >> /\ chan[r] = << >> /\ ~fed[r] /\ ~done[r]
  BY <1>0 DEF RequestInv, Place
<1>3. ASSUME NEW n \in 1..Len(out[r])
      PROVE  /\ out[r][n][2] \in SentAt(r) /\ out[r][n][1] = Call(r)[out[r][n][2]]
             /\ \A m \in 1..Len(out[r]) : n < m => out[r][n][2] < out[r][m][2]
  BY DEF RequestInv, Outbox
<1>4. out[r] # << >> => 1 \in 1..Len(out[r]) /\ Head(out[r]) = out[r][1]
  BY DEF TypeInv
<1>5. CASE ~good
  <2>1. Refuse(r, "500") /\ out' = out
    BY <1>5 DEF AsgiResponds
  <2>2. conn'[r] = "over" /\ status'[r] = "500"
    BY <2>1 DEF Refuse, TypeInv
  <2>3. Place(r)'
    BY <1>0, <2>1, RefusedPlace DEF RequestInv
  <2>4. KeepsBodies(r) /\ KeepsOutbox(r)
    BY <1>0, <2>1, <2>2 DEF KeepsBodies, KeepsOutbox
  <2>5. ASSUME py[r].state = "ok", out[r] # << >> PROVE SpeaksEarly(r)
    <3>1. out[r][1][2] \in SentAt(r) \ StartsAt(r)
      BY <1>3, <1>4, <1>5, <2>5 DEF StartsAt
    <3>2. ASSUME NEW j \in StartsAt(r) PROVE out[r][1][2] < j
      <4>1. j \in SentAt(r)
        BY DEF StartsAt, SentAt, Sending
      <4>2. PICK n \in 1..Len(out[r]) : out[r][n][2] = j
        BY <1>0, <2>5, <4>1, AllSaid DEF RequestInv
      <4>3. n = 1 \/ 1 < n
        OBVIOUS
      <4>4. n # 1
        BY <3>1, <4>2
      <4>5. QED
        BY <1>3, <1>4, <2>5, <4>2, <4>3, <4>4
    <3>3. QED
      BY <3>1, <3>2 DEF SpeaksEarly
  <2>6. py[r].state = "ok" /\ out[r] = << >> => StartsAt(r) = {}
    BY <1>0, AllSaid DEF RequestInv
  <2>7. Causes(r)'
    BY <1>0, <2>2, <2>5, <2>6, CallFacts, AppStays DEF Causes, RequestInv, GraphQL
  <2>8. QED
    BY <1>0, <1>1, <2>3, <2>4, <2>7, IntakeKept, OutboxKept, BodiesKept DEF RequestInv
<1>6. CASE good
  <2>1. /\ conn'[r] = "body" /\ status'[r] = "200" /\ fed'[r] = fed[r]
        /\ out'[r] = Tail(out[r]) /\ out[r] # << >>
    BY <1>6 DEF AsgiResponds, TypeInv
  <2>2. Place(r)'
    BY <1>0, <1>2, <1>6, <2>1, AppStays DEF Place, RequestInv
  <2>3. Causes(r)'
    BY <1>0, <2>1, AppStays DEF Causes, RequestInv, GraphQL
  <2>4. Outbox(r)'
    BY <1>0, <1>6, <2>1, UnboxedOutbox DEF RequestInv
  <2>5. Parts(r)' = << >> /\ Len(Parts(r)') = 0
    BY <1>0, <1>2 DEF Parts
  <2> DEFINE s == out[r][1][2]
  <2>6. s \in StartsAt(r)
    BY <1>3, <1>4, <1>6 DEF StartsAt, SentAt
  <2>7. \A n \in 1..Len(out'[r]) : s < out'[r][n][2]
    BY <1>3, <2>1, Unboxed
  <2>8. ASSUME NEW i \in SentAt(r)
        PROVE  i = s \/ (s < i /\ \E n \in 1..Len(out'[r]) : out'[r][n][2] = i)
    <3>1. PICK n \in 1..Len(out[r]) : out[r][n][2] = i
      BY <1>0, <1>6, AllSaid DEF RequestInv
    <3>2. CASE n = 1
      BY <3>1, <3>2
    <3>3. CASE n # 1
      <4>1. n - 1 \in 1..Len(out'[r]) /\ out'[r][n - 1] = out[r][n]
        BY <2>1, <3>3, Unboxed
      <4>2. QED
        BY <2>7, <3>1, <4>1
    <3>4. QED
      BY <3>2, <3>3
  <2> HIDE DEF s
  <2>9. Forwarded(r)'
    <3>1. Begins(Parts(r), Meant(r))'
      BY <2>5 DEF Begins
    <3>2. 1..Len(Parts(r)') = {}
      BY <2>5
    <3>3. QED
      BY <1>0, <1>2, <2>1, <2>6, <2>7, <2>8, <3>1, <3>2, AppStays DEF Forwarded
  <2>10. Bodies(r)'
    BY <1>0, <2>9, AppStays DEF Bodies, RequestInv, Begins
  <2>11. QED
    BY <1>0, <1>1, <2>2, <2>3, <2>4, <2>10, IntakeKept DEF RequestInv
<1>7. QED
  BY <1>5, <1>6

\* The forwarder ends when all that is meant is on its way.
LEMMA NothingMeantIsLeft ==
  ASSUME TypeInv, NEW r \in Requests, Outbox(r), Kind(r) = "asgi", Forwarded(r),
         out[r] = << >> \/ Call(r)[out[r][1][2]] \notin {"more", "last"}
  PROVE  Covers(Parts(r), Meant(r))
<1>1. PICK s \in StartsAt(r) :
        /\ \A i \in SentAt(r) :
             \/ i = s
             \/ s < i /\ \E j \in 1..Len(Parts(r)) : Parts(r)[j] = i
             \/ s < i /\ \E n \in 1..Len(out[r]) : out[r][n][2] = i
        /\ \A n \in 1..Len(out[r]) : s < out[r][n][2]
  BY DEF Forwarded
<1>2. s \in SentAt(r) /\ Call(r)[s] = "start" /\ s \in Nat
  BY DEF StartsAt, SentAt, Sending
<1>3. SUFFICES ASSUME NEW p \in Meant(r), ~ \E j \in 1..Len(Parts(r)) : Parts(r)[j] = p PROVE FALSE
  BY DEF Covers
<1>4. /\ p \in SentAt(r) /\ p \in Nat /\ Call(r)[p] \in {"more", "last"}
      /\ \E t \in SentAt(r) :
           /\ Call(r)[t] = "start" /\ t < p
           /\ \A j \in SentAt(r) : j < p /\ j # t => t < j /\ Call(r)[j] = "more"
  BY MeantOfAsgi DEF SentAt
<1>5. PICK n \in 1..Len(out[r]) : out[r][n][2] = p
  BY <1>1, <1>2, <1>3, <1>4
<1>6. out[r] \in Seq(Message) /\ out[r] # << >> /\ 1 \in 1..Len(out[r])
  BY <1>5 DEF TypeInv
<1> DEFINE h == out[r][1][2]
<1>8. h \in SentAt(r) /\ h \in Nat /\ s < h
  BY <1>1, <1>6 DEF Outbox, SentAt
<1>9. Call(r)[h] \notin {"more", "last"}
  BY <1>6
<1>10. h < p
  <2>1. n # 1
    BY <1>4, <1>5, <1>9
  <2>2. QED
    BY <1>5, <1>6, <2>1 DEF Outbox
<1> HIDE DEF h
<1>11. PICK t \in SentAt(r) :
         /\ Call(r)[t] = "start" /\ t < p
         /\ \A j \in SentAt(r) : j < p /\ j # t => t < j /\ Call(r)[j] = "more"
  BY <1>4
<1>12. t = h /\ t \in Nat
  BY <1>8, <1>9, <1>10, <1>11 DEF SentAt
<1>13. t < s
  BY <1>2, <1>4, <1>8, <1>10, <1>11, <1>12
<1>14. QED
  BY <1>2, <1>8, <1>12, <1>13

\* A part that goes on its way is meant, and it is the next.
LEMMA ForwardedOn ==
  ASSUME TypeInv, UNCHANGED fixed, NEW r \in Requests, Outbox(r), Kind(r) = "asgi", Forwarded(r), ~fed[r],
         out[r] # << >>, Call(r)[out[r][1][2]] \in {"more", "last"},
         got'[r] = got[r], chan'[r] = Append(chan[r], out[r][1][2]), out'[r] = Tail(out[r]),
         fed'[r] = (Call(r)[out[r][1][2]] = "last")
  PROVE  Forwarded(r)'
<1> DEFINE h == out[r][1][2]  P == Parts(r)  Q == Parts(r)'
<1>1. PICK s \in StartsAt(r) :
        /\ \A i \in SentAt(r) :
             \/ i = s
             \/ s < i /\ \E j \in 1..Len(P) : P[j] = i
             \/ s < i /\ \E n \in 1..Len(out[r]) : out[r][n][2] = i
        /\ \A n \in 1..Len(out[r]) : s < out[r][n][2]
  BY DEF Forwarded
<1>2. s \in SentAt(r) /\ Call(r)[s] = "start" /\ s \in Nat
  BY DEF StartsAt, SentAt, Sending
<1>3. 1 \in 1..Len(out[r])
  BY DEF TypeInv
<1>4. h \in SentAt(r) /\ h \in Nat /\ s < h
  BY <1>1, <1>3 DEF Outbox, SentAt
<1>5. \A n \in 1..Len(out[r]) : n = 1 \/ h < out[r][n][2]
  BY <1>3 DEF Outbox
<1>6. /\ P \in Seq(Nat) /\ Len(P) \in Nat /\ Q = Append(P, h)
  <2>1. chan'[r] = Append(chan[r], h) /\ got'[r] = got[r] /\ h \in Nat
    BY <1>4
  <2> HIDE DEF h
  <2>2. Parts(r)' = Append(Parts(r), h)
    BY <2>1, PartsAppended
  <2>3. Parts(r) \in Seq(Nat)
    BY PartsFacts
  <2>4. QED
    BY <2>2, <2>3
<1>7. /\ Len(Q) = Len(P) + 1 /\ \A j \in 1..Len(P) : Q[j] = P[j] /\ P[j] \in Nat
      /\ Q[Len(P) + 1] = h
  BY <1>4, <1>6
<1>8. \A j \in 1..Len(Q) : j \in 1..Len(P) \/ j = Len(P) + 1
  BY <1>6, <1>7
<1>9. \A j \in 1..Len(P) : P[j] < h /\ Call(r)[P[j]] = "more"
  BY <1>3 DEF Forwarded
<1>10. Begins(P, Meant(r))
  BY DEF Forwarded
<1> HIDE DEF P, Q
<1>11. \A n \in 1..Len(out'[r]) : n + 1 \in 1..Len(out[r]) /\ out'[r][n] = out[r][n + 1] /\ n + 1 # 1
  BY Unboxed
<1>12. ASSUME NEW n \in 1..Len(out'[r]) PROVE s < out'[r][n][2] /\ h < out'[r][n][2]
  BY <1>1, <1>5, <1>11
<1>13. ASSUME NEW i \in SentAt(r)
       PROVE  \/ i = s
              \/ s < i /\ \E j \in 1..Len(Q) : Q[j] = i
              \/ s < i /\ \E n \in 1..Len(out'[r]) : out'[r][n][2] = i
  <2>1. CASE \E j \in 1..Len(P) : P[j] = i
    BY <1>1, <1>6, <1>7, <2>1
  <2>2. CASE s < i /\ \E n \in 1..Len(out[r]) : out[r][n][2] = i
    <3>1. PICK n \in 1..Len(out[r]) : out[r][n][2] = i
      BY <2>2
    <3>2. CASE n = 1
      <4>1. Len(P) + 1 \in 1..Len(Q) /\ Q[Len(P) + 1] = i
        BY <1>6, <1>7, <3>1, <3>2
      <4>2. QED
        BY <2>2, <4>1
    <3>3. CASE n # 1
      <4>1. n - 1 \in 1..Len(out'[r]) /\ out'[r][n - 1] = out[r][n]
        BY <3>3, Unboxed
      <4>2. QED
        BY <2>2, <3>1, <4>1
    <3>4. QED
      BY <3>2, <3>3
  <2>3. QED
    BY <1>1, <2>1, <2>2
<1>14. ASSUME NEW j \in 1..Len(Q), NEW n \in 1..Len(out'[r]) PROVE Q[j] < out'[r][n][2]
  <2>1. CASE j \in 1..Len(P)
    BY <1>7, <1>11, <2>1 DEF Forwarded, P
  <2>2. CASE j = Len(P) + 1
    BY <1>7, <1>12, <2>2
  <2>3. QED
    BY <1>8, <2>1, <2>2
\* Nothing that was sent before it is still waiting.
<1>15. ASSUME NEW i \in SentAt(r), i < h, i # s PROVE s < i /\ \E j \in 1..Len(P) : P[j] = i
  <2>1. ~ \E n \in 1..Len(out[r]) : out[r][n][2] = i
    BY <1>4, <1>5, <1>15 DEF SentAt
  <2>2. QED
    BY <1>1, <1>15, <2>1
<1>16. h \in Meant(r)
  <2>1. ASSUME NEW j \in SentAt(r), j < h /\ j # s PROVE s < j /\ Call(r)[j] = "more"
    BY <1>9, <1>15, <2>1
  <2>2. QED
    BY <1>2, <1>4, <2>1, MeantOfAsgi
<1>17. Begins(Q, Meant(r))
  <2>1. ASSUME NEW i \in 1..Len(Q), NEW j \in 1..Len(Q), i < j PROVE Q[i] < Q[j]
    <3>1. i \in 1..Len(P)
      BY <1>6, <1>7, <2>1
    <3>2. CASE j \in 1..Len(P)
      BY <1>7, <1>10, <2>1, <3>1, <3>2 DEF Begins
    <3>3. CASE j = Len(P) + 1
      BY <1>7, <1>9, <3>1, <3>3
    <3>4. QED
      BY <1>8, <3>2, <3>3
  <2>2. ASSUME NEW i \in 1..Len(Q) PROVE Q[i] \in Meant(r)
    BY <1>7, <1>8, <1>10, <1>16 DEF Begins
  <2>3. ASSUME NEW i \in 1..Len(Q), NEW p \in Meant(r), p < Q[i] PROVE \E j \in 1..Len(Q) : Q[j] = p
    <3>1. \E j \in 1..Len(P) : P[j] = p
      <4>1. CASE i \in 1..Len(P)
        BY <1>7, <1>10, <2>3, <4>1 DEF Begins
      <4>2. CASE i = Len(P) + 1
        <5>1. p \in SentAt(r) /\ p < h /\ p # s
          BY <1>2, <1>7, <2>3, <4>2, MeantOfAsgi
        <5>2. QED
          BY <1>15, <5>1
      <4>3. QED
        BY <1>8, <4>1, <4>2
    <3>2. QED
      BY <1>6, <1>7, <3>1
  <2>4. QED
    BY <2>1, <2>2, <2>3 DEF Begins
<1>18. ASSUME ~fed'[r], NEW j \in 1..Len(Q) PROVE Call(r)[Q[j]] = "more"
  <2>1. Call(r)[h] = "more"
    BY <1>18
  <2>2. QED
    BY <1>7, <1>8, <1>9, <2>1
<1>19. ASSUME fed'[r] PROVE Covers(Q, Meant(r))
  <2>1. Call(r)[h] = "last"
    BY <1>19
  <2>2. SUFFICES ASSUME NEW p \in Meant(r) PROVE \E j \in 1..Len(Q) : Q[j] = p
    BY DEF Covers
  <2>3. PICK t \in SentAt(r) :
          /\ Call(r)[t] = "start" /\ t < p
          /\ \A j \in SentAt(r) : j < p /\ j # t => t < j /\ Call(r)[j] = "more"
    BY MeantOfAsgi
  <2>4. p \in SentAt(r) /\ p # s /\ p \in Nat /\ Call(r)[p] \in {"more", "last"}
    BY <1>2, MeantOfAsgi DEF SentAt
  <2>5. ~(h < p)
    BY <1>4, <2>1, <2>3
  <2>6. p = h \/ p < h
    BY <1>4, <2>4, <2>5
  <2>7. CASE p = h
    BY <1>6, <1>7, <2>7
  <2>8. CASE p < h
    <3>1. PICK j \in 1..Len(P) : P[j] = p
      BY <1>15, <2>4, <2>8
    <3>2. j \in 1..Len(Q) /\ Q[j] = p
      BY <1>6, <1>7, <3>1
    <3>3. QED
      BY <3>2
  <2>9. QED
    BY <2>6, <2>7, <2>8
<1> HIDE DEF h
<1>20. /\ \E t \in StartsAt(r) :
            /\ \A i \in SentAt(r) :
                 \/ i = t
                 \/ t < i /\ \E j \in 1..Len(Q) : Q[j] = i
                 \/ t < i /\ \E n \in 1..Len(out'[r]) : out'[r][n][2] = i
            /\ \A n \in 1..Len(out'[r]) : t < out'[r][n][2]
       /\ \A j \in 1..Len(Q), n \in 1..Len(out'[r]) : Q[j] < out'[r][n][2]
  BY <1>12, <1>13, <1>14
<1>21. QED
  BY <1>17, <1>18, <1>19, <1>20, AppStays DEF Forwarded, Q

LEMMA ForwardStep ==
  ASSUME TypeInv, NEW r \in Requests, RequestInv(r), Forward(r)
  PROVE  RequestInv(r)'
<1> DEFINE ends == out[r] = << >> \/ ~Forwards(Head(out[r])) \/ client[r] = "left"
           h == out[r][1][2]
<1>0. /\ UNCHANGED <<fixed, conn, client, intake, told, py, got, status, done, database>>
      /\ Kind(r) = "asgi" /\ conn[r] = "body" /\ fed[r] = FALSE
      /\ py[r].state \notin {"idle", "running"}
  BY DEF Forward, TypeInv, RequestInv, Place
<1>1. KeepsIntake(r) /\ KeepsCauses(r)
  BY <1>0 DEF KeepsIntake, KeepsCauses
<1>2. Place(r)'
  BY <1>0, AppStays DEF Place, RequestInv
<1>3. /\ Outbox(r) /\ (client[r] = "here" => Forwarded(r)) /\ Begins(got[r], Meant(r))
      /\ Len(chan[r]) <= AsgiRoom /\ chan[r] \in Seq(Nat) /\ AsgiRoom \in Nat
  BY <1>0, WebAssumption DEF RequestInv, Bodies, TypeInv
<1>4. ASSUME out[r] # << >>
      PROVE  /\ 1 \in 1..Len(out[r]) /\ Head(out[r]) = out[r][1] /\ h \in Nat
             /\ Forwards(Head(out[r])) <=> Call(r)[h] \in {"more", "last"}
             /\ Head(out[r])[1] = Call(r)[h]
  <2>1. 1 \in 1..Len(out[r]) /\ Head(out[r]) = out[r][1]
    BY <1>4 DEF TypeInv
  <2>2. h \in SentAt(r) /\ out[r][1][1] = Call(r)[h]
    BY <1>3, <2>1 DEF Outbox
  <2>3. QED
    BY <2>1, <2>2 DEF Forwards, SentAt
<1>5. CASE ends
  <2>1. fed'[r] = TRUE /\ UNCHANGED <<chan, out>>
    BY <1>0, <1>5 DEF Forward, TypeInv
  <2>2. Outbox(r)'
    BY <1>0, <2>1, AppStays DEF Outbox, RequestInv
  <2>3. client[r] = "here" => Forwarded(r)'
    <3>1. SUFFICES ASSUME client[r] = "here" PROVE Forwarded(r)'
      OBVIOUS
    <3>2. Covers(Parts(r), Meant(r))
      BY <1>0, <1>3, <1>4, <1>5, <3>1, NothingMeantIsLeft
    <3>3. Parts(r)' = Parts(r)
      BY <1>0, <2>1 DEF Parts
    <3>4. Begins(Parts(r), Meant(r))' /\ Covers(Parts(r), Meant(r))'
      BY SMTT(30), <1>0, <1>3, <3>1, <3>2, <3>3, AppStays DEF Begins, Covers, Forwarded
    <3>5. QED
      BY <1>0, <1>3, <2>1, <3>1, <3>3, <3>4, AppStays DEF Forwarded
  <2>4. Bodies(r)'
    BY <1>0, <1>3, <2>1, <2>3, AppStays DEF Bodies, Begins
  <2>5. QED
    BY <1>0, <1>1, <1>2, <2>2, <2>4, IntakeKept, CausesKept DEF RequestInv
<1>6. CASE ~ends
  <2>1. /\ out[r] # << >> /\ client[r] = "here" /\ Len(chan[r]) < AsgiRoom
        /\ chan'[r] = Append(chan[r], h) /\ out'[r] = Tail(out[r])
        /\ fed'[r] = (Call(r)[h] = "last")
    BY <1>0, <1>4, <1>6 DEF Forward, TypeInv
  <2>2. Outbox(r)'
    BY <1>0, <1>3, <2>1, UnboxedOutbox
  <2>3. Forwarded(r)'
    BY <1>0, <1>3, <1>4, <1>6, <2>1, ForwardedOn
  <2>4. Len(chan'[r]) <= AsgiRoom
    <3>1. Len(Append(chan[r], h)) = Len(chan[r]) + 1
      BY <1>3, <1>4, <2>1
    <3>2. QED
      BY <1>3, <2>1, <3>1
  <2>5. Bodies(r)'
    BY <1>0, <1>3, <2>3, <2>4, AppStays DEF Bodies, Begins
  <2>6. QED
    BY <1>0, <1>1, <1>2, <2>2, <2>5, IntakeKept, CausesKept DEF RequestInv
<1>7. QED
  BY <1>5, <1>6

-----------------------------------------------------------------------------
(* GraphQL. *)

\* auth refuses, or fails.
LEMMA RejectedStep ==
  ASSUME TypeInv, UNCHANGED fixed, NEW r \in Requests, RequestInv(r), GraphQL(r), conn[r] = "answered",
         ~LetIn(r), Rejected(r),
         UNCHANGED <<client, intake, told, py, out, chan, got, done, database>>
  PROVE  RequestInv(r)'
<1>1. /\ conn'[r] = "over"
      /\ status'[r] = IF py[r].state = "rejects" THEN "403" ELSE "500"
  BY DEF Rejected, Refuse, TypeInv
<1>2. Place(r)'
  BY RefusedPlace DEF RequestInv, Rejected
<1>3. py[r].state \in {"failed", "rejects", "lost"}
  BY DEF RequestInv, Place, TypeInv, Process, Calls, LetIn
<1>4. Kind(r) # "wsgi" /\ Kind(r) # "asgi"
  BY DEF GraphQL
<1>5. Causes(r)'
  BY <1>1, <1>3, <1>4, AppStays DEF Causes, RequestInv, GraphQL
<1>6. KeepsIntake(r) /\ KeepsOutbox(r) /\ KeepsBodies(r)
  BY <1>1 DEF KeepsIntake, KeepsOutbox, KeepsBodies
<1>7. QED
  BY <1>2, <1>5, <1>6, IntakeKept, OutboxKept, BodiesKept DEF RequestInv

LEMMA GqlAuthorisedStep ==
  ASSUME TypeInv, NEW r \in Requests, RequestInv(r), GqlAuthorised(r)
  PROVE  RequestInv(r)'
<1>0. /\ UNCHANGED <<fixed, client, intake, told, py, out, chan, got, done>>
      /\ Kind(r) = "gql" /\ conn[r] = "answered"
  BY DEF GqlAuthorised, Authorised
<1>1. CASE LetIn(r)
  <2>1. UNCHANGED <<conn, status, fed>>
    BY <1>1 DEF GqlAuthorised
  <2>2. Place(r)'
    BY <1>0, <2>1, AppStays DEF Place, RequestInv
  <2>3. KeepsIntake(r) /\ KeepsCauses(r) /\ KeepsOutbox(r) /\ KeepsBodies(r)
    BY <1>0, <2>1 DEF KeepsIntake, KeepsCauses, KeepsOutbox, KeepsBodies
  <2>4. QED
    BY <1>0, <2>2, <2>3, IntakeKept, CausesKept, OutboxKept, BodiesKept DEF RequestInv
<1>2. CASE ~LetIn(r)
  BY <1>0, <1>2, RejectedStep DEF GqlAuthorised, GraphQL
<1>3. QED
  BY <1>1, <1>2

LEMMA SubscriptionAuthorisedStep ==
  ASSUME TypeInv, NEW r \in Requests, RequestInv(r), SubscriptionAuthorised(r)
  PROVE  RequestInv(r)'
<1>0. /\ UNCHANGED <<fixed, client, intake, told, py, out, chan, got, done, database>>
      /\ Kind(r) = "sub" /\ conn[r] = "answered"
  BY DEF SubscriptionAuthorised, Authorised
<1>1. CASE LetIn(r)
  <2>1. conn'[r] = "upgraded" /\ status'[r] = "101" /\ UNCHANGED fed
    BY <1>1 DEF SubscriptionAuthorised, TypeInv
  <2>2. Place(r)'
    BY <1>0, <1>1, <2>1, AppStays DEF Place, RequestInv, LetIn
  <2>3. KeepsIntake(r) /\ KeepsOutbox(r) /\ KeepsBodies(r)
    BY <1>0, <2>1 DEF KeepsIntake, KeepsOutbox, KeepsBodies
  <2>4. Causes(r)'
    BY <1>0, <1>1, <2>1, AppStays DEF Causes, RequestInv, GraphQL
  <2>5. QED
    BY <1>0, <2>2, <2>3, <2>4, IntakeKept, OutboxKept, BodiesKept DEF RequestInv
<1>2. CASE ~LetIn(r)
  BY <1>0, <1>2, RejectedStep DEF SubscriptionAuthorised, GraphQL
<1>3. QED
  BY <1>1, <1>2

LEMMA GqlAnswersStep ==
  ASSUME TypeInv, NEW r \in Requests, RequestInv(r), GqlAnswers(r)
  PROVE  RequestInv(r)'
<1>0. /\ UNCHANGED <<fixed, client, intake, told, py, out, chan, got, done>>
      /\ Kind(r) = "gql" /\ conn[r] = "answered" /\ conn'[r] = "body" /\ status'[r] = "200"
      /\ fed'[r] = TRUE /\ database'[r] \in {"closed", "shared"}
  BY DEF GqlAnswers, AfterQuery, TypeInv, Databases
<1>1. Place(r)'
  BY <1>0, AppStays DEF Place, RequestInv
<1>2. KeepsIntake(r) /\ KeepsOutbox(r)
  BY <1>0 DEF KeepsIntake, KeepsOutbox
<1>3. Causes(r)'
  BY <1>0, AppStays DEF Causes, RequestInv, GraphQL
<1>4. Bodies(r)'
  BY <1>0, AppStays DEF Bodies, RequestInv, Begins
<1>5. QED
  BY <1>0, <1>1, <1>2, <1>3, <1>4, IntakeKept, OutboxKept DEF RequestInv

LEMMA SubscriptionUnsupportedStep ==
  ASSUME TypeInv, NEW r \in Requests, RequestInv(r), SubscriptionUnsupported(r)
  PROVE  RequestInv(r)'
<1>0. /\ UNCHANGED <<fixed, client, intake, told, py, out, chan, got, done, database>>
      /\ build = "free" /\ conn[r] = "new" /\ Refuse(r, "unsupported")
  BY DEF SubscriptionUnsupported
<1>1. conn'[r] = "over" /\ status'[r] = "unsupported"
  BY <1>0 DEF Refuse, TypeInv
<1>2. Place(r)'
  BY <1>0, RefusedPlace DEF RequestInv
<1>3. KeepsIntake(r) /\ KeepsOutbox(r) /\ KeepsBodies(r)
  BY <1>0, <1>1 DEF KeepsIntake, KeepsOutbox, KeepsBodies
<1>4. Causes(r)'
  BY <1>0, <1>1, AppStays DEF Causes, RequestInv, GraphQL
<1>5. QED
  BY <1>0, <1>2, <1>3, <1>4, IntakeKept, OutboxKept, BodiesKept DEF RequestInv

LEMMA SubscribeStep ==
  ASSUME TypeInv, NEW r \in Requests, RequestInv(r), Subscribe(r)
  PROVE  RequestInv(r)'
<1>0. /\ UNCHANGED <<fixed, client, intake, told, out, fed, chan, got, status, done, database>>
      /\ conn[r] = "upgraded" /\ conn'[r] = "body" /\ py'[r].state = py[r].state /\ py'[r].at = 1
  BY DEF Subscribe, TypeInv, Process
<1>1. /\ Kind(r) = "sub" /\ got[r] = << >> /\ chan[r] = << >> /\ fed[r] = FALSE
      /\ py[r].state \notin {"idle", "running"}
  BY <1>0 DEF RequestInv, Place, TypeInv
<1>2. Place(r)'
  BY <1>0, <1>1, AppStays DEF Place, RequestInv
<1>3. KeepsIntake(r) /\ KeepsCauses(r)
  BY <1>0 DEF KeepsIntake, KeepsCauses
<1>4. Outbox(r)'
  BY <1>0, <1>1, AppStays DEF Outbox, RequestInv
<1>5. Bodies(r)'
  <2>1. Parts(r)' = << >> /\ Len(Parts(r)') = 0
    BY <1>0, <1>1 DEF Parts
  <2>2. Pumped(r)'
    BY <1>0, <1>1, <2>1, PumpedAtFirst
  <2>3. QED
    BY <1>0, <1>1, <2>2, AppStays DEF Bodies, RequestInv, Begins
<1>6. QED
  BY <1>0, <1>2, <1>3, <1>4, <1>5, IntakeKept, CausesKept DEF RequestInv

LEMMA PublishStep ==
  ASSUME TypeInv, NEW r \in Requests, RequestInv(r), Publish(r)
  PROVE  RequestInv(r)'
<1> DEFINE at == py[r].at
<1>0. /\ UNCHANGED <<fixed, conn, client, intake, out, fed, got, status, done>>
      /\ Kind(r) = "sub" /\ conn[r] = "body" /\ fed[r] = FALSE /\ at \in Nat \ {0}
      /\ at <= Len(Items(r)) /\ Items(r)[at] = "more"
      /\ py'[r].state = py[r].state /\ py'[r].at = at + 1 /\ py[r].state \notin {"idle", "running"}
  BY DEF Publish, Publishing, TypeInv, Process, RequestInv, Place
<1>1. \/ client[r] = "left"
      \/ client[r] = "here" /\ told'[r] = told[r] /\ chan'[r] = Append(chan[r], at)
  BY DEF Publish, TypeInv
<1>2. Place(r)'
  BY <1>0, AppStays DEF Place, RequestInv
<1>3. Intake(r)'
  BY <1>0, <1>1, AppStays DEF Intake, RequestInv
<1>4. KeepsCauses(r)
  BY <1>0 DEF KeepsCauses
<1>5. Outbox(r)'
  BY <1>0, AppStays DEF Outbox, RequestInv
<1>6. client[r] = "here" => Pumped(r)'
  <2>1. SUFFICES ASSUME client[r] = "here" PROVE Pumped(r)'
    OBVIOUS
  <2>2. Pumped(r) /\ at \in 1..Len(Items(r))
    BY <1>0, <2>1, CallFacts DEF RequestInv, Bodies
  <2>3. Parts(r)' = Append(Parts(r), at)
    BY <1>0, <1>1, <2>1, PartsAppended
  <2>4. QED
    BY <1>0, <2>2, <2>3, PumpedOn
<1>7. Bodies(r)'
  <2>1. Begins(got[r], Meant(r))
    BY DEF RequestInv, Bodies
  <2>2. got'[r] = got[r] /\ Meant(r)' = Meant(r) /\ Kind(r)' = "sub" /\ client'[r] = client[r]
    BY <1>0, AppStays
  <2>3. Begins(got[r], Meant(r))'
    BY <2>1, <2>2 DEF Begins
  <2>4. QED
    BY <1>6, <2>2, <2>3 DEF Bodies
<1>8. QED
  BY <1>0, <1>2, <1>3, <1>4, <1>5, <1>7, CausesKept DEF RequestInv

LEMMA AcceptorEndsStep ==
  ASSUME TypeInv, NEW r \in Requests, RequestInv(r), AcceptorEnds(r)
  PROVE  RequestInv(r)'
<1>0. /\ UNCHANGED <<fixed, conn, client, intake, told, py, out, chan, got, status, done, database>>
      /\ Kind(r) = "sub" /\ conn[r] = "body" /\ fed[r] = FALSE /\ fed'[r] = TRUE /\ ~Publishing(r)
  BY DEF AcceptorEnds, TypeInv
<1>1. Place(r)'
  BY <1>0, AppStays DEF Place, RequestInv
<1>2. KeepsIntake(r) /\ KeepsCauses(r) /\ KeepsOutbox(r)
  BY <1>0 DEF KeepsIntake, KeepsCauses, KeepsOutbox
<1>3. client[r] = "here" => Pumped(r)'
  <2>1. SUFFICES ASSUME client[r] = "here" PROVE Pumped(r)'
    OBVIOUS
  <2>2. Pumped(r) /\ Parts(r)' = Parts(r)
    BY <1>0, <2>1 DEF RequestInv, Bodies, Parts
  <2>3. py[r].at > Len(Items(r)) \/ Items(r)[py[r].at] # "more"
    BY <1>0, CallFacts DEF Publishing, TypeInv, Process
  <2>4. QED
    BY <1>0, <2>2, <2>3, PumpedOut
<1>4. Bodies(r)'
  BY <1>0, <1>3, AppStays DEF Bodies, RequestInv, Begins
<1>5. QED
  BY <1>0, <1>1, <1>2, <1>4, IntakeKept, CausesKept, OutboxKept DEF RequestInv

-----------------------------------------------------------------------------
(* The client. *)

LEMMA PrefixBegins ==
  ASSUME NEW s \in Seq(Nat), NEW t \in Seq(Nat), NEW meant, Begins(s, meant),
         Len(t) <= Len(s), \A i \in 1..Len(t) : t[i] = s[i]
  PROVE  Begins(t, meant)
<1>1. \A i \in 1..Len(t) : i \in 1..Len(s)
  OBVIOUS
<1>2. ASSUME NEW i \in 1..Len(t), NEW p \in meant, p < t[i] PROVE \E j \in 1..Len(t) : t[j] = p
  <2>1. PICK j \in 1..Len(s) : s[j] = p
    BY <1>1, <1>2 DEF Begins
  <2>2. j < i
    <3>1. ~(i < j) /\ i # j
      BY <1>1, <1>2, <2>1 DEF Begins
    <3>2. QED
      BY <2>1, <3>1
  <2>3. QED
    BY <2>1, <2>2
<1>3. QED
  BY <1>1, <1>2 DEF Begins

\* What is on its way for a client that reads.
LEMMA BodyFacts ==
  ASSUME TypeInv, NEW r \in Requests, RequestInv(r), conn[r] = "body", client[r] = "here"
  PROVE  Begins(Parts(r), Meant(r)) /\ (fed[r] => Covers(Parts(r), Meant(r)))
<1>1. CASE Kind(r) \in {"wsgi", "sub"}
  BY <1>1 DEF RequestInv, Bodies, Pumped
<1>2. CASE Kind(r) = "asgi"
  BY <1>2 DEF RequestInv, Bodies, Forwarded
<1>3. CASE Kind(r) = "gql"
  <2>1. Parts(r) = << >> /\ Len(Parts(r)) = 0
    <3>1. got[r] = << >> /\ chan[r] = << >>
      BY <1>3 DEF RequestInv, Place
    <3>2. QED
      BY <3>1, NoParts
  <2>2. Meant(r) = {}
    <3>1. Len(Items(r)) = 0
      BY <1>3 DEF TypeInv, AppType
    <3>2. QED
      BY <1>3, <3>1, MeantOfOthers
  <2>3. QED
    BY <2>1, <2>2 DEF Begins, Covers
<1>4. QED
  BY <1>1, <1>2, <1>3, CallFacts DEF Kinds

LEMMA ClientReadsStep ==
  ASSUME TypeInv, NEW r \in Requests, RequestInv(r), ClientReads(r)
  PROVE  RequestInv(r)'
<1>0. /\ UNCHANGED <<fixed, conn, client, intake, told, py, out, fed, status, database>>
      /\ conn[r] \in {"body", "over"} /\ client[r] = "here" /\ done[r] = FALSE
  BY DEF ClientReads, Answering, TypeInv
<1>1. KeepsIntake(r) /\ KeepsCauses(r) /\ KeepsOutbox(r)
  BY <1>0 DEF KeepsIntake, KeepsCauses, KeepsOutbox
<1>2. CASE chan[r] = << >>
  <2>1. UNCHANGED <<got, chan>> /\ fed[r] /\ done'[r] = TRUE
    BY <1>2 DEF ClientReads, TypeInv
  <2>2. Place(r)'
    BY <1>0, <1>2, <2>1, AppStays DEF Place, RequestInv
  <2>3. KeepsBodies(r)
    BY <1>0, <2>1 DEF KeepsBodies
  <2>4. QED
    BY <1>0, <1>1, <2>2, <2>3, IntakeKept, CausesKept, OutboxKept, BodiesKept DEF RequestInv
<1>3. CASE chan[r] # << >>
  <2>1. /\ got'[r] = Append(got[r], Head(chan[r])) /\ chan'[r] = Tail(chan[r]) /\ UNCHANGED done
        /\ conn[r] = "body" /\ Kind(r) # "gql"
    BY <1>0, <1>3 DEF ClientReads, TypeInv, RequestInv, Place
  <2>2. Place(r)'
    BY <1>0, <2>1, AppStays DEF Place, RequestInv
  <2>3. Parts(r)' = Parts(r)
    BY <1>3, <2>1, PartsMoved
  <2>4. /\ got'[r] \in Seq(Nat) /\ chan'[r] \in Seq(Nat) /\ Len(chan'[r]) = Len(chan[r]) - 1
        /\ Len(chan[r]) \in Nat
    BY <1>3, <2>1 DEF TypeInv
  <2>5. Begins(got[r], Meant(r))'
    <3>1. Parts(r)' = got'[r] \o chan'[r]
      BY DEF Parts
    <3>2. /\ Parts(r)' \in Seq(Nat) /\ Len(got'[r]) <= Len(Parts(r)')
          /\ \A i \in 1..Len(got'[r]) : got'[r][i] = Parts(r)'[i]
      <4>1. /\ got'[r] \o chan'[r] \in Seq(Nat) /\ Len(got'[r]) <= Len(got'[r] \o chan'[r])
            /\ \A i \in 1..Len(got'[r]) : (got'[r] \o chan'[r])[i] = got'[r][i]
        BY <2>4, Joined
      <4>2. QED
        BY <3>1, <4>1, Zenon
    <3>3. Begins(Parts(r)', Meant(r))
      BY <1>0, <2>1, <2>3, BodyFacts
    <3>4. Begins(got'[r], Meant(r))
      BY <2>4, <3>2, <3>3, PrefixBegins
    <3>5. QED
      BY <1>0, <3>4, AppStays DEF Begins
  <2>6. Pumped(r) => Pumped(r)'
    <3>1. /\ Begins(Parts(r), Meant(r))' = Begins(Parts(r), Meant(r))
          /\ Covers(Parts(r), Meant(r))' = Covers(Parts(r), Meant(r))
      BY <1>0, <2>3, AppStays DEF Begins, Covers
    <3>2. QED
      BY <1>0, <2>3, <3>1, AppStays DEF Pumped
  <2>7. Forwarded(r) => Forwarded(r)'
    <3>1. Begins(Parts(r), Meant(r))' = Begins(Parts(r), Meant(r))
      BY <1>0, <2>3, AppStays DEF Begins
    <3>2. Covers(Parts(r), Meant(r))' = Covers(Parts(r), Meant(r))
      BY <1>0, <2>3, AppStays DEF Covers
    <3>3. QED
      BY <1>0, <2>3, <3>1, <3>2, AppStays DEF Forwarded
  <2>8. Bodies(r)'
    <3>1. /\ Kind(r) = "wsgi" => Len(chan'[r]) <= WsgiRoom
          /\ Kind(r) = "asgi" => Len(chan'[r]) <= AsgiRoom
      <4>1. WsgiRoom \in Nat /\ AsgiRoom \in Nat
        BY WebAssumption
      <4>2. QED
        BY <2>4, <4>1 DEF RequestInv, Bodies
    <3>2. QED
      BY <1>0, <2>5, <2>6, <2>7, <3>1, AppStays DEF Bodies, RequestInv
  <2>9. QED
    BY <1>0, <1>1, <2>2, <2>8, IntakeKept, CausesKept, OutboxKept DEF RequestInv
<1>4. QED
  BY <1>2, <1>3

LEMMA ClientLeavesStep ==
  ASSUME TypeInv, NEW r \in Requests, RequestInv(r), ClientLeaves(r)
  PROVE  RequestInv(r)'
<1>0. /\ UNCHANGED <<fixed, intake, told, py, out, fed, chan, got, status, done, database>>
      /\ conn[r] # "new" /\ client[r] = "here" /\ ~done[r] /\ client'[r] = "left"
      /\ conn'[r] = IF Answering(r) THEN conn[r] ELSE "gone"
  BY DEF ClientLeaves, TypeInv
<1>1. Place(r)'
  BY <1>0, AppStays DEF Place, RequestInv, Answering
<1>2. Intake(r)'
  BY <1>0, AppStays DEF Intake, RequestInv
<1>3. KeepsCauses(r) /\ KeepsOutbox(r) /\ KeepsBodies(r)
  BY <1>0 DEF KeepsCauses, KeepsOutbox, KeepsBodies, Answering
<1>4. QED
  BY <1>0, <1>1, <1>2, <1>3, CausesKept, OutboxKept, BodiesKept DEF RequestInv

-----------------------------------------------------------------------------
(* The theorems. *)

LEMMA InitInv == Init => IInv
<1> SUFFICES ASSUME Init PROVE IInv
  OBVIOUS
<1>1. ASSUME NEW r \in Requests
      PROVE  AppType(r)
  <2>1. app[r] \in Apps[r]
    BY DEF Init
  <2>2. app[r] \in [kind : Kinds, head : {"good", "path", "header"}, frames : Nat,
                    call : Seq(MayCall(Kind(r))), items : Seq(MayGive(Kind(r)))]
    BY <2>1, WebAssumption DEF Kinds, Kind
  <2>3. ASSUME Kind(r) = "gql" PROVE Items(r) = << >>
    <3>1. Items(r) \in Seq({})
      BY <2>2, <2>3 DEF MayGive, Items
    <3>2. Len(Items(r)) \in Nat /\ \A i \in 1..Len(Items(r)) : Items(r)[i] \in {}
      BY <3>1
    <3>3. Len(Items(r)) = 0
      BY <3>2
    <3>4. QED
      BY <3>1, <3>3, EmptySeq
  <2>4. QED
    BY <2>2, <2>3 DEF AppType
<1>2. intake \in [Requests -> Frames]
  <2>1. \A r \in Requests : app[r].frames \in Nat
    BY <1>1 DEF AppType
  <2>2. QED
    BY <2>1 DEF Init, Frames
<1>3. TypeInv
  <2>1. /\ conn \in [Requests -> Conns] /\ client \in [Requests -> {"here", "left"}]
        /\ told \in [Requests -> BOOLEAN] /\ fed \in [Requests -> BOOLEAN] /\ done \in [Requests -> BOOLEAN]
        /\ status \in [Requests -> Codes] /\ database \in [Requests -> Databases]
    BY DEF Init, Conns, Codes, Databases
  <2>2. py \in [Requests -> Process]
    BY DEF Init, Process, Calls
  <2>3. out \in [Requests -> Seq(Message)] /\ chan \in [Requests -> Seq(Nat)] /\ got \in [Requests -> Seq(Nat)]
    BY DEF Init
  <2>4. \A r \in Requests : AppType(r)
    BY <1>1
  <2>5. QED
    BY <1>2, <2>1, <2>2, <2>3, <2>4 DEF TypeInv
<1>4. ASSUME NEW r \in Requests PROVE RequestInv(r)
  <2>1. /\ conn[r] = "new" /\ client[r] = "here" /\ told[r] = FALSE /\ py[r].state = "idle" /\ py[r].at = 1
        /\ out[r] = << >> /\ fed[r] = FALSE /\ chan[r] = << >> /\ got[r] = << >>
        /\ status[r] = "none" /\ done[r] = FALSE
    BY DEF Init
  <2>2. Place(r)
    BY <2>1 DEF Place
  <2>3. Intake(r)
    <3>1. intake[r] = [coming |-> app[r].frames, waiting |-> 0, read |-> 0]
      BY DEF Init
    <3>2. app[r].frames \in Nat
      BY <1>1 DEF AppType
    <3>3. QED
      BY <2>1, <3>1, <3>2 DEF Intake
  <2>4. Causes(r)
    BY <2>1 DEF Causes
  <2>5. Outbox(r)
    BY <2>1 DEF Outbox
  <2>6. Bodies(r)
    BY <2>1, WebAssumption DEF Bodies, Begins
  <2>7. QED
    BY <2>2, <2>3, <2>4, <2>5, <2>6 DEF RequestInv
<1>5. ASSUME NEW r \in Requests PROVE Asked(r)
  BY DEF Init, Asked
<1>6. QED
  BY <1>3, <1>4, <1>5 DEF IInv

\* What auth has been asked stays true whatever the request does next.
LEMMA AskedKept ==
  ASSUME UNCHANGED fixed, NEW r \in Requests, Asked(r), py'[r] = py[r], status'[r] = status[r],
         database'[r] = database[r] \/ LetIn(r) \/ Kind(r) # "gql"
  PROVE  Asked(r)'
BY AppStays DEF Asked, GraphQL, LetIn

\* One step further in the call of auth.
LEMMA AskedFurther ==
  ASSUME TypeInv, UNCHANGED fixed, NEW r \in Requests, Asked(r), py[r].state = "running",
         py'[r].at = py[r].at + 1, UNCHANGED <<status, database>>,
         \/ py'[r].state = "running" /\ py[r].at <= Len(Call(r)) /\ Call(r)[py[r].at] = "puff"
         \/ py'[r].state = "ok" /\ py[r].at > Len(Call(r))
         \/ py'[r].state \in {"failed", "rejects", "misrejects", "lost"}
  PROVE  Asked(r)'
<1> SUFFICES ASSUME GraphQL(r) PROVE Asked(r)'
  BY AppStays DEF Asked, GraphQL
<1>1. py[r].at \in Nat /\ Len(Call(r)) \in Nat
  BY CallFacts DEF TypeInv, Process
<1>2. \A i \in 1..Len(Call(r)) : i < py[r].at => Call(r)[i] = "puff"
  BY DEF Asked
<1>3. Kind(r) = "gql" => database[r] = "none"
  BY DEF Asked, LetIn
<1>4. py'[r].state = "ok" => ~Has(r, "reject")
  BY <1>1, <1>2 DEF Has
<1>5. py'[r].state = "running" => \A i \in 1..Len(Call(r)) : i < py'[r].at => Call(r)[i] = "puff"
  <2>1. SUFFICES ASSUME py'[r].state = "running", NEW i \in 1..Len(Call(r)), i < py[r].at + 1
                 PROVE  Call(r)[i] = "puff"
    OBVIOUS
  <2>2. i < py[r].at \/ i = py[r].at
    BY <1>1, <2>1
  <2>3. QED
    BY <1>2, <2>1, <2>2
<1>6. QED
  BY <1>3, <1>4, <1>5, AppStays DEF Asked, GraphQL

LEMMA AskedStep ==
  ASSUME TypeInv, NEW r \in Requests, RequestInv(r), Asked(r),
         HandlerStep(r) \/ Application(r) \/ Body(r) \/ Frame(r) \/ ClientReads(r) \/ ClientLeaves(r)
  PROVE  Asked(r)'
<1>f. UNCHANGED fixed
  BY FixedStays DEF Next
<1> SUFFICES ASSUME GraphQL(r) PROVE Asked(r)'
  BY <1>f, AppStays DEF Asked, GraphQL
<1>k. Kind(r) \notin {"wsgi", "asgi"}
  BY DEF GraphQL
<1>1. ASSUME \/ Arrive(r) \/ Returned(r) \/ Frame(r) \/ ClientReads(r) \/ ClientLeaves(r)
             \/ AcceptorEnds(r)
      PROVE  Asked(r)'
  BY <1>1, <1>f, AskedKept DEF Arrive, Returned, Frame, ClientReads, ClientLeaves, AcceptorEnds
<1>2. ~ (Buffered(r) \/ WsgiResponds(r) \/ AsgiResponds(r) \/ Body(r))
  BY <1>k DEF Buffered, WsgiResponds, AsgiResponds, Body, PumpBegins, Pump, Iterating, Forward,
              RequestInv, Place
<1>3. ASSUME Dispatch(r) PROVE Asked(r)'
  <2>1. py[r].state = "idle" /\ py[r].at = 1 /\ UNCHANGED database
    BY <1>3 DEF Dispatch, RequestInv, Place
  <2>2. Kind(r) = "gql" => database[r] = "none"
    BY <2>1 DEF Asked, LetIn
  <2>3. CASE Unfit(r) # "none"
    <3>1. status'[r] \notin {"200", "101"} /\ py' = py
      BY <1>3, <2>3 DEF Dispatch, Unfit, Refuse, TypeInv
    <3>2. QED
      BY <1>f, <2>1, <2>2, <3>1, AppStays DEF Asked, GraphQL
  <2>4. CASE Unfit(r) = "none"
    <3>1. status' = status /\ py'[r].state = "running" /\ py'[r].at = 1
      BY <1>3, <2>1, <2>4 DEF Dispatch, TypeInv, Process
    <3>2. QED
      BY <1>f, <2>1, <2>2, <3>1, AppStays DEF Asked, GraphQL
  <2>5. QED
    BY <2>3, <2>4
<1>4. ASSUME Ends(r) PROVE Asked(r)'
  <2>1. /\ py[r].state = "running" /\ py'[r].at = py[r].at + 1 /\ UNCHANGED <<status, database>>
        /\ py'[r].state = "ok" /\ py[r].at > Len(Call(r))
    BY <1>4 DEF Ends, Running, Go, TypeInv, Process
  <2>2. QED
    BY <1>f, <2>1, AskedFurther
<1>5. ASSUME Fails(r) PROVE Asked(r)'
  <2>1. /\ py[r].state = "running" /\ py'[r].at = py[r].at + 1 /\ UNCHANGED <<status, database>>
        /\ py'[r].state \in {"failed", "rejects", "misrejects"}
    BY <1>5 DEF Fails, Running, Go, TypeInv, Process
  <2>2. QED
    BY <1>f, <2>1, AskedFurther
<1>6. ASSUME UsesPuff(r) PROVE Asked(r)'
  <2>1. /\ py[r].state = "running" /\ py'[r].at = py[r].at + 1 /\ UNCHANGED <<status, database>>
        /\ py'[r].state \in {"running", "lost"}
        /\ py[r].at <= Len(Call(r)) /\ Call(r)[py[r].at] = "puff"
    BY <1>6 DEF UsesPuff, Running, Go, Step, TypeInv, Process
  <2>2. QED
    BY <1>f, <2>1, AskedFurther
<1>7. ~ (Sends(r) \/ Receives(r))
  <2>1. Running(r) /\ py[r].at <= Len(Call(r)) => Step(r) \in MayCall(Kind(r))
    BY CallFacts DEF Step, TypeInv, Process
  <2>2. QED
    BY <1>k, <2>1 DEF Sends, Receives, MayCall, Sending
<1>8. ASSUME GqlAuthorised(r) \/ SubscriptionAuthorised(r) PROVE Asked(r)'
  <2>1. py' = py /\ conn[r] = "answered"
    BY <1>8 DEF GqlAuthorised, SubscriptionAuthorised, Authorised
  <2>2. CASE LetIn(r)
    <3>1. ~Has(r, "reject") \/ Has(r, "misreject")
      BY <2>2 DEF LetIn, Asked, RequestInv, Causes
    <3>2. QED
      BY <1>f, <2>1, <2>2, <3>1, AppStays DEF Asked, GraphQL, LetIn
  <2>3. CASE ~LetIn(r)
    <3>1. status'[r] \notin {"200", "101"} /\ database' = database
      BY <1>8, <2>3 DEF GqlAuthorised, SubscriptionAuthorised, Rejected, Refuse, TypeInv
    <3>2. QED
      BY <1>f, <2>1, <2>3, <3>1, AppStays DEF Asked, GraphQL, LetIn
  <2>4. QED
    BY <2>2, <2>3
<1>9. ASSUME GqlAnswers(r) PROVE Asked(r)'
  <2>1. py' = py /\ LetIn(r)
    BY <1>9 DEF GqlAnswers, Asked
  <2>2. ~Has(r, "reject") \/ Has(r, "misreject")
    BY <2>1 DEF LetIn, Asked, RequestInv, Causes
  <2>3. QED
    BY <1>f, <2>1, <2>2, AppStays DEF Asked, GraphQL, LetIn
<1>10. ASSUME SubscriptionUnsupported(r) PROVE Asked(r)'
  <2>1. status'[r] = "unsupported" /\ UNCHANGED <<py, database>>
    BY <1>10 DEF SubscriptionUnsupported, Refuse, TypeInv
  <2>2. QED
    BY <1>f, <2>1, AppStays DEF Asked, GraphQL, LetIn
<1>11. ASSUME Subscribe(r) \/ Publish(r) PROVE Asked(r)'
  <2>1. Kind(r) = "sub" /\ py[r].state # "running" /\ py'[r].state = py[r].state /\ status' = status
    BY <1>11 DEF Subscribe, Publish, Publishing, RequestInv, Place, TypeInv, Process
  <2>2. QED
    BY <1>f, <2>1, AppStays DEF Asked, GraphQL, LetIn
<1>12. QED
  BY <1>1, <1>2, <1>3, <1>4, <1>5, <1>6, <1>7, <1>8, <1>9, <1>10, <1>11
     DEF HandlerStep, Application

LEMMA RequestStep ==
  ASSUME TypeInv, NEW r \in Requests, RequestInv(r),
         HandlerStep(r) \/ Application(r) \/ Body(r) \/ Frame(r) \/ ClientReads(r) \/ ClientLeaves(r)
  PROVE  RequestInv(r)'
<1>1. CASE HandlerStep(r)
  BY <1>1, ArriveStep, BufferedStep, DispatchStep, ReturnedStep, WsgiRespondsStep, AsgiRespondsStep,
     GqlAuthorisedStep, GqlAnswersStep, SubscriptionAuthorisedStep, SubscriptionUnsupportedStep,
     SubscribeStep DEF HandlerStep
<1>2. CASE Application(r)
  BY <1>2, EndsStep, FailsStep, UsesPuffStep, SendsStep, ReceivesStep, PublishStep, AcceptorEndsStep
     DEF Application
<1>3. CASE Body(r)
  BY <1>3, PumpBeginsStep, PumpStep, ForwardStep DEF Body
<1>4. QED
  BY <1>1, <1>2, <1>3, FrameStep, ClientReadsStep, ClientLeavesStep

LEMMA InvStep == IInv /\ [Next]_vars => IInv'
<1> SUFFICES ASSUME IInv, [Next]_vars PROVE IInv'
  OBVIOUS
<1>1. TypeInv /\ TypeInv' /\ UNCHANGED fixed
  BY TypeStep, FixedStays DEF IInv
<1>2. ASSUME NEW q \in Requests, Keeps(q) PROVE RequestInv(q)' /\ Asked(q)'
  BY <1>1, <1>2, RequestKept, AskedKept DEF IInv, Keeps, KeepsPlace
<1>3. ASSUME NEW q \in Requests PROVE RequestInv(q)' /\ Asked(q)'
  <2>1. CASE Boot \/ (\E t : WaitForGil(t)) \/ UNCHANGED vars
    <3>1. Keeps(q)
      BY <2>1, QuietStep DEF Keeps, KeepsPlace, KeepsIntake
    <3>2. QED
      BY <1>2, <3>1
  <2>2. ASSUME NEW r \in Requests,
               HandlerStep(r) \/ Application(r) \/ Body(r) \/ Frame(r) \/ ClientReads(r) \/ ClientLeaves(r)
        PROVE  RequestInv(q)' /\ Asked(q)'
    <3>1. CASE q = r
      BY <1>1, <2>2, <3>1, RequestStep, AskedStep DEF IInv
    <3>2. CASE q # r
      BY <1>1, <1>2, <2>2, <3>2, OthersKept
    <3>3. QED
      BY <3>1, <3>2
  <2>3. QED
    BY <2>1, <2>2 DEF Next
<1>4. QED
  BY <1>1, <1>3 DEF IInv

\* The invariant of every request, whatever the others do.
THEOREM SpecInvariant == Spec => []IInv
BY InitInv, InvStep, PTL DEF Spec

\* What a client reads is what was meant for it, in order and in the end all of it; an
\* application is told the truth about its client; and no answer to a query comes before
\* its connection is closed (asgi/handler.rs:121, :429, wsgi/handler.rs:302,
\* graphql/handlers.rs:189).
THEOREM SpecResponsesAreWhole == Spec => []ResponsesAreWhole
<1>1. ASSUME IInv, NEW r \in Requests
      PROVE  /\ Begins(got[r], Meant(r))
             /\ done[r] /\ status[r] \in {"200", "101"} => Meant(r) \subseteq ToSet(got[r])
             /\ Kind(r) = "wsgi" => Len(chan[r]) <= WsgiRoom
             /\ Kind(r) = "asgi" => Len(chan[r]) <= AsgiRoom
             /\ told[r] /\ client[r] = "here" => intake[r].read = app[r].frames
             /\ Kind(r) = "gql" /\ conn[r] = "body" => database[r] \in {"closed", "shared"}
  <2>1. TypeInv /\ RequestInv(r)
    BY <1>1 DEF IInv
  <2>2. ASSUME done[r], status[r] \in {"200", "101"} PROVE Meant(r) \subseteq ToSet(got[r])
    <3>1. /\ conn[r] = "body" /\ client[r] = "here" /\ fed[r] /\ chan[r] = << >>
      BY <2>1, <2>2 DEF RequestInv, Place
    <3>2. Covers(Parts(r), Meant(r))
      BY <2>1, <3>1, BodyFacts
    <3>3. got[r] \in Seq(Nat) /\ Parts(r) = got[r]
      BY <2>1, <3>1 DEF TypeInv, Parts
    <3>4. QED
      BY <3>2, <3>3 DEF Covers, ToSet
  <2>3. told[r] /\ client[r] = "here" => intake[r].read = app[r].frames
    BY <2>1 DEF RequestInv, Intake, TypeInv, AppType, Frames
  <2>4. QED
    BY <2>1, <2>2, <2>3 DEF RequestInv, Bodies, Place
<1>2. IInv => ResponsesAreWhole
  BY <1>1 DEF ResponsesAreWhole
<1>3. QED
  BY <1>2, SpecInvariant, PTL

\* An application that ends well and answers in the right order is never turned into an
\* error, whatever the other threads are doing, and what auth rejects is not executed, unless
\* no response can be built from its rejection (wsgi/handler.rs:133, :226, :337,
\* asgi/handler.rs:337, graphql/handlers.rs:212, python/mod.rs:250).
THEOREM SpecOnlyBadAppsFail == Spec => []OnlyBadAppsFail
<1>1. ASSUME IInv, NEW r \in Requests
      PROVE  LET Starts == {i \in DOMAIN Call(r) : Call(r)[i] = "start"}
                 Uses(step) == \E i \in DOMAIN Call(r) : Call(r)[i] = step
                 Early == \E i \in DOMAIN Call(r) :
                            /\ Call(r)[i] \in {"more", "last", "other"}
                            /\ \A j \in Starts : i < j
             IN /\ status[r] = "unsupported" => build = "free"
                /\ status[r] = "400" => app[r].head = "path"
                /\ status[r] = "403" => Uses("reject")
                /\ GraphQL(r) /\ status[r] \in {"200", "101"} => ~Uses("reject") \/ Uses("misreject")
                /\ status[r] = "500" =>
                     \/ Uses("raise") \/ Early
                     \/ ~GraphQL(r) /\ Starts = {}
                     \/ Kind(r) = "wsgi" /\ (\/ Cardinality(Starts) > 1
                                            \/ app[r].frames > BodyLimit
                                            \/ app[r].head = "header")
                     \/ Kind(r) # "asgi" /\ build = "free" /\ Uses("puff")
  <2> DEFINE Starts == {i \in DOMAIN Call(r) : Call(r)[i] = "start"}
  <2>1. TypeInv /\ Causes(r) /\ Asked(r)
    BY <1>1 DEF IInv, RequestInv
  <2>2. DOMAIN Call(r) = 1..Len(Call(r)) /\ Len(Call(r)) \in Nat
    BY <2>1 DEF TypeInv, AppType, Call
  <2>3. Starts = StartsAt(r)
    BY <2>2 DEF StartsAt
  <2>4. \A step : Has(r, step) <=> \E i \in DOMAIN Call(r) : Call(r)[i] = step
    BY <2>2 DEF Has
  <2>5. SpeaksEarly(r) => \E i \in DOMAIN Call(r) :
                            /\ Call(r)[i] \in {"more", "last", "other"}
                            /\ \A j \in Starts : i < j
    BY <2>2, <2>3 DEF SpeaksEarly, SentAt, StartsAt, Sending
  <2>6. StartsTwice(r) => Cardinality(Starts) > 1
    <3>1. SUFFICES ASSUME NEW i \in StartsAt(r), NEW j \in StartsAt(r), i # j
                   PROVE  Cardinality(StartsAt(r)) > 1
      BY <2>3 DEF StartsTwice
    <3>2. IsFiniteSet(1..Len(Call(r)))
      BY <2>2, FS_Interval
    <3>3. IsFiniteSet(StartsAt(r))
      BY <3>2, FS_Subset DEF StartsAt
    <3>4. {i, j} \subseteq StartsAt(r) /\ Cardinality({i, j}) = 2
      <4>1. IsFiniteSet({j}) /\ Cardinality({j}) = 1
        BY FS_Singleton
      <4>2. i \notin {j} /\ {j} \cup {i} = {i, j}
        BY <3>1
      <4>3. Cardinality({j} \cup {i}) = Cardinality({j}) + 1
        BY <4>1, <4>2, FS_AddElement
      <4>4. QED
        BY <3>1, <4>1, <4>2, <4>3
    <3>5. Cardinality({i, j}) <= Cardinality(StartsAt(r)) /\ Cardinality(StartsAt(r)) \in Nat
      BY <3>3, <3>4, FS_Subset, FS_CardinalityType
    <3>6. QED
      BY <3>4, <3>5
  <2> HIDE DEF Starts
  <2>7. status[r] = "500" =>
          \/ Has(r, "raise") \/ SpeaksEarly(r)
          \/ ~GraphQL(r) /\ Starts = {}
          \/ Kind(r) = "wsgi" /\ (\/ Cardinality(Starts) > 1
                                 \/ app[r].frames > BodyLimit
                                 \/ app[r].head = "header")
          \/ Kind(r) # "asgi" /\ build = "free" /\ Has(r, "puff")
    BY <2>1, <2>3, <2>6 DEF Causes
  <2>8. QED
    BY <2>1, <2>4, <2>5, <2>7 DEF Causes, Asked, Starts
<1>2. IInv => OnlyBadAppsFail
  BY <1>1 DEF OnlyBadAppsFail
<1>3. QED
  BY <1>2, SpecInvariant, PTL
=============================================================================
