---------------------------- MODULE AtLeastOnce ----------------------------
(***************************************************************************)
(* What the task queue promises its clients, whatever the workers do: a    *)
(* task it accepted stays queued until it is settled by a result; it is    *)
(* settled for good; the first result is the one every reader sees until   *)
(* it is dropped, and only then may a late run leave another one.          *)
(***************************************************************************)
CONSTANTS Tasks, Results, NoResult

VARIABLES
  state,   \* "new", "queued" or "settled"
  result   \* what a reader of the task's result finds

vars == <<state, result>>

Init ==
  /\ state = [t \in Tasks |-> "new"]
  /\ result = [t \in Tasks |-> NoResult]

Accept(t) ==
  /\ state[t] = "new"
  /\ state' = [state EXCEPT ![t] = "queued"]
  /\ UNCHANGED result

Settle(t) ==
  /\ state[t] = "queued"
  /\ state' = [state EXCEPT ![t] = "settled"]
  /\ result[t] = NoResult
  /\ \E r \in Results : result' = [result EXCEPT ![t] = r]

\* A run that overlapped the one that settled the task ends after its result
\* was dropped.
SettleAgain(t) ==
  /\ state[t] = "settled"
  /\ result[t] = NoResult
  /\ \E r \in Results : result' = [result EXCEPT ![t] = r]
  /\ UNCHANGED state

Forget(t) ==
  /\ state[t] = "settled"
  /\ result' = [result EXCEPT ![t] = NoResult]
  /\ UNCHANGED state

Next == \E t \in Tasks : Accept(t) \/ Settle(t) \/ SettleAgain(t) \/ Forget(t)

Spec == Init /\ [][Next]_vars
=============================================================================
