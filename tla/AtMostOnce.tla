----------------------------- MODULE AtMostOnce -----------------------------
(***************************************************************************)
(* What an agent promises those who write to it, wherever its mailbox runs *)
(* and whatever happens on the way: a message is run once, and once more   *)
(* only after it was sent again; it is answered with success only if it    *)
(* was run; and the first answer its sender gets is the last.  A message   *)
(* whose sender was told of a failure may still be run.                    *)
(***************************************************************************)
EXTENDS Naturals

CONSTANT Messages

VARIABLES
  fate,   \* what the sender knows: "new", "open", "ok" or "failed"
  runs,   \* turns run for the message
  resent  \* times it was taken from a process and sent again

vars == <<fate, runs, resent>>

Init ==
  /\ fate = [m \in Messages |-> "new"]
  /\ runs = [m \in Messages |-> 0]
  /\ resent = [m \in Messages |-> 0]

Send(m) ==
  /\ fate[m] = "new"
  /\ fate' = [fate EXCEPT ![m] = "open"]
  /\ UNCHANGED <<runs, resent>>

Run(m) ==
  /\ fate[m] # "new"
  /\ runs[m] <= resent[m]
  /\ runs' = [runs EXCEPT ![m] = @ + 1]
  /\ UNCHANGED <<fate, resent>>

Resend(m) ==
  /\ fate[m] # "new"
  /\ resent' = [resent EXCEPT ![m] = @ + 1]
  /\ UNCHANGED <<fate, runs>>

Answer(m) ==
  /\ fate[m] = "open" /\ runs[m] > 0
  /\ fate' = [fate EXCEPT ![m] = "ok"]
  /\ UNCHANGED <<runs, resent>>

\* A stop or a crash fails several messages at once.
Fail(S) ==
  /\ \A m \in S : fate[m] \in {"new", "open"}
  /\ fate' = [m \in Messages |-> IF m \in S THEN "failed" ELSE fate[m]]
  /\ UNCHANGED <<runs, resent>>

Next ==
  \/ \E S \in SUBSET Messages : Fail(S)
  \/ \E m \in Messages : Send(m) \/ Run(m) \/ Resend(m) \/ Answer(m)

Spec == Init /\ [][Next]_vars
=============================================================================
