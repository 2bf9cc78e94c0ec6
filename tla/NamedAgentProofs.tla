-------------------------- MODULE NamedAgentProofs --------------------------
(***************************************************************************)
(* Proofs about NamedAgent, for every number of processes and requests,    *)
(* every lease and every scenario of crashes, faults and stops.            *)
(***************************************************************************)
EXTENDS NamedAgent, SequenceTheorems, FiniteSetTheorems, WellFoundedInduction, TLAPS

-----------------------------------------------------------------------------
(* Redis lists. *)

\* A set of numbers has a least one.
LEMMA Least == ASSUME NEW S \in SUBSET Nat, S # {} PROVE Min(S) \in S
<1> DEFINE Before == {ss \in Nat \X Nat : ss[1] < ss[2]}
<1>1. Before = OpToRel(<, Nat)
  BY DEF OpToRel
<1>2. PICK x \in S : \A y \in S : <<y, x>> \notin Before
  <2>1. IsWellFoundedOn(Before, Nat)
    BY <1>1, NatLessThanWellFounded
  <2> HIDE DEF Before
  <2>2. QED
    BY <2>1, WFMin
<1>3. ASSUME NEW y \in S PROVE x <= y
  <2>1. x \in Nat /\ y \in Nat /\ <<y, x>> \notin Before
    BY <1>2
  <2>2. y < x => <<y, x>> \in Before
    BY <2>1
  <2>3. QED
    BY <2>1, <2>2
<1>4. QED
  BY <1>3 DEF Min

\* RPOPLPUSH takes the last element and keeps the others.
LEMMA FrontLast ==
  ASSUME NEW S, NEW s \in Seq(S), s # << >>
  PROVE  /\ Last(s) \in S /\ Front(s) \in Seq(S)
         /\ Len(Front(s)) = Len(s) - 1 /\ \A i \in 1..(Len(s) - 1) : Front(s)[i] = s[i]
         /\ ToSet(s) = ToSet(Front(s)) \cup {Last(s)}
<1>1. Len(s) \in Nat /\ Len(s) > 0 /\ DOMAIN s = 1..Len(s)
  OBVIOUS
<1>2. /\ Front(s) \in Seq(S) /\ Len(Front(s)) = Len(s) - 1
      /\ \A i \in 1..(Len(s) - 1) : Front(s)[i] = s[i]
  <2>1. \A i \in 1..(Len(s) - 1) : s[i] \in S
    BY <1>1
  <2>2. QED
    BY <1>1, <2>1, SubSeqProperties DEF Front
<1>3. DOMAIN Front(s) = 1..(Len(s) - 1)
  BY <1>2
<1>4. QED
  BY <1>1, <1>2, <1>3 DEF Last, ToSet

\* LPUSH.
LEMMA Prepend ==
  ASSUME NEW S, NEW s \in Seq(S), NEW e \in S
  PROVE  /\ <<e>> \o s \in Seq(S) /\ ToSet(<<e>> \o s) = ToSet(s) \cup {e}
         /\ Len(<<e>> \o s) = Len(s) + 1
         /\ (<<e>> \o s)[1] = e /\ \A i \in 1..Len(s) : (<<e>> \o s)[i + 1] = s[i]
<1>1. <<e>> \in Seq(S) /\ Len(<<e>>) = 1
  OBVIOUS
<1>2. /\ <<e>> \o s \in Seq(S) /\ Len(<<e>> \o s) = 1 + Len(s)
      /\ \A i \in 1..(1 + Len(s)) : (<<e>> \o s)[i] = IF i <= 1 THEN <<e>>[i] ELSE s[i - 1]
  BY <1>1, ConcatProperties
<1>3. DOMAIN (<<e>> \o s) = 1..(1 + Len(s)) /\ DOMAIN s = 1..Len(s)
  BY <1>2
<1>4. /\ (<<e>> \o s)[1] = e
      /\ \A i \in 1..Len(s) : i + 1 \in 1..(1 + Len(s)) /\ (<<e>> \o s)[i + 1] = s[i]
  BY <1>2
<1>5. \A j \in 1..(1 + Len(s)) : j = 1 \/ (j - 1 \in 1..Len(s) /\ j = (j - 1) + 1)
  OBVIOUS
<1>6. ToSet(<<e>> \o s) = ToSet(s) \cup {e}
  <2>1. ToSet(<<e>> \o s) \subseteq ToSet(s) \cup {e}
    BY <1>2, <1>3, <1>5 DEF ToSet
  <2>2. ToSet(s) \cup {e} \subseteq ToSet(<<e>> \o s)
    <3>1. \A i \in DOMAIN s : i + 1 \in DOMAIN (<<e>> \o s) /\ (<<e>> \o s)[i + 1] = s[i]
      BY <1>3, <1>4
    <3>2. 1 \in DOMAIN (<<e>> \o s)
      BY <1>3
    <3>3. ASSUME NEW x \in ToSet(s) PROVE x \in ToSet(<<e>> \o s)
      <4>1. PICK i \in DOMAIN s : x = s[i]
        BY DEF ToSet
      <4>2. i + 1 \in DOMAIN (<<e>> \o s) /\ (<<e>> \o s)[i + 1] = x
        BY <3>1, <4>1
      <4>3. QED
        BY <4>2 DEF ToSet
    <3>4. e \in ToSet(<<e>> \o s)
      BY <1>4, <3>2 DEF ToSet
    <3>5. QED
      BY <3>3, <3>4
  <2>3. QED
    BY <2>1, <2>2
<1>7. QED
  BY <1>2, <1>4, <1>6

\* The lengths of the two parts of a list without its i-th element.
LEMMA Lengths ==
  ASSUME NEW n \in Nat, NEW i \in 1..n
  PROVE  /\ (IF 1 <= i - 1 THEN (i - 1) - 1 + 1 ELSE 0) = i - 1
         /\ (IF i + 1 <= n THEN n - (i + 1) + 1 ELSE 0) = n - i
OBVIOUS

\* LREM takes one occurrence of the element at most.
LEMMA RemoveOne ==
  ASSUME NEW S, NEW s \in Seq(S), NEW e
  PROVE  /\ RemoveFirst(s, e) \in Seq(S) /\ ToSet(s) \ {e} \subseteq ToSet(RemoveFirst(s, e))
         /\ ToSet(RemoveFirst(s, e)) \subseteq ToSet(s)
<1>0. Len(s) \in Nat /\ DOMAIN s = 1..Len(s)
  OBVIOUS
<1>1. CASE \E i \in 1..Len(s) : s[i] = e
  <2> DEFINE I == {i \in 1..Len(s) : s[i] = e}
  <2>0. I \in SUBSET Nat /\ I # {}
    BY <1>1
  <2>1. SelectInSeq(s, LAMBDA v : v = e) \in I
    <3>1. SelectInSeq(s, LAMBDA v : v = e) = IF I # {} THEN Min(I) ELSE 0
      BY DEF SelectInSeq
    <3> HIDE DEF I
    <3>2. QED
      BY <2>0, <3>1, Least
  <2>2. PICK i \in 1..Len(s) : RemoveFirst(s, e) = RemoveAt(s, i) /\ s[i] = e
    BY <1>1, <2>1 DEF RemoveFirst
  <2> DEFINE a == SubSeq(s, 1, i - 1)
             b == SubSeq(s, i + 1, Len(s))
  <2>3. /\ a \in Seq(S) /\ Len(a) = i - 1 /\ \A j \in 1..(i - 1) : a[j] = s[j]
        /\ b \in Seq(S) /\ Len(b) = Len(s) - i /\ \A j \in 1..(Len(s) - i) : b[j] = s[i + j]
    <3>1. \A j \in 1..(i - 1) : s[j] \in S
      BY <1>0
    <3>2. \A j \in (i + 1)..Len(s) : s[j] \in S
      BY <1>0
    <3>3. /\ a \in Seq(S) /\ Len(a) = (IF 1 <= i - 1 THEN (i - 1) - 1 + 1 ELSE 0)
          /\ \A j \in 1..((i - 1) - 1 + 1) : a[j] = s[1 + j - 1]
      BY <1>0, <3>1, SubSeqProperties
    <3>4. /\ b \in Seq(S) /\ Len(b) = (IF i + 1 <= Len(s) THEN Len(s) - (i + 1) + 1 ELSE 0)
          /\ \A j \in 1..(Len(s) - (i + 1) + 1) : b[j] = s[(i + 1) + j - 1]
      BY <1>0, <3>2, SubSeqProperties
    <3> HIDE DEF a, b
    <3>5. Len(a) = i - 1 /\ Len(b) = Len(s) - i
      <4>1. /\ Len(a) = (IF 1 <= i - 1 THEN (i - 1) - 1 + 1 ELSE 0)
            /\ Len(b) = (IF i + 1 <= Len(s) THEN Len(s) - (i + 1) + 1 ELSE 0)
        BY <3>3, <3>4
      <4>2. /\ (IF 1 <= i - 1 THEN (i - 1) - 1 + 1 ELSE 0) = i - 1
            /\ (IF i + 1 <= Len(s) THEN Len(s) - (i + 1) + 1 ELSE 0) = Len(s) - i
        BY <1>0, Lengths
      <4>3. QED
        BY <4>1, <4>2
    <3>6. \A j \in 1..(i - 1) : a[j] = s[j]
      <4>1. \A j \in 1..(i - 1) : j \in 1..((i - 1) - 1 + 1) /\ 1 + j - 1 = j
        BY <1>0
      <4>2. QED
        BY <3>3, <4>1
    <3>7. \A j \in 1..(Len(s) - i) : b[j] = s[i + j]
      <4>1. \A j \in 1..(Len(s) - i) : j \in 1..(Len(s) - (i + 1) + 1) /\ (i + 1) + j - 1 = i + j
        BY <1>0
      <4>2. QED
        BY <3>4, <4>1
    <3>8. QED
      BY <3>3, <3>4, <3>5, <3>6, <3>7
  <2> HIDE DEF a, b
  <2>4. /\ a \o b \in Seq(S) /\ Len(a \o b) = Len(s) - 1
        /\ \A j \in 1..(Len(s) - 1) : (a \o b)[j] = IF j <= i - 1 THEN a[j] ELSE b[j - (i - 1)]
    <3>1. /\ a \o b \in Seq(S) /\ Len(a \o b) = Len(a) + Len(b)
          /\ \A j \in 1..(Len(a) + Len(b)) :
               (a \o b)[j] = IF j <= Len(a) THEN a[j] ELSE b[j - Len(a)]
      BY <2>3, ConcatProperties
    <3>2. QED
      BY <1>0, <2>3, <3>1
  <2>5. ASSUME NEW j \in 1..Len(s), s[j] # e PROVE \E k \in 1..(Len(s) - 1) : (a \o b)[k] = s[j]
    <3>1. CASE j < i
      <4>1. j \in 1..(i - 1) /\ j \in 1..(Len(s) - 1)
        BY <1>0, <3>1
      <4>2. (a \o b)[j] = s[j]
        BY <2>3, <2>4, <4>1
      <4>3. QED
        BY <4>1, <4>2
    <3>2. CASE j > i
      <4>1. j - 1 \in 1..(Len(s) - 1) /\ ~(j - 1 <= i - 1) /\ (j - 1) - (i - 1) = j - i
        BY <3>2
      <4>2. j - i \in 1..(Len(s) - i) /\ i + (j - i) = j
        BY <3>2
      <4>3. QED
        BY <2>3, <2>4, <4>1, <4>2
    <3>3. j # i
      BY <2>2, <2>5
    <3>4. j < i \/ j > i
      BY <1>0, <3>3
    <3>5. QED
      BY <3>1, <3>2, <3>4
  <2>6. DOMAIN (a \o b) = 1..(Len(s) - 1) /\ DOMAIN s = 1..Len(s)
    BY <2>4
  <2>7. RemoveFirst(s, e) = a \o b
    BY <2>2 DEF RemoveAt, a, b
  <2>8. QED
    <3>1. \A j \in DOMAIN s : s[j] # e => \E k \in DOMAIN (a \o b) : (a \o b)[k] = s[j]
      BY <2>5, <2>6
    <3>2. QED
      <4>1. ASSUME NEW x \in ToSet(s), x # e PROVE x \in ToSet(a \o b)
        BY <3>1, <4>1 DEF ToSet
      <4>2. ToSet(a \o b) \subseteq ToSet(s)
        <5>1. \A k \in 1..(Len(s) - 1) : \E j \in DOMAIN s : (a \o b)[k] = s[j]
          <6>1. ASSUME NEW k \in 1..(Len(s) - 1), k <= i - 1
                PROVE  k \in DOMAIN s /\ (a \o b)[k] = s[k]
            BY <1>0, <2>3, <2>4, <6>1
          <6>2. ASSUME NEW k \in 1..(Len(s) - 1), ~(k <= i - 1)
                PROVE  k + 1 \in DOMAIN s /\ (a \o b)[k] = s[k + 1]
            <7>1. k - (i - 1) \in 1..(Len(s) - i) /\ i + (k - (i - 1)) = k + 1
              BY <1>0, <6>2
            <7>2. QED
              BY <1>0, <2>3, <2>4, <6>2, <7>1
          <6>3. QED
            BY <6>1, <6>2
        <5>2. QED
          BY <2>6, <5>1 DEF ToSet
      <4>3. QED
        BY <2>4, <2>7, <4>1, <4>2
<1>2. CASE ~ \E i \in 1..Len(s) : s[i] = e
  BY <1>2 DEF RemoveFirst
<1>3. QED
  BY <1>1, <1>2

-----------------------------------------------------------------------------
(* Types. *)

Bridge == [pc : {"off", "recover", "greet", "pop"}, req : {None}]
            \cup [pc : {"wait", "ok", "err", "ack"}, req : Requests]

TypeInv ==
  /\ lease \in Runtimes \cup {None} /\ ttl \in Nat
  /\ pending \in Seq(Requests) /\ processing \in Seq(Requests)
  /\ reply \in [Requests -> {"none", "ok", "err"}]
  /\ saved \subseteq Requests
  /\ phase \in [Runtimes -> {"down", "wait", "spawn", "joined", "owner", "dead"}]
  /\ leased \subseteq Runtimes /\ due \subseteq Runtimes /\ ctl \subseteq Runtimes
  /\ stopping \subseteq Runtimes
  /\ wipe \in [Runtimes -> {"off", "hdel", "del", "get", "dellease"}]
  /\ mail \in [Runtimes -> {"off", "loading", "ready", "closed"} \cup Requests]
  /\ conv \in [Runtimes -> SUBSET Requests]
  /\ inbox \in [Runtimes -> Seq(Requests)]
  /\ bridge \in [Runtimes -> Bridge]
  /\ caller \in [Requests -> {"idle", "push", "remote", "local", "ok", "err", "timeout"}]
  /\ execs \in [Requests -> Nat] /\ recovered \in [Requests -> Nat]
  /\ dropped \subseteq Requests /\ forgotten \subseteq Requests
  /\ lapsed \in BOOLEAN /\ overlapped \in BOOLEAN
  /\ faults \in Nat

\* A step keeps the types.
LEMMA TypeStep == TypeInv /\ [Next]_vars => TypeInv'
<1> SUFFICES ASSUME TypeInv, [Next]_vars PROVE TypeInv'
  OBVIOUS
<1> USE NamedAgentAssumption DEF TypeInv, shared, queues, claims, local, mailbox, history, bounds,
        Fault, At
<1>1. CASE Tick
  <2>1. lapsed' \in BOOLEAN
    BY <1>1 DEF Tick
  <2>2. ttl' \in Nat /\ lease' \in Runtimes \cup {None}
    BY <1>1 DEF Tick
  <2>3. faults' \in Nat
    BY <1>1 DEF Tick
  <2>4. QED
    BY <1>1, <2>1, <2>2, <2>3 DEF Tick
<1>2. ASSUME NEW p \in Runtimes, Process(p) PROVE TypeInv'
  <2>1. CASE Claim(p)
    <3>1. ttl' \in Nat /\ lease' \in Runtimes \cup {None} /\ leased' \subseteq Runtimes
      BY <2>1 DEF Claim
    <3>2. phase' \in [Runtimes -> {"down", "wait", "spawn", "joined", "owner", "dead"}]
      <4>1. phase' = [phase EXCEPT ![p] = "spawn"] \/ phase' = [phase EXCEPT ![p] = "wait"]
        BY <2>1 DEF Claim
      <4>2. QED
        BY <4>1
    <3>3. QED
      BY <2>1, <3>1, <3>2 DEF Claim
  <2>2. CASE Join(p)
    BY <2>2 DEF Join
  <2>3. CASE GiveUp(p)
    BY <2>3 DEF GiveUp, AfterDeadline
  <2>4. CASE Spawn(p)
    BY <2>4 DEF Spawn, Bridge
  <2>5. CASE Publish(p)
    BY <2>5 DEF Publish
  <2>6. CASE Renew(p)
    BY SMTT(30), <2>6 DEF Renew, ExtendLease
  <2>7. CASE Load(p)
    BY <2>7 DEF Load, StoredConversation
  <2>8. CASE StartTurn(p)
    BY SMTT(30), <2>8 DEF StartTurn
  <2>9. CASE FinishTurn(p)
    <3>1. mail[p] \in Requests
      BY <2>9 DEF FinishTurn
    <3>2. PICK result \in {"ok", "err"} : Respond(p, mail[p], result)
      BY <2>9 DEF FinishTurn
    <3>3. bridge' \in [Runtimes -> Bridge]
      <4>1. At(result, mail[p]) \in Bridge
        BY <3>1 DEF Bridge
      <4>2. bridge' = [bridge EXCEPT ![p] = At(result, mail[p])] \/ UNCHANGED bridge
        BY <3>2 DEF Respond
      <4>3. QED
        BY ZenonT(30), <4>1, <4>2
    <3>4. caller' \in [Requests -> {"idle", "push", "remote", "local", "ok", "err", "timeout"}]
      BY <3>1, <3>2 DEF Respond
    <3>5. saved' \subseteq Requests /\ forgotten' \subseteq Requests /\ faults' \in Nat
      BY <2>9, <3>1 DEF FinishTurn
    <3>6. QED
      BY <2>9, <3>3, <3>4, <3>5 DEF FinishTurn
  <2>10. CASE Restart(p)
    BY <2>10 DEF Restart
  <2>11. CASE CloseMailbox(p)
    <3>1. bridge' \in [Runtimes -> Bridge]
      <4>1. bridge[p] \in Bridge
        OBVIOUS
      <4>2. bridge[p].pc = "wait" => [bridge[p] EXCEPT !.pc = "err"] \in Bridge
        BY <4>1 DEF Bridge
      <4>3. bridge' = bridge \/ (bridge[p].pc = "wait" /\ bridge' = [bridge EXCEPT ![p].pc = "err"])
        BY <2>11 DEF CloseMailbox
      <4>4. QED
        BY ZenonT(30), <4>2, <4>3
    <3>2. caller' \in [Requests -> {"idle", "push", "remote", "local", "ok", "err", "timeout"}]
      BY <2>11 DEF CloseMailbox
    <3>3. QED
      BY SMTT(30), <2>11, <3>1, <3>2 DEF CloseMailbox
  <2>12. CASE Stop(p)
    BY <2>12 DEF Stop
  <2>13. CASE Unregister(p)
    BY <2>13 DEF Unregister
  <2>14. CASE WipeEntry(p)
    <3>1. wipe' \in [Runtimes -> {"off", "hdel", "del", "get", "dellease"}]
      BY ZenonT(30), <2>14 DEF WipeEntry
    <3>2. faults' \in Nat
      BY <2>14 DEF WipeEntry
    <3>3. QED
      BY <2>14, <3>1, <3>2 DEF WipeEntry
  <2>15. CASE WipeQueues(p)
    <3>1. pending' \in Seq(Requests) /\ processing' \in Seq(Requests)
      BY <2>15 DEF WipeQueues
    <3>2. dropped' \subseteq Requests
      BY <2>15 DEF WipeQueues, ToSet
    <3>3. QED
      BY <2>15, <3>1, <3>2 DEF WipeQueues
  <2>16. CASE CheckLease(p)
    BY <2>16 DEF CheckLease
  <2>17. CASE WipeLease(p)
    BY <2>17 DEF WipeLease
  <2>18. CASE Recover(p)
    <3>1. CASE processing # << >>
      <4>1. Last(processing) \in Requests /\ Front(processing) \in Seq(Requests)
        BY <3>1, FrontLast
      <4>2. pending' \in Seq(Requests)
        <5>1. pending' = <<Last(processing)>> \o pending
          BY <2>18, <3>1 DEF Recover
        <5>2. QED
          BY <4>1, <5>1, Prepend
      <4>3. recovered' \in [Requests -> Nat]
        <5>1. recovered' = [recovered EXCEPT ![Last(processing)] = @ + 1]
          BY <2>18, <3>1 DEF Recover
        <5>2. QED
          BY <4>1, <5>1
      <4>4. QED
        BY <2>18, <3>1, <4>1, <4>2, <4>3 DEF Recover
    <3>2. CASE processing = << >>
      <4>1. bridge' = [bridge EXCEPT ![p] = At("greet", None)] /\ At("greet", None) \in Bridge
        BY <2>18, <3>2 DEF Recover, Bridge
      <4>2. QED
        BY <2>18, <3>2, <4>1 DEF Recover
    <3>3. QED
      BY <3>1, <3>2
  <2>19. CASE RecoverFails(p)
    BY <2>19 DEF RecoverFails, Bridge
  <2>20. CASE Greet(p)
    BY <2>20 DEF Greet, Bridge
  <2>21. CASE Pop(p)
    <3> DEFINE r == Last(pending)
    <3>1. r \in Requests /\ Front(pending) \in Seq(Requests)
      BY <2>21, FrontLast DEF Pop
    <3>2. pending' \in Seq(Requests) /\ processing' \in Seq(Requests)
      BY <2>21, <3>1, Prepend DEF Pop, Move
    <3>3. \/ /\ inbox' = [inbox EXCEPT ![p] = Append(@, r)]
             /\ bridge' = [bridge EXCEPT ![p] = At("wait", r)] /\ UNCHANGED faults
          \/ bridge' = [bridge EXCEPT ![p] = At("err", r)] /\ UNCHANGED <<inbox, faults>>
          \/ Fault /\ UNCHANGED <<inbox, bridge>>
      BY <2>21 DEF Pop
    <3> HIDE DEF r
    <3>4. At("wait", r) \in Bridge /\ At("err", r) \in Bridge
      BY <3>1 DEF Bridge
    <3>5. inbox' \in [Runtimes -> Seq(Requests)]
      <4>1. inbox' = [inbox EXCEPT ![p] = Append(@, r)] \/ UNCHANGED inbox
        BY <3>3
      <4>2. QED
        <5>1. Append(inbox[p], r) \in Seq(Requests)
          BY <3>1
        <5>2. QED
          BY ZenonT(30), <4>1, <5>1
    <3>6. bridge' \in [Runtimes -> Bridge] /\ faults' \in Nat
      BY <3>3, <3>4
    <3>7. QED
      BY <2>21, <3>2, <3>5, <3>6 DEF Pop
  <2>22. CASE WriteReply(p)
    <3>1. bridge[p].pc \in {"ok", "err"} /\ bridge[p].req \in Requests
      BY <2>22 DEF WriteReply, Bridge
    <3>2. bridge' \in [Runtimes -> Bridge]
      <4>1. bridge' = [bridge EXCEPT ![p].pc = "ack"] /\ bridge[p] \in Bridge
        BY <2>22 DEF WriteReply
      <4>2. [bridge[p] EXCEPT !.pc = "ack"] \in Bridge
        BY <3>1, <4>1 DEF Bridge
      <4>3. QED
        BY <4>1, <4>2
    <3>3. reply' \in [Requests -> {"none", "ok", "err"}]
      BY <2>22, <3>1 DEF WriteReply
    <3>4. dropped' \subseteq Requests /\ faults' \in Nat
      BY <2>22, <3>1 DEF WriteReply
    <3>5. QED
      BY <2>22, <3>2, <3>3, <3>4 DEF WriteReply
  <2>23. CASE Ack(p)
    BY SMTT(30), RemoveOne, <2>23 DEF Ack, NextRound, Bridge
  <2>24. CASE Crash(p)
    BY <2>24 DEF Crash, Bridge
  <2>25. QED
    BY <1>2, <2>1, <2>2, <2>3, <2>4, <2>5, <2>6, <2>7, <2>8, <2>9, <2>10, <2>11, <2>12, <2>13, <2>14, <2>15, <2>16, <2>17, <2>18, <2>19, <2>20, <2>21, <2>22, <2>23, <2>24 DEF Process
<1>3. ASSUME NEW r \in Requests, Caller(r) PROVE TypeInv'
  <2>1. CASE AskRemote(r)
    BY <2>1 DEF AskRemote
  <2>2. CASE Push(r)
    BY Prepend, <2>2 DEF Push
  <2>3. CASE ReadReply(r)
    BY <2>3 DEF ReadReply
  <2>4. CASE Timeout(r)
    BY <2>4 DEF Timeout
  <2>5. ASSUME NEW p \in Runtimes, AskLocal(r, p) PROVE TypeInv'
    <3>1. inbox' \in [Runtimes -> Seq(Requests)]
      <4>1. inbox' = [inbox EXCEPT ![p] = Append(@, r)] \/ UNCHANGED inbox
        BY <2>5 DEF AskLocal
      <4>2. Append(inbox[p], r) \in Seq(Requests)
        OBVIOUS
      <4>3. QED
        BY ZenonT(30), <4>1, <4>2
    <3>2. caller' \in [Requests -> {"idle", "push", "remote", "local", "ok", "err", "timeout"}]
      BY <2>5 DEF AskLocal
    <3>3. QED
      BY <2>5, <3>1, <3>2 DEF AskLocal
  <2>6. QED
    BY <1>3, <2>1, <2>2, <2>3, <2>4, <2>5 DEF Caller
<1>4. CASE UNCHANGED vars
  BY <1>4 DEF vars
<1>5. QED
  BY <1>1, <1>2, <1>3, <1>4 DEF Next

-----------------------------------------------------------------------------
(* One owner. *)

\* What a process has of the agent, by the phase it is in.
PlaceInv ==
  /\ \A p \in Runtimes : phase[p] # "owner" =>
       /\ mail[p] = "off" /\ p \notin ctl /\ p \notin stopping /\ wipe[p] = "off"
       /\ bridge[p].pc = "off"
  /\ \A p \in Runtimes : phase[p] = "owner" => mail[p] # "off"
  /\ \A p \in leased : phase[p] \in {"spawn", "owner"} /\ wipe[p] = "off"
  /\ \A p \in Runtimes : /\ Open(p) => p \in ctl \cup stopping
                         /\ mail[p] = "closed" => p \in stopping

\* A step keeps the agreement of registration, mailbox and bridge of a process.
LEMMA PlaceStep == TypeInv /\ TypeInv' /\ PlaceInv /\ [Next]_vars => PlaceInv'
<1> SUFFICES ASSUME TypeInv, TypeInv', PlaceInv, [Next]_vars PROVE PlaceInv'
  OBVIOUS
<1> USE NamedAgentAssumption DEF TypeInv, PlaceInv, shared, queues, claims, local, mailbox, history, bounds,
        Fault, At, Open
<1>t. /\ phase \in [Runtimes -> {"down", "wait", "spawn", "joined", "owner", "dead"}]
      /\ leased \subseteq Runtimes /\ bridge \in [Runtimes -> Bridge]
  BY DEF TypeInv
<1>1. CASE Tick
  BY <1>1 DEF Tick
<1>2. ASSUME NEW p \in Runtimes, Process(p) PROVE PlaceInv'
  <2>1. CASE Claim(p)
    <3>1. /\ phase[p] = "down" /\ leased' \subseteq leased \cup {p}
          /\ \/ phase' = [phase EXCEPT ![p] = "spawn"]
             \/ phase' = [phase EXCEPT ![p] = "wait"] /\ UNCHANGED leased
          /\ UNCHANGED <<mail, ctl, stopping, wipe, bridge>>
      BY <2>1 DEF Claim
    <3> HIDE DEF TypeInv
    <3>2. QED
      BY <1>t, <3>1
  <2>2. CASE Join(p)
    BY <2>2 DEF Join
  <2>3. CASE GiveUp(p)
    BY <2>3 DEF GiveUp, AfterDeadline
  <2>4. CASE Spawn(p)
    BY <2>4 DEF Spawn
  <2>5. CASE Publish(p)
    BY <2>5 DEF Publish
  <2>6. CASE Renew(p)
    BY <2>6 DEF Renew, ExtendLease
  <2>7. CASE Load(p)
    BY <2>7 DEF Load
  <2>8. CASE StartTurn(p)
    BY <2>8 DEF StartTurn
  <2>9. CASE FinishTurn(p)
    BY <2>9 DEF FinishTurn, Respond
  <2>10. CASE Restart(p)
    BY <2>10 DEF Restart
  <2>11. CASE CloseMailbox(p)
    BY <2>11 DEF CloseMailbox
  <2>12. CASE Stop(p)
    BY <2>12 DEF Stop
  <2>13. CASE Unregister(p)
    BY <2>13 DEF Unregister
  <2>14. CASE WipeEntry(p)
    BY <2>14 DEF WipeEntry
  <2>15. CASE WipeQueues(p)
    BY <2>15 DEF WipeQueues
  <2>16. CASE CheckLease(p)
    BY <2>16 DEF CheckLease
  <2>17. CASE WipeLease(p)
    BY <2>17 DEF WipeLease
  <2>18. CASE Recover(p)
    <3>1. /\ bridge[p].pc = "recover" /\ UNCHANGED <<phase, leased, mail, ctl, stopping, wipe>>
          /\ UNCHANGED bridge \/ bridge' = [bridge EXCEPT ![p] = At("greet", None)]
      BY <2>18 DEF Recover
    <3> HIDE DEF TypeInv
    <3>2. QED
      BY <1>t, <3>1
  <2>19. CASE RecoverFails(p)
    BY <2>19 DEF RecoverFails
  <2>20. CASE Greet(p)
    BY <2>20 DEF Greet
  <2>21. CASE Pop(p)
    <3>1. /\ bridge[p].pc = "pop" /\ UNCHANGED <<phase, leased, mail, ctl, stopping, wipe>>
          /\ UNCHANGED bridge \/ \E to : bridge' = [bridge EXCEPT ![p] = to]
      BY <2>21 DEF Pop
    <3> HIDE DEF TypeInv
    <3>2. QED
      BY <1>t, <3>1
  <2>22. CASE WriteReply(p)
    BY <2>22 DEF WriteReply
  <2>23. CASE Ack(p)
    BY <2>23 DEF Ack, NextRound
  <2>24. CASE Crash(p)
    BY <2>24 DEF Crash
  <2>25. QED
    BY <1>2, <2>1, <2>2, <2>3, <2>4, <2>5, <2>6, <2>7, <2>8, <2>9, <2>10, <2>11, <2>12, <2>13, <2>14, <2>15, <2>16, <2>17, <2>18, <2>19, <2>20, <2>21, <2>22, <2>23, <2>24 DEF Process
<1>3. ASSUME NEW r \in Requests, Caller(r) PROVE PlaceInv'
  BY <1>3 DEF Caller, AskRemote, Push, ReadReply, Timeout, AskLocal
<1>4. CASE UNCHANGED vars
  BY <1>4 DEF vars
<1>5. QED
  BY <1>1, <1>2, <1>3, <1>4 DEF Next

\* Unless it lapsed, the lease is with the process that renews it or wipes, and
\* a period without a renewal is a fault or is not over.
LeaseInv ==
  /\ lapsed => LeaseTtl <= faults + 1
  /\ lapsed \/
       /\ \A p \in leased : /\ lease = p /\ LeaseTtl <= ttl + faults + 1
                            /\ p \in due \/ LeaseTtl <= ttl + faults
       /\ \A p \in Runtimes : wipe[p] # "off" => lease = p /\ LeaseTtl <= ttl + faults + 1
       /\ \A p \in Runtimes : phase[p] = "spawn" \/ p \in ctl => p \in leased

\* A step keeps what the lease, its rest and the missed renewals say of each other.
LEMMA LeaseStep ==
  TypeInv /\ TypeInv' /\ PlaceInv /\ LeaseInv /\ [Next]_vars => LeaseInv'
<1> SUFFICES ASSUME TypeInv, TypeInv', PlaceInv, LeaseInv, [Next]_vars PROVE LeaseInv'
  OBVIOUS
<1>t. /\ LeaseTtl \in Nat /\ lapsed \in BOOLEAN /\ lapsed' \in BOOLEAN /\ None \notin Runtimes
      /\ faults \in Nat /\ faults' \in Nat /\ ttl \in Nat /\ ttl' \in Nat
      /\ lease \in Runtimes \cup {None} /\ leased \subseteq Runtimes
      /\ wipe \in [Runtimes -> {"off", "hdel", "del", "get", "dellease"}]
      /\ phase \in [Runtimes -> {"down", "wait", "spawn", "joined", "owner", "dead"}]
  BY NamedAgentAssumption DEF TypeInv
<1>p. /\ \A p \in leased : phase[p] \in {"spawn", "owner"} /\ wipe[p] = "off"
      /\ \A p \in ctl : phase[p] = "owner" /\ p \in Runtimes
      /\ \A p \in Runtimes : phase[p] # "owner" => wipe[p] = "off"
  BY DEF PlaceInv, TypeInv
<1> USE DEF LeaseInv, shared, queues, claims, local, mailbox, history, bounds, Fault
<1>0. ASSUME UNCHANGED <<lease, ttl, phase, leased, due, ctl, wipe, lapsed>>, faults' = faults \/ Fault
      PROVE  LeaseInv'
  <2>1. CASE faults' = faults
    BY <1>0, <2>1
  <2>2. CASE faults' = faults + 1
    BY <1>0, <1>t, <2>2
  <2>3. QED
    BY <1>0, <2>1, <2>2
<1>1. CASE Tick
  <2>1. /\ lease # None /\ due = {} /\ due' = leased
        /\ UNCHANGED <<phase, leased, ctl, wipe>>
        /\ IF \E p \in Runtimes : wipe[p] # "off" THEN faults' = faults + 1 ELSE faults' = faults
    BY <1>1 DEF Tick
  <2>2. CASE ttl > 1
    <3>1. ttl' = ttl - 1 /\ UNCHANGED <<lease, lapsed>>
      BY <1>1, <2>2 DEF Tick
    <3>2. ASSUME NEW t, ttl' = t, t = ttl - 1, faults' = faults + 1 PROVE LeaseInv'
      BY <1>t, <2>1, <2>2, <3>1, <3>2
    <3>3. CASE faults' = faults /\ \A p \in Runtimes : wipe[p] = "off"
      BY <1>t, <2>1, <2>2, <3>1, <3>3
    <3>4. QED
      BY <2>1, <3>1, <3>2, <3>3
  <2>3. CASE ~(ttl > 1)
    <3>1. ttl' = 0 /\ lease' = None /\ (lapsed' <=> (lapsed \/ lease \in leased \/ wipe[lease] # "off"))
      BY <1>1, <2>3 DEF Tick
    <3>2. CASE lapsed \/ lease \in leased \/ wipe[lease] # "off"
      <4>1. lease \in Runtimes
        BY <1>t, <2>1
      <4>2. CASE faults' = faults /\ \A p \in Runtimes : wipe[p] = "off"
        BY <1>t, <2>1, <2>3, <3>1, <3>2, <4>1, <4>2
      <4>3. CASE faults' = faults + 1
        BY <1>t, <2>1, <2>3, <3>1, <3>2, <4>1, <4>3
      <4>4. QED
        BY <2>1, <4>2, <4>3
    <3>3. CASE ~(lapsed \/ lease \in leased \/ wipe[lease] # "off")
      <4>1. leased = {} /\ \A p \in Runtimes : wipe[p] = "off"
        BY <3>3, <1>t
      <4>2. QED
        BY <1>t, <2>1, <3>1, <3>3, <4>1
    <3>4. QED
      BY <3>2, <3>3
  <2>4. QED
    BY <2>2, <2>3
<1>2. ASSUME NEW p \in Runtimes, Claim(p) PROVE LeaseInv'
  <2>1. /\ phase[p] = "down"
        /\ UNCHANGED <<due, ctl, wipe, lapsed, faults>>
        /\ \/ /\ lease = None /\ lease' = p /\ ttl' = LeaseTtl /\ leased' = leased \cup {p}
              /\ phase' = [phase EXCEPT ![p] = "spawn"]
           \/ phase' = [phase EXCEPT ![p] = "wait"] /\ UNCHANGED <<lease, ttl, leased>>
    BY <1>2 DEF Claim, FreeLease
  <2>2. CASE lease = None /\ lease' = p /\ ttl' = LeaseTtl /\ leased' = leased \cup {p}
             /\ phase' = [phase EXCEPT ![p] = "spawn"]
    <3>1. CASE ~lapsed
      <4>1. leased = {} /\ \A q \in Runtimes : wipe[q] = "off"
        BY <1>t, <2>2, <3>1
      <4>2. QED
        BY <1>t, <1>p, <2>1, <2>2, <3>1, <4>1
    <3>2. QED
      BY <1>t, <2>1, <3>1
  <2>3. CASE phase' = [phase EXCEPT ![p] = "wait"] /\ UNCHANGED <<lease, ttl, leased>>
    BY <1>t, <1>p, <2>1, <2>3
  <2>4. QED
    BY <2>1, <2>2, <2>3
<1>3. ASSUME NEW p \in Runtimes, Join(p) \/ GiveUp(p) \/ Spawn(p) PROVE LeaseInv'
  <2>1. /\ UNCHANGED <<lease, ttl, leased, due, wipe, lapsed, faults>>
        /\ \/ phase[p] = "wait" /\ \E to \in {"joined", "dead"} : phase' = [phase EXCEPT ![p] = to]
              /\ UNCHANGED ctl
           \/ phase[p] = "spawn" /\ phase' = [phase EXCEPT ![p] = "owner"] /\ ctl' = ctl \cup {p}
    BY <1>3 DEF Join, GiveUp, Spawn, AfterDeadline
  <2>2. QED
    BY <1>t, <1>p, <2>1
<1>4. ASSUME NEW p \in Runtimes, Renew(p) PROVE LeaseInv'
  <2>1. /\ p \in due /\ due' = due \ {p} /\ UNCHANGED <<lease, phase, ctl, wipe, lapsed>>
        /\ \/ p \in leased /\ lease = p /\ ttl' = LeaseTtl /\ UNCHANGED <<leased, faults>>
           \/ (p \in leased => lease # p) /\ leased' = leased \ {p} /\ UNCHANGED <<ttl, faults>>
           \/ p \in leased /\ faults' = faults + 1 /\ UNCHANGED <<ttl, leased>>
    BY <1>4 DEF Renew, ExtendLease
  <2>2. CASE p \in leased /\ lease = p /\ ttl' = LeaseTtl /\ UNCHANGED <<leased, faults>>
    BY <1>t, <1>p, <2>1, <2>2
  <2>3. CASE (p \in leased => lease # p) /\ leased' = leased \ {p} /\ UNCHANGED <<ttl, faults>>
    BY <1>t, <1>p, <2>1, <2>3
  <2>4. CASE p \in leased /\ faults' = faults + 1 /\ UNCHANGED <<ttl, leased>>
    BY <1>t, <1>p, <2>1, <2>4
  <2>5. QED
    BY <2>1, <2>2, <2>3, <2>4
<1>5. ASSUME NEW p \in Runtimes, Unregister(p) PROVE LeaseInv'
  <2>1. /\ p \in ctl /\ ctl' = ctl \ {p} /\ leased' = leased \ {p}
        /\ wipe' = [wipe EXCEPT ![p] = "hdel"]
        /\ UNCHANGED <<lease, ttl, phase, due, lapsed, faults>>
    BY <1>5 DEF Unregister
  <2>2. ~lapsed => p \in leased /\ lease = p /\ LeaseTtl <= ttl + faults + 1
    BY <2>1
  <2>3. QED
    BY <1>t, <1>p, <2>1, <2>2
<1>6. ASSUME NEW p \in Runtimes, WipeEntry(p) \/ WipeQueues(p) \/ CheckLease(p) PROVE LeaseInv'
  <2>1. /\ wipe[p] # "off" /\ \E to : wipe' = [wipe EXCEPT ![p] = to]
        /\ UNCHANGED <<lease, ttl, phase, leased, due, ctl, lapsed>> /\ (faults' = faults \/ Fault)
    BY <1>6 DEF WipeEntry, WipeQueues, CheckLease
  <2>2. CASE faults' = faults
    BY <1>t, <1>p, <2>1, <2>2
  <2>3. CASE faults' = faults + 1
    BY <1>t, <1>p, <2>1, <2>3
  <2>4. QED
    BY <2>1, <2>2, <2>3
<1>7. ASSUME NEW p \in Runtimes, WipeLease(p) PROVE LeaseInv'
  <2>1. /\ wipe[p] # "off" /\ wipe' = [wipe EXCEPT ![p] = "off"] /\ lease' = None
        /\ UNCHANGED <<phase, leased, due, ctl, lapsed, faults>>
    BY <1>7 DEF WipeLease
  <2>2. QED
    BY <1>t, <1>p, <2>1
<1>8. ASSUME NEW p \in Runtimes, Crash(p) PROVE LeaseInv'
  <2>1. /\ phase' = [phase EXCEPT ![p] = "dead"] /\ leased' = leased \ {p} /\ due' = due \ {p}
        /\ ctl' = ctl \ {p} /\ wipe' = [wipe EXCEPT ![p] = "off"]
        /\ UNCHANGED <<lease, ttl, lapsed, faults>>
    BY <1>8 DEF Crash
  <2>2. QED
    BY <1>t, <1>p, <2>1
<1>9. ASSUME NEW p \in Runtimes,
             \/ Publish(p) \/ Load(p) \/ StartTurn(p) \/ FinishTurn(p) \/ Restart(p)
             \/ CloseMailbox(p) \/ Stop(p)
             \/ Recover(p) \/ RecoverFails(p) \/ Greet(p) \/ Pop(p) \/ WriteReply(p) \/ Ack(p)
      PROVE  LeaseInv'
  <2>1. UNCHANGED <<lease, ttl, phase, leased, due, ctl, wipe, lapsed>> /\ (faults' = faults \/ Fault)
    BY <1>9 DEF Publish, Load, StartTurn, FinishTurn, Restart, CloseMailbox, Stop, Recover,
                RecoverFails, Greet, Pop, WriteReply, Ack
  <2>2. QED
    BY <1>0, <2>1
<1>10. ASSUME NEW r \in Requests, Caller(r) PROVE LeaseInv'
  BY <1>0, <1>10 DEF Caller, AskRemote, Push, ReadReply, Timeout, AskLocal
<1>11. CASE UNCHANGED vars
  BY <1>0, <1>11 DEF vars
<1>12. QED
  BY <1>1, <1>2, <1>3, <1>4, <1>5, <1>6, <1>7, <1>8, <1>9, <1>10, <1>11 DEF Next, Process

\* A process that is not stopped and runs the mailbox, or bridges the remote
\* requests to it, has the lease.
LEMMA ServingHasLease ==
  ASSUME TypeInv, PlaceInv, LeaseInv, ~lapsed, NEW p \in Runtimes, p \notin stopping,
         Open(p) \/ bridge[p].pc # "off"
  PROVE  lease = p
<1>1. phase[p] = "owner" /\ mail[p] # "off"
  BY DEF PlaceInv, Open
<1>2. Open(p) /\ p \in ctl
  BY <1>1 DEF PlaceInv, Open
<1>3. QED
  BY <1>2 DEF LeaseInv

-----------------------------------------------------------------------------
(* The way of a request in, and of its answer out. *)

\* Only a request that was pushed is in Redis or with a bridge; while its caller
\* waits it stays there; and it leaves processing once its reply was tried.
Sent(r) == caller[r] \notin {"idle", "push"}
Settled(r) == caller[r] # "remote" \/ reply[r] # "none" \/ r \in dropped
KeptInv ==
  /\ RequestKept
  /\ \A r \in ToSet(pending) \cup ToSet(processing) : Sent(r)
  /\ \A p \in Runtimes : bridge[p].pc \in {"wait", "ok", "err", "ack"} => Sent(bridge[p].req)
  /\ \A p \in Runtimes : bridge[p].pc = "ack" => Settled(bridge[p].req)

\* A step keeps an unsettled message in Redis.
LEMMA KeptStep == TypeInv /\ TypeInv' /\ KeptInv /\ [Next]_vars => KeptInv'
<1> SUFFICES ASSUME TypeInv, TypeInv', KeptInv, [Next]_vars PROVE KeptInv'
  OBVIOUS
<1>t. /\ pending \in Seq(Requests) /\ processing \in Seq(Requests)
      /\ reply \in [Requests -> {"none", "ok", "err"}]
      /\ bridge \in [Runtimes -> Bridge]
      /\ caller \in [Requests -> {"idle", "push", "remote", "local", "ok", "err", "timeout"}]
  BY DEF TypeInv
<1>e. ToSet(<< >>) = {} /\ ToSet(pending) \subseteq Requests /\ ToSet(processing) \subseteq Requests
  BY <1>t DEF ToSet
<1>b. \A p \in Runtimes : bridge[p].pc \in {"wait", "ok", "err", "ack"} => bridge[p].req \in Requests
  BY <1>t DEF Bridge
<1> USE DEF KeptInv, RequestKept, Sent, Settled, shared, queues, claims, local, mailbox, history,
        bounds
<1>0. ASSUME UNCHANGED <<pending, processing, reply, dropped>>,
             \A p \in Runtimes :
               \/ bridge'[p] = bridge[p]
               \/ bridge'[p].pc \in {"off", "recover", "greet", "pop"}
               \/ /\ bridge[p].pc = "wait" /\ bridge'[p].pc \in {"ok", "err"}
                  /\ bridge'[p].req = bridge[p].req,
             \A r \in Requests : \/ caller'[r] = caller[r]
                                 \/ caller'[r] \notin {"idle", "push", "remote"}
                                 \/ caller[r] = "idle" /\ caller'[r] = "push"
      PROVE  KeptInv'
  <2>1. RequestKept'
    BY <1>0
  <2>2. \A r \in Requests : Sent(r) => Sent(r)'
    BY <1>0
  <2>3. \A r \in Requests : Sent(r) /\ Settled(r) => Settled(r)'
    BY <1>0
  <2> HIDE DEF Sent, Settled, RequestKept
  <2>4. QED
    BY <1>0, <1>e, <1>b, <2>1, <2>2, <2>3
<1>1. CASE Tick
  BY <1>0, <1>1 DEF Tick
<1>2. ASSUME NEW p \in Runtimes,
             \/ Claim(p) \/ Join(p) \/ GiveUp(p) \/ Publish(p) \/ Renew(p) \/ Load(p) \/ StartTurn(p)
             \/ Restart(p) \/ Stop(p) \/ Unregister(p) \/ WipeEntry(p) \/ CheckLease(p) \/ WipeLease(p)
      PROVE  KeptInv'
  <2>1. UNCHANGED <<pending, processing, reply, dropped, bridge, caller>>
    BY <1>2 DEF Claim, Join, GiveUp, Publish, Renew, Load, StartTurn, Restart, Stop, Unregister,
                WipeEntry, CheckLease, WipeLease
  <2>2. QED
    BY <1>0, <2>1
<1>3. ASSUME NEW p \in Runtimes, Spawn(p) \/ RecoverFails(p) \/ Greet(p) PROVE KeptInv'
  <2>1. /\ UNCHANGED <<pending, processing, reply, dropped, caller>>
        /\ \E pc \in {"recover", "greet", "pop"} : bridge' = [bridge EXCEPT ![p] = At(pc, None)]
    BY <1>3 DEF Spawn, RecoverFails, Greet
  <2>2. QED
    BY <1>0, <1>t, <2>1 DEF At
<1>4. ASSUME NEW p \in Runtimes, FinishTurn(p) PROVE KeptInv'
  <2>1. /\ UNCHANGED <<pending, processing, reply, dropped>> /\ mail[p] \in Requests
        /\ \E result \in {"ok", "err"} : Respond(p, mail[p], result)
    BY <1>4 DEF FinishTurn
  <2>2. QED
    BY <1>0, <1>t, <2>1 DEF Respond, At
<1>5. ASSUME NEW p \in Runtimes, CloseMailbox(p) PROVE KeptInv'
  <2>1. /\ UNCHANGED <<pending, processing, reply, dropped>>
        /\ UNCHANGED bridge \/ (bridge[p].pc = "wait" /\ bridge' = [bridge EXCEPT ![p].pc = "err"])
        /\ \A r \in Requests : caller'[r] \in {"err", caller[r]}
    BY <1>5 DEF CloseMailbox
  <2>2. bridge[p] \in Bridge
    BY <1>t
  <2>3. QED
    BY <1>0, <1>t, <2>1, <2>2 DEF Bridge
<1>6. ASSUME NEW p \in Runtimes, Crash(p) PROVE KeptInv'
  <2>1. /\ UNCHANGED <<pending, processing, reply, dropped>>
        /\ bridge' = [bridge EXCEPT ![p] = At("off", None)]
        /\ \A r \in Requests : caller'[r] \in {"err", caller[r]}
    BY <1>6 DEF Crash
  <2>2. QED
    BY <1>0, <1>t, <2>1 DEF At
<1>7. ASSUME NEW p \in Runtimes, WipeQueues(p) PROVE KeptInv'
  BY <1>e, <1>b, <1>7 DEF WipeQueues
<1>8. ASSUME NEW p \in Runtimes, Recover(p) PROVE KeptInv'
  <2>1. CASE processing # << >>
    <3>1. /\ processing' = Front(processing) /\ pending' = <<Last(processing)>> \o pending
          /\ UNCHANGED <<reply, bridge, caller, dropped>>
      BY <1>8, <2>1 DEF Recover
    <3>2. ToSet(processing) = ToSet(processing') \cup {Last(processing)} /\ Last(processing) \in Requests
      BY <1>t, <2>1, <3>1, FrontLast
    <3>3. ToSet(pending') = ToSet(pending) \cup {Last(processing)}
      BY <1>t, <3>1, <3>2, Prepend
    <3>4. QED
      BY <1>b, <3>1, <3>2, <3>3
  <2>2. CASE processing = << >>
    <3>1. /\ UNCHANGED <<pending, processing, reply, dropped, caller>>
          /\ bridge' = [bridge EXCEPT ![p] = At("greet", None)]
      BY <1>8, <2>2 DEF Recover
    <3>2. QED
      BY <1>0, <1>t, <3>1 DEF At
  <2>3. QED
    BY <2>1, <2>2
<1>9. ASSUME NEW p \in Runtimes, Pop(p) PROVE KeptInv'
  <2> DEFINE r == Last(pending)
  <2>1. /\ pending # << >> /\ pending' = Front(pending) /\ processing' = <<r>> \o processing
        /\ UNCHANGED <<reply, caller, dropped>>
        /\ \/ UNCHANGED bridge
           \/ \E pc \in {"wait", "err"} : bridge' = [bridge EXCEPT ![p] = At(pc, r)]
    BY <1>9 DEF Pop, Move
  <2>2. ToSet(pending) = ToSet(pending') \cup {r} /\ r \in Requests
    BY <1>t, <2>1, FrontLast
  <2>3. ToSet(processing') = ToSet(processing) \cup {r}
    BY <1>t, <2>1, <2>2, Prepend
  <2> HIDE DEF r
  <2>4. RequestKept'
    BY <2>1, <2>2, <2>3
  <2>5. Sent(r) /\ \A u \in Requests : (Sent(u) <=> Sent(u)') /\ (Settled(u) <=> Settled(u)')
    BY <2>1, <2>2
  <2>6. \A q \in Runtimes : \/ bridge'[q] = bridge[q]
                            \/ bridge'[q].pc \in {"wait", "err"} /\ bridge'[q].req = r
    BY <1>t, <2>1 DEF At
  <2> HIDE DEF Sent, Settled, RequestKept
  <2>7. QED
    BY <1>b, <1>e, <2>2, <2>3, <2>4, <2>5, <2>6
<1>10. ASSUME NEW p \in Runtimes, WriteReply(p) PROVE KeptInv'
  <2>1. /\ bridge[p].pc \in {"ok", "err"} /\ bridge' = [bridge EXCEPT ![p].pc = "ack"]
        /\ UNCHANGED <<pending, processing, caller>>
        /\ \/ reply' = [reply EXCEPT ![bridge[p].req] = bridge[p].pc] /\ UNCHANGED dropped
           \/ dropped' = dropped \cup {bridge[p].req} /\ UNCHANGED reply
    BY <1>10 DEF WriteReply
  <2>2. bridge'[p].req = bridge[p].req /\ \A q \in Runtimes : q # p => bridge'[q] = bridge[q]
    BY <1>t, <2>1 DEF Bridge
  <2>3. Settled(bridge[p].req)' /\ \A r \in Requests : Settled(r) => Settled(r)'
    BY <1>t, <1>b, <2>1
  <2>4. RequestKept'
    BY <1>t, <1>b, <2>1
  <2> HIDE DEF Settled, RequestKept
  <2>5. QED
    BY <1>t, <1>b, <2>1, <2>2, <2>3, <2>4
<1>11. ASSUME NEW p \in Runtimes, Ack(p) PROVE KeptInv'
  <2>1. /\ bridge[p].pc = "ack" /\ bridge' = [bridge EXCEPT ![p] = At("pop", None)]
        /\ UNCHANGED <<pending, reply, caller, dropped>>
        /\ processing' \in {processing, RemoveFirst(processing, bridge[p].req)}
    BY <1>11 DEF Ack, NextRound
  <2>2. /\ ToSet(processing) \ {bridge[p].req} \subseteq ToSet(processing')
        /\ ToSet(processing') \subseteq ToSet(processing)
    BY <1>t, <2>1, RemoveOne
  <2>3. QED
    BY <1>t, <1>b, <1>e, <2>1, <2>2 DEF At
<1>12. ASSUME NEW r \in Requests, Caller(r) PROVE KeptInv'
  <2>1. CASE AskRemote(r)
    BY <1>0, <1>t, <2>1 DEF AskRemote
  <2>2. CASE Timeout(r)
    BY <1>0, <1>t, <2>2 DEF Timeout
  <2>3. ASSUME NEW p \in Runtimes, AskLocal(r, p) PROVE KeptInv'
    BY <1>0, <1>t, <2>3 DEF AskLocal
  <2>4. CASE Push(r)
    <3>1. ToSet(pending') = ToSet(pending) \cup {r}
      BY <1>t, <2>4, Prepend DEF Push
    <3>2. QED
      BY <1>t, <1>b, <1>e, <2>4, <3>1 DEF Push
  <2>5. CASE ReadReply(r)
    BY <1>t, <1>b, <1>e, <2>5 DEF ReadReply
  <2>6. QED
    BY <1>12, <2>1, <2>2, <2>3, <2>4, <2>5 DEF Caller
<1>13. CASE UNCHANGED vars
  BY <1>0, <1>13 DEF vars
<1>14. QED
  BY <1>1, <1>2, <1>3, <1>4, <1>5, <1>6, <1>7, <1>8, <1>9, <1>10, <1>11, <1>12, <1>13
  DEF Next, Process

\* While no two mailboxes were open, the conversation of the open one has all
\* that is stored or was given up, and so no save takes an answer back.
Kept == saved \cup forgotten
SavedInv ==
  overlapped \/
    /\ \A p, q \in Runtimes : Open(p) /\ Open(q) => p = q
    /\ \A p \in Runtimes : mail[p] \in {"ready"} \cup Requests => saved \subseteq conv[p] \cup forgotten
    /\ \A p \in Runtimes : mail[p] \in Requests => mail[p] \in conv[p]
    /\ \A p \in Runtimes : bridge[p].pc = "ok" => bridge[p].req \in Kept
    /\ \A r \in Requests : reply[r] = "ok" => r \in Kept
    /\ \A r \in Requests : caller[r] = "ok" => r \in Kept

\* A step answers only what is in the saved conversation, or could not be saved.
LEMMA SavedStep == TypeInv /\ TypeInv' /\ SavedInv /\ [Next]_vars => SavedInv'
<1> SUFFICES ASSUME TypeInv, TypeInv', SavedInv, [Next]_vars, ~overlapped' PROVE SavedInv'
  BY DEF SavedInv
<1>t. /\ reply \in [Requests -> {"none", "ok", "err"}] /\ bridge \in [Runtimes -> Bridge]
      /\ caller \in [Requests -> {"idle", "push", "remote", "local", "ok", "err", "timeout"}]
      /\ mail \in [Runtimes -> {"off", "loading", "ready", "closed"} \cup Requests]
      /\ conv \in [Runtimes -> SUBSET Requests] /\ overlapped \in BOOLEAN /\ overlapped' \in BOOLEAN
      /\ Requests \cap {"off", "loading", "ready", "closed"} = {}
  BY NamedAgentAssumption DEF TypeInv
<1>b. \A p \in Runtimes : bridge[p].pc \in {"wait", "ok", "err", "ack"} => bridge[p].req \in Requests
  BY <1>t DEF Bridge
<1> USE DEF SavedInv, Kept, Open, shared, queues, claims, local, mailbox, history, bounds
\* Steps that lose nothing and answer with what is kept.
<1>0. ASSUME UNCHANGED <<mail, conv, saved, forgotten, overlapped>>,
             \A p \in Runtimes : \/ bridge'[p] = bridge[p] \/ bridge'[p].pc # "ok",
             \A r \in Requests : reply'[r] = "ok" =>
               reply[r] = "ok" \/ \E p \in Runtimes : bridge[p].pc = "ok" /\ bridge[p].req = r,
             \A r \in Requests : caller'[r] = "ok" => caller[r] = "ok" \/ reply[r] = "ok"
      PROVE  SavedInv'
  BY <1>0, <1>t
<1>1. CASE Tick
  BY <1>0, <1>1 DEF Tick
<1>2. ASSUME NEW p \in Runtimes,
             \/ Claim(p) \/ Join(p) \/ GiveUp(p) \/ Publish(p) \/ Renew(p)
             \/ Stop(p) \/ Unregister(p) \/ WipeEntry(p) \/ WipeQueues(p) \/ CheckLease(p) \/ WipeLease(p)
      PROVE  SavedInv'
  <2>1. UNCHANGED <<mail, conv, saved, forgotten, overlapped, bridge, reply, caller>>
    BY <1>2 DEF Claim, Join, GiveUp, Publish, Renew, Stop, Unregister, WipeEntry, WipeQueues,
                CheckLease, WipeLease
  <2>2. QED
    BY <1>0, <2>1
<1>3. ASSUME NEW p \in Runtimes, RecoverFails(p) \/ Greet(p) \/ Recover(p) \/ Pop(p) \/ Ack(p)
      PROVE  SavedInv'
  <2>1. UNCHANGED <<mail, conv, saved, forgotten, overlapped, reply, caller>>
    BY <1>3 DEF RecoverFails, Greet, Recover, Pop, Ack
  <2>2. UNCHANGED bridge \/ \E pc \in {"greet", "pop", "wait", "err"} : \E r :
                              bridge' = [bridge EXCEPT ![p] = At(pc, r)]
    <3>1. CASE RecoverFails(p) \/ Greet(p) \/ Ack(p)
      BY <3>1 DEF RecoverFails, Greet, Ack, NextRound
    <3>2. CASE Recover(p)
      BY <3>2 DEF Recover
    <3>3. CASE Pop(p)
      BY <3>3 DEF Pop
    <3>4. QED
      BY <1>3, <3>1, <3>2, <3>3
  <2>3. QED
    BY <1>0, <1>t, <2>1, <2>2 DEF At
<1>4. ASSUME NEW p \in Runtimes, WriteReply(p) PROVE SavedInv'
  <2>1. /\ UNCHANGED <<mail, conv, saved, forgotten, overlapped, caller>>
        /\ bridge[p].pc \in {"ok", "err"} /\ bridge' = [bridge EXCEPT ![p].pc = "ack"]
        /\ UNCHANGED reply \/ reply' = [reply EXCEPT ![bridge[p].req] = bridge[p].pc]
    BY <1>4 DEF WriteReply
  <2>2. \A q \in Runtimes : bridge'[q] = bridge[q] \/ bridge'[q].pc # "ok"
    BY <1>t, <2>1 DEF Bridge
  <2>3. QED
    BY <1>0, <1>t, <1>b, <2>1, <2>2
<1>5. ASSUME NEW r \in Requests, Caller(r) PROVE SavedInv'
  <2>1. /\ UNCHANGED <<mail, conv, saved, forgotten, overlapped, bridge>>
        /\ \A u \in Requests : reply'[u] = "ok" => reply[u] = "ok"
        /\ \A u \in Requests : caller'[u] = "ok" => caller[u] = "ok" \/ reply[u] = "ok"
    BY <1>5, <1>t DEF Caller, AskRemote, Push, ReadReply, Timeout, AskLocal
  <2>2. QED
    BY <1>0, <2>1
<1>6. ASSUME NEW p \in Runtimes, Spawn(p) PROVE SavedInv'
  <2>1. /\ UNCHANGED <<conv, saved, forgotten, reply, caller>>
        /\ mail' = [mail EXCEPT ![p] = "loading"] /\ bridge' = [bridge EXCEPT ![p] = At("recover", None)]
        /\ (overlapped' <=> (overlapped \/ \E q \in Runtimes : Open(q)))
    BY <1>6 DEF Spawn
  <2>2. QED
    BY <1>t, <2>1 DEF At
<1>7. ASSUME NEW p \in Runtimes, Load(p) PROVE SavedInv'
  <2>1. /\ UNCHANGED <<saved, bridge, reply, caller, overlapped>>
        /\ mail[p] = "loading" /\ mail' = [mail EXCEPT ![p] = "ready"]
        /\ \/ conv' = [conv EXCEPT ![p] = saved] /\ UNCHANGED forgotten
           \/ forgotten' = forgotten \cup saved /\ UNCHANGED conv
    BY <1>7 DEF Load, StoredConversation
  <2>2. QED
    BY <1>t, <2>1
<1>8. ASSUME NEW p \in Runtimes, StartTurn(p) PROVE SavedInv'
  <2>1. /\ UNCHANGED <<saved, bridge, reply, caller, overlapped, forgotten>>
        /\ mail[p] = "ready"
        /\ \E r : mail' = [mail EXCEPT ![p] = r] /\ conv' = [conv EXCEPT ![p] = @ \cup {r}]
    BY <1>8 DEF StartTurn
  <2>2. QED
    BY <1>t, <2>1
<1>9. ASSUME NEW p \in Runtimes, FinishTurn(p) PROVE SavedInv'
  <2>1. PICK result \in {"ok", "err"} : Respond(p, mail[p], result)
    BY <1>9 DEF FinishTurn
  <2>2. /\ UNCHANGED <<conv, reply, overlapped>>
        /\ mail[p] \in Requests /\ mail' = [mail EXCEPT ![p] = "ready"]
        /\ \/ saved' = conv[p] /\ UNCHANGED forgotten
           \/ forgotten' = forgotten \cup {mail[p]} /\ UNCHANGED saved
    BY <1>9 DEF FinishTurn
  <2>3. ~overlapped => Kept \subseteq Kept' /\ mail[p] \in Kept'
    BY <1>t, <2>2
  <2>4. \A q \in Runtimes : bridge'[q].pc = "ok" =>
          bridge'[q] = bridge[q] \/ bridge'[q].req = mail[p]
    BY <1>t, <2>1 DEF Respond, At
  <2>5. \A r \in Requests : caller'[r] = "ok" => caller[r] = "ok" \/ r = mail[p]
    BY <1>t, <2>1, <2>2 DEF Respond
  <2>6. \A q \in Runtimes : Open(q)' => Open(q)
    BY <1>t, <2>2
  <2>7. \A q \in Runtimes : mail'[q] \in {"ready"} \cup Requests => mail[q] \in {"ready"} \cup Requests
    BY <1>t, <2>2
  <2>8. ~overlapped => \A q \in Runtimes : mail'[q] \in {"ready"} \cup Requests =>
          saved' \subseteq conv'[q] \cup forgotten'
    BY <1>t, <2>2, <2>6, <2>7
  <2>9. QED
    BY <1>t, <2>2, <2>3, <2>4, <2>5, <2>6, <2>7, <2>8
<1>10. ASSUME NEW p \in Runtimes, Restart(p) PROVE SavedInv'
  <2>1. /\ UNCHANGED <<mail, bridge, reply, caller, overlapped>>
        /\ mail[p] = "ready" /\ conv' = [conv EXCEPT ![p] = {}]
        /\ forgotten' = forgotten \cup conv[p] \cup saved /\ saved' \subseteq saved
    BY <1>10 DEF Restart
  <2>2. QED
    BY <1>t, <2>1
<1>11. ASSUME NEW p \in Runtimes, CloseMailbox(p) PROVE SavedInv'
  <2>1. /\ UNCHANGED <<conv, saved, forgotten, reply, overlapped>> /\ mail' = [mail EXCEPT ![p] = "closed"]
        /\ UNCHANGED bridge \/ (bridge[p].pc = "wait" /\ bridge' = [bridge EXCEPT ![p].pc = "err"])
        /\ \A r \in Requests : caller'[r] \in {"err", caller[r]}
    BY <1>11 DEF CloseMailbox
  <2>2. \A q \in Runtimes : bridge'[q] = bridge[q] \/ bridge'[q].pc # "ok"
    BY <1>t, <2>1 DEF Bridge
  <2>3. QED
    BY <1>t, <2>1, <2>2
<1>12. ASSUME NEW p \in Runtimes, Crash(p) PROVE SavedInv'
  <2>1. /\ UNCHANGED <<saved, forgotten, reply, overlapped>> /\ mail' = [mail EXCEPT ![p] = "off"]
        /\ conv' = [conv EXCEPT ![p] = {}] /\ bridge' = [bridge EXCEPT ![p] = At("off", None)]
        /\ \A r \in Requests : caller'[r] \in {"err", caller[r]}
    BY <1>12 DEF Crash
  <2>2. QED
    BY <1>t, <2>1 DEF At
<1>13. CASE UNCHANGED vars
  BY <1>0, <1>13 DEF vars
<1>14. QED
  BY <1>1, <1>2, <1>3, <1>4, <1>5, <1>6, <1>7, <1>8, <1>9, <1>10, <1>11, <1>12, <1>13
  DEF Next, Process

-----------------------------------------------------------------------------
(* How often a request is executed. *)

\* The members of S are n at most.
AtMost(S, n) == \E f \in [S -> 1..n] : \A a, b \in S : f[a] = f[b] => a = b

\* g numbers the members of T by different members of S.
Renames(g, T, S) == g \in [T -> S] /\ \A a, b \in T : g[a] = g[b] => a = b

\* A set whose members are renamed ones of S is no larger than S.
LEMMA AtMostSame ==
  ASSUME NEW S, NEW T, NEW n \in Nat, AtMost(S, n), NEW g, Renames(g, T, S)
  PROVE  AtMost(T, n)
<1>1. PICK f \in [S -> 1..n] : \A a, b \in S : f[a] = f[b] => a = b
  BY DEF AtMost
<1> DEFINE h == [x \in T |-> f[g[x]]]
<1>2. h \in [T -> 1..n] /\ \A a, b \in T : h[a] = h[b] => a = b
  BY <1>1 DEF Renames
<1> HIDE DEF h
<1>3. QED
  BY <1>2 DEF AtMost

\* One that leaves a member of S unused is smaller by one.
LEMMA AtMostLess ==
  ASSUME NEW S, NEW T, NEW n \in Nat, AtMost(S, n), NEW s \in S, NEW g, Renames(g, T, S \ {s})
  PROVE  n >= 1 /\ AtMost(T, n - 1)
<1>1. PICK f \in [S -> 1..n] : \A a, b \in S : f[a] = f[b] => a = b
  BY DEF AtMost
<1>2. n >= 1 /\ n - 1 \in Nat
  BY <1>1
<1> DEFINE h == [x \in T |-> IF f[g[x]] = n THEN f[s] ELSE f[g[x]]]
<1>3. \A x \in T : /\ g[x] \in S /\ g[x] # s /\ f[g[x]] \in 1..n /\ f[s] \in 1..n
                   /\ f[g[x]] # f[s]
  BY <1>1 DEF Renames
<1>4. \A a, b \in T : a # b => f[g[a]] # f[g[b]]
  BY <1>1, <1>3 DEF Renames
<1>5. h \in [T -> 1..(n - 1)]
  <2>1. ASSUME NEW x \in T PROVE h[x] \in 1..(n - 1)
    BY <1>2, <1>3
  <2>2. QED
    BY <2>1
<1>6. \A a, b \in T : h[a] = h[b] => a = b
  BY <1>3, <1>4
<1> HIDE DEF h
<1>7. QED
  BY <1>2, <1>5, <1>6 DEF AtMost

\* One with a member more is larger by one at most.
LEMMA AtMostMore ==
  ASSUME NEW S, NEW T, NEW n \in Nat, AtMost(S, n), NEW t \in T, NEW g, Renames(g, T \ {t}, S)
  PROVE  AtMost(T, n + 1)
<1>1. PICK f \in [S -> 1..n] : \A a, b \in S : f[a] = f[b] => a = b
  BY DEF AtMost
<1> DEFINE h == [x \in T |-> IF x = t THEN n + 1 ELSE f[g[x]]]
<1>2. \A x \in T : x # t => g[x] \in S /\ f[g[x]] \in 1..n /\ f[g[x]] # n + 1
  BY <1>1 DEF Renames
<1>3. h \in [T -> 1..(n + 1)]
  BY <1>2
<1>4. \A a, b \in T : h[a] = h[b] => a = b
  BY <1>1, <1>2 DEF Renames
<1> HIDE DEF h
<1>5. QED
  BY <1>3, <1>4 DEF AtMost

\* The lines a request waits in to be executed: the queue, named by None, and
\* the mailbox channels; its places in them; and whether it is still to come.
Line(q) == IF q = None THEN pending ELSE inbox[q]
Places(r) == {x \in (Runtimes \cup {None}) \X Nat :
                x[2] >= 1 /\ x[2] <= Len(Line(x[1])) /\ Line(x[1])[x[2]] = r}
ToCome(r) == IF caller[r] \in {"idle", "push"} THEN 1 ELSE 0

\* Every place leads to one more execution at most, and only a recovery adds one.
Once(r) == \E n \in Nat :
             AtMost(Places(r), n) /\ execs[r] + ToCome(r) + n <= 1 + recovered[r]
OnceInv == \A r \in Requests : Once(r)

\* A step executes, moves or recovers a message without exceeding its count.
LEMMA OnceStep == TypeInv /\ TypeInv' /\ OnceInv /\ [Next]_vars => OnceInv'
<1> SUFFICES ASSUME TypeInv, TypeInv', OnceInv, [Next]_vars PROVE OnceInv'
  OBVIOUS
<1> DEFINE Lines == Runtimes \cup {None}
<1>t. /\ None \notin Runtimes /\ pending \in Seq(Requests) /\ processing \in Seq(Requests)
      /\ inbox \in [Runtimes -> Seq(Requests)]
      /\ execs \in [Requests -> Nat] /\ recovered \in [Requests -> Nat]
      /\ execs' \in [Requests -> Nat] /\ recovered' \in [Requests -> Nat]
      /\ caller \in [Requests -> {"idle", "push", "remote", "local", "ok", "err", "timeout"}]
  BY NamedAgentAssumption DEF TypeInv
<1>l. \A q \in Lines : Line(q) \in Seq(Requests) /\ Line(q)' \in Seq(Requests)
  BY DEF TypeInv, Line
<1>n. \A r : ToCome(r) \in Nat /\ ToCome(r)' \in Nat
  BY DEF ToCome
<1>p. ASSUME NEW u
      PROVE  /\ Places(u) \subseteq Lines \X Nat /\ Places(u)' \subseteq Lines \X Nat
             /\ \A x \in Lines \X Nat :
                  /\ x \in Places(u) <=> x[2] >= 1 /\ x[2] <= Len(Line(x[1])) /\ Line(x[1])[x[2]] = u
                  /\ x \in Places(u)' <=>
                       x[2] >= 1 /\ x[2] <= Len(Line(x[1])') /\ (Line(x[1])')[x[2]] = u
  BY DEF Places
<1>i. \A u \in Requests : Once(u)
  BY DEF OnceInv
\* A step that moves a request keeps its bound, one that executes it uses up a
\* place, and one that adds a place is the first of the request or a recovery.
<1>same. ASSUME NEW u \in Requests, NEW g, Renames(g, Places(u)', Places(u)),
                execs'[u] = execs[u], recovered'[u] = recovered[u], ToCome(u)' <= ToCome(u)
         PROVE  Once(u)'
  <2>1. PICK n \in Nat : AtMost(Places(u), n) /\ execs[u] + ToCome(u) + n <= 1 + recovered[u]
    BY <1>i DEF Once
  <2>2. AtMost(Places(u)', n)
    BY <1>same, <2>1, AtMostSame
  <2>3. execs'[u] + ToCome(u)' + n <= 1 + recovered'[u]
    <3>1. execs[u] \in Nat /\ recovered[u] \in Nat /\ ToCome(u) \in Nat /\ ToCome(u)' \in Nat
      BY <1>t, <1>n
    <3>2. \A e, c, d, m \in Nat : e + c + n <= 1 + m /\ d <= c => e + d + n <= 1 + m
      OBVIOUS
    <3>3. execs[u] + ToCome(u)' + n <= 1 + recovered[u]
      BY <1>same, <2>1, <3>1, <3>2
    <3>4. QED
      BY <1>same, <3>3
  <2>4. QED
    BY <2>2, <2>3 DEF Once
<1>less. ASSUME NEW u \in Requests, NEW g, NEW s \in Places(u),
                Renames(g, Places(u)', Places(u) \ {s}),
                execs'[u] = execs[u] + 1, recovered'[u] = recovered[u], ToCome(u)' = ToCome(u)
         PROVE  Once(u)'
  <2>1. PICK n \in Nat : AtMost(Places(u), n) /\ execs[u] + ToCome(u) + n <= 1 + recovered[u]
    BY <1>i DEF Once
  <2>2. n >= 1 /\ AtMost(Places(u)', n - 1)
    BY <1>less, <2>1, AtMostLess
  <2>3. n - 1 \in Nat /\ execs'[u] + ToCome(u)' + (n - 1) <= 1 + recovered'[u]
    <3>1. execs[u] \in Nat /\ recovered[u] \in Nat /\ ToCome(u) \in Nat
      BY <1>t, <1>n
    <3>2. \A e, c, m \in Nat : e + c + n <= 1 + m => (e + 1) + c + (n - 1) <= 1 + m
      OBVIOUS
    <3>3. (execs[u] + 1) + ToCome(u) + (n - 1) <= 1 + recovered[u]
      BY <2>1, <3>1, <3>2
    <3>4. QED
      BY <1>less, <2>2, <3>3
  <2>4. QED
    BY <2>2, <2>3 DEF Once
<1>more. ASSUME NEW u \in Requests, NEW g, NEW s \in Places(u)',
                Renames(g, Places(u)' \ {s}, Places(u)), execs'[u] = execs[u],
                \/ recovered'[u] = recovered[u] + 1 /\ ToCome(u)' = ToCome(u)
                \/ recovered'[u] = recovered[u] /\ ToCome(u)' = 0 /\ ToCome(u) = 1
         PROVE  Once(u)'
  <2>1. PICK n \in Nat : AtMost(Places(u), n) /\ execs[u] + ToCome(u) + n <= 1 + recovered[u]
    BY <1>i DEF Once
  <2>2. AtMost(Places(u)', n + 1)
    BY <1>more, <2>1, AtMostMore
  <2>3. n + 1 \in Nat /\ execs'[u] + ToCome(u)' + (n + 1) <= 1 + recovered'[u]
    BY SMTT(30), <1>more, <1>t, <1>n, <2>1
  <2>4. QED
    BY <2>2, <2>3 DEF Once
<1> USE DEF shared, queues, claims, local, mailbox, history, bounds
\* Steps that add no place, execute nothing and recover nothing.
<1>0. ASSUME UNCHANGED <<execs, recovered>>,
             \A r \in Requests : caller'[r] \in {"idle", "push"} => caller[r] \in {"idle", "push"},
             \A q \in Lines : Line(q)' = Line(q) \/ Line(q)' = << >>
      PROVE  OnceInv'
  <2>1. ASSUME NEW u \in Requests PROVE Once(u)'
    <3>1. Places(u)' \subseteq Places(u)
      BY <1>0, <1>l, <1>p
    <3>2. Renames([x \in Places(u)' |-> x], Places(u)', Places(u))
      BY <3>1 DEF Renames
    <3>3. ToCome(u)' <= ToCome(u)
      BY <1>0 DEF ToCome
    <3>4. QED
      BY <1>same, <1>0, <3>2, <3>3
  <2>2. QED
    BY <2>1 DEF OnceInv
<1>1. CASE Tick
  BY <1>0, <1>1 DEF Tick, Line
<1>2. ASSUME NEW p \in Runtimes,
             \/ Claim(p) \/ Join(p) \/ GiveUp(p) \/ Spawn(p) \/ Publish(p) \/ Renew(p) \/ Load(p)
             \/ Restart(p) \/ Stop(p) \/ Unregister(p) \/ WipeEntry(p) \/ CheckLease(p) \/ WipeLease(p)
             \/ RecoverFails(p) \/ Greet(p) \/ WriteReply(p) \/ Ack(p)
      PROVE  OnceInv'
  <2>1. UNCHANGED <<pending, inbox, execs, recovered, caller>>
    BY <1>2 DEF Claim, Join, GiveUp, Spawn, Publish, Renew, Load, Restart, Stop, Unregister, WipeEntry,
                CheckLease, WipeLease, RecoverFails, Greet, WriteReply, Ack
  <2>2. QED
    BY <1>0, <2>1 DEF Line
<1>3. ASSUME NEW p \in Runtimes, FinishTurn(p) PROVE OnceInv'
  <2>1. /\ UNCHANGED <<pending, inbox, execs, recovered>> /\ mail[p] \in Requests
        /\ \E result \in {"ok", "err"} : Respond(p, mail[p], result)
    BY <1>3 DEF FinishTurn
  <2>2. QED
    BY <1>0, <1>t, <2>1 DEF Respond, Line
<1>4. ASSUME NEW p \in Runtimes, CloseMailbox(p) \/ Crash(p) PROVE OnceInv'
  <2>1. /\ UNCHANGED <<pending, execs, recovered>> /\ inbox' = [inbox EXCEPT ![p] = << >>]
        /\ \A r \in Requests : caller'[r] \in {"err", caller[r]}
    BY <1>4 DEF CloseMailbox, Crash
  <2>2. QED
    BY <1>0, <1>t, <2>1 DEF Line
<1>5. ASSUME NEW p \in Runtimes, WipeQueues(p) PROVE OnceInv'
  <2>1. UNCHANGED <<inbox, execs, recovered, caller>> /\ pending' = << >>
    BY <1>5 DEF WipeQueues
  <2>2. QED
    BY <1>0, <2>1 DEF Line
<1>6. ASSUME NEW p \in Runtimes, StartTurn(p) PROVE OnceInv'
  <2> DEFINE r == Head(inbox[p])
  <2>1. /\ inbox[p] # << >> /\ inbox' = [inbox EXCEPT ![p] = Tail(@)]
        /\ execs' = [execs EXCEPT ![r] = @ + 1] /\ UNCHANGED <<pending, recovered, caller>>
    BY <1>6 DEF StartTurn
  <2>2. /\ \A q \in Lines : q # p => Line(q)' = Line(q)
        /\ Line(p)' = Tail(Line(p)) /\ Line(p) # << >> /\ r = Line(p)[1] /\ p \in Lines
    BY <1>t, <2>1 DEF Line
  <2>3. /\ Len(Line(p)') = Len(Line(p)) - 1 /\ Len(Line(p)) \in Nat /\ Len(Line(p)) >= 1
        /\ \A i \in 1..(Len(Line(p)) - 1) : (Line(p)')[i] = Line(p)[i + 1]
    BY <1>l, <2>2
  <2>4. r \in Requests
    BY <1>l, <2>2, <2>3
  <2> HIDE DEF r
  <2>5. ASSUME NEW u \in Requests PROVE Once(u)'
    <3> DEFINE g == [x \in Places(u)' |-> IF x[1] = p THEN <<p, x[2] + 1>> ELSE x]
    <3>1. ASSUME NEW x \in Places(u)' PROVE g[x] \in Places(u) /\ g[x] # <<p, 1>>
      <4>0. x \in Lines \X Nat /\ x[2] >= 1 /\ x[2] <= Len(Line(x[1])') /\ (Line(x[1])')[x[2]] = u
        BY <1>p
      <4>1. CASE x[1] = p
        <5>1. g[x] = <<p, x[2] + 1>> /\ <<p, x[2] + 1>> \in Lines \X Nat
          BY <2>2, <4>0, <4>1
        <5>2. x[2] + 1 <= Len(Line(p)) /\ Line(p)[x[2] + 1] = u
          BY <2>3, <4>0, <4>1
        <5>3. QED
          BY <1>p, <4>0, <5>1, <5>2
      <4>2. CASE x[1] # p
        BY <1>p, <2>2, <4>0, <4>2
      <4>3. QED
        BY <4>1, <4>2
    <3>2. \A a, b \in Places(u)' : g[a] = g[b] => a = b
      BY <1>p
    <3>3. ToCome(u)' = ToCome(u)
      BY <2>1 DEF ToCome
    <3>4. CASE u = r
      <4>1. <<p, 1>> \in Places(u)
        BY <1>p, <2>2, <2>3, <3>4
      <4>2. Renames(g, Places(u)', Places(u) \ {<<p, 1>>})
        BY <3>1, <3>2 DEF Renames
      <4> HIDE DEF g
      <4>3. execs'[u] = execs[u] + 1
        BY <1>t, <2>1, <3>4
      <4>4. QED
        BY <1>less, <2>1, <3>3, <4>1, <4>2, <4>3
    <3>5. CASE u # r
      <4>1. Renames(g, Places(u)', Places(u))
        BY <3>1, <3>2 DEF Renames
      <4> HIDE DEF g
      <4>2. ToCome(u)' <= ToCome(u)
        BY <1>n, <3>3
      <4>3. QED
        BY <1>same, <1>t, <2>1, <3>5, <4>1, <4>2
    <3>6. QED
      BY <3>4, <3>5
  <2>6. QED
    BY <2>5 DEF OnceInv
\* LPUSH: the places in the queue move up by one.
<1>push. ASSUME NEW r \in Requests, pending' = <<r>> \o pending, UNCHANGED <<inbox, execs>>,
                NEW u \in Requests,
                u # r => recovered'[u] = recovered[u] /\ ToCome(u)' = ToCome(u),
                u = r => \/ recovered'[u] = recovered[u] + 1 /\ ToCome(u)' = ToCome(u)
                         \/ recovered'[u] = recovered[u] /\ ToCome(u)' = 0 /\ ToCome(u) = 1
         PROVE  Once(u)'
  <2>1. /\ \A q \in Lines : q # None => Line(q)' = Line(q)
        /\ Line(None)' = <<r>> \o Line(None) /\ None \in Lines
    BY <1>push DEF Line
  <2>2. /\ Len(Line(None)') = Len(Line(None)) + 1 /\ Len(Line(None)) \in Nat
        /\ (Line(None)')[1] = r /\ \A i \in 1..Len(Line(None)) : (Line(None)')[i + 1] = Line(None)[i]
    BY <1>l, <2>1, Prepend
  <2> DEFINE T == Places(u)' \ {<<None, 1>>}
             g == [x \in T |-> IF x[1] = None THEN <<None, x[2] - 1>> ELSE x]
  <2>3. ASSUME NEW x \in T PROVE g[x] \in Places(u)
    <3>0. x \in Lines \X Nat /\ x[2] >= 1 /\ x[2] <= Len(Line(x[1])') /\ (Line(x[1])')[x[2]] = u
      BY <1>p
    <3>1. CASE x[1] = None
      <4>1. x[2] # 1
        BY <3>0, <3>1
      <4>2. g[x] = <<None, x[2] - 1>> /\ <<None, x[2] - 1>> \in Lines \X Nat
        BY <2>1, <3>0, <3>1
      <4>3. x[2] - 1 \in 1..Len(Line(None)) /\ (x[2] - 1) + 1 = x[2]
        BY <2>2, <3>0, <3>1, <4>1
      <4>4. Line(None)[x[2] - 1] = u
        BY <2>2, <3>0, <3>1, <4>3
      <4>5. QED
        BY <1>p, <2>2, <4>2, <4>3, <4>4
    <3>2. CASE x[1] # None
      BY <1>p, <2>1, <3>0, <3>2
    <3>3. QED
      BY <3>1, <3>2
  <2>4. \A a, b \in T : g[a] = g[b] => a = b
    BY <1>p
  <2>5. Renames(g, T, Places(u))
    BY <2>3, <2>4 DEF Renames
  <2> HIDE DEF g
  <2>6. CASE u = r
    <3>1. <<None, 1>> \in Places(u)'
      BY <1>p, <2>1, <2>2, <2>6
    <3>2. QED
      BY <1>more, <1>push, <2>5, <2>6, <3>1
  <2>7. CASE u # r
    <3>1. <<None, 1>> \notin Places(u)'
      BY <1>p, <2>1, <2>2, <2>7
    <3>2. Renames(g, Places(u)', Places(u))
      BY <2>5, <3>1
    <3>3. ToCome(u)' <= ToCome(u)
      BY <1>push, <1>n, <2>7
    <3>4. QED
      BY <1>same, <1>push, <2>7, <3>2, <3>3
  <2>8. QED
    BY <2>6, <2>7
<1>7. ASSUME NEW p \in Runtimes, Recover(p) PROVE OnceInv'
  <2>1. CASE processing # << >>
    <3> DEFINE r == Last(processing)
    <3>1. /\ pending' = <<r>> \o pending /\ recovered' = [recovered EXCEPT ![r] = @ + 1]
          /\ UNCHANGED <<inbox, execs, caller>>
      BY <1>7, <2>1 DEF Recover
    <3>2. r \in Requests
      BY <1>t, <2>1, FrontLast
    <3> HIDE DEF r
    <3>3. \A u \in Requests : ToCome(u)' = ToCome(u)
      BY <3>1 DEF ToCome
    <3>4. ASSUME NEW u \in Requests PROVE Once(u)'
      BY <1>push, <1>t, <3>1, <3>2, <3>3
    <3>5. QED
      BY <3>4 DEF OnceInv
  <2>2. CASE processing = << >>
    <3>1. UNCHANGED <<pending, inbox, execs, recovered, caller>>
      BY <1>7, <2>2 DEF Recover
    <3>2. QED
      BY <1>0, <3>1 DEF Line
  <2>3. QED
    BY <2>1, <2>2
<1>8. ASSUME NEW r \in Requests, Push(r) PROVE OnceInv'
  <2>1. /\ caller[r] = "push" /\ caller' = [caller EXCEPT ![r] = "remote"]
        /\ pending' = <<r>> \o pending /\ UNCHANGED <<inbox, execs, recovered>>
    BY <1>8 DEF Push
  <2>2. ToCome(r) = 1 /\ ToCome(r)' = 0 /\ \A u \in Requests : u # r => ToCome(u)' = ToCome(u)
    BY <1>t, <2>1 DEF ToCome
  <2>3. ASSUME NEW u \in Requests PROVE Once(u)'
    BY <1>push, <2>1, <2>2
  <2>4. QED
    BY <2>3 DEF OnceInv
\* BRPOPLPUSH, with or without the message that follows it: the last place in
\* the queue becomes the last one in a channel, or none.
<1>9. ASSUME NEW p \in Runtimes, Pop(p) PROVE OnceInv'
  <2> DEFINE r == Last(pending)
             k == Len(pending)
  <2>1. /\ pending # << >> /\ pending' = Front(pending) /\ UNCHANGED <<execs, recovered, caller>>
        /\ inbox' = [inbox EXCEPT ![p] = Append(@, r)] \/ UNCHANGED inbox
    BY <1>9 DEF Pop, Move
  <2>2. /\ k \in Nat /\ k >= 1 /\ Line(None)[k] = r /\ r \in Requests
        /\ Len(Line(None)') = k - 1 /\ \A i \in 1..(k - 1) : (Line(None)')[i] = Line(None)[i]
    <3>1. k \in Nat /\ k >= 1 /\ pending[k] = r
      BY <1>t, <2>1 DEF Last
    <3>2. QED
      BY <1>t, <2>1, <3>1, FrontLast DEF Line
  <2>3. \A q \in Lines : q # None /\ q # p => Line(q)' = Line(q)
    BY <1>t, <2>1 DEF Line
  <2>4. /\ p \in Lines /\ p # None /\ None \in Lines
        /\ Line(p)' = Append(Line(p), r) \/ Line(p)' = Line(p)
    BY <1>t, <2>1 DEF Line
  <2> DEFINE j == Len(Line(p)) + 1
  <2>5. /\ j \in Nat /\ j - 1 = Len(Line(p)) /\ Len(Line(p)') \in {j, j - 1}
        /\ \A i \in 1..(j - 1) : (Line(p)')[i] = Line(p)[i]
        /\ Len(Line(p)') = j => (Line(p)')[j] = r
    BY <1>l, <2>2, <2>4
  <2>6. Line(None) = pending /\ k = Len(Line(None))
    BY DEF Line
  <2> HIDE DEF r, j, k
  <2>7. ASSUME NEW u \in Requests PROVE Once(u)'
    <3> DEFINE g == [x \in Places(u)' |-> IF x = <<p, j>> THEN <<None, k>> ELSE x]
    <3>1. ASSUME NEW x \in Places(u)' PROVE g[x] \in Places(u) /\ x # <<None, k>>
      <4>0. x \in Lines \X Nat /\ x[2] >= 1 /\ x[2] <= Len(Line(x[1])') /\ (Line(x[1])')[x[2]] = u
        BY <1>p
      <4>1. CASE x = <<p, j>>
        <5>1. x[1] = p /\ x[2] = j /\ Len(Line(p)') \in Nat
          BY <2>4, <2>5, <4>1
        <5>2. u = r
          BY <2>5, <4>0, <5>1
        <5>3. <<None, k>> \in Lines \X Nat /\ <<None, k>>[1] = None /\ <<None, k>>[2] = k
          BY <2>2, <2>4
        <5>4. <<None, k>> \in Places(u)
          BY <1>p, <2>2, <2>6, <5>2, <5>3
        <5>5. QED
          BY <2>4, <4>1, <5>4
      <4>2. CASE x # <<p, j>> /\ x[1] = p
        <5>1. x[2] \in 1..(j - 1)
          <6>1. x[2] # j
            BY <4>0, <4>2
          <6>2. QED
            BY <2>5, <4>0, <4>2, <6>1
        <5>2. x \in Places(u)
          BY <1>p, <2>5, <4>0, <4>2, <5>1
        <5>3. QED
          BY <2>4, <4>2, <5>2
      <4>3. CASE x[1] = None
        <5>1. x[2] \in 1..(k - 1)
          BY <2>2, <4>0, <4>3
        <5>2. x \in Places(u)
          BY <1>p, <2>2, <2>6, <4>0, <4>3, <5>1
        <5>3. x # <<None, k>> /\ x # <<p, j>>
          BY <2>2, <2>4, <4>3, <5>1
        <5>4. QED
          BY <5>2, <5>3
      <4>4. CASE x[1] # p /\ x[1] # None
        BY <1>p, <2>3, <4>0, <4>4
      <4>5. QED
        BY <4>1, <4>2, <4>3, <4>4
    <3>2. \A a, b \in Places(u)' : g[a] = g[b] => a = b
      BY <3>1
    <3>3. Renames(g, Places(u)', Places(u))
      BY <3>1, <3>2 DEF Renames
    <3>4. ToCome(u)' <= ToCome(u)
      BY <1>n, <2>1 DEF ToCome
    <3> HIDE DEF g
    <3>5. QED
      BY <1>same, <2>1, <3>3, <3>4
  <2>8. QED
    BY <2>7 DEF OnceInv
<1>10. ASSUME NEW r \in Requests, NEW p \in Runtimes, AskLocal(r, p) PROVE OnceInv'
  <2>1. CASE inbox' = [inbox EXCEPT ![p] = Append(@, r)]
    <3>1. /\ caller[r] = "idle" /\ caller'[r] \in {"local", "err"}
          /\ \A u \in Requests : u # r => caller'[u] = caller[u]
          /\ UNCHANGED <<pending, execs, recovered>>
      BY <1>10, <1>t DEF AskLocal
    <3>2. /\ \A q \in Lines : q # p => Line(q)' = Line(q)
          /\ Line(p)' = Append(Line(p), r) /\ p \in Lines
      BY <1>t, <2>1, <3>1 DEF Line
    <3> DEFINE j == Len(Line(p)) + 1
    <3>3. /\ j \in Nat /\ j >= 1 /\ Len(Line(p)') = j /\ (Line(p)')[j] = r
          /\ \A i \in 1..(j - 1) : (Line(p)')[i] = Line(p)[i]
      BY <1>l, <3>2
    <3>4. j - 1 = Len(Line(p))
      BY <1>l, <3>2
    <3> HIDE DEF j
    <3>5. ASSUME NEW u \in Requests PROVE Once(u)'
      <4> DEFINE T == Places(u)' \ {<<p, j>>}
                 g == [x \in T |-> x]
      <4>1. ASSUME NEW x \in T PROVE x \in Places(u)
        <5>0. x \in Lines \X Nat /\ x[2] >= 1 /\ x[2] <= Len(Line(x[1])') /\ (Line(x[1])')[x[2]] = u
          BY <1>p
        <5>1. CASE x[1] = p
          <6>1. x[2] # j
            BY <5>0, <5>1
          <6>2. x[2] \in 1..(j - 1)
            BY <3>3, <5>0, <5>1, <6>1
          <6>3. QED
            BY <1>p, <3>3, <3>4, <5>0, <5>1, <6>2
        <5>2. CASE x[1] # p
          BY <1>p, <3>2, <5>0, <5>2
        <5>3. QED
          BY <5>1, <5>2
      <4>2. Renames(g, T, Places(u))
        BY <4>1 DEF Renames
      <4> HIDE DEF g
      <4>3. <<p, j>> \in Lines \X Nat /\ <<p, j>>[1] = p /\ <<p, j>>[2] = j
        BY <3>2, <3>3
      <4>4. CASE u = r
        <5>1. <<p, j>> \in Places(u)'
          BY <1>p, <3>3, <4>3, <4>4
        <5>2. ToCome(u) = 1 /\ ToCome(u)' = 0
          BY <3>1, <4>4 DEF ToCome
        <5>3. QED
          BY <1>more, <3>1, <4>2, <5>1, <5>2
      <4>5. CASE u # r
        <5>1. <<p, j>> \notin Places(u)'
          BY <1>p, <3>3, <4>3, <4>5
        <5>2. Renames(g, Places(u)', Places(u))
          BY <4>2, <5>1
        <5>3. ToCome(u)' <= ToCome(u)
          BY <1>n, <3>1, <4>5 DEF ToCome
        <5>4. QED
          BY <1>same, <3>1, <5>2, <5>3
      <4>6. QED
        BY <4>4, <4>5
    <3>6. QED
      BY <3>5 DEF OnceInv
  <2>2. CASE UNCHANGED inbox
    <3>1. /\ UNCHANGED <<pending, execs, recovered>> /\ caller[r] = "idle"
          /\ \A u \in Requests : u # r => caller'[u] = caller[u]
      BY <1>10, <1>t DEF AskLocal
    <3>2. QED
      BY <1>0, <2>2, <3>1 DEF Line
  <2>3. QED
    BY <1>10, <2>1, <2>2 DEF AskLocal
<1>11. ASSUME NEW r \in Requests, AskRemote(r) \/ ReadReply(r) \/ Timeout(r) PROVE OnceInv'
  <2>1. /\ UNCHANGED <<pending, inbox, execs, recovered>>
        /\ \A u \in Requests : caller'[u] \in {"idle", "push"} => caller[u] \in {"idle", "push"}
    <3>1. reply \in [Requests -> {"none", "ok", "err"}]
      BY DEF TypeInv
    <3>2. CASE AskRemote(r)
      BY <1>t, <3>2 DEF AskRemote
    <3>3. CASE ReadReply(r)
      BY <1>t, <3>1, <3>3 DEF ReadReply
    <3>4. CASE Timeout(r)
      BY <1>t, <3>4 DEF Timeout
    <3>5. QED
      BY <1>11, <3>2, <3>3, <3>4
  <2>2. QED
    BY <1>0, <2>1 DEF Line
<1>12. CASE UNCHANGED vars
  BY <1>0, <1>12 DEF vars, Line
<1>13. QED
  BY <1>1, <1>2, <1>3, <1>4, <1>5, <1>6, <1>7, <1>8, <1>9, <1>10, <1>11, <1>12
  DEF Next, Process, Caller

-----------------------------------------------------------------------------
(* Who is told of a turn. *)

\* LPUSH and pop at the ends of a channel without repetitions.
LEMMA AppendNew ==
  ASSUME NEW S, NEW s \in Seq(S), NEW e \in S
  PROVE  /\ ToSet(Append(s, e)) = ToSet(s) \cup {e}
         /\ IsInjective(s) /\ e \notin ToSet(s) => IsInjective(Append(s, e))
<1>1. /\ DOMAIN s = 1..Len(s) /\ Len(s) \in Nat /\ DOMAIN Append(s, e) = 1..(Len(s) + 1)
      /\ Append(s, e)[Len(s) + 1] = e /\ \A i \in 1..Len(s) : Append(s, e)[i] = s[i]
  OBVIOUS
<1>2. ToSet(Append(s, e)) = ToSet(s) \cup {e}
  BY SMTT(30), <1>1 DEF ToSet
<1>3. IsInjective(s) /\ e \notin ToSet(s) => IsInjective(Append(s, e))
  BY SMTT(30), <1>1 DEF ToSet, IsInjective
<1>4. QED
  BY <1>2, <1>3

LEMMA TakeFirst ==
  ASSUME NEW S, NEW s \in Seq(S), s # << >>
  PROVE  /\ Head(s) \in ToSet(s) /\ ToSet(Tail(s)) \subseteq ToSet(s)
         /\ IsInjective(s) => IsInjective(Tail(s)) /\ Head(s) \notin ToSet(Tail(s))
<1>1. /\ DOMAIN s = 1..Len(s) /\ Len(s) \in Nat /\ Len(s) >= 1
      /\ DOMAIN Tail(s) = 1..(Len(s) - 1) /\ \A i \in 1..(Len(s) - 1) : Tail(s)[i] = s[i + 1]
      /\ Head(s) = s[1]
  OBVIOUS
<1>2. Head(s) \in ToSet(s) /\ ToSet(Tail(s)) \subseteq ToSet(s)
  BY SMTT(30), <1>1 DEF ToSet
<1>3. IsInjective(s) => IsInjective(Tail(s)) /\ Head(s) \notin ToSet(Tail(s))
  BY SMTT(30), <1>1 DEF ToSet, IsInjective
<1>4. QED
  BY <1>2, <1>3

\* A message in a mailbox has one sender that waits for it: the bridge of the
\* process, or a local caller, and a local one is in no other place.  Success is
\* told of messages that were run.
Inside(p, r) == r = mail[p] \/ r \in ToSet(inbox[p])
Waits(p, r) == bridge[p].pc = "wait" /\ bridge[p].req = r
InRedis == ToSet(pending) \cup ToSet(processing)
OwedInv == \A p \in Runtimes, r \in Requests : Inside(p, r) => caller[r] = "local" \/ Waits(p, r)
LocalInv ==
  \A r \in Requests : caller[r] = "local" =>
    /\ r \notin InRedis /\ \A p \in Runtimes : bridge[p].req # r
    /\ \A p, q \in Runtimes : Inside(p, r) /\ Inside(q, r) => p = q
ChannelInv == \A p \in Runtimes : mail[p] \notin ToSet(inbox[p]) /\ IsInjective(inbox[p])
RanInv ==
  /\ \A p \in Runtimes : mail[p] \in Requests => execs[mail[p]] > 0
  /\ \A p \in Runtimes : bridge[p].pc = "ok" => execs[bridge[p].req] > 0
  /\ \A r \in Requests : reply[r] = "ok" => execs[r] > 0
AnswerInv == OwedInv /\ LocalInv /\ ChannelInv /\ RanInv

\* A step adds a message to a channel only with a sender that waits for it.
LEMMA AnswerStep ==
  TypeInv /\ TypeInv' /\ PlaceInv /\ KeptInv /\ AnswerInv /\ [Next]_vars => AnswerInv'
<1> SUFFICES ASSUME TypeInv, TypeInv', PlaceInv, KeptInv, AnswerInv, [Next]_vars PROVE AnswerInv'
  OBVIOUS
<1>t. /\ pending \in Seq(Requests) /\ processing \in Seq(Requests)
      /\ pending' \in Seq(Requests) /\ processing' \in Seq(Requests)
      /\ reply \in [Requests -> {"none", "ok", "err"}] /\ bridge \in [Runtimes -> Bridge]
      /\ caller \in [Requests -> {"idle", "push", "remote", "local", "ok", "err", "timeout"}]
      /\ mail \in [Runtimes -> {"off", "loading", "ready", "closed"} \cup Requests]
      /\ inbox \in [Runtimes -> Seq(Requests)] /\ inbox' \in [Runtimes -> Seq(Requests)]
      /\ execs \in [Requests -> Nat] /\ execs' \in [Requests -> Nat]
      /\ Requests \cap {"off", "loading", "ready", "closed"} = {} /\ None \notin Requests
  BY NamedAgentAssumption DEF TypeInv
<1>b. \A p \in Runtimes : /\ bridge[p].pc \in {"wait", "ok", "err", "ack"} => bridge[p].req \in Requests
                          /\ bridge[p].pc \notin {"wait", "ok", "err", "ack"} => bridge[p].req = None
  BY <1>t DEF Bridge
<1>e. ToSet(<< >>) = {}
  BY DEF ToSet
<1>i. IsInjective(<< >>)
  BY DEF IsInjective
<1>s. \A r \in Requests : caller[r] \in {"idle", "push"} =>
        r \notin InRedis /\ \A p \in Runtimes : bridge[p].req # r /\ ~Inside(p, r)
  <2>1. ASSUME NEW r \in Requests, caller[r] \in {"idle", "push"}
        PROVE  r \notin InRedis /\ \A p \in Runtimes : bridge[p].req # r
    BY <1>b, <1>t, <2>1 DEF KeptInv, Sent, InRedis
  <2>2. ASSUME NEW r \in Requests, caller[r] \in {"idle", "push"}, NEW p \in Runtimes PROVE ~Inside(p, r)
    BY <2>1, <2>2 DEF AnswerInv, OwedInv, Waits
  <2>3. QED
    BY <2>1, <2>2
\* A step that adds nothing to a mailbox and keeps the senders that wait.
<1>0. ASSUME \A p \in Runtimes, r \in Requests : Inside(p, r)' => Inside(p, r),
             \A p \in Runtimes, r \in Requests :
               Inside(p, r)' /\ (caller[r] = "local" \/ Waits(p, r)) => caller'[r] = "local" \/ Waits(p, r)',
             \A r \in Requests : caller'[r] = "local" => caller[r] = "local",
             \A r \in Requests : caller[r] = "local" /\ r \notin InRedis => r \notin InRedis',
             \A p \in Runtimes : bridge'[p].req \in {None, bridge[p].req} \cup InRedis
      PROVE  OwedInv' /\ LocalInv'
  <2>1. OwedInv'
    BY <1>0 DEF AnswerInv, OwedInv
  <2>2. ASSUME NEW r \in Requests, caller'[r] = "local"
        PROVE  /\ r \notin InRedis' /\ \A p \in Runtimes : bridge'[p].req # r
               /\ \A p, q \in Runtimes : Inside(p, r)' /\ Inside(q, r)' => p = q
    <3>1. /\ caller[r] = "local" /\ r \notin InRedis /\ \A p \in Runtimes : bridge[p].req # r
          /\ \A p, q \in Runtimes : Inside(p, r) /\ Inside(q, r) => p = q
      BY <1>0, <2>2 DEF AnswerInv, LocalInv
    <3>2. None # r
      BY <1>t
    <3>3. r \notin InRedis'
      BY <1>0, <3>1
    <3>4. \A p \in Runtimes : bridge'[p].req # r
      BY <1>0, <3>1, <3>2
    <3>5. \A p, q \in Runtimes : Inside(p, r)' /\ Inside(q, r)' => p = q
      BY <1>0, <3>1
    <3>6. QED
      BY <3>3, <3>4, <3>5
  <2>3. QED
    BY <2>1, <2>2 DEF LocalInv
\* One that leaves the mailboxes, the bridges, the replies and the senders alone.
<1>00. ASSUME UNCHANGED <<mail, inbox, bridge, caller, execs, reply>>,
              \A r \in Requests : caller[r] = "local" /\ r \notin InRedis => r \notin InRedis'
       PROVE  AnswerInv'
  <2>1. OwedInv' /\ LocalInv'
    <3>1. \A p \in Runtimes, r \in Requests :
            (Inside(p, r)' <=> Inside(p, r)) /\ (Waits(p, r)' <=> Waits(p, r))
      BY <1>00 DEF Inside, Waits
    <3>2. QED
      BY <1>0, <1>00, <3>1
  <2>2. ChannelInv' /\ RanInv'
    BY <1>00 DEF AnswerInv, ChannelInv, RanInv
  <2>3. QED
    BY <2>1, <2>2 DEF AnswerInv
<1> USE DEF shared, queues, claims, local, mailbox, history, bounds, Fault
<1>1. CASE Tick
  BY <1>00, <1>1 DEF Tick, InRedis
<1>2. ASSUME NEW p \in Runtimes,
             \/ Claim(p) \/ Join(p) \/ GiveUp(p) \/ Publish(p) \/ Renew(p) \/ Restart(p)
             \/ Stop(p) \/ Unregister(p) \/ WipeEntry(p) \/ CheckLease(p) \/ WipeLease(p)
      PROVE  AnswerInv'
  <2>1. UNCHANGED <<mail, inbox, bridge, caller, execs, reply, pending, processing>>
    BY <1>2 DEF Claim, Join, GiveUp, Publish, Renew, Restart, Stop, Unregister, WipeEntry, CheckLease,
                WipeLease
  <2>2. QED
    BY <1>00, <2>1 DEF InRedis
<1>3. ASSUME NEW p \in Runtimes, WipeQueues(p) PROVE AnswerInv'
  BY <1>00, <1>e, <1>3 DEF WipeQueues, InRedis
\* Steps of the mailbox loop that neither take nor finish a message.
<1>4. ASSUME NEW p \in Runtimes, Spawn(p) \/ Load(p) PROVE AnswerInv'
  <2>1. /\ \E to \in {"loading", "ready"} : mail' = [mail EXCEPT ![p] = to]
        /\ UNCHANGED <<inbox, caller, execs, reply, pending, processing>>
        /\ \/ bridge' = bridge
           \/ bridge[p].pc = "off" /\ bridge' = [bridge EXCEPT ![p] = At("recover", None)]
    BY <1>4 DEF Spawn, Load, PlaceInv
  <2>2. PICK to \in {"loading", "ready"} : mail' = [mail EXCEPT ![p] = to]
    BY <2>1
  <2>3. \A q \in Runtimes : mail'[q] = mail[q] \/ (mail'[q] \notin Requests /\ mail'[q] = to)
    BY <1>t, <2>2
  <2>4. \A q \in Runtimes, r \in Requests : Inside(q, r)' => Inside(q, r)
    BY <2>1, <2>3 DEF Inside
  <2>5. \A q \in Runtimes : \/ bridge'[q] = bridge[q]
                            \/ bridge[q].pc = "off" /\ bridge'[q].req = None /\ bridge'[q].pc = "recover"
    BY <1>t, <2>1 DEF At
  <2>6. OwedInv' /\ LocalInv'
    <3>1. \A q \in Runtimes, r \in Requests : Waits(q, r) => Waits(q, r)'
      BY <2>5 DEF Waits
    <3>2. InRedis' = InRedis
      BY <2>1 DEF InRedis
    <3>3. \A q \in Runtimes : bridge'[q].req \in {None, bridge[q].req}
      BY <2>5
    <3>4. QED
      BY <1>0, <2>1, <2>4, <3>1, <3>2, <3>3
  <2>7. ChannelInv'
    <3>1. \A q \in Runtimes : mail'[q] \in Requests => mail'[q] = mail[q]
      BY <2>3
    <3>2. \A q \in Runtimes : ToSet(inbox[q]) \subseteq Requests
      BY <1>t DEF ToSet
    <3>3. QED
      BY <2>1, <3>1, <3>2 DEF AnswerInv, ChannelInv
  <2>8. RanInv'
    BY <2>1, <2>3, <2>5 DEF AnswerInv, RanInv
  <2>9. QED
    BY <2>6, <2>7, <2>8 DEF AnswerInv
<1>5. ASSUME NEW p \in Runtimes, StartTurn(p) PROVE AnswerInv'
  <2>0. PICK m \in Requests : m = Head(inbox[p])
    BY <1>5, <1>t DEF StartTurn
  <2>1. /\ inbox[p] # << >> /\ inbox[p] \in Seq(Requests) /\ mail' = [mail EXCEPT ![p] = m]
        /\ inbox' = [inbox EXCEPT ![p] = Tail(@)] /\ execs' = [execs EXCEPT ![m] = @ + 1]
        /\ UNCHANGED <<bridge, caller, reply, pending, processing>>
    BY <1>5, <1>t, <2>0 DEF StartTurn
  <2>2. /\ m \in ToSet(inbox[p]) /\ ToSet(Tail(inbox[p])) \subseteq ToSet(inbox[p])
        /\ IsInjective(inbox[p]) => IsInjective(Tail(inbox[p])) /\ m \notin ToSet(Tail(inbox[p]))
    BY <2>0, <2>1, TakeFirst
  <2>4. /\ mail'[p] = m /\ inbox'[p] = Tail(inbox[p])
        /\ \A q \in Runtimes : q # p => mail'[q] = mail[q] /\ inbox'[q] = inbox[q]
    BY <1>t, <2>1
  <2>5. OwedInv' /\ LocalInv'
    <3>1. \A q \in Runtimes, r \in Requests : Inside(q, r)' => Inside(q, r)
      BY <2>2, <2>4 DEF Inside
    <3>2. /\ \A q \in Runtimes, r \in Requests : Waits(q, r)' <=> Waits(q, r)
          /\ InRedis' = InRedis
      BY <2>1 DEF Waits, InRedis
    <3>3. QED
      BY <1>0, <2>1, <3>1, <3>2
  <2>6. ChannelInv'
    BY <2>2, <2>4 DEF AnswerInv, ChannelInv
  <2>7. \A r \in Requests : execs[r] > 0 \/ r = m => execs'[r] > 0
    BY <1>t, <2>1
  <2>8. RanInv'
    <3>1. \A q \in Runtimes : mail'[q] \in Requests => execs'[mail'[q]] > 0
      BY <2>4, <2>7 DEF AnswerInv, RanInv
    <3>2. \A q \in Runtimes : bridge'[q].pc = "ok" => execs'[bridge'[q].req] > 0
      BY <1>b, <2>1, <2>7 DEF AnswerInv, RanInv
    <3>3. \A r \in Requests : reply'[r] = "ok" => execs'[r] > 0
      BY <2>1, <2>7 DEF AnswerInv, RanInv
    <3>4. QED
      BY <3>1, <3>2, <3>3 DEF RanInv
  <2>9. QED
    BY <2>5, <2>6, <2>8 DEF AnswerInv
\* The answer goes to the bridge, or to the one local caller.
<1>6. ASSUME NEW p \in Runtimes, FinishTurn(p) PROVE AnswerInv'
  <2>0. PICK m \in Requests : m = mail[p]
    BY <1>6 DEF FinishTurn
  <2>1. /\ mail' = [mail EXCEPT ![p] = "ready"]
        /\ UNCHANGED <<inbox, execs, reply, pending, processing>>
    BY <1>6 DEF FinishTurn
  <2>2. PICK result \in {"ok", "err"} : Respond(p, m, result)
    BY <1>6, <2>0 DEF FinishTurn
  <2>3. /\ \A q \in Runtimes : q # p => mail'[q] = mail[q]
        /\ mail'[p] = "ready" /\ "ready" \notin Requests
    BY <1>t, <2>1
  <2>4. Inside(p, m) /\ ~Inside(p, m)' /\ execs[m] > 0
    BY <2>0, <2>1, <2>3 DEF Inside, AnswerInv, ChannelInv, RanInv
  <2>5. \A q \in Runtimes, r \in Requests : Inside(q, r)' => Inside(q, r)
    BY <2>1, <2>3 DEF Inside
  <2>6. InRedis' = InRedis
    BY <2>1 DEF InRedis
  <2>7. OwedInv' /\ LocalInv'
    <3>1. CASE bridge[p] = At("wait", m)
      <4>1. /\ UNCHANGED caller /\ bridge[p].req = m /\ bridge'[p].req = m
            /\ \A q \in Runtimes : q # p => bridge'[q] = bridge[q]
        BY <1>t, <2>2, <3>1 DEF Respond, At
      <4>2. \A q \in Runtimes, r \in Requests :
              Inside(q, r)' /\ (caller[r] = "local" \/ Waits(q, r)) => caller'[r] = "local" \/ Waits(q, r)'
        BY <2>4, <4>1 DEF Waits
      <4>3. QED
        BY <1>0, <2>5, <2>6, <4>1, <4>2
    <3>2. CASE bridge[p] # At("wait", m)
      <4>1. /\ UNCHANGED bridge /\ caller'[m] # "local"
            /\ \A r \in Requests : r # m => caller'[r] = caller[r]
        BY <1>t, <2>1, <2>2, <3>2 DEF Respond
      <4>2. ASSUME NEW q \in Runtimes, NEW r \in Requests, Inside(q, r)', caller[r] = "local"
            PROVE  caller'[r] = "local"
        <5>1. r # m
          BY <2>1, <2>4, <2>5, <4>2 DEF AnswerInv, LocalInv
        <5>2. QED
          BY <4>1, <4>2, <5>1
      <4>3. \A q \in Runtimes, r \in Requests : Waits(q, r) => Waits(q, r)'
        BY <4>1 DEF Waits
      <4>4. \A r \in Requests : caller'[r] = "local" => caller[r] = "local"
        BY <4>1
      <4>5. QED
        BY <1>0, <2>5, <2>6, <4>1, <4>2, <4>3, <4>4
    <3>3. QED
      BY <3>1, <3>2
  <2>8. ChannelInv'
    <3>1. "ready" \notin ToSet(inbox[p])
      BY <1>t, <2>3 DEF ToSet
    <3>2. QED
      BY <2>1, <2>3, <3>1 DEF AnswerInv, ChannelInv
  <2>9. RanInv'
    <3>1. ASSUME NEW q \in Runtimes, bridge'[q].pc = "ok" PROVE execs[bridge'[q].req] > 0
      <4>1. bridge'[q] = bridge[q] \/ bridge'[q].req = m
        BY <1>t, <2>2 DEF Respond, At
      <4>2. QED
        BY <2>4, <3>1, <4>1 DEF AnswerInv, RanInv
    <3>2. QED
      BY <2>1, <2>3, <3>1 DEF AnswerInv, RanInv
  <2>10. QED
    BY <2>7, <2>8, <2>9 DEF AnswerInv
\* A mailbox that closes, or whose process dies, tells the local callers.
<1>7. ASSUME NEW p \in Runtimes, CloseMailbox(p) \/ Crash(p) PROVE AnswerInv'
  <2>1. /\ \E to \in {"closed", "off"} : mail' = [mail EXCEPT ![p] = to]
        /\ inbox' = [inbox EXCEPT ![p] = << >>] /\ UNCHANGED <<execs, reply, pending, processing>>
    BY <1>7 DEF CloseMailbox, Crash
  <2>2. /\ \A q \in Runtimes : q # p => mail'[q] = mail[q] /\ inbox'[q] = inbox[q]
        /\ mail'[p] \notin Requests /\ inbox'[p] = << >>
    BY <1>t, <2>1
  <2>3. /\ \A q \in Runtimes : q # p => bridge'[q] = bridge[q]
        /\ bridge'[p].pc # "ok" \/ bridge'[p] = bridge[p]
        /\ bridge'[p].req \in {None, bridge[p].req}
    <3>1. CASE CloseMailbox(p)
      <4>1. bridge' = bridge \/ bridge' = [bridge EXCEPT ![p].pc = "err"]
        BY <3>1 DEF CloseMailbox
      <4>2. bridge[p] \in Bridge
        BY <1>t
      <4>3. CASE bridge' = bridge
        BY <4>3
      <4>4. CASE bridge' = [bridge EXCEPT ![p].pc = "err"]
        BY <1>t, <4>2, <4>4 DEF Bridge
      <4>5. QED
        BY <4>1, <4>3, <4>4
    <3>2. CASE Crash(p)
      BY <1>t, <3>2 DEF Crash, At
    <3>3. QED
      BY <1>7, <3>1, <3>2
  <2>4. \A r \in Requests : \/ caller'[r] = caller[r]
                            \/ caller'[r] = "err" /\ Inside(p, r)
    BY <1>7 DEF CloseMailbox, Crash, Inside
  <2>5. \A q \in Runtimes, r \in Requests : Inside(q, r)' => q # p /\ Inside(q, r)
    BY <1>e, <2>2 DEF Inside
  <2>6. OwedInv' /\ LocalInv'
    <3>1. ASSUME NEW q \in Runtimes, NEW r \in Requests, Inside(q, r)', caller[r] = "local"
          PROVE  caller'[r] = "local"
      BY <2>4, <2>5, <3>1 DEF AnswerInv, LocalInv
    <3>2. \A q \in Runtimes, r \in Requests : Inside(q, r)' /\ Waits(q, r) => Waits(q, r)'
      BY <2>3, <2>5 DEF Waits
    <3>3. \A r \in Requests : caller'[r] = "local" => caller[r] = "local"
      BY <2>4
    <3>4. InRedis' = InRedis
      BY <2>1 DEF InRedis
    <3>5. \A q \in Runtimes : bridge'[q].req \in {None, bridge[q].req}
      BY <2>3
    <3>6. QED
      BY <1>0, <2>5, <3>1, <3>2, <3>3, <3>4, <3>5
  <2>7. ChannelInv'
    BY <1>e, <1>i, <2>2 DEF AnswerInv, ChannelInv
  <2>8. RanInv'
    BY <2>1, <2>2, <2>3 DEF AnswerInv, RanInv
  <2>9. QED
    BY <2>6, <2>7, <2>8 DEF AnswerInv
\* A bridge between two messages.
<1>8. ASSUME NEW p \in Runtimes,
             \/ Recover(p) \/ RecoverFails(p) \/ Greet(p) \/ WriteReply(p) \/ Ack(p)
      PROVE  AnswerInv'
  <2>1. InRedis' \subseteq InRedis
    <3>1. CASE Recover(p)
      <4>1. CASE processing = << >>
        BY <3>1, <4>1 DEF Recover, InRedis
      <4>2. CASE processing # << >>
        <5>1. /\ processing' = Front(processing) /\ pending' = <<Last(processing)>> \o pending
              /\ Last(processing) \in Requests
              /\ ToSet(processing) = ToSet(Front(processing)) \cup {Last(processing)}
          BY <1>t, <3>1, <4>2, FrontLast DEF Recover
        <5>2. ToSet(<<Last(processing)>> \o pending) = ToSet(pending) \cup {Last(processing)}
          BY <1>t, <5>1, Prepend
        <5>3. QED
          BY <5>1, <5>2 DEF InRedis
      <4>3. QED
        BY <4>1, <4>2
    <3>2. CASE RecoverFails(p) \/ Greet(p) \/ WriteReply(p)
      BY <3>2 DEF RecoverFails, Greet, WriteReply, InRedis
    <3>3. CASE Ack(p)
      <4>1. processing' = RemoveFirst(processing, bridge[p].req) \/ processing' = processing
        BY <3>3 DEF Ack
      <4>2. pending' = pending
        BY <3>3 DEF Ack
      <4>3. ToSet(processing') \subseteq ToSet(processing)
        BY <1>t, <4>1, RemoveOne
      <4>4. QED
        BY <4>2, <4>3 DEF InRedis
    <3>4. QED
      BY <1>8, <3>1, <3>2, <3>3
  <2>2. /\ UNCHANGED <<mail, inbox, caller, execs>>
        /\ \A q \in Runtimes : q # p => bridge'[q] = bridge[q]
    BY <1>8, <1>t DEF Recover, RecoverFails, Greet, WriteReply, Ack
  <2>3. \/ bridge'[p] = bridge[p]
        \/ /\ bridge[p].pc # "wait" /\ bridge'[p].pc \notin {"wait", "ok"}
           /\ bridge'[p].req \in {None, bridge[p].req}
    <3>1. CASE Recover(p) \/ RecoverFails(p) \/ Greet(p)
      BY <1>t, <3>1 DEF Recover, RecoverFails, Greet, At
    <3>2. CASE WriteReply(p)
      <4>1. /\ bridge[p].pc \in {"ok", "err"} /\ bridge' = [bridge EXCEPT ![p].pc = "ack"]
            /\ bridge[p] \in Bridge
        BY <1>t, <3>2 DEF WriteReply
      <4>2. QED
        BY <1>t, <4>1 DEF Bridge
    <3>3. CASE Ack(p)
      BY <1>t, <3>3 DEF Ack, NextRound, At
    <3>4. QED
      BY <1>8, <3>1, <3>2, <3>3
  <2>4. \A r \in Requests : reply'[r] = "ok" =>
          reply[r] = "ok" \/ (bridge[p].pc = "ok" /\ bridge[p].req = r)
    <3>1. CASE WriteReply(p)
      <4>1. reply' = [reply EXCEPT ![bridge[p].req] = bridge[p].pc] \/ reply' = reply
        BY <3>1 DEF WriteReply
      <4>2. QED
        BY <1>t, <4>1
    <3>2. CASE ~WriteReply(p)
      BY <1>8, <3>2 DEF Recover, RecoverFails, Greet, Ack
    <3>3. QED
      BY <3>1, <3>2
  <2>5. OwedInv' /\ LocalInv'
    <3>1. \A q \in Runtimes, r \in Requests : Inside(q, r)' <=> Inside(q, r)
      BY <2>2 DEF Inside
    <3>2. \A q \in Runtimes, r \in Requests : Waits(q, r) => Waits(q, r)'
      BY <2>2, <2>3 DEF Waits
    <3>3. \A q \in Runtimes : bridge'[q].req \in {None, bridge[q].req}
      BY <2>2, <2>3
    <3>4. QED
      BY <1>0, <2>1, <2>2, <3>1, <3>2, <3>3
  <2>6. ChannelInv'
    BY <2>2 DEF AnswerInv, ChannelInv
  <2>7. RanInv'
    <3>1. \A q \in Runtimes : bridge'[q].pc = "ok" => bridge'[q] = bridge[q]
      BY <2>2, <2>3
    <3>2. QED
      BY <2>2, <2>4, <3>1 DEF AnswerInv, RanInv
  <2>8. QED
    BY <2>5, <2>6, <2>7 DEF AnswerInv
\* A bridge that takes a message is its sender.
<1>9. ASSUME NEW p \in Runtimes, Pop(p) PROVE AnswerInv'
  <2>0. PICK m \in Requests : m = Last(pending)
    BY <1>9, <1>t, FrontLast DEF Pop
  <2>1. m \in ToSet(pending) /\ InRedis' = InRedis
    <3>1. /\ pending # << >> /\ pending' = Front(pending) /\ processing' = <<Last(pending)>> \o processing
      BY <1>9 DEF Pop, Move
    <3>2. /\ Last(pending) \in Requests /\ ToSet(pending) = ToSet(Front(pending)) \cup {Last(pending)}
      BY <1>t, <3>1, FrontLast
    <3>3. ToSet(<<Last(pending)>> \o processing) = ToSet(processing) \cup {Last(pending)}
      BY <1>t, <3>2, Prepend
    <3>4. QED
      BY <2>0, <3>1, <3>2, <3>3 DEF InRedis
  <2>2. /\ bridge[p].pc = "pop" /\ UNCHANGED <<mail, caller, execs, reply>>
        /\ \/ inbox' = [inbox EXCEPT ![p] = Append(@, m)] /\ bridge' = [bridge EXCEPT ![p] = At("wait", m)]
           \/ UNCHANGED inbox /\ bridge' = [bridge EXCEPT ![p] = At("err", m)]
           \/ UNCHANGED <<inbox, bridge>>
    BY <1>9, <2>0 DEF Pop
  <2>3. caller[m] # "local" /\ m \in InRedis
    BY <2>1 DEF AnswerInv, LocalInv, InRedis
  <2>4. ~Inside(p, m) /\ \A r : ~Waits(p, r)
    BY <2>1, <2>2, <2>3 DEF AnswerInv, OwedInv, Waits
  <2>5. CASE inbox' = [inbox EXCEPT ![p] = Append(@, m)] /\ bridge' = [bridge EXCEPT ![p] = At("wait", m)]
    <3>1. /\ inbox'[p] = Append(inbox[p], m) /\ bridge'[p].pc = "wait" /\ bridge'[p].req = m
          /\ \A q \in Runtimes : q # p => inbox'[q] = inbox[q] /\ bridge'[q] = bridge[q]
      BY <1>t, <2>5 DEF At
    <3>2. /\ ToSet(inbox'[p]) = ToSet(inbox[p]) \cup {m}
          /\ IsInjective(inbox[p]) /\ m \notin ToSet(inbox[p]) => IsInjective(inbox'[p])
      BY <1>t, <2>1, <3>1, AppendNew
    <3>3. \A q \in Runtimes, r \in Requests : Inside(q, r)' => Inside(q, r) \/ (q = p /\ r = m)
      <4>1. mail' = mail
        BY <2>2
      <4>2. ASSUME NEW q \in Runtimes, NEW r \in Requests, q # p, Inside(q, r)' PROVE Inside(q, r)
        BY <3>1, <4>1, <4>2 DEF Inside
      <4>3. ASSUME NEW r \in Requests, Inside(p, r)' PROVE Inside(p, r) \/ r = m
        BY <3>2, <4>1, <4>3 DEF Inside
      <4>4. QED
        BY <4>2, <4>3
    <3>4. OwedInv'
      <4>1. ASSUME NEW q \in Runtimes, NEW r \in Requests, Inside(q, r)', ~(q = p /\ r = m)
            PROVE  caller'[r] = "local" \/ Waits(q, r)'
        <5>1. caller[r] = "local" \/ Waits(q, r)
          BY <3>3, <4>1 DEF AnswerInv, OwedInv
        <5>2. QED
          BY <2>2, <2>4, <3>1, <5>1 DEF Waits
      <4>2. Waits(p, m)'
        BY <3>1 DEF Waits
      <4>3. QED
        BY <4>1, <4>2 DEF OwedInv
    <3>5. LocalInv'
      <4>1. ASSUME NEW r \in Requests, caller'[r] = "local"
            PROVE  /\ r \notin InRedis' /\ \A q \in Runtimes : bridge'[q].req # r
                   /\ \A q, u \in Runtimes : Inside(q, r)' /\ Inside(u, r)' => q = u
        <5>1. /\ caller[r] = "local" /\ r # m
              /\ r \notin InRedis /\ \A q \in Runtimes : bridge[q].req # r
              /\ \A q, u \in Runtimes : Inside(q, r) /\ Inside(u, r) => q = u
          BY <2>2, <2>3, <4>1 DEF AnswerInv, LocalInv
        <5>2. QED
          BY <2>1, <3>1, <3>3, <5>1
      <4>2. QED
        BY <4>1 DEF LocalInv
    <3>6. ChannelInv'
      BY <2>2, <2>4, <3>1, <3>2 DEF AnswerInv, ChannelInv, Inside
    <3>7. RanInv'
      BY <2>2, <3>1 DEF AnswerInv, RanInv
    <3>8. QED
      BY <3>4, <3>5, <3>6, <3>7 DEF AnswerInv
  <2>6. CASE UNCHANGED inbox /\ (bridge' = [bridge EXCEPT ![p] = At("err", m)] \/ UNCHANGED bridge)
    <3>1. \A q \in Runtimes : \/ bridge'[q] = bridge[q]
                              \/ q = p /\ bridge'[q].req = m /\ bridge'[q].pc = "err"
      BY <1>t, <2>6 DEF At
    <3>2. \A q \in Runtimes, r \in Requests :
            (Inside(q, r)' <=> Inside(q, r)) /\ (Waits(q, r) => Waits(q, r)')
      BY <2>2, <2>4, <2>6, <3>1 DEF Inside, Waits
    <3>3. OwedInv' /\ LocalInv'
      BY <1>0, <2>1, <2>2, <2>3, <3>1, <3>2
    <3>4. ChannelInv' /\ RanInv'
      BY <2>2, <2>6, <3>1 DEF AnswerInv, ChannelInv, RanInv
    <3>5. QED
      BY <3>3, <3>4 DEF AnswerInv
  <2>7. QED
    BY <2>2, <2>5, <2>6
\* A local caller that writes has nothing on the way yet.
<1>10. ASSUME NEW m \in Requests, NEW p \in Runtimes, AskLocal(m, p) PROVE AnswerInv'
  <2>1. /\ caller[m] = "idle" /\ UNCHANGED <<mail, bridge, execs, reply, pending, processing>>
        /\ \/ inbox' = [inbox EXCEPT ![p] = Append(@, m)] /\ caller' = [caller EXCEPT ![m] = "local"]
           \/ UNCHANGED inbox /\ caller' = [caller EXCEPT ![m] = "err"]
    BY <1>10 DEF AskLocal
  <2>2. m \notin InRedis /\ \A q \in Runtimes : bridge[q].req # m /\ ~Inside(q, m)
    BY <1>s, <2>1
  <2>3. InRedis' = InRedis /\ \A q, r : Waits(q, r)' <=> Waits(q, r)
    BY <2>1 DEF InRedis, Waits
  <2>4. CASE inbox' = [inbox EXCEPT ![p] = Append(@, m)] /\ caller' = [caller EXCEPT ![m] = "local"]
    <3>1. /\ inbox'[p] = Append(inbox[p], m) /\ caller'[m] = "local"
          /\ \A q \in Runtimes : q # p => inbox'[q] = inbox[q]
          /\ \A r \in Requests : r # m => caller'[r] = caller[r]
      BY <1>t, <2>4
    <3>2. /\ ToSet(inbox'[p]) = ToSet(inbox[p]) \cup {m}
          /\ IsInjective(inbox[p]) /\ m \notin ToSet(inbox[p]) => IsInjective(inbox'[p])
      BY <1>t, <3>1, AppendNew
    <3>3. \A q \in Runtimes, r \in Requests : Inside(q, r)' => Inside(q, r) \/ (q = p /\ r = m)
      <4>1. mail' = mail
        BY <2>1
      <4>2. ASSUME NEW q \in Runtimes, NEW r \in Requests, q # p, Inside(q, r)' PROVE Inside(q, r)
        BY <3>1, <4>1, <4>2 DEF Inside
      <4>3. ASSUME NEW r \in Requests, Inside(p, r)' PROVE Inside(p, r) \/ r = m
        BY <3>2, <4>1, <4>3 DEF Inside
      <4>4. QED
        BY <4>2, <4>3
    <3>4. OwedInv'
      BY <2>3, <3>1, <3>3 DEF AnswerInv, OwedInv
    <3>5. LocalInv'
      <4>1. ASSUME NEW r \in Requests, caller'[r] = "local"
            PROVE  /\ r \notin InRedis' /\ \A q \in Runtimes : bridge'[q].req # r
                   /\ \A q, u \in Runtimes : Inside(q, r)' /\ Inside(u, r)' => q = u
        <5>1. CASE r = m
          BY <2>1, <2>2, <2>3, <3>3, <5>1
        <5>2. CASE r # m
          <6>1. /\ caller[r] = "local"
                /\ r \notin InRedis /\ \A q \in Runtimes : bridge[q].req # r
                /\ \A q, u \in Runtimes : Inside(q, r) /\ Inside(u, r) => q = u
            BY <3>1, <4>1, <5>2 DEF AnswerInv, LocalInv
          <6>2. QED
            BY <2>1, <2>3, <3>3, <5>2, <6>1
        <5>3. QED
          BY <5>1, <5>2
      <4>2. QED
        BY <4>1 DEF LocalInv
    <3>6. ChannelInv'
      BY <2>1, <2>2, <3>1, <3>2 DEF AnswerInv, ChannelInv, Inside
    <3>7. RanInv'
      BY <2>1 DEF AnswerInv, RanInv
    <3>8. QED
      BY <3>4, <3>5, <3>6, <3>7 DEF AnswerInv
  <2>5. CASE UNCHANGED inbox /\ caller' = [caller EXCEPT ![m] = "err"]
    <3>1. /\ caller'[m] = "err" /\ \A r \in Requests : r # m => caller'[r] = caller[r]
      BY <1>t, <2>5
    <3>2. \A q \in Runtimes, r \in Requests : Inside(q, r)' <=> Inside(q, r)
      BY <2>1, <2>5 DEF Inside
    <3>3. \A r \in Requests : caller'[r] = "local" <=> caller[r] = "local"
      BY <2>1, <3>1
    <3>4. OwedInv' /\ LocalInv'
      BY <1>0, <2>1, <2>3, <3>2, <3>3
    <3>5. ChannelInv' /\ RanInv'
      BY <2>1, <2>5 DEF AnswerInv, ChannelInv, RanInv
    <3>6. QED
      BY <3>4, <3>5 DEF AnswerInv
  <2>6. QED
    BY <2>1, <2>4, <2>5
<1>11. ASSUME NEW m \in Requests, AskRemote(m) \/ Push(m) \/ ReadReply(m) \/ Timeout(m) PROVE AnswerInv'
  <2>1. /\ UNCHANGED <<mail, inbox, bridge, execs>> /\ caller[m] # "local" /\ caller'[m] # "local"
        /\ \A r \in Requests : r # m => caller'[r] = caller[r]
    <3>1. reply[m] # "local"
      BY <1>t
    <3>2. QED
      BY <1>11, <1>t, <3>1 DEF AskRemote, Push, ReadReply, Timeout, Waiting
  <2>2. \A r \in Requests : reply'[r] = "ok" => reply[r] = "ok"
    BY <1>11, <1>t DEF AskRemote, Push, ReadReply, Timeout
  <2>3. InRedis' = InRedis \/ InRedis' = InRedis \cup {m}
    <3>1. CASE Push(m)
      <4>1. pending' = <<m>> \o pending /\ processing' = processing
        BY <3>1 DEF Push
      <4>2. ToSet(<<m>> \o pending) = ToSet(pending) \cup {m}
        BY <1>t, Prepend
      <4>3. QED
        BY <4>1, <4>2 DEF InRedis
    <3>2. CASE ~Push(m)
      BY <1>11, <3>2 DEF AskRemote, ReadReply, Timeout, InRedis
    <3>3. QED
      BY <3>1, <3>2
  <2>4. \A q \in Runtimes, r \in Requests : (Inside(q, r)' <=> Inside(q, r)) /\ (Waits(q, r)' <=> Waits(q, r))
    BY <2>1 DEF Inside, Waits
  <2>5. \A r \in Requests : caller'[r] = "local" <=> caller[r] = "local"
    BY <2>1
  <2>6. \A r \in Requests : caller[r] = "local" /\ r \notin InRedis => r \notin InRedis'
    BY <2>1, <2>3
  <2>7. OwedInv' /\ LocalInv'
    BY <1>0, <2>1, <2>4, <2>5, <2>6
  <2>8. ChannelInv' /\ RanInv'
    BY <2>1, <2>2 DEF AnswerInv, ChannelInv, RanInv
  <2>9. QED
    BY <2>7, <2>8 DEF AnswerInv
<1>12. CASE UNCHANGED vars
  BY <1>00, <1>12 DEF vars, InRedis
<1>13. QED
  BY <1>1, <1>2, <1>3, <1>4, <1>5, <1>6, <1>7, <1>8, <1>9, <1>10, <1>11, <1>12
  DEF Next, Process, Caller

-----------------------------------------------------------------------------
(* The theorems. *)

\* The inductive invariant.
IInv == TypeInv /\ PlaceInv /\ LeaseInv /\ KeptInv /\ SavedInv /\ OnceInv /\ AnswerInv

\* Nothing is claimed, sent or run at the start.
LEMMA InitHolds == Init => IInv
<1> SUFFICES ASSUME Init PROVE IInv
  OBVIOUS
<1> USE NamedAgentAssumption DEF Init
<1>1. TypeInv
  <2>1. At("off", None) \in Bridge
    BY DEF Bridge, At
  <2>2. /\ bridge \in [Runtimes -> Bridge] /\ inbox \in [Runtimes -> Seq(Requests)]
        /\ pending \in Seq(Requests) /\ processing \in Seq(Requests)
    BY <2>1
  <2>3. /\ mail \in [Runtimes -> {"off", "loading", "ready", "closed"} \cup Requests]
        /\ conv \in [Runtimes -> SUBSET Requests]
    OBVIOUS
  <2>4. QED
    BY <2>2, <2>3 DEF TypeInv
<1>2. PlaceInv
  BY DEF PlaceInv, Open, At
<1>3. LeaseInv
  BY DEF LeaseInv
<1>4. KeptInv
  BY DEF KeptInv, RequestKept, ToSet, At
<1>5. SavedInv
  BY DEF SavedInv, Open, At
<1>6. OnceInv
  <2>1. \A r : Places(r) = {}
    BY DEF Places, Line
  <2>2. AtMost({}, 0)
    <3>1. [x \in {} |-> x] \in [{} -> 1..0]
      OBVIOUS
    <3>2. QED
      BY <3>1 DEF AtMost
  <2>3. ASSUME NEW r \in Requests PROVE Once(r)
    <3>1. execs[r] = 0 /\ ToCome(r) = 1 /\ recovered[r] = 0
      BY DEF ToCome
    <3>2. execs[r] + ToCome(r) + 0 <= 1 + recovered[r]
      BY <3>1
    <3>3. QED
      BY <2>1, <2>2, <3>2 DEF Once
  <2>4. QED
    BY <2>3 DEF OnceInv
<1>7. AnswerInv
  <2>1. ToSet(<< >>) = {} /\ IsInjective(<< >>)
    BY DEF ToSet, IsInjective
  <2>2. OwedInv /\ LocalInv
    BY <2>1 DEF OwedInv, LocalInv, Inside
  <2>3. ChannelInv /\ RanInv
    BY <2>1 DEF ChannelInv, RanInv, At
  <2>4. QED
    BY <2>2, <2>3 DEF AnswerInv
<1>8. QED
  BY <1>1, <1>2, <1>3, <1>4, <1>5, <1>6, <1>7 DEF IInv

\* Every reachable state satisfies the invariant.
THEOREM SpecInvariant == Spec => []IInv
<1>1. IInv /\ [Next]_vars => IInv'
  BY TypeStep, PlaceStep, LeaseStep, KeptStep, SavedStep, OnceStep, AnswerStep DEF IInv
<1>2. QED
  BY InitHolds, <1>1, PTL DEF Spec

\* The lease keeps every process but one from serving the agent, for every
\* number of processes and every lease: while it has not lapsed the processes
\* that serve, and those that wipe, hold it, and it lapses only after LeaseTtl - 1
\* missed renewals.
THEOREM SpecSingleOwner == Spec => []SingleOwner
<1>1. IInv => SingleOwner
  <2> SUFFICES ASSUME IInv PROVE SingleOwner
    OBVIOUS
  <2> USE DEF IInv
  <2>1. LapseNeedsMissedRenewals
    BY NamedAgentAssumption DEF LapseNeedsMissedRenewals, LeaseInv, TypeInv
  <2>2. ASSUME ~lapsed PROVE Cardinality({p \in Runtimes : Serving(p)}) <= 1
    <3> DEFINE S == {p \in Runtimes : Serving(p)}
    <3>1. S \subseteq {lease}
      BY <2>2, ServingHasLease DEF Serving
    <3>2. IsFiniteSet({lease}) /\ Cardinality({lease}) = 1
      BY FS_Singleton
    <3>3. Cardinality(S) <= Cardinality({lease})
      BY <3>1, <3>2, FS_Subset
    <3>4. QED
      BY <3>2, <3>3
  <2>3. ASSUME ~lapsed PROVE \A p \in Runtimes : wipe[p] # "off" => lease = p
    BY <2>3 DEF LeaseInv
  <2>4. QED
    BY <2>1, <2>2, <2>3 DEF SingleOwner
<1>2. QED
  BY SpecInvariant, <1>1, PTL

\* A request a caller waits for stays in Redis until its answer, whatever crashes,
\* faults and stops come, and what was answered is stored or was given up.
THEOREM SpecNoMessageLost == Spec => []NoMessageLost
<1>1. IInv => NoMessageLost
  BY DEF IInv, NoMessageLost, KeptInv, SavedInv, Kept, AnsweredIsSaved
<1>2. QED
  BY SpecInvariant, <1>1, PTL

\* No message is executed more often than it was sent and moved back: whatever
\* crashes, stops and faults come, a repeated turn is the work of a recovery.
THEOREM SpecExecutedOncePlusRecoveries == Spec => []ExecutedOncePlusRecoveries
<1>1. IInv => ExecutedOncePlusRecoveries
  <2> SUFFICES ASSUME IInv, NEW r \in Requests PROVE execs[r] <= 1 + recovered[r]
    BY DEF ExecutedOncePlusRecoveries
  <2>1. PICK n \in Nat : execs[r] + ToCome(r) + n <= 1 + recovered[r]
    BY DEF IInv, OnceInv, Once
  <2>2. execs[r] \in Nat /\ recovered[r] \in Nat /\ ToCome(r) \in Nat
    BY DEF IInv, TypeInv, ToCome
  <2>3. QED
    BY <2>1, <2>2
<1>2. QED
  BY SpecInvariant, <1>1, PTL

\* A bridge that moves a request back while another one handles it: then one of
\* the two belongs to a stopped agent, for otherwise both would hold the lease.
THEOREM SpecStolenOnlyAroundStops == Spec => StolenOnlyAroundStops
<1> DEFINE Step == \A r \in Requests : recovered'[r] # recovered[r] =>
                     lapsed \/ \A p \in Runtimes : Handling(p, r) =>
                       p \in stopping \/ \E q \in stopping : bridge[q].pc = "recover"
<1>1. IInv /\ [Next]_vars => [Step]_vars
  <2> SUFFICES ASSUME IInv, [Next]_vars,
                      NEW r \in Requests, recovered'[r] # recovered[r], ~lapsed,
                      NEW p \in Runtimes, Handling(p, r), p \notin stopping
               PROVE  \E q \in stopping : bridge[q].pc = "recover"
    BY DEF Step
  <2>1. PICK q \in Runtimes : Recover(q)
    <3>1. ASSUME UNCHANGED recovered PROVE FALSE
      BY <3>1
    <3>2. ~ UNCHANGED vars /\ ~ Tick
      BY <3>1 DEF vars, history, Tick
    <3>3. ASSUME NEW u \in Requests PROVE ~Caller(u)
      BY <3>1 DEF Caller, AskRemote, Push, ReadReply, Timeout, AskLocal, history
    <3>4. ASSUME NEW q \in Runtimes, Process(q) PROVE Recover(q)
      BY <3>1, <3>4
      DEF history, Process, Claim, Join, GiveUp, Spawn, Publish, Renew, Load, StartTurn, FinishTurn,
          Restart, CloseMailbox, Stop, Unregister, WipeEntry, WipeQueues, CheckLease, WipeLease,
          RecoverFails, Greet, Pop, WriteReply, Ack, Crash
    <3>5. QED
      BY <3>2, <3>3, <3>4 DEF Next
  <2>2. bridge[q].pc = "recover" /\ bridge[p].pc \in {"wait", "ok", "err"}
    BY <2>1 DEF Recover, Handling
  <2>3. lease = p
    BY <2>2, ServingHasLease DEF IInv
  <2>4. q \notin stopping => lease = q
    BY <2>1, <2>2, ServingHasLease DEF IInv
  <2>5. QED
    BY <2>2, <2>3, <2>4
<1>2. QED
  BY SpecInvariant, <1>1, PTL DEF Spec, StolenOnlyAroundStops
\* Under the mapping of NamedAgent every step is a step of the promise or none:
\* StartTurn runs a message, Recover sends it again, and an answer given to its
\* sender settles an open message.
LEMMA PromiseStep == IInv /\ IInv' /\ [Next]_vars => [Promise!Next]_(Promise!vars)
<1> SUFFICES ASSUME IInv, IInv', [Next]_vars PROVE [Promise!Next]_(Promise!vars)
  OBVIOUS
<1>t. /\ reply \in [Requests -> {"none", "ok", "err"}]
      /\ caller \in [Requests -> {"idle", "push", "remote", "local", "ok", "err", "timeout"}]
      /\ mail \in [Runtimes -> {"off", "loading", "ready", "closed"} \cup Requests]
      /\ inbox \in [Runtimes -> Seq(Requests)] /\ processing \in Seq(Requests)
      /\ execs \in [Requests -> Nat] /\ execs' \in [Requests -> Nat] /\ recovered \in [Requests -> Nat]
  BY DEF IInv, TypeInv
<1>i. AnswerInv /\ KeptInv
  BY DEF IInv
<1> DEFINE fate == [r \in Requests |-> Fate(r)]
<1>f. \A r \in Requests :
        /\ fate[r] = Fate(r) /\ fate'[r] = Fate(r)'
        /\ caller[r] = "idle" => Fate(r) = "new"
        /\ caller[r] \in {"push", "remote", "local"} => Fate(r) = "open"
        /\ caller[r] = "ok" => Fate(r) = "ok"
        /\ caller[r] \in {"err", "timeout"} => Fate(r) = "failed"
        /\ caller[r] # "idle" => Fate(r) # "new"
  BY DEF Fate
<1>g. \A r \in Requests :
        /\ caller'[r] = "idle" => Fate(r)' = "new"
        /\ caller'[r] \in {"push", "remote", "local"} => Fate(r)' = "open"
        /\ caller'[r] = "ok" => Fate(r)' = "ok"
        /\ caller'[r] \in {"err", "timeout"} => Fate(r)' = "failed"
        /\ caller'[r] = caller[r] => Fate(r)' = Fate(r)
  BY DEF Fate
\* Steps no sender hears of.
<1>0. ASSUME UNCHANGED <<execs, recovered>>, \A r \in Requests : Fate(r)' = Fate(r)
      PROVE  UNCHANGED Promise!vars
  <2>1. [r \in Requests |-> Fate(r)]' = [r \in Requests |-> Fate(r)]
    BY <1>0
  <2>2. QED
    BY <1>0, <2>1 DEF Promise!vars
\* An answer to one sender that waits: success for a message that was run.
<1>a. ASSUME NEW m \in Requests, UNCHANGED <<execs, recovered>>,
             \A r \in Requests : r # m => Fate(r)' = Fate(r),
             \/ Fate(m) = "open" /\ execs[m] > 0 /\ Fate(m)' = "ok"
             \/ Fate(m) \in {"new", "open"} /\ Fate(m)' = "failed"
             \/ Fate(m) = "new" /\ Fate(m)' = "open"
      PROVE  Promise!Next
  <2>1. CASE Fate(m) = "open" /\ execs[m] > 0 /\ Fate(m)' = "ok"
    <3>1. fate' = [fate EXCEPT ![m] = "ok"]
      BY <1>a, <2>1
    <3>2. Promise!Answer(m)
      BY <1>a, <2>1, <3>1 DEF Promise!Answer
    <3>3. QED
      BY <3>2 DEF Promise!Next
  <2>2. CASE Fate(m) \in {"new", "open"} /\ Fate(m)' = "failed"
    <3>1. fate' = [r \in Requests |-> IF r \in {m} THEN "failed" ELSE fate[r]]
      BY <1>a, <2>2
    <3>2. Promise!Fail({m})
      BY <1>a, <2>2, <3>1 DEF Promise!Fail
    <3>3. QED
      BY <3>2 DEF Promise!Next
  <2>3. CASE Fate(m) = "new" /\ Fate(m)' = "open"
    <3>1. fate' = [fate EXCEPT ![m] = "open"]
      BY <1>a, <2>3
    <3>2. Promise!Send(m)
      BY <1>a, <2>3, <3>1 DEF Promise!Send
    <3>3. QED
      BY <3>2 DEF Promise!Next
  <2>4. QED
    BY <1>a, <2>1, <2>2, <2>3
<1> USE DEF shared, queues, claims, local, mailbox, history, bounds
<1>1. CASE Tick
  BY <1>0, <1>g, <1>1 DEF Tick
<1>2. ASSUME NEW p \in Runtimes,
             \/ Claim(p) \/ Join(p) \/ GiveUp(p) \/ Spawn(p) \/ Publish(p) \/ Renew(p) \/ Load(p)
             \/ Restart(p) \/ Stop(p) \/ Unregister(p) \/ WipeEntry(p) \/ WipeQueues(p)
             \/ CheckLease(p) \/ WipeLease(p) \/ RecoverFails(p) \/ Greet(p) \/ Pop(p)
             \/ WriteReply(p) \/ Ack(p)
      PROVE  UNCHANGED Promise!vars
  <2>1. UNCHANGED <<caller, execs, recovered>>
    BY <1>2 DEF Claim, Join, GiveUp, Spawn, Publish, Renew, Load, Restart, Stop, Unregister, WipeEntry,
                WipeQueues, CheckLease, WipeLease, RecoverFails, Greet, Pop, WriteReply, Ack
  <2>2. QED
    BY <1>0, <1>g, <2>1
<1>3. ASSUME NEW p \in Runtimes, StartTurn(p) PROVE Promise!Next
  <2>1. PICK m \in Requests : m = Head(inbox[p]) /\ m \in ToSet(inbox[p])
    BY <1>t, <1>3, TakeFirst DEF StartTurn
  <2>2. execs' = [execs EXCEPT ![m] = @ + 1] /\ UNCHANGED <<caller, recovered>>
    BY <1>3, <2>1 DEF StartTurn
  <2>3. Fate(m) # "new"
    <3>1. Inside(p, m)
      BY <2>1 DEF Inside
    <3>2. caller[m] = "local" \/ Waits(p, m)
      BY <1>i, <3>1 DEF AnswerInv, OwedInv
    <3>3. caller[m] # "idle"
      BY <1>i, <3>2 DEF Waits, KeptInv, Sent
    <3>4. QED
      BY <1>f, <3>3
  <2>4. execs[m] <= recovered[m]
    <3>1. execs'[m] <= 1 + recovered'[m]
      <4>1. PICK n \in Nat : execs'[m] + ToCome(m)' + n <= 1 + recovered'[m]
        BY DEF IInv, OnceInv, Once
      <4>2. ToCome(m)' \in Nat /\ recovered'[m] \in Nat /\ execs'[m] \in Nat
        BY <1>t, <2>2 DEF ToCome
      <4>3. QED
        BY <4>1, <4>2
    <3>2. execs'[m] = execs[m] + 1 /\ recovered'[m] = recovered[m]
      BY <1>t, <2>2
    <3>3. QED
      BY <1>t, <3>1, <3>2
  <2>5. fate' = fate
    BY <1>g, <2>2
  <2>6. Promise!Run(m)
    BY <1>f, <2>2, <2>3, <2>4, <2>5 DEF Promise!Run
  <2>7. QED
    BY <2>6 DEF Promise!Next
<1>4. ASSUME NEW p \in Runtimes, FinishTurn(p) PROVE [Promise!Next]_(Promise!vars)
  <2>1. PICK m \in Requests : m = mail[p]
    BY <1>4 DEF FinishTurn
  <2>2. PICK result \in {"ok", "err"} : Respond(p, m, result)
    BY <1>4, <2>1 DEF FinishTurn
  <2>3. UNCHANGED <<execs, recovered>>
    BY <1>4 DEF FinishTurn
  <2>4. CASE bridge[p] = At("wait", m)
    BY <1>0, <1>g, <2>2, <2>3, <2>4 DEF Respond
  <2>5. CASE bridge[p] # At("wait", m)
    <3>1. caller' = [caller EXCEPT ![m] = result]
      BY <2>2, <2>5 DEF Respond
    <3>2. execs[m] > 0
      BY <1>i, <2>1 DEF AnswerInv, RanInv
    <3>3. caller[m] = "local"
      <4>1. Inside(p, m)
        BY <2>1 DEF Inside
      <4>2. ~Waits(p, m)
        BY <2>5 DEF Waits, At, IInv, TypeInv, Bridge
      <4>3. QED
        BY <1>i, <4>1, <4>2 DEF AnswerInv, OwedInv
    <3>4. Fate(m) = "open" /\ Fate(m)' \in {"ok", "failed"}
      BY <1>f, <1>g, <1>t, <3>1, <3>3
    <3>5. \A r \in Requests : r # m => Fate(r)' = Fate(r)
      BY <1>g, <1>t, <3>1
    <3>6. QED
      BY <1>a, <2>3, <3>2, <3>4, <3>5
  <2>6. QED
    BY <2>4, <2>5
<1>5. ASSUME NEW p \in Runtimes, CloseMailbox(p) \/ Crash(p) PROVE Promise!Next
  <2> DEFINE left == {r \in Requests : caller[r] = "local" /\ caller'[r] = "err"}
  <2>1. UNCHANGED <<execs, recovered>>
    BY <1>5 DEF CloseMailbox, Crash
  <2>2. ASSUME NEW r \in Requests, r \notin left PROVE caller'[r] = caller[r]
    <3>1. CASE CloseMailbox(p)
      <4>1. caller'[r] = IF r \in ToSet(inbox[p]) /\ bridge[p] # At("wait", r) THEN "err" ELSE caller[r]
        BY <3>1 DEF CloseMailbox
      <4>2. CASE r \in ToSet(inbox[p]) /\ bridge[p] # At("wait", r)
        <5>1. Inside(p, r) /\ ~Waits(p, r)
          BY <4>2 DEF Inside, Waits, At, IInv, TypeInv, Bridge
        <5>2. caller[r] = "local" /\ caller'[r] = "err"
          BY <1>i, <4>1, <4>2, <5>1 DEF AnswerInv, OwedInv
        <5>3. QED
          BY <2>2, <5>2
      <4>3. QED
        BY <4>1, <4>2
    <3>2. CASE Crash(p)
      BY <2>2, <3>2 DEF Crash
    <3>3. QED
      BY <1>5, <3>1, <3>2
  <2>3. \A r \in left : Fate(r) = "open" /\ Fate(r)' = "failed"
    BY <1>f, <1>g
  <2>4. \A r \in Requests : r \notin left => Fate(r)' = Fate(r)
    BY <1>g, <2>2
  <2>5. left \in SUBSET Requests
    OBVIOUS
  <2> HIDE DEF left
  <2>6. fate' = [r \in Requests |-> IF r \in left THEN "failed" ELSE fate[r]]
    BY <2>3, <2>4, <2>5
  <2>7. \A r \in left : fate[r] \in {"new", "open"}
    BY <2>3, <2>5
  <2>8. Promise!Fail(left)
    BY <2>1, <2>6, <2>7 DEF Promise!Fail
  <2>9. QED
    BY <2>5, <2>8 DEF Promise!Next
<1>6. ASSUME NEW p \in Runtimes, Recover(p) PROVE [Promise!Next]_(Promise!vars)
  <2>1. UNCHANGED <<caller, execs>>
    BY <1>6 DEF Recover
  <2>2. CASE processing = << >>
    BY <1>0, <1>6, <1>g, <2>1, <2>2 DEF Recover
  <2>3. CASE processing # << >>
    <3>0. /\ Last(processing) \in Requests
          /\ ToSet(processing) = ToSet(Front(processing)) \cup {Last(processing)}
      BY <1>t, <2>3, FrontLast
    <3>1. PICK m \in Requests : m = Last(processing) /\ m \in ToSet(processing)
      BY <3>0
    <3>2. recovered' = [recovered EXCEPT ![m] = @ + 1]
      BY <1>6, <2>3, <3>1 DEF Recover
    <3>3. Fate(m) # "new"
      BY <1>f, <1>i, <3>1 DEF KeptInv, Sent
    <3>4. fate' = fate
      BY <1>g, <2>1
    <3>5. Promise!Resend(m)
      BY <1>f, <2>1, <3>2, <3>3, <3>4 DEF Promise!Resend
    <3>6. QED
      BY <3>5 DEF Promise!Next
  <2>4. QED
    BY <2>2, <2>3
<1>7. ASSUME NEW m \in Requests, Caller(m) PROVE [Promise!Next]_(Promise!vars)
  <2>1. /\ UNCHANGED <<execs, recovered>>
        /\ \A r \in Requests : r # m => caller'[r] = caller[r]
    BY <1>7, <1>t DEF Caller, AskRemote, Push, ReadReply, Timeout, AskLocal
  <2>2. \A r \in Requests : r # m => Fate(r)' = Fate(r)
    BY <1>g, <2>1
  <2>3. CASE AskRemote(m) \/ \E p \in Runtimes : AskLocal(m, p)
    <3>1. caller[m] = "idle" /\ caller'[m] \in {"push", "local", "err"}
      BY <1>t, <2>3 DEF AskRemote, AskLocal
    <3>2. QED
      BY <1>a, <1>f, <1>g, <2>1, <2>2, <3>1
  <2>4. CASE Push(m)
    <3>1. caller[m] = "push" /\ caller'[m] = "remote"
      BY <1>t, <2>4 DEF Push
    <3>2. Fate(m)' = Fate(m)
      BY <1>f, <1>g, <3>1
    <3>3. QED
      BY <1>0, <2>1, <2>2, <3>2
  <2>5. CASE ReadReply(m)
    <3>1. caller[m] = "remote" /\ reply[m] # "none" /\ caller'[m] = reply[m]
      BY <1>t, <2>5 DEF ReadReply, Waiting
    <3>2. reply[m] = "ok" => execs[m] > 0
      BY <1>i DEF AnswerInv, RanInv
    <3>3. reply[m] \in {"ok", "err"}
      BY <1>t, <3>1
    <3>4. Fate(m) = "open" /\ (reply[m] = "ok" => Fate(m)' = "ok") /\ (reply[m] = "err" => Fate(m)' = "failed")
      BY <1>f, <1>g, <3>1
    <3>5. QED
      BY <1>a, <2>1, <2>2, <3>2, <3>3, <3>4
  <2>6. CASE Timeout(m)
    <3>1. caller[m] = "remote" /\ caller'[m] = "timeout"
      BY <1>t, <2>6 DEF Timeout, Waiting
    <3>2. QED
      BY <1>a, <1>f, <1>g, <2>1, <2>2, <3>1
  <2>7. QED
    BY <1>7, <2>3, <2>4, <2>5, <2>6 DEF Caller
<1>8. CASE UNCHANGED vars
  BY <1>0, <1>8, <1>g DEF vars
<1>9. QED
  BY <1>1, <1>2, <1>3, <1>4, <1>5, <1>6, <1>7, <1>8 DEF Next, Process

\* One agent for all who write to it: owners, bridges and callers together keep
\* the promise of AtMostOnce, for every number of processes and messages.
THEOREM SpecImplementsAtMostOnce == Spec => ImplementsAtMostOnce
<1>1. Init => Promise!Init
  BY DEF Init, Fate, Promise!Init
<1>2. QED
  BY <1>1, SpecInvariant, PromiseStep, PTL DEF Spec, ImplementsAtMostOnce, Promise!Spec
=============================================================================
