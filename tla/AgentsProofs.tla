---------------------------- MODULE AgentsProofs ----------------------------
(***************************************************************************)
(* Proofs about the agents: AgentTurn and Orchestration first, for every   *)
(* number of agents, every budget and window, and everything the model may *)
(* answer; then ConversationServer, for every number of conversations and  *)
(* requests, and whatever they ask.                                        *)
(***************************************************************************)
EXTENDS Orchestration, ConversationServer, SequenceTheorems, FiniteSetTheorems, TLAPS

Message == {<<"user">>, <<"said">>} \cup {<<"uses", n>> : n \in Nat} \cup {<<"result", n>> : n \in Nat}

-----------------------------------------------------------------------------
(* Conversations. *)

\* The first of two user messages in a row.
Doubled(msgs) == {i \in 1..(Len(msgs) - 1) : msgs[i] = <<"user">> /\ msgs[i + 1] = <<"user">>}

EndsWith(msgs, kinds) == msgs # << >> /\ msgs[Len(msgs)][1] \in kinds

\* A use has all its results behind it, or all but those that are still to come.
Uses(msgs, open) ==
  \A i \in DOMAIN msgs : msgs[i][1] = "uses" =>
    /\ i + msgs[i][2] <= Len(msgs) \/ i + msgs[i][2] = Len(msgs) + open
    /\ \A k \in 1..msgs[i][2] :
         i + k <= Len(msgs) => msgs[i + k] = <<"result", msgs[i][2] - k + 1>>

\* Between a result and its use, or the front, are results.
Belongs(msgs, i) ==
  \E j \in 0..(i - 1) :
    IF j = 0 THEN \A k \in 1..i : msgs[k][1] = "result"
    ELSE msgs[j][1] = "uses" /\ \A k \in (j + 1)..i : msgs[k][1] = "result"

\* A conversation whose last use has open results still to come.
Sound(msgs, open) ==
  /\ Uses(msgs, open)
  /\ \A i \in DOMAIN msgs : msgs[i][1] = "result" => Belongs(msgs, i)
  /\ open > 0 => EndsWith(msgs, {"uses", "result"})

LEMMA MessageFacts ==
  ASSUME NEW m \in Message
  PROVE  /\ m[1] \in {"user", "said", "uses", "result"}
         /\ m[1] \in {"uses", "result"} => m[2] \in Nat
         /\ m[1] = "user" <=> m = <<"user">>
BY DEF Message

\* What the window leaves of a conversation.
Suffix(t, s, d) ==
  /\ t \in Seq(Message) /\ Len(t) = Len(s) - d
  /\ \A i \in 1..Len(t) : t[i] = s[i + d]
  /\ s # << >> => t # << >>

LEMMA CompactCuts ==
  ASSUME setup \in [mode : Modes, window : Windows], NEW s \in Seq(Message)
  PROVE  \E d \in Nat : Suffix(Compact(s), s, d) /\ (setup.window = 0 => d = 0)
<1>1. setup.window \in Nat /\ Len(s) \in Nat
  <2>1. setup.window \in Windows
    OBVIOUS
  <2>2. Windows \subseteq Nat
    BY AgentTurnAssumption
  <2>3. setup.window \in Nat
    BY <2>1, <2>2
  <2>4. Len(s) \in Nat
    BY LenProperties
  <2>5. QED
    BY <2>3, <2>4
<1>2. CASE setup.window = 0 \/ Len(s) <= setup.window
  <2>1. Compact(s) = s
    BY <1>2 DEF Compact
  <2>2. QED
    BY <1>1, <2>1 DEF Suffix
<1>3. CASE ~(setup.window = 0 \/ Len(s) <= setup.window)
  <2> DEFINE d == Len(s) - setup.window
  <2>1. Compact(s) = SubSeq(s, d + 1, Len(s)) /\ d \in Nat /\ d < Len(s)
    BY <1>1, <1>3 DEF Compact
  <2> HIDE DEF d
  <2>a. /\ SubSeq(s, d + 1, Len(s)) \in Seq(Message) /\ Len(SubSeq(s, d + 1, Len(s))) = Len(s) - d
        /\ \A i \in 1..(Len(s) - d) : SubSeq(s, d + 1, Len(s))[i] = s[i + d]
    <3>1. d + 1 \in 1..(Len(s) + 1) /\ Len(s) \in d..Len(s)
      BY <1>1, <2>1
    <3>2. QED
      BY <1>1, <2>1, <3>1
  <2>2. /\ Compact(s) \in Seq(Message) /\ Len(Compact(s)) = Len(s) - d
        /\ \A i \in 1..Len(Compact(s)) : Compact(s)[i] = s[i + d]
    BY <2>1, <2>a
  <2>3. Compact(s) # << >>
    <3>1. Len(Compact(s)) # 0
      BY <1>1, <2>1, <2>2
    <3>2. QED
      BY <3>1
  <2>4. QED
    BY <1>3, <2>1, <2>2, <2>3 DEF Suffix
<1>4. QED
  BY <1>2, <1>3

\* The window cuts between a use and its results, but leaves those that are left
\* in their order.
LEMMA SuffixSound ==
  ASSUME NEW s \in Seq(Message), NEW t, NEW d \in Nat, Suffix(t, s, d),
         NEW open \in Nat, Sound(s, open)
  PROVE  Sound(t, open)
<1>1. /\ t \in Seq(Message) /\ Len(t) \in Nat /\ Len(s) \in Nat /\ Len(s) = Len(t) + d
      /\ \A i \in 1..Len(t) : t[i] = s[i + d] /\ i + d \in 1..Len(s)
      /\ DOMAIN t = 1..Len(t) /\ DOMAIN s = 1..Len(s)
  BY DEF Suffix
<1>2. Uses(t, open)
  <2> SUFFICES ASSUME NEW i \in 1..Len(t), t[i][1] = "uses"
               PROVE  /\ i + t[i][2] <= Len(t) \/ i + t[i][2] = Len(t) + open
                      /\ \A k \in 1..t[i][2] : i + k <= Len(t) => t[i + k] = <<"result", t[i][2] - k + 1>>
    BY <1>1 DEF Uses
  <2>1. t[i] = s[i + d] /\ i + d \in DOMAIN s /\ t[i][2] \in Nat
    <3>1. t[i] \in Message
      BY <1>1
    <3>2. t[i] = s[i + d] /\ i + d \in DOMAIN s
      BY <1>1
    <3>3. QED
      BY <3>1, <3>2, MessageFacts
  <2>2. /\ i + d + t[i][2] <= Len(s) \/ i + d + t[i][2] = Len(s) + open
        /\ \A k \in 1..t[i][2] : i + d + k <= Len(s) => s[i + d + k] = <<"result", t[i][2] - k + 1>>
    BY <2>1 DEF Sound, Uses
  <2>3. ASSUME NEW k \in 1..t[i][2], i + k <= Len(t) PROVE t[i + k] = <<"result", t[i][2] - k + 1>>
    <3>1. t[i + k] = s[(i + k) + d] /\ (i + k) + d = i + d + k /\ i + d + k <= Len(s)
      BY <1>1, <2>1, <2>3
    <3>2. QED
      BY <2>2, <2>3, <3>1
  <2>4. i + t[i][2] <= Len(t) \/ i + t[i][2] = Len(t) + open
    <3> DEFINE n == t[i][2]
    <3>1. n \in Nat /\ (i + d + n <= Len(s) \/ i + d + n = Len(s) + open)
      BY <2>1, <2>2
    <3> HIDE DEF n
    <3>2. i + n <= Len(t) \/ i + n = Len(t) + open
      <4>1. Len(s) = Len(t) + d /\ Len(t) \in Nat /\ i \in Nat
        BY <1>1
      <4>2. QED
        BY <3>1, <4>1
    <3>3. QED
      BY <3>2 DEF n
  <2>5. QED
    BY <2>3, <2>4
<1>3. ASSUME NEW i \in DOMAIN t, t[i][1] = "result" PROVE Belongs(t, i)
  <2>1. t[i] = s[i + d] /\ i + d \in DOMAIN s
    BY <1>1
  <2>2. PICK j \in 0..(i + d - 1) :
          IF j = 0 THEN \A k \in 1..(i + d) : s[k][1] = "result"
          ELSE s[j][1] = "uses" /\ \A k \in (j + 1)..(i + d) : s[k][1] = "result"
    <3>1. Belongs(s, i + d)
      BY <1>3, <2>1 DEF Sound
    <3>2. QED
      BY <3>1 DEF Belongs
  <2>3. CASE j <= d
    <3>1. \A k \in 1..i : t[k][1] = "result"
      <4> TAKE k \in 1..i
      <4>1. t[k] = s[k + d] /\ k + d \in (j + 1)..(i + d) /\ k + d \in 1..(i + d)
        BY <1>1, <2>3
      <4>2. QED
        BY <2>2, <4>1
    <3>2. QED
      BY <1>1, <3>1 DEF Belongs
  <2>4. CASE j > d
    <3>1. j - d \in 1..(i - 1) /\ t[j - d] = s[j]
      BY <1>1, <2>4
    <3>2. \A k \in ((j - d) + 1)..i : t[k][1] = "result"
      <4> TAKE k \in ((j - d) + 1)..i
      <4>1. t[k] = s[k + d] /\ k + d \in (j + 1)..(i + d)
        BY <1>1, <2>4
      <4>2. QED
        BY <2>2, <2>4, <4>1
    <3>3. QED
      BY <1>1, <2>2, <2>4, <3>1, <3>2, SMTT(30) DEF Belongs
  <2>5. QED
    BY <1>1, <2>3, <2>4
<1>4. open > 0 => EndsWith(t, {"uses", "result"})
  BY <1>1 DEF Sound, EndsWith, Suffix
<1>5. QED
  BY <1>2, <1>3, <1>4 DEF Sound

LEMMA AppendFacts ==
  ASSUME NEW s \in Seq(Message), NEW m \in Message
  PROVE  /\ Append(s, m) \in Seq(Message) /\ Append(s, m) # << >>
         /\ Len(Append(s, m)) = Len(s) + 1 /\ Len(s) \in Nat
         /\ DOMAIN Append(s, m) = 1..(Len(s) + 1) /\ DOMAIN s = 1..Len(s)
         /\ \A i \in 1..Len(s) : Append(s, m)[i] = s[i]
         /\ Append(s, m)[Len(s) + 1] = m
BY AppendProperties, LenProperties

\* A use that has all its results has them still, whatever comes behind.
LEMMA AppendKeeps ==
  ASSUME NEW s \in Seq(Message), NEW m \in Message, NEW open \in Nat, Sound(s, open)
  PROVE  /\ \A i \in 1..Len(s) : s[i][1] = "result" => Belongs(Append(s, m), i)
         /\ \A i \in 1..Len(s) : s[i][1] = "uses" /\ i + s[i][2] <= Len(s) =>
              \A k \in 1..s[i][2] : Append(s, m)[i + k] = <<"result", s[i][2] - k + 1>>
<1>1. ASSUME NEW i \in 1..Len(s), s[i][1] = "result" PROVE Belongs(Append(s, m), i)
  <2>1. Belongs(s, i)
    BY <1>1, AppendFacts DEF Sound
  <2>2. QED
    BY <2>1, AppendFacts DEF Belongs
<1>2. ASSUME NEW i \in 1..Len(s), s[i][1] = "uses", i + s[i][2] <= Len(s), NEW k \in 1..s[i][2]
      PROVE  Append(s, m)[i + k] = <<"result", s[i][2] - k + 1>>
  <2>1. s[i][2] \in Nat
    BY <1>2, MessageFacts, ElementOfSeq
  <2>2. i + k \in 1..Len(s)
    BY <1>2, <2>1, AppendFacts
  <2>3. s[i + k] = <<"result", s[i][2] - k + 1>>
    BY <1>2, <2>2, AppendFacts DEF Sound, Uses
  <2>4. QED
    BY <2>2, <2>3, AppendFacts
<1>3. QED
  BY <1>1, <1>2

\* A text or a user message behind uses that have their results.
LEMMA AppendOther ==
  ASSUME NEW s \in Seq(Message), Sound(s, 0), NEW m \in {<<"user">>, <<"said">>}
  PROVE  Sound(Append(s, m), 0)
<1>1. m \in Message /\ m[1] \notin {"uses", "result"}
  BY DEF Message
<1>2. ASSUME NEW i \in 1..(Len(s) + 1), Append(s, m)[i][1] = "uses"
      PROVE  /\ i + Append(s, m)[i][2] <= Len(s) + 1
             /\ \A k \in 1..Append(s, m)[i][2] :
                  Append(s, m)[i + k] = <<"result", Append(s, m)[i][2] - k + 1>>
  <2>1. i \in 1..Len(s) /\ Append(s, m)[i] = s[i]
    BY <1>1, <1>2, AppendFacts
  <2>2. s[i][2] \in Nat
    BY <1>2, <2>1, MessageFacts, ElementOfSeq
  <2>3. i + s[i][2] <= Len(s)
    BY <1>2, <2>1, <2>2, AppendFacts DEF Sound, Uses
  <2>4. QED
    BY <1>1, <1>2, <2>1, <2>2, <2>3, AppendKeeps, AppendFacts
<1>3. Uses(Append(s, m), 0)
  <2>1. DOMAIN Append(s, m) = 1..(Len(s) + 1) /\ Len(Append(s, m)) = Len(s) + 1
    BY <1>1, AppendFacts
  <2>2. ASSUME NEW i \in DOMAIN Append(s, m), Append(s, m)[i][1] = "uses"
        PROVE  /\ i + Append(s, m)[i][2] <= Len(Append(s, m))
               /\ \A k \in 1..Append(s, m)[i][2] :
                    Append(s, m)[i + k] = <<"result", Append(s, m)[i][2] - k + 1>>
    BY ONLY <1>2, <2>1, <2>2
  <2>3. QED
    BY <2>2 DEF Uses
<1>4. ASSUME NEW i \in 1..(Len(s) + 1), Append(s, m)[i][1] = "result" PROVE Belongs(Append(s, m), i)
  BY <1>1, <1>4, AppendFacts, AppendKeeps
<1>5. QED
  BY <1>1, <1>3, <1>4, AppendFacts DEF Sound

\* Calls of tools, whose results are all to come.
LEMMA AppendUses ==
  ASSUME NEW s \in Seq(Message), Sound(s, 0), NEW n \in Nat
  PROVE  Sound(Append(s, <<"uses", n>>), n)
<1> DEFINE m == <<"uses", n>>
           t == Append(s, m)
<1>1. m \in Message /\ m[1] = "uses" /\ m[2] = n
  BY DEF Message
<1> HIDE DEF m
<1>2. /\ t \in Seq(Message) /\ t # << >> /\ Len(t) = Len(s) + 1 /\ Len(s) \in Nat
      /\ DOMAIN t = 1..(Len(s) + 1) /\ t[Len(s) + 1] = m /\ \A i \in 1..Len(s) : t[i] = s[i]
  BY <1>1, AppendFacts
<1>3. /\ \A i \in 1..Len(s) : s[i][1] = "result" => Belongs(t, i)
      /\ \A i \in 1..Len(s) : s[i][1] = "uses" /\ i + s[i][2] <= Len(s) =>
           \A k \in 1..s[i][2] : t[i + k] = <<"result", s[i][2] - k + 1>>
  BY <1>1, AppendKeeps
<1> HIDE DEF t
<1>4. ASSUME NEW i \in 1..Len(s), t[i][1] = "uses"
      PROVE  /\ i + t[i][2] <= Len(t)
             /\ \A k \in 1..t[i][2] : t[i + k] = <<"result", t[i][2] - k + 1>>
  <2>1. t[i] = s[i] /\ s[i][2] \in Nat
    BY <1>2, <1>4, MessageFacts, ElementOfSeq
  <2>2. i + s[i][2] <= Len(s)
    BY <1>2, <1>4, <2>1, LenProperties DEF Sound, Uses
  <2>3. QED
    BY <1>2, <1>3, <1>4, <2>1, <2>2
<1>5. Uses(t, n)
  <2> SUFFICES ASSUME NEW i \in 1..(Len(s) + 1), t[i][1] = "uses"
               PROVE  /\ i + t[i][2] <= Len(t) \/ i + t[i][2] = Len(t) + n
                      /\ \A k \in 1..t[i][2] : i + k <= Len(t) => t[i + k] = <<"result", t[i][2] - k + 1>>
    BY <1>2 DEF Uses
  <2>1. CASE i \in 1..Len(s)
    BY <1>4, <2>1
  <2>2. CASE i = Len(s) + 1
    BY <1>1, <1>2, <2>2
  <2>3. QED
    BY <1>2, <2>1, <2>2
<1>6. \A i \in DOMAIN t : t[i][1] = "result" => Belongs(t, i)
  BY <1>1, <1>2, <1>3
<1>7. EndsWith(t, {"uses", "result"})
  BY <1>1, <1>2 DEF EndsWith
<1>8. Sound(t, n)
  BY <1>5, <1>6, <1>7 DEF Sound
<1>9. QED
  BY <1>8 DEF t, m

\* The next of the results that are to come.
LEMMA AppendResult ==
  ASSUME NEW s \in Seq(Message), NEW open \in Nat, open > 0, Sound(s, open)
  PROVE  Sound(Append(s, <<"result", open>>), open - 1)
<1> DEFINE m == <<"result", open>>
           t == Append(s, m)
<1>1. m \in Message /\ m[1] = "result"
  BY DEF Message
<1>2. /\ t \in Seq(Message) /\ t # << >> /\ Len(t) = Len(s) + 1 /\ Len(s) \in Nat
      /\ DOMAIN t = 1..(Len(s) + 1) /\ t[Len(s) + 1] = m /\ \A i \in 1..Len(s) : t[i] = s[i]
  BY <1>1, AppendFacts
<1>3. /\ \A i \in 1..Len(s) : s[i][1] = "result" => Belongs(t, i)
      /\ \A i \in 1..Len(s) : s[i][1] = "uses" /\ i + s[i][2] <= Len(s) =>
           \A k \in 1..s[i][2] : t[i + k] = <<"result", s[i][2] - k + 1>>
  BY <1>1, AppendKeeps
<1> HIDE DEF t
<1>4. ASSUME NEW i \in 1..Len(s), t[i][1] = "uses"
      PROVE  /\ i + t[i][2] <= Len(t) \/ i + t[i][2] = Len(t) + (open - 1)
             /\ \A k \in 1..t[i][2] : i + k <= Len(t) => t[i + k] = <<"result", t[i][2] - k + 1>>
  <2>1. t[i] = s[i] /\ s[i][2] \in Nat
    BY <1>2, <1>4, MessageFacts, ElementOfSeq
  <2> DEFINE n == s[i][2]
  <2>2. /\ i + n <= Len(s) \/ i + n = Len(s) + open
        /\ \A k \in 1..n : i + k <= Len(s) => s[i + k] = <<"result", n - k + 1>>
    BY <1>2, <1>4, <2>1, LenProperties DEF Sound, Uses
  <2>3. n \in Nat
    BY <2>1
  <2>4. CASE i + n <= Len(s)
    <3>1. \A k \in 1..n : t[i + k] = <<"result", n - k + 1>>
      BY <1>2, <1>3, <1>4, <2>1, <2>4
    <3> HIDE DEF n
    <3>2. i + n <= Len(t)
      BY <1>2, <2>3, <2>4
    <3>3. QED
      BY <2>1, <3>1, <3>2 DEF n
  <2>5. CASE i + n = Len(s) + open
    <3> HIDE DEF n
    <3>1. i + n = Len(t) + (open - 1)
      <4>1. Len(t) = Len(s) + 1 /\ Len(s) \in Nat
        BY <1>2
      <4>2. QED
        BY <2>3, <2>5, <4>1
    <3>2. ASSUME NEW k \in 1..n, i + k <= Len(t) PROVE t[i + k] = <<"result", n - k + 1>>
      <4>1. CASE i + k = Len(s) + 1
        <5>1. n - k + 1 = open
          <6>1. Len(s) \in Nat /\ i \in Nat /\ k \in Nat
            BY <1>2, <2>3
          <6>2. QED
            BY <2>3, <2>5, <4>1, <6>1
        <5>2. QED
          BY <1>2, <4>1, <5>1 DEF m
      <4>2. CASE i + k # Len(s) + 1
        <5>1. i + k \in 1..Len(s)
          BY <1>2, <2>3, <3>2, <4>2
        <5>2. QED
          BY <1>2, <2>2, <5>1
      <4>3. QED
        BY <4>1, <4>2
    <3>3. QED
      BY <2>1, <3>1, <3>2 DEF n
  <2>6. QED
    BY <2>2, <2>4, <2>5
<1>5. Uses(t, open - 1)
  <2> SUFFICES ASSUME NEW i \in 1..(Len(s) + 1), t[i][1] = "uses"
               PROVE  /\ i + t[i][2] <= Len(t) \/ i + t[i][2] = Len(t) + (open - 1)
                      /\ \A k \in 1..t[i][2] : i + k <= Len(t) => t[i + k] = <<"result", t[i][2] - k + 1>>
    BY <1>2 DEF Uses
  <2>1. i \in 1..Len(s)
    BY <1>1, <1>2
  <2>2. QED
    BY <1>4, <2>1
<1>6. Belongs(t, Len(s) + 1)
  <2>1. s # << >> /\ s[Len(s)][1] \in {"uses", "result"} /\ Len(s) > 0
    BY <1>2 DEF Sound, EndsWith
  <2>2. CASE s[Len(s)][1] = "uses"
    <3>1. Len(s) \in 0..Len(s) /\ Len(s) # 0 /\ t[Len(s)][1] = "uses"
      BY <1>2, <2>1, <2>2
    <3>2. \A k \in (Len(s) + 1)..(Len(s) + 1) : t[k][1] = "result"
      BY <1>1, <1>2
    <3>3. QED
      BY <1>2, <3>1, <3>2 DEF Belongs
  <2>3. CASE s[Len(s)][1] = "result"
    <3>1. Belongs(t, Len(s))
      BY <1>2, <1>3, <2>1, <2>3
    <3>2. PICK j \in 0..(Len(s) - 1) :
            IF j = 0 THEN \A k \in 1..Len(s) : t[k][1] = "result"
            ELSE t[j][1] = "uses" /\ \A k \in (j + 1)..Len(s) : t[k][1] = "result"
      BY <3>1 DEF Belongs
    <3>3. \A k \in 1..(Len(s) + 1) : k \in 1..Len(s) \/ t[k][1] = "result"
      BY <1>1, <1>2
    <3>4. j \in 0..Len(s) /\ (IF j = 0 THEN \A k \in 1..(Len(s) + 1) : t[k][1] = "result"
            ELSE t[j][1] = "uses" /\ \A k \in (j + 1)..(Len(s) + 1) : t[k][1] = "result")
      BY <1>2, <2>1, <3>2, <3>3
    <3>5. QED
      BY <1>2, <3>4 DEF Belongs
  <2>4. QED
    BY <2>1, <2>2, <2>3
<1>7. \A i \in DOMAIN t : t[i][1] = "result" => Belongs(t, i)
  BY <1>2, <1>3, <1>6
<1>8. EndsWith(t, {"uses", "result"})
  BY <1>1, <1>2 DEF EndsWith
<1>9. Sound(t, open - 1)
  BY <1>5, <1>7, <1>8 DEF Sound
<1>10. QED
  BY <1>9 DEF t, m

LEMMA DoubledFinite ==
  ASSUME NEW s \in Seq(Message)
  PROVE  IsFiniteSet(Doubled(s)) /\ Cardinality(Doubled(s)) \in Nat
<1>1. Len(s) - 1 \in Int /\ 1 \in Int
  BY LenProperties
<1>2. IsFiniteSet(1..(Len(s) - 1))
  BY <1>1, FS_Interval
<1>3. Doubled(s) \in SUBSET (1..(Len(s) - 1))
  BY DEF Doubled
<1>4. QED
  BY <1>2, <1>3, FS_Subset, FS_CardinalityType

\* What the window leaves has no more of them.
LEMMA SuffixDoubled ==
  ASSUME NEW s \in Seq(Message), NEW t, NEW d \in Nat, Suffix(t, s, d)
  PROVE  Cardinality(Doubled(t)) <= Cardinality(Doubled(s))
<1> DEFINE f == [i \in Doubled(t) |-> i + d]
<1>1. /\ Len(t) \in Nat /\ Len(s) \in Nat /\ Len(s) = Len(t) + d
      /\ \A i \in 1..Len(t) : t[i] = s[i + d]
  BY LenProperties DEF Suffix
<1>2. ASSUME NEW i \in Doubled(t) PROVE i + d \in Doubled(s)
  <2>1. i \in 1..(Len(t) - 1) /\ t[i] = <<"user">> /\ t[i + 1] = <<"user">>
    BY DEF Doubled
  <2>2. i \in 1..Len(t) /\ i + 1 \in 1..Len(t) /\ i + d \in 1..(Len(s) - 1) /\ (i + 1) + d = (i + d) + 1
    BY <1>1, <2>1
  <2>3. s[i + d] = <<"user">> /\ s[(i + d) + 1] = <<"user">>
    BY <1>1, <2>1, <2>2
  <2>4. QED
    BY <2>2, <2>3 DEF Doubled
<1>3. Doubled(t) \subseteq Nat
  BY DEF Doubled
<1>4. f \in [Doubled(t) -> Doubled(s)]
  BY <1>2
<1>5. \A a, b \in Doubled(t) : f[a] = f[b] => a = b
  BY <1>3
<1>6. f \in Injection(Doubled(t), Doubled(s))
  BY <1>4, <1>5 DEF Injection, IsInjective
<1>7. QED
  BY <1>6, DoubledFinite, FS_Injection

\* Only a user message behind another adds to them.
LEMMA AppendDoubled ==
  ASSUME NEW s \in Seq(Message), NEW m \in Message
  PROVE  Cardinality(Doubled(Append(s, m)))
           <= Cardinality(Doubled(s)) + (IF m[1] = "user" /\ EndsWith(s, {"user"}) THEN 1 ELSE 0)
<1>1. Doubled(Append(s, m)) \subseteq Doubled(s) \cup {Len(s)}
  <2> SUFFICES ASSUME NEW i \in Doubled(Append(s, m)), i # Len(s) PROVE i \in Doubled(s)
    OBVIOUS
  <2>1. i \in 1..(Len(s) - 1) /\ Len(s) \in Nat
    BY AppendFacts DEF Doubled
  <2>2. Append(s, m)[i] = s[i] /\ Append(s, m)[i + 1] = s[i + 1]
    BY <2>1, AppendFacts
  <2>3. QED
    BY <2>1, <2>2 DEF Doubled
<1>2. Len(s) \in Doubled(Append(s, m)) => m[1] = "user" /\ EndsWith(s, {"user"})
  <2> SUFFICES ASSUME Len(s) \in Doubled(Append(s, m)) PROVE m[1] = "user" /\ EndsWith(s, {"user"})
    OBVIOUS
  <2>1. Len(s) \in 1..Len(s) /\ Append(s, m)[Len(s)] = <<"user">> /\ Append(s, m)[Len(s) + 1] = <<"user">>
    BY AppendFacts DEF Doubled
  <2>a. Append(s, m)[Len(s)] = s[Len(s)] /\ Append(s, m)[Len(s) + 1] = m
    BY <2>1, AppendFacts
  <2>b. s # << >>
    BY <2>1
  <2>2. m = <<"user">> /\ s[Len(s)] = <<"user">> /\ s # << >>
    BY <2>1, <2>a, <2>b
  <2>3. QED
    BY <2>2 DEF EndsWith
<1>3. CASE m[1] = "user" /\ EndsWith(s, {"user"})
  <2>1. /\ IsFiniteSet(Doubled(s) \cup {Len(s)})
        /\ Cardinality(Doubled(s) \cup {Len(s)}) <= Cardinality(Doubled(s)) + 1
    BY DoubledFinite, FS_AddElement
  <2>2. Cardinality(Doubled(Append(s, m))) <= Cardinality(Doubled(s) \cup {Len(s)})
    BY <1>1, <2>1, FS_Subset
  <2>3. Cardinality(Doubled(s) \cup {Len(s)}) \in Nat /\ Cardinality(Doubled(s)) \in Nat
        /\ Cardinality(Doubled(Append(s, m))) \in Nat
    BY <2>1, DoubledFinite, AppendFacts, FS_CardinalityType
  <2>4. QED
    BY <1>3, <2>1, <2>2, <2>3
<1>4. CASE ~(m[1] = "user" /\ EndsWith(s, {"user"}))
  <2>1. Doubled(Append(s, m)) \in SUBSET Doubled(s)
    BY <1>1, <1>2, <1>4
  <2>2. Cardinality(Doubled(Append(s, m))) <= Cardinality(Doubled(s))
    BY <2>1, DoubledFinite, FS_Subset
  <2>3. Cardinality(Doubled(s)) \in Nat /\ Cardinality(Doubled(Append(s, m))) \in Nat
    BY DoubledFinite, AppendFacts
  <2>4. QED
    BY <1>4, <2>2, <2>3
<1>5. QED
  BY <1>3, <1>4

-----------------------------------------------------------------------------
(* Types. *)

PCs == {"idle", "round", "calling", "tool", "ready", "running", "waiting", "ended"}
InTools == {"tool", "ready", "running", "waiting"}
Call == [state : {"idle", "trying", "answered", "failed"}, model : Nat, attempt : Nat]
Tools == UNION {ToSet(a.calls) : a \in Answers \cup BossAnswers}
Job == [stage : Nat, input : {"client"} \cup Workers, results : Seq(Workers),
        ended : {"no", "ok", "err"}]

TypeInv ==
  /\ setup \in [mode : Modes, window : Windows]
  /\ llm \in [Callers -> Call]
  /\ conv \in [Callers -> Seq(Message)]
  /\ pc \in [Workers -> PCs]
  /\ todo \in [Callers -> Seq(Tools)]
  /\ outcome \in [Workers -> {"none", "ok", "err"}]
  /\ used \in [tokens : Nat, calls : Nat]
  /\ DOMAIN asker = Workers /\ asker = [c \in Workers |-> asker[c]]
  /\ alive \in [Workers -> BOOLEAN]
  /\ unheard \in [Callers -> Nat]
  /\ job \in Job

LEMMA CallsTyped == \A a \in Answers \cup BossAnswers : a.calls \in Seq(Tools)
<1> SUFFICES ASSUME NEW a \in Answers \cup BossAnswers PROVE a.calls \in Seq(Tools)
  OBVIOUS
<1>1. a.calls \in Seq(ToSet(a.calls))
  BY AgentTurnAssumption, OrchestrationAssumption
<1>2. ToSet(a.calls) \subseteq Tools
  BY DEF Tools
<1>3. QED
  BY <1>1, <1>2, SeqMonotonic

\* A message put behind a conversation, and what the window leaves of both.
LEMMA PushFacts ==
  ASSUME TypeInv, NEW c \in Callers, NEW m \in Message
  PROVE  \E d \in Nat : Suffix(Push(c, m), Append(conv[c], m), d) /\ (setup.window = 0 => d = 0)
<1>1. Append(conv[c], m) \in Seq(Message)
  BY AppendFacts DEF TypeInv
<1>2. QED
  BY <1>1, CompactCuts DEF TypeInv, Push

LEMMA PushType ==
  ASSUME TypeInv, NEW c \in Callers, NEW m \in Message PROVE Push(c, m) \in Seq(Message)
BY PushFacts DEF Suffix

LEMMA NextTypes ==
  ASSUME NEW call \in Call PROVE NextTry(call) \in Call /\ NextModel(call) \in Call
<1>1. call.model + 1 \in Nat /\ call.attempt + 1 \in Nat
  BY DEF Call
<1>2. [call EXCEPT !.model = @ + 1, !.attempt = 0] \in Call
  BY <1>1 DEF Call
<1>3. [call EXCEPT !.state = "failed"] \in Call
  BY DEF Call
<1>4. NextModel(call) \in Call
  BY <1>2, <1>3 DEF NextModel
<1>5. [call EXCEPT !.attempt = @ + 1] \in Call
  BY <1>1 DEF Call
<1>6. QED
  BY <1>4, <1>5 DEF NextTry

\* A result put behind a conversation, its call taken off the list.
LEMMA ResultTypes ==
  ASSUME TypeInv, NEW c \in Workers, NEW refused, todo[c] # << >>, AddResult(c, refused)
  PROVE  /\ conv' \in [Callers -> Seq(Message)]
         /\ todo' \in [Callers -> Seq(Tools)]
         /\ pc' \in [Workers -> PCs]
<1>1. c \in Callers /\ todo[c] \in Seq(Tools)
  BY DEF Callers, TypeInv
<1>2. Len(todo[c]) \in Nat /\ Tail(todo[c]) \in Seq(Tools)
  BY <1>1
<1>3. <<"result", Len(todo[c])>> \in Message
  BY <1>2 DEF Message
<1>4. Push(c, <<"result", Len(todo[c])>>) \in Seq(Message)
  BY <1>1, <1>3, PushType
<1>5. conv' = [conv EXCEPT ![c] = Push(c, <<"result", Len(todo[c])>>)]
  BY DEF AddResult, Result
<1>6. conv' \in [Callers -> Seq(Message)]
  BY <1>4, <1>5 DEF TypeInv
<1>7. todo' \in [Callers -> Seq(Tools)]
  BY <1>2 DEF AddResult, TypeInv
<1>8. pc' \in [Workers -> PCs]
  BY DEF AddResult, TypeInv, PCs
<1>9. QED
  BY <1>6, <1>7, <1>8

-----------------------------------------------------------------------------
(* The invariants. *)

\* Where a turn stands says whether it has calls to make and a call under way;
\* an orchestration runs without mailboxes.
CourseInv ==
  /\ setup.mode # "mailbox" => \A c \in Workers : ~alive[c]
  /\ \A c \in Workers :
       /\ todo[c] # << >> <=> pc[c] \in InTools
       /\ llm[c].state # "idle" <=> pc[c] = "calling"
       /\ pc[c] = "ended" => outcome[c] # "none"

\* The agents of a chain before the stage have answered, those behind are idle.
ChainInv ==
  setup.mode = "chain" =>
    /\ job.stage <= Len(Order)
    /\ \A i \in DOMAIN Order : /\ i > job.stage => pc[Order[i]] = "idle"
                               /\ i <= job.stage => asker[Order[i]] = Fed(i)
                               /\ i < job.stage => pc[Order[i]] = "ended" /\ outcome[Order[i]] = "ok"
    /\ job.ended # "no" => StageEnded
    /\ job.ended = "ok" => /\ job.stage = Len(Order) /\ outcome[Order[job.stage]] = "ok"
                           /\ job.input = Order[job.stage]

\* The results of parallel agents are those of the first in the list; they are
\* merged when all are there.
ParallelInv ==
  setup.mode = "parallel" =>
    /\ Len(job.results) <= Len(Order)
    /\ \A i \in 1..Len(job.results) : job.results[i] = Order[i] /\ pc[Order[i]] = "ended"
    /\ job.stage = 0 => job.results = << >> /\ \A c \in Workers : pc[c] = "idle"
    /\ job.ended # "no" \/ ~BossIsIdle => Len(job.results) = Len(Order)

\* Every conversation holds together, what is still to come excepted.
SoundInv == \A c \in Callers : Sound(conv[c], Len(todo[c]))

\* Only the window leaves a result in front.
UncutInv ==
  \A c \in Callers : (setup.window = 0 \/ c = Boss) /\ conv[c] # << >> => conv[c][1][1] # "result"

\* What the model is asked next ends with something to answer.
AskInv == \A c \in Workers : pc[c] \in {"round", "calling"} => EndsWith(conv[c], {"user", "result"})

\* A user message without an answer is counted when the turn is over.
UserInv ==
  \A c \in Workers :
    Cardinality(Doubled(conv[c])) +
      (IF pc[c] \in {"idle", "ended"} /\ EndsWith(conv[c], {"user"}) THEN 1 ELSE 0) <= unheard[c]

\* The Boss asks for one thing, and has calls to make only between two answers.
BossInv ==
  /\ \A i \in 2..Len(conv[Boss]) : conv[Boss][i] # <<"user">>
  /\ BossHas("trying") => EndsWith(conv[Boss], {"user", "result"})
  /\ ~BossIsIdle => todo[Boss] = << >>
  /\ setup.mode # "supervisor" => todo[Boss] = << >>
  /\ setup.mode = "supervisor" =>
       /\ job.stage = 0 => conv[Boss] = << >> /\ todo[Boss] = << >> /\ BossIsIdle
       /\ todo[Boss] = << >> /\ job.stage > 0 => EndsWith(conv[Boss], {"user", "result"})

IInv ==
  /\ TypeInv /\ CourseInv /\ ChainInv /\ ParallelInv
  /\ SoundInv /\ UncutInv /\ AskInv /\ UserInv /\ BossInv
  /\ BudgetOverrunIsBounded

-----------------------------------------------------------------------------
(* Types and places. *)

\* The types are kept.
LEMMA TypeStep == IInv /\ [Next]_vars => TypeInv'
<1> SUFFICES ASSUME TypeInv, CourseInv, ChainInv, [Next]_vars PROVE TypeInv'
  BY DEF IInv
<1>m. /\ \A n \in Nat : <<"uses", n>> \in Message /\ <<"result", n>> \in Message
      /\ <<"user">> \in Message /\ <<"said">> \in Message
      /\ << >> \in Seq(Message) /\ << <<"user">> >> \in Seq(Message)
      /\ \A s \in Seq(Message), m \in Message : Append(s, m) \in Seq(Message)
  BY AppendProperties DEF Message
<1>t. /\ setup \in [mode : Modes, window : Windows]
      /\ llm \in [Callers -> Call] /\ conv \in [Callers -> Seq(Message)]
      /\ pc \in [Workers -> PCs] /\ todo \in [Callers -> Seq(Tools)]
      /\ outcome \in [Workers -> {"none", "ok", "err"}]
      /\ used \in [tokens : Nat, calls : Nat]
      /\ DOMAIN asker = Workers /\ asker = [c \in Workers |-> asker[c]]
      /\ alive \in [Workers -> BOOLEAN] /\ unheard \in [Callers -> Nat]
      /\ job \in Job
  BY DEF TypeInv
<1>w. Workers \subseteq Callers /\ Boss \in Callers
  BY DEF Callers
<1>c. NoCall \in Call /\ Asked \in Call
  BY DEF NoCall, Asked, Call
<1>u. \A what \in {"tokens", "calls"} : Charge(what) \in [tokens : Nat, calls : Nat]
  BY <1>t DEF Charge
<1>l. \A c \in Callers : Len(todo[c]) \in Nat /\ (todo[c] # << >> => Tail(todo[c]) \in Seq(Tools))
  BY <1>t
<1>j. /\ job.stage \in Nat /\ job.results \in Seq(Workers)
      /\ \A i \in DOMAIN Order : Order[i] \in Workers
      /\ Len(Order) \in Nat /\ DOMAIN Order = 1..Len(Order)
  BY <1>t, OrchestrationAssumption DEF Job
<1>s. \A n \in Nat, from \in {"client"} \cup Workers :
        [job EXCEPT !.stage = n] \in Job /\ [job EXCEPT !.stage = n, !.input = from] \in Job
  BY <1>t DEF Job
<1>e. \A how \in {"ok", "err"}, from \in {"client"} \cup Workers :
        [job EXCEPT !.ended = how] \in Job /\ [job EXCEPT !.ended = how, !.input = from] \in Job
  BY <1>t DEF Job
<1>1. ASSUME NEW c \in Callers, Attempt(c), UNCHANGED job PROVE TypeInv'
  <2>1. PICK next \in {[llm[c] EXCEPT !.state = "answered"], [llm[c] EXCEPT !.state = "failed"],
                       NextTry(llm[c]), NextModel(llm[c])} : llm' = [llm EXCEPT ![c] = next]
    BY <1>1 DEF Attempt
  <2>2. llm[c] \in Call
    BY <1>t
  <2>3. [llm[c] EXCEPT !.state = "answered"] \in Call /\ [llm[c] EXCEPT !.state = "failed"] \in Call
    BY <2>2 DEF Call
  <2>4. next \in Call
    BY <2>1, <2>2, <2>3, NextTypes
  <2>5. llm' \in [Callers -> Call]
    BY <1>t, <2>1, <2>4
  <2>6. QED
    BY <1>1, <1>t, <2>5 DEF Attempt, TypeInv
<1>2. ASSUME NEW c \in Workers, TakeMessage(c), UNCHANGED job PROVE TypeInv'
  <2>1. conv' \in [Callers -> Seq(Message)]
    BY <1>2, <1>t, <1>w, <1>m DEF TakeMessage, StartTurn
  <2>2. pc' \in [Workers -> PCs]
    BY <1>2, <1>t DEF TakeMessage, StartTurn, PCs
  <2>3. DOMAIN asker' = Workers /\ asker' = [d \in Workers |-> asker'[d]]
    BY <1>2, <1>t DEF TakeMessage
  <2>4. QED
    BY <1>2, <1>t, <2>1, <2>2, <2>3 DEF TakeMessage, TypeInv
<1>3. ASSUME NEW c \in Workers, Respond(c), UNCHANGED job PROVE TypeInv'
  <2>2. pc' \in [Workers -> PCs]
    BY <1>3, <1>t DEF Respond, PCs
  <2>3. DOMAIN asker' = Workers /\ asker' = [d \in Workers |-> asker'[d]]
    BY <1>3, <1>t DEF Respond
  <2>4. QED
    BY <1>3, <1>t, <2>2, <2>3 DEF Respond, TypeInv
<1>4. ASSUME NEW c \in Workers, BeginRound(c), UNCHANGED job PROVE TypeInv'
  <2>1. conv[c] \in Seq(Message)
    BY <1>t, <1>w
  <2>2. Compact(conv[c]) \in Seq(Message)
    BY <1>t, <2>1, CompactCuts DEF Suffix
  <2>3. conv' \in [Callers -> Seq(Message)]
    BY <1>4, <1>t, <1>w, <2>1, <2>2 DEF BeginRound
  <2>4. CASE round[c] < MaxRounds /\ LlmBudgetLeft
    <3>a. llm' = [llm EXCEPT ![c] = Asked] /\ pc' = [pc EXCEPT ![c] = "calling"]
      BY <1>4, <2>4 DEF BeginRound
    <3>1. llm' \in [Callers -> Call] /\ pc' \in [Workers -> PCs]
      BY <1>t, <1>c, <3>a DEF PCs
    <3>2. UNCHANGED <<outcome, unheard>>
      BY <1>4, <2>4 DEF BeginRound
    <3>3. QED
      BY <1>4, <1>t, <2>3, <3>1, <3>2 DEF BeginRound, TypeInv
  <2>5. CASE ~(round[c] < MaxRounds /\ LlmBudgetLeft)
    <3>1. End(c, "err") /\ unheard' = [unheard EXCEPT ![c] = @ + 1] /\ UNCHANGED llm
      BY <1>4, <2>5 DEF BeginRound
    <3>2. pc' \in [Workers -> PCs] /\ outcome' \in [Workers -> {"none", "ok", "err"}]
      BY <1>t, <3>1 DEF End, PCs
    <3>3. unheard' \in [Callers -> Nat]
      BY <1>t, <1>w, <3>1
    <3>4. QED
      BY <1>4, <1>t, <2>3, <3>1, <3>2, <3>3 DEF BeginRound, TypeInv
  <2>6. QED
    BY <2>4, <2>5
<1>5. ASSUME NEW c \in Workers, TakeAnswer(c), UNCHANGED job PROVE TypeInv'
  <2>1. llm' \in [Callers -> Call] /\ used' \in [tokens : Nat, calls : Nat]
    BY <1>5, <1>t, <1>c, <1>u DEF TakeAnswer
  <2>2. PICK a \in Answers :
          IF a.calls = << >>
          THEN /\ conv' = [conv EXCEPT ![c] = IF a.text THEN Push(c, <<"said">>) ELSE @]
               /\ unheard' = [unheard EXCEPT ![c] = IF a.text THEN @ ELSE @ + 1]
               /\ End(c, "ok")
               /\ UNCHANGED todo
          ELSE /\ conv' = [conv EXCEPT ![c] = Push(c, <<"uses", Len(a.calls)>>)]
               /\ todo' = [todo EXCEPT ![c] = a.calls]
               /\ pc' = [pc EXCEPT ![c] = "tool"]
               /\ UNCHANGED <<outcome, unheard>>
    BY <1>5 DEF TakeAnswer
  <2>3. a.calls \in Seq(Tools)
    BY CallsTyped
  <2>4. /\ Len(a.calls) \in Nat /\ c \in Callers
        /\ conv[c] \in Seq(Message) /\ unheard[c] \in Nat /\ unheard[c] + 1 \in Nat
    BY <2>3, <1>t, <1>w
  <2>5. Push(c, <<"said">>) \in Seq(Message) /\ Push(c, <<"uses", Len(a.calls)>>) \in Seq(Message)
    BY <2>4, <1>m, PushType
  <2>6. conv' \in [Callers -> Seq(Message)]
    <3>1. CASE a.calls = << >> /\ a.text
      BY <1>t, <2>2, <2>5, <3>1
    <3>2. CASE a.calls = << >> /\ ~a.text
      BY <1>t, <2>2, <2>4, <3>2
    <3>3. CASE a.calls # << >>
      BY <1>t, <2>2, <2>5, <3>3
    <3>4. QED
      BY <3>1, <3>2, <3>3
  <2>7. pc' \in [Workers -> PCs] /\ outcome' \in [Workers -> {"none", "ok", "err"}]
    BY <1>t, <2>2, ZenonT(30) DEF End, PCs
  <2>8. unheard' \in [Callers -> Nat]
    <3>1. CASE a.calls = << >> /\ a.text
      BY <1>t, <2>2, <2>4, <3>1
    <3>2. CASE a.calls = << >> /\ ~a.text
      BY <1>t, <2>2, <2>4, <3>2
    <3>3. CASE a.calls # << >>
      BY <1>t, <2>2, <3>3
    <3>4. QED
      BY <3>1, <3>2, <3>3
  <2>9. todo' \in [Callers -> Seq(Tools)]
    BY <1>t, <2>2, <2>3
  <2>10. QED
    BY <1>5, <1>t, <2>1, <2>6, <2>7, <2>8, <2>9 DEF TakeAnswer, TypeInv
<1>6. ASSUME NEW c \in Workers, LlmFails(c), UNCHANGED job PROVE TypeInv'
  <2>1. llm' \in [Callers -> Call] /\ unheard' \in [Callers -> Nat]
    BY <1>6, <1>t, <1>c, <1>w DEF LlmFails
  <2>2. pc' \in [Workers -> PCs] /\ outcome' \in [Workers -> {"none", "ok", "err"}]
    BY <1>6, <1>t DEF LlmFails, End, PCs
  <2>3. QED
    BY <1>6, <1>t, <2>1, <2>2 DEF LlmFails, TypeInv
<1>7. ASSUME NEW c \in Workers, PrepareTool(c), UNCHANGED job PROVE TypeInv'
  <2>1. todo[c] # << >>
    BY <1>7 DEF PrepareTool, CourseInv, InTools
  <2>2. CASE AddResult(c, TRUE)
    <3>1. /\ conv' \in [Callers -> Seq(Message)] /\ todo' \in [Callers -> Seq(Tools)]
          /\ pc' \in [Workers -> PCs]
      BY <2>1, <2>2, ResultTypes
    <3>2. QED
      BY <1>7, <1>t, <3>1 DEF PrepareTool, TypeInv
  <2>3. CASE pc' = [pc EXCEPT ![c] = "ready"] /\ UNCHANGED <<conv, todo>>
    <3>1. pc' \in [Workers -> PCs]
      BY <1>t, <2>3 DEF PCs
    <3>2. QED
      BY <1>7, <1>t, <2>3, <3>1 DEF PrepareTool, TypeInv
  <2>4. QED
    BY <1>7, <2>2, <2>3 DEF PrepareTool
<1>8. ASSUME NEW c \in Workers, RunTool(c), UNCHANGED job PROVE TypeInv'
  <2>1. used' \in [tokens : Nat, calls : Nat]
    BY <1>8, <1>u DEF RunTool
  <2>2. pc' \in [Workers -> PCs]
    <3>1. \E where \in {"waiting", "running"} : pc' = [pc EXCEPT ![c] = where]
      BY <1>8 DEF RunTool
    <3>2. QED
      BY <1>t, <3>1 DEF PCs
  <2>3. QED
    BY <1>8, <1>t, <2>1, <2>2 DEF RunTool, TypeInv
<1>9. ASSUME NEW c \in Workers, ToolEnds(c) \/ ReplyComes(c), UNCHANGED job PROVE TypeInv'
  <2>1. todo[c] # << >>
    BY <1>9 DEF ToolEnds, ReplyComes, CourseInv, InTools
  <2>2. AddResult(c, FALSE)
    BY <1>9 DEF ToolEnds, ReplyComes
  <2>3. /\ conv' \in [Callers -> Seq(Message)] /\ todo' \in [Callers -> Seq(Tools)]
        /\ pc' \in [Workers -> PCs]
    BY <2>1, <2>2, ResultTypes
  <2>4. UNCHANGED <<setup, llm, outcome, used, asker, alive, unheard, job>>
    BY <1>9 DEF ToolEnds, ReplyComes
  <2>5. QED
    BY <1>t, <2>3, <2>4 DEF TypeInv
<1>10. ASSUME NEW c \in Workers, ClientSends(c) \/ RestartMailbox(c) \/ StopMailbox(c), UNCHANGED job
       PROVE  TypeInv'
  <2>1. conv' \in [Callers -> Seq(Message)]
    BY <1>10, <1>t, <1>m DEF ClientSends, RestartMailbox, StopMailbox
  <2>2. unheard' \in [Callers -> Nat] /\ alive' \in [Workers -> BOOLEAN]
    <3>1. CASE ClientSends(c)
      BY <3>1, <1>t DEF ClientSends
    <3>2. CASE RestartMailbox(c)
      BY <3>2, <1>t DEF RestartMailbox
    <3>3. CASE StopMailbox(c)
      BY <3>3, <1>t DEF StopMailbox
    <3>4. QED
      BY <1>10, <3>1, <3>2, <3>3
  <2>3. UNCHANGED <<setup, llm, pc, todo, outcome, used, asker, job>>
    BY <1>10 DEF ClientSends, RestartMailbox, StopMailbox
  <2>4. QED
    BY <1>t, <2>1, <2>2, <2>3 DEF TypeInv
<1>r. ASSUME NEW c \in Workers, NEW input, RunAgent(c, input)
      PROVE  /\ conv' \in [Callers -> Seq(Message)] /\ pc' \in [Workers -> PCs]
             /\ DOMAIN asker' = Workers /\ asker' = [d \in Workers |-> asker'[d]]
             /\ unheard' \in [Callers -> Nat]
  <2>1. conv' \in [Callers -> Seq(Message)]
    BY <1>r, <1>t, <1>m DEF RunAgent
  <2>2. pc' \in [Workers -> PCs] /\ unheard' \in [Callers -> Nat]
    BY <1>r, <1>t DEF RunAgent, PCs
  <2>3. DOMAIN asker' = Workers /\ asker' = [d \in Workers |-> asker'[d]]
    BY <1>r, <1>t DEF RunAgent
  <2>4. QED
    BY <2>1, <2>2, <2>3
<1>11. ASSUME ChainRuns PROVE TypeInv'
  <2>1. job.stage + 1 \in DOMAIN Order /\ (job.stage # 0 => job.stage \in DOMAIN Order)
    BY <1>11, <1>j DEF ChainRuns
  <2>2. Fed(job.stage + 1) \in {"client"} \cup Workers
    BY <1>j, <2>1 DEF Fed, Feed
  <2>3. job' \in Job
    <3>1. job.stage + 1 \in Nat
      BY <1>j
    <3>2. job' = [job EXCEPT !.stage = job.stage + 1, !.input = Fed(job.stage + 1)]
      BY <1>11 DEF ChainRuns
    <3>3. QED
      BY <1>s, <2>2, <3>1, <3>2
  <2>4. /\ conv' \in [Callers -> Seq(Message)] /\ pc' \in [Workers -> PCs]
        /\ DOMAIN asker' = Workers /\ asker' = [d \in Workers |-> asker'[d]]
        /\ unheard' \in [Callers -> Nat]
    BY <1>11, <1>j, <1>r, <2>1 DEF ChainRuns
  <2>5. QED
    BY <1>11, <1>t, <2>3, <2>4 DEF ChainRuns, TurnsAlone, TypeInv
<1>12. ASSUME ChainEnds PROVE TypeInv'
  <2>1. job.stage \in DOMAIN Order
    BY <1>12, <1>j DEF ChainEnds, StageEnded, Running, ChainInv
  <2>2. Feed(Order[job.stage]) \in Workers
    BY <1>j, <2>1 DEF Feed
  <2>3. job' \in Job
    BY <1>12, <1>t, <1>j, <2>2 DEF ChainEnds, Job
  <2>4. QED
    BY <1>12, <1>t, <2>3 DEF ChainEnds, TurnsAlone, TypeInv
<1>13. ASSUME ParallelStarts PROVE TypeInv'
  <2>1. conv' \in [Callers -> Seq(Message)]
    BY <1>13, <1>t, <1>m DEF ParallelStarts
  <2>2. pc' \in [Workers -> PCs]
    BY <1>13, <1>t DEF ParallelStarts, PCs
  <2>3. DOMAIN asker' = Workers /\ asker' = [d \in Workers |-> asker'[d]]
    BY <1>13 DEF ParallelStarts
  <2>4. job' \in Job
    BY <1>13, <1>t, <1>j DEF ParallelStarts, Job
  <2>5. QED
    BY <1>13, <1>t, <2>1, <2>2, <2>3, <2>4 DEF ParallelStarts, TurnsAlone, TypeInv
<1>14. ASSUME ParallelCollects PROVE TypeInv'
  <2>1. Len(job.results) + 1 \in DOMAIN Order
    BY <1>14, <1>j DEF ParallelCollects
  <2>2. NextResult(job.results) \in Workers
    BY <1>j, <2>1 DEF NextResult
  <2>3. Append(job.results, NextResult(job.results)) \in Seq(Workers)
    BY <1>j, <2>2
  <2>4. job' \in Job
    BY <1>14, <1>t, <2>3 DEF ParallelCollects, Job
  <2>5. QED
    BY <1>14, <1>t, <2>4 DEF ParallelCollects, TurnsAlone, TypeInv
<1>15. ASSUME ParallelMerges \/ ParallelMerged \/ RouterAsks \/ RouterPicks PROVE TypeInv'
  <2>1. conv' \in [Callers -> Seq(Message)]
    BY <1>15, <1>t, <1>m DEF ParallelMerges, ParallelMerged, RouterAsks, RouterPicks
  <2>2. llm' \in [Callers -> Call]
    BY <1>15, <1>t, <1>c
    DEF ParallelMerges, ParallelMerged, RouterAsks, RouterPicks, AskBoss, BossDone
  <2>3. ASSUME NEW how \in {"ok", "err"}, job' = [job EXCEPT !.ended = how] PROVE job' \in Job
    BY <2>3, <1>e
  <2>4. ASSUME NEW i \in DOMAIN Order, job' = [job EXCEPT !.ended = "ok", !.results = <<Order[i]>>]
        PROVE  job' \in Job
    <3>1. <<Order[i]>> \in Seq(Workers)
      BY <1>j
    <3>2. QED
      BY <2>4, <3>1, <1>t DEF Job
  <2>5. job' \in Job
    <3>1. CASE RouterPicks
      <4>1. \/ job' = [job EXCEPT !.ended = "err"]
            \/ \E i \in DOMAIN Order : job' = [job EXCEPT !.ended = "ok", !.results = <<Order[i]>>]
        BY <3>1 DEF RouterPicks
      <4>2. QED
        BY <2>3, <2>4, <4>1
    <3>2. CASE ParallelMerges \/ ParallelMerged \/ RouterAsks
      <4>1. UNCHANGED job \/ \E how \in {"ok", "err"} : job' = [job EXCEPT !.ended = how]
        BY <3>2 DEF ParallelMerges, ParallelMerged, RouterAsks
      <4>2. QED
        BY <1>t, <2>3, <4>1
    <3>3. QED
      BY <1>15, <3>1, <3>2
  <2>6. UNCHANGED <<setup, pc, todo, outcome, used, asker, alive, unheard>>
    BY <1>15 DEF ParallelMerges, ParallelMerged, RouterAsks, RouterPicks, TurnsAlone
  <2>7. QED
    BY <1>t, <2>1, <2>2, <2>5, <2>6 DEF TypeInv
<1>16. ASSUME SupervisorAsks PROVE TypeInv'
  <2>1. conv' \in [Callers -> Seq(Message)]
    <3>1. Append(conv[Boss], <<"user">>) \in Seq(Message)
      BY <1>t, <1>m, <1>w
    <3>2. UNCHANGED conv \/ conv' = [conv EXCEPT ![Boss] = Append(conv[Boss], <<"user">>)]
      BY <1>16 DEF SupervisorAsks, BossPush
    <3>3. QED
      BY <1>t, <3>1, <3>2
  <2>2. llm' \in [Callers -> Call]
    BY <1>16, <1>t, <1>c DEF SupervisorAsks, AskBoss
  <2>3. job' \in Job
    <3>1. job' = [job EXCEPT !.ended = "err"] \/ job' = [job EXCEPT !.stage = job.stage + 1]
      BY <1>16 DEF SupervisorAsks
    <3>2. job.stage + 1 \in Nat
      BY <1>j
    <3>3. QED
      BY <1>s, <1>e, <3>1, <3>2
  <2>4. QED
    BY <1>16, <1>t, <2>1, <2>2, <2>3 DEF SupervisorAsks, TurnsAlone, TypeInv
<1>17. ASSUME SupervisorAnswered PROVE TypeInv'
  <2>1. llm' \in [Callers -> Call]
    BY <1>17, <1>t, <1>c DEF SupervisorAnswered, BossDone
  <2>2. conv' \in [Callers -> Seq(Message)] /\ todo' \in [Callers -> Seq(Tools)] /\ job' \in Job
    <3>1. CASE BossHas("failed")
      <4>1. job' = [job EXCEPT !.ended = "err"] /\ UNCHANGED <<conv, todo>>
        BY <3>1, <1>17 DEF SupervisorAnswered
      <4>2. QED
        BY <1>e, <1>t, <4>1
    <3>2. CASE ~BossHas("failed")
      <4>1. PICK a \in BossAnswers :
              IF a.calls = << >>
              THEN job' = [job EXCEPT !.ended = "ok"] /\ UNCHANGED <<conv, todo>>
              ELSE /\ BossPush(<<"uses", Len(a.calls)>>)
                   /\ todo' = [todo EXCEPT ![Boss] = a.calls]
                   /\ UNCHANGED job
        BY <1>17, <3>2 DEF SupervisorAnswered
      <4>2. a.calls \in Seq(Tools)
        BY CallsTyped
      <4>3. <<"uses", Len(a.calls)>> \in Message
        <5>1. Len(a.calls) \in Nat
          BY <4>2
        <5>2. QED
          BY <5>1, <1>m
      <4>4. Append(conv[Boss], <<"uses", Len(a.calls)>>) \in Seq(Message)
        BY <1>t, <1>w, <1>m, <4>3
      <4>5. CASE a.calls = << >>
        BY <4>1, <4>5, <1>t DEF Job
      <4>6. CASE a.calls # << >>
        BY <4>1, <4>2, <4>4, <4>6, <1>t, ZenonT(30) DEF BossPush
      <4>7. QED
        BY <4>5, <4>6
    <3>3. QED
      BY <3>1, <3>2
  <2>3. QED
    BY <1>17, <1>t, <2>1, <2>2 DEF SupervisorAnswered, TurnsAlone, TypeInv
<1>18. ASSUME SupervisorDelegates PROVE TypeInv'
  <2>1. Delegated \in Workers
    BY <1>18, <1>j DEF SupervisorDelegates, Names
  <2>2. /\ conv' \in [Callers -> Seq(Message)] /\ pc' \in [Workers -> PCs]
        /\ DOMAIN asker' = Workers /\ asker' = [d \in Workers |-> asker'[d]]
        /\ unheard' \in [Callers -> Nat]
    BY <1>18, <1>r, <2>1 DEF SupervisorDelegates
  <2>3. QED
    BY <1>18, <1>t, <2>2 DEF SupervisorDelegates, TurnsAlone, TypeInv
<1>19. ASSUME SupervisorHears PROVE TypeInv'
  <2>1. todo' \in [Callers -> Seq(Tools)]
    BY <1>19, <1>t, <1>w, <1>l DEF SupervisorHears
  <2>2. <<"result", Len(todo[Boss])>> \in Message
    BY <1>w, <1>l, <1>m
  <2>3. conv' \in [Callers -> Seq(Message)]
    BY <1>19, <1>t, <1>w, <1>m, <2>2 DEF SupervisorHears, BossPush
  <2>4. pc' \in [Workers -> PCs]
    BY <1>19, <1>t DEF SupervisorHears, PCs
  <2>5. QED
    BY <1>19, <1>t, <2>1, <2>3, <2>4 DEF SupervisorHears, TurnsAlone, TypeInv
<1>20. CASE UNCHANGED vars
  BY <1>20, <1>t DEF vars, turnVars, TypeInv
<1>99. QED
  BY <1>1, <1>2, <1>3, <1>4, <1>5, <1>6, <1>7, <1>8, <1>9, <1>10, <1>11, <1>12, <1>13, <1>14,
     <1>15, <1>16, <1>17, <1>18, <1>19, <1>20
  DEF Next, TurnNext, TurnStep, JobNext

-----------------------------------------------------------------------------
(* What a step does to an agent. *)

\* Nothing to the conversation; a tool may go on, an answer be handed over.
Still(d) ==
  /\ conv'[d] = conv[d] /\ todo'[d] = todo[d] /\ unheard'[d] = unheard[d]
  /\ outcome'[d] = outcome[d]
  /\ \/ pc'[d] = pc[d]
     \/ pc[d] \in InTools /\ pc'[d] \in InTools
     \/ pc[d] = "ended" /\ pc'[d] = "idle"
  /\ llm'[d].state = "idle" <=> llm[d].state = "idle"

\* The next message of a mailbox.
Opens(d) ==
  /\ pc[d] = "idle" /\ pc'[d] = "round" /\ llm'[d].state = "idle"
  /\ todo'[d] = todo[d] /\ unheard'[d] = unheard[d]
  /\ conv'[d] = Append(conv[d], <<"user">>)

\* An empty conversation, or one with the first message.
Afresh(d) ==
  /\ pc[d] = "idle" /\ pc'[d] \in {"idle", "round"} /\ llm'[d].state = "idle"
  /\ todo'[d] = todo[d]
  /\ conv'[d] = IF pc'[d] = "round" THEN << <<"user">> >> ELSE << >>

\* A call of the model.
AsksModel(d) ==
  /\ pc[d] = "round" /\ pc'[d] = "calling" /\ llm'[d].state # "idle"
  /\ todo'[d] = todo[d] /\ unheard'[d] = unheard[d]
  /\ conv'[d] = Compact(conv[d])

\* The end of a turn without an answer.
GivesUp(d) ==
  /\ pc[d] \in {"round", "calling"} /\ pc'[d] = "ended" /\ llm'[d].state = "idle"
  /\ outcome'[d] # "none"
  /\ todo'[d] = todo[d] /\ unheard'[d] = unheard[d] + 1
  /\ conv'[d] \in {conv[d], Compact(conv[d])}

\* The end with one.
Says(d) ==
  /\ pc[d] = "calling" /\ pc'[d] = "ended" /\ llm'[d].state = "idle"
  /\ outcome'[d] # "none"
  /\ todo'[d] = todo[d] /\ unheard'[d] = unheard[d]
  /\ conv'[d] = Push(d, <<"said">>)

\* An answer with calls of tools.
Calls(d) ==
  /\ pc[d] = "calling" /\ pc'[d] = "tool" /\ llm'[d].state = "idle"
  /\ todo'[d] # << >> /\ unheard'[d] = unheard[d]
  /\ conv'[d] = Push(d, <<"uses", Len(todo'[d])>>)

\* The result of one.
Gets(d) ==
  /\ pc[d] \in InTools /\ pc'[d] = IF Len(todo[d]) = 1 THEN "round" ELSE "tool"
  /\ llm'[d].state = "idle"
  /\ todo'[d] = Tail(todo[d]) /\ unheard'[d] = unheard[d]
  /\ conv'[d] = Push(d, <<"result", Len(todo[d])>>)

Move(d) ==
  \/ Still(d) \/ Opens(d) \/ Afresh(d) \/ AsksModel(d) \/ GivesUp(d) \/ Says(d) \/ Calls(d) \/ Gets(d)

LEMMA TurnMoves ==
  ASSUME IInv, TurnNext, NEW d \in Workers PROVE Move(d)
<1>t. /\ llm \in [Callers -> Call] /\ conv \in [Callers -> Seq(Message)]
      /\ pc \in [Workers -> PCs] /\ todo \in [Callers -> Seq(Tools)]
      /\ outcome \in [Workers -> {"none", "ok", "err"}] /\ unheard \in [Callers -> Nat]
      /\ d \in Callers /\ d # Boss
  BY AgentTurnAssumption DEF IInv, TypeInv, Callers
<1>c. /\ todo[d] # << >> <=> pc[d] \in InTools
      /\ llm[d].state # "idle" <=> pc[d] = "calling"
  BY DEF IInv, CourseInv
<1>i. NoCall.state = "idle" /\ Asked.state = "trying"
  BY DEF NoCall, Asked
<1>1. ASSUME NEW c \in Callers, Attempt(c) PROVE Still(d)
  <2>1. PICK next \in {[llm[c] EXCEPT !.state = "answered"], [llm[c] EXCEPT !.state = "failed"],
                       NextTry(llm[c]), NextModel(llm[c])} : llm' = [llm EXCEPT ![c] = next]
    BY <1>1 DEF Attempt
  <2>2. llm[c] \in Call /\ llm[c].state = "trying"
    BY <1>1, <1>t DEF Attempt
  <2>3. next.state # "idle"
    BY <2>1, <2>2 DEF NextTry, NextModel, Call
  <2>4. llm'[d].state = "idle" <=> llm[d].state = "idle"
    BY <1>t, <2>1, <2>2, <2>3
  <2>5. QED
    BY <1>1, <2>4 DEF Attempt, Still
<1>2. ASSUME NEW c \in Workers, c # d, TurnStep(c) PROVE Still(d)
  <2>1. conv'[d] = conv[d] /\ todo'[d] = todo[d]
    BY <1>2, <1>t DEF TurnStep, TakeMessage, StartTurn, Respond, BeginRound, TakeAnswer, LlmFails,
      PrepareTool, RunTool, ToolEnds, ReplyComes, AddResult
  <2>2. unheard'[d] = unheard[d] /\ llm'[d] = llm[d]
    BY <1>2, <1>t DEF TurnStep, TakeMessage, StartTurn, Respond, BeginRound, TakeAnswer, LlmFails,
      PrepareTool, RunTool, ToolEnds, ReplyComes
  <2>3. pc'[d] = pc[d] /\ outcome'[d] = outcome[d]
    BY <1>2, <1>t DEF TurnStep, TakeMessage, StartTurn, Respond, BeginRound, TakeAnswer, LlmFails,
      PrepareTool, RunTool, ToolEnds, ReplyComes, AddResult, End
  <2>4. QED
    BY <2>1, <2>2, <2>3 DEF Still
<1>3. CASE TakeMessage(d)
  <2>1. Opens(d)
    BY <1>3, <1>t, <1>c DEF TakeMessage, StartTurn, Opens
  <2>2. QED
    BY <2>1 DEF Move
<1>4. CASE Respond(d)
  <2>1. Still(d)
    BY <1>4, <1>t DEF Respond, Still
  <2>2. QED
    BY <2>1 DEF Move
<1>5. CASE BeginRound(d)
  <2>1. CASE round[d] < MaxRounds /\ LlmBudgetLeft
    <3>1. AsksModel(d)
      BY <1>5, <1>t, <1>i, <2>1 DEF BeginRound, AsksModel
    <3>2. QED
      BY <3>1 DEF Move
  <2>2. CASE ~(round[d] < MaxRounds /\ LlmBudgetLeft)
    <3>1. End(d, "err") /\ unheard' = [unheard EXCEPT ![d] = @ + 1] /\ UNCHANGED <<llm, todo>>
      BY <1>5, <2>2 DEF BeginRound
    <3>2. pc[d] = "round" /\ conv'[d] \in {conv[d], Compact(conv[d])}
      BY <1>5, <1>t DEF BeginRound
    <3>3. GivesUp(d)
      BY <1>t, <1>c, <3>1, <3>2 DEF End, GivesUp
    <3>4. QED
      BY <3>3 DEF Move
  <2>3. QED
    BY <2>1, <2>2
<1>6. CASE TakeAnswer(d)
  <2>1. pc[d] = "calling" /\ llm'[d].state = "idle"
    BY <1>6, <1>t, <1>i DEF TakeAnswer
  <2>2. PICK a \in Answers :
          IF a.calls = << >>
          THEN /\ conv' = [conv EXCEPT ![d] = IF a.text THEN Push(d, <<"said">>) ELSE @]
               /\ unheard' = [unheard EXCEPT ![d] = IF a.text THEN @ ELSE @ + 1]
               /\ End(d, "ok")
               /\ UNCHANGED todo
          ELSE /\ conv' = [conv EXCEPT ![d] = Push(d, <<"uses", Len(a.calls)>>)]
               /\ todo' = [todo EXCEPT ![d] = a.calls]
               /\ pc' = [pc EXCEPT ![d] = "tool"]
               /\ UNCHANGED <<outcome, unheard>>
    BY <1>6 DEF TakeAnswer
  <2>3. CASE a.calls = << >> /\ a.text
    <3>1. Says(d)
      BY <1>t, <2>1, <2>2, <2>3 DEF End, Says
    <3>2. QED
      BY <3>1 DEF Move
  <2>4. CASE a.calls = << >> /\ ~a.text
    <3>1. GivesUp(d)
      BY <1>t, <2>1, <2>2, <2>4 DEF End, GivesUp
    <3>2. QED
      BY <3>1 DEF Move
  <2>5. CASE a.calls # << >>
    <3>1. Calls(d)
      BY <1>t, <2>1, <2>2, <2>5, ZenonT(30) DEF Calls
    <3>2. QED
      BY <3>1 DEF Move
  <2>6. QED
    BY <2>3, <2>4, <2>5
<1>7. CASE LlmFails(d)
  <2>1. GivesUp(d)
    BY <1>7, <1>t, <1>i DEF LlmFails, End, GivesUp
  <2>2. QED
    BY <2>1 DEF Move
<1>r. ASSUME NEW refused, AddResult(d, refused), UNCHANGED <<llm, unheard>>, pc[d] \in InTools
      PROVE  Gets(d)
  BY <1>r, <1>t, <1>c DEF AddResult, Result, Gets, InTools
<1>8. CASE PrepareTool(d)
  <2>1. pc[d] \in InTools /\ UNCHANGED <<llm, unheard, outcome>>
    BY <1>8 DEF PrepareTool, InTools
  <2>2. CASE AddResult(d, TRUE)
    BY <1>r, <2>1, <2>2 DEF Move
  <2>3. CASE pc' = [pc EXCEPT ![d] = "ready"] /\ UNCHANGED <<conv, todo>>
    BY <1>t, <2>1, <2>3 DEF Still, Move, InTools
  <2>4. QED
    BY <1>8, <2>2, <2>3 DEF PrepareTool
<1>9. CASE RunTool(d)
  <2>1. \E where \in {"waiting", "running"} : pc' = [pc EXCEPT ![d] = where]
    BY <1>9 DEF RunTool
  <2>2. pc[d] \in InTools /\ UNCHANGED <<llm, unheard, outcome, conv, todo>>
    BY <1>9 DEF RunTool, InTools
  <2>3. QED
    BY <1>t, <2>1, <2>2 DEF Still, Move, InTools
<1>10. CASE ToolEnds(d) \/ ReplyComes(d)
  <2>1. pc[d] \in InTools /\ UNCHANGED <<llm, unheard>> /\ AddResult(d, FALSE)
    BY <1>10 DEF ToolEnds, ReplyComes, InTools
  <2>2. QED
    BY <1>r, <2>1 DEF Move
<1>11. ASSUME NEW c \in Workers, ClientSends(c) \/ StopMailbox(c) PROVE Still(d)
  BY <1>11 DEF ClientSends, StopMailbox, Still
<1>12. ASSUME NEW c \in Workers, RestartMailbox(c) PROVE Move(d)
  <2>1. CASE c = d
    <3>1. Afresh(d)
      BY <1>12, <1>t, <1>c, <2>1 DEF RestartMailbox, Afresh
    <3>2. QED
      BY <3>1 DEF Move
  <2>2. CASE c # d
    <3>1. Still(d)
      BY <1>12, <1>t, <2>2 DEF RestartMailbox, Still
    <3>2. QED
      BY <3>1 DEF Move
  <2>3. QED
    BY <2>1, <2>2
<1>13. ASSUME TurnStep(d) PROVE Move(d)
  BY <1>3, <1>4, <1>5, <1>6, <1>7, <1>8, <1>9, <1>10, <1>13 DEF TurnStep
<1>14. \A c \in Callers : Attempt(c) => Move(d)
  BY <1>1 DEF Move
<1>15. \A c \in Workers : TurnStep(c) => Move(d)
  BY <1>2, <1>13 DEF Move
<1>16. \A c \in Workers : ClientSends(c) \/ RestartMailbox(c) \/ StopMailbox(c) => Move(d)
  BY <1>11, <1>12 DEF Move
<1>17. QED
  BY <1>14, <1>15, <1>16 DEF TurnNext

LEMMA JobMoves ==
  ASSUME IInv, JobNext, NEW d \in Workers PROVE Move(d)
<1>t. /\ llm \in [Callers -> Call] /\ conv \in [Callers -> Seq(Message)]
      /\ pc \in [Workers -> PCs] /\ todo \in [Callers -> Seq(Tools)]
      /\ outcome \in [Workers -> {"none", "ok", "err"}] /\ unheard \in [Callers -> Nat]
      /\ d \in Callers /\ d # Boss
  BY AgentTurnAssumption DEF IInv, TypeInv, Callers
<1>c. llm[d].state # "idle" <=> pc[d] = "calling"
  BY DEF IInv, CourseInv
<1>j. /\ job.stage \in Nat /\ Len(Order) \in Nat /\ DOMAIN Order = 1..Len(Order)
      /\ \A i \in DOMAIN Order : Order[i] \in Workers
  BY OrchestrationAssumption DEF IInv, TypeInv, Job
<1>r. ASSUME NEW c \in Workers, NEW input, RunAgent(c, input), pc[c] = "idle",
             UNCHANGED <<llm, todo, outcome>>
      PROVE  Move(d)
  <2>1. CASE c = d
    <3>1. Afresh(d)
      BY <1>r, <1>t, <1>c, <2>1 DEF RunAgent, Afresh
    <3>2. QED
      BY <3>1 DEF Move
  <2>2. CASE c # d
    <3>1. Still(d)
      BY <1>r, <1>t, <2>2 DEF RunAgent, Still
    <3>2. QED
      BY <3>1 DEF Move
  <2>3. QED
    BY <2>1, <2>2
<1>1. CASE ChainRuns
  <2>1. job.stage + 1 \in DOMAIN Order /\ setup.mode = "chain"
    BY <1>1, <1>j DEF ChainRuns, Running
  <2>2. Order[job.stage + 1] \in Workers /\ pc[Order[job.stage + 1]] = "idle"
    BY <1>j, <2>1 DEF IInv, ChainInv
  <2>3. RunAgent(Order[job.stage + 1], Fed(job.stage + 1)) /\ UNCHANGED <<llm, todo, outcome>>
    BY <1>1 DEF ChainRuns
  <2>4. QED
    BY <1>r, <2>2, <2>3
<1>2. CASE ChainEnds \/ ParallelCollects
  <2>1. Still(d)
    BY <1>2 DEF ChainEnds, ParallelCollects, Still
  <2>2. QED
    BY <2>1 DEF Move
<1>3. CASE ParallelStarts
  <2>1. pc[d] = "idle"
    BY <1>3 DEF IInv, ParallelInv, ParallelStarts, Running
  <2>2. CASE d \in Names
    <3>1. Afresh(d)
      BY <1>3, <1>t, <1>c, <2>1, <2>2 DEF ParallelStarts, Afresh
    <3>2. QED
      BY <3>1 DEF Move
  <2>3. CASE d \notin Names
    <3>1. Still(d)
      BY <1>3, <1>t, <2>3 DEF ParallelStarts, Still
    <3>2. QED
      BY <3>1 DEF Move
  <2>4. QED
    BY <2>2, <2>3
<1>4. CASE ParallelMerges \/ ParallelMerged \/ RouterAsks \/ RouterPicks
  <2>1. conv'[d] = conv[d] /\ llm'[d] = llm[d]
    BY <1>4, <1>t DEF ParallelMerges, ParallelMerged, RouterAsks, RouterPicks, AskBoss, BossDone
  <2>2. UNCHANGED <<pc, todo, outcome, unheard>>
    BY <1>4 DEF ParallelMerges, ParallelMerged, RouterAsks, RouterPicks
  <2>3. Still(d)
    BY <2>1, <2>2 DEF Still
  <2>4. QED
    BY <2>3 DEF Move
<1>5. CASE SupervisorAsks \/ SupervisorAnswered
  <2>1. conv'[d] = conv[d] /\ llm'[d] = llm[d] /\ todo'[d] = todo[d]
    BY <1>5, <1>t DEF SupervisorAsks, SupervisorAnswered, AskBoss, BossDone, BossPush
  <2>2. UNCHANGED <<pc, outcome, unheard>>
    BY <1>5 DEF SupervisorAsks, SupervisorAnswered
  <2>3. Still(d)
    BY <2>1, <2>2 DEF Still
  <2>4. QED
    BY <2>3 DEF Move
<1>6. CASE SupervisorDelegates
  <2>1. Delegated \in Workers /\ pc[Delegated] = "idle"
    BY <1>6, <1>j DEF SupervisorDelegates, Names
  <2>2. RunAgent(Delegated, "boss") /\ UNCHANGED <<llm, todo, outcome>>
    BY <1>6 DEF SupervisorDelegates
  <2>3. QED
    BY <1>r, <2>1, <2>2
<1>7. CASE SupervisorHears
  <2>1. conv'[d] = conv[d] /\ todo'[d] = todo[d] /\ UNCHANGED <<llm, outcome, unheard>>
    BY <1>7, <1>t DEF SupervisorHears, BossPush
  <2>2. pc'[d] = pc[d] \/ (pc[d] = "ended" /\ pc'[d] = "idle")
    BY <1>7, <1>t DEF SupervisorHears
  <2>3. Still(d)
    BY <2>1, <2>2 DEF Still
  <2>4. QED
    BY <2>3 DEF Move
<1>8. QED
  BY <1>1, <1>2, <1>3, <1>4, <1>5, <1>6, <1>7 DEF JobNext

LEMMA Moves ==
  ASSUME IInv, [Next]_vars, NEW d \in Workers PROVE Move(d)
<1>1. CASE UNCHANGED vars
  BY <1>1 DEF vars, turnVars, Still, Move
<1>2. QED
  BY <1>1, TurnMoves, JobMoves DEF Next

\* What a step does to the conversation of the Boss.
BossMove ==
  \/ conv'[Boss] = conv[Boss] /\ todo'[Boss] = todo[Boss]
  \/ todo[Boss] = << >> /\ todo'[Boss] = << >> /\ conv'[Boss] = << <<"user">> >>
  \/ /\ todo[Boss] = << >> /\ todo'[Boss] # << >>
     /\ conv'[Boss] = Append(conv[Boss], <<"uses", Len(todo'[Boss])>>)
  \/ /\ todo[Boss] # << >> /\ todo'[Boss] = Tail(todo[Boss])
     /\ conv'[Boss] = Append(conv[Boss], <<"result", Len(todo[Boss])>>)

\* The turns of agents leave the Boss and its orchestration alone: all that may
\* happen is that its call of the model goes on, or ends.
LEMMA TurnsLeaveBoss ==
  ASSUME IInv, TurnNext
  PROVE  /\ conv'[Boss] = conv[Boss] /\ todo'[Boss] = todo[Boss] /\ UNCHANGED setup
         /\ llm'[Boss].state = "trying" => llm[Boss].state = "trying"
         /\ llm'[Boss].state = "idle" <=> llm[Boss].state = "idle"
<1>t. /\ llm \in [Callers -> Call] /\ conv \in [Callers -> Seq(Message)]
      /\ todo \in [Callers -> Seq(Tools)] /\ Boss \in Callers /\ Boss \notin Workers
  BY AgentTurnAssumption DEF IInv, TypeInv, Callers
<1>1. ASSUME NEW c \in Callers, Attempt(c)
      PROVE  /\ UNCHANGED <<conv, todo, setup>>
             /\ llm'[Boss].state = "trying" => llm[Boss].state = "trying"
             /\ llm'[Boss].state = "idle" <=> llm[Boss].state = "idle"
  <2>1. PICK next \in {[llm[c] EXCEPT !.state = "answered"], [llm[c] EXCEPT !.state = "failed"],
                       NextTry(llm[c]), NextModel(llm[c])} : llm' = [llm EXCEPT ![c] = next]
    BY <1>1 DEF Attempt
  <2>2. llm[c] \in Call /\ llm[c].state = "trying"
    BY <1>1, <1>t DEF Attempt
  <2>3. next.state # "idle"
    BY <2>1, <2>2 DEF NextTry, NextModel, Call
  <2>4. QED
    BY <1>1, <1>t, <2>1, <2>2, <2>3 DEF Attempt
<1>2. ASSUME NEW c \in Workers, TurnStep(c) PROVE conv'[Boss] = conv[Boss] /\ todo'[Boss] = todo[Boss]
  BY <1>2, <1>t DEF TurnStep, TakeMessage, StartTurn, Respond, BeginRound, TakeAnswer, LlmFails,
    PrepareTool, RunTool, ToolEnds, ReplyComes, AddResult
<1>3. ASSUME NEW c \in Workers, TurnStep(c) PROVE llm'[Boss] = llm[Boss] /\ UNCHANGED setup
  BY <1>3, <1>t DEF TurnStep, TakeMessage, StartTurn, Respond, BeginRound, TakeAnswer, LlmFails,
    PrepareTool, RunTool, ToolEnds, ReplyComes
<1>4. ASSUME NEW c \in Workers, ClientSends(c) \/ RestartMailbox(c) \/ StopMailbox(c)
      PROVE  conv'[Boss] = conv[Boss] /\ UNCHANGED <<llm, todo, setup>>
  BY <1>4, <1>t DEF ClientSends, RestartMailbox, StopMailbox
<1>5. QED
  BY <1>1, <1>2, <1>3, <1>4 DEF TurnNext

LEMMA BossMoves == IInv /\ [Next]_vars => BossMove
<1> SUFFICES ASSUME IInv, [Next]_vars PROVE BossMove
  OBVIOUS
<1>t. /\ llm \in [Callers -> Call] /\ conv \in [Callers -> Seq(Message)]
      /\ pc \in [Workers -> PCs]
      /\ todo \in [Callers -> Seq(Tools)] /\ Boss \in Callers /\ Boss \notin Workers
      /\ \A i \in DOMAIN Order : Order[i] \in Workers
      /\ job.stage \in Nat /\ Len(Order) \in Nat /\ DOMAIN Order = 1..Len(Order)
  BY AgentTurnAssumption, OrchestrationAssumption, SMTT(30) DEF IInv, TypeInv, Callers, Job
<1>b. /\ ~BossIsIdle => todo[Boss] = << >>
      /\ setup.mode # "supervisor" => todo[Boss] = << >>
      /\ setup.mode = "supervisor" /\ job.stage = 0 => conv[Boss] = << >>
  BY DEF IInv, BossInv
<1>1. CASE UNCHANGED vars
  BY <1>1 DEF vars, turnVars, BossMove
<1>2. CASE TurnNext
  BY <1>2, TurnsLeaveBoss DEF BossMove
<1>3. CASE ChainRuns
  <2>1. job.stage + 1 \in DOMAIN Order
    BY <1>3, <1>t DEF ChainRuns
  <2>2. Order[job.stage + 1] # Boss
    BY <1>t, <2>1
  <2>3. conv'[Boss] = conv[Boss] /\ UNCHANGED todo
    BY <1>3, <1>t, <2>2 DEF ChainRuns, RunAgent
  <2>4. QED
    BY <2>3 DEF BossMove
<1>4. CASE ChainEnds \/ ParallelCollects \/ ParallelMerged \/ RouterPicks
  BY <1>4 DEF ChainEnds, ParallelCollects, ParallelMerged, RouterPicks, BossMove
<1>5. CASE ParallelStarts
  <2>1. Boss \notin Names
    BY <1>t DEF Names
  <2>2. conv'[Boss] = conv[Boss] /\ UNCHANGED todo
    BY <1>5, <1>t, <2>1 DEF ParallelStarts
  <2>3. QED
    BY <2>2 DEF BossMove
<1>6. CASE ParallelMerges \/ RouterAsks
  <2>1. todo[Boss] = << >> /\ UNCHANGED todo
    BY <1>6, <1>b DEF ParallelMerges, RouterAsks, Running
  <2>2. conv' = conv \/ conv' = [conv EXCEPT ![Boss] = << <<"user">> >>]
    BY <1>6 DEF ParallelMerges, RouterAsks
  <2>3. conv'[Boss] = conv[Boss] \/ conv'[Boss] = << <<"user">> >>
    BY <1>t, <2>2
  <2>4. QED
    BY <2>1, <2>3 DEF BossMove
<1>7. CASE SupervisorAsks
  <2>1. todo[Boss] = << >> /\ UNCHANGED todo
    BY <1>7 DEF SupervisorAsks
  <2>2. conv' = conv \/ (job.stage = 0 /\ conv' = [conv EXCEPT ![Boss] = Append(conv[Boss], <<"user">>)])
    BY <1>7 DEF SupervisorAsks, BossPush
  <2>3. job.stage = 0 => Append(conv[Boss], <<"user">>) = << <<"user">> >>
    <3>1. Append(<< >>, <<"user">>) = << <<"user">> >>
      OBVIOUS
    <3>2. job.stage = 0 => conv[Boss] = << >>
      BY <1>7, <1>b DEF SupervisorAsks, Running
    <3>3. QED
      BY <3>1, <3>2
  <2>4. conv'[Boss] = conv[Boss] \/ conv'[Boss] = << <<"user">> >>
    BY <1>t, <2>2, <2>3
  <2>5. QED
    BY <2>1, <2>4 DEF BossMove
<1>8. CASE SupervisorAnswered
  <2>1. todo[Boss] = << >>
    BY <1>8, <1>b DEF SupervisorAnswered, BossIsIdle, BossHas
  <2>2. CASE UNCHANGED <<conv, todo>>
    BY <2>2 DEF BossMove
  <2>3. CASE ~UNCHANGED <<conv, todo>>
    <3>1. PICK a \in BossAnswers : /\ a.calls # << >>
                                   /\ BossPush(<<"uses", Len(a.calls)>>)
                                   /\ todo' = [todo EXCEPT ![Boss] = a.calls]
      BY <1>8, <2>3 DEF SupervisorAnswered
    <3>2. todo'[Boss] = a.calls /\ conv'[Boss] = Append(conv[Boss], <<"uses", Len(a.calls)>>)
      BY <1>t, <3>1 DEF BossPush
    <3>3. QED
      BY <2>1, <3>1, <3>2 DEF BossMove
  <2>4. QED
    BY <2>2, <2>3
<1>9. CASE SupervisorDelegates
  <2>1. Delegated # Boss
    BY <1>9, <1>t DEF SupervisorDelegates, Names
  <2>2. conv'[Boss] = conv[Boss] /\ UNCHANGED todo
    BY <1>9, <1>t, <2>1 DEF SupervisorDelegates, RunAgent
  <2>3. QED
    BY <2>2 DEF BossMove
<1>10. CASE SupervisorHears
  <2>1. /\ todo[Boss] # << >> /\ todo'[Boss] = Tail(todo[Boss])
        /\ conv'[Boss] = Append(conv[Boss], <<"result", Len(todo[Boss])>>)
    BY <1>10, <1>t DEF SupervisorHears, BossPush
  <2>2. QED
    BY <2>1 DEF BossMove
<1>11. QED
  BY <1>1, <1>2, <1>3, <1>4, <1>5, <1>6, <1>7, <1>8, <1>9, <1>10 DEF Next, JobNext

-----------------------------------------------------------------------------
(* The conversations. *)

LEMMA StartSound ==
  /\ Sound(<< >>, 0) /\ Sound(<< <<"user">> >>, 0)
  /\ Doubled(<< >>) = {} /\ Doubled(<< <<"user">> >>) = {}
<1>1. << >> \in Seq(Message) /\ <<"user">> \in Message /\ << <<"user">> >> = Append(<< >>, <<"user">>)
  BY DEF Message
<1>2. Sound(<< >>, 0)
  BY DEF Sound, Uses
<1>3. Sound(<< <<"user">> >>, 0)
  BY <1>1, <1>2, AppendOther
<1>4. QED
  BY <1>2, <1>3 DEF Doubled

LEMMA CompactSound ==
  ASSUME TypeInv, NEW s \in Seq(Message), NEW open \in Nat, Sound(s, open)
  PROVE  Sound(Compact(s), open)
BY CompactCuts, SuffixSound DEF TypeInv

LEMMA PushSound ==
  ASSUME TypeInv, NEW c \in Callers, NEW m \in Message, NEW open \in Nat,
         Sound(Append(conv[c], m), open)
  PROVE  Sound(Push(c, m), open)
<1>1. Append(conv[c], m) \in Seq(Message)
  BY AppendFacts DEF TypeInv
<1>2. QED
  BY <1>1, CompactSound DEF Push

LEMMA SoundStep == IInv /\ [Next]_vars /\ TypeInv' => SoundInv'
<1> SUFFICES ASSUME IInv, [Next]_vars, TypeInv', NEW c \in Callers
             PROVE  Sound(conv'[c], Len(todo'[c]))
  BY DEF SoundInv
<1>t. /\ TypeInv /\ conv[c] \in Seq(Message) /\ todo[c] \in Seq(Tools) /\ todo'[c] \in Seq(Tools)
  BY DEF IInv, TypeInv
<1>l. /\ Len(todo[c]) \in Nat /\ Len(todo'[c]) \in Nat
      /\ todo[c] = << >> => Len(todo[c]) = 0
      /\ todo[c] # << >> => Len(todo[c]) > 0 /\ Len(Tail(todo[c])) = Len(todo[c]) - 1
  BY <1>t
<1>m. /\ <<"user">> \in Message /\ <<"said">> \in Message
      /\ \A n \in Nat : <<"uses", n>> \in Message /\ <<"result", n>> \in Message
  BY DEF Message
<1>s. Sound(conv[c], Len(todo[c]))
  BY DEF IInv, SoundInv
<1>0. Sound(<< >>, 0) /\ Sound(<< <<"user">> >>, 0)
  BY StartSound
<1>u. todo[c] = << >> =>
        Sound(Append(conv[c], <<"uses", Len(todo'[c])>>), Len(todo'[c]))
  BY <1>t, <1>l, <1>s, AppendUses
<1>r. todo[c] # << >> =>
        Sound(Append(conv[c], <<"result", Len(todo[c])>>), Len(todo[c]) - 1)
  BY <1>t, <1>l, <1>s, AppendResult
<1>1. CASE c = Boss
  BY <1>l, <1>s, <1>0, <1>u, <1>r, <1>1, BossMoves DEF BossMove
<1>2. CASE c \in Workers
  <2>1. Move(c)
    BY <1>2, Moves
  <2>2. pc[c] \notin InTools => todo[c] = << >>
    BY <1>2 DEF IInv, CourseInv
  <2>3. CASE Still(c)
    BY <1>s, <2>3 DEF Still
  <2>4. CASE Opens(c)
    <3>1. todo[c] = << >> /\ todo'[c] = << >> /\ conv'[c] = Append(conv[c], <<"user">>)
      BY <2>2, <2>4 DEF Opens, InTools
    <3>2. Sound(Append(conv[c], <<"user">>), 0)
      BY <1>t, <1>l, <1>s, <3>1, AppendOther
    <3>3. QED
      BY <1>l, <3>1, <3>2
  <2>5. CASE Afresh(c)
    BY <1>l, <1>0, <2>2, <2>5 DEF Afresh, InTools
  <2>6. CASE AsksModel(c) \/ GivesUp(c)
    <3>1. Sound(Compact(conv[c]), Len(todo[c]))
      BY <1>t, <1>l, <1>s, CompactSound
    <3>2. QED
      BY <1>s, <2>6, <3>1 DEF AsksModel, GivesUp
  <2>7. CASE Says(c)
    <3>1. todo[c] = << >> /\ todo'[c] = << >> /\ conv'[c] = Push(c, <<"said">>)
      BY <2>2, <2>7 DEF Says, InTools
    <3>2. Sound(Append(conv[c], <<"said">>), 0)
      BY <1>t, <1>l, <1>s, <3>1, AppendOther
    <3>3. Sound(Push(c, <<"said">>), 0)
      BY <1>t, <1>m, <3>2, PushSound
    <3>4. QED
      BY <1>l, <3>1, <3>3
  <2>8. CASE Calls(c)
    <3>1. todo[c] = << >> /\ conv'[c] = Push(c, <<"uses", Len(todo'[c])>>)
      BY <2>2, <2>8 DEF Calls, InTools
    <3>2. <<"uses", Len(todo'[c])>> \in Message
      BY <1>l, <1>m
    <3>3. Sound(Push(c, <<"uses", Len(todo'[c])>>), Len(todo'[c]))
      BY <1>t, <1>l, <1>u, <3>1, <3>2, PushSound
    <3>4. QED
      BY <3>1, <3>3
  <2>9. CASE Gets(c)
    <3>1. /\ todo[c] # << >> /\ todo'[c] = Tail(todo[c])
          /\ conv'[c] = Push(c, <<"result", Len(todo[c])>>)
      BY <1>2, <2>9 DEF Gets, IInv, CourseInv
    <3>2. <<"result", Len(todo[c])>> \in Message /\ Len(todo[c]) - 1 \in Nat
      BY <1>l, <1>m, <3>1
    <3>3. Sound(Push(c, <<"result", Len(todo[c])>>), Len(todo[c]) - 1)
      BY <1>t, <1>r, <3>1, <3>2, PushSound
    <3>4. QED
      BY <1>l, <3>1, <3>3
  <2>10. QED
    BY <2>1, <2>3, <2>4, <2>5, <2>6, <2>7, <2>8, <2>9 DEF Move
<1>3. QED
  BY <1>1, <1>2 DEF Callers

\* The mode and the window stay, and outside of the mailboxes nobody has one.
LEMMA SetupKept ==
  ASSUME [Next]_vars PROVE UNCHANGED setup /\ (setup.mode # "mailbox" => UNCHANGED alive)
<1>1. CASE UNCHANGED vars
  BY <1>1 DEF vars, turnVars
<1>2. CASE TurnNext
  BY <1>2 DEF TurnNext, TurnStep, Attempt, TakeMessage, Respond, BeginRound, TakeAnswer, LlmFails,
    PrepareTool, RunTool, ToolEnds, ReplyComes, ClientSends, RestartMailbox, StopMailbox
<1>3. CASE JobNext
  BY <1>3 DEF JobNext, ChainRuns, ChainEnds, ParallelStarts, ParallelCollects, ParallelMerges,
    ParallelMerged, RouterAsks, RouterPicks, SupervisorAsks, SupervisorAnswered,
    SupervisorDelegates, SupervisorHears, TurnsAlone
<1>4. QED
  BY <1>1, <1>2, <1>3 DEF Next

\* With no window, what is pushed does not change what is in front.
LEMMA PushFront ==
  ASSUME TypeInv, setup.window = 0, NEW c \in Callers, NEW m \in Message,
         conv[c] # << >> => conv[c][1][1] # "result", conv[c] = << >> => m[1] # "result"
  PROVE  Push(c, m)[1][1] # "result"
<1>1. conv[c] \in Seq(Message)
  BY DEF TypeInv
<1>2. Push(c, m) = Append(conv[c], m)
  BY DEF Push, Compact
<1>3. Len(conv[c]) \in Nat /\ (conv[c] # << >> => 1 \in 1..Len(conv[c]))
      /\ (conv[c] = << >> => Len(conv[c]) + 1 = 1)
  BY <1>1
<1>4. CASE conv[c] = << >>
  BY <1>1, <1>2, <1>3, <1>4, AppendFacts
<1>5. CASE conv[c] # << >>
  BY <1>1, <1>2, <1>3, <1>5, AppendFacts
<1>6. QED
  BY <1>4, <1>5

LEMMA UncutStep == IInv /\ [Next]_vars /\ TypeInv' => UncutInv'
<1> SUFFICES ASSUME IInv, [Next]_vars, TypeInv', NEW c \in Callers,
                    setup'.window = 0 \/ c = Boss, conv'[c] # << >>
             PROVE  conv'[c][1][1] # "result"
  BY DEF UncutInv
<1>t. /\ TypeInv /\ conv[c] \in Seq(Message) /\ todo[c] \in Seq(Tools) /\ todo'[c] \in Seq(Tools)
  BY DEF IInv, TypeInv
<1>l. /\ Len(todo[c]) \in Nat /\ Len(todo'[c]) \in Nat
      /\ todo[c] # << >> => Len(todo[c]) > 0
  BY <1>t
<1>m. /\ <<"user">> \in Message /\ <<"said">> \in Message
      /\ \A n \in Nat : <<"uses", n>> \in Message /\ <<"result", n>> \in Message
  BY DEF Message
<1>e. todo[c] # << >> => conv[c] # << >>
  BY <1>l DEF IInv, SoundInv, Sound, EndsWith
<1>1. CASE c = Boss
  <2>1. conv[c] # << >> => conv[c][1][1] # "result"
    BY <1>1 DEF IInv, UncutInv
  <2>2. ASSUME NEW m \in Message, conv[c] = << >> => m[1] # "result", conv'[c] = Append(conv[c], m)
        PROVE  conv'[c][1][1] # "result"
    <3>1. Len(conv[c]) \in Nat /\ (conv[c] # << >> => 1 \in 1..Len(conv[c]))
          /\ (conv[c] = << >> => Len(conv[c]) + 1 = 1)
      BY <1>t
    <3>2. CASE conv[c] = << >>
      BY <1>t, <2>2, <3>1, <3>2, AppendFacts
    <3>3. CASE conv[c] # << >>
      BY <1>t, <2>1, <2>2, <3>1, <3>3, AppendFacts
    <3>4. QED
      BY <3>2, <3>3
  <2>3. CASE conv'[c] = conv[c] \/ conv'[c] = << <<"user">> >>
    BY <2>1, <2>3
  <2>4. CASE todo[c] = << >> /\ conv'[c] = Append(conv[c], <<"uses", Len(todo'[c])>>)
    <3>1. <<"uses", Len(todo'[c])>> \in Message /\ <<"uses", Len(todo'[c])>>[1] # "result"
      BY <1>l, <1>m
    <3>2. QED
      BY <2>2, <2>4, <3>1
  <2>5. CASE todo[c] # << >> /\ conv'[c] = Append(conv[c], <<"result", Len(todo[c])>>)
    <3>1. <<"result", Len(todo[c])>> \in Message
      BY <1>l, <1>m
    <3>2. QED
      BY <1>e, <2>2, <2>5, <3>1
  <2>6. QED
    BY <1>1, <2>3, <2>4, <2>5, BossMoves DEF BossMove
<1>2. CASE c \in Workers
  <2>1. Move(c)
    BY <1>2, Moves
  <2>2. setup.window = 0
    <3>1. c # Boss
      BY <1>2, AgentTurnAssumption
    <3>2. QED
      BY <3>1, SetupKept
  <2>3. conv[c] # << >> => conv[c][1][1] # "result"
    BY <2>2 DEF IInv, UncutInv
  <2>4. Compact(conv[c]) = conv[c]
    BY <2>2 DEF Compact
  <2>5. pc[c] \notin InTools => todo[c] = << >>
    BY <1>2 DEF IInv, CourseInv
  <2>6. CASE Still(c) \/ Afresh(c) \/ AsksModel(c) \/ GivesUp(c)
    BY <2>3, <2>4, <2>6 DEF Still, Afresh, AsksModel, GivesUp
  <2>7. CASE Opens(c)
    <3>1. Push(c, <<"user">>) = Append(conv[c], <<"user">>)
      BY <2>2 DEF Push, Compact
    <3>2. <<"user">>[1] # "result"
      OBVIOUS
    <3>3. QED
      BY <1>t, <1>m, <2>2, <2>3, <2>7, <3>1, <3>2, PushFront DEF Opens
  <2>8. CASE Says(c)
    <3>1. <<"said">>[1] # "result"
      OBVIOUS
    <3>2. QED
      BY <1>t, <1>m, <2>2, <2>3, <2>8, <3>1, PushFront DEF Says
  <2>9. CASE Calls(c)
    <3>1. <<"uses", Len(todo'[c])>> \in Message /\ <<"uses", Len(todo'[c])>>[1] # "result"
      BY <1>l, <1>m
    <3>2. QED
      BY <1>t, <2>2, <2>3, <2>9, <3>1, PushFront DEF Calls
  <2>10. CASE Gets(c)
    <3>1. <<"result", Len(todo[c])>> \in Message
      BY <1>l, <1>m
    <3>2. conv[c] # << >>
      BY <1>2, <1>e, <2>10 DEF Gets, IInv, CourseInv
    <3>3. QED
      BY <1>t, <2>2, <2>3, <2>10, <3>1, <3>2, PushFront DEF Gets
  <2>11. QED
    BY <2>1, <2>6, <2>7, <2>8, <2>9, <2>10 DEF Move
<1>3. QED
  BY <1>1, <1>2 DEF Callers

\* The last message is what was pushed last, whatever the window.
LEMMA LastOfSuffix ==
  ASSUME NEW s \in Seq(Message), NEW t, NEW d \in Nat, Suffix(t, s, d), NEW kinds
  PROVE  EndsWith(t, kinds) <=> EndsWith(s, kinds)
<1>1. /\ t \in Seq(Message) /\ Len(t) \in Nat /\ Len(s) \in Nat /\ Len(t) = Len(s) - d
      /\ \A i \in 1..Len(t) : t[i] = s[i + d]
      /\ s # << >> => t # << >>
  BY DEF Suffix
<1>2. CASE t = << >>
  BY <1>1, <1>2 DEF EndsWith
<1>3. CASE t # << >>
  <2>1. Len(t) \in 1..Len(t) /\ Len(t) + d = Len(s) /\ s # << >>
    BY <1>1, <1>3
  <2>2. t[Len(t)] = s[Len(s)]
    BY <1>1, <2>1
  <2>3. QED
    BY <1>3, <2>1, <2>2 DEF EndsWith
<1>4. QED
  BY <1>2, <1>3

LEMMA LastOfAppend ==
  ASSUME NEW s \in Seq(Message), NEW m \in Message, NEW kinds
  PROVE  EndsWith(Append(s, m), kinds) <=> m[1] \in kinds
BY AppendFacts DEF EndsWith

LEMMA CompactEnds ==
  ASSUME TypeInv, NEW s \in Seq(Message), NEW kinds
  PROVE  EndsWith(Compact(s), kinds) <=> EndsWith(s, kinds)
<1>1. PICK d \in Nat : Suffix(Compact(s), s, d)
  BY CompactCuts DEF TypeInv
<1>2. QED
  BY <1>1, LastOfSuffix

LEMMA PushEnds ==
  ASSUME TypeInv, NEW c \in Callers, NEW m \in Message, NEW kinds
  PROVE  EndsWith(Push(c, m), kinds) <=> m[1] \in kinds
<1>1. conv[c] \in Seq(Message) /\ Append(conv[c], m) \in Seq(Message)
  BY AppendFacts DEF TypeInv
<1>2. QED
  BY <1>1, CompactEnds, LastOfAppend DEF Push

LEMMA AskStep == IInv /\ [Next]_vars /\ TypeInv' => AskInv'
<1> SUFFICES ASSUME IInv, [Next]_vars, TypeInv', NEW c \in Workers, pc'[c] \in {"round", "calling"}
             PROVE  EndsWith(conv'[c], {"user", "result"})
  BY DEF AskInv
<1>t. TypeInv /\ c \in Callers /\ conv[c] \in Seq(Message) /\ Len(todo[c]) \in Nat
  BY DEF IInv, TypeInv, Callers
<1>a. pc[c] \in {"round", "calling"} => EndsWith(conv[c], {"user", "result"})
  BY DEF IInv, AskInv
<1>m. <<"user">> \in Message /\ <<"result", Len(todo[c])>> \in Message
  BY <1>t DEF Message
<1>1. CASE Still(c)
  BY <1>1, <1>a DEF Still, InTools
<1>2. CASE Opens(c)
  BY <1>2, <1>t, <1>m, LastOfAppend DEF Opens
<1>3. CASE Afresh(c)
  <2>1. << >> \in Seq(Message) /\ Append(<< >>, <<"user">>) = << <<"user">> >>
    OBVIOUS
  <2>2. EndsWith(<< <<"user">> >>, {"user", "result"})
    BY DEF EndsWith
  <2>3. QED
    BY <1>3, <2>2 DEF Afresh
<1>4. CASE AsksModel(c)
  BY <1>4, <1>t, <1>a, CompactEnds DEF AsksModel
<1>5. CASE GivesUp(c) \/ Says(c) \/ Calls(c)
  BY <1>5 DEF GivesUp, Says, Calls
<1>6. CASE Gets(c)
  BY <1>6, <1>t, <1>m, PushEnds DEF Gets
<1>7. QED
  BY <1>1, <1>2, <1>3, <1>4, <1>5, <1>6, Moves DEF Move

LEMMA CompactDoubled ==
  ASSUME TypeInv, NEW s \in Seq(Message)
  PROVE  /\ Compact(s) \in Seq(Message)
         /\ Cardinality(Doubled(Compact(s))) <= Cardinality(Doubled(s))
BY CompactCuts, SuffixDoubled DEF TypeInv, Suffix

\* What is pushed adds nothing, a user message behind another excepted.
LEMMA PushDoubled ==
  ASSUME TypeInv, NEW c \in Callers, NEW m \in Message, m[1] # "user"
  PROVE  /\ Cardinality(Doubled(Push(c, m))) \in Nat
         /\ Cardinality(Doubled(Push(c, m))) <= Cardinality(Doubled(conv[c]))
<1>1. conv[c] \in Seq(Message) /\ Append(conv[c], m) \in Seq(Message)
  BY AppendFacts DEF TypeInv
<1>2. Push(c, m) \in Seq(Message)
        /\ Cardinality(Doubled(Push(c, m))) <= Cardinality(Doubled(Append(conv[c], m)))
  BY <1>1, CompactDoubled DEF Push
<1>3. Cardinality(Doubled(Append(conv[c], m))) <= Cardinality(Doubled(conv[c]))
  <2>1. Cardinality(Doubled(Append(conv[c], m))) <= Cardinality(Doubled(conv[c])) + 0
    BY <1>1, AppendDoubled
  <2>2. Cardinality(Doubled(conv[c])) \in Nat
    BY <1>1, DoubledFinite
  <2>3. QED
    BY <2>1, <2>2
<1>4. /\ Cardinality(Doubled(Push(c, m))) \in Nat
      /\ Cardinality(Doubled(Append(conv[c], m))) \in Nat
      /\ Cardinality(Doubled(conv[c])) \in Nat
  BY <1>1, <1>2, DoubledFinite
<1>5. QED
  BY <1>2, <1>3, <1>4

LEMMA UserStep == IInv /\ [Next]_vars /\ TypeInv' => UserInv'
<1> SUFFICES ASSUME IInv, [Next]_vars, TypeInv', NEW c \in Workers
             PROVE  Cardinality(Doubled(conv'[c])) +
                      (IF pc'[c] \in {"idle", "ended"} /\ EndsWith(conv'[c], {"user"}) THEN 1 ELSE 0)
                        <= unheard'[c]
  BY DEF UserInv
<1>t. /\ TypeInv /\ c \in Callers /\ conv[c] \in Seq(Message) /\ conv'[c] \in Seq(Message)
      /\ Len(todo[c]) \in Nat /\ Len(todo'[c]) \in Nat
      /\ unheard[c] \in Nat /\ unheard'[c] \in Nat
  BY DEF IInv, TypeInv, Callers
<1>m. /\ <<"user">> \in Message /\ <<"said">> \in Message
      /\ <<"uses", Len(todo'[c])>> \in Message /\ <<"result", Len(todo[c])>> \in Message
  BY <1>t DEF Message
<1> DEFINE prior == Cardinality(Doubled(conv[c]))
           after == Cardinality(Doubled(conv'[c]))
           last == IF EndsWith(conv[c], {"user"}) THEN 1 ELSE 0
<1>n. prior \in Nat /\ after \in Nat /\ last \in 0..1
  BY <1>t, DoubledFinite
<1>u. prior + (IF pc[c] \in {"idle", "ended"} /\ EndsWith(conv[c], {"user"}) THEN 1 ELSE 0)
        <= unheard[c]
  BY DEF IInv, UserInv
<1>v. /\ prior <= unheard[c]
      /\ pc[c] \in {"idle", "ended"} => prior + last <= unheard[c]
  <2> HIDE DEF prior
  <2>1. QED
    BY <1>n, <1>u, <1>t
<1>g. ASSUME after <= unheard'[c],
             pc'[c] \in {"idle", "ended"} /\ EndsWith(conv'[c], {"user"}) => after + 1 <= unheard'[c]
      PROVE  after + (IF pc'[c] \in {"idle", "ended"} /\ EndsWith(conv'[c], {"user"}) THEN 1 ELSE 0)
               <= unheard'[c]
  <2> HIDE DEF after
  <2>1. QED
    BY <1>n, <1>g, <1>t
<1>1. CASE Still(c)
  <2>1. after = prior /\ unheard'[c] = unheard[c] /\ conv'[c] = conv[c]
    BY <1>1 DEF Still
  <2>2. pc'[c] \in {"idle", "ended"} => pc[c] \in {"idle", "ended"}
    BY <1>1 DEF Still, InTools
  <2>3. pc'[c] \in {"idle", "ended"} /\ EndsWith(conv'[c], {"user"}) => prior + 1 <= unheard[c]
    BY <1>v, <2>1, <2>2
  <2>4. QED
    BY <1>v, <1>g, <2>1, <2>3
<1>2. CASE Opens(c)
  <2>1. after <= prior + last
    BY <1>2, <1>t, <1>m, AppendDoubled DEF Opens
  <2>2. pc'[c] = "round" /\ unheard'[c] = unheard[c] /\ prior + last <= unheard[c]
    BY <1>2, <1>v DEF Opens
  <2>3. after <= unheard'[c]
    <3> HIDE DEF prior, after, last
    <3>1. QED
      BY <1>n, <1>t, <2>1, <2>2
  <2>4. QED
    BY <1>g, <2>2, <2>3
<1>3. CASE Afresh(c)
  <2>1. Doubled(conv'[c]) = {}
    BY <1>3, StartSound DEF Afresh
  <2>2. after = 0
    BY <2>1, FS_EmptySet
  <2>3. ~(pc'[c] \in {"idle", "ended"} /\ EndsWith(conv'[c], {"user"}))
    BY <1>3 DEF Afresh, EndsWith
  <2>4. QED
    BY <1>g, <1>t, <2>2, <2>3
<1>4. CASE AsksModel(c)
  <2>1. after <= prior /\ pc'[c] = "calling" /\ unheard'[c] = unheard[c]
    BY <1>4, <1>t, CompactDoubled DEF AsksModel
  <2>2. after <= unheard'[c]
    <3> HIDE DEF prior, after
    <3>1. QED
      BY <1>n, <1>t, <1>v, <2>1
  <2>3. QED
    BY <1>g, <2>1, <2>2
<1>5. CASE GivesUp(c)
  <2>1. after <= prior
    <3>1. Cardinality(Doubled(Compact(conv[c]))) <= prior /\ prior <= prior
      BY <1>t, <1>n, CompactDoubled
    <3>2. QED
      BY <1>5, <3>1 DEF GivesUp
  <2>2. unheard'[c] = unheard[c] + 1
    BY <1>5 DEF GivesUp
  <2>3. after <= unheard'[c] /\ after + 1 <= unheard'[c]
    <3> HIDE DEF prior, after
    <3>1. QED
      BY <1>n, <1>t, <1>v, <2>1, <2>2
  <2>4. QED
    BY <1>g, <2>3
<1>6. CASE Says(c)
  <2>1. <<"said">>[1] # "user" /\ <<"said">>[1] \notin {"user"}
    OBVIOUS
  <2>2. after <= prior /\ unheard'[c] = unheard[c]
    BY <1>6, <1>t, <1>m, <2>1, PushDoubled DEF Says
  <2>3. ~EndsWith(conv'[c], {"user"})
    BY <1>6, <1>t, <1>m, <2>1, PushEnds DEF Says
  <2>4. after <= unheard'[c]
    <3> HIDE DEF prior, after
    <3>1. QED
      BY <1>n, <1>t, <1>v, <2>2
  <2>5. QED
    BY <1>g, <2>3, <2>4
<1>7. CASE Calls(c) \/ Gets(c)
  <2>1. /\ <<"uses", Len(todo'[c])>>[1] # "user"
        /\ <<"result", Len(todo[c])>>[1] # "user"
    OBVIOUS
  <2>2. after <= prior /\ unheard'[c] = unheard[c]
    BY <1>7, <1>t, <1>m, <2>1, PushDoubled DEF Calls, Gets
  <2>3. pc'[c] \notin {"idle", "ended"}
    BY <1>7 DEF Calls, Gets
  <2>4. after <= unheard'[c]
    <3> HIDE DEF prior, after
    <3>1. QED
      BY <1>n, <1>t, <1>v, <2>2
  <2>5. QED
    BY <1>g, <2>3, <2>4
<1>8. QED
  BY <1>1, <1>2, <1>3, <1>4, <1>5, <1>6, <1>7, Moves DEF Move

LEMMA CourseStep == IInv /\ [Next]_vars /\ TypeInv' => CourseInv'
<1> SUFFICES ASSUME IInv, [Next]_vars, TypeInv' PROVE CourseInv'
  OBVIOUS
<1>1. setup'.mode # "mailbox" => \A c \in Workers : ~alive'[c]
  BY SetupKept DEF IInv, CourseInv
<1>2. ASSUME NEW c \in Workers
      PROVE  /\ todo'[c] # << >> <=> pc'[c] \in InTools
             /\ llm'[c].state # "idle" <=> pc'[c] = "calling"
             /\ pc'[c] = "ended" => outcome'[c] # "none"
  <2>c. /\ todo[c] # << >> <=> pc[c] \in InTools
        /\ llm[c].state # "idle" <=> pc[c] = "calling"
        /\ pc[c] = "ended" => outcome[c] # "none"
    BY DEF IInv, CourseInv
  <2>1. CASE Still(c)
    BY <2>1, <2>c DEF Still, InTools
  <2>2. CASE Opens(c) \/ Afresh(c) \/ AsksModel(c) \/ GivesUp(c) \/ Says(c)
    BY <2>2, <2>c DEF Opens, Afresh, AsksModel, GivesUp, Says, InTools
  <2>3. CASE Calls(c)
    BY <2>3, <2>c DEF Calls, InTools
  <2>4. CASE Gets(c)
    <3>1. todo[c] # << >> /\ todo[c] \in Seq(Tools)
      BY <2>4, <2>c DEF Gets, IInv, TypeInv, Callers
    <3>a. Tail(todo[c]) \in Seq(Tools) /\ Len(Tail(todo[c])) = Len(todo[c]) - 1 /\ Len(todo[c]) \in Nat
      BY <3>1
    <3>b. Tail(todo[c]) # << >> <=> Len(Tail(todo[c])) # 0
      BY <3>a, EmptySeq
    <3>2. Tail(todo[c]) # << >> <=> Len(todo[c]) # 1
      BY <3>a, <3>b
    <3>3. QED
      BY <2>4, <3>2 DEF Gets, InTools
  <2>5. QED
    BY <2>1, <2>2, <2>3, <2>4, Moves DEF Move
<1>3. QED
  BY <1>1, <1>2 DEF CourseInv

-----------------------------------------------------------------------------
(* The orchestrations. *)

\* Without mailboxes a turn that is over, or has not begun, stays so.
LEMMA TurnsQuiet ==
  ASSUME IInv, TurnNext, setup.mode # "mailbox", NEW d \in Workers
  PROVE  /\ asker'[d] = asker[d]
         /\ pc[d] \in {"idle", "ended"} => pc'[d] = pc[d] /\ outcome'[d] = outcome[d]
<1>t. /\ pc \in [Workers -> PCs] /\ outcome \in [Workers -> {"none", "ok", "err"}]
      /\ ~alive[d] /\ \A c \in Workers : ~alive[c]
  BY DEF IInv, TypeInv, CourseInv
<1>1. ASSUME NEW c \in Callers, Attempt(c) PROVE UNCHANGED <<asker, pc, outcome>>
  BY <1>1 DEF Attempt
<1>2. ASSUME NEW c \in Workers, TurnStep(c)
      PROVE  /\ UNCHANGED asker /\ pc[c] \notin {"idle", "ended"}
             /\ c # d => pc'[d] = pc[d] /\ outcome'[d] = outcome[d]
  <2>1. UNCHANGED asker /\ pc[c] \notin {"idle", "ended"}
    BY <1>2, <1>t DEF TurnStep, TakeMessage, Respond, BeginRound, TakeAnswer, LlmFails,
      PrepareTool, RunTool, ToolEnds, ReplyComes
  <2>2. c # d => pc'[d] = pc[d] /\ outcome'[d] = outcome[d]
    BY <1>2, <1>t DEF TurnStep, TakeMessage, StartTurn, Respond, BeginRound, TakeAnswer, LlmFails,
      PrepareTool, RunTool, ToolEnds, ReplyComes, AddResult, End
  <2>3. QED
    BY <2>1, <2>2
<1>3. ASSUME NEW c \in Workers, ClientSends(c) \/ RestartMailbox(c) \/ StopMailbox(c)
      PROVE  UNCHANGED <<asker, pc, outcome>>
  BY <1>3 DEF ClientSends, RestartMailbox, StopMailbox
<1>4. QED
  BY <1>1, <1>2, <1>3 DEF TurnNext

LEMMA ChainStep == IInv /\ [Next]_vars => ChainInv'
<1> SUFFICES ASSUME IInv, [Next]_vars, setup.mode = "chain"
             PROVE  /\ job'.stage <= Len(Order)
                    /\ \A i \in DOMAIN Order :
                         /\ i > job'.stage => pc'[Order[i]] = "idle"
                         /\ i <= job'.stage => asker'[Order[i]] = Fed(i)
                         /\ i < job'.stage => pc'[Order[i]] = "ended" /\ outcome'[Order[i]] = "ok"
                    /\ job'.ended # "no" => StageEnded'
                    /\ job'.ended = "ok" => /\ job'.stage = Len(Order) /\ outcome'[Order[job'.stage]] = "ok"
                                            /\ job'.input = Order[job'.stage]
  BY SetupKept DEF ChainInv
<1>o. /\ \A i \in DOMAIN Order : Order[i] \in Workers
      /\ \A i, j \in DOMAIN Order : Order[i] = Order[j] => i = j
      /\ Len(Order) \in Nat /\ DOMAIN Order = 1..Len(Order) /\ job.stage \in Nat
      /\ Len(Order) > 0
  BY OrchestrationAssumption DEF IInv, TypeInv, Job
<1>t. /\ pc \in [Workers -> PCs] /\ outcome \in [Workers -> {"none", "ok", "err"}] /\ job \in Job
      /\ DOMAIN asker = Workers
  BY DEF IInv, TypeInv
<1>c. /\ job.stage <= Len(Order)
      /\ \A i \in DOMAIN Order : /\ i > job.stage => pc[Order[i]] = "idle"
                                 /\ i <= job.stage => asker[Order[i]] = Fed(i)
                                 /\ i < job.stage => pc[Order[i]] = "ended" /\ outcome[Order[i]] = "ok"
      /\ job.ended # "no" => StageEnded
      /\ job.ended = "ok" => /\ job.stage = Len(Order) /\ outcome[Order[job.stage]] = "ok"
                             /\ job.input = Order[job.stage]
  BY DEF IInv, ChainInv
<1>s. job.stage > 0 => job.stage \in DOMAIN Order
  BY <1>o, <1>c
<1>1. CASE UNCHANGED vars
  BY <1>1, <1>c DEF vars, turnVars, StageEnded
<1>2. CASE TurnNext /\ UNCHANGED job
  <2>1. \A d \in Workers : /\ asker'[d] = asker[d]
                           /\ pc[d] = "idle" => pc'[d] = "idle"
                           /\ pc[d] = "ended" => pc'[d] = "ended" /\ outcome'[d] = outcome[d]
    BY <1>2, TurnsQuiet
  <2>2. StageEnded => /\ StageEnded' /\ outcome'[Order[job.stage]] = outcome[Order[job.stage]]
    BY <1>o, <1>s, <1>2, <2>1 DEF StageEnded
  <2>3. \A i \in DOMAIN Order : /\ i > job.stage => pc'[Order[i]] = "idle"
                                /\ i <= job.stage => asker'[Order[i]] = Fed(i)
                                /\ i < job.stage => pc'[Order[i]] = "ended" /\ outcome'[Order[i]] = "ok"
    BY <1>o, <1>c, <2>1
  <2>4. QED
    BY <1>c, <1>2, <2>2, <2>3
<1>3. CASE ChainRuns
  <2>1. /\ job.stage + 1 \in DOMAIN Order /\ job'.stage = job.stage + 1 /\ job'.ended = "no"
        /\ Order[job.stage + 1] \in Workers
    BY <1>3, <1>o, <1>t DEF ChainRuns, Running, Job
  <2> DEFINE c == Order[job.stage + 1]
  <2>2. /\ pc' = [pc EXCEPT ![c] = "round"] /\ asker' = [asker EXCEPT ![c] = Fed(job.stage + 1)]
        /\ UNCHANGED outcome
    BY <1>3 DEF ChainRuns, RunAgent
  <2>3. job.stage > 0 => pc[Order[job.stage]] = "ended" /\ outcome[Order[job.stage]] = "ok"
    <3>1. ASSUME job.stage > 0 PROVE pc[Order[job.stage]] = "ended" /\ outcome[Order[job.stage]] # "err"
      BY <1>3, <1>o, <3>1 DEF ChainRuns, StageEnded, StageFailed
    <3>2. ASSUME job.stage > 0 PROVE outcome[Order[job.stage]] \in {"ok", "err"}
      <4>1. Order[job.stage] \in Workers
        BY <1>o, <1>s, <3>2
      <4>2. QED
        BY <1>t, <3>1, <3>2, <4>1 DEF IInv, CourseInv
    <3>3. QED
      BY <3>1, <3>2
  <2>4. ASSUME NEW i \in DOMAIN Order, i # job.stage + 1
        PROVE  pc'[Order[i]] = pc[Order[i]] /\ asker'[Order[i]] = asker[Order[i]]
    <3>1. Order[i] # c /\ Order[i] \in Workers
      BY <1>o, <2>1, <2>4
    <3>2. QED
      BY <1>t, <2>2, <3>1
  <2>5. asker'[c] = Fed(job.stage + 1)
    BY <1>t, <2>1, <2>2
  <2>6. ASSUME NEW i \in DOMAIN Order
        PROVE  /\ i > job'.stage => pc'[Order[i]] = "idle"
               /\ i <= job'.stage => asker'[Order[i]] = Fed(i)
               /\ i < job'.stage => pc'[Order[i]] = "ended" /\ outcome'[Order[i]] = "ok"
    <3>0. i \in Nat
      BY <1>o
    <3>1. CASE i = job.stage + 1
      BY <1>o, <2>1, <2>5, <3>1
    <3>2. CASE i = job.stage
      <4>1. i # job.stage + 1 /\ i <= job.stage /\ job.stage > 0 /\ ~(i > job.stage + 1)
        BY <1>o, <3>2
      <4>2. QED
        BY <1>c, <2>1, <2>2, <2>3, <2>4, <3>2, <4>1
    <3>3. CASE i < job.stage
      <4>1. i # job.stage + 1 /\ i <= job.stage /\ ~(i > job.stage + 1)
        BY <1>o, <3>0, <3>3
      <4>2. QED
        BY <1>c, <2>1, <2>2, <2>4, <3>3, <4>1
    <3>4. CASE i > job.stage + 1
      <4>1. i # job.stage + 1 /\ i > job.stage /\ ~(i <= job.stage + 1) /\ ~(i < job.stage + 1)
        BY <1>o, <3>0, <3>4
      <4>2. QED
        BY <1>c, <2>1, <2>4, <4>1
    <3>5. QED
      BY <1>o, <3>0, <3>1, <3>2, <3>3, <3>4
  <2>7. job'.stage <= Len(Order)
    BY <1>o, <2>1
  <2>8. QED
    BY <2>1, <2>6, <2>7
<1>4. CASE ChainEnds
  <2>1. /\ job'.stage = job.stage /\ UNCHANGED <<pc, outcome, asker>> /\ StageEnded
        /\ job'.ended = IF StageFailed THEN "err" ELSE "ok"
        /\ job'.input = IF StageFailed THEN job.input ELSE Order[job.stage]
        /\ StageFailed \/ job.stage = Len(Order)
    BY <1>4, <1>t DEF ChainEnds, Job, Feed
  <2>2. StageEnded'
    BY <2>1 DEF StageEnded
  <2>3. ~StageFailed => outcome[Order[job.stage]] = "ok"
    <3>1. job.stage > 0 /\ pc[Order[job.stage]] = "ended" /\ Order[job.stage] \in Workers
      BY <1>o, <1>s, <2>1 DEF StageEnded
    <3>2. outcome[Order[job.stage]] \in {"ok", "err"}
      BY <1>t, <3>1 DEF IInv, CourseInv
    <3>3. QED
      BY <2>1, <3>2 DEF StageFailed
  <2>4. QED
    BY <1>c, <2>1, <2>2, <2>3
<1>5. ASSUME JobNext PROVE ChainRuns \/ ChainEnds
  BY <1>5 DEF JobNext, ParallelStarts, ParallelCollects, ParallelMerges, ParallelMerged, RouterAsks,
    RouterPicks, SupervisorAsks, SupervisorAnswered, SupervisorDelegates, SupervisorHears, Running
<1>6. QED
  BY <1>1, <1>2, <1>3, <1>4, <1>5 DEF Next

LEMMA ParallelStep == IInv /\ [Next]_vars => ParallelInv'
<1> SUFFICES ASSUME IInv, [Next]_vars, setup.mode = "parallel"
             PROVE  /\ Len(job'.results) <= Len(Order)
                    /\ \A i \in 1..Len(job'.results) :
                         job'.results[i] = Order[i] /\ pc'[Order[i]] = "ended"
                    /\ job'.stage = 0 => job'.results = << >> /\ \A c \in Workers : pc'[c] = "idle"
                    /\ job'.ended # "no" \/ llm'[Boss].state # "idle" => Len(job'.results) = Len(Order)
  BY SetupKept DEF ParallelInv, BossIsIdle, BossHas
<1>o. /\ \A i \in DOMAIN Order : Order[i] \in Workers
      /\ Len(Order) \in Nat /\ DOMAIN Order = 1..Len(Order) /\ Len(Order) > 0
      /\ job.results \in Seq(Workers) /\ Len(job.results) \in Nat
  BY OrchestrationAssumption DEF IInv, TypeInv, Job
<1>t. pc \in [Workers -> PCs] /\ job \in Job /\ llm \in [Callers -> Call] /\ Boss \in Callers
  BY DEF IInv, TypeInv, Callers
<1>p. /\ Len(job.results) <= Len(Order)
      /\ \A i \in 1..Len(job.results) : job.results[i] = Order[i] /\ pc[Order[i]] = "ended"
      /\ job.stage = 0 => job.results = << >> /\ \A c \in Workers : pc[c] = "idle"
      /\ job.ended # "no" \/ llm[Boss].state # "idle" => Len(job.results) = Len(Order)
  BY DEF IInv, ParallelInv, BossIsIdle, BossHas
<1>w. \A i \in 1..Len(job.results) : Order[i] \in Workers
  BY <1>o, <1>p
<1>1. CASE UNCHANGED vars
  BY <1>1, <1>p DEF vars, turnVars
<1>2. CASE TurnNext /\ UNCHANGED job
  <2>1. \A d \in Workers : /\ pc[d] = "idle" => pc'[d] = "idle"
                           /\ pc[d] = "ended" => pc'[d] = "ended"
    BY <1>2, TurnsQuiet
  <2>2. llm'[Boss].state = "idle" <=> llm[Boss].state = "idle"
    BY <1>2, TurnsLeaveBoss
  <2>3. QED
    BY <1>2, <1>p, <1>w, <2>1, <2>2
<1>3. CASE ParallelStarts
  <2>1. /\ job'.stage = Len(Order) /\ job'.results = job.results /\ job'.ended = job.ended
        /\ job.results = << >> /\ UNCHANGED llm
    BY <1>3, <1>t, <1>p DEF ParallelStarts, Job
  <2>2. Len(job'.results) = 0
    BY <2>1
  <2>3. job'.ended = "no" /\ llm'[Boss].state = "idle"
    BY <1>3, <1>o, <1>p, <2>1, <2>2 DEF ParallelStarts, Running
  <2>4. QED
    BY <1>o, <2>1, <2>2, <2>3
<1>4. CASE ParallelCollects
  <2> DEFINE n == Len(job.results) + 1
  <2>1. n \in DOMAIN Order /\ n <= Len(Order) /\ pc[Order[n]] = "ended" /\ UNCHANGED <<pc, llm>>
        /\ Order[n] \in Workers /\ job.stage > 0 /\ Len(job.results) # Len(Order)
    BY <1>4, <1>o DEF ParallelCollects, NextResult
  <2>2. job'.stage = job.stage /\ job'.ended = job.ended /\ job'.results = Append(job.results, Order[n])
    BY <1>4, <1>t DEF ParallelCollects, NextResult, Job
  <2>3. /\ Len(job'.results) = n /\ job'.results[n] = Order[n]
        /\ \A i \in 1..Len(job.results) : job'.results[i] = job.results[i]
    BY <1>o, <2>1, <2>2
  <2>4. \A i \in 1..n : i = n \/ i \in 1..Len(job.results)
    BY <1>o
  <2>5. job.ended = "no" /\ llm[Boss].state = "idle"
    BY <1>p, <2>1
  <2>6. job'.stage # 0
    BY <2>1, <2>2, <1>t DEF Job
  <2>7. \A i \in 1..Len(job'.results) : job'.results[i] = Order[i] /\ pc'[Order[i]] = "ended"
    BY <1>p, <2>1, <2>3, <2>4
  <2>8. QED
    BY <2>1, <2>2, <2>3, <2>5, <2>6, <2>7
<1>5. CASE ParallelMerges \/ ParallelMerged
  <2>1. job'.stage = job.stage /\ job'.results = job.results /\ UNCHANGED pc
    BY <1>5, <1>t DEF ParallelMerges, ParallelMerged, Job
  <2>2. Len(job.results) = Len(Order)
    BY <1>5, <1>p DEF ParallelMerges, ParallelMerged
  <2>3. QED
    BY <1>p, <2>1, <2>2
<1>6. ASSUME JobNext PROVE ParallelStarts \/ ParallelCollects \/ ParallelMerges \/ ParallelMerged
  BY <1>6 DEF JobNext, ChainRuns, ChainEnds, RouterAsks, RouterPicks, SupervisorAsks,
    SupervisorAnswered, SupervisorDelegates, SupervisorHears, Running
<1>7. QED
  BY <1>1, <1>2, <1>3, <1>4, <1>5, <1>6 DEF Next

LEMMA BossStep == IInv /\ [Next]_vars /\ TypeInv' => BossInv'
<1> SUFFICES ASSUME IInv, [Next]_vars, TypeInv'
             PROVE  /\ \A i \in 2..Len(conv'[Boss]) : conv'[Boss][i] # <<"user">>
                    /\ llm'[Boss].state = "trying" => EndsWith(conv'[Boss], {"user", "result"})
                    /\ llm'[Boss].state # "idle" => todo'[Boss] = << >>
                    /\ setup.mode # "supervisor" => todo'[Boss] = << >>
                    /\ setup.mode = "supervisor" =>
                         /\ job'.stage = 0 =>
                              conv'[Boss] = << >> /\ todo'[Boss] = << >> /\ llm'[Boss].state = "idle"
                         /\ todo'[Boss] = << >> /\ job'.stage > 0 =>
                              EndsWith(conv'[Boss], {"user", "result"})
  BY SetupKept DEF BossInv, BossIsIdle, BossHas
<1>t. /\ llm \in [Callers -> Call] /\ conv \in [Callers -> Seq(Message)] /\ pc \in [Workers -> PCs]
      /\ todo \in [Callers -> Seq(Tools)] /\ todo' \in [Callers -> Seq(Tools)]
      /\ Boss \in Callers /\ Boss \notin Workers
      /\ \A i \in DOMAIN Order : Order[i] \in Workers
      /\ job \in Job /\ job.stage \in Nat /\ Len(Order) \in Nat /\ DOMAIN Order = 1..Len(Order)
      /\ conv[Boss] \in Seq(Message) /\ Len(conv[Boss]) \in Nat
      /\ Len(todo[Boss]) \in Nat /\ Len(todo'[Boss]) \in Nat
  <2>1. /\ llm \in [Callers -> Call] /\ conv \in [Callers -> Seq(Message)] /\ pc \in [Workers -> PCs]
        /\ todo \in [Callers -> Seq(Tools)] /\ todo' \in [Callers -> Seq(Tools)]
        /\ Boss \in Callers /\ Boss \notin Workers /\ job \in Job
    BY AgentTurnAssumption DEF IInv, TypeInv, Callers
  <2>2. /\ conv[Boss] \in Seq(Message) /\ todo[Boss] \in Seq(Tools) /\ todo'[Boss] \in Seq(Tools)
    BY <2>1
  <2>3. Len(conv[Boss]) \in Nat /\ Len(todo[Boss]) \in Nat /\ Len(todo'[Boss]) \in Nat
    BY <2>2
  <2>4. /\ \A i \in DOMAIN Order : Order[i] \in Workers
        /\ Len(Order) \in Nat /\ DOMAIN Order = 1..Len(Order)
    BY OrchestrationAssumption
  <2>5. job.stage \in Nat
    BY <2>1 DEF Job
  <2>6. QED
    BY <2>1, <2>2, <2>3, <2>4, <2>5
<1>b. /\ \A i \in 2..Len(conv[Boss]) : conv[Boss][i] # <<"user">>
      /\ llm[Boss].state = "trying" => EndsWith(conv[Boss], {"user", "result"})
      /\ llm[Boss].state # "idle" => todo[Boss] = << >>
      /\ setup.mode # "supervisor" => todo[Boss] = << >>
      /\ setup.mode = "supervisor" =>
           /\ job.stage = 0 => conv[Boss] = << >> /\ todo[Boss] = << >> /\ llm[Boss].state = "idle"
           /\ todo[Boss] = << >> /\ job.stage > 0 => EndsWith(conv[Boss], {"user", "result"})
  BY DEF IInv, BossInv, BossIsIdle, BossHas
<1>i. NoCall.state = "idle" /\ Asked.state = "trying" /\ EndsWith(<< <<"user">> >>, {"user", "result"})
  BY DEF NoCall, Asked, EndsWith
<1>m. <<"uses", Len(todo'[Boss])>> \in Message /\ <<"result", Len(todo[Boss])>> \in Message
  BY <1>t DEF Message
<1>1. \A i \in 2..Len(conv'[Boss]) : conv'[Boss][i] # <<"user">>
  <2>1. ASSUME NEW m \in Message, m # <<"user">>, conv'[Boss] = Append(conv[Boss], m)
        PROVE  \A i \in 2..Len(conv'[Boss]) : conv'[Boss][i] # <<"user">>
    <3>1. \A i \in 2..Len(conv'[Boss]) : i \in 2..Len(conv[Boss]) \/ i = Len(conv[Boss]) + 1
      BY <1>t, <2>1, AppendFacts
    <3>2. \A i \in 2..Len(conv[Boss]) : i \in 1..Len(conv[Boss])
      BY <1>t
    <3>3. /\ \A i \in 1..Len(conv[Boss]) : conv'[Boss][i] = conv[Boss][i]
          /\ conv'[Boss][Len(conv[Boss]) + 1] = m
      BY <1>t, <2>1, AppendFacts
    <3>4. QED
      BY <1>b, <2>1, <3>1, <3>2, <3>3
  <2>2. <<"uses", Len(todo'[Boss])>> # <<"user">> /\ <<"result", Len(todo[Boss])>> # <<"user">>
    OBVIOUS
  <2>3. CASE conv'[Boss] = << <<"user">> >>
    <3>1. 2..Len(<< <<"user">> >>) = {}
      OBVIOUS
    <3>2. QED
      BY <2>3, <3>1
  <2>4. QED
    BY <1>b, <1>m, <2>1, <2>2, <2>3, BossMoves DEF BossMove
<1>2. CASE UNCHANGED vars
  BY <1>1, <1>2, <1>b DEF vars, turnVars
<1>3. CASE TurnNext /\ UNCHANGED job
  BY <1>1, <1>3, <1>b, TurnsLeaveBoss
<1>4. CASE ChainRuns \/ ChainEnds \/ ParallelStarts \/ ParallelCollects
  <2>1. UNCHANGED <<llm, todo>> /\ setup.mode # "supervisor"
    BY <1>4 DEF ChainRuns, ChainEnds, ParallelStarts, ParallelCollects, Running
  <2>2. CASE ChainRuns
    <3>1. job.stage + 1 \in DOMAIN Order
      BY <1>t, <2>2 DEF ChainRuns
    <3>2. Order[job.stage + 1] # Boss
      BY <1>t, <3>1
    <3>3. conv'[Boss] = conv[Boss]
      BY <1>t, <2>2, <3>2 DEF ChainRuns, RunAgent
    <3>4. QED
      BY <1>1, <1>b, <2>1, <3>3
  <2>3. CASE ParallelStarts
    <3>1. Boss \notin Names
      BY <1>t DEF Names
    <3>2. conv'[Boss] = conv[Boss]
      BY <1>t, <2>3, <3>1 DEF ParallelStarts
    <3>3. QED
      BY <1>1, <1>b, <2>1, <3>2
  <2>4. CASE ChainEnds \/ ParallelCollects
    BY <1>1, <1>b, <2>1, <2>4 DEF ChainEnds, ParallelCollects
  <2>5. QED
    BY <1>4, <2>2, <2>3, <2>4
<1>5. CASE ParallelMerges \/ RouterAsks
  <2>1. UNCHANGED todo /\ setup.mode # "supervisor"
    BY <1>5 DEF ParallelMerges, RouterAsks, Running
  <2>2. \/ UNCHANGED <<llm, conv>>
        \/ conv' = [conv EXCEPT ![Boss] = << <<"user">> >>]
    BY <1>5 DEF ParallelMerges, RouterAsks
  <2>3. UNCHANGED <<llm, conv>> \/ conv'[Boss] = << <<"user">> >>
    BY <1>t, <2>2
  <2>4. QED
    BY <1>1, <1>b, <1>i, <2>1, <2>3
<1>6. CASE ParallelMerged \/ RouterPicks
  <2>1. UNCHANGED <<todo, conv>> /\ setup.mode # "supervisor" /\ llm'[Boss].state = "idle"
    BY <1>6, <1>t, <1>i DEF ParallelMerged, RouterPicks, Running, BossDone
  <2>2. QED
    BY <1>1, <1>b, <2>1
<1>7. CASE SupervisorAsks
  <2>1. UNCHANGED todo /\ todo[Boss] = << >> /\ setup.mode = "supervisor"
    BY <1>7 DEF SupervisorAsks, Running
  <2>2. CASE job.stage = MaxRounds
    <3>1. UNCHANGED <<llm, conv>> /\ job'.stage = job.stage
      BY <1>7, <1>t, <2>2 DEF SupervisorAsks, Job
    <3>2. QED
      BY <1>1, <1>b, <2>1, <3>1
  <2>3. CASE job.stage # MaxRounds
    <3>1. job'.stage = job.stage + 1 /\ job'.stage # 0 /\ llm'[Boss].state = "trying"
      BY <1>7, <1>t, <1>i, <2>3 DEF SupervisorAsks, AskBoss, Job
    <3>2. CASE job.stage = 0
      <4>1. conv'[Boss] = Append(conv[Boss], <<"user">>) /\ conv[Boss] = << >>
        BY <1>7, <1>t, <1>b, <2>1, <2>3, <3>2 DEF SupervisorAsks, BossPush
      <4>2. Append(<< >>, <<"user">>) = << <<"user">> >>
        OBVIOUS
      <4>3. QED
        BY <1>1, <1>i, <2>1, <3>1, <4>1, <4>2
    <3>3. CASE job.stage # 0
      <4>1. UNCHANGED conv /\ job.stage > 0
        BY <1>7, <1>t, <2>3, <3>3 DEF SupervisorAsks
      <4>2. QED
        BY <1>1, <1>b, <2>1, <3>1, <4>1
    <3>4. QED
      BY <3>2, <3>3
  <2>4. QED
    BY <2>2, <2>3
<1>8. CASE SupervisorAnswered
  <2>1. /\ llm[Boss].state # "idle" /\ llm'[Boss].state = "idle" /\ setup.mode = "supervisor"
        /\ todo[Boss] = << >> /\ job.stage # 0
    BY <1>8, <1>t, <1>i, <1>b DEF SupervisorAnswered, Running, BossDone
  <2>2. job'.stage = job.stage
    BY <1>8, <1>t DEF SupervisorAnswered, Job
  <2>3. CASE UNCHANGED <<conv, todo>>
    BY <1>1, <1>b, <2>1, <2>2, <2>3
  <2>4. CASE ~UNCHANGED <<conv, todo>>
    <3>1. PICK a \in BossAnswers : a.calls # << >> /\ todo' = [todo EXCEPT ![Boss] = a.calls]
      BY <1>8, <2>4 DEF SupervisorAnswered
    <3>2. todo'[Boss] # << >>
      BY <1>t, <3>1
    <3>3. QED
      BY <1>1, <2>1, <2>2, <3>2
  <2>5. QED
    BY <2>3, <2>4
<1>9. CASE SupervisorDelegates
  <2>1. Delegated # Boss
    BY <1>9, <1>t DEF SupervisorDelegates, Names
  <2>2. conv'[Boss] = conv[Boss] /\ UNCHANGED <<llm, todo, job>>
    BY <1>9, <1>t, <2>1 DEF SupervisorDelegates, RunAgent
  <2>3. QED
    BY <1>1, <1>b, <2>2
<1>10. CASE SupervisorHears
  <2>1. /\ todo[Boss] # << >> /\ conv'[Boss] = Append(conv[Boss], <<"result", Len(todo[Boss])>>)
        /\ UNCHANGED <<llm, job>> /\ setup.mode = "supervisor"
    BY <1>10, <1>t DEF SupervisorHears, BossPush, Running
  <2>2. job.stage # 0 /\ llm[Boss].state = "idle"
    BY <1>b, <2>1
  <2>3. EndsWith(conv'[Boss], {"user", "result"})
    <3>1. <<"result", Len(todo[Boss])>>[1] \in {"user", "result"}
      OBVIOUS
    <3>2. QED
      BY <1>t, <1>m, <2>1, <3>1, LastOfAppend
  <2>4. QED
    BY <1>1, <2>1, <2>2, <2>3
<1>11. QED
  BY <1>2, <1>3, <1>4, <1>5, <1>6, <1>7, <1>8, <1>9, <1>10 DEF Next, JobNext

-----------------------------------------------------------------------------
(* The budget. *)

\* The calls that are under way keep to the room that is left.
Headroom(count, under, max) == count + Cardinality(under) <= max + Cardinality(Workers) - 1

\* A step that begins a call while there is budget, one that charges a call that
\* ends, and one that does neither.
LEMMA RoomKept ==
  ASSUME NEW count \in Nat, NEW next \in Nat, NEW max \in Nat,
         NEW under, NEW rest, under \subseteq Workers, rest \subseteq Workers,
         Headroom(count, under, max),
         \/ next = count /\ rest \subseteq under
         \/ next = count /\ count < max
         \/ next = count + 1 /\ \E c \in under : rest \subseteq under \ {c}
  PROVE  Headroom(next, rest, max)
<1>1. /\ IsFiniteSet(Workers) /\ IsFiniteSet(under) /\ IsFiniteSet(rest)
      /\ Cardinality(Workers) \in Nat /\ Cardinality(under) \in Nat /\ Cardinality(rest) \in Nat
      /\ Cardinality(rest) <= Cardinality(Workers)
  BY AgentTurnAssumption, FS_Subset, FS_CardinalityType
<1>2. CASE next = count /\ rest \subseteq under
  <2>1. Cardinality(rest) <= Cardinality(under)
    BY <1>1, <1>2, FS_Subset
  <2>2. QED
    BY <1>1, <1>2, <2>1 DEF Headroom
<1>3. CASE next = count /\ count < max
  BY <1>1, <1>3 DEF Headroom
<1>4. ASSUME NEW c \in under, next = count + 1, rest \subseteq under \ {c} PROVE Headroom(next, rest, max)
  <2>1. IsFiniteSet(under \ {c}) /\ Cardinality(under \ {c}) = Cardinality(under) - 1
    BY <1>1, FS_RemoveElement
  <2>2. Cardinality(rest) <= Cardinality(under) - 1
    BY <1>4, <2>1, FS_Subset
  <2>3. QED
    BY <1>1, <1>4, <2>2 DEF Headroom
<1>5. QED
  BY <1>2, <1>3, <1>4

\* What a step does to a count of the budget and to what is under way.
Charges(count, next, under, rest, max) ==
  \/ next = count /\ rest \subseteq under
  \/ next = count /\ count < max
  \/ next = count + 1 /\ \E c \in under : rest \subseteq under \ {c}

LEMMA BudgetMoves ==
  ASSUME IInv, [Next]_vars, Charged
  PROVE  /\ Charges(used.tokens, used'.tokens, InCall, InCall', MaxTokens)
         /\ Charges(used.calls, used'.calls, InTool, InTool', MaxToolCalls)
<1>t. pc \in [Workers -> PCs] /\ used \in [tokens : Nat, calls : Nat]
  BY DEF IInv, TypeInv
<1>s. ASSUME UNCHANGED used, InCall' \subseteq InCall, InTool' \subseteq InTool
      PROVE  /\ Charges(used.tokens, used'.tokens, InCall, InCall', MaxTokens)
             /\ Charges(used.calls, used'.calls, InTool, InTool', MaxToolCalls)
  BY <1>s DEF Charges
<1>k. ASSUME NEW c \in Workers, pc' = [pc EXCEPT ![c] = pc'[c]]
      PROVE  /\ pc'[c] # "calling" => InCall' = InCall \ {c}
             /\ pc'[c] # "ready" => InTool' = InTool \ {c}
  BY <1>k, <1>t DEF InCall, InTool
<1>1. CASE UNCHANGED vars
  BY <1>1, <1>s DEF vars, turnVars, InCall, InTool
<1>2. ASSUME NEW c \in Callers, Attempt(c)
      PROVE  /\ Charges(used.tokens, used'.tokens, InCall, InCall', MaxTokens)
             /\ Charges(used.calls, used'.calls, InTool, InTool', MaxToolCalls)
  BY <1>2, <1>s DEF Attempt, InCall, InTool
<1>3. ASSUME NEW c \in Workers, TurnStep(c)
      PROVE  /\ Charges(used.tokens, used'.tokens, InCall, InCall', MaxTokens)
             /\ Charges(used.calls, used'.calls, InTool, InTool', MaxToolCalls)
  <2>e. pc' = [pc EXCEPT ![c] = pc'[c]]
    BY <1>3, <1>t DEF TurnStep, TakeMessage, StartTurn, Respond, BeginRound, TakeAnswer, LlmFails,
      PrepareTool, RunTool, ToolEnds, ReplyComes, AddResult, End
  <2>1. CASE BeginRound(c)
    <3>1. UNCHANGED used /\ pc'[c] \in {"calling", "ended"} /\ (pc'[c] = "calling" => LlmBudgetLeft)
      BY <2>1, <1>t DEF BeginRound, End
    <3>2. InTool' \subseteq InTool
      BY <1>k, <2>e, <3>1
    <3>3. CASE pc'[c] = "calling"
      BY <3>1, <3>2, <3>3 DEF Charges, LlmBudgetLeft
    <3>4. CASE pc'[c] # "calling"
      BY <1>k, <1>s, <2>e, <3>1, <3>2, <3>4
    <3>5. QED
      BY <3>3, <3>4
  <2>2. CASE TakeAnswer(c)
    <3>1. /\ pc[c] = "calling" /\ pc'[c] \in {"ended", "tool"}
          /\ used'.tokens = used.tokens + 1 /\ used'.calls = used.calls
      BY <2>2, <1>t DEF TakeAnswer, End, Charge
    <3>2. InCall' = InCall \ {c} /\ c \in InCall /\ InTool' \subseteq InTool
      BY <1>k, <2>e, <3>1 DEF InCall
    <3>3. QED
      BY <3>1, <3>2 DEF Charges
  <2>3. CASE PrepareTool(c)
    <3>1. UNCHANGED used /\ pc'[c] \in {"round", "tool", "ready"} /\ (pc'[c] = "ready" => ToolBudgetLeft)
      BY <2>3, <1>t DEF PrepareTool, AddResult
    <3>2. InCall' \subseteq InCall
      BY <1>k, <2>e, <3>1
    <3>3. CASE pc'[c] = "ready"
      BY <3>1, <3>2, <3>3 DEF Charges, ToolBudgetLeft
    <3>4. CASE pc'[c] # "ready"
      BY <1>k, <1>s, <2>e, <3>1, <3>2, <3>4
    <3>5. QED
      BY <3>3, <3>4
  <2>4. CASE RunTool(c)
    <3>1. /\ pc[c] = "ready" /\ pc'[c] \in {"waiting", "running"}
          /\ used'.calls = used.calls + 1 /\ used'.tokens = used.tokens
      BY <2>4, <1>t DEF RunTool, Charge
    <3>2. InTool' = InTool \ {c} /\ c \in InTool /\ InCall' \subseteq InCall
      BY <1>k, <2>e, <3>1 DEF InTool
    <3>3. QED
      BY <3>1, <3>2 DEF Charges
  <2>5. CASE TakeMessage(c) \/ Respond(c) \/ LlmFails(c) \/ ToolEnds(c) \/ ReplyComes(c)
    <3>1. UNCHANGED used /\ pc'[c] \notin {"calling", "ready"}
      BY <2>5, <1>t DEF TakeMessage, StartTurn, Respond, LlmFails, ToolEnds, ReplyComes, AddResult, End
    <3>2. QED
      BY <1>k, <1>s, <2>e, <3>1
  <2>6. QED
    BY <1>3, <2>1, <2>2, <2>3, <2>4, <2>5 DEF TurnStep
<1>4. ASSUME NEW c \in Workers, ClientSends(c) \/ RestartMailbox(c) \/ StopMailbox(c)
      PROVE  /\ Charges(used.tokens, used'.tokens, InCall, InCall', MaxTokens)
             /\ Charges(used.calls, used'.calls, InTool, InTool', MaxToolCalls)
  <2>1. UNCHANGED <<pc, used>>
    BY <1>4 DEF ClientSends, RestartMailbox, StopMailbox
  <2>2. QED
    BY <1>s, <2>1 DEF InCall, InTool
<1>5. CASE JobNext
  <2>1. UNCHANGED used
    BY <1>5 DEF JobNext, ChainRuns, ChainEnds, ParallelStarts, ParallelCollects, ParallelMerges,
      ParallelMerged, RouterAsks, RouterPicks, SupervisorAsks, SupervisorAnswered,
      SupervisorDelegates, SupervisorHears, TurnsAlone
  <2>2. \A d \in Workers : pc'[d] = pc[d] \/ pc'[d] \in {"round", "idle"}
    BY <1>5, <1>t DEF JobNext, ChainRuns, ChainEnds, ParallelStarts, ParallelCollects, ParallelMerges,
      ParallelMerged, RouterAsks, RouterPicks, SupervisorAsks, SupervisorAnswered,
      SupervisorDelegates, SupervisorHears, RunAgent
  <2>3. InCall' \subseteq InCall /\ InTool' \subseteq InTool
    BY <2>2 DEF InCall, InTool
  <2>4. QED
    BY <1>s, <2>1, <2>3
<1>6. QED
  BY <1>1, <1>2, <1>3, <1>4, <1>5 DEF Next, TurnNext

LEMMA BudgetStep == IInv /\ [Next]_vars /\ TypeInv' => BudgetOverrunIsBounded'
<1> SUFFICES ASSUME IInv, [Next]_vars, TypeInv', Charged'
             PROVE  /\ Headroom(used'.tokens, InCall', MaxTokens)
                    /\ Headroom(used'.calls, InTool', MaxToolCalls)
  BY DEF BudgetOverrunIsBounded, Headroom
<1>1. Charged
  BY SetupKept DEF Charged
<1>2. Headroom(used.tokens, InCall, MaxTokens) /\ Headroom(used.calls, InTool, MaxToolCalls)
  BY <1>1 DEF IInv, BudgetOverrunIsBounded, Headroom
<1>3. /\ used.tokens \in Nat /\ used'.tokens \in Nat /\ used.calls \in Nat /\ used'.calls \in Nat
      /\ MaxTokens \in Nat /\ MaxToolCalls \in Nat
  BY AgentTurnAssumption DEF IInv, TypeInv
<1>4. /\ InCall \subseteq Workers /\ InCall' \subseteq Workers
      /\ InTool \subseteq Workers /\ InTool' \subseteq Workers
  BY DEF InCall, InTool
<1>5. Headroom(used'.tokens, InCall', MaxTokens)
  BY <1>1, <1>2, <1>3, <1>4, BudgetMoves, RoomKept DEF Charges
<1>6. Headroom(used'.calls, InTool', MaxToolCalls)
  BY <1>1, <1>2, <1>3, <1>4, BudgetMoves, RoomKept DEF Charges
<1>7. QED
  BY <1>5, <1>6

-----------------------------------------------------------------------------
(* The theorems. *)

LEMMA InitHolds == Init => IInv
<1> SUFFICES ASSUME Init PROVE IInv
  OBVIOUS
<1>i. /\ setup \in [mode : Modes, window : Windows]
      /\ llm = [c \in Callers |-> NoCall] /\ conv = [c \in Callers |-> << >>]
      /\ pc = [c \in Workers |-> "idle"] /\ todo = [c \in Callers |-> << >>]
      /\ outcome = [c \in Workers |-> "none"] /\ used = [tokens |-> 0, calls |-> 0]
      /\ asker = [c \in Workers |-> "nobody"] /\ alive = [c \in Workers |-> setup.mode = "mailbox"]
      /\ unheard = [c \in Callers |-> 0]
      /\ job = [stage |-> 0, input |-> "client", results |-> << >>, ended |-> "no"]
  BY DEF Init, TurnInit, JobInit
<1>c. NoCall \in Call /\ NoCall.state = "idle" /\ Workers \subseteq Callers /\ Boss \in Callers
  BY DEF NoCall, Call, Callers
<1>o. Len(Order) \in Nat /\ Len(Order) > 0 /\ DOMAIN Order = 1..Len(Order)
  BY OrchestrationAssumption
<1>j. job.stage = 0 /\ job.results = << >> /\ job.ended = "no"
  BY <1>i
<1>1. TypeInv
  <2>1. << >> \in Seq(Message) /\ << >> \in Seq(Tools) /\ << >> \in Seq(Workers)
    OBVIOUS
  <2>2. job \in Job
    BY <1>i, <2>1 DEF Job
  <2>3. llm \in [Callers -> Call] /\ conv \in [Callers -> Seq(Message)] /\ todo \in [Callers -> Seq(Tools)]
    BY <1>i, <1>c, <2>1
  <2>4. pc \in [Workers -> PCs] /\ outcome \in [Workers -> {"none", "ok", "err"}]
        /\ alive \in [Workers -> BOOLEAN]
    BY <1>i DEF PCs
  <2>5. used \in [tokens : Nat, calls : Nat] /\ unheard \in [Callers -> Nat]
    BY <1>i
  <2>6. DOMAIN asker = Workers /\ asker = [c \in Workers |-> asker[c]]
    BY <1>i
  <2>7. QED
    BY <1>i, <2>2, <2>3, <2>4, <2>5, <2>6 DEF TypeInv
<1>2. CourseInv
  BY <1>i, <1>c DEF CourseInv, InTools
<1>3. ChainInv
  <2>1. \A i \in DOMAIN Order : i > 0 /\ ~(i <= 0) /\ ~(i < 0)
    BY <1>o
  <2>2. \A i \in DOMAIN Order : pc[Order[i]] = "idle"
    BY <1>i, OrchestrationAssumption
  <2>3. QED
    BY <1>o, <1>j, <2>1, <2>2 DEF ChainInv
<1>4. ParallelInv
  <2>1. Len(job.results) = 0 /\ 1..Len(job.results) = {}
    BY <1>j
  <2>2. BossIsIdle /\ \A c \in Workers : pc[c] = "idle"
    BY <1>i, <1>c DEF BossIsIdle, BossHas
  <2>3. QED
    BY <1>o, <1>j, <2>1, <2>2 DEF ParallelInv
<1>5. SoundInv
  <2>1. \A c \in Callers : conv[c] = << >> /\ Len(todo[c]) = 0
    BY <1>i
  <2>2. QED
    BY <2>1, StartSound DEF SoundInv
<1>6. UncutInv /\ AskInv
  BY <1>i DEF UncutInv, AskInv
<1>7. UserInv
  <2>1. \A c \in Workers : conv[c] = << >> /\ unheard[c] = 0 /\ ~EndsWith(conv[c], {"user"})
    BY <1>i, <1>c DEF EndsWith
  <2>2. Cardinality(Doubled(<< >>)) = 0
    BY StartSound, FS_EmptySet
  <2>3. QED
    BY <2>1, <2>2 DEF UserInv
<1>8. BossInv
  <2>1. conv[Boss] = << >> /\ todo[Boss] = << >> /\ llm[Boss].state = "idle" /\ 2..Len(conv[Boss]) = {}
    BY <1>i, <1>c
  <2>2. QED
    BY <1>j, <2>1 DEF BossInv, BossIsIdle, BossHas
<1>9. BudgetOverrunIsBounded
  <2>1. InCall = {} /\ InTool = {} /\ used.tokens = 0 /\ used.calls = 0
    BY <1>i DEF InCall, InTool
  <2>2. Cardinality(Workers) \in Nat /\ Cardinality(Workers) # 0 /\ Cardinality({}) = 0
    BY AgentTurnAssumption, FS_CardinalityType, FS_EmptySet
  <2>3. MaxTokens \in Nat /\ MaxToolCalls \in Nat
    BY AgentTurnAssumption
  <2>4. QED
    BY <2>1, <2>2, <2>3 DEF BudgetOverrunIsBounded
<1>10. QED
  BY <1>1, <1>2, <1>3, <1>4, <1>5, <1>6, <1>7, <1>8, <1>9 DEF IInv

\* The invariant is inductive and holds of the turns and their orchestrations.
THEOREM SpecInvariant == Spec => []IInv
<1>1. IInv /\ [Next]_vars => IInv'
  <2>1. IInv /\ [Next]_vars => TypeInv'
    BY TypeStep
  <2>2. IInv /\ [Next]_vars /\ TypeInv' =>
          /\ CourseInv' /\ SoundInv' /\ UncutInv' /\ AskInv' /\ UserInv' /\ BossInv'
          /\ BudgetOverrunIsBounded'
    BY CourseStep, SoundStep, UncutStep, AskStep, UserStep, BossStep, BudgetStep
  <2>3. QED
    BY <2>1, <2>2, ChainStep, ParallelStep DEF IInv
<1>2. QED
  BY InitHolds, <1>1, PTL DEF Spec

\* However many turns share a budget, what they spend passes it by no more than
\* the calls that can be under way at once, less one: every turn looks at the
\* budget before a call of the model or of a tool and charges it after.
THEOREM SpecBudgetOverrunIsBounded == Spec => []BudgetOverrunIsBounded
<1>1. IInv => BudgetOverrunIsBounded
  BY DEF IInv
<1>2. QED
  BY <1>1, SpecInvariant, PTL

\* For every list of agents: those of a chain are fed in their order, and the
\* chain ends well only if all answered; parallel results are listed in the
\* order of the agents and wait for all of them.
THEOREM SpecResultsFollowOrder == Spec => []ResultsFollowOrder
<1>1. IInv => ResultsFollowOrder
  <2> SUFFICES ASSUME IInv PROVE ResultsFollowOrder
    OBVIOUS
  <2>o. /\ Order \in Seq(Workers) /\ Len(Order) \in Nat /\ DOMAIN Order = 1..Len(Order)
        /\ job.stage \in Nat /\ job.results \in Seq(Workers) /\ Len(job.results) \in Nat
    BY OrchestrationAssumption DEF IInv, TypeInv, Job
  <2>1. ASSUME setup.mode = "chain"
        PROVE  /\ \A i \in 1..job.stage : asker[Order[i]] = IF i = 1 THEN "client" ELSE Order[i - 1]
               /\ job.ended = "ok" => /\ job.input = Order[Len(Order)]
                                      /\ \A i \in DOMAIN Order : outcome[Order[i]] = "ok"
               /\ \A i \in 1..job.stage : i < job.stage => outcome[Order[i]] = "ok"
    <3>c. /\ job.stage <= Len(Order)
          /\ \A i \in DOMAIN Order : /\ i <= job.stage => asker[Order[i]] = Fed(i)
                                     /\ i < job.stage => outcome[Order[i]] = "ok"
          /\ job.ended = "ok" => /\ job.stage = Len(Order) /\ outcome[Order[job.stage]] = "ok"
                                 /\ job.input = Order[job.stage]
      BY <2>1 DEF IInv, ChainInv
    <3>1. \A i \in 1..job.stage : i \in DOMAIN Order /\ i <= job.stage
      BY <2>o, <3>c
    <3>2. \A i \in 1..job.stage : asker[Order[i]] = IF i = 1 THEN "client" ELSE Order[i - 1]
      BY <3>1, <3>c DEF Fed, Feed
    <3>3. \A i \in DOMAIN Order : i < Len(Order) \/ i = Len(Order)
      BY <2>o
    <3>4. job.ended = "ok" => \A i \in DOMAIN Order : outcome[Order[i]] = "ok"
      BY <3>c, <3>3
    <3>5. QED
      BY <3>1, <3>2, <3>4, <3>c
  <2>2. ASSUME setup.mode = "parallel"
        PROVE  /\ job.results = SubSeq(Order, 1, Len(job.results))
               /\ job.ended # "no" => \A i \in DOMAIN Order : pc[Order[i]] = "ended"
    <3>p. /\ Len(job.results) <= Len(Order)
          /\ \A i \in 1..Len(job.results) : job.results[i] = Order[i] /\ pc[Order[i]] = "ended"
          /\ job.ended # "no" => Len(job.results) = Len(Order)
      BY <2>2 DEF IInv, ParallelInv
    <3> DEFINE n == Len(job.results)
               front == SubSeq(Order, 1, n)
    <3>1. n \in Nat /\ n <= Len(Order)
      BY <2>o, <3>p
    <3>2. /\ front \in Seq(Workers) /\ Len(front) = n
          /\ \A i \in 1..n : front[i] = Order[i]
      <4> HIDE DEF n
      <4>1. \A i \in 1..n : i \in 1..Len(Order) /\ 1 + i - 1 = i
        BY <2>o, <3>1
      <4>2. QED
        BY <2>o, <3>1, <4>1
    <3>3. job.results = front
      <4>1. \A i \in 1..n : job.results[i] = front[i]
        BY <3>p, <3>2
      <4> HIDE DEF front
      <4>2. QED
        BY <2>o, <3>2, <4>1, SeqEqual
    <3>4. QED
      BY <2>o, <3>p, <3>3
  <2>3. QED
    BY <2>1, <2>2 DEF ResultsFollowOrder
<1>2. QED
  BY <1>1, SpecInvariant, PTL

\* Whatever the window cuts and however turns end, a request to the model never
\* has a tool call without its results, nor a result without its call except
\* where the window has cut, nor more unanswered user messages than turns that
\* ended without an answer, and it ends with something to answer.
THEOREM SpecRequestsHoldTogether == Spec => []RequestsHoldTogether
<1>1. IInv => RequestsHoldTogether
  <2> SUFFICES ASSUME IInv, NEW c \in Callers, llm[c].state = "trying"
               PROVE  /\ \A i \in DOMAIN conv[c] : conv[c][i][1] = "uses" => Answered(c, i)
                      /\ \A i \in DOMAIN conv[c] : conv[c][i][1] = "result" =>
                           /\ HasUse(c, i)
                           /\ (setup.window = 0 \/ c = Boss) => conv[c][1][1] # "result"
                      /\ DoubledUsers(c) <= unheard[c]
                      /\ conv[c] # << >> /\ conv[c][Len(conv[c])][1] \in {"user", "result"}
    BY DEF RequestsHoldTogether
  <2>t. /\ conv[c] \in Seq(Message) /\ Len(conv[c]) \in Nat /\ DOMAIN conv[c] = 1..Len(conv[c])
        /\ todo[c] \in Seq(Tools) /\ Len(todo[c]) \in Nat /\ unheard[c] \in Nat
    BY DEF IInv, TypeInv
  <2>s. Sound(conv[c], Len(todo[c]))
    BY DEF IInv, SoundInv
  <2>1. ASSUME NEW i \in DOMAIN conv[c], conv[c][i][1] = "uses" PROVE Answered(c, i)
    <3> DEFINE n == conv[c][i][2]
    <3>1. conv[c][i] \in Message
      BY <2>t
    <3>2. n \in Nat /\ i \in Nat
      BY <2>t, <2>1, <3>1, MessageFacts
    <3>3. /\ i + n <= Len(conv[c]) \/ i + n = Len(conv[c]) + Len(todo[c])
          /\ \A k \in 1..n : i + k <= Len(conv[c]) => conv[c][i + k] = <<"result", n - k + 1>>
      BY <2>s, <2>1 DEF Sound, Uses
    <3>4. ASSUME NEW k \in 1..n, ~(i + k <= Len(conv[c]))
          PROVE  i + k > Len(conv[c]) /\ k > n - Len(todo[c])
      <4>1. i + n <= Len(conv[c]) \/ i + n = Len(conv[c]) + Len(todo[c])
        BY <3>3
      <4>2. n \in Nat /\ i \in Nat /\ k \in Nat /\ k <= n /\ Len(conv[c]) \in Nat /\ Len(todo[c]) \in Nat
        BY <2>t, <3>2
      <4> HIDE DEF n
      <4>3. i + k > Len(conv[c])
        BY <3>4, <4>2
      <4>4. \A here, uses, to, length, open \in Nat :
              (here + uses <= length \/ here + uses = length + open) /\ to <= uses /\ here + to > length =>
                to > uses - open
        OBVIOUS
      <4>5. k > n - Len(todo[c])
        BY <4>1, <4>2, <4>3, <4>4
      <4>6. QED
        BY <4>3, <4>5
    <3>5. QED
      BY <3>3, <3>4 DEF Answered
  <2>2. ASSUME NEW i \in DOMAIN conv[c], conv[c][i][1] = "result" PROVE HasUse(c, i)
    BY <2>s, <2>2 DEF Sound, Belongs, HasUse
  <2>3. ASSUME NEW i \in DOMAIN conv[c], setup.window = 0 \/ c = Boss PROVE conv[c][1][1] # "result"
    BY <2>t, <2>3 DEF IInv, UncutInv
  <2>4. EndsWith(conv[c], {"user", "result"})
    <3>1. CASE c = Boss
      BY <3>1 DEF IInv, BossInv, BossHas
    <3>2. CASE c \in Workers
      BY <3>2 DEF IInv, CourseInv, AskInv
    <3>3. QED
      BY <3>1, <3>2 DEF Callers
  <2>5. Cardinality(Doubled(conv[c])) <= unheard[c]
    <3>1. CASE c = Boss
      <4>1. \A i \in 1..(Len(conv[c]) - 1) : i + 1 \in 2..Len(conv[c])
        BY <2>t
      <4>2. Doubled(conv[c]) = {}
        BY <3>1, <4>1 DEF Doubled, IInv, BossInv
      <4>3. QED
        BY <2>t, <4>2, FS_EmptySet
    <3>2. CASE c \in Workers
      <4>1. Cardinality(Doubled(conv[c])) +
              (IF pc[c] \in {"idle", "ended"} /\ EndsWith(conv[c], {"user"}) THEN 1 ELSE 0) <= unheard[c]
        BY <3>2 DEF IInv, UserInv
      <4>2. Cardinality(Doubled(conv[c])) \in Nat
        BY <2>t, DoubledFinite
      <4>3. QED
        BY <2>t, <4>1, <4>2
    <3>3. QED
      BY <3>1, <3>2 DEF Callers
  <2>6. DoubledUsers(c) <= unheard[c]
    BY <2>5 DEF DoubledUsers, Doubled
  <2>7. QED
    BY <2>1, <2>2, <2>3, <2>4, <2>6 DEF EndsWith
<1>2. QED
  BY <1>1, SpecInvariant, PTL

-----------------------------------------------------------------------------
(* Conversations and the requests to their server. *)

Places == {"idle", "resolve", "agent", "parent", "insert", "spawn", "register", "control",
           "send", "lookup", "queue", "wait", "registry", "unregister", "done"}
Whys == {"none", "ok", "noAgent", "fault", "exists", "full", "limit", "notFound", "mute", "closed",
         "refused", "dropped", "failed", "lost"}
States == {"absent", "running", "starting", "stopping", "stopped", "failed"}
Turns == {"user", "agent"} \X Requests
Rows == Seq(Turns) \cup {Unsaved}

CrowdType == others \in Nat /\ crowd \in Nat /\ others <= crowd

ConvTypeInv ==
  /\ ask \in [Requests -> Asks] /\ durable \in BOOLEAN
  /\ at \in [Requests -> Places] /\ answer \in [Requests -> Whys]
  /\ before \in [Requests -> SUBSET Requests] /\ seen \in [Requests -> Rows]
  /\ saved \in [Convs -> Rows] /\ parent \in BOOLEAN
  /\ node \in [Convs -> States]
  /\ entry \in [Convs -> BOOLEAN] /\ mailbox \in [Convs -> BOOLEAN]
  /\ task \in [Convs -> {"off", "loading", "open", "turn", "saving", "closed"}]
  /\ history \in [Convs -> Seq(Turns)]
  /\ queue \in [Convs -> Seq(Requests)] /\ orders \in [Convs -> Seq({"stop", "restart"})]
  /\ faults \in Nat /\ crashed \in BOOLEAN
  /\ CrowdType

-----------------------------------------------------------------------------
(* Who may be where. *)

Makers == {"agent", "parent", "insert", "spawn", "register", "control"}
Senders == {"send", "lookup", "queue", "wait"}

VerbFits(r) ==
  /\ at[r] \in Makers => Verb(r) \in {"start", "message"}
  /\ at[r] \in Senders => Verb(r) \in Messages \cup {"get"}
  /\ at[r] = "registry" => Verb(r) \in {"stop", "stopTarget", "restart"}
  /\ at[r] = "unregister" => Verb(r) \in {"stop", "stopTarget"}
  /\ answer[r] = "refused" => Verb(r) \in Orders

PlaceInv ==
  \A r \in Requests :
    /\ at[r] = "done" <=> answer[r] # "none"
    /\ VerbFits(r)
    /\ \A q \in before[r] : at[q] = "done"

\* A request in a mailbox waits there, once.
Queued(c, r) == \E i \in DOMAIN queue[c] : queue[c][i] = r

QueueInv ==
  \A c \in Convs :
    /\ \A i \in DOMAIN queue[c] : at[queue[c][i]] = "wait" /\ C(queue[c][i]) = c
    /\ \A i, j \in DOMAIN queue[c] : queue[c][i] = queue[c][j] => i = j

\* The message at work is the last of the history.
TurnInv ==
  \A c \in Convs : task[c] \in {"turn", "saving"} =>
    \E r \in Requests :
      /\ at[r] = "wait" /\ C(r) = c /\ Verb(r) \in Messages /\ ~Queued(c, r)
      /\ history[c] # << >>
      /\ \/ history[c][Len(history[c])] = <<"user", r>>
         \/ task[c] = "saving" /\ history[c][Len(history[c])] = <<"agent", r>>

AskCourse == PlaceInv /\ QueueInv /\ TurnInv

-----------------------------------------------------------------------------
(* What is missing was asked away, or is on its way. *)

StopAsked(c) == AskedFor(c, {"stop", "stopTarget"})
RestartAsked(c) == AskedFor(c, {"restart", "restartTarget"})
PlainRestart(c) == AskedFor(c, {"restart"})
Coming(c, where) == \E q \in Requests : at[q] = where /\ C(q) = c

OrderInv ==
  \A c \in Convs :
    /\ \A i \in DOMAIN orders[c] :
         IF orders[c][i] = "stop" THEN StopAsked(c) ELSE RestartAsked(c)
    /\ task[c] = "closed" => StopAsked(c)

TreeInv ==
  \A c \in Convs :
    /\ task[c] = "off" <=> node[c] = "absent"
    /\ node[c] # "absent" => AskedFor(c, {"start", "message"})
    /\ node[c] # "absent" /\ ~entry[c] => StopAsked(c) \/ Coming(c, "register")
    /\ entry[c] /\ ~mailbox[c] => StopAsked(c) \/ PlainRestart(c) \/ Coming(c, "control")

\* Who was sent to an instance found it.
FoundInv ==
  \A r \in Requests :
    /\ at[r] \in {"lookup", "queue", "wait"} => entry[C(r)] \/ StopAsked(C(r))
    /\ Known(r) /\ ~crashed =>
         /\ task[C(r)] \notin {"off", "loading"}
         /\ entry[C(r)] \/ StopAsked(C(r))

Rival(r) ==
  \E q \in Requests \ ({r} \cup before[r]) : Begun(q) /\ Verb(q) \in {"start", "message"}

RivalInv ==
  \A r \in Requests :
    /\ at[r] \in {"agent", "parent", "insert", "spawn"} =>
         node[C(r)] = "absent" \/ Rival(r) \/ StopAsked(C(r))
    /\ at[r] = "insert" => ~parent \/ Rival(r)
    /\ at[r] = "lookup" => mailbox[C(r)] \/ Rival(r) \/ PlainRestart(C(r)) \/ StopAsked(C(r))

-----------------------------------------------------------------------------
(* Histories. *)

Paired(h) ==
  \A i \in DOMAIN h : h[i][1] = "agent" => i > 1 /\ h[i - 1] = <<"user", h[i][2]>>

HistInv ==
  /\ \A c \in Convs : Paired(history[c]) /\ (saved[c] # Unsaved => Paired(saved[c]))
  /\ HistoryIsKept

ConvInv ==
  /\ ConvTypeInv /\ AskCourse /\ OrderInv /\ TreeInv /\ FoundInv /\ RivalInv
  /\ RefusalsAreExplained /\ HistInv

-----------------------------------------------------------------------------
(* Steps of the tree. *)

Walks == {"running", "failed", "stopped"}

\* No transition takes a node out of the tree.
LEMMA TransitionMoves ==
  ASSUME ConvTypeInv, NEW c \in Convs, NEW state \in Walks, Transition(c, state)
  PROVE  /\ \E s \in States \ {"absent"} : node' = [node EXCEPT ![c] = s]
         /\ node' \in [Convs -> States]
<1>1. state \in States \ {"absent"}
  BY DEF Walks, States
<1>2. node \in [Convs -> States] /\ node' = [node EXCEPT ![c] = state]
  BY DEF ConvTypeInv, Transition
<1>3. QED
  BY <1>1, <1>2

\* The dynamic nodes of others come one by one, and go with the process.
CrowdGrows == CrowdType /\ CrowdType' /\ crowd' >= crowd

LEMMA CrowdStep == CrowdType /\ [ConvNext]_convVars => CrowdGrows
<1> SUFFICES ASSUME CrowdType, [ConvNext]_convVars PROVE CrowdGrows
  OBVIOUS
<1>1. ASSUME NEW r \in Requests, Begin(r) \/ Handler(r) PROVE UNCHANGED <<others, crowd>>
  BY <1>1 DEF Begin, Handler, Resolve, FindAgent, FindParent, InsertParent, Spawn, Register,
     RegisterControl, Send, LookupMailbox, Enqueue, ResolveGet, GiveOrder, Unregister, AfterOrder
<1>2. ASSUME NEW c \in Convs, Instance(c) PROVE UNCHANGED <<others, crowd>>
  BY <1>2 DEF Instance, Load, ObeyStop, ObeyRestart, Take, TurnEnds, SaveAndRespond
<1>3. CASE UNCHANGED <<others, crowd>>
  BY <1>3 DEF CrowdGrows, CrowdType
<1>4. CASE OthersSpawn
  BY <1>4 DEF OthersSpawn, CrowdGrows, CrowdType
<1>5. CASE Crash
  BY <1>5 DEF Crash, CrowdGrows, CrowdType
<1>6. CASE UNCHANGED convVars
  BY <1>3, <1>6 DEF convVars
<1>7. QED
  BY <1>1, <1>2, <1>3, <1>4, <1>5, <1>6 DEF ConvNext

-----------------------------------------------------------------------------
(* Types. *)

LEMMA TypeInit == ConvInit => ConvTypeInv
<1> SUFFICES ASSUME ConvInit PROVE ConvTypeInv
  OBVIOUS
<1>1. PICK s \in Scenarios : ask = s.ask /\ durable = s.durable
  BY DEF ConvInit
<1>2. s \in [ask : [Requests -> Asks], durable : BOOLEAN]
  BY ConvAssumption
<1>3. ask \in [Requests -> Asks] /\ durable \in BOOLEAN
  BY <1>1, <1>2
<1>4. node \in [Convs -> States]
  BY DEF ConvInit, States
<1>5. CrowdType
  BY DEF ConvInit, CrowdType
<1>6. at \in [Requests -> Places] /\ answer \in [Requests -> Whys]
  BY DEF ConvInit, Places, Whys
<1>7. seen \in [Requests -> Rows] /\ saved \in [Convs -> Rows] /\ before \in [Requests -> SUBSET Requests]
  BY DEF ConvInit, Rows
<1>8. history \in [Convs -> Seq(Turns)] /\ queue \in [Convs -> Seq(Requests)]
      /\ orders \in [Convs -> Seq({"stop", "restart"})]
  BY DEF ConvInit
<1>9. QED
  BY <1>3, <1>4, <1>5, <1>6, <1>7, <1>8 DEF ConvTypeInv, ConvInit

LEMMA AsksFacts ==
  ASSUME ConvTypeInv, NEW r \in Requests
  PROVE  C(r) \in Convs /\ Verb(r) \in Messages \cup Orders \cup {"get"}
BY DEF ConvTypeInv, Asks, C, Verb

\* Requests are typed whatever goes where.
Typed ==
  /\ at \in [Requests -> Places] /\ answer \in [Requests -> Whys]
LEMMA GotoTyped ==
  ASSUME Typed, NEW r \in Requests
  PROVE  /\ \A p \in Places : Goto(r, p) => Typed'
         /\ \A w \in Whys : Answer(r, w) => Typed'
<1>1. ASSUME NEW p \in Places, Goto(r, p) PROVE Typed'
  BY <1>1 DEF Typed, Goto
<1>2. ASSUME NEW w \in Whys, Answer(r, w) PROVE Typed'
  <2>1. "done" \in Places
    BY DEF Places
  <2>2. QED
    BY <1>2, <2>1 DEF Typed, Answer
<1>3. QED
  BY <1>1, <1>2

\* A row is written, or a fault is counted, or there is no database.
LEMMA SaveFacts ==
  ASSUME NEW c, NEW what, Save(c, what)
  PROVE  /\ durable' = durable
         /\ \/ durable /\ saved' = [saved EXCEPT ![c] = what] /\ faults' = faults
            \/ saved' = saved /\ faults' = faults + 1
            \/ ~durable /\ saved' = saved /\ faults' = faults
BY DEF Save, Fault, store

LEMMA ConvTypeStep ==
  ASSUME ConvTypeInv, TurnInv, [ConvNext]_convVars
  PROVE  ConvTypeInv'
<1> USE DEF convVars, requests, store, registry, tasks
<1>w. CrowdType'
  BY CrowdStep DEF ConvTypeInv, CrowdGrows
<1>0. CASE UNCHANGED convVars
  <2>1. CrowdType'
    BY <1>w
  <2>2. QED
    BY <1>0, <2>1 DEF ConvTypeInv
<1>1. ASSUME NEW r \in Requests, Begin(r) PROVE ConvTypeInv'
  <2>1. Typed'
    BY <1>1 DEF Begin, ConvTypeInv, Typed, Goto, Places
  <2>2. before' \in [Requests -> SUBSET Requests]
    BY <1>1 DEF Begin, ConvTypeInv
  <2>3. CrowdType'
    BY <1>w
  <2>4. QED
    BY <1>1, <2>1, <2>2, <2>3 DEF Begin, ConvTypeInv, Typed
<1>2. ASSUME NEW r \in Requests,
             Resolve(r) \/ FindAgent(r) \/ FindParent(r) \/ InsertParent(r) \/ Register(r)
             \/ RegisterControl(r) \/ LookupMailbox(r) \/ ResolveGet(r) \/ Unregister(r) \/ AfterOrder(r)
      PROVE ConvTypeInv'
  <2>1. Typed'
    <3>0. /\ Typed /\ {"send", "agent", "parent", "spawn", "insert", "control", "queue", "unregister"} \subseteq Places
          /\ {"noAgent", "fault", "exists", "mute", "notFound", "ok"} \subseteq Whys
      BY DEF ConvTypeInv, Typed, Places, Whys
    <3>1. CASE Resolve(r)
      <4>1. Goto(r, "send") \/ Goto(r, "agent")
        BY <3>1, SMTT(30) DEF Resolve
      <4>2. QED
        BY <3>0, <4>1, GotoTyped
    <3>2. CASE FindAgent(r)
      <4>1. Goto(r, "parent") \/ Answer(r, "noAgent") \/ Answer(r, "fault")
        BY <3>2, SMTT(30) DEF FindAgent
      <4>2. QED
        BY <3>0, <4>1, GotoTyped
    <3>3. CASE FindParent(r)
      <4>1. Goto(r, "spawn") \/ Goto(r, "insert")
        BY <3>3, SMTT(30) DEF FindParent, WithParent
      <4>2. QED
        BY <3>0, <4>1, GotoTyped
    <3>4. CASE InsertParent(r)
      <4>1. Goto(r, "spawn") \/ Answer(r, "exists")
        BY <3>4, SMTT(30) DEF InsertParent
      <4>2. QED
        BY <3>0, <4>1, GotoTyped
    <3>5. CASE Register(r)
      <4>1. Goto(r, "control")
        BY <3>5, SMTT(30) DEF Register
      <4>2. QED
        BY <3>0, <4>1, GotoTyped
    <3>6. CASE RegisterControl(r)
      <4>1. Goto(r, "send")
        BY <3>6, SMTT(30) DEF RegisterControl
      <4>2. QED
        BY <3>0, <4>1, GotoTyped
    <3>7. CASE LookupMailbox(r)
      <4>1. Goto(r, "queue") \/ Answer(r, "mute")
        BY <3>7, SMTT(30) DEF LookupMailbox
      <4>2. QED
        BY <3>0, <4>1, GotoTyped
    <3>8. CASE ResolveGet(r)
      <4>1. Goto(r, "send") \/ Answer(r, "notFound")
        BY <3>8, SMTT(30) DEF ResolveGet
      <4>2. QED
        BY <3>0, <4>1, GotoTyped
    <3>9. CASE Unregister(r)
      <4>1. Goto(r, "unregister")
        BY <3>9, SMTT(30) DEF Unregister
      <4>2. QED
        BY <3>0, <4>1, GotoTyped
    <3>10. CASE AfterOrder(r)
      <4>1. Answer(r, "ok")
        BY <3>10, SMTT(30) DEF AfterOrder
      <4>2. QED
        BY <3>0, <4>1, GotoTyped
    <3>11. QED
      BY <1>2, <3>1, <3>2, <3>3, <3>4, <3>5, <3>6, <3>7, <3>8, <3>9, <3>10
  <2>2. CrowdType'
    BY <1>w
  <2>3. faults' \in Nat
    BY <1>2 DEF Resolve, FindAgent, FindParent, InsertParent, Register, RegisterControl, LookupMailbox,
       ResolveGet, Unregister, AfterOrder, ConvTypeInv, Fault
  <2>4. entry' \in [Convs -> BOOLEAN] /\ mailbox' \in [Convs -> BOOLEAN] /\ parent' \in BOOLEAN
    BY <1>2, AsksFacts DEF Resolve, FindAgent, FindParent, InsertParent, Register, RegisterControl, LookupMailbox,
       ResolveGet, Unregister, AfterOrder, ConvTypeInv
  <2>5. UNCHANGED <<ask, before, seen, durable, saved, node, tasks, crashed>>
    BY <1>2 DEF Resolve, FindAgent, FindParent, InsertParent, Register, RegisterControl, LookupMailbox,
       ResolveGet, Unregister, AfterOrder, Same, Fault
  <2>6. QED
    BY <2>1, <2>2, <2>3, <2>4, <2>5 DEF ConvTypeInv, Typed
<1>3. ASSUME NEW r \in Requests, Spawn(r) PROVE ConvTypeInv'
  <2>1. Typed'
    BY <1>3 DEF Spawn, Refuses, ConvTypeInv, Typed, Goto, Answer, Places, Whys
  <2>2. CrowdType' /\ node' \in [Convs -> States]
    <3>1. CASE Refuses(C(r)) # "no"
      BY <1>w, <1>3, <3>1 DEF Spawn, ConvTypeInv
    <3>2. CASE Refuses(C(r)) = "no"
      <4>1. Transition(C(r), "running") /\ "running" \in Walks
        BY <1>3, <3>2 DEF Spawn, Walks
      <4>2. QED
        BY <4>1, <1>w, AsksFacts, TransitionMoves
    <3>3. QED
      BY <3>1, <3>2
  <2>3. /\ task' \in [Convs -> {"off", "loading", "open", "turn", "saving", "closed"}]
        /\ queue' \in [Convs -> Seq(Requests)] /\ orders' \in [Convs -> Seq({"stop", "restart"})]
    <3>1. << >> \in Seq(Requests) /\ << >> \in Seq({"stop", "restart"})
      OBVIOUS
    <3>2. \/ UNCHANGED <<task, queue, orders>>
          \/ /\ task' = [task EXCEPT ![C(r)] = "loading"] /\ queue' = [queue EXCEPT ![C(r)] = << >>]
             /\ orders' = [orders EXCEPT ![C(r)] = << >>]
      <4>1. CASE Refuses(C(r)) # "no"
        BY <1>3, <4>1, SMTT(30) DEF Spawn
      <4>2. CASE Refuses(C(r)) = "no"
        BY <1>3, <4>2, SMTT(30) DEF Spawn
      <4>3. QED
        BY <4>1, <4>2
    <3>3. /\ task \in [Convs -> {"off", "loading", "open", "turn", "saving", "closed"}]
          /\ queue \in [Convs -> Seq(Requests)] /\ orders \in [Convs -> Seq({"stop", "restart"})]
      BY DEF ConvTypeInv
    <3>4. CASE UNCHANGED <<task, queue, orders>>
      BY <3>3, <3>4
    <3>5. CASE /\ task' = [task EXCEPT ![C(r)] = "loading"] /\ queue' = [queue EXCEPT ![C(r)] = << >>]
               /\ orders' = [orders EXCEPT ![C(r)] = << >>]
      <4>1. task' \in [Convs -> {"off", "loading", "open", "turn", "saving", "closed"}]
        BY <3>3, <3>5
      <4>2. queue' \in [Convs -> Seq(Requests)]
        BY <3>1, <3>3, <3>5
      <4>3. orders' \in [Convs -> Seq({"stop", "restart"})]
        BY <3>1, <3>3, <3>5
      <4>4. QED
        BY <4>1, <4>2, <4>3
    <3>6. QED
      BY <3>2, <3>4, <3>5
  <2>4. UNCHANGED <<ask, before, seen, store, parent, registry, history, crashed>>
    <3>1. UNCHANGED <<ask, before, seen>>
      BY <1>3, SMTT(30) DEF Spawn, Same
    <3>2. UNCHANGED <<store, parent>>
      BY <1>3, SMTT(30) DEF Spawn
    <3>3. UNCHANGED <<registry, crashed>>
      BY <1>3, SMTT(30) DEF Spawn
    <3>4. UNCHANGED history
      <4>1. CASE Refuses(C(r)) # "no"
        BY <1>3, <4>1, SMTT(30) DEF Spawn
      <4>2. CASE Refuses(C(r)) = "no"
        BY <1>3, <4>2, SMTT(30) DEF Spawn
      <4>3. QED
        BY <4>1, <4>2
    <3>5. QED
      BY <3>1, <3>2, <3>3, <3>4
  <2>5. QED
    BY <2>1, <2>2, <2>3, <2>4 DEF ConvTypeInv, Typed
<1>4. ASSUME NEW r \in Requests, Send(r) PROVE ConvTypeInv'
  <2>1. Typed'
    BY <1>4 DEF Send, ConvTypeInv, Typed, Goto, Answer, Places, Whys
  <2>2. seen' \in [Requests -> Rows]
    BY <1>4, AsksFacts DEF Send, ConvTypeInv
  <2>3. UNCHANGED <<ask, before, durable, saved, parent, node, registry, tasks, crashed>>
    BY <1>4 DEF Send, Same
  <2>4. faults' \in Nat
    BY <1>4 DEF Send, Fault, ConvTypeInv
  <2>5. CrowdType'
    BY <1>w
  <2>6. QED
    BY <2>1, <2>2, <2>3, <2>4, <2>5 DEF ConvTypeInv, Typed
<1>5. ASSUME NEW r \in Requests, Enqueue(r) \/ GiveOrder(r) PROVE ConvTypeInv'
  <2>1. Typed'
    <3>1. CASE Enqueue(r)
      <4>1. Typed /\ "wait" \in Places /\ "closed" \in Whys
        BY DEF ConvTypeInv, Typed, Places, Whys
      <4>2. Goto(r, "wait") \/ Answer(r, "closed")
        BY <3>1, SMTT(30) DEF Enqueue
      <4>3. QED
        BY <4>1, <4>2, GotoTyped
    <3>2. CASE GiveOrder(r)
      <4>1. Typed /\ "registry" \in Places /\ "ok" \in Whys /\ "refused" \in Whys
        BY DEF ConvTypeInv, Typed, Places, Whys
      <4>2. Goto(r, "registry") \/ Answer(r, "ok") \/ Answer(r, "refused")
        BY <3>2, SMTT(30) DEF GiveOrder
      <4>3. QED
        BY <4>1, <4>2, GotoTyped
    <3>3. QED
      BY <1>5, <3>1, <3>2
  <2>2. queue' \in [Convs -> Seq(Requests)]
    <3>1. queue' = queue \/ queue' = [queue EXCEPT ![C(r)] = Append(queue[C(r)], r)]
      BY <1>5 DEF Enqueue, GiveOrder
    <3>2. Append(queue[C(r)], r) \in Seq(Requests)
      BY AsksFacts DEF ConvTypeInv
    <3>3. QED
      BY <3>1, <3>2 DEF ConvTypeInv
  <2>3. orders' \in [Convs -> Seq({"stop", "restart"})]
    <3>1. orders' = orders \/ orders' = [orders EXCEPT ![C(r)] = Append(orders[C(r)], OrderOf(r))]
      BY <1>5 DEF Enqueue, GiveOrder
    <3>2. Append(orders[C(r)], OrderOf(r)) \in Seq({"stop", "restart"})
      <4>1. orders[C(r)] \in Seq({"stop", "restart"}) /\ OrderOf(r) \in {"stop", "restart"}
        BY AsksFacts DEF ConvTypeInv, OrderOf
      <4>2. QED
        BY <4>1
    <3>3. QED
      BY <3>1, <3>2 DEF ConvTypeInv
  <2>4. UNCHANGED <<ask, before, seen, store, parent, node, registry, task, history, crashed>>
    BY <1>5 DEF Enqueue, GiveOrder, Same
  <2>5. CrowdType'
    BY <1>w
  <2>6. QED
    BY <2>1, <2>2, <2>3, <2>4, <2>5 DEF ConvTypeInv, Typed
<1>6. ASSUME NEW c \in Convs, Load(c) PROVE ConvTypeInv'
  <2>1. CrowdType' /\ node' \in [Convs -> States]
    <3>1. Transition(c, "running") /\ "running" \in Walks
      BY <1>6 DEF Load, Walks
    <3>2. QED
      BY <1>w, <3>1, TransitionMoves
  <2>2. history' \in [Convs -> Seq(Turns)]
    <3>1. saved[c] # Unsaved => saved[c] \in Seq(Turns)
      BY DEF ConvTypeInv, Rows
    <3>2. << >> \in Seq(Turns)
      OBVIOUS
    <3>3. QED
      BY <1>6, <3>1, <3>2 DEF Load, ConvTypeInv
  <2>3. faults' \in Nat
    BY <1>6 DEF Load, Fault, ConvTypeInv
  <2>4. task' \in [Convs -> {"off", "loading", "open", "turn", "saving", "closed"}]
    BY <1>6 DEF Load, ConvTypeInv
  <2>5. UNCHANGED <<requests, durable, saved, parent, registry, queue, orders, crashed>>
    BY <1>6 DEF Load
  <2>6. QED
    BY <2>1, <2>2, <2>3, <2>4, <2>5 DEF ConvTypeInv
<1>7. ASSUME NEW c \in Convs, ObeyStop(c) PROVE ConvTypeInv'
  <2>1. CrowdType' /\ node' \in [Convs -> States]
    <3>1. Transition(c, "stopped") /\ "stopped" \in Walks
      BY <1>7 DEF ObeyStop, Walks
    <3>2. QED
      BY <1>w, <3>1, TransitionMoves
  <2>2. Typed'
    BY <1>7 DEF ObeyStop, Typed, ConvTypeInv, Places, Whys
  <2>3. queue' \in [Convs -> Seq(Requests)]
    BY <1>7 DEF ObeyStop, ConvTypeInv
  <2>4. task' \in [Convs -> {"off", "loading", "open", "turn", "saving", "closed"}]
    BY <1>7 DEF ObeyStop, ConvTypeInv
  <2>5. UNCHANGED <<ask, before, seen, store, parent, registry, history, orders, crashed>>
    BY <1>7 DEF ObeyStop, Same
  <2>6. QED
    BY <2>1, <2>2, <2>3, <2>4, <2>5 DEF ConvTypeInv, Typed
<1>8. ASSUME NEW c \in Convs, ObeyRestart(c) PROVE ConvTypeInv'
  <2>1. CrowdType' /\ node' \in [Convs -> States]
    <3>1. Transition(c, "running") /\ "running" \in Walks
      BY <1>8 DEF ObeyRestart, Walks
    <3>2. QED
      BY <1>w, <3>1, TransitionMoves
  <2>2. orders' \in [Convs -> Seq({"stop", "restart"})]
    <3>1. orders[c] \in Seq({"stop", "restart"}) /\ orders[c] # << >>
      BY <1>8 DEF ObeyRestart, ConvTypeInv
    <3>2. Tail(orders[c]) \in Seq({"stop", "restart"})
      BY <3>1
    <3>3. QED
      BY <1>8, <3>2 DEF ObeyRestart, ConvTypeInv
  <2>3. history' \in [Convs -> Seq(Turns)]
    <3>1. << >> \in Seq(Turns)
      OBVIOUS
    <3>2. QED
      BY <1>8, <3>1 DEF ObeyRestart, ConvTypeInv
  <2>4. saved' \in [Convs -> Rows] /\ faults' \in Nat /\ durable' = durable
    <3>1. << >> \in Rows
      BY DEF Rows
    <3>2. QED
      <4>1. Save(c, << >>)
        BY <1>8 DEF ObeyRestart
      <4>2. /\ durable' = durable
            /\ saved' = saved \/ saved' = [saved EXCEPT ![c] = << >>]
            /\ faults' = faults \/ faults' = faults + 1
        BY <4>1, SaveFacts
      <4>3. QED
        <5>1. saved \in [Convs -> Rows] /\ faults \in Nat
          BY DEF ConvTypeInv
        <5>2. saved' \in [Convs -> Rows]
          BY <3>1, <4>2, <5>1
        <5>3. faults' \in Nat
          BY <4>2, <5>1
        <5>4. QED
          BY <4>2, <5>2, <5>3
  <2>5. UNCHANGED <<requests, parent, registry, task, queue, crashed>>
    BY <1>8 DEF ObeyRestart
  <2>6. QED
    BY <2>1, <2>2, <2>3, <2>4, <2>5 DEF ConvTypeInv
<1>9. ASSUME NEW c \in Convs, Take(c) PROVE ConvTypeInv'
  <2>1. queue[c] \in Seq(Requests) /\ queue[c] # << >> /\ history[c] \in Seq(Turns)
    BY <1>9 DEF Take, ConvTypeInv
  <2>2. Head(queue[c]) \in Requests /\ Tail(queue[c]) \in Seq(Requests)
    BY <2>1
  <2>3. Typed'
    BY <1>9, <2>2 DEF Take, Typed, ConvTypeInv, Answer, Places, Whys
  <2>4. queue' \in [Convs -> Seq(Requests)]
    BY <1>9, <2>2 DEF Take, ConvTypeInv
  <2>5. history' \in [Convs -> Seq(Turns)]
    <3>1. <<"user", Head(queue[c])>> \in Turns
      BY <2>2 DEF Turns
    <3>2. Append(history[c], <<"user", Head(queue[c])>>) \in Seq(Turns)
      BY <2>1, <3>1
    <3>3. QED
      BY <1>9, <3>2 DEF Take, ConvTypeInv
  <2>6. seen' \in [Requests -> Rows]
    <3>1. history[c] \in Rows
      BY <2>1 DEF Rows
    <3>2. QED
      BY <1>9, <3>1 DEF Take, ConvTypeInv
  <2>7. task' \in [Convs -> {"off", "loading", "open", "turn", "saving", "closed"}]
    BY <1>9 DEF Take, ConvTypeInv
  <2>8. UNCHANGED <<ask, before, store, parent, node, registry, orders, crashed>>
    BY <1>9 DEF Take, Same
  <2>9. CrowdType'
    BY <1>w
  <2>10. QED
    BY <2>3, <2>4, <2>5, <2>6, <2>7, <2>8, <2>9 DEF ConvTypeInv, Typed
<1>10. ASSUME NEW c \in Convs, TurnEnds(c) PROVE ConvTypeInv'
  <2>1. CrowdType' /\ node' \in [Convs -> States]
    <3>1. CASE Transition(c, "failed")
      BY <3>1, <1>w, TransitionMoves DEF Walks
    <3>2. CASE UNCHANGED node
      BY <1>w, <3>2 DEF ConvTypeInv
    <3>3. QED
      BY <1>10, <3>1, <3>2 DEF TurnEnds
  <2>2. history' \in [Convs -> Seq(Turns)]
    <3>1. history[c] \in Seq(Turns) /\ history[c] # << >>
      BY <1>10 DEF TurnEnds, ConvTypeInv, TurnInv
    <3>2. Last(history[c]) = history[c][Len(history[c])] /\ history[c][Len(history[c])] \in Turns
      BY <3>1 DEF Last
    <3>3. <<"agent", Last(history[c])[2]>> \in Turns
      BY <3>2 DEF Turns
    <3>4. Append(history[c], <<"agent", Last(history[c])[2]>>) \in Seq(Turns)
      BY <3>1, <3>3
    <3>5. QED
      BY <1>10, <3>4 DEF TurnEnds, ConvTypeInv
  <2>3. task' \in [Convs -> {"off", "loading", "open", "turn", "saving", "closed"}]
    BY <1>10 DEF TurnEnds, ConvTypeInv
  <2>4. UNCHANGED <<requests, store, parent, registry, queue, orders, crashed>>
    BY <1>10 DEF TurnEnds
  <2>5. QED
    BY <2>1, <2>2, <2>3, <2>4 DEF ConvTypeInv
<1>11. ASSUME NEW c \in Convs, SaveAndRespond(c) PROVE ConvTypeInv'
  <2>1. CrowdType' /\ node' \in [Convs -> States]
    <3>1. CASE Transition(c, "running")
      BY <3>1, <1>w, TransitionMoves DEF Walks
    <3>2. CASE UNCHANGED node
      BY <1>w, <3>2 DEF ConvTypeInv
    <3>3. QED
      BY <1>11, <3>1, <3>2 DEF SaveAndRespond
  <2>2. Typed'
    BY <1>11 DEF SaveAndRespond, Typed, ConvTypeInv, Answer, Places, Whys
  <2>3. saved' \in [Convs -> Rows] /\ faults' \in Nat /\ durable' = durable
    <3>1. history[c] \in Rows
      BY DEF Rows, ConvTypeInv
    <3>2. QED
      <4>1. Save(c, history[c])
        BY <1>11 DEF SaveAndRespond
      <4>2. /\ durable' = durable
            /\ saved' = saved \/ saved' = [saved EXCEPT ![c] = history[c]]
            /\ faults' = faults \/ faults' = faults + 1
        BY <4>1, SaveFacts
      <4>3. QED
        <5>1. saved \in [Convs -> Rows] /\ faults \in Nat
          BY DEF ConvTypeInv
        <5>2. saved' \in [Convs -> Rows]
          BY <3>1, <4>2, <5>1
        <5>3. faults' \in Nat
          BY <4>2, <5>1
        <5>4. QED
          BY <4>2, <5>2, <5>3
  <2>4. task' \in [Convs -> {"off", "loading", "open", "turn", "saving", "closed"}]
    BY <1>11 DEF SaveAndRespond, ConvTypeInv
  <2>5. UNCHANGED <<ask, before, seen, parent, registry, history, queue, orders, crashed>>
    BY <1>11 DEF SaveAndRespond, Same
  <2>6. QED
    BY <2>1, <2>2, <2>3, <2>4, <2>5 DEF ConvTypeInv, Typed
<1>12. CASE OthersSpawn
  BY <1>w, <1>12 DEF OthersSpawn, ConvTypeInv
<1>14. CASE Crash
  <2>1. Typed'
    BY <1>14 DEF Crash, Typed, ConvTypeInv, Places, Whys
  <2>2. CrowdType'
    BY <1>w
  <2>3. node' \in [Convs -> States]
    BY <1>14 DEF Crash, States
  <2>4. /\ history' \in [Convs -> Seq(Turns)] /\ queue' \in [Convs -> Seq(Requests)]
        /\ orders' \in [Convs -> Seq({"stop", "restart"})]
    BY <1>14 DEF Crash
  <2>5. QED
    BY <1>14, <2>1, <2>2, <2>3, <2>4 DEF Crash, Same, ConvTypeInv, Typed
<1>15. QED
  BY <1>0, <1>1, <1>2, <1>3, <1>4, <1>5, <1>6, <1>7, <1>8, <1>9, <1>10, <1>11, <1>12, <1>14
  DEF ConvNext, Handler, Instance

-----------------------------------------------------------------------------
(* How a request goes on: it stays, begins, or moves and may be answered. *)

Stays(r) == at'[r] = at[r] /\ answer'[r] = answer[r] /\ seen'[r] = seen[r] /\ before'[r] = before[r]
Begins(r) ==
  /\ at[r] = "idle" /\ at'[r] \in {"resolve", "send"} /\ answer'[r] = answer[r]
  /\ before'[r] = {q \in Requests : at[q] = "done"}
Progresses(r) ==
  /\ at[r] \notin {"idle", "done"} /\ at'[r] # "idle" /\ before'[r] = before[r]
  /\ at'[r] = "done" <=> answer'[r] # "none"

GoesOn ==
  /\ ask' = ask /\ durable' = durable
  /\ \A r \in Requests : Stays(r) \/ (Begins(r) /\ VerbFits(r)') \/ (Progresses(r) /\ VerbFits(r)')
  /\ faults' \in Nat /\ faults' >= faults
  /\ crashed => crashed'

LEMMA HandlerGoesOn ==
  ASSUME ConvTypeInv, PlaceInv, NEW r \in Requests, Begin(r) \/ Handler(r)
  PROVE  GoesOn
<1> USE DEF requests, store, registry, tasks
<1>t. /\ ask \in [Requests -> Asks] /\ at \in [Requests -> Places] /\ answer \in [Requests -> Whys]
      /\ before \in [Requests -> SUBSET Requests] /\ seen \in [Requests -> Rows]
      /\ Verb(r) \in Messages \cup Orders \cup {"get"} /\ faults \in Nat
      /\ at[r] = "done" <=> answer[r] # "none"
  BY AsksFacts DEF ConvTypeInv, PlaceInv
<1>f. VerbFits(r)
  BY DEF PlaceInv
<1>1. CASE Begin(r)
  <2>1. /\ ask' = ask /\ durable' = durable /\ faults' = faults /\ crashed' = crashed
        /\ seen' = seen /\ answer' = answer /\ at[r] = "idle"
        /\ before' = [before EXCEPT ![r] = {q \in Requests : at[q] = "done"}]
    BY <1>1 DEF Begin, Goto
  <2>2. \/ at' = [at EXCEPT ![r] = "resolve"]
        \/ at' = [at EXCEPT ![r] = "send"] /\ Verb(r) \in {"tell", "get"}
    BY <1>1 DEF Begin, Goto
  <2>3. Begins(r)
    BY <1>t, <2>1, <2>2 DEF Begins
  <2>4. VerbFits(r)'
    BY <1>t, <1>f, <2>1, <2>2 DEF VerbFits, Verb, Messages, Makers, Senders
  <2>5. \A q \in Requests : q # r => Stays(q)
    BY <1>t, <2>1, <2>2 DEF Stays
  <2>6. QED
    BY <1>t, <2>1, <2>3, <2>4, <2>5 DEF GoesOn
<1>2. ASSUME ask' = ask, durable' = durable, crashed' = crashed, before' = before,
             faults' = faults \/ faults' = faults + 1,
             \A q \in Requests \ {r} : seen'[q] = seen[q],
             at[r] \notin {"idle", "done"},
             NEW p \in Places \ {"idle"}, at' = [at EXCEPT ![r] = p],
             NEW w \in Whys, answer' = [answer EXCEPT ![r] = w], p = "done" <=> w # "none",
             /\ p \in Makers => Verb(r) \in {"start", "message"}
             /\ p \in Senders => Verb(r) \in Messages \cup {"get"}
             /\ p = "registry" => Verb(r) \in {"stop", "stopTarget", "restart"}
             /\ p = "unregister" => Verb(r) \in {"stop", "stopTarget"}
             /\ w = "refused" => Verb(r) \in Orders
      PROVE  GoesOn
  <2>1. Progresses(r)
    BY <1>t, <1>2 DEF Progresses
  <2>2. VerbFits(r)'
    <3>1. at'[r] = p /\ answer'[r] = w /\ Verb(r)' = Verb(r)
      BY <1>t, <1>2 DEF Verb
    <3>2. QED
      BY <1>2, <3>1 DEF VerbFits, Verb
  <2>3. \A q \in Requests : q # r => Stays(q)
    BY <1>t, <1>2 DEF Stays
  <2>4. faults' \in Nat /\ faults' >= faults
    BY <1>t, <1>2
  <2>5. QED
    BY <1>2, <2>1, <2>2, <2>3, <2>4 DEF GoesOn
<1>g. ASSUME NEW p \in Places \ {"idle", "done"}, Goto(r, p), at[r] \notin {"idle", "done"}
      PROVE  at' = [at EXCEPT ![r] = p] /\ answer' = [answer EXCEPT ![r] = "none"]
  BY <1>t, <1>g DEF Goto
<1>a. ASSUME NEW w \in Whys, Answer(r, w)
      PROVE  at' = [at EXCEPT ![r] = "done"] /\ answer' = [answer EXCEPT ![r] = w]
  BY <1>a DEF Answer
<1>3. CASE Handler(r)
  <2> USE DEF Places, Whys, Makers, Senders, Messages, Orders
  <2>1. CASE Resolve(r)
    BY <1>t, <1>2, <1>g, <2>1 DEF Resolve, Same
  <2>2. CASE FindAgent(r)
    BY <1>t, <1>f, <1>2, <1>g, <1>a, <2>2 DEF FindAgent, Same, Fault, VerbFits
  <2>3. CASE FindParent(r)
    BY <1>t, <1>f, <1>2, <1>g, <2>3 DEF FindParent, Same, WithParent, VerbFits
  <2>4. CASE InsertParent(r)
    BY <1>t, <1>f, <1>2, <1>g, <1>a, <2>4 DEF InsertParent, Same, VerbFits
  <2>5. CASE Spawn(r)
    <3>1. Refuses(C(r)) \in {"full", "limit", "exists", "no"}
      BY DEF Refuses
    <3>2. QED
      BY <1>t, <1>f, <1>2, <1>g, <1>a, <2>5, <3>1 DEF Spawn, Same, VerbFits
  <2>6. CASE Register(r) \/ RegisterControl(r)
    BY <1>t, <1>f, <1>2, <1>g, <2>6 DEF Register, RegisterControl, Same, VerbFits
  <2>7. CASE Send(r)
    <3>1. \A q \in Requests \ {r} : seen'[q] = seen[q]
      BY <1>t, <2>7 DEF Send
    <3>2. QED
      BY <1>t, <1>f, <1>2, <1>g, <1>a, <2>7, <3>1 DEF Send, Same, Fault, VerbFits
  <2>8. CASE LookupMailbox(r)
    BY <1>t, <1>f, <1>2, <1>g, <1>a, <2>8 DEF LookupMailbox, Same, VerbFits
  <2>9. CASE Enqueue(r)
    BY <1>t, <1>f, <1>2, <1>g, <1>a, <2>9 DEF Enqueue, Same, VerbFits
  <2>10. CASE ResolveGet(r)
    BY <1>t, <1>2, <1>g, <1>a, <2>10 DEF ResolveGet, Same, Fault
  <2>11. CASE GiveOrder(r)
    BY <1>t, <1>2, <1>g, <1>a, <2>11 DEF GiveOrder, Same
  <2>12. CASE Unregister(r)
    BY <1>t, <1>f, <1>2, <1>g, <2>12 DEF Unregister, Same, VerbFits, OrderOf
  <2>13. CASE AfterOrder(r)
    BY <1>t, <1>f, <1>2, <1>a, <2>13 DEF AfterOrder, Same, VerbFits
  <2>14. QED
    BY <1>3, <2>1, <2>2, <2>3, <2>4, <2>5, <2>6, <2>7, <2>8, <2>9, <2>10, <2>11, <2>12, <2>13 DEF Handler
<1>4. QED
  BY <1>1, <1>3

LEMMA ElementFacts ==
  ASSUME ConvTypeInv, QueueInv, NEW c \in Convs, queue[c] # << >>
  PROVE  /\ Head(queue[c]) \in Requests /\ at[Head(queue[c])] = "wait" /\ C(Head(queue[c])) = c
         /\ Head(queue[c]) = queue[c][1] /\ 1 \in DOMAIN queue[c]
<1>1. queue[c] \in Seq(Requests)
  BY DEF ConvTypeInv
<1>2. Head(queue[c]) = queue[c][1] /\ 1 \in DOMAIN queue[c] /\ Head(queue[c]) \in Requests
  BY <1>1
<1>3. QED
  BY <1>2 DEF QueueInv

\* The request at work.
LEMMA LastFacts ==
  ASSUME ConvTypeInv, TurnInv, NEW c \in Convs, task[c] \in {"turn", "saving"}
  PROVE  /\ history[c] \in Seq(Turns) /\ history[c] # << >>
         /\ Last(history[c]) = history[c][Len(history[c])]
         /\ Last(history[c])[2] \in Requests /\ at[Last(history[c])[2]] = "wait"
         /\ C(Last(history[c])[2]) = c /\ Verb(Last(history[c])[2]) \in Messages
         /\ ~Queued(c, Last(history[c])[2])
         /\ \/ Last(history[c]) = <<"user", Last(history[c])[2]>>
            \/ task[c] = "saving" /\ Last(history[c]) = <<"agent", Last(history[c])[2]>>
<1>1. PICK r \in Requests :
      /\ at[r] = "wait" /\ C(r) = c /\ Verb(r) \in Messages /\ ~Queued(c, r)
      /\ history[c] # << >>
      /\ \/ history[c][Len(history[c])] = <<"user", r>>
         \/ task[c] = "saving" /\ history[c][Len(history[c])] = <<"agent", r>>
  BY DEF TurnInv
<1>2. history[c] \in Seq(Turns) /\ Last(history[c]) = history[c][Len(history[c])]
  BY DEF ConvTypeInv, Last
<1>3. Last(history[c])[2] = r
  BY <1>1, <1>2
<1>4. QED
  BY <1>1, <1>2, <1>3

LEMMA InstanceGoesOn ==
  ASSUME ConvTypeInv, AskCourse, NEW c \in Convs, Instance(c)
  PROVE  GoesOn
<1> USE DEF requests, store, registry, tasks
<1>t. /\ ask \in [Requests -> Asks] /\ at \in [Requests -> Places] /\ answer \in [Requests -> Whys]
      /\ before \in [Requests -> SUBSET Requests] /\ seen \in [Requests -> Rows]
      /\ faults \in Nat
      /\ \A r \in Requests : (at[r] = "done" <=> answer[r] # "none") /\ VerbFits(r)
  BY DEF ConvTypeInv, AskCourse, PlaceInv
<1>0. ASSUME ask' = ask, durable' = durable, crashed' = crashed,
             faults' = faults \/ faults' = faults + 1, UNCHANGED <<at, answer, seen, before>>
      PROVE  GoesOn
  BY <1>t, <1>0 DEF GoesOn, Stays
\* Those who wait are answered.
<1>a. ASSUME ask' = ask, durable' = durable, crashed' = crashed, before' = before,
             faults' = faults \/ faults' = faults + 1,
             \A q \in Requests :
               \/ at'[q] = at[q] /\ answer'[q] = answer[q] /\ seen'[q] = seen[q]
               \/ at[q] = "wait" /\ at'[q] = "done" /\ answer'[q] \notin {"none", "refused"}
      PROVE  GoesOn
  <2> SUFFICES ASSUME NEW q \in Requests
               PROVE  Stays(q) \/ (Begins(q) /\ VerbFits(q)') \/ (Progresses(q) /\ VerbFits(q)')
    BY <1>t, <1>a DEF GoesOn
  <2>1. CASE at'[q] = at[q] /\ answer'[q] = answer[q] /\ seen'[q] = seen[q]
    BY <1>a, <2>1 DEF Stays
  <2>2. CASE at[q] = "wait" /\ at'[q] = "done" /\ answer'[q] \notin {"none", "refused"}
    <3>1. Progresses(q)
      BY <1>a, <2>2 DEF Progresses
    <3>2. VerbFits(q)'
      BY <2>2 DEF VerbFits, Makers, Senders
    <3>3. QED
      BY <3>1, <3>2
  <2>3. QED
    BY <1>a, <2>1, <2>2
<1>1. CASE Load(c)
  BY <1>0, <1>1 DEF Load, Fault
<1>2. CASE ObeyStop(c)
  <2>1. ASSUME NEW q \in Requests, q \in Dropped(c) PROVE at[q] = "wait"
    <3>1. queue[c] \in Seq(Requests)
      BY DEF ConvTypeInv
    <3>2. PICK i \in DOMAIN queue[c] : queue[c][i] = q
      BY <2>1 DEF Dropped, ToSet
    <3>3. QED
      BY <3>2 DEF AskCourse, QueueInv
  <2>2. \A q \in Requests :
          \/ at'[q] = at[q] /\ answer'[q] = answer[q] /\ seen'[q] = seen[q]
          \/ at[q] = "wait" /\ at'[q] = "done" /\ answer'[q] = "dropped"
    BY <1>2, <2>1 DEF ObeyStop
  <2>3. QED
    BY <1>2, <1>a, <2>2 DEF ObeyStop, Same
<1>3. CASE ObeyRestart(c)
  <2>1. Save(c, << >>) /\ UNCHANGED <<ask, crashed, at, answer, seen, before>>
    BY <1>3 DEF ObeyRestart
  <2>2. QED
    BY <1>0, <2>1, SaveFacts
<1>4. CASE Take(c)
  <2>1. Head(queue[c]) \in Requests /\ at[Head(queue[c])] = "wait"
    BY <1>4, ElementFacts DEF Take, AskCourse
  <2>2. \A q \in Requests :
          \/ at'[q] = at[q] /\ answer'[q] = answer[q] /\ seen'[q] = seen[q]
          \/ at[q] = "wait" /\ at'[q] = "done" /\ answer'[q] = "ok"
    BY <1>4, <1>t, <2>1 DEF Take, Answer
  <2>3. QED
    BY <1>4, <1>a, <2>2 DEF Take, Same
<1>5. CASE TurnEnds(c)
  BY <1>0, <1>5 DEF TurnEnds
<1>6. CASE SaveAndRespond(c)
  <2>1. Last(history[c])[2] \in Requests /\ at[Last(history[c])[2]] = "wait"
    BY <1>6, LastFacts DEF SaveAndRespond, AskCourse
  <2>2. \A q \in Requests :
          \/ at'[q] = at[q] /\ answer'[q] = answer[q] /\ seen'[q] = seen[q]
          \/ at[q] = "wait" /\ at'[q] = "done" /\ answer'[q] \in {"ok", "failed"}
    BY <1>6, <1>t, <2>1 DEF SaveAndRespond, Answer
  <2>3. Save(c, history[c]) /\ UNCHANGED <<ask, crashed, before>>
    BY <1>6 DEF SaveAndRespond, Same
  <2>4. QED
    BY <1>a, <2>2, <2>3, SaveFacts
<1>7. QED
  BY <1>1, <1>2, <1>3, <1>4, <1>5, <1>6 DEF Instance

LEMMA StepGoesOn ==
  ASSUME ConvTypeInv, AskCourse, [ConvNext]_convVars
  PROVE  GoesOn
<1>t. faults \in Nat /\ \A r \in Requests : at[r] = "done" <=> answer[r] # "none"
  BY DEF ConvTypeInv, AskCourse, PlaceInv
<1>1. ASSUME NEW r \in Requests, Begin(r) \/ Handler(r) PROVE GoesOn
  BY <1>1, HandlerGoesOn DEF AskCourse
<1>2. ASSUME NEW c \in Convs, Instance(c) PROVE GoesOn
  BY <1>2, InstanceGoesOn
<1>3. CASE OthersSpawn \/ UNCHANGED convVars
  BY <1>t, <1>3 DEF OthersSpawn, convVars, requests, store, GoesOn, Stays
<1>4. CASE Crash
  <2>1. \A r \in Requests : IF at[r] \notin {"idle", "done"}
          THEN at'[r] = "done" /\ answer'[r] = "lost"
          ELSE at'[r] = at[r] /\ answer'[r] = answer[r]
    BY <1>4 DEF Crash, ConvTypeInv
  <2>2. ask' = ask /\ durable' = durable /\ faults' = faults /\ crashed' = TRUE
        /\ before' = before /\ seen' = seen
    BY <1>4 DEF Crash, Same, store
  <2>3. ASSUME NEW r \in Requests PROVE Stays(r) \/ (Progresses(r) /\ VerbFits(r)')
    BY <2>1, <2>2 DEF Stays, Progresses, VerbFits, Makers, Senders
  <2>4. QED
    BY <1>t, <2>2, <2>3 DEF GoesOn
<1>5. QED
  BY <1>1, <1>2, <1>3, <1>4 DEF ConvNext

LEMMA PlaceStep ==
  ASSUME ConvTypeInv, PlaceInv, GoesOn
  PROVE  PlaceInv'
<1> SUFFICES ASSUME NEW r \in Requests
             PROVE  /\ (at'[r] = "done" <=> answer'[r] # "none")
                    /\ VerbFits(r)'
                    /\ \A q \in before'[r] : at'[q] = "done"
  BY DEF PlaceInv
<1>1. Stays(r) \/ (Begins(r) /\ VerbFits(r)') \/ (Progresses(r) /\ VerbFits(r)')
  BY DEF GoesOn
<1>2. at'[r] = "done" <=> answer'[r] # "none"
  BY <1>1 DEF PlaceInv, Stays, Begins, Progresses
<1>3. VerbFits(r)'
  <2>1. CASE Stays(r)
    <3>1. VerbFits(r) /\ ask' = ask
      BY DEF PlaceInv, GoesOn
    <3>2. QED
      BY <2>1, <3>1 DEF VerbFits, Stays, Verb
  <2>2. QED
    BY <1>1, <2>1
<1>4. ASSUME NEW q \in before'[r] PROVE at'[q] = "done"
  <2>1. q \in Requests /\ at[q] = "done"
    <3>1. before[r] \subseteq Requests
      BY DEF ConvTypeInv
    <3>2. QED
      BY <1>1, <1>4, <3>1 DEF PlaceInv, Stays, Begins, Progresses
  <2>2. Stays(q) \/ Begins(q) \/ Progresses(q)
    BY <2>1 DEF GoesOn
  <2>3. QED
    BY <2>1, <2>2 DEF Stays, Begins, Progresses
<1>5. QED
  BY <1>2, <1>3, <1>4

\* What was asked stays asked, and excuses stay excuses.
LEMMA GoesOnKeeps ==
  ASSUME ConvTypeInv, PlaceInv, GoesOn
  PROVE  /\ \A r \in Requests : C(r)' = C(r) /\ Verb(r)' = Verb(r)
         /\ \A r \in Requests : Begun(r) => Begun(r)' /\ before'[r] = before[r]
         /\ \A r \in Requests : at[r] = "done" =>
              at'[r] = "done" /\ answer'[r] = answer[r] /\ seen'[r] = seen[r]
         /\ \A c, verbs : AskedFor(c, verbs) => AskedFor(c, verbs)'
         /\ \A r \in Requests : Begun(r) /\ Rival(r) => Rival(r)'
         /\ \A c : Forgets(c) => Forgets(c)'
<1>1. \A r \in Requests : C(r)' = C(r) /\ Verb(r)' = Verb(r)
  BY DEF GoesOn, C, Verb
<1>2. \A r \in Requests : Begun(r) => Begun(r)' /\ before'[r] = before[r]
  BY DEF GoesOn, Stays, Begins, Progresses, Begun
<1>3. \A r \in Requests : at[r] = "done" =>
        at'[r] = "done" /\ answer'[r] = answer[r] /\ seen'[r] = seen[r]
  BY DEF GoesOn, Stays, Begins, Progresses
<1>4. \A c, verbs : AskedFor(c, verbs) => AskedFor(c, verbs)'
  BY <1>1, <1>2 DEF AskedFor
<1>5. \A r \in Requests : Begun(r) /\ Rival(r) => Rival(r)'
  BY <1>1, <1>2 DEF Rival
<1>6. \A c : Forgets(c) => Forgets(c)'
  <2>1. faults \in Nat /\ faults' \in Nat /\ faults' >= faults /\ (crashed => crashed') /\ durable' = durable
    BY DEF ConvTypeInv, GoesOn
  <2>2. faults > 0 => faults' > 0
    BY <2>1
  <2>3. QED
    BY <1>4, <2>1, <2>2 DEF Forgets
<1>7. QED
  BY <1>1, <1>2, <1>3, <1>4, <1>5, <1>6

-----------------------------------------------------------------------------
(* Mailboxes and the message at work. *)

QueueOk(c) ==
  /\ \A i \in DOMAIN queue[c] : at[queue[c][i]] = "wait" /\ C(queue[c][i]) = c
  /\ \A i, j \in DOMAIN queue[c] : queue[c][i] = queue[c][j] => i = j

TurnOk(c) ==
  task[c] \in {"turn", "saving"} =>
    \E r \in Requests :
      /\ at[r] = "wait" /\ C(r) = c /\ Verb(r) \in Messages /\ ~Queued(c, r)
      /\ history[c] # << >>
      /\ \/ history[c][Len(history[c])] = <<"user", r>>
         \/ task[c] = "saving" /\ history[c][Len(history[c])] = <<"agent", r>>

\* Nothing happens to the requests and the task of a conversation.
LEMMA OthersKeep ==
  ASSUME ConvTypeInv, QueueInv, TurnInv, GoesOn, NEW c \in Convs, queue'[c] = queue[c],
         \A q \in Requests : at[q] = "wait" /\ C(q) = c => at'[q] = "wait"
  PROVE  /\ QueueOk(c)'
         /\ task'[c] = task[c] /\ history'[c] = history[c] => TurnOk(c)'
<1>1. /\ queue[c] \in Seq(Requests) /\ QueueOk(c) /\ TurnOk(c)
      /\ \A i \in DOMAIN queue[c] : queue[c][i] \in Requests
  <2>1. queue[c] \in Seq(Requests)
    BY DEF ConvTypeInv
  <2>2. \A i \in DOMAIN queue[c] : queue[c][i] \in Requests
    BY <2>1
  <2>3. QueueOk(c) /\ TurnOk(c)
    BY DEF QueueInv, QueueOk, TurnInv, TurnOk
  <2>4. QED
    BY <2>1, <2>2, <2>3
<1>2. \A q \in Requests : C(q)' = C(q) /\ Verb(q)' = Verb(q)
  BY DEF GoesOn, C, Verb
<1>3. QueueOk(c)'
  <2>1. ASSUME NEW i \in DOMAIN queue[c] PROVE at'[queue[c][i]] = "wait" /\ C(queue[c][i])' = c
    <3>1. queue[c][i] \in Requests /\ at[queue[c][i]] = "wait" /\ C(queue[c][i]) = c
      BY <1>1 DEF QueueOk
    <3>2. PICK q \in Requests : q = queue[c][i]
      BY <3>1
    <3>3. at'[q] = "wait" /\ ask'[q].conv = c
      BY <1>2, <3>1, <3>2 DEF C
    <3>4. QED
      BY <3>2, <3>3, <3>1 DEF C, GoesOn
  <2>2. QED
    BY <1>1, <2>1 DEF QueueOk, C
<1>4. ASSUME task'[c] = task[c], history'[c] = history[c] PROVE TurnOk(c)'
  <2>1. SUFFICES ASSUME task[c] \in {"turn", "saving"} PROVE TurnOk(c)'
    BY <1>4 DEF TurnOk
  <2>2. PICK r \in Requests :
      /\ at[r] = "wait" /\ C(r) = c /\ Verb(r) \in Messages /\ ~Queued(c, r)
      /\ history[c] # << >>
      /\ \/ history[c][Len(history[c])] = <<"user", r>>
         \/ task[c] = "saving" /\ history[c][Len(history[c])] = <<"agent", r>>
    BY <1>1, <2>1 DEF TurnOk
  <2>3. at'[r] = "wait" /\ C(r)' = c /\ Verb(r)' \in Messages /\ ~Queued(c, r)'
    BY <1>2, <2>2 DEF Queued
  <2>4. QED
    BY <1>4, <2>2, <2>3 DEF TurnOk
<1>5. QED
  BY <1>3, <1>4

\* Whose task does not run.
LEMMA EmptyKeeps ==
  ASSUME NEW c \in Convs, queue'[c] = << >>, task'[c] \notin {"turn", "saving"}
  PROVE  QueueOk(c)' /\ TurnOk(c)'
BY DEF QueueOk, TurnOk

LEMMA AppendSays ==
  ASSUME NEW s \in Seq(Turns), NEW m
  PROVE  /\ Append(s, m) # << >> /\ Len(Append(s, m)) = Len(s) + 1 /\ Len(s) \in Nat
         /\ DOMAIN Append(s, m) = 1..(Len(s) + 1) /\ DOMAIN s = 1..Len(s)
         /\ \A i \in 1..Len(s) : Append(s, m)[i] = s[i]
         /\ Append(s, m)[Len(s) + 1] = m
         /\ Append(s, m)[Len(Append(s, m))] = m
OBVIOUS

LEMMA MailboxStep ==
  ASSUME ConvTypeInv, AskCourse, GoesOn, [ConvNext]_convVars
  PROVE  QueueInv' /\ TurnInv'
<1> USE DEF requests, store, registry, tasks
<1>t. /\ at \in [Requests -> Places] /\ answer \in [Requests -> Whys]
      /\ task \in [Convs -> {"off", "loading", "open", "turn", "saving", "closed"}]
      /\ history \in [Convs -> Seq(Turns)] /\ queue \in [Convs -> Seq(Requests)]
  BY DEF ConvTypeInv
<1> SUFFICES ASSUME NEW c \in Convs PROVE QueueOk(c)' /\ TurnOk(c)'
  BY DEF QueueInv, QueueOk, TurnInv, TurnOk
<1>i. QueueInv /\ TurnInv /\ QueueOk(c) /\ TurnOk(c)
  BY DEF AskCourse, QueueInv, QueueOk, TurnInv, TurnOk
<1>k. \A q \in Requests : C(q)' = C(q) /\ Verb(q)' = Verb(q)
  BY DEF GoesOn, C, Verb
<1>0. ASSUME UNCHANGED <<task, history, queue>>,
             \A q \in Requests : at[q] = "wait" => at'[q] = "wait"
      PROVE  QueueOk(c)' /\ TurnOk(c)'
  BY <1>0, <1>i, OthersKeep
<1>1. ASSUME NEW r \in Requests,
             Begin(r) \/ Resolve(r) \/ FindAgent(r) \/ FindParent(r) \/ InsertParent(r) \/ Register(r)
             \/ RegisterControl(r) \/ Send(r) \/ LookupMailbox(r) \/ ResolveGet(r) \/ GiveOrder(r)
             \/ Unregister(r) \/ AfterOrder(r)
      PROVE  QueueOk(c)' /\ TurnOk(c)'
  <2>1. UNCHANGED <<task, history, queue>> /\ at[r] # "wait" /\ \A q \in Requests : q # r => at'[q] = at[q]
    BY <1>1, <1>t DEF Begin, Resolve, FindAgent, FindParent, InsertParent, Register, RegisterControl,
       Send, LookupMailbox, ResolveGet, GiveOrder, Unregister, AfterOrder, Goto, Answer
  <2>2. QED
    BY <1>0, <2>1
<1>2. ASSUME NEW r \in Requests, Spawn(r) PROVE QueueOk(c)' /\ TurnOk(c)'
  <2>1. at[r] # "wait" /\ \A q \in Requests : q # r => at'[q] = at[q]
    BY <1>2, <1>t DEF Spawn, Goto, Answer
  <2>2. CASE Refuses(C(r)) # "no"
    BY <1>0, <1>2, <2>1, <2>2 DEF Spawn
  <2>3. CASE Refuses(C(r)) = "no" /\ c = C(r)
    <3>1. queue'[c] = << >> /\ task'[c] = "loading"
      BY <1>2, <1>t, <2>3 DEF Spawn
    <3>2. QED
      BY <3>1, EmptyKeeps
  <2>4. CASE Refuses(C(r)) = "no" /\ c # C(r)
    <3>1. queue'[c] = queue[c] /\ task'[c] = task[c] /\ history'[c] = history[c]
      BY <1>2, <1>t, <2>4 DEF Spawn
    <3>2. QED
      BY <1>i, <2>1, <3>1, OthersKeep
  <2>5. QED
    BY <2>2, <2>3, <2>4
<1>3. ASSUME NEW r \in Requests, Enqueue(r) PROVE QueueOk(c)' /\ TurnOk(c)'
  <2>1. at[r] = "queue" /\ UNCHANGED <<task, history>> /\ \A q \in Requests : q # r => at'[q] = at[q]
    BY <1>3, <1>t DEF Enqueue, Goto, Answer
  <2>2. CASE queue'[c] = queue[c]
    BY <1>i, <2>1, <2>2, OthersKeep
  <2>3. CASE queue'[c] # queue[c]
    <3>1. c = C(r) /\ queue'[c] = Append(queue[c], r) /\ at'[r] = "wait"
      BY <1>3, <1>t, <2>3 DEF Enqueue, Goto, Answer
    <3> DEFINE n == Len(queue[c])
    <3>2. /\ n \in Nat /\ DOMAIN queue[c] = 1..n /\ DOMAIN Append(queue[c], r) = 1..(n + 1)
          /\ \A i \in 1..n : Append(queue[c], r)[i] = queue[c][i] /\ queue[c][i] \in Requests
          /\ Append(queue[c], r)[n + 1] = r
      BY <1>t
    <3> HIDE DEF n
    <3>3. \A i \in 1..n : queue[c][i] # r
      BY <1>i, <2>1, <3>2 DEF QueueOk
    <3>4. \A i \in 1..(n + 1) : i \in 1..n \/ i = n + 1
      BY <3>2
    <3>5. ASSUME NEW i \in 1..(n + 1)
          PROVE  at'[queue'[c][i]] = "wait" /\ ask'[queue'[c][i]].conv = c
      <4>1. CASE i \in 1..n
        <5>1. queue'[c][i] = queue[c][i] /\ queue[c][i] \in Requests /\ queue[c][i] # r
          BY <3>1, <3>2, <3>3, <4>1
        <5>2. at[queue[c][i]] = "wait" /\ C(queue[c][i]) = c
          BY <1>i, <3>2, <4>1 DEF QueueOk
        <5>3. QED
          BY <2>1, <5>1, <5>2 DEF C, GoesOn
      <4>2. CASE i = n + 1
        BY <3>1, <3>2, <4>2 DEF C, GoesOn
      <4>3. QED
        BY <3>4, <4>1, <4>2
    <3>6. ASSUME NEW i \in 1..(n + 1), NEW j \in 1..(n + 1), queue'[c][i] = queue'[c][j]
          PROVE  i = j
      <4>1. CASE i \in 1..n /\ j \in 1..n
        BY <1>i, <3>1, <3>2, <3>6, <4>1 DEF QueueOk
      <4>2. QED
        BY <3>1, <3>2, <3>3, <3>4, <3>6, <4>1
    <3>7. QueueOk(c)'
      BY <3>1, <3>2, <3>5, <3>6 DEF QueueOk, C
    <3>8. TurnOk(c)'
      <4>1. SUFFICES ASSUME task[c] \in {"turn", "saving"} PROVE TurnOk(c)'
        BY <2>1 DEF TurnOk
      <4>2. PICK q \in Requests :
              /\ at[q] = "wait" /\ C(q) = c /\ Verb(q) \in Messages /\ ~Queued(c, q)
              /\ history[c] # << >>
              /\ \/ history[c][Len(history[c])] = <<"user", q>>
                 \/ task[c] = "saving" /\ history[c][Len(history[c])] = <<"agent", q>>
        BY <1>i, <4>1 DEF TurnOk
      <4>3. at'[q] = "wait" /\ C(q)' = c /\ Verb(q)' \in Messages /\ q # r
        BY <1>k, <2>1, <4>2
      <4>4. ~Queued(c, q)'
        BY <3>1, <3>2, <3>4, <4>2, <4>3 DEF Queued
      <4>5. QED
        BY <2>1, <4>2, <4>3, <4>4 DEF TurnOk
    <3>9. QED
      BY <3>7, <3>8
  <2>4. QED
    BY <2>2, <2>3
<1>4. ASSUME NEW d \in Convs, Load(d) \/ ObeyRestart(d) PROVE QueueOk(c)' /\ TurnOk(c)'
  <2>1. UNCHANGED <<queue, at>> /\ task[d] \in {"loading", "open"} /\ task'[d] = "open"
        /\ \A e \in Convs : e # d => task'[e] = task[e] /\ history'[e] = history[e]
    BY <1>4, <1>t DEF Load, ObeyRestart
  <2>2. QueueOk(c)'
    BY <1>i, <2>1, OthersKeep
  <2>3. CASE c = d
    BY <2>1, <2>2, <2>3 DEF TurnOk
  <2>4. CASE c # d
    BY <1>i, <2>1, <2>4, OthersKeep
  <2>5. QED
    BY <2>2, <2>3, <2>4
<1>5. ASSUME NEW d \in Convs, ObeyStop(d) PROVE QueueOk(c)' /\ TurnOk(c)'
  <2>1. CASE c = d
    <3>1. queue'[c] = << >> /\ task'[c] = "closed"
      BY <1>5, <1>t, <2>1 DEF ObeyStop
    <3>2. QED
      BY <3>1, EmptyKeeps
  <2>2. CASE c # d
    <3>1. queue'[c] = queue[c] /\ task'[c] = task[c] /\ history'[c] = history[c]
      BY <1>5, <1>t, <2>2 DEF ObeyStop
    <3>2. ASSUME NEW q \in Requests, q \in Dropped(d) PROVE C(q) = d
      BY <1>i, <3>2 DEF Dropped, ToSet, QueueInv
    <3>3. \A q \in Requests : C(q) = c => at'[q] = at[q]
      BY <1>5, <2>2, <3>2 DEF ObeyStop
    <3>4. QED
      BY <1>i, <3>1, <3>3, OthersKeep
  <2>3. QED
    BY <2>1, <2>2
<1>6. ASSUME NEW d \in Convs, Take(d) PROVE QueueOk(c)' /\ TurnOk(c)'
  <2>0. PICK h \in Requests : h = Head(queue[d])
    BY <1>6, <1>i, ElementFacts DEF Take
  <2>1. /\ h \in Requests /\ at[h] = "wait" /\ C(h) = d /\ h = queue[d][1] /\ 1 \in DOMAIN queue[d]
        /\ queue[d] \in Seq(Requests) /\ queue[d] # << >>
    BY <2>0, <1>6, <1>i, <1>t, ElementFacts DEF Take
  <2>2. queue' = [queue EXCEPT ![d] = Tail(queue[d])] /\ task[d] = "open"
        /\ \A q \in Requests : q # h => at'[q] = at[q]
    BY <2>0, <1>6, <1>t DEF Take, Answer
  <2>3. CASE c # d
    <3>1. queue'[c] = queue[c] /\ task'[c] = task[c] /\ history'[c] = history[c]
      BY <1>6, <1>t, <2>3 DEF Take
    <3>2. \A q \in Requests : C(q) = c => at'[q] = at[q]
      BY <2>1, <2>2, <2>3
    <3>3. QED
      BY <1>i, <3>1, <3>2, OthersKeep
  <2>4. CASE c = d
    <3> DEFINE n == Len(queue[c])
    <3>1. /\ queue'[c] = Tail(queue[c]) /\ n \in Nat /\ n > 0 /\ DOMAIN queue[c] = 1..n
          /\ DOMAIN Tail(queue[c]) = 1..(n - 1)
          /\ \A i \in 1..(n - 1) : Tail(queue[c])[i] = queue[c][i + 1]
      BY <1>t, <2>1, <2>2, <2>4
    <3> HIDE DEF n
    <3>2. \A i \in 1..(n - 1) : i + 1 \in 1..n /\ i + 1 # 1
      BY <3>1
    <3>3. \A i \in 1..(n - 1) : queue'[c][i] = queue[c][i + 1] /\ queue[c][i + 1] # h
      <4>1. \A i \in 1..n : queue[c][i] = queue[c][1] => i = 1
        BY <1>i, <2>1, <2>4, <3>1 DEF QueueOk
      <4>2. QED
        BY <2>1, <2>4, <3>1, <3>2, <4>1
    <3>4. \A i \in 1..(n - 1) : at'[queue'[c][i]] = "wait" /\ ask'[queue'[c][i]].conv = c
      <4> SUFFICES ASSUME NEW i \in 1..(n - 1)
                   PROVE  at'[queue'[c][i]] = "wait" /\ ask'[queue'[c][i]].conv = c
        OBVIOUS
      <4>1. queue[c][i + 1] \in Requests /\ at[queue[c][i + 1]] = "wait" /\ C(queue[c][i + 1]) = c
        BY <1>i, <2>1, <2>4, <3>1, <3>2 DEF QueueOk
      <4>2. QED
        BY <2>2, <3>3, <4>1 DEF C, GoesOn
    <3>5. \A i, j \in 1..(n - 1) : queue'[c][i] = queue'[c][j] => i = j
      <4> SUFFICES ASSUME NEW i \in 1..(n - 1), NEW j \in 1..(n - 1), queue'[c][i] = queue'[c][j]
                   PROVE  i = j
        OBVIOUS
      <4>1. i + 1 = j + 1
        BY <1>i, <3>1, <3>2, <3>3 DEF QueueOk
      <4>2. QED
        BY <3>1, <4>1
    <3>6. QueueOk(c)'
      BY <3>1, <3>4, <3>5 DEF QueueOk, C
    <3>7. TurnOk(c)'
      <4>1. CASE Verb(h) = "get"
        BY <2>0, <1>6, <2>2, <2>4, <4>1 DEF Take, TurnOk
      <4>2. CASE Verb(h) # "get"
        <5>1. history'[c] = Append(history[c], <<"user", h>>) /\ at' = at
          BY <2>0, <1>6, <1>t, <2>4, <4>2 DEF Take
        <5>2. history'[c] # << >> /\ history'[c][Len(history'[c])] = <<"user", h>>
          <6> DEFINE s == Append(history[c], <<"user", h>>)
          <6>1. s # << >> /\ s[Len(s)] = <<"user", h>>
            BY <1>t, AppendSays
          <6> HIDE DEF s
          <6>2. history'[c] = s
            BY <5>1 DEF s
          <6>3. QED
            BY <6>1, <6>2
        <5>3. Verb(h) \in Messages
          BY <2>1, <4>2 DEF AskCourse, PlaceInv, VerbFits, Senders
        <5>4. at'[h] = "wait" /\ C(h)' = c /\ Verb(h)' \in Messages
          BY <1>k, <2>1, <2>4, <5>1, <5>3
        <5>5. ~Queued(c, h)'
          BY <3>1, <3>3 DEF Queued
        <5>6. QED
          BY <5>2, <5>4, <5>5 DEF TurnOk
      <4>3. QED
        BY <4>1, <4>2
    <3>8. QED
      BY <3>6, <3>7
  <2>5. QED
    BY <2>3, <2>4
<1>7. ASSUME NEW d \in Convs, TurnEnds(d) PROVE QueueOk(c)' /\ TurnOk(c)'
  <2>1. /\ task[d] = "turn" /\ task' = [task EXCEPT ![d] = "saving"] /\ UNCHANGED <<queue, at>>
        /\ history' = history \/ history' = [history EXCEPT ![d] = Append(history[d], <<"agent", Last(history[d])[2]>>)]
    BY <1>7 DEF TurnEnds
  <2>2. QueueOk(c)'
    BY <1>i, <2>1, OthersKeep
  <2>3. CASE c # d
    <3>1. task'[c] = task[c] /\ history'[c] = history[c]
      BY <1>t, <2>1, <2>3
    <3>2. QED
      BY <1>i, <2>1, <3>1, OthersKeep
  <2>4. CASE c = d
    <3>1. PICK r \in Requests : r = Last(history[c])[2]
      BY <1>i, <2>1, <2>4, LastFacts
    <3>2. /\ history[c] \in Seq(Turns) /\ history[c] # << >>
          /\ Last(history[c]) = history[c][Len(history[c])]
          /\ at[r] = "wait" /\ C(r) = c /\ Verb(r) \in Messages /\ ~Queued(c, r)
          /\ Last(history[c]) = <<"user", r>>
      BY <1>i, <2>1, <2>4, <3>1, LastFacts
    <3>3. task'[c] = "saving" /\ at'[r] = "wait" /\ C(r)' = c /\ Verb(r)' \in Messages /\ ~Queued(c, r)'
      BY <1>k, <1>t, <2>1, <2>4, <3>2 DEF Queued
    <3>4. history'[c] = history[c] \/ history'[c] = Append(history[c], <<"agent", r>>)
      BY <1>t, <2>1, <2>4, <3>1
    <3>5. /\ history'[c] # << >>
          /\ \/ history'[c][Len(history'[c])] = <<"user", r>>
             \/ history'[c][Len(history'[c])] = <<"agent", r>>
      <4> DEFINE s == Append(history[c], <<"agent", r>>)
      <4>1. s # << >> /\ s[Len(s)] = <<"agent", r>>
        BY <3>2, AppendSays
      <4> HIDE DEF s
      <4>2. history'[c] = history[c] \/ history'[c] = s
        BY <3>4 DEF s
      <4>3. QED
        BY <3>2, <4>1, <4>2
    <3>6. QED
      BY <2>2, <3>3, <3>5 DEF TurnOk
  <2>5. QED
    BY <2>3, <2>4
<1>8. ASSUME NEW d \in Convs, SaveAndRespond(d) PROVE QueueOk(c)' /\ TurnOk(c)'
  <2>1. PICK r \in Requests : r = Last(history[d])[2]
    BY <1>8, <1>i, LastFacts DEF SaveAndRespond
  <2>2. C(r) = d /\ ~Queued(d, r)
    BY <1>8, <1>i, <2>1, LastFacts DEF SaveAndRespond
  <2>3. /\ task' = [task EXCEPT ![d] = "open"] /\ UNCHANGED <<history, queue>>
        /\ \A q \in Requests : q # r => at'[q] = at[q]
    BY <1>8, <1>t, <2>1 DEF SaveAndRespond, Answer
  <2>4. CASE c # d
    <3>1. task'[c] = task[c] /\ \A q \in Requests : C(q) = c => at'[q] = at[q]
      BY <1>t, <2>2, <2>3, <2>4
    <3>2. QED
      BY <1>i, <2>3, <3>1, OthersKeep
  <2>5. CASE c = d
    <3>1. TurnOk(c)'
      BY <1>t, <2>3, <2>5 DEF TurnOk
    <3>2. ASSUME NEW i \in DOMAIN queue[c] PROVE at'[queue[c][i]] = "wait" /\ ask'[queue[c][i]].conv = c
      <4>1. queue[c][i] \in Requests /\ queue[c][i] # r
        BY <1>t, <2>2, <2>5 DEF Queued
      <4>2. at[queue[c][i]] = "wait" /\ C(queue[c][i]) = c
        BY <1>i DEF QueueOk
      <4>3. QED
        BY <2>3, <4>1, <4>2 DEF C, GoesOn
    <3>3. QueueOk(c)'
      BY <1>i, <2>3, <3>2 DEF QueueOk, C
    <3>4. QED
      BY <3>1, <3>3
  <2>6. QED
    BY <2>4, <2>5
<1>9. CASE Crash
  <2>1. queue'[c] = << >> /\ task'[c] = "off"
    BY <1>9 DEF Crash
  <2>2. QED
    BY <2>1, EmptyKeeps
<1>10. CASE OthersSpawn \/ UNCHANGED convVars
  BY <1>0, <1>10 DEF OthersSpawn, convVars
<1>11. QED
  BY <1>1, <1>2, <1>3, <1>4, <1>5, <1>6, <1>7, <1>8, <1>9, <1>10 DEF ConvNext, Handler, Instance

-----------------------------------------------------------------------------
(* Orders were asked for, and so was what is missing in the registry. *)

OrderOk(c) ==
  /\ \A i \in DOMAIN orders[c] :
       IF orders[c][i] = "stop" THEN StopAsked(c) ELSE RestartAsked(c)
  /\ task[c] = "closed" => StopAsked(c)

LEMMA OrderStep ==
  ASSUME ConvTypeInv, AskCourse, OrderInv, GoesOn, [ConvNext]_convVars
  PROVE  OrderInv'
<1> USE DEF requests, store, registry, tasks
<1>t. /\ task \in [Convs -> {"off", "loading", "open", "turn", "saving", "closed"}]
      /\ orders \in [Convs -> Seq({"stop", "restart"})]
  BY DEF ConvTypeInv
<1> SUFFICES ASSUME NEW c \in Convs PROVE OrderOk(c)'
  BY DEF OrderInv, OrderOk
<1>k. (StopAsked(c) => StopAsked(c)') /\ (RestartAsked(c) => RestartAsked(c)')
  BY GoesOnKeeps DEF AskCourse, StopAsked, RestartAsked
<1>i. OrderOk(c)
  BY DEF OrderInv, OrderOk
<1>0. ASSUME orders'[c] = orders[c], task'[c] = "closed" => task[c] = "closed"
      PROVE  OrderOk(c)'
  BY <1>0, <1>i, <1>k DEF OrderOk
<1>1. ASSUME orders'[c] = << >>, task'[c] # "closed"
      PROVE  OrderOk(c)'
  BY <1>1 DEF OrderOk
<1>2. ASSUME NEW r \in Requests,
             Begin(r) \/ Resolve(r) \/ FindAgent(r) \/ FindParent(r) \/ InsertParent(r) \/ Register(r)
             \/ RegisterControl(r) \/ Send(r) \/ LookupMailbox(r) \/ Enqueue(r) \/ ResolveGet(r)
             \/ Unregister(r) \/ AfterOrder(r)
      PROVE  OrderOk(c)'
  BY <1>0, <1>2 DEF Begin, Resolve, FindAgent, FindParent, InsertParent, Register, RegisterControl, Enqueue,
       Send, LookupMailbox, ResolveGet, Unregister, AfterOrder
<1>3. ASSUME NEW r \in Requests, Spawn(r) PROVE OrderOk(c)'
  <2>1. \/ UNCHANGED <<task, orders>>
        \/ /\ task' = [task EXCEPT ![C(r)] = "loading"]
           /\ orders' = [orders EXCEPT ![C(r)] = << >>]
    BY <1>3 DEF Spawn
  <2>2. QED
    BY <1>0, <1>1, <1>t, <2>1
<1>4. ASSUME NEW r \in Requests, GiveOrder(r) PROVE OrderOk(c)'
  <2>1. task' = task /\ at[r] = "resolve" /\ Verb(r) \in Orders
        /\ (orders' = orders \/ orders' = [orders EXCEPT ![C(r)] = Append(orders[C(r)], OrderOf(r))])
    BY <1>4 DEF GiveOrder
  <2>2. CASE orders'[c] = orders[c]
    BY <1>0, <2>1, <2>2
  <2>3. CASE orders'[c] # orders[c]
    <3>1. c = C(r) /\ orders'[c] = Append(orders[c], OrderOf(r))
      BY <1>t, <2>1, <2>3
    <3>2. IF OrderOf(r) = "stop" THEN StopAsked(c) ELSE RestartAsked(c)
      BY <2>1, <3>1 DEF OrderOf, StopAsked, RestartAsked, AskedFor, Begun, Orders
    <3> DEFINE n == Len(orders[c])
    <3>3. /\ n \in Nat /\ DOMAIN orders[c] = 1..n /\ DOMAIN Append(orders[c], OrderOf(r)) = 1..(n + 1)
          /\ \A i \in 1..n : Append(orders[c], OrderOf(r))[i] = orders[c][i]
          /\ Append(orders[c], OrderOf(r))[n + 1] = OrderOf(r)
      BY <1>t
    <3> HIDE DEF n
    <3>4. \A i \in 1..(n + 1) : i \in 1..n \/ i = n + 1
      BY <3>3
    <3>5. \A i \in 1..(n + 1) : IF orders'[c][i] = "stop" THEN StopAsked(c) ELSE RestartAsked(c)
      BY <1>i, <3>1, <3>2, <3>3, <3>4 DEF OrderOk
    <3>6. DOMAIN orders'[c] = 1..(n + 1)
      BY <3>1, <3>3
    <3>7. QED
      BY <1>i, <1>k, <2>1, <3>5, <3>6 DEF OrderOk
  <2>4. QED
    BY <2>2, <2>3
<1>5. ASSUME NEW d \in Convs, Load(d) \/ Take(d) \/ TurnEnds(d) \/ SaveAndRespond(d) PROVE OrderOk(c)'
  <2>1. orders' = orders
    BY <1>5 DEF Load, Take, TurnEnds, SaveAndRespond
  <2>2. task'[c] = "closed" => task[c] = "closed"
    BY <1>5, <1>t DEF Load, Take, TurnEnds, SaveAndRespond
  <2>3. QED
    BY <1>0, <2>1, <2>2
<1>6. ASSUME NEW d \in Convs, ObeyStop(d) PROVE OrderOk(c)'
  <2>1. orders' = orders /\ orders[d] # << >> /\ Head(orders[d]) = "stop" /\ task' = [task EXCEPT ![d] = "closed"]
    BY <1>6 DEF ObeyStop
  <2>2. CASE c # d
    BY <1>0, <1>t, <2>1, <2>2
  <2>3. CASE c = d
    <3>1. 1 \in DOMAIN orders[c] /\ orders[c][1] = "stop"
      BY <1>t, <2>1, <2>3
    <3>2. StopAsked(c)
      BY <1>i, <3>1 DEF OrderOk
    <3>3. QED
      BY <1>i, <1>k, <2>1, <3>2 DEF OrderOk
  <2>4. QED
    BY <2>2, <2>3
<1>7. ASSUME NEW d \in Convs, ObeyRestart(d) PROVE OrderOk(c)'
  <2>1. task' = task /\ orders[d] # << >> /\ orders' = [orders EXCEPT ![d] = Tail(orders[d])]
    BY <1>7 DEF ObeyRestart
  <2>2. CASE c # d
    BY <1>0, <1>t, <2>1, <2>2
  <2>3. CASE c = d
    <3> DEFINE n == Len(orders[c])
    <3>1. /\ n \in Nat /\ n > 0 /\ DOMAIN orders[c] = 1..n /\ DOMAIN Tail(orders[c]) = 1..(n - 1)
          /\ \A i \in 1..(n - 1) : Tail(orders[c])[i] = orders[c][i + 1]
          /\ orders'[c] = Tail(orders[c])
      BY <1>t, <2>1, <2>3
    <3> HIDE DEF n
    <3>2. \A i \in 1..(n - 1) : i + 1 \in 1..n
      BY <3>1
    <3>3. \A i \in DOMAIN orders'[c] : IF orders'[c][i] = "stop" THEN StopAsked(c) ELSE RestartAsked(c)
      BY <1>i, <3>1, <3>2 DEF OrderOk
    <3>4. QED
      BY <1>i, <1>k, <2>1, <3>3 DEF OrderOk
  <2>4. QED
    BY <2>2, <2>3
<1>8. CASE Crash
  BY <1>1, <1>8 DEF Crash
<1>9. CASE OthersSpawn \/ UNCHANGED convVars
  BY <1>0, <1>9 DEF OthersSpawn, convVars
<1>10. QED
  BY <1>2, <1>3, <1>4, <1>5, <1>6, <1>7, <1>8, <1>9 DEF ConvNext, Handler, Instance

TreeOk(c) ==
  /\ task[c] = "off" <=> node[c] = "absent"
  /\ node[c] # "absent" => AskedFor(c, {"start", "message"})
  /\ node[c] # "absent" /\ ~entry[c] => StopAsked(c) \/ Coming(c, "register")
  /\ entry[c] /\ ~mailbox[c] => StopAsked(c) \/ PlainRestart(c) \/ Coming(c, "control")

LEMMA InstanceTree ==
  ASSUME ConvTypeInv, TreeInv, NEW c \in Convs, NEW d \in Convs, Instance(d)
  PROVE  /\ task'[c] = "off" <=> task[c] = "off"
         /\ node'[c] = "absent" <=> node[c] = "absent"
         /\ entry' = entry /\ mailbox' = mailbox /\ parent' = parent /\ crashed' = crashed
         /\ task[c] \notin {"off", "loading"} => task'[c] \notin {"off", "loading"}
<1>t. /\ task \in [Convs -> {"off", "loading", "open", "turn", "saving", "closed"}]
      /\ node \in [Convs -> States] /\ (task[d] = "off" <=> node[d] = "absent")
  BY DEF ConvTypeInv, TreeInv
<1>1. ASSUME NEW state \in Walks, Transition(d, state), task[d] # "off"
      PROVE  node'[c] = "absent" <=> node[c] = "absent"
  <2>1. PICK s \in States \ {"absent"} : node' = [node EXCEPT ![d] = s]
    BY <1>1, TransitionMoves
  <2>2. QED
    BY <1>t, <1>1, <2>1
<1>2. entry' = entry /\ mailbox' = mailbox /\ parent' = parent /\ crashed' = crashed
  BY DEF Instance, Load, ObeyStop, ObeyRestart, Take, TurnEnds, SaveAndRespond, registry
<1>3. /\ task'[c] = "off" <=> task[c] = "off"
      /\ task[c] \notin {"off", "loading"} => task'[c] \notin {"off", "loading"}
  BY <1>t DEF Instance, Load, ObeyStop, ObeyRestart, Take, TurnEnds, SaveAndRespond
<1>4. node'[c] = "absent" <=> node[c] = "absent"
  <2>1. task[d] # "off"
    BY DEF Instance, Load, ObeyStop, ObeyRestart, Take, TurnEnds, SaveAndRespond
  <2>2. \/ node' = node
        \/ \E state \in Walks : Transition(d, state)
    BY DEF Instance, Load, ObeyStop, ObeyRestart, Take, TurnEnds, SaveAndRespond, Walks
  <2>3. QED
    BY <1>1, <2>1, <2>2
<1>5. QED
  BY <1>2, <1>3, <1>4

\* A node appears by a spawn only, and a spawn finds no task.
LEMMA SpawnMoves ==
  ASSUME ConvTypeInv, TreeInv, NEW r \in Requests, Spawn(r)
  PROVE  \/ UNCHANGED <<node, task>>
         \/ /\ node[C(r)] = "absent" /\ task[C(r)] = "off" /\ task' = [task EXCEPT ![C(r)] = "loading"]
            /\ \E s \in States \ {"absent"} : node' = [node EXCEPT ![C(r)] = s]
            /\ at' = [at EXCEPT ![r] = "register"] /\ UNCHANGED answer
<1>1. CASE Refuses(C(r)) # "no"
  BY <1>1 DEF Spawn, tasks
<1>2. CASE Refuses(C(r)) = "no"
  <2>1. C(r) \in Convs /\ node[C(r)] = "absent" /\ Transition(C(r), "running") /\ "running" \in Walks
        /\ task' = [task EXCEPT ![C(r)] = "loading"]
        /\ at' = [at EXCEPT ![r] = "register"] /\ UNCHANGED answer
    BY <1>2, AsksFacts DEF Spawn, Refuses, Walks, Goto
  <2>2. task[C(r)] = "off"
    BY <2>1 DEF TreeInv
  <2>3. QED
    BY <2>1, <2>2, TransitionMoves
<1>3. QED
  BY <1>1, <1>2

LEMMA TreeStep ==
  ASSUME ConvTypeInv, AskCourse, TreeInv, GoesOn, [ConvNext]_convVars
  PROVE  TreeInv'
<1> USE DEF requests, store, registry, tasks
<1>t. /\ task \in [Convs -> {"off", "loading", "open", "turn", "saving", "closed"}]
      /\ at \in [Requests -> Places] /\ node \in [Convs -> States]
      /\ entry \in [Convs -> BOOLEAN] /\ mailbox \in [Convs -> BOOLEAN]
  BY DEF ConvTypeInv
<1> SUFFICES ASSUME NEW c \in Convs PROVE TreeOk(c)'
  BY DEF TreeInv, TreeOk
<1>k. /\ StopAsked(c) => StopAsked(c)'
      /\ PlainRestart(c) => PlainRestart(c)'
      /\ AskedFor(c, {"start", "message"}) => AskedFor(c, {"start", "message"})'
      /\ \A q \in Requests : C(q)' = C(q) /\ Verb(q)' = Verb(q)
  BY GoesOnKeeps DEF AskCourse, StopAsked, PlainRestart
<1>i. TreeOk(c)
  BY DEF TreeInv, TreeOk
<1>0. ASSUME task'[c] = "off" <=> task[c] = "off", node'[c] = "absent" <=> node[c] = "absent",
             entry'[c] = entry[c], mailbox'[c] = mailbox[c],
             \A q \in Requests : at[q] \in {"register", "control"} => at'[q] = at[q]
      PROVE  TreeOk(c)'
  <2>1. /\ Coming(c, "register") => Coming(c, "register")'
        /\ Coming(c, "control") => Coming(c, "control")'
    BY <1>0, <1>k DEF Coming
  <2>2. QED
    BY <1>0, <1>i, <1>k, <2>1 DEF TreeOk
<1>1. ASSUME NEW r \in Requests,
             Begin(r) \/ Resolve(r) \/ FindAgent(r) \/ FindParent(r) \/ InsertParent(r)
             \/ Send(r) \/ LookupMailbox(r) \/ Enqueue(r) \/ ResolveGet(r) \/ GiveOrder(r)
      PROVE  TreeOk(c)'
  <2>1. UNCHANGED <<task, node, entry, mailbox>>
    BY <1>1 DEF Begin, Resolve, FindAgent, FindParent, InsertParent, Enqueue, GiveOrder,
       Send, LookupMailbox, ResolveGet
  <2>2. \A q \in Requests : at[q] \in {"register", "control"} => at'[q] = at[q]
    BY <1>1, <1>t DEF Begin, Resolve, FindAgent, FindParent, InsertParent, Enqueue, GiveOrder,
       Send, LookupMailbox, ResolveGet, Goto, Answer
  <2>3. QED
    BY <1>0, <2>1, <2>2
<1>2. ASSUME NEW r \in Requests, Spawn(r) PROVE TreeOk(c)'
  <2>1. at[r] = "spawn" /\ UNCHANGED <<entry, mailbox>> /\ \A q \in Requests : q # r => at'[q] = at[q]
    BY <1>2, <1>t DEF Spawn, Goto, Answer
  <2>2. CASE node'[c] = node[c] /\ task'[c] = task[c]
    BY <1>0, <2>1, <2>2
  <2>3. CASE ~(node'[c] = node[c] /\ task'[c] = task[c])
    <3>1. c = C(r) /\ node[c] = "absent" /\ task'[c] = "loading" /\ node'[c] # "absent" /\ at'[r] = "register"
      BY <1>2, <1>t, <2>3, SpawnMoves
    <3>2. AskedFor(c, {"start", "message"})'
      <4>1. Verb(r) \in {"start", "message"}
        BY <2>1 DEF AskCourse, PlaceInv, VerbFits, Makers
      <4>2. AskedFor(c, {"start", "message"})
        BY <2>1, <3>1, <4>1 DEF AskedFor, Begun
      <4>3. QED
        BY <1>k, <4>2
    <3>3. Coming(c, "register")'
      BY <1>k, <3>1 DEF Coming
    <3>4. Coming(c, "control") => Coming(c, "control")'
      BY <1>k, <2>1 DEF Coming
    <3>5. QED
      BY <1>i, <1>k, <2>1, <3>1, <3>2, <3>3, <3>4 DEF TreeOk
  <2>4. QED
    BY <2>2, <2>3
<1>3. ASSUME NEW r \in Requests, Register(r) PROVE TreeOk(c)'
  <2>1. /\ at[r] = "register" /\ UNCHANGED <<mailbox, node, task>>
        /\ at' = [at EXCEPT ![r] = "control"] /\ entry' = [entry EXCEPT ![C(r)] = TRUE]
    BY <1>3 DEF Register, Goto
  <2>2. CASE c = C(r)
    <3>1. entry'[c] /\ Coming(c, "control")'
      BY <1>k, <1>t, <2>1, <2>2 DEF Coming
    <3>2. QED
      BY <1>i, <1>k, <2>1, <3>1 DEF TreeOk
  <2>3. CASE c # C(r)
    <3>1. entry'[c] = entry[c] /\ \A q \in Requests : C(q) = c => at'[q] = at[q]
      BY <1>t, <2>1, <2>3
    <3>2. /\ Coming(c, "register") => Coming(c, "register")'
          /\ Coming(c, "control") => Coming(c, "control")'
      BY <1>k, <3>1 DEF Coming
    <3>3. QED
      BY <1>i, <1>k, <2>1, <3>1, <3>2 DEF TreeOk
  <2>4. QED
    BY <2>2, <2>3
<1>4. ASSUME NEW r \in Requests, RegisterControl(r) PROVE TreeOk(c)'
  <2>1. /\ at[r] = "control" /\ UNCHANGED <<entry, node, task>>
        /\ at' = [at EXCEPT ![r] = "send"] /\ mailbox' = [mailbox EXCEPT ![C(r)] = TRUE]
    BY <1>4 DEF RegisterControl, Goto
  <2>2. Coming(c, "register") => Coming(c, "register")'
    BY <1>k, <1>t, <2>1 DEF Coming
  <2>3. CASE c = C(r)
    <3>1. mailbox'[c]
      BY <1>t, <2>1, <2>3
    <3>2. QED
      BY <1>i, <1>k, <2>1, <2>2, <3>1 DEF TreeOk
  <2>4. CASE c # C(r)
    <3>1. mailbox'[c] = mailbox[c] /\ \A q \in Requests : C(q) = c => at'[q] = at[q]
      BY <1>t, <2>1, <2>4
    <3>2. Coming(c, "control") => Coming(c, "control")'
      BY <1>k, <3>1 DEF Coming
    <3>3. QED
      BY <1>i, <1>k, <2>1, <2>2, <3>1, <3>2 DEF TreeOk
  <2>5. QED
    BY <2>3, <2>4
<1>5. ASSUME NEW r \in Requests, Unregister(r) \/ AfterOrder(r) PROVE TreeOk(c)'
  <2>1. /\ UNCHANGED <<node, task>> /\ at[r] \in {"registry", "unregister"}
        /\ \A q \in Requests : q # r => at'[q] = at[q]
    BY <1>5, <1>t DEF Unregister, AfterOrder, Goto, Answer
  <2>2. CASE c # C(r)
    <3>1. entry'[c] = entry[c] /\ mailbox'[c] = mailbox[c]
      BY <1>5, <1>t, <2>2 DEF Unregister, AfterOrder
    <3>2. QED
      BY <1>0, <2>1, <3>1
  <2>3. CASE c = C(r) /\ Verb(r) \in {"stop", "stopTarget"}
    <3>1. StopAsked(c)
      BY <2>1, <2>3 DEF StopAsked, AskedFor, Begun
    <3>2. QED
      BY <1>i, <1>k, <2>1, <3>1 DEF TreeOk
  <2>4. CASE c = C(r) /\ Verb(r) \notin {"stop", "stopTarget"}
    <3>1. Verb(r) = "restart" /\ OrderOf(r) = "restart"
      BY <2>1, <2>4 DEF AskCourse, PlaceInv, VerbFits, OrderOf
    <3>2. entry'[c] /\ PlainRestart(c)
      BY <1>5, <1>t, <2>1, <2>4, <3>1 DEF Unregister, AfterOrder, PlainRestart, AskedFor, Begun
    <3>3. QED
      BY <1>i, <1>k, <2>1, <3>2 DEF TreeOk
  <2>5. QED
    BY <2>2, <2>3, <2>4
<1>6. ASSUME NEW d \in Convs, Instance(d) PROVE TreeOk(c)'
  <2>1. \A q \in Requests : at[q] \in {"register", "control"} => at'[q] = at[q]
    <3>1. \A q \in Requests : at[q] # "wait" => at'[q] = at[q]
      <4>1. CASE Load(d) \/ ObeyRestart(d) \/ TurnEnds(d)
        BY <4>1 DEF Load, ObeyRestart, TurnEnds
      <4>2. CASE ObeyStop(d)
        BY <4>2 DEF ObeyStop, Dropped, ToSet, AskCourse, QueueInv
      <4>3. CASE Take(d)
        <5>1. at[Head(queue[d])] = "wait"
          BY <4>3, ElementFacts DEF Take, AskCourse
        <5>2. QED
          BY <1>t, <4>3, <5>1 DEF Take, Answer
      <4>4. CASE SaveAndRespond(d)
        <5>1. at[Last(history[d])[2]] = "wait"
          BY <4>4, LastFacts DEF SaveAndRespond, AskCourse
        <5>2. QED
          BY <1>t, <4>4, <5>1 DEF SaveAndRespond, Answer
      <4>5. QED
        BY <1>6, <4>1, <4>2, <4>3, <4>4 DEF Instance
    <3>2. QED
      BY <3>1
  <2>2. QED
    BY <1>0, <1>6, <2>1, InstanceTree
<1>7. CASE Crash
  BY <1>7 DEF Crash, TreeOk
<1>8. CASE OthersSpawn \/ UNCHANGED convVars
  BY <1>0, <1>8 DEF OthersSpawn, convVars
<1>9. QED
  BY <1>1, <1>2, <1>3, <1>4, <1>5, <1>6, <1>7, <1>8 DEF ConvNext, Handler

-----------------------------------------------------------------------------
(* Who was sent to an instance found it; who found none has a rival. *)

\* A message is answered well by the task that held it, and by nothing else.
LEMMA KnownStep ==
  ASSUME ConvTypeInv, AskCourse, GoesOn, [ConvNext]_convVars, NEW r \in Requests, Known(r)', ~Known(r)
  PROVE  \E d \in Convs : SaveAndRespond(d) /\ Last(history[d]) = <<"agent", r>>
<1> USE DEF requests, store, registry, tasks
<1>1. answer'[r] = "ok" /\ answer[r] # "ok" /\ Verb(r) \in Messages
  BY GoesOnKeeps DEF Known, AskCourse
<1>t. /\ at \in [Requests -> Places] /\ answer \in [Requests -> Whys]
      /\ Verb(r) # "get" /\ Verb(r) \notin Orders
      /\ VerbFits(r)
  BY <1>1 DEF ConvTypeInv, Messages, Orders, AskCourse, PlaceInv
<1>2. ASSUME NEW q \in Requests, Begin(q) \/ Handler(q) PROVE FALSE
  <2>1. q # r => answer'[r] = answer[r]
    BY <1>2, <1>t DEF Begin, Handler, Resolve, FindAgent, FindParent, InsertParent, Register, RegisterControl,
       Send, LookupMailbox, Enqueue, ResolveGet, GiveOrder, Unregister, AfterOrder, Spawn, Goto, Answer
  <2>2. q = r
    BY <1>1, <2>1
  <2>3. CASE Begin(r) \/ Resolve(r) \/ FindParent(r) \/ Register(r) \/ RegisterControl(r) \/ Unregister(r)
    BY <1>1, <2>3 DEF Begin, Resolve, FindParent, Register, RegisterControl, Unregister, Goto
  <2>4. CASE FindAgent(r) \/ InsertParent(r) \/ LookupMailbox(r) \/ Enqueue(r) \/ ResolveGet(r)
    BY <1>1, <1>t, <2>4 DEF FindAgent, InsertParent, LookupMailbox, Enqueue, ResolveGet, Goto, Answer
  <2>5. CASE Spawn(r)
    BY <1>1, <1>t, <2>5 DEF Spawn, Refuses, Goto, Answer
  <2>6. CASE Send(r)
    BY <1>1, <1>t, <2>6 DEF Send, Goto, Answer
  <2>7. CASE GiveOrder(r)
    BY <1>t, <2>7 DEF GiveOrder
  <2>8. CASE AfterOrder(r)
    BY <1>t, <2>8 DEF AfterOrder, VerbFits, Orders
  <2>9. QED
    BY <1>2, <2>2, <2>3, <2>4, <2>5, <2>6, <2>7, <2>8 DEF Handler
<1>3. ASSUME NEW d \in Convs, Instance(d)
      PROVE  SaveAndRespond(d) /\ Last(history[d]) = <<"agent", r>>
  <2>1. CASE Load(d) \/ ObeyRestart(d) \/ TurnEnds(d)
    BY <1>1, <2>1 DEF Load, ObeyRestart, TurnEnds
  <2>2. CASE ObeyStop(d)
    BY <1>1, <2>2 DEF ObeyStop
  <2>3. CASE Take(d)
    BY <1>1, <1>t, <2>3 DEF Take, Answer
  <2>4. CASE SaveAndRespond(d)
    <3>1. /\ Last(history[d])[2] = r /\ Last(history[d])[1] = "agent"
      BY <1>1, <1>t, <2>4 DEF SaveAndRespond, Answer
    <3>2. \/ Last(history[d]) = <<"user", Last(history[d])[2]>>
          \/ Last(history[d]) = <<"agent", Last(history[d])[2]>>
      BY <2>4, LastFacts DEF SaveAndRespond, AskCourse
    <3>3. QED
      BY <2>4, <3>1, <3>2
  <2>5. QED
    BY <1>3, <2>1, <2>2, <2>3, <2>4 DEF Instance
<1>4. CASE OthersSpawn \/ UNCHANGED convVars
  BY <1>1, <1>4 DEF OthersSpawn, convVars
<1>5. CASE Crash
  BY <1>1, <1>5 DEF Crash
<1>6. QED
  BY <1>2, <1>3, <1>4, <1>5 DEF ConvNext

Found(c) == entry[c] \/ StopAsked(c)

\* An entry is taken out after a stop, or with the process.
LEMMA FoundKept ==
  ASSUME ConvTypeInv, AskCourse, GoesOn, [ConvNext]_convVars, NEW c \in Convs, Found(c), ~Crash
  PROVE  Found(c)'
<1>t. entry \in [Convs -> BOOLEAN]
  BY DEF ConvTypeInv
<1>k. StopAsked(c) => StopAsked(c)'
  BY GoesOnKeeps DEF StopAsked, AskCourse
<1>1. ASSUME NEW r \in Requests, AfterOrder(r), C(r) = c, OrderOf(r) # "restart" PROVE StopAsked(c)
  BY <1>1 DEF AfterOrder, OrderOf, StopAsked, AskedFor, Begun
<1>2. ASSUME NEW r \in Requests, AfterOrder(r) PROVE Found(c)'
  <2>1. entry' = [entry EXCEPT ![C(r)] = OrderOf(r) = "restart"]
    BY <1>2 DEF AfterOrder
  <2>2. CASE C(r) = c /\ OrderOf(r) # "restart"
    BY <1>1, <1>2, <1>k, <2>2 DEF Found
  <2>3. CASE C(r) = c /\ OrderOf(r) = "restart"
    BY <1>t, <2>1, <2>3 DEF Found
  <2>4. CASE C(r) # c
    BY <1>t, <1>k, <2>1, <2>4 DEF Found
  <2>5. QED
    BY <2>2, <2>3, <2>4
<1>3. ASSUME NEW r \in Requests, Begin(r) \/ Handler(r), ~AfterOrder(r) PROVE Found(c)'
  <2>1. entry[c] => entry'[c]
    BY <1>3, <1>t DEF Begin, Handler, Resolve, FindAgent, FindParent, InsertParent, Register, RegisterControl,
       Send, LookupMailbox, Enqueue, ResolveGet, GiveOrder, Unregister, Spawn, registry
  <2>2. QED
    BY <1>k, <2>1 DEF Found
<1>4. ASSUME NEW d \in Convs, Instance(d) PROVE Found(c)'
  BY <1>4, <1>k DEF Found, Instance, Load, ObeyStop, ObeyRestart, Take, TurnEnds, SaveAndRespond, registry
<1>5. CASE OthersSpawn \/ UNCHANGED convVars
  BY <1>5, <1>k DEF Found, OthersSpawn, convVars, registry
<1>6. QED
  BY <1>2, <1>3, <1>4, <1>5 DEF ConvNext

LEMMA FoundStep ==
  ASSUME ConvTypeInv, AskCourse, TreeInv, FoundInv, GoesOn, [ConvNext]_convVars
  PROVE  FoundInv'
<1> USE DEF requests, store, registry, tasks
<1> SUFFICES ASSUME NEW r \in Requests
             PROVE  /\ at'[r] \in {"lookup", "queue", "wait"} => Found(C(r))'
                    /\ Known(r)' /\ ~crashed' =>
                         task'[C(r)] \notin {"off", "loading"} /\ Found(C(r))'
  <2>1. \A q \in Requests : C(q)' = C(q)
    BY DEF GoesOn, C
  <2>2. QED
    BY <2>1 DEF FoundInv, Found
<1>t. /\ at \in [Requests -> Places] /\ C(r) \in Convs
      /\ task \in [Convs -> {"off", "loading", "open", "turn", "saving", "closed"}]
  BY AsksFacts DEF ConvTypeInv
<1>k. C(r)' = C(r) /\ (Known(r) => Known(r)')
  BY GoesOnKeeps DEF AskCourse, PlaceInv, Known
<1>p. PICK c \in Convs : c = C(r)
  BY <1>t
<1>1. CASE Crash
  BY <1>1 DEF Crash
<1>2. CASE ~Crash
  <2>1. ASSUME at'[r] \in {"lookup", "queue", "wait"} PROVE Found(c)
    <3>1. CASE at[r] \in {"lookup", "queue", "wait"}
      BY <1>p, <3>1 DEF FoundInv, Found
    <3>2. CASE at[r] \notin {"lookup", "queue", "wait"}
      <4>1. PICK q \in Requests : Begin(q) \/ Handler(q)
        <5>1. ASSUME NEW d \in Convs, Instance(d) PROVE at'[r] \in {at[r], "done"}
          BY <5>1, <1>t DEF Instance, Load, ObeyStop, ObeyRestart, Take, TurnEnds, SaveAndRespond, Answer
        <5>2. CASE OthersSpawn \/ UNCHANGED convVars
          BY <2>1, <3>2, <5>2 DEF OthersSpawn, convVars
        <5>3. QED
          BY <1>2, <2>1, <3>2, <5>1, <5>2 DEF ConvNext
      <4>2. Send(r) /\ entry[C(r)]
        BY <4>1, <1>t, <2>1, <3>2 DEF Begin, Handler, Resolve, FindAgent, FindParent, InsertParent, Register,
           RegisterControl, Send, LookupMailbox, Enqueue, ResolveGet, GiveOrder, Unregister, AfterOrder,
           Spawn, Goto, Answer, WithParent
      <4>3. QED
        BY <1>p, <4>2 DEF Found
    <3>3. QED
      BY <3>1, <3>2
  <2>2. ASSUME Known(r)', ~crashed' PROVE task'[c] \notin {"off", "loading"} /\ Found(c)
    <3>1. CASE Known(r)
      <4>1. ~crashed
        BY <2>2 DEF GoesOn
      <4>2. task[c] \notin {"off", "loading"} /\ Found(c)
        BY <1>p, <3>1, <4>1 DEF FoundInv, Found
      <4>3. ASSUME NEW q \in Requests, Begin(q) \/ Handler(q) PROVE task'[c] = task[c]
        <5>1. CASE Spawn(q)
          BY <1>t, <4>2, <5>1, SpawnMoves
        <5>2. CASE ~Spawn(q)
          BY <4>3, <5>2 DEF Begin, Handler, Resolve, FindAgent, FindParent, InsertParent, Register,
           RegisterControl, Send, LookupMailbox, Enqueue, ResolveGet, GiveOrder, Unregister, AfterOrder
        <5>3. QED
          BY <5>1, <5>2
      <4>4. ASSUME NEW d \in Convs, Instance(d) PROVE task'[c] \notin {"off", "loading"}
        BY <4>2, <4>4, InstanceTree
      <4>5. CASE OthersSpawn \/ UNCHANGED convVars
        BY <4>2, <4>5 DEF OthersSpawn, convVars
      <4>6. QED
        BY <1>2, <4>2, <4>3, <4>4, <4>5 DEF ConvNext
    <3>2. CASE ~Known(r)
      <4>1. PICK d \in Convs : SaveAndRespond(d) /\ Last(history[d]) = <<"agent", r>>
        BY <2>2, <3>2, KnownStep
      <4>2. C(r) = d /\ at[r] = "wait" /\ task'[d] = "open"
        <5>1. Last(history[d])[2] = r
          BY <4>1
        <5>2. task[d] = "saving" /\ task' = [task EXCEPT ![d] = "open"]
          BY <4>1 DEF SaveAndRespond
        <5>3. at[Last(history[d])[2]] = "wait" /\ C(Last(history[d])[2]) = d
          BY <5>2, LastFacts DEF AskCourse
        <5>4. QED
          BY <1>t, <5>1, <5>2, <5>3
      <4>3. QED
        BY <1>p, <4>2 DEF FoundInv, Found
    <3>3. QED
      BY <3>1, <3>2
  <2>3. Found(c) => Found(c)'
    BY <1>2, FoundKept
  <2>4. c = C(r)'
    BY <1>k, <1>p
  <2>5. Found(c)' => Found(C(r))'
    BY <2>4 DEF Found, StopAsked, AskedFor, C
  <2>6. task'[c] = task'[C(r)]
    BY <1>p
  <2>7. QED
    BY <2>1, <2>2, <2>3, <2>5, <2>6
<1>3. QED
  BY <1>1, <1>2

\* Who is on the way with a first message is a rival of everybody else.
LEMMA MakersRival ==
  ASSUME PlaceInv, NEW r \in Requests, NEW q \in Requests, q # r, at[q] \in Makers
  PROVE  Rival(r)
<1>1. q \notin before[r] /\ Begun(q) /\ Verb(q) \in {"start", "message"}
  BY DEF PlaceInv, VerbFits, Begun, Makers
<1>2. QED
  BY <1>1 DEF Rival

RivalOk(r) ==
  /\ at[r] \in {"agent", "parent", "insert", "spawn"} =>
       node[C(r)] = "absent" \/ Rival(r) \/ StopAsked(C(r))
  /\ at[r] = "insert" => ~parent \/ Rival(r)
  /\ at[r] = "lookup" => mailbox[C(r)] \/ Rival(r) \/ PlainRestart(C(r)) \/ StopAsked(C(r))

LEMMA RivalStep ==
  ASSUME ConvTypeInv, AskCourse, TreeInv, RivalInv, GoesOn, [ConvNext]_convVars
  PROVE  RivalInv'
<1> USE DEF requests, store, registry, tasks
<1> SUFFICES ASSUME NEW r \in Requests PROVE RivalOk(r)'
  BY DEF RivalInv, RivalOk
<1>t. /\ at \in [Requests -> Places] /\ node \in [Convs -> States] /\ mailbox \in [Convs -> BOOLEAN]
  BY DEF ConvTypeInv
<1>p. PICK c \in Convs : c = C(r)
  BY AsksFacts
<1>k. /\ c = C(r)' /\ \A q \in Requests : C(q)' = C(q)
      /\ Begun(r) /\ Rival(r) => Rival(r)'
      /\ StopAsked(c) => StopAsked(c)'
      /\ PlainRestart(c) => PlainRestart(c)'
  BY <1>p, GoesOnKeeps DEF AskCourse, StopAsked, PlainRestart
<1>i. RivalOk(r) /\ TreeOk(c)
  BY DEF RivalInv, RivalOk, TreeInv, TreeOk
<1>s. SUFFICES /\ at'[r] \in {"agent", "parent", "insert", "spawn"} =>
                    node'[c] = "absent" \/ Rival(r)' \/ StopAsked(c)'
               /\ at'[r] = "insert" => ~parent' \/ Rival(r)'
               /\ at'[r] = "lookup" =>
                    mailbox'[c] \/ Rival(r)' \/ PlainRestart(c)' \/ StopAsked(c)'
  BY <1>k DEF RivalOk, PlainRestart, StopAsked, AskedFor, C
<1>1. CASE Crash
  BY <1>1 DEF Crash
<1>2. ASSUME at'[r] \in {"agent", "parent", "insert", "spawn"}, ~Crash
      PROVE  node'[c] = "absent" \/ Rival(r)' \/ StopAsked(c)'
  <2>1. CASE node'[c] # "absent" /\ node[c] = "absent"
    <3>1. PICK q \in Requests : Spawn(q) /\ C(q) = c /\ at'[q] = "register" /\ at[q] = "spawn"
      <4>1. ASSUME NEW d \in Convs, Instance(d) PROVE FALSE
        BY <2>1, <4>1, InstanceTree
      <4>2. CASE OthersSpawn \/ UNCHANGED convVars
        BY <2>1, <4>2 DEF OthersSpawn, convVars
      <4>3. ASSUME NEW q \in Requests, Begin(q) \/ Handler(q), ~Spawn(q) PROVE FALSE
        BY <2>1, <4>3 DEF Begin, Handler, Resolve, FindAgent, FindParent, InsertParent, Register,
           RegisterControl, Send, LookupMailbox, Enqueue, ResolveGet, GiveOrder, Unregister, AfterOrder
      <4>4. PICK q \in Requests : Spawn(q)
        BY <1>2, <4>1, <4>2, <4>3 DEF ConvNext
      <4>5. at[q] = "spawn" /\ C(q) = c /\ at'[q] = "register"
        <5>1. node' # node /\ at[q] = "spawn"
          BY <2>1, <4>4 DEF Spawn
        <5>2. /\ at' = [at EXCEPT ![q] = "register"]
              /\ \E s \in States \ {"absent"} : node' = [node EXCEPT ![C(q)] = s]
          BY <4>4, <5>1, SpawnMoves
        <5>3. QED
          BY <1>t, <2>1, <5>1, <5>2
      <4>6. QED
        BY <4>4, <4>5
    <3>2. q # r
      BY <1>2, <3>1
    <3>3. Rival(r)'
      <4>1. PlaceInv'
        BY PlaceStep DEF AskCourse
      <4>2. at'[q] \in Makers
        BY <3>1 DEF Makers
      <4>3. q \notin before'[r] /\ Begun(q)' /\ Verb(q)' \in {"start", "message"}
        BY <4>1, <4>2 DEF PlaceInv, VerbFits, Begun, Makers, Verb
      <4>4. QED
        BY <3>2, <4>3 DEF Rival
    <3>4. QED
      BY <3>3
  <2>2. CASE node[c] # "absent" /\ at[r] \in {"agent", "parent", "insert", "spawn"}
    <3>1. Rival(r) \/ StopAsked(c)
      BY <1>i, <1>p, <2>2 DEF RivalOk
    <3>2. QED
      BY <1>k, <2>2, <3>1 DEF Begun
  <2>3. CASE node[c] # "absent" /\ at[r] \notin {"agent", "parent", "insert", "spawn"}
    <3>1. PICK q \in Requests : Begin(q) \/ Handler(q)
      <4>1. ASSUME NEW d \in Convs, Instance(d) PROVE at'[r] \in {at[r], "done"}
        BY <4>1, <1>t DEF Instance, Load, ObeyStop, ObeyRestart, Take, TurnEnds, SaveAndRespond, Answer
      <4>2. CASE OthersSpawn \/ UNCHANGED convVars
        BY <1>2, <2>3, <4>2 DEF OthersSpawn, convVars
      <4>3. QED
        BY <1>2, <2>3, <4>1, <4>2 DEF ConvNext
    <3>2. at[r] = "resolve" /\ ~entry[c]
      BY <3>1, <1>p, <1>t, <1>2, <2>3 DEF Begin, Handler, Resolve, FindAgent, FindParent, InsertParent, Register,
         RegisterControl, Send, LookupMailbox, Enqueue, ResolveGet, GiveOrder, Unregister, AfterOrder,
         Spawn, Goto, Answer, WithParent
    <3>3. StopAsked(c) \/ Coming(c, "register")
      BY <1>i, <2>3, <3>2 DEF TreeOk
    <3>4. Coming(c, "register") => Rival(r)
      BY <3>2, MakersRival DEF Coming, Makers, AskCourse
    <3>5. QED
      BY <1>k, <3>2, <3>3, <3>4 DEF Begun
  <2>4. QED
    BY <2>1, <2>2, <2>3
<1>3. ASSUME at'[r] = "insert", ~Crash
      PROVE  ~parent' \/ Rival(r)'
  <2>1. ASSUME parent', ~parent PROVE Rival(r)'
    <3>1. PICK q \in Requests : InsertParent(q)
      <4>1. ASSUME NEW d \in Convs, Instance(d) PROVE parent' = parent
        BY <4>1, InstanceTree
      <4>2. CASE OthersSpawn \/ UNCHANGED convVars
        BY <2>1, <4>2 DEF OthersSpawn, convVars
      <4>3. ASSUME NEW q \in Requests, Begin(q) \/ Handler(q), ~InsertParent(q) PROVE parent' = parent
        BY <4>3 DEF Begin, Handler, Resolve, FindAgent, FindParent, Spawn, Register,
           RegisterControl, Send, LookupMailbox, Enqueue, ResolveGet, GiveOrder, Unregister, AfterOrder
      <4>4. QED
        BY <1>3, <2>1, <4>1, <4>2, <4>3 DEF ConvNext
    <3>2. at[q] = "insert" /\ at'[q] # "insert"
      BY <3>1, <1>t DEF InsertParent, Goto, Answer
    <3>3. at[r] = "insert" /\ q # r
      BY <1>3, <1>t, <3>1, <3>2 DEF InsertParent, Goto, Answer
    <3>4. Rival(r)
      BY <3>2, <3>3, MakersRival DEF Makers, AskCourse
    <3>5. QED
      BY <1>k, <3>3, <3>4 DEF Begun
  <2>2. CASE parent /\ at[r] = "insert"
    BY <1>i, <1>k, <2>2 DEF RivalOk, Begun
  <2>3. CASE parent /\ at[r] # "insert"
    <3>1. PICK q \in Requests : Begin(q) \/ Handler(q)
      <4>1. ASSUME NEW d \in Convs, Instance(d) PROVE at'[r] \in {at[r], "done"}
        BY <4>1, <1>t DEF Instance, Load, ObeyStop, ObeyRestart, Take, TurnEnds, SaveAndRespond, Answer
      <4>2. CASE OthersSpawn \/ UNCHANGED convVars
        BY <1>3, <2>3, <4>2 DEF OthersSpawn, convVars
      <4>3. QED
        BY <1>3, <2>3, <4>1, <4>2 DEF ConvNext
    <3>2. FALSE
      BY <3>1, <1>t, <1>3, <2>3 DEF Begin, Handler, Resolve, FindAgent, FindParent, InsertParent, Register,
         RegisterControl, Send, LookupMailbox, Enqueue, ResolveGet, GiveOrder, Unregister, AfterOrder,
         Spawn, Goto, Answer, WithParent
    <3>3. QED
      BY <3>2
  <2>4. QED
    BY <2>1, <2>2, <2>3
<1>4. ASSUME at'[r] = "lookup", ~Crash
      PROVE  mailbox'[c] \/ Rival(r)' \/ PlainRestart(c)' \/ StopAsked(c)'
  <2>1. ASSUME mailbox[c], ~mailbox'[c] PROVE StopAsked(c)
    <3>1. ASSUME NEW d \in Convs, Instance(d) PROVE mailbox' = mailbox
      BY <3>1, InstanceTree
    <3>2. ASSUME OthersSpawn \/ UNCHANGED convVars PROVE FALSE
      BY <2>1, <3>2 DEF OthersSpawn, convVars
    <3>3. ASSUME NEW q \in Requests, Begin(q) \/ Handler(q), ~Unregister(q) PROVE mailbox'[c]
      BY <1>t, <2>1, <3>3 DEF Begin, Handler, Resolve, FindAgent, FindParent, InsertParent, Spawn, Register,
         RegisterControl, Send, LookupMailbox, Enqueue, ResolveGet, GiveOrder, AfterOrder
    <3>4. PICK q \in Requests : Unregister(q)
      BY <1>4, <2>1, <3>1, <3>2, <3>3 DEF ConvNext
    <3>5. C(q) = c /\ at[q] = "registry" /\ Verb(q) \in {"stop", "stopTarget"}
      BY <1>t, <2>1, <3>4 DEF Unregister, OrderOf
    <3>6. QED
      BY <3>5 DEF StopAsked, AskedFor, Begun
  <2>2. CASE ~mailbox[c] /\ at[r] = "lookup"
    <3>1. Rival(r) \/ PlainRestart(c) \/ StopAsked(c)
      BY <1>i, <1>p, <2>2 DEF RivalOk
    <3>2. QED
      BY <1>k, <2>2, <3>1 DEF Begun
  <2>3. CASE ~mailbox[c] /\ at[r] # "lookup"
    <3>1. PICK q \in Requests : Begin(q) \/ Handler(q)
      <4>1. ASSUME NEW d \in Convs, Instance(d) PROVE at'[r] \in {at[r], "done"}
        BY <4>1, <1>t DEF Instance, Load, ObeyStop, ObeyRestart, Take, TurnEnds, SaveAndRespond, Answer
      <4>2. CASE OthersSpawn \/ UNCHANGED convVars
        BY <1>4, <2>3, <4>2 DEF OthersSpawn, convVars
      <4>3. QED
        BY <1>4, <2>3, <4>1, <4>2 DEF ConvNext
    <3>2. at[r] = "send" /\ entry[c]
      BY <3>1, <1>p, <1>t, <1>4, <2>3 DEF Begin, Handler, Resolve, FindAgent, FindParent, InsertParent, Register,
         RegisterControl, Send, LookupMailbox, Enqueue, ResolveGet, GiveOrder, Unregister, AfterOrder,
         Spawn, Goto, Answer, WithParent
    <3>3. StopAsked(c) \/ PlainRestart(c) \/ Coming(c, "control")
      BY <1>i, <2>3, <3>2 DEF TreeOk
    <3>4. Coming(c, "control") => Rival(r)
      BY <3>2, MakersRival DEF Coming, Makers, AskCourse
    <3>5. QED
      BY <1>k, <3>2, <3>3, <3>4 DEF Begun
  <2>4. QED
    BY <1>k, <2>1, <2>2, <2>3
<1>5. QED
  BY <1>1, <1>2, <1>3, <1>4

-----------------------------------------------------------------------------
(* Refusals. *)

RefusalOk(r) ==
  /\ answer[r] = "exists" => Rival(r) \/ StopAsked(C(r))
  /\ answer[r] \in {"closed", "dropped", "refused"} /\ Verb(r) \notin Orders => StopAsked(C(r))
  /\ answer[r] = "mute" => AskedFor(C(r), {"restart"}) \/ StopAsked(C(r)) \/ Rival(r)
  /\ answer[r] = "full" => Rival(r) \/ StopAsked(C(r)) \/ Cardinality(Wanted) > Room
  /\ answer[r] = "limit" => Rival(r) \/ StopAsked(C(r)) \/ Cardinality(Wanted) + crowd > DynamicRoom
  /\ answer[r] = "noAgent" => ask[r].agent # "known"
  /\ answer[r] = "notFound" /\ (\E q \in before[r] : Known(q) /\ C(q) = C(r)) =>
       StopAsked(C(r)) \/ crashed \/ faults > 0
  /\ answer[r] = "lost" => crashed

LEMMA RefusalsByRequest == RefusalsAreExplained <=> \A r \in Requests : RefusalOk(r)
BY DEF RefusalsAreExplained, RefusalOk, Rival, StopAsked

\* The tree holds conversations that were asked for.
LEMMA WantedFacts ==
  ASSUME ConvTypeInv, AskCourse, GoesOn
  PROVE  /\ IsFiniteSet(Wanted) /\ Cardinality(Wanted) \in Nat
         /\ Wanted \subseteq Wanted' /\ Cardinality(Wanted)' \in Nat
         /\ Cardinality(Wanted) <= Cardinality(Wanted)'
         /\ TreeInv => Children \subseteq Wanted
<1>1. IsFiniteSet(Convs) /\ Wanted \subseteq Convs /\ Wanted' \subseteq Convs
  BY ConvAssumption DEF Wanted
<1>2. Wanted \subseteq Wanted'
  BY GoesOnKeeps DEF Wanted, AskCourse
<1>3. IsFiniteSet(Wanted) /\ IsFiniteSet(Wanted')
  BY <1>1, FS_Subset
<1>4. Cardinality(Wanted) <= Cardinality(Wanted')
  BY <1>2, <1>3, FS_Subset
<1>5. Cardinality(Wanted) \in Nat /\ Cardinality(Wanted') \in Nat
  BY <1>3, FS_CardinalityType
<1>6. TreeInv => Children \subseteq Wanted
  BY DEF TreeInv, Children, Wanted
<1>7. QED
  BY <1>2, <1>3, <1>4, <1>5, <1>6

\* Of a conversation without a node, there are fewer children than wanted.
LEMMA Outside ==
  ASSUME ConvTypeInv, AskCourse, TreeInv, GoesOn, NEW r \in Requests, Spawn(r), node[C(r)] = "absent"
  PROVE  /\ Cardinality(Children) <= Cardinality(Wanted) - 1
         /\ Cardinality(Wanted) \in Nat /\ Cardinality(Children) \in Nat
<1>1. at[r] = "spawn" /\ C(r) \in Convs /\ Verb(r) \in {"start", "message"}
  BY AsksFacts DEF Spawn, AskCourse, PlaceInv, VerbFits, Makers
<1>2. IsFiniteSet(Wanted) /\ Children \subseteq Wanted
  BY WantedFacts
<1>3. C(r) \in Wanted \ Children
  BY <1>1 DEF Wanted, Children, AskedFor, Begun
<1>4. Children \subseteq Wanted \ {C(r)} /\ IsFiniteSet(Wanted \ {C(r)})
      /\ Cardinality(Wanted \ {C(r)}) = Cardinality(Wanted) - 1
  BY <1>2, <1>3, FS_RemoveElement
<1>5. QED
  BY <1>2, <1>4, FS_CardinalityType, FS_Subset

LEMMA FullTree ==
  ASSUME ConvTypeInv, AskCourse, TreeInv, RivalInv, GoesOn, NEW r \in Requests, Spawn(r)
  PROVE  /\ Refuses(C(r)) = "full" => Rival(r) \/ StopAsked(C(r)) \/ Cardinality(Wanted) > Room
         /\ Refuses(C(r)) = "limit" =>
              Rival(r) \/ StopAsked(C(r)) \/ Cardinality(Wanted) + crowd > DynamicRoom
<1>1. at[r] = "spawn"
  BY DEF Spawn
<1>2. CASE node[C(r)] # "absent"
  BY <1>1, <1>2 DEF RivalInv
<1>3. CASE node[C(r)] = "absent"
  <2>1. /\ Cardinality(Children) <= Cardinality(Wanted) - 1
        /\ Cardinality(Wanted) \in Nat /\ Cardinality(Children) \in Nat
    BY <1>3, Outside
  <2>2. Room \in Nat /\ DynamicRoom \in Nat /\ others \in Nat /\ crowd \in Nat /\ others <= crowd
    BY ConvAssumption DEF ConvTypeInv, CrowdType
  <2>3. Refuses(C(r)) = "full" => Cardinality(Children) >= Room
    BY DEF Refuses
  <2>4. Refuses(C(r)) = "limit" => others + Cardinality(Children) >= DynamicRoom
    BY DEF Refuses, DynamicNodes
  <2>5. QED
    BY <2>1, <2>2, <2>3, <2>4
<1>4. QED
  BY <1>2, <1>3

\* The excuse there is for an answer.
Excused(r, w) ==
  /\ w = "exists" => Rival(r) \/ StopAsked(C(r))
  /\ w \in {"closed", "dropped", "refused"} /\ Verb(r) \notin Orders => StopAsked(C(r))
  /\ w = "mute" => AskedFor(C(r), {"restart"}) \/ StopAsked(C(r)) \/ Rival(r)
  /\ w = "full" => Rival(r) \/ StopAsked(C(r)) \/ Cardinality(Wanted) > Room
  /\ w = "limit" => Rival(r) \/ StopAsked(C(r)) \/ Cardinality(Wanted) + crowd > DynamicRoom
  /\ w = "noAgent" => ask[r].agent # "known"
  /\ w = "notFound" /\ (\E q \in before[r] : Known(q) /\ C(q) = C(r)) =>
       StopAsked(C(r)) \/ crashed' \/ faults' > 0
  /\ w = "lost" => crashed'

\* What explains a refusal explains it ever after.
LEMMA RefusalKept ==
  ASSUME ConvTypeInv, AskCourse, GoesOn, CrowdGrows, NEW r \in Requests, Begun(r),
         NEW w, answer'[r] = w, Excused(r, w)
  PROVE  RefusalOk(r)'
<1>p. PICK c \in Convs : c = C(r)
  BY AsksFacts
<1>1. /\ before'[r] = before[r] /\ C(r)' = c /\ Verb(r)' = Verb(r)
      /\ ask' = ask
      /\ Rival(r) => Rival(r)'
      /\ StopAsked(c) => StopAsked(c)'
      /\ AskedFor(c, {"restart"}) => AskedFor(c, {"restart"})'
  BY <1>p, GoesOnKeeps DEF AskCourse, StopAsked, GoesOn
<1>2. StopAsked(C(r))' <=> StopAsked(c)'
  BY <1>1 DEF StopAsked, AskedFor, C
<1>3. AskedFor(C(r), {"restart"})' <=> AskedFor(c, {"restart"})'
  BY <1>1 DEF AskedFor, C
<1>4. \A q \in before[r] : Known(q)' = Known(q) /\ C(q)' = C(q)
  <2>1. \A q \in before[r] : q \in Requests /\ at[q] = "done"
    BY DEF ConvTypeInv, AskCourse, PlaceInv
  <2>2. QED
    BY <2>1, GoesOnKeeps DEF AskCourse, Known
<1>5. (\E q \in before'[r] : Known(q)' /\ C(q)' = C(r)') <=> (\E q \in before[r] : Known(q) /\ C(q) = C(r))
  BY <1>1, <1>4, <1>p
<1>6. /\ Cardinality(Wanted) > Room => Cardinality(Wanted)' > Room
      /\ Cardinality(Wanted) + crowd > DynamicRoom => Cardinality(Wanted)' + crowd' > DynamicRoom
  <2>1. /\ Cardinality(Wanted) \in Nat /\ Cardinality(Wanted)' \in Nat /\ Room \in Nat
        /\ Cardinality(Wanted) <= Cardinality(Wanted)'
        /\ DynamicRoom \in Nat /\ crowd \in Nat /\ crowd' \in Nat /\ crowd' >= crowd
    BY WantedFacts, ConvAssumption DEF CrowdGrows, CrowdType
  <2>2. QED
    BY <2>1
<1>7. /\ w = "exists" => Rival(r) \/ StopAsked(c)
      /\ w \in {"closed", "dropped", "refused"} /\ Verb(r) \notin Orders => StopAsked(c)
      /\ w = "mute" => AskedFor(c, {"restart"}) \/ StopAsked(c) \/ Rival(r)
      /\ w = "full" => Rival(r) \/ StopAsked(c) \/ Cardinality(Wanted) > Room
      /\ w = "limit" => Rival(r) \/ StopAsked(c) \/ Cardinality(Wanted) + crowd > DynamicRoom
      /\ w = "noAgent" => ask[r].agent # "known"
      /\ w = "notFound" /\ (\E q \in before[r] : Known(q) /\ C(q) = C(r)) =>
           StopAsked(c) \/ crashed' \/ faults' > 0
      /\ w = "lost" => crashed'
  BY <1>p DEF Excused
<1>8. answer'[r] = "exists" => Rival(r)' \/ StopAsked(C(r))'
  BY <1>1, <1>2, <1>7
<1>9. answer'[r] \in {"closed", "dropped", "refused"} /\ Verb(r)' \notin Orders => StopAsked(C(r))'
  BY <1>1, <1>2, <1>7
<1>10. answer'[r] = "mute" => AskedFor(C(r), {"restart"})' \/ StopAsked(C(r))' \/ Rival(r)'
  BY <1>1, <1>2, <1>3, <1>7
<1>11. answer'[r] = "full" => Rival(r)' \/ StopAsked(C(r))' \/ Cardinality(Wanted)' > Room
  BY <1>1, <1>2, <1>6, <1>7
<1>l. answer'[r] = "limit" =>
        Rival(r)' \/ StopAsked(C(r))' \/ Cardinality(Wanted)' + crowd' > DynamicRoom
  BY <1>1, <1>2, <1>6, <1>7
<1>12. answer'[r] = "noAgent" => ask'[r].agent # "known"
  BY <1>1, <1>7
<1>13. answer'[r] = "notFound" /\ (\E q \in before'[r] : Known(q)' /\ C(q)' = C(r)') =>
         StopAsked(C(r))' \/ crashed' \/ faults' > 0
  BY <1>1, <1>2, <1>5, <1>7
<1>14. answer'[r] = "lost" => crashed'
  BY <1>7
<1>15. QED
  BY <1>8, <1>9, <1>10, <1>11, <1>l, <1>12, <1>13, <1>14 DEF RefusalOk

LEMMA RefusalStep ==
  ASSUME ConvTypeInv, AskCourse, OrderInv, TreeInv, FoundInv, RivalInv, RefusalsAreExplained,
         GoesOn, [ConvNext]_convVars
  PROVE  RefusalsAreExplained'
<1> USE DEF requests, store, registry, tasks
<1> SUFFICES ASSUME NEW r \in Requests PROVE RefusalOk(r)'
  BY DEF RefusalsAreExplained, RefusalOk, Rival, StopAsked
<1>t. /\ at \in [Requests -> Places] /\ answer \in [Requests -> Whys] /\ faults \in Nat
      /\ C(r) \in Convs
      /\ (at[r] = "done" <=> answer[r] # "none") /\ VerbFits(r)
  BY AsksFacts DEF ConvTypeInv, AskCourse, PlaceInv
<1>g. CrowdGrows
  BY CrowdStep DEF ConvTypeInv
<1>q. CASE answer'[r] \in {"none", "ok", "fault", "failed"}
  BY <1>q DEF RefusalOk
<1>d. CASE at[r] = "done"
  <2>1. RefusalOk(r)
    BY RefusalsByRequest
  <2>2. answer'[r] = answer[r] /\ (crashed => crashed') /\ (faults > 0 => faults' > 0)
    <3>1. faults' \in Nat /\ faults' >= faults /\ (crashed => crashed')
      BY DEF GoesOn
    <3>2. QED
      BY <1>d, <1>t, <3>1, GoesOnKeeps DEF AskCourse
  <2>3. PICK w \in Whys : w = answer[r]
    BY <1>t
  <2>4. Excused(r, w)
    BY <2>1, <2>2, <2>3 DEF RefusalOk, Excused
  <2>5. Begun(r)
    BY <1>d DEF Begun
  <2>6. QED
    BY <2>2, <2>3, <2>4, <2>5, <1>g, RefusalKept
<1>o. ASSUME Begun(r), NEW w, answer'[r] = w, Excused(r, w) PROVE RefusalOk(r)'
  BY <1>g, <1>o, RefusalKept
<1>c. CASE Crash /\ at[r] # "done"
  <2>1. CASE at[r] = "idle"
    BY <1>c, <1>q, <1>t, <2>1 DEF Crash
  <2>2. CASE at[r] # "idle"
    <3>1. answer'[r] = "lost" /\ crashed'
      BY <1>c, <2>2 DEF Crash
    <3>2. Excused(r, "lost") /\ Begun(r)
      BY <2>2, <3>1 DEF Excused, Begun
    <3>3. QED
      BY <1>o, <3>1, <3>2
  <2>3. QED
    BY <2>1, <2>2
<1>1. ASSUME NEW q \in Requests, Begin(q) \/ Handler(q), q # r PROVE RefusalOk(r)' \/ at[r] = "done"
  <2>1. answer'[r] = answer[r]
    BY <1>1, <1>t DEF Begin, Handler, Resolve, FindAgent, FindParent, InsertParent, Register, RegisterControl,
       Send, LookupMailbox, Enqueue, ResolveGet, GiveOrder, Unregister, AfterOrder, Spawn, Goto, Answer
  <2>2. QED
    BY <1>q, <1>t, <2>1
<1>2. ASSUME Begin(r) \/ Handler(r), at[r] # "done" PROVE RefusalOk(r)'
  <2>n. answer[r] = "none"
    BY <1>t, <1>2
  <2>1. CASE Begin(r) \/ Resolve(r) \/ FindParent(r) \/ Register(r) \/ RegisterControl(r) \/ Unregister(r)
    BY <1>q, <2>n, <2>1 DEF Begin, Resolve, FindParent, Register, RegisterControl, Unregister, Goto
  <2>2. CASE FindAgent(r)
    <3>1. Begun(r) /\ \/ answer'[r] \in {"none", "fault"}
                      \/ answer'[r] = "noAgent" /\ ask[r].agent # "known"
      BY <1>t, <2>n, <2>2 DEF FindAgent, Goto, Answer, Begun
    <3>2. ask[r].agent # "known" => Excused(r, "noAgent")
      BY DEF Excused
    <3>3. QED
      BY <1>q, <1>o, <3>1, <3>2
  <2>3. CASE InsertParent(r)
    <3>1. Begun(r) /\ at[r] = "insert" /\ (answer'[r] = "none" \/ (answer'[r] = "exists" /\ parent))
      BY <1>t, <2>n, <2>3 DEF InsertParent, Goto, Answer, Begun
    <3>2. parent => Excused(r, "exists")
      BY <3>1 DEF Excused, RivalInv
    <3>3. QED
      BY <1>q, <1>o, <3>1, <3>2
  <2>4. CASE Spawn(r)
    <3>1. /\ Begun(r) /\ at[r] = "spawn"
          /\ answer'[r] = "none" \/ (answer'[r] = Refuses(C(r)) /\ Refuses(C(r)) \in {"full", "limit", "exists"})
      BY <1>t, <2>n, <2>4 DEF Spawn, Refuses, Goto, Answer, Begun
    <3>2. Refuses(C(r)) = "exists" => Excused(r, "exists")
      <4>1. Refuses(C(r)) = "exists" => node[C(r)] # "absent"
        BY DEF Refuses
      <4>2. QED
        BY <3>1, <4>1 DEF Excused, RivalInv
    <3>3. /\ Refuses(C(r)) = "full" => Excused(r, "full")
          /\ Refuses(C(r)) = "limit" => Excused(r, "limit")
      BY <2>4, FullTree DEF Excused
    <3>4. QED
      BY <1>q, <1>o, <3>1, <3>2, <3>3
  <2>5. CASE Send(r)
    <3>1. Begun(r) /\ \/ answer'[r] \in {"none", "ok", "fault"}
                      \/ answer'[r] = "notFound" /\ ~entry[C(r)]
      BY <1>t, <2>n, <2>5 DEF Send, Goto, Answer, Begun
    <3>2. ~entry[C(r)] => Excused(r, "notFound")
      <4>1. ASSUME ~entry[C(r)], NEW q \in before[r], Known(q), C(q) = C(r), ~crashed PROVE StopAsked(C(r))
        <5>1. q \in Requests
          BY DEF ConvTypeInv
        <5>2. QED
          BY <4>1, <5>1 DEF FoundInv
      <4>2. crashed => crashed'
        BY DEF GoesOn
      <4>3. QED
        BY <4>1, <4>2 DEF Excused
    <3>3. QED
      BY <1>q, <1>o, <3>1, <3>2
  <2>6. CASE LookupMailbox(r)
    <3>1. Begun(r) /\ at[r] = "lookup" /\ (answer'[r] = "none" \/ (answer'[r] = "mute" /\ ~mailbox[C(r)]))
      BY <1>t, <2>n, <2>6 DEF LookupMailbox, Goto, Answer, Begun
    <3>2. ~mailbox[C(r)] => Excused(r, "mute")
      BY <3>1 DEF Excused, RivalInv, PlainRestart
    <3>3. QED
      BY <1>q, <1>o, <3>1, <3>2
  <2>7. CASE Enqueue(r)
    <3>1. Begun(r) /\ (answer'[r] = "none" \/ (answer'[r] = "closed" /\ task[C(r)] = "closed"))
      BY <1>t, <2>n, <2>7 DEF Enqueue, Goto, Answer, Begun
    <3>2. task[C(r)] = "closed" => Excused(r, "closed")
      BY <1>t DEF Excused, OrderInv
    <3>3. QED
      BY <1>q, <1>o, <3>1, <3>2
  <2>8. CASE ResolveGet(r)
    <3>1. Begun(r) /\ \/ answer'[r] \in {"none"}
                      \/ answer'[r] = "notFound" /\ ~entry[C(r)]
      BY <1>t, <2>n, <2>8 DEF ResolveGet, Goto, Answer, Begun
    <3>2. ~entry[C(r)] => Excused(r, "notFound")
      <4>1. ASSUME ~entry[C(r)], NEW q \in before[r], Known(q), C(q) = C(r), ~crashed PROVE StopAsked(C(r))
        <5>1. q \in Requests
          BY DEF ConvTypeInv
        <5>2. QED
          BY <4>1, <5>1 DEF FoundInv
      <4>2. crashed => crashed'
        BY DEF GoesOn
      <4>3. QED
        BY <4>1, <4>2 DEF Excused
    <3>3. QED
      BY <1>q, <1>o, <3>1, <3>2
  <2>9. CASE GiveOrder(r)
    <3>1. Begun(r) /\ Verb(r) \in Orders /\ answer'[r] \in {"none", "ok", "refused"}
      BY <1>t, <2>n, <2>9 DEF GiveOrder, Goto, Answer, Begun
    <3>2. Excused(r, "refused")
      BY <3>1 DEF Excused
    <3>3. QED
      BY <1>q, <1>o, <3>1, <3>2
  <2>10. CASE AfterOrder(r)
    BY <1>q, <1>t, <2>10 DEF AfterOrder, Answer
  <2>11. QED
    BY <1>2, <2>1, <2>2, <2>3, <2>4, <2>5, <2>6, <2>7, <2>8, <2>9, <2>10 DEF Handler
<1>3. ASSUME NEW d \in Convs, Instance(d), at[r] # "done" PROVE RefusalOk(r)'
  <2>n. answer[r] = "none"
    BY <1>t, <1>3
  <2>1. CASE Load(d) \/ ObeyRestart(d) \/ TurnEnds(d)
    BY <1>q, <2>n, <2>1 DEF Load, ObeyRestart, TurnEnds
  <2>2. CASE Take(d) \/ SaveAndRespond(d)
    BY <1>q, <1>t, <2>n, <2>2 DEF Take, SaveAndRespond, Answer
  <2>3. CASE ObeyStop(d)
    <3>1. CASE r \notin Dropped(d)
      BY <1>q, <2>n, <2>3, <3>1 DEF ObeyStop
    <3>2. CASE r \in Dropped(d)
      <4>1. answer'[r] = "dropped" /\ at[r] = "wait" /\ C(r) = d
        BY <2>3, <3>2 DEF ObeyStop, Dropped, ToSet, AskCourse, QueueInv
      <4>2. StopAsked(d)
        <5>1. orders[d] \in Seq({"stop", "restart"}) /\ orders[d] # << >> /\ Head(orders[d]) = "stop"
          BY <2>3 DEF ObeyStop, ConvTypeInv
        <5>2. 1 \in DOMAIN orders[d] /\ orders[d][1] = "stop"
          BY <5>1
        <5>3. QED
          BY <5>2 DEF OrderInv
      <4>3. Excused(r, "dropped") /\ Begun(r)
        BY <4>1, <4>2 DEF Excused, Begun
      <4>4. QED
        BY <1>o, <4>1, <4>3
    <3>3. QED
      BY <3>1, <3>2
  <2>4. QED
    BY <1>3, <2>1, <2>2, <2>3 DEF Instance
<1>4. CASE (OthersSpawn \/ UNCHANGED convVars) /\ at[r] # "done"
  <2>1. answer'[r] = "none"
    BY <1>4, <1>t DEF OthersSpawn, convVars
  <2>2. QED
    BY <1>q, <2>1
<1>5. QED
  BY <1>d, <1>c, <1>1, <1>2, <1>3, <1>4 DEF ConvNext

-----------------------------------------------------------------------------
(* Histories. *)

Busy == {"open", "turn", "saving"}

LEMMA AnswerFacts ==
  ASSUME NEW s \in Seq(Turns), NEW m, NEW r
  PROVE  HasAnswer(s, r) => HasAnswer(Append(s, m), r)
<1>1. ASSUME NEW i \in 1..(Len(s) - 1), s[i] = <<"user", r>>, s[i + 1] = <<"agent", r>>
      PROVE  HasAnswer(Append(s, m), r)
  <2>1. i \in 1..Len(s) /\ i + 1 \in 1..Len(s) /\ i \in 1..(Len(s) + 1 - 1)
    BY AppendSays
  <2>2. Append(s, m)[i] = s[i] /\ Append(s, m)[i + 1] = s[i + 1] /\ Len(Append(s, m)) = Len(s) + 1
    BY <2>1, AppendSays
  <2>3. i \in 1..(Len(Append(s, m)) - 1)
    BY <2>1, <2>2
  <2>4. QED
    BY <1>1, <2>2, <2>3 DEF HasAnswer
<1>2. QED
  BY <1>1 DEF HasAnswer

LEMMA PairedAppend ==
  ASSUME NEW s \in Seq(Turns), NEW m, Paired(s),
         m[1] # "agent" \/ (s # << >> /\ s[Len(s)] = <<"user", m[2]>>)
  PROVE  Paired(Append(s, m))
<1> DEFINE n == Len(s)
           a == Append(s, m)
<1>1. /\ n \in Nat /\ DOMAIN s = 1..n /\ DOMAIN a = 1..(n + 1)
      /\ \A i \in 1..n : a[i] = s[i]
      /\ a[n + 1] = m
      /\ s # << >> => n > 0
  BY AppendSays
<1>2. m[1] = "agent" => n > 0 /\ s[n] = <<"user", m[2]>>
  BY <1>1
<1> HIDE DEF n, a
<1>3. ASSUME NEW i \in 1..(n + 1), a[i][1] = "agent" PROVE i > 1 /\ a[i - 1] = <<"user", a[i][2]>>
  <2>1. CASE i = n + 1
    <3>1. n > 0 /\ s[n] = <<"user", m[2]>> /\ a[i] = m
      BY <1>1, <1>2, <1>3, <2>1
    <3>2. i > 1 /\ i - 1 = n /\ n \in 1..n
      BY <1>1, <2>1, <3>1
    <3>3. QED
      BY <1>1, <3>1, <3>2
  <2>2. CASE i # n + 1
    <3>1. i \in 1..n
      BY <1>1, <2>2
    <3>2. s[i][1] = "agent" /\ a[i] = s[i]
      BY <1>1, <1>3, <3>1
    <3>3. i > 1 /\ s[i - 1] = <<"user", s[i][2]>>
      BY <1>1, <3>1, <3>2 DEF Paired
    <3>4. i - 1 \in 1..n
      BY <1>1, <3>1, <3>3
    <3>5. QED
      BY <1>1, <3>2, <3>3, <3>4
  <2>3. QED
    BY <2>1, <2>2
<1>4. Paired(a)
  BY <1>1, <1>3 DEF Paired
<1>5. QED
  BY <1>4 DEF a

\* What a step does to a history and its row.
AtRest(c) ==
  /\ history'[c] = history[c] /\ saved'[c] = saved[c]
  /\ task'[c] \in Busy => task[c] \in Busy
Grows(c) ==
  /\ task[c] \in Busy /\ saved'[c] = saved[c]
  /\ \E m \in Turns :
       /\ history'[c] = Append(history[c], m)
       /\ m[1] # "agent" \/ (history[c] # << >> /\ history[c][Len(history[c])] = <<"user", m[2]>>)
Loads(c) ==
  /\ task[c] = "loading" /\ saved'[c] = saved[c]
  /\ \/ history'[c] = saved[c] /\ durable /\ saved[c] # Unsaved
     \/ history'[c] = << >> /\ (~durable \/ saved[c] = Unsaved \/ faults' > 0)
Saves(c) == task[c] = "saving" /\ saved'[c] = history[c] /\ history'[c] = history[c]
Restarts(c) == RestartAsked(c) /\ history'[c] = << >> /\ saved'[c] \in {saved[c], << >>}
Ends(c) == crashed' /\ task'[c] = "off" /\ history'[c] = << >> /\ saved'[c] = saved[c]

LEMMA HistoryMoves ==
  ASSUME ConvTypeInv, AskCourse, OrderInv, [ConvNext]_convVars, NEW c \in Convs
  PROVE  AtRest(c) \/ Grows(c) \/ Loads(c) \/ Saves(c) \/ Restarts(c) \/ Ends(c)
<1> USE DEF requests, store, registry, tasks
<1>t. /\ task \in [Convs -> {"off", "loading", "open", "turn", "saving", "closed"}]
      /\ history \in [Convs -> Seq(Turns)] /\ saved \in [Convs -> Rows] /\ faults \in Nat
  BY DEF ConvTypeInv
<1>1. ASSUME NEW r \in Requests, Begin(r) \/ Handler(r) PROVE AtRest(c)
  <2>1. CASE Spawn(r)
    BY <1>t, <2>1 DEF Spawn, AtRest, Busy
  <2>2. CASE ~Spawn(r)
    BY <1>1, <2>2 DEF Begin, Handler, Resolve, FindAgent, FindParent, InsertParent, Register, RegisterControl,
       Send, LookupMailbox, Enqueue, ResolveGet, GiveOrder, Unregister, AfterOrder, AtRest, Fault
  <2>3. QED
    BY <2>1, <2>2
<1>2. ASSUME NEW d \in Convs, Instance(d), d # c PROVE AtRest(c)
  <2>1. task'[c] = task[c] /\ history'[c] = history[c]
    BY <1>2, <1>t DEF Instance, Load, ObeyStop, ObeyRestart, Take, TurnEnds, SaveAndRespond
  <2>2. saved' = saved \/ \E what : saved' = [saved EXCEPT ![d] = what]
    BY <1>2, SaveFacts DEF Instance, Load, ObeyStop, ObeyRestart, Take, TurnEnds, SaveAndRespond, Fault
  <2>3. QED
    BY <1>2, <1>t, <2>1, <2>2 DEF AtRest
<1>3. CASE Load(c)
  <2>1. faults + 1 > 0
    BY <1>t
  <2>2. QED
    BY <1>3, <1>t, <2>1 DEF Load, Loads, Fault
<1>4. CASE ObeyStop(c)
  BY <1>4, <1>t DEF ObeyStop, AtRest, Busy
<1>5. CASE ObeyRestart(c)
  <2>1. orders[c] \in Seq({"stop", "restart"}) /\ orders[c] # << >> /\ Head(orders[c]) = "restart"
    BY <1>5 DEF ObeyRestart, ConvTypeInv
  <2>2. 1 \in DOMAIN orders[c] /\ orders[c][1] = "restart"
    BY <2>1
  <2>3. RestartAsked(c)
    BY <2>2 DEF OrderInv
  <2>4. history'[c] = << >>
    BY <1>5, <1>t DEF ObeyRestart
  <2>5. saved' = saved \/ saved' = [saved EXCEPT ![c] = << >>]
    BY <1>5, SaveFacts DEF ObeyRestart
  <2>6. QED
    BY <1>t, <2>3, <2>4, <2>5 DEF Restarts
<1>6. CASE Take(c)
  <2>1. CASE Verb(Head(queue[c])) = "get"
    BY <1>6, <1>t, <2>1 DEF Take, AtRest
  <2>2. CASE Verb(Head(queue[c])) # "get"
    <3>1. PICK h \in Requests : h = Head(queue[c])
      BY <1>6, ElementFacts DEF Take, AskCourse
    <3>2. history'[c] = Append(history[c], <<"user", h>>) /\ task[c] = "open" /\ saved' = saved
      BY <1>6, <1>t, <2>2, <3>1 DEF Take
    <3>3. <<"user", h>> \in Turns /\ <<"user", h>>[1] # "agent"
      BY DEF Turns
    <3>4. QED
      BY <3>2, <3>3 DEF Grows, Busy
  <2>3. QED
    BY <2>1, <2>2
<1>7. CASE TurnEnds(c)
  <2>1. task[c] = "turn" /\ saved' = saved
    BY <1>7 DEF TurnEnds
  <2>2. CASE history' = history
    BY <1>t, <2>1, <2>2 DEF AtRest, Busy
  <2>3. CASE history' # history
    <3>1. PICK r \in Requests : r = Last(history[c])[2]
      BY <2>1, LastFacts DEF AskCourse
    <3>2. history[c] # << >> /\ history[c][Len(history[c])] = <<"user", r>>
      BY <2>1, <3>1, LastFacts DEF AskCourse
    <3>3. history'[c] = Append(history[c], <<"agent", r>>)
      BY <1>7, <1>t, <2>3, <3>1 DEF TurnEnds
    <3>4. <<"agent", r>> \in Turns /\ <<"agent", r>>[2] = r
      BY DEF Turns
    <3>5. QED
      BY <2>1, <3>2, <3>3, <3>4 DEF Grows, Busy
  <2>4. QED
    BY <2>2, <2>3
<1>8. CASE SaveAndRespond(c)
  <2>1. task[c] = "saving" /\ history' = history
        /\ (saved' = saved \/ saved' = [saved EXCEPT ![c] = history[c]])
    BY <1>8, SaveFacts DEF SaveAndRespond
  <2>2. QED
    BY <1>t, <2>1 DEF AtRest, Saves, Busy
<1>9. CASE Crash
  BY <1>9 DEF Crash, Ends
<1>10. CASE OthersSpawn \/ UNCHANGED convVars
  BY <1>10 DEF OthersSpawn, convVars, AtRest
<1>11. QED
  BY <1>1, <1>2, <1>3, <1>4, <1>5, <1>6, <1>7, <1>8, <1>9, <1>10 DEF ConvNext, Instance

HistOk(c) == Paired(history[c]) /\ (saved[c] # Unsaved => Paired(saved[c]))

LEMMA PairedStep ==
  ASSUME ConvTypeInv, NEW c \in Convs, HistOk(c),
         AtRest(c) \/ Grows(c) \/ Loads(c) \/ Saves(c) \/ Restarts(c) \/ Ends(c)
  PROVE  Paired(history'[c]) /\ (saved'[c] # Unsaved => Paired(saved'[c]))
<1>t. history[c] \in Seq(Turns)
  BY DEF ConvTypeInv
<1>e. Paired(<< >>)
  BY DEF Paired
<1>1. CASE Grows(c)
  <2>1. PICK m \in Turns :
       /\ history'[c] = Append(history[c], m)
       /\ m[1] # "agent" \/ (history[c] # << >> /\ history[c][Len(history[c])] = <<"user", m[2]>>)
    BY <1>1 DEF Grows
  <2>2. Paired(Append(history[c], m))
    BY <1>t, <2>1, PairedAppend DEF HistOk
  <2>3. QED
    BY <1>1, <2>1, <2>2 DEF Grows, HistOk
<1>2. CASE Loads(c)
  BY <1>2, <1>e DEF Loads, HistOk
<1>3. CASE AtRest(c) \/ Saves(c)
  BY <1>3 DEF AtRest, Saves, HistOk
<1>4. CASE Restarts(c) \/ Ends(c)
  BY <1>4, <1>e DEF Restarts, Ends, HistOk
<1>5. QED
  BY <1>1, <1>2, <1>3, <1>4

\* The history and the row of a conversation have an answer.
Kept(c, r) ==
  /\ task[c] \in Busy => HasAnswer(history[c], r)
  /\ durable => HasAnswer(saved[c], r)

LEMMA KeptStep ==
  ASSUME ConvTypeInv, AskCourse, OrderInv, FoundInv, HistInv, GoesOn, [ConvNext]_convVars,
         NEW c \in Convs, NEW r \in Requests, C(r) = c, Known(r)', ~Forgets(c)'
  PROVE  /\ task'[c] \in Busy => HasAnswer(history'[c], r)
         /\ durable => HasAnswer(saved'[c], r)
<1>t. /\ history[c] \in Seq(Turns) /\ saved[c] \in Rows /\ faults \in Nat /\ faults' \in Nat
      /\ task \in [Convs -> {"off", "loading", "open", "turn", "saving", "closed"}]
  BY DEF ConvTypeInv, GoesOn
<1>f. /\ ~Forgets(c) /\ faults' = 0 /\ faults = 0 /\ ~RestartAsked(c) /\ (crashed => durable)
      /\ durable' = durable
  <2>1. ~Forgets(c)
    BY GoesOnKeeps DEF AskCourse
  <2>2. ~(faults' > 0)
    BY DEF Forgets
  <2>3. ~(faults > 0)
    BY <2>1 DEF Forgets
  <2>4. faults' = 0 /\ faults = 0
    BY <1>t, <2>2, <2>3
  <2>5. QED
    BY <2>1, <2>4 DEF Forgets, RestartAsked, GoesOn
<1>1. CASE Known(r)
  <2>1. Kept(c, r)
    BY <1>1, <1>f DEF HistInv, HistoryIsKept, Kept, Busy
  <2>2. CASE AtRest(c)
    BY <2>1, <2>2 DEF AtRest, Kept
  <2>3. CASE Grows(c)
    <3>1. PICK m \in Turns : history'[c] = Append(history[c], m)
      BY <2>3 DEF Grows
    <3>2. HasAnswer(Append(history[c], m), r)
      BY <1>t, <2>1, <2>3, AnswerFacts DEF Grows, Kept
    <3>3. QED
      BY <2>1, <2>3, <3>1, <3>2 DEF Grows, Kept
  <2>4. CASE Loads(c)
    <3>1. crashed
      BY <1>1, <2>4 DEF FoundInv, Loads
    <3>2. durable /\ HasAnswer(saved[c], r)
      BY <1>f, <2>1, <3>1 DEF Kept
    <3>3. saved[c] # Unsaved
      <4>1. ~HasAnswer(Unsaved, r)
        BY DEF HasAnswer, Unsaved
      <4>2. QED
        BY <3>2, <4>1
    <3>4. history'[c] = saved[c] /\ saved'[c] = saved[c]
      <4>1. ~(faults' > 0)
        BY <1>f
      <4>2. QED
        BY <2>4, <3>2, <3>3, <4>1 DEF Loads
    <3>5. QED
      BY <3>2, <3>4
  <2>5. CASE Saves(c)
    BY <2>1, <2>5 DEF Saves, Kept, Busy
  <2>6. CASE Ends(c)
    BY <2>1, <2>6 DEF Ends, Kept, Busy
  <2>7. QED
    BY <1>f, <2>2, <2>3, <2>4, <2>5, <2>6, HistoryMoves DEF Restarts
<1>2. CASE ~Known(r)
  <2>1. PICK d \in Convs : SaveAndRespond(d) /\ Last(history[d]) = <<"agent", r>>
    BY <1>2, KnownStep
  <2>2. task[d] = "saving" /\ history' = history
    BY <2>1 DEF SaveAndRespond
  <2>3. d = c
    <3>1. C(Last(history[d])[2]) = d
      BY <2>2, LastFacts DEF AskCourse
    <3>2. Last(history[d])[2] = r
      BY <2>1
    <3>3. QED
      BY <3>1, <3>2
  <2>4. HasAnswer(history[c], r)
    <3> DEFINE n == Len(history[c])
    <3>1. history[c] # << >> /\ history[c][n] = <<"agent", r>>
      BY <2>1, <2>2, <2>3, LastFacts DEF AskCourse
    <3>2. n \in Nat /\ n > 0 /\ DOMAIN history[c] = 1..n
      BY <1>t, <3>1
    <3>3. Paired(history[c])
      BY DEF HistInv
    <3>4. n > 1 /\ history[c][n - 1] = <<"user", r>>
      BY <3>1, <3>2, <3>3 DEF Paired
    <3>5. n - 1 \in 1..(n - 1) /\ (n - 1) + 1 = n
      BY <3>2, <3>4
    <3>6. QED
      BY <3>1, <3>4, <3>5 DEF HasAnswer
  <2>5. durable => saved'[c] = history[c]
    <3>1. Save(c, history[c])
      BY <2>1, <2>3 DEF SaveAndRespond
    <3>2. \/ durable /\ saved' = [saved EXCEPT ![c] = history[c]]
          \/ faults' = faults + 1
          \/ ~durable
      BY <3>1, SaveFacts
    <3>3. faults' # faults + 1
      BY <1>f
    <3>4. saved \in [Convs -> Rows]
      BY DEF ConvTypeInv
    <3>5. QED
      BY <3>2, <3>3, <3>4
  <2>6. QED
    BY <2>2, <2>4, <2>5
<1>3. QED
  BY <1>1, <1>2

\* A reader gets the history of the instance or the row.
LEMMA GetStep ==
  ASSUME ConvTypeInv, AskCourse, GoesOn, [ConvNext]_convVars,
         NEW r \in Requests, Verb(r) = "get", answer'[r] = "ok", answer[r] # "ok"
  PROVE  \/ durable /\ seen'[r] = saved[C(r)]
         \/ task[C(r)] = "open" /\ seen'[r] = history[C(r)]
<1> USE DEF requests, store, registry, tasks
<1>t. /\ at \in [Requests -> Places] /\ answer \in [Requests -> Whys] /\ seen \in [Requests -> Rows]
      /\ VerbFits(r)
  BY DEF ConvTypeInv, AskCourse, PlaceInv
<1>2. ASSUME NEW q \in Requests, Begin(q) \/ Handler(q) PROVE Send(r) /\ durable /\ seen'[r] = saved[C(r)]
  <2>1. q # r => answer'[r] = answer[r]
    BY <1>2, <1>t DEF Begin, Handler, Resolve, FindAgent, FindParent, InsertParent, Register, RegisterControl,
       Send, LookupMailbox, Enqueue, ResolveGet, GiveOrder, Unregister, AfterOrder, Spawn, Goto, Answer
  <2>2. q = r
    BY <2>1
  <2>3. CASE Begin(r) \/ Resolve(r) \/ FindParent(r) \/ Register(r) \/ RegisterControl(r) \/ Unregister(r)
    BY <2>3 DEF Begin, Resolve, FindParent, Register, RegisterControl, Unregister, Goto
  <2>4. CASE FindAgent(r) \/ InsertParent(r) \/ LookupMailbox(r) \/ Enqueue(r) \/ ResolveGet(r)
    BY <1>t, <2>4 DEF FindAgent, InsertParent, LookupMailbox, Enqueue, ResolveGet, Goto, Answer
  <2>5. CASE Spawn(r)
    BY <1>t, <2>5 DEF Spawn, Refuses, Goto, Answer
  <2>6. CASE Send(r)
    BY <1>t, <2>6 DEF Send, Goto, Answer
  <2>7. CASE GiveOrder(r)
    BY <2>7 DEF GiveOrder, Orders
  <2>8. CASE AfterOrder(r)
    BY <1>t, <2>8 DEF AfterOrder, VerbFits
  <2>9. QED
    BY <1>2, <2>2, <2>3, <2>4, <2>5, <2>6, <2>7, <2>8 DEF Handler
<1>3. ASSUME NEW d \in Convs, Instance(d)
      PROVE  task[C(r)] = "open" /\ seen'[r] = history[C(r)]
  <2>1. CASE Load(d) \/ ObeyRestart(d) \/ TurnEnds(d)
    BY <2>1 DEF Load, ObeyRestart, TurnEnds
  <2>2. CASE ObeyStop(d)
    BY <2>2 DEF ObeyStop
  <2>3. CASE Take(d)
    <3>1. Head(queue[d]) = r
      BY <1>t, <2>3 DEF Take, Answer
    <3>2. C(Head(queue[d])) = d
      BY <2>3, ElementFacts DEF Take, AskCourse
    <3>3. C(r) = d
      BY <3>1, <3>2
    <3>4. QED
      BY <1>t, <2>3, <3>1, <3>3 DEF Take
  <2>4. CASE SaveAndRespond(d)
    <3>1. Last(history[d])[2] = r
      BY <1>t, <2>4 DEF SaveAndRespond, Answer
    <3>2. Verb(Last(history[d])[2]) \in Messages
      BY <2>4, LastFacts DEF SaveAndRespond, AskCourse
    <3>3. QED
      BY <3>1, <3>2 DEF Messages
  <2>5. QED
    BY <1>3, <2>1, <2>2, <2>3, <2>4 DEF Instance
<1>4. CASE OthersSpawn \/ UNCHANGED convVars
  BY <1>4 DEF OthersSpawn, convVars
<1>5. CASE Crash
  BY <1>5 DEF Crash
<1>6. QED
  BY <1>2, <1>3, <1>4, <1>5 DEF ConvNext

LEMMA SeenStep ==
  ASSUME ConvTypeInv, AskCourse, HistInv, GoesOn, [ConvNext]_convVars,
         NEW r \in Requests, Verb(r) = "get", answer'[r] = "ok", ~Forgets(C(r)),
         NEW q \in before'[r], Known(q)', C(q)' = C(r)'
  PROVE  HasAnswer(seen'[r], q)
<1>1. before'[r] = before[r]
  BY DEF GoesOn, Stays, Begins, Progresses, AskCourse, PlaceInv
<1>2. q \in Requests /\ at[q] = "done"
  BY <1>1 DEF ConvTypeInv, AskCourse, PlaceInv
<1>3. Known(q) /\ C(q) = C(r) /\ q \in before[r]
  BY <1>1, <1>2, GoesOnKeeps DEF Known, AskCourse
<1>4. CASE answer[r] = "ok"
  <2>1. HasAnswer(seen[r], q)
    BY <1>3, <1>4 DEF HistInv, HistoryIsKept
  <2>2. at[r] = "done"
    BY <1>4 DEF AskCourse, PlaceInv
  <2>3. seen'[r] = seen[r]
    BY <2>2, GoesOnKeeps DEF AskCourse
  <2>4. QED
    BY <2>1, <2>3
<1>5. CASE answer[r] # "ok"
  <2>1. C(r) \in Convs
    BY AsksFacts
  <2>2. /\ task[C(r)] = "open" => HasAnswer(history[C(r)], q)
        /\ durable => HasAnswer(saved[C(r)], q)
    BY <1>2, <1>3, <2>1 DEF HistInv, HistoryIsKept
  <2>3. QED
    BY <1>5, <2>2, GetStep
<1>6. QED
  BY <1>4, <1>5

LEMMA HistStep ==
  ASSUME ConvTypeInv, AskCourse, OrderInv, FoundInv, HistInv, GoesOn, [ConvNext]_convVars
  PROVE  HistInv'
<1>k. \A q \in Requests : C(q)' = C(q) /\ Verb(q)' = Verb(q)
  BY DEF GoesOn, C, Verb
<1>1. ASSUME NEW c \in Convs
      PROVE  Paired(history'[c]) /\ (saved'[c] # Unsaved => Paired(saved'[c]))
  <2>1. HistOk(c)
    BY DEF HistInv, HistOk
  <2>2. QED
    BY <2>1, HistoryMoves, PairedStep
<1>2. ASSUME NEW c \in Convs, NEW r \in Requests, Known(r)', C(r)' = c, ~Forgets(c)'
      PROVE  /\ task'[c] \in {"open", "turn", "saving"} => HasAnswer(history'[c], r)
             /\ durable' => HasAnswer(saved'[c], r)
  <2>1. C(r) = c /\ durable' = durable
    BY <1>2, <1>k DEF GoesOn
  <2>2. QED
    BY <1>2, <2>1, KeptStep DEF Busy
<1>3. ASSUME NEW r \in Requests, Verb(r)' = "get", answer'[r] = "ok", ~Forgets(C(r))',
             NEW q \in before'[r], Known(q)', C(q)' = C(r)'
      PROVE  HasAnswer(seen'[r], q)
  <2>p. PICK c \in Convs : c = C(r)
    BY AsksFacts
  <2>1. Verb(r) = "get" /\ C(r)' = c
    BY <1>3, <1>k, <2>p
  <2>2. ~Forgets(c)'
    BY <1>3, <2>1 DEF Forgets, AskedFor, C
  <2>3. ~Forgets(C(r))
    BY <2>2, <2>p, GoesOnKeeps DEF AskCourse
  <2>4. QED
    BY <1>3, <2>1, <2>3, SeenStep
<1>4. \A c \in Convs : \A i \in DOMAIN history'[c] :
        history'[c][i][1] = "agent" => i > 1 /\ history'[c][i - 1] = <<"user", history'[c][i][2]>>
  BY <1>1 DEF Paired
<1>5. HistoryIsKept'
  BY <1>2, <1>3, <1>4 DEF HistoryIsKept
<1>6. \A c \in Convs : Paired(history[c])' /\ (saved'[c] # Unsaved => Paired(saved[c])')
  BY <1>1 DEF Paired
<1>7. QED
  BY <1>5, <1>6 DEF HistInv

-----------------------------------------------------------------------------
(* The theorems. *)

LEMMA InvInit == ConvInit => ConvInv
<1> SUFFICES ASSUME ConvInit PROVE ConvInv
  OBVIOUS
<1>t. ConvTypeInv
  BY TypeInit
<1>1. /\ \A r \in Requests : at[r] = "idle" /\ answer[r] = "none" /\ before[r] = {} /\ seen[r] = << >>
      /\ \A c \in Convs : /\ saved[c] = Unsaved /\ node[c] = "absent" /\ ~entry[c] /\ ~mailbox[c]
                          /\ task[c] = "off" /\ history[c] = << >> /\ queue[c] = << >> /\ orders[c] = << >>
      /\ ~parent /\ ~crashed /\ faults = 0
  BY DEF ConvInit
<1>2. PlaceInv
  BY <1>1 DEF PlaceInv, VerbFits, Makers, Senders
<1>3. QueueInv /\ TurnInv
  BY <1>1 DEF QueueInv, TurnInv
<1>4. OrderInv /\ TreeInv /\ FoundInv /\ RivalInv
  BY <1>1 DEF OrderInv, TreeInv, FoundInv, RivalInv, Known
<1>5. RefusalsAreExplained
  BY <1>1 DEF RefusalsAreExplained
<1>6. HistInv
  BY <1>1 DEF HistInv, HistoryIsKept, Known, Paired
<1>8. QED
  BY <1>t, <1>2, <1>3, <1>4, <1>5, <1>6 DEF ConvInv, AskCourse

LEMMA InvStep == ConvInv /\ [ConvNext]_convVars => ConvInv'
<1> SUFFICES ASSUME ConvInv, [ConvNext]_convVars PROVE ConvInv'
  OBVIOUS
<1>1. /\ ConvTypeInv /\ AskCourse /\ OrderInv /\ TreeInv /\ FoundInv /\ RivalInv
      /\ RefusalsAreExplained /\ HistInv
  BY DEF ConvInv
<1>2. GoesOn
  BY <1>1, StepGoesOn
<1>3. ConvTypeInv'
  BY <1>1, ConvTypeStep DEF AskCourse
<1>4. AskCourse'
  BY <1>1, <1>2, PlaceStep, MailboxStep DEF AskCourse
<1>5. OrderInv' /\ TreeInv'
  BY <1>1, <1>2, OrderStep, TreeStep
<1>6. FoundInv' /\ RivalInv'
  BY <1>1, <1>2, FoundStep, RivalStep
<1>7. RefusalsAreExplained'
  BY <1>1, <1>2, RefusalStep
<1>8. HistInv'
  BY <1>1, <1>2, HistStep
<1>9. QED
  BY <1>3, <1>4, <1>5, <1>6, <1>7, <1>8 DEF ConvInv

\* The invariant: types, mailboxes, orders and the registry against what was
\* asked, histories and rows.
THEOREM SpecConversations == ConvSpec => []ConvInv
BY InvInit, InvStep, PTL DEF ConvSpec

\* What a client was answered stays in the history and in the row.
THEOREM SpecHistoryIsKept == ConvSpec => []HistoryIsKept
<1>1. ConvInv => HistoryIsKept
  BY DEF ConvInv, HistInv
<1>2. QED
  BY <1>1, SpecConversations, PTL

\* A client is refused for a reason only: a rival, an order, a full tree, an
\* unknown agent, a fault or a crash.
THEOREM SpecRefusalsAreExplained == ConvSpec => []RefusalsAreExplained
<1>1. ConvInv => RefusalsAreExplained
  BY DEF ConvInv
<1>2. QED
  BY <1>1, SpecConversations, PTL
=============================================================================
