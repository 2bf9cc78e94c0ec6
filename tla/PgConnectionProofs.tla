------------------------- MODULE PgConnectionProofs -------------------------
(***************************************************************************)
(* Proofs about PgConnection, for every number of connections, sessions,   *)
(* calls and faults, and for connections that threads share or not.        *)
(***************************************************************************)
EXTENDS PgConnection, SequenceTheorems, TLAPS

-----------------------------------------------------------------------------
(* The invariant. *)

Writes == Calls \X {1, 2}
Called == [stage : {"ready", "holding", "queued", "clearing", "ok", "err"}, conn : Conns,
           op : AllOps, via : Calls \cup {NoTask}]
Idle == [st : {"none", "acquiring", "failed", "ended"}]
Working == [st : {"serving"}, session : Sessions, auto : BOOLEAN, inTxn : BOOLEAN,
            ours : SUBSET Writes, clean : BOOLEAN]

TypeInv ==
  /\ slot \in [Conns -> Calls \cup {NoTask}]
  /\ closed \subseteq Conns /\ dropped \subseteq Conns
  /\ call \in [Calls -> {NoCall} \cup Called]
  /\ task \in [Tasks -> Idle \cup Working]
  /\ queue \in [Tasks -> Seq(Calls)]
  /\ free \subseteq Sessions
  /\ txn \in [Sessions -> {"idle", "open", "aborted", "broken"}]
  /\ held \in [Sessions -> SUBSET Writes]
  /\ stored \subseteq Writes /\ undone \subseteq Writes /\ leaky \subseteq Conns

\* Calls, tasks and slots belong to one connection, and a task's queue has the
\* calls that wait for it, each once, and the closes sent to it.
Ends(k) == call[k].op \in {"close", "release"}
Began(k) == call[k].stage \notin {"none", "ready"}
CallInv ==
  /\ \A k \in Calls : ~Began(k) => task[k] = NotSpawned
  /\ \A k \in Calls : call[k].stage = "ready" => call[k].via = NoTask
  /\ \A k \in Calls : call[k].stage \in {"holding", "queued", "clearing"} => call[k].via # NoTask
  /\ \A k \in Calls : Began(k) /\ call[k].via # NoTask =>
       Began(call[k].via) /\ call[call[k].via].conn = call[k].conn
  /\ \A c \in Conns : slot[c] # NoTask => Began(slot[c]) /\ call[slot[c]].conn = c
  /\ \A t \in Tasks : \A i \in 1..Len(queue[t]) :
       /\ Began(queue[t][i]) /\ call[queue[t][i]].via = t /\ call[queue[t][i]].stage # "holding"
       /\ Ends(queue[t][i]) \/ call[queue[t][i]].stage = "queued"
       /\ \A j \in 1..Len(queue[t]) : queue[t][i] = queue[t][j] => i = j

\* The flag, the session and what the two remember of the transaction.
SessionInv ==
  /\ \A t \in Serving : task[t].session \notin free
  /\ \A t, u \in Serving : task[t].session = task[u].session => t = u
  /\ \A t \in Serving : task[t].clean /\ ~task[t].inTxn =>
       txn[task[t].session] \in {"idle", "broken"}
  /\ \A t \in Serving : task[t].inTxn =>
       /\ ~task[t].auto /\ txn[task[t].session] # "idle"
       /\ txn[task[t].session] # "broken" => task[t].ours \subseteq held[task[t].session]
  /\ \A t \in Serving : ~task[t].inTxn => task[t].ours = {}
  /\ \A s \in Sessions : held[s] # {} => txn[s] = "open"

\* A write is made once, by a call that was answered, and is in one place.
Done(ws) == \A w \in ws : call[w[1]].stage \in {"ok", "err"}
WriteInv ==
  /\ Done(stored) /\ Done(undone) /\ \A s \in Sessions : Done(held[s])
  /\ \A t \in Serving : Done(task[t].ours) /\ task[t].ours \cap stored = {}
  /\ \A t \in Serving, s \in Sessions : s # task[t].session => task[t].ours \cap held[s] = {}
  /\ undone \cap stored = {} /\ \A s \in Sessions : undone \cap held[s] = {}
  /\ promised \subseteq stored

\* Only what a connection left behind mixes with the writes of another one.
ApartInv ==
  /\ \A s \in free : held[s] \subseteq abandoned
  /\ \A t \in Serving : \A w \in held[task[t].session] :
       w \in abandoned \/ call[w[1]].conn = call[t].conn
  /\ foreign \subseteq abandoned

\* A connection of one thread: it has one call at a time besides its closes, none
\* of them a statement once it is closed, and the task of its statements stays in
\* the slot until a close or release is on its way to it.
Private(k) == call[k].conn \notin Shared
Closing(t) ==
  \/ \E k \in Calls : call[k].stage = "holding" /\ Ends(k) /\ call[k].via = t
  \/ \E i \in 1..Len(queue[t]) : Ends(queue[t][i])
Statement(k) == Running(k) /\ call[k].op \in Statements
Kept(t) ==
  /\ slot[call[t].conn] = t
  /\ call[t].conn \in closed => \E k \in Calls : /\ call[k].stage = "ready"
                                                 /\ call[k].op = "close" /\ call[k].conn = call[t].conn
\* It has a transaction to end, or a statement to begin one.
Busy(t) ==
  /\ Began(t) /\ Private(t) /\ task[t].st # "ended"
  /\ \/ task[t].st = "serving" /\ task[t].inTxn
     \/ \E k \in Calls : Statement(k) /\ call[k].via = t
CloseInv ==
  /\ \A j, k \in Calls : Running(j) /\ Running(k) /\ Private(k) /\ call[j].conn = call[k].conn
                         /\ call[j].op # "close" /\ call[k].op # "close" => j = k
  /\ \A k \in Calls : Statement(k) /\ Private(k) => call[k].conn \notin closed
  /\ \A k \in Calls : call[k].stage \in {"holding", "clearing"} /\ call[k].op = "release"
                      /\ Private(k) => slot[call[k].conn] \in {NoTask, call[k].via}
  /\ \A k \in Calls : call[k].stage = "clearing" =>
       task[call[k].via].st = "ended" \/ Closing(call[k].via)
  /\ \A k \in Calls : call[k].stage = "clearing" => call[k].op = "release"
  /\ \A t \in Tasks : Busy(t) => Closing(t) \/ Kept(t)
  /\ \A c \in leaky : c \in Shared \/ (c \in dropped /\ c \notin closed)

IInv == TypeInv /\ CallInv /\ SessionInv /\ WriteInv /\ ApartInv /\ CloseInv

-----------------------------------------------------------------------------
(* Types. *)

\* What a call, a task and a step of them look like.
LEMMA CallFacts ==
  ASSUME TypeInv, NEW k \in Calls
  PROVE  /\ call[k] = NoCall \/ call[k] \in Called
         /\ call[k].stage \in {"none", "ready", "holding", "queued", "clearing", "ok", "err"}
         /\ call[k].stage = "none" <=> call[k] = NoCall
         /\ call[k].stage # "none" => call[k] \in Called
<1>1. call[k] = NoCall \/ call[k] \in Called
  BY DEF TypeInv
<1>2. NoCall.stage = "none"
  BY DEF NoCall
<1>3. QED
  BY <1>1, <1>2 DEF Called

\* A task has a session and a queue when it serves, and neither otherwise.
LEMMA TaskFacts ==
  ASSUME TypeInv, NEW t \in Tasks
  PROVE  /\ task[t].st \in {"none", "acquiring", "failed", "ended", "serving"}
         /\ task[t].st = "serving" => task[t] \in Working
         /\ task[t].st # "serving" => task[t] \in Idle
<1>1. task[t] \in Idle \/ task[t] \in Working
  BY DEF TypeInv
<1>2. QED
  BY <1>1 DEF Idle, Working

\* Each operation keeps the shape of what it changes.
LEMMA MoveType ==
  ASSUME TypeInv, NEW k \in Calls, call[k].stage # "none",
         NEW stage \in {"holding", "queued", "clearing", "ok", "err"}, Move(k, stage)
  PROVE  call' \in [Calls -> {NoCall} \cup Called]
<1>1. call[k] \in Called
  BY CallFacts
<1>2. [call[k] EXCEPT !.stage = stage] \in Called
  BY <1>1 DEF Called
<1>3. QED
  BY <1>2 DEF TypeInv, Move

\* EndTask keeps the types.
LEMMA EndType ==
  ASSUME TypeInv, NEW t \in Tasks, EndTask(t)
  PROVE  /\ call' \in [Calls -> {NoCall} \cup Called] /\ task' \in [Tasks -> Idle \cup Working]
         /\ queue' \in [Tasks -> Seq(Calls)]
<1>1. ASSUME NEW k \in Calls, call[k].stage = "queued"
      PROVE  [call[k] EXCEPT !.stage = "err"] \in Called
  <2>1. call[k] \in Called
    BY <1>1, CallFacts
  <2>2. QED
    BY <2>1 DEF Called
<1>2. call' \in [Calls -> {NoCall} \cup Called]
  BY <1>1 DEF EndTask, TypeInv
<1>3. [st |-> "ended"] \in Idle
  BY DEF Idle
<1>4. << >> \in Seq(Calls)
  OBVIOUS
<1>5. QED
  BY <1>2, <1>3, <1>4 DEF EndTask, TypeInv

\* The head of a task's queue, and what is left when it is answered.
LEMMA HeadFacts ==
  ASSUME TypeInv, NEW t \in Tasks, queue[t] # << >>
  PROVE  /\ Head(queue[t]) = queue[t][1] /\ queue[t][1] \in Calls /\ Len(queue[t]) \in Nat
         /\ 1 \in 1..Len(queue[t])
         /\ Tail(queue[t]) \in Seq(Calls) /\ Len(Tail(queue[t])) = Len(queue[t]) - 1
         /\ \A i \in 1..(Len(queue[t]) - 1) : Tail(queue[t])[i] = queue[t][i + 1]
<1>1. queue[t] \in Seq(Calls)
  BY DEF TypeInv
<1>2. QED
  BY <1>1

\* No other session changes.
Touches(s) ==
  /\ txn' = [txn EXCEPT ![s] = txn'[s]] /\ held' = [held EXCEPT ![s] = held'[s]]
  /\ \A u \in Sessions : u # s => txn'[u] = txn[u] /\ held'[u] = held[u]

\* What the operations have in common that a task executes on its session.
Serve(t, k) ==
  /\ task[t].st = "serving" /\ queue[t] # << >> /\ k = Head(queue[t]) /\ ~Ends(k)
  /\ queue' = [queue EXCEPT ![t] = Tail(@)]
  /\ Move(k, "ok") \/ Move(k, "err")
  /\ \A u \in Tasks : u # t => task'[u] = task[u]
  /\ task' = [task EXCEPT ![t] = task'[t]] /\ task'[t] \in Working
  /\ task'[t].session = task[t].session /\ task'[t].clean = task[t].clean
  /\ Touches(task[t].session)
  /\ UNCHANGED <<slot, closed, dropped, free, abandoned, leaky>>

\* A statement: it runs in autocommit, in a transaction it may have begun, or
\* it is refused.
Executed(t, k, done, ok) ==
  LET s == task[t].session IN
  /\ task'[t].auto = task[t].auto
  /\ task'[t].inTxn <=> (task[t].inTxn \/ (NeedsBegin(t) /\ ~BeginFails(t)))
  /\ UNCHANGED <<undone, foreign>>
  /\ \/ /\ AfterBegin(t) = "idle" /\ txn'[s] = "idle" /\ held'[s] = held[s]
        /\ stored' = stored \cup done
        /\ task'[t].ours = task[t].ours \/ task'[t].inTxn
     \/ /\ AfterBegin(t) = "open" /\ txn'[s] = "open" /\ held'[s] = held[s] \cup done
        /\ UNCHANGED stored
        /\ task'[t].ours = IF task'[t].inTxn THEN task[t].ours \cup done ELSE task[t].ours
     \/ /\ AfterBegin(t) = "open" /\ ~ok /\ txn'[s] = "aborted" /\ held'[s] = {}
        /\ UNCHANGED stored
        /\ task'[t].ours = IF task'[t].inTxn THEN {} ELSE task[t].ours
     \/ /\ AfterBegin(t) \in {"aborted", "broken"} /\ ~ok
        /\ txn'[s] = txn[s] /\ held'[s] = held[s] /\ UNCHANGED stored
        /\ task'[t].ours = IF task'[t].inTxn THEN {} ELSE task[t].ours
  /\ promised' = promised \/ (ok /\ task[t].auto /\ task[t].clean /\ promised' = promised \cup done)

\* What a statement does to its session and its task.
LEMMA ExecuteEffect ==
  ASSUME TypeInv, NEW t \in Tasks, NEW k \in Calls, NEW op \in Statements, Execute(t, k, op)
  PROVE  /\ Serve(t, k) /\ call[k].op = op
         /\ \E done \in SUBSET ({k} \X {1, 2}), ok \in BOOLEAN : Executed(t, k, done, ok)
<1> DEFINE s == task[t].session
           now == AfterBegin(t)
           inTxn == task[t].inTxn \/ (NeedsBegin(t) /\ ~BeginFails(t))
<1>1. task[t] \in Working /\ s \in Sessions /\ Serves(t, op, k) /\ inTxn \in BOOLEAN
  BY TaskFacts DEF Execute, Serves, Working, NeedsBegin, BeginFails
<1>2. now \in {"idle", "open", "aborted", "broken"} /\ (now \in {"aborted", "broken"} => now = txn[s])
  BY <1>1 DEF AfterBegin, TypeInv
<1>3. PICK unsent \in {{r \in Rows(op) : r >= n} : n \in 1..3} :
     \E refused \in SUBSET (Rows(op) \ unsent) :
       LET done == {k} \X (Rows(op) \ (unsent \cup refused))
           ok == unsent \cup refused = {} /\ now \in {"idle", "open"}
           kept == refused = {} /\ now \in {"idle", "open"}
       IN
       /\ Answer(t, k, ok)
       /\ txn' = [txn EXCEPT ![s] = IF now = "open" /\ ~kept THEN "aborted" ELSE now]
       /\ held' = [held EXCEPT ![s] = IF now # "open" THEN @
                                      ELSE IF kept THEN @ \cup done ELSE {}]
       /\ stored' = IF now = "idle" THEN stored \cup done ELSE stored
       /\ promised' = IF ok /\ task[t].auto THEN Later(done, promised, t) ELSE promised
       /\ task' = [task EXCEPT
            ![t].inTxn = inTxn,
            ![t].ours = IF kept /\ inTxn THEN @ \cup done ELSE IF inTxn THEN {} ELSE @]
  BY DEF Execute
<1>4. PICK refused \in SUBSET (Rows(op) \ unsent) :
       LET done == {k} \X (Rows(op) \ (unsent \cup refused))
           ok == unsent \cup refused = {} /\ now \in {"idle", "open"}
           kept == refused = {} /\ now \in {"idle", "open"}
       IN
       /\ Answer(t, k, ok)
       /\ txn' = [txn EXCEPT ![s] = IF now = "open" /\ ~kept THEN "aborted" ELSE now]
       /\ held' = [held EXCEPT ![s] = IF now # "open" THEN @
                                      ELSE IF kept THEN @ \cup done ELSE {}]
       /\ stored' = IF now = "idle" THEN stored \cup done ELSE stored
       /\ promised' = IF ok /\ task[t].auto THEN Later(done, promised, t) ELSE promised
       /\ task' = [task EXCEPT
            ![t].inTxn = inTxn,
            ![t].ours = IF kept /\ inTxn THEN @ \cup done ELSE IF inTxn THEN {} ELSE @]
  BY <1>3
<1> DEFINE done == {k} \X (Rows(op) \ (unsent \cup refused))
           ok == unsent \cup refused = {} /\ now \in {"idle", "open"}
           kept == refused = {} /\ now \in {"idle", "open"}
           ours == IF kept /\ inTxn THEN task[t].ours \cup done
                   ELSE IF inTxn THEN {} ELSE task[t].ours
<1>5. /\ done \in SUBSET ({k} \X {1, 2}) /\ ok \in BOOLEAN /\ done \subseteq Writes
      /\ kept \in BOOLEAN /\ (ok => kept)
  BY DEF Rows, Writes
<1>6. ours \in SUBSET Writes
  BY <1>1, <1>5 DEF Working
<1>7. task' = [task EXCEPT ![t].inTxn = inTxn, ![t].ours = ours]
  BY <1>4
<1>8. /\ Answer(t, k, ok)
      /\ txn' = [txn EXCEPT ![s] = IF now = "open" /\ ~kept THEN "aborted" ELSE now]
      /\ held' = [held EXCEPT ![s] = IF now # "open" THEN @ ELSE IF kept THEN @ \cup done ELSE {}]
      /\ stored' = IF now = "idle" THEN stored \cup done ELSE stored
      /\ promised' = IF ok /\ task[t].auto THEN Later(done, promised, t) ELSE promised
  BY <1>4
<1>9. UNCHANGED <<slot, closed, dropped, free, undone, abandoned, foreign, leaky>>
  BY DEF Execute, program
<1> HIDE DEF done, ok, kept
<1>10. ours = (IF kept /\ inTxn THEN task[t].ours \cup done ELSE IF inTxn THEN {} ELSE task[t].ours)
  OBVIOUS
<1> HIDE DEF inTxn, ours
<1>11. /\ task' = [task EXCEPT ![t] = [task[t] EXCEPT !.inTxn = inTxn, !.ours = ours]]
       /\ task' = [task EXCEPT ![t] = task'[t]]
       /\ task'[t] = [task[t] EXCEPT !.inTxn = inTxn, !.ours = ours]
       /\ \A u \in Tasks : u # t => task'[u] = task[u]
  BY <1>7 DEF TypeInv
<1>12. /\ task'[t] \in Working /\ task'[t].session = s /\ task'[t].clean = task[t].clean
       /\ task'[t].auto = task[t].auto /\ task'[t].inTxn = inTxn /\ task'[t].ours = ours
  <2>1. PICK b \in BOOLEAN : b = inTxn
    BY <1>1
  <2>2. task[t] \in Working /\ task'[t] = [task[t] EXCEPT !.inTxn = b, !.ours = ours]
    BY <1>1, <1>11, <2>1
  <2> DEFINE z == [task[t] EXCEPT !.inTxn = b]
  <2>3. /\ task'[t] \in Working /\ task'[t].session = task[t].session
        /\ task'[t].clean = task[t].clean /\ task'[t].auto = task[t].auto
        /\ task'[t].inTxn = b /\ task'[t].ours = ours
    <3>1. /\ z \in Working /\ z.session = task[t].session /\ z.clean = task[t].clean
          /\ z.auto = task[t].auto /\ z.inTxn = b
      BY <2>2 DEF Working
    <3>2. task'[t] = [z EXCEPT !.ours = ours]
      BY <2>2
    <3> HIDE DEF z
    <3>3. QED
      BY <1>6, <3>1, <3>2 DEF Working
  <2>4. QED
    BY <2>1, <2>3
<1>13. /\ txn'[s] = (IF now = "open" /\ ~kept THEN "aborted" ELSE now)
       /\ held'[s] = (IF now # "open" THEN held[s] ELSE IF kept THEN held[s] \cup done ELSE {})
       /\ Touches(s)
  BY <1>1, <1>8 DEF TypeInv, Touches
<1>14. /\ task[t].st = "serving" /\ queue[t] # << >> /\ k = Head(queue[t]) /\ call[k].op = op
       /\ ~Ends(k) /\ queue' = [queue EXCEPT ![t] = Tail(@)] /\ (Move(k, "ok") \/ Move(k, "err"))
  BY <1>1, <1>8 DEF Serves, Answer, Ends, Statements
<1>15. Serve(t, k)
  BY <1>9, <1>11, <1>12, <1>13, <1>14 DEF Serve
<1>16. kept => now \in {"idle", "open"}
  BY DEF kept
<1>17. promised' = promised \/ (ok /\ task[t].auto /\ task[t].clean /\ promised' = promised \cup done)
  BY <1>8 DEF Later
<1>18. task'[t].inTxn <=> (task[t].inTxn \/ (NeedsBegin(t) /\ ~BeginFails(t)))
  BY <1>12 DEF inTxn
<1>19. Executed(t, k, done, ok)
  <2>1. CASE now = "idle"
    BY <1>5, <1>8, <1>9, <1>10, <1>12, <1>13, <1>17, <1>18, <2>1 DEF Executed
  <2>2. CASE now = "open" /\ kept
    BY <1>5, <1>8, <1>9, <1>10, <1>12, <1>13, <1>17, <1>18, <2>2 DEF Executed
  <2>3. CASE now = "open" /\ ~kept
    BY <1>5, <1>8, <1>9, <1>10, <1>12, <1>13, <1>17, <1>18, <2>3 DEF Executed
  <2>4. CASE now \in {"aborted", "broken"}
    BY <1>2, <1>5, <1>8, <1>9, <1>10, <1>12, <1>13, <1>16, <1>17, <1>18, <2>4 DEF Executed
  <2>5. QED
    BY <1>2, <2>1, <2>2, <2>3, <2>4
<1>20. QED
  BY <1>5, <1>14, <1>15, <1>19

\* The end of a transaction.
Ended(t, ok, keeps) ==
  LET s == task[t].session IN
  /\ txn'[s] = IF txn[s] = "broken" THEN "broken" ELSE "idle"
  /\ held'[s] = {}
  /\ keeps => txn[s] = "open"
  /\ ok => txn[s] # "broken" /\ (txn[s] = "open" => keeps)
  /\ stored' = IF keeps THEN stored \cup held[s] ELSE stored
  /\ foreign' = IF keeps THEN foreign \cup {w \in held[s] : call[w[1]].conn # call[t].conn}
                ELSE foreign
  /\ promised' = promised \/ (ok /\ task[t].clean /\ promised' = promised \cup task[t].ours)

\* What the end of a transaction does to the session.
LEMMA SettleEffect ==
  ASSUME TypeInv, NEW s \in Sessions, Settle(s)
  PROVE  /\ txn'[s] = (IF txn[s] = "broken" THEN "broken" ELSE "idle") /\ held'[s] = {}
         /\ Touches(s)
  BY DEF Settle, TypeInv, Touches

\* COMMIT, whatever becomes of it, ends the transaction and touches its session only.
LEMMA SendCommitEffect ==
  ASSUME TypeInv, NEW t \in Tasks, task[t] \in Working,
         NEW r \in CommitResults(task[t].session), SendCommit(t, r)
  PROVE  /\ \E ok, keeps \in BOOLEAN : Ended(t, ok, keeps)
         /\ Touches(task[t].session)
         /\ r.ok \in BOOLEAN
<1> DEFINE s == task[t].session
<1>1. s \in Sessions /\ txn[s] \in {"idle", "open", "aborted", "broken"}
  BY DEF Working, TypeInv
<1>2. /\ txn'[s] = (IF txn[s] = "broken" THEN "broken" ELSE "idle") /\ held'[s] = {}
      /\ Touches(s)
  BY <1>1, SettleEffect DEF SendCommit
<1>3. PICK ok, keeps \in BOOLEAN :
        /\ r = [ok |-> ok, keeps |-> keeps] /\ (keeps => txn[s] = "open")
        /\ ok => txn[s] # "broken" /\ (txn[s] = "open" => keeps)
  BY <1>1 DEF CommitResults
<1>4. Ended(t, ok, keeps)
  <2>1. (r.ok <=> ok) /\ (r.keeps <=> keeps)
    BY <1>3
  <2>2. /\ stored' = IF keeps THEN stored \cup held[s] ELSE stored
        /\ foreign' = IF keeps THEN foreign \cup {w \in held[s] : call[w[1]].conn # call[t].conn}
                      ELSE foreign
        /\ promised' = IF ok THEN Later(task[t].ours, promised, t) ELSE promised
    BY <2>1 DEF SendCommit
  <2>3. promised' = promised \/ (ok /\ task[t].clean /\ promised' = promised \cup task[t].ours)
    BY <2>2 DEF Later
  <2>4. QED
    BY <1>2, <1>3, <2>2, <2>3 DEF Ended
<1>5. r.ok \in BOOLEAN
  BY <1>3
<1>6. QED
  BY <1>2, <1>4, <1>5

\* What the others do to the task and to the writes.
LEMMA CommitEffect ==
  ASSUME TypeInv, NEW t \in Tasks, NEW k \in Calls, Commit(t, k)
  PROVE  /\ Serve(t, k) /\ call[k].op = "commit"
         /\ ~task'[t].inTxn /\ task'[t].ours = {} /\ UNCHANGED undone
         /\ \/ task[t].inTxn /\ \E ok, keeps \in BOOLEAN : Ended(t, ok, keeps)
            \/ /\ ~task[t].inTxn /\ UNCHANGED <<txn, held, stored, foreign>>
               /\ promised' \in {promised, promised \cup task[t].ours}
<1>1. task[t] \in Working /\ Serves(t, "commit", k) /\ task[t].inTxn \in BOOLEAN
  BY TaskFacts DEF Commit, Serves, Working
<1>2. /\ task' = [task EXCEPT ![t].inTxn = FALSE, ![t].ours = {}]
      /\ UNCHANGED <<slot, closed, dropped, free, undone, abandoned, leaky>>
  BY DEF Commit, program
<1>3. /\ task' = [task EXCEPT ![t] = task'[t]] /\ \A u \in Tasks : u # t => task'[u] = task[u]
      /\ task'[t] = [task[t] EXCEPT !.inTxn = FALSE, !.ours = {}]
  BY <1>2 DEF TypeInv
<1>4. /\ task'[t] \in Working /\ task'[t].session = task[t].session
      /\ task'[t].clean = task[t].clean /\ task'[t].inTxn = FALSE /\ task'[t].ours = {}
  BY <1>1, <1>3 DEF Working
<1>5. /\ \E ok \in BOOLEAN : Answer(t, k, ok)
      /\ \/ task[t].inTxn /\ \E r \in CommitResults(task[t].session) : SendCommit(t, r)
         \/ /\ ~task[t].inTxn /\ UNCHANGED <<txn, held, stored, foreign>>
            /\ promised' \in {promised, promised \cup task[t].ours}
  <2>1. CASE task[t].inTxn
    <3>1. PICK r \in CommitResults(task[t].session) : SendCommit(t, r) /\ Answer(t, k, r.ok)
      BY <2>1 DEF Commit
    <3>2. r.ok \in BOOLEAN
      BY <1>1, <3>1, SendCommitEffect
    <3>3. QED
      BY <2>1, <3>1, <3>2
  <2>2. CASE ~task[t].inTxn
    BY <2>2 DEF Commit, Later
  <2>3. QED
    BY <2>1, <2>2
<1>6. /\ Touches(task[t].session)
      /\ task[t].inTxn => \E ok, keeps \in BOOLEAN : Ended(t, ok, keeps)
  BY <1>1, <1>5, SendCommitEffect DEF Touches, TypeInv
<1>7. /\ task[t].st = "serving" /\ queue[t] # << >> /\ k = Head(queue[t]) /\ call[k].op = "commit"
      /\ ~Ends(k) /\ queue' = [queue EXCEPT ![t] = Tail(@)] /\ (Move(k, "ok") \/ Move(k, "err"))
  BY <1>1, <1>5 DEF Serves, Answer, Ends
<1>8. Serve(t, k)
  BY <1>2, <1>3, <1>4, <1>6, <1>7 DEF Serve
<1>9. QED
  BY <1>2, <1>4, <1>5, <1>6, <1>7, <1>8

\* A rollback takes back the writes of the task's transaction, if it has one.
LEMMA RollbackEffect ==
  ASSUME TypeInv, NEW t \in Tasks, NEW k \in Calls, Rollback(t, k)
  PROVE  /\ Serve(t, k) /\ call[k].op = "rollback"
         /\ ~task'[t].inTxn /\ task'[t].ours = {} /\ undone' = undone \cup task[t].ours
         /\ UNCHANGED <<stored, promised, foreign>>
         /\ \/ /\ task[t].inTxn /\ held'[task[t].session] = {}
               /\ txn'[task[t].session] = IF txn[task[t].session] = "broken" THEN "broken" ELSE "idle"
            \/ ~task[t].inTxn /\ UNCHANGED <<txn, held>>
<1>1. task[t] \in Working /\ Serves(t, "rollback", k) /\ task[t].inTxn \in BOOLEAN
      /\ task[t].session \in Sessions
  BY TaskFacts DEF Rollback, Serves, Working
<1>2. /\ task' = [task EXCEPT ![t].inTxn = FALSE, ![t].ours = {}]
      /\ UNCHANGED <<slot, closed, dropped, free, stored, promised, abandoned, foreign, leaky>>
      /\ undone' = undone \cup task[t].ours
  BY DEF Rollback, program
<1>3. /\ task' = [task EXCEPT ![t] = task'[t]] /\ \A u \in Tasks : u # t => task'[u] = task[u]
      /\ task'[t] = [task[t] EXCEPT !.inTxn = FALSE, !.ours = {}]
  BY <1>2 DEF TypeInv
<1>4. /\ task'[t] \in Working /\ task'[t].session = task[t].session
      /\ task'[t].clean = task[t].clean /\ task'[t].inTxn = FALSE /\ task'[t].ours = {}
  BY <1>1, <1>3 DEF Working
<1>5. /\ \E ok \in BOOLEAN : Answer(t, k, ok)
      /\ \/ task[t].inTxn /\ Settle(task[t].session)
         \/ ~task[t].inTxn /\ UNCHANGED <<txn, held>>
  BY <1>1 DEF Rollback
<1>6. /\ Touches(task[t].session)
      /\ task[t].inTxn =>
           /\ held'[task[t].session] = {}
           /\ txn'[task[t].session] = IF txn[task[t].session] = "broken" THEN "broken" ELSE "idle"
  BY <1>1, <1>5, SettleEffect DEF Touches, TypeInv
<1>7. /\ task[t].st = "serving" /\ queue[t] # << >> /\ k = Head(queue[t]) /\ call[k].op = "rollback"
      /\ ~Ends(k) /\ queue' = [queue EXCEPT ![t] = Tail(@)] /\ (Move(k, "ok") \/ Move(k, "err"))
  BY <1>1, <1>5 DEF Serves, Answer, Ends
<1>8. Serve(t, k)
  BY <1>2, <1>3, <1>4, <1>6, <1>7 DEF Serve
<1>9. QED
  BY <1>2, <1>4, <1>5, <1>6, <1>7, <1>8

\* Autocommit is not turned on before an open transaction was ended.
LEMMA SetAutoCommitEffect ==
  ASSUME TypeInv, NEW t \in Tasks, NEW k \in Calls, NEW value \in BOOLEAN, SetAutoCommit(t, k, value)
  PROVE  /\ Serve(t, k) /\ call[k].op \in {"auto", "manual"} /\ UNCHANGED undone
         /\ \/ /\ task[t].inTxn /\ ~task'[t].inTxn /\ task'[t].ours = {}
               /\ \E ok, keeps \in BOOLEAN : Ended(t, ok, keeps)
            \/ /\ task'[t].inTxn = task[t].inTxn /\ task'[t].ours = task[t].ours
               /\ task'[t].auto => ~task[t].inTxn
               /\ UNCHANGED <<txn, held, stored, foreign, promised>>
<1>1. /\ task[t] \in Working /\ Serves(t, IF value THEN "auto" ELSE "manual", k)
      /\ task[t].inTxn \in BOOLEAN
  BY TaskFacts DEF SetAutoCommit, Serves, Working
<1>2. Answer(t, k, TRUE) /\ UNCHANGED <<slot, closed, dropped, free, undone, abandoned, leaky>>
  BY DEF SetAutoCommit, program
<1>3. /\ task[t].st = "serving" /\ queue[t] # << >> /\ k = Head(queue[t])
      /\ call[k].op \in {"auto", "manual"}
      /\ ~Ends(k) /\ queue' = [queue EXCEPT ![t] = Tail(@)] /\ (Move(k, "ok") \/ Move(k, "err"))
  BY <1>1, <1>2 DEF Serves, Answer, Ends
<1>4. CASE value /\ task[t].inTxn
  <2>1. PICK r \in CommitResults(task[t].session) : SendCommit(t, r)
    BY <1>4 DEF SetAutoCommit
  <2>2. task' = [task EXCEPT ![t].inTxn = FALSE, ![t].ours = {}, ![t].auto = TRUE]
    BY <1>4 DEF SetAutoCommit
  <2>3. /\ task' = [task EXCEPT ![t] = task'[t]] /\ \A u \in Tasks : u # t => task'[u] = task[u]
        /\ task'[t] = [task[t] EXCEPT !.inTxn = FALSE, !.ours = {}, !.auto = TRUE]
    BY <2>2 DEF TypeInv
  <2>4. /\ task'[t] \in Working /\ task'[t].session = task[t].session
        /\ task'[t].clean = task[t].clean /\ task'[t].inTxn = FALSE /\ task'[t].ours = {}
    BY <1>1, <2>3 DEF Working
  <2>5. /\ Touches(task[t].session)
        /\ \E ok, keeps \in BOOLEAN : Ended(t, ok, keeps)
    BY <1>1, <2>1, SendCommitEffect
  <2>6. Serve(t, k)
    BY <1>2, <1>3, <2>3, <2>4, <2>5 DEF Serve
  <2>7. QED
    BY <1>2, <1>3, <1>4, <2>4, <2>5, <2>6
<1>5. CASE ~(value /\ task[t].inTxn)
  <2>1. /\ task' = [task EXCEPT ![t].auto = value]
        /\ UNCHANGED <<txn, held, stored, foreign, promised>>
    BY <1>5 DEF SetAutoCommit
  <2>2. /\ task' = [task EXCEPT ![t] = task'[t]] /\ \A u \in Tasks : u # t => task'[u] = task[u]
        /\ task'[t] = [task[t] EXCEPT !.auto = value]
    BY <2>1 DEF TypeInv
  <2>3. /\ task'[t] \in Working /\ task'[t].session = task[t].session
        /\ task'[t].clean = task[t].clean /\ task'[t].inTxn = task[t].inTxn
        /\ task'[t].ours = task[t].ours /\ task'[t].auto = value
    BY <1>1, <2>2 DEF Working
  <2>4. Serve(t, k)
    BY <1>2, <1>3, <2>1, <2>2, <2>3 DEF Serve, Touches, TypeInv
  <2>5. QED
    BY <1>2, <1>3, <1>5, <2>1, <2>3, <2>4
<1>6. QED
  BY <1>4, <1>5

\* A step keeps the types.
LEMMA TypeStep == TypeInv /\ CallInv /\ [Next]_vars => TypeInv'
<1> SUFFICES ASSUME TypeInv, CallInv, [Next]_vars PROVE TypeInv'
  OBVIOUS
<1> USE DEF program, server, history, Tasks
<1>q. ASSUME NEW t \in Tasks, queue[t] # << >>
      PROVE  /\ queue[t][1] \in Calls /\ Head(queue[t]) = queue[t][1]
             /\ Began(queue[t][1]) /\ call[queue[t][1]].stage # "none"
  BY <1>q, HeadFacts DEF CallInv, Began
<1>a. ASSUME NEW t \in Tasks, NEW k \in Calls, NEW ok \in BOOLEAN,
             queue[t] # << >>, k = Head(queue[t]), Answer(t, k, ok)
      PROVE  /\ call' \in [Calls -> {NoCall} \cup Called] /\ queue' \in [Tasks -> Seq(Calls)]
  <2>1. call[k].stage # "none"
    BY <1>q, <1>a
  <2>2. Move(k, "ok") \/ Move(k, "err")
    BY <1>a DEF Answer
  <2>3. call' \in [Calls -> {NoCall} \cup Called]
    BY <2>1, <2>2, MoveType
  <2>4. Tail(queue[t]) \in Seq(Calls)
    BY <1>a, HeadFacts
  <2>5. QED
    BY <1>a, <2>3, <2>4 DEF Answer, TypeInv
<1>s. ASSUME NEW t \in Tasks, NEW k \in Calls, Serve(t, k),
             txn'[task[t].session] \in {"idle", "open", "aborted", "broken"},
             held'[task[t].session] \subseteq Writes, stored' \subseteq Writes, undone' \subseteq Writes
      PROVE  TypeInv'
  <2>1. /\ call' \in [Calls -> {NoCall} \cup Called] /\ queue' \in [Tasks -> Seq(Calls)]
    <3>1. \E ok \in BOOLEAN : Answer(t, k, ok)
      BY <1>s DEF Serve, Answer
    <3>2. QED
      BY <1>a, <1>s, <3>1 DEF Serve
  <2>2. task' \in [Tasks -> Idle \cup Working]
    BY <1>s DEF Serve, TypeInv
  <2>3. /\ txn' \in [Sessions -> {"idle", "open", "aborted", "broken"}]
        /\ held' \in [Sessions -> SUBSET Writes]
    BY <1>s DEF Serve, Touches, TypeInv
  <2>4. UNCHANGED <<slot, closed, dropped, free, leaky>>
    BY <1>s DEF Serve
  <2>5. QED
    BY <1>s, <2>1, <2>2, <2>3, <2>4 DEF TypeInv
<1>w. ASSUME NEW t \in Tasks, task[t].st = "serving"
      PROVE  /\ task[t].session \in Sessions /\ task[t].ours \subseteq Writes
             /\ txn[task[t].session] \in {"idle", "open", "aborted", "broken"}
             /\ held[task[t].session] \subseteq Writes
  BY <1>w, TaskFacts DEF Working, TypeInv
<1>e. ASSUME NEW t \in Tasks, task[t].st = "serving", NEW ok, NEW keeps, Ended(t, ok, keeps)
      PROVE  /\ txn'[task[t].session] \in {"idle", "open", "aborted", "broken"}
             /\ held'[task[t].session] \subseteq Writes /\ stored' \subseteq Writes
  BY <1>e, <1>w DEF Ended, TypeInv
<1>1. ASSUME NEW k \in Calls, NEW c \in Conns, NEW op \in Ops, Start(k, c, op) PROVE TypeInv'
  <2>1. [stage |-> "ready", conn |-> c, op |-> op, via |-> NoTask] \in Called
    BY PgAssumption DEF Called
  <2>2. QED
    BY <1>1, <2>1 DEF Start, TypeInv
<1>2. ASSUME NEW c \in Conns, DropConn(c) PROVE TypeInv'
  BY <1>2 DEF DropConn, TypeInv
<1>3. ASSUME NEW k \in Calls, EnsureSender(k) \/ ReadSlot(k) PROVE TypeInv'
  <2>1. call[k] \in Called /\ call[k].conn \in Conns
    BY <1>3, CallFacts DEF EnsureSender, ReadSlot, Called
  <2>2. /\ slot' \in [Conns -> Calls \cup {NoTask}] /\ task' \in [Tasks -> Idle \cup Working]
        /\ UNCHANGED <<closed, dropped, queue, server, history>>
    <3>1. [st |-> "acquiring"] \in Idle
      BY DEF Idle
    <3>2. CASE EnsureSender(k)
      BY <2>1, <3>1, <3>2 DEF EnsureSender, TypeInv
    <3>3. CASE ReadSlot(k)
      BY <2>1, <3>3 DEF ReadSlot, TypeInv
    <3>4. QED
      BY <1>3, <3>2, <3>3
  <2>3. call' \in [Calls -> {NoCall} \cup Called]
    <3>1. ASSUME NEW stage \in {"holding", "ok"}, NEW via \in Calls \cup {NoTask}
          PROVE  [call[k] EXCEPT !.stage = stage, !.via = via] \in Called
      BY <2>1 DEF Called
    <3>2. PICK stage \in {"holding", "ok"}, via \in Calls \cup {NoTask} :
            call' = [call EXCEPT ![k] = [call[k] EXCEPT !.stage = stage, !.via = via]]
      <4>1. CASE EnsureSender(k)
        BY <2>1, <2>2, <4>1 DEF EnsureSender
      <4>2. CASE ReadSlot(k)
        BY <2>1, <4>2 DEF ReadSlot, TypeInv
      <4>3. QED
        BY <1>3, <4>1, <4>2
    <3>3. QED
      BY <3>1, <3>2 DEF TypeInv
  <2>4. QED
    BY <2>2, <2>3 DEF TypeInv
<1>4. ASSUME NEW k \in Calls, Send(k) \/ SendFails(k) PROVE TypeInv'
  <2>1. call[k].stage # "none" /\ AfterSend(call[k].op) \in {"ok", "clearing", "queued"}
    BY <1>4 DEF Send, SendFails, AfterSend
  <2>2. \E stage \in {"ok", "clearing", "queued", "err"} : Move(k, stage)
    BY <1>4, <2>1 DEF Send, SendFails
  <2>3. call' \in [Calls -> {NoCall} \cup Called]
    BY <2>1, <2>2, MoveType
  <2>4. queue' \in [Tasks -> Seq(Calls)]
    <3>1. CASE Send(k)
      BY ZenonT(30), <3>1, AppendProperties DEF Send, TypeInv
    <3>2. CASE SendFails(k)
      BY <3>2 DEF SendFails, TypeInv
    <3>3. QED
      BY <1>4, <3>1, <3>2
  <2>5. UNCHANGED <<slot, closed, dropped, task, free, txn, held, stored, undone, leaky>>
    BY <1>4 DEF Send, SendFails
  <2>6. QED
    BY <2>3, <2>4, <2>5 DEF TypeInv
<1>5. ASSUME NEW k \in Calls, ClearSlot(k) PROVE TypeInv'
  <2>1. call' \in [Calls -> {NoCall} \cup Called]
    BY <1>5, MoveType DEF ClearSlot
  <2>2. QED
    BY <1>5, <2>1 DEF ClearSlot, TypeInv
<1>6. ASSUME NEW t \in Tasks, Acquire(t) PROVE TypeInv'
  <2>1. PICK s \in free :
          /\ free' = free \ {s}
          /\ task' = [task EXCEPT ![t] = [st |-> "serving", session |-> s, auto |-> FALSE,
                                          inTxn |-> FALSE, ours |-> {}, clean |-> txn[s] = "idle"]]
    BY <1>6 DEF Acquire
  <2>2. [st |-> "serving", session |-> s, auto |-> FALSE, inTxn |-> FALSE, ours |-> {},
         clean |-> txn[s] = "idle"] \in Working
    BY DEF Working, TypeInv
  <2>3. QED
    BY <1>6, <2>1, <2>2 DEF Acquire, TypeInv
<1>7. ASSUME NEW t \in Tasks, AcquireFails(t) PROVE TypeInv'
  BY <1>7 DEF AcquireFails, TypeInv, Idle
<1>8. ASSUME NEW t \in Tasks, NEW k \in Calls, NEW op \in Statements, Execute(t, k, op) PROVE TypeInv'
  <2>1. PICK done \in SUBSET ({k} \X {1, 2}), ok \in BOOLEAN : Executed(t, k, done, ok)
    BY <1>8, ExecuteEffect
  <2>2. Serve(t, k)
    BY <1>8, ExecuteEffect
  <2>3. done \subseteq Writes
    BY DEF Writes
  <2>4. /\ txn'[task[t].session] \in {"idle", "open", "aborted", "broken"}
        /\ held'[task[t].session] \subseteq Writes /\ stored' \subseteq Writes
    BY <1>w, <2>1, <2>2, <2>3 DEF Serve, Executed, TypeInv
  <2>5. UNCHANGED undone
    BY <2>1 DEF Executed
  <2>6. QED
    BY <1>s, <2>2, <2>4, <2>5 DEF TypeInv
<1>9. ASSUME NEW t \in Tasks, NEW k \in Calls, Commit(t, k) PROVE TypeInv'
  <2>1. Serve(t, k) /\ task[t].st = "serving" /\ UNCHANGED undone
    BY <1>9, CommitEffect DEF Serve
  <2>2. /\ txn'[task[t].session] \in {"idle", "open", "aborted", "broken"}
        /\ held'[task[t].session] \subseteq Writes /\ stored' \subseteq Writes
    BY <1>9, <1>e, <1>w, <2>1, CommitEffect DEF TypeInv
  <2>3. QED
    BY <1>s, <2>1, <2>2 DEF TypeInv
<1>10. ASSUME NEW t \in Tasks, NEW k \in Calls, Rollback(t, k) PROVE TypeInv'
  <2>1. Serve(t, k) /\ task[t].st = "serving" /\ undone' = undone \cup task[t].ours
    BY <1>10, RollbackEffect DEF Serve
  <2>2. /\ txn'[task[t].session] \in {"idle", "open", "aborted", "broken"}
        /\ held'[task[t].session] \subseteq Writes /\ stored' \subseteq Writes
    BY <1>10, <1>w, <2>1, RollbackEffect DEF TypeInv
  <2>3. QED
    BY <1>s, <1>w, <2>1, <2>2 DEF TypeInv
<1>11. ASSUME NEW t \in Tasks, NEW k \in Calls, NEW value \in BOOLEAN, SetAutoCommit(t, k, value) PROVE TypeInv'
  <2>1. Serve(t, k) /\ task[t].st = "serving" /\ UNCHANGED undone
    BY <1>11, SetAutoCommitEffect DEF Serve
  <2>2. /\ txn'[task[t].session] \in {"idle", "open", "aborted", "broken"}
        /\ held'[task[t].session] \subseteq Writes /\ stored' \subseteq Writes
    <3>1. CASE \E ok, keeps \in BOOLEAN : Ended(t, ok, keeps)
      BY <1>e, <2>1, <3>1
    <3>2. CASE UNCHANGED <<txn, held, stored>>
      BY <1>w, <2>1, <3>2 DEF TypeInv
    <3>3. QED
      BY <1>11, <3>1, <3>2, SetAutoCommitEffect
  <2>3. QED
    BY <1>s, <2>1, <2>2 DEF TypeInv
<1>12. ASSUME NEW t \in Tasks, Close(t) PROVE TypeInv'
  <2>1. /\ task[t].st = "serving" /\ EndTask(t) /\ GiveBack(task[t].session, Leaves(t))
        /\ held' = [held EXCEPT ![task[t].session] = IF Leaves(t) = "open" THEN @ ELSE {}]
        /\ undone' = undone \cup task[t].ours
        /\ UNCHANGED <<slot, closed, dropped, stored, leaky>>
    BY <1>12 DEF Close
  <2>2. Leaves(t) \in {"idle", "open", "aborted", "broken"}
    BY <1>w, <2>1 DEF Leaves
  <2>3. /\ call' \in [Calls -> {NoCall} \cup Called] /\ task' \in [Tasks -> Idle \cup Working]
        /\ queue' \in [Tasks -> Seq(Calls)]
    BY <2>1, EndType
  <2>4. QED
    BY <1>w, <2>1, <2>2, <2>3 DEF TypeInv, GiveBack
<1>13. ASSUME NEW t \in Tasks, Drain(t) PROVE TypeInv'
  <2>1. queue[t] # << >>
    BY <1>13 DEF Drain
  <2>2. /\ call' \in [Calls -> {NoCall} \cup Called] /\ queue' \in [Tasks -> Seq(Calls)]
        /\ task' \in [Tasks -> Idle \cup Working]
    <3>1. CASE EndTask(t)
      BY <3>1, EndType
    <3>2. CASE Answer(t, Head(queue[t]), FALSE) /\ UNCHANGED task
      BY <1>a, <1>q, <2>1, <3>2 DEF TypeInv
    <3>3. QED
      BY <1>13, <3>1, <3>2 DEF Drain
  <2>3. QED
    BY <1>13, <2>2 DEF Drain, TypeInv
<1>14. ASSUME NEW t \in Tasks, SendersGone(t) PROVE TypeInv'
  <2>1. /\ EndTask(t) /\ UNCHANGED <<slot, closed, dropped, held, stored, undone>>
        /\ \/ UNCHANGED <<free, txn, leaky>>
           \/ /\ task[t].st = "serving" /\ GiveBack(task[t].session, txn[task[t].session])
              /\ leaky' \in {leaky, leaky \cup {call[t].conn}} /\ (call[t] = NoCall \/ call[t] \in Called)
    BY <1>14, CallFacts DEF SendersGone
  <2>2. /\ call' \in [Calls -> {NoCall} \cup Called] /\ task' \in [Tasks -> Idle \cup Working]
        /\ queue' \in [Tasks -> Seq(Calls)]
    BY <2>1, EndType
  <2>3. task[t].st = "serving" => call[t].conn \in Conns
    <3>1. task[t].st = "serving" => call[t].stage # "none"
      BY DEF CallInv, Began, NotSpawned
    <3>2. QED
      BY <3>1, CallFacts DEF Called
  <2>4. QED
    BY ZenonT(30), <1>w, <2>1, <2>2, <2>3 DEF TypeInv, GiveBack
<1>15. ASSUME NEW s \in Sessions, BreakSession(s) PROVE TypeInv'
  BY <1>15 DEF BreakSession, TypeInv
<1>16. CASE UNCHANGED vars
  BY <1>16 DEF vars, TypeInv
<1>17. QED
  BY <1>1, <1>2, <1>3, <1>4, <1>5, <1>6, <1>7, <1>8, <1>9, <1>10, <1>11, <1>12, <1>13, <1>14, <1>15, <1>16 DEF Next, CallStep, TaskStep

-----------------------------------------------------------------------------
(* Calls, tasks and queues. *)

\* A call that was started keeps its connection, its operation, and its task.
LEMMA MoveEffect ==
  ASSUME TypeInv, NEW k \in Calls, NEW stage \in {"holding", "queued", "clearing", "ok", "err"},
         call[k].stage # "none", Move(k, stage)
  PROVE  /\ call'[k].stage = stage /\ call'[k].conn = call[k].conn
         /\ call'[k].op = call[k].op /\ call'[k].via = call[k].via
         /\ \A j \in Calls : j # k => call'[j] = call[j]
<1>1. call[k] \in Called
  BY CallFacts
<1>2. /\ call'[k] = [call[k] EXCEPT !.stage = stage] /\ \A j \in Calls : j # k => call'[j] = call[j]
  BY DEF Move, TypeInv
<1>3. QED
  BY <1>1, <1>2 DEF Called

\* What the end of a task does to its calls, its session and the pool.
LEMMA EndEffect ==
  ASSUME TypeInv, NEW t \in Tasks, EndTask(t)
  PROVE  /\ \A k \in Calls :
              /\ call'[k].conn = call[k].conn /\ call'[k].op = call[k].op /\ call'[k].via = call[k].via
              /\ call'[k].stage = IF call[k].stage = "queued" /\ call[k].via = t THEN "err"
                                  ELSE call[k].stage
         /\ task'[t].st = "ended" /\ queue'[t] = << >>
         /\ \A u \in Tasks : u # t => task'[u] = task[u] /\ queue'[u] = queue[u]
<1>1. ASSUME NEW k \in Calls
      PROVE  /\ call'[k].conn = call[k].conn /\ call'[k].op = call[k].op /\ call'[k].via = call[k].via
             /\ call'[k].stage = IF call[k].stage = "queued" /\ call[k].via = t THEN "err"
                                 ELSE call[k].stage
  <2>1. CASE call[k].stage = "queued" /\ call[k].via = t
    <3>1. call[k] \in Called /\ call'[k] = [call[k] EXCEPT !.stage = "err"]
      BY <2>1, CallFacts DEF EndTask
    <3>2. QED
      BY <2>1, <3>1 DEF Called
  <2>2. CASE ~(call[k].stage = "queued" /\ call[k].via = t)
    <3>1. call'[k] = call[k]
      BY <2>2 DEF EndTask
    <3>2. QED
      BY <2>2, <3>1
  <2>3. QED
    BY <2>1, <2>2
<1>2. QED
  BY <1>1 DEF EndTask, TypeInv

TakesHead(t, k) ==
  /\ k \in Calls /\ call[k].stage = "queued" /\ call[k].via = t /\ Began(k)
  /\ call'[k].stage \in {"ok", "err"} /\ call'[k].conn = call[k].conn
  /\ call'[k].op = call[k].op /\ call'[k].via = call[k].via
  /\ \A j \in Calls : j # k => call'[j] = call[j]
  /\ \A u \in Tasks : u # t => queue'[u] = queue[u]
  /\ Len(queue[t]) \in Nat /\ Len(queue'[t]) = Len(queue[t]) - 1 /\ queue[t][1] = k
  /\ \A i \in 1..Len(queue'[t]) :
       i + 1 \in 1..Len(queue[t]) /\ i + 1 # 1 /\ queue'[t][i] = queue[t][i + 1]

\* An answer takes the head of the queue.
LEMMA AnswerEffect ==
  ASSUME TypeInv, CallInv, NEW t \in Tasks, NEW k \in Calls, queue[t] # << >>, k = Head(queue[t]),
         queue' = [queue EXCEPT ![t] = Tail(@)], Move(k, "ok") \/ Move(k, "err"), ~Ends(k)
  PROVE  TakesHead(t, k)
<1>1. /\ k \in Calls /\ k = queue[t][1] /\ 1 \in 1..Len(queue[t]) /\ Len(queue[t]) \in Nat
      /\ Len(Tail(queue[t])) = Len(queue[t]) - 1
      /\ \A i \in 1..(Len(queue[t]) - 1) : Tail(queue[t])[i] = queue[t][i + 1]
  BY HeadFacts
<1>2. call[k].stage = "queued" /\ call[k].via = t /\ Began(k)
  BY <1>1 DEF CallInv
<1>3. /\ call'[k].stage \in {"ok", "err"} /\ call'[k].conn = call[k].conn
      /\ call'[k].op = call[k].op /\ call'[k].via = call[k].via
      /\ \A j \in Calls : j # k => call'[j] = call[j]
  BY <1>1, <1>2, MoveEffect
<1>4. queue'[t] = Tail(queue[t]) /\ \A u \in Tasks : u # t => queue'[u] = queue[u]
  BY DEF TypeInv
<1>5. \A i \in 1..(Len(queue[t]) - 1) : i + 1 \in 1..Len(queue[t]) /\ i + 1 # 1
  BY <1>1
<1>6. Len(queue'[t]) = Len(queue[t]) - 1
  BY <1>1, <1>4
<1>7. \A i \in 1..Len(queue'[t]) : queue'[t][i] = queue[t][i + 1]
  BY <1>1, <1>4, <1>6
<1>8. QED
  BY <1>1, <1>2, <1>3, <1>4, <1>5, <1>6, <1>7 DEF TakesHead

\* A step keeps the agreement of calls, tasks and queues.
LEMMA CallStepInv == TypeInv /\ TypeInv' /\ CallInv /\ [Next]_vars => CallInv'
<1> SUFFICES ASSUME TypeInv, TypeInv', CallInv, [Next]_vars PROVE CallInv'
  OBVIOUS
<1> USE DEF program, server, history, Tasks
<1>t. /\ slot \in [Conns -> Calls \cup {NoTask}] /\ NoTask \notin Calls
      /\ queue \in [Tasks -> Seq(Calls)] /\ \A t \in Tasks : Len(queue[t]) \in Nat
      /\ \A t \in Tasks : \A i \in 1..Len(queue[t]) : queue[t][i] \in Calls
      /\ \A k \in Calls : task[k] = NotSpawned => task[k].st = "none"
  <2>1. slot \in [Conns -> Calls \cup {NoTask}] /\ queue \in [Tasks -> Seq(Calls)]
    BY DEF TypeInv
  <2>2. NoTask \notin Calls
    BY PgAssumption DEF Calls, NoTask
  <2>3. /\ \A t \in Tasks : Len(queue[t]) \in Nat
        /\ \A t \in Tasks : \A i \in 1..Len(queue[t]) : queue[t][i] \in Calls
    BY <2>1
  <2>4. QED
    BY <2>1, <2>2, <2>3 DEF NotSpawned
<1>v. \A k \in Calls : Began(k) => call[k].via \in Calls \cup {NoTask} /\ call[k].conn \in Conns
  BY CallFacts DEF Began, Called
<1>0. ASSUME UNCHANGED <<slot, call, queue>>, \A u \in Tasks : task'[u] = task[u] \/ Began(u)
      PROVE  CallInv'
  BY <1>0 DEF CallInv, Began, Ends
<1>1. ASSUME NEW k \in Calls, NEW c \in Conns, NEW op \in Ops, Start(k, c, op) PROVE CallInv'
  <2>1. /\ call[k].stage = "none" /\ UNCHANGED <<slot, task, queue>>
        /\ call'[k] = [stage |-> "ready", conn |-> c, op |-> op, via |-> NoTask]
        /\ \A j \in Calls : j # k => call'[j] = call[j]
    BY <1>1 DEF Start, NoCall, TypeInv
  <2>2. \A j \in Calls : call'[j].stage \notin {"none", "ready"} <=> Began(j)
    BY <2>1 DEF Began
  <2>3. \A j \in Calls : Began(j) => call'[j] = call[j]
    BY <2>1 DEF Began
  <2>4. \A j \in Calls : Began(j) => (call'[j].op \in {"close", "release"} <=> Ends(j))
    BY <2>3 DEF Ends
  <2>5. call'[k].stage = "ready" /\ call'[k].via = NoTask
    BY <2>1
  <2>6. QED
    <3>1. \A j \in Calls : ~call'[j].stage \notin {"none", "ready"} => task'[j] = NotSpawned
      BY <2>1, <2>2 DEF CallInv
    <3>2. \A j \in Calls : call'[j].stage = "ready" => call'[j].via = NoTask
      BY <2>1, <2>5 DEF CallInv
    <3>3. \A j \in Calls : call'[j].stage \in {"holding", "queued", "clearing"} => call'[j].via # NoTask
      BY <2>1, <2>5 DEF CallInv
    <3>4. \A j \in Calls : call'[j].stage \notin {"none", "ready"} /\ call'[j].via # NoTask =>
            call'[call'[j].via].stage \notin {"none", "ready"} /\ call'[call'[j].via].conn = call'[j].conn
      <4>1. ASSUME NEW j \in Calls, Began(j), call'[j].via # NoTask
            PROVE  call'[call'[j].via].stage \notin {"none", "ready"} /\ call'[call'[j].via].conn = call'[j].conn
        <5>1. call'[j] = call[j] /\ call[j].via \in Calls
          BY <1>v, <2>3, <4>1
        <5>2. Began(call[j].via) /\ call[call[j].via].conn = call[j].conn
          BY <4>1, <5>1 DEF CallInv
        <5>3. QED
          BY <2>2, <2>3, <5>1, <5>2
      <4>2. QED
        BY <2>2, <4>1
    <3>5. \A d \in Conns : slot'[d] # NoTask => call'[slot'[d]].stage \notin {"none", "ready"} /\ call'[slot'[d]].conn = d
      <4>1. ASSUME NEW d \in Conns, slot[d] # NoTask
            PROVE  call'[slot[d]].stage \notin {"none", "ready"} /\ call'[slot[d]].conn = d
        BY SMTT(30), <1>t, <2>2, <2>3, <4>1 DEF CallInv
      <4>2. QED
        BY <2>1, <4>1
    <3>6. ASSUME NEW u \in Tasks, NEW i \in 1..Len(queue'[u])
          PROVE  /\ call'[queue'[u][i]].stage \notin {"none", "ready"}
                 /\ call'[queue'[u][i]].via = u /\ call'[queue'[u][i]].stage # "holding"
                 /\ \/ call'[queue'[u][i]].op \in {"close", "release"}
                    \/ call'[queue'[u][i]].stage = "queued"
                 /\ \A j \in 1..Len(queue'[u]) : queue'[u][i] = queue'[u][j] => i = j
      <4>1. /\ Began(queue[u][i]) /\ call[queue[u][i]].via = u
            /\ call[queue[u][i]].stage # "holding" /\ queue[u][i] \in Calls
            /\ Ends(queue[u][i]) \/ call[queue[u][i]].stage = "queued"
            /\ \A j \in 1..Len(queue[u]) : queue[u][i] = queue[u][j] => i = j
        BY <1>t, <2>1 DEF CallInv
      <4>2. QED
        BY <2>1, <2>3, <4>1 DEF Began, Ends
    <3>7. QED
      BY <3>1, <3>2, <3>3, <3>4, <3>5, <3>6 DEF CallInv, Began, Ends
<1>2. ASSUME NEW c \in Conns, DropConn(c) PROVE CallInv'
  BY <1>0, <1>2 DEF DropConn
<1>3. ASSUME NEW k \in Calls, EnsureSender(k) \/ ReadSlot(k) PROVE CallInv'
  <2> DEFINE c == call[k].conn
  <2>1. /\ call[k] \in Called /\ call[k].stage = "ready" /\ c \in Conns /\ UNCHANGED queue
        /\ slot[c] \in Calls \cup {NoTask} /\ task[k] = NotSpawned
    BY <1>3, <1>t, CallFacts DEF EnsureSender, ReadSlot, Called, CallInv, Began
  <2>2. PICK stage \in {"holding", "ok"}, via \in Calls \cup {NoTask} :
          /\ call' = [call EXCEPT ![k] = [call[k] EXCEPT !.stage = stage, !.via = via]]
          /\ stage = "holding" => via # NoTask
          /\ via # NoTask => via = slot[c] \/ (via = k /\ slot[c] = NoTask)
          /\ \A d \in Conns : slot'[d] = slot[d] \/ slot'[d] = NoTask \/ (d = c /\ slot'[d] = k)
          /\ \A u \in Tasks : u # k => task'[u] = task[u]
    <3>1. CASE EnsureSender(k)
      <4>1. /\ slot'[c] = IF slot[c] = NoTask THEN k ELSE slot[c]
            /\ \A d \in Conns : d # c => slot'[d] = slot[d]
            /\ \A u \in Tasks : u # k => task'[u] = task[u]
            /\ call' = [call EXCEPT ![k].stage = "holding", ![k].via = slot'[c]]
        BY <1>t, <2>1, <3>1 DEF EnsureSender, TypeInv
      <4>2. slot'[c] \in Calls /\ slot'[c] # NoTask
        BY <1>t, <2>1, <4>1
      <4>3. call' = [call EXCEPT ![k] = [call[k] EXCEPT !.stage = "holding", !.via = slot'[c]]]
        BY <4>1 DEF TypeInv
      <4>4. QED
        BY <1>t, <2>1, <4>1, <4>2, <4>3
    <3>2. CASE ReadSlot(k)
      <4>1. /\ \A d \in Conns : slot'[d] = slot[d] \/ slot'[d] = NoTask
            /\ UNCHANGED task
            /\ call' = [call EXCEPT ![k].stage = IF slot[c] = NoTask THEN "ok" ELSE "holding",
                                    ![k].via = slot[c]]
        BY <1>t, <2>1, <3>2 DEF ReadSlot
      <4>2. call' = [call EXCEPT ![k] = [call[k] EXCEPT !.stage = IF slot[c] = NoTask THEN "ok" ELSE "holding",
                                                        !.via = slot[c]]]
        BY <4>1 DEF TypeInv
      <4>3. CASE slot[c] = NoTask
        BY <2>1, <4>1, <4>2, <4>3
      <4>4. CASE slot[c] # NoTask
        BY <2>1, <4>1, <4>2, <4>4
      <4>5. QED
        BY <4>3, <4>4
    <3>3. QED
      BY <1>3, <3>1, <3>2
  <2>3. /\ call'[k].stage = stage /\ call'[k].conn = c /\ call'[k].op = call[k].op /\ call'[k].via = via
        /\ \A j \in Calls : j # k => call'[j] = call[j]
    <3>1. /\ call'[k] = [call[k] EXCEPT !.stage = stage, !.via = via]
          /\ \A j \in Calls : j # k => call'[j] = call[j]
      BY <2>2 DEF TypeInv
    <3>2. QED
      BY <2>1, <3>1 DEF Called
  <2> HIDE DEF c
  <2>4. /\ \A j \in Calls : Began(j) => call'[j] = call[j] /\ j # k
        /\ \A j \in Calls : call'[j].stage \notin {"none", "ready"} <=> Began(j) \/ j = k
    BY <2>1, <2>2, <2>3 DEF Began
  <2>5. \A j \in Calls : call'[j].stage \in {"none", "ready"} => task'[j] = NotSpawned
    BY <2>2, <2>4 DEF CallInv
  <2>6. /\ \A j \in Calls : call'[j].stage = "ready" => call'[j].via = NoTask
        /\ \A j \in Calls : call'[j].stage \in {"holding", "queued", "clearing"} => call'[j].via # NoTask
    BY <2>2, <2>3 DEF CallInv
  <2>s. slot[c] # NoTask => Began(slot[c]) /\ call[slot[c]].conn = c /\ slot[c] \in Calls
    BY <1>t, <2>1 DEF CallInv, c
  <2>7. ASSUME NEW j \in Calls, call'[j].stage \notin {"none", "ready"}, call'[j].via # NoTask
        PROVE  /\ call'[call'[j].via].stage \notin {"none", "ready"}
               /\ call'[call'[j].via].conn = call'[j].conn
    <3>1. CASE j = k
      <4>1. call'[j].via = via /\ via # NoTask
        BY <2>3, <2>7, <3>1
      <4>2. CASE via = slot[c]
        BY <2>3, <2>4, <2>s, <3>1, <4>1, <4>2
      <4>3. CASE via = k
        BY <2>3, <2>4, <3>1, <4>1, <4>3
      <4>4. QED
        BY <2>2, <4>1, <4>2, <4>3
    <3>2. CASE j # k
      <4>1. Began(j) /\ call'[j] = call[j] /\ call[j].via \in Calls
        BY <1>v, <2>3, <2>4, <2>7, <3>2
      <4>2. Began(call[j].via) /\ call[call[j].via].conn = call[j].conn
        BY <2>7, <4>1 DEF CallInv
      <4>3. QED
        BY <2>4, <4>1, <4>2
    <3>3. QED
      BY <3>1, <3>2
  <2>8. ASSUME NEW d \in Conns, slot'[d] # NoTask
        PROVE  call'[slot'[d]].stage \notin {"none", "ready"} /\ call'[slot'[d]].conn = d
    <3>1. CASE slot'[d] = slot[d]
      <4>1. slot[d] \in Calls /\ Began(slot[d]) /\ call[slot[d]].conn = d
        BY <1>t, <2>8, <3>1 DEF CallInv
      <4>2. QED
        BY <2>4, <3>1, <4>1
    <3>2. CASE d = c /\ slot'[d] = k
      BY <2>3, <2>4, <3>2
    <3>3. QED
      BY <2>2, <2>8, <3>1, <3>2
  <2>9. ASSUME NEW u \in Tasks, NEW i \in 1..Len(queue'[u])
        PROVE  /\ call'[queue'[u][i]].stage \notin {"none", "ready"}
               /\ call'[queue'[u][i]].via = u /\ call'[queue'[u][i]].stage # "holding"
               /\ \/ call'[queue'[u][i]].op \in {"close", "release"}
                  \/ call'[queue'[u][i]].stage = "queued"
               /\ \A j \in 1..Len(queue'[u]) : queue'[u][i] = queue'[u][j] => i = j
    <3>1. /\ Began(queue[u][i]) /\ call[queue[u][i]].via = u
          /\ call[queue[u][i]].stage # "holding" /\ queue[u][i] \in Calls
          /\ Ends(queue[u][i]) \/ call[queue[u][i]].stage = "queued"
          /\ \A j \in 1..Len(queue[u]) : queue[u][i] = queue[u][j] => i = j
      BY <1>t, <2>1 DEF CallInv
    <3>2. QED
      BY <2>1, <2>4, <3>1 DEF Began, Ends
  <2>10. QED
    BY <2>5, <2>6, <2>7, <2>8, <2>9 DEF CallInv, Began, Ends
<1>4. ASSUME NEW k \in Calls, Send(k) PROVE CallInv'
  <2> DEFINE t == call[k].via
  <2>1. /\ call[k].stage = "holding" /\ queue' = [queue EXCEPT ![t] = Append(@, k)]
        /\ UNCHANGED <<slot, task>> /\ Move(k, AfterSend(call[k].op))
    BY <1>4 DEF Send
  <2>t. t \in Tasks
    BY <1>v, <2>1 DEF CallInv, Began
  <2>2. /\ AfterSend(call[k].op) \in {"ok", "clearing", "queued"}
        /\ Ends(k) \/ AfterSend(call[k].op) = "queued"
    BY DEF AfterSend, Ends
  <2>3. /\ call'[k].stage \in {"ok", "clearing", "queued"} /\ (Ends(k) \/ call'[k].stage = "queued")
        /\ \A j \in Calls : call'[j].conn = call[j].conn /\ call'[j].op = call[j].op
                            /\ call'[j].via = call[j].via /\ (j # k => call'[j] = call[j])
    BY <2>1, <2>2, MoveEffect
  <2>q. /\ \A u \in Tasks : u # t => queue'[u] = queue[u]
        /\ Len(queue'[t]) = Len(queue[t]) + 1 /\ queue'[t][Len(queue[t]) + 1] = k
        /\ \A i \in 1..Len(queue[t]) : queue'[t][i] = queue[t][i]
    <3>1. queue'[t] = Append(queue[t], k) /\ queue[t] \in Seq(Calls)
      BY <1>t, <2>1, <2>t
    <3>2. QED
      BY <1>t, <2>1, <3>1
  <2> HIDE DEF t
  <2>v. call[k].via = t
    BY DEF t
  <2>4. \A j \in Calls : call'[j].stage \notin {"none", "ready"} <=> Began(j)
    BY <2>1, <2>3 DEF Began
  <2>5. /\ \A j \in Calls : call'[j].stage \in {"none", "ready"} => task'[j] = NotSpawned
        /\ \A j \in Calls : call'[j].stage = "ready" => call'[j].via = NoTask
        /\ \A j \in Calls : call'[j].stage \in {"holding", "queued", "clearing"} => call'[j].via # NoTask
    BY <2>1, <2>3, <2>4 DEF CallInv
  <2>6. ASSUME NEW j \in Calls, Began(j), call[j].via # NoTask
        PROVE  call'[call[j].via].stage \notin {"none", "ready"} /\ call'[call[j].via].conn = call[j].conn
    BY <1>v, <2>3, <2>4, <2>6 DEF CallInv
  <2>7. ASSUME NEW d \in Conns, slot[d] # NoTask
        PROVE  call'[slot[d]].stage \notin {"none", "ready"} /\ call'[slot[d]].conn = d
    <3>1. slot[d] \in Calls /\ Began(slot[d]) /\ call[slot[d]].conn = d
      BY <1>t, <2>7 DEF CallInv
    <3>2. QED
      BY <2>3, <2>4, <3>1
  <2>8. ASSUME NEW u \in Tasks, NEW i \in 1..Len(queue[u])
        PROVE  /\ call'[queue[u][i]].stage \notin {"none", "ready"}
               /\ call'[queue[u][i]].via = u /\ call'[queue[u][i]].stage # "holding"
               /\ \/ call'[queue[u][i]].op \in {"close", "release"}
                  \/ call'[queue[u][i]].stage = "queued"
               /\ queue[u][i] # k
               /\ \A j \in 1..Len(queue[u]) : queue[u][i] = queue[u][j] => i = j
    <3>1. /\ Began(queue[u][i]) /\ call[queue[u][i]].via = u
          /\ call[queue[u][i]].stage # "holding" /\ queue[u][i] \in Calls
          /\ Ends(queue[u][i]) \/ call[queue[u][i]].stage = "queued"
          /\ \A j \in 1..Len(queue[u]) : queue[u][i] = queue[u][j] => i = j
      BY <1>t DEF CallInv
    <3>2. queue[u][i] # k
      BY <2>1, <3>1
    <3>3. QED
      BY <2>3, <2>4, <3>1, <3>2 DEF Began, Ends
  <2>9. ASSUME NEW u \in Tasks, NEW i \in 1..Len(queue'[u])
        PROVE  /\ call'[queue'[u][i]].stage \notin {"none", "ready"}
               /\ call'[queue'[u][i]].via = u /\ call'[queue'[u][i]].stage # "holding"
               /\ \/ call'[queue'[u][i]].op \in {"close", "release"}
                  \/ call'[queue'[u][i]].stage = "queued"
               /\ \A j \in 1..Len(queue'[u]) : queue'[u][i] = queue'[u][j] => i = j
    <3>1. CASE u # t
      BY <2>8, <2>q, <3>1
    <3>2. CASE u = t /\ i = Len(queue[t]) + 1
      <4>1. queue'[u][i] = k
        BY <2>q, <3>2
      <4>2. \A j \in 1..Len(queue'[t]) : j # i => queue'[t][j] # k
        <5>1. \A j \in 1..Len(queue'[t]) : j # i => j \in 1..Len(queue[t])
          BY <1>t, <2>t, <2>q, <3>2
        <5>2. QED
          BY <2>t, <2>8, <2>q, <5>1
      <4>3. QED
        BY <2>1, <2>3, <2>4, <2>v, <3>2, <4>1, <4>2 DEF Ends
    <3>3. CASE u = t /\ i # Len(queue[t]) + 1
      <4>1. i \in 1..Len(queue[t]) /\ queue'[t][i] = queue[t][i]
        BY <1>t, <2>t, <2>q, <3>3
      <4>2. ASSUME NEW j \in 1..Len(queue'[t]), queue'[t][i] = queue'[t][j] PROVE i = j
        <5>1. queue[t][i] # k
          BY <2>t, <2>8, <4>1
        <5>2. j # Len(queue[t]) + 1
          BY <2>q, <4>1, <4>2, <5>1
        <5>3. j \in 1..Len(queue[t]) /\ queue'[t][j] = queue[t][j]
          BY <1>t, <2>t, <2>q, <5>2
        <5>4. \A m \in 1..Len(queue[t]) : queue[t][i] = queue[t][m] => i = m
          BY <2>t, <2>8, <4>1
        <5>5. queue[t][i] = queue[t][j]
          BY <4>1, <4>2, <5>3
        <5>6. QED
          BY <5>3, <5>4, <5>5
      <4>3. QED
        BY <2>t, <2>8, <3>3, <4>1, <4>2
    <3>4. QED
      BY <3>1, <3>2, <3>3
  <2>10. QED
    <3>1. \A d \in Conns : slot'[d] # NoTask =>
            call'[slot'[d]].stage \notin {"none", "ready"} /\ call'[slot'[d]].conn = d
      BY <2>1, <2>7
    <3>2. \A j \in Calls : call'[j].stage \notin {"none", "ready"} /\ call'[j].via # NoTask =>
            call'[call'[j].via].stage \notin {"none", "ready"} /\ call'[call'[j].via].conn = call'[j].conn
      BY <2>3, <2>4, <2>6
    <3>3. QED
      BY <2>5, <2>9, <3>1, <3>2 DEF CallInv, Began, Ends
<1>5. ASSUME NEW k \in Calls, SendFails(k) \/ ClearSlot(k) PROVE CallInv'
  <2>1. /\ call[k].stage \in {"holding", "clearing"} /\ UNCHANGED <<task, queue>>
        /\ \A d \in Conns : slot'[d] = slot[d] \/ slot'[d] = NoTask
    BY <1>5, <1>t DEF SendFails, ClearSlot
  <2>2. \E stage \in {"ok", "clearing", "err"} : Move(k, stage)
    BY <1>5 DEF SendFails, ClearSlot, AfterSend
  <2>3. /\ call'[k].stage \in {"ok", "clearing", "err"}
        /\ \A j \in Calls : call'[j].conn = call[j].conn /\ call'[j].op = call[j].op
                            /\ call'[j].via = call[j].via /\ (j # k => call'[j] = call[j])
    BY <2>1, <2>2, MoveEffect
  <2>4. \A j \in Calls : call'[j].stage \notin {"none", "ready"} <=> Began(j)
    BY <2>1, <2>3 DEF Began
  <2>5. /\ \A j \in Calls : call'[j].stage \in {"none", "ready"} => task'[j] = NotSpawned
        /\ \A j \in Calls : call'[j].stage = "ready" => call'[j].via = NoTask
        /\ \A j \in Calls : call'[j].stage \in {"holding", "queued", "clearing"} => call'[j].via # NoTask
    BY <2>1, <2>3, <2>4 DEF CallInv
  <2>6. ASSUME NEW j \in Calls, Began(j), call[j].via # NoTask
        PROVE  call'[call[j].via].stage \notin {"none", "ready"} /\ call'[call[j].via].conn = call[j].conn
    BY <1>v, <2>3, <2>4, <2>6 DEF CallInv
  <2>7. ASSUME NEW d \in Conns, slot[d] # NoTask
        PROVE  call'[slot[d]].stage \notin {"none", "ready"} /\ call'[slot[d]].conn = d
    <3>1. slot[d] \in Calls /\ Began(slot[d]) /\ call[slot[d]].conn = d
      BY <1>t, <2>7 DEF CallInv
    <3>2. QED
      BY <2>3, <2>4, <3>1
  <2>8. ASSUME NEW u \in Tasks, NEW i \in 1..Len(queue[u])
        PROVE  /\ call'[queue[u][i]].stage \notin {"none", "ready"}
               /\ call'[queue[u][i]].via = u /\ call'[queue[u][i]].stage # "holding"
               /\ \/ call'[queue[u][i]].op \in {"close", "release"}
                  \/ call'[queue[u][i]].stage = "queued"
               /\ \A j \in 1..Len(queue[u]) : queue[u][i] = queue[u][j] => i = j
    <3>1. /\ Began(queue[u][i]) /\ call[queue[u][i]].via = u
          /\ call[queue[u][i]].stage # "holding" /\ queue[u][i] \in Calls
          /\ Ends(queue[u][i]) \/ call[queue[u][i]].stage = "queued"
          /\ \A j \in 1..Len(queue[u]) : queue[u][i] = queue[u][j] => i = j
      BY <1>t DEF CallInv
    <3>2. call[queue[u][i]].stage = "queued" => queue[u][i] # k
      BY <2>1
    <3>3. QED
      BY <2>3, <2>4, <3>1, <3>2 DEF Began, Ends
  <2>9. QED
    <3>1. \A d \in Conns : slot'[d] # NoTask =>
            call'[slot'[d]].stage \notin {"none", "ready"} /\ call'[slot'[d]].conn = d
      BY <2>1, <2>7
    <3>2. \A j \in Calls : call'[j].stage \notin {"none", "ready"} /\ call'[j].via # NoTask =>
            call'[call'[j].via].stage \notin {"none", "ready"} /\ call'[call'[j].via].conn = call'[j].conn
      BY <2>3, <2>4, <2>6
    <3>3. QED
      BY <2>1, <2>5, <2>8, <3>1, <3>2 DEF CallInv, Began, Ends
<1>6. ASSUME NEW t \in Tasks, Acquire(t) \/ AcquireFails(t) PROVE CallInv'
  <2>1. UNCHANGED <<slot, call, queue>> /\ task[t].st # "none"
        /\ \A u \in Tasks : u # t => task'[u] = task[u]
    BY <1>6 DEF Acquire, AcquireFails, TypeInv
  <2>2. Began(t)
    BY <1>t, <2>1 DEF CallInv
  <2>3. QED
    BY <1>0, <2>1, <2>2
<1>7. ASSUME NEW t \in Tasks, NEW k \in Calls, queue[t] # << >>, k = Head(queue[t]), ~Ends(k),
             queue' = [queue EXCEPT ![t] = Tail(@)], Move(k, "ok") \/ Move(k, "err"), UNCHANGED slot,
             task[t].st # "none", \A u \in Tasks : u # t => task'[u] = task[u]
      PROVE  CallInv'
  <2>1. /\ k \in Calls /\ call[k].stage = "queued" /\ call[k].via = t /\ Began(k)
        /\ call'[k].stage \in {"ok", "err"}
        /\ \A j \in Calls : call'[j].conn = call[j].conn /\ call'[j].op = call[j].op
                            /\ call'[j].via = call[j].via /\ (j # k => call'[j] = call[j])
        /\ \A u \in Tasks : u # t => queue'[u] = queue[u]
        /\ Len(queue[t]) \in Nat /\ Len(queue'[t]) = Len(queue[t]) - 1 /\ queue[t][1] = k
        /\ \A i \in 1..Len(queue'[t]) :
             i + 1 \in 1..Len(queue[t]) /\ i + 1 # 1 /\ queue'[t][i] = queue[t][i + 1]
    <3>1. TakesHead(t, k)
      BY <1>7, AnswerEffect
    <3>2. QED
      BY <3>1 DEF TakesHead
  <2>2. Began(t) /\ \A j \in Calls : call'[j].stage \notin {"none", "ready"} <=> Began(j)
    <3>1. Began(t)
      BY <1>7, <1>t DEF CallInv
    <3>2. QED
      BY <2>1, <3>1 DEF Began
  <2>3. \A j \in Calls : call'[j].op \in {"close", "release"} <=> Ends(j)
    BY <2>1 DEF Ends
  <2>5. \A j \in Calls : ~call'[j].stage \notin {"none", "ready"} => task'[j] = NotSpawned
    BY <1>7, <2>1, <2>2 DEF CallInv
  <2>6. /\ \A j \in Calls : call'[j].stage = "ready" => call'[j].via = NoTask
        /\ \A j \in Calls : call'[j].stage \in {"holding", "queued", "clearing"} => call'[j].via # NoTask
    BY <2>1 DEF CallInv
  <2>7. \A j \in Calls : call'[j].stage \notin {"none", "ready"} /\ call'[j].via # NoTask =>
          call'[call'[j].via].stage \notin {"none", "ready"} /\ call'[call'[j].via].conn = call'[j].conn
    <3>1. ASSUME NEW j \in Calls, Began(j), call[j].via # NoTask
          PROVE  call'[call[j].via].stage \notin {"none", "ready"} /\ call'[call[j].via].conn = call[j].conn
      BY <1>v, <2>1, <2>2, <3>1 DEF CallInv
    <3>2. QED
      BY <2>1, <2>2, <3>1
  <2>8. \A c \in Conns : slot'[c] # NoTask => call'[slot'[c]].stage \notin {"none", "ready"} /\ call'[slot'[c]].conn = c
    <3>1. ASSUME NEW c \in Conns, slot[c] # NoTask PROVE call'[slot[c]].stage \notin {"none", "ready"} /\ call'[slot[c]].conn = c
      BY <1>t, <2>1, <2>2, <3>1 DEF CallInv
    <3>2. QED
      BY <1>7, <3>1
  <2>9. ASSUME NEW u \in Tasks, NEW i \in 1..Len(queue'[u])
        PROVE  /\ call'[queue'[u][i]].stage \notin {"none", "ready"} /\ call'[queue'[u][i]].via = u
               /\ call'[queue'[u][i]].stage # "holding"
               /\ call'[queue'[u][i]].op \in {"close", "release"} \/ call'[queue'[u][i]].stage = "queued"
               /\ \A j \in 1..Len(queue'[u]) : queue'[u][i] = queue'[u][j] => i = j
    <3>1. CASE u # t
      <4>1. /\ Began(queue[u][i]) /\ call[queue[u][i]].via = u
            /\ call[queue[u][i]].stage # "holding" /\ queue[u][i] \in Calls
            /\ Ends(queue[u][i]) \/ call[queue[u][i]].stage = "queued"
            /\ \A j \in 1..Len(queue[u]) : queue[u][i] = queue[u][j] => i = j
        BY <1>t, <2>1, <3>1 DEF CallInv
      <4>2. queue[u][i] # k
        BY <2>1, <3>1, <4>1
      <4>3. QED
        BY <2>1, <2>2, <2>3, <3>1, <4>1, <4>2
    <3>2. CASE u = t
      <4>1. /\ i + 1 \in 1..Len(queue[t]) /\ i + 1 # 1 /\ queue'[t][i] = queue[t][i + 1]
        BY <2>1, <3>2
      <4>2. /\ Began(queue[t][i + 1]) /\ call[queue[t][i + 1]].via = t
            /\ call[queue[t][i + 1]].stage # "holding" /\ queue[t][i + 1] \in Calls
            /\ Ends(queue[t][i + 1]) \/ call[queue[t][i + 1]].stage = "queued"
            /\ \A j \in 1..Len(queue[t]) : queue[t][i + 1] = queue[t][j] => i + 1 = j
        BY <1>t, <4>1 DEF CallInv
      <4>3. queue[t][i + 1] # k
        <5>1. 1 \in 1..Len(queue[t])
          BY <2>1, <4>1
        <5>2. QED
          BY <2>1, <4>1, <4>2, <5>1
      <4>4. \A j \in 1..Len(queue'[t]) : queue'[t][i] = queue'[t][j] => i = j
        BY <2>1, <4>1, <4>2
      <4>5. QED
        BY <2>1, <2>2, <2>3, <3>2, <4>1, <4>2, <4>3, <4>4
    <3>3. QED
      BY <3>1, <3>2
  <2>10. QED
    BY <2>5, <2>6, <2>7, <2>8, <2>9 DEF CallInv, Began, Ends
<1>8. ASSUME NEW t \in Tasks, EndTask(t), UNCHANGED slot, task[t].st # "none" PROVE CallInv'
  <2>1. /\ \A k \in Calls : /\ call'[k].conn = call[k].conn /\ call'[k].op = call[k].op
                            /\ call'[k].via = call[k].via
                            /\ call'[k].stage = call[k].stage
                               \/ (call[k].stage = "queued" /\ call[k].via = t /\ call'[k].stage = "err")
        /\ task'[t].st = "ended" /\ queue'[t] = << >>
        /\ \A u \in Tasks : u # t => task'[u] = task[u] /\ queue'[u] = queue[u]
    <3>1. \A k \in Calls : /\ call'[k].conn = call[k].conn /\ call'[k].op = call[k].op
                           /\ call'[k].via = call[k].via
                           /\ call'[k].stage = IF call[k].stage = "queued" /\ call[k].via = t THEN "err"
                                               ELSE call[k].stage
      BY <1>8, EndEffect
    <3>2. /\ task'[t].st = "ended" /\ queue'[t] = << >>
          /\ \A u \in Tasks : u # t => task'[u] = task[u] /\ queue'[u] = queue[u]
      BY <1>8, EndEffect
    <3>3. ASSUME NEW k \in Calls
          PROVE  call'[k].stage = call[k].stage
                 \/ (call[k].stage = "queued" /\ call[k].via = t /\ call'[k].stage = "err")
      <4>1. CASE call[k].stage = "queued" /\ call[k].via = t
        BY <3>1, <4>1
      <4>2. CASE ~(call[k].stage = "queued" /\ call[k].via = t)
        <5>1. call'[k].stage = IF call[k].stage = "queued" /\ call[k].via = t THEN "err"
                               ELSE call[k].stage
          BY <3>1
        <5>2. call'[k].stage = call[k].stage
          BY <4>2, <5>1, Zenon
        <5>3. QED
          BY <5>2
      <4>3. QED
        BY <4>1, <4>2
    <3>4. QED
      BY <3>1, <3>2, <3>3
  <2>2. Began(t) /\ \A k \in Calls : call'[k].stage \notin {"none", "ready"} <=> Began(k)
    <3>1. Began(t)
      BY <1>8, <1>t DEF CallInv
    <3>2. QED
      BY <2>1, <3>1 DEF Began
  <2>3. \A k \in Calls : call'[k].op \in {"close", "release"} <=> Ends(k)
    BY <2>1 DEF Ends
  <2>4. \A k \in Calls : Began(k) => call[k].via \in Calls \cup {NoTask}
    BY <1>v
  <2>5. \A k \in Calls : ~call'[k].stage \notin {"none", "ready"} => task'[k] = NotSpawned
    BY <2>1, <2>2 DEF CallInv
  <2>6. /\ \A k \in Calls : call'[k].stage = "ready" => call'[k].via = NoTask
        /\ \A k \in Calls : call'[k].stage \in {"holding", "queued", "clearing"} => call'[k].via # NoTask
    BY <2>1 DEF CallInv
  <2>7. \A k \in Calls : call'[k].stage \notin {"none", "ready"} /\ call'[k].via # NoTask =>
          call'[call'[k].via].stage \notin {"none", "ready"} /\ call'[call'[k].via].conn = call'[k].conn
    <3>1. ASSUME NEW k \in Calls, Began(k), call[k].via # NoTask
          PROVE  call'[call[k].via].stage \notin {"none", "ready"} /\ call'[call[k].via].conn = call[k].conn
      BY <2>1, <2>2, <2>4, <3>1 DEF CallInv
    <3>2. QED
      BY <2>1, <2>2, <3>1
  <2>8. \A c \in Conns : slot'[c] # NoTask => call'[slot'[c]].stage \notin {"none", "ready"} /\ call'[slot'[c]].conn = c
    <3>1. ASSUME NEW c \in Conns, slot[c] # NoTask PROVE call'[slot[c]].stage \notin {"none", "ready"} /\ call'[slot[c]].conn = c
      BY <1>t, <2>1, <2>2, <3>1 DEF CallInv
    <3>2. QED
      BY <1>8, <3>1
  <2>9. ASSUME NEW u \in Tasks, NEW i \in 1..Len(queue'[u])
        PROVE  /\ call'[queue'[u][i]].stage \notin {"none", "ready"} /\ call'[queue'[u][i]].via = u
               /\ call'[queue'[u][i]].stage # "holding"
               /\ call'[queue'[u][i]].op \in {"close", "release"} \/ call'[queue'[u][i]].stage = "queued"
               /\ \A j \in 1..Len(queue'[u]) : queue'[u][i] = queue'[u][j] => i = j
    <3>1. u # t
      BY <2>1
    <3>2. /\ Began(queue[u][i]) /\ call[queue[u][i]].via = u
          /\ call[queue[u][i]].stage # "holding" /\ queue[u][i] \in Calls
          /\ Ends(queue[u][i]) \/ call[queue[u][i]].stage = "queued"
          /\ \A j \in 1..Len(queue[u]) : queue[u][i] = queue[u][j] => i = j
      BY <1>t, <2>1, <3>1 DEF CallInv
    <3>3. QED
      BY <2>1, <2>2, <2>3, <3>1, <3>2
  <2>10. QED
    BY <2>5, <2>6, <2>7, <2>8, <2>9 DEF CallInv, Began, Ends
<1>9. ASSUME NEW t \in Tasks, NEW k \in Calls, Serve(t, k) PROVE CallInv'
  BY <1>7, <1>9 DEF Serve
<1>10. ASSUME NEW t \in Tasks, TaskStep(t) PROVE CallInv'
  <2>1. ASSUME NEW k \in Calls, NEW op \in Statements, Execute(t, k, op) PROVE CallInv'
    BY <1>9, <2>1, ExecuteEffect
  <2>2. ASSUME NEW k \in Calls, Commit(t, k) \/ Rollback(t, k) PROVE CallInv'
    BY <1>9, <2>2, CommitEffect, RollbackEffect
  <2>3. ASSUME NEW k \in Calls, NEW value \in BOOLEAN, SetAutoCommit(t, k, value) PROVE CallInv'
    BY <1>9, <2>3, SetAutoCommitEffect
  <2>4. CASE Close(t) \/ SendersGone(t)
    BY <1>8, <2>4 DEF Close, SendersGone
  <2>5. CASE Drain(t)
    <3>1. CASE EndTask(t)
      BY <1>8, <2>5, <3>1 DEF Drain
    <3>2. CASE Answer(t, Head(queue[t]), FALSE) /\ UNCHANGED task /\ ~Ends(Head(queue[t]))
      BY <1>7, <2>5, <3>2, HeadFacts DEF Drain, Answer
    <3>3. QED
      BY <2>5, <3>1, <3>2 DEF Drain, Ends
  <2>6. QED
    BY <1>10, <2>1, <2>2, <2>3, <2>4, <2>5 DEF TaskStep
<1>11. ASSUME NEW s \in Sessions, BreakSession(s) PROVE CallInv'
  BY <1>0, <1>11 DEF BreakSession
<1>12. CASE UNCHANGED vars
  BY <1>0, <1>12 DEF vars
<1>13. QED
  BY <1>1, <1>2, <1>3, <1>4, <1>5, <1>6, <1>10, <1>11, <1>12 DEF Next, CallStep

-----------------------------------------------------------------------------
(* The session and the flag. *)

\* A task in service, and what SessionInv says of it.
LEMMA ServingFacts ==
  ASSUME TypeInv, SessionInv, NEW t \in Tasks, task[t].st = "serving"
  PROVE  /\ t \in Serving /\ task[t] \in Working /\ task[t].session \in Sessions
         /\ task[t].session \notin free
         /\ task[t].inTxn \in BOOLEAN /\ task[t].auto \in BOOLEAN /\ task[t].clean \in BOOLEAN
         /\ txn[task[t].session] \in {"idle", "open", "aborted", "broken"}
         /\ held[task[t].session] \subseteq Writes /\ task[t].ours \subseteq Writes
         /\ task[t].clean /\ ~task[t].inTxn => txn[task[t].session] \in {"idle", "broken"}
         /\ task[t].inTxn => ~task[t].auto /\ txn[task[t].session] # "idle"
         /\ task[t].inTxn /\ txn[task[t].session] # "broken" => task[t].ours \subseteq held[task[t].session]
         /\ ~task[t].inTxn => task[t].ours = {}
         /\ held[task[t].session] # {} => txn[task[t].session] = "open"
<1>1. t \in Serving /\ task[t] \in Working
  BY TaskFacts DEF Serving
<1>2. /\ task[t].session \in Sessions /\ task[t].inTxn \in BOOLEAN /\ task[t].auto \in BOOLEAN
      /\ task[t].clean \in BOOLEAN /\ task[t].ours \subseteq Writes
  BY <1>1 DEF Working
<1>3. /\ txn[task[t].session] \in {"idle", "open", "aborted", "broken"}
      /\ held[task[t].session] \subseteq Writes
  BY <1>2 DEF TypeInv
<1>4. QED
  BY <1>1, <1>2, <1>3 DEF SessionInv

\* What a statement leaves of its transaction.
LEMMA ExecuteLeaves ==
  ASSUME TypeInv, SessionInv, NEW t \in Tasks, task[t].st = "serving",
         NEW k, NEW done, NEW ok \in BOOLEAN, Executed(t, k, done, ok)
  PROVE  LET s == task[t].session IN
         /\ task[t].clean /\ ~task'[t].inTxn => txn'[s] \in {"idle", "broken"}
         /\ task'[t].inTxn => ~task'[t].auto /\ txn'[s] # "idle"
         /\ task'[t].inTxn /\ txn'[s] # "broken" => task'[t].ours \subseteq held'[s]
         /\ ~task'[t].inTxn => task'[t].ours = {}
         /\ held'[s] # {} => txn'[s] = "open"
<1> DEFINE s == task[t].session
<1>1. /\ task[t].inTxn \in BOOLEAN /\ task[t].auto \in BOOLEAN /\ task[t].clean \in BOOLEAN
      /\ txn[s] \in {"idle", "open", "aborted", "broken"}
      /\ task[t].clean /\ ~task[t].inTxn => txn[s] \in {"idle", "broken"}
      /\ task[t].inTxn => ~task[t].auto /\ txn[s] # "idle"
      /\ task[t].inTxn /\ txn[s] # "broken" => task[t].ours \subseteq held[s]
      /\ ~task[t].inTxn => task[t].ours = {}
      /\ held[s] # {} => txn[s] = "open"
  BY ServingFacts
<1>2. /\ AfterBegin(t) = IF ~task[t].auto /\ ~task[t].inTxn /\ txn[s] = "idle" THEN "open" ELSE txn[s]
      /\ BeginFails(t) <=> ~task[t].auto /\ ~task[t].inTxn /\ txn[s] \in {"aborted", "broken"}
      /\ NeedsBegin(t) <=> ~task[t].auto /\ ~task[t].inTxn
  BY DEF AfterBegin, BeginFails, NeedsBegin
<1>3. /\ task'[t].auto = task[t].auto
      /\ task'[t].inTxn <=> (task[t].inTxn \/ (NeedsBegin(t) /\ ~BeginFails(t)))
      /\ \/ /\ AfterBegin(t) = "idle" /\ txn'[s] = "idle" /\ held'[s] = held[s]
            /\ task'[t].ours = task[t].ours \/ task'[t].inTxn
         \/ /\ AfterBegin(t) = "open" /\ txn'[s] = "open" /\ held'[s] = held[s] \cup done
            /\ task'[t].ours = IF task'[t].inTxn THEN task[t].ours \cup done ELSE task[t].ours
         \/ /\ AfterBegin(t) = "open" /\ txn'[s] = "aborted" /\ held'[s] = {}
            /\ task'[t].ours = IF task'[t].inTxn THEN {} ELSE task[t].ours
         \/ /\ AfterBegin(t) \in {"aborted", "broken"} /\ txn'[s] = txn[s] /\ held'[s] = held[s]
            /\ task'[t].ours = IF task'[t].inTxn THEN {} ELSE task[t].ours
  BY DEF Executed
<1> HIDE DEF s
<1>4. QED
  <2>1. task[t].clean /\ ~task'[t].inTxn => txn'[s] \in {"idle", "broken"}
    BY <1>1, <1>2, <1>3
  <2>2. task'[t].inTxn => ~task'[t].auto /\ txn'[s] # "idle"
    BY <1>1, <1>2, <1>3
  <2>3. task'[t].inTxn /\ txn'[s] # "broken" => task'[t].ours \subseteq held'[s]
    BY <1>1, <1>2, <1>3
  <2>4. ~task'[t].inTxn => task'[t].ours = {}
    BY <1>1, <1>2, <1>3
  <2>5. held'[s] # {} => txn'[s] = "open"
    BY <1>1, <1>2, <1>3
  <2>6. QED
    BY <2>1, <2>2, <2>3, <2>4, <2>5 DEF s

\* A step keeps the agreement of the flags and the sessions.
LEMMA SessionStep == TypeInv /\ TypeInv' /\ CallInv /\ SessionInv /\ [Next]_vars => SessionInv'
<1> SUFFICES ASSUME TypeInv, TypeInv', CallInv, SessionInv, [Next]_vars PROVE SessionInv'
  OBVIOUS
<1> USE DEF program, server, history, Tasks
<1>0. ASSUME UNCHANGED <<free, txn, held>>, \A u \in Tasks : task'[u] = task[u] \/ (task[u].st # "serving" /\ task'[u].st # "serving")
      PROVE  SessionInv'
  <2>1. Serving' = Serving /\ \A t \in Serving : task'[t] = task[t]
    BY <1>0 DEF Serving
  <2>2. QED
    BY <1>0, <2>1 DEF SessionInv
<1>1. ASSUME NEW t \in Tasks, NEW k \in Calls, Serve(t, k),
             task[t].clean /\ ~task'[t].inTxn => txn'[task[t].session] \in {"idle", "broken"},
             task'[t].inTxn => ~task'[t].auto /\ txn'[task[t].session] # "idle",
             task'[t].inTxn /\ txn'[task[t].session] # "broken" => task'[t].ours \subseteq held'[task[t].session],
             ~task'[t].inTxn => task'[t].ours = {},
             held'[task[t].session] # {} => txn'[task[t].session] = "open"
      PROVE  SessionInv'
  <2>1. /\ task[t].st = "serving" /\ task'[t].st = "serving" /\ UNCHANGED free
        /\ \A u \in Tasks : u # t => task'[u] = task[u]
        /\ task'[t].session = task[t].session /\ task'[t].clean = task[t].clean
        /\ \A s \in Sessions : s # task[t].session => txn'[s] = txn[s] /\ held'[s] = held[s]
    BY <1>1 DEF Serve, Touches, Working
  <2>2. Serving' = Serving /\ \A u \in Serving : u \in Tasks /\ task[u].st = "serving" /\ task'[u].session = task[u].session
    BY <2>1 DEF Serving
  <2>3. \A u \in Serving : task[u].session \in Sessions /\ (u # t => task[u].session # task[t].session)
    BY <2>1, <2>2, ServingFacts DEF SessionInv
  <2>4. /\ \A u \in Serving : task'[u].session \notin free'
        /\ \A u, v \in Serving : task'[u].session = task'[v].session => u = v
    BY <2>1, <2>2 DEF SessionInv
  <2>5. ASSUME NEW u \in Serving
        PROVE  /\ task'[u].clean /\ ~task'[u].inTxn => txn'[task'[u].session] \in {"idle", "broken"}
               /\ task'[u].inTxn => ~task'[u].auto /\ txn'[task'[u].session] # "idle"
               /\ task'[u].inTxn /\ txn'[task'[u].session] # "broken" => task'[u].ours \subseteq held'[task'[u].session]
               /\ ~task'[u].inTxn => task'[u].ours = {}
    <3>1. CASE u = t
      BY <1>1, <2>1, <3>1
    <3>2. CASE u # t
      <4>1. task'[u] = task[u] /\ txn'[task[u].session] = txn[task[u].session]
            /\ held'[task[u].session] = held[task[u].session]
        BY <2>1, <2>2, <2>3, <3>2
      <4>2. QED
        BY <4>1 DEF SessionInv
    <3>3. QED
      BY <3>1, <3>2
  <2>6. \A s \in Sessions : held'[s] # {} => txn'[s] = "open"
    BY <1>1, <2>1 DEF SessionInv
  <2>7. QED
    BY <2>2, <2>4, <2>5, <2>6 DEF SessionInv
<1>2. ASSUME NEW t \in Tasks, Acquire(t) PROVE SessionInv'
  <2>1. PICK s \in free :
          /\ free' = free \ {s}
          /\ task' = [task EXCEPT ![t] = [st |-> "serving", session |-> s, auto |-> FALSE,
                                          inTxn |-> FALSE, ours |-> {}, clean |-> txn[s] = "idle"]]
    BY <1>2 DEF Acquire
  <2>2. /\ task'[t] = [st |-> "serving", session |-> s, auto |-> FALSE,
                       inTxn |-> FALSE, ours |-> {}, clean |-> txn[s] = "idle"]
        /\ \A u \in Tasks : u # t => task'[u] = task[u]
        /\ UNCHANGED <<txn, held>> /\ t \notin Serving
    BY <1>2, <2>1 DEF Acquire, TypeInv, Serving
  <2>3. Serving' = Serving \cup {t} /\ \A u \in Serving : u # t /\ task'[u] = task[u] /\ task[u].session # s
    BY <2>1, <2>2 DEF Serving, SessionInv
  <2>4. /\ task'[t].session = s /\ task'[t].auto = FALSE /\ task'[t].inTxn = FALSE /\ task'[t].ours = {}
        /\ task'[t].clean => txn[s] = "idle"
    <3>1. PICK b \in BOOLEAN : b = (txn[s] = "idle") /\ (b <=> txn[s] = "idle")
      OBVIOUS
    <3>2. task'[t] = [st |-> "serving", session |-> s, auto |-> FALSE,
                      inTxn |-> FALSE, ours |-> {}, clean |-> b]
      BY <2>2, <3>1
    <3>3. task'[t].clean = b
      BY <3>2
    <3>4. task'[t].clean => txn[s] = "idle"
      BY <3>1, <3>3
    <3>5. QED
      BY <3>2, <3>4
  <2>5. QED
    <3>1. \A u \in Serving' : task'[u].session \notin free'
      BY <2>1, <2>3, <2>4 DEF SessionInv
    <3>2. \A u, v \in Serving' : task'[u].session = task'[v].session => u = v
      BY <2>1, <2>3, <2>4 DEF SessionInv
    <3>3. \A u \in Serving' : task'[u].clean /\ ~task'[u].inTxn => txn'[task'[u].session] \in {"idle", "broken"}
      BY <2>2, <2>3, <2>4 DEF SessionInv
    <3>4. \A u \in Serving' : task'[u].inTxn =>
            /\ ~task'[u].auto /\ txn'[task'[u].session] # "idle"
            /\ txn'[task'[u].session] # "broken" => task'[u].ours \subseteq held'[task'[u].session]
      BY <2>2, <2>3, <2>4 DEF SessionInv
    <3>5. \A u \in Serving' : ~task'[u].inTxn => task'[u].ours = {}
      BY <2>3, <2>4 DEF SessionInv
    <3>6. \A u \in Sessions : held'[u] # {} => txn'[u] = "open"
      BY <2>2 DEF SessionInv
    <3>7. QED
      BY <3>1, <3>2, <3>3, <3>4, <3>5, <3>6 DEF SessionInv
\* A session comes back: the task that had it is over.
<1>3. ASSUME NEW t \in Tasks, task[t].st = "serving", EndTask(t), free' = free \cup {task[t].session},
             \A s \in Sessions : s # task[t].session => txn'[s] = txn[s] /\ held'[s] = held[s],
             held'[task[t].session] # {} => txn'[task[t].session] = "open"
      PROVE  SessionInv'
  <2>1. task'[t].st = "ended" /\ \A u \in Tasks : u # t => task'[u] = task[u]
    BY <1>3, EndEffect
  <2>2. Serving' = Serving \ {t} /\ t \in Serving
    BY <1>3, <2>1 DEF Serving
  <2>3. \A u \in Serving' : /\ u \in Serving /\ task'[u] = task[u] /\ task[u].session # task[t].session
                            /\ task[u].session \in Sessions
                            /\ txn'[task[u].session] = txn[task[u].session]
                            /\ held'[task[u].session] = held[task[u].session]
    <3>1. ASSUME NEW u \in Serving' PROVE u \in Serving /\ u # t /\ u \in Tasks /\ task[u].st = "serving"
      BY <2>2 DEF Serving
    <3>2. ASSUME NEW u \in Serving' PROVE task[u].session # task[t].session /\ task[u].session \in Sessions
      BY <2>2, <3>1, ServingFacts DEF SessionInv
    <3>3. QED
      BY <1>3, <2>1, <3>1, <3>2
  <2>4. QED
    <3>1. \A u \in Serving' : task'[u].session \notin free'
      BY <1>3, <2>3 DEF SessionInv
    <3>2. \A u, v \in Serving' : task'[u].session = task'[v].session => u = v
      BY <2>3 DEF SessionInv
    <3>3. \A u \in Serving' : task'[u].clean /\ ~task'[u].inTxn => txn'[task'[u].session] \in {"idle", "broken"}
      BY <2>3 DEF SessionInv
    <3>4. \A u \in Serving' : task'[u].inTxn =>
            /\ ~task'[u].auto /\ txn'[task'[u].session] # "idle"
            /\ txn'[task'[u].session] # "broken" => task'[u].ours \subseteq held'[task'[u].session]
      BY <2>3 DEF SessionInv
    <3>5. \A u \in Serving' : ~task'[u].inTxn => task'[u].ours = {}
      BY <2>3 DEF SessionInv
    <3>6. \A u \in Sessions : held'[u] # {} => txn'[u] = "open"
      BY <1>3 DEF SessionInv
    <3>7. QED
      BY <3>1, <3>2, <3>3, <3>4, <3>5, <3>6 DEF SessionInv
<1>4. ASSUME NEW t \in Tasks, NEW k \in Calls, NEW op \in Statements, Execute(t, k, op) PROVE SessionInv'
  <2>1. Serve(t, k) /\ task[t].st = "serving"
    BY <1>4, ExecuteEffect DEF Serve
  <2>2. PICK done \in SUBSET ({k} \X {1, 2}), ok \in BOOLEAN : Executed(t, k, done, ok)
    BY <1>4, ExecuteEffect
  <2>3. QED
    BY <1>1, <2>1, <2>2, ExecuteLeaves
<1>5. ASSUME NEW t \in Tasks, NEW k \in Calls, Serve(t, k), ~task'[t].inTxn, task'[t].ours = {},
             txn'[task[t].session] \in {"idle", "broken"}, held'[task[t].session] = {}
      PROVE  SessionInv'
  BY <1>1, <1>5
<1>6. ASSUME NEW t \in Tasks, NEW k \in Calls, Serve(t, k), ~task[t].inTxn, ~task'[t].inTxn, task'[t].ours = {},
             UNCHANGED <<txn, held>>
      PROVE  SessionInv'
  <2>1. task[t].st = "serving"
    BY <1>6 DEF Serve
  <2>2. /\ task[t].clean => txn[task[t].session] \in {"idle", "broken"}
        /\ held[task[t].session] # {} => txn[task[t].session] = "open"
    BY <1>6, <2>1, ServingFacts
  <2>3. QED
    BY <1>1, <1>6, <2>2
<1>7. ASSUME NEW t \in Tasks, NEW k \in Calls, Commit(t, k) PROVE SessionInv'
  <2>1. Serve(t, k) /\ ~task'[t].inTxn /\ task'[t].ours = {}
    BY <1>7, CommitEffect
  <2>2. CASE \E ok, keeps \in BOOLEAN : Ended(t, ok, keeps)
    BY <1>5, <2>1, <2>2 DEF Ended
  <2>3. CASE ~task[t].inTxn /\ UNCHANGED <<txn, held>>
    BY <1>6, <2>1, <2>3
  <2>4. QED
    BY <1>7, <2>2, <2>3, CommitEffect
<1>8. ASSUME NEW t \in Tasks, NEW k \in Calls, Rollback(t, k) PROVE SessionInv'
  <2>1. Serve(t, k) /\ ~task'[t].inTxn /\ task'[t].ours = {}
    BY <1>8, RollbackEffect
  <2>2. CASE /\ held'[task[t].session] = {}
             /\ txn'[task[t].session] = IF txn[task[t].session] = "broken" THEN "broken" ELSE "idle"
    BY <1>5, <2>1, <2>2
  <2>3. CASE ~task[t].inTxn /\ UNCHANGED <<txn, held>>
    BY <1>6, <2>1, <2>3
  <2>4. QED
    BY <1>8, <2>2, <2>3, RollbackEffect
<1>9. ASSUME NEW t \in Tasks, NEW k \in Calls, NEW value \in BOOLEAN, SetAutoCommit(t, k, value) PROVE SessionInv'
  <2>1. Serve(t, k) /\ task[t].st = "serving"
    BY <1>9, SetAutoCommitEffect DEF Serve
  <2>2. CASE /\ ~task'[t].inTxn /\ task'[t].ours = {}
             /\ \E ok, keeps \in BOOLEAN : Ended(t, ok, keeps)
    BY <1>5, <2>1, <2>2 DEF Ended
  <2>3. CASE /\ task'[t].inTxn = task[t].inTxn /\ task'[t].ours = task[t].ours
             /\ task'[t].auto => ~task[t].inTxn
             /\ UNCHANGED <<txn, held>>
    <3>1. /\ task[t].clean /\ ~task[t].inTxn => txn[task[t].session] \in {"idle", "broken"}
          /\ task[t].inTxn => txn[task[t].session] # "idle"
          /\ task[t].inTxn /\ txn[task[t].session] # "broken" => task[t].ours \subseteq held[task[t].session]
          /\ ~task[t].inTxn => task[t].ours = {}
          /\ held[task[t].session] # {} => txn[task[t].session] = "open"
      BY <2>1, ServingFacts
    <3>2. QED
      BY <1>1, <2>1, <2>3, <3>1
  <2>4. QED
    BY <1>9, <2>2, <2>3, SetAutoCommitEffect
<1>10. ASSUME NEW t \in Tasks, Close(t) PROVE SessionInv'
  <2>1. /\ task[t].st = "serving" /\ EndTask(t) /\ GiveBack(task[t].session, Leaves(t))
        /\ held' = [held EXCEPT ![task[t].session] = IF Leaves(t) = "open" THEN @ ELSE {}]
    BY <1>10 DEF Close
  <2>2. /\ task[t].session \in Sessions
        /\ free' = free \cup {task[t].session}
        /\ \A s \in Sessions : s # task[t].session => txn'[s] = txn[s] /\ held'[s] = held[s]
        /\ held'[task[t].session] # {} => Leaves(t) = "open"
        /\ Leaves(t) = "open" => txn'[task[t].session] = "open"
    BY <2>1, ServingFacts DEF GiveBack, TypeInv
  <2>3. QED
    BY <1>3, <2>1, <2>2
<1>11. ASSUME NEW t \in Tasks, SendersGone(t) PROVE SessionInv'
  <2>1. EndTask(t) /\ UNCHANGED held
    BY <1>11 DEF SendersGone
  <2>2. CASE task[t].st = "serving"
    <3>1. GiveBack(task[t].session, txn[task[t].session])
      BY <1>11, <2>2 DEF SendersGone
    <3>2. /\ task[t].session \in Sessions
          /\ free' = free \cup {task[t].session}
          /\ \A s \in Sessions : s # task[t].session => txn'[s] = txn[s] /\ held'[s] = held[s]
          /\ held'[task[t].session] # {} => txn'[task[t].session] = "open"
      BY <2>1, <2>2, <3>1, ServingFacts DEF GiveBack, TypeInv
    <3>3. QED
      BY <1>3, <2>1, <2>2, <3>2
  <2>3. CASE task[t].st # "serving"
    <3>1. UNCHANGED <<free, txn>>
      BY <1>11, <2>3 DEF SendersGone
    <3>2. QED
      BY <1>0, <2>1, <2>3, <3>1, EndEffect
  <2>4. QED
    BY <2>2, <2>3
<1>12. ASSUME NEW t \in Tasks, AcquireFails(t) \/ Drain(t) PROVE SessionInv'
  <2>1. UNCHANGED <<free, txn, held>> /\ task[t].st # "serving"
    BY <1>12 DEF AcquireFails, Drain
  <2>2. CASE AcquireFails(t)
    BY <1>0, <2>1, <2>2 DEF AcquireFails, TypeInv
  <2>3. CASE Drain(t)
    <3>1. CASE EndTask(t)
      BY <1>0, <2>1, <3>1, EndEffect
    <3>2. CASE UNCHANGED task
      BY <1>0, <2>1, <3>2
    <3>3. QED
      BY <2>3, <3>1, <3>2 DEF Drain
  <2>4. QED
    BY <1>12, <2>2, <2>3
<1>13. ASSUME NEW s \in Sessions, BreakSession(s) PROVE SessionInv'
  <2>1. /\ UNCHANGED <<task, free>> /\ txn'[s] = "broken" /\ held'[s] = {}
        /\ \A u \in Sessions : u # s => txn'[u] = txn[u] /\ held'[u] = held[u]
    BY <1>13 DEF BreakSession, TypeInv
  <2>2. Serving' = Serving /\ \A t \in Serving : task[t].session \in Sessions
    BY <2>1, ServingFacts DEF Serving
  <2>3. QED
    BY <2>1, <2>2 DEF SessionInv
<1>14. ASSUME NEW k \in Calls, CallStep(k) PROVE SessionInv'
  <2>1. CASE EnsureSender(k)
    <3>1. task[k].st # "serving" /\ UNCHANGED <<free, txn, held>>
      BY <2>1 DEF EnsureSender, CallInv, Began, NotSpawned
    <3>2. \A u \in Tasks : task'[u] = task[u] \/ (u = k /\ task'[u].st = "acquiring")
      BY <2>1 DEF EnsureSender, TypeInv
    <3>3. QED
      BY <1>0, <3>1, <3>2
  <2>2. CASE ReadSlot(k) \/ Send(k) \/ SendFails(k) \/ ClearSlot(k)
    BY <1>0, <2>2 DEF ReadSlot, Send, SendFails, ClearSlot
  <2>3. QED
    BY <1>14, <2>1, <2>2 DEF CallStep
<1>15. CASE (\E k \in Calls, c \in Conns, op \in Ops : Start(k, c, op)) \/ (\E c \in Conns : DropConn(c)) \/ UNCHANGED vars
  BY <1>0, <1>15 DEF Start, DropConn, vars
<1>16. QED
  BY <1>2, <1>4, <1>7, <1>8, <1>9, <1>10, <1>11, <1>12, <1>13, <1>14, <1>15 DEF Next, TaskStep

\* The call a task answers.
LEMMA ServeCall ==
  ASSUME TypeInv, CallInv, NEW t \in Tasks, NEW k \in Calls, Serve(t, k)
  PROVE  /\ call[k].stage = "queued" /\ call[k].via = t /\ Began(k)
         /\ call'[k].stage \in {"ok", "err"} /\ call'[k].conn = call[k].conn
         /\ call[t].conn = call[k].conn
<1>1. queue[t] # << >> /\ k = Head(queue[t]) /\ ~Ends(k)
  BY DEF Serve
<1>2. Move(k, "ok") \/ Move(k, "err")
  BY DEF Serve
<1>3. k = queue[t][1] /\ 1 \in 1..Len(queue[t])
  BY <1>1, HeadFacts
<1>4. call[k].stage = "queued" /\ call[k].via = t /\ Began(k)
  BY <1>1, <1>3 DEF CallInv
<1>5. call'[k].stage \in {"ok", "err"} /\ call'[k].conn = call[k].conn
  BY <1>2, <1>4, MoveEffect
<1>6. call[t].conn = call[k].conn
  BY <1>4, PgAssumption DEF CallInv, Calls, NoTask, Tasks
<1>7. QED
  BY <1>4, <1>5, <1>6

\* No step forgets what a call is, nor takes back an answer.
LEMMA CallsKeep ==
  ASSUME TypeInv, CallInv, [Next]_vars
  PROVE  \A k \in Calls : call[k].stage # "none" =>
           /\ call'[k].stage # "none" /\ call'[k].conn = call[k].conn /\ call'[k].op = call[k].op
           /\ call[k].stage \in {"ok", "err"} => call'[k].stage = call[k].stage
<1> DEFINE P == \A k \in Calls : call[k].stage # "none" =>
                  /\ call'[k].stage # "none" /\ call'[k].conn = call[k].conn /\ call'[k].op = call[k].op
                  /\ call[k].stage \in {"ok", "err"} => call'[k].stage = call[k].stage
<1>1. ASSUME NEW k \in Calls, NEW c \in Conns, NEW op \in Ops, Start(k, c, op) PROVE P
  <2>1. call[k].stage = "none" /\ \A j \in Calls : j # k => call'[j] = call[j]
    BY <1>1 DEF Start, NoCall, TypeInv
  <2>2. QED
    BY <2>1
<1>2. ASSUME NEW k \in Calls, NEW stage \in {"holding", "queued", "clearing", "ok", "err"},
             call[k].stage \in {"ready", "holding", "queued", "clearing"}, Move(k, stage)
      PROVE  P
  <2>1. call'[k].stage = stage /\ call'[k].conn = call[k].conn
        /\ call'[k].op = call[k].op /\ \A j \in Calls : j # k => call'[j] = call[j]
    BY <1>2, MoveEffect
  <2>2. QED
    BY <1>2, <2>1
<1>3. ASSUME NEW k \in Calls, EnsureSender(k) \/ ReadSlot(k) PROVE P
  <2>1. call[k].stage = "ready" /\ call[k] \in Called
    BY <1>3, CallFacts DEF EnsureSender, ReadSlot
  <2>a. \E stage \in {"holding", "ok"} : \E via : call' = [call EXCEPT ![k].stage = stage, ![k].via = via]
    <3>1. CASE EnsureSender(k)
      BY <3>1 DEF EnsureSender
    <3>2. CASE ReadSlot(k)
      BY <3>2 DEF ReadSlot
    <3>3. QED
      BY <1>3, <3>1, <3>2
  <2>b. PICK stage \in {"holding", "ok"} : \E via : call' = [call EXCEPT ![k].stage = stage, ![k].via = via]
    BY <2>a
  <2>2. PICK via : call' = [call EXCEPT ![k].stage = stage, ![k].via = via]
    BY <2>b
  <2>3. /\ call'[k] = [call[k] EXCEPT !.stage = stage, !.via = via]
        /\ \A j \in Calls : j # k => call'[j] = call[j]
    BY <2>2 DEF TypeInv
  <2>4. call'[k].stage = stage /\ call'[k].conn = call[k].conn /\ call'[k].op = call[k].op
    BY <2>1, <2>3 DEF Called
  <2>5. QED
    BY <2>1, <2>3, <2>4
<1>4. ASSUME NEW k \in Calls, Send(k) \/ SendFails(k) \/ ClearSlot(k) PROVE P
  <2>1. call[k].stage \in {"holding", "clearing"} /\ \E stage \in {"ok", "clearing", "queued", "err"} : Move(k, stage)
    BY <1>4 DEF Send, SendFails, ClearSlot, AfterSend
  <2>2. QED
    BY <1>2, <2>1
<1>5. ASSUME NEW t \in Tasks, EndTask(t) PROVE P
  BY <1>5, EndEffect
<1>6. ASSUME NEW t \in Tasks, NEW k \in Calls, queue[t] # << >>, k = Head(queue[t]), ~Ends(k),
             queue' = [queue EXCEPT ![t] = Tail(@)], Move(k, "ok") \/ Move(k, "err")
      PROVE  P
  <2>1. TakesHead(t, k)
    BY <1>6, AnswerEffect
  <2>2. QED
    BY <1>2, <2>1 DEF TakesHead
<1>7. ASSUME NEW t \in Tasks, TaskStep(t) PROVE P
  <2>1. ASSUME NEW k \in Calls, Serve(t, k) PROVE P
    BY <1>6, <2>1 DEF Serve
  <2>2. CASE Drain(t)
    <3>1. CASE Answer(t, Head(queue[t]), FALSE) /\ ~Ends(Head(queue[t]))
      BY <1>6, <2>2, <3>1, HeadFacts DEF Drain, Answer
    <3>2. QED
      BY <1>5, <2>2, <3>1 DEF Drain, Ends
  <2>3. CASE Close(t) \/ SendersGone(t)
    BY <1>5, <2>3 DEF Close, SendersGone
  <2>4. QED
    BY <1>7, <2>1, <2>2, <2>3, ExecuteEffect, CommitEffect, RollbackEffect, SetAutoCommitEffect DEF TaskStep
<1>8. CASE UNCHANGED call
  BY <1>8
<1>9. QED
  <2>1. ASSUME NEW t \in Tasks, Acquire(t) \/ AcquireFails(t) PROVE UNCHANGED call
    BY <2>1 DEF Acquire, AcquireFails
  <2>2. ASSUME NEW c \in Conns, DropConn(c) PROVE UNCHANGED call
    BY <2>2 DEF DropConn
  <2>3. ASSUME NEW s \in Sessions, BreakSession(s) PROVE UNCHANGED call
    BY <2>3 DEF BreakSession
  <2>4. QED
    BY <1>1, <1>3, <1>4, <1>7, <1>8, <2>1, <2>2, <2>3 DEF Next, CallStep, vars

-----------------------------------------------------------------------------
(* The writes. *)

\* What a statement, and the end of a transaction, do with the writes.
LEMMA ExecuteWrites ==
  ASSUME TypeInv, SessionInv, NEW t \in Tasks, task[t].st = "serving",
         NEW k, NEW done, NEW ok \in BOOLEAN, Executed(t, k, done, ok)
  PROVE  LET s == task[t].session IN
         \/ /\ stored' = stored \cup done /\ held'[s] = held[s] /\ task'[t].ours = {}
            /\ promised' \subseteq promised \cup done
         \/ /\ UNCHANGED <<stored, promised>> /\ held'[s] \subseteq held[s] \cup done
            /\ task'[t].ours \subseteq task[t].ours \cup done
<1> DEFINE s == task[t].session
<1>1. /\ task[t].inTxn \in BOOLEAN /\ task[t].auto \in BOOLEAN /\ task[t].clean \in BOOLEAN
      /\ txn[s] \in {"idle", "open", "aborted", "broken"}
      /\ task[t].clean /\ ~task[t].inTxn => txn[s] \in {"idle", "broken"}
      /\ task[t].inTxn => ~task[t].auto
      /\ ~task[t].inTxn => task[t].ours = {}
  BY ServingFacts
<1>2. /\ task'[t].inTxn => txn'[s] # "idle"
      /\ ~task'[t].inTxn => task'[t].ours = {}
  BY ExecuteLeaves
<1>3. /\ AfterBegin(t) = IF ~task[t].auto /\ ~task[t].inTxn /\ txn[s] = "idle" THEN "open" ELSE txn[s]
      /\ promised' = promised \/ (ok /\ task[t].auto /\ task[t].clean /\ promised' = promised \cup done)
  BY DEF Executed, AfterBegin, NeedsBegin
<1>4. task'[t].inTxn <=> (task[t].inTxn \/ (NeedsBegin(t) /\ ~BeginFails(t)))
  BY DEF Executed
<1>5. CASE AfterBegin(t) = "idle" /\ txn'[s] = "idle" /\ held'[s] = held[s] /\ stored' = stored \cup done
  BY <1>2, <1>3, <1>4, <1>5
<1>6. CASE /\ AfterBegin(t) = "open" /\ held'[s] = held[s] \cup done /\ UNCHANGED stored
           /\ task'[t].ours = IF task'[t].inTxn THEN task[t].ours \cup done ELSE task[t].ours
  BY <1>1, <1>3, <1>6
<1>7. CASE /\ ~ok /\ held'[s] \subseteq held[s] /\ UNCHANGED stored
           /\ task'[t].ours = IF task'[t].inTxn THEN {} ELSE task[t].ours
  BY <1>3, <1>7
<1>8. QED
  BY <1>5, <1>6, <1>7 DEF Executed

\* The end of a transaction stores or drops what the session held.
LEMMA EndedWrites ==
  ASSUME TypeInv, SessionInv, NEW t \in Tasks, task[t].st = "serving", task[t].inTxn,
         NEW ok \in BOOLEAN, NEW keeps \in BOOLEAN, Ended(t, ok, keeps)
  PROVE  LET s == task[t].session IN
         /\ held'[s] = {} /\ stored \subseteq stored' /\ stored' \subseteq stored \cup held[s]
         /\ promised' \subseteq promised \cup stored'
<1> DEFINE s == task[t].session
<1>1. /\ task[t].inTxn /\ txn[s] # "broken" => task[t].ours \subseteq held[s]
      /\ held[s] # {} => txn[s] = "open"
  BY ServingFacts
<1>2. /\ ok => txn[s] # "broken" /\ (txn[s] = "open" => keeps)
      /\ stored' = IF keeps THEN stored \cup held[s] ELSE stored
      /\ promised' = promised \/ (ok /\ promised' = promised \cup task[t].ours)
  BY DEF Ended
<1>3. ok => task[t].ours \subseteq stored'
  BY <1>1, <1>2
<1>4. held'[s] = {}
  BY DEF Ended
<1>5. QED
  BY <1>2, <1>3, <1>4

\* A step keeps the account of every write: promised, open, rolled back or lost.
LEMMA WriteStep ==
  TypeInv /\ TypeInv' /\ CallInv /\ SessionInv /\ WriteInv /\ [Next]_vars => WriteInv'
<1> SUFFICES ASSUME TypeInv, TypeInv', CallInv, SessionInv, WriteInv, [Next]_vars PROVE WriteInv'
  OBVIOUS
<1> USE DEF program, server, history, Tasks
<1>d. \A w \in Writes : call[w[1]].stage \in {"ok", "err"} => call'[w[1]].stage \in {"ok", "err"}
  <2>1. \A w \in Writes : w[1] \in Calls
    BY DEF Writes
  <2>2. QED
    BY <2>1, CallsKeep
<1>t. /\ stored \subseteq Writes /\ undone \subseteq Writes /\ held \in [Sessions -> SUBSET Writes]
      /\ \A t \in Serving : task[t].ours \subseteq Writes /\ task[t].session \in Sessions
  BY TaskFacts DEF TypeInv, Serving, Working
\* Steps that make no write.
<1>0. ASSUME UNCHANGED <<stored, undone, promised>>, \A s \in Sessions : held'[s] \subseteq held[s],
             \A u \in Serving' : \/ task'[u].ours = {}
                                 \/ /\ u \in Serving /\ task'[u].ours \subseteq task[u].ours
                                    /\ task'[u].session = task[u].session
      PROVE  WriteInv'
  <2>1. (Done(stored) /\ Done(undone))'
    BY <1>0, <1>d, <1>t DEF WriteInv, Done
  <2>2. (\A s \in Sessions : Done(held[s]))'
    BY <1>0, <1>d, <1>t DEF WriteInv, Done
  <2>3. \A u \in Serving' : /\ \A w \in task'[u].ours : call'[w[1]].stage \in {"ok", "err"}
                            /\ task'[u].ours \cap stored' = {}
    BY <1>0, <1>d, <1>t DEF WriteInv, Done
  <2>4. \A u \in Serving', s \in Sessions : s # task'[u].session => task'[u].ours \cap held'[s] = {}
    BY <1>0 DEF WriteInv
  <2>5. (undone \cap stored = {} /\ \A s \in Sessions : undone \cap held[s] = {})'
    BY <1>0 DEF WriteInv
  <2>6. (promised \subseteq stored)'
    BY <1>0 DEF WriteInv
  <2>7. QED
    BY <2>1, <2>2, <2>3, <2>4, <2>5, <2>6 DEF WriteInv, Done
<1>1. ASSUME UNCHANGED <<stored, undone, promised, held>>,
             \A u \in Tasks : task'[u] = task[u] \/ task'[u].st # "serving"
      PROVE  WriteInv'
  <2>1. \A u \in Serving' : u \in Serving /\ task'[u] = task[u]
    BY <1>1 DEF Serving
  <2>2. QED
    BY <1>0, <1>1, <2>1
\* Steps of a task on its session.
<1>2. ASSUME NEW t \in Tasks, NEW k \in Calls, Serve(t, k)
      PROVE  /\ t \in Serving /\ Serving' = Serving /\ task[t].session \in Sessions
             /\ \A u \in Serving : u # t => task'[u] = task[u] /\ task[u].session # task[t].session
             /\ task'[t].session = task[t].session
             /\ \A s \in Sessions : s # task[t].session => held'[s] = held[s]
  <2>1. /\ task[t].st = "serving" /\ task'[t].st = "serving"
        /\ \A u \in Tasks : u # t => task'[u] = task[u]
        /\ task'[t].session = task[t].session
        /\ \A s \in Sessions : s # task[t].session => held'[s] = held[s]
    BY <1>2 DEF Serve, Touches, Working
  <2>2. QED
    BY <1>t, <2>1 DEF Serving, SessionInv
<1>3. ASSUME NEW t \in Tasks, NEW k \in Calls, NEW op \in Statements, Execute(t, k, op) PROVE WriteInv'
  <2>1. Serve(t, k) /\ task[t].st = "serving"
    BY <1>3, ExecuteEffect DEF Serve
  <2>2. PICK done \in SUBSET ({k} \X {1, 2}), ok \in BOOLEAN : Executed(t, k, done, ok)
    BY <1>3, ExecuteEffect
  <2> DEFINE s == task[t].session
  <2>3. /\ t \in Serving /\ Serving' = Serving /\ s \in Sessions
        /\ \A u \in Serving : u # t => task'[u] = task[u] /\ task[u].session # s
        /\ task'[t].session = s
        /\ \A v \in Sessions : v # s => held'[v] = held[v]
    BY <1>2, <2>1
  <2>4. call[k].stage = "queued" /\ call'[k].stage \in {"ok", "err"}
    BY <2>1, ServeCall
  <2>5. \A w \in done : w \in Writes /\ call'[w[1]].stage \in {"ok", "err"} /\ call[w[1]].stage \notin {"ok", "err"}
    BY <2>4 DEF Writes
  \* The writes of this call are in no place yet.
  <2>6. /\ done \cap stored = {} /\ done \cap undone = {} /\ \A v \in Sessions : done \cap held[v] = {}
        /\ \A u \in Serving : done \cap task[u].ours = {}
    BY <2>5 DEF WriteInv, Done
  <2>7. UNCHANGED undone
    BY <2>2 DEF Executed
  <2>8. CASE /\ stored' = stored \cup done /\ held'[s] = held[s] /\ task'[t].ours = {}
             /\ promised' \subseteq promised \cup done
    <3>0. \A v \in Sessions : held'[v] = held[v]
      BY <2>3, <2>8
    <3>1. (Done(stored) /\ Done(undone))'
      BY <1>d, <1>t, <2>5, <2>7, <2>8 DEF WriteInv, Done
    <3>2. (\A v \in Sessions : Done(held[v]))'
      BY <1>d, <1>t, <3>0 DEF WriteInv, Done
    <3>3. \A u \in Serving' : /\ \A w \in task'[u].ours : call'[w[1]].stage \in {"ok", "err"}
                              /\ task'[u].ours \cap stored' = {}
      BY <1>d, <1>t, <2>3, <2>6, <2>8 DEF WriteInv, Done
    <3>4. \A u \in Serving', v \in Sessions : v # task'[u].session => task'[u].ours \cap held'[v] = {}
      BY <2>3, <2>8, <3>0 DEF WriteInv
    <3>5. (undone \cap stored = {} /\ \A v \in Sessions : undone \cap held[v] = {})'
      BY <2>6, <2>7, <2>8, <3>0 DEF WriteInv
    <3>6. (promised \subseteq stored)'
      BY <2>8 DEF WriteInv
    <3>7. QED
      BY <3>1, <3>2, <3>3, <3>4, <3>5, <3>6 DEF WriteInv, Done
  <2>9. CASE /\ UNCHANGED <<stored, promised>> /\ held'[s] \subseteq held[s] \cup done
             /\ task'[t].ours \subseteq task[t].ours \cup done
    <3>1. (Done(stored) /\ Done(undone))'
      BY <1>d, <1>t, <2>7, <2>9 DEF WriteInv, Done
    <3>2. \A v \in Sessions : \A w \in held'[v] : call'[w[1]].stage \in {"ok", "err"}
      BY <1>d, <1>t, <2>3, <2>5, <2>9 DEF WriteInv, Done
    <3>3. \A u \in Serving' : /\ \A w \in task'[u].ours : call'[w[1]].stage \in {"ok", "err"}
                              /\ task'[u].ours \cap stored' = {}
      BY <1>d, <1>t, <2>3, <2>5, <2>6, <2>9 DEF WriteInv, Done
    <3>4. ASSUME NEW u \in Serving', NEW v \in Sessions, v # task'[u].session
          PROVE  task'[u].ours \cap held'[v] = {}
      <4>1. CASE u = t
        BY <2>3, <2>6, <2>9, <3>4, <4>1 DEF WriteInv
      <4>2. CASE u # t
        <5>1. u \in Serving /\ task'[u] = task[u] /\ task[u].ours \cap held[v] = {} /\ done \cap task[u].ours = {}
          BY <2>3, <2>6, <3>4, <4>2 DEF WriteInv
        <5>2. held'[v] \subseteq held[v] \cup done
          BY <2>3, <2>9
        <5>3. QED
          BY <5>1, <5>2
      <4>3. QED
        BY <4>1, <4>2
    <3>5. (undone \cap stored = {} /\ \A v \in Sessions : undone \cap held[v] = {})'
      <4>1. \A v \in Sessions : held'[v] \subseteq held[v] \cup done
        BY <2>3, <2>9
      <4>2. QED
        BY <2>6, <2>7, <2>9, <4>1 DEF WriteInv
    <3>6. (promised \subseteq stored)'
      BY <2>9 DEF WriteInv
    <3>7. QED
      BY <3>1, <3>2, <3>3, <3>4, <3>5, <3>6 DEF WriteInv, Done
  <2>10. QED
    BY <2>1, <2>2, <2>8, <2>9, ExecuteWrites
\* The end of a transaction.
<1>4. ASSUME NEW t \in Tasks, NEW k \in Calls, Serve(t, k), task'[t].ours = {}, held'[task[t].session] = {},
             stored \subseteq stored', stored' \subseteq stored \cup held[task[t].session],
             UNCHANGED undone, promised' \subseteq promised \cup stored'
      PROVE  WriteInv'
  <2> DEFINE s == task[t].session
  <2>1. /\ t \in Serving /\ Serving' = Serving /\ s \in Sessions
        /\ \A u \in Serving : u # t => task'[u] = task[u] /\ task[u].session # s
        /\ task'[t].session = s
        /\ \A v \in Sessions : v # s => held'[v] = held[v]
    BY <1>2, <1>4
  <2>2. \A v \in Sessions : held'[v] \subseteq held[v]
    BY <1>4, <2>1
  <2>3. (Done(stored) /\ Done(undone))'
    BY <1>4, <1>d, <1>t, <2>1 DEF WriteInv, Done
  <2>4. (\A v \in Sessions : Done(held[v]))'
    BY <1>d, <1>t, <2>2 DEF WriteInv, Done
  <2>5. \A u \in Serving' : /\ \A w \in task'[u].ours : call'[w[1]].stage \in {"ok", "err"}
                            /\ task'[u].ours \cap stored' = {}
    BY <1>4, <1>d, <1>t, <2>1 DEF WriteInv, Done
  <2>6. \A u \in Serving', v \in Sessions : v # task'[u].session => task'[u].ours \cap held'[v] = {}
    BY <1>4, <2>1, <2>2 DEF WriteInv
  <2>7. (undone \cap stored = {} /\ \A v \in Sessions : undone \cap held[v] = {})'
    BY <1>4, <2>1, <2>2 DEF WriteInv
  <2>8. (promised \subseteq stored)'
    BY <1>4 DEF WriteInv
  <2>9. QED
    BY <2>3, <2>4, <2>5, <2>6, <2>7, <2>8 DEF WriteInv, Done
\* What is taken back is in no place after.
<1>5. ASSUME NEW t \in Tasks, task[t].st = "serving", undone' = undone \cup task[t].ours,
             UNCHANGED <<stored, promised>>, \A s \in Sessions : held'[s] \subseteq held[s],
             task[t].ours \cap held'[task[t].session] = {},
             \A u \in Serving' : \/ task'[u].ours = {}
                                 \/ u \in Serving /\ u # t /\ task'[u] = task[u]
      PROVE  WriteInv'
  <2>0. t \in Serving
    BY <1>5 DEF Serving
  <2>1. (Done(stored) /\ Done(undone))'
    BY <1>5, <1>d, <1>t, <2>0 DEF WriteInv, Done
  <2>2. (\A s \in Sessions : Done(held[s]))'
    BY <1>5, <1>d, <1>t DEF WriteInv, Done
  <2>3. \A u \in Serving' : /\ \A w \in task'[u].ours : call'[w[1]].stage \in {"ok", "err"}
                            /\ task'[u].ours \cap stored' = {}
    BY <1>5, <1>d, <1>t DEF WriteInv, Done
  <2>4. \A u \in Serving', s \in Sessions : s # task'[u].session => task'[u].ours \cap held'[s] = {}
    BY <1>5 DEF WriteInv
  <2>5. (undone \cap stored = {})'
    BY <1>5, <2>0 DEF WriteInv
  <2>6. ASSUME NEW s \in Sessions PROVE undone' \cap held'[s] = {}
    <3>1. task[t].ours \cap held'[s] = {}
      BY <1>5, <2>0 DEF WriteInv
    <3>2. undone \cap held[s] = {}
      BY DEF WriteInv
    <3>3. QED
      BY <1>5, <3>1, <3>2
  <2>7. (promised \subseteq stored)'
    BY <1>5 DEF WriteInv
  <2>8. QED
    BY <2>1, <2>2, <2>3, <2>4, <2>5, <2>6, <2>7 DEF WriteInv, Done
<1>6. ASSUME NEW t \in Tasks, NEW k \in Calls, Serve(t, k), UNCHANGED <<stored, undone, held>>,
             task'[t].ours \subseteq task[t].ours, promised' \in {promised, promised \cup task[t].ours},
             promised' # promised => ~task[t].inTxn
      PROVE  WriteInv'
  <2>1. task[t].st = "serving" /\ (~task[t].inTxn => task[t].ours = {})
    BY <1>6, ServingFacts DEF Serve
  <2>2. UNCHANGED promised
    BY <1>6, <2>1
  <2>3. QED
    BY <1>0, <1>2, <1>6, <2>2
<1>7. ASSUME NEW t \in Tasks, NEW k \in Calls, Commit(t, k) PROVE WriteInv'
  <2>1. Serve(t, k) /\ task'[t].ours = {} /\ UNCHANGED undone /\ task[t].st = "serving"
    BY <1>7, CommitEffect DEF Serve
  <2>2. CASE task[t].inTxn /\ \E ok, keeps \in BOOLEAN : Ended(t, ok, keeps)
    BY <1>4, <2>1, <2>2, EndedWrites
  <2>3. CASE /\ ~task[t].inTxn /\ UNCHANGED <<held, stored>>
             /\ promised' \in {promised, promised \cup task[t].ours}
    BY <1>6, <2>1, <2>3
  <2>4. QED
    BY <1>7, <2>2, <2>3, CommitEffect
<1>8. ASSUME NEW t \in Tasks, NEW k \in Calls, Rollback(t, k) PROVE WriteInv'
  <2>1. /\ Serve(t, k) /\ task'[t].ours = {} /\ undone' = undone \cup task[t].ours
        /\ UNCHANGED <<stored, promised>> /\ task[t].st = "serving"
        /\ \/ held'[task[t].session] = {}
           \/ ~task[t].inTxn /\ UNCHANGED held
    BY <1>8, RollbackEffect DEF Serve
  <2>2. \A s \in Sessions : held'[s] \subseteq held[s]
    BY <1>2, <2>1
  <2>3. task[t].ours \cap held'[task[t].session] = {}
    BY <2>1, ServingFacts
  <2>4. \A u \in Serving' : task'[u].ours = {} \/ (u \in Serving /\ u # t /\ task'[u] = task[u])
    BY <1>2, <2>1
  <2>5. QED
    BY <1>5, <2>1, <2>2, <2>3, <2>4
<1>9. ASSUME NEW t \in Tasks, NEW k \in Calls, NEW value \in BOOLEAN, SetAutoCommit(t, k, value) PROVE WriteInv'
  <2>1. Serve(t, k) /\ UNCHANGED undone /\ task[t].st = "serving"
    BY <1>9, SetAutoCommitEffect DEF Serve
  <2>2. CASE task[t].inTxn /\ task'[t].ours = {} /\ \E ok, keeps \in BOOLEAN : Ended(t, ok, keeps)
    BY <1>4, <2>1, <2>2, EndedWrites
  <2>3. CASE task'[t].ours = task[t].ours /\ UNCHANGED <<held, stored, promised>>
    BY <1>6, <2>1, <2>3
  <2>4. QED
    BY <1>9, <2>2, <2>3, SetAutoCommitEffect
<1>10. ASSUME NEW t \in Tasks, Close(t) PROVE WriteInv'
  <2>1. /\ task[t].st = "serving" /\ EndTask(t) /\ undone' = undone \cup task[t].ours
        /\ held' = [held EXCEPT ![task[t].session] = IF Leaves(t) = "open" THEN @ ELSE {}]
        /\ UNCHANGED <<stored, promised>>
    BY <1>10 DEF Close
  <2>2. /\ task[t].session \in Sessions /\ \A s \in Sessions : held'[s] \subseteq held[s]
        /\ Leaves(t) # "open" => held'[task[t].session] = {}
    BY <2>1, ServingFacts DEF TypeInv
  <2>3. task[t].ours \cap held'[task[t].session] = {}
    <3>1. task[t].inTxn => Leaves(t) # "open"
      BY DEF Leaves
    <3>2. QED
      BY <2>1, <2>2, <3>1, ServingFacts
  <2>4. \A u \in Serving' : u \in Serving /\ u # t /\ task'[u] = task[u]
    BY <2>1, EndEffect DEF Serving
  <2>5. QED
    BY <1>5, <2>1, <2>2, <2>3, <2>4
<1>11. ASSUME NEW t \in Tasks, Acquire(t) PROVE WriteInv'
  <2>1. UNCHANGED <<stored, undone, promised, held>>
    BY <1>11 DEF Acquire
  <2>2. PICK s, b : task' = [task EXCEPT ![t] = [st |-> "serving", session |-> s, auto |-> FALSE,
                                                 inTxn |-> FALSE, ours |-> {}, clean |-> b]]
    BY <1>11 DEF Acquire
  <2>3. /\ task'[t].ours = {} /\ \A u \in Tasks : u # t => task'[u] = task[u]
    BY <2>2 DEF TypeInv
  <2>4. \A u \in Serving' : task'[u].ours = {} \/ (u \in Serving /\ task'[u] = task[u])
    BY <2>3 DEF Serving
  <2>5. QED
    BY <1>0, <2>1, <2>4
<1>12. ASSUME NEW t \in Tasks, AcquireFails(t) \/ Drain(t) \/ SendersGone(t) PROVE WriteInv'
  <2>1. UNCHANGED <<stored, undone, promised, held>>
    BY <1>12 DEF AcquireFails, Drain, SendersGone
  <2>2. \A u \in Tasks : task'[u] = task[u] \/ task'[u].st # "serving"
    <3>1. CASE AcquireFails(t)
      BY <3>1 DEF AcquireFails, TypeInv
    <3>2. CASE EndTask(t)
      BY <3>2, EndEffect
    <3>3. QED
      BY <1>12, <3>1, <3>2 DEF Drain, SendersGone
  <2>3. QED
    BY <1>1, <2>1, <2>2
<1>13. ASSUME NEW s \in Sessions, BreakSession(s) PROVE WriteInv'
  <2>1. /\ UNCHANGED <<task, stored, undone, promised>> /\ \A v \in Sessions : held'[v] \subseteq held[v]
    BY <1>13 DEF BreakSession, TypeInv
  <2>2. Serving' = Serving
    BY <2>1 DEF Serving
  <2>3. QED
    BY <1>0, <2>1, <2>2
<1>14. ASSUME NEW k \in Calls, CallStep(k) PROVE WriteInv'
  <2>1. CASE EnsureSender(k)
    BY <1>1, <2>1 DEF EnsureSender, TypeInv
  <2>2. CASE ReadSlot(k) \/ Send(k) \/ SendFails(k) \/ ClearSlot(k)
    BY <1>1, <2>2 DEF ReadSlot, Send, SendFails, ClearSlot
  <2>3. QED
    BY <1>14, <2>1, <2>2 DEF CallStep
<1>15. CASE (\E k \in Calls, c \in Conns, op \in Ops : Start(k, c, op)) \/ (\E c \in Conns : DropConn(c)) \/ UNCHANGED vars
  BY <1>1, <1>15 DEF Start, DropConn, vars
<1>16. QED
  BY <1>3, <1>7, <1>8, <1>9, <1>10, <1>11, <1>12, <1>13, <1>14, <1>15 DEF Next, TaskStep

-----------------------------------------------------------------------------
(* Writes of other connections. *)

\* A step lets a connection meet only what another one abandoned.
LEMMA ApartStep ==
  TypeInv /\ TypeInv' /\ CallInv /\ SessionInv /\ WriteInv /\ ApartInv /\ [Next]_vars => ApartInv'
<1> SUFFICES ASSUME TypeInv, TypeInv', CallInv, SessionInv, WriteInv, ApartInv, [Next]_vars
             PROVE  ApartInv'
  OBVIOUS
<1> USE DEF program, server, history, Tasks
<1>c. /\ \A t \in Serving : t \in Tasks /\ call'[t].conn = call[t].conn /\ task[t].session \in Sessions
      /\ \A s \in Sessions : \A w \in held[s] : w[1] \in Calls /\ call'[w[1]].conn = call[w[1]].conn
  <2>1. ASSUME NEW t \in Serving
        PROVE  t \in Tasks /\ call'[t].conn = call[t].conn /\ task[t].session \in Sessions
    <3>1. t \in Tasks /\ call[t].stage # "none"
      BY DEF Serving, CallInv, Began, NotSpawned
    <3>2. task[t].session \in Sessions
      BY ServingFacts DEF Serving
    <3>3. QED
      BY <3>1, <3>2, CallsKeep
  <2>2. ASSUME NEW s \in Sessions, NEW w \in held[s]
        PROVE  w[1] \in Calls /\ call'[w[1]].conn = call[w[1]].conn
    <3>1. w[1] \in Calls
      BY DEF TypeInv, Writes
    <3>2. call[w[1]].stage # "none"
      BY DEF WriteInv, Done
    <3>3. QED
      BY <3>1, <3>2, CallsKeep
  <2>3. QED
    BY <2>1, <2>2
<1>0. ASSUME UNCHANGED foreign, abandoned \subseteq abandoned', \A s \in free' : held'[s] \subseteq abandoned',
             \A u \in Serving' : \/ held'[task'[u].session] \subseteq abandoned'
                                 \/ /\ u \in Serving /\ task'[u].session = task[u].session
                                    /\ held'[task[u].session] \subseteq held[task[u].session]
      PROVE  ApartInv'
  <2>1. \A u \in Serving' : \A w \in held'[task'[u].session] :
          w \in abandoned' \/ call'[w[1]].conn = call'[u].conn
    <3>1. ASSUME NEW u \in Serving', NEW w \in held'[task'[u].session], w \notin abandoned'
          PROVE  call'[w[1]].conn = call'[u].conn
      <4>1. u \in Serving /\ w \in held[task[u].session] /\ w \notin abandoned
        BY <1>0, <3>1
      <4>2. call[w[1]].conn = call[u].conn
        BY <4>1 DEF ApartInv
      <4>3. QED
        BY <1>c, <4>1, <4>2
    <3>2. QED
      BY <3>1
  <2>2. (foreign \subseteq abandoned)'
    BY <1>0 DEF ApartInv
  <2>3. QED
    BY <1>0, <2>1, <2>2 DEF ApartInv
<1>1. ASSUME UNCHANGED <<foreign, abandoned, free, held>>,
             \A u \in Tasks : task'[u] = task[u] \/ task'[u].st # "serving"
      PROVE  ApartInv'
  <2>1. \A u \in Serving' : u \in Serving /\ task'[u] = task[u]
    BY <1>1 DEF Serving
  <2>2. \A s \in free' : held'[s] \subseteq abandoned'
    BY <1>1 DEF ApartInv
  <2>3. QED
    BY <1>0, <1>1, <2>1, <2>2
\* Steps of a task on its session.
<1>2. ASSUME NEW t \in Tasks, NEW k \in Calls, Serve(t, k),
             \A w \in held'[task[t].session] : w \in held[task[t].session] \/ call'[w[1]].conn = call'[t].conn,
             foreign' \subseteq foreign \cup {w \in held[task[t].session] : call[w[1]].conn # call[t].conn}
      PROVE  ApartInv'
  <2>1. /\ task[t].st = "serving" /\ task'[t].st = "serving" /\ UNCHANGED <<free, abandoned>>
        /\ \A u \in Tasks : u # t => task'[u] = task[u]
        /\ task'[t].session = task[t].session
        /\ \A s \in Sessions : s # task[t].session => held'[s] = held[s]
    BY <1>2 DEF Serve, Touches, Working
  <2>2. /\ t \in Serving /\ Serving' = Serving /\ task[t].session \notin free /\ free \subseteq Sessions
        /\ \A u \in Serving : u # t => task'[u] = task[u] /\ task[u].session # task[t].session
    <3>1. t \in Serving /\ Serving' = Serving /\ \A u \in Serving : u \in Tasks
      BY <2>1 DEF Serving
    <3>2. task[t].session \notin free /\ \A u \in Serving : u # t => task[u].session # task[t].session
      BY <3>1 DEF SessionInv
    <3>3. QED
      BY <2>1, <3>1, <3>2 DEF TypeInv
  <2>3. \A s \in free' : held'[s] \subseteq abandoned'
    BY <2>1, <2>2 DEF ApartInv
  <2>4. ASSUME NEW u \in Serving', NEW w \in held'[task'[u].session]
        PROVE  w \in abandoned' \/ call'[w[1]].conn = call'[u].conn
    <3>1. CASE u = t
      BY <1>2, <1>c, <2>1, <2>2, <3>1 DEF ApartInv
    <3>2. CASE u # t
      BY <1>c, <2>1, <2>2, <3>2 DEF ApartInv
    <3>3. QED
      BY <3>1, <3>2
  <2>5. (foreign \subseteq abandoned)'
    BY <1>2, <2>1, <2>2 DEF ApartInv
  <2>6. QED
    BY <2>3, <2>4, <2>5 DEF ApartInv
<1>3. ASSUME NEW t \in Tasks, NEW k \in Calls, NEW op \in Statements, Execute(t, k, op) PROVE ApartInv'
  <2>1. Serve(t, k) /\ task[t].st = "serving" /\ t \in Serving
    BY <1>3, ExecuteEffect DEF Serve, Serving
  <2>2. PICK done \in SUBSET ({k} \X {1, 2}), ok \in BOOLEAN : Executed(t, k, done, ok)
    BY <1>3, ExecuteEffect
  <2>3. held'[task[t].session] \subseteq held[task[t].session] \cup done /\ UNCHANGED foreign
    BY <2>1, <2>2, ExecuteWrites DEF Executed
  <2>4. call'[k].conn = call'[t].conn
    BY <1>c, <2>1, ServeCall
  <2>5. \A w \in done : w[1] = k
    OBVIOUS
  <2>6. QED
    BY <1>2, <2>1, <2>3, <2>4, <2>5
<1>4. ASSUME NEW t \in Tasks, NEW k \in Calls, Serve(t, k), \E ok, keeps \in BOOLEAN : Ended(t, ok, keeps)
      PROVE  ApartInv'
  <2>1. /\ held'[task[t].session] = {}
        /\ foreign' \subseteq foreign \cup {w \in held[task[t].session] : call[w[1]].conn # call[t].conn}
    BY <1>4 DEF Ended
  <2>2. QED
    BY <1>2, <1>4, <2>1
<1>5. ASSUME NEW t \in Tasks, NEW k \in Calls, Serve(t, k), held'[task[t].session] \subseteq held[task[t].session],
             UNCHANGED foreign
      PROVE  ApartInv'
  BY <1>2, <1>5
<1>6. ASSUME NEW t \in Tasks, NEW k \in Calls, Commit(t, k) PROVE ApartInv'
  <2>1. CASE \E ok, keeps \in BOOLEAN : Ended(t, ok, keeps)
    BY <1>4, <1>6, <2>1, CommitEffect
  <2>2. CASE UNCHANGED <<held, foreign>>
    BY <1>5, <1>6, <2>2, CommitEffect
  <2>3. QED
    BY <1>6, <2>1, <2>2, CommitEffect
<1>7. ASSUME NEW t \in Tasks, NEW k \in Calls, Rollback(t, k) PROVE ApartInv'
  <2>1. Serve(t, k) /\ UNCHANGED foreign /\ (held'[task[t].session] = {} \/ UNCHANGED held)
    BY <1>7, RollbackEffect
  <2>2. QED
    BY <1>5, <2>1
<1>8. ASSUME NEW t \in Tasks, NEW k \in Calls, NEW value \in BOOLEAN, SetAutoCommit(t, k, value) PROVE ApartInv'
  <2>1. CASE \E ok, keeps \in BOOLEAN : Ended(t, ok, keeps)
    BY <1>4, <1>8, <2>1, SetAutoCommitEffect
  <2>2. CASE UNCHANGED <<held, foreign>>
    BY <1>5, <1>8, <2>2, SetAutoCommitEffect
  <2>3. QED
    BY <1>8, <2>1, <2>2, SetAutoCommitEffect
\* A session comes back to the pool.
<1>9. ASSUME NEW t \in Tasks, task[t].st = "serving", EndTask(t), free' = free \cup {task[t].session},
             \A s \in Sessions : s # task[t].session => held'[s] = held[s],
             held'[task[t].session] \subseteq abandoned', abandoned \subseteq abandoned', UNCHANGED foreign
      PROVE  ApartInv'
  <2>1. \A u \in Serving' : u \in Serving /\ u # t /\ task'[u] = task[u]
    BY <1>9, EndEffect DEF Serving
  <2>2. t \in Serving
    BY <1>9 DEF Serving
  <2>3. \A u \in Serving' : task[u].session \in Sessions /\ task[u].session # task[t].session
    BY <1>c, <2>1, <2>2 DEF SessionInv
  <2>4. \A s \in free' : held'[s] \subseteq abandoned'
    BY <1>9 DEF ApartInv, TypeInv
  <2>5. QED
    BY <1>0, <1>9, <2>1, <2>3, <2>4
<1>10. ASSUME NEW t \in Tasks, Close(t) PROVE ApartInv'
  <2>1. /\ task[t].st = "serving" /\ EndTask(t) /\ free' = free \cup {task[t].session} /\ UNCHANGED foreign
        /\ held' = [held EXCEPT ![task[t].session] = IF Leaves(t) = "open" THEN @ ELSE {}]
        /\ abandoned' = IF task[t].clean THEN abandoned ELSE abandoned \cup held'[task[t].session]
    BY <1>10 DEF Close, GiveBack
  <2>2. /\ task[t].session \in Sessions /\ \A s \in Sessions : s # task[t].session => held'[s] = held[s]
        /\ Leaves(t) # "open" => held'[task[t].session] = {}
        /\ task[t].clean \in BOOLEAN /\ task[t].inTxn \in BOOLEAN
        /\ task[t].clean /\ ~task[t].inTxn => txn[task[t].session] \in {"idle", "broken"}
    BY <2>1, ServingFacts DEF TypeInv
  \* A clean session is left with nothing.
  <2>3. task[t].clean => Leaves(t) # "open"
    BY <2>2 DEF Leaves
  <2>4. held'[task[t].session] \subseteq abandoned' /\ abandoned \subseteq abandoned'
    <3>1. CASE task[t].clean
      BY <2>1, <2>2, <2>3, <3>1
    <3>2. CASE ~task[t].clean
      BY <2>1, <3>2
    <3>3. QED
      BY <3>1, <3>2
  <2>5. QED
    BY <1>9, <2>1, <2>2, <2>4
<1>11. ASSUME NEW t \in Tasks, SendersGone(t) PROVE ApartInv'
  <2>1. EndTask(t) /\ UNCHANGED <<held, foreign>>
    BY <1>11 DEF SendersGone
  <2>2. CASE task[t].st = "serving"
    <3>1. free' = free \cup {task[t].session} /\ abandoned' = abandoned \cup held[task[t].session]
      BY <1>11, <2>2 DEF SendersGone, GiveBack
    <3>2. QED
      BY <1>9, <2>1, <2>2, <3>1
  <2>3. CASE task[t].st # "serving"
    <3>1. UNCHANGED <<free, abandoned>>
      BY <1>11, <2>3 DEF SendersGone
    <3>2. QED
      BY <1>1, <2>1, <2>3, <3>1, EndEffect
  <2>4. QED
    BY <2>2, <2>3
<1>12. ASSUME NEW t \in Tasks, Acquire(t) PROVE ApartInv'
  <2>a. PICK s \in free :
          /\ free' = free \ {s} /\ UNCHANGED <<held, foreign, abandoned>>
          /\ \E b : task' = [task EXCEPT ![t] = [st |-> "serving", session |-> s, auto |-> FALSE,
                                                 inTxn |-> FALSE, ours |-> {}, clean |-> b]]
    BY <1>12 DEF Acquire
  <2>1. PICK b :
          /\ free' = free \ {s} /\ UNCHANGED <<held, foreign, abandoned>>
          /\ task' = [task EXCEPT ![t] = [st |-> "serving", session |-> s, auto |-> FALSE,
                                          inTxn |-> FALSE, ours |-> {}, clean |-> b]]
    BY <2>a
  <2>2. task'[t].session = s /\ \A u \in Tasks : u # t => task'[u] = task[u]
    BY <2>1 DEF TypeInv
  <2>3. \A u \in Serving' : task'[u].session = s \/ (u \in Serving /\ task'[u] = task[u])
    BY <2>2 DEF Serving
  <2>4. QED
    BY <1>0, <2>1, <2>3 DEF ApartInv
<1>13. ASSUME NEW t \in Tasks, AcquireFails(t) \/ Drain(t) PROVE ApartInv'
  <2>1. UNCHANGED <<free, held, foreign, abandoned>>
    BY <1>13 DEF AcquireFails, Drain
  <2>2. \A u \in Tasks : task'[u] = task[u] \/ task'[u].st # "serving"
    <3>1. CASE AcquireFails(t)
      BY <3>1 DEF AcquireFails, TypeInv
    <3>2. CASE EndTask(t)
      BY <3>2, EndEffect
    <3>3. QED
      BY <1>13, <3>1, <3>2 DEF Drain
  <2>3. QED
    BY <1>1, <2>1, <2>2
<1>14. ASSUME NEW s \in Sessions, BreakSession(s) PROVE ApartInv'
  <2>1. /\ UNCHANGED <<task, free, foreign, abandoned>> /\ \A v \in Sessions : held'[v] \subseteq held[v]
    BY <1>14 DEF BreakSession, TypeInv
  <2>2. Serving' = Serving /\ free \subseteq Sessions
    BY <2>1 DEF Serving, TypeInv
  <2>3. \A v \in free' : held'[v] \subseteq abandoned'
    BY <2>1, <2>2 DEF ApartInv
  <2>4. QED
    BY <1>0, <1>c, <2>1, <2>2, <2>3
<1>15. ASSUME NEW k \in Calls, CallStep(k) PROVE ApartInv'
  <2>1. CASE EnsureSender(k)
    BY <1>1, <2>1 DEF EnsureSender, TypeInv
  <2>2. CASE ReadSlot(k) \/ Send(k) \/ SendFails(k) \/ ClearSlot(k)
    BY <1>1, <2>2 DEF ReadSlot, Send, SendFails, ClearSlot
  <2>3. QED
    BY <1>15, <2>1, <2>2 DEF CallStep
<1>16. CASE (\E k \in Calls, c \in Conns, op \in Ops : Start(k, c, op)) \/ (\E c \in Conns : DropConn(c)) \/ UNCHANGED vars
  BY <1>1, <1>16 DEF Start, DropConn, vars
<1>17. QED
  BY <1>3, <1>6, <1>7, <1>8, <1>10, <1>11, <1>12, <1>13, <1>14, <1>15, <1>16 DEF Next, TaskStep

-----------------------------------------------------------------------------
(* Connections that are closed. *)

\* A step leaves no transaction behind a connection that was closed.
LEMMA CloseStep ==
  TypeInv /\ TypeInv' /\ CallInv /\ CallInv' /\ SessionInv /\ CloseInv /\ [Next]_vars => CloseInv'
<1> SUFFICES ASSUME TypeInv, TypeInv', CallInv, CallInv', SessionInv, CloseInv, [Next]_vars
             PROVE  CloseInv'
  OBVIOUS
<1> USE DEF program, server, history, Tasks
<1>c. \A j \in Calls : call[j].stage # "none" => call'[j].conn = call[j].conn /\ call'[j].op = call[j].op
  BY CallsKeep
<1>v. /\ NoTask \notin Calls
      /\ \A j \in Calls : call'[j].stage = "clearing" => call'[j].via \in Calls
      /\ \A u \in Tasks : \A i \in 1..Len(queue[u]) : queue[u][i] \in Calls /\ Began(queue[u][i])
  <2>1. NoTask \notin Calls
    BY PgAssumption DEF Calls, NoTask
  <2>2. ASSUME NEW j \in Calls, call'[j].stage = "clearing" PROVE call'[j].via \in Calls
    <3>1. call'[j] \in {NoCall} \cup Called /\ call'[j].via # NoTask
      BY <2>2 DEF TypeInv, CallInv
    <3>2. QED
      BY <2>2, <3>1 DEF NoCall, Called
  <2>3. ASSUME NEW u \in Tasks, NEW i \in 1..Len(queue[u]) PROVE queue[u][i] \in Calls /\ Began(queue[u][i])
    BY DEF TypeInv, CallInv
  <2>4. QED
    BY <2>1, <2>2, <2>3
\* What is left to show of a step that starts no call.
<1>0. ASSUME UNCHANGED closed,
             \A j \in Calls : Running(j)' => Running(j),
             \A j \in Calls : call'[j].stage \in {"holding", "clearing"} /\ call'[j].op = "release"
                              /\ call'[j].conn \notin Shared => slot'[call'[j].conn] \in {NoTask, call'[j].via},
             \A j \in Calls : call'[j].stage = "clearing" => call'[j].op = "release",
             \A j \in Calls, u \in Tasks : call'[j].stage = "clearing" /\ call'[j].via = u =>
                                             task'[u].st = "ended" \/ Closing(u)',
             \A u \in Tasks : Busy(u)' => Closing(u)' \/ Kept(u)',
             \A c \in leaky' : c \in Shared \/ (c \in dropped' /\ c \notin closed')
      PROVE  CloseInv'
  <2>1. \A j \in Calls : Running(j)' => Running(j) /\ call[j].stage # "none" /\ call'[j].conn = call[j].conn
                                        /\ call'[j].op = call[j].op
    BY <1>0, <1>c DEF Running
  <2>2. ASSUME NEW j \in Calls, NEW k \in Calls, Running(j)', Running(k)', Private(k)',
               call'[j].conn = call'[k].conn, call'[j].op # "close", call'[k].op # "close"
        PROVE  j = k
    BY <2>1, <2>2 DEF CloseInv, Private
  <2>3. ASSUME NEW k \in Calls, Statement(k)', Private(k)' PROVE call'[k].conn \notin closed'
    BY <1>0, <2>1, <2>3 DEF CloseInv, Private, Statement
  <2>4. \A k \in Calls : call'[k].stage = "clearing" =>
          task'[call'[k].via].st = "ended" \/ Closing(call[k].via)'
    BY <1>0, <1>v DEF Closing
  <2>5. \A k \in Calls : call'[k].stage \in {"holding", "clearing"} /\ call'[k].op = "release"
                         /\ Private(k)' => slot'[call'[k].conn] \in {NoTask, call'[k].via}
    BY <1>0 DEF Private
  <2>6. QED
    BY <1>0, <2>2, <2>3, <2>4, <2>5 DEF CloseInv
\* A step that leaves the slots: the calls it moves go on or end, a close on its
\* way stays so until the task is over, and no task begins a transaction but for
\* a statement.
<1>1. ASSUME UNCHANGED <<slot, closed>>,
             \A j \in Calls : \/ call'[j].stage = call[j].stage
                              \/ /\ call[j].stage \in {"holding", "queued"}
                                 /\ call'[j].stage \in {"queued", "clearing", "ok", "err"},
             \A j \in Calls : call'[j].via = call[j].via,
             \A j \in Calls : call'[j].stage = "clearing" /\ call[j].stage # "clearing" =>
                call[j].stage = "holding" /\ call[j].op = "release",
             \A j \in Calls, u \in Tasks :
                call'[j].stage = "clearing" /\ call[j].stage # "clearing" /\ call[j].via = u =>
                  task'[u].st = "ended" \/ Closing(u)',
             \A u \in Tasks : Closing(u) => Closing(u)' \/ task'[u].st = "ended",
             \A u \in Tasks : task[u].st = "ended" => task'[u].st = "ended",
             \A u \in Tasks : task'[u].st = "serving" /\ task'[u].inTxn =>
                \/ task[u].st = "serving" /\ task[u].inTxn
                \/ \E k \in Calls : Statement(k) /\ call[k].via = u,
             \A c \in leaky' : c \in Shared \/ (c \in dropped' /\ c \notin closed')
      PROVE  CloseInv'
  <2>1. ASSUME NEW j \in Calls
        PROVE  /\ Running(j)' => Running(j)
               /\ Began(j)' => Began(j)
               /\ call[j].stage = "ready" => call'[j].stage = "ready"
               /\ call'[j].stage # "none" => call[j].stage # "none" /\ call'[j].conn = call[j].conn
                                             /\ call'[j].op = call[j].op
    <3>1. call'[j].stage # "none" => call[j].stage # "none"
      BY <1>1
    <3>2. QED
      BY <1>1, <1>c, <3>1 DEF Running, Began
  <2>2. ASSUME NEW j \in Calls, call'[j].stage \in {"holding", "clearing"}, call'[j].op = "release",
               call'[j].conn \notin Shared
        PROVE  slot'[call'[j].conn] \in {NoTask, call'[j].via}
    <3>1. call[j].stage \in {"holding", "clearing"} /\ call[j].op = "release" /\ Private(j)
          /\ call'[j].conn = call[j].conn
      BY <1>1, <2>1, <2>2 DEF Private
    <3>2. QED
      BY <1>1, <3>1 DEF CloseInv
  <2>3. ASSUME NEW j \in Calls, call'[j].stage = "clearing"
        PROVE  /\ call'[j].op = "release"
               /\ \A u \in Tasks : call'[j].via = u => task'[u].st = "ended" \/ Closing(u)'
    <3>1. CASE call[j].stage = "clearing"
      <4>1. call[j].op = "release" /\ call'[j].op = "release"
        BY <2>1, <2>3, <3>1 DEF CloseInv
      <4>2. ASSUME NEW u \in Tasks, call'[j].via = u PROVE task'[u].st = "ended" \/ Closing(u)'
        <5>1. task[u].st = "ended" \/ Closing(u)
          BY <1>1, <3>1, <4>2 DEF CloseInv
        <5>2. QED
          BY <1>1, <5>1
      <4>3. QED
        BY <4>1, <4>2
    <3>2. CASE call[j].stage # "clearing"
      BY <1>1, <2>1, <2>3, <3>2
    <3>3. QED
      BY <3>1, <3>2
  <2>4. ASSUME NEW u \in Tasks, Busy(u)' PROVE Closing(u)' \/ Kept(u)'
    <3>1. Began(u) /\ Private(u) /\ task[u].st # "ended" /\ task'[u].st # "ended"
          /\ call'[u].conn = call[u].conn
      <4>1. Began(u)' /\ call'[u].conn \notin Shared /\ task'[u].st # "ended"
        BY <2>4 DEF Busy, Private
      <4>2. call'[u].stage # "none"
        BY <4>1 DEF Began
      <4>3. QED
        BY <1>1, <2>1, <4>1, <4>2 DEF Private
    <3>2. \/ task[u].st = "serving" /\ task[u].inTxn
          \/ \E k \in Calls : Statement(k) /\ call[k].via = u
      <4>1. CASE task'[u].st = "serving" /\ task'[u].inTxn
        BY <1>1, <4>1
      <4>2. CASE \E k \in Calls : Statement(k)' /\ call'[k].via = u
        <5>1. PICK k \in Calls : Running(k)' /\ call'[k].op \in Statements /\ call'[k].via = u
          BY <4>2 DEF Statement
        <5>2. call'[k].stage # "none"
          BY <5>1 DEF Running
        <5>3. Running(k) /\ call[k].op \in Statements /\ call[k].via = u
          BY <1>1, <2>1, <5>1, <5>2
        <5>4. QED
          BY <5>3 DEF Statement
      <4>3. QED
        BY <2>4, <4>1, <4>2 DEF Busy
    <3>3. Closing(u) \/ Kept(u)
      BY <3>1, <3>2 DEF CloseInv, Busy
    <3>4. CASE Closing(u)
      BY <1>1, <3>1, <3>4
    <3>5. CASE Kept(u)
      <4>1. \A k \in Calls : call[k].stage = "ready" =>
              call'[k].stage = "ready" /\ call'[k].op = call[k].op /\ call'[k].conn = call[k].conn
        BY <2>1
      <4>2. Kept(u)'
        BY <1>1, <3>1, <3>5, <4>1 DEF Kept
      <4>3. QED
        BY <4>2
    <3>6. QED
      BY <3>3, <3>4, <3>5
  <2>5. QED
    BY <1>0, <1>1, <2>1, <2>2, <2>3, <2>4
<1>2. ASSUME UNCHANGED <<slot, closed, call, queue, leaky>>, dropped \subseteq dropped',
             \A u \in Tasks : \/ task'[u] = task[u]
                              \/ /\ task[u].st # "ended"
                                 /\ ~(task'[u].st = "serving" /\ task'[u].inTxn)
      PROVE  CloseInv'
  <2>1. \A u \in Tasks : Closing(u) => Closing(u)'
    BY <1>2 DEF Closing, Ends
  <2>2. \A c \in leaky' : c \in Shared \/ (c \in dropped' /\ c \notin closed')
    BY <1>2 DEF CloseInv
  <2>3. /\ \A j \in Calls : call'[j] = call[j]
        /\ \A u \in Tasks : task[u].st = "ended" => task'[u].st = "ended"
        /\ \A u \in Tasks : task'[u].st = "serving" /\ task'[u].inTxn =>
             task[u].st = "serving" /\ task[u].inTxn
    BY <1>2
  <2>4. QED
    BY <1>1, <1>2, <2>1, <2>2, <2>3
\* An answer by a task.
<1>3. ASSUME NEW t \in Tasks, NEW k \in Calls, queue[t] # << >>, k = Head(queue[t]), ~Ends(k),
             queue' = [queue EXCEPT ![t] = Tail(@)], Move(k, "ok") \/ Move(k, "err"),
             UNCHANGED <<slot, closed, dropped, leaky>>,
             \A u \in Tasks : u # t => task'[u] = task[u],
             task[t].st # "ended",
             task'[t].st = "serving" /\ task'[t].inTxn =>
               (task[t].st = "serving" /\ task[t].inTxn) \/ call[k].op \in Statements
      PROVE  CloseInv'
  <2>1. /\ call[k].stage = "queued" /\ call[k].via = t /\ call'[k].stage \in {"ok", "err"}
        /\ call'[k].op = call[k].op /\ call'[k].via = call[k].via
        /\ \A j \in Calls : j # k => call'[j] = call[j]
        /\ \A u \in Tasks : u # t => queue'[u] = queue[u]
        /\ queue[t] \in Seq(Calls) /\ k = queue[t][1] /\ queue'[t] = Tail(queue[t])
    <3>1. k = queue[t][1] /\ 1 \in 1..Len(queue[t])
      BY <1>3, HeadFacts
    <3>2. call[k].stage = "queued" /\ call[k].via = t
      BY <1>3, <3>1 DEF CallInv
    <3>3. /\ call'[k].stage \in {"ok", "err"} /\ call'[k].op = call[k].op /\ call'[k].via = call[k].via
          /\ \A j \in Calls : j # k => call'[j] = call[j]
      BY <1>3, <3>2, MoveEffect
    <3>4. /\ \A u \in Tasks : u # t => queue'[u] = queue[u]
          /\ queue[t] \in Seq(Calls) /\ queue'[t] = Tail(queue[t])
      BY <1>3 DEF TypeInv
    <3>5. QED
      BY <3>1, <3>2, <3>3, <3>4
  <2>2. ASSUME NEW u \in Tasks, Closing(u) PROVE Closing(u)'
    <3>1. CASE \E j \in Calls : call[j].stage = "holding" /\ Ends(j) /\ call[j].via = u
      <4>1. PICK j \in Calls : call[j].stage = "holding" /\ Ends(j) /\ call[j].via = u
        BY <3>1
      <4>2. call'[j] = call[j]
        BY <2>1, <4>1
      <4>3. QED
        BY <4>1, <4>2 DEF Closing, Ends
    <3>2. CASE \E i \in 1..Len(queue[u]) : Ends(queue[u][i])
      <4>1. PICK i \in 1..Len(queue[u]) : call[queue[u][i]].op \in {"close", "release"}
        BY <3>2 DEF Ends
      <4>2. queue[u][i] \in Calls /\ queue[u][i] # k /\ call'[queue[u][i]] = call[queue[u][i]]
        BY <1>3, <1>v, <2>1, <4>1 DEF Ends
      <4>3. \E m \in 1..Len(queue'[u]) : queue'[u][m] = queue[u][i]
        <5>1. CASE u # t
          BY <2>1, <5>1
        <5>2. CASE u = t
          <6>1. i # 1
            BY <2>1, <4>2, <5>2
          <6>2. i - 1 \in 1..Len(queue'[t]) /\ queue'[t][i - 1] = queue[t][i]
            <7>1. /\ Len(queue[t]) \in Nat /\ Len(queue'[t]) = Len(queue[t]) - 1
                  /\ \A m \in 1..(Len(queue[t]) - 1) : queue'[t][m] = queue[t][m + 1]
              <8>1. /\ Len(queue[t]) \in Nat /\ Len(Tail(queue[t])) = Len(queue[t]) - 1
                    /\ \A m \in 1..(Len(queue[t]) - 1) : Tail(queue[t])[m] = queue[t][m + 1]
                BY <1>3, HeadFacts
              <8>2. QED
                BY <2>1, <8>1
            <7>2. i \in 1..Len(queue[t])
              BY <5>2
            <7>3. i - 1 \in 1..(Len(queue[t]) - 1) /\ (i - 1) + 1 = i
              BY <6>1, <7>1, <7>2
            <7>4. QED
              BY <7>1, <7>3
          <6>3. QED
            BY <5>2, <6>2
        <5>3. QED
          BY <5>1, <5>2
      <4>4. QED
        BY <4>1, <4>2, <4>3 DEF Closing, Ends
    <3>3. QED
      BY <2>2, <3>1, <3>2 DEF Closing
  <2>3. \A u \in Tasks : task'[u].st = "serving" /\ task'[u].inTxn =>
          \/ task[u].st = "serving" /\ task[u].inTxn
          \/ \E j \in Calls : Statement(j) /\ call[j].via = u
    BY <1>3, <2>1 DEF Statement, Running
  <2>4. \A c \in leaky' : c \in Shared \/ (c \in dropped' /\ c \notin closed')
    BY <1>3 DEF CloseInv
  <2>5. /\ \A u \in Tasks : task[u].st = "ended" => task'[u].st = "ended"
        /\ \A j \in Calls : call'[j].via = call[j].via
        /\ \A j \in Calls : \/ call'[j].stage = call[j].stage
                            \/ call[j].stage = "queued" /\ call'[j].stage \in {"ok", "err"}
    BY <1>3, <2>1
  <2>6. QED
    BY <1>1, <1>3, <2>2, <2>3, <2>4, <2>5
\* The end of a task.
<1>4. ASSUME NEW t \in Tasks, EndTask(t), UNCHANGED <<slot, closed, dropped>>,
             \A c \in leaky' : c \in Shared \/ (c \in dropped' /\ c \notin closed')
      PROVE  CloseInv'
  <2>1. /\ \A k \in Calls : call'[k].op = call[k].op /\ call'[k].via = call[k].via
        /\ \A k \in Calls : call'[k].stage = IF call[k].stage = "queued" /\ call[k].via = t THEN "err"
                                             ELSE call[k].stage
        /\ task'[t].st = "ended"
        /\ \A u \in Tasks : u # t => task'[u] = task[u] /\ queue'[u] = queue[u]
    BY <1>4, EndEffect
  <2>2. ASSUME NEW k \in Calls
        PROVE  call'[k].stage = call[k].stage \/ (call[k].stage = "queued" /\ call'[k].stage = "err")
    <3>1. CASE call[k].stage = "queued" /\ call[k].via = t
      BY <2>1, <3>1
    <3>2. CASE ~(call[k].stage = "queued" /\ call[k].via = t)
      BY <2>1, <3>2
    <3>3. QED
      BY <3>1, <3>2
  <2>3. ASSUME NEW u \in Tasks, Closing(u) PROVE Closing(u)' \/ task'[u].st = "ended"
    <3>1. CASE u = t
      BY <2>1, <3>1
    <3>2. CASE u # t
      <4>1. CASE \E j \in Calls : call[j].stage = "holding" /\ Ends(j) /\ call[j].via = u
        BY <2>1, <2>2, <4>1 DEF Closing, Ends
      <4>2. CASE \E i \in 1..Len(queue[u]) : Ends(queue[u][i])
        BY <1>v, <2>1, <3>2, <4>2 DEF Closing, Ends
      <4>3. QED
        BY <2>3, <4>1, <4>2 DEF Closing
    <3>3. QED
      BY <3>1, <3>2
  <2>4. /\ \A u \in Tasks : task[u].st = "ended" => task'[u].st = "ended"
        /\ \A u \in Tasks : task'[u].st = "serving" /\ task'[u].inTxn =>
             task[u].st = "serving" /\ task[u].inTxn
    BY <2>1
  <2>5. QED
    BY <1>1, <1>4, <2>1, <2>2, <2>3, <2>4
\* A call hands its operation over, or finds the task gone.
<1>5. ASSUME NEW k \in Calls, Send(k) PROVE CloseInv'
  <2>0. PICK t \in Tasks : t = call[k].via
    <3>1. call[k].stage = "holding" /\ call[k].via # NoTask /\ call[k] \in Called
      BY SMTT(30), <1>5, CallFacts DEF Send, CallInv
    <3>2. QED
      BY <3>1 DEF Called
  <2>1. /\ call[k].stage = "holding" /\ queue' = [queue EXCEPT ![t] = Append(@, k)]
        /\ Move(k, AfterSend(call[k].op))
        /\ UNCHANGED <<slot, closed, dropped, leaky, task>>
    BY <1>5, <2>0 DEF Send
  <2>2. /\ AfterSend(call[k].op) \in {"ok", "clearing", "queued"}
        /\ AfterSend(call[k].op) = "clearing" => call[k].op = "release"
    BY DEF AfterSend
  <2>3. /\ call'[k].stage = AfterSend(call[k].op) /\ call'[k].op = call[k].op /\ call'[k].via = t
        /\ \A j \in Calls : j # k => call'[j] = call[j]
    BY <2>0, <2>1, <2>2, MoveEffect
  <2>4. /\ \A u \in Tasks : u # t => queue'[u] = queue[u]
        /\ Len(queue[t]) \in Nat /\ Len(queue'[t]) = Len(queue[t]) + 1 /\ queue'[t][Len(queue[t]) + 1] = k
        /\ \A i \in 1..Len(queue[t]) : queue'[t][i] = queue[t][i]
    <3>1. queue'[t] = Append(queue[t], k) /\ queue[t] \in Seq(Calls)
      BY <2>1 DEF TypeInv
    <3>2. QED
      BY <2>1, <3>1 DEF TypeInv
  <2>5. Ends(k) => Closing(t)'
    <3>1. Len(queue[t]) + 1 \in 1..Len(queue'[t])
      BY <2>4
    <3>2. QED
      BY <2>3, <2>4, <3>1 DEF Closing, Ends
  <2>6. ASSUME NEW u \in Tasks, Closing(u) PROVE Closing(u)'
    <3>1. CASE \E j \in Calls : call[j].stage = "holding" /\ Ends(j) /\ call[j].via = u
      <4>1. PICK j \in Calls : call[j].stage = "holding" /\ Ends(j) /\ call[j].via = u
        BY <3>1
      <4>2. CASE j = k
        BY <2>0, <2>5, <4>1, <4>2
      <4>3. CASE j # k
        BY <2>3, <4>1, <4>3 DEF Closing, Ends
      <4>4. QED
        BY <4>2, <4>3
    <3>2. CASE \E i \in 1..Len(queue[u]) : Ends(queue[u][i])
      <4>1. PICK i \in 1..Len(queue[u]) : call[queue[u][i]].op \in {"close", "release"}
        BY <3>2 DEF Ends
      <4>2. i \in 1..Len(queue'[u]) /\ queue'[u][i] = queue[u][i]
        BY <2>4, <4>1
      <4>3. queue[u][i] \in Calls /\ call'[queue[u][i]].op = call[queue[u][i]].op
        BY <1>v, <2>3, <4>1
      <4>4. QED
        BY <4>1, <4>2, <4>3 DEF Closing, Ends
    <3>3. QED
      BY <2>6, <3>1, <3>2 DEF Closing
  <2>7. \A c \in leaky' : c \in Shared \/ (c \in dropped' /\ c \notin closed')
    BY <2>1 DEF CloseInv
  <2>8. \A j \in Calls, u \in Tasks :
          call'[j].stage = "clearing" /\ call[j].stage # "clearing" /\ call[j].via = u => Closing(u)'
    BY <2>0, <2>2, <2>3, <2>5 DEF Ends
  <2>9. /\ \A j \in Calls : call'[j].via = call[j].via
        /\ \A j \in Calls : call'[j].stage = "clearing" /\ call[j].stage # "clearing" =>
             call[j].stage = "holding" /\ call[j].op = "release"
        /\ \A j \in Calls : \/ call'[j].stage = call[j].stage
                            \/ call[j].stage = "holding" /\ call'[j].stage \in {"queued", "clearing", "ok"}
    BY <2>0, <2>1, <2>2, <2>3
  <2>10. QED
    BY <1>1, <2>1, <2>6, <2>7, <2>8, <2>9
<1>6. ASSUME NEW k \in Calls, SendFails(k) PROVE CloseInv'
  <2>1. /\ call[k].stage = "holding" /\ task[call[k].via].st = "ended"
        /\ UNCHANGED <<slot, closed, dropped, leaky, task, queue>>
    BY <1>6 DEF SendFails
  <2>2. PICK stage \in {"ok", "clearing", "err"} :
          Move(k, stage) /\ (stage = "clearing" => call[k].op = "release")
    BY <1>6 DEF SendFails, AfterSend
  <2>3. /\ call'[k].stage = stage /\ call'[k].op = call[k].op /\ call'[k].via = call[k].via
        /\ \A j \in Calls : j # k => call'[j] = call[j]
    BY <2>1, <2>2, MoveEffect
  <2>4. ASSUME NEW u \in Tasks, Closing(u) PROVE Closing(u)' \/ task'[u].st = "ended"
    <3>1. CASE \E j \in Calls : call[j].stage = "holding" /\ Ends(j) /\ call[j].via = u
      <4>1. PICK j \in Calls : call[j].stage = "holding" /\ Ends(j) /\ call[j].via = u
        BY <3>1
      <4>2. CASE j = k
        BY <2>1, <4>1, <4>2
      <4>3. CASE j # k
        BY <2>3, <4>1, <4>3 DEF Closing, Ends
      <4>4. QED
        BY <4>2, <4>3
    <3>2. CASE \E i \in 1..Len(queue[u]) : Ends(queue[u][i])
      BY <1>v, <2>1, <2>3, <3>2 DEF Closing, Ends
    <3>3. QED
      BY <2>4, <3>1, <3>2 DEF Closing
  <2>5. \A c \in leaky' : c \in Shared \/ (c \in dropped' /\ c \notin closed')
    BY <2>1 DEF CloseInv
  <2>6. /\ \A j \in Calls : call'[j].via = call[j].via
        /\ \A j \in Calls : call'[j].stage = "clearing" /\ call[j].stage # "clearing" =>
             call[j].stage = "holding" /\ call[j].op = "release" /\ task[call[j].via].st = "ended"
        /\ \A j \in Calls : \/ call'[j].stage = call[j].stage
                            \/ call[j].stage = "holding" /\ call'[j].stage \in {"clearing", "ok", "err"}
    BY <2>1, <2>2, <2>3
  <2>7. QED
    BY <1>1, <2>1, <2>4, <2>5, <2>6
\* The release empties the slot: of its own task, which is over or will be.
<1>7. ASSUME NEW k \in Calls, ClearSlot(k) PROVE CloseInv'
  <2>1. /\ call[k].stage = "clearing" /\ Move(k, "ok") /\ slot' = [slot EXCEPT ![call[k].conn] = NoTask]
        /\ UNCHANGED <<closed, dropped, leaky, task, queue>> /\ call[k].op = "release"
    BY <1>7 DEF ClearSlot, CloseInv
  <2>2. /\ call'[k].stage = "ok" /\ call'[k].conn = call[k].conn
        /\ call'[k].op = call[k].op /\ call'[k].via = call[k].via
        /\ \A j \in Calls : j # k => call'[j] = call[j]
    BY <2>1, MoveEffect
  <2>3. \A c \in Conns : slot'[c] = IF c = call[k].conn THEN NoTask ELSE slot[c]
    BY <2>1 DEF TypeInv
  <2>4. \A j \in Calls : call[j].stage # "none" => call[j].conn \in Conns
    BY CallFacts DEF Called
  <2>5. \A j \in Calls : Running(j)' => Running(j)
    BY <2>2 DEF Running
  <2>6. ASSUME NEW j \in Calls, call'[j].stage \in {"holding", "clearing"}, call'[j].op = "release",
               call'[j].conn \notin Shared
        PROVE  slot'[call'[j].conn] \in {NoTask, call'[j].via}
    <3>1. call'[j] = call[j] /\ call[j].conn \in Conns /\ Private(j)
      BY <2>2, <2>4, <2>6 DEF Private
    <3>2. slot[call[j].conn] \in {NoTask, call[j].via}
      BY <2>6, <3>1 DEF CloseInv
    <3>3. QED
      BY <2>3, <3>1, <3>2
  <2>7. \A u \in Tasks : Closing(u) => Closing(u)'
    <3>1. ASSUME NEW u \in Tasks, \E j \in Calls : call[j].stage = "holding" /\ Ends(j) /\ call[j].via = u
          PROVE  Closing(u)'
      BY <2>1, <2>2, <3>1 DEF Closing, Ends
    <3>2. ASSUME NEW u \in Tasks, \E i \in 1..Len(queue[u]) : Ends(queue[u][i])
          PROVE  Closing(u)'
      BY <1>v, <2>1, <2>2, <3>2 DEF Closing, Ends
    <3>3. QED
      BY <3>1, <3>2 DEF Closing
  <2>8. ASSUME NEW j \in Calls, call'[j].stage = "clearing"
        PROVE  /\ call'[j].op = "release"
               /\ \A u \in Tasks : call'[j].via = u => task'[u].st = "ended" \/ Closing(u)'
    <3>1. call'[j] = call[j] /\ call[j].stage = "clearing"
      BY <2>2, <2>8
    <3>2. call[j].op = "release" /\ (task[call[j].via].st = "ended" \/ Closing(call[j].via))
      BY <3>1 DEF CloseInv
    <3>3. QED
      BY <2>1, <2>7, <3>1, <3>2
  <2>9. ASSUME NEW u \in Tasks, Busy(u)' PROVE Closing(u)' \/ Kept(u)'
    <3>1. \A j \in Calls : call'[j].conn = call[j].conn /\ call'[j].op = call[j].op
                           /\ call'[j].via = call[j].via
      BY <2>2
    <3>2. Busy(u)
      BY <2>1, <2>2, <2>5, <2>9, <3>1 DEF Busy, Began, Private, Statement
    <3>3. Closing(u) \/ Kept(u)
      BY <3>2 DEF CloseInv
    <3>4. CASE Closing(u)
      BY <2>7, <3>4
    <3>5. CASE Kept(u) /\ call[u].conn # call[k].conn
      <4>1. call[u].conn \in Conns /\ slot'[call[u].conn] = slot[call[u].conn]
        BY <2>3, <2>4, <3>2, <3>5 DEF Busy, Began
      <4>2. Kept(u)'
        BY <2>1, <2>2, <3>1, <3>5, <4>1 DEF Kept
      <4>3. QED
        BY <4>2
    <3>6. CASE Kept(u) /\ call[u].conn = call[k].conn
      <4>1. slot[call[k].conn] = u /\ Private(k) /\ task[u].st # "ended"
        BY <3>2, <3>6 DEF Kept, Busy, Private
      <4>2. call[k].via = u
        BY <1>v, <2>1, <4>1 DEF CloseInv
      <4>3. Closing(u)
        BY <2>1, <4>1, <4>2 DEF CloseInv
      <4>4. QED
        BY <2>7, <4>3
    <3>7. QED
      BY <3>3, <3>4, <3>5, <3>6
  <2>10. \A c \in leaky' : c \in Shared \/ (c \in dropped' /\ c \notin closed')
    BY <2>1 DEF CloseInv
  <2>11. QED
    BY <1>0, <2>1, <2>5, <2>6, <2>8, <2>9, <2>10
\* A call that does not start a task reads the slot; a close empties it, and holds
\* the task it found.
<1>8. ASSUME NEW k \in Calls, ReadSlot(k) PROVE CloseInv'
  <2>0. PICK c \in Conns : c = call[k].conn
    BY <1>8, CallFacts DEF ReadSlot, Called
  <2>1. /\ call[k].stage = "ready" /\ call[k].op \in {"commit", "rollback", "close", "release"}
        /\ slot' = IF call[k].op = "close" THEN [slot EXCEPT ![c] = NoTask] ELSE slot
        /\ call' = [call EXCEPT ![k].stage = IF slot[c] = NoTask THEN "ok" ELSE "holding", ![k].via = slot[c]]
        /\ UNCHANGED <<closed, dropped, leaky, task, queue>> /\ call[k] \in Called
    BY <1>8, <2>0, CallFacts DEF ReadSlot
  <2>2. /\ call'[k].stage = (IF slot[c] = NoTask THEN "ok" ELSE "holding") /\ call'[k].via = slot[c]
        /\ call'[k].conn = c /\ call'[k].op = call[k].op
        /\ \A j \in Calls : j # k => call'[j] = call[j]
    <3>1. PICK stage \in {"ok", "holding"}, via \in Calls \cup {NoTask} :
            stage = (IF slot[c] = NoTask THEN "ok" ELSE "holding") /\ via = slot[c]
      BY DEF TypeInv
    <3>2. /\ call'[k] = [call[k] EXCEPT !.stage = stage, !.via = via]
          /\ \A j \in Calls : j # k => call'[j] = call[j]
      BY <2>1, <3>1 DEF TypeInv
    <3>3. /\ call'[k].stage = stage /\ call'[k].via = via
          /\ call'[k].conn = call[k].conn /\ call'[k].op = call[k].op
      <4>1. call[k] \in Called
        BY <2>1
      <4>2. QED
        BY <3>2, <4>1 DEF Called
    <3>4. QED
      BY <2>0, <3>1, <3>2, <3>3
  <2>3. \A d \in Conns : slot'[d] = IF d = c /\ call[k].op = "close" THEN NoTask ELSE slot[d]
    BY <2>1 DEF TypeInv
  <2>4. \A j \in Calls : call[j].stage # "none" => call[j].conn \in Conns
    BY CallFacts DEF Called
  <2>5. \A j \in Calls : Running(j)' => Running(j)
    BY <2>1, <2>2 DEF Running
  <2>6. ASSUME NEW j \in Calls, call'[j].stage \in {"holding", "clearing"}, call'[j].op = "release",
               call'[j].conn \notin Shared
        PROVE  slot'[call'[j].conn] \in {NoTask, call'[j].via}
    <3>1. CASE j = k
      BY <2>2, <2>3, <2>6, <3>1
    <3>2. CASE j # k
      <4>1. call'[j] = call[j] /\ call[j].conn \in Conns /\ Private(j)
        BY <2>2, <2>4, <2>6, <3>2 DEF Private
      <4>2. slot[call[j].conn] \in {NoTask, call[j].via}
        BY <2>6, <4>1 DEF CloseInv
      <4>3. QED
        BY <2>3, <4>1, <4>2
    <3>3. QED
      BY <3>1, <3>2
  <2>7. \A u \in Tasks : Closing(u) => Closing(u)'
    <3>1. ASSUME NEW u \in Tasks, \E j \in Calls : call[j].stage = "holding" /\ Ends(j) /\ call[j].via = u
          PROVE  Closing(u)'
      BY <2>1, <2>2, <3>1 DEF Closing, Ends
    <3>2. ASSUME NEW u \in Tasks, \E i \in 1..Len(queue[u]) : Ends(queue[u][i])
          PROVE  Closing(u)'
      BY ZenonT(30), <1>v, <2>1, <2>2, <3>2 DEF Closing, Ends
    <3>3. QED
      BY <3>1, <3>2 DEF Closing
  <2>8. ASSUME NEW j \in Calls, call'[j].stage = "clearing"
        PROVE  /\ call'[j].op = "release"
               /\ \A u \in Tasks : call'[j].via = u => task'[u].st = "ended" \/ Closing(u)'
    <3>1. call'[j] = call[j] /\ call[j].stage = "clearing"
      BY <2>2, <2>8
    <3>2. call[j].op = "release" /\ (task[call[j].via].st = "ended" \/ Closing(call[j].via))
      BY <3>1 DEF CloseInv
    <3>3. QED
      BY <2>1, <2>7, <3>1, <3>2
  <2>9. ASSUME NEW u \in Tasks, Busy(u)' PROVE Closing(u)' \/ Kept(u)'
    <3>1. u # k /\ call'[u] = call[u]
      <4>1. task[k].st # "serving" /\ \A j \in Calls : Running(j) /\ j # k => call[j].via # k
        <5>1. task[k].st # "serving" /\ ~Began(k)
          BY <2>1 DEF CallInv, Began, NotSpawned
        <5>2. ASSUME NEW j \in Calls, Running(j), call[j].via = k PROVE FALSE
          BY <1>v, <5>1, <5>2 DEF CallInv, Running, Began
        <5>3. QED
          BY <5>1, <5>2
      <4>2. ~(Statement(k)')
        BY <2>1, <2>2 DEF Statement, Statements
      <4>3. u # k
        <5>1. CASE task'[u].st = "serving"
          BY <2>1, <4>1, <5>1
        <5>2. CASE \E j \in Calls : Statement(j)' /\ call'[j].via = u
          BY <2>2, <2>5, <4>1, <4>2, <5>2 DEF Statement
        <5>3. QED
          BY <2>9, <5>1, <5>2 DEF Busy
      <4>4. QED
        BY <2>2, <4>3
    <3>2. Busy(u)
      <4>1. Began(u) /\ Private(u) /\ task[u].st # "ended"
        BY <2>1, <2>9, <3>1 DEF Busy, Began, Private
      <4>2. ASSUME NEW j \in Calls, Statement(j)', call'[j].via = u PROVE Statement(j) /\ call[j].via = u
        <5>1. j # k
          BY <2>1, <2>2, <4>2 DEF Statement, Statements
        <5>2. QED
          BY <2>2, <2>5, <4>2, <5>1 DEF Statement
      <4>3. QED
        BY <2>1, <2>9, <4>1, <4>2 DEF Busy
    <3>3. Closing(u) \/ Kept(u)
      BY <3>2 DEF CloseInv
    <3>4. CASE Closing(u)
      BY <2>7, <3>4
    <3>5. CASE Kept(u) /\ ~(call[u].conn = c /\ call[k].op = "close")
      <4>1. call[u].conn \in Conns /\ slot'[call[u].conn] = slot[call[u].conn]
        BY <2>3, <2>4, <3>2, <3>5 DEF Busy, Began
      <4>2. ASSUME call[u].conn \in closed
            PROVE  \E j \in Calls : call'[j].stage = "ready" /\ call'[j].op = "close" /\ call'[j].conn = call[u].conn
        <5>1. PICK j \in Calls : call[j].stage = "ready" /\ call[j].op = "close" /\ call[j].conn = call[u].conn
          BY <3>5, <4>2 DEF Kept
        <5>2. j # k
          BY <2>0, <3>5, <5>1
        <5>3. QED
          BY <2>2, <5>1, <5>2
      <4>3. slot'[call'[u].conn] = u /\ closed' = closed
        BY <2>1, <3>1, <3>5, <4>1 DEF Kept
      <4>4. Kept(u)'
        BY <3>1, <4>2, <4>3 DEF Kept
      <4>5. QED
        BY <4>4
    <3>6. CASE Kept(u) /\ call[u].conn = c /\ call[k].op = "close"
      <4>1. slot[c] = u
        BY <3>6 DEF Kept
      <4>2. call'[k].stage = "holding" /\ call'[k].via = u /\ call'[k].op = "close"
        BY <1>v, <2>2, <3>6, <4>1
      <4>3. Closing(u)'
        BY <4>2 DEF Closing, Ends
      <4>4. QED
        BY <4>3
    <3>7. QED
      BY <3>3, <3>4, <3>5, <3>6
  <2>10. \A d \in leaky' : d \in Shared \/ (d \in dropped' /\ d \notin closed')
    BY <2>1 DEF CloseInv
  <2>11. QED
    BY <1>0, <2>1, <2>5, <2>6, <2>8, <2>9, <2>10
\* The task of a statement is the one in the slot, and the connection is open.
<1>9. ASSUME NEW k \in Calls, EnsureSender(k) PROVE CloseInv'
  <2>0. PICK c \in Conns : c = call[k].conn
    BY <1>9, CallFacts DEF EnsureSender, Called
  <2>r. /\ call[k].stage = "ready" /\ call[k].op \in Statements \cup {"auto", "manual"}
        /\ call[k] \in Called /\ task[k] = NotSpawned /\ task[k].st = "none" /\ ~Began(k)
        /\ UNCHANGED <<closed, dropped, leaky, queue>>
    BY SMTT(30), <1>9, CallFacts DEF EnsureSender, CallInv, Began, NotSpawned
  <2>1. PICK v \in Calls :
          /\ v = slot'[c] /\ (slot[c] = NoTask => v = k) /\ (slot[c] # NoTask => v = slot[c])
          /\ \A d \in Conns : d # c => slot'[d] = slot[d]
          /\ \A u \in Tasks : u # k => task'[u] = task[u]
          /\ task'[k].st \in {"none", "acquiring"}
    <3>1. CASE slot[c] = NoTask
      <4>1. slot' = [slot EXCEPT ![c] = k] /\ task' = [task EXCEPT ![k] = [st |-> "acquiring"]]
        BY <1>9, <2>0, <3>1 DEF EnsureSender
      <4>2. QED
        BY <3>1, <4>1 DEF TypeInv
    <3>2. CASE slot[c] # NoTask
      <4>1. UNCHANGED <<slot, task>> /\ slot[c] \in Calls
        BY <1>9, <2>0, <3>2 DEF EnsureSender, TypeInv
      <4>2. QED
        BY <2>r, <3>2, <4>1
    <3>3. QED
      BY <3>1, <3>2
  <2>2. /\ call'[k].stage = "holding" /\ call'[k].via = v /\ call'[k].conn = c /\ call'[k].op = call[k].op
        /\ \A j \in Calls : j # k => call'[j] = call[j]
    <3>1. call' = [call EXCEPT ![k].stage = "holding", ![k].via = v]
      BY <1>9, <2>0, <2>1 DEF EnsureSender
    <3>2. /\ call'[k] = [call[k] EXCEPT !.stage = "holding", !.via = v]
          /\ \A j \in Calls : j # k => call'[j] = call[j]
      BY <3>1 DEF TypeInv
    <3>3. call[k] \in Called
      BY <2>r
    <3>4. /\ call'[k].stage = "holding" /\ call'[k].via = v
          /\ call'[k].conn = call[k].conn /\ call'[k].op = call[k].op
      BY <3>2, <3>3 DEF Called
    <3>5. QED
      BY <2>0, <3>2, <3>4
  <2>4. \A j \in Calls : call[j].stage # "none" => call[j].conn \in Conns
    BY CallFacts DEF Called
  <2>5. \A j \in Calls : Running(j)' => Running(j)
    BY <2>2, <2>r DEF Running
  <2>6. ASSUME NEW j \in Calls, call'[j].stage \in {"holding", "clearing"}, call'[j].op = "release",
               call'[j].conn \notin Shared
        PROVE  slot'[call'[j].conn] \in {NoTask, call'[j].via}
    <3>1. j # k
      BY <2>2, <2>6, <2>r DEF Statements
    <3>2. call'[j] = call[j] /\ call[j].conn \in Conns /\ Private(j)
      BY <2>2, <2>4, <2>6, <3>1 DEF Private
    <3>3. call[j].conn # c
      <4>1. SUFFICES ASSUME call[j].conn = c PROVE j = k
        BY <3>1
      <4>2. /\ Running(j) /\ Running(k) /\ Private(k) /\ call[j].conn = call[k].conn
            /\ call[j].op # "close" /\ call[k].op # "close"
        BY <2>0, <2>6, <2>r, <3>2, <4>1 DEF Running, Private, Statements
      <4>3. QED
        BY <4>2 DEF CloseInv
    <3>4. slot[call[j].conn] \in {NoTask, call[j].via}
      BY <2>6, <3>2 DEF CloseInv
    <3>5. QED
      BY <2>1, <3>2, <3>3, <3>4
  <2>7. \A u \in Tasks : Closing(u) => Closing(u)'
    <3>1. ASSUME NEW u \in Tasks, \E j \in Calls : call[j].stage = "holding" /\ Ends(j) /\ call[j].via = u
          PROVE  Closing(u)'
      BY <2>r, <2>2, <3>1 DEF Closing, Ends
    <3>2. ASSUME NEW u \in Tasks, \E i \in 1..Len(queue[u]) : Ends(queue[u][i])
          PROVE  Closing(u)'
      BY <1>v, <2>r, <2>2, <3>2 DEF Closing, Ends
    <3>3. QED
      BY <3>1, <3>2 DEF Closing
  <2>8. ASSUME NEW j \in Calls, call'[j].stage = "clearing"
        PROVE  /\ call'[j].op = "release"
               /\ \A u \in Tasks : call'[j].via = u => task'[u].st = "ended" \/ Closing(u)'
    <3>1. call'[j] = call[j] /\ call[j].stage = "clearing"
      BY <2>2, <2>8
    <3>2. call[j].op = "release" /\ (task[call[j].via].st = "ended" \/ Closing(call[j].via))
      BY <3>1 DEF CloseInv
    <3>3. \A u \in Tasks : task[u].st = "ended" => task'[u].st = "ended"
      BY <2>1, <2>r
    <3>4. QED
      BY <2>7, <3>1, <3>2, <3>3
  <2>k. Statement(k) /\ c \notin Shared => c \notin closed'
    BY <2>0, <2>r DEF CloseInv, Private
  <2>s. \A j \in Calls : Statement(j)' => Statement(j)
    BY <2>2, <2>5 DEF Statement
  <2>9. ASSUME NEW u \in Tasks, Busy(u)' PROVE Closing(u)' \/ Kept(u)'
    <3>0. call'[u].conn \notin Shared
      BY <2>9 DEF Busy, Private
    \* The statement found its task in the slot, or put it there.
    <3>1. CASE Statement(k) /\ v = u
      <4>1. call'[u].conn = c
        <5>1. CASE u = k
          BY <2>2, <5>1
        <5>2. CASE u # k
          BY <2>1, <2>2, <3>1, <5>2 DEF CallInv
        <5>3. QED
          BY <5>1, <5>2
      <4>2. slot'[c] = u /\ c \notin closed'
        BY <2>1, <2>k, <3>0, <3>1, <4>1
      <4>3. Kept(u)'
        BY <4>1, <4>2 DEF Kept
      <4>4. QED
        BY <4>3
    <3>2. CASE ~(Statement(k) /\ v = u)
      <4>1. \/ task'[u].st = "serving" /\ task'[u].inTxn
            \/ \E j \in Calls : j # k /\ Statement(j) /\ call[j].via = u
        BY <2>2, <2>9, <2>s, <3>2 DEF Busy
      <4>2. u # k
        <5>1. SUFFICES ASSUME u = k PROVE FALSE
          OBVIOUS
        <5>2. PICK j \in Calls : Running(j) /\ call[j].via = k
          BY <2>1, <4>1, <5>1 DEF Statement
        <5>3. QED
          BY <1>v, <2>r, <5>2 DEF CallInv, Running, Began
      <4>3. Busy(u) /\ call'[u] = call[u] /\ task'[u] = task[u]
        BY <2>1, <2>2, <2>9, <4>1, <4>2 DEF Busy, Began, Private
      <4>4. Closing(u) \/ Kept(u)
        BY <4>3 DEF CloseInv
      <4>5. CASE Closing(u)
        BY <2>7, <4>5
      <4>6. CASE Kept(u)
        <5>1. slot[call[u].conn] = u /\ call[u].conn \in Conns
          BY <2>4, <4>3, <4>6 DEF Kept, Busy, Began
        <5>2. slot'[call[u].conn] = u
          BY <1>v, <2>1, <5>1
        <5>3. ASSUME call[u].conn \in closed
              PROVE  \E j \in Calls : call'[j].stage = "ready" /\ call'[j].op = "close" /\ call'[j].conn = call[u].conn
          <6>1. PICK j \in Calls : call[j].stage = "ready" /\ call[j].op = "close" /\ call[j].conn = call[u].conn
            BY <4>6, <5>3 DEF Kept
          <6>2. j # k
            BY <2>r, <6>1 DEF Statements
          <6>3. QED
            BY <2>2, <6>1, <6>2
        <5>4. Kept(u)'
          BY <2>r, <4>3, <5>2, <5>3 DEF Kept
        <5>5. QED
          BY <5>4
      <4>7. QED
        BY <4>4, <4>5, <4>6
    <3>3. QED
      BY <3>1, <3>2
  <2>10. \A d \in leaky' : d \in Shared \/ (d \in dropped' /\ d \notin closed')
    BY <2>r DEF CloseInv
  <2>11. QED
    BY <1>0, <2>r, <2>5, <2>6, <2>8, <2>9, <2>10
\* A new call: its thread had no other one running, and a statement finds the
\* connection open.
<1>10. ASSUME NEW k \in Calls, NEW c \in Conns, NEW op \in Ops, Start(k, c, op) PROVE CloseInv'
  <2>1. /\ call[k].stage = "none" /\ MayCall(c, op) /\ UNCHANGED <<slot, dropped, task, queue, leaky>>
        /\ closed' = IF op = "close" THEN closed \cup {c} ELSE closed
        /\ call'[k].stage = "ready" /\ call'[k].conn = c /\ call'[k].op = op /\ call'[k].via = NoTask
        /\ \A j \in Calls : j # k => call'[j] = call[j]
    BY <1>10 DEF Start, NoCall, TypeInv
  <2>2. \A j \in Calls : Running(j) /\ call[j].conn = c /\ call[j].op # "close" => c \in Shared
    <3>1. ASSUME NEW j \in Calls, Running(j), call[j].conn = c, call[j].op # "close" PROVE Waiting(c)
      BY <3>1 DEF Waiting, CallsOf, Running
    <3>2. QED
      BY <2>1, <3>1 DEF MayCall
  <2>3. c \notin dropped /\ (op \in Statements => c \notin closed)
    BY <2>1 DEF MayCall
  <2>4. \A j \in Calls : Running(j)' <=> Running(j) \/ j = k
    BY <2>1 DEF Running
  <2>5. ASSUME NEW i \in Calls, NEW j \in Calls, Running(i)', Running(j)', Private(j)',
               call'[i].conn = call'[j].conn, call'[i].op # "close", call'[j].op # "close"
        PROVE  i = j
    <3>1. CASE i # k /\ j # k
      BY <2>1, <2>4, <2>5, <3>1 DEF CloseInv, Private
    <3>2. CASE i = k /\ j # k
      BY <2>1, <2>2, <2>4, <2>5, <3>2 DEF Private
    <3>3. CASE i # k /\ j = k
      BY <2>1, <2>2, <2>4, <2>5, <3>3 DEF Private
    <3>4. QED
      BY <3>1, <3>2, <3>3
  <2>6. ASSUME NEW j \in Calls, Statement(j)', Private(j)' PROVE call'[j].conn \notin closed'
    <3>1. CASE j = k
      BY <2>1, <2>3, <2>6, <3>1 DEF Statement, Statements
    <3>2. CASE j # k
      <4>1. call'[j] = call[j] /\ Running(j) /\ call[j].op \in Statements /\ Private(j)
        BY <2>1, <2>4, <2>6, <3>2 DEF Statement, Private
      <4>2. call[j].conn \notin closed
        BY <4>1 DEF CloseInv, Statement
      <4>3. call[j].conn # c
        BY <2>2, <4>1 DEF Private, Statements
      <4>4. QED
        BY <2>1, <4>1, <4>2, <4>3
    <3>3. QED
      BY <3>1, <3>2
  <2>7. ASSUME NEW j \in Calls, call'[j].stage \in {"holding", "clearing"}, call'[j].op = "release", Private(j)'
        PROVE  slot'[call'[j].conn] \in {NoTask, call'[j].via}
    BY <2>1, <2>7 DEF CloseInv, Private
  <2>8. \A u \in Tasks : Closing(u) => Closing(u)'
    <3>1. ASSUME NEW u \in Tasks, \E j \in Calls : call[j].stage = "holding" /\ Ends(j) /\ call[j].via = u
          PROVE  Closing(u)'
      BY <2>1, <3>1 DEF Closing, Ends
    <3>2. ASSUME NEW u \in Tasks, \E i \in 1..Len(queue[u]) : Ends(queue[u][i])
          PROVE  Closing(u)'
      <4>1. PICK i \in 1..Len(queue[u]) : Ends(queue[u][i])
        BY <3>2
      <4>2. queue[u][i] \in Calls /\ queue[u][i] # k
        BY <1>v, <2>1 DEF Began
      <4>3. QED
        BY <2>1, <4>1, <4>2 DEF Closing, Ends
    <3>3. QED
      BY <3>1, <3>2 DEF Closing
  <2>9. ASSUME NEW j \in Calls, call'[j].stage = "clearing"
        PROVE  /\ call'[j].op = "release"
               /\ \A u \in Tasks : call'[j].via = u => task'[u].st = "ended" \/ Closing(u)'
    <3>1. call'[j] = call[j] /\ call[j].stage = "clearing"
      BY <2>1, <2>9
    <3>2. call[j].op = "release" /\ (task[call[j].via].st = "ended" \/ Closing(call[j].via))
      BY <3>1 DEF CloseInv
    <3>3. QED
      BY <2>1, <2>8, <3>1, <3>2
  <2>10. ASSUME NEW u \in Tasks, Busy(u)' PROVE Closing(u)' \/ Kept(u)'
    <3>1. u # k /\ call'[u] = call[u] /\ Began(u) /\ call[u].conn \notin Shared
      BY <2>1, <2>10 DEF Busy, Began, Private
    <3>2. ASSUME NEW j \in Calls, Statement(j)', call'[j].via = u PROVE Statement(j) /\ call[j].via = u
      <4>1. j # k
        BY <1>v, <2>1, <3>2
      <4>2. QED
        BY <2>1, <2>4, <3>2, <4>1 DEF Statement
    <3>3. Busy(u)
      BY <2>1, <2>10, <3>1, <3>2 DEF Busy, Private
    <3>4. Closing(u) \/ Kept(u)
      BY <3>3 DEF CloseInv
    <3>5. CASE Closing(u)
      BY <2>8, <3>5
    <3>6. CASE Kept(u)
      <4>1. ASSUME call[u].conn \in closed'
            PROVE  \E j \in Calls : call'[j].stage = "ready" /\ call'[j].op = "close" /\ call'[j].conn = call[u].conn
        <5>1. CASE call[u].conn \in closed
          <6>1. PICK j \in Calls : call[j].stage = "ready" /\ call[j].op = "close" /\ call[j].conn = call[u].conn
            BY <3>6, <5>1 DEF Kept
          <6>2. j # k
            BY <2>1, <6>1
          <6>3. QED
            BY <2>1, <6>1, <6>2
        <5>2. CASE call[u].conn \notin closed
          BY <2>1, <4>1, <5>2
        <5>3. QED
          BY <5>1, <5>2
      <4>2. slot'[call'[u].conn] = u
        BY <2>1, <3>1, <3>6 DEF Kept
      <4>3. Kept(u)'
        BY <3>1, <4>1, <4>2 DEF Kept
      <4>4. QED
        BY <4>3
    <3>7. QED
      BY <3>4, <3>5, <3>6
  <2>11. \A d \in leaky' : d \in Shared \/ (d \in dropped' /\ d \notin closed')
    BY <2>1, <2>3 DEF CloseInv
  <2>12. \A j \in Calls : call'[j].stage = "clearing" =>
           task'[call'[j].via].st = "ended" \/ Closing(call[j].via)'
    BY <1>v, <2>9 DEF Closing
  <2>13. QED
    BY <2>5, <2>6, <2>7, <2>9, <2>10, <2>11, <2>12 DEF CloseInv
\* No sender is left, and nobody closed the connection.
<1>11. ASSUME NEW t \in Tasks, SendersGone(t) PROVE CloseInv'
  <2>1. /\ EndTask(t) /\ UNCHANGED <<slot, closed, dropped>> /\ queue[t] = << >> /\ ~HasSender(t)
        /\ task[t].st \in {"serving", "failed"}
        /\ \/ UNCHANGED leaky
           \/ /\ task[t].st = "serving" /\ task[t].clean /\ txn[task[t].session] \in {"open", "aborted"}
              /\ leaky' = leaky \cup {call[t].conn}
    BY <1>11 DEF SendersGone
  <2>2. CASE UNCHANGED leaky
    BY <1>4, <2>1, <2>2 DEF CloseInv
  <2>3. CASE /\ task[t].st = "serving" /\ task[t].clean /\ txn[task[t].session] \in {"open", "aborted"}
             /\ leaky' = leaky \cup {call[t].conn}
    <3>1. task[t].inTxn /\ Began(t)
      BY <2>3, ServingFacts DEF CallInv, NotSpawned
    <3>2. \A k \in Calls : Running(k) /\ Began(k) /\ call[k].via = t => FALSE
      <4>1. ASSUME NEW k \in Calls, Running(k), Began(k), call[k].via = t PROVE HasSender(t)
        <5>1. call[k].conn = call[t].conn /\ call[k].stage # "none"
          BY <1>v, <4>1 DEF CallInv, Running
        <5>2. QED
          BY <4>1, <5>1 DEF HasSender, CallsOf
      <4>2. QED
        BY <2>1, <4>1
    <3>3. ~Closing(t)
      <4>1. ~\E k \in Calls : call[k].stage = "holding" /\ Ends(k) /\ call[k].via = t
        BY <3>2 DEF Running, Began
      <4>2. Len(queue[t]) = 0
        BY <2>1
      <4>3. ~\E i \in 1..Len(queue[t]) : Ends(queue[t][i])
        BY <4>2
      <4>4. QED
        BY <4>1, <4>3 DEF Closing
    <3>4. ASSUME call[t].conn \notin Shared
          PROVE  call[t].conn \in dropped /\ call[t].conn \notin closed
      <4>1. Busy(t)
        BY <2>3, <3>1, <3>4 DEF Busy, Private
      <4>2. Kept(t)
        BY <3>3, <4>1 DEF CloseInv
      <4>3. call[t].conn \in dropped /\ ~\E k \in CallsOf(call[t].conn) : Running(k)
        BY <2>1, <4>2 DEF HasSender, Kept
      <4>4. call[t].conn \notin closed
        BY <4>2, <4>3 DEF Kept, CallsOf, Running
      <4>5. QED
        BY <4>3, <4>4
    <3>5. \A c \in leaky' : c \in Shared \/ (c \in dropped' /\ c \notin closed')
      BY <2>1, <2>3, <3>4 DEF CloseInv
    <3>6. QED
      BY <1>4, <2>1, <3>5
  <2>4. QED
    BY <2>1, <2>2, <2>3
<1>12. ASSUME NEW t \in Tasks, TaskStep(t) PROVE CloseInv'
  <2>1. ASSUME NEW k \in Calls, Serve(t, k),
               task'[t].inTxn => task[t].inTxn \/ call[k].op \in Statements
        PROVE  CloseInv'
    BY <1>3, <2>1 DEF Serve
  <2>2. ASSUME NEW k \in Calls, NEW op \in Statements, Execute(t, k, op) PROVE CloseInv'
    BY <2>1, <2>2, ExecuteEffect
  <2>3. ASSUME NEW k \in Calls, Commit(t, k) \/ Rollback(t, k) PROVE CloseInv'
    BY <2>1, <2>3, CommitEffect, RollbackEffect
  <2>4. ASSUME NEW k \in Calls, NEW value \in BOOLEAN, SetAutoCommit(t, k, value) PROVE CloseInv'
    BY <2>1, <2>4, SetAutoCommitEffect
  <2>5. CASE Close(t)
    <3>1. EndTask(t) /\ UNCHANGED <<slot, closed, dropped, leaky>>
      BY <2>5 DEF Close
    <3>2. QED
      BY <1>4, <3>1 DEF CloseInv
  <2>6. CASE Drain(t)
    <3>1. UNCHANGED <<slot, closed, dropped, leaky>> /\ task[t].st = "failed" /\ queue[t] # << >>
      BY <2>6 DEF Drain
    <3>2. CASE EndTask(t)
      BY <1>4, <3>1, <3>2 DEF CloseInv
    <3>3. CASE Answer(t, Head(queue[t]), FALSE) /\ UNCHANGED task /\ ~Ends(Head(queue[t]))
      BY <1>3, <3>1, <3>3, HeadFacts DEF Answer
    <3>4. QED
      BY <2>6, <3>2, <3>3 DEF Drain, Ends
  <2>7. QED
    BY <1>11, <1>12, <2>2, <2>3, <2>4, <2>5, <2>6 DEF TaskStep
<1>13. ASSUME NEW t \in Tasks, Acquire(t) \/ AcquireFails(t) PROVE CloseInv'
  <2>1. UNCHANGED <<slot, closed, call, queue, leaky, dropped>> /\ task[t].st = "acquiring"
    BY <1>13 DEF Acquire, AcquireFails
  <2>2. \A u \in Tasks : u # t => task'[u] = task[u]
    BY <1>13 DEF Acquire, AcquireFails, TypeInv
  <2>3. ~(task'[t].st = "serving" /\ task'[t].inTxn)
    <3>1. CASE Acquire(t)
      <4>1. PICK s, b : task' = [task EXCEPT ![t] = [st |-> "serving", session |-> s, auto |-> FALSE,
                                                     inTxn |-> FALSE, ours |-> {}, clean |-> b]]
        BY <3>1 DEF Acquire
      <4>2. task'[t].inTxn = FALSE
        BY <4>1 DEF TypeInv
      <4>3. QED
        BY <4>2
    <3>2. CASE AcquireFails(t)
      BY <3>2 DEF AcquireFails, TypeInv
    <3>3. QED
      BY <1>13, <3>1, <3>2
  <2>4. QED
    BY <1>2, <2>1, <2>2, <2>3
<1>14. CASE (\E c \in Conns : DropConn(c)) \/ (\E s \in Sessions : BreakSession(s)) \/ UNCHANGED vars
  <2>1. UNCHANGED <<slot, closed, call, queue, leaky, task>> /\ dropped \subseteq dropped'
    BY <1>14 DEF DropConn, BreakSession, vars
  <2>2. QED
    BY <1>2, <2>1
<1>15. QED
  BY <1>5, <1>6, <1>7, <1>8, <1>9, <1>10, <1>12, <1>13, <1>14 DEF Next, CallStep

-----------------------------------------------------------------------------
(* The theorems. *)

\* Nothing is called and the sessions are idle at the start.
LEMMA InitHolds == Init => IInv
<1> SUFFICES ASSUME Init PROVE IInv
  OBVIOUS
<1> USE DEF Tasks
<1>1. /\ \A k \in Calls : call[k].stage = "none" /\ task[k] = NotSpawned /\ queue[k] = << >>
      /\ Serving = {} /\ \A k \in Calls : ~Running(k) /\ ~Began(k)
  <2>1. \A k \in Calls : call[k].stage = "none" /\ task[k] = NotSpawned /\ queue[k] = << >>
    BY DEF Init, NoCall
  <2>2. QED
    BY <2>1 DEF NotSpawned, Running, Began, Serving
<1>2. TypeInv
  <2>1. << >> \in Seq(Calls) /\ NotSpawned \in Idle
    BY DEF NotSpawned, Idle
  <2>2. QED
    BY <2>1 DEF Init, TypeInv
<1>3. CallInv
  <2>1. \A t \in Tasks : Len(queue[t]) = 0
    BY <1>1
  <2>2. \A t \in Tasks : 1..Len(queue[t]) = {}
    BY <2>1
  <2>3. \A c \in Conns : slot[c] = NoTask
    BY DEF Init
  <2>4. QED
    BY <1>1, <2>2, <2>3 DEF CallInv
<1>4. SessionInv
  BY <1>1 DEF SessionInv, Init
<1>5. WriteInv
  BY <1>1 DEF WriteInv, Done, Init
<1>6. ApartInv
  BY <1>1 DEF ApartInv, Init
<1>7. CloseInv
  BY <1>1 DEF CloseInv, Busy, Statement, Init
<1>8. QED
  BY <1>2, <1>3, <1>4, <1>5, <1>6, <1>7 DEF IInv

\* A step keeps the whole invariant.
LEMMA StepHolds == IInv /\ [Next]_vars => IInv'
<1> SUFFICES ASSUME IInv, [Next]_vars PROVE IInv'
  OBVIOUS
<1>1. TypeInv /\ CallInv /\ SessionInv /\ WriteInv /\ ApartInv /\ CloseInv
  BY DEF IInv
<1>2. TypeInv'
  BY <1>1, TypeStep
<1>3. CallInv'
  BY <1>1, <1>2, CallStepInv
<1>4. SessionInv' /\ WriteInv' /\ ApartInv' /\ CloseInv'
  BY <1>1, <1>2, <1>3, SessionStep, WriteStep, ApartStep, CloseStep
<1>5. QED
  BY <1>2, <1>3, <1>4 DEF IInv

\* The invariant holds in every state, whatever calls the program makes and
\* whatever sessions break.
THEOREM SpecInvariant == Spec => []IInv
<1>1. QED
  BY InitHolds, StepHolds, PTL DEF Spec

\* A session is the pool's or one task's, and the in_transaction flag of a task on
\* a session that came clean is the state of its transaction.
THEOREM SpecFlagMatchesServer == Spec => []FlagMatchesServer
<1>1. IInv => FlagMatchesServer
  <2> SUFFICES ASSUME IInv PROVE FlagMatchesServer
    OBVIOUS
  <2>1. TypeInv /\ SessionInv
    BY DEF IInv
  <2>2. ASSUME NEW t \in Serving, task[t].clean, txn[task[t].session] # "broken"
        PROVE  task[t].inTxn <=> txn[task[t].session] # "idle"
    BY <2>1, <2>2, ServingFacts DEF Serving
  <2>3. QED
    BY <2>1, <2>2 DEF SessionInv, FlagMatchesServer
<1>2. QED
  BY <1>1, SpecInvariant, PTL

\* What a commit, or a write in autocommit, was told to be stored is stored, and
\* what a rollback or Close took back never is.
THEOREM SpecAnswersHold == Spec => []AnswersHold
<1>1. IInv => AnswersHold
  BY DEF IInv, WriteInv, AnswersHold
<1>2. QED
  BY <1>1, SpecInvariant, PTL

\* Writes of another connection are stored only when they were left behind by one
\* dropped without Close; and a connection of one thread that was closed leaves
\* no transaction in the pool.
THEOREM SpecTransactionsStayApart == Spec => []TransactionsStayApart
<1>1. IInv => TransactionsStayApart
  BY DEF IInv, ApartInv, CloseInv, TransactionsStayApart
<1>2. QED
  BY <1>1, SpecInvariant, PTL
=============================================================================
