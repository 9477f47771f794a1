-------------------------- MODULE BatchWriterProofs --------------------------
(***************************************************************************)
(* Why what flush and aclose promise is true when they return.             *)
(*                                                                         *)
(* As long as nothing has failed, the rows that were put are, in the order *)
(* they were put: those stored, those the thread holds, those in the       *)
(* queue.  The controls stand between the rows of the queue, so the        *)
(* invariant counts: seen[q] is how many of the accepted rows the thread   *)
(* has when it has taken the first q items of the queue.  The rows a       *)
(* control vouches for are among those it comes after.                     *)
(***************************************************************************)
EXTENDS BatchWriter, SequenceTheorems, TLAPS

Taken == Len(stored) + Len(batch)

(* The first k of the rows hold all that the task t has to send. *)
AllWithin(rows, t, k) ==
  \A n \in 1..Rows : \E i \in 1..k : rows[i] = RowItem(t, n)

(* What the control of c vouches for when k of the rows come before it. *)
Vouched(rows, c, k) == IF c = Main THEN k = Len(rows) ELSE AllWithin(rows, c, k)

StoredFirst ==
  /\ Len(stored) <= Len(accepted)
  /\ \A i \in 1..Len(stored) : stored[i] = accepted[i]

BatchNext ==
  /\ Taken <= Len(accepted)
  /\ \A i \in 1..Len(batch) : batch[i] = accepted[Len(stored) + i]

Counts(seen) ==
  /\ seen[0] = Taken
  /\ seen[Len(queue)] = Len(accepted)
  /\ \A q \in 1..Len(queue) :
        /\ queue[q].row => seen[q] = seen[q - 1] + 1 /\ accepted[seen[q]] = queue[q]
        /\ ~queue[q].row => seen[q] = seen[q - 1] /\ Vouched(accepted, queue[q].of, seen[q])

QueueLast == \E seen \in [0..Len(queue) -> 0..Len(accepted)] : Counts(seen)

(* The control that is served, and those that have been answered. *)
ServedRight == serving # NoClient => Vouched(accepted, serving, Taken)

AnsweredRight ==
  /\ \A t \in answered \cap Task : AllWithin(accepted, t, Len(stored))
  /\ Main \in answered => /\ thread = "ended" /\ batch = <<>>
                          /\ Len(stored) = Len(accepted)

(* Nothing has failed. *)
Sound ==
  ~failure => /\ BatchNext /\ QueueLast /\ ServedRight /\ AnsweredRight
              /\ counted = Len(stored)

ThreadShape ==
  /\ thread \in {"get", "commit"} => ~failure
  /\ thread = "get" => serving = NoClient /\ Len(batch) < BatchSize
  /\ thread = "draining" => failure

(* The rows a task says it has sent were accepted; a flush follows the last *)
(* one.                                                                     *)
TaskShape ==
  \A t \in Task :
    /\ \A n \in 1..sent[t] : \E i \in 1..Len(accepted) : accepted[i] = RowItem(t, n)
    /\ pc[t] = "flush" => sent[t] = Rows
    /\ pc[t] = "submit" => sent[t] < Rows
    /\ pc[t] # "close"
    /\ pc[t] = "ok" => AllWithin(accepted, t, Len(stored))

MainAsked ==
  \/ \E q \in 1..Len(queue) : ~queue[q].row /\ queue[q].of = Main
  \/ serving = Main
  \/ Main \in answered

(* execute_job closes when all tasks are over, and its control is nowhere  *)
(* before it closes.                                                       *)
MainShape ==
  /\ pc[Main] \in {"collect", "close", "wait", "ok", "raised"}
  /\ pc[Main] # "collect" => \A t \in Task : Over(t)
  /\ pc[Main] = "ok" => Main \in answered /\ ~failure
  /\ MainAsked => pc[Main] # "collect"

PutShape == between # NoClient => between \in Client /\ Putting(between)

IInv ==
  /\ TypeOK /\ ThreadShape /\ StoredFirst /\ Sound
  /\ TaskShape /\ MainShape /\ PutShape

-----------------------------------------------------------------------------
(* Rows that were accepted stay where they are. *)

Grows ==
  /\ Len(accepted) <= Len(accepted')
  /\ \A i \in 1..Len(accepted) : accepted'[i] = accepted[i]

LEMMA Lengths ==
  ASSUME TypeOK
  PROVE  /\ Len(queue) \in Nat /\ Len(batch) \in Nat /\ Len(stored) \in Nat
         /\ Len(accepted) \in Nat /\ Taken \in Nat
  BY LenProperties DEF TypeOK, Taken

LEMMA WithinStays ==
  ASSUME TypeOK, Grows, NEW t, NEW k \in Nat, NEW m \in Nat, k <= m,
         k <= Len(accepted), AllWithin(accepted, t, k)
  PROVE  AllWithin(accepted', t, m)
<1> SUFFICES ASSUME NEW n \in 1..Rows
             PROVE  \E i \in 1..m : accepted'[i] = RowItem(t, n)
  BY DEF AllWithin
<1>1. PICK i \in 1..k : accepted[i] = RowItem(t, n)
  BY DEF AllWithin
<1>2. i \in 1..m /\ i \in 1..Len(accepted)
  BY Lengths
<1>3. QED
  BY <1>1, <1>2 DEF Grows

LEMMA CountsBounds ==
  ASSUME TypeOK, NEW seen \in [0..Len(queue) -> 0..Len(accepted)],
         NEW q \in 1..Len(queue)
  PROVE  /\ q \in 0..Len(queue) /\ q - 1 \in 0..Len(queue)
         /\ seen[q] \in 0..Len(accepted) /\ seen[q - 1] \in 0..Len(accepted)
         /\ 0 \in 0..Len(queue) /\ Len(queue) \in 0..Len(queue)
         /\ queue[q] \in Row
<1>1. Len(queue) \in Nat /\ Len(accepted) \in Nat
  BY Lengths
<1>2. /\ q \in 0..Len(queue) /\ q - 1 \in 0..Len(queue)
      /\ 0 \in 0..Len(queue) /\ Len(queue) \in 0..Len(queue)
  BY <1>1
<1>3. queue[q] \in Row
  BY ElementOfSeq DEF TypeOK
<1>4. QED
  BY <1>2, <1>3

-----------------------------------------------------------------------------
(* Steps of the clients that put nothing. *)

LEMMA DataStays ==
  ASSUME IInv, UNCHANGED <<queueVars, threadVars, answered>>
  PROVE  ThreadShape' /\ StoredFirst' /\ Sound' /\ (MainAsked' <=> MainAsked)
<1> USE DEF queueVars, threadVars
<1>1. ThreadShape' /\ StoredFirst' /\ (MainAsked' <=> MainAsked)
  BY DEF IInv, ThreadShape, StoredFirst, MainAsked
<1>2. Sound'
  <2> SUFFICES ASSUME ~failure
               PROVE  (/\ BatchNext /\ QueueLast /\ ServedRight /\ AnsweredRight
                       /\ counted = Len(stored))'
    BY DEF Sound
  <2>1. /\ BatchNext /\ QueueLast /\ ServedRight /\ AnsweredRight
        /\ counted = Len(stored)
    BY DEF IInv, Sound
  <2>2. (BatchNext /\ ServedRight /\ AnsweredRight /\ counted = Len(stored))'
    BY <2>1 DEF BatchNext, Taken, ServedRight, Vouched, AnsweredRight, AllWithin
  <2>3. QueueLast'
    BY <2>1 DEF QueueLast, Counts, Taken, Vouched, AllWithin
  <2>4. QED
    BY <2>2, <2>3
<1>3. QED
  BY <1>1, <1>2

LEMMA TaskMoves ==
  ASSUME IInv, NEW t \in Task, ~Over(t), between = NoClient,
         NEW p \in Place \ {"close"}, pc' = [pc EXCEPT ![t] = p],
         UNCHANGED <<queueVars, threadVars, sent, between, answered>>,
         p = "flush" => sent[t] = Rows, p = "submit" => sent[t] < Rows,
         p = "ok" => AllWithin(accepted, t, Len(stored))
  PROVE  IInv'
<1> USE DEF queueVars, threadVars
<1>1. t \in Client /\ t # Main /\ pc[Main] = "collect"
  BY WriterAssumption DEF Client, IInv, MainShape
<1>2. TypeOK'
  BY <1>1 DEF IInv, TypeOK
<1>3. \A u \in Task : pc'[u] = IF u = t THEN p ELSE pc[u]
  BY <1>1 DEF IInv, TypeOK, Client
<1>4. TaskShape'
  BY <1>3 DEF IInv, TaskShape, AllWithin
<1>5. MainShape'
  <2>1. pc'[Main] = "collect"
    BY <1>1 DEF IInv, TypeOK, Client
  <2>2. ~MainAsked'
    BY <1>1, DataStays DEF IInv, MainShape
  <2>3. QED
    BY <2>1, <2>2 DEF MainShape
<1>6. PutShape'
  BY DEF PutShape
<1>7. QED
  BY <1>2, <1>4, <1>5, <1>6, DataStays DEF IInv

LEMMA MainMoves ==
  ASSUME IInv, between = NoClient, \A t \in Task : Over(t),
         NEW p \in {"close", "raised", "ok"}, pc' = [pc EXCEPT ![Main] = p],
         UNCHANGED <<queueVars, threadVars, sent, between, answered>>,
         p = "ok" => Main \in answered /\ ~failure
  PROVE  IInv'
<1> USE DEF queueVars, threadVars
<1>1. TypeOK'
  BY DEF IInv, TypeOK, Place
<1>2. \A t \in Task : pc'[t] = pc[t]
  BY WriterAssumption DEF IInv, TypeOK, Client
<1>3. TaskShape'
  BY <1>2 DEF IInv, TaskShape, AllWithin
<1>4. MainShape'
  <2>1. pc'[Main] = p
    BY DEF IInv, TypeOK, Client
  <2>2. QED
    BY <1>2, <2>1 DEF MainShape, Over
<1>5. PutShape'
  BY DEF PutShape
<1>6. QED
  BY <1>1, <1>3, <1>4, <1>5, DataStays DEF IInv

LEMMA CallsStep ==
  ASSUME IInv, NEW c \in Client, NEW p, Calls(c, p)
  PROVE  IInv'
<1>1. CASE c = Main
  BY <1>1, MainMoves DEF Calls
<1>2. CASE c # Main
  <2>1. c \in Task /\ ~Over(c) /\ sent[c] \in 0..Rows
    BY <1>2 DEF Client, Calls, Over, IInv, TypeOK
  <2>2. /\ p \in Place \ {"close"} /\ p # "ok"
        /\ p = "flush" => sent[c] = Rows
        /\ p = "submit" => sent[c] < Rows
    BY <1>2 DEF Calls, Place
  <2>3. QED
    BY <2>1, <2>2, TaskMoves DEF Calls
<1>3. QED
  BY <1>1, <1>2

LEMMA CheckStep ==
  ASSUME IInv, NEW c \in Client, Check(c)
  PROVE  IInv'
<1>1. CASE failure /\ c \in Task
  <2>1. PICK p \in {"failed", "raised"} : pc' = [pc EXCEPT ![c] = p]
    BY <1>1 DEF Check
  <2>2. ~Over(c)
    BY DEF Check, Putting, Over
  <2>3. QED
    BY <1>1, <2>1, <2>2, TaskMoves DEF Check, Place
<1>2. CASE failure /\ c = Main
  <2>1. pc[Main] = "close"
    BY <1>2 DEF Check, Putting, IInv, MainShape
  <2>2. pc' = [pc EXCEPT ![Main] = "raised"] /\ \A t \in Task : Over(t)
    BY <1>2, <2>1 DEF Check, IInv, MainShape, TypeOK
  <2>3. QED
    BY <1>2, <2>2, MainMoves DEF Check
<1>3. CASE ~failure
  <2>1. /\ between' = c /\ UNCHANGED <<queueVars, threadVars, pc, sent, answered>>
    BY <1>3 DEF Check
  <2>2. TypeOK' /\ TaskShape' /\ MainShape'
    BY <2>1, DataStays
       DEF IInv, TypeOK, TaskShape, MainShape, Over, AllWithin, queueVars, threadVars
  <2>3. PutShape'
    BY <2>1 DEF PutShape, Check, Putting
  <2>4. QED
    BY <2>1, <2>2, <2>3, DataStays DEF IInv
<1>4. QED
  BY <1>1, <1>2, <1>3 DEF Client

LEMMA PutFullStep ==
  ASSUME IInv, NEW c \in Client, PutFull(c)
  PROVE  IInv'
<1>1. between' = NoClient /\ UNCHANGED <<queueVars, threadVars, pc, sent, answered>>
  BY DEF PutFull
<1>2. TypeOK' /\ TaskShape' /\ MainShape' /\ PutShape'
  BY <1>1, DataStays
     DEF IInv, TypeOK, TaskShape, MainShape, PutShape, Over, AllWithin, queueVars, threadVars
<1>3. QED
  BY <1>1, <1>2, DataStays DEF IInv

\* What is answered and has not failed is stored.
LEMMA ReturnStep ==
  ASSUME IInv, NEW c \in Client, Return(c)
  PROVE  IInv'
<1>1. PICK p \in {"raised", "ok"} : /\ pc' = [pc EXCEPT ![c] = p]
                                    /\ p = "ok" => ~failure
  BY DEF Return
<1>2. CASE c \in Task
  <2>1. p = "ok" => AllWithin(accepted, c, Len(stored))
    BY <1>1, <1>2 DEF Return, IInv, Sound, AnsweredRight
  <2>2. ~Over(c)
    BY DEF Return, Over
  <2>3. QED
    BY <1>1, <1>2, <2>1, <2>2, TaskMoves DEF Return, Place
<1>3. CASE c = Main
  <2>1. \A t \in Task : Over(t)
    BY <1>3 DEF Return, IInv, MainShape
  <2>2. QED
    BY <1>1, <1>3, <2>1, MainMoves DEF Return
<1>4. QED
  BY <1>2, <1>3 DEF Client

LEMMA CancelStep ==
  ASSUME IInv, NEW t \in Task, Cancel(t)
  PROVE  IInv'
  BY TaskMoves DEF Cancel, Place

-----------------------------------------------------------------------------
(* Putting a row or a control into the queue. *)

\* The count goes on from the end of the queue.
LEMMA QueueExtended ==
  ASSUME TypeOK, Grows, QueueLast, Taken' = Taken, TypeOK',
         NEW item \in Row, queue' = Append(queue, item),
         item.row => /\ Len(accepted') = Len(accepted) + 1
                     /\ accepted'[Len(accepted) + 1] = item,
         ~item.row => /\ accepted' = accepted
                      /\ Vouched(accepted, item.of, Len(accepted)),
         \A q \in 1..Len(queue) :
            ~queue[q].row /\ queue[q].of = Main => accepted' = accepted
  PROVE  QueueLast'
<1>1. PICK seen \in [0..Len(queue) -> 0..Len(accepted)] : Counts(seen)
  BY DEF QueueLast
<1>0. PICK more : more = [q \in 0..Len(queue) + 1 |->
                          IF q <= Len(queue) THEN seen[q] ELSE Len(accepted')]
  OBVIOUS
<1>2. /\ Len(queue) \in Nat /\ Len(accepted) \in Nat /\ Len(accepted') \in Nat
      /\ Taken \in Nat
  BY Lengths, LenProperties DEF TypeOK
<1>3. /\ Len(queue') = Len(queue) + 1
      /\ \A q \in 1..Len(queue) : queue'[q] = queue[q]
      /\ queue'[Len(queue) + 1] = item
  BY AppendProperties DEF TypeOK
<1>4. more \in [0..Len(queue') -> 0..Len(accepted')]
  BY <1>0, <1>2, <1>3 DEF Grows
<1>5. /\ \A q \in 0..Len(queue) : more[q] = seen[q]
      /\ more[Len(queue) + 1] = Len(accepted')
  BY <1>0, <1>2
<1>6. ASSUME NEW q \in 1..Len(queue')
      PROVE  /\ queue'[q].row => /\ more[q] = more[q - 1] + 1
                                 /\ accepted'[more[q]] = queue'[q]
             /\ ~queue'[q].row => /\ more[q] = more[q - 1]
                                  /\ Vouched(accepted', queue'[q].of, more[q])
  <2>1. CASE q = Len(queue) + 1
    <3>1. q - 1 = Len(queue) /\ more[q - 1] = Len(accepted) /\ more[q] = Len(accepted')
      BY <1>1, <1>2, <1>5, <2>1 DEF Counts
    <3>2. queue'[q] = item
      BY <1>3, <2>1
    <3>3. CASE item.row
      <4>1. Len(accepted') = Len(accepted) + 1 /\ accepted'[Len(accepted')] = item
        BY <3>3
      <4>2. QED
        BY <3>1, <3>2, <3>3, <4>1
    <3>4. CASE ~item.row
      <4>1. accepted' = accepted /\ Vouched(accepted, item.of, more[q])
        BY <3>1, <3>4
      <4>2. QED
        BY <3>1, <3>2, <3>4, <4>1
    <3>5. QED
      BY <3>3, <3>4
  <2>2. CASE q # Len(queue) + 1
    <3>1. q \in 1..Len(queue) /\ q \in 0..Len(queue) /\ q - 1 \in 0..Len(queue)
      BY <1>2, <1>3, <2>2
    <3>2. /\ queue'[q] = queue[q] /\ more[q] = seen[q] /\ more[q - 1] = seen[q - 1]
          /\ seen[q] \in 0..Len(accepted) /\ seen[q - 1] \in 0..Len(accepted)
      BY <1>3, <1>5, <3>1
    <3>3. CASE queue[q].row
      <4>1. seen[q] = seen[q - 1] + 1 /\ accepted[seen[q]] = queue[q]
        BY <1>1, <3>1, <3>3 DEF Counts
      <4>2. seen[q] \in 1..Len(accepted)
        BY <1>2, <3>2, <4>1
      <4>3. QED
        BY <3>2, <3>3, <4>1, <4>2 DEF Grows
    <3>4. CASE ~queue[q].row
      <4>1. seen[q] = seen[q - 1] /\ Vouched(accepted, queue[q].of, seen[q])
        BY <1>1, <3>1, <3>4 DEF Counts
      <4>2. CASE queue[q].of = Main
        <5>1. accepted' = accepted
          BY <3>1, <3>4, <4>2
        <5>2. QED
          BY <3>2, <3>4, <4>1, <4>2, <5>1 DEF Vouched
      <4>3. CASE queue[q].of # Main
        <5>1. AllWithin(accepted, queue[q].of, seen[q])
          BY <4>1, <4>3 DEF Vouched
        <5>2. seen[q] \in Nat /\ seen[q] <= seen[q] /\ seen[q] <= Len(accepted)
          BY <1>2, <3>2
        <5>3. AllWithin(accepted', queue[q].of, seen[q])
          BY <5>1, <5>2, WithinStays
        <5>4. QED
          BY <3>2, <3>4, <4>1, <4>3, <5>3 DEF Vouched
      <4>4. QED
        BY <4>2, <4>3
    <3>5. QED
      BY <3>3, <3>4
  <2>3. QED
    BY <2>1, <2>2
<1>7. more[0] = Taken' /\ more[Len(queue')] = Len(accepted')
  BY <1>1, <1>2, <1>3, <1>5 DEF Counts
<1>8. QED
  BY <1>4, <1>6, <1>7 DEF QueueLast, Counts

\* A row goes to the end of what was accepted and to the end of the queue.  No
\* control of execute_job is under way: the task that puts is not over.
LEMMA PutRowStep ==
  ASSUME IInv, NEW c \in Client, PutRow(c)
  PROVE  IInv'
<1> DEFINE item == RowItem(c, sent[c] + 1)
<1>1. /\ c \in Task /\ c # Main /\ ~Over(c) /\ pc[Main] = "collect"
  <2>1. c # Main
    BY DEF PutRow, IInv, MainShape
  <2>2. c \in Task /\ ~Over(c)
    BY <2>1 DEF Client, PutRow, Over
  <2>3. QED
    BY <2>1, <2>2 DEF IInv, MainShape
<1>2. sent[c] < Rows /\ sent[c] \in 0..Rows /\ sent[c] + 1 \in 0..Rows
  BY <1>1, WriterAssumption DEF PutRow, IInv, TaskShape, TypeOK
<1>3. item \in Row /\ item.row
  BY <1>2 DEF RowItem, Row
<1>4. /\ accepted' = Append(accepted, item) /\ queue' = Append(queue, item)
      /\ UNCHANGED <<batch, stored, counted, thread, serving, failure, answered, stranded>>
      /\ Len(queue) < QueueSize
  BY DEF PutRow, threadVars
<1> HIDE DEF item
<1>5. /\ Len(accepted) \in Nat /\ Len(queue) \in Nat
      /\ Len(stored) \in Nat /\ Len(batch) \in Nat /\ Taken \in Nat
  BY Lengths DEF IInv
<1>6. /\ accepted' \in Seq(Row) /\ Len(accepted') = Len(accepted) + 1
      /\ \A i \in 1..Len(accepted) : accepted'[i] = accepted[i]
      /\ accepted'[Len(accepted) + 1] = item
      /\ queue' \in Seq(Row) /\ Len(queue') = Len(queue) + 1
      /\ \A q \in 1..Len(queue) : queue'[q] = queue[q]
      /\ queue'[Len(queue) + 1] = item
  BY <1>3, <1>4, AppendProperties DEF IInv, TypeOK
<1>7. Grows /\ Taken' = Taken
  BY <1>4, <1>5, <1>6 DEF Grows, Taken
<1>8. TypeOK'
  <2>1. Len(queue') <= QueueSize
    BY <1>4, <1>5, <1>6, WriterAssumption
  <2>2. sent' \in [Task -> 0..Rows] /\ pc' \in [Client -> Place] /\ between' = NoClient
    BY <1>1, <1>2 DEF PutRow, IInv, TypeOK, Place
  <2>3. QED
    BY <1>4, <1>6, <2>1, <2>2 DEF IInv, TypeOK
<1>9. StoredFirst' /\ ThreadShape'
  BY <1>4, <1>5, <1>6 DEF IInv, StoredFirst, ThreadShape
<1>10. ~MainAsked
  BY <1>1 DEF IInv, MainShape
<1>11. ~MainAsked'
  <2>1. \A q \in 1..Len(queue') : queue'[q].row \/ queue'[q].of # Main
    BY <1>3, <1>5, <1>6, <1>10 DEF MainAsked
  <2>2. QED
    BY <1>4, <1>10, <2>1 DEF MainAsked
<1>12. \A t, k : AllWithin(accepted, t, k) /\ k \in Nat /\ k <= Len(accepted)
                   => AllWithin(accepted', t, k)
  BY <1>7, WithinStays DEF IInv
<1>13. Sound'
  <2> SUFFICES ASSUME ~failure
               PROVE  (/\ BatchNext /\ QueueLast /\ ServedRight /\ AnsweredRight
                       /\ counted = Len(stored))'
    BY <1>4 DEF Sound
  <2>1. /\ BatchNext /\ QueueLast /\ ServedRight /\ AnsweredRight
        /\ counted = Len(stored)
    BY DEF IInv, Sound
  <2>2. BatchNext'
    <3>1. Taken <= Len(accepted) /\ \A i \in 1..Len(batch) : Len(stored) + i \in 1..Len(accepted)
      BY <1>5, <2>1 DEF BatchNext, Taken
    <3>2. QED
      BY <1>4, <1>5, <1>6, <1>7, <2>1, <3>1 DEF BatchNext
  <2>3. QueueLast'
    <3>1. \A q \in 1..Len(queue) :
             ~queue[q].row /\ queue[q].of = Main => accepted' = accepted
      BY <1>10 DEF MainAsked
    <3>2. QED
      BY <1>3, <1>4, <1>6, <1>7, <1>8, <2>1, <3>1, QueueExtended DEF IInv
  <2>4. ServedRight'
    <3>1. serving # NoClient => serving # Main /\ AllWithin(accepted, serving, Taken)
      BY <1>10, <2>1 DEF ServedRight, Vouched, MainAsked
    <3>2. QED
      BY <1>4, <1>5, <1>7, <1>12, <2>1, <3>1 DEF ServedRight, Vouched, BatchNext
  <2>5. AnsweredRight'
    <3>1. Main \notin answered
      BY <1>10 DEF MainAsked
    <3>2. \A t \in answered \cap Task : AllWithin(accepted', t, Len(stored))
      BY <1>5, <1>12, <2>1 DEF AnsweredRight, IInv, StoredFirst
    <3>3. QED
      BY <1>4, <3>1, <3>2 DEF AnsweredRight
  <2>6. QED
    BY <1>4, <2>1, <2>2, <2>3, <2>4, <2>5
<1>14. TaskShape'
  <2> SUFFICES ASSUME NEW t \in Task
               PROVE  (/\ \A n \in 1..sent[t] : \E i \in 1..Len(accepted) :
                              accepted[i] = RowItem(t, n)
                       /\ pc[t] = "flush" => sent[t] = Rows
                       /\ pc[t] = "submit" => sent[t] < Rows
                       /\ pc[t] # "close"
                       /\ pc[t] = "ok" => AllWithin(accepted, t, Len(stored)))'
    BY DEF TaskShape
  <2>1. /\ \A n \in 1..sent[t] : \E i \in 1..Len(accepted) : accepted[i] = RowItem(t, n)
        /\ pc[t] = "ok" => AllWithin(accepted, t, Len(stored))
    BY DEF IInv, TaskShape
  <2>2. \A n \in 1..sent[t] : \E i \in 1..Len(accepted') : accepted'[i] = RowItem(t, n)
    <3> SUFFICES ASSUME NEW n \in 1..sent[t]
                 PROVE  \E i \in 1..Len(accepted') : accepted'[i] = RowItem(t, n)
      OBVIOUS
    <3>1. PICK i \in 1..Len(accepted) : accepted[i] = RowItem(t, n)
      BY <2>1
    <3>2. i \in 1..Len(accepted') /\ accepted'[i] = RowItem(t, n)
      BY <1>5, <1>6, <3>1
    <3>3. QED
      BY <3>2
  <2>3. AllWithin(accepted, t, Len(stored)) => AllWithin(accepted', t, Len(stored))
    BY <1>5, <1>12 DEF IInv, StoredFirst
  <2>4. CASE t = c
    <3>1. sent'[t] = sent[t] + 1 /\ pc'[t] = "collect"
      BY <1>1, <2>4 DEF PutRow, IInv, TypeOK
    <3>2. Len(accepted') \in 1..Len(accepted') /\ accepted'[Len(accepted')] = RowItem(t, sent[t] + 1)
      BY <1>5, <1>6, <2>4 DEF item
    <3>3. \A n \in 1..sent'[t] : n \in 1..sent[t] \/ n = sent[t] + 1
      BY <1>2, <2>4, <3>1
    <3>4. \A n \in 1..sent'[t] : \E i \in 1..Len(accepted') : accepted'[i] = RowItem(t, n)
      BY <2>2, <3>2, <3>3
    <3>5. QED
      BY <3>1, <3>4
  <2>5. CASE t # c
    <3>1. sent'[t] = sent[t] /\ pc'[t] = pc[t]
      BY <1>1, <2>5 DEF PutRow, IInv, TypeOK, Client
    <3>2. QED
      BY <1>4, <2>1, <2>2, <2>3, <3>1 DEF IInv, TaskShape
  <2>6. QED
    BY <2>4, <2>5
<1>15. MainShape'
  <2>1. pc'[Main] = "collect"
    BY <1>1 DEF PutRow, IInv, TypeOK, Client
  <2>2. QED
    BY <1>11, <2>1 DEF MainShape
<1>16. PutShape'
  BY DEF PutRow, PutShape
<1>17. QED
  BY <1>8, <1>9, <1>13, <1>14, <1>15, <1>16 DEF IInv

\* A control goes to the end of the queue, behind every row accepted so far.
LEMMA PutControlStep ==
  ASSUME IInv, NEW c \in Client, PutControl(c)
  PROVE  IInv'
<1> DEFINE item == Control(c)
<1>1. item \in Row /\ ~item.row /\ item.of = c
  BY WriterAssumption DEF Control, Row
<1>2. /\ queue' = Append(queue, item) /\ pc' = [pc EXCEPT ![c] = "wait"]
      /\ between' = NoClient /\ Len(queue) < QueueSize
      /\ stranded' \in SUBSET Client
      /\ UNCHANGED <<accepted, batch, stored, counted, thread, serving, failure,
                     answered, sent>>
  BY DEF PutControl, threadVars, IInv, TypeOK
<1> HIDE DEF item
<1>3. Len(queue) \in Nat /\ Len(accepted) \in Nat
  BY Lengths DEF IInv
<1>4. /\ queue' \in Seq(Row) /\ Len(queue') = Len(queue) + 1
      /\ \A q \in 1..Len(queue) : queue'[q] = queue[q]
      /\ queue'[Len(queue) + 1] = item
  BY <1>1, <1>2, AppendProperties DEF IInv, TypeOK
<1>5. TypeOK'
  <2>1. Len(queue') <= QueueSize
    BY <1>2, <1>3, <1>4, WriterAssumption
  <2>2. pc' \in [Client -> Place]
    BY <1>2 DEF IInv, TypeOK, Place
  <2>3. QED
    BY <1>2, <1>4, <2>1, <2>2 DEF IInv, TypeOK
<1>6. StoredFirst' /\ ThreadShape'
  BY <1>2 DEF IInv, StoredFirst, ThreadShape
<1>7. c # Main => AllWithin(accepted, c, Len(accepted))
  <2>1. c # Main => c \in Task /\ pc[c] = "flush"
    BY DEF PutControl, Client, IInv, TaskShape
  <2>2. c # Main => sent[c] = Rows
    BY <2>1 DEF IInv, TaskShape
  <2>3. QED
    BY <2>1, <2>2 DEF IInv, TaskShape, AllWithin
<1>8. Vouched(accepted, c, Len(accepted))
  BY <1>7 DEF Vouched
<1>9. Sound'
  <2> SUFFICES ASSUME ~failure
               PROVE  (/\ BatchNext /\ QueueLast /\ ServedRight /\ AnsweredRight
                       /\ counted = Len(stored))'
    BY <1>2 DEF Sound
  <2>1. /\ BatchNext /\ QueueLast /\ ServedRight /\ AnsweredRight
        /\ counted = Len(stored)
    BY DEF IInv, Sound
  <2>2. (BatchNext /\ ServedRight /\ AnsweredRight /\ counted = Len(stored))'
    BY <1>2, <2>1 DEF BatchNext, Taken, ServedRight, AnsweredRight
  <2>3. Grows /\ Taken' = Taken
    BY <1>2, <1>3 DEF Grows, Taken
  <2>4. QueueLast'
    BY <1>1, <1>2, <1>5, <1>8, <2>1, <2>3, QueueExtended DEF IInv
  <2>5. QED
    BY <2>2, <2>4
<1>10. \A t \in Task : t # c => pc'[t] = pc[t]
  BY <1>2 DEF IInv, TypeOK, Client
<1>11. c \in Task => pc'[c] = "wait"
  BY <1>2 DEF IInv, TypeOK
<1>12. TaskShape'
  BY <1>2, <1>10, <1>11 DEF IInv, TaskShape
<1>13. MainShape'
  <2>1. CASE c = Main
    <3>1. pc[Main] = "close" /\ pc'[Main] = "wait"
      BY <1>2, <2>1 DEF PutControl, IInv, MainShape, TypeOK
    <3>2. \A t \in Task : Over(t)'
      BY <1>10, <2>1, <3>1, WriterAssumption DEF IInv, MainShape, Over
    <3>3. QED
      BY <3>1, <3>2 DEF MainShape
  <2>2. CASE c # Main
    <3>1. c \in Task /\ ~Over(c) /\ pc[Main] = "collect" /\ pc'[Main] = "collect"
      BY <1>2, <2>2 DEF PutControl, Client, Over, IInv, MainShape, TypeOK
    <3>2. ~MainAsked
      BY <3>1 DEF IInv, MainShape
    <3>3. \A q \in 1..Len(queue') : queue'[q].row \/ queue'[q].of # Main
      BY <1>1, <1>3, <1>4, <2>2, <3>2 DEF MainAsked
    <3>4. ~MainAsked'
      BY <1>2, <3>2, <3>3 DEF MainAsked
    <3>5. QED
      BY <3>1, <3>4 DEF MainShape
  <2>3. QED
    BY <2>1, <2>2
<1>14. PutShape'
  BY <1>2 DEF PutShape
<1>15. QED
  BY <1>5, <1>6, <1>9, <1>12, <1>13, <1>14 DEF IInv

-----------------------------------------------------------------------------
(* The thread. *)

\* What the thread does is nothing to the clients, as long as no stored row
\* moves and nothing more is answered than was asked.
LEMMA ClientsStay ==
  ASSUME IInv, UNCHANGED <<pc, sent, between, accepted>>,
         Len(stored) <= Len(stored'), Len(stored') \in Nat,
         MainAsked' => MainAsked,
         pc[Main] = "ok" => Main \in answered' /\ ~failure'
  PROVE  TaskShape' /\ MainShape' /\ PutShape'
<1>1. \A t \in Task : AllWithin(accepted, t, Len(stored)) => AllWithin(accepted, t, Len(stored'))
  <2>1. Grows /\ Len(stored) \in Nat /\ Len(stored) <= Len(accepted)
    BY Lengths DEF Grows, IInv, StoredFirst
  <2>2. QED
    BY <2>1, WithinStays DEF IInv
<1>2. TaskShape'
  BY <1>1 DEF IInv, TaskShape
<1>3. MainShape' /\ PutShape'
  BY DEF IInv, MainShape, PutShape, Over, Putting
<1>4. QED
  BY <1>2, <1>3

\* The count without its first step.
LEMMA QueueShifted ==
  ASSUME TypeOK, NEW seen \in [0..Len(queue) -> 0..Len(accepted)], Counts(seen),
         queue # <<>>, queue' = Tail(queue), accepted' = accepted,
         Taken' = seen[1]
  PROVE  QueueLast'
<1>1. /\ Len(queue) \in Nat /\ Len(queue) >= 1 /\ Len(accepted) \in Nat
  BY Lengths, EmptySeq DEF TypeOK
<1>2. /\ Len(queue') = Len(queue) - 1
      /\ \A q \in 1..Len(queue') : queue'[q] = queue[q + 1]
  BY HeadTailProperties DEF TypeOK
<1>3. PICK rest : rest = [q \in 0..Len(queue) - 1 |-> seen[q + 1]]
  OBVIOUS
<1>4. rest \in [0..Len(queue') -> 0..Len(accepted')]
  BY <1>1, <1>2, <1>3
<1>5. \A q \in 0..Len(queue') : rest[q] = seen[q + 1]
  BY <1>1, <1>2, <1>3
<1>6. rest[0] = Taken' /\ rest[Len(queue')] = Len(accepted')
  BY <1>1, <1>2, <1>5 DEF Counts
<1>7. ASSUME NEW q \in 1..Len(queue')
      PROVE  /\ queue'[q].row => /\ rest[q] = rest[q - 1] + 1
                                 /\ accepted'[rest[q]] = queue'[q]
             /\ ~queue'[q].row => /\ rest[q] = rest[q - 1]
                                  /\ Vouched(accepted', queue'[q].of, rest[q])
  <2>1. q + 1 \in 1..Len(queue) /\ q \in 0..Len(queue') /\ q - 1 \in 0..Len(queue')
        /\ (q - 1) + 1 = q /\ (q + 1) - 1 = q
    BY <1>1, <1>2
  <2>2. queue'[q] = queue[q + 1] /\ rest[q] = seen[q + 1] /\ rest[q - 1] = seen[q]
    BY <1>2, <1>5, <2>1
  <2>3. /\ queue[q + 1].row => /\ seen[q + 1] = seen[(q + 1) - 1] + 1
                               /\ accepted[seen[q + 1]] = queue[q + 1]
        /\ ~queue[q + 1].row => /\ seen[q + 1] = seen[(q + 1) - 1]
                                /\ Vouched(accepted, queue[q + 1].of, seen[q + 1])
    BY <2>1 DEF Counts
  <2>4. QED
    BY <2>1, <2>2, <2>3
<1>8. QED
  BY <1>4, <1>6, <1>7 DEF QueueLast, Counts

LEMMA TailAsksLess ==
  ASSUME TypeOK, queue # <<>>, queue' = Tail(queue),
         NEW q \in 1..Len(queue'), ~queue'[q].row, queue'[q].of = Main
  PROVE  MainAsked
<1>1. Len(queue) \in Nat /\ Len(queue') = Len(queue) - 1 /\ queue'[q] = queue[q + 1]
  BY Lengths, HeadTailProperties DEF TypeOK
<1>2. q + 1 \in 1..Len(queue)
  BY <1>1
<1>3. QED
  BY <1>1, <1>2 DEF MainAsked

LEMMA GetStep ==
  ASSUME IInv, Get
  PROVE  IInv'
<1>1. /\ thread = "get" /\ ~failure /\ queue # <<>> /\ queue' = Tail(queue)
      /\ UNCHANGED <<accepted, stranded, stored, counted, failure, pc, sent, between, answered>>
  BY DEF Get, clientVars, IInv, ThreadShape
<1>2. /\ serving = NoClient /\ Len(batch) < BatchSize /\ BatchNext
      /\ QueueLast /\ AnsweredRight /\ counted = Len(stored) /\ Main \notin answered
  BY <1>1 DEF IInv, ThreadShape, Sound, AnsweredRight
<1>3. /\ Len(queue) \in Nat /\ Len(queue) >= 1 /\ Len(accepted) \in Nat
      /\ Len(stored) \in Nat /\ Len(batch) \in Nat
  BY <1>1, Lengths, EmptySeq DEF IInv, TypeOK
<1>4. PICK seen \in [0..Len(queue) -> 0..Len(accepted)] : Counts(seen)
  BY <1>2 DEF QueueLast
<1>5. /\ Head(queue) = queue[1] /\ queue[1] \in Row /\ 1 \in 1..Len(queue) /\ 1 - 1 = 0
      /\ seen[0] = Taken /\ seen[1] \in 0..Len(accepted)
  BY <1>1, <1>3, <1>4, CountsBounds DEF Counts, IInv
<1>6. /\ queue' \in Seq(Row) /\ Len(queue') = Len(queue) - 1
  BY <1>1, HeadTailProperties DEF IInv, TypeOK
<1>7. Len(queue') <= QueueSize
  BY <1>3, <1>6, WriterAssumption DEF IInv, TypeOK
<1>8. StoredFirst'
  BY <1>1 DEF IInv, StoredFirst
<1>9. CASE Head(queue).row
  <2>1. /\ batch' = Append(batch, queue[1]) /\ serving' = serving
        /\ thread' = IF Len(batch') >= BatchSize THEN "commit" ELSE "get"
    BY <1>5, <1>9 DEF Get
  <2>2. /\ batch' \in Seq(Row) /\ Len(batch') = Len(batch) + 1
        /\ \A i \in 1..Len(batch) : batch'[i] = batch[i]
        /\ batch'[Len(batch) + 1] = queue[1]
    BY <1>5, <2>1, AppendProperties DEF IInv, TypeOK
  <2>3. Len(batch') <= BatchSize /\ (~(Len(batch') >= BatchSize) => Len(batch') < BatchSize)
    BY <1>2, <1>3, <2>2, WriterAssumption
  <2>4. TypeOK'
    BY <1>1, <1>6, <1>7, <2>1, <2>2, <2>3 DEF IInv, TypeOK
  <2>5. ThreadShape'
    BY <1>1, <1>2, <2>1, <2>3 DEF ThreadShape
  <2>6. Taken' = seen[1] /\ seen[1] = Taken + 1 /\ accepted[seen[1]] = queue[1]
        /\ Taken = Len(stored) + Len(batch) /\ seen[1] = Len(stored) + (Len(batch) + 1)
    BY <1>1, <1>3, <1>4, <1>5, <1>9, <2>2 DEF Counts, Taken
  <2>7. QueueLast'
    BY <1>1, <1>4, <2>6, QueueShifted DEF IInv
  <2>8. BatchNext'
    <3>1. Taken' <= Len(accepted)
      BY <1>3, <1>5, <2>6
    <3>2. ASSUME NEW i \in 1..Len(batch') PROVE batch'[i] = accepted[Len(stored) + i]
      <4>1. CASE i = Len(batch) + 1
        BY <2>2, <2>6, <4>1
      <4>2. CASE i # Len(batch) + 1
        <5>1. i \in 1..Len(batch)
          BY <1>3, <2>2, <4>2
        <5>2. QED
          BY <1>2, <2>2, <5>1 DEF BatchNext
      <4>3. QED
        BY <4>1, <4>2
    <3>3. QED
      BY <1>1, <3>1, <3>2 DEF BatchNext
  <2>9. Sound'
    <3>1. AnsweredRight' /\ ServedRight'
      BY <1>1, <1>2, <2>1 DEF AnsweredRight, ServedRight
    <3>2. QED
      BY <1>1, <1>2, <2>7, <2>8, <3>1 DEF Sound
  <2>10. MainAsked' => MainAsked
    BY <1>1, <1>2, <2>1, TailAsksLess DEF MainAsked, IInv
  <2>11. TaskShape' /\ MainShape' /\ PutShape'
    BY <1>1, <1>3, <2>10, ClientsStay DEF IInv, MainShape
  <2>12. QED
    BY <1>8, <2>4, <2>5, <2>9, <2>11 DEF IInv
<1>10. CASE ~Head(queue).row
  <2>1. batch' = batch /\ serving' = queue[1].of /\ thread' = "commit"
    BY <1>5, <1>10 DEF Get
  <2>2. queue[1].of \in Client /\ queue[1].of # NoClient
    BY <1>5, WriterAssumption DEF Row, Client
  <2>3. TypeOK'
    BY <1>1, <1>6, <1>7, <2>1, <2>2 DEF IInv, TypeOK
  <2>4. ThreadShape'
    BY <1>1, <2>1 DEF ThreadShape
  <2>5. Taken' = seen[1] /\ seen[1] = Taken /\ Vouched(accepted, queue[1].of, seen[1])
    BY <1>1, <1>4, <1>5, <1>10, <2>1 DEF Counts, Taken
  <2>6. QueueLast'
    BY <1>1, <1>4, <2>5, QueueShifted DEF IInv
  <2>7. Sound'
    <3>1. ServedRight'
      BY <1>1, <2>1, <2>5 DEF ServedRight
    <3>2. BatchNext'
      BY <1>1, <1>2, <2>1 DEF BatchNext, Taken
    <3>3. AnsweredRight'
      BY <1>1, <1>2 DEF AnsweredRight
    <3>4. QED
      BY <1>1, <1>2, <2>6, <3>1, <3>2, <3>3 DEF Sound
  <2>8. MainAsked' => MainAsked
    <3>1. serving' = Main => MainAsked
      BY <1>5, <1>10, <2>1 DEF MainAsked
    <3>2. QED
      BY <1>1, <1>2, <3>1, TailAsksLess DEF MainAsked, IInv
  <2>9. TaskShape' /\ MainShape' /\ PutShape'
    BY <1>1, <1>3, <2>8, ClientsStay DEF IInv, MainShape
  <2>10. QED
    BY <1>8, <2>3, <2>4, <2>7, <2>9 DEF IInv
<1>11. QED
  BY <1>9, <1>10

LEMMA TimeoutStep ==
  ASSUME IInv, Timeout
  PROVE  IInv'
<1>1. /\ thread' = "commit" /\ ~failure
      /\ UNCHANGED <<queue, accepted, stranded, batch, stored, counted, serving,
                     failure, pc, sent, between, answered>>
  BY DEF Timeout, queueVars, clientVars, IInv, ThreadShape
<1>2. TypeOK' /\ ThreadShape' /\ StoredFirst'
  BY <1>1 DEF IInv, TypeOK, ThreadShape, StoredFirst
<1>3. Main \notin answered
  BY <1>1 DEF Timeout, IInv, Sound, AnsweredRight
<1>4. Sound'
  <2>1. BatchNext /\ QueueLast /\ ServedRight /\ AnsweredRight /\ counted = Len(stored)
    BY <1>1 DEF IInv, Sound
  <2>2. (BatchNext /\ ServedRight /\ AnsweredRight)'
    BY <1>1, <1>3, <2>1 DEF BatchNext, ServedRight, AnsweredRight, Taken
  <2>3. QueueLast'
    BY <1>1, <2>1 DEF QueueLast, Counts, Taken
  <2>4. QED
    BY <1>1, <2>1, <2>2, <2>3 DEF Sound
<1>5. TaskShape' /\ MainShape' /\ PutShape'
  <2>1. MainAsked' => MainAsked
    BY <1>1 DEF MainAsked
  <2>2. Len(stored) <= Len(stored') /\ Len(stored') \in Nat
    BY <1>1, Lengths DEF IInv
  <2>3. QED
    BY <1>1, <2>1, <2>2, ClientsStay DEF IInv, MainShape
<1>6. QED
  BY <1>2, <1>4, <1>5 DEF IInv

\* The batch is what comes next after the stored rows.
LEMMA BatchStored ==
  ASSUME IInv, ~failure, stored' = stored \o batch, accepted' = accepted
  PROVE  /\ stored' \in Seq(Row) /\ Len(stored') = Taken
         /\ Len(stored) <= Len(stored') /\ Len(stored') \in Nat
         /\ Len(stored') <= Len(accepted) /\ StoredFirst'
<1>1. /\ stored' \in Seq(Row) /\ Len(stored') = Taken
      /\ \A i \in 1..Len(stored') : stored'[i] = IF i <= Len(stored) THEN stored[i]
                                                 ELSE batch[i - Len(stored)]
  BY ConcatProperties DEF IInv, TypeOK, Taken
<1>2. Len(stored) \in Nat /\ Len(batch) \in Nat /\ Taken = Len(stored) + Len(batch)
  BY Lengths DEF IInv, Taken
<1>3. BatchNext /\ StoredFirst
  BY DEF IInv, Sound
<1>4. ASSUME NEW i \in 1..Len(stored')
      PROVE  stored'[i] = accepted[i]
  <2>1. CASE i <= Len(stored)
    BY <1>1, <1>2, <1>3, <2>1 DEF StoredFirst
  <2>2. CASE ~(i <= Len(stored))
    <3>1. i - Len(stored) \in 1..Len(batch) /\ Len(stored) + (i - Len(stored)) = i
      BY <1>1, <1>2, <2>2
    <3>2. QED
      BY <1>1, <1>3, <2>2, <3>1 DEF BatchNext
  <2>3. QED
    BY <2>1, <2>2
<1>5. QED
  BY <1>1, <1>2, <1>3, <1>4 DEF StoredFirst, BatchNext

LEMMA CommitStep ==
  ASSUME IInv, Commit
  PROVE  IInv'
<1>1. /\ thread = "commit" /\ ~failure /\ stored' = stored \o batch
      /\ counted' = counted + Len(batch) /\ batch' = <<>> /\ serving' = NoClient
      /\ answered' = IF serving = NoClient THEN answered ELSE answered \cup {serving}
      /\ thread' = IF serving = Main THEN "ended" ELSE "get"
      /\ UNCHANGED <<queue, accepted, stranded, failure, pc, sent, between>>
  BY DEF Commit, queueVars, clientVars, IInv, ThreadShape
<1>2. /\ BatchNext /\ QueueLast /\ ServedRight /\ AnsweredRight
      /\ counted = Len(stored) /\ Main \notin answered
  BY <1>1 DEF IInv, Sound, AnsweredRight
<1>3. /\ stored' \in Seq(Row) /\ Len(stored') = Taken
      /\ Len(stored) <= Len(stored') /\ Len(stored') \in Nat
      /\ Len(stored') <= Len(accepted) /\ StoredFirst'
  BY <1>1, BatchStored
<1>4. /\ batch' \in Seq(Row) /\ Len(batch') = 0 /\ Taken' = Taken
  BY <1>1, <1>3, EmptySeq DEF Taken
<1>5. counted' = Len(stored') /\ counted' \in 0..Len(stored')
  <2>1. Len(stored) \in Nat /\ Len(batch) \in Nat
    BY Lengths DEF IInv
  <2>2. QED
    BY <1>1, <1>2, <1>3, <2>1 DEF Taken
<1>6. TypeOK'
  <2>1. Len(batch') <= BatchSize
    BY <1>4, WriterAssumption
  <2>2. answered' \in SUBSET Client
    BY <1>1 DEF IInv, TypeOK
  <2>3. QED
    BY <1>1, <1>3, <1>4, <1>5, <2>1, <2>2 DEF IInv, TypeOK
<1>7. ThreadShape'
  BY <1>1, <1>4, WriterAssumption DEF ThreadShape
<1>8. \A t : AllWithin(accepted, t, Len(stored)) => AllWithin(accepted, t, Taken)
  <2>1. Grows /\ Len(stored) \in Nat /\ Taken \in Nat /\ Len(stored) <= Taken
        /\ Len(stored) <= Len(accepted)
    BY <1>1, <1>3, Lengths DEF Grows, IInv, StoredFirst
  <2>2. QED
    BY <1>1, <2>1, WithinStays DEF IInv
<1>9. Sound'
  <2>1. BatchNext'
    BY <1>1, <1>3, <1>4 DEF BatchNext
  <2>2. QueueLast'
    <3>1. PICK seen \in [0..Len(queue) -> 0..Len(accepted)] : Counts(seen)
      BY <1>2 DEF QueueLast
    <3>2. Counts(seen)'
      BY <1>1, <1>4, <3>1 DEF Counts, Vouched, AllWithin
    <3>3. QED
      BY <1>1, <3>1, <3>2 DEF QueueLast
  <2>3. ServedRight'
    BY <1>1 DEF ServedRight
  <2>4. AnsweredRight'
    <3>1. ASSUME NEW t \in answered' \cap Task
          PROVE  AllWithin(accepted, t, Taken)
      <4>1. CASE t \in answered
        BY <1>2, <1>8, <4>1 DEF AnsweredRight
      <4>2. CASE t \notin answered
        BY <1>1, <1>2, <4>2, WriterAssumption DEF ServedRight, Vouched
      <4>3. QED
        BY <4>1, <4>2
    <3>2. Main \in answered' => serving = Main
      BY <1>1, <1>2
    <3>3. Main \in answered' => Taken = Len(accepted)
      BY <1>2, <3>2, WriterAssumption DEF ServedRight, Vouched
    <3>4. QED
      BY <1>1, <1>3, <3>1, <3>2, <3>3 DEF AnsweredRight
  <2>5. QED
    BY <1>5, <2>1, <2>2, <2>3, <2>4 DEF Sound
<1>10. TaskShape' /\ MainShape' /\ PutShape'
  <2>1. MainAsked' => MainAsked
    BY <1>1, WriterAssumption DEF MainAsked
  <2>2. pc[Main] = "ok" => Main \in answered' /\ ~failure'
    BY <1>1, <1>2 DEF IInv, MainShape
  <2>3. QED
    BY <1>1, <1>3, <2>1, <2>2, ClientsStay
<1>11. QED
  BY <1>3, <1>6, <1>7, <1>9, <1>10 DEF IInv

LEMMA CommitFailsStep ==
  ASSUME IInv, NEW saved \in BOOLEAN, CommitFails(saved)
  PROVE  IInv'
<1>1. /\ thread = "commit" /\ ~failure /\ failure' = TRUE /\ thread' = "draining"
      /\ stored' = IF saved THEN stored \o batch ELSE stored
      /\ stranded' = stranded \cup ({serving} \ {NoClient})
      /\ UNCHANGED <<queue, accepted, batch, counted, serving, pc, sent, between, answered>>
  BY DEF CommitFails, clientVars, IInv, ThreadShape
<1>2. Main \notin answered
  BY <1>1 DEF IInv, Sound, AnsweredRight
<1>3. /\ stored' \in Seq(Row) /\ Len(stored) <= Len(stored') /\ Len(stored') \in Nat
      /\ StoredFirst'
  <2>1. CASE saved
    BY <1>1, <2>1, BatchStored
  <2>2. CASE ~saved
    BY <1>1, <2>2, Lengths DEF IInv, TypeOK, StoredFirst
  <2>3. QED
    BY <2>1, <2>2
<1>4. TypeOK'
  <2>1. stranded' \in SUBSET Client
    BY <1>1 DEF IInv, TypeOK
  <2>2. counted' \in 0..Len(stored')
    BY <1>1, <1>3, Lengths DEF IInv, TypeOK
  <2>3. QED
    BY <1>1, <1>3, <2>1, <2>2 DEF IInv, TypeOK
<1>5. ThreadShape' /\ Sound'
  BY <1>1 DEF ThreadShape, Sound
<1>6. TaskShape' /\ MainShape' /\ PutShape'
  <2>1. MainAsked' => MainAsked
    BY <1>1 DEF MainAsked
  <2>2. pc[Main] # "ok"
    BY <1>2 DEF IInv, MainShape
  <2>3. QED
    BY <1>1, <1>3, <2>1, <2>2, ClientsStay
<1>7. QED
  BY <1>3, <1>4, <1>5, <1>6 DEF IInv

LEMMA DrainStep ==
  ASSUME IInv, Drain
  PROVE  IInv'
<1>1. /\ thread = "draining" /\ failure /\ queue # <<>> /\ queue' = Tail(queue)
      /\ answered' = IF Head(queue).row THEN answered ELSE answered \cup {Head(queue).of}
      /\ UNCHANGED <<accepted, stranded, batch, stored, counted, thread, serving,
                     failure, pc, sent, between>>
  BY DEF Drain, threadVars, clientVars, IInv, ThreadShape
<1>2. /\ Len(queue) \in Nat /\ Len(queue) >= 1
  BY <1>1, Lengths, EmptySeq DEF IInv, TypeOK
<1>3. Head(queue) = queue[1] /\ queue[1] \in Row /\ 1 \in 1..Len(queue)
  BY <1>1, <1>2, ElementOfSeq DEF IInv, TypeOK
<1>4. TypeOK'
  <2>1. queue' \in Seq(Row) /\ Len(queue') = Len(queue) - 1
    BY <1>1, HeadTailProperties DEF IInv, TypeOK
  <2>2. Len(queue') <= QueueSize
    BY <1>2, <2>1, WriterAssumption DEF IInv, TypeOK
  <2>3. answered' \in SUBSET Client
    BY <1>1, <1>3 DEF IInv, TypeOK, Row
  <2>4. QED
    BY <1>1, <2>1, <2>2, <2>3 DEF IInv, TypeOK
<1>5. ThreadShape' /\ Sound' /\ StoredFirst'
  BY <1>1 DEF IInv, ThreadShape, Sound, StoredFirst
<1>6. TaskShape' /\ MainShape' /\ PutShape'
  <2>1. MainAsked' => MainAsked
    <3>1. Main \in answered' => MainAsked
      BY <1>1, <1>3 DEF MainAsked
    <3>2. (\E q \in 1..Len(queue') : ~queue'[q].row /\ queue'[q].of = Main) => MainAsked
      BY <1>1, TailAsksLess DEF IInv
    <3>3. serving' = Main => MainAsked
      BY <1>1 DEF MainAsked
    <3>4. QED
      BY <3>1, <3>2, <3>3 DEF MainAsked
  <2>2. pc[Main] # "ok"
    BY <1>1 DEF IInv, MainShape
  <2>3. QED
    BY <1>1, <2>1, <2>2, Lengths, ClientsStay DEF IInv
<1>7. QED
  BY <1>4, <1>5, <1>6 DEF IInv

LEMMA DrainedStep ==
  ASSUME IInv, Drained
  PROVE  IInv'
<1>1. /\ failure /\ thread' = "ended"
      /\ UNCHANGED <<queue, accepted, stranded, batch, stored, counted, serving,
                     failure, pc, sent, between, answered>>
  BY DEF Drained, queueVars, clientVars, IInv, ThreadShape
<1>2. TypeOK' /\ ThreadShape' /\ StoredFirst' /\ Sound'
  BY <1>1 DEF IInv, TypeOK, ThreadShape, StoredFirst, Sound
<1>3. TaskShape' /\ MainShape' /\ PutShape'
  <2>1. MainAsked' => MainAsked
    BY <1>1 DEF MainAsked
  <2>2. QED
    BY <1>1, <2>1, Lengths, ClientsStay DEF IInv, MainShape
<1>4. QED
  BY <1>2, <1>3 DEF IInv

-----------------------------------------------------------------------------
LEMMA InitIInv == Init => IInv
<1> SUFFICES ASSUME Init PROVE IInv
  OBVIOUS
<1>1. /\ <<>> \in Seq(Row) /\ Len(<<>>) = 0
  BY EmptySeq
<1>2. 0 \in 0..Rows /\ 0 <= QueueSize /\ 0 < BatchSize /\ 0 \in 0..0
  BY WriterAssumption
<1>3. TypeOK
  <2>1. /\ queue \in Seq(Row) /\ Len(queue) <= QueueSize
        /\ batch \in Seq(Row) /\ Len(batch) <= BatchSize
        /\ stored \in Seq(Row) /\ accepted \in Seq(Row) /\ counted \in 0..Len(stored)
    BY <1>1, <1>2, WriterAssumption DEF Init
  <2>2. pc \in [Client -> Place] /\ sent \in [Task -> 0..Rows]
    BY <1>2 DEF Init, Place
  <2>3. QED
    BY <2>1, <2>2 DEF Init, TypeOK
<1>4. ThreadShape /\ StoredFirst /\ TaskShape /\ MainShape /\ PutShape
  BY <1>1, <1>2, WriterAssumption
     DEF Init, ThreadShape, StoredFirst, TaskShape, MainShape, MainAsked, PutShape, Client
<1>5. Sound
  <2>1. BatchNext /\ ServedRight /\ AnsweredRight /\ counted = Len(stored)
    BY <1>1 DEF Init, BatchNext, Taken, ServedRight, AnsweredRight
  <2>2. PICK seen : seen = [q \in 0..Len(queue) |-> 0]
    OBVIOUS
  <2>3. seen \in [0..Len(queue) -> 0..Len(accepted)]
    BY <1>1, <1>2, <2>2 DEF Init
  <2>4. Counts(seen)
    BY <1>1, <1>2, <2>2 DEF Init, Counts, Taken
  <2>5. QED
    BY <2>1, <2>3, <2>4 DEF Sound, QueueLast
<1>6. QED
  BY <1>3, <1>4, <1>5 DEF IInv

LEMMA NextIInv == IInv /\ [Next]_vars => IInv'
<1> SUFFICES ASSUME IInv, [Next]_vars PROVE IInv'
  OBVIOUS
<1>1. CASE \E c \in Client : ClientNext(c)
  BY <1>1, CallsStep, CheckStep, PutFullStep, PutRowStep, PutControlStep, ReturnStep
     DEF ClientNext
<1>2. CASE \E t \in Task : Cancel(t)
  BY <1>2, CancelStep
<1>3. CASE ThreadNext
  BY <1>3, GetStep, TimeoutStep, CommitStep, CommitFailsStep, DrainStep, DrainedStep
     DEF ThreadNext
<1>4. CASE UNCHANGED vars
  <2>1. UNCHANGED <<queueVars, threadVars, pc, sent, between, answered>>
    BY <1>4 DEF vars, clientVars
  <2>2. TypeOK' /\ TaskShape' /\ MainShape' /\ PutShape'
    BY <2>1, DataStays DEF IInv, TypeOK, TaskShape, MainShape, PutShape, Over, Putting,
                           AllWithin, queueVars, threadVars
  <2>3. QED
    BY <2>1, <2>2, DataStays DEF IInv
<1>5. QED
  BY <1>1, <1>2, <1>3, <1>4 DEF Next

-----------------------------------------------------------------------------
\* The inductive invariant, and with it the types and the capacity of the queue
\* and of the batch.
THEOREM WriterInvariant == Spec => []IInv
<1>1. QED
  BY InitIInv, NextIInv, PTL DEF Spec

\* Nothing is skipped, stored twice or overtaken, whatever fails: the rows
\* commit_batch has stored are the first of those that submit has put.
THEOREM StoredRowsAreThoseAccepted == Spec => []StoredIsPrefix
<1>1. IInv => StoredIsPrefix
  <2> SUFFICES ASSUME IInv PROVE StoredIsPrefix
    OBVIOUS
  <2>1. /\ stored \in Seq(Row) /\ accepted \in Seq(Row) /\ Len(stored) <= Len(accepted)
        /\ Len(stored) \in Nat /\ Len(accepted) \in Nat
    BY Lengths DEF IInv, TypeOK, StoredFirst
  <2>2. PICK first : first = SubSeq(accepted, 1, Len(stored))
    OBVIOUS
  <2>3. /\ first \in Seq(Row) /\ Len(first) = Len(stored)
        /\ \A i \in 1..Len(stored) : first[i] = accepted[i]
    BY <2>1, <2>2, SubSeqProperties
  <2>4. PICK whole : whole = SubSeq(stored, 1, Len(stored))
    OBVIOUS
  <2>5. /\ whole \in Seq(Row) /\ Len(whole) = Len(stored)
        /\ \A i \in 1..Len(stored) : whole[i] = stored[i]
    BY <2>1, <2>4, SubSeqProperties
  <2>6. whole = first
    BY <2>3, <2>5, SeqEqual DEF IInv, StoredFirst
  <2>7. QED
    BY <2>1, <2>2, <2>4, <2>6 DEF StoredIsPrefix, IsPrefix
<1>2. QED
  BY <1>1, WriterInvariant, PTL

\* A task that returns from flush has all its rows in the database, wherever in
\* the queue its control stood and whichever batch it was served with.
THEOREM FlushKeepsItsPromise == Spec => []FlushMeansStored
<1>1. IInv => FlushMeansStored
  <2> SUFFICES ASSUME IInv, NEW t \in Task, pc[t] = "ok", NEW n \in 1..Rows
               PROVE  \E i \in DOMAIN stored : stored[i] = RowItem(t, n)
    BY DEF FlushMeansStored
  <2>1. PICK i \in 1..Len(stored) : accepted[i] = RowItem(t, n)
    BY DEF IInv, TaskShape, AllWithin
  <2>2. i \in DOMAIN stored /\ stored[i] = RowItem(t, n)
    BY <2>1, LenProperties DEF IInv, TypeOK, StoredFirst
  <2>3. QED
    BY <2>2
<1>2. QED
  BY <1>1, WriterInvariant, PTL

\* aclose returns to execute_job only when all that was put is stored and
\* counted.
THEOREM CloseKeepsItsPromise == Spec => []CloseMeansAllStored
<1>1. IInv => CloseMeansAllStored
  <2> SUFFICES ASSUME IInv, pc[Main] = "ok"
               PROVE  stored = accepted /\ counted = Len(accepted)
    BY DEF CloseMeansAllStored
  <2>1. Main \in answered /\ ~failure
    BY DEF IInv, MainShape
  <2>2. Len(stored) = Len(accepted) /\ counted = Len(stored)
    BY <2>1 DEF IInv, Sound, AnsweredRight
  <2>3. stored = accepted
    BY <2>2, SeqEqual DEF IInv, TypeOK, StoredFirst
  <2>4. QED
    BY <2>2, <2>3
<1>2. QED
  BY <1>1, WriterInvariant, PTL
=============================================================================
