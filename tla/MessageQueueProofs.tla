-------------------------- MODULE MessageQueueProofs --------------------------
(***************************************************************************)
(* For any number of processes, messages and queues, any capacity, and     *)
(* kills at any time: the queue loses nothing it was not told to remove,   *)
(* and implements a transport that never reorders.                         *)
(***************************************************************************)
EXTENDS MessageQueue, SequenceTheorems, TLAPS

\* A process in a call has a queue, or had one that is removed by now.
HasId == \A p \in Procs : pc[p] # "idle" => msg_qid[p] # 0

\* What waits in the queue was put into it, and not into an earlier one.
Current == \A j \in 1 .. Len(queue) : origin[queue[j]] = key_qid

\* What waits comes after everything received, in the order of the sends.
Ordered ==
    /\ \A i, j \in 1 .. Len(queue) : i < j => queue[i] < queue[j]
    /\ \A k \in 1 .. Len(received), j \in 1 .. Len(queue) : received[k] < queue[j]
    /\ \A i, j \in 1 .. Len(received) : i < j => received[i] < received[j]

\* Whoever is about to remove the queue of the key has received from it: an id
\* that was stale when msgrcv failed stays stale.
ReadBeforeRemoval ==
    \A p \in Procs :
        pc[p] = "msgctl" /\ msg_qid[p] = key_qid =>
            \E k \in 1 .. Len(received) : origin[received[k]] = key_qid

IInv ==
    /\ TypeOK /\ LostOnlyAfterRead
    /\ HasId /\ Current /\ Ordered /\ ReadBeforeRemoval

-----------------------------------------------------------------------------
\* What TypeOK says of the numbers in the sequences.
LEMMA Shapes ==
    ASSUME TypeOK
    PROVE  /\ sent \in Nat /\ last_qid \in Nat /\ key_qid \in Nat /\ key_qid <= last_qid
           /\ Len(queue) \in Nat /\ DOMAIN queue = 1 .. Len(queue)
           /\ \A j \in 1 .. Len(queue) : queue[j] \in 1 .. sent
           /\ Len(received) \in Nat /\ DOMAIN received = 1 .. Len(received)
           /\ \A k \in 1 .. Len(received) : received[k] \in 1 .. sent
           /\ DOMAIN origin = 1 .. sent
           /\ \A i \in 1 .. sent : origin[i] \in 1 .. last_qid
           /\ \A p \in Procs : msg_qid[p] \in 0 .. last_qid
<1>1. Len(origin) = sent /\ origin \in Seq(1 .. last_qid) /\ sent \in Nat
  BY LenProperties DEF TypeOK
<1>2. /\ Len(queue) \in Nat /\ DOMAIN queue = 1 .. Len(queue)
      /\ \A j \in 1 .. Len(queue) : queue[j] \in 1 .. sent
  BY LenProperties, ElementOfSeq DEF TypeOK
<1>3. /\ Len(received) \in Nat /\ DOMAIN received = 1 .. Len(received)
      /\ \A k \in 1 .. Len(received) : received[k] \in 1 .. sent
  BY LenProperties, ElementOfSeq DEF TypeOK
<1>4. /\ DOMAIN origin = 1 .. sent
      /\ \A i \in 1 .. sent : origin[i] \in 1 .. last_qid
  BY <1>1, LenProperties, ElementOfSeq
<1>5. key_qid \in 0 .. last_qid /\ msg_qid \in [Procs -> 0 .. last_qid]
  BY DEF TypeOK
<1>6. last_qid \in Nat
  BY QueueAssumption DEF TypeOK
<1> QED
  BY <1>1, <1>2, <1>3, <1>4, <1>5, <1>6

\* A sequence of numbers up to n is one of numbers up to more.
LEMMA Wider ==
    ASSUME NEW n \in Nat, NEW m \in Nat, n <= m, NEW s \in Seq(1 .. n)
    PROVE  s \in Seq(1 .. m)
<1>1. 1 .. n \subseteq 1 .. m
  OBVIOUS
<1> QED
  BY <1>1, SeqMonotonic

\* The message at the head leaves the queue: what is left, by its places.
LEMMA TailShape ==
    ASSUME TypeOK, queue # <<>>
    PROVE  /\ 1 \in 1 .. Len(queue) /\ Head(queue) = queue[1]
           /\ Tail(queue) \in Seq(1 .. sent) /\ Len(Tail(queue)) = Len(queue) - 1
           /\ \A j \in 1 .. Len(Tail(queue)) :
                 j + 1 \in 1 .. Len(queue) /\ Tail(queue)[j] = queue[j + 1]
<1>1. queue \in Seq(1 .. sent)
  BY DEF TypeOK
<1>2. Len(queue) \in Nat \ {0}
  BY <1>1, EmptySeq
<1>3. /\ Tail(queue) \in Seq(1 .. sent) /\ Len(Tail(queue)) = Len(queue) - 1
      /\ \A j \in 1 .. Len(Tail(queue)) : Tail(queue)[j] = queue[j + 1]
  BY <1>1, HeadTailProperties
<1> QED
  BY <1>1, <1>2, <1>3

\* LostOnlyAfterRead with the places of the sequences spelled out.
LEMMA Lost ==
    ASSUME TypeOK
    PROVE  LostOnlyAfterRead <=>
             \A i \in 1 .. sent :
                \/ \E j \in 1 .. Len(queue) : queue[j] = i
                \/ \E k \in 1 .. Len(received) : origin[received[k]] = origin[i]
  BY Shapes DEF LostOnlyAfterRead, InQueue

\* The same after a step.
LEMMA LostAfter ==
    ASSUME DOMAIN queue' = 1 .. Len(queue'), DOMAIN received' = 1 .. Len(received'),
           \A i \in 1 .. sent' :
              \/ \E j \in 1 .. Len(queue') : queue'[j] = i
              \/ \E k \in 1 .. Len(received') : origin'[received'[k]] = origin'[i]
    PROVE  LostOnlyAfterRead'
  BY DEF LostOnlyAfterRead, InQueue

-----------------------------------------------------------------------------
LEMMA InitIInv == Init => IInv
<1> SUFFICES ASSUME Init PROVE IInv
  OBVIOUS
<1>1. sent = 0 /\ last_qid = 0 /\ queue = <<>> /\ received = <<>> /\ origin = <<>>
  BY DEF Init
<1>2. Len(queue) = 0 /\ Len(received) = 0 /\ Len(origin) = 0
  BY <1>1, EmptySeq
<1>3. TypeOK
  BY <1>1, <1>2, EmptySeq, QueueAssumption DEF Init, TypeOK
<1> QED
  BY <1>1, <1>2, <1>3 DEF Init, IInv, LostOnlyAfterRead, HasId, Current, Ordered,
                          ReadBeforeRemoval

\* msgget gives the id of the queue of the key, or the next one.
LEMMA StartSendKeeps ==
    ASSUME IInv, NEW p \in Procs, WithinBounds, StartSend(p)
    PROVE  IInv'
<1> USE DEF IInv
<1>1. /\ UNCHANGED <<queue, sent, received, origin>>
      /\ pc[p] = "idle"
      /\ pc' = [pc EXCEPT ![p] = "msgsnd"] \/ pc' = pc
  BY DEF StartSend, Goto
<1>2. /\ msg_qid' = [msg_qid EXCEPT ![p] = key_qid'] /\ key_qid' # 0
      /\ key_qid' \in 0 .. last_qid' /\ last_qid' \in 0 .. MaxQueues /\ last_qid <= last_qid'
      /\ key_qid' = key_qid \/ (key_qid = 0 /\ key_qid' > last_qid)
  BY Shapes, QueueAssumption DEF StartSend, init_message_queue, WithinBounds, TypeOK
<1>3. last_qid \in Nat /\ last_qid' \in Nat
  BY <1>2, Shapes, QueueAssumption
<1>4. TypeOK'
  <2>1. origin \in Seq(1 .. last_qid')
    BY <1>2, <1>3, Wider DEF TypeOK
  <2>2. msg_qid' \in [Procs -> 0 .. last_qid']
    BY <1>2, <1>3 DEF TypeOK
  <2>3. pc' \in [Procs -> {"idle", "msgsnd", "msgrcv", "msgctl"}]
    BY <1>1 DEF TypeOK
  <2> QED
    BY <1>1, <1>2, <2>1, <2>2, <2>3 DEF TypeOK
<1>5. HasId'
  BY <1>1, <1>2 DEF HasId, TypeOK
<1>6. key_qid' # key_qid => Len(queue) = 0
  BY <1>2, EmptySeq DEF TypeOK
<1>7. Current' /\ Ordered'
  BY <1>1, <1>6, Shapes DEF Current, Ordered
<1>8. ReadBeforeRemoval'
  <2> SUFFICES ASSUME NEW q \in Procs, pc'[q] = "msgctl", msg_qid'[q] = key_qid'
               PROVE  \E k \in 1 .. Len(received) : origin[received[k]] = key_qid'
    BY <1>1 DEF ReadBeforeRemoval
  <2>1. q # p /\ pc[q] = "msgctl" /\ msg_qid[q] = key_qid'
    BY <1>1, <1>2 DEF TypeOK
  <2>2. key_qid' = key_qid
    BY <1>2, <2>1, Shapes
  <2> QED
    BY <2>1, <2>2 DEF ReadBeforeRemoval
<1>9. LostOnlyAfterRead'
  BY <1>1 DEF LostOnlyAfterRead, InQueue
<1> QED
  BY <1>4, <1>5, <1>7, <1>8, <1>9

\* What leaves the queue and the ids alone.
LEMMA OtherKeeps ==
    ASSUME IInv, NEW p \in Procs,
           \/ MsgSndFails(p) \/ StartReceive(p) \/ MsgRcvFails(p) \/ Kill(p)
    PROVE  IInv'
<1> USE DEF IInv
<1>1. /\ UNCHANGED <<key_qid, queue, last_qid, sent, received, origin>>
      /\ \E next \in {"idle", "msgrcv", "msgctl"} :
            /\ pc' = [pc EXCEPT ![p] = next]
            /\ next # "idle" => msg_qid'[p] # 0 /\ msg_qid' = msg_qid
            /\ next = "msgctl" => msg_qid[p] # key_qid
      /\ msg_qid' = msg_qid \/ msg_qid' = [msg_qid EXCEPT ![p] = 0]
  BY DEF MsgSndFails, StartReceive, MsgRcvFails, Kill, Goto, HasId, TypeOK
<1>2. TypeOK'
  <2>1. 0 \in 0 .. last_qid
    BY Shapes
  <2> QED
    BY <1>1, <2>1 DEF TypeOK
<1>3. HasId'
  BY <1>1 DEF HasId, TypeOK
<1>4. Current' /\ Ordered' /\ LostOnlyAfterRead'
  BY <1>1 DEF Current, Ordered, LostOnlyAfterRead, InQueue
<1>5. ReadBeforeRemoval'
  BY <1>1 DEF ReadBeforeRemoval, TypeOK
<1> QED
  BY <1>2, <1>3, <1>4, <1>5

\* The new message is the last one, and the queue is that of the key.
LEMMA MsgSndKeeps ==
    ASSUME IInv, NEW p \in Procs, MsgSnd(p)
    PROVE  IInv'
<1> USE DEF IInv
<1>1. /\ pc[p] = "msgsnd" /\ msg_qid[p] = key_qid /\ Len(queue) < Capacity
      /\ sent' = sent + 1
      /\ queue' = Append(queue, sent + 1) /\ origin' = Append(origin, key_qid)
      /\ pc' = [pc EXCEPT ![p] = "idle"]
      /\ UNCHANGED <<key_qid, msg_qid, last_qid, received>>
  BY DEF MsgSnd, Room, Goto
<1>2. key_qid # 0 /\ key_qid \in 1 .. last_qid
  BY <1>1, Shapes DEF HasId
<1>3. /\ sent \in Nat /\ sent + 1 \in 1 .. sent'
      /\ queue \in Seq(1 .. sent') /\ received \in Seq(1 .. sent')
  <2>1. sent \in Nat /\ sent' \in Nat /\ sent <= sent' /\ sent + 1 \in 1 .. sent'
    BY <1>1, Shapes
  <2>2. queue \in Seq(1 .. sent) /\ received \in Seq(1 .. sent)
    BY DEF TypeOK
  <2> QED
    BY <2>1, <2>2, Wider
<1>4. /\ queue' \in Seq(1 .. sent') /\ Len(queue') = Len(queue) + 1
      /\ \A j \in 1 .. Len(queue) : queue'[j] = queue[j]
      /\ queue'[Len(queue) + 1] = sent + 1
  BY <1>1, <1>3, AppendProperties
<1>5. /\ origin' \in Seq(1 .. last_qid) /\ Len(origin') = sent'
      /\ \A i \in 1 .. sent : origin'[i] = origin[i]
      /\ origin'[sent + 1] = key_qid
  BY <1>1, <1>2, AppendProperties DEF TypeOK
<1>6. TypeOK'
  <2>1. Len(queue') <= Capacity
    BY <1>1, <1>4, Shapes, QueueAssumption
  <2> QED
    BY <1>1, <1>2, <1>3, <1>4, <1>5, <2>1 DEF TypeOK
<1>7. HasId'
  BY <1>1 DEF HasId, TypeOK
<1>8. Current'
  BY <1>1, <1>4, <1>5, Shapes DEF Current
<1>9. Ordered'
  <2>1. \A j \in 1 .. Len(queue') :
           \/ j \in 1 .. Len(queue) /\ queue'[j] = queue[j] /\ queue[j] \in 1 .. sent
           \/ j = Len(queue) + 1 /\ queue'[j] = sent + 1
    BY <1>4, Shapes
  <2>2. ASSUME NEW i \in 1 .. Len(queue'), NEW j \in 1 .. Len(queue'), i < j
        PROVE  queue'[i] < queue'[j]
    <3>1. i \in 1 .. Len(queue) /\ queue'[i] = queue[i] /\ queue[i] \in 1 .. sent
      BY <1>4, <2>2, Shapes
    <3>2. CASE j \in 1 .. Len(queue)
      BY <1>4, <2>2, <3>1, <3>2 DEF Ordered
    <3>3. CASE queue'[j] = sent + 1
      BY <1>3, <3>1, <3>3
    <3> QED
      BY <2>1, <3>2, <3>3
  <2>3. ASSUME NEW k \in 1 .. Len(received), NEW j \in 1 .. Len(queue')
        PROVE  received[k] < queue'[j]
    <3>1. received[k] \in 1 .. sent
      BY Shapes
    <3>2. CASE j \in 1 .. Len(queue)
      BY <1>4, <3>2 DEF Ordered
    <3>3. CASE queue'[j] = sent + 1
      BY <1>3, <3>1, <3>3
    <3> QED
      BY <2>1, <3>2, <3>3
  <2> QED
    BY <1>1, <2>2, <2>3 DEF Ordered
<1>10. ReadBeforeRemoval'
  BY <1>1, <1>5, Shapes DEF ReadBeforeRemoval, TypeOK
<1>11. LostOnlyAfterRead'
  <2> SUFFICES ASSUME NEW i \in 1 .. sent'
               PROVE  \/ \E j \in 1 .. Len(queue') : queue'[j] = i
                      \/ \E k \in 1 .. Len(received) : origin'[received[k]] = origin'[i]
    <3>1. received' = received
      BY <1>1
    <3>2. DOMAIN queue' = 1 .. Len(queue') /\ DOMAIN received' = 1 .. Len(received')
      BY <3>1, <1>4, Shapes, LenProperties
    <3> QED
      BY <3>1, <3>2, LostAfter
  <2>1. CASE i = sent + 1
    <3>1. Len(queue) + 1 \in 1 .. Len(queue')
      BY <1>4, Shapes
    <3> QED
      BY <1>4, <2>1, <3>1
  <2>2. CASE i \in 1 .. sent
    <3>1. CASE \E j \in 1 .. Len(queue) : queue[j] = i
      <4>1. PICK j \in 1 .. Len(queue) : queue[j] = i
        BY <3>1
      <4>2. j \in 1 .. Len(queue') /\ queue'[j] = i
        BY <1>4, <4>1, Shapes
      <4> QED
        BY <4>2
    <3>2. CASE \E k \in 1 .. Len(received) : origin[received[k]] = origin[i]
      BY <1>5, <2>2, <3>2, Shapes
    <3> QED
      BY <2>2, <3>1, <3>2, Lost
  <2>3. i = sent + 1 \/ i \in 1 .. sent
    BY <1>1, <1>3
  <2> QED
    BY <2>1, <2>2, <2>3
<1> QED
  BY <1>6, <1>7, <1>8, <1>9, <1>10, <1>11

\* The message that leaves the queue is received.
LEMMA MsgRcvKeeps ==
    ASSUME IInv, NEW p \in Procs, MsgRcv(p)
    PROVE  IInv'
<1> USE DEF IInv
<1>1. /\ pc[p] = "msgrcv" /\ msg_qid[p] = key_qid /\ queue # <<>>
      /\ received' = Append(received, queue[1]) /\ queue' = Tail(queue)
      /\ pc' = [pc EXCEPT ![p] = "msgctl"]
      /\ UNCHANGED <<key_qid, msg_qid, last_qid, sent, origin>>
  BY TailShape DEF MsgRcv, Taken, Goto
<1>2. /\ 1 \in 1 .. Len(queue) /\ queue[1] \in 1 .. sent
      /\ queue' \in Seq(1 .. sent) /\ Len(queue') = Len(queue) - 1
      /\ \A j \in 1 .. Len(queue') : j + 1 \in 1 .. Len(queue) /\ queue'[j] = queue[j + 1]
  BY <1>1, TailShape, Shapes
<1>3. /\ received' \in Seq(1 .. sent) /\ Len(received') = Len(received) + 1
      /\ \A k \in 1 .. Len(received) : received'[k] = received[k]
      /\ received'[Len(received) + 1] = queue[1]
  BY <1>1, <1>2, AppendProperties DEF TypeOK
<1>4. TypeOK'
  <2>1. Len(queue') <= Capacity
    BY <1>2, Shapes, QueueAssumption DEF TypeOK
  <2>2. key_qid # 0
    BY <1>1 DEF HasId
  <2> QED
    BY <1>1, <1>2, <1>3, <2>1, <2>2 DEF TypeOK
<1>5. HasId' /\ Current'
  BY <1>1, <1>2 DEF HasId, Current, TypeOK
<1>6. Ordered'
  <2>1. \A k \in 1 .. Len(received') :
           \/ k \in 1 .. Len(received) /\ received'[k] = received[k]
           \/ k = Len(received) + 1 /\ received'[k] = queue[1]
    BY <1>3, Shapes
  <2>2. \A j \in 1 .. Len(queue) : queue[j] \in Nat
    BY Shapes
  <2>3. \A j \in 1 .. Len(queue') : j + 1 \in 1 .. Len(queue) /\ j + 1 > 1
                                   /\ queue'[j] = queue[j + 1] /\ j \in Nat
    BY <1>2, Shapes
  <2>4. \A i, j \in 1 .. Len(queue') : i < j => queue'[i] < queue'[j]
    BY <2>3 DEF Ordered
  <2>5. \A k \in 1 .. Len(received'), j \in 1 .. Len(queue') : received'[k] < queue'[j]
    BY <1>2, <2>1, <2>3 DEF Ordered
  <2>6. ASSUME NEW i \in 1 .. Len(received'), NEW j \in 1 .. Len(received'), i < j
        PROVE  received'[i] < received'[j]
    <3>1. i \in 1 .. Len(received) /\ received'[i] = received[i]
      BY <1>3, <2>6, Shapes
    <3>2. CASE j \in 1 .. Len(received) /\ received'[j] = received[j]
      BY <2>6, <3>1, <3>2 DEF Ordered
    <3>3. CASE received'[j] = queue[1]
      BY <1>2, <3>1, <3>3 DEF Ordered
    <3> QED
      BY <2>1, <3>2, <3>3
  <2> QED
    BY <2>4, <2>5, <2>6 DEF Ordered
<1>7. origin[queue[1]] = key_qid
  BY <1>2 DEF Current
<1>8. ReadBeforeRemoval'
  BY <1>1, <1>3, <1>7, Shapes DEF ReadBeforeRemoval
<1>9. LostOnlyAfterRead'
  <2> SUFFICES ASSUME NEW i \in 1 .. sent
               PROVE  \/ \E j \in 1 .. Len(queue') : queue'[j] = i
                      \/ \E k \in 1 .. Len(received') : origin[received'[k]] = origin[i]
    <3>1. DOMAIN queue' = 1 .. Len(queue') /\ DOMAIN received' = 1 .. Len(received')
      BY <1>2, <1>3, LenProperties
    <3>2. sent' = sent /\ origin' = origin
      BY <1>1
    <3> QED
      BY <3>1, <3>2, LostAfter
  <2>1. CASE \E j \in 1 .. Len(queue) : queue[j] = i
    <3>1. PICK j \in 1 .. Len(queue) : queue[j] = i
      BY <2>1
    <3>2. CASE j = 1
      <4>1. Len(received) + 1 \in 1 .. Len(received')
        BY <1>3, Shapes
      <4> QED
        BY <1>3, <3>1, <3>2, <4>1
    <3>3. CASE j # 1
      <4>1. j - 1 \in 1 .. Len(queue') /\ queue'[j - 1] = queue[j]
        BY <1>2, <3>3, Shapes
      <4> QED
        BY <3>1, <4>1
    <3> QED
      BY <3>2, <3>3
  <2>2. CASE \E k \in 1 .. Len(received) : origin[received[k]] = origin[i]
    BY <1>3, <2>2, Shapes
  <2> QED
    BY <2>1, <2>2, Lost
<1> QED
  BY <1>4, <1>5, <1>6, <1>8, <1>9

\* What goes with the queue is lost after something was received from it.
LEMMA MsgCtlKeeps ==
    ASSUME IInv, NEW p \in Procs, MsgCtl(p)
    PROVE  IInv'
<1> USE DEF IInv
<1>1. /\ pc[p] = "msgctl"
      /\ IF msg_qid[p] = key_qid THEN key_qid' = 0 /\ queue' = <<>>
                                 ELSE key_qid' = key_qid /\ queue' = queue
      /\ msg_qid' = [msg_qid EXCEPT ![p] = 0] /\ pc' = [pc EXCEPT ![p] = "idle"]
      /\ UNCHANGED <<last_qid, sent, received, origin>>
  BY DEF MsgCtl, Removes, Goto
<1>2. queue' = <<>> => queue' \in Seq(1 .. sent) /\ Len(queue') = 0
  BY EmptySeq
<1>3. TypeOK'
  <2>1. 0 \in 0 .. last_qid /\ 0 <= Capacity
    BY Shapes, QueueAssumption
  <2> QED
    BY <1>1, <1>2, <2>1 DEF TypeOK
<1>4. HasId'
  BY <1>1 DEF HasId, TypeOK
<1>5. Current' /\ Ordered'
  BY <1>1, <1>2, Shapes DEF Current, Ordered
<1>6. ReadBeforeRemoval'
  BY <1>1 DEF ReadBeforeRemoval, HasId, TypeOK
<1>7. LostOnlyAfterRead'
  <2> SUFFICES ASSUME NEW i \in 1 .. sent
               PROVE  \/ \E j \in 1 .. Len(queue') : queue'[j] = i
                      \/ \E k \in 1 .. Len(received) : origin[received[k]] = origin[i]
    <3>1. queue' \in Seq(1 .. sent)
      BY <1>1, <1>2 DEF TypeOK
    <3>2. DOMAIN queue' = 1 .. Len(queue')
      BY <3>1, LenProperties
    <3>3. received' = received /\ sent' = sent /\ origin' = origin
      BY <1>1
    <3> QED
      BY <3>2, <3>3, LostAfter, Shapes
  <2>1. CASE msg_qid[p] # key_qid
    BY <1>1, <2>1, Lost
  <2>2. CASE msg_qid[p] = key_qid
    <3>1. \E k \in 1 .. Len(received) : origin[received[k]] = key_qid
      BY <1>1, <2>2 DEF ReadBeforeRemoval
    <3> QED
      BY <3>1, Lost DEF Current
  <2> QED
    BY <2>1, <2>2
<1> QED
  BY <1>3, <1>4, <1>5, <1>6, <1>7

LEMMA NextIInv == IInv /\ [Next]_vars => IInv'
<1> SUFFICES ASSUME IInv, [Next]_vars PROVE IInv'
  OBVIOUS
<1>1. CASE UNCHANGED vars
  BY <1>1 DEF vars, IInv, TypeOK, LostOnlyAfterRead, InQueue, HasId, Current, Ordered,
              ReadBeforeRemoval
<1>2. ASSUME NEW p \in Procs, WithinBounds, StartSend(p) PROVE IInv'
  BY <1>2, StartSendKeeps
<1>3. ASSUME NEW p \in Procs,
             MsgSndFails(p) \/ StartReceive(p) \/ MsgRcvFails(p) \/ Kill(p)
      PROVE  IInv'
  BY <1>3, OtherKeeps
<1>4. ASSUME NEW p \in Procs, MsgSnd(p) PROVE IInv'
  BY <1>4, MsgSndKeeps
<1>5. ASSUME NEW p \in Procs, MsgRcv(p) PROVE IInv'
  BY <1>5, MsgRcvKeeps
<1>6. ASSUME NEW p \in Procs, MsgCtl(p) PROVE IInv'
  BY <1>6, MsgCtlKeeps
<1> QED
  BY <1>1, <1>2, <1>3, <1>4, <1>5, <1>6 DEF Next, System

\* The invariant holds however the calls of the processes interleave.
THEOREM QueueInvariant == Spec => []IInv
<1> QED
  BY InitIInv, NextIInv, PTL DEF Spec

\* The variables of the kernel and of every process keep their shapes
\* (ipc_channels.cpp:223-294).
THEOREM QueueTypes == Spec => []TypeOK
<1>1. IInv => TypeOK
  BY DEF IInv
<1> QED
  BY <1>1, QueueInvariant, PTL

\* Nothing put into a queue is lost unless something was received from this
\* queue: msgctl with an id left over from a removed queue removes nothing
\* (ipc_channels.cpp:289-292).
THEOREM QueueLosesOnlyAfterRead == Spec => []LostOnlyAfterRead
<1>1. IInv => LostOnlyAfterRead
  BY DEF IInv
<1> QED
  BY <1>1, QueueInvariant, PTL

-----------------------------------------------------------------------------
\* Every step is a send, the delivery of the oldest message that waits, or
\* changes nothing the transport knows of.
LEMMA StepSimulates ==
    ASSUME IInv, [Next]_vars
    PROVE  [Abstract!Next]_(Abstract!vars)
<1> USE DEF IInv
<1>1. ASSUME NEW p \in Procs, MsgSnd(p) PROVE Abstract!Send
  BY <1>1 DEF MsgSnd, Abstract!Send
<1>2. ASSUME NEW p \in Procs, MsgRcv(p) PROVE \E i \in 1 .. sent : Abstract!Deliver(i)
  <2>1. /\ received' = Append(received, queue[1]) /\ sent' = sent
        /\ 1 \in 1 .. Len(queue) /\ queue[1] \in 1 .. sent
    BY <1>2, TailShape, Shapes DEF MsgRcv
  <2>2. \A k \in DOMAIN received : received[k] # queue[1] /\ received[k] < queue[1]
    BY <2>1, Shapes DEF Ordered
  <2> QED
    BY <2>1, <2>2 DEF Abstract!Deliver
<1>3. ASSUME ~ \E p \in Procs : MsgSnd(p) \/ MsgRcv(p)
      PROVE  UNCHANGED <<sent, received>>
  BY <1>3 DEF Next, System, vars, StartSend, StartReceive, Kill, MsgSndFails, MsgRcvFails, MsgCtl
<1> QED
  BY <1>1, <1>2, <1>3 DEF Abstract!Next, Abstract!vars

\* The message queue is a transport: nothing is received that was not sent,
\* nothing twice, and nothing out of order (ipc_channels.cpp:253, :277).
THEOREM QueueIsTransport == Spec => ImplementsTransport
<1>1. Init => Abstract!Init
  BY DEF Init, Abstract!Init
<1> QED
  BY <1>1, StepSimulates, QueueInvariant, PTL DEF Spec, ImplementsTransport, Abstract!Spec
=============================================================================
