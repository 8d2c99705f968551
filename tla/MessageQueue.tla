---------------------------- MODULE MessageQueue ----------------------------
(***************************************************************************)
(* The message queue channel on Linux, ipc_channels.cpp:223-294, as main() *)
(* uses it: a send is init_message_queue and write_message_queue, a        *)
(* receive is read_message_queue and close_message_queue.  One step is one *)
(* system call.                                                            *)
(*                                                                         *)
(* The kernel keeps at most one queue under MSG_KEY.  A queue that was     *)
(* removed is never seen again: its id is not used for the next one, and   *)
(* whoever waits on it or still has its id gets an error.                  *)
(***************************************************************************)
EXTENDS Naturals, Sequences, FiniteSets

CONSTANTS
    Procs,
    Capacity,     \* messages that fit in a queue (msg_qbytes / SHM_SIZE)
    Oversized,    \* whether payloads of SHM_SIZE bytes and more are typed
    Kills,        \* whether processes are killed or exit
    MaxSent,      \* bound on the messages sent
    MaxQueues     \* bound on the queues created

ASSUME QueueAssumption ==
    /\ Capacity \in Nat \ {0}
    /\ Oversized \in BOOLEAN /\ Kills \in BOOLEAN
    /\ MaxSent \in Nat /\ MaxQueues \in Nat

VARIABLES
    key_qid,     \* the id of the queue under MSG_KEY, 0 if there is none
    queue,       \* its messages
    msg_qid,     \* the static variable of each process, 0 for -1
    pc,          \* the system call each process is about to make, or is in
    \* history, for the properties only:
    last_qid,    \* the last id the kernel gave
    sent,        \* the number of messages sent
    received,    \* the messages received, in order
    origin       \* the queue each message was put into

vars == <<key_qid, queue, msg_qid, pc, last_qid, sent, received, origin>>

Init ==
    /\ key_qid = 0
    /\ queue = <<>>
    /\ msg_qid = [p \in Procs |-> 0]
    /\ pc = [p \in Procs |-> "idle"]
    /\ last_qid = 0
    /\ sent = 0
    /\ received = <<>>
    /\ origin = <<>>

Goto(p, next) == pc' = [pc EXCEPT ![p] = next]

\* msg_qid = msgget(MSG_KEY, 0666 | IPC_CREAT)
init_message_queue(p) ==
    IF key_qid # 0
    THEN /\ msg_qid' = [msg_qid EXCEPT ![p] = key_qid]
         /\ UNCHANGED <<key_qid, last_qid>>
    ELSE /\ last_qid' = last_qid + 1
         /\ key_qid' = last_qid + 1
         /\ msg_qid' = [msg_qid EXCEPT ![p] = last_qid + 1]

\* The size is checked after the queue was created: an oversized payload is
\* refused but leaves the process with a queue.
StartSend(p) ==
    /\ pc[p] = "idle"
    /\ init_message_queue(p)
    /\ \/ Goto(p, "msgsnd")
       \/ Oversized /\ UNCHANGED pc
    /\ UNCHANGED <<queue, sent, received, origin>>

\* Mutants, here and below: what the definition that follows must not be.
\* The limit is not enforced.
Room_Ignored == TRUE

Room == Len(queue) < Capacity

\* msgsnd is called without IPC_NOWAIT: it blocks while the queue is full.
MsgSnd(p) ==
    /\ pc[p] = "msgsnd"
    /\ msg_qid[p] = key_qid
    /\ Room
    /\ sent' = sent + 1
    /\ queue' = Append(queue, sent + 1)
    /\ origin' = Append(origin, key_qid)
    /\ Goto(p, "idle")
    /\ UNCHANGED <<key_qid, msg_qid, last_qid, received>>

\* EINVAL or EIDRM: write_message_queue returns false.
MsgSndFails(p) ==
    /\ pc[p] = "msgsnd"
    /\ msg_qid[p] # key_qid
    /\ Goto(p, "idle")
    /\ UNCHANGED <<key_qid, queue, msg_qid, last_qid, sent, received, origin>>

\* A process that has not sent since it last received has no queue: it gets ""
\* at once, and close_message_queue does nothing.
StartReceive(p) ==
    /\ pc[p] = "idle"
    /\ msg_qid[p] # 0
    /\ Goto(p, "msgrcv")
    /\ UNCHANGED <<key_qid, queue, msg_qid, last_qid, sent, received, origin>>

\* The message stays in the queue.
Taken_Peek(q) == q

Taken(q) == Tail(q)

\* msgrcv blocks while the queue is empty.
MsgRcv(p) ==
    /\ pc[p] = "msgrcv"
    /\ msg_qid[p] = key_qid
    /\ queue # <<>>
    /\ received' = Append(received, Head(queue))
    /\ queue' = Taken(queue)
    /\ Goto(p, "msgctl")
    /\ UNCHANGED <<key_qid, msg_qid, last_qid, sent, origin>>

\* It waits for the queue of the key, not for the one it was called with.
MsgRcvFails_Never(p) == FALSE /\ UNCHANGED vars

\* EINVAL or EIDRM: read_message_queue returns "".
MsgRcvFails(p) ==
    /\ pc[p] = "msgrcv"
    /\ msg_qid[p] # key_qid
    /\ Goto(p, "msgctl")
    /\ UNCHANGED <<key_qid, queue, msg_qid, last_qid, sent, received, origin>>

\* The queue of the key is removed, whichever the process had.
Removes_ByKey(p) == key_qid # 0

Removes(p) == msg_qid[p] = key_qid

\* close_message_queue after every receive: msgctl(msg_qid, IPC_RMID) takes
\* away the queue and what is still in it.
MsgCtl(p) ==
    /\ pc[p] = "msgctl"
    /\ IF Removes(p) THEN key_qid' = 0 /\ queue' = <<>>
                     ELSE UNCHANGED <<key_qid, queue>>
    /\ msg_qid' = [msg_qid EXCEPT ![p] = 0]
    /\ Goto(p, "idle")
    /\ UNCHANGED <<last_qid, sent, received, origin>>

\* The process ends and another is started; the queue stays in the kernel.
Kill(p) ==
    /\ Kills
    /\ msg_qid' = [msg_qid EXCEPT ![p] = 0]
    /\ Goto(p, "idle")
    /\ UNCHANGED <<key_qid, queue, last_qid, sent, received, origin>>

System(p) ==
    \/ MsgSnd(p)
    \/ MsgSndFails(p)
    \/ MsgRcv(p)
    \/ MsgRcvFails(p)
    \/ MsgCtl(p)

\* The bounds keep users from starting a send, never the system from ending it.
WithinBounds ==
    /\ sent + Cardinality({p \in Procs : pc[p] = "msgsnd"}) < MaxSent
    /\ last_qid < MaxQueues

Next == \E p \in Procs :
    \/ WithinBounds /\ StartSend(p)
    \/ StartReceive(p)
    \/ System(p)
    \/ Kill(p)

Spec == Init /\ [][Next]_vars

\* A system call that can return does.  Nobody has to send, receive or die, so
\* a sender may wait for room, and a receiver for a message, forever.
FairSpec == Spec /\ \A p \in Procs : WF_vars(System(p))

-----------------------------------------------------------------------------
InQueue == {queue[i] : i \in DOMAIN queue}

\* The variables have the shapes their declarations give, and a queue that
\* does not exist holds nothing.
TypeOK ==
    /\ key_qid \in 0 .. last_qid /\ last_qid \in 0 .. MaxQueues
    /\ queue \in Seq(1 .. sent)
    /\ Len(queue) <= Capacity
    /\ key_qid = 0 => queue = <<>>
    /\ msg_qid \in [Procs -> 0 .. last_qid]
    /\ pc \in [Procs -> {"idle", "msgsnd", "msgrcv", "msgctl"}]
    /\ received \in Seq(1 .. sent)
    /\ origin \in Seq(1 .. last_qid) /\ Len(origin) = sent

\* A message is lost only if a message was received from the queue it was put
\* into: an id left over from a removed queue never takes away the next one
\* (ipc_channels.cpp:289-292).
LostOnlyAfterRead ==
    \A i \in 1 .. sent :
        i \in InQueue \/ \E k \in DOMAIN received : origin[received[k]] = origin[i]

\* The channel implements a transport that never reorders.
Abstract == INSTANCE Transport WITH InOrder <- TRUE
ImplementsTransport == Abstract!Spec

\* Whoever waits on a queue that is gone is told so (ipc_channels.cpp:277).
StaleWaitersReturn ==
    \A p \in Procs :
        (pc[p] \in {"msgsnd", "msgrcv"} /\ msg_qid[p] # key_qid) ~>
            (pc[p] \notin {"msgsnd", "msgrcv"})
=============================================================================
