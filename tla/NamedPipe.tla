----------------------------- MODULE NamedPipe -----------------------------
(***************************************************************************)
(* The named pipe channel on Linux, ipc_channels.cpp:128-216, as main()    *)
(* uses it: a send is init_pipe_channel and write_pipe_channel, a receive  *)
(* is read_pipe_channel and close_pipe_channel.  One step is one system    *)
(* call, and nothing but the kernel keeps two processes apart.             *)
(*                                                                         *)
(* Opening one side blocks until the other side is opened; whoever opens   *)
(* lets everybody through who waits on the other side.  A FIFO that was    *)
(* unlinked lives on as long as a process has it open.                     *)
(*                                                                         *)
(* Messages are short: the pipe never fills up, and what is in it fits     *)
(* into one read of SHM_SIZE - 1 bytes.                                    *)
(***************************************************************************)
EXTENDS Naturals, Sequences, FiniteSets

CONSTANTS
    Senders,      \* the processes that send
    Receivers,    \* the processes that receive
    Kills,        \* whether processes are killed by their users
    MaxFifos      \* bound on the FIFOs created

ASSUME PipeAssumption == Kills \in BOOLEAN /\ MaxFifos \in Nat

Procs == Senders \union Receivers
Fifos == 1 .. MaxFifos

VARIABLES
    path,      \* the FIFO at PIPE_PATH, 0 if there is none
    made,      \* the number of FIFOs created so far
    buffer,    \* the messages in each FIFO
    wfd,       \* the FIFO each process has open for writing, 0 for none
    rfd,       \* the FIFO each process has open for reading, 0 for none
    pc,        \* the system call each process is about to make, or waits in
    \* history, for the properties only:
    sent,      \* the number of messages sent
    received,  \* the messages received, in order
    origin,    \* the FIFO each message was put into
    broken     \* the FIFOs a process had open when it died

vars == <<path, made, buffer, wfd, rfd, pc, sent, received, origin, broken>>
fds  == <<wfd, rfd>>
hist == <<sent, received, origin, broken>>

Init ==
    /\ path = 0
    /\ made = 0
    /\ buffer = [i \in Fifos |-> <<>>]
    /\ wfd = [p \in Procs |-> 0]
    /\ rfd = [p \in Procs |-> 0]
    /\ pc = [p \in Procs |-> "idle"]
    /\ sent = 0
    /\ received = <<>>
    /\ origin = <<>>
    /\ broken = {}

Writers(i) == {p \in Procs : wfd[p] = i}
Readers(i) == {p \in Procs : rfd[p] = i}

Goto(p, next) == pc' = [pc EXCEPT ![p] = next]

\* p closes what it has open.  What is left in a FIFO is gone when nobody has it
\* open any more.
DropUnheld(p) ==
    buffer' = [i \in Fifos |-> IF Writers(i) \union Readers(i) \subseteq {p}
                               THEN <<>> ELSE buffer[i]]

\* p goes on to its next call; whoever waits at state "waiting" for FIFO i
\* goes on to "through".
PassThrough(p, next, i, fd, waiting, through) ==
    pc' = [q \in Procs |->
             CASE q = p -> next
               [] q # p /\ fd[q] = i /\ pc[q] = waiting -> through
               [] OTHER -> pc[q]]

-----------------------------------------------------------------------------
\* Sending.

\* init_pipe_channel: unlink(PIPE_PATH), whoever's it is.
StartSend(p) ==
    /\ pc[p] = "idle"
    /\ path' = 0
    /\ Goto(p, "mkfifo")
    /\ UNCHANGED <<made, buffer, fds, hist>>

\* init_pipe_channel: mkfifo, which fails if another sender's came first.
MkFifo(p) ==
    /\ pc[p] = "mkfifo"
    /\ \/ /\ path = 0
          /\ made' = made + 1
          /\ path' = made + 1
          /\ Goto(p, "open")
       \/ /\ path # 0
          /\ Goto(p, "idle")
          /\ UNCHANGED <<path, made>>
    /\ UNCHANGED <<buffer, fds, hist>>

\* open(PIPE_PATH, O_WRONLY), which need not be the FIFO p has made.
OpenWrite(p) ==
    /\ pc[p] = "open"
    /\ \/ /\ path = 0
          /\ Goto(p, "idle")
          /\ UNCHANGED wfd
       \/ /\ path # 0
          /\ wfd' = [wfd EXCEPT ![p] = path]
          /\ PassThrough(p, IF Readers(path) = {} THEN "wait_reader" ELSE "write",
                         path, rfd, "wait_writer", "read")
    /\ UNCHANGED <<path, made, buffer, rfd, hist>>

Write(p) ==
    /\ pc[p] = "write"
    /\ Readers(wfd[p]) # {}
    /\ sent' = sent + 1
    /\ origin' = Append(origin, wfd[p])
    /\ buffer' = [buffer EXCEPT ![wfd[p]] = Append(@, sent + 1)]
    /\ Goto(p, "close_write")
    /\ UNCHANGED <<path, made, fds, received, broken>>

\* The process ends; the kernel closes what it has open.
Dies(p) ==
    /\ broken' = broken \union ({wfd[p], rfd[p]} \ {0})
    /\ wfd' = [wfd EXCEPT ![p] = 0]
    /\ rfd' = [rfd EXCEPT ![p] = 0]
    /\ Goto(p, "dead")
    /\ DropUnheld(p)
    /\ UNCHANGED <<path, made, sent, received, origin>>

\* Nobody reads any more: SIGPIPE, for which main() has no handler.
WriteSigpipe(p) ==
    /\ pc[p] = "write"
    /\ Readers(wfd[p]) = {}
    /\ Dies(p)

\* Mutants, here and below: what the definition that follows must not be.
\* The descriptor is not closed.
CloseWrite_Leaks(p) ==
    /\ pc[p] = "close_write"
    /\ Goto(p, "idle")
    /\ UNCHANGED <<path, made, buffer, fds, hist>>

CloseWrite(p) ==
    /\ pc[p] = "close_write"
    /\ wfd' = [wfd EXCEPT ![p] = 0]
    /\ DropUnheld(p)
    /\ Goto(p, "idle")
    /\ UNCHANGED <<path, made, rfd, hist>>

-----------------------------------------------------------------------------
\* Receiving.

\* The side is opened with O_NONBLOCK.
AfterOpenRead_NonBlocking(i) == "read"

AfterOpenRead(i) == IF Writers(i) = {} THEN "wait_writer" ELSE "read"

\* open(PIPE_PATH, O_RDONLY): "" if there is nothing to open, and
\* close_pipe_channel in any case.
OpenRead(p) ==
    /\ pc[p] = "idle"
    /\ \/ /\ path = 0
          /\ Goto(p, "unlink")
          /\ UNCHANGED rfd
       \/ /\ path # 0
          /\ rfd' = [rfd EXCEPT ![p] = path]
          /\ PassThrough(p, AfterOpenRead(path), path, wfd, "wait_reader", "write")
    /\ UNCHANGED <<path, made, buffer, wfd, hist>>

\* What was read stays in the FIFO.
Unread_All(queue) == queue

Unread(queue) == <<>>

\* read returns all that is in the FIFO, and std::string(buffer) ends at the
\* first '\0': one message is received, those behind it are lost.
Read(p) ==
    /\ pc[p] = "read"
    /\ \/ /\ buffer[rfd[p]] # <<>>
          /\ received' = Append(received, Head(buffer[rfd[p]]))
          /\ buffer' = [buffer EXCEPT ![rfd[p]] = Unread(@)]
       \/ /\ buffer[rfd[p]] = <<>>
          /\ Writers(rfd[p]) = {}
          /\ UNCHANGED <<received, buffer>>
    /\ Goto(p, "close_read")
    /\ UNCHANGED <<path, made, fds, sent, origin, broken>>

CloseRead(p) ==
    /\ pc[p] = "close_read"
    /\ rfd' = [rfd EXCEPT ![p] = 0]
    /\ DropUnheld(p)
    /\ Goto(p, "unlink")
    /\ UNCHANGED <<path, made, wfd, hist>>

\* close_pipe_channel: unlink(PIPE_PATH), whatever is there by now.
Unlink(p) ==
    /\ pc[p] = "unlink"
    /\ path' = 0
    /\ Goto(p, "idle")
    /\ UNCHANGED <<made, buffer, fds, hist>>

-----------------------------------------------------------------------------
Kill(p) == Kills /\ pc[p] \notin {"idle", "dead"} /\ Dies(p)

\* The next process on the same terminal.
Restart(p) ==
    /\ pc[p] = "dead"
    /\ Goto(p, "idle")
    /\ UNCHANGED <<path, made, buffer, fds, hist>>

System(p) ==
    \/ MkFifo(p)
    \/ OpenWrite(p)
    \/ Write(p)
    \/ WriteSigpipe(p)
    \/ CloseWrite(p)
    \/ Read(p)
    \/ CloseRead(p)
    \/ Unlink(p)

\* The bound keeps users from starting a send, never the system from ending it.
WithinBounds == made + Cardinality({p \in Procs : pc[p] = "mkfifo"}) < MaxFifos

Next ==
    \/ \E p \in Senders : WithinBounds /\ StartSend(p)
    \/ \E p \in Receivers : OpenRead(p)
    \/ \E p \in Procs : System(p) \/ Kill(p) \/ Restart(p)

Spec == Init /\ [][Next]_vars

\* A system call that can return does, and whoever receives goes on receiving.
\* Nobody has to send or die.
FairSpec ==
    /\ Spec
    /\ \A p \in Procs : WF_vars(System(p))
    /\ \A p \in Receivers : WF_vars(OpenRead(p))

-----------------------------------------------------------------------------
States == {"idle", "mkfifo", "open", "wait_reader", "write", "close_write",
           "wait_writer", "read", "close_read", "unlink", "dead"}

\* The variables have the shapes their declarations give, and between two
\* calls of main() nothing is left open.
TypeOK ==
    /\ path \in 0 .. made /\ made \in 0 .. MaxFifos
    /\ buffer \in [Fifos -> Seq(1 .. sent)]
    /\ wfd \in [Procs -> 0 .. made] /\ rfd \in [Procs -> 0 .. made]
    /\ pc \in [Procs -> States]
    /\ \A p \in Procs :
          /\ wfd[p] # 0 <=> pc[p] \in {"wait_reader", "write", "close_write"}
          /\ rfd[p] # 0 <=> pc[p] \in {"wait_writer", "read", "close_read"}
    /\ received \in Seq(1 .. sent)
    /\ origin \in Seq(1 .. made) /\ Len(origin) = sent

\* A message is lost only if a message was received from the FIFO it was put
\* into, or a process died that had this FIFO open: opening both sides without
\* O_NONBLOCK keeps a receiver from coming and going between the open and the
\* write of a sender (ipc_channels.cpp:163-165, :194-197).
LostOnlyAfterRead ==
    \A i \in 1 .. sent :
        \/ \E k \in DOMAIN buffer[origin[i]] : buffer[origin[i]][k] = i
        \/ \E k \in DOMAIN received : origin[received[k]] = origin[i]
        \/ origin[i] \in broken

\* The channel implements a transport; messages in FIFOs that were unlinked
\* may be overtaken.
Abstract == INSTANCE Transport WITH InOrder <- FALSE
ImplementsTransport == Abstract!Spec

\* A receiver that has met a sender comes back, whatever becomes of the path
\* and of the sender (ipc_channels.cpp:197).
ReadReturns == \A p \in Procs : (pc[p] = "read") ~> (pc[p] # "read")

-----------------------------------------------------------------------------
(***************************************************************************)
(* What messages say of the program and it does not do.                    *)
(***************************************************************************)

\* main.cpp:196 "Channel initialization failed or socket write timed out.": a
\* send comes back, with this or with success.  Even if somebody receives over
\* and over, a sender can wait on a FIFO that a receiver has unlinked.
SendReturns ==
    \A p \in Procs : (pc[p] = "wait_reader") ~> (pc[p] # "wait_reader")
=============================================================================
