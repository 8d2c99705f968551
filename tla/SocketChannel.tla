---------------------------- MODULE SocketChannel ----------------------------
(***************************************************************************)
(* The socket channel on Linux, ipc_channels.cpp:300-425, as main() uses   *)
(* it: a send is init_socket_channel and write_socket_channel, a receive   *)
(* is read_socket_channel and close_socket_channel.                        *)
(*                                                                         *)
(* After a failed bind, server_socket keeps the number of a descriptor     *)
(* that is closed, and the kernel gives out the lowest free number.  So    *)
(* the descriptor tables are part of the model, and with them the one      *)
(* other static variable that lasts from one menu entry to the next,       *)
(* shm_fd: ipc_channels.cpp:46-48 opens it and :116-119 closes it.         *)
(*                                                                         *)
(* connect and send are one step: their socket is closed before            *)
(* write_socket_channel returns, and no other process accepts it earlier   *)
(* than its own receive, which comes later.                                *)
(***************************************************************************)
EXTENDS Integers, Sequences, FiniteSets

CONSTANTS
    Procs,
    Kills,        \* whether processes are killed or exit
    MaxSockets,   \* bound on the sockets created by init_socket_channel
    MaxFd         \* bound on the descriptors of a process

ASSUME SocketAssumption ==
    Kills \in BOOLEAN /\ MaxSockets \in Nat /\ MaxFd \in Nat \ {0}

Sockets == 1 .. MaxSockets
Fds     == 1 .. MaxFd
Free    == 0       \* the contents of an unused descriptor
Segment == -1      \* a descriptor of the shared memory segment
Backlog == 1       \* listen(server_socket, 1)

VARIABLES
    file,            \* what each descriptor of each process refers to
    server_socket,   \* the static variables of each process, 0 for -1
    shm_fd,
    state,           \* of each socket
    accepting,       \* the messages of connections waiting in its backlog
    pc,              \* the system call each process is about to make, or is in
    \* history, for the properties only:
    made,            \* the number of sockets created
    sender,          \* the process that sent each message
    received,        \* the messages received, in order
    upset            \* the processes that ended, or had an init fail

vars == <<file, server_socket, shm_fd, state, accepting, pc,
          made, sender, received, upset>>
hist == <<made, sender, received, upset>>

sent == Len(sender)

Init ==
    /\ file = [p \in Procs |-> [n \in Fds |-> Free]]
    /\ server_socket = [p \in Procs |-> 0]
    /\ shm_fd = [p \in Procs |-> 0]
    /\ state = [i \in Sockets |-> "none"]
    /\ accepting = [i \in Sockets |-> <<>>]
    /\ pc = [p \in Procs |-> "idle"]
    /\ made = 0 /\ sender = <<>> /\ received = <<>>
    /\ upset = {}

Goto(p, next) == pc' = [pc EXCEPT ![p] = next]

FreeFds(p) == {n \in Fds : file[p][n] = Free}
Lowest(p)  == CHOOSE n \in FreeFds(p) : \A k \in FreeFds(p) : n <= k

\* What p's number n refers to; nothing if it is not open.
Referred(p, n) == IF n \in Fds THEN file[p][n] ELSE Free

\* close(n) for the numbers n in ns.  A listening socket takes the connections
\* in its backlog with it.
Close(p, ns) ==
    LET gone == {file[p][n] : n \in ns} \intersect Sockets
    IN  /\ file' = [file EXCEPT ![p] = [n \in Fds |-> IF n \in ns THEN Free ELSE @[n]]]
        /\ state' = [i \in Sockets |-> IF i \in gone THEN "closed" ELSE state[i]]
        /\ accepting' = [i \in Sockets |-> IF i \in gone THEN <<>> ELSE accepting[i]]

-----------------------------------------------------------------------------
\* Sending.

Listening(i) == i \in Sockets /\ state[i] = "listening"

\* Mutants, here and below: what the definition that follows must not be.
\* Listeners share the port, as with SO_REUSEPORT.
PortTaken_Shared == FALSE

\* SO_REUSEADDR is set on every socket, so that only a listening one is in
\* the way of another bind, or of the listen of a socket already bound.
PortTaken == \E i \in Sockets : Listening(i)

\* socket and bind.  The number of the socket goes into the static variable
\* first, whatever was in there, and stays there if bind fails.
Bind(p) ==
    /\ pc[p] = "idle"
    /\ made' = made + 1
    /\ server_socket' = [server_socket EXCEPT ![p] = Lowest(p)]
    /\ IF PortTaken
       THEN /\ state' = [state EXCEPT ![made + 1] = "closed"]
            /\ upset' = upset \union {p}
            /\ UNCHANGED <<file, pc>>
       ELSE /\ state' = [state EXCEPT ![made + 1] = "bound"]
            /\ file' = [file EXCEPT ![p][Lowest(p)] = made + 1]
            /\ Goto(p, "listen")
            /\ UNCHANGED upset
    /\ UNCHANGED <<shm_fd, accepting, sender, received>>

\* If another process came first the socket stays open, bound and useless.
Listen(p) ==
    /\ pc[p] = "listen"
    /\ IF PortTaken
       THEN /\ upset' = upset \union {p}
            /\ Goto(p, "idle")
            /\ UNCHANGED state
       ELSE /\ state' = [state EXCEPT ![Referred(p, server_socket[p])] = "listening"]
            /\ Goto(p, "connect")
            /\ UNCHANGED upset
    /\ UNCHANGED <<file, server_socket, shm_fd, accepting, made, sender, received>>

\* write_socket_channel: the kernel picks a socket that listens on the port.
\* The call waits while the backlog is full, which holds one connection more
\* than listen was asked for; without a listener the connection is refused.
Connect(p) ==
    /\ pc[p] = "connect"
    /\ IF \E i \in Sockets : Listening(i)
       THEN \E i \in Sockets :
                /\ Listening(i) /\ Len(accepting[i]) <= Backlog
                /\ accepting' = [accepting EXCEPT ![i] = Append(@, sent + 1)]
                /\ sender' = Append(sender, p)
       ELSE UNCHANGED <<accepting, sender>>
    /\ Goto(p, "idle")
    /\ UNCHANGED <<file, server_socket, shm_fd, state, made, received, upset>>

-----------------------------------------------------------------------------
\* Receiving.

\* With server_socket = -1 there is nothing to read and nothing to close.
StartReceive(p) ==
    /\ pc[p] = "idle"
    /\ server_socket[p] # 0
    /\ Goto(p, "accept")
    /\ UNCHANGED <<file, server_socket, shm_fd, state, accepting, hist>>

\* accept waits for a connection if the descriptor is a listening socket, and
\* fails at once otherwise.  The connection holds the message: recv returns it.
Accept(p) ==
    /\ pc[p] = "accept"
    /\ LET i == Referred(p, server_socket[p]) IN
       IF Listening(i)
       THEN /\ accepting[i] # <<>>
            /\ received' = Append(received, Head(accepting[i]))
            /\ accepting' = [accepting EXCEPT ![i] = Tail(@)]
       ELSE UNCHANGED <<received, accepting>>
    /\ Goto(p, "close")
    /\ UNCHANGED <<file, server_socket, shm_fd, state, made, sender, upset>>

\* server_socket keeps the number of the socket that was just closed.
CloseSocket_KeepsNumber(p) ==
    /\ pc[p] = "close"
    /\ Close(p, {server_socket[p]})
    /\ Goto(p, "idle")
    /\ UNCHANGED <<server_socket, shm_fd, hist>>

\* Only the connection is closed after a receive, the listener stays.
CloseSocket_KeepsListener(p) ==
    /\ pc[p] = "close"
    /\ Goto(p, "idle")
    /\ UNCHANGED <<file, server_socket, shm_fd, state, accepting, hist>>

\* close_socket_channel closes whatever the number refers to by now.
CloseSocket(p) ==
    /\ pc[p] = "close"
    /\ Close(p, {server_socket[p]})
    /\ server_socket' = [server_socket EXCEPT ![p] = 0]
    /\ Goto(p, "idle")
    /\ UNCHANGED <<shm_fd, hist>>

-----------------------------------------------------------------------------
\* init_shared_memory; the descriptor of an earlier one is not closed.
InitShm(p) ==
    /\ pc[p] = "idle"
    /\ shm_fd' = [shm_fd EXCEPT ![p] = Lowest(p)]
    /\ file' = [file EXCEPT ![p][Lowest(p)] = Segment]
    /\ UNCHANGED <<server_socket, state, accepting, pc, hist>>

\* shm_fd keeps the number of the segment that was just closed.
CloseShm_KeepsNumber(p) ==
    /\ pc[p] = "idle"
    /\ shm_fd[p] # 0
    /\ Close(p, {shm_fd[p]})
    /\ UNCHANGED <<server_socket, shm_fd, pc, hist>>

\* close_shared_memory, also of whatever the number refers to by now.
CloseShm(p) ==
    /\ pc[p] = "idle"
    /\ shm_fd[p] # 0
    /\ Close(p, {shm_fd[p]})
    /\ shm_fd' = [shm_fd EXCEPT ![p] = 0]
    /\ UNCHANGED <<server_socket, pc, hist>>

\* The process ends and another is started in its place.
Kill(p) ==
    /\ Kills
    /\ Close(p, Fds)
    /\ server_socket' = [server_socket EXCEPT ![p] = 0]
    /\ shm_fd' = [shm_fd EXCEPT ![p] = 0]
    /\ upset' = upset \union {p}
    /\ Goto(p, "idle")
    /\ UNCHANGED <<made, sender, received>>

System(p) == Listen(p) \/ Connect(p) \/ Accept(p) \/ CloseSocket(p)

\* The bounds keep users from starting a call, never the system from ending it.
Next == \E p \in Procs :
    \/ made < MaxSockets /\ FreeFds(p) # {} /\ Bind(p)
    \/ FreeFds(p) # {} /\ InitShm(p)
    \/ StartReceive(p)
    \/ CloseShm(p)
    \/ System(p)
    \/ Kill(p)

Spec == Init /\ [][Next]_vars

\* A system call that can return does; nobody has to choose a menu entry.
FairSpec == Spec /\ \A p \in Procs : WF_vars(System(p))

-----------------------------------------------------------------------------
InBacklog(i) == {accepting[i][k] : k \in DOMAIN accepting[i]}

\* The variables have the shapes their declarations give, and a backlog holds
\* one connection at most.
TypeOK ==
    /\ file \in [Procs -> [Fds -> {Free, Segment} \union 1 .. made]]
    /\ server_socket \in [Procs -> 0 .. MaxFd]
    /\ shm_fd \in [Procs -> 0 .. MaxFd]
    /\ state \in [Sockets -> {"none", "bound", "listening", "closed"}]
    /\ accepting \in [Sockets -> Seq(1 .. sent)]
    /\ \A i \in Sockets : /\ Len(accepting[i]) <= 1
                          /\ state[i] # "listening" => accepting[i] = <<>>
    /\ pc \in [Procs -> {"idle", "listen", "connect", "accept", "close"}]
    /\ made \in 0 .. MaxSockets
    /\ sender \in Seq(Procs)
    /\ received \in Seq(1 .. sent)
    /\ upset \subseteq Procs

\* Unless an init failed before, a static variable that is set refers to what
\* it was set to, so that closing one channel never closes another
\* (ipc_channels.cpp:117, :421).
DescriptorsAreOwn ==
    \A p \in Procs \ upset :
        /\ server_socket[p] # 0 => Referred(p, server_socket[p]) \in Sockets
        /\ shm_fd[p] # 0 => Referred(p, shm_fd[p]) = Segment

\* As long as none of its inits failed, what a process sent is received or
\* waits where its next receive looks; a failed init of a later send strands
\* the message of the earlier one (ipc_channels.cpp:323, :334-337).
StrandedOnlyByFailure ==
    \A m \in 1 .. sent :
        \/ sender[m] \in upset
        \/ \E k \in DOMAIN received : received[k] = m
        \/ LET i == Referred(sender[m], server_socket[sender[m]])
           IN  i \in Sockets /\ m \in InBacklog(i)

\* The channel implements a transport that never reorders.
Abstract == INSTANCE Transport WITH InOrder <- TRUE
ImplementsTransport == Abstract!Spec

\* No call waits forever: accept has no timeout (ipc_channels.cpp:397), but
\* whoever still has a listening socket has sent to it and not yet received.
CallsReturn == \A p \in Procs : (pc[p] # "idle") ~> (pc[p] = "idle")
=============================================================================
