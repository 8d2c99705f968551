------------------------- MODULE SocketChannelProofs -------------------------
(***************************************************************************)
(* For any number of processes, sockets and descriptors: no channel closes *)
(* the descriptor of another, only a failed init strands a message, and    *)
(* the sockets implement a transport that never reorders.                  *)
(***************************************************************************)
EXTENDS SocketChannel, SequenceTheorems, WellFoundedInduction, TLAPS

\* What the number in p's server_socket refers to.
Ref(p) == Referred(p, server_socket[p])

\* The port belongs to one socket at a time, and only to one that was made.
OneListener ==
    /\ \A i, j \in Sockets : state[i] = "listening" /\ state[j] = "listening" => i = j
    /\ \A i \in Sockets : i > made => state[i] = "none"

\* A socket is open in one process only, under one number.
OpenOnce ==
    \A p, q \in Procs : \A n, k \in Fds :
        file[p][n] \in Sockets /\ file[p][n] = file[q][k] => p = q /\ n = k

\* Whoever is about to listen has a socket; whoever is about to connect
\* listens, and nothing waits there yet; whoever has accepted leaves nothing
\* behind, and still has the number it began with.
InCall ==
    \A p \in Procs :
        /\ pc[p] = "listen" => Ref(p) \in Sockets
        /\ pc[p] = "connect" =>
              Ref(p) \in Sockets /\ state[Ref(p)] = "listening" /\ accepting[Ref(p)] = <<>>
        /\ pc[p] = "close" => (Ref(p) \in Sockets => accepting[Ref(p)] = <<>>)
        /\ pc[p] \in {"accept", "close"} => server_socket[p] # 0

\* What waits in a backlog was sent after everything that was received, and
\* what was received was received in the order it was sent.
Ordered ==
    /\ \A i \in Sockets : \A j \in 1 .. Len(accepting[i]), k \in 1 .. Len(received) :
          received[k] < accepting[i][j]
    /\ \A j, k \in 1 .. Len(received) : j < k => received[j] < received[k]

IInv ==
    /\ TypeOK /\ DescriptorsAreOwn /\ StrandedOnlyByFailure
    /\ OneListener /\ OpenOnce /\ InCall /\ Ordered

-----------------------------------------------------------------------------
\* What TypeOK says of the numbers in the variables.
Shape ==
    /\ made \in Nat /\ made <= MaxSockets /\ MaxSockets \in Nat /\ MaxFd \in Nat
    /\ sent \in Nat
    /\ \A p \in Procs, n \in Fds : file[p][n] \in {Free, Segment} \union 1 .. made
    /\ \A p \in Procs : server_socket[p] = 0 \/ server_socket[p] \in Fds
    /\ \A p \in Procs : shm_fd[p] = 0 \/ shm_fd[p] \in Fds
    /\ \A i \in Sockets : /\ Len(accepting[i]) \in {0, 1}
                          /\ Len(accepting[i]) = 0 <=> accepting[i] = <<>>
                          /\ DOMAIN accepting[i] = 1 .. Len(accepting[i])
                          /\ \A j \in 1 .. Len(accepting[i]) : accepting[i][j] \in 1 .. sent
    /\ Len(received) \in Nat /\ DOMAIN received = 1 .. Len(received)
    /\ \A k \in 1 .. Len(received) : received[k] \in 1 .. sent
    /\ DOMAIN sender = 1 .. sent
    /\ \A m \in 1 .. sent : sender[m] \in Procs

LEMMA Shapes == TypeOK => Shape
<1> SUFFICES ASSUME TypeOK PROVE Shape
  OBVIOUS
<1>1. sent \in Nat /\ DOMAIN sender = 1 .. sent /\ \A m \in 1 .. sent : sender[m] \in Procs
  BY LenProperties, ElementOfSeq DEF TypeOK, sent
<1>2. /\ Len(received) \in Nat /\ DOMAIN received = 1 .. Len(received)
      /\ \A k \in 1 .. Len(received) : received[k] \in 1 .. sent
  BY LenProperties, ElementOfSeq DEF TypeOK
<1>3. ASSUME NEW i \in Sockets
      PROVE  /\ Len(accepting[i]) \in {0, 1}
             /\ Len(accepting[i]) = 0 <=> accepting[i] = <<>>
             /\ DOMAIN accepting[i] = 1 .. Len(accepting[i])
             /\ \A j \in 1 .. Len(accepting[i]) : accepting[i][j] \in 1 .. sent
  <2>1. accepting[i] \in Seq(1 .. sent) /\ Len(accepting[i]) <= 1
    BY DEF TypeOK
  <2>2. Len(accepting[i]) \in Nat /\ (accepting[i] = <<>> <=> Len(accepting[i]) = 0)
    BY <2>1, LenProperties, EmptySeq
  <2>3. /\ DOMAIN accepting[i] = 1 .. Len(accepting[i])
        /\ \A j \in 1 .. Len(accepting[i]) : accepting[i][j] \in 1 .. sent
    BY <2>1, LenProperties, ElementOfSeq
  <2>4. Len(accepting[i]) \in {0, 1}
    <3>1. \A l \in Nat : l <= 1 => l \in {0, 1}
      OBVIOUS
    <3> QED
      BY <2>1, <2>2, <3>1
  <2> QED
    BY <2>2, <2>3, <2>4
<1>4. made \in Nat /\ made <= MaxSockets /\ MaxSockets \in Nat /\ MaxFd \in Nat
  BY SocketAssumption DEF TypeOK
<1>5. \A p \in Procs, n \in Fds : file[p][n] \in {Free, Segment} \union 1 .. made
  BY DEF TypeOK
<1>6. \A p \in Procs : /\ server_socket[p] = 0 \/ server_socket[p] \in Fds
                       /\ shm_fd[p] = 0 \/ shm_fd[p] \in Fds
  BY <1>4 DEF TypeOK, Fds
<1> QED
  BY <1>1, <1>2, <1>3, <1>4, <1>5, <1>6 DEF Shape

\* The same after a step.
LEMMA ShapesAfter == TypeOK' => Shape'
  BY Shapes, PTL

\* A sequence of numbers up to n is one of numbers up to more.
LEMMA Wider ==
    ASSUME NEW n \in Nat, NEW m \in Nat, n <= m, NEW s \in Seq(1 .. n)
    PROVE  s \in Seq(1 .. m)
<1>1. 1 .. n \subseteq 1 .. m
  OBVIOUS
<1> QED
  BY <1>1, SeqMonotonic

\* Nothing is left of a backlog of one connection.
LEMMA TailOfOne ==
    ASSUME NEW S, NEW s \in Seq(S), Len(s) = 1
    PROVE  Tail(s) \in Seq(S) /\ Len(Tail(s)) = 0
<1>1. s # <<>>
  BY EmptySeq
<1>2. Tail(s) \in Seq(S) /\ Len(Tail(s)) = Len(s) - 1
  BY <1>1, HeadTailProperties
<1> QED
  BY <1>2

\* The kernel finds a lowest free number if there is a free one.
LEMMA LowestIsFree ==
    ASSUME NEW p \in Procs, FreeFds(p) # {}
    PROVE  Lowest(p) \in Fds /\ file[p][Lowest(p)] = Free
<1> DEFINE S == FreeFds(p)
<1>1. S \subseteq Nat /\ S # {}
  BY DEF FreeFds, Fds
<1>2. PICK m \in S : \A y \in S : ~ (<<y, m>> \in OpToRel(<, Nat))
  BY <1>1, NatLessThanWellFounded, WFMin, Zenon
<1>3. \A x, y \in Nat : <<y, x>> \in OpToRel(<, Nat) <=> y < x
  BY DEF OpToRel
<1> HIDE DEF S
<1>4. \A y \in S : m <= y
  <2>1. \A y \in S : ~ (y < m)
    BY <1>1, <1>2, <1>3
  <2>2. m \in Nat /\ \A y \in S : y \in Nat
    BY <1>1
  <2> QED
    BY <2>1, <2>2
<1>5. Lowest(p) \in S
  BY <1>2, <1>4 DEF Lowest, S
<1> QED
  BY <1>5 DEF S, FreeFds

\* StrandedOnlyByFailure by the places in the sequences.
Arrives ==
    \A m \in 1 .. sent :
        \/ sender[m] \in upset
        \/ \E k \in 1 .. Len(received) : received[k] = m
        \/ /\ Ref(sender[m]) \in Sockets
           /\ \E j \in 1 .. Len(accepting[Ref(sender[m])]) : accepting[Ref(sender[m])][j] = m

LEMMA Stranded == TypeOK => (StrandedOnlyByFailure <=> Arrives)
<1> SUFFICES ASSUME TypeOK PROVE StrandedOnlyByFailure <=> Arrives
  OBVIOUS
<1>1. \A i \in Sockets : DOMAIN accepting[i] = 1 .. Len(accepting[i])
  BY Shapes DEF Shape
<1>2. DOMAIN received = 1 .. Len(received)
  BY Shapes DEF Shape
<1> QED
  BY <1>1, <1>2 DEF StrandedOnlyByFailure, Arrives, Ref, InBacklog

\* The same after a step.
LEMMA StrandedAfter == TypeOK' => (StrandedOnlyByFailure' <=> Arrives')
  BY Stranded, PTL
-----------------------------------------------------------------------------
LEMMA InitIInv == Init => IInv
<1> SUFFICES ASSUME Init PROVE IInv
  OBVIOUS
<1>1. sender = <<>> /\ received = <<>> /\ sent = 0 /\ Len(received) = 0
  BY EmptySeq DEF Init, sent
<1>2. \A i \in Sockets : accepting[i] = <<>> /\ Len(accepting[i]) = 0 /\ state[i] = "none"
  BY EmptySeq DEF Init
<1>3. \A p \in Procs : server_socket[p] = 0 /\ shm_fd[p] = 0 /\ pc[p] = "idle"
  BY DEF Init
<1>4. \A p \in Procs, n \in Fds : file[p][n] = Free
  BY DEF Init
<1>5. TypeOK
  <2>1. <<>> \in Seq(1 .. sent) /\ <<>> \in Seq(Procs)
    BY EmptySeq
  <2>2. 0 \in 0 .. MaxFd /\ 0 \in 0 .. MaxSockets
    BY SocketAssumption
  <2>3. accepting = [i \in Sockets |-> <<>>]
    BY DEF Init
  <2>4. accepting \in [Sockets -> Seq(1 .. sent)]
    BY <2>1, <2>3
  <2> QED
    BY <1>1, <1>2, <2>1, <2>2, <2>4 DEF Init, TypeOK
<1>6. DescriptorsAreOwn
  BY <1>3 DEF DescriptorsAreOwn
<1>7. StrandedOnlyByFailure
  BY <1>1, <1>5, Stranded DEF Arrives
<1>8. OneListener /\ InCall /\ Ordered
  BY <1>1, <1>2, <1>3, Shapes, <1>5 DEF OneListener, InCall, Ordered, Shape
<1>9. OpenOnce
  BY <1>4 DEF OpenOnce, Free, Sockets
<1> QED
  BY <1>5, <1>6, <1>7, <1>8, <1>9 DEF IInv

\* Bind leaves a socket bound, or the number of one that is closed.
LEMMA BindKeeps ==
    ASSUME IInv, NEW p \in Procs, made < MaxSockets, FreeFds(p) # {}, Bind(p)
    PROVE  IInv'
<1> USE DEF IInv
<1> DEFINE n == Lowest(p)
<1>1. n \in Fds /\ file[p][n] = Free
  BY LowestIsFree
<1> HIDE DEF n
<1>2. /\ pc[p] = "idle" /\ made' = made + 1
      /\ server_socket' = [server_socket EXCEPT ![p] = n]
      /\ UNCHANGED <<shm_fd, accepting, sender, received>>
  BY DEF Bind, n
<1>3. \/ /\ PortTaken /\ state' = [state EXCEPT ![made + 1] = "closed"]
         /\ upset' = upset \union {p} /\ file' = file /\ pc' = pc
      \/ /\ ~ PortTaken /\ state' = [state EXCEPT ![made + 1] = "bound"]
         /\ file' = [file EXCEPT ![p][n] = made + 1]
         /\ pc' = [pc EXCEPT ![p] = "listen"] /\ upset' = upset
  BY DEF Bind, n, Goto
<1>4. /\ made + 1 \in Sockets /\ made' \in 0 .. MaxSockets /\ made \in Nat
      /\ \A q \in Procs, k \in Fds : file[q][k] # made + 1
  <2>1. made \in Nat /\ MaxSockets \in Nat
    BY Shapes DEF Shape
  <2>2. made + 1 \in Sockets /\ made' \in 0 .. MaxSockets
    BY <1>2, <2>1 DEF Sockets
  <2>3. made + 1 \notin {Free, Segment} \union 1 .. made
    BY <2>1 DEF Free, Segment
  <2>4. \A q \in Procs, k \in Fds : file[q][k] \in {Free, Segment} \union 1 .. made
    BY Shapes DEF Shape
  <2> QED
    BY <2>1, <2>2, <2>3, <2>4
<1>5. sent' = sent
  BY <1>2 DEF sent
<1>6. state[made + 1] = "none" /\ accepting[made + 1] = <<>>
  BY <1>4 DEF OneListener, TypeOK
<1>7. Ref(p)' = file'[p][n]
  BY <1>1, <1>2 DEF Ref, Referred, TypeOK
<1>8. ASSUME NEW q \in Procs, q # p
      PROVE  Ref(q)' = Ref(q) /\ file'[q] = file[q] /\ pc'[q] = pc[q]
             /\ server_socket'[q] = server_socket[q]
  BY <1>2, <1>3, <1>8 DEF Ref, Referred, TypeOK
<1>9. TypeOK'
  <2>1. file' \in [Procs -> [Fds -> {Free, Segment} \union 1 .. made']]
    <3>1. 1 .. made \subseteq 1 .. made' /\ made + 1 \in 1 .. made'
      BY <1>2, <1>4
    <3>2. file \in [Procs -> [Fds -> {Free, Segment} \union 1 .. made']]
      BY <3>1 DEF TypeOK
    <3> QED
      BY <1>1, <1>3, <3>1, <3>2
  <2>2. server_socket' \in [Procs -> 0 .. MaxFd]
    <3>1. n \in 0 .. MaxFd
      BY <1>1, Shapes DEF Fds, Shape
    <3> QED
      BY <1>2, <3>1 DEF TypeOK
  <2>3. /\ state' \in [Sockets -> {"none", "bound", "listening", "closed"}]
        /\ \A i \in Sockets : state'[i] # "listening" => accepting[i] = <<>>
    BY <1>3, <1>4, <1>6 DEF TypeOK
  <2>4. pc' \in [Procs -> {"idle", "listen", "connect", "accept", "close"}]
    BY <1>3 DEF TypeOK
  <2>5. upset' \subseteq Procs
    BY <1>3 DEF TypeOK
  <2> QED
    BY <1>2, <1>4, <1>5, <2>1, <2>2, <2>3, <2>4, <2>5 DEF TypeOK
<1>10. DescriptorsAreOwn'
  <2> SUFFICES ASSUME NEW q \in Procs \ upset'
               PROVE  /\ server_socket'[q] # 0 => Ref(q)' \in Sockets
                      /\ shm_fd'[q] # 0 => Referred(q, shm_fd[q])' = Segment
    BY <1>2 DEF DescriptorsAreOwn, Ref
  <2>1. CASE q # p
    <3>1. Referred(q, shm_fd[q])' = Referred(q, shm_fd[q])
      BY <1>2, <1>8, <2>1 DEF Referred
    <3> QED
      BY <1>2, <1>3, <1>8, <2>1, <3>1 DEF DescriptorsAreOwn, Ref
  <2>2. CASE q = p
    <3>1. ~ PortTaken /\ file' = [file EXCEPT ![p][n] = made + 1] /\ p \notin upset
      BY <1>3, <2>2 DEF TypeOK
    <3>2. Ref(p)' = made + 1
      BY <1>1, <1>7, <3>1 DEF TypeOK
    <3>3. shm_fd[p] # 0 => shm_fd[p] # n
      BY <1>1, <2>2, <3>1 DEF DescriptorsAreOwn, Referred, Free, Segment
    <3>4. shm_fd[p] # 0 => Referred(p, shm_fd[p])' = Referred(p, shm_fd[p])
      BY <1>1, <1>2, <3>1, <3>3 DEF Referred, TypeOK
    <3> QED
      BY <1>2, <1>4, <2>2, <3>1, <3>2, <3>4 DEF DescriptorsAreOwn
  <2> QED
    BY <2>1, <2>2
<1>11. OneListener'
  <2>1. \A i \in Sockets : i # made + 1 => state'[i] = state[i]
    BY <1>3 DEF TypeOK
  <2>2. state'[made + 1] # "listening"
    BY <1>3, <1>4 DEF TypeOK
  <2>3. \A i \in Sockets : i > made' => i > made /\ i # made + 1
    BY <1>2, <1>4 DEF Sockets
  <2> QED
    BY <2>1, <2>2, <2>3 DEF OneListener
<1>12. OpenOnce'
  <2>1. CASE file' = file
    BY <2>1 DEF OpenOnce
  <2>2. CASE file' = [file EXCEPT ![p][n] = made + 1]
    BY <1>1, <1>4, <2>2 DEF OpenOnce, TypeOK
  <2> QED
    BY <1>3, <2>1, <2>2
<1>13. InCall'
  <2> SUFFICES ASSUME NEW q \in Procs
               PROVE  /\ pc'[q] = "listen" => Ref(q)' \in Sockets
                      /\ pc'[q] = "connect" =>
                            /\ Ref(q)' \in Sockets /\ state'[Ref(q)'] = "listening"
                            /\ accepting'[Ref(q)'] = <<>>
                      /\ pc'[q] = "close" =>
                            (Ref(q)' \in Sockets => accepting'[Ref(q)'] = <<>>)
                      /\ pc'[q] \in {"accept", "close"} => server_socket'[q] # 0
    BY DEF InCall
  <2>1. CASE q # p
    <3>1. pc[q] = "connect" => Ref(q) # made + 1
      BY <1>6 DEF InCall
    <3>2. \A i \in Sockets : i # made + 1 => state'[i] = state[i]
      BY <1>3 DEF TypeOK
    <3> QED
      BY <1>2, <1>8, <2>1, <3>1, <3>2 DEF InCall
  <2>2. CASE q = p
    <3>1. pc'[p] = "idle" \/ (pc'[p] = "listen" /\ file' = [file EXCEPT ![p][n] = made + 1])
      BY <1>2, <1>3 DEF TypeOK
    <3>2. pc'[p] = "listen" => Ref(p)' = made + 1
      BY <1>1, <1>7, <3>1 DEF TypeOK
    <3> QED
      BY <1>4, <2>2, <3>1, <3>2
  <2> QED
    BY <2>1, <2>2
<1>14. Ordered'
  BY <1>2 DEF Ordered
<1>15. Arrives'
  <2> SUFFICES ASSUME NEW m \in 1 .. sent, sender[m] \notin upset',
                      ~ \E k \in 1 .. Len(received) : received[k] = m
               PROVE  /\ Ref(sender[m])' \in Sockets
                      /\ \E j \in 1 .. Len(accepting[Ref(sender[m])']) :
                            accepting[Ref(sender[m])'][j] = m
    BY <1>2, <1>5 DEF Arrives
  <2>1. sender[m] \in Procs /\ sender[m] \notin upset
    BY <1>3, Shapes DEF Shape
  <2>2. /\ Ref(sender[m]) \in Sockets
        /\ \E j \in 1 .. Len(accepting[Ref(sender[m])]) : accepting[Ref(sender[m])][j] = m
    BY <2>1, Stranded DEF Arrives
  <2>3. sender[m] # p
    <3> SUFFICES ASSUME sender[m] = p PROVE FALSE
      OBVIOUS
    <3>1. ~ PortTaken
      BY <1>3
    <3>2. state[Ref(p)] = "listening"
      BY <2>2, Shapes DEF TypeOK, Shape
    <3> QED
      BY <2>2, <3>1, <3>2 DEF PortTaken, Listening
  <2> QED
    <3>1. Ref(sender[m])' = Ref(sender[m])
      BY <1>8, <2>1, <2>3, <1>2 DEF Ref
    <3>2. accepting' = accepting
      BY <1>2
    <3> QED
      BY <2>2, <3>1, <3>2
<1>16. StrandedOnlyByFailure'
  BY <1>9, <1>15, StrandedAfter
<1> QED
  BY <1>9, <1>10, <1>11, <1>12, <1>13, <1>14, <1>16 DEF IInv

\* What a call that opens and closes nothing need not look at.
LEMMA TablesKept ==
    ASSUME IInv, UNCHANGED <<file, server_socket, shm_fd, made>>, upset \subseteq upset'
    PROVE  /\ DescriptorsAreOwn' /\ OpenOnce'
           /\ \A p \in Procs : Ref(p)' = Ref(p) /\ server_socket'[p] = server_socket[p]
<1>1. \A p \in Procs : \A n : Referred(p, n)' = Referred(p, n)
  BY DEF Referred
<1> QED
  BY <1>1 DEF IInv, DescriptorsAreOwn, OpenOnce, Ref

\* listen succeeds if nobody else listens, and then the port is p's.
LEMMA ListenKeeps ==
    ASSUME IInv, NEW p \in Procs, Listen(p)
    PROVE  IInv'
<1> USE DEF IInv
<1> DEFINE i == Ref(p)
<1>1. /\ pc[p] = "listen"
      /\ UNCHANGED <<file, server_socket, shm_fd, accepting, made, sender, received>>
      /\ sent' = sent
  BY DEF Listen, sent
<1>2. \/ state' = state /\ upset' = upset \union {p} /\ pc' = [pc EXCEPT ![p] = "idle"]
      \/ /\ \A j \in Sockets : state[j] # "listening"
         /\ state' = [state EXCEPT ![i] = "listening"] /\ upset' = upset
         /\ pc' = [pc EXCEPT ![p] = "connect"]
  BY DEF Listen, PortTaken, Listening, Goto, Ref
<1>3. i \in Sockets /\ i <= made
  <2>1. i \in Sockets
    BY <1>1 DEF InCall
  <2> QED
    BY <2>1, Shapes DEF Ref, Referred, Sockets, Free, Segment, Shape
<1> HIDE DEF i
<1>4. /\ DescriptorsAreOwn' /\ OpenOnce'
      /\ \A q \in Procs : Ref(q)' = Ref(q) /\ server_socket'[q] = server_socket[q]
  BY <1>1, <1>2, TablesKept
<1>5. TypeOK'
  <2>1. /\ state' \in [Sockets -> {"none", "bound", "listening", "closed"}]
        /\ \A j \in Sockets : state'[j] # "listening" => accepting[j] = <<>>
    BY <1>2, <1>3 DEF TypeOK
  <2>2. pc' \in [Procs -> {"idle", "listen", "connect", "accept", "close"}]
    BY <1>2 DEF TypeOK
  <2>3. upset' \subseteq Procs
    BY <1>2 DEF TypeOK
  <2> QED
    BY <1>1, <2>1, <2>2, <2>3 DEF TypeOK
<1>6. OneListener'
  <2>1. CASE state' = state
    BY <1>1, <2>1 DEF OneListener
  <2>2. CASE /\ \A j \in Sockets : state[j] # "listening"
             /\ state' = [state EXCEPT ![i] = "listening"]
    <3>1. \A j \in Sockets : j # i => state'[j] = state[j] /\ state'[j] # "listening"
      BY <2>2 DEF TypeOK
    <3>2. \A j \in Sockets : j > made => j # i
      BY <1>3, Shapes DEF Shape, Sockets
    <3> QED
      BY <1>1, <3>1, <3>2 DEF OneListener
  <2> QED
    BY <1>2, <2>1, <2>2
<1>7. InCall'
  <2>1. \A j \in Sockets : state[j] = "listening" => state'[j] = "listening"
    BY <1>2, <1>3 DEF TypeOK
  <2>2. pc'[p] = "connect" => state'[i] = "listening" /\ accepting[i] = <<>>
    BY <1>2, <1>3 DEF TypeOK
  <2>3. pc'[p] \in {"idle", "connect"} /\ \A q \in Procs : q # p => pc'[q] = pc[q]
    BY <1>2 DEF TypeOK
  <2>4. ASSUME NEW q \in Procs, q # p
        PROVE  /\ pc'[q] = "listen" => Ref(q) \in Sockets
               /\ pc'[q] = "connect" =>
                     Ref(q) \in Sockets /\ state'[Ref(q)] = "listening" /\ accepting[Ref(q)] = <<>>
               /\ pc'[q] = "close" => (Ref(q) \in Sockets => accepting[Ref(q)] = <<>>)
               /\ pc'[q] \in {"accept", "close"} => server_socket[q] # 0
    BY <2>1, <2>3, <2>4 DEF InCall
  <2>5. /\ pc'[p] = "connect" =>
              Ref(p) \in Sockets /\ state'[Ref(p)] = "listening" /\ accepting[Ref(p)] = <<>>
        /\ pc'[p] \notin {"listen", "accept", "close"}
    BY <1>3, <2>2, <2>3 DEF i
  <2> QED
    BY <1>1, <1>4, <2>4, <2>5 DEF InCall
<1>8. Ordered'
  BY <1>1 DEF Ordered
<1>9. Arrives'
  <2>1. \A m \in 1 .. sent : sender[m] \in Procs
    BY Shapes DEF Shape
  <2>2. \A m \in 1 .. sent : Ref(sender[m])' = Ref(sender[m])
    BY <1>1, <1>4, <2>1
  <2>3. upset \subseteq upset'
    BY <1>2
  <2> QED
    BY <1>1, <2>2, <2>3, Stranded DEF Arrives
<1> QED
  BY <1>4, <1>5, <1>6, <1>7, <1>8, <1>9, StrandedAfter

\* The connection waits in the backlog of the sender's own socket.
LEMMA ConnectKeeps ==
    ASSUME IInv, NEW p \in Procs, Connect(p)
    PROVE  IInv'
<1> USE DEF IInv
<1> DEFINE i == Ref(p)
<1>1. /\ pc[p] = "connect" /\ pc' = [pc EXCEPT ![p] = "idle"]
      /\ UNCHANGED <<file, server_socket, shm_fd, state, made, received, upset>>
  BY DEF Connect, Goto
<1>2. i \in Sockets /\ state[i] = "listening" /\ accepting[i] = <<>>
  BY <1>1 DEF InCall
<1>3. /\ accepting' = [accepting EXCEPT ![i] = Append(accepting[i], sent + 1)]
      /\ sender' = Append(sender, p)
  <2>1. PICK j \in Sockets :
           /\ state[j] = "listening"
           /\ accepting' = [accepting EXCEPT ![j] = Append(@, sent + 1)]
           /\ sender' = Append(sender, p)
    BY <1>2 DEF Connect, Listening
  <2>2. j = i
    BY <1>2, <2>1 DEF OneListener
  <2> QED
    BY <2>1, <2>2
<1> HIDE DEF i
<1>4. /\ sender' \in Seq(Procs) /\ sent' = sent + 1 /\ sent \in Nat
      /\ \A m \in 1 .. sent : sender'[m] = sender[m]
      /\ sender'[sent + 1] = p
  BY <1>3, Shapes, AppendProperties DEF TypeOK, sent, Shape
<1>5. /\ accepting'[i] \in Seq(1 .. sent') /\ Len(accepting'[i]) = 1
      /\ accepting'[i][1] = sent + 1
  <2>1. <<>> \in Seq(1 .. sent') /\ Len(<<>>) = 0 /\ sent + 1 \in 1 .. sent'
    BY <1>4, EmptySeq
  <2>2. accepting'[i] = Append(<<>>, sent + 1)
    BY <1>2, <1>3 DEF TypeOK
  <2> QED
    BY <2>1, <2>2, AppendProperties
<1>6. \A j \in Sockets : j # i => accepting'[j] = accepting[j]
  BY <1>3 DEF TypeOK
<1>7. /\ DescriptorsAreOwn' /\ OpenOnce'
      /\ \A q \in Procs : Ref(q)' = Ref(q) /\ server_socket'[q] = server_socket[q]
  BY <1>1, TablesKept
<1>8. TypeOK'
  <2>1. accepting' \in [Sockets -> Seq(1 .. sent')]
    <3>1. ASSUME NEW j \in Sockets PROVE accepting'[j] \in Seq(1 .. sent')
      <4>1. accepting[j] \in Seq(1 .. sent')
        BY <1>4, Wider DEF TypeOK
      <4> QED
        BY <1>5, <1>6, <4>1
    <3> QED
      BY <1>3, <3>1 DEF TypeOK
  <2>2. \A j \in Sockets : /\ Len(accepting'[j]) <= 1
                           /\ state[j] # "listening" => accepting'[j] = <<>>
    <3>1. \A j \in Sockets : Len(accepting[j]) <= 1
      BY DEF TypeOK
    <3>2. ASSUME NEW j \in Sockets PROVE Len(accepting'[j]) <= 1
      <4>1. CASE j = i
        <5>1. Len(accepting'[j]) = 1
          BY <1>5, <4>1
        <5> QED
          BY <5>1
      <4>2. CASE j # i
        BY <1>6, <3>1, <4>2
      <4> QED
        BY <4>1, <4>2
    <3>3. \A j \in Sockets : state[j] # "listening" => accepting'[j] = <<>>
      BY <1>2, <1>6 DEF TypeOK
    <3> QED
      BY <3>2, <3>3
  <2>3. received \in Seq(1 .. sent')
    BY <1>4, Wider DEF TypeOK
  <2>4. pc' \in [Procs -> {"idle", "listen", "connect", "accept", "close"}]
    BY <1>1 DEF TypeOK
  <2> QED
    BY <1>1, <1>4, <2>1, <2>2, <2>3, <2>4 DEF TypeOK
<1>9. OneListener'
  BY <1>1 DEF OneListener
<1>10. InCall'
  <2>1. ASSUME NEW q \in Procs, q # p
        PROVE  /\ pc[q] = "connect" => Ref(q) # i
               /\ pc[q] = "close" => (Ref(q) \in Sockets => Ref(q) # i)
    <3>1. Ref(q) \in Sockets => Ref(q) # i
      <4>1. i = file[p][server_socket[p]] /\ server_socket[p] \in Fds
        BY <1>2 DEF i, Ref, Referred, Free, Sockets
      <4>2. Ref(q) \in Sockets => Ref(q) = file[q][server_socket[q]] /\ server_socket[q] \in Fds
        BY DEF Ref, Referred, Free, Sockets
      <4> QED
        BY <1>2, <2>1, <4>1, <4>2 DEF OpenOnce
    <3> QED
      BY <3>1 DEF InCall
  <2>2. pc'[p] = "idle" /\ \A q \in Procs : q # p => pc'[q] = pc[q]
    BY <1>1 DEF TypeOK
  <2>3. ASSUME NEW q \in Procs, q # p
        PROVE  /\ pc'[q] = "listen" => Ref(q) \in Sockets
               /\ pc'[q] = "connect" =>
                     Ref(q) \in Sockets /\ state[Ref(q)] = "listening" /\ accepting'[Ref(q)] = <<>>
               /\ pc'[q] = "close" => (Ref(q) \in Sockets => accepting'[Ref(q)] = <<>>)
               /\ pc'[q] \in {"accept", "close"} => server_socket[q] # 0
    BY <1>6, <2>1, <2>2, <2>3 DEF InCall
  <2> QED
    BY <1>1, <1>7, <2>2, <2>3 DEF InCall
<1>11. Ordered'
  <2>1. ASSUME NEW j \in Sockets, NEW l \in 1 .. Len(accepting'[j]), NEW k \in 1 .. Len(received)
        PROVE  received[k] < accepting'[j][l]
    <3>1. CASE j = i
      BY <1>4, <1>5, <3>1, Shapes DEF Shape
    <3>2. CASE j # i
      BY <1>6, <3>2 DEF Ordered
    <3> QED
      BY <3>1, <3>2
  <2> QED
    BY <1>1, <2>1 DEF Ordered
<1>12. Arrives'
  <2> SUFFICES ASSUME NEW m \in 1 .. sent', sender'[m] \notin upset,
                      ~ \E k \in 1 .. Len(received) : received[k] = m
               PROVE  /\ Ref(sender'[m]) \in Sockets
                      /\ \E j \in 1 .. Len(accepting'[Ref(sender'[m])]) :
                            accepting'[Ref(sender'[m])][j] = m
    <3>1. \A m \in 1 .. sent' : sender'[m] \in Procs
      BY <1>8, ShapesAfter DEF Shape
    <3> QED
      BY <1>1, <1>7, <3>1 DEF Arrives
  <2>1. CASE m = sent + 1
    BY <1>2, <1>4, <1>5, <2>1 DEF i
  <2>2. CASE m \in 1 .. sent
    <3>1. /\ Ref(sender[m]) \in Sockets
          /\ \E j \in 1 .. Len(accepting[Ref(sender[m])]) : accepting[Ref(sender[m])][j] = m
      BY <1>4, <2>2, Stranded DEF Arrives
    <3>2. Ref(sender[m]) # i
      BY <1>2, <3>1, Shapes DEF Shape
    <3> QED
      BY <1>4, <1>6, <2>2, <3>1, <3>2
  <2>3. m = sent + 1 \/ m \in 1 .. sent
    BY <1>4
  <2> QED
    BY <2>1, <2>2, <2>3
<1> QED
  BY <1>7, <1>8, <1>9, <1>10, <1>11, <1>12, StrandedAfter

LEMMA StartReceiveKeeps ==
    ASSUME IInv, NEW p \in Procs, StartReceive(p)
    PROVE  IInv'
<1> USE DEF IInv
<1>1. /\ server_socket[p] # 0 /\ pc' = [pc EXCEPT ![p] = "accept"]
      /\ UNCHANGED <<file, server_socket, shm_fd, state, accepting, made, sender, received, upset>>
      /\ sent' = sent
  BY DEF StartReceive, Goto, hist, sent
<1>2. /\ DescriptorsAreOwn' /\ OpenOnce'
      /\ \A q \in Procs : Ref(q)' = Ref(q) /\ server_socket'[q] = server_socket[q]
  BY <1>1, TablesKept
<1>3. TypeOK' /\ OneListener' /\ Ordered'
  BY <1>1 DEF TypeOK, OneListener, Ordered
<1>4. InCall'
  BY <1>1, <1>2 DEF InCall, TypeOK
<1>5. StrandedOnlyByFailure'
  BY <1>1, <1>2 DEF StrandedOnlyByFailure, Ref, InBacklog, Referred
<1> QED
  BY <1>2, <1>3, <1>4, <1>5

\* The message that leaves the backlog is received, and was the only one.
LEMMA AcceptKeeps ==
    ASSUME IInv, NEW p \in Procs, Accept(p)
    PROVE  IInv'
<1> USE DEF IInv
<1> DEFINE i == Ref(p)
           m == accepting[i][1]
<1>1. /\ pc[p] = "accept" /\ pc' = [pc EXCEPT ![p] = "close"]
      /\ UNCHANGED <<file, server_socket, shm_fd, state, made, sender, upset>>
      /\ sent' = sent
  BY DEF Accept, Goto, sent
<1>2. CASE ~ Listening(i)
  <2>1. UNCHANGED <<received, accepting>>
    BY <1>2 DEF Accept, Ref
  <2>2. /\ DescriptorsAreOwn' /\ OpenOnce'
        /\ \A q \in Procs : Ref(q)' = Ref(q) /\ server_socket'[q] = server_socket[q]
    BY <1>1, TablesKept
  <2>3. TypeOK' /\ OneListener' /\ Ordered'
    BY <1>1, <2>1 DEF TypeOK, OneListener, Ordered
  <2>4. i \in Sockets => accepting[i] = <<>>
    BY <1>2 DEF TypeOK, Listening
  <2>5. InCall'
    BY <1>1, <2>1, <2>2, <2>4 DEF InCall, TypeOK
  <2>6. StrandedOnlyByFailure'
    BY <1>1, <2>1, <2>2 DEF StrandedOnlyByFailure, Ref, InBacklog, Referred
  <2> QED
    BY <2>2, <2>3, <2>5, <2>6
<1>3. CASE Listening(i)
  <2>1. /\ i \in Sockets /\ accepting[i] # <<>>
        /\ received' = Append(received, Head(accepting[i]))
        /\ accepting' = [accepting EXCEPT ![i] = Tail(accepting[i])]
    BY <1>3 DEF Accept, Listening, Ref
  <2> HIDE DEF i
  <2>2. Len(accepting[i]) = 1 /\ accepting[i] \in Seq(1 .. sent) /\ m \in 1 .. sent
    BY <2>1, Shapes DEF Shape, TypeOK
  <2>3. accepting'[i] = <<>> /\ Head(accepting[i]) = m
    <3>1. Tail(accepting[i]) \in Seq(1 .. sent) /\ Len(Tail(accepting[i])) = 0
      BY <2>1, <2>2, TailOfOne
    <3>2. Tail(accepting[i]) = <<>>
      BY <3>1, EmptySeq
    <3>3. Head(accepting[i]) = m
      BY <2>1, <2>2
    <3> QED
      BY <2>1, <3>2, <3>3 DEF TypeOK
  <2> HIDE DEF m
  <2>4. /\ received' \in Seq(1 .. sent) /\ Len(received') = Len(received) + 1
        /\ \A k \in 1 .. Len(received) : received'[k] = received[k]
        /\ received'[Len(received) + 1] = m
    BY <2>1, <2>2, <2>3, AppendProperties DEF TypeOK
  <2>5. \A j \in Sockets : j # i => accepting'[j] = accepting[j]
    BY <2>1 DEF TypeOK
  <2>6. /\ DescriptorsAreOwn' /\ OpenOnce'
        /\ \A q \in Procs : Ref(q)' = Ref(q) /\ server_socket'[q] = server_socket[q]
    BY <1>1, TablesKept
  <2>7. Len(accepting'[i]) = 0 /\ accepting'[i] \in Seq(1 .. sent)
    BY <2>3, EmptySeq
  <2>8. TypeOK'
    <3>1. accepting' \in [Sockets -> Seq(1 .. sent)]
      BY <2>1, <2>3, <2>7 DEF TypeOK
    <3>2. \A j \in Sockets : /\ Len(accepting'[j]) <= 1
                             /\ state[j] # "listening" => accepting'[j] = <<>>
      <4>1. Len(accepting'[i]) <= 1
        BY <2>7
      <4> QED
        BY <2>3, <2>5, <4>1 DEF TypeOK
    <3>3. pc' \in [Procs -> {"idle", "listen", "connect", "accept", "close"}]
      BY <1>1 DEF TypeOK
    <3> QED
      BY <1>1, <2>4, <3>1, <3>2, <3>3 DEF TypeOK
  <2>9. OneListener'
    BY <1>1 DEF OneListener
  <2>10. InCall'
    <3>1. \A j \in Sockets : accepting[j] = <<>> => accepting'[j] = <<>>
      BY <2>3, <2>5
    <3>2. pc'[p] = "close" /\ \A q \in Procs : q # p => pc'[q] = pc[q]
      BY <1>1 DEF TypeOK
    <3>3. server_socket[p] # 0 /\ accepting'[Ref(p)] = <<>>
      BY <1>1, <2>3 DEF InCall, i
    <3> QED
      BY <1>1, <2>6, <3>1, <3>2, <3>3 DEF InCall
  <2>11. Ordered'
    <3>1. ASSUME NEW j \in Sockets, NEW l \in 1 .. Len(accepting'[j])
          PROVE  j # i /\ accepting'[j] = accepting[j]
      BY <2>5, <2>7
    <3>2. \A j \in Sockets : j # i => Len(accepting[j]) = 0
      <4>1. \A j \in Sockets : j # i => state[j] # "listening"
        BY <1>3, <2>1 DEF Listening, OneListener, i
      <4> QED
        BY <4>1, Shapes DEF TypeOK, Shape
    <3>3. ASSUME NEW j \in 1 .. Len(received'), NEW k \in 1 .. Len(received'), j < k
          PROVE  received'[j] < received'[k]
      <4>1. j \in 1 .. Len(received) /\ received'[j] = received[j]
        BY <2>4, <3>3, Shapes DEF Shape
      <4>2. CASE k \in 1 .. Len(received)
        BY <2>4, <3>3, <4>1, <4>2 DEF Ordered
      <4>3. CASE k = Len(received) + 1
        <5>1. 1 \in 1 .. Len(accepting[i])
          BY <2>2
        <5> QED
          BY <2>1, <2>4, <4>1, <4>3, <5>1 DEF Ordered, m
      <4> QED
        BY <2>4, <4>2, <4>3, Shapes DEF Shape
    <3> QED
      BY <3>1, <3>2, <3>3 DEF Ordered
  <2>12. Arrives'
    <3> SUFFICES ASSUME NEW n \in 1 .. sent, sender[n] \notin upset
                 PROVE  \/ \E k \in 1 .. Len(received') : received'[k] = n
                        \/ /\ Ref(sender[n]) \in Sockets
                           /\ \E j \in 1 .. Len(accepting'[Ref(sender[n])]) :
                                 accepting'[Ref(sender[n])][j] = n
      <4>1. \A n \in 1 .. sent : sender[n] \in Procs
        BY Shapes DEF Shape
      <4> QED
        BY <1>1, <2>6, <4>1 DEF Arrives
    <3>1. CASE \E k \in 1 .. Len(received) : received[k] = n
      BY <2>4, <3>1, Shapes DEF Shape
    <3>2. CASE Ref(sender[n]) = i /\ \E j \in 1 .. Len(accepting[i]) : accepting[i][j] = n
      <4>1. n = m
        BY <2>2, <3>2 DEF m
      <4>2. Len(received) + 1 \in 1 .. Len(received')
        BY <2>4, Shapes DEF Shape
      <4> QED
        BY <2>4, <4>1, <4>2
    <3>3. CASE /\ Ref(sender[n]) \in Sockets /\ Ref(sender[n]) # i
               /\ \E j \in 1 .. Len(accepting[Ref(sender[n])]) : accepting[Ref(sender[n])][j] = n
      BY <2>5, <3>3
    <3> QED
      BY <3>1, <3>2, <3>3, Stranded DEF Arrives
  <2> QED
    BY <2>6, <2>8, <2>9, <2>10, <2>11, <2>12, StrandedAfter
<1> QED
  BY <1>2, <1>3

\* The segment gets a free number; the one it had before stays open.
LEMMA InitShmKeeps ==
    ASSUME IInv, NEW p \in Procs, FreeFds(p) # {}, InitShm(p)
    PROVE  IInv'
<1> USE DEF IInv
<1> DEFINE n == Lowest(p)
<1>1. n \in Fds /\ file[p][n] = Free
  BY LowestIsFree
<1> HIDE DEF n
<1>2. /\ pc[p] = "idle" /\ shm_fd' = [shm_fd EXCEPT ![p] = n]
      /\ file' = [file EXCEPT ![p][n] = Segment]
      /\ UNCHANGED <<server_socket, state, accepting, pc, made, sender, received, upset>>
      /\ sent' = sent
  BY DEF InitShm, hist, n, sent
<1>3. /\ \A q \in Procs, k \in Fds : q # p \/ k # n => file'[q][k] = file[q][k]
      /\ file'[p][n] = Segment
  BY <1>1, <1>2 DEF TypeOK
<1>4. TypeOK'
  <2>1. n \in 0 .. MaxFd
    BY <1>1, Shapes DEF Fds, Shape
  <2>2. file' \in [Procs -> [Fds -> {Free, Segment} \union 1 .. made]]
    BY <1>1, <1>2 DEF TypeOK
  <2> QED
    BY <1>2, <2>1, <2>2 DEF TypeOK
<1>5. ASSUME NEW q \in Procs
      PROVE  /\ q # p => Ref(q)' = Ref(q) /\ Referred(q, shm_fd[q])' = Referred(q, shm_fd[q])
             /\ Ref(q) \in Sockets => Ref(q)' = Ref(q)
             /\ Ref(q)' \in Sockets => Ref(q)' = Ref(q)
  <2>1. q # p => Ref(q)' = Ref(q) /\ Referred(q, shm_fd[q])' = Referred(q, shm_fd[q])
    BY <1>2, <1>3 DEF Ref, Referred, TypeOK
  <2>2. CASE q = p /\ server_socket[p] = n
    BY <1>1, <1>2, <1>3, <2>1, <2>2 DEF Ref, Referred, Free, Segment, Sockets
  <2>3. CASE q = p /\ server_socket[p] # n
    BY <1>2, <1>3, <2>1, <2>3 DEF Ref, Referred
  <2> QED
    BY <2>1, <2>2, <2>3
<1>6. DescriptorsAreOwn'
  <2>1. \A q \in Procs \ upset :
           /\ server_socket[q] # 0 => Ref(q)' \in Sockets
           /\ shm_fd'[q] # 0 => Referred(q, shm_fd[q])' = Segment
    <3> SUFFICES ASSUME NEW q \in Procs \ upset
                 PROVE  /\ server_socket[q] # 0 => Ref(q)' \in Sockets
                        /\ shm_fd'[q] # 0 => Referred(q, shm_fd[q])' = Segment
      OBVIOUS
    <3>1. server_socket[q] # 0 => Ref(q)' \in Sockets
      BY <1>5 DEF DescriptorsAreOwn, Ref
    <3>2. CASE q = p
      BY <1>1, <1>2, <1>3, <3>1, <3>2 DEF Referred, TypeOK
    <3>3. CASE q # p
      BY <1>2, <1>5, <3>1, <3>3 DEF DescriptorsAreOwn, TypeOK
    <3> QED
      BY <3>2, <3>3
  <2> QED
    BY <1>2, <2>1 DEF DescriptorsAreOwn, Ref
<1>7. OneListener' /\ Ordered'
  BY <1>2 DEF OneListener, Ordered
<1>8. OpenOnce'
  BY <1>3 DEF OpenOnce, Segment, Sockets
<1>9. InCall'
  BY <1>2, <1>5 DEF InCall
<1>10. Arrives'
  <2>1. \A m \in 1 .. sent : sender[m] \in Procs
    BY Shapes DEF Shape
  <2>2. \A m \in 1 .. sent :
           Ref(sender[m]) \in Sockets => Ref(sender[m])' = Ref(sender[m])
    BY <1>2, <1>5, <2>1
  <2> QED
    BY <1>2, <2>2, Stranded DEF Arrives
<1> QED
  BY <1>4, <1>6, <1>7, <1>8, <1>9, <1>10, StrandedAfter

\* What close does to the tables of p and to the sockets.
LEMMA CloseShape ==
    ASSUME IInv, NEW p \in Procs, NEW ns \in SUBSET Fds, Close(p, ns)
    PROVE  /\ file' \in [Procs -> [Fds -> {Free, Segment} \union 1 .. made]]
           /\ \A q \in Procs, n \in Fds :
                 file'[q][n] = IF q = p /\ n \in ns THEN Free ELSE file[q][n]
           /\ state' \in [Sockets -> {"none", "bound", "listening", "closed"}]
           /\ accepting' \in [Sockets -> Seq(1 .. sent)]
           /\ \A i \in Sockets :
                 \/ /\ \E n \in ns : file[p][n] = i
                    /\ state'[i] = "closed" /\ accepting'[i] = <<>>
                 \/ /\ ~ \E n \in ns : file[p][n] = i
                    /\ state'[i] = state[i] /\ accepting'[i] = accepting[i]
<1> USE DEF IInv
<1> DEFINE gone == {file[p][n] : n \in ns} \intersect Sockets
<1>1. /\ file' = [file EXCEPT ![p] = [n \in Fds |-> IF n \in ns THEN Free ELSE file[p][n]]]
      /\ state' = [i \in Sockets |-> IF i \in gone THEN "closed" ELSE state[i]]
      /\ accepting' = [i \in Sockets |-> IF i \in gone THEN <<>> ELSE accepting[i]]
  BY DEF Close
<1>2. \A i \in Sockets : i \in gone <=> \E n \in ns : file[p][n] = i
  OBVIOUS
<1> HIDE DEF gone
<1>3. \A q \in Procs, n \in Fds :
         file'[q][n] = IF q = p /\ n \in ns THEN Free ELSE file[q][n]
  BY <1>1 DEF TypeOK
<1>4. file' \in [Procs -> [Fds -> {Free, Segment} \union 1 .. made]]
  BY <1>1 DEF TypeOK
<1>5. <<>> \in Seq(1 .. sent)
  BY EmptySeq
<1>6. /\ state' \in [Sockets -> {"none", "bound", "listening", "closed"}]
      /\ accepting' \in [Sockets -> Seq(1 .. sent)]
  BY <1>1, <1>5 DEF TypeOK
<1> QED
  BY <1>1, <1>2, <1>3, <1>4, <1>6

\* What any of the calls that close does: the numbers ns of p are closed, and
\* p is as good as if it had failed an init, or what it has left is its own
\* and nothing it sent was waiting in what it closed.
LEMMA ClosingKeeps ==
    ASSUME IInv, NEW p \in Procs, NEW ns \in SUBSET Fds, Close(p, ns),
           UNCHANGED <<made, sender, received>>,
           pc' = [pc EXCEPT ![p] = "idle"],
           server_socket' = server_socket \/ server_socket' = [server_socket EXCEPT ![p] = 0],
           shm_fd' = shm_fd \/ shm_fd' = [shm_fd EXCEPT ![p] = 0],
           upset' = upset \/ upset' = upset \union {p},
           p \notin upset' =>
               /\ server_socket'[p] # 0 => server_socket[p] \notin ns
               /\ shm_fd'[p] # 0 => shm_fd[p] \notin ns
               /\ \/ Ref(p)' = Ref(p) /\ server_socket[p] \notin ns
                  \/ Ref(p) \in Sockets => accepting[Ref(p)] = <<>>
    PROVE  IInv'
<1> USE DEF IInv
<1>1. /\ file' \in [Procs -> [Fds -> {Free, Segment} \union 1 .. made]]
      /\ \A q \in Procs, n \in Fds :
            file'[q][n] = IF q = p /\ n \in ns THEN Free ELSE file[q][n]
      /\ state' \in [Sockets -> {"none", "bound", "listening", "closed"}]
      /\ accepting' \in [Sockets -> Seq(1 .. sent)]
  BY CloseShape
<1>2. \A i \in Sockets :
         \/ /\ \E n \in ns : file[p][n] = i
            /\ state'[i] = "closed" /\ accepting'[i] = <<>>
         \/ /\ ~ \E n \in ns : file[p][n] = i
            /\ state'[i] = state[i] /\ accepting'[i] = accepting[i]
  BY CloseShape
<1>3. sent' = sent /\ upset \subseteq upset' /\ upset' \subseteq Procs
  BY DEF sent, TypeOK
<1>4. ASSUME NEW q \in Procs
      PROVE  /\ server_socket'[q] \in {server_socket[q], 0}
             /\ shm_fd'[q] \in {shm_fd[q], 0}
             /\ q # p => server_socket'[q] = server_socket[q] /\ shm_fd'[q] = shm_fd[q]
             /\ q # p => pc'[q] = pc[q]
             /\ pc'[p] = "idle"
  BY DEF TypeOK
<1>5. ASSUME NEW q \in Procs, NEW k, q # p \/ k \notin ns
      PROVE  Referred(q, k)' = Referred(q, k)
  BY <1>1, <1>5 DEF Referred
<1>6. \A q \in Procs : q # p => Ref(q)' = Ref(q)
  BY <1>4, <1>5 DEF Ref, Referred
<1>7. ASSUME NEW q \in Procs, NEW k \in Fds, file[q][k] \in Sockets, q # p \/ k \notin ns
      PROVE  /\ state'[file[q][k]] = state[file[q][k]]
             /\ accepting'[file[q][k]] = accepting[file[q][k]]
  <2>1. ~ \E n \in ns : file[p][n] = file[q][k]
    BY <1>7 DEF OpenOnce
  <2> QED
    BY <1>2, <1>7, <2>1
<1>8. ASSUME NEW q \in Procs, q # p \/ server_socket[q] \notin ns, Ref(q) \in Sockets
      PROVE  /\ state'[Ref(q)] = state[Ref(q)]
             /\ accepting'[Ref(q)] = accepting[Ref(q)]
  <2>1. Ref(q) = file[q][server_socket[q]] /\ server_socket[q] \in Fds
    BY <1>8 DEF Ref, Referred, Free, Sockets
  <2> DEFINE k == server_socket[q]
  <2>2. k \in Fds /\ file[q][k] \in Sockets /\ (q # p \/ k \notin ns)
    BY <1>8, <2>1
  <2> HIDE DEF k
  <2>3. state'[file[q][k]] = state[file[q][k]] /\ accepting'[file[q][k]] = accepting[file[q][k]]
    BY <1>7, <2>2
  <2> QED
    BY <2>1, <2>3 DEF k
<1>9. TypeOK'
  <2>1. /\ server_socket' \in [Procs -> 0 .. MaxFd]
        /\ shm_fd' \in [Procs -> 0 .. MaxFd]
    <3>1. 0 \in 0 .. MaxFd
      BY SocketAssumption
    <3>2. /\ server_socket \in [Procs -> 0 .. MaxFd]
          /\ shm_fd \in [Procs -> 0 .. MaxFd]
      BY DEF TypeOK
    <3> HIDE DEF IInv
    <3> QED
      BY <3>1, <3>2
  <2>2. \A i \in Sockets : /\ Len(accepting'[i]) <= 1
                           /\ state'[i] # "listening" => accepting'[i] = <<>>
    <3>1. Len(<<>>) = 0
      BY EmptySeq
    <3> QED
      BY <1>2, <3>1 DEF TypeOK
  <2>3. pc' \in [Procs -> {"idle", "listen", "connect", "accept", "close"}]
    BY DEF TypeOK
  <2> QED
    BY <1>1, <1>3, <2>1, <2>2, <2>3 DEF TypeOK
<1>10. DescriptorsAreOwn'
  <2> SUFFICES ASSUME NEW q \in Procs, q \notin upset'
               PROVE  /\ server_socket'[q] # 0 => Referred(q, server_socket[q])' \in Sockets
                      /\ shm_fd'[q] # 0 => Referred(q, shm_fd[q])' = Segment
    BY DEF DescriptorsAreOwn
  <2>1. q \notin upset
    BY <1>3
  <2>2. ASSUME server_socket'[q] # 0 PROVE Referred(q, server_socket[q])' \in Sockets
    <3>1. server_socket'[q] = server_socket[q] /\ (q = p => server_socket[q] \notin ns)
      BY <1>4, <2>2
    <3>2. Referred(q, server_socket[q])' = Referred(q, server_socket[q])
      BY <1>5, <3>1 DEF Referred
    <3> QED
      BY <2>1, <2>2, <3>1, <3>2 DEF DescriptorsAreOwn
  <2>3. ASSUME shm_fd'[q] # 0 PROVE Referred(q, shm_fd[q])' = Segment
    <3>1. shm_fd'[q] = shm_fd[q] /\ (q = p => shm_fd[q] \notin ns)
      BY <1>4, <2>3
    <3>2. Referred(q, shm_fd[q])' = Referred(q, shm_fd[q])
      BY <1>5, <3>1 DEF Referred
    <3> QED
      BY <2>1, <2>3, <3>1, <3>2 DEF DescriptorsAreOwn
  <2> QED
    BY <2>2, <2>3
<1>11. OneListener'
  <2>1. \A i \in Sockets : state'[i] = "listening" => state[i] = "listening"
    BY <1>2
  <2>2. \A i \in Sockets : i > made => state'[i] = "none"
    <3>1. ASSUME NEW i \in Sockets, i > made, NEW n \in ns PROVE file[p][n] # i
      BY <3>1, Shapes DEF Shape, Free, Segment, Sockets
    <3> QED
      BY <1>2, <3>1 DEF OneListener
  <2> QED
    BY <2>1, <2>2 DEF OneListener
<1>12. OpenOnce'
  BY <1>1 DEF OpenOnce, Free, Sockets
<1>13. InCall'
  <2>1. ASSUME NEW q \in Procs, q # p
        PROVE  /\ pc[q] = "listen" => Ref(q) \in Sockets
               /\ pc[q] = "connect" =>
                     Ref(q) \in Sockets /\ state'[Ref(q)] = "listening" /\ accepting'[Ref(q)] = <<>>
               /\ pc[q] = "close" => (Ref(q) \in Sockets => accepting'[Ref(q)] = <<>>)
               /\ pc[q] \in {"accept", "close"} => server_socket'[q] # 0
    BY <1>4, <1>8, <2>1 DEF InCall
  <2> QED
    BY <1>4, <1>6, <2>1 DEF InCall
<1>14. Ordered'
  <2>1. Len(<<>>) = 0
    BY EmptySeq
  <2>2. \A i \in Sockets : Len(accepting'[i]) = 0 \/ accepting'[i] = accepting[i]
    BY <1>2, <2>1
  <2>3. ASSUME NEW i \in Sockets, NEW j \in 1 .. Len(accepting'[i]), NEW k \in 1 .. Len(received)
        PROVE  received[k] < accepting'[i][j]
    <3>1. accepting'[i] = accepting[i]
      BY <2>2, <2>3
    <3> QED
      BY <2>3, <3>1 DEF Ordered
  <2> QED
    BY <2>3 DEF Ordered
<1>15. Arrives'
  <2> SUFFICES ASSUME NEW m \in 1 .. sent, sender[m] \notin upset',
                      ~ \E k \in 1 .. Len(received) : received[k] = m
               PROVE  /\ Ref(sender[m])' \in Sockets
                      /\ \E j \in 1 .. Len(accepting'[Ref(sender[m])']) :
                            accepting'[Ref(sender[m])'][j] = m
    BY <1>3 DEF Arrives
  <2>1. sender[m] \in Procs /\ sender[m] \notin upset
    BY <1>3, Shapes DEF Shape
  <2>2. /\ Ref(sender[m]) \in Sockets
        /\ \E j \in 1 .. Len(accepting[Ref(sender[m])]) : accepting[Ref(sender[m])][j] = m
    BY <2>1, Stranded DEF Arrives
  <2>3. accepting[Ref(sender[m])] # <<>>
    BY <2>2, EmptySeq
  <2>4. /\ Ref(sender[m])' = Ref(sender[m])
        /\ sender[m] # p \/ server_socket[sender[m]] \notin ns
    BY <1>6, <2>1, <2>2, <2>3
  <2>5. accepting'[Ref(sender[m])] = accepting[Ref(sender[m])]
    BY <1>8, <2>1, <2>2, <2>4
  <2> QED
    BY <2>2, <2>4, <2>5
<1> QED
  BY <1>9, <1>10, <1>11, <1>12, <1>13, <1>14, <1>15, StrandedAfter

\* The receive has emptied the backlog, so closing the listener loses nothing.
LEMMA CloseSocketKeeps ==
    ASSUME IInv, NEW p \in Procs, CloseSocket(p)
    PROVE  IInv'
<1> DEFINE n == server_socket[p]
<1>1. /\ pc[p] = "close" /\ Close(p, {n}) /\ pc' = [pc EXCEPT ![p] = "idle"]
      /\ server_socket' = [server_socket EXCEPT ![p] = 0]
      /\ UNCHANGED <<shm_fd, made, sender, received, upset>>
  BY DEF CloseSocket, Goto, hist
<1>2. n \in Fds
  BY <1>1, Shapes DEF IInv, InCall, Shape
<1>3. n # 0 /\ server_socket'[p] = 0
  BY <1>1, <1>2 DEF Fds, IInv, TypeOK
<1>4. Ref(p) \in Sockets => accepting[Ref(p)] = <<>>
  BY <1>1 DEF IInv, InCall
<1>5. p \notin upset /\ shm_fd[p] # 0 => shm_fd[p] # n
  <2>1. Segment \notin Sockets
    BY DEF Segment, Sockets
  <2> QED
    BY <1>3, <2>1 DEF IInv, DescriptorsAreOwn
<1> HIDE DEF n
<1>6. {n} \in SUBSET Fds
  BY <1>2
<1> QED
  BY <1>1, <1>3, <1>4, <1>5, <1>6, ClosingKeeps

\* What the number of the segment refers to is closed; only after a failed
\* init of p can that be a socket.
LEMMA CloseShmKeeps ==
    ASSUME IInv, NEW p \in Procs, CloseShm(p)
    PROVE  IInv'
<1> DEFINE n == shm_fd[p]
<1>1. /\ pc[p] = "idle" /\ n # 0 /\ Close(p, {n})
      /\ shm_fd' = [shm_fd EXCEPT ![p] = 0]
      /\ UNCHANGED <<server_socket, pc, made, sender, received, upset>>
  BY DEF CloseShm, hist
<1>2. pc' = [pc EXCEPT ![p] = "idle"]
  BY <1>1 DEF IInv, TypeOK
<1>3. {n} \in SUBSET Fds /\ 0 \notin Fds /\ shm_fd'[p] = 0
  BY <1>1, Shapes DEF IInv, Shape, TypeOK, Fds
<1>4. p \notin upset => server_socket[p] \notin {n}
  <2>1. Segment \notin Sockets
    BY DEF Segment, Sockets
  <2> QED
    BY <1>1, <2>1 DEF IInv, DescriptorsAreOwn
<1>5. p \notin upset => Ref(p)' = Ref(p)
  <2>1. CASE server_socket[p] \notin Fds
    BY <1>1, <2>1 DEF Ref, Referred
  <2>2. CASE server_socket[p] \in Fds
    BY <1>1, <1>3, <1>4, <2>2, CloseShape DEF Ref, Referred
  <2> QED
    BY <2>1, <2>2
<1> HIDE DEF n
<1> QED
  BY <1>1, <1>2, <1>3, <1>4, <1>5, ClosingKeeps

\* A process that ends takes its backlog with it, and is upset.
LEMMA KillKeeps ==
    ASSUME IInv, NEW p \in Procs, Kill(p)
    PROVE  IInv'
<1>1. /\ Close(p, Fds) /\ pc' = [pc EXCEPT ![p] = "idle"]
      /\ server_socket' = [server_socket EXCEPT ![p] = 0]
      /\ shm_fd' = [shm_fd EXCEPT ![p] = 0]
      /\ upset' = upset \union {p} /\ UNCHANGED <<made, sender, received>>
  BY DEF Kill, Goto
<1>2. p \in upset' /\ Fds \in SUBSET Fds
  BY <1>1
<1> QED
  BY <1>1, <1>2, ClosingKeeps

LEMMA NextIInv == IInv /\ [Next]_vars => IInv'
<1> SUFFICES ASSUME IInv, [Next]_vars PROVE IInv'
  OBVIOUS
<1>1. CASE UNCHANGED vars
  <2>1. TypeOK' /\ OneListener' /\ OpenOnce' /\ Ordered'
    BY <1>1 DEF vars, IInv, TypeOK, OneListener, OpenOnce, Ordered, sent
  <2>2. \A p \in Procs : \A n : Referred(p, n)' = Referred(p, n)
    BY <1>1 DEF vars, Referred
  <2>3. DescriptorsAreOwn' /\ InCall'
    BY <1>1, <2>2 DEF vars, IInv, DescriptorsAreOwn, InCall, Ref
  <2>4. StrandedOnlyByFailure'
    BY <1>1 DEF vars, IInv, StrandedOnlyByFailure, InBacklog, Referred, sent
  <2> QED
    BY <2>1, <2>3, <2>4 DEF IInv
<1>2. ASSUME NEW p \in Procs, made < MaxSockets, FreeFds(p) # {}, Bind(p) PROVE IInv'
  BY <1>2, BindKeeps
<1>3. ASSUME NEW p \in Procs, FreeFds(p) # {}, InitShm(p) PROVE IInv'
  BY <1>3, InitShmKeeps
<1>4. ASSUME NEW p \in Procs, StartReceive(p) PROVE IInv'
  BY <1>4, StartReceiveKeeps
<1>5. ASSUME NEW p \in Procs, CloseShm(p) PROVE IInv'
  BY <1>5, CloseShmKeeps
<1>6. ASSUME NEW p \in Procs, Listen(p) PROVE IInv'
  BY <1>6, ListenKeeps
<1>7. ASSUME NEW p \in Procs, Connect(p) PROVE IInv'
  BY <1>7, ConnectKeeps
<1>8. ASSUME NEW p \in Procs, Accept(p) PROVE IInv'
  BY <1>8, AcceptKeeps
<1>9. ASSUME NEW p \in Procs, CloseSocket(p) PROVE IInv'
  BY <1>9, CloseSocketKeeps
<1>10. ASSUME NEW p \in Procs, Kill(p) PROVE IInv'
  BY <1>10, KillKeeps
<1> QED
  BY <1>1, <1>2, <1>3, <1>4, <1>5, <1>6, <1>7, <1>8, <1>9, <1>10 DEF Next, System

\* The invariant holds however the calls of the processes interleave.
THEOREM SocketInvariant == Spec => []IInv
<1> QED
  BY InitIInv, NextIInv, PTL DEF Spec

\* The descriptor tables, the sockets and the variables of every process keep
\* their shapes, and no backlog ever holds two connections
\* (ipc_channels.cpp:300-425).
THEOREM SocketTypes == Spec => []TypeOK
<1>1. IInv => TypeOK
  BY DEF IInv
<1> QED
  BY <1>1, SocketInvariant, PTL

\* As long as no init of its own failed, a process closes only what it opened
\* for the channel it closes (ipc_channels.cpp:117, :421).
THEOREM SocketDescriptorsAreOwn == Spec => []DescriptorsAreOwn
<1>1. IInv => DescriptorsAreOwn
  BY DEF IInv
<1> QED
  BY <1>1, SocketInvariant, PTL

\* Only who failed an init, or ended, can leave a message that its next
\* receive does not find (ipc_channels.cpp:323, :334-337).
THEOREM SocketStrandsOnlyByFailure == Spec => []StrandedOnlyByFailure
<1>1. IInv => StrandedOnlyByFailure
  BY DEF IInv
<1> QED
  BY <1>1, SocketInvariant, PTL

-----------------------------------------------------------------------------
\* A connection is a send, an accept the delivery of the only message that
\* waits, and no other step is one the transport knows of.
LEMMA StepSimulates ==
    ASSUME IInv, [Next]_vars
    PROVE  [Abstract!Next]_(Abstract!vars)
<1> USE DEF IInv
<1>1. ASSUME NEW p \in Procs, Connect(p)
      PROVE  Abstract!Send \/ UNCHANGED <<sent, received>>
  <2>1. CASE sender' = Append(sender, p)
    <3>1. sent' = sent + 1 /\ received' = received
      BY <1>1, <2>1, AppendProperties DEF Connect, sent, TypeOK
    <3> QED
      BY <3>1 DEF Abstract!Send
  <2>2. CASE sender' = sender
    BY <1>1, <2>2 DEF Connect, sent
  <2> QED
    BY <1>1, <2>1, <2>2 DEF Connect
<1>2. ASSUME NEW p \in Procs, Accept(p)
      PROVE  (\E i \in 1 .. sent : Abstract!Deliver(i)) \/ UNCHANGED <<sent, received>>
  <2>1. sent' = sent
    BY <1>2 DEF Accept, sent
  <2>2. CASE received' = received
    BY <2>1, <2>2
  <2>3. CASE ~ (received' = received)
    <3> DEFINE i == Ref(p)
    <3>1. i \in Sockets /\ accepting[i] # <<>> /\ received' = Append(received, Head(accepting[i]))
      BY <1>2, <2>3 DEF Accept, Listening, Ref
    <3> HIDE DEF i
    <3>2. Len(accepting[i]) = 1 /\ 1 \in 1 .. Len(accepting[i]) /\ accepting[i][1] \in 1 .. sent
      BY <3>1, Shapes DEF Shape
    <3>3. Head(accepting[i]) = accepting[i][1]
      BY <3>1, HeadTailProperties DEF TypeOK
    <3>4. \A k \in DOMAIN received : received[k] # accepting[i][1] /\ received[k] < accepting[i][1]
      BY <3>1, <3>2, Shapes DEF Ordered, Shape
    <3> QED
      BY <2>1, <3>1, <3>2, <3>3, <3>4 DEF Abstract!Deliver
  <2> QED
    BY <2>2, <2>3
<1>3. ASSUME ~ \E p \in Procs : Connect(p) \/ Accept(p)
      PROVE  UNCHANGED <<sent, received>>
  BY <1>3 DEF Next, System, vars, hist, sent, Bind, InitShm, StartReceive, CloseShm, Listen,
              CloseSocket, Kill
<1> QED
  BY <1>1, <1>2, <1>3 DEF Abstract!Next, Abstract!vars

\* The sockets are a transport that never reorders: nothing is received that
\* was not sent, and nothing twice (ipc_channels.cpp:360-407).
THEOREM SocketIsTransport == Spec => ImplementsTransport
<1>1. Init => Abstract!Init
  BY EmptySeq DEF Init, Abstract!Init, sent
<1> QED
  BY <1>1, StepSimulates, SocketInvariant, PTL DEF Spec, ImplementsTransport, Abstract!Spec
=============================================================================
