--------------------------- MODULE NamedPipeProofs ---------------------------
(***************************************************************************)
(* For any number of processes and FIFOs, and kills at any time: a message *)
(* is lost only after something was received from its FIFO or a process    *)
(* died that had it open, and the pipe implements a transport.             *)
(***************************************************************************)
EXTENDS NamedPipe, SequenceTheorems, FiniteSetTheorems, TLAPS

\* Whoever is about to make a FIFO finds the bound leaves room for it.
Making == {p \in Procs : pc[p] = "mkfifo"}
Bounded == IsFiniteSet(Making) /\ made + Cardinality(Making) <= MaxFifos

\* A message was received from f, or a process died that had it open.
Excused(f) ==
    \/ \E k \in 1 .. Len(received) : origin[received[k]] = f
    \/ f \in broken

\* A reader of f has something to read, will have, or has an excuse.
Fed(f) ==
    \/ \E q \in Procs : wfd[q] = f /\ pc[q] = "write"
    \/ buffer[f] # <<>>
    \/ Excused(f)

\* Whoever is past its open has met the other side: a reader is fed, one that
\* has read has an excuse, and what a writer leaves behind has a reader.
Meeting ==
    \A p \in Procs :
        /\ pc[p] = "read" => Fed(rfd[p])
        /\ pc[p] = "close_read" => Excused(rfd[p])
        /\ pc[p] = "close_write" =>
              Excused(wfd[p]) \/ (buffer[wfd[p]] # <<>> /\ Readers(wfd[p]) # {})

\* A FIFO that nobody has open is empty.
Unheld == \A f \in Fifos : Writers(f) \union Readers(f) = {} => buffer[f] = <<>>

\* What is in a FIFO was put into this one, and was not received.
Labelled ==
    \A f \in Fifos : \A j \in 1 .. Len(buffer[f]) :
        /\ origin[buffer[f][j]] = f
        /\ \A k \in 1 .. Len(received) : received[k] # buffer[f][j]

IInv ==
    /\ TypeOK /\ LostOnlyAfterRead
    /\ Bounded /\ Meeting /\ Unheld /\ Labelled

-----------------------------------------------------------------------------
\* What TypeOK says of the numbers in the variables.
Shape ==
    /\ made \in Nat /\ made <= MaxFifos /\ MaxFifos \in Nat
    /\ path \in Nat /\ path <= made /\ sent \in Nat
    /\ \A f \in Fifos : /\ Len(buffer[f]) \in Nat
                        /\ Len(buffer[f]) = 0 <=> buffer[f] = <<>>
                        /\ DOMAIN buffer[f] = 1 .. Len(buffer[f])
                        /\ \A j \in 1 .. Len(buffer[f]) : buffer[f][j] \in 1 .. sent
    /\ \A p \in Procs : wfd[p] # 0 => wfd[p] \in Fifos
    /\ \A p \in Procs : rfd[p] # 0 => rfd[p] \in Fifos
    /\ Len(received) \in Nat /\ DOMAIN received = 1 .. Len(received)
    /\ \A k \in 1 .. Len(received) : received[k] \in 1 .. sent
    /\ DOMAIN origin = 1 .. sent
    /\ \A i \in 1 .. sent : origin[i] \in Fifos

LEMMA Shapes == TypeOK => Shape
<1> SUFFICES ASSUME TypeOK PROVE Shape
  OBVIOUS
<1>1. MaxFifos \in Nat /\ made \in Nat /\ made <= MaxFifos /\ path \in Nat /\ path <= made
  BY PipeAssumption DEF TypeOK
<1>2. Len(origin) = sent /\ origin \in Seq(1 .. made)
  BY DEF TypeOK
<1>3. sent \in Nat /\ DOMAIN origin = 1 .. sent /\ \A i \in 1 .. sent : origin[i] \in 1 .. made
  BY <1>2, LenProperties, ElementOfSeq
<1>4. /\ Len(received) \in Nat /\ DOMAIN received = 1 .. Len(received)
      /\ \A k \in 1 .. Len(received) : received[k] \in 1 .. sent
  BY LenProperties, ElementOfSeq DEF TypeOK
<1>5. ASSUME NEW f \in Fifos
      PROVE  /\ Len(buffer[f]) \in Nat
             /\ Len(buffer[f]) = 0 <=> buffer[f] = <<>>
             /\ DOMAIN buffer[f] = 1 .. Len(buffer[f])
             /\ \A j \in 1 .. Len(buffer[f]) : buffer[f][j] \in 1 .. sent
  <2>1. buffer[f] \in Seq(1 .. sent)
    BY DEF TypeOK
  <2> QED
    BY <2>1, LenProperties, ElementOfSeq, EmptySeq
<1>6. \A p \in Procs : wfd[p] \in 0 .. made /\ rfd[p] \in 0 .. made
  BY DEF TypeOK
<1>7. \A f \in 0 .. made : f # 0 => f \in Fifos
  BY <1>1 DEF Fifos
<1>8. 1 .. made \subseteq Fifos
  BY <1>1 DEF Fifos
<1> QED
  BY <1>1, <1>3, <1>4, <1>5, <1>6, <1>7, <1>8 DEF Shape

\* The same after a step.
LEMMA ShapesAfter == TypeOK' => Shape'
  BY Shapes, PTL

\* A sequence of numbers up to n is one of numbers up to more.
LEMMA Wider ==
    ASSUME NEW n \in Nat, NEW m \in Nat, n <= m, NEW s \in Seq(1 .. n)
    PROVE  s \in Seq(1 .. m)
<1>1. 1 .. n \subseteq 1 .. m
  OBVIOUS
<1> QED
  BY <1>1, SeqMonotonic

\* LostOnlyAfterRead by the places in the sequences.
Accounted ==
    \A i \in 1 .. sent :
        \/ \E j \in 1 .. Len(buffer[origin[i]]) : buffer[origin[i]][j] = i
        \/ Excused(origin[i])

LEMMA Lost == TypeOK => (LostOnlyAfterRead <=> Accounted)
<1> SUFFICES ASSUME TypeOK PROVE LostOnlyAfterRead <=> Accounted
  OBVIOUS
<1>1. \A i \in 1 .. sent : DOMAIN buffer[origin[i]] = 1 .. Len(buffer[origin[i]])
  BY Shapes DEF Shape
<1>2. DOMAIN received = 1 .. Len(received)
  BY Shapes DEF Shape
<1> QED
  BY <1>1, <1>2 DEF LostOnlyAfterRead, Accounted, Excused

\* The same after a step.
LEMMA LostAfter == TypeOK' => (LostOnlyAfterRead' <=> Accounted')
  BY Lost, PTL

-----------------------------------------------------------------------------
\* Nobody joins those who are about to make a FIFO, and none is made.
LEMMA BoundedKept ==
    ASSUME Bounded, made' = made, MaxFifos \in Nat, made \in Nat,
           \A q \in Procs : pc'[q] = "mkfifo" => pc[q] = "mkfifo"
    PROVE  Bounded'
<1>1. Making' \subseteq Making
  BY DEF Making
<1>2. IsFiniteSet(Making') /\ Cardinality(Making') <= Cardinality(Making)
  BY <1>1, FS_Subset DEF Bounded
<1>3. Cardinality(Making) \in Nat /\ Cardinality(Making') \in Nat
  BY <1>2, FS_CardinalityType DEF Bounded
<1> QED
  BY <1>2, <1>3 DEF Bounded

\* A step that touches no FIFO loses no message.
LEMMA QuietKeeps ==
    ASSUME IInv, TypeOK', UNCHANGED <<buffer, sent, received, origin, broken>>
    PROVE  LostOnlyAfterRead' /\ Labelled'
<1>1. Labelled'
  BY DEF IInv, Labelled
<1>2. LostOnlyAfterRead'
  BY DEF IInv, LostOnlyAfterRead
<1> QED
  BY <1>1, <1>2

\* A step of p that leaves the FIFOs and what is open alone, before p has met
\* the other side or after it has left.
LEMMA AsideKeeps ==
    ASSUME IInv, NEW p \in Procs, NEW next, pc' = [pc EXCEPT ![p] = next],
           pc[p] # "write", next \notin {"read", "close_read", "close_write"},
           UNCHANGED <<buffer, wfd, rfd, received, origin, broken>>
    PROVE  Meeting' /\ Unheld'
<1> USE DEF IInv
<1>1. \A f : Excused(f)' = Excused(f) /\ (Fed(f) => Fed(f)')
  BY DEF Excused, Fed, TypeOK
<1>2. \A q \in Procs : pc'[q] \in {"read", "close_read", "close_write"} => pc'[q] = pc[q]
  BY DEF TypeOK
<1>3. \A f : Readers(f)' = Readers(f) /\ Writers(f)' = Writers(f)
  BY DEF Readers, Writers
<1> QED
  BY <1>1, <1>2, <1>3 DEF Meeting, Unheld

\* Meeting of one process and a FIFO it has open.
Met(q, f) ==
    /\ pc[q] = "read" /\ rfd[q] = f => Fed(f)
    /\ pc[q] = "close_read" /\ rfd[q] = f => Excused(f)
    /\ pc[q] = "close_write" /\ wfd[q] = f =>
          Excused(f) \/ (buffer[f] # <<>> /\ Readers(f) # {})

AllMet == \A q \in Procs : \A f : Met(q, f)

LEMMA MeetingMet == Meeting <=> AllMet
<1>1. ASSUME NEW q \in Procs, NEW f, Meeting PROVE Met(q, f)
  BY <1>1 DEF Meeting, Met
<1>2. ASSUME NEW q \in Procs, \A f : Met(q, f)
      PROVE  /\ pc[q] = "read" => Fed(rfd[q])
             /\ pc[q] = "close_read" => Excused(rfd[q])
             /\ pc[q] = "close_write" =>
                   Excused(wfd[q]) \/ (buffer[wfd[q]] # <<>> /\ Readers(wfd[q]) # {})
  BY <1>2 DEF Met
<1> QED
  BY <1>1, <1>2 DEF Meeting, AllMet

\* The same after a step.
LEMMA MeetingAfter == Meeting' <=> AllMet'
  BY MeetingMet, PTL

LEMMA InitIInv == Init => IInv
<1> SUFFICES ASSUME Init PROVE IInv
  OBVIOUS
<1>1. /\ sent = 0 /\ made = 0 /\ path = 0 /\ received = <<>> /\ origin = <<>>
      /\ Len(received) = 0 /\ Len(origin) = 0
  BY EmptySeq DEF Init
<1>2. \A p \in Procs : pc[p] = "idle" /\ wfd[p] = 0 /\ rfd[p] = 0
  BY DEF Init
<1>3. \A f \in Fifos : buffer[f] = <<>> /\ Len(buffer[f]) = 0
  BY EmptySeq DEF Init
<1>4. TypeOK
  <2>1. <<>> \in Seq(1 .. sent) /\ <<>> \in Seq(1 .. made)
    BY EmptySeq
  <2>2. buffer \in [Fifos -> Seq(1 .. sent)]
    BY <2>1 DEF Init
  <2>3. 0 \in 0 .. made /\ made \in 0 .. MaxFifos /\ path \in 0 .. made
    BY <1>1, PipeAssumption
  <2>4. wfd \in [Procs -> 0 .. made] /\ rfd \in [Procs -> 0 .. made] /\ pc \in [Procs -> States]
    BY <2>3 DEF Init, States
  <2> QED
    BY <1>1, <1>2, <2>1, <2>2, <2>3, <2>4 DEF TypeOK
<1>5. LostOnlyAfterRead /\ Meeting /\ Unheld /\ Labelled
  BY <1>1, <1>2, <1>3 DEF LostOnlyAfterRead, Meeting, Unheld, Labelled
<1>6. Bounded
  <2>1. Making = {}
    BY <1>2 DEF Making
  <2> QED
    BY <1>1, <2>1, FS_EmptySet, PipeAssumption DEF Bounded
<1> QED
  BY <1>4, <1>5, <1>6 DEF IInv

\* The path is unlinked, whoever's it was; the FIFO stays with whoever has it.
LEMMA StartSendKeeps ==
    ASSUME IInv, NEW p \in Procs, WithinBounds, StartSend(p)
    PROVE  IInv'
<1> USE DEF IInv
<1>1. /\ pc[p] = "idle" /\ path' = 0 /\ pc' = [pc EXCEPT ![p] = "mkfifo"]
      /\ UNCHANGED <<made, buffer, wfd, rfd, sent, received, origin, broken>>
  BY DEF StartSend, Goto, fds, hist
<1>2. TypeOK'
  <2>1. 0 \in 0 .. made'
    BY <1>1, Shapes DEF Shape
  <2> QED
    BY <1>1, <2>1 DEF TypeOK, States
<1>3. Bounded'
  <2>1. Making' = Making \union {p} /\ p \notin Making
    BY <1>1 DEF Making, TypeOK
  <2>2. IsFiniteSet(Making) /\ made + Cardinality(Making) < MaxFifos
    BY DEF Bounded, WithinBounds, Making
  <2>3. /\ IsFiniteSet(Making') /\ Cardinality(Making') = Cardinality(Making) + 1
        /\ Cardinality(Making) \in Nat
    BY <2>1, <2>2, FS_AddElement, FS_CardinalityType
  <2> QED
    BY <1>1, <2>2, <2>3, Shapes DEF Bounded, Shape
<1>4. Meeting' /\ Unheld'
  BY <1>1, AsideKeeps
<1> QED
  BY <1>1, <1>2, <1>3, <1>4, QuietKeeps

\* The FIFO is new, or p gives up.
LEMMA MkFifoKeeps ==
    ASSUME IInv, NEW p \in Procs, MkFifo(p)
    PROVE  IInv'
<1> USE DEF IInv
<1>1. /\ pc[p] = "mkfifo"
      /\ UNCHANGED <<buffer, wfd, rfd, sent, received, origin, broken>>
      /\ \/ made' = made + 1 /\ path' = made + 1 /\ pc' = [pc EXCEPT ![p] = "open"]
         \/ made' = made /\ path' = path /\ pc' = [pc EXCEPT ![p] = "idle"]
  BY DEF MkFifo, Goto, fds, hist
<1>2. IsFiniteSet(Making) /\ made + Cardinality(Making) <= MaxFifos /\ p \in Making
  BY <1>1 DEF Bounded, Making
<1>3. /\ IsFiniteSet(Making') /\ Cardinality(Making') = Cardinality(Making) - 1
      /\ Cardinality(Making') \in Nat
  <2>1. Making' = Making \ {p}
    BY <1>1 DEF Making, TypeOK
  <2>2. IsFiniteSet(Making \ {p}) /\ Cardinality(Making \ {p}) = Cardinality(Making) - 1
    BY <1>2, FS_RemoveElement
  <2> QED
    BY <2>1, <2>2, FS_CardinalityType
<1>4. made \in Nat /\ MaxFifos \in Nat /\ path \in 0 .. made
  BY Shapes DEF Shape
<1>5. Cardinality(Making) \in Nat
  BY <1>2, FS_CardinalityType
<1>6. Bounded'
  BY <1>1, <1>2, <1>3, <1>4, <1>5 DEF Bounded
<1>7. TypeOK'
  <2>1. made' \in Nat /\ made <= made' /\ made' \in 0 .. MaxFifos /\ path' \in 0 .. made'
    BY <1>1, <1>2, <1>3, <1>4, <1>5
  <2>2. origin' \in Seq(1 .. made')
    BY <1>1, <1>4, <2>1, Wider DEF TypeOK
  <2>3. 0 .. made \subseteq 0 .. made'
    BY <1>4, <2>1
  <2>4. wfd' \in [Procs -> 0 .. made'] /\ rfd' \in [Procs -> 0 .. made']
    BY <1>1, <2>3 DEF TypeOK
  <2>5. /\ pc' \in [Procs -> States]
        /\ \A q \in Procs :
              /\ wfd'[q] # 0 <=> pc'[q] \in {"wait_reader", "write", "close_write"}
              /\ rfd'[q] # 0 <=> pc'[q] \in {"wait_writer", "read", "close_read"}
    BY <1>1 DEF TypeOK, States
  <2> QED
    BY <1>1, <2>1, <2>2, <2>4, <2>5 DEF TypeOK
<1>8. Meeting' /\ Unheld'
  BY <1>1, AsideKeeps
<1> QED
  BY <1>1, <1>6, <1>7, <1>8, QuietKeeps

\* Unlink and Restart.
LEMMA BetweenKeeps ==
    ASSUME IInv, NEW p \in Procs, Unlink(p) \/ Restart(p)
    PROVE  IInv'
<1> USE DEF IInv
<1>1. /\ pc[p] \in {"unlink", "dead"} /\ path' \in {0, path}
      /\ pc' = [pc EXCEPT ![p] = "idle"]
      /\ UNCHANGED <<made, buffer, wfd, rfd, sent, received, origin, broken>>
  BY DEF Unlink, Restart, Goto, fds, hist
<1>2. TypeOK'
  <2>1. 0 \in 0 .. made'
    BY <1>1, Shapes DEF Shape
  <2> QED
    BY <1>1, <2>1 DEF TypeOK, States
<1>3. Bounded'
  BY <1>1, BoundedKept, Shapes DEF Shape, TypeOK
<1>4. Meeting' /\ Unheld'
  BY <1>1, AsideKeeps
<1> QED
  BY <1>1, <1>2, <1>3, <1>4, QuietKeeps

\* A writer that finds a reader goes on, and the readers that waited are fed.
LEMMA OpenWriteKeeps ==
    ASSUME IInv, NEW p \in Procs, OpenWrite(p)
    PROVE  IInv'
<1> USE DEF IInv
<1>1. pc[p] = "open" /\ UNCHANGED <<path, made, buffer, rfd, sent, received, origin, broken>>
  BY DEF OpenWrite, hist
<1>2. CASE path = 0
  <2>1. wfd' = wfd /\ pc' = [pc EXCEPT ![p] = "idle"]
    BY <1>2 DEF OpenWrite, Goto
  <2>2. TypeOK'
    BY <1>1, <2>1 DEF TypeOK, States
  <2>3. Bounded'
    BY <1>1, <2>1, BoundedKept, Shapes DEF Shape, TypeOK
  <2>4. Meeting' /\ Unheld'
    BY <1>1, <2>1, AsideKeeps
  <2> QED
    BY <1>1, <2>2, <2>3, <2>4, QuietKeeps
<1>3. CASE path # 0
  <2>1. wfd' = [wfd EXCEPT ![p] = path] /\ path \in 0 .. made
    BY <1>3 DEF OpenWrite, TypeOK
  <2>2. /\ pc' \in [Procs -> States]
        /\ pc'[p] = IF Readers(path) = {} THEN "wait_reader" ELSE "write"
        /\ \A q \in Procs : q # p =>
              IF rfd[q] = path /\ pc[q] = "wait_writer" THEN pc'[q] = "read" ELSE pc'[q] = pc[q]
    BY <1>3 DEF OpenWrite, PassThrough, TypeOK, States
  <2>3. wfd[p] = 0 /\ rfd[p] = 0
    BY <1>1 DEF TypeOK
  <2>4. TypeOK'
    <3>1. wfd' \in [Procs -> 0 .. made]
      BY <2>1 DEF TypeOK
    <3>2. \A q \in Procs :
              /\ wfd'[q] # 0 <=> pc'[q] \in {"wait_reader", "write", "close_write"}
              /\ rfd'[q] # 0 <=> pc'[q] \in {"wait_writer", "read", "close_read"}
      BY <1>1, <1>3, <2>1, <2>2, <2>3 DEF TypeOK
    <3> QED
      BY <1>1, <2>2, <3>1, <3>2 DEF TypeOK
  <2>5. Bounded'
    <3>1. \A q \in Procs : pc'[q] = "mkfifo" => pc[q] = "mkfifo"
      BY <2>2
    <3> QED
      BY <1>1, <3>1, BoundedKept, Shapes DEF Shape
  <2>6. Unheld'
    <3>1. \A f : Readers(f)' = Readers(f) /\ (f # 0 => Writers(f) \subseteq Writers(f)')
      BY <1>1, <2>1, <2>3 DEF Readers, Writers, TypeOK
    <3> QED
      BY <1>1, <3>1 DEF Unheld, Fifos
  <2>7. \A f : Excused(f)' = Excused(f)
    BY <1>1 DEF Excused
  <2>8. \A q \in Procs : wfd[q] # 0 => wfd'[q] = wfd[q]
    BY <2>1, <2>3 DEF TypeOK
  <2>9. ASSUME NEW f, f # 0, Fed(f) PROVE Fed(f)'
    <3>1. \A q \in Procs : wfd[q] = f /\ pc[q] = "write" => wfd'[q] = f /\ pc'[q] = "write"
      BY <1>1, <2>2, <2>8, <2>9
    <3> QED
      BY <1>1, <2>7, <2>9, <3>1 DEF Fed
  <2>10. Meeting'
    <3> SUFFICES ASSUME NEW q \in Procs, NEW f PROVE Met(q, f)'
      BY MeetingAfter DEF AllMet
    <3>1. CASE q = p
      BY <2>2, <3>1 DEF Met
    <3>2. CASE q # p /\ rfd[q] = path /\ pc[q] = "wait_writer"
      <4>1. Readers(path) # {}
        BY <3>2 DEF Readers
      <4>2. wfd'[p] = path /\ pc'[p] = "write"
        BY <2>1, <2>2, <4>1 DEF TypeOK
      <4>3. Fed(path)' /\ path' = path
        BY <1>1, <4>2 DEF Fed
      <4>4. pc'[q] = "read" /\ rfd'[q] = path
        BY <1>1, <2>2, <3>2
      <4>5. f = path => Fed(f)'
        BY <1>1, <4>2 DEF Fed
      <4> QED
        BY <4>4, <4>5 DEF Met
    <3>3. CASE q # p /\ ~ (rfd[q] = path /\ pc[q] = "wait_writer")
      <4>1. pc'[q] = pc[q] /\ rfd'[q] = rfd[q] /\ wfd'[q] = wfd[q]
        BY <1>1, <2>1, <2>2, <3>3 DEF TypeOK
      <4>2. Readers(f)' = Readers(f)
        BY <1>1 DEF Readers
      <4>3. pc[q] = "read" => rfd[q] # 0
        BY DEF TypeOK
      <4>4. Met(q, f)
        BY MeetingMet DEF AllMet
      <4> QED
        BY <1>1, <2>7, <2>9, <4>1, <4>2, <4>3, <4>4 DEF Met
    <3> QED
      BY <3>1, <3>2, <3>3
  <2> QED
    BY <1>1, <2>4, <2>5, <2>6, <2>10, QuietKeeps
<1> QED
  BY <1>2, <1>3

\* A reader that finds a writer is fed by it: the writer is about to write, or
\* has written and stays until p reads.
LEMMA OpenReadKeeps ==
    ASSUME IInv, NEW p \in Procs, OpenRead(p)
    PROVE  IInv'
<1> USE DEF IInv
<1>1. pc[p] = "idle" /\ UNCHANGED <<path, made, buffer, wfd, sent, received, origin, broken>>
  BY DEF OpenRead, hist
<1>2. CASE path = 0
  <2>1. rfd' = rfd /\ pc' = [pc EXCEPT ![p] = "unlink"]
    BY <1>2 DEF OpenRead, Goto
  <2>2. TypeOK'
    BY <1>1, <2>1 DEF TypeOK, States
  <2>3. Bounded'
    BY <1>1, <2>1, BoundedKept, Shapes DEF Shape, TypeOK
  <2>4. Meeting' /\ Unheld'
    BY <1>1, <2>1, AsideKeeps
  <2> QED
    BY <1>1, <2>2, <2>3, <2>4, QuietKeeps
<1>3. CASE path # 0
  <2>1. rfd' = [rfd EXCEPT ![p] = path] /\ path \in 0 .. made
    BY <1>3 DEF OpenRead, TypeOK
  <2>2. /\ pc' \in [Procs -> States]
        /\ pc'[p] = IF Writers(path) = {} THEN "wait_writer" ELSE "read"
        /\ \A q \in Procs : q # p =>
              IF wfd[q] = path /\ pc[q] = "wait_reader" THEN pc'[q] = "write" ELSE pc'[q] = pc[q]
    BY <1>3 DEF OpenRead, AfterOpenRead, PassThrough, TypeOK, States
  <2>3. wfd[p] = 0 /\ rfd[p] = 0
    BY <1>1 DEF TypeOK
  <2>4. TypeOK'
    <3>1. rfd' \in [Procs -> 0 .. made]
      BY <2>1 DEF TypeOK
    <3>2. \A q \in Procs :
              /\ wfd'[q] # 0 <=> pc'[q] \in {"wait_reader", "write", "close_write"}
              /\ rfd'[q] # 0 <=> pc'[q] \in {"wait_writer", "read", "close_read"}
      BY <1>1, <1>3, <2>1, <2>2, <2>3 DEF TypeOK
    <3> QED
      BY <1>1, <2>2, <3>1, <3>2 DEF TypeOK
  <2>5. Bounded'
    <3>1. \A q \in Procs : pc'[q] = "mkfifo" => pc[q] = "mkfifo"
      BY <2>2
    <3> QED
      BY <1>1, <3>1, BoundedKept, Shapes DEF Shape
  <2>6. \A f : Writers(f)' = Writers(f) /\ (f # 0 => Readers(f) \subseteq Readers(f)')
    BY <1>1, <2>1, <2>3 DEF Readers, Writers, TypeOK
  <2>7. Unheld'
    BY <1>1, <2>6 DEF Unheld, Fifos
  <2>8. \A f : Excused(f)' = Excused(f)
    BY <1>1 DEF Excused
  <2>9. ASSUME NEW f, Fed(f) PROVE Fed(f)'
    <3>1. \A q \in Procs : pc[q] = "write" => pc'[q] = "write"
      BY <1>1, <2>2
    <3> QED
      BY <1>1, <2>8, <2>9, <3>1 DEF Fed
  <2>10. ASSUME NEW f, f = path, pc'[p] = "read" PROVE Fed(f)'
    <3> Writers(path) # {}
      BY <2>2, <2>10
    <3>1. PICK q \in Procs : wfd[q] = path
      BY DEF Writers
    <3>2. q # p /\ pc[q] \in {"wait_reader", "write", "close_write"}
      BY <1>3, <2>3, <3>1 DEF TypeOK
    <3>3. CASE pc[q] \in {"wait_reader", "write"}
      <4>1. pc'[q] = "write"
        BY <2>2, <3>1, <3>2, <3>3
      <4> QED
        BY <1>1, <2>10, <3>1, <4>1 DEF Fed
    <3>4. CASE pc[q] = "close_write"
      <4>1. Excused(path) \/ buffer[path] # <<>>
        BY <3>1, <3>4 DEF Meeting
      <4> QED
        BY <1>1, <2>8, <2>10, <4>1 DEF Fed
    <3> QED
      BY <3>2, <3>3, <3>4
  <2>11. Meeting'
    <3> SUFFICES ASSUME NEW q \in Procs, NEW f PROVE Met(q, f)'
      BY MeetingAfter DEF AllMet
    <3>1. CASE q = p
      <4>1. rfd'[p] = path
        BY <2>1 DEF TypeOK
      <4>2. f = path /\ pc'[p] = "read" => Fed(f)'
        BY <2>10
      <4> QED
        BY <2>2, <3>1, <4>1, <4>2 DEF Met
    <3>2. CASE q # p
      <4>1. /\ pc'[q] \in {"read", "close_read", "close_write"} => pc'[q] = pc[q]
            /\ rfd'[q] = rfd[q] /\ wfd'[q] = wfd[q]
        BY <1>1, <2>1, <2>2, <3>2 DEF TypeOK
      <4>2. pc[q] = "close_write" => wfd[q] # 0
        BY DEF TypeOK
      <4>3. Met(q, f)
        BY MeetingMet DEF AllMet
      <4> QED
        BY <1>1, <2>6, <2>8, <2>9, <4>1, <4>2, <4>3 DEF Met
    <3> QED
      BY <3>1, <3>2
  <2> QED
    BY <1>1, <2>4, <2>5, <2>7, <2>11, QuietKeeps
<1> QED
  BY <1>2, <1>3

\* The new message has a reader that stays until it has read.
LEMMA WriteKeeps ==
    ASSUME IInv, NEW p \in Procs, Write(p)
    PROVE  IInv'
<1> USE DEF IInv
<1> DEFINE w == wfd[p]
<1>1. /\ pc[p] = "write" /\ Readers(w) # {} /\ sent' = sent + 1
      /\ origin' = Append(origin, w)
      /\ buffer' = [buffer EXCEPT ![w] = Append(buffer[w], sent + 1)]
      /\ pc' = [pc EXCEPT ![p] = "close_write"]
      /\ UNCHANGED <<path, made, wfd, rfd, received, broken>>
  BY DEF Write, Goto, fds
<1>2. w \in Fifos /\ w \in 1 .. made /\ wfd[p] = w
  BY <1>1, Shapes DEF TypeOK, Shape, Fifos
<1> HIDE DEF w
<1>3. sent \in Nat /\ sent' \in Nat /\ sent <= sent' /\ sent + 1 \in 1 .. sent'
  BY <1>1, Shapes DEF Shape
<1>4. \A f \in Fifos : buffer[f] \in Seq(1 .. sent')
  BY <1>3, Wider DEF TypeOK
<1>5. /\ buffer'[w] \in Seq(1 .. sent') /\ Len(buffer'[w]) = Len(buffer[w]) + 1
      /\ \A j \in 1 .. Len(buffer[w]) : buffer'[w][j] = buffer[w][j]
      /\ buffer'[w][Len(buffer[w]) + 1] = sent + 1
  <2>1. buffer'[w] = Append(buffer[w], sent + 1)
    BY <1>1, <1>2 DEF TypeOK
  <2>2. PICK s : s = buffer[w]
    OBVIOUS
  <2>3. s \in Seq(1 .. sent')
    BY <1>2, <1>4, <2>2
  <2>4. /\ Append(s, sent + 1) \in Seq(1 .. sent') /\ Len(Append(s, sent + 1)) = Len(s) + 1
        /\ \A j \in 1 .. Len(s) : Append(s, sent + 1)[j] = s[j]
        /\ Append(s, sent + 1)[Len(s) + 1] = sent + 1
    BY <1>3, <2>3, AppendProperties
  <2> QED
    BY <2>1, <2>2, <2>4
<1>6. \A f \in Fifos : f # w => buffer'[f] = buffer[f]
  BY <1>1 DEF TypeOK
<1>7. /\ origin' \in Seq(1 .. made) /\ Len(origin') = sent'
      /\ \A i \in 1 .. sent : origin'[i] = origin[i]
      /\ origin'[sent + 1] = w
  <2>1. origin \in Seq(1 .. made) /\ Len(origin) = sent /\ origin' = Append(origin, w)
    BY <1>1 DEF TypeOK
  <2> QED
    BY <1>1, <1>2, <2>1, AppendProperties
<1>8. TypeOK'
  <2>1. buffer' \in [Fifos -> Seq(1 .. sent')]
    <3>1. buffer \in [Fifos -> Seq(1 .. sent')]
      BY <1>4 DEF TypeOK
    <3>2. PICK s : s = Append(buffer[w], sent + 1)
      OBVIOUS
    <3>3. buffer' = [buffer EXCEPT ![w] = s]
      BY <1>1, <3>2
    <3>4. s \in Seq(1 .. sent')
      BY <1>2, <1>5, <3>1, <3>3
    <3> QED
      BY <3>1, <3>3, <3>4
  <2>2. received' \in Seq(1 .. sent')
    BY <1>1, <1>3, Wider DEF TypeOK
  <2> QED
    BY <1>1, <1>7, <2>1, <2>2 DEF TypeOK, States
<1>9. Bounded'
  BY <1>1, BoundedKept, Shapes DEF Shape, TypeOK
<1>10. /\ Len(received) \in Nat /\ \A k \in 1 .. Len(received) : received[k] \in 1 .. sent
       /\ \A f \in Fifos : Len(buffer[f]) \in Nat
       /\ \A f \in Fifos : \A j \in 1 .. Len(buffer[f]) : buffer[f][j] \in 1 .. sent
       /\ \A i \in 1 .. sent : origin[i] \in Fifos
  BY Shapes DEF Shape
<1>11. \A f : Excused(f)' <=> Excused(f)
  BY <1>1, <1>7, <1>10 DEF Excused
<1>12. Unheld'
  <2>1. \A f : Readers(f)' = Readers(f) /\ Writers(f)' = Writers(f)
    BY <1>1 DEF Readers, Writers
  <2> QED
    BY <1>1, <1>6, <2>1 DEF Unheld
<1>13. Labelled'
  <2> SUFFICES ASSUME NEW f \in Fifos, NEW j \in 1 .. Len(buffer'[f])
               PROVE  /\ origin'[buffer'[f][j]] = f
                      /\ \A k \in 1 .. Len(received') : received'[k] # buffer'[f][j]
    BY DEF Labelled
  <2> received' = received
    BY <1>1
  <2>1. CASE j \in 1 .. Len(buffer[f]) /\ buffer'[f][j] = buffer[f][j]
    BY <1>7, <1>10, <2>1 DEF Labelled
  <2>2. CASE f = w /\ buffer'[f][j] = sent + 1
    <3>1. \A k \in 1 .. Len(received) : received[k] # sent + 1
      BY <1>3, <1>10
    <3> QED
      BY <1>7, <2>2, <3>1
  <2>3. f = w => j \in 1 .. Len(buffer[w]) \/ j = Len(buffer[w]) + 1
    BY <1>2, <1>5, <1>10
  <2> QED
    BY <1>5, <1>6, <2>1, <2>2, <2>3
<1>14. \A f \in Fifos : buffer[f] # <<>> => buffer'[f] # <<>>
  <2>1. buffer'[w] # <<>>
    BY <1>2, <1>5, <1>10, EmptySeq
  <2> QED
    BY <1>6, <2>1
<1>15. Meeting'
  <2> SUFFICES ASSUME NEW q \in Procs, NEW f PROVE Met(q, f)'
    BY MeetingAfter DEF AllMet
  <2>1. Readers(f)' = Readers(f)
    BY <1>1 DEF Readers
  <2>2. buffer'[w] # <<>>
    BY <1>2, <1>5, <1>10, EmptySeq
  <2>3. CASE q = p
    <3>1. pc'[q] = "close_write" /\ wfd'[q] = w
      BY <1>1, <1>2, <2>3 DEF TypeOK
    <3> QED
      BY <1>1, <2>1, <2>2, <3>1 DEF Met
  <2>4. CASE q # p
    <3>1. pc'[q] = pc[q] /\ rfd'[q] = rfd[q] /\ wfd'[q] = wfd[q]
      BY <1>1, <2>4 DEF TypeOK
    <3>2. Met(q, f)
      BY MeetingMet DEF AllMet
    <3>3. /\ pc[q] = "read" /\ rfd[q] = f => f \in Fifos
          /\ pc[q] = "close_write" /\ wfd[q] = f => f \in Fifos
      BY Shapes DEF Shape, TypeOK
    <3>4. ASSUME f \in Fifos, Fed(f) PROVE Fed(f)'
      <4>1. CASE \E r \in Procs : wfd[r] = f /\ pc[r] = "write"
        <5>1. PICK r \in Procs : wfd[r] = f /\ pc[r] = "write"
          BY <4>1
        <5>2. CASE r = p
          BY <1>2, <2>2, <5>1, <5>2 DEF Fed
        <5>3. CASE r # p
          <6>1. wfd'[r] = f /\ pc'[r] = "write"
            BY <1>1, <5>1, <5>3 DEF TypeOK
          <6> QED
            BY <6>1 DEF Fed
        <5> QED
          BY <5>2, <5>3
      <4>2. CASE buffer[f] # <<>> \/ Excused(f)
        BY <1>11, <1>14, <3>4, <4>2 DEF Fed
      <4> QED
        BY <3>4, <4>1, <4>2 DEF Fed
    <3> QED
      BY <1>11, <1>14, <2>1, <3>1, <3>2, <3>3, <3>4 DEF Met
  <2> QED
    BY <2>3, <2>4
<1>16. LostOnlyAfterRead'
  <2> SUFFICES ASSUME NEW i \in 1 .. sent'
               PROVE  \/ \E j \in 1 .. Len(buffer'[origin'[i]]) : buffer'[origin'[i]][j] = i
                      \/ \A f : f = origin'[i] => Excused(f)'
    BY <1>8, LostAfter DEF Accounted, Excused
  <2>1. CASE i = sent + 1
    <3>1. Len(buffer[w]) + 1 \in 1 .. Len(buffer'[w])
      BY <1>2, <1>5, <1>10
    <3> QED
      BY <1>5, <1>7, <2>1, <3>1
  <2>2. CASE i \in 1 .. sent
    <3>1. origin'[i] = origin[i] /\ origin[i] \in Fifos
      BY <1>7, <1>10, <2>2
    <3>2. CASE \E j \in 1 .. Len(buffer[origin[i]]) : buffer[origin[i]][j] = i
      <4>1. PICK j \in 1 .. Len(buffer[origin[i]]) : buffer[origin[i]][j] = i
        BY <3>2
      <4>2. j \in 1 .. Len(buffer'[origin[i]]) /\ buffer'[origin[i]][j] = i
        <5>1. CASE origin[i] = w
          BY <1>2, <1>5, <1>10, <4>1, <5>1
        <5>2. CASE origin[i] # w
          BY <1>6, <3>1, <4>1, <5>2
        <5> QED
          BY <5>1, <5>2
      <4> QED
        BY <3>1, <4>2
    <3>3. CASE Excused(origin[i])
      <4>1. \A f : f = origin[i] => Excused(f)
        BY <3>3
      <4> QED
        BY <1>11, <3>1, <4>1
    <3> QED
      BY <2>2, <3>2, <3>3, Lost DEF Accounted
  <2>3. i = sent + 1 \/ i \in 1 .. sent
    BY <1>1, <1>3
  <2> QED
    BY <2>1, <2>2, <2>3
<1> QED
  BY <1>8, <1>9, <1>12, <1>13, <1>15, <1>16

\* What is lost with a read was behind the message that was received.
LEMMA ReadKeeps ==
    ASSUME IInv, NEW p \in Procs, Read(p)
    PROVE  IInv'
<1> USE DEF IInv
<1> DEFINE r == rfd[p]
<1>1. /\ pc[p] = "read" /\ pc' = [pc EXCEPT ![p] = "close_read"]
      /\ UNCHANGED <<path, made, wfd, rfd, sent, origin, broken>>
      /\ \/ /\ buffer[r] # <<>> /\ received' = Append(received, Head(buffer[r]))
            /\ buffer' = [buffer EXCEPT ![r] = <<>>]
         \/ buffer[r] = <<>> /\ Writers(r) = {} /\ received' = received /\ buffer' = buffer
  BY DEF Read, Goto, fds, Unread
<1>2. r \in Fifos /\ rfd[p] = r
  BY <1>1, Shapes DEF TypeOK, Shape
<1> HIDE DEF r
<1>3. /\ Len(received) \in Nat /\ \A k \in 1 .. Len(received) : received[k] \in 1 .. sent
      /\ \A f \in Fifos : Len(buffer[f]) \in Nat
      /\ \A f \in Fifos : \A j \in 1 .. Len(buffer[f]) : buffer[f][j] \in 1 .. sent
      /\ \A f \in Fifos : Len(buffer[f]) = 0 <=> buffer[f] = <<>>
      /\ \A i \in 1 .. sent : origin[i] \in Fifos
  BY Shapes DEF Shape
<1>4. /\ received' \in Seq(1 .. sent)
      /\ \A k \in 1 .. Len(received) : k \in 1 .. Len(received') /\ received'[k] = received[k]
      /\ \A k \in 1 .. Len(received') :
            \/ k \in 1 .. Len(received) /\ received'[k] = received[k]
            \/ buffer[r] # <<>> /\ received'[k] = buffer[r][1]
      /\ buffer[r] # <<>> =>
            \E k \in 1 .. Len(received') : received'[k] = buffer[r][1] /\ 1 \in 1 .. Len(buffer[r])
  <2>1. CASE received' = received /\ buffer[r] = <<>>
    BY <2>1 DEF TypeOK
  <2>2. CASE received' = Append(received, Head(buffer[r])) /\ buffer[r] # <<>>
    <3>1. 1 \in 1 .. Len(buffer[r]) /\ buffer[r][1] \in 1 .. sent
      BY <1>2, <1>3, <2>2
    <3>2. PICK m : m = buffer[r][1]
      OBVIOUS
    <3>3. Head(buffer[r]) = m
      <4>1. buffer[r] \in Seq(1 .. sent)
        BY <1>2 DEF TypeOK
      <4> QED
        BY <2>2, <3>2, <4>1, HeadTailProperties
    <3>4. /\ received' \in Seq(1 .. sent) /\ Len(received') = Len(received) + 1
          /\ \A k \in 1 .. Len(received) : received'[k] = received[k]
          /\ received'[Len(received) + 1] = m
      BY <2>2, <3>1, <3>2, <3>3, AppendProperties DEF TypeOK
    <3>5. Len(received) + 1 \in 1 .. Len(received')
      BY <1>3, <3>4
    <3>6. \A k \in 1 .. Len(received') : k \in 1 .. Len(received) \/ k = Len(received) + 1
      BY <1>3, <3>4
    <3>7. \A k \in 1 .. Len(received) : k \in 1 .. Len(received')
      BY <1>3, <3>4
    <3> QED
      BY <2>2, <3>1, <3>2, <3>4, <3>5, <3>6, <3>7
  <2> QED
    BY <1>1, <2>1, <2>2
<1>5. /\ \A f \in Fifos : f # r => buffer'[f] = buffer[f]
      /\ buffer'[r] = <<>> /\ Len(buffer'[r]) = 0
      /\ buffer' \in [Fifos -> Seq(1 .. sent)]
  <2>1. <<>> \in Seq(1 .. sent) /\ Len(<<>>) = 0
    BY EmptySeq
  <2>2. CASE buffer' = buffer /\ buffer[r] = <<>>
    BY <1>2, <2>1, <2>2 DEF TypeOK
  <2>3. CASE buffer' = [buffer EXCEPT ![r] = <<>>]
    BY <1>2, <2>1, <2>3 DEF TypeOK
  <2> QED
    BY <1>1, <2>2, <2>3
<1>6. TypeOK'
  BY <1>1, <1>4, <1>5 DEF TypeOK, States
<1>7. Bounded'
  BY <1>1, BoundedKept, Shapes DEF Shape, TypeOK
<1>8. \A f : Excused(f) => Excused(f)'
  BY <1>1, <1>4 DEF Excused
<1>9. Excused(r)' /\ r' = r
  <2>1. r' = r
    BY <1>1 DEF r
  <2> SUFFICES ASSUME NEW f, f = r PROVE Excused(f)'
    BY <2>1
  <2>2. CASE buffer[r] # <<>>
    <3>1. PICK k \in 1 .. Len(received') : received'[k] = buffer[r][1] /\ 1 \in 1 .. Len(buffer[r])
      BY <1>4, <2>2
    <3>2. origin[buffer[r][1]] = r
      BY <1>2, <3>1 DEF Labelled
    <3> QED
      BY <1>1, <3>1, <3>2 DEF Excused
  <2>3. CASE buffer[r] = <<>> /\ Writers(r) = {}
    <3>1. Fed(r)
      BY <1>1, <1>2 DEF Meeting
    <3>2. Excused(r)
      BY <2>3, <3>1 DEF Fed, Writers
    <3>3. Excused(f)
      BY <3>2
    <3> QED
      BY <1>8, <3>3
  <2> QED
    BY <1>1, <2>2, <2>3
<1>10. Unheld'
  <2>1. \A f : Readers(f)' = Readers(f) /\ Writers(f)' = Writers(f)
    BY <1>1 DEF Readers, Writers
  <2> QED
    BY <1>5, <2>1 DEF Unheld
<1>11. Labelled'
  <2> SUFFICES ASSUME NEW f \in Fifos, NEW j \in 1 .. Len(buffer'[f])
               PROVE  /\ origin'[buffer'[f][j]] = f
                      /\ \A k \in 1 .. Len(received') : received'[k] # buffer'[f][j]
    BY DEF Labelled
  <2>1. f # r /\ buffer'[f] = buffer[f]
    BY <1>5
  <2>2. origin'[buffer'[f][j]] = f
    BY <1>1, <2>1 DEF Labelled
  <2>3. \A k \in 1 .. Len(received) : received[k] # buffer'[f][j]
    BY <2>1 DEF Labelled
  <2>4. buffer[r] # <<>> => buffer[r][1] # buffer'[f][j]
    <3>1. buffer[r] # <<>> => origin[buffer[r][1]] = r
      BY <1>2, <1>4 DEF Labelled
    <3> QED
      BY <1>1, <2>1, <2>2, <3>1
  <2> QED
    BY <1>4, <2>2, <2>3, <2>4
<1>12. Meeting'
  <2> SUFFICES ASSUME NEW q \in Procs, NEW f PROVE Met(q, f)'
    BY MeetingAfter DEF AllMet
  <2>1. f = r => Excused(f)'
    <3>1. CASE f = r
      <4>1. f = r /\ Excused(r)' /\ r' = r
        BY <1>9, <3>1
      <4> QED
        BY <4>1 DEF Excused
    <3> QED
      BY <3>1
  <2>2. Readers(f)' = Readers(f)
    BY <1>1 DEF Readers
  <2>3. CASE q = p
    <3>1. pc'[q] = "close_read" /\ rfd'[q] = r
      BY <1>1, <1>2, <2>3 DEF TypeOK
    <3> QED
      BY <2>1, <3>1 DEF Met
  <2>4. CASE q # p
    <3>1. pc'[q] = pc[q] /\ rfd'[q] = rfd[q] /\ wfd'[q] = wfd[q]
      BY <1>1, <2>4 DEF TypeOK
    <3>2. Met(q, f)
      BY MeetingMet DEF AllMet
    <3>3. /\ pc[q] = "read" /\ rfd[q] = f => f \in Fifos
          /\ pc[q] = "close_write" /\ wfd[q] = f => f \in Fifos
      BY Shapes DEF Shape, TypeOK
    <3>4. ASSUME f \in Fifos, Fed(f) PROVE Fed(f)'
      <4>1. CASE \E x \in Procs : wfd[x] = f /\ pc[x] = "write"
        <5>1. PICK x \in Procs : wfd[x] = f /\ pc[x] = "write"
          BY <4>1
        <5>2. wfd'[x] = f /\ pc'[x] = "write"
          BY <1>1, <5>1 DEF TypeOK
        <5> QED
          BY <5>2 DEF Fed
      <4>2. CASE buffer[f] # <<>> \/ Excused(f)
        BY <1>5, <1>8, <2>1, <3>4, <4>2 DEF Fed
      <4> QED
        BY <3>4, <4>1, <4>2 DEF Fed
    <3> QED
      BY <1>5, <1>8, <2>1, <2>2, <3>1, <3>2, <3>3, <3>4 DEF Met
  <2> QED
    BY <2>3, <2>4
<1>13. LostOnlyAfterRead'
  <2> SUFFICES ASSUME NEW i \in 1 .. sent, NEW f, f = origin[i]
               PROVE  \/ \E j \in 1 .. Len(buffer'[f]) : buffer'[f][j] = i
                      \/ Excused(f)'
    BY <1>1, <1>6, LostAfter DEF Accounted, Excused
  <2>1. \/ \E j \in 1 .. Len(buffer[f]) : buffer[f][j] = i
        \/ Excused(f)
    BY Lost DEF Accounted
  <2>2. f \in Fifos
    BY <1>3
  <2>3. CASE f = r
    <3>1. f = r /\ Excused(r)' /\ r' = r
      BY <1>9, <2>3
    <3> QED
      BY <3>1 DEF Excused
  <2>4. CASE f # r
    BY <1>5, <1>8, <2>1, <2>2, <2>4
  <2> QED
    BY <2>3, <2>4
<1> QED
  BY <1>6, <1>7, <1>10, <1>11, <1>12, <1>13

\* p closes what it has open: what it wrote has a reader that stays, and what
\* it read, or had open when it died, is an excuse.
LEMMA DropKeeps ==
    ASSUME IInv, NEW p \in Procs, DropUnheld(p),
           NEW next \in {"idle", "unlink", "dead"}, pc' = [pc EXCEPT ![p] = next],
           wfd' = [wfd EXCEPT ![p] = 0], rfd' = [rfd EXCEPT ![p] = 0],
           broken \subseteq broken', UNCHANGED <<path, made, sent, received, origin>>,
           \A f : wfd[p] = f /\ f # 0 => Excused(f)' \/ (pc[p] # "write" /\ Readers(f) # {}),
           \A f : rfd[p] = f /\ f # 0 => Excused(f)'
    PROVE  IInv'
<1> USE DEF IInv
<1>1. \A f \in Fifos :
         \/ buffer'[f] = buffer[f]
         \/ buffer'[f] = <<>> /\ Writers(f) \union Readers(f) \subseteq {p}
  BY DEF DropUnheld
<1>2. \A f : Excused(f) => Excused(f)'
  BY DEF Excused
<1>3. /\ \A q \in Procs : q # p => pc'[q] = pc[q] /\ wfd'[q] = wfd[q] /\ rfd'[q] = rfd[q]
      /\ pc'[p] = next /\ wfd'[p] = 0 /\ rfd'[p] = 0
  BY DEF TypeOK
<1>4. TypeOK'
  <2>1. <<>> \in Seq(1 .. sent)
    BY EmptySeq
  <2>2. buffer' \in [Fifos -> Seq(1 .. sent)]
    <3>1. \A f \in Fifos : buffer[f] \in Seq(1 .. sent)
      BY DEF TypeOK
    <3> QED
      BY <2>1, <3>1 DEF DropUnheld
  <2>3. 0 \in 0 .. made
    BY Shapes DEF Shape
  <2>4. wfd' \in [Procs -> 0 .. made] /\ rfd' \in [Procs -> 0 .. made]
    BY <2>3 DEF TypeOK
  <2>5. pc' \in [Procs -> States]
    BY DEF TypeOK, States
  <2>6. \A q \in Procs :
              /\ wfd'[q] # 0 <=> pc'[q] \in {"wait_reader", "write", "close_write"}
              /\ rfd'[q] # 0 <=> pc'[q] \in {"wait_writer", "read", "close_read"}
    BY <1>3 DEF TypeOK
  <2> QED
    BY <2>2, <2>4, <2>5, <2>6 DEF TypeOK
<1>5. Bounded'
  <2>1. \A q \in Procs : pc'[q] = "mkfifo" => pc[q] = "mkfifo"
    BY <1>3
  <2> QED
    BY <2>1, BoundedKept, Shapes DEF Shape
<1>6. ASSUME NEW f \in Fifos, buffer'[f] # buffer[f] PROVE Excused(f)'
  <2>1. buffer'[f] = <<>> /\ Writers(f) \union Readers(f) \subseteq {p}
    BY <1>1, <1>6
  <2>2. f # 0
    BY DEF Fifos
  <2>3. Writers(f) \union Readers(f) # {}
    BY <1>6, <2>1 DEF Unheld
  <2>4. wfd[p] = f \/ rfd[p] = f
    BY <2>1, <2>3 DEF Writers, Readers
  <2>5. CASE wfd[p] = f
    <3>1. Readers(f) = {}
      <4>1. rfd[p] = 0
        BY <2>2, <2>5 DEF TypeOK
      <4> QED
        BY <2>1, <2>2, <4>1 DEF Readers
    <3> QED
      BY <2>2, <2>5, <3>1
  <2>6. CASE rfd[p] = f
    BY <2>2, <2>6
  <2> QED
    BY <2>4, <2>5, <2>6
<1>7. Unheld'
  <2> SUFFICES ASSUME NEW f \in Fifos, (Writers(f) \union Readers(f))' = {}
               PROVE  buffer'[f] = <<>>
    BY DEF Unheld
  <2>1. Writers(f) \union Readers(f) \subseteq {p}
    BY <1>3 DEF Writers, Readers
  <2> QED
    BY <2>1 DEF DropUnheld
<1>8. Labelled'
  <2> SUFFICES ASSUME NEW f \in Fifos, NEW j \in 1 .. Len(buffer'[f])
               PROVE  /\ origin'[buffer'[f][j]] = f
                      /\ \A k \in 1 .. Len(received') : received'[k] # buffer'[f][j]
    BY DEF Labelled
  <2>1. buffer'[f] = <<>> => Len(buffer'[f]) = 0
    BY EmptySeq
  <2>2. buffer'[f] = buffer[f]
    BY <1>1, <2>1
  <2> QED
    BY <2>2 DEF Labelled
<1>9. Meeting'
  <2> SUFFICES ASSUME NEW q \in Procs, NEW f PROVE Met(q, f)'
    BY MeetingAfter DEF AllMet
  <2>1. CASE q = p
    BY <1>3, <2>1 DEF Met
  <2>2. CASE q # p
    <3>1. Met(q, f)
      BY MeetingMet DEF AllMet
    <3>2. ASSUME f \in Fifos, Fed(f) PROVE Fed(f)'
      <4>1. CASE \E x \in Procs : wfd[x] = f /\ pc[x] = "write"
        <5>1. PICK x \in Procs : wfd[x] = f /\ pc[x] = "write"
          BY <4>1
        <5>2. CASE x = p
          <6>1. f # 0
            BY <3>2 DEF Fifos
          <6> QED
            BY <5>1, <5>2, <6>1 DEF Fed
        <5>3. CASE x # p
          BY <1>3, <5>1, <5>3 DEF Fed
        <5> QED
          BY <5>2, <5>3
      <4>2. CASE buffer[f] # <<>> \/ Excused(f)
        BY <1>2, <1>6, <3>2, <4>2 DEF Fed
      <4> QED
        BY <3>2, <4>1, <4>2 DEF Fed
    <3>3. /\ pc[q] = "read" /\ rfd[q] = f => f \in Fifos
          /\ pc[q] = "close_write" /\ wfd[q] = f => f \in Fifos /\ f # 0
      BY Shapes DEF Shape, TypeOK
    <3>4. Readers(f) # {} /\ f # 0 => Readers(f)' # {} \/ Excused(f)'
      <4>1. CASE rfd[p] = f
        BY <4>1
      <4>2. CASE rfd[p] # f
        <5>1. Readers(f) \subseteq Readers(f)'
          BY <1>3, <4>2 DEF Readers
        <5> QED
          BY <5>1
      <4> QED
        BY <4>1, <4>2
    <3> QED
      BY <1>2, <1>3, <1>6, <2>2, <3>1, <3>2, <3>3, <3>4 DEF Met
  <2> QED
    BY <2>1, <2>2
<1>10. LostOnlyAfterRead'
  <2> SUFFICES ASSUME NEW i \in 1 .. sent, NEW f, f = origin[i]
               PROVE  \/ \E j \in 1 .. Len(buffer'[f]) : buffer'[f][j] = i
                      \/ Excused(f)'
    BY <1>4, LostAfter DEF Accounted, Excused
  <2>1. \/ \E j \in 1 .. Len(buffer[f]) : buffer[f][j] = i
        \/ Excused(f)
    BY Lost DEF Accounted
  <2>2. f \in Fifos
    BY Shapes DEF Shape
  <2> QED
    BY <1>2, <1>6, <2>1, <2>2
<1> QED
  BY <1>4, <1>5, <1>7, <1>8, <1>9, <1>10

LEMMA CloseWriteKeeps ==
    ASSUME IInv, NEW p \in Procs, CloseWrite(p)
    PROVE  IInv'
<1> USE DEF IInv
<1>1. /\ pc[p] = "close_write" /\ DropUnheld(p)
      /\ wfd' = [wfd EXCEPT ![p] = 0] /\ rfd' = rfd
      /\ pc' = [pc EXCEPT ![p] = "idle"]
      /\ UNCHANGED <<path, made, sent, received, origin, broken>>
  BY DEF CloseWrite, Goto, hist
<1>2. rfd[p] = 0 /\ rfd' = [rfd EXCEPT ![p] = 0]
  BY <1>1 DEF TypeOK
<1>3. ASSUME NEW f, wfd[p] = f PROVE Excused(f)' \/ (pc[p] # "write" /\ Readers(f) # {})
  <2>1. Met(p, f)
    BY MeetingMet DEF AllMet
  <2> QED
    BY <1>1, <1>3, <2>1 DEF Met, Excused
<1>4. \A f : rfd[p] = f /\ f # 0 => Excused(f)'
  BY <1>2
<1> QED
  BY <1>1, <1>2, <1>3, <1>4, DropKeeps

LEMMA CloseReadKeeps ==
    ASSUME IInv, NEW p \in Procs, CloseRead(p)
    PROVE  IInv'
<1> USE DEF IInv
<1>1. /\ pc[p] = "close_read" /\ DropUnheld(p)
      /\ rfd' = [rfd EXCEPT ![p] = 0] /\ wfd' = wfd
      /\ pc' = [pc EXCEPT ![p] = "unlink"]
      /\ UNCHANGED <<path, made, sent, received, origin, broken>>
  BY DEF CloseRead, Goto, hist
<1>2. wfd[p] = 0 /\ wfd' = [wfd EXCEPT ![p] = 0]
  BY <1>1 DEF TypeOK
<1>3. ASSUME NEW f, rfd[p] = f PROVE Excused(f)'
  <2>1. Met(p, f)
    BY MeetingMet DEF AllMet
  <2> QED
    BY <1>1, <1>3, <2>1 DEF Met, Excused
<1>4. \A f : wfd[p] = f /\ f # 0 => Excused(f)' \/ (pc[p] # "write" /\ Readers(f) # {})
  BY <1>2
<1> QED
  BY <1>1, <1>2, <1>3, <1>4, DropKeeps

\* WriteSigpipe and Kill.
LEMMA DiesKeeps ==
    ASSUME IInv, NEW p \in Procs, Dies(p)
    PROVE  IInv'
<1>1. /\ wfd' = [wfd EXCEPT ![p] = 0] /\ rfd' = [rfd EXCEPT ![p] = 0]
      /\ broken' = broken \union ({wfd[p], rfd[p]} \ {0})
      /\ pc' = [pc EXCEPT ![p] = "dead"] /\ DropUnheld(p)
      /\ UNCHANGED <<path, made, sent, received, origin>>
  BY DEF Dies, Goto
<1>2. \A f : wfd[p] = f /\ f # 0 => Excused(f)'
  BY <1>1 DEF Excused
<1>3. \A f : rfd[p] = f /\ f # 0 => Excused(f)'
  BY <1>1 DEF Excused
<1> QED
  BY <1>1, <1>2, <1>3, DropKeeps

LEMMA NextIInv == IInv /\ [Next]_vars => IInv'
<1> SUFFICES ASSUME IInv, [Next]_vars PROVE IInv'
  OBVIOUS
<1>1. CASE UNCHANGED vars
  <2>1. UNCHANGED <<path, made, buffer, wfd, rfd, pc, sent, received, origin, broken>>
    BY <1>1 DEF vars
  <2>2. TypeOK' /\ LostOnlyAfterRead' /\ Labelled'
    BY <2>1 DEF IInv, TypeOK, LostOnlyAfterRead, Labelled
  <2>3. Bounded'
    BY <2>1, BoundedKept, Shapes DEF IInv, Shape
  <2>4. Unheld'
    <3>1. \A f : Writers(f)' = Writers(f) /\ Readers(f)' = Readers(f)
      BY <2>1 DEF Writers, Readers
    <3> QED
      BY <2>1, <3>1 DEF IInv, Unheld
  <2>5. \A q \in Procs : \A f : Met(q, f) => Met(q, f)'
    BY <2>1 DEF Met, Fed, Excused, Readers
  <2>6. Meeting'
    BY <2>5, MeetingMet, MeetingAfter DEF IInv, AllMet
  <2> QED
    BY <2>2, <2>3, <2>4, <2>6 DEF IInv
<1>2. ASSUME NEW p \in Procs, WithinBounds, StartSend(p) PROVE IInv'
  BY <1>2, StartSendKeeps
<1>3. ASSUME NEW p \in Procs, MkFifo(p) PROVE IInv'
  BY <1>3, MkFifoKeeps
<1>4. ASSUME NEW p \in Procs, OpenWrite(p) PROVE IInv'
  BY <1>4, OpenWriteKeeps
<1>5. ASSUME NEW p \in Procs, OpenRead(p) PROVE IInv'
  BY <1>5, OpenReadKeeps
<1>6. ASSUME NEW p \in Procs, Write(p) PROVE IInv'
  BY <1>6, WriteKeeps
<1>7. ASSUME NEW p \in Procs, Read(p) PROVE IInv'
  BY <1>7, ReadKeeps
<1>8. ASSUME NEW p \in Procs, CloseWrite(p) PROVE IInv'
  BY <1>8, CloseWriteKeeps
<1>9. ASSUME NEW p \in Procs, CloseRead(p) PROVE IInv'
  BY <1>9, CloseReadKeeps
<1>10. ASSUME NEW p \in Procs, WriteSigpipe(p) \/ Kill(p) PROVE IInv'
  BY <1>10, DiesKeeps DEF WriteSigpipe, Kill
<1>11. ASSUME NEW p \in Procs, Unlink(p) \/ Restart(p) PROVE IInv'
  BY <1>11, BetweenKeeps
<1> QED
  BY <1>1, <1>2, <1>3, <1>4, <1>5, <1>6, <1>7, <1>8, <1>9, <1>10, <1>11
     DEF Next, System, Procs

\* The invariant holds however the calls of the processes interleave.
THEOREM PipeInvariant == Spec => []IInv
<1> QED
  BY InitIInv, NextIInv, PTL DEF Spec

\* The FIFOs and the variables of every process keep their shapes, and between
\* two calls of main() nothing is left open (ipc_channels.cpp:131-216).
THEOREM PipeTypes == Spec => []TypeOK
<1>1. IInv => TypeOK
  BY DEF IInv
<1> QED
  BY <1>1, PipeInvariant, PTL

\* A message is lost only after one was received from its FIFO, or a process
\* died that had this FIFO open (ipc_channels.cpp:163-165, :194-197).
THEOREM PipeLosesOnlyAfterRead == Spec => []LostOnlyAfterRead
<1>1. IInv => LostOnlyAfterRead
  BY DEF IInv
<1> QED
  BY <1>1, PipeInvariant, PTL

-----------------------------------------------------------------------------
\* A write is a send, a read that finds something the delivery of the message
\* at the head, and no other step is one the transport knows of.
LEMMA StepSimulates ==
    ASSUME IInv, [Next]_vars
    PROVE  [Abstract!Next]_(Abstract!vars)
<1> USE DEF IInv
<1>1. ASSUME NEW p \in Procs, Write(p) PROVE Abstract!Send
  BY <1>1 DEF Write, Abstract!Send
<1>2. ASSUME NEW p \in Procs, Read(p)
      PROVE  (\E i \in 1 .. sent : Abstract!Deliver(i)) \/ UNCHANGED <<sent, received>>
  <2>1. sent' = sent
    BY <1>2 DEF Read
  <2>2. CASE received' = received
    BY <2>1, <2>2
  <2>3. CASE ~ (received' = received)
    <3>1. PICK r : r = rfd[p]
      OBVIOUS
    <3>2. /\ r \in Fifos /\ buffer[r] # <<>>
          /\ received' = Append(received, Head(buffer[r]))
      BY <1>2, <2>3, <3>1, Shapes DEF Read, TypeOK, Shape
    <3>3. 1 \in 1 .. Len(buffer[r]) /\ buffer[r][1] \in 1 .. sent
      BY <3>2, Shapes DEF Shape
    <3>4. Head(buffer[r]) = buffer[r][1]
      <4>1. buffer[r] \in Seq(1 .. sent)
        BY <3>2 DEF TypeOK
      <4> QED
        BY <3>2, <4>1, HeadTailProperties
    <3>5. \A k \in DOMAIN received : received[k] # buffer[r][1]
      BY <3>2, <3>3, Shapes DEF Labelled, Shape
    <3> QED
      BY <2>1, <3>2, <3>3, <3>4, <3>5 DEF Abstract!Deliver
  <2> QED
    BY <2>2, <2>3
<1>3. ASSUME ~ \E p \in Procs : Write(p) \/ Read(p)
      PROVE  UNCHANGED <<sent, received>>
  BY <1>3 DEF Next, System, vars, hist, StartSend, MkFifo, OpenWrite, WriteSigpipe, Dies,
              CloseWrite, OpenRead, CloseRead, Unlink, Kill, Restart
<1> QED
  BY <1>1, <1>2, <1>3 DEF Abstract!Next, Abstract!vars

\* The named pipe is a transport: nothing is received that was not sent, and
\* nothing twice (ipc_channels.cpp:165, :197).
THEOREM PipeIsTransport == Spec => ImplementsTransport
<1>1. Init => Abstract!Init
  BY DEF Init, Abstract!Init
<1> QED
  BY <1>1, StepSimulates, PipeInvariant, PTL DEF Spec, ImplementsTransport, Abstract!Spec
=============================================================================
