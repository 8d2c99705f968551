-------------------------- MODULE SharedMemoryProofs --------------------------
(***************************************************************************)
(* For any number of processes, segments and messages, and kills at any    *)
(* time: what the unlocked segment still guarantees whoever meets no other *)
(* process in it.                                                          *)
(***************************************************************************)
EXTENDS SharedMemory, FiniteSetTheorems, TLAPS

\* Whoever is about to write finds the bound leaves room for it.
Starting == {p \in Procs : pc[p] \in {"truncate", "write"}}
Bounded == IsFiniteSet(Starting) /\ begun + Cardinality(Starting) <= MaxMessages

\* A sender keeps a descriptor, and whoever copies has a segment.
Held ==
    \A p \in Procs :
        /\ pc[p] \in {"truncate", "write"} => shm_fd[p] # 0
        /\ pc[p] \in {"copy_in", "strlen"} \/ todo[p] # {} => map[p] # 0

\* Before it copies, a process has nothing in hand.
EmptyHanded ==
    \A p \in Procs :
        pc[p] \in {"idle", "truncate", "write", "strlen"} =>
            todo[p] = {} /\ \A c \in Cells : buf[p][c] = 0

\* The cells a message needs, and what a cell holds of it.
Needs(m, c) == c = 1 \/ m \in long
Part(m, c) == IF Needs(m, c) THEN m ELSE 0

\* Two writers copy two messages, and neither is written yet.
InHand ==
    /\ \A p \in Procs : pc[p] = "copy_in" =>
          /\ buf[p][1] \in 1 .. begun /\ buf[p][1] \notin done
          /\ \A c \in Cells : buf[p][c] = Part(buf[p][1], c)
    /\ \A p, q \in Procs :
          pc[p] = "copy_in" /\ pc[q] = "copy_in" /\ p # q => buf[p][1] # buf[q][1]

\* Whoever is alone shares its segment with no writer, and what was last
\* written to a segment is known only while nobody writes to it.
Undisturbed ==
    /\ \A p \in alone : Writers(map[p]) \subseteq {p}
    /\ \A s \in Segments : last[s] # 0 => Writers(s) = {}

\* A process that has received from a segment never finds it again.
Gone == \A p \in Procs : \A s \in had[p] : s # 0 => s # name /\ s # shm_fd[p]

\* Nothing was written to a segment that was not made yet.
Fresh == \A s \in Segments : s > made => last[s] = 0

\* What was last written to a segment is all there.
Stored ==
    \A s \in Segments : last[s] # 0 =>
        \A c \in Cells : Needs(last[s], c) => cell[s][c] = last[s]

\* What a writer that is alone has copied is there.
Storing ==
    \A p \in alone : pc[p] = "copy_in" =>
        \A c \in Cells :
            Needs(buf[p][1], c) /\ c \notin todo[p] => cell[map[p]][c] = buf[p][c]

\* A reader that is alone has copied of the last message what it had to, and
\* has yet to copy nothing else.
Fetching ==
    \A p \in alone : pc[p] = "copy_out" /\ map[p] # 0 /\ last[map[p]] # 0 =>
        \A c \in Cells : IF c \in todo[p] THEN Needs(last[map[p]], c)
                                          ELSE buf[p][c] = Part(last[map[p]], c)

\* If the segment of the name has a message that was there when p began to
\* receive, then p receives it, and alone.
InTime ==
    \A p \in Procs :
        pc[p] \in Reading /\ name # 0 /\ last[name] \in settled[p] =>
            map[p] = name /\ p \in alone

IInv ==
    /\ TypeOK /\ OnlyLateMessagesRemoved /\ ReadsOnce
    /\ Bounded /\ Held /\ EmptyHanded /\ InHand /\ Undisturbed
    /\ Gone /\ Fresh /\ Stored /\ Storing /\ Fetching /\ InTime

-----------------------------------------------------------------------------
\* What TypeOK says of the numbers in the variables.
Shape ==
    /\ made \in Nat /\ made <= MaxSegments /\ MaxSegments \in Nat
    /\ name \in Nat /\ name <= made /\ (name # 0 => name \in Segments)
    /\ begun \in Nat /\ MaxMessages \in Nat
    /\ \A m \in done : m \in 1 .. begun /\ m # 0
    /\ \A s \in Segments : last[s] = 0 \/ last[s] \in done
    /\ \A p \in Procs : /\ map[p] # 0 => map[p] \in Segments
                        /\ map[p] <= made /\ map[p] \in Nat
    /\ \A p \in Procs : /\ shm_fd[p] # 0 => shm_fd[p] \in Segments
                        /\ shm_fd[p] <= made /\ shm_fd[p] \in Nat

LEMMA Shapes == TypeOK => Shape
<1> SUFFICES ASSUME TypeOK PROVE Shape
  OBVIOUS
<1>1. /\ made \in Nat /\ made <= MaxSegments /\ MaxSegments \in Nat
      /\ name \in Nat /\ name <= made /\ begun \in Nat /\ MaxMessages \in Nat
  BY SegmentAssumption DEF TypeOK
<1>2. \A s \in 0 .. made : (s # 0 => s \in Segments) /\ s <= made /\ s \in Nat
  BY <1>1 DEF Segments
<1>3. \A m \in done : m \in 1 .. begun /\ m # 0
  BY DEF TypeOK
<1>4. \A s \in Segments : last[s] = 0 \/ last[s] \in done
  BY DEF TypeOK
<1>5. \A p \in Procs : map[p] \in 0 .. made /\ shm_fd[p] \in 0 .. made
  BY DEF TypeOK
<1>6. name \in 0 .. made
  BY DEF TypeOK
<1> QED
  BY <1>1, <1>2, <1>3, <1>4, <1>5, <1>6 DEF Shape

\* Nobody joins those who are about to write, and no message is begun.
LEMMA BoundedKept ==
    ASSUME Bounded, begun' = begun, begun \in Nat, MaxMessages \in Nat,
           \A q \in Procs : pc'[q] \in {"truncate", "write"} => pc[q] \in {"truncate", "write"}
    PROVE  Bounded'
<1>1. Starting' \subseteq Starting
  BY DEF Starting
<1>2. IsFiniteSet(Starting') /\ Cardinality(Starting') <= Cardinality(Starting)
  BY <1>1, FS_Subset DEF Bounded
<1>3. Cardinality(Starting) \in Nat /\ Cardinality(Starting') \in Nat
  BY <1>2, FS_CardinalityType DEF Bounded
<1> QED
  BY <1>2, <1>3 DEF Bounded

LEMMA InitIInv == Init => IInv
<1> SUFFICES ASSUME Init PROVE IInv
  OBVIOUS
<1>1. /\ made = 0 /\ begun = 0 /\ name = 0 /\ done = {} /\ long = {} /\ alone = {}
      /\ received = {} /\ sized = {}
  BY DEF Init
<1>2. \A p \in Procs : /\ pc[p] = "idle" /\ map[p] = 0 /\ shm_fd[p] = 0 /\ todo[p] = {}
                       /\ settled[p] = {} /\ had[p] = {} /\ \A c \in Cells : buf[p][c] = 0
  BY DEF Init, Blank
<1>3. \A s \in Segments : last[s] = 0 /\ removed[s] = {}
  BY DEF Init
<1>4. TypeOK
  <2>1. /\ 0 \in 0 .. made /\ made \in 0 .. MaxSegments /\ name \in 0 .. made
        /\ begun \in 0 .. MaxMessages
    BY <1>1, SegmentAssumption
  <2>2. cell \in [Segments -> [Cells -> 0 .. begun]] /\ buf \in [Procs -> [Cells -> 0 .. begun]]
    BY <1>1 DEF Init, Blank
  <2>3. shm_fd \in [Procs -> 0 .. made] /\ map \in [Procs -> 0 .. made]
    BY <2>1 DEF Init
  <2>4. pc \in [Procs -> {"idle", "truncate", "write", "copy_in"} \union Reading]
    BY DEF Init
  <2>5. todo \in [Procs -> SUBSET Cells] /\ settled \in [Procs -> SUBSET done]
        /\ removed \in [Segments -> SUBSET done] /\ had \in [Procs -> SUBSET (0 .. made)]
        /\ last \in [Segments -> {0} \union done]
    BY DEF Init
  <2> QED
    BY <1>1, <1>2, <2>1, <2>2, <2>3, <2>4, <2>5 DEF TypeOK
<1>5. Bounded
  <2>1. Starting = {}
    BY <1>2 DEF Starting
  <2> QED
    BY <1>1, <2>1, FS_EmptySet, SegmentAssumption DEF Bounded
<1>6. Held /\ EmptyHanded /\ InHand /\ Gone /\ Fresh /\ Stored
  BY <1>1, <1>2, <1>3 DEF Held, EmptyHanded, InHand, Gone, Fresh, Stored
<1>7. Undisturbed /\ Storing /\ Fetching /\ InTime
  BY <1>1, <1>2, <1>3 DEF Undisturbed, Storing, Fetching, InTime
<1>8. OnlyLateMessagesRemoved /\ ReadsOnce
  BY <1>2, <1>3 DEF OnlyLateMessagesRemoved, ReadsOnce, Reading
<1> QED
  BY <1>4, <1>5, <1>6, <1>7, <1>8 DEF IInv

\* The calls of a send before it maps anything touch neither the segments nor
\* what other processes do with them.
LEMMA AsideKeeps ==
    ASSUME IInv, NEW p \in Procs, NEW next \in {"idle", "truncate", "write"},
           pc[p] \in {"idle", "truncate", "write"}, pc' = [pc EXCEPT ![p] = next],
           UNCHANGED <<cell, map, buf, todo, begun, long, done, received, last, alone,
                       settled, removed, had>>
    PROVE  /\ OnlyLateMessagesRemoved' /\ ReadsOnce' /\ EmptyHanded' /\ InHand'
           /\ Undisturbed' /\ Stored' /\ Storing' /\ Fetching'
<1> USE DEF IInv
<1>1. \A q \in Procs : pc'[q] \in {"copy_in", "strlen", "copy_out"} => pc'[q] = pc[q]
  BY DEF TypeOK
<1>2. pc'[p] = next /\ \A q \in Procs : q # p => pc'[q] = pc[q]
  BY DEF TypeOK
<1>3. \A s : Writers(s)' = Writers(s)
  BY <1>1, <1>2 DEF Writers
<1>4. OnlyLateMessagesRemoved' /\ Stored'
  BY DEF OnlyLateMessagesRemoved, Stored, Needs
<1>5. ReadsOnce'
  BY <1>1 DEF ReadsOnce, Reading
<1>6. EmptyHanded'
  BY <1>2 DEF EmptyHanded
<1>7. InHand'
  BY <1>1 DEF InHand, Part, Needs
<1>8. Undisturbed'
  BY <1>3 DEF Undisturbed
<1>9. alone \subseteq Procs
  BY DEF TypeOK
<1>10. Storing'
  BY <1>1, <1>9 DEF Storing, Needs
<1>11. Fetching'
  BY <1>1, <1>9 DEF Fetching, Part, Needs
<1> QED
  BY <1>4, <1>5, <1>6, <1>7, <1>8, <1>10, <1>11

\* The name is that of the segment there is, or of a new one, from which
\* nobody has received.
LEMMA InitOpenKeeps ==
    ASSUME IInv, NEW p \in Procs, made < MaxSegments, begun + Pending < MaxMessages, InitOpen(p)
    PROVE  IInv'
<1> USE DEF IInv
<1>1. /\ pc[p] = "idle" /\ pc' = [pc EXCEPT ![p] = "truncate"]
      /\ shm_fd' = [shm_fd EXCEPT ![p] = name']
      /\ UNCHANGED <<sized, cell, map, buf, todo, begun, long, done, received, last, alone,
                     settled, removed, had>>
  BY DEF InitOpen, Goto
<1>2. /\ made \in Nat /\ made' \in Nat /\ made <= made' /\ made' \in 0 .. MaxSegments
      /\ name' \in 0 .. made' /\ name' # 0
      /\ name' = name \/ (name = 0 /\ name' > made /\ name' \in Segments)
  BY Shapes DEF InitOpen, Shape, Segments
<1>3. pc'[p] = "truncate" /\ shm_fd'[p] = name'
      /\ \A q \in Procs : q # p => pc'[q] = pc[q] /\ shm_fd'[q] = shm_fd[q]
  BY <1>1 DEF TypeOK
<1>4. TypeOK'
  <2>1. 0 .. made \subseteq 0 .. made' /\ 1 .. made \subseteq 1 .. made'
    BY <1>2
  <2>2. shm_fd' \in [Procs -> 0 .. made'] /\ map' \in [Procs -> 0 .. made']
        /\ had' \in [Procs -> SUBSET (0 .. made')] /\ sized' \subseteq 1 .. made'
    BY <1>1, <1>2, <2>1 DEF TypeOK
  <2>3. pc' \in [Procs -> {"idle", "truncate", "write", "copy_in"} \union Reading]
    BY <1>1 DEF TypeOK
  <2>4. \A q \in Procs : map'[q] # 0 => pc'[q] \in {"copy_in"} \union Reading
    BY <1>1, <1>3 DEF TypeOK, Reading
  <2>5. alone' \subseteq {q \in Procs : pc'[q] \in {"copy_in"} \union Reading}
    BY <1>1, <1>3 DEF TypeOK, Reading
  <2> QED
    BY <1>1, <1>2, <2>2, <2>3, <2>4, <2>5 DEF TypeOK
<1>5. Bounded'
  <2>1. Starting' = Starting \union {p} /\ p \notin Starting
    BY <1>1, <1>3 DEF Starting
  <2>2. IsFiniteSet(Starting) /\ begun + Cardinality(Starting) < MaxMessages
    BY DEF Bounded, Pending, Starting
  <2>3. /\ IsFiniteSet(Starting') /\ Cardinality(Starting') = Cardinality(Starting) + 1
        /\ Cardinality(Starting) \in Nat
    BY <2>1, <2>2, FS_AddElement, FS_CardinalityType
  <2> QED
    BY <1>1, <2>2, <2>3, Shapes DEF Bounded, Shape
<1>6. Held'
  BY <1>1, <1>2, <1>3 DEF Held
<1>7. Gone'
  <2>1. \A q \in Procs : \A x \in had[q] : x # 0 => x # name'
    <3>1. \A q \in Procs : \A x \in had[q] : x \in 0 .. made
      BY DEF TypeOK
    <3>2. \A x \in 0 .. made : ~ (x > made)
      BY <1>2
    <3>3. name' > made => \A x \in 0 .. made : x # name'
      BY <3>2
    <3> QED
      BY <1>2, <3>1, <3>3 DEF Gone
  <2> QED
    BY <1>1, <1>3, <2>1 DEF Gone
<1>8. Fresh'
  BY <1>1, <1>2 DEF Fresh, Segments
<1>9. InTime'
  <2> SUFFICES ASSUME NEW q \in Procs, pc'[q] \in Reading, last[name'] \in settled[q]
               PROVE  map[q] = name' /\ q \in alone
    BY <1>1 DEF InTime
  <2>1. pc[q] \in Reading
    BY <1>3 DEF Reading
  <2>2. name' = name
    <3>1. last[name'] # 0
      <4>1. settled[q] \subseteq done
        BY DEF TypeOK
      <4> QED
        BY <4>1, Shapes DEF Shape
    <3> QED
      BY <1>2, <3>1 DEF Fresh
  <2> QED
    BY <1>2, <2>1, <2>2 DEF InTime
<1> QED
  BY <1>1, <1>4, <1>5, <1>6, <1>7, <1>8, <1>9, AsideKeeps

\* Truncate and Refuse.
LEMMA PreparingKeeps ==
    ASSUME IInv, NEW p \in Procs, Truncate(p) \/ Refuse(p)
    PROVE  IInv'
<1> USE DEF IInv
<1>1. /\ pc[p] \in {"truncate", "write"} /\ sized' \in {sized, sized \union {shm_fd[p]}}
      /\ \E next \in {"write", "idle"} : pc' = [pc EXCEPT ![p] = next]
      /\ UNCHANGED <<name, made, cell, shm_fd, map, buf, todo, begun, long, done, received,
                     last, alone, settled, removed, had>>
  BY DEF Truncate, Refuse, Goto, hist
<1>2. pc'[p] \in {"write", "idle"} /\ \A q \in Procs : q # p => pc'[q] = pc[q]
  BY <1>1 DEF TypeOK
<1>3. shm_fd[p] \in 1 .. made
  BY <1>1, Shapes DEF Held, Shape
<1>4. TypeOK'
  <2>1. pc' \in [Procs -> {"idle", "truncate", "write", "copy_in"} \union Reading]
    BY <1>1 DEF TypeOK
  <2>2. \A q \in Procs : map'[q] # 0 => pc'[q] \in {"copy_in"} \union Reading
    BY <1>1, <1>2 DEF TypeOK, Reading
  <2>3. alone' \subseteq {q \in Procs : pc'[q] \in {"copy_in"} \union Reading}
    BY <1>1, <1>2 DEF TypeOK, Reading
  <2>4. sized' \subseteq 1 .. made
    BY <1>1, <1>3 DEF TypeOK
  <2> QED
    BY <1>1, <2>1, <2>2, <2>3, <2>4 DEF TypeOK
<1>5. Bounded'
  <2>1. \A q \in Procs : pc'[q] \in {"truncate", "write"} => pc[q] \in {"truncate", "write"}
    BY <1>1, <1>2
  <2> QED
    BY <1>1, <2>1, BoundedKept, Shapes DEF Shape
<1>6. Held' /\ Gone' /\ Fresh'
  BY <1>1, <1>2 DEF Held, Gone, Fresh
<1>7. InTime'
  BY <1>1, <1>2 DEF InTime, Reading
<1> QED
  BY <1>1, <1>4, <1>5, <1>6, <1>7, AsideKeeps

\* The message is a new one, and whoever was alone in the segment is no longer.
LEMMA OpenWriteKeeps ==
    ASSUME IInv, NEW p \in Procs, OpenWrite(p)
    PROVE  IInv'
<1> USE DEF IInv
<1>0. PICK s : s = Opened(p)
  OBVIOUS
<1>1. PICK isLong \in BOOLEAN :
      /\ pc[p] = "write" /\ pc' = [pc EXCEPT ![p] = "copy_in"]
      /\ map' = [map EXCEPT ![p] = s] /\ begun' = begun + 1
      /\ long' = IF isLong THEN long \union {begun + 1} ELSE long
      /\ buf' = [buf EXCEPT ![p] = Whole(begun + 1, isLong)]
      /\ todo' = [todo EXCEPT ![p] = IF isLong THEN Cells ELSE {1}]
      /\ last' = [last EXCEPT ![s] = 0]
      /\ alone' = {q \in alone : map[q] # s} \union {q \in {p} : Writers(s) = {}}
      /\ UNCHANGED <<name, made, sized, cell, shm_fd, done, received, settled, removed, had>>
  BY <1>0 DEF OpenWrite, Goto
<1>2. s \in Segments /\ s \in 0 .. made /\ s # 0 /\ (name = 0 \/ s = name)
  BY <1>0, <1>1, Shapes DEF Opened, Held, Shape
<1>3. \A q \in Procs : q # p => /\ pc'[q] = pc[q] /\ map'[q] = map[q] /\ buf'[q] = buf[q]
                                /\ todo'[q] = todo[q]
  BY <1>1 DEF TypeOK
<1>4. /\ pc'[p] = "copy_in" /\ map'[p] = s /\ map[p] = 0
      /\ todo'[p] = (IF isLong THEN Cells ELSE {1})
      /\ buf'[p] = Whole(begun + 1, isLong)
      /\ p \notin alone
  BY <1>1 DEF TypeOK, Reading
<1>5. begun \in Nat /\ begun' \in Nat /\ begun <= begun' /\ begun + 1 \in 1 .. begun'
  BY <1>1, Shapes DEF Shape
<1>6. /\ \A m \in 1 .. begun : m \in long' <=> m \in long
      /\ begun + 1 \in long' <=> isLong
  <2>1. \A m \in 1 .. begun : m # begun + 1
    BY <1>5
  <2>2. begun + 1 \notin long
    BY <1>5 DEF TypeOK
  <2> QED
    BY <1>1, <2>1, <2>2
<1>7. \A m \in done : m \in 1 .. begun
  BY Shapes DEF Shape
<1>8. \A x \in Segments : last'[x] = IF x = s THEN 0 ELSE last[x]
  BY <1>1, <1>2 DEF TypeOK
<1>9. \A c \in Cells : buf'[p][c] = IF c = 1 \/ isLong THEN begun + 1 ELSE 0
  BY <1>4 DEF Whole
<1>10. 1 \in Cells
  BY DEF Cells
<1>11. Bounded'
  <2>1. p \in Starting /\ Starting' = Starting \ {p}
    BY <1>1, <1>3, <1>4 DEF Starting
  <2>2. /\ IsFiniteSet(Starting \ {p}) /\ Cardinality(Starting \ {p}) = Cardinality(Starting) - 1
        /\ Cardinality(Starting) \in Nat
    BY <2>1, FS_RemoveElement, FS_CardinalityType DEF Bounded
  <2> QED
    BY <1>1, <1>5, <2>1, <2>2, Shapes DEF Bounded, Shape
<1>12. TypeOK'
  <2>1. begun' \in 0 .. MaxMessages
    <3>1. IsFiniteSet(Starting') /\ begun' + Cardinality(Starting') <= MaxMessages
          /\ Cardinality(Starting') \in Nat
      BY <1>11, FS_CardinalityType DEF Bounded
    <3>2. MaxMessages \in Nat
      BY Shapes DEF Shape
    <3> QED
      BY <1>5, <3>1, <3>2
  <2>2. 0 .. begun \subseteq 0 .. begun' /\ 1 .. begun \subseteq 1 .. begun'
    BY <1>5
  <2>3. cell' \in [Segments -> [Cells -> 0 .. begun']]
    BY <1>1, <2>2 DEF TypeOK
  <2>4. buf' \in [Procs -> [Cells -> 0 .. begun']]
    <3>1. Whole(begun + 1, isLong) \in [Cells -> 0 .. begun']
      BY <1>5 DEF Whole
    <3>2. buf \in [Procs -> [Cells -> 0 .. begun']]
      BY <2>2 DEF TypeOK
    <3> QED
      BY <1>1, <3>1, <3>2
  <2>5. map' \in [Procs -> 0 .. made] /\ todo' \in [Procs -> SUBSET Cells]
    BY <1>1, <1>2, <1>10 DEF TypeOK
  <2>6. pc' \in [Procs -> {"idle", "truncate", "write", "copy_in"} \union Reading]
    BY <1>1 DEF TypeOK
  <2>7. \A q \in Procs : map'[q] # 0 => pc'[q] \in {"copy_in"} \union Reading
    BY <1>3, <1>4 DEF TypeOK
  <2>8. alone' \subseteq {q \in Procs : pc'[q] \in {"copy_in"} \union Reading}
    BY <1>1, <1>3, <1>4 DEF TypeOK
  <2>9. last' \in [Segments -> {0} \union done]
    BY <1>1 DEF TypeOK
  <2>10. long' \subseteq 1 .. begun' /\ done \subseteq 1 .. begun'
    BY <1>1, <1>5, <2>2 DEF TypeOK
  <2> QED
    BY <1>1, <2>1, <2>3, <2>4, <2>5, <2>6, <2>7, <2>8, <2>9, <2>10 DEF TypeOK
<1>13. OnlyLateMessagesRemoved'
  <2>1. \A x \in Segments : 0 \notin removed[x]
    <3>1. \A x \in Segments : removed[x] \subseteq done
      BY DEF TypeOK
    <3> QED
      BY <3>1, Shapes DEF Shape
  <2> QED
    BY <1>1, <1>8, <2>1 DEF OnlyLateMessagesRemoved
<1>14. ReadsOnce' /\ Held' /\ EmptyHanded' /\ Gone' /\ Fresh'
  <2>1. ReadsOnce'
    BY <1>1, <1>3, <1>4 DEF ReadsOnce, Reading
  <2>2. Held'
    BY <1>1, <1>2, <1>3, <1>4 DEF Held
  <2>3. EmptyHanded'
    BY <1>3, <1>4 DEF EmptyHanded
  <2>4. Gone'
    BY <1>1 DEF Gone
  <2>5. Fresh'
    BY <1>1, <1>8 DEF Fresh
  <2> QED
    BY <2>1, <2>2, <2>3, <2>4, <2>5
<1>15. InHand'
  <2>1. /\ buf'[p][1] = begun + 1 /\ begun + 1 \in 1 .. begun' /\ begun + 1 \notin done
        /\ \A c \in Cells : buf'[p][c] = IF c = 1 \/ begun + 1 \in long' THEN begun + 1 ELSE 0
    BY <1>5, <1>6, <1>7, <1>9, <1>10
  <2>2. ASSUME NEW q \in Procs, q # p, pc'[q] = "copy_in"
        PROVE  /\ buf'[q][1] \in 1 .. begun /\ buf'[q][1] \in 1 .. begun'
               /\ buf'[q][1] \notin done /\ buf'[q][1] # begun + 1
               /\ \A c \in Cells : buf'[q][c] = IF c = 1 \/ buf'[q][1] \in long'
                                                THEN buf'[q][1] ELSE 0
    <3>1. buf[q][1] \in 1 .. begun /\ buf[q][1] \notin done
      BY <1>3, <2>2 DEF InHand
    <3>2. \A c \in Cells : buf[q][c] = IF c = 1 \/ buf[q][1] \in long THEN buf[q][1] ELSE 0
      BY <1>3, <2>2 DEF InHand, Part, Needs
    <3> QED
      BY <1>3, <1>5, <1>6, <2>2, <3>1, <3>2
  <2>3. \A q, r \in Procs :
           pc'[q] = "copy_in" /\ pc'[r] = "copy_in" /\ q # r => buf'[q][1] # buf'[r][1]
    BY <1>3, <2>1, <2>2 DEF InHand
  <2> QED
    BY <1>1, <2>1, <2>2, <2>3 DEF InHand, Part, Needs
<1>16. \A x : Writers(x)' = IF x = s THEN Writers(x) \union {p} ELSE Writers(x)
  BY <1>1, <1>3, <1>4 DEF Writers
<1>17. \A q \in alone' : (q = p /\ Writers(s) = {}) \/ (q # p /\ q \in alone /\ map[q] # s /\ q \in Procs)
  BY <1>1, <1>4 DEF TypeOK
<1>18. Undisturbed'
  <2>1. ASSUME NEW q \in alone', NEW x, x = map'[q] PROVE Writers(x)' \subseteq {q}
    <3>1. CASE q = p
      BY <1>4, <1>16, <1>17, <2>1, <3>1
    <3>2. CASE q # p
      BY <1>3, <1>16, <1>17, <2>1, <3>2 DEF Undisturbed
    <3> QED
      BY <3>1, <3>2
  <2>2. \A x \in Segments : last'[x] # 0 => Writers(x)' = {}
    BY <1>8, <1>16 DEF Undisturbed
  <2> QED
    BY <2>1, <2>2 DEF Undisturbed, Writers
<1>19. Stored'
  <2> SUFFICES ASSUME NEW x \in Segments, last'[x] # 0, NEW c \in Cells,
                      c = 1 \/ last'[x] \in long'
               PROVE  cell[x][c] = last'[x]
    BY <1>1 DEF Stored, Needs
  <2>1. last'[x] = last[x] /\ last[x] \in 1 .. begun
    BY <1>7, <1>8, Shapes DEF Shape
  <2> QED
    BY <1>6, <2>1 DEF Stored, Needs
<1>20. Storing'
  <2> SUFFICES ASSUME NEW q \in alone', pc'[q] = "copy_in", NEW c \in Cells,
                      c = 1 \/ buf'[q][1] \in long', c \notin todo'[q]
               PROVE  cell[map'[q]][c] = buf'[q][c]
    BY <1>1 DEF Storing, Needs
  <2>1. q # p
    <3>1. ASSUME q = p PROVE FALSE
      <4>1. buf'[p][1] = begun + 1
        BY <1>9, <1>10
      <4>2. c = 1 \/ isLong
        BY <1>6, <3>1, <4>1
      <4> QED
        BY <1>4, <3>1, <4>2
    <3> QED
      BY <3>1
  <2>2. q \in alone /\ q \in Procs /\ pc[q] = "copy_in"
    BY <1>3, <1>17, <2>1
  <2>3. buf[q][1] \in 1 .. begun
    BY <2>2 DEF InHand
  <2> QED
    BY <1>3, <1>6, <2>1, <2>2, <2>3 DEF Storing, Needs
<1>21. Fetching'
  <2> SUFFICES ASSUME NEW q \in alone', pc'[q] = "copy_out", map'[q] # 0,
                      NEW m, m = last'[map'[q]], m # 0, NEW c \in Cells
               PROVE  IF c \in todo'[q] THEN c = 1 \/ m \in long'
                      ELSE buf'[q][c] = IF c = 1 \/ m \in long' THEN m ELSE 0
    BY DEF Fetching, Part, Needs
  <2>1. q # p /\ q \in alone /\ map[q] # s /\ q \in Procs
    BY <1>4, <1>17
  <2>2. map[q] # 0 /\ map[q] \in Segments /\ pc[q] = "copy_out"
    BY <1>3, <2>1, Shapes DEF Shape
  <2>3. m = last[map[q]] /\ m \in 1 .. begun
    BY <1>3, <1>7, <1>8, <2>1, <2>2, Shapes DEF Shape
  <2> QED
    BY <1>3, <1>6, <2>1, <2>2, <2>3 DEF Fetching, Part, Needs
<1>22. InTime'
  <2> SUFFICES ASSUME NEW q \in Procs, pc'[q] \in Reading, name # 0, last'[name] \in settled[q]
               PROVE  map'[q] = name /\ q \in alone'
    BY <1>1 DEF InTime
  <2>1. q # p
    BY <1>4 DEF Reading
  <2>2. name # s
    <3>1. settled[q] \subseteq done
      BY DEF TypeOK
    <3> QED
      BY <1>2, <1>8, <3>1, Shapes DEF Shape
  <2> QED
    BY <1>2, <2>2
<1> QED
  BY <1>11, <1>12, <1>13, <1>14, <1>15, <1>18, <1>19, <1>20, <1>21, <1>22

\* A writer copies into its segment only, in which nobody else is alone.
LEMMA CopyInKeeps ==
    ASSUME IInv, NEW p \in Procs, CopyIn(p)
    PROVE  IInv'
<1> USE DEF IInv
<1>0. PICK s : s = map[p]
  OBVIOUS
<1>1. PICK k \in todo[p] :
      /\ pc[p] = "copy_in" /\ cell' = [cell EXCEPT ![s][k] = buf[p][k]]
      /\ todo' = [todo EXCEPT ![p] = todo[p] \ {k}]
      /\ UNCHANGED <<name, made, sized, shm_fd, map, pc, buf, begun, long, done, received, last,
                     alone, settled, removed, had>>
  BY <1>0 DEF CopyIn, hist
<1>2. s \in Segments /\ k \in Cells
  BY <1>0, <1>1, Shapes DEF Held, Shape, TypeOK
<1>3. /\ \A x \in Segments, c \in Cells :
            cell'[x][c] = IF x = s /\ c = k THEN buf[p][k] ELSE cell[x][c]
      /\ todo'[p] = todo[p] \ {k} /\ \A q \in Procs : q # p => todo'[q] = todo[q]
  BY <1>1, <1>2 DEF TypeOK
<1>4. TypeOK'
  <2>1. buf[p][k] \in 0 .. begun
    BY <1>2 DEF TypeOK
  <2>2. cell' \in [Segments -> [Cells -> 0 .. begun]]
    BY <1>1, <1>2, <2>1 DEF TypeOK
  <2>3. todo' \in [Procs -> SUBSET Cells]
    BY <1>1 DEF TypeOK
  <2> QED
    BY <1>1, <2>2, <2>3 DEF TypeOK
<1>5. Bounded'
  BY <1>1, BoundedKept, Shapes DEF Shape
<1>6. OnlyLateMessagesRemoved' /\ ReadsOnce' /\ Gone' /\ Fresh' /\ InTime'
  BY <1>1 DEF OnlyLateMessagesRemoved, ReadsOnce, Gone, Fresh, InTime
<1>7. Held' /\ EmptyHanded'
  BY <1>1, <1>3 DEF Held, EmptyHanded
<1>8. InHand'
  BY <1>1 DEF InHand, Part, Needs
<1>9. \A x : Writers(x)' = Writers(x)
  BY <1>1 DEF Writers
<1>10. Undisturbed'
  BY <1>1, <1>9 DEF Undisturbed
<1>11. p \in Writers(s)
  BY <1>0, <1>1 DEF Writers
<1>12. Stored'
  <2>1. last[s] = 0
    BY <1>2, <1>11 DEF Undisturbed
  <2>2. \A x \in Segments, c \in Cells : x # s => cell'[x][c] = cell[x][c]
    BY <1>3
  <2> QED
    BY <1>1, <2>1, <2>2 DEF Stored, Needs
<1>13. alone \subseteq Procs
  BY DEF TypeOK
<1>14. Storing'
  <2> SUFFICES ASSUME NEW q \in alone, pc[q] = "copy_in", NEW c \in Cells,
                      Needs(buf[q][1], c), c \notin todo'[q]
               PROVE  cell'[map[q]][c] = buf[q][c]
    BY <1>1 DEF Storing, Needs
  <2>1. q \in Procs /\ map[q] \in Segments
    BY <1>13, Shapes DEF Held, Shape
  <2>2. CASE q = p
    BY <1>0, <1>2, <1>3, <2>2 DEF Storing
  <2>3. CASE q # p
    <3>1. map[q] # s
      BY <1>11, <2>3 DEF Undisturbed
    <3> QED
      BY <1>3, <2>1, <2>3, <3>1 DEF Storing
  <2> QED
    BY <2>2, <2>3
<1>15. Fetching'
  <2>1. \A q \in alone : pc[q] = "copy_out" => todo'[q] = todo[q]
    BY <1>1, <1>3, <1>13
  <2> QED
    BY <1>1, <2>1 DEF Fetching, Part, Needs
<1> QED
  BY <1>4, <1>5, <1>6, <1>7, <1>8, <1>10, <1>12, <1>14, <1>15

\* What a process that leaves its segment says of itself, and of the others.
LEMMA LeftShape ==
    ASSUME TypeOK, NEW p \in Procs, Unmapped(p)
    PROVE  /\ pc'[p] = "idle" /\ map'[p] = 0 /\ todo'[p] = {} /\ settled'[p] = {}
           /\ \A c \in Cells : buf'[p][c] = 0
           /\ \A q \in Procs : q # p =>
                 /\ pc'[q] = pc[q] /\ map'[q] = map[q] /\ todo'[q] = todo[q]
                 /\ settled'[q] = settled[q] /\ buf'[q] = buf[q]
           /\ alone' = alone \ {p}
           /\ \A x : x # 0 => Writers(x)' = Writers(x) \ {p}
           /\ map' \in [Procs -> 0 .. made]
           /\ pc' \in [Procs -> {"idle", "truncate", "write", "copy_in"} \union Reading]
           /\ buf' \in [Procs -> [Cells -> 0 .. begun]]
           /\ todo' \in [Procs -> SUBSET Cells]
           /\ settled' \in [Procs -> SUBSET done]
           /\ alone' \subseteq {q \in Procs : pc'[q] \in {"copy_in"} \union Reading}
           /\ \A q \in Procs : map'[q] # 0 => pc'[q] \in {"copy_in"} \union Reading
<1>1. /\ map' = [map EXCEPT ![p] = 0] /\ buf' = [buf EXCEPT ![p] = Blank]
      /\ todo' = [todo EXCEPT ![p] = {}] /\ alone' = alone \ {p}
      /\ settled' = [settled EXCEPT ![p] = {}] /\ pc' = [pc EXCEPT ![p] = "idle"]
  BY DEF Unmapped, Goto
<1>2. /\ pc'[p] = "idle" /\ map'[p] = 0 /\ todo'[p] = {} /\ settled'[p] = {}
      /\ buf'[p] = Blank
      /\ \A q \in Procs : q # p =>
            /\ pc'[q] = pc[q] /\ map'[q] = map[q] /\ todo'[q] = todo[q]
            /\ settled'[q] = settled[q] /\ buf'[q] = buf[q]
  BY <1>1 DEF TypeOK
<1>3. \A c \in Cells : buf'[p][c] = 0
  BY <1>2 DEF Blank
<1>4. \A x : x # 0 => Writers(x)' = Writers(x) \ {p}
  BY <1>2 DEF Writers
<1>5. map' \in [Procs -> 0 .. made]
  <2>1. 0 \in 0 .. made
    BY Shapes DEF Shape
  <2> QED
    BY <1>1, <2>1 DEF TypeOK
<1>6. buf' \in [Procs -> [Cells -> 0 .. begun]]
  <2>1. Blank \in [Cells -> 0 .. begun]
    BY Shapes DEF Blank, Shape
  <2> QED
    BY <1>1, <2>1 DEF TypeOK
<1>7. /\ pc' \in [Procs -> {"idle", "truncate", "write", "copy_in"} \union Reading]
      /\ todo' \in [Procs -> SUBSET Cells] /\ settled' \in [Procs -> SUBSET done]
  BY <1>1 DEF TypeOK
<1>8. /\ alone' \subseteq {q \in Procs : pc'[q] \in {"copy_in"} \union Reading}
      /\ \A q \in Procs : map'[q] # 0 => pc'[q] \in {"copy_in"} \union Reading
  BY <1>1, <1>2 DEF TypeOK
<1> QED
  BY <1>1, <1>2, <1>3, <1>4, <1>5, <1>6, <1>7, <1>8

\* A message is there when its writer leaves, if nobody else has written.
LEMMA UnmapKeeps ==
    ASSUME IInv, NEW p \in Procs, Unmap(p)
    PROVE  IInv'
<1> USE DEF IInv
<1>0. PICK s, m : s = map[p] /\ m = buf[p][1]
  OBVIOUS
<1>1. /\ pc[p] = "copy_in" /\ todo[p] = {} /\ done' = done \union {m}
      /\ last' = [last EXCEPT ![s] = IF p \in alone THEN m ELSE 0]
      /\ UNCHANGED <<name, made, sized, cell, shm_fd, begun, long, received, removed, had>>
  BY <1>0 DEF Unmap
<1>2. Unmapped(p)
  BY DEF Unmap
<1>3. s \in Segments /\ m \in 1 .. begun /\ m \notin done /\ s <= made
  BY <1>0, <1>1, Shapes DEF Held, InHand, Shape
<1>4. \A x \in Segments : last'[x] = IF x = s THEN (IF p \in alone THEN m ELSE 0) ELSE last[x]
  BY <1>1, <1>3 DEF TypeOK
<1>5. /\ pc'[p] = "idle" /\ map'[p] = 0 /\ todo'[p] = {} /\ settled'[p] = {}
      /\ \A c \in Cells : buf'[p][c] = 0
      /\ alone' = alone \ {p}
      /\ \A x : x # 0 => Writers(x)' = Writers(x) \ {p}
  BY <1>2, LeftShape
<1>6. \A q \in Procs : q # p =>
         /\ pc'[q] = pc[q] /\ map'[q] = map[q] /\ todo'[q] = todo[q]
         /\ settled'[q] = settled[q] /\ buf'[q] = buf[q]
  BY <1>2, LeftShape
<1>7. p \in Writers(s)
  BY <1>0, <1>1 DEF Writers
<1>8. m # 0 /\ s # 0
  BY <1>3 DEF Segments
<1>9. alone \subseteq Procs /\ \A q \in Procs : settled[q] \subseteq done
  BY DEF TypeOK
<1>10. TypeOK'
  <2>1. done' \subseteq 1 .. begun /\ received' \subseteq done'
    BY <1>1, <1>3 DEF TypeOK
  <2>2. last' \in [Segments -> {0} \union done']
    BY <1>1 DEF TypeOK
  <2>3. settled' \in [Procs -> SUBSET done'] /\ removed' \in [Segments -> SUBSET done']
    <3>1. settled' \in [Procs -> SUBSET done] /\ removed \in [Segments -> SUBSET done]
      BY <1>2, LeftShape DEF TypeOK
    <3>2. SUBSET done \subseteq SUBSET done'
      BY <1>1
    <3> QED
      BY <1>1, <3>1, <3>2
  <2>4. /\ map' \in [Procs -> 0 .. made]
        /\ pc' \in [Procs -> {"idle", "truncate", "write", "copy_in"} \union Reading]
        /\ buf' \in [Procs -> [Cells -> 0 .. begun]] /\ todo' \in [Procs -> SUBSET Cells]
        /\ alone' \subseteq {q \in Procs : pc'[q] \in {"copy_in"} \union Reading}
        /\ \A q \in Procs : map'[q] # 0 => pc'[q] \in {"copy_in"} \union Reading
    BY <1>2, LeftShape
  <2> QED
    BY <1>1, <2>1, <2>2, <2>3, <2>4 DEF TypeOK
<1>11. Bounded'
  <2>1. \A q \in Procs : pc'[q] \in {"truncate", "write"} => pc[q] \in {"truncate", "write"}
    BY <1>5, <1>6
  <2> QED
    BY <1>1, <2>1, BoundedKept, Shapes DEF Shape
<1>12. OnlyLateMessagesRemoved'
  <2>1. \A x \in Segments : m \notin removed[x] /\ 0 \notin removed[x]
    <3>1. \A x \in Segments : removed[x] \subseteq done
      BY DEF TypeOK
    <3> QED
      BY <1>3, <3>1, Shapes DEF Shape
  <2> QED
    BY <1>1, <1>4, <2>1 DEF OnlyLateMessagesRemoved
<1>13. ReadsOnce' /\ Held' /\ EmptyHanded' /\ Gone' /\ Fresh'
  <2>1. ReadsOnce'
    BY <1>1, <1>5, <1>6 DEF ReadsOnce, Reading
  <2>2. Held' /\ EmptyHanded' /\ Gone'
    BY <1>1, <1>5, <1>6 DEF Held, EmptyHanded, Gone
  <2>3. Fresh'
    <3>1. \A x \in Segments : x > made => x # s
      BY <1>3, Shapes DEF Shape, Segments
    <3> QED
      BY <1>1, <1>4, <3>1 DEF Fresh
  <2> QED
    BY <2>1, <2>2, <2>3
<1>14. InHand'
  <2>1. \A q \in Procs : q # p /\ pc[q] = "copy_in" => buf[q][1] # m
    BY <1>0, <1>1 DEF InHand
  <2>2. \A q \in Procs : pc'[q] = "copy_in" => q # p /\ pc[q] = "copy_in" /\ buf'[q] = buf[q]
    BY <1>5, <1>6
  <2> QED
    BY <1>1, <2>1, <2>2 DEF InHand, Part, Needs
<1>15. Undisturbed'
  <2>1. ASSUME NEW q \in alone', NEW x, x = map'[q] PROVE Writers(x)' \subseteq {q}
    <3>1. q \in alone /\ q # p /\ x = map[q]
      BY <1>5, <1>6, <1>9, <2>1
    <3>2. CASE x # 0
      BY <1>5, <3>1, <3>2 DEF Undisturbed
    <3>3. CASE x = 0
      <4>1. \A r \in Procs : pc'[r] = "copy_in" => map'[r] # 0
        BY <1>5, <1>6 DEF Held
      <4> QED
        BY <3>3, <4>1 DEF Writers
    <3> QED
      BY <3>2, <3>3
  <2>2. ASSUME NEW x \in Segments, last'[x] # 0 PROVE Writers(x)' = {}
    <3>1. x # 0
      BY DEF Segments
    <3>2. CASE x = s
      BY <1>0, <1>4, <1>5, <2>2, <3>1, <3>2 DEF Undisturbed
    <3>3. CASE x # s
      BY <1>4, <1>5, <2>2, <3>1, <3>3 DEF Undisturbed
    <3> QED
      BY <3>2, <3>3
  <2> QED
    BY <2>1, <2>2 DEF Undisturbed, Writers
<1>16. Stored'
  <2> SUFFICES ASSUME NEW x \in Segments, last'[x] # 0, NEW c \in Cells, Needs(last'[x], c)
               PROVE  cell[x][c] = last'[x]
    BY <1>1 DEF Stored, Needs
  <2>1. CASE x = s
    <3>1. p \in alone /\ last'[x] = m
      BY <1>4, <2>1
    <3>2. cell[s][c] = buf[p][c]
      BY <1>0, <1>1, <3>1 DEF Storing
    <3>3. buf[p][c] = m
      BY <1>0, <1>1, <3>1 DEF InHand, Part
    <3> QED
      BY <2>1, <3>1, <3>2, <3>3
  <2>2. CASE x # s
    BY <1>4, <2>2 DEF Stored
  <2> QED
    BY <2>1, <2>2
<1>17. Storing'
  <2>1. \A q \in alone' : q \in alone /\ q # p /\ q \in Procs
    BY <1>5, <1>9
  <2> QED
    BY <1>1, <1>6, <2>1 DEF Storing, Needs
<1>18. Fetching'
  <2>1. \A q \in alone' : q \in alone /\ q # p /\ q \in Procs
    BY <1>5, <1>9
  <2>2. \A q \in alone' : map[q] # s
    BY <1>7, <2>1 DEF Undisturbed
  <2>3. \A q \in alone' : map'[q] # 0 => last'[map'[q]] = last[map[q]]
    BY <1>4, <1>6, <2>1, <2>2, Shapes DEF Shape
  <2>4. \A q \in alone' : pc'[q] = pc[q] /\ map'[q] = map[q] /\ todo'[q] = todo[q]
                          /\ buf'[q] = buf[q]
    BY <1>6, <2>1
  <2> QED
    BY <1>1, <2>1, <2>3, <2>4 DEF Fetching, Part, Needs
<1>19. InTime'
  <2> SUFFICES ASSUME NEW q \in Procs, pc'[q] \in Reading, name # 0, last'[name] \in settled'[q]
               PROVE  map'[q] = name /\ q \in alone'
    BY <1>1 DEF InTime
  <2>1. q # p
    BY <1>5 DEF Reading
  <2>2. last'[name] = last[name]
    <3>1. 0 \notin settled[q] /\ m \notin settled[q]
      BY <1>3, <1>9, Shapes DEF Shape
    <3>2. name \in Segments
      BY Shapes DEF Shape
    <3> QED
      BY <1>4, <1>6, <2>1, <3>1, <3>2
  <2> QED
    BY <1>5, <1>6, <2>1, <2>2 DEF InTime
<1> QED
  BY <1>10, <1>11, <1>12, <1>13, <1>14, <1>15, <1>16, <1>17, <1>18, <1>19

\* A receiver that finds the last message whole finds nobody writing.
LEMMA OpenReadKeeps ==
    ASSUME IInv, NEW p \in Procs, OpenRead(p)
    PROVE  IInv'
<1> USE DEF IInv
<1>0. PICK s : s = Opened(p)
  OBVIOUS
<1>1. /\ pc[p] = "idle" /\ map' = [map EXCEPT ![p] = s]
      /\ alone' = alone \union {q \in {p} : Writers(s) = {}}
      /\ settled' = [settled EXCEPT ![p] = done]
      /\ pc' = [pc EXCEPT ![p] = IF s = 0 THEN "copy_out" ELSE "strlen"]
      /\ UNCHANGED <<name, made, sized, cell, shm_fd, buf, todo, begun, long, done, received,
                     last, removed, had>>
  BY <1>0 DEF OpenRead, Goto
<1>2. /\ s \in 0 .. made /\ (s # 0 => s \in Segments)
      /\ name # 0 => s = name
      /\ name = 0 => s = shm_fd[p]
  BY <1>0, Shapes DEF Opened, Shape
<1>3. /\ pc'[p] = (IF s = 0 THEN "copy_out" ELSE "strlen") /\ map'[p] = s
      /\ settled'[p] = done /\ map[p] = 0 /\ p \notin alone
      /\ \A q \in Procs : q # p => /\ pc'[q] = pc[q] /\ map'[q] = map[q]
                                   /\ settled'[q] = settled[q]
  BY <1>1 DEF TypeOK, Reading
<1>4. \A x : Writers(x)' = Writers(x)
  BY <1>1, <1>3 DEF Writers
<1>5. alone \subseteq Procs
  BY DEF TypeOK
<1>6. TypeOK'
  <2>1. map' \in [Procs -> 0 .. made]
    BY <1>1, <1>2 DEF TypeOK
  <2>2. pc' \in [Procs -> {"idle", "truncate", "write", "copy_in"} \union Reading]
    BY <1>1 DEF TypeOK, Reading
  <2>3. settled' \in [Procs -> SUBSET done]
    BY <1>1 DEF TypeOK
  <2>4. \A q \in Procs : map'[q] # 0 => pc'[q] \in {"copy_in"} \union Reading
    BY <1>3 DEF TypeOK, Reading
  <2>5. alone' \subseteq {q \in Procs : pc'[q] \in {"copy_in"} \union Reading}
    BY <1>1, <1>3 DEF TypeOK, Reading
  <2> QED
    BY <1>1, <2>1, <2>2, <2>3, <2>4, <2>5 DEF TypeOK
<1>7. Bounded'
  <2>1. \A q \in Procs : pc'[q] \in {"truncate", "write"} => pc[q] \in {"truncate", "write"}
    BY <1>3
  <2> QED
    BY <1>1, <2>1, BoundedKept, Shapes DEF Shape
<1>8. OnlyLateMessagesRemoved' /\ Gone' /\ Fresh' /\ Stored'
  BY <1>1 DEF OnlyLateMessagesRemoved, Gone, Fresh, Stored, Needs
<1>9. ReadsOnce'
  <2>1. s # 0 => s \notin had[p]
    BY <1>2 DEF Gone
  <2> QED
    BY <1>1, <1>3, <2>1 DEF ReadsOnce
<1>10. Held' /\ EmptyHanded'
  BY <1>1, <1>3 DEF Held, EmptyHanded, TypeOK
<1>11. InHand'
  <2>1. \A q \in Procs : pc'[q] = "copy_in" => pc[q] = "copy_in"
    BY <1>3
  <2> QED
    BY <1>1, <2>1 DEF InHand, Part, Needs
<1>12. Undisturbed'
  <2>1. ASSUME NEW q \in alone', NEW x, x = map'[q] PROVE Writers(x)' \subseteq {q}
    BY <1>1, <1>3, <1>4, <1>5, <2>1 DEF Undisturbed
  <2>2. \A x \in Segments : last'[x] # 0 => Writers(x)' = {}
    BY <1>1, <1>4 DEF Undisturbed
  <2> QED
    BY <2>1, <2>2 DEF Undisturbed, Writers
<1>13. \A q \in alone' : q = p \/ (q # p /\ q \in alone /\ q \in Procs)
  BY <1>1, <1>3, <1>5
<1>14. Storing'
  <2>1. \A q \in alone' : pc'[q] = "copy_in" => q \in alone /\ pc[q] = "copy_in" /\ map'[q] = map[q]
    BY <1>3, <1>13
  <2> QED
    BY <1>1, <2>1 DEF Storing, Needs
<1>15. Fetching'
  <2>1. \A q \in alone' : pc'[q] = "copy_out" /\ map'[q] # 0 =>
                             q \in alone /\ pc[q] = "copy_out" /\ map'[q] = map[q]
    BY <1>3, <1>13
  <2> QED
    BY <1>1, <2>1 DEF Fetching, Part, Needs
<1>16. InTime'
  <2> SUFFICES ASSUME NEW q \in Procs, pc'[q] \in Reading, name # 0, last[name] \in settled'[q]
               PROVE  map'[q] = name /\ q \in alone'
    BY <1>1 DEF InTime
  <2>1. CASE q = p
    <3>1. last[name] # 0 /\ name \in Segments
      BY <1>3, <2>1, Shapes DEF Shape
    <3> QED
      BY <1>1, <1>2, <1>3, <2>1, <3>1 DEF Undisturbed
  <2>2. CASE q # p
    BY <1>1, <1>3, <2>2 DEF InTime
  <2> QED
    BY <2>1, <2>2
<1> QED
  BY <1>6, <1>7, <1>8, <1>9, <1>10, <1>11, <1>12, <1>14, <1>15, <1>16

\* Strlen and CopyOut: a receiver looks for the '\0', and copies up to it.
LEMMA FetchKeeps ==
    ASSUME IInv, NEW p \in Procs, Strlen(p) \/ CopyOut(p)
    PROVE  IInv'
<1> USE DEF IInv
<1>1. /\ pc[p] \in Reading /\ pc'[p] = "copy_out" /\ (todo'[p] # {} => map[p] # 0)
      /\ pc' \in [Procs -> {"idle", "truncate", "write", "copy_in"} \union Reading]
      /\ todo' \in [Procs -> SUBSET Cells] /\ buf' \in [Procs -> [Cells -> 0 .. begun]]
      /\ \A q \in Procs : q # p => /\ pc'[q] = pc[q] /\ todo'[q] = todo[q] /\ buf'[q] = buf[q]
      /\ UNCHANGED <<name, made, sized, cell, shm_fd, map, begun, long, done, received, last,
                     alone, settled, removed, had>>
  <2>1. CASE Strlen(p)
    <3>1. PICK todop : /\ todo' = [todo EXCEPT ![p] = todop] /\ todop \in {{}, {1}, Cells}
      BY <2>1 DEF Strlen
    <3>2. todop \in SUBSET Cells
      BY <3>1 DEF Cells
    <3>3. pc[p] = "strlen" /\ pc' = [pc EXCEPT ![p] = "copy_out"] /\ buf' = buf
          /\ UNCHANGED <<name, made, sized, cell, shm_fd, map, begun, long, done, received, last,
                         alone, settled, removed, had>>
      BY <2>1 DEF Strlen, Goto, hist
    <3>4. map[p] # 0
      BY <3>3 DEF Held
    <3> QED
      BY <3>1, <3>2, <3>3, <3>4 DEF TypeOK, Reading
  <2>2. CASE CopyOut(p)
    <3>1. PICK c \in todo[p] : /\ buf' = [buf EXCEPT ![p][c] = cell[map[p]][c]]
                               /\ todo' = [todo EXCEPT ![p] = @ \ {c}]
      BY <2>2 DEF CopyOut
    <3>2. pc[p] = "copy_out" /\ pc' = pc
          /\ UNCHANGED <<name, made, sized, cell, shm_fd, map, begun, long, done, received, last,
                         alone, settled, removed, had>>
      BY <2>2 DEF CopyOut, hist
    <3>3. map[p] \in Segments
      BY <3>1, Shapes DEF Held, Shape
    <3>4. c \in Cells /\ cell[map[p]][c] \in 0 .. begun
      BY <3>1, <3>3 DEF TypeOK
    <3> QED
      BY <3>1, <3>2, <3>3, <3>4 DEF TypeOK, Reading, Segments
  <2> QED
    BY <2>1, <2>2
<1>2. alone \subseteq Procs
  BY DEF TypeOK
<1>3. TypeOK'
  <2>1. \A q \in Procs : map'[q] # 0 => pc'[q] \in {"copy_in"} \union Reading
    BY <1>1 DEF TypeOK, Reading
  <2>2. alone' \subseteq {q \in Procs : pc'[q] \in {"copy_in"} \union Reading}
    BY <1>1 DEF TypeOK, Reading
  <2> QED
    BY <1>1, <2>1, <2>2 DEF TypeOK
<1>4. Bounded'
  <2>1. \A q \in Procs : pc'[q] \in {"truncate", "write"} => pc[q] \in {"truncate", "write"}
    BY <1>1
  <2> QED
    BY <1>1, <2>1, BoundedKept, Shapes DEF Shape
<1>5. OnlyLateMessagesRemoved' /\ Gone' /\ Fresh' /\ Stored'
  BY <1>1 DEF OnlyLateMessagesRemoved, Gone, Fresh, Stored, Needs
<1>6. ReadsOnce' /\ InTime'
  <2>1. \A q \in Procs : pc'[q] \in Reading => pc[q] \in Reading
    BY <1>1
  <2> QED
    BY <1>1, <2>1 DEF ReadsOnce, InTime
<1>7. Held' /\ EmptyHanded'
  <2>1. \A q \in Procs : q # p => /\ pc'[q] = pc[q] /\ todo'[q] = todo[q] /\ buf'[q] = buf[q]
                                   /\ map'[q] = map[q] /\ shm_fd'[q] = shm_fd[q]
    BY <1>1
  <2>2. pc'[p] = "copy_out" /\ (todo'[p] # {} => map'[p] # 0)
    BY <1>1
  <2>3. Held'
    BY <2>1, <2>2 DEF Held
  <2>4. EmptyHanded'
    BY <2>1, <2>2 DEF EmptyHanded
  <2> QED
    BY <2>3, <2>4
<1>8. \A q \in Procs : pc'[q] = "copy_in" => q # p
  BY <1>1
<1>9. InHand'
  <2>1. \A q \in Procs : pc'[q] = "copy_in" => pc[q] = "copy_in" /\ buf'[q] = buf[q]
    BY <1>1, <1>8
  <2> QED
    BY <1>1, <2>1 DEF InHand, Part, Needs
<1>10. \A x : Writers(x)' = Writers(x)
  BY <1>1 DEF Writers, Reading
<1>11. Undisturbed'
  BY <1>1, <1>10 DEF Undisturbed
<1>12. Storing'
  BY <1>1, <1>2, <1>8 DEF Storing, Needs
<1>13. ASSUME p \in alone, map[p] # 0, NEW m, m = last[map[p]], m # 0, NEW c \in Cells
       PROVE  IF c \in todo'[p] THEN Needs(m, c) ELSE buf'[p][c] = Part(m, c)
  <2>1. map[p] \in Segments
    BY <1>13, Shapes DEF Shape
  <2>2. m \in done
    BY <1>13, <2>1, Shapes DEF Shape
  <2>3. \A k \in Cells : Needs(m, k) => cell[map[p]][k] = m
    BY <1>13, <2>1 DEF Stored
  <2>4. CASE Strlen(p)
    <3>1. pc[p] = "strlen" /\ buf' = buf
      BY <2>4 DEF Strlen
    <3>2. buf'[p][c] = 0
      BY <3>1 DEF EmptyHanded
    <3>3. cell[map[p]][1] = m
      BY <2>3 DEF Needs, Cells
    <3>4. todo'[p] = IF m \notin long THEN {1} ELSE Cells
      <4>1. m # 0 /\ todo' = [todo EXCEPT ![p] = CASE cell[map[p]][1] = 0 -> {}
                                     [] cell[map[p]][1] # 0 /\ Ends(cell[map[p]][1]) -> {1}
                                     [] OTHER -> Cells]
        BY <1>13, <2>4 DEF Strlen
      <4>2. todo'[p] = CASE m = 0 -> {}
                         [] m # 0 /\ Ends(m) -> {1}
                         [] OTHER -> Cells
        BY <3>3, <4>1 DEF TypeOK
      <4> QED
        BY <4>1, <4>2 DEF Ends
    <3> QED
      BY <3>2, <3>4 DEF Part, Needs
  <2>5. CASE CopyOut(p)
    <3>1. PICK k \in todo[p] : /\ buf' = [buf EXCEPT ![p][k] = cell[map[p]][k]]
                               /\ todo' = [todo EXCEPT ![p] = @ \ {k}]
      BY <2>5 DEF CopyOut
    <3>2. pc[p] = "copy_out"
      BY <2>5 DEF CopyOut
    <3>3. k \in Cells /\ todo'[p] = todo[p] \ {k}
          /\ buf'[p][c] = IF c = k THEN cell[map[p]][k] ELSE buf[p][c]
      BY <3>1 DEF TypeOK
    <3>4. Needs(m, k)
      BY <1>13, <3>1, <3>2, <3>3 DEF Fetching
    <3>5. IF c \in todo[p] THEN Needs(m, c) ELSE buf[p][c] = Part(m, c)
      BY <1>13, <3>2 DEF Fetching
    <3> QED
      BY <2>3, <3>3, <3>4, <3>5 DEF Part
  <2> QED
    BY <2>4, <2>5
<1>14. Fetching'
  <2> SUFFICES ASSUME NEW q \in alone, pc'[q] = "copy_out", map[q] # 0,
                      NEW m, m = last[map[q]], m # 0, NEW c \in Cells
               PROVE  IF c \in todo'[q] THEN Needs(m, c) ELSE buf'[q][c] = Part(m, c)
    BY <1>1 DEF Fetching, Part, Needs
  <2>1. CASE q = p
    BY <1>13, <2>1
  <2>2. CASE q # p
    BY <1>1, <1>2, <2>2 DEF Fetching
  <2> QED
    BY <2>1, <2>2
<1> QED
  BY <1>3, <1>4, <1>5, <1>6, <1>7, <1>9, <1>11, <1>12, <1>14

\* A receive that met no write has the last message whole.
LEMMA FetchedWhole == IInv => UndisturbedReadIsWhole
<1> SUFFICES ASSUME IInv, NEW p \in alone, pc[p] = "copy_out", todo[p] = {}, map[p] # 0,
                    NEW m, m = last[map[p]], m # 0
             PROVE  buf[p] = Whole(m, m \in long)
  BY DEF UndisturbedReadIsWhole
<1>1. \A c \in Cells : buf[p][c] = IF c = 1 \/ m \in long THEN m ELSE 0
  BY DEF IInv, Fetching, Part, Needs
<1>2. buf[p] = [c \in Cells |-> buf[p][c]]
  BY DEF IInv, TypeOK
<1> QED
  BY <1>1, <1>2 DEF Whole

\* A process that leaves its segment without having written to the end changes
\* nothing for the others.
LEMMA LeavingKeeps ==
    ASSUME IInv, NEW p \in Procs, Unmapped(p),
           shm_fd' = [shm_fd EXCEPT ![p] = 0],
           \A q \in Procs : q # p => had'[q] = had[q],
           UNCHANGED <<sized, cell, made, begun, long, done, last>>
    PROVE  /\ ReadsOnce' /\ Bounded' /\ Held' /\ EmptyHanded' /\ InHand' /\ Undisturbed'
           /\ Fresh' /\ Stored' /\ Storing' /\ Fetching'
<1> USE DEF IInv
<1>1. /\ pc'[p] = "idle" /\ map'[p] = 0 /\ todo'[p] = {} /\ \A c \in Cells : buf'[p][c] = 0
      /\ alone' = alone \ {p}
      /\ \A x : x # 0 => Writers(x)' = Writers(x) \ {p}
      /\ \A q \in Procs : q # p =>
            /\ pc'[q] = pc[q] /\ map'[q] = map[q] /\ todo'[q] = todo[q] /\ buf'[q] = buf[q]
  BY LeftShape
<1>2. \A q \in Procs : q # p => shm_fd'[q] = shm_fd[q]
  BY DEF TypeOK
<1>3. \A q \in alone' : q \in alone /\ q # p /\ q \in Procs
  BY <1>1 DEF TypeOK
<1>4. ReadsOnce'
  BY <1>1 DEF ReadsOnce, Reading
<1>5. Bounded'
  <2>1. \A q \in Procs : pc'[q] \in {"truncate", "write"} => pc[q] \in {"truncate", "write"}
    BY <1>1
  <2> QED
    BY <2>1, BoundedKept, Shapes DEF Shape
<1>6. Held' /\ EmptyHanded'
  BY <1>1, <1>2 DEF Held, EmptyHanded
<1>7. InHand'
  <2>1. \A q \in Procs : pc'[q] = "copy_in" => q # p /\ pc[q] = "copy_in" /\ buf'[q] = buf[q]
    BY <1>1
  <2> QED
    BY <2>1 DEF InHand, Part, Needs
<1>8. Undisturbed'
  <2>1. ASSUME NEW q \in alone', NEW x, x = map'[q] PROVE Writers(x)' \subseteq {q}
    <3>1. q \in alone /\ x = map[q]
      BY <1>1, <1>3, <2>1
    <3>2. CASE x # 0
      BY <1>1, <3>1, <3>2 DEF Undisturbed
    <3>3. CASE x = 0
      <4>1. \A r \in Procs : pc'[r] = "copy_in" => map'[r] # 0
        BY <1>1 DEF Held
      <4> QED
        BY <3>3, <4>1 DEF Writers
    <3> QED
      BY <3>2, <3>3
  <2>2. \A x \in Segments : x # 0
    BY DEF Segments
  <2>3. \A x \in Segments : last[x] # 0 => Writers(x)' = {}
    BY <1>1, <2>2 DEF Undisturbed
  <2> QED
    BY <2>1, <2>3 DEF Undisturbed, Writers
<1>9. Fresh' /\ Stored'
  BY DEF Fresh, Stored, Needs
<1>10. Storing' /\ Fetching'
  <2>1. \A q \in alone' : /\ q \in alone /\ pc'[q] = pc[q] /\ map'[q] = map[q]
                          /\ todo'[q] = todo[q] /\ buf'[q] = buf[q]
    BY <1>1, <1>3
  <2>2. Storing'
    BY <2>1 DEF Storing, Needs
  <2>3. Fetching'
    BY <2>1 DEF Fetching, Part, Needs
  <2> QED
    BY <2>2, <2>3
<1> QED
  BY <1>4, <1>5, <1>6, <1>7, <1>8, <1>9, <1>10

\* The segment goes that has the name by now; if a message was there in time,
\* this receive has it.
LEMMA CloseKeeps ==
    ASSUME IInv, NEW p \in Procs, Close(p)
    PROVE  IInv'
<1> USE DEF IInv
<1>1. /\ pc[p] = "copy_out" /\ todo[p] = {} /\ name' = 0
      /\ shm_fd' = [shm_fd EXCEPT ![p] = 0] /\ Unmapped(p)
      /\ received' = received \union {m \in done : buf[p] = Whole(m, m \in long)}
      /\ removed' = [s \in Segments |-> IF s = name THEN settled[p] ELSE removed[s]]
      /\ had' = [had EXCEPT ![p] = had[p] \union {map[p]}]
      /\ UNCHANGED <<sized, cell, made, begun, long, done, last>>
  BY DEF Close, NameAfterClose
<1>2. \A q \in Procs : q # p => had'[q] = had[q] /\ shm_fd'[q] = shm_fd[q]
  BY <1>1 DEF TypeOK
<1>3. TypeOK'
  <2>1. /\ map' \in [Procs -> 0 .. made]
        /\ pc' \in [Procs -> {"idle", "truncate", "write", "copy_in"} \union Reading]
        /\ buf' \in [Procs -> [Cells -> 0 .. begun]] /\ todo' \in [Procs -> SUBSET Cells]
        /\ settled' \in [Procs -> SUBSET done]
        /\ alone' \subseteq {q \in Procs : pc'[q] \in {"copy_in"} \union Reading}
        /\ \A q \in Procs : map'[q] # 0 => pc'[q] \in {"copy_in"} \union Reading
    BY <1>1, LeftShape
  <2>2. name' \in 0 .. made /\ shm_fd' \in [Procs -> 0 .. made]
    <3>1. 0 \in 0 .. made
      BY Shapes DEF Shape
    <3> QED
      BY <1>1, <3>1 DEF TypeOK
  <2>3. received' \subseteq done
    BY <1>1 DEF TypeOK
  <2>4. removed' \in [Segments -> SUBSET done]
    BY <1>1 DEF TypeOK
  <2>5. had' \in [Procs -> SUBSET (0 .. made)]
    BY <1>1 DEF TypeOK
  <2> QED
    BY <1>1, <2>1, <2>2, <2>3, <2>4, <2>5 DEF TypeOK
<1>4. OnlyLateMessagesRemoved'
  <2> SUFFICES ASSUME NEW s \in Segments, last[s] \in removed'[s]
               PROVE  last[s] \in received'
    BY <1>1 DEF OnlyLateMessagesRemoved
  <2>1. CASE s = name
    <3>1. last[s] \in settled[p] /\ name # 0
      BY <1>1, <2>1 DEF Segments
    <3>2. map[p] = s /\ p \in alone
      BY <1>1, <2>1, <3>1 DEF InTime, Reading
    <3>3. last[s] \in done /\ last[s] # 0
      BY <3>1, Shapes DEF TypeOK, Shape
    <3>4. PICK m : m = last[s]
      OBVIOUS
    <3>5. buf[p] = Whole(m, m \in long)
      BY <1>1, <2>1, <3>1, <3>2, <3>3, <3>4, FetchedWhole DEF UndisturbedReadIsWhole
    <3> QED
      BY <1>1, <3>3, <3>4, <3>5
  <2>2. CASE s # name
    BY <1>1, <2>2 DEF OnlyLateMessagesRemoved
  <2> QED
    BY <2>1, <2>2
<1>5. Gone'
  <2>1. shm_fd'[p] = 0
    BY <1>1 DEF TypeOK
  <2> QED
    BY <1>1, <1>2, <2>1 DEF Gone
<1>6. InTime'
  BY <1>1 DEF InTime
<1> QED
  BY <1>1, <1>2, <1>3, <1>4, <1>5, <1>6, LeavingKeeps

\* Sigbus and Kill.
LEMMA DiesKeeps ==
    ASSUME IInv, NEW p \in Procs, Dies(p)
    PROVE  IInv'
<1> USE DEF IInv
<1>1. /\ shm_fd' = [shm_fd EXCEPT ![p] = 0] /\ Unmapped(p) /\ had' = [had EXCEPT ![p] = {}]
      /\ UNCHANGED <<name, sized, cell, made, begun, long, done, received, last, removed>>
  BY DEF Dies
<1>2. /\ had'[p] = {} /\ \A q \in Procs : q # p => had'[q] = had[q] /\ shm_fd'[q] = shm_fd[q]
  BY <1>1 DEF TypeOK
<1>3. TypeOK'
  <2>1. /\ map' \in [Procs -> 0 .. made]
        /\ pc' \in [Procs -> {"idle", "truncate", "write", "copy_in"} \union Reading]
        /\ buf' \in [Procs -> [Cells -> 0 .. begun]] /\ todo' \in [Procs -> SUBSET Cells]
        /\ settled' \in [Procs -> SUBSET done]
        /\ alone' \subseteq {q \in Procs : pc'[q] \in {"copy_in"} \union Reading}
        /\ \A q \in Procs : map'[q] # 0 => pc'[q] \in {"copy_in"} \union Reading
    BY <1>1, LeftShape
  <2>2. shm_fd' \in [Procs -> 0 .. made] /\ had' \in [Procs -> SUBSET (0 .. made)]
    <3>1. 0 \in 0 .. made
      BY Shapes DEF Shape
    <3> QED
      BY <1>1, <3>1 DEF TypeOK
  <2> QED
    BY <1>1, <2>1, <2>2 DEF TypeOK
<1>4. OnlyLateMessagesRemoved'
  BY <1>1 DEF OnlyLateMessagesRemoved
<1>5. Gone'
  BY <1>1, <1>2 DEF Gone
<1>6. InTime'
  <2>1. /\ pc'[p] = "idle" /\ alone' = alone \ {p}
        /\ \A q \in Procs : q # p =>
              pc'[q] = pc[q] /\ map'[q] = map[q] /\ settled'[q] = settled[q]
    BY <1>1, LeftShape
  <2> QED
    BY <1>1, <2>1 DEF InTime, Reading
<1> QED
  BY <1>1, <1>2, <1>3, <1>4, <1>5, <1>6, LeavingKeeps

LEMMA NextIInv == IInv /\ [Next]_vars => IInv'
<1> SUFFICES ASSUME IInv, [Next]_vars PROVE IInv'
  OBVIOUS
<1>1. CASE UNCHANGED vars
  <2>1. UNCHANGED <<name, sized, cell, shm_fd, map, pc, buf, todo, made, begun, long, done,
                    received, last, alone, settled, removed, had>>
    BY <1>1 DEF vars, hist
  <2>2. TypeOK' /\ OnlyLateMessagesRemoved' /\ ReadsOnce' /\ Held' /\ EmptyHanded'
    BY <2>1 DEF IInv, TypeOK, OnlyLateMessagesRemoved, ReadsOnce, Held, EmptyHanded
  <2>3. Bounded'
    BY <2>1, BoundedKept, Shapes DEF IInv, Shape
  <2>4. InHand' /\ Gone' /\ Fresh' /\ Stored'
    BY <2>1 DEF IInv, InHand, Gone, Fresh, Stored, Part, Needs
  <2>5. \A x : Writers(x)' = Writers(x)
    BY <2>1 DEF Writers
  <2>6. Undisturbed' /\ InTime'
    BY <2>1, <2>5 DEF IInv, Undisturbed, InTime
  <2>7. Storing' /\ Fetching'
    BY <2>1 DEF IInv, Storing, Fetching, Part, Needs
  <2> QED
    BY <2>2, <2>3, <2>4, <2>6, <2>7 DEF IInv
<1>2. ASSUME NEW p \in Procs, made < MaxSegments, begun + Pending < MaxMessages, InitOpen(p)
      PROVE  IInv'
  BY <1>2, InitOpenKeeps
<1>3. ASSUME NEW p \in Procs, Truncate(p) \/ Refuse(p) PROVE IInv'
  BY <1>3, PreparingKeeps
<1>4. ASSUME NEW p \in Procs, OpenWrite(p) PROVE IInv'
  BY <1>4, OpenWriteKeeps
<1>5. ASSUME NEW p \in Procs, CopyIn(p) PROVE IInv'
  BY <1>5, CopyInKeeps
<1>6. ASSUME NEW p \in Procs, Unmap(p) PROVE IInv'
  BY <1>6, UnmapKeeps
<1>7. ASSUME NEW p \in Procs, OpenRead(p) PROVE IInv'
  BY <1>7, OpenReadKeeps
<1>8. ASSUME NEW p \in Procs, Strlen(p) \/ CopyOut(p) PROVE IInv'
  BY <1>8, FetchKeeps
<1>9. ASSUME NEW p \in Procs, Close(p) PROVE IInv'
  BY <1>9, CloseKeeps
<1>10. ASSUME NEW p \in Procs, Sigbus(p) \/ Kill(p) PROVE IInv'
  BY <1>10, DiesKeeps DEF Sigbus, Kill
<1> QED
  BY <1>1, <1>2, <1>3, <1>4, <1>5, <1>6, <1>7, <1>8, <1>9, <1>10 DEF Next

\* The invariant holds however the copies of the processes interleave.
THEOREM SegmentInvariant == Spec => []IInv
<1> QED
  BY InitIInv, NextIInv, PTL DEF Spec

\* The segments and the variables of every process keep their shapes, and
\* nothing stays mapped between two calls (ipc_channels.cpp:41-122).
THEOREM SegmentTypes == Spec => []TypeOK
<1>1. IInv => TypeOK
  BY DEF IInv
<1> QED
  BY <1>1, SegmentInvariant, PTL

\* Who meets no write reads the last message as it was written, whatever was
\* in the segment before (ipc_channels.cpp:74, :102).
THEOREM SegmentReadIsWhole == Spec => []UndisturbedReadIsWhole
<1> QED
  BY FetchedWhole, SegmentInvariant, PTL

\* The unlink at the end of a receive takes away no message that was there,
\* undisturbed, when the receive began and that nobody received
\* (ipc_channels.cpp:120).
THEOREM SegmentLosesOnlyLate == Spec => []OnlyLateMessagesRemoved
<1>1. IInv => OnlyLateMessagesRemoved
  BY DEF IInv
<1> QED
  BY <1>1, SegmentInvariant, PTL

\* No process receives from the same segment twice (ipc_channels.cpp:95-96,
\* :116-120).
THEOREM SegmentReadsOnce == Spec => []ReadsOnce
<1>1. IInv => ReadsOnce
  BY DEF IInv
<1> QED
  BY <1>1, SegmentInvariant, PTL
=============================================================================
