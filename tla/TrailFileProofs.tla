--------------------------- MODULE TrailFileProofs ---------------------------
(***************************************************************************)
(* The properties of the audit file hold for any number of processes,      *)
(* records and subjects, however their system calls overlap.               *)
(***************************************************************************)
EXTENDS TrailFile, SequenceTheorems, WellFoundedInduction, TLAPS

At(i, p) == i \in DOMAIN file /\ file[i] # Hole /\ file[i].owner = p

\* A log holds the records of its process, without those it has erased.
Mine ==
    \A p \in Procs : \A r \in audit_log[p] :
        /\ r.owner = p /\ r.id > erased[p][r.about]
        /\ \A q \in audit_log[p] : q.id = r.id => q = r

\* What a process has yet to write comes after everything it has in the file.
Ahead ==
    \A p \in Procs : \A r \in rest[p] : \A i \in DOMAIN file : At(i, p) => file[i].id < r.id

\* A process that rewrites has nothing in the file behind the place it is at,
\* and that place does not run ahead of the ids.
Behind ==
    \A p \in Rewriters :
        /\ \A i \in DOMAIN file : At(i, p) => i <= offset[p]
        /\ \A r \in rest[p] : offset[p] < r.id

\* The file holds what the only process that wrote it has written so far.
Sole ==
    \A p \in Procs : sole = p =>
        /\ OnDisk = audit_log[p] \ rest[p]
        /\ p \in Rewriters => offset[p] = Len(file)

IInv ==
    /\ TypeOK /\ Mine /\ Ahead /\ Behind /\ Sole
    /\ OwnErasedStaysOut /\ SameOwnerInOrder

-----------------------------------------------------------------------------
\* Of some records with numbers for ids there is a first one.
LEMMA FirstIsLeast ==
    ASSUME NEW R, R # {}, \A r \in R : r.id \in Nat
    PROVE  First(R) \in R /\ \A q \in R : First(R).id <= q.id
<1> DEFINE S == {r.id : r \in R}
<1>1. S \subseteq Nat /\ S # {}
  OBVIOUS
<1>2. PICK m \in S : \A y \in S : ~ (<<y, m>> \in OpToRel(<, Nat))
  BY <1>1, NatLessThanWellFounded, WFMin, Zenon
<1>3. \A x, y \in Nat : <<y, x>> \in OpToRel(<, Nat) <=> y < x
  BY DEF OpToRel
<1>4. PICK r \in R : r.id = m
  BY <1>2
<1> HIDE DEF S
<1>5. \A y \in S : ~ (y < m)
  BY <1>1, <1>2, <1>3
<1> USE DEF S
<1>6. \A q \in R : r.id <= q.id
  BY <1>1, <1>4, <1>5
<1> QED
  BY <1>4, <1>6 DEF First

\* What one write does to the file.
LEMMA PutShape ==
    ASSUME TypeOK, NEW record \in Records, NEW n \in Nat, n > 0
    PROVE  /\ Put(record, n) \in Seq(Records \union {Hole})
           /\ Len(Put(record, n)) = IF n > Len(file) THEN n ELSE Len(file)
           /\ n \in DOMAIN Put(record, n) /\ Put(record, n)[n] = record
           /\ \A i \in DOMAIN file :
                 i # n => i \in DOMAIN Put(record, n) /\ Put(record, n)[i] = file[i]
           /\ \A i \in DOMAIN Put(record, n) :
                 i = n \/ i \in DOMAIN file \/ Put(record, n)[i] = Hole
<1> DEFINE S == Records \union {Hole}
<1>0. file \in Seq(S) /\ Hole \in S /\ record \in S
  BY DEF TypeOK
<1> HIDE DEF S
<1>1. Len(file) \in Nat /\ DOMAIN file = 1 .. Len(file) /\ \A i \in 1 .. Len(file) : file[i] \in S
  BY <1>0, LenProperties, ElementOfSeq
<1> DEFINE m == IF n > Len(file) THEN n ELSE Len(file)
<1>2. m \in Nat
  BY <1>1
<1>3. Put(record, n) = [i \in 1 .. m |->
         IF i = n THEN record ELSE IF i <= Len(file) THEN file[i] ELSE Hole]
  BY DEF Put
<1> HIDE DEF m
<1>4. Put(record, n) \in [1 .. m -> S]
  BY <1>0, <1>1, <1>2, <1>3
<1>5. Put(record, n) \in Seq(S) /\ Len(Put(record, n)) = m
  BY <1>2, <1>4, SeqDef, LenProperties
<1>6. DOMAIN Put(record, n) = 1 .. m
  BY <1>4
<1> QED
  BY <1>1, <1>2, <1>3, <1>5, <1>6 DEF m, S

\* What IInv says about a record that is in a log, or in the file.
LEMMA Known ==
    ASSUME TypeOK
    PROVE  /\ \A p \in Procs : \A r \in audit_log[p] : r \in Records
           /\ \A p \in Procs : rest[p] \subseteq audit_log[p]
           /\ Len(file) \in Nat /\ DOMAIN file = 1 .. Len(file)
           /\ \A i \in DOMAIN file : file[i] # Hole => file[i] \in Records
           /\ \A r \in Records : r.id \in Nat /\ r.id > 0 /\ r.id <= logged
           /\ logged \in Nat /\ MaxRecords \in Nat
           /\ \A p \in Procs : offset[p] \in Nat
           /\ \A p \in Procs, s \in Subjects : erased[p][s] \in Nat /\ erased[p][s] <= logged
<1>1. \A p \in Procs : audit_log[p] \subseteq Records /\ rest[p] \subseteq audit_log[p]
  BY DEF TypeOK
<1>2. /\ Len(file) \in Nat /\ DOMAIN file = 1 .. Len(file)
      /\ \A i \in 1 .. Len(file) : file[i] \in Records \union {Hole}
  BY LenProperties, ElementOfSeq DEF TypeOK
<1>3. logged \in Nat /\ MaxRecords \in Nat
  BY TrailAssumption DEF TypeOK
<1>4. \A r \in Records : r.id \in 1 .. logged
  BY DEF Records
<1>5. \A p \in Procs : offset[p] \in Nat
  BY <1>3 DEF TypeOK, Ends
<1>6. \A p \in Procs, s \in Subjects : erased[p][s] \in 0 .. logged
  BY DEF TypeOK
<1> QED
  BY <1>1, <1>2, <1>3, <1>4, <1>5, <1>6

LEMMA InitIInv == Init => IInv
<1> SUFFICES ASSUME Init PROVE IInv
  OBVIOUS
<1> USE TrailAssumption DEF Init
<1>1. Rewriters = {} /\ DOMAIN file = {} /\ OnDisk = {}
  BY DEF Rewriters, Idle, OnDisk
<1>2. <<>> \in Seq(Records \union {Hole})
  BY EmptySeq
<1>3. TypeOK
  BY <1>2 DEF TypeOK, Ends
<1>4. Mine /\ Ahead
  BY DEF Mine, Ahead
<1>5. Behind /\ Sole
  BY <1>1 DEF Behind, Sole
<1>6. OwnErasedStaysOut /\ SameOwnerInOrder
  BY <1>1 DEF OwnErasedStaysOut, SameOwnerInOrder
<1> QED
  BY <1>3, <1>4, <1>5, <1>6 DEF IInv

-----------------------------------------------------------------------------
\* Ids grow with the number of records logged.
LEMMA RecordsGrow ==
    ASSUME TypeOK, logged' \in Nat, logged <= logged'
    PROVE  Records \subseteq Records'
<1>1. logged \in Nat
  BY Known
<1>2. \A r \in Records : r.id \in 1 .. logged
  BY DEF Records
<1>3. 1 .. logged \subseteq 1 .. logged'
  BY <1>1
<1> QED
  BY <1>3 DEF Records

LEMMA LogKeeps ==
    ASSUME IInv, NEW p \in Procs, logged < MaxRecords, Log(p)
    PROVE  IInv'
<1> USE DEF IInv
<1>1. PICK s \in Subjects, is_open \in OpenOutcomes :
        LET record == [id |-> logged + 1, owner |-> p, about |-> s] IN
        /\ audit_log' = [audit_log EXCEPT ![p] = @ \union {record}]
        /\ rest' = [rest EXCEPT ![p] = IF is_open THEN {record} ELSE {}]
        /\ sole' = IF is_open THEN sole ELSE SoleWithout(p)
  BY DEF Log
<1> DEFINE record == [id |-> logged + 1, owner |-> p, about |-> s]
<1>2. /\ rest[p] = {} /\ logged' = logged + 1 /\ offset' = [offset EXCEPT ![p] = Ends]
      /\ UNCHANGED <<file, erased, refused>>
  BY DEF Log, Idle
<1>3. /\ logged' \in Nat /\ logged' \in 0 .. MaxRecords
      /\ Records \subseteq Records' /\ record \in Records'
  <2>1. logged' \in Nat /\ logged' \in 0 .. MaxRecords /\ logged + 1 \in 1 .. logged'
    BY <1>2, Known
  <2> QED
    BY <2>1, Known, RecordsGrow, <1>2 DEF Records
<1>4. /\ record.id = logged + 1 /\ record.owner = p /\ record.about = s
      /\ \A q \in Procs : \A r \in audit_log[q] : r.id \in Nat /\ r.id <= logged
      /\ \A i \in DOMAIN file : file[i] # Hole => file[i].id \in Nat /\ file[i].id <= logged
  BY Known
<1> HIDE DEF record
<1>5. /\ audit_log' = [audit_log EXCEPT ![p] = @ \union {record}]
      /\ \/ is_open /\ rest' = [rest EXCEPT ![p] = {record}] /\ sole' = sole
         \/ rest' = [rest EXCEPT ![p] = {}] /\ sole' = IF sole = p THEN Nobody ELSE sole
  BY <1>1 DEF record, SoleWithout
<1>6. TypeOK'
  <2>1. /\ audit_log' \in [Procs -> SUBSET Records']
        /\ rest' \in [Procs -> SUBSET Records']
    <3>1. /\ \A q \in Procs : audit_log[q] \subseteq Records' /\ rest[q] \subseteq Records'
          /\ {record} \subseteq Records' /\ {} \subseteq Records'
      BY <1>3 DEF TypeOK
    <3>2. audit_log' \in [Procs -> SUBSET Records']
      BY <3>1, <1>5 DEF TypeOK
    <3>3. rest' = [rest EXCEPT ![p] = {record}] \/ rest' = [rest EXCEPT ![p] = {}]
      BY <1>5
    <3>4. rest \in [Procs -> SUBSET Records']
      BY <3>1 DEF TypeOK
    <3>5. [rest EXCEPT ![p] = {record}] \in [Procs -> SUBSET Records']
      BY <3>1, <3>4
    <3>6. [rest EXCEPT ![p] = {}] \in [Procs -> SUBSET Records']
      BY <3>1, <3>4
    <3> QED
      BY <3>2, <3>3, <3>5, <3>6
  <2>2. file' \in Seq(Records' \union {Hole})
    BY <1>2, <1>3, Known, SeqDef DEF TypeOK
  <2>3. \A q \in Procs :
          /\ rest'[q] \subseteq audit_log'[q]
          /\ \A r \in rest'[q], t \in audit_log'[q] \ rest'[q] : t.id < r.id
    <3> SUFFICES ASSUME NEW q \in Procs
                 PROVE  /\ rest'[q] \subseteq audit_log'[q]
                        /\ \A r \in rest'[q], t \in audit_log'[q] \ rest'[q] : t.id < r.id
      OBVIOUS
    <3>1. CASE q = p
      BY <3>1, <1>2, <1>4, <1>5, Known DEF TypeOK
    <3>2. CASE q # p
      BY <3>2, <1>5 DEF TypeOK
    <3> QED
      BY <3>1, <3>2
  <2>4. offset' \in [Procs -> 0 .. Ends]
    <3>1. Ends \in 0 .. Ends
      BY Known DEF Ends
    <3> QED
      BY <3>1, <1>2 DEF TypeOK
  <2>5. erased' \in [Procs -> [Subjects -> 0 .. logged']]
    <3>1. 0 .. logged \subseteq 0 .. logged'
      BY <1>2, Known
    <3>2. \A q \in Procs : erased[q] \in [Subjects -> 0 .. logged']
      BY <3>1 DEF TypeOK
    <3> QED
      BY <3>2, <1>2 DEF TypeOK
  <2>6. sole' \in Procs \union {Nobody}
    BY <1>5 DEF TypeOK
  <2> QED
    BY <1>2, <1>3, <2>1, <2>2, <2>3, <2>4, <2>5, <2>6 DEF TypeOK
<1>7. Mine'
  <2> SUFFICES ASSUME NEW q \in Procs, NEW r \in audit_log'[q]
               PROVE  /\ r.owner = q /\ r.id > erased[q][r.about]
                      /\ \A t \in audit_log'[q] : t.id = r.id => t = r
    BY <1>2 DEF Mine
  <2>1. CASE q = p
    <3>1. record.id > erased[p][record.about]
      BY <1>4, Known
    <3> QED
      BY <2>1, <3>1, <1>4, <1>5, Known DEF Mine, TypeOK
  <2>2. CASE q # p
    BY <2>2, <1>5 DEF Mine, TypeOK
  <2> QED
    BY <2>1, <2>2
<1>8. /\ Rewriters' \subseteq Rewriters
      /\ \A q \in Rewriters' : q # p /\ rest'[q] = rest[q] /\ offset'[q] = offset[q]
  BY <1>2, <1>5 DEF Rewriters, Idle, TypeOK
<1>9. Ahead'
  <2> SUFFICES ASSUME NEW q \in Procs, NEW r \in rest'[q], NEW i \in DOMAIN file, At(i, q)
               PROVE  file[i].id < r.id
    BY <1>2 DEF Ahead, At
  <2>1. CASE q = p
    <3>1. r = record
      BY <2>1, <1>5 DEF TypeOK
    <3> QED
      BY <3>1, <1>4, Known DEF At
  <2>2. CASE q # p
    BY <2>2, <1>5 DEF Ahead, TypeOK
  <2> QED
    BY <2>1, <2>2
<1>10. Behind'
  BY <1>2, <1>8 DEF Behind, At
<1>11. Sole'
  <2> SUFFICES ASSUME NEW q \in Procs, sole' = q
               PROVE  /\ OnDisk = audit_log'[q] \ rest'[q]
                      /\ q \in Rewriters' => offset'[q] = Len(file)
    BY <1>2 DEF Sole, OnDisk
  <2>1. sole = q /\ (q = p => is_open /\ rest' = [rest EXCEPT ![p] = {record}])
    BY <1>5, TrailAssumption
  <2>2. record \notin audit_log[p]
    BY <1>4, Known
  <2>3. audit_log'[q] \ rest'[q] = audit_log[q] \ rest[q]
    BY <1>2, <1>5, <2>1, <2>2 DEF TypeOK
  <2> QED
    BY <2>1, <2>3, <1>8 DEF Sole
<1>12. OwnErasedStaysOut' /\ SameOwnerInOrder'
  BY <1>2 DEF OwnErasedStaysOut, SameOwnerInOrder, OnDisk
<1> QED
  BY <1>6, <1>7, <1>9, <1>10, <1>11, <1>12

\* What a rewrite needs: what it keeps is a part of the log, without what the
\* call asks to erase.
LEMMA RewriteKeeps ==
    ASSUME IInv, NEW p \in Procs, rest[p] = {},
           NEW kept \in SUBSET audit_log[p], NEW requested \in SUBSET Subjects,
           Rewrite(p, kept, requested),
           \A r \in kept : r.about \notin requested,
           erased' = [erased EXCEPT ![p] =
                        [s \in Subjects |-> IF s \in requested THEN logged ELSE @[s]]],
           logged' = logged
    PROVE  IInv'
<1> USE DEF IInv
<1>1. /\ audit_log' = [audit_log EXCEPT ![p] = kept]
      /\ offset' = offset \/ offset' = [offset EXCEPT ![p] = 0]
      /\ \/ /\ file' = <<>> /\ rest' = [rest EXCEPT ![p] = kept]
            /\ offset' = [offset EXCEPT ![p] = 0] /\ sole' = p
            /\ refused' = [q \in Procs |-> {}]
         \/ /\ sole' = IF sole = p THEN Nobody ELSE sole
            /\ refused' = [refused EXCEPT ![p] = @ \union requested]
            /\ UNCHANGED <<file, rest, offset>>
  BY DEF Rewrite, Truncated, ToWrite, FirstOffset, SoleWithout
<1> HIDE DEF IInv
<1>2. TypeOK /\ Mine /\ Ahead /\ Behind /\ Sole
  BY DEF IInv
<1>3. OwnErasedStaysOut /\ SameOwnerInOrder
  BY DEF IInv
<1>4. Records' = Records
  BY DEF Records
<1>5. kept \subseteq Records /\ \A r \in kept : r.id \in Nat /\ r.id > 0 /\ r.id <= logged
  BY <1>2, Known
<1>6. TypeOK'
  <2>1. audit_log' \in [Procs -> SUBSET Records'] /\ rest' \in [Procs -> SUBSET Records']
    BY <1>1, <1>2, <1>4, <1>5 DEF TypeOK
  <2>2. file' \in Seq(Records' \union {Hole})
    <3>1. <<>> \in Seq(Records \union {Hole}) /\ file \in Seq(Records \union {Hole})
      BY <1>2, EmptySeq DEF TypeOK
    <3> QED
      BY <3>1, <1>1, <1>4
  <2>3. \A q \in Procs :
          /\ rest'[q] \subseteq audit_log'[q]
          /\ \A r \in rest'[q], t \in audit_log'[q] \ rest'[q] : t.id < r.id
    BY <1>1, <1>2 DEF TypeOK
  <2>4. offset' \in [Procs -> 0 .. Ends]
    <3>1. 0 \in 0 .. Ends
      BY TrailAssumption DEF Ends
    <3> QED
      BY <3>1, <1>1, <1>2 DEF TypeOK
  <2>5. erased' \in [Procs -> [Subjects -> 0 .. logged']]
    <3>1. logged \in 0 .. logged
      BY <1>2, Known
    <3>2. [s \in Subjects |-> IF s \in requested THEN logged ELSE erased[p][s]]
            \in [Subjects -> 0 .. logged]
      BY <3>1, <1>2 DEF TypeOK
    <3> QED
      BY <3>2, <1>2 DEF TypeOK
  <2>6. /\ refused' \in [Procs -> SUBSET Subjects]
        /\ sole' \in Procs \union {Nobody}
    BY <1>1, <1>2, <1>4 DEF TypeOK
  <2> QED
    BY <1>2, <2>1, <2>2, <2>3, <2>4, <2>5, <2>6 DEF TypeOK
<1>7. \A q \in Procs, s \in Subjects :
        erased'[q][s] = IF q = p /\ s \in requested THEN logged ELSE erased[q][s]
  BY <1>2 DEF TypeOK
<1>8. Mine'
  <2> SUFFICES ASSUME NEW q \in Procs, NEW r \in audit_log'[q]
               PROVE  /\ r.owner = q /\ r.id > erased'[q][r.about]
                      /\ \A t \in audit_log'[q] : t.id = r.id => t = r
    BY DEF Mine
  <2>1. audit_log'[q] \subseteq audit_log[q] /\ (q = p => r \in kept)
    BY <1>1, <1>2 DEF TypeOK
  <2>2. r.about \in Subjects
    BY <2>1, <1>2, Known DEF Records
  <2>3. r.id > erased'[q][r.about]
    BY <2>1, <2>2, <1>2, <1>7 DEF Mine
  <2> QED
    BY <2>1, <2>3, <1>2 DEF Mine
<1>9. CASE file' = <<>> /\ rest' = [rest EXCEPT ![p] = kept]
           /\ offset' = [offset EXCEPT ![p] = 0] /\ sole' = p
  <2>1. DOMAIN file' = {} /\ OnDisk' = {} /\ Len(file') = 0
    BY <1>9 DEF OnDisk
  <2>2. Ahead' /\ OwnErasedStaysOut' /\ SameOwnerInOrder'
    BY <1>9, <2>1 DEF Ahead, OwnErasedStaysOut, SameOwnerInOrder
  <2>3. Behind'
    <3> SUFFICES ASSUME NEW q \in Rewriters', NEW r \in rest'[q]
                 PROVE  offset'[q] < r.id
      BY <2>1 DEF Behind
    <3>1. CASE q = p
      BY <3>1, <1>2, <1>5, <1>9 DEF TypeOK
    <3>2. CASE q # p
      <4>1. q \in Rewriters /\ rest'[q] = rest[q] /\ offset'[q] = offset[q]
        BY <3>2, <1>2, <1>9 DEF Rewriters, Idle, TypeOK
      <4> QED
        BY <4>1, <1>2 DEF Behind
    <3> QED
      BY <3>1, <3>2
  <2>4. Sole'
    <3>1. audit_log'[p] \ rest'[p] = {} /\ offset'[p] = 0
      BY <1>1, <1>2, <1>9 DEF TypeOK
    <3> QED
      BY <3>1, <2>1, <1>9 DEF Sole
  <2> QED
    BY <1>6, <1>8, <2>2, <2>3, <2>4 DEF IInv
<1>10. CASE /\ sole' = IF sole = p THEN Nobody ELSE sole
            /\ refused' = [refused EXCEPT ![p] = @ \union requested]
            /\ UNCHANGED <<file, rest, offset>>
  <2>1. Rewriters' = Rewriters /\ OnDisk' = OnDisk
    BY <1>10 DEF Rewriters, Idle, OnDisk
  <2>2. Ahead' /\ Behind' /\ SameOwnerInOrder'
    BY <1>2, <1>3, <1>10, <2>1
    DEF Ahead, Behind, At, SameOwnerInOrder
  <2>3. Sole'
    <3> SUFFICES ASSUME NEW q \in Procs, sole' = q
                 PROVE  /\ OnDisk = audit_log'[q] \ rest[q]
                        /\ q \in Rewriters => offset[q] = Len(file)
      BY <1>10, <2>1 DEF Sole
    <3>1. q # p /\ sole = q
      BY <1>10, TrailAssumption
    <3> QED
      BY <3>1, <1>1, <1>2 DEF Sole, TypeOK
  <2>4. OwnErasedStaysOut'
    <3> SUFFICES ASSUME NEW r \in OnDisk, r # Hole
                 PROVE  r.id > erased'[r.owner][r.about] \/ r.about \in refused'[r.owner]
      BY <2>1 DEF OwnErasedStaysOut
    <3>1. r \in Records /\ r.owner \in Procs /\ r.about \in Subjects
      BY <1>2, Known DEF OnDisk, Records
    <3>2. refused[r.owner] \subseteq refused'[r.owner]
          /\ (r.owner = p => requested \subseteq refused'[r.owner])
      BY <3>1, <1>2, <1>10 DEF TypeOK
    <3> QED
      BY <3>1, <3>2, <1>3, <1>7 DEF OwnErasedStaysOut
  <2> QED
    BY <1>6, <1>8, <2>2, <2>3, <2>4 DEF IInv
<1> QED
  BY <1>1, <1>9, <1>10

LEMMA WriteKeeps ==
    ASSUME IInv, NEW p \in Procs, Write(p)
    PROVE  IInv'
<1>1. TypeOK /\ Mine /\ Ahead /\ Behind /\ Sole
  BY DEF IInv
<1>2. OwnErasedStaysOut /\ SameOwnerInOrder
  BY DEF IInv
<1>3. PICK record : record = First(rest[p])
  OBVIOUS
<1>4. /\ record \in rest[p] /\ record \in audit_log[p] /\ record \in Records /\ record.owner = p
      /\ record.id \in Nat /\ record.id > 0 /\ record.id <= logged
      /\ record.id > erased[p][record.about]
      /\ \A r \in rest[p] : r # record => record.id < r.id
  <2>1. rest[p] # {} /\ \A r \in rest[p] : r \in audit_log[p] /\ r.id \in Nat
    BY <1>1, Known DEF Write, Idle
  <2>2. record \in rest[p] /\ \A r \in rest[p] : record.id <= r.id
    BY <1>3, <2>1, FirstIsLeast
  <2> QED
    BY <1>1, <2>1, <2>2, Known DEF Mine
<1> DEFINE n == IF offset[p] = Ends THEN Len(file) + 1 ELSE offset[p] + 1
<1>5. /\ file' = Put(record, n)
      /\ rest' = [rest EXCEPT ![p] = @ \ {record}]
      /\ sole' = IF sole = p THEN p ELSE Nobody
      /\ UNCHANGED <<audit_log, logged, erased, refused>>
      /\ IF offset[p] = Ends
         THEN offset' = offset
         ELSE offset' = [offset EXCEPT ![p] = @ + 1]
  BY <1>3 DEF Write, PlaceOfAppend
<1>6. n \in Nat /\ n > 0 /\ Len(file) \in Nat /\ DOMAIN file = 1 .. Len(file) /\ offset[p] \in Nat
  BY <1>1, Known
<1>7. /\ file' \in Seq(Records \union {Hole})
      /\ Len(file') = IF n > Len(file) THEN n ELSE Len(file)
      /\ n \in DOMAIN file' /\ file'[n] = record
      /\ \A i \in DOMAIN file : i # n => i \in DOMAIN file' /\ file'[i] = file[i]
      /\ \A i \in DOMAIN file' : i = n \/ i \in DOMAIN file \/ file'[i] = Hole
  <2>1. n \in Nat /\ n > 0 /\ record \in Records /\ TypeOK
    BY <1>1, <1>4, <1>6
  <2>2. file' = Put(record, n)
    BY <1>5
  <2> HIDE DEF n
  <2>3. /\ Put(record, n) \in Seq(Records \union {Hole})
        /\ Len(Put(record, n)) = IF n > Len(file) THEN n ELSE Len(file)
        /\ n \in DOMAIN Put(record, n) /\ Put(record, n)[n] = record
        /\ \A i \in DOMAIN file :
              i # n => i \in DOMAIN Put(record, n) /\ Put(record, n)[i] = file[i]
        /\ \A i \in DOMAIN Put(record, n) :
              i = n \/ i \in DOMAIN file \/ Put(record, n)[i] = Hole
    BY <2>1, PutShape
  <2> QED
    BY <2>2, <2>3
<1>8. \A q \in Procs, i \in DOMAIN file' : At(i, q)' =>
        \/ i = n /\ q = p /\ file'[i] = record
        \/ i # n /\ At(i, q) /\ file'[i] = file[i]
  BY <1>4, <1>7 DEF At
<1>9. /\ offset[p] = Ends => \A i \in DOMAIN file : i < n
      /\ offset[p] # Ends => /\ p \in Rewriters /\ n = offset[p] + 1 /\ n <= record.id
                             /\ offset' = [offset EXCEPT ![p] = n]
  BY <1>1, <1>4, <1>5, <1>6 DEF Behind, Rewriters, Idle
<1> HIDE DEF n
<1>10. \A q \in Rewriters' :
         q \in Rewriters /\ (q # p => rest'[q] = rest[q] /\ offset'[q] = offset[q])
  BY <1>1, <1>4, <1>5, <1>9 DEF Rewriters, Idle, TypeOK
<1>11. TypeOK'
  <2>1. Records' = Records
    BY <1>5 DEF Records
  <2>2. rest' \in [Procs -> SUBSET Records']
    BY <1>1, <1>5, <2>1 DEF TypeOK
  <2>3. \A q \in Procs :
          /\ rest'[q] \subseteq audit_log'[q]
          /\ \A r \in rest'[q], t \in audit_log'[q] \ rest'[q] : t.id < r.id
    BY <1>1, <1>4, <1>5 DEF TypeOK
  <2>4. offset' \in [Procs -> 0 .. Ends]
    <3>1. offset[p] # Ends => n \in 0 .. Ends
      BY <1>1, <1>4, <1>6, <1>9, TrailAssumption DEF Ends, TypeOK
    <3> QED
      BY <3>1, <1>1, <1>5, <1>9 DEF TypeOK
  <2>5. sole' \in Procs \union {Nobody}
    BY <1>1, <1>4, <1>5, <2>1 DEF TypeOK
  <2>6. file' \in Seq(Records' \union {Hole})
    BY <1>7, <2>1
  <2> QED
    BY <1>1, <1>5, <2>1, <2>2, <2>3, <2>4, <2>5, <2>6 DEF TypeOK
<1>12. Mine'
  BY <1>1, <1>5 DEF Mine
<1>13. Ahead'
  <2> SUFFICES ASSUME NEW q \in Procs, NEW r \in rest'[q], NEW i \in DOMAIN file', At(i, q)'
               PROVE  file'[i].id < r.id
    BY DEF Ahead
  <2>1. r \in rest[q] /\ (q = p => r # record)
    BY <1>1, <1>5 DEF TypeOK
  <2>2. CASE i = n /\ q = p /\ file'[i] = record
    BY <2>1, <2>2, <1>4
  <2>3. CASE i # n /\ At(i, q) /\ file'[i] = file[i]
    BY <2>1, <2>3, <1>1 DEF Ahead, At
  <2> QED
    BY <1>8, <2>2, <2>3
<1>14. Behind'
  <2> SUFFICES ASSUME NEW q \in Rewriters'
               PROVE  /\ \A i \in DOMAIN file' : At(i, q)' => i <= offset'[q]
                      /\ \A r \in rest'[q] : offset'[q] < r.id
    BY DEF Behind
  <2>1. CASE q = p
    <3>1. offset[p] # Ends
      BY <2>1, <1>10 DEF Rewriters
    <3>2. offset'[p] = n /\ n = offset[p] + 1 /\ n <= record.id
      BY <3>1, <1>1, <1>9 DEF TypeOK
    <3>3. \A r \in rest'[p] : r \in rest[p] /\ r # record /\ r.id \in Nat
      BY <1>1, <1>5, Known DEF TypeOK
    <3>4. \A r \in rest'[p] : n < r.id
      BY <3>2, <3>3, <1>4, <1>6
    <3>5. \A i \in DOMAIN file' : At(i, p)' => i <= n
      <4> SUFFICES ASSUME NEW i \in DOMAIN file', At(i, p)' PROVE i <= n
        OBVIOUS
      <4>1. CASE i = n
        BY <4>1, <1>6
      <4>2. CASE At(i, p)
        BY <4>2, <3>1, <3>2, <1>1, <1>6, <1>9 DEF Behind, At
      <4> QED
        BY <4>1, <4>2, <1>8
    <3> QED
      BY <2>1, <3>2, <3>4, <3>5
  <2>2. CASE q # p
    <3>1. q \in Rewriters /\ q \in Procs /\ rest'[q] = rest[q] /\ offset'[q] = offset[q]
      BY <2>2, <1>10 DEF Rewriters
    <3> QED
      BY <2>2, <3>1, <1>1, <1>8 DEF Behind, At
  <2> QED
    BY <2>1, <2>2
<1>15. Sole'
  <2> SUFFICES ASSUME sole = p, sole' = p
               PROVE  /\ OnDisk' = audit_log[p] \ rest'[p]
                      /\ p \in Rewriters' => offset'[p] = Len(file')
    BY <1>5, TrailAssumption DEF Sole
  <2>1. n = Len(file) + 1
    BY <1>1, <1>9 DEF n, Sole
  <2>2. DOMAIN file' = 1 .. n /\ Len(file') = n
    BY <2>1, <1>6, <1>7, LenProperties
  <2>3. OnDisk' = OnDisk \union {record}
    <3>1. \A i \in 1 .. n : i = n \/ i \in DOMAIN file
      BY <2>1, <1>6
    <3>2. \A i \in DOMAIN file : i \in DOMAIN file' /\ file'[i] = file[i]
      BY <2>1, <1>6, <1>7
    <3> QED
      BY <2>2, <3>1, <3>2, <1>7 DEF OnDisk
  <2>4. audit_log[p] \ rest'[p] = (audit_log[p] \ rest[p]) \union {record}
    BY <1>1, <1>4, <1>5 DEF TypeOK
  <2>5. p \in Rewriters' => offset'[p] = n
    BY <1>1, <1>9, <1>10 DEF Rewriters, TypeOK
  <2> QED
    BY <2>2, <2>3, <2>4, <2>5, <1>1 DEF Sole
<1>16. OwnErasedStaysOut'
  BY <1>2, <1>4, <1>5, <1>7 DEF OwnErasedStaysOut, OnDisk
<1>17. SameOwnerInOrder'
  <2> SUFFICES ASSUME NEW i \in DOMAIN file', NEW j \in DOMAIN file', i < j, NEW q,
                      file'[i] # Hole, file'[i].owner = q, file'[j] # Hole, file'[j].owner = q
               PROVE  file'[i].id < file'[j].id
    BY DEF SameOwnerInOrder
  <2>1. q \in Procs
    BY <1>7, <1>11, Known, ElementOfSeq DEF Records
  <2>2. /\ (i = n /\ q = p /\ file'[i] = record) \/ (i # n /\ At(i, q) /\ file'[i] = file[i])
        /\ (j = n /\ q = p /\ file'[j] = record) \/ (j # n /\ At(j, q) /\ file'[j] = file[j])
    BY <2>1, <1>8 DEF At
  <2>3. CASE At(i, q) /\ At(j, q) /\ file'[i] = file[i] /\ file'[j] = file[j]
    BY <2>3, <1>2 DEF SameOwnerInOrder, At
  <2>4. CASE At(i, p) /\ file'[i] = file[i] /\ file'[j] = record
    BY <2>4, <1>1, <1>4 DEF Ahead, At
  <2>5. CASE i = n /\ At(j, p)
    BY <2>5, <1>1, <1>6, <1>9 DEF Behind, At
  <2>6. DOMAIN file' \subseteq Nat
    BY <1>7, LenProperties
  <2> QED
    BY <2>2, <2>3, <2>4, <2>5, <2>6
<1> QED
  BY <1>11, <1>12, <1>13, <1>14, <1>15, <1>16, <1>17 DEF IInv

\* What a write hits: an append nothing, a rewrite records of others.
LEMMA WriteHits ==
    ASSUME IInv, NEW p \in Procs, Write(p), NEW r \in OnDisk \ OnDisk', r # Hole
    PROVE  p \in Rewriters /\ rest'[p] # rest[p] /\ r.owner # p
<1>1. TypeOK /\ Mine /\ Behind
  BY DEF IInv
<1> DEFINE record == First(rest[p])
           n == IF offset[p] = Ends THEN Len(file) + 1 ELSE offset[p] + 1
<1>2. record \in rest[p] /\ record \in Records
  <2>1. rest[p] # {} /\ \A q \in rest[p] : q \in Records /\ q.id \in Nat
    BY <1>1, Known DEF Write, Idle
  <2> QED
    BY <2>1, FirstIsLeast
<1>3. n \in Nat /\ n > 0 /\ DOMAIN file = 1 .. Len(file) /\ Len(file) \in Nat
  BY <1>1, Known
<1>4. file' = Put(record, n) /\ rest' = [rest EXCEPT ![p] = @ \ {record}]
  BY DEF Write, PlaceOfAppend
<1>5. rest'[p] # rest[p]
  BY <1>1, <1>2, <1>4 DEF TypeOK
<1>6. PICK i \in DOMAIN file : file[i] = r
  BY DEF OnDisk
<1>7. i = n
  <2> HIDE DEF record, n
  <2>1. i # n => i \in DOMAIN file' /\ file'[i] = file[i]
    BY <1>1, <1>2, <1>3, <1>4, PutShape
  <2> QED
    BY <2>1, <1>6 DEF OnDisk
<1>8. offset[p] # Ends
  BY <1>3, <1>6, <1>7
<1>9. p \in Rewriters
  BY <1>8 DEF Rewriters, Write
<1>10. r.owner # p
  <2>1. ~ At(i, p)
    BY <1>1, <1>3, <1>7, <1>8, <1>9, Known DEF Behind
  <2> QED
    BY <2>1, <1>6 DEF At
<1> QED
  BY <1>5, <1>9, <1>10

LEMMA EndKeeps ==
    ASSUME IInv, NEW p \in Procs, EndProcess(p)
    PROVE  IInv'
<1>1. TypeOK /\ Mine /\ Ahead /\ Behind /\ Sole
  BY DEF IInv
<1>2. OwnErasedStaysOut /\ SameOwnerInOrder
  BY DEF IInv
<1>3. /\ audit_log' = [audit_log EXCEPT ![p] = {}] /\ rest' = [rest EXCEPT ![p] = {}]
      /\ sole' = IF sole = p THEN Nobody ELSE sole
      /\ UNCHANGED <<file, offset, logged, erased, refused>>
  BY DEF EndProcess, SoleWithout
<1>4. Records' = Records /\ OnDisk' = OnDisk
  BY <1>3 DEF Records, OnDisk
<1>5. \A q \in Procs : /\ audit_log'[q] = IF q = p THEN {} ELSE audit_log[q]
                       /\ rest'[q] = IF q = p THEN {} ELSE rest[q]
  BY <1>1, <1>3 DEF TypeOK
<1>6. \A q \in Rewriters' : q # p /\ q \in Rewriters
  BY <1>3, <1>5 DEF Rewriters, Idle
<1>7. TypeOK'
  <2>1. audit_log' \in [Procs -> SUBSET Records'] /\ rest' \in [Procs -> SUBSET Records']
    BY <1>1, <1>3, <1>4 DEF TypeOK
  <2> QED
    BY <2>1, <1>1, <1>3, <1>4, <1>5 DEF TypeOK
<1>8. Mine' /\ Ahead'
  BY <1>1, <1>3, <1>5 DEF Mine, Ahead, At
<1>9. Behind'
  <2> SUFFICES ASSUME NEW q \in Rewriters'
               PROVE  /\ \A i \in DOMAIN file : At(i, q) => i <= offset[q]
                      /\ \A r \in rest'[q] : offset[q] < r.id
    BY <1>3 DEF Behind, At
  <2>1. q \in Procs /\ q \in Rewriters /\ rest'[q] = rest[q]
    BY <1>5, <1>6 DEF Rewriters
  <2> QED
    BY <2>1, <1>1 DEF Behind
<1>10. OwnErasedStaysOut' /\ SameOwnerInOrder'
  BY <1>1, <1>2, <1>3, <1>4, <1>6
  DEF OwnErasedStaysOut, SameOwnerInOrder
<1>11. Sole'
  <2> SUFFICES ASSUME NEW q \in Procs, sole' = q
               PROVE  /\ OnDisk = audit_log'[q] \ rest'[q]
                      /\ q \in Rewriters' => offset[q] = Len(file)
    BY <1>3, <1>4 DEF Sole
  <2>1. q # p /\ sole = q
    BY <1>3, TrailAssumption
  <2> QED
    BY <2>1, <1>1, <1>5, <1>6 DEF Sole
<1> QED
  BY <1>7, <1>8, <1>9, <1>10, <1>11 DEF IInv

LEMMA StutterKeeps ==
    ASSUME IInv, UNCHANGED vars
    PROVE  IInv'
<1>1. /\ UNCHANGED <<audit_log, file, rest, offset, logged, erased, refused, sole>>
      /\ Records' = Records /\ OnDisk' = OnDisk /\ Rewriters' = Rewriters
  BY DEF vars, Records, OnDisk, Rewriters, Idle
<1>2. TypeOK'
  BY <1>1 DEF IInv, TypeOK
<1>3. Mine' /\ Ahead' /\ Behind'
  BY <1>1 DEF IInv, Mine, Ahead, Behind, At
<1>4. Sole' /\ OwnErasedStaysOut' /\ SameOwnerInOrder'
  BY <1>1 DEF IInv, Sole, OwnErasedStaysOut, SameOwnerInOrder
<1> QED
  BY <1>2, <1>3, <1>4 DEF IInv

-----------------------------------------------------------------------------
(***************************************************************************)
(* The invariant holds, whatever the processes do to the file at the same  *)
(* time, whether or not it can be opened, and wherever they die.           *)
(***************************************************************************)
THEOREM TrailFileInvariant == Spec => []IInv
<1>1. IInv /\ [Next]_vars => IInv'
  <2> SUFFICES ASSUME IInv, [Next]_vars PROVE IInv'
    OBVIOUS
  <2>1. CASE UNCHANGED vars
    BY <2>1, StutterKeeps
  <2>2. ASSUME NEW p \in Procs, logged < MaxRecords, Log(p) PROVE IInv'
    BY <2>2, LogKeeps
  <2>3. ASSUME NEW p \in Procs, NEW s \in Subjects, execute_dsr_deletion(p, s) PROVE IInv'
    <3> DEFINE kept == {r \in audit_log[p] : ~ Mentions(r, s)}
    <3>1. /\ rest[p] = {} /\ Rewrite(p, kept, {s}) /\ logged' = logged
          /\ erased' = [erased EXCEPT ![p][s] = logged]
      BY <2>3 DEF execute_dsr_deletion, Idle
    <3>2. \A r \in kept : r.about \notin {s}
      BY DEF Mentions
    <3>3. erased[p] \in [Subjects -> 0 .. logged]
      BY DEF IInv, TypeOK
    <3>4. erased' = [erased EXCEPT ![p] =
                       [t \in Subjects |-> IF t \in {s} THEN logged ELSE @[t]]]
      BY <3>1, <3>3
    <3>5. kept \in SUBSET audit_log[p] /\ {s} \in SUBSET Subjects
      OBVIOUS
    <3> HIDE DEF kept
    <3> QED
      BY <3>1, <3>2, <3>4, <3>5, RewriteKeeps
  <2>4. ASSUME NEW p \in Procs, enforce_data_retention_policy(p) PROVE IInv'
    <3> DEFINE kept == audit_log[p] \ Oldest(p)
    <3>1. /\ rest[p] = {} /\ Rewrite(p, kept, {}) /\ logged' = logged /\ erased' = erased
      BY <2>4 DEF enforce_data_retention_policy, Idle
    <3>2. erased \in [Procs -> [Subjects -> 0 .. logged]]
      BY DEF IInv, TypeOK
    <3>3. erased' = [erased EXCEPT ![p] =
                       [t \in Subjects |-> IF t \in {} THEN logged ELSE @[t]]]
      BY <3>1, <3>2
    <3>4. kept \in SUBSET audit_log[p] /\ {} \in SUBSET Subjects
          /\ \A r \in kept : r.about \notin {}
      OBVIOUS
    <3> HIDE DEF kept
    <3> QED
      BY <3>1, <3>3, <3>4, RewriteKeeps
  <2>5. ASSUME NEW p \in Procs, Write(p) PROVE IInv'
    BY <2>5, WriteKeeps
  <2>6. ASSUME NEW p \in Procs, EndProcess(p) PROVE IInv'
    BY <2>6, EndKeeps
  <2> QED
    BY <2>1, <2>2, <2>3, <2>4, <2>5, <2>6 DEF Next
<1> QED
  BY <1>1, InitIInv, PTL DEF Spec

(***************************************************************************)
(* The file is made of whole records and holes, and what a process has yet *)
(* to write is the end of its log.                                         *)
(***************************************************************************)
THEOREM TrailFileTypes == Spec => []TypeOK
<1>1. IInv => TypeOK
  BY DEF IInv
<1> QED
  BY <1>1, TrailFileInvariant, PTL

(***************************************************************************)
(* What a process has erased stays out of the file under its name, unless  *)
(* the file could not be opened.                                           *)
(***************************************************************************)
THEOREM OwnErasedStaysOutHolds == Spec => []OwnErasedStaysOut
<1>1. IInv => OwnErasedStaysOut
  BY DEF IInv
<1> QED
  BY <1>1, TrailFileInvariant, PTL

(***************************************************************************)
(* The records of one process are in the file once each and in their       *)
(* order, however rewrites and appends of others fall between its writes.  *)
(***************************************************************************)
THEOREM SameOwnerInOrderHolds == Spec => []SameOwnerInOrder
<1>1. IInv => SameOwnerInOrder
  BY DEF IInv
<1> QED
  BY <1>1, TrailFileInvariant, PTL

(***************************************************************************)
(* A record leaves the file only when the file is emptied, or under a      *)
(* write of a rewrite by a process that has not logged it.                 *)
(***************************************************************************)
THEOREM LossesAreOthersHolds == Spec => LossesAreOthers
<1>1. IInv /\ [Next]_vars =>
        [\A r \in OnDisk \ OnDisk' : r # Hole =>
            \/ file' = <<>>
            \/ \E p \in Rewriters : rest'[p] # rest[p] /\ r.owner # p]_vars
  <2> SUFFICES ASSUME IInv, Next, NEW r \in OnDisk \ OnDisk', r # Hole, file' # <<>>
               PROVE  \E p \in Rewriters : rest'[p] # rest[p] /\ r.owner # p
    OBVIOUS
  <2>1. PICK p \in Procs : Write(p)
    <3>1. file' # file
      BY DEF OnDisk
    <3> QED
      BY <3>1 DEF Next, Log, execute_dsr_deletion, enforce_data_retention_policy, Rewrite,
                  Truncated, EndProcess
  <2> QED
    BY <2>1, WriteHits
<1> QED
  BY <1>1, TrailFileInvariant, PTL DEF Spec, LossesAreOthers

(***************************************************************************)
(* The file is the log of the process that truncated it last, as long as   *)
(* nobody else writes and it is not in the middle of a call.               *)
(***************************************************************************)
THEOREM AloneFileIsLogHolds == Spec => []AloneFileIsLog
<1>1. IInv => AloneFileIsLog
  BY DEF IInv, Sole, AloneFileIsLog, Idle
<1> QED
  BY <1>1, TrailFileInvariant, PTL
=============================================================================
