------------------------------ MODULE TrailFile ------------------------------
(***************************************************************************)
(* How compliance.cpp writes privacy_audit_trail.txt: where in the file a  *)
(* write lands, and what it lands on.  Compliance leaves this open and has *)
(* the calls in full; here a step is one system call, so that the calls of *)
(* several processes overlap and a process can die in the middle of one.   *)
(*                                                                         *)
(* std::endl flushes, so a record is one write.  A file opened with app    *)
(* (:17) is written at its end, wherever that is; a file opened with trunc *)
(* (:117, :207) is emptied and then written where the last write of the    *)
(* same process ended, whatever the others have done to it meanwhile.      *)
(*                                                                         *)
(* All records have the same length: the file is a sequence of records and *)
(* of holes, where the kernel puts '\0' if a write starts behind the end.  *)
(* As in Compliance a log in memory is the set of its records, and their   *)
(* ids give the order.                                                     *)
(***************************************************************************)
EXTENDS Naturals, Sequences, FiniteSets

CONSTANTS
    Procs,
    Subjects,        \* what records mention and erasures name
    RetentionLimit,  \* 50 in compliance.cpp:203
    RetentionBatch,  \* 10 in compliance.cpp:204
    OpenOutcomes,    \* what file.is_open() may answer
    MaxRecords       \* bound on the records logged

Nobody == "nobody"

ASSUME TrailAssumption ==
    /\ Nobody \notin Procs
    /\ RetentionLimit \in Nat /\ RetentionBatch \in 0 .. RetentionLimit
    /\ OpenOutcomes \subseteq BOOLEAN /\ MaxRecords \in Nat

VARIABLES
    audit_log,   \* the records in the memory of each process
    file,        \* the records and holes in the file
    rest,        \* what each process has yet to write in its call
    offset,      \* how much it has written since it opened the file with trunc;
                 \* Ends if it opened it with app
    \* history, for the properties only:
    logged,      \* the number of records logged
    erased,      \* [Procs -> [Subjects -> logged at the last erasure]]
    refused,     \* the subjects each process erased without opening the file
    sole         \* who truncated the file last, if nobody else has written it

vars == <<audit_log, file, rest, offset, logged, erased, refused, sole>>

Hole   == [id |-> 0]
Ends   == MaxRecords + 1

Init ==
    /\ audit_log = [p \in Procs |-> {}]
    /\ file = <<>>
    /\ rest = [p \in Procs |-> {}]
    /\ offset = [p \in Procs |-> 0]
    /\ logged = 0
    /\ erased = [p \in Procs |-> [s \in Subjects |-> 0]]
    /\ refused = [p \in Procs |-> {}]
    /\ sole = Nobody

Idle(p) == rest[p] = {}

\* What is left of sole when p's log is not in the file any more.
SoleWithout(p) == IF sole = p THEN Nobody ELSE sole

-----------------------------------------------------------------------------
\* log_audit_event: push_back, and open with app.
Log(p) ==
    /\ Idle(p)
    /\ \E s \in Subjects, is_open \in OpenOutcomes :
          LET record == [id |-> logged + 1, owner |-> p, about |-> s] IN
          /\ audit_log' = [audit_log EXCEPT ![p] = @ \union {record}]
          /\ rest' = [rest EXCEPT ![p] = IF is_open THEN {record} ELSE {}]
          /\ sole' = IF is_open THEN sole ELSE SoleWithout(p)
    /\ offset' = [offset EXCEPT ![p] = Ends]
    /\ logged' = logged + 1
    /\ UNCHANGED <<file, erased, refused>>

\* Mutants, here and below: what the definition that follows must not be.
\* The file is not emptied.
Truncated_Not == file

Truncated == <<>>

\* The log is written as it was before the call.
ToWrite_Before(p, kept) == audit_log[p]

ToWrite(p, kept) == kept

\* The offset of the last rewrite is used again.
FirstOffset_Last(p) == IF offset[p] = Ends THEN 0 ELSE offset[p]

FirstOffset(p) == 0

\* p keeps the records of its log that kept says, opens the file with trunc
\* and is going to write them.
Rewrite(p, kept, requested) ==
    /\ audit_log' = [audit_log EXCEPT ![p] = kept]
    /\ \E is_open \in OpenOutcomes :
          IF is_open
          THEN /\ file' = Truncated
               /\ rest' = [rest EXCEPT ![p] = ToWrite(p, kept)]
               /\ offset' = [offset EXCEPT ![p] = FirstOffset(p)]
               /\ sole' = p
               /\ refused' = [q \in Procs |-> {}]
          ELSE /\ sole' = SoleWithout(p)
               /\ refused' = [refused EXCEPT ![p] = @ \union requested]
               /\ UNCHANGED <<file, rest, offset>>

Mentions(record, subject_id) == record.about = subject_id

execute_dsr_deletion(p, subject_id) ==
    /\ Idle(p)
    /\ Rewrite(p, {r \in audit_log[p] : ~ Mentions(r, subject_id)}, {subject_id})
    /\ erased' = [erased EXCEPT ![p][subject_id] = logged]
    /\ UNCHANGED logged

Oldest(p) ==
    {r \in audit_log[p] : Cardinality({q \in audit_log[p] : q.id < r.id}) < RetentionBatch}

enforce_data_retention_policy(p) ==
    /\ Idle(p)
    /\ Cardinality(audit_log[p]) > RetentionLimit
    /\ Rewrite(p, audit_log[p] \ Oldest(p), {})
    /\ UNCHANGED <<logged, erased>>

\* A write of record at place n of the file.
Put(record, n) ==
    [i \in 1 .. (IF n > Len(file) THEN n ELSE Len(file)) |->
        IF i = n THEN record ELSE IF i <= Len(file) THEN file[i] ELSE Hole]

\* The file is opened without app.
PlaceOfAppend_Start == 1

PlaceOfAppend == Len(file) + 1

First(records) == CHOOSE r \in records : \A q \in records : r.id <= q.id

\* write: one record of an append or of a rewrite.
Write(p) ==
    /\ ~ Idle(p)
    /\ LET record == First(rest[p]) IN
       /\ rest' = [rest EXCEPT ![p] = @ \ {record}]
       /\ IF offset[p] = Ends
          THEN /\ file' = Put(record, PlaceOfAppend)
               /\ UNCHANGED offset
          ELSE /\ file' = Put(record, offset[p] + 1)
               /\ offset' = [offset EXCEPT ![p] = @ + 1]
    /\ sole' = IF sole = p THEN p ELSE Nobody
    /\ UNCHANGED <<audit_log, logged, erased, refused>>

\* The process ends, wherever it is; the next one starts with an empty log.
EndProcess(p) ==
    /\ audit_log' = [audit_log EXCEPT ![p] = {}]
    /\ rest' = [rest EXCEPT ![p] = {}]
    /\ sole' = SoleWithout(p)
    /\ UNCHANGED <<file, offset, logged, erased, refused>>

Next == \E p \in Procs :
    \/ logged < MaxRecords /\ Log(p)
    \/ \E s \in Subjects : execute_dsr_deletion(p, s)
    \/ enforce_data_retention_policy(p)
    \/ Write(p)
    \/ EndProcess(p)

Spec == Init /\ [][Next]_vars

-----------------------------------------------------------------------------
Records == [id : 1 .. logged, owner : Procs, about : Subjects]
OnDisk  == {file[i] : i \in DOMAIN file}

\* Those in the middle of a rewrite.
Rewriters == {p \in Procs : ~ Idle(p) /\ offset[p] # Ends}

\* The variables have the shapes their declarations give, and what a process
\* has yet to write is the end of its log.
TypeOK ==
    /\ audit_log \in [Procs -> SUBSET Records]
    /\ rest \in [Procs -> SUBSET Records]
    /\ file \in Seq(Records \union {Hole})
    /\ \A p \in Procs :
          /\ rest[p] \subseteq audit_log[p]
          /\ \A r \in rest[p], q \in audit_log[p] \ rest[p] : q.id < r.id
    /\ offset \in [Procs -> 0 .. Ends]
    /\ logged \in 0 .. MaxRecords
    /\ erased \in [Procs -> [Subjects -> 0 .. logged]]
    /\ refused \in [Procs -> SUBSET Subjects]
    /\ sole \in Procs \union {Nobody}

\* However calls overlap and processes die, what a process has erased is not
\* on disk again under its name, except if the file could not be opened, of
\* which execute_dsr_deletion tells nobody (compliance.cpp:116-133).
OwnErasedStaysOut ==
    \A r \in OnDisk : r # Hole =>
        r.id > erased[r.owner][r.about] \/ r.about \in refused[r.owner]

\* The records of one process are in the file once each and in the order in
\* which they were logged, even where a rewrite of it and the calls of others
\* got in each other's way (compliance.cpp:17, :117).
SameOwnerInOrder ==
    \A i, j \in DOMAIN file :
        i < j /\ file[i] # Hole /\ file[j] # Hole /\ file[i].owner = file[j].owner =>
            file[i].id < file[j].id

\* A record leaves the file only when a process empties it, or under a write of
\* a rewrite by a process that has not logged it: an append overwrites nothing,
\* and nobody overwrites records of its own, wherever the others have moved the
\* end of the file (compliance.cpp:17, :117-130).  Compliance!WriteRecord
\* supposes this.
LossesAreOthers ==
    [][\A r \in OnDisk \ OnDisk' : r # Hole =>
          \/ file' = <<>>
          \/ \E p \in Rewriters : rest'[p] # rest[p] /\ r.owner # p]_vars

\* If nobody else has written since a process truncated the file, and it is not
\* in the middle of a call, the file holds its log and no holes: a rewrite that
\* nobody disturbs does what it is meant to do (compliance.cpp:116-131).
AloneFileIsLog == \A p \in Procs : sole = p /\ Idle(p) => OnDisk = audit_log[p]
=============================================================================
