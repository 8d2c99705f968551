----------------------------- MODULE Compliance -----------------------------
(***************************************************************************)
(* The compliance engine of src/compliance.cpp, as run by several          *)
(* processes in one directory: each keeps its own audit_log in memory and  *)
(* all of them write the one file privacy_audit_trail.txt, which nobody    *)
(* ever reads back.                                                        *)
(*                                                                         *)
(* A log is a set of records; id, the number of the call that created the  *)
(* record, is its place in the vector.  "at" is the call that last wrote   *)
(* the details, and owner the process that logged the record.  details is  *)
(* a sequence of texts, the pieces main.cpp concatenates.                  *)
(*                                                                         *)
(* Nothing is locked.  An append is one write at the end of the file and   *)
(* one step, the memory it changes before being seen by nobody else.  A    *)
(* rewrite is one step to open the file with trunc and one for each        *)
(* flushed write; the others append and rewrite in between, and a process  *)
(* can be killed there.  Where in the file a record is written is left to  *)
(* TrailFile: here a write of a rewrite may hit any records that others    *)
(* have written since the file was opened, but none of its own.            *)
(***************************************************************************)
EXTENDS Integers, Sequences, FiniteSets, FiniteSetsExt

CONSTANTS
    Procs,           \* the processes that run the console
    Searches,        \* what an operator may search for: subjects, fields
    Occurs(_, _),    \* Occurs(x, t): std::string::find finds x in text t
    RetentionLimit,  \* 50 in compliance.cpp:203
    RetentionBatch,  \* 10 in compliance.cpp:204
    OpenOutcomes     \* what file.is_open() may answer

ASSUME RetentionAssumption ==
    /\ RetentionLimit \in Nat
    /\ RetentionBatch \in Nat
    /\ RetentionBatch <= RetentionLimit
ASSUME OpenAssumption == OpenOutcomes \subseteq BOOLEAN

VARIABLES
    audit_log,   \* [Procs -> set of records], ComplianceEngine::audit_log
    trail,       \* the records in privacy_audit_trail.txt
    rest,        \* [Procs -> the records its rewrite has yet to write]
    clock,       \* the number of calls made so far
    \* history, for the properties only:
    started,     \* [Procs -> the clock when the running process started]
    erased,      \* [Procs -> [Searches -> clock of its last erasure of it]]
    rewritten,   \* who opened the file with trunc last, and when
    rewrote,     \* [Procs -> the clock at the last write of a rewrite]
    exposed      \* the ids written since then while another rewrote the file

logVars  == <<audit_log, started, erased>>
fileVars == <<trail, rest, rewritten, rewrote, exposed>>
complianceVars == <<logVars, fileVars, clock>>

NoProc == "none"

ComplianceInit ==
    /\ audit_log = [p \in Procs |-> {}]
    /\ trail = {}
    /\ rest = [p \in Procs |-> {}]
    /\ clock = 0
    /\ started = [p \in Procs |-> 0]
    /\ erased = [p \in Procs |-> [x \in Searches |-> 0]]
    /\ rewritten = [by |-> NoProc, at |-> 0]
    /\ rewrote = [p \in Procs |-> 0]
    /\ exposed = {}

-----------------------------------------------------------------------------
\* Where find() sees x in the details of a record.
Found(record, x) == {i \in DOMAIN record.details : Occurs(x, record.details[i])}
Mentions(record, x) == Found(record, x) # {}

Tick == clock' = clock + 1

\* p is in no rewrite: main() makes its next call.
Idle(p) == rest[p] = {}

\* A record that p writes while another process rewrites the file may be hit.
Exposed(p, record) ==
    IF \E q \in Procs \ {p} : ~ Idle(q) THEN exposed \union {record.id}
                                        ELSE exposed

\* Mutants, here and below: what the definition that follows must not be.
\* The file opened with app instead of trunc.
Truncated_Not == trail

Truncated == {}

\* The loop starts at the second record.
Unwritten_SkipsFirst(p) == {r \in audit_log'[p] : \E q \in audit_log'[p] : q.id < r.id}

\* The file is rewritten before the memory is purged.
Unwritten_Before(p) == audit_log[p]

\* What the rewrite is going to write: the log that p's call leaves in memory.
Unwritten(p) == audit_log'[p]

\* std::ofstream file("privacy_audit_trail.txt", std::ios::trunc); the loop
\* over the log follows, one WriteRecord for each record.
RewriteTrail(p) ==
    \E is_open \in OpenOutcomes :
        IF is_open
        THEN /\ trail' = Truncated
             /\ rest' = [rest EXCEPT ![p] = Unwritten(p)]
             /\ rewritten' = [by |-> p, at |-> clock']
             /\ exposed' = {}
             /\ UNCHANGED rewrote
        ELSE UNCHANGED fileVars

\* The place of the record taken as size() - 1 before the push_back.
NewRecord_BeforePush(p, entry, details) ==
    [id |-> clock - 1, at |-> clock - 1, owner |-> p,
     entry |-> entry, details |-> details]

NewRecord(p, entry, details) ==
    [id |-> clock + 1, at |-> clock + 1, owner |-> p,
     entry |-> entry, details |-> details]

log_audit_event(p, entry, details) ==
    LET record == NewRecord(p, entry, details)
    IN  /\ Idle(p)
        /\ Tick
        /\ audit_log' = [audit_log EXCEPT ![p] = @ \union {record}]
        /\ \E is_open \in OpenOutcomes :
              trail' = IF is_open THEN trail \union {record} ELSE trail
        /\ exposed' = Exposed(p, record)
        /\ UNCHANGED <<started, erased, rest, rewritten, rewrote>>

\* The reports of execute_dsr_access and execute_dsr_export list these.
execute_dsr_access(p, subject_id) ==
    {r \in audit_log[p] : Mentions(r, subject_id)}

Correctable(r, subject_id, field) ==
    Mentions(r, subject_id) /\ Mentions(r, field)

Corrected(r, field, new_val) ==
    [r EXCEPT !.at = clock + 1,
              !.details = SubSeq(r.details, 1, Min(Found(r, field)) - 1)
                              \o <<field, ":", new_val>>]

\* The loop corrects a copy of the record and adds it.
CorrectedLog_Copies(log, subject_id, field, new_val) ==
    log \union {Corrected(r, field, new_val) :
                   r \in {q \in log : Correctable(q, subject_id, field)}}

CorrectedLog(log, subject_id, field, new_val) ==
    {r \in log : ~ Correctable(r, subject_id, field)} \union
    {Corrected(r, field, new_val) :
        r \in {q \in log : Correctable(q, subject_id, field)}}

\* Only the memory is corrected: the file keeps the old details.
execute_dsr_correction(p, subject_id, field, new_val) ==
    /\ Idle(p)
    /\ Tick
    /\ audit_log' = [audit_log EXCEPT ![p] =
                        CorrectedLog(@, subject_id, field, new_val)]
    /\ UNCHANGED <<started, erased, fileVars>>

\* The search stops at the first record it finds.
Remaining_First(p, subject_id) ==
    {r \in audit_log[p] :
        Mentions(r, subject_id) =>
            \E q \in execute_dsr_access(p, subject_id) : q.id < r.id}

\* erase(remove_if(...)): what is left of p's log.
Remaining(p, subject_id) == audit_log[p] \ execute_dsr_access(p, subject_id)

\* The file is rewritten even when nothing was found.
execute_dsr_deletion(p, subject_id) ==
    /\ Idle(p)
    /\ Tick
    /\ audit_log' = [audit_log EXCEPT ![p] = Remaining(p, subject_id)]
    /\ erased' = [erased EXCEPT ![p][subject_id] = clock + 1]
    /\ RewriteTrail(p)
    /\ UNCHANGED started

\* The records at the wrong end of the vector.
Oldest_Newest(log, n) ==
    {r \in log : Cardinality({q \in log : q.id > r.id}) < n}

Oldest(log, n) ==
    {r \in log : Cardinality({q \in log : q.id < r.id}) < n}

enforce_data_retention_policy(p) ==
    /\ Idle(p)
    /\ Tick
    /\ IF Cardinality(audit_log[p]) > RetentionLimit
       THEN /\ audit_log' = [audit_log EXCEPT ![p] =
                               @ \ Oldest(@, RetentionBatch)]
            /\ RewriteTrail(p)
       ELSE UNCHANGED <<audit_log, fileVars>>
    /\ UNCHANGED <<started, erased>>

\* One flushed write of a rewrite, in the order of the vector.  It is put where
\* the last one ended, whatever others have written there by then.
WriteRecord(p) ==
    \E record \in Oldest(rest[p], 1), lost \in SUBSET {r \in trail : r.owner # p} :
        /\ rest' = [rest EXCEPT ![p] = @ \ {record}]
        /\ trail' = (trail \ lost) \union {record}
        /\ rewrote' = [rewrote EXCEPT ![p] = clock]
        /\ exposed' = Exposed(p, record)
        /\ UNCHANGED <<logVars, rewritten, clock>>

\* The process ends, by its own exit or killed, be it in the middle of a
\* rewrite: only the file remains.  The next one on the same terminal starts
\* with an empty log.
EndProcess(p) ==
    /\ Tick
    /\ audit_log' = [audit_log EXCEPT ![p] = {}]
    /\ rest' = [rest EXCEPT ![p] = {}]
    /\ started' = [started EXCEPT ![p] = clock + 1]
    /\ erased' = [erased EXCEPT ![p] = [x \in Searches |-> 0]]
    /\ UNCHANGED <<trail, rewritten, rewrote, exposed>>
=============================================================================
