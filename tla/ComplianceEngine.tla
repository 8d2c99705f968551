-------------------------- MODULE ComplianceEngine --------------------------
(***************************************************************************)
(* The compliance engines of several processes, called in any order their  *)
(* operators choose, and what the log in memory, the file on disk and the  *)
(* requests that were carried out have to do with each other.              *)
(***************************************************************************)
EXTENDS Compliance

CONSTANTS
    Entries,    \* the rest of a record: role, channel, hash, status, ...
    Texts,      \* the pieces details are made of
    Details,    \* the details callers log
    Subjects,   \* subjects named in requests
    Fields,     \* fields named in corrections
    Values,     \* corrected values
    MaxCalls    \* bound on the number of calls, a natural number

ASSUME EngineAssumption ==
    /\ Details \subseteq Seq(Texts)
    /\ Subjects \subseteq Searches
    /\ Fields \subseteq Texts
    /\ Values \subseteq Texts
    /\ ":" \in Texts

Call(p) ==
    \/ \E e \in Entries, d \in Details : log_audit_event(p, e, d)
    \/ \E s \in Subjects, f \in Fields, v \in Values :
          execute_dsr_correction(p, s, f, v)
    \/ \E s \in Subjects : execute_dsr_deletion(p, s)
    \/ enforce_data_retention_policy(p)
    \/ EndProcess(p)

Next == \E p \in Procs : (clock < MaxCalls /\ Call(p)) \/ WriteRecord(p)

Spec == ComplianceInit /\ [][Next]_complianceVars

-----------------------------------------------------------------------------
Records == [id : Nat, at : Nat, owner : Procs, entry : Entries,
            details : Seq(Texts)]

\* The variables have the shapes their declarations give, and what a rewrite has
\* yet to write is in the log it writes.
TypeOK ==
    /\ audit_log \in [Procs -> SUBSET Records]
    /\ trail \in SUBSET Records
    /\ rest \in [Procs -> SUBSET Records]
    /\ \A p \in Procs : rest[p] \subseteq audit_log[p]
    /\ clock \in Nat
    /\ started \in [Procs -> Nat]
    /\ erased \in [Procs -> [Searches -> Nat]]
    /\ rewritten \in [by : Procs \union {NoProc}, at : Nat]
    /\ rewrote \in [Procs -> Nat]
    /\ exposed \subseteq Nat

\* A record is known by its id, in memory and on disk, was logged by the
\* process that holds it, in its present run, and was not touched before it
\* existed or after now.
Identity ==
    /\ \A p, q \in Procs : \A r \in audit_log[p], t \in audit_log[q] :
          r.id = t.id => r = t
    /\ \A p \in Procs : \A r \in audit_log[p] :
          r.owner = p /\ started[p] < r.id /\ r.id <= r.at /\ r.at <= clock
    /\ \A r, q \in trail : r.id = q.id => r = q
    /\ \A r \in trail : 0 < r.id /\ r.id <= r.at /\ r.at <= clock
    /\ \A p \in Procs, x \in Searches : erased[p][x] <= clock
    /\ \A p \in Procs : started[p] <= clock
    /\ rewritten.at <= clock
    /\ \A p \in Procs : rewrote[p] <= clock

\* What a process erased stays out of its log: a record that mentions the
\* subject was written after the last erasure (compliance.cpp:103-134).
ErasedFromMemory ==
    \A p \in Procs, x \in Searches : \A r \in audit_log[p] :
        Mentions(r, x) => r.at > erased[p][x]

\* A record on disk that its erasure should have removed is a record of
\* another process, and a rewrite by that process from its own memory, begun
\* before the erasure or after, wrote to the file since.  Nothing else brings
\* an erased record back.
ErasedFromDisk ==
    \A p \in Procs, x \in Searches : \A r \in trail :
        Mentions(r, x) /\ r.at <= erased[p][x] =>
            /\ r.owner # p
            /\ rewrote[r.owner] >= erased[p][x]

\* The disk never outlives the memory of a running process: what it erased or
\* retired is gone from the file too, whoever rewrote it; a record that
\* differs from the one in memory was corrected since it was written.
DiskWithinMemory ==
    \A r \in trail : r.id > started[r.owner] =>
        \E q \in audit_log[r.owner] : q.id = r.id /\ (q = r \/ q.at > r.at)

\* The audit trail is complete since it was opened with trunc last: a record in
\* memory that was logged since then, or belongs to the process that opened it,
\* is on disk, or about to be written, or was written while another process was
\* in the middle of a rewrite, whose writes may have hit it
\* (compliance.cpp:117-130, :207-220).  Older records of others may be lost.
DiskCovers ==
    \A p \in Procs : \A r \in audit_log[p] :
        r.id > rewritten.at \/ rewritten.by = p =>
            r.id \in exposed \/ \E d \in trail \union rest[p] : d.id = r.id

\* The ids p's log has after a step, and the records that left it.
KeptIds(p) == {q.id : q \in audit_log'[p]}
Gone(p) == {r \in audit_log[p] : r.id \notin KeptIds(p)}

LeftByErasure(p) ==
    \E x \in Searches : erased'[p][x] = clock' /\ \A r \in Gone(p) : Mentions(r, x)

LeftByAge(p) ==
    /\ Cardinality(Gone(p)) <= RetentionBatch
    /\ Cardinality(KeptIds(p)) > RetentionLimit - RetentionBatch
    /\ \A r \in Gone(p), k \in KeptIds(p) : r.id < k

LeftRightly(p) ==
    started'[p] = started[p] =>
        Gone(p) = {} \/ LeftByErasure(p) \/ LeftByAge(p)

\* While a process runs, a record leaves its log in two ways only: an erasure
\* of a subject it mentions, or a sweep that takes at most RetentionBatch
\* records, each older than every record it leaves, and leaves at least
\* RetentionLimit - RetentionBatch of them.
RemovedByErasureOrAge == [][\A p \in Procs : LeftRightly(p)]_complianceVars
=============================================================================
