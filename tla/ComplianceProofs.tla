-------------------------- MODULE ComplianceProofs --------------------------
(***************************************************************************)
(* Theorems about the compliance engines: for every number of processes,   *)
(* every set of texts, every retention limit and every number of calls.    *)
(***************************************************************************)
EXTENDS ComplianceEngine, SequenceTheorems, FiniteSetTheorems,
        WellFoundedInduction, TLAPS

(***************************************************************************)
(* A nonempty set of naturals has a least element: what find() returns.    *)
(***************************************************************************)
LEMMA MinIsLeast ==
    ASSUME NEW S, S \subseteq Nat, S # {}
    PROVE  Min(S) \in S /\ \A y \in S : Min(S) <= y
<1>1. \E x \in S : \A y \in S : ~ (<<y, x>> \in OpToRel(<, Nat))
  BY NatLessThanWellFounded, WFMin, Zenon
<1>2. \A x, y \in Nat : <<y, x>> \in OpToRel(<, Nat) <=> y < x
  BY DEF OpToRel
<1>3. \E x \in S : \A y \in S : x <= y
  <2>1. PICK x \in S : \A y \in S : ~ (<<y, x>> \in OpToRel(<, Nat))
    BY <1>1
  <2>2. \A y \in S : ~ (y < x)
    BY <1>2, <2>1
  <2>3. \A y \in S : x <= y
    BY <2>2
  <2> QED
    BY <2>3
<1> QED
  BY <1>3 DEF Min

(***************************************************************************)
(* A corrected record is a record: compliance.cpp:96 cuts the details at   *)
(* the field, which find() has seen, and appends three texts.              *)
(***************************************************************************)
LEMMA CorrectedType ==
    ASSUME clock \in Nat, NEW r \in Records, NEW f \in Fields, NEW v \in Values,
           Mentions(r, f)
    PROVE  /\ Corrected(r, f, v) \in Records
           /\ Corrected(r, f, v).id = r.id
           /\ Corrected(r, f, v).at = clock + 1
           /\ Corrected(r, f, v).owner = r.owner
<1> DEFINE d == r.details
           m == Min(Found(r, f))
<1>1. d \in Seq(Texts) /\ DOMAIN d = 1 .. Len(d) /\ Len(d) \in Nat
  BY LenProperties DEF Records
<1>2. m \in 1 .. Len(d)
  <2>1. Found(r, f) \subseteq Nat /\ Found(r, f) \subseteq 1 .. Len(d)
    BY <1>1 DEF Found
  <2>2. Found(r, f) # {}
    BY DEF Mentions
  <2> QED
    BY <2>1, <2>2, MinIsLeast
<1>3. SubSeq(d, 1, m - 1) \in Seq(Texts)
  <2>1. \A i \in 1 .. m - 1 : d[i] \in Texts
    BY <1>1, <1>2, ElementOfSeq
  <2> QED
    BY <1>2, <2>1, SubSeqProperties
<1>4. <<f, ":", v>> \in Seq(Texts)
  BY EngineAssumption
<1>5. PICK e \in Seq(Texts) : e = SubSeq(d, 1, m - 1) \o <<f, ":", v>>
  BY <1>3, <1>4, ConcatProperties
<1>6. PICK n \in Nat : n = clock + 1
  OBVIOUS
<1>7. Corrected(r, f, v) = [r EXCEPT !.at = n, !.details = e]
  BY <1>5, <1>6 DEF Corrected
<1>8. /\ [r EXCEPT !.at = n, !.details = e] \in Records
      /\ [r EXCEPT !.at = n, !.details = e].id = r.id
      /\ [r EXCEPT !.at = n, !.details = e].at = n
      /\ [r EXCEPT !.at = n, !.details = e].owner = r.owner
  BY DEF Records
<1> QED
  BY <1>6, <1>7, <1>8

-----------------------------------------------------------------------------
(***************************************************************************)
(* The invariant of the logs in memory.  ErasedFromMemory is not inductive *)
(* alone: a new record is later than every erasure only because the clock  *)
(* bounds them, which Identity says.  Identity needs Fresh: what a rewrite *)
(* has yet to write is not in the file, since the rewrite truncated it and *)
(* nobody else holds these records.                                        *)
(***************************************************************************)
Fresh == \A p \in Procs : \A r \in rest[p], d \in trail : d.id # r.id

Inv == TypeOK /\ Identity /\ ErasedFromMemory /\ Fresh

(***************************************************************************)
(* log_audit_event adds one record, newer than everything there is.        *)
(***************************************************************************)
LEMMA LogStep ==
    ASSUME Inv, NEW p \in Procs, NEW e \in Entries, NEW d \in Details,
           log_audit_event(p, e, d)
    PROVE  Inv'
<1> DEFINE new == [id |-> clock + 1, at |-> clock + 1, owner |-> p,
                   entry |-> e, details |-> d]
<1> USE DEF Inv
<1>1. /\ clock \in Nat /\ clock' = clock + 1
      /\ audit_log' = [audit_log EXCEPT ![p] = @ \union {new}]
      /\ trail' = trail \union {new} \/ trail' = trail
      /\ exposed' = exposed \union {clock + 1} \/ exposed' = exposed
      /\ UNCHANGED <<started, erased, rest, rewritten, rewrote>>
  BY OpenAssumption DEF log_audit_event, NewRecord, Exposed, Tick, TypeOK
<1>2. new \in Records
  BY <1>1, EngineAssumption DEF Records
<1>3. /\ new.id = clock + 1 /\ new.at = clock + 1 /\ new.owner = p
  OBVIOUS
<1> HIDE DEF new
<1>4. TypeOK'
  <2>1. \A q \in Procs : rest'[q] \subseteq audit_log'[q]
    BY <1>1 DEF TypeOK
  <2>2. exposed' \subseteq Nat
    <3>1. exposed \subseteq Nat /\ clock + 1 \in Nat
      BY <1>1 DEF TypeOK
    <3>2. \A n \in exposed' : n \in exposed \/ n = clock + 1
      BY <1>1
    <3> QED
      BY <3>1, <3>2
  <2> QED
    BY <1>1, <1>2, <2>1, <2>2 DEF TypeOK
<1>5. Identity'
  <2>1. \A q \in Procs : \A r \in audit_log[q] : r \in Records
    BY DEF TypeOK
  <2>2. \A r \in trail : r \in Records
    BY DEF TypeOK
  <2>3. \A q \in Procs : audit_log'[q] \subseteq
           audit_log[q] \union (IF q = p THEN {new} ELSE {})
    BY <1>1 DEF TypeOK
  <2>4. \A q \in Procs : \A r \in audit_log[q] :
           r.id \in Nat /\ r.at \in Nat /\ r.id <= clock /\ r.at <= clock
    BY <1>1, <2>1 DEF Identity, Records
  <2>5. \A r \in trail :
           r.id \in Nat /\ r.at \in Nat /\ r.id <= clock /\ r.at <= clock
    BY <1>1, <2>2 DEF Identity, Records
  <2>6. ASSUME NEW q \in Procs, NEW r \in audit_log'[q]
        PROVE  /\ r.owner = q /\ started[q] < r.id
               /\ r.id <= r.at /\ r.at <= clock + 1
               /\ \A u \in Procs : \A t \in audit_log'[u] : r.id = t.id => r = t
    BY <1>1, <1>3, <2>3, <2>4 DEF Identity, TypeOK
  <2>7. ASSUME NEW r \in trail'
        PROVE  /\ 0 < r.id /\ r.id <= r.at /\ r.at <= clock + 1
               /\ \A t \in trail' : r.id = t.id => r = t
    BY <1>1, <1>3, <2>5 DEF Identity
  <2>8. /\ \A q \in Procs, x \in Searches : erased[q][x] <= clock + 1
        /\ \A q \in Procs : started[q] <= clock + 1
        /\ rewritten.at <= clock + 1
        /\ \A q \in Procs : rewrote[q] <= clock + 1
    BY <1>1 DEF Identity, TypeOK
  <2> QED
    BY <1>1, <2>6, <2>7, <2>8 DEF Identity
<1>6. ErasedFromMemory'
  <2> SUFFICES ASSUME NEW q \in Procs, NEW x \in Searches,
                      NEW r \in audit_log'[q], Mentions(r, x)
               PROVE  r.at > erased[q][x]
    BY <1>1 DEF ErasedFromMemory
  <2>1. CASE r \in audit_log[q]
    BY <2>1 DEF ErasedFromMemory
  <2>2. CASE r = new
    BY <1>1, <1>3, <2>2 DEF Identity, TypeOK
  <2> QED
    BY <1>1, <2>1, <2>2 DEF TypeOK
<1>7. Fresh'
  <2>1. \A q \in Procs : \A r \in rest[q] : r.id \in Nat /\ r.id <= clock
    <3>1. \A q \in Procs : \A r \in rest[q] : r \in audit_log[q] /\ r \in Records
      BY DEF TypeOK
    <3>2. \A r \in Records : r.id \in Nat /\ r.at \in Nat
      BY DEF Records
    <3> QED
      BY <1>1, <3>1, <3>2 DEF Identity
  <2> QED
    BY <1>1, <1>3, <2>1 DEF Fresh
<1> QED
  BY <1>4, <1>5, <1>6, <1>7

(***************************************************************************)
(* A correction keeps the ids and stamps what it changes with the clock.   *)
(***************************************************************************)
LEMMA CorrectionStep ==
    ASSUME Inv, NEW p \in Procs, NEW s \in Subjects, NEW f \in Fields,
           NEW v \in Values, execute_dsr_correction(p, s, f, v)
    PROVE  Inv'
<1> DEFINE keep == {r \in audit_log[p] : ~ Correctable(r, s, f)}
           hit == {q \in audit_log[p] : Correctable(q, s, f)}
           fixed == {Corrected(r, f, v) : r \in hit}
<1> USE DEF Inv
<1>1. /\ clock \in Nat /\ clock' = clock + 1
      /\ audit_log' = [audit_log EXCEPT ![p] = keep \union fixed]
      /\ UNCHANGED <<started, erased, fileVars>> /\ rest[p] = {}
  BY DEF execute_dsr_correction, CorrectedLog, Idle, Tick, TypeOK
<1>2. \A r \in hit : /\ r \in audit_log[p] /\ r \in Records
                     /\ Corrected(r, f, v) \in Records
                     /\ Corrected(r, f, v).id = r.id
                     /\ Corrected(r, f, v).at = clock + 1
                     /\ Corrected(r, f, v).owner = r.owner
  BY <1>1, CorrectedType DEF Correctable, TypeOK
<1>3. \A c \in fixed : c \in Records /\ c.at = clock + 1
                        /\ \E r \in hit : c = Corrected(r, f, v)
  BY <1>2
<1>4. keep \subseteq audit_log[p] /\ keep \subseteq Records
      /\ keep \cap hit = {} /\ audit_log[p] \subseteq Records
  BY DEF TypeOK
<1> HIDE DEF keep, hit, fixed
<1>5. TypeOK'
  BY <1>1, <1>3, <1>4 DEF TypeOK, fileVars
<1>6. Identity'
  <2>1. ASSUME NEW r \in keep \union fixed, NEW q \in keep \union fixed,
               r.id = q.id
        PROVE  r = q
    <3>1. CASE r \in keep /\ q \in keep
      BY <1>4, <2>1, <3>1 DEF Identity
    <3>2. CASE r \in fixed /\ q \in fixed
      BY <1>2, <1>3, <2>1, <3>2 DEF Identity
    <3>3. CASE r \in keep /\ q \in fixed
      BY <1>2, <1>3, <1>4, <2>1, <3>3 DEF Identity
    <3>4. CASE r \in fixed /\ q \in keep
      BY <1>2, <1>3, <1>4, <2>1, <3>4 DEF Identity
    <3> QED
      BY <3>1, <3>2, <3>3, <3>4
  <2>1a. ASSUME NEW q \in Procs, q # p, NEW t \in audit_log[q],
               NEW r \in keep \union fixed, r.id = t.id
        PROVE  FALSE
    <3>1. PICK u \in audit_log[p] : u.id = r.id
      BY <1>2, <1>3, <1>4
    <3>2. u = t
      BY <2>1a, <3>1 DEF Identity
    <3> QED
      BY <2>1a, <3>1, <3>2 DEF Identity
  <2>2. ASSUME NEW r \in keep \union fixed
        PROVE  r.owner = p /\ started[p] < r.id /\ r.id <= r.at /\ r.at <= clock + 1
    <3>1. CASE r \in keep
      BY <1>1, <1>4, <3>1 DEF Identity, Records
    <3>2. CASE r \in fixed
      BY <1>1, <1>2, <1>3, <3>2 DEF Identity, Records
    <3> QED
      BY <3>1, <3>2
  <2>3. \A q \in Procs : q # p => audit_log'[q] = audit_log[q]
    BY <1>1 DEF TypeOK
  <2>4. audit_log'[p] = keep \union fixed
    BY <1>1 DEF TypeOK
  <2>5. \A q \in Procs : \A r \in audit_log[q] : r.at \in Nat
    BY DEF TypeOK, Records
  <2>6. \A r \in trail : r.at \in Nat
    BY DEF TypeOK, Records
  <2>7. /\ rewritten.at \in Nat /\ erased \in [Procs -> [Searches -> Nat]]
        /\ started \in [Procs -> Nat] /\ rewrote \in [Procs -> Nat]
    BY DEF TypeOK
  <2>8. ASSUME NEW q \in Procs, NEW u \in Procs,
               NEW r \in audit_log'[q], NEW t \in audit_log'[u], r.id = t.id
        PROVE  r = t
    BY <2>1a, <2>1, <2>3, <2>4, <2>8 DEF Identity
  <2>9. ASSUME NEW q \in Procs, NEW r \in audit_log'[q]
        PROVE  r.owner = q /\ started[q] < r.id /\ r.id <= r.at /\ r.at <= clock + 1
    BY <1>1, <2>2, <2>3, <2>4, <2>5 DEF Identity
  <2>10. /\ \A r, t \in trail : r.id = t.id => r = t
         /\ \A r \in trail : 0 < r.id /\ r.id <= r.at /\ r.at <= clock + 1
    BY <1>1, <2>6 DEF Identity
  <2>11. /\ \A q \in Procs, x \in Searches : erased[q][x] <= clock + 1
         /\ \A q \in Procs : started[q] <= clock + 1 /\ rewrote[q] <= clock + 1
         /\ rewritten.at <= clock + 1
    BY <1>1, <2>7 DEF Identity
  <2> QED
    BY <1>1, <2>8, <2>9, <2>10, <2>11 DEF Identity, fileVars
<1>7. ErasedFromMemory'
  <2> SUFFICES ASSUME NEW q \in Procs, NEW x \in Searches,
                      NEW r \in audit_log'[q], Mentions(r, x)
               PROVE  r.at > erased[q][x]
    BY <1>1 DEF ErasedFromMemory
  <2>1. CASE r \in audit_log[q]
    BY <2>1 DEF ErasedFromMemory
  <2>2. CASE r \in fixed
    BY <1>1, <1>3, <2>2 DEF Identity, TypeOK
  <2> QED
    BY <1>1, <1>4, <2>1, <2>2 DEF TypeOK
<1>8. Fresh'
  BY <1>1 DEF Fresh, fileVars
<1> QED
  BY <1>5, <1>6, <1>7, <1>8

(***************************************************************************)
(* The file is opened for a rewrite, after an erasure or a sweep, and the  *)
(* open may fail: the file is emptied and all of what p's log becomes is   *)
(* yet to be written, or the file is left.                                 *)
(***************************************************************************)
LEMMA RewriteOutcome ==
    ASSUME Inv, NEW p \in Procs, NEW kept \in SUBSET audit_log[p], Tick,
           audit_log' = [audit_log EXCEPT ![p] = kept], RewriteTrail(p)
    PROVE  /\ clock' = clock + 1 /\ clock \in Nat /\ audit_log'[p] = kept
           /\ rewrote' = rewrote
           /\ \/ /\ trail' = {} /\ rest' = [rest EXCEPT ![p] = kept]
                 /\ rewritten' = [by |-> p, at |-> clock + 1] /\ exposed' = {}
              \/ UNCHANGED fileVars /\ FALSE \in OpenOutcomes
<1>1. clock' = clock + 1 /\ clock \in Nat /\ audit_log'[p] = kept
  BY DEF Inv, TypeOK, Tick
<1>2. PICK is_open \in OpenOutcomes :
        IF is_open
        THEN /\ trail' = {} /\ rest' = [rest EXCEPT ![p] = audit_log'[p]]
             /\ rewritten' = [by |-> p, at |-> clock'] /\ exposed' = {}
             /\ UNCHANGED rewrote
        ELSE UNCHANGED fileVars
  BY DEF RewriteTrail, Truncated, Unwritten
<1>3. is_open \in BOOLEAN
  BY OpenAssumption
<1>4. CASE is_open
  BY <1>1, <1>2, <1>4
<1>5. CASE ~ is_open
  BY <1>1, <1>2, <1>3, <1>5 DEF fileVars
<1> QED
  BY <1>4, <1>5

(***************************************************************************)
(* Taking records out of one log, with or without a rewrite of the file,   *)
(* keeps the types and the identity of the rest.                           *)
(***************************************************************************)
LEMMA Purge ==
    ASSUME Inv, NEW p \in Procs, NEW kept \in SUBSET audit_log[p],
           clock' = clock + 1, started' = started, rewrote' = rewrote, Idle(p),
           audit_log' = [audit_log EXCEPT ![p] = kept],
           \/ /\ trail' = {} /\ rest' = [rest EXCEPT ![p] = kept]
              /\ rewritten' = [by |-> p, at |-> clock + 1] /\ exposed' = {}
           \/ UNCHANGED fileVars,
           erased' \in [Procs -> [Searches -> Nat]],
           \A q \in Procs, x \in Searches : erased'[q][x] <= clock + 1
    PROVE  TypeOK' /\ Identity' /\ Fresh'
<1> USE DEF Inv
<1>1. /\ clock \in Nat
      /\ \A q \in Procs : audit_log'[q] \subseteq audit_log[q]
      /\ \A q \in Procs : audit_log[q] \subseteq Records
      /\ trail \subseteq Records /\ kept \subseteq Records
      /\ \A q \in Procs : started[q] \in Nat /\ rewrote[q] \in Nat
      /\ rewritten.at \in Nat
  BY DEF TypeOK
<1>2. /\ audit_log'[p] = kept
      /\ \A q \in Procs : q # p => audit_log'[q] = audit_log[q]
  BY DEF TypeOK
<1>3. TypeOK'
  <2>1. audit_log' \in [Procs -> SUBSET Records]
    BY <1>1 DEF TypeOK
  <2>2. rewritten' \in [by : Procs \union {NoProc}, at : Nat]
    <3>1. [by |-> p, at |-> clock + 1] \in [by : Procs \union {NoProc}, at : Nat]
      BY <1>1
    <3> QED
      BY <3>1 DEF TypeOK, fileVars
  <2>3. trail' \in SUBSET Records /\ clock' \in Nat /\ exposed' \subseteq Nat
    <3>1. exposed \subseteq Nat
      BY DEF TypeOK
    <3>2. exposed' \subseteq exposed /\ trail' \subseteq trail
      BY DEF fileVars
    <3> QED
      BY <1>1, <3>1, <3>2
  <2>4. started' \in [Procs -> Nat] /\ rewrote' \in [Procs -> Nat]
    BY DEF TypeOK
  <2>5. rest' \in [Procs -> SUBSET Records]
    BY <1>1 DEF TypeOK, fileVars
  <2>6. ASSUME NEW q \in Procs PROVE rest'[q] \subseteq audit_log'[q]
    <3>1. CASE q = p
      BY <1>2, <3>1 DEF TypeOK, Idle, fileVars
    <3>2. CASE q # p
      BY <1>2, <3>2 DEF TypeOK, fileVars
    <3> QED
      BY <3>1, <3>2
  <2> QED
    BY <2>1, <2>2, <2>3, <2>4, <2>5, <2>6 DEF TypeOK
<1>4. ASSUME NEW q \in Procs, NEW r \in audit_log'[q]
      PROVE  /\ r.owner = q /\ started[q] < r.id
             /\ r.id <= r.at /\ r.at <= clock + 1
             /\ \A u \in Procs : \A t \in audit_log'[u] : r.id = t.id => r = t
  BY <1>1 DEF Identity, Records
<1>5. ASSUME NEW r \in trail'
      PROVE  /\ 0 < r.id /\ r.id <= r.at /\ r.at <= clock + 1
             /\ \A t \in trail' : r.id = t.id => r = t
  BY <1>1 DEF Identity, Records, fileVars
<1>6. /\ \A q \in Procs : started[q] <= clock + 1 /\ rewrote[q] <= clock + 1
      /\ rewritten'.at <= clock + 1
  BY <1>1 DEF Identity, fileVars
<1>7. Identity'
  BY <1>4, <1>5, <1>6 DEF Identity
<1>8. Fresh'
  BY DEF Fresh, fileVars
<1> QED
  BY <1>3, <1>7, <1>8

(***************************************************************************)
(* An erasure: every record that mentions the subject leaves p's log.      *)
(***************************************************************************)
LEMMA DeletionStep ==
    ASSUME Inv, NEW p \in Procs, NEW s \in Subjects, execute_dsr_deletion(p, s)
    PROVE  Inv'
<1> DEFINE kept == audit_log[p] \ execute_dsr_access(p, s)
<1> USE DEF Inv
<1>1. /\ Tick /\ kept \in SUBSET audit_log[p]
      /\ audit_log' = [audit_log EXCEPT ![p] = kept]
      /\ erased' = [erased EXCEPT ![p][s] = clock + 1]
      /\ RewriteTrail(p) /\ started' = started /\ Idle(p)
  BY DEF execute_dsr_deletion, Remaining, TypeOK
<1>2. \A r \in kept : ~ Mentions(r, s)
  BY DEF execute_dsr_access
<1> HIDE DEF kept
<1>3. /\ clock' = clock + 1 /\ clock \in Nat /\ audit_log'[p] = kept
      /\ rewrote' = rewrote
      /\ \/ /\ trail' = {} /\ rest' = [rest EXCEPT ![p] = kept]
            /\ rewritten' = [by |-> p, at |-> clock + 1] /\ exposed' = {}
         \/ UNCHANGED fileVars
  BY <1>1, RewriteOutcome
<1>4. s \in Searches
  BY EngineAssumption
<1>5. \A q \in Procs, x \in Searches :
         erased'[q][x] = IF q = p /\ x = s THEN clock + 1 ELSE erased[q][x]
  BY <1>1, <1>4 DEF TypeOK
<1>6. /\ erased' \in [Procs -> [Searches -> Nat]]
      /\ \A q \in Procs, x \in Searches : erased'[q][x] <= clock + 1
  <2>1. erased' \in [Procs -> [Searches -> Nat]]
    BY <1>1, <1>3, <1>4 DEF TypeOK
  <2>2. \A q \in Procs, x \in Searches :
           erased[q][x] \in Nat /\ erased[q][x] <= clock
    BY DEF TypeOK, Identity
  <2> QED
    BY <1>3, <1>5, <2>1, <2>2
<1>7. TypeOK' /\ Identity' /\ Fresh'
  BY <1>1, <1>3, <1>6, Purge
<1>8. ErasedFromMemory'
  <2> SUFFICES ASSUME NEW q \in Procs, NEW x \in Searches,
                      NEW r \in audit_log'[q], Mentions(r, x)
               PROVE  r.at > erased'[q][x]
    BY DEF ErasedFromMemory
  <2>1. r \in audit_log[q]
    BY <1>1 DEF TypeOK
  <2>2. ~ (q = p /\ x = s)
    BY <1>2, <1>3
  <2> QED
    BY <1>5, <2>1, <2>2 DEF ErasedFromMemory
<1> QED
  BY <1>7, <1>8

(***************************************************************************)
(* A retention sweep only takes records out.                               *)
(***************************************************************************)
LEMMA RetentionStep ==
    ASSUME Inv, NEW p \in Procs, enforce_data_retention_policy(p)
    PROVE  Inv'
<1> DEFINE kept == audit_log[p] \ Oldest(audit_log[p], RetentionBatch)
<1> USE DEF Inv
<1>1. /\ Tick /\ started' = started /\ erased' = erased /\ Idle(p)
      /\ \/ audit_log' = [audit_log EXCEPT ![p] = kept] /\ RewriteTrail(p)
         \/ UNCHANGED <<audit_log, fileVars>>
  BY DEF enforce_data_retention_policy
<1>2. /\ erased' \in [Procs -> [Searches -> Nat]]
      /\ \A q \in Procs, x \in Searches : erased'[q][x] <= clock + 1
  BY <1>1 DEF TypeOK, Identity
<1>3. kept \in SUBSET audit_log[p]
  OBVIOUS
<1> HIDE DEF kept
<1>4. CASE audit_log' = [audit_log EXCEPT ![p] = kept] /\ RewriteTrail(p)
  <2>1. /\ clock' = clock + 1
        /\ rewrote' = rewrote
        /\ \/ /\ trail' = {} /\ rest' = [rest EXCEPT ![p] = kept]
              /\ rewritten' = [by |-> p, at |-> clock + 1] /\ exposed' = {}
           \/ UNCHANGED fileVars
    BY <1>1, <1>3, <1>4, RewriteOutcome
  <2>2. TypeOK' /\ Identity' /\ Fresh'
    BY <1>1, <1>2, <1>3, <1>4, <2>1, Purge
  <2>3. ErasedFromMemory'
    BY <1>1, <1>3, <1>4 DEF ErasedFromMemory, TypeOK
  <2> QED
    BY <2>2, <2>3
<1>5. CASE UNCHANGED <<audit_log, fileVars>>
  <2>1. audit_log' = [audit_log EXCEPT ![p] = audit_log[p]]
    BY <1>5 DEF TypeOK
  <2>2. clock' = clock + 1 /\ rewrote' = rewrote
    BY <1>1, <1>5 DEF Tick, fileVars
  <2>3. TypeOK' /\ Identity' /\ Fresh'
    BY <1>1, <1>2, <1>5, <2>1, <2>2, Purge
  <2>4. ErasedFromMemory'
    BY <1>1, <1>5 DEF ErasedFromMemory
  <2> QED
    BY <2>3, <2>4
<1> QED
  BY <1>1, <1>4, <1>5

(***************************************************************************)
(* The end of a process empties its log and forgets what it was asked.     *)
(***************************************************************************)
LEMMA EndStep ==
    ASSUME Inv, NEW p \in Procs, EndProcess(p)
    PROVE  Inv'
<1> USE DEF Inv
<1>1. /\ clock' = clock + 1 /\ clock \in Nat
      /\ audit_log' = [audit_log EXCEPT ![p] = {}]
      /\ started' = [started EXCEPT ![p] = clock + 1]
      /\ erased' = [erased EXCEPT ![p] = [x \in Searches |-> 0]]
      /\ rest' = [rest EXCEPT ![p] = {}]
      /\ UNCHANGED <<trail, rewritten, rewrote, exposed>>
  BY DEF EndProcess, Tick, TypeOK
<1>2. TypeOK'
  BY <1>1 DEF TypeOK
<1>3. Identity'
  <2>1. \A q \in Procs : audit_log'[q] \subseteq audit_log[q]
                        /\ (q = p => audit_log'[q] = {})
    BY <1>1 DEF TypeOK
  <2>2. \A q \in Procs : \A r \in audit_log[q] : r \in Records
    BY DEF TypeOK
  <2>3. \A r \in trail : r \in Records
    BY DEF TypeOK
  <2>4. ASSUME NEW q \in Procs, NEW r \in audit_log'[q]
        PROVE  /\ r.owner = q /\ started'[q] < r.id
               /\ r.id <= r.at /\ r.at <= clock + 1
               /\ \A u \in Procs : \A t \in audit_log'[u] : r.id = t.id => r = t
    BY <1>1, <2>1, <2>2 DEF Identity, TypeOK, Records
  <2>5. ASSUME NEW r \in trail'
        PROVE  /\ 0 < r.id /\ r.id <= r.at /\ r.at <= clock + 1
               /\ \A t \in trail' : r.id = t.id => r = t
    BY <1>1, <2>3 DEF Identity, Records
  <2>6. /\ \A q \in Procs, x \in Searches : erased'[q][x] <= clock + 1
        /\ \A q \in Procs : started'[q] <= clock + 1
        /\ rewritten.at <= clock + 1
        /\ \A q \in Procs : rewrote[q] <= clock + 1
    BY <1>1 DEF Identity, TypeOK
  <2> QED
    BY <1>1, <2>4, <2>5, <2>6 DEF Identity
<1>4. ErasedFromMemory'
  BY <1>1 DEF ErasedFromMemory, TypeOK
<1>5. Fresh'
  BY <1>1 DEF Fresh, TypeOK
<1> QED
  BY <1>2, <1>3, <1>4, <1>5

(***************************************************************************)
(* A write of a rewrite moves one record of p into the file.               *)
(***************************************************************************)
LEMMA WriteStep ==
    ASSUME Inv, NEW p \in Procs, WriteRecord(p)
    PROVE  Inv'
<1> USE DEF Inv
<1>1. PICK record \in rest[p], lost \in SUBSET trail :
        /\ rest' = [rest EXCEPT ![p] = @ \ {record}]
        /\ trail' = (trail \ lost) \union {record}
        /\ rewrote' = [rewrote EXCEPT ![p] = clock]
        /\ exposed' = exposed \/ exposed' = exposed \union {record.id}
        /\ UNCHANGED <<logVars, rewritten, clock>>
  BY DEF WriteRecord, Oldest, Exposed
<1>2. /\ record \in audit_log[p] /\ record \in Records /\ clock \in Nat
      /\ record.id \in Nat
      /\ UNCHANGED <<audit_log, started, erased, rewritten, clock>>
  BY <1>1 DEF TypeOK, Records, logVars
<1>3. /\ rest'[p] = rest[p] \ {record}
      /\ \A q \in Procs : q # p => rest'[q] = rest[q]
  BY <1>1 DEF TypeOK
<1>4. TypeOK'
  <2>1. \A q \in Procs : rest'[q] \subseteq audit_log'[q]
    BY <1>2, <1>3 DEF TypeOK
  <2>2. exposed' \subseteq Nat /\ trail' \in SUBSET Records
    BY <1>1, <1>2 DEF TypeOK
  <2>3. rest' \in [Procs -> SUBSET Records] /\ rewrote' \in [Procs -> Nat]
    BY <1>1, <1>2 DEF TypeOK
  <2> QED
    BY <1>2, <2>1, <2>2, <2>3 DEF TypeOK
<1>5. Identity'
  <2>1. \A r \in trail' : r \in trail \/ r = record
    BY <1>1
  <2>2. \A r \in trail : r.id # record.id
    BY <1>1 DEF Fresh
  <2>3. /\ 0 < record.id /\ record.id <= record.at /\ record.at <= clock
    BY <1>2 DEF Identity, TypeOK
  <2>4. \A r, t \in trail' : r.id = t.id => r = t
    BY <2>1, <2>2 DEF Identity
  <2>5. \A q \in Procs : rewrote'[q] <= clock
    BY <1>1, <1>2 DEF Identity, TypeOK
  <2> QED
    BY <1>2, <2>1, <2>3, <2>4, <2>5 DEF Identity
<1>6. ErasedFromMemory'
  BY <1>2 DEF ErasedFromMemory
<1>7. Fresh'
  <2> SUFFICES ASSUME NEW q \in Procs, NEW r \in rest'[q], NEW d \in trail',
                      d.id = r.id
               PROVE  FALSE
    BY DEF Fresh
  <2>1. r \in rest[q] /\ r \in audit_log[q]
    BY <1>3 DEF TypeOK
  <2>2. d = record
    BY <1>1, <2>1 DEF Fresh
  <2>3. r = record
    BY <1>2, <2>1, <2>2 DEF Identity
  <2>4. q = p
    BY <1>2, <2>1, <2>3 DEF Identity
  <2> QED
    BY <1>3, <2>3, <2>4
<1> QED
  BY <1>4, <1>5, <1>6, <1>7

LEMMA InitInv == ComplianceInit => Inv
BY DEF ComplianceInit, Inv, TypeOK, Identity, ErasedFromMemory, Fresh

LEMMA StepInv == Inv /\ [Next]_complianceVars => Inv'
<1> SUFFICES ASSUME Inv, [Next]_complianceVars
             PROVE  Inv'
  OBVIOUS
<1>1. CASE UNCHANGED complianceVars
  BY <1>1 DEF complianceVars, logVars, fileVars, Inv, TypeOK, Identity,
              ErasedFromMemory, Fresh
<1>2. CASE Next
  <2>1. PICK p \in Procs : Call(p) \/ WriteRecord(p)
    BY <1>2 DEF Next
  <2>2. CASE \E e \in Entries, d \in Details : log_audit_event(p, e, d)
    BY <2>2, LogStep
  <2>3. CASE \E s \in Subjects, f \in Fields, v \in Values :
                execute_dsr_correction(p, s, f, v)
    BY <2>3, CorrectionStep
  <2>4. CASE \E s \in Subjects : execute_dsr_deletion(p, s)
    BY <2>4, DeletionStep
  <2>5. CASE enforce_data_retention_policy(p)
    BY <2>5, RetentionStep
  <2>6. CASE EndProcess(p)
    BY <2>6, EndStep
  <2>7. CASE WriteRecord(p)
    BY <2>7, WriteStep
  <2> QED
    BY <2>1, <2>2, <2>3, <2>4, <2>5, <2>6, <2>7 DEF Call
<1> QED
  BY <1>1, <1>2

(***************************************************************************)
(* In every run the variables are well typed, records keep their identity  *)
(* in memory and on disk, and nothing a process erased is left in its log, *)
(* whether or not the file could be opened.                                *)
(***************************************************************************)
THEOREM LogsAreSound == Spec => [](TypeOK /\ Identity /\ ErasedFromMemory)
<1>1. Inv => TypeOK /\ Identity /\ ErasedFromMemory
  BY DEF Inv
<1> QED
  BY InitInv, StepInv, <1>1, PTL DEF Spec

-----------------------------------------------------------------------------
(***************************************************************************)
(* The file, when it can always be opened.  The statements hold together:  *)
(* what a rewrite writes is sound because of what Inv says of the log it   *)
(* is a part of, and complete because of Unharmed: what a rewrite may hit  *)
(* was exposed, since the file was empty when the rewrite began.           *)
(***************************************************************************)
FileOpens == OpenOutcomes = {TRUE}

Unharmed ==
    \A p \in Procs : rest[p] # {} =>
        \A r \in trail : r.owner # p => r.id \in exposed

DiskInv == ErasedFromDisk /\ DiskWithinMemory /\ DiskCovers /\ Unharmed

(***************************************************************************)
(* p has opened the file for a rewrite: it is empty, and all of p's log is *)
(* yet to be written.                                                      *)
(***************************************************************************)
LEMMA RewriteDisk ==
    ASSUME Inv, Inv', NEW p \in Procs, clock' = clock + 1,
           trail' = {}, rest' = [rest EXCEPT ![p] = audit_log'[p]],
           rewritten' = [by |-> p, at |-> clock + 1]
    PROVE  DiskInv'
<1>1. clock \in Nat /\ rewritten'.by = p /\ rewritten'.at = clock + 1
      /\ rest'[p] = audit_log'[p]
  BY DEF Inv, TypeOK
<1>2. ErasedFromDisk' /\ DiskWithinMemory' /\ Unharmed'
  BY DEF ErasedFromDisk, DiskWithinMemory, Unharmed
<1>3. DiskCovers'
  <2> SUFFICES ASSUME NEW q \in Procs, NEW r \in audit_log'[q],
                      r.id > clock + 1 \/ p = q
               PROVE  r \in rest'[q]
    BY <1>1 DEF DiskCovers
  <2>1. r.id \in Nat /\ r.at \in Nat
    BY DEF Inv, TypeOK, Records
  <2>2. r.id <= clock + 1
    BY <1>1, <2>1 DEF Inv, TypeOK, Identity
  <2> QED
    BY <1>1, <2>1, <2>2
<1> QED
  BY <1>2, <1>3 DEF DiskInv

(***************************************************************************)
(* log_audit_event: the new record is in the log and in the file, and      *)
(* exposed if another process is in a rewrite.                             *)
(***************************************************************************)
LEMMA LogDisk ==
    ASSUME FileOpens, Inv, DiskInv, NEW p \in Procs, NEW e \in Entries,
           NEW d \in Details, log_audit_event(p, e, d)
    PROVE  DiskInv'
<1> DEFINE new == [id |-> clock + 1, at |-> clock + 1, owner |-> p,
                   entry |-> e, details |-> d]
<1>1. /\ clock \in Nat
      /\ audit_log' = [audit_log EXCEPT ![p] = @ \union {new}]
      /\ trail' = trail \union {new}
      /\ UNCHANGED <<started, erased, rest, rewritten, rewrote>>
      /\ new.id = clock + 1 /\ new.at = clock + 1 /\ new.owner = p
      /\ rest[p] = {} /\ exposed' = Exposed(p, new)
  BY DEF FileOpens, log_audit_event, NewRecord, Idle, Tick, Inv, TypeOK
<1> HIDE DEF new
<1>2. /\ audit_log'[p] = audit_log[p] \union {new}
      /\ \A q \in Procs : q # p => audit_log'[q] = audit_log[q]
  BY <1>1 DEF Inv, TypeOK
<1>3. ErasedFromDisk'
  <2> SUFFICES ASSUME NEW q \in Procs, NEW x \in Searches, NEW r \in trail',
                      Mentions(r, x), r.at <= erased[q][x]
               PROVE  r.owner # q /\ rewrote[r.owner] >= erased[q][x]
    BY <1>1 DEF ErasedFromDisk
  <2>1. erased[q][x] \in Nat /\ erased[q][x] <= clock
    BY DEF Inv, TypeOK, Identity
  <2>2. r # new
    BY <1>1, <2>1
  <2> QED
    BY <1>1, <2>2 DEF DiskInv, ErasedFromDisk
<1>4. DiskWithinMemory'
  BY <1>1, <1>2 DEF DiskInv, DiskWithinMemory
<1>5. exposed \subseteq exposed'
  BY <1>1 DEF Exposed
<1>6. DiskCovers'
  BY <1>1, <1>2, <1>5 DEF DiskInv, DiskCovers
<1>7. Unharmed'
  <2> SUFFICES ASSUME NEW q \in Procs, rest[q] # {},
                      NEW r \in trail', r.owner # q
               PROVE  r.id \in exposed'
    BY <1>1 DEF Unharmed
  <2>1. CASE r \in trail
    BY <1>5, <2>1 DEF DiskInv, Unharmed
  <2>2. CASE r = new
    BY <1>1, <2>2 DEF Exposed, Idle
  <2> QED
    BY <1>1, <2>1, <2>2
<1> QED
  BY <1>3, <1>4, <1>6, <1>7 DEF DiskInv

(***************************************************************************)
(* execute_dsr_correction: the file keeps the old version of a record that *)
(* the log now holds with a later stamp.                                   *)
(***************************************************************************)
LEMMA CorrectionDisk ==
    ASSUME Inv, DiskInv, NEW p \in Procs, NEW s \in Subjects,
           NEW f \in Fields, NEW v \in Values,
           execute_dsr_correction(p, s, f, v)
    PROVE  DiskInv'
<1> DEFINE keep == {r \in audit_log[p] : ~ Correctable(r, s, f)}
           hit == {q \in audit_log[p] : Correctable(q, s, f)}
           fixed == {Corrected(r, f, v) : r \in hit}
<1>1. /\ clock \in Nat
      /\ audit_log' = [audit_log EXCEPT ![p] = keep \union fixed]
      /\ UNCHANGED <<started, erased, fileVars>>
  BY DEF execute_dsr_correction, CorrectedLog, Tick, Inv, TypeOK
<1>2. \A r \in hit : /\ Corrected(r, f, v) \in fixed
                     /\ Corrected(r, f, v).id = r.id
                     /\ Corrected(r, f, v).at = clock + 1
  BY <1>1, CorrectedType DEF Correctable, Inv, TypeOK
<1>3. \A c \in fixed : \E r \in hit : c = Corrected(r, f, v)
  OBVIOUS
<1>4. keep \union hit = audit_log[p]
  OBVIOUS
<1> HIDE DEF keep, hit, fixed
<1>5. /\ audit_log'[p] = keep \union fixed
      /\ \A q \in Procs : q # p => audit_log'[q] = audit_log[q]
  BY <1>1 DEF Inv, TypeOK
<1>6. ErasedFromDisk'
  BY <1>1 DEF DiskInv, ErasedFromDisk, fileVars
<1>7. DiskWithinMemory'
  <2> SUFFICES ASSUME NEW r \in trail, r.id > started[r.owner]
               PROVE  \E q \in audit_log'[r.owner] :
                         q.id = r.id /\ (q = r \/ q.at > r.at)
    BY <1>1 DEF DiskWithinMemory, fileVars
  <2>1. PICK q \in audit_log[r.owner] : q.id = r.id /\ (q = r \/ q.at > r.at)
    BY DEF DiskInv, DiskWithinMemory
  <2>2. r.at \in Nat /\ r.at <= clock /\ r.owner \in Procs
    BY DEF Inv, TypeOK, Records, Identity
  <2>3. CASE q \in audit_log'[r.owner]
    BY <2>1, <2>3
  <2>4. CASE r.owner = p /\ q \in hit
    <3>1. Corrected(q, f, v) \in audit_log'[r.owner]
      BY <1>2, <1>5, <2>4
    <3>2. Corrected(q, f, v).id = r.id /\ Corrected(q, f, v).at > r.at
      BY <1>1, <1>2, <2>1, <2>2, <2>4
    <3> QED
      BY <3>1, <3>2
  <2> QED
    BY <1>4, <1>5, <2>1, <2>2, <2>3, <2>4
<1>8. DiskCovers'
  <2> SUFFICES ASSUME NEW q \in Procs, NEW r \in audit_log'[q],
                      r.id > rewritten.at \/ rewritten.by = q
               PROVE  r.id \in exposed \/ \E d \in trail \union rest[q] : d.id = r.id
    BY <1>1 DEF DiskCovers, fileVars
  <2>1. PICK t \in audit_log[q] : t.id = r.id
    BY <1>2, <1>3, <1>4, <1>5
  <2> QED
    BY <2>1 DEF DiskInv, DiskCovers
<1>9. Unharmed'
  BY <1>1 DEF DiskInv, Unharmed, fileVars
<1> QED
  BY <1>6, <1>7, <1>8, <1>9 DEF DiskInv

(***************************************************************************)
(* execute_dsr_deletion always rewrites the file.                          *)
(***************************************************************************)
LEMMA DeletionDisk ==
    ASSUME FileOpens, Inv, Inv', NEW p \in Procs, NEW s \in Subjects,
           execute_dsr_deletion(p, s)
    PROVE  DiskInv'
<1> DEFINE kept == audit_log[p] \ execute_dsr_access(p, s)
<1>1. /\ Tick /\ kept \in SUBSET audit_log[p]
      /\ audit_log' = [audit_log EXCEPT ![p] = kept]
      /\ RewriteTrail(p)
  BY DEF execute_dsr_deletion, Remaining, Inv, TypeOK
<1> HIDE DEF kept
<1>2. /\ clock' = clock + 1 /\ trail' = {}
      /\ rest' = [rest EXCEPT ![p] = audit_log'[p]]
      /\ rewritten' = [by |-> p, at |-> clock + 1]
  BY <1>1, RewriteOutcome DEF FileOpens
<1> QED
  BY <1>2, RewriteDisk

(***************************************************************************)
(* A sweep rewrites the file when it removes something and leaves          *)
(* everything alone when it does not.                                      *)
(***************************************************************************)
LEMMA RetentionDisk ==
    ASSUME FileOpens, Inv, Inv', DiskInv, NEW p \in Procs,
           enforce_data_retention_policy(p)
    PROVE  DiskInv'
<1> DEFINE kept == audit_log[p] \ Oldest(audit_log[p], RetentionBatch)
<1>1. /\ Tick /\ started' = started /\ erased' = erased
      /\ \/ audit_log' = [audit_log EXCEPT ![p] = kept] /\ RewriteTrail(p)
         \/ UNCHANGED <<audit_log, fileVars>>
  BY DEF enforce_data_retention_policy
<1>2. kept \in SUBSET audit_log[p]
  OBVIOUS
<1> HIDE DEF kept
<1>3. CASE audit_log' = [audit_log EXCEPT ![p] = kept] /\ RewriteTrail(p)
  <2>1. /\ clock' = clock + 1 /\ trail' = {}
        /\ rest' = [rest EXCEPT ![p] = audit_log'[p]]
        /\ rewritten' = [by |-> p, at |-> clock + 1]
    BY <1>1, <1>2, <1>3, RewriteOutcome DEF FileOpens
  <2> QED
    BY <2>1, RewriteDisk
<1>4. CASE UNCHANGED <<audit_log, fileVars>>
  BY <1>1, <1>4
     DEF DiskInv, ErasedFromDisk, DiskWithinMemory, DiskCovers, Unharmed, fileVars
<1> QED
  BY <1>1, <1>3, <1>4

(***************************************************************************)
(* The end of a process: its records on disk are those of a past run.      *)
(***************************************************************************)
LEMMA EndDisk ==
    ASSUME Inv, DiskInv, NEW p \in Procs, EndProcess(p)
    PROVE  DiskInv'
<1>1. /\ clock \in Nat
      /\ audit_log' = [audit_log EXCEPT ![p] = {}]
      /\ started' = [started EXCEPT ![p] = clock + 1]
      /\ erased' = [erased EXCEPT ![p] = [x \in Searches |-> 0]]
      /\ rest' = [rest EXCEPT ![p] = {}]
      /\ UNCHANGED <<trail, rewritten, rewrote, exposed>>
  BY DEF EndProcess, Tick, Inv, TypeOK
<1>2. \A r \in trail : /\ r.at \in Nat /\ r.id \in Nat /\ r.owner \in Procs
                       /\ 0 < r.id /\ r.id <= r.at /\ r.at <= clock
  BY DEF Inv, TypeOK, Records, Identity
<1>3. ErasedFromDisk'
  <2> SUFFICES ASSUME NEW q \in Procs, NEW x \in Searches, NEW r \in trail,
                      Mentions(r, x), r.at <= erased'[q][x]
               PROVE  r.owner # q /\ rewrote[r.owner] >= erased'[q][x]
    BY <1>1 DEF ErasedFromDisk
  <2>1. q # p
    BY <1>1, <1>2 DEF Inv, TypeOK
  <2>2. erased'[q][x] = erased[q][x]
    BY <1>1, <2>1 DEF Inv, TypeOK
  <2> QED
    BY <2>2 DEF DiskInv, ErasedFromDisk
<1>4. DiskWithinMemory'
  <2> SUFFICES ASSUME NEW r \in trail, r.id > started'[r.owner]
               PROVE  \E q \in audit_log'[r.owner] :
                         q.id = r.id /\ (q = r \/ q.at > r.at)
    BY <1>1 DEF DiskWithinMemory
  <2>1. r.owner # p
    BY <1>1, <1>2 DEF Inv, TypeOK
  <2>2. /\ started'[r.owner] = started[r.owner]
        /\ audit_log'[r.owner] = audit_log[r.owner]
    BY <1>1, <1>2, <2>1 DEF Inv, TypeOK
  <2> QED
    BY <2>2 DEF DiskInv, DiskWithinMemory
<1>5. DiskCovers'
  <2> SUFFICES ASSUME NEW q \in Procs, NEW r \in audit_log'[q],
                      r.id > rewritten.at \/ rewritten.by = q
               PROVE  r.id \in exposed \/ \E d \in trail \union rest'[q] : d.id = r.id
    BY <1>1 DEF DiskCovers
  <2>1. q # p /\ r \in audit_log[q] /\ rest'[q] = rest[q]
    BY <1>1 DEF Inv, TypeOK
  <2> QED
    BY <2>1 DEF DiskInv, DiskCovers
<1>6. Unharmed'
  BY <1>1 DEF DiskInv, Unharmed, Inv, TypeOK
<1> QED
  BY <1>3, <1>4, <1>5, <1>6 DEF DiskInv

(***************************************************************************)
(* A write of a rewrite: the record it adds is one of p's log, and what it *)
(* hits was exposed.                                                       *)
(***************************************************************************)
LEMMA WriteDisk ==
    ASSUME Inv, DiskInv, NEW p \in Procs, WriteRecord(p)
    PROVE  DiskInv'
<1>1. PICK record \in rest[p], lost \in SUBSET {r \in trail : r.owner # p} :
        /\ rest' = [rest EXCEPT ![p] = @ \ {record}]
        /\ trail' = (trail \ lost) \union {record}
        /\ rewrote' = [rewrote EXCEPT ![p] = clock]
        /\ exposed' = Exposed(p, record)
        /\ UNCHANGED <<logVars, rewritten, clock>>
  BY DEF WriteRecord, Oldest
<1>2. /\ record \in audit_log[p] /\ record.owner = p /\ clock \in Nat
      /\ UNCHANGED <<audit_log, started, erased, rewritten, clock>>
  BY <1>1 DEF Inv, TypeOK, Identity, logVars
<1>3. /\ rest'[p] = rest[p] \ {record}
      /\ \A q \in Procs : q # p => rest'[q] = rest[q]
      /\ rewrote'[p] = clock
      /\ \A q \in Procs : q # p => rewrote'[q] = rewrote[q]
  BY <1>1 DEF Inv, TypeOK
<1>4. exposed \subseteq exposed'
  BY <1>1 DEF Exposed
<1>5. ErasedFromDisk'
  <2> SUFFICES ASSUME NEW q \in Procs, NEW x \in Searches, NEW r \in trail',
                      Mentions(r, x), r.at <= erased[q][x]
               PROVE  r.owner # q /\ rewrote'[r.owner] >= erased[q][x]
    BY <1>2 DEF ErasedFromDisk
  <2>1. /\ erased[q][x] \in Nat /\ erased[q][x] <= clock
        /\ \A u \in Procs : rewrote[u] \in Nat /\ rewrote[u] <= clock
    BY DEF Inv, TypeOK, Identity
  <2>2. CASE r = record
    <3>1. r.at \in Nat /\ r.at > erased[p][x] /\ erased[p][x] \in Nat
      BY <1>2, <2>2 DEF Inv, ErasedFromMemory, TypeOK, Records
    <3>2. q # p
      BY <2>1, <3>1
    <3> QED
      BY <1>2, <1>3, <2>1, <2>2, <3>2
  <2>3. CASE r \in trail
    <3>1. r.owner # q /\ rewrote[r.owner] >= erased[q][x] /\ r.owner \in Procs
      BY <2>3 DEF DiskInv, ErasedFromDisk, Inv, TypeOK, Records
    <3> QED
      BY <1>2, <1>3, <2>1, <3>1
  <2> QED
    BY <1>1, <2>2, <2>3
<1>6. DiskWithinMemory'
  <2> SUFFICES ASSUME NEW r \in trail', r.id > started[r.owner]
               PROVE  \E q \in audit_log[r.owner] :
                         q.id = r.id /\ (q = r \/ q.at > r.at)
    BY <1>2 DEF DiskWithinMemory
  <2>1. CASE r = record
    BY <1>2, <2>1
  <2>2. CASE r \in trail
    BY <2>2 DEF DiskInv, DiskWithinMemory
  <2> QED
    BY <1>1, <2>1, <2>2
<1>7. DiskCovers'
  <2> SUFFICES ASSUME NEW q \in Procs, NEW r \in audit_log[q],
                      r.id > rewritten.at \/ rewritten.by = q, r.id \notin exposed'
               PROVE  \E d \in trail' \union rest'[q] : d.id = r.id
    BY <1>2 DEF DiskCovers
  <2>1. PICK d \in trail \union rest[q] : d.id = r.id
    BY <1>4 DEF DiskInv, DiskCovers
  <2>2. CASE d \in rest[q]
    BY <1>1, <1>3, <2>1, <2>2
  <2>3. CASE d \in trail
    <3>1. d \notin lost
      BY <1>1, <1>4, <2>1, <2>3 DEF DiskInv, Unharmed
    <3> QED
      BY <1>1, <2>1, <2>3, <3>1
  <2> QED
    BY <2>1, <2>2, <2>3
<1>8. Unharmed'
  <2> SUFFICES ASSUME NEW q \in Procs, rest'[q] # {},
                      NEW r \in trail', r.owner # q
               PROVE  r.id \in exposed'
    BY DEF Unharmed
  <2>1. rest[q] # {}
    BY <1>3
  <2>2. CASE r \in trail
    BY <1>4, <2>1, <2>2 DEF DiskInv, Unharmed
  <2>3. CASE r = record
    BY <1>1, <1>2, <2>1, <2>3 DEF Exposed, Idle
  <2> QED
    BY <1>1, <2>2, <2>3
<1> QED
  BY <1>5, <1>6, <1>7, <1>8 DEF DiskInv

(***************************************************************************)
(* If the file can always be opened, then in every run, however rewrites   *)
(* and calls overlap and processes die: an erased record is on disk only   *)
(* because a rewrite by another process has written since; the file holds  *)
(* nothing its running owner no longer has; and every record since the     *)
(* file was last truncated, and all of the log of who truncated it, is on  *)
(* disk, about to be, or was written while another was in a rewrite.       *)
(***************************************************************************)
THEOREM DiskIsSound ==
    ASSUME FileOpens
    PROVE  Spec => [](ErasedFromDisk /\ DiskWithinMemory /\ DiskCovers)
<1> DEFINE IInv == Inv /\ DiskInv
<1>1. ComplianceInit => IInv
  BY InitInv
     DEF ComplianceInit, DiskInv, ErasedFromDisk, DiskWithinMemory, DiskCovers, Unharmed
<1>2. IInv /\ [Next]_complianceVars => IInv'
  <2> SUFFICES ASSUME Inv, DiskInv, [Next]_complianceVars
               PROVE  DiskInv'
    BY StepInv
  <2>1. Inv'
    BY StepInv
  <2>2. CASE UNCHANGED complianceVars
    BY <2>2 DEF complianceVars, logVars, fileVars, DiskInv, ErasedFromDisk,
                DiskWithinMemory, DiskCovers, Unharmed
  <2>3. CASE Next
    <3>1. PICK p \in Procs : Call(p) \/ WriteRecord(p)
      BY <2>3 DEF Next
    <3>2. CASE \E e \in Entries, d \in Details : log_audit_event(p, e, d)
      BY <3>2, LogDisk
    <3>3. CASE \E s \in Subjects, f \in Fields, v \in Values :
                  execute_dsr_correction(p, s, f, v)
      BY <3>3, CorrectionDisk
    <3>4. CASE \E s \in Subjects : execute_dsr_deletion(p, s)
      BY <2>1, <3>4, DeletionDisk
    <3>5. CASE enforce_data_retention_policy(p)
      BY <2>1, <3>5, RetentionDisk
    <3>6. CASE EndProcess(p)
      BY <3>6, EndDisk
    <3>7. CASE WriteRecord(p)
      BY <3>7, WriteDisk
    <3> QED
      BY <3>1, <3>2, <3>3, <3>4, <3>5, <3>6, <3>7 DEF Call
  <2> QED
    BY <2>2, <2>3
<1>3. IInv => ErasedFromDisk /\ DiskWithinMemory /\ DiskCovers
  BY DEF DiskInv
<1> QED
  BY <1>1, <1>2, <1>3, PTL DEF Spec

-----------------------------------------------------------------------------
(***************************************************************************)
(* How records leave a log.  A log is finite because its ids, which tell   *)
(* its records apart, are between 1 and the clock.                         *)
(***************************************************************************)
LEMMA LogIsFinite ==
    ASSUME Inv, NEW p \in Procs
    PROVE  /\ IsFiniteSet(audit_log[p])
           /\ \A r \in audit_log[p] : r.id \in Nat
           /\ \A r, q \in audit_log[p] : r.id = q.id => r = q
<1> DEFINE f == [r \in audit_log[p] |-> r.id]
<1>1. /\ clock \in Nat
      /\ \A r \in audit_log[p] : r.id \in Nat /\ r.id <= clock
      /\ \A r, q \in audit_log[p] : r.id = q.id => r = q
  <2>1. \A r \in audit_log[p] : r.id \in Nat /\ r.at \in Nat
    BY DEF Inv, TypeOK, Records
  <2> QED
    BY <2>1 DEF Inv, TypeOK, Identity
<1>2. f \in Injection(audit_log[p], 0 .. clock)
  BY <1>1 DEF Injection, IsInjective
<1>3. IsFiniteSet(0 .. clock)
  BY <1>1, FS_Interval
<1>4. IsFiniteSet(audit_log[p])
  BY <1>2, <1>3, FS_Injection
<1> QED
  BY <1>1, <1>4

(***************************************************************************)
(* What compliance.cpp:204 takes off the front of the vector: no more than *)
(* n records, and every one of them older than every record it leaves.     *)
(* The number of older records tells the n oldest apart, so that they are  *)
(* counted by the numbers below n.                                         *)
(***************************************************************************)
LEMMA OldestAreFew ==
    ASSUME NEW L, IsFiniteSet(L), NEW n \in Nat,
           \A r \in L : r.id \in Nat,
           \A r, q \in L : r.id = q.id => r = q
    PROVE  /\ IsFiniteSet(Oldest(L, n)) /\ Cardinality(Oldest(L, n)) \in Nat
           /\ Cardinality(Oldest(L, n)) <= n
           /\ \A r \in Oldest(L, n), q \in L \ Oldest(L, n) : r.id < q.id
<1> DEFINE older(r) == {q \in L : q.id < r.id}
           f == [r \in Oldest(L, n) |-> Cardinality(older(r))]
<1>1. \A r \in L : IsFiniteSet(older(r)) /\ Cardinality(older(r)) \in Nat
  BY FS_Subset, FS_CardinalityType
<1>2. ASSUME NEW r \in L, NEW q \in L, r.id < q.id
      PROVE  Cardinality(older(r)) < Cardinality(older(q))
  <2>1. older(r) \in SUBSET older(q)
    BY <1>2
  <2>2. r \in older(q) /\ r \notin older(r)
    BY <1>2
  <2>3. older(r) # older(q)
    BY <2>2
  <2>4. /\ Cardinality(older(r)) <= Cardinality(older(q))
        /\ Cardinality(older(r)) # Cardinality(older(q))
    BY <1>1, <2>1, <2>3, FS_Subset
  <2> DEFINE a == Cardinality(older(r))
             b == Cardinality(older(q))
  <2>5. a \in Nat /\ b \in Nat /\ a <= b /\ a # b
    BY <1>1, <2>4
  <2>6. a < b
    <3> HIDE DEF a, b
    <3> QED
      BY <2>5
  <2> QED
    BY <2>6
<1>3. Oldest(L, n) \subseteq L
      /\ \A r \in L : r \in Oldest(L, n) <=> Cardinality(older(r)) < n
  BY DEF Oldest
<1> HIDE DEF older
<1>4. f \in Injection(Oldest(L, n), 0 .. n - 1)
  <2>1. f \in [Oldest(L, n) -> 0 .. n - 1]
    BY <1>1, <1>3
  <2>2. ASSUME NEW r \in Oldest(L, n), NEW q \in Oldest(L, n), f[r] = f[q]
        PROVE  r = q
    <3>1. Cardinality(older(r)) = Cardinality(older(q))
      BY <2>2
    <3>2. ~ (r.id < q.id) /\ ~ (q.id < r.id)
      BY <1>1, <1>2, <1>3, <3>1
    <3> QED
      BY <1>3, <3>2
  <2> QED
    BY <2>1, <2>2 DEF Injection, IsInjective
<1>5. IsFiniteSet(0 .. n - 1) /\ Cardinality(0 .. n - 1) = n
  <2>1. 0 \in Int /\ n - 1 \in Int
    OBVIOUS
  <2>2. /\ IsFiniteSet(0 .. n - 1)
        /\ Cardinality(0 .. n - 1) = IF 0 > n - 1 THEN 0 ELSE (n - 1) - 0 + 1
    BY <2>1, FS_Interval
  <2> QED
    BY <2>2
<1>6. /\ IsFiniteSet(Oldest(L, n))
      /\ Cardinality(Oldest(L, n)) <= Cardinality(0 .. n - 1)
  BY <1>4, <1>5, FS_Injection
<1>7. Cardinality(Oldest(L, n)) \in Nat
  BY <1>6, FS_CardinalityType
<1>8. ASSUME NEW r \in Oldest(L, n), NEW q \in L \ Oldest(L, n)
      PROVE  r.id < q.id
  <2> DEFINE a == Cardinality(older(r))
             b == Cardinality(older(q))
  <2>0. a \in Nat /\ b \in Nat /\ a < n /\ ~ (b < n)
    BY <1>1, <1>3
  <2>1. a < b
    <3> HIDE DEF a, b
    <3> QED
      BY <2>0
  <2>2. ~ (q.id < r.id) /\ r # q
    BY <1>1, <1>2, <1>3, <2>1
  <2> QED
    BY <1>3, <2>2
<1> QED
  BY <1>5, <1>6, <1>7, <1>8

(***************************************************************************)
(* A step that takes nothing but g out of p's log.                         *)
(***************************************************************************)
LEMMA TakenOut ==
    ASSUME Inv, NEW p \in Procs, NEW g \in SUBSET audit_log[p],
           audit_log'[p] = audit_log[p] \ g
    PROVE  /\ Gone(p) = g
           /\ KeptIds(p) = {q.id : q \in audit_log[p] \ g}
BY LogIsFinite DEF Gone, KeptIds

(***************************************************************************)
(* The sweep of more than RetentionLimit records is one by age.            *)
(***************************************************************************)
LEMMA SweepIsByAge ==
    ASSUME Inv, NEW p \in Procs,
           Cardinality(audit_log[p]) > RetentionLimit,
           audit_log'[p] = audit_log[p] \ Oldest(audit_log[p], RetentionBatch)
    PROVE  LeftByAge(p)
<1> DEFINE L == audit_log[p]
           g == Oldest(L, RetentionBatch)
           f == [q \in L \ g |-> q.id]
<1>1. RetentionBatch \in Nat /\ RetentionLimit \in Nat
  BY RetentionAssumption
<1>2. /\ IsFiniteSet(L) /\ Cardinality(L) \in Nat
      /\ \A r \in L : r.id \in Nat
      /\ \A r, q \in L : r.id = q.id => r = q
  BY LogIsFinite, FS_CardinalityType
<1>3. g \in SUBSET L
  BY DEF Oldest
<1>4. /\ IsFiniteSet(g) /\ Cardinality(g) \in Nat
      /\ Cardinality(g) <= RetentionBatch
      /\ \A r \in g, q \in L \ g : r.id < q.id
  BY <1>1, <1>2, OldestAreFew
<1>5. Gone(p) = g /\ KeptIds(p) = {q.id : q \in L \ g}
  BY <1>3, TakenOut
<1> HIDE DEF L, g
<1>6. IsFiniteSet(L \ g) /\ Cardinality(L \ g) = Cardinality(L) - Cardinality(g)
  <2>1. L \cap g = g
    BY <1>3
  <2>2. /\ IsFiniteSet(L \ g)
        /\ Cardinality(L \ g) = Cardinality(L) - Cardinality(L \cap g)
    BY <1>2, FS_Difference
  <2> QED
    BY <2>1, <2>2
<1>7. Cardinality(KeptIds(p)) = Cardinality(L \ g)
  <2>1. f \in Injection(L \ g, KeptIds(p)) /\ f \in Surjection(L \ g, KeptIds(p))
    <3>1. f \in [L \ g -> KeptIds(p)]
      BY <1>5
    <3>2. \A k \in KeptIds(p) : \E q \in L \ g : f[q] = k
      BY <1>5
    <3>3. \A r, q \in L \ g : f[r] = f[q] => r = q
      BY <1>2
    <3> QED
      BY <3>1, <3>2, <3>3 DEF Injection, IsInjective, Surjection
  <2> QED
    BY <1>6, <2>1, FS_Surjection
<1>8. Cardinality(KeptIds(p)) > RetentionLimit - RetentionBatch
  BY <1>1, <1>2, <1>4, <1>6, <1>7 DEF L
<1>9. \A r \in Gone(p), k \in KeptIds(p) : r.id < k
  BY <1>4, <1>5
<1> QED
  BY <1>4, <1>5, <1>8, <1>9 DEF LeftByAge

(***************************************************************************)
(* What a call of q does to the log of p.                                  *)
(***************************************************************************)
LEMMA CallLeavesRightly ==
    ASSUME Inv, NEW p \in Procs, NEW q \in Procs, Call(q)
    PROVE  LeftRightly(p)
<1>1. CASE audit_log[p] \subseteq audit_log'[p]
  BY <1>1 DEF LeftRightly, Gone, KeptIds
<1>2. CASE \E e \in Entries, d \in Details : log_audit_event(q, e, d)
  <2>1. audit_log[p] \subseteq audit_log'[p]
    BY <1>2 DEF log_audit_event, Inv, TypeOK
  <2> QED
    BY <1>1, <2>1
<1>3. ASSUME NEW s \in Subjects, NEW f \in Fields, NEW v \in Values,
             execute_dsr_correction(q, s, f, v)
      PROVE  LeftRightly(p)
  <2>1. CASE q # p
    <3>1. audit_log'[p] = audit_log[p]
      BY <1>3, <2>1 DEF execute_dsr_correction, Inv, TypeOK
    <3> QED
      BY <1>1, <3>1
  <2>2. CASE q = p
    <3>1. audit_log'[p] = CorrectedLog(audit_log[p], s, f, v)
      BY <1>3, <2>2 DEF execute_dsr_correction, Inv, TypeOK
    <3>2. \A r \in audit_log[p] : Correctable(r, s, f) =>
             Corrected(r, f, v).id = r.id
      BY CorrectedType DEF Correctable, Inv, TypeOK
    <3>3. ASSUME NEW r \in audit_log[p]
          PROVE  \E t \in audit_log'[p] : t.id = r.id
      <4>1. CASE Correctable(r, s, f)
        <5>1. Corrected(r, f, v) \in audit_log'[p]
          BY <3>1, <4>1 DEF CorrectedLog
        <5> QED
          BY <3>2, <4>1, <5>1
      <4>2. CASE ~ Correctable(r, s, f)
        BY <3>1, <4>2 DEF CorrectedLog
      <4> QED
        BY <4>1, <4>2
    <3>4. Gone(p) = {}
      BY <3>3 DEF Gone, KeptIds
    <3> QED
      BY <3>4 DEF LeftRightly
  <2> QED
    BY <2>1, <2>2
<1>4. ASSUME NEW s \in Subjects, execute_dsr_deletion(q, s)
      PROVE  LeftRightly(p)
  <2>1. CASE q # p
    <3>1. audit_log'[p] = audit_log[p]
      BY <1>4, <2>1 DEF execute_dsr_deletion, Inv, TypeOK
    <3> QED
      BY <1>1, <3>1
  <2>2. CASE q = p
    <3>1. audit_log'[p] = audit_log[p] \ execute_dsr_access(p, s)
      BY <1>4, <2>2 DEF execute_dsr_deletion, Remaining, Inv, TypeOK
    <3>2. Gone(p) = execute_dsr_access(p, s)
      <4>1. execute_dsr_access(p, s) \in SUBSET audit_log[p]
        BY DEF execute_dsr_access
      <4> QED
        BY <3>1, <4>1, TakenOut
    <3>3. \A r \in Gone(p) : Mentions(r, s)
      BY <3>2 DEF execute_dsr_access
    <3>4. s \in Searches
      BY EngineAssumption
    <3>5. erased'[p][s] = clock'
      BY <1>4, <2>2, <3>4 DEF execute_dsr_deletion, Tick, Inv, TypeOK
    <3> QED
      BY <3>3, <3>4, <3>5 DEF LeftRightly, LeftByErasure
  <2> QED
    BY <2>1, <2>2
<1>5. CASE enforce_data_retention_policy(q)
  <2>1. CASE audit_log'[p] = audit_log[p]
    BY <1>1, <2>1
  <2>2. CASE audit_log'[p] # audit_log[p]
    <3>1. /\ q = p /\ Cardinality(audit_log[p]) > RetentionLimit
          /\ audit_log'[p] =
                audit_log[p] \ Oldest(audit_log[p], RetentionBatch)
      BY <1>5, <2>2 DEF enforce_data_retention_policy, Inv, TypeOK
    <3> QED
      BY <3>1, SweepIsByAge DEF LeftRightly
  <2> QED
    BY <2>1, <2>2
<1>6. CASE EndProcess(q)
  <2>1. CASE q # p
    <3>1. audit_log'[p] = audit_log[p]
      BY <1>6, <2>1 DEF EndProcess, Inv, TypeOK
    <3> QED
      BY <1>1, <3>1
  <2>2. CASE q = p
    <3>1. started'[p] = clock + 1 /\ started[p] <= clock
          /\ clock \in Nat /\ started[p] \in Nat
      BY <1>6, <2>2 DEF EndProcess, Inv, TypeOK, Identity
    <3>2. started'[p] # started[p]
      BY <3>1
    <3> QED
      BY <3>2 DEF LeftRightly
  <2> QED
    BY <2>1, <2>2
<1> QED
  BY <1>2, <1>3, <1>4, <1>5, <1>6 DEF Call

(***************************************************************************)
(* No call ever takes a record out of a running process's log except an    *)
(* erasure of a subject the record mentions (compliance.cpp:103-134) and a *)
(* sweep of the oldest (:201-223), whether or not the file could be opened.*)
(***************************************************************************)
THEOREM RemovalsAreJustified == Spec => RemovedByErasureOrAge
<1>1. ASSUME Inv, NEW p \in Procs, NEW q \in Procs, WriteRecord(q)
      PROVE  LeftRightly(p)
  BY <1>1 DEF WriteRecord, logVars, LeftRightly, Gone, KeptIds
<1>2. Inv /\ [Next]_complianceVars =>
         [\A p \in Procs : LeftRightly(p)]_complianceVars
  BY <1>1, CallLeavesRightly DEF Next
<1> QED
  BY InitInv, StepInv, <1>2, PTL DEF Spec, RemovedByErasureOrAge

\* The parts of the two results that runs check, one by one.

\* Logs, file and history have their shapes (compliance.h:9-19, :24).
THEOREM TypeIsInvariant == Spec => []TypeOK
  BY LogsAreSound, PTL

\* A record is known by its id, in every log and on disk (compliance.cpp:12).
THEOREM IdentityHolds == Spec => []Identity
  BY LogsAreSound, PTL

\* The file holds nothing that its running owner no longer has, if it always
\* opens (compliance.cpp:116-131, :206-218).
THEOREM DiskStaysWithinMemory ==
    ASSUME FileOpens
    PROVE  Spec => []DiskWithinMemory
  BY DiskIsSound, PTL

\* No record in memory since the file was truncated last, and none of the
\* process that truncated it, is missing on disk, but for those yet to be written
\* and those written during a rewrite of another, if the file always opens
\* (compliance.cpp:16-31, :117-130).
THEOREM DiskCoversMemory ==
    ASSUME FileOpens
    PROVE  Spec => []DiskCovers
  BY DiskIsSound, PTL
=============================================================================
