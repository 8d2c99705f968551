---------------------------- MODULE ConsoleProofs ----------------------------
(***************************************************************************)
(* Theorems about the login check, for every user name, and about the      *)
(* console, for any number of processes and every choice of user names,    *)
(* subjects, payloads and corrections: what the trail claims happened,     *)
(* what happened is in the log, the log's decisions bind the transfers,    *)
(* and raw payloads are sent by administrators only.                       *)
(*                                                                         *)
(* A step touches the tables of one process only (StepIsLocal).  What it   *)
(* leaves of its log is described once per call of the compliance engine   *)
(* (EventLog to QuietLog), what it leaves of its main() once per kind of   *)
(* menu entry (LoginMain to OtherMain), and what a rewrite does while      *)
(* main() waits for it once (RewriteLog); the theorems combine these.      *)
(***************************************************************************)
EXTENDS Console, SequenceTheorems, FiniteSetTheorems, WellFoundedInduction, TLAPS

\* SHA-256 as its users rely on it: different strings, different digests.
CollisionFree ==
    \A s, t \in Strings : generate_sha256(s) = generate_sha256(t) => s = t

(***************************************************************************)
(* The three literals of cryptography.cpp are strings of one or two        *)
(* tokens: rsa_sign_payload adds "_sig_", rsa_authenticate_client adds     *)
(* "_sig_private_key_of_" or "_sig_admin".                                 *)
(***************************************************************************)
LEMMA Literals ==
    /\ SIG \in Strings /\ Len(SIG) = 1
    /\ KEY_OF \in Strings /\ Len(KEY_OF) = 2
    /\ SIG_ADMIN \in Strings /\ Len(SIG_ADMIN) = 2
<1>1. ASSUME NEW S, NEW a \in S
      PROVE  <<a>> \in Seq(S) /\ Len(<<a>>) = 1
  OBVIOUS
<1>2. ASSUME NEW S, NEW a \in S, NEW b \in S
      PROVE  <<a, b>> \in Seq(S) /\ Len(<<a, b>>) = 2
  OBVIOUS
<1> QED
  BY <1>1, <1>2, TokensAssumption, Zenon DEF SIG, KEY_OF, SIG_ADMIN, Strings

(***************************************************************************)
(* operator+ of std::string.                                               *)
(***************************************************************************)
LEMMA Concat ==
    ASSUME NEW s \in Strings, NEW t \in Strings
    PROVE  s \o t \in Strings /\ Len(s \o t) = Len(s) + Len(t)
BY ConcatProperties DEF Strings

(***************************************************************************)
(* main.cpp signs  name "_sig_" name "_sig_private_key_of_" name  and      *)
(* rsa_authenticate_client expects  name "_sig_private_key_of_" name  or   *)
(* name "_sig_admin".  The three strings have different lengths whatever   *)
(* the name.                                                               *)
(***************************************************************************)
LEMMA SignedStringDiffers ==
    ASSUME NEW u \in Strings
    PROVE  /\ u \o SIG \o (u \o KEY_OF \o u) \in Strings
           /\ u \o KEY_OF \o u \in Strings
           /\ u \o SIG_ADMIN \in Strings
           /\ u \o SIG \o (u \o KEY_OF \o u) # u \o KEY_OF \o u
           /\ u \o SIG \o (u \o KEY_OF \o u) # u \o SIG_ADMIN
<1>1. u \o KEY_OF \in Strings /\ Len(u \o KEY_OF) = Len(u) + 2
  BY Literals, Concat
<1>2. /\ u \o KEY_OF \o u \in Strings
      /\ Len(u \o KEY_OF \o u) = Len(u \o KEY_OF) + Len(u)
  BY <1>1, Concat
<1>3. u \o SIG \in Strings /\ Len(u \o SIG) = Len(u) + 1
  BY Literals, Concat
<1>4. /\ u \o SIG \o (u \o KEY_OF \o u) \in Strings
      /\ Len(u \o SIG \o (u \o KEY_OF \o u)) =
            Len(u \o SIG) + Len(u \o KEY_OF \o u)
  BY <1>2, <1>3, Concat
<1>5. u \o SIG_ADMIN \in Strings /\ Len(u \o SIG_ADMIN) = Len(u) + 2
  BY Literals, Concat
<1>6. Len(u) \in Nat
  BY LenProperties DEF Strings
<1> DEFINE signed   == u \o SIG \o (u \o KEY_OF \o u)
           expected == u \o KEY_OF \o u
           admin    == u \o SIG_ADMIN
<1>7. Len(signed) # Len(expected) /\ Len(signed) # Len(admin)
  <2>1. Len(expected) = 2 * Len(u) + 2
    BY <1>1, <1>2, <1>6
  <2>2. Len(signed) = 3 * Len(u) + 3
    BY <2>1, <1>3, <1>4, <1>6
  <2> HIDE DEF signed, expected, admin
  <2>3. Len(admin) = Len(u) + 2
    BY <1>5 DEF admin
  <2> QED
    BY <2>1, <2>2, <2>3, <1>6
<1> QED
  BY <1>2, <1>4, <1>5, <1>7

(***************************************************************************)
(* A collision-free hash never makes the check succeed: main.cpp:59 turns  *)
(* every user away, the three of README.md's walkthrough included.         *)
(***************************************************************************)
THEOREM NobodyAuthenticates ==
    ASSUME CollisionFree, NEW u \in Strings
    PROVE  ~ rsa_authenticate_client(u, LoginSignature(u))
BY SignedStringDiffers
   DEF CollisionFree, rsa_authenticate_client, LoginSignature, rsa_sign_payload

-----------------------------------------------------------------------------
(***************************************************************************)
(* A record that is pending leads to the end of the process.               *)
(***************************************************************************)
Refusing ==
    /\ NobodyReachesMenu
    /\ pc \in [Procs -> {"login", "audit", "refused"}]
    /\ DOMAIN pending = Procs
    /\ \A p \in Procs : pc[p] = "audit" => pending[p].next = "refused"

(***************************************************************************)
(* With a collision-free hash no process ever shows its menu: the console  *)
(* is a program that logs one failed login per run, for every user.        *)
(***************************************************************************)
THEOREM LoginAlwaysRefused ==
    ASSUME CollisionFree
    PROVE  Spec => []NobodyReachesMenu
<1>1. Init => Refusing
  BY DEF Init, Refusing, NobodyReachesMenu
<1>2. Refusing /\ [Next]_vars => Refusing'
  <2> SUFFICES ASSUME Refusing, [Next]_vars
               PROVE  Refusing'
    OBVIOUS
  <2>1. CASE UNCHANGED vars
    BY <2>1 DEF vars, consoleVars, Refusing, NobodyReachesMenu
  <2>2. CASE Next
    <3>1. PICK p \in Procs : Step(p)
      BY <2>2 DEF Next
    <3>2. ASSUME NEW u \in Usernames, NEW w \in Passwords, Login(p, u, w)
          PROVE  Refusing'
      <4>1. <<u>> \in Strings
        BY ConsoleAssumption DEF Strings
      <4>2. ~ rsa_authenticate_client(<<u>>, LoginSignature(<<u>>))
        BY <4>1, NobodyAuthenticates
      <4>3. /\ GoAudit(p, AuditEntry("0", "Unknown", "None", "None", NO_HASH,
                                     FALSE, "DENIED_BY_RBAC"),
                       <<"Authentication failed for identity: ", u>>, "refused")
            /\ wire' = wire
        BY <3>2, <4>2 DEF Login
      <4>4. PICK e, d : /\ pc' = [pc EXCEPT ![p] = "audit"]
                        /\ pending' = [pending EXCEPT ![p] =
                              [entry |-> e, details |-> d, next |-> "refused"]]
        BY <4>3 DEF GoAudit
      <4>5. pc' \in [Procs -> {"login", "audit", "refused"}] /\ DOMAIN pending' = Procs
        BY <4>4 DEF Refusing
      <4>6. \A q \in Procs : pc'[q] = "audit" => pending'[q].next = "refused"
        BY <4>4 DEF Refusing
      <4>7. wire' = {}
        BY <4>3 DEF Refusing, NobodyReachesMenu
      <4> QED
        BY <4>5, <4>6, <4>7 DEF Refusing, NobodyReachesMenu
    <3>3. ASSUME Audit(p)
          PROVE  Refusing'
      BY <3>3 DEF Audit, Refusing, NobodyReachesMenu
    <3>4. ASSUME Exit(p) \/ Kill(p) \/ Rewrite(p)
          PROVE  Refusing'
      BY <3>4 DEF Exit, Kill, Restart, Rewrite, consoleVars, Refusing, NobodyReachesMenu
    <3>5. pc[p] # "menu" /\ pc[p] # "write"
      BY DEF Refusing
    <3>6. ASSUME WriteSucceeds(p) \/ WriteFails(p) \/ EnforceRetention(p) PROVE FALSE
      BY <3>5, <3>6 DEF WriteSucceeds, WriteFails, EnforceRetention
    <3>7. ASSUME NEW c, NEW l, NEW s, NEW t, Send(p, c, l, s, t) PROVE FALSE
      BY <3>5, <3>7 DEF Send
    <3>8. ASSUME NEW m, NEW t, Receive(p, m, t) PROVE FALSE
      BY <3>5, <3>8 DEF Receive
    <3>9. ASSUME NEW s, NEW f, NEW v,
                 \/ DsrAccess(p, s) \/ DsrCorrection(p, s, f, v)
                 \/ DsrErasure(p, s) \/ ManageConsent(p, s, v)
          PROVE  FALSE
      BY <3>5, <3>9 DEF DsrAccess, DsrCorrection, DsrErasure, ManageConsent
    <3> QED
      BY <3>1, <3>2, <3>3, <3>4, <3>6, <3>7, <3>8, <3>9 DEF Step, Menu
  <2> QED
    BY <2>1, <2>2
<1>3. Refusing => NobodyReachesMenu
  BY DEF Refusing
<1> QED
  BY <1>1, <1>2, <1>3, PTL DEF Spec
-----------------------------------------------------------------------------
(***************************************************************************)
(* The invariant of the console.                                           *)
(***************************************************************************)

\* A digest is a string.
DigestsAreStrings == \A s \in Strings : generate_sha256(s) \in Strings

LogRecords == [id : Nat, at : Nat, owner : Procs, entry : Entries, details : Seq(Texts)]
Drafts     == [channel : Channels, subject : Subjects,
               classification : Classifications, payload : Strings,
               consent : BOOLEAN, minimized : BOOLEAN]
Pendings   == [entry : Entries, details : Seq(Texts), next : {"menu", "refused"}]
Messages   == [from : Procs, role : Roles, at : Nat, channel : Channels,
               classification : Classifications, subject : Subjects,
               payload : Strings]

\* What each process has for itself ...
Tables ==
    /\ pc = [q \in Procs |-> pc[q]]
    /\ username = [q \in Procs |-> username[q]]
    /\ password = [q \in Procs |-> password[q]]
    /\ consent_db = [q \in Procs |-> consent_db[q]]
    /\ draft = [q \in Procs |-> draft[q]]
    /\ pending = [q \in Procs |-> pending[q]]
    /\ audit_log = [q \in Procs |-> audit_log[q]]
    /\ started = [q \in Procs |-> started[q]]
    /\ erased = [q \in Procs |-> erased[q]]
    /\ rest = [q \in Procs |-> rest[q]]

\* ... its main() ...
MainOK(q) ==
    /\ pc[q] \in {"login", "menu", "write", "audit", "refused"}
    /\ username[q] \in Usernames \union {Nobody}
    /\ pc[q] = "login" <=> username[q] = Nobody
    /\ password[q] \in Passwords \union {Nobody}
    /\ consent_db[q] \in [Subjects -> BOOLEAN]
    /\ IF pc[q] = "write" THEN draft[q] \in Drafts ELSE draft[q] = NoDraft
    /\ IF pc[q] = "audit" THEN pending[q] \in Pendings ELSE pending[q] = NoEntry

\* ... and its compliance engine.
LogOK(q) ==
    /\ audit_log[q] \subseteq LogRecords
    /\ IsFiniteSet(audit_log[q])
    /\ \A r \in audit_log[q] : r.id <= clock /\ r.owner = q
    /\ started[q] \in Nat /\ started[q] <= clock
    /\ erased[q] \in [Searches -> Nat]
    /\ rest[q] \subseteq audit_log[q]

Shapes ==
    /\ Tables
    /\ \A q \in Procs : MainOK(q) /\ LogOK(q)
    /\ clock \in Nat
    /\ trail \subseteq LogRecords
    /\ wire \subseteq Messages
    /\ \A m \in wire : m.at <= clock

\* A transfer that is about to be logged is that of a message in a channel.
PendingWritten ==
    \A p \in Procs :
        pc[p] = "audit" /\ IsTransfer(pending[p].entry) =>
            \E m \in wire : m.from = p /\ Records(pending[p].entry, m)

\* The texts no erasure finds, and the details only an erasure of s finds.
Plain    == {t \in Texts : \A x \in Subjects : ~ Occurs(x, t)}
About(s) == Seq({s} \union Plain)

\* WrittenIsLogged, where the record of a message mentions its subject only.
Logged ==
    \A m \in wire :
        LET p == m.from
        IN  started[p] <= m.at =>
              \/ /\ pc[p] = "audit" /\ Records(pending[p].entry, m)
                 /\ pending[p].details \in About(m.subject)
              \/ \E r \in audit_log[p] :
                    r.id > m.at /\ Records(r.entry, m) /\ r.details \in About(m.subject)
              \/ \E x \in Searches : erased[p][x] > m.at /\ Occurs(x, m.subject)
              \/ \A r \in audit_log[p] : r.id > m.at

Decides(details, s) ==
    details \in {<<"Consent setting modified for Subject: ", s>>,
                 <<"Enforced Erasure for Subject: ", s>>}

\* Up to call k, every refusal of s in the log was followed by a grant, or by
\* a record that was corrected since and that no erasure finds.
Overruled(log, s, k) ==
    \A q \in log :
        q.id <= k /\ Decides(q.details, s) /\ ~ q.entry.consent_verified =>
            \E r \in log :
                /\ q.id < r.id /\ r.id <= k
                /\ \/ Decides(r.details, s) /\ r.entry.consent_verified
                   \/ r.at # r.id /\ r.details \in Seq(Plain)

\* p's registry says what the last decision p logged, or is about to log, says.
RegistryLogged(p, s) ==
    consent_db[p][s] =>
        IF pc[p] = "audit" /\ Decides(pending[p].details, s)
        THEN pending[p].entry.consent_verified
        ELSE Overruled(audit_log[p], s, clock)

\* The log agrees with the registry, the registry with what is being written.
Decided ==
    /\ \A p \in Procs, s \in Subjects : RegistryLogged(p, s)
    /\ \A p \in Procs :
          pc[p] = "write" =>
              draft[p].classification = "Public" \/ consent_db[p][draft[p].subject]
    /\ \A m \in wire :
          started[m.from] <= m.at /\ m.classification # "Public" =>
              Overruled(audit_log[m.from], m.subject, m.at)

\* OnlyAdminsSendRaw, of what is about to be written too.
Raw ==
    /\ OnlyAdminsSendRaw
    /\ \A p \in Procs :
          pc[p] = "write" /\ role(p) # "Admin" =>
              (draft[p].classification \in {"Restricted", "Internal"} =>
                  \A t \in Payloads : \A i \in DOMAIN t, j \in DOMAIN draft[p].payload :
                      t[i] # draft[p].payload[j])

-----------------------------------------------------------------------------
(***************************************************************************)
(* A step of main() itself, not one of the rewrite it has begun: it is its *)
(* process's own.                                                          *)
(***************************************************************************)
Act(p) == Menu(p) \/ Kill(p)

Writes(p, f, g) == g = f \/ \E v : g = [f EXCEPT ![p] = v]

OwnWrites(p) ==
    /\ Writes(p, pc, pc') /\ Writes(p, username, username')
    /\ Writes(p, password, password') /\ Writes(p, consent_db, consent_db')
    /\ Writes(p, draft, draft') /\ Writes(p, pending, pending')
    /\ Writes(p, audit_log, audit_log') /\ Writes(p, started, started')
    /\ Writes(p, erased, erased') /\ Writes(p, rest, rest')

LEMMA StepsWriteOwn ==
    ASSUME NEW p \in Procs, Act(p)
    PROVE  OwnWrites(p)
<1> USE DEF OwnWrites, Writes
<1>1. ASSUME NEW e, NEW d, NEW n, GoAudit(p, e, d, n)
      PROVE  Writes(p, pc, pc') /\ Writes(p, pending, pending')
  BY <1>1 DEF GoAudit
<1>2. ASSUME \/ \E u \in Usernames, w \in Passwords : Login(p, u, w)
             \/ Audit(p)
      PROVE  OwnWrites(p)
  <2>1. CASE Audit(p)
    BY <2>1 DEF Audit, log_audit_event
  <2>2. ASSUME NEW u, NEW w, Login(p, u, w) PROVE OwnWrites(p)
    <3>1. Writes(p, pc, pc') /\ Writes(p, pending, pending')
      <4> HIDE DEF OwnWrites, Writes
      <4> QED
        BY <1>1, <2>2 DEF Login
    <3> QED
      BY <2>2, <3>1 DEF Login, complianceVars, logVars, fileVars
  <2> QED
    BY <1>2, <2>1, <2>2
<1>3. ASSUME NEW c, NEW l, NEW s, NEW t, Send(p, c, l, s, t) PROVE OwnWrites(p)
  BY <1>3 DEF Send, GoAudit, complianceVars, logVars, fileVars
<1>4. ASSUME WriteSucceeds(p) \/ WriteFails(p) PROVE OwnWrites(p)
  BY <1>4 DEF WriteSucceeds, WriteFails, GoLogTransfer, GoAudit, complianceVars, logVars, fileVars
<1>5. ASSUME NEW m, NEW t, Receive(p, m, t) PROVE OwnWrites(p)
  BY <1>5 DEF Receive, GoAudit, complianceVars, logVars, fileVars
<1>6. ASSUME NEW s, DsrAccess(p, s) PROVE OwnWrites(p)
  BY <1>6 DEF DsrAccess, GoAudit, complianceVars, logVars, fileVars
<1>7. ASSUME NEW s, NEW f, NEW v, DsrCorrection(p, s, f, v) PROVE OwnWrites(p)
  BY <1>7 DEF DsrCorrection, execute_dsr_correction, consoleVars, fileVars
<1>8. ASSUME NEW s, DsrErasure(p, s) PROVE OwnWrites(p)
  BY <1>8 DEF DsrErasure, execute_dsr_deletion, RewriteTrail, fileVars, GoAudit
<1>9. ASSUME NEW s, NEW g, ManageConsent(p, s, g) PROVE OwnWrites(p)
  BY <1>9 DEF ManageConsent, GoAudit, complianceVars, logVars, fileVars
<1>10. ASSUME EnforceRetention(p) PROVE OwnWrites(p)
  BY <1>10 DEF EnforceRetention, enforce_data_retention_policy, RewriteTrail, fileVars,
               GoAudit
<1>11. ASSUME Exit(p) \/ Kill(p) PROVE OwnWrites(p)
  BY <1>11 DEF Exit, Kill, Restart, EndProcess
<1> HIDE DEF OwnWrites, Writes
<1> QED
  BY <1>2, <1>3, <1>4, <1>5, <1>6, <1>7, <1>8, <1>9, <1>10, <1>11 DEF Act, Menu

Untouched(q) ==
    /\ pc'[q] = pc[q] /\ username'[q] = username[q] /\ password'[q] = password[q]
    /\ consent_db'[q] = consent_db[q] /\ draft'[q] = draft[q]
    /\ pending'[q] = pending[q] /\ audit_log'[q] = audit_log[q]
    /\ started'[q] = started[q] /\ erased'[q] = erased[q]
    /\ rest'[q] = rest[q]

LEMMA StepIsLocal ==
    ASSUME Tables, NEW p \in Procs, Act(p)
    PROVE  Tables' /\ \A q \in Procs : q # p => Untouched(q)
<1>2. OwnWrites(p)
  BY StepsWriteOwn
<1>3. /\ pc' = [q \in Procs |-> pc'[q]]
      /\ \A q \in Procs : q # p => pc'[q] = pc[q]
  BY <1>2 DEF OwnWrites, Writes, Tables
<1>4. /\ username' = [q \in Procs |-> username'[q]]
      /\ \A q \in Procs : q # p => username'[q] = username[q]
  BY <1>2 DEF OwnWrites, Writes, Tables
<1>5. /\ password' = [q \in Procs |-> password'[q]]
      /\ \A q \in Procs : q # p => password'[q] = password[q]
  BY <1>2 DEF OwnWrites, Writes, Tables
<1>6. /\ consent_db' = [q \in Procs |-> consent_db'[q]]
      /\ \A q \in Procs : q # p => consent_db'[q] = consent_db[q]
  BY <1>2 DEF OwnWrites, Writes, Tables
<1>7. /\ draft' = [q \in Procs |-> draft'[q]]
      /\ \A q \in Procs : q # p => draft'[q] = draft[q]
  BY <1>2 DEF OwnWrites, Writes, Tables
<1>8. /\ pending' = [q \in Procs |-> pending'[q]]
      /\ \A q \in Procs : q # p => pending'[q] = pending[q]
  BY <1>2 DEF OwnWrites, Writes, Tables
<1>9. /\ audit_log' = [q \in Procs |-> audit_log'[q]]
      /\ \A q \in Procs : q # p => audit_log'[q] = audit_log[q]
  BY <1>2 DEF OwnWrites, Writes, Tables
<1>10. /\ started' = [q \in Procs |-> started'[q]]
      /\ \A q \in Procs : q # p => started'[q] = started[q]
  BY <1>2 DEF OwnWrites, Writes, Tables
<1>11. /\ erased' = [q \in Procs |-> erased'[q]]
      /\ \A q \in Procs : q # p => erased'[q] = erased[q]
  BY <1>2 DEF OwnWrites, Writes, Tables
<1>12. /\ rest' = [q \in Procs |-> rest'[q]]
      /\ \A q \in Procs : q # p => rest'[q] = rest[q]
  BY <1>2 DEF OwnWrites, Writes, Tables
<1> QED
  BY <1>3, <1>4, <1>5, <1>6, <1>7, <1>8, <1>9, <1>10, <1>11, <1>12
     DEF Tables, Untouched

-----------------------------------------------------------------------------
(***************************************************************************)
(* What main() leaves behind at a step.                                    *)
(***************************************************************************)
LEMMA Sequences123 ==
    ASSUME NEW S, NEW a \in S, NEW b \in S, NEW c \in S
    PROVE  <<a>> \in Seq(S) /\ <<a, b>> \in Seq(S) /\ <<a, b, c>> \in Seq(S)
OBVIOUS

LEMMA EntryShape ==
    ASSUME NEW i \in {"0", "1240", "2480"}, NEW r \in Roles \union {"Unknown"},
           NEW c \in Channels \union {"None"}, NEW l \in Classifications \union {"None"},
           NEW h \in Strings, NEW b \in BOOLEAN, NEW s \in Statuses
    PROVE  AuditEntry(i, r, c, l, h, b, s) \in Entries
BY DEF AuditEntry, Entries

LEMMA RoleShape == \A p : role(p) \in Roles
BY DEF role, get_role, Roles

LEMMA NoHashShape == NO_HASH \in Strings
BY LiteralsAssumption, Sequences123 DEF NO_HASH, Strings

LEMMA RequestShape ==
    ASSUME NEW p, NEW b \in BOOLEAN
    PROVE  RequestEntry(p, b) \in Entries
<1>1. "SUCCESS" \in Statuses
  BY DEF Statuses
<1> QED
  BY <1>1, EntryShape, RoleShape, NoHashShape DEF RequestEntry

LEMMA GoesToAudit ==
    ASSUME Tables, NEW p \in Procs, NEW e, NEW d, NEW n, GoAudit(p, e, d, n)
    PROVE  /\ pc'[p] = "audit" /\ pending'[p] = [entry |-> e, details |-> d, next |-> n]
           /\ e \in Entries /\ d \in Seq(Texts) /\ n \in {"menu", "refused"}
                 => pending'[p] \in Pendings
<1>1. pc'[p] = "audit" /\ pending'[p] = [entry |-> e, details |-> d, next |-> n]
  BY DEF Tables, GoAudit
<1> QED
  BY <1>1 DEF Pendings

\* What remains to be seen of a step that prepares a record.
LEMMA AuditedMain ==
    ASSUME NEW p \in Procs, MainOK(p), pc[p] # "write",
           pc'[p] = "audit", pending'[p] \in Pendings,
           draft'[p] = draft[p],
           username'[p] \in Usernames, password'[p] \in Passwords \union {Nobody},
           consent_db'[p] \in [Subjects -> BOOLEAN]
    PROVE  MainOK(p)'
BY ConsoleAssumption DEF MainOK

LEMMA LoginMain ==
    ASSUME Shapes, NEW p \in Procs, NEW u \in Usernames, NEW w \in Passwords, Login(p, u, w)
    PROVE  MainOK(p)'
<1>1. /\ pc[p] = "login" /\ username'[p] = u /\ password'[p] = w
      /\ draft'[p] = draft[p] /\ consent_db'[p] = consent_db[p]
  BY DEF Shapes, Tables, Login
<1>2. pc'[p] = "audit" /\ pending'[p] \in Pendings
  <2>1. /\ AuditEntry("0", "Unknown", "None", "None", NO_HASH, FALSE, "DENIED_BY_RBAC") \in Entries
        /\ AuditEntry("1240", get_role(u), "None", "None", NO_HASH, TRUE, "SUCCESS") \in Entries
    <3>1. get_role(u) \in Roles
      BY DEF get_role, Roles
    <3> QED
      BY <3>1, EntryShape, NoHashShape DEF Statuses
  <2>2. /\ <<"Authentication failed for identity: ", u>> \in Seq(Texts)
        /\ <<"Identity verified via RSA-2048.">> \in Seq(Texts)
    BY Sequences123 DEF Texts
  <2>3. \/ GoAudit(p, AuditEntry("0", "Unknown", "None", "None", NO_HASH, FALSE, "DENIED_BY_RBAC"),
                   <<"Authentication failed for identity: ", u>>, "refused")
        \/ GoAudit(p, AuditEntry("1240", get_role(u), "None", "None", NO_HASH, TRUE, "SUCCESS"),
                   <<"Identity verified via RSA-2048.">>, "menu")
    BY Zenon DEF Login
  <2> QED
    BY <2>1, <2>2, <2>3, GoesToAudit DEF Shapes
<1> QED
  BY <1>1, <1>2, AuditedMain DEF Shapes, MainOK

\* A minimized payload is a string if the payload is.
LEMMA MinimizedShape ==
    ASSUME DigestsAreStrings, NEW t \in Strings, NEW l, NEW r
    PROVE  apply_data_minimization(t, l, r) \in Strings \/ apply_data_minimization(t, l, r) = REDACTED
<1>1. PSEUDO \in Strings /\ DENIED \in Strings
  BY LiteralsAssumption, Sequences123 DEF PSEUDO, DENIED, Strings
<1>2. generate_sha256(t) \in Strings
  BY DEF DigestsAreStrings
<1>3. PSEUDO \o generate_sha256(t) \in Strings
  BY <1>1, <1>2, Concat
<1>4. MaskEmail(t) \in Strings
  <2>1. \A i : [t EXCEPT ![i] = MASK] \in Strings
    <3> TAKE i
    <3>1. t \in [1 .. Len(t) -> Tokens] /\ Len(t) \in Nat
      BY LenProperties DEF Strings
    <3>2. [t EXCEPT ![i] = MASK] \in [1 .. Len(t) -> Tokens]
      BY <3>1, LiteralsAssumption
    <3> QED
      BY <3>1, <3>2 DEF Strings
  <2> QED
    BY <2>1 DEF MaskEmail
<1> QED
  BY <1>1, <1>3, <1>4 DEF apply_data_minimization

LEMMA SendMain ==
    ASSUME Shapes, DigestsAreStrings, NEW p \in Procs,
           NEW c \in Channels, NEW l \in Classifications, NEW s \in Subjects, NEW t \in Payloads,
           Send(p, c, l, s, t)
    PROVE  MainOK(p)'
<1> DEFINE consent   == check_consent(consent_db[p], s)
           minimized == apply_data_minimization(t, l, role(p))
           denied(status) == AuditEntry("1240", role(p), c, l, NO_HASH, consent, status)
<1>1. /\ pc[p] = "menu" /\ username'[p] = username[p] /\ password'[p] = password[p]
      /\ consent_db'[p] = consent_db[p]
  BY DEF Shapes, Tables, Send
<1>2. consent \in BOOLEAN
  BY DEF check_consent, Shapes, MainOK
<1>3. \A st \in Statuses : denied(st) \in Entries
  BY <1>2, EntryShape, RoleShape, NoHashShape
<1>4. ASSUME NEW st \in Statuses, NEW d \in Seq(Texts), GoAudit(p, denied(st), d, "menu"),
             draft' = draft
      PROVE  MainOK(p)'
  <2>1. pc'[p] = "audit" /\ pending'[p] \in Pendings
    BY <1>3, <1>4, GoesToAudit DEF Shapes
  <2> QED
    BY <1>1, <1>4, <2>1, AuditedMain DEF Shapes, MainOK
<1>5. CASE GoAudit(p, denied("DENIED_BY_CONSENT"),
                   <<"Blocked transmission of Subject ID: ", s, " (Consent Revoked)">>, "menu")
           /\ draft' = draft
  <2>1. <<"Blocked transmission of Subject ID: ", s, " (Consent Revoked)">> \in Seq(Texts)
    BY Sequences123 DEF Texts
  <2> HIDE DEF denied
  <2> QED
    BY <1>4, <1>5, <2>1 DEF Statuses
<1>6. CASE GoAudit(p, denied("DENIED_BY_RBAC"),
                   <<"Blocked process reading restricted payload for Subject ID: ", s>>, "menu")
           /\ draft' = draft
  <2>1. <<"Blocked process reading restricted payload for Subject ID: ", s>> \in Seq(Texts)
    BY Sequences123 DEF Texts
  <2> HIDE DEF denied
  <2> QED
    BY <1>4, <1>6, <2>1 DEF Statuses
<1>7. CASE /\ minimized # REDACTED /\ pc' = [pc EXCEPT ![p] = "write"] /\ pending' = pending
           /\ draft' = [draft EXCEPT ![p] =
                          [channel |-> c, subject |-> s, classification |-> l,
                           payload |-> minimized, consent |-> consent,
                           minimized |-> minimized # t]]
  <2>1. minimized \in Strings
    BY <1>7, MinimizedShape, ConsoleAssumption
  <2> HIDE DEF minimized, consent
  <2>2. pc'[p] = "write" /\ draft'[p] \in Drafts
    BY <1>2, <1>7, <2>1 DEF Shapes, Tables, Drafts
  <2> QED
    BY <1>1, <1>7, <2>2 DEF Shapes, MainOK
<1> QED
  BY <1>5, <1>6, <1>7, Zenon DEF Send

\* The record of what p is writing.
LEMMA TransferRecord ==
    ASSUME Shapes, DigestsAreStrings, NEW p \in Procs, pc[p] = "write", GoLogTransfer(p)
    PROVE  /\ pc'[p] = "audit" /\ pending'[p] \in Pendings
           /\ pending'[p].entry =
                 AuditEntry("1240", role(p), draft[p].channel, draft[p].classification,
                            generate_sha256(draft[p].payload), draft[p].consent, "SUCCESS")
           /\ pending'[p].details \in
                 Seq({draft[p].subject, "Subject ID ", " payload written to channel",
                      " (Data Minimization Applied)"})
           /\ Len(pending'[p].details) >= 3
<1> DEFINE e == AuditEntry("1240", role(p), draft[p].channel, draft[p].classification,
                           generate_sha256(draft[p].payload), draft[p].consent, "SUCCESS")
           a == <<"Subject ID ", draft[p].subject, " payload written to channel">>
           b == IF draft[p].minimized THEN <<" (Data Minimization Applied)">> ELSE <<>>
           T == {draft[p].subject, "Subject ID ", " payload written to channel",
                 " (Data Minimization Applied)"}
<1>1. draft[p] \in Drafts
  BY DEF Shapes, MainOK
<1>2. GoAudit(p, e, a \o b, "menu")
  BY DEF GoLogTransfer
<1>3. a \in Seq(T) /\ b \in Seq(T) /\ Len(a) = 3
  <2>1. a \in Seq(T)
    BY Sequences123
  <2>2. b \in Seq(T)
    BY Sequences123, EmptySeq
  <2> QED
    BY <2>1, <2>2
<1>4. e \in Entries
  <2>1. generate_sha256(draft[p].payload) \in Strings
    BY <1>1 DEF Drafts, DigestsAreStrings
  <2> QED
    BY <1>1, <2>1, EntryShape, RoleShape DEF Drafts, Statuses
<1> HIDE DEF a, b, e, T
<1>5. PICK d \in Seq(T) : d = a \o b /\ Len(d) = Len(a) + Len(b)
  <2>1. a \o b \in Seq(T) /\ Len(a \o b) = Len(a) + Len(b)
    BY <1>3, ConcatProperties, Zenon
  <2> QED
    BY <2>1, Zenon
<1>6. Len(d) >= 3
  <2>1. Len(b) \in Nat
    BY <1>3, LenProperties
  <2> QED
    BY <1>3, <1>5, <2>1
<1>7. T \subseteq Texts
  BY <1>1 DEF Drafts, Texts, T
<1>8. d \in Seq(Texts)
  BY <1>7, SeqMonotonic
<1>9. GoAudit(p, e, d, "menu")
  BY <1>2, <1>5
<1>10. /\ pc'[p] = "audit" /\ pending'[p] = [entry |-> e, details |-> d, next |-> "menu"]
       /\ pending'[p] \in Pendings
  BY <1>4, <1>8, <1>9, GoesToAudit DEF Shapes
<1>11. pending'[p].entry = e /\ pending'[p].details = d
  BY <1>10
<1> QED
  BY <1>6, <1>10, <1>11 DEF e, T

LEMMA WriteMain ==
    ASSUME Shapes, DigestsAreStrings, NEW p \in Procs, WriteSucceeds(p) \/ WriteFails(p)
    PROVE  MainOK(p)'
<1>1. /\ pc[p] = "write" /\ username'[p] = username[p] /\ password'[p] = password[p]
      /\ consent_db'[p] = consent_db[p] /\ draft'[p] = NoDraft
  BY DEF Shapes, Tables, WriteSucceeds, WriteFails
<1>2. \/ pc'[p] = "menu" /\ pending'[p] = pending[p]
      \/ pc'[p] = "audit" /\ pending'[p] \in Pendings
  <2>1. CASE WriteFails(p)
    BY <2>1 DEF Shapes, Tables, WriteFails
  <2>2. CASE WriteSucceeds(p)
    BY <1>1, <2>2, TransferRecord DEF WriteSucceeds
  <2> QED
    BY <2>1, <2>2
<1> QED
  BY <1>1, <1>2 DEF Shapes, MainOK

LEMMA RequestMain ==
    ASSUME Shapes, NEW p \in Procs, NEW e \in Entries, NEW d \in Seq(Texts),
           pc[p] = "menu", GoAudit(p, e, d, "menu"),
           UNCHANGED <<username, password, draft>>, consent_db'[p] \in [Subjects -> BOOLEAN]
    PROVE  MainOK(p)'
<1>1. pc'[p] = "audit" /\ pending'[p] \in Pendings
  BY GoesToAudit DEF Shapes
<1> QED
  BY <1>1, AuditedMain DEF Shapes, MainOK

LEMMA MenuMain ==
    ASSUME Shapes, DigestsAreStrings, NEW p \in Procs,
           \/ \E m \in wire : \E t \in {m.payload} \union Damage : Receive(p, m, t)
           \/ \E s \in Subjects : DsrAccess(p, s)
           \/ \E s \in Subjects, f \in Fields, v \in Values : DsrCorrection(p, s, f, v)
           \/ \E s \in Subjects : DsrErasure(p, s)
           \/ \E s \in Subjects, g \in BOOLEAN : ManageConsent(p, s, g)
           \/ EnforceRetention(p)
    PROVE  MainOK(p)'
<1> USE Sequences123
<1>1. consent_db[p] \in [Subjects -> BOOLEAN] /\ MainOK(p)
  BY DEF Shapes, MainOK
<1>2. ASSUME NEW m \in wire, NEW t \in {m.payload} \union Damage, Receive(p, m, t)
      PROVE  MainOK(p)'
  <2>1. generate_sha256(t) \in Strings
    BY <1>2, ConsoleAssumption DEF Shapes, Messages, DigestsAreStrings
  <2>2. m.channel \in Channels /\ "SUCCESS" \in Statuses
    BY DEF Shapes, Messages, Statuses
  <2>3. AuditEntry("2480", role(p), m.channel, "None", generate_sha256(t), TRUE, "SUCCESS")
           \in Entries
    BY <2>1, <2>2, EntryShape, RoleShape
  <2>4. <<"Decrypted read session payload successful">> \in Seq(Texts)
    BY DEF Texts
  <2> QED
    BY <1>1, <1>2, <2>3, <2>4, RequestMain DEF Receive
<1>3. ASSUME NEW s \in Subjects, DsrAccess(p, s) PROVE MainOK(p)'
  <2>1. \A t \in {"Executed DSR Access Request for Subject: ",
                  "Executed DSR Export Request for Subject: "} : <<t, s>> \in Seq(Texts)
    BY DEF Texts
  <2> QED
    BY <1>1, <1>3, <2>1, RequestShape, RequestMain DEF DsrAccess
<1>4. ASSUME NEW s \in Subjects, NEW f \in Fields, NEW v \in Values, DsrCorrection(p, s, f, v)
      PROVE  MainOK(p)'
  BY <1>1, <1>4 DEF DsrCorrection, consoleVars, MainOK
<1>5. ASSUME NEW s \in Subjects, DsrErasure(p, s) PROVE MainOK(p)'
  <2>1. CASE UNCHANGED <<consent_db, pc, pending>>
    BY <1>1, <1>5, <2>1 DEF DsrErasure, MainOK
  <2>2. CASE /\ consent_db' = [consent_db EXCEPT ![p] = set_consent(@, s, FALSE)]
             /\ GoAudit(p, RequestEntry(p, FALSE), <<"Enforced Erasure for Subject: ", s>>, "menu")
    <3>1. <<"Enforced Erasure for Subject: ", s>> \in Seq(Texts)
      BY DEF Texts
    <3>2. consent_db'[p] \in [Subjects -> BOOLEAN]
      BY <1>1, <2>2 DEF set_consent, Shapes, Tables
    <3> QED
      BY <1>5, <2>2, <3>1, <3>2, RequestShape, RequestMain DEF DsrErasure
  <2> QED
    BY <1>5, <2>1, <2>2, Zenon DEF DsrErasure
<1>6. ASSUME NEW s \in Subjects, NEW g \in BOOLEAN, ManageConsent(p, s, g) PROVE MainOK(p)'
  <2>1. <<"Consent setting modified for Subject: ", s>> \in Seq(Texts)
    BY DEF Texts
  <2>2. consent_db'[p] \in [Subjects -> BOOLEAN]
    BY <1>1, <1>6 DEF ManageConsent, set_consent, Shapes, Tables
  <2> QED
    BY <1>6, <2>1, <2>2, RequestShape, RequestMain DEF ManageConsent
<1>7. ASSUME EnforceRetention(p) PROVE MainOK(p)'
  <2>1. <<"Executed automated Data Retention clean sweep.">> \in Seq(Texts)
    BY DEF Texts
  <2> QED
    BY <1>1, <1>7, <2>1, RequestShape, RequestMain DEF EnforceRetention
<1> QED
  BY <1>2, <1>3, <1>4, <1>5, <1>6, <1>7

LEMMA OtherMain ==
    ASSUME Shapes, NEW p \in Procs, Audit(p) \/ Exit(p) \/ Kill(p)
    PROVE  MainOK(p)'
<1>1. CASE Audit(p)
  <2>1. pc[p] = "audit" /\ pending[p].next \in {"menu", "refused"}
    BY <1>1 DEF Audit, Shapes, MainOK, Pendings
  <2>2. /\ pc'[p] = pending[p].next /\ pending'[p] = NoEntry
        /\ UNCHANGED <<username, password, consent_db, draft>>
    BY <1>1 DEF Audit, Shapes, Tables
  <2> QED
    BY <2>1, <2>2 DEF Shapes, MainOK
<1>2. CASE Restart(p)
  <2>1. /\ pc'[p] = "login" /\ username'[p] = Nobody /\ password'[p] = Nobody
        /\ consent_db'[p] = DefaultConsent /\ draft'[p] = NoDraft /\ pending'[p] = NoEntry
    BY <1>2 DEF Restart, Shapes, Tables
  <2>2. DefaultConsent \in [Subjects -> BOOLEAN]
    BY DEF DefaultConsent
  <2> QED
    BY <2>1, <2>2 DEF MainOK
<1> QED
  BY <1>1, <1>2 DEF Exit, Kill

-----------------------------------------------------------------------------
(***************************************************************************)
(* What the compliance engine leaves behind at a step.                     *)
(***************************************************************************)
LEMMA EventLog ==
    ASSUME Shapes, NEW p \in Procs, Audit(p)
    PROVE  \E r \in LogRecords :
              /\ r.id = clock + 1 /\ r.at = clock + 1 /\ r.owner = p
              /\ r.entry = pending[p].entry /\ r.details = pending[p].details
              /\ audit_log'[p] = audit_log[p] \union {r}
              /\ trail' \subseteq trail \union {r}
              /\ clock' = clock + 1 /\ wire' = wire
              /\ started'[p] = started[p] /\ erased'[p] = erased[p] /\ rest'[p] = {}
<1> DEFINE r == NewRecord(p, pending[p].entry, pending[p].details)
<1>1. pending[p].entry \in Entries /\ pending[p].details \in Seq(Texts)
  BY DEF Audit, Shapes, MainOK, Pendings
<1>2. clock + 1 \in Nat
  BY DEF Shapes
<1>3. /\ r \in LogRecords
      /\ r.id = clock + 1 /\ r.at = clock + 1 /\ r.owner = p
      /\ r.entry = pending[p].entry /\ r.details = pending[p].details
  BY <1>1, <1>2 DEF NewRecord, LogRecords
<1>4. /\ audit_log' = [audit_log EXCEPT ![p] = audit_log[p] \union {r}]
      /\ \E is_open \in OpenOutcomes : trail' = IF is_open THEN trail \union {r} ELSE trail
      /\ clock' = clock + 1 /\ UNCHANGED <<started, erased, wire>> /\ rest'[p] = {}
  BY DEF Audit, log_audit_event, Tick, Idle
<1> HIDE DEF r
<1>5. audit_log'[p] = audit_log[p] \union {r} /\ trail' \subseteq trail \union {r}
  BY <1>4 DEF Shapes, Tables
<1> QED
  BY <1>3, <1>4, <1>5

\* A nonempty set of naturals has a least element: what find() returns.
LEMMA MinIsLeast ==
    ASSUME NEW S, S \subseteq Nat, S # {}
    PROVE  Min(S) \in S /\ \A y \in S : Min(S) <= y
<1>1. PICK x \in S : \A y \in S : ~ (<<y, x>> \in OpToRel(<, Nat))
  BY NatLessThanWellFounded, WFMin, Zenon
<1>2. \A a, b \in Nat : <<b, a>> \in OpToRel(<, Nat) <=> b < a
  BY DEF OpToRel
<1>3. \A y \in S : ~ (y < x)
  BY <1>1, <1>2
<1>4. \A y \in S : x <= y
  BY <1>3
<1> QED
  BY <1>4 DEF Min

\* A corrected record keeps its place, its owner and its entry; of the details
\* only what precedes the field.
LEMMA CorrectedShape ==
    ASSUME Shapes, NEW o \in LogRecords, NEW s \in Subjects, NEW f \in Fields, NEW v \in Values,
           Correctable(o, s, f)
    PROVE  /\ Corrected(o, f, v) \in LogRecords
           /\ Corrected(o, f, v).id = o.id /\ Corrected(o, f, v).at = clock + 1
           /\ Corrected(o, f, v).owner = o.owner /\ Corrected(o, f, v).entry = o.entry
           /\ \E n \in 1 .. Len(o.details) :
                 Corrected(o, f, v).details = SubSeq(o.details, 1, n - 1) \o <<f, ":", v>>
<1> DEFINE d == o.details
           n == Min(Found(o, f))
<1>1. d \in Seq(Texts) /\ DOMAIN d = 1 .. Len(d) /\ Len(d) \in Nat
  BY LenProperties DEF LogRecords
<1>2. n \in 1 .. Len(d)
  <2>1. Found(o, f) \subseteq Nat /\ Found(o, f) \subseteq 1 .. Len(d)
    BY <1>1 DEF Found
  <2>2. Found(o, f) # {}
    BY DEF Correctable, Mentions
  <2> QED
    BY <2>1, <2>2, MinIsLeast
<1>3. SubSeq(d, 1, n - 1) \in Seq(Texts)
  <2>1. \A i \in 1 .. n - 1 : d[i] \in Texts
    BY <1>1, <1>2, ElementOfSeq
  <2> QED
    BY <1>2, <2>1, SubSeqProperties
<1>4. <<f, ":", v>> \in Seq(Texts)
  BY Sequences123 DEF Texts
<1>5. PICK e \in Seq(Texts) : e = SubSeq(d, 1, n - 1) \o <<f, ":", v>>
  BY <1>3, <1>4, ConcatProperties
<1>6. PICK c \in Nat : c = clock + 1
  BY DEF Shapes
<1>7. Corrected(o, f, v) = [o EXCEPT !.at = c, !.details = e]
  BY <1>5, <1>6 DEF Corrected
<1>8. /\ [o EXCEPT !.at = c, !.details = e] \in LogRecords
      /\ [o EXCEPT !.at = c, !.details = e].id = o.id
      /\ [o EXCEPT !.at = c, !.details = e].at = c
      /\ [o EXCEPT !.at = c, !.details = e].owner = o.owner
      /\ [o EXCEPT !.at = c, !.details = e].entry = o.entry
      /\ [o EXCEPT !.at = c, !.details = e].details = e
  BY DEF LogRecords
<1> QED
  BY <1>2, <1>5, <1>6, <1>7, <1>8

\* r is what a correction made of o.
CorrectionOf(r, o, f, v) ==
    /\ r.id = o.id /\ r.at = clock + 1 /\ r.owner = o.owner /\ r.entry = o.entry
    /\ \E n \in 1 .. Len(o.details) : r.details = SubSeq(o.details, 1, n - 1) \o <<f, ":", v>>

LEMMA CorrectionLog ==
    ASSUME Shapes, NEW p \in Procs, NEW s \in Subjects, NEW f \in Fields, NEW v \in Values,
           DsrCorrection(p, s, f, v)
    PROVE  /\ audit_log'[p] \subseteq LogRecords /\ IsFiniteSet(audit_log'[p])
           /\ \A r \in audit_log'[p] :
                 r \in audit_log[p] \/ \E o \in audit_log[p] : CorrectionOf(r, o, f, v)
           /\ \A o \in audit_log[p] :
                 o \in audit_log'[p] \/ \E r \in audit_log'[p] : CorrectionOf(r, o, f, v)
           /\ clock' = clock + 1 /\ trail' = trail /\ UNCHANGED consoleVars
           /\ started'[p] = started[p] /\ erased'[p] = erased[p] /\ rest'[p] = {}
<1> DEFINE log == audit_log[p]
           C   == {q \in log : Correctable(q, s, f)}
           new == {Corrected(r, f, v) : r \in C}
<1>1. audit_log'[p] = {r \in log : ~ Correctable(r, s, f)} \union new
  BY DEF DsrCorrection, execute_dsr_correction, CorrectedLog, Shapes, Tables
<1>2. /\ clock' = clock + 1 /\ trail' = trail /\ UNCHANGED consoleVars
      /\ started'[p] = started[p] /\ erased'[p] = erased[p] /\ rest'[p] = {}
  BY DEF DsrCorrection, execute_dsr_correction, Tick, Idle, fileVars
<1>3. log \subseteq LogRecords /\ IsFiniteSet(log)
  BY DEF Shapes, LogOK
<1>4. \A o \in C : Corrected(o, f, v) \in LogRecords /\ CorrectionOf(Corrected(o, f, v), o, f, v)
  BY <1>3, CorrectedShape DEF CorrectionOf
<1>5. IsFiniteSet(new)
  <2> DEFINE g == [r \in C |-> Corrected(r, f, v)]
  <2>1. IsFiniteSet(C)
    BY <1>3, FS_Subset
  <2>2. g \in Surjection(C, new)
    BY DEF Surjection
  <2> QED
    BY <2>1, <2>2, FS_Surjection
<1>6. IsFiniteSet(audit_log'[p])
  <2>1. IsFiniteSet({r \in log : ~ Correctable(r, s, f)})
    BY <1>3, FS_Subset
  <2> HIDE DEF new, log
  <2> QED
    BY <1>1, <1>5, <2>1, FS_Union
<1> QED
  BY <1>1, <1>2, <1>3, <1>4, <1>6

\* A rewrite begins with an empty file, or not at all.
LEMMA RewriteShape ==
    ASSUME Tables, NEW p \in Procs, Idle(p), RewriteTrail(p)
    PROVE  trail' \subseteq trail /\ rest'[p] \subseteq audit_log'[p]
BY DEF RewriteTrail, Truncated, Unwritten, Tables, Idle, fileVars

LEMMA ErasureLog ==
    ASSUME Shapes, NEW p \in Procs, NEW s \in Subjects, DsrErasure(p, s)
    PROVE  /\ audit_log'[p] = {r \in audit_log[p] : ~ Mentions(r, s)}
           /\ trail' \subseteq trail /\ rest'[p] \subseteq audit_log'[p]
           /\ clock' = clock + 1 /\ wire' = wire
           /\ started'[p] = started[p]
           /\ erased'[p] = [erased[p] EXCEPT ![s] = clock + 1]
<1>1. execute_dsr_deletion(p, s) /\ wire' = wire
  BY DEF DsrErasure
<1>2. audit_log'[p] = Remaining(p, s)
  BY <1>1 DEF execute_dsr_deletion, Shapes, Tables
<1>3. Remaining(p, s) = {r \in audit_log[p] : ~ Mentions(r, s)}
  BY DEF Remaining, execute_dsr_access
<1> QED
  BY <1>1, <1>2, <1>3, RewriteShape DEF execute_dsr_deletion, Tick, Shapes, Tables

\* What the sweep removes is not younger than what it keeps.
LEMMA OldestAreOldest ==
    ASSUME NEW log, IsFiniteSet(log), \A r \in log : r.id \in Nat, NEW n \in Nat,
           NEW r \in Oldest(log, n), NEW q \in log \ Oldest(log, n)
    PROVE  r.id < q.id
<1> DEFINE below(x) == {k \in log : k.id < x.id}
<1> SUFFICES ASSUME ~ (r.id < q.id) PROVE FALSE
  OBVIOUS
<1>1. r \in log /\ q \in log
  BY DEF Oldest
<1>2. below(q) \subseteq below(r)
  BY <1>1
<1>3. IsFiniteSet(below(r)) /\ IsFiniteSet(below(q))
  BY FS_Subset
<1>4. Cardinality(below(q)) <= Cardinality(below(r))
  BY <1>2, <1>3, FS_Subset
<1>5. Cardinality(below(r)) \in Nat /\ Cardinality(below(q)) \in Nat
  BY <1>3, FS_CardinalityType
<1>6. Cardinality(below(r)) < n /\ ~ (Cardinality(below(q)) < n)
  BY <1>1 DEF Oldest
<1> HIDE DEF below
<1> QED
  BY <1>4, <1>5, <1>6

LEMMA RetentionLog ==
    ASSUME Shapes, NEW p \in Procs, EnforceRetention(p)
    PROVE  /\ audit_log'[p] \subseteq audit_log[p]
           /\ \A r \in audit_log[p] \ audit_log'[p], q \in audit_log'[p] : r.id < q.id
           /\ trail' \subseteq trail /\ rest'[p] \subseteq audit_log'[p]
           /\ clock' = clock + 1 /\ wire' = wire
           /\ started'[p] = started[p] /\ erased'[p] = erased[p]
<1> DEFINE log == audit_log[p]
           old == Oldest(log, RetentionBatch)
<1>1. enforce_data_retention_policy(p) /\ wire' = wire
  BY DEF EnforceRetention
<1>2. clock' = clock + 1 /\ started'[p] = started[p] /\ erased'[p] = erased[p]
  BY <1>1 DEF enforce_data_retention_policy, Tick
<1>3. IsFiniteSet(log) /\ \A r \in log : r.id \in Nat
  BY DEF Shapes, LogOK, LogRecords
<1>4. CASE audit_log' = [audit_log EXCEPT ![p] = log \ old] /\ RewriteTrail(p)
  <2>1. audit_log'[p] = log \ old
    BY <1>4 DEF Shapes, Tables
  <2>2. \A r \in log \ (log \ old), q \in log \ old : r.id < q.id
    BY <1>3, OldestAreOldest, RetentionAssumption
  <2>3. trail' \subseteq trail /\ rest'[p] \subseteq audit_log'[p]
    BY <1>1, <1>4, RewriteShape DEF enforce_data_retention_policy, Shapes
  <2> QED
    BY <1>1, <1>2, <2>1, <2>2, <2>3
<1>5. CASE UNCHANGED <<audit_log, fileVars>>
  BY <1>1, <1>2, <1>5 DEF enforce_data_retention_policy, Idle, fileVars
<1> QED
  BY <1>1, <1>4, <1>5 DEF enforce_data_retention_policy

LEMMA RestartLog ==
    ASSUME Shapes, NEW p \in Procs, Exit(p) \/ Kill(p)
    PROVE  /\ audit_log'[p] = {} /\ trail' = trail /\ rest'[p] = {}
           /\ clock' = clock + 1 /\ wire' = wire /\ started'[p] = clock + 1
           /\ erased'[p] = [x \in Searches |-> 0]
           /\ pc'[p] = "login" /\ consent_db'[p] = DefaultConsent
BY DEF Exit, Kill, Restart, EndProcess, Tick, Shapes, Tables

\* The steps that log, correct, erase and sweep nothing.
Quiet(p) ==
    \/ \E u \in Usernames, w \in Passwords : Login(p, u, w)
    \/ \E c \in Channels, l \in Classifications, s \in Subjects, t \in Payloads :
          Send(p, c, l, s, t)
    \/ WriteSucceeds(p) \/ WriteFails(p)
    \/ \E m \in wire : \E t \in {m.payload} \union Damage : Receive(p, m, t)
    \/ \E s \in Subjects : DsrAccess(p, s)
    \/ \E s \in Subjects, g \in BOOLEAN : ManageConsent(p, s, g)

LEMMA QuietCall ==
    ASSUME NEW p \in Procs, Quiet(p)
    PROVE  UNCHANGED complianceVars
<1>1. ASSUME NEW u, NEW w, Login(p, u, w) PROVE UNCHANGED complianceVars
  BY <1>1 DEF Login
<1>2. ASSUME NEW c, NEW l, NEW s, NEW t, Send(p, c, l, s, t) PROVE UNCHANGED complianceVars
  BY <1>2 DEF Send
<1>3. ASSUME WriteSucceeds(p) \/ WriteFails(p) PROVE UNCHANGED complianceVars
  BY <1>3 DEF WriteSucceeds, WriteFails
<1>4. ASSUME NEW m, NEW t, Receive(p, m, t) PROVE UNCHANGED complianceVars
  BY <1>4 DEF Receive
<1>5. ASSUME NEW s, NEW g, DsrAccess(p, s) \/ ManageConsent(p, s, g)
      PROVE  UNCHANGED complianceVars
  BY <1>5 DEF DsrAccess, ManageConsent
<1> QED
  BY <1>1, <1>2, <1>3, <1>4, <1>5 DEF Quiet

LEMMA QuietLog ==
    ASSUME NEW p \in Procs, Quiet(p)
    PROVE  UNCHANGED <<audit_log, started, erased, trail, rest, clock>>
BY QuietCall DEF complianceVars, logVars, fileVars

\* The steps of a rewrite move records of the log that is being written into
\* the file; main() waits.
LEMMA RewriteLog ==
    ASSUME Shapes, NEW p \in Procs, Rewrite(p)
    PROVE  /\ UNCHANGED <<consoleVars, logVars, clock>>
           /\ trail' \subseteq trail \union audit_log[p]
           /\ rest' = [q \in Procs |-> rest'[q]]
           /\ \A q \in Procs : rest'[q] \subseteq rest[q]
<1>1. PICK record \in Oldest(rest[p], 1), lost \in SUBSET {r \in trail : r.owner # p} :
          /\ rest' = [rest EXCEPT ![p] = @ \ {record}]
          /\ trail' = (trail \ lost) \union {record}
          /\ UNCHANGED <<consoleVars, logVars, clock>>
  BY DEF Rewrite, WriteRecord
<1>2. record \in rest[p] /\ rest[p] \subseteq audit_log[p]
  BY DEF Oldest, Shapes, LogOK
<1> QED
  BY <1>1, <1>2 DEF Shapes, Tables

LEMMA StepCases ==
    ASSUME NEW p \in Procs, Act(p)
    PROVE  \/ Quiet(p) \/ Audit(p)
           \/ \E s \in Subjects, f \in Fields, v \in Values : DsrCorrection(p, s, f, v)
           \/ \E s \in Subjects : DsrErasure(p, s)
           \/ EnforceRetention(p)
           \/ Exit(p) \/ Kill(p)
BY DEF Act, Menu, Quiet

LEMMA LogKept ==
    ASSUME Shapes, NEW p \in Procs, Act(p)
    PROVE  LogOK(p)' /\ clock' \in {clock, clock + 1} /\ trail' \subseteq LogRecords
<1>1. /\ LogOK(p) /\ trail \subseteq LogRecords /\ clock \in Nat /\ started[p] \in Nat
      /\ \A r \in LogRecords : r.id \in Nat
  BY DEF Shapes, LogOK, LogRecords
<1>2. CASE Quiet(p)
  BY <1>1, <1>2, QuietLog DEF LogOK
<1>3. CASE Audit(p)
  <2>1. PICK r \in LogRecords :
              /\ r.id = clock + 1 /\ r.owner = p
              /\ audit_log'[p] = audit_log[p] \union {r}
              /\ trail' \subseteq trail \union {r} /\ clock' = clock + 1
              /\ started'[p] = started[p] /\ erased'[p] = erased[p] /\ rest'[p] = {}
    BY <1>3, EventLog
  <2>2. IsFiniteSet(audit_log'[p])
    BY <1>1, <2>1, FS_AddElement DEF LogOK
  <2> QED
    BY <1>1, <2>1, <2>2 DEF LogOK
<1>4. ASSUME NEW s \in Subjects, NEW f \in Fields, NEW v \in Values, DsrCorrection(p, s, f, v)
      PROVE  LogOK(p)' /\ clock' \in {clock, clock + 1} /\ trail' \subseteq LogRecords
  <2>1. /\ audit_log'[p] \subseteq LogRecords /\ IsFiniteSet(audit_log'[p])
        /\ clock' = clock + 1 /\ trail' = trail /\ rest'[p] = {}
        /\ started'[p] = started[p] /\ erased'[p] = erased[p]
    BY <1>4, CorrectionLog
  <2>2. \A r \in audit_log'[p] : \E o \in audit_log[p] : r.id = o.id /\ r.owner = o.owner
    <3>1. \A r, o : CorrectionOf(r, o, f, v) => r.id = o.id /\ r.owner = o.owner
      BY DEF CorrectionOf
    <3>2. \A r \in audit_log'[p] :
             r \in audit_log[p] \/ \E o \in audit_log[p] : CorrectionOf(r, o, f, v)
      BY <1>4, CorrectionLog
    <3> QED
      BY <3>1, <3>2
  <2> QED
    BY <1>1, <2>1, <2>2 DEF LogOK
<1>5. ASSUME NEW s \in Subjects, DsrErasure(p, s)
      PROVE  LogOK(p)' /\ clock' \in {clock, clock + 1} /\ trail' \subseteq LogRecords
  <2>1. /\ audit_log'[p] \subseteq audit_log[p] /\ trail' \subseteq trail
        /\ rest'[p] \subseteq audit_log'[p]
        /\ clock' = clock + 1 /\ started'[p] = started[p]
        /\ erased'[p] = [erased[p] EXCEPT ![s] = clock + 1]
    BY <1>5, ErasureLog
  <2>2. erased'[p] \in [Searches -> Nat]
    <3>1. erased[p] \in [Searches -> Nat] /\ clock + 1 \in Nat
      BY <1>1 DEF LogOK
    <3> QED
      BY <2>1, <3>1
  <2>3. IsFiniteSet(audit_log'[p])
    BY <1>1, <2>1, FS_Subset DEF LogOK
  <2> QED
    BY <1>1, <2>1, <2>2, <2>3 DEF LogOK
<1>6. CASE EnforceRetention(p)
  <2>1. /\ audit_log'[p] \subseteq audit_log[p] /\ trail' \subseteq trail
        /\ rest'[p] \subseteq audit_log'[p]
        /\ clock' = clock + 1 /\ started'[p] = started[p] /\ erased'[p] = erased[p]
    BY <1>6, RetentionLog
  <2>2. IsFiniteSet(audit_log'[p])
    BY <1>1, <2>1, FS_Subset DEF LogOK
  <2> QED
    BY <1>1, <2>1, <2>2 DEF LogOK
<1>7. CASE Exit(p) \/ Kill(p)
  <2>1. /\ audit_log'[p] = {} /\ rest'[p] = {} /\ trail' = trail /\ clock' = clock + 1
        /\ started'[p] = clock + 1 /\ erased'[p] = [x \in Searches |-> 0]
    BY <1>7, RestartLog
  <2> QED
    BY <1>1, <2>1, FS_EmptySet DEF LogOK
<1> QED
  BY <1>2, <1>3, <1>4, <1>5, <1>6, <1>7, StepCases

-----------------------------------------------------------------------------
(***************************************************************************)
(* The shapes are invariant.                                               *)
(***************************************************************************)
LEMMA MainKept ==
    ASSUME Shapes, DigestsAreStrings, NEW p \in Procs, Act(p)
    PROVE  MainOK(p)'
<1>1. ASSUME NEW u \in Usernames, NEW w \in Passwords, Login(p, u, w) PROVE MainOK(p)'
  BY <1>1, LoginMain
<1>2. ASSUME NEW c \in Channels, NEW l \in Classifications, NEW s \in Subjects,
             NEW t \in Payloads, Send(p, c, l, s, t)
      PROVE  MainOK(p)'
  BY <1>2, SendMain
<1>3. ASSUME WriteSucceeds(p) \/ WriteFails(p) PROVE MainOK(p)'
  BY <1>3, WriteMain
<1>4. ASSUME Audit(p) \/ Exit(p) \/ Kill(p) PROVE MainOK(p)'
  BY <1>4, OtherMain
<1> QED
  BY <1>1, <1>2, <1>3, <1>4, MenuMain DEF Act, Menu

\* Only a write puts a message on the wire.
LEMMA WireKept ==
    ASSUME NEW p \in Procs, Act(p)
    PROVE  wire' = wire \/ (WriteSucceeds(p) /\ wire' = wire \union {Message(p)})
<1>1. ASSUME NEW u, NEW w, Login(p, u, w) PROVE wire' = wire
  BY <1>1 DEF Login
<1>2. ASSUME NEW c, NEW l, NEW s, NEW t, Send(p, c, l, s, t) PROVE wire' = wire
  BY <1>2 DEF Send
<1>3. ASSUME Audit(p) \/ WriteFails(p) \/ EnforceRetention(p) \/ Exit(p) \/ Kill(p)
      PROVE  wire' = wire
  BY <1>3 DEF Audit, WriteFails, EnforceRetention, Exit, Kill, Restart
<1>4. ASSUME NEW m, NEW t, Receive(p, m, t) PROVE wire' = wire
  BY <1>4 DEF Receive
<1>5. ASSUME NEW s, NEW g, DsrAccess(p, s) \/ DsrErasure(p, s) \/ ManageConsent(p, s, g)
      PROVE  wire' = wire
  BY <1>5 DEF DsrAccess, DsrErasure, ManageConsent
<1>6. ASSUME NEW s, NEW f, NEW v, DsrCorrection(p, s, f, v) PROVE wire' = wire
  BY <1>6 DEF DsrCorrection, consoleVars
<1>7. ASSUME WriteSucceeds(p) PROVE wire' = wire \union {Message(p)}
  BY <1>7 DEF WriteSucceeds
<1> QED
  BY <1>1, <1>2, <1>3, <1>4, <1>5, <1>6, <1>7 DEF Act, Menu

LEMMA MessageShape ==
    ASSUME Shapes, NEW p \in Procs, pc[p] = "write"
    PROVE  Message(p) \in Messages
<1>1. draft[p] \in Drafts /\ clock \in Nat
  BY DEF Shapes, MainOK
<1> QED
  BY <1>1, RoleShape DEF Drafts, Message, Messages

LEMMA InitShapes == Init => Shapes
<1> SUFFICES ASSUME Init PROVE Shapes
  OBVIOUS
<1>1. /\ clock = 0 /\ trail = {} /\ wire = {} /\ Tables
  BY DEF Init, ComplianceInit, Tables
<1>2. ASSUME NEW q \in Procs PROVE MainOK(q) /\ LogOK(q)
  <2>1. /\ pc[q] = "login" /\ username[q] = Nobody /\ password[q] = Nobody
        /\ consent_db[q] \in [Subjects -> BOOLEAN] /\ draft[q] = NoDraft /\ pending[q] = NoEntry
    BY DEF Init, DefaultConsent
  <2>2. /\ audit_log[q] = {} /\ rest[q] = {} /\ started[q] = 0 /\ erased[q] \in [Searches -> Nat]
    BY DEF Init, ComplianceInit
  <2> QED
    BY <1>1, <2>1, <2>2, FS_EmptySet DEF MainOK, LogOK
<1> QED
  BY <1>1, <1>2 DEF Shapes

LEMMA NextShapes == DigestsAreStrings /\ Shapes /\ [Next]_vars => Shapes'
<1> SUFFICES ASSUME DigestsAreStrings, Shapes, [Next]_vars PROVE Shapes'
  OBVIOUS
<1>1. CASE UNCHANGED vars
  BY <1>1 DEF vars, consoleVars, complianceVars, logVars, fileVars, Shapes, Tables,
              MainOK, LogOK
<1>2. ASSUME NEW p \in Procs, Act(p) PROVE Shapes'
  <2>1. Tables' /\ \A q \in Procs : q # p => Untouched(q)
    BY <1>2, StepIsLocal DEF Shapes
  <2>2. LogOK(p)' /\ clock' \in {clock, clock + 1} /\ trail' \subseteq LogRecords
    BY <1>2, LogKept
  <2>3. clock \in Nat /\ clock' \in Nat /\ clock <= clock'
    BY <2>2 DEF Shapes
  <2>4. ASSUME NEW q \in Procs, q # p PROVE MainOK(q)' /\ LogOK(q)'
    <3>1. MainOK(q) /\ LogOK(q) /\ Untouched(q)
      BY <2>1, <2>4 DEF Shapes
    <3>2. MainOK(q)'
      BY <3>1 DEF MainOK, Untouched
    <3>3. \A r \in audit_log[q] : r.id \in Nat
      BY <3>1 DEF LogOK, LogRecords
    <3>4. LogOK(q)'
      BY <2>3, <3>1, <3>3 DEF LogOK, Untouched
    <3> QED
      BY <3>2, <3>4
  <2>5. wire' \subseteq Messages /\ \A m \in wire' : m.at <= clock'
    <3>1. CASE wire' = wire
      BY <2>3, <3>1 DEF Shapes, Messages
    <3>2. CASE WriteSucceeds(p) /\ wire' = wire \union {Message(p)}
      <4>1. Message(p) \in Messages /\ Message(p).at = clock
        BY <3>2, MessageShape DEF WriteSucceeds, Message
      <4> QED
        BY <2>3, <3>2, <4>1 DEF Shapes, Messages
    <3> QED
      BY <1>2, <3>1, <3>2, WireKept
  <2>6. MainOK(p)'
    BY <1>2, MainKept
  <2> QED
    BY <2>1, <2>2, <2>3, <2>4, <2>5, <2>6 DEF Shapes
<1>3. ASSUME NEW p \in Procs, Rewrite(p) PROVE Shapes'
  <2>1. /\ UNCHANGED <<consoleVars, logVars, clock>>
        /\ rest' = [q \in Procs |-> rest'[q]] /\ \A q \in Procs : rest'[q] \subseteq rest[q]
    BY <1>3, RewriteLog
  <2>2. trail' \subseteq LogRecords
    BY <1>3, RewriteLog DEF Shapes, LogOK
  <2>3. Tables' /\ \A q \in Procs : MainOK(q)' /\ LogOK(q)'
    BY <2>1 DEF consoleVars, logVars, Shapes, Tables, MainOK, LogOK
  <2> QED
    BY <2>1, <2>2, <2>3 DEF consoleVars, Shapes
<1> QED
  BY <1>1, <1>2, <1>3 DEF Next, Step, Act

\* They say what TypeOK says.
LEMMA ShapesType == Shapes => TypeOK
<1> SUFFICES ASSUME Shapes PROVE TypeOK
  OBVIOUS
<1>1. /\ pc \in [Procs -> {"login", "menu", "write", "audit", "refused"}]
      /\ username \in [Procs -> Usernames \union {Nobody}]
      /\ password \in [Procs -> Passwords \union {Nobody}]
      /\ consent_db \in [Procs -> [Subjects -> BOOLEAN]]
  BY DEF Shapes, Tables, MainOK
<1>2. \A d \in Drafts : d # NoDraft
  BY DEF Drafts, NoDraft
<1>3. \A e \in Pendings : e # NoEntry /\ e.entry \in Entries
  BY DEF Pendings, NoEntry
<1>4. \A p \in Procs : /\ pc[p] = "write" <=> draft[p] # NoDraft
                       /\ pc[p] = "audit" <=> pending[p] # NoEntry
                       /\ pc[p] = "login" <=> username[p] = Nobody
                       /\ pc[p] = "audit" => pending[p].entry \in Entries
  BY <1>2, <1>3 DEF Shapes, MainOK
<1>5. \A p \in Procs : \A r \in audit_log[p] : r.entry \in Entries
  BY DEF Shapes, LogOK, LogRecords
<1> QED
  BY <1>1, <1>4, <1>5 DEF TypeOK

\* The variables of main() keep their shapes, for every digest; a message is
\* drafted exactly while it is being written, and a record is pending exactly
\* while it is about to be logged (main.cpp:52-380).
THEOREM ConsoleTypes ==
    ASSUME DigestsAreStrings
    PROVE  Spec => []TypeOK
<1>1. Spec => []Shapes
  BY InitShapes, NextShapes, PTL DEF Spec
<1> QED
  BY <1>1, ShapesType, PTL

-----------------------------------------------------------------------------
(***************************************************************************)
(* The trail claims no transfer that did not happen.                       *)
(***************************************************************************)
Known == trail \union UNION {audit_log[p] : p \in Procs}

\* A record in a log or on disk was there before, or is the one p just logged.
LEMMA Provenance ==
    ASSUME Shapes, NEW p \in Procs, Act(p), NEW r \in Known'
    PROVE  \/ \E o \in Known : o.id = r.id /\ o.owner = r.owner /\ o.entry = r.entry
           \/ /\ pc[p] = "audit" /\ r.id = clock + 1 /\ r.owner = p
              /\ r.entry = pending[p].entry
<1> DEFINE Same(o) == o.id = r.id /\ o.owner = r.owner /\ o.entry = r.entry
           New == /\ pc[p] = "audit" /\ r.id = clock + 1 /\ r.owner = p
                  /\ r.entry = pending[p].entry
<1>1. \A q \in Procs : q # p => audit_log'[q] = audit_log[q]
  BY StepIsLocal DEF Shapes, Untouched
<1>2. \A q \in Procs : audit_log[q] \subseteq Known
  BY DEF Known
<1>3. r \in trail' \/ r \in audit_log'[p] \/ \E q \in Procs : q # p /\ r \in audit_log[q]
  <2>1. r \in trail' \/ \E q \in Procs : r \in audit_log'[q]
    BY DEF Known
  <2> QED
    BY <1>1, <2>1
<1>4. CASE Audit(p)
  <2>1. PICK n \in LogRecords :
              /\ n.id = clock + 1 /\ n.owner = p /\ n.entry = pending[p].entry
              /\ audit_log'[p] = audit_log[p] \union {n} /\ trail' \subseteq trail \union {n}
    BY <1>4, EventLog
  <2>2. r \in Known \/ r = n
    BY <1>2, <1>3, <2>1 DEF Known
  <2>3. pc[p] = "audit"
    BY <1>4 DEF Audit
  <2> QED
    BY <2>1, <2>2, <2>3
<1>5. ASSUME NEW s \in Subjects, NEW f \in Fields, NEW v \in Values, DsrCorrection(p, s, f, v)
      PROVE  \E o \in Known : Same(o)
  <2>1. \A n, o : CorrectionOf(n, o, f, v) => n.id = o.id /\ n.owner = o.owner /\ n.entry = o.entry
    BY DEF CorrectionOf
  <2>2. /\ \A n \in audit_log'[p] :
              n \in audit_log[p] \/ \E o \in audit_log[p] : CorrectionOf(n, o, f, v)
        /\ trail' = trail
    BY <1>5, CorrectionLog
  <2>3. r \in Known \/ \E o \in audit_log[p] : CorrectionOf(r, o, f, v)
    BY <1>2, <1>3, <2>2 DEF Known
  <2> QED
    BY <1>2, <2>1, <2>3
<1>6. ASSUME audit_log'[p] \subseteq audit_log[p], trail' \subseteq trail
      PROVE  \E o \in Known : Same(o)
  <2>1. r \in Known
    BY <1>2, <1>3, <1>6 DEF Known
  <2> QED
    BY <2>1
<1>7. ASSUME NEW s \in Subjects, DsrErasure(p, s)
      PROVE  audit_log'[p] \subseteq audit_log[p] /\ trail' \subseteq trail
  BY <1>7, ErasureLog
<1>8. ASSUME EnforceRetention(p)
      PROVE  audit_log'[p] \subseteq audit_log[p] /\ trail' \subseteq trail
  BY <1>8, RetentionLog
<1>9. ASSUME Exit(p) \/ Kill(p)
      PROVE  audit_log'[p] \subseteq audit_log[p] /\ trail' \subseteq trail
  BY <1>9, RestartLog
<1>10. ASSUME Quiet(p)
       PROVE  audit_log'[p] \subseteq audit_log[p] /\ trail' \subseteq trail
  BY <1>10, QuietLog
<1> QED
  BY <1>4, <1>5, <1>6, <1>7, <1>8, <1>9, <1>10, StepCases

\* No step but a write prepares the record of a transfer.
LEMMA OthersAreNoTransfers ==
    ASSUME Shapes, NEW p \in Procs, Act(p), ~ WriteSucceeds(p), pc'[p] = "audit"
    PROVE  ~ IsTransfer(pending'[p].entry)
<1>1. "None" \notin Classifications
  BY DEF Classifications
<1>2. ASSUME NEW i, NEW r, NEW c, NEW l, NEW h, NEW b, NEW st,
             l = "None" \/ st # "SUCCESS"
      PROVE  ~ IsTransfer(AuditEntry(i, r, c, l, h, b, st))
  BY <1>1, <1>2 DEF IsTransfer, AuditEntry
<1>3. ASSUME NEW e, NEW d, NEW n, GoAudit(p, e, d, n), ~ IsTransfer(e)
      PROVE  ~ IsTransfer(pending'[p].entry)
  <2>1. pending'[p] = [entry |-> e, details |-> d, next |-> n]
    BY <1>3, GoesToAudit DEF Shapes
  <2>2. pending'[p].entry = e
    BY <2>1
  <2> QED
    BY <1>3, <2>2
<1>4. \A b : ~ IsTransfer(RequestEntry(p, b))
  BY <1>2 DEF RequestEntry
<1>5. ASSUME NEW u \in Usernames, NEW w \in Passwords, Login(p, u, w)
      PROVE  ~ IsTransfer(pending'[p].entry)
  <2>1. \/ GoAudit(p, AuditEntry("0", "Unknown", "None", "None", NO_HASH, FALSE, "DENIED_BY_RBAC"),
                   <<"Authentication failed for identity: ", u>>, "refused")
        \/ GoAudit(p, AuditEntry("1240", get_role(u), "None", "None", NO_HASH, TRUE, "SUCCESS"),
                   <<"Identity verified via RSA-2048.">>, "menu")
    BY <1>5, Zenon DEF Login
  <2> QED
    BY <1>2, <1>3, <2>1
<1>6. ASSUME NEW c \in Channels, NEW l \in Classifications, NEW s \in Subjects,
             NEW t \in Payloads, Send(p, c, l, s, t)
      PROVE  ~ IsTransfer(pending'[p].entry)
  <2>1. pc' # [pc EXCEPT ![p] = "write"]
    BY DEF Shapes, Tables
  <2>2. PICK b, d :
           \/ GoAudit(p, AuditEntry("1240", role(p), c, l, NO_HASH, b, "DENIED_BY_CONSENT"), d, "menu")
           \/ GoAudit(p, AuditEntry("1240", role(p), c, l, NO_HASH, b, "DENIED_BY_RBAC"), d, "menu")
    BY <1>6, <2>1, Zenon DEF Send
  <2> QED
    BY <1>2, <1>3, <2>2
<1>7. ASSUME WriteFails(p) \/ Audit(p) \/ Exit(p) \/ Kill(p) PROVE FALSE
  BY <1>7 DEF WriteFails, Audit, Exit, Kill, Restart, Shapes, Tables, MainOK, Pendings
<1>8. ASSUME NEW m \in wire, NEW t, Receive(p, m, t) PROVE ~ IsTransfer(pending'[p].entry)
  BY <1>2, <1>3, <1>8 DEF Receive
<1>9. ASSUME \/ \E s \in Subjects : DsrAccess(p, s)
             \/ \E s \in Subjects, g \in BOOLEAN : ManageConsent(p, s, g)
             \/ EnforceRetention(p)
      PROVE ~ IsTransfer(pending'[p].entry)
  <2>1. PICK b, d : GoAudit(p, RequestEntry(p, b), d, "menu")
    BY <1>9 DEF DsrAccess, ManageConsent, EnforceRetention
  <2> QED
    BY <1>3, <1>4, <2>1
<1>10. ASSUME NEW s \in Subjects, DsrErasure(p, s) PROVE ~ IsTransfer(pending'[p].entry)
  <2>1. pc[p] = "menu"
    BY <1>10 DEF DsrErasure
  <2>2. pc' # pc
    BY <2>1
  <2>3. GoAudit(p, RequestEntry(p, FALSE), <<"Enforced Erasure for Subject: ", s>>, "menu")
    BY <1>10, <2>2, Zenon DEF DsrErasure
  <2> QED
    BY <1>3, <1>4, <2>3
<1>11. ASSUME NEW s \in Subjects, NEW f \in Fields, NEW v \in Values, DsrCorrection(p, s, f, v)
       PROVE FALSE
  BY <1>11 DEF DsrCorrection, consoleVars
<1> QED
  BY <1>5, <1>6, <1>7, <1>8, <1>9, <1>10, <1>11 DEF Act, Menu

\* The record of a transfer is that of the message that is written.
LEMMA WrittenRecord ==
    ASSUME Shapes, DigestsAreStrings, NEW p \in Procs, WriteSucceeds(p)
    PROVE  /\ pc'[p] = "audit" /\ Records(pending'[p].entry, Message(p))
           /\ Message(p).from = p /\ Message(p).at = clock
           /\ pending'[p].details \in
                 Seq({Message(p).subject, "Subject ID ", " payload written to channel",
                      " (Data Minimization Applied)"})
           /\ Len(pending'[p].details) >= 3
<1>1. /\ pc'[p] = "audit"
      /\ pending'[p].entry =
            AuditEntry("1240", role(p), draft[p].channel, draft[p].classification,
                       generate_sha256(draft[p].payload), draft[p].consent, "SUCCESS")
  BY TransferRecord DEF WriteSucceeds
<1>2. /\ pending'[p].details \in
            Seq({draft[p].subject, "Subject ID ", " payload written to channel",
                 " (Data Minimization Applied)"})
      /\ Len(pending'[p].details) >= 3
  BY TransferRecord DEF WriteSucceeds
<1>3. draft[p].classification \in Classifications
  BY DEF WriteSucceeds, Shapes, MainOK, Drafts
<1>4. Records(pending'[p].entry, Message(p))
  BY <1>1, <1>3 DEF Records, IsTransfer, AuditEntry, Message
<1> QED
  BY <1>1, <1>2, <1>4 DEF Message

LEMMA ClaimsKept ==
    DigestsAreStrings /\ Shapes /\ ClaimedTransfersHappened /\ PendingWritten /\ [Next]_vars
        => ClaimedTransfersHappened' /\ PendingWritten'
<1> SUFFICES ASSUME DigestsAreStrings, Shapes, ClaimedTransfersHappened, PendingWritten, [Next]_vars
             PROVE  ClaimedTransfersHappened' /\ PendingWritten'
  OBVIOUS
<1>1. CASE UNCHANGED vars
  BY <1>1 DEF vars, consoleVars, complianceVars, logVars, fileVars,
              ClaimedTransfersHappened, PendingWritten
<1>2. ASSUME NEW p \in Procs, Act(p) PROVE ClaimedTransfersHappened' /\ PendingWritten'
  <2>1. wire \subseteq wire'
    BY <1>2, WireKept
  <2>2. PendingWritten'
    <3> SUFFICES ASSUME NEW q \in Procs, pc'[q] = "audit", IsTransfer(pending'[q].entry)
                 PROVE  \E m \in wire' : m.from = q /\ Records(pending'[q].entry, m)
      BY DEF PendingWritten
    <3>1. CASE q # p
      <4>1. pc[q] = "audit" /\ pending'[q] = pending[q]
        BY <1>2, <3>1, StepIsLocal DEF Shapes, Untouched
      <4> QED
        BY <2>1, <4>1 DEF PendingWritten
    <3>2. CASE q = p
      <4>1. WriteSucceeds(p)
        BY <1>2, <3>2, OthersAreNoTransfers
      <4> QED
        BY <3>2, <4>1, WrittenRecord DEF WriteSucceeds
    <3> QED
      BY <3>1, <3>2
  <2>3. ClaimedTransfersHappened'
    <3> SUFFICES ASSUME NEW r \in Known', IsTransfer(r.entry)
                 PROVE  \E m \in wire' : m.from = r.owner /\ m.at < r.id /\ Records(r.entry, m)
      BY DEF ClaimedTransfersHappened, Known
    <3>1. CASE \E o \in Known : o.id = r.id /\ o.owner = r.owner /\ o.entry = r.entry
      BY <2>1, <3>1 DEF ClaimedTransfersHappened, Known
    <3>2. CASE /\ pc[p] = "audit" /\ r.id = clock + 1 /\ r.owner = p
               /\ r.entry = pending[p].entry
      <4>1. PICK m \in wire : m.from = p /\ Records(r.entry, m)
        BY <3>2 DEF PendingWritten
      <4>2. m.at < clock + 1
        <5>1. m.at \in Nat /\ clock \in Nat /\ m.at <= clock
          BY DEF Shapes, Messages
        <5> QED
          BY <5>1
      <4> QED
        BY <2>1, <3>2, <4>1, <4>2
    <3> QED
      BY <1>2, <3>1, <3>2, Provenance
  <2> QED
    BY <2>2, <2>3
<1>3. ASSUME NEW p \in Procs, Rewrite(p) PROVE ClaimedTransfersHappened' /\ PendingWritten'
  <2>1. UNCHANGED <<consoleVars, logVars>> /\ trail' \subseteq trail \union audit_log[p]
    BY <1>3, RewriteLog
  <2> QED
    BY <2>1 DEF consoleVars, logVars, ClaimedTransfersHappened, PendingWritten
<1> QED
  BY <1>1, <1>2, <1>3 DEF Next, Step, Act

\* Whatever processes do and however they end, a successful transfer that a
\* log or the file claims is that of a message written before by the owner of
\* the record (main.cpp:104-246, compliance.cpp:11-31).
THEOREM ClaimsAreTrue ==
    ASSUME DigestsAreStrings
    PROVE  Spec => []ClaimedTransfersHappened
<1>1. Init => ClaimedTransfersHappened /\ PendingWritten
  BY DEF Init, ComplianceInit, ClaimedTransfersHappened, PendingWritten
<1>2. Spec => [](Shapes /\ ClaimedTransfersHappened /\ PendingWritten)
  BY <1>1, InitShapes, NextShapes, ClaimsKept, PTL DEF Spec
<1> QED
  BY <1>2, PTL

-----------------------------------------------------------------------------
(***************************************************************************)
(* Restricted and internal payloads leave a process as they came only from *)
(* an administrator.                                                       *)
(***************************************************************************)
LEMMA NotInConcat ==
    ASSUME NEW S, NEW a \in Seq(S), Len(a) = 1, NEW b \in Seq(S),
           NEW x, x # a[1], \A j \in DOMAIN b : x # b[j]
    PROVE  \A j \in DOMAIN (a \o b) : x # (a \o b)[j]
<1>1. /\ a \o b \in Seq(S) /\ Len(a \o b) = Len(a) + Len(b)
      /\ \A k \in 1 .. Len(a) + Len(b) :
            (a \o b)[k] = IF k <= Len(a) THEN a[k] ELSE b[k - Len(a)]
  BY ConcatProperties, Zenon
<1>2. PICK c : c = a \o b
  OBVIOUS
<1>3. /\ c \in Seq(S) /\ Len(c) = Len(a) + Len(b)
      /\ \A k \in 1 .. Len(a) + Len(b) :
            c[k] = IF k <= Len(a) THEN a[k] ELSE b[k - Len(a)]
  BY <1>1, <1>2, Zenon
<1>4. /\ Len(b) \in Nat /\ DOMAIN b = 1 .. Len(b) /\ DOMAIN c = 1 .. 1 + Len(b)
      /\ \A k \in 1 .. 1 + Len(b) : c[k] = IF k <= 1 THEN a[k] ELSE b[k - 1]
  BY <1>3, LenProperties
<1>5. \A j \in DOMAIN c : x # c[j]
  BY <1>4
<1> QED
  BY <1>2, <1>5, Zenon

\* What minimization makes of them for anybody else.
LEMMA MinimizedIsNotRaw ==
    ASSUME DigestsAreStrings, WordsAreNoDigests,
           NEW t \in Payloads, NEW l \in {"Restricted", "Internal"}, NEW r \in Roles,
           r # "Admin", apply_data_minimization(t, l, r) # REDACTED,
           NEW u \in Payloads, NEW i \in DOMAIN u
    PROVE  \A j \in DOMAIN apply_data_minimization(t, l, r) :
              u[i] # apply_data_minimization(t, l, r)[j]
<1> DEFINE h == generate_sha256(t)
<1>1. \/ apply_data_minimization(t, l, r) = PSEUDO \o h
      \/ apply_data_minimization(t, l, r) = DENIED
  BY DEF apply_data_minimization, Roles
<1>2. /\ u[i] # "PSEUDONYMOUS_HASH:" /\ u[i] # "[ACCESS_DENIED]"
      /\ \A j \in DOMAIN h : u[i] # h[j]
  BY DEF WordsAreNoDigests
<1>3. \A j \in DOMAIN DENIED : u[i] # DENIED[j]
  <2>1. DOMAIN DENIED = {1} /\ DENIED[1] = "[ACCESS_DENIED]"
    BY DEF DENIED
  <2> QED
    BY <1>2, <2>1
<1>4. /\ h \in Seq(Tokens) /\ PSEUDO \in Seq(Tokens)
      /\ Len(PSEUDO) = 1 /\ PSEUDO[1] = "PSEUDONYMOUS_HASH:"
  BY ConsoleAssumption, LiteralsAssumption, Sequences123
     DEF DigestsAreStrings, PSEUDO, Strings
<1> HIDE DEF h
<1>5. u[i] # PSEUDO[1]
  BY <1>2, <1>4
<1>6. \A j \in DOMAIN (PSEUDO \o h) : u[i] # (PSEUDO \o h)[j]
  BY <1>2, <1>4, <1>5, NotInConcat, Zenon
<1> QED
  BY <1>1, <1>3, <1>6, Zenon

\* Only a send leaves a process at a write.
LEMMA OnlySendDrafts ==
    ASSUME Tables, NEW p \in Procs, MainOK(p), Act(p), pc'[p] = "write"
    PROVE  \E c \in Channels, l \in Classifications, s \in Subjects, t \in Payloads :
              Send(p, c, l, s, t)
<1>1. ASSUME NEW e, NEW d, NEW n PROVE ~ GoAudit(p, e, d, n)
  BY GoesToAudit
<1>2. ASSUME NEW u \in Usernames, NEW w \in Passwords, Login(p, u, w) PROVE FALSE
  BY <1>1, <1>2, Zenon DEF Login
<1>3. ASSUME NEW m, NEW t, Receive(p, m, t) PROVE FALSE
  BY <1>1, <1>3, Zenon DEF Receive
<1>4. ASSUME NEW s, NEW g, DsrAccess(p, s) \/ ManageConsent(p, s, g) PROVE FALSE
  BY <1>1, <1>4, Zenon DEF DsrAccess, ManageConsent
<1>5. ASSUME EnforceRetention(p) \/ WriteSucceeds(p) PROVE FALSE
  BY <1>1, <1>5, Zenon DEF EnforceRetention, WriteSucceeds, GoLogTransfer
<1>6. ASSUME NEW s, DsrErasure(p, s) PROVE FALSE
  <2>1. pc' = pc /\ pc[p] = "menu"
    BY <1>1, <1>6, Zenon DEF DsrErasure
  <2> QED
    BY <2>1
<1>7. ASSUME NEW s, NEW f, NEW v, DsrCorrection(p, s, f, v) PROVE FALSE
  BY <1>7 DEF DsrCorrection, consoleVars
<1>8. ASSUME Audit(p) \/ WriteFails(p) \/ Exit(p) \/ Kill(p) PROVE FALSE
  BY <1>8 DEF Audit, WriteFails, Exit, Kill, Restart, Tables, MainOK, Pendings
<1> QED
  BY <1>2, <1>3, <1>4, <1>5, <1>6, <1>7, <1>8 DEF Act, Menu

LEMMA RawKept ==
    DigestsAreStrings /\ WordsAreNoDigests /\ Shapes /\ Raw /\ [Next]_vars => Raw'
<1> SUFFICES ASSUME DigestsAreStrings, WordsAreNoDigests, Shapes, Raw, [Next]_vars
             PROVE  Raw'
  OBVIOUS
<1>1. CASE UNCHANGED consoleVars
  BY <1>1 DEF consoleVars, Raw, OnlyAdminsSendRaw, role
<1>2. ASSUME NEW p \in Procs, Act(p) PROVE Raw'
  <2>1. OnlyAdminsSendRaw'
    <3>1. CASE wire' = wire
      BY <3>1 DEF Raw, OnlyAdminsSendRaw
    <3>2. CASE WriteSucceeds(p) /\ wire' = wire \union {Message(p)}
      <4>1. /\ Message(p).role = role(p) /\ Message(p).payload = draft[p].payload
            /\ Message(p).classification = draft[p].classification /\ pc[p] = "write"
        BY <3>2 DEF Message, WriteSucceeds
      <4> QED
        BY <3>2, <4>1 DEF Raw, OnlyAdminsSendRaw
    <3> QED
      BY <1>2, <3>1, <3>2, WireKept
  <2>2. ASSUME NEW q \in Procs, pc'[q] = "write", role(q)' # "Admin",
               draft'[q].classification \in {"Restricted", "Internal"},
               NEW t \in Payloads, NEW i \in DOMAIN t, NEW j \in DOMAIN draft'[q].payload
        PROVE  t[i] # draft'[q].payload[j]
    <3>1. CASE q # p
      <4>1. pc[q] = "write" /\ role(q)' = role(q) /\ draft'[q] = draft[q]
        BY <1>2, <2>2, <3>1, StepIsLocal DEF Shapes, Untouched, role
      <4> QED
        BY <2>2, <4>1 DEF Raw
    <3>2. ASSUME NEW c \in Channels, NEW l \in Classifications, NEW s \in Subjects,
                 NEW u \in Payloads, Send(p, c, l, s, u), q = p
          PROVE  t[i] # draft'[q].payload[j]
      <4> DEFINE m == apply_data_minimization(u, l, role(p))
      <4>1. /\ m # REDACTED /\ username' = username
            /\ \E b, n : draft' = [draft EXCEPT ![p] =
                  [channel |-> c, subject |-> s, classification |-> l,
                   payload |-> m, consent |-> b, minimized |-> n]]
        <5>1. ~ \E e, d : GoAudit(p, e, d, "menu")
          BY <2>2, <3>2, GoesToAudit DEF Shapes
        <5> QED
          BY <3>2, <5>1, Zenon DEF Send
      <4> HIDE DEF m
      <4>2. draft'[p].classification = l /\ draft'[p].payload = m
        BY <4>1 DEF Shapes, Tables
      <4>3. role(p) # "Admin" /\ role(p) \in Roles
        BY <2>2, <3>2, <4>1, RoleShape DEF role
      <4> QED
        BY <2>2, <3>2, <4>1, <4>2, <4>3, MinimizedIsNotRaw DEF m
    <3>3. CASE q = p /\ ~ \E c \in Channels, l \in Classifications, s \in Subjects,
                             u \in Payloads : Send(p, c, l, s, u)
      <4>1. pc'[p] # "write"
        BY <1>2, <3>3, OnlySendDrafts DEF Shapes
      <4> QED
        BY <2>2, <3>3, <4>1
    <3> QED
      BY <3>1, <3>2, <3>3
  <2> QED
    BY <2>1, <2>2 DEF Raw
<1>3. UNCHANGED vars => UNCHANGED consoleVars
  BY DEF vars
<1> QED
  BY <1>1, <1>2, <1>3, RewriteLog DEF Next, Step, Act

\* Whoever is logged in, what was typed into a restricted or internal message
\* enters a channel only if an administrator typed it: no later step, no
\* change of consent and no restart brings it there (main.cpp:148-184,
\* governance.cpp:75-108).
THEOREM RawNeedsAdmin ==
    ASSUME DigestsAreStrings, WordsAreNoDigests
    PROVE  Spec => []OnlyAdminsSendRaw
<1>1. Init => Raw
  BY DEF Init, Raw, OnlyAdminsSendRaw
<1>2. Spec => [](Shapes /\ Raw)
  BY <1>1, InitShapes, NextShapes, RawKept, PTL DEF Spec
<1>3. Raw => OnlyAdminsSendRaw
  BY DEF Raw
<1> QED
  BY <1>2, <1>3, PTL

-----------------------------------------------------------------------------
(***************************************************************************)
(* What is written is logged.                                              *)
(***************************************************************************)
\* The record a process is about to log is logged next, unless it is killed.
LEMMA AuditIsNext ==
    ASSUME NEW p \in Procs, Act(p), pc[p] = "audit"
    PROVE  Audit(p) \/ Kill(p)
<1>1. ASSUME NEW u, NEW w, Login(p, u, w) PROVE FALSE
  BY <1>1 DEF Login
<1>2. ASSUME NEW c, NEW l, NEW s, NEW t, Send(p, c, l, s, t) PROVE FALSE
  BY <1>2 DEF Send
<1>3. ASSUME WriteSucceeds(p) \/ WriteFails(p) \/ EnforceRetention(p) \/ Exit(p) PROVE FALSE
  BY <1>3 DEF WriteSucceeds, WriteFails, EnforceRetention, Exit
<1>4. ASSUME NEW m, NEW t, Receive(p, m, t) PROVE FALSE
  BY <1>4 DEF Receive
<1>5. ASSUME NEW s, NEW g, DsrAccess(p, s) \/ DsrErasure(p, s) \/ ManageConsent(p, s, g)
      PROVE  FALSE
  BY <1>5 DEF DsrAccess, DsrErasure, ManageConsent
<1>6. ASSUME NEW s, NEW f, NEW v, DsrCorrection(p, s, f, v) PROVE FALSE
  BY <1>6 DEF DsrCorrection
<1> QED
  BY <1>1, <1>2, <1>3, <1>4, <1>5, <1>6 DEF Act, Menu

\* A correction brings in the field, a colon and the value only.
LEMMA CorrectedDetails ==
    ASSUME NEW T, NEW f \in T, NEW v \in T, ":" \in T,
           NEW d, NEW n \in Nat \ {0}, \A i \in 1 .. n - 1 : d[i] \in T
    PROVE  /\ SubSeq(d, 1, n - 1) \o <<f, ":", v>> \in Seq(T)
           /\ Len(SubSeq(d, 1, n - 1) \o <<f, ":", v>>) >= 3
<1>1. SubSeq(d, 1, n - 1) \in Seq(T)
  BY SubSeqProperties
<1>2. <<f, ":", v>> \in Seq(T) /\ Len(<<f, ":", v>>) = 3
  BY Sequences123
<1> DEFINE a == SubSeq(d, 1, n - 1)
           b == <<f, ":", v>>
<1> HIDE DEF a, b
<1>3. a \o b \in Seq(T) /\ Len(a \o b) = Len(a) + Len(b)
  BY <1>1, <1>2, ConcatProperties DEF a, b
<1>4. Len(a) \in Nat /\ Len(b) = 3
  BY <1>1, <1>2, LenProperties DEF a, b
<1>5. Len(a \o b) >= 3
  BY <1>3, <1>4
<1> QED
  BY <1>3, <1>5 DEF a, b

\* The pieces of a record that name no subject.
LEMMA PlainTexts ==
    ASSUME SubjectsAreNames
    PROVE  /\ Fields \subseteq Plain /\ Values \subseteq Plain
           /\ {":", "Subject ID ", " payload written to channel",
               " (Data Minimization Applied)",
               "Consent setting modified for Subject: ",
               "Enforced Erasure for Subject: "} \subseteq Plain
BY DEF SubjectsAreNames, Plain, Texts

LEMMA CorrectionStaysAbout ==
    ASSUME SubjectsAreNames, NEW s \in Subjects, NEW f \in Fields, NEW v \in Values,
           NEW o, NEW r, CorrectionOf(r, o, f, v), o.details \in About(s)
    PROVE  r.id = o.id /\ r.entry = o.entry /\ r.details \in About(s)
<1>1. f \in {s} \union Plain /\ v \in {s} \union Plain /\ ":" \in {s} \union Plain
  BY PlainTexts
<1>2. PICK n \in 1 .. Len(o.details) : r.details = SubSeq(o.details, 1, n - 1) \o <<f, ":", v>>
  BY DEF CorrectionOf
<1>3. Len(o.details) \in Nat /\ \A i \in 1 .. n - 1 : o.details[i] \in {s} \union Plain
  BY LenProperties, ElementOfSeq DEF About
<1>4. SubSeq(o.details, 1, n - 1) \o <<f, ":", v>> \in Seq({s} \union Plain)
  BY <1>1, <1>3, CorrectedDetails
<1> QED
  BY <1>2, <1>4 DEF CorrectionOf, About

\* Only an erasure of its subject, or of a name in it, removes it.
LEMMA ErasedAbout ==
    ASSUME NEW s \in Subjects, NEW x \in Subjects, NEW r, r.details \in About(s), Mentions(r, x)
    PROVE  Occurs(x, s)
<1>1. PICK i \in DOMAIN r.details : Occurs(x, r.details[i])
  BY DEF Mentions, Found
<1>2. r.details[i] \in {s} \union Plain
  BY ElementOfSeq, LenProperties DEF About
<1> QED
  BY <1>1, <1>2 DEF Plain

\* What Logged says of message m.
Accounted(m) ==
    \/ /\ pc[m.from] = "audit" /\ Records(pending[m.from].entry, m)
       /\ pending[m.from].details \in About(m.subject)
    \/ \E r \in audit_log[m.from] :
          r.id > m.at /\ Records(r.entry, m) /\ r.details \in About(m.subject)
    \/ \E x \in Searches : erased[m.from][x] > m.at /\ Occurs(x, m.subject)
    \/ \A r \in audit_log[m.from] : r.id > m.at

\* A step of the process that wrote it.
LEMMA OwnAccount ==
    ASSUME SubjectsAreNames, Shapes, NEW p \in Procs, Act(p),
           NEW m \in wire, m.from = p, Accounted(m), started'[p] <= m.at
    PROVE  Accounted(m)'
<1>1. /\ m.at \in Nat /\ m.at <= clock /\ clock \in Nat /\ m.subject \in Subjects
      /\ audit_log[p] \subseteq LogRecords /\ \A r \in LogRecords : r.id \in Nat
      /\ erased[p] \in [Searches -> Nat]
  BY DEF Shapes, Messages, LogOK, LogRecords
<1>2. m.at < clock + 1 /\ ~ (clock + 1 <= m.at)
  BY <1>1
<1>3. CASE Exit(p) \/ Kill(p)
  BY <1>2, <1>3, RestartLog
<1>4. CASE Audit(p)
  <2>1. PICK r \in LogRecords :
              /\ r.id = clock + 1 /\ r.entry = pending[p].entry /\ r.details = pending[p].details
              /\ audit_log'[p] = audit_log[p] \union {r} /\ erased'[p] = erased[p]
    BY <1>4, EventLog
  <2> QED
    BY <1>2, <2>1 DEF Accounted
<1>5. CASE pc[p] # "audit"
  <2>1. \/ \E r \in audit_log[p] :
              r.id > m.at /\ Records(r.entry, m) /\ r.details \in About(m.subject)
        \/ \E x \in Searches : erased[p][x] > m.at /\ Occurs(x, m.subject)
        \/ \A r \in audit_log[p] : r.id > m.at
    BY <1>5 DEF Accounted
  <2>2. CASE Quiet(p)
    BY <2>1, <2>2, QuietLog DEF Accounted
  <2>3. ASSUME NEW s \in Subjects, NEW f \in Fields, NEW v \in Values, DsrCorrection(p, s, f, v)
        PROVE  Accounted(m)'
    <3>1. /\ \A r \in audit_log'[p] :
                r \in audit_log[p] \/ \E o \in audit_log[p] : CorrectionOf(r, o, f, v)
          /\ \A o \in audit_log[p] :
                o \in audit_log'[p] \/ \E r \in audit_log'[p] : CorrectionOf(r, o, f, v)
          /\ erased'[p] = erased[p]
      BY <2>3, CorrectionLog
    <3>2. \A r, o : CorrectionOf(r, o, f, v) => r.id = o.id
      BY DEF CorrectionOf
    <3>3. ASSUME NEW o \in audit_log[p], o.id > m.at, Records(o.entry, m),
                 o.details \in About(m.subject)
          PROVE  \E r \in audit_log'[p] :
                    r.id > m.at /\ Records(r.entry, m) /\ r.details \in About(m.subject)
      <4>1. CASE o \in audit_log'[p]
        BY <3>3, <4>1
      <4>2. ASSUME NEW r \in audit_log'[p], CorrectionOf(r, o, f, v)
            PROVE  r.id > m.at /\ Records(r.entry, m) /\ r.details \in About(m.subject)
        BY <1>1, <3>3, <4>2, CorrectionStaysAbout
      <4> QED
        BY <3>1, <4>1, <4>2
    <3> QED
      BY <2>1, <3>1, <3>2, <3>3 DEF Accounted
  <2>4. ASSUME NEW s \in Subjects, DsrErasure(p, s) PROVE Accounted(m)'
    <3>1. /\ audit_log'[p] = {r \in audit_log[p] : ~ Mentions(r, s)}
          /\ erased'[p] = [erased[p] EXCEPT ![s] = clock + 1]
      BY <2>4, ErasureLog
    <3>2. s \in Searches /\ erased'[p][s] = clock + 1
      BY <1>1, <3>1, ConsoleAssumption
    <3>3. \A x \in Searches : x # s => erased'[p][x] = erased[p][x]
      BY <1>1, <3>1
    <3>4. ASSUME NEW r \in audit_log[p], r.id > m.at, Records(r.entry, m),
                 r.details \in About(m.subject)
          PROVE  r \in audit_log'[p] \/ Occurs(s, m.subject)
      BY <1>1, <3>1, <3>4, ErasedAbout
    <3>5. \A r \in audit_log'[p] : r \in audit_log[p]
      BY <3>1
    <3> QED
      BY <1>2, <2>1, <3>2, <3>3, <3>4, <3>5 DEF Accounted
  <2>5. CASE EnforceRetention(p)
    <3>1. /\ audit_log'[p] \subseteq audit_log[p] /\ erased'[p] = erased[p]
          /\ \A r \in audit_log[p] \ audit_log'[p], q \in audit_log'[p] : r.id < q.id
      BY <2>5, RetentionLog
    <3>2. ASSUME NEW r \in audit_log[p] \ audit_log'[p], r.id > m.at
          PROVE  \A q \in audit_log'[p] : q.id > m.at
      BY <1>1, <3>1, <3>2
    <3> QED
      BY <2>1, <3>1, <3>2 DEF Accounted
  <2> QED
    BY <1>3, <1>4, <2>2, <2>3, <2>4, <2>5, StepCases
<1> QED
  BY <1>3, <1>4, <1>5, AuditIsNext

\* A process starts anew only when it ended.
LEMMA StartedStep ==
    ASSUME Shapes, NEW p \in Procs, Act(p)
    PROVE  started'[p] = started[p] \/ started'[p] = clock + 1
<1>1. ASSUME NEW s \in Subjects, NEW f \in Fields, NEW v \in Values,
             DsrCorrection(p, s, f, v)
      PROVE  started'[p] = started[p]
  BY <1>1, CorrectionLog
<1>2. ASSUME NEW s \in Subjects, DsrErasure(p, s) PROVE started'[p] = started[p]
  BY <1>2, ErasureLog
<1>3. CASE Quiet(p)
  BY <1>3, QuietLog
<1>4. CASE Audit(p)
  BY <1>4, EventLog
<1>5. CASE EnforceRetention(p)
  BY <1>5, RetentionLog
<1>6. CASE Exit(p) \/ Kill(p)
  BY <1>6, RestartLog
<1> QED
  BY <1>1, <1>2, <1>3, <1>4, <1>5, <1>6, StepCases

LEMMA LoggedKept ==
    DigestsAreStrings /\ SubjectsAreNames /\ Shapes /\ Logged /\ [Next]_vars => Logged'
<1> SUFFICES ASSUME DigestsAreStrings, SubjectsAreNames, Shapes, Logged, [Next]_vars
             PROVE  Logged'
  OBVIOUS
<1>1. CASE UNCHANGED <<consoleVars, logVars, clock>>
  BY <1>1 DEF consoleVars, logVars, Logged
<1>2. ASSUME NEW p \in Procs, Act(p) PROVE Logged'
  <2>1. \A m \in wire : started[m.from] <= m.at => Accounted(m)
    BY DEF Logged, Accounted
  <2>2. ASSUME NEW m \in wire, started'[m.from] <= m.at PROVE Accounted(m)'
    <3>1. m.from \in Procs /\ m.at \in Nat /\ m.at <= clock /\ clock \in Nat
      BY DEF Shapes, Messages
    <3>2. CASE m.from # p
      <4>1. Untouched(m.from)
        BY <1>2, <3>1, <3>2, StepIsLocal DEF Shapes
      <4> QED
        BY <2>1, <2>2, <4>1 DEF Untouched, Accounted
    <3>3. CASE m.from = p
      <4>1. started'[p] = started[p] \/ started'[p] = clock + 1
        BY <1>2, StartedStep
      <4>2. Accounted(m)
        BY <2>1, <2>2, <3>1, <3>3, <4>1
      <4> QED
        BY <1>2, <2>2, <3>3, <4>2, OwnAccount
    <3> QED
      BY <3>2, <3>3
  <2>3. ASSUME NEW m, m = Message(p), WriteSucceeds(p) PROVE Accounted(m)'
    <3> DEFINE T == {m.subject, "Subject ID ", " payload written to channel",
                     " (Data Minimization Applied)"}
    <3>1. /\ pc'[p] = "audit" /\ Records(pending'[p].entry, m)
          /\ m.from = p /\ pending'[p].details \in Seq(T)
      BY <2>3, WrittenRecord
    <3>2. pending'[p].details \in About(m.subject)
      <4>1. T \subseteq {m.subject} \union Plain
        BY PlainTexts
      <4> HIDE DEF T, Plain
      <4> QED
        BY <3>1, <4>1, SeqMonotonic DEF About
    <3> QED
      BY <3>1, <3>2 DEF Accounted
  <2>4. ASSUME NEW m \in wire', started'[m.from] <= m.at PROVE Accounted(m)'
    BY <1>2, <2>2, <2>3, <2>4, WireKept
  <2> QED
    BY <2>4 DEF Logged, Accounted
<1>3. UNCHANGED vars => UNCHANGED <<consoleVars, logVars, clock>>
  BY DEF vars, complianceVars
<1> QED
  BY <1>1, <1>2, <1>3, RewriteLog DEF Next, Step, Act

\* A message a running process has written is about to be logged, or in its
\* log, or erased from it on request since, or swept out with all that was
\* logged before it (main.cpp:172-191, compliance.cpp:11-223): what is typed
\* in corrections can neither hide its record nor lose it.
THEOREM WritesAreLogged ==
    ASSUME DigestsAreStrings, SubjectsAreNames
    PROVE  Spec => []WrittenIsLogged
<1>1. Init => Logged
  BY DEF Init, Logged
<1>2. Spec => [](Shapes /\ Logged)
  BY <1>1, InitShapes, NextShapes, LoggedKept, PTL DEF Spec
<1>3. Logged => WrittenIsLogged
  BY DEF Logged, WrittenIsLogged
<1> QED
  BY <1>2, <1>3, PTL

-----------------------------------------------------------------------------
(***************************************************************************)
(* The decisions a log shows bind the transfers.                           *)
(***************************************************************************)
LEMMA DecisionTexts ==
    ASSUME NEW d, NEW s, Decides(d, s)
    PROVE  /\ Len(d) = 2 /\ DOMAIN d = {1, 2} /\ d[2] = s
           /\ d[1] \in {"Consent setting modified for Subject: ", "Enforced Erasure for Subject: "}
<1>1. ASSUME NEW a, NEW b
      PROVE  Len(<<a, b>>) = 2 /\ DOMAIN <<a, b>> = {1, 2} /\ <<a, b>>[1] = a /\ <<a, b>>[2] = b
  OBVIOUS
<1>2. PICK a \in {"Consent setting modified for Subject: ", "Enforced Erasure for Subject: "} :
         d = <<a, s>>
  BY Zenon DEF Decides
<1> QED
  BY <1>1, <1>2, Zenon

\* A correction makes no decision, and leaves no subject in one.
LEMMA CorrectedDecision ==
    ASSUME SubjectsAreNames, NEW s \in Subjects, NEW f \in Fields, NEW v \in Values,
           NEW o \in LogRecords, NEW r, CorrectionOf(r, o, f, v)
    PROVE  /\ r.id = o.id /\ r.at = clock + 1
           /\ ~ Decides(r.details, s)
           /\ Decides(o.details, s) \/ o.details \in Seq(Plain) => r.details \in Seq(Plain)
<1>1. PICK n \in 1 .. Len(o.details) : r.details = SubSeq(o.details, 1, n - 1) \o <<f, ":", v>>
  BY DEF CorrectionOf
<1>2. o.details \in Seq(Texts) /\ Len(o.details) \in Nat /\ n \in Nat \ {0}
  BY LenProperties DEF LogRecords
<1>3. ~ Decides(r.details, s)
  <2>1. f \in Texts /\ v \in Texts /\ ":" \in Texts
    BY DEF Texts
  <2>2. \A i \in 1 .. n - 1 : o.details[i] \in Texts
    BY <1>2, ElementOfSeq
  <2>3. Len(r.details) >= 3
    <3> HIDE DEF Texts
    <3> QED
      BY <1>1, <1>2, <2>1, <2>2, CorrectedDetails
  <2>4. ASSUME Decides(r.details, s) PROVE Len(r.details) = 2
    BY <2>4, DecisionTexts, Zenon
  <2>5. ~ (Len(r.details) = 2)
    BY <2>3
  <2> QED
    BY <2>4, <2>5, Zenon
<1>4. ASSUME Decides(o.details, s) \/ o.details \in Seq(Plain)
      PROVE  r.details \in Seq(Plain)
  <2>1. \A i \in 1 .. n - 1 : o.details[i] \in Plain
    <3>1. CASE Decides(o.details, s)
      <4>1. Len(o.details) = 2 /\ o.details[1] \in Plain
        BY <3>1, PlainTexts, DecisionTexts
      <4> QED
        BY <4>1
    <3>2. CASE o.details \in Seq(Plain)
      BY <1>2, <3>2, ElementOfSeq
    <3> QED
      BY <1>4, <3>1, <3>2
  <2>2. f \in Plain /\ v \in Plain /\ ":" \in Plain
    BY PlainTexts
  <2> HIDE DEF Plain
  <2> QED
    BY <1>1, <1>2, <2>1, <2>2, CorrectedDetails
<1> QED
  BY <1>3, <1>4 DEF CorrectionOf

\* An erasure takes all decisions on a subject or none.
LEMMA ErasedDecision ==
    ASSUME SubjectsAreNames, NEW s \in Subjects, NEW x \in Subjects,
           NEW r, NEW q, Decides(r.details, s), Decides(q.details, s), Mentions(r, x)
    PROVE  Mentions(q, x)
<1>1. PICK i \in DOMAIN r.details : Occurs(x, r.details[i])
  BY DEF Mentions, Found
<1>2. r.details[1] \in Plain /\ DOMAIN r.details = {1, 2} /\ r.details[2] = s
  BY PlainTexts, DecisionTexts
<1>3. Occurs(x, s)
  BY <1>1, <1>2 DEF Plain
<1>4. 2 \in DOMAIN q.details /\ q.details[2] = s
  BY DecisionTexts
<1> QED
  BY <1>3, <1>4 DEF Mentions, Found

LEMMA PlainStays ==
    ASSUME NEW x \in Subjects, NEW r, r.details \in Seq(Plain)
    PROVE  ~ Mentions(r, x)
<1>1. \A i \in DOMAIN r.details : r.details[i] \in Plain
  BY ElementOfSeq, LenProperties
<1> QED
  BY <1>1 DEF Mentions, Found, Plain

\* No step of p lets a refusal stand that was overruled.
LEMMA StaysOverruled ==
    ASSUME SubjectsAreNames, Shapes, NEW p \in Procs, Act(p), NEW s \in Subjects,
           NEW k \in Nat, k <= clock, Overruled(audit_log[p], s, k)
    PROVE  Overruled(audit_log'[p], s, k)
<1> DEFINE log == audit_log[p]
           Refuses(q) == q.id <= k /\ Decides(q.details, s) /\ ~ q.entry.consent_verified
           Answers(q, r) == /\ q.id < r.id /\ r.id <= k
                            /\ \/ Decides(r.details, s) /\ r.entry.consent_verified
                               \/ r.at # r.id /\ r.details \in Seq(Plain)
<1>1. /\ log \subseteq LogRecords /\ \A r \in log : r.id \in Nat /\ r.id <= clock
      /\ clock \in Nat
  BY DEF Shapes, LogOK, LogRecords
<1>2. \A q \in log : Refuses(q) => \E r \in log : Answers(q, r)
  BY DEF Overruled
<1> SUFFICES ASSUME NEW q \in audit_log'[p], Refuses(q)
             PROVE  \E r \in audit_log'[p] : Answers(q, r)
  BY DEF Overruled
<1>3. CASE Quiet(p)
  BY <1>2, <1>3, QuietLog
<1>4. CASE Audit(p)
  <2>1. PICK n \in LogRecords : n.id = clock + 1 /\ audit_log'[p] = log \union {n}
    BY <1>4, EventLog
  <2>2. q # n
    BY <1>1, <2>1
  <2> QED
    BY <1>2, <2>1, <2>2
<1>5. ASSUME NEW x \in Subjects, NEW f \in Fields, NEW v \in Values, DsrCorrection(p, x, f, v)
      PROVE  \E r \in audit_log'[p] : Answers(q, r)
  <2>1. /\ \A r \in audit_log'[p] : r \in log \/ \E o \in log : CorrectionOf(r, o, f, v)
        /\ \A o \in log : o \in audit_log'[p] \/ \E r \in audit_log'[p] : CorrectionOf(r, o, f, v)
    BY <1>5, CorrectionLog
  <2>2. \A o \in log : ~ CorrectionOf(q, o, f, v)
    BY <1>1, CorrectedDecision
  <2>3. PICK o \in log : Answers(q, o)
    BY <1>2, <2>1, <2>2
  <2>4. CASE o \in audit_log'[p]
    BY <2>3, <2>4
  <2>5. ASSUME NEW r \in audit_log'[p], CorrectionOf(r, o, f, v) PROVE Answers(q, r)
    <3>1. r.id = o.id /\ r.at = clock + 1 /\ r.details \in Seq(Plain)
      BY <1>1, <2>3, <2>5, CorrectedDecision
    <3>2. r.at # r.id
      BY <1>1, <3>1
    <3> QED
      BY <2>3, <3>1, <3>2
  <2> QED
    BY <2>1, <2>4, <2>5
<1>6. ASSUME NEW x \in Subjects, DsrErasure(p, x)
      PROVE  \E r \in audit_log'[p] : Answers(q, r)
  <2>1. audit_log'[p] = {r \in log : ~ Mentions(r, x)}
    BY <1>6, ErasureLog
  <2>2. PICK r \in log : Answers(q, r)
    BY <1>2, <2>1
  <2>3. ~ Mentions(r, x)
    BY <2>1, <2>2, ErasedDecision, PlainStays
  <2> QED
    BY <2>1, <2>2, <2>3
<1>7. CASE EnforceRetention(p)
  <2>1. /\ audit_log'[p] \subseteq log
        /\ \A r \in log \ audit_log'[p], n \in audit_log'[p] : r.id < n.id
    BY <1>7, RetentionLog
  <2>2. PICK r \in log : Answers(q, r)
    BY <1>2, <2>1
  <2>3. ~ (r.id < q.id)
    BY <1>1, <2>1, <2>2
  <2> QED
    BY <2>1, <2>2, <2>3
<1>8. CASE Exit(p) \/ Kill(p)
  BY <1>8, RestartLog
<1> QED
  BY <1>3, <1>4, <1>5, <1>6, <1>7, <1>8, StepCases

\* Only what is being logged gets a new place.
LEMMA NewIsLogged ==
    ASSUME Shapes, NEW p \in Procs, Act(p), ~ Audit(p), NEW r \in audit_log'[p]
    PROVE  r.id \in Nat /\ r.id <= clock
<1>1. \A o \in audit_log[p] : o.id \in Nat /\ o.id <= clock
  BY DEF Shapes, LogOK, LogRecords
<1>2. CASE Quiet(p)
  BY <1>1, <1>2, QuietLog
<1>3. ASSUME NEW x \in Subjects, NEW f \in Fields, NEW v \in Values, DsrCorrection(p, x, f, v)
      PROVE  r.id \in Nat /\ r.id <= clock
  <2>1. r \in audit_log[p] \/ \E o \in audit_log[p] : CorrectionOf(r, o, f, v)
    BY <1>3, CorrectionLog
  <2> QED
    BY <1>1, <2>1 DEF CorrectionOf
<1>4. ASSUME NEW x \in Subjects, DsrErasure(p, x)
      PROVE  r.id \in Nat /\ r.id <= clock
  BY <1>1, <1>4, ErasureLog
<1>5. CASE EnforceRetention(p)
  BY <1>1, <1>5, RetentionLog
<1>6. CASE Exit(p) \/ Kill(p)
  BY <1>6, RestartLog
<1> QED
  BY <1>2, <1>3, <1>4, <1>5, <1>6, StepCases

\* What a step does to the registry: what it says was said before, or is the
\* default of a new process, or is what an administrator just said.
LEMMA ConsentStep ==
    ASSUME Shapes, NEW p \in Procs, Act(p), NEW s \in Subjects, consent_db'[p][s]
    PROVE  consent_db[p][s] \/ Exit(p) \/ Kill(p) \/ ManageConsent(p, s, TRUE)
<1>1. consent_db[p] \in [Subjects -> BOOLEAN] /\ consent_db = [q \in Procs |-> consent_db[q]]
  BY DEF Shapes, Tables, MainOK
<1>2. ASSUME consent_db' = consent_db PROVE consent_db[p][s]
  BY <1>2
<1>3. ASSUME NEW u, NEW w, Login(p, u, w) PROVE consent_db[p][s]
  BY <1>2, <1>3 DEF Login
<1>4. ASSUME NEW c, NEW l, NEW x, NEW t, Send(p, c, l, x, t) PROVE consent_db[p][s]
  BY <1>2, <1>4 DEF Send
<1>5. ASSUME Audit(p) \/ WriteSucceeds(p) \/ WriteFails(p) \/ EnforceRetention(p)
      PROVE  consent_db[p][s]
  BY <1>2, <1>5 DEF Audit, WriteSucceeds, WriteFails, EnforceRetention
<1>6. ASSUME NEW m, NEW t, Receive(p, m, t) PROVE consent_db[p][s]
  BY <1>2, <1>6 DEF Receive
<1>7. ASSUME NEW x, DsrAccess(p, x) PROVE consent_db[p][s]
  BY <1>2, <1>7 DEF DsrAccess
<1>8. ASSUME NEW x, NEW f, NEW v, DsrCorrection(p, x, f, v) PROVE consent_db[p][s]
  BY <1>2, <1>8 DEF DsrCorrection, consoleVars
<1>9. ASSUME NEW x \in Subjects, NEW g \in BOOLEAN,
             consent_db' = [consent_db EXCEPT ![p] = set_consent(@, x, g)]
      PROVE  consent_db[p][s] \/ (x = s /\ g)
  BY <1>1, <1>9 DEF set_consent
<1>10. ASSUME NEW x \in Subjects, DsrErasure(p, x) PROVE consent_db[p][s]
  BY <1>2, <1>9, <1>10, Zenon DEF DsrErasure
<1>11. ASSUME NEW x \in Subjects, NEW g \in BOOLEAN, ManageConsent(p, x, g)
       PROVE  consent_db[p][s] \/ ManageConsent(p, s, TRUE)
  <2>1. consent_db[p][s] \/ (x = s /\ g)
    BY <1>9, <1>11 DEF ManageConsent
  <2> QED
    BY <1>11, <2>1
<1> QED
  BY <1>3, <1>4, <1>5, <1>6, <1>7, <1>8, <1>10, <1>11 DEF Act, Menu

\* Whoever prepares the record of a decision has just made it.
LEMMA PreparedDecision ==
    ASSUME Shapes, DigestsAreStrings, NEW p \in Procs, Act(p), NEW s \in Subjects,
           pc'[p] = "audit", Decides(pending'[p].details, s)
    PROVE  pending'[p].entry.consent_verified = consent_db'[p][s]
<1>1. consent_db[p] \in [Subjects -> BOOLEAN] /\ consent_db = [q \in Procs |-> consent_db[q]]
  BY DEF Shapes, Tables, MainOK
<1>2. ASSUME NEW e, NEW d, NEW n, GoAudit(p, e, d, n)
      PROVE  pending'[p].entry = e /\ pending'[p].details = d /\ Decides(d, s)
  <2>1. pending'[p] = [entry |-> e, details |-> d, next |-> n]
    BY <1>2, GoesToAudit DEF Shapes
  <2> QED
    BY <2>1
<1>3. ASSUME NEW a, NEW b, NEW c PROVE ~ Decides(<<a>>, s) /\ ~ Decides(<<a, b, c>>, s)
  <2>1. Len(<<a>>) # 2 /\ Len(<<a, b, c>>) # 2
    OBVIOUS
  <2> QED
    BY <2>1, DecisionTexts, Zenon
<1>4. \A a, b : Decides(<<a, b>>, s) =>
         /\ b = s
         /\ a = "Consent setting modified for Subject: " \/ a = "Enforced Erasure for Subject: "
  <2> SUFFICES ASSUME NEW a, NEW b, Decides(<<a, b>>, s)
               PROVE  /\ b = s
                      /\ \/ a = "Consent setting modified for Subject: "
                         \/ a = "Enforced Erasure for Subject: "
    BY Zenon
  <2>1. <<a, b>>[1] = a /\ <<a, b>>[2] = b
    OBVIOUS
  <2>2. /\ <<a, b>>[2] = s
        /\ <<a, b>>[1] \in {"Consent setting modified for Subject: ",
                           "Enforced Erasure for Subject: "}
    BY DecisionTexts, Zenon
  <2> QED
    BY <2>1, <2>2, Zenon
<1>5. ASSUME NEW x \in Subjects, NEW g \in BOOLEAN, NEW a,
             consent_db' = [consent_db EXCEPT ![p] = set_consent(@, x, g)],
             GoAudit(p, RequestEntry(p, g), <<a, x>>, "menu")
      PROVE  pending'[p].entry.consent_verified = consent_db'[p][s]
  <2>1. pending'[p].entry = RequestEntry(p, g) /\ Decides(<<a, x>>, s)
    BY <1>2, <1>5, Zenon
  <2>2. x = s
    <3>1. <<a, x>>[2] = x
      OBVIOUS
    <3>2. <<a, x>>[2] = s
      BY <2>1, DecisionTexts, Zenon
    <3> QED
      BY <3>1, <3>2, Zenon
  <2>3. consent_db'[p][s] = g
    BY <1>1, <1>5, <2>2 DEF set_consent
  <2> QED
    BY <2>1, <2>3 DEF RequestEntry, AuditEntry
<1>6. ASSUME NEW u, NEW w, Login(p, u, w) PROVE FALSE
  <2>1. \E e, n : \/ GoAudit(p, e, <<"Authentication failed for identity: ", u>>, n)
                  \/ GoAudit(p, e, <<"Identity verified via RSA-2048.">>, n)
    BY <1>6, Zenon DEF Login
  <2>2. ~ Decides(<<"Authentication failed for identity: ", u>>, s)
    <3>1. /\ "Authentication failed for identity: " # "Consent setting modified for Subject: "
          /\ "Authentication failed for identity: " # "Enforced Erasure for Subject: "
      OBVIOUS
    <3> QED
      BY <1>4, <3>1, Zenon
  <2> QED
    BY <1>2, <1>3, <2>1, <2>2, Zenon
<1>7. ASSUME NEW c, NEW l, NEW x, NEW t, Send(p, c, l, x, t) PROVE FALSE
  <2>1. pc' # [pc EXCEPT ![p] = "write"]
    BY DEF Shapes, Tables
  <2>2. \E e, n :
           \/ GoAudit(p, e, <<"Blocked transmission of Subject ID: ", x, " (Consent Revoked)">>, n)
           \/ GoAudit(p, e, <<"Blocked process reading restricted payload for Subject ID: ", x>>, n)
    BY <1>7, <2>1, Zenon DEF Send
  <2>3. ~ Decides(<<"Blocked process reading restricted payload for Subject ID: ", x>>, s)
    <3>1. /\ "Blocked process reading restricted payload for Subject ID: " # "Consent setting modified for Subject: "
          /\ "Blocked process reading restricted payload for Subject ID: " # "Enforced Erasure for Subject: "
      OBVIOUS
    <3> QED
      BY <1>4, <3>1, Zenon
  <2>4. ~ Decides(<<"Blocked transmission of Subject ID: ", x, " (Consent Revoked)">>, s)
    BY <1>3, Zenon
  <2> QED
    BY <1>2, <2>2, <2>3, <2>4, Zenon
<1>8. ASSUME WriteSucceeds(p) PROVE FALSE
  <2>1. Len(pending'[p].details) >= 3 /\ Len(pending'[p].details) = 2
    BY <1>8, WrittenRecord, DecisionTexts
  <2> QED
    BY <2>1
<1>9. ASSUME Audit(p) \/ WriteFails(p) \/ Exit(p) \/ Kill(p) PROVE FALSE
  BY <1>9 DEF Audit, WriteFails, Exit, Kill, Restart, Shapes, Tables, MainOK, Pendings
<1>10. ASSUME NEW m, NEW t, Receive(p, m, t) PROVE FALSE
  BY <1>2, <1>3, <1>10, Zenon DEF Receive
<1>11. ASSUME NEW x, DsrAccess(p, x) PROVE FALSE
  <2>1. \E a \in {"Executed DSR Access Request for Subject: ",
                   "Executed DSR Export Request for Subject: "} :
           GoAudit(p, RequestEntry(p, TRUE), <<a, x>>, "menu")
    BY <1>11, Zenon DEF DsrAccess
  <2>2. /\ ~ Decides(<<"Executed DSR Access Request for Subject: ", x>>, s)
        /\ ~ Decides(<<"Executed DSR Export Request for Subject: ", x>>, s)
    <3>1. \A a \in {"Executed DSR Access Request for Subject: ",
                    "Executed DSR Export Request for Subject: "} :
             a # "Consent setting modified for Subject: " /\ a # "Enforced Erasure for Subject: "
      OBVIOUS
    <3> QED
      BY <1>4, <3>1, Zenon
  <2> QED
    BY <1>2, <2>1, <2>2
<1>12. ASSUME EnforceRetention(p) PROVE FALSE
  BY <1>2, <1>3, <1>12, Zenon DEF EnforceRetention
<1>13. ASSUME NEW x, NEW f, NEW v, DsrCorrection(p, x, f, v) PROVE FALSE
  BY <1>13 DEF DsrCorrection, consoleVars
<1>14. ASSUME NEW x \in Subjects, DsrErasure(p, x)
       PROVE  pending'[p].entry.consent_verified = consent_db'[p][s]
  <2>1. pc[p] = "menu"
    BY <1>14 DEF DsrErasure
  <2>2. pc' # pc
    BY <2>1
  <2>3. /\ consent_db' = [consent_db EXCEPT ![p] = set_consent(@, x, FALSE)]
        /\ GoAudit(p, RequestEntry(p, FALSE), <<"Enforced Erasure for Subject: ", x>>, "menu")
    BY <1>14, <2>2, Zenon DEF DsrErasure
  <2> QED
    BY <1>5, <2>3
<1>15. ASSUME NEW x \in Subjects, NEW g \in BOOLEAN, ManageConsent(p, x, g)
       PROVE  pending'[p].entry.consent_verified = consent_db'[p][s]
  BY <1>5, <1>15, Zenon DEF ManageConsent
<1> QED
  BY <1>6, <1>7, <1>8, <1>9, <1>10, <1>11, <1>12, <1>13, <1>14, <1>15 DEF Act, Menu

LEMMA RegistryKept ==
    ASSUME DigestsAreStrings, SubjectsAreNames, Shapes,
           NEW p \in Procs, Act(p), NEW s \in Subjects, RegistryLogged(p, s)
    PROVE  RegistryLogged(p, s)'
<1> SUFFICES ASSUME consent_db'[p][s],
                    ~ (pc'[p] = "audit" /\ Decides(pending'[p].details, s))
             PROVE  Overruled(audit_log'[p], s, clock')
  <2>1. pc'[p] = "audit" /\ Decides(pending'[p].details, s) /\ consent_db'[p][s]
           => pending'[p].entry.consent_verified
    BY PreparedDecision
  <2> QED
    BY <2>1 DEF RegistryLogged
<1>1. clock \in Nat /\ clock' \in {clock, clock + 1}
  BY LogKept DEF Shapes
<1>2. CASE Exit(p) \/ Kill(p)
  BY <1>2, RestartLog DEF Overruled
<1>3. ~ ManageConsent(p, s, TRUE)
  <2> SUFFICES ASSUME ManageConsent(p, s, TRUE) PROVE FALSE
    OBVIOUS
  <2>1. PICK d : d = <<"Consent setting modified for Subject: ", s>>
    OBVIOUS
  <2>2. pc'[p] = "audit" /\ pending'[p].details = d
    <3>1. GoAudit(p, RequestEntry(p, TRUE), d, "menu")
      BY <2>1, Zenon DEF ManageConsent
    <3>2. pc'[p] = "audit" /\ pending'[p] = [entry |-> RequestEntry(p, TRUE), details |-> d,
                                             next |-> "menu"]
      BY <3>1, GoesToAudit DEF Shapes
    <3> QED
      BY <3>2
  <2> QED
    BY <2>1, <2>2, Zenon DEF Decides
<1>4. CASE consent_db[p][s] /\ Audit(p)
  <2>1. PICK n \in LogRecords :
            /\ n.id = clock + 1 /\ audit_log'[p] = audit_log[p] \union {n}
            /\ n.entry = pending[p].entry /\ n.details = pending[p].details
            /\ clock' = clock + 1
    BY <1>4, EventLog
  <2>2. \A q \in audit_log[p] : q.id \in Nat /\ q.id <= clock
    BY DEF Shapes, LogOK, LogRecords
  <2>3. pc[p] = "audit"
    BY <1>4 DEF Audit
  <2>4. CASE Decides(n.details, s)
    <3>1. n.entry.consent_verified
      BY <1>4, <2>1, <2>3, <2>4 DEF RegistryLogged
    <3>2. \A q \in audit_log[p] : q.id < n.id /\ n.id <= clock'
      BY <1>1, <2>1, <2>2
    <3> QED
      BY <2>1, <2>4, <3>1, <3>2 DEF Overruled
  <2>5. CASE ~ Decides(n.details, s)
    <3>1. Overruled(audit_log[p], s, clock)
      BY <1>4, <2>1, <2>3, <2>5 DEF RegistryLogged
    <3>2. \A q \in audit_log[p] : q.id <= clock'
      BY <1>1, <2>1, <2>2
    <3> QED
      BY <2>1, <2>2, <2>5, <3>1, <3>2 DEF Overruled
  <2> QED
    BY <2>4, <2>5
<1>5. CASE consent_db[p][s] /\ ~ Audit(p) /\ ~ Exit(p) /\ ~ Kill(p)
  <2>1. Overruled(audit_log[p], s, clock)
    BY <1>5, AuditIsNext DEF RegistryLogged
  <2>2. Overruled(audit_log'[p], s, clock)
    BY <1>1, <2>1, StaysOverruled
  <2>3. \A r \in audit_log'[p] : r.id \in Nat /\ r.id <= clock /\ r.id <= clock'
    BY <1>1, <1>5, NewIsLogged
  <2> QED
    BY <2>2, <2>3 DEF Overruled
<1> QED
  BY <1>2, <1>3, <1>4, <1>5, ConsentStep

LEMMA DecidedKept ==
    DigestsAreStrings /\ SubjectsAreNames /\ Shapes /\ Decided /\ [Next]_vars => Decided'
<1> SUFFICES ASSUME DigestsAreStrings, SubjectsAreNames, Shapes, Decided, [Next]_vars
             PROVE  Decided'
  OBVIOUS
<1>1. CASE UNCHANGED <<consoleVars, logVars, clock>>
  BY <1>1 DEF consoleVars, logVars, Decided, RegistryLogged
<1>2. ASSUME NEW p \in Procs, Act(p) PROVE Decided'
  <2>1. \A q \in Procs : q # p => Untouched(q)
    BY <1>2, StepIsLocal DEF Shapes
  <2>2. clock \in Nat /\ clock' \in {clock, clock + 1}
    BY <1>2, LogKept DEF Shapes
  <2>3. ASSUME NEW q \in Procs, NEW s \in Subjects PROVE RegistryLogged(q, s)'
    <3>1. RegistryLogged(q, s)
      BY DEF Decided
    <3>2. CASE q = p
      BY <1>2, <3>1, <3>2, RegistryKept
    <3>3. CASE q # p
      <4>1. \A r \in audit_log[q] : r.id \in Nat /\ r.id <= clock /\ r.id <= clock'
        BY <2>2 DEF Shapes, LogOK, LogRecords
      <4>2. Overruled(audit_log[q], s, clock) => Overruled(audit_log[q], s, clock')
        BY <4>1 DEF Overruled
      <4> QED
        BY <2>1, <3>1, <3>3, <4>2 DEF Untouched, RegistryLogged
    <3> QED
      BY <3>2, <3>3
  <2>4. ASSUME NEW q \in Procs, pc'[q] = "write"
        PROVE  draft'[q].classification = "Public" \/ consent_db'[q][draft'[q].subject]
    <3>1. CASE q # p
      BY <2>1, <2>4, <3>1 DEF Untouched, Decided
    <3>2. CASE q = p
      <4>1. PICK c \in Channels, l \in Classifications, s \in Subjects, t \in Payloads :
                Send(p, c, l, s, t)
        BY <1>2, <2>4, <3>2, OnlySendDrafts DEF Shapes
      <4>2. /\ l = "Public" \/ check_consent(consent_db[p], s)
            /\ consent_db' = consent_db
            /\ \E b, d : draft' = [draft EXCEPT ![p] =
                  [channel |-> c, subject |-> s, classification |-> l,
                   payload |-> apply_data_minimization(t, l, role(p)),
                   consent |-> b, minimized |-> d]]
        <5>1. ~ \E e, d : GoAudit(p, e, d, "menu")
          BY <2>4, <3>2, GoesToAudit DEF Shapes
        <5>2. ~ (l # "Public" /\ ~ check_consent(consent_db[p], s))
          BY <4>1, <5>1, Zenon DEF Send
        <5>3. consent_db' = consent_db
          BY <4>1 DEF Send
        <5>4. \E b, d : draft' = [draft EXCEPT ![p] =
                  [channel |-> c, subject |-> s, classification |-> l,
                   payload |-> apply_data_minimization(t, l, role(p)),
                   consent |-> b, minimized |-> d]]
          BY <4>1, <5>1, Zenon DEF Send
        <5> QED
          BY <5>2, <5>3, <5>4, Zenon
      <4>3. draft'[p].classification = l /\ draft'[p].subject = s
        BY <4>2 DEF Shapes, Tables
      <4> QED
        BY <3>2, <4>2, <4>3 DEF check_consent
    <3> QED
      BY <3>1, <3>2
  <2>5. ASSUME NEW m \in wire, started'[m.from] <= m.at, m.classification # "Public"
        PROVE  Overruled(audit_log'[m.from], m.subject, m.at)
    <3>1. /\ m.from \in Procs /\ m.subject \in Subjects
          /\ m.at \in Nat /\ m.at <= clock /\ ~ (clock + 1 <= m.at)
      BY <2>2 DEF Shapes, Messages
    <3>2. started[m.from] <= m.at
      BY <1>2, <2>1, <2>5, <3>1, StartedStep DEF Untouched
    <3>3. Overruled(audit_log[m.from], m.subject, m.at)
      BY <2>5, <3>2 DEF Decided
    <3>4. CASE m.from = p
      BY <1>2, <3>1, <3>3, <3>4, StaysOverruled
    <3>5. CASE m.from # p
      BY <2>1, <3>1, <3>3, <3>5 DEF Untouched
    <3> QED
      BY <3>4, <3>5
  <2>6. ASSUME NEW m, m = Message(p), WriteSucceeds(p), m.classification # "Public"
        PROVE  Overruled(audit_log'[m.from], m.subject, m.at)
    <3>1. /\ pc[p] = "write" /\ audit_log' = audit_log /\ m.from = p /\ m.at = clock
          /\ m.subject = draft[p].subject /\ m.classification = draft[p].classification
      BY <2>6 DEF WriteSucceeds, complianceVars, logVars, Message
    <3>2. m.subject \in Subjects /\ consent_db[p][m.subject]
      BY <2>6, <3>1 DEF Decided, Shapes, MainOK, Drafts
    <3> QED
      BY <3>1, <3>2 DEF Decided, RegistryLogged
  <2>7. ASSUME NEW m \in wire', started'[m.from] <= m.at, m.classification # "Public"
        PROVE  Overruled(audit_log'[m.from], m.subject, m.at)
    BY <1>2, <2>5, <2>6, <2>7, WireKept
  <2> QED
    BY <2>3, <2>4, <2>7 DEF Decided
<1>3. UNCHANGED vars => UNCHANGED <<consoleVars, logVars, clock>>
  BY DEF vars, complianceVars
<1> QED
  BY <1>1, <1>2, <1>3, RewriteLog DEF Next, Step, Act

\* The record of the last decision before a transfer is a grant.
LEMMA DecidedBinds == Shapes /\ Decided => DecisionsBindTransfers
<1> SUFFICES ASSUME Shapes, Decided PROVE DecisionsBindTransfers
  OBVIOUS
<1> SUFFICES ASSUME NEW m \in wire, m.classification # "Public", started[m.from] <= m.at,
                    {r \in Decisions(m.from, m.subject) : r.id <= m.at} # {},
                    \A r \in audit_log[m.from] : r.at = r.id
             PROVE  \E r \in {r \in Decisions(m.from, m.subject) : r.id <= m.at} :
                       /\ r.entry.consent_verified
                       /\ \A q \in {q \in Decisions(m.from, m.subject) : q.id <= m.at} :
                             q.id <= r.id
  BY DEF DecisionsBindTransfers
<1> DEFINE log == audit_log[m.from]
           before == {r \in Decisions(m.from, m.subject) : r.id <= m.at}
           ages == {m.at - r.id : r \in before}
<1>1. m.at \in Nat /\ \A r \in log : r.id \in Nat
  BY DEF Shapes, Messages, LogOK, LogRecords
<1>2. \A r : r \in before <=> r \in log /\ Decides(r.details, m.subject) /\ r.id <= m.at
  BY DEF Decisions, Decides
<1>3. ages \subseteq Nat /\ ages # {}
  BY <1>1, <1>2
<1>4. PICK r \in before : \A y \in ages : m.at - r.id <= y
  BY <1>3, MinIsLeast
<1>5. \A q \in before : q.id <= r.id
  BY <1>1, <1>2, <1>4
<1>6. Overruled(log, m.subject, m.at)
  BY DEF Decided
<1>7. ASSUME ~ r.entry.consent_verified PROVE FALSE
  <2>1. PICK n \in log : /\ r.id < n.id /\ n.id <= m.at
                         /\ \/ Decides(n.details, m.subject) /\ n.entry.consent_verified
                            \/ n.at # n.id /\ n.details \in Seq(Plain)
    BY <1>2, <1>4, <1>6, <1>7 DEF Overruled
  <2>2. n \in before
    BY <1>2, <2>1
  <2> QED
    BY <1>1, <1>2, <1>5, <2>1, <2>2
<1> QED
  BY <1>4, <1>5, <1>7

\* The log justifies the transfers of its process: where no record was
\* corrected, the last decision it shows before a message that is not public
\* was written is a grant (main.cpp:136-146, 322-361, governance.cpp:37-48),
\* whatever was erased or swept out of the log since.
THEOREM DecisionsBind ==
    ASSUME DigestsAreStrings, SubjectsAreNames
    PROVE  Spec => []DecisionsBindTransfers
<1>1. Init => Decided
  BY DEF Init, ComplianceInit, Decided, RegistryLogged, Overruled
<1>2. Spec => [](Shapes /\ Decided)
  BY <1>1, InitShapes, NextShapes, DecidedKept, PTL DEF Spec
<1> QED
  BY <1>2, DecidedBinds, PTL

-----------------------------------------------------------------------------
(***************************************************************************)
(* The console is a user of the compliance engine: a step of main() calls  *)
(* it once or not at all, and a step of a rewrite is one of its writes, so *)
(* that what ComplianceProofs shows of every sequence of calls holds of    *)
(* the console.                                                            *)
(***************************************************************************)
Calls == INSTANCE ComplianceProofs WITH Details <- Seq(Texts)

\* What the engine supposes of its parameters.
LEMMA EngineParameters ==
    /\ Seq(Texts) \subseteq Seq(Texts)
    /\ Subjects \subseteq Searches
    /\ Fields \subseteq Texts
    /\ Values \subseteq Texts
    /\ ":" \in Texts
BY ConsoleAssumption DEF Texts

LEMMA StepIsCall ==
    ASSUME Shapes, NEW p \in Procs, Act(p)
    PROVE  Engine!Call(p) \/ UNCHANGED complianceVars
<1> USE DEF Engine!Call, logVars, fileVars, Idle, Engine!logVars, Engine!fileVars, Engine!Idle
<1>1. CASE Quiet(p)
  BY <1>1, QuietCall
<1>2. CASE Audit(p)
  <2>1. pending[p] \in Pendings
    BY <1>2 DEF Audit, Shapes, MainOK
  <2>2. PICK e \in Entries, d \in Seq(Texts) : log_audit_event(p, e, d)
    BY <1>2, <2>1 DEF Audit, Pendings
  <2>3. Engine!log_audit_event(p, e, d)
    BY <2>2
       DEF log_audit_event, NewRecord, Exposed, Tick,
           Engine!log_audit_event, Engine!NewRecord, Engine!Exposed, Engine!Tick
  <2> QED
    BY <2>3
<1>3. CASE \E s \in Subjects, f \in Fields, v \in Values : DsrCorrection(p, s, f, v)
  <2>1. PICK s \in Subjects, f \in Fields, v \in Values :
          execute_dsr_correction(p, s, f, v)
    BY <1>3 DEF DsrCorrection
  <2>2. CorrectedLog(audit_log[p], s, f, v) = Engine!CorrectedLog(audit_log[p], s, f, v)
    BY Zenon DEF CorrectedLog, Corrected, Correctable, Mentions, Found, Min,
           Engine!CorrectedLog, Engine!Corrected, Engine!Correctable,
           Engine!Mentions, Engine!Found, Engine!Min
  <2>3. Engine!execute_dsr_correction(p, s, f, v)
    BY <2>1, <2>2
       DEF execute_dsr_correction, Tick, Engine!execute_dsr_correction, Engine!Tick
  <2> QED
    BY <2>3
<1>4. CASE \E s \in Subjects : DsrErasure(p, s)
  <2>1. PICK s \in Subjects : execute_dsr_deletion(p, s)
    BY <1>4 DEF DsrErasure
  <2>2. Engine!execute_dsr_deletion(p, s)
    BY <2>1
       DEF execute_dsr_deletion, Remaining, execute_dsr_access, RewriteTrail,
           Truncated, Unwritten, Mentions, Found, Tick,
           Engine!execute_dsr_deletion, Engine!Remaining,
           Engine!execute_dsr_access, Engine!RewriteTrail,
           Engine!Truncated, Engine!Unwritten, Engine!Mentions, Engine!Found, Engine!Tick
  <2> QED
    BY <2>2
<1>5. CASE EnforceRetention(p)
  <2>1. enforce_data_retention_policy(p)
    BY <1>5 DEF EnforceRetention
  <2>2. enforce_data_retention_policy(p) <=> Engine!enforce_data_retention_policy(p)
    BY Zenon
       DEF enforce_data_retention_policy, Oldest, Cardinality, RewriteTrail,
           Truncated, Unwritten, Tick,
           Engine!enforce_data_retention_policy, Engine!Oldest, Engine!Cardinality,
           Engine!RewriteTrail, Engine!Truncated, Engine!Unwritten, Engine!Tick
  <2> QED
    BY <2>1, <2>2
<1>6. CASE Exit(p) \/ Kill(p)
  BY <1>6 DEF Exit, Kill, Restart, EndProcess, Tick, Engine!EndProcess, Engine!Tick
<1> QED
  BY <1>1, <1>2, <1>3, <1>4, <1>5, <1>6, StepCases

LEMMA RewriteIsWrite ==
    ASSUME NEW p \in Procs, Rewrite(p)
    PROVE  Engine!WriteRecord(p)
BY Zenon
   DEF Rewrite, WriteRecord, Oldest, Cardinality, Exposed, Idle, logVars,
       Engine!WriteRecord, Engine!Oldest, Engine!Cardinality, Engine!Exposed,
       Engine!Idle, Engine!logVars

\* Whatever is typed, and whatever the channels return, main() uses the
\* compliance engine as ComplianceEngine says it may be used.
THEOREM ConsoleUsesEngine ==
    ASSUME DigestsAreStrings
    PROVE  Spec => Engine!Spec
<1>1. Init => Engine!ComplianceInit
  BY DEF Init, ComplianceInit, NoProc, Engine!ComplianceInit, Engine!NoProc
<1>2. Shapes /\ [Next]_vars => [Engine!Next]_(Engine!complianceVars)
  <2> SUFFICES ASSUME Shapes, [Next]_vars
               PROVE  Engine!Next \/ UNCHANGED Engine!complianceVars
    OBVIOUS
  <2>1. CASE UNCHANGED vars
    BY <2>1 DEF vars, complianceVars, logVars, fileVars,
                Engine!complianceVars, Engine!logVars, Engine!fileVars
  <2>2. CASE Next
    <3>1. PICK p \in Procs : clock < MaxCalls /\ Step(p)
      BY <2>2 DEF Next
    <3>2. UNCHANGED complianceVars => UNCHANGED Engine!complianceVars
      BY DEF complianceVars, logVars, fileVars,
             Engine!complianceVars, Engine!logVars, Engine!fileVars
    <3> QED
      BY <3>1, <3>2, StepIsCall, RewriteIsWrite DEF Engine!Next, Step, Act
  <2> QED
    BY <2>1, <2>2
<1> QED
  BY <1>1, <1>2, InitShapes, NextShapes, PTL DEF Spec, Engine!Spec

\* The theorems of ComplianceProofs are about Calls, its own copy of the
\* engine, which has the same steps and the same properties.
LEMMA SameSpec == Engine!Spec <=> Calls!Spec
<1>1. Engine!ComplianceInit <=> Calls!ComplianceInit
  BY Zenon DEF Engine!ComplianceInit, Engine!NoProc, Calls!ComplianceInit, Calls!NoProc
<1>2. [Engine!Next]_(Engine!complianceVars) <=> [Calls!Next]_(Calls!complianceVars)
  BY Zenon
     DEF Engine!Next, Engine!complianceVars, Engine!Call, Engine!Tick,
         Engine!log_audit_event, Engine!NewRecord, Engine!RewriteTrail,
         Engine!execute_dsr_correction, Engine!CorrectedLog, Engine!Corrected,
         Engine!Correctable, Engine!Mentions, Engine!Found, Engine!Min,
         Engine!execute_dsr_deletion, Engine!Remaining, Engine!execute_dsr_access,
         Engine!enforce_data_retention_policy, Engine!Oldest, Engine!Cardinality,
         Engine!EndProcess, Engine!WriteRecord, Engine!Truncated, Engine!Unwritten,
         Engine!Exposed, Engine!Idle, Engine!logVars, Engine!fileVars,
         Calls!Next, Calls!complianceVars, Calls!Call, Calls!Tick,
         Calls!log_audit_event, Calls!NewRecord, Calls!RewriteTrail,
         Calls!execute_dsr_correction, Calls!CorrectedLog, Calls!Corrected,
         Calls!Correctable, Calls!Mentions, Calls!Found, Calls!Min,
         Calls!execute_dsr_deletion, Calls!Remaining, Calls!execute_dsr_access,
         Calls!enforce_data_retention_policy, Calls!Oldest, Calls!Cardinality,
         Calls!EndProcess, Calls!WriteRecord, Calls!Truncated, Calls!Unwritten,
         Calls!Exposed, Calls!Idle, Calls!logVars, Calls!fileVars
<1> QED
  BY <1>1, <1>2, PTL DEF Engine!Spec, Calls!Spec

LEMMA SameProperties ==
    /\ Engine!Identity <=> Calls!Identity
    /\ Engine!ErasedFromMemory <=> Calls!ErasedFromMemory
    /\ Engine!ErasedFromDisk <=> Calls!ErasedFromDisk
    /\ Engine!DiskWithinMemory <=> Calls!DiskWithinMemory
    /\ Engine!DiskCovers <=> Calls!DiskCovers
BY Zenon
   DEF Engine!Identity, Engine!ErasedFromMemory, Engine!ErasedFromDisk,
       Engine!DiskWithinMemory, Engine!DiskCovers, Engine!Mentions, Engine!Found,
       Calls!Identity, Calls!ErasedFromMemory, Calls!ErasedFromDisk,
       Calls!DiskWithinMemory, Calls!DiskCovers, Calls!Mentions, Calls!Found

\* Records of the console keep their identity, nothing a process erased is
\* left in its log, and no record leaves a log of a running process but by an
\* erasure that names it or by age, with main() logging its own requests in
\* between and whether or not the file can be opened.
THEOREM ConsoleKeepsLogs ==
    ASSUME DigestsAreStrings
    PROVE  Spec => /\ [](Engine!Identity /\ Engine!ErasedFromMemory)
                   /\ Engine!RemovedByErasureOrAge
<1>1. Calls!Spec => [](Calls!TypeOK /\ Calls!Identity /\ Calls!ErasedFromMemory)
  BY EngineParameters, RetentionAssumption, OpenAssumption, Calls!LogsAreSound
<1>2. Calls!Spec => Calls!RemovedByErasureOrAge
  BY EngineParameters, RetentionAssumption, OpenAssumption, Calls!RemovalsAreJustified
<1>3. [\A p \in Procs : Calls!LeftRightly(p)]_(Calls!complianceVars) =>
         [\A p \in Procs : Engine!LeftRightly(p)]_(Engine!complianceVars)
  BY Zenon
     DEF Engine!LeftRightly, Engine!Gone, Engine!KeptIds, Engine!LeftByErasure,
         Engine!LeftByAge, Engine!Mentions, Engine!Found, Engine!Cardinality,
         Engine!complianceVars, Engine!logVars, Engine!fileVars,
         Calls!LeftRightly, Calls!Gone, Calls!KeptIds, Calls!LeftByErasure,
         Calls!LeftByAge, Calls!Mentions, Calls!Found, Calls!Cardinality,
         Calls!complianceVars, Calls!logVars, Calls!fileVars
<1>4. Calls!RemovedByErasureOrAge => Engine!RemovedByErasureOrAge
  BY <1>3, PTL DEF Engine!RemovedByErasureOrAge, Calls!RemovedByErasureOrAge
<1> QED
  BY <1>1, <1>2, <1>4, ConsoleUsesEngine, SameSpec, SameProperties, PTL

\* If the file always opens, every record the log of a running process got
\* since the file was opened with trunc last is on disk or about to be written,
\* but for those written while another process was in the middle of a rewrite;
\* and what the file holds of a process is in its log, unless that process has
\* ended.  This survives kills in the middle of a rewrite, and between a message
\* and its record.
THEOREM ConsoleKeepsFile ==
    ASSUME DigestsAreStrings, OpenOutcomes = {TRUE}
    PROVE  Spec => [](Engine!ErasedFromDisk /\ Engine!DiskWithinMemory /\ Engine!DiskCovers)
<1>1. Calls!FileOpens
  BY DEF Calls!FileOpens
<1>2. Calls!Spec => [](Calls!ErasedFromDisk /\ Calls!DiskWithinMemory /\ Calls!DiskCovers)
  BY <1>1, EngineParameters, RetentionAssumption, OpenAssumption, Calls!DiskIsSound
<1> QED
  BY <1>2, ConsoleUsesEngine, SameSpec, SameProperties, PTL
=============================================================================
