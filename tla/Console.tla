------------------------------ MODULE Console ------------------------------
(***************************************************************************)
(* Several processes running main() of main.cpp: each logs in, then picks  *)
(* menu entries.  The consent registry and the audit log are per process,  *)
(* the audit file and the channels are shared.                             *)
(*                                                                         *)
(* A menu entry is one step up to the next point where another process or  *)
(* a kill can make a difference: the write into a channel, which may       *)
(* block, the call that appends to the audit file, and each write of a     *)
(* rewrite of it: main() goes on when its rewrite is done.                 *)
(*                                                                         *)
(* The channels promise nothing here but that they invent no message:      *)
(* init and write may fail, and a read may return nothing, any message     *)
(* written before, or a damaged one (a torn or truncated read).            *)
(***************************************************************************)
EXTENDS Governance, Compliance

CONSTANTS
    Usernames,   \* what is typed at the user name prompt
    Passwords,   \* what is typed at the password prompt
    Channels,    \* the channels in use
    Payloads,    \* the payloads typed, as sequences of words
    Fields,      \* the fields of correction requests
    Values,      \* the corrected values
    Damage,      \* what a damaged message decrypts to
    MaxCalls     \* bound on the calls of the compliance engines

Nobody == "nobody"

ASSUME ConsoleAssumption ==
    /\ Usernames \subseteq Tokens /\ Nobody \notin Usernames
    /\ Subjects \subseteq Searches
    /\ Payloads \subseteq Strings /\ Damage \subseteq Strings
ASSUME LiteralsAssumption ==
    /\ MASK \in Tokens /\ "0000000000000000" \in Tokens
    /\ "PSEUDONYMOUS_HASH:" \in Tokens /\ "[ACCESS_DENIED]" \in Tokens

VARIABLES
    pc,           \* where each process is in main()
    username,     \* who logged in
    password,     \* with which password
    consent_db,   \* GovernanceRegistry::consent_db of each process
    draft,        \* the message a process is about to write
    pending,      \* the audit record a process is about to log
    \* history, for the properties only:
    wire          \* the messages written into the channels

consoleVars == <<pc, username, password, consent_db, draft, pending, wire>>
vars == <<consoleVars, complianceVars>>

NoDraft == [subject |-> "none"]
NoEntry == [next |-> "none"]

role(p) == get_role(username[p])

Init ==
    /\ ComplianceInit
    /\ pc = [p \in Procs |-> "login"]
    /\ username = [p \in Procs |-> Nobody]
    /\ password = [p \in Procs |-> Nobody]
    /\ consent_db = [p \in Procs |-> DefaultConsent]
    /\ draft = [p \in Procs |-> NoDraft]
    /\ pending = [p \in Procs |-> NoEntry]
    /\ wire = {}

-----------------------------------------------------------------------------
\* Audit records.  A step that ends in log_audit_event(...) prepares the
\* record and says where main() goes after it.

NO_HASH == <<"0000000000000000">>

AuditEntry(process_id, rolename, channel, classification, hash, consent, status) ==
    [process_id |-> process_id, role |-> rolename, channel |-> channel,
     classification |-> classification, hash |-> hash,
     consent_verified |-> consent, status |-> status]

\* The record of a request that is not a transfer.
RequestEntry(p, consent) ==
    AuditEntry("1240", role(p), "None", "None", NO_HASH, consent, "SUCCESS")

GoAudit(p, entry, details, next) ==
    /\ pc' = [pc EXCEPT ![p] = "audit"]
    /\ pending' = [pending EXCEPT ![p] =
                     [entry |-> entry, details |-> details, next |-> next]]

Audit(p) ==
    /\ pc[p] = "audit"
    /\ log_audit_event(p, pending[p].entry, pending[p].details)
    /\ pc' = [pc EXCEPT ![p] = pending[p].next]
    /\ pending' = [pending EXCEPT ![p] = NoEntry]
    /\ UNCHANGED <<username, password, consent_db, draft, wire>>

-----------------------------------------------------------------------------
\* main.cpp:60-62, the operators as they are written there.
PasswordRejected(u, w) ==
    /\ u = "Process_Admin"   /\ w # "admin@nexus"
    /\ u = "Process_Auditor" /\ w # "auditor@nexus"
    /\ u = "Process_User"    /\ w # "user@001"

Login(p, u, w) ==
    /\ pc[p] = "login"
    /\ username' = [username EXCEPT ![p] = u]
    /\ password' = [password EXCEPT ![p] = w]
    /\ IF \/ ~ rsa_authenticate_client(<<u>>, LoginSignature(<<u>>))
          \/ PasswordRejected(u, w)
       THEN GoAudit(p, AuditEntry("0", "Unknown", "None", "None", NO_HASH,
                                  FALSE, "DENIED_BY_RBAC"),
                    <<"Authentication failed for identity: ", u>>, "refused")
       ELSE GoAudit(p, AuditEntry("1240", get_role(u), "None", "None", NO_HASH,
                                  TRUE, "SUCCESS"),
                    <<"Identity verified via RSA-2048.">>, "menu")
    /\ UNCHANGED <<consent_db, draft, wire, complianceVars>>

\* Menu entry 1 up to the write: consent, then role and minimization.
Send(p, channel, classification, subject_id, payload) ==
    LET consent   == check_consent(consent_db[p], subject_id)
        minimized == apply_data_minimization(payload, classification, role(p))
        denied(status) == AuditEntry("1240", role(p), channel, classification,
                                     NO_HASH, consent, status)
    IN  /\ pc[p] = "menu"
        /\ \/ /\ classification # "Public" /\ ~ consent
              /\ GoAudit(p, denied("DENIED_BY_CONSENT"),
                         <<"Blocked transmission of Subject ID: ", subject_id,
                           " (Consent Revoked)">>, "menu")
              /\ UNCHANGED draft
           \/ /\ classification = "Public" \/ consent
              /\ minimized = REDACTED
              /\ GoAudit(p, denied("DENIED_BY_RBAC"),
                         <<"Blocked process reading restricted payload for Subject ID: ",
                           subject_id>>, "menu")
              /\ UNCHANGED draft
           \/ /\ classification = "Public" \/ consent
              /\ minimized # REDACTED
              /\ pc' = [pc EXCEPT ![p] = "write"]
              /\ draft' = [draft EXCEPT ![p] =
                             [channel |-> channel, subject |-> subject_id,
                              classification |-> classification,
                              payload |-> minimized, consent |-> consent,
                              minimized |-> minimized # payload]]
              /\ UNCHANGED pending
        /\ UNCHANGED <<username, password, consent_db, wire,
                       complianceVars>>

Message(p) ==
    [from |-> p, role |-> role(p), at |-> clock, channel |-> draft[p].channel,
     classification |-> draft[p].classification,
     subject |-> draft[p].subject, payload |-> draft[p].payload]

\* The record of the message p is about to write.
GoLogTransfer(p) ==
    LET d == draft[p]
    IN  GoAudit(p, AuditEntry("1240", role(p), d.channel, d.classification,
                              generate_sha256(d.payload), d.consent, "SUCCESS"),
                <<"Subject ID ", d.subject, " payload written to channel">> \o
                (IF d.minimized THEN <<" (Data Minimization Applied)">> ELSE <<>>),
                "menu")

\* Mutants, here and below: what the definition that follows must not be.
\* The record is logged only for subjects that consented.
WriteSucceeds_Unlogged(p) ==
    /\ pc[p] = "write"
    /\ wire' = wire \union {Message(p)}
    /\ IF draft[p].consent THEN GoLogTransfer(p)
       ELSE pc' = [pc EXCEPT ![p] = "menu"] /\ UNCHANGED pending
    /\ draft' = [draft EXCEPT ![p] = NoDraft]
    /\ UNCHANGED <<username, password, consent_db, complianceVars>>

\* init_<channel> and write_<channel> succeeded: the message is in the
\* channel, its record still has to be logged.
WriteSucceeds(p) ==
    /\ pc[p] = "write"
    /\ wire' = wire \union {Message(p)}
    /\ GoLogTransfer(p)
    /\ draft' = [draft EXCEPT ![p] = NoDraft]
    /\ UNCHANGED <<username, password, consent_db, complianceVars>>

\* write_ok is not looked at.
WriteFails_Logged(p) ==
    /\ pc[p] = "write"
    /\ GoLogTransfer(p)
    /\ draft' = [draft EXCEPT ![p] = NoDraft]
    /\ UNCHANGED <<username, password, consent_db, wire, complianceVars>>

\* The message stays in main()'s hands after the attempt.
WriteFails_Keeps(p) ==
    /\ pc[p] = "write"
    /\ pc' = [pc EXCEPT ![p] = "menu"]
    /\ UNCHANGED <<username, password, consent_db, draft, pending, wire,
                   complianceVars>>

\* One of them returned false: main() says so and logs nothing.
WriteFails(p) ==
    /\ pc[p] = "write"
    /\ pc' = [pc EXCEPT ![p] = "menu"]
    /\ draft' = [draft EXCEPT ![p] = NoDraft]
    /\ UNCHANGED <<username, password, consent_db, pending, wire,
                   complianceVars>>

\* Menu entry 2, when the channel returns something.  The payload is hashed
\* and shown; neither the reader's role nor the hash is compared to anything.
Receive(p, m, decrypted) ==
    /\ pc[p] = "menu"
    /\ m \in wire
    /\ decrypted = m.payload \/ decrypted \in Damage
    /\ GoAudit(p, AuditEntry("2480", role(p), m.channel, "None",
                             generate_sha256(decrypted), TRUE, "SUCCESS"),
               <<"Decrypted read session payload successful">>, "menu")
    /\ UNCHANGED <<username, password, consent_db, draft, wire, complianceVars>>

\* Menu entry 5, requests 1 and 2, which differ in their report only.
DsrAccess(p, subject_id) ==
    /\ pc[p] = "menu"
    /\ \E request \in {"Executed DSR Access Request for Subject: ",
                       "Executed DSR Export Request for Subject: "} :
          GoAudit(p, RequestEntry(p, TRUE), <<request, subject_id>>, "menu")
    /\ UNCHANGED <<username, password, consent_db, draft, wire,
                   complianceVars>>

DsrCorrection(p, subject_id, field, new_val) ==
    /\ pc[p] = "menu"
    /\ execute_dsr_correction(p, subject_id, field, new_val)
    /\ UNCHANGED consoleVars

\* The consent follows only if there was something to erase.  It is in the memory
\* of p, which nobody sees while p writes the rest of the file.
DsrErasure(p, subject_id) ==
    /\ pc[p] = "menu"
    /\ execute_dsr_deletion(p, subject_id)
    /\ IF execute_dsr_access(p, subject_id) # {}
       THEN /\ consent_db' = [consent_db EXCEPT ![p] =
                                set_consent(@, subject_id, FALSE)]
            /\ GoAudit(p, RequestEntry(p, FALSE),
                       <<"Enforced Erasure for Subject: ", subject_id>>, "menu")
       ELSE UNCHANGED <<consent_db, pc, pending>>
    /\ UNCHANGED <<username, password, draft, wire>>

\* Menu entry 6.
ManageConsent(p, subject_id, granted) ==
    /\ pc[p] = "menu"
    /\ role(p) = "Admin"
    /\ consent_db' = [consent_db EXCEPT ![p] =
                        set_consent(@, subject_id, granted)]
    /\ GoAudit(p, RequestEntry(p, granted),
               <<"Consent setting modified for Subject: ", subject_id>>, "menu")
    /\ UNCHANGED <<username, password, draft, wire, complianceVars>>

\* Menu entry 7.
EnforceRetention(p) ==
    /\ pc[p] = "menu"
    /\ enforce_data_retention_policy(p)
    /\ GoAudit(p, RequestEntry(p, TRUE),
               <<"Executed automated Data Retention clean sweep.">>, "menu")
    /\ UNCHANGED <<username, password, consent_db, draft, wire>>

\* The process is gone and the next one on the same terminal starts: nothing
\* of the registry or of the log is carried over.
Restart(p) ==
    /\ EndProcess(p)
    /\ pc' = [pc EXCEPT ![p] = "login"]
    /\ username' = [username EXCEPT ![p] = Nobody]
    /\ password' = [password EXCEPT ![p] = Nobody]
    /\ consent_db' = [consent_db EXCEPT ![p] = DefaultConsent]
    /\ draft' = [draft EXCEPT ![p] = NoDraft]
    /\ pending' = [pending EXCEPT ![p] = NoEntry]
    /\ UNCHANGED wire

\* Menu entry 8, or return 1 after a refused login.
Exit(p) == pc[p] \in {"menu", "refused"} /\ Restart(p)

\* Killed while it writes (by SIGPIPE, or by an operator who gives up on a
\* blocked channel), before it logs, or in the middle of a rewrite.
Kill(p) == (pc[p] \in {"write", "audit"} \/ ~ Idle(p)) /\ Restart(p)

\* The rewrite of the audit file that p's call has begun.
Rewrite(p) == WriteRecord(p) /\ UNCHANGED consoleVars

Menu(p) ==
    \/ \E u \in Usernames, w \in Passwords : Login(p, u, w)
    \/ Audit(p)
    \/ \E c \in Channels, l \in Classifications, s \in Subjects, t \in Payloads :
          Send(p, c, l, s, t)
    \/ WriteSucceeds(p)
    \/ WriteFails(p)
    \/ \E m \in wire : \E t \in {m.payload} \union Damage : Receive(p, m, t)
    \/ \E s \in Subjects : DsrAccess(p, s)
    \/ \E s \in Subjects, f \in Fields, v \in Values : DsrCorrection(p, s, f, v)
    \/ \E s \in Subjects : DsrErasure(p, s)
    \/ \E s \in Subjects, g \in BOOLEAN : ManageConsent(p, s, g)
    \/ EnforceRetention(p)
    \/ Exit(p)

Step(p) == (Idle(p) /\ Menu(p)) \/ Rewrite(p) \/ Kill(p)

Next == clock < MaxCalls /\ \E p \in Procs : Step(p)

Spec == Init /\ [][Next]_vars

-----------------------------------------------------------------------------
Statuses == {"SUCCESS", "DENIED_BY_RBAC", "DENIED_BY_CONSENT"}

Entries == [process_id : {"0", "1240", "2480"}, role : Roles \union {"Unknown"},
            channel : Channels \union {"None"},
            classification : Classifications \union {"None"},
            hash : Strings, consent_verified : BOOLEAN, status : Statuses]

\* What the details of a record are made of.
Texts ==
    Subjects \union Usernames \union Fields \union Values \union
    {":", "Authentication failed for identity: ",
     "Identity verified via RSA-2048.",
     "Blocked transmission of Subject ID: ", " (Consent Revoked)",
     "Blocked process reading restricted payload for Subject ID: ",
     "Subject ID ", " payload written to channel",
     " (Data Minimization Applied)",
     "Decrypted read session payload successful",
     "Executed DSR Access Request for Subject: ",
     "Executed DSR Export Request for Subject: ",
     "Consent setting modified for Subject: ",
     "Enforced Erasure for Subject: ",
     "Executed automated Data Retention clean sweep."}

\* The compliance engine by itself, called from anywhere with anything: what a
\* process does to its log and to the file is a call of it.
Engine == INSTANCE ComplianceEngine WITH Details <- Seq(Texts)

\* The variables of main() have the shapes their declarations give, a message
\* is drafted exactly while it is being written, and a record is pending
\* exactly while it is about to be logged.
TypeOK ==
    /\ pc \in [Procs -> {"login", "menu", "write", "audit", "refused"}]
    /\ username \in [Procs -> Usernames \union {Nobody}]
    /\ password \in [Procs -> Passwords \union {Nobody}]
    /\ consent_db \in [Procs -> [Subjects -> BOOLEAN]]
    /\ \A p \in Procs :
          /\ pc[p] = "write" <=> draft[p] # NoDraft
          /\ pc[p] = "audit" <=> pending[p] # NoEntry
          /\ pc[p] = "login" <=> username[p] = Nobody
          /\ pc[p] = "audit" => pending[p].entry \in Entries
          /\ \A r \in audit_log[p] : r.entry \in Entries

\* What the theorems about the log and the payloads suppose of what operators
\* type: a subject is named by something that is in no text of the console and
\* in no correction, and no word of a payload is a literal or a digest.
SubjectsAreNames ==
    \A x \in Subjects :
        \A t \in Fields \union Values \union
                 {":", "Subject ID ", " payload written to channel",
                  " (Data Minimization Applied)",
                  "Consent setting modified for Subject: ",
                  "Enforced Erasure for Subject: "} : ~ Occurs(x, t)

WordsAreNoDigests ==
    \A t, u \in Payloads : \A i \in DOMAIN t :
        /\ t[i] # "PSEUDONYMOUS_HASH:" /\ t[i] # "[ACCESS_DENIED]"
        /\ \A j \in DOMAIN generate_sha256(u) : t[i] # generate_sha256(u)[j]

IsTransfer(entry) ==
    entry.status = "SUCCESS" /\ entry.classification \in Classifications

\* entry is the record of message m.
Records(entry, m) ==
    /\ IsTransfer(entry)
    /\ entry.role = m.role
    /\ entry.channel = m.channel
    /\ entry.classification = m.classification
    /\ entry.hash = generate_sha256(m.payload)

\* The trail claims no transfer that did not happen: a successful transfer in
\* a log or on disk is that of a message its process had written before, with
\* the hash of what was written and not of what was typed.
ClaimedTransfersHappened ==
    \A r \in trail \union UNION {audit_log[p] : p \in Procs} :
        IsTransfer(r.entry) =>
            \E m \in wire : m.from = r.owner /\ m.at < r.id /\ Records(r.entry, m)

\* A message a running process has written is about to be logged, or is in its
\* log, or was erased from it on request since, or was swept out with
\* everything that was logged before the message was written.
WrittenIsLogged ==
    \A m \in wire :
        LET p == m.from
        IN  started[p] <= m.at =>
              \/ pc[p] = "audit" /\ Records(pending[p].entry, m)
              \/ \E r \in audit_log[p] : r.id > m.at /\ Records(r.entry, m)
              \/ \E x \in Searches : erased[p][x] > m.at /\ Occurs(x, m.subject)
              \/ \A r \in audit_log[p] : r.id > m.at

\* The decisions on the consent of s that p's log records, in a run of p
\* that corrected no record.
Decisions(p, s) ==
    {r \in audit_log[p] :
        r.details \in {<<"Consent setting modified for Subject: ", s>>,
                      <<"Enforced Erasure for Subject: ", s>>}}

\* The log justifies the transfers: when the last decision it shows before a
\* message was written is a refusal or an erasure, the message was public.
DecisionsBindTransfers ==
    \A m \in wire :
        LET p      == m.from
            before == {r \in Decisions(p, m.subject) : r.id <= m.at}
        IN  /\ started[p] <= m.at
            /\ before # {}
            /\ \A r \in audit_log[p] : r.at = r.id
            => \/ m.classification = "Public"
               \/ \E r \in before : /\ r.entry.consent_verified
                                   /\ \A q \in before : q.id <= r.id

\* Whoever is logged in, no word typed into a restricted or internal message
\* enters a channel unless an administrator typed it.
OnlyAdminsSendRaw ==
    \A m \in wire :
        m.classification \in {"Restricted", "Internal"} /\ m.role # "Admin" =>
            \A t \in Payloads : \A i \in DOMAIN t, j \in DOMAIN m.payload :
                t[i] # m.payload[j]

\* With a digest that tells strings apart nobody gets past the login
\* (cryptography.cpp:198 signs another string than :203-205 expect): every
\* attempt ends in a DENIED_BY_RBAC record and the end of the process, and no
\* message ever enters a channel.
NobodyReachesMenu ==
    /\ \A p \in Procs : pc[p] \in {"login", "audit", "refused"}
    /\ wire = {}

-----------------------------------------------------------------------------
(***************************************************************************)
(* What a document says of the program and it does not do.                 *)
(***************************************************************************)

\* README.md:132 "Log in as Process_Admin with passphrase admin@nexus, or
\* Process_User with passphrase user@001": those two are let in.
WalkthroughLogsIn ==
    \A p \in Procs :
        pc[p] = "refused" =>
            ~ \/ username[p] = "Process_Admin" /\ password[p] = "admin@nexus"
              \/ username[p] = "Process_User" /\ password[p] = "user@001"
=============================================================================
