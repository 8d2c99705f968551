------------------------------ MODULE Dashboard ------------------------------
(***************************************************************************)
(* The page web/index.js: a simulation of the program for one operator.    *)
(* Event handlers run to completion one after the other; what makes the    *)
(* page concurrent are the timers of data subject requests, which fire     *)
(* later, whatever happened in the meantime, and are never cancelled.      *)
(* They all have the same delay, so they fire in the order they were set.  *)
(*                                                                         *)
(* Subjects are numbered in the order of the registry; while there are     *)
(* fewer than ten, no id is part of another.  The form fields are inputs   *)
(* of the handlers that read them, activeTech, on which only the animation *)
(* depends, is left out, and so are the two records systemAuditTrail       *)
(* starts with, which mention no subject.  The records are filtered, never *)
(* sorted or counted but for a message: their order and number, which      *)
(* nothing here depends on, are left out too.                              *)
(***************************************************************************)
EXTENDS Naturals, Sequences

CONSTANTS
    Names,          \* what can be typed as a name
    MaxSubjects,    \* bounds on the subjects, the transfers tried, and the
    MaxTransfers,   \* requests that wait for their timers
    MaxPending

Blank == ""

ASSUME DashboardAssumption ==
    /\ Names # {} /\ Blank \notin Names
    /\ MaxSubjects \in 3 .. 9
    /\ {MaxTransfers, MaxPending} \subseteq Nat

Roles           == {"Admin", "Auditor", "User"}
Classifications == {"Public", "Internal", "Confidential", "Restricted"}
\* "Access" stands for "Export" too: both only show something.
RequestTypes    == {"Access", "Correction", "Erasure"}

VARIABLES
    loggedIn,             \* the login overlay is hidden
    currentRole,
    totalCommunications,
    privacyIncidents,
    subjectsRegistry,     \* the consent and the name of each subject
    systemAuditTrail,     \* the set of the records
    pending               \* the requests whose timers have not fired

session  == <<loggedIn, currentRole>>
metrics  == <<totalCommunications, privacyIncidents>>
vars == <<session, metrics, subjectsRegistry, systemAuditTrail, pending>>

Init ==
    /\ loggedIn = FALSE /\ currentRole = "Admin"
    /\ totalCommunications = 0 /\ privacyIncidents = 0
    /\ \E name \in Names :
          subjectsRegistry = [s \in 1 .. 3 |-> [consent |-> s # 2, name |-> name]]
    /\ systemAuditTrail = {}
    /\ pending = <<>>

Subjects == DOMAIN subjectsRegistry

-----------------------------------------------------------------------------
\* The session.

Login ==
    /\ ~ loggedIn
    /\ loggedIn' = TRUE
    /\ currentRole' \in Roles
    /\ UNCHANGED <<metrics, subjectsRegistry, systemAuditTrail, pending>>

\* The page is covered; role and timers stay as they are.
Logout ==
    /\ loggedIn
    /\ loggedIn' = FALSE
    /\ UNCHANGED <<currentRole, metrics, subjectsRegistry, systemAuditTrail, pending>>

\* The buttons for this ask for no password.
changeRoleContext ==
    /\ loggedIn
    /\ currentRole' \in Roles
    /\ UNCHANGED <<loggedIn, metrics, subjectsRegistry, systemAuditTrail, pending>>

-----------------------------------------------------------------------------
\* The registry.

\* Mutants, here and below: what the definition that follows must not be.
\* Every role may modify the registry.
MayModify_All == TRUE

MayModify == currentRole = "Admin"

toggleConsentState(s) ==
    /\ loggedIn /\ MayModify
    /\ subjectsRegistry' = [subjectsRegistry EXCEPT ![s].consent = ~ @]
    /\ UNCHANGED <<session, metrics, systemAuditTrail, pending>>

addNewSubject(name) ==
    /\ loggedIn /\ MayModify
    /\ subjectsRegistry' = Append(subjectsRegistry, [consent |-> TRUE, name |-> name])
    /\ UNCHANGED <<session, metrics, systemAuditTrail, pending>>

-----------------------------------------------------------------------------
\* The simulated transfer.

logSimulationEvent(subject, status) ==
    systemAuditTrail' = systemAuditTrail \union {[subject |-> subject, status |-> status]}

Denied(subject, status) ==
    /\ privacyIncidents' = privacyIncidents + 1
    /\ logSimulationEvent(subject, status)
    /\ UNCHANGED totalCommunications

triggerSimulation(subject, classification, verifyConsent) ==
    /\ loggedIn
    /\ IF verifyConsent /\ classification # "Public" /\ ~ subjectsRegistry[subject].consent
       THEN Denied(subject, "DENIED_BY_CONSENT")
       ELSE IF classification = "Restricted" /\ currentRole = "User"
       THEN Denied(subject, "DENIED_BY_RBAC")
       ELSE /\ totalCommunications' = totalCommunications + 1
            /\ logSimulationEvent(subject, "SUCCESS")
            /\ UNCHANGED privacyIncidents
    /\ UNCHANGED <<session, subjectsRegistry, pending>>

-----------------------------------------------------------------------------
\* Data subject requests.

\* The timer captures type and subject, and not the corrected text.
submitDsrRequest(type, subject) ==
    /\ loggedIn
    /\ pending' = Append(pending, [type |-> type, subject |-> subject])
    /\ UNCHANGED <<session, metrics, subjectsRegistry, systemAuditTrail>>

\* The text is looked at when the request is submitted only.
TextAccepted_Unchecked(text) == TRUE

TextAccepted(text) == text # Blank

\* What is in the field by the time the timer fires.
Correction(subject, text) ==
    subjectsRegistry' = IF TextAccepted(text)
                        THEN [subjectsRegistry EXCEPT ![subject].name = text]
                        ELSE subjectsRegistry

Mentions(r, subject) == r.subject = subject

\* Refused transfers are no transfers.
Kept_Denials(subject) ==
    {r \in systemAuditTrail : r.status # "SUCCESS" \/ ~ Mentions(r, subject)}

Kept(subject) == {r \in systemAuditTrail : ~ Mentions(r, subject)}

Erasure(subject) ==
    /\ systemAuditTrail' = Kept(subject)
    /\ subjectsRegistry' = [subjectsRegistry EXCEPT ![subject].consent = FALSE]

\* The timer of the oldest request: nothing asks who is logged in by now.
FireRequest ==
    /\ pending # <<>>
    /\ LET request == Head(pending) IN
       \/ /\ request.type = "Erasure"
          /\ Erasure(request.subject)
       \/ /\ request.type = "Correction"
          /\ \E text \in Names \union {Blank} : Correction(request.subject, text)
          /\ UNCHANGED systemAuditTrail
       \/ /\ request.type = "Access"
          /\ UNCHANGED <<subjectsRegistry, systemAuditTrail>>
    /\ pending' = Tail(pending)
    /\ UNCHANGED <<session, metrics>>

-----------------------------------------------------------------------------
Simulate ==
    \E s \in Subjects, c \in Classifications, v \in BOOLEAN : triggerSimulation(s, c, v)

\* The bounds keep the operator from going on, never a timer from firing.
Next ==
    \/ Login
    \/ Logout
    \/ changeRoleContext
    \/ \E s \in Subjects : toggleConsentState(s)
    \/ Len(subjectsRegistry) < MaxSubjects /\ \E name \in Names : addNewSubject(name)
    \/ totalCommunications + privacyIncidents < MaxTransfers /\ Simulate
    \/ Len(pending) < MaxPending /\ \E t \in RequestTypes, s \in Subjects : submitDsrRequest(t, s)
    \/ FireRequest

Spec == Init /\ [][Next]_vars

\* A timer that was set fires; the operator owes nothing.
FairSpec == Spec /\ WF_vars(FireRequest)

-----------------------------------------------------------------------------
Statuses == {"SUCCESS", "DENIED_BY_CONSENT", "DENIED_BY_RBAC"}

\* The variables have the shapes their declarations give, and no subject has a
\* blank name: a correction is checked when it is carried out, when the field
\* may be empty again (index.js:541-547).
TypeOK ==
    /\ loggedIn \in BOOLEAN /\ currentRole \in Roles
    /\ {totalCommunications, privacyIncidents} \subseteq 0 .. MaxTransfers
    /\ subjectsRegistry \in Seq([consent : BOOLEAN, name : Names])
    /\ systemAuditTrail \subseteq [subject : Subjects, status : Statuses]
    /\ pending \in Seq([type : RequestTypes, subject : Subjects])

\* Consent is given by administrators only, and taken away by them or by an
\* erasure that was submitted for this subject (index.js:160, :558).
ConsentChanges ==
    [][\A s \in Subjects :
          /\ subjectsRegistry'[s].consent /\ ~ subjectsRegistry[s].consent =>
                loggedIn /\ currentRole = "Admin"
          /\ subjectsRegistry[s].consent /\ ~ subjectsRegistry'[s].consent =>
                \/ loggedIn /\ currentRole = "Admin"
                \/ pending # <<>> /\ Head(pending) = [type |-> "Erasure", subject |-> s]]_vars

\* An erasure that was submitted is carried out, even after a logout, and takes
\* with it what was logged since: there is a moment at which no record of the
\* subject, sent or refused, and no consent is left (index.js:507-566).
ErasuresHappen ==
    \A s \in 1 .. MaxSubjects :
        (\E k \in DOMAIN pending : pending[k] = [type |-> "Erasure", subject |-> s]) ~>
            /\ \A r \in systemAuditTrail : ~ Mentions(r, s)
            /\ s \in Subjects => ~ subjectsRegistry[s].consent
=============================================================================
