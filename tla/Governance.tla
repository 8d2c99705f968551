----------------------------- MODULE Governance -----------------------------
(***************************************************************************)
(* The governance registry of src/governance.cpp: identities and roles,    *)
(* consent, and the data minimization filter.                              *)
(*                                                                         *)
(* A registry is a member of each process and lives in its memory; the     *)
(* operators below are what its methods compute on such a value.           *)
(***************************************************************************)
EXTENDS Cryptography, FiniteSets, FiniteSetsExt

CONSTANTS
    Subjects,   \* data subject identifiers, any string the operator types
    Emails      \* the words of a payload that contain an '@'

Roles           == {"Admin", "Auditor", "User"}
Classifications == {"Public", "Internal", "Confidential", "Restricted"}

-----------------------------------------------------------------------------
\* Identities.  rbac_keys is written and never read, so it is left out.

get_role(id) ==
    CASE id = "Process_Admin"   -> "Admin"
      [] id = "Process_Auditor" -> "Auditor"
      [] OTHER                  -> "User"

-----------------------------------------------------------------------------
\* Consent.  A subject that was never entered counts as one that refused, so
\* the map and its default are one total function.

DefaultConsent == [s \in Subjects |-> s \in {"Subject_001", "Subject_003"}]

check_consent(consent_db, subject_id) == consent_db[subject_id]

\* Mutants, here and below: what the definition that follows must not be.
\* map::insert, which does not overwrite, instead of operator[].
set_consent_Inserts(consent_db, subject_id, granted) == consent_db

set_consent(consent_db, subject_id, granted) ==
    [consent_db EXCEPT ![subject_id] = granted]

-----------------------------------------------------------------------------
(***************************************************************************)
(* Data minimization.  A payload is a sequence of words; the scan of       *)
(* governance.cpp:92-102 replaces the word around the first '@' only.      *)
(***************************************************************************)
MASK     == "[PII_MASKED]"
PSEUDO   == <<"PSEUDONYMOUS_HASH:">>
REDACTED == <<"[REDACTED_RESTRICTED_ACCESS]">>
DENIED   == <<"[ACCESS_DENIED]">>

EmailsIn(payload) == {i \in DOMAIN payload : payload[i] \in Emails}

MaskEmail(payload) ==
    IF EmailsIn(payload) = {} THEN payload
    ELSE [payload EXCEPT ![Min(EmailsIn(payload))] = MASK]

\* The last return hands out the payload.
apply_data_minimization_Open(payload, classification, role) ==
    CASE classification = "Restricted" /\ role = "Auditor" ->
            PSEUDO \o generate_sha256(payload)
      [] classification = "Restricted" /\ role = "User" -> REDACTED
      [] OTHER -> payload

apply_data_minimization(payload, classification, role) ==
    CASE classification = "Public" \/ role = "Admin" -> payload
      [] classification = "Confidential" /\ role = "Auditor" -> payload
      [] classification = "Confidential" /\ role = "User" -> MaskEmail(payload)
      [] classification = "Restricted" /\ role = "Auditor" ->
            PSEUDO \o generate_sha256(payload)
      [] classification = "Restricted" /\ role = "User" -> REDACTED
      [] OTHER -> DENIED
=============================================================================
