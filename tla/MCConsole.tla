------------------------------ MODULE MCConsole ------------------------------
(***************************************************************************)
(* Console with two processes on one channel, and two digests.             *)
(*                                                                         *)
(* MCDigest is injective.  MCDigestOfKey is too, except on the strings     *)
(* that name a private key, where it keeps the last token: there the       *)
(* string main() signs and the one rsa_authenticate_client expects have    *)
(* the same digest, so that the login check accepts and the menu can be    *)
(* explored.                                                               *)
(***************************************************************************)
EXTENDS Console, TLC

MCWords ==
    {"words", "a@b", "Process_Admin", "Process_Auditor", "Process_User", "_sig_",
     "private_key_of_", "admin", "damaged",
     "0000000000000000", MASK, "PSEUDONYMOUS_HASH:",
     "[REDACTED_RESTRICTED_ACCESS]", "[ACCESS_DENIED]"}
MCTokens == MCWords \union {"#" \o w : w \in MCWords} \union {"##" \o w : w \in MCWords}

\* The digest of a token: words, digests and digests of digests, and around.
MCNext ==
    [t \in MCTokens |->
        CASE t \in MCWords -> "#" \o t
          [] \E w \in MCWords : t = "#" \o w -> "#" \o t
          [] OTHER -> CHOOSE w \in MCWords : t = "##" \o w]

MCDigest(s) == [i \in 1 .. Len(s) |-> MCNext[s[i]]]

MCDigestOfKey(s) ==
    IF \E i \in DOMAIN s : s[i] = "private_key_of_"
    THEN MCDigest(<<s[Len(s)]>>)
    ELSE MCDigest(s)

MCUsernames == {"Process_Admin", "Process_Auditor", "Process_User"}
MCPasswords == {"admin@nexus", "user@001"}
MCSubjects  == {"Subject_001", "Subject_002"}
MCFields    == {"Blocked transmission of Subject ID: "}
MCPayloads  == {<<"words", "a@b">>}
MCDamage    == {<<"damaged">>}
MCOccurs(x, t) == x = t

MCSymmetry  == Permutations(Procs)

\* The theorems about the console speak of these instances too: a digest is a
\* string, since that of a token is a token; MCDigest is injective since MCNext
\* is.
ASSUME MCAssumption ==
    /\ SubjectsAreNames /\ WordsAreNoDigests
    /\ \A t \in MCTokens : MCNext[t] \in MCTokens
    /\ \A t, u \in MCTokens : MCNext[t] = MCNext[u] => t = u
=============================================================================
