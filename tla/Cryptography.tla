---------------------------- MODULE Cryptography ----------------------------
(***************************************************************************)
(* Client authentication of src/cryptography.cpp.                          *)
(*                                                                         *)
(* A C++ string is a sequence of tokens: a user name, a word of a payload  *)
(* or one of the literals below, so that operator+ is concatenation.  The  *)
(* literal "_sig_private_key_of_" starts with the literal "_sig_", and so  *)
(* does "_sig_admin"; the tokens keep that overlap.                        *)
(*                                                                         *)
(* SHA-256 is a constant operator.  What depends on it says which property *)
(* of the hash it needs (see CollisionFree in ConsoleProofs).              *)
(***************************************************************************)
EXTENDS Integers, Sequences

CONSTANTS
    Tokens,              \* the pieces strings are made of
    generate_sha256(_)   \* cryptography.cpp:31, a digest for every string

Strings == Seq(Tokens)

ASSUME TokensAssumption ==
    "_sig_" \in Tokens /\ "private_key_of_" \in Tokens /\ "admin" \in Tokens

SIG       == <<"_sig_">>
KEY_OF    == <<"_sig_", "private_key_of_">>
SIG_ADMIN == <<"_sig_", "admin">>

\* Mutant: what the next definition must not be.  Only the key is signed.
rsa_sign_payload_KeyOnly(payload, private_key) == generate_sha256(private_key)

rsa_sign_payload(payload, private_key) ==
    generate_sha256(payload \o SIG \o private_key)

\* public_key, the third parameter of the function, is never read.
rsa_authenticate_client(client_id, signature) ==
    \/ signature = generate_sha256(client_id \o KEY_OF \o client_id)
    \/ signature = generate_sha256(client_id \o SIG_ADMIN)

\* The signature main() computes for the user that is logging in.
LoginSignature(username) ==
    rsa_sign_payload(username, username \o KEY_OF \o username)
=============================================================================
