------------------------------- MODULE Cipher -------------------------------
(***************************************************************************)
(* A payload on its way from Send to Receive in main(): aes_encrypt, a     *)
(* channel, aes_decrypt.  The two functions work on a copy of their input, *)
(* result, block by block; a step here is one turn of their outer loop.    *)
(*                                                                         *)
(* The channels carry C strings: what arrives ends at the first '\0' of    *)
(* the ciphertext, or where the buffer of a read does.                     *)
(*                                                                         *)
(* Bytes are the values of char and XorChar is the operator ^.  main() passes  *)
(* constants that are not empty as key and iv, so the first guards of the  *)
(* two functions never apply to them.                                      *)
(***************************************************************************)
EXTENDS Integers, Sequences, FiniteSets, SequencesExt

CONSTANTS
    Bytes,
    XorChar(_, _),
    Payloads,    \* what aes_encrypt is given
    full_key,    \* the normalized key, 64 hexadecimal digits
    full_iv,     \* the normalized initialization vector, 16 of them
    SHM_SIZE     \* the length of the buffers of the channels

BLOCK == 16
NUL   == 0

ASSUME CipherAssumption ==
    /\ 0 .. BLOCK \subseteq Bytes
    /\ \A a, b \in Bytes : XorChar(a, b) \in Bytes /\ XorChar(XorChar(a, b), b) = a
    /\ Payloads \subseteq Seq(Bytes)
    /\ full_key \in [1 .. 64 -> Bytes]
    /\ full_iv \in [1 .. BLOCK -> Bytes]
    /\ SHM_SIZE \in Nat \ {0}

VARIABLES
    payload,     \* the argument of aes_encrypt
    ciphertext,  \* the argument of aes_decrypt
    result,      \* the local variables of the function that runs, with the
    block,       \* blocks counted from 0
    prev_block,
    phase        \* "encrypt", "decrypt" or, when aes_decrypt returned, "done"

cipherVars == <<payload, ciphertext, result, block, prev_block, phase>>

\* Mutants, here and below: what the definition that follows must not be.
\* A payload that fills its last block is not padded.
Padding_None(p) == (BLOCK - (Len(p) % BLOCK)) % BLOCK

Padding(p) == BLOCK - (Len(p) % BLOCK)

Padded(p) == p \o [i \in 1 .. Padding(p) |-> Padding(p)]

CipherInit ==
    /\ payload \in Payloads
    /\ ciphertext = <<>>
    /\ result = Padded(payload)
    /\ block = 0
    /\ prev_block = full_iv
    /\ phase = "encrypt"

\* The place in a string of byte i of block n, and that byte.
At(n, i) == BLOCK * n + i

KeyByte(n, i) == full_key[1 + ((BLOCK * n + (i - 1) * 3) % 64)]

\* "Shift Rows": which byte moves to place i, and back.
Source(i) == CASE i = 1 -> 6 [] i = 6 -> 11 [] i = 11 -> 16 [] i = 16 -> 1 [] OTHER -> i
Target(i) == CASE i = 6 -> 1 [] i = 11 -> 6 [] i = 16 -> 11 [] i = 1 -> 16 [] OTHER -> i

\* The block of result the loop is at becomes b.
ReplaceBlock(b) ==
    [k \in 1 .. Len(result) |->
        IF k > BLOCK * block /\ k <= BLOCK * block + BLOCK
        THEN b[k - BLOCK * block] ELSE result[k]]

InBlock == BLOCK * block < Len(result)

EncryptBlock ==
    /\ phase = "encrypt" /\ InBlock
    /\ LET cipher == [i \in 1 .. BLOCK |->
               LET j == Source(i)
               IN  XorChar(XorChar(result[At(block, j)], prev_block[j]), KeyByte(block, j))]
       IN  /\ result' = ReplaceBlock(cipher)
           /\ prev_block' = cipher
    /\ block' = block + 1
    /\ UNCHANGED <<payload, ciphertext, phase>>

\* What is left of a char array as a std::string.
CString(s) ==
    SubSeq(s, 1, Cardinality({n \in DOMAIN s : \A k \in 1 .. n : s[k] # NUL}))

\* What a channel makes of a string.
Received(s) ==
    CString(SubSeq(s, 1, IF Len(s) < SHM_SIZE THEN Len(s) ELSE SHM_SIZE - 1))

Aligned(s) == s # <<>> /\ Len(s) % BLOCK = 0

Transmit ==
    /\ phase = "encrypt" /\ ~ InBlock
    /\ ciphertext' = Received(result)
    /\ result' = ciphertext'
    /\ block' = 0
    /\ prev_block' = full_iv
    /\ phase' = IF Aligned(ciphertext') THEN "decrypt" ELSE "done"
    /\ UNCHANGED payload

\* The feedback is taken from the block after it was decrypted in place.
Feedback_InPlace(plain) == plain

\* The feedback for the next block, saved before this one is decrypted to plain.
Feedback(plain) == [i \in 1 .. BLOCK |-> ciphertext[At(block, i)]]

DecryptBlock ==
    /\ phase = "decrypt" /\ InBlock
    /\ LET plain == [i \in 1 .. BLOCK |->
               XorChar(XorChar(result[At(block, Target(i))], KeyByte(block, i)), prev_block[i])]
       IN  /\ result' = ReplaceBlock(plain)
           /\ prev_block' = Feedback(plain)
    /\ block' = block + 1
    /\ UNCHANGED <<payload, ciphertext, phase>>

\* Padding is taken off if the last byte can be one, and is not looked at.
Stripped(s) ==
    LET padding_val == s[Len(s)]
    IN  IF padding_val \in 1 .. BLOCK THEN SubSeq(s, 1, Len(s) - padding_val) ELSE s

Strip ==
    /\ phase = "decrypt" /\ ~ InBlock
    /\ result' = Stripped(result)
    /\ phase' = "done"
    /\ UNCHANGED <<payload, ciphertext, block, prev_block>>

CipherNext == EncryptBlock \/ Transmit \/ DecryptBlock \/ Strip

CipherSpec == CipherInit /\ [][CipherNext]_cipherVars

-----------------------------------------------------------------------------
\* A ciphertext that arrives whole is decrypted to the payload, whatever its
\* length is and whatever its last bytes are (cryptography.cpp:107, :146).
RoundTrip == phase = "done" /\ Len(ciphertext) = Len(Padded(payload)) => result = payload

\* If the channel cut the ciphertext between two blocks, nobody notices, but
\* what is shown is the beginning of the payload: no other bytes, and nothing
\* of the ciphertext (ipc_channels.cpp:201, cryptography.cpp:147, :181-187).
CutShowsPrefix == phase = "done" /\ Len(ciphertext) % BLOCK = 0 => IsPrefix(result, payload)
=============================================================================
