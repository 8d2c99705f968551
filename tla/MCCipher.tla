------------------------------ MODULE MCCipher ------------------------------
(***************************************************************************)
(* Cipher on bytes of seven bits.  The payloads end before, at and after   *)
(* the end of a block, some in a byte that could be padding.  There are    *)
(* ciphertexts with a '\0' as the first byte of each of their blocks, or   *)
(* elsewhere, and the longest do not fit into the buffer.                  *)
(***************************************************************************)
EXTENDS Cipher, Bitwise

MCXor(a, b) == a ^^ b
MCBytes == 0 .. 127

Digit(i) == IF i < 10 THEN 48 + i ELSE 87 + i    \* "0" to "9", "a" to "f"
MCKey == [i \in 1 .. 64 |-> Digit((i * 3) % 16)]
MCIv  == [i \in 1 .. 16 |-> Digit((i * 5 + 13) % 16)]

MCPayloads ==
    {[i \in 1 .. n |-> IF i = n THEN last ELSE IF i <= 16 THEN fill ELSE 81] :
        n \in {0, 1, 15, 16, 17, 31, 32, 33, 48}, last \in {3, 16, 97}, fill \in 76 .. 112}
=============================================================================
