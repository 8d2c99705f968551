-------------------------- MODULE SequentialProofs --------------------------
(***************************************************************************)
(* Theorems about the two parts that run alone, without a channel, a file  *)
(* or another process: the cipher and the page of the dashboard.           *)
(*                                                                         *)
(* The cipher: for every payload, key and initialization vector, and every *)
(* operator that undoes itself, what aes_decrypt makes of what is left of  *)
(* a ciphertext.  The page: for every bound, whose consent may change.     *)
(***************************************************************************)
EXTENDS Cipher, Dashboard, SequenceTheorems, FiniteSetTheorems, TLAPS

Places == 1 .. BLOCK
P      == Padded(payload)

\* The feedback for byte j of block n of s.
Before(s, n, j) == IF n = 0 THEN full_iv[j] ELSE s[At(n - 1, j)]

\* Block n of s is what the loop of aes_encrypt makes of block n of p.
Enciphered(p, s, n) ==
    \A i \in Places :
        s[At(n, i)] = XorChar(XorChar(p[At(n, Source(i))], Before(s, n, Source(i))),
                          KeyByte(n, Source(i)))

\* The variables have the shapes their declarations give.
CipherOK ==
    /\ payload \in Seq(Bytes) /\ ciphertext \in Seq(Bytes) /\ result \in Seq(Bytes)
    /\ block \in Nat
    /\ prev_block \in [Places -> Bytes]
    /\ phase \in {"encrypt", "decrypt", "done"}

\* Before block is ciphertext, from there on it is still the padded payload.
Encrypting ==
    /\ Len(result) = Len(P) /\ BLOCK * block <= Len(P)
    /\ \A n \in Nat : n < block => Enciphered(P, result, n)
    /\ \A k \in 1 .. Len(P) : k > BLOCK * block => result[k] = P[k]
    /\ \A j \in Places : prev_block[j] = Before(result, block, j)

\* Before block is the padded payload, from there on it is still ciphertext.
Decrypting ==
    /\ ciphertext # <<>> /\ Len(ciphertext) % BLOCK = 0
    /\ Len(ciphertext) <= Len(P)
    /\ \A n \in Nat : BLOCK * n + BLOCK <= Len(ciphertext) => Enciphered(P, ciphertext, n)
    /\ Len(result) = Len(ciphertext) /\ BLOCK * block <= Len(ciphertext)
    /\ \A k \in 1 .. Len(result) :
          result[k] = IF k <= BLOCK * block THEN P[k] ELSE ciphertext[k]
    /\ \A j \in Places : prev_block[j] = Before(ciphertext, block, j)

IInv ==
    /\ CipherOK
    /\ phase = "encrypt" => Encrypting
    /\ phase = "decrypt" => Decrypting
    /\ RoundTrip /\ CutShowsPrefix

-----------------------------------------------------------------------------
\* Padding fills the last block, and a block of its own if there is none.
LEMMA PaddedShape ==
    ASSUME NEW p \in Seq(Bytes)
    PROVE  /\ Padding(p) \in 1 .. BLOCK
           /\ Padded(p) \in Seq(Bytes)
           /\ Len(Padded(p)) = Len(p) + Padding(p)
           /\ Len(Padded(p)) % BLOCK = 0
           /\ \A k \in 1 .. Len(p) : Padded(p)[k] = p[k]
           /\ \A k \in Len(p) + 1 .. Len(Padded(p)) : Padded(p)[k] = Padding(p)
<1> DEFINE n   == Padding(p)
           pad == [i \in 1 .. n |-> n]
<1>1. n \in 1 .. BLOCK /\ (Len(p) + n) % BLOCK = 0
  BY DEF Padding, BLOCK
<1> HIDE DEF n
<1>2. n \in Bytes
  <2>1. n \in 0 .. BLOCK
    BY <1>1 DEF BLOCK
  <2> QED
    BY <2>1, CipherAssumption
<1>3. pad \in Seq(Bytes) /\ Len(pad) = n /\ \A i \in 1 .. n : pad[i] = n
  BY <1>1, <1>2 DEF BLOCK
<1>4. Padded(p) = p \o pad
  BY DEF Padded, n
<1> HIDE DEF pad
<1>5. /\ Padded(p) \in Seq(Bytes)
      /\ Len(Padded(p)) = Len(p) + n
      /\ \A k \in 1 .. Len(p) : Padded(p)[k] = p[k]
      /\ \A k \in Len(p) + 1 .. Len(Padded(p)) : Padded(p)[k] = pad[k - Len(p)]
  BY <1>1, <1>3, <1>4, ConcatProperties DEF BLOCK
<1>6. \A k \in Len(p) + 1 .. Len(Padded(p)) : k - Len(p) \in 1 .. n
  <2>1. Len(p) \in Nat /\ Len(Padded(p)) = Len(p) + n /\ n \in Nat
    BY <1>1, <1>3, <1>4, ConcatProperties DEF BLOCK
  <2> DEFINE l == Len(p)
             m == Len(Padded(p))
  <2> HIDE DEF l, m
  <2>2. l \in Nat /\ m = l + n
    BY <2>1 DEF l, m
  <2>3. \A k \in l + 1 .. m : k - l \in 1 .. n
    BY <2>1, <2>2
  <2> QED
    BY <2>3 DEF l, m
<1> QED
  BY <1>1, <1>3, <1>5, <1>6 DEF n

\* Shift Rows is undone.
LEMMA ShiftRows ==
    ASSUME NEW i \in Places
    PROVE  Source(i) \in Places /\ Target(i) \in Places /\ Source(Target(i)) = i
<1>1. CASE i \in {1, 6, 11, 16}
  BY <1>1 DEF Places, BLOCK, Source, Target
<1>2. CASE i \notin {1, 6, 11, 16}
  BY <1>2 DEF Places, BLOCK, Source, Target
<1> QED
  BY <1>1, <1>2

\* The digits of the key that the loops read exist.
LEMMA KeyBytes ==
    ASSUME NEW n \in Nat, NEW i \in Places
    PROVE  KeyByte(n, i) \in Bytes
<1>1. 1 + ((BLOCK * n + (i - 1) * 3) % 64) \in 1 .. 64
  BY DEF Places, BLOCK
<1> QED
  BY <1>1, CipherAssumption DEF KeyByte

\* Strings of whole blocks: where the bytes of a block are, and that a block
\* that starts before the end fits.
LEMMA Blocks ==
    ASSUME NEW n \in Nat
    PROVE  /\ \A i \in Places : /\ At(n, i) \in Nat \ {0}
                                /\ At(n, i) > BLOCK * n
                                /\ At(n, i) <= BLOCK * n + BLOCK
           /\ \A len \in Nat : len % BLOCK = 0 /\ BLOCK * n < len =>
                                    BLOCK * n + BLOCK <= len
           /\ BLOCK * n \in Nat /\ BLOCK * (n + 1) = BLOCK * n + BLOCK
  BY DEF At, Places, BLOCK

\* The bytes of a block before block b lie before it, and inside a string that
\* holds the blocks up to b.
LEMMA EarlierBlock ==
    ASSUME NEW b \in Nat, NEW n \in Nat, n < b, NEW i \in Places,
           NEW len \in Nat, BLOCK * b <= len
    PROVE  At(n, i) \in 1 .. len /\ At(n, i) <= BLOCK * b
  BY DEF At, Places, BLOCK

\* What ends with a block before the padding ends does not reach it.
LEMMA BeforePadding ==
    ASSUME NEW n \in Nat, NEW len \in Nat, NEW l \in Nat, NEW pad \in 1 .. BLOCK,
           n % BLOCK = 0, len % BLOCK = 0, n < len, len = l + pad
    PROVE  n <= l
  BY DEF BLOCK

\* A byte is mixed with feedback and key, and taken out again.
LEMMA Unmixed ==
    ASSUME NEW a \in Bytes, NEW b \in Bytes, NEW k \in Bytes
    PROVE  XorChar(XorChar(XorChar(XorChar(a, b), k), k), b) = a
<1>1. XorChar(a, b) \in Bytes /\ XorChar(XorChar(a, b), b) = a
  BY CipherAssumption
<1>2. XorChar(XorChar(XorChar(a, b), k), k) = XorChar(a, b)
  BY <1>1, CipherAssumption
<1> QED
  BY <1>1, <1>2

\* One turn of a loop replaces one block and leaves the others alone.
LEMMA OneBlock ==
    ASSUME result \in Seq(Bytes), block \in Nat, NEW b \in [Places -> Bytes],
           BLOCK * block + BLOCK <= Len(result)
    PROVE  /\ ReplaceBlock(b) \in Seq(Bytes)
           /\ Len(ReplaceBlock(b)) = Len(result)
           /\ \A i \in Places : ReplaceBlock(b)[At(block, i)] = b[i]
           /\ \A k \in 1 .. Len(result) :
                 k <= BLOCK * block \/ k > BLOCK * block + BLOCK =>
                    ReplaceBlock(b)[k] = result[k]
<1> DEFINE new == ReplaceBlock(b)
<1>1. /\ new = [k \in 1 .. Len(result) |->
                   IF k > BLOCK * block /\ k <= BLOCK * block + BLOCK
                   THEN b[k - BLOCK * block] ELSE result[k]]
      /\ Len(result) \in Nat
  BY DEF ReplaceBlock
<1>2. ASSUME NEW k \in 1 .. Len(result) PROVE new[k] \in Bytes
  <2>1. CASE k > BLOCK * block /\ k <= BLOCK * block + BLOCK
    <3>1. k - BLOCK * block \in Places
      BY <2>1 DEF Places, BLOCK
    <3>2. new[k] = b[k - BLOCK * block]
      BY <1>1, <2>1
    <3> QED
      BY <3>1, <3>2
  <2>2. CASE ~ (k > BLOCK * block /\ k <= BLOCK * block + BLOCK)
    BY <1>1, <2>2
  <2> QED
    BY <2>1, <2>2
<1> HIDE DEF new
<1>3. new \in Seq(Bytes) /\ Len(new) = Len(result)
  BY <1>1, <1>2
<1>4. ASSUME NEW i \in Places PROVE new[At(block, i)] = b[i]
  BY <1>1, <1>4 DEF Places, BLOCK, At
<1>5. ASSUME NEW k \in 1 .. Len(result),
             k <= BLOCK * block \/ k > BLOCK * block + BLOCK
      PROVE  new[k] = result[k]
  BY <1>1, <1>5 DEF BLOCK
<1> QED
  BY <1>3, <1>4, <1>5 DEF new

\* A channel delivers a beginning of what it is given.
LEMMA ChannelCuts ==
    ASSUME NEW s \in Seq(Bytes)
    PROVE  \E m \in 0 .. Len(s) : Received(s) = SubSeq(s, 1, m)
<1> DEFINE r == IF Len(s) < SHM_SIZE THEN Len(s) ELSE SHM_SIZE - 1
           read == SubSeq(s, 1, r)
           whole == {n \in DOMAIN read : \A k \in 1 .. n : read[k] # NUL}
           m == Cardinality(whole)
<1>1. r \in 0 .. Len(s)
  <2>1. SHM_SIZE \in Nat \ {0}
    BY CipherAssumption
  <2>2. Len(s) \in Nat
    OBVIOUS
  <2> QED
    BY <2>1, <2>2
<1> HIDE DEF r
<1>2. /\ read \in Seq(Bytes) /\ Len(read) = r
      /\ \A k \in 1 .. r : read[k] = s[k]
  BY <1>1, SubSeqProperties
<1>3. DOMAIN read = 1 .. r
  BY <1>1, <1>2
<1> HIDE DEF read
<1>4. IsFiniteSet(1 .. r) /\ Cardinality(1 .. r) = r
  BY <1>1, FS_Interval
<1>5. whole \subseteq 1 .. r
  BY <1>3
<1>6. m \in 0 .. r
  BY <1>1, <1>4, <1>5, FS_Subset, FS_CardinalityType
<1>7. Received(s) = SubSeq(read, 1, m)
  BY DEF Received, CString, r, read
<1> HIDE DEF m
<1>8. SubSeq(read, 1, m) = SubSeq(s, 1, m)
  BY <1>1, <1>2, <1>6
<1> QED
  BY <1>1, <1>6, <1>7, <1>8

-----------------------------------------------------------------------------
\* What the initial states and the steps of the loops have in common.
LEMMA Shape ==
    ASSUME CipherOK
    PROVE  /\ P \in Seq(Bytes) /\ Len(P) \in Nat /\ Len(P) % BLOCK = 0
           /\ Padding(payload) \in 1 .. BLOCK /\ Len(payload) \in Nat
           /\ Len(P) = Len(payload) + Padding(payload)
           /\ \A k \in 1 .. Len(payload) : P[k] = payload[k]
           /\ \A k \in Len(payload) + 1 .. Len(P) : P[k] = Padding(payload)
  BY PaddedShape DEF CipherOK, P

LEMMA InitInvariant == CipherInit => IInv
<1> SUFFICES ASSUME CipherInit PROVE IInv
  OBVIOUS
<1>1. payload \in Seq(Bytes)
  BY CipherAssumption DEF CipherInit
<1>2. CipherOK
  <2>1. result \in Seq(Bytes)
    BY <1>1, PaddedShape DEF CipherInit
  <2>2. prev_block \in [Places -> Bytes]
    BY CipherAssumption DEF CipherInit, Places
  <2> QED
    BY <1>1, <2>1, <2>2 DEF CipherInit, CipherOK
<1>3. Encrypting
  <2>1. result = P /\ block = 0 /\ prev_block = full_iv
    BY DEF CipherInit, P
  <2> QED
    BY <2>1, <1>2, Shape DEF Encrypting, Before, BLOCK
<1> QED
  BY <1>2, <1>3 DEF CipherInit, IInv, RoundTrip, CutShowsPrefix

LEMMA EncryptStep ==
    ASSUME IInv, EncryptBlock
    PROVE  IInv'
<1> DEFINE cipher == [i \in 1 .. BLOCK |->
               XorChar(XorChar(result[At(block, Source(i))], prev_block[Source(i)]),
                   KeyByte(block, Source(i)))]
<1>1. /\ CipherOK /\ Encrypting /\ phase = "encrypt"
      /\ result' = ReplaceBlock(cipher) /\ prev_block' = cipher
      /\ block' = block + 1
      /\ payload' = payload /\ ciphertext' = ciphertext /\ phase' = phase
  BY DEF IInv, EncryptBlock
<1>2. P' = P
  BY <1>1 DEF P
<1>3. BLOCK * block + BLOCK <= Len(P) /\ Len(result) = Len(P) /\ Len(P) \in Nat
  <2>1. Len(result) = Len(P) /\ Len(P) \in Nat /\ Len(P) % BLOCK = 0
    BY <1>1, Shape DEF Encrypting
  <2>2. BLOCK * block < Len(P) /\ block \in Nat
    BY <1>1, <2>1 DEF EncryptBlock, InBlock, CipherOK
  <2> QED
    BY <2>1, <2>2, Blocks
<1>4. ASSUME NEW i \in Places
      PROVE  /\ At(block, i) \in 1 .. Len(P) /\ At(block, i) > BLOCK * block
             /\ result[At(block, i)] = P[At(block, i)]
             /\ result[At(block, i)] \in Bytes
  <2>1. At(block, i) \in 1 .. Len(P) /\ At(block, i) > BLOCK * block
    <3>1. block \in Nat
      BY <1>1 DEF CipherOK
    <3>2. /\ At(block, i) \in Nat \ {0} /\ At(block, i) > BLOCK * block
          /\ At(block, i) <= BLOCK * block + BLOCK /\ BLOCK * block \in Nat
      BY <3>1, Blocks
    <3> QED
      BY <1>3, <3>2 DEF BLOCK
  <2> QED
    BY <1>1, <1>3, <2>1 DEF Encrypting, CipherOK
<1>5. cipher \in [Places -> Bytes]
  <2>1. ASSUME NEW i \in Places PROVE cipher[i] \in Bytes
    <3>1. PICK j \in Places : j = Source(i)
      BY ShiftRows
    <3>2. result[At(block, j)] \in Bytes /\ prev_block[j] \in Bytes /\ KeyByte(block, j) \in Bytes
      BY <1>1, <1>4, KeyBytes DEF CipherOK
    <3>3. cipher[i] = XorChar(XorChar(result[At(block, j)], prev_block[j]), KeyByte(block, j))
      BY <3>1 DEF Places
    <3>4. /\ \A a, b \in Bytes : XorChar(a, b) \in Bytes
      BY CipherAssumption
    <3> HIDE DEF cipher
    <3> QED
      BY <3>2, <3>3, <3>4
  <2> QED
    BY <2>1 DEF Places
<1>6. \A i \in Places : cipher[i] =
         XorChar(XorChar(P[At(block, Source(i))], Before(result, block, Source(i))),
             KeyByte(block, Source(i)))
  BY <1>1, <1>4, ShiftRows DEF Encrypting, Places
<1> HIDE DEF cipher
<1>7. /\ result' \in Seq(Bytes) /\ Len(result') = Len(P)
      /\ \A i \in Places : result'[At(block, i)] = cipher[i]
      /\ \A k \in 1 .. Len(P) :
            k <= BLOCK * block \/ k > BLOCK * block + BLOCK => result'[k] = result[k]
  BY <1>1, <1>3, <1>5, OneBlock DEF CipherOK
<1>8. CipherOK'
  BY <1>1, <1>5, <1>7 DEF CipherOK
<1>9. ASSUME NEW n \in Nat, n <= block, NEW j \in Places
      PROVE  Before(result', n, j) = Before(result, n, j)
  <2>1. n # 0 => At(n - 1, j) \in 1 .. Len(P) /\ At(n - 1, j) <= BLOCK * block
    <3>1. block \in Nat /\ Len(P) \in Nat /\ BLOCK * block <= Len(P)
      BY <1>1, <1>3 DEF Encrypting, CipherOK
    <3>2. n # 0 => n - 1 \in Nat /\ n - 1 < block
      BY <1>9, <3>1
    <3> QED
      BY <3>1, <3>2, EarlierBlock
  <2> QED
    BY <1>7, <2>1 DEF Before
<1>10. ASSUME NEW n \in Nat, n < block + 1
       PROVE  Enciphered(P, result', n)
  <2>1. CASE n = block
    <3>1. ASSUME NEW i \in Places
          PROVE  result'[At(n, i)] =
                    XorChar(XorChar(P[At(n, Source(i))], Before(result', n, Source(i))),
                        KeyByte(n, Source(i)))
      <4>1. Source(i) \in Places
        BY ShiftRows
      <4>2. Before(result', block, Source(i)) = Before(result, block, Source(i))
        BY <1>1, <1>9, <4>1 DEF CipherOK
      <4> QED
        BY <1>6, <1>7, <2>1, <4>2
    <3> QED
      BY <3>1 DEF Enciphered
  <2>2. CASE n < block
    <3>1. ASSUME NEW i \in Places PROVE result'[At(n, i)] = result[At(n, i)]
      <4>1. At(n, i) \in 1 .. Len(P) /\ At(n, i) <= BLOCK * block
        <5>1. block \in Nat /\ Len(P) \in Nat /\ BLOCK * block <= Len(P)
          BY <1>1, <1>3 DEF Encrypting, CipherOK
        <5> QED
          BY <2>2, <5>1, EarlierBlock
      <4> QED
        BY <1>7, <4>1
    <3>2. Enciphered(P, result, n)
      BY <1>1, <2>2 DEF Encrypting
    <3>3. \A j \in Places : Before(result', n, j) = Before(result, n, j)
      BY <1>1, <1>9, <2>2 DEF CipherOK
    <3> QED
      BY <3>1, <3>2, <3>3, ShiftRows DEF Enciphered
  <2> QED
    BY <1>1, <1>10, <2>1, <2>2 DEF CipherOK
<1>11. \A k \in 1 .. Len(P) : k > BLOCK * (block + 1) => result'[k] = P[k]
  <2>1. \A k \in 1 .. Len(P) : k > BLOCK * (block + 1) =>
           k > BLOCK * block + BLOCK /\ k > BLOCK * block
    BY <1>1, <1>3 DEF BLOCK, CipherOK
  <2> QED
    BY <1>1, <1>7, <2>1 DEF Encrypting
<1>12. ASSUME NEW j \in Places PROVE cipher[j] = Before(result', block + 1, j)
  <2>1. block + 1 # 0 /\ (block + 1) - 1 = block
    BY <1>1 DEF CipherOK
  <2> QED
    BY <1>7, <2>1 DEF Before
<1>13. BLOCK * (block + 1) <= Len(P)
  BY <1>1, <1>3 DEF BLOCK, CipherOK
<1>14. ASSUME NEW n \in Nat, n < block + 1 PROVE Enciphered(P', result', n)
  BY <1>2, <1>10, <1>14
<1>15. Encrypting'
  BY <1>1, <1>2, <1>7, <1>11, <1>12, <1>13, <1>14 DEF Encrypting, Before
<1> QED
  BY <1>1, <1>8, <1>15 DEF IInv, RoundTrip, CutShowsPrefix

LEMMA TransmitStep ==
    ASSUME IInv, Transmit
    PROVE  IInv'
<1>1. /\ CipherOK /\ Encrypting /\ ciphertext' = Received(result) /\ result' = ciphertext'
      /\ block' = 0 /\ prev_block' = full_iv /\ payload' = payload
      /\ phase' = IF Aligned(ciphertext') THEN "decrypt" ELSE "done"
  BY DEF IInv, Transmit
<1>2. P' = P
  BY <1>1 DEF P
<1>3. /\ P \in Seq(Bytes) /\ Len(P) \in Nat /\ Len(P) % BLOCK = 0 /\ Len(P) > 0
      /\ Len(result) = Len(P) /\ result \in Seq(Bytes)
  <2>1. P \in Seq(Bytes) /\ Len(P) \in Nat /\ Len(P) % BLOCK = 0
    BY <1>1, Shape
  <2>2. Len(P) > 0
    <3>1. Len(P) = Len(payload) + Padding(payload) /\ Len(payload) \in Nat
          /\ Padding(payload) \in 1 .. BLOCK
      BY <1>1, Shape
    <3> QED
      BY <3>1 DEF BLOCK
  <2> QED
    BY <1>1, <2>1, <2>2 DEF Encrypting, CipherOK
<1>4. PICK m \in 0 .. Len(P) : ciphertext' = SubSeq(result, 1, m)
  BY <1>1, <1>3, ChannelCuts
<1>5. /\ ciphertext' \in Seq(Bytes) /\ Len(ciphertext') = m
      /\ \A k \in 1 .. m : ciphertext'[k] = result[k]
  BY <1>3, <1>4, SubSeqProperties
<1>6. CipherOK'
  <2>1. full_iv \in [Places -> Bytes]
    BY CipherAssumption DEF Places
  <2> QED
    BY <1>1, <1>5, <2>1 DEF CipherOK
<1>7. CASE ~ Aligned(ciphertext')
  <2>1. phase' = "done" /\ (Len(ciphertext') % BLOCK = 0 => ciphertext' = <<>>)
    BY <1>1, <1>7 DEF Aligned
  <2>2. Len(ciphertext') # Len(P)
    BY <1>3, <1>5, <2>1 DEF BLOCK
  <2>3. RoundTrip'
    BY <1>2, <2>2 DEF RoundTrip, P
  <2>4. IsPrefix(<<>>, payload)
    BY <1>1 DEF CipherOK, IsPrefix
  <2>5. CutShowsPrefix'
    BY <1>1, <2>1, <2>4 DEF CutShowsPrefix
  <2> QED
    BY <1>6, <2>1, <2>3, <2>5 DEF IInv
<1>8. CASE Aligned(ciphertext')
  <2>1. phase' = "decrypt" /\ ciphertext' # <<>> /\ Len(ciphertext') % BLOCK = 0
    BY <1>1, <1>8 DEF Aligned
  <2>2. BLOCK * block = Len(P) /\ block \in Nat
    BY <1>1, <1>3 DEF Transmit, InBlock, Encrypting, CipherOK, BLOCK
  <2>3. ASSUME NEW n \in Nat, BLOCK * n + BLOCK <= Len(ciphertext')
        PROVE  Enciphered(P, ciphertext', n)
    <3>1. n < block /\ BLOCK * n + BLOCK <= m /\ m <= Len(P)
      BY <1>3, <1>5, <2>2, <2>3 DEF BLOCK
    <3>2. Enciphered(P, result, n)
      BY <1>1, <3>1 DEF Encrypting
    <3>3. ASSUME NEW i \in Places PROVE ciphertext'[At(n, i)] = result[At(n, i)]
      <4>1. /\ At(n, i) \in Nat \ {0} /\ At(n, i) <= BLOCK * n + BLOCK
            /\ BLOCK * n \in Nat
        BY <2>3, <3>3, Blocks
      <4>2. At(n, i) \in 1 .. m
        BY <3>1, <4>1 DEF BLOCK
      <4> QED
        BY <1>5, <4>2
    <3>4. ASSUME NEW j \in Places PROVE Before(ciphertext', n, j) = Before(result, n, j)
      <4>1. n # 0 => At(n - 1, j) \in 1 .. m
        BY <3>1 DEF At, Places, BLOCK
      <4> QED
        BY <1>5, <4>1 DEF Before
    <3> QED
      BY <3>2, <3>3, <3>4, ShiftRows DEF Enciphered
  <2>4. \A k \in 1 .. Len(result') : ~ k <= BLOCK * 0
    BY DEF BLOCK
  <2>5. BLOCK * 0 <= Len(ciphertext')
    BY <1>5 DEF BLOCK
  <2>6. Decrypting'
    BY <1>1, <1>2, <1>5, <2>1, <2>3, <2>4, <2>5 DEF Decrypting, Before
  <2> QED
    BY <1>6, <2>1, <2>6 DEF IInv, RoundTrip, CutShowsPrefix
<1> QED
  BY <1>7, <1>8

LEMMA DecryptStep ==
    ASSUME IInv, DecryptBlock
    PROVE  IInv'
<1> DEFINE plain == [i \in 1 .. BLOCK |->
               XorChar(XorChar(result[At(block, Target(i))], KeyByte(block, i)), prev_block[i])]
<1>1. /\ CipherOK /\ Decrypting /\ phase = "decrypt"
      /\ result' = ReplaceBlock(plain) /\ prev_block' = Feedback(plain)
      /\ block' = block + 1 /\ block \in Nat
      /\ payload' = payload /\ ciphertext' = ciphertext /\ phase' = phase
  BY DEF IInv, DecryptBlock, CipherOK
<1>2. P' = P
  BY <1>1 DEF P
<1>3. /\ BLOCK * block + BLOCK <= Len(ciphertext) /\ Len(result) = Len(ciphertext)
      /\ Len(ciphertext) \in Nat /\ Len(ciphertext) <= Len(P)
      /\ P \in Seq(Bytes) /\ Len(P) \in Nat
  <2>1. /\ Len(result) = Len(ciphertext) /\ Len(ciphertext) \in Nat
        /\ Len(ciphertext) % BLOCK = 0 /\ Len(ciphertext) <= Len(P)
    BY <1>1 DEF Decrypting, CipherOK
  <2>2. BLOCK * block < Len(ciphertext)
    BY <2>1 DEF DecryptBlock, InBlock
  <2> QED
    BY <1>1, <2>1, <2>2, Blocks, Shape
<1>4. ASSUME NEW i \in Places
      PROVE  /\ At(block, i) \in 1 .. Len(ciphertext) /\ At(block, i) > BLOCK * block
             /\ result[At(block, i)] = ciphertext[At(block, i)]
             /\ ciphertext[At(block, i)] \in Bytes /\ P[At(block, i)] \in Bytes
  <2>1. /\ At(block, i) \in Nat \ {0} /\ At(block, i) > BLOCK * block
        /\ At(block, i) <= BLOCK * block + BLOCK /\ BLOCK * block \in Nat
    BY <1>1, <1>4, Blocks
  <2>2. At(block, i) \in 1 .. Len(ciphertext) /\ At(block, i) \in 1 .. Len(P)
        /\ ~ At(block, i) <= BLOCK * block
    BY <1>3, <2>1 DEF BLOCK
  <2> QED
    BY <1>1, <1>3, <2>1, <2>2 DEF Decrypting, CipherOK
<1>5. ASSUME NEW i \in Places PROVE plain[i] = P[At(block, i)]
  <2>1. PICK t \in Places : t = Target(i) /\ Source(t) = i
    BY <1>5, ShiftRows
  <2>2. plain[i] = XorChar(XorChar(ciphertext[At(block, t)], KeyByte(block, i)), prev_block[i])
    BY <1>4, <2>1 DEF Places
  <2>3. Enciphered(P, ciphertext, block)
    BY <1>1, <1>3 DEF Decrypting
  <2>4. ciphertext[At(block, t)] =
           XorChar(XorChar(P[At(block, i)], prev_block[i]), KeyByte(block, i))
    BY <1>1, <2>1, <2>3 DEF Enciphered, Decrypting
  <2>5. prev_block[i] \in Bytes /\ KeyByte(block, i) \in Bytes /\ P[At(block, i)] \in Bytes
    BY <1>1, <1>4, KeyBytes DEF CipherOK
  <2> QED
    BY <2>2, <2>4, <2>5, Unmixed
<1>6. plain \in [Places -> Bytes]
  <2>1. ASSUME NEW i \in Places PROVE plain[i] \in Bytes
    BY <1>4, <1>5
  <2> QED
    BY <2>1 DEF Places
<1> HIDE DEF plain
<1>7. /\ result' \in Seq(Bytes) /\ Len(result') = Len(result)
      /\ \A i \in Places : result'[At(block, i)] = plain[i]
      /\ \A k \in 1 .. Len(result) :
            k <= BLOCK * block \/ k > BLOCK * block + BLOCK => result'[k] = result[k]
  BY <1>1, <1>3, <1>6, OneBlock DEF CipherOK
<1>8. prev_block' = [i \in Places |-> ciphertext[At(block, i)]]
  BY <1>1 DEF Feedback, Places
<1>9. CipherOK'
  BY <1>1, <1>4, <1>7, <1>8 DEF CipherOK
<1>10. ASSUME NEW k \in 1 .. Len(result')
       PROVE  result'[k] = IF k <= BLOCK * (block + 1) THEN P[k] ELSE ciphertext[k]
  <2>1. k \in 1 .. Len(result) /\ BLOCK * (block + 1) = BLOCK * block + BLOCK
        /\ BLOCK * block \in Nat
    BY <1>1, <1>7, <1>10, Blocks
  <2>2. CASE k <= BLOCK * block \/ k > BLOCK * block + BLOCK
    BY <1>1, <1>7, <2>1, <2>2 DEF Decrypting, BLOCK
  <2>3. CASE k > BLOCK * block /\ k <= BLOCK * block + BLOCK
    <3>1. PICK i \in Places : k = At(block, i)
      <4>1. k \in Nat /\ BLOCK * block \in Nat /\ k - BLOCK * block \in Places
        <5>1. k \in Nat /\ BLOCK * block \in Nat
          BY <1>1, <1>10, <2>1
        <5>2. \A c \in Nat : k > c /\ k <= c + BLOCK => k - c \in Places
          BY <5>1 DEF Places, BLOCK
        <5> QED
          BY <2>3, <5>1, <5>2
      <4>2. k = At(block, k - BLOCK * block)
        BY <4>1 DEF At
      <4> QED
        BY <4>1, <4>2
    <3> QED
      BY <1>5, <1>7, <2>1, <2>3, <3>1
  <2> QED
    BY <2>1, <2>2, <2>3 DEF BLOCK
<1>11. ASSUME NEW j \in Places PROVE prev_block'[j] = Before(ciphertext, block + 1, j)
  <2>1. block + 1 # 0 /\ (block + 1) - 1 = block
    BY <1>1
  <2> QED
    BY <1>8, <1>11, <2>1 DEF Before
<1>12. BLOCK * (block + 1) <= Len(ciphertext)
  BY <1>1, <1>3, Blocks
<1>13. Decrypting'
  BY <1>1, <1>2, <1>3, <1>7, <1>10, <1>11, <1>12 DEF Decrypting, Before
<1> QED
  BY <1>1, <1>9, <1>13 DEF IInv, RoundTrip, CutShowsPrefix

LEMMA StripStep ==
    ASSUME IInv, Strip
    PROVE  IInv'
<1> DEFINE n == Len(ciphertext)
           v == result[Len(result)]
<1>1. /\ CipherOK /\ Decrypting /\ result' = Stripped(result) /\ phase' = "done"
      /\ UNCHANGED <<payload, ciphertext, block, prev_block>>
  BY DEF IInv, Strip
<1>2. P' = P
  BY <1>1 DEF P
<1>3. /\ P \in Seq(Bytes) /\ Len(P) \in Nat /\ Len(P) % BLOCK = 0
      /\ Padding(payload) \in 1 .. BLOCK /\ Len(payload) \in Nat
      /\ payload \in Seq(Bytes)
      /\ Len(P) = Len(payload) + Padding(payload)
      /\ \A k \in 1 .. Len(payload) : P[k] = payload[k]
      /\ \A k \in Len(payload) + 1 .. Len(P) : P[k] = Padding(payload)
  BY <1>1, Shape DEF CipherOK
<1>4. /\ n \in Nat \ {0} /\ n % BLOCK = 0 /\ n <= Len(P) /\ n >= BLOCK
      /\ Len(result) = n /\ result \in Seq(Bytes)
  BY <1>1 DEF Decrypting, CipherOK, BLOCK
<1>5. \A k \in 1 .. n : result[k] = P[k]
  <2>1. BLOCK * block = n
    BY <1>1, <1>4 DEF Strip, InBlock, Decrypting, CipherOK, BLOCK
  <2> QED
    BY <1>1, <1>4, <2>1 DEF Decrypting
<1>6. v = P[n]
  BY <1>4, <1>5
<1> HIDE DEF n, v
<1>7. PICK m \in 0 .. n : /\ result' = SubSeq(result, 1, m)
                          /\ v \in 1 .. BLOCK => m = n - v
  <2>1. CASE v \in 1 .. BLOCK
    <3>1. result' = SubSeq(result, 1, n - v)
      BY <1>1, <1>4, <2>1 DEF Stripped, v
    <3>2. n - v \in 0 .. n
      BY <1>4, <2>1 DEF BLOCK
    <3> QED
      BY <3>1, <3>2
  <2>2. CASE v \notin 1 .. BLOCK
    <3>1. result' = SubSeq(result, 1, n) /\ n \in 0 .. n
      BY <1>1, <1>4, <2>2 DEF Stripped, v
    <3> QED
      BY <2>2, <3>1
  <2> QED
    BY <2>1, <2>2
<1>8. /\ result' \in Seq(Bytes) /\ Len(result') = m
      /\ \A k \in 1 .. m : result'[k] = P[k]
  BY <1>4, <1>5, <1>7, SubSeqProperties
<1>9. CASE n = Len(P)
  <2>1. P[n] = Padding(payload)
    <3>1. Padding(payload) \in Nat /\ Padding(payload) >= 1
      BY <1>3 DEF BLOCK
    <3>2. n \in Len(payload) + 1 .. Len(P)
      BY <1>3, <1>9, <3>1
    <3> QED
      BY <1>3, <3>2
  <2>2. m = Len(payload)
    <3>1. m = n - v /\ v = Padding(payload)
      BY <1>3, <1>6, <1>7, <2>1
    <3>2. n = Len(payload) + v /\ v \in Int
      BY <1>3, <1>9, <3>1 DEF BLOCK
    <3> QED
      BY <1>3, <3>1, <3>2
  <2>3. \A k \in 1 .. m : result'[k] = payload[k]
    BY <1>3, <1>8, <2>2
  <2>4. result' = payload
    BY <1>3, <1>8, <2>2, <2>3, SeqEqual
  <2>5. IsPrefix(payload, payload)
    BY <1>3 DEF IsPrefix
  <2> QED
    BY <1>1, <1>8, <2>4, <2>5 DEF IInv, RoundTrip, CutShowsPrefix, CipherOK
<1>10. CASE n < Len(P)
  <2>1. n <= Len(payload)
    BY <1>3, <1>4, <1>10, BeforePadding
  <2>2. m <= Len(payload) /\ \A k \in 1 .. m : result'[k] = payload[k]
    <3>1. m \in Nat /\ m <= Len(payload)
      BY <1>3, <1>4, <2>1
    <3>2. \A k \in 1 .. m : k \in 1 .. Len(payload)
      BY <1>3, <3>1
    <3> QED
      BY <1>3, <1>8, <3>1, <3>2
  <2>3. SubSeq(result', 1, m) = SubSeq(payload, 1, m)
    BY <1>3, <1>8, <2>2
  <2>4. IsPrefix(result', payload)
    BY <1>3, <1>8, <2>2, <2>3 DEF IsPrefix
  <2>5. RoundTrip'
    BY <1>1, <1>2, <1>10, <1>3, <1>4 DEF RoundTrip, P, n
  <2> QED
    BY <1>1, <1>8, <2>4, <2>5 DEF IInv, CutShowsPrefix, CipherOK
<1> QED
  BY <1>3, <1>4, <1>9, <1>10

LEMMA StepInvariant == IInv /\ [CipherNext]_cipherVars => IInv'
<1> SUFFICES ASSUME IInv, [CipherNext]_cipherVars PROVE IInv'
  OBVIOUS
<1>1. CASE EncryptBlock
  BY <1>1, EncryptStep
<1>2. CASE Transmit
  BY <1>2, TransmitStep
<1>3. CASE DecryptBlock
  BY <1>3, DecryptStep
<1>4. CASE Strip
  BY <1>4, StripStep
<1>5. CASE UNCHANGED cipherVars
  <2>1. P' = P
    BY <1>5 DEF cipherVars, P
  <2> QED
    BY <1>5, <2>1 DEF cipherVars, IInv, CipherOK, Encrypting, Decrypting, Before,
                      RoundTrip, CutShowsPrefix, P
<1> QED
  BY <1>1, <1>2, <1>3, <1>4, <1>5 DEF CipherNext

\* The invariant holds in every state of every payload's way.
THEOREM IInvHolds == CipherSpec => []IInv
<1> QED
  BY InitInvariant, StepInvariant, PTL DEF CipherSpec

\* Encryption and decryption are inverse to each other, whatever the payload,
\* key and initialization vector are, and whatever the payload ends in
\* (cryptography.cpp:107-190).
THEOREM RoundTripHolds == CipherSpec => []RoundTrip
<1>1. IInv => RoundTrip
  BY DEF IInv
<1> QED
  BY <1>1, IInvHolds, PTL

\* A ciphertext cut between two blocks is shown as a beginning of the payload,
\* and never as anything else (cryptography.cpp:147, :181-187).
THEOREM CutShowsPrefixHolds == CipherSpec => []CutShowsPrefix
<1>1. IInv => CutShowsPrefix
  BY DEF IInv
<1> QED
  BY <1>1, IInvHolds, PTL

-----------------------------------------------------------------------------
(***************************************************************************)
(* The page.                                                               *)
(***************************************************************************)
Entry   == [consent : BOOLEAN, name : Names]
Request == [type : RequestTypes, subject : Subjects]

\* A change of one field of one subject.
LEMMA OneSubject ==
    ASSUME subjectsRegistry \in Seq(Entry), NEW s \in Subjects, NEW e \in Entry,
           subjectsRegistry' = [subjectsRegistry EXCEPT ![s] = e]
    PROVE  subjectsRegistry' \in Seq(Entry) /\ DOMAIN subjectsRegistry' = Subjects
BY DEF Subjects

LEMMA EntryFields ==
    ASSUME NEW e \in Entry
    PROVE  /\ [e EXCEPT !.consent = ~ @] \in Entry
           /\ [e EXCEPT !.consent = FALSE] \in Entry
           /\ \A n \in Names : [e EXCEPT !.name = n] \in Entry
BY DEF Entry

LEMMA EntryOf ==
    ASSUME subjectsRegistry \in Seq(Entry), NEW s \in Subjects
    PROVE  subjectsRegistry[s] \in Entry
BY DEF Subjects

LEMMA MoreSubjects ==
    ASSUME NEW S, NEW T, S \subseteq T, NEW q \in Seq(S)
    PROVE  q \in Seq(T)
OBVIOUS

\* The registry never gets shorter, so that what is recorded of a subject, or
\* waits for it, stays about a subject.
LEMMA PageKeeps ==
    ASSUME loggedIn' \in BOOLEAN, currentRole' \in Roles,
           {totalCommunications', privacyIncidents'} \subseteq 0 .. MaxTransfers,
           subjectsRegistry' \in Seq(Entry), Subjects \subseteq DOMAIN subjectsRegistry',
           systemAuditTrail' \subseteq [subject : Subjects, status : Statuses],
           pending' \in Seq(Request)
    PROVE  TypeOK'
<1>1. systemAuditTrail' \subseteq [subject : DOMAIN subjectsRegistry', status : Statuses]
  OBVIOUS
<1>2. pending' \in Seq([type : RequestTypes, subject : DOMAIN subjectsRegistry'])
  <2>1. Request \subseteq [type : RequestTypes, subject : DOMAIN subjectsRegistry']
    BY DEF Request
  <2> QED
    BY <2>1, MoreSubjects
<1> QED
  BY <1>1, <1>2 DEF TypeOK, Subjects, Entry

LEMMA PageInit ==
    ASSUME Init
    PROVE  TypeOK
<1>1. PICK name \in Names :
        subjectsRegistry = [s \in 1 .. 3 |-> [consent |-> s # 2, name |-> name]]
  BY DEF Init
<1>2. subjectsRegistry \in Seq([consent : BOOLEAN, name : Names])
  BY <1>1
<1>3. pending \in Seq([type : RequestTypes, subject : Subjects])
  BY DEF Init
<1>4. loggedIn \in BOOLEAN /\ currentRole \in Roles
  BY DEF Init, Roles
<1>5. {totalCommunications, privacyIncidents} \subseteq 0 .. MaxTransfers
  <2>1. MaxTransfers \in Nat
    BY DashboardAssumption
  <2> QED
    BY <2>1 DEF Init
<1>6. systemAuditTrail \subseteq [subject : Subjects, status : Statuses]
  BY DEF Init
<1> QED
  BY <1>2, <1>3, <1>4, <1>5, <1>6 DEF TypeOK

\* The handlers, and the timers.
LEMMA PageStep ==
    ASSUME TypeOK, Next
    PROVE  TypeOK'
<1>1. /\ loggedIn \in BOOLEAN /\ currentRole \in Roles
      /\ {totalCommunications, privacyIncidents} \subseteq 0 .. MaxTransfers
      /\ subjectsRegistry \in Seq(Entry) /\ Subjects = DOMAIN subjectsRegistry
      /\ systemAuditTrail \subseteq [subject : Subjects, status : Statuses]
      /\ pending \in Seq(Request)
  BY DEF TypeOK, Subjects, Entry, Request
<1> USE DEF session, metrics
<1>2. CASE Login \/ Logout \/ changeRoleContext
  <2>1. /\ loggedIn' \in BOOLEAN /\ currentRole' \in Roles
        /\ UNCHANGED <<totalCommunications, privacyIncidents, subjectsRegistry,
                       systemAuditTrail, pending>>
    BY <1>1, <1>2 DEF Login, Logout, changeRoleContext
  <2> QED
    BY <1>1, <2>1, PageKeeps
<1>3. CASE \E s \in Subjects : toggleConsentState(s)
  <2>1. PICK s \in Subjects : toggleConsentState(s)
    BY <1>3
  <2>2. PICK e \in Entry : e = [subjectsRegistry[s] EXCEPT !.consent = ~ @]
    BY <1>1, EntryOf, EntryFields, Zenon
  <2>3. /\ subjectsRegistry' = [subjectsRegistry EXCEPT ![s] = e]
        /\ UNCHANGED <<loggedIn, currentRole, totalCommunications, privacyIncidents,
                       systemAuditTrail, pending>>
    BY <2>1, <2>2 DEF toggleConsentState
  <2>4. subjectsRegistry' \in Seq(Entry) /\ DOMAIN subjectsRegistry' = Subjects
    BY <1>1, <2>3, OneSubject
  <2> QED
    BY <1>1, <2>3, <2>4, PageKeeps
<1>4. CASE \E name \in Names : addNewSubject(name)
  <2>1. PICK name \in Names : addNewSubject(name)
    BY <1>4
  <2>2. PICK e \in Entry : e = [consent |-> TRUE, name |-> name]
    BY DEF Entry
  <2>3. /\ subjectsRegistry' = Append(subjectsRegistry, e)
        /\ UNCHANGED <<loggedIn, currentRole, totalCommunications, privacyIncidents,
                       systemAuditTrail, pending>>
    BY <2>1, <2>2 DEF addNewSubject
  <2>4. subjectsRegistry' \in Seq(Entry) /\ Subjects \subseteq DOMAIN subjectsRegistry'
    BY <1>1, <2>3
  <2> QED
    BY <1>1, <2>3, <2>4, PageKeeps
<1>5. CASE totalCommunications + privacyIncidents < MaxTransfers /\ Simulate
  <2>1. PICK s \in Subjects, c \in Classifications, v \in BOOLEAN :
          triggerSimulation(s, c, v)
    BY <1>5 DEF Simulate
  <2>2. PICK st \in Statuses :
           /\ systemAuditTrail' = systemAuditTrail \union {[subject |-> s, status |-> st]}
           /\ \/ /\ totalCommunications' = totalCommunications + 1
                 /\ privacyIncidents' = privacyIncidents
              \/ /\ totalCommunications' = totalCommunications
                 /\ privacyIncidents' = privacyIncidents + 1
    BY <2>1 DEF triggerSimulation, Denied, logSimulationEvent, Statuses
  <2>3. UNCHANGED <<loggedIn, currentRole, subjectsRegistry, pending>>
    BY <2>1 DEF triggerSimulation
  <2>4. systemAuditTrail' \subseteq [subject : Subjects, status : Statuses]
    BY <1>1, <2>2
  <2>5. {totalCommunications', privacyIncidents'} \subseteq 0 .. MaxTransfers
    <3>1. MaxTransfers \in Nat
      BY DashboardAssumption
    <3> QED
      BY <1>1, <1>5, <2>2, <3>1
  <2> QED
    BY <1>1, <2>3, <2>4, <2>5, PageKeeps
<1>6. CASE \E t \in RequestTypes, s \in Subjects : submitDsrRequest(t, s)
  <2>1. PICK t \in RequestTypes, s \in Subjects : submitDsrRequest(t, s)
    BY <1>6
  <2>2. PICK q \in Request : q = [type |-> t, subject |-> s]
    BY DEF Request
  <2>3. /\ pending' = Append(pending, q)
        /\ UNCHANGED <<loggedIn, currentRole, totalCommunications, privacyIncidents,
                       subjectsRegistry, systemAuditTrail>>
    BY <2>1, <2>2 DEF submitDsrRequest
  <2>4. pending' \in Seq(Request)
    BY <1>1, <2>3
  <2> QED
    BY <1>1, <2>3, <2>4, PageKeeps
<1>7. CASE FireRequest
  <2>1. /\ pending # <<>> /\ pending' = Tail(pending)
        /\ UNCHANGED <<loggedIn, currentRole, totalCommunications, privacyIncidents>>
    BY <1>7 DEF FireRequest
  <2>2. PICK q \in Request : q = Head(pending)
    BY <1>1, <2>1
  <2>3. pending' \in Seq(Request) /\ q.subject \in Subjects
    BY <1>1, <2>1 DEF Request
  <2>4. \/ Erasure(q.subject)
        \/ /\ \E text \in Names \union {Blank} : Correction(q.subject, text)
           /\ systemAuditTrail' = systemAuditTrail
        \/ UNCHANGED <<subjectsRegistry, systemAuditTrail>>
    BY <1>7, <2>2 DEF FireRequest
  <2>5. CASE Erasure(q.subject)
    <3>1. PICK e \in Entry : e = [subjectsRegistry[q.subject] EXCEPT !.consent = FALSE]
      BY <1>1, <2>3, EntryOf, EntryFields, Zenon
    <3>2. subjectsRegistry' = [subjectsRegistry EXCEPT ![q.subject] = e]
      BY <2>5, <3>1 DEF Erasure
    <3>3. subjectsRegistry' \in Seq(Entry) /\ DOMAIN subjectsRegistry' = Subjects
      BY <1>1, <2>3, <3>2, OneSubject
    <3>4. systemAuditTrail' \subseteq systemAuditTrail
      BY <2>5 DEF Erasure, Kept
    <3> QED
      BY <1>1, <2>1, <2>3, <3>3, <3>4, PageKeeps
  <2>6. CASE /\ \E text \in Names \union {Blank} : Correction(q.subject, text)
             /\ systemAuditTrail' = systemAuditTrail
    <3>1. PICK text \in Names \union {Blank} : Correction(q.subject, text)
      BY <2>6
    <3>2. CASE text = Blank
      <4>1. subjectsRegistry' = subjectsRegistry
        BY <3>1, <3>2 DEF Correction, TextAccepted
      <4> QED
        BY <1>1, <2>1, <2>3, <2>6, <4>1, PageKeeps
    <3>3. CASE text # Blank
      <4>1. PICK e \in Entry : e = [subjectsRegistry[q.subject] EXCEPT !.name = text]
        <5>1. text \in Names
          BY <3>3
        <5> QED
          BY <1>1, <2>3, <5>1, EntryOf, EntryFields, Zenon
      <4>2. subjectsRegistry' = [subjectsRegistry EXCEPT ![q.subject] = e]
        BY <3>1, <3>3, <4>1 DEF Correction, TextAccepted
      <4>3. subjectsRegistry' \in Seq(Entry) /\ DOMAIN subjectsRegistry' = Subjects
        BY <1>1, <2>3, <4>2, OneSubject
      <4> QED
        BY <1>1, <2>1, <2>3, <2>6, <4>3, PageKeeps
    <3> QED
      BY <3>2, <3>3
  <2>7. CASE UNCHANGED <<subjectsRegistry, systemAuditTrail>>
    BY <1>1, <2>1, <2>3, <2>7, PageKeeps
  <2> QED
    BY <2>4, <2>5, <2>6, <2>7
<1> QED
  BY <1>2, <1>3, <1>4, <1>5, <1>6, <1>7 DEF Next

\* The page's variables keep their shapes, and no subject gets a blank name, for
\* any number of subjects, transfers and requests (index.js:139-176, :541-563).
THEOREM PageTypes == Spec => []TypeOK
<1>1. TypeOK /\ UNCHANGED vars => TypeOK'
  BY DEF vars, session, metrics, TypeOK, Subjects
<1>2. TypeOK /\ [Next]_vars => TypeOK'
  BY <1>1, PageStep
<1> QED
  BY <1>2, PageInit, PTL DEF Spec

\* What ConsentChanges says of subject s.
MayChange(s) ==
    /\ subjectsRegistry'[s].consent /\ ~ subjectsRegistry[s].consent =>
          loggedIn /\ currentRole = "Admin"
    /\ subjectsRegistry[s].consent /\ ~ subjectsRegistry'[s].consent =>
          \/ loggedIn /\ currentRole = "Admin"
          \/ pending # <<>> /\ Head(pending) = [type |-> "Erasure", subject |-> s]

LEMMA PageConsent ==
    ASSUME TypeOK, Next, NEW s \in Subjects
    PROVE  MayChange(s)
<1>1. subjectsRegistry \in Seq(Entry) /\ pending \in Seq(Request)
  BY DEF TypeOK, Entry, Request
<1>2. CASE subjectsRegistry'[s] = subjectsRegistry[s]
  BY <1>2 DEF MayChange
<1>3. CASE \E x \in Subjects : toggleConsentState(x)
  BY <1>3 DEF toggleConsentState, MayModify, MayChange
<1>4. CASE \E name \in Names : addNewSubject(name)
  BY <1>4 DEF addNewSubject, MayModify, MayChange
<1>5. CASE FireRequest
  <2>1. PICK q \in Request : q = Head(pending) /\ pending # <<>>
    BY <1>1, <1>5 DEF FireRequest
  <2>2. q.subject \in Subjects /\ q = [type |-> q.type, subject |-> q.subject]
    BY DEF Request
  <2>3. \/ q.type = "Erasure" /\ Erasure(q.subject)
        \/ \E text \in Names \union {Blank} : Correction(q.subject, text)
        \/ subjectsRegistry' = subjectsRegistry
    BY <1>5, <2>1 DEF FireRequest
  <2>4. CASE q.type = "Erasure" /\ Erasure(q.subject)
    <3>1. PICK e \in Entry : e = [subjectsRegistry[q.subject] EXCEPT !.consent = FALSE]
      BY <1>1, <2>2, EntryOf, EntryFields, Zenon
    <3>2. subjectsRegistry' = [subjectsRegistry EXCEPT ![q.subject] = e]
      BY <2>4, <3>1 DEF Erasure
    <3>3. CASE s = q.subject
      <4>1. subjectsRegistry'[s] = e /\ e.consent = FALSE
        <5>1. e.consent = FALSE
          BY <1>1, <2>2, <3>1, EntryOf DEF Entry
        <5> QED
          BY <1>1, <3>2, <3>3, <5>1 DEF Subjects
      <4>2. Head(pending) = [type |-> "Erasure", subject |-> s]
        BY <2>1, <2>2, <2>4, <3>3
      <4> QED
        BY <2>1, <4>1, <4>2 DEF MayChange
    <3>4. CASE s # q.subject
      BY <1>1, <1>2, <3>2, <3>4 DEF Subjects
    <3> QED
      BY <3>3, <3>4
  <2>5. CASE \E text \in Names \union {Blank} : Correction(q.subject, text)
    <3>1. PICK text \in Names \union {Blank} : Correction(q.subject, text)
      BY <2>5
    <3>2. \/ subjectsRegistry' = subjectsRegistry
          \/ \E e \in Entry : /\ e.consent = subjectsRegistry[q.subject].consent
                            /\ subjectsRegistry' = [subjectsRegistry EXCEPT ![q.subject] = e]
      <4>1. CASE text = Blank
        BY <3>1, <4>1 DEF Correction, TextAccepted
      <4>2. CASE text # Blank
        <5>1. text \in Names
          BY <4>2
        <5>2. PICK e \in Entry : e = [subjectsRegistry[q.subject] EXCEPT !.name = text]
          BY <1>1, <2>2, <5>1, EntryOf, EntryFields, Zenon
        <5>3. e.consent = subjectsRegistry[q.subject].consent
          BY <1>1, <2>2, <5>2, EntryOf DEF Entry
        <5>4. subjectsRegistry' = [subjectsRegistry EXCEPT ![q.subject] = e]
          BY <3>1, <4>2, <5>2 DEF Correction, TextAccepted
        <5> QED
          BY <5>3, <5>4
      <4> QED
        BY <4>1, <4>2
    <3>3. subjectsRegistry'[s].consent = subjectsRegistry[s].consent
      BY <1>1, <2>2, <3>2 DEF Subjects
    <3> QED
      BY <3>3 DEF MayChange
  <2>6. CASE subjectsRegistry' = subjectsRegistry
    BY <1>2, <2>6
  <2> QED
    BY <2>3, <2>4, <2>5, <2>6
<1>6. CASE \/ Login \/ Logout \/ changeRoleContext \/ Simulate
           \/ \E t \in RequestTypes, x \in Subjects : submitDsrRequest(t, x)
  <2>1. subjectsRegistry' = subjectsRegistry
    BY <1>6
       DEF Login, Logout, changeRoleContext, Simulate,
           triggerSimulation, submitDsrRequest
  <2> QED
    BY <1>2, <2>1
<1> QED
  BY <1>3, <1>4, <1>5, <1>6 DEF Next

\* A subject's consent is given by a logged-in administrator only, and taken away
\* by one or by an erasure that was submitted for that subject and whose timer
\* fires (index.js:160, :558).
THEOREM PageConsentChanges == Spec => ConsentChanges
<1>1. TypeOK /\ [Next]_vars =>
         [\A s \in Subjects : MayChange(s)]_vars
  BY PageConsent
<1> QED
  BY <1>1, PageTypes, PTL DEF Spec, ConsentChanges, MayChange
=============================================================================
