--------------------------- MODULE PalCipher_proofs ---------------------------
(***************************************************************************)
(* Proofs about the text cipher, for every byte width, capacity and table. *)
(***************************************************************************)
EXTENDS PalCipher, WellFoundedInduction, TLAPS

(* A set of naturals that is not empty has a least element.                  *)
LEMMA LeastIndex ==
    ASSUME NEW T \in SUBSET Nat, T # {}
    PROVE  \E x \in T : \A y \in T : x <= y
  <1> DEFINE R == OpToRel(<, Nat)
  <1>1. \E x \in T : \A y \in T : <<y, x>> \notin R
    <2>1. IsWellFoundedOn(R, Nat)
      BY NatLessThanWellFounded
    <2> HIDE DEF R
    <2> QED BY <2>1, WFMin
  <1>2. \A x, y \in Nat : <<y, x>> \in R <=> y < x
    BY DEF OpToRel
  <1>3. PICK x \in T : \A y \in T : <<y, x>> \notin R
    BY <1>1
  <1> HIDE DEF R
  <1>4. \A y \in T : ~(y < x)
    BY <1>2, <1>3
  <1>5. \A y \in T : x \in Int /\ y \in Int
    OBVIOUS
  <1>6. \A y \in T : x <= y
    BY <1>4, <1>5
  <1> QED BY <1>6

(* strnlen stops at the first NUL, or at the capacity.                       *)
LEMMA StrnlenIsFirstNul ==
    ASSUME NEW text
    PROVE  /\ Strnlen(text) \in 0..Cap
           /\ Strnlen(text) < Cap => text[Strnlen(text)] = NUL
           /\ \A k \in 0..(Cap - 1) : text[k] = NUL => Strnlen(text) <= k
           /\ \A k \in 0..(Strnlen(text) - 1) : text[k] # NUL
  <1> USE SizesAssumption
  <1> DEFINE Nuls == {k \in 0..(Cap - 1) : text[k] = NUL}
             First(k) == text[k] = NUL /\ \A j \in 0..(k - 1) : text[j] # NUL
  <1>1. CASE Nuls = {}
    BY <1>1 DEF Strnlen
  <1>2. CASE Nuls # {}
    <2>1. PICK n \in Nuls : \A k \in Nuls : n <= k
      <3>1. Nuls \in SUBSET Nat
        OBVIOUS
      <3> HIDE DEF Nuls
      <3> QED BY <1>2, <3>1, LeastIndex
    <2>2. n \in 0..(Cap - 1) /\ First(n)
      BY <2>1
    <2>3. Strnlen(text) = CHOOSE k \in 0..(Cap - 1) : First(k)
      BY <1>2 DEF Strnlen
    <2>4. Strnlen(text) \in 0..(Cap - 1) /\ First(Strnlen(text))
      BY <2>2, <2>3
    <2>5. \A k \in 0..(Cap - 1) : text[k] = NUL => Strnlen(text) <= k
      BY <2>4
    <2> QED BY <2>4, <2>5
  <1> QED BY <1>1, <1>2

(* A write inside its buffer changes neither history.                        *)
LEMMA WriteInside ==
    ASSUME NEW index \in Int, NEW size \in Int, index < size, beyond \in Nat, Write(index, size)
    PROVE  beyond' = beyond /\ fault' = fault
  BY DEF Write, Outside

(* A write at the end of its buffer lies one byte outside.                   *)
LEMMA WriteBehind ==
    ASSUME NEW size \in Int, beyond \in 0..1, Write(size, size)
    PROVE  beyond' = 1 /\ fault' \in {fault, "overrun"}
  BY DEF Write, Outside

(* Exclusive or of bytes is a byte, and undoes itself.                       *)
LEMMA XorType ==
    ASSUME NEW a \in Byte, NEW b \in Byte
    PROVE  Xor(a, b) \in Byte
  BY DEF Xor, Byte

LEMMA XorUndoes ==
    ASSUME NEW a, NEW p, NEW q
    PROVE  Xor(Xor(Xor(Xor(a, p), q), p), q) = a
  BY Zenon DEF Xor

-----------------------------------------------------------------------------
LEMMA InitInv == Init => Inv
  <1> SUFFICES ASSUME Init PROVE Inv
    OBVIOUS
  <1> USE SizesAssumption, TablesAssumption DEF Init
  <1>1. plain \in Line /\ plain[0] # NUL /\ cipher \in Memory /\ back \in Memory
    BY DEF Memory
  <1>2. TypeOK
    BY <1>1 DEF TypeOK, Byte, NUL
  <1> QED BY <1>1, <1>2 DEF Inv, Encrypting, Sealed, Decrypting

(* The head of Encrypt: the line is not empty, so i is a position.           *)
LEMMA EncryptBeginInv ==
    ASSUME Inv, EncryptBegin
    PROVE  Inv'
  <1> USE SizesAssumption DEF Inv, TypeOK, EncryptBegin, Begin
  <1>1. len' \in 1..Cap /\ sent' = len'
    <2>1. Strnlen(plain) \in 0..Cap /\ (Strnlen(plain) < Cap => plain[Strnlen(plain)] = NUL)
      BY StrnlenIsFirstNul
    <2> QED BY <2>1
  <1>2. TypeOK'
    BY <1>1 DEF Byte, NUL
  <1>3. Encrypting'
    BY <1>1 DEF Encrypting, Chain
  <1> QED BY <1>2, <1>3 DEF Sealed, Decrypting

(* One turn of Encrypt: the position i - 1 is done, those above are kept.    *)
LEMMA EncryptByteInv ==
    ASSUME Inv, EncryptByte
    PROVE  Inv'
  <1> USE SizesAssumption DEF Inv, TypeOK, EncryptByte
  <1>1. /\ len = sent /\ sent \in 1..Cap /\ i \in 1..(sent - 1) /\ i' = i - 1
        /\ c = 2 * (sent - 1 - i) /\ prev = Chain(i) /\ fault = "none" /\ beyond = 0
        /\ \A j \in i..(sent - 2) : Encrypted(j)
    BY DEF Encrypting
  <1>2. c \in 0..(LutLen - 1) /\ c + 1 \in 0..(LutLen - 1) /\ c' \in 0..(2 * (Cap - 1))
    BY <1>1
  <1>3. plain[i - 1] \in Byte /\ lut[c] \in Byte /\ lut[c + 1] \in Byte
    BY <1>1, <1>2 DEF Line
  <1>4. Mix(plain[i - 1]) \in Byte
    BY <1>3, XorType DEF Mix
  <1>5. cipher' \in Memory /\ cipher'[i - 1] = Mix(plain[i - 1])
        /\ \A j \in i..(sent - 1) : cipher'[j] = cipher[j]
    BY <1>1, <1>4 DEF Memory
  <1>6. prev' \in Byte
    BY <1>3, <1>4, <1>5, XorType
  <1>7. fault' = "none" /\ beyond' = 0
    BY <1>1, WriteInside
  <1>8. TypeOK'
    BY <1>1, <1>2, <1>5, <1>6, <1>7
  <1>9. \A j \in i..(sent - 1) : Chain(j)' = Chain(j)
    BY <1>1, <1>5 DEF Chain, K
  <1>10. \A j \in i..(sent - 2) : Encrypted(j)'
    BY <1>1, <1>5, <1>9 DEF Encrypted, K
  <1>11. PICK n \in 1..(sent - 1) : n = i
    BY <1>1
  <1>12. K(n - 1) = c /\ i' = n - 1
    BY <1>1, <1>11 DEF K
  <1>13. Encrypted(n - 1)'
    <2>1. Chain(n)' = prev
      BY <1>1, <1>9, <1>11
    <2> QED BY <1>1, <1>5, <1>11, <1>12, <2>1 DEF Encrypted, Mix, K
  <1>14. prev' = Chain(n - 1)'
    BY <1>1, <1>5, <1>11, <1>12 DEF Chain, K
  <1>15. Encrypting'
    <2>1. \A j \in (n - 1)..(sent - 2) : j = n - 1 \/ j \in i..(sent - 2)
      BY <1>1, <1>11
    <2>2. \A j \in (n - 1)..(sent - 2) : Encrypted(j)'
      BY <1>10, <1>13, <2>1
    <2> QED BY <1>1, <1>7, <1>11, <1>12, <1>14, <2>2 DEF Encrypting
  <1> QED BY <1>8, <1>15 DEF Sealed, Decrypting

(* The NUL that ends the cipher text lies behind every encrypted position,    *)
(* and behind the buffer when the line fills it.                             *)
LEMMA EncryptEndInv ==
    ASSUME Inv, EncryptEnd
    PROVE  Inv'
  <1> USE SizesAssumption DEF Inv, TypeOK, EncryptEnd
  <1>1. /\ len = sent /\ sent \in 1..Cap /\ fault = "none" /\ beyond = 0
        /\ \A j \in 0..(sent - 2) : Encrypted(j)
    BY DEF Encrypting
  <1>2. beyond' = Overrun' /\ fault' \in {"none", "overrun"}
    <2>1. CASE sent < Cap
      BY <1>1, <2>1, WriteInside DEF Overrun
    <2>2. CASE sent = Cap
      BY <1>1, <2>2, WriteBehind DEF Overrun
    <2> QED BY <1>1, <2>1, <2>2
  <1>3. TypeOK'
    BY <1>1, <1>2 DEF Memory, Byte, NUL, Overrun
  <1>4. cipher'[sent] = NUL /\ \A j \in 0..(sent - 1) : cipher'[j] = cipher[j]
    BY <1>1 DEF Memory
  <1>5. \A j \in 0..(sent - 2) : Encrypted(j)'
    BY <1>1, <1>4 DEF Encrypted, Chain, K
  <1>6. Sealed'
    BY <1>1, <1>2, <1>4, <1>5 DEF Sealed
  <1> QED BY <1>3, <1>6 DEF Encrypting, Decrypting

(* The cut of a full text takes its last byte, on which no other depends.    *)
LEMMA InitPalSayMsgInv ==
    ASSUME Inv, InitPalSayMsg
    PROVE  Inv'
  <1> USE SizesAssumption DEF Inv, TypeOK, InitPalSayMsg
  <1>1. /\ sent \in 1..Cap /\ cipher[sent] = NUL /\ beyond = Overrun /\ i >= 0
        /\ \A j \in 0..(sent - 2) : Encrypted(j)
    BY DEF Sealed
  <1>2. /\ cipher' \in Memory /\ cipher'[Cap - 1] = NUL /\ cipher'[sent] = NUL
        /\ \A j \in 0..(sent - 2) : cipher'[j] = cipher[j]
    BY <1>1 DEF Memory, Byte, NUL
  <1>3. TypeOK'
    BY <1>2
  <1>4. \A j \in 0..(sent - 2) : Encrypted(j)'
    <2>1. \A j \in 0..(sent - 2) : Chain(j + 1)' = Chain(j + 1)
      BY <1>1, <1>2 DEF Chain, K
    <2> QED BY <1>1, <1>2, <2>1 DEF Encrypted, K
  <1>5. Sealed'
    BY <1>1, <1>2, <1>4 DEF Sealed, Overrun
  <1> QED BY <1>3, <1>5 DEF Encrypting, Decrypting

(* The head of Decrypt: the NULs of Encrypt and of the copy bound the length. *)
LEMMA HandleXTalkInv ==
    ASSUME Inv, HandleXTalk
    PROVE  Inv'
  <1> USE SizesAssumption DEF Inv, TypeOK, HandleXTalk, Begin
  <1>1. /\ sent \in 1..Cap /\ cipher[sent] = NUL /\ cipher[Cap - 1] = NUL
        /\ fault = "none" /\ beyond = Overrun
        /\ \A j \in 0..(sent - 2) : Encrypted(j)
    BY DEF Sealed
  <1>2. /\ len' \in 0..(Cap - 1) /\ len' <= sent
        /\ room' = len'
        /\ CipherWhole => len' = sent
    BY <1>1, StrnlenIsFirstNul DEF CipherWhole
  <1>3. TypeOK'
    BY <1>1, <1>2 DEF Byte, NUL
  <1>4. \A j \in 0..(sent - 2) : Encrypted(j)'
    BY <1>1 DEF Encrypted, Chain, K
  <1>5. Sealed'
    BY <1>1, <1>4 DEF Sealed, Overrun
  <1>6. PICK n \in 0..(Cap - 1) : n = sent - 1
    BY <1>1
  <1>7. Chain(n)' = NUL
    BY <1>1, <1>6 DEF Chain
  <1>8. CipherWhole' <=> CipherWhole
    BY DEF CipherWhole
  <1>9. Decrypting'
    <2>1. CASE len' = 0
      <3>1. ~CipherWhole' /\ fault' = "underflow" /\ i' = -1
        BY <1>1, <1>2, <1>8, <2>1
      <3> QED BY <1>1, <1>2, <2>1, <3>1 DEF Decrypting
    <2>2. CASE len' # 0
      <3>1. fault' = "none" /\ len' \in 1..sent /\ i' \in 0..(len' - 1) /\ c' = 2 * (len' - 1 - i')
        BY <1>1, <1>2, <2>2
      <3>2. CipherWhole' => len' = sent /\ i' = n /\ prev' = Chain(n)'
        BY <1>1, <1>2, <1>6, <1>7, <1>8
      <3>3. \A j \in n..(sent - 2) : FALSE
        BY <1>1, <1>6
      <3>4. CipherWhole' => \A j \in i'..(sent' - 2) : Decrypted(j)'
        BY <3>2, <3>3
      <3>5. CipherWhole' => prev' = Chain(i)'
        BY <3>2
      <3>6. phase' = "decrypting" /\ sent' = sent
        OBVIOUS
      <3>7. len' <= sent' /\ len' < Cap /\ room' = len'
        BY <1>2, <3>6
      <3>8. CipherWhole' => len' = sent' /\ prev' = Chain(i)' /\ \A j \in i'..(sent' - 2) : Decrypted(j)'
        BY <3>2, <3>4, <3>5, <3>6
      <3> HIDE DEF Inv, TypeOK, HandleXTalk, Begin
      <3> QED BY <2>2, <3>1, <3>6, <3>7, <3>8 DEF Decrypting
    <2> QED BY <2>1, <2>2
  <1> QED BY <1>3, <1>5, <1>9 DEF Encrypting

(* One turn of Decrypt.                                                      *)
LEMMA DecryptByteInv ==
    ASSUME Inv, DecryptByte
    PROVE  Inv'
  <1> USE SizesAssumption DEF Inv, TypeOK, DecryptByte
  <1>1. /\ sent \in 1..Cap /\ len \in 1..sent /\ len < Cap /\ room = len
        /\ i \in 1..(len - 1) /\ i' = i - 1
        /\ c = 2 * (len - 1 - i) /\ fault = "none" /\ beyond = Overrun
        /\ cipher[sent] = NUL /\ cipher[Cap - 1] = NUL
        /\ \A j \in 0..(sent - 2) : Encrypted(j)
        /\ CipherWhole => /\ len = sent /\ prev = Chain(i)
                          /\ \A j \in i..(sent - 2) : Decrypted(j)
    BY DEF Sealed, Decrypting
  <1>2. c \in 0..(LutLen - 1) /\ c + 1 \in 0..(LutLen - 1) /\ c' \in 0..(2 * (Cap - 1))
    BY <1>1
  <1>3. cipher[i - 1] \in Byte /\ lut[c] \in Byte /\ lut[c + 1] \in Byte
    BY <1>1, <1>2 DEF Memory
  <1>4. Mix(cipher[i - 1]) \in Byte /\ prev' \in Byte
    BY <1>3, XorType DEF Mix
  <1>5. back' \in Memory /\ back'[i - 1] = Mix(cipher[i - 1])
        /\ \A j \in i..(sent - 1) : back'[j] = back[j]
    BY <1>1, <1>4 DEF Memory
  <1>6. fault' = "none" /\ beyond' = beyond
    BY <1>1, WriteInside
  <1>7. TypeOK'
    BY <1>1, <1>2, <1>4, <1>5, <1>6
  <1>8. \A j \in 0..(sent - 1) : Chain(j)' = Chain(j)
    BY <1>1 DEF Chain, K
  <1>9. Sealed'
    <2>1. \A j \in 0..(sent - 2) : Encrypted(j)'
      BY <1>1 DEF Encrypted, Chain, K
    <2> QED BY <1>1, <1>6, <2>1 DEF Sealed, Overrun
  <1>10. PICK n \in 1..(len - 1) : n = i
    BY <1>1
  <1>11. ASSUME CipherWhole
         PROVE  prev' = Chain(n - 1)' /\ \A j \in (n - 1)..(sent - 2) : Decrypted(j)'
    <2>1. len = sent /\ prev = Chain(n) /\ K(n - 1) = c
      BY <1>1, <1>10, <1>11 DEF K
    <2>2. prev' = Chain(n - 1)'
      BY <1>1, <1>10, <2>1 DEF Chain, K
    <2>3. \A j \in i..(sent - 2) : Decrypted(j)'
      <3>1. \A j \in i..(sent - 2) : Chain(j + 1)' = Chain(j + 1)
        BY <1>1, <1>8
      <3> QED BY <1>1, <1>5, <1>11, <3>1 DEF Decrypted, K
    <2>4. Decrypted(n - 1)'
      <3>1. Chain(n)' = prev
        BY <1>1, <1>8, <1>10, <2>1
      <3> QED BY <1>1, <1>5, <1>10, <2>1, <3>1 DEF Decrypted, Mix, K
    <2>5. \A j \in (n - 1)..(sent - 2) : j = n - 1 \/ j \in i..(sent - 2)
      BY <1>1, <1>10
    <2> QED BY <2>2, <2>3, <2>4, <2>5
  <1>12. CipherWhole' <=> CipherWhole
    BY DEF CipherWhole
  <1>13. i' = n - 1
    BY <1>1, <1>10
  <1>14. Decrypting'
    BY <1>1, <1>6, <1>10, <1>11, <1>12, <1>13 DEF Decrypting
  <1> QED BY <1>7, <1>9, <1>14 DEF Encrypting

(* Decrypt ends: its NUL lies behind every decrypted position, and one byte   *)
(* behind the block, whose size is the length.                               *)
LEMMA DecryptEndInv ==
    ASSUME Inv, DecryptEnd
    PROVE  Inv'
  <1> USE SizesAssumption DEF Inv, TypeOK, DecryptEnd
  <1>1. /\ sent \in 1..Cap /\ len \in 1..sent /\ len < Cap /\ room = len /\ fault = "none"
        /\ c = 2 * (len - 1) /\ beyond = Overrun
        /\ cipher[sent] = NUL /\ cipher[Cap - 1] = NUL
        /\ \A j \in 0..(sent - 2) : Encrypted(j)
        /\ CipherWhole => /\ len = sent /\ prev = Chain(0)
                          /\ \A j \in 0..(sent - 2) : Decrypted(j)
    BY DEF Sealed, Decrypting
  <1>2. beyond' = 1 /\ fault' \in {"none", "overrun"}
    <2>1. beyond \in 0..1
      BY <1>1 DEF Overrun
    <2> QED BY <1>1, <2>1, WriteBehind
  <1>3. TypeOK'
    BY <1>1, <1>2 DEF Memory, Byte, NUL
  <1>4. Sealed'
    <2>1. \A j \in 0..(sent - 2) : Encrypted(j)'
      BY <1>1 DEF Encrypted, Chain, K
    <2> QED BY <1>1, <2>1 DEF Sealed
  <1>5. CipherWhole' <=> CipherWhole
    BY DEF CipherWhole
  <1>6. CipherWhole => \A j \in 0..(sent - 2) : Decrypted(j)'
    BY <1>1 DEF Decrypted, Chain, K, Memory
  <1>7. CipherWhole => Chain(0)' = Chain(0)
    BY DEF Chain, K
  <1>8. Decrypting'
    BY <1>1, <1>2, <1>5, <1>6, <1>7 DEF Decrypting
  <1> QED BY <1>3, <1>4, <1>8 DEF Encrypting

LEMMA InvNext == Inv /\ [Next]_vars => Inv'
  <1> SUFFICES ASSUME Inv, [Next]_vars PROVE Inv'
    OBVIOUS
  <1>1. CASE EncryptBegin
    BY <1>1, EncryptBeginInv
  <1>2. CASE EncryptByte
    BY <1>2, EncryptByteInv
  <1>3. CASE EncryptEnd
    BY <1>3, EncryptEndInv
  <1>4. CASE InitPalSayMsg
    BY <1>4, InitPalSayMsgInv
  <1>5. CASE HandleXTalk
    BY <1>5, HandleXTalkInv
  <1>6. CASE DecryptByte
    BY <1>6, DecryptByteInv
  <1>7. CASE DecryptEnd
    BY <1>7, DecryptEndInv
  <1>8. CASE UNCHANGED vars
    BY <1>8 DEF vars, Inv, TypeOK, Encrypting, Sealed, Decrypting, Encrypted, Decrypted,
                Chain, K, CipherWhole, Overrun
  <1> QED BY <1>1, <1>2, <1>3, <1>4, <1>5, <1>6, <1>7, <1>8 DEF Next

(* Inv is an invariant of the two calls.                                     *)
THEOREM Invariant == Spec => []Inv
  <1> QED BY InitInv, InvNext, PTL DEF Spec

(* Texts, cursors and bytes keep their types in both loops.                  *)
THEOREM TypeCorrect == Spec => []TypeOK
  <1>1. Inv => TypeOK
    BY DEF Inv
  <1> QED BY <1>1, Invariant, PTL

(* No turn of either loop reads outside the table.                           *)
THEOREM TableNeverOverread == Spec => []TableInBounds
  <1>1. Inv => TableInBounds
    BY SizesAssumption DEF Inv, TypeOK, Encrypting, Sealed, Decrypting, TableInBounds
  <1> QED BY <1>1, Invariant, PTL

(* No write lies further than one byte behind its buffer, and none of Encrypt *)
(* outside unless the line fills the buffer.                                 *)
THEOREM OneByteOutsideAlways == Spec => []OneByteOutside
  <1>1. Inv => OneByteOutside
    BY DEF Inv, TypeOK, Encrypting, Sealed, Decrypting, Overrun, OneByteOutside
  <1> QED BY <1>1, Invariant, PTL

(* Decrypt undoes Encrypt on every character but the last.                   *)
THEOREM RoundTripOfPrefix == Spec => []RoundTripPrefix
  <1>1. Inv => RoundTripPrefix
    <2> SUFFICES ASSUME Inv, phase = "done", CipherWhole, NEW k \in 0..(sent - 2)
                 PROVE  back[k] = plain[k]
      BY DEF RoundTripPrefix
    <2>1. Encrypted(k) /\ Decrypted(k)
      BY DEF Inv, Sealed, Decrypting
    <2>2. back[k] = Xor(Xor(Xor(Xor(plain[k], lut[K(k)]), Chain(k + 1)), lut[K(k)]), Chain(k + 1))
      BY <2>1 DEF Encrypted, Decrypted
    <2> QED BY <2>2, XorUndoes
  <1> QED BY <1>1, Invariant, PTL

=============================================================================
