------------------------------ MODULE PalCipher ------------------------------
(***************************************************************************)
(* The text cipher of palcrypto.c on the way of a chat line:               *)
(* OXLPalCryptoEncrypt into the stack buffer of OXLInitPalSayMsg, from     *)
(* there into the message, and OXLPalCryptoDecrypt out of a message that   *)
(* comes back into the heap block of OXLPalClientHandleXTalk__.  One       *)
(* action per turn of a loop.                                              *)
(*                                                                         *)
(* A byte is the set of its one bits, so exclusive or is the symmetric     *)
(* difference.  A text is C memory: the string is the part before the      *)
(* first NUL.  Left out: the handler decrypts from the header of the       *)
(* message on (buf->base); here the text begins with the cipher, as in     *)
(* the crypto test of basic-tests.c.                                       *)
(***************************************************************************)
EXTENDS Integers

CONSTANTS
    Bits,       \* the bit positions of a byte
    Cap,        \* PAL_CRYPTO_PLAINTEXT_SZ_CAP = PAL_CRYPTO_CIPHERTEXT_SZ_CAP
    LutLen,     \* PAL_CRYPTO_LUT_LEN
    Tables      \* the tables crypto->lut may hold

(* 512 and 255 in the code: every turn but the last character takes two      *)
(* entries of the table.                                                     *)
ASSUME SizesAssumption ==
    /\ Cap \in Nat \ {0, 1}
    /\ LutLen \in Nat
    /\ 2 * (Cap - 1) <= LutLen

ASSUME TablesAssumption == Tables \subseteq [0..(LutLen - 1) -> SUBSET Bits]

VARIABLES
    phase,      \* where the two calls are
    plain,      \* the text that is encrypted
    cipher,     \* cipherText, stack memory at first, and the byte behind it
    back,       \* plainText of Decrypt, heap memory, and what lies behind it
    room,       \* the size of that block
    lut,        \* crypto->lut
    len, i, c,  \* the locals of the call that runs
    prev,       \* its prevChar
    sent,       \* history: the len of the Encrypt call
    beyond,     \* history: how far behind its buffer the furthest write lay
    fault       \* what ended the process

vars == <<phase, plain, cipher, back, room, lut, len, i, c, prev, sent, beyond, fault>>

Byte == SUBSET Bits
NUL == {}
Xor(a, b) == (a \ b) \cup (b \ a)

Line == [0..(Cap - 1) -> Byte]
Memory == [0..Cap -> Byte]

(* strnlen(text, Cap)                                                        *)
Strnlen(text) ==
    IF \E k \in 0..(Cap - 1) : text[k] = NUL
    THEN CHOOSE k \in 0..(Cap - 1) : text[k] = NUL /\ \A j \in 0..(k - 1) : text[j] # NUL
    ELSE Cap

(* A write at an index of a buffer of that size: the process may or may not   *)
(* survive one behind its end.                                               *)
Outside(index, size) == IF index < size THEN 0 ELSE index - size + 1
Write(index, size) ==
    /\ beyond' = IF Outside(index, size) > beyond THEN Outside(index, size) ELSE beyond
    /\ fault' \in IF index < size THEN {fault} ELSE {fault, "overrun"}

(* What a byte becomes, the same in both directions.                         *)
Mix(byte) == Xor(Xor(byte, lut[c]), prev)

-----------------------------------------------------------------------------
(* Say refuses an empty line; nothing initialises the buffers.               *)
Init ==
    /\ phase = "start"
    /\ plain \in {t \in Line : t[0] # NUL}
    /\ \E stale \in Byte : cipher = [k \in 0..Cap |-> stale]
    /\ back = cipher
    /\ room = 0
    /\ lut \in Tables
    /\ len = 0 /\ i = 0 /\ c = 0 /\ prev = NUL
    /\ sent = 0 /\ beyond = 0
    /\ fault = "none"

(* Variant: the text is taken to fill its buffer.                            *)
WholeBufferBegin(text, next) ==
    /\ len' = Cap
    /\ i' = len' - 1
    /\ c' = 0
    /\ prev' = NUL
    /\ phase' = next

(* Variant: the loop starts one character earlier.                           *)
ShortBegin(text, next) ==
    /\ len' = Strnlen(text)
    /\ i' = len' - 2
    /\ c' = 0
    /\ prev' = NUL
    /\ phase' = next

(* Variant: the cursor into the table is kept from call to call.             *)
KeepingBegin(text, next) ==
    /\ len' = Strnlen(text)
    /\ i' = len' - 1
    /\ c' = c
    /\ prev' = NUL
    /\ phase' = next

(* The head of either function; i starts at len - 1, so the loop leaves the   *)
(* last character out, and wraps to SIZE_MAX on an empty text.               *)
Begin(text, next) ==
    /\ len' = Strnlen(text)
    /\ i' = len' - 1
    /\ c' = 0
    /\ prev' = NUL
    /\ phase' = next

EncryptBegin ==
    /\ phase = "start"
    /\ Begin(plain, "encrypting")
    /\ sent' = len'
    /\ UNCHANGED <<plain, cipher, back, room, lut, beyond, fault>>

(* Variant: prevChar is taken from the plain text.                           *)
PlainChainEncryptByte ==
    /\ phase = "encrypting" /\ i > 0
    /\ i' = i - 1
    /\ cipher' = [cipher EXCEPT ![i - 1] = Mix(plain[i - 1])]
    /\ Write(i - 1, Cap)
    /\ prev' = Xor(plain[i - 1], lut[c + 1])
    /\ c' = c + 2
    /\ UNCHANGED <<phase, plain, back, room, lut, len, sent>>

EncryptByte ==
    /\ phase = "encrypting" /\ i > 0
    /\ i' = i - 1
    /\ cipher' = [cipher EXCEPT ![i - 1] = Mix(plain[i - 1])]
    /\ Write(i - 1, Cap)
    /\ prev' = Xor(cipher'[i - 1], lut[c + 1])
    /\ c' = c + 2
    /\ UNCHANGED <<phase, plain, back, room, lut, len, sent>>

(* cipherText[len] = '\0', one byte behind the buffer for a text of Cap.      *)
EncryptEnd ==
    /\ phase = "encrypting" /\ i = 0
    /\ cipher' = [cipher EXCEPT ![len] = NUL]
    /\ Write(len, Cap)
    /\ phase' = "encrypted"
    /\ UNCHANGED <<plain, back, room, lut, len, i, c, prev, sent>>

(* strlcpy into the message: of a full text the last byte goes for the NUL.   *)
InitPalSayMsg ==
    /\ phase = "encrypted" /\ fault = "none"
    /\ cipher' = [cipher EXCEPT ![Cap - 1] = NUL]
    /\ phase' = "said"
    /\ UNCHANGED <<plain, back, room, lut, len, i, c, prev, sent, beyond, fault>>

(* A block as long as the text, without its NUL, and the head of Decrypt.  An *)
(* empty text makes the first turn write in front of the block.              *)
HandleXTalk ==
    /\ phase = "said"
    /\ room' = Strnlen(cipher)
    /\ Begin(cipher, "decrypting")
    /\ fault' = IF len' = 0 THEN "underflow" ELSE fault
    /\ UNCHANGED <<plain, cipher, back, lut, sent, beyond>>

DecryptByte ==
    /\ phase = "decrypting" /\ i > 0 /\ fault = "none"
    /\ i' = i - 1
    /\ back' = [back EXCEPT ![i - 1] = Mix(cipher[i - 1])]
    /\ Write(i - 1, room)
    /\ prev' = Xor(cipher[i - 1], lut[c + 1])
    /\ c' = c + 2
    /\ UNCHANGED <<phase, plain, cipher, room, lut, len, sent>>

(* plainText[len] = '\0', one byte behind the block for any text.             *)
DecryptEnd ==
    /\ phase = "decrypting" /\ i = 0
    /\ back' = [back EXCEPT ![len] = NUL]
    /\ Write(len, room)
    /\ phase' = "done"
    /\ UNCHANGED <<plain, cipher, room, lut, len, i, c, prev, sent>>

Next ==
    \/ EncryptBegin \/ EncryptByte \/ EncryptEnd
    \/ InitPalSayMsg \/ HandleXTalk
    \/ DecryptByte \/ DecryptEnd

Spec == Init /\ [][Next]_vars

-----------------------------------------------------------------------------
(* Properties.                                                              *)

(* Every variable has its type; i is -1 only after the empty text's fault.   *)
TypeOK ==
    /\ phase \in {"start", "encrypting", "encrypted", "said", "decrypting", "done"}
    /\ plain \in Line /\ cipher \in Memory /\ back \in Memory
    /\ room \in 0..Cap
    /\ lut \in [0..(LutLen - 1) -> Byte]
    /\ len \in 0..Cap /\ sent \in 0..Cap
    /\ i \in -1..(Cap - 1)
    /\ i = -1 => fault = "underflow"
    /\ c \in 0..(2 * (Cap - 1))
    /\ prev \in Byte
    /\ beyond \in Nat
    /\ fault \in {"none", "overrun", "underflow"}

(* The two table entries of the next turn exist, for every length of text.   *)
TableInBounds ==
    phase \in {"encrypting", "decrypting"} /\ i > 0 => c + 1 < LutLen

(* Neither function writes further than one byte behind its buffer, though    *)
(* Encrypt measures the plain text and Decrypt the cipher text, which a NUL   *)
(* may have made shorter; and Encrypt stays inside for every line but one    *)
(* that fills the buffer.  Decrypt's block has no room for its NUL at all.    *)
OneByteOutside ==
    /\ beyond <= 1
    /\ phase \in {"encrypting", "encrypted", "said"} /\ beyond > 0 => sent = Cap

(* No byte of the cipher text came out as NUL or was cut for one, so strnlen  *)
(* finds all of it.                                                          *)
CipherWhole == \A k \in 0..(sent - 1) : cipher[k] # NUL

(* Decrypting restores every character but the last, whatever the table,      *)
(* provided the cipher text has no NUL in it.                                *)
RoundTripPrefix ==
    phase = "done" /\ CipherWhole => \A k \in 0..(sent - 2) : back[k] = plain[k]

-----------------------------------------------------------------------------
(* The inductive invariant behind them.  The position j of a text uses the   *)
(* table entries K(j) and K(j) + 1, and hands Chain(j) down to position j - 1. *)

K(j) == 2 * (sent - 2 - j)
Chain(j) == IF j = sent - 1 THEN NUL ELSE Xor(cipher[j], lut[K(j) + 1])
Encrypted(j) == cipher[j] = Xor(Xor(plain[j], lut[K(j)]), Chain(j + 1))
Decrypted(j) == back[j] = Xor(Xor(cipher[j], lut[K(j)]), Chain(j + 1))

Overrun == IF sent = Cap THEN 1 ELSE 0

Encrypting ==
    phase = "encrypting" =>
        /\ len = sent /\ sent >= 1 /\ i \in 0..(sent - 1) /\ c = 2 * (sent - 1 - i)
        /\ prev = Chain(i)
        /\ \A j \in i..(sent - 2) : Encrypted(j)
        /\ fault = "none" /\ beyond = 0

Sealed ==
    phase \in {"encrypted", "said", "decrypting", "done"} =>
        /\ sent >= 1
        /\ \A j \in 0..(sent - 2) : Encrypted(j)
        /\ cipher[sent] = NUL
        /\ phase # "encrypted" => cipher[Cap - 1] = NUL
        /\ phase = "said" => fault = "none"
        /\ phase # "done" => beyond = Overrun
        /\ phase # "decrypting" => i >= 0

Decrypting ==
    phase \in {"decrypting", "done"} =>
        /\ len <= sent /\ len < Cap /\ room = len
        /\ IF len = 0 THEN i = -1
                      ELSE i \in 0..(len - 1) /\ c = 2 * (len - 1 - i)
        /\ phase = "decrypting" => fault = IF len = 0 THEN "underflow" ELSE "none"
        /\ phase = "done" => i = 0 /\ beyond = 1
        /\ CipherWhole => /\ len = sent
                          /\ prev = Chain(i)
                          /\ \A j \in i..(sent - 2) : Decrypted(j)

Inv ==
    /\ TypeOK
    /\ phase = "start" => fault = "none" /\ sent = 0 /\ beyond = 0 /\ plain[0] # NUL
    /\ Encrypting
    /\ Sealed
    /\ Decrypting

-----------------------------------------------------------------------------
(* What the crypto test prints side by side (basic-tests.c:34 and :36): the   *)
(* text and, decrypted, the same text again.                                 *)
RoundTrip ==
    phase = "done" /\ CipherWhole => \A k \in 0..(sent - 1) : back[k] = plain[k]

=============================================================================
