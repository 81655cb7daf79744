------------------------------- MODULE ValueCodecs -----------------------------
(***************************************************************************)
(* What the program makes of a value before it is stored: the image record *)
(* of ImageCache.java around it, and the form jni/cpp/mStore.cpp stores it *)
(* in, with its time, perhaps compressed, and a few of its bytes           *)
(* enciphered with the key it is stored under.  A number of four bytes is  *)
(* one element of a sequence, or a field.                                  *)
(***************************************************************************)
EXTENDS TextCodecs

CONSTANTS
  CryKeyLen,  \* CRY_KEYLEN, so many bytes of the key encipher
  CryStep,    \* DCRY_STEP, so many bytes of a long value are enciphered
  Magic       \* CACHE_MAGIC

ASSUME ValueCodecsAssumption ==
  /\ {CryKeyLen, CryStep} \subseteq Nat \ {0} /\ Magic \in Int \ Bytes

---------------------------------------------------------------------------
(* The cipher *)

\* C takes remainders towards zero.
Rem(k) == IF k < 0 THEN -((-k) % 256) ELSE k % 256

\* Mutant: the whole key enciphers.
UsedKeyAll(key, behind) == AsCString(key \o behind)

\* The key comes from a Java array, which no zero byte ends: a key that is too
\* short goes on with what stands behind it in memory.
UsedKey(key, behind) ==
  LET str == AsCString(key \o behind) IN First(str, Min({Len(str), CryKeyLen}))

\* The bytes that are enciphered are so many apart.
Stride(t) == IF Len(t) > CryStep THEN Len(t) \div CryStep ELSE 1

EncryptByte(c, used) ==
  FoldLeftDomain(LAMBDA k, j : Rem(k + j * AsChar(used[j])), c, used) % 256

DecryptByte(c, used) ==
  LET k == FoldRightDomain(LAMBDA j, n : Rem(n - j * AsChar(used[j])), used, c)
  IN (IF k < 0 THEN k + (((-k) \div 256) + 1) * 256 ELSE k) % 256

Encrypt(t, used) ==
  [i \in DOMAIN t |-> IF (i - 1) % Stride(t) = 0 THEN EncryptByte(t[i], used) ELSE t[i]]

Decrypt(t, used) ==
  [i \in DOMAIN t |-> IF (i - 1) % Stride(t) = 0 THEN DecryptByte(t[i], used) ELSE t[i]]

---------------------------------------------------------------------------
(* Stored values *)

\* zlib's compress and uncompress: some code that can be undone.
Compress(t) == PackEncode(t)
Uncompress(t) == PackDecode(t)

\* An empty value is not stored.
SerializeValue(t, time, isCmp, used) ==
  [time |-> time, isCmp |-> isCmp, len |-> Len(t),
   body |-> Encrypt(IF isCmp THEN Compress(t) ELSE t, used)]

\* A value that is longer than it says is given up.
DeSerializeValue(v, used) ==
  LET t == Decrypt(v.body, used)
      u == Uncompress(t)
  IN IF ~v.isCmp THEN t ELSE IF Len(u) > v.len THEN <<>> ELSE u

---------------------------------------------------------------------------
(* Images *)

JoinValueUserData(value, userData) ==
  <<Len(userData)>> \o userData \o <<Magic, Len(value)>> \o value

NoImage == [userData |-> <<>>, value |-> <<>>]

\* How many bytes of the user are taken.
Taken(b) == b[1]

\* They go into an array that is one byte longer.
UserData(b) ==
  IF b[1] = 0 THEN <<>>
  ELSE [i \in 1 .. b[1] + 1 |-> IF i <= Taken(b) THEN b[i + 1] ELSE 0]

ParseValueUserData(b) ==
  LET at == Taken(b) + 2
  IN IF b[at] # Magic THEN NoImage
     ELSE [userData |-> UserData(b), value |-> SubSeq(b, at + 2, at + 1 + b[at + 1])]
=============================================================================
