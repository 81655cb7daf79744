-------------------------------- MODULE TCCommon -------------------------------
(***************************************************************************)
(* What the containers of jni/cpp/tcutil.c share.  A value is a sequence   *)
(* of digits in 0 .. Base-1; a value of one digit is what the functions    *)
(* that add an integer take for one (sizeof(int) bytes).                   *)
(***************************************************************************)
EXTENDS Integers, Sequences, FiniteSets

CONSTANTS
  None,     \* the null pointer
  Discard,  \* (void *)-1, a callback's order to remove the record
  KeySize,  \* the size of a key
  Base      \* integers have one digit of this base

ASSUME CommonAssumption == {KeySize, Base} \subseteq Nat \ {0} /\ None # Discard

Size(v) == KeySize + Len(v)

IsInt(v) == Len(v) = 1

Plus(v, num) == <<(v[1] + num) % Base>>
=============================================================================
