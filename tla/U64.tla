-------------------------------- MODULE U64 --------------------------------
(***************************************************************************)
(* The unsigned machine integers of the programs.  Token amounts, note     *)
(* amounts and mint supplies are all u64; neither Cargo workspace enables   *)
(* overflow checks, so the operators + - * of the release build wrap        *)
(* around.  Word is 2^64 in the program and a small number in the models.  *)
(***************************************************************************)
EXTENDS Integers

CONSTANT Word

ASSUME WordAssumption == Word \in Nat /\ Word > 1

U64 == 0 .. Word - 1

\* What an unchecked u64 expression evaluates to, and what `x as u64` keeps.
Wrap(x) == x % Word
=============================================================================
