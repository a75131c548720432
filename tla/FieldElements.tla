--------------------------- MODULE FieldElements ---------------------------
(***************************************************************************)
(* The scalar field of BLS12-381 and the 32-byte strings that stand for    *)
(* its elements in the arguments of contracts/score-range-verifier.        *)
(*                                                                         *)
(* A string of bytes is the number it spells, most significant byte first. *)
(* It has five bytes instead of 32, and a u32 two instead of four.         *)
(***************************************************************************)
EXTENDS Integers

CONSTANTS
  BYTE,   \* 256, the values of a byte, scaled down
  FIELD   \* r, the order of the field, scaled down with it

U32 == 0 .. BYTE * BYTE - 1
Bytes == 0 .. BYTE * BYTE * BYTE * BYTE * BYTE - 1

\* 2^256 is less than three times r, and no string with zeros in all but the
\* first bytes, where u32_to_field writes, spells a small element.
ASSUME FieldAssumption ==
  /\ BYTE \in Nat /\ BYTE >= 2
  /\ FIELD \in Nat /\ FIELD >= BYTE * BYTE
  /\ BYTE * BYTE * BYTE * BYTE * BYTE <= 3 * FIELD
  /\ \A k \in 1 .. BYTE * BYTE - 1 : (k * (BYTE * BYTE * BYTE)) % FIELD >= BYTE * BYTE

\* Fr::from_bytes, which the host's functions reduce, and from_be_bytes_mod_order.
FrFromBytes(bytes) == bytes % FIELD

\* The strings that stand for the same element.
Aliases(bytes) == {b \in {FrFromBytes(bytes) + k * FIELD : k \in 0..2} : b \in Bytes}

=============================================================================
