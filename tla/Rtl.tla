-------------------------------- MODULE Rtl --------------------------------
(***************************************************************************)
(* The data that the decoder, the converter and the executor share         *)
(* (include/opcodes.h, instruction_low_level.h, rev.h): machine words,     *)
(* register numbers, low-level instructions and RTL instructions.          *)
(*                                                                         *)
(* A word has WordBits bits (64 in the code) and a narrow operand, of 32   *)
(* bits or less, HalfBits bits.  Operand sizes keep the numbers of the     *)
(* code: they are data there, compared with 0 and divided by 8.            *)
(***************************************************************************)
EXTENDS Integers, Sequences, FiniteSetsExt

CONSTANTS
  WordBits,   \* bits of a 64-bit word
  HalfBits    \* bits of a 32-bit word

ASSUME WidthAssumption ==
  WordBits \in Nat /\ HalfBits \in Nat \ {0} /\ HalfBits < WordBits

W == 2 ^ WordBits
H == 2 ^ HalfBits
Word == 0 .. W - 1

Plus(a, b)  == (a + b) % W
Minus(a, b) == (a + W - b) % W
Times(a, b) == (a * b) % W
Negative(a) == a >= W \div 2
Modulus(size) == IF size = 64 THEN W ELSE H

\* rel8, rel16, rel32 and rel64: the low bits of a word, extended with their sign.
SignExtend(a, size) ==
  LET m == Modulus(size)
      low == a % m
  IN  IF low >= m \div 2 THEN Minus(low, m) ELSE low

\* Bitwise operators and shifts, from the bits of their operands.
Bit(a, k) == (a \div 2 ^ k) % 2
Bits(one(_, _), a, b) ==
  MapThenSumSet(LAMBDA k : one(Bit(a, k), Bit(b, k)) * 2 ^ k, 0 .. WordBits - 1)
And(a, b) == Bits(LAMBDA x, y : x * y, a, b)
Or(a, b)  == Bits(LAMBDA x, y : x + y - x * y, a, b)
Xor(a, b) == Bits(LAMBDA x, y : (x + y) % 2, a, b)
\* C leaves a count of WordBits or more undefined; the shift of the processor
\* takes it modulo WordBits, and so does a build with a count it does not know.
ShiftLeft(a, n)  == (a * 2 ^ (n % WordBits)) % W
ShiftRight(a, n) == a \div 2 ^ (n % WordBits)

\* Register numbers.  0 is the row "none" of helper_reg_table.
NoReg == 0
AX == 8
CX == 16
DX == 24
BX == 32
SP == 40
BP == 48
SI == 56
DI == 64
IP == 72
TMP1 == 352
TMP2 == 384

\* An operand of an RTL instruction.  store: is idx a constant or a register?
\* ind: the value itself, or a cell of memory or of the stack it points at.
Operand(store, ind, idx, size) ==
  [store |-> store, ind |-> ind, idx |-> idx, size |-> size]
RegOp(r, size) == Operand("REG", "DIRECT", r, size)
ImmOp(v, size) == Operand("IMM", "DIRECT", v, size)
NoOp == ImmOp(0, 0)

Instruction(op, flags, a, b, d) ==
  [op |-> op, flags |-> flags, srcA |-> a, srcB |-> b, dstA |-> d]
=============================================================================
