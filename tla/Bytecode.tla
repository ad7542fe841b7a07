------------------------------ MODULE Bytecode ------------------------------
(***************************************************************************)
(* The instruction format of mbpf (src/codegen/bytecode.hpp) and the       *)
(* 64-bit values its registers hold.                                       *)
(*                                                                         *)
(* Widths are scaled, their relations are kept.  A register word is 8      *)
(* bytes, as in the code; a byte has ByteBits bits.  An auxiliary payload  *)
(* is a two's complement number of the range -AuxHalf .. AuxHalf-1 (the    *)
(* code's int32_t) that LoadField reads as unsigned (uint32_t).  Register  *)
(* operands are uint8_t and kMaxRegisterCount is 256, so an operand can    *)
(* name every register of the file and no other.                           *)
(***************************************************************************)
EXTENDS Integers

CONSTANTS
  MaxRegisterCount,  \* kMaxRegisterCount, one more than the largest uint8_t
  ByteBits,          \* bits of a byte
  AuxHalf            \* one more than the largest auxiliary payload (2^31)

ASSUME BytecodeAssumption ==
  /\ MaxRegisterCount \in Nat \ {0}
  /\ ByteBits \in Nat \ {0}
  /\ AuxHalf \in Nat \ {0}

-----------------------------------------------------------------------------
(* Words. *)

Bit      == {0, 1}
BitPos   == 0 .. ByteBits - 1
Byte     == [BitPos -> Bit]
BytePos  == 0 .. 7
Word     == [BytePos -> Byte]

FullByte(b) == [k \in BitPos |-> b]
Zero        == [j \in BytePos |-> FullByte(0)]

\* A C++ bool stored in an int64_t register.
BoolWord(p) ==
  [j \in BytePos |-> [k \in BitPos |-> IF p /\ j = 0 /\ k = 0 THEN 1 ELSE 0]]

IsTrue(w) == w # Zero

BitwiseAnd(x, y) ==
  [j \in BytePos |-> [k \in BitPos |-> IF x[j][k] = 1 /\ y[j][k] = 1 THEN 1 ELSE 0]]

BitwiseOr(x, y) ==
  [j \in BytePos |-> [k \in BitPos |-> IF x[j][k] = 1 \/ y[j][k] = 1 THEN 1 ELSE 0]]

\* x < y on int64_t: the most significant bit where the words differ decides,
\* the other way round when it is the sign bit.
SignedLess(x, y) ==
  \E j \in BytePos, k \in BitPos :
    /\ x[j][k] # y[j][k]
    /\ \A m \in BytePos, n \in BitPos :
         (m > j \/ (m = j /\ n > k)) => x[m][n] = y[m][n]
    /\ x[j][k] = IF j = 7 /\ k = ByteBits - 1 THEN 1 ELSE 0

-----------------------------------------------------------------------------
(* Instructions.  A slot is 64 bits with two views: the decoded fields, and *)
(* the whole slot as an int64_t (raw_wide_data, the field wide), which is   *)
(* what a LoadImm reads from the slot after it.  The model leaves the two   *)
(* views independent of each other.                                         *)

CmpOps   == {"CmpEq", "CmpNe", "CmpGt", "CmpLt", "CmpGe", "CmpLe"}
JumpOps  == {"JumpIfFalse", "Jump"}
OpCode   == CmpOps \cup JumpOps
              \cup {"LoadField", "LoadImm", "Move", "Not", "Ret", "And", "Or"}
Invalid  == "invalid"  \* an op byte that is no enumerator of OpCode

U8  == 0 .. MaxRegisterCount - 1
I32 == -AuxHalf .. AuxHalf - 1

Slot == [op : OpCode \cup {Invalid}, a : U8, b : U8, c : U8, aux : I32, wide : Word]

aux_u32(ins) == IF ins.aux < 0 THEN ins.aux + 2 * AuxHalf ELSE ins.aux

\* Slots an instruction occupies: a LoadImm is followed by its data slot.
InstructionWidth(ins) == IF ins.op = "LoadImm" THEN 2 ELSE 1

\* The operand fields of an instruction that name registers.
RegisterOperands(ins) ==
  CASE ins.op \in CmpOps \cup {"And", "Or"}                      -> {ins.a, ins.b, ins.c}
    [] ins.op \in {"Move", "Not"}                                -> {ins.a, ins.b}
    [] ins.op \in {"LoadField", "LoadImm", "JumpIfFalse", "Ret"} -> {ins.a}
    [] OTHER                                                     -> {}

-----------------------------------------------------------------------------
(* The caller's context: the memory from the ctx pointer on, as far as a    *)
(* 32-bit offset and an 8-byte load can reach.                              *)

Memory == [0 .. 2 * AuxHalf + 6 -> Byte]

\* The field of the given size at the given offset: little-endian bytes,
\* extended with zeros or with the sign bit to a register word.
FieldWord(mem, offset, size, signed) ==
  LET sign == mem[offset + size - 1][ByteBits - 1]
  IN  [j \in BytePos |-> CASE j < size             -> mem[offset + j]
                           [] j >= size /\ signed  -> FullByte(sign)
                           [] OTHER                -> FullByte(0)]
=============================================================================
