------------------------------- MODULE MC_Vm -------------------------------
(***************************************************************************)
(* Small instances of Vm.  One-bit bytes make a word 8 bits wide.  The     *)
(* slots include every opcode, operands and targets on both sides of their *)
(* bounds, and raw data that a LoadImm may pick up from any slot.          *)
(***************************************************************************)
EXTENDS Vm

Ones == [j \in BytePos |-> FullByte(1)]

Instr(op, a, b, c, aux, wide) ==
  [op |-> op, a |-> a, b |-> b, c |-> c, aux |-> aux, wide |-> wide]

\* The slots that decide control flow, the LoadImm with its data slot first.
ControlSlots ==
  { Instr("LoadImm", 0, 0, 0, 0, Zero),
    Instr("LoadField", 0, 1, 1, 0, BoolWord(TRUE)),
    Instr("Move", 1, 0, 0, 0, Zero),
    Instr("Not", 0, 0, 0, 0, Zero),
    Instr("JumpIfFalse", 0, 0, 0, 3, Zero),
    Instr("Jump", 0, 0, 0, 2, Zero),
    Instr("Jump", 0, 0, 0, 4, Zero),
    Instr("Jump", 0, 0, 0, 0, Zero),
    Instr("Ret", 0, 0, 0, 0, Ones) }

\* Every other opcode, and what the checks refuse.
OtherSlots ==
  { Instr("LoadField", 1, 8, 0, -1, Zero),
    Instr("LoadField", 0, 3, 0, 0, Zero),
    Instr("LoadField", 0, 2, 2, 0, Zero),
    Instr("CmpEq", 1, 0, 1, 0, Zero),
    Instr("CmpNe", 1, 0, 1, 0, Zero),
    Instr("CmpGt", 1, 0, 1, 0, Zero),
    Instr("CmpLt", 1, 0, 1, 0, Zero),
    Instr("CmpGe", 1, 0, 1, 0, Zero),
    Instr("CmpLe", 1, 1, 2, 0, Zero),
    Instr("And", 1, 0, 1, 0, Zero),
    Instr("Or", 0, 0, 1, 0, Zero),
    Instr("JumpIfFalse", 1, 0, 0, 1, Zero),
    Instr("Jump", 0, 0, 0, -1, Zero),
    Instr("Jump", 0, 0, 0, 5, Zero),
    Instr("Ret", 2, 0, 0, 0, Zero),
    Instr(Invalid, 0, 0, 0, 0, Ones) }

Sized(S, n, rc) ==
  {[instructions |-> f, count |-> n, register_count |-> rc] : f \in [0 .. n - 1 -> S]}

\* All programs of up to 3 slots, the loads, jumps and returns in 4 slots, and
\* short programs with register counts at the edges of what the header allows.
AllPrograms ==
  UNION { UNION {Sized(ControlSlots \cup OtherSlots, n, 2) : n \in 0 .. 2},
          Sized(ControlSlots \cup {Instr("Or", 0, 0, 1, 0, Zero), Instr("CmpGt", 1, 0, 1, 0, Zero)}, 3, 2),
          Sized({s \in ControlSlots : s.op \notin {"Move", "Not"}}, 4, 2),
          UNION {Sized(ControlSlots \cup OtherSlots, 1, rc)
                   : rc \in {-1, 0, 1, 3, MaxRegisterCount, MaxRegisterCount + 1}} }

\* Fewer programs for the temporal properties, loops included.
SomePrograms ==
  UNION {Sized(ControlSlots, n, 2) : n \in 0 .. 3}

SomeContexts ==
  {[i \in 0 .. 2 * AuxHalf + 6 |-> FullByte(b)] : b \in Bit}

\* The constants' values: TLC evaluates the sets above only once.
MCPrograms     == AllPrograms
MCLivePrograms == SomePrograms
MCContexts     == SomeContexts
=============================================================================
