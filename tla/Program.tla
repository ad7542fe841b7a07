------------------------------- MODULE Program -------------------------------
(***************************************************************************)
(* A program as the verifier and the interpreter see it (ProgramView of    *)
(* src/vm/vm.cpp), the checks both make on one instruction, and what it    *)
(* means for a whole program to be well formed.                            *)
(***************************************************************************)
EXTENDS Bytecode

\* instructions is indexed from 0, register_count is the caller's int.
IsProgram(p) ==
  /\ p.count \in Nat
  /\ p.register_count \in Int
  /\ p.instructions \in [0 .. p.count - 1 -> Slot]

HeaderOk(p) ==
  p.register_count >= 0 /\ p.register_count <= MaxRegisterCount /\ p.count # 0

\* The checks on the instruction at i.  The verifier makes them for every
\* instruction of its scan, the interpreter again for the one it executes.
InstructionOk(p, i) ==
  LET ins == p.instructions[i]
  IN  /\ ins.op \in OpCode
      /\ \A r \in RegisterOperands(ins) : r < p.register_count
      /\ ins.op = "LoadField" => ins.b \in {1, 2, 4, 8} /\ ins.c <= 1
      /\ ins.op = "LoadImm" => i + 1 < p.count
      /\ ins.op \in JumpOps => ins.aux >= 0 /\ ins.aux <= p.count

-----------------------------------------------------------------------------
(* What the verifier should decide, stated without its scan. *)

\* The boundaries are the least set that holds slot 0 and, with an
\* instruction, the slot after it (and after its data slot).
Closed(p, S) ==
  /\ 0 \in S
  /\ \A s \in S : s < p.count => s + InstructionWidth(p.instructions[s]) \in S

Boundary(p, j) ==
  \A S \in SUBSET (0 .. p.count + 1) : Closed(p, S) => j \in S

WellFormed(p) ==
  /\ HeaderOk(p)
  /\ \A j \in 0 .. p.count - 1 :
       Boundary(p, j) =>
         /\ InstructionOk(p, j)
         /\ p.instructions[j].op \in JumpOps => Boundary(p, p.instructions[j].aux)

\* Every jump of the program goes forward.
ForwardOnly(p) ==
  \A i \in 0 .. p.count - 1 :
    p.instructions[i].op \in JumpOps => p.instructions[i].aux > i
=============================================================================
