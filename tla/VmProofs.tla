------------------------------ MODULE VmProofs ------------------------------
(***************************************************************************)
(* What holds of the verifier and the interpreter for every set of         *)
(* programs and contexts and for every value of the widths.                *)
(***************************************************************************)
EXTENDS Vm, TLAPS

(***************************************************************************)
(* The inductive invariant.  ScanInv says what the verifier knows in the   *)
(* middle of its scan, ExecuteInv what is left of that knowledge when the  *)
(* interpreter runs.                                                       *)
(***************************************************************************)

\* The scan has checked the instruction at s and goes on where it ends.
Scanned(s) ==
  /\ s < program.count
  /\ InstructionOk(program, s)
  /\ s + InstructionWidth(program.instructions[s]) \in instruction_starts \cup {scan}
  /\ program.instructions[s].op \in JumpOps => program.instructions[s].aux \in jump_targets

\* Every boundary-closed set contains S.
Inevitable(S) ==
  \A T \in SUBSET (0 .. program.count + 1) : Closed(program, T) => S \subseteq T

ScanInv ==
  phase = "scan" =>
    /\ HeaderOk(program)
    /\ scan <= program.count
    /\ 0 \in instruction_starts
    /\ \A s \in instruction_starts : s # scan => Scanned(s)
    /\ \A t \in jump_targets :
         \E s \in instruction_starts : /\ s < program.count
                                       /\ program.instructions[s].op \in JumpOps
                                       /\ program.instructions[s].aux = t
    /\ Inevitable(instruction_starts \cup {scan})

ExecuteInv ==
  phase = "execute" =>
    /\ run_verify => WellFormed(program)
    /\ WellFormed(program) => Boundary(program, pc) /\ pc <= program.count

\* What the returned status says.
StatusInv ==
  /\ phase # "done" => status = "none"
  /\ phase = "call" => pc = 0 /\ scan = 0 /\ jump_targets = {}
  /\ phase = "scan" => pc = 0 /\ run_verify
  /\ phase \in {"scan", "execute"} => ctx # NoContext
  /\ status = "VERIFICATION" => ~WellFormed(program)
  /\ WellFormed(program) /\ status = "VM_RUNTIME" => pc = program.count

IInv == TypeOK /\ ScanInv /\ ExecuteInv /\ StatusInv

-----------------------------------------------------------------------------
(* Lemmas on words. *)

\* A field loaded from the context is a register word, whatever its offset.
LEMMA FieldWordType ==
  ASSUME NEW mem \in Memory, NEW ins \in Slot, ins.b \in {1, 2, 4, 8}, NEW signed \in BOOLEAN
  PROVE  FieldWord(mem, aux_u32(ins), ins.b, signed) \in Word
<1> DEFINE off == aux_u32(ins)
<1>1. off \in 0 .. 2 * AuxHalf - 1
  BY BytecodeAssumption DEF aux_u32, Slot, I32
<1>2. \A j \in 0 .. 7 : mem[off + j] \in Byte
  BY <1>1, BytecodeAssumption DEF Memory
<1>3. mem[off + ins.b - 1] \in Byte
  BY <1>1, BytecodeAssumption DEF Memory
<1>4. mem[off + ins.b - 1][ByteBits - 1] \in Bit
  BY <1>3, BytecodeAssumption DEF Byte, BitPos
<1>5. \A b \in Bit : FullByte(b) \in Byte
  BY DEF FullByte, Byte
<1>6. ASSUME NEW j \in BytePos
      PROVE  (CASE j < ins.b             -> mem[off + j]
                [] j >= ins.b /\ signed  -> FullByte(mem[off + ins.b - 1][ByteBits - 1])
                [] OTHER                 -> FullByte(0)) \in Byte
  <2>1. CASE j < ins.b
    BY <2>1, <1>2 DEF BytePos
  <2>2. CASE j >= ins.b /\ signed
    BY <2>2, <1>4, <1>5 DEF BytePos
  <2>3. CASE j >= ins.b /\ ~signed
    BY <2>3, <1>5 DEF BytePos, Bit
  <2>4. QED
    BY <2>1, <2>2, <2>3 DEF BytePos
<1>7. QED
  BY <1>6 DEF FieldWord, Word

\* The other words the interpreter computes are register words too.
LEMMA WordTypes ==
  /\ Zero \in Word
  /\ \A p \in BOOLEAN : BoolWord(p) \in Word
  /\ \A x, y \in Word : BitwiseAnd(x, y) \in Word /\ BitwiseOr(x, y) \in Word
BY DEF Zero, BoolWord, BitwiseAnd, BitwiseOr, FullByte, Word, Byte, Bit

-----------------------------------------------------------------------------
(* Type correctness. *)

\* A call starts with every variable of its type.
LEMMA InitTypeOK == Init => TypeOK
BY VmAssumption, WordTypes DEF Init, TypeOK, IsProgram, Registers

\* An instruction that writes a register keeps the types when what it writes
\* is a word.
LEMMA WriteTypeOK ==
  ASSUME TypeOK, phase = "execute", pc < program.count,
         NEW w \in Word, NEW n \in Nat, Write(w, n)
  PROVE  TypeOK'
<1>1. program.instructions[pc] \in Slot
  BY DEF TypeOK, IsProgram
<1>2. regs' \in [Registers -> Word]
  BY <1>1 DEF TypeOK, IsProgram, Write, Ins
<1>3. QED
  BY <1>2 DEF TypeOK, IsProgram, Write, inputs, scanner

\* Every step keeps the types: the interpreter only acts on an instruction
\* whose operands it has checked.
LEMMA StepTypeOK == TypeOK /\ StatusInv /\ [Next]_vars => TypeOK'
<1> SUFFICES ASSUME TypeOK, StatusInv, [Next]_vars
             PROVE  TypeOK'
  OBVIOUS
<1>1. CASE RejectArguments
  BY <1>1 DEF TypeOK, IsProgram, RejectArguments, Return, inputs, scanner, machine
<1>2. CASE SkipVerify
  BY <1>2 DEF TypeOK, IsProgram, SkipVerify, inputs, scanner, machine
<1>3. CASE BeginVerify
  <2>1. CASE HeaderOk(program)
    BY <1>3, <2>1 DEF TypeOK, IsProgram, BeginVerify, inputs, machine
  <2>2. CASE ~HeaderOk(program)
    BY <1>3, <2>2 DEF TypeOK, IsProgram, BeginVerify, Return, inputs, machine
  <2>3. QED
    BY <2>1, <2>2
<1>4. CASE VerifyInstruction
  <2>1. program.instructions[scan] \in Slot
    BY <1>4 DEF TypeOK, IsProgram, VerifyInstruction
  <2>2. program.instructions[scan].aux \in Int /\ InstructionWidth(program.instructions[scan]) \in {1, 2}
    BY <2>1, BytecodeAssumption DEF Slot, I32, InstructionWidth
  <2>3. scan' \in Nat /\ instruction_starts' \subseteq Nat
    <3>1. scan \in Nat /\ instruction_starts \subseteq Nat
      BY DEF TypeOK
    <3>2. QED
      BY <1>4, <2>2, <3>1 DEF VerifyInstruction
  <2>4. jump_targets' \subseteq Int
    <3>1. CASE program.instructions[scan].op \in JumpOps
      BY <1>4, <2>2, <3>1 DEF TypeOK, IsProgram, VerifyInstruction
    <3>2. CASE program.instructions[scan].op \notin JumpOps
      BY <1>4, <3>2 DEF TypeOK, IsProgram, VerifyInstruction
    <3>3. QED
      BY <3>1, <3>2
  <2>5. QED
    BY <1>4, <2>3, <2>4 DEF TypeOK, IsProgram, VerifyInstruction, inputs, machine
<1>5. CASE RejectInstruction
  BY <1>5 DEF TypeOK, IsProgram, RejectInstruction, Return, inputs, scanner, machine
<1>6. CASE VerifyTargets
  BY <1>6 DEF TypeOK, IsProgram, VerifyTargets, Return, inputs, scanner, machine
<1>7. CASE LoadField
  <2>1. PICK n \in Nat : n = pc + 1
    BY DEF TypeOK, IsProgram
  <2>2. program.instructions[pc] \in Slot /\ Ins.b \in {1, 2, 4, 8} /\ ctx \in Memory
    BY <1>7, VmAssumption DEF TypeOK, IsProgram, StatusInv, LoadField, At, InstructionOk, Ins
  <2>3. FieldWord(ctx, aux_u32(Ins), Ins.b, Ins.c = 1) \in Word
    BY <2>2, FieldWordType DEF Ins
  <2>4. QED
    BY <1>7, <2>1, <2>3, WriteTypeOK DEF LoadField, At
<1>8. CASE LoadImm
  <2>1. PICK n \in Nat : n = pc + 2
    BY DEF TypeOK, IsProgram
  <2>2. pc + 1 \in 0 .. program.count - 1
    BY <1>8 DEF TypeOK, IsProgram, LoadImm, At, InstructionOk
  <2>3. program.instructions[pc + 1].wide \in Word
    BY <2>2 DEF TypeOK, IsProgram, Slot
  <2>4. QED
    BY <1>8, <2>1, <2>3, WriteTypeOK DEF LoadImm, At
<1>9. CASE Move \/ Compare \/ Not \/ And \/ Or
  <2>1. PICK n \in Nat : n = pc + 1
    BY DEF TypeOK, IsProgram
  <2>2. Ins \in Slot
    BY <1>9 DEF TypeOK, IsProgram, Move, Compare, Not, And, Or, At, Ins
  <2>3. regs[Ins.b] \in Word /\ regs[Ins.c] \in Word
    BY <2>2 DEF TypeOK, IsProgram, Slot, Registers, U8
  <2>4. CASE Move
    BY <2>4, <2>1, <2>3, WriteTypeOK DEF Move, At
  <2>5. CASE Compare
    <3>1. CompareWords(Ins.op, regs[Ins.b], regs[Ins.c]) \in BOOLEAN
      BY <2>5 DEF Compare, At, Ins, CmpOps, CompareWords, SignedLess
    <3>2. QED
      BY <2>5, <2>1, <3>1, WordTypes, WriteTypeOK DEF Compare, At
  <2>6. CASE Not
    BY <2>6, <2>1, WordTypes, WriteTypeOK DEF Not, At
  <2>7. CASE And
    BY <2>7, <2>1, <2>3, WordTypes, WriteTypeOK DEF And, At
  <2>8. CASE Or
    BY <2>8, <2>1, <2>3, WordTypes, WriteTypeOK DEF Or, At
  <2>9. QED
    BY <1>9, <2>4, <2>5, <2>6, <2>7, <2>8
<1>10. CASE JumpIfFalse \/ Jump
  <2>1. program.instructions[pc] \in Slot /\ Ins.op \in JumpOps /\ InstructionOk(program, pc)
    BY <1>10 DEF TypeOK, IsProgram, JumpIfFalse, Jump, At, Ins, JumpOps
  <2>2. Ins.aux \in Nat
    BY <2>1, BytecodeAssumption DEF InstructionOk, Ins, Slot, I32
  <2>3. pc' \in Nat
    BY <1>10, <2>2 DEF TypeOK, IsProgram, JumpIfFalse, Jump
  <2>4. QED
    BY <1>10, <2>3 DEF TypeOK, IsProgram, JumpIfFalse, Jump, inputs, scanner
<1>11. CASE Ret
  BY <1>11 DEF TypeOK, IsProgram, Ret, Return, inputs, scanner, machine
<1>12. CASE RuntimeFault
  BY <1>12 DEF TypeOK, IsProgram, RuntimeFault, Return, inputs, scanner, machine
<1>13. CASE TerminatedWithoutRet
  BY <1>13 DEF TypeOK, IsProgram, TerminatedWithoutRet, Return, inputs, scanner, machine
<1>14. CASE UNCHANGED vars
  BY <1>14 DEF TypeOK, IsProgram, vars, inputs, scanner, machine
<1>15. QED
  BY <1>1, <1>2, <1>3, <1>4, <1>5, <1>6, <1>7, <1>8, <1>9, <1>10, <1>11, <1>12,
     <1>13, <1>14 DEF Next, Begin, Verify, Execute

-----------------------------------------------------------------------------
(* The verdict. *)

\* What closes over every start the scan marked also holds its position:
\* one more instruction scanned leaves the starts inevitable.
LEMMA InevitableStep ==
  ASSUME NEW S, NEW s \in S, Inevitable(S), s < program.count
  PROVE  Inevitable(S \cup {s + InstructionWidth(program.instructions[s])})
<1> SUFFICES ASSUME NEW T \in SUBSET (0 .. program.count + 1), Closed(program, T)
             PROVE  S \cup {s + InstructionWidth(program.instructions[s])} \subseteq T
  BY DEF Inevitable
<1>1. S \subseteq T
  BY DEF Inevitable
<1>2. QED
  BY <1>1 DEF Closed

\* An instruction that passes the checks ends inside the program.
LEMMA WidthBound ==
  ASSUME TypeOK, NEW s \in Nat, s < program.count, InstructionOk(program, s)
  PROVE  /\ InstructionWidth(program.instructions[s]) \in {1, 2}
         /\ s + InstructionWidth(program.instructions[s]) \in 0 .. program.count
BY DEF TypeOK, IsProgram, InstructionOk, InstructionWidth

\* The inductive invariant holds when a call starts.
LEMMA InitIInv == Init => IInv
BY InitTypeOK DEF Init, IInv, ScanInv, ExecuteInv, StatusInv

\* What the scan has established is kept by every step.
LEMMA StepScanInv == IInv /\ [Next]_vars => ScanInv'
<1> SUFFICES ASSUME IInv, [Next]_vars, phase' = "scan"
             PROVE  ScanInv'
  BY DEF ScanInv
<1>1. CASE BeginVerify
  <2>1. /\ HeaderOk(program)
        /\ instruction_starts' = {0}
        /\ scan' = 0
        /\ jump_targets' = {}
        /\ UNCHANGED inputs
    BY <1>1 DEF BeginVerify, Return, IInv, StatusInv
  <2>2. HeaderOk(program)' /\ scan' <= program.count'
    BY <2>1 DEF IInv, TypeOK, IsProgram, inputs
  <2>3. Inevitable({0})'
    <3>1. Inevitable({0})
      BY DEF Inevitable, Closed
    <3>2. QED
      BY <3>1, <2>1 DEF inputs, Inevitable
  <2>4. QED
    BY <2>1, <2>2, <2>3 DEF ScanInv, Inevitable
<1>2. CASE VerifyInstruction
  <2> DEFINE w == InstructionWidth(program.instructions[scan])
  <2>1. /\ phase = "scan"
        /\ scan < program.count
        /\ InstructionOk(program, scan)
        /\ instruction_starts' = instruction_starts \cup {scan}
        /\ scan' = scan + w
        /\ UNCHANGED inputs
        /\ jump_targets' = IF program.instructions[scan].op \in JumpOps
                           THEN jump_targets \cup {program.instructions[scan].aux} ELSE jump_targets
    BY <1>2 DEF VerifyInstruction
  <2>2. UNCHANGED program
    BY <2>1 DEF inputs
  <2>3. scan' <= program.count' /\ scan' # scan
    BY <2>1, <2>2, WidthBound DEF IInv, TypeOK, IsProgram
  <2>4. ASSUME NEW s \in instruction_starts', s # scan'
        PROVE  Scanned(s)'
    <3>1. /\ s < program.count
          /\ InstructionOk(program, s)
          /\ s + InstructionWidth(program.instructions[s]) \in instruction_starts' \cup {scan'}
          /\ program.instructions[s].op \in JumpOps => program.instructions[s].aux \in jump_targets'
      <4>1. CASE s = scan
        BY <4>1, <2>1
      <4>2. CASE s # scan
        <5>1. Scanned(s)
          BY <4>2, <2>1, <2>4 DEF IInv, ScanInv
        <5>2. QED
          BY <5>1, <2>1 DEF Scanned
      <4>3. QED
        BY <4>1, <4>2
    <3>2. InstructionOk(program, s)'
      BY <3>1, <2>1 DEF inputs
    <3>3. QED
      BY <3>1, <3>2, <2>2 DEF Scanned, InstructionWidth
  <2>5. ASSUME NEW t \in jump_targets'
        PROVE  \E s \in instruction_starts' : /\ s < program.count
                                              /\ program.instructions[s].op \in JumpOps
                                              /\ program.instructions[s].aux = t
    <3>1. CASE t \in jump_targets
      BY <3>1, <2>1 DEF IInv, ScanInv
    <3>2. CASE t \notin jump_targets
      <4>1. program.instructions[scan].op \in JumpOps /\ program.instructions[scan].aux = t
        BY <3>2, <2>1, <2>5
      <4>2. QED
        BY <4>1, <2>1
    <3>3. QED
      BY <3>1, <3>2
  <2>6. Inevitable(instruction_starts \cup {scan})'
    <3> DEFINE S == instruction_starts \cup {scan}
    <3>1. Inevitable(S \cup {scan + InstructionWidth(program.instructions[scan])})
      <4>1. Inevitable(S) /\ scan \in S
        BY <2>1 DEF IInv, ScanInv
      <4> HIDE DEF S
      <4>2. QED
        BY <4>1, <2>1, InevitableStep
    <3>2. instruction_starts' \cup {scan'} = S \cup {scan + InstructionWidth(program.instructions[scan])}
      BY <2>1
    <3>3. QED
      BY <3>1, <3>2, <2>1, <2>2 DEF Inevitable, inputs
  <2>7. HeaderOk(program)' /\ 0 \in instruction_starts'
    BY <2>1 DEF IInv, ScanInv, inputs
  <2>8. QED
    BY <2>2, <2>3, <2>4, <2>5, <2>6, <2>7 DEF ScanInv
<1>3. CASE UNCHANGED vars
  <2>1. UNCHANGED <<program, phase, scan, instruction_starts, jump_targets>>
    BY <1>3 DEF vars, inputs, scanner
  <2>2. phase = "scan"
    BY <2>1
  <2>3. QED
    BY <2>1, <2>2 DEF IInv, ScanInv, Scanned, Inevitable
<1>4. QED
  BY <1>1, <1>2, <1>3
  DEF Next, Begin, Verify, Execute, RejectArguments, SkipVerify, RejectInstruction,
      VerifyTargets, LoadField, LoadImm, Move, Compare, Not, And, Or, JumpIfFalse, Jump,
      Ret, RuntimeFault, TerminatedWithoutRet, At, Write, Return

\* In a well-formed program control goes from boundary to boundary: to the
\* next instruction, or to the target of the jump.
LEMMA ControlFlow ==
  ASSUME TypeOK, WellFormed(program), Boundary(program, pc), pc < program.count
  PROVE  LET next == pc + InstructionWidth(program.instructions[pc])
             target == program.instructions[pc].aux
         IN  /\ InstructionOk(program, pc)
             /\ Boundary(program, next) /\ next <= program.count
             /\ program.instructions[pc].op \in JumpOps => Boundary(program, target) /\ target <= program.count
<1>1. pc \in 0 .. program.count - 1
  BY DEF TypeOK, IsProgram
<1>2. /\ InstructionOk(program, pc)
      /\ program.instructions[pc].op \in JumpOps => Boundary(program, program.instructions[pc].aux)
  BY <1>1 DEF WellFormed
<1>3. Boundary(program, pc + InstructionWidth(program.instructions[pc]))
  BY DEF Boundary, Closed
<1>4. pc + InstructionWidth(program.instructions[pc]) <= program.count
  BY <1>2, WidthBound DEF TypeOK, IsProgram
<1>5. program.instructions[pc].op \in JumpOps => program.instructions[pc].aux <= program.count
  BY <1>2 DEF InstructionOk
<1>6. QED
  BY <1>2, <1>3, <1>4, <1>5

\* The targets check accepts: the marked starts and the end are exactly the
\* boundaries, and every jump lands on one.
LEMMA VerifyTargetsAccepts ==
  ASSUME IInv, VerifyTargets, phase' = "execute"
  PROVE  WellFormed(program)
<1> DEFINE S == instruction_starts \cup {program.count}
<1>1. /\ phase = "scan"
      /\ scan = program.count
      /\ jump_targets \subseteq S
  BY DEF VerifyTargets, Return, IInv, TypeOK, IsProgram, ScanInv
<1>2. ASSUME NEW s \in S, s < program.count
      PROVE  /\ s \in Nat
             /\ InstructionOk(program, s)
             /\ s + InstructionWidth(program.instructions[s]) \in S
             /\ program.instructions[s].op \in JumpOps => program.instructions[s].aux \in S
  <2>1. s \in instruction_starts /\ s # scan
    BY <1>1, <1>2 DEF IInv, TypeOK, IsProgram
  <2>2. Scanned(s)
    BY <2>1, <1>1 DEF IInv, ScanInv
  <2>3. QED
    BY <2>1, <2>2, <1>1 DEF Scanned, IInv, TypeOK, IsProgram
<1>3. \A j \in S : Boundary(program, j)
  <2>1. Inevitable(instruction_starts \cup {scan})
    BY <1>1 DEF IInv, ScanInv
  <2>2. QED
    BY <2>1, <1>1 DEF Inevitable, Boundary
<1>4. ASSUME NEW j, Boundary(program, j)
      PROVE  j \in S
  <2>1. Closed(program, S)
    BY <1>1, <1>2 DEF Closed, IInv, ScanInv
  <2>2. \A s \in S : s \in 0 .. program.count + 1
    BY <1>1, <1>2 DEF IInv, TypeOK, IsProgram, ScanInv, Scanned
  <2>3. S \in SUBSET (0 .. program.count + 1)
    BY <2>2
  <2>4. QED
    BY <1>4, <2>1, <2>3 DEF Boundary
<1>5. HeaderOk(program) /\ program.count \in Nat
  BY <1>1 DEF IInv, TypeOK, IsProgram, ScanInv
<1> HIDE DEF S
<1>6. QED
  BY <1>2, <1>3, <1>4, <1>5 DEF WellFormed

\* What is known of a running program is established by the verdict and kept
\* by every instruction.
LEMMA StepExecuteInv == IInv /\ [Next]_vars => ExecuteInv'
<1> SUFFICES ASSUME IInv, [Next]_vars, phase' = "execute"
             PROVE  ExecuteInv'
  BY DEF ExecuteInv
<1>1. ASSUME UNCHANGED inputs,
             run_verify => WellFormed(program),
             WellFormed(program) => Boundary(program, pc') /\ pc' <= program.count
      PROVE  ExecuteInv'
  <2>1. WellFormed(program)' <=> WellFormed(program)
    BY <1>1 DEF inputs
  <2>2. Boundary(program, pc)' <=> Boundary(program, pc')
    BY <1>1 DEF Boundary, Closed, InstructionWidth, inputs
  <2>3. QED
    BY <1>1, <2>1, <2>2 DEF ExecuteInv, inputs
<1>2. CASE VerifyTargets \/ SkipVerify
  <2>1. UNCHANGED inputs /\ pc' = 0
    BY <1>2 DEF VerifyTargets, SkipVerify, machine, IInv, StatusInv
  <2>2. run_verify => WellFormed(program)
    BY <1>2, VerifyTargetsAccepts DEF SkipVerify
  <2>3. Boundary(program, 0) /\ 0 <= program.count
    BY DEF Boundary, Closed, IInv, TypeOK, IsProgram
  <2>4. QED
    BY <1>1, <2>1, <2>2, <2>3
<1>3. ASSUME phase = "execute", UNCHANGED inputs,
             WellFormed(program) => Boundary(program, pc') /\ pc' <= program.count
      PROVE  ExecuteInv'
  BY <1>1, <1>3 DEF IInv, ExecuteInv
<1>4. CASE LoadField \/ LoadImm \/ Move \/ Compare \/ Not \/ And \/ Or
  <2>1. phase = "execute" /\ pc < program.count /\ UNCHANGED inputs
    BY <1>4 DEF LoadField, LoadImm, Move, Compare, Not, And, Or, At, Write
  <2>2. pc' = pc + InstructionWidth(program.instructions[pc])
    BY <1>4
    DEF LoadField, LoadImm, Move, Compare, Not, And, Or, At, Write, CmpOps, InstructionWidth
  <2>3. WellFormed(program) => Boundary(program, pc') /\ pc' <= program.count
    BY <2>1, <2>2, ControlFlow DEF IInv, ExecuteInv
  <2>4. QED
    BY <1>3, <2>1, <2>3
<1>5. CASE JumpIfFalse \/ Jump
  <2>1. /\ phase = "execute" /\ pc < program.count
        /\ program.instructions[pc].op \in JumpOps
        /\ UNCHANGED inputs
        /\ pc' \in {pc + 1, program.instructions[pc].aux}
    BY <1>5 DEF JumpIfFalse, Jump, At, Ins, JumpOps
  <2>2. InstructionWidth(program.instructions[pc]) = 1
    BY <2>1 DEF InstructionWidth, JumpOps
  <2>3. WellFormed(program) => Boundary(program, pc') /\ pc' <= program.count
    BY <2>1, <2>2, ControlFlow DEF IInv, ExecuteInv
  <2>4. QED
    BY <1>3, <2>1, <2>3
<1>6. CASE UNCHANGED vars
  <2>1. UNCHANGED inputs /\ UNCHANGED <<phase, pc>>
    BY <1>6 DEF vars, inputs, machine
  <2>2. QED
    BY <1>3, <2>1 DEF IInv, ExecuteInv
<1>7. QED
  BY <1>2, <1>4, <1>5, <1>6
  DEF Next, Begin, Verify, Execute, RejectArguments, BeginVerify, VerifyInstruction,
      RejectInstruction, Ret, RuntimeFault, TerminatedWithoutRet, Return

\* The scan refuses an instruction: the program is not well formed.
LEMMA RejectedInstruction ==
  ASSUME IInv, RejectInstruction
  PROVE  ~WellFormed(program)
<1>1. phase = "scan" /\ scan < program.count /\ ~InstructionOk(program, scan)
  BY DEF RejectInstruction
<1>2. Boundary(program, scan)
  <2>1. Inevitable(instruction_starts \cup {scan})
    BY <1>1 DEF IInv, ScanInv
  <2>2. QED
    BY <2>1 DEF Inevitable, Boundary
<1>3. scan \in 0 .. program.count - 1
  BY <1>1 DEF IInv, TypeOK, IsProgram
<1>4. QED
  BY <1>1, <1>2, <1>3 DEF WellFormed

\* The targets check refuses a jump: the program is not well formed.
LEMMA RejectedTargets ==
  ASSUME IInv, VerifyTargets, phase' = "done"
  PROVE  ~WellFormed(program)
<1> DEFINE S == instruction_starts \cup {program.count}
<1>1. PICK t \in jump_targets : t \notin S
  BY DEF VerifyTargets
<1>2. phase = "scan" /\ scan = program.count
  BY DEF VerifyTargets, IInv, TypeOK, IsProgram, ScanInv
<1>3. PICK s \in instruction_starts : /\ s < program.count
                                      /\ program.instructions[s].op \in JumpOps
                                      /\ program.instructions[s].aux = t
  BY <1>2 DEF IInv, ScanInv
<1>4. Boundary(program, s)
  <2>1. Inevitable(instruction_starts \cup {scan})
    BY <1>2 DEF IInv, ScanInv
  <2>2. QED
    BY <2>1 DEF Inevitable, Boundary
<1>5. Closed(program, S)
  <2>1. ASSUME NEW u \in S, u < program.count
        PROVE  u + InstructionWidth(program.instructions[u]) \in S
    <3>1. u \in instruction_starts /\ u # scan
      BY <2>1, <1>2 DEF IInv, TypeOK, IsProgram
    <3>2. Scanned(u)
      BY <3>1, <1>2 DEF IInv, ScanInv
    <3>3. QED
      BY <3>2, <1>2 DEF Scanned
  <2>2. QED
    BY <2>1, <1>2 DEF Closed, IInv, ScanInv
<1>6. S \in SUBSET (0 .. program.count + 1)
  <2>1. \A u \in instruction_starts : u \in Nat /\ (u # scan => u < program.count)
    BY <1>2 DEF IInv, TypeOK, ScanInv, Scanned
  <2>2. program.count \in Nat
    BY DEF IInv, TypeOK, IsProgram
  <2>3. \A u \in S : u \in 0 .. program.count + 1
    BY <2>1, <2>2, <1>2
  <2>4. QED
    BY <2>3
<1>7. ~Boundary(program, t)
  BY <1>1, <1>5, <1>6 DEF Boundary
<1>8. s \in 0 .. program.count - 1
  <2>1. s \in Nat /\ program.count \in Nat
    BY DEF IInv, TypeOK, IsProgram
  <2>2. QED
    BY <2>1, <1>3
<1>9. QED
  BY <1>3, <1>4, <1>7, <1>8 DEF WellFormed

\* What the returned status says of the program is true when it is returned.
LEMMA StepStatusInv == IInv /\ [Next]_vars => StatusInv'
<1> SUFFICES ASSUME IInv, [Next]_vars
             PROVE  StatusInv'
  OBVIOUS
<1> USE DEF IInv, StatusInv
<1>1. CASE RejectArguments
  BY <1>1 DEF RejectArguments, Return, inputs, scanner, machine
<1>2. CASE SkipVerify
  BY <1>2 DEF SkipVerify, inputs, machine
<1>3. CASE BeginVerify
  <2>1. phase' = "done" => ~WellFormed(program)'
    BY <1>3 DEF BeginVerify, WellFormed, inputs
  <2>2. QED
    BY <1>3, <2>1 DEF BeginVerify, Return, inputs, machine
<1>4. CASE VerifyInstruction
  BY <1>4 DEF VerifyInstruction, inputs, machine
<1>5. CASE RejectInstruction
  <2>1. ~WellFormed(program)'
    BY <1>5, RejectedInstruction DEF RejectInstruction, inputs
  <2>2. QED
    BY <1>5, <2>1 DEF RejectInstruction, Return
<1>6. CASE VerifyTargets
  <2>1. phase' = "done" => ~WellFormed(program)'
    BY <1>6, RejectedTargets DEF VerifyTargets, inputs
  <2>2. QED
    BY <1>6, <2>1 DEF VerifyTargets, Return, inputs, machine
<1>7. CASE LoadField \/ LoadImm \/ Move \/ Compare \/ Not \/ And \/ Or \/ JumpIfFalse \/ Jump
  <2>1. phase = "execute" /\ UNCHANGED <<inputs, phase, status>>
    BY <1>7
    DEF LoadField, LoadImm, Move, Compare, Not, And, Or, JumpIfFalse, Jump, At, Write
  <2>2. UNCHANGED <<ctx, run_verify>>
    BY <2>1 DEF inputs
  <2>3. QED
    BY <2>1, <2>2
<1>8. CASE Ret
  BY <1>8 DEF Ret, Return
<1>9. CASE RuntimeFault
  <2>1. ~WellFormed(program)
    BY <1>9, ControlFlow DEF RuntimeFault, ExecuteInv
  <2>2. QED
    BY <1>9, <2>1 DEF RuntimeFault, Return, inputs
<1>10. CASE TerminatedWithoutRet
  <2>1. WellFormed(program) => pc = program.count
    BY <1>10 DEF TerminatedWithoutRet, ExecuteInv, TypeOK, IsProgram
  <2>2. QED
    BY <1>10, <2>1 DEF TerminatedWithoutRet, Return, inputs, machine
<1>11. CASE UNCHANGED vars
  <2>1. WellFormed(program)' <=> WellFormed(program)
    BY <1>11 DEF vars, inputs
  <2>2. QED
    BY <1>11, <2>1 DEF vars, inputs, scanner, machine
<1>12. QED
  BY <1>1, <1>2, <1>3, <1>4, <1>5, <1>6, <1>7, <1>8, <1>9, <1>10, <1>11
  DEF Next, Begin, Verify, Execute

-----------------------------------------------------------------------------
(* The theorems. *)

\* The inductive invariant holds in every call.
LEMMA IInvInvariant == Spec => []IInv
<1>1. IInv /\ [Next]_vars => IInv'
  BY StepTypeOK, StepScanInv, StepExecuteInv, StepStatusInv DEF IInv
<1>2. QED
  BY InitIInv, <1>1, PTL DEF Spec

\* Every variable keeps its type, whatever program is given to the machine,
\* also when the verifier is skipped.
THEOREM TypeCorrect == Spec => []TypeOK
<1>1. IInv => TypeOK
  BY DEF IInv
<1>2. QED
  BY IInvInvariant, <1>1, PTL

\* The verifier accepts only well-formed programs and refuses only others.
THEOREM VerifierDecidesWellFormed == Spec => []VerdictCorrect
<1>1. IInv => VerdictCorrect
  BY DEF IInv, ExecuteInv, StatusInv, VerdictCorrect
<1>2. QED
  BY IInvInvariant, <1>1, PTL

\* A well-formed program is interpreted instruction by instruction as the
\* verifier reads it, in every call that runs it (execute_program_impl).
THEOREM ControlStaysOnBoundaries == Spec => []PcOnBoundary
<1>1. IInv => PcOnBoundary
  BY DEF IInv, ExecuteInv, PcOnBoundary
<1>2. QED
  BY IInvInvariant, <1>1, PTL

\* A well-formed program fails no runtime check of the interpreter.
THEOREM WellFormednessExcludesFaults == Spec => []WellFormedNeverFaults
<1>1. IInv => WellFormedNeverFaults
  BY DEF IInv, StatusInv, WellFormedNeverFaults
<1>2. QED
  BY IInvInvariant, <1>1, PTL
=============================================================================
