--------------------------------- MODULE Vm ---------------------------------
(***************************************************************************)
(* The verifier and the interpreter of src/vm/vm.cpp: one call of          *)
(* execute_program (verify, then run) or of execute_program_verified (run  *)
(* only) on any program of Programs.  Each iteration of the verifier's     *)
(* loop and each interpreted instruction is a step.                        *)
(***************************************************************************)
EXTENDS Program

CONSTANTS
  Programs,   \* the programs the machine may be given
  Contexts,   \* the contexts it may be given
  NoContext   \* the null pointer passed as ctx or out_result

ASSUME VmAssumption ==
  /\ \A p \in Programs : IsProgram(p)
  /\ Contexts \subseteq Memory
  /\ NoContext \notin Contexts

VARIABLES
  program,             \* the program given, never changed by the call
  ctx,                 \* the input context, or NoContext
  run_verify,          \* which entry point was called
  phase,               \* "call", "scan", "execute" or "done"
  scan,                \* verify_program_impl's i
  instruction_starts,  \* slots the scan has marked as starts
  jump_targets,        \* targets of the jumps scanned so far
  pc,                  \* the interpreter's program counter
  regs,                \* its register file
  status,              \* the call's return value, "none" before it returns
  out_result           \* *out_result, "unset" before it is written

inputs == <<program, ctx, run_verify>>
scanner == <<scan, instruction_starts, jump_targets>>
machine == <<pc, regs>>
vars == <<inputs, scanner, machine, phase, status, out_result>>

Registers == 0 .. MaxRegisterCount - 1

-----------------------------------------------------------------------------
(* The call. *)

Return(s) == phase' = "done" /\ status' = s

Init ==
  /\ program \in Programs
  /\ ctx \in Contexts \cup {NoContext}
  /\ run_verify \in BOOLEAN
  /\ phase = "call"
  /\ scan = 0
  /\ instruction_starts = {}
  /\ jump_targets = {}
  /\ pc = 0
  /\ regs = [r \in Registers |-> Zero]
  /\ status = "none"
  /\ out_result = "unset"

\* A null ctx or out_result is refused before anything else.
RejectArguments ==
  /\ phase = "call"
  /\ ctx = NoContext
  /\ Return("INVALID_ARG")
  /\ UNCHANGED <<inputs, scanner, machine, out_result>>

\* execute_program_verified goes straight to the interpreter.
SkipVerify ==
  /\ phase = "call"
  /\ ctx # NoContext
  /\ ~run_verify
  /\ phase' = "execute"
  /\ UNCHANGED <<inputs, scanner, machine, status, out_result>>

BeginVerify ==
  /\ phase = "call"
  /\ ctx # NoContext
  /\ run_verify
  /\ IF HeaderOk(program)
     THEN /\ phase' = "scan"
          /\ instruction_starts' = {0}
          /\ UNCHANGED status
     ELSE /\ Return("VERIFICATION")
          /\ UNCHANGED instruction_starts
  /\ UNCHANGED <<inputs, scan, jump_targets, machine, out_result>>

-----------------------------------------------------------------------------
(* verify_program_impl. *)

\* Mistake: the data slot of a LoadImm counts as an instruction.
VerifyEverySlot ==
  /\ phase = "scan"
  /\ scan < program.count
  /\ InstructionOk(program, scan)
  /\ LET ins == program.instructions[scan]
     IN  /\ instruction_starts' = instruction_starts \cup scan .. scan + InstructionWidth(ins) - 1
         /\ jump_targets' = IF ins.op \in JumpOps THEN jump_targets \cup {ins.aux}
                                                  ELSE jump_targets
         /\ scan' = scan + InstructionWidth(ins)
  /\ UNCHANGED <<inputs, machine, phase, status, out_result>>

\* Mistake: the scan does not advance.
VerifySameSlotAgain ==
  /\ phase = "scan"
  /\ scan < program.count
  /\ InstructionOk(program, scan)
  /\ instruction_starts' = instruction_starts \cup {scan}
  /\ UNCHANGED <<inputs, scan, jump_targets, machine, phase, status, out_result>>

VerifyInstruction ==
  /\ phase = "scan"
  /\ scan < program.count
  /\ InstructionOk(program, scan)
  /\ LET ins == program.instructions[scan]
     IN  /\ instruction_starts' = instruction_starts \cup {scan}
         /\ jump_targets' = IF ins.op \in JumpOps THEN jump_targets \cup {ins.aux}
                                                  ELSE jump_targets
         /\ scan' = scan + InstructionWidth(ins)
  /\ UNCHANGED <<inputs, machine, phase, status, out_result>>

RejectInstruction ==
  /\ phase = "scan"
  /\ scan < program.count
  /\ ~InstructionOk(program, scan)
  /\ instruction_starts' = instruction_starts \cup {scan}
  /\ Return("VERIFICATION")
  /\ UNCHANGED <<inputs, scan, jump_targets, machine, out_result>>

\* After the scan every jump has to land on a start or right after the end.
VerifyTargets ==
  /\ phase = "scan"
  /\ scan >= program.count
  /\ instruction_starts' = instruction_starts \cup {program.count}
  /\ IF jump_targets \subseteq instruction_starts'
     THEN phase' = "execute" /\ UNCHANGED status
     ELSE Return("VERIFICATION")
  /\ UNCHANGED <<inputs, scan, jump_targets, machine, out_result>>

-----------------------------------------------------------------------------
(* The interpreter. *)

\* The interpreter is about to execute an instruction of one of the given
\* opcodes, and its own checks pass.
At(ops) ==
  /\ phase = "execute"
  /\ pc < program.count
  /\ program.instructions[pc].op \in ops
  /\ InstructionOk(program, pc)

Ins == program.instructions[pc]

\* The instruction writes register a and control goes on to the given slot.
Write(word, next) ==
  /\ regs' = [regs EXCEPT ![Ins.a] = word]
  /\ pc' = next
  /\ UNCHANGED <<inputs, scanner, phase, status, out_result>>

LoadField ==
  At({"LoadField"}) /\ Write(FieldWord(ctx, aux_u32(Ins), Ins.b, Ins.c = 1), pc + 1)

\* Mistake: control goes on to the data slot.
LoadImmOneSlot ==
  At({"LoadImm"}) /\ Write(program.instructions[pc + 1].wide, pc + 1)

LoadImm ==
  At({"LoadImm"}) /\ Write(program.instructions[pc + 1].wide, pc + 2)

\* Mistake: control stays.
MoveWithoutAdvance ==
  At({"Move"}) /\ Write(regs[Ins.b], pc)

Move ==
  At({"Move"}) /\ Write(regs[Ins.b], pc + 1)

CompareWords(op, x, y) ==
  CASE op = "CmpEq" -> x = y
    [] op = "CmpNe" -> x # y
    [] op = "CmpGt" -> SignedLess(y, x)
    [] op = "CmpLt" -> SignedLess(x, y)
    [] op = "CmpGe" -> ~SignedLess(x, y)
    [] op = "CmpLe" -> ~SignedLess(y, x)

Compare ==
  At(CmpOps) /\ Write(BoolWord(CompareWords(Ins.op, regs[Ins.b], regs[Ins.c])), pc + 1)

Not ==
  At({"Not"}) /\ Write(BoolWord(~IsTrue(regs[Ins.b])), pc + 1)

And ==
  At({"And"}) /\ Write(BitwiseAnd(regs[Ins.b], regs[Ins.c]), pc + 1)

Or ==
  At({"Or"}) /\ Write(BitwiseOr(regs[Ins.b], regs[Ins.c]), pc + 1)

\* Mistake: the target is one slot off.
JumpIfFalseOffByOne ==
  /\ At({"JumpIfFalse"})
  /\ pc' = IF IsTrue(regs[Ins.a]) THEN pc + 1 ELSE Ins.aux + 1
  /\ UNCHANGED <<inputs, scanner, regs, phase, status, out_result>>

JumpIfFalse ==
  /\ At({"JumpIfFalse"})
  /\ pc' = IF IsTrue(regs[Ins.a]) THEN pc + 1 ELSE Ins.aux
  /\ UNCHANGED <<inputs, scanner, regs, phase, status, out_result>>

\* Mistake: the target is one slot off.
JumpOffByOne ==
  /\ At({"Jump"})
  /\ pc' = Ins.aux - 1
  /\ UNCHANGED <<inputs, scanner, regs, phase, status, out_result>>

Jump ==
  /\ At({"Jump"})
  /\ pc' = Ins.aux
  /\ UNCHANGED <<inputs, scanner, regs, phase, status, out_result>>

Ret ==
  /\ At({"Ret"})
  /\ out_result' = IF IsTrue(regs[Ins.a]) THEN "true" ELSE "false"
  /\ Return("OK")
  /\ UNCHANGED <<inputs, scanner, machine>>

\* One of the interpreter's own checks fails.
RuntimeFault ==
  /\ phase = "execute"
  /\ pc < program.count
  /\ ~InstructionOk(program, pc)
  /\ Return("VM_RUNTIME")
  /\ UNCHANGED <<inputs, scanner, machine, out_result>>

\* Control has run past the last slot.
TerminatedWithoutRet ==
  /\ phase = "execute"
  /\ pc >= program.count
  /\ Return("VM_RUNTIME")
  /\ UNCHANGED <<inputs, scanner, machine, out_result>>

-----------------------------------------------------------------------------
Begin   == RejectArguments \/ SkipVerify \/ BeginVerify
Verify  == VerifyInstruction \/ RejectInstruction \/ VerifyTargets
Execute == \/ LoadField \/ LoadImm \/ Move \/ Compare \/ Not \/ And \/ Or
           \/ JumpIfFalse \/ Jump \/ Ret \/ RuntimeFault \/ TerminatedWithoutRet

Next == Begin \/ Verify \/ Execute

Spec == Init /\ [][Next]_vars

\* The caller's thread keeps running until the call returns.
FairSpec == Spec /\ WF_vars(Next)

-----------------------------------------------------------------------------
(* Properties. *)

\* Every variable has the type the code declares for it.
TypeOK ==
  /\ IsProgram(program)
  /\ ctx \in Contexts \cup {NoContext}
  /\ run_verify \in BOOLEAN
  /\ phase \in {"call", "scan", "execute", "done"}
  /\ scan \in Nat
  /\ instruction_starts \subseteq Nat
  /\ jump_targets \subseteq Int
  /\ pc \in Nat
  /\ regs \in [Registers -> Word]
  /\ status \in {"none", "OK", "INVALID_ARG", "VERIFICATION", "VM_RUNTIME"}
  /\ out_result \in {"unset", "true", "false"}

\* The verifier accepts exactly the programs whose instructions, read in
\* sequence from slot 0, are all legal and whose jumps all land on one of
\* those instructions or on the end (verify_program_impl).
VerdictCorrect ==
  run_verify => /\ phase = "execute" => WellFormed(program)
                /\ status = "VERIFICATION" => ~WellFormed(program)

\* Running a well-formed program, control is always at the start of an
\* instruction or at the end, never at the data slot of a LoadImm, whatever
\* the jumps do, and whether this call verified the program or relied on an
\* earlier verdict (execute_program_impl).
PcOnBoundary ==
  phase = "execute" /\ WellFormed(program) => Boundary(program, pc)

\* The interpreter's own checks never fail on a well-formed program: the only
\* runtime error left is running past the end without a Ret.
WellFormedNeverFaults ==
  status = "VM_RUNTIME" /\ WellFormed(program) => pc = program.count

\* The verifier always reaches a verdict, also on programs that loop.
VerifierTerminates == phase = "scan" ~> phase # "scan"

\* A program without backward jumps always makes the call return; programs
\* with backward jumps may run for ever, verified or not.
ForwardProgramsReturn == ForwardOnly(program) => <>(phase = "done")
=============================================================================
