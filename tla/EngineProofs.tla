---------------------------- MODULE EngineProofs ----------------------------
(***************************************************************************)
(* What holds of the library behind one handle for every set of            *)
(* expressions, registries and contexts: what CompilerProofs shows of the  *)
(* program of a successful call is all that the verifier asks for, and all *)
(* that the interpreter needs.                                             *)
(***************************************************************************)
EXTENDS Engine, TLAPS

(***************************************************************************)
(* The compiler with its theorems.  It is the compiler of Engine, instance *)
(* C, but the prover has to be shown that: the first lemmas say that the   *)
(* two instances define the same operators.                                *)
(***************************************************************************)
CP == INSTANCE CompilerProofs WITH status <- compile_status

\* The emitters of the two instances are the same operators.
LEMMA SamePrimitives ==
  /\ \A g, e : C!fail(g, e) = CP!fail(g, e)
  /\ \A g : C!NextReg(g) = CP!NextReg(g)
  /\ \A g : C!alloc_reg(g) = CP!alloc_reg(g)
  /\ \A g, op, a, b, c, imm : C!emit(g, op, a, b, c, imm) = CP!emit(g, op, a, b, c, imm)
  /\ \A g, a, w : C!emit_load_imm(g, a, w) = CP!emit_load_imm(g, a, w)
  /\ \A g, r : C!release_reg(g, r) = CP!release_reg(g, r)
  /\ \A g, ip : C!PatchToHere(g, ip) = CP!PatchToHere(g, ip)
  /\ \A g, w, type : C!emit_immediate(g, w, type) = CP!emit_immediate(g, w, type)
  /\ \A g, offset, size, sign_flag :
           C!emit_load_field_reg(g, offset, size, sign_flag)
             = CP!emit_load_field_reg(g, offset, size, sign_flag)
  /\ \A g, op, lhs, rhs, type :
           C!EmitInto(g, op, lhs, rhs, type)
             = CP!EmitInto(g, op, lhs, rhs, type)
  /\ \A g, operand : C!EmitNegation(g, operand) = CP!EmitNegation(g, operand)
  /\ \A g, v : C!ensure_bool(g, v) = CP!ensure_bool(g, v)
  /\ \A g, r, name : C!emit_identifier(g, r, name) = CP!emit_identifier(g, r, name)
  /\ \A g, r, e : C!emit_ipv6_value(g, r, e) = CP!emit_ipv6_value(g, r, e)
  /\ \A g, r, op, lhs_expr, rhs_expr :
           C!emit_ipv6_compare(g, r, op, lhs_expr, rhs_expr)
             = CP!emit_ipv6_compare(g, r, op, lhs_expr, rhs_expr)
<1>1. \A g, e : C!fail(g, e) = CP!fail(g, e)
  BY DEF C!fail, CP!fail, C!ok, CP!ok
<1>2. \A g : C!NextReg(g) = CP!NextReg(g)
  BY DEF C!NextReg, CP!NextReg
<1>3. \A g : C!alloc_reg(g) = CP!alloc_reg(g)
  BY <1>1, <1>2 DEF C!alloc_reg, CP!alloc_reg
<1>4. \A g, op, a, b, c, imm : C!emit(g, op, a, b, c, imm) = CP!emit(g, op, a, b, c, imm)
  BY <1>1 DEF C!emit, CP!emit, C!I32, CP!I32, C!ok, CP!ok, C!Instr, CP!Instr, C!Zero, CP!Zero,
      C!BytePos, CP!BytePos, C!FullByte, CP!FullByte, C!BitPos, CP!BitPos
<1>5. \A g, a, w : C!emit_load_imm(g, a, w) = CP!emit_load_imm(g, a, w)
  BY DEF C!emit_load_imm, CP!emit_load_imm, C!ok, CP!ok, C!Instr, CP!Instr, C!Zero, CP!Zero,
        C!BytePos, CP!BytePos, C!FullByte, CP!FullByte, C!BitPos, CP!BitPos, C!Data, CP!Data,
        C!Invalid, CP!Invalid
<1>6. \A g, r : C!release_reg(g, r) = CP!release_reg(g, r)
  BY <1>1 DEF C!release_reg, CP!release_reg
<1>7. \A g, ip : C!PatchToHere(g, ip) = CP!PatchToHere(g, ip)
  BY <1>1 DEF C!PatchToHere, CP!PatchToHere, C!patch_jump, CP!patch_jump, C!I32, CP!I32
<1>8. \A g, w, type : C!emit_immediate(g, w, type) = CP!emit_immediate(g, w, type)
  BY <1>2, <1>3, <1>5 DEF C!emit_immediate, CP!emit_immediate, C!Value, CP!Value, C!ok, CP!ok
<1>9. \A g, offset, size, sign_flag :
         C!emit_load_field_reg(g, offset, size, sign_flag)
           = CP!emit_load_field_reg(g, offset, size, sign_flag)
  BY <1>2, <1>3, <1>4 DEF C!emit_load_field_reg, CP!emit_load_field_reg, C!ok, CP!ok
<1>10. \A g, op, lhs, rhs, type :
         C!EmitInto(g, op, lhs, rhs, type)
           = CP!EmitInto(g, op, lhs, rhs, type)
  BY <1>2, <1>3, <1>6, <1>4 DEF C!EmitInto, CP!EmitInto, C!Value, CP!Value
<1>11. \A g, operand : C!EmitNegation(g, operand) = CP!EmitNegation(g, operand)
  BY <1>2, <1>3, <1>6, <1>4 DEF C!EmitNegation, CP!EmitNegation, C!Value, CP!Value
<1>12. \A g, v : C!ensure_bool(g, v) = CP!ensure_bool(g, v)
  BY <1>1, <1>8, <1>10 DEF C!ensure_bool, CP!ensure_bool, C!Zero, CP!Zero, C!BytePos,
      CP!BytePos, C!FullByte, CP!FullByte, C!BitPos, CP!BitPos, C!Value, CP!Value,
      C!emit_compare_regs, CP!emit_compare_regs
<1>13. \A g, r, name : C!emit_identifier(g, r, name) = CP!emit_identifier(g, r, name)
  <2>1. \A t : C!qualifier_value_type(t) = CP!qualifier_value_type(t)
    BY DEF C!qualifier_value_type, CP!qualifier_value_type
  <2>2. \A t : C!SignFlag(t) = CP!SignFlag(t)
    BY DEF C!SignFlag, CP!SignFlag
  <2>3. \A reg, t : C!Value(reg, t) = CP!Value(reg, t)
    BY DEF C!Value, CP!Value
  <2>4. TAKE g, r, name
  <2>5. CASE name \notin DOMAIN r
    BY <1>1, <2>3, <2>5 DEF C!emit_identifier, CP!emit_identifier
  <2>6. CASE name \in DOMAIN r
    <3>1. CASE C!qualifier_value_type(r[name].type) = "Ipv6"
      BY <1>1, <2>1, <2>3, <2>6, <3>1 DEF C!emit_identifier, CP!emit_identifier
    <3>2. CASE C!qualifier_value_type(r[name].type) # "Ipv6"
      BY <1>9, <2>1, <2>2, <2>3, <2>6, <3>2, Zenon DEF C!emit_identifier, CP!emit_identifier
    <3>3. QED BY <3>1, <3>2
  <2>7. QED BY <2>5, <2>6
<1>14. \A g, r, e : C!emit_ipv6_value(g, r, e) = CP!emit_ipv6_value(g, r, e)
  <2>1. \A o : C!LowHalf(o) = CP!LowHalf(o)
    BY DEF C!LowHalf, CP!LowHalf
  <2>2. \A g, a : C!emit_ipv6_literal(g, a) = CP!emit_ipv6_literal(g, a)
    BY <1>1, <1>8 DEF C!emit_ipv6_literal, CP!emit_ipv6_literal
  <2>3. \A g, r, n : C!emit_ipv6_identifier(g, r, n) = CP!emit_ipv6_identifier(g, r, n)
    <3>1. TAKE g, r, n
    <3>2. CASE n \notin DOMAIN r
      BY <1>1, <3>2, Zenon DEF C!emit_ipv6_identifier, CP!emit_ipv6_identifier
    <3>3. CASE n \in DOMAIN r /\ r[n].type # "ipv6"
      BY <1>1, <3>3 DEF C!emit_ipv6_identifier, CP!emit_ipv6_identifier
    <3>4. CASE n \in DOMAIN r /\ r[n].type = "ipv6"
      BY <1>9, <2>1, <3>4 DEF C!emit_ipv6_identifier, CP!emit_ipv6_identifier
    <3>5. QED BY <3>2, <3>3, <3>4
  <2>4. QED BY <1>1, <2>2, <2>3 DEF C!emit_ipv6_value, CP!emit_ipv6_value
<1>15. \A g, r, op, lhs_expr, rhs_expr :
         C!emit_ipv6_compare(g, r, op, lhs_expr, rhs_expr)
           = CP!emit_ipv6_compare(g, r, op, lhs_expr, rhs_expr)
  <2>1. \A g, op, a, b : C!emit_compare_regs(g, op, a, b) = CP!emit_compare_regs(g, op, a, b)
    BY <1>10 DEF C!emit_compare_regs, CP!emit_compare_regs
  <2>2. \A g : C!ok(g) <=> CP!ok(g)
    BY DEF C!ok, CP!ok
  <2>3. \A reg, t : C!Value(reg, t) = CP!Value(reg, t)
    BY DEF C!Value, CP!Value
  <2>4. TAKE g, r, op, lhs_expr, rhs_expr
  <2> DEFINE lhs  == CP!emit_ipv6_value(g, r, lhs_expr)
        rhs  == CP!emit_ipv6_value(lhs.gen, r, rhs_expr)
        hi   == CP!emit_compare_regs(rhs.gen, "CmpEq", lhs.value[1], rhs.value[1])
        lo   == CP!emit_compare_regs(hi.gen, "CmpEq", lhs.value[2], rhs.value[2])
        both == CP!EmitInto(lo.gen, "And", hi.value.reg, lo.value.reg, "Bool")
        Result ==
         CASE ~CP!ok(rhs.gen)                 -> [gen |-> rhs.gen, value |-> CP!Value(0, "Bool")]
          [] CP!ok(rhs.gen) /\ ~CP!ok(lo.gen)   -> [gen |-> lo.gen, value |-> CP!Value(0, "Bool")]
          [] CP!ok(rhs.gen) /\ CP!ok(lo.gen) /\ op = "CmpEq" -> both
          [] OTHER                        -> CP!EmitNegation(both.gen, both.value.reg)
  <2>5. CP!emit_ipv6_compare(g, r, op, lhs_expr, rhs_expr) = Result
    BY Zenon DEF CP!emit_ipv6_compare
  <2> DEFINE lhs1  == C!emit_ipv6_value(g, r, lhs_expr)
        rhs1  == C!emit_ipv6_value(lhs1.gen, r, rhs_expr)
        hi1   == C!emit_compare_regs(rhs1.gen, "CmpEq", lhs1.value[1], rhs1.value[1])
        lo1   == C!emit_compare_regs(hi1.gen, "CmpEq", lhs1.value[2], rhs1.value[2])
        both1 == C!EmitInto(lo1.gen, "And", hi1.value.reg, lo1.value.reg, "Bool")
        Result1 ==
         CASE ~C!ok(rhs1.gen)                 -> [gen |-> rhs1.gen, value |-> C!Value(0, "Bool")]
          [] C!ok(rhs1.gen) /\ ~C!ok(lo1.gen)   -> [gen |-> lo1.gen, value |-> C!Value(0, "Bool")]
          [] C!ok(rhs1.gen) /\ C!ok(lo1.gen) /\ op = "CmpEq" -> both1
          [] OTHER                        -> C!EmitNegation(both1.gen, both1.value.reg)
  <2>6. C!emit_ipv6_compare(g, r, op, lhs_expr, rhs_expr) = Result1
    BY Zenon DEF C!emit_ipv6_compare
  <2>7. lhs1 = lhs /\ rhs1 = rhs /\ hi1 = hi /\ lo1 = lo /\ both1 = both
    BY <1>10, <1>14, <2>1
  <2> HIDE DEF lhs, rhs, hi, lo, both, lhs1, rhs1, hi1, lo1, both1
  <2>8. Result1 = Result
    BY <1>11, <2>2, <2>3, <2>7
  <2>9. QED BY <2>5, <2>6, <2>8
<1>16. QED
  BY <1>1, <1>2, <1>3, <1>4, <1>5, <1>6, <1>7, <1>8, <1>9, <1>10, <1>11, <1>12, <1>13, <1>14,
    <1>15

\* So are the steps of the compiler.
LEMMA SameActions == C!Next <=> CP!Next
<1>1. C!EmitIdentifier <=> CP!EmitIdentifier
  BY SamePrimitives DEF C!EmitIdentifier, CP!EmitIdentifier, C!Emitted, CP!Emitted, C!Answer,
      CP!Answer, C!Entering, CP!Entering
<1>2. C!EmitLiteral <=> CP!EmitLiteral
  BY SamePrimitives DEF C!EmitLiteral, CP!EmitLiteral, C!BoolWord, CP!BoolWord, C!BitPos,
      CP!BitPos, C!BytePos, CP!BytePos, C!Emitted, CP!Emitted, C!Answer, CP!Answer, C!Entering,
      CP!Entering
<1>3. C!EmitIpv4 <=> CP!EmitIpv4
  BY SamePrimitives DEF C!EmitIpv4, CP!EmitIpv4, C!Value, CP!Value, C!Answer, CP!Answer,
      C!Emitted, CP!Emitted, C!Entering, CP!Entering
<1>4. C!MisplacedIpv6 <=> CP!MisplacedIpv6
  BY SamePrimitives DEF C!MisplacedIpv6, CP!MisplacedIpv6, C!Value, CP!Value, C!Answer,
      CP!Answer, C!Entering, CP!Entering
<1>5. C!EnterOperator <=> CP!EnterOperator
  BY DEF C!EnterOperator, CP!EnterOperator, C!Logical, CP!Logical, C!Bitwise, CP!Bitwise,
        C!Frame, CP!Frame, C!NoValue, CP!NoValue, C!Value, CP!Value, C!Call, CP!Call,
        C!Entering, CP!Entering
<1>6. C!EnterCompare <=> CP!EnterCompare
  BY SamePrimitives DEF C!EnterCompare, CP!EnterCompare, C!ok, CP!ok, C!Comparing, CP!Comparing,
      C!CompareOp, CP!CompareOp, C!Frame, CP!Frame, C!NoValue, CP!NoValue, C!Value, CP!Value,
      C!Call, CP!Call, C!Answer, CP!Answer, C!Emitted, CP!Emitted, C!Entering, CP!Entering,
      C!resolve_expr_type, CP!resolve_expr_type, C!qualifier_value_type,
      CP!qualifier_value_type, C!Bitwise, CP!Bitwise, C!Unresolved, CP!Unresolved
<1>7. C!NotOperand <=> CP!NotOperand
  BY SamePrimitives DEF C!NotOperand, CP!NotOperand, C!ok, CP!ok, C!NoValue, CP!NoValue,
      C!Value, CP!Value, C!Rest, CP!Rest, C!Answer, CP!Answer, C!Returning, CP!Returning, C!Top,
      CP!Top
<1>8. C!LogicalLhs <=> CP!LogicalLhs
  BY SamePrimitives DEF C!LogicalLhs, CP!LogicalLhs, C!BoolWord, CP!BoolWord, C!BitPos,
      CP!BitPos, C!BytePos, CP!BytePos, C!ok, CP!ok, C!EmitIp, CP!EmitIp, C!Logical, CP!Logical,
      C!Frame, CP!Frame, C!NoValue, CP!NoValue, C!Value, CP!Value, C!Top, CP!Top, C!Rest,
      CP!Rest, C!Call, CP!Call, C!Answer, CP!Answer, C!Returning, CP!Returning
<1>9. C!AndRhs <=> CP!AndRhs
  BY SamePrimitives DEF C!AndRhs, CP!AndRhs, C!BoolWord, CP!BoolWord, C!BitPos, CP!BitPos,
      C!BytePos, CP!BytePos, C!Value, CP!Value, C!ok, CP!ok, C!EmitIp, CP!EmitIp, C!NoValue,
      CP!NoValue, C!Top, CP!Top, C!Rest, CP!Rest, C!Answer, CP!Answer, C!Returning,
      CP!Returning, C!MoveRhs, CP!MoveRhs
<1>10. C!OrRhs <=> CP!OrRhs
  BY SamePrimitives DEF C!OrRhs, CP!OrRhs, C!Value, CP!Value, C!ok, CP!ok, C!NoValue,
      CP!NoValue, C!Top, CP!Top, C!Rest, CP!Rest, C!Answer, CP!Answer, C!Returning,
      CP!Returning, C!MoveRhs, CP!MoveRhs
<1>11. C!BinaryLhs <=> CP!BinaryLhs
  BY DEF C!BinaryLhs, CP!BinaryLhs, C!Comparing, CP!Comparing, C!Bitwise, CP!Bitwise, C!Frame,
        CP!Frame, C!Top, CP!Top, C!Rest, CP!Rest, C!Call, CP!Call, C!Returning, CP!Returning
<1>12. C!CompareRhs <=> CP!CompareRhs
  BY SamePrimitives DEF C!CompareRhs, CP!CompareRhs, C!ok, CP!ok, C!emit_compare_regs,
      CP!emit_compare_regs, C!Comparing, CP!Comparing, C!CompareOp, CP!CompareOp, C!NoValue,
      CP!NoValue, C!Value, CP!Value, C!Top, CP!Top, C!Rest, CP!Rest, C!Answer, CP!Answer,
      C!Returning, CP!Returning
<1>13. C!BitwiseRhs <=> CP!BitwiseRhs
  BY SamePrimitives DEF C!BitwiseRhs, CP!BitwiseRhs, C!Value, CP!Value, C!ok, CP!ok, C!Bitwise,
      CP!Bitwise, C!BitOp, CP!BitOp, C!Top, CP!Top, C!Rest, CP!Rest, C!Answer, CP!Answer,
      C!Returning, CP!Returning
<1>14. C!Finish <=> CP!Finish
  BY SamePrimitives DEF C!Finish, CP!Finish, C!ok, CP!ok, C!StatusOf, CP!StatusOf
<1>15. C!Terminating <=> CP!Terminating
  BY DEF C!Terminating, CP!Terminating, C!cvars, CP!cvars
<1>16. QED
  BY <1>1, <1>2, <1>3, <1>4, <1>5, <1>6, <1>7, <1>8, <1>9, <1>10, <1>11, <1>12, <1>13, <1>14, <1>15 DEF
      C!Next, CP!Next

\* So are its initial states, its variables and its output.
LEMMA SameStates ==
  /\ C!Init <=> CP!Init
  /\ C!cvars = CP!cvars
  /\ C!Output = CP!Output
  /\ C!Starts = CP!Starts
<1>1. C!Init <=> CP!Init
  <2>1. C!NewGen = CP!NewGen /\ C!NoValue = CP!NoValue
    BY DEF C!NewGen, CP!NewGen, C!NoValue, CP!NoValue, C!Value, CP!Value
  <2>2. QED
    BY <2>1 DEF C!Init, CP!Init
<1>2. C!cvars = CP!cvars
  BY DEF C!cvars, CP!cvars
<1>3. C!Output = CP!Output
  BY DEF C!Output, CP!Output
<1>4. C!Starts = CP!Starts
  BY <1>3 DEF C!Starts, CP!Starts, C!Invalid, CP!Invalid
<1>5. QED
  BY <1>1, <1>2, <1>3, <1>4

\* The machine makes the checks the compiler's theorem is about.
LEMMA SameChecks ==
  /\ \A p : CP!HeaderOk(p) <=> V!HeaderOk(p)
  /\ \A p, i : CP!InstructionOk(p, i) <=> V!InstructionOk(p, i)
  /\ \A ins : CP!InstructionWidth(ins) = V!InstructionWidth(ins)
  /\ \A p, i : CP!Unloadable(p, i) <=> C!Unloadable(p, i)
  /\ CP!JumpOps = V!JumpOps
<1>1. \A p : CP!HeaderOk(p) <=> V!HeaderOk(p)
  BY DEF CP!HeaderOk, V!HeaderOk
<1>2. \A p, i : CP!InstructionOk(p, i) <=> V!InstructionOk(p, i)
  <2>1. \A ins : CP!RegisterOperands(ins) = V!RegisterOperands(ins)
    BY DEF CP!RegisterOperands, V!RegisterOperands, CP!CmpOps, V!CmpOps
  <2>2. CP!OpCode = V!OpCode
    BY DEF CP!OpCode, V!OpCode, CP!CmpOps, V!CmpOps, CP!JumpOps, V!JumpOps
  <2>3. QED
    BY <2>1, <2>2 DEF CP!InstructionOk, V!InstructionOk, CP!JumpOps, V!JumpOps
<1>3. \A ins : CP!InstructionWidth(ins) = V!InstructionWidth(ins)
  BY DEF CP!InstructionWidth, V!InstructionWidth
<1>4. \A p, i : CP!Unloadable(p, i) <=> C!Unloadable(p, i)
  BY DEF CP!Unloadable, C!Unloadable
<1>5. CP!JumpOps = V!JumpOps
  BY DEF CP!JumpOps, V!JumpOps
<1>6. QED
  BY <1>1, <1>2, <1>3, <1>4, <1>5

-----------------------------------------------------------------------------
(* What the compiler's theorems assume of their constants. *)

LEMMA CompilerAssumptions ==
  CP!BytecodeAssumption /\ CP!ExprAssumption /\ CP!TreeAssumption /\ CP!RootsAssumption
<1>1. CP!BytecodeAssumption
  BY BytecodeAssumption DEF CP!BytecodeAssumption
<1>2. CP!ExprAssumption
  BY ExprAssumption
  DEF CP!ExprAssumption, CP!Leaves, CP!Binary, CP!Logical, CP!Comparing, CP!Bitwise, CP!Word,
      CP!BytePos, CP!Byte, CP!BitPos, CP!Bit, CP!U8, Leaves, Binary, Logical, Comparing,
      Bitwise, Word, BytePos, Byte, BitPos, Bit, U8
<1>3. CP!TreeAssumption
  <2>1. CP!Height = Height /\ \A x : CP!Children(x) = Children(x)
    BY DEF CP!Height, Height, CP!Children, Children, CP!Binary, Binary, CP!Logical, Logical,
           CP!Comparing, Comparing, CP!Bitwise, Bitwise, CP!Max, Max
  <2>2. QED
    BY <2>1, TreeAssumption DEF CP!TreeAssumption
<1>4. CP!RootsAssumption
  BY EngineAssumption DEF CP!RootsAssumption
<1>5. QED
  BY <1>1, <1>2, <1>3, <1>4

-----------------------------------------------------------------------------
(* What the machine relies on. *)

\* The slots of p that are instructions, and its end.
Begins(p) == {i \in 0 .. p.count - 1 : p.instructions[i].op # "invalid"} \cup {p.count}

\* The instruction at i leads to instructions, and not past the last one
\* unless it is that.
Leads(p, i) ==
  LET ins == p.instructions[i]
  IN  /\ i + V!InstructionWidth(ins) \in Begins(p)
      /\ ins.op # "Ret" => i + V!InstructionWidth(ins) < p.count
      /\ ins.op = "LoadImm" => i + 1 \notin Begins(p)
      /\ ins.op \in V!JumpOps => ins.aux \in Begins(p) /\ ins.aux > i /\ ins.aux < p.count

Sound(p) ==
  /\ V!HeaderOk(p)
  /\ p.count \in Nat
  /\ 0 \in Begins(p)
  /\ \A i \in Begins(p) : i < p.count =>
       /\ Leads(p, i)
       /\ V!InstructionOk(p, i) \/ C!Unloadable(p, i)

\* No instruction of p loads a field of no type.
AllLoadable(p) == \A i \in 0 .. p.count - 1 : ~C!Unloadable(p, i)

\* What a successful compilation puts out is sound.
LEMMA CompiledIsSound ==
  ASSUME CP!CompiledSound, compile_status = "OK"
  PROVE  Sound(C!Output)
<1> DEFINE p == C!Output
<1>1. p.count \in Nat
  BY DEF C!Output
<1>2. Begins(p) = CP!Starts
  BY SameStates DEF Begins, CP!Starts, CP!Invalid
<1>3. /\ CP!HeaderOk(p)
      /\ CP!Closed(p, CP!Starts)
      /\ \A i \in CP!Starts \ {p.count} :
           /\ CP!InstructionOk(p, i) \/ CP!Unloadable(p, i)
           /\ p.instructions[i].op = "LoadImm" => i + 1 \notin CP!Starts
           /\ p.instructions[i].op \in CP!JumpOps =>
                /\ p.instructions[i].aux \in CP!Starts
                /\ p.instructions[i].aux > i
                /\ p.instructions[i].aux < p.count
      /\ p.instructions[p.count - 1].op = "Ret"
  BY SameStates, Zenon DEF CP!CompiledSound
<1> HIDE DEF p
<1>4. V!HeaderOk(p) /\ p.count # 0
  BY <1>3, SameChecks DEF CP!HeaderOk
<1>5. /\ 0 \in Begins(p)
      /\ \A i \in Begins(p) : i < p.count => i + V!InstructionWidth(p.instructions[i]) \in Begins(p)
  BY <1>2, <1>3, SameChecks DEF CP!Closed
<1>6. ASSUME NEW i \in Begins(p), i < p.count
      PROVE  /\ Leads(p, i)
             /\ V!InstructionOk(p, i) \/ C!Unloadable(p, i)
  <2>1. /\ i \in CP!Starts \ {p.count}
        /\ i \in 0 .. p.count - 1
    BY <1>1, <1>2, <1>6 DEF Begins
  <2>2. V!InstructionOk(p, i) \/ C!Unloadable(p, i)
    BY <1>3, <2>1, SameChecks
  <2>3. p.instructions[i].op = "LoadImm" => i + 1 \notin Begins(p)
    BY <1>2, <1>3, <2>1
  <2>4. p.instructions[i].op \in V!JumpOps =>
          /\ p.instructions[i].aux \in Begins(p)
          /\ p.instructions[i].aux > i
          /\ p.instructions[i].aux < p.count
    BY <1>2, <1>3, <2>1, SameChecks
  <2>5. ASSUME p.instructions[i].op # "Ret"
        PROVE  i + V!InstructionWidth(p.instructions[i]) < p.count
    <3>1. p.count - 1 \in Begins(p)
      BY <1>1, <1>3, <1>4 DEF Begins
    <3>2. i # p.count - 1
      BY <1>3, <2>5
    <3>3. CASE p.instructions[i].op = "LoadImm"
      BY <1>1, <2>1, <2>3, <3>1, <3>2, <3>3 DEF V!InstructionWidth
    <3>4. CASE p.instructions[i].op # "LoadImm"
      BY <1>1, <2>1, <3>2, <3>4 DEF V!InstructionWidth
    <3>5. QED
      BY <3>3, <3>4
  <2>6. QED
    BY <1>5, <1>6, <2>2, <2>3, <2>4, <2>5 DEF Leads
<1>7. Sound(p)
  BY <1>1, <1>4, <1>5, <1>6 DEF Sound
<1>8. QED
  BY <1>7 DEF p

-----------------------------------------------------------------------------
(* The inductive invariant. *)

\* A call works on the output of a compilation that has returned, and skips
\* the verifier only after it has accepted that output.
CallInv ==
  /\ phase \in {"idle", "call", "scan", "execute", "done"}
  /\ compile_status # "none" => mode = "done"
  /\ verified => phase # "idle"
  /\ phase # "idle" =>
       /\ compile_status = "OK"
       /\ program = C!Output
       /\ Sound(program)
       /\ ctx # NoContext
       /\ run_verify \/ verified
       /\ verified => AllLoadable(program)

\* The scan is at an instruction or at the end, and has checked every
\* instruction before it and marked it as a start.
ScanInv ==
  /\ phase = "call" => scan = 0 /\ jump_targets = {} /\ pc = 0
  /\ phase = "scan" =>
       /\ scan \in Begins(program)
       /\ \A i \in Begins(program) :
            i < scan => i \in instruction_starts /\ V!InstructionOk(program, i)
       /\ \A t \in jump_targets : t \in Begins(program) /\ t < program.count
       /\ pc = 0

\* The interpreter is at an instruction.
ExecuteInv ==
  phase = "execute" =>
    /\ AllLoadable(program)
    /\ pc \in Begins(program)
    /\ pc < program.count

IInv == CallInv /\ ScanInv /\ ExecuteInv /\ CompiledNeverFails

-----------------------------------------------------------------------------
LEMMA InitKeeps == Init => IInv
BY DEF Init, IInv, CallInv, ScanInv, ExecuteInv, CompiledNeverFails, C!Init

\* A step of the compiler after it has returned changes nothing, and no other
\* step returns a status without ending the compilation.
LEMMA CompilerStops ==
  ASSUME C!Next
  PROVE  /\ mode = "done" => UNCHANGED compiler
         /\ mode # "done" => compile_status' = compile_status \/ mode' = "done"
<1>1. C!Terminating => UNCHANGED compiler
  BY DEF C!Terminating, C!cvars, compiler
<1>2. C!Finish => mode # "done" /\ mode' = "done"
  BY DEF C!Finish
<1>3. \/ C!EmitIdentifier \/ C!EmitLiteral \/ C!EmitIpv4 \/ C!MisplacedIpv6
      \/ C!EnterOperator \/ C!EnterCompare
      => mode # "done" /\ compile_status' = compile_status
  BY DEF C!EmitIdentifier, C!EmitLiteral, C!EmitIpv4, C!MisplacedIpv6, C!EnterOperator,
         C!EnterCompare, C!Entering, C!Emitted, C!Answer, C!Call
<1>4. \/ C!NotOperand \/ C!LogicalLhs \/ C!AndRhs \/ C!OrRhs
      \/ C!BinaryLhs \/ C!CompareRhs \/ C!BitwiseRhs
      => mode # "done" /\ compile_status' = compile_status
  BY DEF C!NotOperand, C!LogicalLhs, C!AndRhs, C!OrRhs, C!BinaryLhs, C!CompareRhs,
         C!BitwiseRhs, C!Returning, C!Answer, C!Call
<1>5. C!Terminating => mode = "done"
  BY DEF C!Terminating
<1>6. QED
  BY <1>1, <1>2, <1>3, <1>4, <1>5 DEF C!Next

LEMMA CompileKeeps == IInv /\ Compile => IInv'
<1> SUFFICES ASSUME IInv, Compile PROVE IInv'
  OBVIOUS
<1>1. C!Next /\ UNCHANGED <<options, machine, verified, calls>>
  BY DEF Compile
<1> USE DEF machine
<1>2. CASE mode = "done"
  <2>1. UNCHANGED compiler
    BY <1>1, <1>2, CompilerStops
  <2>2. C!Output' = C!Output
    BY <2>1 DEF C!Output, compiler
  <2>3. Sound(program)' = Sound(program) /\ AllLoadable(program)' = AllLoadable(program)
    BY <1>1 DEF Sound, Begins, Leads, AllLoadable
  <2>4. CallInv'
    BY <1>1, <2>1, <2>2, <2>3 DEF IInv, CallInv, compiler
  <2>5. ScanInv' /\ ExecuteInv' /\ CompiledNeverFails'
    BY <1>1 DEF IInv, ScanInv, ExecuteInv, CompiledNeverFails, Begins, AllLoadable
  <2>6. QED
    BY <2>4, <2>5 DEF IInv
<1>3. CASE mode # "done"
  <2>1. compile_status = "none" /\ phase = "idle" /\ ~verified
    BY <1>3 DEF IInv, CallInv
  <2>2. phase' = "idle" /\ ~verified'
    BY <1>1, <2>1
  <2>3. compile_status' # "none" => mode' = "done"
    BY <1>1, <1>3, <2>1, CompilerStops
  <2>4. QED
    BY <2>2, <2>3 DEF IInv, CallInv, ScanInv, ExecuteInv, CompiledNeverFails
<1>4. QED
  BY <1>2, <1>3

LEMMA CallKeeps == CP!CompiledSound /\ IInv /\ Call => IInv'
<1> SUFFICES ASSUME CP!CompiledSound, IInv, Call PROVE IInv'
  OBVIOUS
<1>1. /\ compile_status = "OK"
      /\ compile_status' = "OK"
      /\ mode' = mode
      /\ program' = C!Output
      /\ ctx' # NoContext
      /\ run_verify' = ~verified
      /\ verified' = verified
      /\ phase' = "call"
      /\ scan' = 0 /\ jump_targets' = {} /\ pc' = 0
  BY EngineAssumption DEF Call, compiler
<1>2. C!Output' = C!Output
  BY DEF Call, C!Output, compiler
<1>3. Sound(program')
  BY <1>1, CompiledIsSound
<1>4. verified => AllLoadable(program')
  BY <1>1 DEF IInv, CallInv
<1>5. CallInv'
  <2>1. Sound(program)' = Sound(program') /\ AllLoadable(program)' = AllLoadable(program')
    BY DEF Sound, Begins, Leads, AllLoadable
  <2>2. QED
    BY <1>1, <1>2, <1>3, <1>4, <2>1 DEF IInv, CallInv
<1>6. QED
  BY <1>1, <1>5 DEF IInv, ScanInv, ExecuteInv, CompiledNeverFails

-----------------------------------------------------------------------------
(* The running call. *)

\* What a step of the running call does not touch, and when it may record the
\* verifier's verdict.
LEMMA ProgramStays ==
  ASSUME CallInv, UNCHANGED <<compiler, program, ctx, run_verify>>,
         phase # "idle", phase' \in {"scan", "execute", "done"},
         verified => verified', verified' => verified \/ AllLoadable(program)
  PROVE  CallInv'
<1>1. C!Output' = C!Output
  BY DEF C!Output, compiler
<1>2. Sound(program)' = Sound(program) /\ AllLoadable(program)' = AllLoadable(program)
  BY DEF Sound, Begins, Leads, AllLoadable
<1>3. QED
  BY <1>1, <1>2 DEF CallInv, compiler

LEMMA BeginKeeps ==
  ASSUME IInv, V!Begin, UNCHANGED compiler,
         verified' = (verified \/ (phase = "scan" /\ phase' = "execute"))
  PROVE  IInv'
<1> USE DEF V!inputs, V!scanner, V!machine
<1>1. phase = "call"
  BY DEF V!Begin, V!RejectArguments, V!SkipVerify, V!BeginVerify
<1>2. /\ Sound(program) /\ ctx # NoContext
      /\ run_verify \/ verified
      /\ verified => AllLoadable(program)
      /\ scan = 0 /\ jump_targets = {} /\ pc = 0
  BY <1>1 DEF IInv, CallInv, ScanInv
<1>3. /\ UNCHANGED <<program, ctx, run_verify, scan, jump_targets, pc>>
      /\ verified' <=> verified
  BY <1>1 DEF V!Begin, V!RejectArguments, V!SkipVerify, V!BeginVerify
<1>4. V!HeaderOk(program) /\ program.count \in Nat /\ 0 \in Begins(program) /\ 0 < program.count
  BY <1>2 DEF Sound, V!HeaderOk
<1>5. Begins(program)' = Begins(program) /\ AllLoadable(program)' = AllLoadable(program)
  BY <1>3 DEF Begins, AllLoadable
<1>6. CASE V!SkipVerify
  <2>1. phase' = "execute" /\ AllLoadable(program)
    BY <1>2, <1>6 DEF V!SkipVerify
  <2>2. CallInv'
    BY <1>1, <1>3, <2>1, ProgramStays DEF IInv
  <2>3. ExecuteInv'
    BY <1>2, <1>3, <1>4, <1>5, <2>1 DEF ExecuteInv
  <2>4. QED
    BY <2>1, <2>2, <2>3 DEF IInv, ScanInv, CompiledNeverFails
<1>7. CASE V!BeginVerify
  <2>1. phase' = "scan"
    BY <1>4, <1>7 DEF V!BeginVerify
  <2>2. CallInv'
    BY <1>1, <1>3, <2>1, ProgramStays DEF IInv
  <2>3. \A i \in Begins(program) : ~(i < 0)
    BY <1>4 DEF Begins
  <2>4. ScanInv'
    BY <1>2, <1>3, <1>4, <1>5, <2>1, <2>3 DEF ScanInv
  <2>5. QED
    BY <2>1, <2>2, <2>4 DEF IInv, ExecuteInv, CompiledNeverFails
<1>8. QED
  BY <1>2, <1>6, <1>7 DEF V!Begin, V!RejectArguments

LEMMA VerifyKeeps ==
  ASSUME IInv, V!Verify, UNCHANGED compiler,
         verified' = (verified \/ (phase = "scan" /\ phase' = "execute"))
  PROVE  IInv'
<1> USE DEF V!inputs, V!scanner, V!machine
<1>1. phase = "scan"
  BY DEF V!Verify, V!VerifyInstruction, V!RejectInstruction, V!VerifyTargets
<1>2. /\ Sound(program)
      /\ scan \in Begins(program)
      /\ \A i \in Begins(program) :
           i < scan => i \in instruction_starts /\ V!InstructionOk(program, i)
      /\ \A t \in jump_targets : t \in Begins(program) /\ t < program.count
      /\ pc = 0
  BY <1>1 DEF IInv, CallInv, ScanInv
<1>3. UNCHANGED <<program, ctx, run_verify, pc>>
  BY DEF V!Verify, V!VerifyInstruction, V!RejectInstruction, V!VerifyTargets
<1>4. /\ program.count \in Nat /\ 0 \in Begins(program) /\ 0 < program.count
      /\ Begins(program) \subseteq 0 .. program.count
  BY <1>2 DEF Sound, V!HeaderOk, Begins
<1>5. Begins(program)' = Begins(program) /\ AllLoadable(program)' = AllLoadable(program)
  BY <1>3 DEF Begins, AllLoadable
<1>6. CASE V!VerifyInstruction
  <2> DEFINE ins == program.instructions[scan]
             next == scan + V!InstructionWidth(ins)
  <2>1. /\ phase' = "scan" /\ scan < program.count /\ V!InstructionOk(program, scan)
        /\ instruction_starts' = instruction_starts \cup {scan}
        /\ jump_targets' = IF ins.op \in V!JumpOps THEN jump_targets \cup {ins.aux}
                                                   ELSE jump_targets
        /\ scan' = next
    BY <1>1, <1>6 DEF V!VerifyInstruction
  <2>2. Leads(program, scan)
    BY <1>2, <2>1 DEF Sound
  <2>3. CallInv'
    BY <1>1, <1>3, <2>1, ProgramStays DEF IInv
  <2>4. next \in Begins(program)
    BY <2>2 DEF Leads
  <2>5. ASSUME NEW i \in Begins(program), i < next
        PROVE  i \in instruction_starts' /\ V!InstructionOk(program, i)
    <3>1. CASE i < scan
      BY <1>2, <2>1, <3>1
    <3>2. CASE i = scan
      BY <2>1, <3>2
    <3>3. CASE i > scan
      <4>1. i = scan + 1 /\ ins.op = "LoadImm"
        BY <1>2, <1>4, <2>5, <3>3 DEF V!InstructionWidth
      <4>2. QED
        BY <2>2, <2>5, <4>1 DEF Leads
    <3>4. QED
      BY <1>2, <1>4, <3>1, <3>2, <3>3
  <2>6. \A t \in jump_targets' : t \in Begins(program) /\ t < program.count
    BY <1>2, <2>1, <2>2 DEF Leads
  <2>7. ScanInv'
    <3>1. \A i : V!InstructionOk(program', i) <=> V!InstructionOk(program, i)
      BY <1>3
    <3>2. QED
      BY <1>2, <1>3, <1>5, <2>1, <2>4, <2>5, <2>6, <3>1 DEF ScanInv
  <2>8. QED
    BY <2>1, <2>3, <2>7 DEF IInv, ExecuteInv, CompiledNeverFails
<1>7. CASE V!RejectInstruction
  <2>1. /\ phase' = "done" /\ status' = "VERIFICATION"
        /\ scan < program.count /\ ~V!InstructionOk(program, scan)
    BY <1>7 DEF V!RejectInstruction, V!Return
  <2>2. C!Unloadable(program, scan) /\ scan \in 0 .. program.count - 1
    BY <1>2, <1>4, <2>1 DEF Sound
  <2>3. CallInv'
    BY <1>1, <1>3, <2>1, ProgramStays DEF IInv
  <2>4. CompiledNeverFails'
    BY <1>3, <2>1, <2>2 DEF CompiledNeverFails, C!Unloadable
  <2>5. QED
    BY <2>1, <2>3, <2>4 DEF IInv, ScanInv, ExecuteInv
<1>8. CASE V!VerifyTargets
  <2>1. scan >= program.count /\ instruction_starts' = instruction_starts \cup {program.count}
    BY <1>8 DEF V!VerifyTargets
  <2>2. scan = program.count
    BY <1>2, <1>4, <2>1
  <2>3. jump_targets \subseteq instruction_starts'
    BY <1>2, <2>1, <2>2
  <2>4. phase' = "execute"
    BY <1>8, <2>3 DEF V!VerifyTargets
  <2>5. AllLoadable(program)
    <3>1. SUFFICES ASSUME NEW i \in 0 .. program.count - 1, C!Unloadable(program, i)
                   PROVE  FALSE
      BY DEF AllLoadable
    <3>2. program.instructions[i].op = "LoadField"
      BY <3>1 DEF C!Unloadable
    <3>3. i \in Begins(program) /\ i < scan
      BY <1>4, <2>2, <3>2 DEF Begins
    <3>4. V!InstructionOk(program, i)
      BY <1>2, <3>3
    <3>5. QED
      BY <3>1, <3>4 DEF V!InstructionOk, C!Unloadable
  <2>6. CallInv'
    BY <1>1, <1>3, <2>4, <2>5, ProgramStays DEF IInv
  <2>7. ExecuteInv'
    BY <1>2, <1>3, <1>4, <1>5, <2>5 DEF ExecuteInv
  <2>8. QED
    BY <2>4, <2>6, <2>7 DEF IInv, ScanInv, CompiledNeverFails
<1>9. QED
  BY <1>6, <1>7, <1>8 DEF V!Verify

\* An interpreted instruction that does not return leads to a later one.
LEMMA ControlMoves ==
  ASSUME IInv, phase = "execute", V!Execute
  PROVE  \/ phase' = "done" /\ status' = "OK"
         \/ /\ phase' = "execute" /\ pc' > pc
            /\ pc' \in Begins(program) /\ pc' < program.count
<1> USE DEF V!inputs, V!scanner, V!machine
<1> DEFINE ins == program.instructions[pc]
<1>1. /\ Sound(program) /\ AllLoadable(program)
      /\ pc \in Begins(program) /\ pc < program.count
  BY DEF IInv, CallInv, ExecuteInv
<1>2. program.count \in Nat /\ pc \in 0 .. program.count - 1
  BY <1>1 DEF Sound, Begins
<1>3. V!InstructionOk(program, pc) /\ Leads(program, pc)
  BY <1>1, <1>2 DEF Sound, AllLoadable
<1>4. ~V!RuntimeFault /\ ~V!TerminatedWithoutRet
  BY <1>2, <1>3 DEF V!RuntimeFault, V!TerminatedWithoutRet
<1>5. CASE V!Ret
  BY <1>5 DEF V!Ret, V!Return
<1>6. CASE V!LoadImm
  <2>1. ins.op = "LoadImm" /\ pc' = pc + 2 /\ phase' = phase
    BY <1>6 DEF V!LoadImm, V!At, V!Write
  <2>2. V!InstructionWidth(ins) = 2
    BY <2>1 DEF V!InstructionWidth
  <2>3. QED
    BY <1>2, <1>3, <2>1, <2>2 DEF Leads
<1>7. CASE \/ V!LoadField \/ V!Move \/ V!Compare \/ V!Not \/ V!And \/ V!Or
  <2>1. /\ ins.op \in {"LoadField", "Move", "Not", "And", "Or"} \cup V!CmpOps
        /\ pc' = pc + 1 /\ phase' = phase
    BY <1>7 DEF V!LoadField, V!Move, V!Compare, V!Not, V!And, V!Or, V!At, V!Write
  <2>2. ins.op \notin {"LoadImm", "Ret"}
    BY <2>1 DEF V!CmpOps
  <2>3. V!InstructionWidth(ins) = 1
    BY <2>2 DEF V!InstructionWidth
  <2>4. QED
    BY <1>2, <1>3, <2>1, <2>2, <2>3 DEF Leads
<1>8. CASE V!JumpIfFalse \/ V!Jump
  <2>1. /\ ins.op \in V!JumpOps /\ phase' = phase
        /\ pc' = ins.aux \/ (pc' = pc + 1 /\ ins.op = "JumpIfFalse")
    BY <1>8 DEF V!JumpIfFalse, V!Jump, V!At, V!Ins, V!JumpOps
  <2>2. CASE pc' = ins.aux
    BY <1>3, <2>1, <2>2 DEF Leads
  <2>3. CASE pc' = pc + 1 /\ ins.op = "JumpIfFalse"
    <3>1. V!InstructionWidth(ins) = 1
      BY <2>3 DEF V!InstructionWidth
    <3>2. QED
      BY <1>2, <1>3, <2>1, <2>3, <3>1 DEF Leads
  <2>4. QED
    BY <2>1, <2>2, <2>3
<1>9. QED
  BY <1>4, <1>5, <1>6, <1>7, <1>8 DEF V!Execute

LEMMA InterpretKeeps ==
  ASSUME IInv, V!Execute, UNCHANGED compiler,
         verified' = (verified \/ (phase = "scan" /\ phase' = "execute"))
  PROVE  IInv'
<1> USE DEF V!inputs, V!scanner, V!machine
<1>1. phase = "execute" /\ UNCHANGED <<program, ctx, run_verify>>
  BY DEF V!Execute, V!LoadField, V!LoadImm, V!Move, V!Compare, V!Not, V!And, V!Or,
         V!JumpIfFalse, V!Jump, V!Ret, V!RuntimeFault, V!TerminatedWithoutRet, V!At, V!Write
<1>2. AllLoadable(program)
  BY <1>1 DEF IInv, ExecuteInv
<1>3. phase' \in {"execute", "done"}
  BY <1>1, ControlMoves
<1>4. CallInv'
  BY <1>1, <1>3, ProgramStays DEF IInv
<1>5. CASE phase' = "done"
  <2>1. status' = "OK"
    BY <1>1, <1>5, ControlMoves
  <2>2. CompiledNeverFails'
    BY <1>1, <1>2, <2>1 DEF CompiledNeverFails, AllLoadable, C!Unloadable
  <2>3. QED
    BY <1>4, <1>5, <2>2 DEF IInv, ScanInv, ExecuteInv
<1>6. CASE phase' = "execute"
  <2>1. pc' \in Begins(program) /\ pc' < program.count
    BY <1>1, <1>6, ControlMoves
  <2>2. Begins(program)' = Begins(program) /\ AllLoadable(program)' = AllLoadable(program)
    BY <1>1 DEF Begins, AllLoadable
  <2>3. ExecuteInv'
    BY <1>1, <1>2, <2>1, <2>2 DEF ExecuteInv
  <2>4. QED
    BY <1>4, <1>6, <2>3 DEF IInv, ScanInv, CompiledNeverFails
<1>7. QED
  BY <1>3, <1>5, <1>6

LEMMA ExecuteKeeps == IInv /\ Execute => IInv'
<1> SUFFICES ASSUME IInv, Execute PROVE IInv'
  OBVIOUS
<1>1. /\ V!Next
      /\ UNCHANGED compiler
      /\ verified' = (verified \/ (phase = "scan" /\ phase' = "execute"))
  BY DEF Execute
<1>2. QED
  BY <1>1, BeginKeeps, VerifyKeeps, InterpretKeeps DEF V!Next

LEMMA StutterKeeps == IInv /\ UNCHANGED evars => IInv'
<1> SUFFICES ASSUME IInv, UNCHANGED evars PROVE IInv'
  OBVIOUS
<1> USE DEF evars, compiler, machine
<1>1. C!Output' = C!Output
  BY DEF C!Output
<1>2. /\ Sound(program)' = Sound(program)
      /\ Begins(program)' = Begins(program)
      /\ AllLoadable(program)' = AllLoadable(program)
  BY DEF Sound, Begins, Leads, AllLoadable
<1>3. CallInv' /\ ScanInv' /\ ExecuteInv' /\ CompiledNeverFails'
  BY <1>1, <1>2 DEF IInv, CallInv, ScanInv, ExecuteInv, CompiledNeverFails
<1>4. QED
  BY <1>3 DEF IInv

-----------------------------------------------------------------------------
(* The theorems. *)

\* The engine compiles as Compiler says: whatever the caller does with the
\* program, what CompilerProofs shows of it holds (compile_ast_to_program,
\* called by mbpf_compile_expression).
THEOREM EngineCompiles == Spec => []CP!CompiledSound
<1>1. Init => CP!Init
  BY SameStates DEF Init
<1>2. [Next]_evars => [CP!Next]_(CP!cvars)
  <2>1. Compile => CP!Next
    BY SameActions DEF Compile
  <2>2. Call \/ Execute \/ UNCHANGED evars => UNCHANGED CP!cvars
    BY DEF Call, Execute, evars, compiler, CP!cvars
  <2>3. QED
    BY <2>1, <2>2 DEF Next
<1>3. CP!Spec => []CP!CompiledSound
  BY CP!CompiledPrograms, CompilerAssumptions
<1>4. QED
  BY <1>1, <1>2, <1>3, PTL DEF Spec, CP!Spec

LEMMA Invariance == Spec => []IInv
<1>1. CP!CompiledSound /\ IInv /\ [Next]_evars => IInv'
  BY CompileKeeps, CallKeeps, ExecuteKeeps, StutterKeeps DEF Next
<1>2. QED
  BY <1>1, InitKeeps, EngineCompiles, PTL DEF Spec

\* However often a compiled program is executed, and on whatever contexts, the
\* call fails only in the verifier, and only for a program that loads a field
\* of no type of the API (mbpf_compile_expression, then mbpf_execute).
THEOREM ExecutionsSucceed == Spec => []CompiledNeverFails
<1>1. IInv => CompiledNeverFails
  BY DEF IInv
<1>2. QED
  BY <1>1, Invariance, PTL

\* The interpreter comes back to no instruction of a compiled program: each
\* step leads to a later one or returns (execute_program_impl).
THEOREM ExecutionsBounded == Spec => ControlGoesForward
<1>1. IInv /\ [Next]_evars => [phase = "execute" => pc' > pc \/ phase' = "done"]_evars
  <2> SUFFICES ASSUME IInv, Next, phase = "execute"
               PROVE  pc' > pc \/ phase' = "done" \/ UNCHANGED evars
    OBVIOUS
  <2>1. CASE Compile
    <3>1. mode = "done"
      BY DEF IInv, CallInv
    <3>2. QED
      BY <2>1, <3>1, CompilerStops DEF Compile, evars
  <2>2. CASE Call
    BY <2>2 DEF Call
  <2>3. CASE Execute
    <3>1. V!Execute
      BY <2>3 DEF Execute, V!Next, V!Begin, V!RejectArguments, V!SkipVerify, V!BeginVerify,
                  V!Verify, V!VerifyInstruction, V!RejectInstruction, V!VerifyTargets
    <3>2. QED
      BY <3>1, ControlMoves
  <2>4. QED
    BY <2>1, <2>2, <2>3 DEF Next
<1>2. QED
  BY <1>1, Invariance, PTL DEF Spec, ControlGoesForward
=============================================================================
