------------------------------ MODULE Compiler ------------------------------
(***************************************************************************)
(* compile_ast_to_program (src/codegen/compiler.cpp): one compilation of   *)
(* one expression against one registry.  emit_expr and the emitters that   *)
(* call it back are a machine with an explicit stack: a step enters a      *)
(* node, or returns a value to the emitter that waits for it.  A step is   *)
(* all the code between two calls of emit_expr.                            *)
(***************************************************************************)
EXTENDS Evaluator

CONSTANT Roots  \* the expressions that may be compiled

ASSUME RootsAssumption == Roots \subseteq Expr

CompareOp ==
  [Eq |-> "CmpEq", Ne |-> "CmpNe", Gt |-> "CmpGt", Lt |-> "CmpLt", Ge |-> "CmpGe", Le |-> "CmpLe"]
BitOp == [BitAnd |-> "And", BitOr |-> "Or"]

VARIABLES
  root,            \* the expression to compile
  registry,        \* the registry, constant during the call
  gen,             \* the generator's state
  mode,            \* "enter" node, "return" value, or "done"
  node,            \* the node emit_expr is called with
  value,           \* the EmitValue the last emitter returned
  stack,           \* the emitters that wait for an operand, innermost last
  register_count,  \* program_->register_count_, 0 until the call succeeds
  status           \* what the call returns, "none" before it does

cvars == <<root, registry, gen, mode, node, value, stack, register_count, status>>

\* An emitter waiting for an operand of expr: for its only one, for the left
\* one, or for the right one with what it has kept of the left one.
Frame(e, at, lhs, dst, ip) == [expr |-> e, at |-> at, lhs |-> lhs, dst |-> dst, ip |-> ip]
NoValue == Value(0, "Bool")

Top  == stack[Len(stack)]
Rest == SubSeq(stack, 1, Len(stack) - 1)

-----------------------------------------------------------------------------
Init ==
  /\ root \in Roots
  /\ registry \in Registries
  /\ gen = NewGen
  /\ mode = "enter"
  /\ node = root
  /\ value = NoValue
  /\ stack = <<>>
  /\ register_count = 0
  /\ status = "none"

\* emit_expr is called with e while frame waits.
Call(e, frames, g) ==
  /\ mode' = "enter"
  /\ node' = e
  /\ stack' = frames
  /\ gen' = g
  /\ UNCHANGED <<root, registry, value, register_count, status>>

\* The emitter that ran returns v.
Answer(g, v, frames) ==
  /\ mode' = "return"
  /\ value' = v
  /\ gen' = g
  /\ stack' = frames
  /\ UNCHANGED <<root, registry, node, register_count, status>>

Emitted(result) == Answer(result.gen, result.value, stack)

Entering(kinds) == mode = "enter" /\ node.kind \in kinds

-----------------------------------------------------------------------------
(* emit_expr on a leaf. *)

EmitIdentifier ==
  /\ Entering({"Identifier"})
  /\ Emitted(emit_identifier(gen, registry, node.ident))

EmitLiteral ==
  \/ /\ Entering({"Integer"})
     /\ Emitted(emit_immediate(gen, node.value, "Int"))
  \/ /\ Entering({"Boolean"})
     /\ Emitted(emit_immediate(gen, BoolWord(node.value), "Bool"))

EmitIpv4 ==
  /\ Entering({"Ipv4"})
  /\ IF node.value = Malformed
     THEN Answer(fail(gen, "bad literal"), Value(0, "Ipv4"), stack)
     ELSE Emitted(emit_immediate(gen, node.value, "Ipv4"))

\* Only a comparison can use an IPv6 literal, and it does not call emit_expr.
MisplacedIpv6 ==
  /\ Entering({"Ipv6"})
  /\ Answer(fail(gen, "type mismatch"), Value(0, "Ipv6"), stack)

-----------------------------------------------------------------------------
(* emit_expr on an operator. *)

EnterOperator ==
  \/ /\ Entering({"Not"})
     /\ Call(node.left, Append(stack, Frame(node, "operand", NoValue, 0, -1)), gen)
  \/ /\ Entering(Logical \cup Bitwise)
     /\ Call(node.left, Append(stack, Frame(node, "lhs", NoValue, 0, -1)), gen)

resolve_expr_type(e) ==
  CASE e.kind = "Identifier" -> IF e.ident \in DOMAIN registry
                                THEN qualifier_value_type(registry[e.ident].type)
                                ELSE "Int"
    [] e.kind \in {"Integer"} \cup Bitwise -> "Int"
    [] e.kind \in {"Ipv4", "Ipv6"} -> e.kind
    [] OTHER -> "Bool"

Unresolved(e) == e.kind = "Identifier" /\ e.ident \notin DOMAIN registry

\* emit_compare resolves the operand types before it emits anything.
EnterCompare ==
  /\ Entering(Comparing)
  /\ LET op    == CompareOp[node.kind]
         types == {resolve_expr_type(node.left), resolve_expr_type(node.right)}
         ip    == types \cap {"Ipv4", "Ipv6"} # {}
         bad   == CASE Unresolved(node.left) \/ Unresolved(node.right) -> "not found"
                    [] OTHER -> IF ip /\ (types \notin {{"Ipv4"}, {"Ipv6"}}
                                            \/ op \notin {"CmpEq", "CmpNe"})
                                THEN "type mismatch" ELSE "none"
         g     == fail(gen, bad)
     IN  CASE ~ok(g) -> Answer(g, NoValue, stack)
           [] ok(g) /\ types = {"Ipv6"} ->
                Emitted(emit_ipv6_compare(g, registry, op, node.left, node.right))
           [] OTHER ->
                Call(node.left, Append(stack, Frame(node, "lhs", NoValue, 0, -1)), g)

-----------------------------------------------------------------------------
(* An operand comes back. *)

Returning(kinds, at) ==
  /\ mode = "return"
  /\ stack # <<>>
  /\ Top.expr.kind \in kinds
  /\ Top.at = at

NotOperand ==
  /\ Returning({"Not"}, "operand")
  /\ LET operand == ensure_bool(gen, value)
         result  == EmitNegation(operand.gen, operand.value.reg)
     IN  IF ok(operand.gen) THEN Answer(result.gen, result.value, Rest)
                            ELSE Answer(operand.gen, NoValue, Rest)

\* The left operand of && or ||: its value is tested by a JumpIfFalse.  &&
\* goes on with the right operand and leaves the jump open; || emits its
\* value for a true left operand, jumps out, and closes the test's jump.
LogicalLhs ==
  /\ Returning(Logical, "lhs")
  /\ LET lhs    == ensure_bool(gen, value)
         dst    == NextReg(lhs.gen)
         g1     == alloc_reg(lhs.gen)
         test   == EmitIp(g1)
         tested == release_reg(emit(g1, "JumpIfFalse", lhs.value.reg, 0, 0, -1), lhs.value.reg)
         g2     == emit_load_imm(tested, dst, BoolWord(TRUE))
         out    == EmitIp(g2)
         either == PatchToHere(emit(g2, "Jump", 0, 0, 0, -1), test)
         Waiting(ip) == Append(Rest, Frame(Top.expr, "rhs", NoValue, dst, ip))
     IN  CASE ~ok(lhs.gen) -> Answer(lhs.gen, NoValue, Rest)
           [] ok(lhs.gen) /\ Top.expr.kind = "And" -> Call(Top.expr.right, Waiting(test), tested)
           [] OTHER -> Call(Top.expr.right, Waiting(out), either)

\* Mistake: the destination is released instead of the operand.
MoveReleasesDst(rhs) ==
  release_reg(emit(rhs.gen, "Move", Top.dst, rhs.value.reg, 0, 0), Top.dst)

\* The right operand is moved to the destination of the left one.
MoveRhs(rhs) ==
  release_reg(emit(rhs.gen, "Move", Top.dst, rhs.value.reg, 0, 0), rhs.value.reg)

AndRhs ==
  /\ Returning({"And"}, "rhs")
  /\ LET rhs   == ensure_bool(gen, value)
         moved == MoveRhs(rhs)
         out   == EmitIp(moved)
         past  == PatchToHere(emit(moved, "Jump", 0, 0, 0, -1), Top.ip)
         final == PatchToHere(emit_load_imm(past, Top.dst, BoolWord(FALSE)), out)
     IN  IF ok(rhs.gen) THEN Answer(final, Value(Top.dst, "Bool"), Rest)
                        ELSE Answer(rhs.gen, NoValue, Rest)

OrRhs ==
  /\ Returning({"Or"}, "rhs")
  /\ LET rhs   == ensure_bool(gen, value)
         final == PatchToHere(MoveRhs(rhs), Top.ip)
     IN  IF ok(rhs.gen) THEN Answer(final, Value(Top.dst, "Bool"), Rest)
                        ELSE Answer(rhs.gen, NoValue, Rest)

\* Comparisons and bitwise operators emit both operands before they look at
\* either.
BinaryLhs ==
  /\ Returning(Comparing \cup Bitwise, "lhs")
  /\ Call(Top.expr.right, Append(Rest, Frame(Top.expr, "rhs", value, 0, -1)), gen)

\* An integer compared with a boolean becomes one.
CompareRhs ==
  /\ Returning(Comparing, "rhs")
  /\ LET op     == CompareOp[Top.expr.kind]
         mixed  == {Top.lhs.type, value.type} = {"Bool", "Int"}
         lhs    == IF mixed /\ value.type = "Bool" THEN ensure_bool(gen, Top.lhs)
                   ELSE [gen |-> gen, value |-> Top.lhs]
         rhs    == IF mixed /\ Top.lhs.type = "Bool" THEN ensure_bool(gen, value)
                   ELSE [gen |-> lhs.gen, value |-> value]
         result == emit_compare_regs(rhs.gen, op, lhs.value.reg, rhs.value.reg)
     IN  CASE ~ok(gen) -> Answer(gen, NoValue, Rest)
           [] ok(gen) /\ ~mixed /\ Top.lhs.type # value.type ->
                Answer(fail(gen, "type mismatch"), NoValue, Rest)
           [] OTHER -> Answer(result.gen, result.value, Rest)

BitwiseRhs ==
  /\ Returning(Bitwise, "rhs")
  /\ LET result == EmitInto(gen, BitOp[Top.expr.kind], Top.lhs.reg, value.reg, "Int")
     IN  CASE ~ok(gen) -> Answer(gen, Value(0, "Int"), Rest)
           [] ok(gen) /\ {Top.lhs.type, value.type} # {"Int"} ->
                Answer(fail(gen, "type mismatch"), Value(0, "Int"), Rest)
           [] OTHER -> Answer(result.gen, result.value, Rest)

-----------------------------------------------------------------------------
(* compile: the root's value is returned by the program. *)

\* The status of a failed call; every other failure is a code generator error.
StatusOf(error) ==
  CASE error = "not found"     -> "QUALIFIER_NOT_FOUND"
    [] error = "type mismatch" -> "TYPE_MISMATCH"
    [] error = "bad literal"   -> "PARSE"
    [] OTHER                   -> "CODEGEN"

Finish ==
  /\ mode = "return"
  /\ stack = <<>>
  /\ LET result == IF ok(gen) THEN ensure_bool(gen, value) ELSE [gen |-> gen, value |-> value]
         r      == result.value.reg
     IN  IF ok(result.gen)
         THEN /\ gen' = release_reg(emit(result.gen, "Ret", r, 0, 0, 0), r)
              /\ register_count' = result.gen.next_reg
              /\ status' = "OK"
         ELSE /\ gen' = result.gen
              /\ status' = StatusOf(result.gen.error)
              /\ UNCHANGED register_count
  /\ mode' = "done"
  /\ UNCHANGED <<root, registry, node, value, stack>>

\* The call has returned; in any other state an emitter must go on.
Terminating == mode = "done" /\ UNCHANGED cvars

Next ==
  \/ EmitIdentifier \/ EmitLiteral \/ EmitIpv4 \/ MisplacedIpv6
  \/ EnterOperator \/ EnterCompare
  \/ NotOperand \/ LogicalLhs \/ AndRhs \/ OrRhs
  \/ BinaryLhs \/ CompareRhs \/ BitwiseRhs
  \/ Finish \/ Terminating

Spec == Init /\ [][Next]_cvars

\* What the call leaves in *out_program.
Output ==
  [instructions   |-> [i \in 0 .. Len(gen.code) - 1 |-> gen.code[i + 1]],
   count          |-> Len(gen.code),
   register_count |-> register_count]

-----------------------------------------------------------------------------
(* Properties. *)

TypeOK ==
  /\ root \in Roots
  /\ registry \in Registries
  /\ gen \in GenState
  /\ mode \in {"enter", "return", "done"}
  /\ node \in Expr
  /\ value \in EmitValue
  /\ \A f \in Range(stack) : /\ f.expr \in Expr
                             /\ f.at \in {"operand", "lhs", "rhs"}
                             /\ f.lhs \in EmitValue
                             /\ f.dst \in U8
                             /\ f.ip \in Int
  /\ register_count \in 0 .. MaxRegisterCount
  /\ status \in {"none", "OK", "QUALIFIER_NOT_FOUND", "TYPE_MISMATCH", "PARSE", "CODEGEN"}

\* The emitters that keep a register while their right operand is emitted: the
\* logical ones their destination, the others their left operand.
Holding == {i \in 1 .. Len(stack) : stack[i].at = "rhs"}
Kept(i) == IF stack[i].expr.kind \in Logical THEN stack[i].dst ELSE stack[i].lhs.reg

Returned == IF mode = "return" THEN {value.reg} ELSE {}

\* No two values live in one register, no register is used that no value
\* lives in, and every other register handed out so far is free exactly once
\* (alloc_reg and release_reg through every emitter).
RegistersOwned ==
  ok(gen) /\ mode # "done" =>
    /\ \A i, j \in Holding : i # j => Kept(i) # Kept(j)
    /\ \A i \in Holding : Kept(i) \notin Returned
    /\ gen.reg_used = {Kept(i) : i \in Holding} \cup Returned
    /\ IsInjective(gen.free_regs)
    /\ Range(gen.free_regs) = (0 .. gen.next_reg - 1) \ gen.reg_used

\* The internal checks of the code generator never fail: no register is
\* released twice, no jump patched outside the code emitted so far
\* (release_reg, patch_jump).
NoInternalError == gen.error \notin InternalError

\* An emitter of && or || that waits for its right operand remembers the place
\* of a jump that still has no target, and nobody else waits to patch it: what
\* patch_jump itself does not check (emit_logical_and, emit_logical_or).
WaitingJumpsOpen ==
  ok(gen) /\ mode # "done" =>
    \A i \in Holding : stack[i].expr.kind \in Logical =>
      /\ stack[i].ip \in 0 .. Len(gen.code) - 1
      /\ gen.code[stack[i].ip + 1].op \in JumpOps
      /\ gen.code[stack[i].ip + 1].aux = -1
      /\ \A j \in Holding \ {i} : stack[j].expr.kind \in Logical => stack[j].ip # stack[i].ip

\* Field sizes of the types the API defines; a registry accepts others.
LoadableRegistry(r) ==
  \A name \in DOMAIN r : r[name].type # "ipv6" => r[name].size \in {1, 2, 4, 8}

\* The slots the generator emitted as instructions, and the end.
Starts == {i \in 0 .. Output.count - 1 : Output.instructions[i].op # Invalid} \cup {Output.count}

\* A load of a field of no type of the API, which the verifier refuses.
Unloadable(p, i) == p.instructions[i].op = "LoadField" /\ p.instructions[i].b \notin {1, 2, 4, 8}

\* The program of a call that succeeds is one the verifier accepts, fields of
\* no type apart: from slot 0 on it is made of legal instructions, none of
\* them the data of another.  Its jumps go forward to instructions, and the
\* last one is a Ret: it cannot loop or run off its end.
CompiledSound ==
  status = "OK" =>
    /\ HeaderOk(Output)
    /\ Closed(Output, Starts)
    /\ \A i \in Starts \ {Output.count} :
         LET ins == Output.instructions[i]
         IN  /\ InstructionOk(Output, i) \/ (Unloadable(Output, i) /\ ~LoadableRegistry(registry))
             /\ ins.op = "LoadImm" => i + 1 \notin Starts
             /\ ins.op \in JumpOps => ins.aux \in Starts /\ ins.aux > i /\ ins.aux < Output.count
    /\ Output.instructions[Output.count - 1].op = "Ret"

\* A call succeeds exactly when the expression is well typed, unless it needs
\* more registers than there are, or an offset or a jump target does not fit
\* its 32 bits (the status of compile_ast_to_program).
StatusMatchesTyping ==
  mode = "done" => \/ status = "OK" /\ WellTyped(root, registry)
                   \/ gen.error \in UserError /\ ~WellTyped(root, registry)
                   \/ gen.error \in ResourceError

\* Of several errors the caller is told the first that the compiler meets: those
\* of the emitters that go on after it change nothing (fail).
FirstFaultReported ==
  mode = "done" /\ gen.error \in UserError =>
    status = StatusOf(FaultIn(registry)[root])

\* The generator reuses registers perfectly: the program has as many as its
\* evaluation needs at one time, and the limit is met only when that many do
\* not exist.
RegisterNeedExact ==
  WellTyped(root, registry) =>
    /\ status = "OK" => register_count = NeedIn(registry)[root]
    /\ gen.error = "register limit" => NeedIn(registry)[root] > MaxRegisterCount

\* Every offset a registry accepts can be compiled: the payload of a LoadField
\* is read as unsigned (aux_u32), so that no offset is out of its range.
OffsetsCompile == gen.error # "payload range"
=============================================================================
