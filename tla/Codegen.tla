------------------------------ MODULE Codegen -------------------------------
(***************************************************************************)
(* The code generator's state and the primitives it is made of             *)
(* (src/codegen/compiler.cpp, the private members of Compiler): register   *)
(* allocation, emission, jump patching and the emitters that do not call   *)
(* emit_expr.                                                              *)
(*                                                                         *)
(* A generator state is a record g; every primitive maps it to the next    *)
(* one.  A primitive that also returns a value returns the pair [gen,      *)
(* value].  As in the code a failure only records the first error and the  *)
(* emitters go on, guarded by ok_ where the code tests it.                 *)
(***************************************************************************)
EXTENDS Program, Sequences

CONSTANT Malformed  \* an address literal inet_pton refuses

\* EmitValue: a register and the static type of what it holds.
ValueType == {"Bool", "Int", "Ipv4", "Ipv6"}
EmitValue == [reg : U8, type : ValueType]
Value(r, t) == [reg |-> r, type |-> t]

\* What fail() was called for; "none" while ok_ holds.
InternalError == {"release", "patch"}
ResourceError == {"register limit", "payload range", "target range"}
UserError     == {"not found", "type mismatch", "bad literal"}
Error         == {"none"} \cup InternalError \cup ResourceError \cup UserError

GenState ==
  [code : Seq(Slot), next_reg : 0 .. MaxRegisterCount, free_regs : Seq(U8),
   reg_used : SUBSET U8, error : Error]

NewGen ==
  [code |-> <<>>, next_reg |-> 0, free_regs |-> <<>>, reg_used |-> {}, error |-> "none"]

ok(g) == g.error = "none"

\* Mistake: the last failure is the one reported.
FailAgain(g, e) == [g EXCEPT !.error = e]

\* The first failure sticks.
fail(g, e) == IF ok(g) THEN [g EXCEPT !.error = e] ELSE g

-----------------------------------------------------------------------------
(* Registers. *)

\* The register alloc_reg returns: the one released last, or a new one.
NextReg(g) ==
  CASE g.free_regs # <<>>            -> g.free_regs[Len(g.free_regs)]
    [] g.free_regs = <<>> /\ g.next_reg >= MaxRegisterCount -> 0
    [] OTHER                         -> g.next_reg

\* Mistake: a reused register stays on the free list.
AllocWithoutPop(g) ==
  CASE g.free_regs # <<>> -> [g EXCEPT !.reg_used = @ \cup {NextReg(g)}]
    [] g.free_regs = <<>> /\ g.next_reg >= MaxRegisterCount -> fail(g, "register limit")
    [] OTHER -> [g EXCEPT !.next_reg = @ + 1, !.reg_used = @ \cup {NextReg(g)}]

\* Mistake: one register more than the file has.
AllocPastLimit(g) ==
  CASE g.free_regs # <<>> ->
         [g EXCEPT !.free_regs = SubSeq(@, 1, Len(@) - 1),
                   !.reg_used = @ \cup {NextReg(g)}]
    [] g.free_regs = <<>> /\ g.next_reg > MaxRegisterCount -> fail(g, "register limit")
    [] OTHER -> [g EXCEPT !.next_reg = @ + 1, !.reg_used = @ \cup {NextReg(g)}]

alloc_reg(g) ==
  CASE g.free_regs # <<>> ->
         [g EXCEPT !.free_regs = SubSeq(@, 1, Len(@) - 1),
                   !.reg_used = @ \cup {NextReg(g)}]
    [] g.free_regs = <<>> /\ g.next_reg >= MaxRegisterCount ->
         fail(g, "register limit")
    [] OTHER ->
         [g EXCEPT !.next_reg = @ + 1, !.reg_used = @ \cup {NextReg(g)}]

\* Mistake: a released register is not reused.
ReleaseWithoutReuse(g, r) ==
  IF r >= g.next_reg \/ r \notin g.reg_used
  THEN fail(g, "release")
  ELSE [g EXCEPT !.reg_used = @ \ {r}]

release_reg(g, r) ==
  IF r >= g.next_reg \/ r \notin g.reg_used
  THEN fail(g, "release")
  ELSE [g EXCEPT !.reg_used = @ \ {r}, !.free_regs = Append(@, r)]

-----------------------------------------------------------------------------
(* Emission. *)

Instr(op, a, b, c, aux) ==
  [op |-> op, a |-> a, b |-> b, c |-> c, aux |-> aux, wide |-> Zero]

\* The slot that holds the value of a LoadImm.  It must never be decoded:
\* the model makes it an invalid instruction.
Data(w) ==
  [op |-> Invalid, a |-> 0, b |-> 0, c |-> 0, aux |-> 0, wide |-> w]

\* Mistake: a place counted from 1.
EmitIpFromOne(g) == IF ok(g) THEN Len(g.code) + 1 ELSE -1

\* The index emit returns, -1 when nothing is emitted.
EmitIp(g) == IF ok(g) THEN Len(g.code) ELSE -1

emit(g, op, a, b, c, imm) ==
  CASE ~ok(g)                 -> g
    [] ok(g) /\ imm \notin I32 -> fail(g, "payload range")
    [] OTHER                  -> [g EXCEPT !.code = Append(@, Instr(op, a, b, c, imm))]

emit_load_imm(g, a, w) ==
  IF ok(g) THEN [g EXCEPT !.code = @ \o <<Instr("LoadImm", a, 0, 0, 0), Data(w)>>] ELSE g

patch_jump(g, ip, target) ==
  CASE ip < 0 \/ ip >= Len(g.code)                        -> fail(g, "patch")
    [] ip >= 0 /\ ip < Len(g.code) /\ target \notin I32   -> fail(g, "target range")
    [] OTHER                                              -> [g EXCEPT !.code[ip + 1].aux = target]

\* Mistakes: the jump goes to the slot before, or to itself, or its target is
\* counted from the jump.
PatchToSlotBefore(g, ip) == patch_jump(g, ip, Len(g.code) - 1)
PatchToSelf(g, ip) == patch_jump(g, ip, ip)
PatchDistance(g, ip) == patch_jump(g, ip, Len(g.code) - ip)

\* The jump at ip goes to the next instruction emitted.
PatchToHere(g, ip) == patch_jump(g, ip, Len(g.code))

-----------------------------------------------------------------------------
(* Emitters of values. *)

\* A field of the context in a new register.
emit_load_field_reg(g, offset, size, sign_flag) ==
  LET dst == NextReg(g)
      g1  == alloc_reg(g)
  IN  IF ok(g1)
      THEN [gen |-> emit(g1, "LoadField", dst, size, sign_flag, offset), value |-> dst]
      ELSE [gen |-> g1, value |-> 0]

emit_immediate(g, w, type) ==
  LET dst == NextReg(g)
      g1  == alloc_reg(g)
  IN  IF ok(g1)
      THEN [gen |-> emit_load_imm(g1, dst, w), value |-> Value(dst, type)]
      ELSE [gen |-> g1, value |-> Value(0, type)]

\* A register instruction with a new destination; its operands are released.
EmitInto(g, op, lhs, rhs, type) ==
  LET dst == NextReg(g)
      g1  == emit(alloc_reg(g), op, dst, lhs, rhs, 0)
  IN  [gen |-> release_reg(release_reg(g1, lhs), rhs), value |-> Value(dst, type)]

emit_compare_regs(g, op, lhs, rhs) == EmitInto(g, op, lhs, rhs, "Bool")

\* Not of a boolean register.
EmitNegation(g, operand) ==
  LET dst == NextReg(g)
  IN  [gen   |-> release_reg(emit(alloc_reg(g), "Not", dst, operand, 0, 0), operand),
       value |-> Value(dst, "Bool")]

\* Mistake: an address is taken for an integer.
EnsureBoolOfAddress(g, v) ==
  IF v.type = "Bool" THEN [gen |-> g, value |-> v]
  ELSE LET zero == emit_immediate(g, Zero, "Int")
       IN  emit_compare_regs(zero.gen, "CmpNe", v.reg, zero.value.reg)

\* Integers become booleans by comparison with 0, addresses are refused.
ensure_bool(g, v) ==
  CASE v.type = "Bool"           -> [gen |-> g, value |-> v]
    [] v.type \in {"Ipv4", "Ipv6"} ->
         [gen |-> fail(g, "type mismatch"), value |-> Value(0, "Bool")]
    [] OTHER                     ->
         LET zero == emit_immediate(g, Zero, "Int")
         IN  emit_compare_regs(zero.gen, "CmpNe", v.reg, zero.value.reg)

-----------------------------------------------------------------------------
(* Qualifiers.  A registry maps each registered name to its type, offset    *)
(* and size (QualifierInfo).                                                *)

qualifier_value_type(type) ==
  CASE type = "bool" -> "Bool"
    [] type = "ipv4" -> "Ipv4"
    [] type = "ipv6" -> "Ipv6"
    [] OTHER         -> "Int"

\* Mistake: a signed type is missing from the list.
SignFlagWithoutBytes(type) == IF type \in {"i16", "i32", "i64"} THEN 1 ELSE 0

SignFlag(type) == IF type \in {"i8", "i16", "i32", "i64"} THEN 1 ELSE 0

\* The size of a field by its type: 0 for a value outside mbpf_type_t, "other".
type_size(type) ==
  CASE type \in {"bool", "i8", "u8"}     -> 1
    [] type \in {"i16", "u16"}          -> 2
    [] type \in {"i32", "u32", "ipv4"}  -> 4
    [] type \in {"i64", "u64"}          -> 8
    [] type = "ipv6"                    -> 16
    [] OTHER                            -> 0

\* What registration ensures: a field has the size of its type and ends at an
\* offset of 32 bits.
WellDeclared(registry) ==
  \A name \in DOMAIN registry :
    LET info == registry[name]
    IN  info.size = type_size(info.type) /\ info.offset + info.size <= 2 * AuxHalf - 1

emit_identifier(g, registry, name) ==
  IF name \notin DOMAIN registry
  THEN [gen |-> fail(g, "not found"), value |-> Value(0, "Int")]
  ELSE LET info   == registry[name]
           type   == qualifier_value_type(info.type)
           loaded == emit_load_field_reg(g, info.offset, info.size, SignFlag(info.type))
       IN  IF type = "Ipv6"
           THEN [gen |-> fail(g, "type mismatch"), value |-> Value(0, "Ipv6")]
           ELSE [gen |-> loaded.gen, value |-> Value(loaded.value, type)]

-----------------------------------------------------------------------------
(* IPv6 values take two registers, hi and lo. *)

\* Mistake: the low half is taken to be 4 bytes on.
LowHalfTooNear(offset) == (offset + 4) % (2 * AuxHalf)

\* The offset of the low half, as a uint32_t.
LowHalf(offset) == (offset + 8) % (2 * AuxHalf)

emit_ipv6_identifier(g, registry, name) ==
  CASE name \notin DOMAIN registry ->
         [gen |-> fail(g, "not found"), value |-> <<0, 0>>]
    [] name \in DOMAIN registry /\ registry[name].type # "ipv6" ->
         [gen |-> fail(g, "type mismatch"), value |-> <<0, 0>>]
    [] OTHER ->
         LET hi == emit_load_field_reg(g, registry[name].offset, 8, 0)
             lo == emit_load_field_reg(hi.gen, LowHalf(registry[name].offset), 8, 0)
         IN  [gen |-> lo.gen, value |-> <<hi.value, lo.value>>]

emit_ipv6_literal(g, address) ==
  IF address = Malformed
  THEN [gen |-> fail(g, "bad literal"), value |-> <<0, 0>>]
  ELSE LET hi == emit_immediate(g, address.hi, "Int")
           lo == emit_immediate(hi.gen, address.lo, "Int")
       IN  [gen |-> lo.gen, value |-> <<hi.value.reg, lo.value.reg>>]

emit_ipv6_value(g, registry, e) ==
  CASE e.kind = "Identifier" -> emit_ipv6_identifier(g, registry, e.ident)
    [] e.kind = "Ipv6"       -> emit_ipv6_literal(g, e.value)
    [] OTHER                 -> [gen |-> fail(g, "type mismatch"), value |-> <<0, 0>>]

emit_ipv6_compare(g, registry, op, lhs_expr, rhs_expr) ==
  LET lhs  == emit_ipv6_value(g, registry, lhs_expr)
      rhs  == emit_ipv6_value(lhs.gen, registry, rhs_expr)
      hi   == emit_compare_regs(rhs.gen, "CmpEq", lhs.value[1], rhs.value[1])
      lo   == emit_compare_regs(hi.gen, "CmpEq", lhs.value[2], rhs.value[2])
      both == EmitInto(lo.gen, "And", hi.value.reg, lo.value.reg, "Bool")
  IN  CASE ~ok(rhs.gen)                 -> [gen |-> rhs.gen, value |-> Value(0, "Bool")]
        [] ok(rhs.gen) /\ ~ok(lo.gen)   -> [gen |-> lo.gen, value |-> Value(0, "Bool")]
        [] ok(rhs.gen) /\ ok(lo.gen) /\ op = "CmpEq" -> both
        [] OTHER                        -> EmitNegation(both.gen, both.value.reg)
=============================================================================
