--------------------------- MODULE RegistryProofs ---------------------------
(***************************************************************************)
(* What holds of a registry and of the programs compiled from it, for any  *)
(* names, types, offsets and sizes.                                        *)
(***************************************************************************)
EXTENDS Registry, TLAPS

(***************************************************************************)
(* The inductive invariant.  That a program reads the field as it is       *)
(* registered now follows from what was compiled, which the properties do  *)
(* not say: the loads of a name are those its present info would give.     *)
(***************************************************************************)

\* The loads of a field in the registers 0 and 1.
Load(reg, size, flag, offset) == Instr("LoadField", reg, size, flag, offset)
LoadsOf(info) ==
  IF info.type = "ipv6"
  THEN <<Load(0, 8, 0, info.offset), Load(1, 8, 0, info.offset + 8)>>
  ELSE <<Load(0, info.size, SignFlag(info.type), info.offset)>>

\* The offset of the last of them.
LastOffset(info) == IF info.type = "ipv6" THEN info.offset + 8 ELSE info.offset

QualifiersInv ==
  /\ DOMAIN qualifiers \subseteq Names
  /\ \A name \in DOMAIN qualifiers : qualifiers[name] \in QualifierInfo
  /\ WellDeclared(qualifiers)

LoadsInv ==
  /\ DOMAIN loads \subseteq DOMAIN qualifiers
  /\ \A name \in DOMAIN loads :
       /\ loads[name] = LoadsOf(qualifiers[name])
       /\ LastOffset(qualifiers[name]) < AuxHalf
       /\ qualifiers[name].type = "ipv6" => 1 \in U8

\* What passed the checks would pass them still: nothing is registered meanwhile.
CheckedInv == \A desc \in checked : desc \in Descriptions /\ Verdict(desc) = "none"

StatusOK == status \in {"none", "OK", "INVALID_ARG", "DUP_QUALIFIER", "QUALIFIER_NOT_FOUND", "CODEGEN"}

IInv == QualifiersInv /\ CheckedInv /\ LoadsInv /\ StatusOK

-----------------------------------------------------------------------------
(* What register_qualifier stores. *)

\* A description that passed the checks becomes the entry of a new name, and the
\* entry is that of a well-declared field.
LEMMA Checked ==
  ASSUME NEW desc \in Descriptions, Verdict(desc) = "none"
  PROVE  /\ desc.name \in Names \ DOMAIN qualifiers
         /\ Info(desc) \in QualifierInfo
         /\ Info(desc).size = type_size(Info(desc).type)
         /\ Info(desc).offset + Info(desc).size <= 2 * AuxHalf - 1
<1>1. /\ desc.name \in Names \cup {NoName} /\ desc.type \in Types
      /\ desc.offset \in 0 .. U32Max /\ desc.size \in U8
  BY RegistryAssumption DEF Descriptions
<1>2. /\ ~Nameless(desc) /\ ~Duplicate(desc) /\ desc.size = type_size(desc.type)
      /\ ~PastTheEnd(desc)
  BY DEF Verdict
<1>3. desc.offset + desc.size <= U32Max
  BY <1>1, <1>2, BytecodeAssumption DEF PastTheEnd, U32Max, U8
<1>4. QED
  BY <1>1, <1>2, <1>3 DEF Nameless, Duplicate, Info, QualifierInfo, U32Max

\* Its insertion keeps the fields well declared, and the entry of every name
\* that had one.
LEMMA InsertKeeps ==
  ASSUME QualifiersInv, NEW desc \in Descriptions, Verdict(desc) = "none"
  PROVE  LET new == With(qualifiers, desc.name, Info(desc))
         IN  /\ DOMAIN new \subseteq Names
             /\ \A name \in DOMAIN new : new[name] \in QualifierInfo
             /\ WellDeclared(new)
             /\ \A name \in DOMAIN qualifiers : name \in DOMAIN new /\ new[name] = qualifiers[name]
<1> DEFINE new == With(qualifiers, desc.name, Info(desc))
<1>1. /\ DOMAIN new = DOMAIN qualifiers \cup {desc.name}
      /\ new[desc.name] = Info(desc)
      /\ \A name \in DOMAIN qualifiers : new[name] = qualifiers[name]
  BY Checked DEF With
<1>2. QED
  BY <1>1, Checked DEF QualifiersInv, WellDeclared

-----------------------------------------------------------------------------
(* What is compiled for a field. *)

LEMMA ModSmall ==
  ASSUME NEW m \in Nat \ {0}, NEW x \in 0 .. m - 1
  PROVE  x % m = x
OBVIOUS

\* A generator without registers to reuse.
Fresh(code, next, used) ==
  [code |-> code, next_reg |-> next, free_regs |-> <<>>, reg_used |-> used, error |-> "none"]

\* Such a generator hands out its next register, if it has one.
LEMMA FreshAlloc ==
  ASSUME NEW code, NEW next \in Nat, NEW used
  PROVE  LET g == Fresh(code, next, used)
         IN  /\ next < MaxRegisterCount =>
                  NextReg(g) = next /\ alloc_reg(g) = Fresh(code, next + 1, used \cup {next})
             /\ next >= MaxRegisterCount => ~ok(alloc_reg(g))
<1> DEFINE g == Fresh(code, next, used)
<1>1. g.free_regs = <<>> /\ g.next_reg = next /\ g.error = "none" /\ g.reg_used = used /\ g.code = code
  BY DEF Fresh
<1>2. ASSUME next < MaxRegisterCount
      PROVE  NextReg(g) = next /\ alloc_reg(g) = Fresh(code, next + 1, used \cup {next})
  <2>1. NextReg(g) = next
    BY <1>1, <1>2, BytecodeAssumption DEF NextReg
  <2>2. ~(g.next_reg >= MaxRegisterCount)
    BY <1>1, <1>2, BytecodeAssumption
  <2>3. alloc_reg(g) = [g EXCEPT !.next_reg = @ + 1, !.reg_used = @ \cup {NextReg(g)}]
    BY <1>1, <2>2, Zenon DEF alloc_reg
  <2>4. QED
    BY <2>1, <2>3 DEF Fresh
<1>3. ASSUME next >= MaxRegisterCount PROVE ~ok(alloc_reg(g))
  <2>1. alloc_reg(g) = fail(g, "register limit")
    BY <1>1, <1>3, BytecodeAssumption DEF alloc_reg
  <2>2. QED
    BY <2>1, <1>1 DEF fail, ok, Fresh
<1>4. QED
  BY <1>2, <1>3

\* The generator g after a load into its next register.
After(g, code, next, used, size, flag, offset) ==
  g = Fresh(Append(code, Load(next, size, flag, offset)), next + 1, used \cup {next})

\* One load: it takes the next register and has an offset that is no negative
\* int32_t, or the generator fails.
LEMMA LoadEmitted ==
  ASSUME NEW code, NEW next \in Nat, NEW used, NEW offset \in Nat, NEW size, NEW flag,
         ok(emit_load_field_reg(Fresh(code, next, used), offset, size, flag).gen)
  PROVE  /\ next < MaxRegisterCount
         /\ offset < AuxHalf
         /\ After(emit_load_field_reg(Fresh(code, next, used), offset, size, flag).gen,
                  code, next, used, size, flag, offset)
<1> DEFINE g  == Fresh(code, next, used)
           g1 == alloc_reg(g)
           r  == emit_load_field_reg(g, offset, size, flag).gen
<1>1. r = IF ok(g1) THEN emit(g1, "LoadField", NextReg(g), size, flag, offset) ELSE g1
  BY DEF emit_load_field_reg
<1>2. ok(g1)
  BY <1>1
<1>3. next < MaxRegisterCount
  <2>1. ~(next >= MaxRegisterCount)
    BY <1>2, FreshAlloc, Zenon
  <2>2. QED
    BY <2>1, BytecodeAssumption
<1>4. NextReg(g) = next /\ g1 = Fresh(code, next + 1, used \cup {next})
  BY <1>3, FreshAlloc
<1>5. r = emit(g1, "LoadField", next, size, flag, offset)
  BY <1>1, <1>2, <1>4
<1>6. offset \in I32
  <2>1. ASSUME offset \notin I32 PROVE FALSE
    <3>1. r = fail(g1, "payload range")
      BY <1>2, <1>5, <2>1, Zenon DEF emit
    <3>2. r = [g1 EXCEPT !.error = "payload range"]
      BY <3>1, <1>2 DEF fail
    <3>3. r.error = "payload range"
      BY <3>2, <1>4 DEF Fresh
    <3>4. QED
      BY <3>3 DEF ok
  <2>2. QED
    BY <2>1
<1>7. r = [g1 EXCEPT !.code = Append(@, Load(next, size, flag, offset))]
  BY <1>2, <1>5, <1>6, Zenon DEF emit, Load
<1>8. r = Fresh(Append(code, Load(next, size, flag, offset)), next + 1, used \cup {next})
  <2>1. g1.code = code
    BY <1>4 DEF Fresh
  <2>2. r = [Fresh(code, next + 1, used \cup {next})
               EXCEPT !.code = Append(code, Load(next, size, flag, offset))]
    BY <1>4, <1>7, <2>1
  <2>3. QED
    BY <2>2 DEF Fresh
<1>9. QED
  BY <1>3, <1>6, <1>8, BytecodeAssumption DEF I32, After

\* Nothing is emitted, or allocated for, a name that is not registered.
LEMMA UnknownFails ==
  ASSUME NEW name, name \notin DOMAIN qualifiers
  PROVE  ~ok(Emitted(name))
<1>1. Emitted(name) = fail(NewGen, "not found")
  BY DEF Emitted, emit_identifier
<1>2. QED
  BY <1>1 DEF fail, ok, NewGen

\* A generator that has failed.
Failed(code, next, free, used, error) ==
  [code |-> code, next_reg |-> next, free_regs |-> free, reg_used |-> used, error |-> error]

\* A load that fails leaves such a generator.
LEMMA LoadFails ==
  ASSUME NEW code, NEW next \in Nat, NEW used, NEW offset, NEW size, NEW flag,
         ~ok(emit_load_field_reg(Fresh(code, next, used), offset, size, flag).gen)
  PROVE  \E free, n, u, error :
           /\ error # "none"
           /\ emit_load_field_reg(Fresh(code, next, used), offset, size, flag).gen
                = Failed(code, n, free, u, error)
<1> DEFINE g  == Fresh(code, next, used)
           g1 == alloc_reg(g)
           r  == emit_load_field_reg(g, offset, size, flag).gen
<1>1. r = IF ok(g1) THEN emit(g1, "LoadField", NextReg(g), size, flag, offset) ELSE g1
  BY DEF emit_load_field_reg
<1>2. CASE next < MaxRegisterCount
  <2>1. g1 = Fresh(code, next + 1, used \cup {next})
    BY <1>2, FreshAlloc
  <2>2. ok(g1)
    BY <2>1 DEF ok, Fresh
  <2>3. offset \notin I32
    <3>1. ASSUME offset \in I32 PROVE FALSE
      <4>1. r = [g1 EXCEPT !.code = Append(@, Instr("LoadField", NextReg(g), size, flag, offset))]
        BY <1>1, <2>2, <3>1, Zenon DEF emit
      <4>2. r.error = "none"
        BY <2>1, <4>1 DEF Fresh
      <4>3. QED
        BY <4>2 DEF ok
    <3>2. QED
      BY <3>1
  <2>4. r = fail(g1, "payload range")
    BY <1>1, <2>2, <2>3, Zenon DEF emit
  <2>5. r = [Fresh(code, next + 1, used \cup {next}) EXCEPT !.error = "payload range"]
    BY <2>1, <2>2, <2>4 DEF fail
  <2>6. r = Failed(code, next + 1, <<>>, used \cup {next}, "payload range")
    BY <2>5 DEF Fresh, Failed
  <2>7. QED
    BY <2>6
<1>3. CASE ~(next < MaxRegisterCount)
  <2>1. g.free_regs = <<>> /\ g.next_reg >= MaxRegisterCount
    BY <1>3, BytecodeAssumption DEF Fresh
  <2>2. g1 = fail(g, "register limit")
    BY <2>1, Zenon DEF alloc_reg
  <2>3. ok(g)
    BY DEF ok, Fresh
  <2>4. g1 = [Fresh(code, next, used) EXCEPT !.error = "register limit"]
    BY <2>2, <2>3 DEF fail
  <2>5. g1 = Failed(code, next, <<>>, used, "register limit")
    BY <2>4 DEF Fresh, Failed
  <2>6. g1.error = "register limit"
    <3>1. Failed(code, next, <<>>, used, "register limit").error = "register limit"
      BY DEF Failed
    <3>2. QED
      BY <2>5, <3>1, Zenon
  <2>7. ~ok(g1)
    BY <2>6 DEF ok
  <2>8. QED
    BY <1>1, <2>5, <2>7
<1>4. QED
  BY <1>2, <1>3

\* An error remains: a load emitted after one fails too.
LEMMA FailureRemains ==
  ASSUME NEW code, NEW next, NEW free, NEW used, NEW error, error # "none",
         NEW offset, NEW size, NEW flag
  PROVE  ~ok(emit_load_field_reg(Failed(code, next, free, used, error), offset, size, flag).gen)
<1> DEFINE g  == Failed(code, next, free, used, error)
           g1 == alloc_reg(g)
<1>1. g1.error = error
  <2>1. CASE g.free_regs # <<>>
    <3>1. g1 = [g EXCEPT !.free_regs = SubSeq(@, 1, Len(@) - 1), !.reg_used = @ \cup {NextReg(g)}]
      BY <2>1, Zenon DEF alloc_reg
    <3>2. QED
      BY <3>1 DEF Failed
  <2>2. CASE g.free_regs = <<>> /\ g.next_reg >= MaxRegisterCount
    <3>1. g1 = fail(g, "register limit")
      BY <2>2, Zenon DEF alloc_reg
    <3>2. QED
      BY <3>1 DEF Failed, fail, ok
  <2>3. CASE g.free_regs = <<>> /\ ~(g.next_reg >= MaxRegisterCount)
    <3>1. g1 = [g EXCEPT !.next_reg = @ + 1, !.reg_used = @ \cup {NextReg(g)}]
      BY <2>3, Zenon DEF alloc_reg
    <3>2. QED
      BY <3>1 DEF Failed
  <2>4. QED
    BY <2>1, <2>2, <2>3
<1>2. ~ok(g1)
  BY <1>1 DEF ok
<1>3. QED
  BY <1>2 DEF emit_load_field_reg

\* The offset of the low half of a well-declared IPv6 field does not wrap.
LEMMA LowHalfInRange ==
  ASSUME NEW offset \in Nat, offset + 16 <= 2 * AuxHalf - 1
  PROVE  LowHalf(offset) = offset + 8
<1>1. 2 * AuxHalf \in Nat \ {0} /\ offset + 8 \in 0 .. 2 * AuxHalf - 1
  BY BytecodeAssumption
<1>2. QED
  BY <1>1, ModSmall DEF LowHalf

LEMMA OnlyIpv6IsIpv6 ==
  ASSUME NEW type, type # "ipv6"
  PROVE  qualifier_value_type(type) # "Ipv6"
<1>1. CASE type = "bool"
  BY <1>1 DEF qualifier_value_type
<1>2. CASE type = "ipv4"
  BY <1>2 DEF qualifier_value_type
<1>3. CASE type # "bool" /\ type # "ipv4"
  <2>1. qualifier_value_type(type) = "Int"
    BY <1>3, Zenon DEF qualifier_value_type
  <2>2. QED
    BY <2>1
<1>4. QED
  BY <1>1, <1>2, <1>3

\* The generator g after two loads of one size.
AfterTwo(g, code, next, size, flag, high, low) ==
  g.code = Append(Append(code, Load(next, size, flag, high)), Load(next + 1, size, flag, low))

\* Two loads, one after the other.
LEMMA TwoLoadsEmitted ==
  ASSUME NEW code, NEW next \in Nat, NEW used, NEW high \in Nat, NEW low \in Nat, NEW size, NEW flag,
         LET hi == emit_load_field_reg(Fresh(code, next, used), high, size, flag).gen
         IN  ok(emit_load_field_reg(hi, low, size, flag).gen)
  PROVE  LET hi == emit_load_field_reg(Fresh(code, next, used), high, size, flag).gen
         IN  /\ next + 1 < MaxRegisterCount
             /\ low < AuxHalf
             /\ AfterTwo(emit_load_field_reg(hi, low, size, flag).gen, code, next, size, flag, high, low)
<1> DEFINE hi == emit_load_field_reg(Fresh(code, next, used), high, size, flag).gen
           lo == emit_load_field_reg(hi, low, size, flag).gen
           code1 == Append(code, Load(next, size, flag, high))
           used1 == used \cup {next}
<1>1. ok(hi)
  <2>1. ASSUME ~ok(hi) PROVE FALSE
    BY <2>1, LoadFails, FailureRemains
  <2>2. QED
    BY <2>1
<1>2. hi = Fresh(code1, next + 1, used1)
  BY <1>1, LoadEmitted DEF After
<1>3. next + 1 \in Nat /\ ok(emit_load_field_reg(Fresh(code1, next + 1, used1), low, size, flag).gen)
  BY <1>2
<1> HIDE DEF code1, used1
<1>4. /\ next + 1 < MaxRegisterCount
      /\ low < AuxHalf
      /\ After(emit_load_field_reg(Fresh(code1, next + 1, used1), low, size, flag).gen,
               code1, next + 1, used1, size, flag, low)
  BY <1>3, LoadEmitted, Zenon
<1>5. lo = Fresh(Append(code1, Load(next + 1, size, flag, low)), next + 1 + 1, used1 \cup {next + 1})
  BY <1>2, <1>4 DEF After
<1>6. lo.code = Append(code1, Load(next + 1, size, flag, low))
  BY <1>5 DEF Fresh
<1>7. QED
  BY <1>4, <1>6 DEF code1, AfterTwo

\* What a compilation emits for a registered field, if it succeeds: the loads
\* of its info, at offsets the interpreter reads as they are.
LEMMA EmittedLoads ==
  ASSUME QualifiersInv, NEW name \in DOMAIN qualifiers, ok(Emitted(name))
  PROVE  /\ Emitted(name).code = LoadsOf(qualifiers[name])
         /\ LastOffset(qualifiers[name]) < AuxHalf
         /\ qualifiers[name].type = "ipv6" => 1 \in U8
<1> DEFINE info == qualifiers[name]
<1>1. /\ info.offset \in Nat
      /\ info.size = type_size(info.type)
      /\ info.offset + info.size <= 2 * AuxHalf - 1
  BY BytecodeAssumption DEF QualifiersInv, QualifierInfo, WellDeclared, U32Max
<1>2. PICK code, zero, eight, used : code = <<>> /\ zero = 0 /\ eight = 8 /\ used = {}
  OBVIOUS
<1>3. NewGen = Fresh(code, zero, used) /\ zero \in Nat
  BY <1>2 DEF NewGen, Fresh
<1>4. CASE info.type # "ipv6"
  <2> DEFINE flag   == SignFlag(info.type)
             loaded == emit_load_field_reg(Fresh(code, zero, used), info.offset, info.size, flag).gen
  <2>1. Emitted(name) = emit_identifier(NewGen, qualifiers, name).gen
    BY <1>4 DEF Emitted
  <2>2. Emitted(name) = loaded
    BY <1>3, <1>4, <2>1, OnlyIpv6IsIpv6 DEF emit_identifier
  <2>3. ok(loaded)
    BY <2>2
  <2> HIDE DEF flag
  <2>4. /\ info.offset < AuxHalf
        /\ After(loaded, code, zero, used, info.size, flag, info.offset)
    BY <1>1, <1>3, <2>3, LoadEmitted, Zenon
  <2>5. loaded.code = Append(code, Load(zero, info.size, flag, info.offset))
    BY <2>4 DEF Fresh, After
  <2>6. loaded.code = <<Load(0, info.size, flag, info.offset)>>
    BY <1>2, <2>5
  <2>7. QED
    BY <1>4, <2>2, <2>4, <2>6 DEF LoadsOf, LastOffset, flag
<1>5. CASE info.type = "ipv6"
  <2> DEFINE hi  == emit_load_field_reg(Fresh(code, zero, used), info.offset, eight, zero).gen
             low == info.offset + 8
             lo  == emit_load_field_reg(hi, low, eight, zero).gen
  <2>1. info.size = 16
    BY <1>1, <1>5 DEF type_size
  <2>2. LowHalf(info.offset) = low /\ low \in Nat
    BY <1>1, <2>1, LowHalfInRange
  <2>3. Emitted(name) = emit_ipv6_identifier(NewGen, qualifiers, name).gen
    BY <1>5 DEF Emitted
  <2>4. Emitted(name) = lo
    BY <1>2, <1>3, <1>5, <2>2, <2>3, Zenon DEF emit_ipv6_identifier
  <2>5. ok(lo)
    BY <2>4
  <2> HIDE DEF low
  <2>6. /\ zero + 1 < MaxRegisterCount
        /\ low < AuxHalf
        /\ AfterTwo(lo, code, zero, eight, zero, info.offset, low)
    BY <1>1, <1>3, <2>2, <2>5, TwoLoadsEmitted, Zenon
  <2>7. lo.code = <<Load(0, 8, 0, info.offset), Load(1, 8, 0, low)>>
    BY <1>2, <2>6 DEF AfterTwo
  <2>8. QED
    BY <1>2, <1>5, <2>4, <2>6, <2>7, BytecodeAssumption DEF LoadsOf, LastOffset, U8, low
<1>6. QED
  BY <1>4, <1>5

-----------------------------------------------------------------------------
(* The invariant. *)

LEMMA InitIInv == Init => IInv
BY DEF Init, IInv, QualifiersInv, CheckedInv, LoadsInv, StatusOK, WellDeclared

LEMMA VerdictStatus ==
  ASSUME NEW desc
  PROVE  Verdict(desc) \in {"none", "INVALID_ARG", "DUP_QUALIFIER"}
BY Zenon DEF Verdict

LEMMA NextIInv == IInv /\ [Next]_rvars => IInv'
<1> SUFFICES ASSUME IInv, [Next]_rvars PROVE IInv'
  OBVIOUS
<1>1. QualifiersInv /\ CheckedInv /\ LoadsInv /\ StatusOK
  BY DEF IInv
<1>2. CASE CheckQualifier
  <2>1. PICK desc \in Descriptions :
          /\ status' = Verdict(desc)
          /\ checked' = IF Verdict(desc) = "none" THEN {desc} ELSE {}
          /\ qualifiers' = qualifiers /\ loads' = loads
    BY <1>2 DEF CheckQualifier
  <2>2. QualifiersInv' /\ LoadsInv'
    BY <1>1, <2>1 DEF QualifiersInv, LoadsInv
  <2>3. Verdict(desc)' = Verdict(desc)
    BY <2>1 DEF Verdict, Nameless, Duplicate, PastTheEnd
  <2>4. CheckedInv'
    BY <2>1, <2>3 DEF CheckedInv, Verdict, Nameless, Duplicate, PastTheEnd
  <2>5. StatusOK'
    BY <2>1, VerdictStatus DEF StatusOK
  <2>6. QED
    BY <2>2, <2>4, <2>5 DEF IInv
<1>3. CASE InsertQualifier
  <2>1. PICK desc \in checked :
          /\ qualifiers' = With(qualifiers, desc.name, Info(desc))
          /\ status' = "OK" /\ checked' = {} /\ loads' = loads
    BY <1>3 DEF InsertQualifier
  <2>2. desc \in Descriptions /\ Verdict(desc) = "none"
    BY <1>1 DEF CheckedInv
  <2>3. /\ QualifiersInv'
        /\ \A name \in DOMAIN qualifiers :
             name \in DOMAIN qualifiers' /\ qualifiers'[name] = qualifiers[name]
    BY <1>1, <2>1, <2>2, InsertKeeps DEF QualifiersInv
  <2>4. LoadsInv' /\ CheckedInv' /\ StatusOK'
    BY <1>1, <2>1, <2>3 DEF LoadsInv, CheckedInv, StatusOK
  <2>5. QED
    BY <2>3, <2>4 DEF IInv
<1>4. CASE RegisterThrows
  BY <1>1, <1>4 DEF RegisterThrows, IInv, QualifiersInv, CheckedInv, LoadsInv, StatusOK
<1>5. CASE CompileField
  <2>1. PICK name \in Names :
          /\ status' \in {"OK", "QUALIFIER_NOT_FOUND", "CODEGEN"}
          /\ loads' = IF ok(Emitted(name)) /\ name \notin DOMAIN loads
                      THEN With(loads, name, Emitted(name).code) ELSE loads
          /\ qualifiers' = qualifiers /\ checked' = checked
    BY <1>5, Zenon DEF CompileField
  <2>2. QualifiersInv' /\ StatusOK' /\ CheckedInv'
    <3>1. checked = {}
      BY <1>5 DEF CompileField
    <3>2. QED
      BY <1>1, <2>1, <3>1 DEF QualifiersInv, StatusOK, CheckedInv
  <2>3. CASE ok(Emitted(name)) /\ name \notin DOMAIN loads
    <3>1. name \in DOMAIN qualifiers
      BY <2>3, UnknownFails
    <3>2. /\ Emitted(name).code = LoadsOf(qualifiers[name])
          /\ LastOffset(qualifiers[name]) < AuxHalf
          /\ qualifiers[name].type = "ipv6" => 1 \in U8
      BY <1>1, <2>3, <3>1, EmittedLoads
    <3>3. /\ DOMAIN loads' = DOMAIN loads \cup {name}
          /\ loads'[name] = Emitted(name).code
          /\ \A other \in DOMAIN loads : loads'[other] = loads[other]
      BY <2>1, <2>3 DEF With
    <3>4. LoadsInv'
      BY <1>1, <2>1, <3>1, <3>2, <3>3 DEF LoadsInv
    <3>5. QED
      BY <2>2, <3>4 DEF IInv
  <2>4. CASE ~(ok(Emitted(name)) /\ name \notin DOMAIN loads)
    <3>1. loads' = loads
      BY <2>1, <2>4
    <3>2. LoadsInv'
      BY <1>1, <2>1, <3>1 DEF LoadsInv
    <3>3. QED
      BY <2>2, <3>2 DEF IInv
  <2>5. QED
    BY <2>3, <2>4
<1>6. CASE UNCHANGED rvars
  BY <1>1, <1>6 DEF rvars, IInv, QualifiersInv, CheckedInv, LoadsInv, StatusOK, Verdict,
                    Nameless, Duplicate, PastTheEnd
<1>7. QED
  BY <1>2, <1>3, <1>4, <1>5, <1>6 DEF Next

LEMMA Invariance == Spec => []IInv
<1>1. Init => IInv
  BY InitIInv
<1>2. IInv /\ [Next]_rvars => IInv'
  BY NextIInv
<1>3. QED
  BY <1>1, <1>2, PTL DEF Spec

-----------------------------------------------------------------------------
(* The theorems. *)

\* Every registered field has the size of its type and ends at an offset of 32
\* bits, whatever was passed to register_qualifier.
THEOREM FieldsStayWellDeclared == Spec => []FieldsWellDeclared
<1>1. IInv => FieldsWellDeclared
  BY DEF IInv, QualifiersInv, FieldsWellDeclared
<1>2. QED
  BY <1>1, Invariance, PTL

\* A call of the registry that fails changes nothing, and no entry is ever
\* replaced (register_qualifier, insert_commit).
THEOREM FailedCallsRegisterNothing == Spec => FailureLeavesRegistry
<1> DEFINE A == qualifiers' # qualifiers =>
                  /\ status' = "OK"
                  /\ \E name \in Names \ DOMAIN qualifiers :
                       /\ DOMAIN qualifiers' = DOMAIN qualifiers \cup {name}
                       /\ \A other \in DOMAIN qualifiers : qualifiers'[other] = qualifiers[other]
<1>1. IInv /\ [Next]_rvars => [A]_rvars
  <2> SUFFICES ASSUME IInv, Next, qualifiers' # qualifiers
               PROVE  A
    OBVIOUS
  <2>1. InsertQualifier
    BY DEF Next, CheckQualifier, RegisterThrows, CompileField
  <2>2. PICK desc \in checked :
          status' = "OK" /\ qualifiers' = With(qualifiers, desc.name, Info(desc))
    BY <2>1 DEF InsertQualifier
  <2>3. desc.name \in Names \ DOMAIN qualifiers
    BY Checked DEF IInv, CheckedInv
  <2>4. QED
    BY <2>2, <2>3 DEF With
<1>2. QED
  BY <1>1, Invariance, PTL DEF Spec, FailureLeavesRegistry

-----------------------------------------------------------------------------
(* What the loads of a well-declared field are and read. *)

\* The types with a sign and those of an address have bytes.
LEMMA SizesOfTypes ==
  ASSUME NEW type
  PROVE  /\ type_size(type) \in {0, 1, 2, 4, 8, 16}
         /\ type_size(type) = 16 <=> type = "ipv6"
         /\ SignFlag(type) \in {0, 1}
         /\ SignFlag(type) = 1 => type_size(type) # 0
         /\ SignFlag("ipv6") = 0
<1>1. SignFlag(type) \in {0, 1} /\ SignFlag("ipv6") = 0
  BY DEF SignFlag
<1>2. CASE type \in {"bool", "i8", "u8"}
  BY <1>1, <1>2 DEF type_size, SignFlag
<1>3. CASE type \in {"i16", "u16"}
  BY <1>1, <1>3 DEF type_size, SignFlag
<1>4. CASE type \in {"i32", "u32", "ipv4"}
  BY <1>1, <1>4 DEF type_size, SignFlag
<1>5. CASE type \in {"i64", "u64"}
  BY <1>1, <1>5 DEF type_size, SignFlag
<1>6. CASE type = "ipv6"
  BY <1>1, <1>6 DEF type_size, SignFlag
<1>7. CASE ~(type \in {"bool", "i8", "u8", "i16", "u16", "i32", "u32", "ipv4", "i64", "u64", "ipv6"})
  BY <1>1, <1>7 DEF type_size, SignFlag
<1>8. QED
  BY <1>2, <1>3, <1>4, <1>5, <1>6, <1>7

LEMMA LoadIsSlot ==
  ASSUME NEW reg \in U8, NEW size \in U8, NEW flag \in U8, NEW offset \in I32
  PROVE  Load(reg, size, flag, offset) \in Slot
<1>1. Zero \in Word
  BY DEF Zero, Word, FullByte, Byte, Bit
<1>2. QED
  BY <1>1 DEF Load, Instr, Slot, OpCode

LEMMA LoadReads ==
  ASSUME NEW reg, NEW size \in Nat, NEW flag, NEW offset \in Nat
  PROVE  BytesRead(Load(reg, size, flag, offset)) = offset .. (offset + size - 1)
<1> DEFINE ins == Load(reg, size, flag, offset)
<1>1. ins.b = size /\ aux_u32(ins) = offset
  BY DEF Load, Instr, aux_u32
<1>2. BytesRead(ins) = {offset + k : k \in 0 .. (size - 1)}
  BY <1>1 DEF BytesRead
<1>3. ASSUME NEW byte \in offset .. (offset + size - 1)
      PROVE  byte \in {offset + k : k \in 0 .. (size - 1)}
  <2>1. byte - offset \in 0 .. (size - 1) /\ byte = offset + (byte - offset)
    OBVIOUS
  <2>2. QED
    BY <2>1
<1>4. QED
  BY <1>2, <1>3

\* A registered field, as far as its loads are concerned.
LEMMA FieldFacts ==
  ASSUME IInv, NEW name \in DOMAIN loads
  PROVE  LET info == qualifiers[name]
         IN  /\ name \in DOMAIN qualifiers
             /\ loads[name] = LoadsOf(info)
             /\ info.offset \in Nat /\ LastOffset(info) < AuxHalf
             /\ info.size \in U8 /\ info.size = type_size(info.type)
             /\ info.type = "ipv6" => 1 \in U8
BY BytecodeAssumption DEF IInv, QualifiersInv, LoadsInv, QualifierInfo, WellDeclared, U32Max

LEMMA LoadsAreSlots ==
  ASSUME IInv, NEW name \in DOMAIN loads
  PROVE  \A i \in DOMAIN loads[name] : loads[name][i] \in Slot
<1> DEFINE info == qualifiers[name]
<1>1. /\ loads[name] = LoadsOf(info)
      /\ info.offset \in Nat /\ LastOffset(info) < AuxHalf
      /\ info.size \in U8 /\ info.size = type_size(info.type)
      /\ info.type = "ipv6" => 1 \in U8
  BY FieldFacts
<1>2. 0 \in U8
  BY BytecodeAssumption DEF U8
<1>3. CASE info.type = "ipv6"
  <2>1. info.size = 16
    BY <1>1, <1>3, SizesOfTypes
  <2>2. 8 \in U8
    BY <1>1, <2>1, BytecodeAssumption DEF U8
  <2>3. info.offset \in I32 /\ info.offset + 8 \in I32
    BY <1>1, <1>3, BytecodeAssumption DEF LastOffset, I32
  <2>4. Load(0, 8, 0, info.offset) \in Slot /\ Load(1, 8, 0, info.offset + 8) \in Slot
    BY <1>1, <1>2, <1>3, <2>2, <2>3, LoadIsSlot
  <2>5. QED
    BY <1>1, <1>3, <2>4 DEF LoadsOf
<1>4. CASE info.type # "ipv6"
  <2>1. SignFlag(info.type) \in U8
    BY <1>1, <1>2, SizesOfTypes, BytecodeAssumption DEF U8
  <2>2. info.offset \in I32
    BY <1>1, <1>4, BytecodeAssumption DEF LastOffset, I32
  <2>3. Load(0, info.size, SignFlag(info.type), info.offset) \in Slot
    BY <1>1, <1>2, <2>1, <2>2, LoadIsSlot
  <2>4. QED
    BY <1>1, <1>4, <2>3 DEF LoadsOf
<1>5. QED
  BY <1>3, <1>4

\* Type correctness: every load that is compiled is a slot.
THEOREM TypeCorrect == Spec => []TypeOK
<1>1. IInv => TypeOK
  <2> SUFFICES ASSUME IInv PROVE TypeOK
    OBVIOUS
  <2>1. \A name \in DOMAIN loads : \A i \in DOMAIN loads[name] : loads[name][i] \in Slot
    BY LoadsAreSlots
  <2>2. QED
    BY <2>1 DEF IInv, QualifiersInv, CheckedInv, LoadsInv, StatusOK, TypeOK
<1>2. QED
  BY <1>1, Invariance, PTL

\* Every program reads the bytes of the field as it is registered now, each of
\* them once (insert_check with emit_identifier and emit_ipv6_identifier).
THEOREM ProgramsReadRegisteredFields == Spec => []FieldsReadAsRegistered
<1>1. ASSUME IInv, NEW name \in DOMAIN loads
      PROVE  LET info == qualifiers[name]
                 code == loads[name]
             IN  /\ UNION {BytesRead(code[i]) : i \in DOMAIN code}
                      = info.offset .. (info.offset + info.size - 1)
                 /\ \A i, j \in DOMAIN code : i # j => BytesRead(code[i]) \cap BytesRead(code[j]) = {}
                 /\ \A i \in DOMAIN code : /\ code[i].b \in {1, 2, 4, 8} \/ info.size = 0
                                           /\ code[i].c = SignFlag(info.type)
  <2> DEFINE info == qualifiers[name]
             code == loads[name]
  <2>1. /\ code = LoadsOf(info)
        /\ info.offset \in Nat
        /\ info.size \in Nat /\ info.size = type_size(info.type)
    BY <1>1, FieldFacts DEF U8
  <2>2. CASE info.type = "ipv6"
    <3> DEFINE hi == Load(0, 8, 0, info.offset)
               lo == Load(1, 8, 0, info.offset + 8)
    <3>1. code = <<hi, lo>>
      BY <2>1, <2>2 DEF LoadsOf
    <3>2. info.size = 16 /\ SignFlag(info.type) = 0
      BY <2>1, <2>2, SizesOfTypes
    <3>3. hi.b = 8 /\ hi.c = 0 /\ lo.b = 8 /\ lo.c = 0
      BY DEF Load, Instr
    <3>4. /\ BytesRead(hi) = info.offset .. (info.offset + 7)
          /\ BytesRead(lo) = (info.offset + 8) .. (info.offset + 15)
      BY <2>1, LoadReads
    <3> HIDE DEF hi, lo
    <3>5. UNION {BytesRead(code[i]) : i \in DOMAIN code} = BytesRead(hi) \cup BytesRead(lo)
      BY <3>1
    <3>6. BytesRead(hi) \cup BytesRead(lo) = info.offset .. (info.offset + 15)
      BY <2>1, <3>4
    <3>7. BytesRead(hi) \cap BytesRead(lo) = {}
      BY <2>1, <3>4
    <3>8. QED
      BY <2>1, <3>1, <3>2, <3>3, <3>5, <3>6, <3>7
  <2>3. CASE info.type # "ipv6"
    <3> DEFINE only == Load(0, info.size, SignFlag(info.type), info.offset)
    <3>1. code = <<only>>
      BY <2>1, <2>3 DEF LoadsOf
    <3>2. only.b = info.size /\ only.c = SignFlag(info.type)
      BY DEF Load, Instr
    <3>3. BytesRead(only) = info.offset .. (info.offset + info.size - 1)
      BY <2>1, LoadReads
    <3>4. info.size \in {0, 1, 2, 4, 8}
      BY <2>1, <2>3, SizesOfTypes
    <3> HIDE DEF only
    <3>5. UNION {BytesRead(code[i]) : i \in DOMAIN code} = BytesRead(only)
      BY <3>1
    <3>6. QED
      BY <3>1, <3>2, <3>3, <3>4, <3>5
  <2>4. QED
    BY <2>2, <2>3
<1>2. IInv => FieldsReadAsRegistered
  BY <1>1 DEF FieldsReadAsRegistered
<1>3. QED
  BY <1>2, Invariance, PTL
=============================================================================
