------------------------------ MODULE Registry ------------------------------
(***************************************************************************)
(* A qualifier registry over its life: fields are declared one at a time   *)
(* (mbpf_register_qualifier, src/registry/qualifier_registry.cpp) and      *)
(* expressions that name them are compiled in between.  A program keeps    *)
(* the offset, size and sign of a field, not the registry.                 *)
(***************************************************************************)
EXTENDS Codegen, FiniteSets

CONSTANTS
  Names,     \* the names of fields
  NoName,    \* a null or empty name
  Types,     \* the values a caller passes for a type, "other" for a bad one
  Offsets,   \* the offsets and
  Sizes      \* the sizes he may declare

U32Max == 2 * AuxHalf - 1

ASSUME RegistryAssumption ==
  /\ NoName \notin Names
  /\ Offsets \subseteq 0 .. U32Max
  /\ Sizes \subseteq U8
  /\ U32Max >= 255

Descriptions == [name : Names \cup {NoName}, type : Types, offset : Offsets, size : Sizes]
QualifierInfo == [type : Types, offset : 0 .. U32Max, size : U8]

VARIABLES
  qualifiers,  \* qualifiers_: the info of each registered name
  checked,     \* the description in register_qualifier that passed its checks, if any
  status,      \* what the last call returned, "none" before it returns
  loads        \* the LoadFields compiled for each name so far

rvars == <<qualifiers, checked, status, loads>>

Init ==
  /\ qualifiers = <<>>
  /\ checked = {}
  /\ status = "none"
  /\ loads = <<>>

-----------------------------------------------------------------------------
(* register_qualifier.  What a description is refused for, in the order the *)
(* code asks.                                                               *)

\* Mistakes: an empty name is a name; the name is not looked up; the sum is
\* computed in 32 bits.
NullOnly(desc) == FALSE
AnyName(desc) == FALSE
WrappedSum(desc) == (desc.offset + desc.size) % (2 * AuxHalf) > U32Max

Nameless(desc) == desc.name = NoName
Duplicate(desc) == desc.name \in DOMAIN qualifiers
PastTheEnd(desc) == desc.offset > U32Max - desc.size

Verdict(desc) ==
  CASE Nameless(desc)                      -> "INVALID_ARG"
    [] Duplicate(desc)                     -> "DUP_QUALIFIER"
    [] desc.size # type_size(desc.type)    -> "INVALID_ARG"
    [] PastTheEnd(desc)                    -> "INVALID_ARG"
    [] OTHER                               -> "none"

With(f, x, v) == [y \in DOMAIN f \cup {x} |-> IF y = x THEN v ELSE f[y]]
Info(desc) == [type |-> desc.type, offset |-> desc.offset, size |-> desc.size]

\* Mistake: the entry is inserted as soon as its name is found to be new, before
\* the other checks and before it is allocated.
InsertAtOnce ==
  /\ checked = {}
  /\ \E desc \in Descriptions :
       /\ status' = Verdict(desc)
       /\ checked' = IF Verdict(desc) = "none" THEN {desc} ELSE {}
       /\ qualifiers' = IF Nameless(desc) \/ Duplicate(desc) THEN qualifiers
                        ELSE With(qualifiers, desc.name, Info(desc))
  /\ UNCHANGED loads

\* The checks: the call returns, or has found the place for the new entry.
CheckQualifier ==
  /\ checked = {}
  /\ \E desc \in Descriptions :
       /\ status' = Verdict(desc)
       /\ checked' = IF Verdict(desc) = "none" THEN {desc} ELSE {}
  /\ UNCHANGED <<qualifiers, loads>>

\* The entry is made and linked in at that place.
InsertQualifier ==
  \E desc \in checked :
    /\ qualifiers' = With(qualifiers, desc.name, Info(desc))
    /\ status' = "OK"
    /\ checked' = {}
    /\ UNCHANGED loads

\* A name, a message or the entry cannot be allocated: the exception ends the
\* call where it is and becomes a status.
RegisterThrows ==
  /\ status' = "INVALID_ARG"
  /\ checked' = {}
  /\ UNCHANGED <<qualifiers, loads>>

\* The code that a comparison loads the field called name with, in registers
\* that do not matter here.
Emitted(name) ==
  IF name \in DOMAIN qualifiers /\ qualifiers[name].type = "ipv6"
  THEN emit_ipv6_identifier(NewGen, qualifiers, name).gen
  ELSE emit_identifier(NewGen, qualifiers, name).gen

\* mbpf_compile_expression of an expression that compares that field.
CompileField ==
  /\ checked = {}
  /\ \E name \in Names :
       LET g == Emitted(name)
       IN /\ status' = CASE ok(g)                 -> "OK"
                         [] g.error = "not found" -> "QUALIFIER_NOT_FOUND"
                         [] OTHER                 -> "CODEGEN"
          /\ loads' = IF ok(g) /\ name \notin DOMAIN loads THEN With(loads, name, g.code) ELSE loads
          /\ UNCHANGED <<qualifiers, checked>>

Next == CheckQualifier \/ InsertQualifier \/ RegisterThrows \/ CompileField

Spec == Init /\ [][Next]_rvars

-----------------------------------------------------------------------------
(* Properties. *)

\* Type invariant; nothing without a name is registered.
TypeOK ==
  /\ DOMAIN qualifiers \subseteq Names
  /\ \A name \in DOMAIN qualifiers : qualifiers[name] \in QualifierInfo
  /\ checked \subseteq Descriptions
  /\ status \in {"none", "OK", "INVALID_ARG", "DUP_QUALIFIER", "QUALIFIER_NOT_FOUND", "CODEGEN"}
  /\ DOMAIN loads \subseteq DOMAIN qualifiers
  /\ \A name \in DOMAIN loads : \A i \in DOMAIN loads[name] : loads[name][i] \in Slot

\* What the code generator and the machine rely on: a field has the size of
\* its type, and its last byte has an offset that does not wrap around.
FieldsWellDeclared == WellDeclared(qualifiers)

BytesRead(ins) == {aux_u32(ins) + k : k \in 0 .. (ins.b - 1)}

\* A program compiled at any time reads the bytes of the field as it is
\* registered now, each of them once, in loads the verifier accepts and with
\* the sign of its type: a name is declared once and for good.  A field of no
\* type of the API has no bytes to read.
FieldsReadAsRegistered ==
  \A name \in DOMAIN loads :
    LET info == qualifiers[name]
        code == loads[name]
    IN  /\ UNION {BytesRead(code[i]) : i \in DOMAIN code}
             = info.offset .. (info.offset + info.size - 1)
        /\ \A i, j \in DOMAIN code : i # j => BytesRead(code[i]) \cap BytesRead(code[j]) = {}
        /\ \A i \in DOMAIN code : /\ code[i].b \in {1, 2, 4, 8} \/ info.size = 0
                                  /\ code[i].c = SignFlag(info.type)

\* A call that fails has registered nothing, also when it ran out of memory
\* after its checks, and one that succeeds leaves all other fields alone.
FailureLeavesRegistry ==
  [][qualifiers' # qualifiers =>
       /\ status' = "OK"
       /\ \E name \in Names \ DOMAIN qualifiers :
            /\ DOMAIN qualifiers' = DOMAIN qualifiers \cup {name}
            /\ \A other \in DOMAIN qualifiers : qualifiers'[other] = qualifiers[other]]_rvars
=============================================================================
