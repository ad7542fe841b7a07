----------------------------- MODULE Evaluator ------------------------------
(***************************************************************************)
(* What a filter expression means, without registers, jumps or bytes of    *)
(* code: its static type, its value on a context, and the number of        *)
(* registers its evaluation needs.  The compiler and the machine are       *)
(* checked against these definitions.                                      *)
(*                                                                         *)
(* A boolean is a boolean, an integer a mathematical integer in the range  *)
(* of int64_t, an address the tuple of its bytes.                          *)
(***************************************************************************)
EXTENDS Codegen, Functions, FiniteSetsExt

CONSTANTS
  Expr,       \* expression nodes, children included
  Registries  \* the registries they may be compiled against

Leaves    == {"Identifier", "Integer", "Boolean", "Ipv4", "Ipv6"}
Logical   == {"And", "Or"}
Comparing == {"Eq", "Ne", "Gt", "Lt", "Ge", "Le"}
Bitwise   == {"BitAnd", "BitOr"}
Binary    == Logical \cup Comparing \cup Bitwise

ASSUME ExprAssumption ==
  /\ \A e \in Expr : e.kind \in Leaves \cup {"Not"} \cup Binary
  /\ \A e \in Expr : e.kind \in Binary \cup {"Not"} => e.left \in Expr
  /\ \A e \in Expr : e.kind \in Binary => e.right \in Expr
  /\ \A e \in Expr : e.kind = "Integer" => e.value \in Word
  /\ \A e \in Expr : e.kind = "Boolean" => e.value \in BOOLEAN
  /\ \A e \in Expr : e.kind = "Ipv4" => e.value \in Word \cup {Malformed}
  /\ \A e \in Expr : e.kind = "Ipv6" => e.value \in [hi : Word, lo : Word] \cup {Malformed}
  /\ \A r \in Registries : \A name \in DOMAIN r :
       /\ r[name].offset \in Nat
       /\ r[name].type # "ipv6" => r[name].size \in U8
  /\ MaxRegisterCount > 8  \* an operand can hold the size of a load

\* The operands of an operator.
Children(e) ==
  CASE e.kind = "Not"     -> {e.left}
    [] e.kind \in Binary -> {e.left, e.right}
    [] OTHER              -> {}

\* The number of operators on the longest way from e to a leaf.
Height ==
  LET Of[e \in Expr] ==
        IF Children(e) = {} THEN 0 ELSE 1 + Max({Of[x] : x \in Children(e)})
  IN  Of

\* An expression is a finite tree.
ASSUME TreeAssumption ==
  LET h == Height
  IN  \A e \in Expr : h[e] \in Nat /\ \A x \in Children(e) : h[x] < h[e]

-----------------------------------------------------------------------------
(* Types. *)

\* The static type of e, given the types T of its operands: "Error" for an
\* expression that must be refused.
TypeFrom(r, T, e) ==
  CASE e.kind = "Identifier" -> IF e.ident \in DOMAIN r
                                THEN qualifier_value_type(r[e.ident].type) ELSE "Error"
    [] e.kind = "Integer" -> "Int"
    [] e.kind = "Boolean" -> "Bool"
    [] e.kind \in {"Ipv4", "Ipv6"} -> IF e.value = Malformed THEN "Error" ELSE e.kind
    [] e.kind = "Not" -> IF T[e.left] \in {"Bool", "Int"} THEN "Bool" ELSE "Error"
    [] e.kind \in Logical ->
         IF {T[e.left], T[e.right]} \subseteq {"Bool", "Int"} THEN "Bool" ELSE "Error"
    [] e.kind \in Bitwise ->
         IF {T[e.left], T[e.right]} = {"Int"} THEN "Int" ELSE "Error"
    [] e.kind \in Comparing ->
         LET types == {T[e.left], T[e.right]}
         IN  IF \/ types \subseteq {"Bool", "Int"}
                \/ types \in {{"Ipv4"}, {"Ipv6"}} /\ e.kind \in {"Eq", "Ne"}
             THEN "Bool" ELSE "Error"

\* The types of all expressions.
TypeIn(r) ==
  LET Type[e \in Expr] == TypeFrom(r, Type, e)
  IN  Type

\* The program must return a boolean or an integer.
WellTyped(e, r) == TypeIn(r)[e] \in {"Bool", "Int"}

\* The first of some faults, in the order they are met.
FirstOf(faults) ==
  LET met == SelectSeq(faults, LAMBDA f : f # "none")
  IN  IF met = <<>> THEN "none" ELSE met[1]

When(condition, fault) == IF condition THEN fault ELSE "none"

AddressTypes == {"Ipv4", "Ipv6"}

\* The kind of address a leaf stands for, well-formed or not.
AddressOf(r, e) ==
  CASE e.kind \in AddressTypes -> e.kind
    [] e.kind = "Identifier" /\ e.ident \in DOMAIN r -> qualifier_value_type(r[e.ident].type)
    [] OTHER -> "Int"

\* The fault met first in e, read from left to right, given the types T and the
\* faults F of its operands.  A comparison looks at names and kinds of
\* addresses before it looks at its operands; IPv6 values are no operands of
\* anything else.
FaultFrom(r, T, F, e) ==
  LET Unknown(x) == x.kind = "Identifier" /\ x.ident \notin DOMAIN r
      NoTruth(x) == When(T[x] \in AddressTypes, "type mismatch")
      kinds == {AddressOf(r, x) : x \in Children(e)}
      mixed == /\ kinds \cap AddressTypes # {}
               /\ Cardinality(kinds) > 1 \/ e.kind \notin {"Eq", "Ne"}
  IN  CASE e.kind \in {"Identifier", "Ipv4", "Ipv6"} ->
             FirstOf(<<When(Unknown(e), "not found"),
                       When(AddressOf(r, e) = "Ipv6", "type mismatch"),
                       When(e.kind = "Ipv4" /\ T[e] = "Error", "bad literal")>>)
        [] e.kind = "Not"     -> FirstOf(<<F[e.left], NoTruth(e.left)>>)
        [] e.kind \in Logical ->
             FirstOf(<<F[e.left], NoTruth(e.left), F[e.right], NoTruth(e.right)>>)
        [] e.kind \in Bitwise ->
             FirstOf(<<F[e.left], F[e.right],
                       When({T[e.left], T[e.right]} # {"Int"}, "type mismatch")>>)
        [] e.kind \in Comparing ->
             FirstOf(<<When(\E x \in Children(e) : Unknown(x), "not found"),
                       When(mixed, "type mismatch")>> \o
                     IF kinds = {"Ipv6"}
                     THEN <<When("Error" \in {T[e.left], T[e.right]}, "bad literal")>>
                     ELSE <<F[e.left], F[e.right]>>)
        [] OTHER -> "none"

\* The first fault of each expression that is compiled to a program.
FaultIn(r) ==
  LET T == TypeIn(r)
      Fault[e \in Expr] == FaultFrom(r, T, Fault, e)
  IN  [e \in Expr |-> FirstOf(<<Fault[e], When(T[e] \in AddressTypes, "type mismatch")>>)]

\* The names in an expression, and whether all their fields can be loaded: one
\* of no type of the API is registered with size 0.
NamesIn ==
  LET Of[e \in Expr] ==
        IF e.kind = "Identifier" THEN {e.ident} ELSE UNION {Of[x] : x \in Children(e)}
  IN  Of

Loadable(e, r) == \A name \in NamesIn[e] : r[name].size # 0

-----------------------------------------------------------------------------
(* Registers. *)

\* The most registers that are in use at one time while an expression is
\* evaluated left to right, given the types T of its operands and the number N
\* each of them needs.  Making a boolean of an integer takes the integer, a
\* zero and the result; an IPv6 comparison two registers for each side and one
\* for the first result.
NeedBool(T, N, e) == IF T[e] = "Int" THEN Max({N[e], 3}) ELSE N[e]

NeedFrom(T, N, e) ==
  CASE e.kind \in Leaves  -> 1
    [] e.kind = "Not"     -> Max({NeedBool(T, N, e.left), 2})
    [] e.kind \in Logical -> Max({NeedBool(T, N, e.left), 2, 1 + NeedBool(T, N, e.right)})
    [] e.kind \in Comparing \cup Bitwise ->
         CASE T[e.left] = "Ipv6" -> 5
           [] T[e.left] # "Ipv6" /\ T[e.left] # T[e.right] ->
                Max({N[e.left], 1 + N[e.right], 4})
           [] OTHER -> Max({N[e.left], 1 + N[e.right], 3})

\* The registers every expression needs, and with the one it returns.
NeedOf(r) ==
  LET T == TypeIn(r)
      Need[e \in Expr] == NeedFrom(T, Need, e)
  IN  Need

NeedIn(r) ==
  LET T == TypeIn(r)
      N == NeedOf(r)
  IN  [e \in Expr |-> NeedBool(T, N, e)]

-----------------------------------------------------------------------------
(* Values. *)

WordBits == 8 * ByteBits

\* The bits of a sequence of bytes, least significant first, as a number.
Unsigned(bytes) ==
  LET Acc[n \in 0 .. Len(bytes) * ByteBits] ==
        IF n = 0 THEN 0
        ELSE Acc[n - 1] + bytes[((n - 1) \div ByteBits) + 1][(n - 1) % ByteBits] * 2 ^ (n - 1)
  IN  Acc[Len(bytes) * ByteBits]

\* The same number read as two's complement of the given number of bits.
AsSigned(n, bits) == IF n >= 2 ^ (bits - 1) THEN n - 2 ^ bits ELSE n

Bytes(w) == [j \in 1 .. 8 |-> w[j - 1]]
Int64(w) == AsSigned(Unsigned(Bytes(w)), WordBits)

BitOf(n, k) == (n \div 2 ^ k) % 2

\* op on the two's complement bits of x and y.
OnBits(op, x, y) ==
  LET Acc[k \in 0 .. WordBits] ==
        IF k = 0 THEN 0
        ELSE LET bits == <<BitOf(x, k - 1), BitOf(y, k - 1)>>
                 bit  == IF op = "BitAnd" THEN bits = <<1, 1>> ELSE bits # <<0, 0>>
             IN  Acc[k - 1] + (IF bit THEN 2 ^ (k - 1) ELSE 0)
  IN  AsSigned(Acc[WordBits], WordBits)

Ordered(op, x, y) ==
  CASE op = "Eq" -> x = y
    [] op = "Ne" -> x # y
    [] op = "Gt" -> x > y
    [] op = "Lt" -> x < y
    [] op = "Ge" -> x >= y
    [] op = "Le" -> x <= y

FieldBytes(mem, info, size) == [j \in 1 .. size |-> mem[info.offset + j - 1]]

\* The value of a field of the context.  A 64-bit unsigned field is read as
\* int64_t, as every integer of an expression is.
FieldValue(mem, info) ==
  LET bytes == FieldBytes(mem, info, info.size)
      n     == Unsigned(bytes)
  IN  CASE info.type = "bool" -> n # 0
        [] info.type \in {"ipv4", "ipv6"} -> bytes
        [] info.type \in {"i8", "i16", "i32", "i64", "u64"} -> AsSigned(n, info.size * ByteBits)
        [] OTHER -> n

\* The value of a well-typed expression on a context.
ValueIn(r, mem) ==
  LET Type == TypeIn(r)
      Val[e \in Expr] ==
        LET Holds(x) == IF Type[x] = "Int" THEN Val[x] # 0 ELSE Val[x]
            Rank(x)  == IF Holds(x) THEN 1 ELSE 0
        IN  CASE e.kind = "Identifier" -> FieldValue(mem, r[e.ident])
              [] e.kind = "Integer" -> Int64(e.value)
              [] e.kind = "Boolean" -> e.value
              [] e.kind = "Ipv4" -> SubSeq(Bytes(e.value), 1, 4)
              [] e.kind = "Ipv6" -> Bytes(e.value.hi) \o Bytes(e.value.lo)
              [] e.kind = "Not" -> ~Holds(e.left)
              [] e.kind = "And" -> Holds(e.left) /\ Holds(e.right)
              [] e.kind = "Or"  -> Holds(e.left) \/ Holds(e.right)
              [] e.kind \in Bitwise -> OnBits(e.kind, Val[e.left], Val[e.right])
              [] OTHER ->
                   IF "Bool" \in {Type[e.left], Type[e.right]}
                   THEN Ordered(e.kind, Rank(e.left), Rank(e.right))
                   ELSE Ordered(e.kind, Val[e.left], Val[e.right])
  IN  Val

\* What the program of a well-typed expression must answer.
Truth(e, r, mem) ==
  LET v == ValueIn(r, mem)[e]
  IN  IF TypeIn(r)[e] = "Int" THEN v # 0 ELSE v
=============================================================================
