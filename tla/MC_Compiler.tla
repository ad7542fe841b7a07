---------------------------- MODULE MC_Compiler -----------------------------
(***************************************************************************)
(* Small instances of the compiler: every expression of two levels over    *)
(* all kinds of leaves, three levels over fewer leaves and operators, and  *)
(* chains that lean to one side.                                           *)
(***************************************************************************)
EXTENDS Compiler

Info(type, offset, size) == [type |-> type, offset |-> offset, size |-> size]

\* One qualifier of each kind, and one whose offset does not fit an int32_t.
MCRegistry ==
  [n \in {"num", "neg", "flag", "v4", "v6", "far"} |->
     CASE n = "num"  -> Info("u8", 0, 1)
       [] n = "neg"  -> Info("i16", 0, 2)
       [] n = "flag" -> Info("bool", 1, 1)
       [] n = "v4"   -> Info("ipv4", 0, 4)
       [] n = "v6"   -> Info("ipv6", 2, 16)
       [] n = "far"  -> Info("u32", AuxHalf, 4)]

Word1 == BoolWord(TRUE)

Id(n)     == [kind |-> "Identifier", ident |-> n]
Lit(w)    == [kind |-> "Integer", value |-> w]
Truth_(b) == [kind |-> "Boolean", value |-> b]
V4(v)     == [kind |-> "Ipv4", value |-> v]
V6(v)     == [kind |-> "Ipv6", value |-> v]
Neg(e)    == [kind |-> "Not", left |-> e]
Op(k, l, r) == [kind |-> k, left |-> l, right |-> r]

AllLeaves ==
  {Id(n) : n \in DOMAIN MCRegistry \cup {"none"}}
    \cup {Lit(Zero), Truth_(TRUE), V4(Word1), V4(Malformed),
          V6([hi |-> Word1, lo |-> Zero]), V6(Malformed)}

Compound(kinds, L, R) ==
  UNION {{Neg(e) : e \in L}, {Op(k, l, r) : k \in kinds, l \in L, r \in R}}

TwoLevels == UNION {AllLeaves, Compound(Binary, AllLeaves, AllLeaves)}

\* Three levels: integers, a boolean, and address comparisons.
SomeLeaves == {Id("num"), Id("flag"), Lit(Zero)}
SomeKinds  == {"And", "Or", "Lt", "BitAnd"}
Two        == SomeLeaves \cup Compound(SomeKinds, SomeLeaves, SomeLeaves)
                \cup {Op("Ne", Id("v6"), Id("v6")), Op("Eq", Id("v4"), V4(Word1))}
Three      == Compound(SomeKinds, Two, Two)

\* Three levels whose operands have different faults.
Faulty     == {Id("none"), Id("v6"), V4(Malformed),
               Op("BitAnd", Id("none"), Id("flag")), Op("Lt", Id("v4"), Lit(Zero)),
               Op("Eq", V4(Malformed), Id("v4")), Op("Ne", Id("v6"), V6(Malformed)), Neg(Id("v4"))}
TwoFaults  == Faulty \cup Compound(Binary, Faulty \cup {Id("flag")}, Faulty \cup {Id("flag")})

\* A chain of n operators whose operands nest to the right.
Chain(k, leaf, n) ==
  LET C[i \in 0 .. n] == IF i = 0 THEN leaf ELSE Op(k, leaf, C[i - 1])
  IN  {C[i] : i \in 0 .. n}

Chains == UNION {Chain(k, leaf, 9) : k \in {"And", "Or", "Eq", "BitOr"}, leaf \in SomeLeaves}

AllExpr == UNION {TwoLevels, Two, Three, TwoFaults, Chains}

\* The expression for the run that checks the range of offsets.
FarExpr == {Id("far")}

\* The constants' values: TLC evaluates the sets above only once.
MCExpr       == AllExpr
MCFarExpr    == FarExpr
MCRegistries == {MCRegistry}
=============================================================================
