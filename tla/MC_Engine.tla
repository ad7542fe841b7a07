----------------------------- MODULE MC_Engine ------------------------------
(***************************************************************************)
(* Small instances of the engine.  Two-bit bytes make a word 16 bits wide: *)
(* u8 is 0 .. 3, i8 is -2 .. 1.                                            *)
(***************************************************************************)
EXTENDS Engine

Info(type, offset, size) == [type |-> type, offset |-> offset, size |-> size]

SomeRegistry ==
  [n \in {"u8", "i8", "u16", "i16", "u32", "i32", "i64", "m", "n", "flag", "v4", "v6", "bad"} |->
     CASE n = "u8"   -> Info("u8", 1, 1)
       [] n = "i8"   -> Info("i8", 1, 1)
       [] n = "u16"  -> Info("u16", 1, 2)
       [] n = "i16"  -> Info("i16", 2, 2)
       [] n = "u32"  -> Info("u32", 0, 4)
       [] n = "i32"  -> Info("i32", 0, 4)
       [] n = "i64"  -> Info("i64", 8, 8)
       [] n = "m"    -> Info("u64", 16, 8)
       [] n = "n"    -> Info("u64", 24, 8)
       [] n = "flag" -> Info("bool", 0, 1)
       [] n = "v4"   -> Info("ipv4", 2, 4)
       [] n = "v6"   -> Info("ipv6", 4, 16)
       [] n = "bad"  -> Info("other", 3, 0)]

\* A byte and a word from their numbers.
B(n) == [k \in BitPos |-> (n \div 2 ^ k) % 2]
W(n) == [j \in BytePos |-> B((n \div 2 ^ (ByteBits * j)) % 2 ^ ByteBits)]

Id(n)    == [kind |-> "Identifier", ident |-> n]
Lit(n)   == [kind |-> "Integer", value |-> W(n)]
Bool(b)  == [kind |-> "Boolean", value |-> b]
V4(n)    == [kind |-> "Ipv4", value |-> W(n)]
V6(h, l) == [kind |-> "Ipv6", value |-> [hi |-> W(h), lo |-> W(l)]]
Neg(e)   == [kind |-> "Not", left |-> e]
Op(k, l, r) == [kind |-> k, left |-> l, right |-> r]

Compound(kinds, L, R) ==
  UNION {{Neg(e) : e \in L}, {Op(k, l, r) : k \in kinds, l \in L, r \in R}}

\* Every operator on every pair of numbers and on every pair of addresses; the
\* literals are the edges of the fields' ranges, an all-ones word, and
\* addresses that occur in a context.
Numbers   == {Id("u8"), Id("i8"), Id("i64"), Id("flag"), Lit(0), Lit(3), Lit(2 ^ 16 - 1), Bool(TRUE)}
Addresses == {Id("v4"), Id("v6"), V4(2 + 4 * 3), V6(0, 5), V6(0, 0)}
AllLeaves == UNION {Numbers, Addresses, {Id("m")}}

TwoLevels ==
  UNION {AllLeaves, Compound(Binary, Numbers, Numbers), Compound({"Eq", "Ne", "Lt"}, Addresses, Addresses)}

\* Fields of every width between, against numbers of either sign.
Middle   == {Id("u16"), Id("i16"), Id("u32"), Id("i32")}
Extended == Compound({"Lt", "Eq", "BitAnd"}, Middle, Middle \cup {Lit(0), Lit(2 ^ 16 - 1), Id("i8")})

\* Control flow: logical operators nested on both sides, over operands that
\* are true, false, boolean and integer.
SomeLeaves == {Id("flag"), Id("u8")}
Two   == UNION {SomeLeaves, Compound({"And", "Or"}, SomeLeaves, SomeLeaves)}
Three == Compound({"And", "Or"}, Two, Two)

\* A field of no type, also where its value would not be asked for.
Typeless == Compound({"Lt", "Or", "BitAnd"}, {Id("bad"), Bool(TRUE)}, {Id("bad"), Id("v4")})

AllExpr == UNION {TwoLevels, Middle, Extended, Two, Three, Typeless, {Id("bad")}}

Mem(f) == [i \in 0 .. 2 * AuxHalf + 6 |-> IF i \in DOMAIN f THEN B(f[i]) ELSE B(0)]

\* All bytes zero; a true flag and numbers that are negative when signed; a
\* most negative i64, an address, and the largest power of 2 in a u64.
SomeContexts ==
  { Mem(<<>>),
    Mem([i \in {0, 1, 2, 3, 12} |-> CASE i = 0 -> 1 [] i = 12 -> 1 [] OTHER -> 3]),
    Mem([i \in {2, 3, 12, 15, 31} |-> CASE i = 2 -> 2 [] i = 3 -> 3 [] i = 12 -> 1 [] OTHER -> 2]) }

\* Expressions for the temporal property, and for the runs about fields of
\* type u64 and about compile options.
SomeExpr   == UNION {Two, Three}
U64Expr    == {Id("m"), Id("n"), Op("Lt", Id("m"), Id("n"))}
FoldExpr   == {Bool(TRUE), Op("And", Bool(TRUE), Bool(TRUE))}
AllOptions == {"const_folding", "short_circuit", "dead_code_elim"}

\* The constants' values: TLC evaluates the sets above only once.
MCExpr       == AllExpr
MCLiveExpr   == SomeExpr
MCU64Expr    == U64Expr
MCFoldExpr   == FoldExpr
MCNoOptions  == {{}}
MCAllOptions == {AllOptions}
MCRegistries == {SomeRegistry}
MCContexts   == SomeContexts
=============================================================================
