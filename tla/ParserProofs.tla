---------------------------- MODULE ParserProofs ----------------------------
(***************************************************************************)
(* What holds of the parse of every text, for any tokens, any length and   *)
(* any limit of the parser's stack: first of memory, that texts are freed  *)
(* and nodes owned once, then of the grammar, that the parser accepts the  *)
(* expressions and nothing else.                                           *)
(***************************************************************************)
EXTENDS Parser, SequenceTheorems, FiniteSetTheorems, WellFoundedInduction, TLAPS

(***************************************************************************)
(* The inductive invariant, first of the stack: which symbol may stand     *)
(* beneath which.  It says that a rule finds on the stack what it pops,    *)
(* that a text is nowhere but at the top and that the input stands alone.  *)
(***************************************************************************)

Operators == DOMAIN OperatorKind
Leaves    == DOMAIN LeafKind

\* What an expression may begin after.
Openings == {"bottom", "(", "!"} \cup Operators

MayStandOn(below, sym) ==
  \/ sym \in Leaves \cup {"(", "!", "primary", "unary_expr"} /\ below \in Openings
  \/ sym = "bitwise_expr" /\ below \in {"bottom", "(", "AND", "OR"} \cup Compares
  \/ sym = "comparison_expr" /\ below \in {"bottom", "(", "AND", "OR"}
  \/ sym = "and_expr" /\ below \in {"bottom", "(", "OR"}
  \/ sym \in {"or_expr", "expr"} /\ below \in {"bottom", "("}
  \/ sym = "input" /\ below = "bottom"
  \/ sym \in Bitwises \cup Compares /\ below = "bitwise_expr"
  \/ sym = "AND" /\ below = "and_expr"
  \/ sym = "OR" /\ below = "or_expr"
  \/ sym = ")" /\ below = "expr"
  \/ sym = "$end" /\ below = "input"

\* Two symbols down, where that matters as well.
MayFollow(lower, sym) ==
  /\ sym = ")" => lower = "("
  /\ sym \in Compares => lower \notin Compares

Symbols == Terminals \cup Nonterminals
Values  == {token.value : token \in Tokens} \cup Nat
Symbol  == [sym : Symbols, val : Values]

\* The symbol at place i of a stack.
SymAt(s, i) == IF i \in 1 .. Len(s) THEN s[i].sym ELSE "bottom"

Shape(s) ==
  \A i \in 1 .. Len(s) :
    /\ MayStandOn(SymAt(s, i - 1), s[i].sym)
    /\ MayFollow(SymAt(s, i - 2), s[i].sym)

\* Symbols after which no token is asked for.
Closing == Leaves \cup {")", "$end"}

StackInv ==
  /\ stack \in Seq(Symbol)
  /\ Len(stack) < MaxDepth
  /\ Shape(stack)
  /\ Below(0) \in Closing => lookahead = NoToken

(***************************************************************************)
(* Of the tokens and their texts: at most one copy exists, and it is that  *)
(* of the token read last.                                                 *)
(***************************************************************************)

HasText == lookahead.sym \in Texts \/ Below(0) \in Texts

TokenInv ==
  /\ read \in Seq(Tokens \cup {EndToken})
  /\ lookahead \in Tokens \cup {EndToken, NoToken}
  /\ Len(read) <= MaxTokens + 1
  /\ phase = "parse" /\ Len(read) = MaxTokens + 1 => lookahead = EndToken \/ Below(0) = "$end"
  /\ Below(0) \in Texts => stack[Len(stack)].val = Len(read)
  /\ HasText => Len(read) # 0
  /\ strings = IF HasText THEN {Len(read)} ELSE {}

(***************************************************************************)
(* Of the nodes: each has at most one owner, a symbol of the stack, the    *)
(* result or another node, and none lost its owner unless by an error.     *)
(***************************************************************************)

Kinds == {LeafKind[t] : t \in Leaves} \cup {OperatorKind[t] : t \in Operators} \cup {"Not"}
Node  == [kind : Kinds, value : Values, children : Seq(Nat)]

OnStack(n) == {i \in DOMAIN stack : stack[i].sym \in Nonterminals /\ stack[i].val = n}
Edges(n) ==
  {edge \in (DOMAIN nodes \ deleted) \X {1, 2} :
     /\ edge[2] \in DOMAIN nodes[edge[1]].children
     /\ nodes[edge[1]].children[edge[2]] = n}

OwnedOnce(n) ==
  /\ \A i, j \in OnStack(n) : i = j
  /\ \A e, f \in Edges(n) : e = f
  /\ OnStack(n) = {} \/ Edges(n) = {}
  /\ root = n => OnStack(n) = {} /\ Edges(n) = {}
Unowned(n) == OnStack(n) = {} /\ Edges(n) = {} /\ root # n

NodeInv ==
  /\ nodes \in Seq(Node)
  /\ \A n \in DOMAIN nodes :
       /\ Len(nodes[n].children) <= 2
       /\ \A c \in DOMAIN nodes[n].children : nodes[n].children[c] \in 1 .. (n - 1)
  /\ \A i \in DOMAIN stack :
       /\ stack[i].sym \in Nonterminals \ {"input"} => stack[i].val \in DOMAIN nodes
       /\ stack[i].sym = "input" => stack[i].val = 0
  /\ root \in {0} \cup DOMAIN nodes
  /\ deleted \subseteq DOMAIN nodes
  /\ \A n \in DOMAIN nodes : OwnedOnce(n)
  /\ \A n \in DOMAIN nodes \ deleted : error = "none" => ~Unowned(n)
  /\ \A n \in deleted : Unowned(n)

Failures == {"syntax error", "memory exhausted"}

PhaseInv ==
  /\ error \in {"none"} \cup Failures
  /\ phase \in {"parse", "returned", "done"}
  /\ phase = "parse" => error = "none" /\ (root # 0 => Below(0) \in {"input", "$end"})
  /\ phase # "parse" => stack = <<>> /\ lookahead = NoToken
  /\ phase # "done" => deleted = {}
  /\ phase = "done" => root = 0

IInv == StackInv /\ TokenInv /\ NodeInv /\ PhaseInv

-----------------------------------------------------------------------------
(* The grammar's symbols and stacks of them. *)

LEMMA SymbolSets ==
  /\ Leaves = {"IDENT", "INTEGER", "BOOLEAN", "IPV4", "IPV6"}
  /\ Operators = {"OR", "AND", "EQ", "NE", "GT", "LT", "GE", "LE", "BIT_AND", "BIT_OR"}
  /\ DOMAIN Widened = {"primary", "unary_expr", "bitwise_expr", "comparison_expr", "and_expr",
                       "or_expr", "expr"}
BY DEF Leaves, LeafKind, Operators, OperatorKind, Widened

\* No symbol is both, and "bottom" is none; junk is on no stack.
LEMMA SymbolKinds ==
  /\ Terminals = Leaves \cup Operators \cup {"(", ")", "!", "junk", "$end"}
  /\ Terminals \cap Nonterminals = {}
  /\ "bottom" \notin Symbols /\ "none" \notin Symbols
  /\ Texts \subseteq Leaves
  /\ DOMAIN Widened = Nonterminals \ {"input"}
BY SymbolSets DEF Terminals, Nonterminals, Symbols, Texts, Leaves, Operators

LEMMA WidenedIs ==
  /\ Widened["primary"] = "unary_expr" /\ Widened["unary_expr"] = "bitwise_expr"
  /\ Widened["bitwise_expr"] = "comparison_expr" /\ Widened["comparison_expr"] = "and_expr"
  /\ Widened["and_expr"] = "or_expr" /\ Widened["or_expr"] = "expr"
BY DEF Widened

LEMMA BelowIs ==
  ASSUME stack \in Seq(Symbol), NEW n \in Nat
  PROVE  /\ Below(n) = SymAt(stack, Len(stack) - n)
         /\ Below(n) # "bottom" => Len(stack) > n /\ Below(n) = stack[Len(stack) - n].sym
         /\ Len(stack) > n => Below(n) \in Symbols /\ Below(n) # "bottom"
<1>1. Len(stack) \in Nat
  OBVIOUS
<1>2. CASE Len(stack) > n
  <2>1. Len(stack) - n \in 1 .. Len(stack)
    BY <1>1, <1>2
  <2>2. stack[Len(stack) - n] \in Symbol
    BY <2>1
  <2>3. stack[Len(stack) - n].sym \in Symbols
    BY <2>2 DEF Symbol
  <2>4. QED
    BY <1>2, <2>1, <2>3, SymbolKinds DEF Below, SymAt
<1>3. CASE ~(Len(stack) > n)
  <2>1. Len(stack) - n \notin 1 .. Len(stack)
    BY <1>1, <1>3
  <2>2. QED
    BY <1>3, <2>1 DEF Below, SymAt
<1>4. QED
  BY <1>2, <1>3

\* A stack whose topmost k symbols were replaced by one.
Pushed(s, k, x) == Append(SubSeq(s, 1, Len(s) - k), x)

LEMMA PushedIs ==
  ASSUME NEW s \in Seq(Symbol), NEW k \in 0 .. Len(s), NEW x \in Symbol
  PROVE  /\ Pushed(s, k, x) \in Seq(Symbol)
         /\ Len(Pushed(s, k, x)) = Len(s) - k + 1
         /\ \A i \in 1 .. Len(s) - k : Pushed(s, k, x)[i] = s[i]
         /\ Pushed(s, k, x)[Len(s) - k + 1] = x
<1> DEFINE m == Len(s) - k
           p == SubSeq(s, 1, m)
<1>1. Len(s) \in Nat /\ m \in Nat /\ m <= Len(s)
  OBVIOUS
<1>2. p \in Seq(Symbol) /\ Len(p) = m /\ \A i \in 1 .. m : p[i] = s[i]
  <2> HIDE DEF m
  <2> QED
    BY <1>1
<1> HIDE DEF m, p
<1>3. /\ Append(p, x) \in Seq(Symbol) /\ Len(Append(p, x)) = m + 1
      /\ \A i \in 1 .. m : Append(p, x)[i] = s[i]
      /\ Append(p, x)[m + 1] = x
  BY <1>1, <1>2
<1>4. QED
  BY <1>3 DEF Pushed, m, p

LEMMA PushedShape ==
  ASSUME NEW s \in Seq(Symbol), Shape(s), NEW k \in 0 .. Len(s), NEW x \in Symbol,
         MayStandOn(SymAt(s, Len(s) - k), x.sym),
         MayFollow(SymAt(s, Len(s) - k - 1), x.sym)
  PROVE  Shape(Pushed(s, k, x))
<1> DEFINE m == Len(s) - k
           t == Pushed(s, k, x)
<1>1. Len(s) \in Nat /\ m \in Nat /\ m <= Len(s)
  OBVIOUS
<1>2. t \in Seq(Symbol) /\ Len(t) = m + 1 /\ (\A i \in 1 .. m : t[i] = s[i]) /\ t[m + 1] = x
  BY PushedIs
<1>3. SymAt(s, m) = SymAt(t, m) /\ SymAt(s, m - 1) = SymAt(t, m - 1)
  <2> HIDE DEF m, t
  <2> QED
    BY <1>1, <1>2 DEF SymAt
<1>4. /\ MayStandOn(SymAt(s, m), x.sym)
      /\ MayFollow(SymAt(s, m - 1), x.sym)
  OBVIOUS
<1> HIDE DEF m, t
<1>5. ASSUME NEW i \in 1 .. Len(t)
      PROVE  /\ MayStandOn(SymAt(t, i - 1), t[i].sym)
             /\ MayFollow(SymAt(t, i - 2), t[i].sym)
  <2>1. CASE i = m + 1
    <3>1. i - 1 = m /\ i - 2 = m - 1
      BY <1>1, <2>1
    <3>2. QED
      BY <1>2, <1>3, <1>4, <2>1, <3>1
  <2>2. CASE i # m + 1
    <3>1. i \in 1 .. m /\ i \in 1 .. Len(s)
      BY <1>1, <1>2, <2>2
    <3>2. t[i] = s[i] /\ SymAt(t, i - 1) = SymAt(s, i - 1) /\ SymAt(t, i - 2) = SymAt(s, i - 2)
      BY <1>1, <1>2, <3>1 DEF SymAt
    <3>3. QED
      BY <3>1, <3>2 DEF Shape
  <2>3. QED
    BY <2>1, <2>2
<1>6. QED
  BY <1>5 DEF Shape, t

\* What the shape says of the symbols at the top.
LEMMA TopShape ==
  ASSUME stack \in Seq(Symbol), Shape(stack), NEW n \in Nat, Len(stack) > n
  PROVE  /\ MayStandOn(Below(n + 1), Below(n))
         /\ MayFollow(Below(n + 2), Below(n))
<1> DEFINE i == Len(stack) - n
<1>1. i \in 1 .. Len(stack) /\ i - 1 = Len(stack) - (n + 1) /\ i - 2 = Len(stack) - (n + 2)
  OBVIOUS
<1>2. stack[i].sym = Below(n)
  BY DEF Below
<1> HIDE DEF i
<1>3. /\ MayStandOn(SymAt(stack, i - 1), stack[i].sym)
      /\ MayFollow(SymAt(stack, i - 2), stack[i].sym)
  BY <1>1 DEF Shape
<1>4. n + 1 \in Nat /\ n + 2 \in Nat
  OBVIOUS
<1>5. SymAt(stack, i - 1) = Below(n + 1) /\ SymAt(stack, i - 2) = Below(n + 2)
  BY <1>1, <1>4, BelowIs
<1>6. QED
  BY <1>2, <1>3, <1>5

-----------------------------------------------------------------------------
(* Tokens. *)

\* A token that can be shifted may stand on the top, and none is asked for
\* after a closing symbol.
LEMMA ShiftsFit ==
  ASSUME NEW t \in Shiftable
  PROVE  /\ MayStandOn(Below(0), t)
         /\ MayFollow(Below(1), t)
         /\ Below(0) \notin Closing
         /\ t \in Terminals
<1>1. CASE Below(0) \in Openings
  <2>1. /\ Below(0) \in {"bottom", "(", "!"} \cup DOMAIN OperatorKind
        /\ Below(0) \notin {"bitwise_expr", "and_expr", "or_expr", "expr", "input"}
    BY <1>1, SymbolSets DEF Openings, Operators
  <2>2. Shiftable = Leaves \cup {"(", "!"}
    BY <2>1, Zenon DEF Shiftable, Leaves
  <2>3. t \in Leaves \cup {"(", "!"}
    BY <2>2
  <2>4. QED
    BY <1>1, <2>3, SymbolSets, SymbolKinds DEF MayStandOn, MayFollow, Openings, Closing, Compares
<1>2. CASE Below(0) = "bitwise_expr"
  <2>1. Shiftable = Bitwises \cup Comparisons
    BY <1>2, SymbolSets DEF Shiftable, Openings, Operators
  <2>2. t \in Bitwises \cup Compares /\ (t \in Compares => Below(1) \notin Compares)
    BY <2>1 DEF Comparisons, Bitwises, Compares
  <2>3. QED
    BY <1>2, <2>2, SymbolSets, SymbolKinds DEF MayStandOn, MayFollow, Closing, Bitwises, Compares
<1>3. CASE Below(0) = "and_expr"
  BY <1>3, SymbolSets, SymbolKinds DEF Shiftable, Operators, MayStandOn, MayFollow, Closing, Compares
<1>4. CASE Below(0) = "or_expr"
  BY <1>4, SymbolSets, SymbolKinds DEF Shiftable, Operators, MayStandOn, MayFollow, Closing, Compares
<1>5. CASE Below(0) = "expr"
  BY <1>5, SymbolSets, SymbolKinds DEF Shiftable, Operators, MayStandOn, MayFollow, Closing, Compares
<1>6. CASE Below(0) = "input"
  BY <1>6, SymbolSets, SymbolKinds DEF Shiftable, Operators, MayStandOn, MayFollow, Closing, Compares
<1>7. CASE Below(0) \notin Openings \cup {"bitwise_expr", "and_expr", "or_expr", "expr", "input"}
  <2>1. Shiftable = {}
    BY <1>7 DEF Shiftable, Openings, Operators
  <2>2. QED
    BY <2>1
<1>8. QED
  BY <1>1, <1>2, <1>3, <1>4, <1>5, <1>6, <1>7

\* What the scanner returns.
LEMMA TokenTypes ==
  /\ \A token \in Tokens \cup {EndToken} : token.sym \in Terminals /\ token.value \in Values
  /\ NoToken.sym = "none" /\ EndToken.sym = "$end"
  /\ "none" \notin Texts /\ "$end" \notin Texts /\ "bottom" \notin Texts
  /\ MaxTokens \in Nat /\ MaxDepth \in Nat \ {0} /\ Nat \subseteq Values
BY ParserAssumption, SymbolKinds DEF EndToken, NoToken, Values, Texts, Terminals

\* A step that leaves the nodes alone, and each of them as many owners.
LEMMA SameOwners ==
  ASSUME NodeInv, UNCHANGED <<nodes, deleted, root>>, error' = error \/ error' # "none",
         \A i \in DOMAIN stack' :
           /\ stack'[i].sym \in Nonterminals \ {"input"} => stack'[i].val \in DOMAIN nodes
           /\ stack'[i].sym = "input" => stack'[i].val = 0,
         \A n \in DOMAIN nodes :
           /\ \A i, j \in OnStack(n)' : i = j
           /\ OnStack(n) = {} => OnStack(n)' = {}
           /\ error' = "none" /\ OnStack(n)' = {} => OnStack(n) = {}
  PROVE  NodeInv'
<1>1. ASSUME NEW n PROVE Edges(n)' = Edges(n)
  BY DEF Edges
<1>2. ASSUME NEW n \in DOMAIN nodes PROVE OwnedOnce(n)'
  <2>1. OwnedOnce(n)
    BY DEF NodeInv
  <2>2. QED
    BY <1>1, <2>1 DEF OwnedOnce
<1>3. ASSUME NEW n \in DOMAIN nodes \ deleted, error' = "none" PROVE ~Unowned(n)'
  <2>1. ~Unowned(n)
    BY <1>3 DEF NodeInv
  <2>2. QED
    BY <1>1, <1>3, <2>1 DEF Unowned
<1>4. ASSUME NEW n \in deleted PROVE Unowned(n)'
  <2>1. Unowned(n) /\ n \in DOMAIN nodes
    BY DEF NodeInv
  <2>2. QED
    BY <1>1, <2>1 DEF Unowned
<1>5. QED
  BY <1>2, <1>3, <1>4 DEF NodeInv

LEMMA LexKeeps == IInv /\ Lex => IInv'
<1> SUFFICES ASSUME IInv, Lex PROVE IInv'
  OBVIOUS
<1>1. /\ phase = "parse" /\ error = "none" /\ Shiftable # {} /\ lookahead = NoToken
      /\ UNCHANGED <<stack, nodes, deleted, root, error, phase>>
  BY DEF Lex, Parsing
<1>2. PICK token \in IF Len(read) < MaxTokens THEN Tokens \cup {EndToken} ELSE {EndToken} :
        /\ lookahead' = token
        /\ read' = Append(read, token)
        /\ strings' = IF token.sym \in Texts THEN strings \cup {Len(read')} ELSE strings
  BY DEF Lex
<1>3. Below(0) \notin Closing
  BY <1>1, ShiftsFit
<1>4. Below(0)' = Below(0)
  BY <1>1 DEF Below
<1>5. StackInv'
  BY <1>1, <1>3, <1>4 DEF IInv, StackInv
<1>6. TokenInv'
  <2>1. /\ read \in Seq(Tokens \cup {EndToken}) /\ Len(read) \in Nat /\ token \in Tokens \cup {EndToken}
        /\ Len(read) <= MaxTokens + 1
    BY <1>2 DEF IInv, TokenInv
  <2>2. read' \in Seq(Tokens \cup {EndToken}) /\ Len(read') = Len(read) + 1
    BY <1>2, <2>1
  <2>3. Below(0) \notin Texts /\ Below(0) # "$end"
    BY <1>3, SymbolKinds DEF Closing
  <2>4. lookahead.sym \notin Texts /\ lookahead # EndToken
    BY <1>1, TokenTypes
  <2>5. ~HasText /\ strings = {}
    BY <2>3, <2>4 DEF HasText, IInv, TokenInv
  <2>6. HasText' = (token.sym \in Texts)
    BY <1>2, <1>4, <2>3 DEF HasText
  <2>7. Len(read) <= MaxTokens
    BY <1>1, <2>1, <2>3, <2>4, TokenTypes DEF IInv, TokenInv
  <2>8. Len(read') = MaxTokens + 1 => token = EndToken
    BY <1>2, <2>1, <2>2, <2>7, TokenTypes
  <2>9. strings' = IF HasText' THEN {Len(read')} ELSE {}
    BY <1>2, <2>5, <2>6
  <2>10. Len(read') <= MaxTokens + 1 /\ Len(read') # 0
    BY <2>1, <2>2, <2>7, TokenTypes
  <2>11. QED
    BY <1>2, <1>4, <2>1, <2>2, <2>3, <2>8, <2>9, <2>10 DEF TokenInv
<1>7. NodeInv'
  <2>1. ASSUME NEW n PROVE OnStack(n)' = OnStack(n)
    BY <1>1 DEF OnStack
  <2>2. NodeInv
    BY DEF IInv
  <2>3. \A n \in DOMAIN nodes : \A i, j \in OnStack(n) : i = j
    BY <2>2 DEF NodeInv, OwnedOnce
  <2>4. QED
    BY <1>1, <2>1, <2>2, <2>3, SameOwners DEF NodeInv
<1>8. PhaseInv'
  BY <1>1, <1>4 DEF IInv, PhaseInv
<1>9. QED
  BY <1>5, <1>6, <1>7, <1>8 DEF IInv

-----------------------------------------------------------------------------
(* Shifts and reductions. *)

LEMMA PushedTop ==
  ASSUME stack \in Seq(Symbol), NEW k \in 0 .. Len(stack), NEW x \in Symbol,
         stack' = Pushed(stack, k, x)
  PROVE  /\ Len(stack') = Len(stack) - k + 1 /\ stack' \in Seq(Symbol)
         /\ stack'[Len(stack')] = x
         /\ Below(0)' = x.sym
         /\ \A i \in DOMAIN stack' : \/ i = Len(stack) - k + 1 /\ stack'[i] = x
                                     \/ i \in 1 .. Len(stack) - k /\ i \in DOMAIN stack /\ stack'[i] = stack[i]
<1>1. /\ stack' \in Seq(Symbol) /\ Len(stack') = Len(stack) - k + 1
      /\ \A i \in 1 .. Len(stack) - k : stack'[i] = stack[i]
      /\ stack'[Len(stack) - k + 1] = x
  BY PushedIs
<1>2. Len(stack) \in Nat /\ k \in Nat /\ k <= Len(stack) /\ Len(stack') > 0
  BY <1>1
<1>3. Below(0)' = stack'[Len(stack') - 0].sym
  BY <1>2 DEF Below
<1>4. Len(stack') - 0 = Len(stack) - k + 1
  BY <1>1, <1>2
<1>5. DOMAIN stack' = 1 .. Len(stack) - k + 1 /\ DOMAIN stack = 1 .. Len(stack)
  BY <1>1
<1>6. ASSUME NEW i \in DOMAIN stack'
      PROVE  \/ i = Len(stack) - k + 1 /\ stack'[i] = x
             \/ i \in 1 .. Len(stack) - k /\ i \in DOMAIN stack /\ stack'[i] = stack[i]
  BY <1>1, <1>2, <1>5
<1>7. QED
  BY <1>1, <1>3, <1>4, <1>6

LEMMA ReducibleIs ==
  ASSUME Reducing, stack \in Seq(Symbol)
  PROVE  /\ phase = "parse" /\ error = "none"
         /\ Below(0) \in Leaves \cup {")"} \cup (Nonterminals \ {"input"})
         /\ Len(stack) > 0
         /\ Below(0) = "expr" => Below(1) # "("
<1>1. phase = "parse" /\ error = "none" /\ Reducible
  BY DEF Reducing, Parsing
<1>2. /\ Below(0) \in Leaves \cup {")"} \cup (Nonterminals \ {"input"})
      /\ Below(0) = "expr" => Below(1) # "("
  BY <1>1, SymbolKinds, SymbolSets DEF Reducible, Leaves
<1>3. Below(0) # "bottom"
  BY <1>2, SymbolKinds DEF Symbols
<1>4. QED
  BY <1>1, <1>2, <1>3, BelowIs

\* A reduction finds its rule on the stack, leaves it well formed and frees
\* the text it takes from it.
LEMMA ReduceKeeps ==
  ASSUME IInv, Reducing, NEW k \in 1 .. Len(stack), NEW x \in Symbol, x.sym \in Nonterminals,
         MayStandOn(Below(k), x.sym), stack' = Pushed(stack, k, x),
         UNCHANGED <<read, lookahead, deleted, error, phase>>,
         strings' = IF Below(0) \in Texts THEN strings \ {stack[Len(stack)].val} ELSE strings,
         root' = root \/ x.sym = "input"
  PROVE  StackInv' /\ TokenInv' /\ PhaseInv'
<1>1. /\ stack \in Seq(Symbol) /\ Len(stack) < MaxDepth /\ Shape(stack)
      /\ Below(0) \in Closing => lookahead = NoToken
  BY DEF IInv, StackInv
<1>2. /\ Len(stack') = Len(stack) - k + 1 /\ stack' \in Seq(Symbol)
      /\ stack'[Len(stack')] = x
      /\ Below(0)' = x.sym
  BY <1>1, PushedTop
<1>3. /\ phase = "parse" /\ error = "none"
      /\ Below(0) \in Leaves \cup {")"} \cup (Nonterminals \ {"input"})
  BY <1>1, ReducibleIs
<1>4. StackInv'
  <2>1. x.sym \notin Closing /\ MayFollow(SymAt(stack, Len(stack) - k - 1), x.sym)
    BY SymbolSets DEF Closing, MayFollow, Nonterminals, Compares
  <2>2. Below(k) = SymAt(stack, Len(stack) - k)
    BY <1>1, BelowIs
  <2>3. Shape(stack')
    BY <1>1, <2>1, <2>2, PushedShape
  <2>4. Len(stack') < MaxDepth
    BY <1>1, <1>2, TokenTypes
  <2>5. QED
    BY <1>2, <2>1, <2>3, <2>4 DEF StackInv
<1>5. TokenInv'
  <2>1. Below(0)' \notin Texts /\ Below(0) # "$end"
    BY <1>2, <1>3, SymbolSets DEF Nonterminals, Texts
  <2>2. HasText' = (lookahead.sym \in Texts)
    BY <2>1 DEF HasText
  <2>3. strings' = IF HasText' THEN {Len(read)} ELSE {}
    <3>1. CASE Below(0) \in Texts
      <4>1. lookahead = NoToken
        BY <1>1, <3>1, SymbolKinds DEF Closing
      <4>2. strings = {Len(read)} /\ stack[Len(stack)].val = Len(read) /\ ~HasText'
        BY <2>2, <3>1, <4>1, TokenTypes DEF IInv, TokenInv, HasText
      <4>3. QED
        BY <3>1, <4>2
    <3>2. CASE Below(0) \notin Texts
      BY <2>2, <3>2 DEF IInv, TokenInv, HasText
    <3>3. QED
      BY <3>1, <3>2
  <2>4. HasText' => HasText
    BY <2>2 DEF HasText
  <2>5. QED
    BY <1>3, <2>1, <2>3, <2>4 DEF IInv, TokenInv
<1>6. PhaseInv'
  <2>1. Below(0) \notin {"input", "$end"}
    BY <1>3, SymbolSets DEF Nonterminals
  <2>2. root' # 0 => Below(0)' \in {"input", "$end"}
    BY <1>2, <1>3, <2>1 DEF IInv, PhaseInv
  <2>3. QED
    BY <1>3, <2>2 DEF IInv, PhaseInv
<1>7. QED
  BY <1>4, <1>5, <1>6

LEMMA ShiftKeeps == IInv /\ Shift => IInv'
<1> SUFFICES ASSUME IInv, Shift PROVE IInv'
  OBVIOUS
<1> DEFINE x == [sym |-> lookahead.sym, val |-> TokenValue]
<1>1. /\ phase = "parse" /\ error = "none" /\ ~Full /\ lookahead.sym \in Shiftable
      /\ stack' = Append(stack, x) /\ lookahead' = NoToken
      /\ UNCHANGED <<read, nodes, strings, deleted, root, error, phase>>
  BY DEF Shift, Parsing
<1>2. /\ MayStandOn(Below(0), lookahead.sym)
      /\ MayFollow(Below(1), lookahead.sym)
      /\ Below(0) \notin Closing
      /\ lookahead.sym \in Terminals
  BY <1>1, ShiftsFit
<1>3. /\ stack \in Seq(Symbol) /\ Len(stack) < MaxDepth /\ Shape(stack) /\ Len(stack) \in Nat
      /\ read \in Seq(Tokens \cup {EndToken}) /\ Len(read) \in Nat
      /\ lookahead \in Tokens \cup {EndToken}
  <2>1. lookahead # NoToken
    BY <1>2, TokenTypes, SymbolKinds DEF Symbols
  <2>2. QED
    BY <2>1 DEF IInv, StackInv, TokenInv
<1>4. x \in Symbol /\ x.sym = lookahead.sym /\ x.val = TokenValue
  BY <1>2, <1>3, TokenTypes DEF Symbol, Symbols, TokenValue
<1> HIDE DEF x
<1>5. PICK k \in 0 .. Len(stack) : k = 0
  BY <1>3
<1>6. stack' = Pushed(stack, k, x)
  BY <1>1, <1>3, <1>5 DEF Pushed
<1>7. /\ Len(stack') = Len(stack) + 1 /\ stack' \in Seq(Symbol)
      /\ stack'[Len(stack')] = x
      /\ Below(0)' = x.sym
      /\ \A i \in DOMAIN stack' : \/ i = Len(stack) + 1 /\ stack'[i] = x
                                  \/ i \in 1 .. Len(stack) /\ i \in DOMAIN stack /\ stack'[i] = stack[i]
  BY <1>3, <1>4, <1>5, <1>6, PushedTop
<1>8. StackInv'
  <2>1. /\ SymAt(stack, Len(stack) - k) = Below(0)
        /\ SymAt(stack, Len(stack) - k - 1) = Below(1)
    BY <1>3, <1>5, BelowIs
  <2>2. Shape(stack')
    BY <1>2, <1>3, <1>4, <1>6, <2>1, PushedShape
  <2>3. Len(stack') < MaxDepth
    BY <1>1, <1>3, <1>7, TokenTypes DEF Full
  <2>4. QED
    BY <1>1, <1>7, <2>2, <2>3 DEF StackInv
<1>9. TokenInv'
  <2>1. Below(0) \notin Texts /\ Below(0) # "$end"
    BY <1>2, SymbolKinds DEF Closing
  <2>2. HasText' = HasText
    BY <1>1, <1>4, <1>7, <2>1, TokenTypes DEF HasText
  <2>3. lookahead = EndToken => Below(0)' = "$end"
    BY <1>4, <1>7, TokenTypes
  <2>4. Below(0)' \in Texts => stack'[Len(stack')].val = Len(read)
    BY <1>4, <1>7 DEF TokenValue
  <2>5. QED
    BY <1>1, <2>1, <2>2, <2>3, <2>4 DEF IInv, TokenInv
<1>10. NodeInv'
  <2>1. x.sym \notin Nonterminals /\ NodeInv
    BY <1>2, <1>4, SymbolKinds DEF IInv
  <2>2. DOMAIN stack = 1 .. Len(stack) /\ DOMAIN stack' = 1 .. Len(stack) + 1
    BY <1>3, <1>7
  <2>3. ASSUME NEW n PROVE OnStack(n)' = OnStack(n)
    BY <1>7, <2>1, <2>2 DEF OnStack
  <2>4. \A i \in DOMAIN stack' :
           /\ stack'[i].sym \in Nonterminals \ {"input"} => stack'[i].val \in DOMAIN nodes
           /\ stack'[i].sym = "input" => stack'[i].val = 0
    BY <1>7, <2>1 DEF NodeInv, Nonterminals
  <2>5. \A n \in DOMAIN nodes : \A i, j \in OnStack(n) : i = j
    BY <2>1 DEF NodeInv, OwnedOnce
  <2>6. QED
    BY <1>1, <2>1, <2>3, <2>4, <2>5, SameOwners
<1>11. PhaseInv'
  <2>1. root # 0 => Below(0)' = "$end"
    <3>1. ASSUME root # 0 PROVE Below(0) = "input"
      BY <1>1, <1>2, <3>1 DEF IInv, PhaseInv, Closing
    <3>2. Below(0) = "input" => lookahead.sym = "$end"
      BY <1>2, SymbolSets DEF MayStandOn, Openings, Compares, Bitwises
    <3>3. QED
      BY <1>4, <1>7, <3>1, <3>2
  <2>2. QED
    BY <1>1, <2>1 DEF IInv, PhaseInv
<1>12. QED
  BY <1>8, <1>9, <1>10, <1>11 DEF IInv

LEMMA JoinedByIs ==
  /\ JoinedBy["unary_expr"] = Bitwises /\ JoinedBy["bitwise_expr"] = Compares
  /\ JoinedBy["comparison_expr"] = {"AND"} /\ JoinedBy["and_expr"] = {"OR"}
  /\ \A s \in Symbols \ {"unary_expr", "bitwise_expr", "comparison_expr", "and_expr"} : JoinedBy[s] = {}
BY SymbolKinds DEF JoinedBy, Symbols, Nonterminals

\* The parts of the invariant a reduction starts from.
LEMMA StackOf ==
  ASSUME IInv
  PROVE  /\ stack \in Seq(Symbol) /\ Len(stack) < MaxDepth /\ Shape(stack) /\ Len(stack) \in Nat
         /\ Below(0) \in Closing => lookahead = NoToken
         /\ NodeInv
BY DEF IInv, StackInv

\* A value goes from one place of the stack to another.
LEMMA PassKeeps ==
  ASSUME IInv, Reducing, NEW k \in 1 .. Len(stack), NEW x \in Symbol,
         x.sym \in Nonterminals \ {"input"}, MayStandOn(Below(k), x.sym),
         stack' = Pushed(stack, k, x), Below(0) \notin Texts,
         UNCHANGED <<read, lookahead, nodes, strings, deleted, root, error, phase>>,
         NEW j \in Len(stack) - k + 1 .. Len(stack),
         stack[j].sym \in Nonterminals \ {"input"}, stack[j].val = x.val,
         \A i \in Len(stack) - k + 1 .. Len(stack) : i # j => stack[i].sym \notin Nonterminals
  PROVE  IInv'
<1>1. StackInv' /\ TokenInv' /\ PhaseInv'
  BY ReduceKeeps
<1>2. stack \in Seq(Symbol) /\ Len(stack) \in Nat /\ NodeInv
  BY StackOf
<1> DEFINE top == Len(stack) - k + 1
<1>3. /\ Len(stack') = top /\ stack' \in Seq(Symbol)
      /\ \A i \in DOMAIN stack' : \/ i = top /\ stack'[i] = x
                                  \/ i \in 1 .. Len(stack) - k /\ i \in DOMAIN stack /\ stack'[i] = stack[i]
  BY <1>2, PushedTop
<1>4. DOMAIN stack = 1 .. Len(stack) /\ DOMAIN stack' = 1 .. top /\ top \in 1 .. Len(stack) /\ j \in DOMAIN stack
  BY <1>2, <1>3
<1>5. ASSUME NEW n \in DOMAIN nodes, n # x.val PROVE OnStack(n)' = OnStack(n)
  <2>1. ASSUME NEW i \in OnStack(n) PROVE i \in 1 .. Len(stack) - k
    <3>1. i \in 1 .. Len(stack) /\ stack[i].sym \in Nonterminals /\ stack[i].val = n
      BY <1>4 DEF OnStack
    <3>2. i # j
      BY <1>5, <3>1
    <3>3. CASE i \in Len(stack) - k + 1 .. Len(stack)
      BY <3>1, <3>2, <3>3
    <3>4. CASE i \notin Len(stack) - k + 1 .. Len(stack)
      <4> HIDE DEF top
      <4>1. k \in Int /\ Len(stack) \in Int /\ i \in Int /\ i >= 1 /\ i <= Len(stack)
        BY <1>2, <3>1
      <4>2. QED
        BY <3>4, <4>1
    <3>5. QED
      BY <3>3, <3>4
  <2>2. ASSUME NEW i \in 1 .. Len(stack) - k PROVE i \in DOMAIN stack' /\ stack'[i] = stack[i]
    <3>1. i \in 1 .. top /\ i # top
      BY <1>2
    <3> HIDE DEF top
    <3>2. i \in DOMAIN stack'
      BY <1>4, <3>1
    <3>3. QED
      BY <1>3, <3>1, <3>2
  <2>3. top \notin OnStack(n)'
    BY <1>2, <1>3, <1>4, <1>5 DEF OnStack
  <2>4. OnStack(n) \subseteq OnStack(n)'
    BY <2>1, <2>2 DEF OnStack
  <2>5. OnStack(n)' \subseteq OnStack(n)
    BY <1>3, <2>3 DEF OnStack
  <2>6. QED
    BY <2>4, <2>5
<1>6. x.val \in DOMAIN nodes /\ OnStack(x.val) = {j}
  <2>1. x.val \in DOMAIN nodes /\ j \in OnStack(x.val)
    BY <1>2, <1>4 DEF NodeInv, OnStack
  <2>2. \A i \in OnStack(x.val) : i = j
    BY <1>2, <2>1 DEF NodeInv, OwnedOnce
  <2>3. QED
    BY <2>1, <2>2
<1>7. OnStack(x.val)' = {top}
  <2>1. top \in OnStack(x.val)'
    BY <1>2, <1>3, <1>4 DEF OnStack
  <2>2. ASSUME NEW i \in OnStack(x.val)', i # top PROVE FALSE
    <3>1. i \in 1 .. Len(stack) - k /\ i \in OnStack(x.val)
      BY <1>3, <2>2 DEF OnStack
    <3>2. i = j
      BY <1>6, <3>1
    <3>3. QED
      BY <1>2, <3>1, <3>2
  <2>3. QED
    BY <2>1, <2>2
<1>8. ASSUME NEW n \in DOMAIN nodes
      PROVE  /\ \A i, l \in OnStack(n)' : i = l
             /\ OnStack(n) = {} => OnStack(n)' = {}
             /\ error' = "none" /\ OnStack(n)' = {} => OnStack(n) = {}
  <2>1. CASE n = x.val
    BY <1>6, <1>7, <2>1
  <2>2. CASE n # x.val
    <3>1. OnStack(n)' = OnStack(n)
      BY <1>5, <2>2
    <3>2. \A i, l \in OnStack(n) : i = l
      BY <1>2 DEF NodeInv, OwnedOnce
    <3>3. QED
      BY <3>1, <3>2
  <2>3. QED
    BY <2>1, <2>2
<1>9. ASSUME NEW i \in DOMAIN stack'
      PROVE  /\ stack'[i].sym \in Nonterminals \ {"input"} => stack'[i].val \in DOMAIN nodes
             /\ stack'[i].sym = "input" => stack'[i].val = 0
  BY <1>2, <1>3, <1>6 DEF NodeInv
<1>10. NodeInv'
  BY <1>2, <1>8, <1>9, SameOwners
<1>11. QED
  BY <1>1, <1>10 DEF IInv

\* The symbol of a value n places down.
LEMMA PlaceOf ==
  ASSUME stack \in Seq(Symbol), NEW n \in Nat, Len(stack) > n
  PROVE  /\ Len(stack) - n \in 1 .. Len(stack)
         /\ stack[Len(stack) - n].sym = Below(n) /\ stack[Len(stack) - n].val = Val(n)
         /\ stack[Len(stack) - n] \in Symbol /\ Val(n) \in Values
<1>1. Len(stack) - n \in 1 .. Len(stack)
  OBVIOUS
<1>2. stack[Len(stack) - n] \in Symbol
  BY <1>1
<1>3. QED
  BY <1>1, <1>2 DEF Below, Val, Symbol

LEMMA ReduceParensKeeps == IInv /\ ReduceParens => IInv'
<1> SUFFICES ASSUME IInv, ReduceParens PROVE IInv'
  OBVIOUS
<1> DEFINE x == [sym |-> "primary", val |-> Val(1)]
<1>1. /\ Reducing /\ Below(0) = ")" /\ stack' = Pushed(stack, 3, x)
      /\ UNCHANGED <<read, lookahead, nodes, strings, deleted, root, error, phase>>
  BY DEF ReduceParens, Pass, Replaced, Pushed
<1>2. stack \in Seq(Symbol) /\ Len(stack) \in Nat /\ Shape(stack)
  BY StackOf
<1>3. Len(stack) > 0
  BY <1>1, <1>2, ReducibleIs
<1>4. MayStandOn(Below(1), ")") /\ MayFollow(Below(2), ")")
  BY <1>1, <1>2, <1>3, TopShape
<1>5. Below(1) = "expr" /\ Below(2) = "("
  BY <1>4, SymbolSets DEF MayStandOn, MayFollow, Compares, Bitwises
<1>6. Len(stack) > 2 /\ Len(stack) > 1
  BY <1>2, <1>5, BelowIs
<1>7. MayStandOn(Below(3), "primary")
  <2>1. MayStandOn(Below(2 + 1), Below(2))
    BY <1>2, <1>6, TopShape
  <2>2. QED
    BY <1>5, <2>1, SymbolSets DEF MayStandOn, Compares, Bitwises
<1>8. x \in Symbol /\ x.sym = "primary" /\ x.val = Val(1)
  <2>1. Val(1) \in Values
    BY <1>2, <1>6, PlaceOf
  <2>2. QED
    BY <2>1 DEF Symbol, Symbols, Nonterminals
<1> HIDE DEF x
<1>9. PICK k \in 1 .. Len(stack) : k = 3
  BY <1>2, <1>6
<1>10. PICK j \in Len(stack) - k + 1 .. Len(stack) : j = Len(stack) - 1
  <2>1. Len(stack) - 1 \in Len(stack) - k + 1 .. Len(stack)
    BY <1>2, <1>6, <1>9
  <2>2. QED
    BY <2>1
<1>11. stack[j].sym = "expr" /\ stack[j].val = x.val
  BY <1>2, <1>5, <1>6, <1>8, <1>10, PlaceOf
<1>12. ASSUME NEW i \in Len(stack) - k + 1 .. Len(stack), i # j PROVE stack[i].sym \notin Nonterminals
  <2>1. i = Len(stack) - 0 \/ i = Len(stack) - 2
    BY <1>2, <1>9, <1>10, <1>12
  <2>2. stack[i].sym \in {")", "("}
    BY <1>1, <1>2, <1>3, <1>5, <1>6, <2>1, PlaceOf
  <2>3. QED
    BY <2>2, SymbolKinds
<1>13. /\ Below(0) \notin Texts
       /\ x.sym \in Nonterminals \ {"input"} /\ stack[j].sym \in Nonterminals \ {"input"}
  BY <1>1, <1>8, <1>11, SymbolSets DEF Texts, Nonterminals
<1>14. MayStandOn(Below(k), x.sym) /\ stack' = Pushed(stack, k, x)
  BY <1>1, <1>7, <1>8, <1>9
<1>15. QED
  BY <1>1, <1>8, <1>11, <1>12, <1>13, <1>14, PassKeeps

LEMMA ReduceUnitKeeps == IInv /\ ReduceUnit => IInv'
<1> SUFFICES ASSUME IInv, ReduceUnit PROVE IInv'
  OBVIOUS
<1> DEFINE x == [sym |-> Widened[Below(0)], val |-> Val(0)]
<1>1. /\ Reducing /\ Below(0) \in DOMAIN Widened \ {"expr"}
      /\ Below(1) \notin JoinedBy[Below(0)] /\ ~(Below(0) = "unary_expr" /\ Below(1) = "!")
      /\ stack' = Pushed(stack, 1, x)
      /\ UNCHANGED <<read, lookahead, nodes, strings, deleted, root, error, phase>>
  BY DEF ReduceUnit, Pass, Replaced, Pushed
<1>2. stack \in Seq(Symbol) /\ Len(stack) \in Nat /\ Shape(stack)
  BY StackOf
<1>3. Len(stack) > 0
  BY <1>1, <1>2, ReducibleIs
<1>4. MayStandOn(Below(1), Below(0))
  <2>1. MayStandOn(Below(0 + 1), Below(0))
    BY <1>2, <1>3, TopShape
  <2>2. QED
    BY <2>1
<1>5. Below(0) \in {"primary", "unary_expr", "bitwise_expr", "comparison_expr", "and_expr", "or_expr"}
  BY <1>1, SymbolSets
<1>6. MayStandOn(Below(1), Widened[Below(0)]) /\ Widened[Below(0)] \in Nonterminals \ {"input"}
  <2>1. CASE Below(0) = "primary"
    BY <1>4, <2>1, WidenedIs, SymbolSets DEF MayStandOn, Nonterminals, Compares, Bitwises
  <2>2. CASE Below(0) = "unary_expr"
    BY <1>1, <1>4, <2>2, WidenedIs, JoinedByIs, SymbolSets
       DEF MayStandOn, Nonterminals, Compares, Bitwises, Openings
  <2>3. CASE Below(0) = "bitwise_expr"
    BY <1>1, <1>4, <2>3, WidenedIs, JoinedByIs, SymbolSets
       DEF MayStandOn, Nonterminals, Compares, Bitwises, Openings
  <2>4. CASE Below(0) = "comparison_expr"
    BY <1>1, <1>4, <2>4, WidenedIs, JoinedByIs, SymbolSets
       DEF MayStandOn, Nonterminals, Compares, Bitwises, Openings
  <2>5. CASE Below(0) = "and_expr"
    BY <1>1, <1>4, <2>5, WidenedIs, JoinedByIs, SymbolSets
       DEF MayStandOn, Nonterminals, Compares, Bitwises, Openings
  <2>6. CASE Below(0) = "or_expr"
    BY <1>1, <1>4, <2>6, WidenedIs, JoinedByIs, SymbolSets
       DEF MayStandOn, Nonterminals, Compares, Bitwises, Openings
  <2>7. QED
    BY <1>5, <2>1, <2>2, <2>3, <2>4, <2>5, <2>6
<1>7. x \in Symbol /\ x.sym = Widened[Below(0)] /\ x.val = Val(0)
  BY <1>2, <1>3, <1>6, PlaceOf DEF Symbol, Symbols
<1> HIDE DEF x
<1>8. PICK k \in 1 .. Len(stack) : k = 1
  BY <1>2, <1>3
<1>9. PICK j \in Len(stack) - k + 1 .. Len(stack) : j = Len(stack) - 0
  BY <1>2, <1>3, <1>8
<1>10. stack[j].sym = Below(0) /\ stack[j].val = x.val
  BY <1>2, <1>3, <1>7, <1>9, PlaceOf
<1>11. \A i \in Len(stack) - k + 1 .. Len(stack) : i # j => stack[i].sym \notin Nonterminals
  BY <1>2, <1>8, <1>9
<1>12. Below(0) \notin Texts /\ Below(0) \in Nonterminals \ {"input"}
  BY <1>5, SymbolSets DEF Texts, Nonterminals
<1>13. MayStandOn(Below(k), x.sym) /\ stack' = Pushed(stack, k, x)
  BY <1>1, <1>6, <1>7, <1>8
<1>14. QED
  BY <1>1, <1>6, <1>7, <1>10, <1>11, <1>12, <1>13, PassKeeps

\* A new node takes the values of its rule from the stack.
LEMMA MakeNodes ==
  ASSUME IInv, Reducing, NEW k \in 1 .. Len(stack), NEW x \in Symbol, NEW node \in Node,
         x.sym \in Nonterminals \ {"input"}, x.val = Len(nodes) + 1,
         stack' = Pushed(stack, k, x), nodes' = Append(nodes, node), UNCHANGED <<deleted, root, error>>,
         Len(node.children) <= 2,
         \A c \in DOMAIN node.children :
           \E i \in Len(stack) - k + 1 .. Len(stack) :
             stack[i].sym \in Nonterminals \ {"input"} /\ stack[i].val = node.children[c],
         \A i \in Len(stack) - k + 1 .. Len(stack) :
           stack[i].sym \in Nonterminals => \E c \in DOMAIN node.children : node.children[c] = stack[i].val,
         \A c, d \in DOMAIN node.children : node.children[c] = node.children[d] => c = d
  PROVE  NodeInv'
<1> DEFINE top == Len(stack) - k + 1
<1>1. /\ stack \in Seq(Symbol) /\ Len(stack) \in Nat /\ NodeInv /\ deleted = {}
      /\ nodes \in Seq(Node) /\ Len(nodes) \in Nat
      /\ error = "none" /\ root \in {0} \cup DOMAIN nodes
  <2>1. stack \in Seq(Symbol) /\ NodeInv
    BY StackOf
  <2>2. phase = "parse" /\ error = "none"
    BY <2>1, ReducibleIs
  <2>3. QED
    BY <2>1, <2>2 DEF IInv, PhaseInv, NodeInv
<1>0. PICK N \in Nat : N = Len(nodes) + 1
  BY <1>1
<1>2. /\ Len(stack') = top /\ stack' \in Seq(Symbol)
      /\ \A i \in DOMAIN stack' : \/ i = top /\ stack'[i] = x
                                  \/ i \in 1 .. Len(stack) - k /\ i \in DOMAIN stack /\ stack'[i] = stack[i]
  BY <1>1, PushedTop
<1>3. /\ DOMAIN stack = 1 .. Len(stack) /\ DOMAIN stack' = 1 .. top /\ top \in 1 .. Len(stack)
      /\ 1 .. Len(stack) - k \subseteq DOMAIN stack' \ {top}
      /\ Len(stack) - k + 1 .. Len(stack) \subseteq DOMAIN stack
      /\ \A i \in DOMAIN stack : i \in 1 .. Len(stack) - k \/ i \in Len(stack) - k + 1 .. Len(stack)
      /\ \A i \in 1 .. Len(stack) - k : i \notin Len(stack) - k + 1 .. Len(stack)
  BY <1>1, <1>2
<1>4. /\ nodes' \in Seq(Node) /\ DOMAIN nodes' = DOMAIN nodes \cup {N} /\ N \notin DOMAIN nodes
      /\ \A n \in DOMAIN nodes : nodes'[n] = nodes[n]
      /\ nodes'[N] = node
      /\ N # 0 /\ x.val = N /\ \A n \in DOMAIN nodes : n \in 1 .. (N - 1)
  BY <1>0, <1>1
<1>5. /\ top \in DOMAIN stack' /\ stack'[top] = x
      /\ \A i \in 1 .. Len(stack) - k : i \in DOMAIN stack' /\ i # top /\ stack'[i] = stack[i]
      /\ \A i \in DOMAIN stack' : i # top => i \in 1 .. Len(stack) - k /\ stack'[i] = stack[i]
  <2>1. top \in DOMAIN stack' /\ stack'[top] = x
    BY <1>1, <1>2, <1>3
  <2>2. QED
    BY <1>2, <1>3, <2>1
<1> HIDE DEF top
<1>6. ASSUME NEW m \in DOMAIN nodes', NEW c \in DOMAIN nodes'[m].children
      PROVE  nodes'[m].children[c] \in 1 .. (m - 1) /\ nodes'[m].children[c] \in DOMAIN nodes
  <2>1. CASE m = N
    <3>1. c \in DOMAIN node.children
      BY <1>4, <2>1
    <3>2. node.children[c] \in DOMAIN nodes
      BY <1>1, <1>3, <3>1 DEF NodeInv
    <3>3. QED
      BY <1>4, <2>1, <3>2
  <2>2. CASE m # N
    <3>1. m \in DOMAIN nodes /\ nodes'[m] = nodes[m]
      BY <1>4, <2>2
    <3>2. nodes[m].children[c] \in 1 .. (m - 1)
      BY <1>1, <3>1 DEF NodeInv
    <3>3. m \in 1 .. Len(nodes) /\ DOMAIN nodes = 1 .. Len(nodes)
      BY <1>1, <3>1
    <3>4. nodes[m].children[c] \in DOMAIN nodes
      BY <1>1, <3>2, <3>3
    <3>5. QED
      BY <3>1, <3>2, <3>4
  <2>3. QED
    BY <2>1, <2>2
<1>7. ASSUME NEW m \in DOMAIN nodes' PROVE Len(nodes'[m].children) <= 2
  BY <1>1, <1>4 DEF NodeInv
<1>8. ASSUME NEW i \in DOMAIN stack'
      PROVE  /\ stack'[i].sym \in Nonterminals \ {"input"} => stack'[i].val \in DOMAIN nodes'
             /\ stack'[i].sym = "input" => stack'[i].val = 0
  <2>1. CASE i = top
    BY <1>4, <1>5, <2>1
  <2>2. CASE i # top
    BY <1>1, <1>3, <1>4, <1>5, <2>2 DEF NodeInv
  <2>3. QED
    BY <2>1, <2>2
<1>9. ASSUME NEW n \in DOMAIN nodes PROVE OwnedOnce(n) /\ ~Unowned(n)
  BY <1>1 DEF NodeInv
<1>10. ASSUME NEW n \in DOMAIN nodes, NEW c \in DOMAIN node.children, node.children[c] = n
       PROVE  OwnedOnce(n)' /\ ~Unowned(n)'
  <2>1. PICK j \in Len(stack) - k + 1 .. Len(stack) :
          stack[j].sym \in Nonterminals /\ stack[j].val = n
    BY <1>10
  <2>2. j \in OnStack(n)
    BY <1>3, <2>1 DEF OnStack
  <2>3. OnStack(n) = {j} /\ Edges(n) = {} /\ root # n
    BY <1>9, <2>2 DEF OwnedOnce
  <2>4. OnStack(n)' = {}
    <3>1. ASSUME NEW i \in OnStack(n)' PROVE FALSE
      <4>1. i \in DOMAIN stack' /\ stack'[i].sym \in Nonterminals /\ stack'[i].val = n
        BY DEF OnStack
      <4>2. i # top
        BY <1>4, <1>5, <4>1
      <4>3. i \in 1 .. Len(stack) - k /\ stack'[i] = stack[i]
        BY <1>5, <4>1, <4>2
      <4>4. i \in OnStack(n)
        BY <1>3, <4>1, <4>3 DEF OnStack
      <4>5. i = j
        BY <2>3, <4>4
      <4>6. QED
        BY <1>3, <4>3, <4>5
    <3>2. QED
      BY <3>1
  <2>5. c \in {1, 2}
    <3>1. node.children \in Seq(Nat)
      BY DEF Node
    <3>2. QED
      BY <3>1
  <2>6. Edges(n)' = {<<N, c>>}
    <3>1. <<N, c>> \in Edges(n)'
      BY <1>1, <1>4, <1>10, <2>5 DEF Edges
    <3>2. ASSUME NEW edge \in Edges(n)' PROVE edge = <<N, c>>
      <4>1. /\ edge \in (DOMAIN nodes') \X {1, 2}
            /\ edge[2] \in DOMAIN nodes'[edge[1]].children
            /\ nodes'[edge[1]].children[edge[2]] = n
        BY DEF Edges
      <4>2. CASE edge[1] = N
        BY <1>4, <1>10, <4>1, <4>2
      <4>3. CASE edge[1] # N
        <5>1. edge[1] \in DOMAIN nodes /\ nodes'[edge[1]] = nodes[edge[1]]
          BY <1>4, <4>1, <4>3
        <5>2. edge \in Edges(n)
          BY <1>1, <4>1, <5>1 DEF Edges
        <5>3. QED
          BY <2>3, <5>2
      <4>4. QED
        BY <4>2, <4>3
    <3>3. QED
      BY <3>1, <3>2
  <2>7. QED
    BY <2>3, <2>4, <2>6 DEF OwnedOnce, Unowned
<1>11. ASSUME NEW n \in DOMAIN nodes, \A c \in DOMAIN node.children : node.children[c] # n
       PROVE  OwnedOnce(n)' /\ ~Unowned(n)'
  <2>1. OnStack(n)' = OnStack(n)
    <3>1. ASSUME NEW i \in OnStack(n) PROVE i \in OnStack(n)'
      <4>1. i \in DOMAIN stack /\ stack[i].sym \in Nonterminals /\ stack[i].val = n
        BY DEF OnStack
      <4>2. i \in 1 .. Len(stack) - k
        BY <1>3, <1>11, <4>1
      <4>3. QED
        BY <1>5, <4>1, <4>2 DEF OnStack
    <3>2. ASSUME NEW i \in OnStack(n)' PROVE i \in OnStack(n)
      <4>1. i \in DOMAIN stack' /\ stack'[i].sym \in Nonterminals /\ stack'[i].val = n
        BY DEF OnStack
      <4>2. i # top
        BY <1>4, <1>5, <4>1
      <4>3. QED
        BY <1>2, <4>1, <4>2, <1>5 DEF OnStack, top
    <3>3. QED
      BY <3>1, <3>2
  <2>2. Edges(n)' = Edges(n)
    <3>1. ASSUME NEW edge \in Edges(n) PROVE edge \in Edges(n)'
      BY <1>1, <1>4 DEF Edges
    <3>2. ASSUME NEW edge \in Edges(n)' PROVE edge \in Edges(n)
      <4>1. /\ edge \in (DOMAIN nodes') \X {1, 2}
            /\ edge[2] \in DOMAIN nodes'[edge[1]].children
            /\ nodes'[edge[1]].children[edge[2]] = n
        BY DEF Edges
      <4>2. edge[1] # N
        BY <1>4, <1>11, <4>1
      <4>3. edge[1] \in DOMAIN nodes /\ nodes'[edge[1]] = nodes[edge[1]]
        BY <1>4, <4>1, <4>2
      <4>4. QED
        BY <1>1, <4>1, <4>3 DEF Edges
    <3>3. QED
      BY <3>1, <3>2
  <2>3. QED
    BY <1>9, <2>1, <2>2 DEF OwnedOnce, Unowned
<1>12. OwnedOnce(N)' /\ ~Unowned(N)'
  <2>1. OnStack(N)' = {top}
    <3>1. top \in OnStack(N)'
      BY <1>4, <1>5 DEF OnStack
    <3>2. ASSUME NEW i \in OnStack(N)', i # top PROVE FALSE
      <4>1. i \in DOMAIN stack' /\ stack'[i].sym \in Nonterminals /\ stack'[i].val = N
        BY DEF OnStack
      <4>2. i \in DOMAIN stack /\ stack'[i] = stack[i]
        BY <1>2, <1>5, <3>2, <4>1 DEF top
      <4>3. N \in DOMAIN nodes \/ N = 0
        BY <1>1, <4>1, <4>2 DEF NodeInv
      <4>4. QED
        BY <1>4, <4>3
    <3>3. QED
      BY <3>1, <3>2
  <2>2. Edges(N)' = {}
    <3>1. ASSUME NEW edge \in Edges(N)' PROVE FALSE
      <4>1. /\ edge[1] \in DOMAIN nodes' /\ edge[2] \in DOMAIN nodes'[edge[1]].children
            /\ nodes'[edge[1]].children[edge[2]] = N
        BY DEF Edges
      <4>2. N \in DOMAIN nodes
        BY <1>6, <4>1
      <4>3. QED
        BY <1>4, <4>2
    <3>2. QED
      BY <3>1
  <2>3. root # N
    BY <1>1, <1>4
  <2>4. QED
    BY <2>1, <2>2, <2>3 DEF OwnedOnce, Unowned
<1>13. \A n \in DOMAIN nodes' : OwnedOnce(n)' /\ ~Unowned(n)'
  BY <1>4, <1>10, <1>11, <1>12
<1>14. root' \in {0} \cup DOMAIN nodes' /\ deleted' = {}
  BY <1>1, <1>4
<1>15. QED
  BY <1>4, <1>6, <1>7, <1>8, <1>13, <1>14 DEF NodeInv

LEMMA NodeFields ==
  /\ \A t \in Leaves : LeafKind[t] \in Kinds
  /\ \A t \in Operators : OperatorKind[t] \in Kinds
  /\ "Not" \in Kinds
BY DEF Kinds

LEMMA ReduceLeafKeeps == IInv /\ ReduceLeaf => IInv'
<1> SUFFICES ASSUME IInv, ReduceLeaf PROVE IInv'
  OBVIOUS
<1> DEFINE x == [sym |-> "primary", val |-> Len(nodes) + 1]
           made == [kind |-> LeafKind[Below(0)], value |-> Val(0), children |-> <<>>]
<1>1. /\ Reducing /\ Below(0) \in Leaves /\ stack' = Pushed(stack, 1, x)
      /\ nodes' = Append(nodes, made)
      /\ UNCHANGED <<read, lookahead, deleted, root, error, phase>>
      /\ strings' = IF Below(0) \in Texts THEN strings \ {Val(0)} ELSE strings
  BY DEF ReduceLeaf, Make, Replaced, Pushed, FreeText, Leaves
<1>2. stack \in Seq(Symbol) /\ Len(stack) \in Nat /\ Shape(stack) /\ Len(nodes) \in Nat
  BY StackOf DEF NodeInv
<1>3. Len(stack) > 0
  BY <1>1, <1>2, ReducibleIs
<1>4. stack[Len(stack) - 0].sym = Below(0) /\ stack[Len(stack) - 0].val = Val(0) /\ Val(0) \in Values
  BY <1>2, <1>3, PlaceOf
<1>5. Len(stack) - 0 = Len(stack)
  BY <1>2
<1>6. MayStandOn(Below(1), "primary")
  <2>1. MayStandOn(Below(0 + 1), Below(0))
    BY <1>2, <1>3, TopShape
  <2>2. Below(1) \in Openings
    BY <1>1, <2>1, SymbolSets DEF MayStandOn, Compares, Bitwises
  <2>3. QED
    BY <2>2 DEF MayStandOn
<1>7. x \in Symbol /\ x.sym = "primary" /\ x.val = Len(nodes) + 1
  BY <1>2, TokenTypes DEF Symbol, Symbols, Nonterminals
<1>8. made \in Node /\ made.children = <<>>
  BY <1>1, <1>4, NodeFields DEF Node
<1> HIDE DEF x, made
<1>9. PICK k \in 1 .. Len(stack) : k = 1
  BY <1>2, <1>3
<1>10. MayStandOn(Below(k), x.sym) /\ stack' = Pushed(stack, k, x) /\ x.sym \in Nonterminals \ {"input"}
  BY <1>1, <1>6, <1>7, <1>9 DEF Nonterminals
<1>11. StackInv' /\ TokenInv' /\ PhaseInv'
  BY <1>1, <1>4, <1>5, <1>7, <1>10, ReduceKeeps
<1>12. \A i \in Len(stack) - k + 1 .. Len(stack) : stack[i].sym \notin Nonterminals
  <2>1. stack[Len(stack)].sym \notin Nonterminals
    BY <1>1, <1>4, <1>5, SymbolKinds
  <2>2. QED
    BY <1>2, <1>9, <2>1
<1>13. Len(made.children) <= 2 /\ DOMAIN made.children = {}
  BY <1>8
<1>14. NodeInv'
  BY <1>1, <1>7, <1>8, <1>10, <1>12, <1>13, MakeNodes
<1>15. QED
  BY <1>11, <1>14 DEF IInv

LEMMA ReduceNotKeeps == IInv /\ ReduceNot => IInv'
<1> SUFFICES ASSUME IInv, ReduceNot PROVE IInv'
  OBVIOUS
<1> DEFINE x == [sym |-> "unary_expr", val |-> Len(nodes) + 1]
           made == [kind |-> "Not", value |-> 0, children |-> <<Val(0)>>]
<1>1. /\ Reducing /\ Below(0) = "unary_expr" /\ Below(1) = "!" /\ stack' = Pushed(stack, 2, x)
      /\ nodes' = Append(nodes, made)
      /\ UNCHANGED <<read, lookahead, deleted, root, error, phase, strings>>
  BY DEF ReduceNot, Make, Replaced, Pushed
<1>2. stack \in Seq(Symbol) /\ Len(stack) \in Nat /\ Shape(stack) /\ Len(nodes) \in Nat /\ NodeInv
  BY StackOf DEF NodeInv
<1>3. Len(stack) > 0 /\ Len(stack) > 1
  BY <1>1, <1>2, BelowIs, ReducibleIs
<1>4. /\ stack[Len(stack) - 0].sym = "unary_expr" /\ stack[Len(stack) - 0].val = Val(0)
      /\ Len(stack) - 0 \in DOMAIN stack
  BY <1>1, <1>2, <1>3, PlaceOf
<1>5. stack[Len(stack) - 1].sym = "!"
  BY <1>1, <1>2, <1>3, PlaceOf
<1>6. Val(0) \in DOMAIN nodes /\ Val(0) \in Nat
  BY <1>2, <1>4 DEF NodeInv, Nonterminals
<1>7. MayStandOn(Below(2), "unary_expr")
  <2>1. MayStandOn(Below(1 + 1), Below(1))
    BY <1>2, <1>3, TopShape
  <2>2. Below(2) \in Openings
    BY <1>1, <2>1, SymbolSets DEF MayStandOn, Compares, Bitwises
  <2>3. QED
    BY <2>2 DEF MayStandOn
<1>8. x \in Symbol /\ x.sym = "unary_expr" /\ x.val = Len(nodes) + 1
  BY <1>2, TokenTypes DEF Symbol, Symbols, Nonterminals
<1>9. made \in Node /\ made.children = <<Val(0)>>
  BY <1>6, NodeFields, TokenTypes DEF Node
<1> HIDE DEF x, made
<1>10. PICK k \in 1 .. Len(stack) : k = 2
  BY <1>2, <1>3
<1>11. /\ MayStandOn(Below(k), x.sym) /\ stack' = Pushed(stack, k, x) /\ x.sym \in Nonterminals \ {"input"}
       /\ Below(0) \notin Texts
  BY <1>1, <1>7, <1>8, <1>10, SymbolSets DEF Nonterminals, Texts
<1>12. strings' = IF Below(0) \in Texts THEN strings \ {stack[Len(stack)].val} ELSE strings
  BY <1>1, <1>11
<1>13. StackInv' /\ TokenInv' /\ PhaseInv'
  BY <1>1, <1>8, <1>11, <1>12, ReduceKeeps
<1>14. Len(made.children) <= 2 /\ DOMAIN made.children = {1} /\ made.children[1] = Val(0)
  BY <1>9
<1>15. \A i \in Len(stack) - k + 1 .. Len(stack) : i = Len(stack) - 0 \/ i = Len(stack) - 1
  BY <1>2, <1>10
<1>16. Len(stack) - 0 \in Len(stack) - k + 1 .. Len(stack)
  BY <1>2, <1>10
<1>17. ASSUME NEW c \in DOMAIN made.children
       PROVE  \E i \in Len(stack) - k + 1 .. Len(stack) :
                stack[i].sym \in Nonterminals \ {"input"} /\ stack[i].val = made.children[c]
  BY <1>4, <1>14, <1>16 DEF Nonterminals
<1>18. ASSUME NEW i \in Len(stack) - k + 1 .. Len(stack), stack[i].sym \in Nonterminals
       PROVE  \E c \in DOMAIN made.children : made.children[c] = stack[i].val
  <2>1. i = Len(stack) - 0
    BY <1>5, <1>15, <1>18 DEF Nonterminals
  <2>2. QED
    BY <1>4, <1>14, <2>1
<1>19. \A c, d \in DOMAIN made.children : made.children[c] = made.children[d] => c = d
  BY <1>14
<1>20. NodeInv'
  BY <1>1, <1>8, <1>9, <1>11, <1>14, <1>17, <1>18, <1>19, MakeNodes
<1>21. QED
  BY <1>13, <1>20 DEF IInv

LEMMA ReduceBinaryKeeps == IInv /\ ReduceBinary => IInv'
<1> SUFFICES ASSUME IInv, ReduceBinary PROVE IInv'
  OBVIOUS
<1> DEFINE x == [sym |-> Widened[Below(0)], val |-> Len(nodes) + 1]
           made == [kind |-> OperatorKind[Below(1)], value |-> 0, children |-> <<Val(2), Val(0)>>]
<1>1. /\ Reducing /\ Below(1) \in JoinedBy[Below(0)] /\ stack' = Pushed(stack, 3, x)
      /\ nodes' = Append(nodes, made)
      /\ UNCHANGED <<read, lookahead, deleted, root, error, phase, strings>>
  BY DEF ReduceBinary, Make, Replaced, Pushed, Operands
<1>2. stack \in Seq(Symbol) /\ Len(stack) \in Nat /\ Shape(stack) /\ Len(nodes) \in Nat /\ NodeInv
  BY StackOf DEF NodeInv
<1>3. Len(stack) > 0 /\ Below(0) \in Symbols
  BY <1>1, <1>2, BelowIs, ReducibleIs
<1>4. /\ Below(0) \in {"unary_expr", "bitwise_expr", "comparison_expr", "and_expr"}
      /\ Below(1) \in Operators
  <2>1. Below(0) \in {"unary_expr", "bitwise_expr", "comparison_expr", "and_expr"}
    BY <1>1, <1>3, JoinedByIs
  <2>2. QED
    BY <1>1, <2>1, JoinedByIs, SymbolSets DEF Bitwises, Compares
<1>5. Len(stack) > 1
  BY <1>2, <1>4, BelowIs, SymbolKinds DEF Symbols
<1>6. MayStandOn(Below(2), Below(1)) /\ MayFollow(Below(3), Below(1))
  <2>1. MayStandOn(Below(1 + 1), Below(1)) /\ MayFollow(Below(1 + 2), Below(1))
    BY <1>2, <1>5, TopShape
  <2>2. QED
    BY <2>1
<1>7. Below(2) \in Nonterminals \ {"input"}
  BY <1>4, <1>6, SymbolSets DEF MayStandOn, Compares, Bitwises, Nonterminals
<1>8. Len(stack) > 2
  BY <1>2, <1>7, BelowIs, SymbolKinds DEF Symbols
<1>9. MayStandOn(Below(3), Below(2))
  <2>1. MayStandOn(Below(2 + 1), Below(2))
    BY <1>2, <1>8, TopShape
  <2>2. QED
    BY <2>1
<1>10. MayStandOn(Below(3), Widened[Below(0)]) /\ Widened[Below(0)] \in Nonterminals \ {"input"}
  <2>1. CASE Below(0) = "unary_expr"
    <3>1. Below(2) = "bitwise_expr"
      BY <1>1, <1>6, <2>1, JoinedByIs, SymbolSets DEF MayStandOn, Compares, Bitwises, Openings
    <3>2. QED
      BY <1>9, <2>1, <3>1, WidenedIs DEF Nonterminals
  <2>2. CASE Below(0) = "bitwise_expr"
    <3>1. Below(2) = "bitwise_expr" /\ Below(3) \notin Compares
      BY <1>1, <1>6, <2>2, JoinedByIs, SymbolSets DEF MayStandOn, MayFollow, Compares, Bitwises, Openings
    <3>2. Below(3) \in {"bottom", "(", "AND", "OR"}
      BY <1>9, <3>1, SymbolSets DEF MayStandOn, Compares, Bitwises
    <3>3. QED
      BY <2>2, <3>2, WidenedIs DEF MayStandOn, Nonterminals
  <2>3. CASE Below(0) = "comparison_expr"
    <3>1. Below(2) = "and_expr"
      BY <1>1, <1>6, <2>3, JoinedByIs, SymbolSets DEF MayStandOn, Compares, Bitwises, Openings
    <3>2. QED
      BY <1>9, <2>3, <3>1, WidenedIs DEF Nonterminals
  <2>4. CASE Below(0) = "and_expr"
    <3>1. Below(2) = "or_expr"
      BY <1>1, <1>6, <2>4, JoinedByIs, SymbolSets DEF MayStandOn, Compares, Bitwises, Openings
    <3>2. QED
      BY <1>9, <2>4, <3>1, WidenedIs DEF Nonterminals
  <2>5. QED
    BY <1>4, <2>1, <2>2, <2>3, <2>4
<1>11. /\ stack[Len(stack) - 0].sym = Below(0) /\ stack[Len(stack) - 0].val = Val(0)
       /\ Len(stack) - 0 \in DOMAIN stack
  BY <1>2, <1>3, PlaceOf
<1>12. stack[Len(stack) - 1].sym = Below(1)
  BY <1>2, <1>5, PlaceOf
<1>13. /\ stack[Len(stack) - 2].sym = Below(2) /\ stack[Len(stack) - 2].val = Val(2)
       /\ Len(stack) - 2 \in DOMAIN stack
  BY <1>2, <1>8, PlaceOf
<1>14. Below(0) \in Nonterminals \ {"input"} /\ Below(0) \notin Texts /\ Below(1) \notin Nonterminals
  BY <1>4, SymbolSets DEF Nonterminals, Texts
<1>15. Val(0) \in DOMAIN nodes /\ Val(2) \in DOMAIN nodes /\ Val(0) \in Nat /\ Val(2) \in Nat
  BY <1>2, <1>7, <1>11, <1>13, <1>14 DEF NodeInv
<1>16. Val(0) # Val(2)
  <2>1. ASSUME Val(0) = Val(2) PROVE FALSE
    <3>1. Len(stack) - 0 \in OnStack(Val(0)) /\ Len(stack) - 2 \in OnStack(Val(0))
      BY <1>7, <1>11, <1>13, <1>14, <2>1 DEF OnStack
    <3>2. Len(stack) - 0 = Len(stack) - 2
      BY <1>2, <1>15, <3>1 DEF NodeInv, OwnedOnce
    <3>3. QED
      BY <1>2, <3>2
  <2>2. QED
    BY <2>1
<1>17. x \in Symbol /\ x.sym = Widened[Below(0)] /\ x.val = Len(nodes) + 1
  BY <1>2, <1>10, TokenTypes DEF Symbol, Symbols
<1>18. made \in Node /\ made.children = <<Val(2), Val(0)>>
  BY <1>4, <1>15, NodeFields, TokenTypes DEF Node
<1> HIDE DEF x, made
<1>19. PICK k \in 1 .. Len(stack) : k = 3
  BY <1>2, <1>8
<1>20. MayStandOn(Below(k), x.sym) /\ stack' = Pushed(stack, k, x) /\ x.sym \in Nonterminals \ {"input"}
  BY <1>1, <1>10, <1>17, <1>19
<1>21. strings' = IF Below(0) \in Texts THEN strings \ {stack[Len(stack)].val} ELSE strings
  BY <1>1, <1>14
<1>22. StackInv' /\ TokenInv' /\ PhaseInv'
  BY <1>1, <1>17, <1>20, <1>21, ReduceKeeps
<1>23. /\ Len(made.children) <= 2 /\ DOMAIN made.children = {1, 2}
       /\ made.children[1] = Val(2) /\ made.children[2] = Val(0)
  BY <1>18
<1>24. \A i \in Len(stack) - k + 1 .. Len(stack) :
         i = Len(stack) - 0 \/ i = Len(stack) - 1 \/ i = Len(stack) - 2
  BY <1>2, <1>19
<1>25. /\ Len(stack) - 0 \in Len(stack) - k + 1 .. Len(stack)
       /\ Len(stack) - 2 \in Len(stack) - k + 1 .. Len(stack)
  BY <1>2, <1>19
<1>26. ASSUME NEW c \in DOMAIN made.children
       PROVE  \E i \in Len(stack) - k + 1 .. Len(stack) :
                stack[i].sym \in Nonterminals \ {"input"} /\ stack[i].val = made.children[c]
  BY <1>7, <1>11, <1>13, <1>14, <1>23, <1>25
<1>27. ASSUME NEW i \in Len(stack) - k + 1 .. Len(stack), stack[i].sym \in Nonterminals
       PROVE  \E c \in DOMAIN made.children : made.children[c] = stack[i].val
  <2>1. i = Len(stack) - 0 \/ i = Len(stack) - 2
    BY <1>12, <1>14, <1>24, <1>27
  <2>2. QED
    BY <1>11, <1>13, <1>23, <2>1
<1>28. \A c, d \in DOMAIN made.children : made.children[c] = made.children[d] => c = d
  BY <1>16, <1>23
<1>29. NodeInv'
  BY <1>1, <1>17, <1>18, <1>20, <1>23, <1>26, <1>27, <1>28, MakeNodes
<1>30. QED
  BY <1>22, <1>29 DEF IInv

-----------------------------------------------------------------------------
(* The ends of yyparse. *)

LEMMA ReduceInputKeeps == IInv /\ ReduceInput => IInv'
<1> SUFFICES ASSUME IInv, ReduceInput PROVE IInv'
  OBVIOUS
<1> DEFINE x == [sym |-> "input", val |-> 0]
<1>1. /\ Reducing /\ Below(0) = "expr" /\ root' = Val(0) /\ stack' = Pushed(stack, 1, x)
      /\ UNCHANGED <<read, lookahead, nodes, strings, deleted, error, phase>>
  BY DEF ReduceInput, Replaced, Pushed
<1>2. stack \in Seq(Symbol) /\ Len(stack) \in Nat /\ Shape(stack) /\ NodeInv
  BY StackOf
<1>3. Len(stack) > 0 /\ Below(1) # "("
  BY <1>1, <1>2, ReducibleIs
<1>4. Below(1) = "bottom"
  <2>1. MayStandOn(Below(0 + 1), Below(0))
    BY <1>2, <1>3, TopShape
  <2>2. QED
    BY <1>1, <1>3, <2>1, SymbolSets DEF MayStandOn, Compares, Bitwises
<1>5. Len(stack) = 1
  <2>1. ASSUME Len(stack) > 1 PROVE Below(1) \in Symbols
    <3>1. 1 \in Nat
      OBVIOUS
    <3>2. QED
      BY <1>2, <2>1, <3>1, BelowIs
  <2>2. Below(1) \notin Symbols
    BY <1>4, SymbolKinds
  <2>3. ~(Len(stack) > 1)
    BY <2>1, <2>2
  <2>4. PICK n \in Nat : n = Len(stack)
    BY <1>2
  <2>5. n > 0 /\ ~(n > 1)
    BY <1>3, <2>3, <2>4
  <2>6. n = 1
    BY <2>5
  <2>7. QED
    BY <2>4, <2>6
<1>6. /\ stack[Len(stack) - 0].sym = "expr" /\ stack[Len(stack) - 0].val = Val(0)
      /\ Len(stack) - 0 \in DOMAIN stack
  BY <1>1, <1>2, <1>3, PlaceOf
<1>7. /\ stack[1].sym = "expr" /\ stack[1].val = Val(0) /\ DOMAIN stack = {1}
      /\ Val(0) \in DOMAIN nodes
  BY <1>2, <1>5, <1>6 DEF NodeInv, Nonterminals
<1>8. x \in Symbol /\ x.sym = "input" /\ x.val = 0
  BY TokenTypes DEF Symbol, Symbols, Nonterminals
<1> HIDE DEF x
<1>9. PICK k \in 1 .. Len(stack) : k = 1
  BY <1>2, <1>5
<1>10. /\ MayStandOn(Below(k), x.sym) /\ stack' = Pushed(stack, k, x) /\ x.sym \in Nonterminals
       /\ Below(0) \notin Texts
  BY <1>1, <1>4, <1>8, <1>9, SymbolSets DEF MayStandOn, Nonterminals, Texts
<1>11. StackInv' /\ TokenInv' /\ PhaseInv'
  BY <1>1, <1>8, <1>10, ReduceKeeps
<1>12. DOMAIN stack' = {1} /\ stack'[1] = x
  <2>1. Len(stack') = Len(stack) - k + 1 /\ stack' \in Seq(Symbol) /\ stack'[Len(stack')] = x
    BY <1>2, <1>8, <1>10, PushedTop
  <2>2. QED
    BY <1>5, <1>9, <2>1
<1>13. root = 0 /\ error = "none" /\ deleted = {} /\ 0 \notin DOMAIN nodes
  <2>1. phase = "parse"
    BY <1>1, <1>2, ReducibleIs
  <2>2. QED
    BY <1>1, <1>2, <2>1 DEF IInv, PhaseInv, NodeInv
<1>14. ASSUME NEW n PROVE Edges(n)' = Edges(n)
  BY <1>1 DEF Edges
<1>15. ASSUME NEW n \in DOMAIN nodes PROVE OnStack(n)' = {}
  BY <1>8, <1>12, <1>13 DEF OnStack
<1>16. OnStack(Val(0)) = {1}
  BY <1>7 DEF OnStack, Nonterminals
<1>17. ASSUME NEW n \in DOMAIN nodes, n # Val(0) PROVE OnStack(n) = {}
  BY <1>7, <1>17 DEF OnStack
<1>18. ASSUME NEW n \in DOMAIN nodes PROVE OwnedOnce(n)' /\ ~Unowned(n)'
  <2>1. OwnedOnce(n) /\ ~Unowned(n)
    BY <1>2, <1>13 DEF NodeInv
  <2>2. CASE n = Val(0)
    <3>1. Edges(n) = {}
      BY <1>16, <2>1, <2>2 DEF OwnedOnce
    <3>2. QED
      BY <1>1, <1>14, <1>15, <2>2, <3>1 DEF OwnedOnce, Unowned
  <2>3. CASE n # Val(0)
    <3>1. Edges(n) # {} /\ \A e, f \in Edges(n) : e = f
      BY <1>13, <1>17, <2>1, <2>3 DEF OwnedOnce, Unowned
    <3>2. QED
      BY <1>1, <1>14, <1>15, <2>3, <3>1 DEF OwnedOnce, Unowned
  <2>4. QED
    BY <2>2, <2>3
<1>19. NodeInv'
  BY <1>1, <1>2, <1>7, <1>8, <1>12, <1>13, <1>18 DEF NodeInv
<1>20. QED
  BY <1>11, <1>19 DEF IInv

\* An emptied stack is well formed.
LEMMA EmptyStack ==
  ASSUME IInv, stack' = <<>>, lookahead' = NoToken, strings' = {}, phase' \in {"returned", "done"},
         UNCHANGED read
  PROVE  StackInv' /\ TokenInv'
<1>1. stack' \in Seq(Symbol) /\ Len(stack') = 0 /\ Len(stack') < MaxDepth /\ Shape(stack')
  BY TokenTypes DEF Shape
<1>2. Below(0)' = "bottom"
  BY <1>1 DEF Below
<1>3. ~HasText'
  BY <1>2, TokenTypes DEF HasText
<1>4. phase' # "parse"
  OBVIOUS
<1>5. QED
  BY <1>1, <1>2, <1>3, <1>4, TokenTypes DEF StackInv, TokenInv, IInv

LEMMA AcceptKeeps == IInv /\ Accept => IInv'
<1> SUFFICES ASSUME IInv, Accept PROVE IInv'
  OBVIOUS
<1>1. /\ phase = "parse" /\ error = "none" /\ Below(0) = "$end"
      /\ phase' = "returned" /\ stack' = <<>>
      /\ UNCHANGED <<read, lookahead, nodes, strings, deleted, root, error>>
  BY DEF Accept, Parsing
<1>2. stack \in Seq(Symbol) /\ Len(stack) \in Nat /\ Shape(stack) /\ NodeInv
  BY StackOf
<1>3. Len(stack) > 0
  BY <1>1, <1>2, BelowIs
<1>4. Below(1) = "input"
  <2>1. MayStandOn(Below(0 + 1), Below(0))
    BY <1>2, <1>3, TopShape
  <2>2. QED
    BY <1>1, <2>1, SymbolSets DEF MayStandOn, Compares, Bitwises
<1>5. Len(stack) > 1
  BY <1>2, <1>4, BelowIs
<1>6. Below(2) = "bottom"
  <2>1. MayStandOn(Below(1 + 1), Below(1))
    BY <1>2, <1>5, TopShape
  <2>2. QED
    BY <1>4, <2>1, SymbolSets DEF MayStandOn, Compares, Bitwises
<1>7. Len(stack) = 2
  <2>1. ~(Len(stack) > 2)
    BY <1>2, <1>6, BelowIs
  <2>2. QED
    BY <1>2, <1>5, <2>1
<1>8. DOMAIN stack = {1, 2} /\ stack[2].sym = "$end" /\ stack[1].sym = "input"
  <2>1. stack[Len(stack) - 0].sym = "$end" /\ stack[Len(stack) - 1].sym = "input"
    BY <1>1, <1>2, <1>3, <1>4, <1>5, PlaceOf
  <2>2. QED
    BY <1>2, <1>7, <2>1
<1>9. stack[1].val = 0 /\ 0 \notin DOMAIN nodes
  BY <1>2, <1>8 DEF NodeInv
<1>10. ASSUME NEW n \in DOMAIN nodes PROVE OnStack(n) = {} /\ OnStack(n)' = {}
  <2>1. OnStack(n) = {}
    BY <1>8, <1>9 DEF OnStack, Nonterminals
  <2>2. OnStack(n)' = {}
    BY <1>1 DEF OnStack
  <2>3. QED
    BY <2>1, <2>2
<1>11. NodeInv'
  BY <1>1, <1>2, <1>10, SameOwners
<1>12. lookahead = NoToken /\ strings = {}
  <2>1. lookahead = NoToken
    BY <1>1, StackOf DEF Closing
  <2>2. ~HasText
    BY <1>1, <2>1, TokenTypes DEF HasText
  <2>3. QED
    BY <2>1, <2>2 DEF IInv, TokenInv
<1>13. StackInv' /\ TokenInv'
  BY <1>1, <1>12, EmptyStack
<1>14. PhaseInv'
  BY <1>1, <1>12 DEF IInv, PhaseInv
<1>15. QED
  BY <1>11, <1>13, <1>14 DEF IInv

\* The texts on the stack and of the lookahead are all there are.
LEMMA CleanedUp == IInv => CleanUp = {}
<1> SUFFICES ASSUME IInv PROVE CleanUp = {}
  OBVIOUS
<1>1. /\ stack \in Seq(Symbol) /\ Len(stack) \in Nat
      /\ strings = IF HasText THEN {Len(read)} ELSE {}
      /\ Below(0) \in Texts => stack[Len(stack)].val = Len(read)
  BY StackOf DEF IInv, TokenInv
<1>2. CASE lookahead.sym \in Texts
  BY <1>1, <1>2 DEF CleanUp, TokenValue
<1>3. CASE Below(0) \in Texts
  <2>1. Len(stack) > 0 /\ Len(stack) - 0 = Len(stack)
    BY <1>1, <1>3, TokenTypes, BelowIs
  <2>2. Len(stack) \in DOMAIN stack /\ stack[Len(stack)].sym \in Texts
    BY <1>1, <1>3, <2>1, PlaceOf
  <2>3. Len(read) \in {stack[i].val : i \in {j \in DOMAIN stack : stack[j].sym \in Texts}}
    BY <1>1, <1>3, <2>2
  <2>4. QED
    BY <1>1, <2>3 DEF CleanUp
<1>4. CASE ~HasText
  BY <1>1, <1>4 DEF CleanUp
<1>5. QED
  BY <1>2, <1>3, <1>4 DEF HasText

LEMMA NoFailure == "none" \notin Failures /\ "syntax error" \in Failures /\ "memory exhausted" \in Failures
BY Zenon DEF Failures

LEMMA AbortKeeps ==
  ASSUME IInv, phase = "parse", NEW message, message \in Failures, Abort(message)
  PROVE  IInv'
<1>1. /\ error' = message /\ error' # "none" /\ error' \in Failures /\ phase' = "returned" /\ strings' = {}
      /\ stack' = <<>> /\ lookahead' = NoToken
      /\ UNCHANGED <<read, nodes, deleted, root>>
  BY NoFailure, CleanedUp DEF Abort
<1>2. DOMAIN stack' = {}
  BY <1>1
<1>3. NodeInv'
  <2>1. \A n \in DOMAIN nodes : OnStack(n)' = {}
    BY <1>2 DEF OnStack
  <2>2. \A i \in DOMAIN stack' :
          /\ stack'[i].sym \in Nonterminals \ {"input"} => stack'[i].val \in DOMAIN nodes
          /\ stack'[i].sym = "input" => stack'[i].val = 0
    BY <1>2
  <2>3. NodeInv
    BY DEF IInv
  <2>4. QED
    BY <1>1, <2>1, <2>2, <2>3, SameOwners
<1>4. StackInv' /\ TokenInv'
  BY <1>1, EmptyStack
<1>5. PhaseInv'
  BY <1>1 DEF IInv, PhaseInv
<1>6. QED
  BY <1>3, <1>4, <1>5 DEF IInv

LEMMA SyntaxErrorKeeps == IInv /\ SyntaxError => IInv'
BY NoFailure, AbortKeeps DEF SyntaxError, Parsing

LEMMA ExhaustedKeeps == IInv /\ Exhausted => IInv'
BY NoFailure, AbortKeeps DEF Exhausted

-----------------------------------------------------------------------------
(* The tree of a node, a recursive function of it: that it exists and what *)
(* it is are shown by induction, which on sets of numbers is a least       *)
(* counterexample.                                                         *)

LEMMA LeastNatural ==
  ASSUME NEW T \in SUBSET Nat, T # {}
  PROVE  \E x \in T : \A y \in T : x <= y
<1> DEFINE R == OpToRel(<, Nat)
<1>1. IsWellFoundedOn(R, Nat)
  BY NatLessThanWellFounded
<1>2. \A x, y \in Nat : <<y, x>> \in R <=> y < x
  BY DEF OpToRel
<1> HIDE DEF R
<1>3. PICK x \in T : \A y \in T : ~(<<y, x>> \in R)
  BY <1>1, WFMin
<1>4. ASSUME NEW y \in T PROVE x <= y
  <2>1. x \in Nat /\ y \in Nat
    OBVIOUS
  <2>2. ~(y < x)
    BY <1>2, <1>3, <2>1
  <2>3. QED
    BY <2>1, <2>2
<1>5. QED
  BY <1>4

LEMMA Induction ==
  ASSUME NEW m \in Nat, NEW S,
         \A k \in 0 .. m : (\A j \in 0 .. k - 1 : j \in S) => k \in S
  PROVE  \A k \in 0 .. m : k \in S
<1> DEFINE T == {k \in 0 .. m : k \notin S}
<1> SUFFICES ASSUME T # {} PROVE FALSE
  OBVIOUS
<1>1. T \in SUBSET Nat
  OBVIOUS
<1>2. PICK x \in T : \A y \in T : x <= y
  BY <1>1, LeastNatural
<1>3. x \in 0 .. m /\ x \notin S
  BY <1>2
<1>4. ASSUME NEW j \in 0 .. x - 1 PROVE j \in S
  <2>1. j \in 0 .. m /\ ~(x <= j)
    BY <1>3
  <2>2. QED
    BY <1>2, <2>1
<1>5. QED
  BY <1>3, <1>4

\* The trees of the nodes up to m.
TreesOf(f, m) ==
  f = [k \in 0 .. m |->
         IF k = 0 THEN {}
         ELSE {k} \cup UNION {f[nodes[k].children[c]] : c \in DOMAIN nodes[k].children}]

\* The children of a node come before it.
Descending ==
  /\ nodes \in Seq(Node)
  /\ \A n \in DOMAIN nodes : \A c \in DOMAIN nodes[n].children : nodes[n].children[c] \in 1 .. (n - 1)

LEMMA TreesExist ==
  ASSUME Descending, NEW m \in 0 .. Len(nodes)
  PROVE  \E f : TreesOf(f, m)
<1> DEFINE S == {k \in 0 .. Len(nodes) : \E f : TreesOf(f, k)}
<1>1. Len(nodes) \in Nat
  BY DEF Descending
<1>2. ASSUME NEW k \in 0 .. Len(nodes), \A j \in 0 .. k - 1 : j \in S
      PROVE  k \in S
  <2>1. CASE k = 0
    <3> DEFINE f == [i \in 0 .. k |-> {}]
    <3>1. TreesOf(f, k)
      <4>1. ASSUME NEW i \in 0 .. k
            PROVE  {} = IF i = 0 THEN {}
                        ELSE {i} \cup UNION {f[nodes[i].children[c]] : c \in DOMAIN nodes[i].children}
        BY <2>1
      <4>2. QED
        BY <4>1 DEF TreesOf
    <3>2. QED
      BY <3>1
  <2>2. CASE k # 0
    <3>1. k - 1 \in 0 .. k - 1 /\ k \in DOMAIN nodes /\ k \in Nat
      BY <1>1, <2>2 DEF Descending
    <3>2. PICK f : TreesOf(f, k - 1)
      BY <1>2, <3>1
    <3> DEFINE g == [i \in 0 .. k |->
                       IF i < k THEN f[i]
                       ELSE {k} \cup UNION {f[nodes[k].children[c]] : c \in DOMAIN nodes[k].children}]
    <3>3. ASSUME NEW i \in 0 .. k
          PROVE  g[i] = IF i = 0 THEN {}
                        ELSE {i} \cup UNION {g[nodes[i].children[c]] : c \in DOMAIN nodes[i].children}
      <4>1. CASE i = 0
        <5>1. i < k /\ i \in 0 .. k - 1
          BY <2>2, <3>1, <4>1
        <5>2. f[i] = {}
          BY <3>2, <4>1, <5>1 DEF TreesOf
        <5>3. QED
          BY <4>1, <5>1, <5>2
      <4>2. CASE i # 0
        <5>1. i \in DOMAIN nodes /\ i \in Nat
          BY <1>1, <4>2 DEF Descending
        <5>2. ASSUME NEW c \in DOMAIN nodes[i].children
              PROVE  g[nodes[i].children[c]] = f[nodes[i].children[c]]
          <6>1. nodes[i].children[c] \in 1 .. i - 1
            BY <5>1 DEF Descending
          <6>2. PICK d \in 1 .. i - 1 : d = nodes[i].children[c]
            BY <6>1
          <6>3. d \in 0 .. k /\ d < k
            BY <3>1, <5>1, <6>2
          <6>4. g[d] = f[d]
            BY <6>3
          <6>5. QED
            BY <6>2, <6>4
        <5>3. CASE i < k
          <6>1. i \in 0 .. k - 1 /\ g[i] = f[i]
            BY <3>1, <5>3
          <6>2. f[i] = {i} \cup UNION {f[nodes[i].children[c]] : c \in DOMAIN nodes[i].children}
            BY <3>2, <4>2, <6>1, Zenon DEF TreesOf
          <6> HIDE DEF g
          <6>3. QED
            BY <4>2, <5>2, <6>1, <6>2
        <5>4. CASE ~(i < k)
          <6>1. i = k
            BY <3>1, <5>1, <5>4
          <6>2. g[i] = {i} \cup UNION {f[nodes[i].children[c]] : c \in DOMAIN nodes[i].children}
            BY <5>4, <6>1
          <6> HIDE DEF g
          <6>3. QED
            BY <4>2, <5>2, <6>2
        <5>5. QED
          BY <5>3, <5>4
      <4>3. QED
        BY <4>1, <4>2
    <3>4. TreesOf(g, k)
      <4> DEFINE G(i) == IF i = 0 THEN {}
                         ELSE {i} \cup UNION {g[nodes[i].children[c]] : c \in DOMAIN nodes[i].children}
      <4>1. \A i \in 0 .. k : g[i] = G(i)
        BY <3>3
      <4>2. g = [i \in 0 .. k |-> g[i]]
        OBVIOUS
      <4> HIDE DEF g
      <4>3. g = [i \in 0 .. k |-> G(i)]
        <5> HIDE DEF G
        <5> QED
          BY <4>1, <4>2
      <4>4. QED
        BY <4>3 DEF TreesOf
    <3>5. QED
      BY <3>4
  <2>3. QED
    BY <2>1, <2>2
<1> HIDE DEF S
<1>3. \A k \in 0 .. Len(nodes) : k \in S
  BY <1>1, <1>2, Induction
<1>4. QED
  BY <1>3 DEF S

\* A tree has its root, the children of what it has, and nothing else.
IsTree(t, n) ==
  /\ t \subseteq 1 .. n
  /\ n # 0 => n \in t
  /\ \A k \in t : \A c \in DOMAIN nodes[k].children : nodes[k].children[c] \in t
  /\ \A x \in t : x = n \/ \E k \in t : \E c \in DOMAIN nodes[k].children : nodes[k].children[c] = x

LEMMA TreesAre ==
  ASSUME Descending, NEW m \in 0 .. Len(nodes), NEW f, TreesOf(f, m)
  PROVE  \A n \in 0 .. m : IsTree(f[n], n)
<1> DEFINE S == {n \in 0 .. m : IsTree(f[n], n)}
<1>1. m \in Nat /\ Len(nodes) \in Nat
  BY DEF Descending
<1>2. ASSUME NEW n \in 0 .. m, \A j \in 0 .. n - 1 : j \in S
      PROVE  n \in S
  <2>1. CASE n = 0
    <3>1. f[n] = {}
      BY <2>1, Zenon DEF TreesOf
    <3>2. QED
      BY <2>1, <3>1 DEF IsTree
  <2>2. CASE n # 0
    <3> DEFINE child(c) == nodes[n].children[c]
    <3>1. n \in DOMAIN nodes /\ n \in Nat
      BY <1>1, <2>2 DEF Descending
    <3>2. f[n] = {n} \cup UNION {f[child(c)] : c \in DOMAIN nodes[n].children}
      BY <2>2, Zenon DEF TreesOf
    <3>3. ASSUME NEW c \in DOMAIN nodes[n].children
          PROVE  child(c) \in 1 .. n - 1 /\ IsTree(f[child(c)], child(c))
      <4>1. child(c) \in 1 .. n - 1
        BY <3>1 DEF Descending
      <4>2. PICK d \in 1 .. n - 1 : d = child(c)
        BY <4>1
      <4>3. d \in 0 .. n - 1
        BY <3>1
      <4>4. QED
        BY <1>2, <4>1, <4>2, <4>3
    <3>4. n \in f[n]
      BY <3>2
    <3>5. ASSUME NEW c \in DOMAIN nodes[n].children PROVE f[child(c)] \subseteq f[n]
      BY <3>2
    <3>6. ASSUME NEW x \in f[n]
          PROVE  x = n \/ \E c \in DOMAIN nodes[n].children : x \in f[child(c)]
      BY <3>2
    <3>7. f[n] \subseteq 1 .. n
      <4>1. ASSUME NEW c \in DOMAIN nodes[n].children PROVE f[child(c)] \subseteq 1 .. n
        <5>1. PICK d \in 1 .. n - 1 : d = child(c)
          BY <3>3
        <5>2. 1 .. d \subseteq 1 .. n
          BY <3>1, <5>1
        <5>3. f[d] \subseteq 1 .. d
          BY <3>3, <5>1, Zenon DEF IsTree
        <5>4. QED
          BY <5>1, <5>2, <5>3
      <4>2. n \in 1 .. n
        BY <2>2, <3>1
      <4>3. QED
        BY <3>6, <4>1, <4>2
    <3> HIDE DEF child
    <3>8. ASSUME NEW k \in f[n], NEW e \in DOMAIN nodes[k].children
          PROVE  nodes[k].children[e] \in f[n]
      <4>1. CASE k = n
        <5>1. e \in DOMAIN nodes[n].children /\ nodes[k].children[e] = child(e)
          BY <4>1 DEF child
        <5>2. child(e) # 0 /\ IsTree(f[child(e)], child(e))
          BY <3>3, <5>1
        <5>3. child(e) \in f[child(e)]
          BY <5>2 DEF IsTree
        <5>4. QED
          BY <3>5, <5>1, <5>3
      <4>2. CASE k # n
        <5>1. PICK c \in DOMAIN nodes[n].children : k \in f[child(c)]
          BY <3>6, <4>2
        <5>2. nodes[k].children[e] \in f[child(c)]
          BY <3>3, <5>1 DEF IsTree
        <5>3. QED
          BY <3>5, <5>2
      <4>3. QED
        BY <4>1, <4>2
    <3>9. ASSUME NEW x \in f[n], x # n
          PROVE  \E k \in f[n] : \E e \in DOMAIN nodes[k].children : nodes[k].children[e] = x
      <4>1. PICK c \in DOMAIN nodes[n].children : x \in f[child(c)]
        BY <3>6, <3>9
      <4>2. CASE x = child(c)
        BY <3>4, <4>2 DEF child
      <4>3. CASE x # child(c)
        <5>1. \E k \in f[child(c)] : \E e \in DOMAIN nodes[k].children : nodes[k].children[e] = x
          BY <3>3, <4>1, <4>3 DEF IsTree
        <5>2. QED
          BY <3>5, <5>1
      <4>4. QED
        BY <4>2, <4>3
    <3>10. IsTree(f[n], n)
      BY <3>4, <3>7, <3>8, <3>9 DEF IsTree
    <3>11. QED
      BY <3>10
  <2>3. QED
    BY <2>1, <2>2
<1> HIDE DEF S
<1>3. \A n \in 0 .. m : n \in S
  BY <1>1, <1>2, Induction
<1>4. QED
  BY <1>3 DEF S

LEMMA SubtreeIs ==
  ASSUME Descending, NEW n \in 0 .. Len(nodes)
  PROVE  IsTree(Subtree(n), n)
<1> DEFINE f == CHOOSE f : TreesOf(f, n)
<1>1. TreesOf(f, n)
  BY TreesExist
<1>2. Subtree(n) = f[n]
  BY DEF Subtree, TreesOf
<1> HIDE DEF f
<1>3. n \in 0 .. n
  BY DEF Descending
<1>4. QED
  BY <1>1, <1>2, <1>3, TreesAre

-----------------------------------------------------------------------------
(* The invariant. *)

\* The tree that is dropped goes as a whole: what is left has the owner it had.
LEMMA DropKeeps == IInv /\ Drop => IInv'
<1> SUFFICES ASSUME IInv, Drop PROVE IInv'
  OBVIOUS
<1> DEFINE t == Subtree(root)
<1>1. /\ phase = "returned" /\ phase' = "done" /\ root' = 0
      /\ UNCHANGED <<read, lookahead, stack, nodes, strings, error>>
  BY DEF Drop
<1>2. /\ NodeInv /\ deleted = {} /\ stack = <<>> /\ lookahead = NoToken
  BY <1>1 DEF IInv, PhaseInv
<1>3. deleted' = t
  BY <1>2 DEF Drop, DropTree
<1>4. IsTree(t, root) /\ root \in 0 .. Len(nodes) /\ Len(nodes) \in Nat
  <2>1. Descending /\ nodes \in Seq(Node) /\ root \in {0} \cup DOMAIN nodes
    BY <1>2 DEF NodeInv, Descending
  <2>2. root \in 0 .. Len(nodes) /\ Len(nodes) \in Nat
    BY <2>1
  <2>3. QED
    BY <2>1, <2>2, SubtreeIs
<1> HIDE DEF t
<1>5. /\ t \subseteq DOMAIN nodes
      /\ root # 0 => root \in t
      /\ \A k \in t : \A c \in DOMAIN nodes[k].children : nodes[k].children[c] \in t
      /\ \A x \in t : x = root \/ \E k \in t : \E c \in DOMAIN nodes[k].children :
                                    nodes[k].children[c] = x
  <2>1. DOMAIN nodes = 1 .. Len(nodes) /\ 1 .. root \subseteq 1 .. Len(nodes)
    BY <1>2, <1>4 DEF NodeInv
  <2>2. QED
    BY <1>4, <2>1, Zenon DEF IsTree
<1>6. \A n : OnStack(n) = {} /\ OnStack(n)' = {}
  <2>1. DOMAIN stack = {}
    BY <1>2
  <2>2. QED
    BY <1>1, <2>1 DEF OnStack
<1>7. ASSUME NEW n PROVE Edges(n)' = {e \in Edges(n) : e[1] \notin t}
  BY <1>1, <1>2, <1>3 DEF Edges
<1>8. 0 \notin DOMAIN nodes
  BY <1>2 DEF NodeInv
<1>9. ASSUME NEW n \in DOMAIN nodes PROVE OwnedOnce(n)'
  <2>1. OwnedOnce(n)
    BY <1>2 DEF NodeInv
  <2>2. QED
    BY <1>1, <1>6, <1>7, <1>8, <2>1 DEF OwnedOnce
<1>10. ASSUME NEW n \in DOMAIN nodes \ t, error = "none" PROVE ~Unowned(n)'
  <2>1. ~Unowned(n)
    BY <1>2, <1>10 DEF NodeInv
  <2>2. root # n
    BY <1>5, <1>8, <1>10
  <2>3. PICK e \in Edges(n) : TRUE
    BY <1>6, <2>1, <2>2 DEF Unowned
  <2>4. e[1] \notin t
    BY <1>5, <1>10, <2>3 DEF Edges
  <2>5. QED
    BY <1>7, <2>3, <2>4 DEF Unowned
<1>11. ASSUME NEW n \in t PROVE Unowned(n)'
  <2>1. n \in DOMAIN nodes /\ OwnedOnce(n) /\ root' # n
    BY <1>1, <1>2, <1>5, <1>8 DEF NodeInv
  <2>2. ASSUME NEW e \in Edges(n), e[1] \notin t PROVE FALSE
    <3>1. root # n
      BY <2>1, <2>2 DEF OwnedOnce
    <3>2. PICK k \in t : \E d \in DOMAIN nodes[k].children : nodes[k].children[d] = n
      BY <1>5, <3>1
    <3>3. PICK c \in DOMAIN nodes[k].children : nodes[k].children[c] = n
      BY <3>2
    <3>4. c \in {1, 2}
      <4>1. /\ k \in DOMAIN nodes /\ nodes[k] \in Node /\ Len(nodes[k].children) <= 2
        BY <1>2, <1>5 DEF NodeInv
      <4>2. nodes[k].children \in Seq(Nat)
        BY <4>1 DEF Node
      <4>3. QED
        BY <3>3, <4>1, <4>2
    <3>5. <<k, c>> \in Edges(n)
      BY <1>2, <1>5, <3>3, <3>4 DEF Edges
    <3>6. e = <<k, c>>
      BY <2>1, <2>2, <3>5 DEF OwnedOnce
    <3>7. QED
      BY <2>2, <3>2, <3>6
  <2>3. Edges(n)' = {}
    BY <1>7, <2>2
  <2>4. QED
    BY <1>6, <2>1, <2>3 DEF Unowned
<1>12. NodeInv'
  <2>1. /\ nodes' \in Seq(Node)
        /\ \A n \in DOMAIN nodes' :
             /\ Len(nodes'[n].children) <= 2
             /\ \A c \in DOMAIN nodes'[n].children : nodes'[n].children[c] \in 1 .. (n - 1)
    BY <1>1, <1>2 DEF NodeInv
  <2>2. \A i \in DOMAIN stack' :
          /\ stack'[i].sym \in Nonterminals \ {"input"} => stack'[i].val \in DOMAIN nodes'
          /\ stack'[i].sym = "input" => stack'[i].val = 0
    BY <1>1, <1>2 DEF NodeInv
  <2>3. QED
    BY <1>1, <1>3, <1>5, <1>9, <1>10, <1>11, <2>1, <2>2 DEF NodeInv
<1>13. StackInv' /\ TokenInv'
  <2>1. phase' \in {"returned", "done"} /\ stack' = <<>> /\ lookahead' = NoToken
    BY <1>1, <1>2
  <2>2. strings = {}
    <3>1. ~HasText
      BY <1>2, TokenTypes DEF HasText, Below
    <3>2. QED
      BY <3>1 DEF IInv, TokenInv
  <2>3. QED
    BY <1>1, <2>1, <2>2, EmptyStack
<1>14. PhaseInv'
  BY <1>1, <1>2 DEF IInv, PhaseInv
<1>15. QED
  BY <1>12, <1>13, <1>14 DEF IInv

LEMMA StutterKeeps == IInv /\ UNCHANGED yvars => IInv'
<1> SUFFICES ASSUME IInv, UNCHANGED yvars PROVE IInv'
  OBVIOUS
<1>1. UNCHANGED <<read, lookahead, stack, nodes, strings, deleted, root, error, phase>>
  BY DEF yvars
<1>2. StackInv'
  BY <1>1 DEF IInv, StackInv, Below
<1>3. TokenInv'
  BY <1>1 DEF IInv, TokenInv, HasText, Below
<1>4. NodeInv'
  BY <1>1 DEF IInv, NodeInv, OwnedOnce, Unowned, OnStack, Edges
<1>5. PhaseInv'
  BY <1>1 DEF IInv, PhaseInv, Below
<1>6. QED
  BY <1>2, <1>3, <1>4, <1>5 DEF IInv

LEMMA InitKeeps == Init => IInv
<1> SUFFICES ASSUME Init PROVE IInv
  OBVIOUS
<1>1. /\ read = <<>> /\ lookahead = NoToken /\ stack = <<>> /\ nodes = <<>> /\ strings = {}
      /\ deleted = {} /\ root = 0 /\ error = "none" /\ phase = "parse"
  BY DEF Init
<1>2. Below(0) = "bottom" /\ "bottom" \notin Closing
  BY <1>1, SymbolSets DEF Below, Closing
<1>3. StackInv
  BY <1>1, TokenTypes DEF StackInv, Shape
<1>4. TokenInv
  <2>1. ~HasText
    BY <1>1, <1>2, TokenTypes DEF HasText
  <2>2. QED
    BY <1>1, <1>2, <2>1, TokenTypes DEF TokenInv
<1>5. NodeInv
  BY <1>1 DEF NodeInv
<1>6. PhaseInv
  BY <1>1 DEF PhaseInv
<1>7. QED
  BY <1>3, <1>4, <1>5, <1>6 DEF IInv

THEOREM Invariance == Spec => []IInv
<1>1. IInv /\ [Next]_yvars => IInv'
  BY LexKeeps, ShiftKeeps, ReduceLeafKeeps, ReduceParensKeeps, ReduceNotKeeps, ReduceBinaryKeeps,
     ReduceUnitKeeps, ReduceInputKeeps, AcceptKeeps, SyntaxErrorKeeps, ExhaustedKeeps, DropKeeps,
     StutterKeeps DEF Next, Reduce
<1>2. QED
  BY <1>1, InitKeeps, PTL DEF Spec

-----------------------------------------------------------------------------
(* What follows from it. *)

\* A text is nowhere on the stack but at the top.
LEMMA TextOnTop ==
  ASSUME IInv, NEW i \in DOMAIN stack, stack[i].sym \in Texts
  PROVE  i = Len(stack)
<1>1. stack \in Seq(Symbol) /\ Len(stack) \in Nat /\ Shape(stack)
  BY StackOf
<1>2. SUFFICES ASSUME i # Len(stack) PROVE FALSE
  OBVIOUS
<1>3. i \in 1 .. Len(stack) /\ i + 1 \in 1 .. Len(stack) /\ (i + 1) - 1 = i
  BY <1>1, <1>2
<1>4. MayStandOn(SymAt(stack, (i + 1) - 1), stack[i + 1].sym)
  BY <1>1, <1>3 DEF Shape
<1>5. SymAt(stack, (i + 1) - 1) = stack[i].sym
  BY <1>3 DEF SymAt
<1>6. PICK x \in Texts : \E y : MayStandOn(x, y)
  BY <1>4, <1>5
<1>7. QED
  BY <1>6, SymbolSets DEF MayStandOn, Openings, Compares, Bitwises, Texts

\* The types.
THEOREM TypeCorrect == Spec => []TypeOK
<1>1. IInv => TypeOK
  <2> SUFFICES ASSUME IInv PROVE TypeOK
    OBVIOUS
  <2>1. ASSUME NEW i \in DOMAIN stack PROVE stack[i].sym \in Terminals \cup Nonterminals
    <3>1. stack[i] \in Symbol
      BY DEF IInv, StackInv
    <3>2. QED
      BY <3>1 DEF Symbol, Symbols
  <2>2. strings \subseteq DOMAIN read
    <3>1. read \in Seq(Tokens \cup {EndToken}) /\ Len(read) \in Nat
      BY DEF IInv, TokenInv
    <3>2. CASE HasText
      BY <3>1, <3>2 DEF IInv, TokenInv
    <3>3. CASE ~HasText
      BY <3>3 DEF IInv, TokenInv
    <3>4. QED
      BY <3>2, <3>3
  <2>3. error \in {"none", "syntax error", "memory exhausted"}
    BY Zenon DEF IInv, PhaseInv, Failures
  <2>4. phase \in {"parse", "returned", "done"}
    BY DEF IInv, PhaseInv
  <2>5. /\ \A n \in DOMAIN nodes : \A c \in DOMAIN nodes[n].children :
             nodes[n].children[c] \in 1..(n - 1)
        /\ deleted \subseteq DOMAIN nodes
        /\ root \in {0} \cup DOMAIN nodes
    BY DEF IInv, NodeInv
  <2>6. /\ read \in Seq(Tokens \cup {EndToken}) /\ Len(read) <= MaxTokens + 1
        /\ lookahead \in Tokens \cup {EndToken, NoToken}
        /\ Len(stack) < MaxDepth
    BY DEF IInv, TokenInv, StackInv
  <2>7. QED
    BY <2>1, <2>2, <2>3, <2>4, <2>5, <2>6, Zenon DEF TypeOK
<1>2. QED
  BY <1>1, Invariance, PTL

\* The copy of a text is held in one place until it is freed, however the
\* parse ends.
THEOREM TextsFreed == Spec => []TextsFreedOnce
<1>1. IInv => TextsFreedOnce
  <2> SUFFICES ASSUME IInv PROVE TextsFreedOnce
    OBVIOUS
  <2>1. /\ strings = IF HasText THEN {Len(read)} ELSE {}
        /\ Below(0) \in Texts => stack[Len(stack)].val = Len(read)
        /\ Below(0) \in Closing => lookahead = NoToken
        /\ stack \in Seq(Symbol) /\ Len(stack) \in Nat
    BY DEF IInv, TokenInv, StackInv
  <2>2. Texts \subseteq Closing
    BY SymbolKinds DEF Closing
  <2>3. Below(0) \in Texts => Len(stack) > 0
    BY TokenTypes DEF Below
  <2>4. Len(stack) > 0 => Below(0) = stack[Len(stack)].sym /\ Len(stack) \in DOMAIN stack
    BY <2>1 DEF Below
  <2>5. TextSymbols = IF Below(0) \in Texts THEN {Len(stack)} ELSE {}
    <3>1. CASE Below(0) \in Texts
      BY <2>3, <2>4, <3>1, TextOnTop DEF TextSymbols
    <3>2. CASE Below(0) \notin Texts
      <4>1. ASSUME NEW i \in TextSymbols PROVE FALSE
        <5>1. i \in DOMAIN stack /\ stack[i].sym \in Texts /\ i = Len(stack)
          BY TextOnTop DEF TextSymbols
        <5>2. Len(stack) > 0
          BY <2>1, <5>1
        <5>3. QED
          BY <2>4, <3>2, <5>1, <5>2
      <4>2. QED
        BY <3>2, <4>1
    <3>3. QED
      BY <3>1, <3>2
  <2>6. /\ \A x : Cardinality({x}) = 1
        /\ Cardinality({}) = 0
    BY FS_Singleton, FS_EmptySet
  <2>7. phase # "parse" => strings = {}
    <3>1. SUFFICES ASSUME phase # "parse" PROVE strings = {}
      OBVIOUS
    <3>2. lookahead = NoToken /\ stack = <<>>
      BY <3>1 DEF IInv, PhaseInv
    <3>3. ~HasText
      BY <3>2, TokenTypes DEF HasText, Below
    <3>4. QED
      BY <2>1, <3>3
  <2>8. CASE Below(0) \in Texts
    <3>1. lookahead.sym \notin Texts /\ HasText
      BY <2>1, <2>2, <2>8, TokenTypes DEF HasText
    <3>2. TextSymbols = {Len(stack)}
      BY <2>5, <2>8
    <3>3. HeldTexts = {Len(read)}
      BY <2>1, <2>8, <3>1, <3>2 DEF HeldTexts
    <3>4. Cardinality(TextSymbols) = 1 /\ Cardinality(HeldTexts) = 1
      BY <2>6, <3>2, <3>3
    <3>5. (IF lookahead.sym \in Texts THEN 1 ELSE 0) = 0
      BY <3>1
    <3>6. strings = HeldTexts
      BY <2>1, <3>1, <3>3
    <3>7. QED
      BY <2>7, <3>4, <3>5, <3>6 DEF TextsFreedOnce
  <2>9. CASE Below(0) \notin Texts
    <3>1. TextSymbols = {}
      BY <2>5, <2>9
    <3>2. CASE lookahead.sym \in Texts
      <4>1. HeldTexts = {Len(read)} /\ HasText
        BY <3>1, <3>2 DEF HeldTexts, TokenValue, HasText
      <4>2. Cardinality(TextSymbols) = 0 /\ Cardinality(HeldTexts) = 1
        BY <2>6, <3>1, <4>1
      <4>3. (IF lookahead.sym \in Texts THEN 1 ELSE 0) = 1
        BY <3>2
      <4>4. strings = HeldTexts
        BY <2>1, <4>1
      <4>5. QED
        BY <2>7, <4>2, <4>3, <4>4 DEF TextsFreedOnce
    <3>3. CASE lookahead.sym \notin Texts
      <4>1. HeldTexts = {} /\ ~HasText
        BY <2>9, <3>1, <3>3 DEF HeldTexts, HasText
      <4>2. QED
        BY <2>1, <2>6, <2>7, <3>1, <3>3, <4>1 DEF TextsFreedOnce
    <3>4. QED
      BY <3>2, <3>3
  <2>10. QED
    BY <2>8, <2>9
<1>2. QED
  BY <1>1, Invariance, PTL

\* A set with no two members.
LEMMA AtMostOne ==
  ASSUME NEW S, \A i, j \in S : i = j
  PROVE  /\ S = {} => Cardinality(S) = 0
         /\ S # {} => Cardinality(S) = 1
<1>1. Cardinality({}) = 0
  BY FS_EmptySet
<1>2. ASSUME NEW x \in S PROVE Cardinality(S) = 1
  <2>1. S = {x}
    OBVIOUS
  <2>2. Cardinality({x}) = 1
    BY FS_Singleton
  <2>3. QED
    BY <2>1, <2>2
<1>3. QED
  BY <1>1, <1>2

\* A node has one owner: none is deleted twice, and none is lost without an
\* error.
THEOREM NodesOwned == Spec => []NodesOwnedOnce
<1>1. IInv => NodesOwnedOnce
  <2> SUFFICES ASSUME IInv PROVE NodesOwnedOnce
    OBVIOUS
  <2>1. NodeInv
    BY DEF IInv
  <2>2. ASSUME NEW n
        PROVE  Owners(n) = Cardinality(OnStack(n)) + (IF root = n THEN 1 ELSE 0)
                             + Cardinality(Edges(n))
    BY Zenon DEF Owners, OnStack, Edges
  <2>3. ASSUME NEW n \in DOMAIN nodes
        PROVE  /\ Owners(n) <= 1
               /\ ~Unowned(n) => Owners(n) = 1
               /\ Unowned(n) => Owners(n) = 0
    <3>1. OwnedOnce(n)
      BY <2>1 DEF NodeInv
    <3>2. /\ OnStack(n) = {} => Cardinality(OnStack(n)) = 0
          /\ OnStack(n) # {} => Cardinality(OnStack(n)) = 1
      BY <3>1, AtMostOne DEF OwnedOnce
    <3>3. /\ Edges(n) = {} => Cardinality(Edges(n)) = 0
          /\ Edges(n) # {} => Cardinality(Edges(n)) = 1
      BY <3>1, AtMostOne DEF OwnedOnce
    <3>4. CASE OnStack(n) # {}
      BY <2>2, <3>1, <3>2, <3>3, <3>4 DEF OwnedOnce, Unowned
    <3>5. CASE OnStack(n) = {} /\ Edges(n) # {}
      BY <2>2, <3>1, <3>2, <3>3, <3>5 DEF OwnedOnce, Unowned
    <3>6. CASE OnStack(n) = {} /\ Edges(n) = {}
      BY <2>2, <3>2, <3>3, <3>6 DEF Unowned
    <3>7. QED
      BY <3>4, <3>5, <3>6
  <2>4. \A n \in DOMAIN nodes \ deleted : Owners(n) <= 1 /\ (error = "none" => Owners(n) = 1)
    BY <2>1, <2>3 DEF NodeInv
  <2>5. \A n \in deleted : Owners(n) = 0
    BY <2>1, <2>3 DEF NodeInv
  <2>6. QED
    BY <2>4, <2>5 DEF NodesOwnedOnce
<1>2. QED
  BY <1>1, Invariance, PTL

-----------------------------------------------------------------------------
(* Parentheses. *)

\* The tokens s among the first k of a text.
Count(text, s, k) == Cardinality({n \in 1 .. k : text[n].sym = s})

\* The parentheses that are open after k tokens.
Depth(text, k) == Count(text, "(", k) - Count(text, ")", k)

LEMMA NoneCounted == ASSUME NEW text, NEW s PROVE Count(text, s, 0) = 0
<1>1. {n \in 1 .. 0 : text[n].sym = s} = {}
  OBVIOUS
<1>2. QED
  BY <1>1, FS_EmptySet DEF Count

LEMMA CountNext ==
  ASSUME NEW text, NEW s, NEW k \in Nat
  PROVE  /\ Count(text, s, k) \in Nat
         /\ Count(text, s, k + 1) = Count(text, s, k) + (IF text[k + 1].sym = s THEN 1 ELSE 0)
<1> DEFINE S(m) == {n \in 1 .. m : text[n].sym = s}
<1>1. ASSUME NEW m \in Nat PROVE IsFiniteSet(S(m))
  <2>1. IsFiniteSet(1 .. m)
    BY FS_Interval
  <2>2. S(m) \subseteq 1 .. m
    OBVIOUS
  <2>3. QED
    BY <2>1, <2>2, FS_Subset
<1>2. IsFiniteSet(S(k))
  BY <1>1
<1>3. Cardinality(S(k)) \in Nat
  BY <1>2, FS_CardinalityType
<1>4. 1 .. k + 1 = (1 .. k) \cup {k + 1} /\ k + 1 \notin 1 .. k
  OBVIOUS
<1>5. CASE text[k + 1].sym = s
  <2>1. S(k + 1) = S(k) \cup {k + 1} /\ k + 1 \notin S(k)
    BY <1>4, <1>5
  <2>2. Cardinality(S(k) \cup {k + 1}) = Cardinality(S(k)) + 1
    BY <1>2, <2>1, FS_AddElement
  <2>3. QED
    BY <1>3, <1>5, <2>1, <2>2 DEF Count
<1>6. CASE text[k + 1].sym # s
  <2>1. S(k + 1) = S(k)
    BY <1>4, <1>6
  <2>2. QED
    BY <1>3, <1>6, <2>1 DEF Count
<1>7. QED
  BY <1>5, <1>6

\* What is counted from i to k.
LEMMA CountFrom ==
  ASSUME NEW text, NEW s, NEW i \in Nat \ {0}, NEW k \in Nat, i <= k
  PROVE  Cardinality({n \in i .. k - 1 : text[n].sym = s}) = Count(text, s, k - 1) - Count(text, s, i - 1)
<1> DEFINE A == {n \in 1 .. i - 1 : text[n].sym = s}
           B == {n \in i .. k - 1 : text[n].sym = s}
<1>1. 1 .. k - 1 = (1 .. i - 1) \cup (i .. k - 1) /\ (1 .. i - 1) \cap (i .. k - 1) = {}
  OBVIOUS
<1>2. {n \in 1 .. k - 1 : text[n].sym = s} = A \cup B /\ A \cap B = {}
  BY <1>1
<1>3. IsFiniteSet(A) /\ IsFiniteSet(B)
  <2>1. IsFiniteSet(1 .. i - 1) /\ IsFiniteSet(i .. k - 1)
    BY FS_Interval
  <2>2. A \subseteq 1 .. i - 1 /\ B \subseteq i .. k - 1
    OBVIOUS
  <2>3. QED
    BY <2>1, <2>2, FS_Subset
<1>4. Cardinality(A) \in Nat /\ Cardinality(B) \in Nat /\ Cardinality({}) = 0
  BY <1>3, FS_CardinalityType, FS_EmptySet
<1> HIDE DEF A, B
<1>5. Cardinality(A \cup B) = Cardinality(A) + Cardinality(B) - Cardinality(A \cap B)
  BY <1>3, FS_Union
<1>6. Cardinality(A \cup B) = Cardinality(A) + Cardinality(B)
  <2>1. A \cap B = {}
    BY <1>2 DEF A, B
  <2>2. Cardinality(A \cap B) = 0
    BY <1>4, <2>1
  <2>3. QED
    BY <1>4, <1>5, <2>2
<1>7. Count(text, s, k - 1) = Cardinality(A \cup B) /\ Count(text, s, i - 1) = Cardinality(A)
  BY <1>2 DEF Count, A
<1>8. QED
  BY <1>4, <1>6, <1>7 DEF B

LEMMA DepthZero == ASSUME NEW text PROVE Depth(text, 0) = 0
BY NoneCounted DEF Depth

\* One token more.
LEMMA DepthNext ==
  ASSUME NEW text, NEW k \in Nat
  PROVE  /\ Depth(text, k) \in Int /\ Depth(text, k + 1) \in Int
         /\ text[k + 1].sym = "(" => Depth(text, k + 1) = Depth(text, k) + 1
         /\ text[k + 1].sym = ")" => Depth(text, k + 1) = Depth(text, k) - 1
         /\ text[k + 1].sym \notin {"(", ")"} => Depth(text, k + 1) = Depth(text, k)
<1>1. PICK a, b : a = Count(text, "(", k) /\ b = Count(text, ")", k)
  OBVIOUS
<1>2. a \in Nat /\ Count(text, "(", k + 1) = a + (IF text[k + 1].sym = "(" THEN 1 ELSE 0)
  BY <1>1, CountNext
<1>3. b \in Nat /\ Count(text, ")", k + 1) = b + (IF text[k + 1].sym = ")" THEN 1 ELSE 0)
  BY <1>1, CountNext
<1>4. Depth(text, k) = a - b /\ Depth(text, k + 1) = Count(text, "(", k + 1) - Count(text, ")", k + 1)
  BY <1>1 DEF Depth
<1>5. QED
  BY <1>2, <1>3, <1>4

\* The same, seen from the token.
LEMMA DepthStep ==
  ASSUME NEW text, NEW k \in Nat \ {0}
  PROVE  /\ Depth(text, k) \in Int /\ Depth(text, k - 1) \in Int
         /\ text[k].sym = "(" => Depth(text, k) = Depth(text, k - 1) + 1
         /\ text[k].sym = ")" => Depth(text, k) = Depth(text, k - 1) - 1
         /\ text[k].sym \notin {"(", ")"} => Depth(text, k) = Depth(text, k - 1)
<1>1. PICK j \in Nat : k = j + 1 /\ k - 1 = j
  OBVIOUS
<1>2. QED
  BY <1>1, DepthNext

LEMMA OutsideIs ==
  ASSUME NEW text, NEW i \in Nat \ {0}, NEW k \in Nat, i <= k
  PROVE  Outside(text, i, k) <=> Depth(text, k - 1) = Depth(text, i - 1)
<1>1. Outside(text, i, k) <=> Count(text, "(", k - 1) - Count(text, "(", i - 1) =
                              Count(text, ")", k - 1) - Count(text, ")", i - 1)
  BY CountFrom DEF Outside
<1>2. k - 1 \in Nat /\ i - 1 \in Nat
  OBVIOUS
<1>3. PICK a \in Nat, b \in Nat, c \in Nat, d \in Nat :
        /\ a = Count(text, "(", k - 1) /\ b = Count(text, "(", i - 1)
        /\ c = Count(text, ")", k - 1) /\ d = Count(text, ")", i - 1)
  BY <1>2, CountNext
<1>4. QED
  BY <1>1, <1>3 DEF Depth

\* Texts that agree on their first k tokens.
LEMMA SameDepth ==
  ASSUME NEW text, NEW other, NEW k \in Nat, \A n \in 1 .. k : text[n] = other[n]
  PROVE  Depth(text, k) = Depth(other, k)
<1>1. ASSUME NEW s PROVE {n \in 1 .. k : text[n].sym = s} = {n \in 1 .. k : other[n].sym = s}
  OBVIOUS
<1>2. QED
  BY <1>1 DEF Depth, Count

-----------------------------------------------------------------------------
(* The trees of the parts of a text, as the recursion of Trees defines     *)
(* them.                                                                   *)

\* The last of some places.
LEMMA LastOf ==
  ASSUME NEW i \in Nat, NEW j \in Int, NEW s, s \subseteq i .. j, s # {}
  PROVE  Max(s) \in s /\ \A n \in s : n <= Max(s)
<1> DEFINE T == {j - n : n \in s}
<1>1. T \in SUBSET Nat /\ T # {}
  <2>1. ASSUME NEW n \in s PROVE j - n \in Nat
    <3>1. n \in i .. j
      OBVIOUS
    <3>2. QED
      BY <3>1
  <2>2. PICK n \in s : TRUE
    OBVIOUS
  <2>3. j - n \in T
    BY <2>2
  <2>4. QED
    BY <2>1, <2>3
<1>2. PICK x \in T : \A y \in T : x <= y
  BY <1>1, LeastNatural
<1>3. PICK k \in s : x = j - k
  BY <1>2
<1>4. ASSUME NEW n \in s PROVE k >= n
  <2>1. j - n \in T
    OBVIOUS
  <2>2. x <= j - n /\ n \in Int /\ k \in Int
    BY <1>2, <2>1
  <2> HIDE DEF T
  <2>3. QED
    BY <1>3, <2>2
<1>5. Max(s) \in s /\ \A n \in s : Max(s) >= n
  BY <1>4 DEF Max
<1>6. QED
  BY <1>5

TreesUpTo(text, f, m) ==
  f = [n \in 0 .. m |-> [i \in 1 .. (Len(text) + 1 - n) |-> TreesFrom(text, f, i, i + n - 1)]]

LEMMA TreesFromShorter ==
  ASSUME NEW text, NEW f, NEW g, NEW n \in Nat, NEW i \in Nat, \A m \in 0 .. n - 1 : f[m] = g[m]
  PROVE  TreesFrom(text, f, i, i + n - 1) = TreesFrom(text, g, i, i + n - 1)
<1>1. PICK j \in Int : j = i + n - 1
  OBVIOUS
<1>2. PICK s : s = Splits(text, i, j)
  OBVIOUS
<1>3. s \subseteq i .. j
  BY <1>2 DEF Splits
<1>4. i < j => f[j - i] = g[j - i] /\ f[j - i - 1] = g[j - i - 1]
  BY <1>1
<1>5. CASE s # {}
  <2>1. PICK k : k = Max(s)
    OBVIOUS
  <2>2. k \in i .. j
    BY <1>3, <1>5, <2>1, LastOf
  <2>3. k - i \in 0 .. n - 1 /\ j - k \in 0 .. n - 1
    BY <1>1, <2>2
  <2>4. f[k - i] = g[k - i] /\ f[j - k] = g[j - k]
    BY <2>3
  <2>5. TreesFrom(text, f, i, j) = TreesFrom(text, g, i, j)
    BY <1>2, <1>5, <2>1, <2>4 DEF TreesFrom
  <2>6. QED
    BY <1>1, <2>5
<1>6. CASE s = {}
  <2>1. TreesFrom(text, f, i, j) = TreesFrom(text, g, i, j)
    BY <1>2, <1>4, <1>6 DEF TreesFrom
  <2>2. QED
    BY <1>1, <2>1
<1>7. QED
  BY <1>5, <1>6

LEMMA TreesUpToExist ==
  ASSUME NEW text, Len(text) \in Nat, NEW m \in Nat
  PROVE  \E f : TreesUpTo(text, f, m)
<1> DEFINE S == {k \in 0 .. m : \E f : TreesUpTo(text, f, k)}
           Row(f, n) == [i \in 1 .. (Len(text) + 1 - n) |-> TreesFrom(text, f, i, i + n - 1)]
<1>1. ASSUME NEW k \in 0 .. m, \A j \in 0 .. k - 1 : j \in S
      PROVE  k \in S
  <2>1. PICK f : k # 0 => TreesUpTo(text, f, k - 1)
    <3>1. CASE k = 0
      BY <3>1
    <3>2. CASE k # 0
      <4>1. k - 1 \in 0 .. k - 1
        BY <3>2
      <4>2. QED
        BY <1>1, <4>1
    <3>3. QED
      BY <3>1, <3>2
  <2> DEFINE g == [n \in 0 .. k |-> IF n < k THEN f[n] ELSE Row(f, k)]
  <2>2. ASSUME NEW n \in 0 .. k PROVE g[n] = Row(g, n)
    <3>1. \A j \in 0 .. n - 1 : j \in 0 .. k /\ j < k /\ g[j] = f[j]
      OBVIOUS
    <3>2. Row(f, n) = Row(g, n)
      <4>1. ASSUME NEW i \in 1 .. (Len(text) + 1 - n)
            PROVE  TreesFrom(text, f, i, i + n - 1) = TreesFrom(text, g, i, i + n - 1)
        <5>1. n \in Nat /\ i \in Nat /\ \A j \in 0 .. n - 1 : f[j] = g[j]
          BY <3>1
        <5> HIDE DEF g
        <5>2. QED
          BY <5>1, TreesFromShorter
      <4> HIDE DEF g
      <4>2. QED
        BY <4>1
    <3>3. CASE n < k
      <4>1. k # 0 /\ n \in 0 .. k - 1
        BY <3>3
      <4>2. f = [j \in 0 .. k - 1 |-> Row(f, j)]
        BY <2>1, <4>1, Zenon DEF TreesUpTo
      <4>3. f[n] = Row(f, n)
        <5> HIDE DEF Row
        <5> QED
          BY <4>1, <4>2
      <4>4. g[n] = f[n]
        BY <3>3
      <4> HIDE DEF g, Row
      <4>5. QED
        BY <3>2, <4>3, <4>4
    <3>4. CASE ~(n < k)
      <4>1. n = k
        BY <3>4
      <4>2. g[n] = Row(f, k)
        BY <3>4
      <4> HIDE DEF g, Row
      <4>3. QED
        BY <3>2, <4>1, <4>2
    <3>5. QED
      BY <3>3, <3>4
  <2>3. g = [n \in 0 .. k |-> g[n]]
    OBVIOUS
  <2>4. g = [n \in 0 .. k |-> Row(g, n)]
    <3> HIDE DEF g, Row
    <3> QED
      BY <2>2, <2>3
  <2>5. TreesUpTo(text, g, k)
    <3> HIDE DEF g
    <3> QED
      BY <2>4, Zenon DEF TreesUpTo
  <2>6. QED
    BY <2>5
<1> HIDE DEF S
<1>2. \A k \in 0 .. m : k \in S
  BY <1>1, Induction
<1>3. QED
  BY <1>2 DEF S

\* The trees of the text from i to j.
SpanTrees(text, i, j) == (CHOOSE f : TreesUpTo(text, f, Len(text)))[j - i + 1][i]

LEMMA TreesAreSpan ==
  ASSUME NEW text, Len(text) \in Nat
  PROVE  Trees(text) = SpanTrees(text, 1, Len(text))
<1>1. PICK m : m = Len(text)
  OBVIOUS
<1>2. m - 1 + 1 = m
  BY <1>1
<1>3. Trees(text) = (CHOOSE f : TreesUpTo(text, f, m))[m][1]
  BY <1>1, Zenon DEF Trees, TreesUpTo
<1>4. SpanTrees(text, 1, m) = (CHOOSE f : TreesUpTo(text, f, m))[m - 1 + 1][1]
  BY <1>1, Zenon DEF SpanTrees
<1>5. QED
  BY <1>1, <1>2, <1>3, <1>4

\* A part of a text, by position.
IsSpan(text, i, j) == i \in Nat \ {0} /\ j \in Nat /\ i <= j + 1 /\ j <= Len(text)

\* The recursion.
LEMMA SpanTreesFrom ==
  ASSUME NEW text, Len(text) \in Nat, NEW i, NEW j, IsSpan(text, i, j)
  PROVE  \E T : /\ SpanTrees(text, i, j) = TreesFrom(text, T, i, j)
                /\ \A k \in i .. j : /\ T[k - i][i] = SpanTrees(text, i, k - 1)
                                     /\ T[j - k][k + 1] = SpanTrees(text, k + 1, j)
                /\ i < j => T[j - i - 1][i + 1] = SpanTrees(text, i + 1, j - 1)
<1> DEFINE T == CHOOSE f : TreesUpTo(text, f, Len(text))
<1>1. TreesUpTo(text, T, Len(text))
  BY TreesUpToExist
<1>2. \A a, b : SpanTrees(text, a, b) = T[b - a + 1][a]
  BY DEF SpanTrees
<1> HIDE DEF T
<1>3. i \in Nat /\ j \in Nat /\ j - i + 1 \in 0 .. Len(text)
      /\ i \in 1 .. (Len(text) + 1 - (j - i + 1)) /\ i + (j - i + 1) - 1 = j
  BY DEF IsSpan
<1>4. \A n \in 0 .. Len(text) :
        T[n] = [a \in 1 .. (Len(text) + 1 - n) |-> TreesFrom(text, T, a, a + n - 1)]
  BY <1>1, Zenon DEF TreesUpTo
<1>5. T[j - i + 1] = [a \in 1 .. (Len(text) + 1 - (j - i + 1)) |->
                        TreesFrom(text, T, a, a + (j - i + 1) - 1)]
  BY <1>3, <1>4
<1>6. T[j - i + 1][i] = TreesFrom(text, T, i, i + (j - i + 1) - 1)
  BY <1>3, <1>5
<1>7. ASSUME NEW k \in i .. j
      PROVE  /\ T[k - i][i] = SpanTrees(text, i, k - 1)
             /\ T[j - k][k + 1] = SpanTrees(text, k + 1, j)
  <2>1. k - 1 - i + 1 = k - i /\ j - (k + 1) + 1 = j - k
    BY <1>3
  <2>2. QED
    BY <1>2, <2>1
<1>8. i < j => T[j - i - 1][i + 1] = SpanTrees(text, i + 1, j - 1)
  <2>1. j - 1 - (i + 1) + 1 = j - i - 1
    BY <1>3
  <2>2. QED
    BY <1>2, <2>1
<1>9. SpanTrees(text, i, j) = TreesFrom(text, T, i, j)
  BY <1>2, <1>3, <1>6
<1>10. QED
  BY <1>7, <1>8, <1>9

\* What it says, case by case.
LEMMA SplitTrees ==
  ASSUME NEW text, Len(text) \in Nat, NEW i, NEW j, IsSpan(text, i, j),
         NEW k \in Splits(text, i, j), \A n \in Splits(text, i, j) : n <= k
  PROVE  SpanTrees(text, i, j) =
           IF text[k].sym \in Compares /\ Splits(text, i, j) # {k} THEN {}
           ELSE Joined(text[k].sym, SpanTrees(text, i, k - 1), SpanTrees(text, k + 1, j))
<1>1. Splits(text, i, j) \subseteq i .. j /\ i \in Nat /\ j \in Nat
  BY DEF Splits, IsSpan
<1>2. Max(Splits(text, i, j)) = k
  <2>1. Max(Splits(text, i, j)) \in Splits(text, i, j)
        /\ \A n \in Splits(text, i, j) : n <= Max(Splits(text, i, j))
    BY <1>1, LastOf
  <2>2. PICK m : m = Max(Splits(text, i, j))
    OBVIOUS
  <2>3. m <= k /\ k <= m /\ m \in Nat /\ k \in Nat
    BY <1>1, <2>1, <2>2
  <2>4. QED
    BY <2>2, <2>3
<1>3. PICK T : /\ SpanTrees(text, i, j) = TreesFrom(text, T, i, j)
               /\ \A n \in i .. j : /\ T[n - i][i] = SpanTrees(text, i, n - 1)
                                    /\ T[j - n][n + 1] = SpanTrees(text, n + 1, j)
  BY SpanTreesFrom
<1>4. T[k - i][i] = SpanTrees(text, i, k - 1) /\ T[j - k][k + 1] = SpanTrees(text, k + 1, j)
  BY <1>1, <1>3
<1>5. TreesFrom(text, T, i, j) =
        IF text[k].sym \in Compares /\ Splits(text, i, j) # {k} THEN {}
        ELSE Joined(text[k].sym, T[k - i][i], T[j - k][k + 1])
  BY <1>2 DEF TreesFrom
<1>6. QED
  BY <1>3, <1>4, <1>5

LEMMA WholeTrees ==
  ASSUME NEW text, Len(text) \in Nat, NEW i, NEW j, IsSpan(text, i, j), Splits(text, i, j) = {}
  PROVE  SpanTrees(text, i, j) =
           CASE i = j /\ text[i].sym \in Leaves ->
                  {Tree(LeafKind[text[i].sym],
                        IF text[i].sym \in Texts THEN i ELSE text[i].value, <<>>)}
             [] i < j /\ text[i].sym = "!" -> Negated(SpanTrees(text, i + 1, j))
             [] i < j /\ text[i].sym = "(" /\ text[j].sym = ")" -> SpanTrees(text, i + 1, j - 1)
             [] OTHER -> {}
<1>1. i \in Nat /\ j \in Nat
  BY DEF IsSpan
<1>2. PICK T : /\ SpanTrees(text, i, j) = TreesFrom(text, T, i, j)
               /\ \A k \in i .. j : T[j - k][k + 1] = SpanTrees(text, k + 1, j)
               /\ i < j => T[j - i - 1][i + 1] = SpanTrees(text, i + 1, j - 1)
  BY SpanTreesFrom
<1>3. i < j => T[j - i][i + 1] = SpanTrees(text, i + 1, j)
  <2>1. i < j => i \in i .. j
    BY <1>1
  <2>2. QED
    BY <1>2, <2>1
<1>4. TreesFrom(text, T, i, j) =
        CASE i = j /\ text[i].sym \in Leaves ->
               {Tree(LeafKind[text[i].sym],
                     IF text[i].sym \in Texts THEN i ELSE text[i].value, <<>>)}
          [] i < j /\ text[i].sym = "!" -> Negated(T[j - i][i + 1])
          [] i < j /\ text[i].sym = "(" /\ text[j].sym = ")" -> T[j - i - 1][i + 1]
          [] OTHER -> {}
  BY DEF TreesFrom, Leaves
<1>5. QED
  BY <1>2, <1>3, <1>4

LEMMA PrecedenceIs ==
  /\ Precedence["OR"] = 1 /\ Precedence["AND"] = 2
  /\ \A s \in Compares : Precedence[s] = 3
  /\ \A s \in Bitwises : Precedence[s] = 4
  /\ \A s \in Operators : Precedence[s] \in 1 .. 4
  /\ Operators = {"OR", "AND"} \cup Compares \cup Bitwises
  /\ Operators \cap (Leaves \cup {"(", ")", "!", "junk", "$end"}) = {}
  /\ {"OR", "AND"} \cap (Compares \cup Bitwises) = {} /\ Compares \cap Bitwises = {}
<1>1. \A s \in Operators :
        Precedence[s] = CASE s = "OR" -> 1 [] s = "AND" -> 2 [] s \in Compares -> 3 [] OTHER -> 4
  BY DEF Precedence, Operators
<1>2. /\ Operators = {"OR", "AND"} \cup Compares \cup Bitwises
      /\ Operators \cap (Leaves \cup {"(", ")", "!", "junk", "$end"}) = {}
      /\ {"OR", "AND"} \cap (Compares \cup Bitwises) = {} /\ Compares \cap Bitwises = {}
  BY SymbolSets DEF Compares, Bitwises
<1>3. QED
  BY <1>1, <1>2

\* The operators outside the parentheses opened from i on.
OuterOps(text, i, j) == {k \in i .. j : text[k].sym \in Operators /\ Depth(text, k) = Depth(text, i - 1)}

LEMMA OperatorDepth ==
  ASSUME NEW text, NEW k \in Nat \ {0}, text[k].sym \in Operators
  PROVE  Depth(text, k) = Depth(text, k - 1) /\ Depth(text, k) \in Int
<1>1. text[k].sym \notin {"(", ")"}
  BY PrecedenceIs
<1>2. QED
  BY <1>1, DepthStep

LEMMA SplitsAre ==
  ASSUME NEW text, NEW i, NEW j, IsSpan(text, i, j)
  PROVE  Splits(text, i, j) =
           {k \in OuterOps(text, i, j) : \A n \in OuterOps(text, i, j) :
              Precedence[text[k].sym] <= Precedence[text[n].sym]}
<1>1. i \in Nat \ {0} /\ j \in Nat
  BY DEF IsSpan
<1>2. ASSUME NEW k \in i .. j, text[k].sym \in Operators
      PROVE  Outside(text, i, k) <=> Depth(text, k) = Depth(text, i - 1)
  <2>1. k \in Nat \ {0} /\ i <= k
    BY <1>1
  <2>2. Outside(text, i, k) <=> Depth(text, k - 1) = Depth(text, i - 1)
    BY <1>1, <2>1, OutsideIs
  <2>3. QED
    BY <1>2, <2>1, <2>2, OperatorDepth
<1>3. {k \in i .. j : text[k].sym \in Operators /\ Outside(text, i, k)} = OuterOps(text, i, j)
  BY <1>2 DEF OuterOps
<1>4. QED
  BY <1>3 DEF Splits, Operators

\* An operator that binds least exists where there is one.
LEMMA SplitExists ==
  ASSUME NEW text, NEW i, NEW j, IsSpan(text, i, j)
  PROVE  Splits(text, i, j) = {} <=> OuterOps(text, i, j) = {}
<1> DEFINE ops == OuterOps(text, i, j)
           T   == {Precedence[text[k].sym] : k \in ops}
<1>1. \A k \in ops : text[k].sym \in Operators
  BY DEF OuterOps
<1>2. T \in SUBSET Nat
  BY <1>1, PrecedenceIs
<1>3. ASSUME ops # {} PROVE Splits(text, i, j) # {}
  <2>1. T # {}
    BY <1>3
  <2>2. PICK x \in T : \A y \in T : x <= y
    BY <1>2, <2>1, LeastNatural
  <2>3. PICK k \in ops : x = Precedence[text[k].sym]
    BY <2>2
  <2>4. ASSUME NEW n \in ops PROVE Precedence[text[k].sym] <= Precedence[text[n].sym]
    BY <2>2, <2>3
  <2>5. k \in Splits(text, i, j)
    BY <2>4, SplitsAre
  <2>6. QED
    BY <2>5
<1>4. Splits(text, i, j) \subseteq ops
  BY SplitsAre
<1>5. QED
  BY <1>3, <1>4

-----------------------------------------------------------------------------
(* What every expression is like: its parentheses are closed, its tokens   *)
(* follow one another as they may, and nothing that was compared is        *)
(* compared again.                                                         *)

Closed(text, i, j) ==
  /\ i \in Nat \ {0} /\ j \in Nat /\ i <= j /\ j <= Len(text)
  /\ Depth(text, j) = Depth(text, i - 1)
  /\ \A m \in i .. j : Depth(text, m) >= Depth(text, i - 1)

Starting == Leaves \cup {"(", "!"}
Ending   == Leaves \cup {")"}

\* Token t may follow s.
Adjacent(s, t) ==
  \/ s \in Ending /\ t \in Operators \cup {")"}
  \/ s \in Operators \cup {"(", "!"} /\ t \in Starting

\* The comparison at k goes on at n, in the same parentheses.
Chain(text, k, n) ==
  /\ k < n /\ text[k].sym \in Compares /\ text[n].sym \in Compares
  /\ Depth(text, n - 1) = Depth(text, k)
  /\ \A m \in k .. n - 1 : /\ Depth(text, m) >= Depth(text, k)
                           /\ text[m].sym \in {"AND", "OR"} => Depth(text, m) # Depth(text, k)

Proper(text, i, j) ==
  /\ Closed(text, i, j)
  /\ text[i].sym \in Starting /\ text[j].sym \in Ending
  /\ \A m \in i .. j - 1 : Adjacent(text[m].sym, text[m + 1].sym)
  /\ \A k, n \in i .. j : ~Chain(text, k, n)

LEMMA ClosedLeaf ==
  ASSUME NEW text, Len(text) \in Nat, NEW i \in 1 .. Len(text), text[i].sym \in Leaves
  PROVE  Closed(text, i, i)
<1>1. i \in Nat \ {0}
  OBVIOUS
<1>2. text[i].sym \notin {"(", ")"}
  BY SymbolSets
<1>3. Depth(text, i) = Depth(text, i - 1) /\ Depth(text, i) \in Int
  BY <1>1, <1>2, DepthStep
<1>4. QED
  BY <1>1, <1>3 DEF Closed

LEMMA ClosedNot ==
  ASSUME NEW text, NEW i \in Nat \ {0}, NEW j, text[i].sym = "!", Closed(text, i + 1, j)
  PROVE  Closed(text, i, j) /\ Depth(text, i) = Depth(text, i - 1) /\ i .. j = {i} \cup (i + 1 .. j)
<1>1. Depth(text, i) = Depth(text, i - 1) /\ Depth(text, i) \in Int
  BY DepthStep
<1>2. j \in Nat /\ i + 1 <= j /\ j <= Len(text) /\ i + 1 - 1 = i
  BY DEF Closed
<1>3. i .. j = {i} \cup (i + 1 .. j)
  BY <1>2
<1>4. QED
  BY <1>1, <1>2, <1>3 DEF Closed

LEMMA ClosedParens ==
  ASSUME NEW text, NEW i \in Nat \ {0}, NEW j \in Nat, j <= Len(text),
         text[i].sym = "(", text[j].sym = ")", Closed(text, i + 1, j - 1)
  PROVE  /\ Closed(text, i, j) /\ i + 1 <= j - 1
         /\ i .. j = {i, j} \cup (i + 1 .. j - 1)
         /\ \A m \in i + 1 .. j - 1 : Depth(text, m) > Depth(text, i - 1)
<1>1. i + 1 <= j - 1 /\ i + 1 - 1 = i /\ j \in Nat \ {0}
  BY DEF Closed
<1>2. Depth(text, i) = Depth(text, i - 1) + 1 /\ Depth(text, i) \in Int /\ Depth(text, i - 1) \in Int
  BY DepthStep
<1>3. Depth(text, j) = Depth(text, j - 1) - 1
  BY <1>1, DepthStep
<1>4. Depth(text, j - 1) = Depth(text, i) /\ \A m \in i + 1 .. j - 1 : Depth(text, m) >= Depth(text, i)
  BY <1>1 DEF Closed
<1>5. i .. j = {i, j} \cup (i + 1 .. j - 1)
  BY <1>1
<1>6. ASSUME NEW m \in i + 1 .. j - 1 PROVE Depth(text, m) \in Int
  <2>1. m \in Nat \ {0}
    OBVIOUS
  <2>2. QED
    BY <2>1, DepthStep
<1>7. Depth(text, j) = Depth(text, i - 1)
  BY <1>2, <1>3, <1>4
<1>8. \A m \in i + 1 .. j - 1 : Depth(text, m) > Depth(text, i - 1)
  BY <1>2, <1>4, <1>6
<1>9. \A m \in i .. j : Depth(text, m) >= Depth(text, i - 1)
  BY <1>2, <1>5, <1>6, <1>7, <1>8
<1>10. Closed(text, i, j)
  BY <1>1, <1>7, <1>9 DEF Closed
<1>11. QED
  BY <1>1, <1>5, <1>8, <1>10

LEMMA ProperLeaf ==
  ASSUME NEW text, Len(text) \in Nat, NEW i \in 1 .. Len(text), text[i].sym \in Leaves
  PROVE  Proper(text, i, i)
<1>1. \A k, n \in i .. i : ~Chain(text, k, n)
  BY DEF Chain
<1>2. QED
  BY <1>1, ClosedLeaf DEF Proper, Starting, Ending

LEMMA ProperNot ==
  ASSUME NEW text, NEW i \in Nat \ {0}, NEW j, text[i].sym = "!", Proper(text, i + 1, j)
  PROVE  Proper(text, i, j)
<1>1. text[i].sym \notin Compares
  BY PrecedenceIs
<1>2. Closed(text, i, j) /\ i .. j = {i} \cup (i + 1 .. j)
  BY ClosedNot DEF Proper
<1>3. i + 1 <= j /\ j \in Nat
  BY DEF Proper, Closed
<1>4. i .. j - 1 = {i} \cup (i + 1 .. j - 1)
  BY <1>3
<1>5. \A m \in i .. j - 1 : Adjacent(text[m].sym, text[m + 1].sym)
  BY <1>4 DEF Proper, Adjacent
<1>6. ASSUME NEW k \in i .. j, NEW n \in i .. j PROVE ~Chain(text, k, n)
  BY <1>1, <1>2 DEF Proper, Chain
<1>7. QED
  BY <1>2, <1>5, <1>6 DEF Proper, Starting

LEMMA ProperParens ==
  ASSUME NEW text, NEW i \in Nat \ {0}, NEW j \in Nat, j <= Len(text),
         text[i].sym = "(", text[j].sym = ")", Proper(text, i + 1, j - 1)
  PROVE  Proper(text, i, j)
<1>1. Closed(text, i, j) /\ i + 1 <= j - 1 /\ i .. j = {i, j} \cup (i + 1 .. j - 1)
  BY ClosedParens DEF Proper
<1>2. Compares \cap {"(", ")"} = {}
  BY DEF Compares
<1>3. \A m \in i .. j - 1 : Adjacent(text[m].sym, text[m + 1].sym)
  <2>1. Adjacent(text[i].sym, text[i + 1].sym)
    BY DEF Proper, Adjacent
  <2>2. j - 1 + 1 = j
    OBVIOUS
  <2>3. Adjacent(text[j - 1].sym, text[j - 1 + 1].sym)
    BY <2>2 DEF Proper, Adjacent
  <2>4. i .. j - 1 = {i, j - 1} \cup (i + 1 .. j - 1 - 1)
    BY <1>1
  <2>5. QED
    BY <2>1, <2>3, <2>4 DEF Proper
<1>4. ASSUME NEW k \in i .. j, NEW n \in i .. j PROVE ~Chain(text, k, n)
  BY <1>1, <1>2 DEF Proper, Chain
<1>5. QED
  BY <1>1, <1>3, <1>4 DEF Proper, Starting, Ending

\* An operator between two expressions: where its span begins and ends.
LEMMA ClosedJoin ==
  ASSUME NEW text, Len(text) \in Nat, NEW i, NEW j, NEW k \in Nat,
         Closed(text, i, k - 1), Closed(text, k + 1, j), text[k].sym \in Operators
  PROVE  /\ Closed(text, i, j)
         /\ i .. j = (i .. k - 1) \cup {k} \cup (k + 1 .. j)
         /\ Depth(text, k - 1) = Depth(text, i - 1) /\ Depth(text, k) = Depth(text, i - 1)
         /\ \A m \in i .. j : Depth(text, m) \in Int
         /\ i \in Nat \ {0} /\ j \in Nat /\ i < k /\ k < j /\ Depth(text, i - 1) \in Int
<1>1. i \in Nat \ {0} /\ j \in Nat /\ i <= k - 1 /\ k + 1 <= j /\ j <= Len(text) /\ k + 1 - 1 = k
  BY DEF Closed
<1>2. i .. j = (i .. k - 1) \cup {k} \cup (k + 1 .. j)
  BY <1>1
<1>3. Depth(text, k) = Depth(text, k - 1) /\ Depth(text, k) \in Int
  BY <1>1, OperatorDepth
<1>4. Depth(text, k - 1) = Depth(text, i - 1) /\ Depth(text, j) = Depth(text, k)
  BY <1>1 DEF Closed
<1>5. \A m \in i .. j : Depth(text, m) >= Depth(text, i - 1)
  <2>1. \A m \in i .. k - 1 : Depth(text, m) >= Depth(text, i - 1)
    BY DEF Closed
  <2>2. \A m \in k + 1 .. j : Depth(text, m) >= Depth(text, k)
    BY <1>1 DEF Closed
  <2>3. QED
    BY <1>2, <1>3, <1>4, <2>1, <2>2
<1>6. ASSUME NEW m \in i .. j PROVE Depth(text, m) \in Int
  <2>1. m \in Nat \ {0}
    BY <1>1
  <2>2. QED
    BY <2>1, DepthStep
<1>7. Closed(text, i, j)
  BY <1>1, <1>3, <1>4, <1>5 DEF Closed
<1>8. QED
  BY <1>1, <1>2, <1>3, <1>4, <1>6, <1>7

LEMMA ProperJoin ==
  ASSUME NEW text, Len(text) \in Nat, NEW i, NEW j, NEW k \in Nat,
         Proper(text, i, k - 1), Proper(text, k + 1, j), IsSpan(text, i, j),
         k \in Splits(text, i, j),
         text[k].sym \in Compares => Splits(text, i, j) = {k}
  PROVE  Proper(text, i, j)
<1>1. /\ text[k].sym \in Operators
      /\ \A n \in OuterOps(text, i, j) : Precedence[text[k].sym] <= Precedence[text[n].sym]
  BY SplitsAre DEF OuterOps
<1>2. /\ Closed(text, i, j)
      /\ i .. j = (i .. k - 1) \cup {k} \cup (k + 1 .. j)
      /\ Depth(text, k - 1) = Depth(text, i - 1) /\ Depth(text, k) = Depth(text, i - 1)
      /\ \A m \in i .. j : Depth(text, m) \in Int
      /\ i \in Nat \ {0} /\ j \in Nat /\ i < k /\ k < j /\ Depth(text, i - 1) \in Int
  BY <1>1, ClosedJoin DEF Proper
<1>3. \A m \in i .. j - 1 : Adjacent(text[m].sym, text[m + 1].sym)
  <2>1. i .. j - 1 = (i .. k - 1 - 1) \cup {k - 1, k} \cup (k + 1 .. j - 1)
    <3>1. i \in Nat /\ j \in Nat /\ i < k /\ k < j
      BY <1>2
    <3>2. QED
      BY <3>1
  <2>2. k - 1 + 1 = k
    OBVIOUS
  <2>3. Adjacent(text[k - 1].sym, text[k - 1 + 1].sym)
    BY <1>1, <2>2 DEF Proper, Adjacent
  <2>4. Adjacent(text[k].sym, text[k + 1].sym)
    BY <1>1 DEF Proper, Adjacent
  <2>5. QED
    BY <2>1, <2>3, <2>4 DEF Proper
\* No other comparison outside parentheses.
<1>4. ASSUME NEW n \in i .. j, n # k, text[n].sym \in Compares, Depth(text, n) = Depth(text, i - 1)
      PROVE  text[k].sym \in {"AND", "OR"}
  <2>1. n \in OuterOps(text, i, j)
    BY <1>4, PrecedenceIs DEF OuterOps
  <2>2. Precedence[text[k].sym] <= 3
    BY <1>1, <1>4, <2>1, PrecedenceIs
  <2>3. CASE text[k].sym \in Compares
    <3>1. Precedence[text[n].sym] = 3 /\ Precedence[text[k].sym] = 3
      BY <1>4, <2>3, PrecedenceIs
    <3>2. n \in Splits(text, i, j)
      BY <1>1, <2>1, <3>1, SplitsAre
    <3>3. QED
      BY <1>4, <2>3, <3>2
  <2>4. CASE text[k].sym \in Bitwises
    BY <2>2, <2>4, PrecedenceIs
  <2>5. QED
    BY <1>1, <2>3, <2>4, PrecedenceIs
<1>5. ASSUME NEW m \in i .. j, NEW n \in i .. j, Chain(text, m, n) PROVE FALSE
  <2>1. /\ m < n /\ text[m].sym \in Compares /\ text[n].sym \in Compares
        /\ Depth(text, n - 1) = Depth(text, m)
        /\ \A l \in m .. n - 1 : /\ Depth(text, l) >= Depth(text, m)
                                 /\ text[l].sym \in {"AND", "OR"} => Depth(text, l) # Depth(text, m)
        /\ m \in Nat \ {0} /\ n \in Nat \ {0}
    <3>1. i \in Nat \ {0} /\ j \in Nat
      BY <1>2
    <3>2. m \in Nat \ {0} /\ n \in Nat \ {0}
      BY <3>1
    <3>3. QED
      BY <1>5, <3>2, Zenon DEF Chain
  <2>2. Depth(text, n) = Depth(text, m) /\ Depth(text, m) \in Int
    BY <2>1, OperatorDepth, PrecedenceIs
  <2>3. CASE n < k
    <3>1. m \in i .. k - 1 /\ n \in i .. k - 1
      BY <1>2, <2>1, <2>3
    <3>2. QED
      BY <1>5, <3>1 DEF Proper
  <2>4. CASE k < m
    <3>1. m \in k + 1 .. j /\ n \in k + 1 .. j
      BY <1>2, <2>1, <2>4
    <3>2. QED
      BY <1>5, <3>1 DEF Proper
  <2>5. CASE m < k /\ k < n
    <3>1. k \in m .. n - 1
      BY <2>1, <2>5
    <3>2. Depth(text, k) >= Depth(text, m) /\ Depth(text, m) >= Depth(text, i - 1)
      BY <1>2, <2>1, <3>1 DEF Closed
    <3>3. Depth(text, m) = Depth(text, i - 1) /\ Depth(text, k) = Depth(text, m)
      BY <1>2, <2>2, <3>2
    <3>4. text[k].sym \in {"AND", "OR"}
      BY <1>4, <2>1, <2>5, <3>3
    <3>5. QED
      BY <2>1, <3>1, <3>3, <3>4
  <2>6. CASE m = k
    <3>1. text[k].sym \in {"AND", "OR"}
      BY <1>2, <1>4, <2>1, <2>2, <2>6
    <3>2. QED
      BY <2>1, <2>6, <3>1, PrecedenceIs
  <2>7. CASE n = k
    <3>1. text[k].sym \in {"AND", "OR"}
      BY <1>2, <1>4, <2>1, <2>2, <2>7
    <3>2. QED
      BY <2>1, <2>7, <3>1, PrecedenceIs
  <2>8. QED
    BY <2>1, <2>3, <2>4, <2>5, <2>6, <2>7
<1>6. QED
  BY <1>2, <1>3, <1>5 DEF Proper

LEMMA JoinedEmpty ==
  ASSUME NEW op, NEW left, NEW right
  PROVE  Joined(op, left, right) = {} <=> left = {} \/ right = {}
<1>1. \A t : t \in Joined(op, left, right) <=>
        \E l \in left, r \in right : t = Tree(OperatorKind[op], 0, <<l, r>>)
  BY DEF Joined
<1>2. QED
  BY <1>1

LEMMA NegatedEmpty ==
  ASSUME NEW trees
  PROVE  Negated(trees) = {} <=> trees = {}
<1>1. \A t : t \in Negated(trees) <=> \E l \in trees : t = Tree("Not", 0, <<l>>)
  BY Zenon DEF Negated
<1>2. QED
  BY <1>1

LEMMA TreesProper ==
  ASSUME NEW text, Len(text) \in Nat, NEW i, NEW j, IsSpan(text, i, j), SpanTrees(text, i, j) # {}
  PROVE  Proper(text, i, j)
<1> DEFINE Holds(a, b) == IsSpan(text, a, b) /\ SpanTrees(text, a, b) # {} => Proper(text, a, b)
           S == {n \in 0 .. Len(text) : \A a \in Nat : Holds(a, a + n - 1)}
<1>1. ASSUME NEW n \in 0 .. Len(text), \A m \in 0 .. n - 1 : m \in S
      PROVE  n \in S
  <2>1. SUFFICES ASSUME NEW a \in Nat, NEW b, b = a + n - 1,
                        IsSpan(text, a, b), SpanTrees(text, a, b) # {}
                 PROVE  Proper(text, a, b)
    OBVIOUS
  <2>2. a \in Nat \ {0} /\ b \in Nat /\ n \in Nat /\ b <= Len(text) /\ a <= b + 1
    BY <2>1 DEF IsSpan
  <2>3. ASSUME NEW c \in Nat \ {0}, NEW d \in Nat, a <= c, d <= b, c <= d + 1, d - c < b - a,
               SpanTrees(text, c, d) # {}
        PROVE  Proper(text, c, d)
    <3>1. PICK m \in 0 .. n - 1 : d = c + m - 1
      <4>1. d - c + 1 \in 0 .. n - 1 /\ d = c + (d - c + 1) - 1
        BY <2>1, <2>2, <2>3
      <4>2. QED
        BY <4>1
    <3>2. Holds(c, c + m - 1)
      BY <1>1, <3>1
    <3>3. IsSpan(text, c, d)
      BY <2>2, <2>3 DEF IsSpan
    <3>4. QED
      BY <2>3, <3>1, <3>2, <3>3
  <2> HIDE DEF S, Holds
  <2>4. CASE Splits(text, a, b) # {}
    <3>1. Splits(text, a, b) \subseteq a .. b
      BY DEF Splits
    <3>2. PICK k \in Splits(text, a, b) : \A l \in Splits(text, a, b) : l <= k
      <4>1. PICK s : s = Splits(text, a, b)
        OBVIOUS
      <4>2. Max(s) \in s /\ \A l \in s : l <= Max(s)
        BY <2>2, <2>4, <3>1, <4>1, LastOf
      <4>3. QED
        BY <4>1, <4>2
    <3>3. k \in Nat \ {0} /\ a <= k /\ k <= b
      BY <2>2, <3>1
    <3>4. SpanTrees(text, a, b) =
            IF text[k].sym \in Compares /\ Splits(text, a, b) # {k} THEN {}
            ELSE Joined(text[k].sym, SpanTrees(text, a, k - 1), SpanTrees(text, k + 1, b))
      BY <2>1, <3>2, SplitTrees
    <3>5. /\ text[k].sym \in Compares => Splits(text, a, b) = {k}
          /\ Joined(text[k].sym, SpanTrees(text, a, k - 1), SpanTrees(text, k + 1, b)) # {}
      BY <2>1, <3>4
    <3>6. SpanTrees(text, a, k - 1) # {} /\ SpanTrees(text, k + 1, b) # {}
      BY <3>5, JoinedEmpty
    <3>7. Proper(text, a, k - 1)
      <4>1. k - 1 \in Nat /\ k - 1 <= b /\ a <= k - 1 + 1 /\ k - 1 - a < b - a
        BY <2>2, <3>3
      <4>2. QED
        BY <2>2, <2>3, <3>6, <4>1
    <3>8. Proper(text, k + 1, b)
      <4>1. k + 1 \in Nat \ {0} /\ a <= k + 1 /\ k + 1 <= b + 1 /\ b - (k + 1) < b - a
        BY <2>2, <3>3
      <4>2. QED
        BY <2>2, <2>3, <3>6, <4>1
    <3>9. QED
      BY <2>1, <3>2, <3>3, <3>5, <3>7, <3>8, ProperJoin
  <2>5. CASE Splits(text, a, b) = {}
    <3>1. SpanTrees(text, a, b) =
           CASE a = b /\ text[a].sym \in Leaves ->
                  {Tree(LeafKind[text[a].sym],
                        IF text[a].sym \in Texts THEN a ELSE text[a].value, <<>>)}
             [] a < b /\ text[a].sym = "!" -> Negated(SpanTrees(text, a + 1, b))
             [] a < b /\ text[a].sym = "(" /\ text[b].sym = ")" -> SpanTrees(text, a + 1, b - 1)
             [] OTHER -> {}
      BY <2>1, <2>5, WholeTrees
    <3>2. CASE a = b /\ text[a].sym \in Leaves
      BY <2>2, <3>2, ProperLeaf
    <3>3. CASE a < b /\ text[a].sym = "!"
      <4>1. SpanTrees(text, a + 1, b) # {}
        <5>1. SpanTrees(text, a, b) = Negated(SpanTrees(text, a + 1, b))
          BY <2>2, <3>1, <3>3
        <5>2. QED
          BY <2>1, <5>1, NegatedEmpty
      <4>2. a + 1 \in Nat \ {0} /\ a <= a + 1 /\ a + 1 <= b + 1 /\ b - (a + 1) < b - a /\ b <= b
        BY <2>2, <3>3
      <4>3. Proper(text, a + 1, b)
        BY <2>2, <2>3, <4>1, <4>2
      <4>4. QED
        BY <2>2, <3>3, <4>3, ProperNot
    <3>4. CASE a < b /\ text[a].sym = "(" /\ text[b].sym = ")"
      <4>1. SpanTrees(text, a + 1, b - 1) # {}
        BY <2>1, <2>2, <3>1, <3>4
      <4>2. /\ a + 1 \in Nat \ {0} /\ a <= a + 1 /\ a + 1 <= b - 1 + 1 /\ b - 1 - (a + 1) < b - a
            /\ b - 1 <= b /\ b - 1 \in Nat
        BY <2>2, <3>4
      <4>3. Proper(text, a + 1, b - 1)
        BY <2>2, <2>3, <4>1, <4>2
      <4>4. QED
        BY <2>2, <3>4, <4>3, ProperParens
    <3>5. QED
      BY <2>1, <2>2, <3>1, <3>2, <3>3, <3>4
  <2>6. QED
    BY <2>4, <2>5
<1> HIDE DEF S
<1>2. \A n \in 0 .. Len(text) : n \in S
  BY <1>1, Induction
<1>3. j - i + 1 \in 0 .. Len(text) /\ i + (j - i + 1) - 1 = j /\ i \in Nat
  BY DEF IsSpan
<1>4. Holds(i, i + (j - i + 1) - 1)
  <2>1. j - i + 1 \in S
    BY <1>2, <1>3
  <2> HIDE DEF Holds
  <2>2. QED
    BY <1>3, <2>1 DEF S
<1>5. QED
  BY <1>3, <1>4

-----------------------------------------------------------------------------
(* How trees are put together: what stands outside parentheses binds at    *)
(* least as the symbol of the grammar says.                                *)

Good(text, i, j, p) ==
  /\ Closed(text, i, j)
  /\ \A k \in OuterOps(text, i, j) : Precedence[text[k].sym] >= p

LEMMA ClosedSpan ==
  ASSUME NEW text, NEW i, NEW j, Closed(text, i, j)
  PROVE  IsSpan(text, i, j)
BY DEF Closed, IsSpan

LEMMA GoodLeaf ==
  ASSUME NEW text, Len(text) \in Nat, NEW i \in 1 .. Len(text), text[i].sym \in Leaves
  PROVE  /\ Good(text, i, i, 5)
         /\ SpanTrees(text, i, i) =
              {Tree(LeafKind[text[i].sym], IF text[i].sym \in Texts THEN i ELSE text[i].value, <<>>)}
<1>1. Closed(text, i, i) /\ IsSpan(text, i, i)
  BY ClosedLeaf, ClosedSpan
<1>2. OuterOps(text, i, i) = {}
  BY PrecedenceIs DEF OuterOps
<1>3. Splits(text, i, i) = {}
  BY <1>1, <1>2, SplitExists
<1>4. SpanTrees(text, i, i) =
        {Tree(LeafKind[text[i].sym], IF text[i].sym \in Texts THEN i ELSE text[i].value, <<>>)}
  BY <1>1, <1>3, WholeTrees
<1>5. QED
  BY <1>1, <1>2, <1>4 DEF Good

LEMMA GoodNot ==
  ASSUME NEW text, Len(text) \in Nat, NEW i \in Nat \ {0}, NEW j, text[i].sym = "!",
         Good(text, i + 1, j, 5)
  PROVE  Good(text, i, j, 5) /\ SpanTrees(text, i, j) = Negated(SpanTrees(text, i + 1, j))
<1>1. /\ Closed(text, i, j) /\ IsSpan(text, i, j) /\ Depth(text, i) = Depth(text, i - 1)
      /\ i .. j = {i} \cup (i + 1 .. j)
  BY ClosedNot, ClosedSpan DEF Good
<1>2. i + 1 <= j /\ i + 1 - 1 = i /\ j \in Nat
  BY DEF Good, Closed
<1>3. OuterOps(text, i, j) = {}
  <2>1. SUFFICES ASSUME NEW k \in OuterOps(text, i, j) PROVE FALSE
    OBVIOUS
  <2>2. k \in i .. j /\ text[k].sym \in Operators /\ Depth(text, k) = Depth(text, i - 1)
    BY DEF OuterOps
  <2>3. k # i
    BY <2>2, PrecedenceIs
  <2>4. k \in OuterOps(text, i + 1, j)
    BY <1>1, <1>2, <2>2, <2>3 DEF OuterOps
  <2>5. QED
    BY <2>2, <2>4, PrecedenceIs DEF Good
<1>4. Splits(text, i, j) = {}
  BY <1>1, <1>3, SplitExists
<1>5. SpanTrees(text, i, j) = Negated(SpanTrees(text, i + 1, j))
  BY <1>1, <1>2, <1>4, WholeTrees
<1>6. QED
  BY <1>1, <1>3, <1>5 DEF Good

LEMMA GoodParens ==
  ASSUME NEW text, Len(text) \in Nat, NEW i \in Nat \ {0}, NEW j \in Nat, j <= Len(text),
         text[i].sym = "(", text[j].sym = ")", Closed(text, i + 1, j - 1)
  PROVE  Good(text, i, j, 5) /\ SpanTrees(text, i, j) = SpanTrees(text, i + 1, j - 1)
<1>1. /\ Closed(text, i, j) /\ i + 1 <= j - 1 /\ i .. j = {i, j} \cup (i + 1 .. j - 1)
      /\ \A m \in i + 1 .. j - 1 : Depth(text, m) > Depth(text, i - 1)
  BY ClosedParens
<1>2. IsSpan(text, i, j)
  BY <1>1, ClosedSpan
<1>3. OuterOps(text, i, j) = {}
  <2>1. SUFFICES ASSUME NEW k \in OuterOps(text, i, j) PROVE FALSE
    OBVIOUS
  <2>2. k \in i .. j /\ text[k].sym \in Operators /\ Depth(text, k) = Depth(text, i - 1)
    BY DEF OuterOps
  <2>3. k # i /\ k # j
    BY <2>2, PrecedenceIs
  <2>4. k \in i + 1 .. j - 1
    BY <1>1, <2>2, <2>3
  <2>5. k \in Nat \ {0} /\ Depth(text, k) \in Int
    BY <2>2, <2>4, OperatorDepth
  <2>6. QED
    BY <1>1, <2>2, <2>4, <2>5
<1>4. Splits(text, i, j) = {}
  BY <1>2, <1>3, SplitExists
<1>5. SpanTrees(text, i, j) = SpanTrees(text, i + 1, j - 1)
  BY <1>1, <1>2, <1>4, WholeTrees
<1>6. QED
  BY <1>1, <1>3, <1>5 DEF Good

\* An operator between what binds at least as much and what binds more.
Joinable(text, i, j, k, p, q) ==
  /\ k \in Nat /\ p \in Nat /\ q \in Nat
  /\ text[k].sym \in Operators /\ p = Precedence[text[k].sym]
  /\ Good(text, i, k - 1, q) /\ Good(text, k + 1, j, p + 1)
  /\ q >= p /\ (text[k].sym \in Compares => q > p)

LEMMA GoodJoin ==
  ASSUME NEW text, Len(text) \in Nat, NEW i, NEW j, NEW k, NEW p, NEW q,
         Joinable(text, i, j, k, p, q)
  PROVE  /\ Good(text, i, j, p)
         /\ SpanTrees(text, i, j) =
              Joined(text[k].sym, SpanTrees(text, i, k - 1), SpanTrees(text, k + 1, j))
<1>0. /\ k \in Nat /\ p \in Nat /\ q \in Nat
      /\ text[k].sym \in Operators /\ p = Precedence[text[k].sym]
      /\ Good(text, i, k - 1, q) /\ Good(text, k + 1, j, p + 1)
      /\ q >= p /\ (text[k].sym \in Compares => q > p)
  BY DEF Joinable
<1>1. /\ Closed(text, i, j) /\ IsSpan(text, i, j)
      /\ i .. j = (i .. k - 1) \cup {k} \cup (k + 1 .. j)
      /\ Depth(text, k) = Depth(text, i - 1)
      /\ i \in Nat \ {0} /\ j \in Nat /\ i < k /\ k < j
  <2>1. Closed(text, i, k - 1) /\ Closed(text, k + 1, j)
    BY <1>0 DEF Good
  <2>2. /\ Closed(text, i, j)
        /\ i .. j = (i .. k - 1) \cup {k} \cup (k + 1 .. j)
        /\ Depth(text, k - 1) = Depth(text, i - 1) /\ Depth(text, k) = Depth(text, i - 1)
        /\ \A m \in i .. j : Depth(text, m) \in Int
        /\ i \in Nat \ {0} /\ j \in Nat /\ i < k /\ k < j /\ Depth(text, i - 1) \in Int
    BY <1>0, <2>1, ClosedJoin, Zenon
  <2>3. QED
    BY <1>0, <2>2, ClosedSpan
<1>2. k \in OuterOps(text, i, j)
  BY <1>0, <1>1 DEF OuterOps
<1>3. ASSUME NEW m \in OuterOps(text, i, j)
      PROVE  /\ Precedence[text[m].sym] \in Nat
             /\ m < k => Precedence[text[m].sym] >= q
             /\ m > k => Precedence[text[m].sym] > p
             /\ m \in Nat
  <2>1. m \in i .. j /\ text[m].sym \in Operators /\ Depth(text, m) = Depth(text, i - 1)
    BY <1>0 DEF OuterOps
  <2>2. Precedence[text[m].sym] \in Nat
    BY <1>0, <2>1, PrecedenceIs
  <2>3. ASSUME m < k PROVE Precedence[text[m].sym] >= q
    <3>1. m \in i .. k - 1
      BY <1>0, <1>1, <2>1, <2>3
    <3>2. m \in OuterOps(text, i, k - 1)
      BY <1>0, <2>1, <3>1 DEF OuterOps
    <3>3. QED
      BY <1>0, <3>2 DEF Good
  <2>4. ASSUME m > k PROVE Precedence[text[m].sym] > p
    <3>1. m \in k + 1 .. j /\ k + 1 - 1 = k
      BY <1>0, <1>1, <2>1, <2>4
    <3>2. m \in OuterOps(text, k + 1, j)
      BY <1>0, <1>1, <2>1, <3>1 DEF OuterOps
    <3>3. QED
      BY <1>0, <2>2, <3>2 DEF Good
  <2>5. QED
    BY <1>0, <1>1, <2>1, <2>2, <2>3, <2>4
<1>4. ASSUME NEW m \in OuterOps(text, i, j) PROVE Precedence[text[m].sym] >= p
  BY <1>0, <1>3
<1>5. k \in Splits(text, i, j)
  BY <1>0, <1>1, <1>2, <1>4, SplitsAre
<1>6. ASSUME NEW m \in Splits(text, i, j)
      PROVE  m <= k /\ (text[k].sym \in Compares => m = k)
  <2>1. m \in OuterOps(text, i, j) /\ Precedence[text[m].sym] <= p
    BY <1>0, <1>1, <1>2, SplitsAre
  <2>2. QED
    BY <1>0, <1>3, <2>1
<1>7. SpanTrees(text, i, j) =
        Joined(text[k].sym, SpanTrees(text, i, k - 1), SpanTrees(text, k + 1, j))
  <2>1. \A n \in Splits(text, i, j) : n <= k
    BY <1>0, <1>6
  <2>2. SpanTrees(text, i, j) =
           IF text[k].sym \in Compares /\ Splits(text, i, j) # {k} THEN {}
           ELSE Joined(text[k].sym, SpanTrees(text, i, k - 1), SpanTrees(text, k + 1, j))
    BY <1>1, <1>5, <2>1, SplitTrees
  <2>3. text[k].sym \in Compares => Splits(text, i, j) = {k}
    BY <1>0, <1>5, <1>6
  <2>4. QED
    BY <1>0, <2>2, <2>3
<1>8. QED
  BY <1>0, <1>1, <1>4, <1>7 DEF Good

LEMMA GoodWeaker ==
  ASSUME NEW text, NEW i, NEW j, NEW p \in Nat, NEW q \in Nat, Good(text, i, j, p), q <= p
  PROVE  Good(text, i, j, q)
<1>1. ASSUME NEW k \in OuterOps(text, i, j) PROVE Precedence[text[k].sym] >= q
  <2>1. Precedence[text[k].sym] \in Nat /\ Precedence[text[k].sym] >= p
    BY PrecedenceIs DEF OuterOps, Good
  <2>2. QED
    BY <2>1
<1>2. QED
  BY <1>1 DEF Good

-----------------------------------------------------------------------------
(* The tree that a node stands for, and how nodes are put together.        *)

\* f gives the trees of the first m of some nodes.
Built(made, f, m) ==
  f = [k \in 1 .. m |-> Tree(made[k].kind, made[k].value,
                             [c \in DOMAIN made[k].children |-> f[made[k].children[c]]])]

\* The children of a node come before it.
Grown(made, m) ==
  \A k \in 1 .. m : \A c \in DOMAIN made[k].children : made[k].children[c] \in 1 .. (k - 1)

LEMMA BuiltExists ==
  ASSUME NEW made, NEW m \in Nat, Grown(made, m)
  PROVE  \E f : Built(made, f, m)
<1> DEFINE S == {k \in 0 .. m : \E f : Built(made, f, k)}
           Node1(f, k) == Tree(made[k].kind, made[k].value,
                               [c \in DOMAIN made[k].children |-> f[made[k].children[c]]])
<1>1. ASSUME NEW n \in 0 .. m, \A k \in 0 .. n - 1 : k \in S
      PROVE  n \in S
  <2>1. CASE n = 0
    <3>1. Built(made, [k \in 1 .. 0 |-> 0], 0)
      BY DEF Built
    <3>2. QED
      BY <2>1, <3>1
  <2>2. CASE n # 0
    <3>1. n - 1 \in 0 .. n - 1 /\ n - 1 \in Nat /\ n \in 1 .. n
      BY <2>2
    <3>2. PICK f : Built(made, f, n - 1)
      BY <1>1, <3>1
    <3>3. f = [k \in 1 .. n - 1 |-> Node1(f, k)]
      BY <3>2 DEF Built
    <3>4. PICK g : g = [k \in 1 .. n |-> IF k < n THEN f[k] ELSE Node1(f, n)]
      OBVIOUS
    <3>5. \A k \in 1 .. n - 1 : g[k] = f[k]
      BY <3>4
    <3>6. ASSUME NEW k \in 1 .. n
          PROVE  Node1(g, k) = Node1(f, k)
      <4>1. \A c \in DOMAIN made[k].children : made[k].children[c] \in 1 .. n - 1
        BY DEF Grown
      <4>2. \A c \in DOMAIN made[k].children : g[made[k].children[c]] = f[made[k].children[c]]
        BY <3>5, <4>1
      <4>3. QED
        BY <4>2
    <3>7. \A k \in 1 .. n : g[k] = Node1(g, k)
      <4>1. ASSUME NEW k \in 1 .. n, k < n PROVE g[k] = Node1(f, k)
        <5>1. k \in 1 .. n - 1
          BY <4>1
        <5>2. f[k] = Node1(f, k)
          BY <3>3, <5>1
        <5>3. QED
          BY <3>5, <5>1, <5>2
      <4>2. g[n] = Node1(f, n)
        BY <3>1, <3>4
      <4>3. SUFFICES ASSUME NEW k \in 1 .. n PROVE g[k] = Node1(f, k)
        BY <3>6, Zenon
      <4>4. k < n \/ k = n
        OBVIOUS
      <4>5. QED
        BY <4>1, <4>2, <4>4
    <3>8. g = [k \in 1 .. n |-> Node1(g, k)]
      BY <3>4, <3>7
    <3>9. QED
      BY <3>8 DEF Built
  <2>3. QED
    BY <2>1, <2>2
<1>2. \A k \in 0 .. m : k \in S
  <2> HIDE DEF S
  <2>1. QED
    BY <1>1, Induction
<1>3. QED
  BY <1>2

LEMMA BuiltOnce ==
  ASSUME NEW made, NEW other, NEW m \in Nat, NEW n \in 0 .. m, Grown(made, m),
         \A k \in 1 .. n : made[k] = other[k],
         NEW f, NEW g, Built(made, f, m), Built(other, g, n)
  PROVE  \A k \in 1 .. n : f[k] = g[k]
<1> DEFINE S == {k \in 0 .. n : k # 0 => f[k] = g[k]}
<1>1. ASSUME NEW k \in 0 .. n, \A l \in 0 .. k - 1 : l \in S
      PROVE  k \in S
  <2>1. SUFFICES ASSUME k # 0 PROVE f[k] = g[k]
    OBVIOUS
  <2>2. k \in 1 .. n /\ k \in 1 .. m
    BY <2>1
  <2>3. \A c \in DOMAIN made[k].children : f[made[k].children[c]] = g[made[k].children[c]]
    <3>1. \A c \in DOMAIN made[k].children : made[k].children[c] \in 1 .. k - 1
      BY <2>2 DEF Grown
    <3>2. QED
      BY <1>1, <3>1
  <2>4. f[k] = Tree(made[k].kind, made[k].value,
                    [c \in DOMAIN made[k].children |-> f[made[k].children[c]]])
    BY <2>2 DEF Built
  <2>5. g[k] = Tree(other[k].kind, other[k].value,
                    [c \in DOMAIN other[k].children |-> g[other[k].children[c]]])
    BY <2>2 DEF Built
  <2>6. made[k] = other[k]
    BY <2>2
  <2>7. QED
    BY <2>3, <2>4, <2>5, <2>6
<1>2. \A k \in 0 .. n : k \in S
  <2> HIDE DEF S
  <2>1. QED
    BY <1>1, Induction
<1>3. QED
  BY <1>2

\* TreeOf, of the nodes given.
TreeIn(made, n) == (CHOOSE f : Built(made, f, n))[n]

LEMMA TreeOfIn == ASSUME NEW n PROVE TreeOf(n) = TreeIn(nodes, n)
BY DEF TreeOf, TreeIn, Built

LEMMA TreeInBuilt ==
  ASSUME NEW made, NEW m \in Nat, Grown(made, m), NEW f, Built(made, f, m), NEW n \in 1 .. m
  PROVE  TreeIn(made, n) = f[n]
<1>1. Grown(made, n) /\ n \in Nat /\ n \in 0 .. m
  BY DEF Grown
<1>2. PICK g : g = CHOOSE h : Built(made, h, n)
  OBVIOUS
<1>3. Built(made, g, n)
  BY <1>1, <1>2, BuiltExists
<1>4. f[n] = g[n]
  BY <1>1, <1>3, BuiltOnce
<1>5. QED
  BY <1>2, <1>4 DEF TreeIn

LEMMA TreeInIs ==
  ASSUME NEW made, NEW m \in Nat, Grown(made, m), NEW n \in 1 .. m
  PROVE  TreeIn(made, n) =
           Tree(made[n].kind, made[n].value,
                [c \in DOMAIN made[n].children |-> TreeIn(made, made[n].children[c])])
<1>1. PICK f : Built(made, f, m)
  BY BuiltExists
<1>2. \A k \in 1 .. m : TreeIn(made, k) = f[k]
  BY <1>1, TreeInBuilt
<1>3. f[n] = Tree(made[n].kind, made[n].value,
                  [c \in DOMAIN made[n].children |-> f[made[n].children[c]]])
  BY <1>1 DEF Built
<1>4. \A c \in DOMAIN made[n].children : made[n].children[c] \in 1 .. m
  BY DEF Grown
<1>5. QED
  BY <1>2, <1>3, <1>4

LEMMA TreeInSame ==
  ASSUME NEW made, NEW other, NEW m \in Nat, Grown(made, m), \A k \in 1 .. m : made[k] = other[k],
         NEW n \in 1 .. m
  PROVE  TreeIn(made, n) = TreeIn(other, n)
<1>1. Grown(other, m)
  BY DEF Grown
<1>2. PICK f : Built(made, f, m)
  BY BuiltExists
<1>3. PICK g : Built(other, g, m)
  BY <1>1, BuiltExists
<1>4. f[n] = g[n]
  BY <1>2, <1>3, BuiltOnce
<1>5. QED
  BY <1>1, <1>2, <1>3, <1>4, TreeInBuilt

-----------------------------------------------------------------------------
(* The stack covers the tokens consumed: each terminal is one of them,     *)
(* each nonterminal an expression among them, whatever follows, and the    *)
(* tree of that expression is its node's.                                  *)

\* The precedence of what stands outside parentheses in a nonterminal.
LevelOf(sym) ==
  CASE sym \in {"primary", "unary_expr"} -> 5
    [] sym = "bitwise_expr" -> 4
    [] sym = "comparison_expr" -> 3
    [] sym = "and_expr" -> 2
    [] OTHER -> 1

\* The tokens that are on the stack, on their own or in a nonterminal.
Consumed == Len(read) - (IF lookahead = NoToken THEN 0 ELSE 1)

\* The node of a nonterminal.
NodeOf(x) == IF x.sym = "input" THEN root ELSE x.val

Agrees(text, b) == Len(text) \in Nat /\ b <= Len(text) /\ \A i \in 1 .. b : text[i] = read[i]

\* The tokens from a to b are an expression of one tree.
Derives(a, b, level, tree) ==
  \A text : Agrees(text, b) => Good(text, a, b, level) /\ SpanTrees(text, a, b) = {tree}

\* x stands for the tokens from a to b.
Covers(x, a, b) ==
  /\ a \in Nat \ {0} /\ b \in Nat /\ a <= b /\ b <= Consumed
  /\ x.sym \in Terminals =>
       /\ a = b /\ read[a].sym = x.sym
       /\ x.sym \in Leaves => x.val = IF x.sym \in Texts THEN a ELSE read[a].value
  /\ x.sym \in Nonterminals =>
       /\ NodeOf(x) \in DOMAIN nodes
       /\ Derives(a, b, LevelOf(x.sym), TreeIn(nodes, NodeOf(x)))

\* The places where the symbols of the stack begin among the tokens.
Placed(p) ==
  /\ p[1] = 1 /\ p[Len(stack) + 1] = Consumed + 1
  /\ \A i \in 1 .. Len(stack) : p[i] >= i /\ Covers(stack[i], p[i], p[i + 1] - 1)

\* The token read last, if it was not shifted.
LookaheadInv ==
  lookahead # NoToken => Len(read) # 0 /\ read[Len(read)] = lookahead

LEMMA OneMore == \A n \in Nat : n + 1 - 1 = n /\ n - 1 + 1 = n
OBVIOUS

LEMMA LevelIs ==
  /\ LevelOf("primary") = 5 /\ LevelOf("unary_expr") = 5 /\ LevelOf("bitwise_expr") = 4
  /\ LevelOf("comparison_expr") = 3 /\ LevelOf("and_expr") = 2
  /\ LevelOf("or_expr") = 1 /\ LevelOf("expr") = 1 /\ LevelOf("input") = 1
  /\ \A sym : LevelOf(sym) \in 1 .. 5
<1>1. /\ LevelOf("primary") = 5 /\ LevelOf("unary_expr") = 5 /\ LevelOf("bitwise_expr") = 4
      /\ LevelOf("comparison_expr") = 3 /\ LevelOf("and_expr") = 2
      /\ LevelOf("or_expr") = 1 /\ LevelOf("expr") = 1 /\ LevelOf("input") = 1
  BY DEF LevelOf
<1>2. ASSUME NEW sym PROVE LevelOf(sym) \in 1 .. 5
  BY DEF LevelOf
<1>3. QED
  BY <1>1, <1>2

LEMMA ConsumedIs ==
  ASSUME IInv, LookaheadInv
  PROVE  /\ Consumed \in Nat /\ Len(read) \in Nat /\ Consumed <= Len(read)
         /\ lookahead = NoToken => Consumed = Len(read)
         /\ lookahead # NoToken => Consumed + 1 = Len(read) /\ read[Consumed + 1] = lookahead
<1>1. Len(read) \in Nat
  BY DEF IInv, TokenInv
<1>2. QED
  BY <1>1 DEF LookaheadInv, Consumed

\* Nodes are only added.
NodesKept ==
  /\ Len(nodes) \in Nat /\ Len(nodes') \in Nat /\ Len(nodes') >= Len(nodes)
  /\ DOMAIN nodes = 1 .. Len(nodes) /\ DOMAIN nodes' = 1 .. Len(nodes')
  /\ Grown(nodes, Len(nodes))
  /\ \A k \in 1 .. Len(nodes) : nodes'[k] = nodes[k]

LEMMA CoversKept ==
  ASSUME NEW x, NEW a, NEW b, Covers(x, a, b), NodesKept,
         Consumed \in Nat, Consumed' \in Nat, Consumed' >= Consumed,
         \A i \in 1 .. Consumed : read'[i] = read[i],
         x.sym = "input" => root' = root
  PROVE  Covers(x, a, b)'
<1>1. /\ a \in Nat \ {0} /\ b \in Nat /\ a <= b /\ b <= Consumed /\ b <= Consumed'
  BY DEF Covers
<1>2. \A i \in 1 .. b : read'[i] = read[i]
  BY <1>1
<1>3. x.sym \in Terminals =>
       /\ a = b /\ read'[a].sym = x.sym
       /\ x.sym \in Leaves => x.val = IF x.sym \in Texts THEN a ELSE read'[a].value
  BY <1>1, <1>2 DEF Covers
<1>4. ASSUME x.sym \in Nonterminals
      PROVE  /\ NodeOf(x)' \in DOMAIN nodes'
             /\ Derives(a, b, LevelOf(x.sym), TreeIn(nodes, NodeOf(x)))'
  <2>1. NodeOf(x)' = NodeOf(x)
    BY DEF NodeOf
  <2>2. NodeOf(x) \in 1 .. Len(nodes)
    BY <1>4 DEF Covers, NodesKept
  <2>3. NodeOf(x) \in DOMAIN nodes'
    BY <2>2 DEF NodesKept
  <2>4. TreeIn(nodes', NodeOf(x)) = TreeIn(nodes, NodeOf(x))
    <3>1. TreeIn(nodes, NodeOf(x)) = TreeIn(nodes', NodeOf(x))
      BY <2>2, TreeInSame DEF NodesKept
    <3>2. QED
      BY <3>1
  <2>5. ASSUME NEW text, Agrees(text, b)' PROVE Agrees(text, b)
    BY <1>2, <2>5 DEF Agrees
  <2>6. QED
    BY <1>4, <2>1, <2>3, <2>4, <2>5 DEF Covers, Derives
<1>5. QED
  BY <1>1, <1>3, <1>4 DEF Covers

\* A symbol that takes the place of the topmost ones covers what they did, or
\* on top of them the token read last.
LEMMA Replace ==
  ASSUME IInv, NEW p, Placed(p), NodesKept, NEW k \in 0 .. Len(stack), NEW x \in Symbol,
         stack' = Pushed(stack, k, x),
         Consumed \in Nat, Consumed' \in Nat, Consumed' >= Consumed,
         \A i \in 1 .. Consumed : read'[i] = read[i],
         root' = root \/ k = Len(stack),
         NEW a, a = p[Len(stack) - k + 1], NEW b, b = Consumed', Covers(x, a, b)'
  PROVE  \E q : Placed(q)'
<1>1. stack \in Seq(Symbol) /\ Len(stack) \in Nat
  BY StackOf
<1>2. /\ stack' \in Seq(Symbol) /\ Len(stack') = Len(stack) - k + 1
      /\ \A i \in 1 .. Len(stack) - k : stack'[i] = stack[i]
      /\ stack'[Len(stack) - k + 1] = x
  BY <1>1, PushedIs
<1>3. PICK m \in 0 .. Len(stack) : m = Len(stack) - k
  <2>1. PICK l \in Nat : l = Len(stack)
    BY <1>1
  <2>2. l - k \in 0 .. l
    BY <2>1
  <2>3. QED
    BY <2>1, <2>2
<1>4. PICK q : q = [i \in 1 .. m + 2 |-> IF i = m + 2 THEN b + 1 ELSE p[i]]
  OBVIOUS
<1>5. q[m + 2] = b + 1 /\ \A i \in 1 .. m + 1 : q[i] = p[i]
  BY <1>3, <1>4
<1>6. /\ p[1] = 1 /\ p[Len(stack) + 1] = Consumed + 1
      /\ \A i \in 1 .. Len(stack) : p[i] >= i /\ Covers(stack[i], p[i], p[i + 1] - 1)
  BY DEF Placed
<1>7. p[m + 1] >= m + 1
  <2>1. CASE m < Len(stack)
    BY <1>1, <1>3, <1>6, <2>1
  <2>2. CASE m = Len(stack) /\ m = 0
    BY <1>1, <1>3, <1>6, <2>2
  <2>3. CASE m = Len(stack) /\ m # 0
    <3>1. p[m] >= m /\ Covers(stack[m], p[m], p[m + 1] - 1) /\ p[m + 1] = Consumed + 1
      BY <1>1, <1>3, <1>6, <2>3
    <3>2. p[m] \in Nat /\ p[m] <= p[m + 1] - 1
      BY <3>1 DEF Covers
    <3>3. QED
      BY <1>3, <3>1, <3>2
  <2>4. QED
    BY <1>1, <1>3, <2>1, <2>2, <2>3
<1>8. /\ p[m + 1] = a /\ m + 1 \in 1 .. m + 1 /\ m + 2 = m + 1 + 1
      /\ b \in Nat /\ b + 1 - 1 = b
  <2>1. p[m + 1] = a
    BY <1>3
  <2>2. m \in Nat
    BY <1>1, <1>3
  <2>3. b \in Nat
    OBVIOUS
  <2>4. m + 1 \in 1 .. m + 1 /\ m + 2 = m + 1 + 1
    BY <2>2
  <2>5. b + 1 - 1 = b
    BY <2>3, OneMore
  <2>6. QED
    BY <2>1, <2>3, <2>4, <2>5, Zenon
<1>9. ASSUME NEW i \in 1 .. m + 1, NEW y, y = stack'[i], NEW c, c = q[i], NEW d, d = q[i + 1] - 1
      PROVE  c >= i /\ Covers(y, c, d)'
  <2>1. CASE i = m + 1
    <3>1. y = x /\ c = a /\ d = b
      BY <1>2, <1>3, <1>5, <1>8, <1>9, <2>1
    <3>2. QED
      BY <1>7, <1>8, <2>1, <3>1
  <2>2. CASE i # m + 1
    <3>1. i \in 1 .. m /\ i \in 1 .. Len(stack) /\ i \in 1 .. m + 1 /\ i + 1 \in 1 .. m + 1 /\ m # 0
      BY <1>1, <1>3, <2>2
    <3>2. y = stack[i] /\ c = p[i] /\ d = p[i + 1] - 1
      BY <1>2, <1>3, <1>5, <1>9, <3>1
    <3>3. c >= i /\ Covers(y, c, d)
      BY <1>6, <3>1, <3>2
    <3>4. root' = root
      BY <1>1, <1>3, <3>1
    <3>5. Covers(y, c, d)'
      BY <3>3, <3>4, CoversKept
    <3>6. QED
      BY <3>3, <3>5
  <2>3. QED
    BY <2>1, <2>2
<1>10. Placed(q)'
  <2>1. Len(stack') = m + 1
    BY <1>2, <1>3
  <2>2. q[1] = 1 /\ q[Len(stack') + 1] = Consumed' + 1
    <3>1. 1 \in 1 .. m + 1 /\ m \in Nat
      BY <1>1, <1>3
    <3>2. q[1] = 1
      BY <1>5, <1>6, <3>1
    <3>3. q[Len(stack') + 1] = b + 1
      BY <1>5, <1>8, <2>1
    <3>4. QED
      BY <3>2, <3>3
  <2>3. \A i \in 1 .. Len(stack') : q[i] >= i /\ Covers(stack[i], q[i], q[i + 1] - 1)'
    BY <1>9, <2>1
  <2>4. QED
    BY <2>2, <2>3 DEF Placed
<1>11. QED
  BY <1>10

LEMMA NodesGrown == IInv => Grown(nodes, Len(nodes)) /\ Len(nodes) \in Nat /\ DOMAIN nodes = 1 .. Len(nodes)
<1> SUFFICES ASSUME IInv PROVE Grown(nodes, Len(nodes)) /\ Len(nodes) \in Nat /\ DOMAIN nodes = 1 .. Len(nodes)
  OBVIOUS
<1>1. nodes \in Seq(Node)
  BY DEF IInv, NodeInv
<1>2. Len(nodes) \in Nat /\ DOMAIN nodes = 1 .. Len(nodes)
  BY <1>1
<1>3. \A n \in DOMAIN nodes : \A c \in DOMAIN nodes[n].children : nodes[n].children[c] \in 1 .. (n - 1)
  BY DEF IInv, NodeInv
<1>4. QED
  BY <1>2, <1>3 DEF Grown

LEMMA SameNodes ==
  ASSUME IInv, nodes' = nodes
  PROVE  NodesKept
BY NodesGrown DEF NodesKept

LEMMA OneNode ==
  ASSUME IInv, NEW node, nodes' = Append(nodes, node),
         \A c \in DOMAIN node.children : node.children[c] \in DOMAIN nodes
  PROVE  /\ NodesKept
         /\ Len(nodes) + 1 \in DOMAIN nodes'
         /\ TreeIn(nodes', Len(nodes) + 1) =
              Tree(node.kind, node.value,
                   [c \in DOMAIN node.children |-> TreeIn(nodes, node.children[c])])
<1>1. Grown(nodes, Len(nodes)) /\ Len(nodes) \in Nat /\ DOMAIN nodes = 1 .. Len(nodes)
  BY NodesGrown
<1>2. nodes \in Seq(Node)
  BY DEF IInv, NodeInv
<1>3. PICK m \in Nat : m = Len(nodes)
  BY <1>1
<1>4. /\ Len(nodes') = m + 1 /\ DOMAIN nodes' = 1 .. m + 1
      /\ \A k \in 1 .. m : nodes'[k] = nodes[k]
      /\ nodes'[m + 1] = node
  BY <1>2, <1>3
<1>5. NodesKept
  BY <1>1, <1>3, <1>4 DEF NodesKept
<1>6. Grown(nodes', m + 1)
  <2>1. ASSUME NEW k \in 1 .. m + 1, NEW c \in DOMAIN nodes'[k].children
        PROVE  nodes'[k].children[c] \in 1 .. (k - 1)
    <3>1. CASE k = m + 1
      <4>1. nodes'[k] = node /\ m + 1 - 1 = m
        BY <1>3, <1>4, <3>1
      <4>2. node.children[c] \in 1 .. m
        BY <1>1, <1>3, <2>1, <4>1
      <4>3. QED
        BY <3>1, <4>1, <4>2
    <3>2. CASE k # m + 1
      <4>1. k \in 1 .. m
        BY <1>3, <3>2
      <4>2. QED
        BY <1>1, <1>3, <1>4, <2>1, <4>1 DEF Grown
    <3>3. QED
      BY <3>1, <3>2
  <2>2. QED
    BY <2>1 DEF Grown
<1>7. m + 1 \in 1 .. m + 1 /\ m + 1 \in Nat
  BY <1>3
<1>8. TreeIn(nodes', m + 1) =
        Tree(node.kind, node.value,
             [c \in DOMAIN node.children |-> TreeIn(nodes', node.children[c])])
  <2>1. PICK made : made = nodes'
    OBVIOUS
  <2>2. Grown(made, m + 1) /\ made[m + 1] = node
    BY <1>4, <1>6, <2>1
  <2>3. TreeIn(made, m + 1) =
          Tree(made[m + 1].kind, made[m + 1].value,
               [c \in DOMAIN made[m + 1].children |-> TreeIn(made, made[m + 1].children[c])])
    BY <1>7, <2>2, TreeInIs
  <2>4. TreeIn(made, m + 1) =
          Tree(node.kind, node.value,
               [c \in DOMAIN node.children |-> TreeIn(made, node.children[c])])
    BY <2>2, <2>3
  <2>5. QED
    BY <2>1, <2>4
<1>9. ASSUME NEW c \in DOMAIN node.children
      PROVE  TreeIn(nodes', node.children[c]) = TreeIn(nodes, node.children[c])
  <2>1. node.children[c] \in 1 .. m
    BY <1>1, <1>3
  <2>2. TreeIn(nodes, node.children[c]) = TreeIn(nodes', node.children[c])
    <3>1. PICK made : made = nodes'
      OBVIOUS
    <3>2. Grown(nodes, m) /\ \A k \in 1 .. m : nodes[k] = made[k]
      BY <1>1, <1>3, <1>4, <3>1
    <3>3. TreeIn(nodes, node.children[c]) = TreeIn(made, node.children[c])
      BY <2>1, <3>2, TreeInSame
    <3>4. QED
      BY <3>1, <3>3
  <2>3. QED
    BY <2>2
<1>10. QED
  BY <1>3, <1>4, <1>5, <1>7, <1>8, <1>9

\* The tokens that the symbol n below the top covers.
LEMMA TopCovers ==
  ASSUME IInv, NEW p, Placed(p), NEW n \in Nat, Len(stack) > n
  PROVE  /\ Covers(stack[Len(stack) - n], p[Len(stack) - n], p[Len(stack) - n + 1] - 1)
         /\ p[Len(stack) - n] \in Nat \ {0}
<1>1. stack \in Seq(Symbol) /\ Len(stack) \in Nat
  BY StackOf
<1>2. Len(stack) - n \in 1 .. Len(stack)
  BY <1>1
<1>3. Covers(stack[Len(stack) - n], p[Len(stack) - n], p[Len(stack) - n + 1] - 1)
  BY <1>2 DEF Placed
<1>4. QED
  BY <1>3 DEF Covers

\* A rule that makes a nonterminal of what stands on the top.
LEMMA CoversNew ==
  ASSUME NEW x, x.sym \in Nonterminals, UNCHANGED <<read, lookahead>>,
         NEW a \in Nat \ {0}, NEW b \in Nat, a <= b, b = Consumed,
         NEW n, n = IF x.sym = "input" THEN root' ELSE x.val, n \in DOMAIN nodes',
         Derives(a, b, LevelOf(x.sym), TreeIn(nodes', n))
  PROVE  Covers(x, a, b)'
<1>1. Consumed' = Consumed /\ \A text : Agrees(text, b)' <=> Agrees(text, b)
  BY DEF Consumed, Agrees
<1>2. NodeOf(x)' = n
  BY DEF NodeOf
<1>3. x.sym \notin Terminals
  BY SymbolKinds
<1>4. b <= Consumed'
  BY <1>1
<1>5. QED
  BY <1>1, <1>2, <1>3, <1>4 DEF Covers, Derives

-----------------------------------------------------------------------------
(* Every step of the parser keeps that. *)

LEMMA LexPlaces ==
  ASSUME IInv, LookaheadInv, NEW p, Placed(p), Lex
  PROVE  Placed(p)'
<1>1. /\ lookahead = NoToken /\ UNCHANGED <<stack, nodes, deleted, root, error, phase>>
      /\ \E token \in Tokens \cup {EndToken} : lookahead' = token /\ read' = Append(read, token)
  BY DEF Lex
<1>2. PICK token \in Tokens \cup {EndToken} : lookahead' = token /\ read' = Append(read, token)
  BY <1>1
<1>3. token # NoToken
  BY TokenTypes, SymbolKinds, SymbolSets
<1>4. read \in Seq(Tokens \cup {EndToken}) /\ Len(read) \in Nat
  BY DEF IInv, TokenInv
<1>5. Len(read') = Len(read) + 1 /\ \A i \in 1 .. Len(read) : read'[i] = read[i]
  BY <1>2, <1>4
<1>6. Consumed = Len(read) /\ Consumed' = Len(read)
  BY <1>1, <1>2, <1>3, <1>4, <1>5 DEF Consumed
<1>7. NodesKept
  BY <1>1, SameNodes
<1>8. ASSUME NEW i \in 1 .. Len(stack)
      PROVE  Covers(stack[i], p[i], p[i + 1] - 1)'
  <2>1. PICK y, a, b : y = stack[i] /\ a = p[i] /\ b = p[i + 1] - 1
    OBVIOUS
  <2>2. Covers(y, a, b)
    BY <2>1 DEF Placed
  <2>3. Covers(y, a, b)'
    BY <1>1, <1>4, <1>5, <1>6, <1>7, <2>2, CoversKept
  <2>4. y = stack'[i]
    BY <1>1, <2>1
  <2>5. QED
    BY <2>1, <2>3, <2>4
<1>9. QED
  BY <1>1, <1>6, <1>8 DEF Placed

LEMMA ShiftPlaces ==
  ASSUME IInv, LookaheadInv, NEW p, Placed(p), Shift
  PROVE  \E q : Placed(q)'
<1>1. /\ lookahead.sym \in Shiftable /\ lookahead' = NoToken
      /\ stack' = Append(stack, [sym |-> lookahead.sym, val |-> TokenValue])
      /\ UNCHANGED <<read, nodes, strings, deleted, root, error, phase>>
  BY DEF Shift
<1>2. stack \in Seq(Symbol) /\ Len(stack) \in Nat
  BY StackOf
<1>3. lookahead.sym \in Terminals
  BY <1>1, ShiftsFit
<1>4. lookahead # NoToken
  BY <1>3, TokenTypes, SymbolKinds, SymbolSets
<1>5. /\ Consumed \in Nat /\ Len(read) \in Nat /\ Consumed + 1 = Len(read)
      /\ read[Consumed + 1] = lookahead
  BY <1>4, ConsumedIs
<1>6. Consumed' = Consumed + 1
  BY <1>1, <1>5 DEF Consumed
<1>7. PICK x : x = [sym |-> lookahead.sym, val |-> TokenValue]
  OBVIOUS
<1>8. x \in Symbol
  <2>1. lookahead \in Tokens \cup {EndToken, NoToken}
    BY DEF IInv, TokenInv
  <2>2. TokenValue \in Values
    BY <1>4, <1>5, <2>1, TokenTypes DEF TokenValue
  <2>3. QED
    BY <1>3, <1>7, <2>2 DEF Symbol, Symbols
<1>9. stack' = Pushed(stack, 0, x)
  <2>1. SubSeq(stack, 1, Len(stack) - 0) = stack
    BY <1>2
  <2>2. QED
    BY <1>1, <1>7, <2>1 DEF Pushed
<1>10. PICK b \in Nat : b = Consumed'
  BY <1>5, <1>6
<1>11. p[Len(stack) - 0 + 1] = b
  <2>1. Len(stack) - 0 + 1 = Len(stack) + 1
    BY <1>2
  <2>2. p[Len(stack) + 1] = Consumed + 1
    BY DEF Placed
  <2>3. QED
    BY <1>6, <1>10, <2>1, <2>2
<1>12. Covers(x, b, b)'
  <2>1. b \in Nat \ {0} /\ b <= Consumed' /\ b = Consumed + 1 /\ b = Len(read)
    BY <1>5, <1>6, <1>10
  <2>2. read'[b] = lookahead /\ x.sym = lookahead.sym /\ x.val = TokenValue
    BY <1>1, <1>5, <1>7, <2>1
  <2>3. x.val = IF x.sym \in Texts THEN b ELSE read'[b].value
    BY <2>1, <2>2 DEF TokenValue
  <2>4. x.sym \in Terminals /\ x.sym \notin Nonterminals
    BY <1>3, <2>2, SymbolKinds
  <2>5. QED
    BY <2>1, <2>2, <2>3, <2>4 DEF Covers
<1>13. NodesKept /\ 0 \in 0 .. Len(stack)
  BY <1>1, <1>2, SameNodes
<1>14. \A i \in 1 .. Consumed : read'[i] = read[i]
  BY <1>1
<1>15. Consumed' >= Consumed /\ Consumed' \in Nat
  BY <1>5, <1>6
<1>16. QED
  BY <1>1, <1>5, <1>8, <1>9, <1>10, <1>11, <1>12, <1>13, <1>14, <1>15, Replace

\* A rule replaces the k symbols on the top by x.
LEMMA ReducePlaces ==
  ASSUME IInv, LookaheadInv, NEW p, Placed(p), NEW k \in 1 .. Len(stack), NEW x \in Symbol,
         x.sym \in Nonterminals, stack' = Pushed(stack, k, x), UNCHANGED <<read, lookahead>>,
         NodesKept, root' = root \/ k = Len(stack),
         NEW i, i = Len(stack) - k + 1, NEW a, a = p[i], NEW b, b = Consumed, a \in Nat \ {0}, a <= b,
         NEW n, n = IF x.sym = "input" THEN root' ELSE x.val, n \in DOMAIN nodes',
         Derives(a, b, LevelOf(x.sym), TreeIn(nodes', n))
  PROVE  \E q : Placed(q)'
<1>1. stack \in Seq(Symbol) /\ Len(stack) \in Nat /\ k \in 0 .. Len(stack)
  BY StackOf
<1>2. Consumed \in Nat /\ Consumed' = Consumed
  BY ConsumedIs DEF Consumed
<1>3. Covers(x, a, b)'
  BY <1>2, CoversNew
<1>4. Consumed' >= Consumed /\ Consumed' \in Nat /\ b = Consumed'
  BY <1>2
<1>5. (\A l \in 1 .. Consumed : read'[l] = read[l]) /\ a = p[Len(stack) - k + 1]
  OBVIOUS
<1>6. QED
  BY <1>1, <1>2, <1>3, <1>4, <1>5, Replace

LEMMA ReduceLeafPlaces ==
  ASSUME IInv, LookaheadInv, NEW p, Placed(p), ReduceLeaf
  PROVE  \E q : Placed(q)'
<1> DEFINE x == [sym |-> "primary", val |-> Len(nodes) + 1]
           node == Tree(LeafKind[Below(0)], Val(0), <<>>)
<1>1. /\ Reducing /\ Below(0) \in Leaves /\ stack' = Pushed(stack, 1, x)
      /\ nodes' = Append(nodes, node)
      /\ UNCHANGED <<read, lookahead, root>>
  BY DEF ReduceLeaf, Make, Replaced, Pushed, Leaves, Tree
<1>2. /\ stack \in Seq(Symbol) /\ Len(stack) \in Nat /\ Len(stack) > 0 /\ Len(stack) - 0 = Len(stack)
      /\ 1 \in 1 .. Len(stack)
  BY <1>1, ReducibleIs, StackOf
<1>3. stack[Len(stack)].sym = Below(0) /\ stack[Len(stack)].val = Val(0)
  BY <1>2, PlaceOf
<1>4. Len(nodes) \in Nat
  BY NodesGrown
<1>5. x \in Symbol /\ x.sym = "primary" /\ x.val = Len(nodes) + 1
  BY <1>4, TokenTypes DEF Symbol, Symbols, Nonterminals
<1>6. node.kind = LeafKind[Below(0)] /\ node.value = Val(0) /\ node.children = <<>>
  BY DEF Tree
<1> HIDE DEF x
<1>7. /\ NodesKept /\ Len(nodes) + 1 \in DOMAIN nodes'
      /\ TreeIn(nodes', Len(nodes) + 1) = node
  <2>1. DOMAIN node.children = {}
    BY <1>6
  <2>2. /\ NodesKept /\ Len(nodes) + 1 \in DOMAIN nodes'
        /\ TreeIn(nodes', Len(nodes) + 1) =
             Tree(node.kind, node.value,
                  [c \in DOMAIN node.children |-> TreeIn(nodes, node.children[c])])
    <3> HIDE DEF node
    <3>1. QED
      BY <1>1, <2>1, OneNode
  <2>3. [c \in DOMAIN node.children |-> TreeIn(nodes, node.children[c])] = <<>>
    <3> HIDE DEF node
    <3>1. QED
      BY <2>1
  <2>4. QED
    BY <1>6, <2>2, <2>3
<1>8. /\ Covers(stack[Len(stack)], p[Len(stack)], p[Len(stack) + 1] - 1)
      /\ p[Len(stack)] \in Nat \ {0}
  BY <1>2, TopCovers
<1>9. p[Len(stack) + 1] - 1 = Consumed /\ Consumed \in Nat
  BY ConsumedIs DEF Placed
<1>10. PICK a \in Nat \ {0} : a = p[Len(stack)]
  BY <1>8
<1>11. /\ a = Consumed /\ a <= Consumed /\ read[a].sym = Below(0)
       /\ Val(0) = IF Below(0) \in Texts THEN a ELSE read[a].value
  BY <1>1, <1>3, <1>8, <1>9, <1>10, SymbolKinds DEF Covers
<1>12. ASSUME NEW text, Agrees(text, a)
       PROVE  Good(text, a, a, LevelOf("primary")) /\ SpanTrees(text, a, a) = {node}
  <2>1. Len(text) \in Nat /\ a \in 1 .. Len(text) /\ text[a] = read[a]
    BY <1>12 DEF Agrees
  <2>2. text[a].sym \in Leaves /\ text[a].sym = Below(0)
    BY <1>1, <1>11, <2>1
  <2>3. /\ Good(text, a, a, 5)
        /\ SpanTrees(text, a, a) =
             {Tree(LeafKind[text[a].sym], IF text[a].sym \in Texts THEN a ELSE text[a].value, <<>>)}
    BY <2>1, <2>2, GoodLeaf
  <2>4. (IF text[a].sym \in Texts THEN a ELSE text[a].value) = Val(0)
    BY <1>11, <2>1
  <2>5. QED
    BY <2>2, <2>3, <2>4, LevelIs
<1>13. Len(stack) - 1 + 1 = Len(stack)
  BY <1>2
<1>14. x.sym \in Nonterminals /\ (IF x.sym = "input" THEN root' ELSE x.val) = Len(nodes) + 1
  BY <1>5 DEF Nonterminals
<1> HIDE DEF node
<1>15. Derives(a, a, LevelOf(x.sym), TreeIn(nodes', Len(nodes) + 1))
  BY <1>5, <1>7, <1>12 DEF Derives
<1>16. PICK n : n = Len(nodes) + 1
  OBVIOUS
<1>17. PICK i : i = Len(stack) - 1 + 1 /\ a = p[i]
  BY <1>10, <1>13
<1>18. QED
  BY <1>1, <1>2, <1>5, <1>7, <1>11, <1>14, <1>15, <1>16, <1>17, ReducePlaces

\* What the operands on the stack cover.
LEMMA NonterminalCovers ==
  ASSUME IInv, NEW p, Placed(p), NEW n \in Nat, Below(n) \in Nonterminals \ {"input"},
         NEW i, i = Len(stack) - n, NEW a, a = p[i], NEW b, b = p[i + 1] - 1
  PROVE  /\ Len(stack) > n /\ Val(n) \in DOMAIN nodes
         /\ a \in Nat \ {0} /\ b \in Nat /\ a <= b /\ b <= Consumed
         /\ Derives(a, b, LevelOf(Below(n)), TreeIn(nodes, Val(n)))
<1>1. stack \in Seq(Symbol) /\ Below(n) # "bottom"
  BY StackOf, SymbolKinds DEF Symbols
<1>2. Len(stack) > n /\ stack[Len(stack) - n].sym = Below(n) /\ stack[Len(stack) - n].val = Val(n)
  BY <1>1, BelowIs, PlaceOf
<1>3. Covers(stack[Len(stack) - n], a, b)
  BY <1>2, TopCovers
<1>4. PICK x : x = stack[Len(stack) - n]
  OBVIOUS
<1>5. Covers(x, a, b) /\ x.sym = Below(n) /\ x.val = Val(n)
  BY <1>2, <1>3, <1>4
<1>6. NodeOf(x) = Val(n)
  BY <1>5 DEF NodeOf
<1>7. QED
  BY <1>2, <1>5, <1>6 DEF Covers

LEMMA TerminalCovers ==
  ASSUME IInv, NEW p, Placed(p), NEW n \in Nat, Below(n) \in Terminals,
         NEW i, i = Len(stack) - n, NEW a, a = p[i], NEW b, b = p[i + 1] - 1
  PROVE  Len(stack) > n /\ a \in Nat \ {0} /\ a = b /\ a <= Consumed /\ read[a].sym = Below(n)
<1>1. stack \in Seq(Symbol) /\ Below(n) # "bottom"
  BY StackOf, SymbolKinds DEF Symbols
<1>2. Len(stack) > n /\ stack[Len(stack) - n].sym = Below(n)
  BY <1>1, BelowIs, PlaceOf
<1>3. Covers(stack[Len(stack) - n], a, b)
  BY <1>2, TopCovers
<1>4. QED
  BY <1>2, <1>3 DEF Covers

\* The places of the symbols on the top.
LEMMA TopPlaces ==
  ASSUME IInv, LookaheadInv, NEW p, Placed(p), Len(stack) > 0
  PROVE  \E l \in Nat \ {0} :
           /\ l = Len(stack) /\ l = Len(stack) - 0 /\ l - 1 = Len(stack) - 1 /\ l - 2 = Len(stack) - 2
           /\ l = Len(stack) - 1 + 1 /\ l - 1 = Len(stack) - 2 + 1 /\ l - 2 = Len(stack) - 3 + 1
           /\ p[l + 1] - 1 = Consumed /\ Consumed \in Nat /\ l - 1 + 1 = l /\ l - 2 + 1 = l - 1
<1>1. Len(stack) \in Nat
  BY StackOf
<1>2. p[Len(stack) + 1] = Consumed + 1 /\ Consumed \in Nat
  BY ConsumedIs DEF Placed
<1>3. QED
  BY <1>1, <1>2

LEMMA ReduceNotPlaces ==
  ASSUME IInv, LookaheadInv, NEW p, Placed(p), ReduceNot
  PROVE  \E q : Placed(q)'
<1> DEFINE x == [sym |-> "unary_expr", val |-> Len(nodes) + 1]
           node == Tree("Not", 0, <<Val(0)>>)
<1>1. /\ Reducing /\ Below(0) = "unary_expr" /\ Below(1) = "!" /\ stack' = Pushed(stack, 2, x)
      /\ nodes' = Append(nodes, node)
      /\ UNCHANGED <<read, lookahead, root>>
  BY DEF ReduceNot, Make, Replaced, Pushed, Tree
<1>2. Below(0) \in Nonterminals \ {"input"} /\ Below(1) \in Terminals /\ Len(stack) > 0
  BY <1>1, SymbolKinds, StackOf, ReducibleIs DEF Nonterminals
<1>3. PICK l \in Nat \ {0} :
        /\ l = Len(stack) - 0 /\ l - 1 = Len(stack) - 1 /\ l - 1 = Len(stack) - 2 + 1
        /\ p[l + 1] - 1 = Consumed /\ Consumed \in Nat /\ l - 1 + 1 = l
  BY <1>2, TopPlaces
<1>4. PICK i, a, k, b : i = l - 1 /\ a = p[i] /\ k = p[l] /\ b = Consumed
  OBVIOUS
<1>5. /\ Val(0) \in DOMAIN nodes /\ k \in Nat \ {0} /\ b \in Nat /\ k <= b
      /\ Derives(k, b, 5, TreeIn(nodes, Val(0)))
  <2>1. PICK n \in Nat : n = 0
    OBVIOUS
  <2>2. l = Len(stack) - n /\ Below(n) \in Nonterminals \ {"input"} /\ b = p[l + 1] - 1 /\ k = p[l]
    BY <1>2, <1>3, <1>4, <2>1
  <2>3. /\ Val(n) \in DOMAIN nodes /\ k \in Nat \ {0} /\ b \in Nat /\ k <= b
        /\ Derives(k, b, LevelOf(Below(n)), TreeIn(nodes, Val(n)))
    BY <2>2, NonterminalCovers
  <2>4. LevelOf(Below(n)) = 5
    BY <1>1, <2>1, LevelIs
  <2>5. QED
    BY <2>1, <2>3, <2>4
<1>6. a \in Nat \ {0} /\ a = k - 1 /\ read[a].sym = "!" /\ Len(stack) > 1
  <2>1. PICK n \in Nat, c \in {k - 1} : n = 1
    OBVIOUS
  <2>2. i = Len(stack) - n /\ Below(n) \in Terminals /\ a = p[i] /\ c = p[i + 1] - 1
    BY <1>2, <1>3, <1>4, <2>1
  <2>3. Len(stack) > n /\ a \in Nat \ {0} /\ a = c /\ read[a].sym = Below(n)
    BY <2>2, TerminalCovers
  <2>4. QED
    BY <1>1, <2>1, <2>3
<1>7. ASSUME NEW text, Agrees(text, b)
      PROVE  Good(text, a, b, 5) /\ SpanTrees(text, a, b) = {Tree("Not", 0, <<TreeIn(nodes, Val(0))>>)}
  <2>1. Len(text) \in Nat /\ text[a] = read[a] /\ a + 1 = k /\ a <= b
    BY <1>5, <1>6, <1>7 DEF Agrees
  <2>2. Good(text, a + 1, b, 5) /\ SpanTrees(text, a + 1, b) = {TreeIn(nodes, Val(0))}
    BY <1>5, <1>7, <2>1 DEF Derives
  <2>3. Good(text, a, b, 5) /\ SpanTrees(text, a, b) = Negated(SpanTrees(text, a + 1, b))
    <3>1. text[a].sym = "!" /\ a \in Nat \ {0}
      BY <1>6, <2>1
    <3>2. QED
      BY <2>1, <2>2, <3>1, GoodNot
  <2>4. Negated({TreeIn(nodes, Val(0))}) = {Tree("Not", 0, <<TreeIn(nodes, Val(0))>>)}
    BY DEF Negated
  <2>5. QED
    BY <2>2, <2>3, <2>4
<1>8. /\ NodesKept /\ Len(nodes) + 1 \in DOMAIN nodes'
      /\ TreeIn(nodes', Len(nodes) + 1) = Tree("Not", 0, <<TreeIn(nodes, Val(0))>>)
  <2>1. node.kind = "Not" /\ node.value = 0 /\ node.children = <<Val(0)>>
    BY DEF Tree
  <2> HIDE DEF node
  <2>2. DOMAIN node.children = {1} /\ node.children[1] = Val(0)
    BY <2>1
  <2>3. /\ NodesKept /\ Len(nodes) + 1 \in DOMAIN nodes'
        /\ TreeIn(nodes', Len(nodes) + 1) =
             Tree(node.kind, node.value,
                  [c \in DOMAIN node.children |-> TreeIn(nodes, node.children[c])])
    BY <1>1, <1>5, <2>2, OneNode
  <2>4. [c \in DOMAIN node.children |-> TreeIn(nodes, node.children[c])] = <<TreeIn(nodes, Val(0))>>
    BY <2>1, <2>2
  <2>5. QED
    BY <2>1, <2>3, <2>4
<1>9. x \in Symbol /\ x.sym = "unary_expr" /\ x.val = Len(nodes) + 1
  BY NodesGrown, TokenTypes DEF Symbol, Symbols, Nonterminals
<1> HIDE DEF x, node
<1>10. PICK n : n = Len(nodes) + 1
  OBVIOUS
<1>11. /\ x.sym \in Nonterminals /\ n = (IF x.sym = "input" THEN root' ELSE x.val)
       /\ LevelOf(x.sym) = 5 /\ n \in DOMAIN nodes' /\ NodesKept
  BY <1>8, <1>9, <1>10, LevelIs DEF Nonterminals
<1>12. PICK m \in 1 .. Len(stack) : m = 2
  <2>1. 2 \in 1 .. Len(stack)
    BY <1>6, StackOf
  <2>2. QED
    BY <2>1
<1>13. i = Len(stack) - m + 1 /\ a = p[i] /\ a <= b /\ b = Consumed /\ stack' = Pushed(stack, m, x)
  BY <1>1, <1>3, <1>4, <1>5, <1>6, <1>12
<1>14. Derives(a, b, LevelOf(x.sym), TreeIn(nodes', n))
  BY <1>7, <1>8, <1>10, <1>11 DEF Derives
<1>15. QED
  BY <1>1, <1>6, <1>9, <1>11, <1>13, <1>14, ReducePlaces

LEMMA ReduceParensPlaces ==
  ASSUME IInv, LookaheadInv, NEW p, Placed(p), ReduceParens
  PROVE  \E q : Placed(q)'
<1> DEFINE x == [sym |-> "primary", val |-> Val(1)]
<1>1. /\ Reducing /\ Below(0) = ")" /\ stack' = Pushed(stack, 3, x)
      /\ UNCHANGED <<read, lookahead, nodes, root>>
  BY DEF ReduceParens, Pass, Replaced, Pushed
<1>2. /\ stack \in Seq(Symbol) /\ Len(stack) \in Nat /\ Shape(stack)
      /\ Len(stack) > 0
  BY <1>1, StackOf, ReducibleIs
<1>3. MayStandOn(Below(1), ")") /\ MayFollow(Below(2), ")")
  BY <1>1, <1>2, TopShape
<1>4. Below(1) = "expr" /\ Below(2) = "("
  BY <1>3, SymbolSets DEF MayStandOn, MayFollow, Compares, Bitwises
<1>5. Below(1) \in Nonterminals \ {"input"} /\ Below(0) \in Terminals /\ Below(2) \in Terminals
  BY <1>1, <1>4, SymbolKinds DEF Nonterminals
<1>6. PICK l \in Nat \ {0} :
        /\ l = Len(stack) - 0 /\ l - 1 = Len(stack) - 1 /\ l - 2 = Len(stack) - 2
        /\ l - 2 = Len(stack) - 3 + 1
        /\ p[l + 1] - 1 = Consumed /\ Consumed \in Nat /\ l - 1 + 1 = l /\ l - 2 + 1 = l - 1
  BY <1>2, TopPlaces
<1>7. PICK i, j, a, k, b : i = l - 2 /\ j = l - 1 /\ a = p[i] /\ k = p[j] /\ b = p[l]
  OBVIOUS
<1>8. b \in Nat \ {0} /\ b = Consumed /\ read[b].sym = ")"
  <2>1. PICK n \in Nat, c \in {Consumed} : n = 0
    OBVIOUS
  <2>2. l = Len(stack) - n /\ Below(n) \in Terminals /\ b = p[l] /\ c = p[l + 1] - 1
    BY <1>5, <1>6, <1>7, <2>1
  <2>3. b \in Nat \ {0} /\ b = c /\ read[b].sym = Below(n)
    BY <2>2, TerminalCovers
  <2>4. QED
    BY <1>1, <2>1, <2>3
<1>9. a \in Nat \ {0} /\ a = k - 1 /\ read[a].sym = "(" /\ Len(stack) > 2
  <2>1. PICK n \in Nat, c \in {k - 1} : n = 2
    OBVIOUS
  <2>2. i = Len(stack) - n /\ Below(n) \in Terminals /\ a = p[i] /\ c = p[i + 1] - 1
    BY <1>5, <1>6, <1>7, <2>1
  <2>3. Len(stack) > n /\ a \in Nat \ {0} /\ a = c /\ read[a].sym = Below(n)
    BY <2>2, TerminalCovers
  <2>4. QED
    BY <1>4, <2>1, <2>3
<1>10. /\ Val(1) \in DOMAIN nodes /\ k \in Nat \ {0} /\ b - 1 \in Nat /\ k <= b - 1
       /\ Derives(k, b - 1, LevelOf("expr"), TreeIn(nodes, Val(1)))
  <2>1. PICK n \in Nat, c \in {b - 1} : n = 1
    OBVIOUS
  <2>2. j = Len(stack) - n /\ Below(n) \in Nonterminals \ {"input"} /\ k = p[j] /\ c = p[j + 1] - 1
    BY <1>5, <1>6, <1>7, <2>1
  <2>3. /\ Val(n) \in DOMAIN nodes /\ k \in Nat \ {0} /\ c \in Nat /\ k <= c
        /\ Derives(k, c, LevelOf(Below(n)), TreeIn(nodes, Val(n)))
    BY <2>2, NonterminalCovers
  <2>4. QED
    BY <1>4, <2>1, <2>3
<1>11. ASSUME NEW text, Agrees(text, b)
       PROVE  Good(text, a, b, 5) /\ SpanTrees(text, a, b) = {TreeIn(nodes, Val(1))}
  <2>1. /\ Len(text) \in Nat /\ text[a] = read[a] /\ text[b] = read[b] /\ b <= Len(text)
        /\ Agrees(text, b - 1) /\ a + 1 = k
    BY <1>8, <1>9, <1>10, <1>11 DEF Agrees
  <2>2. Closed(text, a + 1, b - 1) /\ SpanTrees(text, a + 1, b - 1) = {TreeIn(nodes, Val(1))}
    BY <1>10, <2>1 DEF Good, Derives
  <2>3. text[a].sym = "(" /\ text[b].sym = ")"
    BY <1>8, <1>9, <2>1
  <2>4. QED
    BY <1>8, <1>9, <2>1, <2>2, <2>3, GoodParens
<1>12. x \in Symbol /\ x.sym = "primary" /\ x.val = Val(1)
  BY <1>2, <1>9, PlaceOf DEF Symbol, Symbols, Nonterminals
<1> HIDE DEF x
<1>13. PICK n : n = Val(1)
  OBVIOUS
<1>14. /\ x.sym \in Nonterminals /\ n = (IF x.sym = "input" THEN root' ELSE x.val)
       /\ LevelOf(x.sym) = 5 /\ n \in DOMAIN nodes' /\ NodesKept
  BY <1>1, <1>10, <1>12, <1>13, LevelIs, SameNodes DEF Nonterminals
<1>15. PICK m \in 1 .. Len(stack) : m = 3
  <2>1. 3 \in 1 .. Len(stack)
    BY <1>2, <1>9
  <2>2. QED
    BY <2>1
<1>16. i = Len(stack) - m + 1 /\ a = p[i] /\ a <= b /\ b = Consumed /\ stack' = Pushed(stack, m, x)
  BY <1>1, <1>6, <1>7, <1>8, <1>9, <1>10, <1>15
<1>17. Derives(a, b, LevelOf(x.sym), TreeIn(nodes', n))
  BY <1>1, <1>11, <1>13, <1>14 DEF Derives
<1>18. QED
  BY <1>1, <1>9, <1>12, <1>14, <1>16, <1>17, ReducePlaces

LEMMA ReduceBinaryPlaces ==
  ASSUME IInv, LookaheadInv, NEW p, Placed(p), ReduceBinary
  PROVE  \E q : Placed(q)'
<1> DEFINE x == [sym |-> Widened[Below(0)], val |-> Len(nodes) + 1]
           node == Tree(OperatorKind[Below(1)], 0, <<Val(2), Val(0)>>)
<1>1. /\ Reducing /\ Below(1) \in JoinedBy[Below(0)] /\ stack' = Pushed(stack, 3, x)
      /\ nodes' = Append(nodes, node)
      /\ UNCHANGED <<read, lookahead, root>>
  BY DEF ReduceBinary, Make, Replaced, Pushed, Operands, Tree
<1>2. stack \in Seq(Symbol) /\ Len(stack) \in Nat /\ Shape(stack) /\ Len(stack) > 0
  BY <1>1, StackOf, ReducibleIs
<1>3. Below(0) \in {"unary_expr", "bitwise_expr", "comparison_expr", "and_expr"}
  <2>1. Below(0) \in Symbols
    BY <1>2, BelowIs
  <2>2. QED
    BY <1>1, <2>1, JoinedByIs
<1>4. Below(1) \in Operators /\ Below(1) \in Terminals /\ Below(1) # "bottom"
  <2>1. Below(1) \in Operators
    BY <1>1, <1>3, JoinedByIs, SymbolSets DEF Bitwises, Compares
  <2>2. QED
    BY <2>1, SymbolKinds DEF Symbols
<1>5. Len(stack) > 1
  BY <1>2, <1>4, BelowIs
<1>6. MayStandOn(Below(2), Below(1))
  <2>1. MayStandOn(Below(1 + 1), Below(1))
    BY <1>2, <1>5, TopShape
  <2>2. QED
    BY <2>1
<1>7. Below(2) \in Nonterminals \ {"input"} /\ Below(0) \in Nonterminals \ {"input"}
  BY <1>3, <1>4, <1>6, SymbolSets DEF MayStandOn, Compares, Bitwises, Nonterminals
<1>8. PICK g \in Nat : g = Precedence[Below(1)]
  BY <1>4, PrecedenceIs
<1>9. /\ LevelOf(Below(0)) = g + 1 /\ LevelOf(Below(2)) >= g
      /\ Below(1) \in Compares => LevelOf(Below(2)) > g
      /\ LevelOf(Widened[Below(0)]) = g
      /\ Widened[Below(0)] \in Nonterminals \ {"input"}
  <2>1. CASE Below(0) = "unary_expr"
    <3>1. Below(1) \in Bitwises /\ g = 4
      BY <1>1, <1>8, <2>1, JoinedByIs, PrecedenceIs
    <3>2. Below(2) = "bitwise_expr"
      BY <1>6, <3>1, SymbolSets DEF MayStandOn, Compares, Bitwises
    <3>3. Below(1) \notin Compares
      BY <3>1, PrecedenceIs
    <3>4. QED
      BY <2>1, <3>1, <3>2, <3>3, LevelIs, WidenedIs DEF Nonterminals
  <2>2. CASE Below(0) = "bitwise_expr"
    <3>1. Below(1) \in Compares /\ g = 3
      BY <1>1, <1>8, <2>2, JoinedByIs, PrecedenceIs
    <3>2. Below(2) = "bitwise_expr"
      BY <1>6, <3>1, SymbolSets DEF MayStandOn, Compares, Bitwises
    <3>3. QED
      BY <2>2, <3>1, <3>2, LevelIs, WidenedIs DEF Nonterminals
  <2>3. CASE Below(0) = "comparison_expr"
    <3>1. Below(1) = "AND" /\ g = 2
      BY <1>1, <1>8, <2>3, JoinedByIs, PrecedenceIs
    <3>2. Below(2) = "and_expr"
      BY <1>6, <3>1, SymbolSets DEF MayStandOn, Compares, Bitwises
    <3>3. Below(1) \notin Compares
      BY <3>1, PrecedenceIs
    <3>4. QED
      BY <2>3, <3>1, <3>2, <3>3, LevelIs, WidenedIs DEF Nonterminals
  <2>4. CASE Below(0) = "and_expr"
    <3>1. Below(1) = "OR" /\ g = 1
      BY <1>1, <1>8, <2>4, JoinedByIs, PrecedenceIs
    <3>2. Below(2) = "or_expr"
      BY <1>6, <3>1, SymbolSets DEF MayStandOn, Compares, Bitwises
    <3>3. Below(1) \notin Compares
      BY <3>1, PrecedenceIs
    <3>4. QED
      BY <2>4, <3>1, <3>2, <3>3, LevelIs, WidenedIs DEF Nonterminals
  <2>5. QED
    BY <1>3, <2>1, <2>2, <2>3, <2>4
<1>10. PICK l \in Nat \ {0} :
        /\ l = Len(stack) - 0 /\ l - 1 = Len(stack) - 1 /\ l - 2 = Len(stack) - 2
        /\ l - 2 = Len(stack) - 3 + 1
        /\ p[l + 1] - 1 = Consumed /\ Consumed \in Nat /\ l - 1 + 1 = l /\ l - 2 + 1 = l - 1
  BY <1>2, TopPlaces
<1>11. PICK i, j, a, k, c, b :
         i = l - 2 /\ j = l - 1 /\ a = p[i] /\ k = p[j] /\ c = p[l] /\ b = Consumed
  OBVIOUS
<1>12. /\ Val(0) \in DOMAIN nodes /\ c \in Nat \ {0} /\ b \in Nat /\ c <= b
       /\ Derives(c, b, g + 1, TreeIn(nodes, Val(0)))
  <2>1. PICK n \in Nat : n = 0
    OBVIOUS
  <2>2. l = Len(stack) - n /\ Below(n) \in Nonterminals \ {"input"} /\ b = p[l + 1] - 1 /\ c = p[l]
    BY <1>7, <1>10, <1>11, <2>1
  <2>3. /\ Val(n) \in DOMAIN nodes /\ c \in Nat \ {0} /\ b \in Nat /\ c <= b
        /\ Derives(c, b, LevelOf(Below(n)), TreeIn(nodes, Val(n)))
    BY <2>2, NonterminalCovers
  <2>4. QED
    BY <1>9, <2>1, <2>3
<1>13. k \in Nat \ {0} /\ k = c - 1 /\ read[k].sym = Below(1)
  <2>1. PICK n \in Nat, d \in {c - 1} : n = 1
    OBVIOUS
  <2>2. j = Len(stack) - n /\ Below(n) \in Terminals /\ k = p[j] /\ d = p[j + 1] - 1
    BY <1>4, <1>10, <1>11, <2>1
  <2>3. k \in Nat \ {0} /\ k = d /\ read[k].sym = Below(n)
    BY <2>2, TerminalCovers
  <2>4. QED
    BY <2>1, <2>3
<1>14. /\ Val(2) \in DOMAIN nodes /\ a \in Nat \ {0} /\ k - 1 \in Nat /\ a <= k - 1 /\ Len(stack) > 2
       /\ Derives(a, k - 1, LevelOf(Below(2)), TreeIn(nodes, Val(2)))
  <2>1. PICK n \in Nat, d \in {k - 1} : n = 2
    OBVIOUS
  <2>2. i = Len(stack) - n /\ Below(n) \in Nonterminals \ {"input"} /\ a = p[i] /\ d = p[i + 1] - 1
    BY <1>7, <1>10, <1>11, <2>1
  <2>3. /\ Val(n) \in DOMAIN nodes /\ a \in Nat \ {0} /\ d \in Nat /\ a <= d /\ Len(stack) > n
        /\ Derives(a, d, LevelOf(Below(n)), TreeIn(nodes, Val(n)))
    BY <2>2, NonterminalCovers
  <2>4. QED
    BY <2>1, <2>3
<1>15. PICK left, right : left = TreeIn(nodes, Val(2)) /\ right = TreeIn(nodes, Val(0))
  OBVIOUS
<1>16. Derives(a, b, g, Tree(OperatorKind[Below(1)], 0, <<left, right>>))
  <2>1. SUFFICES ASSUME NEW text, Agrees(text, b)
                 PROVE  /\ Good(text, a, b, g)
                        /\ SpanTrees(text, a, b) = {Tree(OperatorKind[Below(1)], 0, <<left, right>>)}
    BY DEF Derives
  <2>2. Len(text) \in Nat /\ text[k] = read[k] /\ k + 1 = c /\ Agrees(text, k - 1)
    BY <1>12, <1>13, <1>14, <2>1 DEF Agrees
  <2>3. Good(text, k + 1, b, g + 1) /\ SpanTrees(text, k + 1, b) = {right}
    BY <1>12, <1>15, <2>1, <2>2 DEF Derives
  <2>4. PICK q \in Nat : q = LevelOf(Below(2))
    BY LevelIs
  <2>5. Good(text, a, k - 1, q) /\ SpanTrees(text, a, k - 1) = {left}
    BY <1>14, <1>15, <2>2, <2>4 DEF Derives
  <2>6. /\ text[k].sym \in Operators /\ g = Precedence[text[k].sym] /\ q >= g /\ k \in Nat
        /\ text[k].sym \in Compares => q > g
    BY <1>4, <1>8, <1>9, <1>13, <2>2, <2>4
  <2>7. /\ Good(text, a, b, g)
        /\ SpanTrees(text, a, b) =
             Joined(text[k].sym, SpanTrees(text, a, k - 1), SpanTrees(text, k + 1, b))
    <3>1. Joinable(text, a, b, k, g, q)
      BY <2>3, <2>5, <2>6 DEF Joinable
    <3>2. QED
      BY <2>2, <3>1, GoodJoin
  <2>8. Joined(Below(1), {left}, {right}) = {Tree(OperatorKind[Below(1)], 0, <<left, right>>)}
    BY DEF Joined
  <2>9. QED
    BY <1>13, <2>2, <2>3, <2>5, <2>7, <2>8
<1>17. /\ NodesKept /\ Len(nodes) + 1 \in DOMAIN nodes'
       /\ TreeIn(nodes', Len(nodes) + 1) = Tree(OperatorKind[Below(1)], 0, <<left, right>>)
  <2>1. /\ node.kind = OperatorKind[Below(1)] /\ node.value = 0
        /\ node.children = <<Val(2), Val(0)>>
    BY DEF Tree
  <2> HIDE DEF node
  <2>2. DOMAIN node.children = {1, 2} /\ node.children[1] = Val(2) /\ node.children[2] = Val(0)
    BY <2>1
  <2>3. /\ NodesKept /\ Len(nodes) + 1 \in DOMAIN nodes'
        /\ TreeIn(nodes', Len(nodes) + 1) =
             Tree(node.kind, node.value,
                  [d \in DOMAIN node.children |-> TreeIn(nodes, node.children[d])])
    BY <1>1, <1>12, <1>14, <2>2, OneNode
  <2>4. [d \in DOMAIN node.children |-> TreeIn(nodes, node.children[d])] = <<left, right>>
    BY <1>15, <2>1, <2>2
  <2>5. QED
    BY <2>1, <2>3, <2>4
<1>18. x \in Symbol /\ x.sym = Widened[Below(0)] /\ x.val = Len(nodes) + 1
  BY <1>9, NodesGrown, TokenTypes DEF Symbol, Symbols
<1> HIDE DEF x, node
<1>19. PICK n : n = Len(nodes) + 1
  OBVIOUS
<1>20. /\ x.sym \in Nonterminals /\ n = (IF x.sym = "input" THEN root' ELSE x.val)
       /\ LevelOf(x.sym) = g /\ n \in DOMAIN nodes' /\ NodesKept
  BY <1>9, <1>17, <1>18, <1>19
<1>21. PICK m \in 1 .. Len(stack) : m = 3
  <2>1. 3 \in 1 .. Len(stack)
    BY <1>2, <1>14
  <2>2. QED
    BY <2>1
<1>22. i = Len(stack) - m + 1 /\ a = p[i] /\ a <= b /\ b = Consumed /\ stack' = Pushed(stack, m, x)
  <2>1. i = Len(stack) - m + 1 /\ a = p[i] /\ b = Consumed
    BY <1>10, <1>11, <1>21
  <2>2. a <= b
    BY <1>12, <1>13, <1>14
  <2>3. QED
    BY <1>1, <1>21, <2>1, <2>2
<1>23. Derives(a, b, LevelOf(x.sym), TreeIn(nodes', n))
  BY <1>16, <1>17, <1>19, <1>20
<1>24. QED
  BY <1>1, <1>14, <1>18, <1>20, <1>22, <1>23, ReducePlaces

\* A nonterminal that becomes a wider one.
LEMMA DerivesWeaker ==
  ASSUME NEW a, NEW b, NEW g \in Nat, NEW h \in Nat, h <= g, NEW t, Derives(a, b, g, t)
  PROVE  Derives(a, b, h, t)
BY GoodWeaker DEF Derives

LEMMA WidenPlaces ==
  ASSUME IInv, LookaheadInv, NEW p, Placed(p), Len(stack) > 0,
         Below(0) \in Nonterminals \ {"input"},
         NEW x \in Symbol, x.sym \in Nonterminals, stack' = Pushed(stack, 1, x),
         LevelOf(x.sym) <= LevelOf(Below(0)),
         UNCHANGED <<read, lookahead, nodes>>,
         IF x.sym = "input" THEN root' = Val(0) /\ Len(stack) = 1
                            ELSE root' = root /\ x.val = Val(0)
  PROVE  \E q : Placed(q)'
<1>1. stack \in Seq(Symbol) /\ Len(stack) \in Nat
  BY StackOf
<1>2. PICK l \in Nat \ {0} :
        /\ l = Len(stack) - 0 /\ l = Len(stack) - 1 + 1
        /\ p[l + 1] - 1 = Consumed /\ Consumed \in Nat
  BY TopPlaces
<1>3. PICK a, b : a = p[l] /\ b = Consumed
  OBVIOUS
<1>4. /\ Val(0) \in DOMAIN nodes /\ a \in Nat \ {0} /\ b \in Nat /\ a <= b
      /\ Derives(a, b, LevelOf(Below(0)), TreeIn(nodes, Val(0)))
  <2>1. PICK n \in Nat : n = 0
    OBVIOUS
  <2>2. l = Len(stack) - n /\ Below(n) \in Nonterminals \ {"input"} /\ b = p[l + 1] - 1 /\ a = p[l]
    BY <1>2, <1>3, <2>1
  <2>3. /\ Val(n) \in DOMAIN nodes /\ a \in Nat \ {0} /\ b \in Nat /\ a <= b
        /\ Derives(a, b, LevelOf(Below(n)), TreeIn(nodes, Val(n)))
    BY <2>2, NonterminalCovers
  <2>4. QED
    BY <2>1, <2>3
<1>5. Derives(a, b, LevelOf(x.sym), TreeIn(nodes, Val(0)))
  <2>1. LevelOf(x.sym) \in Nat /\ LevelOf(Below(0)) \in Nat
    BY LevelIs
  <2>2. QED
    BY <1>4, <2>1, DerivesWeaker
<1>6. PICK n : n = Val(0)
  OBVIOUS
<1>7. n = (IF x.sym = "input" THEN root' ELSE x.val) /\ n \in DOMAIN nodes' /\ NodesKept
  BY <1>4, <1>6, SameNodes
<1>8. PICK m \in 1 .. Len(stack) : m = 1
  <2>1. 1 \in 1 .. Len(stack)
    BY <1>1
  <2>2. QED
    BY <2>1
<1>9. /\ l = Len(stack) - m + 1 /\ a = p[l] /\ a <= b /\ b = Consumed /\ stack' = Pushed(stack, m, x)
      /\ root' = root \/ m = Len(stack)
  BY <1>2, <1>3, <1>4, <1>8
<1>10. Derives(a, b, LevelOf(x.sym), TreeIn(nodes', n))
  BY <1>5, <1>6
<1>11. QED
  BY <1>4, <1>7, <1>9, <1>10, ReducePlaces

LEMMA ReduceUnitPlaces ==
  ASSUME IInv, LookaheadInv, NEW p, Placed(p), ReduceUnit
  PROVE  \E q : Placed(q)'
<1>1. PICK x : x = [sym |-> Widened[Below(0)], val |-> Val(0)]
  OBVIOUS
<1>2. /\ Reducing /\ Below(0) \in DOMAIN Widened \ {"expr"} /\ stack' = Pushed(stack, 1, x)
      /\ UNCHANGED <<read, lookahead, nodes, root>>
  BY <1>1 DEF ReduceUnit, Pass, Replaced, Pushed
<1>3. stack \in Seq(Symbol) /\ Len(stack) \in Nat /\ Len(stack) > 0
  BY <1>2, StackOf, ReducibleIs
<1>4. Below(0) \in {"primary", "unary_expr", "bitwise_expr", "comparison_expr", "and_expr", "or_expr"}
  BY <1>2, SymbolSets
<1>5. /\ LevelOf(Widened[Below(0)]) <= LevelOf(Below(0))
      /\ Widened[Below(0)] \in Nonterminals \ {"input"} /\ Below(0) \in Nonterminals \ {"input"}
  BY <1>4, LevelIs, WidenedIs DEF Nonterminals
<1>6. x.sym = Widened[Below(0)] /\ x.val = Val(0) /\ x \in Symbol
  BY <1>1, <1>3, <1>5, PlaceOf DEF Symbol, Symbols
<1>7. QED
  BY <1>2, <1>3, <1>5, <1>6, WidenPlaces

LEMMA ReduceInputPlaces ==
  ASSUME IInv, LookaheadInv, NEW p, Placed(p), ReduceInput
  PROVE  \E q : Placed(q)'
<1>1. PICK x : x = [sym |-> "input", val |-> 0]
  OBVIOUS
<1>2. /\ Reducing /\ Below(0) = "expr" /\ stack' = Pushed(stack, 1, x) /\ root' = Val(0)
      /\ UNCHANGED <<read, lookahead, nodes>>
  BY <1>1 DEF ReduceInput, Replaced, Pushed
<1>3. stack \in Seq(Symbol) /\ Len(stack) \in Nat /\ Len(stack) > 0 /\ Shape(stack) /\ Below(1) # "("
  BY <1>2, StackOf, ReducibleIs
<1>4. Len(stack) = 1
  <2>1. MayStandOn(Below(0 + 1), Below(0))
    BY <1>3, TopShape
  <2>2. Below(1) = "bottom"
    BY <1>2, <1>3, <2>1, SymbolSets DEF MayStandOn, Compares, Bitwises
  <2>3. QED
    <3>1. 1 \in Nat
      OBVIOUS
    <3>2. ~(Len(stack) > 1)
      BY <1>3, <2>2, <3>1, BelowIs
    <3>3. PICK l \in Nat : l = Len(stack)
      BY <1>3
    <3>4. l > 0 /\ ~(l > 1)
      BY <1>3, <3>2, <3>3
    <3>5. l = 1
      BY <3>4
    <3>6. QED
      BY <3>3, <3>5
<1>5. /\ x.sym = "input" /\ x \in Symbol /\ x.sym \in Nonterminals
      /\ Below(0) \in Nonterminals \ {"input"} /\ LevelOf(x.sym) <= LevelOf(Below(0))
  BY <1>1, <1>2, LevelIs, TokenTypes DEF Symbol, Symbols, Nonterminals
<1>6. QED
  BY <1>2, <1>3, <1>4, <1>5, WidenPlaces

-----------------------------------------------------------------------------
(* What is too wide for the token read last: the nonterminals from a       *)
(* comparison on are only made when the next token is known not to go on   *)
(* with what they are made of.                                             *)

Wide == {"comparison_expr", "and_expr", "or_expr", "expr", "input"}

WideInv ==
  Below(0) \in Wide =>
    /\ lookahead # NoToken /\ lookahead.sym \notin Bitwises
    /\ lookahead.sym = "AND" => Below(0) \notin {"or_expr", "expr", "input"}
    /\ lookahead.sym = "OR" => Below(0) \notin {"expr", "input"}
    /\ lookahead.sym \in Compares => \E k \in 1 .. Len(read) : Chain(read, k, Len(read))

LEMMA ShiftableIs ==
  /\ Below(0) = "bitwise_expr" => Shiftable = Bitwises \cup Comparisons
  /\ Below(0) = "and_expr" => Shiftable = {"AND"}
  /\ Below(0) = "or_expr" => Shiftable = {"OR"}
  /\ Below(0) = "expr" => Shiftable = IF Below(1) = "(" THEN {")"} ELSE {}
  /\ Below(0) = "input" => Shiftable = {"$end"}
  /\ Below(0) \in Openings => Shiftable = Leaves \cup {"(", "!"}
<1>1. CASE Below(0) \in Openings
  <2>1. /\ Below(0) \in {"bottom", "(", "!"} \cup DOMAIN OperatorKind
        /\ Below(0) \notin {"bitwise_expr", "and_expr", "or_expr", "expr", "input"}
    BY <1>1, SymbolSets DEF Openings, Operators
  <2>2. Shiftable = Leaves \cup {"(", "!"}
    BY <2>1, Zenon DEF Shiftable, Leaves
  <2>3. QED
    BY <2>1, <2>2
<1>2. CASE Below(0) \notin Openings
  <2>1. Below(0) \notin {"bottom", "(", "!"} \cup DOMAIN OperatorKind
    BY <1>2 DEF Openings, Operators
  <2>2. QED
    BY <1>2, <2>1 DEF Shiftable
<1>3. QED
  BY <1>1, <1>2

\* What stands inside, as seen from the token before.
LEMMA InsideGood ==
  ASSUME NEW text, NEW k \in Nat, NEW i, i = k + 1, NEW b, NEW q, Good(text, i, b, q), NEW m \in i .. b
  PROVE  /\ Depth(text, m) >= Depth(text, k)
         /\ text[m].sym \in Operators /\ Depth(text, m) = Depth(text, k) => Precedence[text[m].sym] >= q
<1>1. i - 1 = k
  OBVIOUS
<1>2. Depth(text, m) >= Depth(text, k)
  BY <1>1 DEF Good, Closed
<1>3. ASSUME text[m].sym \in Operators, Depth(text, m) = Depth(text, k)
      PROVE  Precedence[text[m].sym] >= q
  <2>1. m \in OuterOps(text, i, b)
    BY <1>1, <1>3 DEF OuterOps
  <2>2. QED
    BY <2>1 DEF Good
<1>4. QED
  BY <1>2, <1>3

\* A comparison that is to be compared again.
LEMMA ChainMet ==
  ASSUME IInv, LookaheadInv, NEW p, Placed(p), Below(0) = "bitwise_expr", Below(1) \in Compares,
         lookahead # NoToken, lookahead.sym \in Compares
  PROVE  \E k \in 1 .. Len(read) : Chain(read, k, Len(read))
<1>1. stack \in Seq(Symbol) /\ Below(0) # "bottom" /\ 0 \in Nat
  BY StackOf
<1>2. Len(stack) > 0
  BY <1>1, BelowIs
<1>3. PICK l \in Nat \ {0} :
        /\ l = Len(stack) - 0 /\ l - 1 = Len(stack) - 1
        /\ p[l + 1] - 1 = Consumed /\ Consumed \in Nat /\ l - 1 + 1 = l
  BY <1>2, TopPlaces
<1>4. PICK i, k, c, b : i = l - 1 /\ k = p[i] /\ c = p[l] /\ b = Consumed
  OBVIOUS
<1>5. c \in Nat \ {0} /\ b \in Nat /\ c <= b /\ Derives(c, b, 4, TreeIn(nodes, Val(0)))
  <2>1. PICK n \in Nat : n = 0
    OBVIOUS
  <2>2. l = Len(stack) - n /\ Below(n) \in Nonterminals \ {"input"} /\ b = p[l + 1] - 1 /\ c = p[l]
    BY <1>3, <1>4, <2>1 DEF Nonterminals
  <2>3. /\ c \in Nat \ {0} /\ b \in Nat /\ c <= b
        /\ Derives(c, b, LevelOf(Below(n)), TreeIn(nodes, Val(n)))
    BY <2>2, NonterminalCovers
  <2>4. QED
    BY <2>1, <2>3, LevelIs
<1>6. k \in Nat \ {0} /\ k = c - 1 /\ read[k].sym = Below(1)
  <2>1. PICK n \in Nat, d \in {c - 1} : n = 1
    OBVIOUS
  <2>2. Below(1) \in Terminals
    BY PrecedenceIs, SymbolKinds
  <2>3. i = Len(stack) - n /\ Below(n) \in Terminals /\ k = p[i] /\ d = p[i + 1] - 1
    BY <1>3, <1>4, <2>1, <2>2
  <2>4. k \in Nat \ {0} /\ k = d /\ read[k].sym = Below(n)
    BY <2>3, TerminalCovers
  <2>5. QED
    BY <2>1, <2>4
<1>7. /\ b + 1 = Len(read) /\ Len(read) \in Nat /\ read[b + 1] = lookahead
      /\ k + 1 = c /\ k + 1 - 1 = k /\ Len(read) - 1 = b
  BY <1>4, <1>5, <1>6, ConsumedIs
<1>8. Good(read, k + 1, b, 4)
  <2>1. Agrees(read, b)
    BY <1>5, <1>7 DEF Agrees
  <2>2. QED
    BY <1>5, <1>7, <2>1 DEF Derives
<1>9. Closed(read, k + 1, b)
  BY <1>8 DEF Good
<1>10. read[k].sym \in Operators
  BY <1>6, PrecedenceIs
<1>11. Depth(read, k) \in Int /\ Depth(read, b) = Depth(read, k)
  BY <1>6, <1>7, <1>9, <1>10, OperatorDepth DEF Closed
<1>12. ASSUME NEW m \in k .. b
       PROVE  /\ Depth(read, m) >= Depth(read, k)
              /\ read[m].sym \in {"AND", "OR"} => Depth(read, m) # Depth(read, k)
  <2>1. CASE m = k
    BY <1>6, <1>11, <2>1, PrecedenceIs
  <2>2. CASE m # k
    <3>1. m \in k + 1 .. b
      BY <1>5, <1>6, <2>2
    <3>2. /\ Depth(read, m) >= Depth(read, k)
          /\ read[m].sym \in Operators /\ Depth(read, m) = Depth(read, k) => Precedence[read[m].sym] >= 4
      <4>1. PICK d : d = k + 1
        OBVIOUS
      <4>2. Good(read, d, b, 4) /\ m \in d .. b /\ k \in Nat
        BY <1>6, <1>8, <3>1, <4>1
      <4>3. QED
        BY <4>1, <4>2, InsideGood
    <3>3. ASSUME read[m].sym \in {"AND", "OR"}, Depth(read, m) = Depth(read, k) PROVE FALSE
      <4>1. Precedence[read[m].sym] >= 4 /\ Precedence[read[m].sym] \in {1, 2}
        BY <3>2, <3>3, PrecedenceIs
      <4>2. QED
        BY <4>1
    <3>4. QED
      BY <3>2, <3>3
  <2>3. QED
    BY <2>1, <2>2
<1>13. Chain(read, k, Len(read))
  <2>1. k < Len(read) /\ read[k].sym \in Compares /\ read[Len(read)].sym \in Compares
    BY <1>5, <1>6, <1>7
  <2>2. QED
    BY <1>7, <1>11, <1>12, <2>1 DEF Chain
<1>14. k \in 1 .. Len(read)
  BY <1>5, <1>6, <1>7
<1>15. QED
  BY <1>13, <1>14

\* Every rule.
LEMMA WideKept ==
  ASSUME IInv, LookaheadInv, WideInv, NEW p, Placed(p), Reducing, UNCHANGED <<read, lookahead>>,
         \/ Below(0)' \notin Wide
         \/ Below(0) \in DOMAIN Widened /\ Below(0)' = Widened[Below(0)]
         \/ Below(0) = "expr" /\ Below(0)' = "input" /\ Below(1) # "("
  PROVE  WideInv'
<1>1. Shiftable = {} \/ (lookahead # NoToken /\ lookahead.sym \notin Shiftable)
  BY DEF Reducing
<1>2. CASE Below(0)' \notin Wide
  BY <1>2 DEF WideInv
<1>3. CASE Below(0)' = "comparison_expr" /\ Below(0) = "bitwise_expr"
  <2>1. lookahead # NoToken /\ lookahead.sym \notin Bitwises \cup Comparisons
    BY <1>1, <1>3, ShiftableIs DEF Bitwises
  <2>2. lookahead.sym \in Compares => Below(1) \in Compares
    BY <2>1 DEF Comparisons
  <2>3. lookahead.sym \in Compares => \E k \in 1 .. Len(read) : Chain(read, k, Len(read))
    BY <1>3, <2>1, <2>2, ChainMet
  <2>4. QED
    BY <1>3, <2>1, <2>3 DEF WideInv
<1>4. CASE Below(0)' = "and_expr" /\ Below(0) = "comparison_expr"
  BY <1>4 DEF WideInv, Wide
<1>5. CASE Below(0)' = "or_expr" /\ Below(0) = "and_expr"
  BY <1>1, <1>5, ShiftableIs DEF WideInv, Wide
<1>6. CASE Below(0)' = "expr" /\ Below(0) = "or_expr"
  BY <1>1, <1>6, ShiftableIs DEF WideInv, Wide
<1>7. CASE Below(0)' = "input" /\ Below(0) = "expr"
  BY <1>7 DEF WideInv, Wide
<1>8. ASSUME Below(0) \in DOMAIN Widened, Below(0)' = Widened[Below(0)], Below(0)' \in Wide
      PROVE  \/ Below(0)' = "comparison_expr" /\ Below(0) = "bitwise_expr"
             \/ Below(0)' = "and_expr" /\ Below(0) = "comparison_expr"
             \/ Below(0)' = "or_expr" /\ Below(0) = "and_expr"
             \/ Below(0)' = "expr" /\ Below(0) = "or_expr"
             \/ Below(0)' = "input" /\ Below(0) = "expr"
  BY <1>8 DEF Widened, Wide
<1>9. QED
  BY <1>2, <1>3, <1>4, <1>5, <1>6, <1>7, <1>8

-----------------------------------------------------------------------------
(* The invariant that relates the stack to the grammar. *)

GrammarInv ==
  /\ LookaheadInv
  /\ WideInv
  /\ phase = "parse" => \E p : Placed(p)

LEMMA GrammarInit == Init => GrammarInv
<1> SUFFICES ASSUME Init PROVE GrammarInv
  OBVIOUS
<1>1. stack = <<>> /\ read = <<>> /\ lookahead = NoToken
  BY DEF Init
<1>2. Len(stack) = 0 /\ Len(read) = 0
  BY <1>1
<1>3. Below(0) = "bottom" /\ Below(0) \notin Wide
  BY <1>2 DEF Below, Wide
<1>4. PICK p : p = [i \in 1 .. 1 |-> 1]
  OBVIOUS
<1>5. Consumed = 0
  BY <1>1, <1>2 DEF Consumed
<1>6. Placed(p)
  BY <1>2, <1>4, <1>5 DEF Placed
<1>7. QED
  BY <1>1, <1>3, <1>6 DEF GrammarInv, LookaheadInv, WideInv

LEMMA GrammarLex == IInv /\ GrammarInv /\ Lex => GrammarInv'
<1> SUFFICES ASSUME IInv, GrammarInv, Lex PROVE GrammarInv'
  OBVIOUS
<1>1. /\ phase = "parse" /\ Shiftable # {} /\ lookahead = NoToken /\ UNCHANGED <<stack, phase>>
      /\ \E token \in Tokens \cup {EndToken} : lookahead' = token /\ read' = Append(read, token)
  BY DEF Lex, Parsing
<1>2. PICK token \in Tokens \cup {EndToken} : lookahead' = token /\ read' = Append(read, token)
  BY <1>1
<1>3. read \in Seq(Tokens \cup {EndToken}) /\ Len(read) \in Nat
  BY DEF IInv, TokenInv
<1>4. Len(read') = Len(read) + 1 /\ read'[Len(read) + 1] = token
  BY <1>2, <1>3
<1>5. LookaheadInv'
  BY <1>2, <1>3, <1>4 DEF LookaheadInv
<1>6. Below(0) \notin Wide /\ Below(0)' = Below(0)
  BY <1>1 DEF GrammarInv, WideInv, Below
<1>7. \E p : Placed(p)'
  BY <1>1, LexPlaces DEF GrammarInv
<1>8. QED
  BY <1>5, <1>6, <1>7 DEF GrammarInv, WideInv

LEMMA GrammarShift == IInv /\ GrammarInv /\ Shift => GrammarInv'
<1> SUFFICES ASSUME IInv, GrammarInv, Shift PROVE GrammarInv'
  OBVIOUS
<1>1. /\ phase = "parse" /\ lookahead.sym \in Shiftable /\ lookahead' = NoToken
      /\ stack' = Append(stack, [sym |-> lookahead.sym, val |-> TokenValue])
  BY DEF Shift, Parsing
<1>2. lookahead.sym \in Terminals
  BY <1>1, ShiftsFit
<1>3. stack \in Seq(Symbol) /\ Len(stack) \in Nat
  BY StackOf
<1>4. Below(0)' = lookahead.sym
  <2>1. lookahead \in Tokens \cup {EndToken, NoToken} /\ lookahead # NoToken
    BY <1>2, TokenTypes, SymbolKinds, SymbolSets DEF IInv, TokenInv
  <2>2. TokenValue \in Values
    BY <2>1, TokenTypes DEF TokenValue, IInv, TokenInv
  <2>3. PICK x : x = [sym |-> lookahead.sym, val |-> TokenValue]
    OBVIOUS
  <2>4. x \in Symbol /\ x.sym = lookahead.sym
    BY <1>2, <2>2, <2>3 DEF Symbol, Symbols
  <2>5. stack' = Pushed(stack, 0, x)
    <3>1. SubSeq(stack, 1, Len(stack) - 0) = stack
      BY <1>3
    <3>2. QED
      BY <1>1, <2>3, <3>1 DEF Pushed
  <2>6. 0 \in 0 .. Len(stack)
    BY <1>3
  <2>7. QED
    BY <1>3, <2>4, <2>5, <2>6, PushedTop
<1>5. Below(0)' \notin Wide
  BY <1>2, <1>4, SymbolKinds DEF Wide, Nonterminals
<1>6. \E p : Placed(p)'
  BY <1>1, ShiftPlaces DEF GrammarInv
<1>7. QED
  BY <1>1, <1>5, <1>6 DEF GrammarInv, LookaheadInv, WideInv

\* A rule that leaves the symbol t on the top.
LEMMA GrammarReduce ==
  ASSUME IInv, GrammarInv, Reducing, UNCHANGED <<read, lookahead>>,
         NEW k \in 1 .. Len(stack), NEW v, NEW t, t \in Nonterminals, v \in Values,
         stack' = Replaced(k, t, v),
         \/ t \notin Wide
         \/ Below(0) \in DOMAIN Widened /\ t = Widened[Below(0)]
         \/ Below(0) = "expr" /\ t = "input" /\ Below(1) # "(",
         \A p : Placed(p) => \E q : Placed(q)'
  PROVE  GrammarInv'
<1>1. stack \in Seq(Symbol) /\ Len(stack) \in Nat /\ phase = "parse" /\ k \in 0 .. Len(stack)
  BY StackOf DEF Reducing, Parsing
<1>2. PICK x : x = [sym |-> t, val |-> v]
  OBVIOUS
<1>3. x \in Symbol /\ x.sym = t /\ stack' = Pushed(stack, k, x)
  BY <1>2 DEF Symbol, Symbols, Replaced, Pushed
<1>4. Below(0)' = t
  BY <1>1, <1>3, PushedTop
<1>5. PICK p : Placed(p)
  BY <1>1 DEF GrammarInv
<1>6. WideInv'
  BY <1>4, <1>5, WideKept DEF GrammarInv
<1>7. QED
  BY <1>5, <1>6 DEF GrammarInv, LookaheadInv

LEMMA GrammarRules == IInv /\ GrammarInv /\ Reduce => GrammarInv'
<1> SUFFICES ASSUME IInv, GrammarInv, Reduce PROVE GrammarInv'
  OBVIOUS
<1>1. stack \in Seq(Symbol) /\ Len(stack) \in Nat /\ Shape(stack) /\ Len(nodes) \in Nat
  BY StackOf, NodesGrown
<1>2. Reducing
  BY DEF Reduce, ReduceLeaf, ReduceParens, ReduceNot, ReduceBinary, ReduceUnit, ReduceInput
<1>3. Len(stack) > 0 /\ (Below(0) = "expr" => Below(1) # "(")
  BY <1>1, <1>2, ReducibleIs
<1>4. Len(nodes) + 1 \in Values /\ 0 \in Values
  BY <1>1, TokenTypes
<1>5. {"primary", "unary_expr"} \cap Wide = {} /\ {"primary", "unary_expr", "input"} \subseteq Nonterminals
  BY DEF Wide, Nonterminals
<1>6. \A s \in DOMAIN Widened : Widened[s] \in Nonterminals
  BY DEF Widened, Nonterminals
<1>7. CASE ReduceLeaf
  <2>1. /\ UNCHANGED <<read, lookahead>> /\ stack' = Replaced(1, "primary", Len(nodes) + 1)
        /\ 1 \in 1 .. Len(stack)
    BY <1>1, <1>3, <1>7 DEF ReduceLeaf, Make
  <2>2. \A p : Placed(p) => \E q : Placed(q)'
    BY <1>7, ReduceLeafPlaces DEF GrammarInv
  <2>3. QED
    BY <1>2, <1>4, <1>5, <2>1, <2>2, GrammarReduce
<1>8. CASE ReduceParens
  <2>1. UNCHANGED <<read, lookahead>> /\ stack' = Replaced(3, "primary", Val(1)) /\ Below(0) = ")"
    BY <1>8 DEF ReduceParens, Pass
  <2>2. \A p : Placed(p) => \E q : Placed(q)'
    BY <1>8, ReduceParensPlaces DEF GrammarInv
  <2>3. 3 \in 1 .. Len(stack) /\ Val(1) \in Values
    <3>1. MayFollow(Below(0 + 2), Below(0))
      BY <1>1, <1>3, TopShape
    <3>2. Below(2) = "("
      BY <2>1, <3>1 DEF MayFollow
    <3>3. Len(stack) > 2
      BY <1>1, <3>2, BelowIs
    <3>4. Len(stack) > 1
      BY <1>1, <3>3
    <3>5. QED
      BY <1>1, <3>3, <3>4, PlaceOf
  <2>4. QED
    BY <1>2, <1>5, <2>1, <2>2, <2>3, GrammarReduce
<1>9. CASE ReduceNot
  <2>1. /\ UNCHANGED <<read, lookahead>> /\ stack' = Replaced(2, "unary_expr", Len(nodes) + 1)
        /\ Below(1) = "!"
    BY <1>9 DEF ReduceNot, Make
  <2>2. \A p : Placed(p) => \E q : Placed(q)'
    BY <1>9, ReduceNotPlaces DEF GrammarInv
  <2>3. 2 \in 1 .. Len(stack)
    <3>1. Len(stack) > 1
      BY <1>1, <2>1, BelowIs
    <3>2. QED
      BY <1>1, <3>1
  <2>4. QED
    BY <1>2, <1>4, <1>5, <2>1, <2>2, <2>3, GrammarReduce
<1>10. CASE ReduceBinary
  <2>1. /\ UNCHANGED <<read, lookahead>> /\ stack' = Replaced(3, Widened[Below(0)], Len(nodes) + 1)
        /\ Below(1) \in JoinedBy[Below(0)]
    BY <1>10 DEF ReduceBinary, Make
  <2>2. \A p : Placed(p) => \E q : Placed(q)'
    BY <1>10, ReduceBinaryPlaces DEF GrammarInv
  <2>3. Below(0) \in {"unary_expr", "bitwise_expr", "comparison_expr", "and_expr"}
    <3>1. Below(0) \in Symbols
      BY <1>1, <1>3, BelowIs
    <3>2. QED
      BY <2>1, <3>1, JoinedByIs
  <2>4. Below(0) \in DOMAIN Widened /\ Widened[Below(0)] \in Nonterminals
    BY <1>6, <2>3, SymbolSets
  <2>5. 3 \in 1 .. Len(stack)
    <3>1. Below(1) \in Operators /\ Below(1) # "bottom"
      BY <2>1, <2>3, JoinedByIs, SymbolSets DEF Bitwises, Compares
    <3>2. Len(stack) > 1
      BY <1>1, <3>1, BelowIs
    <3>3. MayStandOn(Below(1 + 1), Below(1))
      BY <1>1, <3>2, TopShape
    <3>4. Below(2) # "bottom"
      BY <3>1, <3>3, SymbolSets DEF MayStandOn, Compares, Bitwises
    <3>5. Len(stack) > 2
      BY <1>1, <3>4, BelowIs
    <3>6. QED
      BY <1>1, <3>5
  <2>6. QED
    BY <1>2, <1>4, <2>1, <2>2, <2>4, <2>5, GrammarReduce
<1>11. CASE ReduceUnit
  <2>1. /\ UNCHANGED <<read, lookahead>> /\ stack' = Replaced(1, Widened[Below(0)], Val(0))
        /\ Below(0) \in DOMAIN Widened
    BY <1>11 DEF ReduceUnit, Pass
  <2>2. \A p : Placed(p) => \E q : Placed(q)'
    BY <1>11, ReduceUnitPlaces DEF GrammarInv
  <2>3. 1 \in 1 .. Len(stack) /\ Val(0) \in Values
    BY <1>1, <1>3, PlaceOf
  <2>4. QED
    BY <1>2, <1>6, <2>1, <2>2, <2>3, GrammarReduce
<1>12. CASE ReduceInput
  <2>1. UNCHANGED <<read, lookahead>> /\ stack' = Replaced(1, "input", 0) /\ Below(0) = "expr"
    BY <1>12 DEF ReduceInput
  <2>2. \A p : Placed(p) => \E q : Placed(q)'
    BY <1>12, ReduceInputPlaces DEF GrammarInv
  <2>3. 1 \in 1 .. Len(stack)
    BY <1>1, <1>3
  <2>4. QED
    BY <1>2, <1>3, <1>4, <1>5, <2>1, <2>2, <2>3, GrammarReduce
<1>13. QED
  BY <1>7, <1>8, <1>9, <1>10, <1>11, <1>12 DEF Reduce

\* The ends of yyparse leave no stack.
LEMMA GrammarEnd ==
  ASSUME GrammarInv, phase' # "parse", stack' = <<>>, UNCHANGED read,
         lookahead' = NoToken \/ lookahead' = lookahead
  PROVE  GrammarInv'
<1>1. Len(stack') = 0
  OBVIOUS
<1>2. Below(0)' = "bottom"
  BY <1>1 DEF Below
<1>3. QED
  BY <1>2 DEF GrammarInv, LookaheadInv, WideInv, Wide

LEMMA GrammarNext == IInv /\ GrammarInv /\ [Next]_yvars => GrammarInv'
<1> SUFFICES ASSUME IInv, GrammarInv, [Next]_yvars PROVE GrammarInv'
  OBVIOUS
<1>1. CASE Accept
  BY <1>1, GrammarEnd DEF Accept
<1>2. CASE SyntaxError
  BY <1>2, GrammarEnd DEF SyntaxError, Abort
<1>3. CASE Exhausted
  BY <1>3, GrammarEnd DEF Exhausted, Abort
<1>4. CASE Drop
  <2>1. stack = <<>>
    BY <1>4 DEF Drop, IInv, PhaseInv
  <2>2. QED
    BY <1>4, <2>1, GrammarEnd DEF Drop
<1>5. CASE UNCHANGED yvars
  <2>1. UNCHANGED <<read, lookahead, stack, nodes, root, phase>>
    BY <1>5 DEF yvars
  <2>2. Below(0)' = Below(0) /\ Consumed' = Consumed
    BY <2>1 DEF Below, Consumed
  <2>3. NodesKept /\ Consumed \in Nat
    BY <2>1, SameNodes, ConsumedIs DEF GrammarInv
  <2>4. ASSUME NEW p, Placed(p) PROVE Placed(p)'
    <3>1. ASSUME NEW i \in 1 .. Len(stack) PROVE Covers(stack[i], p[i], p[i + 1] - 1)'
      <4>1. PICK y, a, b : y = stack[i] /\ a = p[i] /\ b = p[i + 1] - 1
        OBVIOUS
      <4>2. Covers(y, a, b)
        BY <2>4, <4>1 DEF Placed
      <4>3. Covers(y, a, b)'
        BY <2>1, <2>2, <2>3, <4>2, CoversKept
      <4>4. y = stack'[i]
        BY <2>1, <4>1
      <4>5. QED
        BY <4>1, <4>3, <4>4
    <3>2. QED
      BY <2>1, <2>2, <2>4, <3>1 DEF Placed
  <2>5. QED
    BY <2>1, <2>2, <2>4 DEF GrammarInv, LookaheadInv, WideInv
<1>6. QED
  BY <1>1, <1>2, <1>3, <1>4, <1>5, GrammarLex, GrammarShift, GrammarRules DEF Next

-----------------------------------------------------------------------------
(* What the top of the stack says of the text where yyparse ends. *)

\* All the tokens but the last.
Prefix == SubSeq(read, 1, Len(read) - 1)

LEMMA PrefixIs ==
  ASSUME IInv, Len(read) # 0
  PROVE  /\ Prefix \in Seq(Tokens \cup {EndToken}) /\ Len(Prefix) = Len(read) - 1 /\ Len(Prefix) \in Nat
         /\ \A i \in 1 .. Len(Prefix) : Prefix[i] = read[i]
<1>1. read \in Seq(Tokens \cup {EndToken}) /\ Len(read) \in Nat /\ Len(read) - 1 \in Nat
  BY DEF IInv, TokenInv
<1>2. PICK m \in Nat : m = Len(read) - 1 /\ m <= Len(read)
  <2>1. PICK l \in Nat : l = Len(read) /\ l - 1 \in Nat
    BY <1>1
  <2>2. l - 1 <= l
    OBVIOUS
  <2>3. QED
    BY <2>1, <2>2
<1>3. /\ SubSeq(read, 1, m) \in Seq(Tokens \cup {EndToken}) /\ Len(SubSeq(read, 1, m)) = m
      /\ \A i \in 1 .. m : SubSeq(read, 1, m)[i] = read[i]
  BY <1>1, <1>2
<1>4. QED
  BY <1>2, <1>3 DEF Prefix

LEMMA EndTree ==
  ASSUME IInv, LookaheadInv, NEW p, Placed(p), Below(0) = "input"
  PROVE  /\ Len(stack) = 1 /\ root \in DOMAIN nodes /\ Consumed \in Nat \ {0}
         /\ Derives(1, Consumed, 1, TreeIn(nodes, root))
<1>1. stack \in Seq(Symbol) /\ Len(stack) \in Nat /\ Shape(stack) /\ 0 \in Nat /\ 1 \in Nat
  BY StackOf
<1>2. Len(stack) > 0
  BY <1>1, BelowIs
<1>3. MayStandOn(Below(0 + 1), Below(0))
  BY <1>1, <1>2, TopShape
<1>4. Below(1) = "bottom"
  BY <1>3, SymbolSets DEF MayStandOn, Compares, Bitwises
<1>5. ~(Len(stack) > 1)
  BY <1>1, <1>4, BelowIs
<1>6. Len(stack) = 1
  <2>1. PICK l \in Nat : l = Len(stack)
    BY <1>1
  <2>2. l > 0 /\ ~(l > 1)
    BY <1>2, <1>5, <2>1
  <2>3. l = 1
    BY <2>2
  <2>4. QED
    BY <2>1, <2>3
<1>7. stack[1].sym = "input"
  BY <1>6 DEF Below
<1>8. Covers(stack[1], p[1], p[1 + 1] - 1) /\ p[1] = 1 /\ p[Len(stack) + 1] = Consumed + 1
  BY <1>6 DEF Placed
<1>9. Consumed \in Nat /\ p[1 + 1] - 1 = Consumed
  <2>1. Consumed \in Nat
    BY ConsumedIs
  <2>2. p[1 + 1] = Consumed + 1
    BY <1>6, <1>8
  <2>3. QED
    BY <2>1, <2>2
<1>10. Covers(stack[1], 1, Consumed)
  BY <1>8, <1>9
<1>11. "input" \in Nonterminals /\ NodeOf(stack[1]) = root /\ LevelOf("input") = 1
  BY <1>7, LevelIs DEF NodeOf, Nonterminals
<1>12. QED
  BY <1>6, <1>7, <1>9, <1>10, <1>11 DEF Covers

\* An expression over an open parenthesis.
LEMMA OpenExpr ==
  ASSUME IInv, LookaheadInv, NEW p, Placed(p), Below(0) = "expr", Below(1) = "("
  PROVE  \E a \in Nat \ {0} :
           /\ a = p[Len(stack) - 1] /\ a + 1 = p[Len(stack)]
           /\ read[a].sym = "(" /\ Consumed \in Nat /\ a + 1 <= Consumed
           /\ Derives(a + 1, Consumed, 1, TreeIn(nodes, Val(0)))
<1>1. stack \in Seq(Symbol) /\ 0 \in Nat
  BY StackOf
<1>2. Len(stack) > 0
  BY <1>1, BelowIs
<1>3. PICK l \in Nat \ {0} :
        /\ l = Len(stack) /\ l = Len(stack) - 0 /\ l - 1 = Len(stack) - 1
        /\ p[l + 1] - 1 = Consumed /\ Consumed \in Nat /\ l - 1 + 1 = l
  BY <1>2, TopPlaces
<1>4. PICK i, a, c, b : i = l - 1 /\ a = p[i] /\ c = p[l] /\ b = Consumed
  OBVIOUS
<1>5. c \in Nat \ {0} /\ b \in Nat /\ c <= b /\ Derives(c, b, 1, TreeIn(nodes, Val(0)))
  <2>1. PICK n \in Nat : n = 0
    OBVIOUS
  <2>2. l = Len(stack) - n /\ Below(n) \in Nonterminals \ {"input"} /\ b = p[l + 1] - 1 /\ c = p[l]
    BY <1>3, <1>4, <2>1 DEF Nonterminals
  <2>3. /\ c \in Nat \ {0} /\ b \in Nat /\ c <= b
        /\ Derives(c, b, LevelOf(Below(n)), TreeIn(nodes, Val(n)))
    BY <2>2, NonterminalCovers
  <2>4. QED
    BY <2>1, <2>3, LevelIs
<1>6. a \in Nat \ {0} /\ a = c - 1 /\ read[a].sym = "("
  <2>1. PICK n \in Nat, d \in {c - 1} : n = 1
    OBVIOUS
  <2>2. i = Len(stack) - n /\ Below(n) \in Terminals /\ a = p[i] /\ d = p[i + 1] - 1
    BY <1>3, <1>4, <2>1, SymbolKinds
  <2>3. a \in Nat \ {0} /\ a = d /\ read[a].sym = Below(n)
    BY <2>2, TerminalCovers
  <2>4. QED
    BY <2>1, <2>3
<1>7. a + 1 = c
  BY <1>5, <1>6
<1>8. a = p[Len(stack) - 1] /\ c = p[Len(stack)]
  BY <1>3, <1>4
<1>9. QED
  BY <1>4, <1>5, <1>6, <1>7, <1>8

\* The token on the top, or the last one of the expression there.
LEMMA LastConsumed ==
  ASSUME IInv, LookaheadInv, NEW p, Placed(p)
  PROVE  /\ Below(0) = "bottom" => Consumed = 0
         /\ Below(0) \in Operators \cup {"(", "!"} =>
              Consumed \in Nat \ {0} /\ read[Consumed].sym = Below(0)
         /\ Below(0) = "input" \/ (Below(0) = "expr" /\ Below(1) = "(") =>
              Consumed \in Nat \ {0} /\ read[Consumed].sym \in Ending
<1>1. stack \in Seq(Symbol) /\ Len(stack) \in Nat /\ 0 \in Nat
  BY StackOf
<1>2. ASSUME Below(0) = "bottom" PROVE Consumed = 0
  <2>1. ~(Len(stack) > 0)
    BY <1>1, <1>2, BelowIs
  <2>2. Len(stack) = 0
    BY <1>1, <2>1
  <2>3. p[0 + 1] = Consumed + 1 /\ p[1] = 1 /\ Consumed \in Nat
    BY <2>2, ConsumedIs DEF Placed
  <2>4. QED
    BY <2>3
<1>3. ASSUME Below(0) \in Operators \cup {"(", "!"}
      PROVE  Consumed \in Nat \ {0} /\ read[Consumed].sym = Below(0)
  <2>1. PICK n \in Nat : n = 0
    OBVIOUS
  <2>2. Below(n) \in Terminals /\ Below(n) # "bottom"
    BY <1>3, <2>1, SymbolKinds DEF Symbols
  <2>3. Len(stack) > 0
    BY <1>1, <2>1, <2>2, BelowIs
  <2>4. PICK l \in Nat \ {0} :
          l = Len(stack) - 0 /\ p[l + 1] - 1 = Consumed
    BY <2>3, TopPlaces
  <2>5. PICK a, b : a = p[l] /\ b = p[l + 1] - 1 /\ l = Len(stack) - n
    BY <2>1, <2>4
  <2>6. a \in Nat \ {0} /\ a = b /\ read[a].sym = Below(n)
    BY <2>2, <2>5, TerminalCovers
  <2>7. QED
    BY <2>1, <2>4, <2>5, <2>6
<1>4. ASSUME Below(0) = "input" \/ (Below(0) = "expr" /\ Below(1) = "(")
      PROVE  Consumed \in Nat \ {0} /\ read[Consumed].sym \in Ending
  <2>1. \E a \in Nat \ {0} :
          Consumed \in Nat /\ a <= Consumed /\ \E t : Derives(a, Consumed, 1, t)
    <3>1. CASE Below(0) = "input"
      <4>1. Consumed \in Nat \ {0} /\ 1 <= Consumed /\ Derives(1, Consumed, 1, TreeIn(nodes, root))
        BY <3>1, EndTree
      <4>2. QED
        BY <4>1
    <3>2. CASE Below(0) = "expr" /\ Below(1) = "("
      <4>1. PICK a \in Nat \ {0} :
              /\ Consumed \in Nat /\ a + 1 <= Consumed
              /\ Derives(a + 1, Consumed, 1, TreeIn(nodes, Val(0)))
        BY <3>2, OpenExpr
      <4>2. a + 1 \in Nat \ {0}
        OBVIOUS
      <4>3. QED
        BY <4>1, <4>2
    <3>3. QED
      BY <1>4, <3>1, <3>2
  <2>2. PICK a \in Nat \ {0} :
          Consumed \in Nat /\ a <= Consumed /\ \E t : Derives(a, Consumed, 1, t)
    BY <2>1
  <2>3. Agrees(read, Consumed) /\ Len(read) \in Nat /\ Consumed <= Len(read)
    BY ConsumedIs DEF Agrees
  <2>4. SpanTrees(read, a, Consumed) # {}
    BY <2>2, <2>3 DEF Derives
  <2>5. IsSpan(read, a, Consumed)
    BY <2>2, <2>3 DEF IsSpan
  <2>6. Proper(read, a, Consumed)
    BY <2>3, <2>4, <2>5, TreesProper
  <2>7. QED
    BY <2>2, <2>6 DEF Proper
<1>5. QED
  BY <1>2, <1>3, <1>4

LEMMA TreesSpan ==
  ASSUME NEW text, Len(text) \in Nat, Trees(text) # {}
  PROVE  Proper(text, 1, Len(text)) /\ Len(text) # 0
<1>1. SpanTrees(text, 1, Len(text)) # {}
  BY TreesAreSpan
<1>2. IsSpan(text, 1, Len(text))
  BY DEF IsSpan
<1>3. Proper(text, 1, Len(text))
  BY <1>1, <1>2, TreesProper
<1>4. QED
  BY <1>3 DEF Proper, Closed

\* What is on the top where no rule ends and the token read last does not fit.
LEMMA ErrorTop ==
  ASSUME IInv, ~Reducible, lookahead # NoToken
  PROVE  Below(0) \in Openings \/ Below(0) = "input" \/ (Below(0) = "expr" /\ Below(1) = "(")
<1>1. stack \in Seq(Symbol) /\ Shape(stack) /\ Len(stack) \in Nat /\ 0 \in Nat
  BY StackOf
<1>2. CASE Len(stack) > 0
  <2>1. MayStandOn(Below(0 + 1), Below(0)) /\ Below(0) \in Symbols
    BY <1>1, <1>2, TopShape, BelowIs
  <2>2. Below(0) # "junk"
    BY <2>1, SymbolSets DEF MayStandOn, Compares, Bitwises
  <2>3. Below(0) # "$end" /\ Below(0) \notin Leaves \cup {")"}
    BY StackOf DEF Closing
  <2>4. Below(0) \in Operators \cup {"(", "!"} \cup Nonterminals
    BY <2>1, <2>2, <2>3, SymbolKinds DEF Symbols
  <2>5. Below(0) \in Nonterminals => Below(0) = "input" \/ (Below(0) = "expr" /\ Below(1) = "(")
    BY SymbolKinds DEF Reducible
  <2>6. QED
    BY <2>4, <2>5 DEF Openings
<1>3. CASE ~(Len(stack) > 0)
  <2>1. Below(0) = "bottom"
    BY <1>3 DEF Below
  <2>2. QED
    BY <2>1 DEF Openings
<1>4. QED
  BY <1>2, <1>3

\* An expression is missing on the top, or its closing parenthesis.
LEMMA Unfinished ==
  ASSUME IInv, LookaheadInv, NEW p, Placed(p),
         Below(0) \in Openings \/ (Below(0) = "expr" /\ Below(1) = "("),
         NEW text, Agrees(text, Consumed), Len(text) = Consumed
  PROVE  Trees(text) = {}
<1>1. SUFFICES ASSUME Trees(text) # {} PROVE FALSE
  OBVIOUS
<1>2. Len(text) \in Nat /\ \A i \in 1 .. Len(text) : text[i] = read[i]
  BY DEF Agrees
<1>3. PICK n \in Nat : n = Len(text) /\ n = Consumed
  BY <1>2
<1>4. Proper(text, 1, n) /\ n # 0
  BY <1>1, <1>2, <1>3, TreesSpan
<1>5. text[n].sym \in Ending /\ Closed(text, 1, n) /\ text[n] = read[n]
  BY <1>2, <1>3, <1>4 DEF Proper
<1>6. CASE Below(0) = "bottom"
  BY <1>3, <1>4, <1>6, LastConsumed
<1>7. CASE Below(0) \in Operators \cup {"(", "!"}
  <2>1. read[n].sym \in Operators \cup {"(", "!"}
    BY <1>3, <1>7, LastConsumed
  <2>2. QED
    BY <1>5, <2>1, SymbolSets DEF Ending
<1>8. CASE Below(0) = "expr" /\ Below(1) = "("
  <2>1. PICK a \in Nat \ {0} :
          /\ read[a].sym = "(" /\ a + 1 <= n
          /\ Derives(a + 1, n, 1, TreeIn(nodes, Val(0)))
    BY <1>3, <1>8, OpenExpr
  <2>2. Good(text, a + 1, n, 1)
    BY <1>3, <2>1 DEF Derives
  <2>3. text[a].sym = "("
    BY <1>2, <1>3, <2>1
  <2>4. Depth(text, a) = Depth(text, a - 1) + 1 /\ Depth(text, a - 1) \in Int
    BY <2>3, DepthStep
  <2>5. Depth(text, n) = Depth(text, a)
    <3>1. PICK c : c = a + 1
      OBVIOUS
    <3>2. Depth(text, n) = Depth(text, c - 1)
      BY <2>2, <3>1 DEF Good, Closed
    <3>3. c - 1 = a
      BY <3>1
    <3>4. QED
      BY <3>2, <3>3
  <2>6. /\ Depth(text, n) = Depth(text, 1 - 1)
        /\ \A m \in 1 .. n : Depth(text, m) >= Depth(text, 1 - 1)
    BY <1>5 DEF Closed
  <2>7. Depth(text, 1 - 1) = 0
    <3>1. 1 - 1 = 0
      OBVIOUS
    <3>2. QED
      BY <3>1, DepthZero
  <2>8. Depth(text, a - 1) >= 0
    <3>1. CASE a = 1
      BY <2>7, <3>1
    <3>2. CASE a # 1
      <4>1. a - 1 \in 1 .. n
        BY <2>1, <3>2
      <4>2. QED
        BY <2>6, <2>7, <4>1
    <3>3. QED
      BY <3>1, <3>2
  <2>9. QED
    BY <2>4, <2>5, <2>6, <2>7, <2>8
<1>9. QED
  BY <1>6, <1>7, <1>8 DEF Openings

\* The token read last cannot be where it is.
LEMMA Refused ==
  ASSUME IInv, GrammarInv, phase = "parse", ~Reducible, lookahead # NoToken,
         lookahead.sym \notin Shiftable,
         NEW text, Agrees(text, Len(read))
  PROVE  Trees(text) = {}
<1>1. SUFFICES ASSUME Trees(text) # {} PROVE FALSE
  OBVIOUS
<1>2. LookaheadInv /\ WideInv
  BY DEF GrammarInv
<1>3. PICK p : Placed(p)
  BY DEF GrammarInv
<1>4. /\ Len(text) \in Nat /\ Consumed \in Nat /\ Consumed + 1 = Len(read) /\ Len(read) <= Len(text)
      /\ \A i \in 1 .. Len(read) : text[i] = read[i]
      /\ read[Consumed + 1] = lookahead
  BY <1>2, ConsumedIs DEF Agrees
<1>5. PICK b \in Nat, n \in Nat, e \in Nat : b = Consumed /\ n = Len(read) /\ e = Len(text)
  BY <1>4
<1>6. b + 1 = n /\ n <= e /\ (\A i \in 1 .. n : text[i] = read[i]) /\ text[n].sym = lookahead.sym
  BY <1>4, <1>5
<1>7. Proper(text, 1, e)
  BY <1>1, <1>4, <1>5, TreesSpan
<1>8. /\ text[1].sym \in Starting /\ (b # 0 => Adjacent(text[b].sym, text[n].sym))
      /\ (\A k \in 1 .. e : ~Chain(text, k, n)) /\ Closed(text, 1, e)
      /\ b # 0 => text[b] = read[b]
  <2>1. n \in 1 .. e
    BY <1>6
  <2>2. ASSUME b # 0 PROVE Adjacent(text[b].sym, text[n].sym) /\ text[b] = read[b]
    <3>1. b \in 1 .. e - 1 /\ b \in 1 .. n
      BY <1>6, <2>2
    <3>2. QED
      BY <1>6, <1>7, <3>1 DEF Proper
  <2>3. QED
    BY <1>7, <2>1, <2>2 DEF Proper
<1>9. CASE Below(0) \in Openings
  <2>1. lookahead.sym \notin Starting
    BY <1>9, ShiftableIs DEF Starting
  <2>2. CASE Below(0) = "bottom"
    <3>1. n = 1
      BY <1>2, <1>3, <1>5, <1>6, <2>2, LastConsumed
    <3>2. QED
      BY <1>6, <1>8, <2>1, <3>1
  <2>3. CASE Below(0) # "bottom"
    <3>1. b # 0 /\ read[b].sym \in Operators \cup {"(", "!"}
      BY <1>2, <1>3, <1>5, <1>9, <2>3, LastConsumed DEF Openings
    <3>2. QED
      BY <1>6, <1>8, <2>1, <3>1, SymbolSets DEF Adjacent, Ending
  <2>4. QED
    BY <2>2, <2>3
<1>10. CASE Below(0) = "input" \/ (Below(0) = "expr" /\ Below(1) = "(")
  <2>1. b # 0 /\ read[b].sym \in Ending
    BY <1>2, <1>3, <1>5, <1>10, LastConsumed
  <2>2. lookahead.sym \in Operators \cup {")"}
    BY <1>6, <1>8, <2>1, SymbolSets DEF Adjacent, Ending
  <2>3. Below(0) \in Wide /\ Below(0) \in {"expr", "input"}
    BY <1>10 DEF Wide
  <2>4. /\ lookahead.sym \notin Bitwises /\ lookahead.sym # "AND" /\ lookahead.sym # "OR"
        /\ lookahead.sym \in Compares => \E k \in 1 .. n : Chain(read, k, n)
    BY <1>2, <1>5, <2>3 DEF WideInv
  <2>5. CASE lookahead.sym \in Compares
    <3>1. PICK k \in 1 .. n : Chain(read, k, n)
      BY <2>4, <2>5
    <3>2. ASSUME NEW m \in 0 .. n PROVE Depth(text, m) = Depth(read, m)
      BY <1>6, SameDepth
    <3>3. k \in 1 .. e /\ k \in Nat /\ k < n /\ n - 1 \in 0 .. n /\ k \in 0 .. n
      BY <1>6, <3>1 DEF Chain
    <3>4. Depth(text, n - 1) = Depth(text, k)
      BY <3>1, <3>2, <3>3 DEF Chain
    <3>5. ASSUME NEW m \in k .. n - 1
          PROVE  /\ Depth(text, m) >= Depth(text, k)
                 /\ text[m].sym \in {"AND", "OR"} => Depth(text, m) # Depth(text, k)
      <4>1. m \in 0 .. n /\ m \in 1 .. n
        BY <3>3
      <4>2. Depth(text, m) = Depth(read, m) /\ text[m] = read[m] /\ Depth(text, k) = Depth(read, k)
        BY <1>6, <3>2, <3>3, <4>1
      <4>3. QED
        BY <3>1, <4>2 DEF Chain
    <3>6. text[k].sym \in Compares /\ text[n].sym \in Compares
      BY <1>6, <2>5, <3>1 DEF Chain
    <3>7. Chain(text, k, n)
      BY <3>3, <3>4, <3>5, <3>6 DEF Chain
    <3>8. QED
      BY <1>8, <3>3, <3>7
  <2>6. CASE lookahead.sym = ")"
    <3>1. Below(0) = "input"
      BY <1>10, <2>6, ShiftableIs
    <3>2. Derives(1, b, 1, TreeIn(nodes, root))
      BY <1>2, <1>3, <1>5, <3>1, EndTree
    <3>3. Agrees(text, b)
      BY <1>4, <1>5, <1>6 DEF Agrees
    <3>4. Closed(text, 1, b)
      BY <3>2, <3>3 DEF Derives, Good
    <3>5. Depth(text, b) = Depth(text, 1 - 1) /\ Depth(text, n) >= Depth(text, 1 - 1)
      <4>1. n \in 1 .. e
        BY <1>6
      <4>2. QED
        BY <1>8, <3>4, <4>1 DEF Closed
    <3>6. Depth(text, n) = Depth(text, n - 1) - 1 /\ Depth(text, n) \in Int /\ Depth(text, n - 1) \in Int
      <4>1. n \in Nat \ {0} /\ text[n].sym = ")"
        BY <1>6, <2>6
      <4>2. QED
        BY <4>1, DepthStep
    <3>7. n - 1 = b
      BY <1>6
    <3>8. QED
      BY <3>5, <3>6, <3>7
  <2>7. lookahead.sym \in Compares \cup {")"}
    BY <2>2, <2>4, PrecedenceIs
  <2>8. QED
    BY <2>5, <2>6, <2>7
<1>11. QED
  BY <1>9, <1>10, ErrorTop

LEMMA TextIs ==
  ASSUME IInv
  PROVE  /\ Len(read) # 0 /\ read[Len(read)].sym = "$end" => Text = Prefix
         /\ Len(read) # 0 /\ read[Len(read)].sym # "$end" => Text = read /\ Text # Prefix
         /\ Len(read) # 0 /\ read[Len(read)].sym = "$end" => Text # read
<1>1. read \in Seq(Tokens \cup {EndToken}) /\ Len(read) \in Nat
  BY DEF IInv, TokenInv
<1>2. Len(read) # 0 => read # <<>>
  BY <1>1
<1>3. ASSUME Len(read) # 0 PROVE Prefix # read
  <2>1. PICK l \in Nat : l = Len(read)
    BY <1>1
  <2>2. Len(Prefix) = l - 1
    BY <1>3, <2>1, PrefixIs
  <2>3. l - 1 # l
    OBVIOUS
  <2>4. QED
    BY <2>1, <2>2, <2>3
<1>4. QED
  BY <1>2, <1>3 DEF Text, Prefix

\* The prefix agrees with what was read.
LEMMA PrefixAgrees ==
  ASSUME IInv, Len(read) # 0
  PROVE  /\ Len(Prefix) \in Nat /\ Len(Prefix) + 1 = Len(read)
         /\ Agrees(Prefix, Len(Prefix))
<1>1. Len(read) \in Nat
  BY DEF IInv, TokenInv
<1>2. Len(Prefix) = Len(read) - 1 /\ Len(Prefix) \in Nat /\ \A i \in 1 .. Len(Prefix) : Prefix[i] = read[i]
  BY PrefixIs
<1>3. PICK m \in Nat : m = Len(Prefix)
  BY <1>2
<1>4. m <= m
  OBVIOUS
<1>5. QED
  BY <1>1, <1>2, <1>3, <1>4 DEF Agrees

\* What the whole of a text derives.
LEMMA WholeTree ==
  ASSUME NEW text, NEW n, n = Len(text), Agrees(text, n), NEW level, NEW tree, Derives(1, n, level, tree)
  PROVE  Trees(text) = {tree}
<1>1. Len(text) \in Nat
  BY DEF Agrees
<1>2. SpanTrees(text, 1, n) = {tree}
  BY DEF Derives
<1>3. QED
  BY <1>1, <1>2, TreesAreSpan

LEMMA AcceptTree ==
  ASSUME IInv, GrammarInv, Accept
  PROVE  root # 0 /\ Trees(Text) = {TreeOf(root)}
<1>1. phase = "parse" /\ Below(0) = "$end" /\ LookaheadInv
  BY DEF Accept, Parsing, GrammarInv
<1>2. PICK p : Placed(p)
  BY <1>1 DEF GrammarInv
<1>3. stack \in Seq(Symbol) /\ Len(stack) \in Nat /\ Shape(stack) /\ 0 \in Nat /\ 1 \in Nat /\ 2 \in Nat
  BY StackOf
<1>4. Len(stack) > 0
  BY <1>1, <1>3, BelowIs
<1>5. Below(1) = "input"
  <2>1. MayStandOn(Below(0 + 1), Below(0))
    BY <1>3, <1>4, TopShape
  <2>2. QED
    BY <1>1, <2>1, SymbolSets DEF MayStandOn, Compares, Bitwises
<1>6. Len(stack) > 1
  BY <1>3, <1>5, BelowIs
<1>7. Below(2) = "bottom"
  <2>1. MayStandOn(Below(1 + 1), Below(1))
    BY <1>3, <1>6, TopShape
  <2>2. QED
    BY <1>5, <2>1, SymbolSets DEF MayStandOn, Compares, Bitwises
<1>8. Len(stack) = 2
  <2>1. ~(Len(stack) > 2)
    BY <1>3, <1>7, BelowIs
  <2>2. PICK l \in Nat : l = Len(stack)
    BY <1>3
  <2>3. l > 1 /\ ~(l > 2)
    BY <1>6, <2>1, <2>2
  <2>4. l = 2
    BY <2>3
  <2>5. QED
    BY <2>2, <2>4
<1>9. stack[1].sym = "input" /\ stack[2].sym = "$end"
  BY <1>1, <1>5, <1>8 DEF Below
<1>10. lookahead = NoToken
  BY <1>1, StackOf DEF Closing
<1>11. PICK l \in Nat : l = Len(read) /\ l = Consumed
  BY <1>1, <1>10, ConsumedIs
<1>12. p[1] = 1 /\ p[3] = l + 1 /\ Covers(stack[1], p[1], p[2] - 1) /\ Covers(stack[2], p[2], p[3] - 1)
  <2>1. /\ p[1] = 1 /\ p[2 + 1] = l + 1
        /\ \A i \in 1 .. 2 : Covers(stack[i], p[i], p[i + 1] - 1)
    BY <1>2, <1>8, <1>11 DEF Placed
  <2>2. 1 + 1 = 2 /\ 2 + 1 = 3 /\ 1 \in 1 .. 2 /\ 2 \in 1 .. 2
    OBVIOUS
  <2>3. QED
    BY <2>1, <2>2
<1>13. p[2] = l /\ read[l].sym = "$end" /\ l # 0
  <2>1. PICK c, d : c = p[2] /\ d = p[3] - 1
    OBVIOUS
  <2>2. c \in Nat \ {0} /\ c = d /\ read[c].sym = "$end"
    BY <1>9, <1>12, <2>1, SymbolKinds DEF Covers
  <2>3. d = l
    BY <1>12, <2>1
  <2>4. QED
    BY <2>1, <2>2, <2>3
<1>14. root \in DOMAIN nodes /\ Derives(1, Len(Prefix), 1, TreeIn(nodes, root))
  <2>1. "input" \in Nonterminals /\ NodeOf(stack[1]) = root /\ LevelOf("input") = 1
    BY <1>9, LevelIs DEF NodeOf, Nonterminals
  <2>2. p[2] - 1 = Len(Prefix)
    <3>1. PICK m \in Nat : m = Len(Prefix) /\ m + 1 = l
      BY <1>11, <1>13, PrefixAgrees
    <3>2. l - 1 = m
      BY <3>1
    <3>3. QED
      BY <1>13, <3>1, <3>2
  <2>3. Covers(stack[1], 1, Len(Prefix))
    BY <1>12, <2>2
  <2>4. QED
    BY <1>9, <2>1, <2>3 DEF Covers
<1>15. Text = Prefix /\ Agrees(Prefix, Len(Prefix))
  BY <1>11, <1>13, TextIs, PrefixAgrees
<1>16. Trees(Text) = {TreeOf(root)}
  BY <1>14, <1>15, WholeTree, TreeOfIn
<1>17. root # 0
  BY <1>14, NodesGrown
<1>18. QED
  BY <1>16, <1>17

-----------------------------------------------------------------------------
(* What is on the stack can be completed: with an expression where one is  *)
(* missing, and with the parentheses that are open.                        *)

LEMMA CountBounds ==
  ASSUME NEW text, NEW s, NEW k \in Nat, NEW n \in Nat, k <= n
  PROVE  Count(text, s, k) \in Nat /\ Count(text, s, k) <= Count(text, s, n) /\ Count(text, s, n) <= n
         /\ Count(text, s, n) \in Nat
<1> DEFINE A == {i \in 1 .. k : text[i].sym = s}
           B == {i \in 1 .. n : text[i].sym = s}
<1>1. IsFiniteSet(1 .. n) /\ Cardinality(1 .. n) = n
  BY FS_Interval
<1>2. A \subseteq B /\ B \subseteq 1 .. n
  OBVIOUS
<1> HIDE DEF A, B
<1>3. IsFiniteSet(B) /\ Cardinality(B) <= n
  BY <1>1, <1>2, FS_Subset
<1>4. IsFiniteSet(A) /\ Cardinality(A) <= Cardinality(B)
  BY <1>2, <1>3, FS_Subset
<1>5. Cardinality(A) \in Nat /\ Cardinality(B) \in Nat
  BY <1>3, <1>4, FS_CardinalityType
<1>6. QED
  BY <1>3, <1>4, <1>5 DEF Count, A, B

\* The symbols of the stack and the tokens they cover, by place.
LEMMA PlaceCovers ==
  ASSUME IInv, LookaheadInv, NEW p, Placed(p), NEW m \in 1 .. Len(stack),
         NEW a, a = p[m], NEW c, c = p[m + 1]
  PROVE  /\ a \in Nat \ {0} /\ c \in Nat \ {0} /\ a <= c - 1 /\ c - 1 <= Consumed /\ Consumed \in Nat
         /\ stack[m] \in Symbol /\ m \in Nat \ {0} /\ SymAt(stack, m) = stack[m].sym
         /\ stack[m].sym \in Terminals => c = a + 1 /\ read[a].sym = stack[m].sym
         /\ stack[m].sym \in Nonterminals \ {"input"} =>
              Derives(a, c - 1, LevelOf(stack[m].sym), TreeIn(nodes, stack[m].val))
<1>1. stack \in Seq(Symbol) /\ Len(stack) \in Nat
  BY StackOf
<1>2. Covers(stack[m], a, c - 1) /\ m \in Nat \ {0} /\ stack[m] \in Symbol
  BY <1>1 DEF Placed
<1>3. a \in Nat \ {0} /\ c - 1 \in Nat /\ a <= c - 1 /\ c - 1 <= Consumed
  BY <1>2 DEF Covers
<1>4. c \in Nat \ {0}
  <2>1. CASE m = Len(stack)
    <3>1. c = Consumed + 1 /\ Consumed \in Nat
      BY <2>1, ConsumedIs DEF Placed
    <3>2. QED
      BY <3>1
  <2>2. CASE m # Len(stack)
    <3>1. m + 1 \in 1 .. Len(stack)
      BY <1>1, <2>2
    <3>2. Covers(stack[m + 1], p[m + 1], p[m + 1 + 1] - 1)
      BY <3>1 DEF Placed
    <3>3. QED
      BY <3>2 DEF Covers
  <2>3. QED
    BY <2>1, <2>2
<1>5. ASSUME stack[m].sym \in Terminals PROVE c = a + 1 /\ read[a].sym = stack[m].sym
  <2>1. a = c - 1 /\ read[a].sym = stack[m].sym
    BY <1>2, <1>5 DEF Covers
  <2>2. QED
    BY <1>3, <1>4, <2>1
<1>6. ASSUME stack[m].sym \in Nonterminals \ {"input"}
      PROVE  Derives(a, c - 1, LevelOf(stack[m].sym), TreeIn(nodes, stack[m].val))
  BY <1>2, <1>6 DEF Covers, NodeOf
<1>7. Consumed \in Nat
  BY ConsumedIs
<1>8. SymAt(stack, m) = stack[m].sym
  BY DEF SymAt
<1>9. QED
  BY <1>2, <1>3, <1>4, <1>5, <1>6, <1>7, <1>8

\* The precedence needed of what follows a symbol.
Needed(sym) ==
  CASE sym = "!" -> 5
    [] sym \in Operators -> Precedence[sym] + 1
    [] OTHER -> 1

LEMMA NeededIs ==
  /\ Needed("!") = 5 /\ Needed("(") = 1 /\ Needed("bottom") = 1
  /\ \A op \in Operators : Needed(op) = Precedence[op] + 1
  /\ Needed("OR") = 2 /\ Needed("AND") = 3
  /\ \A op \in Compares : Needed(op) = 4
  /\ \A op \in Bitwises : Needed(op) = 5
  /\ \A sym : Needed(sym) \in 1 .. 5
<1>1. Needed("!") = 5 /\ Needed("(") = 1 /\ Needed("bottom") = 1
  BY SymbolSets DEF Needed, Operators
<1>2. \A op \in Operators : Needed(op) = Precedence[op] + 1
  BY SymbolSets DEF Needed, Operators
<1>3. \A op \in Operators : Needed(op) \in 2 .. 5
  BY <1>2, PrecedenceIs
<1>4. \A sym : Needed(sym) \in 1 .. 5
  <2>1. ASSUME NEW sym PROVE Needed(sym) \in 1 .. 5
    <3>1. CASE sym \in Operators
      BY <1>3, <3>1
    <3>2. CASE sym \notin Operators
      BY <3>2 DEF Needed
    <3>3. QED
      BY <3>1, <3>2
  <2>2. QED
    BY <2>1
<1>5. Needed("OR") = 2 /\ Needed("AND") = 3
  BY <1>2, PrecedenceIs
<1>6. (\A op \in Compares : Needed(op) = 4) /\ \A op \in Bitwises : Needed(op) = 5
  <2>1. \A op \in Compares \cup Bitwises : op \in Operators
    BY PrecedenceIs
  <2>2. ASSUME NEW op \in Compares PROVE Needed(op) = 4
    <3>1. Needed(op) = Precedence[op] + 1
      BY <1>2, <2>1
    <3>2. Precedence[op] = 3
      BY PrecedenceIs
    <3>3. QED
      BY <3>1, <3>2
  <2>3. ASSUME NEW op \in Bitwises PROVE Needed(op) = 5
    <3>1. Needed(op) = Precedence[op] + 1
      BY <1>2, <2>1
    <3>2. Precedence[op] = 4
      BY PrecedenceIs
    <3>3. QED
      BY <3>1, <3>2
  <2>4. QED
    BY <2>2, <2>3
<1>7. QED
  BY <1>1, <1>2, <1>4, <1>5, <1>6

\* Where the expression after the first m symbols ends: before the parentheses
\* that close those open among them.
EndOf(text, m) == Len(text) - Count(stack, "(", m)

\* An expression after the first m symbols of the stack.
Fills(text, p, m) ==
  /\ SymAt(stack, m) \in Openings
  /\ \E a, e : /\ a = p[m + 1] /\ e = EndOf(text, m)
               /\ Good(text, a, e, Needed(SymAt(stack, m)))
               /\ SpanTrees(text, a, e) # {}

\* A text that goes on after what was consumed and ends with what closes the
\* open parentheses.
Closes(text) ==
  /\ Agrees(text, Consumed)
  /\ Consumed <= EndOf(text, Len(stack))
  /\ \A i \in 1 .. Len(text) : i > EndOf(text, Len(stack)) => text[i].sym = ")"

LEMMA EndOfIs ==
  ASSUME IInv, NEW text, Len(text) \in Nat, NEW m \in 1 .. Len(stack)
  PROVE  /\ EndOf(text, m) \in Int /\ EndOf(text, m - 1) \in Int
         /\ EndOf(text, m) >= EndOf(text, Len(stack))
         /\ stack[m].sym = "(" =>
              EndOf(text, m - 1) = EndOf(text, m) + 1 /\ EndOf(text, m) + 1 <= Len(text)
         /\ stack[m].sym # "(" => EndOf(text, m - 1) = EndOf(text, m)
<1>1. PICK l \in Nat, k \in Nat, n \in Nat : l = Len(stack) /\ k = m - 1 /\ m = k + 1 /\ n = Len(text)
  <2>1. PICK l \in Nat : l = Len(stack)
    BY StackOf
  <2>2. m \in 1 .. l
    BY <2>1
  <2>3. m - 1 \in Nat /\ m = m - 1 + 1
    BY <2>2
  <2>4. QED
    BY <2>1, <2>3
<1>2. m \in Nat /\ m <= l
  BY <1>1
<1>3. /\ Count(stack, "(", k) \in Nat
      /\ Count(stack, "(", m) = Count(stack, "(", k) + (IF stack[m].sym = "(" THEN 1 ELSE 0)
  <2>1. /\ Count(stack, "(", k) \in Nat
        /\ Count(stack, "(", k + 1) = Count(stack, "(", k) + (IF stack[k + 1].sym = "(" THEN 1 ELSE 0)
    BY CountNext, Zenon
  <2>2. k + 1 = m
    BY <1>1
  <2>3. QED
    BY <2>1, <2>2
<1>4. Count(stack, "(", m) \in Nat /\ Count(stack, "(", l) \in Nat /\ Count(stack, "(", m) <= Count(stack, "(", l)
  BY <1>2, CountBounds
<1>5. PICK u \in Nat, v \in Nat, w \in Nat :
        u = Count(stack, "(", k) /\ v = Count(stack, "(", m) /\ w = Count(stack, "(", l)
  BY <1>3, <1>4
<1>6. v = u + (IF stack[m].sym = "(" THEN 1 ELSE 0) /\ v <= w
  BY <1>3, <1>4, <1>5
<1>7. EndOf(text, m) = n - v /\ EndOf(text, m - 1) = n - u /\ EndOf(text, Len(stack)) = n - w
  BY <1>1, <1>5 DEF EndOf
<1>8. QED
  BY <1>1, <1>6, <1>7

\* What an operator on the stack stands on.
LEMMA OperandBelow ==
  ASSUME NEW op \in Operators, NEW s, MayStandOn(s, op), NEW r, MayStandOn(r, s), MayFollow(r, op)
  PROVE  /\ s \in Nonterminals \ {"input"} /\ s # "("
         /\ LevelOf(s) \in Nat /\ Precedence[op] \in Nat /\ Precedence[op] \in 1 .. 4
         /\ LevelOf(s) >= Precedence[op] /\ (op \in Compares => LevelOf(s) > Precedence[op])
         /\ r \in Openings /\ Needed(r) <= Precedence[op]
<1>1. CASE op = "OR"
  <2>1. s = "or_expr"
    BY <1>1, SymbolSets DEF MayStandOn, Compares, Bitwises
  <2>2. r \in {"bottom", "("}
    BY <2>1, SymbolSets DEF MayStandOn, Compares, Bitwises
  <2>3. Needed(r) = 1 /\ LevelOf(s) = 1 /\ Precedence[op] = 1 /\ op \notin Compares
    BY <1>1, <2>1, <2>2, NeededIs, LevelIs, PrecedenceIs
  <2>4. QED
    BY <2>1, <2>2, <2>3 DEF Nonterminals, Openings
<1>2. CASE op = "AND"
  <2>1. s = "and_expr"
    BY <1>2, SymbolSets DEF MayStandOn, Compares, Bitwises
  <2>2. r \in {"bottom", "(", "OR"}
    BY <2>1, SymbolSets DEF MayStandOn, Compares, Bitwises
  <2>3. LevelOf(s) = 2 /\ Precedence[op] = 2 /\ op \notin Compares
    BY <1>2, <2>1, LevelIs, PrecedenceIs
  <2>4. Needed(r) \in 1 .. 2
    BY <2>2, NeededIs
  <2>5. r \in Openings
    BY <2>2, PrecedenceIs DEF Openings
  <2>6. QED
    BY <2>1, <2>3, <2>4, <2>5 DEF Nonterminals
<1>3. CASE op \in Compares \cup Bitwises
  <2>1. s = "bitwise_expr"
    BY <1>3, SymbolSets DEF MayStandOn, Compares, Bitwises
  <2>2. r \in {"bottom", "(", "AND", "OR"} \cup Compares
    BY <2>1, SymbolSets DEF MayStandOn, Compares, Bitwises
  <2>3. LevelOf(s) = 4
    BY <2>1, LevelIs
  <2>4. r \in Openings
    BY <2>2, PrecedenceIs DEF Openings
  <2>5. CASE op \in Compares
    <3>1. r \in {"bottom", "(", "AND", "OR"}
      BY <2>2, <2>5 DEF MayFollow
    <3>2. Needed(r) \in 1 .. 3
      BY <3>1, NeededIs
    <3>3. Precedence[op] = 3
      BY <2>5, PrecedenceIs
    <3>4. QED
      BY <2>1, <2>3, <2>4, <3>2, <3>3 DEF Nonterminals
  <2>6. CASE op \in Bitwises
    <3>1. Needed(r) \in 1 .. 4
      <4>1. r \in Compares => Needed(r) = 4
        BY NeededIs
      <4>2. r \in {"bottom", "(", "AND", "OR"} => Needed(r) \in 1 .. 3
        BY NeededIs
      <4>3. QED
        BY <2>2, <4>1, <4>2
    <3>2. Precedence[op] = 4 /\ op \notin Compares
      BY <2>6, PrecedenceIs
    <3>3. QED
      BY <2>1, <2>3, <2>4, <3>1, <3>2 DEF Nonterminals
  <2>7. QED
    BY <1>3, <2>5, <2>6
<1>4. QED
  BY <1>1, <1>2, <1>3, PrecedenceIs

LEMMA FillsFrom ==
  ASSUME NEW text, NEW p, NEW n, SymAt(stack, n) \in Openings, NEW a, a = p[n + 1], NEW e, e = EndOf(text, n),
         NEW g \in Nat, Good(text, a, e, g), Needed(SymAt(stack, n)) <= g, SpanTrees(text, a, e) # {}
  PROVE  Fills(text, p, n)
<1>1. PICK h \in Nat : h = Needed(SymAt(stack, n))
  BY NeededIs
<1>2. h <= g
  BY <1>1
<1>3. Good(text, a, e, h)
  BY <1>2, GoodWeaker
<1>4. QED
  BY <1>1, <1>3 DEF Fills

\* The same, of a prefix operator, an open parenthesis and a binary operator.
LEMMA FillsNot ==
  ASSUME IInv, LookaheadInv, NEW p, Placed(p), NEW text, Closes(text),
         NEW m \in 1 .. Len(stack), stack[m].sym = "!", Fills(text, p, m)
  PROVE  Fills(text, p, m - 1)
<1>1. PICK a, c : a = p[m] /\ c = p[m + 1]
  OBVIOUS
<1>2. /\ a \in Nat \ {0} /\ c = a + 1 /\ c - 1 <= Consumed /\ Consumed \in Nat
      /\ read[a].sym = "!" /\ m \in Nat \ {0} /\ SymAt(stack, m) = "!"
  BY <1>1, PlaceCovers, SymbolKinds
<1>3. Len(text) \in Nat /\ a <= Consumed /\ text[a] = read[a]
  <2>1. a \in 1 .. Consumed
    BY <1>2
  <2>2. QED
    BY <1>2, <2>1 DEF Closes, Agrees
<1>4. PICK e : e = EndOf(text, m) /\ Good(text, c, e, 5) /\ SpanTrees(text, c, e) # {}
  BY <1>1, <1>2, NeededIs DEF Fills
<1>5. Good(text, a, e, 5) /\ SpanTrees(text, a, e) = Negated(SpanTrees(text, a + 1, e))
  BY <1>2, <1>3, <1>4, GoodNot
<1>6. SpanTrees(text, a, e) # {}
  BY <1>2, <1>4, <1>5, NegatedEmpty
<1>7. e = EndOf(text, m - 1)
  BY <1>2, <1>3, <1>4, EndOfIs DEF SymAt
<1>8. SymAt(stack, m - 1) \in Openings
  <2>1. MayStandOn(SymAt(stack, m - 1), "!")
    BY StackOf DEF Shape
  <2>2. QED
    BY <2>1, SymbolSets DEF MayStandOn, Compares, Bitwises
<1>9. a = p[m - 1 + 1] /\ 5 \in Nat /\ Needed(SymAt(stack, m - 1)) <= 5
  <2>1. m - 1 + 1 = m
    BY <1>2
  <2>2. QED
    BY <1>1, <2>1, NeededIs
<1>10. QED
  BY <1>5, <1>6, <1>7, <1>8, <1>9, FillsFrom

LEMMA FillsParens ==
  ASSUME IInv, LookaheadInv, NEW p, Placed(p), NEW text, Closes(text),
         NEW m \in 1 .. Len(stack), stack[m].sym = "(", Fills(text, p, m)
  PROVE  Fills(text, p, m - 1)
<1>1. PICK a, c : a = p[m] /\ c = p[m + 1]
  OBVIOUS
<1>2. /\ a \in Nat \ {0} /\ c = a + 1 /\ c - 1 <= Consumed /\ Consumed \in Nat
      /\ read[a].sym = "(" /\ m \in Nat \ {0} /\ SymAt(stack, m) = "("
  BY <1>1, PlaceCovers, SymbolKinds
<1>3. Len(text) \in Nat /\ a <= Consumed /\ text[a] = read[a]
  <2>1. a \in 1 .. Consumed
    BY <1>2
  <2>2. QED
    BY <1>2, <2>1 DEF Closes, Agrees
<1>4. PICK e : e = EndOf(text, m) /\ Good(text, c, e, 1) /\ SpanTrees(text, c, e) # {}
  BY <1>1, <1>2, NeededIs DEF Fills
<1>5. PICK f \in Int, h \in Nat :
        /\ f = EndOf(text, Len(stack)) /\ h = EndOf(text, m - 1) /\ h = e + 1 /\ e \in Nat
        /\ e >= f /\ h <= Len(text) /\ h - 1 = e
  <2>1. e \in Nat
    BY <1>4 DEF Good, Closed
  <2>2. /\ EndOf(text, m - 1) = e + 1 /\ e >= EndOf(text, Len(stack)) /\ e + 1 <= Len(text)
    BY <1>2, <1>3, <1>4, EndOfIs DEF SymAt
  <2>3. EndOf(text, Len(stack)) \in Int
    <3>1. Len(stack) \in 1 .. Len(stack)
      BY StackOf
    <3>2. QED
      BY <1>3, <3>1, EndOfIs
  <2>4. e + 1 \in Nat /\ e + 1 - 1 = e
    BY <2>1
  <2>5. PICK f \in Int : f = EndOf(text, Len(stack))
    BY <2>3
  <2>6. PICK h \in Nat : h = e + 1 /\ h - 1 = e
    BY <2>1, <2>4
  <2>7. h = EndOf(text, m - 1) /\ e >= f /\ h <= Len(text)
    BY <2>2, <2>5, <2>6
  <2>8. QED
    BY <2>1, <2>5, <2>6, <2>7
<1>6. text[h].sym = ")"
  <2>1. h \in 1 .. Len(text) /\ h > f
    BY <1>3, <1>5
  <2>2. QED
    BY <1>5, <2>1 DEF Closes
<1>7. Closed(text, a + 1, h - 1)
  BY <1>2, <1>4, <1>5 DEF Good
<1>8. Good(text, a, h, 5) /\ SpanTrees(text, a, h) = SpanTrees(text, a + 1, h - 1)
  BY <1>2, <1>3, <1>5, <1>6, <1>7, GoodParens
<1>9. SpanTrees(text, a, h) # {}
  BY <1>2, <1>4, <1>5, <1>8
<1>10. SymAt(stack, m - 1) \in Openings
  <2>1. MayStandOn(SymAt(stack, m - 1), "(")
    BY StackOf DEF Shape
  <2>2. QED
    BY <2>1, SymbolSets DEF MayStandOn, Compares, Bitwises
<1>11. a = p[m - 1 + 1] /\ 5 \in Nat /\ Needed(SymAt(stack, m - 1)) <= 5
  <2>1. m - 1 + 1 = m
    BY <1>2
  <2>2. QED
    BY <1>1, <2>1, NeededIs
<1>12. QED
  BY <1>5, <1>8, <1>9, <1>10, <1>11, FillsFrom

LEMMA FillsOperand ==
  ASSUME IInv, LookaheadInv, NEW p, Placed(p), NEW text, Closes(text),
         NEW m \in 1 .. Len(stack), stack[m].sym \in Operators, Fills(text, p, m)
  PROVE  m - 2 \in Nat /\ Fills(text, p, m - 2)
<1>1. PICK a, c, op : a = p[m] /\ c = p[m + 1] /\ op = stack[m].sym /\ op \in Operators
  OBVIOUS
<1>2. /\ a \in Nat \ {0} /\ c = a + 1 /\ c - 1 <= Consumed /\ Consumed \in Nat
      /\ read[a].sym = op /\ m \in Nat \ {0} /\ SymAt(stack, m) = op
  BY <1>1, PlaceCovers, SymbolKinds
<1>3. Len(text) \in Nat /\ a <= Consumed /\ Consumed <= Len(text) /\ text[a].sym = op
      /\ \A i \in 1 .. Consumed : text[i] = read[i]
  <2>1. a \in 1 .. Consumed
    BY <1>2
  <2>2. QED
    BY <1>2, <2>1 DEF Closes, Agrees
<1>4. PICK k, s, r : k = m - 1 /\ s = SymAt(stack, m - 1) /\ r = SymAt(stack, m - 2)
  OBVIOUS
<1>5. MayStandOn(s, op) /\ MayFollow(r, op)
  BY <1>1, <1>4, StackOf DEF Shape
<1>6. k \in 1 .. Len(stack) /\ s = stack[k].sym
  <2>1. s \in {"or_expr", "and_expr", "bitwise_expr"}
    <3>1. CASE op \in {"OR", "AND"}
      BY <1>5, <3>1, SymbolSets DEF MayStandOn, Compares, Bitwises
    <3>2. CASE op \in Compares \cup Bitwises
      BY <1>5, <3>2, SymbolSets DEF MayStandOn, Compares, Bitwises
    <3>3. QED
      BY <1>1, <3>1, <3>2, PrecedenceIs
  <2>2. QED
    BY <1>4, <2>1 DEF SymAt
<1>7. k \in Nat \ {0} /\ k + 1 = m /\ k - 1 = m - 2 /\ m - 2 \in Nat /\ m - 2 + 1 = k
  BY <1>2, <1>4, <1>6
<1>8. MayStandOn(r, s)
  <2>1. MayStandOn(SymAt(stack, k - 1), stack[k].sym)
    BY <1>6, StackOf DEF Shape
  <2>2. QED
    BY <1>4, <1>6, <1>7, <2>1
<1>9. PICK q \in Nat, g \in Nat :
        /\ q = LevelOf(s) /\ g = Precedence[op] /\ g \in 1 .. 4 /\ q >= g /\ (op \in Compares => q > g)
        /\ s \in Nonterminals \ {"input"} /\ s # "(" /\ r \in Openings /\ Needed(r) <= g
  BY <1>1, <1>5, <1>8, OperandBelow
<1>10. PICK i : i = p[k]
  OBVIOUS
<1>11. i \in Nat \ {0} /\ a - 1 <= Consumed /\ \E t : Derives(i, a - 1, q, t)
  BY <1>1, <1>6, <1>7, <1>9, <1>10, PlaceCovers
<1>12. Good(text, i, a - 1, q) /\ SpanTrees(text, i, a - 1) # {}
  <2>1. Agrees(text, a - 1)
    <3>1. a - 1 <= Len(text) /\ \A n \in 1 .. a - 1 : n \in 1 .. Consumed
      BY <1>2, <1>3
    <3>2. QED
      BY <1>3, <3>1 DEF Agrees
  <2>2. QED
    BY <1>11, <2>1 DEF Derives
<1>13. PICK e : e = EndOf(text, m) /\ Good(text, c, e, g + 1) /\ SpanTrees(text, c, e) # {}
  BY <1>1, <1>2, <1>9, NeededIs DEF Fills
<1>14. Joinable(text, i, e, a, g, q)
  <2>1. a \in Nat /\ g = Precedence[text[a].sym] /\ text[a].sym \in Operators
    BY <1>1, <1>2, <1>3, <1>9
  <2>2. q >= g /\ (text[a].sym \in Compares => q > g)
    BY <1>3, <1>9
  <2>3. Good(text, i, a - 1, q) /\ Good(text, a + 1, e, g + 1)
    BY <1>2, <1>12, <1>13
  <2>4. QED
    BY <2>1, <2>2, <2>3 DEF Joinable
<1>15. /\ Good(text, i, e, g)
       /\ SpanTrees(text, i, e) = Joined(op, SpanTrees(text, i, a - 1), SpanTrees(text, a + 1, e))
  BY <1>3, <1>14, GoodJoin
<1>16. SpanTrees(text, i, e) # {}
  BY <1>2, <1>12, <1>13, <1>15, JoinedEmpty
<1>17. e = EndOf(text, m - 2)
  <2>1. op # "("
    BY <1>1, PrecedenceIs
  <2>2. EndOf(text, m - 1) = EndOf(text, m)
    BY <1>1, <1>3, <2>1, EndOfIs
  <2>3. EndOf(text, k - 1) = EndOf(text, k)
    BY <1>3, <1>6, <1>9, EndOfIs
  <2>4. QED
    BY <1>4, <1>7, <1>13, <2>2, <2>3
<1>18. QED
  BY <1>4, <1>7, <1>9, <1>10, <1>15, <1>16, <1>17, FillsFrom

\* The symbols are taken from the top, until the bottom is reached.
LEMMA Completed ==
  ASSUME IInv, LookaheadInv, NEW p, Placed(p), NEW text, Closes(text),
         NEW m \in 0 .. Len(stack), Fills(text, p, m)
  PROVE  Trees(text) # {}
<1> DEFINE T == {k \in 0 .. Len(stack) : Fills(text, p, k)}
<1>1. stack \in Seq(Symbol) /\ Len(stack) \in Nat /\ Len(text) \in Nat
  BY StackOf DEF Closes, Agrees
<1>2. T \in SUBSET Nat /\ T # {}
  BY <1>1
<1>3. PICK x \in T : \A y \in T : x <= y
  BY <1>2, LeastNatural
<1>4. x \in Nat /\ x <= Len(stack) /\ Fills(text, p, x)
  BY <1>1
<1>5. \A k \in Nat : k <= Len(stack) /\ Fills(text, p, k) => x <= k
  <2>1. ASSUME NEW k \in Nat, k <= Len(stack), Fills(text, p, k) PROVE k \in T
    BY <1>1, <2>1
  <2>2. QED
    BY <1>3, <2>1
<1> HIDE DEF T
<1>6. ASSUME x # 0 PROVE FALSE
  <2>1. PICK k : k = x - 1
    OBVIOUS
  <2>2. PICK j : j = x - 2
    OBVIOUS
  <2>3. /\ x \in 1 .. Len(stack) /\ k \in Nat /\ k <= Len(stack) /\ ~(x <= k)
        /\ j \in Nat => j <= Len(stack) /\ ~(x <= j)
    BY <1>1, <1>4, <1>6, <2>1, <2>2
  <2>4. ~Fills(text, p, k) /\ ~(j \in Nat /\ Fills(text, p, j))
    BY <1>5, <2>3
  <2>5. SymAt(stack, x) \in Openings
    BY <1>4 DEF Fills
  <2>6. SymAt(stack, x) = stack[x].sym /\ stack[x].sym # "bottom"
    <3>1. stack[x] \in Symbol
      BY <1>1, <2>3
    <3>2. QED
      BY <2>3, <3>1, SymbolKinds DEF SymAt, Symbol
  <2>7. CASE stack[x].sym = "!"
    BY <1>4, <2>1, <2>3, <2>4, <2>7, FillsNot
  <2>8. CASE stack[x].sym = "("
    BY <1>4, <2>1, <2>3, <2>4, <2>8, FillsParens
  <2>9. CASE stack[x].sym \in Operators
    BY <1>4, <2>2, <2>3, <2>4, <2>9, FillsOperand
  <2>10. QED
    BY <2>5, <2>6, <2>7, <2>8, <2>9 DEF Openings
<1>7. PICK a, e : a = p[0 + 1] /\ e = EndOf(text, 0) /\ SpanTrees(text, a, e) # {}
  BY <1>4, <1>6 DEF Fills
<1>8. a = 1
  BY <1>7 DEF Placed
<1>9. e = Len(text)
  <2>1. Count(stack, "(", 0) = 0
    BY NoneCounted
  <2>2. QED
    BY <1>1, <1>7, <2>1 DEF EndOf
<1>10. QED
  BY <1>1, <1>7, <1>8, <1>9, TreesAreSpan

\* A text that goes on where parsing stopped.
LEMMA Continued ==
  ASSUME IInv, LookaheadInv, NEW p, Placed(p), NEW text, Closes(text),
         NEW e, e = EndOf(text, Len(stack)),
         \/ Below(0) \in Openings /\ e = Consumed + 1 /\ text[e].sym = "IDENT"
         \/ Below(0) = "expr" /\ Below(1) = "(" /\ e = Consumed
  PROVE  Trees(text) # {}
<1>1. stack \in Seq(Symbol) /\ Len(stack) \in Nat /\ Len(text) \in Nat /\ 0 \in Nat /\ 1 \in Nat
  BY StackOf DEF Closes, Agrees
<1>2. Consumed \in Nat /\ \A i \in 1 .. Consumed : text[i] = read[i]
  BY ConsumedIs DEF Closes, Agrees
<1>3. PICK l \in Nat : l = Len(stack) /\ l - 0 = l /\ l \in 0 .. l
  <2>1. PICK l \in Nat : l = Len(stack)
    BY <1>1
  <2>2. l - 0 = l /\ l \in 0 .. l
    OBVIOUS
  <2>3. QED
    BY <2>1, <2>2
<1>4. CASE Below(0) \in Openings /\ e = Consumed + 1 /\ text[e].sym = "IDENT"
  <2>1. SymAt(stack, l) \in Openings
    BY <1>1, <1>3, <1>4, BelowIs
  <2>2. e \in 1 .. Len(text)
    <3>1. Count(stack, "(", l) \in Nat
      <4>1. l <= l
        OBVIOUS
      <4>2. QED
        BY <4>1, CountBounds
    <3>2. e <= Len(text)
      BY <1>1, <1>3, <3>1 DEF EndOf
    <3>3. QED
      BY <1>1, <1>2, <1>4, <3>2
  <2>3. "IDENT" \in Leaves
    BY SymbolSets
  <2>4. Good(text, e, e, 5) /\ SpanTrees(text, e, e) # {}
    <3>1. text[e].sym \in Leaves
      BY <1>4, <2>3
    <3>2. Good(text, e, e, 5) /\ \E t : SpanTrees(text, e, e) = {t}
      BY <1>1, <2>2, <3>1, GoodLeaf
    <3>3. QED
      BY <3>2
  <2>5. e = p[l + 1] /\ e = EndOf(text, l)
    BY <1>3, <1>4 DEF Placed
  <2>6. 5 \in Nat /\ Needed(SymAt(stack, l)) <= 5
    BY NeededIs
  <2>7. Fills(text, p, l)
    BY <2>1, <2>4, <2>5, <2>6, FillsFrom
  <2>8. QED
    BY <1>3, <2>7, Completed
<1>5. CASE Below(0) = "expr" /\ Below(1) = "(" /\ e = Consumed
  <2>1. PICK a, c : c = a + 1 /\ a = p[l - 1] /\ c = p[l] /\ Derives(c, e, 1, TreeIn(nodes, Val(0)))
    BY <1>3, <1>5, OpenExpr
  <2>2. Good(text, c, e, 1) /\ SpanTrees(text, c, e) # {}
    BY <1>5, <2>1 DEF Derives, Closes
  <2>3. PICK n : n = l - 1
    OBVIOUS
  <2>4. l > 1
    BY <1>1, <1>3, <1>5, BelowIs
  <2>5. n + 1 = l /\ n \in 0 .. l /\ l \in 1 .. l /\ n = Len(stack) - 1
    BY <1>3, <2>3, <2>4
  <2>6. SymAt(stack, n) = "("
    BY <1>1, <1>5, <2>5, BelowIs
  <2>7. stack[l].sym = "expr"
    BY <1>3, <1>5, <2>4, BelowIs, <1>1
  <2>8. e = EndOf(text, n)
    BY <1>1, <1>3, <2>3, <2>5, <2>7, EndOfIs
  <2>9. 1 \in Nat /\ Needed("(") <= 1 /\ "(" \in Openings
    BY NeededIs DEF Openings
  <2>10. Fills(text, p, n)
    BY <2>1, <2>2, <2>5, <2>6, <2>8, <2>9, FillsFrom
  <2>11. QED
    BY <1>3, <2>5, <2>10, Completed
<1>6. QED
  BY <1>4, <1>5

Parens(n) == [i \in 1 .. n |-> [sym |-> ")", value |-> 0]]
Ident     == [sym |-> "IDENT", value |-> 0]
AnyToken  == Tokens \cup {EndToken, Ident, [sym |-> ")", value |-> 0]}

LEMMA EndingsAre ==
  ASSUME NEW n \in 0 .. MaxTokens
  PROVE  /\ Parens(n) \in Completions /\ Parens(n) \in Seq(AnyToken) /\ Len(Parens(n)) = n
         /\ \A i \in 1 .. n : Parens(n)[i].sym = ")"
         /\ <<Ident>> \o Parens(n) \in Completions /\ <<Ident>> \o Parens(n) \in Seq(AnyToken)
         /\ Len(<<Ident>> \o Parens(n)) = n + 1
         /\ (<<Ident>> \o Parens(n))[1].sym = "IDENT"
         /\ \A i \in 2 .. n + 1 : (<<Ident>> \o Parens(n))[i].sym = ")"
<1>1. Parens(n) \in Endings
  BY DEF Parens, Endings
<1>2. PICK t : t = [sym |-> ")", value |-> 0] /\ t.sym = ")" /\ t \in AnyToken
  BY DEF AnyToken
<1>3. n \in Nat
  BY ParserAssumption
<1>4. PICK s : s = Parens(n)
  OBVIOUS
<1>5. s = [i \in 1 .. n |-> t]
  BY <1>2, <1>4 DEF Parens
<1>6. s \in Seq(AnyToken) /\ Len(s) = n /\ \A i \in 1 .. n : s[i] = t
  BY <1>2, <1>3, <1>5
<1>7. PICK u : u = Ident /\ u.sym = "IDENT" /\ u \in AnyToken
  BY DEF AnyToken, Ident
<1>8. /\ <<u>> \o s \in Seq(AnyToken) /\ Len(<<u>> \o s) = n + 1 /\ (<<u>> \o s)[1] = u
      /\ \A i \in 2 .. n + 1 : (<<u>> \o s)[i] = t
  <2>1. <<u>> \in Seq(AnyToken) /\ Len(<<u>>) = 1 /\ <<u>>[1] = u
    BY <1>7
  <2>2. <<u>> \o s \in Seq(AnyToken) /\ Len(<<u>> \o s) = 1 + n
    BY <1>3, <1>6, <2>1
  <2>3. (<<u>> \o s)[1] = u
    BY <1>3, <1>6, <2>1
  <2>4. ASSUME NEW i \in 2 .. n + 1 PROVE (<<u>> \o s)[i] = t
    <3>1. i - 1 \in 1 .. n /\ i \in 1 .. 1 + n /\ ~(i <= 1)
      BY <1>3
    <3>2. (<<u>> \o s)[i] = s[i - 1]
      BY <1>3, <1>6, <2>1, <3>1
    <3>3. QED
      BY <1>6, <3>1, <3>2
  <2>5. QED
    BY <1>3, <2>2, <2>3, <2>4
<1>9. <<Ident>> \o Parens(n) \in Completions /\ Parens(n) \in Completions
  BY <1>1 DEF Completions, Ident
<1>10. QED
  BY <1>2, <1>4, <1>6, <1>7, <1>8, <1>9

\* A text that begins with the first n tokens and goes on with an ending.
Follows(text, n, ending) ==
  /\ Len(text) = n + Len(ending) /\ Len(text) \in Nat /\ Agrees(text, n)
  /\ \A i \in 1 .. Len(ending) : text[n + i] = ending[i]

LEMMA PrefixThen ==
  ASSUME IInv, Len(read) # 0, NEW ending \in Seq(AnyToken),
         NEW n \in Nat, n = Len(Prefix), NEW t, t = Prefix \o ending
  PROVE  Follows(t, n, ending)
<1>1. /\ Prefix \in Seq(Tokens \cup {EndToken})
      /\ \A i \in 1 .. n : Prefix[i] = read[i]
  BY PrefixIs
<1>2. PICK s : s = Prefix
  OBVIOUS
<1>3. s \in Seq(AnyToken) /\ Len(s) = n /\ t = s \o ending /\ \A i \in 1 .. n : s[i] = read[i]
  BY <1>1, <1>2 DEF AnyToken
<1>4. PICK k \in Nat : k = Len(ending)
  OBVIOUS
<1>5. t \in Seq(AnyToken) /\ Len(t) = n + k
  BY <1>3, <1>4, ConcatProperties
<1>6. ASSUME NEW i \in 1 .. n + k PROVE t[i] = IF i <= n THEN s[i] ELSE ending[i - n]
  <2>1. i \in 1 .. Len(s) + Len(ending)
    BY <1>3, <1>4
  <2>2. (s \o ending)[i] = IF i <= Len(s) THEN s[i] ELSE ending[i - Len(s)]
    BY <1>3, <2>1, ConcatProperties
  <2>3. QED
    BY <1>3, <2>2
<1>7. ASSUME NEW i \in 1 .. k PROVE t[n + i] = ending[i]
  <2>1. PICK j : j = n + i
    OBVIOUS
  <2>2. j \in 1 .. n + k /\ ~(j <= n) /\ j - n = i
    BY <2>1
  <2>3. t[j] = ending[j - n]
    BY <1>6, <2>2
  <2>4. QED
    BY <2>1, <2>2, <2>3
<1>8. QED
  <2>1. ASSUME NEW i \in 1 .. n PROVE t[i] = read[i]
    <3>1. i \in 1 .. n + k /\ i <= n
      OBVIOUS
    <3>2. QED
      BY <1>3, <1>6, <3>1
  <2>2. n <= n + k /\ n + k \in Nat
    OBVIOUS
  <2>3. QED
    BY <1>4, <1>5, <1>7, <2>1, <2>2 DEF Agrees, Follows

\* The stack is no longer than what was consumed.
LEMMA StackFits ==
  ASSUME IInv, LookaheadInv, NEW p, Placed(p)
  PROVE  Len(stack) <= Consumed
<1>1. PICK l \in Nat : l = Len(stack)
  BY StackOf
<1>2. Consumed \in Nat
  BY ConsumedIs
<1>3. CASE l # 0
  <2>1. l \in 1 .. Len(stack)
    BY <1>1, <1>3
  <2>2. PICK a, c : a = p[l] /\ c = p[l + 1]
    OBVIOUS
  <2>3. a <= c - 1 /\ a \in Nat /\ c \in Nat /\ c - 1 <= Consumed
    BY <2>1, <2>2, PlaceCovers
  <2>4. a >= l
    BY <2>1, <2>2 DEF Placed
  <2>5. l <= Consumed
    BY <1>2, <2>3, <2>4
  <2>6. QED
    BY <1>1, <2>5
<1>4. QED
  BY <1>1, <1>2, <1>3

\* What was read before the token that does not fit starts an expression.
LEMMA PrefixStarts ==
  ASSUME IInv, GrammarInv, SyntaxError
  PROVE  Len(read) # 0 /\ Consumed = Len(Prefix) /\ IsStart(Prefix)
<1>1. phase = "parse" /\ ~Reducible /\ lookahead # NoToken /\ LookaheadInv
  BY DEF SyntaxError, Parsing, GrammarInv
<1>2. PICK p : Placed(p)
  BY <1>1 DEF GrammarInv
<1>3. Len(read) # 0 /\ Consumed + 1 = Len(read) /\ Len(read) <= MaxTokens + 1 /\ Consumed \in Nat
  BY <1>1, ConsumedIs DEF LookaheadInv, IInv, TokenInv
<1>4. Len(Prefix) + 1 = Len(read) /\ Len(Prefix) \in Nat
  BY <1>3, PrefixAgrees
<1>5. PICK n \in Nat : n = Consumed /\ n = Len(Prefix) /\ n <= MaxTokens
  BY <1>3, <1>4, ParserAssumption
<1>6. PICK l \in Nat : l = Len(stack) /\ l <= n
  BY <1>1, <1>2, <1>5, StackOf, StackFits
<1>7. PICK d \in 0 .. MaxTokens : d = Count(stack, "(", l) /\ d \in Nat
  <2>1. Count(stack, "(", l) \in Nat /\ Count(stack, "(", l) <= l
    <3>1. l <= l
      OBVIOUS
    <3>2. QED
      BY <3>1, CountBounds
  <2>2. QED
    BY <1>5, <1>6, <2>1, ParserAssumption
<1>8. CASE Below(0) \in Openings
  <2>1. PICK ending \in Seq(AnyToken) :
          /\ ending \in Completions /\ Len(ending) = d + 1 /\ ending[1].sym = "IDENT"
          /\ \A i \in 2 .. d + 1 : ending[i].sym = ")"
    BY EndingsAre
  <2>2. PICK t : t = Prefix \o ending
    OBVIOUS
  <2>3. /\ Len(t) = n + Len(ending) /\ Agrees(t, n)
        /\ \A i \in 1 .. Len(ending) : t[n + i] = ending[i]
    <3>1. Follows(t, n, ending)
      BY <1>3, <1>5, <2>2, PrefixThen
    <3>2. QED
      BY <3>1 DEF Follows
  <2>4. Len(t) = n + 1 + d /\ EndOf(t, Len(stack)) = n + 1
    BY <1>6, <1>7, <2>1, <2>3 DEF EndOf
  <2>5. ASSUME NEW i \in 1 .. Len(t), i > n + 1 PROVE t[i].sym = ")"
    <3>1. i - n \in 2 .. d + 1 /\ i - n \in 1 .. d + 1 /\ n + (i - n) = i
      BY <2>4, <2>5
    <3>2. t[n + (i - n)] = ending[i - n]
      BY <2>1, <2>3, <3>1
    <3>3. QED
      BY <2>1, <3>1, <3>2
  <2>6. Closes(t)
    BY <1>5, <2>3, <2>4, <2>5 DEF Closes
  <2>7. t[n + 1].sym = "IDENT"
    <3>1. 1 \in 1 .. d + 1
      BY <1>7
    <3>2. QED
      BY <2>1, <2>3, <3>1
  <2>8. Trees(t) # {}
    BY <1>1, <1>2, <1>5, <1>8, <2>4, <2>6, <2>7, Continued
  <2>9. QED
    BY <1>3, <1>5, <2>1, <2>2, <2>8 DEF IsStart
<1>9. CASE Below(0) = "expr" /\ Below(1) = "("
  <2>1. PICK ending \in Seq(AnyToken) :
          /\ ending \in Completions /\ Len(ending) = d
          /\ \A i \in 1 .. d : ending[i].sym = ")"
    BY EndingsAre
  <2>2. PICK t : t = Prefix \o ending
    OBVIOUS
  <2>3. /\ Len(t) = n + Len(ending) /\ Agrees(t, n)
        /\ \A i \in 1 .. Len(ending) : t[n + i] = ending[i]
    <3>1. Follows(t, n, ending)
      BY <1>3, <1>5, <2>2, PrefixThen
    <3>2. QED
      BY <3>1 DEF Follows
  <2>4. Len(t) = n + d /\ EndOf(t, Len(stack)) = n
    BY <1>6, <1>7, <2>1, <2>3 DEF EndOf
  <2>5. ASSUME NEW i \in 1 .. Len(t), i > n PROVE t[i].sym = ")"
    <3>1. i - n \in 1 .. d /\ n + (i - n) = i
      BY <2>4, <2>5
    <3>2. t[n + (i - n)] = ending[i - n]
      BY <2>1, <2>3, <3>1
    <3>3. QED
      BY <2>1, <3>1, <3>2
  <2>6. Closes(t)
    BY <1>5, <2>3, <2>4, <2>5 DEF Closes
  <2>7. Trees(t) # {}
    BY <1>1, <1>2, <1>5, <1>9, <2>4, <2>6, Continued
  <2>8. QED
    BY <1>3, <1>5, <2>1, <2>2, <2>7 DEF IsStart
<1>10. CASE Below(0) = "input"
  <2>1. Derives(1, Consumed, 1, TreeIn(nodes, root))
    BY <1>1, <1>2, <1>10, EndTree
  <2>2. PICK z : z = 0
    OBVIOUS
  <2>3. PICK ending \in Seq(AnyToken) : ending \in Completions /\ Len(ending) = z
    <3>1. z \in 0 .. MaxTokens
      BY <2>2, ParserAssumption
    <3>2. QED
      BY <3>1, EndingsAre
  <2>4. PICK t : t = Prefix \o ending
    OBVIOUS
  <2>5. Len(t) = n + Len(ending) /\ Agrees(t, n)
    <3>1. Follows(t, n, ending)
      BY <1>3, <1>5, <2>4, PrefixThen
    <3>2. QED
      BY <3>1 DEF Follows
  <2>6. Len(t) = n
    BY <2>2, <2>3, <2>5
  <2>7. Trees(t) # {}
    BY <1>5, <2>1, <2>5, <2>6, WholeTree
  <2>8. QED
    BY <1>3, <1>5, <2>3, <2>4, <2>7 DEF IsStart
<1>11. QED
  BY <1>1, <1>8, <1>9, <1>10, ErrorTop

LEMMA CompletionsAre == Completions \subseteq Seq(AnyToken)
<1>1. ASSUME NEW s \in Endings PROVE s \in Seq(AnyToken) /\ <<Ident>> \o s \in Seq(AnyToken)
  <2>1. PICK n \in 0 .. MaxTokens : s = Parens(n)
    BY Zenon DEF Endings, Parens
  <2>2. QED
    BY <2>1, EndingsAre
<1>2. QED
  BY <1>1 DEF Completions, Ident

LEMMA ReadThen ==
  ASSUME IInv, NEW ending \in Seq(AnyToken), NEW t, t = read \o ending
  PROVE  Agrees(t, Len(read))
<1>1. PICK s : s = read
  OBVIOUS
<1>2. s \in Seq(AnyToken) /\ t = s \o ending
  BY <1>1 DEF IInv, TokenInv, AnyToken
<1>3. PICK n \in Nat, k \in Nat : n = Len(s) /\ k = Len(ending)
  BY <1>2
<1>4. t \in Seq(AnyToken) /\ Len(t) = n + k
  BY <1>2, <1>3, ConcatProperties
<1>5. ASSUME NEW i \in 1 .. n PROVE t[i] = s[i]
  <2>1. i \in 1 .. Len(s) + Len(ending) /\ i <= Len(s)
    BY <1>3
  <2>2. QED
    BY <1>2, <2>1, ConcatProperties
<1>6. n <= n + k /\ n + k \in Nat
  OBVIOUS
<1>7. QED
  BY <1>1, <1>3, <1>4, <1>5, <1>6 DEF Agrees

\* A syntax error refuses what is no expression.
LEMMA ErrorRefuses ==
  ASSUME IInv, GrammarInv, SyntaxError
  PROVE  IF Text = read THEN ~IsStart(Text) ELSE Trees(Text) = {}
<1>1. /\ phase = "parse" /\ ~Reducible /\ lookahead # NoToken /\ lookahead.sym \notin Shiftable
      /\ LookaheadInv
  BY DEF SyntaxError, Parsing, GrammarInv
<1>2. Len(read) # 0 /\ Consumed = Len(Prefix) /\ read[Len(read)] = lookahead
  BY <1>1, PrefixStarts DEF LookaheadInv
<1>3. CASE Text = read
  <2>1. ASSUME NEW ending \in Completions PROVE Trees(read \o ending) = {}
    <3>1. ending \in Seq(AnyToken)
      BY CompletionsAre
    <3>2. PICK t : t = read \o ending
      OBVIOUS
    <3>3. Agrees(t, Len(read))
      BY <3>1, <3>2, ReadThen
    <3>4. Trees(t) = {}
      BY <1>1, <3>3, Refused
    <3>5. QED
      BY <3>2, <3>4
  <2>2. QED
    BY <1>3, <2>1 DEF IsStart
<1>4. CASE Text # read
  <2>1. lookahead.sym = "$end" /\ Text = Prefix
    BY <1>2, <1>4, TextIs
  <2>2. Below(0) # "input"
    BY <1>1, <2>1, ShiftableIs
  <2>3. Agrees(Prefix, Consumed) /\ Len(Prefix) = Consumed
    BY <1>2, PrefixAgrees
  <2>4. PICK p : Placed(p)
    BY <1>1 DEF GrammarInv
  <2>5. Below(0) \in Openings \/ (Below(0) = "expr" /\ Below(1) = "(")
    BY <1>1, <2>2, ErrorTop
  <2>6. Trees(Prefix) = {}
    BY <1>1, <2>3, <2>4, <2>5, Unfinished
  <2>7. QED
    BY <1>4, <2>1, <2>6
<1>5. QED
  BY <1>3, <1>4

-----------------------------------------------------------------------------
(* What parse_expression returns, and what is left of a refused text. *)

LEMMA StillParsing == Lex \/ Shift \/ Reduce => phase' = "parse"
<1> SUFFICES ASSUME Lex \/ Shift \/ Reduce PROVE phase' = "parse"
  OBVIOUS
<1>1. phase = "parse"
  BY DEF Lex, Shift, Reduce, ReduceLeaf, ReduceParens, ReduceNot, ReduceBinary, ReduceUnit,
         ReduceInput, Reducing, Parsing
<1>2. phase' = phase
  BY DEF Lex, Shift, Reduce, ReduceLeaf, ReduceParens, ReduceNot, ReduceBinary, ReduceUnit,
         ReduceInput, Make, Pass
<1>3. QED
  BY <1>1, <1>2

LEMMA SameText ==
  ASSUME read' = read
  PROVE  Text' = Text /\ Prefix' = Prefix
BY DEF Text, Prefix

LEMMA TreeOfNext == ASSUME nodes' = nodes, root' = root PROVE TreeOf(root)' = TreeOf(root)
BY DEF TreeOf

LEMMA AcceptsInit == Init => AcceptsExpressions
BY DEF Init, AcceptsExpressions

LEMMA AcceptsNext == IInv /\ GrammarInv /\ AcceptsExpressions /\ [Next]_yvars => AcceptsExpressions'
<1> SUFFICES ASSUME IInv, GrammarInv, AcceptsExpressions, [Next]_yvars PROVE AcceptsExpressions'
  OBVIOUS
<1>1. CASE Accept
  <2>1. read' = read /\ nodes' = nodes /\ root' = root /\ error' = "none"
    BY <1>1 DEF Accept, Parsing
  <2>2. root # 0 /\ Trees(Text) = {TreeOf(root)}
    BY <1>1, AcceptTree
  <2>3. Text' = Text /\ TreeOf(root)' = TreeOf(root)
    BY <2>1, SameText, TreeOfNext
  <2>4. QED
    BY <2>1, <2>2, <2>3 DEF AcceptsExpressions
<1>2. CASE SyntaxError
  <2>1. read' = read /\ error' = "syntax error"
    BY <1>2 DEF SyntaxError, Abort
  <2>2. IsStart(Prefix) /\ IF Text = read THEN ~IsStart(Text) ELSE Trees(Text) = {}
    BY <1>2, PrefixStarts, ErrorRefuses
  <2>3. Text' = Text /\ Prefix' = Prefix /\ IsStart(Prefix)' = IsStart(Prefix) /\ IsStart(Text)' = IsStart(Text)
    BY <2>1, SameText DEF IsStart
  <2>4. QED
    BY <2>1, <2>2, <2>3, NoFailure DEF AcceptsExpressions, Prefix, Failures
<1>3. CASE Exhausted
  <2>1. error' = "memory exhausted"
    BY <1>3 DEF Exhausted, Abort
  <2>2. QED
    BY <2>1 DEF AcceptsExpressions
<1>4. CASE Drop
  <2>1. phase' = "done"
    BY <1>4 DEF Drop
  <2>2. QED
    BY <2>1 DEF AcceptsExpressions
<1>5. CASE Lex \/ Shift \/ Reduce
  <2>1. phase' = "parse"
    BY <1>5, StillParsing
  <2>2. QED
    BY <2>1 DEF AcceptsExpressions
<1>6. CASE UNCHANGED yvars
  <2>1. read' = read /\ nodes' = nodes /\ root' = root /\ error' = error /\ phase' = phase
    BY <1>6 DEF yvars
  <2>2. Text' = Text /\ TreeOf(root)' = TreeOf(root)
    BY <2>1, SameText, TreeOfNext
  <2>3. QED
    BY <2>1, <2>2 DEF AcceptsExpressions
<1>7. QED
  BY <1>1, <1>2, <1>3, <1>4, <1>5, <1>6 DEF Next

\* An expression that was complete before the token that does not fit has left
\* no node without an owner.
OwnedInv ==
  phase = "returned" /\ error = "syntax error" /\ Trees(Prefix) # {} =>
    \A n \in DOMAIN nodes : ~Unowned(n)

LEMMA ErrorOwned ==
  ASSUME IInv, GrammarInv, SyntaxError, Trees(Prefix) # {}
  PROVE  \A n \in DOMAIN nodes : ~Unowned(n)'
<1>1. /\ phase = "parse" /\ error = "none" /\ ~Reducible /\ lookahead # NoToken /\ LookaheadInv
      /\ stack' = <<>> /\ UNCHANGED <<nodes, deleted, root>>
  BY DEF SyntaxError, Abort, Parsing, GrammarInv
<1>2. PICK p : Placed(p)
  BY <1>1 DEF GrammarInv
<1>3. Agrees(Prefix, Consumed) /\ Len(Prefix) = Consumed
  BY PrefixStarts, PrefixAgrees
<1>4. Below(0) = "input"
  <2>1. ~(Below(0) \in Openings \/ (Below(0) = "expr" /\ Below(1) = "("))
    BY <1>1, <1>2, <1>3, Unfinished
  <2>2. QED
    BY <1>1, <2>1, ErrorTop
<1>5. Len(stack) = 1
  BY <1>1, <1>2, <1>4, EndTree
<1>6. NodeInv /\ deleted = {} /\ stack \in Seq(Symbol)
  BY <1>1, StackOf DEF IInv, PhaseInv
<1>7. DOMAIN stack = {1} /\ stack[1].sym = "input"
  <2>1. stack[1].sym = "input"
    BY <1>4, <1>5 DEF Below
  <2>2. DOMAIN stack = 1 .. 1
    BY <1>5, <1>6
  <2>3. QED
    BY <2>1, <2>2
<1>8. stack[1].val = 0
  BY <1>6, <1>7 DEF NodeInv
<1>9. ASSUME NEW n \in DOMAIN nodes PROVE ~Unowned(n)'
  <2>1. n # 0
    BY <1>6 DEF NodeInv
  <2>2. OnStack(n) = {}
    BY <1>7, <1>8, <2>1 DEF OnStack
  <2>3. ~Unowned(n)
    BY <1>1, <1>6 DEF NodeInv
  <2>4. Edges(n)' = Edges(n) /\ root' = root
    BY <1>1 DEF Edges
  <2>5. QED
    BY <2>2, <2>3, <2>4 DEF Unowned
<1>10. QED
  BY <1>9

\* Where no node is without an owner, the tree that is dropped has them all: a
\* node that is left would have an owner among the later nodes that are left,
\* and so on.
LEMMA WholeTreeDropped ==
  ASSUME IInv, Drop, \A n \in DOMAIN nodes : ~Unowned(n)
  PROVE  deleted' = DOMAIN nodes
<1> DEFINE t    == Subtree(root)
           left == DOMAIN nodes \ t
           T    == {Len(nodes) - n : n \in left}
<1>1. NodeInv /\ deleted = {} /\ stack = <<>>
  BY DEF Drop, IInv, PhaseInv
<1>2. deleted' = t
  BY <1>1 DEF Drop, DropTree
<1>3. /\ nodes \in Seq(Node) /\ Len(nodes) \in Nat /\ DOMAIN nodes = 1 .. Len(nodes)
      /\ root \in 0 .. Len(nodes) /\ Descending
  BY <1>1 DEF NodeInv, Descending
<1>4. IsTree(t, root)
  BY <1>3, SubtreeIs
<1> HIDE DEF t
<1>5. /\ t \subseteq DOMAIN nodes
      /\ root # 0 => root \in t
      /\ \A k \in t : \A c \in DOMAIN nodes[k].children : nodes[k].children[c] \in t
  BY <1>3, <1>4 DEF IsTree
<1>6. ASSUME left # {} PROVE FALSE
  <2>1. T \in SUBSET Nat /\ T # {}
    BY <1>3, <1>6
  <2>2. PICK x \in T : \A y \in T : x <= y
    BY <2>1, LeastNatural
  <2>3. PICK n \in left : x = Len(nodes) - n
    BY <2>2
  <2>4. OnStack(n) = {} /\ root # n
    BY <1>1, <1>3, <1>5, <2>3 DEF OnStack
  <2>5. PICK e \in Edges(n) : TRUE
    BY <2>3, <2>4 DEF Unowned
  <2>6. PICK m \in left : m = e[1]
    BY <1>5, <2>3, <2>5 DEF Edges
  <2>7. n \in 1 .. m - 1
    <3>1. e[2] \in DOMAIN nodes[m].children /\ nodes[m].children[e[2]] = n
      BY <2>5, <2>6 DEF Edges
    <3>2. QED
      BY <1>1, <2>6, <3>1 DEF NodeInv
  <2>8. Len(nodes) - m \in T
    BY <2>6
  <2>9. n \in Nat /\ m \in Nat /\ n < m
    BY <1>3, <2>6, <2>7
  <2>10. x <= Len(nodes) - m
    BY <2>2, <2>8
  <2> HIDE DEF T, left
  <2>11. QED
    BY <1>3, <2>3, <2>9, <2>10
<1>7. QED
  BY <1>2, <1>5, <1>6

LEMMA DroppedInit == Init => OwnedInv /\ CompleteTreesDeleted
BY DEF Init, OwnedInv, CompleteTreesDeleted

LEMMA DroppedNext ==
  IInv /\ GrammarInv /\ OwnedInv /\ CompleteTreesDeleted /\ [Next]_yvars
    => OwnedInv' /\ CompleteTreesDeleted'
<1> SUFFICES ASSUME IInv, GrammarInv, OwnedInv, CompleteTreesDeleted, [Next]_yvars
             PROVE  OwnedInv' /\ CompleteTreesDeleted'
  OBVIOUS
<1>1. CASE Accept
  <2>1. phase' = "returned" /\ error' = "none"
    BY <1>1 DEF Accept, Parsing
  <2>2. QED
    BY <2>1 DEF OwnedInv, CompleteTreesDeleted
<1>2. CASE SyntaxError
  <2>1. phase' = "returned" /\ read' = read /\ nodes' = nodes
    BY <1>2 DEF SyntaxError, Abort
  <2>2. Prefix' = Prefix
    BY <2>1, SameText
  <2>3. Trees(Prefix) # {} => \A n \in DOMAIN nodes : ~Unowned(n)'
    BY <1>2, ErrorOwned
  <2>4. QED
    BY <2>1, <2>2, <2>3 DEF OwnedInv, CompleteTreesDeleted
<1>3. CASE Exhausted
  <2>1. phase' = "returned" /\ error' = "memory exhausted"
    BY <1>3 DEF Exhausted, Abort
  <2>2. QED
    BY <2>1 DEF OwnedInv, CompleteTreesDeleted
<1>4. CASE Drop
  <2>1. phase = "returned" /\ phase' = "done" /\ UNCHANGED <<read, nodes, error>>
    BY <1>4 DEF Drop
  <2>2. Prefix' = Prefix
    BY <2>1, SameText
  <2>3. NodeInv /\ deleted = {} /\ error \in {"none"} \cup Failures
    BY <2>1 DEF IInv, PhaseInv
  <2>4. CASE error = "none"
    <3>1. \A n \in DOMAIN nodes : ~Unowned(n)
      BY <2>3, <2>4 DEF NodeInv
    <3>2. deleted' = DOMAIN nodes
      BY <1>4, <3>1, WholeTreeDropped
    <3>3. QED
      BY <2>1, <3>2 DEF OwnedInv, CompleteTreesDeleted
  <2>5. CASE error = "syntax error"
    <3>1. CASE Trees(Prefix) = {}
      BY <2>1, <2>2, <2>5, <3>1 DEF OwnedInv, CompleteTreesDeleted, Prefix
    <3>2. CASE Trees(Prefix) # {}
      <4>1. \A n \in DOMAIN nodes : ~Unowned(n)
        BY <2>1, <2>5, <3>2 DEF OwnedInv
      <4>2. deleted' = DOMAIN nodes
        BY <1>4, <4>1, WholeTreeDropped
      <4>3. QED
        BY <2>1, <4>2 DEF OwnedInv, CompleteTreesDeleted
    <3>3. QED
      BY <3>1, <3>2
  <2>6. CASE error = "memory exhausted"
    BY <2>1, <2>6 DEF OwnedInv, CompleteTreesDeleted
  <2>7. QED
    BY <2>3, <2>4, <2>5, <2>6 DEF Failures
<1>5. CASE Lex \/ Shift \/ Reduce
  <2>1. phase' = "parse"
    BY <1>5, StillParsing
  <2>2. QED
    BY <2>1 DEF OwnedInv, CompleteTreesDeleted
<1>6. CASE UNCHANGED yvars
  <2>1. UNCHANGED <<read, stack, nodes, deleted, root, error, phase>>
    BY <1>6 DEF yvars
  <2>2. Prefix' = Prefix /\ \A n : Unowned(n)' = Unowned(n)
    BY <2>1, SameText DEF Unowned, OnStack, Edges
  <2>3. QED
    BY <2>1, <2>2 DEF OwnedInv, CompleteTreesDeleted, Prefix
<1>7. QED
  BY <1>1, <1>2, <1>3, <1>4, <1>5, <1>6 DEF Next

-----------------------------------------------------------------------------
(* The theorems about the grammar. *)

\* The parser decides the grammar: what it accepts has exactly one tree, by the
\* precedence of the operators, and it is the one returned; what it refuses for
\* its syntax has none, and could be completed up to the token refused.
THEOREM AcceptsExactly == Spec => []AcceptsExpressions
<1>1. Init => IInv /\ GrammarInv /\ AcceptsExpressions
  BY InitKeeps, GrammarInit, AcceptsInit
<1>2. IInv /\ GrammarInv /\ AcceptsExpressions /\ [Next]_yvars => GrammarInv' /\ AcceptsExpressions'
  BY GrammarNext, AcceptsNext
<1>3. QED
  BY <1>1, <1>2, Invariance, PTL DEF Spec

\* A complete expression leaves no node behind, also where an error follows it.
THEOREM CompleteTreesGo == Spec => []CompleteTreesDeleted
<1>1. Init => GrammarInv /\ OwnedInv /\ CompleteTreesDeleted
  BY GrammarInit, DroppedInit
<1>2. IInv /\ GrammarInv /\ OwnedInv /\ CompleteTreesDeleted /\ [Next]_yvars
        => GrammarInv' /\ OwnedInv' /\ CompleteTreesDeleted'
  BY GrammarNext, DroppedNext
<1>3. QED
  BY <1>1, <1>2, Invariance, PTL DEF Spec

\* The special case of a compilation that was no error.
TreesDropped == phase = "done" /\ error = "none" => deleted = DOMAIN nodes

THEOREM NoNodeOutlives == Spec => []TreesDropped
<1>1. CompleteTreesDeleted => TreesDropped
  BY NoFailure DEF CompleteTreesDeleted, TreesDropped, Failures
<1>2. QED
  BY <1>1, CompleteTreesGo, PTL

=============================================================================
