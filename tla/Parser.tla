------------------------------- MODULE Parser -------------------------------
(***************************************************************************)
(* parse_expression (src/frontend): one expression is read token by token, *)
(* its syntax tree built bottom up, and both handed to                     *)
(* mbpf_compile_expression, which drops them when it returns.              *)
(*                                                                         *)
(* The automaton is the one Bison makes of expression_parser.y.  A state   *)
(* of it is known from the two topmost symbols of the stack, and it asks   *)
(* for a token only where a token can be shifted: otherwise, and for every *)
(* token that cannot be shifted, it makes its default reduction.           *)
(*                                                                         *)
(* Tokens are the scanner's; the characters they are made of are left out. *)
(* The text of an identifier or an address is a copy (strdup) that the     *)
(* parser has to free.                                                     *)
(***************************************************************************)
EXTENDS Integers, Sequences, FiniteSets, FiniteSetsExt

CONSTANTS
  Tokens,     \* what the scanner may return before the end of the text
  MaxTokens,  \* bound: tokens of an expression
  MaxDepth    \* the parser stack's limit (YYMAXDEPTH)

LeafKind ==
  [IDENT |-> "Identifier", INTEGER |-> "Integer", BOOLEAN |-> "Boolean",
   IPV4 |-> "Ipv4", IPV6 |-> "Ipv6"]

OperatorKind ==
  [OR |-> "Or", AND |-> "And", EQ |-> "Eq", NE |-> "Ne", GT |-> "Gt", LT |-> "Lt", GE |-> "Ge",
   LE |-> "Le", BIT_AND |-> "BitAnd", BIT_OR |-> "BitOr"]

Compares     == {"EQ", "NE", "GT", "LT", "GE", "LE"}
Bitwises     == {"BIT_AND", "BIT_OR"}
Texts        == {"IDENT", "IPV4", "IPV6"}  \* tokens with a copy of their text
Terminals    == DOMAIN LeafKind \cup DOMAIN OperatorKind \cup {"(", ")", "!", "junk", "$end"}
Nonterminals ==
  {"primary", "unary_expr", "bitwise_expr", "comparison_expr", "and_expr", "or_expr", "expr", "input"}

\* Mistake: a rule makes a unary expression of a bitwise one.
WidenedInCircles ==
  [primary |-> "unary_expr", unary_expr |-> "bitwise_expr", bitwise_expr |-> "unary_expr",
   comparison_expr |-> "and_expr", and_expr |-> "or_expr", or_expr |-> "expr", expr |-> "input"]

\* Nonterminals by increasing extent: a rule of one symbol makes the next one.
Widened ==
  [primary |-> "unary_expr", unary_expr |-> "bitwise_expr", bitwise_expr |-> "comparison_expr",
   comparison_expr |-> "and_expr", and_expr |-> "or_expr", or_expr |-> "expr", expr |-> "input"]

\* The operators whose right operand a nonterminal is.
JoinedBy ==
  [s \in Terminals \cup Nonterminals |->
     CASE s = "unary_expr"      -> Bitwises
       [] s = "bitwise_expr"    -> Compares
       [] s = "comparison_expr" -> {"AND"}
       [] s = "and_expr"        -> {"OR"}
       [] OTHER                 -> {}]

ASSUME ParserAssumption ==
  /\ \A token \in Tokens : token.sym \in Terminals
  /\ MaxTokens \in Nat
  /\ MaxDepth \in Nat \ {0}

\* A byte past ASCII is returned as it is: where char is signed the token is
\* negative, and the parser takes it for the end of the text.
SignedByte == [sym |-> "$end", value |-> -1]
EndToken == [sym |-> "$end", value |-> 0]
NoToken  == [sym |-> "none", value |-> 0]

VARIABLES
  read,       \* the tokens read
  lookahead,  \* the token read last, until it is shifted
  stack,      \* the parser's symbols and their values
  nodes,      \* the nodes made by make_*, numbered in the order they are made
  strings,    \* the copies of texts allocated, numbered by their tokens
  deleted,    \* the nodes that were deleted
  root,       \* ParseResult::root_, 0 for a null pointer
  error,      \* ParseResult::error_
  phase       \* "parse", "returned" to mbpf_compile_expression, or "done"

yvars == <<read, lookahead, stack, nodes, strings, deleted, root, error, phase>>

Init ==
  /\ read = <<>>
  /\ lookahead = NoToken
  /\ stack = <<>>
  /\ nodes = <<>>
  /\ strings = {}
  /\ deleted = {}
  /\ root = 0
  /\ error = "none"
  /\ phase = "parse"

-----------------------------------------------------------------------------
(* The automaton. *)

\* The symbol n below the top.
Below(n) == IF Len(stack) > n THEN stack[Len(stack) - n].sym ELSE "bottom"

\* Mistake: a comparison may be compared again.
ChainedComparisons == Compares

\* The comparisons that can be shifted after a bitwise expression.
Comparisons == IF Below(1) \in Compares THEN {} ELSE Compares

\* The tokens that can be shifted.
Shiftable ==
  CASE Below(0) \in {"bottom", "(", "!"} \cup DOMAIN OperatorKind -> DOMAIN LeafKind \cup {"(", "!"}
    [] Below(0) = "bitwise_expr" -> Bitwises \cup Comparisons
    [] Below(0) = "and_expr"     -> {"AND"}
    [] Below(0) = "or_expr"      -> {"OR"}
    [] Below(0) = "expr"         -> IF Below(1) = "(" THEN {")"} ELSE {}
    [] Below(0) = "input"        -> {"$end"}
    [] OTHER                     -> {}

\* A rule ends at the top of the stack.
Reducible ==
  \/ Below(0) \in DOMAIN LeafKind \cup {")"}
  \/ Below(0) \in DOMAIN Widened /\ ~(Below(0) = "expr" /\ Below(1) = "(")

\* Mistake: the bottom of the stack takes no room.
FullLate == Len(stack) >= MaxDepth

\* The stack, with the initial state at its bottom, has no room.
Full == Len(stack) + 1 >= MaxDepth

Parsing == phase = "parse" /\ error = "none" /\ ~Full

\* yylex, when the automaton needs a token to decide.
Lex ==
  /\ Parsing
  /\ Shiftable # {}
  /\ lookahead = NoToken
  /\ \E token \in IF Len(read) < MaxTokens THEN Tokens \cup {EndToken} ELSE {EndToken} :
       /\ lookahead' = token
       /\ read' = Append(read, token)
       /\ strings' = IF token.sym \in Texts THEN strings \cup {Len(read')} ELSE strings
  /\ UNCHANGED <<stack, nodes, deleted, root, error, phase>>

\* The value of a token: its text, by number, or its number or truth value.
TokenValue == IF lookahead.sym \in Texts THEN Len(read) ELSE lookahead.value

Shift ==
  /\ Parsing
  /\ lookahead.sym \in Shiftable
  /\ stack' = Append(stack, [sym |-> lookahead.sym, val |-> TokenValue])
  /\ lookahead' = NoToken
  /\ UNCHANGED <<read, nodes, strings, deleted, root, error, phase>>

Reducing ==
  /\ Parsing
  /\ Reducible
  /\ Shiftable = {} \/ (lookahead # NoToken /\ lookahead.sym \notin Shiftable)

\* The value n below the top, and the stack with its n topmost symbols
\* replaced by one.
Val(n) == stack[Len(stack) - n].val
Replaced(n, sym, val) == Append(SubSeq(stack, 1, Len(stack) - n), [sym |-> sym, val |-> val])

\* A node is made and becomes the value of the rule that has n symbols.
Make(kind, value, children, n, sym) ==
  /\ nodes' = Append(nodes, [kind |-> kind, value |-> value, children |-> children])
  /\ stack' = Replaced(n, sym, Len(nodes) + 1)
  /\ UNCHANGED <<read, lookahead, deleted, root, error, phase>>

\* A value goes from one symbol to another.
Pass(val, n, sym) ==
  /\ stack' = Replaced(n, sym, val)
  /\ UNCHANGED <<read, lookahead, nodes, strings, deleted, root, error, phase>>

-----------------------------------------------------------------------------
(* The rules. *)

\* Mistake: the text is not freed when its node is made.
FreeNothing(sym, val) == strings
FreeText(sym, val) == IF sym \in Texts THEN strings \ {val} ELSE strings

ReduceLeaf ==
  /\ Reducing
  /\ Below(0) \in DOMAIN LeafKind
  /\ Make(LeafKind[Below(0)], Val(0), <<>>, 1, "primary")
  /\ strings' = FreeText(Below(0), Val(0))

ReduceParens ==
  /\ Reducing
  /\ Below(0) = ")"
  /\ Pass(Val(1), 3, "primary")

ReduceNot ==
  /\ Reducing
  /\ Below(0) = "unary_expr"
  /\ Below(1) = "!"
  /\ Make("Not", 0, <<Val(0)>>, 2, "unary_expr")
  /\ UNCHANGED strings

\* Mistake: $2 or $1 is taken twice.
SameOperands == <<Val(2), Val(2)>>
Operands == <<Val(2), Val(0)>>

ReduceBinary ==
  /\ Reducing
  /\ Below(1) \in JoinedBy[Below(0)]
  /\ Make(OperatorKind[Below(1)], 0, Operands, 3, Widened[Below(0)])
  /\ UNCHANGED strings

ReduceUnit ==
  /\ Reducing
  /\ Below(0) \in DOMAIN Widened \ {"expr"}
  /\ Below(1) \notin JoinedBy[Below(0)]
  /\ ~(Below(0) = "unary_expr" /\ Below(1) = "!")
  /\ Pass(Val(0), 1, Widened[Below(0)])

\* set_parse_root, whether or not the text ends here.
ReduceInput ==
  /\ Reducing
  /\ Below(0) = "expr"
  /\ root' = Val(0)
  /\ stack' = Replaced(1, "input", 0)
  /\ UNCHANGED <<read, lookahead, nodes, strings, deleted, error, phase>>

-----------------------------------------------------------------------------
(* The ends of yyparse and of the compilation. *)

\* The nodes in the tree of node n.
Subtree(n) ==
  LET Sub[k \in 0..n] ==
        IF k = 0 THEN {}
        ELSE {k} \cup UNION {Sub[nodes[k].children[c]] : c \in DOMAIN nodes[k].children}
  IN Sub[n]

Accept ==
  /\ Parsing
  /\ Below(0) = "$end"
  /\ phase' = "returned"
  /\ stack' = <<>>
  /\ UNCHANGED <<read, lookahead, nodes, strings, deleted, root, error>>

\* Mistake: only the stack is cleaned up, not the token read last.
CleanUpStack ==
  strings \ {stack[i].val : i \in {j \in DOMAIN stack : stack[j].sym \in Texts}}

\* The symbols on the stack and the lookahead are dropped; the destructor of
\* the grammar is for texts, not for nodes.
CleanUp ==
  (strings \ {stack[i].val : i \in {j \in DOMAIN stack : stack[j].sym \in Texts}})
    \ (IF lookahead.sym \in Texts THEN {TokenValue} ELSE {})

Abort(message) ==
  /\ error' = message
  /\ phase' = "returned"
  /\ strings' = CleanUp
  /\ stack' = <<>>
  /\ lookahead' = NoToken
  /\ UNCHANGED <<read, nodes, deleted, root>>

SyntaxError ==
  /\ Parsing
  /\ ~Reducible
  /\ lookahead # NoToken
  /\ lookahead.sym \notin Shiftable
  /\ Abort("syntax error")

Exhausted ==
  /\ phase = "parse"
  /\ Full
  /\ Abort("memory exhausted")

\* Mistake: the tree is given up only where it was compiled.
DropCompiled == IF error = "none" THEN Subtree(root) ELSE {}
DropTree == Subtree(root)

\* mbpf_compile_expression returns: parse_result is destroyed.
Drop ==
  /\ phase = "returned"
  /\ phase' = "done"
  /\ deleted' = deleted \cup DropTree
  /\ root' = 0
  /\ UNCHANGED <<read, lookahead, stack, nodes, strings, error>>

Reduce ==
  ReduceLeaf \/ ReduceParens \/ ReduceNot \/ ReduceBinary \/ ReduceUnit \/ ReduceInput

Next == Lex \/ Shift \/ Reduce \/ Accept \/ SyntaxError \/ Exhausted \/ Drop

Spec == Init /\ [][Next]_yvars

\* The parser waits for nothing.
FairSpec == Spec /\ WF_yvars(Next)

-----------------------------------------------------------------------------
(* The grammar, without an automaton: by precedence. *)

Precedence ==
  [op \in DOMAIN OperatorKind |->
     CASE op = "OR" -> 1 [] op = "AND" -> 2 [] op \in Compares -> 3 [] OTHER -> 4]

\* Whether k stands outside all the parentheses opened in the text from i.
Outside(text, i, k) ==
  Cardinality({n \in i..(k - 1) : text[n].sym = "("})
    = Cardinality({n \in i..(k - 1) : text[n].sym = ")"})

\* The operators from i to j that bind least, outside parentheses.
Splits(text, i, j) ==
  LET ops == {k \in i..j : text[k].sym \in DOMAIN OperatorKind /\ Outside(text, i, k)}
  IN {k \in ops : \A n \in ops : Precedence[text[k].sym] <= Precedence[text[n].sym]}

\* The trees of an operator and of the trees of its operands.
Tree(kind, value, children) == [kind |-> kind, value |-> value, children |-> children]
Joined(op, left, right) == {Tree(OperatorKind[op], 0, <<l, r>>) : l \in left, r \in right}
Negated(trees) == {Tree("Not", 0, <<t>>) : t \in trees}

\* The trees of the text from i to j, given those of what is shorter: T[n][i]
\* for the n tokens from i on.  The operator that binds least splits it, the
\* last one where there are several, which is an error where they compare.
TreesFrom(text, T, i, j) ==
  IF Splits(text, i, j) # {}
  THEN LET k == Max(Splits(text, i, j))
       IN IF text[k].sym \in Compares /\ Splits(text, i, j) # {k} THEN {}
          ELSE Joined(text[k].sym, T[k - i][i], T[j - k][k + 1])
  ELSE CASE i = j /\ text[i].sym \in DOMAIN LeafKind ->
              {Tree(LeafKind[text[i].sym],
                    IF text[i].sym \in Texts THEN i ELSE text[i].value, <<>>)}
         [] i < j /\ text[i].sym = "!" -> Negated(T[j - i][i + 1])
         [] i < j /\ text[i].sym = "(" /\ text[j].sym = ")" -> T[j - i - 1][i + 1]
         [] OTHER -> {}

\* The tree of a text, or {} where it is not an expression.
Trees(text) ==
  LET Of[n \in 0..Len(text)] ==
        [i \in 1..(Len(text) + 1 - n) |-> TreesFrom(text, Of, i, i + n - 1)]
  IN Of[Len(text)][1]

\* The tree that node n stands for.
TreeOf(n) ==
  LET Of[k \in 1..n] ==
        Tree(nodes[k].kind, nodes[k].value,
             [c \in DOMAIN nodes[k].children |-> Of[nodes[k].children[c]]])
  IN Of[n]

\* What can follow the start of an expression, if anything can.
Endings ==
  {[i \in 1..n |-> [sym |-> ")", value |-> 0]] : n \in 0..MaxTokens}
Completions ==
  Endings \cup {<<[sym |-> "IDENT", value |-> 0]>> \o ending : ending \in Endings}

IsStart(text) == \E ending \in Completions : Trees(text \o ending) # {}

Text == IF read # <<>> /\ read[Len(read)].sym = "$end" THEN SubSeq(read, 1, Len(read) - 1) ELSE read

-----------------------------------------------------------------------------
(* Properties. *)

\* Type invariant.
TypeOK ==
  /\ read \in Seq(Tokens \cup {EndToken}) /\ Len(read) <= MaxTokens + 1
  /\ lookahead \in Tokens \cup {EndToken, NoToken}
  /\ \A i \in DOMAIN stack : stack[i].sym \in Terminals \cup Nonterminals
  /\ Len(stack) < MaxDepth
  /\ \A n \in DOMAIN nodes : \A c \in DOMAIN nodes[n].children : nodes[n].children[c] \in 1..(n - 1)
  /\ strings \subseteq DOMAIN read
  /\ deleted \subseteq DOMAIN nodes
  /\ root \in {0} \cup DOMAIN nodes
  /\ error \in {"none", "syntax error", "memory exhausted"}
  /\ phase \in {"parse", "returned", "done"}

\* The places on the stack that hold a copied text, and the texts held.
TextSymbols == {i \in DOMAIN stack : stack[i].sym \in Texts}
HeldTexts ==
  {stack[i].val : i \in TextSymbols} \cup (IF lookahead.sym \in Texts THEN {TokenValue} ELSE {})

\* A text is copied for one place at a time and freed with it: none is leaked,
\* freed twice or used after it was freed, on success, on errors and when the
\* stack is full (the free() calls of the rules and the %destructor).
TextsFreedOnce ==
  /\ strings = HeldTexts
  /\ Cardinality(TextSymbols) + (IF lookahead.sym \in Texts THEN 1 ELSE 0) = Cardinality(HeldTexts)
  /\ phase # "parse" => strings = {}

\* The number of places that hold node n and will delete it or pass it on.
Owners(n) ==
  Cardinality({i \in DOMAIN stack : stack[i].sym \in Nonterminals /\ stack[i].val = n})
    + (IF root = n THEN 1 ELSE 0)
    + Cardinality({edge \in (DOMAIN nodes \ deleted) \X {1, 2} :
                     /\ edge[2] \in DOMAIN nodes[edge[1]].children
                     /\ nodes[edge[1]].children[edge[2]] = n})

\* The destructor of Expr deletes both operands: a node has one owner, so that
\* nothing is deleted twice, and unless there was an error it has not lost it.
NodesOwnedOnce ==
  /\ \A n \in DOMAIN nodes \ deleted : Owners(n) <= 1 /\ (error = "none" => Owners(n) = 1)
  /\ \A n \in deleted : Owners(n) = 0

\* What parse_expression returns for an expression is its tree, by the
\* precedence of the operators, also where the text only seems to end; what it refuses for its syntax is none, and it
\* does so at the first token after which nothing could make it one.
AcceptsExpressions ==
  phase = "returned" =>
    /\ error = "none" => root # 0 /\ Trees(Text) = {TreeOf(root)}
    /\ error = "syntax error" =>
         /\ IsStart(SubSeq(read, 1, Len(read) - 1))
         /\ IF Text = read THEN ~IsStart(Text) ELSE Trees(Text) = {}

\* No node outlives the compilation but those of an expression that was never
\* complete: an expression followed by a token that does not belong to it
\* leaves a tree and an error, and both are dropped.
CompleteTreesDeleted ==
  phase = "done" =>
    \/ deleted = DOMAIN nodes
    \/ error = "memory exhausted"
    \/ error = "syntax error" /\ Trees(SubSeq(read, 1, Len(read) - 1)) = {}

\* Every text is accepted or refused: no state of the automaton reduces
\* forever or has no move.
ParseReturns == <>(phase = "done")
=============================================================================
