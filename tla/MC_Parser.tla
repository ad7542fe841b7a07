----------------------------- MODULE MC_Parser ------------------------------
(* Parser on short texts over one token of each kind. *)
EXTENDS Parser

T(sym) == [sym |-> sym, value |-> 0]

\* Tokens the automaton tells apart: a text and a number, an operator of each
\* precedence, parentheses, a character that is none of the grammar's and one
\* past ASCII.
MCTokens ==
  {T(sym) : sym \in {"IDENT", "EQ", "AND", "OR", "BIT_AND", "(", ")", "!", "junk"}}
    \cup {[sym |-> "INTEGER", value |-> 1], SignedByte}
=============================================================================
