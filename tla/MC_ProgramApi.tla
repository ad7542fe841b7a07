--------------------------- MODULE MC_ProgramApi ----------------------------
(***************************************************************************)
(* A small instance of ProgramApi: a compiled program, one that loads a    *)
(* field of no type and is compiled but not valid, a valid one of another  *)
(* origin that is too long for the area, and the image without slots.      *)
(***************************************************************************)
EXTENDS ProgramApi, TLC

CONSTANTS compiled, untyped, foreign, empty, area

MCImages   == {compiled, untyped, foreign, empty}
MCValid    == {compiled, foreign}
MCCompiled == {compiled, untyped}
MCSize     == [i \in MCImages |-> CASE i = empty -> 0 [] i = foreign -> 3 [] OTHER -> 2]
MCAreas    == {area}
MCCapacity == [a \in MCAreas |-> 2]

\* Threads, heap cells and blocks are interchangeable: none is named.
Symmetry == Permutations(Threads) \cup Permutations(Heap) \cup Permutations(Blocks)
=============================================================================
