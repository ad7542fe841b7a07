---------------------------- MODULE MC_Transfer -----------------------------
(* Programs of one, two and three instructions; the last one has a blob that
   fits a size_t and an object that does not. *)
EXTENDS Transfer

P(n, instructions) == [register_count |-> n, instructions |-> instructions]

MCPrograms == {P(1, <<<<2, 3>>>>), P(1, <<<<2, 1>>, <<3, 2>>>>), P(2, <<<<2, 3>>, <<2, 1>>, <<3, 2>>>>)}

\* Stands for the verifier: there are instructions and registers, and opcodes 2
\* and 3 are legal.
MCAccepts(image) ==
  /\ image.instructions # <<>>
  /\ image.register_count \in 1 .. 2
  /\ \A i \in DOMAIN image.instructions : image.instructions[i][1] \in {2, 3}

MCCapacities == {0, 8, 11}
=============================================================================
