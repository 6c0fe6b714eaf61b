----------------------------- MODULE MCCodeCache -----------------------------
(* Instances of CodeCache for TLC. *)
EXTENDS CodeCache, TLC

\* Runs of nops: the pattern of r5900_macro_01 consumes three of them.
Plain == [i \in Slots |-> 1]
SpanOf(nops) ==
  [i \in Slots |-> IF {i, i + 1, i + 2} \subseteq nops THEN 3 ELSE 1]
NopsAt3 == SpanOf({3, 4, 5})

BufSymmetry == Permutations(Bufs)
ThreadSymmetry == Permutations(Threads)
Symmetry == Permutations(Bufs) \union Permutations(Threads)
=============================================================================
