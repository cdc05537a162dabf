-------------------------------- MODULE MCSpans -------------------------------
(* Model values and symmetry for model-checking Spans. *)
EXTENDS Spans

\* Threads are interchangeable.
Symmetry == Permutations(Threads)
===============================================================================
