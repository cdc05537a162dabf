----------------------------- MODULE MCBufferPool -----------------------------
(* Model values and symmetry for model-checking BufferPool. *)
EXTENDS BufferPool, TLC

\* Threads and buffer addresses are interchangeable.
Symmetry == Permutations(Threads) \cup Permutations(Buffers)
===============================================================================
