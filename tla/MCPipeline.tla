------------------------------ MODULE MCPipeline ------------------------------
(* Model values and symmetry for model-checking Pipeline. *)
EXTENDS Pipeline

\* Log writers are interchangeable.
Symmetry == Permutations(LogWriters)
===============================================================================
