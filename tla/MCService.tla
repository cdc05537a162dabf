------------------------------- MODULE MCService -------------------------------
(***************************************************************************)
(* Service for TLC: two sites in one file, with the same span name and     *)
(* different functions.                                                    *)
(***************************************************************************)
EXTENDS Service, TLC

MCStrings == [s \in Sites |-> <<"main.cpp", s, "work">>]
ThreadSymmetry == Permutations(Threads)
===============================================================================
