------------------------------ MODULE MCFirstCall ------------------------------
(* Two interchangeable threads that may both find no context, and their     *)
(* later calls.                                                            *)
EXTENDS FirstCall, TLC

Symmetry == Permutations(Thread)
===============================================================================
