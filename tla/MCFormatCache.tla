---------------------------- MODULE MCFormatCache ------------------------------
(* An instance of FormatCache for TLC: at one location, two constructs     *)
(* with a program and one without; one construct with nothing.             *)
EXTENDS FormatCache, TLC

CONSTANTS here, ir1, ir2

Constructs ==
  {[loc |-> here,  ir |-> ir1,  scatter |-> TRUE],
   [loc |-> here,  ir |-> ir2,  scatter |-> FALSE],
   [loc |-> here,  ir |-> NULL, scatter |-> FALSE],
   [loc |-> NULL,  ir |-> NULL, scatter |-> FALSE]}

ThreadSymmetry == Permutations(Thread)
===============================================================================
