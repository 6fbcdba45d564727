------------------------------- MODULE MCOmptTeam ------------------------------
(* Instances of OmptTeam for TLC: the values of the num_threads clauses.   *)
EXTENDS OmptTeam

\* A value that is clamped at 0, one above the limit.
ClampedClauses == {-1, 4}

\* The tool finalises itself on the initial thread or on a worker of the
\* default team.
EitherSide == {InitialThread, [team |-> 0, tid |-> 1]}
===============================================================================
