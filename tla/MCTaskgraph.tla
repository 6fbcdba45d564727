------------------------------ MODULE MCTaskgraph ------------------------------
(* Instances of Taskgraph for TLC.                                         *)
EXTENDS Taskgraph, MCKmpTask

UntiedAttrs == {[HostAttr EXCEPT !.parts = 2]}
DepClauses == {Deps(<<Item(a, {f})>>) : a \in Addr, f \in {"in", "out"}}
===============================================================================
