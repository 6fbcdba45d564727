------------------------------ MODULE MCAllMemory ------------------------------
(* Tasks with depend on omp_all_memory, as a compiler emits it, for TLC.   *)
EXTENDS KmpTask

DepClause(a, f) == [NoClause EXCEPT !.deps = <<[addr |-> a, flags |-> {f}]>>]

\* A task that writes some storage, and a construct that names all memory.
WriteThenAll == {DepClause(a, "out") : a \in Addr} \cup {DepClause(NULL, "all")}

HostAttrs == {HostAttr}
===============================================================================
