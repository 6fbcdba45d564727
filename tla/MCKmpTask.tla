------------------------------- MODULE MCKmpTask -------------------------------
(* Instances of KmpTask, seen by a tool or not, for TLC.                   *)
EXTENDS OmptTask, TLC

Item(a, f) == [addr |-> a, flags |-> f]
Deps(items) == [NoClause EXCEPT !.deps = items]

\* One item of every kind that depends on storage.
KindClauses(a) == {Deps(<<Item(a, {f})>>) : f \in {"in", "out", "mtx", "set"}}

\* Clauses that differ in how their items lie in the three lists: the access
\* clause before the depend clause, concurrent writes from either, an aliasing
\* and a non-aliasing item, one item more than the stock ABI reserves, a null
\* address, what is not supported.
ListClauses(a, b) ==
  {NoClause,
   Deps(<<Item(a, {"in", "out"})>>),
   [NoClause EXCEPT !.acs = <<Item(b, {"storage"})>>, !.deps = <<Item(a, {"in"})>>],
   [NoClause EXCEPT !.acs = <<Item(a, {"read", "concurrentwrite"})>>],
   [NoClause EXCEPT !.deps = <<Item(b, {"in"})>>, !.noalias = <<Item(a, {"out"})>>],
   [NoClause EXCEPT !.deps = <<Item(a, {"in"}), Item(b, {"in"})>>, !.noalias = <<Item(a, {"out"})>>],
   Deps(<<Item(NULL, {"in"}), Item(a, {"in"})>>),
   [NoClause EXCEPT !.acs = <<Item(a, {"read", "nostorage"})>>],
   Deps(<<Item(a, {"all"})>>)}

HostAttrs == {HostAttr}
PlainAttrs == HostAttrs \cup {[HostAttr EXCEPT !.undeferred = TRUE]}
EveryAttr == PlainAttrs \cup {[HostAttr EXCEPT !.parts = 2], [HostAttr EXCEPT !.target = TRUE]}

LiveAttrs == PlainAttrs \cup {[HostAttr EXCEPT !.target = TRUE]}

NoClauses == {NoClause}
MtxClause == NoClauses \cup {Deps(<<Item(a, {"mtx"})>>) : a \in Addr}
ConstructClauses ==
  LET a == CHOOSE x \in Addr : TRUE
      b == CHOOSE x \in Addr : x # a
  IN  KindClauses(a) \cup ListClauses(a, b)

\* The clauses are those the theorems on the order of tasks are about.
ASSUME PlainAssumption == OrderableClauses

ThreadSymmetry == Permutations(Thread)
===============================================================================
