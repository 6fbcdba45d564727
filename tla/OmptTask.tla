------------------------------- MODULE OmptTask -------------------------------
(***************************************************************************)
(* What an OMPT tool is told of explicit tasks (src/ompt/ompt.cc): their   *)
(* creation, and, when their accesses are resolved, the dependences these  *)
(* stand for.  A tool rebuilds the order of sibling tasks from them.       *)
(***************************************************************************)
EXTENDS KmpTask

\* Mutation: the concurrency of a write is not looked at.
AccessToDependenceSequential(a) ==
  CASE {"R", "W"} \subseteq a.mode -> "inout"
    [] "W" \in a.mode /\ "R" \notin a.mode -> "out"
    [] OTHER -> "in"

\* xkrt_access_to_ompt_dependence.  An access that reads and writes is an inout
\* whatever its concurrency.
AccessToDependence(a) ==
  CASE {"R", "W"} \subseteq a.mode -> "inout"
    [] "W" \in a.mode /\ "R" \notin a.mode ->
         (CASE a.conc = "commutative" -> "mutexinoutset"
            [] a.conc = "concurrent"  -> "inoutset"
            [] OTHER                  -> "out")
    [] OTHER -> "in"

\* on_task_create: how the construct is reported.  The flag of its accesses is
\* the allocation's, so a task of the stock ABI has it whatever its clause.
OnTaskCreate(u) == [undeferred |-> attr[u].undeferred, has_deps |-> slots[u] # <<>>]

\* on_task_accesses: the accesses the submission resolves, one by one; the
\* padding behind them is not among them.
OnTaskAccesses(u) ==
  [i \in 1..NAccesses(clause[u]) |->
     [variable |-> slots[u][i].addr, dependence_type |-> AccessToDependence(slots[u][i])]]

-------------------------------------------------------------------------------
(* The order a tool reads from the dependences of two siblings.            *)

ToldOf(u) == LET deps == OnTaskAccesses(u) IN {deps[i] : i \in DOMAIN deps}

SameVariable(d, e) == d.variable = e.variable /\ d.variable # NULL

OrderTold(u, v) ==
  \E d \in ToldOf(u), e \in ToldOf(v) :
    /\ SameVariable(d, e)
    /\ d.dependence_type # "in" \/ e.dependence_type # "in"
    /\ ~( /\ d.dependence_type = e.dependence_type
          /\ d.dependence_type \in {"mutexinoutset", "inoutset"})

ExclusionTold(u, v) ==
  \E d \in ToldOf(u), e \in ToldOf(v) :
    SameVariable(d, e) /\ {d.dependence_type, e.dependence_type} = {"mutexinoutset"}

\* Items on one storage that write concurrently, one of them reading it too:
\* OMPT has no type for that.
Unnamed(i, j) ==
  /\ i.addr = j.addr /\ i.addr # NULL
  /\ \A k \in {i, j} : k.flags \cap {"set", "concurrentwrite"} # {}
  /\ \E k \in {i, j} : {"read", "concurrentwrite"} \subseteq k.flags

\* A tool sees the order of the program: of two submitted siblings it is told
\* that they are ordered, and that they exclude each other, exactly if their
\* clauses say so, wherever in the three lists and in whichever slot the items
\* lie; and a task reported to have no dependence has none.  (Of a concurrent
\* read-write and another concurrent write, which the accesses leave unordered,
\* it is told an order.)  Clause to slot is task.cc's, slot to dependence
\* ompt.cc's.
ToolSeesOrder ==
  \A u, v \in Explicit :
    mode # "undefined" /\ Committed(u) /\ Committed(v) /\ u # v /\ parent[u] = parent[v] =>
      /\ Tasking!MustOrder(clause[u], clause[v]) => OrderTold(u, v)
      /\ OrderTold(u, v) =>
           \/ Tasking!MustOrder(clause[u], clause[v])
           \/ \E i \in Tasking!Items(clause[u]), j \in Tasking!Items(clause[v]) : Unnamed(i, j)
      /\ ExclusionTold(u, v) <=> Tasking!MustExclude(clause[u], clause[v])
      /\ ToldOf(u) # {} => OnTaskCreate(u).has_deps
===============================================================================
