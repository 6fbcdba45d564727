------------------------------ MODULE OmpTasking ------------------------------
(***************************************************************************)
(* What the tasking runtime promises the program, in OpenMP's own terms:   *)
(* no threads, no access slots, no work stealing.                          *)
(*                                                                         *)
(* A task is created by a running task, begins once the earlier siblings   *)
(* its clause names have finished, and finishes.  A task that awaits       *)
(* others is suspended until they have all finished: it creates nothing    *)
(* and does not finish.                                                    *)
(***************************************************************************)
EXTENDS Integers, Sequences

CONSTANTS
  Explicit,   \* explicit tasks, numbered in the order a task creates them
  Implicit,   \* the team's implicit tasks
  NoTask,     \* the creator of an implicit task
  Clause,     \* the clauses a construct can carry
  NoClause,   \* the one without items
  NULL        \* the null base address of a clause item

Task == Explicit \cup Implicit

VARIABLES
  phase,    \* "absent", then "created", "running", "finished"
  parent,   \* the task that created it
  clause,   \* its items: [acs, deps, noalias]
  awaits    \* the tasks its own progress is suspended on

vars == <<phase, parent, clause, awaits>>

-------------------------------------------------------------------------------
(* Which clause items order or exclude two sibling tasks.                  *)

Items(c) ==
  UNION {{items[i] : i \in DOMAIN items} : items \in {c.acs, c.deps, c.noalias}}

Writes(f) == f \cap {"out", "mtx", "set", "write", "concurrentwrite", "storage"} # {}

\* omp_all_memory conflicts with every item; other items conflict on the
\* same storage, unless neither writes or both are of a kind that lets its
\* own run in any order.
Conflict(i, j) ==
  \/ "all" \in i.flags \cup j.flags
  \/ /\ i.addr = j.addr /\ i.addr # NULL
     /\ Writes(i.flags) \/ Writes(j.flags)
     /\ ~(i.flags = {"mtx"} /\ j.flags = {"mtx"})
     /\ ~(\A k \in {i, j} : k.flags \cap {"set", "concurrentwrite"} # {})

MustOrder(c, d) == \E i \in Items(c), j \in Items(d) : Conflict(i, j)

MustExclude(c, d) ==
  \E i \in Items(c), j \in Items(d) :
    i.addr = j.addr /\ i.addr # NULL /\ i.flags = {"mtx"} /\ j.flags = {"mtx"}

-------------------------------------------------------------------------------
Children(p) == {t \in Explicit : phase[t] # "absent" /\ parent[t] = p}

Proceeding(p) == phase[p] = "running" /\ \A t \in awaits[p] : phase[t] = "finished"

Init ==
  /\ phase = [t \in Task |-> IF t \in Implicit THEN "running" ELSE "absent"]
  /\ parent = [t \in Task |-> NoTask]
  /\ clause = [t \in Task |-> NoClause]
  /\ awaits = [t \in Task |-> {}]

\* p creates t and either goes on or awaits it (an undeferred task, or the
\* empty task of a taskwait with a depend clause).
Create(p, t, c, undeferred) ==
  /\ Proceeding(p)
  /\ phase[t] = "absent" /\ \A u \in Children(p) : u < t
  /\ phase' = [phase EXCEPT ![t] = "created"]
  /\ parent' = [parent EXCEPT ![t] = p]
  /\ clause' = [clause EXCEPT ![t] = c]
  /\ awaits' = [awaits EXCEPT ![p] = IF undeferred THEN {t} ELSE {}]

Begin(t) ==
  /\ phase[t] = "created"
  /\ \A u \in Children(parent[t]) :
       /\ u < t /\ MustOrder(clause[u], clause[t]) => phase[u] = "finished"
       /\ phase[u] = "running" => ~MustExclude(clause[u], clause[t])
  /\ phase' = [phase EXCEPT ![t] = "running"]
  /\ UNCHANGED <<parent, clause, awaits>>

Taskwait(p) ==
  /\ Proceeding(p)
  /\ awaits' = [awaits EXCEPT ![p] = Children(p)]
  /\ UNCHANGED <<phase, parent, clause>>

Resume(p) ==
  /\ Proceeding(p)
  /\ awaits' = [awaits EXCEPT ![p] = {}]
  /\ UNCHANGED <<phase, parent, clause>>

Finish(t) ==
  /\ Proceeding(t)
  /\ phase' = [phase EXCEPT ![t] = "finished"]
  /\ awaits' = [awaits EXCEPT ![t] = {}]
  /\ UNCHANGED <<parent, clause>>

Next ==
  \/ \E p \in Task : Taskwait(p) \/ Resume(p)
  \/ \E t \in Explicit : Begin(t) \/ Finish(t)
  \/ \E p \in Task, t \in Explicit, u \in BOOLEAN, c \in Clause : Create(p, t, c, u)

Spec == Init /\ [][Next]_vars
===============================================================================
