-------------------------------- MODULE KmpTask --------------------------------
(***************************************************************************)
(* The tasking entry points of src/kmp/task.cc and the team that runs      *)
(* them: allocation and submission of explicit tasks, their dependences,   *)
(* undeferred tasks, the parts of untied tasks, taskwait with and without  *)
(* a depend clause, taskgroup, device tasks, the draining barrier at the   *)
(* end of a parallel region, and the commands a recorded task leaves.      *)
(*                                                                         *)
(* Every thread of the team runs its implicit task.  A thread blocked in a *)
(* wait runs other ready tasks on top of its own, so the tasks a thread    *)
(* executes form a stack: the last one started is the only one that moves. *)
(*                                                                         *)
(* The entry points are the repository's.  Scheduling, completion, and     *)
(* what the waits wait for are XKRT's, modelled from how task.cc uses it.  *)
(***************************************************************************)
EXTENDS TaskAccess

CONSTANTS
  Thread,     \* the team; a thread's implicit task goes by the thread's name
  MaxTasks,   \* bound on the explicit tasks of a behaviour
  MaxGroups,  \* bound on its taskgroup regions
  Device,     \* where device tasks run
  NoTask,     \* no task, no thread
  Abis,       \* "patched", "stock": which compiler the program came from
  Clauses,    \* the clauses its task constructs carry
  Attrs       \* the kinds of its task constructs

ASSUME ThreadAssumption == Thread \cap Int = {} /\ NoTask \notin Thread \cup Int
ASSUME DeviceAssumption == Device \notin Thread \cup {NoTask}
ASSUME BoundAssumption  == MaxTasks \in Nat /\ MaxGroups \in Nat

Explicit == 1..MaxTasks
Group    == 1..MaxGroups
Task     == Explicit \cup Thread

\* parts: the parts of an untied task, 1 for a tied one; target: does it run
\* on a device; body: FALSE for the empty task of a taskwait with depend;
\* record: TASK_FLAG_RECORD.
Attr == [undeferred : BOOLEAN, parts : Nat \ {0}, target : BOOLEAN, body : BOOLEAN,
         record : BOOLEAN]

ASSUME AttrAssumption == Attrs \subseteq Attr
ASSUME AbiAssumption == Abis \subseteq {"patched", "stock"}
ASSUME ClauseAssumption == Clauses \subseteq ClauseSet

NoClause  == [acs |-> <<>>, deps |-> <<>>, noalias |-> <<>>]
HostAttr  == [undeferred |-> FALSE, parts |-> 1, target |-> FALSE, body |-> TRUE, record |-> FALSE]
EmptyAttr == [HostAttr EXCEPT !.undeferred = TRUE, !.body = FALSE]
TransferAttr == [HostAttr EXCEPT !.target = TRUE]

VARIABLES
  status,   \* "none", then "allocated", "committed", "executing", "completed"
  attr,     \* how its construct was compiled
  parent,   \* the task whose code created it
  clause,   \* the items of its construct
  slots,    \* its accesses
  pc,       \* what its code is doing while it executes
  await,    \* the task it submits or waits for
  part,     \* frames of its routine on the stack, the part being run
  runner,   \* the thread it executes on
  below,    \* the tasks that were executing when it started, and still are
  cur,      \* the taskgroup its code is in, 0 for none
  bound,    \* the taskgroup it counts for
  groups,   \* every taskgroup region opened: its owner, the one around it, open or not
  regions,  \* history: the taskgroup regions it was created in, at any depth
  abi,      \* the compiler of this program
  cmds,     \* the commands recorded for replay, in order
  rec,      \* the tasks whose code is inside a taskgraph being recorded
  mode      \* "running", "over" once the region has ended, "aborted", "undefined"

taskVars  == <<status, attr, parent, clause, slots>>
codeVars  == <<pc, await, part>>
runVars   == <<runner, below>>
groupVars == <<cur, bound, groups, regions>>
restVars  == <<abi, cmds, rec, mode>>
vars == <<taskVars, codeVars, runVars, groupVars, restVars>>

-------------------------------------------------------------------------------
(* The team.                                                               *)

Executing(t) == status[t] = "executing"

\* The task on top of its thread's stack: no other moves.
Current(t) ==
  /\ Executing(t)
  /\ \A u \in Task \ {t} : Executing(u) /\ runner[u] = runner[t] => u \in below[t]

\* Its compiled code is about to take its next step.
Encountering(t) ==
  /\ mode = "running" /\ Current(t) /\ pc[t] = "run" /\ attr[t].body /\ ~attr[t].target

Waiting(t) == pc[t] \in {"taskwait", "waittask", "groupend", "barrier"}

Children(t) == {u \in Explicit : status[u] \notin {"none", "allocated"} /\ parent[u] = t}

\* Committed, its earlier siblings' conflicting accesses released, and no
\* sibling in an access that excludes one of its own.
Ready(u) ==
  /\ status[u] = "committed"
  /\ \A v \in Children(parent[u]) \ {u} :
       /\ v < u /\ status[v] # "completed" => ~SlotsPrecede(slots[v], slots[u])
       /\ Executing(v) => ~SlotsExclude(slots[v], slots[u])

Fresh(u) == status[u] = "none" /\ \A v \in Explicit : v < u => status[v] # "none"

Init ==
  /\ status  = [t \in Task |-> IF t \in Thread THEN "executing" ELSE "none"]
  /\ attr    = [t \in Task |-> HostAttr]
  /\ parent  = [t \in Task |-> NoTask]
  /\ clause  = [t \in Task |-> NoClause]
  /\ slots   = [t \in Task |-> <<>>]
  /\ pc      = [t \in Task |-> "run"]
  /\ await   = [t \in Task |-> NoTask]
  /\ part    = [t \in Task |-> 1]
  /\ runner  = [t \in Task |-> IF t \in Thread THEN t ELSE NoTask]
  /\ below   = [t \in Task |-> {}]
  /\ cur     = [t \in Task |-> 0]
  /\ bound   = [t \in Task |-> 0]
  /\ groups  = <<>>
  /\ regions = [t \in Task |-> {}]
  /\ abi \in Abis
  /\ cmds = <<>> /\ rec = {} /\ mode = "running"

-------------------------------------------------------------------------------
(* Creating a task.                                                        *)

\* The taskgroup regions code of t is inside of.
Inside(t) == regions[t] \cup {g \in DOMAIN groups : groups[g].owner = t /\ groups[g].open}

\* Mutation: the new task is made a child of the thread's implicit task.
NewTaskOfThread(t, u, a, c) ==
  /\ attr'    = [attr EXCEPT ![u] = [a EXCEPT !.record = t \in rec \/ attr[t].record]]
  /\ parent'  = [parent EXCEPT ![u] = runner[t]]
  /\ clause'  = [clause EXCEPT ![u] = c]
  /\ cur'     = [cur EXCEPT ![u] = cur[t]]
  /\ bound'   = [bound EXCEPT ![u] = cur[t]]
  /\ regions' = [regions EXCEPT ![u] = Inside(t)]
  /\ UNCHANGED groups

\* The part of task_new and task_instanciate both paths share: u is t's child,
\* counted for t's taskgroup and recorded if t is.
NewTask(t, u, a, c) ==
  /\ attr'    = [attr EXCEPT ![u] = [a EXCEPT !.record = t \in rec \/ attr[t].record]]
  /\ parent'  = [parent EXCEPT ![u] = t]
  /\ clause'  = [clause EXCEPT ![u] = c]
  /\ cur'     = [cur EXCEPT ![u] = cur[t]]
  /\ bound'   = [bound EXCEPT ![u] = cur[t]]
  /\ regions' = [regions EXCEPT ![u] = Inside(t)]
  /\ UNCHANGED groups

\* What a compiler emits: no access clause under the stock ABI.
Emits(c) == abi = "stock" => c.acs = <<>>

TaskAlloc(t, u, a, c) ==
  /\ Encountering(t) /\ Fresh(u) /\ Emits(c)
  /\ NewTask(t, u, a, c)
  /\ status' = [status EXCEPT ![u] = "allocated"]
  /\ slots' = [slots EXCEPT ![u] = AllocSlots(abi, c)]
  /\ pc' = [pc EXCEPT ![t] = "submit"]
  /\ await' = [await EXCEPT ![t] = u]
  /\ UNCHANGED <<part, runVars, restVars>>

\* task_commit, and the wait that follows it if u is undeferred.
Commit(t, u) ==
  /\ status' = [status EXCEPT ![u] = "committed"]
  /\ pc' = [pc EXCEPT ![t] = IF attr[u].undeferred THEN "waittask" ELSE "run"]
  /\ await' = [await EXCEPT ![t] = IF attr[u].undeferred THEN u ELSE NoTask]

Submitting(t, u) == mode = "running" /\ Current(t) /\ pc[t] = "submit" /\ await[t] = u

\* __kmpc_omp_task on a new task.
OmpTask(t, u) ==
  /\ Submitting(t, u) /\ NAccesses(clause[u]) = 0
  /\ Commit(t, u)
  /\ UNCHANGED <<attr, parent, clause, slots, part, runVars, groupVars, restVars>>

\* __kmpc_omp_task on the untied task that is running: its next part runs at
\* once, on top of the frame of the part that ends.
OmpTaskReenter(t) ==
  /\ Encountering(t) /\ part[t] < attr[t].parts
  /\ part' = [part EXCEPT ![t] = @ + 1]
  /\ UNCHANGED <<taskVars, pc, await, runVars, groupVars, restVars>>

Fatal == mode' = "aborted" /\ UNCHANGED <<taskVars, codeVars, runVars, groupVars, abi, cmds, rec>>

\* task_accesses_resolve: what becomes of a program whose task has an access
\* that was never constructed (an item without an address left the slot as the
\* allocation returned it) is not known, so the model goes no further.
Resolve(u) ==
  mode' = IF \E i \in DOMAIN slots'[u] : slots'[u][i] = Garbage THEN "undefined" ELSE mode

Refused(u) == NAccesses(clause[u]) > Len(slots[u]) \/ Unsupported(clause[u])

\* Mutation: no test of the number of accesses, the ones that do not fit are lost.
OmpTaskWithDepsUnchecked(t, u) ==
  /\ Submitting(t, u) /\ NAccesses(clause[u]) > 0
  /\ slots' = [slots EXCEPT ![u] = FillClause(@, clause[u])]
  /\ Commit(t, u)
  /\ Resolve(u)
  /\ UNCHANGED <<attr, parent, clause, part, runVars, groupVars, abi, cmds, rec>>

\* __kmpc_omp_task_with_deps and _v2: the items are written over the reserved
\* slots and resolved, and the task committed.
OmpTaskWithDeps(t, u) ==
  /\ Submitting(t, u) /\ NAccesses(clause[u]) > 0
  /\ IF Refused(u)
       THEN Fatal
       ELSE /\ slots' = [slots EXCEPT ![u] = FillClause(@, clause[u])]
            /\ Commit(t, u)
            /\ Resolve(u)
            /\ UNCHANGED <<attr, parent, clause, part, runVars, groupVars, abi, cmds, rec>>

\* xkomp_taskwait_deps: an empty task with these dependences, waited for.
\* Without items the call returns having done nothing.
TaskwaitDeps(t, u, c) ==
  /\ Encountering(t) /\ Fresh(u) /\ Emits(c) /\ NAccesses(c) > 0
  /\ IF Unsupported(c)
       THEN Fatal
       ELSE /\ NewTask(t, u, EmptyAttr, c)
            /\ status' = [status EXCEPT ![u] = "committed"]
            /\ slots' = [slots EXCEPT ![u] = FillClause([i \in 1..NAccesses(c) |-> Garbage], c)]
            /\ pc' = [pc EXCEPT ![t] = "waittask"]
            /\ await' = [await EXCEPT ![t] = u]
            /\ Resolve(u)
            /\ UNCHANGED <<part, runVars, abi, cmds, rec>>

\* __kmp_omp_target_memcpy_async, in a program that has device tasks: a device
\* task with the dependences of its depend objects, allocated and committed in
\* the call.  Nobody waits for it here.
TargetMemcpyAsync(t, u, c) ==
  /\ Encountering(t) /\ Fresh(u) /\ TransferAttr \in Attrs
  /\ c.acs = <<>> /\ c.noalias = <<>>
  /\ IF Unsupported(c)
       THEN Fatal
       ELSE /\ NewTask(t, u, TransferAttr, c)
            /\ status' = [status EXCEPT ![u] = "committed"]
            /\ slots' = [slots EXCEPT ![u] = FillClause([i \in 1..NAccesses(c) |-> Garbage], c)]
            /\ Resolve(u)
            /\ UNCHANGED <<codeVars, runVars, abi, cmds, rec>>

-------------------------------------------------------------------------------
(* Waiting.                                                                *)

Resumed(t) ==
  /\ pc' = [pc EXCEPT ![t] = "run"]
  /\ await' = [await EXCEPT ![t] = NoTask]
  /\ UNCHANGED part

WaitsAs(t, how) ==
  /\ pc' = [pc EXCEPT ![t] = how]
  /\ UNCHANGED <<await, part>>

\* __kmpc_omp_taskwait, also the end of a single region.  With no child left
\* the call returns at once, having done nothing.
Taskwait(t) ==
  /\ Encountering(t) /\ \E u \in Children(t) : status[u] # "completed"
  /\ WaitsAs(t, "taskwait")
  /\ UNCHANGED <<taskVars, runVars, groupVars, restVars>>

TaskwaitReturn(t) ==
  /\ mode = "running" /\ Current(t) /\ pc[t] = "taskwait"
  /\ \A u \in Children(t) : status[u] = "completed"
  /\ Resumed(t)
  /\ UNCHANGED <<taskVars, runVars, groupVars, restVars>>

\* task_wait(task) of an undeferred task or of a taskwait's empty task.
AwaitReturn(t) ==
  /\ mode = "running" /\ Current(t) /\ pc[t] = "waittask" /\ status[await[t]] = "completed"
  /\ Resumed(t)
  /\ UNCHANGED <<taskVars, runVars, groupVars, restVars>>

TaskgroupBegin(t) ==
  /\ Encountering(t) /\ Len(groups) < MaxGroups
  /\ groups' = Append(groups, [owner |-> t, outer |-> cur[t], open |-> TRUE])
  /\ cur' = [cur EXCEPT ![t] = Len(groups) + 1]
  /\ UNCHANGED <<taskVars, codeVars, runVars, bound, regions, restVars>>

\* Mutation: the end of a taskgroup waits as a taskwait does.
TaskgroupEndShallow(t) ==
  /\ Encountering(t) /\ cur[t] # bound[t]
  /\ \A u \in Children(t) : status[u] = "completed"
  /\ groups' = [groups EXCEPT ![cur[t]].open = FALSE]
  /\ cur' = [cur EXCEPT ![t] = groups[cur[t]].outer]
  /\ UNCHANGED <<taskVars, codeVars, runVars, bound, regions, restVars>>

\* Only the task that opened a taskgroup reaches its end.
TaskgroupEnd(t) ==
  /\ Encountering(t) /\ cur[t] # bound[t]
  /\ WaitsAs(t, "groupend")
  /\ UNCHANGED <<taskVars, runVars, groupVars, restVars>>

\* Mutation: the task stays in the region it has ended.
TaskgroupReturnStays(t) ==
  /\ mode = "running" /\ Current(t) /\ pc[t] = "groupend"
  /\ \A u \in Explicit : bound[u] = cur[t] => status[u] \in {"none", "completed"}
  /\ groups' = [groups EXCEPT ![cur[t]].open = FALSE]
  /\ Resumed(t)
  /\ UNCHANGED <<taskVars, runVars, cur, bound, regions, restVars>>

TaskgroupReturn(t) ==
  /\ mode = "running" /\ Current(t) /\ pc[t] = "groupend"
  /\ \A u \in Explicit : bound[u] = cur[t] => status[u] \in {"none", "completed"}
  /\ groups' = [groups EXCEPT ![cur[t]].open = FALSE]
  /\ cur' = [cur EXCEPT ![t] = groups[cur[t]].outer]
  /\ Resumed(t)
  /\ UNCHANGED <<taskVars, runVars, bound, regions, restVars>>

-------------------------------------------------------------------------------
(* Running tasks.                                                          *)

Begin(u, where) ==
  /\ status' = [status EXCEPT ![u] = "executing"]
  /\ runner' = [runner EXCEPT ![u] = where]
  /\ below' = [below EXCEPT ![u] = {v \in Task : Executing(v)}]
  /\ UNCHANGED <<attr, parent, clause, slots, codeVars, groupVars, restVars>>

\* A thread blocked in a wait takes a ready task of the team.
Schedule(t, u) ==
  /\ mode = "running" /\ Current(t) /\ Waiting(t)
  /\ Ready(u) /\ ~attr[u].target
  /\ Begin(u, runner[t])

DeviceBegin(u) == mode = "running" /\ Ready(u) /\ attr[u].target /\ Begin(u, Device)

Complete(t) ==
  /\ status' = [status EXCEPT ![t] = "completed"]
  /\ runner' = [runner EXCEPT ![t] = NoTask]
  /\ below' = [v \in Task |-> IF v = t THEN {} ELSE below[v] \ {t}]

\* The commands a device task submitted have completed.
DeviceComplete(u) ==
  /\ mode = "running" /\ Executing(u) /\ attr[u].target
  /\ Complete(u)
  /\ UNCHANGED <<attr, parent, clause, slots, codeVars, groupVars, restVars>>

\* The routine of t's innermost frame returns into body_omp_task, which records
\* a command if t is recorded and returns: to the frame below, whose part is
\* over too, or to the runtime.
BodyReturn(t) ==
  /\ mode = "running" /\ t \in Explicit /\ Current(t) /\ ~attr[t].target
  /\ \/ pc[t] = "run" /\ part[t] = attr[t].parts /\ cur[t] = bound[t]
     \/ pc[t] = "unwind"
  /\ cmds' = IF attr[t].record /\ attr[t].body THEN Append(cmds, t) ELSE cmds
  /\ IF part[t] = 1
       THEN Complete(t) /\ UNCHANGED codeVars
       ELSE /\ part' = [part EXCEPT ![t] = @ - 1]
            /\ pc' = [pc EXCEPT ![t] = "unwind"]
            /\ UNCHANGED <<status, await, runVars>>
  /\ UNCHANGED <<attr, parent, clause, slots, groupVars, abi, rec, mode>>

\* The microtask returns into fork_call_wrapper, which calls team_barrier<true>.
RegionEnd(t) ==
  /\ t \in Thread /\ Encountering(t) /\ cur[t] = 0 /\ rec = {}
  /\ WaitsAs(t, "barrier")
  /\ UNCHANGED <<taskVars, runVars, groupVars, restVars>>

\* Mutation: team_barrier<false>.
TeamBarrierNoDrain ==
  /\ mode = "running"
  /\ \A t \in Thread : Current(t) /\ pc[t] = "barrier"
  /\ mode' = "over"
  /\ UNCHANGED <<taskVars, codeVars, runVars, groupVars, abi, cmds, rec>>

\* The barrier drains the team's tasks before it lets the threads out.
TeamBarrier ==
  /\ mode = "running"
  /\ \A t \in Thread : Current(t) /\ pc[t] = "barrier"
  /\ \A u \in Explicit : status[u] \in {"none", "completed"}
  /\ mode' = "over"
  /\ UNCHANGED <<taskVars, codeVars, runVars, groupVars, abi, cmds, rec>>

\* The steps task t makes, and those of other threads' code on its behalf.
Constructs(t) ==
  /\ Encountering(t)
  /\ \E u \in {v \in Explicit : Fresh(v)}, c \in Clauses :
       TaskwaitDeps(t, u, c) \/ TargetMemcpyAsync(t, u, c) \/ \E a \in Attrs : TaskAlloc(t, u, a, c)

Submits(t) ==
  /\ pc[t] = "submit"
  /\ OmpTask(t, await[t]) \/ OmpTaskWithDeps(t, await[t])

Steps(t) ==
  \/ Constructs(t) \/ Submits(t)
  \/ OmpTaskReenter(t) \/ BodyReturn(t)
  \/ Taskwait(t) \/ TaskwaitReturn(t) \/ AwaitReturn(t)
  \/ TaskgroupBegin(t) \/ TaskgroupEnd(t) \/ TaskgroupReturn(t)
  \/ \E u \in Explicit : Schedule(t, u)
  \/ RegionEnd(t)

DeviceStep == \E u \in Explicit : DeviceBegin(u) \/ DeviceComplete(u)

Done == mode # "running" /\ UNCHANGED vars

Next == (\E t \in Task : Steps(t)) \/ DeviceStep \/ TeamBarrier \/ Done

Spec == Init /\ [][Next]_vars

\* Every thread of the team keeps running (the operating system schedules them
\* all), a task's code ends, and the device completes what it was given.
Fairness ==
  /\ \A th \in Thread : WF_vars(\E t \in Task : runner[t] = th /\ Steps(t))
  /\ WF_vars(DeviceStep) /\ WF_vars(TeamBarrier)

FairSpec == Spec /\ Fairness

-------------------------------------------------------------------------------
(* Properties.                                                             *)

TypeOK ==
  /\ status \in [Task -> {"none", "allocated", "committed", "executing", "completed"}]
  /\ attr \in [Task -> Attr]
  /\ parent \in [Task -> Task \cup {NoTask}]
  /\ clause \in [Task -> Clauses \cup {NoClause}]
  /\ slots \in [Task -> Seq(Access)]
  /\ pc \in [Task -> {"run", "submit", "taskwait", "waittask", "groupend", "barrier", "unwind"}]
  /\ await \in [Task -> Task \cup {NoTask}]
  /\ part \in [Task -> Nat \ {0}]
  /\ runner \in [Task -> Thread \cup {Device, NoTask}]
  /\ below \in [Task -> SUBSET Task]
  /\ cur \in [Task -> Nat] /\ bound \in [Task -> Nat]
  /\ groups \in Seq([owner : Task, outer : Nat, open : BOOLEAN])
  /\ regions \in [Task -> SUBSET Group]
  /\ abi \in Abis
  /\ cmds \in Seq(Explicit)
  /\ rec \in SUBSET Task
  /\ mode \in {"running", "over", "aborted", "undefined"}

Committed(u) == status[u] \notin {"none", "allocated"}

\* A clause with one dependence type an item, where an access reads or writes.
DependTypes == {{"in"}, {"out"}, {"in", "out"}, {"mtx"}, {"set"}, {"all"}}
PlainClause(c) ==
  /\ \A items \in {c.deps, c.noalias} : \A i \in DOMAIN items :
       items[i].flags \in DependTypes
  /\ \A i \in DOMAIN c.acs :
       c.acs[i].flags \cap {"read", "write", "concurrentwrite", "storage"} # {}

\* What the order of tasks can be shown for: under the stock ABI the item of
\* omp_all_memory has no address, and is lost.
OrderableClauses ==
  \A c \in Clauses : PlainClause(c) /\ ("stock" \in Abis => ~AllMemory(c))

\* Every access of a committed task was constructed, by the padding of the
\* allocation or from an item of the clause, except those of the very items
\* that have no address: whatever the lengths of the three lists, no other item
\* can leave the runtime an access it did not construct (task_pad_accesses,
\* __kmpc_omp_task_with_deps_v2, xkomp_taskwait_deps).
SlotsConstructed ==
  \A u \in Explicit : Committed(u) =>
    \A i \in DOMAIN slots[u] : slots[u][i] = Garbage =>
      LET items == clause[u].acs \o clause[u].deps \o clause[u].noalias
      IN  i \in DOMAIN items /\ items[i].addr = NULL

\* depend on omp_all_memory is refused ("Not implemented", task.cc:701), or else it
\* orders a task with all of its siblings that have dependences ("Supports ...
\* `depend`", SUPPORT.md:25).
AllMemoryOrders ==
  \A u, v \in Explicit :
    /\ u < v /\ parent[u] = parent[v] /\ Committed(u) /\ status[v] \in {"executing", "completed"}
    /\ \E w \in {u, v} : AllMemory(clause[w])
    /\ \A w \in {u, v} : NAccesses(clause[w]) > 0
    => status[u] = "completed"

\* The end of a taskgroup is a deep wait: once it has returned, every task
\* created in the region by anybody, at any depth, has completed
\* (__kmpc_end_taskgroup).
TaskgroupDeep ==
  \A g \in DOMAIN groups : ~groups[g].open =>
    \A u \in Explicit : g \in regions[u] => status[u] = "completed"

\* The tasks the code of t is blocked on.
Awaited(t) ==
  CASE pc[t] = "taskwait" -> Children(t)
    [] pc[t] = "waittask" -> {await[t]}
    [] pc[t] = "groupend" -> {u \in Explicit : status[u] # "none" /\ bound[u] = cur[t]}
    [] OTHER -> {}

\* No thread can be blocked on a task stuck beneath it on its own stack, nor
\* threads on each other: what a blocked task awaits, and what orders it before
\* or excludes it, started later than the blocked task if it started at all.
WaitsForLater ==
  \A t \in Task : Executing(t) =>
    \A u \in Awaited(t) : \A v \in Children(parent[u]) :
      Executing(v) => t \in below[v]

\* A submitted task is run, whatever the threads are blocked in.
CommittedCompletes ==
  \A u \in Explicit :
    (status[u] = "committed") ~> (status[u] = "completed" \/ mode \in {"aborted", "undefined"})

\* Every wait returns and the region ends: no wait of task.cc can deadlock the team.
RegionEnds == <>(mode # "running")

Tasking == INSTANCE OmpTasking WITH
  Implicit <- Thread,
  Clause <- Clauses,
  phase <- [t \in Task |->
              CASE status[t] = "executing" -> "running"
                [] status[t] = "completed" -> "finished"
                [] status[t] = "committed" -> "created"
                [] OTHER -> "absent"],
  parent <- [t \in Task |-> IF Committed(t) THEN parent[t] ELSE NoTask],
  clause <- [t \in Task |-> IF Committed(t) THEN clause[t] ELSE NoClause],
  awaits <- [t \in Task |-> IF ~Executing(t) THEN {}
                            ELSE CASE pc[t] = "taskwait" -> Children(t)
                                   [] pc[t] = "waittask" -> {await[t]}
                                   [] OTHER -> {}]

\* The tasking entry points implement the OpenMP view of tasks: dependences of
\* every kind order siblings, mutexinoutset excludes them, and code behind an
\* undeferred task, a taskwait or a taskwait with depend does not move before
\* what it waits for has completed.
ImplementsTasking == Tasking!Spec
===============================================================================
