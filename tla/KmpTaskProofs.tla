----------------------------- MODULE KmpTaskProofs -----------------------------
(***************************************************************************)
(* KmpTask for any team, any number of tasks and taskgroups, any clauses   *)
(* and any mix of task constructs: every variable keeps its type, no wait  *)
(* can be stuck (WaitsForLater), and the end of a taskgroup is a deep wait *)
(* (TaskgroupDeep).                                                        *)
(*                                                                         *)
(* WaitsForLater is about the order in which tasks started, which `below`  *)
(* remembers.  A wait for children is safe because a child starts after    *)
(* its parent.  A wait for a taskgroup also awaits tasks that are not      *)
(* children; it is safe because a group stays open, and its owner keeps    *)
(* executing, from before the first of them is created until the last has  *)
(* completed.  GroupInv says that, and that the open groups of a task are  *)
(* nested.                                                                 *)
(*                                                                         *)
(* A task is counted for one taskgroup, the innermost it was created in;   *)
(* TaskgroupDeep speaks of all the regions around it.  RegionInv links the *)
(* two: a task that has not completed keeps every region around it open,   *)
(* its own group directly, the outer ones through the task that owns the   *)
(* inner group, which is suspended at its end.                             *)
(***************************************************************************)
EXTENDS KmpTask, SequenceTheorems, TLAPS

\* Tasks are created by tasks that have started; implicit tasks never end.
TreeInv ==
  /\ \A t \in Thread : Executing(t) /\ bound[t] = 0
  /\ \A u \in Explicit :
       IF status[u] = "none"
         THEN parent[u] = NoTask /\ bound[u] = 0 /\ cur[u] = 0
         ELSE parent[u] \in Task /\ status[parent[u]] \in {"executing", "completed"}

\* What a task does while it executes, and what it awaits then.
CodeInv ==
  \A t \in Task :
    /\ pc[t] \in {"submit", "waittask"} => await[t] \in Explicit /\ parent[await[t]] = t
    /\ pc[t] = "submit" => status[await[t]] = "allocated"
    /\ pc[t] = "groupend" => cur[t] # bound[t]
    /\ pc[t] = "unwind" => cur[t] = bound[t]

\* A child started after its parent.
BelowInv ==
  \A v \in Explicit :
    Executing(v) /\ Executing(parent[v]) => parent[v] \in below[v]

\* A group o has opened and not closed.
Owns(gs, o, g) == g \in DOMAIN gs /\ gs[g].open /\ gs[g].owner = o

\* The open groups of a task: nested, younger than the group it counts for,
\* the innermost being the one it is in.
OpenInv ==
  \A o \in Task, g \in DOMAIN groups : Owns(groups, o, g) =>
    /\ Executing(o)
    /\ bound[o] < g /\ g <= cur[o]
    /\ groups[g].outer < g
    /\ groups[g].outer = bound[o] \/ Owns(groups, o, groups[g].outer)
    /\ \A h \in DOMAIN groups : Owns(groups, o, h) /\ h < g => h <= groups[g].outer

\* The group a task is in, and the group it counts for.
CurInv ==
  /\ Len(groups) <= MaxGroups
  /\ \A t \in Task :
       /\ cur[t] \in 0..Len(groups) /\ bound[t] \in 0..Len(groups)
       /\ attr[t].target => cur[t] = bound[t]
       /\ cur[t] # bound[t] =>
            cur[t] # 0 /\ groups[cur[t]].open /\ groups[cur[t]].owner = t

\* A group stays open as long as a task that counts for it is not done.
BoundInv ==
  \A u \in Explicit :
    status[u] \notin {"none", "completed"} /\ bound[u] # 0 => groups[bound[u]].open

\* A task counts for a group of its parent, or for its parent's group; and
\* with a task, its children started after the owner of its group.
AncestorInv ==
  \A u \in Explicit : status[u] # "none" /\ bound[u] # 0 =>
    /\ parent[u] = groups[bound[u]].owner \/ bound[parent[u]] = bound[u]
    /\ groups[bound[u]].open =>
         \A v \in Explicit :
           Executing(v) /\ parent[v] = u => groups[bound[u]].owner \in below[v]

\* What the end of a taskgroup relies on.  A region a task was created in is
\* still open as long as the task is not done, and either the task counts for
\* it, or something in between keeps it from ending first: a younger region of
\* the same owner, or one opened by a task that counts for it.
RegionInv ==
  \A u \in Task :
    /\ status[u] = "none" => regions[u] = {}
    /\ status[u] # "completed" =>
         \A g \in regions[u] :
           /\ g \in DOMAIN groups /\ groups[g].open
           /\ \/ bound[u] = g
              \/ \E h \in regions[u], w \in Task :
                   /\ Owns(groups, w, h)
                   /\ \/ Owns(groups, w, g) /\ g < h
                      \/ w \in Explicit /\ bound[w] = g

GroupInv == OpenInv /\ CurInv /\ BoundInv /\ AncestorInv

IInv == TypeOK /\ TreeInv /\ CodeInv /\ BelowInv /\ GroupInv
-------------------------------------------------------------------------------
(* The accesses of a task.                                                 *)

\* Reserved slots are accesses, whichever compiler the program came from.
LEMMA AllocSlotsType ==
  ASSUME NEW c \in ClauseSet, NEW b
  PROVE  /\ AllocSlots(b, c) \in Seq(Access)
         /\ [i \in 1..NAccesses(c) |-> Garbage] \in Seq(Access)
<1>1. NAccesses(c) \in Nat /\ Len(c.acs) + Len(c.deps) \in Nat
  BY LenProperties DEF NAccesses, ClauseSet
<1>2. Inert \in Access /\ Garbage \in Access
  BY DEF Inert, Garbage, Access, Concurrency
<1>3. [i \in 1..FixedAccesses |-> Inert] \in Seq(Access)
  BY <1>2, FixedAssumption
<1>4. \A n \in Nat : [i \in 1..n |-> Garbage] \in Seq(Access)
  BY <1>2
<1> QED
  BY <1>1, <1>3, <1>4 DEF AllocSlots

\* An item of either kind becomes an access.
LEMMA ItemType ==
  /\ \A item \in DepItem : DepAccess(item) \in Access
  /\ \A item \in AcItem : AcAccess(item) \in Access
<1>1. ASSUME NEW item \in DepItem PROVE DepAccess(item) \in Access
  <2>1. DepMode(item.flags) \in SUBSET {"R", "W", "V"}
    BY DEF DepMode
  <2>2. DepConcurrency(item.flags) \in Concurrency
    BY DEF DepConcurrency, Concurrency
  <2> QED
    BY <2>1, <2>2 DEF DepAccess, DepItem, Access
<1>2. ASSUME NEW item \in AcItem PROVE AcAccess(item) \in Access
  <2>1. AcMode(item.flags) \in SUBSET {"R", "W", "V"}
    BY DEF AcMode
  <2> QED
    BY <2>1 DEF AcAccess, AcItem, Access, Concurrency
<1> QED
  BY <1>1, <1>2

\* Accesses at some places of a sequence of accesses keep it one.
LEMMA PatchType ==
  ASSUME NEW slts \in Seq(Access), NEW patched, DOMAIN patched = DOMAIN slts,
         \A i \in DOMAIN slts : patched[i] = slts[i] \/ patched[i] \in Access,
         patched = [i \in DOMAIN slts |-> patched[i]]
  PROVE  patched \in Seq(Access)
<1>1. DOMAIN slts = 1..Len(slts) /\ Len(slts) \in Nat /\ \A i \in DOMAIN slts : slts[i] \in Access
  BY LenProperties, ElementOfSeq
<1>2. patched \in [1..Len(slts) -> Access]
  BY <1>1
<1> QED
  BY <1>1, <1>2

\* Writing access items over some slots leaves accesses.
LEMMA FillAcType ==
  ASSUME NEW slts \in Seq(Access), NEW offset, NEW items \in Seq(AcItem)
  PROVE  Fill(slts, offset, items, AcAccess) \in Seq(Access)
<1> DEFINE patched == Fill(slts, offset, items, AcAccess)
<1>1. \A i \in DOMAIN items : items[i] \in AcItem
  BY LenProperties, ElementOfSeq
<1>2. /\ DOMAIN patched = DOMAIN slts
      /\ \A i \in DOMAIN slts : patched[i] = slts[i] \/ patched[i] \in Access
      /\ patched = [i \in DOMAIN slts |-> patched[i]]
  BY <1>1, ItemType DEF Fill
<1> HIDE DEF patched
<1>3. patched \in Seq(Access)
  BY <1>2, PatchType
<1> QED
  BY <1>3 DEF patched

\* And so does writing depend items.
LEMMA FillDepType ==
  ASSUME NEW slts \in Seq(Access), NEW offset, NEW items \in Seq(DepItem)
  PROVE  Fill(slts, offset, items, DepAccess) \in Seq(Access)
<1> DEFINE patched == Fill(slts, offset, items, DepAccess)
<1>1. \A i \in DOMAIN items : items[i] \in DepItem
  BY LenProperties, ElementOfSeq
<1>2. /\ DOMAIN patched = DOMAIN slts
      /\ \A i \in DOMAIN slts : patched[i] = slts[i] \/ patched[i] \in Access
      /\ patched = [i \in DOMAIN slts |-> patched[i]]
  BY <1>1, ItemType DEF Fill
<1> HIDE DEF patched
<1>3. patched \in Seq(Access)
  BY <1>2, PatchType
<1> QED
  BY <1>3 DEF patched

\* The slots of a submitted task are accesses.
LEMMA FillClauseType ==
  ASSUME NEW slts \in Seq(Access), NEW c \in ClauseSet
  PROVE  FillClause(slts, c) \in Seq(Access)
<1> DEFINE acs == Fill(slts, 0, c.acs, AcAccess)
           dps == Fill(acs, Len(c.acs), c.deps, DepAccess)
           all == Fill(dps, Len(c.acs) + Len(c.deps), c.noalias, DepAccess)
<1>1. c.acs \in Seq(AcItem) /\ c.deps \in Seq(DepItem) /\ c.noalias \in Seq(DepItem)
  BY DEF ClauseSet
<1>2. acs \in Seq(Access)
  BY <1>1, FillAcType
<1>3. dps \in Seq(Access)
  <2> HIDE DEF acs
  <2> QED
    BY <1>1, <1>2, FillDepType
<1>4. all \in Seq(Access)
  <2> HIDE DEF dps
  <2> QED
    BY <1>1, <1>3, FillDepType
<1>5. all = FillClause(slts, c)
  BY DEF FillClause
<1> QED
  BY <1>4, <1>5
-------------------------------------------------------------------------------
(* Type correctness.                                                       *)

\* The groups' fields, and what opening and closing one does to them.
LEMMA GroupsType ==
  ASSUME TypeOK
  PROVE  /\ DOMAIN groups = 1..Len(groups) /\ Len(groups) \in Nat
         /\ \A g \in DOMAIN groups :
              groups[g].owner \in Task /\ groups[g].outer \in Nat /\ groups[g].open \in BOOLEAN
<1> DEFINE G == [owner : Task, outer : Nat, open : BOOLEAN]
<1>1. groups \in Seq(G)
  BY DEF TypeOK
<1>2. DOMAIN groups = 1..Len(groups) /\ Len(groups) \in Nat /\ \A g \in DOMAIN groups : groups[g] \in G
  BY <1>1, LenProperties, ElementOfSeq
<1> QED
  BY <1>2

LEMMA OpenedType ==
  ASSUME TypeOK, NEW t \in Task, NEW n \in Nat,
         groups' = Append(groups, [owner |-> t, outer |-> n, open |-> TRUE])
  PROVE  /\ groups' \in Seq([owner : Task, outer : Nat, open : BOOLEAN])
         /\ Len(groups') = Len(groups) + 1
         /\ DOMAIN groups' = 1..Len(groups')
         /\ \A g \in DOMAIN groups : groups'[g] = groups[g]
         /\ groups'[Len(groups) + 1] = [owner |-> t, outer |-> n, open |-> TRUE]
<1> DEFINE G == [owner : Task, outer : Nat, open : BOOLEAN]
           e == [owner |-> t, outer |-> n, open |-> TRUE]
<1>1. groups \in Seq(G) /\ e \in G
  BY DEF TypeOK
<1> HIDE DEF G
<1>2. /\ groups' \in Seq(G) /\ Len(groups') = Len(groups) + 1
      /\ \A g \in 1..Len(groups) : groups'[g] = groups[g]
      /\ groups'[Len(groups) + 1] = e
  BY <1>1, AppendProperties
<1> QED
  BY <1>1, <1>2, LenProperties DEF G

LEMMA ClosedType ==
  ASSUME TypeOK, NEW n \in DOMAIN groups, groups' = [groups EXCEPT ![n].open = FALSE]
  PROVE  /\ groups' \in Seq([owner : Task, outer : Nat, open : BOOLEAN])
         /\ Len(groups') = Len(groups)
         /\ DOMAIN groups' = DOMAIN groups
         /\ \A g \in DOMAIN groups : g # n => groups'[g] = groups[g]
         /\ groups'[n].owner = groups[n].owner /\ groups'[n].outer = groups[n].outer
         /\ ~groups'[n].open
<1> DEFINE G == [owner : Task, outer : Nat, open : BOOLEAN]
           e == [groups[n] EXCEPT !.open = FALSE]
<1>0. groups \in Seq(G)
  BY DEF TypeOK
<1>1. groups \in Seq(G) /\ DOMAIN groups = 1..Len(groups) /\ \A g \in DOMAIN groups : groups[g] \in G
  BY <1>0, LenProperties, ElementOfSeq
<1>2. e \in G /\ e.owner = groups[n].owner /\ e.outer = groups[n].outer /\ e.open = FALSE
  <2>1. ASSUME NEW r \in G
        PROVE  LET x == [r EXCEPT !.open = FALSE]
               IN  x \in G /\ x.owner = r.owner /\ x.outer = r.outer /\ x.open = FALSE
    OBVIOUS
  <2> QED
    BY <1>1, <2>1
<1>3. groups' = [groups EXCEPT ![n] = e]
  OBVIOUS
<1>4. /\ groups' \in Seq(G) /\ Len(groups') = Len(groups)
      /\ \A g \in 1..Len(groups) : groups'[g] = IF g = n THEN e ELSE groups[g]
  <2> HIDE DEF G, e
  <2>1. groups \in Seq(G) /\ n \in 1..Len(groups) /\ e \in G
    BY <1>1, <1>2
  <2>2. /\ [groups EXCEPT ![n] = e] \in Seq(G)
        /\ Len([groups EXCEPT ![n] = e]) = Len(groups)
        /\ \A g \in 1..Len(groups) :
             [groups EXCEPT ![n] = e][g] = IF g = n THEN e ELSE groups[g]
    BY ONLY <2>1, ExceptSeq
  <2> QED
    BY <1>3, <2>2
<1> QED
  BY <1>1, <1>2, <1>4, LenProperties

\* Types are kept when a task is created.
LEMMA NewTaskType ==
  ASSUME TypeOK, CurInv, NEW t \in Task, NEW u \in Explicit, NEW a \in Attr,
         NEW c \in Clauses \cup {NoClause}, NewTask(t, u, a, c)
  PROVE  /\ attr' \in [Task -> Attr]
         /\ parent' \in [Task -> Task \cup {NoTask}]
         /\ clause' \in [Task -> Clauses \cup {NoClause}]
         /\ cur' \in [Task -> Nat] /\ bound' \in [Task -> Nat]
         /\ groups' \in Seq([owner : Task, outer : Nat, open : BOOLEAN])
         /\ regions' \in [Task -> SUBSET Group]
<1>1. Inside(t) \in SUBSET Group
  <2>1. DOMAIN groups \subseteq Group
    BY GroupsType, BoundAssumption DEF CurInv, Group
  <2>2. regions[t] \in SUBSET Group
    BY DEF TypeOK
  <2> QED
    BY <2>1, <2>2 DEF Inside
<1>2. [a EXCEPT !.record = t \in rec \/ attr[t].record] \in Attr
  BY DEF Attr, TypeOK
<1>3. u \in Task
  BY DEF Task
<1>4. attr' \in [Task -> Attr]
  BY <1>2, <1>3 DEF TypeOK, NewTask
<1>5. regions' \in [Task -> SUBSET Group]
  BY <1>1, <1>3 DEF TypeOK, NewTask
<1> QED
  BY <1>3, <1>4, <1>5 DEF TypeOK, NewTask
\* The clause and the attributes tasks start with.
LEMMA InitialTypes ==
  /\ NoClause \in ClauseSet /\ HostAttr \in Attr /\ EmptyAttr \in Attr
<1>1. << >> \in Seq(AcItem) /\ << >> \in Seq(DepItem)
  OBVIOUS
<1>2. NoClause \in ClauseSet
  BY <1>1 DEF NoClause, ClauseSet
<1>3. HostAttr \in Attr
  BY DEF HostAttr, Attr
<1>4. ASSUME NEW r \in Attr PROVE [r EXCEPT !.undeferred = TRUE, !.body = FALSE] \in Attr
  BY DEF Attr
<1>5. EmptyAttr \in Attr
  BY <1>3, <1>4 DEF EmptyAttr
<1> QED
  BY <1>2, <1>3, <1>5

\* An action stays within the types.
LEMMA TypeStep == IInv /\ [Next]_vars => TypeOK'
<1> SUFFICES ASSUME IInv, [Next]_vars PROVE TypeOK'
  OBVIOUS
<1>0. TypeOK /\ TreeInv /\ CodeInv /\ CurInv
  BY DEF IInv, GroupInv
<1> USE <1>0 DEF TypeOK, vars, taskVars, codeVars, runVars, groupVars, restVars
<1>1. ASSUME NEW t \in Task, NEW u \in Explicit, NEW a \in Attrs, NEW c \in Clauses,
             TaskAlloc(t, u, a, c)
      PROVE  TypeOK'
  <2>1. a \in Attr /\ c \in ClauseSet /\ u \in Task
    BY AttrAssumption, ClauseAssumption DEF Task
  <2>2. AllocSlots(abi, c) \in Seq(Access)
    BY <2>1, AllocSlotsType
  <2>3. slots' \in [Task -> Seq(Access)]
    BY <1>1, <2>1, <2>2 DEF TaskAlloc
  <2>4. NewTask(t, u, a, c)
    BY <1>1 DEF TaskAlloc
  <2> QED
    BY <1>1, <2>1, <2>3, <2>4, NewTaskType DEF TaskAlloc
<1>2. ASSUME NEW t \in Task, NEW u \in Explicit, OmpTask(t, u) PROVE TypeOK'
  BY <1>2 DEF OmpTask, Commit, Task
<1>3. ASSUME NEW t \in Task, NEW u \in Explicit, OmpTaskWithDeps(t, u) PROVE TypeOK'
  <2>1. CASE Fatal
    BY <2>1 DEF Fatal
  <2>2. CASE ~Refused(u)
    <3>1. u \in Task /\ clause[u] \in ClauseSet /\ slots[u] \in Seq(Access)
      BY ClauseAssumption, InitialTypes DEF Task
    <3>2. FillClause(slots[u], clause[u]) \in Seq(Access)
      BY <3>1, FillClauseType
    <3>3. slots' = [slots EXCEPT ![u] = FillClause(slots[u], clause[u])]
      BY <1>3, <2>2 DEF OmpTaskWithDeps
    <3>4. slots' \in [Task -> Seq(Access)]
      BY <3>2, <3>3
    <3>5. Commit(t, u) /\ Resolve(u) /\ UNCHANGED <<attr, parent, clause, part, runVars, groupVars, abi, cmds, rec>>
      BY <1>3, <2>2 DEF OmpTaskWithDeps
    <3> QED
      BY <3>1, <3>4, <3>5 DEF Commit, Resolve
  <2> QED
    BY <1>3, <2>1, <2>2 DEF OmpTaskWithDeps
<1>4. ASSUME NEW t \in Task, OmpTaskReenter(t) PROVE TypeOK'
  BY <1>4 DEF OmpTaskReenter
<1>5. ASSUME NEW t \in Task, NEW u \in Explicit, NEW c \in Clauses, TaskwaitDeps(t, u, c)
      PROVE  TypeOK'
  <2>1. CASE Fatal
    BY <2>1 DEF Fatal
  <2>2. CASE ~Unsupported(c)
    <3>1. u \in Task /\ c \in ClauseSet /\ EmptyAttr \in Attr
      BY ClauseAssumption, InitialTypes DEF Task
    <3>2. [i \in 1..NAccesses(c) |-> Garbage] \in Seq(Access)
      BY <3>1, AllocSlotsType
    <3>3. FillClause([i \in 1..NAccesses(c) |-> Garbage], c) \in Seq(Access)
      BY <3>1, <3>2, FillClauseType
    <3>4. slots' \in [Task -> Seq(Access)]
      BY <1>5, <2>2, <3>1, <3>3 DEF TaskwaitDeps
    <3>5. /\ NewTask(t, u, EmptyAttr, c)
          /\ status' = [status EXCEPT ![u] = "committed"]
          /\ pc' = [pc EXCEPT ![t] = "waittask"]
          /\ await' = [await EXCEPT ![t] = u]
          /\ Resolve(u)
          /\ UNCHANGED <<part, runVars, abi, cmds, rec>>
      BY <1>5, <2>2 DEF TaskwaitDeps
    <3>6. mode' \in {"running", "over", "aborted", "undefined"}
      BY <3>5 DEF Resolve
    <3> QED
      BY <3>1, <3>4, <3>5, <3>6, NewTaskType
  <2> QED
    BY <1>5, <2>1, <2>2 DEF TaskwaitDeps
<1>18. ASSUME NEW t \in Task, NEW u \in Explicit, NEW c \in Clauses, TargetMemcpyAsync(t, u, c)
       PROVE  TypeOK'
  <2>1. CASE Unsupported(c)
    BY <1>18, <2>1 DEF TargetMemcpyAsync, Fatal
  <2>2. CASE ~Unsupported(c)
    <3>1. u \in Task /\ c \in ClauseSet /\ TransferAttr \in Attr
      BY <1>18, ClauseAssumption, AttrAssumption DEF Task, TargetMemcpyAsync
    <3>2. [i \in 1..NAccesses(c) |-> Garbage] \in Seq(Access)
      BY <3>1, AllocSlotsType
    <3>3. FillClause([i \in 1..NAccesses(c) |-> Garbage], c) \in Seq(Access)
      BY <3>1, <3>2, FillClauseType
    <3>4. slots' \in [Task -> Seq(Access)]
      BY <1>18, <2>2, <3>1, <3>3 DEF TargetMemcpyAsync
    <3>5. /\ NewTask(t, u, TransferAttr, c)
          /\ status' = [status EXCEPT ![u] = "committed"]
          /\ Resolve(u)
          /\ UNCHANGED <<codeVars, runVars, abi, cmds, rec>>
      BY <1>18, <2>2 DEF TargetMemcpyAsync
    <3>6. mode' \in {"running", "over", "aborted", "undefined"}
      BY <3>5 DEF Resolve
    <3> QED
      BY <3>1, <3>4, <3>5, <3>6, NewTaskType
  <2> QED
    BY <2>1, <2>2
<1>6. ASSUME NEW t \in Task, Taskwait(t) \/ TaskgroupEnd(t) \/ RegionEnd(t) PROVE TypeOK'
  BY <1>6 DEF Taskwait, TaskgroupEnd, RegionEnd, WaitsAs
<1>7. ASSUME NEW t \in Task, TaskwaitReturn(t) \/ AwaitReturn(t) PROVE TypeOK'
  BY <1>7 DEF TaskwaitReturn, AwaitReturn, Resumed
<1>8. ASSUME NEW t \in Task, TaskgroupBegin(t) PROVE TypeOK'
  <2>1. Len(groups) \in Nat /\ cur[t] \in Nat
    BY GroupsType
  <2>2. groups' \in Seq([owner : Task, outer : Nat, open : BOOLEAN])
    BY <1>8, <2>1, OpenedType DEF TaskgroupBegin
  <2> QED
    BY <1>8, <2>1, <2>2 DEF TaskgroupBegin
<1>9. ASSUME NEW t \in Task, TaskgroupReturn(t) PROVE TypeOK'
  <2>1. cur[t] \in DOMAIN groups
    BY <1>9, GroupsType DEF TaskgroupReturn, CodeInv, CurInv
  <2>2. groups' \in Seq([owner : Task, outer : Nat, open : BOOLEAN])
    BY <1>9, <2>1, ClosedType DEF TaskgroupReturn
  <2>3. groups[cur[t]].outer \in Nat
    BY <2>1, GroupsType
  <2> QED
    BY <1>9, <2>2, <2>3 DEF TaskgroupReturn, Resumed
<1>10. ASSUME NEW u \in Explicit, NEW where \in Thread \cup {Device}, Begin(u, where)
       PROVE  mode' = mode => TypeOK'
  BY <1>10 DEF Begin, Task
<1>11. ASSUME NEW t \in Task, NEW u \in Explicit, Schedule(t, u) PROVE TypeOK'
  <2>1. CASE runner[t] = NoTask
    <3>1. runner' \in [Task -> Thread \cup {Device, NoTask}]
      BY <1>11, <2>1 DEF Schedule, Begin
    <3> QED
      BY <1>11, <3>1 DEF Schedule, Begin
  <2>2. CASE runner[t] # NoTask
    BY <1>10, <1>11, <2>2 DEF Schedule, Begin
  <2> QED
    BY <2>1, <2>2
<1>12. ASSUME NEW u \in Explicit, DeviceBegin(u) PROVE TypeOK'
  BY <1>10, <1>12 DEF DeviceBegin, Begin
<1>13. ASSUME NEW u \in Explicit, DeviceComplete(u) PROVE TypeOK'
  BY <1>13 DEF DeviceComplete, Complete, Task
<1>14. ASSUME NEW t \in Task, BodyReturn(t) PROVE TypeOK'
  <2>1. cmds' \in Seq(Explicit)
    BY <1>14, AppendProperties DEF BodyReturn
  <2>2. UNCHANGED <<attr, parent, clause, slots, groupVars, abi, rec, mode>>
    BY <1>14 DEF BodyReturn
  <2>3. CASE Complete(t) /\ UNCHANGED codeVars
    BY <2>1, <2>2, <2>3 DEF Complete
  <2>4. CASE /\ part[t] # 1
             /\ part' = [part EXCEPT ![t] = @ - 1]
             /\ pc' = [pc EXCEPT ![t] = "unwind"]
             /\ UNCHANGED <<status, await, runVars>>
    <3>1. part[t] \in Nat \ {0} /\ part[t] # 1
      BY <2>4
    <3>2. part[t] - 1 \in Nat \ {0}
      BY <3>1
    <3>3. part' \in [Task -> Nat \ {0}]
      BY <2>4, <3>2
    <3> QED
      BY <2>1, <2>2, <2>4, <3>3
  <2> QED
    BY <1>14, <2>3, <2>4 DEF BodyReturn
<1>15. CASE TeamBarrier
  BY <1>15 DEF TeamBarrier
<1>16. CASE UNCHANGED vars
  BY <1>16
<1>17. ASSUME NEW t \in Task, Steps(t) PROVE TypeOK'
  BY <1>1, <1>2, <1>3, <1>4, <1>5, <1>6, <1>7, <1>8, <1>9, <1>11, <1>14, <1>17,
        <1>18
     DEF Steps, Constructs, Submits, CodeInv
<1> QED
  BY <1>12, <1>13, <1>15, <1>16, <1>17 DEF Next, DeviceStep, Done
-------------------------------------------------------------------------------
(* What the steps do to the variables the other invariants read.           *)

shape == <<status, attr, parent, below, cur, bound, groups, regions>>

Creates(t, u) ==
  /\ Executing(t) /\ status[u] = "none"
  /\ \E s \in {"allocated", "committed"} : status' = [status EXCEPT ![u] = s]
  /\ \E a \in Attr : attr' = [attr EXCEPT ![u] = a]
  /\ parent' = [parent EXCEPT ![u] = t]
  /\ cur' = [cur EXCEPT ![u] = cur[t]]
  /\ bound' = [bound EXCEPT ![u] = cur[t]]
  /\ regions' = [regions EXCEPT ![u] = Inside(t)]
  /\ UNCHANGED <<below, groups>>

Commits(u) ==
  /\ status[u] = "allocated"
  /\ status' = [status EXCEPT ![u] = "committed"]
  /\ UNCHANGED <<attr, parent, below, cur, bound, groups, regions>>

Starts(u) ==
  /\ status[u] = "committed"
  /\ status' = [status EXCEPT ![u] = "executing"]
  /\ below' = [below EXCEPT ![u] = {v \in Task : Executing(v)}]
  /\ UNCHANGED <<attr, parent, cur, bound, groups, regions>>

Completes(u) ==
  /\ Executing(u) /\ cur[u] = bound[u]
  /\ status' = [status EXCEPT ![u] = "completed"]
  /\ below' = [v \in Task |-> IF v = u THEN {} ELSE below[v] \ {u}]
  /\ UNCHANGED <<attr, parent, cur, bound, groups, regions>>

Opens(t) ==
  /\ Executing(t) /\ ~attr[t].target
  /\ Len(groups) < MaxGroups
  /\ groups' = Append(groups, [owner |-> t, outer |-> cur[t], open |-> TRUE])
  /\ cur' = [cur EXCEPT ![t] = Len(groups) + 1]
  /\ UNCHANGED <<status, attr, parent, below, bound, regions>>

Closes(t) ==
  /\ cur[t] # bound[t]
  /\ \A u \in Explicit : bound[u] = cur[t] => status[u] \in {"none", "completed"}
  /\ groups' = [groups EXCEPT ![cur[t]].open = FALSE]
  /\ cur' = [cur EXCEPT ![t] = groups[cur[t]].outer]
  /\ UNCHANGED <<status, attr, parent, below, bound, regions>>

\* Every step is one of these, or leaves the shape alone.
LEMMA StepKinds ==
  ASSUME IInv, [Next]_vars
  PROVE  \/ \E t \in Task, u \in Explicit : Creates(t, u)
         \/ \E u \in Explicit : Commits(u) \/ Starts(u) \/ Completes(u)
         \/ \E t \in Task : Opens(t) \/ Closes(t)
         \/ UNCHANGED shape
<1> DEFINE Goal == \/ \E t \in Task, u \in Explicit : Creates(t, u)
                   \/ \E u \in Explicit : Commits(u) \/ Starts(u) \/ Completes(u)
                   \/ \E t \in Task : Opens(t) \/ Closes(t)
                   \/ UNCHANGED shape
<1>0. TypeOK /\ CodeInv /\ CurInv
  BY DEF IInv, GroupInv
<1> USE DEF shape, vars, taskVars, codeVars, runVars, groupVars, restVars
<1>1. ASSUME NEW t \in Task, NEW u \in Explicit, NEW a \in Attrs, NEW c \in Clauses,
             TaskAlloc(t, u, a, c)
      PROVE  Creates(t, u)
  <2>1. [a EXCEPT !.record = t \in rec \/ attr[t].record] \in Attr
    BY <1>0, AttrAssumption DEF Attr, TypeOK
  <2> QED
    BY <1>1, <2>1 DEF TaskAlloc, NewTask, Encountering, Current, Fresh, Creates
<1>2. ASSUME NEW t \in Task, NEW u \in Explicit, NEW c \in Clauses, TaskwaitDeps(t, u, c)
      PROVE  Creates(t, u) \/ UNCHANGED shape
  <2>1. CASE Unsupported(c)
    BY <1>2, <2>1 DEF TaskwaitDeps, Fatal
  <2>2. CASE ~Unsupported(c)
    <3>1. [EmptyAttr EXCEPT !.record = t \in rec \/ attr[t].record] \in Attr
      BY <1>0, InitialTypes DEF Attr, TypeOK
    <3>2. NewTask(t, u, EmptyAttr, c) /\ status' = [status EXCEPT ![u] = "committed"]
          /\ UNCHANGED runVars
      BY <1>2, <2>2 DEF TaskwaitDeps
    <3> QED
      BY <1>2, <3>1, <3>2 DEF TaskwaitDeps, NewTask, Encountering, Current, Fresh, Creates
  <2> QED
    BY <2>1, <2>2
<1>14. ASSUME NEW t \in Task, NEW u \in Explicit, NEW c \in Clauses, TargetMemcpyAsync(t, u, c)
       PROVE  Creates(t, u) \/ UNCHANGED shape
  <2>1. CASE Unsupported(c)
    BY <1>14, <2>1 DEF TargetMemcpyAsync, Fatal
  <2>2. CASE ~Unsupported(c)
    <3>1. [TransferAttr EXCEPT !.record = t \in rec \/ attr[t].record] \in Attr
      <4>1. TransferAttr \in Attr
        BY <1>14, AttrAssumption DEF TargetMemcpyAsync
      <4> QED
        BY <1>0, <4>1 DEF Attr, TypeOK
    <3>2. NewTask(t, u, TransferAttr, c) /\ status' = [status EXCEPT ![u] = "committed"]
          /\ UNCHANGED runVars
      BY <1>14, <2>2 DEF TargetMemcpyAsync
    <3> QED
      BY <1>14, <3>1, <3>2 DEF TargetMemcpyAsync, NewTask, Encountering, Current, Fresh, Creates
  <2> QED
    BY <2>1, <2>2
<1>3. ASSUME NEW t \in Task, NEW u \in Explicit, OmpTask(t, u) PROVE Commits(u)
  BY <1>0, <1>3 DEF OmpTask, Submitting, Commit, Commits, CodeInv
<1>4. ASSUME NEW t \in Task, NEW u \in Explicit, OmpTaskWithDeps(t, u)
      PROVE  Commits(u) \/ UNCHANGED shape
  <2>1. CASE Refused(u)
    BY <1>4, <2>1 DEF OmpTaskWithDeps, Fatal
  <2>2. CASE ~Refused(u)
    BY <1>0, <1>4, <2>2 DEF OmpTaskWithDeps, Submitting, Commit, Commits, CodeInv
  <2> QED
    BY <2>1, <2>2
<1>5. ASSUME NEW t \in Task,
             \/ OmpTaskReenter(t) \/ Taskwait(t) \/ TaskwaitReturn(t) \/ AwaitReturn(t)
             \/ TaskgroupEnd(t) \/ RegionEnd(t)
      PROVE  UNCHANGED shape
  BY <1>5 DEF OmpTaskReenter, Taskwait, TaskwaitReturn, AwaitReturn, TaskgroupEnd, RegionEnd
<1>6. ASSUME NEW t \in Task, TaskgroupBegin(t) PROVE Opens(t)
  BY <1>6 DEF TaskgroupBegin, Encountering, Current, Opens
<1>7. ASSUME NEW t \in Task, TaskgroupReturn(t) PROVE Closes(t)
  BY <1>0, <1>7 DEF TaskgroupReturn, Closes, CodeInv
<1>8. ASSUME NEW t \in Task, NEW u \in Explicit, Schedule(t, u) PROVE Starts(u)
  BY <1>8 DEF Schedule, Ready, Begin, Starts
<1>9. ASSUME NEW u \in Explicit, DeviceBegin(u) PROVE Starts(u)
  BY <1>9 DEF DeviceBegin, Ready, Begin, Starts
<1>10. ASSUME NEW u \in Explicit, DeviceComplete(u) PROVE Completes(u)
  BY <1>0, <1>10 DEF DeviceComplete, Complete, Completes, CurInv, Task
<1>11. ASSUME NEW t \in Task, BodyReturn(t) PROVE Completes(t) \/ UNCHANGED shape
  BY <1>0, <1>11 DEF BodyReturn, Complete, Completes, Current, CodeInv
<1>12. ASSUME NEW t \in Task, Steps(t) PROVE Goal
  <2>1. CASE Constructs(t)
    BY <1>1, <1>2, <1>14, <2>1 DEF Constructs
  <2>2. CASE Submits(t)
    BY <1>0, <1>3, <1>4, <2>2 DEF Submits, CodeInv
  <2>3. CASE BodyReturn(t)
    BY <1>11, <2>3 DEF BodyReturn
  <2> QED
    BY <1>5, <1>6, <1>7, <1>8, <1>12, <2>1, <2>2, <2>3 DEF Steps
<1>13. CASE TeamBarrier \/ Done \/ UNCHANGED vars
  BY <1>13 DEF TeamBarrier, Done
<1> QED
  BY <1>9, <1>10, <1>12, <1>13 DEF Next, DeviceStep
-------------------------------------------------------------------------------
(* The invariants, kind of step by kind of step.                           *)

\* No task is both explicit and implicit, and NoTask is neither.
LEMMA DisjointTasks ==
  /\ Explicit \cap Thread = {} /\ Task = Explicit \cup Thread /\ NoTask \notin Task
BY ThreadAssumption, BoundAssumption DEF Explicit, Task

\* Opening a group adds it and moves no other.
LEMMA OpensGroup ==
  ASSUME IInv, NEW t \in Task, Opens(t)
  PROVE  LET n == Len(groups) + 1
         IN  /\ Len(groups) \in Nat /\ DOMAIN groups = 1..Len(groups)
             /\ Len(groups') = n /\ DOMAIN groups' = 1..n
             /\ \A g \in DOMAIN groups : groups'[g] = groups[g]
             /\ groups'[n].owner = t /\ groups'[n].outer = cur[t] /\ groups'[n].open
<1>1. TypeOK
  BY DEF IInv
<1>2. cur[t] \in Nat
  BY <1>1 DEF TypeOK
<1> QED
  BY <1>1, <1>2, GroupsType, OpenedType DEF Opens

\* Closing one changes nothing but that.
LEMMA ClosesGroup ==
  ASSUME IInv, NEW t \in Task, Closes(t)
  PROVE  /\ cur[t] \in DOMAIN groups /\ groups[cur[t]].open /\ groups[cur[t]].owner = t
         /\ Len(groups) \in Nat /\ DOMAIN groups = 1..Len(groups)
         /\ Len(groups') = Len(groups) /\ DOMAIN groups' = DOMAIN groups
         /\ \A g \in DOMAIN groups : g # cur[t] => groups'[g] = groups[g]
         /\ groups'[cur[t]].owner = t /\ groups'[cur[t]].outer = groups[cur[t]].outer
         /\ ~groups'[cur[t]].open
<1>1. TypeOK /\ CurInv
  BY DEF IInv, GroupInv
<1>2. DOMAIN groups = 1..Len(groups) /\ Len(groups) \in Nat
  BY <1>1, GroupsType
<1>3. cur[t] \in DOMAIN groups /\ groups[cur[t]].open /\ groups[cur[t]].owner = t
  BY <1>1, <1>2 DEF Closes, CurInv
<1> QED
  BY <1>1, <1>2, <1>3, ClosedType DEF Closes

\* The tree of tasks only grows, below tasks that have started.
LEMMA TreeStep == IInv /\ [Next]_vars => TreeInv'
<1> SUFFICES ASSUME IInv, [Next]_vars PROVE TreeInv'
  OBVIOUS
<1>0. TypeOK /\ TreeInv /\ BelowInv /\ OpenInv /\ CurInv /\ BoundInv /\ AncestorInv
  BY DEF IInv, GroupInv
<1> USE <1>0, DisjointTasks DEF TypeOK, TreeInv, Executing
<1>1. ASSUME NEW t \in Task, NEW u \in Explicit, Creates(t, u) PROVE TreeInv'
  BY <1>1 DEF Creates
<1>2. ASSUME NEW u \in Explicit, Commits(u) PROVE TreeInv'
  BY <1>2 DEF Commits
<1>3. ASSUME NEW u \in Explicit, Starts(u) PROVE TreeInv'
  BY <1>3 DEF Starts
<1>4. ASSUME NEW u \in Explicit, Completes(u) PROVE TreeInv'
  BY <1>4 DEF Completes
<1>5. ASSUME NEW t \in Task, Opens(t) PROVE TreeInv'
  BY <1>5 DEF Opens
<1>6. ASSUME NEW t \in Task, Closes(t) PROVE TreeInv'
  BY <1>6 DEF Closes
<1>7. CASE UNCHANGED shape
  BY <1>7 DEF shape
<1> QED
  BY StepKinds, <1>1, <1>2, <1>3, <1>4, <1>5, <1>6, <1>7

\* A task that begins has all the executing ones below it.
LEMMA BelowStep == IInv /\ [Next]_vars => BelowInv'
<1> SUFFICES ASSUME IInv, [Next]_vars PROVE BelowInv'
  OBVIOUS
<1>0. TypeOK /\ TreeInv /\ BelowInv /\ OpenInv /\ CurInv /\ BoundInv /\ AncestorInv
  BY DEF IInv, GroupInv
<1> USE <1>0, DisjointTasks DEF TypeOK, TreeInv, BelowInv, Executing
<1>1. ASSUME NEW t \in Task, NEW u \in Explicit, Creates(t, u) PROVE BelowInv'
  BY <1>1 DEF Creates
<1>2. ASSUME NEW u \in Explicit, Commits(u) PROVE BelowInv'
  BY <1>2 DEF Commits
<1>3. ASSUME NEW u \in Explicit, Starts(u) PROVE BelowInv'
  BY <1>3 DEF Starts
<1>4. ASSUME NEW u \in Explicit, Completes(u) PROVE BelowInv'
  BY <1>4 DEF Completes
<1>5. ASSUME NEW t \in Task, Opens(t) PROVE BelowInv'
  BY <1>5 DEF Opens
<1>6. ASSUME NEW t \in Task, Closes(t) PROVE BelowInv'
  BY <1>6 DEF Closes
<1>7. CASE UNCHANGED shape
  BY <1>7 DEF shape
<1> QED
  BY StepKinds, <1>1, <1>2, <1>3, <1>4, <1>5, <1>6, <1>7

\* Opening and closing groups keeps a task in the innermost of its own.
LEMMA CurStep == IInv /\ [Next]_vars => CurInv'
<1> SUFFICES ASSUME IInv, [Next]_vars PROVE CurInv'
  OBVIOUS
<1>0. TypeOK /\ TreeInv /\ BelowInv /\ OpenInv /\ CurInv /\ BoundInv /\ AncestorInv
  BY DEF IInv, GroupInv
<1> USE <1>0, DisjointTasks DEF TypeOK, CurInv
<1>1. ASSUME NEW t \in Task, NEW u \in Explicit, Creates(t, u) PROVE CurInv'
  <2> SUFFICES ASSUME NEW v \in Task
               PROVE  /\ cur'[v] \in 0..Len(groups) /\ bound'[v] \in 0..Len(groups)
                      /\ attr'[v].target => cur'[v] = bound'[v]
                      /\ cur'[v] # bound'[v] =>
                           cur'[v] # 0 /\ groups[cur'[v]].open /\ groups[cur'[v]].owner = v
    BY <1>1 DEF Creates
  <2> QED
    BY <1>1 DEF Creates
<1>2. ASSUME NEW u \in Explicit, Commits(u) PROVE CurInv'
  BY <1>2 DEF Commits
<1>3. ASSUME NEW u \in Explicit, Starts(u) PROVE CurInv'
  BY <1>3 DEF Starts
<1>4. ASSUME NEW u \in Explicit, Completes(u) PROVE CurInv'
  BY <1>4 DEF Completes
<1>5. ASSUME NEW t \in Task, Opens(t) PROVE CurInv'
  <2> DEFINE n == Len(groups) + 1
  <2>1. /\ Len(groups) \in Nat /\ DOMAIN groups = 1..Len(groups) /\ Len(groups') = n
        /\ \A g \in DOMAIN groups : groups'[g] = groups[g]
        /\ groups'[n].owner = t /\ groups'[n].open
    BY <1>5, OpensGroup
  <2>2. Len(groups') <= MaxGroups
    BY <1>5, <2>1, BoundAssumption DEF Opens
  <2>3. ASSUME NEW v \in Task
        PROVE  /\ cur'[v] \in 0..Len(groups') /\ bound[v] \in 0..Len(groups')
               /\ attr[v].target => cur'[v] = bound[v]
               /\ cur'[v] # bound[v] =>
                    cur'[v] # 0 /\ groups'[cur'[v]].open /\ groups'[cur'[v]].owner = v
    <3>1. CASE v = t
      BY <1>5, <2>1, <3>1 DEF Opens
    <3>2. CASE v # t
      BY <1>5, <2>1, <3>2 DEF Opens
    <3> QED
      BY <3>1, <3>2
  <2> QED
    BY <1>5, <2>2, <2>3 DEF Opens
<1>6. ASSUME NEW t \in Task, Closes(t) PROVE CurInv'
  <2>0. Len(groups') <= MaxGroups /\ Len(groups') = Len(groups)
    BY <1>6, ClosesGroup
  <2> SUFFICES ASSUME NEW v \in Task
               PROVE  /\ cur'[v] \in 0..Len(groups')
                      /\ attr[v].target => cur'[v] = bound[v]
                      /\ cur'[v] # bound[v] =>
                           cur'[v] # 0 /\ groups'[cur'[v]].open /\ groups'[cur'[v]].owner = v
    BY <1>6, <2>0 DEF Closes
  <2>1. CASE v = t
    <3> DEFINE o == groups[cur[t]].outer
    <3>1. /\ cur[t] \in DOMAIN groups /\ groups[cur[t]].open /\ groups[cur[t]].owner = t
          /\ DOMAIN groups = 1..Len(groups) /\ Len(groups) \in Nat
          /\ \A g \in DOMAIN groups : g # cur[t] => groups'[g] = groups[g]
      BY <1>6, ClosesGroup
    <3>2. o < cur[t] /\ (o = bound[t] \/ (o \in DOMAIN groups /\ groups[o].open /\ groups[o].owner = t))
      BY <3>1 DEF OpenInv, Owns
    <3>3. cur'[t] = o /\ ~attr[t].target
      BY <1>6 DEF Closes
    <3> HIDE DEF o
    <3>4. CASE o = bound[t]
      BY <2>0, <2>1, <3>3, <3>4
    <3>5. CASE o \in DOMAIN groups /\ groups[o].open /\ groups[o].owner = t
      <4>1. o # cur[t] /\ o \in Nat /\ o # 0
        BY <3>1, <3>2, <3>5
      <4>2. groups'[o].open /\ groups'[o].owner = t
        BY <3>1, <3>5, <4>1
      <4> QED
        BY <2>0, <2>1, <3>1, <3>3, <3>5, <4>1, <4>2
    <3> QED
      BY <3>2, <3>4, <3>5
  <2>2. CASE v # t
    BY <1>6, <2>2, ClosesGroup DEF Closes
  <2> QED
    BY <2>1, <2>2
<1>7. CASE UNCHANGED shape
  BY <1>7 DEF shape
<1> QED
  BY StepKinds, <1>1, <1>2, <1>3, <1>4, <1>5, <1>6, <1>7

\* The group that closes has nobody counting for it.
LEMMA BoundStep == IInv /\ [Next]_vars => BoundInv'
<1> SUFFICES ASSUME IInv, [Next]_vars PROVE BoundInv'
  OBVIOUS
<1>0. TypeOK /\ TreeInv /\ BelowInv /\ OpenInv /\ CurInv /\ BoundInv /\ AncestorInv
  BY DEF IInv, GroupInv
<1> USE <1>0, DisjointTasks DEF TypeOK, CurInv, TreeInv, BoundInv, Executing
<1>1. ASSUME NEW t \in Task, NEW u \in Explicit, Creates(t, u) PROVE BoundInv'
  <2> SUFFICES ASSUME NEW v \in Explicit, status'[v] \notin {"none", "completed"}, bound'[v] # 0
               PROVE  groups[bound'[v]].open
    BY <1>1 DEF Creates
  <2>1. CASE v = u
    BY <1>1, <2>1 DEF Creates
  <2>2. CASE v # u
    BY <1>1, <2>2 DEF Creates
  <2> QED
    BY <2>1, <2>2
<1>2. ASSUME NEW u \in Explicit, Commits(u) PROVE BoundInv'
  BY <1>2 DEF Commits
<1>3. ASSUME NEW u \in Explicit, Starts(u) PROVE BoundInv'
  BY <1>3 DEF Starts
<1>4. ASSUME NEW u \in Explicit, Completes(u) PROVE BoundInv'
  BY <1>4 DEF Completes
<1>5. ASSUME NEW t \in Task, Opens(t) PROVE BoundInv'
  <2> SUFFICES ASSUME NEW v \in Explicit, status[v] \notin {"none", "completed"}, bound[v] # 0
               PROVE  groups'[bound[v]].open
    BY <1>5 DEF Opens
  <2> QED
    BY <1>5, OpensGroup DEF Opens
<1>6. ASSUME NEW t \in Task, Closes(t) PROVE BoundInv'
  <2> SUFFICES ASSUME NEW v \in Explicit, status[v] \notin {"none", "completed"}, bound[v] # 0
               PROVE  groups'[bound[v]].open
    BY <1>6 DEF Closes
  <2>1. bound[v] \in DOMAIN groups /\ bound[v] # cur[t] /\ groups[bound[v]].open
    BY <1>6, ClosesGroup DEF Closes
  <2> QED
    BY <1>6, <2>1, ClosesGroup
<1>7. CASE UNCHANGED shape
  BY <1>7 DEF shape
<1> QED
  BY StepKinds, <1>1, <1>2, <1>3, <1>4, <1>5, <1>6, <1>7

\* Open groups stay nested: the one that opens is innermost, the one that
\* closes is its owner's innermost.
LEMMA OpenStep == IInv /\ [Next]_vars => OpenInv'
<1> SUFFICES ASSUME IInv, [Next]_vars PROVE OpenInv'
  OBVIOUS
<1>0. TypeOK /\ OpenInv /\ CurInv
  BY DEF IInv, GroupInv
<1>a. /\ cur \in [Task -> Nat] /\ bound \in [Task -> Nat]
      /\ DOMAIN groups = 1..Len(groups) /\ Len(groups) \in Nat
      /\ \A g \in DOMAIN groups : groups[g].outer \in Nat
  BY <1>0, GroupsType DEF TypeOK
<1>b. ASSUME NEW u \in Explicit, UNCHANGED <<cur, bound, groups>>,
             \A o \in Task : o # u /\ Executing(o) => Executing(o)',
             \A g \in DOMAIN groups : Owns(groups, u, g) => Executing(u)'
      PROVE  OpenInv'
  BY <1>0, <1>b DEF OpenInv, Owns
<1>1. ASSUME NEW t \in Task, NEW u \in Explicit, Creates(t, u) PROVE OpenInv'
  <2>1. /\ u \in Task /\ UNCHANGED groups /\ ~Executing(u)
        /\ \A o \in Task : o # u => cur'[o] = cur[o] /\ bound'[o] = bound[o] /\ (Executing(o)' <=> Executing(o))
    BY <1>0, <1>1 DEF TypeOK, Creates, Executing, Task
  <2>2. \A o \in Task, g \in DOMAIN groups : Owns(groups, o, g) => o # u
    BY <1>0, <2>1 DEF OpenInv
  <2>3. \A o \in Task, g \in DOMAIN groups : Owns(groups', o, g) <=> Owns(groups, o, g)
    BY <2>1 DEF Owns
  <2> QED
    BY <1>0, <2>1, <2>2 DEF OpenInv, Owns
<1>2. ASSUME NEW u \in Explicit, Commits(u) PROVE OpenInv'
  <2>1. ~Executing(u) /\ \A o \in Task : o # u /\ Executing(o) => Executing(o)'
    BY <1>0, <1>2 DEF TypeOK, Commits, Executing
  <2> QED
    BY <1>0, <1>2, <1>b, <2>1, DisjointTasks DEF Commits, OpenInv
<1>3. ASSUME NEW u \in Explicit, Starts(u) PROVE OpenInv'
  <2>1. Executing(u)' /\ \A o \in Task : o # u /\ Executing(o) => Executing(o)'
    BY <1>0, <1>3, DisjointTasks DEF TypeOK, Starts, Executing
  <2> QED
    BY <1>3, <1>b, <2>1 DEF Starts
<1>4. ASSUME NEW u \in Explicit, Completes(u) PROVE OpenInv'
  <2>1. \A o \in Task : o # u /\ Executing(o) => Executing(o)'
    BY <1>0, <1>4 DEF TypeOK, Completes, Executing
  <2>2. \A g \in DOMAIN groups : ~Owns(groups, u, g)
    BY <1>0, <1>a, <1>4, DisjointTasks DEF Completes, OpenInv
  <2> QED
    BY <1>4, <1>b, <2>1, <2>2 DEF Completes
<1>5. ASSUME NEW t \in Task, Opens(t) PROVE OpenInv'
  <2> DEFINE n == Len(groups) + 1
  <2>1. /\ DOMAIN groups' = 1..n
        /\ \A g \in DOMAIN groups : groups'[g] = groups[g]
        /\ groups'[n].owner = t /\ groups'[n].outer = cur[t] /\ groups'[n].open
    BY <1>5, OpensGroup
  <2>2. /\ cur'[t] = n /\ \A o \in Task : o # t => cur'[o] = cur[o]
        /\ bound' = bound /\ Executing(t) /\ \A o \in Task : Executing(o)' <=> Executing(o)
    BY <1>0, <1>5 DEF TypeOK, Opens, Executing
  <2>3. \A g \in DOMAIN groups : g \in DOMAIN groups' /\ g < n /\ g # n
    BY <1>a, <2>1
  <2>4. \A o \in Task, g \in DOMAIN groups : Owns(groups', o, g) <=> Owns(groups, o, g)
    BY <2>1, <2>3 DEF Owns
  <2>5. \A o \in Task : Owns(groups', o, n) <=> o = t
    BY <1>a, <2>1 DEF Owns
  <2>6. \A o \in Task : \A g : Owns(groups, o, g) => Owns(groups', o, g)
    BY <2>3, <2>4 DEF Owns
  <2>7. cur[t] < n /\ bound[t] < n /\ (cur[t] = bound[t] \/ Owns(groups, t, cur[t]))
    BY <1>0, <1>a DEF CurInv, Owns
  <2> HIDE DEF n
  <2> SUFFICES ASSUME NEW o \in Task, NEW g \in DOMAIN groups', Owns(groups', o, g)
               PROVE  /\ Executing(o)'
                      /\ bound[o] < g /\ g <= cur'[o]
                      /\ groups'[g].outer < g
                      /\ groups'[g].outer = bound[o] \/ Owns(groups', o, groups'[g].outer)
                      /\ \A h \in DOMAIN groups' : Owns(groups', o, h) /\ h < g => h <= groups'[g].outer
    BY <2>2 DEF OpenInv
  <2>8. \A h \in DOMAIN groups' : h # n => h \in DOMAIN groups
    BY <1>a, <2>1 DEF n
  <2>9. n \in Nat
    BY <1>a DEF n
  <2>10. CASE g = n
    <3>1. o = t
      BY <2>5, <2>10
    <3>2. \A h \in DOMAIN groups' : Owns(groups', o, h) /\ h < g => h <= cur[t]
      BY <1>0, <2>4, <2>8, <2>9, <2>10, <3>1 DEF OpenInv
    <3>3. cur[t] = bound[t] \/ Owns(groups', t, cur[t])
      BY <2>6, <2>7
    <3> QED
      BY <2>1, <2>2, <2>7, <2>9, <2>10, <3>1, <3>2, <3>3
  <2>11. CASE g # n
    <3>1. g \in DOMAIN groups /\ Owns(groups, o, g) /\ groups'[g] = groups[g]
      BY <2>1, <2>4, <2>8, <2>11
    <3>2. /\ Executing(o) /\ bound[o] < g /\ g <= cur[o] /\ groups[g].outer < g
          /\ groups[g].outer = bound[o] \/ Owns(groups, o, groups[g].outer)
          /\ \A h \in DOMAIN groups : Owns(groups, o, h) /\ h < g => h <= groups[g].outer
      BY <1>0, <3>1 DEF OpenInv
    <3>3. g <= cur'[o]
      BY <1>a, <2>2, <2>3, <2>9, <3>1, <3>2
    <3>4. groups[g].outer = bound[o] \/ Owns(groups', o, groups[g].outer)
      BY <2>6, <3>2
    <3>5. \A h \in DOMAIN groups' : Owns(groups', o, h) /\ h < g => h <= groups[g].outer
      BY <1>a, <2>3, <2>4, <2>8, <2>9, <3>1, <3>2
    <3> QED
      BY <2>2, <3>1, <3>2, <3>3, <3>4, <3>5
  <2> QED
    BY <2>10, <2>11
<1>6. ASSUME NEW t \in Task, Closes(t) PROVE OpenInv'
  <2> DEFINE c == cur[t]
  <2>1. /\ c \in DOMAIN groups /\ Owns(groups, t, c) /\ DOMAIN groups' = DOMAIN groups
        /\ \A g \in DOMAIN groups : g # c => groups'[g] = groups[g]
        /\ groups'[c].outer = groups[c].outer /\ ~groups'[c].open
    BY <1>6, ClosesGroup DEF Owns
  <2>2. /\ cur'[t] = groups[c].outer /\ \A o \in Task : o # t => cur'[o] = cur[o]
        /\ bound' = bound /\ \A o \in Task : Executing(o)' <=> Executing(o)
    BY <1>0, <1>6 DEF TypeOK, Closes, Executing
  <2>3. \A o \in Task : \A g : Owns(groups', o, g) <=> Owns(groups, o, g) /\ g # c
    BY <2>1 DEF Owns
  <2>4. \A g \in DOMAIN groups : groups'[g].outer = groups[g].outer
    BY <2>1
  <2> HIDE DEF c
  <2> SUFFICES ASSUME NEW o \in Task, NEW g \in DOMAIN groups, Owns(groups, o, g), g # c
               PROVE  /\ Executing(o)'
                      /\ bound[o] < g /\ g <= cur'[o]
                      /\ groups[g].outer < g
                      /\ groups[g].outer = bound[o] \/ Owns(groups', o, groups[g].outer)
                      /\ \A h \in DOMAIN groups : Owns(groups', o, h) /\ h < g => h <= groups[g].outer
    BY <2>1, <2>2, <2>3, <2>4 DEF OpenInv
  <2>5. /\ Executing(o) /\ bound[o] < g /\ g <= cur[o] /\ groups[g].outer < g
        /\ groups[g].outer = bound[o] \/ Owns(groups, o, groups[g].outer)
        /\ \A h \in DOMAIN groups : Owns(groups, o, h) /\ h < g => h <= groups[g].outer
    BY <1>0 DEF OpenInv
  <2>6. \A h \in DOMAIN groups : Owns(groups', o, h) /\ h < g => h <= groups[g].outer
    BY <2>3, <2>5
  <2>7. CASE o = t
    <3>1. g < c
      BY <1>a, <2>1, <2>5, <2>7 DEF c
    <3>2. g <= groups[c].outer
      BY <1>0, <2>1, <2>7, <3>1 DEF OpenInv
    <3>3. groups[g].outer # c
      BY <1>a, <2>1, <2>5, <3>1
    <3> QED
      BY <2>2, <2>3, <2>5, <2>6, <2>7, <3>2, <3>3
  <2>8. CASE o # t
    <3>1. ~Owns(groups, o, c)
      BY <2>1, <2>8 DEF Owns
    <3> QED
      BY <2>2, <2>3, <2>5, <2>6, <2>8, <3>1
  <2> QED
    BY <2>7, <2>8
<1>7. CASE UNCHANGED shape
  BY <1>0, <1>7 DEF shape, OpenInv, Owns, Executing
<1> QED
  BY StepKinds, <1>1, <1>2, <1>3, <1>4, <1>5, <1>6, <1>7

\* A task that begins has the owner of every open group below it, and a group
\* is not closed, nor its owner gone, under a task that counts for it.
LEMMA AncestorStep == IInv /\ [Next]_vars => AncestorInv'
<1> SUFFICES ASSUME IInv, [Next]_vars PROVE AncestorInv'
  OBVIOUS
<1>0. TypeOK /\ TreeInv /\ OpenInv /\ CurInv /\ AncestorInv
  BY DEF IInv, GroupInv
<1>a. /\ status \in [Task -> {"none", "allocated", "committed", "executing", "completed"}]
      /\ parent \in [Task -> Task \cup {NoTask}] /\ below \in [Task -> SUBSET Task]
      /\ cur \in [Task -> Nat] /\ bound \in [Task -> Nat]
  BY <1>0 DEF TypeOK
<1>b. \A w \in Explicit : bound[w] # 0 =>
        bound[w] \in DOMAIN groups /\ groups[bound[w]].owner \in Task
  BY <1>0, GroupsType, DisjointTasks DEF CurInv
<1>c. \A w \in Explicit : bound[w] # 0 /\ groups[bound[w]].open =>
        LET o == groups[bound[w]].owner
        IN  Executing(o) /\ o \in Task /\ bound[o] # cur[o]
  <2> SUFFICES ASSUME NEW w \in Explicit, bound[w] # 0, groups[bound[w]].open
               PROVE  LET o == groups[bound[w]].owner
                      IN  Executing(o) /\ o \in Task /\ bound[o] # cur[o]
    OBVIOUS
  <2>1. PICK o \in Task : o = groups[bound[w]].owner
    BY <1>b
  <2>2. PICK g \in DOMAIN groups : g = bound[w]
    BY <1>b
  <2>3. Executing(o) /\ bound[o] < g /\ g <= cur[o]
    BY <1>0, <2>1, <2>2 DEF OpenInv, Owns
  <2>4. bound[o] \in Nat /\ cur[o] \in Nat /\ g \in Nat
    BY <1>0, <1>a, GroupsType
  <2> QED
    BY <2>1, <2>3, <2>4
<1>1. ASSUME NEW t \in Task, NEW u \in Explicit, Creates(t, u) PROVE AncestorInv'
  <2>1. /\ \A w \in Task : w # u => parent'[w] = parent[w] /\ bound'[w] = bound[w]
        /\ parent'[u] = t /\ bound'[u] = cur[t]
        /\ status[u] = "none" /\ t # u /\ u \in Task
        /\ UNCHANGED <<below, groups>>
    BY <1>a, <1>1, DisjointTasks DEF Creates, Executing
  <2>2. /\ \A w \in Task : w # u => status'[w] = status[w]
        /\ ~Executing(u)'
    BY <1>a, <1>1, DisjointTasks DEF Creates, Executing
  <2>3. \A w \in Explicit : status[w] # "none" => parent[w] # u /\ w # u /\ parent[w] \in Task
    BY <1>0, <2>1 DEF TreeInv
  <2>4. \A v \in Explicit : Executing(v)' => v # u /\ Executing(v) /\ parent'[v] = parent[v] /\ parent[v] # u
    BY <2>1, <2>2, <2>3, DisjointTasks DEF Executing
  <2> SUFFICES ASSUME NEW w \in Explicit, status'[w] # "none", bound'[w] # 0
               PROVE  /\ parent'[w] = groups[bound'[w]].owner \/ bound'[parent'[w]] = bound'[w]
                      /\ groups[bound'[w]].open =>
                           \A v \in Explicit :
                             Executing(v)' /\ parent'[v] = w => groups[bound'[w]].owner \in below[v]
    BY <2>1 DEF AncestorInv
  <2>5. CASE w = u
    <3>1. t = groups[cur[t]].owner \/ bound[t] = cur[t]
      BY <1>0, <2>1, <2>5 DEF CurInv
    <3> QED
      BY <2>1, <2>4, <2>5, <3>1
  <2>6. CASE w # u
    <3>1. status[w] # "none" /\ bound'[w] = bound[w] /\ parent'[w] = parent[w]
      BY <2>1, <2>2, <2>6, DisjointTasks
    <3>2. bound'[parent'[w]] = bound[parent[w]]
      BY <2>1, <2>3, <3>1
    <3> QED
      BY <1>0, <2>4, <3>1, <3>2 DEF AncestorInv
  <2> QED
    BY <2>5, <2>6
<1>2. ASSUME NEW u \in Explicit, Commits(u) PROVE AncestorInv'
  <2>1. /\ UNCHANGED <<parent, below, bound, groups>>
        /\ \A v \in Explicit : status'[v] # "none" => status[v] # "none"
        /\ \A v \in Explicit : Executing(v)' => Executing(v)
    BY <1>a, <1>2, DisjointTasks DEF Commits, Executing
  <2> QED
    BY <1>0, <2>1 DEF AncestorInv
<1>3. ASSUME NEW u \in Explicit, Starts(u) PROVE AncestorInv'
  <2>1. /\ UNCHANGED <<parent, bound, groups>>
        /\ \A v \in Explicit : status'[v] # "none" => status[v] # "none"
        /\ \A v \in Explicit : Executing(v)' /\ v # u => Executing(v) /\ below'[v] = below[v]
        /\ below'[u] = {v \in Task : Executing(v)}
    BY <1>a, <1>3, DisjointTasks DEF Starts, Executing
  <2>2. \A w \in Explicit : bound[w] # 0 /\ groups[bound[w]].open => groups[bound[w]].owner \in below'[u]
    BY <1>c, <2>1
  <2> QED
    BY <1>0, <2>1, <2>2 DEF AncestorInv
<1>4. ASSUME NEW u \in Explicit, Completes(u) PROVE AncestorInv'
  <2>1. /\ UNCHANGED <<parent, bound, groups>>
        /\ \A v \in Explicit : status'[v] # "none" => status[v] # "none"
        /\ \A v \in Explicit : Executing(v)' => Executing(v) /\ below'[v] = below[v] \ {u}
    BY <1>a, <1>4, DisjointTasks DEF Completes, Executing
  <2>2. \A w \in Explicit : bound[w] # 0 /\ groups[bound[w]].open => groups[bound[w]].owner # u
    BY <1>c, <1>4 DEF Completes
  <2> QED
    BY <1>0, <2>1, <2>2 DEF AncestorInv
<1>5. ASSUME NEW t \in Task, Opens(t) PROVE AncestorInv'
  <2>1. \A w \in Explicit : bound[w] # 0 => groups'[bound[w]] = groups[bound[w]]
    BY <1>b, <1>5, OpensGroup
  <2>2. UNCHANGED <<status, parent, below, bound>>
    BY <1>5 DEF Opens
  <2> QED
    BY <1>0, <2>1, <2>2 DEF AncestorInv, Executing
<1>6. ASSUME NEW t \in Task, Closes(t) PROVE AncestorInv'
  <2>1. \A w \in Explicit : bound[w] # 0 =>
          /\ groups'[bound[w]].owner = groups[bound[w]].owner
          /\ groups'[bound[w]].open => groups[bound[w]].open
    <3> SUFFICES ASSUME NEW w \in Explicit, bound[w] # 0
                 PROVE  /\ groups'[bound[w]].owner = groups[bound[w]].owner
                        /\ groups'[bound[w]].open => groups[bound[w]].open
      OBVIOUS
    <3>1. CASE bound[w] = cur[t]
      BY <1>6, <3>1, ClosesGroup
    <3>2. CASE bound[w] # cur[t]
      <4>1. groups'[bound[w]] = groups[bound[w]]
        BY <1>b, <1>6, <3>2, ClosesGroup
      <4> QED
        BY <4>1
    <3> QED
      BY <3>1, <3>2
  <2>2. UNCHANGED <<status, parent, below, bound>>
    BY <1>6 DEF Closes
  <2> QED
    BY <1>0, <2>1, <2>2 DEF AncestorInv, Executing
<1>7. CASE UNCHANGED shape
  BY <1>0, <1>7 DEF shape, AncestorInv, Executing
<1> QED
  BY StepKinds, <1>1, <1>2, <1>3, <1>4, <1>5, <1>6, <1>7

\* What the code of each task does, action by action.
LEMMA CodeStep == IInv /\ [Next]_vars => CodeInv'
<1> SUFFICES ASSUME IInv, [Next]_vars PROVE CodeInv'
  OBVIOUS
<1>0. TypeOK /\ TreeInv /\ CodeInv
  BY DEF IInv
<1> USE <1>0, DisjointTasks
    DEF TypeOK, TreeInv, CodeInv, vars, taskVars, codeVars, runVars, groupVars, restVars
<1>1. ASSUME NEW t \in Task, NEW u \in Explicit, NEW a \in Attrs, NEW c \in Clauses,
             TaskAlloc(t, u, a, c)
      PROVE  CodeInv'
  BY <1>1 DEF TaskAlloc, NewTask, Encountering, Fresh
<1>2. ASSUME NEW t \in Task, NEW u \in Explicit, OmpTask(t, u) PROVE CodeInv'
  BY <1>2 DEF OmpTask, Submitting, Commit
<1>3. ASSUME NEW t \in Task, NEW u \in Explicit, OmpTaskWithDeps(t, u) PROVE CodeInv'
  <2>1. CASE Refused(u)
    BY <1>3, <2>1 DEF OmpTaskWithDeps, Fatal
  <2>2. CASE ~Refused(u)
    BY <1>3, <2>2 DEF OmpTaskWithDeps, Submitting, Commit
  <2> QED
    BY <2>1, <2>2
<1>4. ASSUME NEW t \in Task, OmpTaskReenter(t) PROVE CodeInv'
  BY <1>4 DEF OmpTaskReenter
<1>5. ASSUME NEW t \in Task, NEW u \in Explicit, NEW c \in Clauses, TaskwaitDeps(t, u, c)
      PROVE  CodeInv'
  <2>1. CASE Unsupported(c)
    BY <1>5, <2>1 DEF TaskwaitDeps, Fatal
  <2>2. CASE ~Unsupported(c)
    <3>1. /\ status[u] = "none" /\ status' = [status EXCEPT ![u] = "committed"]
          /\ pc' = [pc EXCEPT ![t] = "waittask"]
          /\ await' = [await EXCEPT ![t] = u]
      BY <1>5, <2>2 DEF TaskwaitDeps, Fresh
    <3>2. /\ parent' = [parent EXCEPT ![u] = t]
          /\ cur' = [cur EXCEPT ![u] = cur[t]] /\ bound' = [bound EXCEPT ![u] = cur[t]]
      BY <1>5, <2>2 DEF TaskwaitDeps, NewTask
    <3> QED
      BY <3>1, <3>2
  <2> QED
    BY <2>1, <2>2
<1>16. ASSUME NEW t \in Task, NEW u \in Explicit, NEW c \in Clauses, TargetMemcpyAsync(t, u, c)
       PROVE  CodeInv'
  <2>1. CASE Unsupported(c)
    BY <1>16, <2>1 DEF TargetMemcpyAsync, Fatal
  <2>2. CASE ~Unsupported(c)
    <3>1. /\ status[u] = "none" /\ status' = [status EXCEPT ![u] = "committed"]
          /\ UNCHANGED <<pc, await, part>>
      BY <1>16, <2>2 DEF TargetMemcpyAsync, Fresh
    <3>2. /\ parent' = [parent EXCEPT ![u] = t]
          /\ cur' = [cur EXCEPT ![u] = cur[t]] /\ bound' = [bound EXCEPT ![u] = cur[t]]
      BY <1>16, <2>2 DEF TargetMemcpyAsync, NewTask
    <3> QED
      BY <1>16, <3>1, <3>2
  <2> QED
    BY <2>1, <2>2
<1>6. ASSUME NEW t \in Task, Taskwait(t) \/ TaskgroupEnd(t) \/ RegionEnd(t) PROVE CodeInv'
  BY <1>6 DEF Taskwait, TaskgroupEnd, RegionEnd, WaitsAs
<1>7. ASSUME NEW t \in Task, TaskwaitReturn(t) \/ AwaitReturn(t) PROVE CodeInv'
  <2>1. /\ pc' = [pc EXCEPT ![t] = "run"] /\ await' = [await EXCEPT ![t] = NoTask]
        /\ UNCHANGED <<status, parent, cur, bound>>
    BY <1>7 DEF TaskwaitReturn, AwaitReturn, Resumed
  <2> QED
    BY <2>1
<1>8. ASSUME NEW t \in Task, TaskgroupBegin(t) PROVE CodeInv'
  BY <1>8 DEF TaskgroupBegin, Encountering
<1>9. ASSUME NEW t \in Task, TaskgroupReturn(t) PROVE CodeInv'
  BY <1>9 DEF TaskgroupReturn, Resumed
<1>10. ASSUME NEW t \in Task, NEW u \in Explicit, Schedule(t, u) PROVE CodeInv'
  BY <1>10 DEF Schedule, Ready, Begin
<1>11. ASSUME NEW u \in Explicit, DeviceBegin(u) PROVE CodeInv'
  BY <1>11 DEF DeviceBegin, Ready, Begin
<1>12. ASSUME NEW u \in Explicit, DeviceComplete(u) PROVE CodeInv'
  BY <1>12 DEF DeviceComplete, Executing, Complete
<1>13. ASSUME NEW t \in Task, BodyReturn(t) PROVE CodeInv'
  <2>1. CASE part[t] = 1
    BY <1>13, <2>1 DEF BodyReturn, Current, Executing, Complete
  <2>2. CASE part[t] # 1
    BY <1>13, <2>2 DEF BodyReturn
  <2> QED
    BY <2>1, <2>2
<1>14. CASE TeamBarrier \/ Done \/ UNCHANGED vars
  BY <1>14 DEF TeamBarrier, Done
<1>15. ASSUME NEW t \in Task, Steps(t) PROVE CodeInv'
  BY <1>1, <1>2, <1>3, <1>4, <1>5, <1>6, <1>7, <1>8, <1>9, <1>10, <1>13, <1>15,
        <1>16
     DEF Steps, Constructs, Submits
<1> QED
  BY <1>11, <1>12, <1>14, <1>15 DEF Next, DeviceStep
-------------------------------------------------------------------------------
(* The theorems.                                                           *)

\* The team starts in the invariant.
LEMMA InitInv == Init => IInv
<1> SUFFICES ASSUME Init PROVE IInv
  OBVIOUS
<1> USE DisjointTasks, InitialTypes DEF Init
<1>1. TypeOK
  BY DEF TypeOK
<1>2. TreeInv /\ CodeInv /\ BelowInv
  BY DEF TreeInv, CodeInv, BelowInv, Executing
<1>3. GroupInv
  BY BoundAssumption DEF GroupInv, OpenInv, CurInv, BoundInv, AncestorInv, HostAttr
<1> QED
  BY <1>1, <1>2, <1>3 DEF IInv

LEMMA StepInv == IInv /\ [Next]_vars => IInv'
BY TypeStep, TreeStep, CodeStep, BelowStep, OpenStep, CurStep, BoundStep, AncestorStep
   DEF IInv, GroupInv

\* IInv is inductive.
THEOREM Invariance == Spec => []IInv
BY InitInv, StepInv, PTL DEF Spec

\* The variables of the tasking model keep their types, for any team.
THEOREM TypeCorrect == Spec => []TypeOK
<1>1. IInv => TypeOK
  BY DEF IInv
<1> QED
  BY Invariance, <1>1, PTL

\* No thread is ever blocked on a task that is stuck beneath it on its own
\* stack, nor threads on each other, whatever the tree of tasks, taskgroups,
\* undeferred tasks and waits (xkrt_task_wait and the end of a taskgroup run
\* other tasks on the stack of the blocked one).
THEOREM NoStuckWait == Spec => []WaitsForLater
<1>1. IInv => WaitsForLater
  <2> SUFFICES ASSUME IInv, NEW t \in Task, Executing(t), NEW u \in Awaited(t),
                      NEW v \in Children(parent[u]), Executing(v)
               PROVE  t \in below[v]
    BY DEF WaitsForLater
  <2>1. TypeOK /\ TreeInv /\ CodeInv /\ BelowInv /\ CurInv /\ AncestorInv
    BY DEF IInv, GroupInv
  <2>2. v \in Explicit /\ parent[v] = parent[u]
    BY DEF Children
  <2>3. parent[u] = t => t \in below[v]
    BY <2>1, <2>2 DEF BelowInv
  <2>4. CASE pc[t] = "taskwait"
    BY <2>3, <2>4 DEF Awaited, Children
  <2>5. CASE pc[t] = "waittask"
    BY <2>1, <2>3, <2>5 DEF Awaited, CodeInv
  <2>6. CASE pc[t] = "groupend"
    <3> DEFINE g == cur[t]
    <3>1. u \in Explicit /\ status[u] # "none" /\ bound[u] = g
      BY <2>6 DEF Awaited
    <3>2. g # 0 /\ groups[g].open /\ groups[g].owner = t
      BY <2>1, <2>6 DEF CodeInv, CurInv
    <3>3. parent[u] = t \/ bound[parent[u]] = g
      BY <2>1, <3>1, <3>2 DEF AncestorInv
    <3>4. CASE bound[parent[u]] = g
      <4>1. parent[u] \in Explicit /\ status[parent[u]] # "none"
        BY <2>1, <3>1, <3>2, <3>4, DisjointTasks DEF TreeInv
      <4> QED
        BY <2>1, <2>2, <3>2, <3>4, <4>1 DEF AncestorInv
    <3> QED
      BY <2>3, <3>3, <3>4
  <2> QED
    BY <2>4, <2>5, <2>6 DEF Awaited
<1> QED
  BY Invariance, <1>1, PTL

\* A region is not ended under a task created in it: the task would count for
\* it, or for a region that has yet to end, or have an ancestor that does.
LEMMA RegionStep == IInv /\ RegionInv /\ [Next]_vars => RegionInv'
<1> SUFFICES ASSUME IInv, RegionInv, [Next]_vars PROVE RegionInv'
  OBVIOUS
<1>0. TypeOK /\ TreeInv /\ OpenInv /\ CurInv
  BY DEF IInv, GroupInv
<1>a. /\ status \in [Task -> {"none", "allocated", "committed", "executing", "completed"}]
      /\ cur \in [Task -> Nat] /\ bound \in [Task -> Nat]
      /\ regions \in [Task -> SUBSET Group]
      /\ DOMAIN groups = 1..Len(groups) /\ Len(groups) \in Nat
  BY <1>0, GroupsType DEF TypeOK
<1>b. ASSUME UNCHANGED <<bound, groups, regions>>,
             \A u \in Task : /\ status'[u] = "none" => status[u] = "none"
                             /\ status'[u] # "completed" => status[u] # "completed"
      PROVE  RegionInv'
  BY <1>b DEF RegionInv
<1>1. ASSUME NEW t \in Task, NEW u \in Explicit, Creates(t, u) PROVE RegionInv'
  <2>1. /\ \A w \in Task : w # u => status'[w] = status[w] /\ bound'[w] = bound[w] /\ regions'[w] = regions[w]
        /\ status'[u] # "none" /\ bound'[u] = cur[t] /\ regions'[u] = Inside(t)
        /\ status[u] = "none" /\ Executing(t) /\ t # u /\ u \in Task /\ UNCHANGED groups
    BY <1>a, <1>1, DisjointTasks DEF Creates, Executing
  <2>2. \A w \in Task : \A h : Owns(groups, w, h) => w # u
    BY <1>0, <2>1 DEF OpenInv, Executing, Owns
  <2> SUFFICES ASSUME NEW v \in Task, status'[v] # "completed", NEW g \in regions'[v]
               PROVE  /\ g \in DOMAIN groups /\ groups[g].open
                      /\ \/ bound'[v] = g
                         \/ \E h \in regions'[v], w \in Task :
                              /\ Owns(groups, w, h)
                              /\ \/ Owns(groups, w, g) /\ g < h
                                 \/ w \in Explicit /\ bound'[w] = g
    BY <2>1 DEF RegionInv
  <2>3. CASE v # u
    <3>1. /\ g \in regions[v] /\ status[v] # "completed"
          /\ bound'[v] = bound[v] /\ regions'[v] = regions[v]
      BY <2>1, <2>3
    <3>2. \A w \in Task : w # u => bound'[w] = bound[w]
      BY <2>1
    <3> QED
      BY <2>2, <3>1, <3>2 DEF RegionInv
  <2>4. CASE v = u
    <3>1. Inside(t) = regions[t] \cup {h \in DOMAIN groups : groups[h].owner = t /\ groups[h].open}
      BY DEF Inside
    <3>2. bound'[t] = bound[t] /\ regions'[v] = Inside(t) /\ bound'[v] = cur[t]
      BY <2>1, <2>4
    <3>3. cur[t] # bound[t] => cur[t] \in Inside(t) /\ Owns(groups, t, cur[t])
      BY <1>0, <1>a, <3>1 DEF CurInv, Owns
    <3>4. CASE g \in regions[t]
      <4>1. /\ g \in DOMAIN groups /\ groups[g].open
            /\ \/ bound[t] = g
               \/ \E h \in regions[t], w \in Task :
                    /\ Owns(groups, w, h)
                    /\ \/ Owns(groups, w, g) /\ g < h
                       \/ w \in Explicit /\ bound[w] = g
        BY <2>1, <3>4 DEF RegionInv, Executing
      <4>2. CASE bound[t] = g
        <5>1. t \in Explicit
          BY <1>0, <1>a, <4>1, <4>2, DisjointTasks DEF TreeInv
        <5> QED
          BY <3>2, <3>3, <4>1, <4>2, <5>1
      <4>3. CASE bound[t] # g
        <5>1. PICK h \in regions[t], w \in Task :
                /\ Owns(groups, w, h)
                /\ \/ Owns(groups, w, g) /\ g < h
                   \/ w \in Explicit /\ bound[w] = g
          BY <4>1, <4>3
        <5>2. w # u /\ h \in regions'[v] /\ bound'[w] = bound[w]
          BY <2>1, <2>2, <3>1, <3>2, <5>1
        <5> QED
          BY <4>1, <5>1, <5>2
      <4> QED
        BY <4>2, <4>3
    <3>5. CASE Owns(groups, t, g)
      <4>1. bound[t] < g /\ g <= cur[t] /\ g \in DOMAIN groups /\ groups[g].open
        BY <1>0, <3>5 DEF OpenInv, Owns
      <4>2. cur[t] # g => g < cur[t] /\ cur[t] # bound[t]
        BY <1>a, <4>1
      <4> QED
        BY <3>2, <3>3, <3>5, <4>1, <4>2
    <3> QED
      BY <2>1, <2>4, <3>1, <3>4, <3>5 DEF Owns
  <2> QED
    BY <2>3, <2>4
<1>2. ASSUME NEW u \in Explicit, Commits(u) PROVE RegionInv'
  BY <1>a, <1>b, <1>2, DisjointTasks DEF Commits
<1>3. ASSUME NEW u \in Explicit, Starts(u) PROVE RegionInv'
  BY <1>a, <1>b, <1>3, DisjointTasks DEF Starts
<1>4. ASSUME NEW u \in Explicit, Completes(u) PROVE RegionInv'
  BY <1>a, <1>b, <1>4, DisjointTasks DEF Completes
<1>5. ASSUME NEW t \in Task, Opens(t) PROVE RegionInv'
  <2>1. /\ DOMAIN groups \subseteq DOMAIN groups'
        /\ \A g \in DOMAIN groups : groups'[g] = groups[g]
    BY <1>a, <1>5, OpensGroup
  <2>2. \A w \in Task : \A g \in DOMAIN groups : Owns(groups, w, g) => Owns(groups', w, g)
    BY <2>1 DEF Owns
  <2>3. UNCHANGED <<status, bound, regions>>
    BY <1>5 DEF Opens
  <2>4. \A w \in Task : \A g : Owns(groups, w, g) => g \in DOMAIN groups
    BY DEF Owns
  <2> QED
    BY <2>1, <2>2, <2>3, <2>4 DEF RegionInv
<1>6. ASSUME NEW t \in Task, Closes(t) PROVE RegionInv'
  <2> DEFINE c == cur[t]
  <2>1. /\ Owns(groups, t, c) /\ c \in DOMAIN groups /\ DOMAIN groups' = DOMAIN groups
        /\ \A g \in DOMAIN groups : g # c => groups'[g] = groups[g]
    BY <1>6, ClosesGroup DEF Owns
  <2>2. /\ UNCHANGED <<status, bound, regions>>
        /\ \A w \in Explicit : bound[w] = c => status[w] \in {"none", "completed"}
    BY <1>6 DEF Closes
  <2>3. ASSUME NEW v \in Task, status[v] # "completed" PROVE c \notin regions[v]
    <3> SUFFICES ASSUME c \in regions[v] PROVE FALSE
      OBVIOUS
    <3>1. bound[v] # c
      <4>1. CASE v \in Explicit
        BY <2>2, <2>3, <4>1 DEF RegionInv
      <4>2. CASE v \in Thread
        BY <1>0, <1>a, <2>1, <4>2 DEF TreeInv
      <4> QED
        BY <4>1, <4>2, DisjointTasks
    <3>2. PICK h \in regions[v], w \in Task :
            /\ Owns(groups, w, h)
            /\ \/ Owns(groups, w, c) /\ c < h
               \/ w \in Explicit /\ bound[w] = c
      BY <2>3, <3>1 DEF RegionInv
    <3>3. Executing(w) /\ h <= cur[w] /\ h \in Nat
      BY <1>0, <1>a, <3>2 DEF OpenInv, Owns
    <3>4. CASE Owns(groups, w, c) /\ c < h
      <4>1. w = t
        BY <2>1, <3>4 DEF Owns
      <4> QED
        BY <1>a, <3>3, <3>4, <4>1
    <3>5. CASE w \in Explicit /\ bound[w] = c
      BY <2>2, <3>3, <3>5 DEF Executing
    <3> QED
      BY <3>2, <3>4, <3>5
  <2> HIDE DEF c
  <2>4. \A w \in Task : \A g : Owns(groups, w, g) /\ g # c => Owns(groups', w, g)
    BY <2>1 DEF Owns
  <2> SUFFICES ASSUME NEW v \in Task, status[v] # "completed", NEW g \in regions[v]
               PROVE  /\ g \in DOMAIN groups' /\ groups'[g].open
                      /\ \/ bound[v] = g
                         \/ \E h \in regions[v], w \in Task :
                              /\ Owns(groups', w, h)
                              /\ \/ Owns(groups', w, g) /\ g < h
                                 \/ w \in Explicit /\ bound[w] = g
    BY <2>2 DEF RegionInv
  <2>5. c \notin regions[v] /\ g # c
    BY <2>3
  <2>6. /\ g \in DOMAIN groups /\ groups[g].open
        /\ \/ bound[v] = g
           \/ \E h \in regions[v], w \in Task :
                /\ Owns(groups, w, h)
                /\ \/ Owns(groups, w, g) /\ g < h
                   \/ w \in Explicit /\ bound[w] = g
    BY DEF RegionInv
  <2> QED
    BY <2>1, <2>4, <2>5, <2>6
<1>7. CASE UNCHANGED shape
  BY <1>b, <1>7 DEF shape
<1> QED
  BY StepKinds, <1>1, <1>2, <1>3, <1>4, <1>5, <1>6, <1>7

\* The end of a taskgroup is a deep wait, for any tree of tasks and taskgroups:
\* once __kmpc_end_taskgroup has returned, every task created in the region,
\* by anybody and at any depth, has completed, although the code counts a task
\* only for the innermost taskgroup it is created in.
THEOREM DeepWait == Spec => []TaskgroupDeep
<1>1. Init => RegionInv
  BY DisjointTasks DEF Init, RegionInv
<1>2. RegionInv => TaskgroupDeep
  BY DisjointTasks DEF RegionInv, TaskgroupDeep
<1> QED
  BY Invariance, RegionStep, <1>1, <1>2, PTL DEF Spec
===============================================================================
