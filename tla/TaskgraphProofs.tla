---------------------------- MODULE TaskgraphProofs ----------------------------
(***************************************************************************)
(* Taskgraphs for any team, any clauses, any number of tasks and passes:   *)
(* the variables keep their types, and, provided no task is untied, a task *)
(* leaves one command and each pass applies each body exactly once.        *)
(*                                                                         *)
(* The invariant follows a recording through its passes.  What is recorded *)
(* are tasks the master creates while it records (RecordInv); since a      *)
(* recorded task creates none, the implicit taskwait that ends the         *)
(* recording awaits all of them, so that from then on the commands do not  *)
(* change, one for each recorded task (CommandInv); and a replay runs each *)
(* command of the graph built from them once (ReplayInv).  The tasks must  *)
(* be tied: an untied one leaves a command for each of its parts.          *)
(***************************************************************************)
EXTENDS Taskgraph, KmpOrderProofs

\* The routine of every task is on the stack once.
TiedInv == \A t \in Task : part[t] = 1 /\ attr[t].parts = 1

\* A task of the recording.
InGraph(u) == status[u] # "none" /\ attr[u].record

\* Who is recorded, and until when.
RecordInv ==
  /\ rec = IF place = "recording" THEN {Master} ELSE {}
  /\ \A t \in Thread : ~attr[t].record
  /\ \A u \in Explicit : InGraph(u) => parent[u] = Master /\ rc # 0
  /\ place = "stopping" => pc[Master] = "taskwait"
  /\ rc = 0 => place = "out"
  /\ place = "replaying" => rc > 1
  /\ place \in {"recording", "stopping"} => rc = 1
  /\ place \in {"out", "replaying"} => \A u \in Explicit : InGraph(u) => status[u] = "completed"

\* The commands are those of the recorded tasks that have completed.
CommandInv ==
  /\ \A u \in Recorded : status[u] = "completed" => \E i \in DOMAIN cmds : cmds[i] = u
  /\ \A i \in DOMAIN cmds : InGraph(cmds[i]) /\ status[cmds[i]] = "completed"
  /\ OneCommand

\* How often each body has been replayed.
ReplayInv ==
  /\ place # "replaying" => left = {}
  /\ IF rc <= 1
       THEN graph = <<>> /\ \A u \in Explicit : replays[u] = 0
       ELSE graph = cmds /\ \A i \in DOMAIN graph :
              replays[graph[i]] = IF i \in left THEN rc - 2 ELSE rc - 1

PassInv == TiedInv /\ RecordInv /\ CommandInv /\ ReplayInv

-------------------------------------------------------------------------------
(* The invariants of the tasking model.                                    *)

LEMMA MasterIsTask == Master \in Task /\ Master \notin Explicit
BY MasterAssumption, DisjointTasks

\* A step of the tasking model beneath taskgraphs is one of the model.
LEMMA HostIsTasking ==
  ASSUME HostTasking
  PROVE  Next
<1>1. ASSUME NEW u \in Explicit, Schedule(Master, u)
      PROVE  Next
  BY <1>1, MasterIsTask DEF Next, Steps
<1> QED
  BY <1>1, MasterIsTask DEF HostTasking, Next

\* Recording starts and stops between two steps of the master's code.
LEMMA RecordKeeps ==
  ASSUME IInv, SubmitInv, GraphRecord \/ GraphStop
  PROVE  IInv' /\ SubmitInv'
<1>0. TypeOK /\ TreeInv /\ CodeInv /\ BelowInv /\ GroupInv
  BY DEF IInv
<1>1. /\ UNCHANGED <<taskVars, runVars, groupVars, abi, cmds, mode, await, part>>
      /\ pc' = pc \/ pc' = [pc EXCEPT ![Master] = "taskwait"]
      /\ rec' \in {{}, {Master}}
  BY DEF GraphRecord, GraphStop, WaitsAs, codeVars
<1>2. /\ pc[Master] = "run" /\ Executing(Master)
      /\ \A t \in Task : pc'[t] = pc[t] \/ (t = Master /\ pc'[t] = "taskwait")
  <2>1. Encountering(Master)
    BY DEF GraphRecord, GraphStop, Begins
  <2> QED
    BY <1>0, <1>1, <2>1 DEF Encountering, Current, TypeOK
<1>3. TypeOK'
  <2>1. pc' \in [Task -> {"run", "submit", "taskwait", "waittask", "groupend", "barrier", "unwind"}]
    BY <1>0, <1>1 DEF TypeOK
  <2>2. rec' \in SUBSET Task
    BY <1>1, MasterIsTask
  <2> QED
    BY <1>0, <1>1, <2>1, <2>2 DEF TypeOK, taskVars, runVars, groupVars
<1>4. CodeInv'
  BY <1>0, <1>1, <1>2 DEF CodeInv, taskVars, groupVars
<1>5. TreeInv' /\ BelowInv' /\ GroupInv'
  BY <1>0, <1>1 DEF TreeInv, BelowInv, GroupInv, OpenInv, CurInv, BoundInv, AncestorInv, Owns, Executing,
                    taskVars, runVars, groupVars
<1>6. SubmitInv'
  <2>1. \A u \in Explicit : pc'[u] = pc[u]
    BY <1>2, MasterIsTask DEF Task
  <2>2. \A t \in Task : pc[t] = "submit" => pc'[t] = "submit" /\ await'[t] = await[t]
    BY <1>1, <1>2
  <2> QED
    BY <1>0, <1>1, <2>1, <2>2, SubmitKept DEF taskVars
<1> QED
  BY <1>3, <1>4, <1>5, <1>6 DEF IInv

LEMMA TaskingKept ==
  ASSUME IInv, SubmitInv, [TgNext]_tgVars
  PROVE  IInv' /\ SubmitInv'
<1>1. CASE [Next]_vars
  BY <1>1, StepInv, SubmitStep
<1>2. CASE GraphRecord \/ GraphStop
  BY <1>2, RecordKeeps
<1>3. CASE GraphBuild \/ GraphReplay \/ GraphReplayed \/ (\E i \in left : Command(i)) \/ UNCHANGED tgVars
  BY <1>1, <1>3 DEF GraphBuild, GraphReplay, GraphReplayed, Command, tgVars
<1>4. CASE GraphStopped
  BY <1>1, <1>4, MasterIsTask DEF GraphStopped, Next, Steps
<1>5. CASE HostTasking
  BY <1>1, <1>5, HostIsTasking
<1> QED
  BY <1>2, <1>3, <1>4, <1>5 DEF TgNext

-------------------------------------------------------------------------------
(* What the steps do to the variables a recording depends on.              *)

RecordsTask(t, u) ==
  /\ Executing(t) /\ status[u] = "none" /\ (t # Master => Leaf(t))
  /\ \E s \in {"allocated", "committed"} : status' = [status EXCEPT ![u] = s]
  /\ \E a \in Attr : a.parts = 1 /\ attr' = [attr EXCEPT ![u] = [a EXCEPT !.record = t \in rec \/ attr[t].record]]
  /\ parent' = [parent EXCEPT ![u] = t]
  /\ UNCHANGED <<part, cmds>>

MovesOn ==
  /\ \A u \in Explicit : \/ status'[u] = status[u]
                         \/ status[u] \in {"allocated", "committed"} /\ status'[u] \in {"committed", "executing"}
  /\ UNCHANGED <<attr, parent, part, cmds>>

EndsTask(u) ==
  /\ Executing(u)
  /\ status' = [status EXCEPT ![u] = "completed"]
  /\ cmds' = IF attr[u].record /\ attr[u].body THEN Append(cmds, u) ELSE cmds
  /\ UNCHANGED <<attr, parent, part>>

Recording ==
  \/ \E t \in Task, u \in Explicit : RecordsTask(t, u)
  \/ \E u \in Explicit : EndsTask(u)
  \/ MovesOn

\* A step of a task's code, tied like every other, is one of these.
LEMMA StepsRecording ==
  ASSUME \A a \in Attrs : a.parts = 1, IInv, TiedInv, NEW t \in Task, Steps(t), t # Master => Leaf(t)
  PROVE  /\ Recording /\ rec' = rec
         /\ \A v \in Task : v # t => pc'[v] = pc[v]
<1> DEFINE Goal == Recording /\ rec' = rec /\ \A v \in Task : v # t => pc'[v] = pc[v]
<1>0. TypeOK /\ CodeInv /\ \A u \in Explicit : u \in Task
  BY DEF IInv, Task
<1>1. ASSUME NEW u \in Explicit, NEW a \in Attr, NEW c, a.parts = 1, NewTask(t, u, a, c), Encountering(t), Fresh(u),
             \E s \in {"allocated", "committed"} : status' = [status EXCEPT ![u] = s],
             UNCHANGED <<part, cmds, rec>>, \A v \in Task : v # t => pc'[v] = pc[v]
      PROVE  Goal
  <2>1. RecordsTask(t, u)
    BY <1>1 DEF RecordsTask, NewTask, Encountering, Current, Fresh
  <2> QED
    BY <1>1, <2>1 DEF Recording
<1>2. ASSUME UNCHANGED <<status, attr, parent, part, restVars>>, \A v \in Task : v # t => pc'[v] = pc[v]
      PROVE  Goal
  BY <1>2 DEF Recording, MovesOn, restVars
<1>3. ASSUME Fatal
      PROVE  Goal
  BY <1>3 DEF Fatal, Recording, MovesOn, taskVars, codeVars
<1>4. ASSUME NEW u \in Explicit, NEW a \in Attrs, NEW c \in Clauses, TaskAlloc(t, u, a, c)
      PROVE  Goal
  BY <1>0, <1>1, <1>4, AttrAssumption DEF TaskAlloc, TypeOK, restVars
<1>5. ASSUME NEW u \in Explicit, NEW c \in Clauses, TaskwaitDeps(t, u, c)
      PROVE  Goal
  <2>1. EmptyAttr \in Attr /\ EmptyAttr.parts = 1
    BY InitialTypes DEF EmptyAttr, HostAttr
  <2>2. CASE ~Unsupported(c)
    BY <1>0, <1>1, <1>5, <2>1, <2>2 DEF TaskwaitDeps, TypeOK, restVars
  <2> QED
    BY <1>3, <1>5, <2>2 DEF TaskwaitDeps
<1>6. ASSUME NEW u \in Explicit, NEW c \in Clauses, TargetMemcpyAsync(t, u, c)
      PROVE  Goal
  BY <1>6, HostAssumption DEF TargetMemcpyAsync, TransferAttr, HostAttr
<1>7. ASSUME NEW u \in Explicit, OmpTask(t, u) \/ OmpTaskWithDeps(t, u)
      PROVE  Goal
  <2>1. CASE OmpTaskWithDeps(t, u) /\ Refused(u)
    BY <1>3, <2>1 DEF OmpTaskWithDeps
  <2>2. CASE OmpTask(t, u) \/ (OmpTaskWithDeps(t, u) /\ ~Refused(u))
    <3>1. Submitting(t, u) /\ Commit(t, u) /\ UNCHANGED <<attr, parent, part, cmds, rec>>
      BY <2>2 DEF OmpTask, OmpTaskWithDeps, restVars
    <3>2. status[u] = "allocated" /\ status' = [status EXCEPT ![u] = "committed"]
          /\ \A v \in Task : v # t => pc'[v] = pc[v]
      BY <1>0, <3>1 DEF Submitting, Commit, CodeInv, TypeOK
    <3>3. MovesOn
      BY <1>0, <3>1, <3>2 DEF MovesOn, TypeOK
    <3> QED
      BY <3>1, <3>2, <3>3 DEF Recording
  <2> QED
    BY <1>7, <2>1, <2>2
<1>8. ASSUME OmpTaskReenter(t)
      PROVE  FALSE
  BY <1>8 DEF OmpTaskReenter, TiedInv
<1>9. CASE BodyReturn(t)
  <2>1. part[t] = 1
    BY DEF TiedInv
  <2>2. EndsTask(t) /\ t \in Explicit /\ UNCHANGED <<pc, rec>>
    BY <1>9, <2>1 DEF BodyReturn, Complete, Current, EndsTask, codeVars
  <2> QED
    BY <2>2 DEF Recording
<1>10. CASE Taskwait(t) \/ TaskgroupEnd(t) \/ RegionEnd(t)
  BY <1>0, <1>2, <1>10 DEF Taskwait, TaskgroupEnd, RegionEnd, WaitsAs, taskVars, TypeOK
<1>11. CASE TaskwaitReturn(t) \/ AwaitReturn(t) \/ TaskgroupReturn(t)
  BY <1>0, <1>2, <1>11 DEF TaskwaitReturn, AwaitReturn, TaskgroupReturn, Resumed, taskVars, TypeOK
<1>12. CASE TaskgroupBegin(t)
  BY <1>2, <1>12 DEF TaskgroupBegin, taskVars, codeVars
<1>13. ASSUME NEW u \in Explicit, Schedule(t, u)
       PROVE  Goal
  <2>1. MovesOn /\ UNCHANGED <<pc, rec>>
    BY <1>0, <1>13 DEF Schedule, Ready, Begin, MovesOn, TypeOK, codeVars, restVars
  <2> QED
    BY <2>1 DEF Recording
<1>14. CASE Constructs(t)
  BY <1>4, <1>5, <1>6, <1>14 DEF Constructs
<1>15. CASE Submits(t)
  BY <1>0, <1>7, <1>15 DEF Submits, CodeInv
<1> QED
  BY <1>8, <1>9, <1>10, <1>11, <1>12, <1>13, <1>14, <1>15 DEF Steps

\* So is every step beneath a taskgraph; and none wakes the master while it
\* waits for the tasks recorded.
LEMMA HostRecording ==
  ASSUME \A a \in Attrs : a.parts = 1, IInv, TiedInv, HostTasking
  PROVE  /\ Recording /\ rec' = rec /\ UNCHANGED graphVars
         /\ place = "stopping" /\ pc[Master] = "taskwait" => pc'[Master] = "taskwait"
<1>1. ASSUME NEW t \in Task \ {Master}, Steps(t), Leaf(t)
      PROVE  Recording /\ rec' = rec /\ pc'[Master] = pc[Master]
  BY <1>1, StepsRecording, MasterIsTask
<1>2. ASSUME Steps(Master)
      PROVE  Recording /\ rec' = rec
  BY <1>2, StepsRecording, MasterIsTask
<1>3. ASSUME NEW u \in Explicit, Schedule(Master, u)
      PROVE  Recording /\ rec' = rec /\ pc'[Master] = pc[Master]
  BY <1>2, <1>3, MasterIsTask DEF Steps, Schedule, Begin, codeVars
<1>4. ASSUME TeamBarrier \/ Done
      PROVE  Recording /\ rec' = rec /\ pc'[Master] = pc[Master]
  BY <1>4 DEF TeamBarrier, Done, Recording, MovesOn, vars, taskVars, codeVars, restVars
<1> QED
  BY <1>1, <1>2, <1>3, <1>4 DEF HostTasking

-------------------------------------------------------------------------------
(* The steps of the tasking model.                                         *)

\* Only the master's tasks are recorded, and only while it records: a recorded
\* task creates none.
LEMMA RecordedByMaster ==
  ASSUME IInv, RecordInv, NEW t \in Task, NEW u \in Explicit, RecordsTask(t, u)
  PROVE  /\ attr'[u].record => t = Master /\ place = "recording"
         /\ \A v \in Task : v # u => status'[v] = status[v] /\ attr'[v] = attr[v] /\ parent'[v] = parent[v]
         /\ status'[u] \in {"allocated", "committed"} /\ parent'[u] = t
<1>0. TypeOK /\ TreeInv /\ u \in Task /\ NoTask \notin Task
  BY DisjointTasks DEF IInv, Task
<1>1. PICK a \in Attr : attr' = [attr EXCEPT ![u] = [a EXCEPT !.record = t \in rec \/ attr[t].record]]
  BY DEF RecordsTask
<1>2. attr'[u].record <=> t \in rec \/ attr[t].record
  BY <1>0, <1>1 DEF TypeOK, Attr
<1>3. /\ \A v \in Task : v # u => status'[v] = status[v] /\ attr'[v] = attr[v] /\ parent'[v] = parent[v]
      /\ status'[u] \in {"allocated", "committed"} /\ parent'[u] = t
  BY <1>0, <1>1 DEF RecordsTask, TypeOK
<1>4. ~attr[t].record
  <2> SUFFICES ASSUME attr[t].record PROVE FALSE
    OBVIOUS
  <2>1. t # Master
    BY MasterAssumption DEF RecordInv
  <2>2. parent[u] = NoTask
    BY <1>0 DEF TreeInv, RecordsTask
  <2> QED
    BY <1>0, <1>3, <2>1, <2>2 DEF RecordsTask, Leaf
<1> QED
  BY <1>2, <1>3, <1>4 DEF RecordInv

\* What a step of the tasking model does to the tasks of the recording.
LEMMA HostRecordInv ==
  ASSUME IInv, RecordInv, Recording, rec' = rec, UNCHANGED graphVars,
         place = "stopping" /\ pc[Master] = "taskwait" => pc'[Master] = "taskwait"
  PROVE  RecordInv'
<1>0. TypeOK /\ TreeInv /\ \A u \in Explicit : u \in Task
  BY DEF IInv, Task
<1>1. /\ rec' = IF place' = "recording" THEN {Master} ELSE {}
      /\ place' = "stopping" => pc'[Master] = "taskwait"
      /\ rc' = 0 => place' = "out"
      /\ place' = "replaying" => rc' > 1
      /\ place' \in {"recording", "stopping"} => rc' = 1
  BY DEF RecordInv, graphVars
<1>2. ASSUME \A t \in Thread : attr'[t] = attr[t],
             \A u \in Explicit : InGraph(u)' =>
               /\ parent'[u] = Master /\ rc # 0
               /\ place \in {"out", "replaying"} => status'[u] = "completed"
      PROVE  RecordInv'
  BY <1>1, <1>2 DEF RecordInv, graphVars
<1>3. CASE \E t \in Task, u \in Explicit : RecordsTask(t, u)
  <2>1. PICK t \in Task, u \in Explicit : RecordsTask(t, u)
    BY <1>3
  <2>2. /\ attr'[u].record => t = Master /\ place = "recording"
        /\ \A v \in Task : v # u => status'[v] = status[v] /\ attr'[v] = attr[v] /\ parent'[v] = parent[v]
        /\ parent'[u] = t
    BY <2>1, RecordedByMaster
  <2>3. \A t1 \in Thread : t1 \in Task /\ t1 # u
    BY DisjointTasks
  <2>4. ASSUME NEW v \in Explicit, InGraph(v)'
        PROVE  /\ parent'[v] = Master /\ rc # 0
               /\ place \in {"out", "replaying"} => status'[v] = "completed"
    <3>1. CASE v = u
      BY <2>2, <2>4, <3>1 DEF InGraph, RecordInv
    <3>2. CASE v # u
      BY <1>0, <2>2, <2>4, <3>2 DEF InGraph, RecordInv
    <3> QED
      BY <3>1, <3>2
  <2> QED
    BY <1>2, <2>2, <2>3, <2>4
<1>4. CASE \E u \in Explicit : EndsTask(u)
  <2>1. PICK u \in Explicit : EndsTask(u)
    BY <1>4
  <2>2. /\ \A v \in Explicit : v # u => status'[v] = status[v]
        /\ status[u] # "none" /\ status'[u] = "completed" /\ UNCHANGED <<attr, parent>>
    BY <1>0, <2>1 DEF EndsTask, TypeOK, Executing
  <2>3. ASSUME NEW v \in Explicit, InGraph(v)'
        PROVE  /\ parent'[v] = Master /\ rc # 0
               /\ place \in {"out", "replaying"} => status'[v] = "completed"
    <3>1. InGraph(v)
      BY <2>2, <2>3 DEF InGraph
    <3> QED
      BY <2>2, <3>1 DEF RecordInv
  <2> QED
    BY <1>2, <2>2, <2>3
<1>5. CASE MovesOn
  <2>1. ASSUME NEW v \in Explicit, InGraph(v)'
        PROVE  /\ parent'[v] = Master /\ rc # 0
               /\ place \in {"out", "replaying"} => status'[v] = "completed"
    <3>1. InGraph(v) /\ parent'[v] = parent[v] /\ (status[v] = "completed" => status'[v] = "completed")
      BY <1>5, <2>1 DEF InGraph, MovesOn
    <3> QED
      BY <3>1 DEF RecordInv
  <2> QED
    BY <1>2, <1>5, <2>1 DEF MovesOn
<1> QED
  BY <1>3, <1>4, <1>5 DEF Recording

\* Each recorded task that ends leaves a command.
LEMMA HostCommandInv ==
  ASSUME IInv, RecordInv, CommandInv, Recording
  PROVE  CommandInv'
<1>0. TypeOK /\ (\A u \in Explicit : u \in Task) /\ cmds \in Seq(Explicit)
  BY DEF IInv, Task, TypeOK
<1>1. \A i \in DOMAIN cmds : cmds[i] \in Explicit
  BY <1>0, ElementOfSeq, LenProperties
<1>2. CASE \E t \in Task, u \in Explicit : RecordsTask(t, u)
  <2>1. PICK t \in Task, u \in Explicit : RecordsTask(t, u)
    BY <1>2
  <2>2. /\ \A v \in Task : v # u => status'[v] = status[v] /\ attr'[v] = attr[v]
        /\ status'[u] # "completed" /\ status[u] = "none" /\ cmds' = cmds
    BY <2>1, RecordedByMaster DEF RecordsTask
  <2>3. \A i \in DOMAIN cmds : cmds[i] # u /\ cmds[i] \in Task
    BY <1>0, <1>1, <2>2 DEF CommandInv, InGraph
  <2>4. \A v \in Recorded' : status'[v] = "completed" => v \in Recorded /\ status[v] = "completed"
    BY <1>0, <2>2 DEF Recorded
  <2> QED
    BY <2>2, <2>3, <2>4 DEF CommandInv, InGraph, OneCommand
<1>3. CASE \E u \in Explicit : EndsTask(u)
  <2>1. PICK u \in Explicit : EndsTask(u)
    BY <1>3
  <2>2. /\ \A v \in Explicit : v # u => status'[v] = status[v]
        /\ status[u] = "executing" /\ status'[u] = "completed" /\ attr' = attr
    BY <1>0, <2>1 DEF EndsTask, TypeOK, Executing
  <2>3. \A i \in DOMAIN cmds : cmds[i] # u
    BY <2>2 DEF CommandInv
  <2>4. \A i \in DOMAIN cmds : status'[cmds[i]] = "completed" /\ attr'[cmds[i]].record
    BY <1>1, <2>2, <2>3 DEF CommandInv, InGraph
  <2>5. \A v \in Recorded' : v # u => v \in Recorded /\ status'[v] = status[v]
    BY <2>2 DEF Recorded
  <2>6. CASE ~(attr[u].record /\ attr[u].body)
    <3>1. cmds' = cmds
      BY <2>1, <2>6 DEF EndsTask
    <3>2. u \notin Recorded'
      BY <2>2, <2>6 DEF Recorded
    <3> QED
      BY <2>4, <2>5, <3>1, <3>2 DEF CommandInv, OneCommand, InGraph
  <2>7. CASE attr[u].record /\ attr[u].body
    <3>1. cmds' = Append(cmds, u)
      BY <2>1, <2>7 DEF EndsTask
    <3> DEFINE n == Len(cmds)
    <3>2. /\ n \in Nat /\ DOMAIN cmds = 1..n /\ DOMAIN cmds' = 1..(n + 1)
          /\ cmds'[n + 1] = u /\ \A i \in 1..n : cmds'[i] = cmds[i]
      BY <1>0, <3>1, AppendProperties, LenProperties
    <3> HIDE DEF n
    <3>3. \A i \in DOMAIN cmds' : i = n + 1 \/ i \in DOMAIN cmds
      BY <3>2
    <3>4. \A i \in DOMAIN cmds : i \in DOMAIN cmds' /\ cmds'[i] = cmds[i] /\ i # n + 1
      BY <3>2
    <3>5. n + 1 \in DOMAIN cmds'
      BY <3>2
    <3>6. attr'[u].record
      BY <2>2, <2>7
    <3>7. \A i \in DOMAIN cmds' : attr'[cmds'[i]].record /\ status'[cmds'[i]] = "completed"
      <4> SUFFICES ASSUME NEW i \in DOMAIN cmds'
                   PROVE  attr'[cmds'[i]].record /\ status'[cmds'[i]] = "completed"
        OBVIOUS
      <4>1. CASE i = n + 1
        BY <2>2, <3>2, <3>6, <4>1
      <4>2. CASE i \in DOMAIN cmds
        BY <2>4, <3>4, <4>2
      <4> QED
        BY <3>3, <4>1, <4>2
    <3>8. \A v \in Recorded' : status'[v] = "completed" => \E i \in DOMAIN cmds' : cmds'[i] = v
      <4> SUFFICES ASSUME NEW v \in Recorded', status'[v] = "completed"
                   PROVE  \E i \in DOMAIN cmds' : cmds'[i] = v
        OBVIOUS
      <4>1. CASE v = u
        BY <3>2, <3>5, <4>1
      <4>2. CASE v # u
        BY <2>5, <3>4, <4>2 DEF CommandInv
      <4> QED
        BY <4>1, <4>2
    <3>9. OneCommand'
      <4> SUFFICES ASSUME NEW i \in DOMAIN cmds', NEW j \in DOMAIN cmds', cmds'[i] = cmds'[j]
                   PROVE  i = j
        BY DEF OneCommand
      <4>1. CASE i = n + 1 /\ j = n + 1
        BY <4>1
      <4>2. CASE i \in DOMAIN cmds /\ j \in DOMAIN cmds
        BY <3>4, <4>2 DEF CommandInv, OneCommand
      <4> QED
        BY <2>3, <3>2, <3>3, <3>4, <4>1, <4>2
    <3> QED
      BY <3>7, <3>8, <3>9 DEF CommandInv, InGraph
  <2> QED
    BY <2>6, <2>7
<1>4. CASE MovesOn
  <2>1. \A v \in Explicit : /\ status[v] = "completed" <=> status'[v] = "completed"
                            /\ status[v] # "none" <=> status'[v] # "none"
    BY <1>4 DEF MovesOn
  <2>2. UNCHANGED <<attr, cmds>>
    BY <1>4 DEF MovesOn
  <2> QED
    BY <1>1, <2>1, <2>2 DEF CommandInv, InGraph, Recorded, OneCommand
<1> QED
  BY <1>2, <1>3, <1>4 DEF Recording

LEMMA HostPass ==
  ASSUME \A a \in Attrs : a.parts = 1, IInv, TgTypeOK, PassInv, HostTasking
  PROVE  PassInv'
<1>0. /\ TypeOK /\ TiedInv /\ RecordInv /\ CommandInv /\ ReplayInv
      /\ \A u \in Explicit : u \in Task
      /\ Recording /\ rec' = rec /\ UNCHANGED graphVars
      /\ place = "stopping" /\ pc[Master] = "taskwait" => pc'[Master] = "taskwait"
  BY HostRecording DEF PassInv, IInv, Task
<1>1. RecordInv' /\ CommandInv'
  BY <1>0, HostRecordInv, HostCommandInv
<1>2. TiedInv'
  <2>1. CASE \E t \in Task, u \in Explicit : RecordsTask(t, u)
    BY <1>0, <2>1 DEF RecordsTask, TiedInv, TypeOK, Attr
  <2>2. CASE (\E u \in Explicit : EndsTask(u)) \/ MovesOn
    BY <1>0, <2>2 DEF EndsTask, MovesOn, TiedInv
  <2> QED
    BY <1>0, <2>1, <2>2 DEF Recording
<1>3. ReplayInv'
  <2>1. ASSUME rc > 1
        PROVE  cmds' = cmds
    <3>1. rc # 1 /\ rc \in Nat
      BY <2>1 DEF TgTypeOK
    <3>2. place \in {"out", "replaying"}
      BY <1>0, <3>1 DEF TgTypeOK, RecordInv
    <3>3. ASSUME NEW u \in Explicit, EndsTask(u)
          PROVE  cmds' = cmds
      <4>1. ~InGraph(u) /\ status[u] = "executing"
        BY <1>0, <3>2, <3>3 DEF EndsTask, Executing, RecordInv
      <4> QED
        BY <3>3, <4>1 DEF EndsTask, InGraph
    <3> QED
      BY <1>0, <3>3 DEF Recording, RecordsTask, MovesOn
  <2>2. rc \in Nat
    BY DEF TgTypeOK
  <2>3. ~(rc <= 1) => rc > 1
    BY <2>2
  <2> QED
    BY <1>0, <2>1, <2>3 DEF ReplayInv, graphVars
<1> QED
  BY <1>0, <1>1, <1>2, <1>3 DEF PassInv

-------------------------------------------------------------------------------
(* The steps of the taskgraph.                                             *)

\* The wait that ends a recording has waited for every task recorded.
LEMMA RecordedAreDone ==
  ASSUME IInv, SubmitInv, RecordInv, GraphStopped
  PROVE  \A u \in Explicit : InGraph(u) => status[u] = "completed"
<1> SUFFICES ASSUME NEW u \in Explicit, InGraph(u)
             PROVE  status[u] = "completed"
  OBVIOUS
<1>1. parent[u] = Master /\ pc[Master] = "taskwait" /\ \A v \in Children(Master) : status[v] = "completed"
  BY DEF RecordInv, GraphStopped, TaskwaitReturn
<1>2. status[u] # "allocated" /\ status[u] # "none"
  BY <1>1 DEF SubmitInv, AllocatedInv, InGraph
<1> QED
  BY <1>1, <1>2 DEF Children

LEMMA GraphPass ==
  ASSUME IInv, SubmitInv, TgTypeOK, PassInv,
         \/ GraphRecord \/ GraphBuild \/ GraphReplay \/ GraphStop \/ GraphStopped \/ GraphReplayed
         \/ \E i \in left : Command(i)
  PROVE  PassInv'
<1>0. /\ TypeOK /\ TiedInv /\ RecordInv /\ CommandInv /\ ReplayInv
      /\ rc \in Nat
  BY DEF PassInv, IInv, TgTypeOK
<1>1. UNCHANGED <<status, attr, parent, part, cmds>>
  BY DEF GraphRecord, GraphBuild, GraphReplay, GraphStop, GraphStopped, GraphReplayed, Command, WaitsAs,
         TaskwaitReturn, Resumed, vars, taskVars, codeVars, restVars
<1>2. TiedInv' /\ CommandInv'
  BY <1>0, <1>1 DEF TiedInv, CommandInv, InGraph, Recorded, OneCommand
<1>3. RecordInv'
  <2>1. /\ \A t \in Thread : ~attr'[t].record
        /\ \A u \in Explicit : InGraph(u)' <=> InGraph(u)
        /\ \A u \in Explicit : InGraph(u) => parent'[u] = Master
        /\ \A u \in Explicit : status'[u] = "completed" <=> status[u] = "completed"
    BY <1>0, <1>1 DEF RecordInv, InGraph
  <2>2. CASE GraphRecord
    <3>1. rec' = {Master} /\ place' = "recording" /\ rc' = 1
      BY <2>2 DEF GraphRecord
    <3> QED
      BY <2>1, <3>1 DEF RecordInv
  <2>3. CASE GraphBuild \/ GraphReplay
    <3>1. place = "out" /\ place' = "replaying" /\ rc' > 1 /\ rc' # 0 /\ rc # 0 /\ rec' = rec
      BY <1>0, <2>3 DEF GraphBuild, GraphReplay, Begins, vars, restVars
    <3> QED
      BY <1>0, <2>1, <3>1 DEF RecordInv
  <2>4. CASE GraphStop
    <3>1. rec' = {} /\ place = "recording" /\ place' = "stopping" /\ rc' = rc /\ pc'[Master] = "taskwait"
      BY <1>0, <2>4, MasterIsTask DEF GraphStop, WaitsAs, TypeOK
    <3> QED
      BY <1>0, <2>1, <3>1 DEF RecordInv
  <2>5. CASE GraphStopped
    <3>1. place = "stopping" /\ place' = "out" /\ rc' = rc /\ rec' = rec
      BY <2>5 DEF GraphStopped, TaskwaitReturn, restVars
    <3>2. \A u \in Explicit : InGraph(u) => status[u] = "completed"
      BY <1>0, <2>5, RecordedAreDone
    <3> QED
      BY <1>0, <2>1, <3>1, <3>2 DEF RecordInv
  <2>6. CASE GraphReplayed
    <3>1. place = "replaying" /\ place' = "out" /\ rc' = rc /\ rec' = rec
      BY <2>6 DEF GraphReplayed, vars, restVars
    <3>2. rc' # 0
      BY <1>0, <3>1 DEF RecordInv
    <3> QED
      BY <1>0, <2>1, <3>1, <3>2 DEF RecordInv
  <2>7. CASE \E i \in left : Command(i)
    <3>1. place' = place /\ rc' = rc /\ rec' = rec /\ place = "replaying"
      BY <2>7 DEF Command, vars, restVars
    <3> QED
      BY <1>0, <2>1, <3>1 DEF RecordInv
  <2> QED
    BY <2>2, <2>3, <2>4, <2>5, <2>6, <2>7
<1>4. ReplayInv'
  <2>1. CASE GraphRecord
    <3>1. rc = 0 /\ rc' = 1 /\ UNCHANGED <<graph, left, replays>> /\ place = "out"
      BY <2>1 DEF GraphRecord, Begins
    <3> QED
      BY <1>0, <3>1 DEF ReplayInv
  <2>2. CASE GraphBuild
    <3>1. rc = 1 /\ rc' = 2 /\ graph' = cmds /\ left' = DOMAIN cmds /\ place' = "replaying" /\ UNCHANGED replays
      BY <2>2 DEF GraphBuild
    <3>2. \A i \in DOMAIN cmds : cmds[i] \in Explicit
      BY <1>0, ElementOfSeq, LenProperties DEF TypeOK
    <3>3. \A u \in Explicit : replays[u] = 0
      BY <1>0, <3>1 DEF ReplayInv
    <3>4. \A i \in DOMAIN graph' : replays'[graph'[i]] = rc' - 2 /\ i \in left'
      BY <3>1, <3>2, <3>3
    <3>5. ~(rc' <= 1)
      BY <3>1
    <3> QED
      BY <1>1, <3>1, <3>4, <3>5 DEF ReplayInv
  <2>3. CASE GraphReplay
    <3>1. rc > 1 /\ rc' = rc + 1 /\ left' = DOMAIN graph /\ place' = "replaying" /\ place = "out" /\ UNCHANGED <<graph, replays>>
      BY <2>3 DEF GraphReplay, Begins
    <3>2. left = {} /\ graph = cmds /\ \A i \in DOMAIN graph : replays[graph[i]] = rc - 1
      BY <1>0, <3>1 DEF ReplayInv
    <3>3. ~(rc' <= 1) /\ rc' - 2 = rc - 1
      BY <1>0, <3>1
    <3> QED
      BY <1>1, <3>1, <3>2, <3>3 DEF ReplayInv
  <2>4. CASE GraphStop \/ GraphStopped \/ GraphReplayed
    <3>1. UNCHANGED <<rc, graph, left, replays>> /\ left = {}
      BY <1>0, <2>4 DEF GraphStop, GraphStopped, GraphReplayed, ReplayInv
    <3> QED
      BY <1>0, <1>1, <3>1 DEF ReplayInv
  <2>5. ASSUME NEW i \in left, Command(i)
        PROVE  ReplayInv'
    <3>1. /\ place = "replaying" /\ left' = left \ {i}
          /\ replays' = [replays EXCEPT ![graph[i]] = @ + 1] /\ UNCHANGED <<rc, place, graph>>
      BY <2>5 DEF Command
    <3>2. rc > 1 /\ ~(rc <= 1)
      BY <1>0, <3>1 DEF RecordInv
    <3>3. graph = cmds /\ \A j \in DOMAIN graph : replays[graph[j]] = IF j \in left THEN rc - 2 ELSE rc - 1
      BY <1>0, <3>2 DEF ReplayInv
    <3>4. i \in DOMAIN graph /\ \A j \in DOMAIN graph : graph[j] \in Explicit
      BY ElementOfSeq, LenProperties DEF TgTypeOK
    <3>5. replays \in [Explicit -> Nat]
      BY DEF TgTypeOK
    <3>6. replays'[graph[i]] = rc - 1 /\ i \notin left'
      BY <1>0, <3>1, <3>3, <3>4, <3>5
    <3>7. \A j \in DOMAIN graph : j # i => graph[j] # graph[i]
      BY <1>0, <3>3, <3>4 DEF CommandInv, OneCommand
    <3>8. \A j \in DOMAIN graph : j # i => replays'[graph[j]] = replays[graph[j]] /\ (j \in left' <=> j \in left)
      BY <3>1, <3>4, <3>5, <3>7
    <3>9. \A j \in DOMAIN graph : replays'[graph[j]] = IF j \in left' THEN rc - 2 ELSE rc - 1
      BY <3>3, <3>6, <3>8
    <3> QED
      BY <1>1, <3>1, <3>2, <3>3, <3>9 DEF ReplayInv
  <2> QED
    BY <2>1, <2>2, <2>3, <2>4, <2>5
<1> QED
  BY <1>2, <1>3, <1>4 DEF PassInv

-------------------------------------------------------------------------------
(* The theorems.                                                           *)

TgInv == IInv /\ SubmitInv /\ TgTypeOK

LEMMA TgTypeStep ==
  ASSUME TgInv, [TgNext]_tgVars
  PROVE  TgInv'
<1>0. IInv' /\ SubmitInv' /\ TypeOK'
  BY TaskingKept DEF TgInv, IInv
<1>1. /\ rc \in Nat /\ place \in {"out", "recording", "stopping", "replaying"}
      /\ graph \in Seq(Explicit) /\ left \subseteq DOMAIN graph /\ replays \in [Explicit -> Nat]
      /\ cmds \in Seq(Explicit)
  BY DEF TgInv, TgTypeOK, TypeOK
<1>2. CASE HostTasking \/ UNCHANGED tgVars
  BY <1>0, <1>1, <1>2 DEF HostTasking, tgVars, graphVars, TgInv, TgTypeOK
<1>3. CASE GraphRecord \/ GraphBuild \/ GraphReplay
  BY <1>0, <1>1, <1>3 DEF GraphRecord, GraphBuild, GraphReplay, TgInv, TgTypeOK
<1>4. CASE GraphStop \/ GraphStopped \/ GraphReplayed
  BY <1>0, <1>1, <1>4 DEF GraphStop, GraphStopped, GraphReplayed, TgInv, TgTypeOK
<1>5. ASSUME NEW i \in left, Command(i)
      PROVE  TgInv'
  <2>1. graph[i] \in Explicit
    BY <1>1, ElementOfSeq, LenProperties
  <2> QED
    BY <1>0, <1>1, <1>5, <2>1 DEF Command, TgInv, TgTypeOK
<1> QED
  BY <1>2, <1>3, <1>4, <1>5 DEF TgNext

LEMMA TgInitInv == TgInit => TgInv /\ PassInv
<1> SUFFICES ASSUME TgInit PROVE TgInv /\ PassInv
  OBVIOUS
<1>1. IInv /\ SubmitInv /\ TypeOK
  BY InitInv, SubmitInit DEF TgInit, IInv
<1>2. TgInv
  BY <1>1 DEF TgInit, TgInv, TgTypeOK
<1>3. /\ \A t \in Task : part[t] = 1 /\ attr[t].parts = 1 /\ ~attr[t].record
      /\ \A u \in Explicit : status[u] = "none"
      /\ cmds = <<>> /\ rec = {}
  BY DisjointTasks DEF TgInit, Init, HostAttr
<1>4. TiedInv /\ RecordInv /\ CommandInv /\ ReplayInv
  BY <1>3 DEF TgInit, TiedInv, RecordInv, CommandInv, ReplayInv, InGraph, Recorded, OneCommand, Task
<1> QED
  BY <1>2, <1>4 DEF PassInv

\* The variables of the taskgraph model keep their types.
THEOREM TgTypeCorrect == TgSpec => []TgTypeOK
<1>1. TgInv => TgTypeOK
  BY DEF TgInv
<1>2. TgInv /\ [TgNext]_tgVars => TgInv'
  BY TgTypeStep
<1> QED
  BY TgInitInv, <1>1, <1>2, PTL DEF TgSpec

\* PassInv is an invariant of programs without untied tasks.
LEMMA PassInvariance ==
  ASSUME \A a \in Attrs : a.parts = 1
  PROVE  TgSpec => [](TgInv /\ PassInv)
<1>1. ASSUME TgInv, PassInv, [TgNext]_tgVars
      PROVE  PassInv'
  <2>1. IInv /\ SubmitInv /\ TgTypeOK
    BY <1>1 DEF TgInv
  <2>2. CASE HostTasking
    BY <1>1, <2>1, <2>2, HostPass
  <2>3. CASE UNCHANGED tgVars
    BY <1>1, <2>3 DEF tgVars, vars, taskVars, codeVars, restVars, graphVars, PassInv, TiedInv, RecordInv,
                      CommandInv, ReplayInv, InGraph, Recorded, OneCommand
  <2> QED
    BY <1>1, <2>1, <2>2, <2>3, GraphPass DEF TgNext
<1>2. TgInv /\ PassInv /\ [TgNext]_tgVars => (TgInv /\ PassInv)'
  BY <1>1, TgTypeStep
<1> QED
  BY TgInitInv, <1>2, PTL DEF TgSpec

\* Without untied tasks, each pass over a taskgraph applies each task's body
\* exactly once and has done so when it returns, for any tasks, clauses and
\* number of passes (pragma_omp_taskgraph, xkomp_taskgraph_host.cc).
THEOREM PassesApplyOnce ==
  ASSUME \A a \in Attrs : a.parts = 1
  PROVE  TgSpec => []PassesOnce
<1>1. ASSUME TgInv, PassInv
      PROVE  PassesOnce
  <2> SUFFICES ASSUME place = "out", NEW u \in Recorded
               PROVE  status[u] = "completed" /\ replays[u] = IF rc = 0 THEN 0 ELSE rc - 1
    BY DEF PassesOnce
  <2>0. RecordInv /\ CommandInv /\ ReplayInv /\ u \in Explicit /\ InGraph(u) /\ rc \in Nat
    BY <1>1 DEF PassInv, TgInv, TgTypeOK, Recorded, InGraph
  <2>1. status[u] = "completed" /\ rc # 0
    BY <2>0 DEF RecordInv
  <2>2. PICK i \in DOMAIN cmds : cmds[i] = u
    BY <2>0, <2>1 DEF CommandInv
  <2>3. CASE rc <= 1
    BY <2>0, <2>1, <2>3 DEF ReplayInv
  <2>4. CASE ~(rc <= 1)
    BY <2>0, <2>1, <2>2, <2>4 DEF ReplayInv
  <2> QED
    BY <2>3, <2>4
<1> QED
  BY PassInvariance, <1>1, PTL

\* Without untied tasks, a task leaves one command (body_omp_task).
THEOREM TiedLeavesOne ==
  ASSUME \A a \in Attrs : a.parts = 1
  PROVE  TgSpec => []OneCommand
<1>1. TgInv /\ PassInv => OneCommand
  BY DEF PassInv, CommandInv
<1> QED
  BY PassInvariance, <1>1, PTL
===============================================================================
