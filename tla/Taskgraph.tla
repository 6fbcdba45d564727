------------------------------- MODULE Taskgraph -------------------------------
(***************************************************************************)
(* Taskgraphs (src/xkomp/taskgraph.cc, pragma_omp_taskgraph of             *)
(* include/xkomp/xkomp++.h) on top of the tasking model: the first pass    *)
(* runs the code and records its tasks, the second turns what was recorded *)
(* into a command graph, and it and the later ones replay the graph.       *)
(*                                                                         *)
(* One thread meets the taskgraph, as in a single construct ("Parallel     *)
(* init/replay of the same taskgraph is not supported"), and its passes do *)
(* not nest.  While it replays it does nothing else: "the instance         *)
(* boundary is a full barrier".  How the runtime runs a graph is XKRT's: a *)
(* command waits for those of the earlier siblings that order its task.    *)
(***************************************************************************)
EXTENDS KmpTask

CONSTANTS
  Master,      \* the thread that meets the taskgraph
  MaxPasses    \* bound on the times it does

ASSUME MasterAssumption == Master \in Thread
ASSUME PassAssumption == MaxPasses \in Nat

\* What a device task leaves in the graph, the commands it submits, is XKRT's.
ASSUME HostAssumption == \A a \in Attrs : ~a.target

VARIABLES
  rc,        \* taskgraph.rc
  place,     \* of Master: "out", "recording", "stopping", "replaying"
  graph,     \* taskgraph.cg: the tasks its commands run
  left,      \* the commands the replay has not completed
  replays    \* history: how often a task's body has run in replays

graphVars == <<rc, place, graph, left, replays>>
tgVars == <<vars, graphVars>>

TgInit ==
  /\ Init
  /\ rc = 0 /\ place = "out" /\ graph = <<>> /\ left = {}
  /\ replays = [u \in Explicit |-> 0]

-------------------------------------------------------------------------------
Begins == Encountering(Master) /\ place = "out" /\ rc < MaxPasses

\* task_dependency_graph_record_start: Master's tasks are recorded from now on.
GraphRecord ==
  /\ Begins /\ rc = 0
  /\ rc' = rc + 1
  /\ rec' = {Master}
  /\ place' = "recording"
  /\ UNCHANGED <<taskVars, codeVars, runVars, groupVars, abi, cmds, mode>>
  /\ UNCHANGED <<graph, left, replays>>

\* Mutation: no command graph is built.
GraphBuildNot ==
  /\ Begins /\ rc = 1
  /\ rc' = rc + 1
  /\ left' = DOMAIN cmds
  /\ place' = "replaying"
  /\ UNCHANGED <<vars, graph, replays>>

\* command_graph_from_task_dependency_graph, then the first replay.
GraphBuild ==
  /\ Begins /\ rc = 1
  /\ rc' = rc + 1
  /\ graph' = cmds
  /\ left' = DOMAIN cmds
  /\ place' = "replaying"
  /\ UNCHANGED <<vars, replays>>

GraphReplay ==
  /\ Begins /\ rc > 1
  /\ rc' = rc + 1
  /\ left' = DOMAIN graph
  /\ place' = "replaying"
  /\ UNCHANGED <<vars, graph, replays>>

\* Mutation: recording stops without waiting for the tasks recorded.
GraphStopAtOnce ==
  /\ Encountering(Master) /\ place = "recording"
  /\ rec' = {}
  /\ place' = "out"
  /\ UNCHANGED <<taskVars, codeVars, runVars, groupVars, abi, cmds, mode>>
  /\ UNCHANGED <<rc, graph, left, replays>>

\* task_dependency_graph_record_stop: "implicit taskwait in XKRT".
GraphStop ==
  /\ Encountering(Master) /\ place = "recording"
  /\ rec' = {}
  /\ WaitsAs(Master, "taskwait")
  /\ place' = "stopping"
  /\ UNCHANGED <<taskVars, runVars, groupVars, abi, cmds, mode>>
  /\ UNCHANGED <<rc, graph, left, replays>>

GraphStopped ==
  /\ place = "stopping" /\ TaskwaitReturn(Master)
  /\ place' = "out"
  /\ UNCHANGED <<rc, graph, left, replays>>

\* A command runs the task's routine again, with the task's own data.
Command(i) ==
  /\ place = "replaying" /\ i \in left
  /\ \A j \in left : graph[j] < graph[i] => ~SlotsPrecede(slots[graph[j]], slots[graph[i]])
  /\ left' = left \ {i}
  /\ replays' = [replays EXCEPT ![graph[i]] = @ + 1]
  /\ UNCHANGED <<vars, rc, place, graph>>

\* The replay returns, and xkomp_taskgraph_end has nothing to do.
GraphReplayed ==
  /\ place = "replaying" /\ left = {}
  /\ place' = "out"
  /\ UNCHANGED <<vars, rc, graph, left, replays>>

\* The steps of the tasking model: a recorded task's code creates no task, and
\* Master, inside a call of taskgraph.cc, at most runs other tasks.
Leaf(t) == attr[t].record => parent' = parent

HostTasking ==
  /\ \/ \E t \in Task \ {Master} : Steps(t) /\ Leaf(t)
     \/ place \in {"out", "recording"} /\ Steps(Master)
     \/ place = "stopping" /\ \E u \in Explicit : Schedule(Master, u)
     \/ TeamBarrier \/ Done
  /\ UNCHANGED graphVars

TgNext ==
  \/ HostTasking
  \/ GraphRecord \/ GraphBuild \/ GraphReplay \/ GraphStop \/ GraphStopped \/ GraphReplayed
  \/ \E i \in left : Command(i)

TgSpec == TgInit /\ [][TgNext]_tgVars

-------------------------------------------------------------------------------
(* Properties.                                                             *)

TgTypeOK ==
  /\ TypeOK
  /\ rc \in Nat
  /\ place \in {"out", "recording", "stopping", "replaying"}
  /\ graph \in Seq(Explicit)
  /\ left \subseteq DOMAIN graph
  /\ replays \in [Explicit -> Nat]

\* The explicit tasks of the recorded pass that have a body of the program's.
Recorded == {u \in Explicit : status[u] # "none" /\ attr[u].record /\ attr[u].body}

\* "Each (record or replay) pass must apply the task bodies exactly once", and
\* "each pass has completed by the time pragma_omp_taskgraph returns"
\* (tests/xkomp/taskgraph/xkomp_taskgraph_host.cc).
PassesOnce ==
  place = "out" =>
    \A u \in Recorded : status[u] = "completed" /\ replays[u] = IF rc = 0 THEN 0 ELSE rc - 1

\* "Runs once per recorded task" (body_omp_task): a task leaves one command.
OneCommand == \A i, j \in DOMAIN cmds : cmds[i] = cmds[j] => i = j
===============================================================================
