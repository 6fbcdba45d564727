-------------------------------- MODULE OmptTeam -------------------------------
(***************************************************************************)
(* Parallel regions under an OMPT tool: Team, with the events that the     *)
(* bridge (src/ompt/ompt.cc) reports at each of its steps, some emitted by *)
(* xkomp_parallel and fork_call_wrapper, the others translated from XKRT's.*)
(*                                                                         *)
(* A tool sees scopes begin and end on each thread, and knows them by the  *)
(* data it stored: slots of 64 bits in the runtime's team_t and task_t,    *)
(* which outlive a region because teams are reused.  The tool of the model *)
(* fills a slot when it finds it empty, with the number of the region.     *)
(*                                                                         *)
(* A tool may finalise itself, from a callback, on any thread and inside   *)
(* of regions.  XKOMP's own events stop then; those translated from XKRT's *)
(* go on, for nothing unregisters them and OMPT_CB is not cleared.         *)
(***************************************************************************)
EXTENDS Team

\* The threads in whose callbacks the tool may call ompt_finalize_tool.
CONSTANT Finalizing
ASSUME FinalizingAssumption == Finalizing \subseteq Thread

VARIABLES
  registered,    \* has the tool accepted? XKRT then calls the bridge
  OMPT_ENABLED,
  begun,         \* TLS_THREAD_BEGUN
  teamData,      \* tool_data of the cached teams
  taskData,      \* per thread and cached team: tool_data of its implicit task
  nested,        \* per thread: both data of each nested team it is in
  seen,          \* per thread: the scopes the tool has seen begin and not end
  finalizer      \* history: the thread on which the tool finalised itself, if any

data  == <<teamData, taskData, nested>>
ompt  == <<registered, OMPT_ENABLED, begun, data, seen, finalizer>>
ovars == <<vars, ompt>>

-------------------------------------------------------------------------------
(* The callbacks.  A scope is <<kind, datum>>.                             *)

Begin(view, kind, d) == Append(view, <<kind, d>>)

\* An end that is not that of the innermost scope is kept, for the properties.
End(view, kind, d) ==
  IF view # <<>> /\ view[Len(view)] = <<kind, d>>
    THEN SubSeq(view, 1, Len(view) - 1)
    ELSE Append(view, <<"unmatched", d>>)

\* The events of XKOMP's own code test OMPT_ENABLED.
Emits(view, then) == IF OMPT_ENABLED THEN then ELSE view

\* The others come through callbacks XKRT has once a tool has accepted.
Calls(view, then) == IF registered THEN then ELSE view

Filled(slot, r) == IF slot = 0 THEN r ELSE slot

\* Mutation: the slot of a team that is reused keeps its datum.
KeptDatum(slot, r) == IF OMPT_ENABLED THEN Filled(slot, r) ELSE slot

\* parallel_data->ptr = NULL: a fresh datum, which the tool then fills.  Without
\* a tool the slot is left alone.
FreshParallel(slot, r) == IF OMPT_ENABLED THEN Filled(0, r) ELSE slot

FreshTask(slot, r) == IF OMPT_ENABLED THEN Filled(0, r) ELSE slot

ParallelBegin(view, d) == Emits(view, Begin(view, "parallel", d))
ParallelEnd(view, d)   == Emits(view, End(view, "parallel", d))
ImplicitTaskBegin(view, d) == Emits(view, Begin(view, "implicit", d))
ImplicitTaskEnd(view, d)   == Emits(view, End(view, "implicit", d))

\* The master's re-entry into a team is no start and no end of a thread; the
\* workers are never stopped.
OnThreadStop(view, master) == IF master THEN view ELSE Calls(view, End(view, "thread", 0))
OnThreadStart(view) == Calls(view, Begin(view, "thread", 0))

\* Mutation: the beginning, and only it, tests OMPT_ENABLED.
OnBarrierBeginTests(view, d) == Emits(view, Begin(Begin(view, "sync", d), "wait", d))

\* A barrier is a sync region, with the wait inside of it.
OnBarrierBegin(view, d) == Calls(view, Begin(Begin(view, "sync", d), "wait", d))
OnBarrierEnd(view, d)   == Calls(view, End(End(view, "wait", d), "sync", d))

\* The data of the team t is in, and of its implicit task there.
TeamDatum(t) ==
  LET k == regions[Top(t)].team
  IN  IF k = Nested THEN nested[t][Len(nested[t])].team ELSE teamData[k]
TaskDatum(t) ==
  LET k == regions[Top(t)].team
  IN  IF k = Nested THEN nested[t][Len(nested[t])].task ELSE taskData[t][k]

\* ompt_get_parallel_info and ompt_get_task_info at level 0, in the code of a
\* region; a thread that forks a nested region is number 0 of it.
GetParallelInfo(t) == [parallel_data |-> TeamDatum(t), team_size |-> SizeOf(Top(t))]

GetTaskInfo(t) ==
  [task_data |-> TaskDatum(t), parallel_data |-> TeamDatum(t),
   thread_num |-> IF t \in Worker /\ regions[Top(t)].team # Nested THEN t.tid ELSE 0]

-------------------------------------------------------------------------------
(* Team's steps, with their events.                                        *)

\* After start-up: the tool declined, or it has seen the initial thread and its
\* implicit task begin.
OInit ==
  /\ Init
  /\ registered \in BOOLEAN /\ OMPT_ENABLED = registered
  /\ begun = [t \in Thread |-> registered /\ t = InitialThread]
  /\ teamData = [k \in Keys |-> 0]
  /\ taskData = [t \in Thread |-> [k \in Keys |-> 0]]
  /\ nested = [t \in Thread |-> <<>>]
  /\ seen = [t \in Thread |-> IF begun[t] THEN <<<<"thread", 0>>, <<"initial", 0>>>> ELSE <<>>]
  /\ finalizer = {}

OPush(t, n) == PushNumThreads(t, n) /\ UNCHANGED ompt

\* A team of one runs its region inside team_create.
OForkNested(t) ==
  /\ ForkNested(t)
  /\ LET r == Len(regions) + 1
         d == FreshParallel(0, r)
     IN  /\ nested' = [nested EXCEPT ![t] = Append(@, [team |-> d, task |-> FreshTask(0, d)])]
         /\ seen' = [seen EXCEPT ![t] = ImplicitTaskBegin(ParallelBegin(@, d), d)]
  /\ UNCHANGED <<registered, OMPT_ENABLED, begun, teamData, taskData, finalizer>>

\* parallel_begin precedes the dispatch; the forking thread then enters the
\* wrapper as the team's first member.
OFork(t, key) ==
  /\ ForkCached(t, key) \/ ForkNew(t, key)
  /\ IF mode' = "aborted" THEN UNCHANGED <<teamData, taskData, seen>>
     ELSE LET d == FreshParallel(teamData[key], Len(regions) + 1)
          IN  /\ teamData' = [teamData EXCEPT ![key] = d]
              /\ taskData' = [taskData EXCEPT ![t][key] = FreshTask(@, d)]
              /\ seen' = [seen EXCEPT ![t] = ImplicitTaskBegin(ParallelBegin(@, d), d)]
  /\ UNCHANGED <<registered, OMPT_ENABLED, begun, nested, finalizer>>

\* A worker starts some time after team_create, and once only.
ThreadStart(w) ==
  /\ mode = "running" /\ registered /\ w.team \in teams /\ ~begun[w] /\ w \notin finalizer
  /\ begun' = [begun EXCEPT ![w] = TRUE]
  /\ seen' = [seen EXCEPT ![w] = OnThreadStart(@)]
  /\ UNCHANGED <<vars, registered, OMPT_ENABLED, data, finalizer>>

ODispatched(w) ==
  /\ Dispatched(w) /\ (registered => begun[w] \/ w \in finalizer)
  /\ LET d == teamData[w.team]
     IN  /\ taskData' = [taskData EXCEPT ![w][w.team] = FreshTask(@, d)]
         /\ seen' = [seen EXCEPT ![w] = ImplicitTaskBegin(@, d)]
  /\ UNCHANGED <<registered, OMPT_ENABLED, begun, teamData, nested, finalizer>>

OArrive(t) ==
  /\ Arrive(t)
  /\ seen' = [seen EXCEPT ![t] = OnBarrierBegin(@, TeamDatum(t))]
  /\ UNCHANGED <<registered, OMPT_ENABLED, begun, data, finalizer>>

OBarrier(r) ==
  /\ TeamBarrier(r)
  /\ seen' = [t \in Thread |-> IF pc'[t] = pc[t] THEN seen[t] ELSE OnBarrierEnd(seen[t], TeamDatum(t))]
  /\ UNCHANGED <<registered, OMPT_ENABLED, begun, data, finalizer>>

OPark(w) ==
  /\ Park(w)
  /\ seen' = [seen EXCEPT ![w] = ImplicitTaskEnd(@, TaskDatum(w))]
  /\ UNCHANGED <<registered, OMPT_ENABLED, begun, data, finalizer>>

\* team_join stops the master's thread_t of the nested team.
OJoinNested(t) ==
  /\ JoinNested(t)
  /\ seen' = [seen EXCEPT ![t] =
                ParallelEnd(OnThreadStop(ImplicitTaskEnd(@, TaskDatum(t)), TRUE), TeamDatum(t))]
  /\ nested' = [nested EXCEPT ![t] = SubSeq(@, 1, Len(@) - 1)]
  /\ UNCHANGED <<registered, OMPT_ENABLED, begun, teamData, taskData, finalizer>>

OJoin ==
  /\ Join
  /\ seen' = [seen EXCEPT ![InitialThread] =
                ParallelEnd(ImplicitTaskEnd(@, TaskDatum(InitialThread)), TeamDatum(InitialThread))]
  /\ UNCHANGED <<registered, OMPT_ENABLED, begun, data, finalizer>>

\* Mutation: the initial thread's implicit task is not ended.
InitialTaskOpen(view, d) == view

\* Its initial task, which no region's is, ends before the thread does.
InitialTaskEnd(view, d) == End(view, "initial", d)

\* do_finalize on t: what is open is balanced on this thread, by the task datum
\* of the thread_t it has at that point, and the tool is switched off.
DoFinalize(t, d) ==
  /\ seen' = [seen EXCEPT ![t] =
                End(IF t = InitialThread THEN InitialTaskEnd(@, d) ELSE @, "thread", 0)]
  /\ begun' = [begun EXCEPT ![t] = FALSE]
  /\ OMPT_ENABLED' = FALSE
  /\ UNCHANGED <<registered, data>>

\* ompt_finalize_tool, called between two steps of t's code.
FinalizeTool(t) ==
  /\ mode = "running" /\ OMPT_ENABLED /\ begun[t] /\ pc[t] # "parked"
  /\ DoFinalize(t, IF Inside(t) THEN TaskDatum(t) ELSE 0)
  /\ finalizer' = {t}
  /\ UNCHANGED vars

\* The exit handler; the initial thread is outside of every region.
OExit ==
  /\ Exit
  /\ IF OMPT_ENABLED THEN DoFinalize(InitialThread, 0)
       ELSE UNCHANGED <<registered, OMPT_ENABLED, begun, data, seen>>
  /\ UNCHANGED finalizer

ODone == Done /\ UNCHANGED ompt

OConstructs(t) ==
  \/ \E n \in NumThreads : OPush(t, n)
  \/ OForkNested(t)
  \/ \E k \in Keys : OFork(t, k)

OProceeds(t) ==
  \/ OArrive(t) \/ OJoinNested(t)
  \/ t \in Worker /\ (ThreadStart(t) \/ ODispatched(t) \/ OPark(t))
  \/ t = InitialThread /\ OJoin

ONext ==
  \/ \E t \in Thread : OConstructs(t) \/ OProceeds(t)
  \/ \E r \in 1..Len(regions) : OBarrier(r)
  \/ \E t \in Finalizing : FinalizeTool(t)
  \/ OExit \/ ODone

OSpec == OInit /\ [][ONext]_ovars

\* As in Team: threads keep running, full barriers open.
OFairSpec ==
  /\ OSpec
  /\ \A t \in Thread : WF_ovars(OConstructs(t) \/ OProceeds(t))
  /\ WF_ovars(\E r \in 1..Len(regions) : OBarrier(r))

-------------------------------------------------------------------------------
(* Properties.                                                             *)

\* Where the scopes of a kind are in what the tool has seen of t.
Scopes(t, kind) == {i \in DOMAIN seen[t] : seen[t][i][1] = kind}

\* Every end a tool is told of is that of the innermost scope open on that
\* thread: barriers, implicit tasks and regions nest, although their data lie
\* in slots that teams use again, and no thread ends twice (on_thread_stop).
\* That goes for a tool that has finalised itself too, which the bridge still
\* calls for barriers and threads (ompt.cc:731), but for the thread it did so
\* on: do_finalize ends the thread there beneath its open regions.
EventsNest == \A t \in Thread \ finalizer : Scopes(t, "unmatched") = {}

\* The implicit tasks a tool sees open on a thread are those of the regions the
\* thread is in, each once and the outer ones first, by the datum of the region's
\* own parallel_begin, whose scope is open on the thread that forked it ("fresh
\* datum for this region (teams are reused)", ompt.cc:326); and what it is told
\* when it asks is of the innermost: its datum, its team's size, the thread's
\* number in it.
ToolSeesNesting ==
  OMPT_ENABLED /\ mode = "running" =>
    \A t \in Thread :
      /\ {seen[t][i][2] : i \in Scopes(t, "implicit")} = {frames[t][n].region : n \in DOMAIN frames[t]}
      /\ \A i, j \in Scopes(t, "implicit") : i < j => seen[t][i][2] < seen[t][j][2]
      /\ \A n \in DOMAIN frames[t] :
           LET r == frames[t][n].region
           IN  \E i \in Scopes(regions[r].by, "parallel") : seen[regions[r].by][i][2] = r
      /\ Inside(t) =>
           LET about == GetTaskInfo(t)
           IN  /\ {about.task_data, about.parallel_data} = {Top(t)}
               /\ GetParallelInfo(t).parallel_data = Top(t)
               /\ about.thread_num < GetParallelInfo(t).team_size
               /\ MemberOf(Top(t), about.thread_num + 1) = t

\* When the program has ended, and the tool was finalised by that, nothing is
\* left open but the threads of the workers, which are not stopped ("balance the
\* initial thread's implicit task + thread lifecycle", ompt.cc:669).
NothingOpenAtEnd ==
  mode = "exited" /\ finalizer = {} =>
    /\ seen[InitialThread] = <<>>
    /\ \A w \in Worker : seen[w] \in {<<>>, <<<<"thread", 0>>>>}
===============================================================================
