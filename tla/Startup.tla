-------------------------------- MODULE Startup --------------------------------
(***************************************************************************)
(* The life of the library in a process: the context built by the first    *)
(* call of xkomp_get (src/api.cc), the environment it loads (src/env.cc),  *)
(* and the OMPT tool it discovers, starts and finalises (src/ompt/ompt.cc).*)
(*                                                                         *)
(* The threads are the one that enters the library first, the workers of   *)
(* its teams, which exist only while it is in a parallel region, and the   *)
(* program's other threads, which XKRT does not know: these call the entry *)
(* points that ask nothing of the calling thread, even while the first     *)
(* call is still building.  What they then read, and two first calls at    *)
(* once, are FirstCall's.  A process's environment maps the variables to   *)
(* unparsed values; a tool is the word for how it answers.                 *)
(***************************************************************************)
EXTENDS Integers, Sequences, FiniteSets, Context, Devices

CONSTANTS
  InitialThread,
  Workers,
  Outsiders,     \* threads of the program that are in no team
  Process,       \* the processes: [environ, linked], linked a tool in the address space
  Changes,       \* environments the program may give itself
  Unset, Empty,  \* a variable that is not set, or set to ""
  Junk,          \* set to a text that does not begin with a number
  Cores,         \* what the hardware topology counts
  IntMax,        \* INT_MAX; scaled down by the instances
  Tried,         \* what tools pass to ompt_set_callback
  MaxTried,      \* bound on how many of these one tool passes
  DeviceCounts,  \* the numbers of devices a machine may have, the host included
  MaxCalls       \* bound on the calls into the library

ASSUME ThreadAssumption == InitialThread \notin Workers \cup Outsiders /\ Workers \cap Outsiders = {}
ASSUME NumberAssumption ==
  Cores \in Nat \ {0} /\ IntMax \in Nat \ {0} /\ DeviceCounts \subseteq Nat \ {0} /\ {MaxCalls, MaxTried} \subseteq Nat
\* The text of a number begins with one, or the variable has none.
ASSUME EnvironAssumption ==
  \A e \in {p.environ : p \in Process} \cup Changes :
    {e.OMP_NUM_THREADS, e.OMP_THREAD_LIMIT} \subseteq {Unset, Empty, Junk} \cup Int

Thread == Workers \cup Outsiders \cup {InitialThread}

\* The passes that OMP_TASKGRAPH_OPT may name.
Pass == {"copy-fuse", "reduce-node", "transitive-reduction", "prog-fuse", "jit", "sequence", "batch"}

VARIABLES
  pc,          \* per thread: "idle", "get", "build", "use", "region", the steps of a finalisation, "gone"
  entry,       \* per thread: the entry point it is in
  calls,       \* calls made so far
  environ,     \* the process's environment, which the program may change
  linked,      \* the tool in its address space
  atStart,     \* history: its environment when it began
  xkomp,       \* is the global pointer set?
  built,       \* how many of Parts are there
  env,         \* xkomp->env
  ndevices,    \* runtime.get_ndevices()
  teams,       \* the descriptions of the teams of its regions
  found,       \* "no", "initialize", "yes": where the discovery of a tool stands
  path,        \* the entry of OMP_TOOL_LIBRARIES it looks at
  tool,        \* OMPT_TOOL
  handle,      \* OMPT_TOOL_DLHANDLE, the entry's index
  open,        \* the libraries that are loaded
  OMPT_CB,     \* the events with a callback
  answers,     \* history: what ompt_set_callback returned
  called,      \* history: the events a callback was called for
  OMPT_ENABLED,
  done,        \* do_finalize's flag
  finalized,   \* history: the calls of the tool's finalize
  mode         \* "running", "fatal", "ended"

context == <<xkomp, built, env, ndevices, teams>>
search  == <<found, path, tool, handle, open>>
table   == <<OMPT_CB, answers, called>>
ompt    == <<search, table, OMPT_ENABLED, done, finalized>>
process == <<environ, linked, atStart>>
vars    == <<pc, entry, calls, process, context, ompt, mode>>

Built(part) == \E i \in 1..built : Parts[i] = part
Step(t, part) == mode = "running" /\ pc[t] = "build" /\ Parts[built + 1] = part

-------------------------------------------------------------------------------
(* The environment's values.                                               *)

\* Mutation: what is not a number stays what it is.
AtoiRaw(value) == value

\* atoi of a text without digits in front.
Atoi(value) == IF value = Junk THEN 0 ELSE value

\* xkomp_env_init_parse: an empty value is as good as none.
Parse(value, default) == IF value \in {Unset, Empty} THEN default ELSE Atoi(value)
ParseText(value, default) == IF value \in {Unset, Empty} THEN default ELSE value

\* OMP_TASKGRAPH_OPT, where an empty value (no tokens) is not the default.
Tokens(environment) ==
  LET value == environment.OMP_TASKGRAPH_OPT
  IN  IF value = Unset THEN {"reduce-node", "transitive-reduction", "sequence"} ELSE value
Passes(environment) == Tokens(environment) \ {"none"}
Refused(environment) ==
  \/ ~(Passes(environment) \subseteq Pass)
  \/ "prog-fuse" \in Passes(environment) /\ "jit" \notin Passes(environment)

Load(environment) ==
  [OMP_NUM_THREADS  |-> Parse(environment.OMP_NUM_THREADS, 0),
   OMP_THREAD_LIMIT |-> Parse(environment.OMP_THREAD_LIMIT, IntMax),
   OMP_PLACES       |-> ParseText(environment.OMP_PLACES, "cores"),
   OMP_PROC_BIND    |-> ParseText(environment.OMP_PROC_BIND, "close"),
   OMP_TASKGRAPH_OPT |-> Passes(environment)]

\* What the values are used for: an unknown place is a core, and threads are
\* spread only if asked to be.
KnownPlaces == {"threads", "cores", "L1s", "L2s", "L3s", "numas", "devices", "sockets", "machines"}
ParsePlaces(e) == IF e.OMP_PLACES \in KnownPlaces THEN e.OMP_PLACES ELSE "cores"
ParseProcBind(e) == IF e.OMP_PROC_BIND = "spread" THEN "spread" ELSE "compact"

TeamDescInit(e, nthreads) ==
  [nthreads |-> nthreads, places |-> ParsePlaces(e), mode |-> ParseProcBind(e)]

\* Mutation: the default is not held against the limit.
GetMaxThreadsUnlimited(e) ==
  IF e.OMP_NUM_THREADS = 0 THEN Cores ELSE e.OMP_NUM_THREADS

GetMaxThreads(e) ==
  LET n == IF e.OMP_NUM_THREADS = 0 THEN Cores ELSE e.OMP_NUM_THREADS
  IN  IF n < e.OMP_THREAD_LIMIT THEN n ELSE e.OMP_THREAD_LIMIT

\* xkomp_parallel without a clause compares unsigned numbers.
Unsigned(i) == i % (2 * (IntMax + 1))
ParallelThreads(e) ==
  LET n == Unsigned(e.OMP_NUM_THREADS)
      limit == Unsigned(e.OMP_THREAD_LIMIT)
  IN  IF n > limit THEN limit ELSE n

-------------------------------------------------------------------------------
(* The first call.                                                         *)

Init ==
  /\ pc = [t \in Thread |-> "idle"]
  /\ entry = [t \in Thread |-> "none"]
  /\ calls = 0
  /\ \E p \in Process : environ = p.environ /\ linked = p.linked
  /\ atStart = environ
  /\ xkomp = FALSE /\ built = 0 /\ env = <<>> /\ ndevices = 0 /\ teams = {}
  /\ found = "no" /\ path = 1 /\ tool = "none" /\ handle = 0 /\ open = {}
  /\ OMPT_CB = {} /\ answers = {} /\ called = {} /\ OMPT_ENABLED = FALSE
  /\ done = FALSE /\ finalized = 0
  /\ mode = "running"

\* The program itself calls setenv, at any time.
SetEnv ==
  /\ mode = "running" /\ pc[InitialThread] = "idle"
  /\ environ' \in Changes
  /\ UNCHANGED <<pc, entry, calls, linked, atStart, context, ompt, mode>>

\* The workers call while the initial thread is in a parallel region, the other
\* threads at any time after the first call has allocated the context.
Call(t, f) ==
  /\ mode = "running" /\ pc[t] = "idle" /\ calls < MaxCalls
  /\ t \in Workers => pc[InitialThread] \notin {"idle", "get", "build", "use"} /\ entry[InitialThread] = "parallel"
  /\ t \in Outsiders => xkomp /\ f \in Public
  /\ calls' = calls + 1
  /\ entry' = [entry EXCEPT ![t] = f]
  /\ pc' = [pc EXCEPT ![t] = "get"]
  /\ UNCHANGED <<process, context, ompt, mode>>

\* The pointer is set before what it points to is built.
XkompGet(t) ==
  /\ mode = "running" /\ pc[t] = "get"
  /\ xkomp' = TRUE
  /\ pc' = [pc EXCEPT ![t] = IF xkomp THEN "use" ELSE "build"]
  /\ UNCHANGED <<entry, calls, process, built, env, ndevices, teams, ompt, mode>>

\* The constructors and register functions that read nothing of the context
\* but the runtime; the last of them ends the call.
Build(t) ==
  /\ mode = "running" /\ pc[t] = "build" /\ Parts[built + 1] \notin {"runtime", "env"}
  /\ built' = built + 1
  /\ pc' = [pc EXCEPT ![t] = IF built' = Len(Parts) THEN "use" ELSE "build"]
  /\ UNCHANGED <<entry, calls, process, xkomp, env, ndevices, teams, ompt, mode>>

\* Unknown passes, and fused programs that nobody would compile, are fatal.
EnvInit(t) ==
  /\ Step(t, "env")
  /\ IF Refused(environ)
       THEN mode' = "fatal" /\ UNCHANGED <<built, env>>
       ELSE env' = Load(environ) /\ built' = built + 1 /\ UNCHANGED mode
  /\ UNCHANGED <<pc, entry, calls, process, xkomp, ndevices, teams, ompt>>

\* Are XKRT's callbacks registered?  Only a tool that accepts is told anything.
Connected == found = "yes" /\ tool = "works"

\* OMPT_CALL for each of a set of events.
Told(events) == called' = called \cup (IF Connected THEN events \cap OMPT_CB ELSE {})

\* What follows the discovery in runtime.init(): the devices, and the thread_t
\* of the calling thread, whose start is told (on_thread_start).
RuntimeInit(t) ==
  /\ Step(t, "runtime") /\ found = "yes"
  /\ ndevices' \in DeviceCounts
  /\ built' = built + 1
  /\ Told({"thread_begin", "implicit_task"})
  /\ UNCHANGED <<pc, entry, calls, process, xkomp, env, teams,
                 search, OMPT_CB, answers, OMPT_ENABLED, done, finalized, mode>>

\* xkomp_parallel: the initial thread's regions run in a team of its own, those
\* of a worker on its stack.
Fork(t) ==
  /\ mode = "running" /\ pc[t] = "use" /\ entry[t] = "parallel"
  /\ pc' = [pc EXCEPT ![t] = "region"]
  /\ teams' = IF t = InitialThread THEN teams \cup {TeamDescInit(env, ParallelThreads(env))} ELSE teams
  /\ UNCHANGED <<entry, calls, process, xkomp, built, env, ndevices, ompt, mode>>

InUse(t) == pc[t] = "region" \/ (pc[t] = "use" /\ entry[t] # "parallel")

\* A call returns; that of a parallel construct when its region is over.
Use(t) ==
  /\ mode = "running" /\ InUse(t)
  /\ (t = InitialThread /\ entry[t] = "parallel") => \A w \in Workers : pc[w] = "idle"
  /\ pc' = [pc EXCEPT ![t] = "idle"]
  /\ UNCHANGED <<entry, calls, process, context, ompt, mode>>

-------------------------------------------------------------------------------
(* The tool: found in the address space or in a library, then initialised. *)
(* A tool "declines" when its initialize returns 0, "works" otherwise;     *)
(* "null" stands for a start function that returns NULL, "nosymbol" for a  *)
(* library without one, "missing" for one that cannot be loaded.           *)

Discovers(t) == Step(t, "runtime") /\ found = "no"
Libraries == environ.OMP_TOOL_LIBRARIES

\* OMP_TOOL=disabled, or no tool anywhere: the bridge stays disconnected.
DiscoverNone(t) ==
  /\ Discovers(t)
  /\ environ.OMP_TOOL = "disabled" \/ (linked \in {"none", "null"} /\ path > Len(Libraries))
  /\ found' = "yes"
  /\ UNCHANGED <<pc, entry, calls, process, context,
                 path, tool, handle, open, table, OMPT_ENABLED, done, finalized, mode>>

DiscoverLinked(t) ==
  /\ Discovers(t) /\ environ.OMP_TOOL # "disabled"
  /\ linked \in {"declines", "works"}
  /\ tool' = linked /\ found' = "initialize"
  /\ UNCHANGED <<pc, entry, calls, process, context,
                 path, handle, open, table, OMPT_ENABLED, done, finalized, mode>>

\* Mutation: a library without a tool is not closed.
DiscoverLibraryLeaks(t) ==
  /\ Discovers(t) /\ environ.OMP_TOOL # "disabled"
  /\ linked \in {"none", "null"} /\ path <= Len(Libraries)
  /\ LET library == Libraries[path]
     IN  IF library \in {"declines", "works"}
           THEN /\ tool' = library /\ found' = "initialize"
                /\ handle' = path /\ open' = open \cup {path}
                /\ UNCHANGED path
           ELSE /\ path' = path + 1
                /\ open' = IF library = "missing" THEN open ELSE open \cup {path}
                /\ UNCHANGED <<tool, found, handle>>
  /\ UNCHANGED <<pc, entry, calls, process, context, table, OMPT_ENABLED, done, finalized, mode>>

\* dlopen, dlsym, start; what is opened in vain is closed before the next.
DiscoverLibrary(t) ==
  /\ Discovers(t) /\ environ.OMP_TOOL # "disabled"
  /\ linked \in {"none", "null"} /\ path <= Len(Libraries)
  /\ LET library == Libraries[path]
     IN  IF library \in {"declines", "works"}
           THEN /\ tool' = library /\ found' = "initialize"
                /\ handle' = path /\ open' = open \cup {path}
                /\ UNCHANGED path
           ELSE path' = path + 1 /\ UNCHANGED <<tool, found, handle, open>>
  /\ UNCHANGED <<pc, entry, calls, process, context, table, OMPT_ENABLED, done, finalized, mode>>

\* ompt_callbacks_t, without the names that are only synonyms.
Event ==
  {"thread_begin", "thread_end", "parallel_begin", "parallel_end", "task_create", "task_schedule",
   "implicit_task", "target", "target_data_op", "target_submit", "control_tool",
   "device_initialize", "device_finalize", "device_load", "device_unload", "sync_region_wait",
   "mutex_released", "dependences", "task_dependence", "work", "masked", "target_map",
   "sync_region", "lock_init", "lock_destroy", "mutex_acquire", "mutex_acquired", "nest_lock",
   "flush", "cancel", "reduction", "dispatch", "target_emi", "target_data_op_emi",
   "target_submit_emi", "target_map_emi", "error"}

\* Mutation: an event that was added to the bridge only.
EventSupportedFewer ==
  {"thread_begin", "parallel_begin", "parallel_end", "implicit_task",
   "task_create", "task_schedule", "dependences", "sync_region", "sync_region_wait"}

EventSupported ==
  {"thread_begin", "thread_end", "parallel_begin", "parallel_end", "implicit_task",
   "task_create", "task_schedule", "dependences", "sync_region", "sync_region_wait"}

\* ompt_set_callback, which a tool's initialize calls: a callback is kept for
\* an event that never occurs, too.
SetCallback(t, which) ==
  /\ Step(t, "runtime") /\ found = "initialize" /\ Cardinality(answers) < MaxTried
  /\ IF which \notin Event
       THEN answers' = answers \cup {<<which, "error">>} /\ UNCHANGED OMPT_CB
       ELSE /\ OMPT_CB' = OMPT_CB \cup {which}
            /\ answers' = answers \cup
                 {<<which, IF which \in EventSupported THEN "always" ELSE "never">>}
  /\ UNCHANGED <<pc, entry, calls, process, context, search, called, OMPT_ENABLED, done, finalized, mode>>

\* The tool accepts or declines; the table keeps the callbacks of one that
\* declines.
BridgeInitialize(t) ==
  /\ Step(t, "runtime") /\ found = "initialize"
  /\ found' = "yes"
  /\ IF tool = "works"
       THEN OMPT_ENABLED' = TRUE /\ UNCHANGED <<tool, handle, open>>
       ELSE /\ open' = open \ {handle} /\ handle' = 0 /\ tool' = "none"
            /\ UNCHANGED OMPT_ENABLED
  /\ UNCHANGED <<pc, entry, calls, process, context, path, table, done, finalized, mode>>

\* What the bridge makes of XKRT's events, and what XKOMP emits itself.
ThreadEvents == {"thread_begin", "thread_end"}
TaskEvents   == {"task_create", "task_schedule", "dependences"}
SyncEvents   == {"sync_region", "sync_region_wait"}
RegionEvents == {"parallel_begin", "parallel_end", "implicit_task"}

Emitted(f) ==
  CASE f = "parallel"  -> RegionEvents \cup SyncEvents \cup ThreadEvents
    [] f = "task"      -> TaskEvents \cup SyncEvents
    [] f = "taskgraph" -> SyncEvents
    [] OTHER           -> {}

\* OMPT_CALL in the code of a call.  XKRT goes on calling the bridge when the
\* tool has been finalised; only XKOMP's own events test OMPT_ENABLED.
OmptCall(t, e) ==
  /\ mode = "running" /\ InUse(t) /\ Connected
  /\ e \in Emitted(entry[t]) \cap OMPT_CB /\ (e \in RegionEvents => OMPT_ENABLED)
  /\ called' = called \cup {e}
  /\ UNCHANGED <<pc, entry, calls, process, context, search, OMPT_CB, answers,
                 OMPT_ENABLED, done, finalized, mode>>

-------------------------------------------------------------------------------
(* Finalisation: by the program's exit, through the handler registered when*)
(* the tool was activated, or by the tool itself in a callback.            *)

\* exit(), outside the library's calls or in the code of a region.
Exit ==
  /\ mode = "running"
  /\ pc[InitialThread] \in {"idle", "region"}
  /\ IF OMPT_ENABLED \/ done
       THEN pc' = [pc EXCEPT ![InitialThread] = "claim"] /\ entry' = [entry EXCEPT ![InitialThread] = "exit"]
            /\ UNCHANGED mode
       ELSE mode' = "ended" /\ UNCHANGED <<pc, entry>>
  /\ UNCHANGED <<calls, process, context, ompt>>

\* ompt_finalize_tool, called by a tool's callback.
FinalizeTool(t) ==
  /\ mode = "running" /\ InUse(t) /\ OMPT_ENABLED
  /\ Emitted(entry[t]) \cap OMPT_CB # {}
  /\ pc' = [pc EXCEPT ![t] = "claim"]
  /\ UNCHANGED <<entry, calls, process, context, ompt, mode>>

\* do_finalize returns into exit, or into the call the callback came from.
Returns(t) ==
  IF entry[t] = "exit" THEN mode' = "ended" /\ pc' = [pc EXCEPT ![t] = "gone"]
  ELSE mode' = mode /\ pc' = [pc EXCEPT ![t] = IF entry[t] = "parallel" THEN "region" ELSE "use"]

\* Mutation: the flag is read here and written later.
ClaimLate(t) ==
  /\ mode = "running" /\ pc[t] = "claim"
  /\ IF done \/ ~OMPT_ENABLED THEN Returns(t)
     ELSE pc' = [pc EXCEPT ![t] = "balance"] /\ UNCHANGED mode
  /\ UNCHANGED <<entry, calls, process, context, ompt>>

\* done.compare_exchange_strong, and the test of OMPT_ENABLED.
Claim(t) ==
  /\ mode = "running" /\ pc[t] = "claim"
  /\ done' = TRUE
  /\ IF done \/ ~OMPT_ENABLED THEN Returns(t)
     ELSE pc' = [pc EXCEPT ![t] = "balance"] /\ UNCHANGED mode
  /\ UNCHANGED <<entry, calls, process, context,
                 search, table, OMPT_ENABLED, finalized>>

\* Ends the calling thread's thread, and the initial task if that is where it
\* began (TLS_INITIAL_TASK, see OmptTeam), and switches the bridge off.
Balance(t) ==
  /\ mode = "running" /\ pc[t] = "balance"
  /\ Told({"thread_end"} \cup IF t = InitialThread THEN {"implicit_task"} ELSE {})
  /\ OMPT_ENABLED' = FALSE
  /\ pc' = [pc EXCEPT ![t] = "finalize"]
  /\ UNCHANGED <<entry, calls, process, context,
                 search, OMPT_CB, answers, done, finalized, mode>>

ToolFinalize(t) ==
  /\ mode = "running" /\ pc[t] = "finalize"
  /\ finalized' = finalized + 1
  /\ pc' = [pc EXCEPT ![t] = "dlclose"]
  /\ UNCHANGED <<entry, calls, process, context,
                 search, table, OMPT_ENABLED, done, mode>>

CloseLibrary(t) ==
  /\ mode = "running" /\ pc[t] = "dlclose"
  /\ open' = open \ {handle} /\ handle' = 0
  /\ Returns(t)
  /\ UNCHANGED <<entry, calls, process, context,
                 found, path, tool, table, OMPT_ENABLED, done, finalized>>

Ended == mode \in {"fatal", "ended"} /\ UNCHANGED vars

Next ==
  \/ SetEnv \/ Exit \/ Ended
  \/ \E t \in Thread :
       \/ \E f \in Entry : Call(t, f)
       \/ XkompGet(t) \/ Build(t) \/ EnvInit(t) \/ RuntimeInit(t) \/ Fork(t) \/ Use(t)
       \/ DiscoverNone(t) \/ DiscoverLinked(t) \/ DiscoverLibrary(t) \/ BridgeInitialize(t)
       \/ \E e \in Tried : SetCallback(t, e) \/ OmptCall(t, e)
       \/ FinalizeTool(t) \/ Claim(t) \/ Balance(t) \/ ToolFinalize(t) \/ CloseLibrary(t)

Spec == Init /\ [][Next]_vars

-------------------------------------------------------------------------------
(* Properties.                                                             *)

TypeOK ==
  /\ pc \in [Thread -> {"idle", "get", "build", "use", "region", "claim", "balance", "finalize", "dlclose", "gone"}]
  /\ entry \in [Thread -> Entry \cup {"none", "exit"}]
  /\ calls \in 0..MaxCalls /\ built \in 0..Len(Parts) /\ xkomp \in BOOLEAN
  /\ (built > 4) = (env # <<>>)
  /\ env # <<>> =>
       /\ {env.OMP_NUM_THREADS, env.OMP_THREAD_LIMIT} \subseteq Int
       /\ env.OMP_TASKGRAPH_OPT \subseteq Pass
  /\ ndevices \in DeviceCounts \cup {0}
  /\ found \in {"no", "initialize", "yes"} /\ path \in Nat \ {0} /\ handle \in Nat
  /\ tool \in {"none", "declines", "works"} /\ open \subseteq Nat
  /\ teams \subseteq [nthreads : Nat, places : KnownPlaces, mode : {"compact", "spread"}]
  /\ {OMPT_CB, called} \subseteq SUBSET Event /\ {OMPT_ENABLED, done} \subseteq BOOLEAN
  /\ finalized \in Nat /\ mode \in {"running", "fatal", "ended"}

\* A region without a num_threads clause (parallel.cc, unsigned) asks for as many
\* threads as omp_get_max_threads says (api.cc, signed) just when both variables
\* are positive: a negative one makes the two minima differ, and with a 0, which
\* junk is too, the size of the team is left to XKRT.
Width == -(IntMax + 1)..IntMax
ThreadCountsAgree ==
  Built("env") =>
    LET n == env.OMP_NUM_THREADS
        limit == env.OMP_THREAD_LIMIT
    IN  {n, limit} \subseteq Width =>
          \A team \in teams :
            /\ team.nthreads = 0 <=> n = 0 \/ limit = 0
            /\ team.nthreads # 0 =>
                 (team.nthreads = GetMaxThreads(env) <=> n > 0 /\ limit > 0)

\* Whatever devices the runtime has found, their numbers round-trip and
\* transfers reach the devices they name.
DeviceNumbers == Built("runtime") => RoundTrips(ndevices) /\ TransfersReach(ndevices)

\* A tool is told the truth when it sets a callback: whatever is called, from
\* runtime.init to do_finalize, is something it was told is called
\* (ompt_event_supported against the emitters of ompt.cc).
AnswersHold == \A e \in called : <<e, "always">> \in answers

\* No library but that of the active tool stays loaded, whatever libraries the
\* discovery went through and however the tool ended (xkomp_ompt_discover,
\* bridge_initialize, do_finalize).
OneLibrary == open \subseteq {handle} /\ (found = "yes" /\ open # {} => tool = "works")

\* The tool is finalised once, though a callback and the exit handler may both
\* do it, and before the process ends unless a worker was overtaken at it.
FinalizedOnce ==
  /\ finalized <= 1
  /\ mode = "ended" /\ tool = "works" /\ (\A w \in Workers : pc[w] \in {"idle", "get", "use"})
       => finalized = 1

\* "Modifications to the environment variables after the program has started,
\* even if modified by the program itself, are ignored by the OpenMP
\* implementation. This routine load at the program starts." (env.cc:107)
EnvOfStart == Built("env") => env = Load(atStart)
===============================================================================
