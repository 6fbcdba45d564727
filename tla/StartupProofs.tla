------------------------------ MODULE StartupProofs ------------------------------
(***************************************************************************)
(* Startup for any number of threads, any list of tool libraries, any      *)
(* values of the variables, any callbacks a tool tries and any number of   *)
(* calls.                                                                  *)
(*                                                                         *)
(* Once the pointer is set only the initial thread builds, and the workers *)
(* of its teams come after (BuildInv); the other threads may run into the  *)
(* half-built context, but call nothing that emits an event or forks.      *)
(* What keeps a tool from being finalised twice, or never, is that whoever *)
(* claims the flag goes on to finalise it (FinalInv).                      *)
(***************************************************************************)
EXTENDS Startup, TLAPS

\* The initial thread builds; a worker runs only when all is built, the others
\* only when there is a context.
BuildInv ==
  /\ \A w \in Workers : pc[w] # "build" /\ (pc[w] # "idle" => built = 8)
  /\ \A o \in Outsiders :
       /\ pc[o] \in {"idle", "get", "use"} /\ (pc[o] # "idle" => xkomp)
       /\ entry[o] \in Public \cup {"none"}
  /\ pc[InitialThread] = "build" => xkomp /\ built < 8
  /\ pc[InitialThread] # "build" /\ xkomp => built = 8
  /\ ~xkomp => built = 0 /\ pc[InitialThread] \in {"idle", "get"}

\* What has been built agrees with what is built of it.
ContextInv ==
  /\ {environ.OMP_NUM_THREADS, environ.OMP_THREAD_LIMIT} \subseteq {Unset, Empty, Junk} \cup Int
  /\ built > 3 => ndevices \in DeviceCounts
  /\ teams # {} => built > 4
  /\ \A team \in teams : team.nthreads = ParallelThreads(env)

\* The discovery keeps no library open but that of the tool it settles on.
SearchInv ==
  /\ found = "no" => tool = "none" /\ handle = 0 /\ open = {}
  /\ found = "initialize" => tool \in {"declines", "works"} /\ open \subseteq {handle} /\ built = 3
  /\ found = "yes" => tool \in {"none", "works"} /\ open \subseteq {handle} /\ (open # {} => tool = "works")
  /\ found = "yes" => built > 2
  /\ built > 3 => found = "yes"

\* The table holds no callback of an event that occurs unless the tool has been
\* told that it is called.
TableInv ==
  /\ \A e \in OMPT_CB : e \in EventSupported => <<e, "always">> \in answers
  /\ AnswersHold

Claimed(t) == pc[t] \in {"balance", "finalize", "dlclose"}

\* Whoever claims the finalisation performs it.
FinalInv ==
  /\ OMPT_ENABLED \/ done => found = "yes" /\ tool = "works"
  /\ found = "yes" /\ tool = "works" => OMPT_ENABLED \/ done
  /\ \A t \in Thread :
       /\ pc[t] = "claim" => OMPT_ENABLED \/ done
       /\ Claimed(t) => done
       /\ pc[t] \in {"balance", "finalize"} => finalized = 0
       /\ entry[t] = "exit" => t = InitialThread
  /\ \A t, u \in Thread : Claimed(t) /\ Claimed(u) => t = u
  /\ finalized \in {0, 1}
  /\ ~done => finalized = 0
  /\ done /\ finalized = 0 => \E t \in Thread : pc[t] \in {"balance", "finalize"}

SInv == TypeOK /\ BuildInv /\ ContextInv /\ SearchInv /\ TableInv /\ FinalInv /\ FinalizedOnce

-------------------------------------------------------------------------------
(* What the invariant says of one state.                                   *)

LEMMA ThreadIs ==
  /\ InitialThread \in Thread /\ Workers \subseteq Thread /\ InitialThread \notin Workers
  /\ Outsiders \subseteq Thread /\ InitialThread \notin Outsiders /\ Workers \cap Outsiders = {}
  /\ \A t \in Thread : t # InitialThread /\ t \notin Outsiders => t \in Workers
  BY ThreadAssumption DEF Thread

\* The order in which the context is built.
LEMMA PartsOrder ==
  /\ Len(Parts) = 8
  /\ \A i \in 0..7 : (Parts[i + 1] = "runtime" <=> i = 3) /\ (Parts[i + 1] = "env" <=> i = 4)
<1>1. Len(Parts) = 8
  BY DEF Parts
<1>2. ASSUME NEW i \in 0..7
      PROVE  (Parts[i + 1] = "runtime" <=> i = 3) /\ (Parts[i + 1] = "env" <=> i = 4)
  <2>1. CASE i \in {0, 1, 2}
    BY <2>1 DEF Parts
  <2>2. CASE i \in {3, 4}
    BY <2>2 DEF Parts
  <2>3. CASE i \in {5, 6, 7}
    BY <2>3 DEF Parts
  <2> QED
    BY <2>1, <2>2, <2>3
<1> QED
  BY <1>1, <1>2

\* Only the initial thread is ever in the course of building.
LEMMA Builder ==
  ASSUME SInv, NEW t \in Thread, pc[t] = "build"
  PROVE  t = InitialThread /\ built \in 0..7 /\ xkomp
<1>1. t = InitialThread /\ built < 8 /\ xkomp
  BY ThreadIs DEF SInv, BuildInv
<1>2. built \in Nat
  BY DEF SInv, TypeOK
<1> QED
  BY <1>1, <1>2

LEMMA StepAt ==
  ASSUME SInv, NEW t \in Thread
  PROVE  /\ Step(t, "runtime") => t = InitialThread /\ built = 3 /\ mode = "running"
         /\ Step(t, "env") => t = InitialThread /\ built = 4 /\ mode = "running"
  BY Builder, PartsOrder DEF Step

\* A thread that XKRT knows finds all of the context once it is past xkomp_get.
LEMMA AllBuilt ==
  ASSUME SInv, NEW t \in Thread, t \notin Outsiders, pc[t] \notin {"idle", "get", "build"}
  PROVE  built = 8 /\ xkomp /\ found = "yes"
<1>1. built = 8
  BY ThreadIs DEF SInv, BuildInv
<1>2. xkomp
  <2>1. ~xkomp => built = 0
    BY DEF SInv, BuildInv
  <2> QED
    BY <1>1, <2>1
<1>3. found = "yes"
  <2>1. built > 3
    BY <1>1
  <2> QED
    BY <2>1 DEF SInv, SearchInv
<1> QED
  BY <1>1, <1>2, <1>3

-------------------------------------------------------------------------------
(* What a step leaves alone.                                               *)

LEMMA ContextKept ==
  ASSUME ContextInv, UNCHANGED <<environ, built, env, ndevices, teams>>
  PROVE  ContextInv'
  BY DEF ContextInv, ParallelThreads, Unsigned

LEMMA SearchKept ==
  ASSUME SearchInv, UNCHANGED <<found, tool, handle, open, built>>
  PROVE  SearchInv'
  BY DEF SearchInv

LEMMA TableKept ==
  ASSUME TableInv, UNCHANGED table
  PROVE  TableInv'
  BY DEF TableInv, AnswersHold, table

\* An entry point that emits an event is not one that any thread may call.
LEMMA Emitters ==
  ASSUME SInv, NEW t \in Thread, entry[t] = "parallel" \/ Emitted(entry[t]) # {}
  PROVE  t \notin Outsiders
<1>1. entry[t] \notin Public \cup {"none"}
  BY DEF Emitted, Public
<1> QED
  BY <1>1 DEF SInv, BuildInv

\* A thread that is past xkomp_get goes on, or back to the program.
LEMMA BuildKept ==
  ASSUME SInv, UNCHANGED <<xkomp, built, entry>>, NEW t \in Thread, t \notin Outsiders,
         pc[t] \notin {"idle", "get", "build"}, pc'[t] # "build",
         \A u \in Thread : u # t => pc'[u] = pc[u]
  PROVE  BuildInv'
<1>0. \A o \in Outsiders : pc'[o] = pc[o] /\ entry'[o] = entry[o]
  BY ThreadIs
<1>1. built = 8 /\ xkomp
  BY AllBuilt
<1>2. \A u \in Thread : pc'[u] # "build"
  <2>1. \A u \in Thread : u # t => pc[u] # "build"
    BY <1>1, ThreadIs DEF SInv, BuildInv
  <2> QED
    BY <2>1
<1> QED
  BY <1>0, <1>1, <1>2, ThreadIs DEF SInv, BuildInv

\* No thread claims, or goes on with, a finalisation.
LEMMA FinalKept ==
  ASSUME FinalInv, UNCHANGED <<OMPT_ENABLED, done, finalized, found, tool>>,
         \A t \in Thread :
           /\ pc'[t] = pc[t] \/ {pc[t], pc'[t]} \cap {"claim", "balance", "finalize", "dlclose"} = {}
           /\ entry'[t] = entry[t] \/ entry'[t] # "exit"
  PROVE  FinalInv'
<1>1. \A t \in Thread : \A s \in {"claim", "balance", "finalize", "dlclose"} : pc'[t] = s <=> pc[t] = s
  OBVIOUS
<1>2. \A t \in Thread : Claimed(t)' <=> Claimed(t)
  BY <1>1 DEF Claimed
<1>3. \A t \in Thread : entry'[t] = "exit" => entry[t] = "exit"
  OBVIOUS
<1> QED
  BY <1>1, <1>2, <1>3 DEF FinalInv

\* As long as the program runs, once is what FinalInv says.
LEMMA OnceKept ==
  ASSUME FinalInv', mode' # "ended"
  PROVE  FinalizedOnce'
  BY DEF FinalInv, FinalizedOnce

-------------------------------------------------------------------------------
(* The program's own steps, and the library's entry points.                *)

LEMMA SetEnvInv ==
  ASSUME SInv, SetEnv
  PROVE  SInv'
<1>1. /\ environ' \in Changes
      /\ UNCHANGED <<pc, entry, calls, linked, atStart, xkomp, built, env, ndevices, teams,
                     found, path, tool, handle, open, OMPT_CB, answers, called, OMPT_ENABLED,
                     done, finalized, mode>>
  BY DEF SetEnv, context, ompt, search, table
<1>2. TypeOK'
  BY <1>1 DEF SInv, TypeOK
<1>3. BuildInv'
  BY <1>1 DEF SInv, BuildInv
<1>4. ContextInv'
  BY <1>1, EnvironAssumption DEF SInv, ContextInv, ParallelThreads, Unsigned
<1>5. SearchInv' /\ TableInv'
  BY <1>1, SearchKept, TableKept DEF SInv, table
<1>6. FinalInv' /\ FinalizedOnce'
  BY <1>1 DEF SInv, FinalInv, Claimed, FinalizedOnce
<1> QED
  BY <1>2, <1>3, <1>4, <1>5, <1>6 DEF SInv

LEMMA CallInv ==
  ASSUME SInv, NEW t \in Thread, NEW f \in Entry, Call(t, f)
  PROVE  SInv'
<1>1. /\ mode = "running" /\ pc[t] = "idle" /\ calls < MaxCalls
      /\ t \in Workers => pc[InitialThread] \notin {"idle", "get", "build", "use"}
      /\ t \in Outsiders => xkomp /\ f \in Public
      /\ calls' = calls + 1
      /\ entry' = [entry EXCEPT ![t] = f] /\ pc' = [pc EXCEPT ![t] = "get"]
      /\ UNCHANGED <<environ, linked, atStart, xkomp, built, env, ndevices, teams,
                     found, path, tool, handle, open, OMPT_CB, answers, called, OMPT_ENABLED,
                     done, finalized, mode>>
  BY DEF Call, process, context, ompt, search, table
<1>2. /\ pc'[t] = "get" /\ entry'[t] = f /\ f # "exit"
      /\ \A u \in Thread : u # t => pc'[u] = pc[u] /\ entry'[u] = entry[u]
  BY <1>1 DEF SInv, TypeOK, Entry
<1>3. TypeOK'
  <2>1. calls' \in 0..MaxCalls
    BY <1>1, NumberAssumption DEF SInv, TypeOK
  <2> QED
    BY <1>1, <2>1 DEF SInv, TypeOK
<1>4. BuildInv'
  <2>1. CASE t \in Workers
    <3>1. built = 8 /\ xkomp
      BY <1>1, <2>1, AllBuilt, ThreadIs
    <3> QED
      BY <1>1, <1>2, <2>1, <3>1, ThreadIs DEF SInv, BuildInv
  <2>2. CASE t = InitialThread
    BY <1>1, <1>2, <2>2, ThreadIs DEF SInv, BuildInv
  <2>3. CASE t \in Outsiders
    BY <1>1, <1>2, <2>3, ThreadIs DEF SInv, BuildInv
  <2> QED
    BY <2>1, <2>2, <2>3, ThreadIs
<1>5. ContextInv' /\ SearchInv' /\ TableInv'
  BY <1>1, ContextKept, SearchKept, TableKept DEF SInv, table
<1>6. FinalInv'
  BY <1>1, <1>2, FinalKept DEF SInv
<1>7. FinalizedOnce'
  BY <1>1, <1>6, OnceKept
<1> QED
  BY <1>3, <1>4, <1>5, <1>6, <1>7 DEF SInv

LEMMA XkompGetInv ==
  ASSUME SInv, NEW t \in Thread, XkompGet(t)
  PROVE  SInv'
<1>1. /\ mode = "running" /\ pc[t] = "get" /\ xkomp' = TRUE
      /\ pc' = [pc EXCEPT ![t] = IF xkomp THEN "use" ELSE "build"]
      /\ UNCHANGED <<entry, calls, environ, linked, atStart, built, env, ndevices, teams,
                     found, path, tool, handle, open, OMPT_CB, answers, called, OMPT_ENABLED,
                     done, finalized, mode>>
  BY DEF XkompGet, process, ompt, search, table
<1>2. /\ pc'[t] = (IF xkomp THEN "use" ELSE "build")
      /\ \A u \in Thread : u # t => pc'[u] = pc[u]
  BY <1>1 DEF SInv, TypeOK
<1>3. TypeOK'
  BY <1>1 DEF SInv, TypeOK
<1>4. BuildInv'
  <2>1. CASE xkomp
    <3>1. t = InitialThread => built = 8
      BY <1>1, <2>1 DEF SInv, BuildInv
    <3> QED
      BY <1>1, <1>2, <2>1, <3>1, ThreadIs DEF SInv, BuildInv
  <2>2. CASE ~xkomp
    <3>1. built = 0 /\ t = InitialThread /\ \A w \in Workers : pc[w] = "idle"
      <4>1. built = 0
        BY <2>2 DEF SInv, BuildInv
      <4>2. \A w \in Workers : pc[w] = "idle"
        BY <4>1 DEF SInv, BuildInv
      <4>3. t \notin Outsiders
        BY <1>1, <2>2 DEF SInv, BuildInv
      <4> QED
        BY <1>1, <4>1, <4>2, <4>3, ThreadIs
    <3> QED
      BY <1>1, <1>2, <2>2, <3>1, ThreadIs DEF SInv, BuildInv
  <2> QED
    BY <2>1, <2>2
<1>5. ContextInv' /\ SearchInv' /\ TableInv'
  BY <1>1, ContextKept, SearchKept, TableKept DEF SInv, table
<1>6. FinalInv'
  BY <1>1, <1>2, FinalKept DEF SInv
<1>7. FinalizedOnce'
  BY <1>1, <1>6, OnceKept
<1> QED
  BY <1>3, <1>4, <1>5, <1>6, <1>7 DEF SInv

\* A part that reads nothing of the context.
LEMMA BuildStepInv ==
  ASSUME SInv, NEW t \in Thread, Build(t)
  PROVE  SInv'
<1>1. /\ mode = "running" /\ pc[t] = "build" /\ Parts[built + 1] \notin {"runtime", "env"}
      /\ built' = built + 1
      /\ pc' = [pc EXCEPT ![t] = IF built' = 8 THEN "use" ELSE "build"]
      /\ UNCHANGED <<entry, calls, environ, linked, atStart, xkomp, env, ndevices, teams,
                     found, path, tool, handle, open, OMPT_CB, answers, called, OMPT_ENABLED,
                     done, finalized, mode>>
  BY PartsOrder DEF Build, process, ompt, search, table
<1>2. t = InitialThread /\ built \in {0, 1, 2, 5, 6, 7} /\ xkomp
  BY <1>1, Builder, PartsOrder
<1>3. /\ pc'[t] = (IF built = 7 THEN "use" ELSE "build") /\ built' \in {1, 2, 3, 6, 7, 8}
      /\ \A u \in Thread : u # t => pc'[u] = pc[u]
  BY <1>1, <1>2 DEF SInv, TypeOK
<1>4. (built' > 2 => built > 4 \/ built = 2) /\ (built' > 3 <=> built > 3) /\ (built' > 4 <=> built > 4)
  BY <1>1, <1>2
<1>5. TypeOK'
  <2>1. pc' \in [Thread -> {"idle", "get", "build", "use", "region", "claim", "balance", "finalize", "dlclose", "gone"}]
    BY <1>1 DEF SInv, TypeOK
  <2>2. built' \in 0..Len(Parts)
    BY <1>3, PartsOrder
  <2> QED
    BY <1>1, <1>4, <2>1, <2>2 DEF SInv, TypeOK
<1>6. BuildInv'
  <2>1. \A w \in Workers : pc'[w] = "idle"
    BY <1>2, <1>3, ThreadIs DEF SInv, BuildInv
  <2> QED
    BY <1>1, <1>2, <1>3, <2>1, ThreadIs DEF SInv, BuildInv
<1>7. ContextInv'
  BY <1>1, <1>4 DEF SInv, ContextInv, ParallelThreads, Unsigned
<1>8. SearchInv'
  <2>1. found # "initialize"
    BY <1>2 DEF SInv, SearchInv
  <2>2. found = "yes" => built' > 2
    <3>1. built > 2 => built' > 2
      BY <1>1, <1>2
    <3> QED
      BY <3>1 DEF SInv, SearchInv
  <2> QED
    BY <1>1, <1>4, <2>1, <2>2 DEF SInv, SearchInv
<1>9. TableInv'
  BY <1>1, TableKept DEF SInv, table
<1>10. FinalInv'
  BY <1>1, <1>3, FinalKept DEF SInv
<1>11. FinalizedOnce'
  BY <1>1, <1>10, OnceKept
<1> QED
  BY <1>5, <1>6, <1>7, <1>8, <1>9, <1>10, <1>11 DEF SInv

-------------------------------------------------------------------------------
(* The environment.                                                        *)

LEMMA LoadFacts ==
  ASSUME ContextInv, ~Refused(environ)
  PROVE  LET e == Load(environ)
         IN  /\ e # <<>>
             /\ {e.OMP_NUM_THREADS, e.OMP_THREAD_LIMIT} \subseteq Int
             /\ e.OMP_TASKGRAPH_OPT \subseteq Pass
<1> DEFINE e == Load(environ)
<1>1. e # <<>>
  <2>1. DOMAIN <<>> = {} /\ "OMP_NUM_THREADS" \in DOMAIN e
    BY DEF Load
  <2> QED
    BY <2>1
<1>2. /\ e.OMP_NUM_THREADS = Parse(environ.OMP_NUM_THREADS, 0)
      /\ e.OMP_THREAD_LIMIT = Parse(environ.OMP_THREAD_LIMIT, IntMax)
      /\ e.OMP_TASKGRAPH_OPT = Passes(environ)
  BY DEF Load
<1>3. ASSUME NEW v \in {Unset, Empty, Junk} \cup Int, NEW d \in Int
      PROVE  Parse(v, d) \in Int
  BY DEF Parse, Atoi
<1>4. Parse(environ.OMP_NUM_THREADS, 0) \in Int /\ Parse(environ.OMP_THREAD_LIMIT, IntMax) \in Int
  <2>1. environ.OMP_NUM_THREADS \in {Unset, Empty, Junk} \cup Int
    BY DEF ContextInv
  <2>2. environ.OMP_THREAD_LIMIT \in {Unset, Empty, Junk} \cup Int
    BY DEF ContextInv
  <2>3. 0 \in Int /\ IntMax \in Int
    BY NumberAssumption
  <2> QED
    BY <1>3, <2>1, <2>2, <2>3
<1>5. Passes(environ) \subseteq Pass
  BY DEF Refused
<1> QED
  BY <1>1, <1>2, <1>4, <1>5

LEMMA EnvInitInv ==
  ASSUME SInv, NEW t \in Thread, EnvInit(t)
  PROVE  SInv'
<1>1. /\ Step(t, "env")
      /\ IF Refused(environ) THEN mode' = "fatal" /\ UNCHANGED <<built, env>>
         ELSE env' = Load(environ) /\ built' = built + 1 /\ UNCHANGED mode
      /\ UNCHANGED <<pc, entry, calls, environ, linked, atStart, xkomp, ndevices, teams,
                     found, path, tool, handle, open, OMPT_CB, answers, called, OMPT_ENABLED,
                     done, finalized>>
  BY DEF EnvInit, process, ompt, search, table
<1>2. t = InitialThread /\ built = 4 /\ mode = "running" /\ built' \in {4, 5} /\ mode' # "ended"
  BY <1>1, StepAt
<1>3. TypeOK'
  <2>1. /\ (built' > 4) = (env' # <<>>)
        /\ env' # <<>> =>
             /\ {env'.OMP_NUM_THREADS, env'.OMP_THREAD_LIMIT} \subseteq Int
             /\ env'.OMP_TASKGRAPH_OPT \subseteq Pass
    <3>1. CASE Refused(environ)
      BY <1>1, <3>1 DEF SInv, TypeOK
    <3>2. CASE ~Refused(environ)
      BY <1>1, <1>2, <3>2, LoadFacts DEF SInv
    <3> QED
      BY <3>1, <3>2
  <2>2. built' \in 0..Len(Parts)
    BY <1>2, PartsOrder
  <2>3. mode' \in {"running", "fatal", "ended"}
    BY <1>1, <1>2
  <2> QED
    BY <1>1, <2>1, <2>2, <2>3 DEF SInv, TypeOK
<1>4. BuildInv'
  <2>1. pc[t] = "build" /\ xkomp
    BY <1>1, Builder DEF Step
  <2> QED
    BY <1>1, <1>2, <2>1 DEF SInv, BuildInv
<1>5. ContextInv'
  <2>1. teams = {}
    BY <1>2 DEF SInv, ContextInv
  <2>2. built > 3 /\ ndevices \in DeviceCounts
    BY <1>2 DEF SInv, ContextInv
  <2> QED
    BY <1>1, <2>1, <2>2 DEF SInv, ContextInv
<1>6. SearchInv'
  <2>1. built > 3 /\ built # 3 /\ built' > 2 /\ built' # 3
    BY <1>2
  <2> QED
    BY <1>1, <2>1 DEF SInv, SearchInv
<1>7. TableInv'
  BY <1>1, TableKept DEF SInv, table
<1>8. FinalInv'
  BY <1>1, FinalKept DEF SInv
<1>9. FinalizedOnce'
  BY <1>2, <1>8, OnceKept
<1> QED
  BY <1>3, <1>4, <1>5, <1>6, <1>7, <1>8, <1>9 DEF SInv

-------------------------------------------------------------------------------
(* Calls in progress.                                                      *)

\* What is emitted is what the tool is told is emitted.
LEMMA EmittedIsSupported ==
  /\ \A f \in Entry \cup {"none", "exit"} : Emitted(f) \subseteq EventSupported
  /\ EventSupported \subseteq Event
<1>1. ASSUME NEW f \in Entry \cup {"none", "exit"}
      PROVE  Emitted(f) \subseteq EventSupported
  <2>1. CASE f = "parallel"
    BY <2>1 DEF Emitted, ThreadEvents, RegionEvents, SyncEvents, EventSupported
  <2>2. CASE f = "task"
    BY <2>2 DEF Emitted, TaskEvents, SyncEvents, EventSupported
  <2>3. CASE f = "taskgraph"
    BY <2>3 DEF Emitted, SyncEvents, EventSupported
  <2>4. CASE f \notin {"parallel", "task", "taskgraph"}
    BY <2>4 DEF Emitted
  <2> QED
    BY <2>1, <2>2, <2>3, <2>4
<1> QED
  BY <1>1 DEF EventSupported, Event

\* Telling a tool of events that it was told are called.
LEMMA ToldIsTrue ==
  ASSUME SInv, NEW events \in SUBSET EventSupported, Told(events), UNCHANGED <<OMPT_CB, answers>>
  PROVE  TableInv' /\ called' \subseteq Event
<1>1. called' = called \/ called' = called \cup (events \cap OMPT_CB)
  BY DEF Told
<1>2. called \subseteq Event
  BY DEF SInv, TypeOK
<1>3. called' \subseteq Event
  BY <1>1, <1>2, EmittedIsSupported
<1>4. TableInv'
  BY <1>1 DEF SInv, TableInv, AnswersHold
<1> QED
  BY <1>3, <1>4

LEMMA StartIsSupported == {"thread_begin", "implicit_task"} \subseteq EventSupported
  BY DEF EventSupported

LEMMA RuntimeInitInv ==
  ASSUME SInv, NEW t \in Thread, RuntimeInit(t)
  PROVE  SInv'
<1>1. /\ Step(t, "runtime") /\ found = "yes"
      /\ ndevices' \in DeviceCounts /\ built' = built + 1
      /\ UNCHANGED <<pc, entry, calls, environ, linked, atStart, xkomp, env, teams,
                     found, path, tool, handle, open, OMPT_CB, answers, OMPT_ENABLED,
                     done, finalized, mode>>
      /\ Told({"thread_begin", "implicit_task"})
  BY DEF RuntimeInit, process, search
<1>2. t = InitialThread /\ built = 3 /\ mode = "running" /\ built' = 4
  BY <1>1, StepAt
<1>3. TypeOK'
  <2>1. built' \in 0..Len(Parts) /\ ~(built' > 4) /\ ~(built > 4)
    BY <1>2, PartsOrder
  <2>2. called' \subseteq Event
    BY <1>1, StartIsSupported, ToldIsTrue
  <2> HIDE DEF Event
  <2> QED
    BY <1>1, <2>1, <2>2 DEF SInv, TypeOK
<1>4. BuildInv'
  <2>1. pc[t] = "build" /\ xkomp
    BY <1>1, Builder DEF Step
  <2> QED
    BY <1>1, <1>2, <2>1 DEF SInv, BuildInv
<1>5. ContextInv'
  <2>1. teams = {}
    BY <1>2 DEF SInv, ContextInv
  <2> QED
    BY <1>1, <2>1 DEF SInv, ContextInv
<1>6. SearchInv'
  BY <1>1, <1>2 DEF SInv, SearchInv
<1>7. TableInv'
  BY <1>1, StartIsSupported, ToldIsTrue
<1>8. FinalInv'
  BY <1>1, FinalKept DEF SInv
<1>9. FinalizedOnce'
  BY <1>1, <1>2, <1>8, OnceKept
<1> QED
  BY <1>3, <1>4, <1>5, <1>6, <1>7, <1>8, <1>9 DEF SInv

\* The size of a team, as the code computes it without a sign.
LEMMA SizesAreNatural ==
  ASSUME NEW n \in Int
  PROVE  Unsigned(n) \in Nat
<1>1. 2 * (IntMax + 1) \in Nat \ {0}
  BY NumberAssumption
<1> QED
  BY <1>1 DEF Unsigned

LEMMA ForkInv ==
  ASSUME SInv, NEW t \in Thread, Fork(t)
  PROVE  SInv'
<1> DEFINE desc == TeamDescInit(env, ParallelThreads(env))
<1>1. /\ mode = "running" /\ pc[t] = "use" /\ entry[t] = "parallel" /\ pc' = [pc EXCEPT ![t] = "region"]
      /\ teams' \subseteq teams \cup {desc}
      /\ UNCHANGED <<entry, calls, environ, linked, atStart, xkomp, built, env, ndevices,
                     found, path, tool, handle, open, OMPT_CB, answers, called, OMPT_ENABLED,
                     done, finalized, mode>>
  BY DEF Fork, process, ompt, search, table
<1>2. pc'[t] = "region" /\ \A u \in Thread : u # t => pc'[u] = pc[u]
  BY <1>1 DEF SInv, TypeOK
<1>3. built = 8 /\ t \notin Outsiders
  BY <1>1, AllBuilt, Emitters
<1>4. /\ desc \in [nthreads : Nat, places : KnownPlaces, mode : {"compact", "spread"}]
      /\ desc.nthreads = ParallelThreads(env)
  <2>1. /\ env # <<>>
        /\ env.OMP_NUM_THREADS \in Int /\ env.OMP_THREAD_LIMIT \in Int
    <3>1. built > 4
      BY <1>3
    <3>2. env # <<>>
      BY <3>1 DEF SInv, TypeOK
    <3> QED
      BY <3>2 DEF SInv, TypeOK
  <2>2. ParallelThreads(env) \in Nat
    BY <2>1, SizesAreNatural DEF ParallelThreads
  <2>3. ParsePlaces(env) \in KnownPlaces /\ ParseProcBind(env) \in {"compact", "spread"}
    BY DEF ParsePlaces, ParseProcBind, KnownPlaces
  <2> QED
    BY <2>2, <2>3 DEF TeamDescInit
<1> HIDE DEF desc
<1>5. TypeOK'
  <2>1. pc' \in [Thread -> {"idle", "get", "build", "use", "region", "claim", "balance", "finalize", "dlclose", "gone"}]
    BY <1>1 DEF SInv, TypeOK
  <2>2. teams' \subseteq [nthreads : Nat, places : KnownPlaces, mode : {"compact", "spread"}]
    BY <1>1, <1>4 DEF SInv, TypeOK
  <2> QED
    BY <1>1, <2>1, <2>2 DEF SInv, TypeOK
<1>6. BuildInv'
  BY <1>1, <1>2, <1>3, BuildKept
<1>7. ContextInv'
  <2>1. built > 4
    BY <1>3
  <2>2. \A team \in teams' : team.nthreads = ParallelThreads(env)
    BY <1>1, <1>4 DEF SInv, ContextInv
  <2>3. \A team \in teams' : team.nthreads = ParallelThreads(env)'
    BY <1>1, <2>2 DEF ParallelThreads, Unsigned
  <2> QED
    BY <1>1, <2>1, <2>3 DEF SInv, ContextInv
<1>8. SearchInv' /\ TableInv'
  BY <1>1, SearchKept, TableKept DEF SInv, table
<1>9. FinalInv'
  BY <1>1, <1>2, FinalKept DEF SInv
<1>10. FinalizedOnce'
  BY <1>1, <1>9, OnceKept
<1> QED
  BY <1>5, <1>6, <1>7, <1>8, <1>9, <1>10 DEF SInv

LEMMA UseInv ==
  ASSUME SInv, NEW t \in Thread, Use(t)
  PROVE  SInv'
<1>1. /\ mode = "running" /\ pc[t] \in {"region", "use"} /\ pc' = [pc EXCEPT ![t] = "idle"]
      /\ UNCHANGED <<entry, calls, environ, linked, atStart, xkomp, built, env, ndevices, teams,
                     found, path, tool, handle, open, OMPT_CB, answers, called, OMPT_ENABLED,
                     done, finalized, mode>>
  BY DEF Use, InUse, process, context, ompt, search, table
<1>2. pc'[t] = "idle" /\ \A u \in Thread : u # t => pc'[u] = pc[u]
  BY <1>1 DEF SInv, TypeOK
<1>3. TypeOK'
  BY <1>1 DEF SInv, TypeOK
<1>4. BuildInv'
  <2>1. CASE t \in Outsiders
    BY <1>1, <1>2, <2>1, ThreadIs DEF SInv, BuildInv
  <2>2. CASE t \notin Outsiders
    BY <1>1, <1>2, <2>2, BuildKept
  <2> QED
    BY <2>1, <2>2
<1>5. ContextInv' /\ SearchInv' /\ TableInv'
  BY <1>1, ContextKept, SearchKept, TableKept DEF SInv, table
<1>6. FinalInv'
  BY <1>1, <1>2, FinalKept DEF SInv
<1>7. FinalizedOnce'
  BY <1>1, <1>6, OnceKept
<1> QED
  BY <1>3, <1>4, <1>5, <1>6, <1>7 DEF SInv

-------------------------------------------------------------------------------
(* The tool.                                                               *)

\* A step of the discovery: nothing of a finalisation has begun.
LEMMA Discovering ==
  ASSUME SInv, found # "yes"
  PROVE  /\ ~OMPT_ENABLED /\ ~done /\ finalized = 0
         /\ \A u \in Thread : pc[u] # "claim" /\ ~Claimed(u) /\ (entry[u] = "exit" => u = InitialThread)
<1>1. ~OMPT_ENABLED /\ ~done
  BY DEF SInv, FinalInv
<1> QED
  BY <1>1 DEF SInv, FinalInv

\* A step of the discovery leaves all but the search, the table and the switch
\* of the bridge alone.
LEMMA DiscoveryKeeps ==
  ASSUME SInv, NEW t \in Thread, Step(t, "runtime"),
         UNCHANGED <<pc, entry, calls, environ, linked, atStart, xkomp, built, env, ndevices,
                     teams, done, finalized, mode>>
  PROVE  /\ BuildInv' /\ ContextInv'
         /\ FinalInv' => FinalizedOnce'
<1>1. BuildInv'
  BY DEF SInv, BuildInv
<1>2. ContextInv'
  BY ContextKept DEF SInv
<1>3. mode' # "ended"
  BY StepAt
<1> QED
  BY <1>1, <1>2, <1>3, OnceKept

\* Nothing is found, and the bridge stays disconnected, or a tool is.
LEMMA DiscoverInv ==
  ASSUME SInv, NEW t \in Thread, DiscoverNone(t) \/ DiscoverLinked(t) \/ DiscoverLibrary(t)
  PROVE  SInv'
<1>1. /\ Step(t, "runtime") /\ found = "no"
      /\ UNCHANGED <<pc, entry, calls, environ, linked, atStart, xkomp, built, env, ndevices, teams,
                     OMPT_CB, answers, called, OMPT_ENABLED, done, finalized, mode>>
      /\ \/ found' = "yes" /\ UNCHANGED <<path, tool, handle, open>>
         \/ /\ found' = "initialize" /\ tool' \in {"declines", "works"} /\ path' = path
            /\ UNCHANGED <<handle, open>> \/ (handle' = path /\ open' = open \cup {path})
         \/ path' = path + 1 /\ UNCHANGED <<found, tool, handle, open>>
  BY DEF DiscoverNone, DiscoverLinked, DiscoverLibrary, Discovers, process, context, table
<1>2. built = 3 /\ tool = "none" /\ handle = 0 /\ open = {} /\ path \in Nat \ {0}
  BY <1>1, StepAt DEF SInv, SearchInv, TypeOK
<1>3. TypeOK'
  <2>1. /\ found' \in {"no", "initialize", "yes"} /\ path' \in Nat \ {0} /\ handle' \in Nat
        /\ tool' \in {"none", "declines", "works"} /\ open' \subseteq Nat
    BY <1>1, <1>2
  <2> QED
    BY <1>1, <2>1 DEF SInv, TypeOK
<1>4. BuildInv' /\ ContextInv' /\ (FinalInv' => FinalizedOnce')
  BY <1>1, DiscoveryKeeps
<1>5. SearchInv'
  <2>1. built' = 3 /\ built' > 2 /\ ~(built' > 3)
    BY <1>1, <1>2
  <2> QED
    BY <1>1, <1>2, <2>1 DEF SearchInv
<1>6. TableInv'
  BY <1>1, TableKept DEF SInv, table
<1>7. FinalInv'
  <2>1. found' = "yes" => tool' # "works"
    BY <1>1, <1>2
  <2>2. /\ ~OMPT_ENABLED' /\ ~done' /\ finalized' = 0
        /\ \A u \in Thread : pc'[u] # "claim" /\ ~Claimed(u)' /\ (entry'[u] = "exit" => u = InitialThread)
    BY <1>1, Discovering DEF Claimed
  <2> QED
    BY <2>1, <2>2 DEF FinalInv, Claimed
<1> QED
  BY <1>3, <1>4, <1>5, <1>6, <1>7 DEF SInv

LEMMA SetCallbackInv ==
  ASSUME SInv, NEW t \in Thread, NEW which \in Tried, SetCallback(t, which)
  PROVE  SInv'
<1>1. /\ Step(t, "runtime") /\ found = "initialize"
      /\ IF which \notin Event
           THEN answers' = answers \cup {<<which, "error">>} /\ UNCHANGED OMPT_CB
           ELSE /\ OMPT_CB' = OMPT_CB \cup {which}
                /\ answers' = answers \cup
                     {<<which, IF which \in EventSupported THEN "always" ELSE "never">>}
      /\ UNCHANGED <<pc, entry, calls, environ, linked, atStart, xkomp, built, env, ndevices, teams,
                     found, path, tool, handle, open, called, OMPT_ENABLED, done, finalized, mode>>
  BY DEF SetCallback, process, context, search
<1>2. TypeOK'
  <2>1. OMPT_CB' \subseteq Event
    BY <1>1 DEF SInv, TypeOK
  <2> HIDE DEF Event
  <2> QED
    BY <1>1, <2>1 DEF SInv, TypeOK
<1>3. BuildInv' /\ ContextInv' /\ (FinalInv' => FinalizedOnce')
  BY <1>1, DiscoveryKeeps
<1>4. SearchInv'
  BY <1>1, SearchKept DEF SInv
<1>5. TableInv'
  <2>1. answers \subseteq answers'
    BY <1>1
  <2>2. \A e \in OMPT_CB' : e \in EventSupported => <<e, "always">> \in answers'
    BY <1>1, <2>1 DEF SInv, TableInv
  <2> QED
    BY <1>1, <2>1, <2>2 DEF SInv, TableInv, AnswersHold
<1>6. FinalInv'
  BY <1>1, FinalKept DEF SInv
<1> QED
  BY <1>2, <1>3, <1>4, <1>5, <1>6 DEF SInv

LEMMA BridgeInitializeInv ==
  ASSUME SInv, NEW t \in Thread, BridgeInitialize(t)
  PROVE  SInv'
<1>1. /\ Step(t, "runtime") /\ found = "initialize" /\ found' = "yes"
      /\ IF tool = "works"
           THEN OMPT_ENABLED' = TRUE /\ UNCHANGED <<tool, handle, open>>
           ELSE /\ open' = open \ {handle} /\ handle' = 0 /\ tool' = "none"
                /\ UNCHANGED OMPT_ENABLED
      /\ UNCHANGED <<pc, entry, calls, environ, linked, atStart, xkomp, built, env, ndevices, teams,
                     path, OMPT_CB, answers, called, done, finalized, mode>>
  BY DEF BridgeInitialize, process, context, table
<1>2. tool \in {"declines", "works"} /\ open \subseteq {handle} /\ built = 3
  BY <1>1 DEF SInv, SearchInv
<1>3. /\ ~OMPT_ENABLED /\ ~done /\ finalized = 0
      /\ \A u \in Thread : pc[u] # "claim" /\ ~Claimed(u) /\ (entry[u] = "exit" => u = InitialThread)
  BY <1>1, Discovering
<1>4. TypeOK'
  <2>1. handle' \in {handle, 0} /\ open' \subseteq open
    BY <1>1
  <2>5. handle' \in Nat /\ open' \subseteq Nat
    BY <2>1 DEF SInv, TypeOK
  <2>2. tool' \in {"none", "declines", "works"}
    BY <1>1, <1>2
  <2>3. OMPT_ENABLED' \in BOOLEAN
    BY <1>1 DEF SInv, TypeOK
  <2>4. found' \in {"no", "initialize", "yes"}
    BY <1>1
  <2> QED
    BY <1>1, <2>2, <2>3, <2>4, <2>5 DEF SInv, TypeOK
<1>5. BuildInv' /\ ContextInv' /\ (FinalInv' => FinalizedOnce')
  BY <1>1, DiscoveryKeeps
<1>6. SearchInv'
  <2>1. built' = 3 /\ built' > 2
    BY <1>1, <1>2
  <2> QED
    BY <1>1, <1>2, <2>1 DEF SearchInv
<1>7. TableInv'
  BY <1>1, TableKept DEF SInv, table
<1>8. FinalInv'
  <2>1. (OMPT_ENABLED' <=> tool' = "works") /\ ~done'
    BY <1>1, <1>2, <1>3
  <2>2. finalized' = 0 /\ \A u \in Thread : pc'[u] # "claim" /\ ~Claimed(u)' /\ (entry'[u] = "exit" => u = InitialThread)
    BY <1>1, <1>3 DEF Claimed
  <2> QED
    BY <1>1, <2>1, <2>2 DEF FinalInv, Claimed
<1> QED
  BY <1>4, <1>5, <1>6, <1>7, <1>8 DEF SInv

-------------------------------------------------------------------------------
(* Callbacks, and the finalisation.                                        *)

LEMMA OmptCallInv ==
  ASSUME SInv, NEW t \in Thread, NEW e \in Tried, OmptCall(t, e)
  PROVE  SInv'
<1>1. /\ mode = "running" /\ e \in Emitted(entry[t]) /\ e \in OMPT_CB
      /\ called' = called \cup {e}
      /\ UNCHANGED <<pc, entry, calls, environ, linked, atStart, xkomp, built, env, ndevices, teams,
                     found, path, tool, handle, open, OMPT_CB, answers, OMPT_ENABLED,
                     done, finalized, mode>>
  BY DEF OmptCall, process, context, search
<1>2. e \in EventSupported /\ e \in Event
  <2>1. entry[t] \in Entry \cup {"none", "exit"}
    BY DEF SInv, TypeOK
  <2> QED
    BY <1>1, <2>1, EmittedIsSupported
<1>3. TypeOK'
  <2>1. called' \subseteq Event
    BY <1>1, <1>2 DEF SInv, TypeOK
  <2> HIDE DEF Event
  <2> QED
    BY <1>1, <2>1 DEF SInv, TypeOK
<1>4. BuildInv' /\ ContextInv' /\ SearchInv'
  BY <1>1, ContextKept, SearchKept DEF SInv, BuildInv
<1>5. TableInv'
  BY <1>1, <1>2 DEF SInv, TableInv, AnswersHold
<1>6. FinalInv'
  BY <1>1, FinalKept DEF SInv
<1>7. FinalizedOnce'
  BY <1>1, <1>6, OnceKept
<1> QED
  BY <1>3, <1>4, <1>5, <1>6, <1>7 DEF SInv

LEMMA FinalizeToolInv ==
  ASSUME SInv, NEW t \in Thread, FinalizeTool(t)
  PROVE  SInv'
<1>1. /\ mode = "running" /\ pc[t] \in {"region", "use"} /\ OMPT_ENABLED /\ Emitted(entry[t]) # {}
      /\ pc' = [pc EXCEPT ![t] = "claim"]
      /\ UNCHANGED <<entry, calls, environ, linked, atStart, xkomp, built, env, ndevices, teams,
                     found, path, tool, handle, open, OMPT_CB, answers, called, OMPT_ENABLED,
                     done, finalized, mode>>
  BY DEF FinalizeTool, InUse, process, context, ompt, search, table
<1>2. pc'[t] = "claim" /\ \A u \in Thread : u # t => pc'[u] = pc[u]
  BY <1>1 DEF SInv, TypeOK
<1>3. TypeOK'
  BY <1>1 DEF SInv, TypeOK
<1>4. BuildInv'
  BY <1>1, <1>2, Emitters, BuildKept
<1>5. ContextInv' /\ SearchInv' /\ TableInv'
  BY <1>1, ContextKept, SearchKept, TableKept DEF SInv, table
<1>6. FinalInv'
  <2>1. \A u \in Thread : \A s \in {"balance", "finalize", "dlclose"} : pc'[u] = s <=> pc[u] = s
    BY <1>1, <1>2
  <2>2. \A u \in Thread : Claimed(u)' <=> Claimed(u)
    BY <2>1 DEF Claimed
  <2> QED
    BY <1>1, <2>1, <2>2 DEF SInv, FinalInv
<1>7. FinalizedOnce'
  BY <1>1, <1>6, OnceKept
<1> QED
  BY <1>3, <1>4, <1>5, <1>6, <1>7 DEF SInv

\* A finalisation is over: the process ends, or the call that the callback came
\* from goes on.
LEMMA ReturnsTo ==
  ASSUME SInv, NEW t \in Thread, mode = "running", Returns(t)
  PROVE  /\ pc' = [pc EXCEPT ![t] = pc'[t]] /\ pc'[t] \in {"gone", "region", "use"}
         /\ mode' \in {"running", "ended"} /\ (mode' = "ended" <=> entry[t] = "exit")
         /\ pc'[t] = "gone" <=> entry[t] = "exit"
<1>1. CASE entry[t] = "exit"
  BY <1>1 DEF Returns, SInv, TypeOK
<1>2. CASE entry[t] # "exit"
  BY <1>2 DEF Returns, SInv, TypeOK
<1> QED
  BY <1>1, <1>2

\* exit() while no tool is, or was, there: the process ends.
LEMMA ExitEndsInv ==
  ASSUME SInv, Exit, ~OMPT_ENABLED, ~done
  PROVE  SInv'
<1>1. /\ mode' = "ended" /\ pc[InitialThread] \in {"idle", "region"}
      /\ UNCHANGED <<pc, entry, calls, environ, linked, atStart, xkomp, built, env, ndevices, teams,
                     found, path, tool, handle, open, OMPT_CB, answers, called, OMPT_ENABLED,
                     done, finalized>>
  BY DEF Exit, process, context, ompt, search, table
<1>2. TypeOK' /\ BuildInv' /\ ContextInv' /\ SearchInv' /\ TableInv'
  <2>1. TypeOK'
    BY <1>1 DEF SInv, TypeOK
  <2> QED
    BY <1>1, <2>1, ContextKept, SearchKept, TableKept DEF SInv, BuildInv, table
<1>3. FinalInv'
  BY <1>1, FinalKept DEF SInv
<1>4. tool # "works"
  <2>1. found = "initialize" => built = 3
    BY DEF SInv, SearchInv
  <2>2. built # 3
    <3>1. xkomp => built = 8
      BY <1>1 DEF SInv, BuildInv
    <3>2. ~xkomp => built = 0
      BY DEF SInv, BuildInv
    <3> QED
      BY <3>1, <3>2
  <2>3. found \in {"no", "initialize", "yes"}
    BY DEF SInv, TypeOK
  <2>4. found = "yes" => tool # "works"
    BY DEF SInv, FinalInv
  <2>5. found = "no" => tool # "works"
    BY DEF SInv, SearchInv
  <2> QED
    BY <2>1, <2>2, <2>3, <2>4, <2>5
<1>5. FinalizedOnce'
  <2>1. finalized' = 0 /\ tool' # "works"
    BY <1>1, <1>4 DEF SInv, FinalInv
  <2> QED
    BY <2>1 DEF FinalizedOnce
<1> QED
  BY <1>2, <1>3, <1>5 DEF SInv

\* The exit handler that was registered when the tool was activated runs.
LEMMA ExitFinalizesInv ==
  ASSUME SInv, Exit, OMPT_ENABLED \/ done
  PROVE  SInv'
<1>1. /\ mode = "running" /\ pc[InitialThread] \in {"idle", "region"}
      /\ pc' = [pc EXCEPT ![InitialThread] = "claim"]
      /\ entry' = [entry EXCEPT ![InitialThread] = "exit"]
      /\ UNCHANGED <<calls, environ, linked, atStart, xkomp, built, env, ndevices, teams,
                     found, path, tool, handle, open, OMPT_CB, answers, called, OMPT_ENABLED,
                     done, finalized, mode>>
  BY DEF Exit, process, context, ompt, search, table
<1>2. /\ pc'[InitialThread] = "claim"
      /\ \A u \in Thread : u # InitialThread => pc'[u] = pc[u] /\ entry'[u] = entry[u]
  BY <1>1, ThreadIs DEF SInv, TypeOK
<1>3. TypeOK'
  BY <1>1 DEF SInv, TypeOK
<1>4. BuildInv'
  <2>1. built = 8 /\ xkomp
    <3>1. found = "yes"
      BY DEF SInv, FinalInv
    <3>2. built > 2
      BY <3>1 DEF SInv, SearchInv
    <3>3. ~xkomp => built = 0
      BY DEF SInv, BuildInv
    <3>4. xkomp
      BY <3>2, <3>3
    <3> QED
      BY <1>1, <3>4 DEF SInv, BuildInv
  <2> QED
    BY <1>1, <1>2, <2>1, ThreadIs DEF SInv, BuildInv
<1>5. ContextInv' /\ SearchInv' /\ TableInv'
  BY <1>1, ContextKept, SearchKept, TableKept DEF SInv, table
<1>6. FinalInv'
  <2>1. \A u \in Thread : \A s \in {"balance", "finalize", "dlclose"} : pc'[u] = s <=> pc[u] = s
    BY <1>1, <1>2, ThreadIs
  <2>2. \A u \in Thread : Claimed(u)' <=> Claimed(u)
    BY <2>1 DEF Claimed
  <2>3. \A u \in Thread : entry'[u] = "exit" => u = InitialThread
    BY <1>2 DEF SInv, FinalInv
  <2> QED
    BY <1>1, <2>1, <2>2, <2>3 DEF SInv, FinalInv
<1>7. FinalizedOnce'
  BY <1>1, <1>6, OnceKept
<1> QED
  BY <1>3, <1>4, <1>5, <1>6, <1>7 DEF SInv

\* A thread in a finalisation is one that XKRT knows.
LEMMA NotOutside ==
  ASSUME SInv, NEW t \in Thread, pc[t] = "claim" \/ Claimed(t)
  PROVE  t \notin Outsiders
  BY DEF SInv, BuildInv, Claimed

LEMMA ExitInv ==
  ASSUME SInv, Exit
  PROVE  SInv'
  BY ExitEndsInv, ExitFinalizesInv

\* Another thread was first, or the tool is off already.
LEMMA ClaimLostInv ==
  ASSUME SInv, NEW t \in Thread, Claim(t), done \/ ~OMPT_ENABLED
  PROVE  SInv'
<1>1. /\ mode = "running" /\ pc[t] = "claim" /\ done' = TRUE /\ Returns(t)
      /\ UNCHANGED <<entry, calls, environ, linked, atStart, xkomp, built, env, ndevices, teams,
                     found, path, tool, handle, open, OMPT_CB, answers, called, OMPT_ENABLED, finalized>>
  BY DEF Claim, process, context, search, table
<1>2. done /\ UNCHANGED done
  BY <1>1 DEF SInv, FinalInv, TypeOK
<1>3. /\ pc' = [pc EXCEPT ![t] = pc'[t]] /\ pc'[t] \in {"gone", "region", "use"}
      /\ mode' \in {"running", "ended"} /\ (mode' = "ended" <=> entry[t] = "exit")
  BY <1>1, ReturnsTo
<1>4. \A u \in Thread : u # t => pc'[u] = pc[u]
  BY <1>3 DEF SInv, TypeOK
<1>5. TypeOK'
  <2>1. pc' \in [Thread -> {"idle", "get", "build", "use", "region", "claim", "balance", "finalize", "dlclose", "gone"}]
    BY <1>3 DEF SInv, TypeOK
  <2>2. mode' \in {"running", "fatal", "ended"}
    BY <1>3
  <2> QED
    BY <1>1, <1>2, <2>1, <2>2 DEF SInv, TypeOK
<1>6. BuildInv'
  BY <1>1, <1>3, <1>4, NotOutside, BuildKept
<1>7. ContextInv' /\ SearchInv' /\ TableInv'
  BY <1>1, ContextKept, SearchKept, TableKept DEF SInv, table
<1>8. /\ \A u \in Thread : pc'[u] = "claim" => pc[u] = "claim"
      /\ \A u \in Thread : \A s \in {"balance", "finalize", "dlclose"} : pc'[u] = s <=> pc[u] = s
  BY <1>1, <1>3, <1>4
<1>9. FinalInv'
  <2>1. \A u \in Thread : Claimed(u)' <=> Claimed(u)
    BY <1>8 DEF Claimed
  <2> QED
    BY <1>1, <1>2, <1>8, <2>1 DEF SInv, FinalInv
<1>10. FinalizedOnce'
  <2>1. finalized' \in {0, 1}
    BY <1>9 DEF FinalInv
  <2>2. ASSUME mode' = "ended", finalized' = 0
        PROVE  \E w \in Workers : pc'[w] \notin {"idle", "get", "use"}
    <3>1. t = InitialThread
      BY <1>3, <2>2 DEF SInv, FinalInv
    <3>2. PICK u \in Thread : pc[u] \in {"balance", "finalize"}
      BY <1>1, <1>2, <2>2 DEF SInv, FinalInv
    <3>3. u # t
      BY <1>1, <3>2
    <3> QED
      BY <1>4, <3>1, <3>2, <3>3, NotOutside, ThreadIs DEF Claimed
  <2> QED
    BY <2>1, <2>2 DEF FinalizedOnce
<1> QED
  BY <1>5, <1>6, <1>7, <1>9, <1>10 DEF SInv

\* The first to come goes on to finalise the tool.
LEMMA ClaimWonInv ==
  ASSUME SInv, NEW t \in Thread, Claim(t), ~done, OMPT_ENABLED
  PROVE  SInv'
<1>1. /\ mode = "running" /\ pc[t] = "claim" /\ done' = TRUE /\ pc' = [pc EXCEPT ![t] = "balance"]
      /\ UNCHANGED <<entry, calls, environ, linked, atStart, xkomp, built, env, ndevices, teams,
                     found, path, tool, handle, open, OMPT_CB, answers, called, OMPT_ENABLED,
                     finalized, mode>>
  BY DEF Claim, process, context, search, table
<1>2. pc'[t] = "balance" /\ \A u \in Thread : u # t => pc'[u] = pc[u]
  BY <1>1 DEF SInv, TypeOK
<1>3. TypeOK'
  BY <1>1 DEF SInv, TypeOK
<1>4. BuildInv'
  BY <1>1, <1>2, NotOutside, BuildKept
<1>5. ContextInv' /\ SearchInv' /\ TableInv'
  BY <1>1, ContextKept, SearchKept, TableKept DEF SInv, table
<1>6. FinalInv'
  <2>1. finalized' = 0 /\ \A u \in Thread : ~Claimed(u)
    BY <1>1 DEF SInv, FinalInv
  <2>2. \A u \in Thread : u # t => ~Claimed(u)'
    BY <1>2, <2>1 DEF Claimed
  <2>3. found' = "yes" /\ tool' = "works" /\ done'
    BY <1>1 DEF SInv, FinalInv
  <2> QED
    BY <1>1, <1>2, <2>1, <2>2, <2>3 DEF SInv, FinalInv, Claimed
<1>7. FinalizedOnce'
  BY <1>1, <1>6, OnceKept
<1> QED
  BY <1>3, <1>4, <1>5, <1>6, <1>7 DEF SInv

LEMMA BalanceInv ==
  ASSUME SInv, NEW t \in Thread, Balance(t)
  PROVE  SInv'
<1> DEFINE ends == {"thread_end"} \cup IF t = InitialThread THEN {"implicit_task"} ELSE {}
<1>1. /\ mode = "running" /\ pc[t] = "balance" /\ pc' = [pc EXCEPT ![t] = "finalize"]
      /\ OMPT_ENABLED' = FALSE
      /\ Told(ends)
      /\ UNCHANGED <<entry, calls, environ, linked, atStart, xkomp, built, env, ndevices, teams,
                     found, path, tool, handle, open, OMPT_CB, answers, done,
                     finalized, mode>>
  BY DEF Balance, process, context, search
<1>2. pc'[t] = "finalize" /\ \A u \in Thread : u # t => pc'[u] = pc[u]
  BY <1>1 DEF SInv, TypeOK
<1>0. ends \subseteq EventSupported
  BY DEF EventSupported
<1> HIDE DEF ends
<1>8. TableInv' /\ called' \subseteq Event
  BY <1>0, <1>1, ToldIsTrue
<1>3. TypeOK'
  <2> HIDE DEF Event
  <2> QED
    BY <1>1, <1>8 DEF SInv, TypeOK
<1>4. BuildInv'
  BY <1>1, <1>2, NotOutside, BuildKept DEF Claimed
<1>5. ContextInv' /\ SearchInv' /\ TableInv'
  BY <1>1, <1>8, ContextKept, SearchKept DEF SInv
<1>6. FinalInv'
  <2>1. Claimed(t) /\ done /\ finalized = 0
    BY <1>1 DEF SInv, FinalInv, Claimed
  <2>2. \A u \in Thread : Claimed(u)' <=> Claimed(u)
    BY <1>1, <1>2 DEF Claimed
  <2>3. found' = "yes" /\ tool' = "works" /\ done'
    BY <1>1, <2>1 DEF SInv, FinalInv
  <2> QED
    BY <1>1, <1>2, <2>1, <2>2, <2>3 DEF SInv, FinalInv
<1>7. FinalizedOnce'
  BY <1>1, <1>6, OnceKept
<1> QED
  BY <1>3, <1>4, <1>5, <1>6, <1>7 DEF SInv

LEMMA ToolFinalizeInv ==
  ASSUME SInv, NEW t \in Thread, ToolFinalize(t)
  PROVE  SInv'
<1>1. /\ mode = "running" /\ pc[t] = "finalize" /\ pc' = [pc EXCEPT ![t] = "dlclose"]
      /\ finalized' = finalized + 1
      /\ UNCHANGED <<entry, calls, environ, linked, atStart, xkomp, built, env, ndevices, teams,
                     found, path, tool, handle, open, OMPT_CB, answers, called, OMPT_ENABLED,
                     done, mode>>
  BY DEF ToolFinalize, process, context, search, table
<1>2. pc'[t] = "dlclose" /\ \A u \in Thread : u # t => pc'[u] = pc[u]
  BY <1>1 DEF SInv, TypeOK
<1>3. Claimed(t) /\ done /\ finalized = 0
  BY <1>1 DEF SInv, FinalInv, Claimed
<1>4. finalized' = 1
  BY <1>1, <1>3
<1>5. TypeOK'
  BY <1>1, <1>4 DEF SInv, TypeOK
<1>6. BuildInv'
  BY <1>1, <1>2, NotOutside, BuildKept DEF Claimed
<1>7. ContextInv' /\ SearchInv' /\ TableInv'
  BY <1>1, ContextKept, SearchKept, TableKept DEF SInv, table
<1>8. FinalInv'
  <2>1. \A u \in Thread : Claimed(u)' <=> Claimed(u)
    BY <1>1, <1>2 DEF Claimed
  <2>2. \A u \in Thread : Claimed(u) => u = t
    BY <1>3 DEF SInv, FinalInv
  <2>3. \A u \in Thread : pc'[u] \notin {"balance", "finalize"}
    BY <1>2, <2>1, <2>2 DEF Claimed
  <2>4. \A u \in Thread : pc'[u] = "claim" => pc[u] = "claim"
    BY <1>2
  <2> QED
    BY <1>1, <1>3, <1>4, <2>1, <2>3, <2>4 DEF SInv, FinalInv
<1>9. FinalizedOnce'
  BY <1>1, <1>8, OnceKept
<1> QED
  BY <1>5, <1>6, <1>7, <1>8, <1>9 DEF SInv

LEMMA CloseLibraryInv ==
  ASSUME SInv, NEW t \in Thread, CloseLibrary(t)
  PROVE  SInv'
<1>1. /\ mode = "running" /\ pc[t] = "dlclose" /\ Returns(t)
      /\ open' = open \ {handle} /\ handle' = 0
      /\ UNCHANGED <<entry, calls, environ, linked, atStart, xkomp, built, env, ndevices, teams,
                     found, path, tool, OMPT_CB, answers, called, OMPT_ENABLED, done, finalized>>
  BY DEF CloseLibrary, process, context, table
<1>2. /\ pc' = [pc EXCEPT ![t] = pc'[t]] /\ pc'[t] \in {"gone", "region", "use"}
      /\ mode' \in {"running", "ended"}
  BY <1>1, ReturnsTo
<1>3. \A u \in Thread : u # t => pc'[u] = pc[u]
  BY <1>2 DEF SInv, TypeOK
<1>4. Claimed(t) /\ done /\ finalized = 1 /\ \A u \in Thread : Claimed(u) => u = t
  <2>1. Claimed(t) /\ done /\ \A u \in Thread : Claimed(u) => u = t
    BY <1>1 DEF SInv, FinalInv, Claimed
  <2>2. ~\E u \in Thread : pc[u] \in {"balance", "finalize"}
    BY <1>1, <2>1 DEF Claimed
  <2> QED
    BY <2>1, <2>2 DEF SInv, FinalInv
<1>5. open' = {}
  <2>1. found = "yes"
    BY <1>4 DEF SInv, FinalInv
  <2>2. open \subseteq {handle}
    BY <2>1 DEF SInv, SearchInv
  <2> QED
    BY <1>1, <2>2
<1>6. TypeOK'
  <2>1. pc' \in [Thread -> {"idle", "get", "build", "use", "region", "claim", "balance", "finalize", "dlclose", "gone"}]
    BY <1>2 DEF SInv, TypeOK
  <2>2. mode' \in {"running", "fatal", "ended"} /\ handle' \in Nat /\ open' \subseteq Nat
    BY <1>1, <1>2, <1>5
  <2> QED
    BY <1>1, <2>1, <2>2 DEF SInv, TypeOK
<1>7. BuildInv'
  BY <1>1, <1>2, <1>3, NotOutside, BuildKept DEF Claimed
<1>8. ContextInv' /\ TableInv'
  BY <1>1, ContextKept, TableKept DEF SInv, table
<1>9. SearchInv'
  <2>1. found = "yes"
    BY <1>4 DEF SInv, FinalInv
  <2> QED
    BY <1>1, <1>5, <2>1 DEF SInv, SearchInv
<1>10. FinalInv'
  <2>1. \A u \in Thread : ~Claimed(u)'
    BY <1>2, <1>3, <1>4 DEF Claimed
  <2>2. \A u \in Thread : pc'[u] = "claim" => pc[u] = "claim"
    BY <1>2, <1>3
  <2>3. \A u \in Thread : pc'[u] \notin {"balance", "finalize"}
    BY <2>1 DEF Claimed
  <2> QED
    BY <1>1, <1>4, <2>1, <2>2, <2>3 DEF SInv, FinalInv
<1>11. FinalizedOnce'
  BY <1>1, <1>4 DEF FinalizedOnce
<1> QED
  BY <1>6, <1>7, <1>8, <1>9, <1>10, <1>11 DEF SInv

-------------------------------------------------------------------------------
(* Device numbers, which are the same arithmetic in every state.           *)

\* A number below the number of devices is its own remainder.
LEMMA RemainderOfSmall == ASSUME NEW n \in Nat, NEW d \in 0..n - 1 PROVE d % n = d
  BY SMT

\* The conversions round-trip, and transfers reach their devices, on every machine (src/device.cc).
THEOREM DevicesRoundTrip ==
  \A count \in Nat \ {0} : RoundTrips(count) /\ TransfersReach(count)
<1> SUFFICES ASSUME NEW k \in Nat \ {0} PROVE RoundTrips(k) /\ TransfersReach(k)
  OBVIOUS
<1> DEFINE n == k - 1
<1>0. n \in Nat
  OBVIOUS
<1>1. \A d \in 0..n : OmpToXkomp(d, k) = IF d = n THEN 0 ELSE 1 + d
  BY <1>0, RemainderOfSmall DEF OmpToXkomp, Rem, InitialDevice, NumDevices, HostUniqueId
<1>2. \A d \in 0..n : Divides(d, k)
  BY <1>0 DEF Divides, InitialDevice, NumDevices
<1>3. \A u \in 0..n : DeviceNum(u, k) = IF u = 0 THEN n ELSE u - 1
  BY DEF DeviceNum, InitialDevice, NumDevices, HostUniqueId
<1>4. \A d \in 0..n : OmpToXkomp(d, k) \in 0..n /\ XkompToOmp(OmpToXkomp(d, k), k) = d
  BY <1>0, <1>1 DEF XkompToOmp, NumDevices, HostUniqueId
<1>5. \A u \in 0..n : OmpToXkomp(DeviceNum(u, k), k) = u /\ (IsInitialDevice(u, k) <=> u = 0)
  BY <1>0, <1>1, <1>3 DEF IsInitialDevice, InitialDevice, NumDevices
<1>6. RoundTrips(k)
  BY <1>2, <1>4, <1>5 DEF RoundTrips, NumDevices, HostUniqueId
<1>7. TransfersReach(k)
  BY <1>4 DEF TransfersReach, TargetMemcpy, AsyncArgs, AsyncCopy, TargetAlloc, NumDevices
<1> QED
  BY <1>6, <1>7

-------------------------------------------------------------------------------
(* The invariant, and what follows from it.                                *)

LEMMA SInitInv ==
  ASSUME Init
  PROVE  SInv
<1>1. /\ pc = [t \in Thread |-> "idle"] /\ entry = [t \in Thread |-> "none"] /\ calls = 0
      /\ xkomp = FALSE /\ built = 0 /\ env = <<>> /\ ndevices = 0 /\ teams = {}
      /\ found = "no" /\ path = 1 /\ tool = "none" /\ handle = 0 /\ open = {}
      /\ OMPT_CB = {} /\ answers = {} /\ called = {} /\ OMPT_ENABLED = FALSE
      /\ done = FALSE /\ finalized = 0 /\ mode = "running"
  BY DEF Init
<1>2. TypeOK
  <2>1. calls \in 0..MaxCalls /\ built \in 0..Len(Parts)
    BY <1>1, NumberAssumption, PartsOrder
  <2>2. (built > 4) = (env # <<>>)
    BY <1>1
  <2>3. /\ pc \in [Thread -> {"idle", "get", "build", "use", "region", "claim", "balance", "finalize", "dlclose", "gone"}]
        /\ entry \in [Thread -> Entry \cup {"none", "exit"}]
    BY <1>1
  <2>4. /\ teams \subseteq [nthreads : Nat, places : KnownPlaces, mode : {"compact", "spread"}]
        /\ {OMPT_CB, called} \subseteq SUBSET Event /\ open \subseteq Nat
    BY <1>1
  <2>5. env = <<>>
    BY <1>1
  <2>6. {OMPT_ENABLED, done} \subseteq BOOLEAN /\ xkomp \in BOOLEAN
    BY <1>1
  <2>7. /\ path \in Nat \ {0} /\ handle \in Nat /\ finalized \in Nat
        /\ found \in {"no", "initialize", "yes"} /\ tool \in {"none", "declines", "works"}
        /\ ndevices \in DeviceCounts \cup {0} /\ mode \in {"running", "fatal", "ended"}
    BY <1>1
  <2> QED
    BY <2>1, <2>2, <2>3, <2>4, <2>5, <2>6, <2>7 DEF TypeOK
<1>3. BuildInv
  BY <1>1, ThreadIs DEF BuildInv
<1>4. ContextInv
  <2>1. PICK p \in Process : environ = p.environ
    BY DEF Init
  <2>2. {environ.OMP_NUM_THREADS, environ.OMP_THREAD_LIMIT} \subseteq {Unset, Empty, Junk} \cup Int
    BY <2>1, EnvironAssumption
  <2> QED
    BY <1>1, <2>2 DEF ContextInv
<1>5. SearchInv /\ TableInv
  BY <1>1 DEF SearchInv, TableInv, AnswersHold
<1>6. FinalInv /\ FinalizedOnce
  BY <1>1 DEF FinalInv, FinalizedOnce, Claimed
<1> QED
  BY <1>2, <1>3, <1>4, <1>5, <1>6 DEF SInv

LEMMA SStutterInv ==
  ASSUME SInv, UNCHANGED vars
  PROVE  SInv'
<1>1. UNCHANGED <<pc, entry, calls, environ, linked, atStart, xkomp, built, env, ndevices, teams,
                  found, path, tool, handle, open, OMPT_CB, answers, called, OMPT_ENABLED,
                  done, finalized, mode>>
  BY DEF vars, process, context, ompt, search, table
<1>2. TypeOK' /\ BuildInv'
  BY <1>1 DEF SInv, TypeOK, BuildInv
<1>3. ContextInv' /\ SearchInv' /\ TableInv'
  BY <1>1, ContextKept, SearchKept, TableKept DEF SInv, table
<1>4. FinalInv' /\ FinalizedOnce'
  BY <1>1 DEF SInv, FinalInv, FinalizedOnce, Claimed
<1> QED
  BY <1>2, <1>3, <1>4 DEF SInv

LEMMA SNextInv ==
  ASSUME SInv, [Next]_vars
  PROVE  SInv'
<1>1. CASE SetEnv
  BY <1>1, SetEnvInv
<1>2. CASE Exit
  BY <1>2, ExitInv
<1>3. CASE Ended \/ UNCHANGED vars
  BY <1>3, SStutterInv DEF Ended
<1>4. ASSUME NEW t \in Thread, NEW f \in Entry, Call(t, f)
      PROVE  SInv'
  BY <1>4, CallInv
<1>5. ASSUME NEW t \in Thread,
             XkompGet(t) \/ Build(t) \/ EnvInit(t) \/ RuntimeInit(t) \/ Fork(t) \/ Use(t)
      PROVE  SInv'
  BY <1>5, XkompGetInv, BuildStepInv, EnvInitInv, RuntimeInitInv, ForkInv, UseInv
<1>6. ASSUME NEW t \in Thread,
             DiscoverNone(t) \/ DiscoverLinked(t) \/ DiscoverLibrary(t) \/ BridgeInitialize(t)
      PROVE  SInv'
  BY <1>6, DiscoverInv, BridgeInitializeInv
<1>7. ASSUME NEW t \in Thread, NEW e \in Tried, SetCallback(t, e) \/ OmptCall(t, e)
      PROVE  SInv'
  BY <1>7, SetCallbackInv, OmptCallInv
<1>8. ASSUME NEW t \in Thread, FinalizeTool(t) \/ Balance(t) \/ ToolFinalize(t) \/ CloseLibrary(t)
      PROVE  SInv'
  BY <1>8, FinalizeToolInv, BalanceInv, ToolFinalizeInv, CloseLibraryInv
<1>9. ASSUME NEW t \in Thread, Claim(t)
      PROVE  SInv'
  BY <1>9, ClaimLostInv, ClaimWonInv
<1> QED
  BY <1>1, <1>2, <1>3, <1>4, <1>5, <1>6, <1>7, <1>8, <1>9 DEF Next

\* Whatever the process's environment, its tools and its threads do, the library
\* starts and ends in the order the invariant describes.
THEOREM StartupInvariance == Spec => []SInv
<1>1. Init => SInv
  BY SInitInv
<1>2. SInv /\ [Next]_vars => SInv'
  BY SNextInv
<1> QED
  BY <1>1, <1>2, PTL DEF Spec

\* Types; the environment is there as soon as, and never before, it is loaded.
THEOREM StartupTypes == Spec => []TypeOK
<1>1. SInv => TypeOK
  BY DEF SInv
<1> QED
  BY <1>1, StartupInvariance, PTL

\* No callback is called that the tool was not told is called, whatever it tries
\* and whoever calls it: runtime.init, the entry points or do_finalize
\* (ompt_set_callback and the emitters of ompt.cc).
THEOREM ToldTheTruth == Spec => []AnswersHold
<1>1. SInv => AnswersHold
  BY DEF SInv, TableInv
<1> QED
  BY <1>1, StartupInvariance, PTL

\* The discovery and the finalisation leave no library open but the tool's.
THEOREM OneLibraryIsOpen == Spec => []OneLibrary
<1>1. SInv => OneLibrary
  <2>1. SInv => found \in {"no", "initialize", "yes"}
    BY DEF SInv, TypeOK
  <2> QED
    BY <2>1 DEF SInv, SearchInv, OneLibrary
<1> QED
  BY <1>1, StartupInvariance, PTL

\* The tool is finalised once, by whichever of its callback and the exit handler
\* claims the flag (do_finalize).
THEOREM FinalizedExactlyOnce == Spec => []FinalizedOnce
<1>1. SInv => FinalizedOnce
  BY DEF SInv
<1> QED
  BY <1>1, StartupInvariance, PTL

LEMMA RemainderOfNegative ==
  ASSUME NEW m \in Nat \ {0}, NEW n \in Int, -m <= n, n < 0
  PROVE  n % m = n + m
  BY SMT

\* What a number reads as without its sign.
LEMMA WithoutSign ==
  ASSUME NEW n \in Width
  PROVE  Unsigned(n) = IF n < 0 THEN n + 2 * (IntMax + 1) ELSE n
<1> DEFINE m == 2 * (IntMax + 1)
<1>1. m \in Nat \ {0} /\ n \in Int /\ -m <= n /\ (0 <= n => n \in 0..m - 1)
  BY NumberAssumption DEF Width
<1> HIDE DEF m
<1>2. n % m = IF n < 0 THEN n + m ELSE n
  <2>1. CASE n < 0
    BY <1>1, <2>1, RemainderOfNegative
  <2>2. CASE ~(n < 0)
    <3>1. n \in 0..m - 1
      BY <1>1, <2>2
    <3>2. n % m = n
      BY <1>1, <3>1, RemainderOfSmall
    <3> QED
      BY <2>2, <3>2
  <2> QED
    BY <2>1, <2>2
<1> QED
  BY <1>2 DEF Unsigned, m

\* A region asks for the number of threads that omp_get_max_threads answers just
\* when both variables are positive (parallel.cc compares unsigned numbers,
\* api.cc signed ones).
THEOREM SameNumberOfThreads == Spec => []ThreadCountsAgree
<1>1. SInv => ThreadCountsAgree
  <2> DEFINE n == env.OMP_NUM_THREADS
             limit == env.OMP_THREAD_LIMIT
             big == 2 * (IntMax + 1)
  <2> SUFFICES ASSUME SInv, {n, limit} \subseteq Width, NEW team \in teams
               PROVE  /\ team.nthreads = 0 <=> n = 0 \/ limit = 0
                      /\ team.nthreads # 0 =>
                           (team.nthreads = GetMaxThreads(env) <=> n > 0 /\ limit > 0)
    BY DEF ThreadCountsAgree
  <2>1. team.nthreads = ParallelThreads(env)
    BY DEF SInv, ContextInv
  <2>2. /\ Unsigned(n) = IF n < 0 THEN n + big ELSE n
        /\ Unsigned(limit) = IF limit < 0 THEN limit + big ELSE limit
    BY WithoutSign
  <2>3. /\ n \in Int /\ limit \in Int /\ big \in Int /\ IntMax \in Nat /\ Cores \in Nat \ {0}
        /\ n <= IntMax /\ limit <= IntMax /\ -(IntMax + 1) <= n /\ -(IntMax + 1) <= limit
        /\ big = IntMax + IntMax + 2
    BY NumberAssumption DEF Width
  <2>4. team.nthreads = IF Unsigned(n) > Unsigned(limit) THEN Unsigned(limit) ELSE Unsigned(n)
    BY <2>1 DEF ParallelThreads
  <2>5. GetMaxThreads(env) = LET k == IF n = 0 THEN Cores ELSE n
                             IN  IF k < limit THEN k ELSE limit
    BY DEF GetMaxThreads
  <2> HIDE DEF n, limit, big
  <2> QED
    BY <2>2, <2>3, <2>4, <2>5
<1> QED
  BY <1>1, StartupInvariance, PTL

\* The devices that the runtime finds round-trip, however many (device.cc).
THEOREM DevicesAreFound == Spec => []DeviceNumbers
<1>1. SInv => DeviceNumbers
  <2> SUFFICES ASSUME SInv, Built("runtime")
               PROVE  RoundTrips(ndevices) /\ TransfersReach(ndevices)
    BY DEF DeviceNumbers
  <2>1. PICK i \in 1..built : Parts[i] = "runtime"
    BY DEF Built
  <2>2. built \in 0..8
    BY PartsOrder DEF SInv, TypeOK
  <2>3. i - 1 \in 0..7
    BY <2>2
  <2>4. i = 4
    <3> DEFINE j == i - 1
    <3>1. Parts[j + 1] = "runtime"
      BY <2>1, <2>2
    <3>2. j = 3
      <4> HIDE DEF j
      <4> QED
        BY <2>3, <3>1, PartsOrder DEF j
    <3> QED
      BY <2>2, <3>2
  <2>5. built > 3
    BY <2>2, <2>4
  <2>6. ndevices \in Nat \ {0}
    BY <2>5, NumberAssumption DEF SInv, ContextInv
  <2> QED
    BY <2>6, DevicesRoundTrip
<1> QED
  BY <1>1, StartupInvariance, PTL
===============================================================================
