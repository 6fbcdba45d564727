---------------------------------- MODULE Team ---------------------------------
(***************************************************************************)
(* Parallel regions: __kmpc_push_num_threads and __kmpc_fork_call          *)
(* (src/kmp/fork.cc), xkomp_parallel and its cache of persistent teams     *)
(* (src/xkomp/parallel.cc), the wrapper every member of a team runs, and   *)
(* the barriers (src/kmp/barrier.cc).                                      *)
(*                                                                         *)
(* The program's initial thread is a member, with tid 0, of every team.    *)
(* The other members belong to one team and are parked between its         *)
(* regions.  A region inside a region runs in a team of one, on the stack  *)
(* of the thread that meets it.  Regions are numbered as they are forked;  *)
(* a region's number also stands for its argument block.                   *)
(*                                                                         *)
(* team_create, team_parallel_for and team_barrier are XKRT's.             *)
(***************************************************************************)
EXTENDS Integers, Sequences, FiniteSets

CONSTANTS
  InitialThread,    \* the initial thread
  NumThreads,       \* the values of the program's num_threads clauses
  OMP_NUM_THREADS,  \* 0 when the variable is not set
  OMP_THREAD_LIMIT,
  DefaultSize,      \* the threads XKRT gives a team that asks for 0
  MaxCachedTeams,   \* XKOMP_MAX_CACHED_TEAMS
  Barriers,         \* barrier constructs in the code of every region
  MaxRegions,       \* bound on the regions of a behaviour
  MaxDepth          \* bound on their nesting

ASSUME NumThreadsAssumption == NumThreads \subseteq Int
ASSUME EnvAssumption ==
  OMP_NUM_THREADS \in Nat /\ OMP_THREAD_LIMIT \in Nat \ {0} /\ DefaultSize \in Nat \ {0}
ASSUME BoundAssumption ==
  MaxCachedTeams \in Nat /\ Barriers \in Nat /\ MaxRegions \in Nat /\ MaxDepth \in Nat

Region == 1..MaxRegions

\* The number of threads xkomp_parallel asks for, which is the key of the
\* cache; 0 leaves the choice to XKRT.
TeamKey(n) ==
  LET asked == IF n # 0 THEN n ELSE OMP_NUM_THREADS
  IN  IF asked > OMP_THREAD_LIMIT THEN OMP_THREAD_LIMIT ELSE asked

Clamp(n) == IF n < 0 THEN 0 ELSE n

Keys     == {TeamKey(Clamp(n)) : n \in NumThreads \cup {0}}
Size(k)  == IF k = 0 THEN DefaultSize ELSE k
Worker   == {w \in [team : Keys, tid : 1..DefaultSize + OMP_THREAD_LIMIT] : w.tid < Size(w.team)}
Thread   == Worker \cup {InitialThread}
Nested   == -1   \* where a cached team's key would be, for a team of one

ASSUME ThreadAssumption == InitialThread \notin Worker

VARIABLES
  pc,       \* per thread: "outside", "parked", "pushed", "body", "barrier", "ending"
  frames,   \* per thread: the regions it is in, with the barriers it has passed
  pushed,   \* pushed_num_threads, one per thread
  teams,    \* omp->teams, the cached teams' keys
  args,     \* a cached team's desc.args
  todo,     \* its workers that have yet to take up the region dispatched
  regions,  \* history: who forked each region, on which team, with which clause
  live,     \* the argument blocks that are allocated
  mode      \* "running", "aborted" by an assertion, "exited"

vars == <<pc, frames, pushed, teams, args, todo, regions, live, mode>>

Inside(t) == frames[t] # <<>>
Top(t)    == frames[t][Len(frames[t])].region

\* The threads of a region's team, by member number (tid + 1).
MemberOf(r, i) ==
  CASE i = 1 -> regions[r].by
    [] OTHER -> [team |-> regions[r].team, tid |-> i - 1]
SizeOf(r) == IF regions[r].team = Nested THEN 1 ELSE Size(regions[r].team)
Members(r) == {MemberOf(r, i) : i \in 1..SizeOf(r)}

Init ==
  /\ pc = [t \in Thread |-> IF t = InitialThread THEN "outside" ELSE "parked"]
  /\ frames = [t \in Thread |-> <<>>]
  /\ pushed = [t \in Thread |-> 0]
  /\ teams = {}
  /\ args = [k \in Keys |-> 0]
  /\ todo = [k \in Keys |-> {}]
  /\ regions = <<>>
  /\ live = {}
  /\ mode = "running"

-------------------------------------------------------------------------------
(* Forking.                                                                *)

\* t's code may meet a parallel construct.
Encounters(t) ==
  /\ mode = "running" /\ pc[t] \in {"outside", "body"}
  /\ Len(regions) + Cardinality({u \in Thread : pc[u] = "pushed"}) < MaxRegions
  /\ Len(frames[t]) < MaxDepth

\* Mutation: a negative clause goes through.
PushNumThreadsRaw(t, n) ==
  /\ Encounters(t)
  /\ pushed' = [pushed EXCEPT ![t] = n]
  /\ pc' = [pc EXCEPT ![t] = "pushed"]
  /\ UNCHANGED <<frames, teams, args, todo, regions, live, mode>>

PushNumThreads(t, n) ==
  /\ Encounters(t)
  /\ pushed' = [pushed EXCEPT ![t] = Clamp(n)]
  /\ pc' = [pc EXCEPT ![t] = "pushed"]
  /\ UNCHANGED <<frames, teams, args, todo, regions, live, mode>>

Forks(t) == (mode = "running" /\ pc[t] = "pushed") \/ Encounters(t)

\* __kmpc_fork_call allocates and fills the argument block; t enters the
\* region's code as the first member of the team.
Enter(t, key) ==
  LET r == Len(regions) + 1
  IN  /\ regions' = Append(regions,
           [by |-> t, outer |-> IF Inside(t) THEN Top(t) ELSE 0, team |-> key,
            clause |-> IF pc[t] = "pushed" THEN pushed[t] ELSE 0])
      /\ live' = live \cup {r}
      /\ frames' = [frames EXCEPT ![t] = Append(@, [region |-> r, passed |-> 0])]
      /\ pc' = [pc EXCEPT ![t] = "body"]

\* tls->team is set: a one-shot team of one, run by t.
ForkNested(t) ==
  /\ Forks(t) /\ Inside(t)
  /\ Enter(t, Nested)
  /\ UNCHANGED <<pushed, teams, args, todo, mode>>

\* Mutation: desc.args is set when the team is created, and only then.
ForkCachedStale(t, key) ==
  /\ Forks(t) /\ ~Inside(t) /\ key = TeamKey(pushed[t])
  /\ key \in teams
  /\ todo' = [todo EXCEPT ![key] = 1..(Size(key) - 1)]
  /\ Enter(t, key)
  /\ UNCHANGED <<pushed, teams, args, mode>>

\* The region is handed to the members of a team that already exists.
ForkCached(t, key) ==
  /\ Forks(t) /\ ~Inside(t) /\ key = TeamKey(pushed[t])
  /\ key \in teams
  /\ args' = [args EXCEPT ![key] = Len(regions) + 1]
  /\ todo' = [todo EXCEPT ![key] = 1..(Size(key) - 1)]
  /\ Enter(t, key)
  /\ UNCHANGED <<pushed, teams, mode>>

\* Mutation: the last place in the cache is never used.
ForkNewOneLess(t, key) ==
  /\ Forks(t) /\ ~Inside(t) /\ key = TeamKey(pushed[t])
  /\ key \notin teams
  /\ IF Cardinality(teams) + 1 >= MaxCachedTeams
       THEN mode' = "aborted" /\ UNCHANGED <<pc, frames, pushed, teams, args, todo, regions, live>>
       ELSE /\ teams' = teams \cup {key}
            /\ args' = [args EXCEPT ![key] = Len(regions) + 1]
            /\ todo' = [todo EXCEPT ![key] = 1..(Size(key) - 1)]
            /\ Enter(t, key)
            /\ UNCHANGED <<pushed, mode>>

\* assert(omp->teams.size() < XKOMP_MAX_CACHED_TEAMS): the teams may not move.
ForkNew(t, key) ==
  /\ Forks(t) /\ ~Inside(t) /\ key = TeamKey(pushed[t])
  /\ key \notin teams
  /\ IF Cardinality(teams) >= MaxCachedTeams
       THEN mode' = "aborted" /\ UNCHANGED <<pc, frames, pushed, teams, args, todo, regions, live>>
       ELSE /\ teams' = teams \cup {key}
            /\ args' = [args EXCEPT ![key] = Len(regions) + 1]
            /\ todo' = [todo EXCEPT ![key] = 1..(Size(key) - 1)]
            /\ Enter(t, key)
            /\ UNCHANGED <<pushed, mode>>

-------------------------------------------------------------------------------
(* The region.                                                             *)

\* A parked worker takes up the region dispatched to its team: it reads the
\* argument block desc.args points to.
Dispatched(w) ==
  /\ mode = "running" /\ pc[w] = "parked" /\ w.tid \in todo[w.team]
  /\ todo' = [todo EXCEPT ![w.team] = @ \ {w.tid}]
  /\ frames' = [frames EXCEPT ![w] = <<[region |-> args[w.team], passed |-> 0]>>]
  /\ pc' = [pc EXCEPT ![w] = "body"]
  /\ UNCHANGED <<pushed, teams, args, regions, live, mode>>

\* The code reaches a barrier construct, or returns into fork_call_wrapper,
\* which ends with a barrier of its own.
Arrive(t) ==
  /\ mode = "running" /\ pc[t] = "body"
  /\ pc' = [pc EXCEPT ![t] = "barrier"]
  /\ UNCHANGED <<frames, pushed, teams, args, todo, regions, live, mode>>

Passed(t) == frames[t][Len(frames[t])].passed

\* Mutation: the barrier lets out whoever has arrived.
TeamBarrierEarly(r) ==
  /\ mode = "running" /\ r \in live
  /\ LET out == {t \in Members(r) : pc[t] = "barrier" /\ Top(t) = r}
     IN  /\ out # {}
         /\ frames' = [t \in Thread |-> IF t \in out
                         THEN [frames[t] EXCEPT ![Len(frames[t])].passed = @ + 1] ELSE frames[t]]
         /\ pc' = [t \in Thread |-> IF t \in out
                     THEN IF Passed(t) = Barriers THEN "ending" ELSE "body" ELSE pc[t]]
  /\ UNCHANGED <<pushed, teams, args, todo, regions, live, mode>>

\* team_barrier<true>: every member of the team is at it.
TeamBarrier(r) ==
  /\ mode = "running" /\ r \in live
  /\ \A t \in Members(r) : pc[t] = "barrier" /\ Top(t) = r
  /\ frames' = [t \in Thread |-> IF t \in Members(r)
                  THEN [frames[t] EXCEPT ![Len(frames[t])].passed = @ + 1] ELSE frames[t]]
  /\ pc' = [t \in Thread |-> IF t \in Members(r)
              THEN IF Passed(t) = Barriers THEN "ending" ELSE "body" ELSE pc[t]]
  /\ UNCHANGED <<pushed, teams, args, todo, regions, live, mode>>

\* A worker's routine returns: it parks until the next region of its team.
Park(w) ==
  /\ mode = "running" /\ pc[w] = "ending" /\ Len(frames[w]) = 1
  /\ frames' = [frames EXCEPT ![w] = <<>>]
  /\ pc' = [pc EXCEPT ![w] = "parked"]
  /\ UNCHANGED <<pushed, teams, args, todo, regions, live, mode>>

\* xkomp_parallel returns into __kmpc_fork_call, which frees the block and
\* resets the thread's pushed_num_threads.
Leave(t) ==
  /\ live' = live \ {Top(t)}
  /\ pushed' = [pushed EXCEPT ![t] = 0]
  /\ frames' = [frames EXCEPT ![t] = SubSeq(@, 1, Len(@) - 1)]
  /\ UNCHANGED <<teams, args, todo, regions, mode>>

JoinNested(t) ==
  /\ mode = "running" /\ pc[t] = "ending" /\ Len(frames[t]) > 1
  /\ Leave(t)
  /\ pc' = [pc EXCEPT ![t] = "body"]

\* Mutation: the number of threads stays pushed.
JoinKeepsPushed ==
  /\ mode = "running" /\ pc[InitialThread] = "ending" /\ Len(frames[InitialThread]) = 1
  /\ \A w \in Members(Top(InitialThread)) \ {InitialThread} : pc[w] = "parked"
  /\ live' = live \ {Top(InitialThread)}
  /\ frames' = [frames EXCEPT ![InitialThread] = <<>>]
  /\ pc' = [pc EXCEPT ![InitialThread] = "outside"]
  /\ UNCHANGED <<pushed, teams, args, todo, regions, mode>>

\* team_parallel_for returns once every member's routine has.
Join ==
  /\ mode = "running" /\ pc[InitialThread] = "ending" /\ Len(frames[InitialThread]) = 1
  /\ \A w \in Members(Top(InitialThread)) \ {InitialThread} : pc[w] = "parked"
  /\ Leave(InitialThread)
  /\ pc' = [pc EXCEPT ![InitialThread] = "outside"]

\* The program ends outside every region; parked workers go with it.
Exit ==
  /\ mode = "running" /\ pc[InitialThread] = "outside"
  /\ mode' = "exited"
  /\ UNCHANGED <<pc, frames, pushed, teams, args, todo, regions, live>>

Done == mode # "running" /\ UNCHANGED vars

\* A thread's code goes on to its next construct or barrier; whether it meets
\* another parallel construct is the program's choice.
Constructs(t) ==
  \/ \E n \in NumThreads : PushNumThreads(t, n)
  \/ ForkNested(t)
  \/ \E k \in Keys : ForkCached(t, k) \/ ForkNew(t, k)

Proceeds(t) ==
  \/ Arrive(t) \/ JoinNested(t)
  \/ t \in Worker /\ (Dispatched(t) \/ Park(t))
  \/ t = InitialThread /\ Join

Next ==
  \/ \E t \in Thread : Constructs(t) \/ Proceeds(t)
  \/ \E r \in 1..Len(regions) : TeamBarrier(r)
  \/ Exit \/ Done

Spec == Init /\ [][Next]_vars

\* Every thread keeps running, and code inside a region reaches its end.
Fairness ==
  /\ \A t \in Thread : WF_vars(Constructs(t) \/ Proceeds(t))
  /\ WF_vars(\E r \in 1..Len(regions) : TeamBarrier(r))

FairSpec == Spec /\ Fairness

-------------------------------------------------------------------------------
(* Properties.                                                             *)

Frame == [region : Nat, passed : 0..Barriers + 1]

TypeOK ==
  /\ pc \in [Thread -> {"outside", "parked", "pushed", "body", "barrier", "ending"}]
  /\ frames \in [Thread -> Seq(Frame)]
  /\ pushed \in [Thread -> Nat]
  /\ teams \subseteq Keys
  /\ args \in [Keys -> 0..MaxRegions]
  /\ todo \in [Keys -> SUBSET Nat]
  /\ regions \in Seq([by : Thread, outer : 0..MaxRegions, team : Keys \cup {Nested}, clause : Nat])
  /\ live \subseteq Region
  /\ mode \in {"running", "aborted", "exited"}

\* A thread in a region uses an argument block that has not been freed, and it
\* is the block of a region whose team it belongs to (wargs, malloc'ed and
\* freed by the forking thread in __kmpc_fork_call, read by every member).
ArgsLive ==
  \A t \in Thread : \A i \in DOMAIN frames[t] :
    LET r == frames[t][i].region IN r \in live /\ t \in Members(r)

\* A num_threads clause governs its own region and no later one, nor one forked
\* by another thread (pushed_num_threads).
ClauseOfItsOwn ==
  \A r \in DOMAIN regions :
    regions[r].team # Nested => regions[r].team = TeamKey(regions[r].clause)

\* The assertion on the number of cached teams never fails, whatever the order
\* in which a program uses as many thread counts as the cache holds ("We never
\* expect more than a couple of distinct thread counts", xkomp.h).
TeamsFit == mode # "aborted"

\* A region that is forked is joined: no barrier and no join can hang.
RegionsJoin ==
  \A r \in Region : (r \in live) ~> (r \notin live)

\* How far member i of region r is: see ForkJoin.
StepOf(r, i) ==
  IF r \notin DOMAIN regions \/ i > SizeOf(r) THEN 0
  ELSE LET t == MemberOf(r, i)
           in == {n \in DOMAIN frames[t] : frames[t][n].region = r}
       IN  IF in # {}
             THEN LET n == CHOOSE m \in in : TRUE
                  IN  2 * frames[t][n].passed + 1 +
                        IF n = Len(frames[t]) /\ pc[t] = "barrier" THEN 1 ELSE 0
             ELSE IF r \in live /\ i > 1 /\ i - 1 \in todo[regions[r].team]
                    THEN 0 ELSE 2 * (Barriers + 1) + 1

\* The member whose code forked region r.
ForkerOf(r) ==
  LET o == regions[r].outer
  IN  IF o = 0 THEN <<0, 1>> ELSE <<o, CHOOSE i \in 1..SizeOf(o) : MemberOf(o, i) = regions[r].by>>

MaxSize == CHOOSE n \in {Size(k) : k \in Keys} : \A k \in Keys : Size(k) <= n

FJ == INSTANCE ForkJoin WITH
  size <- [r \in Region |-> IF r \in DOMAIN regions THEN SizeOf(r) ELSE 0],
  by <- [r \in Region |-> IF r \in DOMAIN regions THEN ForkerOf(r) ELSE <<0, 1>>],
  step <- [r \in Region |-> [i \in 1..MaxSize |-> StepOf(r, i)]],
  joined <- {r \in DOMAIN regions : r \notin live}

\* Cached teams, parked workers and argument blocks implement fork-join: every
\* member runs its region's code once, barriers hold, the join comes last.
ImplementsForkJoin == FJ!Spec
===============================================================================
