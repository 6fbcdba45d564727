----------------------------- MODULE TaskgraphLoop -----------------------------
(***************************************************************************)
(* pragma_omp_taskgraphloop and pragma_omp_taskgraphloop_n                 *)
(* (include/xkomp/xkomp++.h): a host loop whose body is recorded, `unroll` *)
(* iterations at a time, and replayed.                                     *)
(*                                                                         *)
(* The replay counter and the recorded graph belong to the graph id and    *)
(* outlive the loop: a program that runs the loop again goes on replaying. *)
(* An instance issues the iterations the graph holds, whatever the loop    *)
(* adds to its count.                                                      *)
(***************************************************************************)
EXTENDS Integers

CONSTANTS
  OneUnroll,   \* do all loops over the graph have the same unroll?
  MaxTrips,    \* bound on a loop's trip count
  MaxUnroll,   \* bound on the unroll argument
  MaxCalls     \* bound on the loops a behaviour runs

ASSUME OneUnrollAssumption == OneUnroll \in BOOLEAN
ASSUME BoundAssumption == MaxTrips \in Nat /\ MaxUnroll \in Nat /\ MaxCalls \in Nat

VARIABLES
  pc,       \* "idle", "loop", "rest"
  calls,    \* the loops run so far
  rc,       \* taskgraph.rc, counted up to 1: the loop only tells the first begin
            \* from the later ones
  graph,    \* the iterations recorded in the graph
  loop,     \* the running or last loop: trips asked for, unroll, exact (loop_n) or not
  done,     \* its count of the iterations issued
  ran       \* history: the iterations it issued

vars == <<pc, calls, rc, graph, loop, done, ran>>

\* Mutation: an unroll of 0 is taken as it is.
AtLeastZero(u) == u

AtLeastOne(u) == IF u = 0 THEN 1 ELSE u

Init ==
  /\ pc = "idle" /\ calls = 0 /\ rc = 0 /\ graph = 0
  /\ loop = [trips |-> 0, unroll |-> 1, exact |-> FALSE]
  /\ done = 0 /\ ran = 0

\* Mutation: only the exact loop replaces an unroll of 0.
StartZero(n, u, exact) ==
  /\ pc = "idle" /\ calls < MaxCalls
  /\ OneUnroll => calls = 0 \/ AtLeastOne(u) = loop.unroll
  /\ pc' = "loop"
  /\ calls' = calls + 1
  /\ loop' = [trips |-> n, unroll |-> IF exact THEN AtLeastOne(u) ELSE u, exact |-> exact]
  /\ done' = 0 /\ ran' = 0
  /\ UNCHANGED <<rc, graph>>

Start(n, u, exact) ==
  /\ pc = "idle" /\ calls < MaxCalls
  /\ OneUnroll => calls = 0 \/ AtLeastOne(u) = loop.unroll
  /\ pc' = "loop"
  /\ calls' = calls + 1
  /\ loop' = [trips |-> n, unroll |-> AtLeastOne(u), exact |-> exact]
  /\ done' = 0 /\ ran' = 0
  /\ UNCHANGED <<rc, graph>>

\* Mutation: the exact loop leaves no remainder to plain tasks.
LimitTrips == loop.trips

\* The count cond compares with: for loop_n, `whole`.
Limit == IF loop.exact THEN (loop.trips \div loop.unroll) * loop.unroll ELSE loop.trips

\* rc == 1: the body is run and recorded.
Record ==
  /\ pc = "loop" /\ done < Limit /\ rc = 0
  /\ rc' = rc + 1
  /\ graph' = loop.unroll
  /\ ran' = ran + loop.unroll
  /\ done' = done + loop.unroll
  /\ UNCHANGED <<pc, calls, loop>>

\* Mutation: the body is run on a replay too.
ReplayRuns ==
  /\ pc = "loop" /\ done < Limit /\ rc > 0
  /\ ran' = ran + graph + loop.unroll
  /\ done' = done + loop.unroll
  /\ UNCHANGED <<pc, calls, rc, graph, loop>>

Replay ==
  /\ pc = "loop" /\ done < Limit /\ rc > 0
  /\ ran' = ran + graph
  /\ done' = done + loop.unroll
  /\ UNCHANGED <<pc, calls, rc, graph, loop>>

LoopEnds ==
  /\ pc = "loop" /\ done >= Limit
  /\ pc' = IF loop.exact THEN "rest" ELSE "idle"
  /\ UNCHANGED <<calls, rc, graph, loop, done, ran>>

\* loop_n: what is left runs as plain tasks.
Plain ==
  /\ pc = "rest" /\ done < loop.trips
  /\ done' = done + 1
  /\ ran' = ran + 1
  /\ UNCHANGED <<pc, calls, rc, graph, loop>>

RestEnds ==
  /\ pc = "rest" /\ done >= loop.trips
  /\ pc' = "idle"
  /\ UNCHANGED <<calls, rc, graph, loop, done, ran>>

Finished == pc = "idle" /\ calls = MaxCalls /\ UNCHANGED vars

Next ==
  \/ \E n \in 0..MaxTrips, u \in 0..MaxUnroll, exact \in BOOLEAN : Start(n, u, exact)
  \/ Record \/ Replay \/ LoopEnds \/ Plain \/ RestEnds
  \/ Finished

Spec == Init /\ [][Next]_vars

\* The host thread keeps running; cond is not the program's to make true for ever.
FairSpec == Spec /\ WF_vars(Record \/ Replay \/ LoopEnds \/ Plain \/ RestEnds)

-------------------------------------------------------------------------------
(* Properties.                                                             *)

TypeOK ==
  /\ pc \in {"idle", "loop", "rest"}
  /\ calls \in Nat /\ rc \in Nat /\ graph \in Nat
  /\ loop \in [trips : Nat, unroll : Nat \ {0}, exact : BOOLEAN]
  /\ done \in Nat /\ ran \in Nat

\* "the loop runs exactly `n` times with no overshoot", whether its instances
\* were recorded by this loop or by an earlier one (pragma_omp_taskgraphloop_n).
ExactTrips == pc = "idle" /\ loop.exact => ran = loop.trips

\* "Returns the number of iterations issued (always a multiple of `unroll`)",
\* and "may overshoot by up to `unroll - 1` iterations": no fewer iterations
\* than asked for, no whole instance too many (pragma_omp_taskgraphloop).
Overshoot ==
  pc = "idle" /\ ~loop.exact =>
    /\ ran = done /\ done % loop.unroll = 0
    /\ done >= loop.trips /\ done < loop.trips + loop.unroll

\* Every loop terminates.
LoopReturns == pc # "idle" ~> pc = "idle"
===============================================================================
