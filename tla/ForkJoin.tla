------------------------------- MODULE ForkJoin --------------------------------
(***************************************************************************)
(* What a parallel construct promises the program: every member of the     *)
(* region's team runs the region's code once, no member is ahead of another*)
(* by a barrier, and the member that forked the region goes on when all of *)
(* them have finished.  No threads, no cached teams, no argument blocks.   *)
(***************************************************************************)
EXTENDS Integers, Sequences

CONSTANTS
  Region,     \* 1..n, numbered in the order they are forked
  MaxSize,    \* the largest team
  Barriers    \* the barrier constructs in the code of a region

VARIABLES
  size,     \* a region's team, 0 before it is forked
  by,       \* the member that forked it: <<region, member>>
  step,     \* how far each of its members is
  joined    \* the regions that are over

vars == <<size, by, step, joined>>

\* A member has not started at 0, runs at odd steps, waits at a barrier at
\* even ones, the region's own being the last.
Initial  == <<0, 1>>
Member   == 1..MaxSize
Last     == 2 * (Barriers + 1) + 1
Running(s) == s % 2 = 1 /\ s < Last

Open(r) == size[r] # 0 /\ r \notin joined

\* m's own code moves: it runs, and no region it forked is open.
Moves(m) ==
  /\ m = Initial \/ (m[1] \in Region /\ Running(step[m[1]][m[2]]))
  /\ \A r \in Region : Open(r) => by[r] # m

Init ==
  /\ size = [r \in Region |-> 0]
  /\ by = [r \in Region |-> Initial]
  /\ step = [r \in Region |-> [i \in Member |-> 0]]
  /\ joined = {}

\* The forking thread is the first member of the new team.
Fork(m, r, n) ==
  /\ Moves(m)
  /\ size[r] = 0 /\ \A q \in Region : q < r => size[q] # 0
  /\ size' = [size EXCEPT ![r] = n]
  /\ by' = [by EXCEPT ![r] = m]
  /\ step' = [step EXCEPT ![r][1] = 1]
  /\ UNCHANGED joined

Start(r, i) ==
  /\ Open(r) /\ i <= size[r] /\ step[r][i] = 0
  /\ step' = [step EXCEPT ![r][i] = 1]
  /\ UNCHANGED <<size, by, joined>>

Arrive(r, i) ==
  /\ Open(r) /\ Moves(<<r, i>>)
  /\ step' = [step EXCEPT ![r][i] = @ + 1]
  /\ UNCHANGED <<size, by, joined>>

\* A barrier lets everybody go at once, when all have arrived.
Release(r, s) ==
  /\ Open(r) /\ s % 2 = 0 /\ s > 0
  /\ \A i \in 1..size[r] : step[r][i] = s
  /\ step' = [step EXCEPT ![r] = [i \in Member |-> IF i <= size[r] THEN s + 1 ELSE 0]]
  /\ UNCHANGED <<size, by, joined>>

Join(r) ==
  /\ Open(r) /\ \A i \in 1..size[r] : step[r][i] = Last
  /\ joined' = joined \cup {r}
  /\ UNCHANGED <<size, by, step>>

Next ==
  \E r \in Region :
    \/ Join(r)
    \/ \E s \in 0..Last : Release(r, s)
    \/ \E i \in Member : Start(r, i) \/ Arrive(r, i)
    \/ \E n \in Member, m \in (Region \X Member) \cup {Initial} : Fork(m, r, n)

Spec == Init /\ [][Next]_vars
===============================================================================
