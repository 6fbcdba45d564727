-------------------------- MODULE TaskgraphLoopProofs --------------------------
(***************************************************************************)
(* For any trip counts, any unroll and any number of loops: provided all   *)
(* loops over the graph have the same unroll, an exact loop issues exactly *)
(* the iterations asked for, and the other one overshoots by less than an  *)
(* instance.                                                               *)
(*                                                                         *)
(* Both rest on an instance issuing as many iterations as the loop adds to *)
(* its count (CountInv), which needs the assumption.  That the exact loop  *)
(* does not overshoot also needs its count to be a multiple of unroll, as  *)
(* `whole` is: a count below `whole` is then an instance or more below it. *)
(***************************************************************************)
EXTENDS TaskgraphLoop, TLAPS

\* A graph holds what the loop adds to its count.
CountInv ==
  /\ ran = done
  /\ rc > 0 => graph = loop.unroll /\ calls > 0
  /\ pc # "idle" => calls > 0

\* The count is that of whole instances.
Instances == \E i \in Nat : done = i * loop.unroll

\* How far the loop can be.
LimitInv ==
  /\ pc = "loop" => Instances
  /\ pc = "loop" /\ loop.exact => done <= Limit
  /\ pc = "loop" /\ ~loop.exact => done < loop.trips + loop.unroll
  /\ pc = "rest" => loop.exact /\ done <= loop.trips

IInv == TypeOK /\ CountInv /\ LimitInv /\ ExactTrips /\ Overshoot

-------------------------------------------------------------------------------
(* Arithmetic.                                                             *)

\* Two multiples of u are u apart.
LEMMA MultiplesApart ==
  ASSUME NEW i \in Nat, NEW q \in Nat, NEW u \in Nat \ {0}, i * u < q * u
  PROVE  i * u + u <= q * u
<1>1. i < q
  <2> SUFFICES ASSUME q <= i PROVE FALSE
    OBVIOUS
  <2>1. PICK d \in Nat : i = q + d
    <3>1. i - q \in Nat /\ i = q + (i - q)
      OBVIOUS
    <3> QED BY <3>1
  <2>2. i * u = q * u + d * u /\ d * u \in Nat /\ q * u \in Nat
    BY <2>1
  <2> QED BY <2>2
<1>2. PICK d \in Nat : q = i + 1 + d
  <2>1. q - i - 1 \in Nat /\ q = i + 1 + (q - i - 1)
    BY <1>1
  <2> QED BY <2>1
<1>3. q * u = i * u + u + d * u /\ d * u \in Nat /\ i * u \in Nat
  BY <1>2
<1> QED BY <1>3

\* The whole instances of a loop do not overshoot it.
LEMMA WholeAtMost ==
  ASSUME NEW n \in Nat, NEW u \in Nat \ {0}
  PROVE  /\ n \div u \in Nat /\ (n \div u) * u \in Nat
         /\ (n \div u) * u <= n
OBVIOUS

LEMMA MultipleMod ==
  ASSUME NEW n \in Nat, NEW u \in Nat \ {0}
  PROVE  (n * u) % u = 0
OBVIOUS

LEMMA NextInstance ==
  ASSUME NEW n \in Nat, NEW u \in Nat \ {0}
  PROVE  n * u + u = (n + 1) * u
OBVIOUS

-------------------------------------------------------------------------------
(* The invariant.                                                          *)

LEMMA LimitNat == TypeOK => Limit \in Nat /\ (loop.exact => Limit <= loop.trips)
BY WholeAtMost DEF TypeOK, Limit

\* Below the limit of an exact loop there is room for a whole instance.
LEMMA RoomForInstance ==
  ASSUME TypeOK, Instances, loop.exact, done < Limit
  PROVE  done + loop.unroll <= Limit
<1>1. PICK i \in Nat : done = i * loop.unroll
  BY DEF Instances
<1> DEFINE q == loop.trips \div loop.unroll
<1>2. loop.trips \in Nat /\ loop.unroll \in Nat \ {0}
  BY DEF TypeOK
<1>3. q \in Nat
  BY <1>2, WholeAtMost
<1>4. Limit = q * loop.unroll
  BY DEF Limit
<1> HIDE DEF q
<1> QED
  BY <1>1, <1>2, <1>3, <1>4, MultiplesApart

\* An instance keeps the count whole and, in an exact loop, within its limit.
LEMMA InstanceStep ==
  ASSUME IInv, OneUnroll, Record \/ Replay
  PROVE  IInv'
<1>1. TypeOK'
  BY DEF IInv, TypeOK, Record, Replay
<1>2. CountInv'
  BY DEF IInv, CountInv, LimitInv, TypeOK, Record, Replay, ExactTrips
<1>3. Instances'
  <2>1. PICK i \in Nat : done = i * loop.unroll
    BY DEF IInv, LimitInv, Instances, Record, Replay
  <2>2. done' = (i + 1) * loop.unroll /\ loop' = loop
    BY <2>1, NextInstance DEF IInv, TypeOK, Record, Replay
  <2> QED BY <2>2 DEF Instances
<1>4. loop.exact => done' <= Limit'
  BY RoomForInstance DEF IInv, LimitInv, Record, Replay, Limit
<1>5. ~loop.exact => done' < loop.trips + loop.unroll
  BY DEF IInv, TypeOK, Record, Replay, Limit
<1> QED
  BY <1>1, <1>2, <1>3, <1>4, <1>5
     DEF IInv, LimitInv, ExactTrips, Overshoot, Record, Replay

LEMMA InitInv == Init => IInv
BY DEF Init, IInv, TypeOK, CountInv, LimitInv, ExactTrips, Overshoot

LEMMA NextInv ==
  ASSUME IInv, OneUnroll, [Next]_vars
  PROVE  IInv'
<1>1. ASSUME NEW n \in 0..MaxTrips, NEW u \in 0..MaxUnroll, NEW e \in BOOLEAN, Start(n, u, e)
      PROVE  IInv'
  <2>1. AtLeastOne(u) \in Nat \ {0} /\ n \in Nat
    BY BoundAssumption DEF AtLeastOne
  <2>2. TypeOK' /\ CountInv'
    BY <1>1, <2>1 DEF IInv, TypeOK, CountInv, Start
  <2>3. Instances'
    BY <1>1, <2>1 DEF Start, Instances
  <2>4. Limit' \in Nat
    BY <2>2, <1>1, <2>1, WholeAtMost DEF Start, Limit
  <2> QED
    BY <1>1, <2>1, <2>2, <2>3, <2>4 DEF IInv, LimitInv, ExactTrips, Overshoot, Start
<1>2. CASE Record \/ Replay
  BY <1>2, InstanceStep
<1>3. CASE LoopEnds
  <2>1. TypeOK' /\ CountInv' /\ Limit \in Nat /\ (loop.exact => Limit <= loop.trips)
    BY <1>3, LimitNat DEF IInv, TypeOK, CountInv, LoopEnds
  <2>2. LimitInv'
    BY <1>3, <2>1 DEF IInv, TypeOK, LimitInv, LoopEnds
  <2>3. done % loop.unroll = 0
    BY <1>3, MultipleMod DEF IInv, TypeOK, LimitInv, Instances, LoopEnds
  <2>4. ExactTrips' /\ Overshoot'
    BY <1>3, <2>1, <2>3
       DEF IInv, TypeOK, CountInv, LimitInv, LoopEnds, ExactTrips, Overshoot, Limit
  <2> QED BY <2>1, <2>2, <2>4 DEF IInv
<1>4. CASE Plain
  BY <1>4 DEF IInv, TypeOK, CountInv, LimitInv, Plain, ExactTrips, Overshoot
<1>5. CASE RestEnds
  BY <1>5 DEF IInv, TypeOK, CountInv, LimitInv, RestEnds, ExactTrips, Overshoot
<1>6. CASE UNCHANGED vars
  BY <1>6 DEF vars, IInv, TypeOK, CountInv, LimitInv, Instances, Limit, ExactTrips, Overshoot
<1> QED
  BY <1>1, <1>2, <1>3, <1>4, <1>5, <1>6 DEF Next, Finished

\* IInv holds of every reachable state, with one unroll for the graph.
LEMMA Invariance == ASSUME OneUnroll PROVE Spec => []IInv
<1>1. IInv /\ [Next]_vars => IInv'
  BY NextInv
<1> QED
  BY InitInv, <1>1, PTL DEF Spec

\* With one unroll for the graph, an exact loop issues exactly the iterations it
\* is asked for, recorded by it or long before, for every trip count and unroll.
THEOREM ExactLoop == ASSUME OneUnroll PROVE Spec => []ExactTrips
<1>1. IInv => ExactTrips
  BY DEF IInv
<1> QED
  BY Invariance, <1>1, PTL

\* With one unroll for the graph, the other loop issues at least the iterations
\* it is asked for, and less than an instance too many.
THEOREM BoundedOvershoot == ASSUME OneUnroll PROVE Spec => []Overshoot
<1>1. IInv => Overshoot
  BY DEF IInv
<1> QED
  BY Invariance, <1>1, PTL

\* The variables of the loop keep their types, whatever the unrolls.
THEOREM LoopTypes == Spec => []TypeOK
<1>1. Init => TypeOK
  BY DEF Init, TypeOK
<1>2. TypeOK /\ [Next]_vars => TypeOK'
  <2> SUFFICES ASSUME TypeOK, [Next]_vars PROVE TypeOK'
    OBVIOUS
  <2>1. ASSUME NEW n \in 0..MaxTrips, NEW u \in 0..MaxUnroll, NEW e \in BOOLEAN, Start(n, u, e)
        PROVE  TypeOK'
    <3>1. AtLeastOne(u) \in Nat \ {0} /\ n \in Nat
      BY BoundAssumption DEF AtLeastOne
    <3> QED
      BY <2>1, <3>1 DEF TypeOK, Start
  <2>2. CASE Record \/ Replay \/ LoopEnds \/ Plain \/ RestEnds
    BY <2>2 DEF TypeOK, Record, Replay, LoopEnds, Plain, RestEnds
  <2>3. CASE UNCHANGED vars
    BY <2>3 DEF TypeOK, vars
  <2> QED
    BY <2>1, <2>2, <2>3 DEF Next, Finished
<1> QED
  BY <1>1, <1>2, PTL DEF Spec
===============================================================================
