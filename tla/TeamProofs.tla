------------------------------- MODULE TeamProofs -------------------------------
(***************************************************************************)
(* Team for any clauses, limits, sizes of teams, numbers of barriers and   *)
(* regions and depth of nesting: every variable keeps its type, no member  *)
(* of a team reads an argument block that has been freed (ArgsLive), every *)
(* region is of the size its own clause asks for (ClauseOfItsOwn), and the *)
(* cache of teams suffices for a program with no more thread counts than   *)
(* it has places (TeamsFit).  And a Team behaves as ForkJoin promises.     *)
(*                                                                         *)
(* A worker reads its block through the arguments of its team, whenever it *)
(* is scheduled after the dispatch; what keeps the block from being freed  *)
(* before that, or from being another region's, is the barrier.  As long   *)
(* as a worker has not taken the region up, the initial thread is in that  *)
(* region and has passed none of its barriers (DispatchInv), so that it    *)
(* cannot have reached the join.                                           *)
(***************************************************************************)
EXTENDS Team, SequenceTheorems, FiniteSetTheorems, TLAPS

Bottom(t) == frames[t][1].region

\* Workers are parked between regions, the initial thread outside of them.
PcInv ==
  /\ \A w \in Worker : pc[w] # "outside" /\ (pc[w] = "parked" <=> ~Inside(w))
  /\ pc[InitialThread] # "parked"
  /\ pc[InitialThread] = "outside" => ~Inside(InitialThread)
  /\ pc[InitialThread] \in {"body", "barrier", "ending"} => Inside(InitialThread)

\* A thread has passed every barrier of a region exactly when it leaves it.
PassedInv ==
  \A t \in Thread : \A i \in DOMAIN frames[t] :
    IF i = Len(frames[t]) /\ pc[t] = "ending"
      THEN frames[t][i].passed = Barriers + 1
      ELSE frames[t][i].passed <= Barriers

\* The regions a thread is in: a cached team's, then nested ones it forked
\* itself, each younger than the one around it.
FrameInv ==
  \A t \in Thread : \A i \in DOMAIN frames[t] :
    LET r == frames[t][i].region
    IN  /\ r \in live
        /\ IF i = 1
             THEN /\ regions[r].by = InitialThread /\ regions[r].team \in Keys
                  /\ t \in Worker => regions[r].team = t.team
             ELSE regions[r].by = t /\ regions[r].team = Nested
        /\ \A j \in DOMAIN frames[t] : j < i => frames[t][j].region < r

\* A block is allocated while the thread that forked the region is in it.
LiveInv ==
  \A r \in live :
    /\ r \in DOMAIN regions
    /\ \E i \in DOMAIN frames[regions[r].by] : frames[regions[r].by][i].region = r

\* A worker is in no other cached team's region than the initial thread.
WorkerInv ==
  \A w \in Worker :
    Inside(w) => Inside(InitialThread) /\ Bottom(w) = Bottom(InitialThread)

\* As long as a worker has not taken up a region, the initial thread is in it
\* and before its first barrier.
DispatchInv ==
  \A k \in Keys :
    /\ \A n \in todo[k] : n \in 1..(Size(k) - 1) /\ pc[[team |-> k, tid |-> n]] = "parked"
    /\ todo[k] # {} =>
         /\ Inside(InitialThread) /\ Bottom(InitialThread) = args[k]
         /\ frames[InitialThread][1].passed = 0
         /\ regions[args[k]].team = k

\* What is pushed is reset when a region of a cached team is joined.
PushedInv == pc[InitialThread] = "outside" => pushed[InitialThread] = 0

Pushing == {t \in Thread : pc[t] = "pushed"}

\* A thread that has pushed a clause may yet fork its region.
CountInv == Len(regions) + Cardinality(Pushing) <= MaxRegions

IInv ==
  /\ TypeOK /\ PcInv /\ PassedInv /\ FrameInv /\ LiveInv /\ WorkerInv /\ DispatchInv
  /\ PushedInv /\ ClauseOfItsOwn /\ CountInv

-------------------------------------------------------------------------------
(* The constants.                                                          *)

\* A key of the cache is the size a team asks for, never above the limit.
LEMMA KeyFacts ==
  /\ Keys \subseteq 0..OMP_THREAD_LIMIT /\ IsFiniteSet(Keys) /\ Nested \notin Keys
  /\ \A k \in Keys : Size(k) \in Nat \ {0} /\ Size(k) <= DefaultSize + OMP_THREAD_LIMIT
<1>1. ASSUME NEW n \in NumThreads \cup {0}
      PROVE  TeamKey(Clamp(n)) \in 0..OMP_THREAD_LIMIT
  BY NumThreadsAssumption, EnvAssumption DEF TeamKey, Clamp
<1>2. Keys \subseteq 0..OMP_THREAD_LIMIT
  BY <1>1 DEF Keys
<1>3. IsFiniteSet(Keys)
  <2>1. IsFiniteSet(0..OMP_THREAD_LIMIT)
    BY FS_Interval, EnvAssumption
  <2> QED
    BY <1>2, <2>1, FS_Subset
<1>4. Nested \notin Keys
  BY <1>2 DEF Nested
<1>5. ASSUME NEW k \in Keys
      PROVE  Size(k) \in Nat \ {0} /\ Size(k) <= DefaultSize + OMP_THREAD_LIMIT
  BY <1>2, EnvAssumption DEF Size
<1> QED
  BY <1>2, <1>3, <1>4, <1>5

\* The workers of a team are numbered from 1.
LEMMA WorkerFacts ==
  /\ \A k \in Keys : \A n \in 1..(Size(k) - 1) :
       /\ [team |-> k, tid |-> n] \in Worker
       /\ [team |-> k, tid |-> n].team = k /\ [team |-> k, tid |-> n].tid = n
  /\ \A w \in Worker :
       /\ w.team \in Keys /\ w.tid \in 1..(Size(w.team) - 1)
       /\ w = [team |-> w.team, tid |-> w.tid]
<1>1. ASSUME NEW k \in Keys, NEW n \in 1..(Size(k) - 1)
      PROVE  [team |-> k, tid |-> n] \in Worker
  <2>1. Size(k) \in Nat /\ Size(k) <= DefaultSize + OMP_THREAD_LIMIT
    BY KeyFacts
  <2>2. n \in 1..DefaultSize + OMP_THREAD_LIMIT /\ n < Size(k)
    BY <2>1, EnvAssumption
  <2> QED
    BY <2>2 DEF Worker
<1>2. ASSUME NEW w \in Worker
      PROVE  /\ w.team \in Keys /\ w.tid \in 1..(Size(w.team) - 1)
             /\ w = [team |-> w.team, tid |-> w.tid]
  <2>1. /\ w \in [team : Keys, tid : 1..DefaultSize + OMP_THREAD_LIMIT]
        /\ w.tid < Size(w.team)
    BY DEF Worker
  <2>2. w.team \in Keys /\ w.tid \in Nat \ {0} /\ w = [team |-> w.team, tid |-> w.tid]
    BY <2>1
  <2>3. Size(w.team) \in Nat
    BY <2>2, KeyFacts
  <2> QED
    BY <2>1, <2>2, <2>3
<1> QED
  BY <1>1, <1>2

LEMMA ThreadsFinite == IsFiniteSet(Thread)
<1> DEFINE P == Keys \X (1..DefaultSize + OMP_THREAD_LIMIT)
           f == [p \in P |-> [team |-> p[1], tid |-> p[2]]]
           R == [team : Keys, tid : 1..DefaultSize + OMP_THREAD_LIMIT]
<1>1. IsFiniteSet(P)
  <2>1. IsFiniteSet(1..DefaultSize + OMP_THREAD_LIMIT)
    BY EnvAssumption, FS_Interval
  <2> QED
    BY <2>1, KeyFacts, FS_Product
<1>2. f \in Surjection(P, R)
  <2>1. f \in [P -> R]
    OBVIOUS
  <2>2. ASSUME NEW w \in R
        PROVE  \E p \in P : f[p] = w
    <3>1. <<w.team, w.tid>> \in P /\ f[<<w.team, w.tid>>] = w
      OBVIOUS
    <3> QED
      BY <3>1
  <2> QED
    BY <2>1, <2>2 DEF Surjection
<1>3. IsFiniteSet(R)
  BY <1>1, <1>2, FS_Surjection
<1>4. IsFiniteSet(Worker)
  BY <1>3, FS_Subset DEF Worker
<1> QED
  BY <1>4, FS_AddElement DEF Thread

-------------------------------------------------------------------------------
(* Stacks of frames.                                                       *)

LEMMA StackShape ==
  ASSUME NEW s \in Seq(Frame)
  PROVE  /\ Len(s) \in Nat /\ DOMAIN s = 1..Len(s)
         /\ s # <<>> <=> Len(s) # 0
         /\ \A i \in 1..Len(s) : s[i] \in Frame
  BY LenProperties, ElementOfSeq, EmptySeq

LEMMA StackPush ==
  ASSUME NEW s \in Seq(Frame), NEW e \in Frame
  PROVE  /\ Append(s, e) \in Seq(Frame)
         /\ Len(Append(s, e)) = Len(s) + 1
         /\ \A i \in 1..Len(s) : Append(s, e)[i] = s[i]
         /\ Append(s, e)[Len(s) + 1] = e
  BY AppendProperties

LEMMA StackPop ==
  ASSUME NEW s \in Seq(Frame), s # <<>>
  PROVE  /\ SubSeq(s, 1, Len(s) - 1) \in Seq(Frame)
         /\ Len(SubSeq(s, 1, Len(s) - 1)) = Len(s) - 1
         /\ \A i \in 1..(Len(s) - 1) : SubSeq(s, 1, Len(s) - 1)[i] = s[i]
<1>1. Len(s) \in Nat \ {0} /\ \A i \in 1..(Len(s) - 1) : s[i] \in Frame
  BY StackShape
<1> DEFINE m == 1
           n == Len(s) - 1
<1>2. m \in Int /\ n \in Int /\ \A i \in m..n : s[i] \in Frame
  BY <1>1
<1> HIDE DEF m, n
<1>3. /\ SubSeq(s, m, n) \in Seq(Frame)
      /\ Len(SubSeq(s, m, n)) = IF m <= n THEN n - m + 1 ELSE 0
      /\ \A i \in 1..(n - m + 1) : SubSeq(s, m, n)[i] = s[m + i - 1]
  BY <1>2, SubSeqProperties
<1>4. n \in Nat /\ m = 1
  <2>1. Len(s) \in Nat \ {0}
    BY <1>1
  <2> QED
    BY <2>1 DEF m, n
<1>5. /\ Len(SubSeq(s, m, n)) = n
      /\ \A i \in 1..n : SubSeq(s, m, n)[i] = s[i]
  <2>1. n - m + 1 = n /\ (~(m <= n) => n = 0) /\ \A i \in 1..n : m + i - 1 = i
    BY <1>4
  <2> QED
    BY <1>3, <2>1
<1> QED
  BY <1>3, <1>5 DEF m, n

LEMMA StackPass ==
  ASSUME NEW s \in Seq(Frame), s # <<>>, s[Len(s)].passed <= Barriers
  PROVE  LET q == [s EXCEPT ![Len(s)].passed = @ + 1]
         IN  /\ q \in Seq(Frame) /\ Len(q) = Len(s)
             /\ \A i \in 1..Len(s) : q[i].region = s[i].region
             /\ \A i \in 1..(Len(s) - 1) : q[i] = s[i]
             /\ q[Len(s)].passed = s[Len(s)].passed + 1
<1>1. Len(s) \in Nat \ {0} /\ s[Len(s)] \in Frame
  BY StackShape
<1> DEFINE e == [s[Len(s)] EXCEPT !.passed = @ + 1]
<1>2. e \in Frame /\ e.region = s[Len(s)].region /\ e.passed = s[Len(s)].passed + 1
  BY <1>1, BoundAssumption DEF Frame
<1>3. [s EXCEPT ![Len(s)].passed = @ + 1] = [s EXCEPT ![Len(s)] = e]
  OBVIOUS
<1> HIDE DEF e
<1> QED
  BY <1>1, <1>2, <1>3, ExceptSeq

-------------------------------------------------------------------------------
(* What the invariant says of one state.                                   *)

RegionRecord == [by : Thread, outer : 0..MaxRegions, team : Keys \cup {Nested}, clause : Nat]

LEMMA ThreadIs ==
  /\ InitialThread \in Thread /\ Worker \subseteq Thread /\ InitialThread \notin Worker
  /\ \A t \in Thread : t # InitialThread => t \in Worker
  BY ThreadAssumption DEF Thread

LEMMA RegionsShape ==
  ASSUME TypeOK
  PROVE  /\ Len(regions) \in Nat /\ DOMAIN regions = 1..Len(regions)
         /\ \A r \in 1..Len(regions) :
              /\ regions[r] \in RegionRecord
              /\ regions[r].by \in Thread /\ regions[r].team \in Keys \cup {Nested}
<1>1. regions \in Seq(RegionRecord)
  BY DEF TypeOK, RegionRecord
<1>2. /\ Len(regions) \in Nat /\ DOMAIN regions = 1..Len(regions)
      /\ \A r \in 1..Len(regions) : regions[r] \in RegionRecord
  BY <1>1, LenProperties, ElementOfSeq
<1> QED
  BY <1>2 DEF RegionRecord

\* The region a thread is in is allocated, and numbered.
LEMMA FrameRegion ==
  ASSUME TypeOK, FrameInv, LiveInv, NEW t \in Thread, NEW i \in DOMAIN frames[t]
  PROVE  /\ frames[t][i].region \in live
         /\ frames[t][i].region \in 1..Len(regions) /\ frames[t][i].region \in Region
<1>1. frames[t][i].region \in live
  BY DEF FrameInv
<1>2. frames[t][i].region \in DOMAIN regions
  BY <1>1 DEF LiveInv
<1> QED
  BY <1>1, <1>2, RegionsShape DEF TypeOK

\* The threads of a team.
LEMMA MemberFacts ==
  ASSUME TypeOK, NEW r \in 1..Len(regions)
  PROVE  /\ Members(r) \subseteq Thread /\ regions[r].by \in Members(r)
         /\ regions[r].team = Nested => Members(r) = {regions[r].by}
         /\ \A w \in Worker : regions[r].team = w.team => w \in Members(r)
<1> DEFINE k == regions[r].team
<1>1. regions[r].by \in Thread /\ k \in Keys \cup {Nested}
  BY RegionsShape
<1>2. SizeOf(r) \in Nat \ {0} /\ (k \in Keys => SizeOf(r) = Size(k)) /\ (k = Nested => SizeOf(r) = 1)
  <2>1. SizeOf(r) = IF k = Nested THEN 1 ELSE Size(k)
    BY DEF SizeOf
  <2>2. (k \in Keys => k # Nested) /\ (k \in Keys => Size(k) \in Nat \ {0})
    BY KeyFacts
  <2> QED
    BY <2>1, <2>2, <1>1
<1>3. MemberOf(r, 1) = regions[r].by /\ 1 \in 1..SizeOf(r)
  BY <1>2 DEF MemberOf
<1>4. ASSUME NEW i \in 1..SizeOf(r), i # 1
      PROVE  /\ k \in Keys /\ i - 1 \in 1..(Size(k) - 1)
             /\ MemberOf(r, i) = [team |-> k, tid |-> i - 1] /\ MemberOf(r, i) \in Worker
  <2>1. k \in Keys /\ i - 1 \in 1..(Size(k) - 1)
    BY <1>1, <1>2, <1>4
  <2>2. MemberOf(r, i) = [team |-> k, tid |-> i - 1]
    BY <1>4 DEF MemberOf
  <2> QED
    BY <2>1, <2>2, WorkerFacts
<1>5. Members(r) \subseteq Thread /\ regions[r].by \in Members(r)
  BY <1>1, <1>3, <1>4, ThreadIs DEF Members
<1>6. k = Nested => Members(r) = {regions[r].by}
  BY <1>2, <1>3 DEF Members
<1>7. ASSUME NEW w \in Worker, k = w.team
      PROVE  w \in Members(r)
  <2>1. w.team \in Keys /\ w.tid \in 1..(Size(k) - 1) /\ w = [team |-> k, tid |-> w.tid]
    BY <1>7, WorkerFacts
  <2>2. w.tid + 1 \in 1..SizeOf(r) /\ w.tid + 1 # 1 /\ (w.tid + 1) - 1 = w.tid
    BY <2>1, <1>2, <1>7, KeyFacts
  <2>3. MemberOf(r, w.tid + 1) = w
    BY <2>1, <2>2, <1>4
  <2> QED
    BY <2>2, <2>3 DEF Members
<1> QED
  BY <1>5, <1>6, <1>7

\* Only the initial thread forks from outside every region.
LEMMA OutsideIsInitial ==
  ASSUME TypeOK, PcInv, NEW t \in Thread, Forks(t), ~Inside(t)
  PROVE  t = InitialThread /\ pc[t] \in {"outside", "pushed"}
  BY ThreadIs DEF PcInv, Forks, Encounters

\* There is room for the region a thread may fork.
LEMMA RoomToFork ==
  ASSUME TypeOK, CountInv, NEW t \in Thread, Forks(t)
  PROVE  /\ Len(regions) + 1 <= MaxRegions
         /\ Len(regions) + 1 + Cardinality(Pushing \ {t}) <= MaxRegions
<1>1. IsFiniteSet(Pushing) /\ Cardinality(Pushing) \in Nat
  BY ThreadsFinite, FS_Subset, FS_CardinalityType DEF Pushing
<1>2. IsFiniteSet(Pushing \ {t}) /\ Cardinality(Pushing \ {t}) \in Nat
  BY <1>1, FS_RemoveElement, FS_CardinalityType
<1>3. Cardinality(Pushing \ {t}) = IF t \in Pushing THEN Cardinality(Pushing) - 1 ELSE Cardinality(Pushing)
  BY <1>1, FS_RemoveElement
<1>4. Len(regions) \in Nat
  BY RegionsShape
<1>5. CASE t \in Pushing
  BY <1>1, <1>2, <1>3, <1>4, <1>5, BoundAssumption DEF CountInv
<1>6. CASE t \notin Pushing
  <2>1. Len(regions) + Cardinality(Pushing) < MaxRegions
    BY <1>6 DEF Forks, Encounters, Pushing
  <2> QED
    BY <2>1, <1>1, <1>3, <1>4, <1>6, BoundAssumption
<1> QED
  BY <1>5, <1>6

-------------------------------------------------------------------------------
(* Entering a region.                                                      *)

LEMMA EnterFacts ==
  ASSUME IInv, NEW t \in Thread, NEW key \in Keys \cup {Nested}, Forks(t), Enter(t, key)
  PROVE  LET r == Len(regions) + 1
         IN  /\ r \in Region /\ r \notin live
             /\ regions' \in Seq(RegionRecord) /\ DOMAIN regions' = 1..r /\ Len(regions') = r
             /\ \A q \in 1..Len(regions) : regions'[q] = regions[q]
             /\ regions'[r].by = t /\ regions'[r].team = key
             /\ regions'[r].clause = IF pc[t] = "pushed" THEN pushed[t] ELSE 0
             /\ live' = live \cup {r}
             /\ frames' \in [Thread -> Seq(Frame)]
             /\ Len(frames'[t]) = Len(frames[t]) + 1
             /\ \A i \in 1..Len(frames[t]) : frames'[t][i] = frames[t][i]
             /\ frames'[t][Len(frames[t]) + 1] = [region |-> r, passed |-> 0]
             /\ \A u \in Thread : u # t => frames'[u] = frames[u] /\ pc'[u] = pc[u]
             /\ pc'[t] = "body" /\ pc' \in [Thread -> {"outside", "parked", "pushed", "body", "barrier", "ending"}]
             /\ CountInv'
<1> DEFINE r == Len(regions) + 1
           o == IF Inside(t) THEN Top(t) ELSE 0
           c == IF pc[t] = "pushed" THEN pushed[t] ELSE 0
           rec == [by |-> t, outer |-> o, team |-> key, clause |-> c]
           e == [region |-> r, passed |-> 0]
<1>1. TypeOK /\ CountInv /\ FrameInv /\ LiveInv
  BY DEF IInv
<1>2. Len(regions) \in Nat /\ r \in Region /\ r \in Nat
  <2>1. Len(regions) \in Nat /\ r <= MaxRegions
    BY <1>1, RegionsShape, RoomToFork
  <2> QED
    BY <2>1, BoundAssumption DEF Region
<1>3. r \notin live
  BY <1>1, <1>2, RegionsShape DEF LiveInv
<1>4. o \in 0..MaxRegions /\ c \in Nat
  <2>1. frames[t] \in Seq(Frame) /\ pushed[t] \in Nat
    BY <1>1 DEF TypeOK
  <2>2. ASSUME Inside(t)
        PROVE  Top(t) \in Region
    <3>1. Len(frames[t]) \in DOMAIN frames[t]
      BY <2>1, <2>2, StackShape DEF Inside
    <3> QED
      BY <1>1, <3>1, FrameRegion DEF Top
  <2> QED
    BY <2>1, <2>2, BoundAssumption DEF Region
<1>5. rec \in RegionRecord
  BY <1>4 DEF RegionRecord
<1>6. /\ regions' = Append(regions, rec) /\ live' = live \cup {r}
      /\ frames' = [frames EXCEPT ![t] = Append(@, e)]
      /\ pc' = [pc EXCEPT ![t] = "body"]
  BY DEF Enter
<1>7. rec.by = t /\ rec.team = key /\ rec.clause = c /\ e \in Frame
  BY <1>2, BoundAssumption DEF Frame
<1> HIDE DEF rec, e
<1>8. /\ regions' \in Seq(RegionRecord) /\ DOMAIN regions' = 1..r /\ Len(regions') = r
      /\ \A q \in 1..Len(regions) : regions'[q] = regions[q]
      /\ regions'[r] = rec
  <2>1. regions \in Seq(RegionRecord)
    BY <1>1 DEF TypeOK, RegionRecord
  <2> QED
    BY <2>1, <1>5, <1>6, AppendProperties, LenProperties
<1>9. /\ frames' \in [Thread -> Seq(Frame)]
      /\ Len(frames'[t]) = Len(frames[t]) + 1
      /\ \A i \in 1..Len(frames[t]) : frames'[t][i] = frames[t][i]
      /\ frames'[t][Len(frames[t]) + 1] = e
      /\ \A u \in Thread : u # t => frames'[u] = frames[u]
  <2>1. frames \in [Thread -> Seq(Frame)] /\ frames[t] \in Seq(Frame)
    BY <1>1 DEF TypeOK
  <2>2. Append(frames[t], e) \in Seq(Frame) /\ frames'[t] = Append(frames[t], e)
    BY <2>1, <1>6, <1>7, StackPush
  <2> QED
    BY <2>1, <2>2, <1>6, <1>7, StackPush
<1>10. /\ pc'[t] = "body" /\ \A u \in Thread : u # t => pc'[u] = pc[u]
       /\ pc' \in [Thread -> {"outside", "parked", "pushed", "body", "barrier", "ending"}]
  BY <1>1, <1>6 DEF TypeOK
<1>11. CountInv'
  <2>1. Pushing' = Pushing \ {t}
    BY <1>10 DEF Pushing
  <2> QED
    BY <1>1, <1>8, <2>1, RoomToFork DEF CountInv
<1> QED
  BY <1>2, <1>3, <1>6, <1>7, <1>8, <1>9, <1>10, <1>11 DEF e

\* Its first frame is a cached team's, the others are its own nested ones.
LEMMA EnterKeepsStacks ==
  ASSUME IInv, NEW t \in Thread, NEW key \in Keys \cup {Nested}, Forks(t), Enter(t, key),
         IF Inside(t) THEN key = Nested ELSE key \in Keys /\ t = InitialThread
  PROVE  PcInv' /\ PassedInv' /\ FrameInv' /\ LiveInv'
<1> DEFINE r == Len(regions) + 1
<1>1. TypeOK /\ PcInv /\ PassedInv /\ FrameInv /\ LiveInv
  BY DEF IInv
<1>2. /\ r \notin live
      /\ regions' \in Seq(RegionRecord) /\ DOMAIN regions' = 1..r
      /\ \A q \in 1..Len(regions) : regions'[q] = regions[q]
      /\ regions'[r].by = t /\ regions'[r].team = key
      /\ live' = live \cup {r}
      /\ frames' \in [Thread -> Seq(Frame)]
      /\ Len(frames'[t]) = Len(frames[t]) + 1
      /\ \A i \in 1..Len(frames[t]) : frames'[t][i] = frames[t][i]
      /\ frames'[t][Len(frames[t]) + 1] = [region |-> r, passed |-> 0]
      /\ \A u \in Thread : u # t => frames'[u] = frames[u] /\ pc'[u] = pc[u]
      /\ pc'[t] = "body"
  BY EnterFacts
<1>3. \A u \in Thread : /\ Len(frames[u]) \in Nat /\ DOMAIN frames[u] = 1..Len(frames[u])
                        /\ Inside(u) <=> Len(frames[u]) # 0
                        /\ \A i \in DOMAIN frames[u] : frames[u][i].region \in live
                                                       /\ frames[u][i].region \in 1..Len(regions)
  BY <1>1, StackShape, FrameRegion DEF TypeOK, Inside
<1>4. \A u \in Thread : /\ DOMAIN frames'[u] = 1..Len(frames'[u])
                        /\ Inside(u)' <=> Len(frames'[u]) # 0
  BY <1>2, StackShape DEF Inside
<1>5. Len(regions) \in Nat /\ DOMAIN regions = 1..Len(regions)
  BY <1>1, RegionsShape
<1>6. pc[t] \in {"outside", "pushed", "body"}
  BY DEF Forks, Encounters
<1>7. /\ Inside(t)' /\ DOMAIN frames'[t] = 1..(Len(frames[t]) + 1)
      /\ \A u \in Thread : u # t => /\ Inside(u)' <=> Inside(u)
                                   /\ DOMAIN frames'[u] = DOMAIN frames[u]
  BY <1>2, <1>3, <1>4
<1>8. PcInv'
  BY <1>1, <1>2, <1>7, ThreadIs DEF PcInv
<1>9. PassedInv'
  <2> SUFFICES ASSUME NEW u \in Thread, NEW i \in DOMAIN frames'[u]
               PROVE  IF i = Len(frames'[u]) /\ pc'[u] = "ending"
                        THEN frames'[u][i].passed = Barriers + 1
                        ELSE frames'[u][i].passed <= Barriers
    BY DEF PassedInv
  <2>1. CASE u # t
    BY <1>1, <1>2, <1>7, <2>1 DEF PassedInv
  <2>2. CASE u = t /\ i \in 1..Len(frames[t])
    <3>1. frames[t][i].passed <= Barriers
      BY <1>1, <1>3, <1>6, <2>2 DEF PassedInv
    <3> QED
      BY <1>2, <2>2, <3>1
  <2>3. CASE u = t /\ i = Len(frames[t]) + 1
    <3>1. frames'[u][i].passed = 0
      BY <1>2, <2>3
    <3> QED
      BY <1>2, <2>3, <3>1, BoundAssumption
  <2> QED
    BY <1>3, <1>7, <2>1, <2>2, <2>3
<1>10. FrameInv'
  <2> SUFFICES ASSUME NEW u \in Thread, NEW i \in DOMAIN frames'[u]
               PROVE  LET q == frames'[u][i].region
                      IN  /\ q \in live'
                          /\ IF i = 1
                               THEN /\ regions'[q].by = InitialThread /\ regions'[q].team \in Keys
                                    /\ u \in Worker => regions'[q].team = u.team
                               ELSE regions'[q].by = u /\ regions'[q].team = Nested
                          /\ \A j \in DOMAIN frames'[u] : j < i => frames'[u][j].region < q
    BY DEF FrameInv
  <2>1. CASE i \in DOMAIN frames[u]
    <3>1. /\ frames'[u][i] = frames[u][i]
          /\ \A j \in DOMAIN frames'[u] : j < i => j \in DOMAIN frames[u] /\ frames'[u][j] = frames[u][j]
      <4>1. CASE u # t
        BY <1>2, <4>1
      <4>2. CASE u = t
        <5>1. i \in 1..Len(frames[t]) /\ frames'[t][i] = frames[t][i]
          BY <1>2, <1>3, <2>1, <4>2
        <5>2. ASSUME NEW j \in DOMAIN frames'[t], j < i
              PROVE  j \in 1..Len(frames[t]) /\ frames'[t][j] = frames[t][j]
          <6>1. j \in 1..(Len(frames[t]) + 1) /\ Len(frames[t]) \in Nat
            BY <1>3, <1>7
          <6>2. j \in 1..Len(frames[t])
            BY <5>1, <5>2, <6>1
          <6> QED
            BY <1>2, <6>2
        <5> QED
          BY <1>3, <4>2, <5>1, <5>2
      <4> QED
        BY <4>1, <4>2
    <3>2. LET q == frames[u][i].region
          IN  /\ q \in live /\ regions'[q] = regions[q]
              /\ IF i = 1
                   THEN /\ regions[q].by = InitialThread /\ regions[q].team \in Keys
                        /\ u \in Worker => regions[q].team = u.team
                   ELSE regions[q].by = u /\ regions[q].team = Nested
              /\ \A j \in DOMAIN frames[u] : j < i => frames[u][j].region < q
      BY <1>1, <1>2, <1>3, <2>1 DEF FrameInv
    <3> QED
      BY <1>2, <3>1, <3>2
  <2>2. CASE i \notin DOMAIN frames[u]
    <3>1. u = t /\ i = Len(frames[t]) + 1 /\ (i = 1 <=> ~Inside(t))
      BY <1>3, <1>7, <2>2
    <3>2. frames'[u][i].region = r
      BY <1>2, <3>1
    <3>3. ASSUME NEW j \in DOMAIN frames'[u], j < i
          PROVE  frames'[u][j].region < r
      <4>1. j \in 1..Len(frames[t])
        BY <1>3, <1>7, <3>1, <3>3
      <4>2. frames'[u][j].region \in 1..Len(regions)
        BY <1>2, <1>3, <3>1, <4>1
      <4> QED
        BY <1>5, <4>2
    <3> QED
      BY <1>2, <3>1, <3>2, <3>3, ThreadIs
  <2> QED
    BY <2>1, <2>2
<1>11. LiveInv'
  <2> SUFFICES ASSUME NEW q \in live'
               PROVE  /\ q \in DOMAIN regions'
                      /\ \E i \in DOMAIN frames'[regions'[q].by] : frames'[regions'[q].by][i].region = q
    BY DEF LiveInv
  <2>1. CASE q \in live
    <3>1. /\ q \in 1..Len(regions) /\ regions[q].by \in Thread
          /\ \E i \in DOMAIN frames[regions[q].by] : frames[regions[q].by][i].region = q
      BY <1>1, <1>5, <2>1, RegionsShape DEF LiveInv
    <3>2. PICK i \in DOMAIN frames[regions[q].by] : frames[regions[q].by][i].region = q
      BY <3>1
    <3>3. q \in DOMAIN regions' /\ regions'[q].by = regions[q].by
      BY <1>2, <1>5, <3>1
    <3>4. i \in DOMAIN frames'[regions[q].by] /\ frames'[regions[q].by][i].region = q
      <4>1. CASE regions[q].by # t
        BY <1>2, <3>1, <3>2, <4>1
      <4>2. CASE regions[q].by = t
        <5>1. i \in 1..Len(frames[t]) /\ Len(frames[t]) \in Nat
          BY <1>3, <3>2, <4>2
        <5>2. i \in DOMAIN frames'[t] /\ frames'[t][i] = frames[t][i]
          BY <1>2, <1>7, <5>1
        <5> QED
          BY <3>2, <4>2, <5>2
      <4> QED
        BY <4>1, <4>2
    <3> QED
      BY <3>3, <3>4
  <2>2. CASE q = r
    <3>1. Len(frames[t]) + 1 \in DOMAIN frames'[t] /\ r \in DOMAIN regions'
      BY <1>2, <1>3, <1>5, <1>7
    <3> QED
      BY <1>2, <2>2, <3>1
  <2> QED
    BY <1>2, <2>1, <2>2
<1> QED
  BY <1>8, <1>9, <1>10, <1>11

LEMMA ForkNestedInv ==
  ASSUME IInv, NEW t \in Thread, ForkNested(t)
  PROVE  IInv'
<1>1. /\ TypeOK /\ PcInv /\ FrameInv /\ LiveInv /\ WorkerInv /\ DispatchInv
      /\ PushedInv /\ ClauseOfItsOwn
  BY DEF IInv
<1>2. /\ Forks(t) /\ Inside(t) /\ Enter(t, Nested)
      /\ UNCHANGED <<pushed, teams, args, todo, mode>>
  BY DEF ForkNested
<1> DEFINE r == Len(regions) + 1
<1>3. /\ r \in Region
      /\ regions' \in Seq(RegionRecord) /\ DOMAIN regions' = 1..r
      /\ \A q \in 1..Len(regions) : regions'[q] = regions[q]
      /\ regions'[r].team = Nested
      /\ live' = live \cup {r}
      /\ frames' \in [Thread -> Seq(Frame)]
      /\ Len(frames'[t]) = Len(frames[t]) + 1
      /\ \A i \in 1..Len(frames[t]) : frames'[t][i] = frames[t][i]
      /\ \A u \in Thread : u # t => frames'[u] = frames[u] /\ pc'[u] = pc[u]
      /\ pc'[t] = "body" /\ pc' \in [Thread -> {"outside", "parked", "pushed", "body", "barrier", "ending"}]
      /\ CountInv'
  BY <1>2, EnterFacts
<1>4. PcInv' /\ PassedInv' /\ FrameInv' /\ LiveInv'
  BY <1>2, EnterKeepsStacks
<1>5. \A u \in Thread : /\ Len(frames[u]) \in Nat /\ DOMAIN frames[u] = 1..Len(frames[u])
                        /\ Inside(u) <=> Len(frames[u]) # 0
                        /\ \A i \in DOMAIN frames[u] : frames[u][i].region \in 1..Len(regions)
  BY <1>1, StackShape, FrameRegion DEF TypeOK, Inside
<1>6. \A u \in Thread : Inside(u)' <=> Len(frames'[u]) # 0
  BY <1>3, StackShape DEF Inside
<1>7. Len(regions) \in Nat /\ DOMAIN regions = 1..Len(regions)
  BY <1>1, RegionsShape
<1>8. TypeOK'
  BY <1>1, <1>2, <1>3 DEF TypeOK, RegionRecord
<1>9. \A u \in Thread : /\ Inside(u)' <=> Inside(u)
                        /\ Inside(u) => /\ frames'[u][1] = frames[u][1] /\ Bottom(u)' = Bottom(u)
                                         /\ Bottom(u) \in 1..Len(regions)
  BY <1>2, <1>3, <1>5, <1>6 DEF Bottom
<1>10. WorkerInv'
  BY <1>1, <1>9, ThreadIs DEF WorkerInv
<1>11. DispatchInv'
  <2>1. ASSUME NEW k \in Keys, NEW n \in todo[k]
        PROVE  n \in 1..(Size(k) - 1) /\ pc'[[team |-> k, tid |-> n]] = "parked"
    <3>1. n \in 1..(Size(k) - 1) /\ pc[[team |-> k, tid |-> n]] = "parked"
      BY <1>1 DEF DispatchInv
    <3>2. [team |-> k, tid |-> n] \in Thread /\ [team |-> k, tid |-> n] # t
      BY <1>2, <3>1, WorkerFacts, ThreadIs DEF Forks, Encounters
    <3> QED
      BY <1>3, <3>1, <3>2
  <2>2. ASSUME NEW k \in Keys, todo[k] # {}
        PROVE  /\ Inside(InitialThread)' /\ Bottom(InitialThread)' = args[k]
               /\ frames'[InitialThread][1].passed = 0
               /\ regions'[args[k]].team = k
    <3>1. /\ Inside(InitialThread) /\ Bottom(InitialThread) = args[k]
          /\ frames[InitialThread][1].passed = 0 /\ regions[args[k]].team = k
      BY <1>1, <2>2 DEF DispatchInv
    <3>2. /\ frames'[InitialThread][1] = frames[InitialThread][1]
          /\ Inside(InitialThread)' /\ Bottom(InitialThread)' = Bottom(InitialThread)
          /\ Bottom(InitialThread) \in 1..Len(regions)
      BY <1>9, <3>1, ThreadIs
    <3> QED
      BY <1>3, <3>1, <3>2
  <2> QED
    BY <1>2, <2>1, <2>2 DEF DispatchInv
<1>12. PushedInv'
  BY <1>1, <1>2, <1>3, ThreadIs DEF PushedInv
<1>13. ClauseOfItsOwn'
  BY <1>1, <1>3, <1>7 DEF ClauseOfItsOwn
<1> QED
  BY <1>3, <1>4, <1>8, <1>10, <1>11, <1>12, <1>13 DEF IInv

\* The region of a cached team, old or new: nobody is in a region.
LEMMA ForkTopInv ==
  ASSUME IInv, NEW t \in Thread, NEW key \in Keys, Forks(t), ~Inside(t), key = TeamKey(pushed[t]),
         Enter(t, key), teams' \subseteq Keys,
         args' = [args EXCEPT ![key] = Len(regions) + 1],
         todo' = [todo EXCEPT ![key] = 1..(Size(key) - 1)],
         UNCHANGED <<pushed, mode>>
  PROVE  IInv'
<1> DEFINE r == Len(regions) + 1
<1>1. /\ TypeOK /\ PcInv /\ FrameInv /\ LiveInv /\ WorkerInv /\ DispatchInv
      /\ PushedInv /\ ClauseOfItsOwn
  BY DEF IInv
<1>2. t = InitialThread /\ pc[t] \in {"outside", "pushed"}
  BY <1>1, OutsideIsInitial
<1>3. /\ r \in Region
      /\ regions' \in Seq(RegionRecord) /\ DOMAIN regions' = 1..r
      /\ \A q \in 1..Len(regions) : regions'[q] = regions[q]
      /\ regions'[r].team = key
      /\ regions'[r].clause = IF pc[t] = "pushed" THEN pushed[t] ELSE 0
      /\ live' = live \cup {r}
      /\ frames' \in [Thread -> Seq(Frame)]
      /\ Len(frames'[t]) = Len(frames[t]) + 1
      /\ frames'[t][Len(frames[t]) + 1] = [region |-> r, passed |-> 0]
      /\ \A u \in Thread : u # t => frames'[u] = frames[u] /\ pc'[u] = pc[u]
      /\ pc'[t] = "body" /\ pc' \in [Thread -> {"outside", "parked", "pushed", "body", "barrier", "ending"}]
      /\ CountInv'
  BY EnterFacts
<1>4. PcInv' /\ PassedInv' /\ FrameInv' /\ LiveInv'
  BY <1>2, EnterKeepsStacks
<1>5. Len(regions) \in Nat /\ DOMAIN regions = 1..Len(regions)
  BY <1>1, RegionsShape
<1>6. Len(frames[t]) = 0
  BY <1>1, StackShape DEF TypeOK, Inside
<1>7. Inside(t)' /\ Bottom(t)' = r /\ frames'[t][1].passed = 0
  <2>1. Inside(t)'
    <3>1. frames'[t] \in Seq(Frame) /\ Len(frames'[t]) # 0
      BY <1>3, <1>6
    <3>2. frames'[t] # <<>>
      BY <3>1, StackShape
    <3> QED
      BY <3>2 DEF Inside
  <2> QED
    BY <1>3, <1>6, <2>1 DEF Bottom
<1>8. \A w \in Worker : w # t /\ ~Inside(w) /\ ~Inside(w)' /\ pc[w] = "parked" /\ pc'[w] = "parked"
  <2> SUFFICES ASSUME NEW w \in Worker
               PROVE  w # t /\ ~Inside(w) /\ ~Inside(w)' /\ pc[w] = "parked" /\ pc'[w] = "parked"
    OBVIOUS
  <2>1. w # t /\ w \in Thread
    BY <1>2, ThreadIs
  <2>2. ~Inside(w) /\ pc[w] = "parked"
    BY <1>1, <1>2 DEF WorkerInv, PcInv
  <2> QED
    BY <1>3, <2>1, <2>2 DEF Inside
<1>9. TypeOK'
  <2>1. args' \in [Keys -> 0..MaxRegions]
    BY <1>1, <1>3, BoundAssumption DEF TypeOK, Region
  <2>2. todo' \in [Keys -> SUBSET Nat]
    <3>1. 1..(Size(key) - 1) \subseteq Nat
      BY KeyFacts
    <3> QED
      BY <1>1, <3>1 DEF TypeOK
  <2> QED
    BY <1>1, <1>3, <2>1, <2>2 DEF TypeOK, RegionRecord
<1>10. WorkerInv'
  BY <1>8 DEF WorkerInv
<1>11. DispatchInv'
  <2>1. ASSUME NEW k \in Keys, k # key
        PROVE  todo'[k] = {}
    <3>1. todo[k] = {}
      BY <1>1, <1>2 DEF DispatchInv
    <3> QED
      BY <1>1, <2>1, <3>1 DEF TypeOK
  <2>2. todo'[key] = 1..(Size(key) - 1) /\ args'[key] = r
    BY <1>1 DEF TypeOK
  <2>3. ASSUME NEW n \in 1..(Size(key) - 1)
        PROVE  pc'[[team |-> key, tid |-> n]] = "parked"
    BY <1>8, <2>3, WorkerFacts
  <2>4. r \in Nat /\ regions'[r].team = key
    BY <1>3, <1>5
  <2>5. ASSUME NEW k \in Keys
        PROVE  /\ \A n \in todo'[k] : n \in 1..(Size(k) - 1) /\ pc'[[team |-> k, tid |-> n]] = "parked"
               /\ todo'[k] # {} =>
                    /\ Inside(InitialThread)' /\ Bottom(InitialThread)' = args'[k]
                    /\ frames'[InitialThread][1].passed = 0
                    /\ regions'[args'[k]].team = k
    <3>1. CASE k = key
      BY <1>2, <1>7, <2>2, <2>3, <2>4, <3>1
    <3>2. CASE k # key
      BY <2>1, <3>2
    <3> QED
      BY <3>1, <3>2
  <2> QED
    BY <2>5 DEF DispatchInv
<1>12. PushedInv'
  BY <1>2, <1>3 DEF PushedInv
<1>13. ClauseOfItsOwn'
  <2>1. regions'[r].clause = pushed[t]
    BY <1>1, <1>2, <1>3 DEF PushedInv
  <2>2. ASSUME NEW q \in DOMAIN regions', regions'[q].team # Nested
        PROVE  regions'[q].team = TeamKey(regions'[q].clause)
    <3>1. CASE q = r
      BY <1>3, <2>1, <3>1
    <3>2. CASE q # r
      <4>1. q \in 1..Len(regions)
        BY <1>3, <1>5, <2>2, <3>2
      <4> QED
        BY <1>1, <1>3, <1>5, <2>2, <4>1 DEF ClauseOfItsOwn
    <3> QED
      BY <3>1, <3>2
  <2> QED
    BY <2>2 DEF ClauseOfItsOwn
<1> QED
  BY <1>3, <1>4, <1>9, <1>10, <1>11, <1>12, <1>13 DEF IInv

\* Nothing moves when the assertion fails or the program exits.
LEMMA StopInv ==
  ASSUME IInv, UNCHANGED <<pc, frames, pushed, teams, args, todo, regions, live>>,
         mode' \in {"running", "aborted", "exited"}
  PROVE  IInv'
<1>1. TypeOK'
  BY DEF IInv, TypeOK
<1>2. PcInv' /\ PassedInv' /\ FrameInv' /\ LiveInv'
  BY DEF IInv, PcInv, PassedInv, FrameInv, LiveInv, Inside
<1>3. WorkerInv' /\ DispatchInv' /\ PushedInv' /\ ClauseOfItsOwn' /\ CountInv'
  BY DEF IInv, WorkerInv, DispatchInv, PushedInv, ClauseOfItsOwn, CountInv, Pushing, Inside, Bottom
<1> QED
  BY <1>1, <1>2, <1>3 DEF IInv

LEMMA ForkCachedInv ==
  ASSUME IInv, NEW t \in Thread, NEW k \in Keys, ForkCached(t, k)
  PROVE  IInv'
<1>1. /\ Forks(t) /\ ~Inside(t) /\ k = TeamKey(pushed[t]) /\ Enter(t, k)
      /\ args' = [args EXCEPT ![k] = Len(regions) + 1]
      /\ todo' = [todo EXCEPT ![k] = 1..(Size(k) - 1)]
      /\ UNCHANGED <<pushed, mode>> /\ teams' = teams
  BY DEF ForkCached
<1>2. teams' \subseteq Keys
  BY <1>1 DEF IInv, TypeOK
<1> QED
  BY <1>1, <1>2, ForkTopInv

LEMMA ForkNewInv ==
  ASSUME IInv, NEW t \in Thread, NEW k \in Keys, ForkNew(t, k)
  PROVE  IInv'
<1>1. CASE Cardinality(teams) >= MaxCachedTeams
  BY <1>1, StopInv DEF ForkNew
<1>2. CASE ~(Cardinality(teams) >= MaxCachedTeams)
  <2>1. /\ Forks(t) /\ ~Inside(t) /\ k = TeamKey(pushed[t]) /\ Enter(t, k)
        /\ args' = [args EXCEPT ![k] = Len(regions) + 1]
        /\ todo' = [todo EXCEPT ![k] = 1..(Size(k) - 1)]
        /\ UNCHANGED <<pushed, mode>> /\ teams' = teams \cup {k}
    BY <1>2 DEF ForkNew
  <2>2. teams' \subseteq Keys
    BY <2>1 DEF IInv, TypeOK
  <2> QED
    BY <2>1, <2>2, ForkTopInv
<1> QED
  BY <1>1, <1>2

-------------------------------------------------------------------------------
(* The steps that leave every stack alone.                                 *)

LEMMA CountKept ==
  ASSUME CountInv, regions' = regions,
         \A t \in Thread : pc'[t] = "pushed" <=> pc[t] = "pushed"
  PROVE  CountInv'
<1>1. Pushing' = Pushing
  BY DEF Pushing
<1> QED
  BY <1>1 DEF CountInv

LEMMA SameStacks ==
  ASSUME IInv, NEW t \in Thread,
         UNCHANGED <<frames, teams, args, todo, regions, live, mode>>,
         pc[t] \in {"outside", "body"}, pc'[t] \in {"pushed", "barrier"},
         pc' = [pc EXCEPT ![t] = pc'[t]],
         pc'[t] = "barrier" => pc[t] = "body"
  PROVE  PcInv' /\ PassedInv' /\ FrameInv' /\ LiveInv' /\ WorkerInv' /\ DispatchInv' /\ ClauseOfItsOwn'
<1>1. /\ TypeOK /\ PcInv /\ PassedInv /\ FrameInv /\ LiveInv /\ WorkerInv /\ DispatchInv /\ ClauseOfItsOwn
  BY DEF IInv
<1>2. \A u \in Thread : u # t => pc'[u] = pc[u]
  BY <1>1 DEF TypeOK
<1>3. PcInv'
  BY <1>1, <1>2, ThreadIs DEF PcInv, Inside
<1>4. PassedInv'
  <2> SUFFICES ASSUME NEW u \in Thread, NEW i \in DOMAIN frames[u]
               PROVE  IF i = Len(frames[u]) /\ pc'[u] = "ending"
                        THEN frames[u][i].passed = Barriers + 1
                        ELSE frames[u][i].passed <= Barriers
    BY DEF PassedInv
  <2>1. pc'[u] = "ending" <=> pc[u] = "ending"
    BY <1>2
  <2> QED
    BY <1>1, <2>1 DEF PassedInv
<1>5. FrameInv' /\ LiveInv' /\ WorkerInv' /\ ClauseOfItsOwn'
  BY <1>1 DEF FrameInv, LiveInv, WorkerInv, ClauseOfItsOwn, Inside, Bottom
<1>6. DispatchInv'
  <2>1. ASSUME NEW k \in Keys, NEW n \in todo[k]
        PROVE  n \in 1..(Size(k) - 1) /\ pc'[[team |-> k, tid |-> n]] = "parked"
    <3>1. n \in 1..(Size(k) - 1) /\ pc[[team |-> k, tid |-> n]] = "parked"
      BY <1>1 DEF DispatchInv
    <3>2. [team |-> k, tid |-> n] \in Thread /\ [team |-> k, tid |-> n] # t
      BY <3>1, WorkerFacts, ThreadIs
    <3> QED
      BY <1>2, <3>1, <3>2
  <2>2. ASSUME NEW k \in Keys, todo[k] # {}
        PROVE  /\ Inside(InitialThread)' /\ Bottom(InitialThread)' = args[k]
               /\ frames'[InitialThread][1].passed = 0
               /\ regions'[args[k]].team = k
    BY <1>1, <2>2 DEF DispatchInv, Inside, Bottom
  <2> QED
    BY <2>1, <2>2 DEF DispatchInv
<1> QED
  BY <1>3, <1>4, <1>5, <1>6

LEMMA PushNumThreadsInv ==
  ASSUME IInv, NEW t \in Thread, NEW n \in NumThreads, PushNumThreads(t, n)
  PROVE  IInv'
<1>1. TypeOK /\ CountInv /\ PushedInv
  BY DEF IInv
<1>2. /\ Encounters(t) /\ pc[t] \in {"outside", "body"}
      /\ pushed' = [pushed EXCEPT ![t] = Clamp(n)]
      /\ pc' = [pc EXCEPT ![t] = "pushed"]
      /\ UNCHANGED <<frames, teams, args, todo, regions, live, mode>>
  BY DEF PushNumThreads, Encounters
<1>3. pc'[t] = "pushed" /\ \A u \in Thread : u # t => pc'[u] = pc[u] /\ pushed'[u] = pushed[u]
  BY <1>1, <1>2 DEF TypeOK
<1>4. PcInv' /\ PassedInv' /\ FrameInv' /\ LiveInv' /\ WorkerInv' /\ DispatchInv' /\ ClauseOfItsOwn'
  BY <1>2, <1>3, SameStacks
<1>5. TypeOK'
  <2>1. Clamp(n) \in Nat
    BY NumThreadsAssumption DEF Clamp
  <2> QED
    BY <1>1, <1>2, <2>1 DEF TypeOK
<1>6. PushedInv'
  BY <1>1, <1>3, ThreadIs DEF PushedInv
<1>7. CountInv'
  <2>1. Pushing' = Pushing \cup {t} /\ t \notin Pushing
    BY <1>2, <1>3 DEF Pushing
  <2>2. IsFiniteSet(Pushing) /\ Cardinality(Pushing) \in Nat
    BY ThreadsFinite, FS_Subset, FS_CardinalityType DEF Pushing
  <2>3. Cardinality(Pushing') = Cardinality(Pushing) + 1
    BY <2>1, <2>2, FS_AddElement
  <2>4. Len(regions) + Cardinality(Pushing) < MaxRegions
    BY <1>2 DEF Encounters, Pushing
  <2>5. Len(regions) \in Nat
    BY <1>1, RegionsShape
  <2>6. Len(regions) + Cardinality(Pushing') <= MaxRegions
    BY <2>2, <2>3, <2>4, <2>5, BoundAssumption
  <2> QED
    BY <1>2, <2>6 DEF CountInv
<1> QED
  BY <1>4, <1>5, <1>6, <1>7 DEF IInv

LEMMA ArriveInv ==
  ASSUME IInv, NEW t \in Thread, Arrive(t)
  PROVE  IInv'
<1>1. TypeOK /\ CountInv /\ PushedInv
  BY DEF IInv
<1>2. /\ pc[t] = "body" /\ pc' = [pc EXCEPT ![t] = "barrier"]
      /\ UNCHANGED <<frames, pushed, teams, args, todo, regions, live, mode>>
  BY DEF Arrive
<1>3. pc'[t] = "barrier" /\ \A u \in Thread : u # t => pc'[u] = pc[u]
  BY <1>1, <1>2 DEF TypeOK
<1>4. PcInv' /\ PassedInv' /\ FrameInv' /\ LiveInv' /\ WorkerInv' /\ DispatchInv' /\ ClauseOfItsOwn'
  BY <1>2, <1>3, SameStacks
<1>5. TypeOK'
  BY <1>1, <1>2 DEF TypeOK
<1>6. PushedInv'
  BY <1>1, <1>2, <1>3, ThreadIs DEF PushedInv
<1>7. CountInv'
  BY <1>1, <1>2, <1>3, CountKept
<1> QED
  BY <1>4, <1>5, <1>6, <1>7 DEF IInv

-------------------------------------------------------------------------------
(* A worker takes up its region.                                           *)

LEMMA DispatchedInv ==
  ASSUME IInv, NEW w \in Worker, Dispatched(w)
  PROVE  IInv'
<1> DEFINE k == w.team
           e == [region |-> args[k], passed |-> 0]
<1>1. /\ TypeOK /\ PcInv /\ PassedInv /\ FrameInv /\ LiveInv /\ WorkerInv /\ DispatchInv
      /\ PushedInv /\ ClauseOfItsOwn /\ CountInv
  BY DEF IInv
<1>2. w \in Thread /\ w # InitialThread /\ k \in Keys /\ w = [team |-> k, tid |-> w.tid]
  BY ThreadIs, WorkerFacts
<1>3. /\ pc[w] = "parked" /\ w.tid \in todo[k]
      /\ todo' = [todo EXCEPT ![k] = @ \ {w.tid}]
      /\ frames' = [frames EXCEPT ![w] = <<e>>]
      /\ pc' = [pc EXCEPT ![w] = "body"]
      /\ UNCHANGED <<pushed, teams, args, regions, live, mode>>
  BY DEF Dispatched
<1>4. /\ Inside(InitialThread) /\ Bottom(InitialThread) = args[k]
      /\ regions[args[k]].team = k
  BY <1>1, <1>2, <1>3 DEF DispatchInv
<1>5. \A u \in Thread : /\ Len(frames[u]) \in Nat /\ DOMAIN frames[u] = 1..Len(frames[u])
                        /\ Inside(u) <=> Len(frames[u]) # 0
  BY <1>1, StackShape DEF TypeOK, Inside
<1>6. /\ args[k] \in live /\ args[k] \in Region /\ args[k] \in Nat
      /\ regions[args[k]].by = InitialThread
  <2>1. 1 \in DOMAIN frames[InitialThread]
    BY <1>4, <1>5, ThreadIs
  <2> QED
    BY <1>1, <1>4, <2>1, FrameRegion, ThreadIs DEF FrameInv, Bottom, Region
<1>7. e \in Frame /\ e.region = args[k] /\ e.passed = 0
  BY <1>6, BoundAssumption DEF Frame
<1> HIDE DEF e
<1>8. /\ <<e>> \in Seq(Frame) /\ Len(<<e>>) = 1 /\ <<e>> # <<>> /\ DOMAIN <<e>> = {1} /\ <<e>>[1] = e
  BY <1>7
<1>9. /\ frames'[w] = <<e>> /\ pc'[w] = "body"
      /\ \A u \in Thread : u # w => frames'[u] = frames[u] /\ pc'[u] = pc[u]
  BY <1>1, <1>2, <1>3 DEF TypeOK
<1>10. ~Inside(w)
  BY <1>1, <1>3 DEF PcInv
<1>11. \A u \in Thread : u # w => (Inside(u)' <=> Inside(u)) /\ Bottom(u)' = Bottom(u)
  BY <1>9 DEF Inside, Bottom
<1>12. Inside(w)' /\ Bottom(w)' = args[k]
  BY <1>7, <1>8, <1>9 DEF Inside, Bottom
<1>13. TypeOK'
  <2>1. todo' \in [Keys -> SUBSET Nat]
    BY <1>1, <1>2, <1>3 DEF TypeOK
  <2>2. frames' \in [Thread -> Seq(Frame)]
    BY <1>1, <1>3, <1>8 DEF TypeOK
  <2>3. pc' \in [Thread -> {"outside", "parked", "pushed", "body", "barrier", "ending"}]
    BY <1>1, <1>3 DEF TypeOK
  <2> QED
    BY <1>1, <1>3, <2>1, <2>2, <2>3 DEF TypeOK
<1>14. PcInv'
  BY <1>1, <1>2, <1>9, <1>11, <1>12, ThreadIs DEF PcInv
<1>15. PassedInv'
  <2> SUFFICES ASSUME NEW u \in Thread, NEW i \in DOMAIN frames'[u]
               PROVE  IF i = Len(frames'[u]) /\ pc'[u] = "ending"
                        THEN frames'[u][i].passed = Barriers + 1
                        ELSE frames'[u][i].passed <= Barriers
    BY DEF PassedInv
  <2>1. CASE u = w
    BY <1>7, <1>8, <1>9, <2>1, BoundAssumption
  <2>2. CASE u # w
    BY <1>1, <1>9, <2>2 DEF PassedInv
  <2> QED
    BY <2>1, <2>2
<1>16. FrameInv'
  <2> SUFFICES ASSUME NEW u \in Thread, NEW i \in DOMAIN frames'[u]
               PROVE  LET q == frames'[u][i].region
                      IN  /\ q \in live
                          /\ IF i = 1
                               THEN /\ regions[q].by = InitialThread /\ regions[q].team \in Keys
                                    /\ u \in Worker => regions[q].team = u.team
                               ELSE regions[q].by = u /\ regions[q].team = Nested
                          /\ \A j \in DOMAIN frames'[u] : j < i => frames'[u][j].region < q
    BY <1>3 DEF FrameInv
  <2>1. CASE u = w
    <3>1. i = 1 /\ frames'[u][i].region = args[k] /\ \A j \in DOMAIN frames'[u] : ~(j < i)
      BY <1>7, <1>8, <1>9, <2>1
    <3> QED
      BY <1>2, <1>4, <1>6, <2>1, <3>1
  <2>2. CASE u # w
    BY <1>1, <1>9, <2>2 DEF FrameInv
  <2> QED
    BY <2>1, <2>2
<1>17. LiveInv'
  <2> SUFFICES ASSUME NEW q \in live
               PROVE  /\ q \in DOMAIN regions
                      /\ \E i \in DOMAIN frames'[regions[q].by] : frames'[regions[q].by][i].region = q
    BY <1>3 DEF LiveInv
  <2>1. /\ q \in DOMAIN regions /\ regions[q].by \in Thread
        /\ \E i \in DOMAIN frames[regions[q].by] : frames[regions[q].by][i].region = q
    BY <1>1, RegionsShape DEF LiveInv
  <2>2. regions[q].by # w
    BY <1>2, <1>5, <1>10, <2>1
  <2> QED
    BY <1>9, <2>1, <2>2
<1>18. WorkerInv'
  BY <1>1, <1>2, <1>4, <1>11, <1>12, ThreadIs DEF WorkerInv
<1>19. DispatchInv'
  <2>1. todo'[k] = todo[k] \ {w.tid} /\ \A j \in Keys : j # k => todo'[j] = todo[j]
    BY <1>1, <1>2, <1>3 DEF TypeOK
  <2>2. ASSUME NEW j \in Keys, NEW n \in todo'[j]
        PROVE  n \in 1..(Size(j) - 1) /\ pc'[[team |-> j, tid |-> n]] = "parked"
    <3>1. n \in todo[j] /\ (j = k => n # w.tid)
      BY <2>1, <2>2
    <3>2. n \in 1..(Size(j) - 1) /\ pc[[team |-> j, tid |-> n]] = "parked"
      BY <1>1, <3>1 DEF DispatchInv
    <3>3. [team |-> j, tid |-> n] \in Thread
      BY <3>2, WorkerFacts, ThreadIs
    <3>4. [team |-> j, tid |-> n] # w
      BY <1>2, <3>1
    <3> QED
      BY <1>9, <3>2, <3>3, <3>4
  <2>3. ASSUME NEW j \in Keys, todo'[j] # {}
        PROVE  /\ Inside(InitialThread)' /\ Bottom(InitialThread)' = args[j]
               /\ frames'[InitialThread][1].passed = 0
               /\ regions[args[j]].team = j
    <3>1. todo[j] # {}
      BY <2>1, <2>3
    <3> QED
      BY <1>1, <1>2, <1>9, <1>11, <3>1, ThreadIs DEF DispatchInv
  <2> QED
    BY <1>3, <2>2, <2>3 DEF DispatchInv
<1>20. PushedInv'
  BY <1>1, <1>2, <1>3, <1>9, ThreadIs DEF PushedInv
<1>21. ClauseOfItsOwn'
  BY <1>1, <1>3 DEF ClauseOfItsOwn
<1>22. CountInv'
  BY <1>1, <1>3, <1>9, CountKept
<1> QED
  BY <1>13, <1>14, <1>15, <1>16, <1>17, <1>18, <1>19, <1>20, <1>21, <1>22 DEF IInv

-------------------------------------------------------------------------------
(* A barrier.                                                              *)

\* Every member passes it on its innermost frame, and nothing else moves.
LEMMA BarrierFacts ==
  ASSUME IInv, NEW r \in 1..Len(regions), TeamBarrier(r)
  PROVE  /\ \A u \in Members(r) :
              /\ u \in Thread /\ Len(frames[u]) \in Nat \ {0} /\ frames[u][Len(frames[u])].region = r
              /\ frames[u][Len(frames[u])].passed \in 0..Barriers
              /\ \A i \in 1..(Len(frames[u]) - 1) : frames'[u][i] = frames[u][i]
              /\ frames'[u][Len(frames[u])].passed = frames[u][Len(frames[u])].passed + 1
              /\ pc[u] = "barrier"
              /\ pc'[u] = IF frames[u][Len(frames[u])].passed = Barriers THEN "ending" ELSE "body"
         /\ \A u \in Thread : u \notin Members(r) => frames'[u] = frames[u] /\ pc'[u] = pc[u]
         /\ \A u \in Thread :
              /\ frames'[u] \in Seq(Frame) /\ Len(frames'[u]) = Len(frames[u])
              /\ DOMAIN frames'[u] = DOMAIN frames[u]
              /\ \A i \in DOMAIN frames[u] : frames'[u][i].region = frames[u][i].region
              /\ Inside(u)' <=> Inside(u)
<1>1. /\ TypeOK /\ PcInv /\ PassedInv /\ FrameInv /\ LiveInv /\ WorkerInv /\ DispatchInv
      /\ PushedInv /\ ClauseOfItsOwn /\ CountInv
  BY DEF IInv
<1>2. /\ \A t \in Members(r) : pc[t] = "barrier" /\ Top(t) = r
      /\ frames' = [t \in Thread |-> IF t \in Members(r)
                      THEN [frames[t] EXCEPT ![Len(frames[t])].passed = @ + 1] ELSE frames[t]]
      /\ pc' = [t \in Thread |-> IF t \in Members(r)
                  THEN IF Passed(t) = Barriers THEN "ending" ELSE "body" ELSE pc[t]]
      /\ UNCHANGED <<pushed, teams, args, todo, regions, live, mode>>
  BY DEF TeamBarrier
<1>3. Members(r) \subseteq Thread /\ \A w \in Worker : regions[r].team = w.team => w \in Members(r)
  BY <1>1, MemberFacts
<1>4. \A u \in Thread : /\ frames[u] \in Seq(Frame)
                        /\ Len(frames[u]) \in Nat /\ DOMAIN frames[u] = 1..Len(frames[u])
                        /\ Inside(u) <=> Len(frames[u]) # 0
  BY <1>1, StackShape DEF TypeOK, Inside
<1>5. \A u \in Thread : pc[u] = "barrier" => Inside(u)
  BY <1>1, ThreadIs DEF PcInv
<1>6. ASSUME NEW u \in Members(r)
      PROVE  /\ u \in Thread /\ Len(frames[u]) \in Nat \ {0} /\ frames[u][Len(frames[u])].region = r
             /\ frames[u][Len(frames[u])].passed \in 0..Barriers
             /\ frames'[u] \in Seq(Frame) /\ Len(frames'[u]) = Len(frames[u])
             /\ DOMAIN frames'[u] = 1..Len(frames[u])
             /\ \A i \in 1..Len(frames[u]) : frames'[u][i].region = frames[u][i].region
             /\ \A i \in 1..(Len(frames[u]) - 1) : frames'[u][i] = frames[u][i]
             /\ frames'[u][Len(frames[u])].passed = frames[u][Len(frames[u])].passed + 1
             /\ pc'[u] = IF frames[u][Len(frames[u])].passed = Barriers THEN "ending" ELSE "body"
  <2>1. u \in Thread /\ pc[u] = "barrier" /\ frames[u][Len(frames[u])].region = r
    BY <1>2, <1>3 DEF Top
  <2>2. Len(frames[u]) \in Nat \ {0} /\ frames[u] # <<>>
    BY <1>4, <1>5, <2>1 DEF Inside
  <2>3. Len(frames[u]) \in DOMAIN frames[u] /\ frames[u][Len(frames[u])] \in Frame
    BY <1>4, <2>1, <2>2, StackShape
  <2>4. frames[u][Len(frames[u])].passed <= Barriers
    BY <1>1, <2>1, <2>3 DEF PassedInv
  <2>5. frames[u][Len(frames[u])].passed \in 0..Barriers
    BY <2>3, <2>4, BoundAssumption DEF Frame
  <2>6. frames'[u] = [frames[u] EXCEPT ![Len(frames[u])].passed = @ + 1]
    BY <1>2, <2>1
  <2>7. /\ frames'[u] \in Seq(Frame) /\ Len(frames'[u]) = Len(frames[u])
        /\ \A i \in 1..Len(frames[u]) : frames'[u][i].region = frames[u][i].region
        /\ \A i \in 1..(Len(frames[u]) - 1) : frames'[u][i] = frames[u][i]
        /\ frames'[u][Len(frames[u])].passed = frames[u][Len(frames[u])].passed + 1
    BY <1>4, <2>1, <2>2, <2>4, <2>6, StackPass
  <2>8. DOMAIN frames'[u] = 1..Len(frames[u])
    BY <2>7, StackShape
  <2>9. pc'[u] = IF frames[u][Len(frames[u])].passed = Barriers THEN "ending" ELSE "body"
    BY <1>2, <2>1 DEF Passed
  <2> QED
    BY <2>1, <2>2, <2>5, <2>7, <2>8, <2>9
<1>7. \A u \in Thread : u \notin Members(r) => frames'[u] = frames[u] /\ pc'[u] = pc[u]
  BY <1>2
<1>8. \A u \in Thread : /\ frames'[u] \in Seq(Frame) /\ Len(frames'[u]) = Len(frames[u])
                        /\ DOMAIN frames'[u] = DOMAIN frames[u]
                        /\ \A i \in DOMAIN frames[u] : frames'[u][i].region = frames[u][i].region
                        /\ Inside(u)' <=> Inside(u)
  <2>1. ASSUME NEW u \in Thread
        PROVE  /\ frames'[u] \in Seq(Frame) /\ Len(frames'[u]) = Len(frames[u])
               /\ DOMAIN frames'[u] = DOMAIN frames[u]
               /\ \A i \in DOMAIN frames[u] : frames'[u][i].region = frames[u][i].region
    BY <1>4, <1>6, <1>7
  <2> QED
    BY <1>4, <2>1, StackShape DEF Inside
<1> QED
  BY <1>2, <1>6, <1>7, <1>8

LEMMA TeamBarrierInv ==
  ASSUME IInv, NEW r \in 1..Len(regions), TeamBarrier(r)
  PROVE  IInv'
<1>1. /\ TypeOK /\ PcInv /\ PassedInv /\ FrameInv /\ LiveInv /\ WorkerInv /\ DispatchInv
      /\ PushedInv /\ ClauseOfItsOwn /\ CountInv
  BY DEF IInv
<1>2. /\ \A t \in Members(r) : pc[t] = "barrier" /\ Top(t) = r
      /\ frames' = [t \in Thread |-> IF t \in Members(r)
                      THEN [frames[t] EXCEPT ![Len(frames[t])].passed = @ + 1] ELSE frames[t]]
      /\ pc' = [t \in Thread |-> IF t \in Members(r)
                  THEN IF Passed(t) = Barriers THEN "ending" ELSE "body" ELSE pc[t]]
      /\ UNCHANGED <<pushed, teams, args, todo, regions, live, mode>>
  BY DEF TeamBarrier
<1>3. Members(r) \subseteq Thread /\ \A w \in Worker : regions[r].team = w.team => w \in Members(r)
  BY <1>1, MemberFacts
<1>4. \A u \in Thread : /\ frames[u] \in Seq(Frame)
                        /\ Len(frames[u]) \in Nat /\ DOMAIN frames[u] = 1..Len(frames[u])
                        /\ Inside(u) <=> Len(frames[u]) # 0
  BY <1>1, StackShape DEF TypeOK, Inside
<1>5. \A u \in Thread : pc[u] = "barrier" => Inside(u)
  BY <1>1, ThreadIs DEF PcInv
<1>6. \A u \in Members(r) :
           /\ u \in Thread /\ Len(frames[u]) \in Nat \ {0} /\ frames[u][Len(frames[u])].region = r
           /\ frames[u][Len(frames[u])].passed \in 0..Barriers
           /\ \A i \in 1..(Len(frames[u]) - 1) : frames'[u][i] = frames[u][i]
           /\ frames'[u][Len(frames[u])].passed = frames[u][Len(frames[u])].passed + 1
           /\ pc[u] = "barrier"
           /\ pc'[u] = IF frames[u][Len(frames[u])].passed = Barriers THEN "ending" ELSE "body"
  BY BarrierFacts
<1>7. \A u \in Thread : u \notin Members(r) => frames'[u] = frames[u] /\ pc'[u] = pc[u]
  BY BarrierFacts
<1>8. \A u \in Thread :
           /\ frames'[u] \in Seq(Frame) /\ Len(frames'[u]) = Len(frames[u])
           /\ DOMAIN frames'[u] = DOMAIN frames[u]
           /\ \A i \in DOMAIN frames[u] : frames'[u][i].region = frames[u][i].region
           /\ Inside(u)' <=> Inside(u)
  BY BarrierFacts
<1>9. \A u \in Thread : Inside(u) => Bottom(u)' = Bottom(u)
  BY <1>4, <1>8 DEF Bottom
<1>10. TypeOK'
  <2>1. frames' \in [Thread -> Seq(Frame)]
    BY <1>2, <1>8
  <2>2. pc' \in [Thread -> {"outside", "parked", "pushed", "body", "barrier", "ending"}]
    BY <1>1, <1>2 DEF TypeOK
  <2> QED
    BY <1>1, <1>2, <2>1, <2>2 DEF TypeOK
<1>11. \A u \in Members(r) : pc[u] = "barrier" /\ pc'[u] \in {"ending", "body"}
  BY <1>2, <1>6
<1>12. PcInv'
  BY <1>1, <1>5, <1>7, <1>8, <1>11, ThreadIs DEF PcInv
<1>13. PassedInv'
  <2> SUFFICES ASSUME NEW u \in Thread, NEW i \in DOMAIN frames'[u]
               PROVE  IF i = Len(frames'[u]) /\ pc'[u] = "ending"
                        THEN frames'[u][i].passed = Barriers + 1
                        ELSE frames'[u][i].passed <= Barriers
    BY DEF PassedInv
  <2>1. CASE u \notin Members(r)
    BY <1>1, <1>7, <2>1 DEF PassedInv
  <2>2. CASE u \in Members(r) /\ i = Len(frames[u])
    <3>1. frames'[u][i].passed = frames[u][i].passed + 1 /\ frames[u][i].passed \in 0..Barriers
      BY <1>6, <2>2
    <3>2. i = Len(frames'[u]) /\ pc'[u] = IF frames[u][i].passed = Barriers THEN "ending" ELSE "body"
      BY <1>6, <1>8, <2>2
    <3> QED
      BY <3>1, <3>2, BoundAssumption
  <2>3. CASE u \in Members(r) /\ i # Len(frames[u])
    <3>1. i \in 1..(Len(frames[u]) - 1) /\ i # Len(frames'[u]) /\ i \in DOMAIN frames[u]
      BY <1>4, <1>6, <1>8, <2>3
    <3>2. frames'[u][i] = frames[u][i]
      BY <1>6, <2>3, <3>1
    <3>3. frames[u][i].passed <= Barriers
      BY <1>1, <2>3, <3>1 DEF PassedInv
    <3> QED
      BY <3>1, <3>2, <3>3
  <2> QED
    BY <2>1, <2>2, <2>3
<1>14. FrameInv'
  <2> SUFFICES ASSUME NEW u \in Thread, NEW i \in DOMAIN frames[u]
               PROVE  LET q == frames'[u][i].region
                      IN  /\ q \in live
                          /\ IF i = 1
                               THEN /\ regions[q].by = InitialThread /\ regions[q].team \in Keys
                                    /\ u \in Worker => regions[q].team = u.team
                               ELSE regions[q].by = u /\ regions[q].team = Nested
                          /\ \A j \in DOMAIN frames[u] : j < i => frames'[u][j].region < q
    BY <1>2, <1>8 DEF FrameInv
  <2> QED
    BY <1>1, <1>8 DEF FrameInv
<1>15. LiveInv'
  BY <1>1, <1>2, <1>8, RegionsShape DEF LiveInv
<1>16. WorkerInv'
  BY <1>1, <1>8, <1>9, ThreadIs DEF WorkerInv
<1>17. DispatchInv'
  <2>1. ASSUME NEW k \in Keys, NEW n \in todo[k]
        PROVE  /\ [team |-> k, tid |-> n] \in Worker
               /\ [team |-> k, tid |-> n].team = k /\ [team |-> k, tid |-> n] \notin Members(r)
               /\ n \in 1..(Size(k) - 1) /\ pc'[[team |-> k, tid |-> n]] = "parked"
    <3>1. n \in 1..(Size(k) - 1) /\ pc[[team |-> k, tid |-> n]] = "parked"
      BY <1>1 DEF DispatchInv
    <3>2. [team |-> k, tid |-> n] \in Worker /\ [team |-> k, tid |-> n].team = k
      BY <3>1, WorkerFacts
    <3>3. [team |-> k, tid |-> n] \notin Members(r)
      BY <1>11, <3>1
    <3> QED
      BY <1>7, <3>1, <3>2, <3>3, ThreadIs
  <2>2. ASSUME NEW k \in Keys, todo[k] # {}
        PROVE  /\ Inside(InitialThread)' /\ Bottom(InitialThread)' = args[k]
               /\ frames'[InitialThread][1].passed = 0
               /\ regions[args[k]].team = k
    <3>1. /\ Inside(InitialThread) /\ Bottom(InitialThread) = args[k]
          /\ frames[InitialThread][1].passed = 0 /\ regions[args[k]].team = k
      BY <1>1, <2>2 DEF DispatchInv
    <3>2. frames'[InitialThread][1] = frames[InitialThread][1]
      <4>1. CASE InitialThread \notin Members(r)
        BY <1>7, <4>1, ThreadIs
      <4>2. CASE InitialThread \in Members(r)
        <5>1. regions[r].team # k
          BY <1>3, <2>1, <2>2
        <5>2. Len(frames[InitialThread]) # 1
          BY <1>6, <3>1, <4>2, <5>1 DEF Bottom
        <5>3. 1 \in 1..(Len(frames[InitialThread]) - 1)
          <6>1. Len(frames[InitialThread]) \in Nat \ {0}
            BY <1>6, <4>2
          <6>2. \A n \in Nat \ {0} : n # 1 => 1 \in 1..(n - 1)
            OBVIOUS
          <6> QED
            BY <5>2, <6>1, <6>2
        <5> QED
          BY <1>6, <4>2, <5>3
      <4> QED
        BY <4>1, <4>2
    <3> QED
      BY <1>8, <1>9, <3>1, <3>2, ThreadIs
  <2> QED
    BY <1>2, <2>1, <2>2 DEF DispatchInv
<1>18. PushedInv'
  BY <1>1, <1>2, <1>7, <1>11, ThreadIs DEF PushedInv
<1>19. ClauseOfItsOwn'
  BY <1>1, <1>2 DEF ClauseOfItsOwn
<1>20. CountInv'
  BY <1>1, <1>2, <1>7, <1>11, CountKept
<1> QED
  BY <1>10, <1>12, <1>13, <1>14, <1>15, <1>16, <1>17, <1>18, <1>19, <1>20 DEF IInv

-------------------------------------------------------------------------------
(* The end of a region.                                                    *)

LEMMA ParkInv ==
  ASSUME IInv, NEW w \in Worker, Park(w)
  PROVE  IInv'
<1>1. /\ TypeOK /\ PcInv /\ PassedInv /\ FrameInv /\ LiveInv /\ WorkerInv /\ DispatchInv
      /\ PushedInv /\ ClauseOfItsOwn /\ CountInv
  BY DEF IInv
<1>2. w \in Thread /\ w # InitialThread
  BY ThreadIs
<1>3. /\ pc[w] = "ending" /\ Len(frames[w]) = 1
      /\ frames' = [frames EXCEPT ![w] = <<>>]
      /\ pc' = [pc EXCEPT ![w] = "parked"]
      /\ UNCHANGED <<pushed, teams, args, todo, regions, live, mode>>
  BY DEF Park
<1>4. <<>> \in Seq(Frame) /\ Len(<<>>) = 0 /\ DOMAIN <<>> = {}
  BY EmptySeq
<1>5. /\ frames'[w] = <<>> /\ pc'[w] = "parked"
      /\ \A u \in Thread : u # w => frames'[u] = frames[u] /\ pc'[u] = pc[u]
  BY <1>1, <1>2, <1>3 DEF TypeOK
<1>6. ~Inside(w)' /\ \A u \in Thread : u # w => (Inside(u)' <=> Inside(u)) /\ Bottom(u)' = Bottom(u)
  BY <1>5 DEF Inside, Bottom
<1>7. TypeOK'
  <2>1. frames' \in [Thread -> Seq(Frame)]
    BY <1>1, <1>3, <1>4 DEF TypeOK
  <2>2. pc' \in [Thread -> {"outside", "parked", "pushed", "body", "barrier", "ending"}]
    BY <1>1, <1>3 DEF TypeOK
  <2> QED
    BY <1>1, <1>3, <2>1, <2>2 DEF TypeOK
<1>8. PcInv'
  BY <1>1, <1>2, <1>5, <1>6, ThreadIs DEF PcInv
<1>9. PassedInv' /\ FrameInv'
  <2>1. \A u \in Thread : \A i \in DOMAIN frames'[u] : u # w
    BY <1>4, <1>5
  <2> QED
    BY <1>1, <1>3, <1>5, <2>1 DEF PassedInv, FrameInv
<1>10. LiveInv'
  <2> SUFFICES ASSUME NEW q \in live
               PROVE  /\ q \in DOMAIN regions
                      /\ \E i \in DOMAIN frames'[regions[q].by] : frames'[regions[q].by][i].region = q
    BY <1>3 DEF LiveInv
  <2>1. /\ q \in DOMAIN regions /\ regions[q].by \in Thread
        /\ \E i \in DOMAIN frames[regions[q].by] : frames[regions[q].by][i].region = q
    BY <1>1, RegionsShape DEF LiveInv
  <2>2. regions[q].by # w
    <3>1. SUFFICES ASSUME regions[q].by = w
                   PROVE  FALSE
      OBVIOUS
    <3>2. DOMAIN frames[w] = {1}
      <4>1. frames[w] \in Seq(Frame)
        BY <1>1, <1>2 DEF TypeOK
      <4> QED
        BY <1>3, <4>1, StackShape
    <3>3. frames[w][1].region = q
      BY <2>1, <3>1, <3>2
    <3> QED
      BY <1>1, <1>2, <3>1, <3>2, <3>3 DEF FrameInv
  <2> QED
    BY <1>5, <2>1, <2>2
<1>11. WorkerInv'
  BY <1>1, <1>2, <1>6, ThreadIs DEF WorkerInv
<1>12. DispatchInv'
  <2>1. ASSUME NEW k \in Keys, NEW n \in todo[k]
        PROVE  n \in 1..(Size(k) - 1) /\ pc'[[team |-> k, tid |-> n]] = "parked"
    <3>1. n \in 1..(Size(k) - 1) /\ pc[[team |-> k, tid |-> n]] = "parked"
      BY <1>1 DEF DispatchInv
    <3>2. [team |-> k, tid |-> n] \in Thread
      BY <3>1, WorkerFacts, ThreadIs
    <3> QED
      BY <1>5, <3>1, <3>2
  <2> QED
    BY <1>1, <1>2, <1>3, <1>5, <1>6, <2>1, ThreadIs DEF DispatchInv
<1>13. PushedInv' /\ ClauseOfItsOwn'
  BY <1>1, <1>2, <1>3, <1>5, ThreadIs DEF PushedInv, ClauseOfItsOwn
<1>14. CountInv'
  BY <1>1, <1>3, <1>5, CountKept
<1> QED
  BY <1>7, <1>8, <1>9, <1>10, <1>11, <1>12, <1>13, <1>14 DEF IInv

\* The thread that forked a region is the only one that has it as its last
\* frame when it leaves it; nobody else is in it.
LEMMA LeaveFacts ==
  ASSUME IInv, NEW t \in Thread, pc[t] = "ending", Len(frames[t]) # 0, Leave(t),
         \A u \in Thread : u # t => \A i \in DOMAIN frames[u] : frames[u][i].region # Top(t)
  PROVE  /\ frames' \in [Thread -> Seq(Frame)] /\ pushed' \in [Thread -> Nat]
         /\ \A u \in Thread : u # t => frames'[u] = frames[u] /\ pushed'[u] = pushed[u]
         /\ Len(frames'[t]) = Len(frames[t]) - 1 /\ DOMAIN frames'[t] = 1..(Len(frames[t]) - 1)
         /\ \A i \in 1..(Len(frames[t]) - 1) : frames'[t][i] = frames[t][i]
         /\ pushed'[t] = 0
         /\ FrameInv' /\ LiveInv'
<1>1. TypeOK /\ FrameInv /\ LiveInv
  BY DEF IInv
<1>2. /\ live' = live \ {Top(t)} /\ pushed' = [pushed EXCEPT ![t] = 0]
      /\ frames' = [frames EXCEPT ![t] = SubSeq(@, 1, Len(@) - 1)]
      /\ regions' = regions
  BY DEF Leave
<1>3. /\ frames[t] \in Seq(Frame) /\ frames[t] # <<>>
      /\ Len(frames[t]) \in Nat \ {0} /\ DOMAIN frames[t] = 1..Len(frames[t])
  BY <1>1, StackShape DEF TypeOK
<1>4. /\ frames'[t] = SubSeq(frames[t], 1, Len(frames[t]) - 1)
      /\ \A u \in Thread : u # t => frames'[u] = frames[u]
  BY <1>1, <1>2 DEF TypeOK
<1>5. /\ frames'[t] \in Seq(Frame) /\ Len(frames'[t]) = Len(frames[t]) - 1
      /\ \A i \in 1..(Len(frames[t]) - 1) : frames'[t][i] = frames[t][i]
  BY <1>3, <1>4, StackPop
<1>6. DOMAIN frames'[t] = 1..(Len(frames[t]) - 1)
  BY <1>5, StackShape
<1>7. frames' \in [Thread -> Seq(Frame)]
  BY <1>1, <1>2, <1>4, <1>5 DEF TypeOK
<1>8. /\ pushed' \in [Thread -> Nat] /\ pushed'[t] = 0
      /\ \A u \in Thread : u # t => pushed'[u] = pushed[u]
  BY <1>1, <1>2 DEF TypeOK
<1>9. ASSUME NEW i \in 1..(Len(frames[t]) - 1)
      PROVE  /\ i \in DOMAIN frames[t] /\ frames'[t][i] = frames[t][i]
             /\ frames[t][i].region # Top(t)
  <2>1. i \in DOMAIN frames[t] /\ i < Len(frames[t]) /\ Len(frames[t]) \in DOMAIN frames[t]
    BY <1>3
  <2>2. frames[t][i].region < frames[t][Len(frames[t])].region
    BY <1>1, <2>1 DEF FrameInv
  <2>3. frames[t][i].region \in Nat
    BY <1>1, <2>1, FrameRegion DEF Region
  <2> QED
    BY <1>5, <2>1, <2>2, <2>3 DEF Top
<1>10. \A u \in Thread : \A i \in DOMAIN frames'[u] :
         /\ i \in DOMAIN frames[u] /\ frames'[u][i] = frames[u][i]
         /\ frames[u][i].region # Top(t)
  BY <1>4, <1>6, <1>9
<1>11. FrameInv'
  <2> SUFFICES ASSUME NEW u \in Thread, NEW i \in DOMAIN frames'[u]
               PROVE  LET q == frames'[u][i].region
                      IN  /\ q \in live'
                          /\ IF i = 1
                               THEN /\ regions[q].by = InitialThread /\ regions[q].team \in Keys
                                    /\ u \in Worker => regions[q].team = u.team
                               ELSE regions[q].by = u /\ regions[q].team = Nested
                          /\ \A j \in DOMAIN frames'[u] : j < i => frames'[u][j].region < q
    BY <1>2 DEF FrameInv
  <2>1. LET q == frames[u][i].region
        IN  /\ q \in live
            /\ IF i = 1
                 THEN /\ regions[q].by = InitialThread /\ regions[q].team \in Keys
                      /\ u \in Worker => regions[q].team = u.team
                 ELSE regions[q].by = u /\ regions[q].team = Nested
            /\ \A j \in DOMAIN frames[u] : j < i => frames[u][j].region < q
    BY <1>1, <1>10 DEF FrameInv
  <2>2. /\ frames'[u][i].region = frames[u][i].region /\ frames[u][i].region \in live'
        /\ \A j \in DOMAIN frames'[u] : j \in DOMAIN frames[u] /\ frames'[u][j] = frames[u][j]
    BY <1>2, <1>10, <2>1
  <2> QED
    BY <2>1, <2>2
<1>12. LiveInv'
  <2> SUFFICES ASSUME NEW q \in live, q # Top(t)
               PROVE  /\ q \in DOMAIN regions
                      /\ \E i \in DOMAIN frames'[regions[q].by] : frames'[regions[q].by][i].region = q
    BY <1>2 DEF LiveInv
  <2>1. /\ q \in DOMAIN regions /\ regions[q].by \in Thread
        /\ \E i \in DOMAIN frames[regions[q].by] : frames[regions[q].by][i].region = q
    BY <1>1, RegionsShape DEF LiveInv
  <2>2. CASE regions[q].by = t
    <3>1. PICK i \in 1..Len(frames[t]) : frames[t][i].region = q
      BY <1>3, <2>1, <2>2
    <3>2. i # Len(frames[t])
      BY <3>1 DEF Top
    <3>3. i \in 1..(Len(frames[t]) - 1)
      BY <1>3, <3>2
    <3> QED
      BY <1>6, <1>9, <2>1, <2>2, <3>1, <3>3
  <2>3. CASE regions[q].by # t
    BY <1>4, <2>1, <2>3
  <2> QED
    BY <2>2, <2>3
<1> QED
  BY <1>4, <1>5, <1>6, <1>7, <1>8, <1>11, <1>12

LEMMA JoinNestedInv ==
  ASSUME IInv, NEW t \in Thread, JoinNested(t)
  PROVE  IInv'
<1>1. /\ TypeOK /\ PcInv /\ PassedInv /\ FrameInv /\ LiveInv /\ WorkerInv /\ DispatchInv
      /\ PushedInv /\ ClauseOfItsOwn /\ CountInv
  BY DEF IInv
<1>2. /\ pc[t] = "ending" /\ Len(frames[t]) > 1 /\ Leave(t) /\ live' = live \ {Top(t)}
      /\ pc' = [pc EXCEPT ![t] = "body"]
      /\ UNCHANGED <<teams, args, todo, regions, mode>>
  BY DEF JoinNested, Leave
<1>3. \A u \in Thread : /\ frames[u] \in Seq(Frame)
                        /\ Len(frames[u]) \in Nat /\ DOMAIN frames[u] = 1..Len(frames[u])
                        /\ Inside(u) <=> Len(frames[u]) # 0
  BY <1>1, StackShape DEF TypeOK, Inside
<1>4. Len(frames[t]) \in DOMAIN frames[t] /\ Len(frames[t]) # 1 /\ Len(frames[t]) # 0
  BY <1>2, <1>3
<1>5. regions[Top(t)].by = t /\ regions[Top(t)].team = Nested
  BY <1>1, <1>4 DEF FrameInv, Top
<1>6. ASSUME NEW u \in Thread, u # t, NEW i \in DOMAIN frames[u]
      PROVE  frames[u][i].region # Top(t)
  <2>1. SUFFICES ASSUME frames[u][i].region = Top(t)
                 PROVE  FALSE
    OBVIOUS
  <2>2. CASE i = 1
    BY <1>1, <1>5, <2>1, <2>2, KeyFacts DEF FrameInv
  <2>3. CASE i # 1
    BY <1>1, <1>5, <1>6, <2>1, <2>3 DEF FrameInv
  <2> QED
    BY <2>2, <2>3
<1>7. /\ frames' \in [Thread -> Seq(Frame)] /\ pushed' \in [Thread -> Nat]
      /\ \A u \in Thread : u # t => frames'[u] = frames[u] /\ pushed'[u] = pushed[u]
      /\ Len(frames'[t]) = Len(frames[t]) - 1 /\ DOMAIN frames'[t] = 1..(Len(frames[t]) - 1)
      /\ \A i \in 1..(Len(frames[t]) - 1) : frames'[t][i] = frames[t][i]
      /\ FrameInv' /\ LiveInv'
  BY <1>2, <1>4, <1>6, LeaveFacts
<1>8. pc'[t] = "body" /\ \A u \in Thread : u # t => pc'[u] = pc[u]
  BY <1>1, <1>2 DEF TypeOK
<1>9. \A u \in Thread : /\ Inside(u)' <=> Inside(u)
                        /\ Inside(u) => frames'[u][1] = frames[u][1] /\ Bottom(u)' = Bottom(u)
  <2>1. \A u \in Thread : u # t => (Inside(u)' <=> Inside(u)) /\ Bottom(u)' = Bottom(u)
    BY <1>7 DEF Inside, Bottom
  <2>2. Inside(t) /\ Inside(t)'
    <3>1. frames'[t] \in Seq(Frame) /\ Len(frames'[t]) # 0
      BY <1>2, <1>3, <1>7
    <3>2. frames'[t] # <<>>
      BY <3>1, StackShape
    <3> QED
      BY <1>3, <1>4, <3>2 DEF Inside
  <2>3. frames'[t][1] = frames[t][1]
    <3>1. 1 \in 1..(Len(frames[t]) - 1)
      BY <1>2, <1>3
    <3> QED
      BY <1>7, <3>1
  <2> QED
    BY <1>7, <2>1, <2>2, <2>3 DEF Bottom
<1>10. TypeOK'
  <2>1. pc' \in [Thread -> {"outside", "parked", "pushed", "body", "barrier", "ending"}]
    BY <1>1, <1>2 DEF TypeOK
  <2> QED
    BY <1>1, <1>2, <1>7, <2>1 DEF TypeOK
<1>11. PcInv'
  <2>1. Inside(t)
    BY <1>3, <1>4
  <2> QED
    BY <1>1, <1>8, <1>9, <2>1, ThreadIs DEF PcInv
<1>12. PassedInv'
  <2> SUFFICES ASSUME NEW u \in Thread, NEW i \in DOMAIN frames'[u]
               PROVE  IF i = Len(frames'[u]) /\ pc'[u] = "ending"
                        THEN frames'[u][i].passed = Barriers + 1
                        ELSE frames'[u][i].passed <= Barriers
    BY DEF PassedInv
  <2>1. CASE u # t
    BY <1>1, <1>7, <1>8, <2>1 DEF PassedInv
  <2>2. CASE u = t
    <3>1. i \in 1..(Len(frames[t]) - 1) /\ i \in DOMAIN frames[t] /\ i # Len(frames[t])
      BY <1>3, <1>7, <2>2
    <3>2. frames[t][i].passed <= Barriers
      BY <1>1, <3>1 DEF PassedInv
    <3> QED
      BY <1>7, <1>8, <2>2, <3>1, <3>2
  <2> QED
    BY <2>1, <2>2
<1>13. WorkerInv'
  BY <1>1, <1>9, ThreadIs DEF WorkerInv
<1>14. DispatchInv'
  <2>1. ASSUME NEW k \in Keys, NEW n \in todo[k]
        PROVE  n \in 1..(Size(k) - 1) /\ pc'[[team |-> k, tid |-> n]] = "parked"
    <3>1. n \in 1..(Size(k) - 1) /\ pc[[team |-> k, tid |-> n]] = "parked"
      BY <1>1 DEF DispatchInv
    <3>2. [team |-> k, tid |-> n] \in Thread /\ [team |-> k, tid |-> n] # t
      BY <1>2, <3>1, WorkerFacts, ThreadIs
    <3> QED
      BY <1>8, <3>1, <3>2
  <2> QED
    BY <1>1, <1>2, <1>9, <2>1, ThreadIs DEF DispatchInv
<1>15. PushedInv'
  BY <1>1, <1>7, <1>8, ThreadIs DEF PushedInv
<1>16. ClauseOfItsOwn'
  BY <1>1, <1>2 DEF ClauseOfItsOwn
<1>17. CountInv'
  BY <1>1, <1>2, <1>8, CountKept
<1> QED
  BY <1>7, <1>10, <1>11, <1>12, <1>13, <1>14, <1>15, <1>16, <1>17 DEF IInv

\* Every worker of the team has parked, and every worker that is in a region
\* is in the initial thread's: none is.
LEMMA JoinInv ==
  ASSUME IInv, Join
  PROVE  IInv'
<1> DEFINE t == InitialThread
<1>1. /\ TypeOK /\ PcInv /\ PassedInv /\ FrameInv /\ LiveInv /\ WorkerInv /\ DispatchInv
      /\ PushedInv /\ ClauseOfItsOwn /\ CountInv
  BY DEF IInv
<1>2. /\ pc[t] = "ending" /\ Len(frames[t]) = 1 /\ Leave(t) /\ live' = live \ {Top(t)}
      /\ \A w \in Members(Top(t)) \ {t} : pc[w] = "parked"
      /\ pc' = [pc EXCEPT ![t] = "outside"]
      /\ UNCHANGED <<teams, args, todo, regions, mode>>
  BY DEF Join, Leave
<1>3. \A u \in Thread : /\ frames[u] \in Seq(Frame)
                        /\ Len(frames[u]) \in Nat /\ DOMAIN frames[u] = 1..Len(frames[u])
                        /\ Inside(u) <=> Len(frames[u]) # 0
  BY <1>1, StackShape DEF TypeOK, Inside
<1>4. ASSUME NEW w \in Worker
      PROVE  ~Inside(w) /\ pc[w] = "parked"
  <2>1. SUFFICES ASSUME Inside(w)
                 PROVE  FALSE
    BY <1>1 DEF PcInv
  <2>2. Bottom(w) = Top(t) /\ 1 \in DOMAIN frames[w]
    BY <1>1, <1>2, <1>3, <2>1, ThreadIs DEF WorkerInv, Bottom, Top
  <2>3. regions[Top(t)].team = w.team /\ Top(t) \in 1..Len(regions)
    BY <1>1, <2>2, FrameRegion, ThreadIs DEF FrameInv, Bottom
  <2>4. w \in Members(Top(t)) /\ w # t
    BY <1>1, <2>3, MemberFacts, ThreadIs
  <2> QED
    BY <1>1, <1>2, <2>1, <2>4 DEF PcInv
<1>5. \A u \in Thread : u # t => frames[u] = <<>> /\ DOMAIN frames[u] = {} /\ pc[u] = "parked"
  BY <1>3, <1>4, ThreadIs DEF Inside
<1>6. t \in Thread
  BY ThreadIs
<1>7. /\ frames' \in [Thread -> Seq(Frame)] /\ pushed' \in [Thread -> Nat]
      /\ \A u \in Thread : u # t => frames'[u] = frames[u] /\ pushed'[u] = pushed[u]
      /\ Len(frames'[t]) = Len(frames[t]) - 1 /\ DOMAIN frames'[t] = 1..(Len(frames[t]) - 1)
      /\ pushed'[t] = 0
      /\ FrameInv' /\ LiveInv'
  <2>1. \A u \in Thread : u # t => \A i \in DOMAIN frames[u] : frames[u][i].region # Top(t)
    BY <1>5
  <2>2. Len(frames[t]) # 0
    BY <1>2
  <2> HIDE DEF t
  <2> QED
    BY <1>2, <1>6, <2>1, <2>2, LeaveFacts
<1>8. pc'[t] = "outside" /\ \A u \in Thread : u # t => pc'[u] = pc[u]
  BY <1>1, <1>2, <1>6 DEF TypeOK
<1>9. \A u \in Thread : frames'[u] = <<>> /\ DOMAIN frames'[u] = {} /\ ~Inside(u)'
  <2>1. Len(frames'[t]) = 0 /\ frames'[t] \in Seq(Frame)
    BY <1>2, <1>6, <1>7
  <2>2. frames'[t] = <<>>
    BY <2>1, StackShape
  <2>3. DOMAIN frames'[t] = {}
    BY <1>2, <1>7
  <2> QED
    BY <1>5, <1>7, <2>2, <2>3 DEF Inside
<1>10. TypeOK'
  <2>1. pc' \in [Thread -> {"outside", "parked", "pushed", "body", "barrier", "ending"}]
    BY <1>1, <1>2 DEF TypeOK
  <2> QED
    BY <1>1, <1>2, <1>7, <2>1 DEF TypeOK
<1>11. PcInv'
  BY <1>5, <1>8, <1>9, ThreadIs DEF PcInv
<1>12. PassedInv'
  BY <1>9 DEF PassedInv
<1>13. WorkerInv'
  BY <1>9, ThreadIs DEF WorkerInv
<1>14. DispatchInv'
  <2>1. frames[t][1].passed = Barriers + 1
    <3>1. 1 \in DOMAIN frames[t]
      BY <1>2, <1>3, <1>6
    <3> QED
      BY <1>1, <1>2, <1>6, <3>1 DEF PassedInv
  <2>2. \A k \in Keys : todo[k] = {}
    BY <1>1, <2>1, BoundAssumption DEF DispatchInv
  <2> QED
    BY <1>2, <2>2 DEF DispatchInv
<1>15. PushedInv'
  BY <1>7 DEF PushedInv
<1>16. ClauseOfItsOwn'
  BY <1>1, <1>2 DEF ClauseOfItsOwn
<1>17. CountInv'
  BY <1>1, <1>2, <1>8, CountKept
<1> QED
  BY <1>7, <1>10, <1>11, <1>12, <1>13, <1>14, <1>15, <1>16, <1>17 DEF IInv

-------------------------------------------------------------------------------
(* The invariant.                                                          *)

LEMMA InitInv == Init => IInv
<1> SUFFICES ASSUME Init
             PROVE  IInv
  OBVIOUS
<1>1. <<>> \in Seq(Frame) /\ DOMAIN <<>> = {} /\ Len(<<>>) = 0
  BY EmptySeq
<1>2. \A t \in Thread : frames[t] = <<>> /\ ~Inside(t) /\ DOMAIN frames[t] = {}
  BY <1>1 DEF Init, Inside
<1>3. TypeOK
  <2>1. frames \in [Thread -> Seq(Frame)]
    BY <1>1 DEF Init
  <2>2. args \in [Keys -> 0..MaxRegions]
    BY BoundAssumption DEF Init
  <2>3. regions \in Seq([by : Thread, outer : 0..MaxRegions, team : Keys \cup {Nested}, clause : Nat])
    BY EmptySeq DEF Init
  <2> QED
    BY <2>1, <2>2, <2>3 DEF Init, TypeOK
<1>4. PcInv
  BY <1>2, ThreadIs DEF Init, PcInv
<1>5. PassedInv /\ FrameInv /\ LiveInv /\ WorkerInv
  BY <1>2, ThreadIs DEF Init, PassedInv, FrameInv, LiveInv, WorkerInv
<1>6. DispatchInv /\ PushedInv /\ ClauseOfItsOwn
  BY <1>2, ThreadIs DEF Init, DispatchInv, PushedInv, ClauseOfItsOwn
<1>7. CountInv
  <2>1. Pushing = {}
    BY DEF Init, Pushing
  <2>2. Len(regions) = 0 /\ Cardinality(Pushing) = 0
    BY <1>1, <2>1, FS_EmptySet DEF Init
  <2> QED
    BY <2>2, BoundAssumption DEF CountInv
<1> QED
  BY <1>3, <1>4, <1>5, <1>6, <1>7 DEF IInv

LEMMA NextInv == IInv /\ [Next]_vars => IInv'
<1> SUFFICES ASSUME IInv, [Next]_vars
             PROVE  IInv'
  OBVIOUS
<1>1. ASSUME NEW t \in Thread, Constructs(t)
      PROVE  IInv'
  BY <1>1, PushNumThreadsInv, ForkNestedInv, ForkCachedInv, ForkNewInv DEF Constructs
<1>2. ASSUME NEW t \in Thread, Proceeds(t)
      PROVE  IInv'
  BY <1>2, ArriveInv, JoinNestedInv, DispatchedInv, ParkInv, JoinInv DEF Proceeds
<1>3. ASSUME NEW r \in 1..Len(regions), TeamBarrier(r)
      PROVE  IInv'
  BY <1>3, TeamBarrierInv
<1>4. CASE Exit
  BY <1>4, StopInv DEF Exit
<1>5. CASE UNCHANGED vars
  BY <1>5, StopInv DEF vars, IInv, TypeOK
<1> QED
  BY <1>1, <1>2, <1>3, <1>4, <1>5 DEF Next, Done

\* Everything below follows from this.
THEOREM Invariance == Spec => []IInv
  BY InitInv, NextInv, PTL DEF Spec

\* Every variable keeps its type.
THEOREM TypeCorrect == Spec => []TypeOK
<1>1. IInv => TypeOK
  BY DEF IInv
<1> QED
  BY <1>1, Invariance, PTL

\* The argument block a member of a team uses has not been freed, and is the
\* block of a region of its own team.
THEOREM BlocksAreLive == Spec => []ArgsLive
<1>1. ASSUME IInv, NEW t \in Thread, NEW i \in DOMAIN frames[t]
      PROVE  LET r == frames[t][i].region IN r \in live /\ t \in Members(r)
  <2> DEFINE r == frames[t][i].region
  <2>1. TypeOK /\ FrameInv /\ LiveInv
    BY <1>1 DEF IInv
  <2>2. r \in live /\ r \in 1..Len(regions)
    BY <1>1, <2>1, FrameRegion
  <2>3. /\ regions[r].by \in Members(r)
        /\ \A w \in Worker : regions[r].team = w.team => w \in Members(r)
    BY <2>1, <2>2, MemberFacts
  <2>4. regions[r].by = t \/ (t \in Worker /\ regions[r].team = t.team)
    BY <1>1, <2>1, ThreadIs DEF FrameInv
  <2> QED
    BY <2>2, <2>3, <2>4
<1>2. IInv => ArgsLive
  BY <1>1 DEF ArgsLive
<1> QED
  BY <1>2, Invariance, PTL

\* A num_threads clause governs its own region and no other.
THEOREM ClausesApplyOnce == Spec => []ClauseOfItsOwn
<1>1. IInv => ClauseOfItsOwn
  BY DEF IInv
<1> QED
  BY <1>1, Invariance, PTL

\* A program with no more thread counts than the cache has places never fails
\* the assertion on the number of teams.
THEOREM CacheSuffices ==
  ASSUME Cardinality(Keys) <= MaxCachedTeams
  PROVE  Spec => []TeamsFit
<1>1. Init => TeamsFit
  BY DEF Init, TeamsFit
<1>2. ASSUME IInv, NEW t \in Thread, NEW k \in Keys, ForkNew(t, k)
      PROVE  mode' = mode
  <2>1. teams \subseteq Keys /\ k \notin teams
    BY <1>2 DEF IInv, TypeOK, ForkNew
  <2>2. IsFiniteSet(teams) /\ Cardinality(teams) \in Nat /\ Cardinality(Keys) \in Nat
    BY <2>1, KeyFacts, FS_Subset, FS_CardinalityType
  <2>3. Cardinality(teams \cup {k}) = Cardinality(teams) + 1
    BY <2>1, <2>2, FS_AddElement
  <2>4. Cardinality(teams \cup {k}) <= Cardinality(Keys)
    BY <2>1, KeyFacts, FS_Subset
  <2>5. ~(Cardinality(teams) >= MaxCachedTeams)
    BY <2>2, <2>3, <2>4, BoundAssumption
  <2> QED
    BY <1>2, <2>5 DEF ForkNew
<1>3. ASSUME IInv, TeamsFit, [Next]_vars
      PROVE  TeamsFit'
  <2>1. ASSUME NEW t \in Thread, Constructs(t)
        PROVE  mode' = mode
    BY <1>2, <1>3, <2>1 DEF Constructs, PushNumThreads, ForkNested, ForkCached
  <2>2. ASSUME NEW t \in Thread, Proceeds(t)
        PROVE  mode' = mode
    BY <2>2 DEF Proceeds, Arrive, JoinNested, Dispatched, Park, Join, Leave
  <2>3. ASSUME NEW r \in 1..Len(regions), TeamBarrier(r)
        PROVE  mode' = mode
    BY <2>3 DEF TeamBarrier
  <2> QED
    BY <1>3, <2>1, <2>2, <2>3 DEF Next, Exit, Done, vars, TeamsFit
<1> QED
  BY <1>1, <1>3, Invariance, PTL DEF Spec

-------------------------------------------------------------------------------
(* Team implements ForkJoin.  The refinement needs more than the safety of *)
(* Team: a region was forked by a member of the one around it (OuterInv),  *)
(* so that the code of that member waits for it, and the workers are never *)
(* a barrier ahead of the initial thread or behind it (SyncInv).           *)

\* A region was forked by a member of the one around it, or by the initial
\* thread; a cached team's always by the initial thread.
OuterInv ==
  \A r \in DOMAIN regions :
    /\ \E o \in 0..(r - 1) :
         /\ regions[r].outer = o
         /\ IF o = 0 THEN regions[r].by = InitialThread ELSE regions[r].by \in Members(o)
    /\ regions[r].team \in Keys => regions[r].by = InitialThread

\* Workers in a region have passed as many barriers as the initial thread.
SyncInv ==
  \A w \in Worker : Inside(w) => frames[w][1].passed = frames[InitialThread][1].passed

JoinedInv == IInv /\ OuterInv /\ SyncInv

\* There is a largest team.
LEMMA MaxSizeIs == MaxSize \in Nat \ {0} /\ \A k \in Keys : Size(k) <= MaxSize
<1> DEFINE S == {Size(k) : k \in Keys}
           M == DefaultSize + OMP_THREAD_LIMIT
           D == {M - s : s \in S}
           R == OpToRel(<, Nat)
<1>1. M \in Nat /\ \A s \in S : s \in Nat \ {0} /\ s <= M
  BY KeyFacts, EnvAssumption
<1>2. S # {}
  <2>1. TeamKey(Clamp(0)) \in Keys
    BY DEF Keys
  <2> QED
    BY <2>1
<1>3. D \subseteq Nat /\ D # {}
  BY <1>1, <1>2
<1>4. \E d \in D : \A c \in D : ~(<<c, d>> \in R)
  <2> HIDE DEF D, R
  <2>1. IsWellFoundedOn(R, Nat)
    BY NatLessThanWellFounded DEF R
  <2> QED
    BY <1>3, <2>1, WFMin
<1>5. PICK n \in S : \A c \in D : ~(<<c, M - n>> \in R)
  BY <1>4
<1>6. ASSUME NEW s \in S
      PROVE  s <= n
  <2>1. s \in Nat /\ n \in Nat /\ s <= M /\ n <= M /\ M \in Nat
    BY <1>1
  <2>2. ~(<<M - s, M - n>> \in R)
    BY <1>5
  <2>3. M - s \in Nat /\ M - n \in Nat
    BY <2>1
  <2>4. ~(M - s < M - n)
    <3> DEFINE a == M - s
               b == M - n
    <3> HIDE DEF a, b, M
    <3> QED
      BY <2>2, <2>3 DEF OpToRel, a, b
  <2> QED
    BY <2>1, <2>4
<1>7. n \in S /\ \A k \in Keys : Size(k) <= n
  BY <1>6
<1>8. MaxSize \in S /\ \A k \in Keys : Size(k) <= MaxSize
  BY <1>7 DEF MaxSize
<1> QED
  BY <1>1, <1>8

LEMMA SizeFacts ==
  ASSUME TypeOK, NEW r \in 1..Len(regions)
  PROVE  /\ SizeOf(r) \in Nat \ {0} /\ SizeOf(r) <= MaxSize /\ SizeOf(r) \in 1..MaxSize
         /\ regions[r].team = Nested => SizeOf(r) = 1
         /\ regions[r].team \in Keys => SizeOf(r) = Size(regions[r].team)
<1> DEFINE k == regions[r].team
<1>1. k \in Keys \cup {Nested}
  BY RegionsShape
<1>2. SizeOf(r) = IF k = Nested THEN 1 ELSE Size(k)
  BY DEF SizeOf
<1>3. (k \in Keys => k # Nested) /\ (k \in Keys => Size(k) \in Nat \ {0} /\ Size(k) <= MaxSize)
  BY KeyFacts, MaxSizeIs
<1> QED
  BY <1>1, <1>2, <1>3, MaxSizeIs

\* No more regions are forked than are numbered.
LEMMA RegionNumbers ==
  ASSUME TypeOK, CountInv
  PROVE  Len(regions) \in Nat /\ \A r \in 1..Len(regions) : r \in Region
<1>1. Cardinality(Pushing) \in Nat
  BY ThreadsFinite, FS_Subset, FS_CardinalityType DEF Pushing
<1>2. Len(regions) \in Nat
  BY RegionsShape
<1> QED
  BY <1>1, <1>2, BoundAssumption DEF CountInv, Region

\* The members of a team have places of their own in it.
LEMMA MemberPlaces ==
  ASSUME TypeOK, OuterInv, NEW r \in 1..Len(regions), NEW i \in 1..SizeOf(r)
  PROVE  /\ MemberOf(r, i) \in Thread /\ MemberOf(r, i) \in Members(r)
         /\ i = 1 => MemberOf(r, i) = regions[r].by
         /\ i # 1 => /\ MemberOf(r, i) \in Worker /\ regions[r].team \in Keys
                     /\ MemberOf(r, i).team = regions[r].team /\ MemberOf(r, i).tid = i - 1
                     /\ i > 1
         /\ \A j \in 1..SizeOf(r) : MemberOf(r, i) = MemberOf(r, j) => i = j
<1> DEFINE k == regions[r].team
<1>1. k \in Keys \cup {Nested} /\ regions[r].by \in Thread /\ r \in DOMAIN regions
  BY RegionsShape
<1>2. /\ SizeOf(r) \in Nat \ {0} /\ (k \in Keys => SizeOf(r) = Size(k)) /\ (k = Nested => SizeOf(r) = 1)
      /\ (k \in Keys => Size(k) \in Nat \ {0})
  BY SizeFacts, KeyFacts
<1>3. MemberOf(r, 1) = regions[r].by
  BY DEF MemberOf
<1>4. ASSUME NEW j \in 1..SizeOf(r), j # 1
      PROVE  /\ MemberOf(r, j) \in Worker /\ k \in Keys
             /\ MemberOf(r, j).team = k /\ MemberOf(r, j).tid = j - 1 /\ j > 1
  <2>1. k \in Keys /\ j - 1 \in 1..(Size(k) - 1) /\ j > 1
    BY <1>1, <1>2, <1>4
  <2>2. MemberOf(r, j) = [team |-> k, tid |-> j - 1]
    BY <1>4 DEF MemberOf
  <2> QED
    BY <2>1, <2>2, WorkerFacts
<1>5. ASSUME NEW j \in 1..SizeOf(r), MemberOf(r, i) = MemberOf(r, j)
      PROVE  i = j
  <2>1. CASE i = 1 /\ j # 1
    <3>1. k \in Keys /\ MemberOf(r, j) \in Worker
      BY <1>4, <2>1
    <3>2. MemberOf(r, i) = InitialThread
      BY <1>1, <1>3, <2>1, <3>1 DEF OuterInv
    <3> QED
      BY <1>5, <3>1, <3>2, ThreadIs
  <2>2. CASE i # 1 /\ j = 1
    <3>1. k \in Keys /\ MemberOf(r, i) \in Worker
      BY <1>4, <2>2
    <3>2. MemberOf(r, j) = InitialThread
      BY <1>1, <1>3, <2>2, <3>1 DEF OuterInv
    <3> QED
      BY <1>5, <3>1, <3>2, ThreadIs
  <2>3. CASE i # 1 /\ j # 1
    <3>1. MemberOf(r, i).tid = i - 1 /\ MemberOf(r, j).tid = j - 1
      BY <1>4, <2>3
    <3>2. i - 1 = j - 1
      BY <1>5, <3>1
    <3> QED
      BY <3>2, <1>2
  <2> QED
    BY <2>1, <2>2, <2>3
<1> QED
  BY <1>1, <1>3, <1>4, <1>5, ThreadIs DEF Members

\* A thread is in a region once.
LEMMA OneFrame ==
  ASSUME TypeOK, FrameInv, LiveInv, NEW t \in Thread,
         NEW m \in DOMAIN frames[t], NEW n \in DOMAIN frames[t],
         frames[t][m].region = frames[t][n].region
  PROVE  m = n
<1>1. m \in Nat /\ n \in Nat
  BY StackShape DEF TypeOK
<1>2. frames[t][m].region \in Nat
  BY FrameRegion DEF Region
<1>3. ~(m < n) /\ ~(n < m)
  BY <1>2 DEF FrameInv
<1> QED
  BY <1>1, <1>3

\* A region of a cached team is the one the initial thread is in.
LEMMA LiveTop ==
  ASSUME TypeOK, FrameInv, LiveInv, OuterInv, NEW r \in live, regions[r].team \in Keys
  PROVE  Inside(InitialThread) /\ Bottom(InitialThread) = r
<1>1. r \in DOMAIN regions /\ regions[r].by = InitialThread
  BY DEF LiveInv, OuterInv
<1>2. PICK i \in DOMAIN frames[InitialThread] : frames[InitialThread][i].region = r
  BY <1>1 DEF LiveInv
<1>3. i = 1
  <2>1. regions[r].team # Nested
    BY KeyFacts
  <2> QED
    BY <1>2, <2>1, ThreadIs DEF FrameInv
<1>4. Inside(InitialThread)
  <2>1. frames[InitialThread] \in Seq(Frame)
    BY ThreadIs DEF TypeOK
  <2> QED
    BY <1>2, <2>1, StackShape DEF Inside
<1> QED
  BY <1>2, <1>3, <1>4 DEF Bottom

\* Nobody is in a region when the initial thread is not.
LEMMA NobodyInside ==
  ASSUME IInv, ~Inside(InitialThread)
  PROVE  live = {} /\ \A t \in Thread : ~Inside(t) /\ DOMAIN frames[t] = {}
<1>1. TypeOK /\ WorkerInv /\ LiveInv
  BY DEF IInv
<1>2. ASSUME NEW t \in Thread
      PROVE  ~Inside(t) /\ DOMAIN frames[t] = {}
  <2>1. ~Inside(t)
    BY <1>1, ThreadIs DEF WorkerInv
  <2>2. frames[t] \in Seq(Frame)
    BY <1>1 DEF TypeOK
  <2>3. Len(frames[t]) = 0 /\ DOMAIN frames[t] = 1..Len(frames[t])
    BY <2>1, <2>2, StackShape DEF Inside
  <2> QED
    BY <2>1, <2>3
<1>3. ASSUME NEW r \in live
      PROVE  FALSE
  <2>1. r \in DOMAIN regions /\ \E i \in DOMAIN frames[regions[r].by] : TRUE
    BY <1>1 DEF LiveInv
  <2>2. regions[r].by \in Thread
    BY <1>1, <2>1, RegionsShape
  <2> QED
    BY <1>2, <2>1, <2>2
<1> QED
  BY <1>2, <1>3

\* A thread in a region is one of its members.
LEMMA InnermostPlace ==
  ASSUME TypeOK, FrameInv, LiveInv, NEW t \in Thread, Inside(t)
  PROVE  /\ Top(t) \in live /\ Top(t) \in 1..Len(regions) /\ Len(frames[t]) \in DOMAIN frames[t]
         /\ t \in Members(Top(t))
<1>1. Len(frames[t]) \in DOMAIN frames[t] /\ Top(t) = frames[t][Len(frames[t])].region
  <2>1. frames[t] \in Seq(Frame) /\ frames[t] # <<>>
    BY DEF TypeOK, Inside
  <2> QED
    BY <2>1, StackShape DEF Top
<1>2. Top(t) \in live /\ Top(t) \in 1..Len(regions)
  BY <1>1, FrameRegion
<1>3. \/ regions[Top(t)].by = t
      \/ t \in Worker /\ regions[Top(t)].team = t.team
  BY <1>1, ThreadIs DEF FrameInv
<1> QED
  BY <1>1, <1>2, <1>3, MemberFacts

\* The teams of the regions that are forked stay.
LEMMA TeamsStay ==
  ASSUME NEW r, regions'[r] = regions[r]
  PROVE  /\ SizeOf(r)' = SizeOf(r) /\ Members(r)' = Members(r)
         /\ \A i : MemberOf(r, i)' = MemberOf(r, i)
  BY DEF SizeOf, Members, MemberOf

LEMMA EnterOuter ==
  ASSUME IInv, OuterInv, NEW t \in Thread, NEW key \in Keys \cup {Nested}, Forks(t), Enter(t, key),
         IF Inside(t) THEN key = Nested ELSE key \in Keys /\ t = InitialThread
  PROVE  /\ OuterInv'
         /\ regions'[Len(regions) + 1].outer = IF Inside(t) THEN Top(t) ELSE 0
<1> DEFINE r == Len(regions) + 1
           rec == [by |-> t, outer |-> IF Inside(t) THEN Top(t) ELSE 0, team |-> key,
                   clause |-> IF pc[t] = "pushed" THEN pushed[t] ELSE 0]
<1>1. TypeOK /\ FrameInv /\ LiveInv
  BY DEF IInv
<1>2. /\ DOMAIN regions' = 1..r /\ regions'[r].by = t /\ regions'[r].team = key
      /\ \A q \in 1..Len(regions) : regions'[q] = regions[q]
  BY EnterFacts
<1>3. Len(regions) \in Nat /\ DOMAIN regions = 1..Len(regions)
  BY <1>1, RegionsShape
<1>4. regions'[r].outer = IF Inside(t) THEN Top(t) ELSE 0
  <2>1. regions' = Append(regions, rec) /\ rec.outer = IF Inside(t) THEN Top(t) ELSE 0
    BY DEF Enter
  <2> HIDE DEF rec
  <2>2. regions \in Seq(RegionRecord) /\ regions' \in Seq(RegionRecord)
    BY <1>1, EnterFacts DEF TypeOK, RegionRecord
  <2>3. Len(regions') = Len(regions) + 1
    BY EnterFacts
  <2>4. regions'[r] = rec
    BY <2>1, <2>2, <2>3, <1>3
  <2> QED
    BY <2>1, <2>4
<1>5. PICK o \in 0..Len(regions) : /\ regions'[r].outer = o
                                   /\ IF o = 0 THEN t = InitialThread ELSE t \in Members(o)
  <2>1. CASE Inside(t)
    <3>1. Top(t) \in 1..Len(regions) /\ t \in Members(Top(t))
      BY <1>1, <2>1, InnermostPlace
    <3> QED
      BY <1>3, <1>4, <2>1, <3>1
  <2>2. CASE ~Inside(t)
    BY <1>3, <1>4, <2>2
  <2> QED
    BY <2>1, <2>2
<1>6. ASSUME NEW p \in 1..Len(regions)
      PROVE  Members(p)' = Members(p)
  BY <1>2, TeamsStay
<1>7. ASSUME NEW q \in DOMAIN regions'
      PROVE  /\ \E p \in 0..(q - 1) :
                  /\ regions'[q].outer = p
                  /\ IF p = 0 THEN regions'[q].by = InitialThread ELSE regions'[q].by \in Members(p)'
             /\ regions'[q].team \in Keys => regions'[q].by = InitialThread
  <2>1. CASE q = r
    <3>1. o \in 0..(q - 1) /\ (o # 0 => Members(o)' = Members(o))
      BY <1>3, <1>6, <2>1
    <3>2. key \in Keys => t = InitialThread
      BY KeyFacts
    <3> QED
      BY <1>2, <1>5, <2>1, <3>1, <3>2
  <2>2. CASE q # r
    <3>1. q \in 1..Len(regions) /\ regions'[q] = regions[q]
      BY <1>2, <1>3, <2>2
    <3>2. PICK p \in 0..(q - 1) :
            /\ regions[q].outer = p
            /\ IF p = 0 THEN regions[q].by = InitialThread ELSE regions[q].by \in Members(p)
      BY <1>3, <3>1 DEF OuterInv
    <3>3. p # 0 => Members(p)' = Members(p)
      BY <1>3, <1>6, <3>1
    <3>4. regions[q].team \in Keys => regions[q].by = InitialThread
      BY <1>3, <3>1 DEF OuterInv
    <3> QED
      BY <3>1, <3>2, <3>3, <3>4
  <2> QED
    BY <2>1, <2>2
<1> QED
  BY <1>4, <1>7 DEF OuterInv

LEMMA OuterKept ==
  ASSUME OuterInv, regions' = regions
  PROVE  OuterInv'
  BY DEF OuterInv, Members, MemberOf, SizeOf

LEMMA SyncForked ==
  ASSUME JoinedInv, NEW t \in Thread, NEW key \in Keys \cup {Nested}, Forks(t), Enter(t, key)
  PROVE  SyncInv'
<1>1. IInv /\ TypeOK /\ PcInv /\ WorkerInv /\ SyncInv
  BY DEF JoinedInv, IInv
<1>2. /\ frames' \in [Thread -> Seq(Frame)]
      /\ \A i \in 1..Len(frames[t]) : frames'[t][i] = frames[t][i]
      /\ \A u \in Thread : u # t => frames'[u] = frames[u]
  BY <1>1, EnterFacts
<1>3. ASSUME NEW u \in Thread, Inside(u)
      PROVE  frames'[u][1] = frames[u][1]
  <2>1. frames[u] \in Seq(Frame) /\ frames[u] # <<>>
    BY <1>1, <1>3 DEF TypeOK, Inside
  <2>2. 1 \in 1..Len(frames[u])
    BY <2>1, StackShape
  <2> QED
    BY <1>2, <2>2
<1>4. ASSUME NEW w \in Worker, Inside(w)'
      PROVE  Inside(w)
  <2>1. CASE w = t
    BY <1>1, <2>1, OutsideIsInitial, ThreadIs
  <2>2. CASE w # t
    BY <1>2, <1>4, <2>2, ThreadIs DEF Inside
  <2> QED
    BY <2>1, <2>2
<1>5. \A w \in Worker : Inside(w) => Inside(InitialThread)
  BY <1>1 DEF WorkerInv
<1> QED
  BY <1>1, <1>3, <1>4, <1>5, ThreadIs DEF SyncInv

LEMMA SyncDispatched ==
  ASSUME JoinedInv, NEW w \in Worker, Dispatched(w)
  PROVE  SyncInv'
<1>1. TypeOK /\ DispatchInv /\ SyncInv
  BY DEF JoinedInv, IInv
<1>2. w \in Thread /\ w # InitialThread /\ w.team \in Keys
  BY ThreadIs, WorkerFacts
<1>3. /\ frames'[w][1].passed = 0
      /\ \A u \in Thread : u # w => frames'[u] = frames[u]
  BY <1>1, <1>2 DEF Dispatched, TypeOK
<1>4. frames[InitialThread][1].passed = 0
  BY <1>1, <1>2 DEF Dispatched, DispatchInv
<1> QED
  BY <1>1, <1>2, <1>3, <1>4, ThreadIs DEF SyncInv, Inside

\* The members of a cached team's region are all its workers.
LEMMA SyncBarrier ==
  ASSUME JoinedInv, NEW r \in 1..Len(regions), TeamBarrier(r)
  PROVE  SyncInv'
<1>1. /\ IInv /\ TypeOK /\ FrameInv /\ LiveInv /\ WorkerInv /\ OuterInv /\ SyncInv
      /\ r \in live
  BY DEF JoinedInv, IInv, TeamBarrier
<1>2. /\ \A u \in Members(r) :
           /\ u \in Thread /\ Len(frames[u]) \in Nat \ {0} /\ frames[u][Len(frames[u])].region = r
           /\ \A i \in 1..(Len(frames[u]) - 1) : frames'[u][i] = frames[u][i]
           /\ frames'[u][Len(frames[u])].passed = frames[u][Len(frames[u])].passed + 1
      /\ \A u \in Thread : u \notin Members(r) => frames'[u] = frames[u]
      /\ \A u \in Thread : Inside(u)' <=> Inside(u)
  BY <1>1, BarrierFacts
<1>3. \A u \in Thread : Inside(u) => 1 \in DOMAIN frames[u] /\ DOMAIN frames[u] = 1..Len(frames[u])
  <2> SUFFICES ASSUME NEW u \in Thread, Inside(u)
               PROVE  1 \in DOMAIN frames[u] /\ DOMAIN frames[u] = 1..Len(frames[u])
    OBVIOUS
  <2>1. frames[u] \in Seq(Frame) /\ frames[u] # <<>>
    BY <1>1 DEF TypeOK, Inside
  <2>2. Len(frames[u]) \in Nat /\ DOMAIN frames[u] = 1..Len(frames[u]) /\ Len(frames[u]) # 0
    BY <2>1, StackShape
  <2> QED
    BY <2>2
<1>4. /\ Members(r) \subseteq Thread /\ regions[r].by \in Members(r)
      /\ \A w \in Worker : regions[r].team = w.team => w \in Members(r)
      /\ regions[r].team = Nested => Members(r) = {regions[r].by}
      /\ regions[r].team \in Keys \cup {Nested}
  BY <1>1, MemberFacts, RegionsShape
<1>5. CASE regions[r].team \in Keys
  <2>1. Inside(InitialThread) /\ Bottom(InitialThread) = r /\ InitialThread \in Members(r)
    BY <1>1, <1>4, <1>5, LiveTop DEF OuterInv, LiveInv
  <2>2. ASSUME NEW u \in Members(r), Inside(u), Bottom(u) = r
        PROVE  frames'[u][1].passed = frames[u][1].passed + 1
    <3>1. 1 \in DOMAIN frames[u] /\ Len(frames[u]) \in DOMAIN frames[u]
      BY <1>2, <1>3, <2>2
    <3>2. frames[u][1].region = frames[u][Len(frames[u])].region
      BY <1>2, <2>2 DEF Bottom
    <3>3. Len(frames[u]) = 1
      BY <1>1, <1>2, <3>1, <3>2, OneFrame
    <3> QED
      BY <1>2, <3>3
  <2>3. ASSUME NEW w \in Worker, Inside(w)
        PROVE  w \in Members(r) /\ Bottom(w) = r
    <3>1. Bottom(w) = r
      BY <1>1, <2>1, <2>3 DEF WorkerInv
    <3>2. regions[r].team = w.team
      BY <1>1, <1>3, <2>3, <3>1, ThreadIs DEF FrameInv, Bottom
    <3> QED
      BY <1>4, <3>1, <3>2
  <2> QED
    BY <1>1, <1>2, <2>1, <2>2, <2>3, ThreadIs DEF SyncInv
<1>6. CASE regions[r].team = Nested
  <2>1. ASSUME NEW u \in Thread, Inside(u)
        PROVE  frames'[u][1] = frames[u][1]
    <3>1. CASE u \in Members(r)
      <4>1. Len(frames[u]) # 1
        <5>1. 1 \in DOMAIN frames[u] /\ regions[frames[u][1].region].team \in Keys
          BY <1>1, <1>3, <2>1 DEF FrameInv
        <5> QED
          BY <1>2, <1>6, <3>1, <5>1, KeyFacts
      <4>2. 1 \in 1..(Len(frames[u]) - 1)
        <5>1. Len(frames[u]) \in Nat \ {0}
          BY <1>2, <3>1
        <5>2. \A n \in Nat \ {0} : n # 1 => 1 \in 1..(n - 1)
          OBVIOUS
        <5> QED
          BY <4>1, <5>1, <5>2
      <4> QED
        BY <1>2, <3>1, <4>2
    <3>2. CASE u \notin Members(r)
      BY <1>2, <3>2
    <3> QED
      BY <3>1, <3>2
  <2>2. \A w \in Worker : Inside(w) => Inside(InitialThread)
    BY <1>1 DEF WorkerInv
  <2> QED
    BY <1>1, <1>2, <2>1, <2>2, ThreadIs DEF SyncInv
<1> QED
  BY <1>4, <1>5, <1>6

\* A worker that leaves is in no region; nested regions are not the first.
LEMMA SyncLeft ==
  ASSUME JoinedInv, NEW t \in Thread,
         (t \in Worker /\ Park(t)) \/ JoinNested(t) \/ (t = InitialThread /\ Join)
  PROVE  SyncInv'
<1>1. /\ IInv /\ TypeOK /\ PcInv /\ FrameInv /\ LiveInv /\ WorkerInv /\ SyncInv
  BY DEF JoinedInv, IInv
<1>2. CASE t \in Worker /\ Park(t)
  <2>1. frames'[t] = <<>> /\ \A u \in Thread : u # t => frames'[u] = frames[u]
    BY <1>1, <1>2 DEF Park, TypeOK
  <2> QED
    BY <1>1, <1>2, <2>1, ThreadIs DEF SyncInv, Inside
<1>3. CASE JoinNested(t)
  <2>1. /\ Len(frames[t]) > 1
        /\ frames' = [frames EXCEPT ![t] = SubSeq(@, 1, Len(@) - 1)]
    BY <1>3 DEF JoinNested, Leave
  <2>2. frames[t] \in Seq(Frame) /\ Len(frames[t]) \in Nat
    BY <1>1, StackShape DEF TypeOK
  <2>3. frames[t] # <<>> /\ 1 \in 1..(Len(frames[t]) - 1) /\ Inside(t)
    BY <2>1, <2>2, StackShape DEF Inside
  <2>4. frames'[t][1] = frames[t][1]
    BY <1>1, <2>1, <2>2, <2>3, StackPop DEF TypeOK
  <2>5. \A u \in Thread : u # t => frames'[u] = frames[u]
    BY <1>1, <2>1 DEF TypeOK
  <2> QED
    BY <1>1, <2>3, <2>4, <2>5, ThreadIs DEF SyncInv, Inside
<1>4. CASE t = InitialThread /\ Join
  <2>1. ASSUME NEW w \in Worker
        PROVE  ~Inside(w)'
    <3>1. /\ Len(frames[t]) = 1 /\ pc[t] = "ending"
          /\ \A u \in Members(Top(t)) \ {t} : pc[u] = "parked"
          /\ \A u \in Thread : u # t => frames'[u] = frames[u]
      BY <1>1, <1>4 DEF Join, Leave, TypeOK
    <3>2. SUFFICES ASSUME Inside(w)
                   PROVE  FALSE
      BY <1>4, <3>1, ThreadIs DEF Inside
    <3>3. Bottom(w) = Top(t)
      BY <1>1, <1>4, <3>1, <3>2 DEF WorkerInv, Bottom, Top
    <3>4. frames[w] \in Seq(Frame) /\ Len(frames[w]) \in Nat /\ Len(frames[w]) # 0
      BY <1>1, <3>2, StackShape, ThreadIs DEF TypeOK, Inside
    <3>5. 1 \in DOMAIN frames[w]
      BY <3>4, StackShape
    <3>6. Top(t) \in 1..Len(regions) /\ regions[Top(t)].team = w.team
      BY <1>1, <3>3, <3>5, FrameRegion, ThreadIs DEF FrameInv, Bottom
    <3>7. w \in Members(Top(t)) /\ w # t
      BY <1>1, <1>4, <3>6, MemberFacts, ThreadIs
    <3> QED
      BY <1>1, <3>1, <3>2, <3>7 DEF PcInv
  <2> QED
    BY <2>1 DEF SyncInv
<1> QED
  BY <1>2, <1>3, <1>4

LEMMA JoinedStep == JoinedInv /\ [Next]_vars => JoinedInv'
<1> SUFFICES ASSUME JoinedInv, [Next]_vars
             PROVE  OuterInv' /\ SyncInv'
  BY NextInv DEF JoinedInv
<1>1. IInv /\ OuterInv /\ SyncInv
  BY DEF JoinedInv
<1>2. frames' = frames => SyncInv'
  BY <1>1 DEF SyncInv, Inside
<1>3. ASSUME NEW t \in Thread, NEW key \in Keys \cup {Nested}, Forks(t), Enter(t, key),
             IF Inside(t) THEN key = Nested ELSE key \in Keys
      PROVE  OuterInv' /\ SyncInv'
  <2>1. ~Inside(t) => t = InitialThread
    BY <1>1, <1>3, OutsideIsInitial DEF IInv
  <2> QED
    BY <1>1, <1>3, <2>1, EnterOuter, SyncForked
<1>4. ASSUME NEW t \in Thread, Constructs(t)
      PROVE  OuterInv' /\ SyncInv'
  <2>1. CASE \E n \in NumThreads : PushNumThreads(t, n)
    BY <1>1, <1>2, <2>1, OuterKept DEF PushNumThreads
  <2>2. CASE ForkNested(t)
    BY <1>3, <2>2 DEF ForkNested
  <2>3. ASSUME NEW k \in Keys, ForkCached(t, k)
        PROVE  OuterInv' /\ SyncInv'
    BY <1>3, <2>3 DEF ForkCached
  <2>4. ASSUME NEW k \in Keys, ForkNew(t, k)
        PROVE  OuterInv' /\ SyncInv'
    BY <1>1, <1>2, <1>3, <2>4, OuterKept DEF ForkNew
  <2> QED
    BY <1>4, <2>1, <2>2, <2>3, <2>4 DEF Constructs
<1>5. ASSUME NEW t \in Thread, Proceeds(t)
      PROVE  OuterInv' /\ SyncInv'
  <2>1. OuterInv'
    BY <1>1, <1>5, OuterKept DEF Proceeds, Arrive, JoinNested, Dispatched, Park, Join, Leave
  <2>2. Arrive(t) => SyncInv'
    BY <1>2 DEF Arrive
  <2> QED
    BY <1>5, <2>1, <2>2, SyncDispatched, SyncLeft DEF Proceeds
<1>6. ASSUME NEW r \in 1..Len(regions), TeamBarrier(r)
      PROVE  OuterInv' /\ SyncInv'
  BY <1>1, <1>6, OuterKept, SyncBarrier DEF TeamBarrier
<1>7. CASE Exit \/ UNCHANGED vars
  BY <1>1, <1>2, <1>7, OuterKept DEF Exit, vars
<1> QED
  BY <1>4, <1>5, <1>6, <1>7 DEF Next, Done

-------------------------------------------------------------------------------
(* The mapped state.                                                       *)

LastStep == 2 * (Barriers + 1) + 1

\* The places of a stack that are in region r.
FramesOf(s, r) == {n \in DOMAIN s : s[n].region = r}

\* How far in region r a thread is that has the stack s and is at p; queued
\* says that it has yet to take the region up.
Progress(s, p, queued, r) ==
  LET in == FramesOf(s, r)
  IN  IF in # {}
        THEN LET n == CHOOSE m \in in : TRUE
             IN  2 * s[n].passed + 1 + IF n = Len(s) /\ p = "barrier" THEN 1 ELSE 0
        ELSE IF queued THEN 0 ELSE LastStep

Queued(r, i) == r \in live /\ i > 1 /\ i - 1 \in todo[regions[r].team]

sizes   == [r \in Region |-> IF r \in DOMAIN regions THEN SizeOf(r) ELSE 0]
forkers == [r \in Region |-> IF r \in DOMAIN regions THEN ForkerOf(r) ELSE <<0, 1>>]
steps   == [r \in Region |-> [i \in 1..MaxSize |-> StepOf(r, i)]]
overs   == {r \in DOMAIN regions : r \notin live}

mapped == <<sizes, forkers, steps, overs>>

\* The steps of a member that has passed n barriers.
RunAt(n)  == 2 * n + 1
WaitAt(n) == 2 * n + 2

\* The thread with the stack s is in region r once, at the n-th place.
Only(s, r, n) == FramesOf(s, r) = {n}

LEMMA ProgressIn ==
  ASSUME NEW s, NEW p, NEW q, NEW r, NEW n, Only(s, r, n), s[n].passed \in Nat
  PROVE  /\ n = Len(s) /\ p = "barrier" => Progress(s, p, q, r) = WaitAt(s[n].passed)
         /\ ~(n = Len(s) /\ p = "barrier") => Progress(s, p, q, r) = RunAt(s[n].passed)
<1>2. Progress(s, p, q, r) = 2 * s[n].passed + 1 + IF n = Len(s) /\ p = "barrier" THEN 1 ELSE 0
  BY DEF Progress, Only
<1> DEFINE b == n = Len(s) /\ p = "barrier"
<1>3. (b => Progress(s, p, q, r) = 2 * s[n].passed + 1 + 1) /\ (~b => Progress(s, p, q, r) = 2 * s[n].passed + 1 + 0)
  BY <1>2
<1> HIDE DEF b
<1>4. (b => Progress(s, p, q, r) = 2 * s[n].passed + 2) /\ (~b => Progress(s, p, q, r) = 2 * s[n].passed + 1)
  BY <1>3
<1> QED
  BY <1>4 DEF b, RunAt, WaitAt

LEMMA ProgressWaits ==
  ASSUME NEW s, NEW p, NEW q, NEW r, NEW v \in Nat,
         Only(s, r, Len(s)), s[Len(s)].passed = v
  PROVE  p = "barrier" => Progress(s, p, q, r) = WaitAt(v)
<1>1. s[Len(s)].passed \in Nat
  OBVIOUS
<1>2. p = "barrier" => Progress(s, p, q, r) = WaitAt(s[Len(s)].passed)
  BY <1>1, ProgressIn
<1> QED
  BY <1>2

LEMMA ProgressRuns ==
  ASSUME NEW s, NEW p, NEW q, NEW r, NEW n, NEW v \in Nat,
         Only(s, r, n), s[n].passed = v
  PROVE  n # Len(s) \/ p # "barrier" => Progress(s, p, q, r) = RunAt(v)
<1>1. s[n].passed \in Nat
  OBVIOUS
<1>2. ~(n = Len(s) /\ p = "barrier") => Progress(s, p, q, r) = RunAt(s[n].passed)
  BY <1>1, ProgressIn
<1> QED
  BY <1>2

LEMMA ProgressOut ==
  ASSUME NEW s, NEW p, NEW q, NEW r, FramesOf(s, r) = {}
  PROVE  Progress(s, p, q, r) = IF q THEN 0 ELSE LastStep
  BY DEF Progress

LEMMA StepIs ==
  ASSUME NEW r \in 1..Len(regions), NEW i \in 1..SizeOf(r), TypeOK
  PROVE  StepOf(r, i) = Progress(frames[MemberOf(r, i)], pc[MemberOf(r, i)], Queued(r, i), r)
<1>1. r \in DOMAIN regions /\ ~(i > SizeOf(r))
  BY RegionsShape, SizeFacts
<1> QED
  BY <1>1 DEF StepOf, Progress, FramesOf, Queued, LastStep

LEMMA StepIsNext ==
  ASSUME NEW r \in 1..Len(regions'), NEW i \in 1..SizeOf(r)', TypeOK'
  PROVE  StepOf(r, i)' = Progress(frames'[MemberOf(r, i)'], pc'[MemberOf(r, i)'], Queued(r, i)', r)
<1>1. regions' \in Seq(RegionRecord)
  BY DEF TypeOK, RegionRecord
<1>2. r \in DOMAIN regions' /\ regions'[r].team \in Keys \cup {Nested}
  <2>1. DOMAIN regions' = 1..Len(regions') /\ regions'[r] \in RegionRecord
    BY <1>1, LenProperties, ElementOfSeq
  <2> QED
    BY <2>1 DEF RegionRecord
<1>3. SizeOf(r)' \in Nat
  <2>1. SizeOf(r)' = IF regions'[r].team = Nested THEN 1 ELSE Size(regions'[r].team)
    BY DEF SizeOf
  <2>2. regions'[r].team \in Keys => Size(regions'[r].team) \in Nat
    BY KeyFacts
  <2> QED
    BY <1>2, <2>1, <2>2
<1>4. ~(i > SizeOf(r)')
  BY <1>3
<1> QED
  BY <1>2, <1>4 DEF StepOf, Progress, FramesOf, Queued, LastStep

\* A region that is not forked, or a place the team does not have.
LEMMA NoStep ==
  ASSUME TypeOK, NEW r \in Region, NEW i \in 1..MaxSize, ~(r \in 1..Len(regions) /\ i \in 1..SizeOf(r))
  PROVE  StepOf(r, i) = 0
<1>1. r \notin DOMAIN regions \/ i > SizeOf(r)
  <2>1. CASE r \in 1..Len(regions)
    <3>1. SizeOf(r) \in Nat
      BY <2>1, SizeFacts
    <3> QED
      BY <2>1, <3>1
  <2>2. CASE r \notin 1..Len(regions)
    BY <2>2, RegionsShape
  <2> QED
    BY <2>1, <2>2
<1> QED
  BY <1>1 DEF StepOf

LEMMA NoStepNext ==
  ASSUME NEW r \in Region, NEW i \in 1..MaxSize,
         ~(r \in DOMAIN regions' /\ ~(i > SizeOf(r)'))
  PROVE  StepOf(r, i)' = 0
  BY DEF StepOf

\* What stays the same while no region is forked.
LEMMA SameTeams ==
  ASSUME regions' = regions
  PROVE  /\ sizes' = sizes /\ forkers' = forkers
         /\ \A r, i : MemberOf(r, i)' = MemberOf(r, i) /\ SizeOf(r)' = SizeOf(r)
  BY DEF sizes, forkers, ForkerOf, MemberOf, SizeOf

\* Where every member's progress is kept, so is its step.
LEMMA StepKept ==
  ASSUME TypeOK, TypeOK', regions' = regions, NEW r \in Region, NEW i \in 1..MaxSize,
         r \in 1..Len(regions) /\ i \in 1..SizeOf(r) =>
           LET t == MemberOf(r, i)
           IN  Progress(frames'[t], pc'[t], Queued(r, i)', r) = Progress(frames[t], pc[t], Queued(r, i), r)
  PROVE  StepOf(r, i)' = StepOf(r, i)
<1>1. MemberOf(r, i)' = MemberOf(r, i) /\ SizeOf(r)' = SizeOf(r) /\ DOMAIN regions' = DOMAIN regions
  BY SameTeams
<1>2. CASE r \in 1..Len(regions) /\ i \in 1..SizeOf(r)
  <2>1. r \in 1..Len(regions') /\ i \in 1..SizeOf(r)'
    BY <1>1, <1>2
  <2>2. StepOf(r, i)' = Progress(frames'[MemberOf(r, i)'], pc'[MemberOf(r, i)'], Queued(r, i)', r)
    BY <2>1, StepIsNext
  <2> QED
    BY <1>1, <1>2, <2>2, StepIs
<1>3. CASE ~(r \in 1..Len(regions) /\ i \in 1..SizeOf(r))
  <2>1. StepOf(r, i) = 0
    BY <1>3, NoStep
  <2>2. ~(r \in DOMAIN regions' /\ ~(i > SizeOf(r)'))
    <3>1. DOMAIN regions = 1..Len(regions)
      BY RegionsShape
    <3>2. r \in 1..Len(regions) => SizeOf(r) \in Nat
      BY SizeFacts
    <3> QED
      BY <1>1, <1>3, <3>1, <3>2
  <2> QED
    BY <2>1, <2>2, NoStepNext
<1> QED
  BY <1>2, <1>3

LEMMA StepsSame ==
  ASSUME \A r \in Region : \A i \in 1..MaxSize : StepOf(r, i)' = StepOf(r, i)
  PROVE  steps' = steps
  BY DEF steps

LEMMA StepsOne ==
  ASSUME NEW r \in Region, NEW i \in 1..MaxSize, NEW v, StepOf(r, i)' = v,
         \A q \in Region : \A j \in 1..MaxSize : ~(q = r /\ j = i) => StepOf(q, j)' = StepOf(q, j)
  PROVE  steps' = [steps EXCEPT ![r][i] = v]
<1> DEFINE row == [j \in 1..MaxSize |-> StepOf(r, j)]
<1>1. steps[r] = row /\ DOMAIN steps = Region /\ DOMAIN steps' = Region
  BY DEF steps
<1>2. steps'[r] = [row EXCEPT ![i] = v]
  <2>1. steps'[r] = [j \in 1..MaxSize |-> StepOf(r, j)']
    BY DEF steps
  <2>2. [row EXCEPT ![i] = v] = [j \in 1..MaxSize |-> IF j = i THEN v ELSE StepOf(r, j)]
    OBVIOUS
  <2>3. \A j \in 1..MaxSize : StepOf(r, j)' = IF j = i THEN v ELSE StepOf(r, j)
    OBVIOUS
  <2> QED
    BY <2>1, <2>2, <2>3
<1>3. ASSUME NEW q \in Region, q # r
      PROVE  steps'[q] = steps[q]
  BY <1>3 DEF steps
<1>4. [steps EXCEPT ![r][i] = v] = [steps EXCEPT ![r] = [steps[r] EXCEPT ![i] = v]]
  OBVIOUS
<1>5. steps = [q \in Region |-> steps[q]] /\ steps' = [q \in Region |-> steps'[q]]
  BY DEF steps
<1> HIDE DEF row
<1> QED
  BY <1>1, <1>2, <1>3, <1>4, <1>5

-------------------------------------------------------------------------------
(* The abstract steps, over the mapped state.                              *)

FjOpen(r) == sizes[r] # 0 /\ r \notin overs

FjMoves(m) ==
  /\ \/ m = <<0, 1>>
     \/ m[1] \in Region /\ steps[m[1]][m[2]] % 2 = 1 /\ steps[m[1]][m[2]] < LastStep
  /\ \A r \in Region : FjOpen(r) => forkers[r] # m

LEMMA AbstractStutter ==
  ASSUME UNCHANGED mapped
  PROVE  [FJ!Next]_(FJ!vars)
  BY DEF mapped, sizes, forkers, steps, overs, FJ!vars

LEMMA AbstractFork ==
  ASSUME NEW r \in Region, NEW n \in 1..MaxSize,
         NEW m \in (Region \X (1..MaxSize)) \cup {<<0, 1>>},
         FjMoves(m), sizes[r] = 0, \A q \in Region : q < r => sizes[q] # 0,
         sizes' = [sizes EXCEPT ![r] = n], forkers' = [forkers EXCEPT ![r] = m],
         steps' = [steps EXCEPT ![r][1] = 1], overs' = overs
  PROVE  [FJ!Next]_(FJ!vars)
<1>1. FJ!Fork(m, r, n)
  BY DEF FJ!Fork, FJ!Moves, FJ!Open, FJ!Initial, FJ!Running, FJ!Last, LastStep,
         FjMoves, FjOpen, sizes, forkers, steps, overs
<1> QED
  BY <1>1 DEF FJ!Next, FJ!Member, FJ!Initial

LEMMA AbstractStart ==
  ASSUME NEW r \in Region, NEW i \in 1..MaxSize,
         FjOpen(r), i <= sizes[r], steps[r][i] = 0,
         steps' = [steps EXCEPT ![r][i] = 1], UNCHANGED <<sizes, forkers, overs>>
  PROVE  [FJ!Next]_(FJ!vars)
<1>1. FJ!Start(r, i)
  BY DEF FJ!Start, FJ!Open, FjOpen, sizes, forkers, steps, overs
<1> QED
  BY <1>1 DEF FJ!Next, FJ!Member

LEMMA AbstractArrive ==
  ASSUME NEW r \in Region, NEW i \in 1..MaxSize,
         FjOpen(r), FjMoves(<<r, i>>),
         steps' = [steps EXCEPT ![r][i] = steps[r][i] + 1], UNCHANGED <<sizes, forkers, overs>>
  PROVE  [FJ!Next]_(FJ!vars)
<1>1. steps' = [steps EXCEPT ![r][i] = @ + 1]
  OBVIOUS
<1>2. FJ!Arrive(r, i)
  BY <1>1 DEF FJ!Arrive, FJ!Moves, FJ!Open, FJ!Initial, FJ!Running, FJ!Last, LastStep,
              FjMoves, FjOpen, sizes, forkers, steps, overs
<1> QED
  BY <1>2 DEF FJ!Next, FJ!Member

LEMMA AbstractRelease ==
  ASSUME NEW r \in Region, NEW s \in 0..LastStep,
         FjOpen(r), s % 2 = 0, s > 0, \A i \in 1..sizes[r] : steps[r][i] = s,
         steps' = [steps EXCEPT ![r] = [i \in 1..MaxSize |-> IF i <= sizes[r] THEN s + 1 ELSE 0]],
         UNCHANGED <<sizes, forkers, overs>>
  PROVE  [FJ!Next]_(FJ!vars)
<1>1. FJ!Release(r, s)
  BY DEF FJ!Release, FJ!Open, FJ!Member, FjOpen, sizes, forkers, steps, overs
<1> QED
  BY <1>1 DEF FJ!Next, FJ!Last, LastStep

LEMMA AbstractJoin ==
  ASSUME NEW r \in Region, FjOpen(r), \A i \in 1..sizes[r] : steps[r][i] = LastStep,
         overs' = overs \cup {r}, UNCHANGED <<sizes, forkers, steps>>
  PROVE  [FJ!Next]_(FJ!vars)
<1>1. FJ!Join(r)
  BY DEF FJ!Join, FJ!Open, FJ!Last, LastStep, FjOpen, sizes, forkers, steps, overs
<1> QED
  BY <1>1 DEF FJ!Next

-------------------------------------------------------------------------------
(* Every step is one of them, or a stutter.                                *)

LEMMA Parity == \A k \in Nat : (2 * k) % 2 = 0 /\ (2 * k + 1) % 2 = 1
  OBVIOUS

LEMMA OpenIs ==
  ASSUME IInv
  PROVE  /\ \A r \in live : /\ r \in Region /\ r \in 1..Len(regions) /\ FjOpen(r)
                            /\ sizes[r] = SizeOf(r)
         /\ \A r \in Region : FjOpen(r) => r \in live /\ forkers[r] = ForkerOf(r)
<1>1. TypeOK /\ LiveInv /\ CountInv
  BY DEF IInv
<1>2. Len(regions) \in Nat /\ DOMAIN regions = 1..Len(regions) /\ \A r \in 1..Len(regions) : r \in Region
  BY <1>1, RegionsShape, RegionNumbers
<1>3. ASSUME NEW r \in live
      PROVE  /\ r \in Region /\ r \in 1..Len(regions) /\ FjOpen(r)
             /\ sizes[r] = SizeOf(r)
  <2>1. r \in Region /\ r \in DOMAIN regions /\ r \in 1..Len(regions)
    BY <1>1, <1>2, <1>3 DEF LiveInv
  <2>2. SizeOf(r) \in Nat \ {0}
    BY <1>1, <2>1, SizeFacts
  <2>3. sizes[r] = SizeOf(r)
    BY <2>1 DEF sizes
  <2> QED
    BY <1>3, <2>1, <2>2, <2>3 DEF FjOpen, overs
<1>4. ASSUME NEW r \in Region, FjOpen(r)
      PROVE  r \in live /\ forkers[r] = ForkerOf(r)
  <2>1. r \in DOMAIN regions
    BY <1>4 DEF FjOpen, sizes
  <2> QED
    BY <1>4, <2>1 DEF FjOpen, overs, forkers
<1> QED
  BY <1>3, <1>4

LEMMA ForkerIs ==
  ASSUME TypeOK, OuterInv, NEW r \in 1..Len(regions)
  PROVE  /\ regions[r].outer = 0 => ForkerOf(r) = <<0, 1>>
         /\ regions[r].outer # 0 =>
              \E o \in 1..(r - 1) : \E i \in 1..SizeOf(o) :
                regions[r].outer = o /\ ForkerOf(r) = <<o, i>> /\ MemberOf(o, i) = regions[r].by
<1>1. CASE regions[r].outer = 0
  BY <1>1 DEF ForkerOf
<1>2. CASE regions[r].outer # 0
  <2>1. PICK o \in 0..(r - 1) : regions[r].outer = o /\ o # 0 /\ regions[r].by \in Members(o)
    BY <1>2, RegionsShape DEF OuterInv
  <2>2. o \in 1..(r - 1)
    BY <2>1
  <2> DEFINE i == CHOOSE j \in 1..SizeOf(o) : MemberOf(o, j) = regions[r].by
  <2>3. i \in 1..SizeOf(o) /\ MemberOf(o, i) = regions[r].by
    BY <2>1 DEF Members
  <2>4. ForkerOf(r) = <<o, i>>
    BY <2>1 DEF ForkerOf
  <2> HIDE DEF i
  <2> QED
    BY <2>1, <2>2, <2>3, <2>4
<1> QED
  BY <1>1, <1>2

\* Where a thread is that runs a region's code.
LEMMA InnermostStep ==
  ASSUME IInv, OuterInv, NEW t \in Thread, Inside(t),
         NEW i \in 1..SizeOf(Top(t)), MemberOf(Top(t), i) = t
  PROVE  /\ frames[t][Len(frames[t])].passed \in Nat
         /\ pc[t] = "barrier" => steps[Top(t)][i] = WaitAt(frames[t][Len(frames[t])].passed)
         /\ pc[t] # "barrier" => steps[Top(t)][i] = RunAt(frames[t][Len(frames[t])].passed)
         /\ steps[Top(t)][i] = StepOf(Top(t), i)
         /\ i \in 1..MaxSize
<1> DEFINE r == Top(t)
           n == Len(frames[t])
<1>1. TypeOK /\ FrameInv /\ LiveInv /\ CountInv
  BY DEF IInv
<1>2. r \in live /\ r \in 1..Len(regions) /\ n \in DOMAIN frames[t] /\ r \in Region
  BY <1>1, InnermostPlace, RegionNumbers
<1>3. frames[t][n] \in Frame /\ frames[t][n].region = r
  <2>1. frames[t] \in Seq(Frame)
    BY <1>1 DEF TypeOK
  <2> QED
    BY <1>2, <2>1, StackShape DEF Top
<1>4. Only(frames[t], r, n)
  <2>1. \A m \in DOMAIN frames[t] : frames[t][m].region = r => m = n
    BY <1>1, <1>2, <1>3, OneFrame
  <2> QED
    BY <1>2, <1>3, <2>1 DEF FramesOf, Only
<1>5. StepOf(r, i) = Progress(frames[t], pc[t], Queued(r, i), r)
  BY <1>1, <1>2, StepIs
<1>6. /\ frames[t][n].passed \in Nat
      /\ pc[t] = "barrier" => Progress(frames[t], pc[t], Queued(r, i), r) = WaitAt(frames[t][n].passed)
      /\ pc[t] # "barrier" => Progress(frames[t], pc[t], Queued(r, i), r) = RunAt(frames[t][n].passed)
  <2>1. frames[t][n].passed \in Nat
    BY <1>3, BoundAssumption DEF Frame
  <2> QED
    BY <1>2, <1>3, <1>4, <2>1, ProgressIn
<1>7. i \in 1..MaxSize
  <2>1. SizeOf(r) \in Nat /\ SizeOf(r) <= MaxSize
    BY <1>1, <1>2, SizeFacts
  <2> QED
    BY <2>1, MaxSizeIs
<1>8. steps[r][i] = StepOf(r, i)
  BY <1>2, <1>7 DEF steps
<1> QED
  BY <1>5, <1>6, <1>7, <1>8

\* It is in no region that it forked itself.
LEMMA MovesIs ==
  ASSUME JoinedInv, NEW t \in Thread, Inside(t), pc[t] \in {"body", "pushed"},
         NEW i \in 1..SizeOf(Top(t)), MemberOf(Top(t), i) = t
  PROVE  FjMoves(<<Top(t), i>>)
<1> DEFINE r == Top(t)
           p == frames[t][Len(frames[t])].passed
<1>1. IInv /\ TypeOK /\ FrameInv /\ LiveInv /\ PassedInv /\ CountInv /\ OuterInv
  BY DEF JoinedInv, IInv
<1>2. r \in live /\ r \in 1..Len(regions) /\ Len(frames[t]) \in DOMAIN frames[t] /\ r \in Region
  BY <1>1, InnermostPlace, RegionNumbers
<1>3. p <= Barriers
  BY <1>1, <1>2 DEF PassedInv
<1>4. p \in Nat /\ steps[r][i] = RunAt(p)
  <2>1. pc[t] # "barrier"
    OBVIOUS
  <2> QED
    BY <1>1, <2>1, InnermostStep
<1>5. steps[r][i] % 2 = 1 /\ steps[r][i] < LastStep
  <2> HIDE DEF p, r
  <2>1. RunAt(p) % 2 = 1
    BY <1>4, Parity DEF RunAt
  <2>2. RunAt(p) < LastStep
    BY <1>3, <1>4, BoundAssumption DEF LastStep, RunAt
  <2> QED
    BY <1>4, <2>1, <2>2
<1>6. ASSUME NEW q \in Region, FjOpen(q), forkers[q] = <<r, i>>
      PROVE  FALSE
  <2>1. q \in live /\ q \in 1..Len(regions) /\ ForkerOf(q) = <<r, i>>
    BY <1>1, <1>6, OpenIs
  <2>2. r # 0
    BY <1>2
  <2>3. PICK o \in 1..(q - 1) : \E j \in 1..SizeOf(o) :
          regions[q].outer = o /\ ForkerOf(q) = <<o, j>> /\ MemberOf(o, j) = regions[q].by
    <3>1. regions[q].outer # 0
      BY <1>1, <2>1, <2>2, ForkerIs
    <3> QED
      BY <1>1, <2>1, <3>1, ForkerIs
  <2>4. r = o /\ regions[q].by = t
    BY <2>1, <2>3
  <2>5. r < q /\ q \in Nat /\ r \in Nat
    BY <1>2, <2>1, <2>3, <2>4
  <2>6. PICK n \in DOMAIN frames[t] : frames[t][n].region = q
    BY <1>1, <2>1, <2>4 DEF LiveInv
  <2>7. n \in 1..Len(frames[t]) /\ Len(frames[t]) \in Nat /\ n <= Len(frames[t])
    BY <1>1, StackShape DEF TypeOK
  <2>8. frames[t][Len(frames[t])].region = r
    BY DEF Top
  <2>9. n < Len(frames[t]) => q < r
    BY <1>1, <1>2, <2>6, <2>8 DEF FrameInv
  <2>10. n = Len(frames[t]) => q = r
    BY <2>6, <2>8
  <2> HIDE DEF r
  <2> QED
    BY <2>5, <2>7, <2>9, <2>10
<1> QED
  BY <1>2, <1>5, <1>6 DEF FjMoves

-------------------------------------------------------------------------------
(* The steps that leave every member where it is.                          *)

LEMMA ProgressSame ==
  ASSUME NEW s, NEW p, NEW p2, NEW q, NEW r,
         (p = "barrier" <=> p2 = "barrier") \/ Len(s) \notin FramesOf(s, r)
  PROVE  Progress(s, p2, q, r) = Progress(s, p, q, r)
<1>1. CASE FramesOf(s, r) = {}
  BY <1>1, ProgressOut
<1>2. CASE FramesOf(s, r) # {}
  <2> DEFINE n == CHOOSE m \in FramesOf(s, r) : TRUE
  <2>1. n \in FramesOf(s, r)
    BY <1>2
  <2>2. (n = Len(s) /\ p = "barrier") <=> (n = Len(s) /\ p2 = "barrier")
    BY <2>1
  <2> QED
    BY <1>2, <2>2 DEF Progress
<1> QED
  BY <1>1, <1>2

\* A region has one frame on the stacks of the threads that are in it.
LEMMA FrameIs ==
  ASSUME IInv, NEW t \in Thread, NEW n \in DOMAIN frames[t]
  PROVE  /\ Only(frames[t], frames[t][n].region, n)
         /\ frames[t][n].passed \in Nat
<1>1. TypeOK /\ FrameInv /\ LiveInv
  BY DEF IInv
<1> DEFINE r == frames[t][n].region
<1>2. \A m \in DOMAIN frames[t] : frames[t][m].region = r => m = n
  BY <1>1, OneFrame
<1>3. frames[t][n] \in Frame
  <2>1. frames[t] \in Seq(Frame)
    BY <1>1 DEF TypeOK
  <2> QED
    BY <2>1, StackShape
<1> HIDE DEF r
<1>4. Only(frames[t], r, n)
  BY <1>2 DEF FramesOf, Only, r
<1> QED
  BY <1>3, <1>4, BoundAssumption DEF Frame, r

LEMMA OutOf ==
  ASSUME IInv, NEW t \in Thread, ~Inside(t), NEW r
  PROVE  FramesOf(frames[t], r) = {}
<1>1. frames[t] \in Seq(Frame)
  BY DEF IInv, TypeOK
<1>2. DOMAIN frames[t] = {}
  BY <1>1, StackShape DEF Inside
<1> QED
  BY <1>2 DEF FramesOf

\* A member that has yet to take its region up is parked, and the initial
\* thread is before the region's first barrier.
LEMMA QueuedParked ==
  ASSUME IInv, OuterInv, NEW r \in 1..Len(regions), NEW i \in 1..SizeOf(r), Queued(r, i)
  PROVE  /\ MemberOf(r, i) \in Worker /\ pc[MemberOf(r, i)] = "parked"
         /\ Inside(InitialThread) /\ Bottom(InitialThread) = r
         /\ frames[InitialThread][1].passed = 0
<1>1. TypeOK /\ FrameInv /\ LiveInv /\ DispatchInv
  BY DEF IInv
<1>2. r \in live /\ i > 1 /\ i # 1 /\ i - 1 \in todo[regions[r].team]
  BY DEF Queued
<1>3. MemberOf(r, i) \in Worker /\ regions[r].team \in Keys
  BY <1>1, <1>2, MemberPlaces
<1>4. MemberOf(r, i) = [team |-> regions[r].team, tid |-> i - 1]
  BY <1>2 DEF MemberOf
<1>5. pc[MemberOf(r, i)] = "parked" /\ frames[InitialThread][1].passed = 0
  BY <1>1, <1>2, <1>3, <1>4 DEF DispatchInv
<1> QED
  BY <1>1, <1>2, <1>3, <1>5, LiveTop

\* What leaves stacks, arrivals, argument blocks and dispatches alone.
LEMMA QuietStep ==
  ASSUME TypeOK, TypeOK', UNCHANGED <<frames, todo, regions, live>>,
         \A u \in Thread : pc'[u] = "barrier" <=> pc[u] = "barrier", OuterInv
  PROVE  [FJ!Next]_(FJ!vars)
<1>1. ASSUME NEW r \in Region, NEW i \in 1..MaxSize
      PROVE  StepOf(r, i)' = StepOf(r, i)
  <2>1. ASSUME r \in 1..Len(regions), i \in 1..SizeOf(r)
        PROVE  LET t == MemberOf(r, i)
               IN  Progress(frames'[t], pc'[t], Queued(r, i)', r) = Progress(frames[t], pc[t], Queued(r, i), r)
    <3> DEFINE t == MemberOf(r, i)
    <3>1. t \in Thread /\ Queued(r, i)' = Queued(r, i) /\ frames'[t] = frames[t]
      BY <2>1, MemberPlaces DEF Queued
    <3>2. pc'[t] = "barrier" <=> pc[t] = "barrier"
      BY <3>1
    <3> HIDE DEF t
    <3>3. Progress(frames[t], pc'[t], Queued(r, i), r) = Progress(frames[t], pc[t], Queued(r, i), r)
      BY <3>2, ProgressSame
    <3> QED
      BY <3>1, <3>3 DEF t
  <2> QED
    BY <2>1, StepKept
<1>2. steps' = steps
  BY <1>1, StepsSame
<1>3. sizes' = sizes /\ forkers' = forkers /\ overs' = overs
  BY SameTeams DEF overs
<1> QED
  BY <1>2, <1>3, AbstractStutter DEF mapped

LEMMA ParkStep ==
  ASSUME JoinedInv, TypeOK', NEW w \in Worker, Park(w)
  PROVE  [FJ!Next]_(FJ!vars)
<1>1. IInv /\ TypeOK /\ OuterInv /\ PassedInv /\ DispatchInv /\ w \in Thread
  BY ThreadIs DEF JoinedInv, IInv
<1>2. /\ Len(frames[w]) = 1 /\ pc[w] = "ending" /\ frames'[w] = <<>>
      /\ \A u \in Thread : u # w => frames'[u] = frames[u] /\ pc'[u] = pc[u]
  BY <1>1 DEF Park, TypeOK
<1>3. 1 \in DOMAIN frames[w] /\ DOMAIN frames[w] = {1}
  <2>1. frames[w] \in Seq(Frame)
    BY <1>1 DEF TypeOK
  <2> QED
    BY <1>2, <2>1, StackShape
<1>4. frames[w][1].passed = Barriers + 1
  BY <1>1, <1>2, <1>3 DEF PassedInv
<1>5. ASSUME NEW r \in Region, NEW i \in 1..MaxSize
      PROVE  StepOf(r, i)' = StepOf(r, i)
  <2>1. ASSUME r \in 1..Len(regions), i \in 1..SizeOf(r)
        PROVE  LET t == MemberOf(r, i)
               IN  Progress(frames'[t], pc'[t], Queued(r, i)', r) = Progress(frames[t], pc[t], Queued(r, i), r)
    <3> DEFINE t == MemberOf(r, i)
    <3>1. t \in Thread /\ Queued(r, i)' = Queued(r, i)
      BY <1>1, <2>1, MemberPlaces DEF Queued, Park
    <3>2. CASE t # w
      BY <1>2, <3>1, <3>2
    <3>3. CASE t = w
      <4>1. ~Queued(r, i)
        BY <1>1, <1>2, <2>1, <3>3, QueuedParked
      <4>2. FramesOf(<<>>, r) = {}
        BY DEF FramesOf
      <4>3. Progress(frames'[w], pc'[w], Queued(r, i)', r) = LastStep
        BY <1>2, <3>1, <4>1, <4>2, ProgressOut
      <4>4. CASE frames[w][1].region = r
        <5>1. Only(frames[w], r, 1) /\ frames[w][1].passed \in Nat
          BY <1>1, <1>3, <4>4, FrameIs
        <5>2. Progress(frames[w], pc[w], Queued(r, i), r) = RunAt(frames[w][1].passed)
          BY <1>2, <5>1, ProgressIn
        <5> QED
          BY <1>4, <3>3, <4>3, <5>2 DEF RunAt, LastStep
      <4>5. CASE frames[w][1].region # r
        <5>1. FramesOf(frames[w], r) = {}
          BY <1>3, <4>5 DEF FramesOf
        <5> QED
          BY <3>3, <4>1, <4>3, <5>1, ProgressOut
      <4> QED
        BY <4>4, <4>5
    <3> QED
      BY <3>2, <3>3
  <2>2. regions' = regions
    BY DEF Park
  <2> QED
    BY <1>1, <2>1, <2>2, StepKept
<1>6. steps' = steps
  BY <1>5, StepsSame
<1>7. sizes' = sizes /\ forkers' = forkers /\ overs' = overs
  BY SameTeams DEF overs, Park
<1> QED
  BY <1>6, <1>7, AbstractStutter DEF mapped

LEMMA DispatchedStep ==
  ASSUME JoinedInv, TypeOK', NEW w \in Worker, Dispatched(w)
  PROVE  [FJ!Next]_(FJ!vars)
<1> DEFINE i == w.tid + 1
<1>1. /\ IInv /\ TypeOK /\ OuterInv /\ PcInv /\ FrameInv /\ LiveInv /\ DispatchInv /\ CountInv
      /\ w \in Thread
  BY ThreadIs DEF JoinedInv, IInv
<1>2. /\ w.team \in Keys /\ w.tid \in 1..(Size(w.team) - 1) /\ w = [team |-> w.team, tid |-> w.tid]
      /\ pc[w] = "parked" /\ w.tid \in todo[w.team]
  BY WorkerFacts DEF Dispatched
<1>17. PICK r \in 0..MaxRegions : r = args[w.team]
  BY <1>1, <1>2 DEF TypeOK
<1>3. /\ frames'[w] = <<[region |-> r, passed |-> 0]>> /\ pc'[w] = "body"
      /\ \A u \in Thread : u # w => frames'[u] = frames[u] /\ pc'[u] = pc[u]
      /\ todo'[w.team] = todo[w.team] \ {w.tid}
      /\ \A k \in Keys : k # w.team => todo'[k] = todo[k]
      /\ UNCHANGED <<args, regions, live>>
  BY <1>1, <1>2, <1>17 DEF Dispatched, TypeOK
<1>4. /\ Inside(InitialThread) /\ Bottom(InitialThread) = r /\ regions[r].team = w.team
  BY <1>1, <1>2, <1>17 DEF DispatchInv
<1>5. r \in live /\ r \in 1..Len(regions) /\ r \in Region
  <2>1. frames[InitialThread] \in Seq(Frame) /\ frames[InitialThread] # <<>>
    BY <1>1, <1>4, ThreadIs DEF TypeOK, Inside
  <2>2. 1 \in DOMAIN frames[InitialThread]
    BY <2>1, StackShape
  <2> QED
    BY <1>1, <1>4, <2>2, ThreadIs, FrameRegion DEF Bottom
<1>6. i \in 1..SizeOf(r) /\ i \in 1..MaxSize /\ i > 1 /\ i - 1 = w.tid
  <2>1. SizeOf(r) = Size(w.team) /\ SizeOf(r) <= MaxSize /\ SizeOf(r) \in Nat
    BY <1>1, <1>2, <1>4, <1>5, SizeFacts
  <2> QED
    BY <1>2, <2>1, MaxSizeIs
<1>7. MemberOf(r, i) = w
  BY <1>2, <1>4, <1>6 DEF MemberOf
<1>8. ~Inside(w) /\ FramesOf(frames[w], r) = {}
  BY <1>1, <1>2, OutOf DEF PcInv
<1> HIDE DEF i
<1>9. StepOf(r, i) = 0
  <2>1. Queued(r, i)
    BY <1>2, <1>4, <1>5, <1>6 DEF Queued
  <2> QED
    BY <1>1, <1>5, <1>6, <1>7, <1>8, <2>1, StepIs, ProgressOut
<1>10. StepOf(r, i)' = 1
  <2>1. r \in 1..Len(regions') /\ i \in 1..SizeOf(r)' /\ MemberOf(r, i)' = w
    BY <1>3, <1>5, <1>6, <1>7, SameTeams
  <2>2. Only(frames'[w], r, 1) /\ frames'[w][1].passed = 0
    BY <1>3 DEF FramesOf, Only
  <2>3. Progress(frames'[w], pc'[w], Queued(r, i)', r) = RunAt(0)
    BY <1>3, <2>2, ProgressIn
  <2>4. StepOf(r, i)' = Progress(frames'[w], pc'[w], Queued(r, i)', r)
    BY <2>1, StepIsNext
  <2> QED
    BY <2>3, <2>4 DEF RunAt
<1>11. ASSUME NEW q \in Region, NEW j \in 1..MaxSize, ~(q = r /\ j = i)
       PROVE  StepOf(q, j)' = StepOf(q, j)
  <2>1. ASSUME q \in 1..Len(regions), j \in 1..SizeOf(q)
        PROVE  LET t == MemberOf(q, j)
               IN  Progress(frames'[t], pc'[t], Queued(q, j)', q) = Progress(frames[t], pc[t], Queued(q, j), q)
    <3> DEFINE t == MemberOf(q, j)
    <3>1. /\ t \in Thread
          /\ j # 1 => t \in Worker /\ regions[q].team \in Keys /\ t.team = regions[q].team /\ t.tid = j - 1
          /\ j > 1 => j # 1
      BY <1>1, <2>1, MemberPlaces
    <3>2. CASE t # w
      <4>1. ASSUME j > 1
            PROVE  (j - 1 \in todo'[regions[q].team]) <=> (j - 1 \in todo[regions[q].team])
        <5>1. regions[q].team = w.team => j - 1 # w.tid
          BY <1>2, <3>1, <3>2, <4>1, WorkerFacts
        <5> QED
          BY <1>3, <3>1, <4>1, <5>1
      <4>2. Queued(q, j)' = Queued(q, j)
        BY <1>3, <4>1 DEF Queued
      <4> QED
        BY <1>3, <3>1, <3>2, <4>2
    <3>3. CASE t = w
      <4>1. q # r
        BY <1>1, <1>5, <1>6, <1>7, <1>11, <2>1, <3>3, MemberPlaces
      <4>2. ~Queued(q, j)
        BY <1>1, <1>4, <2>1, <4>1, QueuedParked
      <4>3. ~Queued(q, j)'
        BY <1>3, <3>1, <4>2 DEF Queued
      <4>4. FramesOf(frames[w], q) = {}
        BY <1>1, <1>8, OutOf
      <4>5. FramesOf(frames'[w], q) = {}
        BY <1>3, <4>1 DEF FramesOf
      <4>6. Progress(frames'[w], pc'[w], Queued(q, j)', q) = LastStep
        BY <4>3, <4>5, ProgressOut
      <4>7. Progress(frames[w], pc[w], Queued(q, j), q) = LastStep
        BY <4>2, <4>4, ProgressOut
      <4> QED
        BY <3>3, <4>6, <4>7
    <3> QED
      BY <3>2, <3>3
  <2> QED
    BY <1>1, <1>3, <2>1, StepKept
<1>12. steps' = [steps EXCEPT ![r][i] = 1]
  BY <1>5, <1>6, <1>10, <1>11, StepsOne
<1>13. steps[r][i] = 0
  BY <1>5, <1>6, <1>9 DEF steps
<1>14. UNCHANGED <<sizes, forkers, overs>>
  BY <1>3, SameTeams DEF overs
<1>15. FjOpen(r) /\ i <= sizes[r]
  <2>1. FjOpen(r) /\ sizes[r] = SizeOf(r)
    BY <1>1, <1>5, OpenIs
  <2>2. SizeOf(r) \in Nat
    BY <1>1, <1>5, SizeFacts
  <2> QED
    BY <1>6, <2>1, <2>2
<1> QED
  BY <1>5, <1>6, <1>12, <1>13, <1>14, <1>15, AbstractStart

LEMMA ArriveStep ==
  ASSUME JoinedInv, TypeOK', NEW t \in Thread, Arrive(t)
  PROVE  [FJ!Next]_(FJ!vars)
<1>1. IInv /\ TypeOK /\ OuterInv /\ PcInv /\ FrameInv /\ LiveInv /\ CountInv
  BY DEF JoinedInv, IInv
<1>2. /\ pc[t] = "body" /\ pc'[t] = "barrier" /\ \A u \in Thread : u # t => pc'[u] = pc[u]
      /\ UNCHANGED <<frames, todo, regions, live>>
  BY <1>1 DEF Arrive, TypeOK
<1>3. Inside(t)
  BY <1>1, <1>2, ThreadIs DEF PcInv
<1>4. PICK r \in Region : r = Top(t)
  BY <1>1, <1>3, InnermostPlace, RegionNumbers
<1>5. r \in live /\ r \in 1..Len(regions) /\ Len(frames[t]) \in DOMAIN frames[t] /\ t \in Members(r)
  BY <1>1, <1>3, <1>4, InnermostPlace
<1>6. PICK i \in 1..SizeOf(r) : MemberOf(r, i) = t
  BY <1>5 DEF Members
<1>7. PICK n \in Nat : n = frames[t][Len(frames[t])].passed
  BY <1>1, <1>3, <1>4, <1>6, InnermostStep
<1>8. steps[r][i] = RunAt(n) /\ i \in 1..MaxSize
  <2>1. pc[t] # "barrier"
    BY <1>2
  <2> QED
    BY <1>1, <1>3, <1>4, <1>6, <1>7, <2>1, InnermostStep
<1>9. frames[t][Len(frames[t])].region = r
  BY <1>4 DEF Top
<1>10. Only(frames[t], r, Len(frames[t]))
  BY <1>1, <1>5, <1>9, FrameIs
<1>11. StepOf(r, i)' = WaitAt(n)
  <2>1. r \in 1..Len(regions') /\ i \in 1..SizeOf(r)' /\ MemberOf(r, i)' = t
    BY <1>2, <1>5, <1>6, SameTeams
  <2>2. Progress(frames[t], pc'[t], Queued(r, i)', r) = WaitAt(n)
    BY <1>2, <1>7, <1>10, ProgressWaits
  <2>3. StepOf(r, i)' = Progress(frames'[t], pc'[t], Queued(r, i)', r)
    BY <2>1, StepIsNext
  <2> QED
    BY <1>2, <2>2, <2>3
<1>12. ASSUME NEW q \in Region, NEW j \in 1..MaxSize, ~(q = r /\ j = i)
       PROVE  StepOf(q, j)' = StepOf(q, j)
  <2>1. ASSUME q \in 1..Len(regions), j \in 1..SizeOf(q)
        PROVE  LET u == MemberOf(q, j)
               IN  Progress(frames'[u], pc'[u], Queued(q, j)', q) = Progress(frames[u], pc[u], Queued(q, j), q)
    <3> DEFINE u == MemberOf(q, j)
    <3>1. u \in Thread /\ Queued(q, j)' = Queued(q, j) /\ frames'[u] = frames[u]
      BY <1>1, <1>2, <2>1, MemberPlaces DEF Queued
    <3>2. CASE u # t
      BY <1>2, <3>1, <3>2
    <3>3. CASE u = t
      <4>1. q # r
        BY <1>1, <1>5, <1>6, <1>12, <2>1, <3>3, MemberPlaces
      <4>2. Len(frames[t]) \notin FramesOf(frames[t], q)
        BY <1>9, <4>1 DEF FramesOf
      <4>3. Progress(frames[t], pc'[t], Queued(q, j), q) = Progress(frames[t], pc[t], Queued(q, j), q)
        BY <4>2, ProgressSame
      <4> QED
        BY <3>1, <3>3, <4>3
    <3> QED
      BY <3>2, <3>3
  <2> QED
    BY <1>1, <1>2, <2>1, StepKept
<1>13. steps' = [steps EXCEPT ![r][i] = WaitAt(n)]
  BY <1>8, <1>11, <1>12, StepsOne
<1>14. WaitAt(n) = steps[r][i] + 1
  BY <1>8 DEF RunAt, WaitAt
<1>15. UNCHANGED <<sizes, forkers, overs>>
  BY <1>2, SameTeams DEF overs
<1>16. FjOpen(r) /\ FjMoves(<<r, i>>)
  BY <1>1, <1>2, <1>3, <1>4, <1>5, <1>6, OpenIs, MovesIs
<1> QED
  BY <1>8, <1>13, <1>14, <1>15, <1>16, AbstractArrive

\* The members that wait at a barrier have passed as many.
LEMMA PassedTogether ==
  ASSUME JoinedInv, NEW r \in 1..Len(regions), TeamBarrier(r)
  PROVE  \E n \in 0..Barriers :
           \A u \in Members(r) : frames[u][Len(frames[u])].passed = n
<1>1. /\ IInv /\ TypeOK /\ FrameInv /\ LiveInv /\ WorkerInv /\ OuterInv /\ SyncInv
      /\ r \in live
  BY DEF JoinedInv, IInv, TeamBarrier
<1>2. \A u \in Members(r) :
        /\ u \in Thread /\ Len(frames[u]) \in Nat \ {0} /\ frames[u][Len(frames[u])].region = r
        /\ frames[u][Len(frames[u])].passed \in 0..Barriers
  BY <1>1, BarrierFacts
<1>3. /\ regions[r].by \in Members(r)
      /\ regions[r].team = Nested => Members(r) = {regions[r].by}
      /\ regions[r].team \in Keys \cup {Nested}
  BY <1>1, MemberFacts, RegionsShape
<1>4. CASE regions[r].team = Nested
  BY <1>2, <1>3, <1>4
<1>5. CASE regions[r].team \in Keys
  <2>1. ASSUME NEW u \in Members(r)
        PROVE  Inside(u) /\ Len(frames[u]) = 1
    <3>1. frames[u] \in Seq(Frame)
      BY <1>1, <1>2 DEF TypeOK
    <3>2. Inside(u) /\ Len(frames[u]) \in DOMAIN frames[u] /\ 1 \in DOMAIN frames[u]
      BY <1>2, <3>1, StackShape DEF Inside
    <3>3. regions[r].team # Nested
      BY <1>5, KeyFacts
    <3>4. Len(frames[u]) # 1 => regions[frames[u][Len(frames[u])].region].team = Nested
      BY <1>1, <1>2, <3>2 DEF FrameInv
    <3>5. Len(frames[u]) = 1
      BY <1>2, <3>3, <3>4
    <3> QED
      BY <3>2, <3>5
  <2>2. InitialThread \in Members(r)
    BY <1>1, <1>3, <1>5 DEF OuterInv, LiveInv
  <2>3. ASSUME NEW u \in Members(r)
        PROVE  frames[u][Len(frames[u])].passed = frames[InitialThread][1].passed
    <3>1. u # InitialThread => u \in Worker
      BY <1>2, ThreadIs
    <3> QED
      BY <1>1, <2>1, <3>1 DEF SyncInv
  <2> QED
    BY <1>2, <2>1, <2>2, <2>3
<1> QED
  BY <1>3, <1>4, <1>5

LEMMA BarrierStep ==
  ASSUME JoinedInv, TypeOK', NEW r \in 1..Len(regions), TeamBarrier(r)
  PROVE  [FJ!Next]_(FJ!vars)
<1>1. /\ IInv /\ TypeOK /\ FrameInv /\ LiveInv /\ OuterInv /\ CountInv /\ r \in live
      /\ UNCHANGED <<todo, regions, live>>
  BY DEF JoinedInv, IInv, TeamBarrier
<1>2. /\ \A u \in Members(r) :
           /\ u \in Thread /\ Len(frames[u]) \in Nat \ {0} /\ frames[u][Len(frames[u])].region = r
           /\ \A i \in 1..(Len(frames[u]) - 1) : frames'[u][i] = frames[u][i]
           /\ frames'[u][Len(frames[u])].passed = frames[u][Len(frames[u])].passed + 1
           /\ pc[u] = "barrier" /\ pc'[u] # "barrier"
      /\ \A u \in Thread : u \notin Members(r) => frames'[u] = frames[u] /\ pc'[u] = pc[u]
      /\ \A u \in Thread :
           /\ Len(frames'[u]) = Len(frames[u]) /\ DOMAIN frames'[u] = DOMAIN frames[u]
           /\ \A i \in DOMAIN frames[u] : frames'[u][i].region = frames[u][i].region
  BY <1>1, BarrierFacts
<1>3. PICK n \in 0..Barriers : \A u \in Members(r) : frames[u][Len(frames[u])].passed = n
  BY PassedTogether
<1>4. r \in Region /\ FjOpen(r) /\ sizes[r] = SizeOf(r) /\ SizeOf(r) \in Nat /\ SizeOf(r) <= MaxSize
  BY <1>1, OpenIs, SizeFacts
<1>5. ASSUME NEW u \in Thread, NEW q
      PROVE  FramesOf(frames'[u], q) = FramesOf(frames[u], q)
  BY <1>2 DEF FramesOf
<1>6. ASSUME NEW i \in 1..SizeOf(r)
      PROVE  StepOf(r, i) = WaitAt(n) /\ StepOf(r, i)' = RunAt(n + 1)
  <2>1. PICK u \in Members(r) : u = MemberOf(r, i)
    BY DEF Members
  <2>2. /\ u \in Thread /\ pc[u] = "barrier" /\ pc'[u] # "barrier"
        /\ frames[u][Len(frames[u])].region = r /\ frames[u][Len(frames[u])].passed = n
        /\ frames'[u][Len(frames[u])].passed = n + 1 /\ n \in Nat /\ n + 1 \in Nat
        /\ Len(frames[u]) \in DOMAIN frames[u]
    <3>1. u \in Thread /\ Len(frames[u]) \in Nat \ {0}
      BY <1>2
    <3>2. frames[u] \in Seq(Frame)
      BY <1>1, <3>1 DEF TypeOK
    <3>3. Len(frames[u]) \in DOMAIN frames[u]
      BY <3>1, <3>2, StackShape
    <3>4. n \in Nat /\ n + 1 \in Nat
      BY BoundAssumption
    <3> QED
      BY <1>2, <1>3, <3>1, <3>3, <3>4
  <2>3. Only(frames[u], r, Len(frames[u])) /\ Only(frames'[u], r, Len(frames[u]))
    BY <1>1, <1>5, <2>2, FrameIs DEF Only
  <2>4. StepOf(r, i) = WaitAt(n)
    <3>1. Progress(frames[u], pc[u], Queued(r, i), r) = WaitAt(n)
      BY <2>2, <2>3, ProgressWaits
    <3> QED
      BY <1>1, <2>1, <3>1, StepIs
  <2>5. StepOf(r, i)' = RunAt(n + 1)
    <3>1. Progress(frames'[u], pc'[u], Queued(r, i)', r) = RunAt(n + 1)
      <4>1. PICK v \in Nat : v = n + 1
        BY <2>2
      <4>2. Only(frames'[u], r, Len(frames[u])) /\ frames'[u][Len(frames[u])].passed = v
        BY <2>2, <2>3, <4>1
      <4> QED
        BY <2>2, <4>1, <4>2, ProgressRuns
    <3>2. r \in 1..Len(regions') /\ i \in 1..SizeOf(r)' /\ MemberOf(r, i)' = u
      BY <1>1, <2>1, SameTeams
    <3> QED
      BY <3>1, <3>2, StepIsNext
  <2> QED
    BY <2>4, <2>5
<1>7. ASSUME NEW q \in Region, NEW j \in 1..MaxSize, ~(q = r /\ j \in 1..SizeOf(r))
      PROVE  StepOf(q, j)' = StepOf(q, j)
  <2>1. ASSUME q \in 1..Len(regions), j \in 1..SizeOf(q)
        PROVE  LET u == MemberOf(q, j)
               IN  Progress(frames'[u], pc'[u], Queued(q, j)', q) = Progress(frames[u], pc[u], Queued(q, j), q)
    <3>1. PICK u \in Thread : u = MemberOf(q, j)
      BY <1>1, <2>1, MemberPlaces
    <3>2. Queued(q, j)' = Queued(q, j) /\ q # r
      BY <1>1, <1>7, <2>1 DEF Queued
    <3>3. CASE u \notin Members(r)
      BY <1>2, <3>1, <3>2, <3>3
    <3>4. CASE u \in Members(r)
      <4>1. FramesOf(frames'[u], q) = FramesOf(frames[u], q)
        BY <1>5
      <4>2. CASE FramesOf(frames[u], q) = {}
        <5>1. FramesOf(frames'[u], q) = {}
          BY <4>1, <4>2
        <5>2. Progress(frames[u], pc[u], Queued(q, j), q) = IF Queued(q, j) THEN 0 ELSE LastStep
          BY <4>2, ProgressOut
        <5>3. Progress(frames'[u], pc'[u], Queued(q, j)', q) = IF Queued(q, j)' THEN 0 ELSE LastStep
          BY <5>1, ProgressOut
        <5> QED
          BY <3>1, <3>2, <5>2, <5>3
      <4>3. CASE FramesOf(frames[u], q) # {}
        <5>1. PICK m \in DOMAIN frames[u] : frames[u][m].region = q
          BY <4>3 DEF FramesOf
        <5>2. m # Len(frames[u])
          BY <1>2, <3>2, <3>4, <5>1
        <5>3. m \in 1..(Len(frames[u]) - 1)
          <6>1. frames[u] \in Seq(Frame)
            BY <1>1 DEF TypeOK
          <6>2. m \in 1..Len(frames[u]) /\ Len(frames[u]) \in Nat
            BY <5>1, <6>1, StackShape
          <6> QED
            BY <5>2, <6>2
        <5>4. frames'[u][m] = frames[u][m]
          BY <1>2, <3>4, <5>3
        <5>5. Only(frames[u], q, m) /\ frames[u][m].passed \in Nat
          BY <1>1, <5>1, FrameIs
        <5>6. Progress(frames[u], pc[u], Queued(q, j), q) = RunAt(frames[u][m].passed)
          BY <5>2, <5>5, ProgressIn
        <5>7. Progress(frames'[u], pc'[u], Queued(q, j)', q) = RunAt(frames'[u][m].passed)
          <6>1. m # Len(frames'[u])
            BY <1>2, <5>2
          <6>2. PICK v \in Nat : v = frames'[u][m].passed
            BY <5>4, <5>5
          <6>3. Only(frames'[u], q, m)
            BY <4>1, <5>5 DEF Only
          <6> QED
            BY <6>1, <6>2, <6>3, ProgressRuns
        <5> QED
          BY <3>1, <5>4, <5>6, <5>7
      <4> QED
        BY <4>2, <4>3
    <3> QED
      BY <3>3, <3>4
  <2> QED
    BY <1>1, <2>1, StepKept
<1>8. UNCHANGED <<sizes, forkers, overs>>
  BY <1>1, SameTeams DEF overs
<1>9. steps' = [steps EXCEPT ![r] = [i \in 1..MaxSize |-> IF i <= sizes[r] THEN WaitAt(n) + 1 ELSE 0]]
  <2>1. ASSUME NEW i \in 1..MaxSize
        PROVE  StepOf(r, i)' = IF i <= sizes[r] THEN WaitAt(n) + 1 ELSE 0
    <3>1. CASE i <= SizeOf(r)
      <4>1. i \in 1..SizeOf(r)
        BY <1>4, <3>1
      <4>2. RunAt(n + 1) = WaitAt(n) + 1
        BY DEF RunAt, WaitAt
      <4> QED
        BY <1>4, <1>6, <3>1, <4>1, <4>2
    <3>2. CASE ~(i <= SizeOf(r))
      <4>1. i \notin 1..SizeOf(r)
        BY <3>2
      <4>2. StepOf(r, i)' = StepOf(r, i) /\ StepOf(r, i) = 0
        BY <1>1, <1>4, <1>7, <4>1, NoStep
      <4> QED
        BY <1>4, <3>2, <4>2
    <3> QED
      BY <3>1, <3>2
  <2>2. ASSUME NEW q \in Region, q # r
        PROVE  steps'[q] = steps[q]
    <3>1. \A j \in 1..MaxSize : StepOf(q, j)' = StepOf(q, j)
      BY <1>7, <2>2
    <3> QED
      BY <3>1 DEF steps
  <2>3. steps'[r] = [i \in 1..MaxSize |-> IF i <= sizes[r] THEN WaitAt(n) + 1 ELSE 0]
    BY <1>4, <2>1 DEF steps
  <2>4. steps = [q \in Region |-> steps[q]] /\ steps' = [q \in Region |-> steps'[q]]
    BY DEF steps
  <2> QED
    BY <1>4, <2>2, <2>3, <2>4
<1>10. \A i \in 1..sizes[r] : steps[r][i] = WaitAt(n)
  <2>1. \A i \in 1..SizeOf(r) : i \in 1..MaxSize
    BY <1>4, MaxSizeIs
  <2> QED
    BY <1>4, <1>6, <2>1 DEF steps
<1>11. WaitAt(n) \in 0..LastStep /\ WaitAt(n) % 2 = 0 /\ WaitAt(n) > 0
  <2>1. WaitAt(n) = 2 * (n + 1) /\ n \in Nat /\ n <= Barriers /\ Barriers \in Nat
    BY BoundAssumption DEF WaitAt
  <2>2. (2 * (n + 1)) % 2 = 0
    BY <2>1, Parity
  <2> QED
    BY <2>1, <2>2 DEF LastStep
<1> QED
  BY <1>4, <1>8, <1>9, <1>10, <1>11, AbstractRelease

\* The thread that joins its region is the last of the team to be in it.
LEMMA LeaveStep ==
  ASSUME JoinedInv, TypeOK', NEW t \in Thread, Inside(t), pc[t] = "ending", pc'[t] # "barrier", Leave(t),
         \A u \in Thread : u # t => pc'[u] = pc[u],
         \A u \in Thread : u # t => \A i \in DOMAIN frames[u] : frames[u][i].region # Top(t),
         \A i \in 1..SizeOf(Top(t)) : ~Queued(Top(t), i)
  PROVE  [FJ!Next]_(FJ!vars)
<1>1. IInv /\ TypeOK /\ FrameInv /\ LiveInv /\ OuterInv /\ PassedInv /\ CountInv
  BY DEF JoinedInv, IInv
<1>2. PICK r \in Region : r = Top(t)
  BY <1>1, InnermostPlace, RegionNumbers
<1>3. r \in live /\ r \in 1..Len(regions) /\ Len(frames[t]) \in DOMAIN frames[t]
  BY <1>1, <1>2, InnermostPlace
<1>4. frames[t][Len(frames[t])].region = r /\ frames[t][Len(frames[t])].passed = Barriers + 1
  BY <1>1, <1>2, <1>3 DEF Top, PassedInv
<1>5. /\ \A u \in Thread : u # t => frames'[u] = frames[u]
      /\ Len(frames'[t]) = Len(frames[t]) - 1 /\ DOMAIN frames'[t] = 1..(Len(frames[t]) - 1)
      /\ \A i \in 1..(Len(frames[t]) - 1) : frames'[t][i] = frames[t][i]
  <2>1. Len(frames[t]) # 0
    <3>1. frames[t] \in Seq(Frame)
      BY <1>1 DEF TypeOK
    <3> QED
      BY <3>1, StackShape DEF Inside
  <2> QED
    BY <1>1, <2>1, LeaveFacts
<1>6. Len(frames[t]) \in Nat \ {0} /\ DOMAIN frames[t] = 1..Len(frames[t])
  <2>1. frames[t] \in Seq(Frame)
    BY <1>1 DEF TypeOK
  <2> QED
    BY <2>1, StackShape DEF Inside
<1>7. live' = live \ {r} /\ todo' = todo /\ regions' = regions
  BY <1>2 DEF Leave
<1>8. ASSUME NEW q \in 1..Len(regions), NEW j \in 1..SizeOf(q)
      PROVE  Queued(q, j)' = Queued(q, j)
  <2>1. q = r => ~Queued(q, j)
    BY <1>2
  <2> QED
    BY <1>7, <2>1 DEF Queued
<1>9. ASSUME NEW q \in 1..Len(regions), NEW j \in 1..SizeOf(q), MemberOf(q, j) = t
      PROVE  /\ Progress(frames'[t], pc'[t], Queued(q, j)', q) = Progress(frames[t], pc[t], Queued(q, j), q)
             /\ q = r => Progress(frames[t], pc[t], Queued(q, j), q) = LastStep
  <2>1. CASE q = r
    <3>1. Progress(frames[t], pc[t], Queued(r, j), r) = LastStep
      <4>1. PICK v \in Nat : v = Barriers + 1
        BY BoundAssumption
      <4>2. Only(frames[t], r, Len(frames[t])) /\ frames[t][Len(frames[t])].passed = v
        BY <1>1, <1>3, <1>4, <4>1, FrameIs
      <4>3. Progress(frames[t], pc[t], Queued(r, j), r) = RunAt(v)
        BY <4>2, ProgressRuns
      <4> QED
        BY <4>1, <4>3 DEF RunAt, LastStep
    <3>2. FramesOf(frames'[t], r) = {}
      <4>1. ASSUME NEW m \in DOMAIN frames'[t]
            PROVE  frames'[t][m].region # r
        <5>1. m \in 1..(Len(frames[t]) - 1) /\ m \in DOMAIN frames[t] /\ m # Len(frames[t])
          BY <1>5, <1>6
        <5>2. frames'[t][m] = frames[t][m]
          BY <1>5, <5>1
        <5> QED
          BY <1>1, <1>3, <1>4, <5>1, <5>2, OneFrame
      <4> QED
        BY <4>1 DEF FramesOf
    <3>3. ~Queued(q, j)'
      BY <1>2, <1>8, <2>1
    <3>4. Progress(frames'[t], pc'[t], Queued(q, j)', q) = LastStep
      BY <2>1, <3>2, <3>3, ProgressOut
    <3> QED
      BY <2>1, <3>1, <3>4
  <2>2. CASE q # r
    <3>1. Len(frames[t]) \notin FramesOf(frames[t], q)
      BY <1>4, <2>2 DEF FramesOf
    <3>2. FramesOf(frames'[t], q) = FramesOf(frames[t], q)
      <4>1. ASSUME NEW m
            PROVE  m \in FramesOf(frames'[t], q) <=> m \in FramesOf(frames[t], q)
        <5>1. m \in 1..(Len(frames[t]) - 1) <=> m \in DOMAIN frames[t] /\ m # Len(frames[t])
          BY <1>6
        <5> QED
          BY <1>5, <3>1, <5>1 DEF FramesOf
      <4> QED
        BY <4>1
    <3>3. CASE FramesOf(frames[t], q) = {}
      <4>1. Progress(frames[t], pc[t], Queued(q, j), q) = IF Queued(q, j) THEN 0 ELSE LastStep
        BY <3>3, ProgressOut
      <4>2. FramesOf(frames'[t], q) = {}
        BY <3>2, <3>3
      <4>3. Progress(frames'[t], pc'[t], Queued(q, j)', q) = IF Queued(q, j)' THEN 0 ELSE LastStep
        BY <4>2, ProgressOut
      <4> QED
        BY <1>8, <2>2, <4>1, <4>3
    <3>4. CASE FramesOf(frames[t], q) # {}
      <4>1. PICK m \in DOMAIN frames[t] : frames[t][m].region = q /\ m # Len(frames[t])
        BY <3>1, <3>4 DEF FramesOf
      <4>2. Only(frames[t], q, m) /\ frames[t][m].passed \in Nat
        BY <1>1, <4>1, FrameIs
      <4>3. PICK v \in Nat : v = frames[t][m].passed
        BY <4>2
      <4>4. Progress(frames[t], pc[t], Queued(q, j), q) = RunAt(v)
        BY <4>1, <4>2, <4>3, ProgressRuns
      <4>5. Only(frames'[t], q, m) /\ frames'[t][m].passed = v
        <5>1. m \in 1..(Len(frames[t]) - 1)
          BY <1>6, <4>1
        <5> QED
          BY <1>5, <3>2, <4>2, <4>3, <5>1 DEF Only
      <4>6. Progress(frames'[t], pc'[t], Queued(q, j)', q) = RunAt(v)
        BY <4>5, ProgressRuns
      <4> QED
        BY <2>2, <4>4, <4>6
    <3> QED
      BY <3>3, <3>4
  <2> QED
    BY <2>1, <2>2
<1>10. ASSUME NEW q \in Region, NEW j \in 1..MaxSize
       PROVE  StepOf(q, j)' = StepOf(q, j)
  <2>1. ASSUME q \in 1..Len(regions), j \in 1..SizeOf(q)
        PROVE  LET u == MemberOf(q, j)
               IN  Progress(frames'[u], pc'[u], Queued(q, j)', q) = Progress(frames[u], pc[u], Queued(q, j), q)
    <3>1. PICK u \in Thread : u = MemberOf(q, j)
      BY <1>1, <2>1, MemberPlaces
    <3>2. Queued(q, j)' = Queued(q, j)
      BY <1>8, <2>1
    <3>3. CASE u # t
      BY <1>5, <3>1, <3>2, <3>3
    <3>4. CASE u = t
      BY <1>9, <2>1, <3>1, <3>4
    <3> QED
      BY <3>3, <3>4
  <2> QED
    BY <1>1, <1>7, <2>1, StepKept
<1>11. steps' = steps
  BY <1>10, StepsSame
<1>12. sizes' = sizes /\ forkers' = forkers
  BY <1>7, SameTeams
<1>13. overs' = overs \cup {r}
  <2>1. r \in DOMAIN regions
    BY <1>1, <1>3 DEF LiveInv
  <2> QED
    BY <1>7, <2>1 DEF overs
<1>14. FjOpen(r) /\ sizes[r] = SizeOf(r)
  BY <1>1, <1>3, OpenIs
<1>15. ASSUME NEW i \in 1..SizeOf(r)
       PROVE  steps[r][i] = LastStep
  <2>1. SizeOf(r) \in Nat /\ SizeOf(r) <= MaxSize
    BY <1>1, <1>3, SizeFacts
  <2>2. i \in 1..MaxSize
    BY <2>1, MaxSizeIs
  <2>3. PICK u \in Thread : u = MemberOf(r, i)
    BY <1>1, <1>3, MemberPlaces
  <2>4. StepOf(r, i) = Progress(frames[u], pc[u], Queued(r, i), r)
    BY <1>1, <1>3, <2>3, StepIs
  <2>5. CASE u = t
    BY <1>3, <1>9, <2>3, <2>4, <2>5, <2>2 DEF steps
  <2>6. CASE u # t
    <3>1. FramesOf(frames[u], r) = {}
      BY <1>2, <2>6 DEF FramesOf
    <3>2. ~Queued(r, i)
      BY <1>2
    <3>3. StepOf(r, i) = LastStep
      BY <2>4, <3>1, <3>2, ProgressOut
    <3> QED
      BY <2>2, <3>3 DEF steps
  <2> QED
    BY <2>5, <2>6
<1> QED
  BY <1>11, <1>12, <1>13, <1>14, <1>15, AbstractJoin

LEMMA JoinNestedStep ==
  ASSUME JoinedInv, TypeOK', NEW t \in Thread, JoinNested(t)
  PROVE  [FJ!Next]_(FJ!vars)
<1>1. IInv /\ TypeOK /\ FrameInv /\ LiveInv
  BY DEF JoinedInv, IInv
<1>2. /\ pc[t] = "ending" /\ Len(frames[t]) > 1 /\ Leave(t)
      /\ pc'[t] = "body" /\ \A u \in Thread : u # t => pc'[u] = pc[u]
  BY <1>1 DEF JoinNested, TypeOK
<1>3. Inside(t) /\ Len(frames[t]) \in DOMAIN frames[t] /\ Len(frames[t]) # 1
  <2>1. frames[t] \in Seq(Frame)
    BY <1>1 DEF TypeOK
  <2> QED
    BY <1>2, <2>1, StackShape DEF Inside
<1>4. regions[Top(t)].by = t /\ regions[Top(t)].team = Nested
  BY <1>1, <1>3 DEF FrameInv, Top
<1>5. ASSUME NEW u \in Thread, u # t, NEW i \in DOMAIN frames[u]
      PROVE  frames[u][i].region # Top(t)
  <2>1. SUFFICES ASSUME frames[u][i].region = Top(t)
                 PROVE  FALSE
    OBVIOUS
  <2>2. CASE i = 1
    BY <1>1, <1>4, <2>1, <2>2, KeyFacts DEF FrameInv
  <2>3. CASE i # 1
    BY <1>1, <1>4, <1>5, <2>1, <2>3 DEF FrameInv
  <2> QED
    BY <2>2, <2>3
<1>6. ASSUME NEW i \in 1..SizeOf(Top(t))
      PROVE  ~Queued(Top(t), i)
  <2>1. SizeOf(Top(t)) = 1
    BY <1>4 DEF SizeOf
  <2>2. ~(i > 1)
    BY <2>1
  <2> QED
    BY <2>2 DEF Queued
<1> QED
  BY <1>2, <1>3, <1>5, <1>6, LeaveStep

LEMMA JoinStep ==
  ASSUME JoinedInv, TypeOK', Join
  PROVE  [FJ!Next]_(FJ!vars)
<1> DEFINE t == InitialThread
<1>1. IInv /\ TypeOK /\ PcInv /\ PassedInv /\ FrameInv /\ LiveInv /\ WorkerInv /\ OuterInv /\ t \in Thread
  BY ThreadIs DEF JoinedInv, IInv
<1>2. /\ pc[t] = "ending" /\ Len(frames[t]) = 1 /\ Leave(t)
      /\ pc'[t] = "outside" /\ \A u \in Thread : u # t => pc'[u] = pc[u]
      /\ \A w \in Members(Top(t)) \ {t} : pc[w] = "parked"
  BY <1>1 DEF Join, TypeOK
<1>3. Inside(t) /\ 1 \in DOMAIN frames[t]
  <2>1. frames[t] \in Seq(Frame)
    BY <1>1 DEF TypeOK
  <2> QED
    BY <1>2, <2>1, StackShape DEF Inside
<1>4. Top(t) \in 1..Len(regions) /\ frames[t][1].passed = Barriers + 1 /\ Top(t) = frames[t][1].region
  BY <1>1, <1>2, <1>3, InnermostPlace DEF PassedInv, Top
<1>5. regions[Top(t)].team \in Keys
  BY <1>1, <1>3, <1>4 DEF FrameInv
<1>6. ASSUME NEW u \in Thread, u # t, NEW i \in DOMAIN frames[u]
      PROVE  frames[u][i].region # Top(t)
  <2>1. SUFFICES ASSUME frames[u][i].region = Top(t)
                 PROVE  FALSE
    OBVIOUS
  <2>2. regions[Top(t)].team # Nested
    BY <1>5, KeyFacts
  <2>3. i = 1
    BY <1>1, <2>1, <2>2 DEF FrameInv
  <2>4. u \in Worker /\ regions[Top(t)].team = u.team
    BY <1>1, <1>6, <2>1, <2>3, ThreadIs DEF FrameInv
  <2>5. pc[u] = "parked"
    BY <1>1, <1>2, <1>4, <1>6, <2>4, MemberFacts
  <2>6. ~Inside(u)
    BY <1>1, <2>4, <2>5 DEF PcInv
  <2>7. frames[u] \in Seq(Frame)
    BY <1>1 DEF TypeOK
  <2> QED
    BY <2>6, <2>7, StackShape DEF Inside
<1>7. ASSUME NEW i \in 1..SizeOf(Top(t)), Queued(Top(t), i)
      PROVE  FALSE
  <2>1. frames[t][1].passed = 0
    BY <1>1, <1>4, <1>7, QueuedParked
  <2> QED
    BY <1>4, <2>1, BoundAssumption
<1> QED
  BY <1>1, <1>2, <1>3, <1>6, <1>7, LeaveStep

\* A thread forks from the region it is in, or from outside of all.
LEMMA ForkStep ==
  ASSUME JoinedInv, TypeOK', NEW t \in Thread, NEW key \in Keys \cup {Nested}, Forks(t), Enter(t, key),
         IF Inside(t) THEN key = Nested /\ todo' = todo
                      ELSE key \in Keys /\ todo' = [todo EXCEPT ![key] = 1..(Size(key) - 1)]
  PROVE  [FJ!Next]_(FJ!vars)
<1>1. IInv /\ TypeOK /\ PcInv /\ FrameInv /\ LiveInv /\ OuterInv /\ CountInv
  BY DEF JoinedInv, IInv
<1>2. PICK r \in Region : r = Len(regions) + 1
  BY <1>1, EnterFacts
<1>3. /\ r \notin live /\ DOMAIN regions' = 1..r /\ Len(regions') = r
      /\ \A q \in 1..Len(regions) : regions'[q] = regions[q]
      /\ regions'[r].by = t /\ regions'[r].team = key
      /\ live' = live \cup {r}
      /\ Len(frames'[t]) = Len(frames[t]) + 1
      /\ \A i \in 1..Len(frames[t]) : frames'[t][i] = frames[t][i]
      /\ frames'[t][Len(frames[t]) + 1] = [region |-> r, passed |-> 0]
      /\ \A u \in Thread : u # t => frames'[u] = frames[u] /\ pc'[u] = pc[u]
      /\ pc'[t] = "body" /\ frames'[t] \in Seq(Frame)
  BY <1>1, <1>2, EnterFacts
<1>4. /\ Len(regions) \in Nat /\ DOMAIN regions = 1..Len(regions) /\ r \notin DOMAIN regions
      /\ \A q \in 1..Len(regions) : q \in Region /\ q # r /\ q \in 1..r
      /\ \A q \in DOMAIN regions' : q \in 1..Len(regions) \/ q = r
  <2>1. Len(regions) \in Nat /\ DOMAIN regions = 1..Len(regions)
    BY <1>1, RegionsShape
  <2> QED
    BY <1>1, <1>2, <1>3, <2>1, RegionNumbers
<1>5. ~Inside(t) => t = InitialThread
  BY <1>1, OutsideIsInitial
<1>6. regions'[r].outer = IF Inside(t) THEN Top(t) ELSE 0
  BY <1>1, <1>2, <1>5, EnterOuter
<1>7. \A q \in 1..Len(regions) : /\ SizeOf(q)' = SizeOf(q)
                                 /\ \A i : MemberOf(q, i)' = MemberOf(q, i)
  BY <1>3, TeamsStay
<1>8. PICK n \in 1..MaxSize : n = SizeOf(r)' /\ (key \in Keys => n = Size(key)) /\ (key = Nested => n = 1)
  <2>1. SizeOf(r)' = IF key = Nested THEN 1 ELSE Size(key)
    BY <1>3 DEF SizeOf
  <2>2. \A k \in Keys : k # Nested /\ Size(k) \in 1..MaxSize
    BY KeyFacts, MaxSizeIs
  <2>3. 1 \in 1..MaxSize
    BY MaxSizeIs
  <2> QED
    BY <2>1, <2>2, <2>3
<1>9. sizes[r] = 0 /\ \A q \in Region : q < r => sizes[q] # 0
  <2>1. ASSUME NEW q \in Region, q < r
        PROVE  sizes[q] # 0
    <3>1. q \in 1..Len(regions)
      BY <1>2, <1>4, <2>1 DEF Region
    <3>2. SizeOf(q) \in Nat \ {0}
      BY <1>1, <3>1, SizeFacts
    <3> QED
      BY <1>4, <3>1, <3>2 DEF sizes
  <2> QED
    BY <1>4, <2>1 DEF sizes
<1>10. sizes' = [sizes EXCEPT ![r] = n]
  <2>1. ASSUME NEW q \in Region
        PROVE  sizes'[q] = IF q = r THEN n ELSE sizes[q]
    <3>1. r \in DOMAIN regions'
      BY <1>2, <1>3, <1>4
    <3>2. CASE q = r
      BY <1>8, <3>1, <3>2 DEF sizes
    <3>3. CASE q \in 1..Len(regions)
      <4>1. q \in DOMAIN regions /\ q \in DOMAIN regions' /\ q # r
        BY <1>3, <1>4, <3>3
      <4>2. SizeOf(q)' = SizeOf(q)
        BY <1>7, <3>3
      <4> QED
        BY <4>1, <4>2 DEF sizes
    <3>4. CASE q # r /\ q \notin 1..Len(regions)
      <4>1. q \notin DOMAIN regions /\ q \notin DOMAIN regions'
        BY <1>4, <3>4
      <4> QED
        BY <3>4, <4>1 DEF sizes
    <3> QED
      BY <3>2, <3>3, <3>4
  <2> QED
    BY <2>1 DEF sizes
<1>11. overs' = overs
  <2>1. ASSUME NEW q
        PROVE  q \in overs' <=> q \in overs
    BY <1>3, <1>4 DEF overs
  <2> QED
    BY <2>1
<1>12. ASSUME NEW q \in 1..Len(regions)
       PROVE  ForkerOf(q)' = ForkerOf(q)
  <2>1. PICK o \in 0..(q - 1) : o = regions[q].outer
    BY <1>1, <1>4 DEF OuterInv
  <2>2. regions'[q] = regions[q] /\ regions'[q].outer = o
    BY <1>3, <2>1
  <2>3. CASE o = 0
    BY <2>1, <2>2, <2>3 DEF ForkerOf
  <2>4. CASE o # 0
    <3>1. o \in 1..Len(regions)
      BY <1>4, <2>4
    <3>2. SizeOf(o)' = SizeOf(o) /\ \A i : MemberOf(o, i)' = MemberOf(o, i)
      BY <1>7, <3>1
    <3> QED
      BY <2>1, <2>2, <2>4, <3>2 DEF ForkerOf
  <2> QED
    BY <2>3, <2>4
<1>13. PICK m \in (Region \X (1..MaxSize)) \cup {<<0, 1>>} : ForkerOf(r)' = m /\ FjMoves(m)
  <2>1. CASE Inside(t)
    <3>1. PICK o \in Region : o = Top(t)
      BY <1>1, <2>1, InnermostPlace, RegionNumbers
    <3>2. o \in 1..Len(regions) /\ t \in Members(o)
      BY <1>1, <2>1, <3>1, InnermostPlace
    <3>3. PICK i \in 1..SizeOf(o) : i = CHOOSE j \in 1..SizeOf(o) : MemberOf(o, j) = t
      BY <3>2 DEF Members
    <3>4. MemberOf(o, i) = t
      BY <3>2, <3>3 DEF Members
    <3>5. o # 0 /\ regions'[r].outer = o /\ regions'[r].by = t
      BY <1>3, <1>6, <2>1, <3>1, <3>2
    <3>6. SizeOf(o)' = SizeOf(o) /\ \A j : MemberOf(o, j)' = MemberOf(o, j)
      BY <1>7, <3>2
    <3>7. ForkerOf(r)' = <<o, CHOOSE j \in 1..SizeOf(o) : MemberOf(o, j) = t>>
      BY <3>5, <3>6 DEF ForkerOf
    <3>8. pc[t] \in {"body", "pushed"}
      <4>1. pc[t] # "outside"
        BY <1>1, <2>1, ThreadIs DEF PcInv
      <4> QED
        BY <4>1 DEF Forks, Encounters
    <3>9. FjMoves(<<o, i>>)
      BY <2>1, <3>1, <3>4, <3>8, MovesIs
    <3>10. i \in 1..MaxSize
      <4>1. SizeOf(o) \in Nat /\ SizeOf(o) <= MaxSize
        BY <1>1, <3>2, SizeFacts
      <4> QED
        BY <4>1, MaxSizeIs
    <3> QED
      BY <3>3, <3>7, <3>9, <3>10
  <2>2. CASE ~Inside(t)
    <3>1. ForkerOf(r)' = <<0, 1>>
      BY <1>6, <2>2 DEF ForkerOf
    <3>2. live = {}
      BY <1>1, <1>5, <2>2, NobodyInside
    <3>3. FjMoves(<<0, 1>>)
      BY <1>1, <3>2, OpenIs DEF FjMoves
    <3> QED
      BY <3>1, <3>3
  <2> QED
    BY <2>1, <2>2
<1>14. forkers' = [forkers EXCEPT ![r] = m]
  <2>1. ASSUME NEW q \in Region
        PROVE  forkers'[q] = IF q = r THEN m ELSE forkers[q]
    <3>1. r \in DOMAIN regions'
      BY <1>2, <1>3, <1>4
    <3>2. CASE q = r
      BY <1>13, <3>1, <3>2 DEF forkers
    <3>3. CASE q \in 1..Len(regions)
      <4>1. q \in DOMAIN regions /\ q \in DOMAIN regions' /\ q # r
        BY <1>3, <1>4, <3>3
      <4>2. ForkerOf(q)' = ForkerOf(q)
        BY <1>12, <3>3
      <4> QED
        BY <4>1, <4>2 DEF forkers
    <3>4. CASE q # r /\ q \notin 1..Len(regions)
      <4>1. q \notin DOMAIN regions /\ q \notin DOMAIN regions'
        BY <1>4, <3>4
      <4> QED
        BY <3>4, <4>1 DEF forkers
    <3> QED
      BY <3>2, <3>3, <3>4
  <2> QED
    BY <2>1 DEF forkers
<1>15. ASSUME NEW q \in 1..Len(regions), NEW j \in 1..SizeOf(q)
       PROVE  StepOf(q, j)' = StepOf(q, j)
  <2>1. PICK u \in Thread : u = MemberOf(q, j)
    BY <1>1, MemberPlaces
  <2>2. Queued(q, j)' = Queued(q, j)
    <3>1. q \in live' <=> q \in live
      BY <1>3, <1>4
    <3>2. CASE Inside(t)
      BY <1>3, <3>1, <3>2 DEF Queued
    <3>3. CASE ~Inside(t)
      <4>1. live = {}
        BY <1>1, <1>5, <3>3, NobodyInside
      <4> QED
        BY <3>1, <4>1 DEF Queued
    <3> QED
      BY <3>2, <3>3
  <2>3. Progress(frames'[u], pc'[u], Queued(q, j)', q) = Progress(frames[u], pc[u], Queued(q, j), q)
    <3>1. CASE u # t
      BY <1>3, <2>2, <3>1
    <3>2. CASE u = t
      <4>1. frames[t] \in Seq(Frame)
        BY <1>1 DEF TypeOK
      <4>2. /\ Len(frames[t]) \in Nat /\ DOMAIN frames[t] = 1..Len(frames[t])
            /\ DOMAIN frames'[t] = 1..(Len(frames[t]) + 1)
        BY <1>3, <4>1, StackShape
      <4>3. FramesOf(frames'[t], q) = FramesOf(frames[t], q)
        <5>1. ASSUME NEW i
              PROVE  i \in FramesOf(frames'[t], q) <=> i \in FramesOf(frames[t], q)
          <6>1. i \in DOMAIN frames'[t] <=> i \in DOMAIN frames[t] \/ i = Len(frames[t]) + 1
            BY <4>2
          <6>2. frames'[t][Len(frames[t]) + 1].region # q
            BY <1>3, <1>4
          <6> QED
            BY <1>3, <4>2, <6>1, <6>2 DEF FramesOf
        <5> QED
          BY <5>1
      <4>4. pc[t] # "barrier" /\ pc'[t] # "barrier"
        BY <1>3 DEF Forks, Encounters
      <4>5. CASE FramesOf(frames[t], q) = {}
        <5>1. Progress(frames[t], pc[t], Queued(q, j), q) = IF Queued(q, j) THEN 0 ELSE LastStep
          BY <4>5, ProgressOut
        <5>2. FramesOf(frames'[t], q) = {}
          BY <4>3, <4>5
        <5>3. Progress(frames'[t], pc'[t], Queued(q, j)', q) = IF Queued(q, j)' THEN 0 ELSE LastStep
          BY <5>2, ProgressOut
        <5> QED
          BY <2>2, <3>2, <5>1, <5>3
      <4>6. CASE FramesOf(frames[t], q) # {}
        <5>1. PICK i \in DOMAIN frames[t] : frames[t][i].region = q
          BY <4>6 DEF FramesOf
        <5>2. Only(frames[t], q, i) /\ frames[t][i].passed \in Nat
          BY <1>1, <5>1, FrameIs
        <5>3. PICK v \in Nat : v = frames[t][i].passed
          BY <5>2
        <5>4. Progress(frames[t], pc[t], Queued(q, j), q) = RunAt(v)
          BY <4>4, <5>2, <5>3, ProgressRuns
        <5>5. Only(frames'[t], q, i) /\ frames'[t][i].passed = v
          BY <1>3, <4>2, <4>3, <5>1, <5>2, <5>3 DEF Only
        <5>6. Progress(frames'[t], pc'[t], Queued(q, j)', q) = RunAt(v)
          BY <4>4, <5>5, ProgressRuns
        <5> QED
          BY <3>2, <5>4, <5>6
      <4> QED
        BY <4>5, <4>6
    <3> QED
      BY <3>1, <3>2
  <2>4. StepOf(q, j) = Progress(frames[u], pc[u], Queued(q, j), q)
    BY <1>1, <2>1, StepIs
  <2>5. StepOf(q, j)' = Progress(frames'[u], pc'[u], Queued(q, j)', q)
    <3>1. q \in 1..Len(regions') /\ j \in 1..SizeOf(q)' /\ MemberOf(q, j)' = u
      BY <1>3, <1>4, <1>7, <2>1
    <3> QED
      BY <3>1, StepIsNext
  <2> QED
    BY <2>3, <2>4, <2>5
<1>16. ASSUME NEW j \in 1..n
       PROVE  StepOf(r, j)' = IF j = 1 THEN 1 ELSE 0
  <2>1. r \in 1..Len(regions') /\ j \in 1..SizeOf(r)'
    BY <1>2, <1>3, <1>4, <1>8
  <2>2. CASE j = 1
    <3>1. MemberOf(r, j)' = t
      BY <1>3, <2>2 DEF MemberOf
    <3>2. Only(frames'[t], r, Len(frames[t]) + 1) /\ frames'[t][Len(frames[t]) + 1].passed = 0
      <4>1. Len(frames[t]) \in Nat /\ DOMAIN frames[t] = 1..Len(frames[t])
        <5>1. frames[t] \in Seq(Frame)
          BY <1>1 DEF TypeOK
        <5> QED
          BY <5>1, StackShape
      <4>2. DOMAIN frames'[t] = 1..(Len(frames[t]) + 1)
        BY <1>3, StackShape
      <4>3. ASSUME NEW i \in 1..Len(frames[t])
            PROVE  frames'[t][i].region # r
        <5>1. i \in DOMAIN frames[t] /\ frames'[t][i] = frames[t][i]
          BY <1>3, <4>1, <4>3
        <5>2. frames[t][i].region \in live
          BY <1>1, <5>1, FrameRegion
        <5> QED
          BY <1>3, <5>1, <5>2
      <4>4. ASSUME NEW i
            PROVE  i \in FramesOf(frames'[t], r) <=> i = Len(frames[t]) + 1
        <5>1. i \in DOMAIN frames'[t] <=> i \in 1..Len(frames[t]) \/ i = Len(frames[t]) + 1
          BY <4>1, <4>2
        <5> QED
          BY <1>3, <4>3, <5>1 DEF FramesOf
      <4>5. FramesOf(frames'[t], r) = {Len(frames[t]) + 1}
        BY <4>4
      <4> QED
        BY <1>3, <4>5 DEF Only
    <3>3. Progress(frames'[t], pc'[t], Queued(r, j)', r) = RunAt(0)
      <4>1. PICK v \in Nat : v = 0
        OBVIOUS
      <4>2. frames'[t][Len(frames[t]) + 1].passed = v
        BY <3>2, <4>1
      <4>3. Progress(frames'[t], pc'[t], Queued(r, j)', r) = RunAt(v)
        BY <1>3, <3>2, <4>2, ProgressRuns
      <4> QED
        BY <4>1, <4>3
    <3>4. StepOf(r, j)' = Progress(frames'[t], pc'[t], Queued(r, j)', r)
      BY <2>1, <3>1, StepIsNext
    <3> QED
      BY <2>2, <3>3, <3>4 DEF RunAt
  <2>3. CASE j # 1
    <3>1. key \in Keys /\ j - 1 \in 1..(Size(key) - 1) /\ j > 1 /\ ~Inside(t)
      <4>1. key \in Keys
        BY <1>8, <2>3
      <4>2. key # Nested /\ Size(key) \in Nat
        BY <4>1, KeyFacts
      <4> QED
        BY <1>8, <2>3, <4>1, <4>2
    <3>2. PICK u \in Worker : u = MemberOf(r, j)'
      <4>1. MemberOf(r, j)' = [team |-> key, tid |-> j - 1]
        BY <1>3, <2>3 DEF MemberOf
      <4> QED
        BY <3>1, <4>1, WorkerFacts
    <3>3. u \in Thread /\ u # t /\ ~Inside(u)
      BY <1>1, <1>5, <3>1, <3>2, ThreadIs, NobodyInside
    <3>4. FramesOf(frames'[u], r) = {}
      <4>1. FramesOf(frames[u], r) = {}
        BY <1>1, <3>3, OutOf
      <4> QED
        BY <1>3, <3>3, <4>1
    <3>5. Queued(r, j)'
      <4>1. todo'[key] = 1..(Size(key) - 1)
        BY <1>1, <3>1 DEF TypeOK
      <4> QED
        BY <1>3, <3>1, <4>1 DEF Queued
    <3>6. Progress(frames'[u], pc'[u], Queued(r, j)', r) = 0
      BY <3>4, <3>5, ProgressOut
    <3>7. StepOf(r, j)' = Progress(frames'[u], pc'[u], Queued(r, j)', r)
      BY <2>1, <3>2, StepIsNext
    <3> QED
      BY <2>3, <3>6, <3>7
  <2> QED
    BY <2>2, <2>3
<1>17. ASSUME NEW q \in Region, NEW j \in 1..MaxSize, ~(q = r /\ j = 1)
       PROVE  StepOf(q, j)' = StepOf(q, j)
  <2>1. CASE q \in 1..Len(regions) /\ j \in 1..SizeOf(q)
    BY <1>15, <2>1
  <2>2. CASE q = r /\ j \in 1..n
    <3>1. StepOf(r, j) = 0
      BY <1>1, <1>4, NoStep
    <3> QED
      BY <1>16, <1>17, <2>2, <3>1
  <2>3. CASE ~(q \in 1..Len(regions) /\ j \in 1..SizeOf(q)) /\ ~(q = r /\ j \in 1..n)
    <3>1. StepOf(q, j) = 0
      BY <1>1, <2>3, NoStep
    <3>2. ~(q \in DOMAIN regions' /\ ~(j > SizeOf(q)'))
      <4>1. CASE q = r
        BY <1>8, <2>3, <4>1
      <4>2. CASE q # r /\ q \in DOMAIN regions'
        <5>1. q \in 1..Len(regions) /\ SizeOf(q)' = SizeOf(q)
          BY <1>4, <1>7, <4>2
        <5>2. SizeOf(q) \in Nat
          BY <1>1, <5>1, SizeFacts
        <5> QED
          BY <2>3, <5>1, <5>2
      <4> QED
        BY <4>1, <4>2
    <3> QED
      BY <3>1, <3>2, NoStepNext
  <2> QED
    BY <2>1, <2>2, <2>3
<1>18. 1 \in 1..n /\ 1 \in 1..MaxSize
  BY MaxSizeIs
<1>19. steps' = [steps EXCEPT ![r][1] = 1]
  <2>1. StepOf(r, 1)' = 1
    BY <1>16, <1>18
  <2> QED
    BY <1>17, <1>18, <2>1, StepsOne
<1> QED
  BY <1>9, <1>10, <1>11, <1>13, <1>14, <1>19, AbstractFork

LEMMA MappedStep == JoinedInv /\ TypeOK' /\ [Next]_vars => [FJ!Next]_(FJ!vars)
<1> SUFFICES ASSUME JoinedInv, TypeOK', [Next]_vars
             PROVE  [FJ!Next]_(FJ!vars)
  OBVIOUS
<1>1. IInv /\ TypeOK /\ OuterInv /\ PcInv
  BY DEF JoinedInv, IInv
<1>2. ASSUME NEW t \in Thread, Constructs(t)
      PROVE  [FJ!Next]_(FJ!vars)
  <2>1. ASSUME NEW n \in NumThreads, PushNumThreads(t, n)
        PROVE  [FJ!Next]_(FJ!vars)
    <3>1. \A u \in Thread : pc'[u] = "barrier" <=> pc[u] = "barrier"
      BY <1>1, <2>1 DEF PushNumThreads, Encounters, TypeOK
    <3> QED
      BY <1>1, <2>1, <3>1, QuietStep DEF PushNumThreads
  <2>2. CASE ForkNested(t)
    BY <2>2, ForkStep DEF ForkNested
  <2>3. ASSUME NEW k \in Keys, ForkCached(t, k)
        PROVE  [FJ!Next]_(FJ!vars)
    BY <2>3, ForkStep DEF ForkCached
  <2>4. ASSUME NEW k \in Keys, ForkNew(t, k)
        PROVE  [FJ!Next]_(FJ!vars)
    <3>1. CASE Cardinality(teams) >= MaxCachedTeams
      BY <1>1, <2>4, <3>1, QuietStep DEF ForkNew
    <3>2. CASE ~(Cardinality(teams) >= MaxCachedTeams)
      BY <2>4, <3>2, ForkStep DEF ForkNew
    <3> QED
      BY <3>1, <3>2
  <2> QED
    BY <1>2, <2>1, <2>2, <2>3, <2>4 DEF Constructs
<1>3. ASSUME NEW t \in Thread, Proceeds(t)
      PROVE  [FJ!Next]_(FJ!vars)
  BY <1>3, ArriveStep, JoinNestedStep, DispatchedStep, ParkStep, JoinStep DEF Proceeds
<1>4. ASSUME NEW r \in 1..Len(regions), TeamBarrier(r)
      PROVE  [FJ!Next]_(FJ!vars)
  BY <1>4, BarrierStep
<1>5. CASE Exit \/ UNCHANGED vars
  BY <1>1, <1>5, QuietStep DEF Exit, vars
<1> QED
  BY <1>2, <1>3, <1>4, <1>5 DEF Next, Done

LEMMA MappedInit == Init => JoinedInv /\ FJ!Init
<1> SUFFICES ASSUME Init
             PROVE  JoinedInv /\ FJ!Init
  OBVIOUS
<1>1. IInv
  BY InitInv
<1>2. DOMAIN regions = {} /\ regions = <<>>
  BY DEF Init
<1>3. OuterInv
  BY <1>2 DEF OuterInv
<1>4. SyncInv
  BY DEF SyncInv, Inside, Init, Thread
<1>5. FJ!Init
  BY <1>2 DEF FJ!Init, FJ!Initial, FJ!Member, StepOf
<1> QED
  BY <1>1, <1>3, <1>4, <1>5 DEF JoinedInv

\* Cached teams, parked workers and argument blocks implement fork-join
\* (ForkJoin), for any sizes of teams, nesting and numbers of barriers and
\* regions: every member of a region runs its code once, none passes a barrier
\* before all have come to it, and the join is after the last of them.
THEOREM ForkJoinImplemented == Spec => ImplementsForkJoin
<1>1. JoinedInv /\ [Next]_vars => JoinedInv' /\ [FJ!Next]_(FJ!vars)
  BY JoinedStep, MappedStep DEF JoinedInv, IInv
<1> QED
  BY <1>1, MappedInit, PTL DEF Spec, ImplementsForkJoin, FJ!Spec
===============================================================================
