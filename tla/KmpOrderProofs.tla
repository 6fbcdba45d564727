----------------------------- MODULE KmpOrderProofs -----------------------------
(***************************************************************************)
(* From the clauses of a construct to the order of its tasks, for any      *)
(* team, any clauses of any length and any mix of constructs: what lies in *)
(* the slots of a submitted task (SlotsConstructed), what a tool is told   *)
(* of it (ToolSeesOrder), and that the tasking entry points implement      *)
(* OpenMP's view of tasks (ImplementsTasking).                             *)
(*                                                                         *)
(* All three rest on where the items of the three lists end up: item i of  *)
(* the clause, counted through the lists, is access i of the task          *)
(* (SlotsAs).  The slots are reserved by one call and written by another;  *)
(* in between the encountering task can do nothing else, so that the       *)
(* numbers of siblings follow the order of their submission, on which the  *)
(* dependences between them rely (SubmitInv).                              *)
(***************************************************************************)
EXTENDS OmptTask, KmpTaskProofs

\* Item i of a clause, counted through its lists, and its access.
ItemAt(c, i) ==
  IF i <= Len(c.acs) THEN c.acs[i]
  ELSE IF i <= Len(c.acs) + Len(c.deps) THEN c.deps[i - Len(c.acs)]
  ELSE c.noalias[i - (Len(c.acs) + Len(c.deps))]

AccessAt(c, i) == IF i <= Len(c.acs) THEN AcAccess(ItemAt(c, i)) ELSE DepAccess(ItemAt(c, i))

\* Is there an item for slot i?
Used(c, i) == i <= NAccesses(c) /\ ItemAt(c, i).addr # NULL

\* The slots of a submitted task: the ones an item fills, and the ones the
\* allocation padded or left as they were.
SlotsAs(c, s) ==
  /\ NAccesses(c) <= Len(s)
  /\ \A i \in DOMAIN s : IF Used(c, i) THEN s[i] = AccessAt(c, i) ELSE s[i] \in {Inert, Garbage}
  /\ \A i \in DOMAIN s : s[i] = Garbage => i <= NAccesses(c)

\* A task that is allocated is the one its creator is about to submit, and the
\* last it created; its slots are as the allocation left them.
AllocatedInv ==
  \A u \in Explicit : status[u] = "allocated" =>
    /\ pc[parent[u]] = "submit" /\ await[parent[u]] = u
    /\ clause[u] \in Clauses /\ slots[u] = AllocSlots(abi, clause[u])
    /\ \A v \in Explicit : status[v] # "none" /\ parent[v] = parent[u] => v <= u

\* Only the stock ABI's allocation pads.
Filling(c, s, b) == SlotsAs(c, s) /\ \A i \in DOMAIN s : s[i] = Inert => b = "stock"

\* The slots of a task that is submitted are as its clause says.
SubmittedInv ==
  \A u \in Explicit : Committed(u) =>
    clause[u] \in Clauses /\ ~Unsupported(clause[u]) /\ Filling(clause[u], slots[u], abi)

\* While the program is defined they have all been constructed.
DefinedInv ==
  mode # "undefined" =>
    \A u \in Explicit : Committed(u) => \A i \in DOMAIN slots[u] : slots[u][i] # Garbage

\* Tasks are numbered as they are created.
NumbersInv ==
  \A u, v \in Explicit : status[u] # "none" /\ v < u => status[v] # "none"

Started(u) == status[u] \in {"executing", "completed"}

\* No code runs of a task that has not begun, or of a device task.
NoCodeInv ==
  \A u \in Explicit : ~Started(u) \/ attr[u].target => pc[u] = "run"

SubmitInv == AllocatedInv /\ SubmittedInv /\ DefinedInv /\ NumbersInv /\ NoCodeInv

-------------------------------------------------------------------------------
(* Where the items of a clause land.                                       *)

LEMMA ClauseLists ==
  ASSUME NEW c \in ClauseSet
  PROVE  /\ Len(c.acs) \in Nat /\ Len(c.deps) \in Nat /\ Len(c.noalias) \in Nat
         /\ DOMAIN c.acs = 1..Len(c.acs) /\ DOMAIN c.deps = 1..Len(c.deps)
         /\ DOMAIN c.noalias = 1..Len(c.noalias)
         /\ \A i \in DOMAIN c.acs : c.acs[i] \in AcItem
         /\ \A i \in DOMAIN c.deps : c.deps[i] \in DepItem
         /\ \A i \in DOMAIN c.noalias : c.noalias[i] \in DepItem
<1>1. c.acs \in Seq(AcItem) /\ c.deps \in Seq(DepItem) /\ c.noalias \in Seq(DepItem)
  BY DEF ClauseSet
<1> QED
  BY <1>1, LenProperties, ElementOfSeq

\* The items of a clause are those its lists are made of.
LEMMA ItemsOf ==
  ASSUME NEW c \in ClauseSet
  PROVE  /\ NAccesses(c) \in Nat
         /\ Tasking!Items(c) = {ItemAt(c, i) : i \in 1..NAccesses(c)}
<1> DEFINE a == Len(c.acs)
           d == Len(c.deps)
           n == Len(c.noalias)
<1>1. /\ a \in Nat /\ d \in Nat /\ n \in Nat
      /\ DOMAIN c.acs = 1..a /\ DOMAIN c.deps = 1..d /\ DOMAIN c.noalias = 1..n
  BY ClauseLists
<1>2. NAccesses(c) = a + d + n
  BY DEF NAccesses
<1>3. Tasking!Items(c) =
        {c.acs[i] : i \in 1..a} \cup {c.deps[i] : i \in 1..d} \cup {c.noalias[i] : i \in 1..n}
  BY <1>1 DEF Tasking!Items
<1>4. \A i : ItemAt(c, i) = IF i <= a THEN c.acs[i] ELSE IF i <= a + d THEN c.deps[i - a]
                              ELSE c.noalias[i - (a + d)]
  BY DEF ItemAt
<1> HIDE DEF a, d, n
<1>5. a \in Nat /\ d \in Nat /\ n \in Nat
  BY <1>1
<1>6. ASSUME NEW i \in 1..(a + d + n)
      PROVE  \/ i \in 1..a /\ ItemAt(c, i) = c.acs[i]
             \/ i - a \in 1..d /\ ItemAt(c, i) = c.deps[i - a]
             \/ i - (a + d) \in 1..n /\ ItemAt(c, i) = c.noalias[i - (a + d)]
  BY <1>4, <1>5
<1>7. ASSUME NEW i \in 1..a
      PROVE  i \in 1..(a + d + n) /\ ItemAt(c, i) = c.acs[i]
  BY <1>4, <1>5
<1>8. ASSUME NEW i \in 1..d
      PROVE  i + a \in 1..(a + d + n) /\ ItemAt(c, i + a) = c.deps[i]
  <2>1. i + a \in 1..(a + d + n) /\ ~(i + a <= a) /\ i + a <= a + d /\ (i + a) - a = i
    BY <1>5
  <2> QED
    BY <1>4, <2>1
<1>9. ASSUME NEW i \in 1..n
      PROVE  i + (a + d) \in 1..(a + d + n) /\ ItemAt(c, i + (a + d)) = c.noalias[i]
  <2>1. /\ i + (a + d) \in 1..(a + d + n) /\ ~(i + (a + d) <= a) /\ ~(i + (a + d) <= a + d)
        /\ (i + (a + d)) - (a + d) = i
    BY <1>5
  <2> QED
    BY <1>4, <2>1
<1>10. {ItemAt(c, i) : i \in 1..(a + d + n)} \subseteq Tasking!Items(c)
  BY <1>3, <1>6
<1>11. Tasking!Items(c) \subseteq {ItemAt(c, i) : i \in 1..(a + d + n)}
  BY <1>3, <1>7, <1>8, <1>9
<1> QED
  BY <1>1, <1>2, <1>10, <1>11

\* Filling the slots puts the access of item i into slot i, and leaves a slot
\* alone that has no item.
LEMMA FillClauseIs ==
  ASSUME NEW c \in ClauseSet, NEW s \in Seq(Access), NAccesses(c) <= Len(s)
  PROVE  /\ Len(FillClause(s, c)) = Len(s) /\ DOMAIN FillClause(s, c) = 1..Len(s)
         /\ \A i \in 1..Len(s) : FillClause(s, c)[i] = IF Used(c, i) THEN AccessAt(c, i) ELSE s[i]
<1> DEFINE a == Len(c.acs)
           d == Len(c.deps)
           n == Len(c.noalias)
           f1 == Fill(s, 0, c.acs, AcAccess)
           f2 == Fill(f1, a, c.deps, DepAccess)
           f3 == Fill(f2, a + d, c.noalias, DepAccess)
<1>1. /\ a \in Nat /\ d \in Nat /\ n \in Nat
      /\ DOMAIN c.acs = 1..a /\ DOMAIN c.deps = 1..d /\ DOMAIN c.noalias = 1..n
      /\ Len(s) \in Nat /\ DOMAIN s = 1..Len(s) /\ NAccesses(c) = a + d + n
  BY ClauseLists, LenProperties DEF NAccesses
<1>2. /\ DOMAIN f1 = DOMAIN s
      /\ \A i \in DOMAIN s : f1[i] = IF i - 0 \in DOMAIN c.acs /\ c.acs[i - 0].addr # NULL
                                       THEN AcAccess(c.acs[i - 0]) ELSE s[i]
  BY DEF Fill
<1> HIDE DEF f1
<1>3. /\ DOMAIN f2 = DOMAIN f1
      /\ \A i \in DOMAIN f1 : f2[i] = IF i - a \in DOMAIN c.deps /\ c.deps[i - a].addr # NULL
                                       THEN DepAccess(c.deps[i - a]) ELSE f1[i]
  BY DEF Fill
<1> HIDE DEF f2
<1>4. /\ DOMAIN f3 = DOMAIN f2
      /\ \A i \in DOMAIN f2 : f3[i] = IF i - (a + d) \in DOMAIN c.noalias /\ c.noalias[i - (a + d)].addr # NULL
                                       THEN DepAccess(c.noalias[i - (a + d)]) ELSE f2[i]
  BY DEF Fill
<1>5. f3 = FillClause(s, c)
  BY DEF FillClause, f1, f2
<1> HIDE DEF f3
<1>6. f3 \in Seq(Access)
  BY <1>5, FillClauseType
<1>7. Len(f3) = Len(s) /\ DOMAIN f3 = 1..Len(s)
  BY <1>1, <1>2, <1>3, <1>4, <1>6, LenProperties
<1>8. /\ \A i : Used(c, i) <=> i <= a + d + n /\ ItemAt(c, i).addr # NULL
      /\ \A i : AccessAt(c, i) = IF i <= a THEN AcAccess(ItemAt(c, i)) ELSE DepAccess(ItemAt(c, i))
      /\ \A i : ItemAt(c, i) = IF i <= a THEN c.acs[i] ELSE IF i <= a + d THEN c.deps[i - a]
                               ELSE c.noalias[i - (a + d)]
  BY <1>1 DEF Used, AccessAt, ItemAt
<1> DEFINE l == Len(s)
<1>9. a \in Nat /\ d \in Nat /\ n \in Nat /\ l \in Nat
  BY <1>1
<1> HIDE DEF a, d, n, l
<1>10. ASSUME NEW i \in 1..l
      PROVE  f3[i] = IF Used(c, i) THEN AccessAt(c, i) ELSE s[i]
  <2>1. CASE i <= a
    <3>1. i <= a /\ i \in 1..a /\ i - a \notin 1..d /\ i - (a + d) \notin 1..n /\ i - 0 = i /\ i <= a + d + n
      BY <1>9, <2>1
    <3>2. f3[i] = IF c.acs[i].addr # NULL THEN AcAccess(c.acs[i]) ELSE s[i]
      BY <1>1, <1>2, <1>3, <1>4, <3>1 DEF l
    <3> QED
      BY <1>8, <3>1, <3>2
  <2>2. CASE i > a /\ i <= a + d
    <3>1. i \notin 1..a /\ i - a \in 1..d /\ i - (a + d) \notin 1..n /\ i - 0 = i /\ i <= a + d + n /\ ~(i <= a) /\ i <= a + d
      BY <1>9, <2>2
    <3>2. f3[i] = IF c.deps[i - a].addr # NULL THEN DepAccess(c.deps[i - a]) ELSE s[i]
      BY <1>1, <1>2, <1>3, <1>4, <3>1 DEF l
    <3> QED
      BY <1>8, <3>1, <3>2
  <2>3. CASE i > a + d /\ i <= a + d + n
    <3>1. i \notin 1..a /\ i - a \notin 1..d /\ i - (a + d) \in 1..n /\ i - 0 = i /\ ~(i <= a) /\ ~(i <= a + d) /\ i <= a + d + n
      BY <1>9, <2>3
    <3>2. f3[i] = IF c.noalias[i - (a + d)].addr # NULL THEN DepAccess(c.noalias[i - (a + d)]) ELSE s[i]
      BY <1>1, <1>2, <1>3, <1>4, <3>1 DEF l
    <3> QED
      BY <1>8, <3>1, <3>2
  <2>4. CASE i > a + d + n
    <3>1. i \notin 1..a /\ i - a \notin 1..d /\ i - (a + d) \notin 1..n /\ i - 0 = i /\ ~(i <= a + d + n)
      BY <1>9, <2>4
    <3>2. f3[i] = s[i]
      BY <1>1, <1>2, <1>3, <1>4, <3>1 DEF l
    <3> QED
      BY <1>8, <3>1, <3>2
  <2> QED
    BY <1>9, <2>1, <2>2, <2>3, <2>4
<1> QED
  BY <1>5, <1>7, <1>10 DEF l

-------------------------------------------------------------------------------
(* What an item means, and what its access says.                           *)

Concurrent(k) == k.flags \cap {"set", "concurrentwrite"} # {}
Supported(k) == "all" \notin k.flags

\* The access of an item with an address says what its flags say.
Renders(a, k) ==
  /\ a.addr = k.addr /\ a.conc \in Concurrency
  /\ a.mode \cap {"R", "W"} # {}
  /\ "W" \in a.mode <=> Tasking!Writes(k.flags)
  /\ a.conc = "concurrent" <=> Concurrent(k)
  /\ a.conc = "commutative" <=> k.flags = {"mtx"}
  /\ "R" \in a.mode /\ "W" \in a.mode /\ Concurrent(k) => {"read", "concurrentwrite"} \subseteq k.flags
  /\ k.flags = {"mtx"} => "W" \in a.mode /\ "R" \notin a.mode

LEMMA DepRenders ==
  ASSUME NEW k \in DepItem, k.flags \in DependTypes, Supported(k)
  PROVE  Renders(DepAccess(k), k)
<1> DEFINE a == DepAccess(k)
           f == k.flags
<1>1. a.addr = k.addr /\ a.mode = DepMode(f) /\ a.conc = DepConcurrency(f)
  BY DEF DepAccess
<1>2. f \in {{"in"}, {"out"}, {"in", "out"}, {"mtx"}, {"set"}}
  BY DEF DependTypes, Supported
<1>3. /\ "W" \in a.mode <=> "out" \in f \/ "mtx" \in f \/ "set" \in f
      /\ "R" \in a.mode <=> "in" \in f
  BY <1>1 DEF DepMode
<1>4. a.conc = IF "set" \in f THEN "concurrent" ELSE IF "mtx" \in f THEN "commutative" ELSE "sequential"
  BY <1>1 DEF DepConcurrency
<1>5. /\ Tasking!Writes(f) <=> "out" \in f \/ "mtx" \in f \/ "set" \in f
      /\ Concurrent(k) <=> "set" \in f
  BY <1>2 DEF Tasking!Writes, Concurrent
<1>6. /\ "mtx" \in f <=> f = {"mtx"}
      /\ "set" \in f => "in" \notin f
      /\ "mtx" \in f => "set" \notin f /\ "in" \notin f
      /\ "in" \in f \/ "out" \in f \/ "mtx" \in f \/ "set" \in f
  BY <1>2
<1>7. a.mode \cap {"R", "W"} # {}
  BY <1>3, <1>6
<1> HIDE DEF a, f
<1>8. k.flags = f
  BY DEF f
<1>9. a.conc \in Concurrency
  BY <1>4 DEF Concurrency
<1>10. a.conc = "concurrent" <=> Concurrent(k)
  BY <1>4, <1>5
<1>11. a.conc = "commutative" <=> f = {"mtx"}
  BY <1>4, <1>6
<1>12. /\ ~("R" \in a.mode /\ "W" \in a.mode /\ Concurrent(k))
       /\ f = {"mtx"} => "W" \in a.mode /\ "R" \notin a.mode
  BY <1>3, <1>5, <1>6
<1>13. "W" \in a.mode <=> Tasking!Writes(f)
  BY <1>3, <1>5
<1> QED
  BY <1>1, <1>7, <1>8, <1>9, <1>10, <1>11, <1>12, <1>13 DEF Renders, a

LEMMA AcRenders ==
  ASSUME NEW k \in AcItem, k.flags \cap {"read", "write", "concurrentwrite", "storage"} # {}
  PROVE  Renders(AcAccess(k), k) /\ Supported(k)
<1> DEFINE a == AcAccess(k)
           f == k.flags
<1>1. /\ a.addr = k.addr /\ a.mode = AcMode(f)
      /\ a.conc = IF "concurrentwrite" \in f THEN "concurrent" ELSE "sequential"
  BY DEF AcAccess
<1>2. f \subseteq {"read", "write", "concurrentwrite", "storage", "noncoherent", "nostorage"}
  BY DEF AcItem, AcFlag
<1>3. /\ "W" \in a.mode <=> "write" \in f \/ "concurrentwrite" \in f \/ "storage" \in f
      /\ "R" \in a.mode <=> "read" \in f
  BY <1>1 DEF AcMode
<1>4. Tasking!Writes(f) <=> "write" \in f \/ "concurrentwrite" \in f \/ "storage" \in f
  BY <1>2 DEF Tasking!Writes
<1>5. Concurrent(k) <=> "concurrentwrite" \in f
  BY <1>2 DEF Concurrent
<1>6. f # {"mtx"} /\ "all" \notin f
  BY <1>2
<1>7. a.mode \cap {"R", "W"} # {}
  BY <1>3
<1> HIDE DEF a
<1>8. Renders(a, k)
  BY <1>1, <1>3, <1>4, <1>5, <1>6, <1>7 DEF Renders, Concurrency
<1> QED
  BY <1>6, <1>8 DEF a, Supported

\* Every item of a clause that is submitted is supported, and its access says
\* what it means.
LEMMA ClauseRenders ==
  ASSUME NEW c \in ClauseSet, PlainClause(c), ~Unsupported(c), ~AllMemory(c), NEW i \in 1..NAccesses(c)
  PROVE  /\ Supported(ItemAt(c, i))
         /\ ItemAt(c, i).addr # NULL => Renders(AccessAt(c, i), ItemAt(c, i))
<1> DEFINE a == Len(c.acs)
           d == Len(c.deps)
           n == Len(c.noalias)
<1>1. /\ a \in Nat /\ d \in Nat /\ n \in Nat /\ i \in 1..(a + d + n)
      /\ DOMAIN c.acs = 1..a /\ DOMAIN c.deps = 1..d /\ DOMAIN c.noalias = 1..n
  BY ClauseLists DEF NAccesses
<1>2. /\ ItemAt(c, i) = IF i <= a THEN c.acs[i] ELSE IF i <= a + d THEN c.deps[i - a]
                        ELSE c.noalias[i - (a + d)]
      /\ AccessAt(c, i) = IF i <= a THEN AcAccess(ItemAt(c, i)) ELSE DepAccess(ItemAt(c, i))
  BY DEF ItemAt, AccessAt
<1>3. /\ \A j \in 1..a : c.acs[j] \in AcItem /\ c.acs[j].flags \cap {"read", "write", "concurrentwrite", "storage"} # {}
  BY <1>1, ClauseLists DEF PlainClause
<1>4. \A j \in 1..d : LET k == c.deps[j] IN k \in DepItem /\ k.flags \in DependTypes /\ Supported(k)
  BY <1>1, ClauseLists DEF PlainClause, Unsupported, AllMemory, Supported
<1>5. \A j \in 1..n : LET k == c.noalias[j] IN k \in DepItem /\ k.flags \in DependTypes /\ Supported(k)
  BY <1>1, ClauseLists DEF PlainClause, Unsupported, AllMemory, Supported
<1> HIDE DEF a, d, n
<1>6. CASE i <= a
  <2>1. i \in 1..a
    BY <1>1, <1>6
  <2> QED
    BY <1>2, <1>3, <1>6, <2>1, AcRenders
<1>7. CASE ~(i <= a) /\ i <= a + d
  <2>1. i - a \in 1..d
    BY <1>1, <1>7
  <2> QED
    BY <1>2, <1>4, <1>7, <2>1, DepRenders
<1>8. CASE ~(i <= a) /\ ~(i <= a + d)
  <2>1. i - (a + d) \in 1..n
    BY <1>1, <1>8
  <2> QED
    BY <1>2, <1>5, <1>8, <2>1, DepRenders
<1> QED
  BY <1>6, <1>7, <1>8

-------------------------------------------------------------------------------
(* Two items and their accesses.                                           *)

\* XKRT orders, and keeps apart, two accesses exactly if OpenMP does the items.
LEMMA AccessesOrder ==
  ASSUME NEW k, NEW l, NEW a, NEW b, Renders(a, k), Renders(b, l), Supported(k), Supported(l),
         k.addr # NULL, l.addr # NULL
  PROVE  /\ Precedes(a, b) <=> Tasking!Conflict(k, l)
         /\ Excludes(a, b) <=> k.addr = l.addr /\ k.flags = {"mtx"} /\ l.flags = {"mtx"}
<1>1. SameStorage(a, b) <=> k.addr = l.addr
  BY DEF Renders, SameStorage, Touches
<1>2. a.conc = b.conc /\ a.conc \in {"commutative", "concurrent"} <=>
        \/ k.flags = {"mtx"} /\ l.flags = {"mtx"}
        \/ Concurrent(k) /\ Concurrent(l)
  BY DEF Renders
<1>3. Tasking!Conflict(k, l) <=>
        /\ k.addr = l.addr
        /\ Tasking!Writes(k.flags) \/ Tasking!Writes(l.flags)
        /\ ~(k.flags = {"mtx"} /\ l.flags = {"mtx"})
        /\ ~(Concurrent(k) /\ Concurrent(l))
  BY DEF Tasking!Conflict, Supported, Concurrent
<1>4. Precedes(a, b) <=> Tasking!Conflict(k, l)
  BY <1>1, <1>2, <1>3 DEF Precedes, Renders
<1>5. Excludes(a, b) <=> k.addr = l.addr /\ k.flags = {"mtx"} /\ l.flags = {"mtx"}
  BY <1>1 DEF Excludes, Renders
<1> QED
  BY <1>4, <1>5

\* What the dependence of an access says of its item.
LEMMA DependenceSays ==
  ASSUME NEW k, NEW a, Renders(a, k)
  PROVE  LET d == AccessToDependence(a)
         IN  /\ d # "in" <=> Tasking!Writes(k.flags)
             /\ d = "mutexinoutset" <=> k.flags = {"mtx"}
             /\ d = "inoutset" => Concurrent(k)
             /\ Concurrent(k) /\ Tasking!Writes(k.flags) /\ d # "inoutset" =>
                  {"read", "concurrentwrite"} \subseteq k.flags
<1> DEFINE d == AccessToDependence(a)
<1>1. CASE "W" \notin a.mode
  <2>1. d = "in"
    BY <1>1 DEF AccessToDependence
  <2> QED
    BY <1>1, <2>1 DEF Renders
<1>2. CASE "W" \in a.mode /\ "R" \in a.mode
  <2>1. d = "inout"
    BY <1>2 DEF AccessToDependence
  <2> QED
    BY <1>2, <2>1 DEF Renders
<1>3. CASE "W" \in a.mode /\ "R" \notin a.mode
  <2>1. d = IF a.conc = "commutative" THEN "mutexinoutset"
            ELSE IF a.conc = "concurrent" THEN "inoutset" ELSE "out"
    <3>1. ~({"R", "W"} \subseteq a.mode)
      BY <1>3
    <3> QED
      BY <1>3, <3>1 DEF AccessToDependence, Renders, Concurrency
  <2> QED
    BY <1>3, <2>1 DEF Renders
<1> QED
  BY <1>1, <1>2, <1>3

-------------------------------------------------------------------------------
(* Two clauses and the slots of their tasks.                               *)

\* The accesses of a submitted task that name storage are those of its items.
LEMMA UsedSlots ==
  ASSUME NEW c \in ClauseSet, PlainClause(c), ~Unsupported(c), ~AllMemory(c),
         NEW s \in Seq(Access), SlotsAs(c, s), NEW i \in 1..NAccesses(c)
  PROVE  /\ i \in DOMAIN s /\ ItemAt(c, i) \in Tasking!Items(c) /\ Supported(ItemAt(c, i))
         /\ ItemAt(c, i).addr # NULL => s[i] = AccessAt(c, i) /\ Renders(s[i], ItemAt(c, i))
         /\ ItemAt(c, i).addr = NULL => s[i] \in {Inert, Garbage}
<1>1. i \in DOMAIN s
  <2>1. NAccesses(c) \in Nat /\ Len(s) \in Nat /\ DOMAIN s = 1..Len(s) /\ NAccesses(c) <= Len(s)
    BY ItemsOf, LenProperties DEF SlotsAs
  <2> DEFINE m == NAccesses(c)
             q == Len(s)
  <2>2. m \in Nat /\ q \in Nat /\ m <= q /\ i \in 1..m /\ DOMAIN s = 1..q
    BY <2>1
  <2> HIDE DEF m, q
  <2> QED
    BY <2>2
<1>2. ItemAt(c, i) \in Tasking!Items(c)
  BY ItemsOf
<1>3. Used(c, i) <=> ItemAt(c, i).addr # NULL
  BY ItemsOf DEF Used
<1>4. IF Used(c, i) THEN s[i] = AccessAt(c, i) ELSE s[i] \in {Inert, Garbage}
  BY <1>1 DEF SlotsAs
<1>5. Supported(ItemAt(c, i)) /\ (ItemAt(c, i).addr # NULL => Renders(AccessAt(c, i), ItemAt(c, i)))
  BY ClauseRenders
<1> QED
  BY <1>1, <1>2, <1>3, <1>4, <1>5

LEMMA ClausesOrder ==
  ASSUME NEW c \in ClauseSet, PlainClause(c), ~Unsupported(c), ~AllMemory(c),
         NEW s \in Seq(Access), SlotsAs(c, s),
         NEW d \in ClauseSet, PlainClause(d), ~Unsupported(d), ~AllMemory(d),
         NEW r \in Seq(Access), SlotsAs(d, r)
  PROVE  /\ Tasking!MustOrder(c, d) => SlotsPrecede(s, r)
         /\ Tasking!MustExclude(c, d) => SlotsExclude(s, r)
<1>1. ASSUME NEW i \in 1..NAccesses(c), NEW j \in 1..NAccesses(d)
      PROVE  LET k == ItemAt(c, i)  l == ItemAt(d, j)
             IN  /\ i \in DOMAIN s /\ j \in DOMAIN r
                 /\ Tasking!Conflict(k, l) => Precedes(s[i], r[j])
                 /\ k.addr = l.addr /\ k.addr # NULL /\ k.flags = {"mtx"} /\ l.flags = {"mtx"} =>
                      Excludes(s[i], r[j])
  <2> DEFINE k == ItemAt(c, i)
             l == ItemAt(d, j)
  <2>1. /\ i \in DOMAIN s /\ Supported(k) /\ (k.addr # NULL => Renders(s[i], k))
        /\ j \in DOMAIN r /\ Supported(l) /\ (l.addr # NULL => Renders(r[j], l))
    BY UsedSlots
  <2>2. Tasking!Conflict(k, l) => k.addr # NULL /\ l.addr # NULL
    BY <2>1 DEF Tasking!Conflict, Supported
  <2> HIDE DEF k, l
  <2>3. k.addr # NULL /\ l.addr # NULL =>
          /\ Precedes(s[i], r[j]) <=> Tasking!Conflict(k, l)
          /\ Excludes(s[i], r[j]) <=> k.addr = l.addr /\ k.flags = {"mtx"} /\ l.flags = {"mtx"}
    BY <2>1, AccessesOrder
  <2> QED
    BY <2>1, <2>2, <2>3 DEF k, l
<1>2. /\ Tasking!Items(c) = {ItemAt(c, i) : i \in 1..NAccesses(c)}
      /\ Tasking!Items(d) = {ItemAt(d, i) : i \in 1..NAccesses(d)}
  BY ItemsOf
<1>3. ASSUME Tasking!MustOrder(c, d)
      PROVE  SlotsPrecede(s, r)
  <2>1. PICK i \in 1..NAccesses(c), j \in 1..NAccesses(d) : Tasking!Conflict(ItemAt(c, i), ItemAt(d, j))
    BY <1>2, <1>3 DEF Tasking!MustOrder
  <2> QED
    BY <1>1, <2>1 DEF SlotsPrecede
<1>4. ASSUME Tasking!MustExclude(c, d)
      PROVE  SlotsExclude(s, r)
  <2>1. PICK i \in 1..NAccesses(c), j \in 1..NAccesses(d) :
          LET k == ItemAt(c, i)  l == ItemAt(d, j)
          IN  k.addr = l.addr /\ k.addr # NULL /\ k.flags = {"mtx"} /\ l.flags = {"mtx"}
    BY <1>2, <1>4 DEF Tasking!MustExclude
  <2> QED
    BY <1>1, <2>1 DEF SlotsExclude
<1> QED
  BY <1>3, <1>4

-------------------------------------------------------------------------------
(* What a tool is told.                                                    *)

\* What the state has to say of a submitted task for the theorems.
Slotted(u) ==
  /\ clause[u] \in ClauseSet /\ PlainClause(clause[u])
  /\ ~Unsupported(clause[u]) /\ ~AllMemory(clause[u])
  /\ slots[u] \in Seq(Access) /\ SlotsAs(clause[u], slots[u])

\* A dependence the tool is told is that of an item, or names no storage.
LEMMA ToldItems ==
  ASSUME NEW u \in Explicit, Slotted(u)
  PROVE  /\ \A e \in ToldOf(u) : e.variable # NULL =>
              \E k \in Tasking!Items(clause[u]), a \in Access :
                /\ k.addr = e.variable /\ Supported(k) /\ Renders(a, k)
                /\ e.dependence_type = AccessToDependence(a)
         /\ \A k \in Tasking!Items(clause[u]) : Supported(k) /\
              (k.addr # NULL =>
                 \E e \in ToldOf(u), a \in Access :
                   /\ k.addr = e.variable /\ Renders(a, k)
                   /\ e.dependence_type = AccessToDependence(a))
         /\ ToldOf(u) # {} => slots[u] # <<>>
<1> DEFINE c == clause[u]
           s == slots[u]
           n == NAccesses(c)
           told(i) == [variable |-> s[i].addr, dependence_type |-> AccessToDependence(s[i])]
<1>1. ToldOf(u) = {told(i) : i \in 1..n}
  BY DEF ToldOf, OnTaskAccesses
<1>2. Tasking!Items(c) = {ItemAt(c, i) : i \in 1..n}
  BY ItemsOf DEF Slotted
<1>3. \A i \in 1..n :
        /\ i \in DOMAIN s /\ ItemAt(c, i) \in Tasking!Items(c) /\ Supported(ItemAt(c, i))
        /\ ItemAt(c, i).addr # NULL => Renders(s[i], ItemAt(c, i))
        /\ ItemAt(c, i).addr = NULL => s[i] \in {Inert, Garbage}
        /\ s[i] \in Access
  BY UsedSlots, ElementOfSeq DEF Slotted
<1>4. ASSUME NEW e \in ToldOf(u), e.variable # NULL
      PROVE  \E k \in Tasking!Items(c), a \in Access :
               /\ k.addr = e.variable /\ Supported(k) /\ Renders(a, k)
               /\ e.dependence_type = AccessToDependence(a)
  <2>1. PICK i \in 1..n : e = told(i)
    BY <1>1
  <2>2. e.variable = s[i].addr /\ e.dependence_type = AccessToDependence(s[i])
    BY <2>1
  <2>3. ItemAt(c, i).addr # NULL
    BY <1>3, <1>4, <2>2 DEF Inert, Garbage
  <2>4. Renders(s[i], ItemAt(c, i)) /\ Supported(ItemAt(c, i)) /\ ItemAt(c, i) \in Tasking!Items(c)
    BY <1>3, <2>3
  <2>5. ItemAt(c, i).addr = e.variable
    BY <2>2, <2>4 DEF Renders
  <2> QED
    BY <1>3, <2>2, <2>4, <2>5
<1>5. ASSUME NEW k \in Tasking!Items(c)
      PROVE  /\ Supported(k)
             /\ k.addr # NULL =>
                  \E e \in ToldOf(u), a \in Access :
                    /\ k.addr = e.variable /\ Renders(a, k)
                    /\ e.dependence_type = AccessToDependence(a)
  <2>1. PICK i \in 1..n : k = ItemAt(c, i)
    BY <1>2
  <2>2. told(i) \in ToldOf(u)
    BY <1>1
  <2>3. told(i).variable = s[i].addr /\ told(i).dependence_type = AccessToDependence(s[i])
    OBVIOUS
  <2>4. k.addr # NULL => Renders(s[i], k) /\ s[i].addr = k.addr
    BY <1>3, <2>1 DEF Renders
  <2>5. Supported(k)
    BY <1>3, <2>1
  <2> HIDE DEF told
  <2> QED
    BY <1>3, <2>2, <2>3, <2>4, <2>5
<1>6. ToldOf(u) # {} => s # <<>>
  BY <1>1, <1>3
<1> QED
  BY <1>4, <1>5, <1>6

\* The order and the exclusion of two tasks are told a tool as they are.
LEMMA OrderIsTold ==
  ASSUME NEW u \in Explicit, NEW v \in Explicit, Slotted(u), Slotted(v)
  PROVE  /\ Tasking!MustOrder(clause[u], clause[v]) => OrderTold(u, v)
         /\ OrderTold(u, v) =>
              \/ Tasking!MustOrder(clause[u], clause[v])
              \/ \E i \in Tasking!Items(clause[u]), j \in Tasking!Items(clause[v]) : Unnamed(i, j)
         /\ ExclusionTold(u, v) <=> Tasking!MustExclude(clause[u], clause[v])
<1> DEFINE I == Tasking!Items(clause[u])
           J == Tasking!Items(clause[v])
\* Two items on one storage, their accesses a and b, and what is told of these.
<1>1. ASSUME NEW k, NEW l, NEW a, NEW b, NEW d, NEW e,
             Renders(a, k), Renders(b, l), Supported(k), Supported(l),
             d.variable = k.addr, e.variable = l.addr, k.addr # NULL, l.addr # NULL,
             d.dependence_type = AccessToDependence(a), e.dependence_type = AccessToDependence(b)
      PROVE  LET told == /\ SameVariable(d, e)
                         /\ d.dependence_type # "in" \/ e.dependence_type # "in"
                         /\ ~( /\ d.dependence_type = e.dependence_type
                               /\ d.dependence_type \in {"mutexinoutset", "inoutset"})
             IN  /\ Tasking!Conflict(k, l) => told
                 /\ told => Tasking!Conflict(k, l) \/ Unnamed(k, l)
                 /\ SameVariable(d, e) /\ {d.dependence_type, e.dependence_type} = {"mutexinoutset"} <=>
                      k.addr = l.addr /\ k.flags = {"mtx"} /\ l.flags = {"mtx"}
  <2>1. SameVariable(d, e) <=> k.addr = l.addr
    BY <1>1 DEF SameVariable
  <2>2. /\ d.dependence_type # "in" <=> Tasking!Writes(k.flags)
        /\ d.dependence_type = "mutexinoutset" <=> k.flags = {"mtx"}
        /\ d.dependence_type = "inoutset" => Concurrent(k)
        /\ Concurrent(k) /\ Tasking!Writes(k.flags) /\ d.dependence_type # "inoutset" =>
             {"read", "concurrentwrite"} \subseteq k.flags
    BY <1>1, DependenceSays
  <2>3. /\ e.dependence_type # "in" <=> Tasking!Writes(l.flags)
        /\ e.dependence_type = "mutexinoutset" <=> l.flags = {"mtx"}
        /\ e.dependence_type = "inoutset" => Concurrent(l)
        /\ Concurrent(l) /\ Tasking!Writes(l.flags) /\ e.dependence_type # "inoutset" =>
             {"read", "concurrentwrite"} \subseteq l.flags
    BY <1>1, DependenceSays
  <2>4. Tasking!Conflict(k, l) <=>
          /\ k.addr = l.addr
          /\ Tasking!Writes(k.flags) \/ Tasking!Writes(l.flags)
          /\ ~(k.flags = {"mtx"} /\ l.flags = {"mtx"})
          /\ ~(Concurrent(k) /\ Concurrent(l))
    BY <1>1 DEF Tasking!Conflict, Supported, Concurrent
  <2>5. Unnamed(k, l) <=>
          /\ k.addr = l.addr /\ Concurrent(k) /\ Concurrent(l)
          /\ {"read", "concurrentwrite"} \subseteq k.flags \/ {"read", "concurrentwrite"} \subseteq l.flags
    BY <1>1 DEF Unnamed, Concurrent
  <2>6. Concurrent(k) => Tasking!Writes(k.flags)
    BY DEF Concurrent, Tasking!Writes
  <2>7. Concurrent(l) => Tasking!Writes(l.flags)
    BY DEF Concurrent, Tasking!Writes
  <2>8. {d.dependence_type, e.dependence_type} = {"mutexinoutset"} <=>
          d.dependence_type = "mutexinoutset" /\ e.dependence_type = "mutexinoutset"
    OBVIOUS
  <2> DEFINE x == d.dependence_type
             y == e.dependence_type
  <2> HIDE DEF x, y
  <2>9. x = d.dependence_type /\ y = e.dependence_type
    BY DEF x, y
  <2> QED
    BY <2>1, <2>2, <2>3, <2>4, <2>5, <2>6, <2>7, <2>8, <2>9
<1>2. ASSUME Tasking!MustOrder(clause[u], clause[v])
      PROVE  OrderTold(u, v)
  <2>1. PICK k \in I, l \in J : Tasking!Conflict(k, l)
    BY <1>2 DEF Tasking!MustOrder
  <2>2. Supported(k) /\ Supported(l)
    BY ToldItems
  <2>3. k.addr # NULL /\ l.addr # NULL
    BY <2>1, <2>2 DEF Tasking!Conflict, Supported
  <2>4. PICK d \in ToldOf(u), a \in Access : k.addr = d.variable /\ Renders(a, k) /\ d.dependence_type = AccessToDependence(a)
    BY <2>3, ToldItems
  <2>5. PICK e \in ToldOf(v), b \in Access : l.addr = e.variable /\ Renders(b, l) /\ e.dependence_type = AccessToDependence(b)
    BY <2>3, ToldItems
  <2> QED
    BY <1>1, <2>1, <2>2, <2>3, <2>4, <2>5 DEF OrderTold
<1>3. ASSUME OrderTold(u, v)
      PROVE  \/ Tasking!MustOrder(clause[u], clause[v])
             \/ \E i \in I, j \in J : Unnamed(i, j)
  <2>1. PICK d \in ToldOf(u), e \in ToldOf(v) :
          /\ SameVariable(d, e)
          /\ d.dependence_type # "in" \/ e.dependence_type # "in"
          /\ ~( /\ d.dependence_type = e.dependence_type
                /\ d.dependence_type \in {"mutexinoutset", "inoutset"})
    BY <1>3 DEF OrderTold
  <2>2. d.variable # NULL /\ e.variable # NULL
    BY <2>1 DEF SameVariable
  <2>3. PICK k \in I, a \in Access : k.addr = d.variable /\ Supported(k) /\ Renders(a, k) /\ d.dependence_type = AccessToDependence(a)
    BY <2>2, ToldItems
  <2>4. PICK l \in J, b \in Access : l.addr = e.variable /\ Supported(l) /\ Renders(b, l) /\ e.dependence_type = AccessToDependence(b)
    BY <2>2, ToldItems
  <2>5. Tasking!Conflict(k, l) \/ Unnamed(k, l)
    BY <1>1, <2>1, <2>2, <2>3, <2>4
  <2> QED
    BY <2>5 DEF Tasking!MustOrder
<1>4. ASSUME Tasking!MustExclude(clause[u], clause[v])
      PROVE  ExclusionTold(u, v)
  <2>1. PICK k \in I, l \in J : k.addr = l.addr /\ k.addr # NULL /\ k.flags = {"mtx"} /\ l.flags = {"mtx"}
    BY <1>4 DEF Tasking!MustExclude
  <2>2. Supported(k) /\ Supported(l) /\ l.addr # NULL
    BY <2>1, ToldItems
  <2>3. PICK d \in ToldOf(u), a \in Access : k.addr = d.variable /\ Renders(a, k) /\ d.dependence_type = AccessToDependence(a)
    BY <2>1, ToldItems
  <2>4. PICK e \in ToldOf(v), b \in Access : l.addr = e.variable /\ Renders(b, l) /\ e.dependence_type = AccessToDependence(b)
    BY <2>2, ToldItems
  <2>5. SameVariable(d, e) /\ {d.dependence_type, e.dependence_type} = {"mutexinoutset"} <=>
          k.addr = l.addr /\ k.flags = {"mtx"} /\ l.flags = {"mtx"}
    <3>1. /\ d.variable = k.addr /\ e.variable = l.addr /\ k.addr # NULL /\ l.addr # NULL
          /\ Renders(a, k) /\ Renders(b, l) /\ Supported(k) /\ Supported(l)
          /\ d.dependence_type = AccessToDependence(a) /\ e.dependence_type = AccessToDependence(b)
      BY <2>1, <2>2, <2>3, <2>4
    <3> QED
      BY <1>1, <3>1
  <2> QED
    BY <2>1, <2>5 DEF ExclusionTold
<1>5. ASSUME ExclusionTold(u, v)
      PROVE  Tasking!MustExclude(clause[u], clause[v])
  <2>1. PICK d \in ToldOf(u), e \in ToldOf(v) :
          SameVariable(d, e) /\ {d.dependence_type, e.dependence_type} = {"mutexinoutset"}
    BY <1>5 DEF ExclusionTold
  <2>2. d.variable # NULL /\ e.variable # NULL
    BY <2>1 DEF SameVariable
  <2>3. PICK k \in I, a \in Access : k.addr = d.variable /\ Supported(k) /\ Renders(a, k) /\ d.dependence_type = AccessToDependence(a)
    BY <2>2, ToldItems
  <2>4. PICK l \in J, b \in Access : l.addr = e.variable /\ Supported(l) /\ Renders(b, l) /\ e.dependence_type = AccessToDependence(b)
    BY <2>2, ToldItems
  <2>5. k.addr = l.addr /\ k.flags = {"mtx"} /\ l.flags = {"mtx"}
    BY <1>1, <2>1, <2>2, <2>3, <2>4
  <2> QED
    BY <2>2, <2>3, <2>5 DEF Tasking!MustExclude
<1> QED
  BY <1>2, <1>3, <1>4, <1>5

-------------------------------------------------------------------------------
(* Submission.                                                             *)

\* A task without items has no slots to fill.
LEMMA NoItems ==
  ASSUME NEW c \in ClauseSet, NAccesses(c) = 0
  PROVE  ~Unsupported(c)
<1> DEFINE a == Len(c.acs)
           d == Len(c.deps)
           n == Len(c.noalias)
<1>1. /\ a \in Nat /\ d \in Nat /\ n \in Nat /\ a + d + n = 0
      /\ DOMAIN c.acs = 1..a /\ DOMAIN c.deps = 1..d /\ DOMAIN c.noalias = 1..n
  BY ClauseLists DEF NAccesses
<1> HIDE DEF a, d, n
<1>2. a = 0 /\ d = 0 /\ n = 0
  BY <1>1
<1>3. DOMAIN c.acs = {} /\ DOMAIN c.deps = {} /\ DOMAIN c.noalias = {}
  BY <1>1, <1>2
<1> QED
  BY <1>3 DEF Unsupported

\* An item's access is neither padding nor memory nobody wrote to.
LEMMA UsedNames ==
  ASSUME NEW c, NEW i, Used(c, i)
  PROVE  AccessAt(c, i) # Inert /\ AccessAt(c, i) # Garbage
<1>1. AccessAt(c, i).addr # NULL
  BY DEF Used, AccessAt, AcAccess, DepAccess
<1> QED
  BY <1>1 DEF Inert, Garbage

\* Whichever compiler the program came from: once the items of the clause are
\* written over the slots its allocation reserved, every slot is as it should.
LEMMA FilledAs ==
  ASSUME NEW c \in ClauseSet, NEW b \in {"patched", "stock"},
         NAccesses(c) <= Len(AllocSlots(b, c))
  PROVE  /\ Filling(c, FillClause(AllocSlots(b, c), c), b)
         /\ NAccesses(c) = 0 =>
              /\ Filling(c, AllocSlots(b, c), b)
              /\ \A i \in DOMAIN AllocSlots(b, c) : AllocSlots(b, c)[i] # Garbage
<1> DEFINE s == AllocSlots(b, c)
           f == FillClause(s, c)
           m == NAccesses(c)
<1>1. s \in Seq(Access)
  BY AllocSlotsType
<1>2. m \in Nat
  BY ItemsOf
<1>3. /\ Len(f) = Len(s) /\ DOMAIN f = 1..Len(s) /\ DOMAIN s = 1..Len(s) /\ Len(s) \in Nat
      /\ \A i \in 1..Len(s) : f[i] = IF Used(c, i) THEN AccessAt(c, i) ELSE s[i]
  BY <1>1, FillClauseIs, LenProperties
<1>6. Inert # Garbage
  BY DEF Inert, Garbage
<1>7. \A i \in DOMAIN s : Used(c, i) => f[i] # Inert /\ f[i] # Garbage
  BY <1>3, UsedNames
<1>4. CASE b = "stock"
  <2>1. \A i \in DOMAIN s : s[i] = Inert
    BY <1>4 DEF AllocSlots
  <2>2. m = 0 => \A i \in DOMAIN s : ~Used(c, i)
    BY <1>2, <1>3 DEF Used
  <2> HIDE DEF f, s
  <2> QED
    BY <1>3, <1>4, <1>6, <1>7, <2>1, <2>2 DEF SlotsAs, Filling, f, s
<1>5. CASE b = "patched"
  <2>1. /\ Len(c.acs) \in Nat /\ Len(c.deps) \in Nat /\ Len(c.noalias) \in Nat
        /\ m = Len(c.acs) + Len(c.deps) + Len(c.noalias)
    BY LenProperties DEF NAccesses, ClauseSet
  <2>2. DOMAIN s = 1..(Len(c.acs) + Len(c.deps)) /\ \A i \in DOMAIN s : s[i] = Garbage
    BY <1>5 DEF AllocSlots
  <2>3. ASSUME NEW x \in Nat, NEW y \in Nat, NEW z \in Nat
        PROVE  (\A i \in 1..(x + y) : i <= x + y + z) /\ (x + y + z = 0 => 1..(x + y) = {})
    OBVIOUS
  <2> HIDE DEF s, m
  <2>4. (\A i \in DOMAIN s : i <= m) /\ (m = 0 => DOMAIN s = {})
    BY <2>1, <2>2, <2>3
  <2> USE DEF s, m
  <2> HIDE DEF f, s
  <2> QED
    BY <1>3, <1>6, <1>7, <2>2, <2>4 DEF SlotsAs, Filling, f, s
<1> QED
  BY <1>4, <1>5

\* The same for a task that is allocated and committed in one call.
LEMMA FilledAtOnce ==
  ASSUME NEW c \in ClauseSet, NEW b
  PROVE  Filling(c, FillClause([i \in 1..NAccesses(c) |-> Garbage], c), b)
<1> DEFINE m == NAccesses(c)
           s == [i \in 1..m |-> Garbage]
           f == FillClause(s, c)
<1>1. m \in Nat /\ s \in Seq(Access)
  BY ItemsOf, AllocSlotsType
<1>2. /\ Len(f) = Len(s) /\ DOMAIN f = 1..Len(s)
      /\ \A i \in 1..Len(s) : f[i] = IF Used(c, i) THEN AccessAt(c, i) ELSE s[i]
  BY <1>1, FillClauseIs, LenProperties
<1>3. Len(s) = m /\ \A i \in 1..m : s[i] = Garbage
  BY <1>1
<1>4. Inert # Garbage
  BY DEF Inert, Garbage
<1>5. \A i \in 1..m : Used(c, i) => f[i] # Inert
  BY <1>2, <1>3, UsedNames
<1>6. m <= m /\ \A i \in 1..m : i <= m
  BY <1>1
<1> HIDE DEF s, f
<1> QED
  BY <1>2, <1>3, <1>4, <1>5, <1>6 DEF SlotsAs, Filling, f, s

\* A step of a task's code other than creating or submitting a task.
LEMMA SubmitKept ==
  ASSUME SubmitInv, UNCHANGED <<taskVars, abi>>, mode # "undefined" \/ mode' = mode,
         \A t \in Task : pc[t] = "submit" => pc'[t] = "submit" /\ await'[t] = await[t],
         \A u \in Explicit : ~Started(u) \/ attr[u].target => pc'[u] = pc[u],
         TreeInv
  PROVE  SubmitInv'
<1>1. UNCHANGED <<status, attr, parent, clause, slots, abi>>
  BY DEF taskVars
<1>2. AllocatedInv'
  <2>1. \A u \in Explicit : status[u] = "allocated" => parent[u] \in Task
    BY DEF TreeInv
  <2> QED
    BY <1>1, <2>1 DEF SubmitInv, AllocatedInv
<1>3. SubmittedInv' /\ DefinedInv' /\ NumbersInv'
  BY <1>1 DEF SubmitInv, SubmittedInv, DefinedInv, NumbersInv, Committed
<1>4. NoCodeInv'
  BY <1>1 DEF SubmitInv, NoCodeInv, Started
<1> QED
  BY <1>2, <1>3, <1>4 DEF SubmitInv

\* A submitted task begins or completes.
LEMMA SubmitRuns ==
  ASSUME TypeOK, TreeInv, SubmitInv, NEW u \in Explicit, Committed(u),
         status' = [status EXCEPT ![u] = status'[u]], status'[u] \in {"executing", "completed"},
         UNCHANGED <<attr, parent, clause, slots, pc, await, abi, mode>>
  PROVE  SubmitInv'
<1>1. \A v \in Explicit : v # u => status'[v] = status[v]
  BY DEF TypeOK, Task
<1>2. \A v \in Explicit : /\ status'[v] = "allocated" => status[v] = "allocated"
                          /\ status'[v] = "none" <=> status[v] = "none"
                          /\ Committed(v)' <=> Committed(v)
                          /\ Started(v) => Started(v)'
  BY <1>1 DEF Committed, Started
<1>3. AllocatedInv' /\ NumbersInv'
  BY <1>2 DEF SubmitInv, AllocatedInv, NumbersInv
<1>4. SubmittedInv' /\ DefinedInv' /\ NoCodeInv'
  BY <1>2 DEF SubmitInv, SubmittedInv, DefinedInv, NoCodeInv
<1> QED
  BY <1>3, <1>4 DEF SubmitInv

\* A task is submitted: it is the last its creator created.
LEMMA SubmitCommits ==
  ASSUME IInv, SubmitInv, NEW t \in Task, NEW u \in Explicit, pc[t] = "submit", await[t] = u,
         Commit(t, u), UNCHANGED <<attr, parent, clause, abi>>,
         slots' = [slots EXCEPT ![u] = slots'[u]], Executing(t),
         ~Unsupported(clause[u]), Filling(clause[u], slots'[u], abi),
         mode = "running", mode' # "undefined" => \A i \in DOMAIN slots'[u] : slots'[u][i] # Garbage
  PROVE  SubmitInv'
<1>0. TypeOK /\ TreeInv /\ CodeInv
  BY DEF IInv
<1>1. /\ status' = [status EXCEPT ![u] = "committed"] /\ status[u] = "allocated" /\ parent[u] = t
      /\ pc' = [pc EXCEPT ![t] = pc'[t]] /\ pc'[t] \in {"run", "waittask"}
      /\ await' = [await EXCEPT ![t] = await'[t]]
  BY <1>0 DEF Commit, CodeInv, TypeOK
<1>2. /\ \A v \in Task : v # u => status'[v] = status[v] /\ slots'[v] = slots[v]
      /\ status'[u] = "committed"
      /\ \A v \in Task : v # t => pc'[v] = pc[v] /\ await'[v] = await[v]
      /\ u \in Task /\ u # t
  BY <1>0, <1>1 DEF TypeOK, Task, Executing
<1>3. AllocatedInv'
  <2> SUFFICES ASSUME NEW v \in Explicit, status'[v] = "allocated"
               PROVE  /\ pc'[parent[v]] = "submit" /\ await'[parent[v]] = v
                      /\ clause[v] \in Clauses /\ slots'[v] = AllocSlots(abi, clause[v])
                      /\ \A w \in Explicit : status'[w] # "none" /\ parent[w] = parent[v] => w <= v
    BY <1>1 DEF AllocatedInv
  <2>1. v # u /\ v \in Task /\ status[v] = "allocated"
    BY <1>2 DEF Task
  <2>2. await[parent[v]] = v /\ parent[v] \in Task
    BY <1>0, <2>1 DEF SubmitInv, AllocatedInv, TreeInv
  <2>3. parent[v] # t
    BY <2>1, <2>2
  <2>4. \A w \in Explicit : status'[w] # "none" => status[w] # "none"
    BY <1>1, <1>2 DEF Task
  <2> QED
    BY <1>2, <2>1, <2>2, <2>3, <2>4 DEF SubmitInv, AllocatedInv
<1>4. SubmittedInv'
  <2>1. clause[u] \in Clauses
    BY <1>1 DEF SubmitInv, AllocatedInv
  <2>2. \A v \in Explicit : v # u /\ Committed(v)' => Committed(v) /\ slots'[v] = slots[v]
    BY <1>2 DEF Committed, Task
  <2>3. Filling(clause'[u], slots'[u], abi')
    OBVIOUS
  <2> QED
    BY <2>1, <2>2, <2>3 DEF SubmitInv, SubmittedInv
<1>7. DefinedInv'
  <2>1. \A v \in Explicit : v # u /\ Committed(v)' => Committed(v) /\ slots'[v] = slots[v]
    BY <1>2 DEF Committed, Task
  <2> QED
    BY <2>1 DEF SubmitInv, DefinedInv
<1>5. NumbersInv'
  <2>1. \A v \in Explicit : status'[v] = "none" <=> status[v] = "none"
    BY <1>1, <1>2 DEF Task
  <2> QED
    BY <2>1 DEF SubmitInv, NumbersInv
<1>6. NoCodeInv'
  <2> SUFFICES ASSUME NEW v \in Explicit, ~Started(v)' \/ attr[v].target
               PROVE  pc'[v] = "run"
    BY DEF NoCodeInv
  <2>1. ~Started(v) \/ attr[v].target
    BY <1>1, <1>2 DEF Started, Task
  <2>2. pc[v] = "run"
    BY <2>1 DEF SubmitInv, NoCodeInv
  <2> QED
    BY <1>2, <2>2 DEF Task
<1> QED
  BY <1>3, <1>4, <1>5, <1>6, <1>7 DEF SubmitInv

\* A task is created: the youngest of all.
LEMMA SubmitCreates ==
  ASSUME IInv, SubmitInv, NEW t \in Task, NEW u \in Explicit, NEW a \in Attr, NEW c \in Clauses,
         Encountering(t), Fresh(u), NewTask(t, u, a, c), UNCHANGED abi,
         NEW x \in {"allocated", "committed"}, status' = [status EXCEPT ![u] = x],
         slots' = [slots EXCEPT ![u] = slots'[u]],
         \A v \in Task : v # t => pc'[v] = pc[v] /\ await'[v] = await[v],
         x = "allocated" =>
           pc'[t] = "submit" /\ await'[t] = u /\ slots'[u] = AllocSlots(abi, c),
         x = "committed" =>
           /\ ~Unsupported(c) /\ Filling(c, slots'[u], abi)
           /\ mode' # "undefined" => \A i \in DOMAIN slots'[u] : slots'[u][i] # Garbage
  PROVE  SubmitInv'
<1>0. TypeOK /\ TreeInv /\ CodeInv
  BY DEF IInv
<1>1. /\ status[u] = "none" /\ u \in Task /\ u # t /\ pc[t] = "run" /\ Executing(t) /\ ~attr[t].target
      /\ \A v \in Explicit : v < u => status[v] # "none"
  BY DEF Encountering, Fresh, Current, Task, Executing
<1>2. /\ \A v \in Task : v # u => /\ status'[v] = status[v] /\ slots'[v] = slots[v]
                                 /\ parent'[v] = parent[v] /\ clause'[v] = clause[v] /\ attr'[v] = attr[v]
      /\ status'[u] = x /\ parent'[u] = t /\ clause'[u] = c
  BY <1>0, <1>1 DEF TypeOK, NewTask
<1>3. \A v \in Explicit : status[v] # "none" => v < u
  <2> SUFFICES ASSUME NEW v \in Explicit, status[v] # "none", ~(v < u)
               PROVE  FALSE
    OBVIOUS
  <2>1. v # u /\ v \in Int /\ u \in Int
    BY <1>1 DEF Explicit
  <2>2. u < v
    BY <2>1
  <2> QED
    BY <1>1, <2>2 DEF SubmitInv, NumbersInv
<1>4. AllocatedInv'
  <2>1. ASSUME x = "allocated"
        PROVE  \A w \in Explicit : status'[w] # "none" => w <= u
    <3>1. \A w \in Explicit : w # u => (status'[w] # "none" => w < u)
      BY <1>2, <1>3 DEF Task
    <3> QED
      BY <3>1 DEF Explicit
  <2>2. ASSUME NEW v \in Explicit, v # u, status'[v] = "allocated"
        PROVE  /\ pc'[parent'[v]] = "submit" /\ await'[parent'[v]] = v
               /\ clause'[v] \in Clauses /\ slots'[v] = AllocSlots(abi, clause'[v])
               /\ \A w \in Explicit : status'[w] # "none" /\ parent'[w] = parent'[v] => w <= v
    <3>1. v \in Task /\ status[v] = "allocated" /\ parent'[v] = parent[v] /\ clause'[v] = clause[v]
          /\ slots'[v] = slots[v]
      BY <1>2, <2>2 DEF Task
    <3>2. pc[parent[v]] = "submit" /\ parent[v] \in Task
      BY <1>0, <3>1 DEF SubmitInv, AllocatedInv, TreeInv
    <3>3. parent[v] # t
      BY <1>1, <3>2
    <3>4. \A w \in Explicit : status'[w] # "none" /\ parent'[w] = parent[v] =>
            status[w] # "none" /\ parent[w] = parent[v]
      BY <1>2, <3>3 DEF Task
    <3> QED
      BY <3>1, <3>2, <3>3, <3>4 DEF SubmitInv, AllocatedInv
  <2>3. ASSUME NEW v \in Explicit, v = u, status'[v] = "allocated"
        PROVE  /\ pc'[parent'[v]] = "submit" /\ await'[parent'[v]] = v
               /\ clause'[v] \in Clauses /\ slots'[v] = AllocSlots(abi, clause'[v])
               /\ \A w \in Explicit : status'[w] # "none" /\ parent'[w] = parent'[v] => w <= v
    BY <1>2, <2>1, <2>3
  <2> QED
    BY <2>2, <2>3 DEF AllocatedInv
<1>5. SubmittedInv'
  <2>1. \A v \in Explicit : v # u /\ Committed(v)' =>
          Committed(v) /\ slots'[v] = slots[v] /\ clause'[v] = clause[v]
    BY <1>2 DEF Committed, Task
  <2>2. Committed(u)' => x = "committed"
    BY <1>2 DEF Committed
  <2> QED
    BY <1>2, <2>1, <2>2 DEF SubmitInv, SubmittedInv
<1>8. DefinedInv'
  <2>1. \A v \in Explicit : v # u /\ Committed(v)' => Committed(v) /\ slots'[v] = slots[v]
    BY <1>2 DEF Committed, Task
  <2>2. Committed(u)' => x = "committed"
    BY <1>2 DEF Committed
  <2>3. mode # "undefined"
    BY DEF Encountering
  <2> QED
    BY <2>1, <2>2, <2>3 DEF SubmitInv, DefinedInv
<1>6. NumbersInv'
  <2>1. \A v \in Explicit : v # u => (status'[v] # "none" <=> status[v] # "none")
    BY <1>2 DEF Task
  <2>2. status'[u] # "none"
    BY <1>2
  <2> QED
    BY <1>1, <2>1, <2>2 DEF SubmitInv, NumbersInv
<1>7. NoCodeInv'
  <2> SUFFICES ASSUME NEW v \in Explicit, ~Started(v)' \/ attr'[v].target
               PROVE  pc'[v] = "run"
    BY DEF NoCodeInv
  <2>1. CASE v = u
    <3>1. ~Started(u)
      BY <1>1 DEF Started
    <3> QED
      BY <1>1, <2>1, <3>1 DEF SubmitInv, NoCodeInv
  <2>2. CASE v # u
    <3>1. ~Started(v) \/ attr[v].target
      BY <1>2, <2>2 DEF Started, Task
    <3>2. pc[v] = "run"
      BY <3>1 DEF SubmitInv, NoCodeInv
    <3>3. v # t
      BY <1>1, <3>1 DEF Started, Executing
    <3> QED
      BY <3>2, <3>3 DEF Task
  <2> QED
    BY <2>1, <2>2
<1> QED
  BY <1>4, <1>5, <1>6, <1>7, <1>8 DEF SubmitInv

LEMMA SubmitInit == Init => SubmitInv
<1> SUFFICES ASSUME Init PROVE SubmitInv
  OBVIOUS
<1>1. \A u \in Explicit : status[u] = "none" /\ pc[u] = "run"
  BY DisjointTasks DEF Init
<1> QED
  BY <1>1 DEF SubmitInv, AllocatedInv, SubmittedInv, DefinedInv, NumbersInv, NoCodeInv, Committed

LEMMA SubmitStep == IInv /\ SubmitInv /\ [Next]_vars => SubmitInv'
<1> SUFFICES ASSUME IInv, SubmitInv, [Next]_vars PROVE SubmitInv'
  OBVIOUS
<1>0. TypeOK /\ TreeInv /\ CodeInv
  BY DEF IInv
<1>1. abi \in {"patched", "stock"} /\ \A c \in Clauses : c \in ClauseSet
  BY <1>0, AbiAssumption, ClauseAssumption DEF TypeOK
<1>2. ASSUME NEW t \in Task, NEW u \in Explicit, NEW a \in Attrs, NEW c \in Clauses, TaskAlloc(t, u, a, c)
      PROVE  SubmitInv'
  <2>1. u \in Task /\ a \in Attr
    BY AttrAssumption DEF Task
  <2>2. /\ Encountering(t) /\ Fresh(u) /\ NewTask(t, u, a, c) /\ UNCHANGED abi
        /\ status' = [status EXCEPT ![u] = "allocated"] /\ slots' = [slots EXCEPT ![u] = slots'[u]]
        /\ slots'[u] = AllocSlots(abi, c)
        /\ pc'[t] = "submit" /\ await'[t] = u
        /\ \A v \in Task : v # t => pc'[v] = pc[v] /\ await'[v] = await[v]
    BY <1>0, <1>2, <2>1 DEF TaskAlloc, TypeOK, restVars
  <2> DEFINE x == "allocated"
  <2>3. /\ x \in {"allocated", "committed"} /\ status' = [status EXCEPT ![u] = x]
        /\ x = "allocated" => pc'[t] = "submit" /\ await'[t] = u /\ slots'[u] = AllocSlots(abi, c)
        /\ x = "committed" =>
             /\ ~Unsupported(c) /\ Filling(c, slots'[u], abi)
             /\ mode' # "undefined" => \A i \in DOMAIN slots'[u] : slots'[u][i] # Garbage
    BY <2>2
  <2> HIDE DEF x
  <2>4. /\ Encountering(t) /\ Fresh(u) /\ NewTask(t, u, a, c) /\ UNCHANGED abi
        /\ slots' = [slots EXCEPT ![u] = slots'[u]]
        /\ \A v \in Task : v # t => pc'[v] = pc[v] /\ await'[v] = await[v]
    BY <2>2
  <2> QED
    BY <2>1, <2>3, <2>4, SubmitCreates
<1>3. ASSUME NEW t \in Task, NEW u \in Explicit, NEW c \in Clauses, TaskwaitDeps(t, u, c)
      PROVE  SubmitInv'
  <2>1. CASE Unsupported(c)
    BY <1>0, <1>3, <2>1, SubmitKept DEF TaskwaitDeps, Fatal, Encountering, codeVars
  <2>2. CASE ~Unsupported(c)
    <3>1. u \in Task /\ EmptyAttr \in Attr
      BY InitialTypes DEF Task
    <3>2. /\ Encountering(t) /\ Fresh(u) /\ NewTask(t, u, EmptyAttr, c) /\ UNCHANGED abi
          /\ status' = [status EXCEPT ![u] = "committed"] /\ slots' = [slots EXCEPT ![u] = slots'[u]]
          /\ slots'[u] = FillClause([i \in 1..NAccesses(c) |-> Garbage], c)
          /\ mode' # "undefined" => \A i \in DOMAIN slots'[u] : slots'[u][i] # Garbage
          /\ \A v \in Task : v # t => pc'[v] = pc[v] /\ await'[v] = await[v]
      BY <1>0, <1>3, <2>2, <3>1 DEF TaskwaitDeps, TypeOK, Resolve
    <3>3. Filling(c, slots'[u], abi)
      BY <1>1, <3>2, FilledAtOnce
    <3> QED
      BY <2>2, <3>1, <3>2, <3>3, SubmitCreates
  <2> QED
    BY <2>1, <2>2
<1>4. ASSUME NEW t \in Task, NEW u \in Explicit, NEW c \in Clauses, TargetMemcpyAsync(t, u, c)
      PROVE  SubmitInv'
  <2>1. CASE Unsupported(c)
    BY <1>0, <1>4, <2>1, SubmitKept DEF TargetMemcpyAsync, Fatal, Encountering, codeVars
  <2>2. CASE ~Unsupported(c)
    <3>1. u \in Task /\ TransferAttr \in Attr
      BY <1>4, AttrAssumption DEF Task, TargetMemcpyAsync
    <3>2. /\ Encountering(t) /\ Fresh(u) /\ NewTask(t, u, TransferAttr, c) /\ UNCHANGED abi
          /\ status' = [status EXCEPT ![u] = "committed"] /\ slots' = [slots EXCEPT ![u] = slots'[u]]
          /\ slots'[u] = FillClause([i \in 1..NAccesses(c) |-> Garbage], c)
          /\ mode' # "undefined" => \A i \in DOMAIN slots'[u] : slots'[u][i] # Garbage
          /\ \A v \in Task : v # t => pc'[v] = pc[v] /\ await'[v] = await[v]
      BY <1>0, <1>4, <2>2, <3>1 DEF TargetMemcpyAsync, TypeOK, Resolve, codeVars
    <3>3. Filling(c, slots'[u], abi)
      BY <1>1, <3>2, FilledAtOnce
    <3> QED
      BY <2>2, <3>1, <3>2, <3>3, SubmitCreates
  <2> QED
    BY <2>1, <2>2
<1>5. ASSUME NEW t \in Task, NEW u \in Explicit, OmpTask(t, u) \/ OmpTaskWithDeps(t, u)
      PROVE  SubmitInv'
  <2>1. /\ pc[t] = "submit" /\ await[t] = u /\ Executing(t) /\ status[u] = "allocated" /\ u \in Task
        /\ mode = "running"
    BY <1>0, <1>5 DEF OmpTask, OmpTaskWithDeps, Submitting, Current, CodeInv, Task
  <2>2. clause[u] \in Clauses /\ slots[u] = AllocSlots(abi, clause[u])
    BY <2>1 DEF SubmitInv, AllocatedInv
  <2>3. CASE OmpTaskWithDeps(t, u) /\ Refused(u)
    BY <1>0, <2>1, <2>3, SubmitKept DEF OmpTaskWithDeps, Fatal, codeVars
  <2>4. CASE OmpTaskWithDeps(t, u) /\ ~Refused(u)
    <3>1. /\ Commit(t, u) /\ UNCHANGED <<attr, parent, clause, abi>> /\ slots' = [slots EXCEPT ![u] = slots'[u]]
          /\ slots'[u] = FillClause(slots[u], clause[u])
          /\ mode' # "undefined" => \A i \in DOMAIN slots'[u] : slots'[u][i] # Garbage
      BY <1>0, <2>1, <2>4 DEF OmpTaskWithDeps, Resolve, TypeOK
    <3>2. NAccesses(clause[u]) <= Len(slots[u]) /\ ~Unsupported(clause[u])
      <4>1. NAccesses(clause[u]) \in Nat /\ Len(slots[u]) \in Nat
        BY <1>0, <1>1, <2>1, <2>2, ItemsOf, LenProperties DEF TypeOK
      <4>2. ~(NAccesses(clause[u]) > Len(slots[u])) /\ ~Unsupported(clause[u])
        BY <2>4 DEF Refused
      <4> DEFINE m == NAccesses(clause[u])
                 q == Len(slots[u])
      <4> HIDE DEF m, q
      <4>3. m \in Nat /\ q \in Nat /\ ~(m > q)
        BY <4>1, <4>2 DEF m, q
      <4>4. m <= q
        BY <4>3
      <4> QED
        BY <4>2, <4>4 DEF m, q
    <3>3. Filling(clause[u], slots'[u], abi)
      BY <1>1, <2>2, <3>1, <3>2, FilledAs
    <3> QED
      BY <2>1, <3>1, <3>2, <3>3, SubmitCommits
  <2>5. CASE OmpTask(t, u)
    <3>1. /\ Commit(t, u) /\ UNCHANGED <<attr, parent, clause, slots, abi>> /\ NAccesses(clause[u]) = 0
      BY <2>5 DEF OmpTask, restVars
    <3>2. ~Unsupported(clause[u])
      BY <1>1, <2>2, <3>1, NoItems
    <3>3. /\ Filling(clause[u], slots'[u], abi)
          /\ \A i \in DOMAIN slots'[u] : slots'[u][i] # Garbage
      <4>1. Len(slots[u]) \in Nat
        BY <1>0, <2>1, LenProperties DEF TypeOK
      <4>2. NAccesses(clause[u]) <= Len(slots[u])
        BY <3>1, <4>1
      <4> QED
        BY <1>1, <2>2, <3>1, <4>2, FilledAs
    <3>4. slots' = [slots EXCEPT ![u] = slots'[u]]
      BY <1>0, <2>1, <3>1 DEF TypeOK
    <3> QED
      BY <2>1, <3>1, <3>2, <3>3, <3>4, SubmitCommits
  <2> QED
    BY <1>5, <2>3, <2>4, <2>5
<1>6. ASSUME NEW t \in Task, NEW u \in Explicit, Schedule(t, u) \/ DeviceBegin(u)
      PROVE  SubmitInv'
  <2>1. Committed(u) /\ Begin(u, runner'[u])
    BY <1>0, <1>6 DEF Schedule, DeviceBegin, Ready, Committed, Begin, TypeOK, Task
  <2>2. u \in Task
    BY DEF Task
  <2> QED
    BY <1>0, <2>1, <2>2, SubmitRuns DEF Begin, codeVars, restVars, TypeOK
<1>7. ASSUME NEW u \in Explicit, Executing(u), Complete(u), UNCHANGED <<attr, parent, clause, slots, codeVars, abi, mode>>
      PROVE  SubmitInv'
  <2>1. Committed(u) /\ u \in Task
    BY <1>7 DEF Executing, Committed, Task
  <2> QED
    BY <1>0, <1>7, <2>1, SubmitRuns DEF Complete, codeVars, TypeOK
<1>8. ASSUME NEW t \in Task, BodyReturn(t)
      PROVE  SubmitInv'
  <2>1. t \in Explicit /\ Executing(t) /\ ~attr[t].target /\ pc[t] # "submit"
    BY <1>8 DEF BodyReturn, Current
  <2>2. CASE part[t] = 1
    BY <1>7, <1>8, <2>1, <2>2 DEF BodyReturn
  <2>3. CASE part[t] # 1
    <3>1. /\ UNCHANGED <<taskVars, await, abi, mode>> /\ pc' = [pc EXCEPT ![t] = "unwind"]
      BY <1>8, <2>3 DEF BodyReturn, taskVars
    <3>2. \A u \in Task : u # t => pc'[u] = pc[u]
      BY <1>0, <3>1 DEF TypeOK
    <3>3. Started(t)
      BY <2>1 DEF Started, Executing
    <3> QED
      BY <1>0, <2>1, <3>1, <3>2, <3>3, SubmitKept DEF Task
  <2> QED
    BY <2>2, <2>3
<1>9. ASSUME NEW t \in Task, UNCHANGED <<taskVars, abi, mode>>, Executing(t), pc[t] # "submit",
             t \in Explicit => ~attr[t].target \/ pc'[t] = pc[t],
             \A u \in Task : u # t => pc'[u] = pc[u] /\ await'[u] = await[u]
      PROVE  SubmitInv'
  <2>1. t \in Explicit => Started(t)
    BY <1>9 DEF Started, Executing
  <2> QED
    BY <1>0, <1>9, <2>1, SubmitKept DEF Task
<1>10. ASSUME NEW t \in Task, Taskwait(t) \/ TaskgroupBegin(t) \/ TaskgroupEnd(t) \/ RegionEnd(t) \/ OmpTaskReenter(t)
       PROVE  SubmitInv'
  <2>1. /\ UNCHANGED <<taskVars, abi, mode, await>> /\ Encountering(t)
        /\ \A u \in Task : u # t => pc'[u] = pc[u]
    BY <1>0, <1>10 DEF Taskwait, TaskgroupBegin, TaskgroupEnd, RegionEnd, OmpTaskReenter, WaitsAs, codeVars,
                       restVars, TypeOK
  <2> QED
    BY <1>9, <2>1 DEF Encountering, Current
<1>11. ASSUME NEW t \in Task, TaskwaitReturn(t) \/ AwaitReturn(t) \/ TaskgroupReturn(t)
       PROVE  SubmitInv'
  <2>1. /\ UNCHANGED <<taskVars, abi, mode>> /\ Current(t) /\ pc[t] \notin {"submit", "run"}
        /\ \A u \in Task : u # t => pc'[u] = pc[u] /\ await'[u] = await[u]
    BY <1>0, <1>11 DEF TaskwaitReturn, AwaitReturn, TaskgroupReturn, Resumed, restVars, TypeOK
  <2>2. t \in Explicit => ~attr[t].target
    BY <2>1 DEF SubmitInv, NoCodeInv
  <2> QED
    BY <1>9, <2>1, <2>2 DEF Current
<1>12. CASE TeamBarrier \/ Done \/ UNCHANGED vars
  <2>1. UNCHANGED <<taskVars, codeVars, abi>> /\ (mode # "undefined" \/ mode' = mode)
    BY <1>12 DEF TeamBarrier, Done, vars, restVars
  <2> QED
    BY <1>0, <2>1, SubmitKept DEF codeVars
<1>13. ASSUME NEW u \in Explicit, DeviceComplete(u)
       PROVE  SubmitInv'
  BY <1>7, <1>13 DEF DeviceComplete, restVars
<1>14. ASSUME NEW t \in Task, Steps(t)
       PROVE  SubmitInv'
  <2>1. CASE Constructs(t)
    BY <1>2, <1>3, <1>4, <2>1 DEF Constructs
  <2>2. CASE Submits(t)
    BY <1>0, <1>5, <2>2 DEF Submits, CodeInv
  <2> QED
    BY <1>6, <1>8, <1>10, <1>11, <1>14, <2>1, <2>2 DEF Steps
<1>15. CASE DeviceStep
  <2>1. PICK u \in Explicit : DeviceBegin(u) \/ DeviceComplete(u)
    BY <1>15 DEF DeviceStep
  <2>2. u \in Task
    BY DEF Task
  <2> QED
    BY <1>6, <1>13, <2>1, <2>2
<1> QED
  BY <1>12, <1>14, <1>15 DEF Next

\* SubmitInv is an invariant.
THEOREM SubmitInvariance == Spec => []SubmitInv
<1> QED
  BY Invariance, SubmitInit, SubmitStep, PTL DEF Spec

\* The items of a clause, as one list.
LEMMA ItemsInARow ==
  ASSUME NEW c \in ClauseSet
  PROVE  LET items == c.acs \o c.deps \o c.noalias
         IN  DOMAIN items = 1..NAccesses(c) /\ \A i \in DOMAIN items : items[i] = ItemAt(c, i)
<1> DEFINE a == Len(c.acs)
           d == Len(c.deps)
           n == Len(c.noalias)
           I == AcItem \cup DepItem
<1>1. c.acs \in Seq(I) /\ c.deps \in Seq(I) /\ c.noalias \in Seq(I)
  BY DEF ClauseSet
<1> HIDE DEF I
<1>2. a \in Nat /\ d \in Nat /\ n \in Nat
  BY <1>1, LenProperties
<1>3. /\ c.acs \o c.deps \in Seq(I) /\ Len(c.acs \o c.deps) = a + d
      /\ \A i \in 1..(a + d) : (c.acs \o c.deps)[i] = IF i <= a THEN c.acs[i] ELSE c.deps[i - a]
  BY <1>1, ConcatProperties
<1> DEFINE b == c.acs \o c.deps
<1>4. b \in Seq(I) /\ Len(b) = a + d
  BY <1>3
<1> HIDE DEF b, a, d, n
<1>5. /\ b \o c.noalias \in Seq(I) /\ Len(b \o c.noalias) = Len(b) + Len(c.noalias)
      /\ \A i \in 1..(Len(b) + Len(c.noalias)) :
           (b \o c.noalias)[i] = IF i <= Len(b) THEN b[i] ELSE c.noalias[i - Len(b)]
  BY <1>1, <1>4, ConcatProperties
<1>6. DOMAIN (b \o c.noalias) = 1..(a + d + n)
  <2>1. Len(b \o c.noalias) = a + d + n
    BY <1>4, <1>5 DEF n
  <2> QED
    BY <1>5, <2>1, LenProperties
<1>7. ASSUME NEW i \in 1..(a + d + n)
      PROVE  (b \o c.noalias)[i] =
               IF i <= a THEN c.acs[i] ELSE IF i <= a + d THEN c.deps[i - a] ELSE c.noalias[i - (a + d)]
  <2>1. (b \o c.noalias)[i] = IF i <= a + d THEN b[i] ELSE c.noalias[i - (a + d)]
    BY <1>4, <1>5 DEF n
  <2>2. i <= a + d => i \in 1..(a + d)
    BY <1>2
  <2>3. i <= a => i <= a + d
    BY <1>2
  <2> QED
    BY <1>3, <2>1, <2>2, <2>3 DEF b
<1> QED
  BY <1>6, <1>7 DEF NAccesses, ItemAt, a, d, n, b

\* Every access of a submitted task has been constructed, in whichever slot of
\* whichever list its item lies, unless the item has no address: for lists of
\* any lengths (task_pad_accesses, __kmpc_omp_task_with_deps_v2,
\* xkomp_taskwait_deps).
THEOREM AccessesConstructed == Spec => []SlotsConstructed
<1>1. TypeOK /\ SubmitInv => SlotsConstructed
  <2> SUFFICES ASSUME TypeOK, SubmitInv, NEW u \in Explicit, Committed(u), NEW i \in DOMAIN slots[u],
                      slots[u][i] = Garbage
               PROVE  LET items == clause[u].acs \o clause[u].deps \o clause[u].noalias
                      IN  i \in DOMAIN items /\ items[i].addr = NULL
    BY DEF SlotsConstructed
  <2>1. clause[u] \in ClauseSet /\ SlotsAs(clause[u], slots[u])
    BY ClauseAssumption DEF SubmitInv, SubmittedInv, Filling
  <2>2. i <= NAccesses(clause[u])
    BY <2>1 DEF SlotsAs
  <2>3. ~Used(clause[u], i)
    BY <2>1, UsedNames DEF SlotsAs
  <2>4. i \in 1..NAccesses(clause[u])
    <3>1. slots[u] \in Seq(Access)
      BY DEF TypeOK, Task
    <3>2. i \in Nat /\ 1 <= i
      BY <3>1, LenProperties
    <3>3. NAccesses(clause[u]) \in Nat
      BY <2>1, ItemsOf
    <3> DEFINE m == NAccesses(clause[u])
    <3> HIDE DEF m
    <3>4. m \in Nat /\ i <= m
      BY <2>2, <3>3 DEF m
    <3>5. i \in 1..m
      BY <3>2, <3>4
    <3> QED
      BY <3>5 DEF m
  <2> QED
    BY <2>1, <2>2, <2>3, <2>4, ItemsInARow DEF Used
<1>2. IInv => TypeOK
  BY DEF IInv
<1> QED
  BY Invariance, SubmitInvariance, <1>1, <1>2, PTL

\* What the invariants say of a submitted task while the program is defined:
\* under the patched ABI an item without an address would have left its slot as
\* it was.
LEMMA SubmittedSlots ==
  ASSUME OrderableClauses, IInv, SubmitInv, mode # "undefined", NEW u \in Explicit, Committed(u)
  PROVE  Slotted(u)
<1>1. clause[u] \in Clauses /\ ~Unsupported(clause[u]) /\ Filling(clause[u], slots[u], abi)
  BY DEF SubmitInv, SubmittedInv
<1>2. slots[u] \in Seq(Access) /\ abi \in Abis
  BY DEF IInv, TypeOK, Task
<1>3. clause[u] \in ClauseSet /\ SlotsAs(clause[u], slots[u]) /\ PlainClause(clause[u])
  BY <1>1, ClauseAssumption DEF Filling, OrderableClauses
<1>4. ~AllMemory(clause[u])
  <2>1. CASE "stock" \in Abis
    BY <1>1, <2>1 DEF OrderableClauses
  <2>2. CASE "stock" \notin Abis
    <3>1. \A i \in DOMAIN slots[u] : slots[u][i] \notin {Inert, Garbage}
      BY <1>1, <1>2, <2>2 DEF SubmitInv, DefinedInv, Filling
    <3>2. \A i \in DOMAIN slots[u] : Used(clause[u], i)
      BY <1>3, <3>1 DEF SlotsAs
    <3>3. 1..NAccesses(clause[u]) \subseteq DOMAIN slots[u]
      <4> DEFINE m == NAccesses(clause[u])
                 q == Len(slots[u])
      <4>1. m \in Nat /\ q \in Nat /\ m <= q /\ DOMAIN slots[u] = 1..q
        BY <1>2, <1>3, ItemsOf, LenProperties DEF SlotsAs
      <4> HIDE DEF m, q
      <4> QED
        BY <4>1 DEF m
    <3>4. \A k \in Tasking!Items(clause[u]) : k.addr # NULL
      BY <1>3, <3>2, <3>3, ItemsOf DEF Used
    <3> QED
      BY <3>4 DEF AllMemory, Tasking!Items
  <2> QED
    BY <2>1, <2>2
<1> QED
  BY <1>1, <1>2, <1>3, <1>4 DEF Slotted

\* An OMPT tool reads from the accesses it is told of exactly the order and the
\* exclusion the clauses ask for, whatever they are (task_new, task_instanciate,
\* on_task_accesses).
THEOREM ToolReadsOrder ==
  ASSUME OrderableClauses
  PROVE  Spec => []ToolSeesOrder
<1>1. IInv /\ SubmitInv => ToolSeesOrder
  <2> SUFFICES ASSUME IInv, SubmitInv, NEW u \in Explicit, NEW v \in Explicit,
                      mode # "undefined", Committed(u), Committed(v)
               PROVE  /\ Tasking!MustOrder(clause[u], clause[v]) => OrderTold(u, v)
                      /\ OrderTold(u, v) =>
                           \/ Tasking!MustOrder(clause[u], clause[v])
                           \/ \E i \in Tasking!Items(clause[u]), j \in Tasking!Items(clause[v]) : Unnamed(i, j)
                      /\ ExclusionTold(u, v) <=> Tasking!MustExclude(clause[u], clause[v])
                      /\ ToldOf(u) # {} => OnTaskCreate(u).has_deps
    BY DEF ToolSeesOrder
  <2>1. Slotted(u) /\ Slotted(v)
    BY SubmittedSlots
  <2>2. OnTaskCreate(u).has_deps <=> slots[u] # <<>>
    BY DEF OnTaskCreate
  <2>3. ToldOf(u) # {} => slots[u] # <<>>
    BY <2>1, ToldItems
  <2> QED
    BY <2>1, <2>2, <2>3, OrderIsTold
<1> QED
  BY Invariance, SubmitInvariance, <1>1, PTL

-------------------------------------------------------------------------------
(* The refinement of OpenMP's tasks.  The four variables of OmpTasking.    *)

PhaseOf(t) ==
  CASE status[t] = "executing" -> "running"
    [] status[t] = "completed" -> "finished"
    [] status[t] = "committed" -> "created"
    [] OTHER -> "absent"

AwaitsOf(t) ==
  IF ~Executing(t) THEN {}
  ELSE CASE pc[t] = "taskwait" -> Children(t)
         [] pc[t] = "waittask" -> {await[t]}
         [] OTHER -> {}

phaseOf  == [t \in Task |-> PhaseOf(t)]
parentOf == [t \in Task |-> IF Committed(t) THEN parent[t] ELSE NoTask]
clauseOf == [t \in Task |-> IF Committed(t) THEN clause[t] ELSE NoClause]
awaitsOf == [t \in Task |-> AwaitsOf(t)]

\* The actions of OmpTasking over them.
LEMMA MappedActions ==
  /\ UNCHANGED <<phaseOf, parentOf, clauseOf, awaitsOf>> => UNCHANGED Tasking!vars
  /\ \A t : Tasking!Proceeding(t) <=>
       phaseOf[t] = "running" /\ \A u \in awaitsOf[t] : phaseOf[u] = "finished"
  /\ \A t : Tasking!Children(t) = {u \in Explicit : phaseOf[u] # "absent" /\ parentOf[u] = t}
<1> QED
  BY DEF Tasking!vars, Tasking!Proceeding, Tasking!Children, phaseOf, parentOf, clauseOf, awaitsOf, PhaseOf, AwaitsOf

LEMMA MappedBegin ==
  ASSUME NEW t
  PROVE  Tasking!Begin(t) <=>
           /\ phaseOf[t] = "created"
           /\ \A u \in Tasking!Children(parentOf[t]) :
                /\ u < t /\ Tasking!MustOrder(clauseOf[u], clauseOf[t]) => phaseOf[u] = "finished"
                /\ phaseOf[u] = "running" => ~Tasking!MustExclude(clauseOf[u], clauseOf[t])
           /\ phaseOf' = [phaseOf EXCEPT ![t] = "running"]
           /\ UNCHANGED <<parentOf, clauseOf, awaitsOf>>
<1> QED
  BY DEF Tasking!Begin, phaseOf, parentOf, clauseOf, awaitsOf, PhaseOf, AwaitsOf

LEMMA MappedCreate ==
  ASSUME NEW p, NEW t, NEW c, NEW b \in BOOLEAN
  PROVE  Tasking!Create(p, t, c, b) <=>
           /\ Tasking!Proceeding(p)
           /\ phaseOf[t] = "absent" /\ \A u \in Tasking!Children(p) : u < t
           /\ phaseOf' = [phaseOf EXCEPT ![t] = "created"]
           /\ parentOf' = [parentOf EXCEPT ![t] = p]
           /\ clauseOf' = [clauseOf EXCEPT ![t] = c]
           /\ awaitsOf' = [awaitsOf EXCEPT ![p] = IF b THEN {t} ELSE {}]
<1> QED
  BY DEF Tasking!Create, phaseOf, parentOf, clauseOf, awaitsOf, PhaseOf, AwaitsOf

LEMMA MappedWaits ==
  ASSUME NEW p
  PROVE  /\ Tasking!Taskwait(p) <=>
              /\ Tasking!Proceeding(p)
              /\ awaitsOf' = [awaitsOf EXCEPT ![p] = Tasking!Children(p)]
              /\ UNCHANGED <<phaseOf, parentOf, clauseOf>>
         /\ Tasking!Resume(p) <=>
              /\ Tasking!Proceeding(p)
              /\ awaitsOf' = [awaitsOf EXCEPT ![p] = {}]
              /\ UNCHANGED <<phaseOf, parentOf, clauseOf>>
         /\ Tasking!Finish(p) <=>
              /\ Tasking!Proceeding(p)
              /\ phaseOf' = [phaseOf EXCEPT ![p] = "finished"]
              /\ awaitsOf' = [awaitsOf EXCEPT ![p] = {}]
              /\ UNCHANGED <<parentOf, clauseOf>>
<1> QED
  BY DEF Tasking!Taskwait, Tasking!Resume, Tasking!Finish, phaseOf, parentOf, clauseOf, awaitsOf, PhaseOf, AwaitsOf

LEMMA MappedInit ==
  Tasking!Init <=>
    /\ phaseOf = [t \in Task |-> IF t \in Thread THEN "running" ELSE "absent"]
    /\ parentOf = [t \in Task |-> NoTask]
    /\ clauseOf = [t \in Task |-> NoClause]
    /\ awaitsOf = [t \in Task |-> {}]
<1> QED
  BY DEF Tasking!Init, Tasking!Task, Task, phaseOf, parentOf, clauseOf, awaitsOf, PhaseOf, AwaitsOf

\* What the mapping says in a state of the tasking model.
LEMMA MappedState ==
  ASSUME TypeOK
  PROVE  /\ \A t \in Task : /\ phaseOf[t] = "running" <=> Executing(t)
                            /\ phaseOf[t] = "finished" <=> status[t] = "completed"
                            /\ phaseOf[t] = "created" <=> status[t] = "committed"
                            /\ phaseOf[t] = "absent" <=> ~Committed(t)
         /\ \A t \in Task : Committed(t) => parentOf[t] = parent[t] /\ clauseOf[t] = clause[t]
         /\ \A t \in Task : Tasking!Children(t) = Children(t)
<1>1. \A t \in Task : status[t] \in {"none", "allocated", "committed", "executing", "completed"}
  BY DEF TypeOK
<1>2. \A t \in Task : /\ phaseOf[t] = "running" <=> Executing(t)
                      /\ phaseOf[t] = "finished" <=> status[t] = "completed"
                      /\ phaseOf[t] = "created" <=> status[t] = "committed"
                      /\ phaseOf[t] = "absent" <=> ~Committed(t)
  BY <1>1 DEF phaseOf, PhaseOf, Executing, Committed
<1>3. \A t \in Task : Committed(t) => parentOf[t] = parent[t] /\ clauseOf[t] = clause[t]
  BY DEF parentOf, clauseOf
<1>4. ASSUME NEW t \in Task
      PROVE  Tasking!Children(t) = Children(t)
  <2>1. Tasking!Children(t) = {u \in Explicit : Committed(u) /\ parentOf[u] = t}
    BY <1>2, MappedActions DEF Task
  <2>2. Tasking!Children(t) = {u \in Explicit : Committed(u) /\ parent[u] = t}
    BY <1>3, <2>1 DEF Task
  <2> QED
    BY <2>2 DEF Children, Committed
<1> QED
  BY <1>2, <1>3, <1>4

\* A task proceeds that executes and awaits nothing that has not completed.
LEMMA Proceeds ==
  ASSUME TypeOK, NEW t \in Task, Executing(t), \A u \in AwaitsOf(t) : u \in Task /\ status[u] = "completed"
  PROVE  Tasking!Proceeding(t)
<1>1. awaitsOf[t] = AwaitsOf(t)
  BY DEF awaitsOf
<1> QED
  BY <1>1, MappedState, MappedActions

\* What a step leaves of the mapping: everything of the tasks it says nothing of.
LEMMA MappedStep ==
  ASSUME NEW u \in Task, NEW t \in Task,
         \A v \in Task : v # u => status'[v] = status[v] /\ parent'[v] = parent[v] /\ clause'[v] = clause[v],
         \A v \in Task : v # t => AwaitsOf(v)' = AwaitsOf(v)
  PROVE  /\ phaseOf' = [phaseOf EXCEPT ![u] = PhaseOf(u)']
         /\ parentOf' = [parentOf EXCEPT ![u] = IF Committed(u)' THEN parent'[u] ELSE NoTask]
         /\ clauseOf' = [clauseOf EXCEPT ![u] = IF Committed(u)' THEN clause'[u] ELSE NoClause]
         /\ awaitsOf' = [awaitsOf EXCEPT ![t] = AwaitsOf(t)']
<1>1. \A v \in Task : v # u => PhaseOf(v)' = PhaseOf(v) /\ (Committed(v)' <=> Committed(v))
  BY DEF PhaseOf, Committed
<1>2. /\ phaseOf' = [v \in Task |-> PhaseOf(v)']
      /\ parentOf' = [v \in Task |-> IF Committed(v)' THEN parent'[v] ELSE NoTask]
      /\ clauseOf' = [v \in Task |-> IF Committed(v)' THEN clause'[v] ELSE NoClause]
      /\ awaitsOf' = [v \in Task |-> AwaitsOf(v)']
  BY DEF phaseOf, parentOf, clauseOf, awaitsOf
<1>3. phaseOf' = [phaseOf EXCEPT ![u] = PhaseOf(u)']
  BY <1>1, <1>2 DEF phaseOf
<1>4. parentOf' = [parentOf EXCEPT ![u] = IF Committed(u)' THEN parent'[u] ELSE NoTask]
  BY <1>1, <1>2 DEF parentOf
<1>5. clauseOf' = [clauseOf EXCEPT ![u] = IF Committed(u)' THEN clause'[u] ELSE NoClause]
  BY <1>1, <1>2 DEF clauseOf
<1>6. awaitsOf' = [awaitsOf EXCEPT ![t] = AwaitsOf(t)']
  BY <1>2 DEF awaitsOf
<1> QED
  BY <1>3, <1>4, <1>5, <1>6

\* A task whose code is not blocked awaits nothing.
LEMMA AwaitsNothing ==
  ASSUME NEW t, ~Executing(t) \/ pc[t] \notin {"taskwait", "waittask"}
  PROVE  AwaitsOf(t) = {}
<1> QED
  BY DEF AwaitsOf

\* Submission is the creation of a task in OpenMP's sense.
LEMMA CreateStep ==
  ASSUME TypeOK, NEW t \in Task, NEW u \in Explicit, NEW c \in Clauses, NEW b \in BOOLEAN,
         Executing(t), pc[t] \in {"run", "submit"}, ~Committed(u), \A v \in Children(t) : v < u,
         status' = [status EXCEPT ![u] = "committed"], parent'[u] = t, clause'[u] = c,
         \A v \in Task : v # u => parent'[v] = parent[v] /\ clause'[v] = clause[v],
         \A v \in Task : v # t => pc'[v] = pc[v] /\ await'[v] = await[v],
         AwaitsOf(t)' = IF b THEN {u} ELSE {}
  PROVE  Tasking!Create(t, u, c, b)
<1>1. u \in Task /\ u # t
  BY DEF Task, Executing, Committed
<1>2. status'[u] = "committed" /\ \A v \in Task : v # u => status'[v] = status[v]
  BY <1>1 DEF TypeOK
<1>3. Tasking!Proceeding(t)
  <2>1. AwaitsOf(t) = {}
    BY AwaitsNothing
  <2> QED
    BY <2>1, Proceeds
<1>4. phaseOf[u] = "absent" /\ \A v \in Tasking!Children(t) : v < u
  BY <1>1, MappedState
<1>5. ASSUME NEW v \in Task, v # t
      PROVE  AwaitsOf(v)' = AwaitsOf(v)
  <2>1. Children(v)' = Children(v)
    <3>1. \A w \in Explicit :
            (status'[w] \notin {"none", "allocated"} /\ parent'[w] = v) <=>
              (status[w] \notin {"none", "allocated"} /\ parent[w] = v)
      BY <1>2, <1>5 DEF Committed, Task
    <3> QED
      BY <3>1 DEF Children
  <2>2. Executing(v)' <=> Executing(v)
    BY <1>1, <1>2 DEF Executing, Committed
  <2> QED
    BY <1>5, <2>1, <2>2 DEF AwaitsOf
<1>6. PhaseOf(u)' = "created" /\ Committed(u)'
  BY <1>2 DEF PhaseOf, Committed
<1>7. /\ phaseOf' = [phaseOf EXCEPT ![u] = PhaseOf(u)']
      /\ parentOf' = [parentOf EXCEPT ![u] = IF Committed(u)' THEN parent'[u] ELSE NoTask]
      /\ clauseOf' = [clauseOf EXCEPT ![u] = IF Committed(u)' THEN clause'[u] ELSE NoClause]
      /\ awaitsOf' = [awaitsOf EXCEPT ![t] = AwaitsOf(t)']
  BY <1>1, <1>2, <1>5, MappedStep
<1>8. /\ phaseOf' = [phaseOf EXCEPT ![u] = "created"]
      /\ parentOf' = [parentOf EXCEPT ![u] = t]
      /\ clauseOf' = [clauseOf EXCEPT ![u] = c]
  BY <1>6, <1>7
<1>9. awaitsOf' = [awaitsOf EXCEPT ![t] = IF b THEN {u} ELSE {}]
  BY <1>7
<1>10. CASE b = TRUE
  <2>1. awaitsOf' = [awaitsOf EXCEPT ![t] = IF TRUE THEN {u} ELSE {}]
    BY <1>9, <1>10
  <2>2. Tasking!Create(t, u, c, TRUE)
    BY <1>3, <1>4, <1>8, <2>1, MappedCreate
  <2> QED
    BY <1>10, <2>2
<1>11. CASE b = FALSE
  <2>1. awaitsOf' = [awaitsOf EXCEPT ![t] = IF FALSE THEN {u} ELSE {}]
    BY <1>9, <1>11
  <2>2. Tasking!Create(t, u, c, FALSE)
    BY <1>3, <1>4, <1>8, <2>1, MappedCreate
  <2> QED
    BY <1>11, <2>2
<1> QED
  BY <1>10, <1>11

\* A scheduled task may begin: the accesses that hold it back, or keep it apart
\* from a sibling, are at least those its clause asks for.
LEMMA BeginStep ==
  ASSUME OrderableClauses, IInv, SubmitInv, mode = "running", NEW u \in Explicit, NEW where,
         Ready(u), Begin(u, where)
  PROVE  Tasking!Begin(u)
<1>1. TypeOK /\ TreeInv /\ u \in Task /\ status[u] = "committed" /\ Committed(u)
  BY DEF IInv, Ready, Task, Committed
<1>2. parent[u] \in Task
  BY <1>1 DEF TreeInv
<1>3. /\ status'[u] = "executing" /\ \A v \in Task : v # u => status'[v] = status[v]
      /\ UNCHANGED <<parent, clause, pc, await>>
  BY <1>1 DEF Begin, TypeOK, codeVars
<1>4. phaseOf[u] = "created" /\ parentOf[u] = parent[u] /\ clauseOf[u] = clause[u]
  BY <1>1, MappedState
<1>5. ASSUME NEW v \in Tasking!Children(parentOf[u])
      PROVE  /\ v < u /\ Tasking!MustOrder(clauseOf[v], clauseOf[u]) => phaseOf[v] = "finished"
             /\ phaseOf[v] = "running" => ~Tasking!MustExclude(clauseOf[v], clauseOf[u])
  <2>1. v \in Children(parent[u])
    BY <1>1, <1>2, <1>4, MappedState
  <2>2. v \in Explicit /\ v \in Task /\ Committed(v)
    BY <2>1 DEF Children, Committed, Task
  <2>3. /\ phaseOf[v] = "running" <=> Executing(v)
        /\ phaseOf[v] = "finished" <=> status[v] = "completed"
        /\ clauseOf[v] = clause[v]
    BY <1>1, <2>2, MappedState
  <2>4. CASE v = u
    <3>1. ~(v < u)
      BY <2>4 DEF Explicit
    <3> QED
      BY <1>1, <2>3, <2>4, <3>1 DEF Executing
  <2>5. CASE v # u
    <3>1. /\ v < u /\ status[v] # "completed" => ~SlotsPrecede(slots[v], slots[u])
          /\ Executing(v) => ~SlotsExclude(slots[v], slots[u])
      BY <2>1, <2>5 DEF Ready
    <3>2. Slotted(v) /\ Slotted(u)
      BY <1>1, <2>2, SubmittedSlots
    <3>3. /\ Tasking!MustOrder(clause[v], clause[u]) => SlotsPrecede(slots[v], slots[u])
          /\ Tasking!MustExclude(clause[v], clause[u]) => SlotsExclude(slots[v], slots[u])
      BY <3>2, ClausesOrder DEF Slotted
    <3> QED
      BY <1>4, <2>3, <3>1, <3>3
  <2> QED
    BY <2>4, <2>5
<1>6. \A v \in Task : Children(v)' = Children(v)
  <2>1. \A w \in Explicit : status'[w] \notin {"none", "allocated"} <=> status[w] \notin {"none", "allocated"}
    BY <1>1, <1>3 DEF Task
  <2> QED
    BY <1>3, <2>1 DEF Children
<1>7. AwaitsOf(u)' = AwaitsOf(u)
  <2>1. pc[u] = "run"
    BY <1>1 DEF SubmitInv, NoCodeInv, Started
  <2> QED
    BY <1>3, <2>1 DEF AwaitsOf
<1>8. ASSUME NEW v \in Task, v # u
      PROVE  AwaitsOf(v)' = AwaitsOf(v)
  BY <1>3, <1>6, <1>8 DEF AwaitsOf, Executing
<1>9. PhaseOf(u)' = "running" /\ Committed(u)'
  BY <1>3 DEF PhaseOf, Committed
<1>10. /\ phaseOf' = [phaseOf EXCEPT ![u] = PhaseOf(u)']
       /\ parentOf' = [parentOf EXCEPT ![u] = IF Committed(u)' THEN parent'[u] ELSE NoTask]
       /\ clauseOf' = [clauseOf EXCEPT ![u] = IF Committed(u)' THEN clause'[u] ELSE NoClause]
       /\ awaitsOf' = [awaitsOf EXCEPT ![u] = AwaitsOf(u)']
  BY <1>1, <1>3, <1>8, MappedStep
<1>11. UNCHANGED <<parentOf, clauseOf, awaitsOf>>
  <2>1. parentOf[u] = parentOf'[u] /\ clauseOf[u] = clauseOf'[u] /\ awaitsOf[u] = awaitsOf'[u]
    BY <1>1, <1>3, <1>4, <1>7, <1>9, <1>10 DEF parentOf, clauseOf, awaitsOf
  <2> QED
    BY <1>1, <1>3, <1>7, <1>9, <1>10, <2>1 DEF parentOf, clauseOf, awaitsOf
<1> QED
  BY <1>4, <1>5, <1>9, <1>10, <1>11, MappedBegin

\* The end of a task is its end in OpenMP's sense.
LEMMA FinishStep ==
  ASSUME TypeOK, NEW t \in Explicit, Executing(t), pc[t] \notin {"taskwait", "waittask"},
         Complete(t), UNCHANGED <<parent, clause, codeVars>>
  PROVE  Tasking!Finish(t)
<1>1. /\ t \in Task /\ Committed(t) /\ status'[t] = "completed"
      /\ \A v \in Task : v # t => status'[v] = status[v]
      /\ UNCHANGED <<parent, clause, pc, await>>
  BY DEF Complete, TypeOK, Task, codeVars, Executing, Committed
<1>2. Tasking!Proceeding(t)
  <2>1. AwaitsOf(t) = {}
    BY AwaitsNothing
  <2> QED
    BY <1>1, <2>1, Proceeds
<1>3. \A v \in Task : Children(v)' = Children(v)
  <2>1. \A w \in Explicit : status'[w] \notin {"none", "allocated"} <=> status[w] \notin {"none", "allocated"}
    BY <1>1 DEF Task, Committed
  <2> QED
    BY <1>1, <2>1 DEF Children
<1>4. ASSUME NEW v \in Task, v # t
      PROVE  AwaitsOf(v)' = AwaitsOf(v)
  BY <1>1, <1>3, <1>4 DEF AwaitsOf, Executing
<1>5. PhaseOf(t)' = "finished" /\ Committed(t)' /\ AwaitsOf(t)' = {}
  BY <1>1 DEF PhaseOf, Committed, AwaitsOf, Executing
<1>6. /\ phaseOf' = [phaseOf EXCEPT ![t] = PhaseOf(t)']
      /\ parentOf' = [parentOf EXCEPT ![t] = IF Committed(t)' THEN parent'[t] ELSE NoTask]
      /\ clauseOf' = [clauseOf EXCEPT ![t] = IF Committed(t)' THEN clause'[t] ELSE NoClause]
      /\ awaitsOf' = [awaitsOf EXCEPT ![t] = AwaitsOf(t)']
  BY <1>1, <1>4, MappedStep
<1>7. UNCHANGED <<parentOf, clauseOf>>
  BY <1>1, <1>5, <1>6 DEF parentOf, clauseOf
<1> QED
  BY <1>2, <1>5, <1>6, <1>7, MappedWaits

\* A step that submits, runs and ends no task, and of the tasks that execute
\* moves at most t.
LEMMA OthersKept ==
  ASSUME NEW t \in Task,
         \A v \in Task : IF Committed(v) THEN status'[v] = status[v] /\ parent'[v] = parent[v] /\ clause'[v] = clause[v]
                                         ELSE ~Committed(v)',
         \A v \in Task : v # t => pc'[v] = pc[v] /\ await'[v] = await[v]
  PROVE  /\ UNCHANGED <<phaseOf, parentOf, clauseOf>>
         /\ awaitsOf' = [awaitsOf EXCEPT ![t] = AwaitsOf(t)']
         /\ Children(t)' = Children(t) /\ (Executing(t)' <=> Executing(t))
<1>1. \A v \in Task : PhaseOf(v)' = PhaseOf(v) /\ (Committed(v)' <=> Committed(v)) /\ (Executing(v)' <=> Executing(v))
  BY DEF PhaseOf, Committed, Executing
<1>2. UNCHANGED phaseOf
  BY <1>1 DEF phaseOf
<1>3. UNCHANGED <<parentOf, clauseOf>>
  BY <1>1 DEF parentOf, clauseOf
<1>4. \A v \in Task : Children(v)' = Children(v)
  <2>1. ASSUME NEW v \in Task, NEW w \in Explicit
        PROVE  (status'[w] \notin {"none", "allocated"} /\ parent'[w] = v) <=>
                 (status[w] \notin {"none", "allocated"} /\ parent[w] = v)
    BY DEF Task, Committed
  <2> QED
    BY <2>1 DEF Children
<1>5. \A v \in Task : v # t => AwaitsOf(v)' = AwaitsOf(v)
  BY <1>1, <1>4 DEF AwaitsOf
<1>6. awaitsOf' = [awaitsOf EXCEPT ![t] = AwaitsOf(t)']
  <2>1. awaitsOf' = [v \in Task |-> AwaitsOf(v)']
    BY DEF awaitsOf
  <2> QED
    BY <1>5, <2>1 DEF awaitsOf
<1> QED
  BY <1>1, <1>2, <1>3, <1>4, <1>6

\* Such a step is none of OpenMP's, unless t comes to a wait or leaves one.
LEMMA CodeSteps ==
  ASSUME NEW t \in Task,
         \A v \in Task : IF Committed(v) THEN status'[v] = status[v] /\ parent'[v] = parent[v] /\ clause'[v] = clause[v]
                                         ELSE ~Committed(v)',
         \A v \in Task : v # t => pc'[v] = pc[v] /\ await'[v] = await[v]
  PROVE  /\ \/ pc'[t] = pc[t] /\ await'[t] = await[t]
            \/ {pc[t], pc'[t]} \cap {"taskwait", "waittask"} = {}
            => UNCHANGED Tasking!vars
         /\ TypeOK /\ Executing(t) /\ pc[t] = "run" /\ pc'[t] = "taskwait" => Tasking!Taskwait(t)
         /\ /\ TypeOK /\ Executing(t) /\ pc'[t] = "run"
            /\ \A u \in AwaitsOf(t) : u \in Task /\ status[u] = "completed"
            => Tasking!Resume(t)
<1>1. /\ UNCHANGED <<phaseOf, parentOf, clauseOf>>
      /\ awaitsOf' = [awaitsOf EXCEPT ![t] = AwaitsOf(t)']
      /\ Children(t)' = Children(t) /\ (Executing(t)' <=> Executing(t))
  BY OthersKept
<1>2. ASSUME \/ pc'[t] = pc[t] /\ await'[t] = await[t]
             \/ {pc[t], pc'[t]} \cap {"taskwait", "waittask"} = {}
      PROVE  UNCHANGED Tasking!vars
  <2>1. AwaitsOf(t)' = AwaitsOf(t)
    BY <1>1, <1>2 DEF AwaitsOf
  <2>2. UNCHANGED awaitsOf
    BY <1>1, <2>1 DEF awaitsOf
  <2> QED
    BY <1>1, <2>2, MappedActions
<1>3. ASSUME TypeOK, Executing(t), pc[t] = "run", pc'[t] = "taskwait"
      PROVE  Tasking!Taskwait(t)
  <2>1. AwaitsOf(t) = {}
    BY <1>3, AwaitsNothing
  <2>2. AwaitsOf(t)' = Children(t)
    BY <1>1, <1>3 DEF AwaitsOf
  <2>3. Tasking!Children(t) = Children(t)
    BY <1>3, MappedState
  <2>4. Tasking!Proceeding(t)
    BY <1>3, <2>1, Proceeds
  <2> QED
    BY <1>1, <2>2, <2>3, <2>4, MappedWaits
<1>4. ASSUME TypeOK, Executing(t), pc'[t] = "run", \A u \in AwaitsOf(t) : u \in Task /\ status[u] = "completed"
      PROVE  Tasking!Resume(t)
  <2>1. AwaitsOf(t)' = {}
    BY <1>1, <1>4 DEF AwaitsOf
  <2>2. Tasking!Proceeding(t)
    BY <1>4, Proceeds
  <2> QED
    BY <1>1, <2>1, <2>2, MappedWaits
<1> QED
  BY <1>2, <1>3, <1>4

\* A task that has not been used is younger than every task created.
LEMMA FreshIsYoungest ==
  ASSUME SubmitInv, NEW u \in Explicit, Fresh(u), NEW t
  PROVE  \A v \in Children(t) : v < u
<1> SUFFICES ASSUME NEW v \in Children(t), ~(v < u)
             PROVE  FALSE
  OBVIOUS
<1>1. v \in Explicit /\ status[v] # "none" /\ status[u] = "none"
  BY DEF Children, Fresh
<1>2. u < v
  BY <1>1 DEF Explicit
<1> QED
  BY <1>1, <1>2 DEF SubmitInv, NumbersInv

LEMMA RefineInit == Init => Tasking!Init
<1> SUFFICES ASSUME Init PROVE Tasking!Init
  OBVIOUS
<1>1. \A t \in Task : /\ status[t] = IF t \in Thread THEN "executing" ELSE "none"
                      /\ parent[t] = NoTask /\ clause[t] = NoClause /\ pc[t] = "run"
  BY DEF Init
<1>2. \A t \in Task : PhaseOf(t) = IF t \in Thread THEN "running" ELSE "absent"
  BY <1>1 DEF PhaseOf
<1>3. \A t \in Task : AwaitsOf(t) = {}
  BY <1>1 DEF AwaitsOf
<1> QED
  BY <1>1, <1>2, <1>3, MappedInit DEF phaseOf, parentOf, clauseOf, awaitsOf

\* Every step of the tasking entry points is one of OpenMP's tasks or none.
LEMMA RefineStep ==
  ASSUME OrderableClauses, IInv, SubmitInv, [Next]_vars
  PROVE  [Tasking!Next]_(Tasking!vars)
<1>0. TypeOK /\ TreeInv /\ CodeInv
  BY DEF IInv
<1>1. \A u \in Explicit : u \in Task
  BY DEF Task
<1>2. ASSUME NEW t \in Task, NEW u \in Explicit, NEW b \in BOOLEAN, NEW c \in Clauses, Tasking!Create(t, u, c, b)
      PROVE  Tasking!Next
  BY <1>2 DEF Tasking!Next, Tasking!Task, Task
<1>3. ASSUME NEW t \in Task, UNCHANGED <<status, parent, clause>>,
             \A v \in Task : v # t => pc'[v] = pc[v] /\ await'[v] = await[v],
             \/ pc'[t] = pc[t] /\ await'[t] = await[t]
             \/ {pc[t], pc'[t]} \cap {"taskwait", "waittask"} = {}
      PROVE  UNCHANGED Tasking!vars
  <2>1. \A v \in Task : IF Committed(v) THEN status'[v] = status[v] /\ parent'[v] = parent[v] /\ clause'[v] = clause[v]
                                        ELSE ~Committed(v)'
    BY <1>3 DEF Committed
  <2> QED
    BY <1>3, <2>1, CodeSteps
<1>4. ASSUME NEW t \in Task, NEW u \in Explicit, NEW a \in Attrs, NEW c \in Clauses, TaskAlloc(t, u, a, c)
      PROVE  UNCHANGED Tasking!vars
  <2>1. ~Committed(u) /\ pc[t] = "run"
    BY <1>4 DEF TaskAlloc, Fresh, Encountering, Committed
  <2>2. /\ status'[u] = "allocated" /\ pc'[t] = "submit"
        /\ \A v \in Task : v # u => status'[v] = status[v] /\ parent'[v] = parent[v] /\ clause'[v] = clause[v]
        /\ \A v \in Task : v # t => pc'[v] = pc[v] /\ await'[v] = await[v]
    BY <1>0, <1>1, <1>4 DEF TaskAlloc, NewTask, TypeOK
  <2>3. \A v \in Task : IF Committed(v) THEN status'[v] = status[v] /\ parent'[v] = parent[v] /\ clause'[v] = clause[v]
                                        ELSE ~Committed(v)'
    BY <2>1, <2>2 DEF Committed
  <2>4. {pc[t], pc'[t]} \cap {"taskwait", "waittask"} = {}
    BY <2>1, <2>2
  <2> QED
    BY <2>2, <2>3, <2>4, CodeSteps
<1>5. ASSUME NEW t \in Task, NEW u \in Explicit, NEW c \in Clauses, TaskwaitDeps(t, u, c)
      PROVE  [Tasking!Next]_(Tasking!vars)
  <2>1. CASE Unsupported(c)
    BY <1>3, <1>5, <2>1 DEF TaskwaitDeps, Fatal, taskVars, codeVars
  <2>2. CASE ~Unsupported(c)
    <3>1. /\ status' = [status EXCEPT ![u] = "committed"] /\ parent'[u] = t /\ clause'[u] = c
          /\ \A v \in Task : v # u => parent'[v] = parent[v] /\ clause'[v] = clause[v]
          /\ \A v \in Task : v # t => pc'[v] = pc[v] /\ await'[v] = await[v]
          /\ pc'[t] = "waittask" /\ await'[t] = u
      <4>1. /\ NewTask(t, u, EmptyAttr, c) /\ status' = [status EXCEPT ![u] = "committed"]
            /\ pc' = [pc EXCEPT ![t] = "waittask"] /\ await' = [await EXCEPT ![t] = u]
        BY <1>5, <2>2 DEF TaskwaitDeps
      <4> QED
        BY <1>0, <1>1, <4>1 DEF NewTask, TypeOK
    <3>2. Executing(t) /\ pc[t] = "run" /\ Fresh(u) /\ status[u] = "none" /\ ~Committed(u) /\ u # t
      BY <1>5 DEF TaskwaitDeps, Encountering, Current, Fresh, Committed, Executing
    <3>3. \A v \in Children(t) : v < u
      BY <3>2, FreshIsYoungest
    <3>4. AwaitsOf(t)' = IF TRUE THEN {u} ELSE {}
      <4>1. Executing(t)'
        BY <1>0, <3>1, <3>2 DEF Executing, TypeOK
      <4> QED
        BY <3>1, <4>1 DEF AwaitsOf
    <3>5. Tasking!Create(t, u, c, TRUE)
      BY <1>0, <3>1, <3>2, <3>3, <3>4, CreateStep
    <3> QED
      BY <1>2, <3>5
  <2> QED
    BY <2>1, <2>2
<1>6. ASSUME NEW t \in Task, NEW u \in Explicit, NEW c \in Clauses, TargetMemcpyAsync(t, u, c)
      PROVE  [Tasking!Next]_(Tasking!vars)
  <2>1. CASE Unsupported(c)
    BY <1>3, <1>6, <2>1 DEF TargetMemcpyAsync, Fatal, taskVars, codeVars
  <2>2. CASE ~Unsupported(c)
    <3>1. /\ status' = [status EXCEPT ![u] = "committed"] /\ parent'[u] = t /\ clause'[u] = c
          /\ \A v \in Task : v # u => parent'[v] = parent[v] /\ clause'[v] = clause[v]
          /\ UNCHANGED <<pc, await>>
      BY <1>0, <1>1, <1>6, <2>2 DEF TargetMemcpyAsync, NewTask, TypeOK, codeVars
    <3>2. Executing(t) /\ pc[t] = "run" /\ Fresh(u) /\ status[u] = "none" /\ ~Committed(u)
      BY <1>6 DEF TargetMemcpyAsync, Encountering, Current, Fresh, Committed
    <3>3. \A v \in Children(t) : v < u
      BY <3>2, FreshIsYoungest
    <3>4. AwaitsOf(t)' = IF FALSE THEN {u} ELSE {}
      BY <3>1, <3>2 DEF AwaitsOf
    <3>5. Tasking!Create(t, u, c, FALSE)
      BY <1>0, <3>1, <3>2, <3>3, <3>4, CreateStep
    <3> QED
      BY <1>2, <3>5
  <2> QED
    BY <2>1, <2>2
<1>7. ASSUME NEW t \in Task, NEW u \in Explicit, OmpTask(t, u) \/ OmpTaskWithDeps(t, u)
      PROVE  [Tasking!Next]_(Tasking!vars)
  <2>1. CASE OmpTaskWithDeps(t, u) /\ Refused(u)
    BY <1>3, <2>1 DEF OmpTaskWithDeps, Fatal, taskVars, codeVars
  <2>2. CASE OmpTask(t, u) \/ (OmpTaskWithDeps(t, u) /\ ~Refused(u))
    <3>1. Submitting(t, u) /\ Commit(t, u) /\ UNCHANGED <<attr, parent, clause>>
      BY <2>2 DEF OmpTask, OmpTaskWithDeps
    <3>2. /\ pc[t] = "submit" /\ await[t] = u /\ Executing(t) /\ status[u] = "allocated" /\ parent[u] = t
          /\ ~Committed(u) /\ u # t
      BY <1>0, <3>1 DEF Submitting, Current, CodeInv, Committed, Executing
    <3>3. /\ clause[u] \in Clauses
          /\ \A v \in Explicit : status[v] # "none" /\ parent[v] = t => v <= u
      BY <3>2 DEF SubmitInv, AllocatedInv
    <3>4. \A v \in Children(t) : v < u
      <4>1. \A v \in Children(t) : v \in Explicit /\ v # u /\ v <= u
        BY <3>2, <3>3 DEF Children, Committed
      <4> QED
        BY <4>1 DEF Explicit
    <3>5. /\ status' = [status EXCEPT ![u] = "committed"] /\ parent'[u] = t
          /\ \A v \in Task : v # t => pc'[v] = pc[v] /\ await'[v] = await[v]
          /\ pc'[t] = IF attr[u].undeferred THEN "waittask" ELSE "run"
          /\ attr[u].undeferred => await'[t] = u
      BY <1>0, <3>1, <3>2 DEF Commit, TypeOK
    <3>6. Executing(t)'
      BY <1>0, <3>2, <3>5 DEF Executing, TypeOK
    <3>7. CASE attr[u].undeferred
      <4>1. AwaitsOf(t)' = IF TRUE THEN {u} ELSE {}
        BY <3>5, <3>6, <3>7 DEF AwaitsOf
      <4>2. Tasking!Create(t, u, clause[u], TRUE)
        BY <1>0, <3>1, <3>2, <3>3, <3>4, <3>5, <4>1, CreateStep
      <4> QED
        BY <1>2, <3>3, <4>2
    <3>8. CASE ~attr[u].undeferred
      <4>1. AwaitsOf(t)' = IF FALSE THEN {u} ELSE {}
        BY <3>5, <3>6, <3>8 DEF AwaitsOf
      <4>2. Tasking!Create(t, u, clause[u], FALSE)
        BY <1>0, <3>1, <3>2, <3>3, <3>4, <3>5, <4>1, CreateStep
      <4> QED
        BY <1>2, <3>3, <4>2
    <3> QED
      BY <3>7, <3>8
  <2> QED
    BY <1>7, <2>1, <2>2
<1>8. ASSUME NEW t \in Task, NEW u \in Explicit, Schedule(t, u) \/ DeviceBegin(u)
      PROVE  Tasking!Next
  <2>1. mode = "running" /\ Ready(u) /\ Begin(u, runner'[u])
    BY <1>0, <1>1, <1>8 DEF Schedule, DeviceBegin, Begin, TypeOK
  <2>2. Tasking!Begin(u)
    BY <2>1, BeginStep
  <2> QED
    BY <2>2 DEF Tasking!Next
<1>9. ASSUME NEW u \in Explicit, Executing(u), pc[u] \notin {"taskwait", "waittask"},
             Complete(u), UNCHANGED <<parent, clause, codeVars>>
      PROVE  Tasking!Next
  BY <1>0, <1>9, FinishStep DEF Tasking!Next
<1>10. ASSUME NEW t \in Task, BodyReturn(t)
       PROVE  [Tasking!Next]_(Tasking!vars)
  <2>1. t \in Explicit /\ Executing(t) /\ pc[t] \in {"run", "unwind"}
    BY <1>10 DEF BodyReturn, Current
  <2>2. CASE part[t] = 1
    BY <1>9, <1>10, <2>1, <2>2 DEF BodyReturn
  <2>3. CASE part[t] # 1
    <3>1. UNCHANGED <<status, parent, clause, await>> /\ pc' = [pc EXCEPT ![t] = "unwind"]
      BY <1>10, <2>3 DEF BodyReturn
    <3>2. pc'[t] = "unwind" /\ \A v \in Task : v # t => pc'[v] = pc[v]
      BY <1>0, <3>1 DEF TypeOK
    <3> QED
      BY <1>3, <2>1, <3>1, <3>2
  <2> QED
    BY <2>2, <2>3
<1>11. ASSUME NEW u \in Explicit, DeviceComplete(u)
       PROVE  Tasking!Next
  <2>1. pc[u] = "run"
    BY <1>11 DEF DeviceComplete, SubmitInv, NoCodeInv
  <2> QED
    BY <1>9, <1>11, <2>1 DEF DeviceComplete
<1>12. ASSUME NEW t \in Task, TaskgroupBegin(t) \/ TaskgroupEnd(t) \/ RegionEnd(t) \/ OmpTaskReenter(t) \/ TaskgroupReturn(t)
       PROVE  UNCHANGED Tasking!vars
  <2>1. /\ UNCHANGED <<status, parent, clause>> /\ {pc[t], pc'[t]} \cap {"taskwait", "waittask"} = {}
        /\ \A v \in Task : v # t => pc'[v] = pc[v] /\ await'[v] = await[v]
    BY <1>0, <1>12 DEF TaskgroupBegin, TaskgroupEnd, RegionEnd, OmpTaskReenter, TaskgroupReturn, Encountering,
                       WaitsAs, Resumed, taskVars, codeVars, TypeOK
  <2> QED
    BY <1>3, <2>1
<1>13. ASSUME NEW t \in Task, Taskwait(t)
       PROVE  Tasking!Next
  <2>1. /\ UNCHANGED <<status, parent, clause, await>> /\ Executing(t) /\ pc[t] = "run" /\ pc'[t] = "taskwait"
        /\ \A v \in Task : v # t => pc'[v] = pc[v]
    BY <1>0, <1>13 DEF Taskwait, Encountering, Current, WaitsAs, taskVars, TypeOK
  <2>2. \A v \in Task : ~Committed(v) => ~Committed(v)'
    BY <2>1 DEF Committed
  <2>3. Tasking!Taskwait(t)
    BY <1>0, <2>1, <2>2, CodeSteps
  <2> QED
    BY <2>3 DEF Tasking!Next, Tasking!Task, Task
<1>14. ASSUME NEW t \in Task, TaskwaitReturn(t) \/ AwaitReturn(t)
       PROVE  Tasking!Next
  <2>1. /\ UNCHANGED <<status, parent, clause>> /\ Executing(t) /\ pc'[t] = "run"
        /\ \A v \in Task : v # t => pc'[v] = pc[v] /\ await'[v] = await[v]
    BY <1>0, <1>14 DEF TaskwaitReturn, AwaitReturn, Current, Resumed, taskVars, TypeOK
  <2>2. \A u \in AwaitsOf(t) : u \in Task /\ status[u] = "completed"
    BY <1>0, <1>1, <1>14 DEF TaskwaitReturn, AwaitReturn, AwaitsOf, Children, CodeInv
  <2>3. \A v \in Task : ~Committed(v) => ~Committed(v)'
    BY <2>1 DEF Committed
  <2>4. Tasking!Resume(t)
    BY <1>0, <2>1, <2>2, <2>3, CodeSteps
  <2> QED
    BY <2>4 DEF Tasking!Next, Tasking!Task, Task
<1>15. CASE TeamBarrier \/ Done \/ UNCHANGED vars
  <2>1. UNCHANGED <<status, parent, clause, pc, await>>
    BY <1>15 DEF TeamBarrier, Done, vars, taskVars, codeVars
  <2>2. ASSUME NEW t \in Task
        PROVE  UNCHANGED Tasking!vars
    BY <1>3, <2>1
  <2>3. CASE Task = {}
    BY <2>1, <2>3, MappedActions DEF phaseOf, parentOf, clauseOf, awaitsOf
  <2> QED
    BY <2>2, <2>3
<1>16. ASSUME NEW t \in Task, Steps(t)
       PROVE  [Tasking!Next]_(Tasking!vars)
  <2>1. CASE Constructs(t)
    BY <1>4, <1>5, <1>6, <2>1 DEF Constructs
  <2>2. CASE Submits(t)
    BY <1>0, <1>7, <2>2 DEF Submits, CodeInv
  <2> QED
    BY <1>8, <1>10, <1>12, <1>13, <1>14, <1>16, <2>1, <2>2 DEF Steps
<1>17. CASE DeviceStep
  <2>1. PICK u \in Explicit : DeviceBegin(u) \/ DeviceComplete(u)
    BY <1>17 DEF DeviceStep
  <2> QED
    BY <1>1, <1>8, <1>11, <2>1
<1> QED
  BY <1>15, <1>16, <1>17 DEF Next

\* The tasking entry points implement OpenMP's tasks: whatever the clauses and
\* in whichever slots their items lie, dependences order siblings and
\* mutexinoutset excludes them, and no code moves that is behind an undeferred
\* task, a taskwait or a taskwait with depend which has not completed.
THEOREM TaskingImplemented ==
  ASSUME OrderableClauses
  PROVE  Spec => ImplementsTasking
<1>1. IInv /\ SubmitInv /\ [Next]_vars => [Tasking!Next]_(Tasking!vars)
  BY RefineStep
<1> QED
  BY Invariance, SubmitInvariance, RefineInit, <1>1, PTL DEF Spec, ImplementsTasking, Tasking!Spec
===============================================================================
