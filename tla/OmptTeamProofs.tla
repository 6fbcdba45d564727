----------------------------- MODULE OmptTeamProofs -----------------------------
(***************************************************************************)
(* OmptTeam for any clauses, limits, sizes and nesting: what the tool has  *)
(* seen of a thread mirrors the regions the thread is in (Mirrors).  Hence *)
(* its events nest (EventsNest), its scopes carry the data of their own    *)
(* regions although the slots are used again (ToolSeesNesting), and nothing *)
(* is left open at the end (NothingOpenAtEnd).  Once the tool has finalised *)
(* itself nothing is mirrored any more: XKOMP's own events stop and XKRT's *)
(* go on, and a weaker invariant (Late) carries the nesting on the other   *)
(* threads.  The invariant of Team is used as proved in TeamProofs: each   *)
(* step of OmptTeam is one of Team, or leaves its variables alone.         *)
(***************************************************************************)
EXTENDS OmptTeam, TeamProofs

Kind  == {"thread", "initial", "parallel", "implicit", "sync", "wait", "unmatched"}
Scope == Kind \X Nat

\* Scopes come in pairs: a parallel region and its implicit task, or the
\* thread and its first task.
Bias(t) == IF t = InitialThread THEN 2 ELSE 0
Height(t, stack, b) ==
  IF t = InitialThread \/ stack # <<>> THEN Bias(t) + 2 * Len(stack) ELSE IF b THEN 1 ELSE 0

\* The tool's view of a thread t that has begun (b), is in the regions of a
\* stack of frames, and at a barrier or not (p, its pc).
Mirrors(t, view, stack, p, b) ==
  /\ view \in Seq(Scope)
  /\ Len(view) = Height(t, stack, b) + (IF p = "barrier" THEN 2 ELSE 0)
  /\ t = InitialThread => view[1] = <<"thread", 0>> /\ view[2] = <<"initial", 0>>
  /\ t # InitialThread /\ b => view[1] = <<"thread", 0>>
  /\ t # InitialThread /\ stack # <<>> => b
  /\ \A n \in 1..Len(stack) :
       /\ view[Bias(t) + 2 * n] = <<"implicit", stack[n].region>>
       /\ t = InitialThread \/ n > 1 => view[Bias(t) + 2 * n - 1] = <<"parallel", stack[n].region>>
  /\ p = "barrier" =>
       /\ stack # <<>>
       /\ view[Len(view) - 1] = <<"sync", stack[Len(stack)].region>>
       /\ view[Len(view)] = <<"wait", stack[Len(stack)].region>>
  /\ \A i \in 1..Len(view) :
       /\ view[i][1] # "unmatched"
       /\ view[i][1] = "implicit" => \E n \in 1..Len(stack) : i = Bias(t) + 2 * n

\* The flags, while a tool that has accepted has not finalised itself.
FlagInv ==
  /\ registered \in BOOLEAN /\ begun \in [Thread -> BOOLEAN]
  /\ registered /\ finalizer = {}
  /\ OMPT_ENABLED = (registered /\ mode # "exited")

\* The slots of the teams and tasks in use hold the data of their regions.
SlotInv ==
  /\ teamData = args /\ taskData \in [Thread -> [Keys -> Nat]]
  /\ Inside(InitialThread) => args[regions[Bottom(InitialThread)].team] = Bottom(InitialThread)
  /\ \A t \in Thread : Inside(t) => taskData[t][regions[Bottom(t)].team] = Bottom(t)

NestedInv ==
  /\ nested \in [Thread -> Seq([team : Nat, task : Nat])]
  /\ \A t \in Thread :
       /\ Len(nested[t]) = IF Inside(t) THEN Len(frames[t]) - 1 ELSE 0
       /\ \A i \in 1..Len(nested[t]) :
            nested[t][i].team = frames[t][i + 1].region /\ nested[t][i].task = frames[t][i + 1].region

ViewInv ==
  /\ seen \in [Thread -> Seq(Scope)]
  /\ ~registered => \A t \in Thread : seen[t] = <<>>
  /\ registered /\ mode # "exited" =>
       \A t \in Thread : Mirrors(t, seen[t], frames[t], pc[t], begun[t])

Followed == IInv /\ FlagInv /\ SlotInv /\ NestedInv /\ ViewInv /\ NothingOpenAtEnd

\* What is left of it on a thread that did not finalise the tool: the scopes of
\* the barrier it is at, with whatever datum its team has.
LateView(t) ==
  /\ \E S : seen[t] \in Seq(S)
  /\ \A i \in 1..Len(seen[t]) : seen[t][i][1] # "unmatched"
  /\ t # InitialThread /\ Inside(t) => begun[t]
  /\ pc[t] = "barrier" =>
       /\ Len(seen[t]) >= 2
       /\ seen[t][Len(seen[t]) - 1] = <<"sync", TeamDatum(t)>>
       /\ seen[t][Len(seen[t])] = <<"wait", TeamDatum(t)>>

Late ==
  /\ IInv /\ registered /\ ~OMPT_ENABLED /\ finalizer # {}
  /\ seen = [t \in Thread |-> seen[t]] /\ teamData \in [Keys -> Nat]
  /\ DOMAIN nested = Thread /\ DOMAIN begun = Thread
  /\ \A t \in Thread \ finalizer : LateView(t)

\* Without a tool nothing is told.
Quiet == IInv /\ ~registered /\ ~OMPT_ENABLED /\ finalizer = {} /\ seen = [t \in Thread |-> <<>>]

OInv == Followed \/ Late \/ Quiet

-------------------------------------------------------------------------------
(* Views.                                                                  *)

LEMMA ViewShape ==
  ASSUME NEW v \in Seq(Scope)
  PROVE  /\ Len(v) \in Nat /\ DOMAIN v = 1..Len(v) /\ (v = <<>> <=> Len(v) = 0)
         /\ \A i \in 1..Len(v) : v[i] \in Scope
  BY LenProperties, ElementOfSeq, EmptySeq

LEMMA BeginScope ==
  ASSUME NEW v \in Seq(Scope), NEW kind \in Kind, NEW d \in Nat
  PROVE  /\ Begin(v, kind, d) \in Seq(Scope) /\ Len(Begin(v, kind, d)) = Len(v) + 1
         /\ \A i \in 1..Len(v) : Begin(v, kind, d)[i] = v[i]
         /\ Begin(v, kind, d)[Len(v) + 1] = <<kind, d>>
<1> DEFINE e == <<kind, d>>
<1>1. e \in Scope
  BY DEF Scope
<1>2. Begin(v, kind, d) = Append(v, e)
  BY DEF Begin
<1> HIDE DEF e
<1>3. /\ Append(v, e) \in Seq(Scope) /\ Len(Append(v, e)) = Len(v) + 1
      /\ \A i \in 1..Len(v) : Append(v, e)[i] = v[i]
      /\ Append(v, e)[Len(v) + 1] = e
  BY <1>1, AppendProperties
<1> QED
  BY <1>2, <1>3 DEF e

\* The end of the innermost scope.
LEMMA EndScope ==
  ASSUME NEW v \in Seq(Scope), NEW kind \in Kind, NEW d \in Nat,
         Len(v) # 0, v[Len(v)] = <<kind, d>>
  PROVE  /\ End(v, kind, d) \in Seq(Scope) /\ Len(End(v, kind, d)) = Len(v) - 1
         /\ \A i \in 1..(Len(v) - 1) : End(v, kind, d)[i] = v[i]
<1>1. v # <<>> /\ Len(v) \in Nat \ {0} /\ \A i \in 1..(Len(v) - 1) : v[i] \in Scope
  BY ViewShape
<1>2. End(v, kind, d) = SubSeq(v, 1, Len(v) - 1)
  BY <1>1 DEF End
<1> DEFINE m == 1
           n == Len(v) - 1
<1>3. m \in Int /\ n \in Nat /\ m = 1 /\ \A i \in m..n : v[i] \in Scope
  <2>1. n \in Nat
    BY <1>1
  <2> QED
    BY <1>1, <2>1
<1> HIDE DEF m, n
<1>4. /\ SubSeq(v, m, n) \in Seq(Scope)
      /\ Len(SubSeq(v, m, n)) = IF m <= n THEN n - m + 1 ELSE 0
      /\ \A i \in 1..(n - m + 1) : SubSeq(v, m, n)[i] = v[m + i - 1]
  BY <1>3, SubSeqProperties
<1>5. n - m + 1 = n /\ (~(m <= n) => n = 0) /\ \A i \in 1..n : m + i - 1 = i
  BY <1>3
<1>6. Len(SubSeq(v, m, n)) = n /\ \A i \in 1..n : SubSeq(v, m, n)[i] = v[i]
  BY <1>4, <1>5
<1> QED
  BY <1>2, <1>4, <1>6 DEF m, n

\* A stack of frames for what follows: the numbers of its regions.
LEMMA StackNumbers ==
  ASSUME NEW s \in Seq(Frame)
  PROVE  /\ Len(s) \in Nat /\ (s = <<>> <=> Len(s) = 0)
         /\ \A n \in 1..Len(s) : s[n].region \in Nat
  BY StackShape DEF Frame

-------------------------------------------------------------------------------
(* A thread's view mirrors its stack.                                      *)

\* A thread that forks a region is told of the region and of its task in it.
LEMMA MirrorEnter ==
  ASSUME NEW t, NEW v, NEW s \in Seq(Frame), NEW q \in Seq(Frame), NEW p, NEW b \in BOOLEAN,
         NEW r \in Nat,
         Mirrors(t, v, s, p, b), t = InitialThread \/ s # <<>>, p # "barrier",
         Len(q) = Len(s) + 1, \A n \in 1..Len(s) : q[n] = s[n], q[Len(s) + 1].region = r
  PROVE  Mirrors(t, Begin(Begin(v, "parallel", r), "implicit", r), q, "body", b)
<1> DEFINE u == Begin(v, "parallel", r)
           w == Begin(u, "implicit", r)
           l == Len(s)
           h == Bias(t) + 2 * l
<1>1. l \in Nat /\ h \in Nat /\ Bias(t) \in Nat /\ Len(q) = l + 1 /\ q # <<>>
  BY StackNumbers DEF Bias
<1>2. v \in Seq(Scope) /\ Len(v) = h
  <2>1. Len(v) = Height(t, s, b) + 0
    BY DEF Mirrors
  <2>2. Height(t, s, b) = h
    BY DEF Height
  <2> QED
    BY <1>1, <2>1, <2>2 DEF Mirrors
<1>3. /\ u \in Seq(Scope) /\ Len(u) = h + 1
      /\ \A i \in 1..h : u[i] = v[i]
      /\ u[h + 1] = <<"parallel", r>>
  <2>1. "parallel" \in Kind
    BY DEF Kind
  <2> QED
    <3>1. /\ u \in Seq(Scope) /\ Len(u) = Len(v) + 1
          /\ \A i \in 1..Len(v) : u[i] = v[i]
          /\ u[Len(v) + 1] = <<"parallel", r>>
      BY <1>2, <2>1, BeginScope
    <3> QED
      BY <1>2, <3>1
<1> HIDE DEF u
<1>4. /\ w \in Seq(Scope) /\ Len(w) = (h + 1) + 1
      /\ \A i \in 1..(h + 1) : w[i] = u[i]
      /\ w[(h + 1) + 1] = <<"implicit", r>>
  <2>1. "implicit" \in Kind
    BY DEF Kind
  <2> QED
    <3>1. /\ w \in Seq(Scope) /\ Len(w) = Len(u) + 1
          /\ \A i \in 1..Len(u) : w[i] = u[i]
          /\ w[Len(u) + 1] = <<"implicit", r>>
      BY <1>3, <2>1, BeginScope
    <3> QED
      BY <1>3, <3>1
<1> HIDE DEF w
<1>5. /\ Len(w) = h + 2 /\ \A i \in 1..h : w[i] = v[i]
      /\ w[h + 1] = <<"parallel", r>> /\ w[h + 2] = <<"implicit", r>>
  <2>1. (h + 1) + 1 = h + 2 /\ h + 1 \in 1..(h + 1) /\ \A i \in 1..h : i \in 1..(h + 1)
    BY <1>1
  <2> QED
    BY <1>3, <1>4, <2>1
<1>6. Height(t, q, b) = h + 2 /\ Bias(t) + 2 * (l + 1) = h + 2
  <2>1. Bias(t) + 2 * (l + 1) = h + 2
    BY <1>1
  <2> QED
    BY <1>1, <2>1 DEF Height
<1>7. /\ t = InitialThread => h >= 2
      /\ t # InitialThread => l >= 1 /\ h >= 2
  BY <1>1, StackNumbers DEF Bias
<1>8. /\ t = InitialThread => w[1] = <<"thread", 0>> /\ w[2] = <<"initial", 0>>
      /\ t # InitialThread /\ b => w[1] = <<"thread", 0>>
  <2>1. 1 \in 1..h /\ 2 \in 1..h
    BY <1>1, <1>7
  <2> QED
    BY <1>5, <2>1 DEF Mirrors
<1>9. t # InitialThread => b
  BY DEF Mirrors
<1>10. ASSUME NEW n \in 1..Len(q)
       PROVE  /\ w[Bias(t) + 2 * n] = <<"implicit", q[n].region>>
              /\ t = InitialThread \/ n > 1 => w[Bias(t) + 2 * n - 1] = <<"parallel", q[n].region>>
  <2>1. CASE n = l + 1
    <3>1. Bias(t) + 2 * n = h + 2 /\ Bias(t) + 2 * n - 1 = h + 1
      BY <1>1, <1>6, <2>1
    <3> QED
      BY <1>5, <2>1, <3>1
  <2>2. CASE n # l + 1
    <3>1. n \in 1..l /\ Bias(t) + 2 * n \in 1..h /\ Bias(t) + 2 * n - 1 \in 1..h
      BY <1>1, <2>2
    <3>2. q[n] = s[n] /\ w[Bias(t) + 2 * n] = v[Bias(t) + 2 * n] /\ w[Bias(t) + 2 * n - 1] = v[Bias(t) + 2 * n - 1]
      BY <1>5, <3>1
    <3> QED
      BY <3>1, <3>2 DEF Mirrors
  <2> QED
    BY <2>1, <2>2
<1>11. ASSUME NEW i \in 1..Len(w)
       PROVE  /\ w[i][1] # "unmatched"
              /\ w[i][1] = "implicit" => \E n \in 1..Len(q) : i = Bias(t) + 2 * n
  <2>1. CASE i \in 1..h
    <3>1. /\ v[i][1] # "unmatched"
          /\ v[i][1] = "implicit" => \E n \in 1..l : i = Bias(t) + 2 * n
      BY <1>2, <2>1 DEF Mirrors
    <3>2. \A n \in 1..l : n \in 1..Len(q)
      BY <1>1
    <3> QED
      BY <1>5, <2>1, <3>1, <3>2
  <2>2. CASE i = h + 1
    BY <1>5, <2>2
  <2>3. CASE i = h + 2
    <3>1. l + 1 \in 1..Len(q) /\ i = Bias(t) + 2 * (l + 1)
      BY <1>1, <1>6, <2>3
    <3> QED
      BY <1>5, <2>3, <3>1
  <2> QED
    BY <1>1, <1>5, <2>1, <2>2, <2>3
<1>12. Mirrors(t, w, q, "body", b)
  BY <1>4, <1>5, <1>6, <1>8, <1>9, <1>10, <1>11 DEF Mirrors
<1> QED
  BY <1>12 DEF w, u

\* A worker starts.
LEMMA MirrorStart ==
  ASSUME NEW t, NEW v, NEW s \in Seq(Frame), Len(s) = 0, NEW p, NEW b \in BOOLEAN, NEW c \in BOOLEAN,
         ~b, c, t # InitialThread, p # "barrier", Mirrors(t, v, s, p, b)
  PROVE  Mirrors(t, Begin(v, "thread", 0), s, p, c)
<1> DEFINE u == Begin(v, "thread", 0)
<1>0. s = <<>> /\ Len(s) = 0
  BY StackNumbers
<1>1. v \in Seq(Scope) /\ Len(v) = 0
  <2>1. v \in Seq(Scope) /\ Len(v) = Height(t, s, b) + 0
    BY DEF Mirrors
  <2>2. Height(t, s, b) = 0
    BY <1>0 DEF Height
  <2> QED
    BY <2>1, <2>2
<1>2. u \in Seq(Scope) /\ Len(u) = 1 /\ u[1] = <<"thread", 0>>
  <2>1. "thread" \in Kind /\ 0 \in Nat
    BY DEF Kind
  <2>2. u \in Seq(Scope) /\ Len(u) = Len(v) + 1 /\ u[Len(v) + 1] = <<"thread", 0>>
    BY <1>1, <2>1, BeginScope
  <2> QED
    BY <1>1, <2>2
<1> HIDE DEF u
<1>3. Height(t, s, c) = 1 /\ Height(t, s, c) + 0 = 1
  BY <1>0 DEF Height
<1>4. \A i \in 1..Len(u) : u[i][1] # "unmatched" /\ u[i][1] # "implicit"
  BY <1>2
<1>5. \A n \in 1..Len(s) : FALSE
  BY <1>0
<1>6. Mirrors(t, u, s, p, c)
  BY <1>0, <1>2, <1>3, <1>4, <1>5 DEF Mirrors
<1> QED
  BY <1>6 DEF u

\* A worker takes a region up: it is told of its task only.
LEMMA MirrorTakeUp ==
  ASSUME NEW t, NEW v, NEW s \in Seq(Frame), Len(s) = 0, NEW q \in Seq(Frame), NEW p, NEW b \in BOOLEAN, NEW r \in Nat,
         b, t # InitialThread, p # "barrier", Mirrors(t, v, s, p, b),
         Len(q) = 1, q[1].region = r
  PROVE  Mirrors(t, Begin(v, "implicit", r), q, "body", b)
<1> DEFINE u == Begin(v, "implicit", r)
<1>0. s = <<>> /\ Len(s) = 0
  BY StackNumbers
<1>1. v \in Seq(Scope) /\ Len(v) = 1 /\ v[1] = <<"thread", 0>>
  <2>1. v \in Seq(Scope) /\ Len(v) = Height(t, s, b) + 0 /\ v[1] = <<"thread", 0>>
    BY DEF Mirrors
  <2>2. Height(t, s, b) = 1 /\ Height(t, s, b) + 0 = 1
    BY <1>0 DEF Height
  <2> QED
    BY <2>1, <2>2
<1>2. u \in Seq(Scope) /\ Len(u) = 2 /\ u[1] = <<"thread", 0>> /\ u[2] = <<"implicit", r>>
  <2>1. "implicit" \in Kind
    BY DEF Kind
  <2>2. /\ u \in Seq(Scope) /\ Len(u) = Len(v) + 1
        /\ \A i \in 1..Len(v) : u[i] = v[i]
        /\ u[Len(v) + 1] = <<"implicit", r>>
    BY <1>1, <2>1, BeginScope
  <2> QED
    BY <1>1, <2>2
<1> HIDE DEF u
<1>3. q # <<>> /\ Bias(t) = 0
  <2>1. Len(q) # 0
    OBVIOUS
  <2> QED
    BY <2>1, StackNumbers DEF Bias
<1>4. Height(t, q, b) = 2 /\ Height(t, q, b) + 0 = 2
  BY <1>3 DEF Height
<1>5. ASSUME NEW n \in 1..Len(q)
      PROVE  n = 1 /\ u[Bias(t) + 2 * n] = <<"implicit", q[n].region>>
  <2>1. n = 1 /\ Bias(t) + 2 * n = 2
    BY <1>3
  <2> QED
    BY <1>2, <2>1
<1>6. ASSUME NEW i \in 1..Len(u)
      PROVE  /\ u[i][1] # "unmatched"
             /\ u[i][1] = "implicit" => \E n \in 1..Len(q) : i = Bias(t) + 2 * n
  <2>1. CASE i = 1
    BY <1>2, <2>1
  <2>2. CASE i = 2
    <3>1. 1 \in 1..Len(q) /\ i = Bias(t) + 2 * 1
      BY <1>3, <2>2
    <3> QED
      BY <1>2, <2>2, <3>1
  <2> QED
    BY <1>2, <2>1, <2>2
<1>7. Len(u) = Height(t, q, b) + (IF "body" = "barrier" THEN 2 ELSE 0)
  BY <1>2, <1>4
<1>8. \A n \in 1..Len(q) :
        /\ u[Bias(t) + 2 * n] = <<"implicit", q[n].region>>
        /\ t = InitialThread \/ n > 1 => u[Bias(t) + 2 * n - 1] = <<"parallel", q[n].region>>
  BY <1>5
<1>9. Mirrors(t, u, q, "body", b)
  BY <1>2, <1>6, <1>7, <1>8 DEF Mirrors
<1> QED
  BY <1>9 DEF u

\* A thread in a region reaches a barrier.
LEMMA MirrorArrive ==
  ASSUME NEW t, NEW v, NEW s \in Seq(Frame), NEW p, NEW b \in BOOLEAN,
         Mirrors(t, v, s, p, b), s # <<>>, p # "barrier"
  PROVE  LET r == s[Len(s)].region
         IN  Mirrors(t, Begin(Begin(v, "sync", r), "wait", r), s, "barrier", b)
<1> DEFINE r == s[Len(s)].region
           u == Begin(v, "sync", r)
           w == Begin(u, "wait", r)
           h == Height(t, s, b)
<1>1. Len(s) \in Nat \ {0} /\ r \in Nat
  <2>1. Len(s) \in Nat \ {0}
    BY StackNumbers
  <2> QED
    BY <2>1, StackNumbers
<1>2. h \in Nat /\ h >= 2 /\ h = Bias(t) + 2 * Len(s) /\ Bias(t) \in Nat
  BY <1>1 DEF Height, Bias
<1>3. v \in Seq(Scope) /\ Len(v) = h
  BY <1>2 DEF Mirrors
<1> HIDE DEF r, h
<1>4. /\ u \in Seq(Scope) /\ Len(u) = h + 1
      /\ \A i \in 1..h : u[i] = v[i]
      /\ u[h + 1] = <<"sync", r>>
  <2>1. "sync" \in Kind
    BY DEF Kind
  <2>2. /\ u \in Seq(Scope) /\ Len(u) = Len(v) + 1
        /\ \A i \in 1..Len(v) : u[i] = v[i]
        /\ u[Len(v) + 1] = <<"sync", r>>
    BY <1>1, <1>3, <2>1, BeginScope
  <2> QED
    BY <1>3, <2>2
<1> HIDE DEF u
<1>5. /\ w \in Seq(Scope) /\ Len(w) = (h + 1) + 1
      /\ \A i \in 1..(h + 1) : w[i] = u[i]
      /\ w[(h + 1) + 1] = <<"wait", r>>
  <2>1. "wait" \in Kind
    BY DEF Kind
  <2>2. /\ w \in Seq(Scope) /\ Len(w) = Len(u) + 1
        /\ \A i \in 1..Len(u) : w[i] = u[i]
        /\ w[Len(u) + 1] = <<"wait", r>>
    BY <1>1, <1>4, <2>1, BeginScope
  <2> QED
    BY <1>4, <2>2
<1> HIDE DEF w
<1>6. /\ Len(w) = h + 2 /\ \A i \in 1..h : w[i] = v[i]
      /\ w[h + 1] = <<"sync", r>> /\ w[h + 2] = <<"wait", r>>
      /\ Len(w) - 1 = h + 1
  <2>1. (h + 1) + 1 = h + 2 /\ (h + 2) - 1 = h + 1 /\ h + 1 \in 1..(h + 1) /\ \A i \in 1..h : i \in 1..(h + 1)
    BY <1>2
  <2> QED
    BY <1>4, <1>5, <2>1
<1>7. /\ t = InitialThread => w[1] = <<"thread", 0>> /\ w[2] = <<"initial", 0>>
      /\ t # InitialThread /\ b => w[1] = <<"thread", 0>>
  <2>1. 1 \in 1..h /\ 2 \in 1..h
    BY <1>2
  <2> QED
    BY <1>6, <2>1 DEF Mirrors
<1>8. ASSUME NEW n \in 1..Len(s)
      PROVE  /\ w[Bias(t) + 2 * n] = <<"implicit", s[n].region>>
             /\ t = InitialThread \/ n > 1 => w[Bias(t) + 2 * n - 1] = <<"parallel", s[n].region>>
  <2>1. Bias(t) + 2 * n \in 1..h /\ Bias(t) + 2 * n - 1 \in 1..h
    BY <1>1, <1>2
  <2> QED
    BY <1>6, <2>1 DEF Mirrors
<1>9. ASSUME NEW i \in 1..Len(w)
      PROVE  /\ w[i][1] # "unmatched"
             /\ w[i][1] = "implicit" => \E n \in 1..Len(s) : i = Bias(t) + 2 * n
  <2>1. CASE i \in 1..h
    BY <1>3, <1>6, <2>1 DEF Mirrors
  <2>2. CASE i \in {h + 1, h + 2}
    BY <1>6, <2>2
  <2> QED
    BY <1>2, <1>6, <2>1, <2>2
<1>10. t # InitialThread /\ s # <<>> => b
  BY DEF Mirrors
<1>11. Mirrors(t, w, s, "barrier", b)
  BY <1>5, <1>6, <1>7, <1>8, <1>9, <1>10 DEF Mirrors, r, h
<1> QED
  BY <1>11 DEF w, u, r

\* Whatever ends the innermost scopes, what is left of the view mirrors what
\* is left of the stack.
LEMMA MirrorCut ==
  ASSUME NEW t, NEW v, NEW s \in Seq(Frame), NEW p, NEW b \in BOOLEAN,
         NEW w \in Seq(Scope), NEW q \in Seq(Frame), NEW p2,
         Mirrors(t, v, s, p, b), p2 # "barrier",
         Len(q) <= Len(s), \A n \in 1..Len(q) : q[n].region = s[n].region,
         Len(w) = Height(t, q, b), Len(w) <= Len(v), \A i \in 1..Len(w) : w[i] = v[i]
  PROVE  Mirrors(t, w, q, p2, b)
<1>1. Len(q) \in Nat /\ Len(s) \in Nat /\ Len(w) \in Nat /\ Len(v) \in Nat /\ Bias(t) \in Nat
  BY StackNumbers, ViewShape DEF Mirrors, Bias
<1>2. /\ Len(q) # 0 \/ t = InitialThread => Len(w) = Bias(t) + 2 * Len(q)
      /\ t = InitialThread => Bias(t) = 2
      /\ t # InitialThread => Bias(t) = 0
      /\ Len(q) = 0 /\ t # InitialThread => Len(w) \in {0, 1}
  BY StackNumbers DEF Height, Bias
<1>3. Len(w) = Height(t, q, b) + (IF p2 = "barrier" THEN 2 ELSE 0)
  <2>1. Len(w) + 0 = Len(w)
    BY <1>1
  <2> QED
    BY <2>1
<1>4. t # InitialThread /\ q # <<>> => b
  <2>1. q # <<>> => s # <<>>
    BY <1>1, StackNumbers
  <2> QED
    BY <2>1 DEF Mirrors
<1>5. t = InitialThread => w[1] = <<"thread", 0>> /\ w[2] = <<"initial", 0>>
  <2>1. t = InitialThread => 1 \in 1..Len(w) /\ 2 \in 1..Len(w)
    BY <1>1, <1>2
  <2> QED
    BY <2>1 DEF Mirrors
<1>6. t # InitialThread /\ b => w[1] = <<"thread", 0>>
  <2>1. ASSUME t # InitialThread, b
        PROVE  1 \in 1..Len(w)
    <3>1. CASE Len(q) = 0
      <4>1. q = <<>>
        BY <3>1, StackNumbers
      <4>2. Len(w) = 1
        BY <2>1, <4>1 DEF Height
      <4> QED
        BY <4>2
    <3>2. CASE Len(q) # 0
      <4>1. t # InitialThread
        BY <2>1
      <4>2. Len(w) = Bias(t) + 2 * Len(q)
        BY <1>2, <3>2
      <4> QED
        BY <1>1, <3>2, <4>2
    <3> QED
      BY <3>1, <3>2
  <2> QED
    BY <2>1 DEF Mirrors
<1>7. ASSUME NEW n \in 1..Len(q)
      PROVE  /\ w[Bias(t) + 2 * n] = <<"implicit", q[n].region>>
             /\ t = InitialThread \/ n > 1 => w[Bias(t) + 2 * n - 1] = <<"parallel", q[n].region>>
  <2>1. n \in 1..Len(s) /\ Bias(t) + 2 * n \in 1..Len(w) /\ Bias(t) + 2 * n - 1 \in 1..Len(w)
    <3>1. n \in 1..Len(s) /\ n <= Len(q) /\ n \in Nat \ {0} /\ Len(q) # 0
      BY <1>1
    <3>2. Len(w) = Bias(t) + 2 * Len(q)
      BY <1>2, <3>1
    <3> QED
      BY <1>1, <3>1, <3>2
  <2> QED
    BY <2>1 DEF Mirrors
<1>8. ASSUME NEW i \in 1..Len(w)
      PROVE  /\ w[i][1] # "unmatched"
             /\ w[i][1] = "implicit" => \E n \in 1..Len(q) : i = Bias(t) + 2 * n
  <2>1. i \in 1..Len(v) /\ w[i] = v[i]
    BY <1>1
  <2>2. v[i][1] # "unmatched" /\ (v[i][1] = "implicit" => \E n \in 1..Len(s) : i = Bias(t) + 2 * n)
    BY <2>1 DEF Mirrors
  <2>3. ASSUME NEW n \in 1..Len(s), i = Bias(t) + 2 * n
        PROVE  n \in 1..Len(q)
    <3>1. CASE Len(q) # 0 \/ t = InitialThread
      BY <1>1, <1>2, <2>3, <3>1
    <3>2. CASE Len(q) = 0 /\ t # InitialThread
      BY <1>1, <1>2, <2>3, <3>2
    <3> QED
      BY <3>1, <3>2
  <2> QED
    BY <2>1, <2>2, <2>3
<1> QED
  BY <1>3, <1>4, <1>5, <1>6, <1>7, <1>8 DEF Mirrors

\* The barrier opens.
LEMMA MirrorRelease ==
  ASSUME NEW t, NEW v, NEW s \in Seq(Frame), NEW p, NEW b \in BOOLEAN,
         NEW q \in Seq(Frame), NEW p2, NEW r,
         Mirrors(t, v, s, p, b), p = "barrier", p2 # "barrier", r = s[Len(s)].region,
         Len(q) = Len(s), \A n \in 1..Len(s) : q[n].region = s[n].region
  PROVE  Mirrors(t, End(End(v, "wait", r), "sync", r), q, p2, b)
<1> DEFINE u == End(v, "wait", r)
           w == End(u, "sync", r)
           h == Height(t, s, b)
<1>1. /\ v \in Seq(Scope) /\ Len(v) = h + 2 /\ s # <<>>
      /\ v[Len(v) - 1] = <<"sync", r>> /\ v[Len(v)] = <<"wait", r>>
  BY DEF Mirrors
<1>2. Len(s) \in Nat \ {0} /\ r \in Nat
  <2>1. Len(s) \in Nat \ {0}
    BY <1>1, StackNumbers
  <2> QED
    BY <2>1, StackNumbers
<1>3. h \in Nat /\ h = Height(t, q, b)
  <2>1. q # <<>> /\ s # <<>>
    BY <1>2, StackNumbers
  <2> QED
    BY <1>2, <2>1 DEF Height, Bias
<1> HIDE DEF h
<1>4. /\ u \in Seq(Scope) /\ Len(u) = Len(v) - 1 /\ \A i \in 1..(Len(v) - 1) : u[i] = v[i]
  <2>1. "wait" \in Kind /\ Len(v) # 0
    BY <1>1, <1>3 DEF Kind
  <2> QED
    BY <1>1, <1>2, <2>1, EndScope
<1> HIDE DEF u
<1>5. Len(v) - 1 = h + 1 /\ Len(v) - 1 \in 1..(Len(v) - 1)
  BY <1>1, <1>3
<1>6. Len(u) = h + 1 /\ u[Len(u)] = <<"sync", r>>
  BY <1>1, <1>4, <1>5
<1>7. w \in Seq(Scope) /\ Len(w) = Len(u) - 1 /\ \A i \in 1..(Len(u) - 1) : w[i] = u[i]
  <2>1. "sync" \in Kind /\ Len(u) # 0
    BY <1>3, <1>6 DEF Kind
  <2> QED
    BY <1>2, <1>4, <1>6, <2>1, EndScope
<1> HIDE DEF w
<1>8. Len(w) = h /\ \A i \in 1..h : w[i] = v[i]
  <2>1. Len(u) - 1 = h /\ \A i \in 1..h : i \in 1..(Len(v) - 1)
    BY <1>3, <1>5, <1>6
  <2> QED
    BY <1>4, <1>7, <2>1
<1>9. Len(w) <= Len(v) /\ Len(q) <= Len(s)
  BY <1>1, <1>2, <1>3, <1>8
<1>10. Mirrors(t, w, q, p2, b)
  BY <1>3, <1>7, <1>8, <1>9, MirrorCut
<1> QED
  BY <1>10 DEF w, u

\* The end of a region on the thread that forked it.
LEMMA MirrorLeave ==
  ASSUME NEW t, NEW v, NEW s \in Seq(Frame), NEW p, NEW b \in BOOLEAN,
         NEW q \in Seq(Frame), NEW p2, NEW r,
         Mirrors(t, v, s, p, b), p # "barrier", p2 # "barrier", r = s[Len(s)].region,
         Len(s) # 0, t = InitialThread \/ Len(s) > 1,
         Len(q) = Len(s) - 1, \A n \in 1..Len(q) : q[n].region = s[n].region
  PROVE  Mirrors(t, End(End(v, "implicit", r), "parallel", r), q, p2, b)
<1> DEFINE u == End(v, "implicit", r)
           w == End(u, "parallel", r)
           l == Len(s)
           h == Height(t, q, b)
<1>1. l \in Nat \ {0} /\ r \in Nat /\ Len(q) \in Nat /\ s # <<>> /\ Bias(t) \in Nat
  <2>1. l \in Nat \ {0}
    BY StackNumbers
  <2> QED
    BY <2>1, StackNumbers DEF Bias
<1>2. h = Bias(t) + 2 * (l - 1) /\ h \in Nat
  <2>1. t = InitialThread \/ q # <<>>
    BY <1>1, StackNumbers
  <2>2. h = Bias(t) + 2 * Len(q)
    BY <2>1 DEF Height
  <2> QED
    BY <1>1, <2>2
<1>3. Height(t, s, b) = h + 2 /\ Height(t, s, b) + 0 = h + 2
  <2>1. Height(t, s, b) = Bias(t) + 2 * l
    BY <1>1 DEF Height
  <2> QED
    BY <1>1, <1>2, <2>1
<1>4. v \in Seq(Scope) /\ Len(v) = h + 2
  BY <1>3 DEF Mirrors
<1>5. v[h + 2] = <<"implicit", r>> /\ v[h + 1] = <<"parallel", r>>
  <2>1. Bias(t) + 2 * l = h + 2 /\ Bias(t) + 2 * l - 1 = h + 1 /\ l \in 1..Len(s)
    BY <1>1, <1>2
  <2>2. v[Bias(t) + 2 * l] = <<"implicit", r>> /\ v[Bias(t) + 2 * l - 1] = <<"parallel", r>>
    BY <2>1 DEF Mirrors
  <2> QED
    BY <2>1, <2>2
<1> HIDE DEF h
<1>6. /\ u \in Seq(Scope) /\ Len(u) = Len(v) - 1 /\ \A i \in 1..(Len(v) - 1) : u[i] = v[i]
  <2>1. "implicit" \in Kind /\ Len(v) # 0 /\ v[Len(v)] = <<"implicit", r>>
    BY <1>2, <1>4, <1>5 DEF Kind
  <2> QED
    BY <1>1, <1>4, <2>1, EndScope
<1> HIDE DEF u
<1>7. Len(v) - 1 = h + 1 /\ h + 1 \in 1..(Len(v) - 1)
  BY <1>2, <1>4
<1>8. Len(u) = h + 1 /\ u[Len(u)] = <<"parallel", r>>
  BY <1>5, <1>6, <1>7
<1>9. w \in Seq(Scope) /\ Len(w) = Len(u) - 1 /\ \A i \in 1..(Len(u) - 1) : w[i] = u[i]
  <2>1. "parallel" \in Kind /\ Len(u) # 0
    BY <1>2, <1>8 DEF Kind
  <2> QED
    BY <1>1, <1>6, <1>8, <2>1, EndScope
<1> HIDE DEF w
<1>10. Len(w) = h /\ \A i \in 1..h : w[i] = v[i]
  <2>1. Len(u) - 1 = h /\ \A i \in 1..h : i \in 1..(Len(v) - 1)
    BY <1>2, <1>7, <1>8
  <2> QED
    BY <1>6, <1>9, <2>1
<1>11. Len(w) <= Len(v) /\ Len(q) <= Len(s)
  BY <1>1, <1>2, <1>4, <1>10
<1>12. Mirrors(t, w, q, p2, b)
  BY <1>9, <1>10, <1>11, MirrorCut DEF h
<1> QED
  BY <1>12 DEF w, u

\* A worker parks.
LEMMA MirrorPark ==
  ASSUME NEW t, NEW v, NEW s \in Seq(Frame), NEW p, NEW b \in BOOLEAN,
         NEW q \in Seq(Frame), NEW p2, NEW r,
         Mirrors(t, v, s, p, b), p # "barrier", p2 # "barrier", r = s[1].region,
         t # InitialThread, Len(s) = 1, Len(q) = 0
  PROVE  Mirrors(t, End(v, "implicit", r), q, p2, b)
<1> DEFINE w == End(v, "implicit", r)
<1>1. s # <<>> /\ q = <<>> /\ r \in Nat /\ b /\ Bias(t) = 0 /\ 1 \in 1..Len(s)
  <2>1. s # <<>> /\ q = <<>> /\ 1 \in 1..Len(s)
    BY StackNumbers
  <2> QED
    BY <2>1, StackNumbers DEF Mirrors, Bias
<1>2. Height(t, s, b) = 2 /\ Height(t, s, b) + 0 = 2 /\ Height(t, q, b) = 1
  BY <1>1 DEF Height
<1>3. v \in Seq(Scope) /\ Len(v) = 2
  BY <1>2 DEF Mirrors
<1>4. v[2] = <<"implicit", r>>
  <2>1. Bias(t) + 2 * 1 = 2
    BY <1>1
  <2>2. v[Bias(t) + 2 * 1] = <<"implicit", r>>
    BY <1>1 DEF Mirrors
  <2> QED
    BY <2>1, <2>2
<1>5. w \in Seq(Scope) /\ Len(w) = Len(v) - 1 /\ \A i \in 1..(Len(v) - 1) : w[i] = v[i]
  <2>1. "implicit" \in Kind /\ Len(v) # 0 /\ v[Len(v)] = <<"implicit", r>>
    BY <1>3, <1>4 DEF Kind
  <2> QED
    BY <1>1, <1>3, <2>1, EndScope
<1> HIDE DEF w
<1>6. Len(w) = 1 /\ \A i \in 1..Len(w) : w[i] = v[i]
  BY <1>3, <1>5
<1>7. Mirrors(t, w, q, p2, b)
  <2>1. /\ Len(w) = Height(t, q, b) /\ Len(w) <= Len(v) /\ Len(q) <= Len(s)
        /\ \A n \in 1..Len(q) : q[n].region = s[n].region
    BY <1>2, <1>3, <1>6
  <2> QED
    BY <1>5, <1>6, <2>1, MirrorCut
<1> QED
  BY <1>7 DEF w

-------------------------------------------------------------------------------
(* What the invariant says of one state.                                   *)

\* Every step is a step of Team, or leaves its variables alone.
LEMMA StepOfTeam ==
  ASSUME [ONext]_ovars
  PROVE  [Next]_vars
<1>1. ASSUME NEW t \in Thread, OConstructs(t)
      PROVE  Next
  BY <1>1 DEF OConstructs, OPush, OForkNested, OFork, Next, Constructs
<1>2. ASSUME NEW t \in Thread, OProceeds(t)
      PROVE  Next \/ UNCHANGED vars
  BY <1>2 DEF OProceeds, OArrive, OJoinNested, ThreadStart, ODispatched, OPark, OJoin, Next, Proceeds
<1>3. ASSUME NEW r \in 1..Len(regions), OBarrier(r)
      PROVE  Next
  BY <1>3 DEF OBarrier, Next
<1>4. OExit \/ ODone => Next
  BY DEF OExit, ODone, Next
<1>6. ASSUME NEW t \in Finalizing, FinalizeTool(t)
      PROVE  UNCHANGED vars
  BY <1>6 DEF FinalizeTool
<1>5. UNCHANGED ovars => UNCHANGED vars
  BY DEF ovars
<1> QED
  BY <1>1, <1>2, <1>3, <1>4, <1>5, <1>6 DEF ONext

\* The stacks, as the proofs below use them.
LEMMA Stacks ==
  ASSUME IInv, NEW t \in Thread
  PROVE  /\ frames[t] \in Seq(Frame)
         /\ Len(frames[t]) \in Nat /\ DOMAIN frames[t] = 1..Len(frames[t])
         /\ Inside(t) <=> Len(frames[t]) # 0
         /\ Inside(t) <=> frames[t] # <<>>
         /\ Inside(t) => Top(t) = frames[t][Len(frames[t])].region /\ Top(t) \in Nat
<1>1. TypeOK
  BY DEF IInv
<1>2. /\ frames[t] \in Seq(Frame)
      /\ Len(frames[t]) \in Nat /\ DOMAIN frames[t] = 1..Len(frames[t])
      /\ frames[t] # <<>> <=> Len(frames[t]) # 0
      /\ \A i \in 1..Len(frames[t]) : frames[t][i] \in Frame
  BY <1>1, StackShape DEF TypeOK
<1>3. Inside(t) => Top(t) \in Nat
  <2>1. Inside(t) => Len(frames[t]) \in 1..Len(frames[t])
    BY <1>2 DEF Inside
  <2> QED
    BY <1>2, <2>1 DEF Top, Frame
<1> QED
  BY <1>2, <1>3 DEF Inside, Top

\* The slots the bridge reads on a thread hold the datum of the innermost region
\* the thread is in.
LEMMA DataOfTop ==
  ASSUME IInv, SlotInv, NestedInv, NEW t \in Thread, Inside(t)
  PROVE  TeamDatum(t) = Top(t) /\ TaskDatum(t) = Top(t)
<1>1. TypeOK /\ FrameInv /\ WorkerInv
  BY DEF IInv
<1>2. Len(frames[t]) \in Nat \ {0} /\ DOMAIN frames[t] = 1..Len(frames[t])
  BY Stacks
<1>3. CASE Len(frames[t]) = 1
  <2> DEFINE k == regions[Top(t)].team
  <2>1. Top(t) = Bottom(t) /\ 1 \in DOMAIN frames[t]
    BY <1>2, <1>3 DEF Top, Bottom
  <2>2. k \in Keys
    BY <1>1, <2>1 DEF FrameInv, Bottom
  <2>3. k # Nested
    BY <2>2, KeyFacts
  <2>4. Inside(InitialThread) /\ Bottom(InitialThread) = Bottom(t)
    BY <1>1, ThreadIs DEF WorkerInv
  <2>5. teamData[k] = Bottom(t) /\ taskData[t][k] = Bottom(t)
    BY <2>1, <2>4 DEF SlotInv
  <2> QED
    BY <2>1, <2>3, <2>5 DEF TeamDatum, TaskDatum
<1>4. CASE Len(frames[t]) # 1
  <2> DEFINE l == Len(frames[t])
             m == Len(nested[t])
  <2>1. l \in DOMAIN frames[t] /\ l # 1
    BY <1>2, <1>4
  <2>2. regions[Top(t)].team = Nested
    BY <1>1, <2>1 DEF FrameInv, Top
  <2>3. m = l - 1 /\ m \in 1..m /\ m + 1 = l
    <3>1. m = l - 1
      BY DEF NestedInv
    <3>2. l \in Nat \ {0} /\ l # 1
      BY <1>2, <1>4
    <3> HIDE DEF l, m
    <3> QED
      BY <3>1, <3>2
  <2>4. nested[t][m].team = frames[t][m + 1].region /\ nested[t][m].task = frames[t][m + 1].region
    BY <2>3 DEF NestedInv
  <2> QED
    BY <2>2, <2>3, <2>4 DEF TeamDatum, TaskDatum, Top
<1> QED
  BY <1>3, <1>4

-------------------------------------------------------------------------------
(* What a step leaves alone.                                               *)

\* A step on which the tool is told of one thread at most.
LEMMA ViewStep ==
  ASSUME ViewInv, mode = "running", registered' = registered, registered \in BOOLEAN,
         NEW t \in Thread, NEW x, seen' = [seen EXCEPT ![t] = x],
         \A u \in Thread : u # t => frames'[u] = frames[u] /\ pc'[u] = pc[u] /\ begun'[u] = begun[u],
         IF registered THEN Mirrors(t, x, frames'[t], pc'[t], begun'[t]) ELSE x = <<>>
  PROVE  ViewInv'
<1>1. seen \in [Thread -> Seq(Scope)] /\ <<>> \in Seq(Scope)
  BY EmptySeq DEF ViewInv
<1>2. x \in Seq(Scope)
  BY <1>1 DEF Mirrors
<1>3. seen' \in [Thread -> Seq(Scope)] /\ seen'[t] = x /\ \A u \in Thread : u # t => seen'[u] = seen[u]
  BY <1>1, <1>2
<1>4. ASSUME ~registered, NEW u \in Thread
      PROVE  seen'[u] = <<>>
  BY <1>3, <1>4 DEF ViewInv
<1>5. ASSUME registered, NEW u \in Thread
      PROVE  Mirrors(u, seen'[u], frames'[u], pc'[u], begun'[u])
  <2>1. CASE u = t
    BY <1>3, <1>5, <2>1
  <2>2. CASE u # t
    BY <1>3, <1>5, <2>2 DEF ViewInv
  <2> QED
    BY <2>1, <2>2
<1>6. \A u \in Thread : registered => Mirrors(u, seen[u], frames[u], pc[u], begun[u])'
  BY <1>5 DEF Mirrors, Height, Bias
<1> QED
  BY <1>3, <1>4, <1>6 DEF ViewInv

LEMMA SlotKept ==
  ASSUME SlotInv, UNCHANGED <<args, teamData, taskData>>,
         \A u \in Thread :
           Inside(u)' => Inside(u) /\ Bottom(u)' = Bottom(u) /\ regions'[Bottom(u)].team = regions[Bottom(u)].team
  PROVE  SlotInv'
  BY ThreadIs DEF SlotInv

LEMMA NestedKept ==
  ASSUME NestedInv, nested' = nested,
         \A u \in Thread :
           /\ Len(nested[u]) = IF Inside(u)' THEN Len(frames'[u]) - 1 ELSE 0
           /\ \A i \in 1..Len(nested[u]) : frames'[u][i + 1].region = frames[u][i + 1].region
  PROVE  NestedInv'
  BY DEF NestedInv

-------------------------------------------------------------------------------
(* The steps.                                                              *)

LEMMA OPushInv ==
  ASSUME Followed, IInv', NEW t \in Thread, NEW n \in NumThreads, OPush(t, n)
  PROVE  Followed'
<1>1. /\ IInv /\ TypeOK /\ FlagInv /\ SlotInv /\ NestedInv /\ ViewInv
  BY DEF Followed, IInv
<1>2. /\ mode = "running" /\ pc[t] \in {"outside", "body"} /\ pc' = [pc EXCEPT ![t] = "pushed"]
      /\ UNCHANGED <<frames, teams, args, todo, regions, live, mode>> /\ UNCHANGED ompt
  BY DEF OPush, PushNumThreads, Encounters
<1>3. UNCHANGED <<registered, OMPT_ENABLED, begun, teamData, taskData, nested, seen, finalizer>>
  BY <1>2 DEF ompt, data
<1>4. pc'[t] = "pushed" /\ \A u \in Thread : u # t => pc'[u] = pc[u]
  BY <1>1, <1>2 DEF TypeOK
<1>5. FlagInv'
  BY <1>1, <1>2, <1>3 DEF FlagInv
<1>6. SlotInv' /\ NestedInv'
  BY <1>1, <1>2, <1>3 DEF SlotInv, NestedInv, Inside, Bottom
<1>7. ViewInv'
  <2>1. seen' = [seen EXCEPT ![t] = seen[t]]
    BY <1>1, <1>3 DEF ViewInv
  <2>2. registered => Mirrors(t, seen[t], frames[t], pc[t], begun[t])
    BY <1>1, <1>2 DEF ViewInv
  <2>3. registered => Mirrors(t, seen[t], frames[t], "pushed", begun[t])
    BY <1>2, <2>2 DEF Mirrors
  <2>4. ~registered => seen[t] = <<>>
    BY <1>1 DEF ViewInv
  <2>5. IF registered THEN Mirrors(t, seen[t], frames'[t], pc'[t], begun'[t]) ELSE seen[t] = <<>>
    BY <1>2, <1>3, <1>4, <2>3, <2>4
  <2> QED
    BY <1>1, <1>2, <1>3, <1>4, <2>1, <2>5, ViewStep DEF FlagInv
<1>8. NothingOpenAtEnd'
  BY <1>2 DEF NothingOpenAtEnd
<1> QED
  BY <1>5, <1>6, <1>7, <1>8 DEF Followed

LEMMA OArriveInv ==
  ASSUME Followed, IInv', NEW t \in Thread, OArrive(t)
  PROVE  Followed'
<1> DEFINE x == OnBarrierBegin(seen[t], TeamDatum(t))
<1>1. /\ IInv /\ TypeOK /\ PcInv /\ FlagInv /\ SlotInv /\ NestedInv /\ ViewInv
  BY DEF Followed, IInv
<1>2. /\ mode = "running" /\ pc[t] = "body" /\ pc' = [pc EXCEPT ![t] = "barrier"]
      /\ UNCHANGED <<frames, pushed, teams, args, todo, regions, live, mode>>
      /\ seen' = [seen EXCEPT ![t] = x]
      /\ UNCHANGED <<registered, OMPT_ENABLED, begun, teamData, taskData, nested, finalizer>>
  BY DEF OArrive, Arrive, data
<1>3. pc'[t] = "barrier" /\ \A u \in Thread : u # t => pc'[u] = pc[u]
  BY <1>1, <1>2 DEF TypeOK
<1>4. Inside(t)
  BY <1>1, <1>2, ThreadIs DEF PcInv
<1>5. FlagInv'
  BY <1>1, <1>2 DEF FlagInv
<1>6. SlotInv' /\ NestedInv'
  BY <1>1, <1>2 DEF SlotInv, NestedInv, Inside, Bottom
<1>7. IF registered THEN Mirrors(t, x, frames'[t], pc'[t], begun'[t]) ELSE x = <<>>
  <2>1. CASE registered
    <3> DEFINE r == frames[t][Len(frames[t])].region
    <3>1. TeamDatum(t) = r
      BY <1>1, <1>4, DataOfTop DEF Top
    <3>2. x = Begin(Begin(seen[t], "sync", r), "wait", r)
      BY <2>1, <3>1 DEF OnBarrierBegin, Calls
    <3>3. Mirrors(t, seen[t], frames[t], pc[t], begun[t])
      BY <1>1, <1>2, <2>1 DEF ViewInv
    <3>4. frames[t] \in Seq(Frame) /\ frames[t] # <<>> /\ begun[t] \in BOOLEAN /\ pc[t] # "barrier"
      BY <1>1, <1>2, <1>4, Stacks DEF FlagInv
    <3>5. Mirrors(t, Begin(Begin(seen[t], "sync", r), "wait", r), frames[t], "barrier", begun[t])
      BY <3>3, <3>4, MirrorArrive
    <3> QED
      BY <1>2, <1>3, <2>1, <3>2, <3>5
  <2>2. CASE ~registered
    BY <1>1, <2>2 DEF ViewInv, OnBarrierBegin, Calls
  <2> QED
    BY <2>1, <2>2
<1>8. ViewInv'
  <2> HIDE DEF x
  <2> QED
    BY <1>1, <1>2, <1>3, <1>7, ViewStep DEF FlagInv
<1>9. NothingOpenAtEnd'
  BY <1>2 DEF NothingOpenAtEnd
<1> QED
  BY <1>5, <1>6, <1>8, <1>9 DEF Followed

LEMMA ThreadStartInv ==
  ASSUME Followed, IInv', NEW w \in Worker, ThreadStart(w)
  PROVE  Followed'
<1> DEFINE x == OnThreadStart(seen[w])
<1>1. /\ IInv /\ TypeOK /\ PcInv /\ FlagInv /\ SlotInv /\ NestedInv /\ ViewInv
  BY DEF Followed, IInv
<1>2. /\ mode = "running" /\ registered /\ ~begun[w]
      /\ begun' = [begun EXCEPT ![w] = TRUE]
      /\ UNCHANGED <<pc, frames, pushed, teams, args, todo, regions, live, mode>>
      /\ seen' = [seen EXCEPT ![w] = x]
      /\ UNCHANGED <<registered, OMPT_ENABLED, teamData, taskData, nested, finalizer>>
  BY DEF ThreadStart, data, vars
<1>3. w \in Thread /\ w # InitialThread
  BY ThreadIs
<1>4. begun' \in [Thread -> BOOLEAN] /\ begun'[w] /\ \A u \in Thread : u # w => begun'[u] = begun[u]
  BY <1>1, <1>2, <1>3 DEF FlagInv
<1>5. FlagInv'
  BY <1>1, <1>2, <1>4 DEF FlagInv
<1>6. SlotInv' /\ NestedInv'
  BY <1>1, <1>2 DEF SlotInv, NestedInv, Inside, Bottom
<1>7. Mirrors(w, seen[w], frames[w], pc[w], begun[w])
  BY <1>1, <1>2, <1>3 DEF ViewInv
<1>8. ~Inside(w) /\ frames[w] = <<>> /\ Len(frames[w]) = 0 /\ frames[w] \in Seq(Frame)
  <2>1. frames[w] = <<>>
    BY <1>2, <1>3, <1>7 DEF Mirrors
  <2> QED
    BY <1>1, <1>3, <2>1, Stacks
<1>9. pc[w] = "parked"
  BY <1>1, <1>8 DEF PcInv
<1>10. Mirrors(w, Begin(seen[w], "thread", 0), frames[w], pc[w], begun'[w])
  <2>1. begun[w] \in BOOLEAN /\ begun'[w] \in BOOLEAN /\ pc[w] # "barrier"
    BY <1>1, <1>3, <1>4, <1>9 DEF FlagInv
  <2> QED
    <3>1. ASSUME NEW b \in BOOLEAN, NEW c \in BOOLEAN, ~b, c, Mirrors(w, seen[w], frames[w], pc[w], b)
          PROVE  Mirrors(w, Begin(seen[w], "thread", 0), frames[w], pc[w], c)
      BY <1>3, <1>8, <2>1, <3>1, MirrorStart
    <3> QED
      BY <1>2, <1>4, <1>7, <2>1, <3>1
<1>11. IF registered THEN Mirrors(w, x, frames'[w], pc'[w], begun'[w]) ELSE x = <<>>
  BY <1>2, <1>10 DEF OnThreadStart, Calls
<1>12. ViewInv'
  <2> HIDE DEF x
  <2> QED
    BY <1>1, <1>2, <1>3, <1>4, <1>11, ViewStep DEF FlagInv
<1>13. NothingOpenAtEnd'
  BY <1>2 DEF NothingOpenAtEnd
<1> QED
  BY <1>5, <1>6, <1>12, <1>13 DEF Followed

\* A region inside a region.
LEMMA OForkNestedInv ==
  ASSUME Followed, IInv', NEW t \in Thread, OForkNested(t)
  PROVE  Followed'
<1> DEFINE r == Len(regions) + 1
           d == FreshParallel(0, r)
           e == [team |-> d, task |-> FreshTask(0, d)]
           x == ImplicitTaskBegin(ParallelBegin(seen[t], d), d)
<1>1. /\ IInv /\ TypeOK /\ PcInv /\ FlagInv /\ SlotInv /\ NestedInv /\ ViewInv
  BY DEF Followed, IInv
<1>2. /\ Forks(t) /\ Inside(t) /\ Enter(t, Nested) /\ mode = "running" /\ mode' = mode
      /\ args' = args /\ pc[t] # "barrier"
      /\ nested' = [nested EXCEPT ![t] = Append(@, e)]
      /\ seen' = [seen EXCEPT ![t] = x]
      /\ UNCHANGED <<registered, OMPT_ENABLED, begun, teamData, taskData, finalizer>>
  BY DEF OForkNested, ForkNested, Forks, Encounters
<1>3. /\ \A q \in 1..Len(regions) : regions'[q] = regions[q]
      /\ frames' \in [Thread -> Seq(Frame)]
      /\ Len(frames'[t]) = Len(frames[t]) + 1
      /\ \A i \in 1..Len(frames[t]) : frames'[t][i] = frames[t][i]
      /\ frames'[t][Len(frames[t]) + 1] = [region |-> r, passed |-> 0]
      /\ \A u \in Thread : u # t => frames'[u] = frames[u] /\ pc'[u] = pc[u]
      /\ pc'[t] = "body"
  BY <1>1, <1>2, EnterFacts
<1>4. r \in Nat \ {0} /\ d = r /\ e = [team |-> r, task |-> r]
  <2>1. r \in Nat \ {0}
    BY <1>1, RegionsShape
  <2> QED
    BY <1>1, <1>2, <2>1 DEF FreshParallel, FreshTask, Filled, FlagInv
<1>5. /\ frames[t] \in Seq(Frame) /\ frames[t] # <<>>
      /\ Len(frames[t]) \in Nat \ {0}
      /\ Len(nested[t]) = Len(frames[t]) - 1 /\ nested[t] \in Seq([team : Nat, task : Nat])
  BY <1>1, <1>2, Stacks DEF NestedInv
<1>6. FlagInv'
  BY <1>1, <1>2 DEF FlagInv
<1>7. \A u \in Thread : /\ Inside(u)' => Inside(u)
                        /\ Inside(u) => Bottom(u)' = Bottom(u) /\ Bottom(u) \in 1..Len(regions)
  <2>1. ASSUME NEW u \in Thread, Inside(u)
        PROVE  Bottom(u) \in 1..Len(regions) /\ 1 \in 1..Len(frames[u])
    <3>1. 1 \in 1..Len(frames[u]) /\ 1 \in DOMAIN frames[u]
      BY <1>1, <2>1, Stacks
    <3> QED
      BY <1>1, <3>1, FrameRegion DEF IInv, Bottom
  <2>2. \A u \in Thread : u # t => (Inside(u)' <=> Inside(u)) /\ Bottom(u)' = Bottom(u)
    BY <1>3 DEF Inside, Bottom
  <2>3. Bottom(t)' = Bottom(t)
    BY <1>2, <1>3, <2>1 DEF Bottom
  <2> QED
    BY <1>2, <2>1, <2>2, <2>3
<1>8. SlotInv'
  BY <1>1, <1>2, <1>3, <1>7, SlotKept
<1>9. NestedInv'
  <2>1. e \in [team : Nat, task : Nat] /\ e.team = r /\ e.task = r
    BY <1>4
  <2> HIDE DEF e
  <2>2. /\ Append(nested[t], e) \in Seq([team : Nat, task : Nat])
        /\ Len(Append(nested[t], e)) = Len(frames[t])
        /\ \A i \in 1..(Len(frames[t]) - 1) : Append(nested[t], e)[i] = nested[t][i]
        /\ Append(nested[t], e)[Len(frames[t])] = e
    BY <1>5, <2>1, AppendProperties
  <2>3. nested'[t] = Append(nested[t], e) /\ \A u \in Thread : u # t => nested'[u] = nested[u]
    BY <1>1, <1>2 DEF NestedInv
  <2>4. nested' \in [Thread -> Seq([team : Nat, task : Nat])]
    BY <1>1, <1>2, <2>2 DEF NestedInv
  <2>5. Inside(t)' /\ Len(nested'[t]) = Len(frames'[t]) - 1
    <3>1. Len(frames'[t]) # 0 /\ Len(frames'[t]) - 1 = Len(frames[t]) /\ frames'[t] \in Seq(Frame)
      BY <1>3, <1>5
    <3>2. frames'[t] # <<>>
      BY <3>1, StackShape
    <3> QED
      BY <2>2, <2>3, <3>1, <3>2 DEF Inside
  <2>6. ASSUME NEW i \in 1..Len(frames[t])
        PROVE  /\ nested'[t][i].team = frames'[t][i + 1].region
               /\ nested'[t][i].task = frames'[t][i + 1].region
    <3>1. CASE i = Len(frames[t])
      BY <1>3, <2>1, <2>2, <2>3, <3>1
    <3>2. CASE i # Len(frames[t])
      <4>1. i \in 1..(Len(frames[t]) - 1) /\ i + 1 \in 1..Len(frames[t])
        BY <1>5, <3>2
      <4>2. nested[t][i].team = frames[t][i + 1].region /\ nested[t][i].task = frames[t][i + 1].region
        BY <1>1, <1>5, <4>1 DEF NestedInv
      <4> QED
        BY <1>3, <2>2, <2>3, <4>1, <4>2
    <3> QED
      BY <3>1, <3>2
  <2>7. \A u \in Thread : u # t => (Inside(u)' <=> Inside(u)) /\ frames'[u] = frames[u]
    BY <1>3 DEF Inside
  <2>8. ASSUME NEW u \in Thread
        PROVE  /\ Len(nested'[u]) = IF Inside(u)' THEN Len(frames'[u]) - 1 ELSE 0
               /\ \A i \in 1..Len(nested'[u]) :
                    nested'[u][i].team = frames'[u][i + 1].region /\ nested'[u][i].task = frames'[u][i + 1].region
    <3>1. CASE u = t
      BY <2>2, <2>3, <2>5, <2>6, <3>1
    <3>2. CASE u # t
      <4>1. (Inside(u)' <=> Inside(u)) /\ frames'[u] = frames[u] /\ nested'[u] = nested[u]
        BY <2>3, <2>7, <3>2
      <4>2. /\ Len(nested[u]) = IF Inside(u) THEN Len(frames[u]) - 1 ELSE 0
            /\ \A i \in 1..Len(nested[u]) :
                 nested[u][i].team = frames[u][i + 1].region /\ nested[u][i].task = frames[u][i + 1].region
        BY <1>1 DEF NestedInv
      <4>3. Len(nested'[u]) = IF Inside(u)' THEN Len(frames'[u]) - 1 ELSE 0
        BY <4>1, <4>2
      <4> QED
        BY <4>1, <4>2, <4>3
    <3> QED
      BY <3>1, <3>2
  <2> QED
    BY <2>4, <2>8 DEF NestedInv
<1>10. IF registered THEN Mirrors(t, x, frames'[t], pc'[t], begun'[t]) ELSE x = <<>>
  <2>1. CASE registered
    <3>1. x = Begin(Begin(seen[t], "parallel", r), "implicit", r)
      BY <1>1, <1>2, <1>4, <2>1 DEF FlagInv, ImplicitTaskBegin, ParallelBegin, Emits
    <3>2. Mirrors(t, seen[t], frames[t], pc[t], begun[t]) /\ begun[t] \in BOOLEAN
      BY <1>1, <1>2, <2>1 DEF ViewInv, FlagInv
    <3>3. frames'[t] \in Seq(Frame) /\ frames'[t][Len(frames[t]) + 1].region = r
      BY <1>3
    <3>4. Mirrors(t, Begin(Begin(seen[t], "parallel", r), "implicit", r), frames'[t], "body", begun[t])
      BY <1>2, <1>3, <1>4, <1>5, <3>2, <3>3, MirrorEnter
    <3> QED
      BY <1>2, <1>3, <2>1, <3>1, <3>4
  <2>2. CASE ~registered
    BY <1>1, <2>2 DEF ViewInv, FlagInv, ImplicitTaskBegin, ParallelBegin, Emits
  <2> QED
    BY <2>1, <2>2
<1>11. ViewInv'
  <2> HIDE DEF x
  <2> QED
    BY <1>1, <1>2, <1>3, <1>10, ViewStep DEF FlagInv
<1>12. NothingOpenAtEnd'
  BY <1>2 DEF NothingOpenAtEnd
<1> QED
  BY <1>6, <1>8, <1>9, <1>11, <1>12 DEF Followed

\* A region of a cached team, or the assertion on their number.
LEMMA OForkInv ==
  ASSUME Followed, IInv', NEW t \in Thread, NEW k \in Keys, OFork(t, k)
  PROVE  Followed'
<1>1. /\ IInv /\ TypeOK /\ PcInv /\ WorkerInv /\ FlagInv /\ SlotInv /\ NestedInv /\ ViewInv
  BY DEF Followed, IInv
<1>2. mode = "running" /\ Forks(t) /\ ~Inside(t) /\ t = InitialThread
  BY <1>1, OutsideIsInitial DEF OFork, ForkCached, ForkNew, Forks, Encounters
<1>3. CASE mode' = "aborted"
  <2>1. /\ UNCHANGED <<pc, frames, args, regions>>
        /\ UNCHANGED <<registered, OMPT_ENABLED, begun, teamData, taskData, nested, seen, finalizer>>
    BY <1>2, <1>3 DEF OFork, ForkCached, ForkNew
  <2>2. FlagInv'
    BY <1>1, <1>2, <1>3, <2>1 DEF FlagInv
  <2>3. SlotInv' /\ NestedInv'
    BY <1>1, <2>1 DEF SlotInv, NestedInv, Inside, Bottom
  <2>4. ViewInv'
    <3>1. \A u \in Thread : registered => Mirrors(u, seen[u], frames[u], pc[u], begun[u])
      BY <1>1, <1>2 DEF ViewInv
    <3>2. \A u \in Thread : registered => Mirrors(u, seen[u], frames[u], pc[u], begun[u])'
      BY <2>1, <3>1 DEF Mirrors, Height, Bias
    <3> QED
      BY <1>1, <2>1, <3>2 DEF ViewInv
  <2>5. NothingOpenAtEnd'
    BY <1>3 DEF NothingOpenAtEnd
  <2> QED
    BY <2>2, <2>3, <2>4, <2>5 DEF Followed
<1>4. CASE mode' # "aborted"
  <2> DEFINE r == Len(regions) + 1
             d == FreshParallel(teamData[k], r)
             e == FreshTask(taskData[t][k], d)
             x == ImplicitTaskBegin(ParallelBegin(seen[t], d), d)
  <2>1. /\ Enter(t, k) /\ mode' = mode /\ args' = [args EXCEPT ![k] = r]
        /\ teamData' = [teamData EXCEPT ![k] = d]
        /\ taskData' = [taskData EXCEPT ![t][k] = e]
        /\ seen' = [seen EXCEPT ![t] = x]
        /\ UNCHANGED <<registered, OMPT_ENABLED, begun, nested, finalizer>>
    BY <1>2, <1>4 DEF OFork, ForkCached, ForkNew
  <2>2. /\ regions'[r].team = k
        /\ frames' \in [Thread -> Seq(Frame)]
        /\ Len(frames'[t]) = Len(frames[t]) + 1
        /\ \A i \in 1..Len(frames[t]) : frames'[t][i] = frames[t][i]
        /\ frames'[t][Len(frames[t]) + 1] = [region |-> r, passed |-> 0]
        /\ \A u \in Thread : u # t => frames'[u] = frames[u] /\ pc'[u] = pc[u]
        /\ pc'[t] = "body"
    BY <1>1, <1>2, <2>1, EnterFacts
  <2>3. r \in Nat \ {0} /\ d = r /\ e = r
    <3>1. r \in Nat \ {0}
      BY <1>1, RegionsShape
    <3> QED
      BY <1>1, <1>2, <3>1 DEF FreshParallel, FreshTask, Filled, FlagInv
  <2>4. /\ frames[t] \in Seq(Frame) /\ frames[t] = <<>> /\ Len(frames[t]) = 0
        /\ frames'[t] \in Seq(Frame) /\ Len(frames'[t]) = 1 /\ frames'[t][1].region = r
    <3>1. frames[t] \in Seq(Frame) /\ frames[t] = <<>> /\ Len(frames[t]) = 0
      BY <1>1, <1>2, Stacks
    <3> QED
      BY <2>2, <3>1
  <2>5. \A u \in Thread : u # t => ~Inside(u) /\ ~Inside(u)'
    <3>1. \A u \in Thread : u # t => u \in Worker /\ ~Inside(u)
      BY <1>1, <1>2, ThreadIs DEF WorkerInv
    <3> QED
      BY <2>2, <3>1 DEF Inside
  <2>6. Inside(t)' /\ Bottom(t)' = r
    <3>1. frames'[t] # <<>>
      BY <2>4, StackShape
    <3> QED
      BY <2>4, <3>1 DEF Inside, Bottom
  <2>7. FlagInv'
    BY <1>1, <2>1 DEF FlagInv
  <2>8. SlotInv'
    <3> HIDE DEF d, e, r
    <3>1. args'[k] = r /\ args' = [args EXCEPT ![k] = r]
      BY <1>1, <2>1 DEF TypeOK
    <3>2. teamData' = args'
      BY <1>1, <2>1, <2>3 DEF SlotInv
    <3>3. taskData' \in [Thread -> [Keys -> Nat]] /\ taskData'[t][k] = r
      BY <1>1, <2>1, <2>3 DEF SlotInv
    <3>4. regions'[Bottom(t)'].team = k
      BY <2>2, <2>6
    <3>5. args'[regions'[Bottom(t)'].team] = Bottom(t)'
      BY <2>6, <3>1, <3>4
    <3>6. taskData'[t][regions'[Bottom(t)'].team] = Bottom(t)'
      BY <2>6, <3>3, <3>4
    <3>7. \A u \in Thread : Inside(u)' => u = t
      BY <2>5
    <3>8. (Inside(InitialThread) => args[regions[Bottom(InitialThread)].team] = Bottom(InitialThread))'
      BY <1>2, <3>5
    <3>9. \A u \in Thread : (Inside(u) => taskData[u][regions[Bottom(u)].team] = Bottom(u))'
      BY <3>6, <3>7
    <3> QED
      BY <3>2, <3>3, <3>8, <3>9 DEF SlotInv
  <2>9. NestedInv'
    <3>1. \A u \in Thread : Len(nested[u]) = 0
      BY <1>1, <1>2, <2>5 DEF NestedInv
    <3>2. \A u \in Thread : Len(nested[u]) = IF Inside(u)' THEN Len(frames'[u]) - 1 ELSE 0
      <4>1. Len(nested[t]) = 0 /\ Len(frames'[t]) - 1 = 0
        BY <2>4, <3>1
      <4>2. Len(nested[t]) = IF Inside(t)' THEN Len(frames'[t]) - 1 ELSE 0
        BY <4>1
      <4>3. \A u \in Thread : u # t => Len(nested[u]) = IF Inside(u)' THEN Len(frames'[u]) - 1 ELSE 0
        BY <2>5, <3>1
      <4> QED
        BY <4>2, <4>3
    <3>3. \A u \in Thread : \A i \in 1..Len(nested[u]) : FALSE
      BY <3>1
    <3>4. nested' = nested
      BY <2>1
    <3> QED
      BY <1>1, <3>2, <3>3, <3>4, NestedKept
  <2>10. IF registered THEN Mirrors(t, x, frames'[t], pc'[t], begun'[t]) ELSE x = <<>>
    <3>1. CASE registered
      <4>1. x = Begin(Begin(seen[t], "parallel", r), "implicit", r)
        BY <1>1, <1>2, <2>3, <3>1 DEF FlagInv, ImplicitTaskBegin, ParallelBegin, Emits
      <4>2. Mirrors(t, seen[t], frames[t], pc[t], begun[t]) /\ begun[t] \in BOOLEAN
        BY <1>1, <1>2, <3>1 DEF ViewInv, FlagInv
      <4>3. pc[t] # "barrier"
        BY <1>2 DEF Forks, Encounters
      <4>4. Mirrors(t, Begin(Begin(seen[t], "parallel", r), "implicit", r), frames'[t], "body", begun[t])
        <5>1. frames'[t][Len(frames[t]) + 1].region = r /\ r \in Nat
          BY <2>2, <2>3
        <5>2. /\ frames[t] \in Seq(Frame) /\ frames'[t] \in Seq(Frame)
              /\ Len(frames'[t]) = Len(frames[t]) + 1
              /\ \A n \in 1..Len(frames[t]) : frames'[t][n] = frames[t][n]
              /\ t = InitialThread \/ frames[t] # <<>>
          BY <1>2, <2>2, <2>4
        <5> HIDE DEF r
        <5> QED
          BY <4>2, <4>3, <5>1, <5>2, MirrorEnter
      <4> QED
        BY <2>1, <2>2, <3>1, <4>1, <4>4
    <3>2. CASE ~registered
      BY <1>1, <3>2 DEF ViewInv, FlagInv, ImplicitTaskBegin, ParallelBegin, Emits
    <3> QED
      BY <3>1, <3>2
  <2>11. ViewInv'
    <3> HIDE DEF x
    <3> QED
      BY <1>1, <1>2, <2>1, <2>2, <2>10, ViewStep DEF FlagInv
  <2>12. NothingOpenAtEnd'
    BY <1>2, <2>1 DEF NothingOpenAtEnd
  <2> QED
    BY <2>7, <2>8, <2>9, <2>11, <2>12 DEF Followed
<1> QED
  BY <1>3, <1>4

\* A worker takes up the region dispatched to its team.
LEMMA ODispatchedInv ==
  ASSUME Followed, IInv', NEW w \in Worker, ODispatched(w)
  PROVE  Followed'
<1> DEFINE k == w.team
           d == teamData[k]
           e == [region |-> args[k], passed |-> 0]
           x == ImplicitTaskBegin(seen[w], d)
<1>1. /\ IInv /\ TypeOK /\ PcInv /\ DispatchInv /\ FlagInv /\ SlotInv /\ NestedInv /\ ViewInv
  BY DEF Followed, IInv
<1>2. w \in Thread /\ w # InitialThread /\ k \in Keys
  BY ThreadIs, WorkerFacts
<1>3. /\ mode = "running" /\ mode' = mode /\ pc[w] = "parked" /\ w.tid \in todo[k]
      /\ frames' = [frames EXCEPT ![w] = <<e>>]
      /\ pc' = [pc EXCEPT ![w] = "body"]
      /\ UNCHANGED <<args, regions>>
      /\ (registered => begun[w])
      /\ taskData' = [taskData EXCEPT ![w][k] = FreshTask(taskData[w][k], d)]
      /\ seen' = [seen EXCEPT ![w] = x]
      /\ UNCHANGED <<registered, OMPT_ENABLED, begun, teamData, nested, finalizer>>
  BY <1>1 DEF ODispatched, Dispatched, FlagInv
<1>4. regions[args[k]].team = k
  BY <1>1, <1>2, <1>3 DEF DispatchInv
<1>5. d = args[k] /\ d \in Nat /\ FreshTask(taskData[w][k], d) = d
  <2>1. d = args[k]
    BY <1>1 DEF SlotInv
  <2>2. args[k] \in 0..MaxRegions
    BY <1>1, <1>2 DEF TypeOK
  <2> QED
    <3>1. d \in Nat
      BY <2>1, <2>2, BoundAssumption
    <3>2. OMPT_ENABLED
      BY <1>1, <1>3 DEF FlagInv
    <3> HIDE DEF d
    <3> QED
      BY <2>1, <3>1, <3>2 DEF FreshTask, Filled
<1>6. ~Inside(w) /\ frames[w] \in Seq(Frame) /\ Len(frames[w]) = 0
  BY <1>1, <1>2, <1>3, Stacks DEF PcInv
<1>7. e \in Frame /\ e.region = d
  BY <1>5, BoundAssumption DEF Frame
<1>8. /\ frames'[w] = <<e>> /\ pc'[w] = "body"
      /\ \A u \in Thread : u # w => frames'[u] = frames[u] /\ pc'[u] = pc[u]
  BY <1>1, <1>2, <1>3 DEF TypeOK
<1>9. frames'[w] \in Seq(Frame) /\ Len(frames'[w]) = 1 /\ frames'[w][1].region = d /\ frames'[w] # <<>>
  <2> HIDE DEF e
  <2> QED
    BY <1>7, <1>8
<1>10. /\ Inside(w)' /\ Bottom(w)' = d
       /\ \A u \in Thread : u # w => (Inside(u)' <=> Inside(u)) /\ Bottom(u)' = Bottom(u)
  BY <1>8, <1>9 DEF Inside, Bottom
<1>11. FlagInv'
  BY <1>1, <1>3 DEF FlagInv
<1>12. SlotInv'
  <2> HIDE DEF d
  <2>1. /\ taskData' \in [Thread -> [Keys -> Nat]] /\ taskData'[w][k] = d
        /\ \A u \in Thread : u # w => taskData'[u] = taskData[u]
    BY <1>1, <1>2, <1>3, <1>5 DEF SlotInv
  <2>2. teamData' = args'
    BY <1>1, <1>3 DEF SlotInv
  <2>3. (Inside(InitialThread) => args[regions[Bottom(InitialThread)].team] = Bottom(InitialThread))'
    BY <1>1, <1>2, <1>3, <1>10, ThreadIs DEF SlotInv
  <2>4. taskData'[w][regions'[Bottom(w)'].team] = Bottom(w)'
    BY <1>3, <1>4, <1>5, <1>10, <2>1
  <2>5. \A u \in Thread : u # w => (Inside(u) => taskData[u][regions[Bottom(u)].team] = Bottom(u))'
    BY <1>1, <1>3, <1>10, <2>1 DEF SlotInv
  <2>6. \A u \in Thread : (Inside(u) => taskData[u][regions[Bottom(u)].team] = Bottom(u))'
    BY <2>4, <2>5
  <2> QED
    BY <2>1, <2>2, <2>3, <2>6 DEF SlotInv
<1>13. NestedInv'
  <2>1. Len(nested[w]) = 0
    BY <1>1, <1>2, <1>6 DEF NestedInv
  <2>2. Len(nested[w]) = IF Inside(w)' THEN Len(frames'[w]) - 1 ELSE 0
    BY <1>9, <1>10, <2>1
  <2>3. ASSUME NEW u \in Thread
        PROVE  /\ Len(nested[u]) = IF Inside(u)' THEN Len(frames'[u]) - 1 ELSE 0
               /\ \A i \in 1..Len(nested[u]) : frames'[u][i + 1].region = frames[u][i + 1].region
    <3>1. CASE u = w
      <4>1. \A i \in 1..Len(nested[w]) : FALSE
        BY <2>1
      <4> QED
        BY <2>2, <3>1, <4>1
    <3>2. CASE u # w
      <4>1. (Inside(u)' <=> Inside(u)) /\ frames'[u] = frames[u]
        BY <1>8, <1>10, <3>2
      <4>2. Len(nested[u]) = IF Inside(u) THEN Len(frames[u]) - 1 ELSE 0
        BY <1>1 DEF NestedInv
      <4> QED
        BY <4>1, <4>2
    <3> QED
      BY <3>1, <3>2
  <2>4. nested' = nested
    BY <1>3
  <2> QED
    BY <1>1, <2>3, <2>4, NestedKept
<1>14. IF registered THEN Mirrors(w, x, frames'[w], pc'[w], begun'[w]) ELSE x = <<>>
  <2> HIDE DEF d
  <2>1. CASE registered
    <3>1. x = Begin(seen[w], "implicit", d)
      BY <1>1, <1>3, <2>1 DEF FlagInv, ImplicitTaskBegin, Emits
    <3>2. Mirrors(w, seen[w], frames[w], pc[w], begun[w]) /\ begun[w] \in BOOLEAN /\ begun[w]
      BY <1>1, <1>2, <1>3, <2>1 DEF ViewInv, FlagInv
    <3>3. Mirrors(w, Begin(seen[w], "implicit", d), frames'[w], "body", begun[w])
      <4>1. pc[w] # "barrier"
        BY <1>3
      <4> QED
        BY <1>2, <1>5, <1>6, <1>9, <3>2, <4>1, MirrorTakeUp
    <3> QED
      BY <1>3, <1>8, <2>1, <3>1, <3>3
  <2>2. CASE ~registered
    BY <1>1, <1>2, <2>2 DEF ViewInv, FlagInv, ImplicitTaskBegin, Emits
  <2> QED
    BY <2>1, <2>2
<1>15. ViewInv'
  <2> HIDE DEF x
  <2> QED
    BY <1>1, <1>2, <1>3, <1>8, <1>14, ViewStep DEF FlagInv
<1>16. NothingOpenAtEnd'
  BY <1>3 DEF NothingOpenAtEnd
<1> QED
  BY <1>11, <1>12, <1>13, <1>15, <1>16 DEF Followed

\* A worker parks.
LEMMA OParkInv ==
  ASSUME Followed, IInv', NEW w \in Worker, OPark(w)
  PROVE  Followed'
<1> DEFINE x == ImplicitTaskEnd(seen[w], TaskDatum(w))
<1>1. /\ IInv /\ TypeOK /\ PcInv /\ FlagInv /\ SlotInv /\ NestedInv /\ ViewInv
  BY DEF Followed, IInv
<1>2. w \in Thread /\ w # InitialThread
  BY ThreadIs
<1>3. /\ mode = "running" /\ mode' = mode /\ pc[w] = "ending" /\ Len(frames[w]) = 1
      /\ frames' = [frames EXCEPT ![w] = <<>>]
      /\ pc' = [pc EXCEPT ![w] = "parked"]
      /\ UNCHANGED <<args, regions>>
      /\ seen' = [seen EXCEPT ![w] = x]
      /\ UNCHANGED <<registered, OMPT_ENABLED, begun, teamData, taskData, nested, finalizer>>
  BY DEF OPark, Park, data
<1>4. /\ frames'[w] = <<>> /\ pc'[w] = "parked"
      /\ \A u \in Thread : u # w => frames'[u] = frames[u] /\ pc'[u] = pc[u]
  BY <1>1, <1>2, <1>3 DEF TypeOK
<1>5. frames'[w] \in Seq(Frame) /\ Len(frames'[w]) = 0
  BY <1>4, EmptySeq
<1>6. ~Inside(w)' /\ \A u \in Thread : u # w => (Inside(u)' <=> Inside(u)) /\ Bottom(u)' = Bottom(u)
  BY <1>4 DEF Inside, Bottom
<1>7. Inside(w) /\ frames[w] \in Seq(Frame) /\ Top(w) = frames[w][1].region
  BY <1>1, <1>2, <1>3, Stacks
<1>8. FlagInv'
  BY <1>1, <1>3 DEF FlagInv
<1>9. SlotInv'
  BY <1>1, <1>3, <1>6, SlotKept
<1>10. NestedInv'
  <2>1. Len(nested[w]) = 0
    <3>1. Len(nested[w]) = Len(frames[w]) - 1
      BY <1>1, <1>2, <1>7 DEF NestedInv
    <3> QED
      BY <1>3, <3>1
  <2>2. ASSUME NEW u \in Thread
        PROVE  /\ Len(nested[u]) = IF Inside(u)' THEN Len(frames'[u]) - 1 ELSE 0
               /\ \A i \in 1..Len(nested[u]) : frames'[u][i + 1].region = frames[u][i + 1].region
    <3>1. CASE u = w
      <4>1. \A i \in 1..Len(nested[w]) : FALSE
        BY <2>1
      <4> QED
        BY <1>6, <2>1, <3>1, <4>1
    <3>2. CASE u # w
      <4>1. (Inside(u)' <=> Inside(u)) /\ frames'[u] = frames[u]
        BY <1>4, <1>6, <3>2
      <4>2. Len(nested[u]) = IF Inside(u) THEN Len(frames[u]) - 1 ELSE 0
        BY <1>1 DEF NestedInv
      <4> QED
        BY <4>1, <4>2
    <3> QED
      BY <3>1, <3>2
  <2>3. nested' = nested
    BY <1>3
  <2> QED
    BY <1>1, <2>2, <2>3, NestedKept
<1>11. IF registered THEN Mirrors(w, x, frames'[w], pc'[w], begun'[w]) ELSE x = <<>>
  <2>1. CASE registered
    <3> DEFINE r == frames[w][1].region
    <3>1. TaskDatum(w) = r
      BY <1>1, <1>2, <1>7, DataOfTop
    <3>2. x = End(seen[w], "implicit", r)
      BY <1>1, <1>3, <2>1, <3>1 DEF FlagInv, ImplicitTaskEnd, Emits
    <3>3. Mirrors(w, seen[w], frames[w], pc[w], begun[w]) /\ begun[w] \in BOOLEAN
      BY <1>1, <1>2, <1>3, <2>1 DEF ViewInv, FlagInv
    <3>4. Mirrors(w, End(seen[w], "implicit", r), frames'[w], "parked", begun[w])
      <4>1. pc[w] # "barrier"
        BY <1>3
      <4> QED
        BY <1>2, <1>3, <1>5, <1>7, <3>3, <4>1, MirrorPark
    <3> QED
      BY <1>3, <1>4, <2>1, <3>2, <3>4
  <2>2. CASE ~registered
    BY <1>1, <1>2, <2>2 DEF ViewInv, FlagInv, ImplicitTaskEnd, Emits
  <2> QED
    BY <2>1, <2>2
<1>12. ViewInv'
  <2> HIDE DEF x
  <2> QED
    BY <1>1, <1>2, <1>3, <1>4, <1>11, ViewStep DEF FlagInv
<1>13. NothingOpenAtEnd'
  BY <1>3 DEF NothingOpenAtEnd
<1> QED
  BY <1>8, <1>9, <1>10, <1>12, <1>13 DEF Followed

\* A stack of anything without its last element.
LEMMA Popped ==
  ASSUME NEW S, NEW s \in Seq(S), Len(s) # 0
  PROVE  /\ SubSeq(s, 1, Len(s) - 1) \in Seq(S)
         /\ Len(SubSeq(s, 1, Len(s) - 1)) = Len(s) - 1
         /\ \A i \in 1..(Len(s) - 1) : SubSeq(s, 1, Len(s) - 1)[i] = s[i]
<1>1. Len(s) \in Nat \ {0} /\ \A i \in 1..(Len(s) - 1) : s[i] \in S
  BY LenProperties, ElementOfSeq
<1> DEFINE m == 1
           n == Len(s) - 1
<1>2. m \in Int /\ n \in Nat /\ m = 1 /\ \A i \in m..n : s[i] \in S
  <2>1. n \in Nat
    BY <1>1
  <2> QED
    BY <1>1, <2>1
<1> HIDE DEF m, n
<1>3. /\ SubSeq(s, m, n) \in Seq(S)
      /\ Len(SubSeq(s, m, n)) = IF m <= n THEN n - m + 1 ELSE 0
      /\ \A i \in 1..(n - m + 1) : SubSeq(s, m, n)[i] = s[m + i - 1]
  BY <1>2, SubSeqProperties
<1>4. n - m + 1 = n /\ (~(m <= n) => n = 0) /\ \A i \in 1..n : m + i - 1 = i
  BY <1>2
<1>5. Len(SubSeq(s, m, n)) = n /\ \A i \in 1..n : SubSeq(s, m, n)[i] = s[i]
  BY <1>3, <1>4
<1> QED
  BY <1>3, <1>5 DEF m, n

\* The end of a region inside a region.
LEMMA OJoinNestedInv ==
  ASSUME Followed, IInv', NEW t \in Thread, OJoinNested(t)
  PROVE  Followed'
<1> DEFINE x == ParallelEnd(OnThreadStop(ImplicitTaskEnd(seen[t], TaskDatum(t)), TRUE), TeamDatum(t))
           l == Len(frames[t])
<1>1. /\ IInv /\ TypeOK /\ PcInv /\ FlagInv /\ SlotInv /\ NestedInv /\ ViewInv
  BY DEF Followed, IInv
<1>2. /\ mode = "running" /\ mode' = mode /\ pc[t] = "ending" /\ l > 1
      /\ frames' = [frames EXCEPT ![t] = SubSeq(@, 1, Len(@) - 1)]
      /\ pc' = [pc EXCEPT ![t] = "body"]
      /\ UNCHANGED <<args, regions>>
      /\ seen' = [seen EXCEPT ![t] = x]
      /\ nested' = [nested EXCEPT ![t] = SubSeq(@, 1, Len(@) - 1)]
      /\ UNCHANGED <<registered, OMPT_ENABLED, begun, teamData, taskData, finalizer>>
  BY DEF OJoinNested, JoinNested, Leave
<1>3. Inside(t) /\ frames[t] \in Seq(Frame) /\ l \in Nat \ {0, 1} /\ Top(t) = frames[t][l].region
  <2>1. /\ frames[t] \in Seq(Frame) /\ l \in Nat
        /\ Inside(t) <=> l # 0
        /\ Inside(t) => Top(t) = frames[t][l].region
    BY <1>1, Stacks
  <2> QED
    BY <1>2, <2>1
<1> HIDE DEF l
<1>4. /\ frames'[t] = SubSeq(frames[t], 1, Len(frames[t]) - 1) /\ pc'[t] = "body"
      /\ \A u \in Thread : u # t => frames'[u] = frames[u] /\ pc'[u] = pc[u]
  BY <1>1, <1>2 DEF TypeOK
<1>5. /\ frames'[t] \in Seq(Frame) /\ Len(frames'[t]) = l - 1
      /\ \A i \in 1..(l - 1) : frames'[t][i] = frames[t][i]
  BY <1>3, <1>4, Popped DEF l
<1>6. /\ Inside(t)' /\ Bottom(t)' = Bottom(t)
      /\ \A u \in Thread : u # t => (Inside(u)' <=> Inside(u)) /\ Bottom(u)' = Bottom(u)
  <2>1. Len(frames'[t]) # 0 /\ 1 \in 1..(l - 1)
    BY <1>3, <1>5
  <2>2. frames'[t] # <<>>
    BY <1>5, <2>1, StackShape
  <2> QED
    BY <1>4, <1>5, <2>1, <2>2 DEF Inside, Bottom
<1>7. FlagInv'
  BY <1>1, <1>2 DEF FlagInv
<1>8. SlotInv'
  BY <1>1, <1>2, <1>3, <1>6, SlotKept
<1>9. NestedInv'
  <2> DEFINE Pair == [team : Nat, task : Nat]
  <2>1. nested \in [Thread -> Seq(Pair)] /\ nested[t] \in Seq(Pair) /\ Len(nested[t]) = l - 1
    BY <1>1, <1>3 DEF NestedInv, l
  <2>2. nested'[t] = SubSeq(nested[t], 1, Len(nested[t]) - 1) /\ \A u \in Thread : u # t => nested'[u] = nested[u]
    BY <1>2, <2>1
  <2> HIDE DEF Pair
  <2>3. /\ nested'[t] \in Seq(Pair) /\ Len(nested'[t]) = l - 2
        /\ \A i \in 1..(l - 2) : nested'[t][i] = nested[t][i]
    <3>1. Len(nested[t]) # 0 /\ (l - 1) - 1 = l - 2
      BY <1>3, <2>1
    <3>2. /\ nested'[t] \in Seq(Pair) /\ Len(nested'[t]) = Len(nested[t]) - 1
          /\ \A i \in 1..(Len(nested[t]) - 1) : nested'[t][i] = nested[t][i]
      <4> DEFINE q == nested[t]
      <4>1. q \in Seq(Pair) /\ Len(q) # 0 /\ nested'[t] = SubSeq(q, 1, Len(q) - 1)
        BY <2>1, <2>2, <3>1
      <4> HIDE DEF q
      <4>2. /\ SubSeq(q, 1, Len(q) - 1) \in Seq(Pair) /\ Len(SubSeq(q, 1, Len(q) - 1)) = Len(q) - 1
            /\ \A i \in 1..(Len(q) - 1) : SubSeq(q, 1, Len(q) - 1)[i] = q[i]
        BY <4>1, Popped
      <4> QED
        BY <4>1, <4>2 DEF q
    <3> QED
      BY <2>1, <3>1, <3>2
  <2>4. nested' \in [Thread -> Seq(Pair)]
    BY <1>2, <2>1, <2>2, <2>3
  <2>5. Len(nested'[t]) = IF Inside(t)' THEN Len(frames'[t]) - 1 ELSE 0
    <3>1. (l - 1) - 1 = l - 2
      BY <1>3
    <3> QED
      BY <1>5, <1>6, <2>3, <3>1
  <2>6. ASSUME NEW i \in 1..Len(nested'[t])
        PROVE  nested'[t][i].team = frames'[t][i + 1].region /\ nested'[t][i].task = frames'[t][i + 1].region
    <3>1. i \in 1..(l - 2) /\ i + 1 \in 1..(l - 1) /\ i \in 1..Len(nested[t])
      BY <1>3, <2>1, <2>3
    <3>2. nested[t][i].team = frames[t][i + 1].region /\ nested[t][i].task = frames[t][i + 1].region
      BY <1>1, <3>1 DEF NestedInv
    <3> QED
      BY <1>5, <2>3, <3>1, <3>2
  <2>7. ASSUME NEW u \in Thread
        PROVE  /\ Len(nested'[u]) = IF Inside(u)' THEN Len(frames'[u]) - 1 ELSE 0
               /\ \A i \in 1..Len(nested'[u]) :
                    nested'[u][i].team = frames'[u][i + 1].region /\ nested'[u][i].task = frames'[u][i + 1].region
    <3>1. CASE u = t
      BY <2>5, <2>6, <3>1
    <3>2. CASE u # t
      <4>1. (Inside(u)' <=> Inside(u)) /\ frames'[u] = frames[u] /\ nested'[u] = nested[u]
        BY <1>4, <1>6, <2>2, <3>2
      <4>2. /\ Len(nested[u]) = IF Inside(u) THEN Len(frames[u]) - 1 ELSE 0
            /\ \A i \in 1..Len(nested[u]) :
                 nested[u][i].team = frames[u][i + 1].region /\ nested[u][i].task = frames[u][i + 1].region
        BY <1>1 DEF NestedInv
      <4>3. Len(nested'[u]) = IF Inside(u)' THEN Len(frames'[u]) - 1 ELSE 0
        BY <4>1, <4>2
      <4> QED
        BY <4>1, <4>2, <4>3
    <3> QED
      BY <3>1, <3>2
  <2> QED
    BY <2>4, <2>7 DEF NestedInv, Pair
<1>10. IF registered THEN Mirrors(t, x, frames'[t], pc'[t], begun'[t]) ELSE x = <<>>
  <2>1. CASE registered
    <3> DEFINE r == frames[t][Len(frames[t])].region
    <3>1. TaskDatum(t) = r /\ TeamDatum(t) = r
      BY <1>1, <1>3, DataOfTop DEF l
    <3>2. x = End(End(seen[t], "implicit", r), "parallel", r)
      BY <1>1, <1>2, <2>1, <3>1 DEF FlagInv, ImplicitTaskEnd, ParallelEnd, OnThreadStop, Emits
    <3>3. Mirrors(t, seen[t], frames[t], pc[t], begun[t]) /\ begun[t] \in BOOLEAN
      BY <1>1, <1>2, <2>1 DEF ViewInv, FlagInv
    <3>4. Mirrors(t, End(End(seen[t], "implicit", r), "parallel", r), frames'[t], "body", begun[t])
      <4>1. /\ pc[t] # "barrier" /\ Len(frames[t]) # 0 /\ Len(frames[t]) > 1
            /\ Len(frames'[t]) = Len(frames[t]) - 1
            /\ \A n \in 1..Len(frames'[t]) : frames'[t][n].region = frames[t][n].region
        BY <1>2, <1>3, <1>5 DEF l
      <4> QED
        BY <1>3, <1>5, <3>3, <4>1, MirrorLeave
    <3> QED
      BY <1>2, <1>4, <2>1, <3>2, <3>4
  <2>2. CASE ~registered
    BY <1>1, <2>2 DEF ViewInv, FlagInv, ImplicitTaskEnd, ParallelEnd, OnThreadStop, Emits
  <2> QED
    BY <2>1, <2>2
<1>11. ViewInv'
  <2> HIDE DEF x
  <2> QED
    BY <1>1, <1>2, <1>4, <1>10, ViewStep DEF FlagInv
<1>12. NothingOpenAtEnd'
  BY <1>2 DEF NothingOpenAtEnd
<1> QED
  BY <1>7, <1>8, <1>9, <1>11, <1>12 DEF Followed

\* The end of a cached team's region.
LEMMA OJoinInv ==
  ASSUME Followed, IInv', OJoin
  PROVE  Followed'
<1> DEFINE t == InitialThread
           x == ParallelEnd(ImplicitTaskEnd(seen[t], TaskDatum(t)), TeamDatum(t))
<1>1. /\ IInv /\ TypeOK /\ FlagInv /\ SlotInv /\ NestedInv /\ ViewInv /\ t \in Thread
  BY ThreadIs DEF Followed, IInv
<1>2. /\ mode = "running" /\ mode' = mode /\ pc[t] = "ending" /\ Len(frames[t]) = 1
      /\ frames' = [frames EXCEPT ![t] = SubSeq(@, 1, Len(@) - 1)]
      /\ pc' = [pc EXCEPT ![t] = "outside"]
      /\ UNCHANGED <<args, regions>>
      /\ seen' = [seen EXCEPT ![t] = x]
      /\ UNCHANGED <<registered, OMPT_ENABLED, begun, teamData, taskData, nested, finalizer>>
  BY DEF OJoin, Join, Leave, data
<1>3. Inside(t) /\ frames[t] \in Seq(Frame) /\ Top(t) = frames[t][Len(frames[t])].region
  BY <1>1, <1>2, Stacks
<1>4. /\ frames'[t] = SubSeq(frames[t], 1, Len(frames[t]) - 1) /\ pc'[t] = "outside"
      /\ \A u \in Thread : u # t => frames'[u] = frames[u] /\ pc'[u] = pc[u]
  BY <1>1, <1>2 DEF TypeOK
<1>5. frames'[t] \in Seq(Frame) /\ Len(frames'[t]) = 0 /\ frames'[t] = <<>>
  <2>1. frames'[t] \in Seq(Frame) /\ Len(frames'[t]) = Len(frames[t]) - 1
    BY <1>2, <1>3, <1>4, Popped
  <2>2. Len(frames'[t]) = 0
    BY <1>2, <2>1
  <2> QED
    BY <2>1, <2>2, StackShape
<1>6. ~Inside(t)' /\ \A u \in Thread : u # t => (Inside(u)' <=> Inside(u)) /\ Bottom(u)' = Bottom(u)
  BY <1>4, <1>5 DEF Inside, Bottom
<1>7. FlagInv'
  BY <1>1, <1>2 DEF FlagInv
<1>8. SlotInv'
  BY <1>1, <1>2, <1>6, SlotKept
<1>9. NestedInv'
  <2>1. Len(nested[t]) = 0
    <3>1. Len(nested[t]) = Len(frames[t]) - 1
      BY <1>1, <1>3 DEF NestedInv
    <3> QED
      BY <1>2, <3>1
  <2>2. ASSUME NEW u \in Thread
        PROVE  /\ Len(nested[u]) = IF Inside(u)' THEN Len(frames'[u]) - 1 ELSE 0
               /\ \A i \in 1..Len(nested[u]) : frames'[u][i + 1].region = frames[u][i + 1].region
    <3>1. CASE u = t
      <4>1. \A i \in 1..Len(nested[t]) : FALSE
        BY <2>1
      <4> QED
        BY <1>6, <2>1, <3>1, <4>1
    <3>2. CASE u # t
      <4>1. (Inside(u)' <=> Inside(u)) /\ frames'[u] = frames[u]
        BY <1>4, <1>6, <3>2
      <4>2. Len(nested[u]) = IF Inside(u) THEN Len(frames[u]) - 1 ELSE 0
        BY <1>1 DEF NestedInv
      <4> QED
        BY <4>1, <4>2
    <3> QED
      BY <3>1, <3>2
  <2>3. nested' = nested
    BY <1>2
  <2> QED
    BY <1>1, <2>2, <2>3, NestedKept
<1>10. IF registered THEN Mirrors(t, x, frames'[t], pc'[t], begun'[t]) ELSE x = <<>>
  <2>1. CASE registered
    <3> DEFINE r == frames[t][Len(frames[t])].region
    <3>1. TaskDatum(t) = r /\ TeamDatum(t) = r
      BY <1>1, <1>3, DataOfTop
    <3>2. x = End(End(seen[t], "implicit", r), "parallel", r)
      BY <1>1, <1>2, <2>1, <3>1 DEF FlagInv, ImplicitTaskEnd, ParallelEnd, Emits
    <3>3. Mirrors(t, seen[t], frames[t], pc[t], begun[t]) /\ begun[t] \in BOOLEAN
      BY <1>1, <1>2, <2>1 DEF ViewInv, FlagInv
    <3>4. Mirrors(t, End(End(seen[t], "implicit", r), "parallel", r), frames'[t], "outside", begun[t])
      <4>1. /\ pc[t] # "barrier" /\ Len(frames[t]) # 0
            /\ Len(frames'[t]) = Len(frames[t]) - 1
            /\ \A n \in 1..Len(frames'[t]) : frames'[t][n].region = frames[t][n].region
        BY <1>2, <1>5
      <4> QED
        BY <1>3, <1>5, <3>3, <4>1, MirrorLeave
    <3> QED
      BY <1>2, <1>4, <2>1, <3>2, <3>4
  <2>2. CASE ~registered
    BY <1>1, <2>2 DEF ViewInv, FlagInv, ImplicitTaskEnd, ParallelEnd, Emits
  <2> QED
    BY <2>1, <2>2
<1>11. ViewInv'
  <2> HIDE DEF x
  <2> QED
    BY <1>1, <1>2, <1>4, <1>10, ViewStep DEF FlagInv
<1>12. NothingOpenAtEnd'
  BY <1>2 DEF NothingOpenAtEnd
<1> QED
  BY <1>7, <1>8, <1>9, <1>11, <1>12 DEF Followed

\* A barrier opens: every member of the team leaves its sync region.
LEMMA OBarrierInv ==
  ASSUME Followed, IInv', NEW r \in 1..Len(regions), OBarrier(r)
  PROVE  Followed'
<1>1. /\ IInv /\ TypeOK /\ FlagInv /\ SlotInv /\ NestedInv /\ ViewInv
  BY DEF Followed, IInv
<1>2. /\ TeamBarrier(r) /\ mode = "running" /\ mode' = mode
      /\ UNCHANGED <<args, regions>>
      /\ seen' = [t \in Thread |-> IF pc'[t] = pc[t] THEN seen[t] ELSE OnBarrierEnd(seen[t], TeamDatum(t))]
      /\ UNCHANGED <<registered, OMPT_ENABLED, begun, teamData, taskData, nested, finalizer>>
  BY DEF OBarrier, TeamBarrier, data
<1>3. /\ \A u \in Members(r) :
           /\ u \in Thread /\ Len(frames[u]) \in Nat \ {0} /\ frames[u][Len(frames[u])].region = r
           /\ pc[u] = "barrier"
           /\ pc'[u] = IF frames[u][Len(frames[u])].passed = Barriers THEN "ending" ELSE "body"
      /\ \A u \in Thread : u \notin Members(r) => frames'[u] = frames[u] /\ pc'[u] = pc[u]
      /\ \A u \in Thread :
           /\ frames'[u] \in Seq(Frame) /\ Len(frames'[u]) = Len(frames[u])
           /\ DOMAIN frames'[u] = DOMAIN frames[u]
           /\ \A i \in DOMAIN frames[u] : frames'[u][i].region = frames[u][i].region
           /\ Inside(u)' <=> Inside(u)
  BY <1>1, <1>2, BarrierFacts
<1>4. FlagInv'
  BY <1>1, <1>2 DEF FlagInv
<1>5. SlotInv'
  <2>1. ASSUME NEW u \in Thread, Inside(u)
        PROVE  Bottom(u)' = Bottom(u)
    <3>1. 1 \in DOMAIN frames[u]
      BY <1>1, <2>1, Stacks
    <3> QED
      BY <1>3, <3>1 DEF Bottom
  <2>2. \A u \in Thread :
          Inside(u)' => Inside(u) /\ Bottom(u)' = Bottom(u) /\ regions'[Bottom(u)].team = regions[Bottom(u)].team
    BY <1>2, <1>3, <2>1
  <2> QED
    BY <1>1, <1>2, <2>2, SlotKept
<1>6. NestedInv'
  <2>1. ASSUME NEW u \in Thread
        PROVE  /\ Len(nested[u]) = IF Inside(u)' THEN Len(frames'[u]) - 1 ELSE 0
               /\ \A i \in 1..Len(nested[u]) : frames'[u][i + 1].region = frames[u][i + 1].region
    <3>1. Len(nested[u]) = IF Inside(u) THEN Len(frames[u]) - 1 ELSE 0
      BY <1>1 DEF NestedInv
    <3>2. (Inside(u)' <=> Inside(u)) /\ Len(frames'[u]) = Len(frames[u])
      BY <1>3
    <3>3. \A i \in 1..Len(nested[u]) : i + 1 \in DOMAIN frames[u]
      <4>1. Len(frames[u]) \in Nat /\ DOMAIN frames[u] = 1..Len(frames[u])
        BY <1>1, Stacks
      <4> QED
        BY <3>1, <4>1
    <3> QED
      BY <1>3, <3>1, <3>2, <3>3
  <2>2. nested' = nested
    BY <1>2
  <2> QED
    BY <1>1, <2>1, <2>2, NestedKept
<1>7. ASSUME NEW u \in Thread, registered
      PROVE  Mirrors(u, seen'[u], frames'[u], pc'[u], begun[u])
  <2>1. Mirrors(u, seen[u], frames[u], pc[u], begun[u]) /\ begun[u] \in BOOLEAN
    BY <1>1, <1>2, <1>7 DEF ViewInv, FlagInv
  <2>2. CASE u \notin Members(r)
    <3>1. seen'[u] = seen[u] /\ frames'[u] = frames[u] /\ pc'[u] = pc[u]
      BY <1>2, <1>3, <2>2
    <3> QED
      BY <2>1, <3>1
  <2>3. CASE u \in Members(r)
    <3>1. /\ pc[u] = "barrier" /\ pc'[u] \in {"ending", "body"}
          /\ Len(frames[u]) \in Nat \ {0} /\ r = frames[u][Len(frames[u])].region
      BY <1>3, <2>3
    <3>2. pc'[u] # "barrier" /\ pc'[u] # pc[u]
      BY <3>1
    <3>3. frames[u] \in Seq(Frame) /\ Inside(u)
      BY <1>1, <3>1, Stacks
    <3>4. TeamDatum(u) = r
      BY <1>1, <3>1, <3>3, DataOfTop DEF Top
    <3>5. seen'[u] = End(End(seen[u], "wait", r), "sync", r)
      BY <1>2, <1>7, <3>2, <3>4 DEF OnBarrierEnd, Calls
    <3>6. /\ frames'[u] \in Seq(Frame) /\ Len(frames'[u]) = Len(frames[u])
          /\ \A n \in 1..Len(frames[u]) : frames'[u][n].region = frames[u][n].region
      BY <1>1, <1>3, Stacks
    <3>7. Mirrors(u, End(End(seen[u], "wait", r), "sync", r), frames'[u], pc'[u], begun[u])
      BY <2>1, <3>1, <3>2, <3>3, <3>6, MirrorRelease
    <3> QED
      BY <3>5, <3>7
  <2> QED
    BY <2>2, <2>3
<1>8. ViewInv'
  <2>1. ~registered => \A u \in Thread : seen'[u] = <<>>
    BY <1>1, <1>2 DEF ViewInv, OnBarrierEnd, Calls
  <2>2. ASSUME NEW u \in Thread
        PROVE  seen'[u] \in Seq(Scope)
    BY <1>7, <2>1, EmptySeq DEF Mirrors
  <2>3. seen' \in [Thread -> Seq(Scope)]
    BY <1>2, <2>2
  <2>4. \A u \in Thread : registered => Mirrors(u, seen[u], frames[u], pc[u], begun[u])'
    BY <1>2, <1>7 DEF Mirrors, Height, Bias
  <2> QED
    BY <1>2, <2>1, <2>3, <2>4 DEF ViewInv
<1>9. NothingOpenAtEnd'
  BY <1>2 DEF NothingOpenAtEnd
<1> QED
  BY <1>4, <1>5, <1>6, <1>8, <1>9 DEF Followed

\* The program ends: the initial thread's own scopes are the only ones left.
LEMMA OExitInv ==
  ASSUME Followed, IInv', OExit
  PROVE  Followed'
<1> DEFINE t == InitialThread
           x == End(End(seen[t], "initial", 0), "thread", 0)
<1>1. /\ IInv /\ TypeOK /\ PcInv /\ WorkerInv /\ FlagInv /\ SlotInv /\ NestedInv /\ ViewInv /\ t \in Thread
  BY ThreadIs DEF Followed, IInv
<1>2. /\ mode = "running" /\ mode' = "exited" /\ pc[t] = "outside"
      /\ UNCHANGED <<pc, frames, args, regions, registered, teamData, taskData, nested, finalizer>>
      /\ ~OMPT_ENABLED'
      /\ IF OMPT_ENABLED THEN /\ seen' = [seen EXCEPT ![t] = x]
                              /\ begun' = [begun EXCEPT ![t] = FALSE]
                         ELSE UNCHANGED <<seen, begun>>
      /\ OMPT_ENABLED = registered
  BY <1>1 DEF OExit, DoFinalize, InitialTaskEnd, Exit, data, FlagInv
<1>3. \A u \in Thread : frames[u] = <<>> /\ pc[u] # "barrier"
  <2>1. ~Inside(t)
    BY <1>1, <1>2 DEF PcInv
  <2>2. \A w \in Worker : ~Inside(w) /\ pc[w] = "parked"
    BY <1>1, <2>1 DEF WorkerInv, PcInv
  <2> QED
    BY <1>2, <2>1, <2>2, ThreadIs DEF Inside
<1>4. FlagInv'
  <2>1. OMPT_ENABLED' = FALSE
    BY <1>1, <1>2 DEF OExit, DoFinalize, FlagInv
  <2>2. begun' \in [Thread -> BOOLEAN]
    BY <1>1, <1>2 DEF FlagInv
  <2> QED
    BY <1>1, <1>2, <2>1, <2>2 DEF FlagInv
<1>5. SlotInv' /\ NestedInv'
  BY <1>1, <1>2 DEF SlotInv, NestedInv, Inside, Bottom
<1>6. ASSUME registered
      PROVE  x = <<>>
  <2> DEFINE v == seen[t]
             u == End(v, "initial", 0)
  <2>1. Mirrors(t, v, frames[t], pc[t], begun[t])
    BY <1>1, <1>2, <1>6 DEF ViewInv
  <2>2. v \in Seq(Scope) /\ Len(v) = 2 /\ v[1] = <<"thread", 0>> /\ v[2] = <<"initial", 0>>
    <3>1. Len(<<>>) = 0
      BY EmptySeq
    <3>2. Height(t, frames[t], begun[t]) = 2 /\ Height(t, frames[t], begun[t]) + 0 = 2
      BY <1>1, <1>3, <3>1 DEF Height, Bias
    <3> QED
      BY <1>1, <1>3, <2>1, <3>2 DEF Mirrors
  <2> HIDE DEF v
  <2>3. u \in Seq(Scope) /\ Len(u) = 1 /\ u[1] = <<"thread", 0>>
    <3>1. "initial" \in Kind /\ 0 \in Nat /\ Len(v) # 0 /\ v[Len(v)] = <<"initial", 0>>
      BY <2>2 DEF Kind
    <3>2. /\ u \in Seq(Scope) /\ Len(u) = Len(v) - 1
          /\ \A i \in 1..(Len(v) - 1) : u[i] = v[i]
      BY <2>2, <3>1, EndScope
    <3> QED
      BY <2>2, <3>2
  <2> HIDE DEF u
  <2>4. End(u, "thread", 0) \in Seq(Scope) /\ Len(End(u, "thread", 0)) = 0
    <3>1. "thread" \in Kind /\ 0 \in Nat /\ Len(u) # 0 /\ u[Len(u)] = <<"thread", 0>>
      BY <2>3 DEF Kind
    <3>2. End(u, "thread", 0) \in Seq(Scope) /\ Len(End(u, "thread", 0)) = Len(u) - 1
      BY <2>3, <3>1, EndScope
    <3> QED
      BY <2>3, <3>2
  <2>5. End(u, "thread", 0) = <<>>
    BY <2>4, EmptySeq, ViewShape
  <2> QED
    BY <2>5 DEF u, v
<1>7. ASSUME registered, NEW w \in Worker
      PROVE  seen[w] \in {<<>>, <<<<"thread", 0>>>>}
  <2> DEFINE v == seen[w]
  <2>1. Mirrors(w, v, frames[w], pc[w], begun[w]) /\ w # t /\ begun[w] \in BOOLEAN
    BY <1>1, <1>2, <1>7, ThreadIs DEF ViewInv, FlagInv
  <2>2. frames[w] = <<>> /\ pc[w] # "barrier"
    BY <1>3, ThreadIs
  <2> HIDE DEF v
  <2>3. CASE begun[w]
    <3>1. Height(w, frames[w], begun[w]) = 1 /\ Height(w, frames[w], begun[w]) + 0 = 1
      BY <2>1, <2>2, <2>3 DEF Height
    <3>2. v \in Seq(Scope) /\ Len(v) = 1 /\ v[1] = <<"thread", 0>>
      BY <2>1, <2>2, <2>3, <3>1 DEF Mirrors
    <3>3. v = <<<<"thread", 0>>>>
      <4> DEFINE e == <<"thread", 0>>
      <4>1. e \in Scope /\ v[1] = e
        BY <3>2 DEF Scope, Kind
      <4> HIDE DEF e
      <4>2. v = <<e>>
        BY <3>2, <4>1
      <4> QED
        BY <4>2 DEF e
    <3> QED
      BY <3>3 DEF v
  <2>4. CASE ~begun[w]
    <3>1. Height(w, frames[w], begun[w]) = 0 /\ Height(w, frames[w], begun[w]) + 0 = 0
      BY <2>1, <2>2, <2>4 DEF Height
    <3>2. v \in Seq(Scope) /\ Len(v) = 0
      BY <2>1, <2>2, <3>1 DEF Mirrors
    <3> QED
      BY <3>2, ViewShape DEF v
  <2> QED
    BY <2>1, <2>3, <2>4
<1> HIDE DEF x
<1>8. NothingOpenAtEnd'
  <2>1. CASE registered
    <3>1. seen'[t] = x /\ \A w \in Worker : seen'[w] = seen[w]
      BY <1>1, <1>2, <2>1, ThreadIs DEF ViewInv
    <3> QED
      BY <1>6, <1>7, <2>1, <3>1 DEF NothingOpenAtEnd
  <2>2. CASE ~registered
    <3>1. \A u \in Thread : seen'[u] = <<>>
      BY <1>1, <1>2, <2>2 DEF ViewInv
    <3> QED
      BY <3>1, ThreadIs DEF NothingOpenAtEnd
  <2> QED
    BY <2>1, <2>2
<1>9. ViewInv'
  <2>1. <<>> \in Seq(Scope)
    BY EmptySeq
  <2>2. seen' \in [Thread -> Seq(Scope)]
    BY <1>1, <1>2, <1>6, <2>1 DEF ViewInv
  <2>3. ~registered => \A u \in Thread : seen'[u] = <<>>
    BY <1>1, <1>2 DEF ViewInv
  <2> QED
    BY <1>2, <2>2, <2>3 DEF ViewInv
<1> QED
  BY <1>4, <1>5, <1>8, <1>9 DEF Followed

LEMMA OStutterInv ==
  ASSUME Followed, IInv', UNCHANGED ovars
  PROVE  Followed'
<1>1. UNCHANGED <<pc, frames, pushed, teams, args, todo, regions, live, mode>>
  BY DEF ovars, vars
<1>2. UNCHANGED <<registered, OMPT_ENABLED, begun, teamData, taskData, nested, seen, finalizer>>
  BY DEF ovars, ompt, data
<1>3. FlagInv' /\ SlotInv' /\ NestedInv'
  BY <1>1, <1>2 DEF Followed, FlagInv, SlotInv, NestedInv, Inside, Bottom
<1>4. ViewInv' /\ NothingOpenAtEnd'
  BY <1>1, <1>2 DEF Followed, ViewInv, NothingOpenAtEnd, Mirrors, Height, Bias
<1> QED
  BY <1>3, <1>4 DEF Followed

LEMMA FollowedInit ==
  ASSUME OInit, registered
  PROVE  Followed
<1>1. IInv
  BY InitInv DEF OInit
<1>2. /\ mode = "running" /\ pc = [t \in Thread |-> IF t = InitialThread THEN "outside" ELSE "parked"]
      /\ frames = [t \in Thread |-> <<>>] /\ args = [k \in Keys |-> 0]
      /\ registered \in BOOLEAN /\ OMPT_ENABLED = registered
      /\ begun = [t \in Thread |-> registered /\ t = InitialThread]
      /\ teamData = [k \in Keys |-> 0]
      /\ taskData = [t \in Thread |-> [k \in Keys |-> 0]]
      /\ nested = [t \in Thread |-> <<>>]
      /\ finalizer = {}
      /\ seen = [t \in Thread |-> IF begun[t] THEN <<<<"thread", 0>>, <<"initial", 0>>>> ELSE <<>>]
  BY DEF OInit, Init
<1>3. \A t \in Thread : frames[t] = <<>> /\ ~Inside(t)
  BY <1>2 DEF Inside
<1>4. Len(<<>>) = 0
  BY EmptySeq
<1>5. FlagInv
  BY <1>2 DEF FlagInv
<1>6. SlotInv
  BY <1>2, <1>3, ThreadIs DEF SlotInv
<1>7. NestedInv
  <2>1. nested \in [Thread -> Seq([team : Nat, task : Nat])]
    BY <1>2, EmptySeq
  <2>2. \A t \in Thread : Len(nested[t]) = 0
    BY <1>2, <1>4
  <2>3. \A t \in Thread : \A i \in 1..Len(nested[t]) : FALSE
    BY <2>2
  <2> QED
    BY <1>3, <2>1, <2>2, <2>3 DEF NestedInv
<1> DEFINE e == <<"thread", 0>>
           f == <<"initial", 0>>
<1>8. e \in Scope /\ f \in Scope /\ e[1] = "thread" /\ f[1] = "initial"
  BY DEF Scope, Kind
<1> HIDE DEF e, f
<1>9. \A t \in Thread : seen[t] = IF registered /\ t = InitialThread THEN <<e, f>> ELSE <<>>
  BY <1>2 DEF e, f
<1>10. /\ <<e, f>> \in Seq(Scope) /\ Len(<<e, f>>) = 2 /\ <<e, f>>[1] = e /\ <<e, f>>[2] = f
       /\ <<>> \in Seq(Scope)
  BY <1>8, EmptySeq
<1>11. ASSUME registered
       PROVE  Mirrors(InitialThread, <<e, f>>, <<>>, "outside", begun[InitialThread])
  <2> DEFINE v == <<e, f>>
             b == begun[InitialThread]
  <2>1. \A i \in 1..Len(v) : v[i][1] # "unmatched" /\ v[i][1] # "implicit"
    BY <1>8, <1>10
  <2>2. \A n \in 1..Len(<<>>) : FALSE
    BY <1>4
  <2> HIDE DEF v, b
  <2>3. Height(InitialThread, <<>>, b) = 2 /\ Height(InitialThread, <<>>, b) + 0 = 2
    BY <1>4 DEF Height, Bias
  <2>4. v[1] = <<"thread", 0>> /\ v[2] = <<"initial", 0>> /\ v \in Seq(Scope) /\ Len(v) = 2
    BY <1>10 DEF v, e, f
  <2>5. Mirrors(InitialThread, v, <<>>, "outside", b)
    BY <2>1, <2>2, <2>3, <2>4 DEF Mirrors
  <2> QED
    BY <2>5 DEF v, b
<1>12. ASSUME NEW w \in Worker
       PROVE  Mirrors(w, <<>>, <<>>, "parked", begun[w])
  <2>1. ~begun[w] /\ w # InitialThread
    BY <1>2, ThreadIs
  <2>2. Height(w, <<>>, begun[w]) = 0 /\ Height(w, <<>>, begun[w]) + 0 = 0
    BY <2>1 DEF Height
  <2>3. \A n \in 1..Len(<<>>) : FALSE
    BY <1>4
  <2> QED
    BY <1>4, <1>10, <2>1, <2>2, <2>3 DEF Mirrors
<1>13. ASSUME registered, NEW t \in Thread
       PROVE  Mirrors(t, seen[t], frames[t], pc[t], begun[t])
  <2>1. CASE t = InitialThread
    BY <1>2, <1>3, <1>9, <1>11, <1>13, <2>1
  <2>2. CASE t # InitialThread
    BY <1>2, <1>3, <1>9, <1>12, <2>2, ThreadIs
  <2> QED
    BY <2>1, <2>2
<1>14. ViewInv
  <2>1. seen \in [Thread -> Seq(Scope)]
    <3>1. \A t \in Thread : seen[t] \in Seq(Scope)
      BY <1>9, <1>10
    <3> QED
      BY <1>2, <3>1
  <2> QED
    BY <1>9, <1>13, <2>1 DEF ViewInv
<1>15. NothingOpenAtEnd
  BY <1>2 DEF NothingOpenAtEnd
<1> QED
  BY <1>1, <1>5, <1>6, <1>7, <1>14, <1>15 DEF Followed

LEMMA FollowedStep ==
  ASSUME Followed, [ONext]_ovars, \A t \in Finalizing : ~FinalizeTool(t)
  PROVE  Followed'
<1>1. IInv'
  BY StepOfTeam, NextInv DEF Followed
<1>2. ASSUME NEW t \in Thread, OConstructs(t)
      PROVE  Followed'
  BY <1>1, <1>2, OPushInv, OForkNestedInv, OForkInv DEF OConstructs
<1>3. ASSUME NEW t \in Thread, OProceeds(t)
      PROVE  Followed'
  BY <1>1, <1>3, OArriveInv, OJoinNestedInv, ThreadStartInv, ODispatchedInv, OParkInv, OJoinInv DEF OProceeds
<1>4. ASSUME NEW r \in 1..Len(regions), OBarrier(r)
      PROVE  Followed'
  BY <1>1, <1>4, OBarrierInv
<1>5. CASE OExit
  BY <1>1, <1>5, OExitInv
<1>6. CASE ODone \/ UNCHANGED ovars
  BY <1>1, <1>6, OStutterInv DEF ODone, Done, ovars
<1> QED
  BY <1>2, <1>3, <1>4, <1>5, <1>6 DEF ONext

-------------------------------------------------------------------------------
(* Without a tool.                                                         *)

LEMMA SilentStep ==
  ASSUME Quiet, [ONext]_ovars
  PROVE  Quiet'
<1> DEFINE Kept == UNCHANGED <<registered, OMPT_ENABLED, finalizer, seen>>
<1>1. IInv'
  BY StepOfTeam, NextInv DEF Quiet
<1>2. ASSUME NEW t \in Thread, seen' = [seen EXCEPT ![t] = seen[t]]
      PROVE  seen' = seen
  BY <1>2 DEF Quiet
<1>3. ASSUME NEW t \in Thread, OConstructs(t)
      PROVE  Kept
  BY <1>2, <1>3 DEF OConstructs, OPush, OForkNested, OFork, ImplicitTaskBegin, ParallelBegin, Emits, Quiet, ompt
<1>4. ASSUME NEW t \in Thread, OProceeds(t)
      PROVE  Kept
  <2>1. OArrive(t) \/ OJoinNested(t) => Kept
    BY <1>2 DEF OArrive, OJoinNested, OnBarrierBegin, ImplicitTaskEnd, ParallelEnd, OnThreadStop, Emits, Calls, Quiet
  <2>2. t \in Worker /\ (ThreadStart(t) \/ ODispatched(t) \/ OPark(t)) => Kept
    BY <1>2 DEF ThreadStart, ODispatched, OPark, ImplicitTaskBegin, ImplicitTaskEnd, Emits, Quiet
  <2>3. t = InitialThread /\ OJoin => Kept
    BY <1>2 DEF OJoin, ImplicitTaskEnd, ParallelEnd, Emits, Quiet
  <2> QED
    BY <1>4, <2>1, <2>2, <2>3 DEF OProceeds
<1>5. ASSUME NEW r \in 1..Len(regions), OBarrier(r)
      PROVE  Kept
  BY <1>5 DEF OBarrier, OnBarrierEnd, Calls, Quiet
<1>6. ASSUME NEW t \in Finalizing, FinalizeTool(t)
      PROVE  FALSE
  BY <1>6 DEF FinalizeTool, Quiet
<1>7. OExit => Kept
  BY DEF OExit, Quiet
<1>8. ODone \/ UNCHANGED ovars => Kept
  BY DEF ODone, ovars, ompt
<1>9. Kept
  BY <1>3, <1>4, <1>5, <1>6, <1>7, <1>8 DEF ONext
<1> QED
  BY <1>1, <1>9 DEF Quiet

-------------------------------------------------------------------------------
(* After the tool has finalised itself.                                    *)

LEMMA FinalizeToolLate ==
  ASSUME Followed, NEW t \in Finalizing, FinalizeTool(t)
  PROVE  Late'
<1>1. /\ IInv /\ TypeOK /\ FlagInv /\ SlotInv /\ NestedInv /\ ViewInv
  BY DEF Followed, IInv
<1>2. t \in Thread /\ UNCHANGED <<pc, frames, pushed, teams, args, todo, regions, live, mode>>
      /\ mode = "running" /\ ~OMPT_ENABLED' /\ finalizer' = {t} /\ registered' = registered
      /\ UNCHANGED <<teamData, taskData, nested>>
      /\ seen' = [u \in Thread |-> seen'[u]] /\ DOMAIN begun' = Thread
      /\ \A u \in Thread : u # t => seen'[u] = seen[u] /\ begun'[u] = begun[u]
  BY <1>1, FinalizingAssumption DEF FinalizeTool, DoFinalize, vars, data, ViewInv, FlagInv
<1>3. IInv'
  BY <1>1, StepOfTeam, NextInv DEF ONext
<1>4. registered /\ DOMAIN nested = Thread /\ teamData \in [Keys -> Nat]
  <2>1. teamData \in [Keys -> 0..MaxRegions]
    BY <1>1 DEF SlotInv, TypeOK
  <2>2. 0..MaxRegions \subseteq Nat
    BY BoundAssumption
  <2> QED
    BY <1>1, <2>1, <2>2 DEF FlagInv, ViewInv, NestedInv
<1>5. ASSUME NEW u \in Thread, u # t
      PROVE  LateView(u)'
  <2>1. Mirrors(u, seen[u], frames[u], pc[u], begun[u]) /\ seen[u] \in Seq(Scope)
    BY <1>1, <1>2, <1>4 DEF ViewInv
  <2>2. seen'[u] = seen[u] /\ pc'[u] = pc[u] /\ TeamDatum(u)' = TeamDatum(u)
    BY <1>2, <1>5 DEF TeamDatum, Top
  <2>3. ASSUME pc[u] = "barrier"
        PROVE  /\ Len(seen[u]) >= 2
               /\ seen[u][Len(seen[u]) - 1] = <<"sync", TeamDatum(u)>>
               /\ seen[u][Len(seen[u])] = <<"wait", TeamDatum(u)>>
    <3> DEFINE h == Height(u, frames[u], begun[u])
               s == frames[u]
    <3>1. Inside(u) /\ s # <<>> /\ Len(s) \in Nat \ {0}
      BY <1>1, <2>1, <2>3, Stacks DEF Mirrors, Inside
    <3>2. TeamDatum(u) = s[Len(s)].region
      BY <1>1, <3>1, DataOfTop DEF Top
    <3>3. h = Bias(u) + 2 * Len(s) /\ Bias(u) \in Nat
      BY <3>1 DEF Height, Bias
    <3>4. Len(seen[u]) = h + 2
      BY <2>1, <2>3 DEF Mirrors
    <3> HIDE DEF h
    <3>5. Len(seen[u]) >= 2
      BY <3>1, <3>3, <3>4
    <3> QED
      BY <2>1, <2>3, <3>2, <3>5 DEF Mirrors
  <2>4. \A i \in 1..Len(seen[u]) : seen[u][i][1] # "unmatched"
    BY <2>1 DEF Mirrors
  <2>5. \E S : seen'[u] \in Seq(S)
    BY <2>1, <2>2
  <2>6. u # InitialThread /\ Inside(u)' => begun'[u]
    BY <1>2, <1>5, <2>1 DEF Mirrors, Inside
  <2> QED
    BY <2>2, <2>3, <2>4, <2>5, <2>6 DEF LateView
<1> QED
  BY <1>2, <1>3, <1>4, <1>5 DEF Late

\* A step on which nothing is told, and nobody arrives at a barrier.
LEMMA LateKept ==
  ASSUME Late, IInv', UNCHANGED <<registered, OMPT_ENABLED, finalizer, teamData, seen, begun>>,
         DOMAIN nested' = Thread,
         \A u \in Thread : u # InitialThread /\ Inside(u)' => Inside(u) \/ begun[u] \/ u \in finalizer,
         \A u \in Thread : pc'[u] = "barrier" =>
           /\ pc[u] = "barrier" /\ Top(u)' = Top(u) /\ nested'[u] = nested[u]
           /\ regions'[Top(u)].team = regions[Top(u)].team
  PROVE  Late'
<1>1. ASSUME NEW u \in Thread \ finalizer
      PROVE  LateView(u)'
  <2>1. LateView(u) /\ seen'[u] = seen[u]
    BY DEF Late
  <2>2. pc'[u] = "barrier" => pc[u] = "barrier" /\ TeamDatum(u)' = TeamDatum(u)
    BY DEF TeamDatum
  <2> QED
    BY <2>1, <2>2 DEF LateView
<1> QED
  BY <1>1 DEF Late

\* A thread is told that a barrier begins.
LEMMA LateBegin ==
  ASSUME NEW S, NEW v \in Seq(S), NEW kind, NEW d, kind # "unmatched",
         \A i \in 1..Len(v) : v[i][1] # "unmatched"
  PROVE  /\ \E T : Begin(v, kind, d) \in Seq(T)
         /\ Len(v) \in Nat /\ Len(Begin(v, kind, d)) = Len(v) + 1
         /\ Begin(v, kind, d)[Len(v) + 1] = <<kind, d>>
         /\ \A i \in 1..Len(v) : Begin(v, kind, d)[i] = v[i]
         /\ \A i \in 1..Len(Begin(v, kind, d)) : Begin(v, kind, d)[i][1] # "unmatched"
<1> DEFINE e == <<kind, d>>
           T == S \cup {e}
           w == Append(v, e)
<1>1. Begin(v, kind, d) = w
  BY DEF Begin
<1>2. Len(v) \in Nat /\ v \in Seq(T)
  <2>1. S \subseteq T
    OBVIOUS
  <2>2. PICK n \in Nat : v \in [1..n -> S]
    BY SeqDef
  <2>3. v \in [1..n -> T]
    BY <2>1, <2>2
  <2> HIDE DEF T
  <2> QED
    BY <2>2, <2>3, SeqDef, LenProperties
<1>3. e \in T /\ e[1] = kind
  OBVIOUS
<1> HIDE DEF e, T
<1>4. /\ w \in Seq(T) /\ Len(w) = Len(v) + 1
      /\ \A i \in 1..Len(v) : w[i] = v[i]
      /\ w[Len(v) + 1] = e
  BY <1>2, <1>3, AppendProperties
<1> HIDE DEF w
<1>5. \A i \in 1..Len(w) : w[i][1] # "unmatched"
  <2> SUFFICES ASSUME NEW i \in 1..Len(w)
               PROVE  w[i][1] # "unmatched"
    OBVIOUS
  <2>1. i \in 1..Len(v) \/ i = Len(v) + 1
    BY <1>2, <1>4
  <2> QED
    BY <1>3, <1>4, <2>1
<1> QED
  BY <1>1, <1>2, <1>4, <1>5 DEF e

\* It is told that the innermost scope ends.
LEMMA LateEnd ==
  ASSUME NEW S, NEW v \in Seq(S), NEW kind, NEW d, Len(v) # 0, v[Len(v)] = <<kind, d>>,
         \A i \in 1..Len(v) : v[i][1] # "unmatched"
  PROVE  /\ End(v, kind, d) \in Seq(S)
         /\ Len(v) \in Nat /\ Len(End(v, kind, d)) = Len(v) - 1
         /\ \A i \in 1..(Len(v) - 1) : End(v, kind, d)[i] = v[i]
         /\ \A i \in 1..Len(End(v, kind, d)) : End(v, kind, d)[i][1] # "unmatched"
<1>1. Len(v) \in Nat /\ v # <<>>
  <2>1. Len(v) \in Nat
    BY LenProperties
  <2> QED
    BY <2>1, EmptySeq
<1>2. End(v, kind, d) = SubSeq(v, 1, Len(v) - 1)
  BY <1>1 DEF End
<1>3. /\ SubSeq(v, 1, Len(v) - 1) \in Seq(S)
      /\ Len(SubSeq(v, 1, Len(v) - 1)) = Len(v) - 1
      /\ \A i \in 1..(Len(v) - 1) : SubSeq(v, 1, Len(v) - 1)[i] = v[i]
  BY Popped
<1> DEFINE w == SubSeq(v, 1, Len(v) - 1)
<1> HIDE DEF w
<1>4. \A i \in 1..Len(w) : w[i][1] # "unmatched"
  <2>1. Len(w) = Len(v) - 1 /\ \A i \in 1..(Len(v) - 1) : w[i] = v[i]
    BY <1>3 DEF w
  <2>2. \A i \in 1..Len(w) : i \in 1..Len(v) /\ i \in 1..(Len(v) - 1)
    BY <1>1, <2>1
  <2> QED
    BY <2>1, <2>2
<1> QED
  BY <1>1, <1>2, <1>3, <1>4 DEF w

LEMMA LateArrive ==
  ASSUME Late, IInv', NEW t \in Thread, OArrive(t)
  PROVE  Late'
<1>1. /\ UNCHANGED <<frames, teams, args, todo, regions, live, mode>>
      /\ UNCHANGED <<registered, OMPT_ENABLED, finalizer, teamData, nested, begun>>
      /\ pc' = [pc EXCEPT ![t] = "barrier"]
      /\ seen' = [seen EXCEPT ![t] = Begin(Begin(seen[t], "sync", TeamDatum(t)), "wait", TeamDatum(t))]
  BY DEF OArrive, Arrive, data, Late, OnBarrierBegin, Calls
<1>2. TypeOK /\ seen = [u \in Thread |-> seen[u]]
  BY DEF Late, IInv
<1>3. \A u \in Thread : u # t => pc'[u] = pc[u] /\ seen'[u] = seen[u]
  BY <1>1, <1>2 DEF TypeOK
<1>4. \A u \in Thread : TeamDatum(u)' = TeamDatum(u)
  BY <1>1 DEF TeamDatum, Top
<1>5. ASSUME t \notin finalizer
      PROVE  LateView(t)'
  <2> DEFINE d == TeamDatum(t)
             v == seen[t]
             w == Begin(v, "sync", d)
             x == Begin(w, "wait", d)
  <2>1. PICK S : v \in Seq(S)
    BY <1>5 DEF Late, LateView
  <2>2. \A i \in 1..Len(v) : v[i][1] # "unmatched"
    BY <1>5 DEF Late, LateView
  <2>3. seen'[t] = x
    BY <1>1, <1>2
  <2> HIDE DEF v, d
  <2>4. /\ \E T : w \in Seq(T)
        /\ Len(v) \in Nat /\ Len(w) = Len(v) + 1 /\ w[Len(v) + 1] = <<"sync", d>>
        /\ \A i \in 1..Len(w) : w[i][1] # "unmatched"
    BY <2>1, <2>2, LateBegin
  <2> HIDE DEF w
  <2>5. PICK T : w \in Seq(T)
    BY <2>4
  <2>6. /\ \E U : x \in Seq(U)
        /\ Len(x) = Len(w) + 1 /\ x[Len(w) + 1] = <<"wait", d>>
        /\ \A i \in 1..Len(w) : x[i] = w[i]
        /\ \A i \in 1..Len(x) : x[i][1] # "unmatched"
    BY <2>4, <2>5, LateBegin
  <2> HIDE DEF x
  <2>7. Len(x) >= 2 /\ x[Len(x) - 1] = <<"sync", d>> /\ x[Len(x)] = <<"wait", d>>
    <3>1. Len(x) - 1 = Len(w) /\ Len(w) \in 1..Len(w) /\ Len(x) = Len(w) + 1 /\ Len(w) = Len(v) + 1 /\ Len(x) >= 2
      BY <2>4, <2>6
    <3> QED
      BY <2>4, <2>6, <3>1
  <2> QED
    BY <1>1, <1>4, <1>5, <2>3, <2>6, <2>7 DEF Late, LateView, Inside, d
<1>6. ASSUME NEW u \in Thread \ finalizer, u # t
      PROVE  LateView(u)'
  <2>1. LateView(u)
    BY DEF Late
  <2> QED
    BY <1>1, <1>3, <1>4, <1>6, <2>1 DEF LateView, Inside
<1>7. seen' = [u \in Thread |-> seen'[u]]
  BY <1>1, <1>2
<1> QED
  BY <1>1, <1>5, <1>6, <1>7 DEF Late

LEMMA LateStart ==
  ASSUME Late, IInv', NEW w \in Worker, ThreadStart(w)
  PROVE  Late'
<1>1. /\ UNCHANGED <<pc, frames, teams, args, todo, regions, live, mode>>
      /\ UNCHANGED <<registered, OMPT_ENABLED, finalizer, teamData, nested>>
      /\ seen' = [seen EXCEPT ![w] = Begin(seen[w], "thread", 0)]
      /\ begun' = [begun EXCEPT ![w] = TRUE]
  BY DEF ThreadStart, vars, data, Late, OnThreadStart, Calls
<1>2. /\ TypeOK /\ PcInv /\ seen = [u \in Thread |-> seen[u]] /\ DOMAIN begun = Thread
      /\ w \in Thread /\ w # InitialThread /\ ~begun[w] /\ w \notin finalizer
  BY ThreadIs DEF Late, IInv, ThreadStart
<1>3. \A u \in Thread : TeamDatum(u)' = TeamDatum(u) /\ (Inside(u)' <=> Inside(u))
  BY <1>1 DEF TeamDatum, Top, Inside
<1>4. LateView(w) /\ pc'[w] = "parked"
  <2>1. LateView(w)
    BY <1>2 DEF Late
  <2>2. ~Inside(w)
    BY <1>2, <2>1 DEF LateView
  <2> QED
    BY <1>1, <1>2, <2>1, <2>2 DEF PcInv
<1>5. LateView(w)'
  <2>1. PICK S : seen[w] \in Seq(S)
    BY <1>4 DEF LateView
  <2>2. \A i \in 1..Len(seen[w]) : seen[w][i][1] # "unmatched"
    BY <1>4 DEF LateView
  <2>3. /\ \E T : Begin(seen[w], "thread", 0) \in Seq(T)
        /\ \A i \in 1..Len(Begin(seen[w], "thread", 0)) : Begin(seen[w], "thread", 0)[i][1] # "unmatched"
    BY <2>1, <2>2, LateBegin
  <2>4. seen'[w] = Begin(seen[w], "thread", 0) /\ begun'[w]
    BY <1>1, <1>2
  <2> QED
    BY <1>4, <2>3, <2>4 DEF LateView
<1>6. ASSUME NEW u \in Thread \ finalizer, u # w
      PROVE  LateView(u)'
  <2>1. LateView(u) /\ seen'[u] = seen[u] /\ begun'[u] = begun[u]
    BY <1>1, <1>2, <1>6 DEF Late
  <2> QED
    BY <1>1, <1>3, <2>1 DEF LateView
<1>7. seen' = [u \in Thread |-> seen'[u]] /\ DOMAIN begun' = Thread
  BY <1>1, <1>2
<1> QED
  BY <1>1, <1>5, <1>6, <1>7 DEF Late

LEMMA LateBarrier ==
  ASSUME Late, IInv', NEW r \in 1..Len(regions), OBarrier(r)
  PROVE  Late'
<1>1. IInv /\ TypeOK
  BY DEF Late, IInv
<1>2. /\ TeamBarrier(r) /\ UNCHANGED regions
      /\ seen' = [t \in Thread |-> IF pc'[t] = pc[t] THEN seen[t]
                                  ELSE End(End(seen[t], "wait", TeamDatum(t)), "sync", TeamDatum(t))]
      /\ UNCHANGED <<registered, OMPT_ENABLED, finalizer, teamData, nested, begun>>
  BY DEF OBarrier, TeamBarrier, data, Late, OnBarrierEnd, Calls
<1>3. \A u \in Thread :
        /\ pc'[u] # pc[u] => pc[u] = "barrier" /\ pc'[u] # "barrier"
        /\ pc'[u] = "barrier" => frames'[u] = frames[u]
        /\ Inside(u)' <=> Inside(u)
  BY <1>1, <1>2, BarrierFacts
<1>4. ASSUME NEW u \in Thread \ finalizer
      PROVE  LateView(u)'
  <2>1. LateView(u)
    BY DEF Late
  <2>2. CASE pc'[u] = pc[u]
    <3>1. seen'[u] = seen[u] /\ begun'[u] = begun[u]
      BY <1>2, <2>2
    <3>2. pc'[u] = "barrier" => TeamDatum(u)' = TeamDatum(u)
      BY <1>2, <1>3 DEF TeamDatum, Top
    <3> QED
      BY <1>3, <2>1, <2>2, <3>1, <3>2 DEF LateView
  <2>3. CASE pc'[u] # pc[u]
    <3> DEFINE d == TeamDatum(u)
               v == seen[u]
               w == End(v, "wait", d)
               x == End(w, "sync", d)
    <3>1. PICK S : v \in Seq(S)
      BY <2>1 DEF LateView
    <3>2. /\ Len(v) >= 2 /\ v[Len(v) - 1] = <<"sync", d>> /\ v[Len(v)] = <<"wait", d>>
          /\ \A i \in 1..Len(v) : v[i][1] # "unmatched"
      BY <1>3, <2>1, <2>3 DEF LateView
    <3>3. seen'[u] = x
      BY <1>2, <2>3
    <3> HIDE DEF v, d
    <3>4. Len(v) # 0 /\ Len(v) \in Nat
      BY <3>1, <3>2, LenProperties
    <3>5. /\ w \in Seq(S) /\ Len(w) = Len(v) - 1
          /\ \A i \in 1..(Len(v) - 1) : w[i] = v[i]
          /\ \A i \in 1..Len(w) : w[i][1] # "unmatched"
      BY <3>1, <3>2, <3>4, LateEnd
    <3> HIDE DEF w
    <3>6. Len(w) # 0 /\ w[Len(w)] = <<"sync", d>>
      <4>1. Len(v) - 1 \in 1..(Len(v) - 1)
        BY <3>2, <3>4
      <4> QED
        BY <3>2, <3>5, <4>1
    <3>7. x \in Seq(S) /\ \A i \in 1..Len(x) : x[i][1] # "unmatched"
      BY <3>5, <3>6, LateEnd
    <3> HIDE DEF x
    <3>8. (\E T : seen'[u] \in Seq(T)) /\ (\A i \in 1..Len(seen'[u]) : seen'[u][i][1] # "unmatched")
      BY <3>3, <3>7
    <3> QED
      BY <1>2, <1>3, <2>1, <2>3, <3>8 DEF LateView
  <2> QED
    BY <2>2, <2>3
<1>5. seen' = [u \in Thread |-> seen'[u]]
  BY <1>2
<1> QED
  BY <1>2, <1>4, <1>5 DEF Late

LEMMA LateEnter ==
  ASSUME Late, IInv', NEW t \in Thread, NEW k \in Keys \cup {Nested}, Forks(t), Enter(t, k),
         t = InitialThread \/ Inside(t),
         UNCHANGED <<registered, OMPT_ENABLED, finalizer, teamData, seen, begun>>,
         DOMAIN nested' = Thread, \A u \in Thread : u # t => nested'[u] = nested[u]
  PROVE  Late'
<1>1. IInv /\ TypeOK /\ PcInv /\ FrameInv /\ LiveInv
  BY DEF Late, IInv
<1>2. /\ \A q \in 1..Len(regions) : regions'[q] = regions[q]
      /\ \A u \in Thread : u # t => frames'[u] = frames[u] /\ pc'[u] = pc[u]
      /\ pc'[t] = "body"
  BY <1>1, EnterFacts
<1>3. ASSUME NEW u \in Thread, pc'[u] = "barrier"
      PROVE  /\ pc[u] = "barrier" /\ Top(u)' = Top(u) /\ nested'[u] = nested[u]
             /\ regions'[Top(u)].team = regions[Top(u)].team
  <2>1. u # t /\ pc[u] = "barrier" /\ frames'[u] = frames[u]
    BY <1>2, <1>3
  <2>2. Inside(u)
    BY <1>1, <2>1, ThreadIs DEF PcInv
  <2>3. Len(frames[u]) \in DOMAIN frames[u]
    BY <1>1, <2>2, Stacks
  <2>4. Top(u) \in 1..Len(regions)
    BY <1>1, <2>3, FrameRegion DEF Top
  <2> QED
    BY <1>2, <2>1, <2>4 DEF Top
<1>4. \A u \in Thread : u # InitialThread /\ Inside(u)' => Inside(u)
  BY <1>2 DEF Inside
<1> QED
  BY <1>3, <1>4, LateKept

LEMMA LateFork ==
  ASSUME Late, IInv', NEW t \in Thread, OForkNested(t) \/ \E k \in Keys : OFork(t, k)
  PROVE  Late'
<1>1. seen = [u \in Thread |-> seen[u]] /\ DOMAIN nested = Thread /\ teamData \in [Keys -> Nat] /\ ~OMPT_ENABLED /\ IInv
  BY DEF Late
<1>2. [seen EXCEPT ![t] = seen[t]] = seen
  BY <1>1
<1>3. CASE OForkNested(t)
  <2>1. /\ Forks(t) /\ Inside(t) /\ Enter(t, Nested) /\ Nested \in Keys \cup {Nested}
        /\ UNCHANGED <<registered, OMPT_ENABLED, finalizer, teamData, begun>>
        /\ seen' = [seen EXCEPT ![t] = seen[t]]
    BY <1>1, <1>3 DEF OForkNested, ForkNested, ImplicitTaskBegin, ParallelBegin, Emits
  <2>2. DOMAIN nested' = Thread /\ \A u \in Thread : u # t => nested'[u] = nested[u]
    BY <1>1, <1>3 DEF OForkNested
  <2> QED
    BY <1>2, <2>1, <2>2, LateEnter
<1>4. ASSUME NEW k \in Keys, OFork(t, k)
      PROVE  Late'
  <2>1. Forks(t) /\ ~Inside(t)
    BY <1>4 DEF OFork, ForkCached, ForkNew
  <2>2. t = InitialThread
    BY <1>1, <2>1, OutsideIsInitial DEF IInv, Forks, Encounters
  <2>3. UNCHANGED <<registered, OMPT_ENABLED, finalizer, begun, nested>>
    BY <1>4 DEF OFork
  <2>4. CASE mode' = "aborted"
    <3>1. UNCHANGED <<pc, frames, regions, teamData, seen>>
      BY <1>4, <2>1, <2>4 DEF OFork, ForkCached, ForkNew, Forks, Encounters
    <3> QED
      BY <1>1, <2>3, <3>1, LateKept DEF Top, Inside
  <2>5. CASE mode' # "aborted"
    <3>1. /\ Enter(t, k)
          /\ teamData' = [teamData EXCEPT ![k] = teamData[k]]
          /\ seen' = [seen EXCEPT ![t] = seen[t]]
      BY <1>1, <1>4, <2>5 DEF OFork, ForkCached, ForkNew, FreshParallel, ImplicitTaskBegin, ParallelBegin, Emits
    <3>2. teamData' = teamData /\ seen' = seen
      BY <1>1, <1>2, <3>1
    <3> QED
      BY <1>1, <2>1, <2>2, <2>3, <3>1, <3>2, LateEnter
  <2> QED
    BY <2>4, <2>5
<1> QED
  BY <1>3, <1>4

\* The steps on which a thread leaves a region, or a worker takes one up.
LEMMA LateOthers ==
  ASSUME Late, IInv', NEW t \in Thread,
         \/ t \in Worker /\ (ODispatched(t) \/ OPark(t))
         \/ OJoinNested(t)
         \/ t = InitialThread /\ OJoin
  PROVE  Late'
<1>1. /\ IInv /\ TypeOK /\ seen = [u \in Thread |-> seen[u]] /\ DOMAIN nested = Thread
      /\ registered /\ ~OMPT_ENABLED
  BY DEF Late, IInv
<1> DEFINE Elsewhere ==
             /\ UNCHANGED <<registered, OMPT_ENABLED, finalizer, teamData, begun, regions>>
             /\ seen' = [seen EXCEPT ![t] = seen[t]] /\ DOMAIN nested' = Thread
             /\ pc'[t] # "barrier"
             /\ \A u \in Thread : u # t => nested'[u] = nested[u] /\ frames'[u] = frames[u] /\ pc'[u] = pc[u]
             /\ t = InitialThread \/ Inside(t) \/ begun[t] \/ t \in finalizer
<1>2. Elsewhere
  <2>1. CASE t \in Worker /\ ODispatched(t)
    BY <1>1, <2>1 DEF ODispatched, Dispatched, ImplicitTaskBegin, Emits, TypeOK
  <2>2. CASE t \in Worker /\ OPark(t)
    <3>0. Len(frames[t]) = 1
      BY <2>2 DEF OPark, Park
    <3>1. Inside(t)
      BY <1>1, <3>0, Stacks
    <3> QED
      BY <1>1, <2>2, <3>1 DEF OPark, Park, ImplicitTaskEnd, Emits, data, TypeOK
  <2>3. CASE OJoinNested(t)
    <3>1. Inside(t)
      BY <1>1, <2>3, Stacks DEF OJoinNested, JoinNested
    <3> QED
      BY <1>1, <2>3, <3>1 DEF OJoinNested, JoinNested, Leave, ImplicitTaskEnd, ParallelEnd, OnThreadStop, Emits, TypeOK
  <2>4. CASE t = InitialThread /\ OJoin
    BY <1>1, <2>4 DEF OJoin, Join, Leave, ImplicitTaskEnd, ParallelEnd, Emits, data, TypeOK
  <2> QED
    BY <2>1, <2>2, <2>3, <2>4
<1>3. seen' = seen
  BY <1>1, <1>2
<1>4. \A u \in Thread : u # InitialThread /\ Inside(u)' => Inside(u) \/ begun[u] \/ u \in finalizer
  BY <1>2 DEF Inside
<1>5. \A u \in Thread : pc'[u] = "barrier" =>
        /\ pc[u] = "barrier" /\ Top(u)' = Top(u) /\ nested'[u] = nested[u]
        /\ regions'[Top(u)].team = regions[Top(u)].team
  BY <1>2 DEF Top
<1> QED
  BY <1>2, <1>3, <1>4, <1>5, LateKept

LEMMA LateStep ==
  ASSUME Late, [ONext]_ovars
  PROVE  Late'
<1>0. IInv' /\ TypeOK /\ DOMAIN nested = Thread
  BY StepOfTeam, NextInv DEF Late, IInv
<1>1. ASSUME NEW t \in Thread, OConstructs(t)
      PROVE  Late'
  <2>1. ASSUME NEW n \in NumThreads, OPush(t, n)
        PROVE  Late'
    <3>1. UNCHANGED <<frames, regions, registered, OMPT_ENABLED, finalizer, teamData, nested, seen, begun>>
      BY <2>1 DEF OPush, PushNumThreads, ompt, data
    <3>2. \A u \in Thread : pc'[u] = "barrier" => pc[u] = "barrier"
      BY <1>0, <2>1 DEF OPush, PushNumThreads, TypeOK
    <3> QED
      BY <1>0, <3>1, <3>2, LateKept DEF Top, Inside
  <2> QED
    BY <1>0, <1>1, <2>1, LateFork DEF OConstructs
<1>2. ASSUME NEW t \in Thread, OProceeds(t)
      PROVE  Late'
  <2>1. CASE OArrive(t)
    BY <1>0, <2>1, LateArrive
  <2>2. CASE t \in Worker /\ ThreadStart(t)
    BY <1>0, <2>2, LateStart
  <2>3. CASE \/ t \in Worker /\ (ODispatched(t) \/ OPark(t))
             \/ OJoinNested(t)
             \/ t = InitialThread /\ OJoin
    BY <1>0, <2>3, LateOthers
  <2> QED
    BY <1>2, <2>1, <2>2, <2>3 DEF OProceeds
<1>3. ASSUME NEW r \in 1..Len(regions), OBarrier(r)
      PROVE  Late'
  BY <1>0, <1>3, LateBarrier
<1>4. ASSUME NEW t \in Finalizing, FinalizeTool(t)
      PROVE  FALSE
  BY <1>4 DEF FinalizeTool, Late
<1>5. CASE OExit \/ ODone \/ UNCHANGED ovars
  <2>1. UNCHANGED <<pc, frames, regions, registered, OMPT_ENABLED, finalizer, teamData, nested, seen, begun>>
    BY <1>5 DEF OExit, Exit, ODone, Done, Late, ovars, vars, ompt, data
  <2> QED
    BY <1>0, <2>1, LateKept DEF Top, Inside
<1> QED
  BY <1>1, <1>2, <1>3, <1>4, <1>5 DEF ONext

-------------------------------------------------------------------------------
(* Theorems.                                                               *)

LEMMA OInitInv == OInit => OInv
<1>1. ASSUME OInit, ~registered
      PROVE  Quiet
  <2>1. IInv
    BY <1>1, InitInv DEF OInit
  <2> QED
    BY <1>1, <2>1 DEF OInit, Quiet
<1> QED
  BY <1>1, FollowedInit DEF OInv

LEMMA ONextInv == OInv /\ [ONext]_ovars => OInv'
<1>1. Followed /\ [ONext]_ovars => Followed' \/ Late'
  BY FollowedStep, FinalizeToolLate
<1> QED
  <2>1. CASE Followed /\ [ONext]_ovars
    BY <1>1, <2>1 DEF OInv
  <2>2. CASE Late /\ [ONext]_ovars
    BY <2>2, LateStep DEF OInv
  <2>3. CASE Quiet /\ [ONext]_ovars
    BY <2>3, SilentStep DEF OInv
  <2> QED
    BY <2>1, <2>2, <2>3 DEF OInv

\* What a tool has seen of every thread mirrors the regions the thread is in,
\* until the tool finalises itself; everything below follows from this.
THEOREM ToolInvariance == OSpec => []OInv
  BY OInitInv, ONextInv, PTL DEF OSpec

\* When the program has ended nothing is left open but the workers' threads.
THEOREM AllIsBalanced == OSpec => []NothingOpenAtEnd
<1>1. OInv => NothingOpenAtEnd
  BY ThreadIs DEF OInv, Followed, Late, Quiet, NothingOpenAtEnd
<1> QED
  BY <1>1, ToolInvariance, PTL

\* The tool changes nothing: with its events, every behaviour is one of Team's,
\* so that all that is proved of Team holds of it.
THEOREM ToolIsTransparent == OSpec => Spec
<1>1. OInit => Init
  BY DEF OInit
<1>2. [ONext]_ovars => [Next]_vars
  BY StepOfTeam
<1> QED
  BY <1>1, <1>2, PTL DEF OSpec, Spec

\* Every end a tool is told of is that of the innermost scope open.
THEOREM EndsMatch == OSpec => []EventsNest
<1>1. ASSUME Followed, NEW t \in Thread, NEW i \in DOMAIN seen[t]
      PROVE  seen[t][i][1] # "unmatched"
  <2>1. /\ seen \in [Thread -> Seq(Scope)]
        /\ ~registered => seen[t] = <<>>
        /\ registered /\ mode # "exited" => Mirrors(t, seen[t], frames[t], pc[t], begun[t])
    BY <1>1 DEF Followed, ViewInv
  <2>2. DOMAIN seen[t] = 1..Len(seen[t])
    BY <2>1, LenProperties
  <2>3. seen[t] # <<>>
    <3>1. Len(<<>>) = 0
      BY EmptySeq
    <3> QED
      BY <1>1, <2>2, <3>1
  <2>4. CASE mode # "exited"
    BY <1>1, <2>1, <2>2, <2>3, <2>4 DEF Mirrors
  <2>5. CASE mode = "exited"
    <3>1. seen[t] = <<<<"thread", 0>>>>
      BY <1>1, <2>3, <2>5, ThreadIs DEF Followed, FlagInv, NothingOpenAtEnd
    <3>2. i = 1
      <4>1. DOMAIN <<<<"thread", 0>>>> = {1}
        OBVIOUS
      <4> QED
        BY <1>1, <3>1, <4>1
    <3> QED
      BY <3>1, <3>2
  <2> QED
    BY <2>4, <2>5
<1>2. Followed => EventsNest
  BY <1>1 DEF EventsNest, Scopes
<1>3. ASSUME Late, NEW t \in Thread \ finalizer, NEW i \in DOMAIN seen[t]
      PROVE  seen[t][i][1] # "unmatched"
  <2>1. LateView(t)
    BY <1>3 DEF Late
  <2>2. DOMAIN seen[t] = 1..Len(seen[t])
    BY <2>1, LenProperties DEF LateView
  <2> QED
    BY <2>1, <2>2 DEF LateView
<1>4. Late => EventsNest
  BY <1>3 DEF EventsNest, Scopes
<1>5. Quiet => EventsNest
  <2>1. ASSUME Quiet, NEW t \in Thread
        PROVE  DOMAIN seen[t] = {}
    BY <2>1 DEF Quiet
  <2> QED
    BY <2>1 DEF EventsNest, Scopes
<1>6. OInv => EventsNest
  BY <1>2, <1>4, <1>5 DEF OInv
<1> QED
  BY <1>6, ToolInvariance, PTL

\* Where a thread's implicit tasks are in its view.
LEMMA ImplicitScopes ==
  ASSUME Followed, registered, mode = "running", NEW t \in Thread
  PROVE  /\ Bias(t) \in Nat
         /\ Scopes(t, "implicit") = {Bias(t) + 2 * n : n \in DOMAIN frames[t]}
         /\ \A n \in DOMAIN frames[t] : seen[t][Bias(t) + 2 * n][2] = frames[t][n].region
<1>1. IInv /\ Mirrors(t, seen[t], frames[t], pc[t], begun[t]) /\ seen[t] \in Seq(Scope)
  BY DEF Followed, ViewInv
<1>2. /\ frames[t] \in Seq(Frame) /\ Len(frames[t]) \in Nat /\ DOMAIN frames[t] = 1..Len(frames[t])
      /\ frames[t] # <<>> <=> Len(frames[t]) # 0
  BY <1>1, Stacks
<1>3. Len(seen[t]) \in Nat /\ DOMAIN seen[t] = 1..Len(seen[t]) /\ Bias(t) \in Nat
  BY <1>1, LenProperties DEF Bias
<1>4. ASSUME NEW n \in DOMAIN frames[t]
      PROVE  Bias(t) + 2 * n \in DOMAIN seen[t] /\ seen[t][Bias(t) + 2 * n] = <<"implicit", frames[t][n].region>>
  <2> DEFINE h == Height(t, frames[t], begun[t])
  <2>1. frames[t] # <<>> /\ n \in 1..Len(frames[t])
    BY <1>2
  <2>2. h = Bias(t) + 2 * Len(frames[t])
    BY <2>1 DEF Height
  <2>3. Len(seen[t]) = h + (IF pc[t] = "barrier" THEN 2 ELSE 0)
    BY <1>1 DEF Mirrors
  <2> HIDE DEF h
  <2>4. Len(seen[t]) >= h
    BY <1>2, <1>3, <2>2, <2>3
  <2>5. Bias(t) + 2 * n \in 1..Len(seen[t])
    BY <1>2, <1>3, <2>1, <2>2, <2>4
  <2> QED
    BY <1>1, <1>3, <2>1, <2>5 DEF Mirrors
<1>5. ASSUME NEW i \in Scopes(t, "implicit")
      PROVE  \E n \in DOMAIN frames[t] : i = Bias(t) + 2 * n
  <2>1. i \in 1..Len(seen[t]) /\ seen[t][i][1] = "implicit"
    BY <1>3 DEF Scopes
  <2> QED
    BY <1>1, <1>2, <2>1 DEF Mirrors
<1>6. \A n \in DOMAIN frames[t] : Bias(t) + 2 * n \in Scopes(t, "implicit")
  BY <1>4 DEF Scopes
<1>7. Scopes(t, "implicit") = {Bias(t) + 2 * n : n \in DOMAIN frames[t]}
  BY <1>5, <1>6
<1> QED
  BY <1>3, <1>4, <1>7

\* The number a thread has in the innermost region it is in.
LEMMA NumberInTeam ==
  ASSUME IInv, NEW t \in Thread, Inside(t)
  PROVE  LET i == GetTaskInfo(t).thread_num
         IN  i < SizeOf(Top(t)) /\ MemberOf(Top(t), i + 1) = t
<1> DEFINE r == Top(t)
           k == regions[r].team
           i == IF t \in Worker /\ k # Nested THEN t.tid ELSE 0
<1>1. TypeOK /\ FrameInv /\ LiveInv
  BY DEF IInv
<1>2. Len(frames[t]) \in DOMAIN frames[t]
  BY Stacks
<1>3. /\ k \in Keys \cup {Nested}
      /\ k = Nested => regions[r].by = t
      /\ k # Nested => k \in Keys /\ regions[r].by = InitialThread /\ (t \in Worker => k = t.team)
  BY <1>1, <1>2, KeyFacts DEF FrameInv, Top
<1>4. GetTaskInfo(t).thread_num = i
  BY DEF GetTaskInfo
<1>5. CASE k = Nested
  <2>1. SizeOf(r) = 1 /\ i = 0 /\ i + 1 = 1
    BY <1>5 DEF SizeOf
  <2>2. MemberOf(r, 1) = t
    BY <1>3, <1>5 DEF MemberOf
  <2> QED
    BY <1>4, <2>1, <2>2
<1>6. CASE k # Nested /\ t \in Worker
  <2>1. k = t.team /\ SizeOf(r) = Size(k) /\ i = t.tid
    BY <1>3, <1>6 DEF SizeOf
  <2>2. t.tid \in 1..(Size(k) - 1) /\ Size(k) \in Nat /\ t = [team |-> k, tid |-> t.tid]
    BY <1>3, <1>6, <2>1, WorkerFacts, KeyFacts
  <2>3. i < SizeOf(r) /\ i + 1 # 1 /\ (i + 1) - 1 = t.tid
    BY <2>1, <2>2
  <2>4. MemberOf(r, i + 1) = [team |-> k, tid |-> (i + 1) - 1]
    BY <2>3 DEF MemberOf
  <2> QED
    BY <1>4, <2>2, <2>3, <2>4
<1>7. CASE k # Nested /\ t \notin Worker
  <2>1. t = InitialThread /\ SizeOf(r) = Size(k) /\ i = 0 /\ i + 1 = 1
    BY <1>7, ThreadIs DEF SizeOf
  <2>2. Size(k) \in Nat \ {0}
    BY <1>3, <1>7, KeyFacts
  <2>3. MemberOf(r, 1) = t
    BY <1>3, <1>7, <2>1 DEF MemberOf
  <2> QED
    BY <1>4, <2>1, <2>2, <2>3
<1> QED
  BY <1>5, <1>6, <1>7

\* The scope of a region a thread is in is open on the thread that forked it.
LEMMA RegionIsOpen ==
  ASSUME Followed, registered, mode = "running", NEW t \in Thread, NEW n \in DOMAIN frames[t]
  PROVE  LET r == frames[t][n].region
         IN  \E i \in Scopes(regions[r].by, "parallel") : seen[regions[r].by][i][2] = r
<1> DEFINE r == frames[t][n].region
<1>1. IInv /\ FrameInv /\ WorkerInv
  BY DEF Followed, IInv
<1>2. ASSUME NEW u \in Thread, NEW m \in DOMAIN frames[u], u = InitialThread \/ m > 1
      PROVE  \E i \in Scopes(u, "parallel") : seen[u][i][2] = frames[u][m].region
  <2> DEFINE i == Bias(u) + 2 * m - 1
  <2>1. Mirrors(u, seen[u], frames[u], pc[u], begun[u]) /\ seen[u] \in Seq(Scope)
    BY DEF Followed, ViewInv
  <2>2. m \in 1..Len(frames[u]) /\ Len(frames[u]) \in Nat /\ m \in Nat \ {0}
    BY <1>1, Stacks
  <2>3. seen[u][i] = <<"parallel", frames[u][m].region>>
    BY <1>2, <2>1, <2>2 DEF Mirrors
  <2>4. Bias(u) \in Nat /\ Bias(u) + 2 * m \in DOMAIN seen[u] /\ DOMAIN seen[u] = 1..Len(seen[u])
    <3>1. Bias(u) + 2 * m \in Scopes(u, "implicit") /\ Bias(u) \in Nat
      BY ImplicitScopes
    <3> QED
      BY <2>1, <3>1, LenProperties DEF Scopes
  <2>5. i \in DOMAIN seen[u]
    <3>1. Len(seen[u]) \in Nat
      BY <2>1, LenProperties
    <3> QED
      BY <2>2, <2>4, <3>1
  <2> QED
    BY <2>3, <2>5 DEF Scopes
<1>3. CASE n = 1
  <2>1. regions[r].by = InitialThread
    BY <1>1, <1>3 DEF FrameInv
  <2>2. Inside(InitialThread) /\ Bottom(InitialThread) = r
    <3>1. Inside(t)
      BY <1>1, Stacks
    <3> QED
      BY <1>1, <1>3, <3>1, ThreadIs DEF WorkerInv, Bottom
  <2>3. 1 \in DOMAIN frames[InitialThread] /\ frames[InitialThread][1].region = r
    BY <1>1, <2>2, Stacks, ThreadIs DEF Bottom
  <2> QED
    BY <1>2, <2>1, <2>3, ThreadIs
<1>4. CASE n # 1
  <2>1. regions[r].by = t
    BY <1>1, <1>4 DEF FrameInv
  <2>2. n > 1
    BY <1>1, <1>4, Stacks
  <2> QED
    BY <1>2, <2>1, <2>2
<1> QED
  BY <1>3, <1>4

\* A tool sees the nesting of regions, by the data of those regions and of no
\* earlier one of the same team, and is told so when it asks.
THEOREM ToolSeesTheNesting == OSpec => []ToolSeesNesting
<1>1. ASSUME Followed, registered, mode = "running", NEW t \in Thread
      PROVE  /\ {seen[t][i][2] : i \in Scopes(t, "implicit")} = {frames[t][n].region : n \in DOMAIN frames[t]}
             /\ \A i, j \in Scopes(t, "implicit") : i < j => seen[t][i][2] < seen[t][j][2]
  <2>1. /\ Bias(t) \in Nat
        /\ Scopes(t, "implicit") = {Bias(t) + 2 * n : n \in DOMAIN frames[t]}
        /\ \A n \in DOMAIN frames[t] : seen[t][Bias(t) + 2 * n][2] = frames[t][n].region
    BY <1>1, ImplicitScopes
  <2>2. IInv /\ FrameInv
    BY <1>1 DEF Followed, IInv
  <2>3. \A n \in DOMAIN frames[t] : n \in Nat
    BY <2>2, Stacks
  <2>4. ASSUME NEW i \in Scopes(t, "implicit"), NEW j \in Scopes(t, "implicit"), i < j
        PROVE  seen[t][i][2] < seen[t][j][2]
    <3>1. PICK n \in DOMAIN frames[t] : i = Bias(t) + 2 * n
      BY <2>1
    <3>2. PICK m \in DOMAIN frames[t] : j = Bias(t) + 2 * m
      BY <2>1
    <3>3. n < m
      BY <2>1, <2>3, <2>4, <3>1, <3>2
    <3>4. frames[t][n].region < frames[t][m].region
      BY <2>2, <3>3 DEF FrameInv
    <3> QED
      BY <2>1, <3>1, <3>2, <3>4
  <2>5. {seen[t][i][2] : i \in Scopes(t, "implicit")} = {frames[t][n].region : n \in DOMAIN frames[t]}
    BY <2>1
  <2> QED
    BY <2>4, <2>5
<1>2. ASSUME Followed, registered, mode = "running", NEW t \in Thread, Inside(t)
      PROVE  LET about == GetTaskInfo(t)
             IN  /\ {about.task_data, about.parallel_data} = {Top(t)}
                 /\ GetParallelInfo(t).parallel_data = Top(t)
                 /\ about.thread_num < GetParallelInfo(t).team_size
                 /\ MemberOf(Top(t), about.thread_num + 1) = t
  <2>1. TeamDatum(t) = Top(t) /\ TaskDatum(t) = Top(t)
    BY <1>2, DataOfTop DEF Followed
  <2>2. /\ GetTaskInfo(t).task_data = TaskDatum(t) /\ GetTaskInfo(t).parallel_data = TeamDatum(t)
        /\ GetParallelInfo(t).parallel_data = TeamDatum(t) /\ GetParallelInfo(t).team_size = SizeOf(Top(t))
    BY DEF GetTaskInfo, GetParallelInfo
  <2>3. GetTaskInfo(t).thread_num < SizeOf(Top(t)) /\ MemberOf(Top(t), GetTaskInfo(t).thread_num + 1) = t
    BY <1>2, NumberInTeam DEF Followed
  <2> QED
    BY <2>1, <2>2, <2>3
<1>3. Followed /\ registered /\ mode = "running" => ToolSeesNesting
  BY <1>1, <1>2, RegionIsOpen DEF ToolSeesNesting
<1>4. Followed => registered
  BY DEF Followed, FlagInv
<1>5. OInv => ToolSeesNesting
  BY <1>3, <1>4 DEF OInv, Late, Quiet, ToolSeesNesting
<1> QED
  BY <1>5, ToolInvariance, PTL
===============================================================================
