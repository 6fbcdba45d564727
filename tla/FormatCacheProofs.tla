--------------------------- MODULE FormatCacheProofs ---------------------------
(***************************************************************************)
(* FormatCache for any number of threads and constructs: the lock excludes,*)
(* every construct has one format, and callers get their own, so the       *)
(* function implements the atomic table of FormatTable.                    *)
(*                                                                         *)
(* The lock alone does not make the search right.  What does is that the   *)
(* table and the registered formats agree whenever nobody is between the   *)
(* creation of a format and its insertion, and that the one thread in      *)
(* between knows which format is missing from the table.                   *)
(***************************************************************************)
EXTENDS FormatCache, SequenceTheorems, TLAPS

\* The lock's owner is the thread in the critical section.
LockInv == \A t \in Thread : pc[t] \in Holding <=> lock = t

\* A thread past the first test has a construct with a key.
CallInv ==
  \A t \in Thread :
    /\ pc[t] # "idle" => call[t] \in Construct /\ HasKey(call[t])
    /\ pc[t] = "create" => per_loc[KeyOf(call[t])] = 0

\* Every format but the template was made for a construct with a key.
FormatInv ==
  /\ Len(formats) >= 1
  /\ \A i \in 2..Len(formats) : formats[i] \in Construct /\ HasKey(formats[i])

\* What the table holds is the format of that key.
TableInv ==
  \A k \in Key : per_loc[k] # 0 =>
    per_loc[k] \in 2..Len(formats) /\ KeyOf(formats[per_loc[k]]) = k

\* i was created by t, which has not inserted it yet.
Uninserted(t, i) ==
  pc[t] = "insert" /\ fmtid[t] = i /\ per_loc[KeyOf(call[t])] = 0

\* Every format is in the table, or about to be put there.
CompleteInv ==
  \A i \in 2..Len(formats) :
    per_loc[KeyOf(formats[i])] = i \/ \E t \in Thread : Uninserted(t, i)

\* What a thread has found or created is its construct's.
ResultInv ==
  \A t \in Thread :
    /\ pc[t] \in {"insert", "unlock"} =>
         fmtid[t] \in 2..Len(formats) /\ KeyOf(formats[fmtid[t]]) = KeyOf(call[t])
    /\ pc[t] = "insert" =>
         per_loc[KeyOf(call[t])] = 0 /\ formats[fmtid[t]] = call[t]
    /\ pc[t] = "idle" /\ fmtid[t] # 0 =>
         /\ call[t] \in Construct
         /\ IF HasKey(call[t])
              THEN fmtid[t] \in 2..Len(formats) /\ KeyOf(formats[fmtid[t]]) = KeyOf(call[t])
              ELSE fmtid[t] = Host

IInv ==
  TypeOK /\ LockInv /\ CallInv /\ FormatInv /\ TableInv /\ CompleteInv /\ ResultInv
-------------------------------------------------------------------------------
(* The operators the invariant is built from.                              *)

\* A construct with something to tell it by has a key of the table.
LEMMA KeyOfInKey ==
  ASSUME NEW c \in Construct, HasKey(c)
  PROVE  KeyOf(c) \in Key
BY ConstructAssumption DEF HasKey, KeyOf, Key

\* Registering a format adds it under the next id and moves no other.
LEMMA AppendFormat ==
  ASSUME NEW S, NEW s \in Seq(S), NEW e \in S
  PROVE  /\ Append(s, e) \in Seq(S)
         /\ Len(s) \in Nat /\ Len(Append(s, e)) = Len(s) + 1
         /\ \A i \in 1..Len(s) : Append(s, e)[i] = s[i]
         /\ Append(s, e)[Len(s) + 1] = e
BY AppendProperties, LenProperties

\* What Create(t) does to the formats.
LEMMA Created ==
  ASSUME TypeOK, NEW t \in Thread, Create(t)
  PROVE  /\ formats' \in Seq(Construct \cup {Template})
         /\ Len(formats) \in Nat /\ Len(formats') = Len(formats) + 1
         /\ \A i \in 1..Len(formats) : formats'[i] = formats[i]
         /\ formats'[Len(formats) + 1] = call[t]
BY AppendFormat DEF TypeOK, Create

-------------------------------------------------------------------------------
(* The inductive invariant.                                                *)

LEMMA InitInv == Init => IInv
<1> SUFFICES ASSUME Init PROVE IInv
  OBVIOUS
<1>1. formats = <<Template>> /\ formats \in Seq(Construct \cup {Template}) /\ Len(formats) = 1
  BY DEF Init
<1>2. TypeOK
  BY <1>1 DEF Init, TypeOK, Holding
<1>3. LockInv /\ CallInv /\ ResultInv
  BY ThreadAssumption DEF Init, LockInv, CallInv, ResultInv, Holding
<1>4. FormatInv /\ TableInv /\ CompleteInv
  BY <1>1 DEF Init, FormatInv, TableInv, CompleteInv
<1> QED
  BY <1>2, <1>3, <1>4 DEF IInv

\* An action stays within the types.
LEMMA TypeStep == IInv /\ [Next]_vars => TypeOK'
<1> SUFFICES ASSUME IInv, [Next]_vars PROVE TypeOK'
  OBVIOUS
<1> USE DEF TypeOK, IInv, Holding, Goto
<1>1. ASSUME NEW t \in Thread, NEW c \in Construct, Call(t, c) PROVE TypeOK'
  BY <1>1 DEF Call
<1>2. ASSUME NEW t \in Thread, NEW c \in Construct, CallKeyless(t, c) PROVE TypeOK'
  BY <1>2 DEF CallKeyless, Host
<1>3. ASSUME NEW t \in Thread, Lock(t) PROVE TypeOK'
  BY <1>3 DEF Lock
<1>4. ASSUME NEW t \in Thread, Find(t) PROVE TypeOK'
  <2>1. per_loc[KeyOf(call[t])] \in Nat
    BY <1>4, KeyOfInKey DEF Find, CallInv
  <2> QED
    BY <1>4, <2>1 DEF Find
<1>5. ASSUME NEW t \in Thread, Miss(t) PROVE TypeOK'
  BY <1>5 DEF Miss
<1>6. ASSUME NEW t \in Thread, Create(t) PROVE TypeOK'
  BY <1>6, Created DEF Create
<1>7. ASSUME NEW t \in Thread, Insert(t) PROVE TypeOK'
  BY <1>7 DEF Insert
<1>8. ASSUME NEW t \in Thread, Unlock(t) PROVE TypeOK'
  BY <1>8 DEF Unlock
<1>9. CASE UNCHANGED vars
  BY <1>9 DEF vars
<1> QED
  BY <1>1, <1>2, <1>3, <1>4, <1>5, <1>6, <1>7, <1>8, <1>9 DEF Next, Step

\* The lock is taken only when it is free and given back by its owner.
LEMMA LockStep == IInv /\ TypeOK' /\ [Next]_vars => LockInv'
<1> SUFFICES ASSUME IInv, TypeOK', [Next]_vars PROVE LockInv'
  OBVIOUS
<1> USE DEF IInv, TypeOK, LockInv, Holding, Goto
<1>1. ASSUME NEW t \in Thread, NEW c \in Construct, Call(t, c) PROVE LockInv'
  BY <1>1 DEF Call
<1>2. ASSUME NEW t \in Thread, NEW c \in Construct, CallKeyless(t, c) PROVE LockInv'
  BY <1>2 DEF CallKeyless
<1>3. ASSUME NEW t \in Thread, Lock(t) PROVE LockInv'
  BY <1>3, ThreadAssumption DEF Lock
<1>4. ASSUME NEW t \in Thread, Find(t) PROVE LockInv'
  BY <1>4 DEF Find
<1>5. ASSUME NEW t \in Thread, Miss(t) PROVE LockInv'
  BY <1>5 DEF Miss
<1>6. ASSUME NEW t \in Thread, Create(t) PROVE LockInv'
  BY <1>6 DEF Create
<1>7. ASSUME NEW t \in Thread, Insert(t) PROVE LockInv'
  BY <1>7 DEF Insert
<1>8. ASSUME NEW t \in Thread, Unlock(t) PROVE LockInv'
  BY <1>8, ThreadAssumption DEF Unlock
<1>9. CASE UNCHANGED vars
  BY <1>9 DEF vars
<1> QED
  BY <1>1, <1>2, <1>3, <1>4, <1>5, <1>6, <1>7, <1>8, <1>9 DEF Next, Step

\* A miss stays one until its own thread inserts: nobody else has the lock.
LEMMA CallStep == IInv /\ TypeOK' /\ [Next]_vars => CallInv'
<1> SUFFICES ASSUME IInv, TypeOK', [Next]_vars PROVE CallInv'
  OBVIOUS
<1> USE DEF IInv, TypeOK, CallInv, LockInv, Holding, Goto
<1>1. ASSUME NEW t \in Thread, NEW c \in Construct, Call(t, c) PROVE CallInv'
  BY <1>1 DEF Call
<1>2. ASSUME NEW t \in Thread, NEW c \in Construct, CallKeyless(t, c) PROVE CallInv'
  BY <1>2 DEF CallKeyless
<1>3. ASSUME NEW t \in Thread, Lock(t) PROVE CallInv'
  BY <1>3 DEF Lock
<1>4. ASSUME NEW t \in Thread, Find(t) PROVE CallInv'
  BY <1>4 DEF Find
<1>5. ASSUME NEW t \in Thread, Miss(t) PROVE CallInv'
  BY <1>5 DEF Miss
<1>6. ASSUME NEW t \in Thread, Create(t) PROVE CallInv'
  BY <1>6 DEF Create
<1>7. ASSUME NEW t \in Thread, Insert(t) PROVE CallInv'
  BY <1>7 DEF Insert
<1>8. ASSUME NEW t \in Thread, Unlock(t) PROVE CallInv'
  BY <1>8 DEF Unlock
<1>9. CASE UNCHANGED vars
  BY <1>9 DEF vars
<1> QED
  BY <1>1, <1>2, <1>3, <1>4, <1>5, <1>6, <1>7, <1>8, <1>9 DEF Next, Step

\* Formats are made only for the construct of a call.
LEMMA FormatStep == IInv /\ TypeOK' /\ [Next]_vars => FormatInv'
<1> SUFFICES ASSUME IInv, TypeOK', [Next]_vars PROVE FormatInv'
  OBVIOUS
<1> USE DEF IInv, TypeOK, FormatInv, CallInv, Goto
<1>1. ASSUME NEW t \in Thread, NEW c \in Construct, Call(t, c) PROVE FormatInv'
  BY <1>1 DEF Call
<1>2. ASSUME NEW t \in Thread, NEW c \in Construct, CallKeyless(t, c) PROVE FormatInv'
  BY <1>2 DEF CallKeyless
<1>3. ASSUME NEW t \in Thread, Lock(t) PROVE FormatInv'
  BY <1>3 DEF Lock
<1>4. ASSUME NEW t \in Thread, Find(t) PROVE FormatInv'
  BY <1>4 DEF Find
<1>5. ASSUME NEW t \in Thread, Miss(t) PROVE FormatInv'
  BY <1>5 DEF Miss
<1>6. ASSUME NEW t \in Thread, Create(t) PROVE FormatInv'
  BY <1>6, Created DEF Create
<1>7. ASSUME NEW t \in Thread, Insert(t) PROVE FormatInv'
  BY <1>7 DEF Insert
<1>8. ASSUME NEW t \in Thread, Unlock(t) PROVE FormatInv'
  BY <1>8 DEF Unlock
<1>9. CASE UNCHANGED vars
  BY <1>9 DEF vars
<1> QED
  BY <1>1, <1>2, <1>3, <1>4, <1>5, <1>6, <1>7, <1>8, <1>9 DEF Next, Step

\* What is inserted is the format the inserting thread has just created.
LEMMA TableStep == IInv /\ TypeOK' /\ [Next]_vars => TableInv'
<1> SUFFICES ASSUME IInv, TypeOK', [Next]_vars PROVE TableInv'
  OBVIOUS
<1> USE DEF IInv, TypeOK, TableInv, Goto
<1>1. ASSUME NEW t \in Thread, NEW c \in Construct, Call(t, c) PROVE TableInv'
  BY <1>1 DEF Call
<1>2. ASSUME NEW t \in Thread, NEW c \in Construct, CallKeyless(t, c) PROVE TableInv'
  BY <1>2 DEF CallKeyless
<1>3. ASSUME NEW t \in Thread, Lock(t) PROVE TableInv'
  BY <1>3 DEF Lock
<1>4. ASSUME NEW t \in Thread, Find(t) PROVE TableInv'
  BY <1>4 DEF Find
<1>5. ASSUME NEW t \in Thread, Miss(t) PROVE TableInv'
  BY <1>5 DEF Miss
<1>6. ASSUME NEW t \in Thread, Create(t) PROVE TableInv'
  BY <1>6, Created DEF Create
<1>7. ASSUME NEW t \in Thread, Insert(t) PROVE TableInv'
  <2>1. fmtid[t] \in 2..Len(formats) /\ KeyOf(formats[fmtid[t]]) = KeyOf(call[t])
    BY <1>7 DEF Insert, ResultInv
  <2> QED
    BY <1>7, <2>1 DEF Insert
<1>8. ASSUME NEW t \in Thread, Unlock(t) PROVE TableInv'
  BY <1>8 DEF Unlock
<1>9. CASE UNCHANGED vars
  BY <1>9 DEF vars
<1> QED
  BY <1>1, <1>2, <1>3, <1>4, <1>5, <1>6, <1>7, <1>8, <1>9 DEF Next, Step

\* A created format is missing from the table only until it is inserted.
LEMMA CompleteStep == IInv /\ TypeOK' /\ [Next]_vars => CompleteInv'
<1> SUFFICES ASSUME IInv, TypeOK', [Next]_vars PROVE CompleteInv'
  OBVIOUS
<1> USE DEF IInv, TypeOK, CompleteInv, Uninserted, Goto
<1>1. ASSUME NEW t \in Thread, NEW c \in Construct, Call(t, c) PROVE CompleteInv'
  BY <1>1 DEF Call
<1>2. ASSUME NEW t \in Thread, NEW c \in Construct, CallKeyless(t, c) PROVE CompleteInv'
  BY <1>2 DEF CallKeyless
<1>3. ASSUME NEW t \in Thread, Lock(t) PROVE CompleteInv'
  BY <1>3 DEF Lock
<1>4. ASSUME NEW t \in Thread, Find(t) PROVE CompleteInv'
  BY <1>4 DEF Find
<1>5. ASSUME NEW t \in Thread, Miss(t) PROVE CompleteInv'
  BY <1>5 DEF Miss
<1>6. ASSUME NEW t \in Thread, Create(t) PROVE CompleteInv'
  <2> SUFFICES ASSUME NEW i \in 2..Len(formats')
               PROVE  per_loc[KeyOf(formats'[i])] = i \/ \E u \in Thread : Uninserted(u, i)'
    BY <1>6 DEF Create
  <2>1. CASE i = Len(formats) + 1
    <3>1. Uninserted(t, i)'
      BY <1>6, <2>1 DEF Create, CallInv
    <3> QED
      BY <3>1
  <2>2. CASE i \in 2..Len(formats)
    <3>1. formats'[i] = formats[i]
      BY <1>6, <2>2, Created
    <3>2. ASSUME NEW u \in Thread, Uninserted(u, i) PROVE Uninserted(u, i)'
      BY <1>6, <3>2 DEF Create
    <3> QED
      BY <2>2, <3>1, <3>2
  <2> QED
    BY <1>6, <2>1, <2>2, Created
<1>7. ASSUME NEW t \in Thread, Insert(t) PROVE CompleteInv'
  <2>1. KeyOf(call[t]) \in Key /\ KeyOf(formats[fmtid[t]]) = KeyOf(call[t])
    BY <1>7, KeyOfInKey DEF Insert, CallInv, ResultInv
  <2> SUFFICES ASSUME NEW i \in 2..Len(formats)
               PROVE  per_loc'[KeyOf(formats[i])] = i
    BY <1>7 DEF Insert
  <2>2. CASE per_loc[KeyOf(formats[i])] = i
    BY <1>7, <2>2 DEF Insert, ResultInv
  <2>3. ASSUME NEW u \in Thread, Uninserted(u, i) PROVE per_loc'[KeyOf(formats[i])] = i
    <3>1. u = t
      BY <1>7, <2>3 DEF Insert, LockInv, Holding
    <3> QED
      BY <1>7, <2>1, <2>3, <3>1 DEF Insert
  <2> QED
    BY <2>2, <2>3
<1>8. ASSUME NEW t \in Thread, Unlock(t) PROVE CompleteInv'
  BY <1>8 DEF Unlock
<1>9. CASE UNCHANGED vars
  BY <1>9 DEF vars
<1> QED
  BY <1>1, <1>2, <1>3, <1>4, <1>5, <1>6, <1>7, <1>8, <1>9 DEF Next, Step

\* Found or created, a result stays its construct's: formats only grow.
LEMMA ResultStep == IInv /\ TypeOK' /\ [Next]_vars => ResultInv'
<1> SUFFICES ASSUME IInv, TypeOK', [Next]_vars PROVE ResultInv'
  OBVIOUS
<1> USE DEF IInv, TypeOK, ResultInv, Goto
<1>1. ASSUME NEW t \in Thread, NEW c \in Construct, Call(t, c) PROVE ResultInv'
  BY <1>1 DEF Call
<1>2. ASSUME NEW t \in Thread, NEW c \in Construct, CallKeyless(t, c) PROVE ResultInv'
  BY <1>2 DEF CallKeyless, Host
<1>3. ASSUME NEW t \in Thread, Lock(t) PROVE ResultInv'
  BY <1>3 DEF Lock
<1>4. ASSUME NEW t \in Thread, Find(t) PROVE ResultInv'
  BY <1>4, KeyOfInKey DEF Find, CallInv, TableInv
<1>5. ASSUME NEW t \in Thread, Miss(t) PROVE ResultInv'
  BY <1>5 DEF Miss
<1>6. ASSUME NEW t \in Thread, Create(t) PROVE ResultInv'
  BY <1>6, Created DEF Create, CallInv, FormatInv
<1>7. ASSUME NEW t \in Thread, Insert(t) PROVE ResultInv'
  BY <1>7 DEF Insert, LockInv, Holding
<1>8. ASSUME NEW t \in Thread, Unlock(t) PROVE ResultInv'
  BY <1>8 DEF Unlock, CallInv
<1>9. CASE UNCHANGED vars
  BY <1>9 DEF vars
<1> QED
  BY <1>1, <1>2, <1>3, <1>4, <1>5, <1>6, <1>7, <1>8, <1>9 DEF Next, Step

-------------------------------------------------------------------------------
(* The theorems.                                                           *)

\* IInv holds of every reachable state.
THEOREM Invariance == Spec => []IInv
<1>1. IInv /\ [Next]_vars => IInv'
  <2> SUFFICES ASSUME IInv, [Next]_vars PROVE IInv'
    OBVIOUS
  <2>1. TypeOK'
    BY TypeStep
  <2> QED
    BY <2>1, LockStep, CallStep, FormatStep, TableStep, CompleteStep, ResultStep DEF IInv
<1> QED
  BY InitInv, <1>1, PTL DEF Spec

\* Every variable keeps its type, for any number of threads and constructs.
THEOREM TypeCorrect == Spec => []TypeOK
<1>1. IInv => TypeOK
  BY DEF IInv
<1> QED
  BY <1>1, Invariance, PTL

\* The table is never searched or extended by two threads (per_loc_lock).
THEOREM Exclusion == Spec => []OneInTable
<1>1. IInv => OneInTable
  BY DEF IInv, LockInv, OneInTable
<1> QED
  BY <1>1, Invariance, PTL

\* No construct gets a second format, whoever races for the first: at most one
\* format is missing from the table, and it is the lock's owner's.
THEOREM Uniqueness == Spec => []OneFormatPerKey
<1>1. IInv => OneFormatPerKey
  <2> SUFFICES ASSUME IInv, NEW i \in 2..Len(formats), NEW j \in 2..Len(formats),
                      KeyOf(formats[i]) = KeyOf(formats[j])
               PROVE  i = j
    BY DEF OneFormatPerKey
  <2> DEFINE In(n) == per_loc[KeyOf(formats[n])] = n
             Out(n) == \E t \in Thread : Uninserted(t, n)
  <2>1. ASSUME NEW t \in Thread, NEW n \in 2..Len(formats), Uninserted(t, n)
        PROVE  per_loc[KeyOf(formats[n])] = 0
    BY <2>1 DEF IInv, Uninserted, ResultInv
  <2>2. (In(i) \/ Out(i)) /\ (In(j) \/ Out(j))
    BY DEF IInv, CompleteInv
  <2>3. CASE Out(i) /\ Out(j)
    BY <2>3 DEF IInv, LockInv, Uninserted, Holding
  <2>4. CASE ~(Out(i) /\ Out(j))
    BY <2>1, <2>2, <2>4
  <2> QED
    BY <2>3, <2>4
<1> QED
  BY <1>1, Invariance, PTL

\* A task's format is that of its own construct, whatever other constructs share
\* its location.
THEOREM Correctness == Spec => []RightFormat
<1>1. IInv => RightFormat
  <2> SUFFICES ASSUME IInv, NEW t \in Thread, pc[t] \in {"idle", "unlock"}, fmtid[t] # 0,
                      NEW f, f = formats[fmtid[t]]
               PROVE  /\ fmtid[t] \in DOMAIN formats
                      /\ IF fmtid[t] = Host
                           THEN call[t].loc = NULL /\ call[t].ir = NULL
                           ELSE /\ f.ir = call[t].ir
                                /\ call[t].ir # NULL => f.scatter = call[t].scatter
                                /\ call[t].ir = NULL => f.loc = call[t].loc
    BY DEF RightFormat
  <2>1. DOMAIN formats = 1..Len(formats) /\ Len(formats) \in Nat /\ Len(formats) >= 1
    BY LenProperties DEF IInv, TypeOK, FormatInv
  <2>2. CASE HasKey(call[t])
    <3>1. /\ fmtid[t] \in 2..Len(formats) /\ KeyOf(f) = KeyOf(call[t])
          /\ call[t] \in Construct /\ f \in Construct /\ HasKey(f)
      BY <2>2 DEF IInv, ResultInv, CallInv, FormatInv
    <3>2. f.ir = call[t].ir /\ (f.ir = NULL => f.loc = call[t].loc)
      BY <2>2, <3>1, KeyAssumption, ConstructAssumption DEF KeyOf, HasKey
    <3>3. call[t].ir # NULL => f = call[t]
      BY <3>1, <3>2, IrAssumption
    <3> QED
      BY <2>1, <3>1, <3>2, <3>3 DEF Host
  <2>3. CASE ~HasKey(call[t])
    <3>1. fmtid[t] = Host
      BY <2>3 DEF IInv, ResultInv, CallInv
    <3> QED
      BY <2>1, <2>3, <3>1 DEF HasKey, Host
  <2> QED
    BY <2>2, <2>3
<1> QED
  BY <1>1, Invariance, PTL

-------------------------------------------------------------------------------
(* The refinement.                                                         *)

\* To its callers, the locked search and insertion is one atomic look-up: the
\* step that counts is Find or Create, and there the table knows exactly the
\* constructs that have a format.
THEOREM Refinement == Spec => ImplementsTable
<1> DEFINE phase == [t \in Thread |-> Phase(pc[t])]
<1> USE DEF Goto, Phase
<1>1. Init => Table!Init
  BY DEF Init, Table!Init
<1>2. IInv /\ [Next]_vars => [Table!Next]_(Table!vars)
  <2> SUFFICES ASSUME IInv, [Next]_vars PROVE Table!Next \/ UNCHANGED Table!vars
    OBVIOUS
  <2> USE DEF IInv, TypeOK, Holding
  <2>1. ASSUME NEW t \in Thread, NEW c \in Construct, Call(t, c) PROVE Table!Ask(t, c)
    BY <2>1 DEF Call, Table!Ask
  <2>2. ASSUME NEW t \in Thread, NEW c \in Construct, CallKeyless(t, c)
        PROVE  Table!AskKeyless(t, c)
    BY <2>2 DEF CallKeyless, Host, Table!AskKeyless
  <2>3. ASSUME NEW t \in Thread, Lock(t) \/ Miss(t) \/ Insert(t) PROVE UNCHANGED Table!vars
    BY <2>3 DEF Lock, Miss, Insert, Table!vars
  <2>4. ASSUME NEW t \in Thread, Find(t) PROVE Table!Answer(t)
    <3>1. phase[t] = "asked" /\ phase' = [phase EXCEPT ![t] = "answered"]
      BY <2>4 DEF Find
    <3>2. per_loc[KeyOf(call[t])] \in Table!Known(call[t])
      BY <2>4, KeyOfInKey DEF Find, CallInv, TableInv, Same, Table!Known
    <3> QED
      BY <2>4, <3>1, <3>2 DEF Find, Table!Answer
  <2>5. ASSUME NEW t \in Thread, Create(t) PROVE Table!Answer(t)
    <3>1. phase[t] = "asked" /\ phase' = [phase EXCEPT ![t] = "answered"]
      BY <2>5 DEF Create
    <3>2. per_loc[KeyOf(call[t])] = 0
      BY <2>5 DEF Create, CallInv
    <3>3. ASSUME NEW i \in Table!Known(call[t]) PROVE FALSE
      <4>1. i \in 2..Len(formats) /\ per_loc[KeyOf(formats[i])] # i
        BY <3>2 DEF Same, Table!Known
      <4>2. PICK u \in Thread : Uninserted(u, i)
        BY <4>1 DEF CompleteInv
      <4> QED
        BY <2>5, <4>2 DEF Create, Uninserted, LockInv
    <3> QED
      BY <2>5, <3>1, <3>3 DEF Create, Table!Answer
  <2>6. ASSUME NEW t \in Thread, Unlock(t) PROVE Table!Return(t)
    BY <2>6 DEF Unlock, Table!Return
  <2>7. CASE UNCHANGED vars
    BY <2>7 DEF vars, Table!vars
  <2> QED
    BY <2>1, <2>2, <2>3, <2>4, <2>5, <2>6, <2>7 DEF Next, Step, Table!Next
<1> QED
  BY <1>1, <1>2, Invariance, PTL DEF Spec, ImplementsTable, Table!Spec
===============================================================================
