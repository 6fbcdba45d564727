------------------------------ MODULE FormatCache ------------------------------
(***************************************************************************)
(* get_or_create_loc_format (src/kmp/task.cc): the task formats, one per   *)
(* task construct, created by the first allocation of a task of that       *)
(* construct and found again by the later ones.  Any thread allocates      *)
(* tasks, so the table is searched and extended under per_loc_lock; the    *)
(* test for a construct without a key is made outside of it.               *)
(*                                                                         *)
(* A construct is what the compiler passes in: the source location and the *)
(* forwarded program, NULL when there is none (or an empty one), and       *)
(* whether its parameters are scattered.  A format is modelled by the      *)
(* construct it was filled from, which decides its label, its program and  *)
(* the program's prototype; the function pointers are the template's.      *)
(***************************************************************************)
EXTENDS Integers, Sequences

CONSTANTS
  Thread,
  NoThread,     \* the lock's owner when it is free
  Loc,          \* ident_t pointers
  Ir,           \* pointers to forwarded programs
  NULL,
  Construct,    \* the task constructs of the program
  Template      \* formats.kmp.host

ASSUME ThreadAssumption == NoThread \notin Thread

ASSUME KeyAssumption == Loc \cap Ir = {} /\ NULL \notin Loc \cup Ir

ASSUME ConstructAssumption ==
  /\ Construct \subseteq [loc : Loc \cup {NULL}, ir : Ir \cup {NULL}, scatter : BOOLEAN]
  /\ Template \notin Construct

\* "The IR is emitted once per construct": the forwarded program tells the
\* construct, which a location does not.
ASSUME IrAssumption ==
  \A c, d \in Construct : c.ir = d.ir /\ c.ir # NULL => c = d

Key == Loc \cup Ir

VARIABLES
  lock,      \* formats.kmp.per_loc_lock: its owner
  per_loc,   \* formats.kmp.per_loc, 0 for a key that is not in it
  formats,   \* the runtime's formats; a format's id is its place
  pc,        \* where each thread is in the function, "idle" outside
  call,      \* the construct of its last call, Template before the first
  fmtid      \* the value it found, created or returned

vars == <<lock, per_loc, formats, pc, call, fmtid>>

Host == 1

HasKey(c) == c.loc # NULL \/ c.ir # NULL

\* Mutation: the location first, the program only without one.
KeyOfLoc(c) == IF c.loc # NULL THEN c.loc ELSE c.ir

KeyOf(c) == IF c.ir # NULL THEN c.ir ELSE c.loc

Init ==
  /\ lock = NoThread
  /\ per_loc = [k \in Key |-> 0]
  /\ formats = <<Template>>
  /\ pc = [t \in Thread |-> "idle"]
  /\ call = [t \in Thread |-> Template]
  /\ fmtid = [t \in Thread |-> 0]

Goto(t, l) == pc' = [pc EXCEPT ![t] = l]

\* Mutation: no format at all for a construct without a key.
CallKeylessNone(t, c) ==
  /\ pc[t] = "idle" /\ ~HasKey(c)
  /\ call' = [call EXCEPT ![t] = c]
  /\ fmtid' = [fmtid EXCEPT ![t] = -1]
  /\ UNCHANGED <<lock, per_loc, formats, pc>>

\* Nothing to tell the construct by: the shared template, without the lock.
CallKeyless(t, c) ==
  /\ pc[t] = "idle" /\ ~HasKey(c)
  /\ call' = [call EXCEPT ![t] = c]
  /\ fmtid' = [fmtid EXCEPT ![t] = Host]
  /\ UNCHANGED <<lock, per_loc, formats, pc>>

Call(t, c) ==
  /\ pc[t] = "idle" /\ HasKey(c)
  /\ call' = [call EXCEPT ![t] = c]
  /\ Goto(t, "lock")
  /\ UNCHANGED <<lock, per_loc, formats, fmtid>>

\* Mutation: the table is searched and extended without the lock.
LockNot(t) ==
  /\ pc[t] = "lock"
  /\ Goto(t, "find")
  /\ UNCHANGED <<lock, per_loc, formats, call, fmtid>>

Lock(t) ==
  /\ pc[t] = "lock" /\ lock = NoThread
  /\ lock' = t
  /\ Goto(t, "find")
  /\ UNCHANGED <<per_loc, formats, call, fmtid>>

Find(t) ==
  /\ pc[t] = "find" /\ per_loc[KeyOf(call[t])] # 0
  /\ fmtid' = [fmtid EXCEPT ![t] = per_loc[KeyOf(call[t])]]
  /\ Goto(t, "unlock")
  /\ UNCHANGED <<lock, per_loc, formats, call>>

\* Mutation: the lock is dropped before the new format is created.
MissUnlocks(t) ==
  /\ pc[t] = "find" /\ per_loc[KeyOf(call[t])] = 0
  /\ lock' = NoThread
  /\ Goto(t, "create")
  /\ UNCHANGED <<per_loc, formats, call, fmtid>>

Miss(t) ==
  /\ pc[t] = "find" /\ per_loc[KeyOf(call[t])] = 0
  /\ Goto(t, "create")
  /\ UNCHANGED <<lock, per_loc, formats, call, fmtid>>

\* The new format is filled and registered (task_format_create).
Create(t) ==
  /\ pc[t] = "create"
  /\ formats' = Append(formats, call[t])
  /\ fmtid' = [fmtid EXCEPT ![t] = Len(formats) + 1]
  /\ Goto(t, "insert")
  /\ UNCHANGED <<lock, per_loc, call>>

\* Mutation: the new format is not entered in the table.
InsertForgets(t) ==
  /\ pc[t] = "insert"
  /\ Goto(t, "unlock")
  /\ UNCHANGED <<lock, per_loc, formats, call, fmtid>>

Insert(t) ==
  /\ pc[t] = "insert"
  /\ per_loc' = [per_loc EXCEPT ![KeyOf(call[t])] = fmtid[t]]
  /\ Goto(t, "unlock")
  /\ UNCHANGED <<lock, formats, call, fmtid>>

Unlock(t) ==
  /\ pc[t] = "unlock"
  /\ lock' = NoThread
  /\ Goto(t, "idle")
  /\ UNCHANGED <<per_loc, formats, call, fmtid>>

Step(t) ==
  \/ Lock(t) \/ Find(t) \/ Miss(t) \/ Create(t) \/ Insert(t) \/ Unlock(t)
  \/ \E c \in Construct : Call(t, c) \/ CallKeyless(t, c)

Next == \E t \in Thread : Step(t)

Spec == Init /\ [][Next]_vars

-------------------------------------------------------------------------------
(* Properties.                                                             *)

Holding == {"find", "create", "insert", "unlock"}

TypeOK ==
  /\ lock \in Thread \cup {NoThread}
  /\ per_loc \in [Key -> Nat]
  /\ formats \in Seq(Construct \cup {Template})
  /\ pc \in [Thread -> Holding \cup {"idle", "lock"}]
  /\ call \in [Thread -> Construct \cup {Template}]
  /\ fmtid \in [Thread -> Nat]

\* The unordered_map is never searched while another thread inserts into it,
\* which may rehash it (SPINLOCK_LOCK .. SPINLOCK_UNLOCK).
OneInTable ==
  \A t, u \in Thread : pc[t] \in Holding /\ pc[u] \in Holding => t = u

\* A construct's format is created once, however many threads meet the
\* construct for the first time together.
OneFormatPerKey ==
  \A i, j \in 2..Len(formats) : KeyOf(formats[i]) = KeyOf(formats[j]) => i = j

\* Once given, a task's format is that of its own construct: its program is the
\* construct's and is called the way the construct's parameters are passed, and
\* a construct without a program gets a format without one.  (The comment on
\* the function: keyed by the location, "JIT [would] run that one body for all
\* of them".)
RightFormat ==
  \A t \in Thread : pc[t] \in {"idle", "unlock"} /\ fmtid[t] # 0 =>
    /\ fmtid[t] \in DOMAIN formats
    /\ IF fmtid[t] = Host
         THEN call[t].loc = NULL /\ call[t].ir = NULL
         ELSE /\ formats[fmtid[t]].ir = call[t].ir
              /\ call[t].ir # NULL => formats[fmtid[t]].scatter = call[t].scatter
              /\ call[t].ir = NULL => formats[fmtid[t]].loc = call[t].loc

Same(c, d) == KeyOf(c) = KeyOf(d)

\* How far a call is, as its caller could see it.
Phase(l) == CASE l = "idle" -> "idle"
              [] l \in {"insert", "unlock"} -> "answered"
              [] OTHER -> "asked"

Table == INSTANCE FormatTable WITH
  Keyless <- {c \in Construct : ~HasKey(c)},
  phase <- [t \in Thread |-> Phase(pc[t])]

\* To its callers the function is one atomic look-up.
ImplementsTable == Table!Spec
===============================================================================
