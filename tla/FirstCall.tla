------------------------------- MODULE FirstCall -------------------------------
(***************************************************************************)
(* xkomp_get (src/api.cc) called by several threads at once, as            *)
(* omp_get_max_threads and the device routines may be: the test of the     *)
(* global pointer, the allocation and each part of the context are steps   *)
(* of their own, and nothing excludes one thread's from another's.  What   *)
(* the parts do is Startup's.                                              *)
(***************************************************************************)
EXTENDS Integers, Sequences, Context

CONSTANTS
  Thread,
  MaxCalls   \* bound on the calls

VARIABLES
  pc,          \* per thread: "idle", "test", "alloc", "build", "load", "use"
  xkomp,       \* the global pointer: 0, or which of contexts
  contexts,    \* all that were allocated: the parts each has
  mine,        \* per thread: the context it allocated, or 0
  step,        \* per thread: the part it constructs next
  result,      \* per thread: what xkomp_get returned to it
  overlapped,  \* history: did another thread construct during its call?
  calls,
  mode         \* "running", "fatal"

vars == <<pc, xkomp, contexts, mine, step, result, overlapped, calls, mode>>

AllParts == {Parts[i] : i \in 1..Len(Parts)}

Constructs(t) == pc[t] \in {"alloc", "build"}

Init ==
  /\ pc = [t \in Thread |-> "idle"]
  /\ xkomp = 0 /\ contexts = <<>>
  /\ mine = [t \in Thread |-> 0] /\ step = [t \in Thread |-> 1] /\ result = [t \in Thread |-> 0]
  /\ overlapped = [t \in Thread |-> FALSE]
  /\ calls = 0 /\ mode = "running"

Call(t) ==
  /\ mode = "running" /\ pc[t] = "idle" /\ calls < MaxCalls
  /\ calls' = calls + 1
  /\ pc' = [pc EXCEPT ![t] = "test"]
  /\ overlapped' = [overlapped EXCEPT ![t] = \E u \in Thread : Constructs(u)]
  /\ UNCHANGED <<xkomp, contexts, mine, step, result, mode>>

\* The test found no context: t constructs one, in the middle of others' calls.
Begins(t) ==
  /\ pc' = [pc EXCEPT ![t] = "alloc"]
  /\ overlapped' = [u \in Thread |-> overlapped[u] \/ (u # t /\ pc[u] # "idle")]

\* Mutation: the pointer is thread_local.
TestLocal(t) ==
  /\ mode = "running" /\ pc[t] = "test"
  /\ IF mine[t] = 0 THEN Begins(t)
     ELSE pc' = [pc EXCEPT ![t] = "load"] /\ UNCHANGED overlapped
  /\ UNCHANGED <<xkomp, contexts, mine, step, result, calls, mode>>

\* if (xkomp == NULL)
Test(t) ==
  /\ mode = "running" /\ pc[t] = "test"
  /\ IF xkomp = 0 THEN Begins(t)
     ELSE pc' = [pc EXCEPT ![t] = "load"] /\ UNCHANGED overlapped
  /\ UNCHANGED <<xkomp, contexts, mine, step, result, calls, mode>>

\* The global points to the context before any part of it is there.
Alloc(t) ==
  /\ mode = "running" /\ pc[t] = "alloc"
  /\ contexts' = Append(contexts, {})
  /\ xkomp' = Len(contexts')
  /\ mine' = [mine EXCEPT ![t] = Len(contexts')]
  /\ step' = [step EXCEPT ![t] = 1]
  /\ pc' = [pc EXCEPT ![t] = "build"]
  /\ UNCHANGED <<result, overlapped, calls, mode>>

\* Every part is reached through the global, which the build may have read
\* again or kept from the allocation.
Targets(t) == {mine[t], xkomp}

Advances(t) ==
  /\ step' = [step EXCEPT ![t] = @ + 1]
  /\ pc' = [pc EXCEPT ![t] = IF step[t] = Len(Parts) THEN "load" ELSE "build"]
  /\ UNCHANGED <<xkomp, mine, result, overlapped, calls, mode>>

\* Mutation: a part is guarded by a flag of the process, not of the context.
BuildOnce(t) ==
  /\ mode = "running" /\ pc[t] = "build"
  /\ IF \E c \in 1..Len(contexts) : Parts[step[t]] \in contexts[c]
       THEN UNCHANGED contexts
       ELSE \E c \in Targets(t) : contexts' = [contexts EXCEPT ![c] = @ \cup {Parts[step[t]]}]
  /\ Advances(t)

Build(t) ==
  /\ mode = "running" /\ pc[t] = "build"
  /\ \E c \in Targets(t) : contexts' = [contexts EXCEPT ![c] = @ \cup {Parts[step[t]]}]
  /\ Advances(t)

\* xkomp_env_init refuses the environment and ends the program.
Refuse(t) ==
  /\ mode = "running" /\ pc[t] = "build" /\ Parts[step[t]] = "env"
  /\ mode' = "fatal"
  /\ UNCHANGED <<pc, xkomp, contexts, mine, step, result, overlapped, calls>>

\* Mutation: it returns the local pointer, which only its constructor has set.
LoadOwn(t) ==
  /\ mode = "running" /\ pc[t] = "load"
  /\ result' = [result EXCEPT ![t] = mine[t]]
  /\ pc' = [pc EXCEPT ![t] = "use"]
  /\ UNCHANGED <<xkomp, contexts, mine, step, overlapped, calls, mode>>

\* return xkomp: the global, not what this call allocated.
Load(t) ==
  /\ mode = "running" /\ pc[t] = "load"
  /\ result' = [result EXCEPT ![t] = xkomp]
  /\ pc' = [pc EXCEPT ![t] = "use"]
  /\ UNCHANGED <<xkomp, contexts, mine, step, overlapped, calls, mode>>

Return(t) ==
  /\ mode = "running" /\ pc[t] = "use"
  /\ pc' = [pc EXCEPT ![t] = "idle"]
  /\ UNCHANGED <<xkomp, contexts, mine, step, result, overlapped, calls, mode>>

Next ==
  \E t \in Thread :
    Call(t) \/ Test(t) \/ Alloc(t) \/ Build(t) \/ Refuse(t) \/ Load(t) \/ Return(t)

Spec == Init /\ [][Next]_vars

-------------------------------------------------------------------------------
(* Properties.                                                             *)

TypeOK ==
  /\ pc \in [Thread -> {"idle", "test", "alloc", "build", "load", "use"}]
  /\ contexts \in Seq(SUBSET AllParts)
  /\ xkomp \in 0..Len(contexts)
  /\ {mine, result} \subseteq [Thread -> 0..Len(contexts)]
  /\ \A t \in Thread : pc[t] = "use" => result[t] # 0
  /\ step \in [Thread -> 1..Len(Parts) + 1]
  /\ overlapped \in [Thread -> BOOLEAN]
  /\ calls \in 0..MaxCalls /\ mode \in {"running", "fatal"}

Complete(c) == contexts[c] = AllParts

\* A call during which no other thread constructs uses a complete context, even
\* where earlier first calls raced, overwrote the pointer and constructed in
\* each other's contexts (xkomp_get, api.cc:13-29).  A call that does overlap
\* another's construction is promised nothing.
UseIsComplete ==
  \A t \in Thread : pc[t] = "use" /\ ~overlapped[t] => Complete(result[t])

\* Once there is a context and nobody constructs, the pointer never changes and
\* no part is constructed again under the threads that use it (api.cc:13).
Settled == xkomp # 0 /\ \A t \in Thread : ~Constructs(t)
SettledForever == [][Settled => Settled' /\ UNCHANGED <<xkomp, contexts>>]_vars
===============================================================================
