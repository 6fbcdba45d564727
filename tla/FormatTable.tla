------------------------------ MODULE FormatTable ------------------------------
(***************************************************************************)
(* What get_or_create_loc_format promises a task allocation: one task      *)
(* format per construct, made the first time any thread asks for it and    *)
(* handed to everybody who asks for the same construct again.  No lock, no *)
(* table: a request is answered in one step.                               *)
(***************************************************************************)
EXTENDS Integers, Sequences

CONSTANTS
  Thread,
  Construct,   \* the task constructs of the program
  Template,    \* the shared "omp-task" format every other one copies
  Keyless,     \* the constructs with nothing to tell them by
  Same(_, _)   \* do two constructs share their format?

VARIABLES
  formats,   \* the registered formats, each with the construct it was made for
  phase,     \* "idle", "asked", "answered"
  call,      \* the construct each thread asked for last
  fmtid      \* the format it was given

vars == <<formats, phase, call, fmtid>>

Init ==
  /\ formats = <<Template>>
  /\ phase = [t \in Thread |-> "idle"]
  /\ call = [t \in Thread |-> Template]
  /\ fmtid = [t \in Thread |-> 0]

Ask(t, c) ==
  /\ phase[t] = "idle" /\ c \notin Keyless
  /\ phase' = [phase EXCEPT ![t] = "asked"]
  /\ call' = [call EXCEPT ![t] = c]
  /\ UNCHANGED <<formats, fmtid>>

AskKeyless(t, c) ==
  /\ phase[t] = "idle" /\ c \in Keyless
  /\ call' = [call EXCEPT ![t] = c]
  /\ fmtid' = [fmtid EXCEPT ![t] = 1]
  /\ UNCHANGED <<formats, phase>>

Known(c) == {i \in 2..Len(formats) : Same(formats[i], c)}

Answer(t) ==
  /\ phase[t] = "asked"
  /\ phase' = [phase EXCEPT ![t] = "answered"]
  /\ \/ \E i \in Known(call[t]) :
          fmtid' = [fmtid EXCEPT ![t] = i] /\ UNCHANGED formats
     \/ /\ Known(call[t]) = {}
        /\ formats' = Append(formats, call[t])
        /\ fmtid' = [fmtid EXCEPT ![t] = Len(formats) + 1]
  /\ UNCHANGED call

Return(t) ==
  /\ phase[t] = "answered"
  /\ phase' = [phase EXCEPT ![t] = "idle"]
  /\ UNCHANGED <<formats, call, fmtid>>

Next ==
  \E t \in Thread :
    Answer(t) \/ Return(t) \/ \E c \in Construct : Ask(t, c) \/ AskKeyless(t, c)

Spec == Init /\ [][Next]_vars
===============================================================================
