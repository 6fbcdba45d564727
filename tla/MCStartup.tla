------------------------------- MODULE MCStartup -------------------------------
(* Processes for TLC: every list of up to two tool libraries, a tool linked *)
(* in or not, and the values of the variables, one group at a time.        *)
EXTENDS Startup

Plain ==
  [OMP_NUM_THREADS |-> Unset, OMP_THREAD_LIMIT |-> Unset, OMP_PLACES |-> Unset,
   OMP_PROC_BIND |-> Unset, OMP_TASKGRAPH_OPT |-> Unset,
   OMP_TOOL |-> Unset, OMP_TOOL_LIBRARIES |-> <<>>]

Lists(S) == {<<>>} \cup {<<a>> : a \in S} \cup {<<a, b>> : a \in S, b \in S}

Numbers == {Unset, Empty, Junk, -2, 2, 5}
Optimisations ==
  {Unset, {}, {"none"}, {"none", "jit"}, {"prog-fuse"}, {"prog-fuse", "jit"}, {"no-such-pass"}}

Environments ==
       {[Plain EXCEPT !.OMP_NUM_THREADS = n, !.OMP_THREAD_LIMIT = l] : n \in Numbers, l \in Numbers}
  \cup {[Plain EXCEPT !.OMP_TASKGRAPH_OPT = o] : o \in Optimisations}
  \cup {[Plain EXCEPT !.OMP_PLACES = p, !.OMP_PROC_BIND = b] :
          p \in {Empty, "sockets", "nowhere"}, b \in {Empty, "spread", "anyhow"}}

Tools == {"missing", "nosymbol", "null", "declines", "works"}
Listing(l) == [Plain EXCEPT !.OMP_TOOL_LIBRARIES = l]

Processes ==
       {[environ |-> Listing(l), linked |-> "none"] : l \in Lists(Tools)}
  \cup {[environ |-> Listing(l), linked |-> "null"] : l \in {<<>>, <<"works">>}}
  \cup {[environ |-> Listing(l), linked |-> k] : l \in {<<>>, <<"works">>}, k \in {"declines", "works"}}
  \cup {[environ |-> [Plain EXCEPT !.OMP_TOOL = "disabled", !.OMP_TOOL_LIBRARIES = <<"works">>],
         linked |-> "works"]}
  \cup {[environ |-> e, linked |-> "none"] : e \in Environments}

\* Every event that occurs, one that never does, and no event.
EveryEvent == UNION {Emitted(f) : f \in Entry} \cup {"work", "outside"}

OneChange == {[Plain EXCEPT !.OMP_NUM_THREADS = 2]}
PlainProcess == {[environ |-> Plain, linked |-> "none"]}
===============================================================================
