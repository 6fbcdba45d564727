-------------------------------- MODULE Context --------------------------------
(* What xkomp_get builds (src/api.cc), and the calls that begin with it.   *)

\* What the first call builds, in its order.
Parts == <<"per_loc", "per_loc_lock", "connect", "runtime", "env", "formats", "taskgraphs", "teams">>

Entry == {"parallel", "task", "taskgraph", "max_threads", "devices"}

\* The entry points that any thread may call: omp_get_max_threads and those of
\* the devices ask nothing of the calling thread, the others that XKRT knows it.
Public == {"max_threads", "devices"}
===============================================================================
