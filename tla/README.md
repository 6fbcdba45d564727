# A TLA+ model of XKOMP

XKOMP is an OpenMP runtime library on top of the XKRT runtime. Compilers call
its entry points (`__kmpc_*` for LLVM, `GOMP_*` for GCC); it translates them
into XKRT teams, tasks, accesses, formats and command graphs. This directory
holds TLA+ modules for its own logic, TLC configurations that check them on
small instances, and theorems that TLAPS checks for all instances. XKRT itself
is not in this repository: what the model needs of it is written down from the
way the code calls it, and every such definition is marked external in
`PROJECT.json`.

Contents: [inventory](#inventory) · [hard behaviours](#what-is-hard) ·
[modules](#modules) · [runs](#runs) · [findings](#findings) ·
[proofs](#proofs) · [not modelled](#not-modelled) · [plan](#plan).
To check a run: `tlc -workers 2 -config MCOmptTeam.cfg MCOmptTeam.tla`; to check the
proofs of a module: `tlapm FormatCacheProofs.tla`.

## Inventory

| Component | Source | State it keeps | Operations |
|---|---|---|---|
| Explicit tasks | `src/kmp/task.cc`, `include/xkomp/kmp.h` | a task's flags, its access slots, the part of an untied task (`part_id`), its record of commands; XKRT's task tree, taskgroups, ready tasks | `task_alloc` behind `__kmpc_omp_task_alloc` and its variants, `__kmpc_omp_task`, `__kmpc_omp_task_with_deps(_v2)`, `__kmpc_omp_taskwait`, `xkomp_taskwait_deps`, `__kmpc_taskgroup`, `__kmpc_end_taskgroup`, the bodies XKRT calls back (`body_omp_task`, `body_omp_task_target`) |
| Task formats | `src/kmp/task.cc`, `src/kmp/formats.cc` | `formats.kmp.host`, the map `per_loc`, its lock | `get_or_create_loc_format` |
| Parallel regions | `src/kmp/fork.cc`, `src/xkomp/parallel.cc`, `src/kmp/barrier.cc` | `pushed_num_threads` of a thread, the cached teams `omp->teams`, a team's `desc.args`, the argument block of a fork | `__kmpc_push_num_threads`, `__kmpc_fork_call`, `xkomp_parallel`, `fork_call_wrapper`, `__kmpc_barrier` |
| Taskgraphs | `src/xkomp/taskgraph.cc`, `include/xkomp/xkomp++.h` | per graph: `tdg`, `cg`, the counter `rc` | `xkomp_taskgraph_begin`, `_end`, `pragma_omp_taskgraph`, `pragma_omp_taskgraphloop`, `_n` |
| OMPT | `src/ompt/ompt.cc` | the callback table, `OMPT_ENABLED`, the tool and its library handle, thread-local data | tool discovery, initialisation, finalisation, translation of XKRT's events |
| Start-up | `src/api.cc` | the global `xkomp` | `xkomp_get` |
| Environment | `src/env.cc` | `env.OMP_*` | `xkomp_env_init` |
| Devices | `src/device.cc` | none | two conversions of device numbers, `omp_target_*` |
| Target transfers | `src/kmp/target/api.cc` | none | `__kmp_omp_target_memcpy_async` |
| Worksharing | `src/kmp/for.cc`, `single.cc`, `master.cc` | none | static bounds, `single`, `master`, `masked` |
| GOMP entry points | `src/gomp/*.cc` | an argument block on the caller's stack | `GOMP_parallel`; `GOMP_task` aborts |
| Allocator, microtask calls | `src/kmp/allocator.cc`, `src/kmp/arch/*` | none | `malloc`/`free`, calling conventions |

How they interact. A thread that meets a parallel construct calls
`__kmpc_push_num_threads`, if there is a clause, and `__kmpc_fork_call`, which
allocates an argument block and calls `xkomp_parallel`; that picks or creates a
team and hands the block to its members. Each runs `fork_call_wrapper`, which
calls the outlined region and then the barrier that also drains the team's
tasks. Code in the region creates tasks: an allocation asks the format cache
for the construct's format, reserves slots and returns; the submission writes
the clause items into the slots, resolves them, commits the task, and waits if
the task is undeferred. A thread that waits runs other ready tasks on its own
stack. Inside a taskgraph that is being recorded, a task that has run leaves a
command; the second pass turns them into a command graph. The OMPT bridge is
called by XKRT at all of these points.

What makes each one correct:

- *tasks*: the depend items of siblings order and exclude them as OpenMP says,
  whichever ABI and whichever of the three lists carried them; no slot is
  resolved that nobody constructed; no wait returns early, none is stuck; the
  end of a taskgroup is a deep wait; everything submitted is run;
- *formats*: a construct has one format and a task gets that of its own
  construct, whatever threads do at the same time;
- *parallel regions*: every member runs its own region's code once, with
  arguments that are allocated; barriers hold; a clause governs its own region;
  the limits of the environment hold; every region is joined;
- *taskgraphs*: each pass runs each body once and is over when the construct
  ends; the loops run the iterations they promise;
- *OMPT*: events nest on every thread and name the region they belong to, the
  dependences a tool is told are the program's, it is called for nothing it was
  told never occurs, it is finalised once and its library closed;
- *start-up*: a call that races nobody's construction uses a whole context, and
  it stays; the two places that compute the number of threads agree when they
  should;
- *devices*: numbers round-trip and transfers reach the devices they name.

## What is hard

`PROJECT.json` lists the hazards, each at its line. In short: three threads in
one `unordered_map` behind one lock; slots written by a later call than the one
that reserved them, through three lists with running offsets; waits that run
other tasks on the waiting thread's own stack, where a task that waits for one
suspended beneath it would deadlock; taskgroups that must wait for descendants
although a task is counted for one group only; persistent teams that keep a
pointer to a block of the last region; `0` as "not asked for" in four places;
graphs whose counter outlives the pass and the loop; the frames of an untied
task's parts; a context that is published before it is built, without a lock; a tool's data in
teams that are reused; a table of callbacks that outlives its tool.

## Modules

| Module | Source | What it is |
|---|---|---|
| `TaskAccess` | `task.cc`, `kmp.h` | clause items to access slots, and when two slots order or exclude their tasks |
| `OmpTasking` | – | abstract: OpenMP's own view of tasks, clauses, waits; no threads, no slots |
| `KmpTask` | `task.cc`, `fork.cc`, `barrier.cc`, `target/api.cc` | the tasking entry points, the asynchronous copy, and the team that runs tasks |
| `OmptTask` | `ompt.cc` 160–260 | extends `KmpTask`: what a tool is told of a task's creation and dependences |
| `FormatTable` | – | abstract: one atomic look-up per call |
| `FormatCache` | `task.cc` 243–334 | the locked search and insertion, step by step |
| `ForkJoin` | – | abstract: regions, members, barriers, join |
| `Team` | `fork.cc`, `parallel.cc`, `barrier.cc` | num_threads, cached teams, dispatch, barrier, join |
| `OmptTeam` | `ompt.cc` | extends `Team`: the events of threads, regions, implicit tasks and barriers, and a tool's data |
| `Taskgraph` | `taskgraph.cc`, `xkomp++.h` | extends `KmpTask`: record, build, replay |
| `TaskgraphLoop` | `xkomp++.h` 84–143 | the two loops over one graph |
| `Context` | `api.cc` | the parts of the global context, the entry points that build it |
| `FirstCall` | `api.cc` | `xkomp_get`, step by step, by threads that race in it |
| `Devices` | `device.cc`, `target/api.cc` | the numbers of devices, and which devices transfers name |
| `Startup` | `api.cc`, `env.cc`, `ompt.cc` 380–771 | uses `Context` and `Devices`: the context, the environment, the life of a tool |
| `KmpTaskProofs` | | theorems about `KmpTask`: types, waits, taskgroups |
| `KmpOrderProofs` | | about `KmpTask` and `OmptTask`: slots, dependences, the refinement of `OmpTasking` |
| `FormatCacheProofs` | | about `FormatCache`, with the refinement of `FormatTable` |
| `TeamProofs` | | about `Team`, with the refinement of `ForkJoin` |
| `OmptTeamProofs` | | about `OmptTeam`, with its refinement of `Team` |
| `TaskgraphProofs`, `TaskgraphLoopProofs` | | about `Taskgraph` and `TaskgraphLoop` |
| `StartupProofs` | | about `Startup` and `Devices` |
| `MCKmpTask`, `MCAllMemory`, `MCFormatCache`, `MCOmptTeam`, `MCTaskgraph`, `MCFirstCall`, `MCStartup` | | instances for TLC |

Definitions whose comment begins with "Mutation:" are not part of the model:
each is a plausible bug in the definition that follows it, and shows that a
property notices.

**KmpTask.** `status`, `attr`, `parent`, `clause`, `slots` are the task's
fields in `task_t`/`kmp_task_t`. `pc` and `await` say what the task's code is
blocked in; `part` counts the nested frames of an untied task; `runner` and
`below` are the threads' stacks: a thread only moves the task on top. `cur`,
`bound`, `groups` are XKRT's taskgroup pointers, `regions` a history variable.
`TaskAlloc` is `task_alloc` behind all of its entry points, `OmpTask`,
`OmpTaskReenter` and `OmpTaskWithDeps` the submission (a new task without
items, the next part of a running untied task, a task with items), `Fatal` the
`LOGGER_FATAL` paths. `Schedule`, `Complete`, `DeviceBegin`, `DeviceComplete`
and the readiness of tasks are XKRT's. The allocation and the submission are
two actions, with other threads' steps in between, as they are two calls.

An item without an address is skipped by the code, whatever its flags, and its
slot stays as the allocation left it: inert where that padded it (a task, under
the stock ABI), unconstructed (`Garbage`) where nothing did (the patched ABI,
the empty task of a taskwait, an asynchronous copy). `Resolve` hands the slots
to XKRT; what becomes of an unconstructed one is not known, so the model then
stops in the mode "undefined". omp_all_memory is such an item (`AllMemory`), as
a compiler emits it: the refusal of the `all` bit stands behind the test of the
address. Under the stock ABI it is lost, and the order of tasks is that of
OpenMP for the clauses without it only (`OrderableClauses`).

`Tasking` maps it to `OmpTasking`: allocated tasks do not exist yet, committed
ones are created, and so on. There, `MustOrder` and `MustExclude` are written
from OpenMP's rules for item kinds; the mapped model orders tasks through
`AcMode`, `DepConcurrency` and the slots. That the second implements the first
is what the conversions, the offsets and the two ABIs have to get right.

`TargetMemcpyAsync` is `__kmp_omp_target_memcpy_async`: a task of the copy's
source device, complete when its copy is, whose items come from a list of
depobjs, each converted into one slot, and which is allocated and committed by
one call.

**OmptTask.** `EXTENDS KmpTask` by operators only. The bridge derives the
dependences it reports from the resolved accesses and not from the clause, so
`ToolSeesOrder` follows a depend item all the way from the compiler's three
lists through offsets, slots, modes and concurrencies to OMPT's dependence
types, and compares the order a tool can rebuild from them with the one
OpenMP's rules give (`Tasking!MustOrder`, `Tasking!MustExclude`). The one
difference it admits is the code's (`Unnamed`): of two concurrent items of one
address, where one is a read in a concurrent write, the tool is told of an
`inout`, OMPT having no type for it.

**FormatCache.** A key is the forwarded program (IR) if there is one, else the
source location. Each of lock, find, create, insert, unlock is an action.
`Table` maps it to one atomic answer per call.

**Team.** The initial thread is member 0 of every cached team. A region's
number also stands for its argument block; `live` is the set of blocks not
freed. A nested region is a frame on its thread's stack. `FJ` maps it to
`ForkJoin` by how many barriers each member of each region has passed.

**OmptTeam.** `EXTENDS Team`: each action is Team's, joined with what the
bridge does at that step. A tool's view of a thread, `seen`, is the stack of
scopes that have begun and not ended; an end that is not that of the innermost
one stays in it as `unmatched`. A scope carries the datum that the tool stored
in the slot the bridge passed: `teamData` and `taskData` are the slots of
cached teams, which outlive a region, `nested` those of one-shot teams. The
tool of the model fills a slot when it finds it empty, so a slot that is not
reset shows the number of an earlier region. Events that XKOMP emits test
`OMPT_ENABLED` (`Emits`); those XKRT emits are registered once and never
unregistered (`Calls`). A tool may finalise itself from a callback, inside of
regions (`FinalizeTool`, on the threads of `Finalizing`): `do_finalize` balances
the scopes of the calling thread and switches `OMPT_ENABLED` off, and the region
goes on. From then on XKOMP's events are silent, and the tool is still called
for barriers and for threads that start, with the data its slots happen to
hold. `EventsNest` says that even those nest on every other thread: nothing is
ended that had not begun. The thread that finalised is left out, since its
thread scope is ended beneath its open regions. Two callbacks in which a tool
could finalise itself are left out: that of its own thread's beginning, and
those `do_finalize` itself makes.

**Startup.** The first call builds the context part by part (`Parts`, in the
order of the code), the pointer to it being set first. Within `runtime` XKRT
calls the bridge, which looks for a tool, in the address space or in a list of
libraries, each of which can fail in four ways. The environment maps variables
to unparsed values; `Load` is what becomes of them, `Refused` the two fatal
paths. `SetEnv` is the program's own `setenv`. Later calls use the context;
a parallel region describes its team (`TeamDescInit`) and lets workers call.
The program's exit and a tool's call of `ompt_finalize_tool`, on any thread,
run the same finalisation, whose steps interleave (`Claim`, `Balance`,
`ToolFinalize`, `CloseLibrary`). `called` records what a tool is called for: by
`RuntimeInit` (the initial thread begins), by the entry points (`Emitted`) and by
`Balance`. Besides the initial thread and the workers XKRT creates there are
`Outsiders`, threads of the program in no team. `omp_get_max_threads` and the
device routines ask nothing of the calling thread (`Public`), so these call them
at any time once the pointer is set, in the middle of the first call's
construction too; what they then read is `FirstCall`'s subject.

**FirstCall.** `xkomp_get` alone, by threads that may all find no context: the
test, the allocation that overwrites the global pointer, and the construction
of each part, in the context the thread allocated or in the one the pointer
shows by then (`Targets`), are steps of their own. A part may come to be
constructed twice, and a thread may be given a context others are still
building. Two things hold nevertheless: a call during which no other thread
constructs uses a complete context, even after earlier calls have raced
(`UseIsComplete`), and once nobody constructs, the context stays what it is
(`SettledForever`). Of a call that overlaps a construction nothing holds, and
nothing in the repository promises anything.

**Devices.** Operators: the two conversions with C's remainder and its division
by zero, and the devices an allocation, a copy and an asynchronous copy name.

**Taskgraph.** `EXTENDS KmpTask`. While one thread records, the tasks it
creates carry the record flag and leave a command when they have run (`cmds`,
in `KmpTask`, since that happens in `body_omp_task`). The second pass copies
them into the graph; each replay runs every command, in the order the tasks'
accesses impose. The model keeps to what the interface supports: one thread,
no nesting, no task creation by a recorded task, no device task.

**TaskgraphLoop.** Arithmetic of `done`, `unroll`, `whole` and the graph, for
several loops over one graph. `OneUnroll` says that all of them use the same
`unroll`.

## Runs

| Run | Instance | Distinct states | Checks |
|---|---|---|---|
| `tasking_constructs` | 2 tasks, 2 threads, both ABIs; undeferred, untied, device tasks, asynchronous copies; all four depend kinds, and nine clauses over the three lists | 803 000 | types; slots constructed; no stuck wait; a tool sees the program's order; implements OpenMP tasking |
| `tasking_groups` | 3 tasks, 2 taskgroups, 2 threads | 514 000 | taskgroups are deep; no stuck wait |
| `tasking_liveness` | 2 tasks, 1 taskgroup, undeferred, device and mutexinoutset tasks | 127 000 | committed tasks complete; the region ends |
| `format_cache` | 3 threads, 4 constructs, 3 at one location | 57 000 | one thread in the table; one format a construct; the right one; one atomic look-up |
| `team` | 3 regions, nesting 2, clauses -1 and 4, limit 2, default 3, 1 barrier, 2 cached teams, with and without a tool, which may finalise itself | 285 000 | live arguments; clauses; the cache suffices; fork-join; every region joins; events nest, name their region, balance at the end |
| `taskgraph` | 3 tasks with dependences, 2 threads, 3 passes | 854 000 | every pass runs every body once and completes |
| `taskgraph_loop` | 3 loops, trip counts to 5, `unroll` 0 to 3 | 570 | exact trip count; bounded overshoot; the loops return |
| `first_call` | 2 threads, 4 calls | 64 000 | a call that overlaps no construction uses a complete context; the context settles |
| `startup` | 1 worker, 1 thread of no team, 3 calls, 88 processes: values of the variables, lists of up to 2 tool libraries, a tool linked in | 3 088 000 | thread counts agree; devices; a tool is called for what it was told, loaded and finalised once |
| `taskgraph_untied`, `all_memory`, `startup_env` | see findings | | violated |

Why the bounds are enough for what is asked. Two siblings order or exclude each
other pairwise, so `tasking_constructs`, where the interesting part is the data,
has two tasks and wide clauses, one of which has one item more than the stock
ABI's slots (scaled to 2); that the order of pairs is OpenMP's for any number of
tasks is proved. Two threads let a task be created, run and awaited on different
stacks, and three tasks on two threads (`tasking_groups`, `taskgraph`) let a
waiting thread pick a task unrelated to the one awaited and make a stack of
three. Two groups let one be inside the other, or be opened by a task of the
other. The format cache needs one thread
inside, one that waits for the lock and one that comes later. A third region
lets a team be reused after a nested region, or after a region of another size.
Three passes are record, build-and-replay, plain replay.
The cache of teams holds exactly as many teams as the instance has thread
counts: one place less and the assertion fails. Of the clauses in `team` one is
clamped at 0, which leaves the size to XKRT, and one is above the limit. The
tool finalises itself on the initial thread or on one worker of the default
team; the proofs have any set of threads. In `first_call` two threads make all
the races there are between two first calls, and a third and fourth call come
after them or in between; three threads are too many for the five minutes a run
is given. In `startup` one worker is enough to race the initial thread at the
finalisation; three calls are the one that builds, one of the initial thread's
region and one of a worker in it, or one of an outsider at any point; two
libraries let the second be reached after each way the first can fail. `IntMax`
is 7 and the machine has 4 cores, so that values lie on either side of both, and
numbers may be negative; unsigned numbers wrap at 16. A tool sets a callback for
one of the events the bridge emits, all ten in turn, for one that never occurs
or for none at all: the events do not depend on each other. Thread symmetry is
used in runs that check no liveness and distinguish no thread. Deadlock is
checked in every run but `first_call`, whose threads stop at the bound on calls; a
finished program stutters in `Done` or `Finished`.

Fairness. `KmpTask`: weak fairness for each thread (the operating system
schedules all of them, and the code of a task ends), for the device (it
completes what it was given) and for the barrier. Not for a choice among ready
tasks: a thread may always prefer another. `Team` and
`OmptTeam`: weak fairness for each thread and for a barrier at which everybody
stands. `TaskgraphLoop`: the host
thread goes on. None is stronger than an operating system that schedules every
thread.

## Findings

- `all_memory`: a task with depend on omp_all_memory is refused as "Not
  implemented" by the code that reads the bit, which no compiler's item reaches,
  since it has no address and the test in front skips it. Under the stock ABI the
  task is submitted with inert slots and ordered with none of its siblings,
  where `SUPPORT.md` lists `depend` as supported.
- `startup_env`: the comment on `xkomp_env_init` quotes OpenMP, that changes the
  program makes to its environment are ignored, and says that the routine runs
  when the program starts. It runs in the first call into the library; the
  constructor that could run it early has the call commented out.
- `taskgraph_untied`: the parts of an untied task nest in `body_omp_task`, and
  each frame appends a command, so a recorded untied task of two parts is
  replayed by two commands, where the code's comment and the taskgraph test
  say once.

Not findings, but worth knowing. The cache of teams never drops one:
`TeamsFit` holds with as many thread counts as it has places and fails with one
more, which the header says is not expected. `OMP_THREAD_LIMIT` is compared
with the number asked for: with neither a clause nor `OMP_NUM_THREADS` that is 0,
and XKRT's default may then exceed the limit (`omp_get_max_threads` does apply it
to the default). A negative `OMP_NUM_THREADS` is returned as it is by
`omp_get_max_threads`, and is a huge number cut to the limit for a region. A
taskwait with depend on omp_all_memory resolves an access that nobody
constructed. First calls of `xkomp_get` that race construct in each other's
contexts. A tool that finalises itself inside a region is still called for the
events XKRT reports, since only XKOMP's own events test `OMPT_ENABLED`. The
initial thread may end the process while a worker has begun the tool's
finalisation and not called it yet, which `FinalizedOnce` leaves out.

## Proofs

Every safety property the passing runs check but those of `first_call`, and every
refinement, is also a theorem: TLAPS proves it for all values of the constants
that satisfy the named assumptions of the modules (they say what a constant is: numbers are natural,
threads are not tasks, the initial thread is no worker, variables of the
environment are numbers or junk). Where a theorem has a hypothesis of its own
it is given below; each one is true of an instance that a run checks.

**FormatCacheProofs.** Types, mutual exclusion in the table, one format a
construct, the right format, and the refinement of `FormatTable`. The inductive
invariant adds to them what the lock protects: who holds it is the thread
between `lock` and `unlock`; outside of it every format but the template is in
the table and the table holds formats of the right key; between `Miss` and
`Insert` exactly one format may be missing, that of the lock's owner. Without
that, uniqueness is not inductive: nothing would say that a key not in the
table has no format. It rests on the assumption, in a comment of the code, that
the IR is emitted once per construct.

**KmpTaskProofs.** Types (`TypeCorrect`), `WaitsForLater` (`NoStuckWait`) and
`TaskgroupDeep` (`DeepWait`), for any team, any number of tasks and groups, any
clauses. A wait for children is never stuck because a child starts after its
parent (`BelowInv`). A taskgroup's end also awaits tasks that are not children;
it is safe since an open group's owner has been executing since before any of
them was created. `GroupInv` says that, with the nesting of a task's open
groups (`OpenInv`), the group each task is in (`CurInv`), the one it counts for
(`BoundInv`), and that the ancestors of a task lie between it and the owner
(`AncestorInv`). `TaskgroupDeep` needs one invariant more: a task is counted
for its innermost group only, and `RegionInv` says that while it has not
completed every region around it stays open, the outer ones through the owner
of the inner one.

**KmpOrderProofs.** `SlotsConstructed` (`AccessesConstructed`), `ToolSeesOrder`
(`ToolReadsOrder`) and the refinement of `OmpTasking` (`TaskingImplemented`).
The invariant they share is `SubmitInv`: a task that is allocated is the last
its creator created, and the creator can do nothing but submit it; item `i` of
a submitted clause, counted through its three lists, is in slot `i`, and the
slots without an item are inert (`SlotsAs`, from the lemma `FillClauseIs`).
From there a pair of items is followed to its pair of accesses (`Renders`,
`AccessesOrder`): XKRT orders and excludes the accesses exactly when OpenMP
does the items. The refinement also needs that siblings are numbered in the
order in which they are submitted, although allocation and submission are two
calls. The two theorems about order have the hypothesis `OrderableClauses`: an
item of a depend clause has one dependence type, an access reads or writes, and
under the stock ABI there is no omp_all_memory, for which they are false (the
finding `all_memory`). The flags of the interface could say more, and there the
translation of the flags has an order of its own. `SlotsConstructed` has no
hypothesis: whatever the clauses, only an item without an address leaves its
slot unconstructed.

**TeamProofs.** `ArgsLive`, `ClauseOfItsOwn`, `TeamsFit`, types, and the
refinement of `ForkJoin`, for any sizes, limits, nesting, barriers and numbers
of regions. The frames of a thread are a cached team's region and then nested
ones it forked itself, each younger than the one around it, all with allocated
blocks (`FrameInv`); a block is allocated while its forker is in the region
(`LiveInv`); a worker is in no cached team's region but the initial thread's
(`WorkerInv`). What makes a worker's read of its argument block safe is
`DispatchInv`: as long as a worker has not taken up the region, the initial
thread is in that very region and has passed none of its barriers, so that it
cannot have joined it. `CacheSuffices` has the hypothesis that there are no
more thread counts than the cache has places; it is the condition the header
states in words, and TLC finds the assertion failing with one more.
`ForkJoinImplemented` needs two invariants more. `OuterInv`: a region's forker
is a member of the region around it, without which a mapped member could run on
while the region it forked is open. `SyncInv`: workers have passed as many
barriers as the initial thread, without which a barrier of the code would
release members from different abstract barriers. The step function of the
abstract state is then followed action by action: `Park`, the clauses, `Exit`
stutter, the others are each one abstract step.

**OmptTeamProofs.** `EventsNest`, `ToolSeesNesting`, `NothingOpenAtEnd`,
and that `OmptTeam` implements `Team` (`ToolIsTransparent`: with a tool or
without, the regions are Team's, so what is proved of those holds of these). The
invariant has three parts. While a tool is followed (`Followed`), its view of a
thread mirrors the thread's frames (`Mirrors`): the thread's own scopes, one
parallel and one implicit scope for each frame, and two more at a barrier; and
the slots handed to the tool hold the data of the regions in progress (`SlotInv`
for cached teams, whose slots outlive a region, `NestedInv` for one-shot ones).
After it has finalised itself (`Late`) the views of the other threads no longer
mirror anything, and all that is kept is that a thread at a barrier has the
barrier's two scopes on top, under the datum its team still has. Without a tool
(`Quiet`) nothing is told.

**TaskgraphProofs.** Types, without hypothesis. `PassesOnce` and `OneCommand`
for tasks that are not untied (`\A a \in Attrs : a.parts = 1`), the complement
of the finding `taskgraph_untied`, where such a task leaves two commands. `RecordInv` says which
tasks are recorded and that a pass ends with all of them complete, `CommandInv`
that the commands are those of the recorded tasks that have completed, each
once, and `ReplayInv` how many passes each body has been in, by whether its
command is still left in this one.

**TaskgraphLoopProofs.** Types, and `ExactLoop` and `BoundedOvershoot` for any
number of loops over a graph that agree on `unroll`. An instance issues what
the loop adds to its count (`CountInv`), and the count of a running loop is a
multiple of `unroll`, hence at least one instance below `whole` when it is
below it (`LimitInv`, lemma `MultiplesApart`). For loops that do not agree the
property is false, and the header promises nothing about them.

**StartupProofs.** Types, `ThreadCountsAgree`, `AnswersHold`, `OneLibrary`,
`FinalizedOnce` and `DeviceNumbers`, for any environment, list of libraries,
number of workers, of other threads and of calls. `BuildInv` says how far the
context is built by where the initial thread is, and that workers exist only
when all is; it says nothing of what the other threads use. `ThreadCountsAgree`
delimits when the signed and the unsigned computation agree: just when both
variables are positive; with a 0, junk included, the size is left to XKRT.
`SearchInv` follows the
discovery: no library is open but the one of the tool it settles on.
`FinalInv` is about the race to finalise: at most one thread has claimed it,
from then on the flag stays set, and whoever claimed it calls the tool exactly
once. `DevicesRoundTrip` is the arithmetic of device numbers: for any number of
devices the conversions are inverse to each other on the numbers OpenMP gives,
never divide by zero there, and both transfers copy between the devices their
arguments name.

Only model-checked are the liveness properties: `CommittedCompletes`,
`RegionEnds`, `RegionsJoin` and `LoopReturns`. Fairness, `ENABLED` and leads-to
are out of the prover's reach. So would be induction over data and RECURSIVE
operators; no module needs them.

## Not modelled

- The contents of tasks: `shareds`, `kargs`, scatter functions, labels.
- The release of tasks (the code warns that it assumes there is none).
- `taskyield`, `__kmpc_omp_wait_deps`: they do nothing.
- `__kmpc_fork_teams`, `GOMP_task`: they abort.
- Optimisation passes over command graphs, device tasks in a graph, and tasks
  created by recorded tasks: XKRT decides what happens.
- Where XKRT puts a team's threads (the description of the team it is given is
  `TeamDescInit`); the hardware topology.
- First calls that race, together with what the parts do: `Startup` has the other
  threads call after the pointer is set, and `FirstCall`, which has the race, stops
  at `xkomp_get`.
- Worksharing: `single`, `master` and `masked` test the thread's number and keep
  no state, `__kmpc_end_single` is the taskwait of `KmpTask`, and the bounds of
  a static loop are computed by XKRT.
- `GOMP_parallel`, which wraps its arguments and calls `xkomp_parallel`.
- OMPT: `task_schedule` and its statuses, the lookup of entry points by name,
  the enumerations of states and mutexes, the queries of places and processors
  (constants in the code), a tool that sets callbacks after its initialisation
  or removes one.
- The memory behind `omp_target_alloc` and the copies themselves: XKRT's.
- The allocator and the calling conventions of microtasks.

## Plan

Done: tasks, formats, parallel regions, taskgraphs, start-up, environment, the
tool's life and its events, devices; theorems for all safety properties and
refinements. Worth doing next:

1. the events of task scheduling (`ompt_callback_task_schedule`) in `OmptTask`,
   with the property that begin and end of a task's execution nest on a thread;
2. safety counterparts of the liveness properties that can be proved: that a
   state of `Team` or `KmpTask` which has not ended always has an enabled step
   of a thread, as an invariant over the guards;
3. fewer hypotheses: `ToolReadsOrder` for items of several dependence types,
   with the exceptions spelled out.
