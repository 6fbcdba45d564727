------------------------------ MODULE TaskAccess ------------------------------
(***************************************************************************)
(* How a task's depend and access clauses become XKRT accesses             *)
(* (src/kmp/task.cc), and when two accesses order or exclude their tasks   *)
(* (XKRT, external).                                                       *)
(*                                                                         *)
(* A clause item is what the compiler puts in a kmp_depend_info_t or a     *)
(* kmp_access_info_t: a base address and the set of the flag bits that are *)
(* set.  An access is an address, a set of mode bits (R, W, V) and a       *)
(* concurrency.                                                            *)
(***************************************************************************)
EXTENDS Sequences, Integers

CONSTANTS
  Addr,           \* storage a clause item can name
  NULL,           \* the null base address
  FixedAccesses   \* XKOMP_FIXED_ACCESSES, the slots of a stock-ABI task

ASSUME AddrAssumption == NULL \notin Addr
ASSUME FixedAssumption == FixedAccesses \in Nat

DepFlag == {"in", "out", "mtx", "set", "all"}
AcFlag  == {"read", "write", "concurrentwrite", "storage", "noncoherent", "nostorage"}

DepItem == [addr : Addr \cup {NULL}, flags : SUBSET DepFlag]
AcItem  == [addr : Addr \cup {NULL}, flags : SUBSET AcFlag]

Concurrency == {"sequential", "commutative", "concurrent"}
Access == [addr : Addr \cup {NULL}, mode : SUBSET {"R", "W", "V"}, conc : Concurrency]

\* task_pad_accesses: an inert virtual access, no storage behind it.
Inert == [addr |-> NULL, mode |-> {"V"}, conc |-> "sequential"]

\* A slot task_new reserved and nothing has constructed an access in.
Garbage == [addr |-> NULL, mode |-> {}, conc |-> "sequential"]

-------------------------------------------------------------------------------
(* The two conversions.                                                    *)

\* The depend bits are tested one after the other, so the last one that is
\* set decides the concurrency.
DepConcurrency(flags) ==
  CASE "set" \in flags -> "concurrent"
    [] "set" \notin flags /\ "mtx" \in flags -> "commutative"
    [] OTHER -> "sequential"

DepMode(flags) ==
  {"V"} \cup (IF "in" \in flags THEN {"R"} ELSE {})
        \cup (IF flags \cap {"out", "mtx", "set"} # {} THEN {"W"} ELSE {})

DepAccess(item) ==
  [addr |-> item.addr, mode |-> DepMode(item.flags), conc |-> DepConcurrency(item.flags)]

\* Mutation: the flag bits handed over as they are.
AcModeRaw(flags) == flags

\* `storage` sets write and noncoherent in the item before the bits are read.
AcMode(flags) ==
  (IF "read" \in flags THEN {"R"} ELSE {})
    \cup (IF flags \cap {"write", "concurrentwrite", "storage"} # {} THEN {"W"} ELSE {})
    \cup (IF flags \cap {"noncoherent", "storage"} # {} THEN {"V"} ELSE {})

AcAccess(item) ==
  [addr |-> item.addr, mode |-> AcMode(item.flags),
   conc |-> IF "concurrentwrite" \in item.flags THEN "concurrent" ELSE "sequential"]

-------------------------------------------------------------------------------
(* The slots of a task: reserved by the allocation, overwritten by the     *)
(* submission.  A clause is [acs, deps, noalias], three lists of items.    *)

ClauseSet == [acs : Seq(AcItem), deps : Seq(DepItem), noalias : Seq(DepItem)]

NAccesses(clause) == Len(clause.acs) + Len(clause.deps) + Len(clause.noalias)

\* Stock ABI: a fixed number of padded slots, whatever the clause.  Patched
\* ABI: one slot for each item of the first two lists, none constructed.
AllocSlots(abi, clause) ==
  IF abi = "stock" THEN [i \in 1..FixedAccesses |-> Inert]
                   ELSE [i \in 1..(Len(clause.acs) + Len(clause.deps)) |-> Garbage]

\* Item i of a list lands in slot offset + i; an item without an address
\* leaves its slot as it was.
Fill(slots, offset, items, Convert(_)) ==
  [i \in DOMAIN slots |->
     IF i - offset \in DOMAIN items /\ items[i - offset].addr # NULL
       THEN Convert(items[i - offset])
       ELSE slots[i]]

\* Mutation: the non-aliasing list is ignored.
FillClauseNoNoalias(slots, clause) ==
  Fill(Fill(slots, 0, clause.acs, AcAccess), Len(clause.acs), clause.deps, DepAccess)

FillClause(slots, clause) ==
  LET acs  == Fill(slots, 0, clause.acs, AcAccess)
      deps == Fill(acs, Len(clause.acs), clause.deps, DepAccess)
  IN  Fill(deps, Len(clause.acs) + Len(clause.deps), clause.noalias, DepAccess)

\* Is this omp_all_memory as a compiler emits it, without an address?
AllMemory(clause) ==
  \E items \in {clause.deps, clause.noalias} : \E i \in DOMAIN items :
    items[i].addr = NULL /\ "all" \in items[i].flags

\* LOGGER_FATAL for `all` and for `nostorage`, which the code reaches only
\* under its test of the address.
Unsupported(clause) ==
  \/ \E items \in {clause.deps, clause.noalias} : \E i \in DOMAIN items :
       items[i].addr # NULL /\ "all" \in items[i].flags
  \/ \E i \in DOMAIN clause.acs :
       clause.acs[i].addr # NULL /\ "nostorage" \in clause.acs[i].flags

-------------------------------------------------------------------------------
(* XKRT: what two accesses of sibling tasks mean for each other.           *)

Touches(a) == a.addr # NULL /\ a.mode \cap {"R", "W"} # {}

SameStorage(a, b) == Touches(a) /\ Touches(b) /\ a.addr = b.addr

\* The later access waits for the earlier one: a read and a write, or two
\* writes that are not both concurrent or both commutative.
Precedes(a, b) ==
  /\ SameStorage(a, b)
  /\ "W" \in a.mode \cup b.mode
  /\ ~(a.conc = b.conc /\ a.conc \in {"commutative", "concurrent"})

\* Two commutative accesses run in any order, one at a time.
Excludes(a, b) == SameStorage(a, b) /\ a.conc = "commutative" /\ b.conc = "commutative"

SlotsPrecede(s, r) == \E i \in DOMAIN s, j \in DOMAIN r : Precedes(s[i], r[j])
SlotsExclude(s, r) == \E i \in DOMAIN s, j \in DOMAIN r : Excludes(s[i], r[j])
===============================================================================
