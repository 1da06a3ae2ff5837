-------------------------------- MODULE Heap --------------------------------
(***************************************************************************)
(* The object heap of crates/monty/src/heap/mod.rs: the paged arena with   *)
(* its free list (heap/stable_heap.rs), reference counts, `HeapRead`       *)
(* readers, the weak indexes, the iterative dec_ref and the trial-deletion *)
(* cycle collector.                                                        *)
(*                                                                         *)
(* The interpreter is reduced to what it does to the heap: it allocates,   *)
(* copies, moves and drops references it holds on its stack, in a          *)
(* namespace or in a container, opens and closes readers, lets an object   *)
(* cross to the host, saves and restores the heap, and collects.           *)
(* dec_ref and collect_cycles run to completion before the interpreter     *)
(* goes on.  Their loops are modelled one iteration per step, with the     *)
(* loop's work stack in a variable: pc # "vm" while one is running.        *)
(***************************************************************************)
EXTENDS Integers, Sequences, FiniteSets

CONSTANTS
    MaxLen,      \* slots the arena may grow to
    Width,       \* references one object may hold
    MaxLinks,    \* references between objects, readers and names at once
    Roots,       \* places outside the heap that own one reference each
    Kinds,       \* the kinds of object the program makes
    Names,       \* host classes, whose type objects are shared by name
    GcInterval,  \* allocations between collections
    MaxReaders,  \* entries with a reader open at once
    Nil

AllKinds == {"container", "exception"}

ASSUME SizeAssumption ==
    /\ MaxLen \in Nat \ {0} /\ Width \in Nat /\ GcInterval \in Nat
    /\ MaxLinks \in Nat
    /\ MaxReaders \in Nat
ASSUME RootsFinite == IsFiniteSet(Roots)
ASSUME KindAssumption == Kinds \subseteq AllKinds
ASSUME NilAssumption ==
    Nil \notin Nat /\ Nil \notin Names /\ Nil \notin AllKinds

Ids == 1..MaxLen
Colors == {"black", "gray", "white", "purple"}

VARIABLES
    \* StableHeap
    len, free,
    \* HeapEntry, by slot; kind = Nil is a freed or unused slot
    kind, refcount, readers, color, data, key,
    \* Heap
    purple_count, allocations_since_gc, weak,
    \* the interpreter's own references
    root,
    \* the loop that is running: its work stack(s), the entry and the edge
    \* it is at, the candidates found and the slot the linear pass is at
    pc, work_stack, black_stack, cur, edge, seeds, cursor,
    \* history: entries a reader kept although nothing referred to them
    pinned

arena == <<len, free>>
entries == <<kind, refcount, readers, color, data, key>>
counters == <<purple_count, allocations_since_gc>>
loop == <<work_stack, black_stack, cur, edge, seeds, cursor>>
vars == <<arena, entries, counters, weak, root, pc, loop, pinned>>

Live(e) == kind[e] # Nil
LiveIds == {e \in Ids : Live(e)}

(* HeapData::is_gc_tracked: exceptions own references and are not tracked. *)
IsGcTracked(e) == kind[e] = "container"

(* What a container may hold, and what an exception may be chained to.     *)
MayHold(p, c) ==
    \/ kind[p] = "container"
    \/ kind[p] = "exception" /\ kind[c] = "exception"

Edges == {pi \in Ids \X (1..Width) : pi[2] \in DOMAIN data[pi[1]]}
Reading == {e \in Ids : readers[e] > 0}
Named == {e \in Ids : key[e] # Nil}
MoreLinks == Cardinality(Edges) + Cardinality(Reading) + Cardinality(Named) < MaxLinks

Last(s) == s[Len(s)]
Pop(s) == SubSeq(s, 1, Len(s) - 1)

(* What can be reached from a set of entries.                              *)
Children(S) == UNION {{data[p][i] : i \in DOMAIN data[p]} : p \in S}
ReachFrom(S) ==
    LET grow[n \in 0..MaxLen] ==
          IF n = 0 THEN S ELSE grow[n - 1] \cup Children(grow[n - 1])
    IN  grow[MaxLen]

-----------------------------------------------------------------------------
(* Heap::new.  The singletons the heap owns are references like any other. *)
Init ==
    /\ len = 0 /\ free = <<>>
    /\ kind = [e \in Ids |-> Nil]
    /\ refcount = [e \in Ids |-> 0]
    /\ readers = [e \in Ids |-> 0]
    /\ color = [e \in Ids |-> "black"]
    /\ data = [e \in Ids |-> <<>>]
    /\ key = [e \in Ids |-> Nil]
    /\ purple_count = 0 /\ allocations_since_gc = 0
    /\ weak = [k \in Names |-> Nil]
    /\ root = [r \in Roots |-> Nil]
    /\ pc = "vm"
    /\ work_stack = <<>> /\ black_stack = <<>>
    /\ cur = Nil /\ edge = 1 /\ seeds = <<>> /\ cursor = 1
    /\ pinned = {}

(* StableHeap::allocate_with_slot: the newest freed slot, else a new one.  *)
CanAllocate == free # <<>> \/ len < MaxLen
NextId == IF free # <<>> THEN Last(free) ELSE len + 1
TakeSlot ==
    /\ free' = IF free # <<>> THEN Pop(free) ELSE free
    /\ len' = IF free # <<>> THEN len ELSE len + 1

(* Heap::allocate and new_entry; the caller's reference is the first one.  *)
(* The counter is compared with the interval only and stops there.         *)
NewEntry(k, name) ==
    LET e == NextId IN
    /\ CanAllocate
    /\ TakeSlot
    /\ kind' = [kind EXCEPT ![e] = k]
    /\ refcount' = [refcount EXCEPT ![e] = 1]
    /\ readers' = [readers EXCEPT ![e] = 0]
    /\ color' = [color EXCEPT ![e] = "black"]
    /\ data' = [data EXCEPT ![e] = <<>>]
    /\ key' = [key EXCEPT ![e] = name]
    /\ allocations_since_gc' =
         IF k = "container" /\ allocations_since_gc < GcInterval
         THEN allocations_since_gc + 1 ELSE allocations_since_gc
    /\ UNCHANGED purple_count

IncRef(e) == refcount' = [refcount EXCEPT ![e] = @ + 1]

(* The interpreter runs between the loops and leaves their state alone.    *)
Idle == pc = "vm" /\ UNCHANGED <<black_stack, cur, edge, seeds, cursor>>

Allocate(r, k) ==
    /\ Idle /\ root[r] = Nil /\ k \in Kinds
    /\ NewEntry(k, Nil)
    /\ root' = [root EXCEPT ![r] = NextId]
    /\ UNCHANGED <<weak, pc, work_stack, pinned>>

(* resolve_host_type and allocate_host_type: the live type object of that  *)
(* host class, or a new one entered in the weak index.  get_ext_function   *)
(* does the same for external functions, which hold no references.         *)
GetByName(r, n) ==
    /\ Idle /\ root[r] = Nil
    /\ \/ /\ weak[n] # Nil
          /\ IncRef(weak[n])
          /\ root' = [root EXCEPT ![r] = weak[n]]
          /\ pinned' = pinned \ ReachFrom({weak[n]})
          /\ UNCHANGED <<arena, kind, readers, color, data, key, counters,
                         weak>>
       \/ /\ weak[n] = Nil /\ MoreLinks
          /\ NewEntry("container", n)
          /\ root' = [root EXCEPT ![r] = NextId]
          /\ weak' = [weak EXCEPT ![n] = NextId]
          /\ UNCHANGED pinned
    /\ UNCHANGED <<pc, work_stack>>

(* inc_ref for a copied reference.                                         *)
Clone(r, q) ==
    /\ Idle /\ root[r] # Nil /\ root[q] = Nil
    /\ IncRef(root[r])
    /\ root' = [root EXCEPT ![q] = root[r]]
    /\ UNCHANGED <<arena, kind, readers, color, data, key, counters,
                   weak, pc, work_stack, pinned>>

(* A reference moves into a container that another reference keeps alive.  *)
Store(r, q) ==
    /\ Idle /\ r # q /\ root[r] # Nil /\ root[q] # Nil
    /\ MayHold(root[q], root[r])
    /\ Len(data[root[q]]) < Width /\ MoreLinks
    /\ data' = [data EXCEPT ![root[q]] = Append(@, root[r])]
    /\ root' = [root EXCEPT ![r] = Nil]
    /\ UNCHANGED <<arena, kind, refcount, readers, color, key, counters,
                   weak, pc, work_stack, pinned>>

(* A reference moves out of a container, as list.pop does.                 *)
Take(r, q) ==
    /\ Idle /\ root[r] = Nil /\ root[q] # Nil /\ data[root[q]] # <<>>
    /\ root' = [root EXCEPT ![r] = Last(data[root[q]])]
    /\ data' = [data EXCEPT ![root[q]] = Pop(@)]
    /\ UNCHANGED <<arena, kind, refcount, readers, color, key, counters,
                   weak, pc, work_stack, pinned>>

(* Mutant of Load: the copy is not counted.                                *)
LoadBorrowed(r, q, i) ==
    /\ Idle /\ root[r] = Nil /\ root[q] # Nil /\ i \in DOMAIN data[root[q]]
    /\ root' = [root EXCEPT ![r] = data[root[q]][i]]
    /\ UNCHANGED <<arena, kind, refcount, readers, color, data, key, counters,
                   weak, pc, work_stack, pinned>>

(* A reference in a container is copied out, as indexing does.             *)
Load(r, q, i) ==
    /\ Idle /\ root[r] = Nil /\ root[q] # Nil /\ i \in DOMAIN data[root[q]]
    /\ IncRef(data[root[q]][i])
    /\ root' = [root EXCEPT ![r] = data[root[q]][i]]
    /\ UNCHANGED <<arena, kind, readers, color, data, key, counters,
                   weak, pc, work_stack, pinned>>

(* HeapReader::read and HeapObjectRead's Drop.                             *)
OpenReader(r) ==
    /\ Idle /\ root[r] # Nil
    /\ Cardinality(Reading) < MaxReaders /\ MoreLinks
    /\ readers' = [readers EXCEPT ![root[r]] = @ + 1]
    /\ UNCHANGED <<arena, kind, refcount, color, data, key, counters,
                   weak, root, pc, work_stack, pinned>>

CloseReader(e) ==
    /\ Idle /\ Live(e) /\ readers[e] > 0
    /\ readers' = [readers EXCEPT ![e] = @ - 1]
    /\ UNCHANGED <<arena, kind, refcount, color, data, key, counters,
                   weak, root, pc, work_stack, pinned>>

(* An owned reference is dropped: dec_ref starts with it.                  *)
Drop(r) ==
    /\ Idle /\ root[r] # Nil
    /\ root' = [root EXCEPT ![r] = Nil]
    /\ work_stack' = <<root[r]>>
    /\ pc' = "dec_ref"
    /\ UNCHANGED <<arena, entries, counters, weak, pinned>>

-----------------------------------------------------------------------------
(* py_dec_ref_ids_for_data: the references an entry gives up when it goes. *)
PyDecRefIds(e) == data[e]

(* Mutant of FreeEntry: the weak index keeps the freed slot.               *)
FreeEntryKeepsName(e) ==
    /\ free' = Append(free, e)
    /\ kind' = [kind EXCEPT ![e] = Nil]
    /\ data' = [data EXCEPT ![e] = <<>>]
    /\ key' = [key EXCEPT ![e] = Nil]
    /\ pinned' = pinned \ {e}
    /\ UNCHANGED <<len, weak>>

(* StableHeapEntry::free, and remove_weak_index_entry for the same object. *)
FreeEntry(e) ==
    /\ free' = Append(free, e)
    /\ kind' = [kind EXCEPT ![e] = Nil]
    /\ data' = [data EXCEPT ![e] = <<>>]
    /\ key' = [key EXCEPT ![e] = Nil]
    /\ weak' = IF key[e] # Nil /\ weak[key[e]] = e
               THEN [weak EXCEPT ![key[e]] = Nil] ELSE weak
    /\ pinned' = pinned \ {e}
    /\ UNCHANGED len

(* Mutant of DecRefSurvives: an entry left with one reference is no        *)
(* candidate.                                                              *)
DecRefSurvivesShared(e) ==
    LET found == IsGcTracked(e) /\ color[e] # "purple" /\ refcount[e] > 2 IN
    /\ refcount[e] > 1
    /\ refcount' = [refcount EXCEPT ![e] = @ - 1]
    /\ color' = IF found THEN [color EXCEPT ![e] = "purple"] ELSE color
    /\ purple_count' = IF found THEN purple_count + 1 ELSE purple_count
    /\ work_stack' = Pop(work_stack)
    /\ UNCHANGED <<arena, kind, data, key, weak, pinned>>

(* dec_ref, the count survives: a tracked entry becomes a candidate.       *)
DecRefSurvives(e) ==
    LET found == IsGcTracked(e) /\ color[e] # "purple" IN
    /\ refcount[e] > 1
    /\ refcount' = [refcount EXCEPT ![e] = @ - 1]
    /\ color' = IF found THEN [color EXCEPT ![e] = "purple"] ELSE color
    /\ purple_count' = IF found THEN purple_count + 1 ELSE purple_count
    /\ work_stack' = Pop(work_stack)
    /\ UNCHANGED <<arena, kind, data, key, weak, pinned>>

(* dec_ref, the last reference: the entry goes, its children are next.     *)
DecRefFrees(e) ==
    /\ refcount[e] <= 1 /\ readers[e] = 0
    /\ purple_count' = IF color[e] = "purple" THEN purple_count - 1
                                              ELSE purple_count
    /\ work_stack' = Pop(work_stack) \o PyDecRefIds(e)
    /\ FreeEntry(e)
    /\ refcount' = [refcount EXCEPT ![e] = 0]
    /\ color' = [color EXCEPT ![e] = "black"]

DecRef ==
    /\ pc = "dec_ref" /\ work_stack # <<>>
    /\ DecRefSurvives(Last(work_stack)) \/ DecRefFrees(Last(work_stack))
    /\ pc' = IF work_stack' = <<>> THEN "vm" ELSE pc
    /\ UNCHANGED <<readers, allocations_since_gc, root, black_stack, cur,
                   edge, seeds, cursor>>

(* dec_ref's assertion: the last reference is dropped under a reader.      *)
DecRefPanics ==
    /\ pc = "dec_ref" /\ work_stack # <<>>
    /\ refcount[Last(work_stack)] <= 1 /\ readers[Last(work_stack)] > 0
    /\ pc' = "panicked"
    /\ UNCHANGED <<arena, entries, counters, weak, root, loop, pinned>>

-----------------------------------------------------------------------------
(* should_gc at a dispatch checkpoint or at the end of a host turn, then   *)
(* run_gc: collect_cycles_inner begins its linear pass.                    *)
ShouldGc == purple_count # 0 /\ allocations_since_gc >= GcInterval
StartCollection ==
    /\ pc = "vm" /\ ShouldGc
    /\ pc' = "find" /\ cursor' = 1 /\ seeds' = <<>>
    /\ UNCHANGED <<arena, entries, counters, weak, root, work_stack,
                   black_stack, cur, edge, pinned>>

(* One slot of the linear pass.  A candidate under a reader is let go.     *)
FindRoot ==
    LET purple == Live(cursor) /\ color[cursor] = "purple" IN
    /\ pc = "find" /\ cursor <= len
    /\ cursor' = cursor + 1
    /\ \/ ~purple /\ UNCHANGED <<pc, cur, edge, color, seeds>>
       \/ /\ purple /\ readers[cursor] > 0
          /\ color' = [color EXCEPT ![cursor] = "black"]
          /\ UNCHANGED <<pc, cur, edge, seeds>>
       \/ /\ purple /\ readers[cursor] = 0
          /\ seeds' = Append(seeds, cursor)
          /\ color' = [color EXCEPT ![cursor] = "gray"]
          /\ pc' = "mark" /\ cur' = cursor /\ edge' = 1
    /\ UNCHANGED <<arena, kind, refcount, readers, data, key, counters, weak,
                   root, work_stack, black_stack, pinned>>

StartScan ==
    /\ pc = "find" /\ cursor > len
    /\ pc' = "scan" /\ work_stack' = seeds /\ cur' = Nil
    /\ UNCHANGED <<arena, entries, counters, weak, root, black_stack,
                   edge, seeds, cursor, pinned>>

(* Mutant of MarkEdge: one decrement per entry, not per edge.              *)
MarkEdgeOnce ==
    /\ pc = "mark" /\ edge <= Len(data[cur])
    /\ LET c == data[cur][edge] IN
       /\ refcount' = IF color[c] = "gray" THEN refcount
                                           ELSE [refcount EXCEPT ![c] = @ - 1]
       /\ color' = [color EXCEPT ![c] = "gray"]
       /\ work_stack' = IF color[c] = "gray" THEN work_stack
                                             ELSE Append(work_stack, c)
    /\ edge' = edge + 1
    /\ UNCHANGED <<arena, kind, readers, data, key, counters, weak, root,
                   pc, black_stack, cur, seeds, cursor, pinned>>

(* mark_gray, one child: one decrement per edge, one push per entry.       *)
MarkEdge ==
    /\ pc = "mark" /\ edge <= Len(data[cur])
    /\ LET c == data[cur][edge] IN
       /\ refcount' = [refcount EXCEPT ![c] = @ - 1]
       /\ color' = [color EXCEPT ![c] = "gray"]
       /\ work_stack' = IF color[c] = "gray" THEN work_stack
                                             ELSE Append(work_stack, c)
    /\ edge' = edge + 1
    /\ UNCHANGED <<arena, kind, readers, data, key, counters, weak, root,
                   pc, black_stack, cur, seeds, cursor, pinned>>

MarkNext ==
    /\ pc = "mark" /\ edge > Len(data[cur])
    /\ edge' = 1
    /\ \/ /\ work_stack = <<>>
          /\ pc' = "find" /\ cur' = Nil /\ UNCHANGED work_stack
       \/ /\ work_stack # <<>>
          /\ cur' = Last(work_stack) /\ work_stack' = Pop(work_stack)
          /\ UNCHANGED pc
    /\ UNCHANGED <<arena, entries, counters, weak, root, black_stack,
                   seeds, cursor, pinned>>

(* Mutant of ScanPop: readers are not looked at.                           *)
ScanPopCountsOnly ==
    /\ pc = "scan" /\ cur = Nil /\ work_stack # <<>>
    /\ LET e == Last(work_stack) IN
       \/ /\ color[e] # "gray"
          /\ UNCHANGED <<color, pc, cur, edge>>
       \/ /\ color[e] = "gray" /\ refcount[e] = 0
          /\ color' = [color EXCEPT ![e] = "white"]
          /\ cur' = e /\ edge' = 1 /\ UNCHANGED pc
       \/ /\ color[e] = "gray" /\ refcount[e] # 0
          /\ color' = [color EXCEPT ![e] = "black"]
          /\ cur' = e /\ edge' = 1 /\ pc' = "black"
    /\ work_stack' = Pop(work_stack)
    /\ UNCHANGED <<arena, kind, refcount, readers, data, key, counters, weak,
                   root, black_stack, seeds, cursor, pinned>>

(* scan, one pop: condemn the entry, or resurrect it with mark_black.      *)
ScanPop ==
    /\ pc = "scan" /\ cur = Nil /\ work_stack # <<>>
    /\ LET e == Last(work_stack) IN
       \/ /\ color[e] # "gray"
          /\ UNCHANGED <<color, pc, cur, edge>>
       \/ /\ color[e] = "gray" /\ refcount[e] = 0 /\ readers[e] = 0
          /\ color' = [color EXCEPT ![e] = "white"]
          /\ cur' = e /\ edge' = 1 /\ UNCHANGED pc
       \/ /\ color[e] = "gray" /\ (refcount[e] # 0 \/ readers[e] # 0)
          /\ color' = [color EXCEPT ![e] = "black"]
          /\ cur' = e /\ edge' = 1 /\ pc' = "black"
    /\ work_stack' = Pop(work_stack)
    /\ UNCHANGED <<arena, kind, refcount, readers, data, key, counters, weak,
                   root, black_stack, seeds, cursor, pinned>>

(* scan, one child of a condemned entry.                                   *)
ScanEdge ==
    /\ pc = "scan" /\ cur # Nil
    /\ \/ /\ edge <= Len(data[cur])
          /\ LET c == data[cur][edge] IN
             work_stack' = IF color[c] = "gray" THEN Append(work_stack, c)
                                                ELSE work_stack
          /\ edge' = edge + 1 /\ UNCHANGED cur
       \/ /\ edge > Len(data[cur])
          /\ cur' = Nil /\ edge' = 1 /\ UNCHANGED work_stack
    /\ UNCHANGED <<arena, entries, counters, weak, root, pc, black_stack,
                   seeds, cursor, pinned>>

(* mark_black, one child: the decrement of that edge is taken back.        *)
BlackEdge ==
    /\ pc = "black" /\ edge <= Len(data[cur])
    /\ LET c == data[cur][edge] IN
       /\ refcount' = [refcount EXCEPT ![c] = @ + 1]
       /\ color' = [color EXCEPT ![c] = "black"]
       /\ black_stack' = IF color[c] = "black" THEN black_stack
                                               ELSE Append(black_stack, c)
    /\ edge' = edge + 1
    /\ UNCHANGED <<arena, kind, readers, data, key, counters, weak, root,
                   pc, work_stack, cur, seeds, cursor, pinned>>

BlackNext ==
    /\ pc = "black" /\ edge > Len(data[cur])
    /\ edge' = 1
    /\ \/ /\ black_stack = <<>>
          /\ pc' = "scan" /\ cur' = Nil /\ UNCHANGED black_stack
       \/ /\ black_stack # <<>>
          /\ cur' = Last(black_stack) /\ black_stack' = Pop(black_stack)
          /\ UNCHANGED pc
    /\ UNCHANGED <<arena, entries, counters, weak, root, work_stack,
                   seeds, cursor, pinned>>

(* collect_white: the seeds, then the children of what is freed.           *)
StartCollectWhite ==
    /\ pc = "scan" /\ cur = Nil /\ work_stack = <<>>
    /\ pc' = "white" /\ work_stack' = seeds
    /\ UNCHANGED <<arena, entries, counters, weak, root, black_stack, cur,
                   edge, seeds, cursor, pinned>>

(* Mutant of CollectWhite: the children of a freed entry are forgotten.    *)
CollectWhiteSeedsOnly ==
    /\ pc = "white" /\ work_stack # <<>>
    /\ LET e == Last(work_stack) IN
       \/ /\ ~Live(e) \/ color[e] # "white"
          /\ UNCHANGED <<arena, entries, weak, pinned>>
       \/ /\ Live(e) /\ color[e] = "white"
          /\ FreeEntry(e)
          /\ refcount' = [refcount EXCEPT ![e] = 0]
          /\ color' = [color EXCEPT ![e] = "black"]
          /\ UNCHANGED readers
    /\ work_stack' = Pop(work_stack)
    /\ UNCHANGED <<counters, root, pc, black_stack, cur, edge, seeds,
                   cursor>>

CollectWhite ==
    /\ pc = "white" /\ work_stack # <<>>
    /\ LET e == Last(work_stack) IN
       \/ /\ ~Live(e) \/ color[e] # "white"
          /\ work_stack' = Pop(work_stack)
          /\ UNCHANGED <<arena, entries, weak, pinned>>
       \/ /\ Live(e) /\ color[e] = "white"
          /\ FreeEntry(e)
          /\ refcount' = [refcount EXCEPT ![e] = 0]
          /\ color' = [color EXCEPT ![e] = "black"]
          /\ work_stack' = Pop(work_stack) \o PyDecRefIds(e)
          /\ UNCHANGED readers
    /\ UNCHANGED <<counters, root, pc, black_stack, cur, edge, seeds,
                   cursor>>

(* What the interpreter can still get at.                                  *)
Rooted == {root[r] : r \in Roots} \ {Nil}
Garbage == LiveIds \ ReachFrom(Rooted)

(* The end of collect_cycles_inner.                                        *)
FinishCollection ==
    /\ pc = "white" /\ work_stack = <<>>
    /\ pc' = "vm" /\ purple_count' = 0 /\ allocations_since_gc' = 0
    /\ seeds' = <<>> /\ cursor' = 1
    /\ pinned' = pinned \cup
                   (Garbage \cap ReachFrom({e \in LiveIds : readers[e] > 0}))
    /\ UNCHANGED <<arena, entries, weak, root, work_stack, black_stack,
                   cur, edge>>

-----------------------------------------------------------------------------
(* A dump and its load: no reader is open, the free list is rebuilt in     *)
(* index order and restore_entries rebuilds the weak indexes.              *)
FreeSlots == {e \in 1..len : ~Live(e)}
InOrder(S) == {s \in [1..Cardinality(S) -> S] :
                 \A i, j \in 1..Cardinality(S) : i < j => s[i] < s[j]}
Restore ==
    /\ Idle /\ \A e \in Ids : readers[e] = 0
    /\ free' \in InOrder(FreeSlots)
    /\ weak' = [k \in Names |->
                  LET S == {e \in LiveIds : key[e] = k} IN
                  IF S = {} THEN Nil
                  ELSE CHOOSE e \in S : \A f \in S : f <= e]
    /\ UNCHANGED <<len, entries, counters, root, pc, work_stack, pinned>>

-----------------------------------------------------------------------------
Interpreter ==
    \/ \E r \in Roots : \/ \E k \in Kinds : Allocate(r, k)
                        \/ \E n \in Names : GetByName(r, n)
                        \/ \E q \in Roots : \/ Clone(r, q) \/ Store(r, q)
                                           \/ Take(r, q)
                        \/ \E q \in Roots, i \in 1..Width : Load(r, q, i)
                        \/ OpenReader(r) \/ Drop(r)
    \/ \E e \in Ids : CloseReader(e)
    \/ Restore

Collector ==
    \/ StartCollection \/ FindRoot \/ MarkEdge \/ MarkNext
    \/ StartScan \/ ScanPop \/ ScanEdge \/ BlackEdge \/ BlackNext
    \/ StartCollectWhite \/ CollectWhite \/ FinishCollection

Next == Interpreter \/ DecRef \/ DecRefPanics \/ Collector

Spec == Init /\ [][Next]_vars

-----------------------------------------------------------------------------
TypeOK ==
    /\ len \in 0..MaxLen /\ free \in Seq(Ids)
    /\ kind \in [Ids -> AllKinds \cup {Nil}]
    /\ refcount \in [Ids -> Int] /\ readers \in [Ids -> Nat]
    /\ color \in [Ids -> Colors]
    /\ data \in [Ids -> Seq(Ids)]
    /\ key \in [Ids -> Names \cup {Nil}]
    /\ purple_count \in Int /\ allocations_since_gc \in Nat
    /\ weak \in [Names -> Ids \cup {Nil}]
    /\ root \in [Roots -> Ids \cup {Nil}]
    /\ pc \in {"vm", "dec_ref", "panicked", "find", "mark", "scan", "black",
               "white"}
    /\ work_stack \in Seq(Ids) /\ black_stack \in Seq(Ids)
    /\ seeds \in Seq(Ids)
    /\ cur \in Ids \cup {Nil} /\ edge \in Nat \ {0} /\ cursor \in Nat \ {0}
    /\ pinned \subseteq Ids

Members(s) == {s[i] : i \in DOMAIN s}

(* The edges out of p that mark_gray has taken off the counts and that     *)
(* mark_black has not put back.                                            *)
TakenOff(p, i) ==
    CASE pc = "find"  -> color[p] = "gray"
      [] pc = "mark"  -> /\ color[p] = "gray" /\ p \notin Members(work_stack)
                         /\ p = cur => i < edge
      [] pc \in {"scan", "white"} -> color[p] \in {"gray", "white"}
      [] pc = "black" -> \/ color[p] \in {"gray", "white"}
                         \/ p \in Members(black_stack)
                         \/ (p = cur /\ i >= edge)
      [] OTHER -> FALSE

RootRefs(e) == {r \in Roots : root[r] = e}
EdgeRefs(e) == {pi \in Ids \X (1..Width) :
                  /\ pi[2] \in DOMAIN data[pi[1]] /\ data[pi[1]][pi[2]] = e
                  /\ ~TakenOff(pi[1], pi[2])}
DyingRefs(e) == IF pc \in {"dec_ref", "panicked"}
                THEN {i \in DOMAIN work_stack : work_stack[i] = e} ELSE {}

(* Heap, "refcount math itself proves reachability": at every step of      *)
(* dec_ref and of the collector, the count of a live entry is the number   *)
(* of references to it, less the edges trial deletion has taken off.       *)
Count(e) == Cardinality(RootRefs(e)) + Cardinality(EdgeRefs(e))
              + Cardinality(DyingRefs(e))
CountsExact == \A e \in LiveIds : refcount[e] = Count(e)

(* No reference names a freed slot: not one of the interpreter's, not one  *)
(* that a loop is about to follow, not a reader, and not an edge of an     *)
(* entry that is not itself condemned.                                     *)
NoDangling ==
    /\ \A r \in Roots : root[r] # Nil => Live(root[r])
    /\ pc # "white" => \A e \in Members(work_stack) : Live(e)
    /\ \A p \in LiveIds : \A c \in Members(data[p]) :
          Live(c) \/ (pc = "white" /\ color[p] = "white")
    /\ \A e \in Ids : readers[e] > 0 => Live(e)

(* The free list is the set of freed slots, each once, so that no          *)
(* allocation is given a slot in use.                                      *)
FreeListExact ==
    /\ Members(free) = FreeSlots
    /\ \A i, j \in DOMAIN free : free[i] = free[j] => i = j
    /\ \A e \in LiveIds : e <= len

(* Between collections purple_count is the number of candidates, so        *)
(* should_gc's early out never hides one, and no entry is left gray or     *)
(* white.                                                                  *)
CandidatesCounted ==
    pc \in {"vm", "dec_ref"} =>
      /\ purple_count = Cardinality({e \in LiveIds : color[e] = "purple"})
      /\ \A e \in LiveIds : color[e] \in {"black", "purple"}

(* An object that can no longer be reached is under a candidate, and all   *)
(* candidates are counted, so that the next collection is made and finds   *)
(* it (or a reader has kept it once, which                                 *)
(* heap_read_rooted_cycle_survives_collection describes).                  *)
GarbageFindable ==
    /\ CandidatesCounted
    /\ pc = "vm" => Garbage \subseteq
         ReachFrom({e \in LiveIds : color[e] = "purple"}) \cup ReachFrom(pinned)

(* gc.collect: "every unreachable entry is reclaimed", readers aside.      *)
NothingSurvives ==
    pc = "white" /\ work_stack = <<>> =>
      Garbage \subseteq ReachFrom({e \in LiveIds : readers[e] > 0} \cup pinned)

(* The weak index names exactly the live objects that carry the key: a     *)
(* host class has one type object at a time, and never a later tenant of   *)
(* the slot of one that died.                                              *)
WeakIndexExact ==
    \A k \in Names, e \in Ids : weak[k] = e <=> Live(e) /\ key[e] = k

-----------------------------------------------------------------------------
(* What makes CountsExact and NoDangling inductive.                        *)
Colored(c) == {e \in Ids : color[e] = c}

(* Every entry of S is reached from base through entries coloured k.       *)
Reached(col, edges, base, k, S) ==
    \A X \in SUBSET Ids :
      (/\ base \subseteq X
       /\ \A p \in X : col[p] = k => Members(edges[p]) \subseteq X)
        => S \subseteq X

(* The children scan or mark_black is still to look at.                    *)
Pending ==
    {c \in Ids : \/ \E p \in Members(black_stack) : c \in Members(data[p])
                 \/ cur # Nil /\ \E i \in DOMAIN data[cur] :
                                   i >= edge /\ data[cur][i] = c}

(* A slot that is not in use is blank, and the loops leave nothing behind. *)
Shape ==
    /\ \A e \in Ids : Len(data[e]) <= Width
    /\ \A e \in Ids : ~Live(e) => /\ data[e] = <<>> /\ color[e] = "black"
                                   /\ key[e] = Nil
    /\ pc \in {"vm", "find"} => work_stack = <<>>
    /\ pc # "black" => black_stack = <<>>
    /\ pc \in {"vm", "dec_ref", "find", "white"} => cur = Nil

(* Where each colour may occur.  A condemned entry has no reference left   *)
(* but those of other condemned or undecided entries, and no reader.       *)
ColorsOK ==
    /\ pc \in {"vm", "dec_ref", "panicked"} =>
         Colored("gray") = {} /\ Colored("white") = {}
    /\ pc \in {"find", "mark"} =>
         /\ Colored("white") = {}
         /\ \A e \in Colored("purple") : e >= cursor
    /\ pc \in {"scan", "black", "white"} => Colored("purple") = {}
    /\ pc = "white" => Colored("gray") = {}
    /\ \A e \in Colored("white") : refcount[e] = 0 /\ readers[e] = 0

(* An entry waits once in a loop's stack, and not while it is looked at.   *)
Distinct(s) == \A i, j \in DOMAIN s : s[i] = s[j] => i = j
StacksOK ==
    /\ pc = "mark" =>
         /\ Distinct(work_stack) /\ Members(work_stack) \subseteq Colored("gray")
         /\ cur \in Colored("gray") \ Members(work_stack)
    /\ pc = "black" =>
         /\ Distinct(black_stack) /\ Members(black_stack) \subseteq Colored("black")
         /\ cur \in Colored("black") \ Members(black_stack)
         /\ \A e \in Members(black_stack) \cup {cur} : Live(e)
    /\ pc = "scan" /\ cur # Nil => cur \in Colored("white")
    /\ pc \in {"find", "mark", "scan", "black"} =>
         \A e \in Members(seeds) : Live(e)

(* scan decides every entry mark_gray reached, and collect_white gets to   *)
(* every entry scan condemned, although mark_black may have resurrected    *)
(* entries in between.                                                     *)
ReachOK ==
    /\ pc \in {"find", "mark"} =>
         Reached(color, data, Members(seeds), "gray", Colored("gray"))
    /\ pc \in {"scan", "black"} =>
         /\ Reached(color, data, Members(work_stack) \cup Pending,
                    "gray", Colored("gray"))
         /\ Reached(color, data,
                    Members(seeds) \cup (IF pc = "black" THEN Pending ELSE {}),
                    "white", Colored("white")
                      \cup (Colored("gray") \cap Members(work_stack)))
    /\ pc = "white" =>
         Reached(color, data, Members(work_stack), "white", Colored("white"))

HeapInv ==
    /\ TypeOK /\ Shape /\ FreeListExact /\ NoDangling /\ CountsExact
    /\ WeakIndexExact /\ ColorsOK /\ StacksOK /\ ReachOK

-----------------------------------------------------------------------------
(* The object graph the interpreter sees.  What a collection has condemned *)
(* is gone from it at once, although collect_white frees it entry by entry *)
(* and leaves edges to freed slots behind on its way.                      *)
Kept == {e \in LiveIds : ~(pc = "white" /\ color[e] = "white")}
KeptData == [e \in Ids |-> IF e \in Kept THEN data[e] ELSE <<>>]
KeptWeak == [k \in Names |-> IF weak[k] \in Kept THEN weak[k] ELSE Nil]

Graph == INSTANCE ObjectGraph
           WITH Objects <- Ids, Places <- Roots, Classes <- Names, Nil <- Nil,
                live <- Kept, contents <- KeptData, holds <- root,
                reading <- readers, named <- KeptWeak

(* The heap implements the object graph: whatever dec_ref and the cycle    *)
(* collector do, the interpreter sees objects keep their contents until    *)
(* nothing refers to them, neither a place, a reader nor an object that    *)
(* stays.                                                                  *)
ImplementsGraph == Graph!Spec

=============================================================================
