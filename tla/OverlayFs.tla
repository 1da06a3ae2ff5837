------------------------------ MODULE OverlayFs ------------------------------
(***************************************************************************)
(* The in-memory overlay of a mount (monty-fs/src/overlay.rs): a map from  *)
(* paths to entries shadows a real directory that is never changed.  A     *)
(* path without an entry is looked up on the host by its own name, whatever*)
(* the overlay says of the directories above it, so a directory that was   *)
(* removed, moved or replaced must have left an entry at every real path   *)
(* below it.                                                               *)
(*                                                                         *)
(* Times, permissions and text encoding are left out; a real link leads to *)
(* something inside the mount (others are not even listed).  The host does *)
(* not change the directory meanwhile.                                     *)
(***************************************************************************)
EXTENDS Integers, Sequences, SequencesExt, FiniteSets, FiniteSetsExt

CONSTANTS
    Paths, Data,            \* see FileTree
    Bases,                  \* the real directories
    EntryUsage,             \* ENTRY_MEMORY_USAGE and the size of an entry
    DirectoryWriteBytes,    \* DIRECTORY_WRITE_BYTES
    MemoryUsageLimit, WriteBytesLimit

VARIABLES
    real,               \* the node at each path of the real directory
    entries,            \* OverlayState::entries
    memory_usage,       \* OverlayState::memory_usage
    write_bytes_used,   \* MountContext::write_bytes_used
    request             \* the FsRequest, or the answer to the last one

vars == <<real, entries, memory_usage, write_bytes_used, request>>

(* OverlayEntry.  `content` is a file's, `relative` a reference's.         *)
Entry(kind, content, relative) ==
    [kind |-> kind, content |-> content, relative |-> relative]
None == Entry("None", <<>>, <<>>)
Deleted == Entry("Deleted", <<>>, <<>>)
Directory == Entry("Directory", <<>>, <<>>)
File(content) == Entry("File", content, <<>>)
RealFileRef(relative) == Entry("RealFileRef", <<>>, relative)

Has(p, kinds) == entries[p].kind \in kinds
IsReal(p, kinds) == real[p].kind \in kinds
Above(p) == {SubSeq(p, 1, i) : i \in 1 .. Len(p) - 1}
Below(p) == {q \in Paths : IsStrictPrefix(p, q)}
Children(p) == {q \in Paths : q # <<>> /\ Front(q) = p}

-----------------------------------------------------------------------------
(* OverlayState: what is retained, and what it costs.                      *)

EntryMemoryUsage(p, e) ==
    IF e.kind = "None" THEN 0
    ELSE EntryUsage + Len(p) + Len(e.content) + Len(e.relative)
State == [entries |-> entries, usage |-> memory_usage]

SaturatingSub(m, n) == IF m > n THEN m - n ELSE 0
ProjectedUsage(state, p, e) ==
    SaturatingSub(state.usage, EntryMemoryUsage(p, state.entries[p])) + EntryMemoryUsage(p, e)

(* insert, once it has compared the new total with the limit, and          *)
(* insert_unchecked.                                                       *)
Inserted(state, p, e) ==
    [entries |-> [state.entries EXCEPT ![p] = e], usage |-> ProjectedUsage(state, p, e)]
InsertedAll(state, replacements) ==
    FoldLeft(LAMBDA st, r : Inserted(st, r[1], r[2]), state, replacements)

(* Mutant of Removed: the entry is taken out and stays charged.            *)
RemovedStaysCharged(state, p) == [state EXCEPT !.entries[p] = None]
Removed(state, p) ==
    [entries |-> [state.entries EXCEPT ![p] = None],
     usage |-> SaturatingSub(state.usage, EntryMemoryUsage(p, state.entries[p]))]

(* append_file: the bytes are charged, the entry is not charged anew.      *)
Appended(state, p, data) ==
    [entries |-> [state.entries EXCEPT ![p].content = @ \o data],
     usage |-> state.usage + Len(data)]

(* check_file_replacement knows the length of the file, not its bytes.     *)
FileReplacementUsage(p, len) ==
    SaturatingSub(memory_usage, EntryMemoryUsage(p, entries[p])) + EntryUsage + Len(p) + len

(* check_replacements runs through the list without applying it, and       *)
(* remembers what each path of it would cost by then.                      *)
ReplacementsUsage(replacements) ==
    LET Replaced(plan, r) ==
            LET new_usage == EntryMemoryUsage(r[1], r[2])
            IN [projected |-> SaturatingSub(plan.projected, plan.costs[r[1]]) + new_usage,
                costs |-> [plan.costs EXCEPT ![r[1]] = new_usage]]
        start == [projected |-> memory_usage,
                  costs |-> [p \in Paths |-> EntryMemoryUsage(p, entries[p])]]
    IN FoldLeft(Replaced, start, replacements).projected

Answers(answer) ==
    /\ request' = [op |-> answer]
    /\ UNCHANGED <<real, entries, memory_usage, write_bytes_used>>

(* check_write_limit, the check of the memory an update was found to need, *)
(* and then the update.                                                    *)
OverWriteLimit(bytes) == write_bytes_used + bytes > WriteBytesLimit
CommitsChecked(projected, state, bytes) ==
    IF OverWriteLimit(bytes) \/ projected > MemoryUsageLimit
    THEN Answers("limit")
    ELSE /\ entries' = state.entries /\ memory_usage' = state.usage
         /\ write_bytes_used' = write_bytes_used + bytes
         /\ request' = [op |-> "ok"]
         /\ UNCHANGED real
Commits(state, bytes) == CommitsChecked(state.usage, state, bytes)

-----------------------------------------------------------------------------
(* Lookups.                                                                *)

(* resolve_real refuses a path with a link anywhere on it.                 *)
ResolveReal(p) == \A q \in Above(p) \cup {p} : ~IsReal(q, {"link"})

(* ensure_parent_exists, component by component.                           *)
ParentExists(p) ==
    \A q \in Above(p) : Has(q, {"Directory"}) \/ (Has(q, {"None"}) /\ IsReal(q, {"dir"}))

(* reject_directory_target.                                                *)
FileTarget(p) ==
    IF Has(p, {"None"}) THEN ResolveReal(p) /\ IsReal(p, {"none", "file"})
                        ELSE ~Has(p, {"Directory"})

OverlayHasChildren(p) == \E q \in Below(p) : ~Has(q, {"None", "Deleted"})
RealHasVisibleChildren(p) ==
    \E q \in Children(p) : ~IsReal(q, {"none"}) /\ ~Has(q, {"Deleted"})

(* exists, is_file, is_dir, is_symlink and read_bytes, as one node.        *)
Lookup(p) ==
    CASE Has(p, {"File"}) -> [kind |-> "file", content |-> entries[p].content]
      [] Has(p, {"RealFileRef"}) -> real[entries[p].relative]
      [] Has(p, {"Directory"}) -> [kind |-> "dir", content |-> <<>>]
      [] Has(p, {"Deleted"}) -> [kind |-> "none", content |-> <<>>]
      [] OTHER -> real[p]

(* iterdir and scan_list: the overlay's children, deleted ones included so *)
(* that they hide real ones, then the real ones unless the overlay holds   *)
(* the directory itself.                                                   *)
(* Mutant of OverlayChildren: tombstones are skipped.                      *)
OverlayChildrenLive(p) == {q \in Children(p) : ~Has(q, {"None", "Deleted"})}
OverlayChildren(p) == {q \in Children(p) : ~Has(q, {"None"})}
IterDir(p) ==
    {q \in OverlayChildren(p) : ~Has(q, {"Deleted"})}
        \cup IF Has(p, {"None"})
             THEN {q \in Children(p) : ~IsReal(q, {"none"})} \ OverlayChildren(p)
             ELSE {}

-----------------------------------------------------------------------------
(* The requests.                                                           *)

(* write_text, write_bytes, and open with a mode that truncates.           *)
WriteBytes ==
    /\ request.op = "write"
    /\ LET p == request.path
           byte_len == Len(request.data)
       IN IF OverWriteLimit(byte_len) THEN Answers("limit")
          ELSE IF ~(ParentExists(p) /\ FileTarget(p)) THEN Answers("error")
          ELSE IF FileReplacementUsage(p, byte_len) > MemoryUsageLimit THEN Answers("limit")
          ELSE Commits(Inserted(State, p, File(request.data)), byte_len)

(* append_bytes: a file of the overlay grows in place; a real one is       *)
(* copied, and charged in full, once the copy is known to fit.             *)
ExistingContent(p) == IF Lookup(p).kind = "file" THEN Lookup(p).content ELSE <<>>
AppendBytes ==
    /\ request.op = "append"
    /\ LET p == request.path
           content == ExistingContent(p) \o request.data
           budget == SaturatingSub(MemoryUsageLimit, memory_usage)
       IN IF ~(ParentExists(p) /\ FileTarget(p)) THEN Answers("error")
          ELSE IF Has(p, {"File"})
          THEN Commits(Appended(State, p, request.data), Len(request.data))
          ELSE IF \/ FileReplacementUsage(p, Len(content)) > MemoryUsageLimit
                  \/ Len(content) > budget
          THEN Answers("limit")
          ELSE Commits(Inserted(State, p, File(content)), Len(content))

(* ensure_append_target_exists: nothing is copied until something is       *)
(* appended.                                                               *)
OpenAppend ==
    /\ request.op = "open_append"
    /\ LET p == request.path IN
       CASE Has(p, {"File", "RealFileRef"}) -> Answers("ok")
         [] Has(p, {"Directory"}) \/ ~FileTarget(p) \/ ~ParentExists(p) -> Answers("error")
         [] Has(p, {"None"}) /\ IsReal(p, {"file"}) -> Answers("ok")
         [] OTHER -> Commits(Inserted(State, p, File(<<>>)), 0)

CreateExclusive ==
    /\ request.op = "create_exclusive"
    /\ LET p == request.path IN
       IF /\ ParentExists(p)
          /\ Has(p, {"Deleted"}) \/ (Has(p, {"None"}) /\ IsReal(p, {"none"}))
       THEN Commits(Inserted(State, p, File(<<>>)), 0)
       ELSE Answers("error")

(* overlay_dirs_to_create: every component that is no directory yet.       *)
IsDirHere(q) == Has(q, {"Directory"}) \/ (Has(q, {"None"}) /\ IsReal(q, {"dir"}))
InTheWay(q) ==
    Has(q, {"File", "RealFileRef"}) \/ (Has(q, {"None"}) /\ IsReal(q, {"file", "link"}))
Mkdir ==
    /\ request.op = "mkdir"
    /\ LET p == request.path
           line == Above(p) \cup {p}
           missing == IF request.parents THEN {q \in line : ~IsDirHere(q)} ELSE {p}
           blocked == IF request.parents THEN \E q \in line : InTheWay(q)
                                         ELSE ~ParentExists(p)
           dirs == SetToSeq({<<q, Directory>> : q \in missing})
       IN CASE IsDirHere(p) -> Answers(IF request.exist_ok THEN "ok" ELSE "error")
            [] InTheWay(p) \/ (Has(p, {"None"}) /\ ~ResolveReal(p)) \/ blocked ->
                   Answers("error")
            [] OTHER -> CommitsChecked(ReplacementsUsage(dirs), InsertedAll(State, dirs),
                                       Len(dirs) * DirectoryWriteBytes)

(* Removals leave a tombstone, over overlay entries too.                   *)
Unlink ==
    /\ request.op = "unlink"
    /\ LET p == request.path IN
       IF \/ Has(p, {"File", "RealFileRef"})
          \/ Has(p, {"None"}) /\ ParentExists(p) /\ ResolveReal(p) /\ IsReal(p, {"file"})
       THEN Commits(Inserted(State, p, Deleted), 0)
       ELSE Answers("error")

Rmdir ==
    /\ request.op = "rmdir"
    /\ LET p == request.path IN
       IF /\ p # <<>> /\ ~OverlayHasChildren(p)
          /\ \/ Has(p, {"Directory"})
             \/ /\ Has(p, {"None"}) /\ ParentExists(p) /\ ResolveReal(p)
                /\ IsReal(p, {"dir"}) /\ ~RealHasVisibleChildren(p)
       THEN Commits(Inserted(State, p, Deleted), 0)
       ELSE Answers("error")

(* collect_real_descendants stops at whatever the overlay already holds.   *)
RealDescendants(src) ==
    {q \in Below(src) : /\ ~IsReal(q, {"none"})
                        /\ \A a \in (Above(q) \cup {q}) \cap Below(src) : Has(a, {"None"})}

(* reject_rename_type_mismatch and reject_rename_onto_nonempty_dir.        *)
DestinationFits(dst, src_is_dir) ==
    LET dst_is_dir == IsDirHere(dst)
        exists == dst_is_dir \/ InTheWay(dst)
    IN /\ exists => dst_is_dir = src_is_dir
       /\ src_is_dir /\ dst_is_dir =>
              /\ ~OverlayHasChildren(dst)
              /\ IsReal(dst, {"dir"}) => ~RealHasVisibleChildren(dst)

(* The entry a real file or directory gets when it moves.                  *)
Captured(q) == IF IsReal(q, {"dir"}) THEN Directory ELSE RealFileRef(q)
Moving(q) == IF Has(q, {"None"}) THEN Captured(q) ELSE entries[q]

(* What is renamed, tombstones included, and where it goes; every real     *)
(* descendant leaves a tombstone of its own.                               *)
Moved(src) ==
    <<src>> \o IF IsDirHere(src)
               THEN SetToSeq({q \in Below(src) : ~Has(q, {"None"})} \cup RealDescendants(src))
               ELSE <<>>
(* Mutant of Moves: only the renamed directory leaves a tombstone.         *)
MovesHidesSourceOnly(src, dst) ==
    << <<src, Deleted>> >>
    \o [i \in DOMAIN Moved(src) |->
           LET q == Moved(src)[i] IN <<dst \o SubSeq(q, Len(src) + 1, Len(q)), Moving(q)>>]
Moves(src, dst) ==
    LET pair(q) == << <<q, Deleted>>,
                      <<dst \o SubSeq(q, Len(src) + 1, Len(q)), Moving(q)>> >>
    IN FoldLeft(LAMBDA pairs, q : pairs \o pair(q), <<>>, Moved(src))

(* The update itself: every overlay entry that moves is taken out before   *)
(* anything is put in, unchecked.                                          *)
Renamed(src, dst) ==
    LET taken == SelectSeq(Moved(src), LAMBDA q : ~Has(q, {"None"}))
    IN InsertedAll(FoldLeft(Removed, State, taken), Moves(src, dst))

CanRename(src, dst) ==
    LET src_is_dir == IsDirHere(src) IN
    /\ src # <<>> /\ dst # <<>>
    /\ ParentExists(dst) /\ ParentExists(src)
    /\ Has(dst, {"None"}) => ResolveReal(dst)
    /\ \/ Has(src, {"File", "RealFileRef", "Directory"})
       \/ Has(src, {"None"}) /\ ResolveReal(src) /\ IsReal(src, {"file", "dir"})
    /\ DestinationFits(dst, src_is_dir)
    /\ src_is_dir => ~IsStrictPrefix(src, dst)
    /\ src_is_dir => \A q \in RealDescendants(src) : ~IsReal(q, {"link"})

Rename ==
    /\ request.op = "rename"
    /\ LET src == request.path
           dst == request.dst
       IN IF CanRename(src, dst)
          THEN \/ CommitsChecked(ReplacementsUsage(Moves(src, dst)), Renamed(src, dst), 0)
               \/ IsDirHere(src) /\ Answers("limit")    \* the plan itself takes memory
          ELSE Answers("error")

-----------------------------------------------------------------------------
Tree == INSTANCE FileTree WITH tree <- [p \in Paths |-> Lookup(p)]

(* The program makes one call at a time.  Bound: whatever a rename moves   *)
(* stays within Paths.                                                     *)
InBounds(r) ==
    r.op = "rename" =>
        \A q \in Below(r.path) : ~Has(q, {"None"}) \/ ~IsReal(q, {"none"}) =>
            r.dst \o SubSeq(q, Len(r.path) + 1, Len(q)) \in Paths
Ask(r) ==
    /\ request \in Tree!Answers /\ InBounds(r)
    /\ request' = r
    /\ UNCHANGED <<real, entries, memory_usage, write_bytes_used>>

Init ==
    /\ real \in Bases
    /\ entries = [p \in Paths |-> None]
    /\ memory_usage = 0 /\ write_bytes_used = 0
    /\ request = [op |-> "ok"]
Serve ==
    \/ WriteBytes \/ AppendBytes \/ OpenAppend \/ CreateExclusive \/ Mkdir \/ Unlink \/ Rmdir \/ Rename
Next == Serve \/ \E r \in Tree!Requests : Ask(r)
Spec == Init /\ [][Next]_vars

-----------------------------------------------------------------------------
(* Through the overlay a program sees a plain file tree: every request is  *)
(* served, or refused, exactly as the tree it has seen so far demands, and *)
(* takes effect there and nowhere else, however writes, removals, renames  *)
(* of real and overlaid directories, and re-creations over tombstones      *)
(* follow each other.                                                      *)
ImplementsTree == Tree!Spec

(* Listing a directory and asking for its children one by one agree:       *)
(* iterdir merges the overlay with the host, exists and is_symlink look    *)
(* each path up.                                                           *)
ListingExact ==
    \A p \in Paths :
        Lookup(p).kind = "dir" => IterDir(p) = {q \in Children(p) : Lookup(q).kind # "none"}

(* The running total that every limit check trusts is what the entries     *)
(* cost: insert, remove, append_file and insert_unchecked each adjust it   *)
(* their own way and none drifts.  It stays within the limit although a    *)
(* rename puts its entries in unchecked, because what check_replacements   *)
(* foresaw for the plan is what taking out and putting in come to.         *)
MemoryExact ==
    /\ memory_usage = MapThenSumSet(LAMBDA p : EntryMemoryUsage(p, entries[p]), Paths)
    /\ memory_usage <= MemoryUsageLimit
    /\ request.op = "rename" /\ CanRename(request.path, request.dst) =>
           ReplacementsUsage(Moves(request.path, request.dst))
               = Renamed(request.path, request.dst).usage
=============================================================================
