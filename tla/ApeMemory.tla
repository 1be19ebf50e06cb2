----------------------------- MODULE ApeMemory -----------------------------
(***************************************************************************)
(* Address spaces of the APE server: the tables of mapped and lazy pages,  *)
(* the frames behind them with their reference counts, and copy on write   *)
(* across fork, faults, mmap, munmap, mprotect, mremap, brk, exec and      *)
(* exit.                                                                   *)
(*                                                                         *)
(* Addresses are page numbers.  The dispatcher runs one call or fault at a *)
(* time with the manager locked, so each is one action, whose outcomes     *)
(* include every point where an allocation or a mapping may fail.  A call  *)
(* of process p works on a record of p's tables and of the shared frame    *)
(* state; its outcomes are a set of such records, one of which is stored.  *)
(* Page contents and page-table levels are left out; which frame a page    *)
(* table has for a page, and with which permissions, is not.               *)
(***************************************************************************)
EXTENDS Integers, Sequences, FiniteSets, Functions

CONSTANTS
  MaxPid,             \* bound: pids are 1..MaxPid
  MaxPage,            \* bound: user pages are 0..MaxPage
  HeapStart,          \* heap_start
  MmapBase,           \* mmap_base, which is also heap_limit
  MmapLimit,          \* mmap_limit
  StackLow,           \* stack_bottom - max_stack_size
  StackBottom,        \* STACK_BASE
  TlsStart, TlsPages, \* where setup_initial_tls maps one frame of TlsPages pages
  Image,              \* the page loads of an executable: <<page, permissions>>
  Frame, NoFrame,     \* capability slots of physical frames
  MaxSpan,            \* most pages map_pages maps at once
  Ranges,             \* <<start, pages>> arguments of mmap, munmap, mprotect, mremap
  NewSizes,           \* mremap's new_size
  Prots,              \* permission arguments
  Calls,              \* which calls processes make
  Candidates(_),      \* external: the free frames the allocator may hand out next
  MaxFailures         \* bound: allocations and mappings that fail in one behaviour

Pid == 1..MaxPid
Page == 0..MaxPage
RW == {"r", "w"}
Perms == SUBSET {"r", "w", "x"}
Kinds == {"Image", "Stack", "Heap", "Anonymous", "FileBacked"}

ASSUME LayoutAssumption ==
  /\ MaxPid \in Nat \ {0} /\ MaxPage \in Nat /\ MaxSpan \in Nat \ {0} /\ MaxFailures \in Nat
  /\ HeapStart \in Page /\ MmapBase \in Page /\ MmapLimit \in Page
  /\ MmapBase <= MmapLimit
  /\ StackLow \in Page /\ StackBottom \in Page /\ StackLow < StackBottom
  /\ TlsStart \in Page /\ TlsPages \in Nat \ {0} /\ TlsStart + TlsPages - 1 \in Page
  /\ (TlsStart..(TlsStart + TlsPages - 1)) \cap (StackLow..(StackBottom - 1)) = {}
ASSUME ImageAssumption == Image \in Seq(Page \X Perms)
ASSUME ArgumentAssumption ==
  /\ NoFrame \notin Frame
  /\ \A S \in SUBSET Frame : Candidates(S) \subseteq S /\ (S # {} => Candidates(S) # {})
  /\ Prots \subseteq Perms
  /\ Ranges \subseteq Page \X (1..MaxPage) /\ NewSizes \subseteq 1..MaxPage
  /\ \A r \in Ranges : r[1] + r[2] - 1 \in Page
  /\ "mremap" \in Calls => \A r \in Ranges, n \in NewSizes : r[1] + n - 1 \in Page

\* The executable's pages are clear of the stack's area and of thread-local storage.
\* exec takes the addresses from the file as they are, so that this is no assumption
\* but a hypothesis of the theorems.
ImageClear ==
  \A i \in DOMAIN Image :
    Image[i][1] \notin (StackLow..(StackBottom - 1)) \cup (TlsStart..(TlsStart + TlsPages - 1))

VARIABLES
  tasks, next_pid,      \* as in ApeProcess
  running,              \* processes whose thread runs: not the child of a failed fork,
                        \* nor a thread whose fault was not answered
  memory_maps,          \* MmState.memory_maps: a set of entries
  lazy_memory_maps,     \* MmState.lazy_memory_maps: a set of [page, flags, kind]
  heap_brk, mmap_next, stack_size,
  pte,                  \* external: a process's page table, [frame, perms] or NoFrame
  frame_cap_refs,       \* ApeTaskState.frame_cap_refs, 0 when absent
  used,                 \* frames allocated from the resource service
  lost,                 \* history: frames allocated or retained and then forgotten
  lifted,               \* history: frames a call other than a store fault made writable
  failures              \* history: how many steps have failed

vars == <<tasks, next_pid, running, memory_maps, lazy_memory_maps, heap_brk, mmap_next,
          stack_size, pte, frame_cap_refs, used, lost, lifted, failures>>

(***************************************************************************)
(* Entries and the record a call works on                                  *)
(***************************************************************************)
Entry(v, n, f, flags, kind) ==
  [vaddr |-> v, pages |-> n, frame |-> f, flags |-> flags, kind |-> kind, cow |-> FALSE]
Span(e) == e.vaddr..(e.vaddr + e.pages - 1)
Spans(E) == UNION {Span(e) : e \in E}
has_overlap(a, b, start, pages) == a < start + pages /\ start < b
is_remappable_user_mapping(e) == e.kind \in {"Anonymous", "FileBacked"}

\* lookup_memory_map: the last entry that starts at or below the page, if it
\* reaches the page.  A set of at most one.
lookup_memory_map(maps, pg) ==
  {e \in maps : pg \in Span(e) /\ \A d \in maps : d.vaddr <= pg => d.vaddr <= e.vaddr}

Mem(p) ==
  [maps |-> memory_maps[p], lazy |-> lazy_memory_maps[p], brk |-> heap_brk[p],
   next |-> mmap_next[p], stack |-> stack_size[p], pte |-> pte[p],
   refs |-> frame_cap_refs, used |-> used, lost |-> lost, lifted |-> lifted,
   failures |-> failures]

Store(p, w) ==
  /\ memory_maps' = [memory_maps EXCEPT ![p] = w.maps]
  /\ lazy_memory_maps' = [lazy_memory_maps EXCEPT ![p] = w.lazy]
  /\ heap_brk' = [heap_brk EXCEPT ![p] = w.brk]
  /\ mmap_next' = [mmap_next EXCEPT ![p] = w.next]
  /\ stack_size' = [stack_size EXCEPT ![p] = w.stack]
  /\ pte' = [pte EXCEPT ![p] = w.pte]
  /\ frame_cap_refs' = w.refs
  /\ used' = w.used /\ lost' = w.lost
  /\ lifted' = w.lifted \cap w.used
  /\ w.failures <= MaxFailures /\ failures' = w.failures

Failed(w) == [w EXCEPT !.failures = @ + 1]

\* The end of a page fault.  The dispatcher answers none that failed, and the
\* thread stays blocked.
FaultEnds(p, w) ==
  /\ Store(p, w)
  /\ running' = IF w.failures > failures THEN running \ {p} ELSE running
  /\ UNCHANGED <<tasks, next_pid>>

\* BTreeMap::insert: an entry replaces the one at the same address.
Insert(maps, E) == {d \in maps : \A e \in E : e.vaddr # d.vaddr} \cup E

\* The page table after mapping the entries E with their flags, or unmapping
\* the pages S.
Pte(e) == [frame |-> e.frame, perms |-> e.flags]
Mapped(table, E) ==
  [pg \in Page |-> IF \E e \in E : pg \in Span(e)
                   THEN Pte(CHOOSE e \in E : pg \in Span(e)) ELSE table[pg]]
Unmapped(table, S) == [pg \in Page |-> IF pg \in S THEN NoFrame ELSE table[pg]]

\* The history of frames that become writable with the entries E.
Lifts(w, E) == [w EXCEPT !.lifted = @ \cup {e.frame : e \in {d \in E : "w" \in d.flags}}]

\* New entries in table and page table, their frames allocated.
AddEntries(w, E) ==
  [w EXCEPT !.maps = Insert(@, E), !.pte = Mapped(@, E),
            !.used = @ \cup {e.frame : e \in E}]

AddLazy(w, S, flags, kind) ==
  [w EXCEPT !.lazy = {l \in @ : l.page \notin S}
                     \cup {[page |-> pg, flags |-> flags, kind |-> kind] : pg \in S}]

\* The frames that allocating one for each member of S, in order, can give.
Assignments(S, free) ==
  {g \in Injection(S, free) :
     \A i \in S : g[i] \in Candidates(free \ {g[j] : j \in {j \in S : j < i}})}

\* The ways to give each of the pages S a new frame.
FreshEntries(w, S, flags, kind) ==
  {{Entry(pg, 1, g[pg], flags, kind) : pg \in S} : g \in Assignments(S, Frame \ w.used)}

\* A step that fails before or after it has allocated a frame nobody will name.
FailedAlloc(w) ==
  {Failed(w)} \cup {[Failed(w) EXCEPT !.used = @ \cup {f}, !.lost = @ \cup {f}] :
                   f \in Candidates(Frame \ w.used)}

(***************************************************************************)
(* release_process_frame_slot, n[f] times for each frame f: a count above  *)
(* one goes down, the last or only holder frees the frame.                 *)
(***************************************************************************)
release_process_frame_slot(w, n) ==
  [w EXCEPT !.refs = [f \in Frame |-> IF n[f] = 0 THEN @[f]
                                      ELSE IF @[f] > n[f] THEN @[f] - n[f] ELSE 0],
            !.used = {f \in @ : n[f] = 0 \/ w.refs[f] > n[f]}]

Once(E) == [f \in Frame |-> IF \E e \in E : e.frame = f THEN 1 ELSE 0]
PerEntry(E) == [f \in Frame |-> Cardinality({e \in E : e.frame = f})]

(***************************************************************************)
(* Splitting: a mapping of several pages that a range covers in part gets  *)
(* a frame per page, mapped with the entry's flags.  The entries keep the  *)
(* copy-on-write mark, which a later fork takes to mean that their pages   *)
(* are write-protected already.  Targets are split in order.               *)
(***************************************************************************)
split_partial_multi_page_targets(w, a, b) ==
  {e \in w.maps : /\ is_remappable_user_mapping(e) /\ e.pages > 1
                  /\ has_overlap(a, b, e.vaddr, e.pages)
                  /\ a > e.vaddr \/ b < e.vaddr + e.pages}

Marked(E) == {e \in E : e.cow}

BasePage(e, pg, f) == [e EXCEPT !.vaddr = pg, !.pages = 1, !.frame = f]
BasePages(D, g) == UNION {{BasePage(e, pg, g[pg]) : pg \in Span(e)} : e \in D}

\* Mutant of SplitEntries: the old frame is not released.
SplitEntriesKeep(w, D, g) ==
  LET new == BasePages(D, g)
  IN  Lifts(AddEntries([w EXCEPT !.maps = @ \ D], new), Marked(new))

SplitEntries(w, D, g) ==
  LET new == BasePages(D, g)
  IN  release_process_frame_slot(
        Lifts(AddEntries([w EXCEPT !.maps = @ \ D], new), Marked(new)), PerEntry(D))

\* Splitting e fails: before its pages are unmapped, or after, when the old frame
\* is mapped again, with the entry's flags, or not.
FailedSplit(w, e) ==
  {Failed(w), [Failed(w) EXCEPT !.pte = Unmapped(@, Span(e))],
   Lifts([Failed(w) EXCEPT !.pte = Mapped(@, {e})], Marked({e}))}

ensure_partial_multi_page_ranges_split(w, a, b) ==
  LET T == split_partial_multi_page_targets(w, a, b)
      Before(e) == {d \in T : d.vaddr < e.vaddr}
      Split(D) == {SplitEntries(w, D, g) : g \in Assignments(Spans(D), Frame \ w.used)}
  IN  {[ok |-> TRUE, w |-> v] : v \in Split(T)}
      \cup {[ok |-> FALSE, w |-> v] :
              v \in UNION {UNION {FailedSplit(u, e) : u \in Split(Before(e))} : e \in T}}

(***************************************************************************)
(* munmap.  Lazy pages go; an entry goes if the range holds its first page *)
(* and it is not image, heap or stack.                                     *)
(***************************************************************************)
\* Mutant of RemoveRange: the page table keeps the removed pages.
RemoveRangeMapped(w, a, b) ==
  LET gone == {e \in w.maps : e.vaddr \in a..(b - 1) /\ is_remappable_user_mapping(e)}
  IN  release_process_frame_slot(
        [w EXCEPT !.maps = @ \ gone, !.lazy = {l \in @ : l.page \notin a..(b - 1)}],
        PerEntry(gone))

RemoveRange(w, a, b) ==
  LET gone == {e \in w.maps : e.vaddr \in a..(b - 1) /\ is_remappable_user_mapping(e)}
  IN  release_process_frame_slot(
        [w EXCEPT !.maps = @ \ gone, !.lazy = {l \in @ : l.page \notin a..(b - 1)},
                  !.pte = Unmapped(@, Spans(gone))],
        PerEntry(gone))

do_munmap(w, a, b) ==
  {IF r.ok THEN RemoveRange(r.w, a, b) ELSE r.w :
     r \in ensure_partial_multi_page_ranges_split(w, a, b)}

SysMunmap(p, a, n) ==
  /\ p \in running
  /\ \E w \in do_munmap(Mem(p), a, a + n) : Store(p, w)
  /\ UNCHANGED <<tasks, next_pid, running>>

(***************************************************************************)
(* mmap                                                                    *)
(***************************************************************************)
\* Mutant of range_is_free: lazy pages are not looked at.
range_is_free_of_entries(w, a, b, except) ==
  /\ MmapBase <= a /\ a < b /\ b <= MmapLimit
  /\ ~has_overlap(a, b, HeapStart, w.brk - HeapStart)
  /\ ~has_overlap(a, b, StackLow, StackBottom - StackLow)
  /\ \A e \in w.maps : has_overlap(a, b, e.vaddr, e.pages) => Span(e) \subseteq except

\* range_is_free and range_is_free_excluding: what lies within `except' does
\* not count.
range_is_free(w, a, b, except) ==
  /\ MmapBase <= a /\ a < b /\ b <= MmapLimit
  /\ ~has_overlap(a, b, HeapStart, w.brk - HeapStart)
  /\ ~has_overlap(a, b, StackLow, StackBottom - StackLow)
  /\ \A e \in w.maps : has_overlap(a, b, e.vaddr, e.pages) => Span(e) \subseteq except
  /\ \A l \in w.lazy : l.page \in a..(b - 1) => l.page \in except

\* The first free place for n pages from `from' on, as a set of at most one.
FirstFree(w, from, n) ==
  {a \in Page : /\ a >= from /\ range_is_free(w, a, a + n, {})
                /\ \A c \in from..(a - 1) : ~range_is_free(w, c, c + n, {})}

\* Pages are mapped one by one.  A failed slot allocation keeps those before
\* it; a failed frame allocation or mapping takes them back.
map_anonymous_range_eager(w, a, n, flags) ==
  UNION {{[ok |-> k = n, w |-> AddEntries(IF k = n THEN w ELSE Failed(w), E)] :
            E \in FreshEntries(w, a..(a + k - 1), flags, "Anonymous")} : k \in 0..n}

AdvanceNext(w, b) == [w EXCEPT !.next = IF @ < b THEN b ELSE @]

\* The part MAP_FIXED and other mappings share, at the chosen place.
MmapAt(w, a, n, flags, file) ==
  IF file THEN {AdvanceNext(AddLazy(w, a..(a + n - 1), flags, "FileBacked"), a + n)}
  ELSE {IF r.ok THEN AdvanceNext(r.w, a + n) ELSE r.w :
          r \in map_anonymous_range_eager(w, a, n, flags)}

FixedAllowed(w, a, b) ==
  /\ b <= MmapLimit
  /\ ~has_overlap(a, b, HeapStart, w.brk - HeapStart)
  /\ ~has_overlap(a, b, StackLow, StackBottom - StackLow)
  /\ \A e \in w.maps : has_overlap(a, b, e.vaddr, e.pages) => is_remappable_user_mapping(e)

SysMmapFixed(p, a, n, flags, file) ==
  /\ p \in running
  /\ \E r \in ensure_partial_multi_page_ranges_split(Mem(p), a, a + n) :
       IF r.ok /\ FixedAllowed(r.w, a, a + n)
       THEN \E w \in MmapAt(RemoveRange(r.w, a, a + n), a, n, flags, file) : Store(p, w)
       ELSE Store(p, r.w)
  /\ UNCHANGED <<tasks, next_pid, running>>

\* Without MAP_FIXED the search starts at the hint, or at mmap_next if there is
\* none (0).
SysMmap(p, hint, n, flags, file) ==
  LET start == IF hint # 0 THEN hint ELSE mmap_next[p]
      from == IF start > MmapBase THEN start ELSE MmapBase
  IN  /\ p \in running
      /\ \E a \in FirstFree(Mem(p), from, n) :
           \E w \in MmapAt(Mem(p), a, n, flags, file) : Store(p, w)
      /\ UNCHANGED <<tasks, next_pid, running>>

\* Mutant of SysBrk: heap_limit is not looked at.
SysBrkUnlimited(p, b) ==
  /\ p \in running /\ b \in HeapStart..MaxPage
  /\ Store(p, [Mem(p) EXCEPT !.brk = b])
  /\ UNCHANGED <<tasks, next_pid, running>>

SysBrk(p, b) ==
  /\ p \in running /\ b \in HeapStart..MmapBase
  /\ Store(p, [Mem(p) EXCEPT !.brk = b])
  /\ UNCHANGED <<tasks, next_pid, running>>

(***************************************************************************)
(* mprotect: every page must be in an entry; the entries are remapped one  *)
(* after another, and their flags are changed when all of them are.  The   *)
(* copy-on-write mark is left alone.                                       *)
(***************************************************************************)
Protect(w, a, b, flags) ==
  LET R == UNION {lookup_memory_map(w.maps, pg) : pg \in a..(b - 1)}
      With(E) == {[e EXCEPT !.flags = flags] : e \in E}
      Before(e) == {d \in R : d.vaddr < e.vaddr}
  IN  IF \E pg \in a..(b - 1) : lookup_memory_map(w.maps, pg) = {} THEN {w}
      ELSE {Lifts([w EXCEPT !.maps = (@ \ R) \cup With(R),
                            !.lazy = {IF l.page \in a..(b - 1) THEN [l EXCEPT !.flags = flags]
                                      ELSE l : l \in @},
                            !.pte = Mapped(@, With(R))], With(R))}
           \cup {Lifts([Failed(w) EXCEPT !.pte = Unmapped(Mapped(@, With(Before(e))), Span(e))],
                       With(Before(e))) : e \in R}

SysMprotect(p, a, n, flags) ==
  /\ p \in running
  /\ \E r \in ensure_partial_multi_page_ranges_split(Mem(p), a, a + n) :
       \E w \in (IF r.ok THEN Protect(r.w, a, a + n, flags) ELSE {r.w}) : Store(p, w)
  /\ UNCHANGED <<tasks, next_pid, running>>

(***************************************************************************)
(* mremap of n pages at a to m pages: all of them anonymous base pages.    *)
(***************************************************************************)
Remappable(w, pg) ==
  \/ \E e \in w.maps : e.vaddr = pg /\ e.kind = "Anonymous" /\ e.pages = 1
  \/ /\ \A e \in w.maps : e.vaddr # pg
     /\ \E l \in w.lazy : l.page = pg /\ l.kind = "Anonymous"

BaseFlags(w, pg) ==
  IF \E e \in w.maps : e.vaddr = pg THEN (CHOOSE e \in w.maps : e.vaddr = pg).flags
  ELSE (CHOOSE l \in w.lazy : l.page = pg).flags

Expand(w, a, n, m) ==
  AdvanceNext(AddLazy(w, (a + n)..(a + m - 1), BaseFlags(w, a), "Anonymous"), a + m)

\* Mutant of Move: the old places stay in the page table.
MoveMapped(w, a, n, m, t) ==
  LET old == {e \in w.maps : e.vaddr \in a..(a + n - 1)}
      kept == {e \in old : e.vaddr < a + m}
      moved == {[e EXCEPT !.vaddr = @ - a + t, !.cow = FALSE] : e \in kept}
      lazies == {l \in w.lazy : l.page \in a..(a + n - 1)}
      movedLazies == {[l EXCEPT !.page = @ - a + t] : l \in {k \in lazies : k.page < a + m}}
      w1 == [w EXCEPT !.maps = Insert(@ \ old, moved),
                      !.lazy = (@ \ lazies) \cup movedLazies,
                      !.pte = Mapped(@, moved),
                      !.lost = @ \cup {e.frame : e \in old \ kept}]
  IN  AdvanceNext(AddLazy(Lifts(w1, moved), (t + n)..(t + m - 1), BaseFlags(w, a), "Anonymous"),
                  t + m)

\* The pages change place with their frames; the copy-on-write mark is dropped.
\* Frames that a smaller target has no room for are not released.
Move(w, a, n, m, t) ==
  LET old == {e \in w.maps : e.vaddr \in a..(a + n - 1)}
      kept == {e \in old : e.vaddr < a + m}
      moved == {[e EXCEPT !.vaddr = @ - a + t, !.cow = FALSE] : e \in kept}
      lazies == {l \in w.lazy : l.page \in a..(a + n - 1)}
      movedLazies == {[l EXCEPT !.page = @ - a + t] : l \in {k \in lazies : k.page < a + m}}
      w1 == [w EXCEPT !.maps = Insert(@ \ old, moved),
                      !.lazy = (@ \ lazies) \cup movedLazies,
                      !.pte = Unmapped(Mapped(@, moved), Spans(old)),
                      !.lost = @ \cup {e.frame : e \in old \ kept}]
  IN  AdvanceNext(AddLazy(Lifts(w1, moved), (t + n)..(t + m - 1), BaseFlags(w, a), "Anonymous"),
                  t + m)

\* In place: give up the tail, or add lazy pages if the room is free.
RemapInPlace(w, a, n, m) ==
  IF m < n THEN do_munmap(w, a + m, a + n)
  ELSE IF m > n /\ range_is_free(w, a, a + m, a..(a + n - 1)) THEN {Expand(w, a, n, m)}
  ELSE {w}

RemapTo(w, a, n, m, t) ==
  IF ~has_overlap(t, t + m, a, n) /\ range_is_free(w, t, t + m, {})
  THEN {Move(w, a, n, m, t)} ELSE {w}

SysMremap(p, a, n, m, move) ==
  LET w == Mem(p)
      inPlace == m <= n \/ range_is_free(w, a, a + m, a..(a + n - 1))
  IN  /\ p \in running
      /\ \A pg \in a..(a + n - 1) : Remappable(w, pg)
      /\ inPlace \/ move                            \* otherwise ENOMEM
      /\ \E v \in IF inPlace THEN RemapInPlace(w, a, n, m)
                  ELSE UNION {RemapTo(w, a, n, m, t) :
                                t \in FirstFree(w, IF mmap_next[p] > MmapBase THEN mmap_next[p]
                                                   ELSE MmapBase, m)} :
           Store(p, v)
      /\ UNCHANGED <<tasks, next_pid, running>>

SysMremapFixed(p, a, n, m, t) ==
  /\ p \in running
  /\ \A pg \in a..(a + n - 1) : Remappable(Mem(p), pg)
  /\ \E v \in IF t = a THEN RemapInPlace(Mem(p), a, n, m) ELSE RemapTo(Mem(p), a, n, m, t) :
       Store(p, v)
  /\ UNCHANGED <<tasks, next_pid, running>>

(***************************************************************************)
(* exit, a fatal signal and every fatal fault.  Each frame is released     *)
(* once.  Init's death stops the server.                                   *)
(***************************************************************************)
ReleaseAll(w) ==
  [release_process_frame_slot(w, Once(w.maps)) EXCEPT
     !.maps = {}, !.lazy = {}, !.pte = Unmapped(@, Spans(w.maps))]

FreshScalars(w) == [w EXCEPT !.brk = HeapStart, !.next = MmapBase, !.stack = 0]

terminate_process(p) ==
  /\ p # 1
  /\ Store(p, [FreshScalars(ReleaseAll(Mem(p))) EXCEPT !.pte = [pg \in Page |-> NoFrame]])
  /\ tasks' = tasks \ {p} /\ running' = running \ {p}
  /\ UNCHANGED next_pid

SysExit(p) == p \in tasks /\ terminate_process(p)

(***************************************************************************)
(* Page faults                                                             *)
(***************************************************************************)
ReplaceEntry(w, e, d) == [w EXCEPT !.maps = (@ \ {e}) \cup {d}]

\* Mutant of resolve_cow_fault: the shared frame is not released.
resolve_cow_fault_keep(w, e) ==
  {[ReplaceEntry(w, e, [e EXCEPT !.frame = f, !.cow = FALSE]) EXCEPT
      !.pte = [@ EXCEPT ![e.vaddr] = [frame |-> f, perms |-> e.flags]],
      !.used = @ \cup {f}] : f \in Candidates(Frame \ w.used)}

\* A store to a copy-on-write entry: the first page is copied to a new frame,
\* which becomes the entry's.  A failure forgets the new frame, and may come
\* after the page was unmapped.
resolve_cow_fault(w, e) ==
  {release_process_frame_slot(
     [ReplaceEntry(w, e, [e EXCEPT !.frame = f, !.cow = FALSE]) EXCEPT
        !.pte = [@ EXCEPT ![e.vaddr] = [frame |-> f, perms |-> e.flags]], !.used = @ \cup {f}],
     Once({e})) : f \in Candidates(Frame \ w.used)}
  \cup FailedAlloc(w)
  \cup {[Failed(w) EXCEPT !.pte = Unmapped(@, {e.vaddr}),
                         !.used = @ \cup {f}, !.lost = @ \cup {f}] :
          f \in Candidates(Frame \ w.used)}

\* Map the entry again with other flags; a failure leaves it unmapped.
remap_existing_page(w, e, flags) ==
  {[ReplaceEntry(w, e, [e EXCEPT !.flags = flags]) EXCEPT
      !.pte = Mapped(@, {[e EXCEPT !.flags = flags]})],
   [Failed(w) EXCEPT !.pte = Unmapped(@, Span(e))]}

\* An image entry trades execute for write, or write for execute.
Adjusted(e, access) ==
  IF e.kind # "Image" THEN {}
  ELSE IF access = "w" /\ "x" \in e.flags /\ "w" \notin e.flags
       THEN {(e.flags \cup {"w"}) \ {"x"}}
  ELSE IF access = "x" /\ "w" \in e.flags /\ "x" \notin e.flags
       THEN {(e.flags \cup {"x"}) \ {"w"}}
  ELSE {}

CowStore(e, access) == access = "w" /\ e.cow

\* A thread faults where its page table does not allow the access.
Faults(p, pg, access) ==
  /\ p \in running
  /\ ~(pte[p][pg] # NoFrame /\ access \in pte[p][pg].perms)

FaultOnEntry(p, pg, access) ==
  /\ Faults(p, pg, access)
  /\ \E e \in lookup_memory_map(memory_maps[p], pg) :
       \/ /\ CowStore(e, access) /\ "w" \in e.flags
          /\ \E w \in resolve_cow_fault(Mem(p), e) : FaultEnds(p, w)
       \/ /\ ~CowStore(e, access) /\ access \notin e.flags
          /\ \E flags \in Adjusted(e, access) :
               \E w \in remap_existing_page(Mem(p), e, flags) :
                 FaultEnds(p, Lifts(w, {[e EXCEPT !.flags = flags]}))
       \/ /\ ~CowStore(e, access) /\ access \in e.flags
          /\ \E w \in remap_existing_page(Mem(p), e, IF e.cow THEN e.flags \ {"w"} ELSE e.flags) :
               FaultEnds(p, w)

\* The access an entry does not allow: SIGSEGV.
FatalOnEntry(p, pg, access) ==
  \E e \in lookup_memory_map(memory_maps[p], pg) :
    access \notin e.flags /\ (CowStore(e, access) \/ Adjusted(e, access) = {})

map_fault_page(w, pg, flags, kind) == {AddEntries(w, E) : E \in FreshEntries(w, {pg}, flags, kind)}

LazyAt(w, pg) == {l \in w.lazy : l.page = pg}

\* A lazy page, which comes before stack and heap in classify_fault.
FaultOnLazy(p, pg, access) ==
  /\ Faults(p, pg, access) /\ lookup_memory_map(memory_maps[p], pg) = {}
  /\ \E l \in LazyAt(Mem(p), pg) :
       /\ access \in l.flags
       /\ \/ /\ l.kind = "Anonymous"
             /\ LET w == [Mem(p) EXCEPT !.lazy = @ \ {l}]
                IN  \E v \in map_fault_page(w, pg, l.flags, "Anonymous") \cup FailedAlloc(w) :
                      FaultEnds(p, v)
          \/ \* map_pages maps a run of pages of the file with one frame; without it
             \* one page is read (n = 1)
             /\ l.kind = "FileBacked"
             /\ \E n \in 1..MaxSpan, f \in Candidates(Frame \ used) :
                  /\ \A i \in 0..(n - 1) : [l EXCEPT !.page = pg + i] \in lazy_memory_maps[p]
                  /\ FaultEnds(p, AddEntries(
                       [Mem(p) EXCEPT !.lazy = {k \in @ : k.page \notin pg..(pg + n - 1)}],
                       {Entry(pg, n, f, l.flags, "FileBacked")}))

\* An access the lazy page does not allow, or a file that cannot be read.
FatalOnLazy(p, pg, access) ==
  \E l \in LazyAt(Mem(p), pg) : access \notin l.flags \/ l.kind = "FileBacked"

\* Mutant of GrowStack: the size is set before the pages are mapped.
GrowStackEarly(w, pg) ==
  LET low == StackBottom - w.stack
  IN  UNION {{[AddEntries(w, E) EXCEPT !.stack = @ + (low - pg)] :
                E \in FreshEntries(w, (low - k)..(low - 1), RW, "Stack")} : k \in 0..(low - pg)}

\* The pages between the stack and pg, from the top; a failure keeps those
\* mapped before it.
GrowStack(w, pg) ==
  LET low == StackBottom - w.stack
      Grown(k) == {[AddEntries(w, E) EXCEPT !.stack = @ + k] :
                     E \in FreshEntries(w, (low - k)..(low - 1), RW, "Stack")}
  IN  Grown(low - pg) \cup UNION {FailedAlloc(v) : v \in UNION {Grown(k) : k \in 0..(low - pg - 1)}}

InStackArea(p, pg) == StackLow <= pg /\ pg < StackBottom - stack_size[p]
InHeap(p, pg) == HeapStart <= pg /\ pg < heap_brk[p]

FaultOnStack(p, pg, access) ==
  /\ Faults(p, pg, access) /\ lookup_memory_map(memory_maps[p], pg) = {} /\ LazyAt(Mem(p), pg) = {}
  /\ InStackArea(p, pg) /\ access \in RW
  /\ \E w \in GrowStack(Mem(p), pg) : FaultEnds(p, w)

FaultOnHeap(p, pg, access) ==
  /\ Faults(p, pg, access) /\ lookup_memory_map(memory_maps[p], pg) = {} /\ LazyAt(Mem(p), pg) = {}
  /\ ~InStackArea(p, pg) /\ InHeap(p, pg) /\ access \in RW
  /\ \E w \in map_fault_page(Mem(p), pg, RW, "Heap") \cup FailedAlloc(Mem(p)) : FaultEnds(p, w)

\* SIGSEGV or SIGBUS: the entry or lazy page does not allow the access, the
\* file cannot be read, stack or heap is executed, or nothing is there.
FaultFatal(p, pg, access) ==
  /\ Faults(p, pg, access)
  /\ \/ FatalOnEntry(p, pg, access)
     \/ /\ lookup_memory_map(memory_maps[p], pg) = {}
        /\ IF LazyAt(Mem(p), pg) # {} THEN FatalOnLazy(p, pg, access)
           ELSE InStackArea(p, pg) \/ InHeap(p, pg) => access = "x"
  /\ terminate_process(p)

\* lookup_map of a copy to or from user memory grows the stack as a fault does,
\* lazy pages or not.
UserCopy(p, pg) ==
  /\ p \in running /\ lookup_memory_map(memory_maps[p], pg) = {} /\ InStackArea(p, pg)
  /\ \E w \in GrowStack(Mem(p), pg) : Store(p, w)
  /\ UNCHANGED <<tasks, next_pid, running>>

(***************************************************************************)
(* fork: the child gets the parent's entries in order of address; a frame  *)
(* is retained once, a writable entry becomes copy on write on both sides. *)
(* A failure leaves a child that never runs, with what its page table got. *)
(***************************************************************************)
\* Mutant of retain_frame_cap: a frame that is shared already is not counted again.
retain_frame_cap_once(refs, frames) ==
  [f \in Frame |-> IF f \notin frames THEN refs[f] ELSE IF refs[f] = 0 THEN 2 ELSE refs[f]]

retain_frame_cap(refs, frames) ==
  [f \in Frame |-> IF f \notin frames THEN refs[f] ELSE IF refs[f] = 0 THEN 2 ELSE refs[f] + 1]

Cowed(E) == {[e EXCEPT !.cow = @ \/ "w" \in e.flags] : e \in E}

ReadOnly(E) == {[e EXCEPT !.flags = @ \ {"w"}] : e \in E}

\* Mutant of ForkParent: only the child's entries are marked.
ForkParentUnmarked(w, D) ==
  [w EXCEPT !.pte = Mapped(@, ReadOnly({e \in D : "w" \in e.flags /\ ~e.cow})),
            !.refs = retain_frame_cap(@, {e.frame : e \in D})]

\* Mutant of ForkParent: the parent keeps its writable mappings.
ForkParentWritable(w, D) ==
  [w EXCEPT !.maps = (@ \ D) \cup Cowed(D),
            !.refs = retain_frame_cap(@, {e.frame : e \in D})]

\* The parent after the entries D were shared.
ForkParent(w, D) ==
  [w EXCEPT !.maps = (@ \ D) \cup Cowed(D),
            !.pte = Mapped(@, ReadOnly({e \in D : "w" \in e.flags /\ ~e.cow})),
            !.refs = retain_frame_cap(@, {e.frame : e \in D})]

NewMem == [maps |-> {}, lazy |-> {}, brk |-> HeapStart, next |-> MmapBase, stack |-> 0,
           pte |-> [pg \in Page |-> NoFrame], refs |-> [f \in Frame |-> 0],
           used |-> {}, lost |-> {}, lifted |-> {}, failures |-> 0]

\* Mutant of StoreBoth: the child's stack_size stays that of a new task.
StoreBothNewStack(p, w, q, c) ==
  /\ memory_maps' = [memory_maps EXCEPT ![p] = w.maps, ![q] = c.maps]
  /\ lazy_memory_maps' = [lazy_memory_maps EXCEPT ![q] = c.lazy]
  /\ heap_brk' = [heap_brk EXCEPT ![q] = c.brk]
  /\ mmap_next' = [mmap_next EXCEPT ![q] = c.next]
  /\ pte' = [pte EXCEPT ![p] = w.pte, ![q] = c.pte]
  /\ frame_cap_refs' = w.refs /\ lost' = w.lost
  /\ w.failures <= MaxFailures /\ failures' = w.failures
  /\ UNCHANGED <<stack_size, used, lifted>>

\* w is the parent's record, c the child's.
StoreBoth(p, w, q, c) ==
  /\ memory_maps' = [memory_maps EXCEPT ![p] = w.maps, ![q] = c.maps]
  /\ lazy_memory_maps' = [lazy_memory_maps EXCEPT ![q] = c.lazy]
  /\ heap_brk' = [heap_brk EXCEPT ![q] = c.brk]
  /\ mmap_next' = [mmap_next EXCEPT ![q] = c.next]
  /\ stack_size' = [stack_size EXCEPT ![q] = c.stack]
  /\ pte' = [pte EXCEPT ![p] = w.pte, ![q] = c.pte]
  /\ frame_cap_refs' = w.refs /\ lost' = w.lost
  /\ w.failures <= MaxFailures /\ failures' = w.failures
  /\ UNCHANGED <<used, lifted>>

Registers(p) ==
  /\ p \in running /\ next_pid <= MaxPid
  /\ tasks' = tasks \cup {next_pid} /\ next_pid' = next_pid + 1

\* The thread calls at the end may fail too: then the child never runs.
SysFork(p) ==
  LET w == Mem(p)
  IN  /\ Registers(p)
      /\ StoreBoth(p, ForkParent(w, w.maps), next_pid,
                   [maps |-> Cowed(w.maps), lazy |-> w.lazy, brk |-> w.brk, next |-> w.next,
                    stack |-> w.stack, pte |-> Mapped(NewMem.pte, ReadOnly(w.maps))])
      /\ running' \in {running, running \cup {next_pid}}

\* Mapping e in the child fails, or mapping it again in the parent.
SysForkFails(p, e) ==
  LET D == {d \in memory_maps[p] : d.vaddr < e.vaddr}
      w == [Failed(ForkParent(Mem(p), D)) EXCEPT !.lost = @ \cup {d.frame : d \in D}]
  IN  /\ Registers(p)
      /\ \E v \in {w} \cup (IF "w" \in e.flags /\ ~e.cow
                           THEN {[w EXCEPT !.pte = Unmapped(@, Span(e))]} ELSE {}) :
           StoreBoth(p, v, next_pid, [NewMem EXCEPT !.pte = Mapped(@, ReadOnly(D))])
      /\ UNCHANGED running

(***************************************************************************)
(* execve: the old image is dropped, then image, stack and thread-local    *)
(* storage are mapped in turn; a failure leaves what was done.             *)
(***************************************************************************)
\* The first k page loads.  A page loaded twice keeps the last frame, and the
\* first is forgotten.
load_elf_into_process(w, k) ==
  LET kept == {i \in 1..k : \A j \in (i + 1)..k : Image[j][1] # Image[i][1]}
  IN  {[AddEntries(w, {Entry(Image[i][1], 1, g[i], Image[i][2], "Image") : i \in kept})
          EXCEPT !.used = @ \cup {g[i] : i \in 1..k},
                 !.lost = @ \cup {g[i] : i \in (1..k) \ kept}] :
         g \in Assignments(1..k, Frame \ w.used)}

setup_initial_stack(w) ==
  {[AddEntries(w, {Entry(StackBottom - 1, 1, f, RW, "Stack")}) EXCEPT !.stack = 1] :
     f \in Candidates(Frame \ w.used)}

setup_initial_tls(w) ==
  {AddEntries(w, {Entry(TlsStart, TlsPages, f, RW, "Anonymous")}) :
     f \in Candidates(Frame \ w.used)}

\* Stack or storage fail before or after their frame is in the page table.
FailedSetup(w, v, n) ==
  FailedAlloc(w)
  \cup {[Failed(w) EXCEPT !.used = @ \cup {f}, !.lost = @ \cup {f},
                         !.pte = Mapped(@, {Entry(v, n, f, RW, "Anonymous")})] :
          f \in Candidates(Frame \ w.used)}

Images(w) == {FreshScalars(v) : v \in load_elf_into_process(w, Len(Image))}
Stacks(w) == UNION {setup_initial_stack(v) : v \in Images(w)}
Complete(w) == UNION {setup_initial_tls(v) : v \in Stacks(w)}

\* What is left when a page load, the end of loading, stack or storage fails.
ExecFailed(w) ==
  (UNION {UNION {FailedAlloc(v) : v \in load_elf_into_process(w, k)} : k \in 0..(Len(Image) - 1)})
  \cup {Failed(v) : v \in load_elf_into_process(w, Len(Image))}
  \cup (UNION {FailedSetup(v, StackBottom - 1, 1) : v \in Images(w)})
  \cup (UNION {FailedSetup(v, TlsStart, TlsPages) : v \in Stacks(w)})

\* Reading the file fails first, which changes nothing.
SysExec(p) ==
  LET w == [ReleaseAll(Mem(p)) EXCEPT !.stack = 0]
  IN  /\ p \in running
      /\ \E v \in ExecFailed(w) \cup Complete(w) : Store(p, v)
      /\ UNCHANGED <<tasks, next_pid, running>>

(***************************************************************************)
(* The specification.  Init runs the program load_init has executed.       *)
(***************************************************************************)
Init ==
  /\ tasks = {1} /\ next_pid = 2 /\ running = {1}
  /\ \E w \in Complete(NewMem) :
       /\ memory_maps = [p \in Pid |-> IF p = 1 THEN w.maps ELSE {}]
       /\ pte = [p \in Pid |-> IF p = 1 THEN w.pte ELSE NewMem.pte]
       /\ stack_size = [p \in Pid |-> IF p = 1 THEN w.stack ELSE 0]
       /\ used = w.used /\ lost = w.lost
  /\ lazy_memory_maps = [p \in Pid |-> {}]
  /\ heap_brk = [p \in Pid |-> HeapStart] /\ mmap_next = [p \in Pid |-> MmapBase]
  /\ frame_cap_refs = [f \in Frame |-> 0] /\ lifted = {} /\ failures = 0

Access == {"r", "w", "x"}

Next ==
  \E p \in Pid :
    \/ SysExit(p)
    \/ /\ "fork" \in Calls
       /\ SysFork(p) \/ \E e \in memory_maps[p] : SysForkFails(p, e)
    \/ "exec" \in Calls /\ SysExec(p)
    \/ /\ "fault" \in Calls
       /\ \E pg \in Page, access \in Access :
            \/ FaultOnEntry(p, pg, access) \/ FaultOnLazy(p, pg, access)
            \/ FaultOnStack(p, pg, access) \/ FaultOnHeap(p, pg, access)
            \/ FaultFatal(p, pg, access)
    \/ "copy" \in Calls /\ \E pg \in Page : UserCopy(p, pg)
    \/ "brk" \in Calls /\ \E b \in Page : SysBrk(p, b)
    \/ \E r \in Ranges :
         \/ "munmap" \in Calls /\ SysMunmap(p, r[1], r[2])
         \/ "mmap" \in Calls /\ \E flags \in Prots, file \in BOOLEAN :
              SysMmap(p, r[1], r[2], flags, file) \/ SysMmapFixed(p, r[1], r[2], flags, file)
         \/ "mprotect" \in Calls /\ \E flags \in Prots : SysMprotect(p, r[1], r[2], flags)
         \/ "mremap" \in Calls /\ \E m \in NewSizes :
              \/ \E move \in BOOLEAN : SysMremap(p, r[1], r[2], m, move)
              \/ \E t \in Page : SysMremapFixed(p, r[1], r[2], m, t)

Spec == Init /\ [][Next]_vars

(***************************************************************************)
(* Properties                                                              *)
(***************************************************************************)
\* Every table, count and page-table entry has the type of its field in MmState
\* and ApeTaskState; an entry has at least one page, and is at one address only.  The
\* break is where exec put it, beyond heap_limit if the executable ends there, or
\* within the limit.
TypeOK ==
  /\ tasks \subseteq Pid /\ running \subseteq tasks /\ next_pid \in 1..(MaxPid + 1)
  /\ \A p \in Pid :
       /\ \A e \in memory_maps[p] :
            /\ e.vaddr \in Page /\ e.pages \in 1..(MaxPage + 1) /\ e.frame \in Frame
            /\ e.flags \in Perms /\ e.kind \in Kinds /\ e.cow \in BOOLEAN
            /\ Span(e) \subseteq Page
            /\ \A d \in memory_maps[p] : d.vaddr = e.vaddr => d = e
       /\ lazy_memory_maps[p] \subseteq
            [page : Page, flags : Perms, kind : {"Anonymous", "FileBacked"}]
  /\ heap_brk \in [Pid -> {HeapStart} \cup (HeapStart..MmapBase)]
  /\ mmap_next \in [Pid -> MmapBase..MmapLimit]
  /\ stack_size \in [Pid -> 0..(StackBottom - StackLow)]
  /\ pte \in [Pid -> [Page -> [frame : Frame, perms : Perms] \cup {NoFrame}]]
  /\ frame_cap_refs \in [Frame -> 0..MaxPid]
  /\ used \subseteq Frame /\ lost \subseteq used /\ lifted \subseteq used
  /\ failures \in 0..MaxFailures

Holders(f) == {p \in Pid : \E e \in memory_maps[p] : e.frame = f}

\* A frame an address space names is never back with the resource service: no
\* release in one process takes away what another still maps.
NoDanglingFrame == \A p \in Pid : \A e \in memory_maps[p] : e.frame \in used

\* The count of a frame that several processes hold is the number of holders, and
\* a frame with at most one holder has no count above one, whatever forks, stores,
\* unmappings, execs and exits have shared and released it.
RefsExact ==
  \A f \in Frame \ lost :
    IF Cardinality(Holders(f)) <= 1 THEN frame_cap_refs[f] \in {0, 1}
    ELSE frame_cap_refs[f] = Cardinality(Holders(f))

\* No frame is leaked, the ones a failed or shrinking step forgot aside: an
\* allocated frame is named by some address space.
FramesConserved == \A f \in used \ lost : Holders(f) # {}

\* A frame lives as long as an address space names it and no longer, because its
\* count is the number of those that do.
FramesSound == NoDanglingFrame /\ RefsExact /\ FramesConserved

\* A page belongs to one entry at most, and to none if it is lazy, so that a fault,
\* mmap's search for room and exit's release mean the same page.
MapsDisjoint ==
  \A p \in Pid :
    /\ \A d, e \in memory_maps[p] : d # e => Span(d) \cap Span(e) = {}
    /\ \A l \in lazy_memory_maps[p] : l.page \notin Spans(memory_maps[p])

\* stack_size counts exactly the stack entries, which are the pages next to
\* stack_bottom: a growth that failed half way is continued where it stopped.
StackContiguous ==
  \A p \in Pid :
    {e.vaddr : e \in {d \in memory_maps[p] : d.kind = "Stack"}}
      = (StackBottom - stack_size[p])..(StackBottom - 1)

\* The pages whose page-table entry t has to be the entry's own: the first one, all
\* of a copy-on-write entry, and every writable one.  The others are those that a
\* store fault leaves on the frame it gives up.
Bound(e, pg, t) == pg = e.vaddr \/ e.cow \/ "w" \in t.perms

\* The page table maps nothing the process does not own: outside its entries only
\* frames nobody else can get, and inside an entry that entry's frame.  A page after
\* the first of a mapping that a store fault has copied is the exception: it still
\* reads the frame the fault released, and never writes it.
PteMatchesMap ==
  \A p \in Pid, pg \in Page :
    pte[p][pg] # NoFrame /\ pte[p][pg].frame \notin lost =>
      \E e \in memory_maps[p] :
        pg \in Span(e) /\ (Bound(e, pg, pte[p][pg]) => e.frame = pte[p][pg].frame)

\* A writable entry whose frame another process also holds is copy on write on both
\* sides, unless a call other than a store fault made the frame writable.
SharedIsCow ==
  \A p \in Pid : \A e \in memory_maps[p] :
    /\ "w" \in e.flags /\ e.frame \notin lifted /\ Cardinality(Holders(e.frame)) > 1
    => e.cow

\* No page table lets a process write to a frame that another process holds, with
\* the same exception: after fork neither side sees the other's stores.
NoSharedWrite ==
  \A p \in Pid, pg \in Page :
    /\ pte[p][pg] # NoFrame /\ "w" \in pte[p][pg].perms /\ pte[p][pg].frame \notin lifted
    => Holders(pte[p][pg].frame) \subseteq {p}

\* Copy on write keeps the two sides of a fork apart, in the entries and in the
\* page tables alike.
CowSound == SharedIsCow /\ NoSharedWrite
=============================================================================
