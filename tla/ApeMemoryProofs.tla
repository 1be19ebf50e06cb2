--------------------------- MODULE ApeMemoryProofs --------------------------
(***************************************************************************)
(* Proofs about ApeMemory.  A call works on a record of its process's      *)
(* tables and of the shared frame state, in several steps.  Sound(w, c)    *)
(* says what holds of such a record between two steps, given the context c *)
(* in which the call began: how many other processes hold each frame, and  *)
(* which frames the process named, which were forgotten or lifted and what *)
(* the counts were.  Every operator a call is made of keeps it; a call     *)
(* that stores a sound record keeps the invariant MInv.                    *)
(***************************************************************************)
EXTENDS ApeMemory, FiniteSetTheorems, TLAPS

EntryType == [vaddr : Page, pages : 1..(MaxPage + 1), frame : Frame,
              flags : Perms, kind : Kinds, cow : BOOLEAN]
LazyType == [page : Page, flags : Perms, kind : {"Anonymous", "FileBacked"}]
PteType == [Page -> [frame : Frame, perms : Perms] \cup {NoFrame}]
StackArea == StackLow..(StackBottom - 1)
Breaks == {HeapStart} \cup (HeapStart..MmapBase)

Names(maps) == {e.frame : e \in maps}

\* An entry lies in the address space, shares no page and no frame with another
\* one, and no page with a lazy one.
MapsOK(maps, lazy) ==
  /\ maps \subseteq EntryType /\ lazy \subseteq LazyType
  /\ \A e \in maps : Span(e) \subseteq Page
  /\ \A d, e \in maps : d # e => Span(d) \cap Span(e) = {} /\ d.frame # e.frame
  /\ \A l \in lazy : \A e \in maps : l.page \notin Span(e)
  /\ \A k, l \in lazy : k.page = l.page => k = l

\* The stack area holds the stack's entries, which are contiguous, and nothing else.
StackOK(maps, lazy, size) ==
  /\ size \in 0..(StackBottom - StackLow)
  /\ \A e \in maps : e.kind # "Stack" => Span(e) \cap StackArea = {}
  /\ \A e \in maps : e.kind = "Stack" => e.vaddr \in (StackBottom - size)..(StackBottom - 1)
  /\ \A pg \in (StackBottom - size)..(StackBottom - 1) :
       \E e \in maps : e.kind = "Stack" /\ e.vaddr = pg
  /\ \A l \in lazy : l.page \notin StackArea

\* One frame: h others hold it, and this process does if named.
FrameOK(named, h, count, isUsed, isLost) ==
  LET total == IF named THEN h + 1 ELSE h
  IN  /\ count \in Nat /\ h \in Nat
      /\ ~isUsed => total = 0 /\ count = 0 /\ ~isLost
      /\ ~isLost /\ total <= 1 => count \in {0, 1}
      /\ ~isLost /\ total > 1 => count = total
      /\ isLost /\ total > 0 => count > total
      /\ isUsed /\ ~isLost => total > 0

FramesOK(names, refs, isUsed, isLost, c) ==
  /\ names \subseteq Frame /\ isUsed \subseteq Frame /\ isLost \subseteq Frame
  /\ refs \in [Frame -> Nat]
  /\ \A f \in Frame :
       /\ FrameOK(f \in names, c.others[f], refs[f], f \in isUsed, f \in isLost)
       /\ c.refs[f] \in Nat /\ refs[f] <= c.refs[f]
       /\ f \in c.lost => f \in isLost
       /\ f \in names => f \in c.mine \/ (c.others[f] = 0 /\ f \notin c.lost)

\* The pages of an entry that a store fault never leaves on another frame.
Own(e, pg) == pg = e.vaddr \/ e.cow

PteOK(maps, table, isLost) ==
  \A pg \in Page :
    table[pg] # NoFrame /\ table[pg].frame \notin isLost =>
      \E e \in maps : pg \in Span(e) /\ (Own(e, pg) => e.frame = table[pg].frame)

Writable(table, pg) == table[pg] # NoFrame /\ "w" \in table[pg].perms

\* Who may write: the page table has an entry's own frame writable only if the
\* entry says so or the frame was lifted; an entry that says so shares its frame
\* with nobody; outside the entries only frames nobody holds are writable.
CowOK(maps, table, isLost, lift, c) ==
  /\ c.lifted \subseteq lift
  /\ \A e \in maps : "w" \in e.flags /\ ~e.cow /\ c.others[e.frame] # 0 => e.frame \in lift
  /\ \A e \in maps : \A pg \in Span(e) :
       Writable(table, pg) =>
         table[pg].frame = e.frame /\ (("w" \in e.flags /\ ~e.cow) \/ e.frame \in lift)
  /\ \A pg \in Page :
       Writable(table, pg) /\ (\A e \in maps : pg \notin Span(e)) =>
         /\ table[pg].frame \in isLost /\ c.others[table[pg].frame] = 0
         /\ \A e \in maps : e.frame # table[pg].frame

\* All the pages of a copy-on-write entry are writable, or none is.
Uniform(maps, table) ==
  \A e \in maps : e.cow => \A a, b \in Span(e) : Writable(table, a) => Writable(table, b)

RecType ==
  [maps : SUBSET EntryType, lazy : SUBSET LazyType, brk : Breaks,
   next : MmapBase..MmapLimit, stack : 0..(StackBottom - StackLow), pte : PteType,
   refs : [Frame -> Nat], used : SUBSET Frame, lost : SUBSET Frame, lifted : SUBSET Frame,
   failures : Nat]

\* What a call may store.
Storable(w, c) ==
  /\ w \in RecType
  /\ MapsOK(w.maps, w.lazy) /\ StackOK(w.maps, w.lazy, w.stack)
  /\ FramesOK(Names(w.maps), w.refs, w.used, w.lost, c)
  /\ PteOK(w.maps, w.pte, w.lost) /\ CowOK(w.maps, w.pte, w.lost, w.lifted, c)

Sound(w, c) == Storable(w, c) /\ Uniform(w.maps, w.pte)

\* The context of a call of p, from the tables of all processes.
HoldersIn(mm, f) == {p \in Pid : \E e \in mm[p] : e.frame = f}

ContextIn(mm, refs, L, lift, p) ==
  [others |-> [f \in Frame |-> Cardinality(HoldersIn(mm, f) \ {p})],
   mine |-> Names(mm[p]), lost |-> L, lifted |-> lift, refs |-> refs]

\* What holds of the tables of one process.
SpaceOK(maps, lazy, size, table, refs, U, L, lift, c) ==
  /\ MapsOK(maps, lazy) /\ StackOK(maps, lazy, size)
  /\ FramesOK(Names(maps), refs, U, L, c)
  /\ PteOK(maps, table, L) /\ CowOK(maps, table, L, lift, c)

\* What holds of all of them.
Spaces(mm, lz, st, pt, refs, U, L, lift) ==
  \A p \in Pid : SpaceOK(mm[p], lz[p], st[p], pt[p], refs, U, L, lift,
                         ContextIn(mm, refs, L, lift, p))

Context(p) == ContextIn(memory_maps, frame_cap_refs, lost, lifted, p)

\* The inductive invariant.
MInv ==
  /\ tasks \subseteq Pid /\ running \subseteq tasks /\ next_pid \in 2..(MaxPid + 1)
  /\ \A p \in tasks : p < next_pid
  /\ memory_maps \in [Pid -> SUBSET EntryType]
  /\ lazy_memory_maps \in [Pid -> SUBSET LazyType]
  /\ heap_brk \in [Pid -> Breaks]
  /\ mmap_next \in [Pid -> MmapBase..MmapLimit]
  /\ stack_size \in [Pid -> 0..(StackBottom - StackLow)]
  /\ pte \in [Pid -> PteType]
  /\ lifted \subseteq used /\ failures \in 0..MaxFailures
  /\ \A f \in Frame : frame_cap_refs[f] < next_pid
  /\ Spaces(memory_maps, lazy_memory_maps, stack_size, pte, frame_cap_refs, used, lost, lifted)
  /\ \A p \in Pid : p >= next_pid => memory_maps[p] = {}
  /\ \A p \in running : Uniform(memory_maps[p], pte[p])

-----------------------------------------------------------------------------
(***************************************************************************)
(* The parts of the invariant, one by one.                                 *)
(***************************************************************************)
\* The layout constants are integers, and Page starts at 0.
LEMMA Numbers ==
  /\ MaxPage \in Nat /\ HeapStart \in Nat /\ MmapBase \in Nat /\ MmapLimit \in Nat
  /\ MmapLimit <= MaxPage /\ MmapBase <= MmapLimit /\ HeapStart \in Breaks
  /\ StackLow \in Nat /\ StackBottom \in Nat /\ StackLow < StackBottom /\ StackBottom <= MaxPage
  /\ \A pg : pg \in Page <=> pg \in Nat /\ pg <= MaxPage
BY LayoutAssumption DEF Page, Breaks

\* The pages of an entry, as an interval that is not empty.
LEMMA SpanOf ==
  ASSUME NEW e \in EntryType
  PROVE  /\ e.vaddr \in Nat /\ e.pages \in Nat /\ e.pages >= 1
         /\ \A pg : pg \in Span(e) <=> pg \in Int /\ e.vaddr <= pg /\ pg < e.vaddr + e.pages
         /\ e.vaddr \in Span(e)
BY Numbers DEF EntryType, Span, Page

\* Entries on pages and frames of their own may be added.
LEMMA MapsAdd ==
  ASSUME NEW maps, NEW lazy, MapsOK(maps, lazy), NEW E \in SUBSET EntryType,
         \A e \in E : Span(e) \subseteq Page,
         \A d, e \in E : d # e => Span(d) \cap Span(e) = {} /\ d.frame # e.frame,
         \A e \in E, d \in maps : Span(d) \cap Span(e) = {} /\ d.frame # e.frame,
         \A e \in E, l \in lazy : l.page \notin Span(e)
  PROVE  MapsOK(maps \cup E, lazy)
BY DEF MapsOK

\* Entries and lazy pages may be taken away.
LEMMA MapsShrink ==
  ASSUME NEW maps, NEW lazy, MapsOK(maps, lazy), NEW m \in SUBSET maps, NEW l \in SUBSET lazy
  PROVE  MapsOK(m, l)
BY DEF MapsOK

\* The stack stays as it is when its entries stay where they are and the others,
\* and lazy pages, stay out of its area.
LEMMA StackKept ==
  ASSUME NEW maps, NEW lazy, NEW size, StackOK(maps, lazy, size), NEW m, NEW l,
         \A e \in m : \/ e.kind # "Stack" /\ Span(e) \cap StackArea = {}
                      \/ \E d \in maps : Span(d) = Span(e) /\ d.vaddr = e.vaddr /\ d.kind = e.kind,
         \A d \in maps : d.kind = "Stack" => \E e \in m : e.kind = "Stack" /\ e.vaddr = d.vaddr,
         \A k \in l : k.page \notin StackArea \/ \E j \in lazy : j.page = k.page
  PROVE  StackOK(m, l, size)
<1>1. \A e \in m : e.kind # "Stack" => Span(e) \cap StackArea = {}
  BY DEF StackOK
<1>2. \A e \in m : e.kind = "Stack" => e.vaddr \in (StackBottom - size)..(StackBottom - 1)
  BY DEF StackOK
<1>3. \A pg \in (StackBottom - size)..(StackBottom - 1) :
        \E e \in m : e.kind = "Stack" /\ e.vaddr = pg
  BY DEF StackOK
<1>4. \A k \in l : k.page \notin StackArea
  BY DEF StackOK
<1> QED BY <1>1, <1>2, <1>3, <1>4 DEF StackOK

\* Frames that are free may be allocated and named.
LEMMA FramesFresh ==
  ASSUME NEW N, NEW refs, NEW U, NEW L, NEW c, FramesOK(N, refs, U, L, c),
         NEW F \in SUBSET (Frame \ U)
  PROVE  FramesOK(N \cup F, refs, U \cup F, L, c)
BY DEF FramesOK, FrameOK

\* Frames that are free may be allocated and forgotten.
LEMMA FramesForgotten ==
  ASSUME NEW N, NEW refs, NEW U, NEW L, NEW c, FramesOK(N, refs, U, L, c),
         NEW F \in SUBSET (Frame \ U)
  PROVE  FramesOK(N, refs, U \cup F, L \cup F, c)
BY DEF FramesOK, FrameOK

\* Frames the process names may be forgotten.
LEMMA FramesDropped ==
  ASSUME NEW N, NEW refs, NEW U, NEW L, NEW c, FramesOK(N, refs, U, L, c), NEW G \in SUBSET N
  PROVE  FramesOK(N \ G, refs, U, L \cup G, c)
BY DEF FramesOK, FrameOK

\* A frame is released once when the process stops naming it.
LEMMA FramesReleased ==
  ASSUME NEW N, NEW refs, NEW U, NEW L, NEW c, FramesOK(N, refs, U, L, c), NEW G \in SUBSET N,
         NEW r, r = [f \in Frame |-> IF f \in G THEN IF refs[f] > 1 THEN refs[f] - 1 ELSE 0
                                    ELSE refs[f]],
         NEW V, V = {f \in U : f \notin G \/ refs[f] > 1}
  PROVE  FramesOK(N \ G, r, V, L, c)
BY DEF FramesOK, FrameOK

Apart(E) == \A d, e \in E : d # e => Span(d) \cap Span(e) = {}

\* The page table after mapping entries on pages of their own.
LEMMA MappedAt ==
  ASSUME NEW E \in SUBSET EntryType, NEW table \in PteType, Apart(E)
  PROVE  /\ Mapped(table, E) \in PteType
         /\ \A e \in E, pg \in Page : pg \in Span(e) =>
              Mapped(table, E)[pg] = [frame |-> e.frame, perms |-> e.flags]
         /\ \A pg \in Page : (\A e \in E : pg \notin Span(e)) => Mapped(table, E)[pg] = table[pg]
<1>1. \A e \in E, pg \in Page : pg \in Span(e) => (CHOOSE d \in E : pg \in Span(d)) = e
  BY DEF Apart
<1>2. \A pg \in Page : (\E e \in E : pg \in Span(e)) => (CHOOSE d \in E : pg \in Span(d)) \in E
  OBVIOUS
<1>3. \A e \in E : [frame |-> e.frame, perms |-> e.flags] \in [frame : Frame, perms : Perms]
  BY DEF EntryType
<1> QED BY <1>1, <1>2, <1>3 DEF Mapped, Pte, PteType

\* The page table after unmapping.
LEMMA UnmappedAt ==
  ASSUME NEW table \in PteType, NEW S
  PROVE  /\ Unmapped(table, S) \in PteType
         /\ \A pg \in Page : Unmapped(table, S)[pg] = IF pg \in S THEN NoFrame ELSE table[pg]
BY DEF Unmapped, PteType

\* Entries on pages and frames of their own.
Fresh(E, maps, lazy, U) ==
  /\ E \subseteq EntryType
  /\ \A e \in E : Span(e) \subseteq Page /\ e.frame \notin U
  /\ \A d, e \in E : d # e => Span(d) \cap Span(e) = {} /\ d.frame # e.frame
  /\ \A e \in E, d \in maps : Span(d) \cap Span(e) = {}
  /\ \A e \in E, l \in lazy : l.page \notin Span(e)

MarkedIn(E, lift) == \A e \in E : e.cow /\ "w" \in e.flags => e.frame \in lift

Parts(maps, lazy, refs, U, L, lift, table, c) ==
  /\ MapsOK(maps, lazy) /\ FramesOK(Names(maps), refs, U, L, c)
  /\ table \in PteType /\ PteOK(maps, table, L) /\ CowOK(maps, table, L, lift, c)

\* Fresh entries are added and mapped; one that is marked copy on write although
\* its frame is its own counts as lifted.
LEMMA PartsAdd ==
  ASSUME NEW maps, NEW lazy, NEW refs, NEW U, NEW L, NEW lift, NEW table, NEW c,
         Parts(maps, lazy, refs, U, L, lift, table, c),
         NEW E, Fresh(E, maps, lazy, U), NEW lift2, lift \subseteq lift2, MarkedIn(E, lift2)
  PROVE  /\ Parts(maps \cup E, lazy, refs, U \cup Names(E), L, lift2, Mapped(table, E), c)
         /\ Uniform(maps, table) => Uniform(maps \cup E, Mapped(table, E))
<1> DEFINE new == Mapped(table, E)
<1>0. /\ MapsOK(maps, lazy) /\ FramesOK(Names(maps), refs, U, L, c) /\ table \in PteType
      /\ PteOK(maps, table, L) /\ CowOK(maps, table, L, lift, c)
  BY DEF Parts
<1>1. /\ new \in PteType
      /\ \A e \in E, pg \in Page :
           pg \in Span(e) => new[pg] = [frame |-> e.frame, perms |-> e.flags]
      /\ \A pg \in Page : (\A e \in E : pg \notin Span(e)) => new[pg] = table[pg]
  <2>1. E \in SUBSET EntryType /\ Apart(E)
    BY DEF Fresh, Apart
  <2> QED BY <1>0, <2>1, MappedAt
<1>2. \A e \in maps : e \in EntryType /\ Span(e) \subseteq Page /\ e.frame \in U
  BY <1>0 DEF MapsOK, FramesOK, FrameOK, Names
<1>3. \A e \in E : e \in EntryType /\ Span(e) \subseteq Page /\ e.frame \in Frame \ U
        /\ e.flags \in Perms
  BY DEF Fresh, EntryType
<1>4. \A d \in maps : \A pg \in Span(d) : pg \in Page /\ new[pg] = table[pg]
  BY <1>1, <1>2 DEF Fresh
<1>5. \A e \in E : \A pg \in Span(e) :
        pg \in Page /\ new[pg] = [frame |-> e.frame, perms |-> e.flags]
  BY <1>1, <1>3
<1> HIDE DEF new
<1>6. MapsOK(maps \cup E, lazy)
  BY <1>0, <1>2, <1>3, MapsAdd DEF Fresh
<1>7. FramesOK(Names(maps \cup E), refs, U \cup Names(E), L, c)
  <2>1. Names(maps \cup E) = Names(maps) \cup Names(E) /\ Names(E) \in SUBSET (Frame \ U)
    BY <1>3 DEF Names
  <2>2. FramesOK(Names(maps) \cup Names(E), refs, U \cup Names(E), L, c)
    BY <2>1, <1>0, FramesFresh
  <2> QED BY <2>1, <2>2
<1>8. PteOK(maps \cup E, new, L)
  <2> SUFFICES ASSUME NEW pg \in Page, new[pg] # NoFrame, new[pg].frame \notin L
               PROVE  \E e \in maps \cup E :
                        pg \in Span(e) /\ (Own(e, pg) => e.frame = new[pg].frame)
    BY DEF PteOK
  <2>1. CASE \E e \in E : pg \in Span(e)
    <3>1. PICK e \in E : pg \in Span(e)
      BY <2>1
    <3>2. new[pg] = [frame |-> e.frame, perms |-> e.flags]
      BY <3>1, <1>5
    <3> QED BY <3>1, <3>2
  <2>2. CASE \A e \in E : pg \notin Span(e)
    BY <2>2, <1>1, <1>0 DEF PteOK
  <2> QED BY <2>1, <2>2
<1>9. CowOK(maps \cup E, new, L, lift2, c)
  <2>1. \A e \in E : e.frame \in Frame /\ c.others[e.frame] = 0 /\ e.frame \notin L
    BY <1>0, <1>3 DEF FramesOK, FrameOK
  <2>2. \A e \in maps \cup E :
          "w" \in e.flags /\ ~e.cow /\ c.others[e.frame] # 0 => e.frame \in lift2
    BY <1>0, <2>1 DEF CowOK
  <2>3. \A e \in maps : \A pg \in Span(e) :
          Writable(new, pg) =>
            new[pg].frame = e.frame /\ (("w" \in e.flags /\ ~e.cow) \/ e.frame \in lift2)
    BY <1>0, <1>4 DEF CowOK, Writable
  <2>4. \A e \in E : \A pg \in Span(e) :
          Writable(new, pg) =>
            new[pg].frame = e.frame /\ (("w" \in e.flags /\ ~e.cow) \/ e.frame \in lift2)
    <3> SUFFICES ASSUME NEW e \in E, NEW pg \in Span(e), Writable(new, pg)
                 PROVE  new[pg].frame = e.frame
                        /\ (("w" \in e.flags /\ ~e.cow) \/ e.frame \in lift2)
      OBVIOUS
    <3>0. new[pg] = [frame |-> e.frame, perms |-> e.flags]
      BY <1>5
    <3>1. new[pg].frame = e.frame /\ new[pg].perms = e.flags
      BY <3>0
    <3> QED BY <3>1, <1>3 DEF Writable, EntryType, MarkedIn
  <2>5. \A pg \in Page :
          Writable(new, pg) /\ (\A e \in maps \cup E : pg \notin Span(e)) =>
            /\ new[pg].frame \in L /\ c.others[new[pg].frame] = 0
            /\ \A e \in maps \cup E : e.frame # new[pg].frame
    BY <1>0, <1>1, <2>1 DEF CowOK, Writable
  <2>6. c.lifted \subseteq lift2
    BY <1>0 DEF CowOK
  <2> QED BY <2>2, <2>3, <2>4, <2>5, <2>6 DEF CowOK
<1>10. Uniform(maps, table) => Uniform(maps \cup E, new)
  <2>1. \A e \in E : \A a, b \in Span(e) : Writable(new, a) => Writable(new, b)
    BY <1>5 DEF Writable
  <2>2. Uniform(maps, table) => \A e \in maps : e.cow => \A a, b \in Span(e) :
          Writable(new, a) => Writable(new, b)
    BY <1>4 DEF Writable, Uniform
  <2> QED BY <2>1, <2>2 DEF Uniform
<1> QED BY <1>1, <1>6, <1>7, <1>8, <1>9, <1>10 DEF Parts, new

\* Entries are removed, unmapped and released.
LEMMA PartsRemove ==
  ASSUME NEW maps, NEW lazy, NEW refs, NEW U, NEW L, NEW lift, NEW table, NEW c,
         Parts(maps, lazy, refs, U, L, lift, table, c),
         NEW G \in SUBSET maps, NEW l \in SUBSET lazy,
         NEW r, r = [f \in Frame |-> IF f \in Names(G) THEN IF refs[f] > 1 THEN refs[f] - 1 ELSE 0
                                    ELSE refs[f]],
         NEW V, V = {f \in U : f \notin Names(G) \/ refs[f] > 1}
  PROVE  /\ Parts(maps \ G, l, r, V, L, lift, Unmapped(table, Spans(G)), c)
         /\ Uniform(maps, table) => Uniform(maps \ G, Unmapped(table, Spans(G)))
<1> DEFINE new == Unmapped(table, Spans(G))
<1>0. /\ MapsOK(maps, lazy) /\ FramesOK(Names(maps), refs, U, L, c) /\ table \in PteType
      /\ PteOK(maps, table, L) /\ CowOK(maps, table, L, lift, c)
  BY DEF Parts
<1>1. /\ new \in PteType
      /\ \A pg \in Page : (\E e \in G : pg \in Span(e)) => new[pg] = NoFrame
      /\ \A pg \in Page : (\A e \in G : pg \notin Span(e)) => new[pg] = table[pg]
  BY <1>0, UnmappedAt DEF Spans
<1>2. \A d \in maps \ G : \A pg \in Span(d) : pg \in Page /\ new[pg] = table[pg]
  BY <1>0, <1>1 DEF MapsOK
<1> HIDE DEF new
<1>3. MapsOK(maps \ G, l)
  BY <1>0, MapsShrink
<1>4. FramesOK(Names(maps \ G), r, V, L, c)
  <2>1. Names(maps \ G) = Names(maps) \ Names(G) /\ Names(G) \in SUBSET Names(maps)
    BY <1>0 DEF Names, MapsOK
  <2>2. FramesOK(Names(maps) \ Names(G), r, V, L, c)
    BY <2>1, <1>0, FramesReleased
  <2> QED BY <2>1, <2>2
<1>5. PteOK(maps \ G, new, L)
  BY <1>0, <1>1 DEF PteOK
<1>6. CowOK(maps \ G, new, L, lift, c)
  <2>1. \A e \in maps \ G : "w" \in e.flags /\ ~e.cow /\ c.others[e.frame] # 0 => e.frame \in lift
    BY <1>0 DEF CowOK
  <2>2. \A e \in maps \ G : \A pg \in Span(e) :
          Writable(new, pg) =>
            new[pg].frame = e.frame /\ (("w" \in e.flags /\ ~e.cow) \/ e.frame \in lift)
    BY <1>0, <1>2 DEF CowOK, Writable
  <2>3. \A pg \in Page :
          Writable(new, pg) /\ (\A e \in maps \ G : pg \notin Span(e)) =>
            /\ new[pg].frame \in L /\ c.others[new[pg].frame] = 0
            /\ \A e \in maps \ G : e.frame # new[pg].frame
    BY <1>0, <1>1 DEF CowOK, Writable
  <2>4. c.lifted \subseteq lift
    BY <1>0 DEF CowOK
  <2> QED BY <2>1, <2>2, <2>3, <2>4 DEF CowOK
<1>7. Uniform(maps, table) => Uniform(maps \ G, new)
  BY <1>2 DEF Uniform, Writable
<1> QED BY <1>1, <1>3, <1>4, <1>5, <1>6, <1>7 DEF Parts, new

-----------------------------------------------------------------------------
(***************************************************************************)
(* The operators a call is made of.                                        *)
(***************************************************************************)
LEMMA StorableParts ==
  ASSUME NEW w, NEW c
  PROVE  Storable(w, c) <=>
           /\ w \in RecType /\ StackOK(w.maps, w.lazy, w.stack)
           /\ Parts(w.maps, w.lazy, w.refs, w.used, w.lost, w.lifted, w.pte, c)
BY DEF Storable, Parts, RecType

\* Only what the invariant is about matters; more frames may count as lifted.
LEMMA SoundCopy ==
  ASSUME NEW w, NEW c, NEW v \in RecType,
         v.maps = w.maps, v.lazy = w.lazy, v.stack = w.stack, v.pte = w.pte, v.refs = w.refs,
         v.used = w.used, v.lost = w.lost, w.lifted \subseteq v.lifted
  PROVE  /\ Storable(w, c) => Storable(v, c)
         /\ Sound(w, c) => Sound(v, c)
<1>1. CowOK(w.maps, w.pte, w.lost, w.lifted, c) => CowOK(w.maps, w.pte, w.lost, v.lifted, c)
  BY DEF CowOK
<1>2. Storable(w, c) => Storable(v, c)
  BY <1>1 DEF Storable
<1> QED BY <1>2 DEF Sound

\* Counting an injected failure changes no table.
LEMMA FailedSound ==
  ASSUME NEW w \in RecType, NEW c
  PROVE  /\ Failed(w) \in RecType
         /\ Failed(w) = [w EXCEPT !.failures = w.failures + 1]
         /\ Storable(w, c) => Storable(Failed(w), c)
         /\ Sound(w, c) => Sound(Failed(w), c)
<1> DEFINE v == Failed(w)
<1>1. /\ v \in RecType /\ v.maps = w.maps /\ v.lazy = w.lazy /\ v.stack = w.stack /\ v.pte = w.pte
      /\ v.refs = w.refs /\ v.used = w.used /\ v.lost = w.lost /\ v.lifted = w.lifted
  BY DEF Failed, RecType
<1>2. v = [w EXCEPT !.failures = w.failures + 1]
  BY DEF Failed
<1> QED BY <1>1, <1>2, SoundCopy

\* Recording frames as lifted only weakens what must hold of them.
LEMMA LiftsSound ==
  ASSUME NEW w \in RecType, NEW c, NEW E \in SUBSET EntryType
  PROVE  /\ Lifts(w, E) \in RecType
         /\ Storable(w, c) => Storable(Lifts(w, E), c)
         /\ Sound(w, c) => Sound(Lifts(w, E), c)
<1> DEFINE v == Lifts(w, E)
           F == {e.frame : e \in {d \in E : "w" \in d.flags}}
<1>0. F \subseteq Frame
  BY DEF EntryType
<1>1. v = [w EXCEPT !.lifted = w.lifted \cup F]
  BY DEF Lifts
<1> HIDE DEF v, F
<1>2. /\ v \in RecType /\ v.maps = w.maps /\ v.lazy = w.lazy /\ v.stack = w.stack /\ v.pte = w.pte
      /\ v.refs = w.refs /\ v.used = w.used /\ v.lost = w.lost /\ w.lifted \subseteq v.lifted
  BY <1>0, <1>1 DEF RecType
<1>3. (Storable(w, c) => Storable(v, c)) /\ (Sound(w, c) => Sound(v, c))
  BY <1>2, SoundCopy
<1> QED BY <1>2, <1>3 DEF v

\* The mmap hint moves up, within its limit.
LEMMA AdvanceSound ==
  ASSUME NEW w \in RecType, NEW c, NEW b \in Nat, b <= MmapLimit
  PROVE  /\ AdvanceNext(w, b) \in RecType
         /\ Sound(w, c) => Sound(AdvanceNext(w, b), c)
<1> DEFINE v == AdvanceNext(w, b)
<1>0. w.next \in MmapBase..MmapLimit
  BY DEF RecType
<1>1. v = [w EXCEPT !.next = IF w.next < b THEN b ELSE w.next]
  BY DEF AdvanceNext
<1>2. (IF w.next < b THEN b ELSE w.next) \in MmapBase..MmapLimit
  BY <1>0, Numbers
<1> HIDE DEF v
<1>3. /\ v \in RecType /\ v.maps = w.maps /\ v.lazy = w.lazy /\ v.stack = w.stack /\ v.pte = w.pte
      /\ v.refs = w.refs /\ v.used = w.used /\ v.lost = w.lost /\ v.lifted = w.lifted
  BY <1>1, <1>2 DEF RecType
<1>4. Sound(w, c) => Sound(v, c)
  BY <1>3, SoundCopy
<1> QED BY <1>3, <1>4 DEF v

\* The fields after new entries.
LEMMA AddFields ==
  ASSUME NEW w \in RecType, NEW c, MapsOK(w.maps, w.lazy),
         NEW E, Fresh(E, w.maps, w.lazy, w.used)
  PROVE  AddEntries(w, E) = [w EXCEPT !.maps = w.maps \cup E, !.pte = Mapped(w.pte, E),
                                      !.used = w.used \cup Names(E)]
<1>1. \A d \in w.maps, e \in E : d.vaddr # e.vaddr
  BY SpanOf DEF MapsOK, Fresh
<1>2. Insert(w.maps, E) = w.maps \cup E
  BY <1>1 DEF Insert
<1> QED BY <1>2 DEF AddEntries, Names

\* New entries in the table; where they leave the stack is a matter of their own.
LEMMA AddStorable ==
  ASSUME NEW w, NEW c, Storable(w, c), NEW E, Fresh(E, w.maps, w.lazy, w.used),
         MarkedIn(E, w.lifted)
  PROVE  /\ AddEntries(w, E) \in RecType
         /\ AddEntries(w, E).maps = w.maps \cup E
         /\ AddEntries(w, E).used = w.used \cup Names(E)
         /\ AddEntries(w, E) = [w EXCEPT !.maps = w.maps \cup E, !.pte = Mapped(w.pte, E),
                                      !.used = w.used \cup Names(E)]
         /\ StackOK(w.maps \cup E, w.lazy, w.stack) => Storable(AddEntries(w, E), c)
         /\ StackOK(w.maps \cup E, w.lazy, w.stack) /\ Sound(w, c) => Sound(AddEntries(w, E), c)
<1> DEFINE v == AddEntries(w, E)
<1>0. w \in RecType /\ MapsOK(w.maps, w.lazy) /\ w.lifted \subseteq Frame
      /\ Parts(w.maps, w.lazy, w.refs, w.used, w.lost, w.lifted, w.pte, c)
  BY StorableParts DEF Storable, RecType
<1>1. v = [w EXCEPT !.maps = w.maps \cup E, !.pte = Mapped(w.pte, E), !.used = w.used \cup Names(E)]
  BY <1>0, AddFields
<1> HIDE DEF v
<1>2. /\ Parts(w.maps \cup E, w.lazy, w.refs, w.used \cup Names(E), w.lost, w.lifted,
               Mapped(w.pte, E), c)
      /\ Uniform(w.maps, w.pte) => Uniform(w.maps \cup E, Mapped(w.pte, E))
  BY <1>0, PartsAdd
<1>3. w.maps \cup E \in SUBSET EntryType /\ Mapped(w.pte, E) \in PteType
      /\ w.used \cup Names(E) \in SUBSET Frame
  BY <1>2, <1>0 DEF Parts, MapsOK, Fresh, FramesOK
<1>4. /\ v \in RecType /\ v.maps = w.maps \cup E /\ v.lazy = w.lazy /\ v.stack = w.stack
      /\ v.pte = Mapped(w.pte, E) /\ v.refs = w.refs /\ v.used = w.used \cup Names(E)
      /\ v.lost = w.lost /\ v.lifted = w.lifted
  BY <1>0, <1>1, <1>3 DEF RecType
<1>5. StackOK(w.maps \cup E, w.lazy, w.stack) => Storable(v, c)
  BY <1>2, <1>4, StorableParts
<1>6. Sound(w, c) /\ Storable(v, c) => Sound(v, c)
  BY <1>2, <1>4 DEF Sound
<1> QED BY <1>1, <1>4, <1>5, <1>6 DEF v

\* Entries outside the stack's area leave the stack alone.
LEMMA StackAdd ==
  ASSUME NEW maps, NEW lazy, NEW size, StackOK(maps, lazy, size), NEW E,
         \A e \in E : e.kind # "Stack" /\ Span(e) \cap StackArea = {}
  PROVE  StackOK(maps \cup E, lazy, size)
BY StackKept

\* A free frame is one.
LEMMA FreeFrame ==
  ASSUME NEW U, NEW f \in Candidates(Frame \ U)
  PROVE  f \in Frame /\ f \notin U
BY ArgumentAssumption

\* A frame allocated and forgotten.
Forget(w, f) == [w EXCEPT !.used = w.used \cup {f}, !.lost = w.lost \cup {f}]

\* A frame allocated and named by nobody is lost, and nothing else changes.
LEMMA ForgetSound ==
  ASSUME NEW w, NEW c, Storable(w, c), NEW f \in Frame, f \notin w.used, NEW v, v = Forget(w, f)
  PROVE  /\ v \in RecType
         /\ Storable(v, c)
         /\ Sound(w, c) => Sound(v, c)
<1>0. w \in RecType /\ MapsOK(w.maps, w.lazy) /\ StackOK(w.maps, w.lazy, w.stack)
      /\ FramesOK(Names(w.maps), w.refs, w.used, w.lost, c)
      /\ PteOK(w.maps, w.pte, w.lost) /\ CowOK(w.maps, w.pte, w.lost, w.lifted, c)
  BY DEF Storable
<1>1. /\ v \in RecType /\ v.maps = w.maps /\ v.lazy = w.lazy /\ v.stack = w.stack /\ v.pte = w.pte
      /\ v.refs = w.refs /\ v.used = w.used \cup {f} /\ v.lost = w.lost \cup {f}
      /\ v.lifted = w.lifted
  BY <1>0 DEF RecType, Forget
<1>2. FramesOK(Names(w.maps), w.refs, w.used \cup {f}, w.lost \cup {f}, c)
  BY <1>0, FramesForgotten
<1>3. PteOK(w.maps, w.pte, w.lost \cup {f}) /\ CowOK(w.maps, w.pte, w.lost \cup {f}, w.lifted, c)
  BY <1>0 DEF PteOK, CowOK
<1>4. Storable(v, c)
  BY <1>0, <1>1, <1>2, <1>3 DEF Storable
<1> QED BY <1>1, <1>4 DEF Sound

\* A step that fails before or after it has allocated a frame.
LEMMA FailedAllocSound ==
  ASSUME NEW w, NEW c, Storable(w, c), NEW v \in FailedAlloc(w)
  PROVE  /\ v \in RecType /\ Storable(v, c) /\ (Sound(w, c) => Sound(v, c))
         /\ v.maps = w.maps /\ v.pte = w.pte /\ v.failures = w.failures + 1
<1>0. w \in RecType
  BY DEF Storable
<1>1. /\ Failed(w) \in RecType /\ Storable(Failed(w), c) /\ (Sound(w, c) => Sound(Failed(w), c))
      /\ Failed(w) = [w EXCEPT !.failures = w.failures + 1]
  BY <1>0, FailedSound
<1>2. CASE v = Failed(w)
  BY <1>0, <1>1, <1>2 DEF RecType
<1>3. ASSUME NEW f \in Candidates(Frame \ w.used),
             v = [Failed(w) EXCEPT !.used = @ \cup {f}, !.lost = @ \cup {f}]
      PROVE  /\ v \in RecType /\ Storable(v, c) /\ (Sound(w, c) => Sound(v, c))
             /\ v.maps = w.maps /\ v.pte = w.pte /\ v.failures = w.failures + 1
  <2> DEFINE u == Failed(w)
  <2>1. u.used = w.used /\ u.maps = w.maps /\ u.pte = w.pte /\ u.failures = w.failures + 1
    BY <1>0, <1>1 DEF RecType
  <2>2. v = Forget(u, f)
    BY <1>3 DEF Forget
  <2> HIDE DEF u
  <2>3. f \in Frame /\ f \notin u.used
    BY <2>1, FreeFrame
  <2>4. u \in RecType /\ Storable(u, c) /\ (Sound(w, c) => Sound(u, c))
    BY <1>1 DEF u
  <2>5. v \in RecType /\ Storable(v, c) /\ (Sound(u, c) => Sound(v, c))
    BY <2>2, <2>3, <2>4, ForgetSound
  <2>6. v.maps = u.maps /\ v.pte = u.pte /\ v.failures = u.failures
    BY <2>2, <2>4 DEF RecType, Forget
  <2> QED BY <2>1, <2>4, <2>5, <2>6
<1> QED BY <1>2, <1>3 DEF FailedAlloc

\* A process releases each frame of some entries once, because no two of them
\* have the same one.
LEMMA PerEntryOnce ==
  ASSUME NEW G, \A d, e \in G : d # e => d.frame # e.frame
  PROVE  PerEntry(G) = Once(G)
<1> SUFFICES ASSUME NEW f \in Frame
             PROVE  Cardinality({e \in G : e.frame = f}) = IF \E e \in G : e.frame = f THEN 1 ELSE 0
  BY DEF PerEntry, Once
<1>1. CASE \E e \in G : e.frame = f
  <2>1. PICK e \in G : e.frame = f
    BY <1>1
  <2>2. {d \in G : d.frame = f} = {e}
    BY <2>1
  <2> QED BY <1>1, <2>2, FS_Singleton
<1>2. CASE ~\E e \in G : e.frame = f
  <2>1. {d \in G : d.frame = f} = {}
    BY <1>2
  <2> QED BY <1>2, <2>1, FS_EmptySet
<1> QED BY <1>1, <1>2

\* Entries are taken out of table and page table, and their frames released.
Without(w, G, l) == [w EXCEPT !.maps = w.maps \ G, !.lazy = l, !.pte = Unmapped(w.pte, Spans(G))]

\* Removal in closed form: one reference less for each frame, freed with the last.
LEMMA RemoveFields ==
  ASSUME NEW w \in RecType, NEW G \in SUBSET w.maps, NEW l \in SUBSET w.lazy
  PROVE  release_process_frame_slot(Without(w, G, l), Once(G)) =
           [w EXCEPT !.maps = w.maps \ G, !.lazy = l, !.pte = Unmapped(w.pte, Spans(G)),
                     !.refs = [f \in Frame |-> IF f \in Names(G)
                                               THEN IF w.refs[f] > 1 THEN w.refs[f] - 1 ELSE 0
                                               ELSE w.refs[f]],
                     !.used = {f \in w.used : f \notin Names(G) \/ w.refs[f] > 1}]
<1> DEFINE u == Without(w, G, l)
<1>1. u.refs = w.refs /\ u.used = w.used /\ w.used \subseteq Frame
  BY DEF RecType, Without
<1>2. \A f \in Frame : Once(G)[f] = IF f \in Names(G) THEN 1 ELSE 0
  BY DEF Once, Names
<1>3. [f \in Frame |-> IF Once(G)[f] = 0 THEN u.refs[f]
                       ELSE IF u.refs[f] > Once(G)[f] THEN u.refs[f] - Once(G)[f] ELSE 0]
      = [f \in Frame |-> IF f \in Names(G) THEN IF w.refs[f] > 1 THEN w.refs[f] - 1 ELSE 0
                         ELSE w.refs[f]]
  BY <1>1, <1>2
<1>4. {f \in u.used : Once(G)[f] = 0 \/ u.refs[f] > Once(G)[f]}
      = {f \in w.used : f \notin Names(G) \/ w.refs[f] > 1}
  BY <1>1, <1>2
<1> QED BY <1>3, <1>4 DEF release_process_frame_slot, Without

NoStack(G) == \A e \in G : e.kind # "Stack"

\* Removing entries other than the stack's keeps a record sound.
LEMMA RemoveSound ==
  ASSUME NEW w, NEW c, Storable(w, c), NEW G \in SUBSET w.maps, NEW l \in SUBSET w.lazy,
         NEW v, v = release_process_frame_slot(Without(w, G, l), Once(G)), NoStack(G)
  PROVE  /\ v \in RecType /\ Storable(v, c) /\ (Sound(w, c) => Sound(v, c))
         /\ v.maps = w.maps \ G /\ v.lazy = l /\ v.pte = Unmapped(w.pte, Spans(G))
         /\ v.brk = w.brk /\ v.stack = w.stack /\ v.failures = w.failures
<1> DEFINE r == [f \in Frame |-> IF f \in Names(G) THEN IF w.refs[f] > 1 THEN w.refs[f] - 1 ELSE 0
                                 ELSE w.refs[f]]
           V == {f \in w.used : f \notin Names(G) \/ w.refs[f] > 1}
<1>0. w \in RecType /\ StackOK(w.maps, w.lazy, w.stack)
      /\ Parts(w.maps, w.lazy, w.refs, w.used, w.lost, w.lifted, w.pte, c)
  BY StorableParts
<1>1. v = [w EXCEPT !.maps = w.maps \ G, !.lazy = l, !.pte = Unmapped(w.pte, Spans(G)),
                    !.refs = r, !.used = V]
  BY <1>0, RemoveFields
<1>2. /\ Parts(w.maps \ G, l, r, V, w.lost, w.lifted, Unmapped(w.pte, Spans(G)), c)
      /\ Uniform(w.maps, w.pte) => Uniform(w.maps \ G, Unmapped(w.pte, Spans(G)))
  BY <1>0, PartsRemove
<1>3. r \in [Frame -> Nat] /\ V \in SUBSET Frame /\ Unmapped(w.pte, Spans(G)) \in PteType
  BY <1>2 DEF Parts, FramesOK
<1> HIDE DEF r, V
<1>4. /\ v \in RecType /\ v.maps = w.maps \ G /\ v.lazy = l /\ v.stack = w.stack
      /\ v.pte = Unmapped(w.pte, Spans(G)) /\ v.refs = r /\ v.used = V
      /\ v.lost = w.lost /\ v.lifted = w.lifted /\ v.brk = w.brk /\ v.failures = w.failures
  BY <1>0, <1>1, <1>3, ZenonT(60) DEF RecType
<1>5. StackOK(w.maps \ G, l, w.stack)
  BY <1>0 DEF StackOK, NoStack
<1>6. Storable(v, c)
  BY <1>2, <1>4, <1>5, StorableParts
<1> QED BY <1>2, <1>4, <1>6 DEF Sound

\* Pages that no entry and no lazy page has.
Vacant(S, maps, lazy) ==
  \A pg \in S : (\A d \in maps : pg \notin Span(d)) /\ (\A l \in lazy : l.page # pg)

\* New base pages in the pages S.
BaseEntries(E, S, flags, kind) ==
  /\ \A e \in E : /\ ~e.cow /\ e.kind = kind /\ e.flags = flags
                  /\ Span(e) = {e.vaddr} /\ e.vaddr \in S
  /\ \A pg \in S : \E e \in E : e.vaddr = pg

\* New frames for vacant pages.
LEMMA FreshGiven ==
  ASSUME NEW maps, NEW lazy, NEW w, w.used \subseteq Frame, NEW S \in SUBSET Page,
         Vacant(S, maps, lazy),
         NEW flags \in Perms, NEW kind \in Kinds, NEW E \in FreshEntries(w, S, flags, kind)
  PROVE  Fresh(E, maps, lazy, w.used) /\ BaseEntries(E, S, flags, kind)
<1>1. PICK g \in Assignments(S, Frame \ w.used) : E = {Entry(pg, 1, g[pg], flags, kind) : pg \in S}
  BY DEF FreshEntries
<1>2. /\ g \in [S -> Frame \ w.used]
      /\ \A a, b \in S : g[a] = g[b] => a = b
  BY DEF Assignments, Injection, IsInjective
<1>3. \A pg \in S : LET e == Entry(pg, 1, g[pg], flags, kind)
                    IN  /\ e \in EntryType /\ e.vaddr = pg /\ e.frame = g[pg] /\ ~e.cow
                        /\ e.kind = kind /\ e.flags = flags /\ Span(e) = {pg}
  BY <1>2, Numbers DEF Entry, EntryType, Span, Page
<1>4. \A e \in E : /\ e \in EntryType /\ e.vaddr \in S /\ e.frame = g[e.vaddr] /\ ~e.cow
                   /\ e.kind = kind /\ e.flags = flags /\ Span(e) = {e.vaddr}
                   /\ e = Entry(e.vaddr, 1, g[e.vaddr], flags, kind)
  BY <1>1, <1>3
<1>5. Fresh(E, maps, lazy, w.used)
  <2>1. E \subseteq EntryType /\ \A e \in E : Span(e) \subseteq Page /\ e.frame \notin w.used
    BY <1>2, <1>4
  <2>2. \A d, e \in E : d # e => Span(d) \cap Span(e) = {} /\ d.frame # e.frame
    BY <1>2, <1>4
  <2>3. \A e \in E, d \in maps : Span(d) \cap Span(e) = {}
    BY <1>4 DEF Vacant
  <2>4. \A e \in E, l \in lazy : l.page \notin Span(e)
    BY <1>4 DEF Vacant
  <2> QED BY <2>1, <2>2, <2>3, <2>4 DEF Fresh
<1> QED BY <1>1, <1>3, <1>4, <1>5 DEF BaseEntries

SamePlace(d, e) ==
  d.vaddr = e.vaddr /\ d.pages = e.pages /\ d.frame = e.frame /\ d.kind = e.kind

\* What happens to an entry's part of the page table: nothing, it is unmapped, or
\* its frame is mapped, writable only where that is allowed.
TableFor(e, maps, table, new, lift) ==
  \/ e \in maps /\ \A pg \in Span(e) : new[pg] = table[pg]
  \/ \A pg \in Span(e) : new[pg] = NoFrame
  \/ \E perms : /\ \A pg \in Span(e) : new[pg] = [frame |-> e.frame, perms |-> perms]
                /\ "w" \in perms => ("w" \in e.flags /\ ~e.cow) \/ e.frame \in lift

\* Entries keep their place and frame and get other flags or other mappings.
Retabled(maps, table, m, new, lift, c) ==
  /\ \A e \in m : \E d \in maps : SamePlace(d, e)
  /\ \A d \in maps : \E e \in m : SamePlace(d, e)
  /\ \A d, e \in m : d.vaddr = e.vaddr => d = e
  /\ \A pg \in Page : (\A e \in maps : pg \notin Span(e)) => new[pg] = table[pg]
  /\ \A e \in m : "w" \in e.flags /\ ~e.cow /\ c.others[e.frame] # 0 => e.frame \in lift
  /\ \A e \in m : TableFor(e, maps, table, new, lift)

\* Entries may be rewritten in place, and their pages remapped, as Retabled says.
LEMMA PartsRetable ==
  ASSUME NEW maps, NEW lazy, NEW refs, NEW U, NEW L, NEW lift, NEW table, NEW c,
         Parts(maps, lazy, refs, U, L, lift, table, c),
         NEW m \in SUBSET EntryType, NEW new \in PteType, NEW lift2, lift \subseteq lift2,
         Retabled(maps, table, m, new, lift2, c)
  PROVE  /\ Parts(m, lazy, refs, U, L, lift2, new, c)
         /\ Uniform(maps, table) => Uniform(m, new)
<1>0. /\ MapsOK(maps, lazy) /\ FramesOK(Names(maps), refs, U, L, c) /\ table \in PteType
      /\ PteOK(maps, table, L) /\ CowOK(maps, table, L, lift, c)
  BY DEF Parts
<1>a. /\ \A e \in m : \E d \in maps : SamePlace(d, e)
      /\ \A d \in maps : \E e \in m : SamePlace(d, e)
      /\ \A d, e \in m : d.vaddr = e.vaddr => d = e
      /\ \A pg \in Page : (\A e \in maps : pg \notin Span(e)) => new[pg] = table[pg]
      /\ \A e \in m : "w" \in e.flags /\ ~e.cow /\ c.others[e.frame] # 0 => e.frame \in lift2
      /\ \A e \in m : TableFor(e, maps, table, new, lift2)
  BY DEF Retabled
<1> USE <1>a
<1>1. \A d, e : SamePlace(d, e) => Span(d) = Span(e)
  BY DEF SamePlace, Span
<1>2. MapsOK(m, lazy)
  <2>1. \A e \in m : \E d \in maps : SamePlace(d, e) /\ Span(d) = Span(e)
    BY <1>1
  <2>2. \A d, e \in m : d # e => Span(d) \cap Span(e) = {} /\ d.frame # e.frame
    <3> SUFFICES ASSUME NEW d \in m, NEW e \in m, d # e
                 PROVE  Span(d) \cap Span(e) = {} /\ d.frame # e.frame
      OBVIOUS
    <3>1. PICK x \in maps : SamePlace(x, d) /\ Span(x) = Span(d)
      BY <2>1
    <3>2. PICK y \in maps : SamePlace(y, e) /\ Span(y) = Span(e)
      BY <2>1
    <3>3. x # y
      BY <3>1, <3>2 DEF SamePlace
    <3> QED BY <3>1, <3>2, <3>3, <1>0 DEF MapsOK, SamePlace
  <2>3. \A e \in m : Span(e) \subseteq Page
    BY <2>1, <1>0 DEF MapsOK
  <2>4. \A l \in lazy : \A e \in m : l.page \notin Span(e)
    BY <2>1, <1>0 DEF MapsOK
  <2> QED BY <1>0, <2>2, <2>3, <2>4 DEF MapsOK
<1>3. Names(m) = Names(maps)
  BY DEF Names, SamePlace
<1>4. PteOK(m, new, L)
  <2> SUFFICES ASSUME NEW pg \in Page, new[pg] # NoFrame, new[pg].frame \notin L
               PROVE  \E e \in m : pg \in Span(e) /\ (Own(e, pg) => e.frame = new[pg].frame)
    BY DEF PteOK
  <2>1. CASE \A e \in maps : pg \notin Span(e)
    BY <2>1, <1>0 DEF PteOK
  <2>2. CASE \E e \in maps : pg \in Span(e)
    <3>1. PICK e \in m : pg \in Span(e)
      BY <2>2, <1>1
    <3>2. CASE e \in maps /\ new[pg] = table[pg]
      <4>1. PICK d \in maps : pg \in Span(d) /\ (Own(d, pg) => d.frame = table[pg].frame)
        BY <3>2, <1>0 DEF PteOK
      <4>2. d = e
        BY <3>1, <3>2, <4>1, <1>0 DEF MapsOK
      <4> QED BY <3>1, <3>2, <4>1, <4>2
    <3>3. CASE \E perms : new[pg] = [frame |-> e.frame, perms |-> perms]
      <4>1. PICK perms : new[pg] = [frame |-> e.frame, perms |-> perms]
        BY <3>3
      <4>2. new[pg].frame = e.frame
        BY <4>1
      <4> QED BY <3>1, <4>2
    <3> QED BY <3>1, <3>2, <3>3 DEF TableFor
  <2> QED BY <2>1, <2>2
<1>5. CowOK(m, new, L, lift2, c)
  <2>1. ASSUME NEW e \in m, NEW pg \in Span(e), Writable(new, pg)
        PROVE  new[pg].frame = e.frame /\ (("w" \in e.flags /\ ~e.cow) \/ e.frame \in lift2)
    <3>1. CASE e \in maps /\ new[pg] = table[pg]
      BY <2>1, <3>1, <1>0 DEF CowOK, Writable
    <3>2. ASSUME NEW perms, new[pg] = [frame |-> e.frame, perms |-> perms],
                 "w" \in perms => ("w" \in e.flags /\ ~e.cow) \/ e.frame \in lift2
          PROVE  new[pg].frame = e.frame /\ (("w" \in e.flags /\ ~e.cow) \/ e.frame \in lift2)
      <4>1. new[pg].frame = e.frame /\ new[pg].perms = perms
        BY <3>2
      <4> QED BY <2>1, <3>2, <4>1 DEF Writable
    <3> QED BY <2>1, <3>1, <3>2 DEF TableFor, Writable
  <2>2. \A pg \in Page :
          Writable(new, pg) /\ (\A e \in m : pg \notin Span(e)) =>
            /\ new[pg].frame \in L /\ c.others[new[pg].frame] = 0
            /\ \A e \in m : e.frame # new[pg].frame
    <3> SUFFICES ASSUME NEW pg \in Page, Writable(new, pg), \A e \in m : pg \notin Span(e)
                 PROVE  /\ new[pg].frame \in L /\ c.others[new[pg].frame] = 0
                        /\ \A e \in m : e.frame # new[pg].frame
      OBVIOUS
    <3>1. \A e \in maps : pg \notin Span(e)
      BY <1>1
    <3>2. new[pg] = table[pg]
      BY <3>1
    <3>3. /\ new[pg].frame \in L /\ c.others[new[pg].frame] = 0
          /\ \A e \in maps : e.frame # new[pg].frame
      BY <3>1, <3>2, <1>0 DEF CowOK, Writable
    <3> QED BY <3>3 DEF SamePlace
  <2>3. c.lifted \subseteq lift2
    BY <1>0 DEF CowOK
  <2> QED BY <2>1, <2>2, <2>3 DEF CowOK
<1>6. Uniform(maps, table) => Uniform(m, new)
  <2> SUFFICES ASSUME Uniform(maps, table), NEW e \in m, e.cow, NEW a \in Span(e),
                      NEW b \in Span(e),
                      Writable(new, a)
               PROVE  Writable(new, b)
    BY DEF Uniform
  <2>1. CASE e \in maps /\ \A pg \in Span(e) : new[pg] = table[pg]
    BY <2>1 DEF Uniform, Writable
  <2>2. CASE \E perms : \A pg \in Span(e) : new[pg] = [frame |-> e.frame, perms |-> perms]
    <3>1. new[a] = new[b]
      BY <2>2
    <3> QED BY <3>1 DEF Writable
  <2>3. CASE \A pg \in Span(e) : new[pg] = NoFrame
    BY <2>3 DEF Writable
  <2> QED BY <2>1, <2>2, <2>3 DEF TableFor
<1> QED BY <1>0, <1>2, <1>3, <1>4, <1>5, <1>6 DEF Parts

\* The same of a record.
LEMMA RetableSound ==
  ASSUME NEW w, NEW c, Storable(w, c), NEW v \in RecType,
         v.lazy = w.lazy, v.stack = w.stack, v.refs = w.refs, v.used = w.used, v.lost = w.lost,
         w.lifted \subseteq v.lifted,
         Retabled(w.maps, w.pte, v.maps, v.pte, v.lifted, c)
  PROVE  Storable(v, c) /\ (Sound(w, c) => Sound(v, c))
<1>0. /\ w \in RecType /\ StackOK(w.maps, w.lazy, w.stack)
      /\ Parts(w.maps, w.lazy, w.refs, w.used, w.lost, w.lifted, w.pte, c)
  BY StorableParts
<1>1. v.maps \in SUBSET EntryType /\ v.pte \in PteType
  BY DEF RecType
<1>2. /\ Parts(v.maps, w.lazy, w.refs, w.used, w.lost, v.lifted, v.pte, c)
      /\ Uniform(w.maps, w.pte) => Uniform(v.maps, v.pte)
  BY <1>0, <1>1, PartsRetable
<1>3. StackOK(v.maps, w.lazy, w.stack)
  <2>1. \A e \in v.maps : \E d \in w.maps :
          Span(d) = Span(e) /\ d.vaddr = e.vaddr /\ d.kind = e.kind
    BY DEF SamePlace, Span, Retabled
  <2>2. \A d \in w.maps : d.kind = "Stack" => \E e \in v.maps :
          e.kind = "Stack" /\ e.vaddr = d.vaddr
    BY DEF SamePlace, Retabled
  <2> QED BY <1>0, <2>1, <2>2, StackKept
<1>4. Storable(v, c)
  BY <1>2, <1>3, StorableParts
<1> QED BY <1>2, <1>4 DEF Sound

\* Nobody else holds the frame of a writable entry that is not marked, unless it
\* was lifted.
LEMMA SharedMarked ==
  ASSUME NEW w, NEW c, Storable(w, c)
  PROVE  \A e \in w.maps :
           "w" \in e.flags /\ ~e.cow /\ c.others[e.frame] # 0 => e.frame \in w.lifted
BY DEF Storable, CowOK

\* Addresses tell a process's entries apart.
LEMMA UniqueAddress ==
  ASSUME NEW maps, NEW lazy, MapsOK(maps, lazy)
  PROVE  \A d, e \in maps : d.vaddr \in Span(e) => d = e
BY SpanOf DEF MapsOK

\* A page of a split entry has the flags, kind and mark of the entry.
LEMMA BasePageFields ==
  ASSUME NEW d \in EntryType, NEW pg \in Page, NEW f \in Frame
  PROVE  LET e == BasePage(d, pg, f)
         IN  /\ e \in EntryType /\ e.vaddr = pg /\ e.pages = 1 /\ e.frame = f
             /\ e.flags = d.flags /\ e.kind = d.kind /\ e.cow = d.cow
<1>1. 1 \in 1..(MaxPage + 1)
  BY Numbers
<1> QED BY <1>1 DEF EntryType, BasePage

\* Base pages in place of the entries D.
Pieces(D, new) ==
  /\ \A e \in new : \E d \in D :
       /\ e.vaddr \in Span(d) /\ Span(e) = {e.vaddr} /\ e.pages = 1
       /\ e.flags = d.flags /\ e.kind = d.kind /\ e.cow = d.cow
  /\ \A d \in D : \A pg \in Span(d) : \E e \in new : e.vaddr = pg /\ Span(e) = {pg}

\* The base pages a split makes.
LEMMA BasePagesFresh ==
  ASSUME NEW maps, NEW lazy, MapsOK(maps, lazy), NEW D \in SUBSET maps, NEW U \in SUBSET Frame,
         NEW g \in Assignments(Spans(D), Frame \ U)
  PROVE  /\ \A V \in SUBSET U : Fresh(BasePages(D, g), maps \ D, lazy, V)
         /\ Pieces(D, BasePages(D, g))
<1> DEFINE new == BasePages(D, g)
           Base(d, pg) == BasePage(d, pg, g[pg])
<1>1. /\ g \in [Spans(D) -> Frame \ U]
      /\ \A a, b \in Spans(D) : g[a] = g[b] => a = b
  BY DEF Assignments, Injection, IsInjective
<1>2. \A d \in D : d \in EntryType /\ Span(d) \subseteq Page /\ Span(d) \subseteq Spans(D)
  BY DEF MapsOK, Spans
<1>3. \A d \in D : \A pg \in Span(d) :
        /\ Base(d, pg) \in EntryType
        /\ Base(d, pg).vaddr = pg /\ Base(d, pg).pages = 1 /\ Base(d, pg).frame = g[pg]
        /\ Base(d, pg).flags = d.flags /\ Base(d, pg).kind = d.kind /\ Base(d, pg).cow = d.cow
  <2> SUFFICES ASSUME NEW d \in D, NEW pg \in Span(d)
               PROVE  /\ Base(d, pg) \in EntryType
                      /\ Base(d, pg).vaddr = pg /\ Base(d, pg).pages = 1
                      /\ Base(d, pg).frame = g[pg]
                      /\ Base(d, pg).flags = d.flags /\ Base(d, pg).kind = d.kind
                      /\ Base(d, pg).cow = d.cow
    OBVIOUS
  <2>1. d \in EntryType /\ pg \in Page /\ g[pg] \in Frame
    BY <1>1, <1>2
  <2> QED BY <2>1, BasePageFields
<1>4. ASSUME NEW d \in D, NEW pg \in Span(d)
      PROVE  Span(Base(d, pg)) = {pg}
  <2>1. pg \in Nat /\ Base(d, pg).vaddr = pg /\ Base(d, pg).pages = 1
    BY <1>2, <1>3, Numbers
  <2> HIDE DEF Base
  <2> QED BY <2>1 DEF Span
<1>5. \A e \in new : \E d \in D : \E pg \in Span(d) : e = Base(d, pg)
  BY DEF BasePages
<1>6. \A d \in D : \A pg \in Span(d) : Base(d, pg) \in new
  BY DEF BasePages
<1> HIDE DEF new, Base
<1>7. \A e \in new : \E d \in D :
        /\ e.vaddr \in Span(d) /\ Span(e) = {e.vaddr} /\ e.pages = 1
        /\ e.flags = d.flags /\ e.kind = d.kind /\ e.cow = d.cow
        /\ e = Base(d, e.vaddr) /\ e.frame = g[e.vaddr] /\ e \in EntryType
  BY <1>3, <1>4, <1>5
<1>8. ASSUME NEW V \in SUBSET U
      PROVE  Fresh(new, maps \ D, lazy, V)
  <2>1. \A e \in new : e \in EntryType /\ Span(e) \subseteq Page /\ e.frame \notin V
    <3> SUFFICES ASSUME NEW e \in new PROVE e \in EntryType /\ Span(e) \subseteq Page
                        /\ e.frame \notin V
      OBVIOUS
    <3>1. PICK d \in D : e.vaddr \in Span(d) /\ Span(e) = {e.vaddr} /\ e.frame = g[e.vaddr]
                 /\ e \in EntryType
      BY <1>7
    <3>2. e.vaddr \in Spans(D) /\ e.vaddr \in Page
      BY <3>1, <1>2
    <3> QED BY <3>1, <3>2, <1>1
  <2>2. \A d, e \in new : d # e => Span(d) \cap Span(e) = {} /\ d.frame # e.frame
    <3> SUFFICES ASSUME NEW d \in new, NEW e \in new, d # e
                 PROVE  Span(d) \cap Span(e) = {} /\ d.frame # e.frame
      OBVIOUS
    <3>1. PICK x \in D : d.vaddr \in Span(x) /\ Span(d) = {d.vaddr} /\ d = Base(x, d.vaddr)
                 /\ d.frame = g[d.vaddr]
      BY <1>7
    <3>2. PICK y \in D : e.vaddr \in Span(y) /\ Span(e) = {e.vaddr} /\ e = Base(y, e.vaddr)
                 /\ e.frame = g[e.vaddr]
      BY <1>7
    <3>3. d.vaddr # e.vaddr
      BY <3>1, <3>2 DEF MapsOK
    <3>4. d.vaddr \in Spans(D) /\ e.vaddr \in Spans(D)
      BY <3>1, <3>2, <1>2
    <3> QED BY <3>1, <3>2, <3>3, <3>4, <1>1
  <2>3. \A e \in new, d \in maps \ D : Span(d) \cap Span(e) = {}
    BY <1>7 DEF MapsOK
  <2>4. \A e \in new, l \in lazy : l.page \notin Span(e)
    BY <1>7 DEF MapsOK
  <2> QED BY <2>1, <2>2, <2>3, <2>4 DEF Fresh
<1>9. \A d \in D : \A pg \in Span(d) : \E e \in new : e.vaddr = pg /\ Span(e) = {pg}
  BY <1>3, <1>4, <1>6
<1>10. \A V \in SUBSET U : Fresh(new, maps \ D, lazy, V)
  BY <1>8
<1> QED BY <1>7, <1>9, <1>10 DEF new, Pieces

\* A split, seen as a removal followed by an addition.
LEMMA SplitSound ==
  ASSUME NEW w, NEW c, Sound(w, c), NEW D \in SUBSET w.maps, NoStack(D),
         NEW g \in Assignments(Spans(D), Frame \ w.used)
  PROVE  /\ SplitEntries(w, D, g) \in RecType /\ Sound(SplitEntries(w, D, g), c)
         /\ SplitEntries(w, D, g).maps = (w.maps \ D) \cup BasePages(D, g)
<1> DEFINE v == SplitEntries(w, D, g)
           new == BasePages(D, g)
           none == Unmapped(w.pte, Spans(D))
           r == [f \in Frame |-> IF f \in Names(D) THEN IF w.refs[f] > 1 THEN w.refs[f] - 1 ELSE 0
                                 ELSE w.refs[f]]
           V == {f \in w.used : f \notin Names(D) \/ w.refs[f] > 1}
           F == {e.frame : e \in {d \in Marked(new) : "w" \in d.flags}}
           lift == w.lifted \cup F
<1>0. /\ w \in RecType /\ MapsOK(w.maps, w.lazy) /\ StackOK(w.maps, w.lazy, w.stack)
      /\ Parts(w.maps, w.lazy, w.refs, w.used, w.lost, w.lifted, w.pte, c)
      /\ Uniform(w.maps, w.pte)
  BY StorableParts DEF Sound, Parts
<1>1. w.used \subseteq Frame /\ w.pte \in PteType /\ w.lazy \in SUBSET w.lazy /\ V \in SUBSET w.used
  BY <1>0 DEF RecType
<1>2. /\ Fresh(new, w.maps \ D, w.lazy, V) /\ Fresh(new, w.maps \ D, w.lazy, w.used)
      /\ \A e \in new : \E d \in D :
           /\ e.vaddr \in Span(d) /\ Span(e) = {e.vaddr} /\ e.pages = 1
           /\ e.flags = d.flags /\ e.kind = d.kind /\ e.cow = d.cow
      /\ \A d \in D : \A pg \in Span(d) : \E e \in new : e.vaddr = pg /\ Span(e) = {pg}
  <2>1. w.used \in SUBSET w.used
    OBVIOUS
  <2>2. w.used \in SUBSET Frame
    BY <1>1
  <2>3. \A X \in SUBSET w.used : Fresh(BasePages(D, g), w.maps \ D, w.lazy, X)
    BY <1>0, <2>2, BasePagesFresh
  <2>4. Pieces(D, BasePages(D, g))
    BY <1>0, <2>2, BasePagesFresh
  <2> HIDE DEF V
  <2> QED BY <1>1, <2>1, <2>3, <2>4 DEF Pieces
<1>3. /\ Parts(w.maps \ D, w.lazy, r, V, w.lost, w.lifted, none, c)
      /\ Uniform(w.maps \ D, none)
  BY <1>0, <1>1, PartsRemove, ZenonT(60)
<1>4. /\ w.lifted \subseteq lift
      /\ MarkedIn(new, lift)
      /\ lift \subseteq Frame
  <2>1. new \subseteq EntryType /\ w.lifted \subseteq Frame
    BY <1>0, <1>2 DEF Fresh, RecType
  <2> HIDE DEF new
  <2> QED BY <2>1 DEF Marked, MarkedIn, EntryType
<1> HIDE DEF v, new, none, r, V, F, lift
<1>5. /\ Parts((w.maps \ D) \cup new, w.lazy, r, V \cup Names(new), w.lost, lift,
               Mapped(none, new), c)
      /\ Uniform((w.maps \ D) \cup new, Mapped(none, new))
  BY <1>2, <1>3, <1>4, PartsAdd
<1>6. Mapped(none, new) = Mapped(w.pte, new)
  <2>1. none \in PteType
    BY <1>3 DEF Parts
  <2>2. \A pg \in Page : (\A e \in new : pg \notin Span(e)) => none[pg] = w.pte[pg]
    <3>1. \A pg \in Page : (\A e \in new : pg \notin Span(e)) => pg \notin Spans(D)
      BY <1>2 DEF Spans
    <3> QED BY <3>1, <1>1, UnmappedAt DEF none
  <2> QED BY <2>2 DEF Mapped
<1>7. Insert(w.maps \ D, new) = (w.maps \ D) \cup new
  <2>1. \A d \in w.maps \ D, e \in new : d.vaddr # e.vaddr
    BY <1>0, <1>2, SpanOf DEF Fresh, MapsOK
  <2> QED BY <2>1 DEF Insert
<1>8. \A f \in Frame : PerEntry(D)[f] = IF f \in Names(D) THEN 1 ELSE 0
  <2>1. PerEntry(D) = Once(D)
    BY <1>0, PerEntryOnce DEF MapsOK
  <2> QED BY <2>1 DEF Once, Names
<1>9. {f \in w.used \cup Names(new) : PerEntry(D)[f] = 0 \/ w.refs[f] > PerEntry(D)[f]}
      = V \cup Names(new)
  <2>1. Names(new) \subseteq Frame \ w.used
    BY <1>2 DEF Fresh, Names, EntryType
  <2>2. Names(D) \subseteq w.used
    BY <1>0 DEF Parts, FramesOK, FrameOK, Names
  <2> QED BY <1>1, <1>8, <2>1, <2>2 DEF V
<1>10. [f \in Frame |-> IF PerEntry(D)[f] = 0 THEN w.refs[f]
                        ELSE IF w.refs[f] > PerEntry(D)[f] THEN w.refs[f] - PerEntry(D)[f]
                               ELSE 0] = r
  BY <1>8 DEF r
<1> DEFINE u == Lifts(AddEntries([w EXCEPT !.maps = w.maps \ D], new), Marked(new))
<1>11. u = [w EXCEPT !.maps = (w.maps \ D) \cup new, !.pte = Mapped(w.pte, new),
                     !.used = w.used \cup Names(new), !.lifted = lift]
  BY <1>0, <1>7 DEF AddEntries, Lifts, Names, lift, F, RecType
<1>12. v = release_process_frame_slot(u, PerEntry(D))
  BY DEF SplitEntries, new, v
<1> HIDE DEF u
<1>13. v = [u EXCEPT !.refs = r, !.used = V \cup Names(new)]
  <2>1. u.refs = w.refs /\ u.used = w.used \cup Names(new)
    BY <1>0, <1>11 DEF RecType
  <2> QED BY <2>1, <1>9, <1>10, <1>12 DEF release_process_frame_slot
<1>14. /\ (w.maps \ D) \cup new \in SUBSET EntryType /\ Mapped(w.pte, new) \in PteType
       /\ r \in [Frame -> Nat] /\ V \cup Names(new) \in SUBSET Frame
  BY <1>5, <1>6 DEF Parts, MapsOK, FramesOK
<1>15. /\ v \in RecType /\ v.maps = (w.maps \ D) \cup new /\ v.lazy = w.lazy /\ v.stack = w.stack
       /\ v.pte = Mapped(w.pte, new) /\ v.refs = r /\ v.used = V \cup Names(new)
       /\ v.lost = w.lost /\ v.lifted = lift
  BY <1>0, <1>4, <1>11, <1>13, <1>14 DEF RecType
<1>16. StackOK((w.maps \ D) \cup new, w.lazy, w.stack)
  <2>1. \A e \in new : e.kind # "Stack" /\ Span(e) \cap StackArea = {}
    BY <1>0, <1>2 DEF StackOK, NoStack
  <2>2. StackOK(w.maps \ D, w.lazy, w.stack)
    BY <1>0 DEF StackOK, NoStack
  <2> QED BY <2>1, <2>2, StackAdd
<1>17. Storable(v, c)
  BY <1>5, <1>6, <1>15, <1>16, StorableParts
<1> QED BY <1>5, <1>6, <1>15, <1>17 DEF Sound, new, v

\* An entry loses its place in the page table.
Bare(w, e) == [w EXCEPT !.pte = Unmapped(w.pte, Span(e))]

\* Unmapping the pages of an entry that stays is sound: nothing is gained by it.
LEMMA BareSound ==
  ASSUME NEW w, NEW c, Storable(w, c), NEW e \in w.maps
  PROVE  /\ Bare(w, e) \in RecType /\ Storable(Bare(w, e), c)
         /\ (Sound(w, c) => Sound(Bare(w, e), c))
         /\ Bare(w, e).failures = w.failures
<1> DEFINE v == Bare(w, e)
<1>0. w \in RecType /\ w.pte \in PteType /\ MapsOK(w.maps, w.lazy)
  BY DEF Storable, RecType
<1>1. /\ Unmapped(w.pte, Span(e)) \in PteType
      /\ \A pg \in Page : Unmapped(w.pte, Span(e))[pg] = IF pg \in Span(e) THEN NoFrame
           ELSE w.pte[pg]
  BY <1>0, UnmappedAt
<1>2. /\ v \in RecType /\ v.maps = w.maps /\ v.lazy = w.lazy /\ v.stack = w.stack
      /\ v.pte = Unmapped(w.pte, Span(e)) /\ v.refs = w.refs /\ v.used = w.used
      /\ v.lost = w.lost /\ v.lifted = w.lifted /\ v.failures = w.failures
  BY <1>0, <1>1 DEF RecType, Bare
<1> HIDE DEF v
<1>3. Retabled(w.maps, w.pte, v.maps, v.pte, v.lifted, c)
  <2>1. \A d \in w.maps : SamePlace(d, d)
    BY DEF SamePlace
  <2>2. \A d, x \in w.maps : d.vaddr = x.vaddr => d = x
    BY <1>0, UniqueAddress, SpanOf DEF MapsOK
  <2>3. \A pg \in Page : (\A d \in w.maps : pg \notin Span(d)) => v.pte[pg] = w.pte[pg]
    BY <1>1, <1>2
  <2>4. \A d \in w.maps : TableFor(d, w.maps, w.pte, v.pte, v.lifted)
    <3> SUFFICES ASSUME NEW d \in w.maps PROVE TableFor(d, w.maps, w.pte, v.pte, v.lifted)
      OBVIOUS
    <3>1. Span(d) \subseteq Page
      BY <1>0 DEF MapsOK
    <3>2. CASE d = e
      BY <3>1, <3>2, <1>1, <1>2 DEF TableFor
    <3>3. CASE d # e
      BY <3>1, <3>3, <1>0, <1>1, <1>2 DEF TableFor, MapsOK
    <3> QED BY <3>2, <3>3
  <2> QED BY <1>2, <2>1, <2>2, <2>3, <2>4, SharedMarked DEF Retabled
<1>4. Storable(v, c) /\ (Sound(w, c) => Sound(v, c))
  BY <1>2, <1>3, RetableSound
<1> QED BY <1>2, <1>4 DEF v

\* Its frame is mapped again with the entry's flags, which lifts it if the entry
\* is marked.
Again(w, e) == Lifts([w EXCEPT !.pte = Mapped(w.pte, {e})], Marked({e}))

\* Mapping an entry's old frame again is sound once a marked frame counts as lifted.
LEMMA AgainSound ==
  ASSUME NEW w, NEW c, Storable(w, c), NEW e \in w.maps
  PROVE  /\ Again(w, e) \in RecType /\ Storable(Again(w, e), c)
         /\ (Sound(w, c) => Sound(Again(w, e), c))
<1> DEFINE v == Again(w, e)
           F == {d.frame : d \in {x \in Marked({e}) : "w" \in x.flags}}
<1>0. w \in RecType /\ w.pte \in PteType /\ MapsOK(w.maps, w.lazy) /\ e \in EntryType
  BY DEF Storable, RecType, MapsOK
<1>1. /\ Mapped(w.pte, {e}) \in PteType
      /\ \A pg \in Page :
           pg \in Span(e) => Mapped(w.pte, {e})[pg] = [frame |-> e.frame, perms |-> e.flags]
      /\ \A pg \in Page : pg \notin Span(e) => Mapped(w.pte, {e})[pg] = w.pte[pg]
  <2>1. {e} \in SUBSET EntryType /\ Apart({e})
    BY <1>0 DEF Apart
  <2> QED BY <1>0, <2>1, MappedAt
<1>2. F \subseteq Frame /\ (e.cow /\ "w" \in e.flags => e.frame \in F)
  BY <1>0 DEF Marked, EntryType
<1>3. v = [w EXCEPT !.pte = Mapped(w.pte, {e}), !.lifted = w.lifted \cup F]
  BY <1>0 DEF Again, Lifts, RecType
<1> HIDE DEF v, F
<1>4. /\ v \in RecType /\ v.maps = w.maps /\ v.lazy = w.lazy /\ v.stack = w.stack
      /\ v.pte = Mapped(w.pte, {e}) /\ v.refs = w.refs /\ v.used = w.used
      /\ v.lost = w.lost /\ v.lifted = w.lifted \cup F
  BY <1>0, <1>1, <1>2, <1>3 DEF RecType
<1>5. Retabled(w.maps, w.pte, v.maps, v.pte, v.lifted, c)
  <2>1. \A d \in w.maps : SamePlace(d, d)
    BY DEF SamePlace
  <2>2. \A d, x \in w.maps : d.vaddr = x.vaddr => d = x
    BY <1>0, UniqueAddress, SpanOf DEF MapsOK
  <2>3. \A pg \in Page : (\A d \in w.maps : pg \notin Span(d)) => v.pte[pg] = w.pte[pg]
    BY <1>1, <1>4
  <2>4. \A d \in w.maps : TableFor(d, w.maps, w.pte, v.pte, v.lifted)
    <3> SUFFICES ASSUME NEW d \in w.maps PROVE TableFor(d, w.maps, w.pte, v.pte, v.lifted)
      OBVIOUS
    <3>1. Span(d) \subseteq Page
      BY <1>0 DEF MapsOK
    <3>2. CASE d = e
      <4>1. /\ \A pg \in Span(d) : v.pte[pg] = [frame |-> d.frame, perms |-> d.flags]
            /\ "w" \in d.flags => ("w" \in d.flags /\ ~d.cow) \/ d.frame \in v.lifted
        BY <3>1, <3>2, <1>1, <1>2, <1>4
      <4> QED BY <4>1 DEF TableFor
    <3>3. CASE d # e
      BY <3>1, <3>3, <1>0, <1>1, <1>4 DEF TableFor, MapsOK
    <3> QED BY <3>2, <3>3
  <2> QED BY <1>4, <2>1, <2>2, <2>3, <2>4, SharedMarked DEF Retabled
<1>6. w.lifted \subseteq v.lifted
  BY <1>4
<1>7. Storable(v, c) /\ (Sound(w, c) => Sound(v, c))
  BY <1>4, <1>5, <1>6, RetableSound
<1> QED BY <1>4, <1>7 DEF v

\* A split that fails, wherever it does, leaves a sound record.
LEMMA FailedSplitSound ==
  ASSUME NEW w, NEW c, Sound(w, c), NEW e \in w.maps, NEW v \in FailedSplit(w, e)
  PROVE  v \in RecType /\ Sound(v, c)
<1> DEFINE u == Failed(w)
<1>0. w \in RecType
  BY DEF Sound, Storable
<1>1. u \in RecType /\ Sound(u, c) /\ u.maps = w.maps
  BY <1>0, FailedSound DEF Failed, RecType
<1>2. v \in {u, Bare(u, e), Again(u, e)}
  BY <1>0 DEF FailedSplit, Bare, Again, Failed, RecType
<1> HIDE DEF u
<1>3. Storable(u, c) /\ e \in u.maps
  BY <1>1 DEF Sound
<1> QED BY <1>1, <1>2, <1>3, BareSound, AgainSound

\* After a split, an entry that may be unmapped and that the range touches starts
\* in the range.
Contained(maps, a, b) ==
  \A e \in maps : is_remappable_user_mapping(e) /\ has_overlap(a, b, e.vaddr, e.pages) =>
    e.vaddr \in a..(b - 1) /\ Span(e) \subseteq a..(b - 1)

\* Splitting is sound, and when it succeeds no entry straddles the range.
LEMMA EnsureSplitSound ==
  ASSUME NEW w, NEW c, Sound(w, c), NEW a \in Int, NEW b \in Int,
         NEW r \in ensure_partial_multi_page_ranges_split(w, a, b)
  PROVE  r.w \in RecType /\ Sound(r.w, c) /\ (r.ok => Contained(r.w.maps, a, b))
<1> DEFINE T == split_partial_multi_page_targets(w, a, b)
           Before(e) == {d \in T : d.vaddr < e.vaddr}
           Split(D) == {SplitEntries(w, D, g) : g \in Assignments(Spans(D), Frame \ w.used)}
<1>0. w \in RecType /\ MapsOK(w.maps, w.lazy) /\ w.used \in SUBSET Frame
  BY DEF Sound, Storable, RecType
<1>1. /\ T \in SUBSET w.maps /\ (\A d \in T : d.kind # "Stack")
      /\ \A e : Before(e) \in SUBSET T
  BY DEF split_partial_multi_page_targets, is_remappable_user_mapping
<1>2. \/ \E v \in Split(T) : r = [ok |-> TRUE, w |-> v]
      \/ \E e \in T : \E u \in Split(Before(e)) : \E v \in FailedSplit(u, e) :
           r = [ok |-> FALSE, w |-> v]
  <2>1. r \in {[ok |-> TRUE, w |-> v] : v \in Split(T)}
             \cup {[ok |-> FALSE, w |-> v] :
                     v \in UNION {UNION {FailedSplit(u, e) : u \in Split(Before(e))} : e \in T}}
    BY DEF ensure_partial_multi_page_ranges_split
  <2> HIDE DEF T, Split, Before
  <2> QED BY <2>1
<1> HIDE DEF T
<1>3. ASSUME NEW D \in SUBSET T, NEW v \in Split(D)
      PROVE  /\ v \in RecType /\ Sound(v, c)
             /\ \E g \in Assignments(Spans(D), Frame \ w.used) :
                  v.maps = (w.maps \ D) \cup BasePages(D, g)
  <2>1. PICK g \in Assignments(Spans(D), Frame \ w.used) : v = SplitEntries(w, D, g)
    OBVIOUS
  <2>2. D \in SUBSET w.maps /\ NoStack(D)
    BY <1>1 DEF NoStack
  <2> HIDE DEF Split
  <2>3. v \in RecType /\ Sound(v, c) /\ v.maps = (w.maps \ D) \cup BasePages(D, g)
    BY <2>1, <2>2, SplitSound
  <2> QED BY <2>3
<1>4. ASSUME NEW v \in Split(T), r = [ok |-> TRUE, w |-> v]
      PROVE  r.w \in RecType /\ Sound(r.w, c) /\ (r.ok => Contained(r.w.maps, a, b))
  <2>1. r.w = v
    BY <1>4
  <2>0. /\ v \in RecType /\ Sound(v, c)
        /\ \E g \in Assignments(Spans(T), Frame \ w.used) :
             v.maps = (w.maps \ T) \cup BasePages(T, g)
    BY <1>3
  <2> HIDE DEF Split
  <2>2. PICK g \in Assignments(Spans(T), Frame \ w.used) :
               v.maps = (w.maps \ T) \cup BasePages(T, g)
    BY <2>0
  <2>3. Contained(v.maps, a, b)
    <3> SUFFICES ASSUME NEW e \in v.maps, is_remappable_user_mapping(e),
                        has_overlap(a, b, e.vaddr, e.pages)
                 PROVE  e.vaddr \in a..(b - 1) /\ Span(e) \subseteq a..(b - 1)
      BY DEF Contained
    <3>0. e \in EntryType
      BY <2>0 DEF RecType
    <3>a. /\ e.vaddr \in Nat /\ e.pages \in Nat /\ e.pages >= 1
          /\ \A pg : pg \in Span(e) <=> pg \in Int /\ e.vaddr <= pg /\ pg < e.vaddr + e.pages
      BY <3>0, SpanOf
    <3>1. CASE e \in w.maps \ T
      <4>1. e.pages = 1 \/ ~(a > e.vaddr \/ b < e.vaddr + e.pages)
        BY <3>1, <3>a DEF T, split_partial_multi_page_targets
      <4> QED BY <4>1, <3>a DEF has_overlap
    <3>2. CASE e \in BasePages(T, g)
      <4>1. Pieces(T, BasePages(T, g))
        BY <1>0, <1>1, BasePagesFresh
      <4>2. e.pages = 1
        BY <3>2, <4>1 DEF Pieces
      <4> QED BY <4>2, <3>a DEF has_overlap
    <3> QED BY <2>2, <3>1, <3>2
  <2> QED BY <2>0, <2>1, <2>3
<1>5. ASSUME NEW e \in T, NEW u \in Split(Before(e)), NEW v \in FailedSplit(u, e),
             r = [ok |-> FALSE, w |-> v]
      PROVE  r.w \in RecType /\ Sound(r.w, c) /\ (r.ok => Contained(r.w.maps, a, b))
  <2>1. r.w = v /\ r.ok = FALSE
    BY <1>5
  <2>2. Before(e) \in SUBSET T
    BY <1>1
  <2>3. /\ Sound(u, c)
        /\ \E g \in Assignments(Spans(Before(e)), Frame \ w.used) :
             u.maps = (w.maps \ Before(e)) \cup BasePages(Before(e), g)
    BY <2>2, <1>3
  <2>4. e \in w.maps /\ e \notin Before(e)
    <3>1. e.vaddr \in Nat
      BY <1>1, <1>0, SpanOf DEF MapsOK
    <3> QED BY <3>1, <1>1
  <2>5. e \in u.maps
    BY <2>3, <2>4
  <2> QED BY <2>1, <2>3, <2>5, FailedSplitSound
<1> HIDE DEF Split, Before
<1> QED BY <1>2, <1>4, <1>5

OffStack(E) == \A e \in E : e.kind # "Stack" /\ Span(e) \cap StackArea = {}

\* New entries that are not the stack's.
LEMMA AddSound ==
  ASSUME NEW w, NEW c, Sound(w, c), NEW E, Fresh(E, w.maps, w.lazy, w.used),
         MarkedIn(E, w.lifted), OffStack(E)
  PROVE  AddEntries(w, E) \in RecType /\ Sound(AddEntries(w, E), c)
<1>1. Storable(w, c) /\ StackOK(w.maps, w.lazy, w.stack)
  BY DEF Sound, Storable
<1>2. StackOK(w.maps \cup E, w.lazy, w.stack)
  BY <1>1, StackAdd DEF OffStack
<1> QED BY <1>1, <1>2, AddStorable

\* No entry and no lazy page in the range.
Clear(maps, lazy, a, b) ==
  /\ \A e \in maps : Span(e) \cap (a..(b - 1)) = {}
  /\ \A l \in lazy : l.page \notin a..(b - 1)

\* Removing a range is sound, and leaves it clear when no entry straddles it.
LEMMA RemoveRangeSound ==
  ASSUME NEW w, NEW c, Sound(w, c), NEW a \in Int, NEW b \in Int
  PROVE  /\ RemoveRange(w, a, b) \in RecType /\ Sound(RemoveRange(w, a, b), c)
         /\ RemoveRange(w, a, b).brk = w.brk
         /\ Contained(w.maps, a, b) /\ FixedAllowed(w, a, b) =>
              Clear(RemoveRange(w, a, b).maps, RemoveRange(w, a, b).lazy, a, b)
<1> DEFINE gone == {e \in w.maps : e.vaddr \in a..(b - 1) /\ is_remappable_user_mapping(e)}
           l == {k \in w.lazy : k.page \notin a..(b - 1)}
           v == RemoveRange(w, a, b)
<1>0. Storable(w, c) /\ w \in RecType /\ MapsOK(w.maps, w.lazy)
  BY DEF Sound, Storable
<1>1. gone \in SUBSET w.maps /\ l \in SUBSET w.lazy /\ NoStack(gone)
  BY DEF NoStack, is_remappable_user_mapping
<1>2. PerEntry(gone) = Once(gone)
  BY <1>0, PerEntryOnce DEF MapsOK
<1>3. v = release_process_frame_slot(Without(w, gone, l), PerEntry(gone))
  BY <1>0 DEF RemoveRange, Without, RecType
<1> HIDE DEF v
<1>4. /\ v \in RecType /\ Sound(v, c) /\ v.maps = w.maps \ gone /\ v.lazy = l /\ v.brk = w.brk
  <2> HIDE DEF gone, l
  <2> QED BY <1>0, <1>1, <1>2, <1>3, RemoveSound
<1>5. ASSUME Contained(w.maps, a, b), FixedAllowed(w, a, b)
      PROVE  Clear(v.maps, v.lazy, a, b)
  <2>1. ASSUME NEW e \in w.maps, e \notin gone
        PROVE  Span(e) \cap (a..(b - 1)) = {}
    <3>0. e \in EntryType
      BY <1>0 DEF MapsOK
    <3>1. /\ e.vaddr \in Nat /\ e.pages \in Nat /\ e.pages >= 1
          /\ \A pg : pg \in Span(e) <=> pg \in Int /\ e.vaddr <= pg /\ pg < e.vaddr + e.pages
      BY <3>0, SpanOf
    <3>2. ~has_overlap(a, b, e.vaddr, e.pages)
      BY <1>5, <2>1 DEF Contained, FixedAllowed
    <3> QED BY <3>1, <3>2 DEF has_overlap
  <2> QED BY <1>4, <2>1 DEF Clear
<1> QED BY <1>4, <1>5 DEF v

\* do_munmap keeps a record sound, whether or not its split fails.
LEMMA MunmapSound ==
  ASSUME NEW w, NEW c, Sound(w, c), NEW a \in Int, NEW b \in Int, NEW v \in do_munmap(w, a, b)
  PROVE  v \in RecType /\ Sound(v, c)
<1>1. PICK r \in ensure_partial_multi_page_ranges_split(w, a, b) :
        v = IF r.ok THEN RemoveRange(r.w, a, b) ELSE r.w
  BY DEF do_munmap
<1>2. r.w \in RecType /\ Sound(r.w, c)
  BY EnsureSplitSound
<1> QED BY <1>1, <1>2, RemoveRangeSound

\* Lazy pages where there is nothing but lazy pages.
LEMMA AddLazySound ==
  ASSUME NEW w, NEW c, Sound(w, c), NEW S \in SUBSET Page, S \cap StackArea = {},
         \A e \in w.maps : Span(e) \cap S = {},
         NEW flags \in Perms, NEW kind \in {"Anonymous", "FileBacked"}
  PROVE  AddLazy(w, S, flags, kind) \in RecType /\ Sound(AddLazy(w, S, flags, kind), c)
<1> DEFINE v == AddLazy(w, S, flags, kind)
           l == {k \in w.lazy : k.page \notin S}
                \cup {[page |-> pg, flags |-> flags, kind |-> kind] : pg \in S}
<1>0. /\ w \in RecType /\ MapsOK(w.maps, w.lazy) /\ StackOK(w.maps, w.lazy, w.stack)
      /\ Storable(w, c) /\ Uniform(w.maps, w.pte)
  BY DEF Sound, Storable
<1>1. \A k \in l : \/ k \in w.lazy /\ k.page \notin S
                   \/ /\ k \in LazyType /\ k.page \in S
                      /\ k = [page |-> k.page, flags |-> flags, kind |-> kind]
  BY DEF LazyType
<1>2. v = [w EXCEPT !.lazy = l]
  BY DEF AddLazy
<1> HIDE DEF v, l
<1>3. MapsOK(w.maps, l)
  <2>1. l \subseteq LazyType
    BY <1>0, <1>1 DEF MapsOK
  <2>2. \A k \in l : \A e \in w.maps : k.page \notin Span(e)
    BY <1>0, <1>1 DEF MapsOK
  <2>3. \A j, k \in l : j.page = k.page => j = k
    BY <1>0, <1>1 DEF MapsOK
  <2> QED BY <1>0, <2>1, <2>2, <2>3 DEF MapsOK
<1>4. StackOK(w.maps, l, w.stack)
  BY <1>0, <1>1 DEF StackOK
<1>5. /\ v \in RecType /\ v.maps = w.maps /\ v.lazy = l /\ v.stack = w.stack /\ v.pte = w.pte
      /\ v.refs = w.refs /\ v.used = w.used /\ v.lost = w.lost /\ v.lifted = w.lifted
  BY <1>0, <1>2, <1>3 DEF RecType, MapsOK
<1>6. Sound(v, c)
  BY <1>0, <1>3, <1>4, <1>5 DEF Sound, Storable
<1> QED BY <1>5, <1>6 DEF v

\* A place for n pages from a on: pages of the address space, out of the stack's
\* area, that nothing has.
Room(w, a, n) ==
  /\ a \in Nat /\ n \in Nat \ {0} /\ a + n <= MmapLimit
  /\ (a..(a + n - 1)) \cap StackArea = {} /\ Clear(w.maps, w.lazy, a, a + n)

\* Eager mapping is sound also when it stops half way.
LEMMA EagerSound ==
  ASSUME NEW w, NEW c, Sound(w, c), NEW a, NEW n, Room(w, a, n), NEW flags \in Perms,
         NEW r \in map_anonymous_range_eager(w, a, n, flags)
  PROVE  r.w \in RecType /\ Sound(r.w, c)
<1>1. PICK k \in 0..n : \E E \in FreshEntries(w, a..(a + k - 1), flags, "Anonymous") :
        r = [ok |-> k = n, w |-> AddEntries(IF k = n THEN w ELSE Failed(w), E)]
  BY DEF map_anonymous_range_eager
<1>2. PICK E \in FreshEntries(w, a..(a + k - 1), flags, "Anonymous") :
        r = [ok |-> k = n, w |-> AddEntries(IF k = n THEN w ELSE Failed(w), E)]
  BY <1>1
<1> DEFINE u == IF k = n THEN w ELSE Failed(w)
           S == a..(a + k - 1)
<1>3. w \in RecType /\ MapsOK(w.maps, w.lazy) /\ w.used \subseteq Frame
  BY DEF Sound, Storable, RecType
<1>4. u \in RecType /\ Sound(u, c) /\ u.maps = w.maps /\ u.lazy = w.lazy /\ u.used = w.used
  BY <1>3, FailedSound DEF Failed, RecType
<1>5. S \in SUBSET Page /\ S \cap StackArea = {} /\ "Anonymous" \in Kinds
  BY Numbers DEF Room, Kinds
<1>6. Vacant(S, w.maps, w.lazy)
  BY DEF Room, Clear, Vacant
<1>a. E \in FreshEntries(w, S, flags, "Anonymous")
  OBVIOUS
<1> HIDE DEF u, S
<1>7. Fresh(E, w.maps, w.lazy, w.used) /\ BaseEntries(E, S, flags, "Anonymous")
  BY <1>a, <1>3, <1>5, <1>6, FreshGiven
<1>8. Fresh(E, u.maps, u.lazy, u.used) /\ MarkedIn(E, u.lifted) /\ OffStack(E)
  BY <1>4, <1>5, <1>7 DEF MarkedIn, OffStack, BaseEntries
<1>9. r.w = AddEntries(u, E)
  BY <1>2 DEF u
<1> QED BY <1>4, <1>8, <1>9, AddSound

\* Mapping at a place with room is sound, eager or lazy.
LEMMA MmapAtSound ==
  ASSUME NEW w, NEW c, Sound(w, c), NEW a, NEW n, Room(w, a, n), NEW flags \in Perms,
         NEW file \in BOOLEAN, NEW v \in MmapAt(w, a, n, flags, file)
  PROVE  v \in RecType /\ Sound(v, c)
<1>0. a + n \in Nat /\ a + n <= MmapLimit
  BY DEF Room
<1>1. CASE file
  <2> DEFINE S == a..(a + n - 1)
             u == AddLazy(w, S, flags, "FileBacked")
  <2>1. S \in SUBSET Page /\ S \cap StackArea = {} /\ \A e \in w.maps : Span(e) \cap S = {}
    BY Numbers DEF Room, Clear
  <2>2. v = AdvanceNext(u, a + n)
    BY <1>1 DEF MmapAt
  <2> HIDE DEF S
  <2>3. u \in RecType /\ Sound(u, c)
    BY <2>1, AddLazySound
  <2> HIDE DEF u
  <2> QED BY <1>0, <2>2, <2>3, AdvanceSound
<1>2. CASE ~file
  <2>1. PICK r \in map_anonymous_range_eager(w, a, n, flags) :
          v = IF r.ok THEN AdvanceNext(r.w, a + n) ELSE r.w
    BY <1>2 DEF MmapAt
  <2>2. r.w \in RecType /\ Sound(r.w, c)
    BY EagerSound
  <2> QED BY <1>0, <2>1, <2>2, AdvanceSound
<1> QED BY <1>1, <1>2

\* What range_is_free promises.
LEMMA FreeRoom ==
  ASSUME NEW w, NEW c, Sound(w, c), NEW a \in Page, NEW n \in Nat \ {0},
         range_is_free(w, a, a + n, {})
  PROVE  Room(w, a, n)
<1>0. w \in RecType
  BY DEF Sound, Storable
<1>1. a \in Nat /\ a + n <= MmapLimit /\ ~has_overlap(a, a + n, StackLow, StackBottom - StackLow)
  BY Numbers DEF range_is_free
<1>2. (a..(a + n - 1)) \cap StackArea = {}
  BY <1>1, Numbers DEF has_overlap, StackArea
<1>3. \A e \in w.maps : Span(e) \cap (a..(a + n - 1)) = {}
  <2> SUFFICES ASSUME NEW e \in w.maps PROVE Span(e) \cap (a..(a + n - 1)) = {}
    OBVIOUS
  <2>1. e \in EntryType
    BY <1>0 DEF RecType
  <2>2. /\ e.vaddr \in Nat /\ e.pages \in Nat /\ e.vaddr \in Span(e)
        /\ \A pg : pg \in Span(e) <=> pg \in Int /\ e.vaddr <= pg /\ pg < e.vaddr + e.pages
    BY <2>1, SpanOf
  <2>3. ~has_overlap(a, a + n, e.vaddr, e.pages)
    BY <2>2 DEF range_is_free
  <2> QED BY <1>1, <2>2, <2>3 DEF has_overlap
<1>4. \A l \in w.lazy : l.page \notin a..(a + n - 1)
  BY <1>1 DEF range_is_free
<1> QED BY <1>1, <1>2, <1>3, <1>4 DEF Room, Clear

\* What the conditions of MAP_FIXED promise once the range is given up.
LEMMA FixedRoom ==
  ASSUME NEW w, NEW c, Sound(w, c), NEW a \in Page, NEW n \in Nat \ {0},
         Contained(w.maps, a, a + n), FixedAllowed(w, a, a + n)
  PROVE  Room(RemoveRange(w, a, a + n), a, n)
<1>1. a \in Nat /\ a \in Int /\ a + n \in Int
  BY Numbers
<1>2. Clear(RemoveRange(w, a, a + n).maps, RemoveRange(w, a, a + n).lazy, a, a + n)
  BY <1>1, RemoveRangeSound
<1>3. a + n <= MmapLimit /\ ~has_overlap(a, a + n, StackLow, StackBottom - StackLow)
  BY DEF FixedAllowed
<1>4. (a..(a + n - 1)) \cap StackArea = {}
  BY <1>1, <1>3, Numbers DEF has_overlap, StackArea
<1> QED BY <1>1, <1>2, <1>3, <1>4 DEF Room

-----------------------------------------------------------------------------
(***************************************************************************)
(* Other flags for entries that stay where they are.                       *)
(***************************************************************************)
Reflag(e, flags) == [e EXCEPT !.flags = flags]
Reflagged(D, flags) == {Reflag(e, flags) : e \in D}

\* New flags leave an entry's place, frame and mark.
LEMMA ReflagFields ==
  ASSUME NEW e \in EntryType, NEW flags \in Perms
  PROVE  /\ Reflag(e, flags) \in EntryType /\ Reflag(e, flags).flags = flags
         /\ SamePlace(e, Reflag(e, flags)) /\ Reflag(e, flags).cow = e.cow
         /\ Span(Reflag(e, flags)) = Span(e)
<1>1. /\ Reflag(e, flags) \in EntryType /\ Reflag(e, flags).flags = flags
      /\ SamePlace(e, Reflag(e, flags)) /\ Reflag(e, flags).cow = e.cow
  BY DEF EntryType, Reflag, SamePlace
<1> HIDE DEF Reflag
<1> QED BY <1>1 DEF SamePlace, Span

\* The flags make no page writable but one that is, or whose frame is lifted.
Allowed(D, flags, lift) ==
  "w" \in flags => \A d \in D : d.frame \in lift \/ ("w" \in d.flags /\ ~d.cow)

\* The entries D are mapped with the flags, and get them or not.
LEMMA ReflagSound ==
  ASSUME NEW w, NEW c, Storable(w, c), NEW D \in SUBSET w.maps, NEW flags \in Perms,
         NEW v \in RecType, v.lazy = w.lazy, v.stack = w.stack, v.refs = w.refs, v.used = w.used,
         v.lost = w.lost, w.lifted \subseteq v.lifted,
         v.maps = w.maps \/ v.maps = (w.maps \ D) \cup Reflagged(D, flags),
         v.pte = Mapped(w.pte, Reflagged(D, flags)), Allowed(D, flags, v.lifted)
  PROVE  Storable(v, c) /\ (Sound(w, c) => Sound(v, c))
<1>0. w \in RecType /\ w.pte \in PteType /\ MapsOK(w.maps, w.lazy)
  BY DEF Storable, RecType
<1>1. \A e \in w.maps : e \in EntryType /\ Span(e) \subseteq Page
  BY <1>0 DEF MapsOK
<1>2. \A e \in Reflagged(D, flags) : \E d \in D :
        /\ e \in EntryType /\ e.flags = flags /\ SamePlace(d, e) /\ e.cow = d.cow
        /\ Span(e) = Span(d)
        /\ e = Reflag(d, flags)
  BY <1>1, ReflagFields DEF Reflagged
<1>3. \A d \in D : \E e \in Reflagged(D, flags) :
        SamePlace(d, e) /\ Span(e) = Span(d) /\ e.frame = d.frame
  <2> SUFFICES ASSUME NEW d \in D
               PROVE  \E e \in Reflagged(D, flags) :
                        SamePlace(d, e) /\ Span(e) = Span(d) /\ e.frame = d.frame
    OBVIOUS
  <2>1. Reflag(d, flags) \in Reflagged(D, flags) /\ d \in EntryType
    BY <1>1 DEF Reflagged
  <2>2. SamePlace(d, Reflag(d, flags)) /\ Span(Reflag(d, flags)) = Span(d)
    BY <2>1, ReflagFields
  <2> QED BY <2>1, <2>2 DEF SamePlace
<1>4. /\ \A e \in Reflagged(D, flags), pg \in Page : pg \in Span(e) =>
           v.pte[pg] = [frame |-> e.frame, perms |-> e.flags]
      /\ \A pg \in Page : (\A e \in Reflagged(D, flags) : pg \notin Span(e)) =>
           v.pte[pg] = w.pte[pg]
  <2>1. Reflagged(D, flags) \in SUBSET EntryType /\ Apart(Reflagged(D, flags))
    <3>1. \A d, e \in Reflagged(D, flags) : d # e => Span(d) \cap Span(e) = {}
      BY <1>0, <1>2 DEF MapsOK
    <3> QED BY <3>1, <1>2 DEF Apart
  <2> QED BY <1>0, <2>1, MappedAt
<1>5. \A d \in D : \A pg \in Span(d) : v.pte[pg] = [frame |-> d.frame, perms |-> flags]
  <2> SUFFICES ASSUME NEW d \in D, NEW pg \in Span(d)
               PROVE  v.pte[pg] = [frame |-> d.frame, perms |-> flags]
    OBVIOUS
  <2>1. PICK e \in Reflagged(D, flags) : Span(e) = Span(d) /\ e.frame = d.frame
    BY <1>3
  <2>2. pg \in Page /\ e.flags = flags
    BY <1>1, <1>2
  <2> QED BY <2>1, <2>2, <1>4
<1>6. \A d \in w.maps \ D : \A pg \in Span(d) : v.pte[pg] = w.pte[pg]
  <2>1. \A d \in w.maps \ D : \A pg \in Span(d) : \A e \in Reflagged(D, flags) : pg \notin Span(e)
    BY <1>0, <1>2 DEF MapsOK
  <2> QED BY <2>1, <1>1, <1>4
<1>7. Retabled(w.maps, w.pte, v.maps, v.pte, v.lifted, c)
  <2>0. \A d \in w.maps : SamePlace(d, d)
    BY DEF SamePlace
  <2>a. \A d, x \in w.maps : d.vaddr = x.vaddr => d = x
    BY <1>0, UniqueAddress, SpanOf DEF MapsOK
  <2>1. \A e \in v.maps : \E d \in w.maps : SamePlace(d, e)
    BY <2>0, <1>2
  <2>2. \A d \in w.maps : \E e \in v.maps : SamePlace(d, e)
    BY <2>0, <1>3
  <2>3. \A d, e \in v.maps : d.vaddr = e.vaddr => d = e
    <3>1. CASE v.maps = w.maps
      BY <2>a, <3>1
    <3>2. CASE v.maps = (w.maps \ D) \cup Reflagged(D, flags)
      <4>1. \A e \in Reflagged(D, flags) : \E d \in D : d.vaddr = e.vaddr /\ e = Reflag(d, flags)
        BY <1>2 DEF SamePlace
      <4> QED BY <2>a, <3>2, <4>1
    <3> QED BY <3>1, <3>2
  <2>4. \A pg \in Page : (\A e \in w.maps : pg \notin Span(e)) => v.pte[pg] = w.pte[pg]
    BY <1>2, <1>4
  <2>5. \A e \in v.maps : "w" \in e.flags /\ ~e.cow /\ c.others[e.frame] # 0 => e.frame \in v.lifted
    <3>1. \A e \in w.maps :
            "w" \in e.flags /\ ~e.cow /\ c.others[e.frame] # 0 => e.frame \in v.lifted
      BY SharedMarked
    <3>2. \A e \in Reflagged(D, flags) :
            "w" \in e.flags /\ ~e.cow /\ c.others[e.frame] # 0 => e.frame \in v.lifted
      BY <1>2, <3>1 DEF Allowed, SamePlace
    <3> QED BY <3>1, <3>2
  <2>6. ASSUME NEW e \in w.maps PROVE TableFor(e, w.maps, w.pte, v.pte, v.lifted)
    <3>1. CASE e \in D
      <4>1. /\ \A pg \in Span(e) : v.pte[pg] = [frame |-> e.frame, perms |-> flags]
            /\ "w" \in flags => ("w" \in e.flags /\ ~e.cow) \/ e.frame \in v.lifted
        BY <3>1, <1>5 DEF Allowed
      <4> QED BY <4>1 DEF TableFor
    <3>2. CASE e \notin D
      BY <3>2, <1>6 DEF TableFor
    <3> QED BY <3>1, <3>2
  <2>7. ASSUME NEW e \in Reflagged(D, flags) PROVE TableFor(e, w.maps, w.pte, v.pte, v.lifted)
    <3>1. PICK d \in D : e.flags = flags /\ e.cow = d.cow /\ Span(e) = Span(d) /\ e.frame = d.frame
      BY <1>2 DEF SamePlace
    <3>2. /\ \A pg \in Span(e) : v.pte[pg] = [frame |-> e.frame, perms |-> flags]
          /\ "w" \in flags => ("w" \in e.flags /\ ~e.cow) \/ e.frame \in v.lifted
      BY <3>1, <1>5 DEF Allowed
    <3> QED BY <3>2 DEF TableFor
  <2>8. \A e \in v.maps : TableFor(e, w.maps, w.pte, v.pte, v.lifted)
    BY <2>6, <2>7
  <2> QED BY <2>1, <2>2, <2>3, <2>4, <2>5, <2>8 DEF Retabled
<1> QED BY <1>7, RetableSound

\* lookup_memory_map finds the entry of a page, if there is one.
LEMMA Lookup ==
  ASSUME NEW maps, NEW lazy, MapsOK(maps, lazy), NEW pg \in Page
  PROVE  /\ \A e \in lookup_memory_map(maps, pg) : e \in maps /\ pg \in Span(e)
         /\ lookup_memory_map(maps, pg) = {} => \A e \in maps : pg \notin Span(e)
<1>1. ASSUME NEW e \in maps, pg \in Span(e)
      PROVE  e \in lookup_memory_map(maps, pg)
  <2>1. \A d \in maps : d.vaddr <= pg => d.vaddr <= e.vaddr
    <3> SUFFICES ASSUME NEW d \in maps, d.vaddr <= pg, ~(d.vaddr <= e.vaddr)
                 PROVE  FALSE
      OBVIOUS
    <3>1. d \in EntryType /\ e \in EntryType
      BY DEF MapsOK
    <3>2. d.vaddr \in Nat /\ e.vaddr \in Nat /\ e.pages \in Nat
          /\ \A x : x \in Span(e) <=> x \in Int /\ e.vaddr <= x /\ x < e.vaddr + e.pages
      BY <3>1, SpanOf
    <3>3. d.vaddr \in Span(e)
      BY <1>1, <3>2, Numbers
    <3> QED BY <3>2, <3>3, UniqueAddress
  <2> QED BY <1>1, <2>1 DEF lookup_memory_map
<1> QED BY <1>1 DEF lookup_memory_map

\* The frames of entries that become writable.
LEMMA LiftedFrames ==
  ASSUME NEW w \in RecType, NEW D \in SUBSET EntryType, NEW flags \in Perms
  PROVE  /\ Reflagged(D, flags) \in SUBSET EntryType
         /\ Lifts(w, Reflagged(D, flags)) \in RecType
         /\ \E F \in SUBSET Frame :
              /\ Lifts(w, Reflagged(D, flags)) = [w EXCEPT !.lifted = w.lifted \cup F]
              /\ "w" \in flags => \A d \in D : d.frame \in F
<1> DEFINE E == Reflagged(D, flags)
           F == {e.frame : e \in {d \in E : "w" \in d.flags}}
<1>1. \A d \in D : Reflag(d, flags) \in E /\ Reflag(d, flags).frame = d.frame
        /\ Reflag(d, flags).flags = flags
  BY ReflagFields DEF Reflagged, SamePlace
<1>2. E \in SUBSET EntryType
  BY ReflagFields DEF Reflagged
<1> HIDE DEF E
<1>3. F \in SUBSET Frame
  BY <1>2 DEF EntryType
<1>4. "w" \in flags => \A d \in D : d.frame \in F
  BY <1>1
<1>5. Lifts(w, E) = [w EXCEPT !.lifted = w.lifted \cup F]
  BY DEF Lifts
<1>6. Lifts(w, E) \in RecType
  <2> HIDE DEF F
  <2> QED BY <1>3, <1>5 DEF RecType
<1> QED BY <1>2, <1>3, <1>4, <1>5, <1>6 DEF E

\* The entries D mapped with other flags, their frames lifted.
Remapped(w, D, flags) ==
  Lifts([w EXCEPT !.pte = Mapped(w.pte, Reflagged(D, flags))], Reflagged(D, flags))
RemappedEntries(w, D, flags) ==
  Lifts([w EXCEPT !.maps = (w.maps \ D) \cup Reflagged(D, flags),
                  !.pte = Mapped(w.pte, Reflagged(D, flags))], Reflagged(D, flags))

\* Remapping entries with new flags is sound, with the entries updated or not.
LEMMA RemappedSound ==
  ASSUME NEW w, NEW c, Storable(w, c), NEW D \in SUBSET w.maps, NEW flags \in Perms,
         NEW v \in {Remapped(w, D, flags), RemappedEntries(w, D, flags)}
  PROVE  /\ v \in RecType /\ Storable(v, c) /\ (Sound(w, c) => Sound(v, c))
         /\ v = Remapped(w, D, flags) => v.maps = w.maps
<1>0. w \in RecType /\ D \in SUBSET EntryType /\ MapsOK(w.maps, w.lazy)
  BY DEF Storable, RecType
<1> DEFINE E == Reflagged(D, flags)
           u1 == [w EXCEPT !.pte = Mapped(w.pte, E)]
           u2 == [w EXCEPT !.maps = (w.maps \ D) \cup E, !.pte = Mapped(w.pte, E)]
<1>1. E \in SUBSET EntryType
  BY <1>0, LiftedFrames
<1>2. Mapped(w.pte, E) \in PteType
  <2>1. Apart(E)
    <3>1. \A e \in E : \E d \in D : Span(e) = Span(d) /\ e = Reflag(d, flags)
      BY <1>0, ReflagFields DEF Reflagged
    <3> QED BY <1>0, <3>1 DEF Apart, MapsOK
  <2>2. w.pte \in PteType
    BY <1>0 DEF RecType
  <2> HIDE DEF E
  <2> QED BY <1>1, <2>1, <2>2, MappedAt
<1> HIDE DEF E
<1>3. u1 \in RecType /\ u2 \in RecType
  BY <1>0, <1>1, <1>2 DEF RecType
<1>4. PICK u \in {u1, u2} : v = Lifts(u, E) /\ (v = Remapped(w, D, flags) => v = Lifts(u1, E))
  BY DEF Remapped, RemappedEntries, E
<1> HIDE DEF u1, u2
<1>5. /\ u \in RecType
      /\ u.lazy = w.lazy /\ u.stack = w.stack /\ u.refs = w.refs /\ u.used = w.used
      /\ u.lost = w.lost
      /\ u.lifted = w.lifted /\ u.pte = Mapped(w.pte, E)
      /\ u.maps = w.maps \/ u.maps = (w.maps \ D) \cup E
  BY <1>0, <1>3 DEF RecType, u1, u2
<1>6. /\ Lifts(u, E) \in RecType
      /\ \E F \in SUBSET Frame :
           /\ Lifts(u, E) = [u EXCEPT !.lifted = u.lifted \cup F]
           /\ "w" \in flags => \A d \in D : d.frame \in F
  BY <1>0, <1>5, LiftedFrames DEF E
<1>7. PICK F \in SUBSET Frame : /\ v = [u EXCEPT !.lifted = u.lifted \cup F]
                                /\ "w" \in flags => \A d \in D : d.frame \in F
  BY <1>4, <1>6
<1>8. /\ v \in RecType /\ v.lazy = w.lazy /\ v.stack = w.stack /\ v.refs = w.refs /\ v.used = w.used
      /\ v.lost = w.lost /\ v.lifted = w.lifted \cup F /\ v.pte = Mapped(w.pte, E)
      /\ v.maps = w.maps \/ v.maps = (w.maps \ D) \cup E
  BY <1>4, <1>5, <1>6, <1>7 DEF RecType
<1>9. Allowed(D, flags, v.lifted) /\ w.lifted \subseteq v.lifted
  BY <1>7, <1>8 DEF Allowed
<1>10. Storable(v, c) /\ (Sound(w, c) => Sound(v, c))
  BY <1>8, <1>9, ReflagSound DEF E
<1>11. v = Lifts(u1, E) => v.maps = w.maps
  BY <1>0, <1>3 DEF Lifts, u1, RecType
<1> QED BY <1>4, <1>8, <1>10, <1>11

\* mprotect is sound also when it stops at an entry it cannot remap.
LEMMA ProtectSound ==
  ASSUME NEW w, NEW c, Sound(w, c), NEW a \in Page, NEW b \in Nat, b - 1 \in Page,
         NEW flags \in Perms, NEW v \in Protect(w, a, b, flags)
  PROVE  v \in RecType /\ Sound(v, c)
<1> DEFINE R == UNION {lookup_memory_map(w.maps, pg) : pg \in a..(b - 1)}
           Before(e) == {d \in R : d.vaddr < e.vaddr}
           l == {IF k.page \in a..(b - 1) THEN [k EXCEPT !.flags = flags] ELSE k : k \in w.lazy}
<1>0. w \in RecType /\ MapsOK(w.maps, w.lazy) /\ Storable(w, c)
  BY DEF Sound, Storable
<1>1. \A pg \in a..(b - 1) : pg \in Page
  BY Numbers
<1>2. R \in SUBSET w.maps
  BY <1>0, <1>1, Lookup
<1>3. CASE v = w
  BY <1>0, <1>3
<1>4. ASSUME \A pg \in a..(b - 1) : lookup_memory_map(w.maps, pg) # {},
             v = Lifts([w EXCEPT !.maps = (w.maps \ R) \cup Reflagged(R, flags), !.lazy = l,
                                 !.pte = Mapped(w.pte, Reflagged(R, flags))], Reflagged(R, flags))
      PROVE  v \in RecType /\ Sound(v, c)
  <2>1. \A k \in w.lazy : k.page \notin a..(b - 1)
    <3> SUFFICES ASSUME NEW k \in w.lazy, k.page \in a..(b - 1) PROVE FALSE
      OBVIOUS
    <3>1. PICK e \in lookup_memory_map(w.maps, k.page) : TRUE
      BY <1>4
    <3>2. e \in w.maps /\ k.page \in Span(e)
      BY <1>0, <1>1, Lookup
    <3> QED BY <3>2, <1>0 DEF MapsOK
  <2>2. l = w.lazy
    BY <2>1
  <2> HIDE DEF R, l
  <2>3. [w EXCEPT !.maps = (w.maps \ R) \cup Reflagged(R, flags), !.lazy = l,
                  !.pte = Mapped(w.pte, Reflagged(R, flags))]
        = [w EXCEPT !.maps = (w.maps \ R) \cup Reflagged(R, flags),
                    !.pte = Mapped(w.pte, Reflagged(R, flags))]
    BY <2>2, <1>0 DEF RecType
  <2>4. v = RemappedEntries(w, R, flags)
    BY <1>4, <2>3 DEF RemappedEntries
  <2> QED BY <1>0, <1>2, <2>4, RemappedSound
<1>5. ASSUME NEW e \in R,
             v = Lifts([Failed(w) EXCEPT
                          !.pte = Unmapped(Mapped(@, Reflagged(Before(e), flags)), Span(e))],
                       Reflagged(Before(e), flags))
      PROVE  v \in RecType /\ Sound(v, c)
  <2> DEFINE D == Before(e)
             x == Failed(w)
             u == Remapped(x, D, flags)
  <2>1. x \in RecType /\ Sound(x, c) /\ Storable(x, c) /\ x.maps = w.maps
    BY <1>0, FailedSound DEF Failed, RecType
  <2>2. D \in SUBSET x.maps /\ D \in SUBSET EntryType
    BY <1>2, <2>1 DEF RecType
  <2> HIDE DEF D, x, R, u
  <2>3. u \in RecType /\ Storable(u, c) /\ Sound(u, c) /\ u.maps = x.maps
    BY <2>1, <2>2, RemappedSound DEF u
  <2>4. v = Bare(u, e)
    <3>1. v = Lifts([x EXCEPT !.pte = Unmapped(Mapped(@, Reflagged(D, flags)), Span(e))],
                    Reflagged(D, flags))
      BY <1>5 DEF D, x
    <3>2. Lifts([x EXCEPT !.pte = Unmapped(Mapped(@, Reflagged(D, flags)), Span(e))],
                    Reflagged(D, flags))
          = Bare(Lifts([x EXCEPT !.pte = Mapped(x.pte, Reflagged(D, flags))],
                    Reflagged(D, flags)), e)
      BY <2>1 DEF Lifts, Bare, RecType
    <3> QED BY <3>1, <3>2 DEF u, Remapped
  <2>5. e \in u.maps
    BY <1>2, <2>1, <2>3
  <2> QED BY <2>3, <2>4, <2>5, BareSound
<1> QED
  <2>1. \A E : {[e EXCEPT !.flags = flags] : e \in E} = Reflagged(E, flags)
    BY DEF Reflagged, Reflag
  <2>2. \/ v = w
        \/ /\ \A pg \in a..(b - 1) : lookup_memory_map(w.maps, pg) # {}
           /\ v = Lifts([w EXCEPT !.maps = (w.maps \ R) \cup Reflagged(R, flags), !.lazy = l,
                                 !.pte = Mapped(w.pte, Reflagged(R, flags))], Reflagged(R, flags))
        \/ \E e \in R :
             v = Lifts([Failed(w) EXCEPT
                          !.pte = Unmapped(Mapped(@, Reflagged(Before(e), flags)), Span(e))],
                       Reflagged(Before(e), flags))
    BY <2>1, <1>0 DEF Protect
  <2> HIDE DEF R, l, Before
  <2> QED BY <2>2, <1>3, <1>4, <1>5

-----------------------------------------------------------------------------
(***************************************************************************)
(* Page faults.  A fault that fails leaves a record that may be stored,    *)
(* and its thread does not run again.                                      *)
(***************************************************************************)
Ended(v, w, c) == v \in RecType /\ Storable(v, c) /\ (v.failures > w.failures \/ Sound(v, c))

\* A sound record is a good end of a fault.
LEMMA SoundEnded ==
  ASSUME NEW w, NEW c, NEW v, v \in RecType, Sound(v, c)
  PROVE  Ended(v, w, c)
BY DEF Ended, Sound

\* Pages lose their place in the page table.
UnmapPages(w, S) == [w EXCEPT !.pte = Unmapped(w.pte, S)]

\* Pages may lose their place in the page table, evenly or not.
LEMMA UnmapStorable ==
  ASSUME NEW w, NEW c, Storable(w, c), NEW S
  PROVE  /\ UnmapPages(w, S) \in RecType /\ Storable(UnmapPages(w, S), c)
         /\ UnmapPages(w, S).used = w.used /\ UnmapPages(w, S).failures = w.failures
<1> DEFINE v == UnmapPages(w, S)
           t == Unmapped(w.pte, S)
<1>0. /\ w \in RecType /\ w.pte \in PteType
      /\ MapsOK(w.maps, w.lazy) /\ StackOK(w.maps, w.lazy, w.stack)
      /\ FramesOK(Names(w.maps), w.refs, w.used, w.lost, c)
      /\ PteOK(w.maps, w.pte, w.lost) /\ CowOK(w.maps, w.pte, w.lost, w.lifted, c)
  BY DEF Storable, RecType
<1>1. t \in PteType /\ \A pg \in Page : t[pg] = IF pg \in S THEN NoFrame ELSE w.pte[pg]
  BY <1>0, UnmappedAt
<1> HIDE DEF t
<1>2. /\ v \in RecType /\ v.maps = w.maps /\ v.lazy = w.lazy /\ v.stack = w.stack /\ v.pte = t
      /\ v.refs = w.refs /\ v.used = w.used /\ v.lost = w.lost /\ v.lifted = w.lifted
      /\ v.failures = w.failures
  BY <1>0, <1>1 DEF RecType, UnmapPages, t
<1>3. PteOK(w.maps, t, w.lost)
  BY <1>0, <1>1 DEF PteOK
<1>4. CowOK(w.maps, t, w.lost, w.lifted, c)
  <2>1. \A pg \in Page : Writable(t, pg) => Writable(w.pte, pg) /\ t[pg] = w.pte[pg]
    BY <1>1 DEF Writable
  <2>2. \A e \in w.maps : Span(e) \subseteq Page
    BY <1>0 DEF MapsOK
  <2>3. \A e \in w.maps : \A pg \in Span(e) :
          Writable(t, pg) =>
            t[pg].frame = e.frame /\ (("w" \in e.flags /\ ~e.cow) \/ e.frame \in w.lifted)
    BY <2>1, <2>2, <1>0 DEF CowOK
  <2>4. \A pg \in Page :
          Writable(t, pg) /\ (\A e \in w.maps : pg \notin Span(e)) =>
            /\ t[pg].frame \in w.lost /\ c.others[t[pg].frame] = 0
            /\ \A e \in w.maps : e.frame # t[pg].frame
    BY <2>1, <1>0 DEF CowOK
  <2>5. /\ c.lifted \subseteq w.lifted
        /\ \A e \in w.maps :
             "w" \in e.flags /\ ~e.cow /\ c.others[e.frame] # 0 => e.frame \in w.lifted
    BY <1>0 DEF CowOK
  <2> QED BY <2>3, <2>4, <2>5 DEF CowOK
<1>5. Storable(v, c)
  BY <1>0, <1>2, <1>3, <1>4 DEF Storable
<1> QED BY <1>2, <1>5

\* remap_existing_page with flags that make nothing writable that was not.
LEMMA RemapPageSound ==
  ASSUME NEW w, NEW c, Sound(w, c), NEW e \in w.maps, NEW flags \in Perms,
         Allowed({e}, flags, w.lifted), NEW v \in remap_existing_page(w, e, flags)
  PROVE  v \in RecType /\ Sound(v, c)
<1>0. Storable(w, c) /\ w \in RecType /\ e \in EntryType /\ w.pte \in PteType
  BY DEF Sound, Storable, RecType
<1> DEFINE D == {e}
           m == (w.maps \ D) \cup Reflagged(D, flags)
           t == Mapped(w.pte, Reflagged(D, flags))
<1>1. Reflagged(D, flags) = {Reflag(e, flags)} /\ Reflag(e, flags) \in EntryType
  BY <1>0, ReflagFields DEF Reflagged
<1>2. CASE v = [w EXCEPT !.maps = m, !.pte = t]
  <2>1. t \in PteType
    <3>1. Reflagged(D, flags) \in SUBSET EntryType /\ Apart(Reflagged(D, flags))
      BY <1>1 DEF Apart
    <3> QED BY <3>1, <1>0, MappedAt
  <2>2. m \in SUBSET EntryType
    BY <1>0, <1>1 DEF RecType
  <2> HIDE DEF m, t, D
  <2>3. /\ v \in RecType /\ v.lazy = w.lazy /\ v.stack = w.stack /\ v.refs = w.refs
        /\ v.used = w.used /\ v.lost = w.lost /\ v.lifted = w.lifted /\ v.maps = m /\ v.pte = t
    BY <1>0, <1>2, <2>1, <2>2 DEF RecType
  <2>4. D \in SUBSET w.maps /\ Allowed(D, flags, v.lifted)
    BY <2>3 DEF D
  <2> QED BY <1>0, <2>3, <2>4, ReflagSound DEF m, t
<1>3. CASE v = Bare(Failed(w), e)
  <2>1. Failed(w) \in RecType /\ Storable(Failed(w), c) /\ Sound(Failed(w), c)
        /\ Failed(w).maps = w.maps
    BY <1>0, FailedSound DEF RecType
  <2> QED BY <1>3, <2>1, BareSound
<1> QED
  <2>1. ReplaceEntry(w, e, [e EXCEPT !.flags = flags]) = [w EXCEPT !.maps = m]
    BY <1>1 DEF ReplaceEntry, Reflag
  <2>2. \/ v = [ReplaceEntry(w, e, [e EXCEPT !.flags = flags]) EXCEPT
                  !.pte = Mapped(@, {[e EXCEPT !.flags = flags]})]
        \/ v = [Failed(w) EXCEPT !.pte = Unmapped(@, Span(e))]
    BY DEF remap_existing_page
  <2>3. [[w EXCEPT !.maps = m] EXCEPT !.pte = Mapped(@, {[e EXCEPT !.flags = flags]})]
        = [w EXCEPT !.maps = m, !.pte = t]
    BY <1>0, <1>1 DEF Reflag, RecType
  <2>4. [Failed(w) EXCEPT !.pte = Unmapped(@, Span(e))] = Bare(Failed(w), e)
    BY DEF Bare
  <2> QED BY <2>1, <2>2, <2>3, <2>4, <1>2, <1>3

\* The same for an image entry that trades write and execute: its frame counts as
\* lifted.
LEMMA AdjustSound ==
  ASSUME NEW w, NEW c, Sound(w, c), NEW e \in w.maps, NEW flags \in Perms,
         NEW u \in remap_existing_page(w, e, flags)
  PROVE  Lifts(u, {[e EXCEPT !.flags = flags]}) \in RecType
         /\ Sound(Lifts(u, {[e EXCEPT !.flags = flags]}), c)
<1> DEFINE v == Lifts(u, {[e EXCEPT !.flags = flags]})
<1>0. Storable(w, c) /\ w \in RecType /\ e \in EntryType /\ w.pte \in PteType
  BY DEF Sound, Storable, RecType
<1>1. Reflagged({e}, flags) = {Reflag(e, flags)} /\ Reflag(e, flags) \in EntryType
      /\ Reflag(e, flags) = [e EXCEPT !.flags = flags]
  BY <1>0, ReflagFields DEF Reflagged, Reflag
<1>2. CASE u = [ReplaceEntry(w, e, [e EXCEPT !.flags = flags]) EXCEPT
                  !.pte = Mapped(@, {[e EXCEPT !.flags = flags]})]
  <2>1. u = [w EXCEPT !.maps = (w.maps \ {e}) \cup Reflagged({e}, flags),
                      !.pte = Mapped(w.pte, Reflagged({e}, flags))]
    BY <1>0, <1>1, <1>2 DEF ReplaceEntry, RecType
  <2>2. v = RemappedEntries(w, {e}, flags)
    BY <1>1, <2>1 DEF RemappedEntries
  <2> HIDE DEF v
  <2>3. {e} \in SUBSET w.maps
    OBVIOUS
  <2>4. v \in RecType /\ Sound(v, c)
    BY <1>0, <2>2, <2>3, RemappedSound
  <2> QED BY <2>4 DEF v
<1>3. CASE u = Bare(Failed(w), e)
  <2>1. Failed(w) \in RecType /\ Storable(Failed(w), c) /\ Sound(Failed(w), c)
        /\ Failed(w).maps = w.maps
    BY <1>0, FailedSound DEF RecType
  <2>2. u \in RecType /\ Sound(u, c)
    BY <1>3, <2>1, BareSound
  <2>3. {[e EXCEPT !.flags = flags]} \in SUBSET EntryType
    BY <1>1
  <2> QED BY <2>2, <2>3, LiftsSound
<1> QED BY <1>2, <1>3 DEF remap_existing_page, Bare

\* A store resolved: the entry gets a frame of its own.  Because no page of the
\* entry was writable, none of them keeps a writable mapping of the shared frame.
Copied(w, e, f) ==
  release_process_frame_slot(
    [ReplaceEntry(w, e, [e EXCEPT !.frame = f, !.cow = FALSE]) EXCEPT
       !.pte = [@ EXCEPT ![e.vaddr] = [frame |-> f, perms |-> e.flags]], !.used = @ \cup {f}],
    Once({e}))

\* A resolved copy-on-write fault in closed form.
LEMMA CopiedFields ==
  ASSUME NEW w \in RecType, NEW e \in w.maps, NEW f \in Frame, f \notin w.used, e.frame \in w.used
  PROVE  Copied(w, e, f) =
           [w EXCEPT !.maps = (w.maps \ {e}) \cup {[e EXCEPT !.frame = f, !.cow = FALSE]},
                     !.pte = [w.pte EXCEPT ![e.vaddr] = [frame |-> f, perms |-> e.flags]],
                     !.refs = [g \in Frame |-> IF g \in {e.frame}
                                               THEN IF w.refs[g] > 1 THEN w.refs[g] - 1 ELSE 0
                                               ELSE w.refs[g]],
                     !.used = {g \in w.used \cup {f} : g \notin {e.frame} \/ w.refs[g] > 1}]
<1> DEFINE d == [e EXCEPT !.frame = f, !.cow = FALSE]
           t == [w.pte EXCEPT ![e.vaddr] = [frame |-> f, perms |-> e.flags]]
           u == [w EXCEPT !.maps = (w.maps \ {e}) \cup {d}, !.pte = t, !.used = w.used \cup {f}]
<1>0. Copied(w, e, f) = release_process_frame_slot(u, Once({e}))
  BY DEF Copied, ReplaceEntry, RecType
<1> HIDE DEF d, t
<1>1. u.refs = w.refs /\ u.used = w.used \cup {f} /\ w.used \subseteq Frame
  BY DEF RecType
<1>2. \A g \in Frame : Once({e})[g] = IF g \in {e.frame} THEN 1 ELSE 0
  BY DEF Once
<1>3. [g \in Frame |-> IF Once({e})[g] = 0 THEN u.refs[g]
                       ELSE IF u.refs[g] > Once({e})[g] THEN u.refs[g] - Once({e})[g] ELSE 0]
      = [g \in Frame |-> IF g \in {e.frame} THEN IF w.refs[g] > 1 THEN w.refs[g] - 1 ELSE 0
                         ELSE w.refs[g]]
  BY <1>1, <1>2
<1>4. {g \in u.used : Once({e})[g] = 0 \/ u.refs[g] > Once({e})[g]}
      = {g \in w.used \cup {f} : g \notin {e.frame} \/ w.refs[g] > 1}
  BY <1>1, <1>2
<1>5. release_process_frame_slot(u, Once({e})) =
        [u EXCEPT !.refs = [g \in Frame |-> IF Once({e})[g] = 0 THEN u.refs[g]
                       ELSE IF u.refs[g] > Once({e})[g] THEN u.refs[g] - Once({e})[g] ELSE 0],
                  !.used = {g \in u.used : Once({e})[g] = 0 \/ u.refs[g] > Once({e})[g]}]
  BY DEF release_process_frame_slot
<1>6. PICK R, S :
        /\ R = [g \in Frame |-> IF g \in {e.frame} THEN IF w.refs[g] > 1 THEN w.refs[g] - 1 ELSE 0
                               ELSE w.refs[g]]
        /\ S = {g \in w.used \cup {f} : g \notin {e.frame} \/ w.refs[g] > 1}
  OBVIOUS
<1>7. Copied(w, e, f) = [u EXCEPT !.refs = R, !.used = S]
  BY <1>0, <1>3, <1>4, <1>5, <1>6
<1>8. [u EXCEPT !.refs = R, !.used = S] =
        [w EXCEPT !.maps = (w.maps \ {e}) \cup {d}, !.pte = t, !.refs = R, !.used = S]
  BY DEF RecType
<1>9. Copied(w, e, f) =
        [w EXCEPT !.maps = (w.maps \ {e}) \cup {d}, !.pte = t, !.refs = R, !.used = S]
  BY <1>7, <1>8
<1> QED BY <1>6, <1>9 DEF d, t

\* A copy of the frame is private to the faulting process, and the old one loses a holder.
LEMMA CopiedSound ==
  ASSUME NEW w, NEW c, Sound(w, c), NEW e \in w.maps, e.cow, NEW f \in Frame, f \notin w.used,
         NEW x \in Span(e), ~Writable(w.pte, x)
  PROVE  Copied(w, e, f) \in RecType /\ Sound(Copied(w, e, f), c)
<1> DEFINE v == Copied(w, e, f)
           d == [e EXCEPT !.frame = f, !.cow = FALSE]
           m == (w.maps \ {e}) \cup {d}
           t == [w.pte EXCEPT ![e.vaddr] = [frame |-> f, perms |-> e.flags]]
           r == [g \in Frame |-> IF g \in {e.frame} THEN IF w.refs[g] > 1 THEN w.refs[g] - 1 ELSE 0
                                 ELSE w.refs[g]]
           V == {g \in w.used \cup {f} : g \notin {e.frame} \/ w.refs[g] > 1}
<1>0. /\ w \in RecType /\ w.pte \in PteType /\ w.used \subseteq Frame
      /\ MapsOK(w.maps, w.lazy) /\ StackOK(w.maps, w.lazy, w.stack)
      /\ FramesOK(Names(w.maps), w.refs, w.used, w.lost, c)
      /\ PteOK(w.maps, w.pte, w.lost) /\ CowOK(w.maps, w.pte, w.lost, w.lifted, c)
      /\ Uniform(w.maps, w.pte) /\ e \in EntryType
  BY DEF Sound, Storable, RecType
<1>1. \A a \in w.maps : a.frame \in w.used /\ a.frame \in Names(w.maps) /\ a \in EntryType
        /\ Span(a) \subseteq Page
  BY <1>0 DEF FramesOK, FrameOK, Names, MapsOK
<1>2. /\ d \in EntryType /\ d.vaddr = e.vaddr /\ d.pages = e.pages /\ d.frame = f /\ d.kind = e.kind
      /\ d.flags = e.flags /\ ~d.cow
  BY <1>0 DEF EntryType
<1> HIDE DEF d
<1>3. Span(d) = Span(e)
  BY <1>2 DEF Span
<1>4. e.vaddr \in Page /\ e.vaddr \in Span(e) /\ e.flags \in Perms
  BY <1>0, SpanOf DEF EntryType
<1>5. /\ t \in PteType /\ t[e.vaddr] = [frame |-> f, perms |-> e.flags]
      /\ \A pg \in Page : pg # e.vaddr => t[pg] = w.pte[pg]
  BY <1>0, <1>4 DEF PteType
<1>6. v = [w EXCEPT !.maps = m, !.pte = t, !.refs = r, !.used = V]
  BY <1>0, <1>1, CopiedFields DEF d
<1> HIDE DEF t, v
<1>7. MapsOK(m, w.lazy)
  <2>0. \A a \in m : a = d \/ (a \in w.maps /\ a # e)
    OBVIOUS
  <2>1. m \subseteq EntryType /\ \A a \in m : Span(a) \subseteq Page
    BY <1>1, <1>2, <1>3
  <2>2. \A a, b \in m : a # b => Span(a) \cap Span(b) = {} /\ a.frame # b.frame
    BY <2>0, <1>0, <1>1, <1>2, <1>3 DEF MapsOK
  <2>3. \A l \in w.lazy : \A a \in m : l.page \notin Span(a)
    BY <2>0, <1>0, <1>3 DEF MapsOK
  <2> HIDE DEF m
  <2> QED BY <1>0, <2>1, <2>2, <2>3 DEF MapsOK
<1>8. StackOK(m, w.lazy, w.stack)
  <2>1. \A a \in m : \/ a.kind # "Stack" /\ Span(a) \cap StackArea = {}
                     \/ \E b \in w.maps : Span(b) = Span(a) /\ b.vaddr = a.vaddr /\ b.kind = a.kind
    BY <1>2, <1>3
  <2>2. \A b \in w.maps : b.kind = "Stack" => \E a \in m : a.kind = "Stack" /\ a.vaddr = b.vaddr
    BY <1>2
  <2> HIDE DEF m
  <2> QED BY <1>0, <2>1, <2>2, StackKept
<1>9. FramesOK(Names(m), r, V, w.lost, c)
  <2>1. Names(m) = (Names(w.maps) \cup {f}) \ {e.frame}
    <3>1. \A a \in w.maps : a # e => a.frame # e.frame
      BY <1>0 DEF MapsOK
    <3>2. f # e.frame
      BY <1>1
    <3> QED BY <3>1, <3>2, <1>2 DEF Names
  <2>2. {f} \in SUBSET (Frame \ w.used)
    OBVIOUS
  <2>3. FramesOK(Names(w.maps) \cup {f}, w.refs, w.used \cup {f}, w.lost, c)
    BY <1>0, <2>2, FramesFresh
  <2> DEFINE G == {e.frame}
  <2>4. /\ G \in SUBSET (Names(w.maps) \cup {f})
        /\ r = [g \in Frame |-> IF g \in G THEN IF w.refs[g] > 1 THEN w.refs[g] - 1 ELSE 0
                                ELSE w.refs[g]]
        /\ V = {g \in w.used \cup {f} : g \notin G \/ w.refs[g] > 1}
    BY <1>1
  <2> HIDE DEF G, r, V
  <2>5. FramesOK((Names(w.maps) \cup {f}) \ G, r, V, w.lost, c)
    BY <2>3, <2>4, FramesReleased
  <2> QED BY <2>1, <2>5 DEF G
<1>10. PteOK(m, t, w.lost)
  <2> SUFFICES ASSUME NEW pg \in Page, t[pg] # NoFrame, t[pg].frame \notin w.lost
               PROVE  \E a \in m : pg \in Span(a) /\ (Own(a, pg) => a.frame = t[pg].frame)
    BY DEF PteOK
  <2>1. CASE pg = e.vaddr
    <3>1. t[pg].frame = f
      BY <2>1, <1>5
    <3> QED BY <2>1, <3>1, <1>2, <1>3, <1>4
  <2>2. CASE pg # e.vaddr
    <3>1. PICK a \in w.maps : pg \in Span(a) /\ (Own(a, pg) => a.frame = t[pg].frame)
      BY <2>2, <1>0, <1>5 DEF PteOK
    <3>2. CASE a = e
      <4>1. ~Own(d, pg)
        BY <2>2, <1>2 DEF Own
      <4> QED BY <3>1, <3>2, <4>1, <1>3
    <3>3. CASE a # e
      BY <3>1, <3>3
    <3> QED BY <3>2, <3>3
  <2> QED BY <2>1, <2>2
<1>11. CowOK(m, t, w.lost, w.lifted, c)
  <2>1. c.others[f] = 0 /\ f \notin w.lost
    BY <1>0 DEF FramesOK, FrameOK
  <2>2. \A a \in m : "w" \in a.flags /\ ~a.cow /\ c.others[a.frame] # 0 => a.frame \in w.lifted
    BY <1>0, <1>2, <2>1 DEF CowOK
  <2>3. \A pg \in Span(e) : ~Writable(w.pte, pg)
    BY <1>0 DEF Uniform
  <2>4. ASSUME NEW a \in m, NEW pg \in Span(a), Writable(t, pg)
        PROVE  t[pg].frame = a.frame /\ (("w" \in a.flags /\ ~a.cow) \/ a.frame \in w.lifted)
    <3>1. CASE a = d
      <4>1. pg \in Span(e) /\ pg \in Page
        BY <3>1, <1>1, <1>3
      <4>2. pg = e.vaddr
        BY <2>3, <2>4, <4>1, <1>5 DEF Writable
      <4>3. t[pg].frame = f /\ t[pg].perms = e.flags
        BY <4>2, <1>5
      <4> QED BY <2>4, <3>1, <4>3, <1>2 DEF Writable
    <3>2. CASE a \in w.maps /\ a # e
      <4>1. pg \in Page /\ pg # e.vaddr
        BY <3>2, <1>0, <1>1, <1>4 DEF MapsOK
      <4>2. t[pg] = w.pte[pg]
        BY <4>1, <1>5
      <4> QED BY <2>4, <3>2, <4>2, <1>0 DEF CowOK, Writable
    <3> QED BY <3>1, <3>2
  <2>5. \A pg \in Page :
          Writable(t, pg) /\ (\A a \in m : pg \notin Span(a)) =>
            /\ t[pg].frame \in w.lost /\ c.others[t[pg].frame] = 0
            /\ \A a \in m : a.frame # t[pg].frame
    <3> SUFFICES ASSUME NEW pg \in Page, Writable(t, pg), \A a \in m : pg \notin Span(a)
                 PROVE  /\ t[pg].frame \in w.lost /\ c.others[t[pg].frame] = 0
                        /\ \A a \in m : a.frame # t[pg].frame
      OBVIOUS
    <3>1. \A a \in w.maps : pg \notin Span(a)
      BY <1>3
    <3>2. t[pg] = w.pte[pg]
      BY <3>1, <1>4, <1>5
    <3>3. Writable(w.pte, pg)
      BY <3>2 DEF Writable
    <3>4. /\ t[pg].frame \in w.lost /\ c.others[t[pg].frame] = 0
          /\ \A a \in w.maps : a.frame # t[pg].frame
      BY <3>1, <3>2, <3>3, <1>0 DEF CowOK
    <3> QED BY <3>4, <2>1, <1>2
  <2>6. c.lifted \subseteq w.lifted
    BY <1>0 DEF CowOK
  <2> HIDE DEF m
  <2> QED BY <2>2, <2>4, <2>5, <2>6 DEF CowOK
<1>12. Uniform(m, t)
  <2>1. \A a \in w.maps : a # e => \A pg \in Span(a) : t[pg] = w.pte[pg]
    BY <1>0, <1>1, <1>4, <1>5 DEF MapsOK
  <2> QED BY <2>1, <1>0, <1>2 DEF Uniform, Writable
<1>13. m \in SUBSET EntryType /\ r \in [Frame -> Nat] /\ V \in SUBSET Frame
  BY <1>7, <1>9 DEF MapsOK, FramesOK
<1> HIDE DEF m, r, V
<1>14. /\ v \in RecType /\ v.maps = m /\ v.lazy = w.lazy /\ v.stack = w.stack /\ v.pte = t
       /\ v.refs = r /\ v.used = V /\ v.lost = w.lost /\ v.lifted = w.lifted
  BY <1>0, <1>5, <1>6, <1>13 DEF RecType
<1>15. Sound(v, c)
  BY <1>7, <1>8, <1>9, <1>10, <1>11, <1>12, <1>14 DEF Sound, Storable
<1> QED BY <1>14, <1>15 DEF v

\* resolve_cow_fault ends well in each of its outcomes.
LEMMA CowFaultEnded ==
  ASSUME NEW w, NEW c, Sound(w, c), NEW e \in w.maps, e.cow,
         NEW x \in Span(e), ~Writable(w.pte, x), NEW v \in resolve_cow_fault(w, e)
  PROVE  Ended(v, w, c)
<1>0. w \in RecType /\ Storable(w, c)
  BY DEF Sound, Storable
<1>1. ASSUME NEW f \in Candidates(Frame \ w.used), v = Copied(w, e, f)
      PROVE  Ended(v, w, c)
  <2>1. f \in Frame /\ f \notin w.used
    BY FreeFrame
  <2>2. v \in RecType /\ Sound(v, c)
    BY <1>1, <2>1, CopiedSound
  <2> QED BY <2>2, SoundEnded
<1>2. ASSUME v \in FailedAlloc(w)
      PROVE  Ended(v, w, c)
  BY <1>0, <1>2, FailedAllocSound, SoundEnded
<1>3. ASSUME NEW f \in Candidates(Frame \ w.used),
             v = [Failed(w) EXCEPT !.pte = Unmapped(@, {e.vaddr}), !.used = @ \cup {f},
                                   !.lost = @ \cup {f}]
      PROVE  Ended(v, w, c)
  <2> DEFINE u == Failed(w)
             y == UnmapPages(u, {e.vaddr})
  <2>1. u \in RecType /\ Storable(u, c) /\ u.used = w.used /\ u.failures = w.failures + 1
    BY <1>0, FailedSound DEF RecType
  <2>2. v = Forget(y, f)
    BY <1>3, <2>1 DEF Forget, UnmapPages, RecType
  <2> HIDE DEF u, y
  <2>3. y \in RecType /\ Storable(y, c) /\ y.used = w.used /\ y.failures = w.failures + 1
    BY <2>1, UnmapStorable DEF y
  <2>4. f \in Frame /\ f \notin y.used
    BY <2>3, FreeFrame
  <2>5. v \in RecType /\ Storable(v, c)
    BY <2>2, <2>3, <2>4, ForgetSound
  <2>6. v.failures = w.failures + 1 /\ w.failures \in Nat
    BY <2>2, <2>3, <1>0 DEF Forget, RecType
  <2> QED BY <2>5, <2>6 DEF Ended
<1> QED BY <1>1, <1>2, <1>3 DEF resolve_cow_fault, Copied

\* Lazy pages may be given up.
Lazier(w, l) == [w EXCEPT !.lazy = l]

\* Giving up lazy pages is sound.
LEMMA LazierSound ==
  ASSUME NEW w, NEW c, Sound(w, c), NEW l \in SUBSET w.lazy
  PROVE  /\ Lazier(w, l) \in RecType /\ Sound(Lazier(w, l), c)
         /\ Lazier(w, l).maps = w.maps /\ Lazier(w, l).lazy = l /\ Lazier(w, l).used = w.used
         /\ Lazier(w, l).failures = w.failures
<1> DEFINE v == Lazier(w, l)
<1>0. /\ w \in RecType /\ MapsOK(w.maps, w.lazy) /\ StackOK(w.maps, w.lazy, w.stack)
      /\ Storable(w, c) /\ Uniform(w.maps, w.pte)
  BY DEF Sound, Storable
<1>1. /\ v \in RecType /\ v.maps = w.maps /\ v.lazy = l /\ v.stack = w.stack /\ v.pte = w.pte
      /\ v.refs = w.refs /\ v.used = w.used /\ v.lost = w.lost /\ v.lifted = w.lifted
      /\ v.failures = w.failures
  BY <1>0 DEF RecType, Lazier
<1>2. MapsOK(w.maps, l) /\ StackOK(w.maps, l, w.stack)
  BY <1>0, MapsShrink DEF StackOK
<1>3. Sound(v, c)
  BY <1>0, <1>1, <1>2 DEF Sound, Storable
<1> QED BY <1>1, <1>3

\* map_fault_page: one page that nothing has, out of the stack's area.
LEMMA FaultPageSound ==
  ASSUME NEW w, NEW c, Sound(w, c), NEW pg \in Page, pg \notin StackArea,
         Vacant({pg}, w.maps, w.lazy), NEW flags \in Perms, NEW kind \in Kinds, kind # "Stack",
         NEW v \in map_fault_page(w, pg, flags, kind)
  PROVE  v \in RecType /\ Sound(v, c)
<1>1. PICK E \in FreshEntries(w, {pg}, flags, kind) : v = AddEntries(w, E)
  BY DEF map_fault_page
<1>2. {pg} \in SUBSET Page /\ w.used \subseteq Frame
  BY DEF Sound, Storable, RecType
<1>3. Fresh(E, w.maps, w.lazy, w.used) /\ BaseEntries(E, {pg}, flags, kind)
  BY <1>1, <1>2, FreshGiven
<1>4. MarkedIn(E, w.lifted) /\ OffStack(E)
  BY <1>3 DEF BaseEntries, MarkedIn, OffStack
<1> QED BY <1>1, <1>3, <1>4, AddSound

\* A fault on a lazy anonymous page ends well.
LEMMA LazyAnonymousEnded ==
  ASSUME NEW w, NEW c, Sound(w, c), NEW pg \in Page, lookup_memory_map(w.maps, pg) = {},
         NEW l \in w.lazy, l.page = pg,
         NEW v \in map_fault_page(Lazier(w, w.lazy \ {l}), pg, l.flags, "Anonymous")
                     \cup FailedAlloc(Lazier(w, w.lazy \ {l}))
  PROVE  Ended(v, w, c)
<1> DEFINE u == Lazier(w, w.lazy \ {l})
<1>0. /\ w \in RecType /\ MapsOK(w.maps, w.lazy) /\ StackOK(w.maps, w.lazy, w.stack)
  BY DEF Sound, Storable
<1>1. w.lazy \ {l} \in SUBSET w.lazy
  OBVIOUS
<1>2. u \in RecType /\ Sound(u, c) /\ u.maps = w.maps /\ u.lazy = w.lazy \ {l} /\ Storable(u, c)
  BY <1>1, LazierSound DEF Sound
<1> HIDE DEF u
<1>3. l.flags \in Perms /\ pg \notin StackArea /\ "Anonymous" \in Kinds /\ "Anonymous" # "Stack"
  BY <1>0 DEF MapsOK, LazyType, StackOK, Kinds
<1>4. Vacant({pg}, u.maps, u.lazy)
  <2>1. \A e \in w.maps : pg \notin Span(e)
    BY <1>0, Lookup
  <2>2. \A k \in w.lazy : k.page = pg => k = l
    BY <1>0 DEF MapsOK
  <2> QED BY <1>2, <2>1, <2>2 DEF Vacant
<1>5. v \in RecType /\ Sound(v, c)
  BY <1>2, <1>3, <1>4, FaultPageSound, FailedAllocSound DEF u
<1> QED BY <1>5, SoundEnded

\* A fault on a run of lazy file pages makes one entry of them.
LEMMA LazyFileEnded ==
  ASSUME NEW w, NEW c, Sound(w, c), NEW pg \in Page, NEW l \in w.lazy, l.page = pg,
         NEW n \in Nat \ {0}, \A i \in 0..(n - 1) : [l EXCEPT !.page = pg + i] \in w.lazy,
         NEW f \in Candidates(Frame \ w.used),
         NEW v, v = AddEntries([w EXCEPT !.lazy = {k \in w.lazy : k.page \notin pg..(pg + n - 1)}],
                               {Entry(pg, n, f, l.flags, "FileBacked")})
  PROVE  Ended(v, w, c)
<1> DEFINE L == {k \in w.lazy : k.page \notin pg..(pg + n - 1)}
           u == Lazier(w, L)
           e == Entry(pg, n, f, l.flags, "FileBacked")
<1>0. /\ w \in RecType /\ MapsOK(w.maps, w.lazy) /\ StackOK(w.maps, w.lazy, w.stack)
  BY DEF Sound, Storable
<1>1. L \in SUBSET w.lazy
  OBVIOUS
<1>2. u \in RecType /\ Sound(u, c) /\ u.maps = w.maps /\ u.lazy = L /\ u.used = w.used
  BY <1>1, LazierSound
<1>3. v = AddEntries(u, {e})
  BY DEF Lazier
<1>4. f \in Frame /\ f \notin w.used
  BY FreeFrame
<1>5. \A x \in pg..(pg + n - 1) : \E k \in w.lazy : k.page = x
  <2> SUFFICES ASSUME NEW x \in pg..(pg + n - 1) PROVE \E k \in w.lazy : k.page = x
    OBVIOUS
  <2>1. pg \in Nat /\ x - pg \in 0..(n - 1) /\ pg + (x - pg) = x
    BY Numbers
  <2>2. l \in LazyType
    BY <1>0 DEF MapsOK
  <2>3. [l EXCEPT !.page = pg + (x - pg)] \in w.lazy
    BY <2>1
  <2>4. [l EXCEPT !.page = pg + (x - pg)].page = x
    BY <2>1, <2>2 DEF LazyType
  <2> QED BY <2>3, <2>4
<1>6. \A x \in pg..(pg + n - 1) : x \in Page /\ x \notin StackArea /\ \A d \in w.maps :
        x \notin Span(d)
  BY <1>5, <1>0 DEF MapsOK, LazyType, StackOK
<1>7. e \in EntryType /\ Span(e) = pg..(pg + n - 1) /\ e.frame = f /\ ~e.cow
      /\ e.kind = "FileBacked"
  <2>1. pg + n - 1 \in Page /\ pg \in Nat
    BY <1>6, Numbers
  <2>2. n \in 1..(MaxPage + 1) /\ l.flags \in Perms
    BY <2>1, <1>0, Numbers DEF MapsOK, LazyType
  <2> QED BY <2>2, <1>4 DEF Entry, EntryType, Span, Kinds
<1> HIDE DEF u, L, e
<1>8. Fresh({e}, u.maps, u.lazy, u.used) /\ MarkedIn({e}, u.lifted) /\ OffStack({e})
  <2>1. Fresh({e}, u.maps, u.lazy, u.used)
    <3>1. \A k \in u.lazy : k.page \notin Span(e)
      BY <1>2, <1>7 DEF L
    <3>2. \A d \in u.maps : Span(d) \cap Span(e) = {}
      BY <1>2, <1>6, <1>7
    <3>3. Span(e) \subseteq Page /\ e.frame \notin u.used
      BY <1>2, <1>4, <1>6, <1>7
    <3> QED BY <1>7, <3>1, <3>2, <3>3 DEF Fresh
  <2> QED BY <2>1, <1>6, <1>7 DEF MarkedIn, OffStack
<1>9. v \in RecType /\ Sound(v, c)
  BY <1>2, <1>3, <1>8, AddSound
<1> QED BY <1>9, SoundEnded

\* New entries for the k pages below the stack.
StackPages(E, w, k) ==
  /\ k \in Nat /\ StackLow <= StackBottom - w.stack - k
  /\ Fresh(E, w.maps, w.lazy, w.used)
  /\ BaseEntries(E, (StackBottom - w.stack - k)..(StackBottom - w.stack - 1), RW, "Stack")

GrownBy(w, E, k) == [AddEntries(w, E) EXCEPT !.stack = w.stack + k]

\* The stack's entries after new ones below them.
LEMMA StackGrown ==
  ASSUME NEW w, NEW c, Sound(w, c), NEW k, NEW E, StackPages(E, w, k)
  PROVE  LET v == GrownBy(w, E, k)
         IN  /\ v \in RecType /\ Sound(v, c) /\ v.maps = w.maps \cup E /\ v.lazy = w.lazy
             /\ v.stack = w.stack + k /\ v.lifted = w.lifted /\ v.failures = w.failures
<1> DEFINE u == AddEntries(w, E)
           low == StackBottom - w.stack
           v == GrownBy(w, E, k)
<1> USE DEF StackPages
<1>0. /\ w \in RecType /\ Storable(w, c) /\ StackOK(w.maps, w.lazy, w.stack)
      /\ MapsOK(w.maps, w.lazy) /\ w.stack \in 0..(StackBottom - StackLow)
      /\ Parts(w.maps, w.lazy, w.refs, w.used, w.lost, w.lifted, w.pte, c)
      /\ Uniform(w.maps, w.pte)
  BY StorableParts DEF Sound, Storable, RecType
<1>1. MarkedIn(E, w.lifted)
  BY DEF BaseEntries, MarkedIn
<1>2. /\ u = [w EXCEPT !.maps = w.maps \cup E, !.pte = Mapped(w.pte, E),
                       !.used = w.used \cup Names(E)]
      /\ u \in RecType
  BY <1>0, <1>1, AddStorable
<1>3. /\ Parts(w.maps \cup E, w.lazy, w.refs, w.used \cup Names(E), w.lost, w.lifted,
               Mapped(w.pte, E), c)
      /\ Uniform(w.maps \cup E, Mapped(w.pte, E))
  BY <1>0, <1>1, PartsAdd
<1>4. w.stack + k \in 0..(StackBottom - StackLow) /\ low \in Int
  BY <1>0, Numbers, SMTT(60)
<1> HIDE DEF u
<1>5. /\ v \in RecType /\ v.maps = w.maps \cup E /\ v.lazy = w.lazy /\ v.stack = w.stack + k
      /\ v.pte = Mapped(w.pte, E) /\ v.refs = w.refs /\ v.used = w.used \cup Names(E)
      /\ v.lost = w.lost /\ v.lifted = w.lifted /\ v.failures = w.failures
  <2>1. v = [u EXCEPT !.stack = w.stack + k]
    BY DEF u, GrownBy
  <2> HIDE DEF v
  <2> QED BY <1>0, <1>2, <1>4, <2>1 DEF RecType
<1> HIDE DEF v
<1>6. StackOK(w.maps \cup E, w.lazy, w.stack + k)
  <2>1. \A e \in E : e.kind = "Stack" /\ e.vaddr \in (low - k)..(low - 1)
    BY DEF BaseEntries
  <2>2. StackBottom - (w.stack + k) = low - k /\ low \in Int /\ w.stack \in Nat
        /\ StackBottom \in Nat
    BY <1>0, Numbers
  <2>3. \A e \in w.maps \cup E : e.kind # "Stack" => Span(e) \cap StackArea = {}
    BY <2>1, <1>0 DEF StackOK
  <2>4. \A e \in w.maps \cup E : e.kind = "Stack" => e.vaddr \in (low - k)..(StackBottom - 1)
    <3>1. \A e \in w.maps : e.kind = "Stack" => e.vaddr \in low..(StackBottom - 1)
      BY <1>0 DEF StackOK
    <3> QED BY <3>1, <2>1, <2>2, SMTT(60)
  <2>5. \A pg \in (low - k)..(StackBottom - 1) : \E e \in w.maps \cup E :
          e.kind = "Stack" /\ e.vaddr = pg
    <3>1. \A pg \in low..(StackBottom - 1) : \E e \in w.maps : e.kind = "Stack" /\ e.vaddr = pg
      BY <1>0 DEF StackOK
    <3>2. \A pg \in (low - k)..(low - 1) : \E e \in E : e.kind = "Stack" /\ e.vaddr = pg
      BY DEF BaseEntries
    <3>3. \A pg \in (low - k)..(StackBottom - 1) :
            pg \in low..(StackBottom - 1) \/ pg \in (low - k)..(low - 1)
      BY <2>2
    <3> QED BY <3>1, <3>2, <3>3
  <2>6. \A l \in w.lazy : l.page \notin StackArea
    BY <1>0 DEF StackOK
  <2> HIDE DEF low
  <2> QED BY <2>2, <2>3, <2>4, <2>5, <2>6, <1>4 DEF StackOK
<1>7. Storable(v, c)
  BY <1>3, <1>5, <1>6, StorableParts
<1> QED BY <1>3, <1>5, <1>7 DEF Sound, v

\* The pages of the stack's area below the stack are vacant.
LEMMA BelowStack ==
  ASSUME NEW w, NEW c, Sound(w, c), NEW S \in SUBSET StackArea,
         \A pg \in S : pg < StackBottom - w.stack
  PROVE  S \in SUBSET Page /\ Vacant(S, w.maps, w.lazy)
<1>0. MapsOK(w.maps, w.lazy) /\ StackOK(w.maps, w.lazy, w.stack)
  BY DEF Sound, Storable
<1>1. S \in SUBSET Page
  BY Numbers DEF StackArea
<1>2. ASSUME NEW pg \in S, NEW e \in w.maps PROVE pg \notin Span(e)
  <2>1. e \in EntryType
    BY <1>0 DEF MapsOK
  <2>2. e.vaddr \in Nat /\ \A x : x \in Span(e) => x \in Int /\ e.vaddr <= x
    BY <2>1, SpanOf
  <2>3. CASE e.kind = "Stack"
    <3>1. e.vaddr >= StackBottom - w.stack
      BY <2>3, <1>0 DEF StackOK
    <3>2. pg \in Int /\ StackBottom - w.stack \in Int
      BY <1>0, Numbers DEF StackOK, StackArea
    <3> QED BY <2>2, <3>1, <3>2
  <2>4. CASE e.kind # "Stack"
    BY <2>4, <1>0 DEF StackOK
  <2> QED BY <2>3, <2>4
<1>3. \A pg \in S, l \in w.lazy : l.page # pg
  BY <1>0 DEF StackOK
<1> QED BY <1>1, <1>2, <1>3 DEF Vacant

\* The stack grows by contiguous pages, also when it cannot grow all the way.
LEMMA GrowStackSound ==
  ASSUME NEW w, NEW c, Sound(w, c), NEW pg \in Page, StackLow <= pg, pg < StackBottom - w.stack,
         NEW v \in GrowStack(w, pg)
  PROVE  v \in RecType /\ Sound(v, c)
<1> DEFINE low == StackBottom - w.stack
           Grown(k) == {[AddEntries(w, E) EXCEPT !.stack = @ + k] :
                          E \in FreshEntries(w, (low - k)..(low - 1), RW, "Stack")}
<1>0. /\ w \in RecType /\ w.stack \in 0..(StackBottom - StackLow) /\ w.used \subseteq Frame
      /\ Storable(w, c) /\ MapsOK(w.maps, w.lazy)
  BY DEF Sound, Storable, RecType
<1>1. low \in Int /\ pg \in Nat /\ low <= StackBottom
  BY <1>0, Numbers
<1>2. ASSUME NEW k \in 0..(low - pg), NEW u \in Grown(k)
      PROVE  u \in RecType /\ Sound(u, c)
  <2> DEFINE S == (low - k)..(low - 1)
  <2>1. PICK E \in FreshEntries(w, S, RW, "Stack") : u = [AddEntries(w, E) EXCEPT !.stack = @ + k]
    OBVIOUS
  <2>2. S \in SUBSET StackArea /\ \A x \in S : x < StackBottom - w.stack
    <3>1. low = StackBottom - w.stack /\ w.stack \in Nat
      BY <1>0
    <3> HIDE DEF Grown, low
    <3>2. \A x \in S : x \in Int /\ StackLow <= x /\ x < low
      BY <1>1, Numbers
    <3>3. \A x \in S : x \in StackArea
      BY <1>1, <3>2, Numbers DEF StackArea
    <3> QED BY <3>1, <3>2, <3>3
  <2>3. RW \in Perms /\ "Stack" \in Kinds
    BY DEF RW, Perms, Kinds
  <2> HIDE DEF S, low
  <2>4. S \in SUBSET Page /\ Vacant(S, w.maps, w.lazy)
    BY <2>2, BelowStack
  <2>5. Fresh(E, w.maps, w.lazy, w.used) /\ BaseEntries(E, S, RW, "Stack")
    BY <2>1, <2>3, <2>4, <1>0, FreshGiven
  <2>6. AddEntries(w, E).stack = w.stack
    <3>1. MarkedIn(E, w.lifted)
      BY <2>5 DEF BaseEntries, MarkedIn
    <3>2. AddEntries(w, E) = [w EXCEPT !.maps = w.maps \cup E, !.pte = Mapped(w.pte, E),
                                      !.used = w.used \cup Names(E)]
      BY <1>0, <2>5, <3>1, AddStorable
    <3> QED BY <1>0, <3>2 DEF RecType
  <2>7. u = [AddEntries(w, E) EXCEPT !.stack = w.stack + k]
    BY <2>1, <2>6
  <2>8. k \in Nat /\ StackLow <= StackBottom - w.stack - k
    BY <1>0, <1>1, Numbers, SMTT(60) DEF low
  <2>9. BaseEntries(E, (StackBottom - w.stack - k)..(StackBottom - w.stack - 1), RW, "Stack")
    BY <2>5 DEF S, low
  <2>10. StackPages(E, w, k) /\ u = GrownBy(w, E, k)
    BY <2>5, <2>7, <2>8, <2>9 DEF StackPages, GrownBy
  <2> QED BY <2>10, StackGrown
<1>3. CASE v \in Grown(low - pg)
  <2>1. low - pg \in 0..(low - pg)
    BY <1>1
  <2> QED BY <2>1, <1>2, <1>3
<1>4. ASSUME NEW k \in 0..(low - pg - 1), NEW u \in Grown(k), v \in FailedAlloc(u)
      PROVE  v \in RecType /\ Sound(v, c)
  <2>1. k \in 0..(low - pg)
    BY <1>1
  <2>2. Sound(u, c)
    BY <2>1, <1>2, <1>4
  <2>3. Storable(u, c)
    BY <2>2 DEF Sound
  <2> QED BY <1>4, <2>2, <2>3, FailedAllocSound
<1>5. v \in Grown(low - pg)
        \cup UNION {FailedAlloc(u) : u \in UNION {Grown(k) : k \in 0..(low - pg - 1)}}
  BY DEF GrowStack
<1> HIDE DEF Grown, low
<1> QED BY <1>3, <1>4, <1>5

\* A fault below the break, and not where the stack grows, ends well.
LEMMA HeapFaultEnded ==
  ASSUME NEW w, NEW c, Sound(w, c), NEW pg \in Page, lookup_memory_map(w.maps, pg) = {},
         LazyAt(w, pg) = {}, ~(StackLow <= pg /\ pg < StackBottom - w.stack),
         NEW v \in map_fault_page(w, pg, RW, "Heap") \cup FailedAlloc(w)
  PROVE  Ended(v, w, c)
<1>0. Storable(w, c) /\ MapsOK(w.maps, w.lazy) /\ StackOK(w.maps, w.lazy, w.stack)
      /\ w.stack \in 0..(StackBottom - StackLow)
  BY DEF Sound, Storable, RecType
<1>1. pg \notin StackArea
  <2> SUFFICES ASSUME pg \in StackArea PROVE FALSE
    OBVIOUS
  <2>1. pg \in (StackBottom - w.stack)..(StackBottom - 1)
    BY <1>0, Numbers DEF StackArea
  <2>2. PICK e \in w.maps : e.vaddr = pg
    BY <1>0, <2>1 DEF StackOK
  <2>3. pg \in Span(e)
    BY <1>0, <2>2, SpanOf DEF MapsOK
  <2> QED BY <1>0, <2>3, Lookup
<1>2. Vacant({pg}, w.maps, w.lazy)
  BY <1>0, Lookup DEF Vacant, LazyAt
<1>3. RW \in Perms /\ "Heap" \in Kinds /\ "Heap" # "Stack"
  BY DEF RW, Perms, Kinds
<1>4. v \in RecType /\ Sound(v, c)
  BY <1>0, <1>1, <1>2, <1>3, FaultPageSound, FailedAllocSound
<1> QED BY <1>4, SoundEnded

-----------------------------------------------------------------------------
(***************************************************************************)
(* mremap                                                                  *)
(***************************************************************************)
\* Pages that mremap takes: base pages of anonymous mappings, mapped or lazy.
AllRemappable(w, a, n) == \A pg \in a..(a + n - 1) : Remappable(w, pg)

\* A remappable page has flags, in an entry or a lazy one.
LEMMA BaseFlagsPerms ==
  ASSUME NEW w, NEW c, Sound(w, c), NEW a, Remappable(w, a)
  PROVE  BaseFlags(w, a) \in Perms
<1>0. MapsOK(w.maps, w.lazy)
  BY DEF Sound, Storable
<1>1. \A e \in w.maps : e.flags \in Perms
  BY <1>0 DEF MapsOK, EntryType
<1>2. \A l \in w.lazy : l.flags \in Perms
  BY <1>0 DEF MapsOK, LazyType
<1>3. CASE \E e \in w.maps : e.vaddr = a
  <2>1. (CHOOSE e \in w.maps : e.vaddr = a) \in w.maps
    BY <1>3
  <2> QED BY <2>1, <1>1, <1>3 DEF BaseFlags
<1>4. CASE ~\E e \in w.maps : e.vaddr = a
  <2>1. \E l \in w.lazy : l.page = a
    BY <1>4 DEF Remappable
  <2>2. (CHOOSE l \in w.lazy : l.page = a) \in w.lazy
    BY <2>1
  <2> QED BY <2>2, <1>2, <1>4 DEF BaseFlags
<1> QED BY <1>3, <1>4

\* mremap in place onto free pages is sound.
LEMMA ExpandSound ==
  ASSUME NEW w, NEW c, Sound(w, c), NEW a \in Page, NEW n \in Nat \ {0}, NEW m \in Nat, m > n,
         AllRemappable(w, a, n), range_is_free(w, a, a + m, a..(a + n - 1))
  PROVE  Expand(w, a, n, m) \in RecType /\ Sound(Expand(w, a, n, m), c)
<1> DEFINE S == (a + n)..(a + m - 1)
           flags == BaseFlags(w, a)
           u == AddLazy(w, S, flags, "Anonymous")
<1>0. MapsOK(w.maps, w.lazy)
  BY DEF Sound, Storable
<1>1. a \in Nat /\ a + m \in Nat /\ a + m <= MmapLimit
      /\ ~has_overlap(a, a + m, StackLow, StackBottom - StackLow)
  BY Numbers DEF range_is_free
<1>2. S \in SUBSET Page /\ S \cap StackArea = {}
  BY <1>1, Numbers DEF has_overlap, StackArea
<1>3. \A e \in w.maps : Span(e) \cap S = {}
  <2> SUFFICES ASSUME NEW e \in w.maps, NEW x \in Span(e), x \in S PROVE FALSE
    OBVIOUS
  <2>1. e \in EntryType
    BY <1>0 DEF MapsOK
  <2>2. /\ e.vaddr \in Nat /\ e.pages \in Nat
        /\ x \in Int /\ e.vaddr <= x /\ x < e.vaddr + e.pages
    BY <2>1, SpanOf
  <2>3. has_overlap(a, a + m, e.vaddr, e.pages)
    BY <2>2, <1>1, SMTT(60) DEF has_overlap
  <2>4. Span(e) \subseteq a..(a + n - 1)
    BY <2>3 DEF range_is_free
  <2> QED BY <2>2, <2>4, <1>1
<1>4. Remappable(w, a)
  <2>1. a \in a..(a + n - 1)
    BY <1>1
  <2> QED BY <2>1 DEF AllRemappable
<1>5. flags \in Perms /\ "Anonymous" \in {"Anonymous", "FileBacked"}
  BY <1>4, BaseFlagsPerms
<1> HIDE DEF S, flags
<1>6. u \in RecType /\ Sound(u, c)
  BY <1>2, <1>3, <1>5, AddLazySound
<1>7. Expand(w, a, n, m) = AdvanceNext(u, a + m)
  BY DEF Expand, S, flags
<1> HIDE DEF u
<1> QED BY <1>1, <1>6, <1>7, AdvanceSound

\* An entry, and a lazy page, at its new place.
Shifted(e, a, t) == [e EXCEPT !.vaddr = e.vaddr - a + t, !.cow = FALSE]
ShiftedLazy(l, a, t) == [l EXCEPT !.page = l.page - a + t]

\* The record after the old entries and lazy pages gave way to the moved ones.
Relocated(w, old, kept, moved, lazies, movedLazies) ==
  Lifts([w EXCEPT !.maps = Insert(@ \ old, moved), !.lazy = (@ \ lazies) \cup movedLazies,
                  !.pte = Unmapped(Mapped(@, moved), Spans(old)),
                  !.lost = @ \cup {e.frame : e \in old \ kept}], moved)

\* Base pages that leave their places for pages nothing has.
Relocates(w, old, kept, moved, lazies, movedLazies, T) ==
  /\ old \subseteq w.maps /\ kept \subseteq old /\ moved \subseteq EntryType
  /\ lazies \subseteq w.lazy /\ movedLazies \subseteq LazyType
  /\ \A e \in old : e.kind # "Stack"
  /\ T \subseteq Page /\ T \cap StackArea = {}
  /\ Vacant(T, w.maps, w.lazy)
  /\ \A e \in moved : /\ e.vaddr \in T /\ Span(e) = {e.vaddr} /\ ~e.cow /\ e.kind # "Stack"
                      /\ \E d \in kept : d.frame = e.frame
  /\ \A d \in kept : \E e \in moved : e.frame = d.frame
  /\ \A d, e \in moved : d.frame = e.frame \/ d.vaddr = e.vaddr => d = e
  /\ \A l \in movedLazies : l.page \in T /\ \A e \in moved : e.vaddr # l.page
  /\ \A k, l \in movedLazies : k.page = l.page => k = l

\* Entries and lazy pages may move to a clear place, the cut ones being lost.
LEMMA RelocatedSound ==
  ASSUME NEW w, NEW c, Sound(w, c), NEW old, NEW kept, NEW moved, NEW lazies, NEW movedLazies,
         NEW T,
         Relocates(w, old, kept, moved, lazies, movedLazies, T)
  PROVE  LET v == Relocated(w, old, kept, moved, lazies, movedLazies)
         IN  /\ v \in RecType /\ Sound(v, c)
             /\ v.maps = (w.maps \ old) \cup moved
<1> DEFINE v == Relocated(w, old, kept, moved, lazies, movedLazies)
           m == (w.maps \ old) \cup moved
           l == (w.lazy \ lazies) \cup movedLazies
           mid == Mapped(w.pte, moved)
           t == Unmapped(mid, Spans(old))
           G == Names(old \ kept)
           F == {e.frame : e \in {d \in moved : "w" \in d.flags}}
           lift == w.lifted \cup F
<1>0. /\ w \in RecType /\ w.pte \in PteType /\ w.lifted \subseteq Frame /\ w.lost \subseteq Frame
      /\ MapsOK(w.maps, w.lazy) /\ StackOK(w.maps, w.lazy, w.stack)
      /\ FramesOK(Names(w.maps), w.refs, w.used, w.lost, c)
      /\ PteOK(w.maps, w.pte, w.lost) /\ CowOK(w.maps, w.pte, w.lost, w.lifted, c)
      /\ Uniform(w.maps, w.pte)
  BY DEF Sound, Storable, RecType
<1>1. /\ old \subseteq w.maps /\ kept \subseteq old /\ moved \subseteq EntryType
      /\ lazies \subseteq w.lazy /\ movedLazies \subseteq LazyType
      /\ \A e \in old : e.kind # "Stack"
      /\ T \subseteq Page /\ T \cap StackArea = {}
      /\ \A pg \in T : (\A d \in w.maps : pg \notin Span(d)) /\ (\A k \in w.lazy : k.page # pg)
      /\ \A e \in moved : /\ e.vaddr \in T /\ Span(e) = {e.vaddr} /\ ~e.cow /\ e.kind # "Stack"
                          /\ \E d \in kept : d.frame = e.frame
      /\ \A d \in kept : \E e \in moved : e.frame = d.frame
      /\ \A d, e \in moved : d.frame = e.frame \/ d.vaddr = e.vaddr => d = e
      /\ \A k \in movedLazies : k.page \in T /\ \A e \in moved : e.vaddr # k.page
      /\ \A j, k \in movedLazies : j.page = k.page => j = k
  BY DEF Relocates, Vacant
<1>2. Insert(w.maps \ old, moved) = m
  <2>1. \A d \in w.maps, e \in moved : e.vaddr # d.vaddr
    BY <1>0, <1>1, SpanOf DEF MapsOK
  <2> QED BY <2>1 DEF Insert
<1>3. /\ mid \in PteType
      /\ \A e \in moved, pg \in Page :
           pg \in Span(e) => mid[pg] = [frame |-> e.frame, perms |-> e.flags]
      /\ \A pg \in Page : (\A e \in moved : pg \notin Span(e)) => mid[pg] = w.pte[pg]
  <2>1. moved \in SUBSET EntryType /\ Apart(moved)
    BY <1>1 DEF Apart
  <2> QED BY <2>1, <1>0, MappedAt
<1> HIDE DEF mid
<1>4. t \in PteType /\ \A pg \in Page : t[pg] = IF pg \in Spans(old) THEN NoFrame ELSE mid[pg]
  BY <1>3, UnmappedAt
<1>5. \A pg \in Page : /\ (\E d \in old : pg \in Span(d)) => t[pg] = NoFrame
                       /\ (\A d \in old : pg \notin Span(d)) => t[pg] = mid[pg]
  BY <1>4 DEF Spans
<1> HIDE DEF t
<1>6. \A e \in moved : e.vaddr \in Page /\ t[e.vaddr] = [frame |-> e.frame, perms |-> e.flags]
  <2>1. \A e \in moved : e.vaddr \in Page /\ mid[e.vaddr] = [frame |-> e.frame, perms |-> e.flags]
    BY <1>1, <1>3
  <2>2. \A e \in moved : \A d \in old : e.vaddr \notin Span(d)
    BY <1>1
  <2>3. \A e \in moved : t[e.vaddr] = mid[e.vaddr]
    BY <2>1, <2>2, <1>5
  <2> QED BY <2>1, <2>3
<1>7. \A pg \in Page : (\A e \in moved : pg # e.vaddr) /\ (\A d \in old : pg \notin Span(d)) =>
        t[pg] = w.pte[pg]
  BY <1>1, <1>3, <1>5
<1>8. \A d \in w.maps \ old : \A pg \in Span(d) : pg \in Page /\ t[pg] = w.pte[pg]
  <2> SUFFICES ASSUME NEW d \in w.maps \ old, NEW pg \in Span(d)
               PROVE  pg \in Page /\ t[pg] = w.pte[pg]
    OBVIOUS
  <2>1. pg \in Page
    BY <1>0 DEF MapsOK
  <2>2. \A e \in moved : pg # e.vaddr
    BY <1>1
  <2>3. \A e \in old : pg \notin Span(e)
    BY <1>0, <1>1 DEF MapsOK
  <2> QED BY <2>1, <2>2, <2>3, <1>7
<1>9. MapsOK(m, l)
  <2>0. \A e \in moved : e \in EntryType /\ Span(e) = {e.vaddr} /\ Span(e) \subseteq Page
          /\ \E d \in old : d.frame = e.frame
    BY <1>1
  <2>1. m \subseteq EntryType /\ l \subseteq LazyType /\ \A e \in m : Span(e) \subseteq Page
    BY <1>0, <1>1, <2>0 DEF MapsOK
  <2>2. \A d, e \in moved : d # e => Span(d) \cap Span(e) = {} /\ d.frame # e.frame
    BY <1>1
  <2>3. \A d \in w.maps \ old, e \in moved : Span(d) \cap Span(e) = {} /\ d.frame # e.frame
    <3> SUFFICES ASSUME NEW d \in w.maps \ old, NEW e \in moved
                 PROVE  Span(d) \cap Span(e) = {} /\ d.frame # e.frame
      OBVIOUS
    <3>1. Span(d) \cap Span(e) = {}
      BY <1>1
    <3>2. PICK x \in old : x.frame = e.frame
      BY <2>0
    <3> QED BY <3>1, <3>2, <1>0, <1>1 DEF MapsOK
  <2>4. \A d, e \in w.maps \ old : d # e => Span(d) \cap Span(e) = {} /\ d.frame # e.frame
    BY <1>0 DEF MapsOK
  <2>5. \A d, e \in m : d # e => Span(d) \cap Span(e) = {} /\ d.frame # e.frame
    BY <2>2, <2>3, <2>4
  <2>6. \A k \in l : \A e \in m : k.page \notin Span(e)
    <3>1. \A k \in w.lazy : \A e \in w.maps : k.page \notin Span(e)
      BY <1>0 DEF MapsOK
    <3>2. \A k \in w.lazy : \A e \in moved : k.page \notin Span(e)
      BY <1>1
    <3>3. \A k \in movedLazies : \A e \in moved : k.page \notin Span(e)
      BY <1>1
    <3>4. \A k \in movedLazies : \A e \in w.maps : k.page \notin Span(e)
      BY <1>1
    <3> QED BY <3>1, <3>2, <3>3, <3>4
  <2>7. \A j, k \in l : j.page = k.page => j = k
    <3>1. \A j, k \in w.lazy : j.page = k.page => j = k
      BY <1>0 DEF MapsOK
    <3>2. \A j \in w.lazy, k \in movedLazies : j.page # k.page
      BY <1>1
    <3> QED BY <3>1, <3>2, <1>1
  <2> HIDE DEF m, l
  <2> QED BY <2>1, <2>5, <2>6, <2>7 DEF MapsOK
<1>10. StackOK(m, l, w.stack)
  <2>1. \A e \in m : \/ e.kind # "Stack" /\ Span(e) \cap StackArea = {}
                     \/ \E d \in w.maps : Span(d) = Span(e) /\ d.vaddr = e.vaddr /\ d.kind = e.kind
    BY <1>1
  <2>2. \A d \in w.maps : d.kind = "Stack" => \E e \in m : e.kind = "Stack" /\ e.vaddr = d.vaddr
    BY <1>1
  <2>3. \A k \in l : k.page \notin StackArea \/ \E j \in w.lazy : j.page = k.page
    BY <1>1
  <2> HIDE DEF m, l
  <2> QED BY <1>0, <2>1, <2>2, <2>3, StackKept
<1>11. FramesOK(Names(m), w.refs, w.used, w.lost \cup G, c)
  <2>1. \A d, e \in w.maps : d.frame = e.frame => d = e
    BY <1>0 DEF MapsOK
  <2>2. Names(m) = Names(w.maps) \ G
    <3>1. \A f \in Names(m) : f \in Names(w.maps) /\ f \notin G
      BY <1>1, <2>1 DEF Names
    <3>2. \A f \in Names(w.maps) \ G : f \in Names(m)
      <4> SUFFICES ASSUME NEW d \in w.maps, d.frame \notin G PROVE d.frame \in Names(m)
        BY DEF Names
      <4>1. d \in w.maps \ old \/ d \in kept
        BY DEF Names
      <4> QED BY <4>1, <1>1 DEF Names
    <3> QED BY <3>1, <3>2
  <2>3. G \in SUBSET Names(w.maps)
    BY <1>1 DEF Names
  <2> HIDE DEF G, m
  <2>4. FramesOK(Names(w.maps) \ G, w.refs, w.used, w.lost \cup G, c)
    BY <1>0, <2>3, FramesDropped
  <2> QED BY <2>2, <2>4
<1>12. PteOK(m, t, w.lost \cup G)
  <2> SUFFICES ASSUME NEW pg \in Page, t[pg] # NoFrame, t[pg].frame \notin w.lost
               PROVE  \E a \in m : pg \in Span(a) /\ (Own(a, pg) => a.frame = t[pg].frame)
    BY DEF PteOK
  <2>1. CASE \E e \in moved : pg = e.vaddr
    <3>1. PICK e \in moved : pg = e.vaddr
      BY <2>1
    <3>2. t[pg] = [frame |-> e.frame, perms |-> e.flags]
      BY <3>1, <1>6
    <3>3. t[pg].frame = e.frame
      BY <3>2
    <3> QED BY <3>1, <3>3, <1>1
  <2>2. CASE \A e \in moved : pg # e.vaddr
    <3>1. (\A d \in old : pg \notin Span(d)) /\ t[pg] = w.pte[pg]
      BY <2>2, <1>5, <1>7
    <3>2. PICK a \in w.maps : pg \in Span(a) /\ (Own(a, pg) => a.frame = t[pg].frame)
      BY <3>1, <1>0 DEF PteOK
    <3> QED BY <3>1, <3>2
  <2> QED BY <2>1, <2>2
<1>13. \A e \in moved : "w" \in e.flags => e.frame \in lift
  OBVIOUS
<1>14. lift \subseteq Frame /\ w.lifted \subseteq lift
  BY <1>0, <1>1 DEF EntryType
<1> HIDE DEF F, lift
<1>15. CowOK(m, t, w.lost \cup G, lift, c)
  <2>1. c.lifted \subseteq lift
    BY <1>0, <1>14 DEF CowOK
  <2>2. \A e \in m : "w" \in e.flags /\ ~e.cow /\ c.others[e.frame] # 0 => e.frame \in lift
    BY <1>0, <1>13, <1>14 DEF CowOK
  <2>3. ASSUME NEW e \in m, NEW pg \in Span(e), Writable(t, pg)
        PROVE  t[pg].frame = e.frame /\ (("w" \in e.flags /\ ~e.cow) \/ e.frame \in lift)
    <3>1. CASE e \in moved
      <4>1. pg = e.vaddr
        BY <3>1, <1>1
      <4>3. t[pg] = [frame |-> e.frame, perms |-> e.flags]
        BY <3>1, <4>1, <1>6
      <4>2. t[pg].frame = e.frame /\ t[pg].perms = e.flags
        BY <4>3
      <4> QED BY <2>3, <3>1, <4>2, <1>13 DEF Writable
    <3>2. CASE e \in w.maps \ old
      BY <2>3, <3>2, <1>0, <1>8, <1>14 DEF CowOK, Writable
    <3> QED BY <3>1, <3>2
  <2>4. ASSUME NEW pg \in Page, Writable(t, pg), \A e \in m : pg \notin Span(e)
        PROVE  /\ t[pg].frame \in w.lost \cup G /\ c.others[t[pg].frame] = 0
               /\ \A e \in m : e.frame # t[pg].frame
    <3>1. \A d \in old : pg \notin Span(d)
      BY <2>4, <1>5 DEF Writable
    <3>2. \A e \in moved : pg # e.vaddr
      BY <2>4, <1>1
    <3>3. t[pg] = w.pte[pg] /\ \A e \in w.maps : pg \notin Span(e)
      BY <3>1, <3>2, <2>4, <1>7
    <3>4. Writable(w.pte, pg)
      BY <2>4, <3>3 DEF Writable
    <3>5. /\ t[pg].frame \in w.lost /\ c.others[t[pg].frame] = 0
          /\ \A e \in w.maps : e.frame # t[pg].frame
      BY <3>3, <3>4, <1>0 DEF CowOK
    <3> QED BY <3>5, <1>1
  <2> HIDE DEF m
  <2> QED BY <2>1, <2>2, <2>3, <2>4 DEF CowOK
<1>16. Uniform(m, t)
  BY <1>0, <1>1, <1>8 DEF Uniform, Writable
<1>17. /\ m \in SUBSET EntryType /\ l \in SUBSET LazyType /\ w.lost \cup G \in SUBSET Frame
  BY <1>9, <1>11 DEF MapsOK, FramesOK
<1>18. v = [w EXCEPT !.maps = m, !.lazy = l, !.pte = t, !.lost = w.lost \cup G, !.lifted = lift]
  <2>1. {e.frame : e \in old \ kept} = G
    BY DEF Names
  <2> HIDE DEF G, m
  <2>2. [w EXCEPT !.maps = Insert(@ \ old, moved), !.lazy = (@ \ lazies) \cup movedLazies,
                  !.pte = Unmapped(Mapped(@, moved), Spans(old)),
                  !.lost = @ \cup {e.frame : e \in old \ kept}]
        = [w EXCEPT !.maps = m, !.lazy = l, !.pte = t, !.lost = w.lost \cup G]
    BY <1>2, <2>1 DEF t, mid
  <2> HIDE DEF l
  <2>3. [w EXCEPT !.maps = m, !.lazy = l, !.pte = t, !.lost = w.lost \cup G].lifted = w.lifted
    BY <1>0 DEF RecType
  <2> QED BY <2>2, <2>3, <1>0 DEF Relocated, Lifts, lift, F, RecType
<1> HIDE DEF v, m, l, G
<1>19. /\ v \in RecType /\ v.maps = m /\ v.lazy = l /\ v.stack = w.stack /\ v.pte = t
       /\ v.refs = w.refs /\ v.used = w.used /\ v.lost = w.lost \cup G /\ v.lifted = lift
  BY <1>0, <1>4, <1>14, <1>17, <1>18 DEF RecType
<1>20. Sound(v, c)
  BY <1>9, <1>10, <1>11, <1>12, <1>15, <1>16, <1>19 DEF Sound, Storable
<1> QED BY <1>19, <1>20 DEF v, m

\* A moved base page keeps frame, flags and kind, and loses its mark.
LEMMA ShiftedFields ==
  ASSUME NEW e \in EntryType, e.pages = 1, NEW a \in Nat, NEW t \in Nat, e.vaddr - a + t \in Page
  PROVE  /\ Shifted(e, a, t) \in EntryType /\ Shifted(e, a, t).vaddr = e.vaddr - a + t
         /\ Shifted(e, a, t).frame = e.frame /\ Shifted(e, a, t).kind = e.kind
         /\ Shifted(e, a, t).flags = e.flags /\ ~Shifted(e, a, t).cow
         /\ Span(Shifted(e, a, t)) = {e.vaddr - a + t}
<1> DEFINE d == Shifted(e, a, t)
<1>1. /\ d \in EntryType /\ d.vaddr = e.vaddr - a + t /\ d.frame = e.frame /\ d.kind = e.kind
      /\ d.flags = e.flags /\ ~d.cow /\ d.pages = 1
  BY DEF EntryType, Shifted
<1>2. e.vaddr - a + t \in Nat
  BY Numbers
<1> HIDE DEF d
<1>3. Span(d) = {e.vaddr - a + t}
  BY <1>1, <1>2 DEF Span
<1> QED BY <1>1, <1>3 DEF d

\* mremap to a free range is sound.
LEMMA MoveSound ==
  ASSUME NEW w, NEW c, Sound(w, c), NEW a \in Page, NEW n \in Nat \ {0}, NEW m \in Nat \ {0},
         NEW t \in Page, AllRemappable(w, a, n), range_is_free(w, t, t + m, {})
  PROVE  Move(w, a, n, m, t) \in RecType /\ Sound(Move(w, a, n, m, t), c)
<1> DEFINE old == {e \in w.maps : e.vaddr \in a..(a + n - 1)}
           kept == {e \in old : e.vaddr < a + m}
           moved == {Shifted(e, a, t) : e \in kept}
           lazies == {l \in w.lazy : l.page \in a..(a + n - 1)}
           keptLazies == {l \in lazies : l.page < a + m}
           movedLazies == {ShiftedLazy(l, a, t) : l \in keptLazies}
           T == t..(t + m - 1)
           S == (t + n)..(t + m - 1)
           flags == BaseFlags(w, a)
           u == Relocated(w, old, kept, moved, lazies, movedLazies)
<1>0. w \in RecType /\ MapsOK(w.maps, w.lazy)
  BY DEF Sound, Storable
<1>1. Room(w, t, m)
  BY FreeRoom
<1>2. /\ a \in Nat /\ t \in Nat /\ t + m \in Nat /\ t + m <= MmapLimit
      /\ T \subseteq Page /\ T \cap StackArea = {} /\ Vacant(T, w.maps, w.lazy)
  BY <1>1, Numbers DEF Room, Clear, Vacant
<1>3. \A d, e \in w.maps : d.vaddr = e.vaddr => d = e
  BY <1>0, UniqueAddress, SpanOf DEF MapsOK
<1>4. \A e \in old : e \in EntryType /\ e.vaddr \in Nat /\ e.pages = 1 /\ e.kind = "Anonymous"
  <2> SUFFICES ASSUME NEW e \in old
               PROVE  e \in EntryType /\ e.vaddr \in Nat /\ e.pages = 1 /\ e.kind = "Anonymous"
    OBVIOUS
  <2>1. Remappable(w, e.vaddr)
    BY DEF AllRemappable
  <2>2. e.pages = 1 /\ e.kind = "Anonymous"
    BY <2>1, <1>3 DEF Remappable
  <2> QED BY <2>2, <1>0, SpanOf DEF MapsOK
<1>5. \A e \in kept : /\ e \in old /\ e.vaddr \in Nat /\ e.vaddr - a + t \in T
                      /\ e.vaddr - a + t < t + n /\ e.vaddr - a + t \in Page
  <2> SUFFICES ASSUME NEW e \in kept
               PROVE  e.vaddr \in Nat /\ e.vaddr - a + t \in T /\ e.vaddr - a + t < t + n
    BY <1>2
  <2>1. e.vaddr \in Nat /\ a <= e.vaddr /\ e.vaddr < a + n /\ e.vaddr < a + m
    BY <1>2, <1>4
  <2> QED BY <2>1, <1>2, SMTT(60)
<1>6. \A d \in kept : LET e == Shifted(d, a, t)
                      IN  /\ e \in EntryType /\ e.vaddr = d.vaddr - a + t /\ e.frame = d.frame
                          /\ e.kind = "Anonymous" /\ ~e.cow /\ Span(e) = {e.vaddr}
  <2> HIDE DEF old, kept, T
  <2> SUFFICES ASSUME NEW d \in kept
               PROVE  LET e == Shifted(d, a, t)
                      IN  /\ e \in EntryType /\ e.vaddr = d.vaddr - a + t /\ e.frame = d.frame
                          /\ e.kind = "Anonymous" /\ ~e.cow /\ Span(e) = {e.vaddr}
    OBVIOUS
  <2>1. d \in EntryType /\ d.pages = 1 /\ d.kind = "Anonymous" /\ d.vaddr - a + t \in Page
    BY <1>4, <1>5
  <2> QED BY <2>1, <1>2, ShiftedFields
<1>7. \A l \in keptLazies : /\ l \in w.lazy /\ l \in LazyType /\ l.page \in Nat
                            /\ l.page - a + t \in T /\ l.page - a + t \in Page
  <2> SUFFICES ASSUME NEW l \in keptLazies
               PROVE  l \in LazyType /\ l.page \in Nat /\ l.page - a + t \in T
    BY <1>2
  <2>1. l \in LazyType
    BY <1>0 DEF MapsOK
  <2>2. l.page \in Nat
    BY <2>1, Numbers DEF LazyType
  <2>3. a <= l.page /\ l.page < a + n /\ l.page < a + m
    BY <1>2, <2>2
  <2> QED BY <2>1, <2>2, <2>3, <1>2
<1>8. \A l \in keptLazies : /\ ShiftedLazy(l, a, t) \in LazyType
                            /\ ShiftedLazy(l, a, t).page = l.page - a + t
  BY <1>7 DEF ShiftedLazy, LazyType
<1>9. old \subseteq w.maps /\ kept \subseteq old /\ lazies \subseteq w.lazy
  OBVIOUS
<1> HIDE DEF old, kept, lazies, keptLazies, T
<1>10. \A e \in moved : \E d \in kept :
         /\ e = Shifted(d, a, t) /\ e \in EntryType /\ e.vaddr = d.vaddr - a + t
         /\ e.frame = d.frame
         /\ e.kind = "Anonymous" /\ ~e.cow /\ Span(e) = {e.vaddr}
  BY <1>6
<1>11. \A l \in movedLazies : \E k \in keptLazies :
         l = ShiftedLazy(k, a, t) /\ l \in LazyType /\ l.page = k.page - a + t
  BY <1>8
<1>12. \A d \in kept : Shifted(d, a, t) \in moved
  OBVIOUS
<1> HIDE DEF moved, movedLazies
<1>13. Relocates(w, old, kept, moved, lazies, movedLazies, T)
  <2>1. moved \subseteq EntryType /\ movedLazies \subseteq LazyType
    BY <1>10, <1>11
  <2>2. \A e \in old : e.kind # "Stack"
    BY <1>4
  <2>3. \A e \in moved : /\ e.vaddr \in T /\ Span(e) = {e.vaddr} /\ ~e.cow /\ e.kind # "Stack"
                         /\ \E d \in kept : d.frame = e.frame
    BY <1>5, <1>10
  <2>4. \A d \in kept : \E e \in moved : e.frame = d.frame
    BY <1>6, <1>12
  <2>5. \A d, e \in moved : d.frame = e.frame \/ d.vaddr = e.vaddr => d = e
    <3> SUFFICES ASSUME NEW d \in moved, NEW e \in moved, d.frame = e.frame \/ d.vaddr = e.vaddr
                 PROVE  d = e
      OBVIOUS
    <3>1. PICK x \in kept : d = Shifted(x, a, t) /\ d.vaddr = x.vaddr - a + t /\ d.frame = x.frame
      BY <1>10
    <3>2. PICK y \in kept : e = Shifted(y, a, t) /\ e.vaddr = y.vaddr - a + t /\ e.frame = y.frame
      BY <1>10
    <3>3. x \in w.maps /\ y \in w.maps /\ x.vaddr \in Nat /\ y.vaddr \in Nat
      BY <1>5, <1>9
    <3>4. CASE d.frame = e.frame
      BY <3>1, <3>2, <3>3, <3>4, <1>0 DEF MapsOK
    <3>5. CASE d.vaddr = e.vaddr
      <4>1. x.vaddr = y.vaddr
        BY <3>1, <3>2, <3>3, <3>5, <1>2
      <4> QED BY <4>1, <3>1, <3>2, <3>3, <1>3
    <3> QED BY <3>4, <3>5
  <2>6. \A l \in movedLazies : l.page \in T /\ \A e \in moved : e.vaddr # l.page
    <3> SUFFICES ASSUME NEW l \in movedLazies
                 PROVE l.page \in T /\ \A e \in moved : e.vaddr # l.page
      OBVIOUS
    <3>1. PICK k \in keptLazies : l.page = k.page - a + t
      BY <1>11
    <3>2. k \in w.lazy /\ k.page \in Nat /\ l.page \in T
      BY <3>1, <1>7
    <3>3. ASSUME NEW e \in moved, e.vaddr = l.page PROVE FALSE
      <4>1. PICK y \in kept : e.vaddr = y.vaddr - a + t
        BY <1>10
      <4>2. y \in w.maps /\ y.vaddr \in Nat /\ y \in EntryType
        BY <1>4, <1>5, <1>9
      <4>3. y.vaddr = k.page
        BY <3>1, <3>2, <3>3, <4>1, <4>2, <1>2
      <4>4. y.vaddr \in Span(y)
        BY <4>2, SpanOf
      <4> QED BY <3>2, <4>2, <4>3, <4>4, <1>0 DEF MapsOK
    <3> QED BY <3>2, <3>3
  <2>7. \A k, l \in movedLazies : k.page = l.page => k = l
    <3> SUFFICES ASSUME NEW k \in movedLazies, NEW l \in movedLazies, k.page = l.page PROVE k = l
      OBVIOUS
    <3>1. PICK x \in keptLazies : k = ShiftedLazy(x, a, t) /\ k.page = x.page - a + t
      BY <1>11
    <3>2. PICK y \in keptLazies : l = ShiftedLazy(y, a, t) /\ l.page = y.page - a + t
      BY <1>11
    <3>3. x \in w.lazy /\ y \in w.lazy /\ x.page \in Nat /\ y.page \in Nat
      BY <1>7
    <3>4. x.page = y.page
      BY <3>1, <3>2, <3>3, <1>2
    <3> QED BY <3>1, <3>2, <3>3, <3>4, <1>0 DEF MapsOK
  <2> QED BY <1>2, <1>9, <2>1, <2>2, <2>3, <2>4, <2>5, <2>6, <2>7 DEF Relocates
<1>14. u \in RecType /\ Sound(u, c) /\ u.maps = (w.maps \ old) \cup moved
  BY <1>13, RelocatedSound
<1>15. S \subseteq T
  BY <1>2 DEF T
<1>16. \A e \in u.maps : Span(e) \cap S = {}
  <2>1. \A e \in w.maps : Span(e) \cap S = {}
    BY <1>2, <1>15 DEF Vacant
  <2>2. \A e \in moved : Span(e) \cap S = {}
    <3> SUFFICES ASSUME NEW e \in moved PROVE e.vaddr \notin S
      BY <1>10
    <3>1. PICK d \in kept : e.vaddr = d.vaddr - a + t
      BY <1>10
    <3>2. e.vaddr < t + n /\ d.vaddr \in Nat
      BY <3>1, <1>5
    <3> QED BY <3>1, <3>2, <1>2
  <2> QED BY <1>14, <2>1, <2>2
<1>17. flags \in Perms /\ "Anonymous" \in {"Anonymous", "FileBacked"}
  <2>1. a \in a..(a + n - 1)
    BY <1>2
  <2>2. Remappable(w, a)
    BY <2>1 DEF AllRemappable
  <2> QED BY <2>2, BaseFlagsPerms
<1>18. Move(w, a, n, m, t) = AdvanceNext(AddLazy(u, S, flags, "Anonymous"), t + m)
  <2>1. {[e EXCEPT !.vaddr = @ - a + t, !.cow = FALSE] : e \in kept} = moved
    BY DEF moved, Shifted
  <2>2. {[l EXCEPT !.page = @ - a + t] : l \in {k \in lazies : k.page < a + m}} = movedLazies
    BY DEF movedLazies, ShiftedLazy, keptLazies
  <2> QED BY <2>1, <2>2 DEF Move, Relocated, old, kept, lazies
<1> HIDE DEF S, flags, u
<1>19. S \in SUBSET Page /\ S \cap StackArea = {}
  BY <1>2, <1>15
<1>20. AddLazy(u, S, flags, "Anonymous") \in RecType /\ Sound(AddLazy(u, S, flags, "Anonymous"), c)
  BY <1>14, <1>16, <1>17, <1>19, AddLazySound
<1> QED BY <1>2, <1>18, <1>20, AdvanceSound

\* mremap without moving is sound: shrinking, growing or refusing.
LEMMA RemapInPlaceSound ==
  ASSUME NEW w, NEW c, Sound(w, c), NEW a \in Page, NEW n \in Nat \ {0}, NEW m \in Nat \ {0},
         AllRemappable(w, a, n), NEW v \in RemapInPlace(w, a, n, m)
  PROVE  v \in RecType /\ Sound(v, c)
<1>0. a \in Nat /\ w \in RecType /\ a + m \in Int /\ a + n \in Int
  BY Numbers DEF Sound, Storable
<1>1. CASE v \in do_munmap(w, a + m, a + n)
  BY <1>0, <1>1, MunmapSound
<1>2. CASE m > n /\ range_is_free(w, a, a + m, a..(a + n - 1)) /\ v = Expand(w, a, n, m)
  BY <1>2, ExpandSound
<1>3. CASE v = w
  BY <1>0, <1>3
<1> QED BY <1>1, <1>2, <1>3 DEF RemapInPlace

\* mremap to a given place is sound: moving or refusing.
LEMMA RemapToSound ==
  ASSUME NEW w, NEW c, Sound(w, c), NEW a \in Page, NEW n \in Nat \ {0}, NEW m \in Nat \ {0},
         NEW t \in Page, AllRemappable(w, a, n), NEW v \in RemapTo(w, a, n, m, t)
  PROVE  v \in RecType /\ Sound(v, c)
<1>1. w \in RecType
  BY DEF Sound, Storable
<1>2. CASE range_is_free(w, t, t + m, {}) /\ v = Move(w, a, n, m, t)
  BY <1>2, MoveSound
<1>3. CASE v = w
  BY <1>1, <1>3
<1> QED BY <1>2, <1>3 DEF RemapTo

-----------------------------------------------------------------------------
(***************************************************************************)
(* exit and execve                                                         *)
(***************************************************************************)
Tls == TlsStart..(TlsStart + TlsPages - 1)

\* An address space with nothing lazy, whose entries leave the place of the
\* thread-local storage free.
TlsFree(w) == w.lazy = {} /\ \A e \in w.maps : Span(e) \cap Tls = {}

Loaded(w, c, lift) == /\ w \in RecType /\ Sound(w, c) /\ TlsFree(w)
                      /\ w.stack = 0 /\ w.lifted = lift

\* Everything is released: the process holds nothing, mapped or lazy.
Released(w) == [ReleaseAll(w) EXCEPT !.stack = 0]

\* Releasing everything leaves an empty sound record.
LEMMA ReleasedSound ==
  ASSUME NEW w, NEW c, Storable(w, c)
  PROVE  /\ Loaded(Released(w), c, w.lifted) /\ Released(w).maps = {}
         /\ ReleaseAll(w) \in RecType /\ Released(w).pte = ReleaseAll(w).pte
<1> DEFINE v == Released(w)
           u == ReleaseAll(w)
           G == w.maps
           r == [f \in Frame |-> IF f \in Names(G) THEN IF w.refs[f] > 1 THEN w.refs[f] - 1 ELSE 0
                                 ELSE w.refs[f]]
           V == {f \in w.used : f \notin Names(G) \/ w.refs[f] > 1}
           t == Unmapped(w.pte, Spans(G))
<1>0. w \in RecType /\ Parts(w.maps, w.lazy, w.refs, w.used, w.lost, w.lifted, w.pte, c)
  BY StorableParts
<1>1. u = [w EXCEPT !.maps = {}, !.lazy = {}, !.pte = t, !.refs = r, !.used = V]
  <2>1. w.used \subseteq Frame
    BY <1>0 DEF RecType
  <2>2. \A f \in Frame : Once(G)[f] = IF f \in Names(G) THEN 1 ELSE 0
    BY DEF Once, Names
  <2>3. [f \in Frame |-> IF Once(G)[f] = 0 THEN w.refs[f]
                         ELSE IF w.refs[f] > Once(G)[f] THEN w.refs[f] - Once(G)[f] ELSE 0] = r
    BY <2>2
  <2>4. {f \in w.used : Once(G)[f] = 0 \/ w.refs[f] > Once(G)[f]} = V
    BY <2>1, <2>2
  <2> HIDE DEF r, V
  <2>5. release_process_frame_slot(w, Once(G)) = [w EXCEPT !.refs = r, !.used = V]
    BY <2>3, <2>4 DEF release_process_frame_slot
  <2>6. u = [[w EXCEPT !.refs = r, !.used = V] EXCEPT
               !.maps = {}, !.lazy = {}, !.pte = Unmapped(@, Spans(w.maps))]
    BY <2>5 DEF ReleaseAll
  <2> QED BY <2>6, <1>0 DEF RecType
<1>2. G \in SUBSET w.maps /\ {} \in SUBSET w.lazy /\ w.maps \ G = {}
  OBVIOUS
<1>3. Parts(w.maps \ G, {}, r, V, w.lost, w.lifted, t, c)
  BY <1>0, <1>2, PartsRemove, ZenonT(60)
<1>4. Parts({}, {}, r, V, w.lost, w.lifted, t, c)
  BY <1>2, <1>3
<1>5. r \in [Frame -> Nat] /\ V \in SUBSET Frame /\ t \in PteType
      /\ 0 \in 0..(StackBottom - StackLow)
  BY <1>4, Numbers DEF Parts, FramesOK
<1> HIDE DEF r, V, t, u
<1>6. u \in RecType
  BY <1>0, <1>1, <1>5 DEF RecType
<1>7. v = [u EXCEPT !.stack = 0]
  BY DEF Released, u
<1> HIDE DEF v
<1>8. /\ v \in RecType /\ v.maps = {} /\ v.lazy = {} /\ v.stack = 0 /\ v.pte = t /\ v.refs = r
      /\ v.used = V /\ v.lost = w.lost /\ v.lifted = w.lifted /\ u.pte = t
  BY <1>0, <1>1, <1>5, <1>6, <1>7 DEF RecType
<1>9. StackOK({}, {}, 0)
  BY <1>5, Numbers DEF StackOK
<1>10. Sound(v, c)
  <2>1. Storable(v, c)
    BY <1>4, <1>8, <1>9, StorableParts
  <2> QED BY <2>1, <1>8 DEF Sound, Uniform
<1> QED BY <1>6, <1>8, <1>10 DEF Loaded, TlsFree, v, u

\* What is left of a process that exits.
LEMMA TerminatedSound ==
  ASSUME NEW w, NEW c, Storable(w, c),
         NEW v, v = [FreshScalars(ReleaseAll(w)) EXCEPT !.pte = [pg \in Page |-> NoFrame]]
  PROVE  v \in RecType /\ Sound(v, c) /\ v.maps = {}
<1> DEFINE y == ReleaseAll(w)
           u == Released(w)
           x == UnmapPages(u, Page)
<1>1. /\ u \in RecType /\ Sound(u, c) /\ u.maps = {} /\ y \in RecType /\ u = [y EXCEPT !.stack = 0]
      /\ u.stack = 0
  BY ReleasedSound DEF Loaded, Released
<1>2. Storable(u, c)
  BY <1>1 DEF Sound
<1> HIDE DEF u, y
<1>3. Unmapped(u.pte, Page) = [pg \in Page |-> NoFrame]
  BY DEF Unmapped
<1>4. x = [u EXCEPT !.pte = [pg \in Page |-> NoFrame]]
  BY <1>3 DEF UnmapPages
<1>5. x \in RecType /\ Storable(x, c)
  BY <1>2, UnmapStorable
<1>6. HeapStart \in Breaks /\ MmapBase \in MmapBase..MmapLimit
  BY Numbers
<1>7. v = [x EXCEPT !.brk = HeapStart, !.next = MmapBase]
  <2>1. v = [[y EXCEPT !.brk = HeapStart, !.next = MmapBase, !.stack = 0] EXCEPT
               !.pte = [pg \in Page |-> NoFrame]]
    BY DEF FreshScalars, y
  <2> QED BY <2>1, <1>1, <1>4 DEF RecType
<1> HIDE DEF x
<1>8. /\ v \in RecType /\ v.maps = x.maps /\ v.lazy = x.lazy /\ v.stack = x.stack /\ v.pte = x.pte
      /\ v.refs = x.refs /\ v.used = x.used /\ v.lost = x.lost /\ v.lifted = x.lifted
  BY <1>5, <1>6, <1>7 DEF RecType
<1>9. x.maps = {}
  BY <1>1, <1>4 DEF RecType
<1>10. Storable(v, c)
  BY <1>5, <1>8, SoundCopy
<1> QED BY <1>8, <1>9, <1>10 DEF Sound, Uniform

\* Frames allocated and forgotten.
ForgetAll(w, F) == [w EXCEPT !.used = w.used \cup F, !.lost = w.lost \cup F]

\* Frames allocated and named by nobody are lost, and nothing else changes.
LEMMA ForgetAllSound ==
  ASSUME NEW w, NEW c, Sound(w, c), NEW F \in SUBSET (Frame \ w.used)
  PROVE  LET v == ForgetAll(w, F)
         IN  /\ v \in RecType /\ Sound(v, c) /\ v.maps = w.maps /\ v.lazy = w.lazy
             /\ v.stack = w.stack /\ v.lifted = w.lifted
<1> DEFINE v == ForgetAll(w, F)
<1>0. w \in RecType /\ MapsOK(w.maps, w.lazy) /\ StackOK(w.maps, w.lazy, w.stack)
      /\ FramesOK(Names(w.maps), w.refs, w.used, w.lost, c) /\ Uniform(w.maps, w.pte)
      /\ PteOK(w.maps, w.pte, w.lost) /\ CowOK(w.maps, w.pte, w.lost, w.lifted, c)
  BY DEF Sound, Storable
<1>1. /\ v \in RecType /\ v.maps = w.maps /\ v.lazy = w.lazy /\ v.stack = w.stack /\ v.pte = w.pte
      /\ v.refs = w.refs /\ v.used = w.used \cup F /\ v.lost = w.lost \cup F /\ v.lifted = w.lifted
  BY <1>0 DEF RecType, ForgetAll
<1>2. FramesOK(Names(w.maps), w.refs, w.used \cup F, w.lost \cup F, c)
  BY <1>0, FramesForgotten
<1>3. PteOK(w.maps, w.pte, w.lost \cup F) /\ CowOK(w.maps, w.pte, w.lost \cup F, w.lifted, c)
  BY <1>0 DEF PteOK, CowOK
<1>4. Sound(v, c)
  BY <1>0, <1>1, <1>2, <1>3 DEF Sound, Storable
<1> QED BY <1>1, <1>4

\* The image's pages are base pages out of the stack's area and of the storage.
LEMMA ImagePages ==
  ASSUME ImageClear
  PROVE  \A i \in 1..Len(Image) :
           /\ Image[i][1] \in Page /\ Image[i][2] \in Perms
           /\ Image[i][1] \notin StackArea /\ Image[i][1] \notin Tls
<1>1. DOMAIN Image = 1..Len(Image) /\ \A i \in DOMAIN Image : Image[i] \in Page \X Perms
  BY ImageAssumption
<1> QED BY <1>1 DEF ImageClear, StackArea, Tls

\* Loading any prefix of the image is sound; a page loaded twice loses its first frame.
LEMMA LoadSound ==
  ASSUME ImageClear, NEW w, NEW c, NEW lift, Loaded(w, c, lift), w.maps = {},
         NEW k \in 0..Len(Image), NEW v \in load_elf_into_process(w, k)
  PROVE  Loaded(v, c, lift)
<1> DEFINE kept == {i \in 1..k : \A j \in (i + 1)..k : Image[j][1] # Image[i][1]}
<1>0. w \in RecType /\ Sound(w, c) /\ w.lazy = {} /\ w.used \subseteq Frame /\ w.stack = 0
      /\ w.lifted = lift
  BY DEF Loaded, TlsFree, RecType
<1>1. PICK g \in Assignments(1..k, Frame \ w.used) :
        v = [AddEntries(w, {Entry(Image[i][1], 1, g[i], Image[i][2], "Image") : i \in kept})
               EXCEPT !.used = @ \cup {g[i] : i \in 1..k},
                 !.lost = @ \cup {g[i] : i \in (1..k) \ kept}]
  BY DEF load_elf_into_process
<1>2. /\ g \in [1..k -> Frame \ w.used]
      /\ \A a, b \in 1..k : g[a] = g[b] => a = b
  BY DEF Assignments, Injection, IsInjective
<1> DEFINE Load(i) == Entry(Image[i][1], 1, g[i], Image[i][2], "Image")
           E == {Load(i) : i \in kept}
           F == {g[i] : i \in (1..k) \ kept}
           u == AddEntries(w, E)
<1>3. \A i \in 1..k : i \in 1..Len(Image)
  <2>1. Len(Image) \in Nat
    BY ImageAssumption
  <2> QED BY <2>1
<1>4. kept \subseteq 1..k /\ \A i, j \in kept : Image[i][1] = Image[j][1] => i = j
  <2> SUFFICES ASSUME NEW i \in kept, NEW j \in kept, i < j, Image[i][1] = Image[j][1] PROVE FALSE
    OBVIOUS
  <2>1. j \in (i + 1)..k
    OBVIOUS
  <2> QED BY <2>1
<1> HIDE DEF kept
<1>5. \A i \in kept :
        /\ Load(i) \in EntryType /\ Load(i).vaddr = Image[i][1] /\ Load(i).frame = g[i]
                      /\ ~Load(i).cow /\ Load(i).kind = "Image" /\ Span(Load(i)) = {Image[i][1]}
                      /\ g[i] \in Frame \ w.used /\ Image[i][1] \in Page
                      /\ Image[i][1] \notin StackArea /\ Image[i][1] \notin Tls
  <2> SUFFICES ASSUME NEW i \in kept
               PROVE  /\ Load(i) \in EntryType /\ Load(i).vaddr = Image[i][1]
                      /\ Load(i).frame = g[i]
                      /\ ~Load(i).cow /\ Load(i).kind = "Image" /\ Span(Load(i)) = {Image[i][1]}
                      /\ g[i] \in Frame \ w.used /\ Image[i][1] \in Page
                      /\ Image[i][1] \notin StackArea /\ Image[i][1] \notin Tls
    OBVIOUS
  <2>1. /\ Image[i][1] \in Page /\ Image[i][2] \in Perms /\ g[i] \in Frame \ w.used
        /\ Image[i][1] \notin StackArea /\ Image[i][1] \notin Tls
    BY <1>2, <1>3, <1>4, ImagePages
  <2> DEFINE x == Image[i][1]
             fl == Image[i][2]
             h == g[i]
  <2>2. x \in Page /\ fl \in Perms /\ h \in Frame /\ Load(i) = Entry(x, 1, h, fl, "Image")
    BY <2>1
  <2> HIDE DEF x, fl, h, Load
  <2>3. /\ Load(i) \in EntryType /\ Load(i).vaddr = x /\ Load(i).frame = h
        /\ ~Load(i).cow /\ Load(i).kind = "Image" /\ Span(Load(i)) = {x}
    BY <2>2, Numbers DEF Entry, EntryType, Span, Kinds
  <2> QED BY <2>1, <2>3 DEF x, h
<1> HIDE DEF Load
<1>6. Fresh(E, w.maps, w.lazy, w.used) /\ MarkedIn(E, w.lifted) /\ OffStack(E)
  <2>1. \A e \in E : \E i \in kept : e = Load(i)
    OBVIOUS
  <2> HIDE DEF E
  <2>2. \A e \in E : e \in EntryType /\ Span(e) \subseteq Page /\ e.frame \notin w.used
    BY <2>1, <1>5
  <2>3. \A d, e \in E : d # e => Span(d) \cap Span(e) = {} /\ d.frame # e.frame
    BY <2>1, <1>2, <1>4, <1>5
  <2>4. MarkedIn(E, w.lifted) /\ OffStack(E)
    BY <2>1, <1>5 DEF MarkedIn, OffStack
  <2> QED BY <2>2, <2>3, <2>4, <1>0 DEF Fresh
<1>7. /\ u \in RecType /\ Sound(u, c) /\ u.maps = E /\ u.used = w.used \cup Names(E)
      /\ u = [w EXCEPT !.maps = w.maps \cup E, !.pte = Mapped(w.pte, E),
                       !.used = w.used \cup Names(E)]
  <2> HIDE DEF E
  <2>1. Storable(w, c)
    BY <1>0 DEF Sound
  <2>2. u \in RecType /\ Sound(u, c)
    BY <1>0, <1>6, AddSound
  <2>3. /\ u.maps = w.maps \cup E /\ u.used = w.used \cup Names(E)
        /\ u = [w EXCEPT !.maps = w.maps \cup E, !.pte = Mapped(w.pte, E),
                         !.used = w.used \cup Names(E)]
    BY <1>6, <2>1, AddStorable
  <2>4. w.maps \cup E = E
    OBVIOUS
  <2> HIDE DEF u
  <2> QED BY <2>2, <2>3, <2>4
<1>8. Names(E) = {g[i] : i \in kept}
  <2>1. Names(E) = {Load(i).frame : i \in kept}
    BY DEF Names
  <2> QED BY <2>1, <1>5
<1> HIDE DEF u
<1>9. v = ForgetAll(u, F)
  <2>1. w.used \cup Names(E) \cup {g[i] : i \in 1..k} = w.used \cup Names(E) \cup F
    BY <1>4, <1>8
  <2>2. v = [u EXCEPT !.used = @ \cup {g[i] : i \in 1..k}, !.lost = @ \cup F]
    BY <1>1 DEF u, Load
  <2> HIDE DEF F, E
  <2>3. u.used \cup {g[i] : i \in 1..k} = u.used \cup F
    BY <1>7, <2>1
  <2> QED BY <2>2, <2>3 DEF ForgetAll
<1>10. F \in SUBSET (Frame \ u.used)
  <2>1. \A i \in (1..k) \ kept : g[i] \in Frame \ w.used /\ g[i] \notin {g[j] : j \in kept}
    BY <1>2, <1>4
  <2> QED BY <2>1, <1>7, <1>8
<1>11. u.lazy = w.lazy /\ u.stack = w.stack /\ u.lifted = w.lifted
  BY <1>0, <1>7 DEF RecType
<1>12. \A e \in E : Span(e) \cap Tls = {}
  BY <1>5
<1> HIDE DEF F, E
<1>13. /\ v \in RecType /\ Sound(v, c) /\ v.maps = u.maps /\ v.lazy = u.lazy /\ v.stack = u.stack
       /\ v.lifted = u.lifted
  BY <1>7, <1>9, <1>10, ForgetAllSound
<1> QED BY <1>0, <1>7, <1>11, <1>12, <1>13 DEF Loaded, TlsFree

\* The record with the image loaded and the scalars reset is sound.
LEMMA ImagesSound ==
  ASSUME ImageClear, NEW w, NEW c, NEW lift, Loaded(w, c, lift), w.maps = {}, NEW v \in Images(w)
  PROVE  Loaded(v, c, lift)
<1>1. PICK u \in load_elf_into_process(w, Len(Image)) : v = FreshScalars(u)
  BY DEF Images
<1>2. Len(Image) \in 0..Len(Image)
  <2>1. Len(Image) \in Nat
    BY ImageAssumption
  <2> QED BY <2>1
<1>3. Loaded(u, c, lift)
  BY <1>2, LoadSound
<1>4. /\ u \in RecType /\ Sound(u, c) /\ u.stack = 0 /\ TlsFree(u) /\ u.lifted = lift
  BY <1>3 DEF Loaded
<1>5. HeapStart \in Breaks /\ MmapBase \in MmapBase..MmapLimit
      /\ 0 \in 0..(StackBottom - StackLow)
  BY Numbers
<1>6. /\ v \in RecType /\ v.maps = u.maps /\ v.lazy = u.lazy /\ v.stack = u.stack /\ v.pte = u.pte
      /\ v.refs = u.refs /\ v.used = u.used /\ v.lost = u.lost /\ v.lifted = u.lifted
  BY <1>1, <1>4, <1>5 DEF FreshScalars, RecType
<1>7. Sound(v, c)
  BY <1>4, <1>6, SoundCopy
<1> QED BY <1>4, <1>6, <1>7 DEF Loaded, TlsFree

\* A place for one entry of n pages.
Place(w, v, n) ==
  /\ v \in Page /\ n \in Nat \ {0} /\ v + n - 1 \in Page
  /\ Vacant(v..(v + n - 1), w.maps, w.lazy)

\* Such an entry, with a frame of its own.
NewEntry(e, w, v, n, f, flags, kind) ==
  /\ Fresh({e}, w.maps, w.lazy, w.used) /\ MarkedIn({e}, w.lifted)
  /\ Span(e) = v..(v + n - 1) /\ e.kind = kind /\ e.vaddr = v /\ e.frame = f /\ ~e.cow
  /\ e.flags = flags /\ e \in EntryType /\ e.pages = n

\* An entry with a fresh frame at a vacant place has the fields AddSound asks for.
LEMMA OneEntry ==
  ASSUME NEW w, w \in RecType, NEW v, NEW n, Place(w, v, n),
         NEW f \in Candidates(Frame \ w.used), NEW flags \in Perms, NEW kind \in Kinds
  PROVE  NewEntry(Entry(v, n, f, flags, kind), w, v, n, f, flags, kind)
<1> DEFINE e == Entry(v, n, f, flags, kind)
<1>0. /\ v \in Page /\ n \in Nat \ {0} /\ v + n - 1 \in Page
      /\ Vacant(v..(v + n - 1), w.maps, w.lazy)
  BY DEF Place
<1>1. f \in Frame /\ f \notin w.used
  BY FreeFrame
<1>2. v \in Nat /\ n \in 1..(MaxPage + 1) /\ v..(v + n - 1) \subseteq Page
  BY <1>0, Numbers
<1>3. /\ e \in EntryType /\ Span(e) = v..(v + n - 1) /\ e.frame = f /\ ~e.cow /\ e.kind = kind
      /\ e.vaddr = v /\ e.flags = flags /\ e.pages = n
  BY <1>0, <1>1, <1>2 DEF Entry, EntryType, Span
<1> HIDE DEF e
<1>4. \A d \in w.maps : Span(d) \cap Span(e) = {}
  BY <1>0, <1>3 DEF Vacant
<1>5. \A l \in w.lazy : l.page \notin Span(e)
  BY <1>0, <1>3 DEF Vacant
<1>6. Fresh({e}, w.maps, w.lazy, w.used)
  BY <1>1, <1>2, <1>3, <1>4, <1>5 DEF Fresh
<1>7. NewEntry(e, w, v, n, f, flags, kind)
  BY <1>3, <1>6 DEF MarkedIn, NewEntry
<1> QED BY <1>7 DEF e

\* The image leaves the top page of the stack free, which is not thread storage.
LEMMA StackPageFree ==
  ASSUME NEW w, NEW c, NEW lift, Loaded(w, c, lift)
  PROVE  Place(w, StackBottom - 1, 1) /\ StackBottom - 1 \notin Tls
<1>0. Sound(w, c) /\ w.stack = 0
  BY DEF Loaded
<1>1. StackBottom - 1 \in StackArea /\ StackBottom - 1 \in Page
      /\ StackBottom - 1 + 1 - 1 = StackBottom - 1
      /\ (StackBottom - 1)..(StackBottom - 1) = {StackBottom - 1}
      /\ StackBottom - 1 < StackBottom - 0
  BY Numbers DEF StackArea
<1>2. StackBottom - 1 \notin Tls
  BY <1>1, LayoutAssumption DEF StackArea, Tls
<1>3. {StackBottom - 1} \in SUBSET StackArea
      /\ \A pg \in {StackBottom - 1} : pg < StackBottom - w.stack
  BY <1>0, <1>1
<1>4. Vacant({StackBottom - 1}, w.maps, w.lazy)
  BY <1>0, <1>3, BelowStack
<1> DEFINE I == (StackBottom - 1)..(StackBottom - 1 + 1 - 1)
<1>5. I = {StackBottom - 1}
  BY <1>1
<1>6. Vacant(I, w.maps, w.lazy)
  BY <1>4, <1>5
<1> QED BY <1>1, <1>2, <1>6 DEF Place

\* Thread storage is vacant and off the stack until it is set up.
LEMMA TlsPlace ==
  ASSUME NEW w, TlsFree(w)
  PROVE  Place(w, TlsStart, TlsPages) /\ Tls \cap StackArea = {}
BY LayoutAssumption DEF TlsFree, Vacant, Tls, StackArea, Place

\* Setting up the stack is sound and leaves thread storage free.
LEMMA InitialStackSound ==
  ASSUME NEW w, NEW c, NEW lift, Loaded(w, c, lift), NEW v \in setup_initial_stack(w)
  PROVE  v \in RecType /\ Sound(v, c) /\ TlsFree(v) /\ v.lifted = lift
<1>0. w \in RecType /\ Sound(w, c) /\ w.stack = 0 /\ TlsFree(w) /\ w.lifted = lift
  BY DEF Loaded
<1>1. PICK f \in Candidates(Frame \ w.used) :
        v = [AddEntries(w, {Entry(StackBottom - 1, 1, f, RW, "Stack")}) EXCEPT !.stack = 1]
  BY DEF setup_initial_stack
<1> DEFINE top == StackBottom - 1
           one == 1
           e == Entry(top, one, f, RW, "Stack")
<1>2. RW \in Perms /\ "Stack" \in Kinds
  BY DEF RW, Perms, Kinds
<1>3. /\ Fresh({e}, w.maps, w.lazy, w.used) /\ e.kind = "Stack" /\ e.vaddr = top /\ ~e.cow
      /\ e.flags = RW /\ Span(e) = top..(top + one - 1)
  <2>1. Place(w, top, one)
    BY StackPageFree
  <2> HIDE DEF top, one
  <2>2. NewEntry(Entry(top, one, f, RW, "Stack"), w, top, one, f, RW, "Stack")
    BY <1>0, <1>2, <2>1, OneEntry
  <2> QED BY <2>2 DEF NewEntry
<1>4. /\ Span(e) = {StackBottom - 1} /\ StackLow <= StackBottom - w.stack - 1
      /\ (StackBottom - w.stack - 1)..(StackBottom - w.stack - 1) = {StackBottom - 1}
  BY <1>0, <1>3, Numbers
<1> HIDE DEF e
<1>5. BaseEntries({e}, (StackBottom - w.stack - 1)..(StackBottom - w.stack - 1), RW, "Stack")
  BY <1>3, <1>4 DEF BaseEntries
<1>6. v = [AddEntries(w, {e}) EXCEPT !.stack = w.stack + 1]
  BY <1>0, <1>1 DEF e
<1>7. /\ v \in RecType /\ Sound(v, c) /\ v.maps = w.maps \cup {e} /\ v.lazy = w.lazy
      /\ v.lifted = w.lifted
  <2> DEFINE E == {e}
  <2>1. one \in Nat /\ StackLow <= StackBottom - w.stack - one
    BY <1>4
  <2>3. BaseEntries(E, (StackBottom - w.stack - one)..(StackBottom - w.stack - 1), RW, "Stack")
    BY <1>5
  <2>4. v = [AddEntries(w, E) EXCEPT !.stack = w.stack + one]
    BY <1>6
  <2>5. Fresh(E, w.maps, w.lazy, w.used)
    BY <1>3
  <2> HIDE DEF one, E
  <2>2. /\ v \in RecType /\ Sound(v, c) /\ v.maps = w.maps \cup E /\ v.lazy = w.lazy
        /\ v.lifted = w.lifted
    <3>1. StackPages(E, w, one) /\ v = GrownBy(w, E, one)
      BY <2>1, <2>3, <2>4, <2>5 DEF StackPages, GrownBy
    <3> QED BY <1>0, <3>1, StackGrown
  <2> QED BY <2>2 DEF E
<1>8. Span(e) \cap Tls = {}
  BY <1>4, StackPageFree
<1> QED BY <1>0, <1>7, <1>8 DEF TlsFree

\* Setting up thread storage is sound.
LEMMA InitialTlsSound ==
  ASSUME NEW w, NEW c, Sound(w, c), TlsFree(w), NEW v \in setup_initial_tls(w)
  PROVE  v \in RecType /\ Sound(v, c) /\ v.lazy = {} /\ v.lifted = w.lifted
<1>0. w \in RecType
  BY DEF Sound, Storable
<1>1. PICK f \in Candidates(Frame \ w.used) :
        v = AddEntries(w, {Entry(TlsStart, TlsPages, f, RW, "Anonymous")})
  BY DEF setup_initial_tls
<1> DEFINE e == Entry(TlsStart, TlsPages, f, RW, "Anonymous")
<1>2. RW \in Perms /\ "Anonymous" \in Kinds
  BY DEF RW, Perms, Kinds
<1>3. /\ Fresh({e}, w.maps, w.lazy, w.used) /\ e.kind = "Anonymous" /\ MarkedIn({e}, w.lifted)
      /\ Span(e) = TlsStart..(TlsStart + TlsPages - 1)
  <2>1. Place(w, TlsStart, TlsPages)
    BY TlsPlace
  <2>2. NewEntry(e, w, TlsStart, TlsPages, f, RW, "Anonymous")
    BY <1>0, <1>2, <2>1, OneEntry
  <2> HIDE DEF e
  <2> QED BY <2>2 DEF NewEntry
<1>4. OffStack({e})
  BY <1>3, TlsPlace DEF OffStack, Tls
<1>5. v = AddEntries(w, {e})
  BY <1>1
<1> HIDE DEF e
<1>6. v \in RecType /\ Sound(v, c)
  BY <1>3, <1>4, <1>5, AddSound
<1>7. v = [w EXCEPT !.maps = w.maps \cup {e}, !.pte = Mapped(w.pte, {e}),
                    !.used = w.used \cup Names({e})]
  <2>1. Storable(w, c)
    BY DEF Sound
  <2> QED BY <1>3, <1>5, <2>1, AddStorable
<1> QED BY <1>0, <1>6, <1>7 DEF TlsFree, RecType

\* A frame nobody names is mapped writable at a place that is vacant: what a step
\* leaves that fails after its frame is in the page table.
MapOnly(w, e) == [w EXCEPT !.pte = Mapped(w.pte, {e})]

\* Such a frame, which nobody else holds, may stay mapped.
LEMMA MapOnlySound ==
  ASSUME NEW w, NEW c, Sound(w, c), NEW e \in EntryType, Span(e) \subseteq Page,
         Vacant(Span(e), w.maps, w.lazy), e.frame \in w.lost, c.others[e.frame] = 0,
         e.frame \notin Names(w.maps)
  PROVE  MapOnly(w, e) \in RecType /\ Sound(MapOnly(w, e), c)
<1> DEFINE v == MapOnly(w, e)
           t == Mapped(w.pte, {e})
<1>0. /\ w \in RecType /\ w.pte \in PteType /\ Uniform(w.maps, w.pte)
      /\ MapsOK(w.maps, w.lazy) /\ StackOK(w.maps, w.lazy, w.stack)
      /\ FramesOK(Names(w.maps), w.refs, w.used, w.lost, c)
      /\ PteOK(w.maps, w.pte, w.lost) /\ CowOK(w.maps, w.pte, w.lost, w.lifted, c)
  BY DEF Sound, Storable, RecType
<1>1. /\ t \in PteType
      /\ \A pg \in Page : pg \in Span(e) => t[pg] = [frame |-> e.frame, perms |-> e.flags]
      /\ \A pg \in Page : pg \notin Span(e) => t[pg] = w.pte[pg]
  <2>1. Apart({e}) /\ {e} \in SUBSET EntryType
    BY DEF Apart
  <2> QED BY <1>0, <2>1, MappedAt
<1> HIDE DEF t
<1>2. /\ v \in RecType /\ v.maps = w.maps /\ v.lazy = w.lazy /\ v.stack = w.stack /\ v.pte = t
      /\ v.refs = w.refs /\ v.used = w.used /\ v.lost = w.lost /\ v.lifted = w.lifted
  BY <1>0, <1>1 DEF RecType, MapOnly, t
<1>3. \A pg \in Page : pg \in Span(e) => t[pg].frame = e.frame
  BY <1>1
<1>4. \A d \in w.maps : \A pg \in Span(d) : pg \in Page /\ t[pg] = w.pte[pg]
  BY <1>0, <1>1 DEF MapsOK, Vacant
<1>5. PteOK(w.maps, t, w.lost)
  BY <1>0, <1>1, <1>3 DEF PteOK
<1>6. CowOK(w.maps, t, w.lost, w.lifted, c)
  <2>1. \A d \in w.maps : \A pg \in Span(d) :
          Writable(t, pg) =>
            t[pg].frame = d.frame /\ (("w" \in d.flags /\ ~d.cow) \/ d.frame \in w.lifted)
    BY <1>0, <1>4 DEF CowOK, Writable
  <2>2. \A pg \in Page :
          Writable(t, pg) /\ (\A d \in w.maps : pg \notin Span(d)) =>
            /\ t[pg].frame \in w.lost /\ c.others[t[pg].frame] = 0
            /\ \A d \in w.maps : d.frame # t[pg].frame
    <3> SUFFICES ASSUME NEW pg \in Page, Writable(t, pg), \A d \in w.maps : pg \notin Span(d)
                 PROVE  /\ t[pg].frame \in w.lost /\ c.others[t[pg].frame] = 0
                        /\ \A d \in w.maps : d.frame # t[pg].frame
      OBVIOUS
    <3>1. CASE pg \in Span(e)
      BY <3>1, <1>3 DEF Names
    <3>2. CASE pg \notin Span(e)
      BY <3>2, <1>0, <1>1 DEF CowOK, Writable
    <3> QED BY <3>1, <3>2
  <2>3. /\ c.lifted \subseteq w.lifted
        /\ \A d \in w.maps :
             "w" \in d.flags /\ ~d.cow /\ c.others[d.frame] # 0 => d.frame \in w.lifted
    BY <1>0 DEF CowOK
  <2> QED BY <2>1, <2>2, <2>3 DEF CowOK
<1>7. Uniform(w.maps, t)
  BY <1>0, <1>4 DEF Uniform, Writable
<1>8. Storable(v, c)
  BY <1>0, <1>2, <1>5, <1>6 DEF Storable
<1> QED BY <1>2, <1>7, <1>8 DEF Sound

\* A failed set-up leaves a sound record, its frame lost, mapped or not.
LEMMA FailedSetupSound ==
  ASSUME NEW w, NEW c, Sound(w, c), NEW a, NEW n, Place(w, a, n), NEW v \in FailedSetup(w, a, n)
  PROVE  v \in RecType /\ Sound(v, c)
<1>0. w \in RecType /\ Storable(w, c) /\ FramesOK(Names(w.maps), w.refs, w.used, w.lost, c)
  BY DEF Sound, Storable
<1>1. CASE v \in FailedAlloc(w)
  BY <1>0, <1>1, FailedAllocSound
<1>2. ASSUME NEW f \in Candidates(Frame \ w.used),
             v = [Failed(w) EXCEPT !.used = @ \cup {f}, !.lost = @ \cup {f},
                                   !.pte = Mapped(@, {Entry(a, n, f, RW, "Anonymous")})]
      PROVE  v \in RecType /\ Sound(v, c)
  <2> DEFINE e == Entry(a, n, f, RW, "Anonymous")
             u == Failed(w)
             x == Forget(u, f)
  <2>1. RW \in Perms /\ "Anonymous" \in Kinds
    BY DEF RW, Perms, Kinds
  <2>2. NewEntry(e, w, a, n, f, RW, "Anonymous")
    BY <1>0, <2>1, OneEntry
  <2> HIDE DEF e
  <2>3. /\ e \in EntryType /\ Span(e) \subseteq Page /\ e.frame = f
        /\ Vacant(Span(e), w.maps, w.lazy)
    BY <2>2 DEF NewEntry, Fresh, Vacant
  <2>4. u \in RecType /\ Sound(u, c) /\ u = [w EXCEPT !.failures = w.failures + 1]
    BY <1>0, FailedSound
  <2>5. /\ u.maps = w.maps /\ u.used = w.used /\ u.lazy = w.lazy /\ Storable(u, c)
    BY <1>0, <2>4 DEF RecType, Sound
  <2>6. f \in Frame /\ f \notin u.used
    BY <2>5, FreeFrame
  <2> HIDE DEF u
  <2>7. x \in RecType /\ Sound(x, c)
    BY <2>4, <2>5, <2>6, ForgetSound
  <2>8. /\ x.maps = w.maps /\ x.lazy = w.lazy /\ f \in x.lost /\ x.pte = u.pte
    BY <2>4, <2>5, <2>6 DEF RecType, Forget
  <2>9. c.others[f] = 0 /\ f \notin Names(w.maps)
    BY <1>0, <2>5, <2>6 DEF FramesOK, FrameOK
  <2>10. v = MapOnly(x, e)
    <3>1. v = [u EXCEPT !.used = u.used \cup {f}, !.lost = u.lost \cup {f},
                        !.pte = Mapped(u.pte, {e})]
      BY <1>2 DEF u, e
    <3> QED BY <3>1, <2>4, <2>8 DEF Forget, MapOnly, RecType
  <2> HIDE DEF x
  <2>11. MapOnly(x, e) \in RecType /\ Sound(MapOnly(x, e), c)
    BY <2>3, <2>7, <2>8, <2>9, MapOnlySound
  <2> QED BY <2>10, <2>11
<1> QED BY <1>1, <1>2 DEF FailedSetup

\* With image and stack, the record is sound.
LEMMA StacksSound ==
  ASSUME ImageClear, NEW w, NEW c, NEW lift, Loaded(w, c, lift), w.maps = {}, NEW v \in Stacks(w)
  PROVE  v \in RecType /\ Sound(v, c) /\ TlsFree(v) /\ v.lifted = lift
<1>1. PICK u \in Images(w) : v \in setup_initial_stack(u)
  BY DEF Stacks
<1>2. Loaded(u, c, lift)
  BY ImagesSound
<1> QED BY <1>1, <1>2, InitialStackSound

\* With image, stack and thread storage, the record is sound.
LEMMA CompleteSound ==
  ASSUME ImageClear, NEW w, NEW c, NEW lift, Loaded(w, c, lift), w.maps = {}, NEW v \in Complete(w)
  PROVE  v \in RecType /\ Sound(v, c) /\ v.lazy = {} /\ v.lifted = lift
<1>1. PICK u \in Stacks(w) : v \in setup_initial_tls(u)
  BY DEF Complete
<1>2. Sound(u, c) /\ TlsFree(u) /\ u.lifted = lift
  BY StacksSound
<1> QED BY <1>1, <1>2, InitialTlsSound

\* What execve leaves, wherever it fails, is sound.
LEMMA ExecSound ==
  ASSUME ImageClear, NEW m, NEW c, Storable(m, c),
         NEW v \in ExecFailed(Released(m)) \cup Complete(Released(m))
  PROVE  v \in RecType /\ Sound(v, c)
<1> DEFINE w == Released(m)
           lift == m.lifted
<1>1. Loaded(w, c, lift) /\ w.maps = {}
  BY ReleasedSound
<1>2. Len(Image) \in Nat
  BY ImageAssumption
<1> HIDE DEF w, lift
<1>3. ASSUME NEW k \in 0..(Len(Image) - 1), NEW u \in load_elf_into_process(w, k),
             v \in FailedAlloc(u)
      PROVE  v \in RecType /\ Sound(v, c)
  <2>1. k \in 0..Len(Image)
    BY <1>2
  <2>2. Loaded(u, c, lift)
    BY <1>1, <2>1, <1>3, LoadSound
  <2>3. Sound(u, c) /\ Storable(u, c)
    BY <2>2 DEF Loaded, Sound
  <2> QED BY <1>3, <2>3, FailedAllocSound
<1>4. ASSUME NEW u \in load_elf_into_process(w, Len(Image)), v = Failed(u)
      PROVE  v \in RecType /\ Sound(v, c)
  <2>1. Len(Image) \in 0..Len(Image)
    BY <1>2
  <2>2. Loaded(u, c, lift)
    BY <1>1, <2>1, <1>4, LoadSound
  <2> QED BY <1>4, <2>2, FailedSound DEF Loaded
<1>5. ASSUME NEW u \in Images(w), v \in FailedSetup(u, StackBottom - 1, 1)
      PROVE  v \in RecType /\ Sound(v, c)
  <2>1. Loaded(u, c, lift)
    BY <1>1, <1>5, ImagesSound
  <2>2. Sound(u, c) /\ Place(u, StackBottom - 1, 1)
    BY <2>1, StackPageFree DEF Loaded
  <2> DEFINE a == StackBottom - 1
             n == 1
  <2>3. Place(u, a, n) /\ v \in FailedSetup(u, a, n)
    BY <2>2, <1>5
  <2> HIDE DEF a, n
  <2> QED BY <2>2, <2>3, FailedSetupSound
<1>6. ASSUME NEW u \in Stacks(w), v \in FailedSetup(u, TlsStart, TlsPages)
      PROVE  v \in RecType /\ Sound(v, c)
  <2>1. Sound(u, c) /\ TlsFree(u)
    BY <1>1, <1>6, StacksSound
  <2>2. Place(u, TlsStart, TlsPages)
    BY <2>1, TlsPlace
  <2> QED BY <1>6, <2>1, <2>2, FailedSetupSound
<1>7. CASE v \in Complete(w)
  BY <1>1, <1>7, CompleteSound
<1>8. v \in ExecFailed(w) \cup Complete(w)
  BY DEF w
<1> DEFINE Early(k) == UNION {FailedAlloc(u) : u \in load_elf_into_process(w, k)}
           Loading == UNION {Early(k) : k \in 0..(Len(Image) - 1)}
           Stacking == UNION {FailedSetup(u, StackBottom - 1, 1) : u \in Images(w)}
           Storing == UNION {FailedSetup(u, TlsStart, TlsPages) : u \in Stacks(w)}
           Loads == {Failed(u) : u \in load_elf_into_process(w, Len(Image))}
<1>9. \/ v \in Loading \/ v \in Stacking \/ v \in Storing \/ v \in Complete(w)
      \/ v \in Loads
  <2>1. ExecFailed(w) = Loading \cup Loads \cup Stacking \cup Storing
    BY DEF ExecFailed
  <2> HIDE DEF Loading, Loads, Stacking, Storing
  <2> QED BY <1>8, <2>1
<1>10. CASE v \in Loading
  <2>1. PICK k \in 0..(Len(Image) - 1) : v \in Early(k)
    BY <1>10
  <2>2. PICK u \in load_elf_into_process(w, k) : v \in FailedAlloc(u)
    BY <2>1
  <2> QED BY <1>3, <2>2
<1>11. CASE v \in Stacking
  BY <1>5, <1>11
<1>12. CASE v \in Storing
  BY <1>6, <1>12
<1>13. CASE v \in Loads
  BY <1>4, <1>13
<1> QED BY <1>7, <1>9, <1>10, <1>11, <1>12, <1>13

-----------------------------------------------------------------------------
(***************************************************************************)
(* All address spaces together.                                            *)
(***************************************************************************)
\* A frame's holders are finitely many, and p is one of them or not.
LEMMA HolderCount ==
  ASSUME NEW mm, NEW f, NEW p \in Pid
  PROVE  LET H == HoldersIn(mm, f)
             n == Cardinality(H)
             k == Cardinality(H \ {p})
         IN  /\ n \in Nat /\ k \in Nat
             /\ n = IF f \in Names(mm[p]) THEN k + 1 ELSE k
             /\ k = 0 <=> \A r \in Pid : r = p \/ f \notin Names(mm[r])
<1> DEFINE H == HoldersIn(mm, f)
<1>1. IsFiniteSet(Pid)
  <2>1. 1 \in Int /\ MaxPid \in Int
    BY LayoutAssumption
  <2> QED BY <2>1, FS_Interval DEF Pid
<1>2. \A r : r \in H <=> r \in Pid /\ f \in Names(mm[r])
  BY DEF HoldersIn, Names
<1> HIDE DEF H
<1>3. IsFiniteSet(H) /\ IsFiniteSet(H \ {p})
  <2>1. H \subseteq Pid /\ H \ {p} \subseteq Pid
    BY <1>2
  <2> QED BY <1>1, <2>1, FS_Subset
<1>4. Cardinality(H) \in Nat /\ Cardinality(H \ {p}) \in Nat
  BY <1>3, FS_CardinalityType
<1>5. p \in H => Cardinality(H \ {p}) = Cardinality(H) - 1
  BY <1>3, FS_RemoveElement
<1>6. p \notin H => H \ {p} = H
  OBVIOUS
<1>7. Cardinality(H \ {p}) = 0 <=> H \ {p} = {}
  BY <1>3, FS_EmptySet
<1>8. H \ {p} = {} <=> \A r \in Pid : r = p \/ f \notin Names(mm[r])
  BY <1>2
<1>9. p \in H <=> f \in Names(mm[p])
  BY <1>2
<1>10. Cardinality(H) = IF f \in Names(mm[p]) THEN Cardinality(H \ {p}) + 1
         ELSE Cardinality(H \ {p})
  BY <1>4, <1>5, <1>6, <1>9
<1>11. Cardinality(H \ {p}) = 0 <=> \A r \in Pid : r = p \/ f \notin Names(mm[r])
  BY <1>7, <1>8
<1> QED BY <1>4, <1>10, <1>11 DEF H

\* When nothing has been done yet, what is said of a frame is about the number
\* of its holders only.
FrameState(mm, refs, U, L) ==
  /\ U \subseteq Frame /\ L \subseteq Frame /\ refs \in [Frame -> Nat]
  /\ \A p \in Pid : Names(mm[p]) \subseteq Frame
  /\ \A f \in Frame : FrameOK(FALSE, Cardinality(HoldersIn(mm, f)), refs[f], f \in U, f \in L)

\* Between calls the counts agree with the holders, seen from any process.
LEMMA FramesAtRest ==
  ASSUME NEW mm, NEW refs, NEW U, NEW L, NEW lift, FrameState(mm, refs, U, L), NEW p \in Pid
  PROVE  FramesOK(Names(mm[p]), refs, U, L, ContextIn(mm, refs, L, lift, p))
<1> DEFINE c == ContextIn(mm, refs, L, lift, p)
<1>1. /\ c.refs = refs /\ c.lost = L /\ c.mine = Names(mm[p])
      /\ \A f \in Frame : c.others[f] = Cardinality(HoldersIn(mm, f) \ {p})
  BY DEF ContextIn
<1> HIDE DEF c
<1>2. ASSUME NEW f \in Frame
      PROVE  FrameOK(f \in Names(mm[p]), c.others[f], refs[f], f \in U, f \in L)
  <2>1. FrameOK(FALSE, Cardinality(HoldersIn(mm, f)), refs[f], f \in U, f \in L)
    BY DEF FrameState
  <2> DEFINE n == Cardinality(HoldersIn(mm, f))
             k == Cardinality(HoldersIn(mm, f) \ {p})
  <2>2. n \in Nat /\ k \in Nat /\ n = IF f \in Names(mm[p]) THEN k + 1 ELSE k
    BY HolderCount
  <2>3. c.others[f] = k /\ FrameOK(FALSE, n, refs[f], f \in U, f \in L)
    BY <1>1, <2>1
  <2> HIDE DEF n, k
  <2> QED BY <2>2, <2>3 DEF FrameOK
<1>3. Names(mm[p]) \subseteq Frame /\ U \subseteq Frame /\ L \subseteq Frame
      /\ refs \in [Frame -> Nat]
  BY DEF FrameState
<1>4. FramesOK(Names(mm[p]), refs, U, L, c)
  BY <1>1, <1>2, <1>3 DEF FramesOK
<1> QED BY <1>4 DEF c

\* Nobody else holds a frame exactly if no other process names it.
LEMMA OthersNone ==
  ASSUME NEW mm, NEW refs, NEW L, NEW lift, NEW p \in Pid, NEW f \in Frame
  PROVE  ContextIn(mm, refs, L, lift, p).others[f] = 0
           <=> \A r \in Pid : r = p \/ f \notin Names(mm[r])
<1>1. ContextIn(mm, refs, L, lift, p).others[f] = Cardinality(HoldersIn(mm, f) \ {p})
  BY DEF ContextIn
<1> QED BY <1>1, HolderCount

Changed(t, u, p, x) == u[p] = x /\ \A q \in Pid : q # p => u[q] = t[q]

\* A call of p that changes p's tables and the frames soundly keeps what holds of
\* the other address spaces too.
LEMMA UpdateSpaces ==
  ASSUME NEW mm, NEW lz, NEW st, NEW pt, NEW refs, NEW U, NEW L, NEW lift,
         Spaces(mm, lz, st, pt, refs, U, L, lift),
         NEW p \in Pid, NEW w, Storable(w, ContextIn(mm, refs, L, lift, p)),
         NEW mm2, NEW lz2, NEW st2, NEW pt2, Changed(mm, mm2, p, w.maps),
         Changed(lz, lz2, p, w.lazy), Changed(st, st2, p, w.stack), Changed(pt, pt2, p, w.pte)
  PROVE  Spaces(mm2, lz2, st2, pt2, w.refs, w.used, w.lost, w.lifted \cap w.used)
<1> DEFINE c == ContextIn(mm, refs, L, lift, p)
           lift2 == w.lifted \cap w.used
           C(q) == ContextIn(mm, refs, L, lift, q)
           C2(q) == ContextIn(mm2, w.refs, w.lost, lift2, q)
<1>0. /\ MapsOK(w.maps, w.lazy) /\ StackOK(w.maps, w.lazy, w.stack)
      /\ FramesOK(Names(w.maps), w.refs, w.used, w.lost, c)
      /\ PteOK(w.maps, w.pte, w.lost) /\ CowOK(w.maps, w.pte, w.lost, w.lifted, c)
  BY DEF Storable
<1>1. \A q \in Pid : /\ MapsOK(mm[q], lz[q]) /\ StackOK(mm[q], lz[q], st[q])
                     /\ FramesOK(Names(mm[q]), refs, U, L, C(q))
                     /\ PteOK(mm[q], pt[q], L) /\ CowOK(mm[q], pt[q], L, lift, C(q))
  BY DEF Spaces, SpaceOK
<1>2. /\ mm2[p] = w.maps /\ lz2[p] = w.lazy /\ st2[p] = w.stack /\ pt2[p] = w.pte
      /\ \A q \in Pid :
           q # p => mm2[q] = mm[q] /\ lz2[q] = lz[q] /\ st2[q] = st[q] /\ pt2[q] = pt[q]
  BY DEF Changed
<1>3. \A q \in Pid, f \in Frame :
        /\ C(q).others[f] = 0 <=> \A r \in Pid : r = q \/ f \notin Names(mm[r])
        /\ C2(q).others[f] = 0 <=> \A r \in Pid : r = q \/ f \notin Names(mm2[r])
  BY OthersNone
<1>4. /\ c.lost = L /\ c.lifted = lift /\ c.refs = refs /\ c.mine = Names(mm[p]) /\ c = C(p)
      /\ \A q \in Pid : C2(q).lifted = lift2
  BY DEF ContextIn
<1>5. ASSUME NEW f \in Frame
      PROVE  c.others[f] = Cardinality(HoldersIn(mm2, f) \ {p})
  <2>1. HoldersIn(mm2, f) \ {p} = HoldersIn(mm, f) \ {p}
    BY <1>2 DEF HoldersIn
  <2> QED BY <2>1 DEF ContextIn
<1> HIDE DEF c, C, C2, lift2
<1>6. FrameState(mm2, w.refs, w.used, w.lost)
  <2>1. \A q \in Pid : Names(mm2[q]) \subseteq Frame
    BY <1>0, <1>1, <1>2 DEF FramesOK
  <2>2. ASSUME NEW f \in Frame
        PROVE  FrameOK(FALSE, Cardinality(HoldersIn(mm2, f)), w.refs[f], f \in w.used, f \in w.lost)
    <3> DEFINE n == Cardinality(HoldersIn(mm2, f))
               k == Cardinality(HoldersIn(mm2, f) \ {p})
    <3>1. n \in Nat /\ k \in Nat /\ n = IF f \in Names(mm2[p]) THEN k + 1 ELSE k
      BY HolderCount
    <3>2. c.others[f] = k
      BY <1>5
    <3> HIDE DEF n, k
    <3>3. FrameOK(f \in Names(w.maps), k, w.refs[f], f \in w.used, f \in w.lost)
      BY <1>0, <3>2 DEF FramesOK
    <3>4. FrameOK(FALSE, n, w.refs[f], f \in w.used, f \in w.lost)
      BY <3>1, <3>3, <1>2 DEF FrameOK
    <3> QED BY <3>4 DEF n
  <2> QED BY <1>0, <2>1, <2>2 DEF FrameState, FramesOK
<1>7. \A q \in Pid : FramesOK(Names(mm2[q]), w.refs, w.used, w.lost, C2(q))
  BY <1>6, FramesAtRest DEF C2
<1>8. \A q \in Pid : Names(mm2[q]) \subseteq Frame /\ Names(mm2[q]) \subseteq w.used
  BY <1>7 DEF FramesOK, FrameOK
<1>9. \A f \in L : f \in w.lost
  BY <1>0, <1>1, <1>4 DEF FramesOK
<1>10. \A q \in Pid : \A f \in Names(mm2[q]) : f \in w.lifted => f \in lift2
  BY <1>8 DEF lift2
<1>11. ASSUME NEW q \in Pid, q # p
       PROVE  CowOK(mm[q], pt[q], w.lost, lift2, C2(q))
  <2>0. /\ CowOK(mm[q], pt[q], L, lift, C(q)) /\ lift \subseteq w.lifted
        /\ FramesOK(Names(mm[q]), refs, U, L, C(q)) /\ mm2[q] = mm[q]
    BY <1>0, <1>1, <1>2, <1>4, <1>11 DEF CowOK
  <2>1. \A e \in mm[q] : e.frame \in Names(mm[q]) /\ e.frame \in Frame
    BY <2>0 DEF Names, FramesOK
  <2>2. ASSUME NEW f \in Frame, f \in Names(mm[q]) \/ f \in L, C2(q).others[f] # 0
        PROVE  C(q).others[f] # 0
    <3>1. PICK r \in Pid : r # q /\ f \in Names(mm2[r])
      BY <1>3, <2>2
    <3>2. CASE r # p
      BY <3>1, <3>2, <1>2, <1>3
    <3>3. CASE r = p
      <4>1. f \in Names(w.maps)
        BY <3>1, <3>3, <1>2
      <4>2. f \in c.mine \/ (c.others[f] = 0 /\ f \notin c.lost)
        BY <4>1, <1>0 DEF FramesOK
      <4>3. f \in Names(mm[q]) => c.others[f] # 0
        BY <1>3, <1>4, <1>11
      <4>4. f \in Names(mm[p])
        BY <2>2, <4>2, <4>3, <1>4
      <4> QED BY <4>4, <1>3, <1>11
    <3> QED BY <3>2, <3>3
  <2>3. \A e \in mm[q] : e.frame \in lift => e.frame \in lift2
    BY <2>0, <2>1, <1>10
  <2>4. \A e \in mm[q] : "w" \in e.flags /\ ~e.cow /\ C2(q).others[e.frame] # 0 => e.frame \in lift2
    BY <2>0, <2>1, <2>2, <2>3 DEF CowOK
  <2>5. \A e \in mm[q] : \A pg \in Span(e) :
          Writable(pt[q], pg) =>
            pt[q][pg].frame = e.frame /\ (("w" \in e.flags /\ ~e.cow) \/ e.frame \in lift2)
    BY <2>0, <2>3 DEF CowOK
  <2>6. \A pg \in Page :
          Writable(pt[q], pg) /\ (\A e \in mm[q] : pg \notin Span(e)) =>
            /\ pt[q][pg].frame \in w.lost /\ C2(q).others[pt[q][pg].frame] = 0
            /\ \A e \in mm[q] : e.frame # pt[q][pg].frame
    <3>1. \A f \in L : f \in Frame
      BY <2>0 DEF FramesOK
    <3> QED BY <2>0, <2>2, <3>1, <1>9 DEF CowOK
  <2> QED BY <1>4, <2>4, <2>5, <2>6 DEF CowOK
<1>12. CowOK(w.maps, w.pte, w.lost, lift2, C2(p))
  <2>1. \A f \in Frame : C2(p).others[f] = c.others[f]
    BY <1>5 DEF C2, ContextIn
  <2>2. \A e \in w.maps : /\ e.frame \in Frame /\ C2(p).others[e.frame] = c.others[e.frame]
                          /\ e.frame \in w.lifted => e.frame \in lift2
    BY <2>1, <1>2, <1>8, <1>10 DEF Names
  <2>3. \A f \in w.lost : f \in Frame
    BY <1>0 DEF FramesOK
  <2>4. \A e \in w.maps :
          "w" \in e.flags /\ ~e.cow /\ C2(p).others[e.frame] # 0 => e.frame \in lift2
    BY <1>0, <2>2 DEF CowOK
  <2>5. \A e \in w.maps : \A pg \in Span(e) :
          Writable(w.pte, pg) =>
            w.pte[pg].frame = e.frame /\ (("w" \in e.flags /\ ~e.cow) \/ e.frame \in lift2)
    BY <1>0, <2>2 DEF CowOK
  <2>6. \A pg \in Page :
          Writable(w.pte, pg) /\ (\A e \in w.maps : pg \notin Span(e)) =>
            /\ w.pte[pg].frame \in w.lost /\ C2(p).others[w.pte[pg].frame] = 0
            /\ \A e \in w.maps : e.frame # w.pte[pg].frame
    BY <1>0, <2>1, <2>3 DEF CowOK
  <2> QED BY <1>4, <2>4, <2>5, <2>6 DEF CowOK
<1>13. ASSUME NEW q \in Pid
       PROVE  SpaceOK(mm2[q], lz2[q], st2[q], pt2[q], w.refs, w.used, w.lost, lift2, C2(q))
  <2>1. CASE q = p
    BY <2>1, <1>0, <1>2, <1>7, <1>12 DEF SpaceOK
  <2>2. CASE q # p
    <3>1. PteOK(mm[q], pt[q], w.lost)
      BY <1>1, <1>9 DEF PteOK
    <3> QED BY <2>2, <3>1, <1>1, <1>2, <1>7, <1>11 DEF SpaceOK
  <2> QED BY <2>1, <2>2
<1> QED BY <1>13 DEF Spaces, C2, lift2

-----------------------------------------------------------------------------
(***************************************************************************)
(* The steps of the specification.                                         *)
(***************************************************************************)
\* A call starts from a sound record.
LEMMA MemSound ==
  ASSUME MInv, NEW p \in Pid
  PROVE  /\ Mem(p) \in RecType /\ Storable(Mem(p), Context(p))
         /\ p \in running => Sound(Mem(p), Context(p))
<1> DEFINE w == Mem(p)
<1>1. /\ w.maps = memory_maps[p] /\ w.lazy = lazy_memory_maps[p] /\ w.stack = stack_size[p]
      /\ w.pte = pte[p] /\ w.refs = frame_cap_refs /\ w.used = used /\ w.lost = lost
      /\ w.lifted = lifted /\ w.failures = failures
  BY DEF Mem
<1>2. SpaceOK(memory_maps[p], lazy_memory_maps[p], stack_size[p], pte[p], frame_cap_refs, used,
              lost, lifted, Context(p))
  BY DEF MInv, Spaces, Context
<1>3. /\ frame_cap_refs \in [Frame -> Nat] /\ used \in SUBSET Frame /\ lost \in SUBSET Frame
      /\ lifted \in SUBSET Frame /\ failures \in Nat
  <2>1. /\ FramesOK(Names(memory_maps[p]), frame_cap_refs, used, lost, Context(p))
        /\ lifted \subseteq used /\ failures \in 0..MaxFailures
    BY <1>2 DEF SpaceOK, MInv
  <2> QED BY <2>1, LayoutAssumption DEF FramesOK
<1>4. /\ memory_maps[p] \in SUBSET EntryType /\ lazy_memory_maps[p] \in SUBSET LazyType
      /\ heap_brk[p] \in Breaks /\ mmap_next[p] \in MmapBase..MmapLimit
      /\ stack_size[p] \in 0..(StackBottom - StackLow) /\ pte[p] \in PteType
  BY DEF MInv
<1>5. w \in RecType
  BY <1>3, <1>4 DEF Mem, RecType
<1> HIDE DEF w
<1>6. Storable(w, Context(p))
  BY <1>1, <1>2, <1>5 DEF Storable, SpaceOK
<1>7. p \in running => Uniform(w.maps, w.pte)
  BY <1>1 DEF MInv
<1> QED BY <1>5, <1>6, <1>7 DEF Sound, w

\* Storing a record that is storable keeps the invariant.
LEMMA StoreInv ==
  ASSUME MInv, NEW p \in Pid, p < next_pid, NEW w, Storable(w, Context(p)), Store(p, w),
         next_pid' = next_pid, tasks' \subseteq tasks, running' \subseteq tasks',
         running' \subseteq running, p \in running' => Uniform(w.maps, w.pte)
  PROVE  MInv'
<1>0. w \in RecType
  BY DEF Storable
<1>1. /\ memory_maps' = [memory_maps EXCEPT ![p] = w.maps]
      /\ lazy_memory_maps' = [lazy_memory_maps EXCEPT ![p] = w.lazy]
      /\ heap_brk' = [heap_brk EXCEPT ![p] = w.brk]
      /\ mmap_next' = [mmap_next EXCEPT ![p] = w.next]
      /\ stack_size' = [stack_size EXCEPT ![p] = w.stack]
      /\ pte' = [pte EXCEPT ![p] = w.pte]
      /\ frame_cap_refs' = w.refs /\ used' = w.used /\ lost' = w.lost
      /\ lifted' = w.lifted \cap w.used
      /\ w.failures <= MaxFailures /\ failures' = w.failures
  BY DEF Store
<1>2. /\ memory_maps \in [Pid -> SUBSET EntryType] /\ lazy_memory_maps \in [Pid -> SUBSET LazyType]
      /\ heap_brk \in [Pid -> Breaks] /\ mmap_next \in [Pid -> MmapBase..MmapLimit]
      /\ stack_size \in [Pid -> 0..(StackBottom - StackLow)] /\ pte \in [Pid -> PteType]
  BY DEF MInv
<1>3. /\ memory_maps' \in [Pid -> SUBSET EntryType]
      /\ lazy_memory_maps' \in [Pid -> SUBSET LazyType]
      /\ heap_brk' \in [Pid -> Breaks] /\ mmap_next' \in [Pid -> MmapBase..MmapLimit]
      /\ stack_size' \in [Pid -> 0..(StackBottom - StackLow)] /\ pte' \in [Pid -> PteType]
      /\ lifted' \subseteq used' /\ failures' \in 0..MaxFailures
  <2>1. /\ w.maps \in SUBSET EntryType /\ w.lazy \in SUBSET LazyType
        /\ w.brk \in Breaks
        /\ w.next \in MmapBase..MmapLimit /\ w.stack \in 0..(StackBottom - StackLow)
        /\ w.pte \in PteType /\ w.failures \in Nat
    BY <1>0 DEF RecType
  <2> QED BY <1>1, <1>2, <2>1, LayoutAssumption
<1>4. /\ Changed(memory_maps, memory_maps', p, w.maps)
      /\ Changed(lazy_memory_maps, lazy_memory_maps', p, w.lazy)
      /\ Changed(stack_size, stack_size', p, w.stack) /\ Changed(pte, pte', p, w.pte)
  BY <1>1, <1>2 DEF Changed
<1>5. Spaces(memory_maps', lazy_memory_maps', stack_size', pte', frame_cap_refs', used', lost',
             lifted')
  <2>1. Spaces(memory_maps, lazy_memory_maps, stack_size, pte, frame_cap_refs, used, lost, lifted)
    BY DEF MInv
  <2>2. Storable(w, ContextIn(memory_maps, frame_cap_refs, lost, lifted, p))
    BY DEF Context
  <2>3. Spaces(memory_maps', lazy_memory_maps', stack_size', pte', w.refs, w.used, w.lost,
               w.lifted \cap w.used)
    BY <1>4, <2>1, <2>2, UpdateSpaces
  <2> QED BY <1>1, <2>3
<1>6. \A f \in Frame : frame_cap_refs'[f] < next_pid'
  <2>1. \A f \in Frame :
          w.refs[f] \in Nat /\ frame_cap_refs[f] \in Nat /\ w.refs[f] <= frame_cap_refs[f]
    BY DEF Storable, FramesOK, Context, ContextIn
  <2>2. \A f \in Frame : frame_cap_refs[f] < next_pid /\ next_pid \in Nat
    BY LayoutAssumption DEF MInv
  <2> QED BY <1>1, <2>1, <2>2
<1>7. \A q \in Pid : q >= next_pid' => memory_maps'[q] = {}
  <2>1. \A q \in Pid : q >= next_pid => q # p
    BY LayoutAssumption DEF MInv, Pid
  <2> QED BY <1>1, <1>2, <2>1 DEF MInv
<1>8. \A q \in running' : Uniform(memory_maps'[q], pte'[q])
  <2>1. \A q \in running' : q \in Pid /\ Uniform(memory_maps[q], pte[q])
    BY DEF MInv
  <2> QED BY <1>4, <2>1 DEF Changed
<1>9. /\ tasks' \subseteq Pid /\ next_pid' \in 2..(MaxPid + 1) /\ \A q \in tasks' : q < next_pid'
  BY DEF MInv
<1> QED BY <1>3, <1>5, <1>6, <1>7, <1>8, <1>9 DEF MInv

\* A system call that returns to its caller.
LEMMA CallInv ==
  ASSUME MInv, NEW p \in running, NEW w, Sound(w, Context(p)), Store(p, w),
         UNCHANGED <<tasks, next_pid, running>>
  PROVE  MInv'
<1>1. p \in Pid /\ p < next_pid /\ running \subseteq tasks
  BY DEF MInv
<1>2. Storable(w, Context(p)) /\ Uniform(w.maps, w.pte)
  BY DEF Sound
<1> QED BY <1>1, <1>2, StoreInv

\* A page fault: the process goes on only if nothing failed.
LEMMA FaultInv ==
  ASSUME MInv, NEW p \in running, NEW w, Ended(w, Mem(p), Context(p)), FaultEnds(p, w)
  PROVE  MInv'
<1>1. p \in Pid /\ p < next_pid /\ running \subseteq tasks
  BY DEF MInv
<1>2. /\ Store(p, w) /\ tasks' = tasks /\ next_pid' = next_pid
      /\ running' = IF w.failures > failures THEN running \ {p} ELSE running
  BY DEF FaultEnds
<1>3. Mem(p).failures = failures
  BY DEF Mem
<1>4. p \in running' => Uniform(w.maps, w.pte)
  BY <1>2, <1>3 DEF Ended, Sound
<1>5. Storable(w, Context(p))
  BY DEF Ended
<1> QED BY <1>1, <1>2, <1>4, <1>5, StoreInv

\* exit and every fatal fault.
LEMMA TerminateInv ==
  ASSUME MInv, NEW p \in tasks, terminate_process(p)
  PROVE  MInv'
<1> DEFINE w == [FreshScalars(ReleaseAll(Mem(p))) EXCEPT !.pte = [pg \in Page |-> NoFrame]]
<1>1. p \in Pid /\ p < next_pid /\ running \subseteq tasks
  BY DEF MInv
<1>2. Store(p, w) /\ tasks' = tasks \ {p} /\ running' = running \ {p} /\ next_pid' = next_pid
  BY DEF terminate_process
<1>3. Storable(Mem(p), Context(p))
  BY <1>1, MemSound
<1>4. w \in RecType /\ Sound(w, Context(p))
  BY <1>3, TerminatedSound
<1> HIDE DEF w
<1>5. Storable(w, Context(p))
  BY <1>4 DEF Sound
<1> QED BY <1>1, <1>2, <1>5, StoreInv

\* exec, complete or failing at any of its steps.
LEMMA ExecInv ==
  ASSUME ImageClear, MInv, NEW p \in Pid, SysExec(p)
  PROVE  MInv'
<1>1. p \in running
  BY DEF SysExec
<1>2. PICK v \in ExecFailed(Released(Mem(p))) \cup Complete(Released(Mem(p))) : Store(p, v)
  BY DEF SysExec, Released
<1>3. Storable(Mem(p), Context(p))
  BY MemSound
<1>4. Sound(v, Context(p))
  BY <1>3, ExecSound
<1> QED BY <1>1, <1>2, <1>4, CallInv DEF SysExec

\* The ranges calls are given lie in the address space.
LEMMA RangeArguments ==
  ASSUME NEW r \in Ranges
  PROVE  /\ r[1] \in Page /\ r[2] \in Nat \ {0} /\ r[1] + r[2] - 1 \in Page
         /\ r[1] \in Int /\ r[1] + r[2] \in Nat
<1>1. r \in Page \X (1..MaxPage) /\ r[1] + r[2] - 1 \in Page
  BY ArgumentAssumption
<1> QED BY <1>1, Numbers

\* munmap.
LEMMA MunmapInv ==
  ASSUME MInv, NEW p \in Pid, NEW r \in Ranges, SysMunmap(p, r[1], r[2])
  PROVE  MInv'
<1> DEFINE a == r[1]
           b == r[1] + r[2]
<1>0. a \in Int /\ b \in Int
  BY RangeArguments
<1>1. p \in running /\ UNCHANGED <<tasks, next_pid, running>>
  BY DEF SysMunmap
<1>2. PICK w \in do_munmap(Mem(p), a, b) : Store(p, w)
  BY DEF SysMunmap
<1> HIDE DEF a, b
<1>3. Sound(Mem(p), Context(p))
  BY <1>1, MemSound
<1>4. Sound(w, Context(p))
  BY <1>0, <1>3, MunmapSound
<1> QED BY <1>1, <1>2, <1>4, CallInv

\* brk.
LEMMA BrkInv ==
  ASSUME MInv, NEW p \in Pid, NEW b, SysBrk(p, b)
  PROVE  MInv'
<1> DEFINE w == Mem(p)
           v == [w EXCEPT !.brk = b]
<1>1. p \in running /\ UNCHANGED <<tasks, next_pid, running>> /\ b \in Breaks
      /\ Store(p, v)
  BY DEF SysBrk, Breaks
<1>2. w \in RecType /\ Sound(w, Context(p))
  BY <1>1, MemSound
<1> HIDE DEF w
<1>3. /\ v \in RecType /\ v.maps = w.maps /\ v.lazy = w.lazy /\ v.stack = w.stack /\ v.pte = w.pte
      /\ v.refs = w.refs /\ v.used = w.used /\ v.lost = w.lost /\ v.lifted = w.lifted
  BY <1>1, <1>2 DEF RecType
<1> HIDE DEF v
<1>4. Sound(v, Context(p))
  BY <1>2, <1>3, SoundCopy
<1> QED BY <1>1, <1>4, CallInv

\* mprotect.
LEMMA MprotectInv ==
  ASSUME MInv, NEW p \in Pid, NEW r \in Ranges, NEW flags \in Prots,
         SysMprotect(p, r[1], r[2], flags)
  PROVE  MInv'
<1> DEFINE a == r[1]
           b == r[1] + r[2]
<1>0. a \in Page /\ a \in Int /\ b \in Nat /\ b \in Int /\ b - 1 \in Page /\ flags \in Perms
  BY RangeArguments, ArgumentAssumption
<1>1. p \in running /\ UNCHANGED <<tasks, next_pid, running>>
  BY DEF SysMprotect
<1>2. PICK s \in ensure_partial_multi_page_ranges_split(Mem(p), a, b) :
        \E w \in (IF s.ok THEN Protect(s.w, a, b, flags) ELSE {s.w}) : Store(p, w)
  BY DEF SysMprotect
<1>3. PICK w \in (IF s.ok THEN Protect(s.w, a, b, flags) ELSE {s.w}) : Store(p, w)
  BY <1>2
<1> HIDE DEF a, b
<1>4. Sound(Mem(p), Context(p))
  BY <1>1, MemSound
<1>5. Sound(s.w, Context(p))
  BY <1>0, <1>4, EnsureSplitSound
<1> DEFINE u == s.w
<1>6. Sound(u, Context(p)) /\ (w \in Protect(u, a, b, flags) \/ w = u)
  BY <1>3, <1>5
<1> HIDE DEF u
<1>7. Sound(w, Context(p))
  BY <1>0, <1>6, ProtectSound
<1> QED BY <1>1, <1>3, <1>7, CallInv

\* mmap at a place the kernel chooses.
LEMMA MmapInv ==
  ASSUME MInv, NEW p \in Pid, NEW r \in Ranges, NEW flags \in Prots, NEW file \in BOOLEAN,
         SysMmap(p, r[1], r[2], flags, file)
  PROVE  MInv'
<1> DEFINE n == r[2]
           from == IF (IF r[1] # 0 THEN r[1] ELSE mmap_next[p]) > MmapBase
                   THEN IF r[1] # 0 THEN r[1] ELSE mmap_next[p] ELSE MmapBase
<1>0. n \in Nat \ {0} /\ flags \in Perms
  BY RangeArguments, ArgumentAssumption
<1>1. p \in running /\ UNCHANGED <<tasks, next_pid, running>>
  BY DEF SysMmap
<1>2. PICK a \in FirstFree(Mem(p), from, n) :
        \E w \in MmapAt(Mem(p), a, n, flags, file) : Store(p, w)
  BY DEF SysMmap
<1>3. PICK w \in MmapAt(Mem(p), a, n, flags, file) : Store(p, w)
  BY <1>2
<1> HIDE DEF n, from
<1>4. Sound(Mem(p), Context(p))
  BY <1>1, MemSound
<1>5. a \in Page /\ range_is_free(Mem(p), a, a + n, {})
  BY <1>2 DEF FirstFree
<1>6. Room(Mem(p), a, n)
  BY <1>0, <1>4, <1>5, FreeRoom
<1>7. Sound(w, Context(p))
  BY <1>0, <1>4, <1>6, <1>3, MmapAtSound
<1> QED BY <1>1, <1>3, <1>7, CallInv

\* mmap at a fixed place, over what was there.
LEMMA MmapFixedInv ==
  ASSUME MInv, NEW p \in Pid, NEW r \in Ranges, NEW flags \in Prots, NEW file \in BOOLEAN,
         SysMmapFixed(p, r[1], r[2], flags, file)
  PROVE  MInv'
<1> DEFINE a == r[1]
           n == r[2]
           b == a + n
<1>0. a \in Page /\ a \in Int /\ n \in Nat \ {0} /\ b \in Int /\ flags \in Perms
  BY RangeArguments, ArgumentAssumption
<1>1. p \in running /\ UNCHANGED <<tasks, next_pid, running>>
  BY DEF SysMmapFixed
<1>2. PICK s \in ensure_partial_multi_page_ranges_split(Mem(p), a, b) :
        IF s.ok /\ FixedAllowed(s.w, a, b)
        THEN \E w \in MmapAt(RemoveRange(s.w, a, b), a, n, flags, file) : Store(p, w)
        ELSE Store(p, s.w)
  BY DEF SysMmapFixed
<1> HIDE DEF a, n
<1>3. Sound(Mem(p), Context(p))
  BY <1>1, MemSound
<1>4. Sound(s.w, Context(p)) /\ (s.ok => Contained(s.w.maps, a, b))
  <2> HIDE DEF b
  <2> QED BY <1>0, <1>2, <1>3, EnsureSplitSound
<1> DEFINE u == s.w
<1>5. Sound(u, Context(p)) /\ (s.ok => Contained(u.maps, a, b))
  BY <1>4
<1>6. CASE s.ok /\ FixedAllowed(u, a, b)
  <2>1. PICK w \in MmapAt(RemoveRange(u, a, b), a, n, flags, file) : Store(p, w)
    BY <1>2, <1>6
  <2> HIDE DEF u
  <2>2. Sound(RemoveRange(u, a, b), Context(p))
    BY <1>0, <1>5, RemoveRangeSound
  <2>3. Room(RemoveRange(u, a, b), a, n)
    BY <1>0, <1>5, <1>6, FixedRoom
  <2> HIDE DEF b
  <2>4. Sound(w, Context(p))
    BY <1>0, <2>1, <2>2, <2>3, MmapAtSound
  <2> QED BY <1>1, <2>1, <2>4, CallInv
<1>7. CASE ~(s.ok /\ FixedAllowed(u, a, b))
  <2>1. Store(p, u)
    BY <1>2, <1>7
  <2> QED BY <1>1, <1>5, <2>1, CallInv
<1> QED BY <1>6, <1>7

\* mremap in place, or to a place the kernel chooses.
LEMMA MremapInv ==
  ASSUME MInv, NEW p \in Pid, NEW r \in Ranges, NEW m \in NewSizes, NEW move \in BOOLEAN,
         SysMremap(p, r[1], r[2], m, move)
  PROVE  MInv'
<1> DEFINE a == r[1]
           n == r[2]
           w == Mem(p)
           from == IF mmap_next[p] > MmapBase THEN mmap_next[p] ELSE MmapBase
<1>0. a \in Page /\ n \in Nat \ {0} /\ m \in Nat \ {0}
  BY RangeArguments, ArgumentAssumption, Numbers
<1>1. p \in running /\ UNCHANGED <<tasks, next_pid, running>>
  BY DEF SysMremap
<1>2. AllRemappable(w, a, n)
  BY DEF SysMremap, AllRemappable
<1>3. PICK v : /\ Store(p, v)
               /\ \/ v \in RemapInPlace(w, a, n, m)
                  \/ v \in UNION {RemapTo(w, a, n, m, t) : t \in FirstFree(w, from, m)}
  BY DEF SysMremap
<1> HIDE DEF a, n, from
<1>4. Sound(w, Context(p))
  BY <1>1, MemSound
<1> HIDE DEF w
<1>5. CASE v \in RemapInPlace(w, a, n, m)
  BY <1>0, <1>1, <1>2, <1>3, <1>4, <1>5, RemapInPlaceSound, CallInv
<1>6. CASE v \in UNION {RemapTo(w, a, n, m, t) : t \in FirstFree(w, from, m)}
  <2>1. PICK t \in FirstFree(w, from, m) : v \in RemapTo(w, a, n, m, t)
    BY <1>6
  <2>2. t \in Page
    BY DEF FirstFree
  <2> QED BY <1>0, <1>1, <1>2, <1>3, <1>4, <2>1, <2>2, RemapToSound, CallInv
<1> QED BY <1>3, <1>5, <1>6

\* mremap to a fixed place.
LEMMA MremapFixedInv ==
  ASSUME MInv, NEW p \in Pid, NEW r \in Ranges, NEW m \in NewSizes, NEW t \in Page,
         SysMremapFixed(p, r[1], r[2], m, t)
  PROVE  MInv'
<1> DEFINE a == r[1]
           n == r[2]
           w == Mem(p)
<1>0. a \in Page /\ n \in Nat \ {0} /\ m \in Nat \ {0}
  BY RangeArguments, ArgumentAssumption, Numbers
<1>1. p \in running /\ UNCHANGED <<tasks, next_pid, running>>
  BY DEF SysMremapFixed
<1>2. AllRemappable(w, a, n)
  BY DEF SysMremapFixed, AllRemappable
<1>3. PICK v : Store(p, v) /\ (v \in RemapInPlace(w, a, n, m) \/ v \in RemapTo(w, a, n, m, t))
  BY DEF SysMremapFixed
<1> HIDE DEF a, n
<1>4. Sound(w, Context(p))
  BY <1>1, MemSound
<1> HIDE DEF w
<1>5. Sound(v, Context(p))
  BY <1>0, <1>2, <1>3, <1>4, RemapInPlaceSound, RemapToSound
<1> QED BY <1>1, <1>3, <1>5, CallInv

\* A copy to user memory, which may grow the stack.
LEMMA CopyInv ==
  ASSUME MInv, NEW p \in Pid, NEW pg \in Page, UserCopy(p, pg)
  PROVE  MInv'
<1>1. /\ p \in running /\ UNCHANGED <<tasks, next_pid, running>>
      /\ StackLow <= pg /\ pg < StackBottom - Mem(p).stack
  BY DEF UserCopy, InStackArea, Mem
<1>2. PICK w \in GrowStack(Mem(p), pg) : Store(p, w)
  BY DEF UserCopy
<1>3. Sound(Mem(p), Context(p))
  BY <1>1, MemSound
<1>4. Sound(w, Context(p))
  BY <1>1, <1>3, GrowStackSound
<1> QED BY <1>1, <1>2, <1>4, CallInv

\* A fault in the stack area.
LEMMA FaultOnStackInv ==
  ASSUME MInv, NEW p \in Pid, NEW pg \in Page, NEW access, FaultOnStack(p, pg, access)
  PROVE  MInv'
<1>1. p \in running /\ StackLow <= pg /\ pg < StackBottom - Mem(p).stack
  BY DEF FaultOnStack, Faults, InStackArea, Mem
<1>2. PICK w \in GrowStack(Mem(p), pg) : FaultEnds(p, w)
  BY DEF FaultOnStack
<1>3. Sound(Mem(p), Context(p))
  BY <1>1, MemSound
<1>4. w \in RecType /\ Sound(w, Context(p))
  BY <1>1, <1>3, GrowStackSound
<1>5. Ended(w, Mem(p), Context(p))
  BY <1>4, SoundEnded
<1> QED BY <1>1, <1>2, <1>5, FaultInv

\* A fault in the heap.
LEMMA FaultOnHeapInv ==
  ASSUME MInv, NEW p \in Pid, NEW pg \in Page, NEW access, FaultOnHeap(p, pg, access)
  PROVE  MInv'
<1> DEFINE m == Mem(p)
<1>1. /\ p \in running /\ ~(StackLow <= pg /\ pg < StackBottom - m.stack)
      /\ lookup_memory_map(m.maps, pg) = {} /\ LazyAt(m, pg) = {}
  BY DEF FaultOnHeap, Faults, InStackArea, Mem
<1>2. PICK w \in map_fault_page(m, pg, RW, "Heap") \cup FailedAlloc(m) : FaultEnds(p, w)
  BY DEF FaultOnHeap
<1>3. Sound(m, Context(p))
  BY <1>1, MemSound
<1>4. Ended(w, m, Context(p))
  <2> HIDE DEF m
  <2> QED BY <1>1, <1>2, <1>3, HeapFaultEnded
<1> QED BY <1>1, <1>2, <1>4, FaultInv

\* A fault on a lazy page.
LEMMA FaultOnLazyInv ==
  ASSUME MInv, NEW p \in Pid, NEW pg \in Page, NEW access, FaultOnLazy(p, pg, access)
  PROVE  MInv'
<1> DEFINE m == Mem(p)
<1>1. p \in running /\ lookup_memory_map(m.maps, pg) = {}
  BY DEF FaultOnLazy, Faults, Mem
<1>2. Sound(m, Context(p))
  BY <1>1, MemSound
<1>3. PICK l \in LazyAt(m, pg) :
        \/ LET w == [m EXCEPT !.lazy = @ \ {l}]
           IN  \E v \in map_fault_page(w, pg, l.flags, "Anonymous") \cup FailedAlloc(w) :
                 FaultEnds(p, v)
        \/ \E n \in 1..MaxSpan, f \in Candidates(Frame \ used) :
             /\ \A i \in 0..(n - 1) : [l EXCEPT !.page = pg + i] \in lazy_memory_maps[p]
             /\ FaultEnds(p, AddEntries(
                  [m EXCEPT !.lazy = {k \in @ : k.page \notin pg..(pg + n - 1)}],
                  {Entry(pg, n, f, l.flags, "FileBacked")}))
  BY DEF FaultOnLazy
<1>4. l \in m.lazy /\ l.page = pg /\ m.lazy = lazy_memory_maps[p] /\ m.used = used
  BY DEF LazyAt, Mem
<1>5. ASSUME NEW v \in map_fault_page(Lazier(m, m.lazy \ {l}), pg, l.flags, "Anonymous")
                         \cup FailedAlloc(Lazier(m, m.lazy \ {l})), FaultEnds(p, v)
      PROVE  MInv'
  <2>1. Ended(v, m, Context(p))
    <3> HIDE DEF m
    <3> QED BY <1>1, <1>2, <1>4, <1>5, LazyAnonymousEnded
  <2> QED BY <1>1, <1>5, <2>1, FaultInv
<1>6. ASSUME NEW n \in 1..MaxSpan, NEW f \in Candidates(Frame \ used),
             \A i \in 0..(n - 1) : [l EXCEPT !.page = pg + i] \in lazy_memory_maps[p],
             FaultEnds(p, AddEntries([m
               EXCEPT !.lazy = {k \in m.lazy : k.page \notin pg..(pg + n - 1)}],
                                     {Entry(pg, n, f, l.flags, "FileBacked")}))
      PROVE  MInv'
  <2> DEFINE v == AddEntries([m EXCEPT !.lazy = {k \in m.lazy : k.page \notin pg..(pg + n - 1)}],
                             {Entry(pg, n, f, l.flags, "FileBacked")})
  <2>1. Ended(v, m, Context(p))
    <3>1. n \in Nat \ {0} /\ f \in Candidates(Frame \ m.used)
      BY <1>4, <1>6, LayoutAssumption
    <3>2. \A i \in 0..(n - 1) : [l EXCEPT !.page = pg + i] \in m.lazy
      BY <1>4, <1>6
    <3> HIDE DEF m
    <3> QED BY <1>2, <1>4, <3>1, <3>2, LazyFileEnded
  <2>2. FaultEnds(p, v)
    BY <1>6
  <2> HIDE DEF v
  <2> QED BY <1>1, <2>1, <2>2, FaultInv
<1> QED BY <1>3, <1>5, <1>6 DEF Lazier

\* A fault on a mapped page: copy on write, or a stale entry.
LEMMA FaultOnEntryInv ==
  ASSUME MInv, NEW p \in Pid, NEW pg \in Page, NEW access, FaultOnEntry(p, pg, access)
  PROVE  MInv'
<1> DEFINE m == Mem(p)
<1>1. p \in running /\ (access = "w" => ~Writable(m.pte, pg))
  BY DEF FaultOnEntry, Faults, Mem, Writable
<1>2. m \in RecType /\ Sound(m, Context(p)) /\ m.maps = memory_maps[p]
  BY <1>1, MemSound DEF Mem
<1>3. PICK e \in lookup_memory_map(memory_maps[p], pg) :
       \/ /\ CowStore(e, access)
          /\ \E w \in resolve_cow_fault(m, e) : FaultEnds(p, w)
       \/ /\ \E flags \in Adjusted(e, access) :
               \E w \in remap_existing_page(m, e, flags) :
                 FaultEnds(p, Lifts(w, {[e EXCEPT !.flags = flags]}))
       \/ \E w \in remap_existing_page(m, e, IF e.cow THEN e.flags \ {"w"} ELSE e.flags) :
            FaultEnds(p, w)
  BY DEF FaultOnEntry
<1>4. e \in m.maps /\ pg \in Span(e) /\ e.flags \in Perms
  <2>1. MapsOK(m.maps, m.lazy)
    BY <1>2 DEF Sound, Storable
  <2>2. e \in m.maps /\ pg \in Span(e)
    BY <1>2, <2>1, Lookup
  <2> QED BY <2>1, <2>2 DEF MapsOK, EntryType
<1>5. ASSUME CowStore(e, access), NEW w \in resolve_cow_fault(m, e), FaultEnds(p, w)
      PROVE  MInv'
  <2>1. access = "w" /\ e.cow
    BY <1>5 DEF CowStore
  <2>2. Ended(w, m, Context(p))
    <3> HIDE DEF m
    <3> QED BY <1>1, <1>2, <1>4, <1>5, <2>1, CowFaultEnded
  <2> QED BY <1>1, <1>5, <2>2, FaultInv
<1>6. ASSUME NEW flags \in Adjusted(e, access), NEW w \in remap_existing_page(m, e, flags),
             FaultEnds(p, Lifts(w, {[e EXCEPT !.flags = flags]}))
      PROVE  MInv'
  <2> DEFINE v == Lifts(w, {[e EXCEPT !.flags = flags]})
  <2>1. flags \in Perms
    <3>1. flags = (e.flags \cup {"w"}) \ {"x"} \/ flags = (e.flags \cup {"x"}) \ {"w"}
      BY <1>6 DEF Adjusted
    <3> QED BY <3>1, <1>4 DEF Perms
  <2>2. v \in RecType /\ Sound(v, Context(p))
    <3> HIDE DEF m
    <3> QED BY <1>2, <1>4, <1>6, <2>1, AdjustSound
  <2>3. FaultEnds(p, v)
    BY <1>6
  <2> HIDE DEF v
  <2>4. Ended(v, m, Context(p))
    BY <2>2, SoundEnded
  <2> QED BY <1>1, <2>3, <2>4, FaultInv
<1>7. ASSUME NEW w \in remap_existing_page(m, e, IF e.cow THEN e.flags \ {"w"} ELSE e.flags),
             FaultEnds(p, w)
      PROVE  MInv'
  <2> DEFINE flags == IF e.cow THEN e.flags \ {"w"} ELSE e.flags
  <2>1. flags \in Perms
    BY <1>4 DEF Perms
  <2>2. "w" \in flags => "w" \in e.flags /\ ~e.cow
    OBVIOUS
  <2>3. w \in remap_existing_page(m, e, flags)
    BY <1>7
  <2> HIDE DEF flags
  <2>4. Allowed({e}, flags, m.lifted)
    BY <2>2 DEF Allowed
  <2>5. w \in RecType /\ Sound(w, Context(p))
    <3> HIDE DEF m
    <3> QED BY <1>2, <1>4, <2>1, <2>3, <2>4, RemapPageSound
  <2>6. Ended(w, m, Context(p))
    BY <2>5, SoundEnded
  <2> QED BY <1>1, <1>7, <2>6, FaultInv
<1> HIDE DEF m
<1> QED BY <1>3, <1>5, <1>6, <1>7

\* A fault nothing answers.
LEMMA FaultFatalInv ==
  ASSUME MInv, NEW p \in Pid, NEW pg \in Page, NEW access, FaultFatal(p, pg, access)
  PROVE  MInv'
<1>1. p \in tasks /\ terminate_process(p)
  BY DEF FaultFatal, Faults, MInv
<1> QED BY <1>1, TerminateInv

\* The initial state is the one with no address space at all, after process 1 has
\* been given the program.
LEMMA InitInv == ImageClear /\ Init => MInv
<1> SUFFICES ASSUME ImageClear, Init PROVE MInv
  OBVIOUS
<1> DEFINE zero == [f \in Frame |-> 0]
           mm0 == [p \in Pid |-> {}]
           st0 == [p \in Pid |-> 0]
           table0 == [pg \in Page |-> NoFrame]
           pt0 == [p \in Pid |-> table0]
           c == ContextIn(mm0, zero, {}, {}, 1)
<1>0. 1 \in Pid /\ MaxPid \in Nat /\ 2 \in 2..(MaxPid + 1)
  BY LayoutAssumption DEF Pid
<1>1. /\ HeapStart \in Breaks /\ MmapBase \in MmapBase..MmapLimit
      /\ 0 \in 0..(StackBottom - StackLow) /\ 0 \in 0..MaxFailures /\ StackBottom \in Nat
  BY Numbers, LayoutAssumption
<1>2. PICK w \in Complete(NewMem) :
        /\ memory_maps = [p \in Pid |-> IF p = 1 THEN w.maps ELSE {}]
        /\ pte = [p \in Pid |-> IF p = 1 THEN w.pte ELSE NewMem.pte]
        /\ stack_size = [p \in Pid |-> IF p = 1 THEN w.stack ELSE 0]
        /\ used = w.used /\ lost = w.lost
  BY DEF Init
<1>3. /\ tasks = {1} /\ next_pid = 2 /\ running = {1}
      /\ lazy_memory_maps = [p \in Pid |-> {}] /\ heap_brk = [p \in Pid |-> HeapStart]
      /\ mmap_next = [p \in Pid |-> MmapBase] /\ frame_cap_refs = zero /\ lifted = {}
      /\ failures = 0
  BY DEF Init
<1>4. /\ NewMem.maps = {} /\ NewMem.lazy = {} /\ NewMem.stack = 0 /\ NewMem.pte = table0
      /\ NewMem.refs = zero /\ NewMem.used = {} /\ NewMem.lost = {} /\ NewMem.lifted = {}
  BY DEF NewMem
<1>5. table0 \in PteType /\ \A pg \in Page : table0[pg] = NoFrame
  BY DEF PteType
<1>6. NewMem \in RecType
  BY <1>1, <1>5 DEF NewMem, RecType
<1> HIDE DEF table0
<1>7. \A p \in Pid, f \in Frame : Cardinality(HoldersIn(mm0, f) \ {p}) = 0 /\ HoldersIn(mm0, f) = {}
  <2>1. \A p \in Pid, f \in Frame : HoldersIn(mm0, f) \ {p} = {} /\ HoldersIn(mm0, f) = {}
    BY DEF HoldersIn
  <2> QED BY <2>1, FS_EmptySet
<1>8. /\ MapsOK({}, {}) /\ StackOK({}, {}, 0) /\ PteOK({}, table0, {})
      /\ \A d : d.lifted = {} => CowOK({}, table0, {}, {}, d)
  <2>1. StackOK({}, {}, 0)
    BY <1>1 DEF StackOK
  <2>2. MapsOK({}, {}) /\ PteOK({}, table0, {})
    BY <1>5 DEF MapsOK, PteOK
  <2>3. \A d : d.lifted = {} => CowOK({}, table0, {}, {}, d)
    BY <1>5 DEF CowOK, Writable
  <2> QED BY <2>1, <2>2, <2>3
<1>9. \A p \in Pid : LET d == ContextIn(mm0, zero, {}, {}, p)
                     IN  d.lifted = {} /\ FramesOK({}, zero, {}, {}, d)
  <2> SUFFICES ASSUME NEW p \in Pid
               PROVE  LET d == ContextIn(mm0, zero, {}, {}, p)
                      IN  d.lifted = {} /\ FramesOK({}, zero, {}, {}, d)
    OBVIOUS
  <2> DEFINE d == ContextIn(mm0, zero, {}, {}, p)
  <2>1. /\ d.lifted = {} /\ d.lost = {} /\ d.refs = zero
        /\ \A f \in Frame : d.others[f] = Cardinality(HoldersIn(mm0, f) \ {p})
    BY DEF ContextIn
  <2>2. zero \in [Frame -> Nat] /\ \A f \in Frame : zero[f] = 0
    OBVIOUS
  <2> HIDE DEF d, mm0, zero
  <2>3. \A f \in Frame : d.others[f] = 0 /\ d.refs[f] = 0 /\ f \notin d.lost
    BY <2>1, <2>2, <1>7
  <2>4. FramesOK({}, zero, {}, {}, d)
    BY <2>2, <2>3 DEF FramesOK, FrameOK
  <2> QED BY <2>1, <2>4 DEF d
<1>10. Spaces(mm0, mm0, st0, pt0, zero, {}, {}, {})
  <2>1. \A p \in Pid : mm0[p] = {} /\ st0[p] = 0 /\ pt0[p] = table0 /\ Names({}) = {}
    BY DEF Names
  <2> HIDE DEF mm0, st0, pt0, zero
  <2> QED BY <2>1, <1>8, <1>9 DEF Spaces, SpaceOK
<1>11. Loaded(NewMem, c, {})
  <2>1. Names({}) = {}
    BY DEF Names
  <2>2. c.lifted = {} /\ FramesOK({}, zero, {}, {}, c)
    BY <1>0, <1>9
  <2> HIDE DEF c, zero
  <2>3. Storable(NewMem, c)
    BY <1>4, <1>6, <1>8, <2>1, <2>2 DEF Storable
  <2> QED BY <1>4, <1>6, <2>3 DEF Loaded, Sound, Uniform, TlsFree
<1>12. w \in RecType /\ Sound(w, c) /\ w.lazy = {} /\ w.lifted = {}
  <2> HIDE DEF c
  <2> QED BY <1>4, <1>11, CompleteSound
<1>13. Storable(w, c) /\ Uniform(w.maps, w.pte)
  BY <1>12 DEF Sound
<1>14. w.refs = zero
  <2>1. c.refs = zero
    BY DEF ContextIn
  <2>2. \A f \in Frame : zero[f] = 0
    OBVIOUS
  <2> HIDE DEF c
  <2>3. w.refs \in [Frame -> Nat] /\ \A f \in Frame : w.refs[f] <= zero[f]
    BY <1>13, <2>1 DEF Storable, FramesOK
  <2>4. \A f \in Frame : w.refs[f] = 0
    BY <2>2, <2>3
  <2> QED BY <2>3, <2>4
<1>15. /\ Changed(mm0, memory_maps, 1, w.maps) /\ Changed(mm0, lazy_memory_maps, 1, w.lazy)
       /\ Changed(st0, stack_size, 1, w.stack) /\ Changed(pt0, pte, 1, w.pte)
  BY <1>0, <1>2, <1>3, <1>4, <1>12 DEF Changed
<1>16. Spaces(memory_maps, lazy_memory_maps, stack_size, pte, frame_cap_refs, used, lost, lifted)
  <2>1. Spaces(memory_maps, lazy_memory_maps, stack_size, pte, w.refs, w.used, w.lost,
               w.lifted \cap w.used)
    <3> DEFINE e == {}
               one == 1
    <3>1. Storable(w, ContextIn(mm0, zero, e, e, one))
          /\ Spaces(mm0, mm0, st0, pt0, zero, e, e, e) /\ one \in Pid
      BY <1>0, <1>10, <1>13
    <3>2. /\ Changed(mm0, memory_maps, one, w.maps) /\ Changed(mm0, lazy_memory_maps, one, w.lazy)
          /\ Changed(st0, stack_size, one, w.stack) /\ Changed(pt0, pte, one, w.pte)
      BY <1>15
    <3> HIDE DEF mm0, zero, st0, pt0, e, one
    <3> QED BY <3>1, <3>2, UpdateSpaces
  <2>2. w.lifted \cap w.used = {}
    BY <1>12
  <2> QED BY <1>2, <1>3, <1>14, <2>1, <2>2
<1>17. /\ memory_maps \in [Pid -> SUBSET EntryType] /\ lazy_memory_maps \in [Pid -> SUBSET LazyType]
       /\ heap_brk \in [Pid -> Breaks] /\ mmap_next \in [Pid -> MmapBase..MmapLimit]
       /\ stack_size \in [Pid -> 0..(StackBottom - StackLow)] /\ pte \in [Pid -> PteType]
  <2>1. /\ w.maps \in SUBSET EntryType /\ w.stack \in 0..(StackBottom - StackLow)
        /\ w.pte \in PteType
    BY <1>12 DEF RecType
  <2> QED BY <1>1, <1>2, <1>3, <1>4, <1>5, <2>1
<1>18. \A p \in Pid : p >= next_pid => memory_maps[p] = {}
  BY <1>2, <1>3
<1>19. \A p \in running : Uniform(memory_maps[p], pte[p])
  BY <1>0, <1>2, <1>3, <1>13
<1>20. /\ tasks \subseteq Pid /\ running \subseteq tasks /\ next_pid \in 2..(MaxPid + 1)
       /\ (\A p \in tasks : p < next_pid) /\ lifted \subseteq used /\ failures \in 0..MaxFailures
       /\ \A f \in Frame : frame_cap_refs[f] < next_pid
  BY <1>0, <1>1, <1>3
<1> QED BY <1>16, <1>17, <1>18, <1>19, <1>20 DEF MInv

-----------------------------------------------------------------------------
(***************************************************************************)
(* fork                                                                    *)
(***************************************************************************)
LEMMA SpacesFrames ==
  ASSUME NEW mm, NEW lz, NEW st, NEW pt, NEW refs, NEW U, NEW L, NEW lift,
         Spaces(mm, lz, st, pt, refs, U, L, lift)
  PROVE  FrameState(mm, refs, U, L)
<1>0. 1 \in Pid
  BY LayoutAssumption DEF Pid
<1>1. ASSUME NEW p \in Pid
      PROVE  /\ FramesOK(Names(mm[p]), refs, U, L, ContextIn(mm, refs, L, lift, p))
             /\ Names(mm[p]) \subseteq Frame /\ U \subseteq Frame /\ L \subseteq Frame
             /\ refs \in [Frame -> Nat]
  BY DEF Spaces, SpaceOK, FramesOK
<1>2. ASSUME NEW f \in Frame
      PROVE  FrameOK(FALSE, Cardinality(HoldersIn(mm, f)), refs[f], f \in U, f \in L)
  <2> DEFINE n == Cardinality(HoldersIn(mm, f))
             k == Cardinality(HoldersIn(mm, f) \ {1})
  <2>1. n \in Nat /\ k \in Nat /\ n = IF f \in Names(mm[1]) THEN k + 1 ELSE k
    BY <1>0, HolderCount
  <2>2. ContextIn(mm, refs, L, lift, 1).others[f] = k
    BY DEF ContextIn
  <2> HIDE DEF n, k
  <2>3. FrameOK(f \in Names(mm[1]), k, refs[f], f \in U, f \in L)
    BY <1>0, <1>1, <2>2 DEF FramesOK
  <2>4. FrameOK(FALSE, n, refs[f], f \in U, f \in L)
    BY <2>1, <2>3 DEF FrameOK
  <2> QED BY <2>4 DEF n
<1> QED BY <1>0, <1>1, <1>2 DEF FrameState

AllCow(maps) == \A e \in maps : "w" \in e.flags => e.cow
NoStores(table) == \A pg \in Page : ~Writable(table, pg)

\* A process that has none gets the entries of another one, every one of them read
\* only or copy on write, with a page table that allows no store: the frames are
\* counted once more.
LEMMA ShareSpaces ==
  ASSUME NEW mm, NEW lz, NEW st, NEW pt, NEW refs, NEW U, NEW L, NEW lift,
         Spaces(mm, lz, st, pt, refs, U, L, lift), NEW p \in Pid, NEW q \in Pid, p # q, mm[q] = {},
         AllCow(mm[p]), NEW table, NoStores(table), PteOK(mm[p], table, L),
         NEW mm2, NEW lz2, NEW st2, NEW pt2, Changed(mm, mm2, q, mm[p]), Changed(lz, lz2, q, lz[p]),
         Changed(st, st2, q, st[p]), Changed(pt, pt2, q, table)
  PROVE  Spaces(mm2, lz2, st2, pt2, retain_frame_cap(refs, Names(mm[p])), U, L, lift)
<1> DEFINE N == Names(mm[p])
           new == retain_frame_cap(refs, N)
           C(x) == ContextIn(mm, refs, L, lift, x)
           C2(x) == ContextIn(mm2, new, L, lift, x)
<1>1. \A x \in Pid : /\ MapsOK(mm[x], lz[x]) /\ StackOK(mm[x], lz[x], st[x])
                     /\ FramesOK(Names(mm[x]), refs, U, L, C(x))
                     /\ PteOK(mm[x], pt[x], L) /\ CowOK(mm[x], pt[x], L, lift, C(x))
  BY DEF Spaces, SpaceOK
<1>2. /\ mm2[q] = mm[p] /\ lz2[q] = lz[p] /\ st2[q] = st[p] /\ pt2[q] = table
      /\ \A x \in Pid :
           x # q => mm2[x] = mm[x] /\ lz2[x] = lz[x] /\ st2[x] = st[x] /\ pt2[x] = pt[x]
  BY DEF Changed
<1>3. FrameState(mm, refs, U, L)
  BY SpacesFrames
<1>4. \A x \in Pid, f \in Frame :
        /\ C(x).others[f] = 0 <=> \A r \in Pid : r = x \/ f \notin Names(mm[r])
        /\ C2(x).others[f] = 0 <=> \A r \in Pid : r = x \/ f \notin Names(mm2[r])
  BY OthersNone
<1>5. \A x \in Pid : C(x).lifted = lift /\ C2(x).lifted = lift
  BY DEF ContextIn
<1>6. FrameState(mm2, new, U, L)
  <2>1. /\ U \subseteq Frame /\ L \subseteq Frame /\ refs \in [Frame -> Nat]
        /\ \A x \in Pid : Names(mm[x]) \subseteq Frame
    BY <1>3 DEF FrameState
  <2>2. new \in [Frame -> Nat] /\ \A x \in Pid : Names(mm2[x]) \subseteq Frame
    <3>1. new \in [Frame -> Nat]
      BY <2>1 DEF retain_frame_cap
    <3> QED BY <3>1, <2>1, <1>2
  <2>3. ASSUME NEW f \in Frame
        PROVE  FrameOK(FALSE, Cardinality(HoldersIn(mm2, f)), new[f], f \in U, f \in L)
    <3> DEFINE n == Cardinality(HoldersIn(mm, f))
               n2 == Cardinality(HoldersIn(mm2, f))
               k == Cardinality(HoldersIn(mm, f) \ {q})
               k2 == Cardinality(HoldersIn(mm2, f) \ {q})
               kp == Cardinality(HoldersIn(mm, f) \ {p})
    <3>1. /\ n \in Nat /\ k \in Nat /\ n = IF f \in Names(mm[q]) THEN k + 1 ELSE k
      BY HolderCount
    <3>2. /\ kp \in Nat /\ n = IF f \in N THEN kp + 1 ELSE kp
      BY HolderCount
    <3>3. /\ n2 \in Nat /\ k2 \in Nat /\ n2 = IF f \in Names(mm2[q]) THEN k2 + 1 ELSE k2
      BY HolderCount
    <3>4. k = k2
      <4>1. HoldersIn(mm, f) \ {q} = HoldersIn(mm2, f) \ {q}
        BY <1>2 DEF HoldersIn
      <4> QED BY <4>1
    <3>5. f \notin Names(mm[q]) /\ Names(mm2[q]) = N
      BY <1>2 DEF Names
    <3>6. FrameOK(FALSE, n, refs[f], f \in U, f \in L)
      BY <1>3 DEF FrameState
    <3>7. new[f] = IF f \notin N THEN refs[f] ELSE IF refs[f] = 0 THEN 2 ELSE refs[f] + 1
      BY DEF retain_frame_cap
    <3> HIDE DEF n, n2, k, k2, kp, new, N
    <3>8. FrameOK(FALSE, n2, new[f], f \in U, f \in L)
      BY <3>1, <3>2, <3>3, <3>4, <3>5, <3>6, <3>7 DEF FrameOK
    <3> QED BY <3>8 DEF n2
  <2> HIDE DEF new
  <2> QED BY <2>1, <2>2, <2>3 DEF FrameState
<1>7. \A x \in Pid : FramesOK(Names(mm2[x]), new, U, L, C2(x))
  BY <1>6, FramesAtRest DEF C2
<1> HIDE DEF new, C, C2
<1>8. ASSUME NEW x \in Pid, x # q, NEW f \in Frame, C2(x).others[f] # 0
      PROVE  C(x).others[f] # 0 \/ (x = p /\ f \in N)
  <2>1. PICK r \in Pid : r # x /\ f \in Names(mm2[r])
    BY <1>4, <1>8
  <2>2. CASE r # q
    BY <2>1, <2>2, <1>2, <1>4
  <2>3. CASE r = q
    BY <2>1, <2>3, <1>2, <1>4
  <2> QED BY <2>2, <2>3
<1>9. ASSUME NEW x \in Pid, x # q PROVE CowOK(mm[x], pt[x], L, lift, C2(x))
  <2>0. CowOK(mm[x], pt[x], L, lift, C(x)) /\ FramesOK(Names(mm[x]), refs, U, L, C(x))
    BY <1>1
  <2>1. \A e \in mm[x] : e.frame \in Frame /\ e.frame \in Names(mm[x])
    BY <2>0 DEF FramesOK, Names
  <2>2. \A e \in mm[x] : "w" \in e.flags /\ ~e.cow /\ C2(x).others[e.frame] # 0 => e.frame \in lift
    BY <2>0, <2>1, <1>8, <1>9 DEF CowOK, AllCow
  <2>3. \A e \in mm[x] : \A pg \in Span(e) :
          Writable(pt[x], pg) =>
            pt[x][pg].frame = e.frame /\ (("w" \in e.flags /\ ~e.cow) \/ e.frame \in lift)
    BY <2>0 DEF CowOK
  <2>4. \A pg \in Page :
          Writable(pt[x], pg) /\ (\A e \in mm[x] : pg \notin Span(e)) =>
            /\ pt[x][pg].frame \in L /\ C2(x).others[pt[x][pg].frame] = 0
            /\ \A e \in mm[x] : e.frame # pt[x][pg].frame
    <3> SUFFICES ASSUME NEW pg \in Page, Writable(pt[x], pg), \A e \in mm[x] : pg \notin Span(e)
                 PROVE  /\ pt[x][pg].frame \in L /\ C2(x).others[pt[x][pg].frame] = 0
                        /\ \A e \in mm[x] : e.frame # pt[x][pg].frame
      OBVIOUS
    <3>1. /\ pt[x][pg].frame \in L /\ C(x).others[pt[x][pg].frame] = 0
          /\ \A e \in mm[x] : e.frame # pt[x][pg].frame
      BY <2>0 DEF CowOK
    <3>2. pt[x][pg].frame \in Frame /\ (x = p => pt[x][pg].frame \notin N)
      BY <2>0, <3>1 DEF FramesOK, Names
    <3> QED BY <3>1, <3>2, <1>8, <1>9
  <2> QED BY <2>2, <2>3, <2>4, <1>5 DEF CowOK
<1>10. CowOK(mm[p], table, L, lift, C2(q))
  <2>1. \A e \in mm[p] : Span(e) \subseteq Page
    BY <1>1 DEF MapsOK
  <2> QED BY <1>5, <2>1 DEF CowOK, AllCow, NoStores
<1>11. ASSUME NEW x \in Pid
       PROVE  SpaceOK(mm2[x], lz2[x], st2[x], pt2[x], new, U, L, lift, C2(x))
  <2>1. CASE x = q
    BY <2>1, <1>1, <1>2, <1>7, <1>10 DEF SpaceOK
  <2>2. CASE x # q
    BY <2>2, <1>1, <1>2, <1>7, <1>9 DEF SpaceOK
  <2> QED BY <2>1, <2>2
<1> QED BY <1>11 DEF Spaces, C2, new

\* A fork that failed: frames were counted for a child that names none of them.
LEMMA LoseSpaces ==
  ASSUME NEW mm, NEW lz, NEW st, NEW pt, NEW refs, NEW U, NEW L, NEW lift,
         Spaces(mm, lz, st, pt, refs, U, L, lift), NEW p \in Pid, NEW q \in Pid, p # q, mm[q] = {},
         NEW N \in SUBSET Names(mm[p]), NEW table, NoStores(table), PteOK({}, table, L \cup N),
         NEW lz2, NEW st2, NEW pt2, Changed(lz, lz2, q, {}), Changed(st, st2, q, 0),
         Changed(pt, pt2, q, table)
  PROVE  Spaces(mm, lz2, st2, pt2, retain_frame_cap(refs, N), U, L \cup N, lift)
<1> DEFINE L2 == L \cup N
           new == retain_frame_cap(refs, N)
           C(x) == ContextIn(mm, refs, L, lift, x)
           C2(x) == ContextIn(mm, new, L2, lift, x)
<1>1. \A x \in Pid : /\ MapsOK(mm[x], lz[x]) /\ StackOK(mm[x], lz[x], st[x])
                     /\ FramesOK(Names(mm[x]), refs, U, L, C(x))
                     /\ PteOK(mm[x], pt[x], L) /\ CowOK(mm[x], pt[x], L, lift, C(x))
  BY DEF Spaces, SpaceOK
<1>2. /\ lz2[q] = {} /\ st2[q] = 0 /\ pt2[q] = table
      /\ \A x \in Pid : x # q => lz2[x] = lz[x] /\ st2[x] = st[x] /\ pt2[x] = pt[x]
  BY DEF Changed
<1>3. FrameState(mm, refs, U, L)
  BY SpacesFrames
<1>4. \A x \in Pid : /\ C(x).lifted = lift /\ C2(x).lifted = lift
                     /\ \A f \in Frame : C(x).others[f] = C2(x).others[f]
  BY DEF ContextIn
<1>5. FrameState(mm, new, U, L2)
  <2>1. /\ U \subseteq Frame /\ L \subseteq Frame /\ refs \in [Frame -> Nat]
        /\ \A x \in Pid : Names(mm[x]) \subseteq Frame
    BY <1>3 DEF FrameState
  <2>2. new \in [Frame -> Nat] /\ L2 \subseteq Frame
    <3>1. new \in [Frame -> Nat]
      BY <2>1 DEF retain_frame_cap
    <3> QED BY <3>1, <2>1
  <2>3. ASSUME NEW f \in Frame
        PROVE  FrameOK(FALSE, Cardinality(HoldersIn(mm, f)), new[f], f \in U, f \in L2)
    <3> DEFINE n == Cardinality(HoldersIn(mm, f))
               k == Cardinality(HoldersIn(mm, f) \ {p})
    <3>1. /\ n \in Nat /\ k \in Nat /\ n = IF f \in Names(mm[p]) THEN k + 1 ELSE k
      BY HolderCount
    <3>2. FrameOK(FALSE, n, refs[f], f \in U, f \in L)
      BY <1>3 DEF FrameState
    <3>3. /\ new[f] = IF f \notin N THEN refs[f] ELSE IF refs[f] = 0 THEN 2 ELSE refs[f] + 1
          /\ f \in N => f \in Names(mm[p])
          /\ f \in L2 <=> f \in L \/ f \in N
      BY DEF retain_frame_cap
    <3> HIDE DEF n, k, new, L2
    <3>4. FrameOK(FALSE, n, new[f], f \in U, f \in L2)
      BY <3>1, <3>2, <3>3 DEF FrameOK
    <3> QED BY <3>4 DEF n
  <2> HIDE DEF new, L2
  <2> QED BY <2>1, <2>2, <2>3 DEF FrameState
<1>6. \A x \in Pid : FramesOK(Names(mm[x]), new, U, L2, C2(x))
  BY <1>5, FramesAtRest DEF C2
<1>7. \A f \in L : f \in L2
  OBVIOUS
<1> HIDE DEF new, C, C2, L2
<1>8. ASSUME NEW x \in Pid, x # q
      PROVE CowOK(mm[x], pt[x], L2, lift, C2(x)) /\ PteOK(mm[x], pt[x], L2)
  <2>0. /\ CowOK(mm[x], pt[x], L, lift, C(x)) /\ FramesOK(Names(mm[x]), refs, U, L, C(x))
        /\ PteOK(mm[x], pt[x], L)
    BY <1>1
  <2>1. \A e \in mm[x] : e.frame \in Frame
    BY <2>0 DEF FramesOK, Names
  <2>2. \A e \in mm[x] : "w" \in e.flags /\ ~e.cow /\ C2(x).others[e.frame] # 0 => e.frame \in lift
    BY <2>0, <2>1, <1>4 DEF CowOK
  <2>3. \A e \in mm[x] : \A pg \in Span(e) :
          Writable(pt[x], pg) =>
            pt[x][pg].frame = e.frame /\ (("w" \in e.flags /\ ~e.cow) \/ e.frame \in lift)
    BY <2>0 DEF CowOK
  <2>4. \A f \in L : f \in Frame /\ f \in L2
    BY <2>0, <1>7 DEF FramesOK
  <2>5. \A pg \in Page :
          Writable(pt[x], pg) /\ (\A e \in mm[x] : pg \notin Span(e)) =>
            /\ pt[x][pg].frame \in L2 /\ C2(x).others[pt[x][pg].frame] = 0
            /\ \A e \in mm[x] : e.frame # pt[x][pg].frame
    BY <2>0, <2>4, <1>4 DEF CowOK
  <2>6. PteOK(mm[x], pt[x], L2)
    BY <2>0, <1>7 DEF PteOK
  <2> QED BY <2>2, <2>3, <2>5, <2>6, <1>4 DEF CowOK
<1>9. CowOK({}, table, L2, lift, C2(q)) /\ PteOK({}, table, L2)
  BY <1>4 DEF CowOK, NoStores, L2
<1>10. MapsOK({}, {}) /\ StackOK({}, {}, 0)
  BY Numbers DEF MapsOK, StackOK
<1>11. ASSUME NEW x \in Pid
       PROVE  SpaceOK(mm[x], lz2[x], st2[x], pt2[x], new, U, L2, lift, C2(x))
  <2>1. CASE x = q
    BY <2>1, <1>2, <1>6, <1>9, <1>10 DEF SpaceOK
  <2>2. CASE x # q
    BY <2>2, <1>1, <1>2, <1>6, <1>8 DEF SpaceOK
  <2> QED BY <2>1, <2>2
<1> QED BY <1>11 DEF Spaces, C2, new, L2

\* An entry that was marked, and one mapped without write permission.
Cow(e) == [e EXCEPT !.cow = e.cow \/ "w" \in e.flags]
Read(e) == [e EXCEPT !.flags = e.flags \ {"w"}]

\* Marking and write-protecting leave place and frame.
LEMMA CowFields ==
  ASSUME NEW e \in EntryType
  PROVE  /\ Cow(e) \in EntryType /\ SamePlace(e, Cow(e)) /\ Span(Cow(e)) = Span(e)
         /\ Cow(e).flags = e.flags /\ Cow(e).frame = e.frame /\ ("w" \in e.flags => Cow(e).cow)
         /\ e.cow \/ "w" \notin e.flags => Cow(e) = e
         /\ Read(e) \in EntryType /\ Span(Read(e)) = Span(e)
         /\ Read(e).frame = e.frame /\ Read(e).flags = e.flags \ {"w"}
<1>1. Cow(e) \in EntryType /\ SamePlace(e, Cow(e)) /\ Cow(e).flags = e.flags
  BY DEF Cow, EntryType, SamePlace
<1>2. "w" \in e.flags => Cow(e).cow
  BY DEF Cow, EntryType
<1>3. e.cow \/ "w" \notin e.flags => Cow(e) = e
  <2>1. e.cow \/ "w" \notin e.flags => (e.cow \/ "w" \in e.flags) = e.cow
    BY DEF EntryType
  <2>2. e = [e EXCEPT !.cow = e.cow]
    BY DEF EntryType
  <2> QED BY <2>1, <2>2 DEF Cow
<1>4. /\ Read(e) \in EntryType /\ Read(e).frame = e.frame /\ Read(e).flags = e.flags \ {"w"}
      /\ Read(e).vaddr = e.vaddr /\ Read(e).pages = e.pages
  BY DEF Read, EntryType, Perms
<1> HIDE DEF Cow, Read
<1>5. Span(Cow(e)) = Span(e) /\ Span(Read(e)) = Span(e)
  BY <1>1, <1>4 DEF SamePlace, Span
<1> QED BY <1>1, <1>2, <1>3, <1>4, <1>5 DEF SamePlace

\* The parent after the entries D were shared, the counts aside.
Fresher(D) == {e \in D : "w" \in e.flags /\ ~e.cow}
ParentMarked(w, D) ==
  [w EXCEPT !.maps = (w.maps \ D) \cup Cowed(D), !.pte = Mapped(w.pte, ReadOnly(Fresher(D)))]

\* Marking entries copy-on-write and write-protecting them is sound for the parent.
LEMMA ParentSound ==
  ASSUME NEW w, NEW c, Storable(w, c), NEW D \in SUBSET w.maps
  PROVE  LET v == ParentMarked(w, D)
         IN  /\ v \in RecType /\ Storable(v, c) /\ (Sound(w, c) => Sound(v, c))
             /\ v.maps = (w.maps \ D) \cup Cowed(D) /\ v.pte = Mapped(w.pte, ReadOnly(Fresher(D)))
             /\ v.refs = w.refs /\ v.used = w.used /\ v.lost = w.lost /\ v.lifted = w.lifted
             /\ v.lazy = w.lazy /\ v.stack = w.stack /\ v.brk = w.brk /\ v.next = w.next
             /\ v.failures = w.failures
             /\ Names(v.maps) = Names(w.maps) /\ AllCow(Cowed(D))
<1> DEFINE v == ParentMarked(w, D)
           F == Fresher(D)
           t == Mapped(w.pte, ReadOnly(F))
           M == (w.maps \ D) \cup Cowed(D)
<1>0. w \in RecType /\ w.pte \in PteType /\ MapsOK(w.maps, w.lazy)
      /\ CowOK(w.maps, w.pte, w.lost, w.lifted, c)
  BY DEF Storable, RecType
<1>1. \A e \in w.maps : e \in EntryType /\ Span(e) \subseteq Page
  BY <1>0 DEF MapsOK
<1>2. Cowed(D) = {Cow(d) : d \in D} /\ ReadOnly(F) = {Read(d) : d \in F}
  BY DEF Cowed, ReadOnly, Cow, Read
<1>3. F \subseteq D /\ \A d \in D : d \in F <=> "w" \in d.flags /\ ~d.cow
  BY DEF Fresher
<1> HIDE DEF F
<1>4. \A d \in w.maps : /\ Cow(d) \in EntryType /\ SamePlace(d, Cow(d)) /\ Span(Cow(d)) = Span(d)
                        /\ Cow(d).flags = d.flags /\ Cow(d).frame = d.frame
                        /\ "w" \in d.flags => Cow(d).cow
                        /\ d.cow \/ "w" \notin d.flags => Cow(d) = d
                        /\ Read(d) \in EntryType /\ Span(Read(d)) = Span(d)
                        /\ Read(d).frame = d.frame /\ Read(d).flags = d.flags \ {"w"}
  BY <1>1, CowFields
<1>5. /\ t \in PteType
      /\ \A d \in F : \A pg \in Span(d) : t[pg] = [frame |-> d.frame, perms |-> d.flags \ {"w"}]
      /\ \A pg \in Page : (\A d \in F : pg \notin Span(d)) => t[pg] = w.pte[pg]
  <2>1. ReadOnly(F) \in SUBSET EntryType /\ Apart(ReadOnly(F))
    <3>1. \A d, e \in w.maps : d # e => Span(d) \cap Span(e) = {}
      BY <1>0 DEF MapsOK
    <3> QED BY <1>2, <1>3, <1>4, <3>1 DEF Apart
  <2>2. /\ t \in PteType
        /\ \A e \in ReadOnly(F), pg \in Page :
             pg \in Span(e) => t[pg] = [frame |-> e.frame, perms |-> e.flags]
        /\ \A pg \in Page : (\A e \in ReadOnly(F) : pg \notin Span(e)) => t[pg] = w.pte[pg]
    BY <1>0, <2>1, MappedAt
  <2> HIDE DEF t
  <2>3. ASSUME NEW d \in F, NEW pg \in Span(d)
        PROVE  t[pg] = [frame |-> d.frame, perms |-> d.flags \ {"w"}]
    <3>1. Read(d) \in ReadOnly(F) /\ pg \in Span(Read(d)) /\ pg \in Page
      BY <1>1, <1>2, <1>3, <1>4
    <3>2. t[pg] = [frame |-> Read(d).frame, perms |-> Read(d).flags]
      BY <2>2, <3>1
    <3> QED BY <3>2, <1>3, <1>4
  <2>4. ASSUME NEW pg \in Page, \A d \in F : pg \notin Span(d) PROVE t[pg] = w.pte[pg]
    BY <2>2, <2>4, <1>2, <1>3, <1>4
  <2> QED BY <2>2, <2>3, <2>4
<1> HIDE DEF t
<1>6. M \in SUBSET EntryType
  BY <1>1, <1>2, <1>4
<1>7. Names(M) = Names(w.maps)
  BY <1>2, <1>4 DEF Names
<1>8. AllCow(Cowed(D))
  BY <1>2, <1>4 DEF AllCow
<1>9. \A e \in M : \E d \in w.maps : SamePlace(d, e) /\ (e = d \/ (d \in D /\ e = Cow(d)))
  BY <1>2, <1>4 DEF SamePlace
<1>10. \A d \in w.maps : \E e \in M : SamePlace(d, e)
  BY <1>2, <1>4 DEF SamePlace
<1>11. \A d, e \in M : d.vaddr = e.vaddr => d = e
  <2> SUFFICES ASSUME NEW d \in M, NEW e \in M, d.vaddr = e.vaddr PROVE d = e
    OBVIOUS
  <2>1. PICK a \in w.maps :
               SamePlace(a, d) /\ ((d \in w.maps \ D /\ d = a) \/ (a \in D /\ d = Cow(a)))
    BY <1>2, <1>4 DEF SamePlace
  <2>2. PICK b \in w.maps :
               SamePlace(b, e) /\ ((e \in w.maps \ D /\ e = b) \/ (b \in D /\ e = Cow(b)))
    BY <1>2, <1>4 DEF SamePlace
  <2>3. a.vaddr = b.vaddr
    BY <2>1, <2>2 DEF SamePlace
  <2>4. a.vaddr \in Span(a) /\ b.vaddr \in Span(b)
    BY <1>1, SpanOf
  <2>5. a = b
    BY <2>3, <2>4, <1>0 DEF MapsOK
  <2> QED BY <2>1, <2>2, <2>5
<1>12. ASSUME NEW e \in M PROVE TableFor(e, w.maps, w.pte, t, w.lifted)
  <2>1. PICK d \in w.maps :
               SamePlace(d, e) /\ ((d \in w.maps \ D /\ e = d) \/ (d \in D /\ e = Cow(d)))
    BY <1>2, <1>4 DEF SamePlace
  <2>2. CASE d \in F
    <3>1. e = Cow(d) /\ Span(e) = Span(d) /\ e.frame = d.frame
      BY <2>1, <2>2, <1>3, <1>4
    <3>2. \A pg \in Span(e) : t[pg] = [frame |-> e.frame, perms |-> d.flags \ {"w"}]
      BY <3>1, <2>2, <1>5
    <3> QED BY <3>2 DEF TableFor
  <2>3. CASE d \notin F
    <3>1. e = d
      BY <2>1, <2>3, <1>3, <1>4
    <3>2. \A x \in F : Span(x) \cap Span(d) = {}
      BY <2>3, <1>0, <1>3 DEF MapsOK
    <3>3. \A pg \in Span(d) : t[pg] = w.pte[pg]
      BY <3>2, <1>1, <1>5
    <3> QED BY <3>1, <3>3 DEF TableFor
  <2> QED BY <2>2, <2>3
<1>13. \A e \in M : "w" \in e.flags /\ ~e.cow /\ c.others[e.frame] # 0 => e.frame \in w.lifted
  BY <1>0, <1>2, <1>4 DEF CowOK
<1>14. \A pg \in Page : (\A e \in w.maps : pg \notin Span(e)) => t[pg] = w.pte[pg]
  BY <1>3, <1>5
<1> HIDE DEF M
<1>15. Retabled(w.maps, w.pte, M, t, w.lifted, c)
  BY <1>9, <1>10, <1>11, <1>12, <1>13, <1>14 DEF Retabled
<1>16. v = [w EXCEPT !.maps = M, !.pte = t]
  BY DEF ParentMarked, M, t, F
<1> HIDE DEF v
<1>17. /\ v \in RecType /\ v.maps = M /\ v.pte = t
       /\ v.refs = w.refs /\ v.used = w.used /\ v.lost = w.lost /\ v.lifted = w.lifted
       /\ v.lazy = w.lazy /\ v.stack = w.stack /\ v.brk = w.brk /\ v.next = w.next
       /\ v.failures = w.failures
  BY <1>0, <1>5, <1>6, <1>16 DEF RecType
<1>18. Storable(v, c) /\ (Sound(w, c) => Sound(v, c))
  BY <1>15, <1>17, RetableSound
<1> QED BY <1>7, <1>8, <1>17, <1>18 DEF v, M, t, F

\* The child's page table maps what was shared, and nothing writable.
ChildTable(D) == Mapped(NewMem.pte, ReadOnly(D))

\* Its page table names only frames of the shared entries.
LEMMA ChildTableOf ==
  ASSUME NEW D \in SUBSET EntryType, \A d \in D : Span(d) \subseteq Page, Apart(D)
  PROVE  /\ ChildTable(D) \in PteType /\ NoStores(ChildTable(D))
         /\ \A pg \in Page : \/ ChildTable(D)[pg] = NoFrame
                             \/ \E d \in D : pg \in Span(d) /\ ChildTable(D)[pg].frame = d.frame
<1> DEFINE t == ChildTable(D)
<1>1. NewMem.pte \in PteType /\ \A pg \in Page : NewMem.pte[pg] = NoFrame
  BY DEF NewMem, PteType
<1>2. ReadOnly(D) = {Read(d) : d \in D}
  BY DEF ReadOnly, Read
<1>3. \A d \in D : /\ Read(d) \in EntryType /\ Span(Read(d)) = Span(d)
                   /\ Read(d).frame = d.frame /\ Read(d).flags = d.flags \ {"w"}
  BY CowFields
<1>4. ReadOnly(D) \in SUBSET EntryType /\ Apart(ReadOnly(D))
  BY <1>2, <1>3 DEF Apart
<1>5. /\ t \in PteType
      /\ \A e \in ReadOnly(D), pg \in Page :
           pg \in Span(e) => t[pg] = [frame |-> e.frame, perms |-> e.flags]
      /\ \A pg \in Page : (\A e \in ReadOnly(D) : pg \notin Span(e)) => t[pg] = NewMem.pte[pg]
  BY <1>1, <1>4, MappedAt DEF ChildTable
<1> HIDE DEF t
<1>6. ASSUME NEW pg \in Page, NEW d \in D, pg \in Span(d)
      PROVE  t[pg].frame = d.frame /\ "w" \notin t[pg].perms
  <2>1. t[pg] = [frame |-> Read(d).frame, perms |-> Read(d).flags]
    BY <1>2, <1>3, <1>5, <1>6
  <2> QED BY <2>1, <1>3
<1>7. ASSUME NEW pg \in Page, \A d \in D : pg \notin Span(d) PROVE t[pg] = NoFrame
  BY <1>1, <1>2, <1>3, <1>5, <1>7
<1> QED BY <1>5, <1>6, <1>7 DEF NoStores, Writable, t

\* What both outcomes of fork have in common: p's tables, as they are after D was
\* shared, and the child is a process without tables.
LEMMA ForkParentSpaces ==
  ASSUME MInv, NEW p \in running, NEW v, Storable(v, Context(p)), v.lazy = lazy_memory_maps[p],
         v.stack = stack_size[p], v.refs = frame_cap_refs, v.used = used, v.lost = lost,
         v.lifted = lifted
  PROVE  Spaces([memory_maps EXCEPT ![p] = v.maps], lazy_memory_maps, stack_size,
                [pte EXCEPT ![p] = v.pte], frame_cap_refs, used, lost, lifted)
<1> DEFINE mm1 == [memory_maps EXCEPT ![p] = v.maps]
           pt1 == [pte EXCEPT ![p] = v.pte]
<1>1. p \in Pid /\ memory_maps \in [Pid -> SUBSET EntryType] /\ pte \in [Pid -> PteType]
      /\ lifted \cap used = lifted
  BY DEF MInv
<1>2. /\ Changed(memory_maps, mm1, p, v.maps)
      /\ Changed(lazy_memory_maps, lazy_memory_maps, p, v.lazy)
      /\ Changed(stack_size, stack_size, p, v.stack) /\ Changed(pte, pt1, p, v.pte)
  BY <1>1 DEF Changed
<1>3. /\ Spaces(memory_maps, lazy_memory_maps, stack_size, pte, frame_cap_refs, used, lost, lifted)
      /\ Storable(v, ContextIn(memory_maps, frame_cap_refs, lost, lifted, p))
  BY DEF MInv, Context
<1> HIDE DEF mm1, pt1
<1>4. Spaces(mm1, lazy_memory_maps, stack_size, pt1, v.refs, v.used, v.lost, v.lifted \cap v.used)
  BY <1>1, <1>2, <1>3, UpdateSpaces
<1> QED BY <1>1, <1>4 DEF mm1, pt1

\* Retaining adds one at most to a count, or makes it two.
LEMMA RetainBound ==
  ASSUME NEW refs \in [Frame -> Nat], NEW N, NEW n \in Nat, n >= 2, \A f \in Frame : refs[f] < n
  PROVE  \A f \in Frame : retain_frame_cap(refs, N)[f] < n + 1
BY DEF retain_frame_cap

\* fork: the child shares every frame of the parent, each counted once more.
LEMMA ForkInv ==
  ASSUME MInv, NEW p \in Pid, SysFork(p)
  PROVE  MInv'
<1> DEFINE q == next_pid
           w == Mem(p)
           M == Cowed(memory_maps[p])
           T == Mapped(pte[p], ReadOnly(Fresher(memory_maps[p])))
           X == ChildTable(memory_maps[p])
           v == ParentMarked(w, w.maps)
<1>1. /\ p \in running /\ next_pid <= MaxPid /\ tasks' = tasks \cup {next_pid}
      /\ next_pid' = next_pid + 1
  BY DEF SysFork, Registers
<1>2. /\ running \subseteq tasks /\ tasks \subseteq Pid /\ next_pid \in 2..(MaxPid + 1)
      /\ memory_maps \in [Pid -> SUBSET EntryType] /\ lazy_memory_maps \in [Pid -> SUBSET LazyType]
      /\ heap_brk \in [Pid -> Breaks] /\ mmap_next \in [Pid -> MmapBase..MmapLimit]
      /\ stack_size \in [Pid -> 0..(StackBottom - StackLow)] /\ pte \in [Pid -> PteType]
      /\ \A r \in tasks : r < next_pid
  BY DEF MInv
<1>3. next_pid \in Nat /\ q \in Pid /\ p # q /\ memory_maps[q] = {} /\ p < next_pid
  <2>1. MaxPid \in Nat
    BY LayoutAssumption
  <2>2. next_pid \in Nat /\ q \in Pid /\ p < next_pid /\ p \in Nat
    BY <1>1, <1>2, <2>1 DEF Pid
  <2> QED BY <2>2 DEF MInv
<1>4. /\ w.maps = memory_maps[p] /\ w.pte = pte[p] /\ w.refs = frame_cap_refs /\ w.lost = lost
      /\ w.lazy = lazy_memory_maps[p] /\ w.stack = stack_size[p] /\ w.brk = heap_brk[p]
      /\ w.next = mmap_next[p] /\ w.used = used /\ w.lifted = lifted /\ w.failures = failures
  BY DEF Mem
<1>5. w \in RecType /\ Sound(w, Context(p)) /\ Storable(w, Context(p)) /\ MapsOK(w.maps, w.lazy)
  BY <1>1, MemSound DEF Sound, Storable
<1>6. /\ memory_maps' = [memory_maps EXCEPT ![p] = M, ![q] = M]
      /\ lazy_memory_maps' = [lazy_memory_maps EXCEPT ![q] = lazy_memory_maps[p]]
      /\ heap_brk' = [heap_brk EXCEPT ![q] = heap_brk[p]]
      /\ mmap_next' = [mmap_next EXCEPT ![q] = mmap_next[p]]
      /\ stack_size' = [stack_size EXCEPT ![q] = stack_size[p]]
      /\ pte' = [pte EXCEPT ![p] = T, ![q] = X]
      /\ frame_cap_refs' = retain_frame_cap(frame_cap_refs, Names(memory_maps[p]))
      /\ lost' = lost /\ used' = used /\ lifted' = lifted /\ failures' = failures
      /\ running' \in {running, running \cup {next_pid}}
  <2> DEFINE fp == ForkParent(w, w.maps)
             ch == [maps |-> Cowed(w.maps), lazy |-> w.lazy, brk |-> w.brk, next |-> w.next,
                    stack |-> w.stack, pte |-> Mapped(NewMem.pte, ReadOnly(w.maps))]
  <2>1. StoreBoth(p, fp, q, ch) /\ running' \in {running, running \cup {next_pid}}
    BY DEF SysFork
  <2>2. /\ ch.maps = M /\ ch.lazy = lazy_memory_maps[p] /\ ch.brk = heap_brk[p]
        /\ ch.next = mmap_next[p] /\ ch.stack = stack_size[p] /\ ch.pte = X
    BY <1>4 DEF ChildTable
  <2>3. fp = [w EXCEPT !.maps = (w.maps \ w.maps) \cup Cowed(w.maps),
                       !.pte = Mapped(w.pte, ReadOnly(Fresher(w.maps))),
                       !.refs = retain_frame_cap(w.refs, Names(w.maps))]
    BY DEF ForkParent, Fresher, Names
  <2>4. (w.maps \ w.maps) \cup Cowed(w.maps) = M
    BY <1>4
  <2>5. /\ fp.maps = M /\ fp.pte = T /\ fp.lost = lost /\ fp.failures = failures
        /\ fp.refs = retain_frame_cap(frame_cap_refs, Names(memory_maps[p]))
    <3> HIDE DEF w, M, fp, ch
    <3> QED BY <2>3, <2>4, <1>4, <1>5 DEF RecType
  <2> HIDE DEF fp, ch, w, M, T, X
  <2> QED BY <2>1, <2>2, <2>5 DEF StoreBoth
<1>7. /\ v \in RecType /\ Storable(v, Context(p)) /\ Sound(v, Context(p)) /\ v.maps = M /\ v.pte = T
      /\ v.lazy = lazy_memory_maps[p] /\ v.stack = stack_size[p] /\ v.refs = frame_cap_refs
      /\ v.used = used /\ v.lost = lost /\ v.lifted = lifted
      /\ Names(M) = Names(memory_maps[p]) /\ AllCow(M)
  <2> DEFINE D == w.maps
  <2>1. D \in SUBSET w.maps /\ (w.maps \ D) \cup Cowed(D) = M
    BY <1>4
  <2>2. /\ v \in RecType /\ Storable(v, Context(p)) /\ Sound(v, Context(p))
        /\ v.maps = (w.maps \ D) \cup Cowed(D) /\ v.pte = Mapped(w.pte, ReadOnly(Fresher(D)))
        /\ v.refs = w.refs /\ v.used = w.used /\ v.lost = w.lost /\ v.lifted = w.lifted
        /\ v.lazy = w.lazy /\ v.stack = w.stack
        /\ Names(v.maps) = Names(w.maps) /\ AllCow(Cowed(D))
    BY <1>5, <2>1, ParentSound
  <2> QED BY <1>4, <2>1, <2>2
<1>8. X \in PteType /\ NoStores(X) /\ PteOK(M, X, lost)
  <2> DEFINE D == memory_maps[p]
  <2>1. D \in SUBSET EntryType /\ (\A d \in D : Span(d) \subseteq Page) /\ Apart(D)
    BY <1>4, <1>5 DEF MapsOK, Apart
  <2>2. /\ X \in PteType /\ NoStores(X)
        /\ \A pg \in Page : X[pg] = NoFrame \/ \E d \in D : pg \in Span(d) /\ X[pg].frame = d.frame
    BY <2>1, ChildTableOf
  <2>3. \A d \in D : Cow(d) \in M /\ Span(Cow(d)) = Span(d) /\ Cow(d).frame = d.frame
    BY <2>1, CowFields DEF Cowed, Cow
  <2> HIDE DEF X, M
  <2> QED BY <2>2, <2>3 DEF PteOK
<1> HIDE DEF q, w, M, T, X, v
<1> DEFINE mm1 == [memory_maps EXCEPT ![p] = M]
           pt1 == [pte EXCEPT ![p] = T]
<1>9. Spaces(mm1, lazy_memory_maps, stack_size, pt1, frame_cap_refs, used, lost, lifted)
  BY <1>1, <1>7, ForkParentSpaces
<1>10. /\ mm1[p] = M /\ mm1[q] = {} /\ pt1[p] = T
       /\ Changed(mm1, memory_maps', q, mm1[p])
       /\ Changed(lazy_memory_maps, lazy_memory_maps', q, lazy_memory_maps[p])
       /\ Changed(stack_size, stack_size', q, stack_size[p]) /\ Changed(pt1, pte', q, X)
  BY <1>2, <1>3, <1>6 DEF Changed
<1>11. Spaces(memory_maps', lazy_memory_maps', stack_size', pte', frame_cap_refs', used', lost',
              lifted')
  <2>1. AllCow(mm1[p]) /\ PteOK(mm1[p], X, lost) /\ Names(mm1[p]) = Names(memory_maps[p])
    BY <1>7, <1>8, <1>10
  <2> HIDE DEF mm1, pt1
  <2>2. Spaces(memory_maps', lazy_memory_maps', stack_size', pte',
               retain_frame_cap(frame_cap_refs, Names(mm1[p])), used, lost, lifted)
    BY <1>3, <1>8, <1>9, <1>10, <2>1, ShareSpaces
  <2> QED BY <1>6, <2>1, <2>2
<1>12. /\ memory_maps' \in [Pid -> SUBSET EntryType]
       /\ lazy_memory_maps' \in [Pid -> SUBSET LazyType]
       /\ heap_brk' \in [Pid -> Breaks] /\ mmap_next' \in [Pid -> MmapBase..MmapLimit]
       /\ stack_size' \in [Pid -> 0..(StackBottom - StackLow)] /\ pte' \in [Pid -> PteType]
  <2>1. M \in SUBSET EntryType /\ T \in PteType
    BY <1>7 DEF RecType
  <2> QED BY <1>2, <1>3, <1>6, <1>8, <2>1
<1>13. \A f \in Frame : frame_cap_refs'[f] < next_pid'
  <2>1. frame_cap_refs \in [Frame -> Nat] /\ next_pid >= 2
        /\ \A f \in Frame : frame_cap_refs[f] < next_pid
    BY <1>2, <1>7 DEF MInv, RecType
  <2> QED BY <1>1, <1>3, <1>6, <2>1, RetainBound
<1>14. \A r \in Pid : r >= next_pid' => memory_maps'[r] = {}
  <2> SUFFICES ASSUME NEW r \in Pid, r >= next_pid' PROVE memory_maps'[r] = {}
    OBVIOUS
  <2>1. r \in Int /\ p \in Int
    BY LayoutAssumption DEF Pid
  <2>2. r >= next_pid /\ r # q /\ r # p
    BY <1>1, <1>3, <2>1 DEF q
  <2>3. memory_maps[r] = {}
    BY <2>2 DEF MInv
  <2> QED BY <1>2, <1>6, <2>2, <2>3
<1>15. \A r \in running' : Uniform(memory_maps'[r], pte'[r])
  <2>1. \A r \in running : r \in Pid /\ r < next_pid /\ Uniform(memory_maps[r], pte[r])
    BY <1>2 DEF MInv
  <2>2. Uniform(M, T)
    BY <1>7 DEF Sound
  <2>3. Uniform(M, X)
    <3>1. \A e \in M : Span(e) \subseteq Page
      BY <1>7 DEF Storable, MapsOK
    <3> QED BY <3>1, <1>8 DEF Uniform, NoStores
  <2>4. memory_maps'[p] = M /\ memory_maps'[q] = M /\ pte'[p] = T /\ pte'[q] = X
        /\ \A r \in Pid : r # p /\ r # q => memory_maps'[r] = memory_maps[r] /\ pte'[r] = pte[r]
    BY <1>2, <1>3, <1>6
  <2>5. \A r \in running' : r \in running \/ r = q
    BY <1>6 DEF q
  <2> QED BY <2>1, <2>2, <2>3, <2>4, <2>5
<1>16. /\ tasks' \subseteq Pid /\ running' \subseteq tasks' /\ next_pid' \in 2..(MaxPid + 1)
       /\ \A r \in tasks' : r < next_pid'
  <2>1. MaxPid \in Nat
    BY LayoutAssumption
  <2>2. \A r \in tasks : r \in Int
    BY <1>2, <2>1 DEF Pid
  <2> QED BY <1>1, <1>2, <1>3, <1>6, <2>1, <2>2 DEF q
<1>17. lifted' \subseteq used' /\ failures' \in 0..MaxFailures
  BY <1>6 DEF MInv
<1> QED BY <1>11, <1>12, <1>13, <1>14, <1>15, <1>16, <1>17 DEF MInv

\* fork failing at entry e: the entries below it are shared, and the child never runs.
LEMMA ForkFailsInv ==
  ASSUME MInv, NEW p \in Pid, NEW e \in memory_maps[p], SysForkFails(p, e)
  PROVE  MInv'
<1> DEFINE q == next_pid
           m == Mem(p)
           D == {d \in memory_maps[p] : d.vaddr < e.vaddr}
           N == Names(D)
           u == ParentMarked(m, D)
           X == ChildTable(D)
<1>1. /\ p \in running /\ next_pid <= MaxPid /\ tasks' = tasks \cup {next_pid}
      /\ next_pid' = next_pid + 1 /\ running' = running
  BY DEF SysForkFails, Registers
<1>2. /\ running \subseteq tasks /\ tasks \subseteq Pid /\ next_pid \in 2..(MaxPid + 1)
      /\ memory_maps \in [Pid -> SUBSET EntryType] /\ lazy_memory_maps \in [Pid -> SUBSET LazyType]
      /\ heap_brk \in [Pid -> Breaks] /\ mmap_next \in [Pid -> MmapBase..MmapLimit]
      /\ stack_size \in [Pid -> 0..(StackBottom - StackLow)] /\ pte \in [Pid -> PteType]
      /\ \A r \in tasks : r < next_pid
  BY DEF MInv
<1>3. next_pid \in Nat /\ q \in Pid /\ p # q /\ memory_maps[q] = {} /\ p < next_pid
  <2>1. MaxPid \in Nat
    BY LayoutAssumption
  <2>2. next_pid \in Nat /\ q \in Pid /\ p < next_pid /\ p \in Nat
    BY <1>1, <1>2, <2>1 DEF Pid
  <2> QED BY <2>2 DEF MInv
<1>4. /\ m.maps = memory_maps[p] /\ m.pte = pte[p] /\ m.refs = frame_cap_refs /\ m.lost = lost
      /\ m.lazy = lazy_memory_maps[p] /\ m.stack = stack_size[p]
      /\ m.used = used /\ m.lifted = lifted /\ m.failures = failures
  BY DEF Mem
<1>5. m \in RecType /\ Sound(m, Context(p)) /\ Storable(m, Context(p)) /\ MapsOK(m.maps, m.lazy)
  BY <1>1, MemSound DEF Sound, Storable
<1>6. D \in SUBSET m.maps /\ e \in m.maps \ D
  <2>1. e \in EntryType
    BY <1>2
  <2>2. ~(e.vaddr < e.vaddr)
    BY <2>1, SpanOf
  <2> QED BY <1>4, <2>2
<1>7. /\ u \in RecType /\ Storable(u, Context(p)) /\ Sound(u, Context(p))
      /\ u.maps = (m.maps \ D) \cup Cowed(D) /\ u.pte = Mapped(m.pte, ReadOnly(Fresher(D)))
      /\ u.refs = m.refs /\ u.used = m.used /\ u.lost = m.lost /\ u.lifted = m.lifted
      /\ u.lazy = m.lazy /\ u.stack = m.stack /\ Names(u.maps) = Names(m.maps)
  <2> HIDE DEF D, m
  <2> QED BY <1>5, <1>6, ParentSound
<1> DEFINE w == [Failed(ForkParent(m, D)) EXCEPT !.lost = @ \cup {d.frame : d \in D}]
           ch == [NewMem EXCEPT !.pte = Mapped(@, ReadOnly(D))]
<1>8. PICK v : /\ v = w \/ v = [w EXCEPT !.pte = Unmapped(@, Span(e))]
               /\ StoreBoth(p, v, q, ch)
  BY DEF SysForkFails
<1>9. w = [m EXCEPT !.maps = u.maps, !.pte = u.pte, !.refs = retain_frame_cap(m.refs, N),
                    !.lost = m.lost \cup N, !.failures = m.failures + 1]
  <2> DEFINE fp == ForkParent(m, D)
  <2>1. fp = [m EXCEPT !.maps = (m.maps \ D) \cup Cowed(D),
                       !.pte = Mapped(m.pte, ReadOnly(Fresher(D))),
                       !.refs = retain_frame_cap(m.refs, Names(D))]
    BY DEF ForkParent, Fresher, Names
  <2>2. w = [[fp EXCEPT !.failures = fp.failures + 1] EXCEPT !.lost = @ \cup N]
    BY DEF Failed, Names
  <2> HIDE DEF fp, w, N, m, D, u
  <2> QED BY <2>1, <2>2, <1>5, <1>7 DEF RecType, N
<1>10. /\ ch.maps = {} /\ ch.lazy = {} /\ ch.brk = HeapStart /\ ch.next = MmapBase
       /\ ch.stack = 0 /\ ch.pte = X
  BY DEF NewMem, ChildTable
<1> HIDE DEF w, ch
<1>11. PICK x : /\ x \in RecType /\ Storable(x, Context(p)) /\ Sound(x, Context(p))
                /\ x.maps = u.maps /\ x.pte = v.pte /\ x.lazy = u.lazy /\ x.stack = u.stack
                /\ x.refs = u.refs /\ x.used = u.used /\ x.lost = u.lost /\ x.lifted = u.lifted
  <2>1. CASE v = w
    <3>1. v.pte = u.pte
      BY <2>1, <1>5, <1>9 DEF RecType
    <3> QED BY <3>1, <1>7
  <2>2. CASE v = [w EXCEPT !.pte = Unmapped(@, Span(e))]
    <3>1. v.pte = Unmapped(u.pte, Span(e))
      BY <2>2, <1>5, <1>9 DEF RecType
    <3>2. e \in u.maps
      BY <1>6, <1>7
    <3> HIDE DEF u
    <3>3. Bare(u, e) \in RecType /\ Storable(Bare(u, e), Context(p))
          /\ Sound(Bare(u, e), Context(p))
      BY <1>7, <3>2, BareSound
    <3>4. /\ Bare(u, e).maps = u.maps /\ Bare(u, e).pte = Unmapped(u.pte, Span(e))
          /\ Bare(u, e).lazy = u.lazy /\ Bare(u, e).stack = u.stack /\ Bare(u, e).refs = u.refs
          /\ Bare(u, e).used = u.used /\ Bare(u, e).lost = u.lost /\ Bare(u, e).lifted = u.lifted
      BY <1>7 DEF RecType, Bare
    <3> QED BY <3>1, <3>3, <3>4
  <2> QED BY <2>1, <2>2, <1>8
<1>12. /\ v.maps = x.maps /\ v.refs = retain_frame_cap(frame_cap_refs, N) /\ v.lost = lost \cup N
       /\ v.failures = failures + 1
  <2>1. /\ v.maps = u.maps /\ v.refs = retain_frame_cap(m.refs, N) /\ v.lost = m.lost \cup N
        /\ v.failures = m.failures + 1
    <3> HIDE DEF m, u, N
    <3> QED BY <1>5, <1>8, <1>9 DEF RecType
  <2> QED BY <2>1, <1>4, <1>11
<1>13. /\ memory_maps' = [memory_maps EXCEPT ![p] = x.maps, ![q] = {}]
       /\ lazy_memory_maps' = [lazy_memory_maps EXCEPT ![q] = {}]
       /\ heap_brk' = [heap_brk EXCEPT ![q] = HeapStart]
       /\ mmap_next' = [mmap_next EXCEPT ![q] = MmapBase]
       /\ stack_size' = [stack_size EXCEPT ![q] = 0]
       /\ pte' = [pte EXCEPT ![p] = x.pte, ![q] = X]
       /\ frame_cap_refs' = retain_frame_cap(frame_cap_refs, N) /\ lost' = lost \cup N
       /\ failures' = failures + 1 /\ failures + 1 <= MaxFailures
       /\ used' = used /\ lifted' = lifted
  <2> HIDE DEF q, m, D, N, u, X
  <2> QED BY <1>8, <1>10, <1>11, <1>12 DEF StoreBoth
<1>14. X \in PteType /\ NoStores(X) /\ PteOK({}, X, lost \cup N)
  <2>1. D \in SUBSET EntryType /\ (\A d \in D : Span(d) \subseteq Page) /\ Apart(D)
    BY <1>5, <1>6 DEF MapsOK, Apart
  <2>2. /\ X \in PteType /\ NoStores(X)
        /\ \A pg \in Page : X[pg] = NoFrame \/ \E d \in D : pg \in Span(d) /\ X[pg].frame = d.frame
    <3> HIDE DEF D
    <3> QED BY <2>1, ChildTableOf
  <2>3. \A d \in D : d.frame \in N
    BY DEF Names
  <2> HIDE DEF X, D, N
  <2> QED BY <2>2, <2>3 DEF PteOK
<1> DEFINE mm1 == [memory_maps EXCEPT ![p] = x.maps]
           pt1 == [pte EXCEPT ![p] = x.pte]
<1>15. Spaces(mm1, lazy_memory_maps, stack_size, pt1, frame_cap_refs, used, lost, lifted)
  BY <1>1, <1>4, <1>7, <1>11, ForkParentSpaces
<1>16. N \in SUBSET Names(x.maps)
  <2>1. Names(x.maps) = Names(m.maps)
    BY <1>7, <1>11
  <2> QED BY <1>6, <2>1 DEF Names
<1> HIDE DEF q, m, D, N, u, X
<1>17. /\ memory_maps' = mm1 /\ mm1[p] = x.maps /\ mm1[q] = {}
       /\ Changed(lazy_memory_maps, lazy_memory_maps', q, {})
       /\ Changed(stack_size, stack_size', q, 0) /\ Changed(pt1, pte', q, X)
  BY <1>2, <1>3, <1>13 DEF Changed
<1>18. Spaces(memory_maps', lazy_memory_maps', stack_size', pte', frame_cap_refs', used', lost',
              lifted')
  <2>1. N \in SUBSET Names(mm1[p])
    BY <1>16, <1>17
  <2> HIDE DEF mm1, pt1
  <2>2. Spaces(mm1, lazy_memory_maps', stack_size', pte', retain_frame_cap(frame_cap_refs, N), used,
               lost \cup N, lifted)
    BY <1>3, <1>14, <1>15, <1>17, <2>1, LoseSpaces
  <2> QED BY <1>13, <1>17, <2>2
<1>19. /\ memory_maps' \in [Pid -> SUBSET EntryType]
       /\ lazy_memory_maps' \in [Pid -> SUBSET LazyType]
       /\ heap_brk' \in [Pid -> Breaks] /\ mmap_next' \in [Pid -> MmapBase..MmapLimit]
       /\ stack_size' \in [Pid -> 0..(StackBottom - StackLow)] /\ pte' \in [Pid -> PteType]
  <2>1. x.maps \in SUBSET EntryType /\ x.pte \in PteType
    BY <1>11 DEF RecType
  <2>2. HeapStart \in Breaks /\ MmapBase \in MmapBase..MmapLimit
        /\ 0 \in 0..(StackBottom - StackLow)
    BY Numbers
  <2> QED BY <1>2, <1>3, <1>13, <1>14, <2>1, <2>2
<1>20. \A f \in Frame : frame_cap_refs'[f] < next_pid'
  <2>1. frame_cap_refs \in [Frame -> Nat] /\ next_pid >= 2
        /\ \A f \in Frame : frame_cap_refs[f] < next_pid
    BY <1>2, <1>4, <1>5 DEF MInv, RecType
  <2> QED BY <1>1, <1>3, <1>13, <2>1, RetainBound
<1>21. \A r \in Pid : r >= next_pid' => memory_maps'[r] = {}
  <2> SUFFICES ASSUME NEW r \in Pid, r >= next_pid' PROVE memory_maps'[r] = {}
    OBVIOUS
  <2>1. r \in Int /\ p \in Int
    BY LayoutAssumption DEF Pid
  <2>2. r >= next_pid /\ r # p
    BY <1>1, <1>3, <2>1
  <2>3. memory_maps[r] = {}
    BY <2>2 DEF MInv
  <2> QED BY <1>2, <1>17, <2>2, <2>3
<1>22. \A r \in running' : Uniform(memory_maps'[r], pte'[r])
  <2>1. \A r \in running : r \in Pid /\ r # q /\ Uniform(memory_maps[r], pte[r])
    <3>1. \A r \in running : r \in Pid /\ r < next_pid /\ Uniform(memory_maps[r], pte[r])
      BY <1>2 DEF MInv
    <3>2. \A r \in Pid : r \in Int
      BY LayoutAssumption DEF Pid
    <3> QED BY <1>3, <3>1, <3>2 DEF q
  <2>2. Uniform(x.maps, x.pte)
    BY <1>11 DEF Sound
  <2>3. memory_maps'[p] = x.maps /\ pte'[p] = x.pte
        /\ \A r \in Pid : r # p /\ r # q => memory_maps'[r] = memory_maps[r] /\ pte'[r] = pte[r]
    BY <1>2, <1>3, <1>13
  <2> QED BY <1>1, <2>1, <2>2, <2>3
<1>23. /\ tasks' \subseteq Pid /\ running' \subseteq tasks' /\ next_pid' \in 2..(MaxPid + 1)
       /\ \A r \in tasks' : r < next_pid'
  <2>1. MaxPid \in Nat
    BY LayoutAssumption
  <2>2. \A r \in tasks : r \in Int
    BY <1>2, <2>1 DEF Pid
  <2> QED BY <1>1, <1>2, <1>3, <2>1, <2>2 DEF q
<1>24. lifted' \subseteq used' /\ failures' \in 0..MaxFailures
  <2>1. failures \in Nat /\ MaxFailures \in Nat /\ lifted \subseteq used
    BY LayoutAssumption DEF MInv
  <2> QED BY <1>13, <2>1
<1> QED BY <1>18, <1>19, <1>20, <1>21, <1>22, <1>23, <1>24 DEF MInv

-----------------------------------------------------------------------------
(***************************************************************************)
(* The theorems.                                                           *)
(***************************************************************************)
LEMMA NextInv ==
  ASSUME ImageClear, MInv, Next
  PROVE  MInv'
<1>1. PICK p \in Pid :
        \/ SysExit(p) \/ SysFork(p) \/ SysExec(p)
        \/ \E e \in memory_maps[p] : SysForkFails(p, e)
        \/ \E pg \in Page, access \in Access :
             \/ FaultOnEntry(p, pg, access) \/ FaultOnLazy(p, pg, access)
             \/ FaultOnStack(p, pg, access) \/ FaultOnHeap(p, pg, access)
             \/ FaultFatal(p, pg, access)
        \/ \E pg \in Page : UserCopy(p, pg)
        \/ \E b \in Page : SysBrk(p, b)
        \/ \E r \in Ranges :
             \/ SysMunmap(p, r[1], r[2])
             \/ \E flags \in Prots, file \in BOOLEAN :
                  SysMmap(p, r[1], r[2], flags, file) \/ SysMmapFixed(p, r[1], r[2], flags, file)
             \/ \E flags \in Prots : SysMprotect(p, r[1], r[2], flags)
             \/ \E m \in NewSizes, move \in BOOLEAN : SysMremap(p, r[1], r[2], m, move)
             \/ \E m \in NewSizes, t \in Page : SysMremapFixed(p, r[1], r[2], m, t)
  BY DEF Next
<1>2. CASE SysExit(p)
  BY <1>2, TerminateInv DEF SysExit
<1>3. CASE SysFork(p) \/ \E e \in memory_maps[p] : SysForkFails(p, e)
  BY <1>3, ForkInv, ForkFailsInv
<1>4. CASE SysExec(p)
  BY <1>4, ExecInv
<1>5. CASE \E pg \in Page, access \in Access :
             \/ FaultOnEntry(p, pg, access) \/ FaultOnLazy(p, pg, access)
             \/ FaultOnStack(p, pg, access) \/ FaultOnHeap(p, pg, access)
             \/ FaultFatal(p, pg, access)
  BY <1>5, FaultOnEntryInv, FaultOnLazyInv, FaultOnStackInv, FaultOnHeapInv, FaultFatalInv
<1>6. CASE (\E pg \in Page : UserCopy(p, pg)) \/ (\E b \in Page : SysBrk(p, b))
  BY <1>6, CopyInv, BrkInv
<1>7. CASE \E r \in Ranges :
             \/ SysMunmap(p, r[1], r[2])
             \/ \E flags \in Prots, file \in BOOLEAN :
                  SysMmap(p, r[1], r[2], flags, file) \/ SysMmapFixed(p, r[1], r[2], flags, file)
  BY <1>7, MunmapInv, MmapInv, MmapFixedInv
<1>8. CASE \E r \in Ranges :
             \/ \E flags \in Prots : SysMprotect(p, r[1], r[2], flags)
             \/ \E m \in NewSizes, move \in BOOLEAN : SysMremap(p, r[1], r[2], m, move)
             \/ \E m \in NewSizes, t \in Page : SysMremapFixed(p, r[1], r[2], m, t)
  BY <1>8, MprotectInv, MremapInv, MremapFixedInv
<1> QED BY <1>1, <1>2, <1>3, <1>4, <1>5, <1>6, <1>7, <1>8

\* The inductive invariant holds in every reachable state: whatever calls and
\* faults processes make, in whatever order and wherever they fail, if the programs
\* they run are clear of stack and thread-local storage.  This and what follows from
\* it is stated with that hypothesis because exec does not look.
THEOREM MemoryInvariant == ImageClear => (Spec => []MInv)
<1> SUFFICES ASSUME ImageClear PROVE Spec => []MInv
  OBVIOUS
<1>1. Init => MInv
  BY InitInv
<1>2. MInv /\ [Next]_vars => MInv'
  <2> SUFFICES ASSUME MInv, [Next]_vars PROVE MInv'
    OBVIOUS
  <2>1. CASE Next
    BY <2>1, NextInv
  <2>2. CASE UNCHANGED vars
    <3>1. /\ tasks' = tasks /\ running' = running /\ next_pid' = next_pid
          /\ memory_maps' = memory_maps /\ lazy_memory_maps' = lazy_memory_maps
          /\ heap_brk' = heap_brk /\ mmap_next' = mmap_next /\ stack_size' = stack_size
          /\ pte' = pte /\ frame_cap_refs' = frame_cap_refs /\ used' = used /\ lost' = lost
          /\ lifted' = lifted /\ failures' = failures
      BY <2>2 DEF vars
    <3> QED BY <3>1 DEF MInv
  <2> QED BY <2>1, <2>2
<1> QED BY <1>1, <1>2, PTL DEF Spec

\* What the invariant says of one process, with its definitions opened once.
LEMMA InvSpace ==
  ASSUME MInv, NEW p \in Pid
  PROVE  /\ MapsOK(memory_maps[p], lazy_memory_maps[p])
         /\ StackOK(memory_maps[p], lazy_memory_maps[p], stack_size[p])
         /\ FramesOK(Names(memory_maps[p]), frame_cap_refs, used, lost, Context(p))
         /\ PteOK(memory_maps[p], pte[p], lost)
         /\ CowOK(memory_maps[p], pte[p], lost, lifted, Context(p))
BY DEF MInv, Spaces, SpaceOK, Context

\* Every table, count and page-table entry has the type of its field in MmState
\* and ApeTaskState.
THEOREM MemoryTypeOK == ImageClear => (Spec => []TypeOK)
<1>1. MInv => TypeOK
  <2> SUFFICES ASSUME MInv PROVE TypeOK
    OBVIOUS
  <2>1. ASSUME NEW p \in Pid, NEW e \in memory_maps[p]
        PROVE  /\ e.vaddr \in Page /\ e.pages \in 1..(MaxPage + 1) /\ e.frame \in Frame
               /\ e.flags \in Perms /\ e.kind \in Kinds /\ e.cow \in BOOLEAN
               /\ Span(e) \subseteq Page
               /\ \A d \in memory_maps[p] : d.vaddr = e.vaddr => d = e
    <3>1. MapsOK(memory_maps[p], lazy_memory_maps[p])
      BY InvSpace
    <3>2. e \in EntryType /\ Span(e) \subseteq Page
      BY <3>1, <2>1 DEF MapsOK
    <3>3. ASSUME NEW d \in memory_maps[p], d.vaddr = e.vaddr PROVE d = e
      <4>1. d \in EntryType
        BY <3>1 DEF MapsOK
      <4>2. d.vaddr \in Span(d) /\ e.vaddr \in Span(e)
        BY <3>2, <4>1, SpanOf
      <4> QED BY <2>1, <3>1, <3>3, <4>2 DEF MapsOK
    <3> QED BY <3>2, <3>3 DEF EntryType
  <2>2. \A p \in Pid : lazy_memory_maps[p] \subseteq LazyType
    BY InvSpace DEF MapsOK
  <2>3. 1 \in Pid /\ MaxPid \in Nat
    BY LayoutAssumption DEF Pid
  <2>4. /\ FramesOK(Names(memory_maps[1]), frame_cap_refs, used, lost, Context(1))
    BY <2>3, InvSpace
  <2>5. /\ frame_cap_refs \in [Frame -> 0..MaxPid] /\ used \subseteq Frame /\ lost \subseteq used
    <3>1. frame_cap_refs \in [Frame -> Nat] /\ used \subseteq Frame /\ lost \subseteq Frame
      BY <2>4 DEF FramesOK
    <3>2. \A f \in Frame : f \in lost => f \in used
      BY <2>4 DEF FramesOK, FrameOK
    <3>3. \A f \in Frame : frame_cap_refs[f] \in 0..MaxPid
      BY <2>3, <3>1 DEF MInv
    <3> QED BY <3>1, <3>2, <3>3
  <2>6. /\ tasks \subseteq Pid /\ running \subseteq tasks /\ next_pid \in 1..(MaxPid + 1)
        /\ heap_brk \in [Pid -> {HeapStart} \cup (HeapStart..MmapBase)]
        /\ mmap_next \in [Pid -> MmapBase..MmapLimit]
        /\ stack_size \in [Pid -> 0..(StackBottom - StackLow)]
        /\ pte \in [Pid -> [Page -> [frame : Frame, perms : Perms] \cup {NoFrame}]]
        /\ lifted \subseteq used /\ failures \in 0..MaxFailures
    BY <2>3 DEF MInv, PteType, Breaks
  <2> QED BY <2>1, <2>2, <2>5, <2>6 DEF TypeOK, LazyType
<1> QED BY <1>1, MemoryInvariant, PTL

\* A page belongs to one entry at most, and to none if it is lazy.
THEOREM MapsAreDisjoint == ImageClear => (Spec => []MapsDisjoint)
<1>1. MInv => MapsDisjoint
  BY InvSpace DEF MapsDisjoint, MapsOK, Spans
<1> QED BY <1>1, MemoryInvariant, PTL

\* stack_size counts exactly the stack entries, next to stack_bottom.
THEOREM StackIsContiguous == ImageClear => (Spec => []StackContiguous)
<1>1. MInv => StackContiguous
  BY InvSpace DEF StackContiguous, StackOK
<1> QED BY <1>1, MemoryInvariant, PTL

\* A frame lives exactly as long as an address space names it.
THEOREM FramesAreSound == ImageClear => (Spec => []FramesSound)
<1>1. MInv => FramesSound
  <2> SUFFICES ASSUME MInv PROVE FramesSound
    OBVIOUS
  <2>1. FrameState(memory_maps, frame_cap_refs, used, lost)
    BY SpacesFrames DEF MInv
  <2>2. \A f : Holders(f) = HoldersIn(memory_maps, f)
    BY DEF Holders, HoldersIn
  <2>3. ASSUME NEW f \in Frame
        PROVE  /\ Cardinality(Holders(f)) \in Nat
               /\ Cardinality(Holders(f)) = 0 <=> Holders(f) = {}
               /\ FrameOK(FALSE, Cardinality(Holders(f)), frame_cap_refs[f], f \in used, f \in lost)
    <3>1. FrameOK(FALSE, Cardinality(Holders(f)), frame_cap_refs[f], f \in used, f \in lost)
      BY <2>1, <2>2 DEF FrameState
    <3>2. IsFiniteSet(Holders(f))
      <4>1. 1 \in Int /\ MaxPid \in Int
        BY LayoutAssumption
      <4>2. IsFiniteSet(Pid) /\ Holders(f) \subseteq Pid
        BY <4>1, FS_Interval DEF Pid, Holders
      <4> QED BY <4>2, FS_Subset
    <3> QED BY <3>1, <3>2, FS_CardinalityType, FS_EmptySet
  <2>4. NoDanglingFrame
    BY InvSpace DEF NoDanglingFrame, FramesOK, FrameOK, Names
  <2>5. RefsExact
    BY <2>3 DEF RefsExact, FrameOK
  <2>6. FramesConserved
    <3>1. used \subseteq Frame
      BY <2>1 DEF FrameState
    <3> QED BY <2>3, <3>1 DEF FramesConserved, FrameOK
  <2> QED BY <2>4, <2>5, <2>6 DEF FramesSound
<1> QED BY <1>1, MemoryInvariant, PTL

\* The page table maps nothing the process does not own, but for the pages after the
\* first of a mapping that a store fault copied: they may read the frame it released.
THEOREM PteIsOwned == ImageClear => (Spec => []PteMatchesMap)
<1>1. MInv => PteMatchesMap
  <2> SUFFICES ASSUME MInv, NEW p \in Pid, NEW pg \in Page, pte[p][pg] # NoFrame,
                      pte[p][pg].frame \notin lost
               PROVE  \E e \in memory_maps[p] :
                        /\ pg \in Span(e)
                        /\ Bound(e, pg, pte[p][pg]) => e.frame = pte[p][pg].frame
    BY DEF PteMatchesMap
  <2>1. PteOK(memory_maps[p], pte[p], lost)
        /\ CowOK(memory_maps[p], pte[p], lost, lifted, Context(p))
    BY InvSpace
  <2>2. PICK e \in memory_maps[p] : pg \in Span(e) /\ (Own(e, pg) => e.frame = pte[p][pg].frame)
    BY <2>1 DEF PteOK
  <2>3. CASE "w" \in pte[p][pg].perms
    BY <2>1, <2>2, <2>3 DEF CowOK, Writable
  <2>4. CASE "w" \notin pte[p][pg].perms
    BY <2>2, <2>4 DEF Bound, Own
  <2> QED BY <2>3, <2>4
<1> QED BY <1>1, MemoryInvariant, PTL

\* Copy on write keeps the two sides of a fork apart, except for the frames a call
\* other than a store fault made writable.
THEOREM CowIsSound == ImageClear => (Spec => []CowSound)
<1>1. MInv => CowSound
  <2> SUFFICES ASSUME MInv PROVE CowSound
    OBVIOUS
  <2>1. ASSUME NEW p \in Pid, NEW f \in Frame
        PROVE  /\ Context(p).others[f] = 0 <=> \A r \in Pid :
                    r = p \/ f \notin Names(memory_maps[r])
               /\ Context(p).others[f] = 0 <=> Holders(f) \subseteq {p}
               /\ Context(p).others[f] = 0 => Cardinality(Holders(f)) <= 1
    <3> DEFINE n == Cardinality(HoldersIn(memory_maps, f))
               k == Cardinality(HoldersIn(memory_maps, f) \ {p})
    <3>1. /\ n \in Nat /\ k \in Nat /\ n = IF f \in Names(memory_maps[p]) THEN k + 1 ELSE k
          /\ k = 0 <=> \A r \in Pid : r = p \/ f \notin Names(memory_maps[r])
      BY HolderCount
    <3>2. Context(p).others[f] = k
      BY DEF Context, ContextIn
    <3>3. Holders(f) = HoldersIn(memory_maps, f)
          /\ \A r : r \in Holders(f) <=> r \in Pid /\ f \in Names(memory_maps[r])
      BY DEF Holders, HoldersIn, Names
    <3>4. n = Cardinality(Holders(f))
      BY <3>3
    <3> HIDE DEF n, k
    <3> QED BY <3>1, <3>2, <3>3, <3>4
  <2>2. SharedIsCow
    <3> SUFFICES ASSUME NEW p \in Pid, NEW e \in memory_maps[p], "w" \in e.flags,
                        e.frame \notin lifted,
                        Cardinality(Holders(e.frame)) > 1, ~e.cow
                 PROVE  FALSE
      <4>1. \A p \in Pid : \A e \in memory_maps[p] : e.cow \in BOOLEAN
        BY InvSpace DEF MapsOK, EntryType
      <4> QED BY <4>1 DEF SharedIsCow
    <3>1. e.frame \in Frame
      BY InvSpace DEF FramesOK, Names
    <3>2. Context(p).others[e.frame] = 0
      BY InvSpace DEF CowOK
    <3>3. Cardinality(Holders(e.frame)) <= 1
      BY <2>1, <3>1, <3>2
    <3>4. Cardinality(Holders(e.frame)) \in Nat
      <4>1. Holders(e.frame) = HoldersIn(memory_maps, e.frame)
        BY DEF Holders, HoldersIn
      <4> QED BY <4>1, HolderCount
    <3> QED BY <3>3, <3>4
  <2>3. NoSharedWrite
    <3> SUFFICES ASSUME NEW p \in Pid, NEW pg \in Page, Writable(pte[p], pg),
                        pte[p][pg].frame \notin lifted
                 PROVE  Holders(pte[p][pg].frame) \subseteq {p}
      BY DEF NoSharedWrite, Writable
    <3>1. CASE \E e \in memory_maps[p] : pg \in Span(e)
      <4>1. PICK e \in memory_maps[p] : pg \in Span(e)
        BY <3>1
      <4>2. pte[p][pg].frame = e.frame /\ "w" \in e.flags /\ ~e.cow
        BY <4>1, InvSpace DEF CowOK
      <4>3. Context(p).others[e.frame] = 0 /\ e.frame \in Frame
        BY <4>1, <4>2, InvSpace DEF CowOK, FramesOK, Names
      <4> QED BY <2>1, <4>2, <4>3
    <3>2. CASE \A e \in memory_maps[p] : pg \notin Span(e)
      <4>1. pte[p][pg].frame \in lost /\ Context(p).others[pte[p][pg].frame] = 0
        BY <3>2, InvSpace DEF CowOK
      <4>2. pte[p][pg].frame \in Frame
        BY <4>1, InvSpace DEF FramesOK
      <4> QED BY <2>1, <4>1, <4>2
    <3> QED BY <3>1, <3>2
  <2> QED BY <2>2, <2>3 DEF CowSound
<1> QED BY <1>1, MemoryInvariant, PTL
=============================================================================
