------------------------------- MODULE Region -------------------------------
(***************************************************************************)
(* Region-based memory (src/src/core/Arena.hpp, Region.hpp): a region is a *)
(* bump allocator over one buffer, with free lists of recycled chunks per  *)
(* size class.  A child region lives inside its parent's buffer, or in a   *)
(* buffer of its own when the parent has no room for it.                   *)
(*                                                                         *)
(* Memory is a line of addresses: every region's buffer is an interval of  *)
(* it, and "blocks" records what clients hold.  Clients behave: a chunk is *)
(* freed once, with the size it was asked for, no block and no region that *)
(* lies in a region is used after its dispose, also not as the parent to   *)
(* which values escape, and no request is so large that alloc's bounds     *)
(* check wraps around.                                                     *)
(***************************************************************************)
EXTENDS Integers, Sequences, SequencesExt

CONSTANTS
    RootBytes,       \* capacity of the root region
    ChildBytes,      \* capacity asked for a child
    RegionObject,    \* sizeof(Region)
    CacheLine,       \* LSM_CACHE_LINE
    Word,            \* 8: alignof(Region) and the alignment of slab chunks
    SlabSizes,       \* slabSizes, increasing
    SizeT,           \* size_t arithmetic is modulo this
    Requests,        \* the sizes clients ask for
    Alignments,      \* the alignments clients ask for
    MaxRegions       \* bound: regions ever created

ASSUME RegionAssumption ==
    /\ RootBytes \in Nat /\ ChildBytes \in Nat /\ RegionObject \in Nat \ {0}
    /\ Word \in Nat \ {0} /\ CacheLine \in Nat \ {0}
    /\ Requests \subseteq Nat /\ Alignments \subseteq Nat
    /\ SlabSizes \in Seq(Nat \ {0})
    /\ MaxRegions \in Nat

\* What Arena::alloc is asked for, by clients and by Region itself.
Sizes == Requests \cup {RegionObject, ChildBytes} \cup {SlabSizes[c] : c \in DOMAIN SlabSizes}
Aligns == Alignments \cup {Word, CacheLine}

ASSUME NoWrapAssumption ==
    /\ SizeT \in Nat \ {0}
    /\ \A n \in Sizes, a \in Aligns, bytes \in {RootBytes, ChildBytes} : bytes + a + n < SizeT

VARIABLES
    regions,    \* sequence of [base, capacity, offset, parent, carved, freeLists, open]
    blocks      \* what clients hold: [region, addr, size, chunk]

vars == <<regions, blocks>>

Ids == 1 .. Len(regions)
NoParent == 0
Spacing == 2 * (RootBytes + ChildBytes + CacheLine) * CacheLine   \* between malloc'ed buffers

NewRegion(base, capacity, parent, carved) ==
    [base |-> base, capacity |-> capacity, offset |-> 0, parent |-> parent,
     carved |-> carved, freeLists |-> [c \in DOMAIN SlabSizes |-> <<>>], open |-> TRUE]

\* The buffer of a malloc'ed region is aligned to a cache line.
HeapBase(k) == k * Spacing

\* Every variable has its type; no region has bumped past its capacity.
TypeOK ==
    /\ \A r \in Ids : /\ regions[r].offset \in 0 .. regions[r].capacity
                      /\ regions[r].parent \in 0 .. r - 1
                      /\ DOMAIN regions[r].freeLists = DOMAIN SlabSizes
    /\ \A k \in blocks : k.region \in Ids /\ k.addr \in Nat /\ k.size \in Nat

Init ==
    /\ regions = <<NewRegion(HeapBase(0), RootBytes, NoParent, FALSE)>>
    /\ blocks = {}

(***************************************************************************)
(* Arena::alloc, as the address it returns and the offset it leaves, or    *)
(* Fails.                                                                  *)
(***************************************************************************)
Fails == [ok |-> FALSE]
AlignUp(x, a) == ((x + a - 1) \div a) * a

Granted(at, offset) == [ok |-> TRUE, addr |-> at, offset |-> offset % SizeT]

alloc_LosesPadding(g, size, align) ==    \* mutant: the offset ignores the padding
    LET at == AlignUp(g.base + g.offset, align)
    IN  IF at - g.base + size > g.capacity THEN Fails
        ELSE Granted(at, g.offset + size)

alloc(g, size, align) ==
    IF size = 0 \/ align = 0 THEN Fails
    ELSE LET at == AlignUp(g.base + g.offset, align)
         IN  IF (at - g.base + size) % SizeT > g.capacity THEN Fails
             ELSE Granted(at, at - g.base + size)

Hold(r, addr, size, chunk) ==
    blocks' = blocks \cup {[region |-> r, addr |-> addr, size |-> size, chunk |-> chunk]}

\* A client allocates from region r.  A request that fails changes nothing.
AllocIn(r, size, align) ==
    LET m == alloc(regions[r], size, align)
    IN  /\ m.ok
        /\ regions' = [regions EXCEPT ![r].offset = m.offset]
        /\ Hold(r, m.addr, size, FALSE)

Alloc(r, size, align) ==
    /\ regions[r].open
    /\ AllocIn(r, size, align)

\* allocEscaped: in the parent when there is one.
EscapeTo(r) == IF regions[r].parent = NoParent THEN r ELSE regions[r].parent

AllocEscaped_Local(r, size, align) ==    \* mutant: the value does not escape
    /\ regions[r].open
    /\ LET m == alloc(regions[r], size, align)
       IN  /\ m.ok
           /\ regions' = [regions EXCEPT ![r].offset = m.offset]
           /\ Hold(EscapeTo(r), m.addr, size, FALSE)

AllocEscaped(r, size, align) ==
    /\ regions[r].open
    /\ regions[EscapeTo(r)].open
    /\ AllocIn(EscapeTo(r), size, align)

(***************************************************************************)
(* Slabs.  Class(size) is 0 for a size no class has room for.              *)
(***************************************************************************)
Class_TooSmall(size) ==                  \* mutant: rounds down to a class
    LET fits == {c \in DOMAIN SlabSizes : SlabSizes[c] <= size}
    IN  IF fits = {} THEN 1 ELSE Max(fits)

Class(size) ==
    LET fits == {c \in DOMAIN SlabSizes : size <= SlabSizes[c]}
    IN  IF fits = {} THEN 0 ELSE Min(fits)

SlabAlloc(r, size) ==
    LET c == Class(size)
    IN  /\ regions[r].open
        /\ IF c # 0 /\ regions[r].freeLists[c] # <<>>
             THEN /\ regions' = [regions EXCEPT ![r].freeLists[c] = Tail(@)]
                  /\ Hold(r, Head(regions[r].freeLists[c]), size, TRUE)
             ELSE LET m == alloc(regions[r], IF c # 0 THEN SlabSizes[c] ELSE size, Word)
                  IN  /\ m.ok
                      /\ regions' = [regions EXCEPT ![r].offset = m.offset]
                      /\ Hold(r, m.addr, size, TRUE)

SlabFree(k) ==
    LET c == Class(k.size)
    IN  /\ k.chunk
        /\ regions[k.region].open
        /\ blocks' = blocks \ {k}
        /\ regions' = IF c = 0 THEN regions
                      ELSE [regions EXCEPT ![k.region].freeLists[c] = <<k.addr>> \o @]

(***************************************************************************)
(* createChild: room for the object and for its buffer in the parent, else *)
(* a buffer of its own.  When only the first request succeeds its bytes    *)
(* stay allocated and unused.                                              *)
(***************************************************************************)
CreateChild(r) ==
    /\ regions[r].open
    /\ Len(regions) < MaxRegions
    /\ LET obj == alloc(regions[r], RegionObject, Word)
           g == IF obj.ok THEN [regions[r] EXCEPT !.offset = obj.offset] ELSE regions[r]
           data == alloc(g, ChildBytes, CacheLine)
           left == IF data.ok THEN [g EXCEPT !.offset = data.offset] ELSE g
           child == IF obj.ok /\ data.ok
                      THEN NewRegion(data.addr, ChildBytes, r, TRUE)
                      ELSE NewRegion(HeapBase(Len(regions)), ChildBytes, r, FALSE)
       IN  regions' = Append([regions EXCEPT ![r] = left], child)
    /\ UNCHANGED blocks

(***************************************************************************)
(* dispose: bump pointer and free lists go back to empty.  The clients of  *)
(* the region, and of everything carved out of it, are done.  Inside(r) is *)
(* the least set with r and every region carved out of one in it.          *)
(***************************************************************************)
Families(r) ==
    {S \in SUBSET Ids : r \in S /\ \A q \in Ids : regions[q].carved /\ regions[q].parent \in S => q \in S}
Inside(r) == {q \in Ids : \A S \in Families(r) : q \in S}

Dispose_KeepsLists(r) ==                 \* mutant: the free lists survive
    /\ regions[r].open
    /\ regions' = [q \in Ids |->
                     IF q = r THEN [regions[r] EXCEPT !.offset = 0]
                     ELSE [regions[q] EXCEPT !.open = @ /\ q \notin Inside(r)]]
    /\ blocks' = {k \in blocks : k.region \notin Inside(r)}

Dispose(r) ==
    /\ regions[r].open
    /\ regions' = [q \in Ids |->
                     IF q = r
                       THEN [regions[r] EXCEPT !.offset = 0,
                                               !.freeLists = [c \in DOMAIN SlabSizes |-> <<>>]]
                       ELSE [regions[q] EXCEPT !.open = @ /\ q \notin Inside(r)]]
    /\ blocks' = {k \in blocks : k.region \notin Inside(r)}

Next ==
    \/ \E r \in Ids, size \in Requests, align \in Alignments :
          Alloc(r, size, align) \/ AllocEscaped(r, size, align)
    \/ \E r \in Ids, size \in Requests : SlabAlloc(r, size)
    \/ \E k \in blocks : SlabFree(k)
    \/ \E r \in Ids : CreateChild(r) \/ Dispose(r)

Spec == Init /\ [][Next]_vars

(***************************************************************************)
(* Properties.                                                             *)
(***************************************************************************)
Bytes(addr, size) == addr .. addr + size - 1
Buffer(r) == Bytes(regions[r].base, regions[r].capacity)
Chunks(r) ==
    UNION {{[addr |-> regions[r].freeLists[c][i], size |-> SlabSizes[c], class |-> c, pos |-> i] :
               i \in DOMAIN regions[r].freeLists[c]} : c \in DOMAIN SlabSizes}

\* No two blocks in clients' hands share a byte, whichever regions they came
\* from and whatever was freed, recycled or disposed of before.
NoOverlap ==
    \A k, l \in blocks : k # l => Bytes(k.addr, k.size) \cap Bytes(l.addr, l.size) = {}

\* A block lies inside its region's buffer, and so does every chunk on a free
\* list with the whole size of its class; no region bumps past its capacity.
InsideBuffer ==
    /\ TypeOK
    /\ \A r \in Ids : regions[r].open =>
        /\ \A k \in blocks : k.region = r => Bytes(k.addr, k.size) \subseteq Buffer(r)
        /\ \A f \in Chunks(r) : Bytes(f.addr, f.size) \subseteq Buffer(r)

\* A chunk waiting for reuse shares no byte with a block in use, with another
\* waiting chunk or with memory that the bump pointer will hand out.
ChunksFree ==
    \A r \in Ids : regions[r].open => \A f \in Chunks(r) :
        /\ \A k \in blocks : Bytes(k.addr, k.size) \cap Bytes(f.addr, f.size) = {}
        /\ \A g \in Chunks(r) : f # g => Bytes(f.addr, f.size) \cap Bytes(g.addr, g.size) = {}
        /\ f.addr + f.size <= regions[r].base + regions[r].offset

\* The buffer of a child carved out of its parent is memory nobody else gets:
\* no block of another region lies in it while the child is in use.
ChildBufferExclusive ==
    \A r \in Ids : regions[r].open /\ regions[r].carved =>
        \A k \in blocks : Bytes(k.addr, k.size) \cap Buffer(r) # {} => k.region \in Inside(r)

=============================================================================
