---------------------------- MODULE Region_proofs ----------------------------
(***************************************************************************)
(* Proofs about regions, for every capacity, every set of request sizes    *)
(* and alignments, every table of slab sizes and any number of regions     *)
(* nested to any depth.                                                    *)
(***************************************************************************)
EXTENDS Region, InductionLemmas

RegionSet ==
    [base : Nat, capacity : Nat, offset : Nat, parent : Nat, carved : BOOLEAN,
     freeLists : [DOMAIN SlabSizes -> Seq(Nat)], open : BOOLEAN]
BlockSet == [region : Nat, addr : Nat, size : Nat, chunk : BOOLEAN]

Types == regions \in Seq(RegionSet) /\ blocks \subseteq BlockSet

(***************************************************************************)
(* What is handed out of a region: blocks, with the whole size of their    *)
(* slab class, chunks that wait on a free list, and the buffers of the     *)
(* regions carved out of it.  A piece is <<kind, identity, first, end>>.   *)
(***************************************************************************)
Extent(k) == IF k.chunk /\ Class(k.size) # 0 THEN SlabSizes[Class(k.size)] ELSE k.size

BlockPiece(k) == <<"block", k, k.addr, k.addr + Extent(k)>>
ChunkPiece(c, a) == <<"chunk", c, a, a + SlabSizes[c]>>
ChildPiece(q) == <<"child", q, regions[q].base, regions[q].base + regions[q].capacity>>

BlockPieces(r) == {BlockPiece(k) : k \in {x \in blocks : x.region = r}}
ChunkPieces(r) ==
    UNION {{ChunkPiece(c, regions[r].freeLists[c][i]) : i \in DOMAIN regions[r].freeLists[c]} :
              c \in DOMAIN SlabSizes}
ChildPieces(r) ==
    {ChildPiece(q) : q \in {x \in Ids : regions[x].carved /\ regions[x].open /\ regions[x].parent = r}}
Holdings(r) == BlockPieces(r) \cup ChunkPieces(r) \cup ChildPieces(r)

\* The pieces of S lie between lo and hi, none is empty and no two overlap.
Packed(S, lo, hi) ==
    /\ \A x \in S : x[3] \in Int /\ x[4] \in Int /\ lo <= x[3] /\ x[3] < x[4] /\ x[4] <= hi
    /\ \A x, y \in S : x # y => x[4] <= y[3] \/ y[4] <= x[3]

(***************************************************************************)
(* The inductive invariant.                                                *)
(***************************************************************************)

\* Where buffers lie: one of its own for a region that was not carved out of
\* its parent, a part of the parent's otherwise.
LaidOut(r) ==
    /\ regions[r].offset <= regions[r].capacity
    /\ regions[r].capacity \in {RootBytes, ChildBytes}
    /\ regions[r].parent < r
    /\ regions[r].base + regions[r].capacity <= HeapBase(r)
    /\ ~regions[r].carved => regions[r].base = HeapBase(r - 1)
    /\ regions[r].carved =>
        /\ regions[r].parent \in Ids
        /\ regions[regions[r].parent].base <= regions[r].base
        /\ regions[r].base + regions[r].capacity
              <= regions[regions[r].parent].base + regions[regions[r].parent].capacity
        /\ regions[r].open => regions[regions[r].parent].open

NoRepeats(lists) ==
    \A c \in DOMAIN SlabSizes : \A i, j \in DOMAIN lists[c] : lists[c][i] = lists[c][j] => i = j

\* Everything handed out of a region in use lies below its bump pointer, apart.
Tidy(r) ==
    regions[r].open =>
        /\ Packed(Holdings(r), regions[r].base, regions[r].base + regions[r].offset)
        /\ NoRepeats(regions[r].freeLists)

BlocksInUse == \A k \in blocks : k.region \in Ids /\ regions[k.region].open

RegionInv ==
    /\ Types
    /\ \A r \in Ids : LaidOut(r)
    /\ BlocksInUse
    /\ \A r \in Ids : Tidy(r)

(***************************************************************************)
(* Pieces.                                                                 *)
(***************************************************************************)
LEMMA PackedPart ==
    ASSUME NEW S, NEW T, NEW lo \in Int, NEW hi \in Int, NEW hj \in Int,
           Packed(S, lo, hi), T \subseteq S, hi <= hj
    PROVE  Packed(T, lo, hj)
BY DEF Packed

\* A piece above the others.
LEMMA PackedAdd ==
    ASSUME NEW S, NEW T, NEW x, NEW lo \in Int, NEW hi \in Int, NEW hj \in Int,
           Packed(S, lo, hi), T \subseteq S \cup {x}, lo <= hi,
           x[3] \in Int, x[4] \in Int, hi <= x[3], x[3] < x[4], x[4] <= hj
    PROVE  Packed(T, lo, hj)
<1>1. \A y \in T : y \in S \/ y = x
  OBVIOUS
<1>2. \A y \in S : y[3] \in Int /\ y[4] \in Int /\ lo <= y[3] /\ y[3] < y[4] /\ y[4] <= hi
  BY DEF Packed
<1>3. \A y \in S : y[4] <= x[3]
  BY <1>2
<1>4. \A y, z \in S : y # z => y[4] <= z[3] \/ z[4] <= y[3]
  BY DEF Packed
<1>5. \A y \in T : y[3] \in Int /\ y[4] \in Int /\ lo <= y[3] /\ y[3] < y[4] /\ y[4] <= hj
  BY <1>1, <1>2
<1>6. \A y, z \in T : y # z => y[4] <= z[3] \/ z[4] <= y[3]
  BY <1>1, <1>3, <1>4
<1> QED BY <1>5, <1>6 DEF Packed

\* A piece that takes the place of another.
LEMMA PackedSwap ==
    ASSUME NEW S, NEW T, NEW x \in S, NEW y, NEW lo, NEW hi,
           Packed(S, lo, hi), T \subseteq (S \ {x}) \cup {y}, y[3] = x[3], y[4] = x[4]
    PROVE  Packed(T, lo, hi)
<1>1. \A z \in T : (z \in S /\ z # x) \/ z = y
  OBVIOUS
<1>2. \A z \in T : z[3] \in Int /\ z[4] \in Int /\ lo <= z[3] /\ z[3] < z[4] /\ z[4] <= hi
  BY <1>1 DEF Packed
<1>3. \A v, w \in T : v # w => v[4] <= w[3] \/ w[4] <= v[3]
  BY <1>1 DEF Packed
<1> QED BY <1>2, <1>3 DEF Packed

(***************************************************************************)
(* Sizes, slab classes and Arena::alloc.                                   *)
(***************************************************************************)
LEMMA SlabTable ==
    /\ DOMAIN SlabSizes \subseteq Nat \ {0}
    /\ \A c \in DOMAIN SlabSizes : SlabSizes[c] \in Nat /\ 0 < SlabSizes[c]
BY RegionAssumption

LEMMA ClassFits ==
    ASSUME NEW size \in Nat
    PROVE  /\ Class(size) \in DOMAIN SlabSizes \cup {0}
           /\ Class(size) # 0 => size <= SlabSizes[Class(size)]
<1> DEFINE fits == {c \in DOMAIN SlabSizes : size <= SlabSizes[c]}
<1>1. CASE fits = {}
  BY <1>1 DEF Class
<1>2. CASE fits # {}
  <2>1. fits \in SUBSET Nat
    BY SlabTable
  <2>2. \E c \in fits : \A d \in fits : c <= d
    <3> HIDE DEF fits
    <3> QED BY <1>2, <2>1, LeastElement
  <2>3. Min(fits) \in fits
    <3> HIDE DEF fits
    <3> QED BY <2>2 DEF Min
  <2>4. Class(size) = Min(fits)
    BY <1>2 DEF Class
  <2> QED BY <2>3, <2>4
<1> QED BY <1>1, <1>2

LEMMA ExtentFits ==
    ASSUME NEW k \in BlockSet
    PROVE  Extent(k) \in Nat /\ k.size <= Extent(k)
<1>1. k.size \in Nat
  BY DEF BlockSet
<1> QED BY <1>1, ClassFits, SlabTable DEF Extent

LEMMA AlignUpBounds ==
    ASSUME NEW x \in Nat, NEW a \in Nat \ {0}
    PROVE  AlignUp(x, a) \in Nat /\ x <= AlignUp(x, a) /\ AlignUp(x, a) <= x + a - 1
<1> DEFINE y == x + a - 1
           q == y \div a
           r == y % a
<1>1. y \in Nat /\ q \in Int /\ r \in Int
  OBVIOUS
<1>2. y = a * q + r /\ 0 <= r /\ r < a
  BY <1>1
<1>3. q * a = a * q /\ q * a \in Int
  BY <1>1
<1>4. AlignUp(x, a) = q * a
  BY DEF AlignUp
<1> HIDE DEF q, r
<1>5. a * q \in Int
  BY <1>1
<1> DEFINE p == a * q
<1>6. AlignUp(x, a) = p /\ p \in Int /\ y = p + r
  BY <1>2, <1>3, <1>4, <1>5
<1> HIDE DEF p
<1> QED BY <1>1, <1>2, <1>6

\* A granted request lies above the bump pointer and ends at the new one, which
\* is not past the end of the buffer.
LEMMA AllocGrants ==
    ASSUME NEW g \in RegionSet, g.offset <= g.capacity, g.capacity \in {RootBytes, ChildBytes},
           NEW size \in Sizes, NEW align \in Aligns, alloc(g, size, align).ok
    PROVE  LET m == alloc(g, size, align)
           IN  /\ m.addr \in Nat /\ g.base + g.offset <= m.addr
               /\ size \in Nat /\ 0 < size
               /\ m.offset \in Nat /\ g.base + m.offset = m.addr + size
               /\ m.offset <= g.capacity
<1>0. /\ g.base \in Nat /\ g.offset \in Nat /\ g.capacity \in Nat
      /\ size \in Nat /\ align \in Nat /\ SizeT \in Nat \ {0}
  BY RegionAssumption, NoWrapAssumption, SlabTable DEF RegionSet, Sizes, Aligns
<1>1. size # 0 /\ align # 0
  BY DEF alloc, Fails
<1> DEFINE at == AlignUp(g.base + g.offset, align)
           end == at - g.base + size
<1>2. at \in Nat /\ g.base + g.offset <= at /\ at <= g.base + g.offset + align - 1
  <2>1. g.base + g.offset \in Nat /\ align \in Nat \ {0}
    BY <1>0, <1>1
  <2> QED BY <2>1, AlignUpBounds
<1>3. g.capacity + align + size < SizeT
  BY NoWrapAssumption
<1>4. end \in Nat /\ end < SizeT
  <2> HIDE DEF at
  <2> QED BY <1>0, <1>2, <1>3
<1>5. end % SizeT = end
  <2> HIDE DEF end
  <2> QED BY <1>0, <1>4
<1>6. alloc(g, size, align) = IF end > g.capacity THEN Fails ELSE Granted(at, end)
  <2>1. alloc(g, size, align) = IF end % SizeT > g.capacity THEN Fails ELSE Granted(at, end)
    BY <1>1 DEF alloc
  <2> QED BY <1>5, <2>1
<1>7. alloc(g, size, align) = Granted(at, end) /\ end <= g.capacity
  <2> HIDE DEF end, at
  <2> QED BY <1>0, <1>4, <1>6 DEF Fails
<1>8. Granted(at, end).addr = at /\ Granted(at, end).offset = end
  BY <1>5 DEF Granted
<1> HIDE DEF at
<1> QED BY <1>0, <1>1, <1>2, <1>4, <1>7, <1>8

(***************************************************************************)
(* What a step leaves alone.                                               *)
(***************************************************************************)

\* Regions keep their place; none comes back to life.
Steady ==
    /\ Len(regions') = Len(regions)
    /\ \A q \in Ids : /\ regions'[q].base = regions[q].base
                      /\ regions'[q].capacity = regions[q].capacity
                      /\ regions'[q].parent = regions[q].parent
                      /\ regions'[q].carved = regions[q].carved
                      /\ regions'[q].open => regions[q].open

LEMMA ChildPiecesSteady ==
    ASSUME Steady, NEW p PROVE ChildPieces(p)' \subseteq ChildPieces(p)
<1>1. Ids' = Ids
  BY DEF Steady, Ids
<1> QED BY <1>1 DEF Steady, ChildPieces, ChildPiece

LEMMA BlockPiecesPart ==
    ASSUME NEW p, \A k \in blocks' : k.region = p => k \in blocks
    PROVE  BlockPieces(p)' \subseteq BlockPieces(p)
BY DEF BlockPieces, BlockPiece, Extent

LEMMA ChunkPiecesSame ==
    ASSUME NEW p, regions'[p].freeLists = regions[p].freeLists
    PROVE  ChunkPieces(p)' = ChunkPieces(p)
BY DEF ChunkPieces, ChunkPiece

\* A region of which a step takes pieces away at most.
LEMMA TidyFrame ==
    ASSUME Types, Types', Steady, NEW p \in Ids, Tidy(p),
           regions'[p].freeLists = regions[p].freeLists,
           regions[p].offset <= regions'[p].offset,
           \A k \in blocks' : k.region = p => k \in blocks
    PROVE  Tidy(p)'
<1> SUFFICES ASSUME regions'[p].open
             PROVE  /\ Packed(Holdings(p)', regions'[p].base, regions'[p].base + regions'[p].offset)
                    /\ NoRepeats(regions'[p].freeLists)
  BY DEF Tidy, NoRepeats, Packed
<1>1. /\ regions[p].open /\ regions'[p].base = regions[p].base
      /\ regions[p].base \in Nat /\ regions[p].offset \in Nat /\ regions'[p].offset \in Nat
  <2>1. p \in Ids'
    BY DEF Ids, Steady
  <2>2. regions[p] \in RegionSet /\ regions'[p] \in RegionSet
    BY <2>1 DEF Types, Ids
  <2> QED BY <2>2 DEF RegionSet, Steady
<1>2. Holdings(p)' \subseteq Holdings(p)
  BY ChildPiecesSteady, BlockPiecesPart, ChunkPiecesSame DEF Holdings
<1>3. /\ Packed(Holdings(p), regions[p].base, regions[p].base + regions[p].offset)
      /\ NoRepeats(regions[p].freeLists)
  BY <1>1 DEF Tidy
<1>4. Packed(Holdings(p)', regions[p].base, regions[p].base + regions'[p].offset)
  BY <1>1, <1>2, <1>3, PackedPart
<1> QED BY <1>1, <1>3, <1>4

\* The layout of regions that keep their place.
LEMMA LaidOutFrame ==
    ASSUME Types, Steady, NEW p \in Ids, LaidOut(p), regions'[p].offset <= regions'[p].capacity,
           regions[p].carved /\ regions'[p].open => regions'[regions[p].parent].open
    PROVE  LaidOut(p)'
<1>1. Ids' = Ids
  BY DEF Steady, Ids
<1>2. /\ regions'[p].base = regions[p].base /\ regions'[p].capacity = regions[p].capacity
      /\ regions'[p].parent = regions[p].parent /\ regions'[p].carved = regions[p].carved
  BY DEF Steady
<1>3. regions[p].carved =>
        /\ regions'[regions[p].parent].base = regions[regions[p].parent].base
        /\ regions'[regions[p].parent].capacity = regions[regions[p].parent].capacity
  BY DEF Steady, LaidOut
<1>4. HeapBase(p)' = HeapBase(p) /\ HeapBase(p - 1)' = HeapBase(p - 1)
  BY DEF HeapBase, Spacing
<1> QED BY <1>1, <1>2, <1>3, <1>4 DEF LaidOut

(***************************************************************************)
(* The steps.                                                              *)
(***************************************************************************)

\* A region's record when its invariant is at hand.
LEMMA RegionAt ==
    ASSUME RegionInv, NEW p \in Ids
    PROVE  /\ regions[p] \in RegionSet /\ LaidOut(p) /\ Tidy(p)
           /\ regions[p].base \in Nat /\ regions[p].capacity \in Nat /\ regions[p].offset \in Nat
           /\ regions[p].offset <= regions[p].capacity
           /\ regions[p].freeLists \in [DOMAIN SlabSizes -> Seq(Nat)]
<1>1. regions[p] \in RegionSet /\ LaidOut(p) /\ Tidy(p)
  BY DEF RegionInv, Types, Ids
<1> QED BY <1>1 DEF RegionSet, LaidOut

LEMMA WithOffset ==
    ASSUME NEW g \in RegionSet, NEW off \in Nat
    PROVE  LET h == [g EXCEPT !.offset = off]
           IN  /\ h \in RegionSet /\ h.offset = off
               /\ h.base = g.base /\ h.capacity = g.capacity /\ h.parent = g.parent
               /\ h.carved = g.carved /\ h.open = g.open /\ h.freeLists = g.freeLists
BY DEF RegionSet

LEMMA PutRegion ==
    ASSUME NEW s \in Seq(RegionSet), NEW r \in 1 .. Len(s), NEW h \in RegionSet
    PROVE  LET u == [s EXCEPT ![r] = h]
           IN  /\ u \in Seq(RegionSet) /\ Len(u) = Len(s) /\ u[r] = h
               /\ \A q \in 1 .. Len(s) : q # r => u[q] = s[q]
OBVIOUS

\* The bump pointer of r moves and the new block k lies between its two places.
BumpStep(r, k, off) ==
    /\ regions[r].open
    /\ k \in BlockSet /\ k.region = r
    /\ regions[r].base + regions[r].offset <= k.addr
    /\ 0 < Extent(k) /\ k.addr + Extent(k) = regions[r].base + off
    /\ off \in Nat /\ off <= regions[r].capacity
    /\ regions' = [regions EXCEPT ![r].offset = off]
    /\ blocks' = blocks \cup {k}

LEMMA BumpKeeps ==
    ASSUME RegionInv, NEW r \in Ids, NEW k, NEW off, BumpStep(r, k, off)
    PROVE  RegionInv'
<1> DEFINE h == [regions[r] EXCEPT !.offset = off]
<1>0. /\ regions[r] \in RegionSet /\ LaidOut(r) /\ Tidy(r) /\ regions[r].base \in Nat
      /\ regions[r].offset \in Nat /\ off \in Nat /\ off <= regions[r].capacity
  BY RegionAt DEF BumpStep
<1>3. /\ h \in RegionSet /\ h.offset = off
      /\ h.base = regions[r].base /\ h.capacity = regions[r].capacity
      /\ h.parent = regions[r].parent /\ h.carved = regions[r].carved
      /\ h.open = regions[r].open /\ h.freeLists = regions[r].freeLists
  BY <1>0, WithOffset
<1>a. regions' = [regions EXCEPT ![r] = h] /\ regions \in Seq(RegionSet) /\ r \in 1 .. Len(regions)
  BY DEF BumpStep, RegionInv, Types, Ids
<1> HIDE DEF h
<1>2. /\ regions' \in Seq(RegionSet) /\ Len(regions') = Len(regions)
      /\ \A q \in Ids \ {r} : regions'[q] = regions[q]
      /\ regions'[r] = h
  BY <1>3, <1>a, PutRegion DEF Ids
<1>1. Types' /\ Types
  BY <1>2 DEF RegionInv, Types, BumpStep
<1>4. Steady /\ Ids' = Ids /\ \A q \in Ids : regions'[q].open = regions[q].open
  BY <1>2, <1>3 DEF Steady, Ids
<1>5. ASSUME NEW p \in Ids' PROVE LaidOut(p)'
  <2>1. regions'[p].offset <= regions'[p].capacity
    BY <1>0, <1>2, <1>3, <1>4, RegionAt
  <2>2. LaidOut(p)
    BY <1>4, RegionAt
  <2>3. regions[p].carved /\ regions'[p].open => regions'[regions[p].parent].open
    BY <1>4, <2>2 DEF LaidOut
  <2> QED BY <1>1, <1>4, <2>1, <2>2, <2>3, LaidOutFrame
<1>6. BlocksInUse'
  BY <1>4 DEF RegionInv, BlocksInUse, BumpStep
<1>7. ASSUME NEW p \in Ids' PROVE Tidy(p)'
  <2>1. CASE p # r
    <3>0. \A x \in blocks' : x.region = p => x \in blocks
      BY <2>1 DEF BumpStep
    <3>1. /\ regions'[p].freeLists = regions[p].freeLists /\ regions[p].offset <= regions'[p].offset
          /\ Tidy(p)
      BY <1>2, <1>4, <2>1, RegionAt
    <3> QED BY <1>1, <1>4, <3>0, <3>1, TidyFrame
  <2>2. CASE p = r
    <3> DEFINE lo == regions[r].base
               hi == regions[r].base + regions[r].offset
               hj == regions[r].base + off
               x == BlockPiece(k)
    <3>1. Packed(Holdings(r), lo, hi) /\ NoRepeats(regions[r].freeLists)
      BY <1>0 DEF Tidy, BumpStep
    <3>2. BlockPieces(r)' \subseteq BlockPieces(r) \cup {x}
      BY DEF BlockPieces, BlockPiece, Extent, BumpStep
    <3>3. Holdings(r)' \subseteq Holdings(r) \cup {x}
      BY <1>2, <1>3, <1>4, <3>2, ChildPiecesSteady, ChunkPiecesSame DEF Holdings
    <3>4. x[3] = k.addr /\ x[4] = k.addr + Extent(k) /\ k.addr \in Nat /\ Extent(k) \in Nat
      BY ExtentFits DEF BlockPiece, BlockSet, BumpStep
    <3>5. /\ lo \in Int /\ hi \in Int /\ hj \in Int /\ lo <= hi
          /\ x[3] \in Int /\ x[4] \in Int /\ hi <= x[3] /\ x[3] < x[4] /\ x[4] <= hj
      <4> HIDE DEF x
      <4> QED BY <1>0, <3>4 DEF BumpStep
    <3> HIDE DEF lo, hi, hj, x
    <3>6. Packed(Holdings(r)', lo, hj)
      BY <3>1, <3>3, <3>5, PackedAdd
    <3> QED BY <1>2, <1>3, <2>2, <3>1, <3>6 DEF Tidy, lo, hj, Packed, NoRepeats
  <2> QED BY <2>1, <2>2
<1> QED BY <1>1, <1>5, <1>6, <1>7 DEF RegionInv

\* An allocation from r, for a client of r or one of its children.
LEMMA AllocKeeps ==
    ASSUME RegionInv, NEW r \in Ids, regions[r].open, NEW size \in Requests,
           NEW align \in Alignments, AllocIn(r, size, align)
    PROVE  RegionInv'
<1> DEFINE m == alloc(regions[r], size, align)
           k == [region |-> r, addr |-> m.addr, size |-> size, chunk |-> FALSE]
<1>1. /\ m.ok /\ regions' = [regions EXCEPT ![r].offset = m.offset] /\ blocks' = blocks \cup {k}
  BY DEF AllocIn, Hold
<1>2. size \in Sizes /\ align \in Aligns
  BY DEF Sizes, Aligns
<1>3. /\ regions[r] \in RegionSet /\ regions[r].offset <= regions[r].capacity
      /\ regions[r].capacity \in {RootBytes, ChildBytes}
  BY RegionAt DEF LaidOut
<1>4. /\ m.addr \in Nat /\ regions[r].base + regions[r].offset <= m.addr
      /\ size \in Nat /\ 0 < size
      /\ m.offset \in Nat /\ regions[r].base + m.offset = m.addr + size
      /\ m.offset <= regions[r].capacity
  BY <1>1, <1>2, <1>3, AllocGrants
<1> HIDE DEF m
<1>5. k \in BlockSet /\ k.region = r /\ k.addr = m.addr /\ Extent(k) = size
  BY <1>4 DEF BlockSet, Extent, Ids
<1> HIDE DEF k
<1>6. BumpStep(r, k, m.offset)
  BY <1>1, <1>4, <1>5 DEF BumpStep
<1> QED BY <1>6, BumpKeeps

\* slabAlloc from the bump pointer.
LEMMA SlabBumpKeeps ==
    ASSUME RegionInv, NEW r \in Ids, NEW size \in Requests, SlabAlloc(r, size),
           ~(Class(size) # 0 /\ regions[r].freeLists[Class(size)] # <<>>)
    PROVE  RegionInv'
<1> DEFINE c == Class(size)
           n == IF c # 0 THEN SlabSizes[c] ELSE size
           m == alloc(regions[r], n, Word)
           k == [region |-> r, addr |-> m.addr, size |-> size, chunk |-> TRUE]
<1>1. /\ regions[r].open /\ m.ok /\ regions' = [regions EXCEPT ![r].offset = m.offset]
      /\ blocks' = blocks \cup {k}
  BY DEF SlabAlloc, Hold
<1>2. size \in Nat /\ n \in Sizes /\ Word \in Aligns
  BY ClassFits, RegionAssumption DEF Sizes, Aligns
<1>3. /\ regions[r] \in RegionSet /\ regions[r].offset <= regions[r].capacity
      /\ regions[r].capacity \in {RootBytes, ChildBytes}
  BY RegionAt DEF LaidOut
<1> HIDE DEF n
<1>4. /\ m.addr \in Nat /\ regions[r].base + regions[r].offset <= m.addr
      /\ n \in Nat /\ 0 < n
      /\ m.offset \in Nat /\ regions[r].base + m.offset = m.addr + n
      /\ m.offset <= regions[r].capacity
  BY <1>1, <1>2, <1>3, AllocGrants
<1> HIDE DEF m
<1>5. k \in BlockSet /\ k.region = r /\ k.addr = m.addr /\ Extent(k) = n
  BY <1>2, <1>4 DEF BlockSet, Extent, Ids, n
<1> HIDE DEF k
<1>6. BumpStep(r, k, m.offset)
  BY <1>1, <1>4, <1>5 DEF BumpStep
<1> QED BY <1>6, BumpKeeps

LEMMA WithLists ==
    ASSUME NEW g \in RegionSet, NEW lists \in [DOMAIN SlabSizes -> Seq(Nat)]
    PROVE  LET h == [g EXCEPT !.freeLists = lists]
           IN  /\ h \in RegionSet /\ h.freeLists = lists
               /\ h.base = g.base /\ h.capacity = g.capacity /\ h.parent = g.parent
               /\ h.carved = g.carved /\ h.open = g.open /\ h.offset = g.offset
BY DEF RegionSet

\* A block of r becomes a chunk on its free lists, or a chunk becomes a block:
\* the piece x is replaced by y, which is the same memory.
SwapStep(r, lists, x, y) ==
    /\ regions[r].open
    /\ lists \in [DOMAIN SlabSizes -> Seq(Nat)] /\ NoRepeats(lists)
    /\ regions' = [regions EXCEPT ![r] = [regions[r] EXCEPT !.freeLists = lists]]
    /\ blocks' \subseteq BlockSet
    /\ \A k \in blocks' : k \in blocks \/ k.region = r
    /\ x \in Holdings(r) /\ x[1] # "child" /\ y[3] = x[3] /\ y[4] = x[4]
    /\ BlockPieces(r)' \cup ChunkPieces(r)' \subseteq (Holdings(r) \ {x}) \cup {y}

LEMMA SwapKeeps ==
    ASSUME RegionInv, NEW r \in Ids, NEW lists, NEW x, NEW y, SwapStep(r, lists, x, y)
    PROVE  RegionInv'
<1> DEFINE h == [regions[r] EXCEPT !.freeLists = lists]
<1>0. /\ regions[r] \in RegionSet /\ LaidOut(r) /\ Tidy(r) /\ regions[r].open
      /\ lists \in [DOMAIN SlabSizes -> Seq(Nat)]
  BY RegionAt DEF SwapStep
<1>1. /\ h \in RegionSet /\ h.freeLists = lists
      /\ h.base = regions[r].base /\ h.capacity = regions[r].capacity
      /\ h.parent = regions[r].parent /\ h.carved = regions[r].carved
      /\ h.open = regions[r].open /\ h.offset = regions[r].offset
  BY <1>0, WithLists
<1>2. regions' = [regions EXCEPT ![r] = h] /\ regions \in Seq(RegionSet) /\ r \in 1 .. Len(regions)
  BY DEF SwapStep, RegionInv, Types, Ids
<1> HIDE DEF h
<1>3. /\ regions' \in Seq(RegionSet) /\ Len(regions') = Len(regions)
      /\ \A q \in Ids \ {r} : regions'[q] = regions[q]
      /\ regions'[r] = h
  BY <1>1, <1>2, PutRegion DEF Ids
<1>4. Types' /\ Types
  BY <1>3 DEF RegionInv, Types, SwapStep
<1>5. /\ Steady /\ Ids' = Ids
      /\ \A q \in Ids : regions'[q].open = regions[q].open /\ regions'[q].offset = regions[q].offset
  BY <1>1, <1>3 DEF Steady, Ids
<1>6. ASSUME NEW p \in Ids' PROVE LaidOut(p)'
  <2>1. LaidOut(p) /\ regions[p].offset <= regions[p].capacity
    BY <1>5, RegionAt
  <2>2. regions'[p].offset <= regions'[p].capacity
    BY <1>5, <2>1 DEF Steady
  <2>3. regions[p].carved /\ regions'[p].open => regions'[regions[p].parent].open
    BY <1>5, <2>1 DEF LaidOut
  <2> QED BY <1>4, <1>5, <2>1, <2>2, <2>3, LaidOutFrame
<1>7. BlocksInUse'
  BY <1>0, <1>5 DEF RegionInv, BlocksInUse, SwapStep
<1>8. ASSUME NEW p \in Ids' PROVE Tidy(p)'
  <2>1. CASE p # r
    <3>1. \A k \in blocks' : k.region = p => k \in blocks
      BY <2>1 DEF SwapStep
    <3>2. /\ regions'[p].freeLists = regions[p].freeLists /\ regions[p].offset <= regions'[p].offset
          /\ Tidy(p)
      BY <1>3, <1>5, <2>1, RegionAt
    <3> QED BY <1>4, <1>5, <3>1, <3>2, TidyFrame
  <2>2. CASE p = r
    <3> DEFINE lo == regions[r].base
               hi == regions[r].base + regions[r].offset
               S == Holdings(r)
               T == Holdings(r)'
    <3>1. Packed(S, lo, hi)
      BY <1>0 DEF Tidy
    <3>2. ChildPieces(r)' \subseteq S \ {x}
      <4>1. ChildPieces(r)' \subseteq ChildPieces(r)
        BY <1>5, ChildPiecesSteady
      <4>2. \A z \in ChildPieces(r) : z[1] = "child"
        BY DEF ChildPieces, ChildPiece
      <4> QED BY <4>1, <4>2 DEF Holdings, SwapStep
    <3>3. T \subseteq (S \ {x}) \cup {y}
      BY <3>2 DEF Holdings, SwapStep
    <3>4. x \in S /\ y[3] = x[3] /\ y[4] = x[4]
      BY DEF SwapStep
    <3> HIDE DEF S, T, lo, hi
    <3>5. Packed(T, lo, hi)
      BY <3>1, <3>3, <3>4, PackedSwap
    <3> QED BY <1>1, <1>3, <2>2, <3>5 DEF T, lo, hi, Tidy, Packed, NoRepeats, SwapStep
  <2> QED BY <2>1, <2>2
<1> QED BY <1>4, <1>6, <1>7, <1>8 DEF RegionInv

\* slabAlloc from a free list.
LEMMA SlabReuseKeeps ==
    ASSUME RegionInv, NEW r \in Ids, NEW size \in Requests, SlabAlloc(r, size),
           Class(size) # 0, regions[r].freeLists[Class(size)] # <<>>
    PROVE  RegionInv'
<1> DEFINE c == Class(size)
           fl == regions[r].freeLists
           a == Head(fl[c])
           lists == [fl EXCEPT ![c] = Tail(fl[c])]
           k == [region |-> r, addr |-> a, size |-> size, chunk |-> TRUE]
<1>1. /\ regions[r].open /\ regions' = [regions EXCEPT ![r] = [regions[r] EXCEPT !.freeLists = lists]]
      /\ blocks' = blocks \cup {k}
  BY DEF SlabAlloc, Hold
<1>2. size \in Nat /\ c \in DOMAIN SlabSizes
  BY ClassFits, RegionAssumption
<1>3. /\ fl \in [DOMAIN SlabSizes -> Seq(Nat)] /\ NoRepeats(fl)
      /\ fl[c] \in Seq(Nat) /\ fl[c] # <<>>
  BY <1>1, <1>2, RegionAt DEF Tidy
<1> HIDE DEF c
<1>4. /\ a \in Nat /\ Tail(fl[c]) \in Seq(Nat) /\ 1 \in DOMAIN fl[c] /\ a = fl[c][1]
      /\ \A i \in DOMAIN Tail(fl[c]) : i + 1 \in DOMAIN fl[c] /\ Tail(fl[c])[i] = fl[c][i + 1] /\ i \in Nat /\ i >= 1
  <2> HIDE DEF fl
  <2> QED BY <1>3
<1>5. lists \in [DOMAIN SlabSizes -> Seq(Nat)] /\ lists[c] = Tail(fl[c])
      /\ \A d \in DOMAIN SlabSizes \ {c} : lists[d] = fl[d]
  BY <1>2, <1>3, <1>4
<1> HIDE DEF fl, a, lists
<1>6. NoRepeats(lists)
  <2> SUFFICES ASSUME NEW d \in DOMAIN SlabSizes, NEW i \in DOMAIN lists[d], NEW j \in DOMAIN lists[d],
                      lists[d][i] = lists[d][j]
               PROVE  i = j
    BY DEF NoRepeats
  <2>1. CASE d = c
    <3>1. /\ i + 1 \in DOMAIN fl[c] /\ j + 1 \in DOMAIN fl[c] /\ fl[c][i + 1] = fl[c][j + 1]
          /\ i \in Nat /\ j \in Nat
      BY <1>4, <1>5, <2>1
    <3>2. i + 1 = j + 1
      BY <1>2, <1>3, <3>1 DEF NoRepeats
    <3> QED BY <3>1, <3>2
  <2>2. CASE d # c
    BY <1>3, <1>5, <2>2 DEF NoRepeats
  <2> QED BY <2>1, <2>2
<1> DEFINE x == ChunkPiece(c, a)
           y == BlockPiece(k)
<1>7. k \in BlockSet /\ k.region = r /\ k.addr = a /\ Extent(k) = SlabSizes[c]
  BY <1>2, <1>4 DEF BlockSet, Extent, c, Ids
<1>8. x \in Holdings(r) /\ x[1] # "child" /\ y[3] = x[3] /\ y[4] = x[4]
  <2>1. x \in ChunkPieces(r)
    BY <1>2, <1>4 DEF ChunkPieces, fl
  <2> HIDE DEF k
  <2> QED BY <1>7, <2>1 DEF ChunkPiece, BlockPiece, Holdings
<1> HIDE DEF k
<1>9. BlockPieces(r)' \subseteq (Holdings(r) \ {x}) \cup {y}
  <2> SUFFICES ASSUME NEW b \in blocks \cup {k}, b.region = r
               PROVE  BlockPiece(b) \in (Holdings(r) \ {x}) \cup {y}
    BY <1>1 DEF BlockPieces, BlockPiece, Extent
  <2>1. BlockPiece(b)[1] = "block" /\ x[1] = "chunk"
    BY DEF BlockPiece, ChunkPiece
  <2>2. BlockPiece(b) # x
    BY <2>1
  <2> QED BY <2>2 DEF Holdings, BlockPieces
<1>10. ChunkPieces(r)' \subseteq Holdings(r) \ {x}
  <2>1. regions'[r].freeLists = lists
    BY <1>1, RegionAt DEF RegionInv, Types, Ids, RegionSet
  <2>0. ChunkPieces(r)' = UNION {{ChunkPiece(d, lists[d][i]) : i \in DOMAIN lists[d]} :
                                     d \in DOMAIN SlabSizes}
    BY <2>1 DEF ChunkPieces, ChunkPiece
  <2> SUFFICES ASSUME NEW d \in DOMAIN SlabSizes, NEW i \in DOMAIN lists[d]
               PROVE  ChunkPiece(d, lists[d][i]) \in Holdings(r) \ {x}
    BY <2>0
  <2>2. \E j \in DOMAIN fl[d] : lists[d][i] = fl[d][j] /\ (d = c => j # 1)
    <3>1. CASE d = c
      <4>1. i \in DOMAIN Tail(fl[c]) /\ lists[d][i] = Tail(fl[c])[i]
        BY <1>5, <3>1
      <4>2. i + 1 \in DOMAIN fl[c] /\ lists[d][i] = fl[c][i + 1] /\ i \in Nat /\ i >= 1
        BY <1>4, <4>1
      <4>3. i + 1 # 1
        BY <4>2
      <4> QED BY <3>1, <4>2, <4>3
    <3>2. CASE d # c
      BY <1>5, <3>2
    <3> QED BY <3>1, <3>2
  <2>3. PICK j \in DOMAIN fl[d] : lists[d][i] = fl[d][j] /\ (d = c => j # 1)
    BY <2>2
  <2>4. ChunkPiece(d, lists[d][i]) \in ChunkPieces(r)
    BY <2>3 DEF ChunkPieces, fl
  <2>5. d # c \/ lists[d][i] # a
    BY <1>2, <1>3, <1>4, <2>3 DEF NoRepeats
  <2>6. ChunkPiece(d, lists[d][i]) # x
    BY <2>5 DEF ChunkPiece
  <2> QED BY <2>4, <2>6 DEF Holdings
<1> HIDE DEF x, y
<1>11. blocks' \subseteq BlockSet /\ \A b \in blocks' : b \in blocks \/ b.region = r
  BY <1>1, <1>7 DEF RegionInv, Types
<1>12. SwapStep(r, lists, x, y)
  BY <1>1, <1>5, <1>6, <1>8, <1>9, <1>10, <1>11 DEF SwapStep
<1> QED BY <1>12, SwapKeeps

\* slabFree: a class puts the memory on its list, a size without class leaves it.
LEMMA SlabFreeKeeps ==
    ASSUME RegionInv, NEW k \in blocks, SlabFree(k)
    PROVE  RegionInv'
<1> DEFINE c == Class(k.size)
           r == k.region
<1>0. /\ k \in BlockSet /\ k.chunk /\ k.size \in Nat /\ k.addr \in Nat /\ r \in Ids
      /\ regions[r].open /\ blocks' = blocks \ {k}
  BY DEF RegionInv, Types, BlocksInUse, SlabFree, BlockSet
<1>1. c = 0 \/ c \in DOMAIN SlabSizes
  BY <1>0, ClassFits
<1>2. CASE c = 0
  <2>1. regions' = regions
    BY <1>2 DEF SlabFree
  <2>2. Types /\ Types' /\ BlocksInUse' /\ Steady /\ Ids' = Ids
    BY <1>0, <2>1 DEF RegionInv, Types, BlocksInUse, Steady, Ids
  <2>3. ASSUME NEW p \in Ids' PROVE LaidOut(p)' /\ Tidy(p)'
    <3>1. /\ LaidOut(p) /\ Tidy(p) /\ regions[p].offset <= regions[p].capacity
          /\ regions[p].offset \in Nat
      BY <2>2, RegionAt
    <3>2. LaidOut(p)'
      BY <2>1, <3>1 DEF LaidOut, Ids, HeapBase, Spacing
    <3>3. Tidy(p)'
      BY <1>0, <2>1, <2>2, <3>1, TidyFrame
    <3> QED BY <3>2, <3>3
  <2> QED BY <2>2, <2>3 DEF RegionInv
<1>3. CASE c \in DOMAIN SlabSizes
  <2> DEFINE fl == regions[r].freeLists
             lists == [fl EXCEPT ![c] = <<k.addr>> \o fl[c]]
             x == BlockPiece(k)
             y == ChunkPiece(c, k.addr)
  <2>0. c # 0
    BY <1>3, SlabTable
  <2>1. regions' = [regions EXCEPT ![r] = [regions[r] EXCEPT !.freeLists = lists]]
    BY <2>0 DEF SlabFree
  <2>2. /\ fl \in [DOMAIN SlabSizes -> Seq(Nat)] /\ NoRepeats(fl) /\ fl[c] \in Seq(Nat)
        /\ Packed(Holdings(r), regions[r].base, regions[r].base + regions[r].offset)
    BY <1>0, <1>3, RegionAt DEF Tidy
  <2>3. Extent(k) = SlabSizes[c] /\ SlabSizes[c] \in Nat /\ 0 < SlabSizes[c]
    BY <1>0, <1>3, <2>0, SlabTable DEF Extent
  <2> HIDE DEF c, r
  <2>4. /\ <<k.addr>> \o fl[c] \in Seq(Nat) /\ (<<k.addr>> \o fl[c])[1] = k.addr
        /\ \A i \in DOMAIN (<<k.addr>> \o fl[c]) :
              i = 1 \/ (i \in Nat /\ i - 1 \in DOMAIN fl[c] /\ (<<k.addr>> \o fl[c])[i] = fl[c][i - 1])
    <3> HIDE DEF fl
    <3> QED BY <1>0, <2>2
  <2>5. lists \in [DOMAIN SlabSizes -> Seq(Nat)] /\ lists[c] = <<k.addr>> \o fl[c]
        /\ \A d \in DOMAIN SlabSizes \ {c} : lists[d] = fl[d]
    BY <1>3, <2>2, <2>4
  <2> DEFINE new == <<k.addr>> \o fl[c]
  <2> HIDE DEF new
  <2>6. /\ x \in Holdings(r) /\ x[1] = "block" /\ y[1] = "chunk"
        /\ x[3] = k.addr /\ y[3] = k.addr /\ x[4] = k.addr + SlabSizes[c] /\ y[4] = k.addr + SlabSizes[c]
    BY <2>3 DEF Holdings, BlockPieces, BlockPiece, ChunkPiece, r
  <2>7. \A i \in DOMAIN fl[c] : fl[c][i] # k.addr
    <3> SUFFICES ASSUME NEW i \in DOMAIN fl[c], fl[c][i] = k.addr PROVE FALSE
      OBVIOUS
    <3>1. y \in Holdings(r)
      BY <1>3 DEF Holdings, ChunkPieces, fl
    <3>2. x # y
      BY <2>6
    <3> HIDE DEF x, y
    <3>3. x[4] <= y[3] \/ y[4] <= x[3]
      BY <2>2, <2>6, <3>1, <3>2 DEF Packed
    <3> QED BY <1>0, <2>3, <2>6, <3>3
  <2> HIDE DEF fl, lists
  <2>8. NoRepeats(lists)
    <3> SUFFICES ASSUME NEW d \in DOMAIN SlabSizes, NEW i \in DOMAIN lists[d], NEW j \in DOMAIN lists[d],
                        lists[d][i] = lists[d][j]
                 PROVE  i = j
      BY DEF NoRepeats
    <3>1. CASE d = c
      <4>1. /\ i \in DOMAIN new /\ j \in DOMAIN new /\ new[i] = new[j] /\ new[1] = k.addr
        BY <2>4, <2>5, <3>1 DEF new
      <4>2. /\ i = 1 \/ (i \in Nat /\ i - 1 \in DOMAIN fl[c] /\ new[i] = fl[c][i - 1])
            /\ j = 1 \/ (j \in Nat /\ j - 1 \in DOMAIN fl[c] /\ new[j] = fl[c][j - 1])
        BY <2>4, <4>1 DEF new
      <4>3. CASE i = 1 \/ j = 1
        BY <2>7, <4>1, <4>2, <4>3
      <4>4. CASE i # 1 /\ j # 1
        <5>1. i - 1 = j - 1
          BY <1>3, <2>2, <4>1, <4>2, <4>4 DEF NoRepeats
        <5> QED BY <4>2, <4>4, <5>1
      <4> QED BY <4>3, <4>4
    <3>2. CASE d # c
      BY <2>2, <2>5, <3>2 DEF NoRepeats
    <3> QED BY <3>1, <3>2
  <2>9. BlockPieces(r)' \subseteq (Holdings(r) \ {x}) \cup {y}
    <3> SUFFICES ASSUME NEW b \in blocks \ {k}, b.region = r
                 PROVE  BlockPiece(b) \in Holdings(r) \ {x}
      BY <1>0 DEF BlockPieces, BlockPiece, Extent
    <3>1. BlockPiece(b) # x
      BY DEF BlockPiece
    <3> QED BY <3>1 DEF Holdings, BlockPieces
  <2>10. ChunkPieces(r)' \subseteq (Holdings(r) \ {x}) \cup {y}
    <3>1. regions'[r].freeLists = lists
      BY <1>0, <2>1, RegionAt DEF RegionInv, Types, Ids, RegionSet
    <3>2. ChunkPieces(r)' = UNION {{ChunkPiece(d, lists[d][i]) : i \in DOMAIN lists[d]} :
                                       d \in DOMAIN SlabSizes}
      BY <3>1 DEF ChunkPieces, ChunkPiece
    <3> SUFFICES ASSUME NEW d \in DOMAIN SlabSizes, NEW i \in DOMAIN lists[d]
                 PROVE  ChunkPiece(d, lists[d][i]) \in (Holdings(r) \ {x}) \cup {y}
      BY <3>2
    <3>3. ChunkPiece(d, lists[d][i]) # x
      BY <2>6 DEF ChunkPiece
    <3>4. (d = c /\ lists[d][i] = k.addr) \/ \E j \in DOMAIN fl[d] : lists[d][i] = fl[d][j]
      <4>1. CASE d = c
        <5>1. i \in DOMAIN new /\ lists[d][i] = new[i]
          BY <2>5, <4>1 DEF new
        <5>2. i = 1 \/ (i - 1 \in DOMAIN fl[c] /\ new[i] = fl[c][i - 1])
          BY <2>4, <5>1 DEF new
        <5> QED BY <2>4, <4>1, <5>1, <5>2 DEF new
      <4>2. CASE d # c
        BY <2>5, <4>2
      <4> QED BY <4>1, <4>2
    <3>5. CASE d = c /\ lists[d][i] = k.addr
      BY <3>5
    <3>6. CASE \E j \in DOMAIN fl[d] : lists[d][i] = fl[d][j]
      <4>1. ChunkPiece(d, lists[d][i]) \in ChunkPieces(r)
        BY <3>6 DEF ChunkPieces, fl
      <4> QED BY <3>3, <4>1 DEF Holdings
    <3> QED BY <3>4, <3>5, <3>6
  <2> HIDE DEF x, y
  <2>11. blocks' \subseteq BlockSet /\ \A b \in blocks' : b \in blocks \/ b.region = r
    BY <1>0 DEF RegionInv, Types
  <2>12. regions[r].open /\ r \in Ids
    BY <1>0 DEF r
  <2>13. SwapStep(r, lists, x, y)
    BY <2>1, <2>5, <2>6, <2>8, <2>9, <2>10, <2>11, <2>12 DEF SwapStep
  <2> QED BY <2>12, <2>13, SwapKeeps
<1> QED BY <1>1, <1>2, <1>3

(***************************************************************************)
(* Buffers from malloc.                                                    *)
(***************************************************************************)
LEMMA SpacingWide == Spacing \in Nat /\ RootBytes <= Spacing /\ ChildBytes <= Spacing
<1>0. RootBytes \in Nat /\ ChildBytes \in Nat /\ CacheLine \in Nat \ {0}
  BY RegionAssumption
<1> DEFINE w == 2 * (RootBytes + ChildBytes + CacheLine)
<1>1. w \in Nat /\ RootBytes <= w /\ ChildBytes <= w
  BY <1>0
<1>2. Spacing = w * CacheLine
  BY DEF Spacing
<1> HIDE DEF w
<1>3. w * CacheLine = w + w * (CacheLine - 1) /\ w * (CacheLine - 1) \in Nat
  BY <1>0, <1>1
<1> QED BY <1>0, <1>1, <1>2, <1>3

LEMMA HeapBases ==
    /\ \A k \in Nat : HeapBase(k) \in Nat
    /\ \A k \in Nat : HeapBase(k + 1) = HeapBase(k) + Spacing
    /\ \A j, k \in Nat : j <= k => HeapBase(j) <= HeapBase(k)
<1> USE SpacingWide DEF HeapBase
<1>1. \A k \in Nat : HeapBase(k) \in Nat
  OBVIOUS
<1>2. \A k \in Nat : HeapBase(k + 1) = HeapBase(k) + Spacing
  OBVIOUS
<1>3. ASSUME NEW j \in Nat, NEW k \in Nat, j <= k PROVE HeapBase(j) <= HeapBase(k)
  <2>1. k * Spacing = j * Spacing + (k - j) * Spacing /\ (k - j) * Spacing \in Nat
    BY <1>3
  <2> QED BY <1>1, <2>1
<1> QED BY <1>1, <1>2, <1>3

(***************************************************************************)
(* createChild.                                                            *)
(***************************************************************************)

\* The parent's bump pointer moves to off, and the child's buffer is new memory
\* or lies between the bump pointer's two places.
CreateStep(r, off, child) ==
    /\ off \in Nat /\ regions[r].offset <= off /\ off <= regions[r].capacity
    /\ regions' = Append([regions EXCEPT ![r] = [regions[r] EXCEPT !.offset = off]], child)
    /\ blocks' = blocks
    /\ \/ child = NewRegion(HeapBase(Len(regions)), ChildBytes, r, FALSE)
       \/ \E at \in Nat : /\ child = NewRegion(at, ChildBytes, r, TRUE)
                          /\ regions[r].base + regions[r].offset <= at
                          /\ 0 < ChildBytes
                          /\ at + ChildBytes = regions[r].base + off

LEMMA CreateEffect ==
    ASSUME RegionInv, NEW r \in Ids, CreateChild(r)
    PROVE  regions[r].open /\ \E off, child : CreateStep(r, off, child)
<1> DEFINE R == regions[r]
           obj == alloc(R, RegionObject, Word)
           g == IF obj.ok THEN [R EXCEPT !.offset = obj.offset] ELSE R
           data == alloc(g, ChildBytes, CacheLine)
           left == IF data.ok THEN [g EXCEPT !.offset = data.offset] ELSE g
           child == IF obj.ok /\ data.ok
                      THEN NewRegion(data.addr, ChildBytes, r, TRUE)
                      ELSE NewRegion(HeapBase(Len(regions)), ChildBytes, r, FALSE)
           off == IF data.ok THEN data.offset ELSE g.offset
<1>0. /\ R \in RegionSet /\ R.base \in Nat /\ R.offset \in Nat /\ R.capacity \in Nat
      /\ R.offset <= R.capacity /\ R.capacity \in {RootBytes, ChildBytes}
  BY RegionAt DEF LaidOut
<1>1. /\ R.open /\ blocks' = blocks
      /\ regions' = Append([regions EXCEPT ![r] = left], child)
  BY DEF CreateChild
<1>2. /\ RegionObject \in Sizes /\ ChildBytes \in Sizes /\ Word \in Aligns /\ CacheLine \in Aligns
      /\ RegionObject \in Nat /\ ChildBytes \in Nat
  BY RegionAssumption DEF Sizes, Aligns
<1> HIDE DEF R
<1>3. /\ g \in RegionSet /\ g.base = R.base /\ g.capacity = R.capacity /\ g.offset \in Nat
      /\ g.offset <= g.capacity /\ R.offset <= g.offset
      /\ g = [R EXCEPT !.offset = g.offset]
  <2>1. CASE obj.ok
    <3>1. /\ obj.addr \in Nat /\ R.base + R.offset <= obj.addr /\ obj.offset \in Nat
          /\ R.base + obj.offset = obj.addr + RegionObject /\ obj.offset <= R.capacity
      BY <1>0, <1>2, <2>1, AllocGrants
    <3> HIDE DEF obj
    <3>2. g = [R EXCEPT !.offset = obj.offset]
      BY <2>1
    <3> HIDE DEF g
    <3>3. g \in RegionSet /\ g.base = R.base /\ g.capacity = R.capacity /\ g.offset = obj.offset
      BY <1>0, <3>1, <3>2, WithOffset
    <3> QED BY <1>0, <1>2, <3>1, <3>2, <3>3
  <2>2. CASE ~obj.ok
    <3>1. R = [R EXCEPT !.offset = R.offset]
      BY <1>0 DEF RegionSet
    <3> QED BY <1>0, <2>2, <3>1
  <2> QED BY <2>1, <2>2
<1> HIDE DEF g
<1>4. data.ok => /\ data.addr \in Nat /\ g.base + g.offset <= data.addr /\ 0 < ChildBytes
                 /\ data.offset \in Nat /\ g.base + data.offset = data.addr + ChildBytes
                 /\ data.offset <= g.capacity
  BY <1>0, <1>2, <1>3, AllocGrants
<1> HIDE DEF data
<1>5. off \in Nat /\ R.offset <= off /\ off <= R.capacity
  BY <1>0, <1>2, <1>3, <1>4
<1>6. left = [R EXCEPT !.offset = off]
  <2>1. [[R EXCEPT !.offset = g.offset] EXCEPT !.offset = data.offset] = [R EXCEPT !.offset = data.offset]
    BY <1>0 DEF RegionSet
  <2> QED BY <1>3, <2>1
<1>7. \/ child = NewRegion(HeapBase(Len(regions)), ChildBytes, r, FALSE)
      \/ \E at \in Nat : /\ child = NewRegion(at, ChildBytes, r, TRUE)
                         /\ R.base + R.offset <= at
                         /\ 0 < ChildBytes
                         /\ at + ChildBytes = R.base + off
  <2>1. CASE obj.ok /\ data.ok
    <3>1. child = NewRegion(data.addr, ChildBytes, r, TRUE) /\ off = data.offset
      BY <2>1
    <3>2. R.base + R.offset <= data.addr /\ data.addr + ChildBytes = R.base + data.offset
      BY <1>0, <1>2, <1>3, <1>4, <2>1
    <3> HIDE DEF child, off
    <3> QED BY <1>4, <2>1, <3>1, <3>2
  <2>2. CASE ~(obj.ok /\ data.ok)
    BY <2>2
  <2> QED BY <2>1, <2>2
<1> HIDE DEF off, child, left
<1>8. CreateStep(r, off, child)
  BY <1>1, <1>5, <1>6, <1>7 DEF CreateStep, R
<1> QED BY <1>1, <1>8 DEF R

LEMMA AppendRegion ==
    ASSUME NEW s \in Seq(RegionSet), NEW h \in RegionSet
    PROVE  /\ Append(s, h) \in Seq(RegionSet) /\ Len(Append(s, h)) = Len(s) + 1
           /\ Append(s, h)[Len(s) + 1] = h
           /\ \A q \in 1 .. Len(s) : Append(s, h)[q] = s[q]
OBVIOUS

LEMMA CreateKeeps ==
    ASSUME RegionInv, NEW r \in Ids, regions[r].open, NEW off, NEW child, CreateStep(r, off, child),
           NEW n, n = Len(regions) + 1
    PROVE  RegionInv'
<1> DEFINE h == [regions[r] EXCEPT !.offset = off]
           u == [regions EXCEPT ![r] = h]
<1>0. /\ regions[r] \in RegionSet /\ LaidOut(r) /\ Tidy(r)
      /\ regions[r].base \in Nat /\ regions[r].offset \in Nat /\ regions[r].capacity \in Nat
      /\ off \in Nat /\ regions[r].offset <= off /\ off <= regions[r].capacity
      /\ Len(regions) \in Nat /\ Ids = 1 .. Len(regions) /\ r \in Nat /\ r >= 1 /\ r < n
      /\ ChildBytes \in Nat /\ RootBytes \in Nat
  BY RegionAt, RegionAssumption DEF CreateStep, RegionInv, Types, Ids
<1>1. /\ h \in RegionSet /\ h.offset = off
      /\ h.base = regions[r].base /\ h.capacity = regions[r].capacity
      /\ h.parent = regions[r].parent /\ h.carved = regions[r].carved
      /\ h.open = regions[r].open /\ h.freeLists = regions[r].freeLists
  BY <1>0, WithOffset
<1> HIDE DEF h
<1>2. u \in Seq(RegionSet) /\ Len(u) = Len(regions) /\ u[r] = h /\ \A q \in Ids \ {r} : u[q] = regions[q]
  BY <1>0, <1>1, PutRegion DEF RegionInv, Types
<1>3. regions' = Append(u, child) /\ blocks' = blocks
  BY DEF CreateStep, h
<1>4. /\ child \in RegionSet /\ child.base \in Nat /\ child.capacity = ChildBytes /\ child.offset = 0
      /\ child.parent = r /\ child.open /\ child.freeLists = [c \in DOMAIN SlabSizes |-> <<>>]
      /\ child.carved \in BOOLEAN
      /\ ~child.carved => child.base = HeapBase(Len(regions))
      /\ child.carved => /\ regions[r].base + regions[r].offset <= child.base /\ 0 < ChildBytes
                         /\ child.base + ChildBytes = regions[r].base + off
  <2>1. CASE child = NewRegion(HeapBase(Len(regions)), ChildBytes, r, FALSE)
    <3>1. HeapBase(Len(regions)) \in Nat
      BY <1>0, HeapBases
    <3>3. /\ child \in RegionSet /\ child.base = HeapBase(Len(regions)) /\ child.capacity = ChildBytes
          /\ child.offset = 0 /\ child.parent = r /\ child.carved = FALSE /\ child.open
          /\ child.freeLists = [c \in DOMAIN SlabSizes |-> <<>>]
      BY <1>0, <2>1, <3>1 DEF NewRegion, RegionSet
    <3> QED BY <3>1, <3>3
  <2>2. CASE \E at \in Nat : /\ child = NewRegion(at, ChildBytes, r, TRUE)
                             /\ regions[r].base + regions[r].offset <= at
                             /\ 0 < ChildBytes
                             /\ at + ChildBytes = regions[r].base + off
    <3>1. PICK at \in Nat : /\ child = NewRegion(at, ChildBytes, r, TRUE)
                            /\ regions[r].base + regions[r].offset <= at
                            /\ 0 < ChildBytes
                            /\ at + ChildBytes = regions[r].base + off
      BY <2>2
    <3>3. /\ child \in RegionSet /\ child.base = at /\ child.capacity = ChildBytes
          /\ child.offset = 0 /\ child.parent = r /\ child.carved = TRUE /\ child.open
          /\ child.freeLists = [c \in DOMAIN SlabSizes |-> <<>>]
      BY <1>0, <3>1 DEF NewRegion, RegionSet
    <3> QED BY <3>1, <3>3
  <2> QED BY <2>1, <2>2 DEF CreateStep
<1> HIDE DEF u
<1>5. /\ regions' \in Seq(RegionSet) /\ Len(regions') = n
      /\ regions'[n] = child /\ regions'[r] = h
      /\ \A q \in Ids \ {r} : regions'[q] = regions[q]
  <2>1. /\ Append(u, child) \in Seq(RegionSet) /\ Len(Append(u, child)) = n
        /\ Append(u, child)[n] = child
        /\ \A q \in 1 .. Len(regions) : Append(u, child)[q] = u[q]
    BY <1>2, <1>4, AppendRegion
  <2> QED BY <1>0, <1>2, <1>3, <2>1
<1>6. /\ Ids' = 1 .. n /\ Types' /\ n \notin Ids
      /\ \A p \in Ids' : p \in Ids \/ p = n
      /\ \A p \in Ids : p \in Ids'
  <2>1. Ids' = 1 .. n
    BY <1>5 DEF Ids
  <2>2. n \notin Ids /\ (\A p \in 1 .. n : p \in Ids \/ p = n) /\ \A p \in Ids : p \in 1 .. n
    BY <1>0
  <2>3. Types'
    BY <1>3, <1>5 DEF RegionInv, Types
  <2> QED BY <2>1, <2>2, <2>3
<1>7. \A q \in Ids : /\ regions'[q].base = regions[q].base
                     /\ regions'[q].capacity = regions[q].capacity
                     /\ regions'[q].parent = regions[q].parent
                     /\ regions'[q].carved = regions[q].carved
                     /\ regions'[q].open = regions[q].open
                     /\ regions'[q].freeLists = regions[q].freeLists
                     /\ regions[q].offset <= regions'[q].offset
                     /\ regions'[q].offset \in Nat /\ regions[q].offset \in Nat /\ regions[q].base \in Nat
                     /\ regions'[q].offset <= regions'[q].capacity
  <2> SUFFICES ASSUME NEW q \in Ids
               PROVE  /\ regions'[q].base = regions[q].base
                      /\ regions'[q].capacity = regions[q].capacity
                      /\ regions'[q].parent = regions[q].parent
                      /\ regions'[q].carved = regions[q].carved
                      /\ regions'[q].open = regions[q].open
                      /\ regions'[q].freeLists = regions[q].freeLists
                      /\ regions[q].offset <= regions'[q].offset
                      /\ regions'[q].offset \in Nat /\ regions[q].offset \in Nat /\ regions[q].base \in Nat
                      /\ regions'[q].offset <= regions'[q].capacity
    OBVIOUS
  <2>1. CASE q = r
    BY <1>0, <1>1, <1>5, <2>1
  <2>2. CASE q # r
    BY <1>5, <2>2, RegionAt
  <2> QED BY <2>1, <2>2
<1>8. \A q \in Ids : regions[q].parent < q
  BY RegionAt DEF LaidOut
<1>9. ASSUME NEW p \in Ids' PROVE LaidOut(p)'
  <2>1. CASE p \in Ids
    <3>1. LaidOut(p)
      BY <2>1, RegionAt
    <3>2. HeapBase(p)' = HeapBase(p) /\ HeapBase(p - 1)' = HeapBase(p - 1)
      BY DEF HeapBase, Spacing
    <3>3. regions[p].carved =>
            /\ regions'[regions[p].parent].base = regions[regions[p].parent].base
            /\ regions'[regions[p].parent].capacity = regions[regions[p].parent].capacity
            /\ regions'[regions[p].parent].open = regions[regions[p].parent].open
            /\ regions[p].parent \in Ids'
      BY <1>6, <1>7, <3>1 DEF LaidOut
    <3>4. /\ regions'[p].base = regions[p].base /\ regions'[p].capacity = regions[p].capacity
          /\ regions'[p].parent = regions[p].parent /\ regions'[p].carved = regions[p].carved
          /\ regions'[p].open = regions[p].open /\ regions'[p].offset <= regions'[p].capacity
      BY <1>7, <2>1
    <3> QED BY <3>1, <3>2, <3>3, <3>4 DEF LaidOut
  <2>2. CASE p = n
    <3>1. HeapBase(n)' = HeapBase(n) /\ HeapBase(n - 1)' = HeapBase(n - 1) /\ n - 1 = Len(regions)
      BY <1>0 DEF HeapBase, Spacing
    <3>2. HeapBase(n) = HeapBase(Len(regions)) + Spacing /\ HeapBase(Len(regions)) \in Nat /\ Spacing \in Nat
      BY <1>0, HeapBases, SpacingWide
    <3>3. child.carved => /\ regions[r].base <= child.base
                          /\ child.base + ChildBytes <= regions[r].base + regions[r].capacity
      BY SMTT(30), <1>0, <1>4
    <3>4. regions[r].base + regions[r].capacity <= HeapBase(r) /\ HeapBase(r) <= HeapBase(n) /\ HeapBase(r) \in Nat /\ HeapBase(n) \in Nat
      BY <1>0, HeapBases DEF LaidOut
    <3>5. child.base + ChildBytes <= HeapBase(n)
      <4>1. CASE child.carved
        BY <1>0, <1>4, <3>3, <3>4, <4>1
      <4>2. CASE ~child.carved
        BY <1>0, <1>4, <3>2, <4>2, SpacingWide
      <4> QED BY <4>1, <4>2
    <3>6. r \in Ids' /\ r # n
      BY <1>0, <1>6
    <3>7. regions'[n] = child /\ regions'[r].base = regions[r].base /\ regions'[r].capacity = regions[r].capacity
          /\ regions'[r].open
      BY <1>5, <1>7
    <3> QED BY SMTT(30), <1>0, <1>4, <2>2, <3>1, <3>3, <3>5, <3>6, <3>7 DEF LaidOut
  <2> QED BY <1>6, <2>1, <2>2
<1>10. BlocksInUse'
  BY <1>3, <1>6, <1>7 DEF RegionInv, BlocksInUse
<1>11. \A p : BlockPieces(p)' = BlockPieces(p)
  BY <1>3 DEF BlockPieces, BlockPiece, Extent
<1> DEFINE x == <<"child", n, child.base, child.base + ChildBytes>>
<1>12. ASSUME NEW p \in Ids, ~(p = r /\ child.carved) PROVE ChildPieces(p)' \subseteq ChildPieces(p)
  BY SMTT(30), <1>4, <1>5, <1>6, <1>7, <1>12 DEF ChildPieces, ChildPiece
<1>13. ChildPieces(r)' \subseteq ChildPieces(r) \cup {x}
  BY SMTT(30), <1>4, <1>5, <1>6, <1>7 DEF ChildPieces, ChildPiece
<1>14. \A p \in Ids : ChunkPieces(p)' = ChunkPieces(p)
  BY <1>7 DEF ChunkPieces, ChunkPiece
<1>15. ASSUME NEW p \in Ids' PROVE Tidy(p)'
  <2>1. CASE p \in Ids
    <3> SUFFICES ASSUME regions'[p].open
                 PROVE  Packed(Holdings(p)', regions[p].base, regions[p].base + regions'[p].offset)
      <4>1. Tidy(p)
        BY <2>1, RegionAt
      <4> QED BY <1>7, <2>1, <4>1 DEF Tidy, Packed, NoRepeats
    <3>1. Packed(Holdings(p), regions[p].base, regions[p].base + regions[p].offset)
      BY <1>7, <2>1, RegionAt DEF Tidy
    <3>2. CASE ~(p = r /\ child.carved)
      <4>1. Holdings(p)' \subseteq Holdings(p)
        BY <1>11, <1>12, <1>14, <2>1, <3>2 DEF Holdings
      <4>2. /\ regions[p].base \in Int /\ regions[p].base + regions[p].offset \in Int
            /\ regions[p].base + regions'[p].offset \in Int
            /\ regions[p].base + regions[p].offset <= regions[p].base + regions'[p].offset
        BY <1>7, <2>1
      <4> QED BY <3>1, <4>1, <4>2, PackedPart
    <3>3. CASE p = r /\ child.carved
      <4>1. Holdings(p)' \subseteq Holdings(p) \cup {x}
        BY <1>11, <1>13, <1>14, <2>1, <3>3 DEF Holdings
      <4>2. /\ regions[r].base \in Int /\ regions[r].base + regions[r].offset \in Int
            /\ regions[r].base + off \in Int /\ regions[r].base <= regions[r].base + regions[r].offset
            /\ x[3] \in Int /\ x[4] \in Int /\ regions[r].base + regions[r].offset <= x[3]
            /\ x[3] < x[4] /\ x[4] <= regions[r].base + off
        BY SMTT(30), <1>0, <1>4, <3>3
      <4> DEFINE S == Holdings(p)
                 T == Holdings(p)'
                 lo == regions[r].base
                 hi == regions[r].base + regions[r].offset
                 hj == regions[r].base + off
      <4>0. Packed(S, lo, hi)
        BY <3>1, <3>3
      <4> HIDE DEF x, S, T, lo, hi, hj
      <4>3. Packed(T, lo, hj)
        BY <4>0, <4>1, <4>2, PackedAdd DEF S, T, lo, hi, hj
      <4> USE DEF T, lo, hj
      <4> QED BY <1>1, <1>5, <3>3, <4>3
    <3> QED BY <3>2, <3>3
  <2>2. CASE p = n
    <3>1. BlockPieces(n)' = {}
      <4>1. BlockPieces(n) = {}
        BY <1>6 DEF BlockPieces, RegionInv, BlocksInUse
      <4> QED BY <1>11, <4>1
    <3>2. ChildPieces(n)' = {}
      <4> SUFFICES ASSUME NEW q \in Ids', regions'[q].parent = n PROVE FALSE
        BY DEF ChildPieces
      <4>1. q # n
        BY <1>0, <1>4, <1>5
      <4>2. q \in Ids /\ regions[q].parent = n /\ regions[q].parent < q
        BY <1>6, <1>7, <1>8, <4>1
      <4> QED BY <1>0, <4>2
    <3>3. regions'[n].freeLists = [c \in DOMAIN SlabSizes |-> <<>>]
      BY <1>4, <1>5
    <3>4. ChunkPieces(n)' = {}
      BY <3>3 DEF ChunkPieces
    <3>5. Holdings(n)' = {}
      BY <3>1, <3>2, <3>4 DEF Holdings
    <3>6. NoRepeats(regions'[n].freeLists)
      BY <3>3 DEF NoRepeats
    <3> QED BY <2>2, <3>5, <3>6 DEF Tidy, Packed, NoRepeats
  <2> QED BY <1>6, <2>1, <2>2
<1> QED BY <1>6, <1>9, <1>10, <1>15 DEF RegionInv

(***************************************************************************)
(* Families of regions and dispose.                                        *)
(***************************************************************************)
LEMMA InsideSelf ==
    ASSUME NEW r \in Ids PROVE r \in Inside(r)
BY DEF Inside, Families

LEMMA InsideChild ==
    ASSUME NEW r, NEW q \in Ids, regions[q].carved, regions[q].parent \in Inside(r)
    PROVE  q \in Inside(r)
<1>1. ASSUME NEW S \in Families(r) PROVE q \in S
  BY DEF Inside, Families
<1> QED BY <1>1 DEF Inside

LEMMA InsideLeast ==
    ASSUME NEW r, NEW S \in Families(r) PROVE Inside(r) \subseteq S
BY DEF Inside

LEMMA InsideTransitive ==
    ASSUME NEW r, NEW c \in Inside(r) PROVE Inside(c) \subseteq Inside(r)
<1>1. ASSUME NEW q \in Ids, regions[q].carved, regions[q].parent \in Inside(r) PROVE q \in Inside(r)
  BY <1>1, InsideChild
<1>2. Inside(r) \in SUBSET Ids
  BY DEF Inside
<1>3. Inside(r) \in Families(c)
  BY <1>1, <1>2 DEF Families
<1> QED BY <1>3, InsideLeast

\* A region lies inside regions created before it only.
LEMMA InsideAbove ==
    ASSUME RegionInv, NEW r \in Ids, NEW q \in Inside(r) PROVE r <= q
<1> DEFINE S == {p \in Ids : r <= p}
<1>1. \A p \in Ids : p \in Nat
  BY DEF Ids
<1>2. ASSUME NEW p \in Ids, regions[p].carved, regions[p].parent \in S PROVE p \in S
  <2>1. regions[p].parent < p /\ regions[p].parent \in Nat /\ r <= regions[p].parent
    BY <1>1, <1>2, RegionAt DEF LaidOut
  <2> QED BY <1>1, <2>1
<1>3. S \in Families(r)
  BY <1>1, <1>2 DEF Families
<1> QED BY <1>3, InsideLeast

LEMMA DisposeKeeps ==
    ASSUME RegionInv, NEW r \in Ids, Dispose(r)
    PROVE  RegionInv'
<1> DEFINE gone == Inside(r)
           none == [c \in DOMAIN SlabSizes |-> <<>>]
           h(q) == IF q = r THEN [regions[r] EXCEPT !.offset = 0, !.freeLists = none]
                   ELSE [regions[q] EXCEPT !.open = @ /\ q \notin gone]
<1>0. /\ regions \in Seq(RegionSet) /\ Len(regions) \in Nat /\ Ids = 1 .. Len(regions)
      /\ regions[r].open /\ blocks \subseteq BlockSet
  BY DEF RegionInv, Types, Ids, Dispose
<1>1. regions' = [q \in Ids |-> h(q)] /\ blocks' = {k \in blocks : k.region \notin gone}
  BY DEF Dispose
<1>2. ASSUME NEW q \in Ids
      PROVE  /\ h(q) \in RegionSet /\ h(q).base = regions[q].base
             /\ h(q).capacity = regions[q].capacity /\ h(q).parent = regions[q].parent
             /\ h(q).carved = regions[q].carved
             /\ h(q).offset = IF q = r THEN 0 ELSE regions[q].offset
             /\ h(q).freeLists = IF q = r THEN none ELSE regions[q].freeLists
             /\ h(q).open <=> regions[q].open /\ (q = r \/ q \notin gone)
  <2>1. regions[q] \in RegionSet
    BY RegionAt
  <2>2. none \in [DOMAIN SlabSizes -> Seq(Nat)]
    OBVIOUS
  <2>3. CASE q = r
    <3> HIDE DEF none, gone
    <3> QED BY <1>0, <2>1, <2>2, <2>3 DEF RegionSet
  <2>4. CASE q # r
    <3> HIDE DEF none, gone
    <3> QED BY <2>1, <2>4 DEF RegionSet
  <2> QED BY <2>3, <2>4
<1> HIDE DEF h
<1>3. /\ regions' \in Seq(RegionSet) /\ Len(regions') = Len(regions)
      /\ \A q \in Ids : regions'[q] = h(q)
  <2>1. [q \in 1 .. Len(regions) |-> h(q)] \in Seq(RegionSet)
        /\ Len([q \in 1 .. Len(regions) |-> h(q)]) = Len(regions)
    BY <1>0, <1>2
  <2> QED BY <1>0, <1>1, <2>1
<1>4. Types /\ Types' /\ Ids' = Ids
  BY <1>0, <1>1, <1>3 DEF Types, Ids
<1>5. Steady
  BY <1>2, <1>3 DEF Steady
<1>6. ASSUME NEW q \in Ids, regions'[q].open, q # r PROVE q \notin gone
  BY <1>2, <1>3, <1>6
<1>7. r \in gone
  BY InsideSelf
<1> HIDE DEF gone, none
<1>8. ASSUME NEW p \in Ids' PROVE LaidOut(p)'
  <2>1. LaidOut(p) /\ regions[p].capacity \in Nat
    BY <1>4, RegionAt
  <2>2. regions'[p].offset <= regions'[p].capacity
    BY <1>2, <1>3, <1>4, <2>1 DEF LaidOut
  <2>3. ASSUME regions[p].carved, regions'[p].open PROVE regions'[regions[p].parent].open
    <3> DEFINE m == regions[p].parent
    <3>1. m \in Ids /\ m < p /\ regions[m].open
      BY <1>4, <1>5, <2>1, <2>3 DEF LaidOut, Steady
    <3>2. m \notin gone
      <4>1. CASE p = r
        <5>1. m \in gone => r <= m
          BY InsideAbove DEF gone
        <5> QED BY <1>0, <3>1, <4>1, <5>1
      <4>2. CASE p # r
        <5>1. p \notin gone
          BY <1>4, <1>6, <2>3, <4>2
        <5> QED BY <1>4, <2>3, <5>1, InsideChild DEF gone
      <4> QED BY <4>1, <4>2
    <3> HIDE DEF m
    <3>3. regions'[m].open
      BY <1>2, <1>3, <3>1, <3>2
    <3> QED BY <3>3 DEF m
  <2> QED BY <1>4, <1>5, <2>1, <2>2, <2>3, LaidOutFrame
<1>9. BlocksInUse'
  BY <1>1, <1>2, <1>3, <1>4 DEF RegionInv, BlocksInUse
<1>10. ASSUME NEW p \in Ids' PROVE Tidy(p)'
  <2>1. CASE p # r
    <3>1. /\ regions'[p].freeLists = regions[p].freeLists /\ regions[p].offset <= regions'[p].offset
          /\ Tidy(p)
      BY <1>2, <1>3, <1>4, <2>1, RegionAt
    <3>2. \A k \in blocks' : k.region = p => k \in blocks
      BY <1>1
    <3> QED BY <1>4, <1>5, <3>1, <3>2, TidyFrame
  <2>2. CASE p = r
    <3>1. BlockPieces(r)' = {}
      BY <1>1, <1>7 DEF BlockPieces
    <3>2. ChildPieces(r)' = {}
      <4> SUFFICES ASSUME NEW q \in Ids', regions'[q].carved, regions'[q].open, regions'[q].parent = r
                   PROVE  FALSE
        BY DEF ChildPieces
      <4>1. q \in Ids /\ regions[q].carved /\ regions[q].parent = r
        BY <1>4, <1>5 DEF Steady
      <4>2. q \in gone
        BY <1>7, <4>1, InsideChild DEF gone
      <4>3. q # r
        <5>1. regions[q].parent < q /\ q \in Nat
          BY <1>0, <4>1, RegionAt DEF LaidOut
        <5> QED BY <4>1, <5>1
      <4> QED BY <1>6, <4>1, <4>2, <4>3
    <3>3. regions'[r].freeLists = [c \in DOMAIN SlabSizes |-> <<>>]
      BY <1>2, <1>3 DEF none
    <3>4. ChunkPieces(r)' = {}
      BY <3>3 DEF ChunkPieces
    <3>5. Holdings(r)' = {}
      BY <3>1, <3>2, <3>4 DEF Holdings
    <3>6. NoRepeats(regions'[r].freeLists)
      BY <3>3 DEF NoRepeats
    <3> QED BY <2>2, <3>5, <3>6 DEF Tidy, Packed, NoRepeats
  <2> QED BY <2>1, <2>2
<1> QED BY <1>4, <1>8, <1>9, <1>10 DEF RegionInv

(***************************************************************************)
(* The invariant holds.                                                    *)
(***************************************************************************)
LEMMA RegionInvInit == Init => RegionInv
<1> SUFFICES ASSUME Init PROVE RegionInv
  OBVIOUS
<1> DEFINE h == NewRegion(HeapBase(0), RootBytes, NoParent, FALSE)
<1>1. regions = <<h>> /\ blocks = {}
  BY DEF Init
<1>2. HeapBase(0) \in Nat /\ HeapBase(1) = HeapBase(0) + Spacing /\ Spacing \in Nat /\ RootBytes <= Spacing
  <2>1. 0 \in Nat /\ 0 + 1 = 1
    OBVIOUS
  <2> QED BY <2>1, HeapBases, SpacingWide
<1>3. /\ h \in RegionSet /\ h.base = HeapBase(0) /\ h.capacity = RootBytes /\ h.offset = 0
      /\ h.parent = 0 /\ h.carved = FALSE /\ h.freeLists = [c \in DOMAIN SlabSizes |-> <<>>]
      /\ RootBytes \in Nat
  BY <1>2, RegionAssumption DEF NewRegion, NoParent, RegionSet
<1> HIDE DEF h
<1>4. Types /\ Ids = {1} /\ regions[1] = h
  BY <1>1, <1>3 DEF Types, Ids
<1>5. LaidOut(1)
  <2>1. 1 - 1 = 0
    OBVIOUS
  <2> QED BY <1>2, <1>3, <1>4, <2>1 DEF LaidOut
<1>6. Tidy(1)
  <2>1. BlockPieces(1) = {} /\ ChildPieces(1) = {}
    BY <1>1, <1>3, <1>4 DEF BlockPieces, ChildPieces
  <2>2. ChunkPieces(1) = {}
    BY <1>3, <1>4 DEF ChunkPieces
  <2>3. Holdings(1) = {}
    BY <2>1, <2>2 DEF Holdings
  <2>4. NoRepeats(regions[1].freeLists)
    BY <1>3, <1>4 DEF NoRepeats
  <2> QED BY <2>3, <2>4 DEF Tidy, Packed
<1> QED BY <1>1, <1>4, <1>5, <1>6 DEF RegionInv, BlocksInUse

LEMMA RegionInvNext == RegionInv /\ [Next]_vars => RegionInv'
<1> SUFFICES ASSUME RegionInv, [Next]_vars PROVE RegionInv'
  OBVIOUS
<1>1. ASSUME NEW r \in Ids, NEW size \in Requests, NEW align \in Alignments, Alloc(r, size, align)
      PROVE  RegionInv'
  BY <1>1, AllocKeeps DEF Alloc
<1>2. ASSUME NEW r \in Ids, NEW size \in Requests, NEW align \in Alignments,
             AllocEscaped(r, size, align)
      PROVE  RegionInv'
  <2>1. LaidOut(r) /\ regions[r].parent \in Nat /\ regions[r].parent < r
    BY RegionAt DEF LaidOut, RegionSet
  <2>2. EscapeTo(r) \in Ids
    <3>1. r \in 1 .. Len(regions) /\ Len(regions) \in Nat
      BY DEF Ids, RegionInv, Types
    <3> QED BY <2>1, <3>1 DEF EscapeTo, NoParent, Ids
  <2> DEFINE e == EscapeTo(r)
  <2>3. regions[e].open /\ AllocIn(e, size, align)
    BY <1>2 DEF AllocEscaped
  <2> HIDE DEF e
  <2>4. e \in Ids
    BY <2>2 DEF e
  <2> QED BY <2>3, <2>4, AllocKeeps
<1>3. ASSUME NEW r \in Ids, NEW size \in Requests, SlabAlloc(r, size) PROVE RegionInv'
  BY <1>3, SlabBumpKeeps, SlabReuseKeeps
<1>4. ASSUME NEW k \in blocks, SlabFree(k) PROVE RegionInv'
  BY <1>4, SlabFreeKeeps
<1>5. ASSUME NEW r \in Ids, CreateChild(r) PROVE RegionInv'
  <2>1. PICK off, child : CreateStep(r, off, child)
    BY <1>5, CreateEffect
  <2> QED BY <1>5, <2>1, CreateEffect, CreateKeeps
<1>6. ASSUME NEW r \in Ids, Dispose(r) PROVE RegionInv'
  BY <1>6, DisposeKeeps
<1>7. CASE UNCHANGED vars
  BY <1>7 DEF vars, RegionInv, Types, Ids, LaidOut, HeapBase, Spacing, BlocksInUse, Tidy, Packed, NoRepeats,
     Holdings, BlockPieces, ChunkPieces, ChildPieces, BlockPiece, ChunkPiece, ChildPiece, Extent
<1> QED BY <1>1, <1>2, <1>3, <1>4, <1>5, <1>6, <1>7 DEF Next

\* The inductive invariant: the pieces handed out of every region in use, the
\* buffers of its children among them, lie apart below its bump pointer.
THEOREM RegionInvariant == Spec => []RegionInv
BY RegionInvInit, RegionInvNext, PTL DEF Spec

(***************************************************************************)
(* How buffers lie to each other.                                          *)
(***************************************************************************)
Base(r) == regions[r].base
End(r) == regions[r].base + regions[r].capacity

\* The buffers of p and q are apart, or q lies in a region carved out of p.
Related(p, q) ==
    \/ End(p) <= Base(q) \/ End(q) <= Base(p)
    \/ \E c \in Ids : /\ regions[c].carved /\ regions[c].open /\ regions[c].parent = p
                      /\ q \in Inside(c)

LEMMA InsideWithin ==
    ASSUME RegionInv, NEW r \in Ids, NEW q \in Inside(r)
    PROVE  q \in Ids /\ Base(r) <= Base(q) /\ End(q) <= End(r)
<1> DEFINE S == {p \in Ids : Base(r) <= Base(p) /\ End(p) <= End(r)}
<1>1. \A p \in Ids : Base(p) \in Nat /\ End(p) \in Nat
  BY RegionAt DEF Base, End
<1>2. ASSUME NEW p \in Ids, regions[p].carved, regions[p].parent \in S PROVE p \in S
  <2>1. Base(regions[p].parent) <= Base(p) /\ End(p) <= End(regions[p].parent)
    BY <1>2, RegionAt DEF LaidOut, Base, End
  <2> QED BY <1>1, <1>2, <2>1
<1>3. S \in Families(r)
  BY <1>1, <1>2 DEF Families
<1>4. q \in S
  BY <1>3, InsideLeast
<1> QED BY <1>4

LEMMA SiblingsApart ==
    ASSUME RegionInv, NEW m \in Ids, NEW c \in Ids, NEW q \in Ids, c # q, regions[m].open,
           regions[c].carved, regions[c].open, regions[c].parent = m,
           regions[q].carved, regions[q].open, regions[q].parent = m
    PROVE  End(c) <= Base(q) \/ End(q) <= Base(c)
<1>1. ChildPiece(c) \in Holdings(m) /\ ChildPiece(q) \in Holdings(m)
  BY DEF Holdings, ChildPieces
<1>2. ChildPiece(c) # ChildPiece(q)
  BY DEF ChildPiece
<1>3. Packed(Holdings(m), regions[m].base, regions[m].base + regions[m].offset)
  BY RegionAt DEF Tidy
<1>4. ChildPiece(c)[4] <= ChildPiece(q)[3] \/ ChildPiece(q)[4] <= ChildPiece(c)[3]
  BY <1>1, <1>2, <1>3 DEF Packed
<1> QED BY <1>4 DEF ChildPiece, Base, End

LEMMA BuffersRelated ==
    ASSUME RegionInv, NEW p \in Ids, NEW q \in Ids, p < q, regions[p].open, regions[q].open
    PROVE  Related(p, q)
<1> DEFINE Bad(y) == \E x \in Ids : x < y /\ regions[x].open /\ ~Related(x, y)
           T == {y \in Ids : regions[y].open /\ Bad(y)}
<1>0. \A y \in Ids : y \in Nat /\ Base(y) \in Nat /\ End(y) \in Nat
  <2>1. \A y \in Ids : y \in Nat
    BY DEF Ids
  <2> QED BY <2>1, RegionAt DEF Base, End
<1> SUFFICES ASSUME T # {} PROVE FALSE
  OBVIOUS
<1>1. T \in SUBSET Nat
  BY <1>0
<1>2. PICK y \in T : \A z \in T : y <= z
  <2> HIDE DEF T
  <2> QED BY <1>1, LeastElement
<1>3. y \in Ids /\ regions[y].open /\ Bad(y)
  OBVIOUS
<1>4. PICK x \in Ids : x < y /\ regions[x].open /\ ~Related(x, y)
  BY <1>3
<1>5. ASSUME NEW z \in Ids, NEW w \in Ids, w < z, z < y, regions[w].open, regions[z].open
      PROVE  Related(w, z)
  <2>1. z \notin T
    <3> HIDE DEF T
    <3> QED BY <1>0, <1>2, <1>3, <1>5
  <2> QED BY <1>5, <2>1
<1> HIDE DEF T, Bad
<1>6. LaidOut(y) /\ LaidOut(x)
  BY <1>3, RegionAt
<1>7. CASE ~regions[y].carved
  <2>1. Base(y) = HeapBase(y - 1) /\ End(x) <= HeapBase(x)
    BY <1>6, <1>7 DEF LaidOut, Base, End
  <2>2. x \in Nat /\ y - 1 \in Nat /\ x <= y - 1
    BY <1>0, <1>3, <1>4
  <2>3. HeapBase(x) \in Nat /\ HeapBase(y - 1) \in Nat /\ HeapBase(x) <= HeapBase(y - 1)
    BY <2>2, HeapBases
  <2>4. End(x) <= Base(y)
    BY <1>0, <1>3, <1>4, <2>1, <2>3
  <2> QED BY <1>4, <2>4 DEF Related
<1>8. CASE regions[y].carved
  <2> DEFINE m == regions[y].parent
  <2>1. /\ m \in Ids /\ m < y /\ regions[m].open /\ Base(m) <= Base(y) /\ End(y) <= End(m)
    BY <1>3, <1>6, <1>8 DEF LaidOut, Base, End
  <2>2. y \in Inside(y)
    BY <1>3, InsideSelf
  <2>3. CASE m = x
    BY <1>3, <1>4, <1>8, <2>2, <2>3 DEF Related
  <2>4. CASE m > x
    <3>1. Related(x, m)
      BY <1>0, <1>4, <1>5, <2>1, <2>4
    <3>2. CASE End(x) <= Base(m) \/ End(m) <= Base(x)
      <4>1. End(x) <= Base(y) \/ End(y) <= Base(x)
        <5> HIDE DEF m
        <5> QED BY <1>0, <1>3, <1>4, <2>1, <3>2
      <4> QED BY <1>4, <4>1 DEF Related
    <3>3. CASE \E c \in Ids : /\ regions[c].carved /\ regions[c].open /\ regions[c].parent = x
                              /\ m \in Inside(c)
      BY <1>3, <1>4, <1>8, <3>3, InsideChild DEF Related
    <3> QED BY <3>1, <3>2, <3>3 DEF Related
  <2>5. CASE m < x
    <3>1. Related(m, x)
      BY <1>0, <1>4, <1>5, <2>1, <2>5
    <3>2. CASE End(m) <= Base(x) \/ End(x) <= Base(m)
      <4>1. End(x) <= Base(y) \/ End(y) <= Base(x)
        <5> HIDE DEF m
        <5> QED BY <1>0, <1>3, <1>4, <2>1, <3>2
      <4> QED BY <1>4, <4>1 DEF Related
    <3>3. CASE \E c \in Ids : /\ regions[c].carved /\ regions[c].open /\ regions[c].parent = m
                              /\ x \in Inside(c)
      <4>1. PICK c \in Ids : /\ regions[c].carved /\ regions[c].open /\ regions[c].parent = m
                             /\ x \in Inside(c)
        BY <3>3
      <4>2. c <= x
        BY <4>1, InsideAbove
      <4>3. c # y
        BY <1>0, <1>3, <1>4, <4>2
      <4>4. End(c) <= Base(y) \/ End(y) <= Base(c)
        BY <1>3, <1>8, <2>1, <4>1, <4>3, SiblingsApart
      <4>5. Base(c) <= Base(x) /\ End(x) <= End(c)
        BY <4>1, InsideWithin
      <4>6. End(x) <= Base(y) \/ End(y) <= Base(x)
        BY <1>0, <1>3, <4>4, <4>5
      <4> QED BY <1>4, <4>6 DEF Related
    <3> QED BY <3>1, <3>2, <3>3 DEF Related
  <2> QED BY <1>0, <1>3, <1>4, <2>1, <2>3, <2>4, <2>5
<1> QED BY <1>7, <1>8

(***************************************************************************)
(* Pieces that clients use or may get again, of any two regions.           *)
(***************************************************************************)
OwnPieces(r) == BlockPieces(r) \cup ChunkPieces(r)

\* Such a piece of p is apart from the buffer of every other region in use,
\* unless p itself lies in that buffer.
LEMMA PieceOutside ==
    ASSUME RegionInv, NEW p \in Ids, NEW q \in Ids, p # q, regions[p].open, regions[q].open,
           NEW x \in OwnPieces(p), p \notin Inside(q)
    PROVE  /\ x[3] \in Int /\ x[4] \in Int /\ x[3] < x[4] /\ Base(p) <= x[3] /\ x[4] <= End(p)
           /\ x[4] <= Base(q) \/ End(q) <= x[3]
<1>0. \A y \in Ids : y \in Nat /\ Base(y) \in Nat /\ End(y) \in Nat
  <2>1. \A y \in Ids : y \in Nat
    BY DEF Ids
  <2> QED BY <2>1, RegionAt DEF Base, End
<1>1. /\ Packed(Holdings(p), regions[p].base, regions[p].base + regions[p].offset)
      /\ x \in Holdings(p) /\ x[1] # "child"
  <2>1. \A z \in BlockPieces(p) : z[1] = "block"
    BY DEF BlockPieces, BlockPiece
  <2>2. \A z \in ChunkPieces(p) : z[1] = "chunk"
    BY DEF ChunkPieces, ChunkPiece
  <2>3. x[1] # "child"
    BY <2>1, <2>2 DEF OwnPieces
  <2> QED BY <2>3, RegionAt DEF Tidy, OwnPieces, Holdings
<1>2. /\ x[3] \in Int /\ x[4] \in Int /\ x[3] < x[4] /\ Base(p) <= x[3]
      /\ x[4] <= regions[p].base + regions[p].offset
  BY <1>1 DEF Packed, Base
<1>3. x[4] <= End(p)
  <2>1. /\ regions[p].base \in Nat /\ regions[p].capacity \in Nat /\ regions[p].offset \in Nat
        /\ regions[p].offset <= regions[p].capacity
    BY RegionAt
  <2> QED BY <1>2, <2>1 DEF End
<1>4. CASE p < q
  <2>1. Related(p, q)
    BY <1>4, BuffersRelated
  <2>2. CASE End(p) <= Base(q) \/ End(q) <= Base(p)
    BY <1>0, <1>2, <1>3, <2>2
  <2>3. CASE \E c \in Ids : /\ regions[c].carved /\ regions[c].open /\ regions[c].parent = p
                            /\ q \in Inside(c)
    <3>1. PICK c \in Ids : /\ regions[c].carved /\ regions[c].open /\ regions[c].parent = p
                           /\ q \in Inside(c)
      BY <2>3
    <3>2. ChildPiece(c) \in Holdings(p) /\ ChildPiece(c)[1] = "child"
      BY <3>1 DEF Holdings, ChildPieces, ChildPiece
    <3>3. x[4] <= ChildPiece(c)[3] \/ ChildPiece(c)[4] <= x[3]
      BY <1>1, <3>2 DEF Packed
    <3>4. x[4] <= Base(c) \/ End(c) <= x[3]
      BY <3>3 DEF ChildPiece, Base, End
    <3>5. Base(c) <= Base(q) /\ End(q) <= End(c)
      BY <3>1, InsideWithin
    <3> QED BY <1>0, <1>2, <1>3, <3>4, <3>5
  <2> QED BY <2>1, <2>2, <2>3 DEF Related
<1>5. CASE q < p
  <2>1. Related(q, p) /\ p \notin Inside(q)
    BY <1>0, <1>5, BuffersRelated
  <2>2. CASE End(q) <= Base(p) \/ End(p) <= Base(q)
    BY <1>0, <1>2, <1>3, <2>2
  <2>3. CASE \E c \in Ids : /\ regions[c].carved /\ regions[c].open /\ regions[c].parent = q
                            /\ p \in Inside(c)
    <3>1. PICK c \in Ids : regions[c].carved /\ regions[c].parent = q /\ p \in Inside(c)
      BY <2>3
    <3>2. c \in Inside(q)
      BY <3>1, InsideSelf, InsideChild
    <3> QED BY <2>1, <3>1, <3>2, InsideTransitive
  <2> QED BY <2>1, <2>2, <2>3 DEF Related
<1> QED BY <1>0, <1>4, <1>5

LEMMA OwnPiecesApart ==
    ASSUME RegionInv, NEW p \in Ids, NEW q \in Ids, regions[p].open, regions[q].open,
           NEW x \in OwnPieces(p), NEW y \in OwnPieces(q), p # q \/ x # y
    PROVE  /\ x[3] \in Int /\ x[4] \in Int /\ y[3] \in Int /\ y[4] \in Int
           /\ x[4] <= y[3] \/ y[4] <= x[3]
<1>0. \A z \in Ids : z \in Nat /\ Base(z) \in Nat /\ End(z) \in Nat
  <2>1. \A z \in Ids : z \in Nat
    BY DEF Ids
  <2> QED BY <2>1, RegionAt DEF Base, End
<1>1. CASE p = q
  <2>1. Packed(Holdings(p), regions[p].base, regions[p].base + regions[p].offset)
    BY RegionAt DEF Tidy
  <2> QED BY <1>1, <2>1 DEF Packed, OwnPieces, Holdings
<1>2. ASSUME NEW v \in Ids, NEW w \in Ids, v < w, regions[v].open, regions[w].open,
             NEW a \in OwnPieces(v), NEW b \in OwnPieces(w)
      PROVE  /\ a[3] \in Int /\ a[4] \in Int /\ b[3] \in Int /\ b[4] \in Int
             /\ a[4] <= b[3] \/ b[4] <= a[3]
  <2>0. v \notin Inside(w)
    <3>1. v \in Inside(w) => w <= v
      BY InsideAbove
    <3> QED BY <1>0, <1>2, <3>1
  <2>1. /\ a[3] \in Int /\ a[4] \in Int /\ (a[4] <= Base(w) \/ End(w) <= a[3])
    BY <1>0, <1>2, <2>0, PieceOutside
  <2>2. Packed(Holdings(w), regions[w].base, regions[w].base + regions[w].offset) /\ b \in Holdings(w)
    BY <1>2, RegionAt DEF Tidy, OwnPieces, Holdings
  <2>3. b[3] \in Int /\ b[4] \in Int /\ Base(w) <= b[3] /\ b[4] <= regions[w].base + regions[w].offset
    BY <2>2 DEF Packed, Base
  <2>4. /\ regions[w].base \in Nat /\ regions[w].capacity \in Nat /\ regions[w].offset \in Nat
        /\ regions[w].offset <= regions[w].capacity
    BY RegionAt
  <2>5. b[4] <= End(w)
    BY <2>3, <2>4 DEF End
  <2> QED BY <1>0, <2>1, <2>3, <2>5
<1>3. CASE p < q
  BY <1>2, <1>3
<1>4. CASE q < p
  BY <1>2, <1>4
<1> QED BY <1>0, <1>1, <1>3, <1>4

(***************************************************************************)
(* Theorems.                                                               *)
(***************************************************************************)
LEMMA BytesApart ==
    ASSUME NEW a \in Int, NEW m \in Int, NEW b \in Int, NEW n \in Int, a + m <= b \/ b + n <= a
    PROVE  Bytes(a, m) \cap Bytes(b, n) = {}
BY DEF Bytes

\* A block and its piece.
LEMMA BlockAt ==
    ASSUME RegionInv, NEW k \in blocks
    PROVE  /\ k.region \in Ids /\ regions[k.region].open /\ BlockPiece(k) \in OwnPieces(k.region)
           /\ k.addr \in Nat /\ k.size \in Nat /\ Extent(k) \in Nat /\ k.size <= Extent(k)
           /\ BlockPiece(k)[3] = k.addr /\ BlockPiece(k)[4] = k.addr + Extent(k)
<1>1. k \in BlockSet /\ k.region \in Ids /\ regions[k.region].open
  BY DEF RegionInv, Types, BlocksInUse
<1> QED BY <1>1, ExtentFits DEF BlockSet, OwnPieces, BlockPieces, BlockPiece

\* A chunk and its piece.
LEMMA ChunkAt ==
    ASSUME RegionInv, NEW r \in Ids, NEW f \in Chunks(r)
    PROVE  /\ f.class \in DOMAIN SlabSizes /\ f.pos \in DOMAIN regions[r].freeLists[f.class]
           /\ f = [addr |-> regions[r].freeLists[f.class][f.pos], size |-> SlabSizes[f.class],
                   class |-> f.class, pos |-> f.pos]
           /\ f.addr = regions[r].freeLists[f.class][f.pos]
           /\ f.addr \in Nat /\ f.size \in Nat /\ 0 < f.size
           /\ ChunkPiece(f.class, f.addr) \in OwnPieces(r)
           /\ ChunkPiece(f.class, f.addr)[3] = f.addr
           /\ ChunkPiece(f.class, f.addr)[4] = f.addr + f.size
<1>1. PICK c \in DOMAIN SlabSizes : \E i \in DOMAIN regions[r].freeLists[c] :
          f = [addr |-> regions[r].freeLists[c][i], size |-> SlabSizes[c], class |-> c, pos |-> i]
  BY DEF Chunks
<1>2. PICK i \in DOMAIN regions[r].freeLists[c] :
          f = [addr |-> regions[r].freeLists[c][i], size |-> SlabSizes[c], class |-> c, pos |-> i]
  BY <1>1
<1>3. f.class = c /\ f.pos = i /\ f.addr = regions[r].freeLists[c][i] /\ f.size = SlabSizes[c]
  BY <1>2
<1>4. regions[r].freeLists[c] \in Seq(Nat) /\ SlabSizes[c] \in Nat /\ 0 < SlabSizes[c]
  BY RegionAt, SlabTable
<1>5. regions[r].freeLists[c][i] \in Nat
  BY <1>4
<1>6. ChunkPiece(c, regions[r].freeLists[c][i]) \in OwnPieces(r)
  BY DEF OwnPieces, ChunkPieces
<1> QED BY <1>2, <1>3, <1>4, <1>5, <1>6 DEF ChunkPiece

\* No two blocks in clients' hands share a byte, for every history of
\* allocation, recycling, children and disposal.
THEOREM BlocksNeverOverlap == Spec => []NoOverlap
<1>1. ASSUME RegionInv, NEW k \in blocks, NEW l \in blocks, k # l
      PROVE  Bytes(k.addr, k.size) \cap Bytes(l.addr, l.size) = {}
  <2>1. BlockPiece(k) # BlockPiece(l)
    BY <1>1 DEF BlockPiece
  <2>2. /\ k.addr \in Nat /\ k.size \in Nat /\ Extent(k) \in Nat /\ k.size <= Extent(k)
        /\ l.addr \in Nat /\ l.size \in Nat /\ Extent(l) \in Nat /\ l.size <= Extent(l)
    BY <1>1, BlockAt
  <2>3. k.addr + Extent(k) <= l.addr \/ l.addr + Extent(l) <= k.addr
    BY <1>1, <2>1, BlockAt, OwnPiecesApart
  <2>4. k.addr + k.size <= l.addr \/ l.addr + l.size <= k.addr
    BY <2>2, <2>3
  <2> QED BY <2>2, <2>4, BytesApart
<1>2. RegionInv => NoOverlap
  BY <1>1 DEF NoOverlap
<1> QED BY <1>2, RegionInvariant, PTL

\* Blocks and waiting chunks lie in the buffer of their region, and no region
\* bumps past its capacity.
THEOREM EverythingInside == Spec => []InsideBuffer
<1>1. ASSUME RegionInv PROVE TypeOK
  <2>1. ASSUME NEW r \in Ids
        PROVE  /\ regions[r].offset \in 0 .. regions[r].capacity
               /\ regions[r].parent \in 0 .. r - 1
               /\ DOMAIN regions[r].freeLists = DOMAIN SlabSizes
    <3>1. /\ regions[r].parent \in Nat /\ regions[r].parent < r /\ r \in Nat
          /\ regions[r].offset \in Nat /\ regions[r].capacity \in Nat
          /\ regions[r].offset <= regions[r].capacity
      BY <1>1, RegionAt DEF RegionSet, LaidOut, Ids
    <3>2. DOMAIN regions[r].freeLists = DOMAIN SlabSizes
      BY <1>1, RegionAt
    <3> QED BY <3>1, <3>2
  <2>2. \A k \in blocks : k.region \in Ids /\ k.addr \in Nat /\ k.size \in Nat
    BY <1>1, BlockAt
  <2> QED BY <2>1, <2>2 DEF TypeOK
<1>2. ASSUME RegionInv, NEW r \in Ids, regions[r].open, NEW x \in OwnPieces(r)
      PROVE  x[3] \in Int /\ x[4] \in Int /\ regions[r].base <= x[3] /\ x[4] <= regions[r].base + regions[r].capacity
  <2>1. /\ Packed(Holdings(r), regions[r].base, regions[r].base + regions[r].offset)
        /\ regions[r].base \in Nat /\ regions[r].capacity \in Nat /\ regions[r].offset \in Nat
        /\ regions[r].offset <= regions[r].capacity
    BY <1>2, RegionAt DEF Tidy
  <2>2. x[3] \in Int /\ x[4] \in Int /\ regions[r].base <= x[3] /\ x[4] <= regions[r].base + regions[r].offset
    BY <2>1 DEF Packed, OwnPieces, Holdings
  <2> QED BY <2>1, <2>2
<1>3. ASSUME RegionInv, NEW k \in blocks, NEW r \in Ids, k.region = r
      PROVE  Bytes(k.addr, k.size) \subseteq Buffer(r)
  <2>1. regions[r].base <= k.addr /\ k.addr + Extent(k) <= regions[r].base + regions[r].capacity
    BY <1>2, <1>3, BlockAt
  <2>2. regions[r].base \in Nat /\ regions[r].capacity \in Nat
    BY <1>3, RegionAt
  <2>3. k.addr \in Nat /\ k.size \in Nat /\ Extent(k) \in Nat /\ k.size <= Extent(k)
    BY <1>3, BlockAt
  <2> QED BY <2>1, <2>2, <2>3 DEF Bytes, Buffer
<1>4. ASSUME RegionInv, NEW r \in Ids, regions[r].open, NEW f \in Chunks(r)
      PROVE  Bytes(f.addr, f.size) \subseteq Buffer(r)
  <2>1. regions[r].base <= f.addr /\ f.addr + f.size <= regions[r].base + regions[r].capacity
    BY <1>2, <1>4, ChunkAt
  <2>2. regions[r].base \in Nat /\ regions[r].capacity \in Nat
    BY <1>4, RegionAt
  <2>3. f.addr \in Nat /\ f.size \in Nat
    BY <1>4, ChunkAt
  <2> QED BY <2>1, <2>2, <2>3 DEF Bytes, Buffer
<1>5. RegionInv => InsideBuffer
  BY <1>1, <1>3, <1>4 DEF InsideBuffer
<1> QED BY <1>5, RegionInvariant, PTL

\* A chunk that waits for reuse is in nobody's use and on no list twice, and
\* the bump pointer is past it.
THEOREM WaitingChunksFree == Spec => []ChunksFree
<1>1. ASSUME RegionInv, NEW r \in Ids, regions[r].open, NEW f \in Chunks(r), NEW k \in blocks
      PROVE  Bytes(k.addr, k.size) \cap Bytes(f.addr, f.size) = {}
  <2> DEFINE x == BlockPiece(k)
             y == ChunkPiece(f.class, f.addr)
  <2>1. x[1] = "block" /\ y[1] = "chunk"
    BY DEF BlockPiece, ChunkPiece
  <2>2. /\ k.region \in Ids /\ regions[k.region].open /\ x \in OwnPieces(k.region)
        /\ x[3] = k.addr /\ x[4] = k.addr + Extent(k)
        /\ k.addr \in Nat /\ k.size \in Nat /\ Extent(k) \in Nat /\ k.size <= Extent(k)
    BY <1>1, BlockAt
  <2>3. y \in OwnPieces(r) /\ y[3] = f.addr /\ y[4] = f.addr + f.size /\ f.addr \in Nat /\ f.size \in Nat
    BY <1>1, ChunkAt
  <2> HIDE DEF x, y
  <2>4. x[4] <= y[3] \/ y[4] <= x[3]
    BY <1>1, <2>1, <2>2, <2>3, OwnPiecesApart
  <2>5. k.addr + k.size <= f.addr \/ f.addr + f.size <= k.addr
    BY <2>2, <2>3, <2>4
  <2> QED BY <2>2, <2>3, <2>5, BytesApart
<1>2. ASSUME RegionInv, NEW r \in Ids, regions[r].open, NEW f \in Chunks(r), NEW g \in Chunks(r), f # g
      PROVE  Bytes(f.addr, f.size) \cap Bytes(g.addr, g.size) = {}
  <2> DEFINE x == ChunkPiece(f.class, f.addr)
             y == ChunkPiece(g.class, g.addr)
  <2>1. x # y
    <3> SUFFICES ASSUME f.class = g.class, f.addr = g.addr PROVE FALSE
      BY DEF ChunkPiece
    <3>1. f.class \in DOMAIN SlabSizes /\ NoRepeats(regions[r].freeLists)
      BY <1>2, ChunkAt, RegionAt DEF Tidy
    <3>2. /\ f.pos \in DOMAIN regions[r].freeLists[f.class] /\ g.pos \in DOMAIN regions[r].freeLists[f.class]
          /\ regions[r].freeLists[f.class][f.pos] = regions[r].freeLists[f.class][g.pos]
      BY <1>2, ChunkAt
    <3>3. f.pos = g.pos
      BY <3>1, <3>2 DEF NoRepeats
    <3> QED BY <1>2, <3>3, ChunkAt
  <2>2. x \in OwnPieces(r) /\ x[3] = f.addr /\ x[4] = f.addr + f.size /\ f.addr \in Nat /\ f.size \in Nat
    BY <1>2, ChunkAt
  <2>3. y \in OwnPieces(r) /\ y[3] = g.addr /\ y[4] = g.addr + g.size /\ g.addr \in Nat /\ g.size \in Nat
    BY <1>2, ChunkAt
  <2> HIDE DEF x, y
  <2>4. x[4] <= y[3] \/ y[4] <= x[3]
    BY <1>2, <2>1, <2>2, <2>3, OwnPiecesApart
  <2> QED BY <2>2, <2>3, <2>4, BytesApart
<1>3. ASSUME RegionInv, NEW r \in Ids, regions[r].open, NEW f \in Chunks(r)
      PROVE  f.addr + f.size <= regions[r].base + regions[r].offset
  <2> DEFINE x == ChunkPiece(f.class, f.addr)
  <2>1. x \in Holdings(r) /\ x[4] = f.addr + f.size
    BY <1>3, ChunkAt DEF OwnPieces, Holdings
  <2>2. Packed(Holdings(r), regions[r].base, regions[r].base + regions[r].offset)
    BY <1>3, RegionAt DEF Tidy
  <2> HIDE DEF x
  <2>3. x[4] <= regions[r].base + regions[r].offset
    BY <2>1, <2>2 DEF Packed
  <2> QED BY <2>1, <2>3
<1>4. RegionInv => ChunksFree
  BY <1>1, <1>2, <1>3 DEF ChunksFree
<1> QED BY <1>4, RegionInvariant, PTL

\* The buffer of a child carved out of its parent is memory that only the child
\* and the regions inside it hand out.
THEOREM ChildBuffersExclusive == Spec => []ChildBufferExclusive
<1>1. ASSUME RegionInv, NEW r \in Ids, regions[r].open, NEW k \in blocks, k.region \notin Inside(r)
      PROVE  Bytes(k.addr, k.size) \cap Buffer(r) = {}
  <2> DEFINE p == k.region
             x == BlockPiece(k)
  <2>1. /\ p \in Ids /\ regions[p].open /\ x \in OwnPieces(p)
        /\ x[3] = k.addr /\ x[4] = k.addr + Extent(k)
        /\ k.addr \in Nat /\ k.size \in Nat /\ Extent(k) \in Nat /\ k.size <= Extent(k)
    BY <1>1, BlockAt
  <2>2. p # r
    BY <1>1, InsideSelf
  <2> HIDE DEF x
  <2>3. x[4] <= Base(r) \/ End(r) <= x[3]
    BY <1>1, <2>1, <2>2, PieceOutside
  <2>4. regions[r].base \in Nat /\ regions[r].capacity \in Nat
    BY <1>1, RegionAt
  <2>5. k.addr + k.size <= regions[r].base \/ regions[r].base + regions[r].capacity <= k.addr
    BY <2>1, <2>3, <2>4 DEF Base, End
  <2> QED BY <2>1, <2>4, <2>5, BytesApart DEF Buffer
<1>2. RegionInv => ChildBufferExclusive
  BY <1>1 DEF ChildBufferExclusive
<1> QED BY <1>2, RegionInvariant, PTL

=============================================================================
