------------------------ MODULE ModuleLoader_proofs ------------------------
(***************************************************************************)
(* Proofs about the module loader, for every disk, every search path and   *)
(* every import graph.                                                     *)
(*                                                                         *)
(* VisitingIsStack and MergedOnceInOrder are not inductive: that a file is *)
(* merged after its imports rests on what the frames of the recursion have *)
(* left behind.  ImportsHandled says it: of the imports a frame has passed *)
(* each is loaded, except the last one while the next frame loads it.      *)
(***************************************************************************)
EXTENDS ModuleLoader, InductionLemmas, SequenceTheorems

(***************************************************************************)
(* The inductive invariant.                                                *)
(***************************************************************************)
FrameSet == [path : Paths, next : Nat \ {0}]
Disk0 == [File -> [kind : Kinds, imports : Seq(Name \cup {CHeader})]]

Types ==
    /\ fs \in Disk0
    /\ stack \in Seq(FrameSet)
    /\ loadedModules \subseteq Paths
    /\ visitingModules \subseteq Paths
    /\ merged \in Seq(Paths)
    /\ result \in Results

\* An error, or the return of the first call, leaves no frame.
OverMeansUnwound == result # "running" => stack = <<>>

\* visitingModules is the chain of frames.
Visiting ==
    result = "running" =>
        /\ \A p \in Paths : p \in visitingModules <=> \E k \in 1 .. Len(stack) : stack[k].path = p
        /\ \A j, k \in 1 .. Len(stack) : stack[j].path = stack[k].path => j = k
        /\ visitingModules \cap loadedModules = {}

\* Import j of frame k has been loaded, or the next frame is loading it.
Handled(k, j) ==
    LET m == Imports(stack[k].path)[j]
    IN  \/ m = CHeader
        \/ resolvePath(m) \in loadedModules
        \/ k < Len(stack) /\ j = stack[k].next - 1 /\ resolvePath(m) = stack[k + 1].path

ImportsHandled ==
    \A k \in 1 .. Len(stack) : \A j \in 1 .. Len(Imports(stack[k].path)) :
        j < stack[k].next => Handled(k, j)

MergedIsLoaded ==
    /\ \A p \in Paths : p \in loadedModules <=> \E k \in 1 .. Len(merged) : merged[k] = p
    /\ \A j, k \in 1 .. Len(merged) : merged[j] = merged[k] => j = k

AfterImports ==
    \A k \in 1 .. Len(merged) : \A i \in 1 .. Len(Imports(merged[k])) :
        Imports(merged[k])[i] # CHeader =>
            \E j \in 1 .. k - 1 : merged[j] = resolvePath(Imports(merged[k])[i])

LoaderInv ==
    /\ Types
    /\ OverMeansUnwound
    /\ Visiting
    /\ ImportsHandled
    /\ MergedIsLoaded
    /\ AfterImports

(***************************************************************************)
(* Paths.                                                                  *)
(***************************************************************************)

\* The current directory is one of those searched.
LEMMA HereSearched == Here \in Dirs
<1>1. 1 \in DOMAIN SearchPaths /\ SearchPaths[1] = Here
  BY LoaderAssumption
<1> QED
  BY <1>1 DEF Dirs, ToSet

\* Every path names an entry of the disk.
LEMMA FileAtType ==
    ASSUME fs \in Disk0, NEW p \in Paths
    PROVE  /\ Imports(p) \in Seq(Name \cup {CHeader})
           /\ FileAt(p).kind \in Kinds
<1>1. [dir |-> IF p.dir = "" THEN Here ELSE p.dir, stem |-> p.stem] \in File
  BY HereSearched DEF Paths, File
<1> QED
  BY <1>1 DEF Disk0, Imports, FileAt

\* resolvePath returns a path: the directory it takes from the search list is
\* there, because the first of the hits is one of them.
LEMMA ResolveType ==
    ASSUME NEW m \in Name
    PROVE  resolvePath(m) \in Paths
<1> DEFINE asWritten == [dir |-> "", stem |-> m.stem]
           hits == {k \in DOMAIN SearchPaths : fs[[dir |-> SearchPaths[k], stem |-> m.stem]].kind # "absent"}
<1>1. m.stem \in Stem
  BY DEF Name
<1>2. asWritten \in Paths
  BY <1>1 DEF Paths
<1>3. ASSUME hits # {}
      PROVE  [dir |-> SearchPaths[Min(hits)], stem |-> m.stem] \in Paths
  <2>1. hits \in SUBSET Nat /\ hits \subseteq DOMAIN SearchPaths
    BY LoaderAssumption
  <2>2. \E k \in hits : \A l \in hits : k <= l
    BY <1>3, <2>1, LeastElement
  <2>3. Min(hits) \in hits
    BY <2>2 DEF Min
  <2>4. SearchPaths[Min(hits)] \in Dirs
    BY <2>1, <2>3 DEF Dirs, ToSet
  <2> QED
    BY <1>1, <2>4 DEF Paths
<1> QED
  BY <1>2, <1>3 DEF resolvePath

\* The disk does not change, and so neither does what a name resolves to nor
\* what a file imports.
LEMMA DiskFixed ==
    ASSUME fs' = fs
    PROVE  /\ \A m : resolvePath(m)' = resolvePath(m)
           /\ \A p : FileAt(p)' = FileAt(p)
           /\ \A p : Imports(p)' = Imports(p)
BY DEF resolvePath, FileAt, Imports

(***************************************************************************)
(* The calls: a frame is pushed, or the call returns or fails at once.     *)
(***************************************************************************)

\* The frames as a call of loadAndMerge for the name m finds them: those of
\* the stack, the innermost of which has just passed the import m.
CallsFor(caller, m) ==
    /\ caller \in Seq(FrameSet) /\ Len(caller) = Len(stack)
    /\ \A k \in 1 .. Len(stack) : caller[k].path = stack[k].path
    /\ \A k \in 1 .. Len(stack) - 1 : caller[k].next = stack[k].next
    /\ Len(stack) > 0 =>
          LET top == stack[Len(stack)]
          IN  /\ caller[Len(stack)].next = top.next + 1
              /\ top.next <= Len(Imports(top.path))
              /\ Imports(top.path)[top.next] = m

\* The imports passed before, seen from the frames of the call: all but the
\* innermost frame wait for the frame above them.
LEMMA EarlierImports ==
    ASSUME LoaderInv, NEW m, NEW caller, CallsFor(caller, m),
           NEW k \in 1 .. Len(stack), NEW j \in 1 .. Len(Imports(caller[k].path)),
           j < caller[k].next
    PROVE  LET i == Imports(caller[k].path)[j]
           IN  \/ i = CHeader
               \/ resolvePath(i) \in loadedModules
               \/ k < Len(stack) /\ j = caller[k].next - 1 /\ resolvePath(i) = caller[k + 1].path
               \/ k = Len(stack) /\ i = m
<1>1. Len(stack) \in Nat /\ stack[k].next \in Nat /\ Len(Imports(caller[k].path)) \in Nat
  <2>1. stack[k] \in FrameSet
    BY DEF LoaderInv, Types
  <2>2. Len(stack) \in Nat /\ fs \in Disk0
    BY DEF LoaderInv, Types
  <2>3. caller[k].path = stack[k].path
    BY DEF CallsFor
  <2>4. stack[k].path \in Paths /\ stack[k].next \in Nat
    BY <2>1 DEF FrameSet
  <2>5. Imports(stack[k].path) \in Seq(Name \cup {CHeader})
    BY <2>2, <2>4, FileAtType
  <2> QED
    BY <2>2, <2>3, <2>4, <2>5
<1>2. caller[k].path = stack[k].path
  BY DEF CallsFor
<1>3. CASE k < Len(stack)
  <2>1. caller[k].next = stack[k].next /\ caller[k + 1].path = stack[k + 1].path
    BY <1>1, <1>3 DEF CallsFor
  <2> QED
    BY <1>1, <1>2, <1>3, <2>1 DEF LoaderInv, ImportsHandled, Handled
<1>4. CASE k = Len(stack)
  <2>1. /\ caller[k].next = stack[k].next + 1
        /\ Imports(stack[k].path)[stack[k].next] = m
    BY <1>1, <1>4 DEF CallsFor
  <2>2. CASE j = stack[k].next
    BY <1>2, <1>4, <2>1, <2>2
  <2>3. CASE j < stack[k].next
    BY <1>1, <1>2, <1>4, <2>3 DEF LoaderInv, ImportsHandled, Handled
  <2> QED
    BY <1>1, <2>1, <2>2, <2>3
<1> QED
  BY <1>1, <1>3, <1>4

\* A path already loaded: the call returns at once.
LEMMA SkipPreserves ==
    ASSUME LoaderInv, result = "running", NEW m, NEW caller, CallsFor(caller, m),
           resolvePath(m) \in loadedModules, Skip(caller),
           UNCHANGED <<fs, loadedModules, merged>>
    PROVE  LoaderInv'
<1>1. fs' = fs /\ stack' = caller /\ loadedModules' = loadedModules /\ merged' = merged
      /\ visitingModules' = visitingModules /\ result' = result
  BY DEF Skip
<1>2. Len(stack') = Len(stack) /\ \A k \in 1 .. Len(stack) : stack'[k].path = stack[k].path
  BY <1>1 DEF CallsFor
<1>3. Types'
  BY <1>1 DEF LoaderInv, Types, Disk0, CallsFor
<1>4. OverMeansUnwound' /\ Visiting'
  BY <1>1, <1>2 DEF LoaderInv, OverMeansUnwound, Visiting
<1>5. ImportsHandled'
  <2> SUFFICES ASSUME NEW k \in 1 .. Len(stack), NEW j \in 1 .. Len(Imports(caller[k].path)),
                      j < caller[k].next
               PROVE  Handled(k, j)'
    BY <1>1, <1>2, DiskFixed DEF ImportsHandled
  <2>1. LET i == Imports(caller[k].path)[j]
        IN  \/ i = CHeader
            \/ resolvePath(i) \in loadedModules
            \/ k < Len(stack) /\ j = caller[k].next - 1 /\ resolvePath(i) = caller[k + 1].path
    BY EarlierImports
  <2> QED
    BY <1>1, <1>2, <2>1, DiskFixed DEF Handled
<1>6. MergedIsLoaded' /\ AfterImports'
  BY <1>1, DiskFixed DEF LoaderInv, MergedIsLoaded, AfterImports
<1> QED
  BY <1>3, <1>4, <1>5, <1>6 DEF LoaderInv

\* An error: no frame is left, and nothing loaded or merged changes.
LEMMA FailPreserves ==
    ASSUME LoaderInv, NEW error \in Results \ {"running"}, Fail(error),
           visitingModules' \subseteq Paths, UNCHANGED <<fs, loadedModules, merged>>
    PROVE  LoaderInv'
<1>1. fs' = fs /\ stack' = <<>> /\ loadedModules' = loadedModules /\ merged' = merged
      /\ result' = error
  BY DEF Fail
<1>2. Types' /\ OverMeansUnwound' /\ Visiting'
  BY <1>1 DEF LoaderInv, Types, Disk0, OverMeansUnwound, Visiting
<1>3. ImportsHandled'
  BY <1>1 DEF ImportsHandled
<1>4. MergedIsLoaded' /\ AfterImports'
  BY <1>1, DiskFixed DEF LoaderInv, MergedIsLoaded, AfterImports
<1> QED
  BY <1>2, <1>3, <1>4 DEF LoaderInv

\* A file that parses: a frame is pushed for it, and the frame below waits for
\* the import it has just passed.
LEMMA PushPreserves ==
    ASSUME LoaderInv, result = "running", NEW m \in Name, NEW caller, CallsFor(caller, m),
           NEW p, p = resolvePath(m), p \notin loadedModules, p \notin visitingModules,
           visitingModules' = visitingModules \cup {p},
           stack' = Append(caller, [path |-> p, next |-> 1]),
           UNCHANGED <<fs, loadedModules, merged, result>>
    PROVE  LoaderInv'
<1>1. p \in Paths
  BY ResolveType
<1>2. caller \in Seq(FrameSet) /\ Len(caller) = Len(stack) /\ Len(stack) \in Nat
  BY DEF CallsFor, LoaderInv, Types
<1>3. [path |-> p, next |-> 1] \in FrameSet
  BY <1>1 DEF FrameSet
<1>4. /\ stack' \in Seq(FrameSet) /\ Len(stack') = Len(stack) + 1
      /\ \A k \in 1 .. Len(stack) : stack'[k] = caller[k]
      /\ stack'[Len(stack) + 1] = [path |-> p, next |-> 1]
  BY <1>2, <1>3, AppendProperties
<1>5. \A k \in 1 .. Len(stack) : stack'[k].path = stack[k].path
  BY <1>4 DEF CallsFor
<1>6. Types'
  BY <1>1, <1>4 DEF LoaderInv, Types, Disk0
<1>7. OverMeansUnwound'
  BY DEF OverMeansUnwound
<1>8. Visiting'
  <2>1. \A k \in 1 .. Len(stack) : stack[k].path \in visitingModules
    <3>1. \A k \in 1 .. Len(stack) : stack[k] \in FrameSet
      BY DEF LoaderInv, Types
    <3>2. \A k \in 1 .. Len(stack) : stack[k].path \in Paths
      BY <3>1 DEF FrameSet
    <3> QED
      BY <3>2 DEF LoaderInv, Visiting
  <2>2. \A k \in 1 .. Len(stack) : stack'[k].path # p
    BY <1>5, <2>1
  <2>3. 1 .. Len(stack') = (1 .. Len(stack)) \cup {Len(stack) + 1}
    BY <1>2, <1>4
  <2>4. \A q \in Paths : q \in visitingModules' <=> \E k \in 1 .. Len(stack') : stack'[k].path = q
    BY <1>4, <1>5, <2>3 DEF LoaderInv, Visiting
  <2>5. \A j, k \in 1 .. Len(stack') : stack'[j].path = stack'[k].path => j = k
    BY <1>4, <1>5, <2>2, <2>3 DEF LoaderInv, Visiting
  <2>6. visitingModules' \cap loadedModules' = {}
    BY DEF LoaderInv, Visiting
  <2> QED
    BY <2>4, <2>5, <2>6 DEF Visiting
<1>9. ImportsHandled'
  <2> SUFFICES ASSUME NEW k \in 1 .. Len(stack'), NEW j \in 1 .. Len(Imports(stack'[k].path)),
                      j < stack'[k].next
               PROVE  Handled(k, j)'
    BY DiskFixed DEF ImportsHandled
  <2>1. k # Len(stack) + 1
    <3> stack'[k] \in FrameSet
      BY <1>4
    <3>1. stack'[k].path \in Paths
      BY DEF FrameSet
    <3>2. Len(Imports(stack'[k].path)) \in Nat
      BY <3>1, FileAtType DEF LoaderInv, Types
    <3> QED
      BY <1>4, <3>2
  <2>2. k \in 1 .. Len(stack) /\ stack'[k] = caller[k]
    BY <1>2, <1>4, <2>1
  <2>3. LET i == Imports(caller[k].path)[j]
        IN  \/ i = CHeader
            \/ resolvePath(i) \in loadedModules
            \/ k < Len(stack) /\ j = caller[k].next - 1 /\ resolvePath(i) = caller[k + 1].path
            \/ k = Len(stack) /\ i = m
    BY <2>2, EarlierImports
  <2>4. CASE k < Len(stack)
    <3>1. stack'[k + 1] = caller[k + 1]
      BY <1>2, <1>4, <2>2, <2>4
    <3> QED
      BY <1>2, <1>4, <2>2, <2>3, <2>4, <3>1, DiskFixed DEF Handled
  <2>5. CASE k = Len(stack)
    <3> DEFINE i == Imports(stack'[k].path)[j]
    <3>1. k < Len(stack') /\ stack'[k + 1].path = p
      BY <1>2, <1>4, <2>5
    <3>2. CASE j < stack[k].next
      <4>1. i = CHeader \/ resolvePath(i) \in loadedModules
        BY <2>2, <2>5, <3>2, <1>2, <1>5 DEF LoaderInv, ImportsHandled, Handled
      <4> QED
        BY <4>1, DiskFixed DEF Handled
    <3>3. CASE j = stack[k].next
      <4>1. i = m /\ stack'[k].next = stack[k].next + 1
        BY <1>2, <1>5, <2>2, <2>5, <3>3 DEF CallsFor
      <4>2. j = stack'[k].next - 1
        BY <3>3, <4>1
      <4> QED
        BY <3>1, <4>1, <4>2, DiskFixed DEF Handled
    <3> stack[k] \in FrameSet
      BY <2>2 DEF LoaderInv, Types
    <3>4. stack[k].next \in Nat /\ stack'[k].next = stack[k].next + 1
      BY <1>2, <2>2, <2>5 DEF FrameSet, CallsFor
    <3> QED
      BY <3>2, <3>3, <3>4
  <2> QED
    BY <1>2, <2>2, <2>4, <2>5
<1>10. MergedIsLoaded' /\ AfterImports'
  BY DiskFixed DEF LoaderInv, MergedIsLoaded, AfterImports
<1> QED
  BY <1>6, <1>7, <1>8, <1>9, <1>10 DEF LoaderInv

\* loadAndMerge, whichever way it goes.
LEMMA EnterPreserves ==
    ASSUME LoaderInv, result = "running", NEW m \in Name, NEW caller, CallsFor(caller, m),
           Enter(m, caller)
    PROVE  LoaderInv'
<1> DEFINE p == resolvePath(m)
<1>1. UNCHANGED <<fs, loadedModules, merged>>
  BY DEF Enter
<1>2. CASE p \in loadedModules
  <2>1. Skip(caller)
    BY <1>2 DEF Enter
  <2> QED
    BY <1>1, <1>2, <2>1, SkipPreserves
<1>3. CASE p \notin loadedModules /\ p \in visitingModules
  <2>1. Fail("circular") /\ visitingModules' \subseteq Paths
    BY <1>3 DEF Enter, LoaderInv, Types
  <2> QED
    BY <1>1, <2>1, FailPreserves DEF Results
<1>4. CASE p \notin loadedModules /\ p \notin visitingModules /\ ~Readable(p)
  <2>1. Fail("unreadable") /\ visitingModules' \subseteq Paths
    BY <1>4 DEF Enter, LoaderInv, Types
  <2> QED
    BY <1>1, <2>1, FailPreserves DEF Results
<1>5. CASE p \notin loadedModules /\ p \notin visitingModules /\ Readable(p)
  <2>1. Visit(p, caller)
    BY <1>5 DEF Enter
  <2>2. p \in Paths
    BY ResolveType
  <2>3. CASE FileAt(p).kind # "ok"
    <3>1. Fail(FileAt(p).kind) /\ visitingModules' \subseteq Paths
      BY <2>1, <2>2, <2>3 DEF Visit, LoaderInv, Types
    <3>2. FileAt(p).kind \in Results \ {"running"}
      BY <1>5, <2>2, <2>3, FileAtType DEF Readable, Kinds, Results, LoaderInv, Types
    <3> QED
      BY <1>1, <3>1, <3>2, FailPreserves
  <2>4. CASE FileAt(p).kind = "ok"
    <3>1. /\ visitingModules' = visitingModules \cup {p}
          /\ stack' = Append(caller, [path |-> p, next |-> 1])
          /\ result' = result
      BY <2>1, <2>4 DEF Visit
    <3> HIDE DEF p
    <3>2. p = resolvePath(m)
      BY DEF p
    <3> QED
      BY <1>1, <1>5, <3>1, <3>2, PushPreserves
  <2> QED
    BY <2>3, <2>4
<1> QED
  BY <1>2, <1>3, <1>4, <1>5

(***************************************************************************)
(* The steps.                                                              *)
(***************************************************************************)

\* The initial states: nothing is loaded and nothing visited.
LEMMA LoaderInvInit == Init => LoaderInv
<1> SUFFICES ASSUME Init PROVE LoaderInv
  OBVIOUS
<1>1. fs \in Disk0
  BY LoaderAssumption DEF Init, Disk0
<1>2. stack = <<>> /\ merged = <<>> /\ loadedModules = {} /\ visitingModules = {} /\ result = "running"
  BY DEF Init
<1>3. Types
  BY <1>1, <1>2 DEF Types, Results
<1> QED
  BY <1>2, <1>3
     DEF LoaderInv, OverMeansUnwound, Visiting, ImportsHandled, MergedIsLoaded, AfterImports

\* The first call.
LEMMA LoadRootPreserves ==
    ASSUME LoaderInv, LoadRoot
    PROVE  LoaderInv'
<1>1. result = "running" /\ stack = <<>> /\ Enter(Root, <<>>)
  BY DEF LoadRoot
<1>2. CallsFor(<<>>, Root)
  BY <1>1 DEF CallsFor
<1>3. Root \in Name
  BY LoaderAssumption
<1> QED
  BY <1>1, <1>2, <1>3, EnterPreserves

\* What the import loop does next: it passes the import m of the innermost
\* frame, top, and leaves the frames "caller".
LEMMA ImportNextCalls ==
    ASSUME LoaderInv, ImportNext
    PROVE  LET top == stack[Len(stack)]
               m == Imports(top.path)[top.next]
               caller == [stack EXCEPT ![Len(stack)].next = @ + 1]
           IN  /\ Len(stack) \in Nat \ {0} /\ result = "running"
               /\ m \in ToSet(Imports(top.path)) /\ m \in Name \cup {CHeader}
               /\ CallsFor(caller, m)
               /\ IF m = CHeader
                    THEN stack' = caller /\ UNCHANGED <<fs, loadedModules, visitingModules, merged, result>>
                    ELSE Enter(m, caller)
<1> DEFINE top == stack[Len(stack)]
           m == Imports(top.path)[top.next]
           caller == [stack EXCEPT ![Len(stack)].next = @ + 1]
<1>1. stack \in Seq(FrameSet) /\ stack # <<>> /\ Len(stack) \in Nat \ {0} /\ result = "running"
  BY DEF LoaderInv, Types, OverMeansUnwound, ImportNext
<1>2. top \in FrameSet
  BY <1>1
<1>3. top.path \in Paths /\ top.next \in Nat \ {0}
  BY <1>2 DEF FrameSet
<1>4. top.next <= Len(Imports(top.path))
  BY <1>1 DEF ImportNext, Frame, Last
<1>5. /\ caller \in Seq(FrameSet) /\ Len(caller) = Len(stack)
      /\ \A k \in 1 .. Len(stack) : k # Len(stack) => caller[k] = stack[k]
      /\ caller[Len(stack)].path = top.path /\ caller[Len(stack)].next = top.next + 1
  <2> DEFINE up == [top EXCEPT !.next = @ + 1]
  <2>1. up \in FrameSet /\ up.path = top.path /\ up.next = top.next + 1
    BY <1>2 DEF FrameSet
  <2>2. caller = [stack EXCEPT ![Len(stack)] = up]
    OBVIOUS
  <2> HIDE DEF up, caller
  <2> QED
    BY <1>1, <2>1, <2>2
<1>6. CallsFor(caller, m)
  <2>1. Len(stack) > 0
    BY <1>1
  <2>2. \A k \in 1 .. Len(stack) : caller[k].path = stack[k].path
    BY <1>5
  <2>3. \A k \in 1 .. Len(stack) - 1 : caller[k].next = stack[k].next
    BY <1>1, <1>5
  <2> HIDE DEF caller
  <2> QED
    BY <1>4, <1>5, <2>1, <2>2, <2>3 DEF CallsFor
<1>7. m \in ToSet(Imports(top.path)) /\ m \in Name \cup {CHeader}
  <2>1. Imports(top.path) \in Seq(Name \cup {CHeader})
    BY <1>3, FileAtType DEF LoaderInv, Types
  <2> QED
    BY <1>3, <1>4, <2>1 DEF ToSet
<1>8. IF m = CHeader
        THEN stack' = caller /\ UNCHANGED <<fs, loadedModules, visitingModules, merged, result>>
        ELSE Enter(m, caller)
  BY DEF ImportNext, Frame, Last
<1> QED
  BY <1>1, <1>6, <1>7, <1>8

\* What Finish does to the frames: the innermost one, whose imports are all
\* passed, is popped and its path counts as loaded.
LEMMA FinishPops ==
    ASSUME LoaderInv, Finish
    PROVE  LET L == Len(stack)
               p == stack[L].path
           IN  /\ L \in Nat \ {0} /\ result = "running"
               /\ p \in Paths /\ stack[L].next \in Nat \ {0}
               /\ stack[L].next > Len(Imports(p))
               /\ merged' = Append(merged, p)
               /\ visitingModules' = visitingModules \ {p}
               /\ loadedModules' = loadedModules \cup {p}
               /\ result' = (IF L = 1 THEN "ok" ELSE "running")
               /\ fs' = fs
               /\ stack' \in Seq(FrameSet) /\ Len(stack') = L - 1
               /\ \A k \in 1 .. L - 1 : stack'[k] = stack[k]
<1> DEFINE L == Len(stack)
           top == stack[L]
           p == top.path
<1>1. stack \in Seq(FrameSet) /\ stack # <<>> /\ L \in Nat \ {0} /\ result = "running"
  BY DEF LoaderInv, Types, OverMeansUnwound, Finish
<1>2. top \in FrameSet
  BY <1>1
<1>3. p \in Paths /\ top.next \in Nat \ {0}
  BY <1>2 DEF FrameSet
<1>4. /\ top.next > Len(Imports(p))
      /\ merged' = Append(merged, p)
      /\ visitingModules' = visitingModules \ {p}
      /\ loadedModules' = loadedModules \cup {p}
      /\ stack' = SubSeq(stack, 1, L - 1)
      /\ result' = (IF L = 1 THEN "ok" ELSE "running")
      /\ fs' = fs
  BY <1>1 DEF Finish, Leave, Frame, Last, Front
<1>5. /\ stack' \in Seq(FrameSet) /\ Len(stack') = L - 1
      /\ \A k \in 1 .. L - 1 : stack'[k] = stack[k]
  <2>1. \A k \in 1 .. L - 1 : stack[k] \in FrameSet
    BY <1>1
  <2>2. L - 1 \in Int /\ 1 \in Int
    BY <1>1
  <2>3. /\ stack' \in Seq(FrameSet)
        /\ Len(stack') = IF 1 <= L - 1 THEN L - 1 - 1 + 1 ELSE 0
        /\ \A k \in 1 .. L - 1 - 1 + 1 : stack'[k] = stack[1 + k - 1]
    BY <1>4, <2>1, <2>2, SubSeqProperties
  <2> HIDE DEF L
  <2> QED
    BY <1>1, <2>3
<1> QED
  BY <1>1, <1>3, <1>4, <1>5

\* A turn of the import loop: a header is passed over, a name is loaded.
LEMMA ImportNextPreserves ==
    ASSUME LoaderInv, ImportNext
    PROVE  LoaderInv'
<1> DEFINE top == stack[Len(stack)]
           m == Imports(top.path)[top.next]
           caller == [stack EXCEPT ![Len(stack)].next = @ + 1]
<1>1. /\ Len(stack) \in Nat \ {0} /\ result = "running"
      /\ m \in Name \cup {CHeader}
      /\ CallsFor(caller, m)
      /\ IF m = CHeader
           THEN stack' = caller /\ UNCHANGED <<fs, loadedModules, visitingModules, merged, result>>
           ELSE Enter(m, caller)
  BY ImportNextCalls
<1> HIDE DEF caller, m
<1>2. CASE m = CHeader
  <2>1. stack' = caller /\ UNCHANGED <<fs, loadedModules, visitingModules, merged, result>>
    BY <1>1, <1>2
  <2>2. Types'
    BY <1>1, <2>1 DEF LoaderInv, Types, Disk0, CallsFor
  <2>3. Len(stack') = Len(stack) /\ \A k \in 1 .. Len(stack) : stack'[k].path = stack[k].path
    BY <1>1, <2>1 DEF CallsFor
  <2>4. OverMeansUnwound' /\ Visiting'
    BY <2>1, <2>3, <1>1 DEF LoaderInv, OverMeansUnwound, Visiting
  <2>5. ImportsHandled'
    <3> SUFFICES ASSUME NEW k \in 1 .. Len(stack), NEW j \in 1 .. Len(Imports(caller[k].path)),
                        j < caller[k].next
                 PROVE  Handled(k, j)'
      BY <2>1, <2>3, DiskFixed DEF ImportsHandled
    <3>1. LET i == Imports(caller[k].path)[j]
          IN  \/ i = CHeader
              \/ resolvePath(i) \in loadedModules
              \/ k < Len(stack) /\ j = caller[k].next - 1 /\ resolvePath(i) = caller[k + 1].path
      BY <1>1, <1>2, EarlierImports
    <3> QED
      BY <2>1, <2>3, <3>1, DiskFixed DEF Handled
  <2>6. MergedIsLoaded' /\ AfterImports'
    BY <2>1, DiskFixed DEF LoaderInv, MergedIsLoaded, AfterImports
  <2> QED
    BY <2>2, <2>4, <2>5, <2>6 DEF LoaderInv
<1>3. CASE m # CHeader
  BY <1>1, <1>3, EnterPreserves
<1> QED
  BY <1>2, <1>3

\* The loop is over: the file is merged, and the frame below has that import
\* behind it.
LEMMA FinishPreserves ==
    ASSUME LoaderInv, Finish
    PROVE  LoaderInv'
<1> DEFINE L == Len(stack)
           top == stack[L]
           p == top.path
<1>1. L \in Nat \ {0} /\ result = "running"
  BY FinishPops
<1>3. p \in Paths /\ top.next \in Nat \ {0}
  BY FinishPops
<1>4. Len(Imports(p)) \in Nat
  BY <1>3, FileAtType DEF LoaderInv, Types
<1>5. /\ top.next > Len(Imports(p))
      /\ merged' = Append(merged, p)
      /\ visitingModules' = visitingModules \ {p}
      /\ loadedModules' = loadedModules \cup {p}
      /\ result' = (IF L = 1 THEN "ok" ELSE "running")
      /\ fs' = fs
  BY FinishPops
<1>6. /\ stack' \in Seq(FrameSet) /\ Len(stack') = L - 1
      /\ \A k \in 1 .. L - 1 : stack'[k] = stack[k]
  BY FinishPops
<1>7. /\ merged \in Seq(Paths) /\ Len(merged) \in Nat
      /\ merged' \in Seq(Paths) /\ Len(merged') = Len(merged) + 1
      /\ \A k \in 1 .. Len(merged) : merged'[k] = merged[k]
      /\ merged'[Len(merged) + 1] = p
  BY <1>3, <1>5, AppendProperties DEF LoaderInv, Types
<1>8. Types'
  BY <1>3, <1>5, <1>6, <1>7 DEF LoaderInv, Types, Disk0, Results
<1>9. OverMeansUnwound'
  BY <1>1, <1>5, <1>6 DEF OverMeansUnwound
<1>10. p \in visitingModules /\ p \notin loadedModules
  BY <1>1, <1>3 DEF LoaderInv, Visiting
<1>11. Visiting'
  <2> SUFFICES ASSUME result' = "running" PROVE Visiting'
    BY DEF Visiting
  <2>1. \A k \in 1 .. L - 1 : stack[k].path # p
    BY <1>1 DEF LoaderInv, Visiting
  <2>2. 1 .. L = (1 .. L - 1) \cup {L}
    BY <1>1
  <2>3. \A q \in Paths : q \in visitingModules' <=> \E k \in 1 .. Len(stack') : stack'[k].path = q
    <3>1. \A q \in Paths : q \in visitingModules <=> \E k \in 1 .. L : stack[k].path = q
      BY <1>1 DEF LoaderInv, Visiting
    <3>2. \A q \in Paths : q \in visitingModules /\ q # p <=> \E k \in 1 .. L - 1 : stack[k].path = q
      BY <2>1, <2>2, <3>1
    <3>3. \A q \in Paths : (\E k \in 1 .. L - 1 : stack'[k].path = q) <=> \E k \in 1 .. L - 1 : stack[k].path = q
      BY <1>6
    <3> QED
      BY <1>5, <1>6, <3>2, <3>3
  <2>4. \A j, k \in 1 .. Len(stack') : stack'[j].path = stack'[k].path => j = k
    BY <1>1, <1>6 DEF LoaderInv, Visiting
  <2>5. visitingModules' \cap loadedModules' = {}
    BY <1>1, <1>5 DEF LoaderInv, Visiting
  <2> QED
    BY <2>3, <2>4, <2>5 DEF Visiting
<1>12. ImportsHandled'
  <2> SUFFICES ASSUME NEW k \in 1 .. L - 1, NEW j \in 1 .. Len(Imports(stack[k].path)),
                      j < stack[k].next
               PROVE  Handled(k, j)'
    BY <1>5, <1>6, DiskFixed DEF ImportsHandled
  <2>1. k \in 1 .. L /\ k < L /\ k + 1 \in 1 .. L
    BY <1>1
  <2>2. Handled(k, j)
    BY <2>1 DEF LoaderInv, ImportsHandled
  <2>3. CASE k = L - 1
    <3>1. stack[k + 1].path = p
      BY <1>1, <2>3
    <3> QED
      BY <1>5, <1>6, <2>1, <2>2, <2>3, <3>1, DiskFixed DEF Handled
  <2>4. CASE k # L - 1
    <3>1. k + 1 \in 1 .. L - 1 /\ k < L - 1
      BY <1>1, <2>4
    <3> QED
      BY <1>5, <1>6, <2>2, <3>1, DiskFixed DEF Handled
  <2> QED
    BY <2>3, <2>4
<1>13. 1 .. Len(merged') = (1 .. Len(merged)) \cup {Len(merged) + 1}
  BY <1>7
<1>14. MergedIsLoaded'
  <2>1. \A k \in 1 .. Len(merged) : merged[k] # p
    BY <1>3, <1>10 DEF LoaderInv, MergedIsLoaded
  <2>2. \A q \in Paths : q \in loadedModules' <=> \E k \in 1 .. Len(merged') : merged'[k] = q
    BY <1>5, <1>7, <1>13 DEF LoaderInv, MergedIsLoaded
  <2>3. \A j, k \in 1 .. Len(merged') : merged'[j] = merged'[k] => j = k
    BY <1>7, <1>13, <2>1 DEF LoaderInv, MergedIsLoaded
  <2> QED
    BY <2>2, <2>3 DEF MergedIsLoaded
<1>15. AfterImports'
  <2> SUFFICES ASSUME NEW k \in 1 .. Len(merged'), NEW i \in 1 .. Len(Imports(merged'[k])),
                      Imports(merged'[k])[i] # CHeader
               PROVE  \E j \in 1 .. k - 1 : merged'[j] = resolvePath(Imports(merged'[k])[i])
    BY <1>5, DiskFixed DEF AfterImports
  <2>1. CASE k \in 1 .. Len(merged)
    <3>1. \E j \in 1 .. k - 1 : merged[j] = resolvePath(Imports(merged[k])[i])
      BY <1>7, <2>1 DEF LoaderInv, AfterImports
    <3>2. \A j \in 1 .. k - 1 : j \in 1 .. Len(merged)
      BY <1>7, <2>1
    <3> QED
      BY <1>7, <2>1, <3>1, <3>2
  <2>2. CASE k = Len(merged) + 1
    <3> DEFINE m == Imports(p)[i]
    <3>1. merged'[k] = p /\ i \in 1 .. Len(Imports(p)) /\ m # CHeader
      BY <1>7, <2>2
    <3>2. resolvePath(m) \in loadedModules
      <4>1. i < top.next /\ L \in 1 .. L /\ ~(L < L)
        BY <1>1, <1>3, <1>4, <1>5, <3>1
      <4> QED
        BY <3>1, <4>1 DEF LoaderInv, ImportsHandled, Handled
    <3>3. resolvePath(m) \in Paths
      BY <3>2 DEF LoaderInv, Types
    <3>4. \E j \in 1 .. Len(merged) : merged[j] = resolvePath(m)
      BY <3>2, <3>3 DEF LoaderInv, MergedIsLoaded
    <3> QED
      BY <1>7, <2>2, <3>1, <3>4
  <2> QED
    BY <1>13, <2>1, <2>2
<1> QED
  BY <1>8, <1>9, <1>11, <1>12, <1>14, <1>15 DEF LoaderInv

\* Every step, and every step of anything else, preserves the invariant.
LEMMA LoaderInvNext ==
    ASSUME LoaderInv, [Next]_vars
    PROVE  LoaderInv'
<1>1. CASE Next
  BY <1>1, LoadRootPreserves, ImportNextPreserves, FinishPreserves DEF Next
<1>2. CASE UNCHANGED vars
  <2>1. UNCHANGED <<fs, stack, loadedModules, visitingModules, merged, result>>
    BY <1>2 DEF vars
  <2>2. Types' /\ OverMeansUnwound' /\ Visiting'
    BY <2>1 DEF LoaderInv, Types, Disk0, OverMeansUnwound, Visiting
  <2>3. ImportsHandled' /\ MergedIsLoaded' /\ AfterImports'
    BY <2>1, DiskFixed DEF LoaderInv, ImportsHandled, Handled, MergedIsLoaded, AfterImports
  <2> QED
    BY <2>2, <2>3 DEF LoaderInv
<1> QED
  BY <1>1, <1>2

\* The invariant holds in every reachable state.
THEOREM LoaderInvariant == Spec => []LoaderInv
<1>1. Init => LoaderInv
  BY LoaderInvInit
<1>2. LoaderInv /\ [Next]_vars => LoaderInv'
  BY LoaderInvNext
<1> QED
  BY <1>1, <1>2, PTL DEF Spec

\* While loadAndMerge runs, visitingModules is the chain of the files being
\* loaded, without repetition, and no file in it is already loaded: the cycle
\* test of line 62 stands for the whole recursion.
THEOREM LoaderVisitingIsStack == Spec => []VisitingIsStack
<1>1. LoaderInv => VisitingIsStack
  <2> SUFFICES ASSUME LoaderInv PROVE VisitingIsStack
    OBVIOUS
  <2>1. /\ stack \in Seq(FrameSet) /\ DOMAIN stack = 1 .. Len(stack)
        /\ merged \in Seq(Paths) /\ DOMAIN merged = 1 .. Len(merged)
        /\ fs \in Disk0
        /\ loadedModules \subseteq Paths /\ visitingModules \subseteq Paths
        /\ result \in Results
    BY DEF LoaderInv, Types
  <2>2. \A k \in DOMAIN stack : stack[k].path \in Paths /\ stack[k].next \in Nat \ {0}
    <3>1. \A k \in DOMAIN stack : stack[k] \in FrameSet
      BY <2>1
    <3> QED
      BY <3>1 DEF FrameSet
  <2>3. TypeOK
    BY <2>1, <2>2 DEF TypeOK, Disk0, ToSet
  <2>4. ASSUME result = "running"
        PROVE  /\ visitingModules = {stack[k].path : k \in DOMAIN stack}
               /\ \A j, k \in DOMAIN stack : stack[j].path = stack[k].path => j = k
               /\ visitingModules \cap loadedModules = {}
    BY <2>1, <2>2, <2>4 DEF LoaderInv, Visiting
  <2> QED
    BY <2>3, <2>4 DEF VisitingIsStack
<1> QED
  BY <1>1, LoaderInvariant, PTL

\* No path is merged twice, the merged paths are the loaded ones, and every
\* path comes after everything it imports.
THEOREM LoaderMergedOnceInOrder == Spec => []MergedOnceInOrder
<1>1. LoaderInv => MergedOnceInOrder
  <2> SUFFICES ASSUME LoaderInv PROVE MergedOnceInOrder
    OBVIOUS
  <2>1. merged \in Seq(Paths) /\ DOMAIN merged = 1 .. Len(merged) /\ loadedModules \subseteq Paths
    BY DEF LoaderInv, Types
  <2>2. \A k \in DOMAIN merged : merged[k] \in Paths
    BY <2>1
  <2>3. ToSet(merged) = loadedModules
    BY <2>1, <2>2 DEF ToSet, LoaderInv, MergedIsLoaded
  <2>4. \A j, k \in DOMAIN merged : merged[j] = merged[k] => j = k
    BY <2>1 DEF LoaderInv, MergedIsLoaded
  <2>5. ASSUME NEW k \in DOMAIN merged, NEW m \in ToSet(Imports(merged[k])) \ {CHeader}
        PROVE  \E j \in 1 .. k - 1 : merged[j] = resolvePath(m)
    <3>1. Imports(merged[k]) \in Seq(Name \cup {CHeader})
      BY <2>2, FileAtType DEF LoaderInv, Types
    <3>2. PICK i \in 1 .. Len(Imports(merged[k])) : Imports(merged[k])[i] = m
      BY <3>1 DEF ToSet
    <3> QED
      BY <2>1, <3>2 DEF LoaderInv, AfterImports
  <2> QED
    BY <2>3, <2>4, <2>5 DEF MergedOnceInOrder
<1> QED
  BY <1>1, LoaderInvariant, PTL

(***************************************************************************)
(* The verdict.  What the loader has loaded or is loading is needed by the *)
(* root and can be parsed, and the frames are a path of the import graph:  *)
(* with them a verdict is right when it is given.                          *)
(***************************************************************************)
RootPath == resolvePath(Root)

OnlyGood ==
    /\ \A k \in 1 .. Len(stack) : stack[k].path \in Targets /\ FileAt(stack[k].path).kind = "ok"
    /\ \A p \in loadedModules : p \in Targets /\ FileAt(p).kind = "ok"

StackIsPath ==
    /\ Len(stack) > 0 => stack[1].path = RootPath
    /\ \A k \in 1 .. Len(stack) - 1 : stack[k + 1].path \in ImportsOf(stack[k].path)

OnlyNeeded ==
    \A S \in ClosedSets : RootPath \in S =>
        loadedModules \subseteq S /\ \A k \in 1 .. Len(stack) : stack[k].path \in S

Broken == \E p \in Needed(ClosedSets) : FileAt(p).kind # "ok"

Outcome ==
    /\ result = "ok" => RootPath \in loadedModules
    /\ result = "circular" => Cyclic(Needed(ClosedSets), ClosedSets)
    /\ result \in {"unreadable", "badtokens", "badsyntax"} => Broken

SearchInv ==
    /\ OnlyGood
    /\ StackIsPath
    /\ OnlyNeeded
    /\ Outcome

\* The import graph does not change.
LEMMA GraphFixed ==
    ASSUME fs' = fs
    PROVE  /\ \A p : FileAt(p)' = FileAt(p)
           /\ Targets' = Targets
           /\ \A p : ImportsOf(p)' = ImportsOf(p)
           /\ ClosedSets' = ClosedSets
           /\ RootPath' = RootPath
           /\ Needed(ClosedSets)' = Needed(ClosedSets)
           /\ Cyclic(Needed(ClosedSets), ClosedSets)' = Cyclic(Needed(ClosedSets), ClosedSets)
           /\ Broken' = Broken
<1>1. /\ \A m : resolvePath(m)' = resolvePath(m)
      /\ \A p : FileAt(p)' = FileAt(p)
      /\ \A p : Imports(p)' = Imports(p)
  BY DiskFixed
<1>2. Targets' = Targets
  BY <1>1 DEF Targets
<1>3. \A p : ImportsOf(p)' = ImportsOf(p)
  BY <1>1 DEF ImportsOf
<1>4. ClosedSets' = ClosedSets
  BY <1>2, <1>3 DEF ClosedSets
<1>5. RootPath' = RootPath
  BY <1>1 DEF RootPath
<1>6. Needed(ClosedSets)' = Needed(ClosedSets)
  BY <1>1, <1>2, <1>4 DEF Needed, Leads
<1>7. Cyclic(Needed(ClosedSets), ClosedSets)' = Cyclic(Needed(ClosedSets), ClosedSets)
  BY <1>3, <1>4, <1>6 DEF Cyclic, Leads
<1>8. Broken' = Broken
  BY <1>1, <1>6 DEF Broken
<1> QED
  BY <1>1, <1>2, <1>3, <1>4, <1>5, <1>6, <1>7, <1>8

\* What the call of loadAndMerge for the name m is about: the root, or an
\* import of the innermost frame's file.
WantedBy(m) ==
    IF Len(stack) = 0 THEN m = Root
    ELSE resolvePath(m) \in ImportsOf(stack[Len(stack)].path)

\* The path called for is needed by the root.
LEMMA WantedIsNeeded ==
    ASSUME LoaderInv, SearchInv, NEW m \in Name, WantedBy(m)
    PROVE  /\ resolvePath(m) \in Needed(ClosedSets)
           /\ \A S \in ClosedSets : RootPath \in S => resolvePath(m) \in S
<1>1. Len(stack) \in Nat
  BY DEF LoaderInv, Types
<1>2. ASSUME NEW S \in ClosedSets, RootPath \in S
      PROVE  resolvePath(m) \in S
  <2>1. CASE Len(stack) = 0
    BY <1>2, <2>1 DEF WantedBy, RootPath
  <2>2. CASE Len(stack) # 0
    <3>1. stack[Len(stack)].path \in S
      BY <1>1, <1>2, <2>2 DEF SearchInv, OnlyNeeded
    <3> QED
      BY <1>2, <2>2, <3>1 DEF WantedBy, ClosedSets
  <2> QED
    BY <2>1, <2>2
<1>3. resolvePath(m) \in Targets
  BY DEF Targets
<1> QED
  BY <1>2, <1>3 DEF Needed, Leads, RootPath

\* A path that is being visited closes a cycle: the frames lead from it to the
\* file that imports it.
LEMMA CircularIsCyclic ==
    ASSUME LoaderInv, SearchInv, result = "running", NEW m \in Name, WantedBy(m),
           resolvePath(m) \in visitingModules
    PROVE  Cyclic(Needed(ClosedSets), ClosedSets)
<1> DEFINE p == resolvePath(m)
           L == Len(stack)
           q == stack[L].path
<1>1. L \in Nat
  BY DEF LoaderInv, Types
<1>2. p \in Paths
  BY ResolveType
<1>3. PICK k \in 1 .. L : stack[k].path = p
  BY <1>2 DEF LoaderInv, Visiting
<1>4. L # 0 /\ L \in 1 .. L
  BY <1>1, <1>3
<1>5. p \in ImportsOf(q)
  BY <1>4 DEF WantedBy
<1>6. q \in Needed(ClosedSets)
  BY <1>4 DEF SearchInv, OnlyGood, OnlyNeeded, Needed, Leads, RootPath
<1>7. ASSUME NEW S \in ClosedSets, p \in S
      PROVE  q \in S
  <2> DEFINE In == {i \in Nat : k + i <= L => stack[k + i].path \in S}
  <2>1. 0 \in In
    BY <1>3, <1>7
  <2>2. ASSUME NEW i \in Nat, i \in In
        PROVE  i + 1 \in In
    <3> SUFFICES ASSUME k + (i + 1) <= L
                 PROVE  stack[k + (i + 1)].path \in S
      OBVIOUS
    <3>1. k + i \in 1 .. L - 1 /\ k + i <= L /\ k + (i + 1) = (k + i) + 1
      BY <1>1, <1>3
    <3>2. stack[k + i].path \in S
      BY <2>2, <3>1
    <3>3. stack[(k + i) + 1].path \in ImportsOf(stack[k + i].path)
      BY <3>1 DEF SearchInv, StackIsPath
    <3> QED
      BY <1>7, <3>1, <3>2, <3>3 DEF ClosedSets
  <2> HIDE DEF In
  <2>3. \A i \in Nat : i \in In
    BY <2>1, <2>2, SetInduction
  <2>4. L - k \in Nat /\ k + (L - k) = L
    BY <1>1, <1>3
  <2>5. L - k \in In
    BY <2>3, <2>4
  <2> QED
    BY <2>4, <2>5 DEF In
<1>8. Leads(p, q, ClosedSets)
  BY <1>7 DEF Leads
<1> QED
  BY <1>5, <1>6, <1>8 DEF Cyclic

\* loadAndMerge keeps the search invariant, whichever way it goes.
LEMMA EnterKeepsSearch ==
    ASSUME LoaderInv, SearchInv, result = "running", NEW m \in Name, WantedBy(m),
           NEW caller, CallsFor(caller, m), Enter(m, caller)
    PROVE  SearchInv'
<1> DEFINE p == resolvePath(m)
           L == Len(stack)
<1>1. fs' = fs /\ loadedModules' = loadedModules
  BY DEF Enter
<1>2. p \in Paths /\ p \in Targets /\ L \in Nat
  BY ResolveType DEF Targets, LoaderInv, Types
<1>3. /\ caller \in Seq(FrameSet) /\ Len(caller) = L
      /\ \A k \in 1 .. L : caller[k].path = stack[k].path
  BY DEF CallsFor
<1>4. CASE stack' = <<>> /\ result' # "running" /\ Outcome'
  <2>1. OnlyGood' /\ StackIsPath'
    BY <1>1, <1>4, GraphFixed DEF SearchInv, OnlyGood, StackIsPath
  <2>2. OnlyNeeded'
    BY <1>1, <1>4, GraphFixed DEF SearchInv, OnlyNeeded
  <2> QED
    BY <1>4, <2>1, <2>2 DEF SearchInv
<1>5. CASE p \in loadedModules
  <2>1. stack' = caller /\ result' = result
    BY <1>5 DEF Enter, Skip
  <2>2. Len(stack') = L /\ \A k \in 1 .. L : stack'[k].path = stack[k].path
    BY <1>3, <2>1
  <2>3. OnlyGood'
    BY <1>1, <2>2, GraphFixed DEF SearchInv, OnlyGood
  <2>4. StackIsPath'
    <3>1. \A k \in 1 .. L - 1 : k \in 1 .. L /\ k + 1 \in 1 .. L
      BY <1>2
    <3>2. L > 0 => 1 \in 1 .. L
      BY <1>2
    <3> QED
      BY <1>1, <2>2, <3>1, <3>2, GraphFixed DEF SearchInv, StackIsPath
  <2>5. OnlyNeeded'
    BY <1>1, <2>2, GraphFixed DEF SearchInv, OnlyNeeded
  <2>6. Outcome'
    BY <2>1 DEF Outcome
  <2> QED
    BY <2>3, <2>4, <2>5, <2>6 DEF SearchInv
<1>6. CASE p \notin loadedModules /\ p \in visitingModules
  <2>1. result' = "circular" /\ stack' = <<>>
    BY <1>6 DEF Enter, Fail
  <2>2. Outcome'
    BY <1>1, <1>6, <2>1, CircularIsCyclic, GraphFixed DEF Outcome
  <2> QED
    BY <1>4, <2>1, <2>2
<1>7. CASE p \notin loadedModules /\ p \notin visitingModules /\ FileAt(p).kind # "ok"
  <2>1. result' \in {"unreadable", "badtokens", "badsyntax"} /\ stack' = <<>>
    BY <1>2, <1>7, FileAtType DEF Enter, Visit, Fail, Readable, Kinds, LoaderInv, Types
  <2>2. Broken
    BY <1>7, WantedIsNeeded DEF Broken
  <2>3. Outcome'
    BY <1>1, <2>1, <2>2, GraphFixed DEF Outcome
  <2> QED
    BY <1>4, <2>1, <2>3
<1>8. CASE p \notin loadedModules /\ p \notin visitingModules /\ FileAt(p).kind = "ok"
  <2>1. stack' = Append(caller, [path |-> p, next |-> 1]) /\ result' = result
    BY <1>8 DEF Enter, Visit, Readable
  <2>2. [path |-> p, next |-> 1] \in FrameSet
    BY <1>2 DEF FrameSet
  <2>3. /\ Len(stack') = L + 1
        /\ \A k \in 1 .. L : stack'[k] = caller[k]
        /\ stack'[L + 1] = [path |-> p, next |-> 1]
    BY <1>2, <1>3, <2>1, <2>2, AppendProperties
  <2>4. \A k \in 1 .. L : stack'[k].path = stack[k].path
    BY <1>3, <2>3
  <2>5. stack'[L + 1].path = p /\ 1 .. L + 1 = (1 .. L) \cup {L + 1}
    BY <1>2, <2>3
  <2> HIDE DEF p, L
  <2>6. OnlyGood'
    BY <1>1, <1>2, <1>8, <2>3, <2>4, <2>5, GraphFixed DEF SearchInv, OnlyGood, L
  <2>7. StackIsPath'
    <3>1. stack'[1].path = RootPath
      <4>1. CASE L = 0
        BY <2>5, <4>1 DEF WantedBy, p, L, RootPath
      <4>2. CASE L # 0
        BY <1>2, <2>4, <4>2 DEF SearchInv, StackIsPath, L
      <4> QED
        BY <4>1, <4>2
    <3>2. ASSUME NEW k \in 1 .. L
          PROVE  stack'[k + 1].path \in ImportsOf(stack'[k].path)
      <4>1. CASE k = L
        BY <1>2, <2>4, <2>5, <4>1 DEF WantedBy, p, L
      <4>2. CASE k # L
        <5>1. k \in 1 .. L - 1 /\ k + 1 \in 1 .. L
          BY <1>2, <4>2
        <5> QED
          BY <2>4, <5>1 DEF SearchInv, StackIsPath, L
      <4> QED
        BY <4>1, <4>2
    <3>3. Len(stack') - 1 = L
      BY <1>2, <2>3
    <3> QED
      BY <1>1, <3>1, <3>2, <3>3, GraphFixed DEF StackIsPath
  <2>8. OnlyNeeded'
    <3>1. \A S \in ClosedSets : RootPath \in S => p \in S
      BY WantedIsNeeded DEF p
    <3> QED
      BY <1>1, <2>3, <2>4, <2>5, <3>1, GraphFixed DEF SearchInv, OnlyNeeded, L
  <2>9. Outcome'
    BY <2>1 DEF Outcome
  <2> QED
    BY <2>6, <2>7, <2>8, <2>9 DEF SearchInv
<1> QED
  BY <1>5, <1>6, <1>7, <1>8

\* Every step keeps the search invariant.
LEMMA SearchInvNext ==
    ASSUME LoaderInv, SearchInv, [Next]_vars
    PROVE  SearchInv'
<1> DEFINE L == Len(stack)
<1>1. stack \in Seq(FrameSet) /\ L \in Nat
  BY DEF LoaderInv, Types
<1>2. CASE LoadRoot
  <2>1. result = "running" /\ stack = <<>> /\ Enter(Root, <<>>)
    BY <1>2 DEF LoadRoot
  <2>2. CallsFor(<<>>, Root) /\ WantedBy(Root)
    BY <2>1 DEF CallsFor, WantedBy
  <2>3. Root \in Name
    BY LoaderAssumption
  <2> QED
    BY <2>1, <2>2, <2>3, EnterKeepsSearch
<1>3. CASE ImportNext
  <2> DEFINE top == stack[L]
             m == Imports(top.path)[top.next]
             caller == [stack EXCEPT ![L].next = @ + 1]
  <2>1. /\ L \in Nat \ {0} /\ result = "running"
        /\ m \in ToSet(Imports(top.path)) /\ m \in Name \cup {CHeader}
        /\ CallsFor(caller, m)
        /\ IF m = CHeader
             THEN stack' = caller /\ UNCHANGED <<fs, loadedModules, visitingModules, merged, result>>
             ELSE Enter(m, caller)
    BY <1>3, ImportNextCalls
  <2> HIDE DEF caller
  <2>2. CASE m = CHeader
    <3>1. stack' = caller /\ UNCHANGED <<fs, loadedModules, result>>
      BY <2>1, <2>2
    <3>2. Len(stack') = L /\ \A k \in 1 .. L : stack'[k].path = stack[k].path
      BY <2>1, <3>1 DEF CallsFor
    <3>3. OnlyGood' /\ OnlyNeeded' /\ Outcome'
      BY <3>1, <3>2, GraphFixed DEF SearchInv, OnlyGood, OnlyNeeded, Outcome
    <3>4. StackIsPath'
      <4>1. \A k \in 1 .. L - 1 : k \in 1 .. L /\ k + 1 \in 1 .. L
        BY <1>1
      <4> QED
        BY <2>1, <3>1, <3>2, <4>1, GraphFixed DEF SearchInv, StackIsPath
    <3> QED
      BY <3>3, <3>4 DEF SearchInv
  <2>3. CASE m # CHeader
    <3>1. FileAt(top.path).kind = "ok"
      BY <2>1 DEF SearchInv, OnlyGood
    <3>2. WantedBy(m)
      BY <2>1, <2>3, <3>1 DEF WantedBy, ImportsOf
    <3> HIDE DEF m
    <3> QED
      BY <2>1, <2>3, <3>2, EnterKeepsSearch
  <2> QED
    BY <2>2, <2>3
<1>4. CASE Finish
  <2>1. L \in Nat \ {0} /\ result = "running"
    BY <1>4, FinishPops
  <2>2. /\ loadedModules' = loadedModules \cup {stack[L].path}
        /\ result' = (IF L = 1 THEN "ok" ELSE "running")
        /\ fs' = fs
    BY <1>4, FinishPops
  <2>3. Len(stack') = L - 1 /\ \A k \in 1 .. L - 1 : stack'[k] = stack[k]
    BY <1>4, FinishPops
  <2>4. \A k \in 1 .. L - 1 : k \in 1 .. L /\ k + 1 \in 1 .. L
    BY <2>1
  <2>5. L \in 1 .. L
    BY <2>1
  <2>6. OnlyGood' /\ OnlyNeeded'
    BY <2>2, <2>3, <2>4, <2>5, GraphFixed DEF SearchInv, OnlyGood, OnlyNeeded
  <2>7. StackIsPath'
    <3>1. \A k \in 1 .. Len(stack') - 1 : k \in 1 .. L - 1 /\ k + 1 \in 1 .. L - 1
      BY <2>1, <2>3
    <3>2. Len(stack') > 0 => 1 \in 1 .. L - 1 /\ L > 0
      BY <2>1, <2>3
    <3> QED
      BY <2>2, <2>3, <3>1, <3>2, GraphFixed DEF SearchInv, StackIsPath
  <2>8. Outcome'
    BY <2>1, <2>2, GraphFixed DEF SearchInv, StackIsPath, Outcome
  <2> QED
    BY <2>6, <2>7, <2>8 DEF SearchInv
<1>5. CASE UNCHANGED vars
  <2>1. UNCHANGED <<fs, stack, loadedModules, result>>
    BY <1>5 DEF vars
  <2> QED
    BY <2>1, GraphFixed DEF SearchInv, OnlyGood, StackIsPath, OnlyNeeded, Outcome
<1> QED
  BY <1>2, <1>3, <1>4, <1>5 DEF Next

\* The search invariant holds in every reachable state.
THEOREM SearchInvariant == Spec => []SearchInv
<1>1. Init => SearchInv
  BY DEF Init, SearchInv, OnlyGood, StackIsPath, OnlyNeeded, Outcome
<1>2. LoaderInv /\ SearchInv /\ [Next]_vars => SearchInv'
  BY SearchInvNext
<1> QED
  BY <1>1, <1>2, LoaderInvariant, PTL DEF Spec

\* A program without error was loaded from files without a cycle: the order in
\* which they were merged would have to go down along one.
LEMMA MergedIsAcyclic ==
    ASSUME LoaderInv, SearchInv, RootPath \in loadedModules
    PROVE  /\ Needed(ClosedSets) = loadedModules
           /\ ~Cyclic(Needed(ClosedSets), ClosedSets)
<1>1. merged \in Seq(Paths) /\ Len(merged) \in Nat /\ loadedModules \subseteq Paths
  BY DEF LoaderInv, Types
<1>2. \A k \in 1 .. Len(merged) : merged[k] \in Paths /\ merged[k] \in loadedModules
  BY <1>1 DEF LoaderInv, MergedIsLoaded
<1>3. ASSUME NEW k \in 1 .. Len(merged), NEW q \in ImportsOf(merged[k])
      PROVE  \E j \in 1 .. k - 1 : merged[j] = q
  <2>1. Imports(merged[k]) \in Seq(Name \cup {CHeader})
    BY <1>2, FileAtType DEF LoaderInv, Types
  <2>2. PICK m \in ToSet(Imports(merged[k])) \ {CHeader} : q = resolvePath(m)
    BY <1>3 DEF ImportsOf
  <2>3. PICK i \in 1 .. Len(Imports(merged[k])) : Imports(merged[k])[i] = m
    BY <2>1, <2>2 DEF ToSet
  <2> QED
    BY <2>2, <2>3 DEF LoaderInv, AfterImports
<1>4. \A k \in 1 .. Len(merged) : \A j \in 1 .. k - 1 : j \in 1 .. Len(merged)
  BY <1>1
<1>5. loadedModules \in ClosedSets
  <2>1. loadedModules \subseteq Targets
    BY DEF SearchInv, OnlyGood
  <2>2. ASSUME NEW p \in loadedModules, NEW q \in ImportsOf(p)
        PROVE  q \in loadedModules
    <3>1. PICK k \in 1 .. Len(merged) : merged[k] = p
      BY <1>1 DEF LoaderInv, MergedIsLoaded
    <3> QED
      BY <1>2, <1>3, <1>4, <2>2, <3>1
  <2> QED
    BY <2>1, <2>2 DEF ClosedSets
<1>6. Needed(ClosedSets) = loadedModules
  <2>1. Needed(ClosedSets) \subseteq loadedModules
    BY <1>5 DEF Needed, Leads, RootPath
  <2>2. loadedModules \subseteq Needed(ClosedSets)
    BY DEF SearchInv, OnlyGood, OnlyNeeded, Needed, Leads, RootPath
  <2> QED
    BY <2>1, <2>2
<1>7. ASSUME NEW p \in loadedModules, NEW q \in ImportsOf(p), Leads(q, p, ClosedSets)
      PROVE  FALSE
  <2>1. PICK k \in 1 .. Len(merged) : merged[k] = p
    BY <1>1 DEF LoaderInv, MergedIsLoaded
  <2> DEFINE Before == {merged[j] : j \in 1 .. k - 1}
  <2>2. Before \in ClosedSets
    <3>1. Before \subseteq Targets
      BY <1>2, <1>4 DEF SearchInv, OnlyGood
    <3>2. ASSUME NEW j \in 1 .. k - 1, NEW r \in ImportsOf(merged[j])
          PROVE  r \in Before
      <4>1. \E i \in 1 .. j - 1 : merged[i] = r
        BY <1>3, <1>4, <3>2
      <4>2. \A i \in 1 .. j - 1 : i \in 1 .. k - 1
        BY <1>1
      <4> QED
        BY <4>1, <4>2
    <3> QED
      BY <3>1, <3>2 DEF ClosedSets
  <2>3. q \in Before
    BY <1>3, <1>7, <2>1
  <2>4. p \in Before
    BY <1>7, <2>2, <2>3 DEF Leads
  <2>5. PICK j \in 1 .. k - 1 : merged[j] = p
    BY <2>4
  <2>6. j = k
    BY <1>4, <2>1, <2>5 DEF LoaderInv, MergedIsLoaded
  <2> QED
    BY <1>1, <2>5, <2>6
<1> QED
  BY <1>6, <1>7 DEF Cyclic

\* loadAndMerge succeeds exactly when every file the root needs can be read and
\* parsed and no cycle of imports can be met, and then the program consists of
\* exactly the files needed; a cycle is reported only if there is one.
THEOREM LoaderVerdictIsRight == Spec => []VerdictIsRight
<1>1. LoaderInv /\ SearchInv => VerdictIsRight
  <2> SUFFICES ASSUME LoaderInv, SearchInv, result # "running"
               PROVE  LET closed == ClosedSets
                          needed == Needed(closed)
                          cyclic == Cyclic(needed, closed)
                      IN  /\ result = "ok" <=> ~cyclic /\ \A p \in needed : FileAt(p).kind = "ok"
                          /\ result = "circular" => cyclic
                          /\ result = "ok" => ToSet(merged) = needed
    BY DEF VerdictIsRight
  <2>1. result \in {"ok", "circular", "unreadable", "badtokens", "badsyntax"}
    BY DEF LoaderInv, Types, Results
  <2>2. CASE result = "ok"
    <3>1. /\ Needed(ClosedSets) = loadedModules
          /\ ~Cyclic(Needed(ClosedSets), ClosedSets)
      BY <2>2, MergedIsAcyclic DEF SearchInv, Outcome
    <3>2. \A p \in loadedModules : FileAt(p).kind = "ok"
      BY DEF SearchInv, OnlyGood
    <3>3. ToSet(merged) = loadedModules
      <4>1. merged \in Seq(Paths) /\ loadedModules \subseteq Paths
        BY DEF LoaderInv, Types
      <4> QED
        BY <4>1 DEF ToSet, LoaderInv, MergedIsLoaded
    <3> QED
      BY <2>2, <3>1, <3>2, <3>3
  <2>3. CASE result = "circular"
    BY <2>3 DEF SearchInv, Outcome
  <2>4. CASE result \in {"unreadable", "badtokens", "badsyntax"}
    BY <2>4 DEF SearchInv, Outcome, Broken
  <2> QED
    BY <2>1, <2>2, <2>3, <2>4
<1> QED
  BY <1>1, LoaderInvariant, SearchInvariant, PTL

============================================================================
