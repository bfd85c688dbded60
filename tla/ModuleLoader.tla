---------------------------- MODULE ModuleLoader ----------------------------
(***************************************************************************)
(* Loading a program and everything it imports                             *)
(* (src/src/loader/ModuleLoader.hpp): loadAndMerge resolves a name to a    *)
(* path, refuses a path it is already visiting, parses the file, loads its *)
(* imports depth first and then appends its own statements to the program. *)
(*                                                                         *)
(* The C++ recursion is an explicit stack of frames.  A file's contents    *)
(* are reduced to whether it can be opened, lexed and parsed, and to the   *)
(* list of its imports; its other statements are one unit, the path.       *)
(***************************************************************************)
EXTENDS Integers, Sequences, SequencesExt

CONSTANTS
    Stem,          \* file names without ".lsm"
    SearchPaths,   \* the directories searched, in order; "." comes first
    CHeader,       \* an import of a C header
    FileSystems,   \* the contents of the disk a run may start from
    Root           \* the name given on the command line

Here == "."
Dirs == ToSet(SearchPaths)
File == [dir : Dirs, stem : Stem]
Name == [stem : Stem, ext : BOOLEAN]
Kinds == {"absent", "empty", "badtokens", "badsyntax", "ok"}

\* A path is spelled by a directory and a stem; the name opened as it was
\* written has the directory "".
Paths == [dir : Dirs \cup {""}, stem : Stem]

ASSUME LoaderAssumption ==
    /\ SearchPaths \in Seq(STRING)
    /\ Len(SearchPaths) > 0 /\ SearchPaths[1] = Here
    /\ Root \in Name
    /\ FileSystems \subseteq
         [File -> [kind : Kinds, imports : Seq(Name \cup {CHeader})]]

VARIABLES
    fs,               \* the disk; nobody changes it
    stack,            \* the active calls of loadAndMerge, innermost last
    loadedModules, visitingModules,
    merged,           \* rootProgram->stmts, by the path they came from
    result

vars == <<fs, stack, loadedModules, visitingModules, merged, result>>

Results == {"running", "ok", "circular", "unreadable", "badtokens", "badsyntax"}

\* Every variable has its type.
TypeOK ==
    /\ DOMAIN fs = File
    /\ \A k \in DOMAIN stack : stack[k].path \in Paths /\ stack[k].next \in Nat \ {0}
    /\ loadedModules \subseteq Paths
    /\ visitingModules \subseteq Paths
    /\ ToSet(merged) \subseteq Paths
    /\ result \in Results

FileAt(p) == fs[[dir |-> IF p.dir = "" THEN Here ELSE p.dir, stem |-> p.stem]]

\* resolvePath: the name as written if it opens, else the first search path
\* that has it (".lsm" is appended to a name that lacks it), else as written.
resolvePath(n) ==
    LET asWritten == [dir |-> "", stem |-> n.stem]
        has(d) == fs[[dir |-> d, stem |-> n.stem]].kind # "absent"
        hits == {k \in DOMAIN SearchPaths : has(SearchPaths[k])}
    IN  IF (n.ext /\ has(Here)) \/ hits = {}
          THEN asWritten
          ELSE [dir |-> SearchPaths[Min(hits)], stem |-> n.stem]

Init ==
    /\ fs \in FileSystems
    /\ stack = <<>>
    /\ loadedModules = {}
    /\ visitingModules = {}
    /\ merged = <<>>
    /\ result = "running"

(***************************************************************************)
(* loadAndMerge up to its import loop, called from the frames of "caller". *)
(* An error unwinds every frame; visitingModules keeps what it holds.      *)
(***************************************************************************)
Fail(error) ==
    /\ result' = error
    /\ stack' = <<>>

Skip(caller) == stack' = caller /\ UNCHANGED <<visitingModules, result>>

Visit_IgnoresErrors(p, caller) ==       \* mutant: hasErrors() is not asked
    /\ visitingModules' = visitingModules \cup {p}
    /\ stack' = Append(caller, [path |-> p, next |-> 1])
    /\ UNCHANGED result

Visit(p, caller) ==
    /\ visitingModules' = visitingModules \cup {p}
    /\ IF FileAt(p).kind # "ok"
         THEN Fail(FileAt(p).kind)
         ELSE /\ stack' = Append(caller, [path |-> p, next |-> 1])
              /\ UNCHANGED result

Readable(p) == FileAt(p).kind \notin {"absent", "empty"}

Enter(n, caller) ==
    LET p == resolvePath(n)
    IN  /\ IF p \in loadedModules THEN Skip(caller)
           ELSE IF p \in visitingModules THEN Fail("circular") /\ UNCHANGED visitingModules
           ELSE IF ~Readable(p) THEN Fail("unreadable") /\ UNCHANGED visitingModules
           ELSE Visit(p, caller)
        /\ UNCHANGED <<fs, loadedModules, merged>>

LoadRoot ==
    /\ result = "running"
    /\ stack = <<>>
    /\ Enter(Root, <<>>)

Frame == Last(stack)
Imports(p) == FileAt(p).imports

\* The import loop meets its next import; a C header is erased unread.
ImportNext_KeepsHeader ==               \* mutant: a header is not erased
    /\ stack # <<>>
    /\ Frame.next <= Len(Imports(Frame.path))
    /\ LET n == Imports(Frame.path)[Frame.next]
       IN  n # CHeader /\ Enter(n, [stack EXCEPT ![Len(stack)].next = @ + 1])

ImportNext ==
    /\ stack # <<>>
    /\ Frame.next <= Len(Imports(Frame.path))
    /\ LET n == Imports(Frame.path)[Frame.next]
           caller == [stack EXCEPT ![Len(stack)].next = @ + 1]
       IN  IF n = CHeader
             THEN /\ stack' = caller
                  /\ UNCHANGED <<fs, loadedModules, visitingModules, merged, result>>
             ELSE Enter(n, caller)

Leave ==
    /\ stack' = Front(stack)
    /\ result' = IF Len(stack) = 1 THEN "ok" ELSE result

\* The loop is over: merge, erase from visiting, insert into loaded, return.
Finish_KeepsVisiting ==                 \* mutant: visitingModules not erased
    /\ stack # <<>>
    /\ Frame.next > Len(Imports(Frame.path))
    /\ merged' = Append(merged, Frame.path)
    /\ loadedModules' = loadedModules \cup {Frame.path}
    /\ Leave
    /\ UNCHANGED <<fs, visitingModules>>

Finish_Prepends ==                      \* mutant: merges before its imports
    /\ stack # <<>>
    /\ Frame.next > Len(Imports(Frame.path))
    /\ merged' = <<Frame.path>> \o merged
    /\ visitingModules' = visitingModules \ {Frame.path}
    /\ loadedModules' = loadedModules \cup {Frame.path}
    /\ Leave
    /\ UNCHANGED fs

Finish ==
    /\ stack # <<>>
    /\ Frame.next > Len(Imports(Frame.path))
    /\ merged' = Append(merged, Frame.path)
    /\ visitingModules' = visitingModules \ {Frame.path}
    /\ loadedModules' = loadedModules \cup {Frame.path}
    /\ Leave
    /\ UNCHANGED fs

Next == LoadRoot \/ ImportNext \/ Finish

Spec == Init /\ [][Next]_vars

\* The loader is sequential code: it runs until it returns.
FairSpec == Spec /\ WF_vars(Next)

(***************************************************************************)
(* Properties.                                                             *)
(***************************************************************************)

\* The import graph: the paths that names stand for, and the paths that a file
\* imports.  A file that cannot be parsed imports nothing.
Targets == {resolvePath(n) : n \in Name}
ImportsOf(p) ==
    IF FileAt(p).kind # "ok" THEN {}
    ELSE {resolvePath(n) : n \in ToSet(Imports(p)) \ {CHeader}}

\* q is p or is imported by p, directly or through other files: it lies in
\* every set that holds p and what its members import.
ClosedSets == {S \in SUBSET Targets : \A p \in S : ImportsOf(p) \subseteq S}
Leads(p, q, closed) == \A S \in closed : p \in S => q \in S

Needed(closed) == {p \in Targets : Leads(resolvePath(Root), p, closed)}
Cyclic(nodes, closed) == \E p \in nodes : \E q \in ImportsOf(p) : Leads(q, p, closed)

\* While the loader runs, visitingModules is exactly the chain of files being
\* loaded, without repetition, and none of them is also in loadedModules: the
\* recursion is never deeper than the number of paths there are.  Every variable
\* has its type.
VisitingIsStack ==
    /\ TypeOK
    /\ result = "running" =>
        /\ visitingModules = {stack[k].path : k \in DOMAIN stack}
        /\ \A j, k \in DOMAIN stack : stack[j].path = stack[k].path => j = k
        /\ visitingModules \cap loadedModules = {}

\* No path is merged twice, whatever diamonds the imports form, a path counts as
\* loaded exactly when its statements are in the program, and they come after
\* those of everything it imports, so that later phases meet a declaration
\* before its uses.
MergedOnceInOrder ==
    /\ ToSet(merged) = loadedModules
    /\ \A j, k \in DOMAIN merged : merged[j] = merged[k] => j = k
    /\ \A k \in DOMAIN merged : \A n \in ToSet(Imports(merged[k])) \ {CHeader} :
          \E j \in 1 .. k - 1 : merged[j] = resolvePath(n)

\* loadAndMerge succeeds exactly when every file the root needs can be read
\* and parsed and no import cycle is reachable; then the program consists of
\* exactly the files needed.  It reports a cycle only when there is one.
VerdictIsRight ==
    result # "running" =>
        LET closed == ClosedSets
            needed == Needed(closed)
            cyclic == Cyclic(needed, closed)
        IN  /\ result = "ok" <=> ~cyclic /\ \A p \in needed : FileAt(p).kind = "ok"
            /\ result = "circular" => cyclic
            /\ result = "ok" => ToSet(merged) = needed

\* Loading terminates, even for files that import each other.
Terminates == <>(result # "running")

=============================================================================
