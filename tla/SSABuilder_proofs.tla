-------------------------- MODULE SSABuilder_proofs --------------------------
(***************************************************************************)
(* Proofs about the SSA builder, for every program: whatever its           *)
(* statements and however they are nested, control stays inside the blocks *)
(* the builder laid out, the region of a function is entered and left      *)
(* exactly once, and there is a phi node wherever two definitions of a     *)
(* variable meet.                                                          *)
(*                                                                         *)
(* None is inductive.  That a block ends in a jump, and that the jump has  *)
(* a target, are promises the builder makes when it emits a branch and     *)
(* keeps later, when it opens the block: between the two the promise is on *)
(* the builder's stack, the work list.  WorkOK says what the stack owes,   *)
(* FlowOK what the phi nodes need: a graph whose blocks can all be         *)
(* reached, and dominators and frontiers computed from the finished code.  *)
(***************************************************************************)
EXTENDS SSABuilder, InductionLemmas, SequenceTheorems

(***************************************************************************)
(* Sequences, blocks and what a block may hold.                            *)
(***************************************************************************)
IsSeq(s) == s \in Seq(ToSet(s))

LabelKinds == {"then", "else", "merge", "while_cond", "while_body", "while_end",
               "for_cond", "for_body", "for_end"}
Inner == LabelKinds \X Nat
NumberedFrom(m, n) == LabelKinds \X (m .. n - 1)

Jumps == {"Branch", "CondBranch", "Return"}
Plain == Arithmetic \cup Reads \cup Writes \cup {"Copy", "Call", "TaskSpawn", "ArrayAlloc"}

Ends(c) == Len(c) > 0 /\ c[Len(c)].op \in Jumps

IsInst(i) ==
    /\ i.to \in Seq(Inner)
    /\ i.op = "Branch" => Len(i.to) = 1
    /\ i.op = "CondBranch" => Len(i.to) = 2

\* RegionExit comes right before a return and, unless the function is naked, every
\* return comes right after it.
ExitsOK(c, naked) ==
    \A j \in 1 .. Len(c) :
        /\ c[j].op = "RegionExit" => ~naked /\ j < Len(c) /\ c[j + 1].op = "Return"
        /\ c[j].op = "Return" /\ ~naked => j > 1 /\ c[j - 1].op = "RegionExit"

\* What is appended to a block at a time.
ChunkOK(c, naked) ==
    /\ IsSeq(c)
    /\ \A j \in 1 .. Len(c) : IsInst(c[j]) /\ c[j].op \notin {"RegionEnter", "Phi"}
    /\ ExitsOK(c, naked)

\* The region is entered at the start of the entry block, after its phi nodes.
EntersOK(c, l, naked) ==
    /\ \A j \in 1 .. Len(c) :
          c[j].op = "RegionEnter" =>
              l = Entry /\ ~naked /\ \A i \in 1 .. j - 1 : c[i].op = "Phi"
    /\ l = Entry /\ ~naked => \E j \in 1 .. Len(c) : c[j].op = "RegionEnter"

BlockOK(c, l, naked) ==
    /\ IsSeq(c)
    /\ \A j \in 1 .. Len(c) : IsInst(c[j])
    /\ ExitsOK(c, naked)
    /\ EntersOK(c, l, naked)

Targets(c) == UNION {ToSet(c[j].to) : j \in DOMAIN c}

(***************************************************************************)
(* What the builder keeps for the current function.                        *)
(***************************************************************************)
Fields == {"order", "params", "code", "cur", "temps", "labels", "vals", "defers", "dom", "front",
           "defs"}

LayoutOK(f) ==
    /\ IsSeq(f.order)
    /\ IsInjective(f.order)
    /\ ToSet(f.order) = DOMAIN f.code

FnOK(f, naked) ==
    /\ DOMAIN f = Fields
    /\ LayoutOK(f)
    /\ f.cur \in DOMAIN f.code
    /\ Entry \in DOMAIN f.code
    /\ f.labels \in Nat
    /\ DOMAIN f.code \subseteq {Entry} \cup NumberedFrom(0, f.labels)
    /\ f.defers \in Seq(Trees)
    /\ IsFiniteSet(f.defs)
    /\ \A l \in DOMAIN f.code : /\ BlockOK(f.code[l], l, naked)
                                /\ l # f.cur => Ends(f.code[l])

(***************************************************************************)
(* The work list.                                                          *)
(***************************************************************************)
ItemOK(i, naked) ==
    \/ i \in Trees
    \/ i.node = "ExprStmt" /\ i.expr \in Trees
    \/ i.node \in {"Drop", "Leave", "Finish", "Dominance", "Frontiers", "Phis"}
    \/ i.node \in {"Operate", "Invoke", "Fetch", "Store"} /\ i.op \in Plain
    \/ i.node = "Split" /\ i.if \in Trees /\ i.if.node = "If"
    \/ i.node = "Enter" /\ i.for \in Trees /\ i.for.node = "For"
    \/ i.node = "Test" /\ i.bodyLbl \in Inner /\ i.endLbl \in Inner
    \/ i.node = "OpenBlock" /\ i.label \in Inner
    \/ i.node = "Code" /\ ChunkOK(i.insts, naked)

\* Items that need the current block to end in a jump, and those that see to it.
NeedsClosed(i) == i.node \in {"OpenBlock", "Dominance", "Frontiers", "Phis"}
Closes(i) ==
    \/ i.node \in {"Test", "Dominance", "Frontiers"}
    \/ i.node = "Code" /\ Ends(i.insts)
Chain(w) == \A j \in 2 .. Len(w) : NeedsClosed(w[j]) => Closes(w[j - 1])

\* The blocks still to be opened, each once.
Opens(w) == {i.label : i \in {x \in ToSet(w) : x.node = "OpenBlock"}}
Once(w) ==
    \A j, k \in 1 .. Len(w) :
        w[j].node = "OpenBlock" /\ w[k].node = "OpenBlock" /\ w[j].label = w[k].label => j = k

\* The blocks an item will jump to.
Mentions(i) ==
    IF i.node = "Test" THEN {i.bodyLbl, i.endLbl}
    ELSE IF i.node = "Code" THEN Targets(i.insts) ELSE {}

WorkOK(f, w, naked) ==
    /\ IsSeq(w)
    /\ \A i \in ToSet(w) : ItemOK(i, naked)
    /\ \A j \in 1 .. Len(w) : w[j].node \in {"Finish", "Phis"} => j = Len(w)
    /\ Chain(w)
    /\ w # <<>> /\ NeedsClosed(w[1]) => Ends(f.code[f.cur])
    /\ Once(w)
    /\ Opens(w) \subseteq NumberedFrom(0, f.labels) \ DOMAIN f.code
    /\ \A l \in DOMAIN f.code : Targets(f.code[l]) \subseteq DOMAIN f.code \cup Opens(w)
    /\ \A i \in ToSet(w) : Mentions(i) \subseteq DOMAIN f.code \cup Opens(w)

(***************************************************************************)
(* The graph of a function while it is built: no block is opened unless    *)
(* some block built before it jumps to it, so every block can be reached;  *)
(* what insertPhiNodes reads has been computed from the finished code.     *)
(***************************************************************************)

\* A graph: finitely many blocks, the entry among them, and branches that stay inside.
IsGraph(code) ==
    /\ IsFiniteSet(DOMAIN code)
    /\ Entry \in DOMAIN code
    /\ \A l \in DOMAIN code : Succs(code, l) \subseteq DOMAIN code

\* Every block can be reached: a set of blocks that holds the entry and is closed under
\* branches is all of them.
Connected(code) ==
    \A S \in SUBSET DOMAIN code :
        Entry \in S /\ (\A l \in S : Succs(code, l) \cap DOMAIN code \subseteq S) => S = DOMAIN code

AllTargets(code) == UNION {Targets(code[l]) : l \in DOMAIN code}

\* A block that s opens is a target of the code, G, or of an item before it.
Promised(s, G) ==
    \A j \in 1 .. Len(s) :
        s[j].node = "OpenBlock" =>
            s[j].label \in G \/ \E i \in 1 .. j - 1 : s[j].label \in Mentions(s[i])

Ordered(w) ==
    \A j \in 2 .. Len(w) : /\ w[j].node = "Frontiers" => w[j - 1].node = "Dominance"
                           /\ w[j].node = "Phis" => w[j - 1].node = "Frontiers"

\* variableDefBlocks holds the parameters, at the entry, and every definition in the code
\* by one of the opcodes that emit records.
Noted(f) ==
    /\ \A p \in f.params : <<p, Entry>> \in f.defs
    /\ \A l \in DOMAIN f.code : \A i \in ToSet(f.code[l]) :
           i.op \in Recorded /\ i.result # "" => <<i.result, l>> \in f.defs

FlowOK(f, w) ==
    /\ Connected(f.code)
    /\ Noted(f)
    /\ \A l \in DOMAIN f.code : \A j \in 1 .. Len(f.code[l]) : f.code[l][j].op # "Phi"
    /\ \A d \in f.defs : d[2] \in DOMAIN f.code
    /\ Promised(w, AllTargets(f.code))
    /\ Ordered(w)
    /\ w # <<>> /\ w[1].node = "Frontiers" => f.dom = DominatorsOf(f.code)
    /\ w # <<>> /\ w[1].node = "Phis" => f.front = FrontiersOf(f.code, DominatorsOf(f.code))

Owed == FnOK(fn, Naked) /\ WorkOK(fn, work, Naked) /\ FlowOK(fn, work)

Building == work # <<>> => pending # <<>> /\ Owed

(***************************************************************************)
(* Functions already built.                                                *)
(***************************************************************************)
BuiltOK(b, naked) ==
    /\ LayoutOK(b)
    /\ Entry \in DOMAIN b.code
    /\ \A l \in DOMAIN b.code : /\ BlockOK(b.code[l], l, naked)
                                /\ Ends(b.code[l])
                                /\ Targets(b.code[l]) \subseteq DOMAIN b.code
    /\ \A x \in b.vars : Tracked(b.code, x) => Suffices(b, x)

Progress ==
    /\ prog \in Programs
    /\ pending \in Seq(DOMAIN prog.funcs)
    /\ \A j, k \in 1 .. Len(pending) : pending[j] = pending[k] => j = k
    /\ DOMAIN built = DOMAIN prog.funcs \ ToSet(pending)
    /\ \A k \in DOMAIN built : BuiltOK(built[k], prog.funcs[k].naked)

(***************************************************************************)
(* The execution of the code.                                              *)
(***************************************************************************)
RegionsAt(code, at, pc, naked) ==
    IF \/ naked
       \/ at = Entry /\ \A j \in 1 .. pc - 1 : code[at][j].op = "Phi"
       \/ pc > 1 /\ code[at][pc - 1].op = "RegionExit"
      THEN 0 ELSE 1

MachineOK(m, code, naked) ==
    /\ DOMAIN m = {"status", "at", "pc", "env", "regions", "trace", "result"}
    /\ m.status \in {"run", "done", "garbage"}
    /\ m.regions \in {0, 1}
    /\ m.status = "done" => m.regions = 0
    /\ m.status = "run" =>
          /\ m.at \in DOMAIN code
          /\ m.pc \in 1 .. Len(code[m.at])
          /\ m.regions = RegionsAt(code, m.at, m.pc, naked)

(***************************************************************************)
(* The execution of the source.                                            *)
(***************************************************************************)
IsLeaf(e) == e.node \in {"IntLit", "Var"}
IsStep(e) == e.node = "VarAssign" /\ IsLeaf(e.value)
IsTest(e) == e.node = "Binary" /\ e.op \in {"<", "<="} /\ IsLeaf(e.left) /\ IsLeaf(e.right)
IsLoop(e) ==
    /\ e.node = "While"
    /\ e.cond \in Trees \/ IsTest(e.cond)
    /\ e.body \in Seq(Trees)
    /\ IsSeq(e.step)
    /\ \A s \in ToSet(e.step) : s.node = "ExprStmt" /\ IsStep(s.expr)
IsAgain(e) == e.node = "Again" /\ IsLoop(e.loop)

TodoOK(e) ==
    \/ e \in Trees
    \/ IsLeaf(e)
    \/ IsStep(e)
    \/ e.node = "ExprStmt" /\ (e.expr \in Trees \/ IsStep(e.expr))
    \/ IsTest(e)
    \/ IsLoop(e)
    \/ IsAgain(e)
    \/ e.node \in {"Combine", "AsTruth", "Happen", "SetVar", "Drop", "GiveBack"}
    \/ e.node = "Shortcut" /\ e.right \in Trees
    \/ e.node = "Choose" /\ IsSeq(e.then) /\ IsSeq(e.else)
                         /\ \A d \in ToSet(e.then) \cup ToSet(e.else) : d \in Trees \/ IsAgain(d)
    \/ e.node = "Iterate" /\ e.for \in Trees /\ e.for.node = "For"

SourceOK(s) ==
    /\ DOMAIN s = {"status", "todo", "env", "vals", "defers", "trace", "result"}
    /\ s.status \in {"run", "leave", "done"}
    /\ IsSeq(s.todo)
    /\ \A e \in ToSet(s.todo) : TodoOK(e)
    /\ s.defers \in Seq(Trees)

Running ==
    \/ running = 0 /\ machine = Idle /\ source = Idle
    \/ /\ running \in DOMAIN prog.funcs
       /\ pending = <<>>
       /\ MachineOK(machine, built[running].code, prog.funcs[running].naked)
       /\ SourceOK(source)

BuilderInv == Progress /\ Building /\ Running

(***************************************************************************)
(* Sequences.                                                              *)
(***************************************************************************)

\* What is known of a sequence: its length, its indices and its elements.
LEMMA SeqFacts ==
    ASSUME NEW s, IsSeq(s)
    PROVE  /\ Len(s) \in Nat
           /\ DOMAIN s = 1 .. Len(s)
           /\ \A i \in 1 .. Len(s) : s[i] \in ToSet(s)
           /\ \A x \in ToSet(s) : \E i \in 1 .. Len(s) : x = s[i]
           /\ s # <<>> => Len(s) >= 1
<1>1. s \in Seq(ToSet(s))
  BY DEF IsSeq
<1>2. Len(s) \in Nat /\ DOMAIN s = 1 .. Len(s)
  BY <1>1, LenProperties
<1>3. s # <<>> => Len(s) >= 1
  BY <1>1, EmptySeq
<1> QED
  BY <1>2, <1>3 DEF ToSet

\* A sequence over some set is a sequence.
LEMMA SeqIsSeq ==
    ASSUME NEW S, NEW s \in Seq(S)
    PROVE  IsSeq(s) /\ ToSet(s) \subseteq S
<1>1. Len(s) \in Nat /\ s \in [1 .. Len(s) -> S] /\ DOMAIN s = 1 .. Len(s)
  BY LenProperties
<1>2. ToSet(s) \subseteq S /\ s \in [1 .. Len(s) -> ToSet(s)]
  BY <1>1 DEF ToSet
<1>3. s \in Seq(ToSet(s))
  BY <1>1, <1>2, SeqDef
<1> QED
  BY <1>2, <1>3 DEF IsSeq

\* A sequence whose elements are in a set is a sequence over it.
LEMMA SeqOver ==
    ASSUME NEW S, NEW s, IsSeq(s), ToSet(s) \subseteq S
    PROVE  s \in Seq(S)
BY SeqMonotonic DEF IsSeq

\* Tuples of up to three elements, taken as sequences: their length, elements and range.
LEMMA TupleSeqs ==
    /\ IsSeq(<<>>) /\ ToSet(<<>>) = {} /\ Len(<<>>) = 0
    /\ \A a : IsSeq(<<a>>) /\ ToSet(<<a>>) = {a} /\ Len(<<a>>) = 1 /\ <<a>>[1] = a /\ <<a>> # <<>>
    /\ \A a, b : /\ IsSeq(<<a, b>>) /\ ToSet(<<a, b>>) = {a, b} /\ Len(<<a, b>>) = 2
                 /\ <<a, b>>[1] = a /\ <<a, b>>[2] = b /\ <<a, b>> # <<>>
    /\ \A a, b, c : /\ IsSeq(<<a, b, c>>) /\ ToSet(<<a, b, c>>) = {a, b, c}
                    /\ Len(<<a, b, c>>) = 3
                    /\ <<a, b, c>>[1] = a /\ <<a, b, c>>[2] = b /\ <<a, b, c>>[3] = c
                    /\ <<a, b, c>> # <<>>
<1>1. IsSeq(<<>>) /\ ToSet(<<>>) = {} /\ Len(<<>>) = 0
  BY DEF IsSeq, ToSet
<1>2. ASSUME NEW a
      PROVE  IsSeq(<<a>>) /\ ToSet(<<a>>) = {a} /\ Len(<<a>>) = 1 /\ <<a>>[1] = a /\ <<a>> # <<>>
  <2>1. ToSet(<<a>>) = {a}
    BY DEF ToSet
  <2> QED
    BY <2>1 DEF IsSeq
<1>3. ASSUME NEW a, NEW b
      PROVE  /\ IsSeq(<<a, b>>) /\ ToSet(<<a, b>>) = {a, b} /\ Len(<<a, b>>) = 2
             /\ <<a, b>>[1] = a /\ <<a, b>>[2] = b /\ <<a, b>> # <<>>
  <2>1. DOMAIN <<a, b>> = {1, 2}
    OBVIOUS
  <2>2. ToSet(<<a, b>>) = {a, b}
    BY <2>1 DEF ToSet
  <2> QED
    BY <2>2 DEF IsSeq
<1>4. ASSUME NEW a, NEW b, NEW c
      PROVE  /\ IsSeq(<<a, b, c>>) /\ ToSet(<<a, b, c>>) = {a, b, c} /\ Len(<<a, b, c>>) = 3
             /\ <<a, b, c>>[1] = a /\ <<a, b, c>>[2] = b /\ <<a, b, c>>[3] = c
             /\ <<a, b, c>> # <<>>
  <2>1. DOMAIN <<a, b, c>> = {1, 2, 3}
    OBVIOUS
  <2>2. ToSet(<<a, b, c>>) = {a, b, c}
    BY <2>1 DEF ToSet
  <2> QED
    BY <2>2 DEF IsSeq
<1> QED
  BY <1>1, <1>2, <1>3, <1>4

\* A concatenation, taken as a sequence: its length, its elements and its range.
LEMMA Joined ==
    ASSUME NEW a, NEW b, IsSeq(a), IsSeq(b)
    PROVE  /\ IsSeq(a \o b)
           /\ Len(a \o b) = Len(a) + Len(b)
           /\ \A i \in 1 .. Len(a) : (a \o b)[i] = a[i]
           /\ \A i \in 1 .. Len(b) : (a \o b)[Len(a) + i] = b[i]
           /\ \A i \in 1 .. Len(a) + Len(b) :
                 (a \o b)[i] = IF i <= Len(a) THEN a[i] ELSE b[i - Len(a)]
           /\ ToSet(a \o b) = ToSet(a) \cup ToSet(b)
<1> DEFINE S == ToSet(a) \cup ToSet(b)
<1>1. a \in Seq(S) /\ b \in Seq(S)
  BY SeqOver
<1>2. Len(a) \in Nat /\ Len(b) \in Nat /\ DOMAIN a = 1 .. Len(a) /\ DOMAIN b = 1 .. Len(b)
  BY SeqFacts
<1>3. /\ a \o b \in Seq(S)
      /\ Len(a \o b) = Len(a) + Len(b)
      /\ \A i \in 1 .. Len(a) + Len(b) : (a \o b)[i] = IF i <= Len(a) THEN a[i] ELSE b[i - Len(a)]
  BY <1>1, ConcatProperties
<1>4. IsSeq(a \o b)
  BY <1>3, SeqIsSeq
<1>5. \A i \in 1 .. Len(a) : (a \o b)[i] = a[i]
  BY <1>2, <1>3
<1>6. \A i \in 1 .. Len(b) : (a \o b)[Len(a) + i] = b[i]
  BY <1>2, <1>3
<1>7. DOMAIN (a \o b) = 1 .. Len(a) + Len(b)
  BY <1>3, <1>4, SeqFacts
<1>8. ToSet(a \o b) \subseteq S
  BY <1>3, <1>4, SeqIsSeq
<1>9. ASSUME NEW x \in ToSet(a) PROVE x \in ToSet(a \o b)
  <2>1. PICK i \in 1 .. Len(a) : x = a[i]
    BY SeqFacts
  <2> QED
    BY <2>1, <1>2, <1>5, <1>7 DEF ToSet
<1>10. ASSUME NEW x \in ToSet(b) PROVE x \in ToSet(a \o b)
  <2>1. PICK i \in 1 .. Len(b) : x = b[i]
    BY SeqFacts
  <2>2. Len(a) + i \in 1 .. Len(a) + Len(b)
    BY <1>2
  <2> QED
    BY <2>1, <2>2, <1>6, <1>7 DEF ToSet
<1> QED
  BY <1>3, <1>4, <1>5, <1>6, <1>8, <1>9, <1>10

\* Append is the concatenation with a tuple of one element.
LEMMA Appended ==
    ASSUME NEW a, NEW x, IsSeq(a)
    PROVE  /\ Append(a, x) = a \o <<x>>
           /\ IsSeq(Append(a, x))
           /\ ToSet(Append(a, x)) = ToSet(a) \cup {x}
           /\ Len(Append(a, x)) = Len(a) + 1
           /\ \A i \in 1 .. Len(a) : Append(a, x)[i] = a[i]
           /\ Append(a, x)[Len(a) + 1] = x
<1>1. a \in Seq(ToSet(a) \cup {x})
  BY SeqOver
<1>2. Append(a, x) = a \o <<x>>
  BY <1>1, AppendIsConcat
<1>3. Len(a) \in Nat
  BY SeqFacts
<1> QED
  BY <1>2, <1>3, Joined, TupleSeqs

\* The head and the tail of a non-empty sequence, element by element.
LEMMA HeadAndTail ==
    ASSUME NEW s, IsSeq(s), s # <<>>
    PROVE  /\ Head(s) = s[1] /\ s[1] \in ToSet(s)
           /\ IsSeq(Tail(s))
           /\ Len(Tail(s)) = Len(s) - 1
           /\ \A i \in 1 .. Len(s) - 1 : Tail(s)[i] = s[i + 1]
           /\ ToSet(Tail(s)) \subseteq ToSet(s)
           /\ ToSet(s) \subseteq {s[1]} \cup ToSet(Tail(s))
<1>1. s \in Seq(ToSet(s))
  BY DEF IsSeq
<1>2. /\ Len(s) \in Nat /\ Len(s) >= 1 /\ DOMAIN s = 1 .. Len(s)
  BY SeqFacts
<1>3. /\ Tail(s) \in Seq(ToSet(s)) /\ Len(Tail(s)) = Len(s) - 1
      /\ \A i \in 1 .. Len(Tail(s)) : Tail(s)[i] = s[i + 1]
  BY <1>1, HeadTailProperties
<1>4. IsSeq(Tail(s)) /\ ToSet(Tail(s)) \subseteq ToSet(s)
  BY <1>3, SeqIsSeq
<1>5. Head(s) = s[1] /\ s[1] \in ToSet(s)
  BY <1>1, <1>2 DEF ToSet
<1>6. ASSUME NEW x \in ToSet(s), x # s[1] PROVE x \in ToSet(Tail(s))
  <2>1. PICK i \in 1 .. Len(s) : x = s[i]
    BY SeqFacts
  <2>2. i - 1 \in 1 .. Len(s) - 1
    BY <1>2, <1>6, <2>1
  <2>3. Tail(s)[i - 1] = x
    BY <1>2, <1>3, <2>1, <2>2
  <2> QED
    BY <1>3, <1>4, <2>2, <2>3, SeqFacts
<1> QED
  BY <1>3, <1>4, <1>5, <1>6

(***************************************************************************)
(* Blocks.                                                                 *)
(***************************************************************************)

\* The targets of two pieces of code are those of one or the other.
LEMMA JoinedTargets ==
    ASSUME NEW c, NEW d, IsSeq(c), IsSeq(d)
    PROVE  Targets(c \o d) = Targets(c) \cup Targets(d)
<1>1. /\ Len(c) \in Nat /\ Len(d) \in Nat
      /\ DOMAIN c = 1 .. Len(c) /\ DOMAIN d = 1 .. Len(d)
      /\ DOMAIN (c \o d) = 1 .. Len(c) + Len(d)
  BY SeqFacts, Joined
<1>2. ASSUME NEW x \in Targets(c \o d) PROVE x \in Targets(c) \cup Targets(d)
  <2>1. PICK j \in 1 .. Len(c) + Len(d) : x \in ToSet((c \o d)[j].to)
    BY <1>1 DEF Targets
  <2>2. CASE j <= Len(c)
    <3>1. j \in 1 .. Len(c) /\ (c \o d)[j] = c[j]
      BY <1>1, <2>2, Joined
    <3> QED
      BY <1>1, <2>1, <3>1 DEF Targets
  <2>3. CASE j > Len(c)
    <3>1. j - Len(c) \in 1 .. Len(d) /\ (c \o d)[j] = d[j - Len(c)]
      BY <1>1, <2>3, Joined
    <3> QED
      BY <1>1, <2>1, <3>1 DEF Targets
  <2> QED
    BY <1>1, <2>2, <2>3
<1>3. ASSUME NEW x \in Targets(c) PROVE x \in Targets(c \o d)
  <2>1. PICK j \in 1 .. Len(c) : x \in ToSet(c[j].to)
    BY <1>1 DEF Targets
  <2>2. j \in 1 .. Len(c) + Len(d) /\ (c \o d)[j] = c[j]
    BY <1>1, Joined
  <2> QED
    BY <1>1, <2>1, <2>2 DEF Targets
<1>4. ASSUME NEW x \in Targets(d) PROVE x \in Targets(c \o d)
  <2>1. PICK j \in 1 .. Len(d) : x \in ToSet(d[j].to)
    BY <1>1 DEF Targets
  <2>2. Len(c) + j \in 1 .. Len(c) + Len(d) /\ (c \o d)[Len(c) + j] = d[j]
    BY <1>1, Joined
  <2> QED
    BY <1>1, <2>1, <2>2 DEF Targets
<1> QED
  BY <1>2, <1>3, <1>4

\* Code ends the way its second part does.
LEMMA JoinedEnds ==
    ASSUME NEW c, NEW d, IsSeq(c), IsSeq(d), Ends(d)
    PROVE  Ends(c \o d)
<1>1. Len(c) \in Nat /\ Len(d) \in Nat /\ Len(d) > 0
  BY SeqFacts DEF Ends
<1>2. Len(c \o d) = Len(c) + Len(d) /\ (c \o d)[Len(c) + Len(d)] = d[Len(d)]
  BY <1>1, Joined
<1> QED
  BY <1>1, <1>2 DEF Ends

\* Where control leaves two pieces of code that are each in order.
LEMMA JoinedExits ==
    ASSUME NEW c, NEW d, NEW naked, IsSeq(c), IsSeq(d), ExitsOK(c, naked), ExitsOK(d, naked)
    PROVE  ExitsOK(c \o d, naked)
<1> DEFINE s == c \o d
<1>1. Len(c) \in Nat /\ Len(d) \in Nat /\ Len(s) = Len(c) + Len(d)
  BY SeqFacts, Joined
<1>2. /\ \A i \in 1 .. Len(c) : s[i] = c[i]
      /\ \A i \in 1 .. Len(d) : s[Len(c) + i] = d[i]
  BY Joined
<1> HIDE DEF s
<1>3. ASSUME NEW j \in 1 .. Len(s)
      PROVE  /\ s[j].op = "RegionExit" => ~naked /\ j < Len(s) /\ s[j + 1].op = "Return"
             /\ s[j].op = "Return" /\ ~naked => j > 1 /\ s[j - 1].op = "RegionExit"
  <2>1. CASE j <= Len(c)
    <3>1. j \in 1 .. Len(c) /\ s[j] = c[j]
      BY <1>1, <1>2, <2>1
    <3>2. s[j].op = "RegionExit" => ~naked /\ j < Len(c) /\ c[j + 1].op = "Return"
      BY <3>1 DEF ExitsOK
    <3>3. j < Len(c) => s[j + 1] = c[j + 1]
      BY <1>1, <1>2, <3>1
    <3>4. s[j].op = "Return" /\ ~naked => j > 1 /\ c[j - 1].op = "RegionExit"
      BY <3>1 DEF ExitsOK
    <3>5. j > 1 => s[j - 1] = c[j - 1]
      BY <1>1, <1>2, <3>1
    <3> QED
      BY <1>1, <3>1, <3>2, <3>3, <3>4, <3>5
  <2>2. CASE j > Len(c)
    <3> DEFINE k == j - Len(c)
    <3>1. k \in 1 .. Len(d) /\ j = Len(c) + k
      BY <1>1, <2>2
    <3> HIDE DEF k
    <3>2. s[j] = d[k]
      BY <1>2, <3>1
    <3>3. s[j].op = "RegionExit" => ~naked /\ k < Len(d) /\ d[k + 1].op = "Return"
      BY <3>1, <3>2 DEF ExitsOK
    <3>4. k < Len(d) => s[j + 1] = d[k + 1]
      <4>1. k < Len(d) => k + 1 \in 1 .. Len(d) /\ j + 1 = Len(c) + (k + 1)
        BY <1>1, <3>1
      <4> QED
        BY <1>2, <4>1
    <3>5. s[j].op = "Return" /\ ~naked => k > 1 /\ d[k - 1].op = "RegionExit"
      BY <3>1, <3>2 DEF ExitsOK
    <3>6. k > 1 => s[j - 1] = d[k - 1]
      <4>1. k > 1 => k - 1 \in 1 .. Len(d) /\ j - 1 = Len(c) + (k - 1)
        BY <1>1, <3>1
      <4> QED
        BY <1>2, <4>1
    <3> QED
      BY <1>1, <3>1, <3>2, <3>3, <3>4, <3>5, <3>6, SMTT(40)
  <2> QED
    BY <1>1, <2>1, <2>2
<1> QED
  BY <1>3 DEF ExitsOK, s

\* A concatenation of instruction sequences is an instruction sequence.
LEMMA JoinedInsts ==
    ASSUME NEW c, NEW d, IsSeq(c), IsSeq(d),
           \A j \in 1 .. Len(c) : IsInst(c[j]), \A j \in 1 .. Len(d) : IsInst(d[j])
    PROVE  \A j \in 1 .. Len(c \o d) : IsInst((c \o d)[j])
<1>1. Len(c) \in Nat /\ Len(d) \in Nat /\ Len(c \o d) = Len(c) + Len(d)
  BY SeqFacts, Joined
<1>2. \A j \in 1 .. Len(c) + Len(d) :
         \/ j \in 1 .. Len(c) /\ (c \o d)[j] = c[j]
         \/ j - Len(c) \in 1 .. Len(d) /\ (c \o d)[j] = d[j - Len(c)]
  BY <1>1, Joined
<1> QED
  BY <1>1, <1>2

\* A block stays in order when code is appended to it.
LEMMA BlockGrows ==
    ASSUME NEW c, NEW d, NEW l, NEW naked, BlockOK(c, l, naked), ChunkOK(d, naked)
    PROVE  BlockOK(c \o d, l, naked)
<1>1. IsSeq(c) /\ IsSeq(d)
  BY DEF BlockOK, ChunkOK
<1>2. Len(c) \in Nat /\ Len(d) \in Nat /\ IsSeq(c \o d) /\ Len(c \o d) = Len(c) + Len(d)
  BY <1>1, SeqFacts, Joined
<1>3. \A j \in 1 .. Len(c \o d) : IsInst((c \o d)[j])
  BY <1>1, JoinedInsts DEF BlockOK, ChunkOK
<1>4. ExitsOK(c \o d, naked)
  BY <1>1, JoinedExits DEF BlockOK, ChunkOK
<1>5. ASSUME NEW j \in 1 .. Len(c \o d), (c \o d)[j].op = "RegionEnter"
      PROVE  l = Entry /\ ~naked /\ \A i \in 1 .. j - 1 : (c \o d)[i].op = "Phi"
  <2>1. j <= Len(c)
    <3>1. SUFFICES ASSUME j > Len(c) PROVE FALSE
      BY <1>2
    <3>2. j - Len(c) \in 1 .. Len(d) /\ (c \o d)[j] = d[j - Len(c)]
      BY <1>1, <1>2, <3>1, Joined
    <3> QED
      BY <1>5, <3>2 DEF ChunkOK
  <2>2. j \in 1 .. Len(c) /\ (c \o d)[j] = c[j]
    BY <1>1, <1>2, <2>1, Joined
  <2>3. l = Entry /\ ~naked /\ \A i \in 1 .. j - 1 : c[i].op = "Phi"
    BY <1>5, <2>2 DEF BlockOK, EntersOK
  <2>4. \A i \in 1 .. j - 1 : (c \o d)[i] = c[i]
    BY <1>1, <1>2, <2>2, Joined
  <2> QED
    BY <2>3, <2>4
<1>6. ASSUME l = Entry, ~naked
      PROVE  \E j \in 1 .. Len(c \o d) : (c \o d)[j].op = "RegionEnter"
  <2>1. PICK j \in 1 .. Len(c) : c[j].op = "RegionEnter"
    BY <1>6 DEF BlockOK, EntersOK
  <2>2. j \in 1 .. Len(c \o d) /\ (c \o d)[j] = c[j]
    BY <1>1, <1>2, Joined
  <2> QED
    BY <2>1, <2>2
<1> QED
  BY <1>2, <1>3, <1>4, <1>5, <1>6 DEF BlockOK, EntersOK

\* Phi nodes in front of a block.
LEMMA PhisInFront ==
    ASSUME NEW p, NEW c, NEW l, NEW naked, IsSeq(p), BlockOK(c, l, naked), Ends(c),
           \A j \in 1 .. Len(p) : p[j].op = "Phi" /\ p[j].to = <<>>
    PROVE  BlockOK(p \o c, l, naked) /\ Ends(p \o c) /\ Targets(p \o c) = Targets(c)
<1>1. IsSeq(c)
  BY DEF BlockOK
<1>2. /\ Len(p) \in Nat /\ Len(c) \in Nat /\ DOMAIN p = 1 .. Len(p)
      /\ IsSeq(p \o c) /\ Len(p \o c) = Len(p) + Len(c)
  BY <1>1, SeqFacts, Joined
<1>3. \A j \in 1 .. Len(p) : IsInst(p[j])
  BY EmptySeq DEF IsInst
<1>4. \A j \in 1 .. Len(p \o c) : IsInst((p \o c)[j])
  BY <1>1, <1>3, JoinedInsts DEF BlockOK
<1>5. ExitsOK(p \o c, naked)
  <2>1. ExitsOK(p, naked)
    BY DEF ExitsOK
  <2> QED
    BY <1>1, <2>1, JoinedExits DEF BlockOK
<1>6. ASSUME NEW j \in 1 .. Len(p \o c), (p \o c)[j].op = "RegionEnter"
      PROVE  l = Entry /\ ~naked /\ \A i \in 1 .. j - 1 : (p \o c)[i].op = "Phi"
  <2>1. \A i \in 1 .. Len(p) : (p \o c)[i].op = "Phi"
    BY <1>1, Joined
  <2>2. j > Len(p)
    BY <1>2, <1>6, <2>1
  <2> DEFINE k == j - Len(p)
  <2>3. k \in 1 .. Len(c) /\ (p \o c)[j] = c[k]
    BY <1>1, <1>2, <2>2, Joined
  <2>4. l = Entry /\ ~naked /\ \A i \in 1 .. k - 1 : c[i].op = "Phi"
    BY <1>6, <2>3 DEF BlockOK, EntersOK
  <2>5. ASSUME NEW i \in 1 .. j - 1, i > Len(p) PROVE (p \o c)[i].op = "Phi"
    <3>1. i - Len(p) \in 1 .. k - 1 /\ i \in 1 .. Len(p) + Len(c)
      BY <1>2, <2>3, <2>5
    <3>2. (p \o c)[i] = c[i - Len(p)]
      BY <1>1, <1>2, <2>5, <3>1, Joined
    <3> QED
      BY <2>4, <3>1, <3>2
  <2>6. ASSUME NEW i \in 1 .. j - 1, i <= Len(p) PROVE (p \o c)[i].op = "Phi"
    BY <1>2, <2>1, <2>6
  <2> QED
    BY <1>2, <2>4, <2>5, <2>6
<1>7. ASSUME l = Entry, ~naked
      PROVE  \E j \in 1 .. Len(p \o c) : (p \o c)[j].op = "RegionEnter"
  <2>1. PICK j \in 1 .. Len(c) : c[j].op = "RegionEnter"
    BY <1>7 DEF BlockOK, EntersOK
  <2>2. Len(p) + j \in 1 .. Len(p \o c) /\ (p \o c)[Len(p) + j] = c[j]
    BY <1>1, <1>2, Joined
  <2> QED
    BY <2>1, <2>2
<1>8. Ends(p \o c)
  BY <1>1, JoinedEnds
<1>9. Targets(p) = {}
  BY <1>2, TupleSeqs DEF Targets
<1>10. Targets(p \o c) = Targets(c)
  BY <1>1, <1>9, JoinedTargets
<1> QED
  BY <1>2, <1>4, <1>5, <1>6, <1>7, <1>8, <1>10 DEF BlockOK, EntersOK

(***************************************************************************)
(* The work list.                                                          *)
(***************************************************************************)

\* A concatenation opens the blocks its two parts open.
LEMMA JoinedOpens ==
    ASSUME NEW a, NEW b, IsSeq(a), IsSeq(b)
    PROVE  Opens(a \o b) = Opens(a) \cup Opens(b)
<1>1. ToSet(a \o b) = ToSet(a) \cup ToSet(b)
  BY Joined
<1> QED
  BY <1>1, Zenon DEF Opens

\* Two chains make a chain when what the second needs first the first does last.
LEMMA JoinedChain ==
    ASSUME NEW a, NEW b, IsSeq(a), IsSeq(b), Chain(a), Chain(b),
           b # <<>> /\ NeedsClosed(b[1]) => a = <<>> \/ Closes(a[Len(a)])
    PROVE  Chain(a \o b)
<1> DEFINE s == a \o b
<1>1. /\ Len(a) \in Nat /\ Len(b) \in Nat /\ Len(s) = Len(a) + Len(b)
      /\ a = <<>> => Len(a) = 0
      /\ b = <<>> => Len(b) = 0
  BY SeqFacts, Joined, TupleSeqs
<1>2. /\ \A i \in 1 .. Len(a) : s[i] = a[i]
      /\ \A i \in 1 .. Len(b) : s[Len(a) + i] = b[i]
  BY Joined
<1> HIDE DEF s
<1>3. ASSUME NEW j \in 2 .. Len(s), NeedsClosed(s[j]) PROVE Closes(s[j - 1])
  <2>1. CASE j <= Len(a)
    <3>1. j \in 2 .. Len(a) /\ s[j] = a[j] /\ s[j - 1] = a[j - 1]
      BY <1>1, <1>2, <2>1
    <3> QED
      BY <1>3, <3>1 DEF Chain
  <2>2. CASE j = Len(a) + 1
    <3>1. b # <<>> /\ a # <<>> /\ s[j] = b[1] /\ s[j - 1] = a[Len(a)]
      BY <1>1, <1>2, <2>2
    <3> QED
      BY <1>3, <3>1
  <2>3. CASE j > Len(a) + 1
    <3> DEFINE k == j - Len(a)
    <3>1. k \in 2 .. Len(b) /\ j = Len(a) + k /\ j - 1 = Len(a) + (k - 1)
      BY <1>1, <2>3
    <3> HIDE DEF k
    <3>2. s[j] = b[k] /\ s[j - 1] = b[k - 1]
      BY <1>1, <1>2, <3>1
    <3> QED
      BY <1>3, <3>1, <3>2 DEF Chain
  <2> QED
    BY <1>1, <2>1, <2>2, <2>3
<1> QED
  BY <1>3 DEF Chain, s

\* Two parts that open no block in common, each none twice, open none twice together.
LEMMA JoinedOnce ==
    ASSUME NEW a, NEW b, IsSeq(a), IsSeq(b), Once(a), Once(b), Opens(a) \cap Opens(b) = {}
    PROVE  Once(a \o b)
<1> DEFINE s == a \o b
<1>1. Len(a) \in Nat /\ Len(b) \in Nat /\ Len(s) = Len(a) + Len(b)
  BY SeqFacts, Joined
<1>2. \A i \in 1 .. Len(s) :
         \/ i \in 1 .. Len(a) /\ s[i] = a[i]
         \/ i - Len(a) \in 1 .. Len(b) /\ s[i] = b[i - Len(a)]
  BY <1>1, Joined
<1>3. \A i \in 1 .. Len(a) : a[i].node = "OpenBlock" => a[i].label \in Opens(a)
  BY SeqFacts DEF Opens
<1>4. \A i \in 1 .. Len(b) : b[i].node = "OpenBlock" => b[i].label \in Opens(b)
  BY SeqFacts DEF Opens
<1> HIDE DEF s
<1>5. ASSUME NEW j \in 1 .. Len(s), NEW k \in 1 .. Len(s),
             s[j].node = "OpenBlock", s[k].node = "OpenBlock", s[j].label = s[k].label
      PROVE  j = k
  <2>1. CASE j \in 1 .. Len(a) /\ s[j] = a[j] /\ k \in 1 .. Len(a) /\ s[k] = a[k]
    BY <1>5, <2>1 DEF Once
  <2>2. CASE /\ j - Len(a) \in 1 .. Len(b) /\ s[j] = b[j - Len(a)]
             /\ k - Len(a) \in 1 .. Len(b) /\ s[k] = b[k - Len(a)]
    <3>1. j - Len(a) = k - Len(a)
      BY <1>5, <2>2 DEF Once
    <3> QED
      BY <1>1, <3>1
  <2>3. CASE j \in 1 .. Len(a) /\ s[j] = a[j] /\ k - Len(a) \in 1 .. Len(b) /\ s[k] = b[k - Len(a)]
    BY <1>3, <1>4, <1>5, <2>3
  <2>4. CASE k \in 1 .. Len(a) /\ s[k] = a[k] /\ j - Len(a) \in 1 .. Len(b) /\ s[j] = b[j - Len(a)]
    BY <1>3, <1>4, <1>5, <2>4, SMTT(40)
  <2> QED
    BY <1>2, <2>1, <2>2, <2>3, <2>4
<1> QED
  BY <1>5 DEF Once, s

\* The rest of a work list is in order as the list was.
LEMMA RestOfWork ==
    ASSUME NEW f, NEW w, NEW naked, WorkOK(f, w, naked), w # <<>>
    PROVE  /\ IsSeq(Tail(w)) /\ Chain(Tail(w)) /\ Once(Tail(w))
           /\ \A i \in ToSet(Tail(w)) : ItemOK(i, naked)
           /\ \A j \in 1 .. Len(Tail(w)) : Tail(w)[j].node \in {"Finish", "Phis"} => j = Len(Tail(w))
           /\ Tail(w) # <<>> /\ NeedsClosed(Tail(w)[1]) => Closes(w[1])
           /\ Opens(Tail(w)) \subseteq Opens(w)
           /\ w[1].node # "OpenBlock" => Opens(w) = Opens(Tail(w))
           /\ w[1].node = "OpenBlock" => /\ Opens(w) = {w[1].label} \cup Opens(Tail(w))
                                         /\ w[1].label \notin Opens(Tail(w))
           /\ Len(w) = 1 => Tail(w) = <<>>
<1> DEFINE t == Tail(w)
<1>1. IsSeq(w)
  BY DEF WorkOK
<1>2. /\ IsSeq(t) /\ Len(t) = Len(w) - 1 /\ Len(w) \in Nat /\ Len(w) >= 1 /\ Len(t) \in Nat
      /\ \A i \in 1 .. Len(t) : t[i] = w[i + 1] /\ i + 1 \in 1 .. Len(w)
      /\ ToSet(t) \subseteq ToSet(w) /\ ToSet(w) \subseteq {w[1]} \cup ToSet(t)
      /\ w[1] \in ToSet(w)
      /\ t # <<>> => Len(t) >= 1
  BY <1>1, HeadAndTail, SeqFacts
<1> HIDE DEF t
<1>3. Chain(t)
  <2>1. \A j \in 2 .. Len(t) : j + 1 \in 2 .. Len(w) /\ t[j] = w[j + 1] /\ t[j - 1] = w[j]
    BY <1>2
  <2>2. \A j \in 2 .. Len(t) : NeedsClosed(w[j + 1]) => Closes(w[(j + 1) - 1])
    BY <2>1 DEF WorkOK, Chain
  <2>3. \A j \in 2 .. Len(t) : (j + 1) - 1 = j
    BY <1>2
  <2> QED
    BY <2>1, <2>2, <2>3 DEF Chain
<1>4. Once(t)
  <2>1. ASSUME NEW j \in 1 .. Len(t), NEW k \in 1 .. Len(t),
               t[j].node = "OpenBlock", t[k].node = "OpenBlock", t[j].label = t[k].label
        PROVE  j = k
    <3>1. j + 1 = k + 1
      BY <1>2, <2>1 DEF WorkOK, Once
    <3> QED
      BY <3>1
  <2> QED
    BY <2>1 DEF Once
<1>5. \A i \in ToSet(t) : ItemOK(i, naked)
  BY <1>2 DEF WorkOK
<1>6. \A j \in 1 .. Len(t) : t[j].node \in {"Finish", "Phis"} => j = Len(t)
  BY <1>2 DEF WorkOK
<1>7. t # <<>> /\ NeedsClosed(t[1]) => Closes(w[1])
  <2>1. t # <<>> => 2 \in 2 .. Len(w) /\ t[1] = w[2]
    BY <1>2
  <2>2. t # <<>> => (NeedsClosed(w[2]) => Closes(w[2 - 1]))
    BY <2>1 DEF WorkOK, Chain
  <2> QED
    BY <2>1, <2>2
<1>8. Opens(t) \subseteq Opens(w)
  BY <1>2 DEF Opens
<1>9. w[1].node # "OpenBlock" => Opens(w) = Opens(t)
  BY <1>2 DEF Opens
<1>10. ASSUME w[1].node = "OpenBlock"
       PROVE  Opens(w) = {w[1].label} \cup Opens(t) /\ w[1].label \notin Opens(t)
  <2>1. Opens(w) = {w[1].label} \cup Opens(t)
    BY <1>2, <1>10 DEF Opens
  <2>2. SUFFICES ASSUME w[1].label \in Opens(t) PROVE FALSE
    BY <2>1
  <2>3. PICK x \in ToSet(t) : x.node = "OpenBlock" /\ x.label = w[1].label
    BY <2>2 DEF Opens
  <2>4. PICK j \in 1 .. Len(t) : x = t[j]
    BY <1>2, SeqFacts
  <2>5. w[j + 1].node = "OpenBlock" /\ w[j + 1].label = w[1].label /\ 1 \in 1 .. Len(w)
    BY <1>2, <2>3, <2>4
  <2>6. j + 1 = 1
    BY <1>2, <1>10, <2>5 DEF WorkOK, Once
  <2> QED
    BY <2>6
<1>11. Len(w) = 1 => t = <<>>
  BY <1>2
<1> QED
  BY <1>2, <1>3, <1>4, <1>5, <1>6, <1>7, <1>8, <1>9, <1>10, <1>11, ZenonT(60) DEF t

(***************************************************************************)
(* What most actions do: they append code to the current block, may take   *)
(* label numbers, and put items in place of the first one.                 *)
(***************************************************************************)
Emits(f, g, insts) ==
    /\ DOMAIN g = Fields
    /\ g.order = f.order
    /\ g.cur = f.cur
    /\ g.labels \in Nat /\ g.labels >= f.labels
    /\ DOMAIN g.code = DOMAIN f.code
    /\ \A l \in DOMAIN f.code : g.code[l] = IF l = f.cur THEN f.code[l] \o insts ELSE f.code[l]
    /\ g.defers \in Seq(Trees)
    /\ IsFiniteSet(g.defs)
    /\ \A d \in g.defs : d \in f.defs \/ d[2] = f.cur
    /\ g.params = f.params
    /\ f.defs \subseteq g.defs /\ Defined(f, insts) \subseteq g.defs

\* A function state stays well formed when a well-formed chunk is added to its current
\* block.
LEMMA FnGrows ==
    ASSUME NEW f, NEW g, NEW insts, NEW naked,
           FnOK(f, naked), Emits(f, g, insts), ChunkOK(insts, naked)
    PROVE  FnOK(g, naked)
<1>1. LayoutOK(g)
  BY DEF FnOK, LayoutOK, Emits
<1>2. DOMAIN g.code \subseteq {Entry} \cup NumberedFrom(0, g.labels)
  <2>1. NumberedFrom(0, f.labels) \subseteq NumberedFrom(0, g.labels)
    BY DEF FnOK, Emits, NumberedFrom
  <2> QED
    BY <2>1 DEF FnOK, Emits
<1>3. ASSUME NEW l \in DOMAIN g.code
      PROVE  BlockOK(g.code[l], l, naked) /\ (l # g.cur => Ends(g.code[l]))
  <2>1. BlockOK(f.code[l], l, naked) /\ (l # f.cur => Ends(f.code[l]))
    BY DEF FnOK, Emits
  <2>2. CASE l = f.cur
    BY <2>1, <2>2, BlockGrows DEF Emits
  <2>3. CASE l # f.cur
    BY <2>1, <2>3 DEF Emits
  <2> QED
    BY <2>2, <2>3
<1> QED
  BY <1>1, <1>2, <1>3 DEF FnOK, Emits

\* The builder's stack keeps its promises when its first item is replaced by items that
\* keep theirs and open only freshly numbered blocks: the one argument behind every
\* statement the builder lowers.
LEMMA WorkAdvances ==
    ASSUME NEW f, NEW g, NEW insts, NEW naked, NEW w, NEW items,
           FnOK(f, naked), WorkOK(f, w, naked), w # <<>>, w[1].node # "OpenBlock",
           Emits(f, g, insts), ChunkOK(insts, naked),
           IsSeq(items), Chain(items), Once(items),
           \A i \in ToSet(items) : ItemOK(i, naked),
           \A j \in 1 .. Len(items) :
               items[j].node \in {"Finish", "Phis"} => j = Len(items) /\ Len(w) = 1,
           items # <<>> /\ NeedsClosed(items[1]) => Ends(g.code[g.cur]),
           Closes(w[1]) => items = <<>> /\ Ends(g.code[g.cur]),
           Opens(items) \subseteq NumberedFrom(f.labels, g.labels),
           Targets(insts) \subseteq DOMAIN f.code \cup Opens(w) \cup Opens(items),
           \A i \in ToSet(items) : Mentions(i) \subseteq DOMAIN f.code \cup Opens(w) \cup Opens(items)
    PROVE  FnOK(g, naked) /\ WorkOK(g, items \o Tail(w), naked)
<1> DEFINE t == Tail(w)
           v == items \o t
<1>1. FnOK(g, naked)
  BY FnGrows
<1>2. /\ IsSeq(t) /\ Chain(t) /\ Once(t)
      /\ \A i \in ToSet(t) : ItemOK(i, naked)
      /\ \A j \in 1 .. Len(t) : t[j].node \in {"Finish", "Phis"} => j = Len(t)
      /\ t # <<>> /\ NeedsClosed(t[1]) => Closes(w[1])
      /\ Opens(w) = Opens(t)
      /\ Len(w) = 1 => t = <<>>
  BY RestOfWork
<1>3. IsSeq(w) /\ ToSet(t) \subseteq ToSet(w)
  BY HeadAndTail DEF WorkOK
<1> HIDE DEF t
<1>4. /\ IsSeq(v) /\ Len(items) \in Nat /\ Len(t) \in Nat
      /\ Len(v) = Len(items) + Len(t)
      /\ \A i \in 1 .. Len(v) : v[i] = IF i <= Len(items) THEN items[i] ELSE t[i - Len(items)]
      /\ ToSet(v) = ToSet(items) \cup ToSet(t)
  BY <1>2, Joined, SeqFacts
<1>5. Opens(v) = Opens(items) \cup Opens(t)
  BY <1>2, JoinedOpens
<1>6. Chain(v)
  BY <1>2, JoinedChain
<1>7. Opens(items) \cap Opens(t) = {}
  <2>1. Opens(t) \subseteq NumberedFrom(0, f.labels)
    BY <1>2 DEF WorkOK
  <2>2. NumberedFrom(0, f.labels) \cap NumberedFrom(f.labels, g.labels) = {}
    BY DEF NumberedFrom, FnOK, Emits
  <2> QED
    BY <2>1, <2>2
<1>8. Once(v)
  BY <1>2, <1>7, JoinedOnce
<1>9. v # <<>> /\ NeedsClosed(v[1]) => Ends(g.code[g.cur])
  <2>1. CASE items = <<>>
    <3>1. v = t
      BY <1>2, <2>1, ConcatEmptySeq DEF IsSeq
    <3> QED
      BY <1>2, <3>1
  <2>2. CASE items # <<>>
    <3>1. v[1] = items[1]
      BY <1>4, <2>2, SeqFacts
    <3> QED
      BY <2>2, <3>1
  <2> QED
    BY <2>1, <2>2, SMTT(40)
<1>10. Opens(v) \subseteq NumberedFrom(0, g.labels) \ DOMAIN g.code
  <2>1. Opens(t) \subseteq NumberedFrom(0, f.labels) \ DOMAIN f.code
    BY <1>2 DEF WorkOK
  <2>2. NumberedFrom(0, f.labels) \subseteq NumberedFrom(0, g.labels)
    BY DEF FnOK, Emits, NumberedFrom
  <2>3. NumberedFrom(f.labels, g.labels) \subseteq NumberedFrom(0, g.labels)
    BY DEF FnOK, Emits, NumberedFrom
  <2>4. NumberedFrom(f.labels, g.labels) \cap ({Entry} \cup NumberedFrom(0, f.labels)) = {}
    BY DEF FnOK, Emits, NumberedFrom, Entry, LabelKinds
  <2>5. NumberedFrom(f.labels, g.labels) \cap DOMAIN f.code = {}
    BY <2>4 DEF FnOK
  <2>6. DOMAIN g.code = DOMAIN f.code
    BY DEF Emits
  <2> QED
    BY <1>5, <2>1, <2>2, <2>3, <2>5, <2>6
<1>11. ASSUME NEW l \in DOMAIN g.code
       PROVE  Targets(g.code[l]) \subseteq DOMAIN g.code \cup Opens(v)
  <2>1. l \in DOMAIN f.code /\ DOMAIN g.code = DOMAIN f.code
    BY DEF Emits
  <2>2. Targets(f.code[l]) \subseteq DOMAIN f.code \cup Opens(w)
    BY <2>1 DEF WorkOK
  <2>3. CASE l # f.cur
    BY <1>2, <1>5, <2>1, <2>2, <2>3 DEF Emits
  <2>4. CASE l = f.cur
    <3>1. g.code[l] = f.code[l] \o insts
      BY <2>1, <2>4 DEF Emits
    <3>2. IsSeq(f.code[l]) /\ IsSeq(insts)
      BY <2>1 DEF FnOK, BlockOK, ChunkOK
    <3>3. Targets(g.code[l]) = Targets(f.code[l]) \cup Targets(insts)
      BY <3>1, <3>2, JoinedTargets
    <3> QED
      BY <1>2, <1>5, <2>1, <2>2, <3>3
  <2> QED
    BY <2>3, <2>4
<1>12. ASSUME NEW i \in ToSet(v) PROVE Mentions(i) \subseteq DOMAIN g.code \cup Opens(v)
  <2>1. DOMAIN g.code = DOMAIN f.code
    BY DEF Emits
  <2>2. CASE i \in ToSet(items)
    BY <1>2, <1>5, <2>1, <2>2
  <2>3. CASE i \in ToSet(t)
    BY <1>2, <1>3, <1>5, <2>1, <2>3 DEF WorkOK
  <2> QED
    BY <1>4, <2>2, <2>3
<1>13. ASSUME NEW j \in 1 .. Len(v), v[j].node \in {"Finish", "Phis"} PROVE j = Len(v)
  <2>1. CASE j <= Len(items)
    <3>1. j \in 1 .. Len(items) /\ v[j] = items[j]
      BY <1>4, <2>1
    <3>2. j = Len(items)
      BY <1>13, <3>1
    <3>3. Len(t) = 0
      BY <1>2, <1>13, <3>1, TupleSeqs, SMTT(40)
    <3>4. Len(v) = Len(items) + 0
      BY <1>4, <3>3
    <3> QED
      BY <1>4, <3>2, <3>4
  <2>2. CASE j > Len(items)
    <3>1. j - Len(items) \in 1 .. Len(t) /\ v[j] = t[j - Len(items)]
      BY <1>4, <2>2
    <3>2. j - Len(items) = Len(t)
      BY <1>2, <1>13, <3>1
    <3> QED
      BY <1>4, <3>2
  <2> QED
    BY <1>4, <2>1, <2>2
<1>14. \A i \in ToSet(v) : ItemOK(i, naked)
  BY <1>2, <1>4
<1> HIDE DEF v
<1>15. WorkOK(g, v, naked)
  BY <1>4, <1>6, <1>8, <1>9, <1>10, <1>11, <1>12, <1>13, <1>14 DEF WorkOK
<1> QED
  BY <1>1, <1>15 DEF t, v

(***************************************************************************)
(* Blocks are opened only after a jump to them.                            *)
(***************************************************************************)

\* A promise kept by some jumps is kept by more.
LEMMA PromisedMore ==
    ASSUME NEW s, NEW G, NEW H, Promised(s, G), G \subseteq H
    PROVE  Promised(s, H)
BY DEF Promised

\* The promises of a list are kept by the jumps of its first item and those before it.
LEMMA PromisedRest ==
    ASSUME NEW w, NEW G, IsSeq(w), w # <<>>, Promised(w, G)
    PROVE  Promised(Tail(w), G \cup Mentions(w[1]))
<1> DEFINE t == Tail(w)
           H == G \cup Mentions(w[1])
<1>1. /\ Len(w) \in Nat /\ Len(t) = Len(w) - 1 /\ Len(t) \in Nat
      /\ \A i \in 1 .. Len(t) : t[i] = w[i + 1] /\ i + 1 \in 1 .. Len(w)
  BY HeadAndTail, SeqFacts
<1> HIDE DEF t
<1>2. ASSUME NEW j \in 1 .. Len(t), t[j].node = "OpenBlock"
      PROVE  t[j].label \in H \/ \E i \in 1 .. j - 1 : t[j].label \in Mentions(t[i])
  <2>1. t[j] = w[j + 1] /\ j + 1 \in 1 .. Len(w) /\ (j + 1) - 1 = j
    BY <1>1
  <2>2. w[j + 1].label \in G \/ \E i \in 1 .. j : w[j + 1].label \in Mentions(w[i])
    BY <1>2, <2>1 DEF Promised
  <2>3. ASSUME NEW i \in 1 .. j, w[j + 1].label \in Mentions(w[i]), i # 1
        PROVE  \E k \in 1 .. j - 1 : t[j].label \in Mentions(t[k])
    <3>1. i - 1 \in 1 .. j - 1 /\ i - 1 \in 1 .. Len(t) /\ (i - 1) + 1 = i
      BY <1>1, <2>3
    <3>2. t[i - 1] = w[i]
      BY <1>1, <3>1
    <3> QED
      BY <2>1, <2>3, <3>1, <3>2
  <2> QED
    BY <2>1, <2>2, <2>3
<1>3. Promised(t, H)
  BY <1>2 DEF Promised
<1> QED
  BY <1>3 DEF t

\* Two lists whose promises are kept by the same jumps.
LEMMA PromisedJoined ==
    ASSUME NEW a, NEW b, NEW G, IsSeq(a), IsSeq(b), Promised(a, G),
           NEW M, Promised(b, G \cup M), \A x \in M : \E i \in 1 .. Len(a) : x \in Mentions(a[i])
    PROVE  Promised(a \o b, G)
<1> DEFINE s == a \o b
<1>1. /\ Len(a) \in Nat /\ Len(b) \in Nat /\ Len(s) = Len(a) + Len(b)
      /\ \A i \in 1 .. Len(a) : s[i] = a[i]
      /\ \A i \in 1 .. Len(b) : s[Len(a) + i] = b[i]
  BY Joined, SeqFacts
<1> HIDE DEF s
<1>2. ASSUME NEW j \in 1 .. Len(s), s[j].node = "OpenBlock"
      PROVE  s[j].label \in G \/ \E i \in 1 .. j - 1 : s[j].label \in Mentions(s[i])
  <2>1. CASE j <= Len(a)
    <3>1. j \in 1 .. Len(a) /\ s[j] = a[j] /\ \A i \in 1 .. j - 1 : s[i] = a[i]
      BY <1>1, <2>1
    <3>2. a[j].label \in G \/ \E i \in 1 .. j - 1 : a[j].label \in Mentions(a[i])
      BY <1>2, <3>1 DEF Promised
    <3> QED
      BY <3>1, <3>2
  <2>2. CASE j > Len(a)
    <3> DEFINE k == j - Len(a)
    <3>1. k \in 1 .. Len(b) /\ j = Len(a) + k
      BY <1>1, <2>2
    <3> HIDE DEF k
    <3>2. s[j] = b[k]
      BY <1>1, <3>1
    <3>3. \/ b[k].label \in G
          \/ b[k].label \in M
          \/ \E i \in 1 .. k - 1 : b[k].label \in Mentions(b[i])
      BY <1>2, <3>1, <3>2 DEF Promised
    <3>4. ASSUME NEW i \in 1 .. Len(a), b[k].label \in Mentions(a[i])
          PROVE  \E n \in 1 .. j - 1 : s[j].label \in Mentions(s[n])
      <4>1. i \in 1 .. j - 1 /\ s[i] = a[i]
        BY <1>1, <3>1
      <4> QED
        BY <3>2, <3>4, <4>1
    <3>5. ASSUME NEW i \in 1 .. k - 1, b[k].label \in Mentions(b[i])
          PROVE  \E n \in 1 .. j - 1 : s[j].label \in Mentions(s[n])
      <4>1. i \in 1 .. Len(b) /\ Len(a) + i \in 1 .. j - 1
        BY <1>1, <3>1
      <4>2. s[Len(a) + i] = b[i]
        BY <1>1, <4>1
      <4> QED
        BY <3>2, <3>5, <4>1, <4>2
    <3> QED
      BY <3>2, <3>3, <3>4, <3>5
  <2> QED
    BY <1>1, <2>1, <2>2
<1> QED
  BY <1>2 DEF Promised, s

\* The order of the analyses, for a list in two parts.
LEMMA OrderedJoined ==
    ASSUME NEW a, NEW b, IsSeq(a), IsSeq(b), Ordered(a), Ordered(b),
           b # <<>> => b[1].node \notin {"Frontiers", "Phis"}
    PROVE  Ordered(a \o b)
<1> DEFINE s == a \o b
<1>1. /\ Len(a) \in Nat /\ Len(b) \in Nat /\ Len(s) = Len(a) + Len(b)
      /\ \A i \in 1 .. Len(a) : s[i] = a[i]
      /\ \A i \in 1 .. Len(b) : s[Len(a) + i] = b[i]
      /\ Len(b) > 0 => b # <<>>
  BY Joined, SeqFacts, TupleSeqs
<1> HIDE DEF s
<1>2. ASSUME NEW j \in 2 .. Len(s)
      PROVE  /\ s[j].node = "Frontiers" => s[j - 1].node = "Dominance"
             /\ s[j].node = "Phis" => s[j - 1].node = "Frontiers"
  <2>1. CASE j <= Len(a)
    <3>1. j \in 2 .. Len(a) /\ s[j] = a[j] /\ s[j - 1] = a[j - 1]
      BY <1>1, <2>1
    <3> QED
      BY <3>1 DEF Ordered
  <2>2. CASE j = Len(a) + 1
    <3>1. s[j] = b[1] /\ b # <<>>
      BY <1>1, <2>2
    <3> QED
      BY <3>1
  <2>3. CASE j > Len(a) + 1
    <3> DEFINE k == j - Len(a)
    <3>1. k \in 2 .. Len(b) /\ k - 1 \in 1 .. Len(b) /\ k \in 1 .. Len(b)
          /\ j = Len(a) + k /\ j - 1 = Len(a) + (k - 1)
      BY <1>1, <2>3
    <3> HIDE DEF k
    <3>2. s[j] = b[k] /\ s[j - 1] = b[k - 1]
      BY <1>1, <3>1
    <3> QED
      BY <3>1, <3>2 DEF Ordered
  <2> QED
    BY <1>1, <2>1, <2>2, <2>3
<1> QED
  BY <1>2 DEF Ordered, s

\* The rest of an ordered list is ordered; its first item is an analysis only after one.
LEMMA OrderedRest ==
    ASSUME NEW w, IsSeq(w), w # <<>>, Ordered(w)
    PROVE  /\ Ordered(Tail(w))
           /\ Tail(w) # <<>> /\ Tail(w)[1].node = "Frontiers" => w[1].node = "Dominance"
           /\ Tail(w) # <<>> /\ Tail(w)[1].node = "Phis" => w[1].node = "Frontiers"
<1> DEFINE t == Tail(w)
<1>1. /\ IsSeq(t) /\ Len(w) \in Nat /\ Len(t) = Len(w) - 1 /\ Len(t) \in Nat
      /\ \A i \in 1 .. Len(t) : t[i] = w[i + 1]
      /\ t # <<>> => Len(t) >= 1
  BY HeadAndTail, SeqFacts
<1> HIDE DEF t
<1>2. ASSUME NEW j \in 2 .. Len(t)
      PROVE  /\ t[j].node = "Frontiers" => t[j - 1].node = "Dominance"
             /\ t[j].node = "Phis" => t[j - 1].node = "Frontiers"
  <2>1. j + 1 \in 2 .. Len(w) /\ (j + 1) - 1 = j /\ t[j] = w[j + 1] /\ t[j - 1] = w[j]
    BY <1>1
  <2> QED
    BY <2>1 DEF Ordered
<1>3. t # <<>> => 2 \in 2 .. Len(w) /\ 2 - 1 = 1 /\ t[1] = w[2]
  BY <1>1
<1>4. t # <<>> => /\ w[2].node = "Frontiers" => w[1].node = "Dominance"
                  /\ w[2].node = "Phis" => w[1].node = "Frontiers"
  BY <1>3 DEF Ordered
<1>5. Ordered(t)
  BY <1>2 DEF Ordered
<1> QED
  BY <1>3, <1>4, <1>5 DEF t

\* Jumps added to blocks leave every block within reach.
LEMMA ConnectedMore ==
    ASSUME NEW code, NEW more, Connected(code), DOMAIN more = DOMAIN code,
           \A l \in DOMAIN code : Succs(code, l) \subseteq Succs(more, l)
    PROVE  Connected(more)
<1> SUFFICES ASSUME NEW S \in SUBSET DOMAIN code, Entry \in S,
                    \A l \in S : Succs(more, l) \cap DOMAIN code \subseteq S
             PROVE  S = DOMAIN code
  BY DEF Connected
<1>1. \A l \in S : Succs(code, l) \cap DOMAIN code \subseteq S
  OBVIOUS
<1> QED
  BY <1>1 DEF Connected

\* So does a new block that some block jumps to.
LEMMA ConnectedNew ==
    ASSUME NEW code, NEW more, Connected(code), NEW l \in AllTargets(code), l \notin DOMAIN code,
           l # Entry, DOMAIN more = {l} \cup DOMAIN code,
           \A k \in DOMAIN code : Succs(more, k) = Targets(code[k])
    PROVE  Connected(more)
<1> SUFFICES ASSUME NEW S \in SUBSET DOMAIN more, Entry \in S,
                    \A k \in S : Succs(more, k) \cap DOMAIN more \subseteq S
             PROVE  S = DOMAIN more
  BY DEF Connected
<1> DEFINE R == S \ {l}
<1>1. R \in SUBSET DOMAIN code /\ Entry \in R
  OBVIOUS
<1>2. ASSUME NEW k \in R PROVE Succs(code, k) \cap DOMAIN code \subseteq R
  <2>1. Succs(code, k) = Targets(code[k])
    BY DEF Succs, Targets
  <2>2. Succs(more, k) \cap DOMAIN more \subseteq S /\ Succs(more, k) = Targets(code[k])
    BY <1>1
  <2> QED
    BY <2>1, <2>2
<1>3. R = DOMAIN code
  <2> HIDE DEF R
  <2> QED
    BY <1>1, <1>2 DEF Connected
<1>4. PICK k \in DOMAIN code : l \in Targets(code[k])
  BY DEF AllTargets
<1>5. l \in S
  BY <1>3, <1>4
<1> QED
  BY <1>3, <1>5

\* The record of definitions stays complete when instructions are emitted.
LEMMA NotedMore ==
    ASSUME NEW f, NEW g, NEW insts, NEW naked, FnOK(f, naked), Noted(f),
           Emits(f, g, insts), IsSeq(insts)
    PROVE  Noted(g)
<1>1. \A p \in g.params : <<p, Entry>> \in g.defs
  BY DEF Noted, Emits
<1>2. ASSUME NEW l \in DOMAIN g.code, NEW i \in ToSet(g.code[l]), i.op \in Recorded, i.result # ""
      PROVE  <<i.result, l>> \in g.defs
  <2>1. l \in DOMAIN f.code /\ IsSeq(f.code[l]) /\ f.defs \subseteq g.defs
    BY DEF Emits, FnOK, BlockOK
  <2>2. CASE i \in ToSet(f.code[l])
    BY <1>2, <2>1, <2>2 DEF Noted
  <2>3. CASE l = f.cur /\ i \in ToSet(insts)
    BY <1>2, <2>3 DEF Emits, Defined
  <2>4. CASE l # f.cur
    BY <2>1, <2>2, <2>4 DEF Emits
  <2>5. CASE l = f.cur
    <3>1. g.code[l] = f.code[l] \o insts
      BY <2>1, <2>5 DEF Emits
    <3>2. ToSet(g.code[l]) = ToSet(f.code[l]) \cup ToSet(insts)
      BY <2>1, <3>1, Joined
    <3> QED
      BY <2>2, <2>3, <2>5, <3>2
  <2> QED
    BY <2>4, <2>5
<1> QED
  BY <1>1, <1>2 DEF Noted

\* What most actions do keeps the graph in order: the jumps the first item stands for are
\* emitted, and the items that take its place open blocks that these or they jump to.
LEMMA FlowAdvances ==
    ASSUME NEW f, NEW g, NEW insts, NEW naked, NEW w, NEW items,
           FnOK(f, naked), WorkOK(f, w, naked), FlowOK(f, w), w # <<>>,
           w[1].node \notin {"Dominance", "Frontiers"}, Mentions(w[1]) \subseteq Targets(insts),
           Emits(f, g, insts), ChunkOK(insts, naked),
           IsSeq(items), Ordered(items), Promised(items, Targets(insts)),
           items # <<>> => items[1].node \notin {"Frontiers", "Phis"}
    PROVE  FlowOK(g, items \o Tail(w))
<1> DEFINE t == Tail(w)
           v == items \o t
           F == AllTargets(f.code)
           H == AllTargets(g.code)
           I == Targets(insts)
<1>1. IsSeq(w) /\ IsSeq(t) /\ IsSeq(insts)
  BY HeadAndTail DEF WorkOK, ChunkOK
<1>2. f.cur \in DOMAIN f.code /\ DOMAIN g.code = DOMAIN f.code
  BY DEF FnOK, Emits
<1>3. ASSUME NEW l \in DOMAIN f.code
      PROVE  /\ Targets(f.code[l]) \subseteq Targets(g.code[l])
             /\ l = f.cur => Targets(insts) \subseteq Targets(g.code[l])
             /\ \A j \in 1 .. Len(g.code[l]) : g.code[l][j].op # "Phi"
  <2>1. IsSeq(f.code[l]) /\ \A j \in 1 .. Len(f.code[l]) : f.code[l][j].op # "Phi"
    BY DEF FnOK, BlockOK, FlowOK
  <2>2. CASE l # f.cur
    <3>1. g.code[l] = f.code[l]
      BY <2>2 DEF Emits
    <3> QED
      BY <2>1, <2>2, <3>1
  <2>3. CASE l = f.cur
    <3>1. g.code[l] = f.code[l] \o insts
      BY <2>3 DEF Emits
    <3>2. Targets(g.code[l]) = Targets(f.code[l]) \cup Targets(insts)
      BY <1>1, <2>1, <3>1, JoinedTargets
    <3> DEFINE a == f.code[l]
               c == a \o insts
    <3>3. /\ Len(a) \in Nat /\ Len(insts) \in Nat /\ Len(c) = Len(a) + Len(insts)
          /\ \A i \in 1 .. Len(a) : c[i] = a[i]
          /\ \A i \in 1 .. Len(insts) : c[Len(a) + i] = insts[i]
      <4>1. IsSeq(a)
        BY <2>1
      <4> HIDE DEF a
      <4> QED
        BY <1>1, <4>1, Joined, SeqFacts
    <3>4. \A i \in 1 .. Len(insts) : insts[i].op # "Phi"
      BY DEF ChunkOK
    <3>5. ASSUME NEW j \in 1 .. Len(c) PROVE c[j].op # "Phi"
      <4>1. \A i \in 1 .. Len(a) : a[i].op # "Phi"
        BY <2>1
      <4> HIDE DEF a, c
      <4>2. CASE j <= Len(a)
        BY <3>3, <4>1, <4>2
      <4>3. CASE j > Len(a)
        <5>1. j - Len(a) \in 1 .. Len(insts) /\ j = Len(a) + (j - Len(a))
          BY <3>3, <4>3
        <5>2. c[j] = insts[j - Len(a)]
          BY <3>3, <5>1
        <5> QED
          BY <3>4, <5>1, <5>2
      <4> QED
        BY <3>3, <4>2, <4>3
    <3> QED
      BY <3>1, <3>2, <3>5
  <2> QED
    BY <2>2, <2>3
<1>4. Connected(g.code)
  <2>1. Connected(f.code)
    BY DEF FlowOK
  <2>2. \A l \in DOMAIN f.code : Succs(f.code, l) \subseteq Succs(g.code, l)
    BY <1>3 DEF Succs, Targets
  <2> QED
    BY <1>2, <2>1, <2>2, ConnectedMore
<1>5. \A d \in g.defs : d[2] \in DOMAIN g.code
  BY <1>2 DEF FlowOK, Emits
<1>6. F \subseteq H /\ I \subseteq H
  BY <1>2, <1>3 DEF AllTargets
<1> HIDE DEF F, H, I
<1>7. Promised(t, H)
  <2>1. Promised(w, F)
    BY DEF FlowOK, F
  <2>2. Promised(t, F \cup Mentions(w[1]))
    BY <1>1, <2>1, PromisedRest
  <2>3. F \cup Mentions(w[1]) \subseteq H
    BY <1>6 DEF I
  <2> QED
    BY <2>2, <2>3, PromisedMore
<1>8. Promised(v, H)
  <2>1. Promised(items, H)
    BY <1>6, PromisedMore DEF I
  <2> DEFINE M == {}
  <2>2. Promised(t, H \cup M) /\ \A x \in M : \E i \in 1 .. Len(items) : x \in Mentions(items[i])
    BY <1>7
  <2> HIDE DEF t, M
  <2> QED
    BY <1>1, <2>1, <2>2, PromisedJoined
<1>9. Ordered(t) /\ (t # <<>> => t[1].node \notin {"Frontiers", "Phis"})
  BY <1>1, OrderedRest DEF FlowOK
<1> HIDE DEF t
<1>10. Ordered(v)
  BY <1>1, <1>9, OrderedJoined
<1>11. v # <<>> => v[1].node \notin {"Frontiers", "Phis"}
  <2>1. CASE items = <<>>
    <3>1. v = t
      BY <1>1, <2>1, ConcatEmptySeq DEF IsSeq
    <3> QED
      BY <1>9, <3>1
  <2>2. CASE items # <<>>
    <3>1. v[1] = items[1]
      <4>1. Len(items) \in Nat /\ Len(items) >= 1
        BY <2>2, SeqFacts
      <4>2. \A i \in 1 .. Len(items) : v[i] = items[i]
        BY <1>1, Joined
      <4> QED
        BY <4>1, <4>2
    <3> QED
      BY <2>2, <3>1
  <2> QED
    BY <2>1, <2>2
<1> HIDE DEF v
<1>12. \A l \in DOMAIN g.code : \A j \in 1 .. Len(g.code[l]) : g.code[l][j].op # "Phi"
  BY <1>2, <1>3
<1>14. Noted(g)
  BY <1>1, NotedMore DEF FlowOK
<1>13. FlowOK(g, v)
  BY <1>4, <1>5, <1>8, <1>10, <1>11, <1>12, <1>14 DEF FlowOK, H
<1> QED
  BY <1>13 DEF v, t

\* The trees: the parts of a node, and that no tree is one of the items that open or
\* close blocks.
LEMMA TreeNodes ==
    ASSUME NEW e \in Trees
    PROVE  /\ e.node = "Binary" => e.op \in Operators /\ e.left \in Trees /\ e.right \in Trees
           /\ e.node \in {"FuncCall", "GoStmt"} => e.args \in Seq(Trees)
           /\ e.node = "Access" => e.op \in Reads /\ e.args \in Seq(Trees)
           /\ e.node = "Effect" => e.op \in Writes /\ e.args \in Seq(Trees)
           /\ e.node = "VarAssign" => e.value \in Trees
           /\ e.node \in {"Cast", "ExprStmt", "Print", "Return"} => e.expr \in Trees
           /\ e.node = "Defer" => e.call \in Trees
           /\ e.node = "If" => e.cond \in Trees /\ e.then \in Seq(Trees) /\ e.else \in Seq(Trees)
           /\ e.node = "While" => e.cond \in Trees /\ e.body \in Seq(Trees) /\ e.step = <<>>
           /\ e.node = "For" => e.start \in Trees /\ e.end \in Trees /\ e.body \in Seq(Trees)
           /\ e.node \in {"IntLit", "Var", "ArrayAlloc", "GoStmt", "Break", "Continue", "Binary",
                          "FuncCall", "Access", "Effect", "VarAssign", "Cast", "ExprStmt",
                          "Print", "Return", "Defer", "If", "While", "For"}
BY TreesAssumption

\* Items that neither open a block nor jump.
QuietItem(i, naked) ==
    /\ ItemOK(i, naked)
    /\ i.node \notin {"OpenBlock", "Finish", "Dominance", "Frontiers", "Phis"}
    /\ Mentions(i) = {}
Quiet(items, naked) == IsSeq(items) /\ \A i \in ToSet(items) : QuietItem(i, naked)

\* A source tree promises nothing by itself.
LEMMA QuietTree ==
    ASSUME NEW naked, NEW i, \/ i \in Trees
                             \/ i.node = "ExprStmt" /\ i.expr \in Trees
    PROVE  QuietItem(i, naked)
<1>1. i.node \notin {"OpenBlock", "Finish", "Dominance", "Frontiers", "Phis", "Test", "Code"}
  BY TreeNodes
<1> QED
  BY <1>1 DEF QuietItem, ItemOK, Mentions

\* Nor does a sequence of source trees.
LEMMA QuietSeqs ==
    ASSUME NEW naked, NEW s \in Seq(Trees)
    PROVE  Quiet(s, naked)
<1>1. IsSeq(s) /\ ToSet(s) \subseteq Trees
  BY SeqIsSeq
<1>2. \A i \in ToSet(s) : QuietItem(i, naked)
  BY <1>1, QuietTree
<1> QED
  BY <1>1, <1>2 DEF Quiet

\* Quiet sequences are closed under concatenation.
LEMMA QuietJoined ==
    ASSUME NEW naked, NEW a, NEW b, Quiet(a, naked), Quiet(b, naked)
    PROVE  Quiet(a \o b, naked)
BY Joined DEF Quiet

\* A quiet sequence opens no block and demands no closed one.
LEMMA QuietFacts ==
    ASSUME NEW naked, NEW items, Quiet(items, naked)
    PROVE  Chain(items) /\ Once(items) /\ Opens(items) = {}
<1>1. IsSeq(items) /\ \A i \in ToSet(items) : i.node # "OpenBlock" /\ ~NeedsClosed(i)
  BY DEF Quiet, QuietItem, NeedsClosed
<1>2. Len(items) \in Nat /\ \A j \in 1 .. Len(items) : items[j] \in ToSet(items)
  BY <1>1, SeqFacts
<1>3. Chain(items)
  BY <1>1, <1>2 DEF Chain
<1>4. Once(items)
  BY <1>1, <1>2 DEF Once
<1>5. Opens(items) = {}
  BY <1>1 DEF Opens
<1> QED
  BY <1>3, <1>4, <1>5

\* A quiet sequence runs no analysis and promises nothing.
LEMMA QuietFlow ==
    ASSUME NEW naked, NEW items, Quiet(items, naked)
    PROVE  /\ IsSeq(items) /\ Ordered(items)
           /\ items # <<>> => items[1].node \notin {"Frontiers", "Phis"}
           /\ \A G : Promised(items, G)
<1>1. IsSeq(items) /\ \A i \in ToSet(items) : i.node \notin {"Frontiers", "Phis", "OpenBlock"}
  BY DEF Quiet, QuietItem
<1>2. /\ \A j \in 1 .. Len(items) : items[j] \in ToSet(items)
      /\ Len(items) \in Nat /\ (items # <<>> => Len(items) >= 1)
  BY <1>1, SeqFacts
<1>3. \A j \in 1 .. Len(items) : items[j].node \notin {"Frontiers", "Phis", "OpenBlock"}
  BY <1>1, <1>2
<1> QED
  BY <1>1, <1>2, <1>3 DEF Ordered, Promised

\* An action that replaces its item by quiet ones, adding a chunk without jumps, keeps
\* the promises.
LEMMA QuietStep ==
    ASSUME NEW f, NEW g, NEW insts, NEW naked, NEW w, NEW items,
           FnOK(f, naked), WorkOK(f, w, naked), w # <<>>,
           w[1].node # "OpenBlock", ~Closes(w[1]),
           Emits(f, g, insts), ChunkOK(insts, naked), Targets(insts) = {}, Quiet(items, naked)
    PROVE  FnOK(g, naked) /\ WorkOK(g, items \o Tail(w), naked)
<1>1. IsSeq(items) /\ Chain(items) /\ Once(items) /\ Opens(items) = {}
  BY QuietFacts DEF Quiet
<1>2. \A j \in 1 .. Len(items) : items[j] \in ToSet(items)
  BY <1>1, SeqFacts
<1>3. \A j \in 1 .. Len(items) : items[j].node \notin {"Finish", "Phis"}
  BY <1>2 DEF Quiet, QuietItem
<1>4. items # <<>> => ~NeedsClosed(items[1])
  <2>1. items # <<>> => items[1] \in ToSet(items)
    BY <1>1, HeadAndTail
  <2> QED
    BY <2>1 DEF Quiet, QuietItem, NeedsClosed
<1>5. \A i \in ToSet(items) : ItemOK(i, naked) /\ Mentions(i) = {}
  BY DEF Quiet, QuietItem
<1> QED
  BY <1>1, <1>3, <1>4, <1>5, WorkAdvances

(***************************************************************************)
(* The operators of the builder.                                           *)
(***************************************************************************)

\* Everything but the values, the temporaries and what dominance computes.
Same(f, g) ==
    /\ DOMAIN g = Fields
    /\ g.order = f.order /\ g.cur = f.cur /\ g.code = f.code /\ g.labels = f.labels
    /\ g.defers \in Seq(Trees)
    /\ IsFiniteSet(g.defs)
    /\ \A d \in g.defs : d \in f.defs \/ d[2] = f.cur
    /\ g.params = f.params
    /\ f.defs \subseteq g.defs

\* The image of a finite set is finite.
LEMMA FiniteImage ==
    ASSUME NEW S, NEW g, IsFiniteSet(S)
    PROVE  IsFiniteSet({g[x] : x \in S})
<1> DEFINE T == {g[x] : x \in S}
           h == [x \in S |-> g[x]]
<1>1. h \in Surjection(S, T)
  BY DEF Surjection
<1> HIDE DEF T, h
<1>2. IsFiniteSet(T)
  BY <1>1, FS_Surjection
<1> QED
  BY <1>2 DEF T

\* The range of a sequence is finite.
LEMMA FiniteSeq ==
    ASSUME NEW s, IsSeq(s)
    PROVE  IsFiniteSet(ToSet(s))
<1>1. Len(s) \in Nat /\ DOMAIN s = 1 .. Len(s)
  BY SeqFacts
<1>2. IsFiniteSet(1 .. Len(s))
  BY <1>1, FS_Interval
<1> QED
  BY <1>1, <1>2, FiniteImage DEF ToSet

\* Emitting instructions leaves the set of definitions finite.
LEMMA FiniteDefs ==
    ASSUME NEW f, NEW insts, IsSeq(insts), IsFiniteSet(f.defs)
    PROVE  IsFiniteSet(f.defs \cup Defined(f, insts))
<1> DEFINE J == {j \in ToSet(insts) : j.op \in Recorded /\ j.result # ""}
           g == [i \in J |-> <<i.result, f.cur>>]
<1>1. IsFiniteSet(J)
  BY FiniteSeq, FS_Subset
<1> HIDE DEF J
<1>2. IsFiniteSet({g[i] : i \in J})
  BY <1>1, FiniteImage
<1>3. {g[i] : i \in J} = {<<i.result, f.cur>> : i \in J}
  OBVIOUS
<1>4. IsFiniteSet(Defined(f, insts))
  BY <1>2, <1>3 DEF Defined, J
<1> QED
  BY <1>4, FS_Union

\* emit after a change of bookkeeping only is emit.
LEMMA SameEmits ==
    ASSUME NEW f, NEW g, NEW insts, NEW naked, FnOK(f, naked), Same(f, g), IsSeq(insts)
    PROVE  Emits(f, emit(g, insts), insts) /\ emit(g, insts).labels = f.labels
<1> DEFINE h == emit(g, insts)
<1>1. DOMAIN g = Fields
  BY DEF Same
<1>2. h = [g EXCEPT !.code[g.cur] = @ \o insts, !.defs = @ \cup Defined(g, insts)]
  BY DEF emit
<1>3. /\ DOMAIN h = Fields
      /\ h.order = g.order /\ h.cur = g.cur /\ h.labels = g.labels /\ h.defers = g.defers
      /\ h.params = g.params
      /\ h.code = [g.code EXCEPT ![g.cur] = @ \o insts]
      /\ h.defs = g.defs \cup Defined(g, insts)
  BY <1>1, <1>2 DEF Fields
<1>4. IsFiniteSet(h.defs)
  BY <1>3, FiniteDefs DEF Same
<1>5. f.labels \in Nat /\ f.labels >= f.labels
  BY DEF FnOK
<1> HIDE DEF h
<1>6. /\ DOMAIN h.code = DOMAIN f.code
      /\ \A l \in DOMAIN f.code : h.code[l] = IF l = f.cur THEN f.code[l] \o insts ELSE f.code[l]
  BY <1>3 DEF Same
<1>8. \A d \in h.defs : d \in f.defs \/ d[2] = f.cur
  <2>1. ASSUME NEW d \in Defined(g, insts) PROVE d[2] = g.cur
    <3>1. PICK i : d = <<i.result, g.cur>>
      BY Zenon DEF Defined
    <3> QED
      BY <3>1
  <2> QED
    BY <1>3, <2>1 DEF Same
<1>9. Defined(f, insts) \subseteq h.defs
  BY <1>3 DEF Defined, Same
<1>7. Emits(f, h, insts) /\ h.labels = f.labels
  BY <1>3, <1>4, <1>5, <1>6, <1>8, <1>9 DEF Emits, Same
<1> QED
  BY <1>7 DEF h

\* Nothing emitted.
LEMMA SameEmitsNothing ==
    ASSUME NEW f, NEW g, NEW naked, FnOK(f, naked), Same(f, g)
    PROVE  Emits(f, g, <<>>)
<1>1. \A l \in DOMAIN f.code : f.code[l] \o <<>> = f.code[l]
  BY ConcatEmptySeq DEF FnOK, BlockOK, IsSeq
<1>2. Defined(f, <<>>) = {}
  BY TupleSeqs DEF Defined
<1> QED
  BY <1>1, <1>2 DEF Emits, Same, FnOK

\* A function state differs from itself in bookkeeping only.
LEMMA SameItself ==
    ASSUME NEW f, NEW naked, FnOK(f, naked)
    PROVE  Same(f, f)
BY DEF Same, FnOK

\* Pushing a value is bookkeeping.
LEMMA SamePush ==
    ASSUME NEW f, NEW g, NEW v, Same(f, g)
    PROVE  Same(f, Push(g, v))
BY DEF Same, Push, Fields

\* Popping values is bookkeeping.
LEMMA SamePop ==
    ASSUME NEW k, NEW naked, FnOK(fn, naked)
    PROVE  Same(fn, Pop(k))
BY DEF Same, Pop, Fields, FnOK

\* Taking a temporary name is bookkeeping.
LEMMA EmitsTemps ==
    ASSUME NEW f, NEW g, NEW insts, Emits(f, g, insts)
    PROVE  Emits(f, [g EXCEPT !.temps = @ + 1], insts)
BY DEF Emits, Fields

\* A single instruction that neither jumps nor enters or leaves the region.
LEMMA PlainChunk ==
    ASSUME NEW i, NEW naked, i.op \in Plain, i.to = <<>>
    PROVE  IsSeq(<<i>>) /\ ChunkOK(<<i>>, naked) /\ Targets(<<i>>) = {}
<1>1. IsSeq(<<i>>) /\ Len(<<i>>) = 1 /\ <<i>>[1] = i /\ DOMAIN <<i>> = 1 .. 1
  BY TupleSeqs
<1>2. i.op \notin {"RegionEnter", "RegionExit", "Branch", "CondBranch", "Return", "Phi"}
  BY DEF Plain, Arithmetic, Reads, Writes
<1>3. IsInst(i)
  BY <1>2, EmptySeq DEF IsInst
<1>4. ChunkOK(<<i>>, naked)
  BY <1>1, <1>2, <1>3 DEF ChunkOK, ExitsOK
<1>5. Targets(<<i>>) = {}
  BY <1>1, TupleSeqs DEF Targets
<1> QED
  BY <1>1, <1>4, <1>5

\* The empty chunk is well formed and jumps nowhere.
LEMMA EmptyChunk ==
    ASSUME NEW naked
    PROVE  ChunkOK(<<>>, naked) /\ Targets(<<>>) = {}
<1>1. IsSeq(<<>>) /\ Len(<<>>) = 0 /\ DOMAIN <<>> = {}
  BY TupleSeqs
<1> QED
  BY <1>1 DEF ChunkOK, ExitsOK, Targets

(***************************************************************************)
(* The actions of the builder.                                             *)
(***************************************************************************)
\* What the promises say of the item the builder is about to work on.
LEMMA FirstItem ==
    ASSUME Owed, work # <<>>
    PROVE  /\ Item = work[1] /\ Item \in ToSet(work)
           /\ ItemOK(Item, Naked)
           /\ Mentions(Item) \subseteq DOMAIN fn.code \cup Opens(work)
           /\ NeedsClosed(Item) => Ends(fn.code[fn.cur])
<1>1. IsSeq(work)
  BY DEF Owed, WorkOK
<1>2. Item = work[1] /\ Item \in ToSet(work)
  BY <1>1, HeadAndTail DEF Item
<1> QED
  BY <1>2 DEF Owed, WorkOK

\* An item whose node is that of a tree is a tree, unless it is a deferred call.
LEMMA ItemTree ==
    ASSUME NEW i, NEW naked, ItemOK(i, naked),
           i.node \in {"IntLit", "Var", "ArrayAlloc", "GoStmt", "Break", "Continue", "Binary",
                       "FuncCall", "Access", "Effect", "VarAssign", "Cast",
                       "Print", "Return", "Defer", "If", "While", "For"}
    PROVE  i \in Trees
BY DEF ItemOK

\* QuietStep, for an action of the builder.
LEMMA QuietAction ==
    ASSUME Owed, work # <<>>, NEW insts, NEW items,
           Item.node \notin {"OpenBlock", "Test", "Dominance", "Frontiers", "Code"},
           Emits(fn, fn', insts), ChunkOK(insts, Naked), Targets(insts) = {},
           Quiet(items, Naked), Then(items), Keep
    PROVE  Owed'
<1>1. Naked' = Naked
  BY DEF Naked, Keep
<1>2. work[1].node # "OpenBlock" /\ ~Closes(work[1])
  BY FirstItem DEF Closes
<1>3. FnOK(fn', Naked) /\ WorkOK(fn', items \o Tail(work), Naked)
  BY <1>2, QuietStep DEF Owed
<1>4. /\ IsSeq(items) /\ Ordered(items) /\ Promised(items, Targets(insts))
      /\ items # <<>> => items[1].node \notin {"Frontiers", "Phis"}
  BY QuietFlow
<1>5. /\ Mentions(work[1]) \subseteq Targets(insts)
      /\ work[1].node \notin {"Dominance", "Frontiers"}
  BY FirstItem DEF Mentions
<1>6. FlowOK(fn', items \o Tail(work))
  BY <1>4, <1>5, FlowAdvances DEF Owed
<1> QED
  BY <1>1, <1>3, <1>6 DEF Owed, Then

\* The same when nothing is emitted.
LEMMA SilentAction ==
    ASSUME Owed, work # <<>>, NEW items,
           Item.node \notin {"OpenBlock", "Test", "Dominance", "Frontiers", "Code"},
           Same(fn, fn'), Quiet(items, Naked), Then(items), Keep
    PROVE  Owed'
BY SameEmitsNothing, EmptyChunk, QuietAction DEF Owed

\* The same when one instruction is.
LEMMA PlainAction ==
    ASSUME Owed, work # <<>>, NEW i, i.op \in Plain, i.to = <<>>,
           Item.node \notin {"OpenBlock", "Test", "Dominance", "Frontiers", "Code"},
           Emits(fn, fn', <<i>>), Then(<<>>), Keep
    PROVE  Owed'
<1>1. ChunkOK(<<i>>, Naked) /\ Targets(<<i>>) = {}
  BY PlainChunk
<1>2. Quiet(<<>>, Naked)
  BY TupleSeqs DEF Quiet
<1> QED
  BY <1>1, <1>2, QuietAction

\* Tuples of quiet items are quiet.
LEMMA QuietTuples ==
    ASSUME NEW naked
    PROVE  /\ Quiet(<<>>, naked)
           /\ \A a : QuietItem(a, naked) => Quiet(<<a>>, naked)
           /\ \A a, b : QuietItem(a, naked) /\ QuietItem(b, naked) => Quiet(<<a, b>>, naked)
           /\ \A a, b, c : QuietItem(a, naked) /\ QuietItem(b, naked) /\ QuietItem(c, naked) =>
                 Quiet(<<a, b, c>>, naked)
<1>1. Quiet(<<>>, naked)
  BY TupleSeqs DEF Quiet
<1>2. ASSUME NEW a, QuietItem(a, naked) PROVE Quiet(<<a>>, naked)
  BY <1>2, TupleSeqs DEF Quiet
<1>3. ASSUME NEW a, NEW b, QuietItem(a, naked), QuietItem(b, naked) PROVE Quiet(<<a, b>>, naked)
  BY <1>3, TupleSeqs DEF Quiet
<1>4. ASSUME NEW a, NEW b, NEW c,
             QuietItem(a, naked), QuietItem(b, naked), QuietItem(c, naked)
      PROVE  Quiet(<<a, b, c>>, naked)
  BY <1>4, TupleSeqs DEF Quiet
<1> QED
  BY <1>1, <1>2, <1>3, <1>4

\* Arguments, then what is done with them.
LEMMA QuietAppend ==
    ASSUME NEW naked, NEW args \in Seq(Trees), NEW i, QuietItem(i, naked)
    PROVE  Quiet(Append(args, i), naked)
<1>1. IsSeq(args) /\ Quiet(args, naked)
  BY SeqIsSeq, QuietSeqs
<1>2. IsSeq(Append(args, i)) /\ ToSet(Append(args, i)) = ToSet(args) \cup {i}
  BY <1>1, Appended
<1> QED
  BY <1>1, <1>2 DEF Quiet

\* What is left to do when the operands are built.
LEMMA QuietWork ==
    ASSUME NEW naked
    PROVE  /\ QuietItem(Drop, naked) /\ QuietItem(Leave, naked)
           /\ \A op \in Plain : QuietItem(Operate(op), naked)
           /\ \A op \in Plain : \A s, r, n : QuietItem(Invoke(op, s, r, n), naked)
           /\ \A op \in Plain : \A n : QuietItem(Fetch(op, n), naked)
           /\ \A op \in Plain : \A x : QuietItem(Store(x, op), naked)
           /\ \A e \in Trees : e.node = "If" => QuietItem(Split(e), naked)
           /\ \A e \in Trees : e.node = "For" => QuietItem(Enter(e), naked)
BY DEF QuietItem, ItemOK, Mentions, Drop, Leave, Operate, Invoke, Fetch, Store, Split, Enter

\* The opcodes that expressions, reads and writes are lowered to neither jump nor touch
\* the region.
LEMMA Opcodes ==
    /\ \A op \in Operators : BinaryOp(op) \in Plain
    /\ \A op : AssignOp(op) \in Plain
    /\ Reads \subseteq Plain /\ Writes \subseteq Plain
    /\ {"Copy", "Call", "TaskSpawn", "ArrayAlloc"} \subseteq Plain
BY DEF Operators, BinaryOp, AssignOp, Plain, Arithmetic

\* Every step that lowers an expression keeps the promises (buildExpr).
LEMMA ExprSteps ==
    ASSUME Owed, BuildExpr
    PROVE  Owed'
<1> DEFINE N == Naked
<1>0. FnOK(fn, N)
  BY DEF Owed
<1>1. CASE BuildIntLit
  <2>1. work # <<>> /\ Item.node = "IntLit" /\ Then(<<>>) /\ Keep /\ Same(fn, fn')
    BY <1>0, <1>1, SameItself, SamePush DEF BuildIntLit, Working
  <2> QED
    BY <2>1, QuietTuples, SilentAction
<1>2. CASE BuildVar
  <2>1. work # <<>> /\ Item.node = "Var" /\ Then(<<>>) /\ Keep /\ Same(fn, fn')
    BY <1>0, <1>2, SameItself, SamePush DEF BuildVar, Working
  <2> QED
    BY <2>1, QuietTuples, SilentAction
<1>3. CASE BuildBinary
  <2>1. /\ work # <<>> /\ Item.node = "Binary" /\ fn' = fn /\ Keep
        /\ Then(<<Item.left, Item.right, Operate(BinaryOp(Item.op))>>)
    BY <1>3 DEF BuildBinary, Working
  <2>2. Item \in Trees
    BY <2>1, FirstItem, ItemTree
  <2>3. Item.left \in Trees /\ Item.right \in Trees /\ BinaryOp(Item.op) \in Plain
    BY <2>1, <2>2, TreeNodes, Opcodes
  <2>4. /\ QuietItem(Item.left, N) /\ QuietItem(Item.right, N)
        /\ QuietItem(Operate(BinaryOp(Item.op)), N)
    BY <2>3, QuietTree, QuietWork
  <2>5. Quiet(<<Item.left, Item.right, Operate(BinaryOp(Item.op))>>, N)
    BY <2>4, QuietTuples
  <2>6. Same(fn, fn')
    BY <1>0, <2>1, SameItself
  <2> QED
    BY <2>1, <2>5, <2>6, SilentAction
<1>4. CASE EndBinary
  <2>1. work # <<>> /\ Item.node = "Operate" /\ Then(<<>>) /\ Keep
    BY <1>4 DEF EndBinary, Working
  <2>2. Item.op \in Plain
    BY <2>1, FirstItem, TreeNodes DEF ItemOK
  <2>3. \A v : Same(fn, Push(Pop(2), v))
    BY <1>0, SamePop, SamePush
  <2>4. CASE \E v : fn' = Push(Pop(2), v)
    BY <2>1, <2>3, <2>4, QuietTuples, SilentAction
  <2>5. CASE \E v, res, operands :
               fn' = [emit(Push(Pop(2), v), <<Inst(Item.op, res, operands)>>) EXCEPT !.temps = @ + 1]
    <3>1. PICK v, res, operands :
               fn' = [emit(Push(Pop(2), v), <<Inst(Item.op, res, operands)>>) EXCEPT !.temps = @ + 1]
      BY <2>5
    <3> DEFINE i == Inst(Item.op, res, operands)
    <3>2. i.op \in Plain /\ i.to = <<>> /\ IsSeq(<<i>>)
      BY <2>2, TupleSeqs DEF Inst
    <3>3. Emits(fn, emit(Push(Pop(2), v), <<i>>), <<i>>)
      BY <1>0, <2>3, <3>2, SameEmits
    <3>4. Emits(fn, fn', <<i>>)
      BY <3>1, <3>3, EmitsTemps
    <3> HIDE DEF i
    <3> QED
      BY <2>1, <3>2, <3>4, PlainAction
  <2>6. \/ \E v : fn' = Push(Pop(2), v)
        \/ \E v, res, operands :
              fn' = [emit(Push(Pop(2), v), <<Inst(Item.op, res, operands)>>) EXCEPT !.temps = @ + 1]
    BY <1>4, Zenon DEF EndBinary
  <2> QED
    BY <2>4, <2>5, <2>6
<1>5. CASE BuildCall
  <2> DEFINE call == Invoke("Call", Item.callee, Temp(fn.temps), Len(Item.args))
  <2>1. /\ work # <<>> /\ Item.node = "FuncCall" /\ fn' = [fn EXCEPT !.temps = @ + 1] /\ Keep
        /\ Then(Append(Item.args, call))
    BY <1>5 DEF BuildCall, Working
  <2>2. Item \in Trees
    BY <2>1, FirstItem, ItemTree
  <2>3. Item.args \in Seq(Trees)
    BY <2>1, <2>2, TreeNodes
  <2>4. QuietItem(call, N)
    BY QuietWork, Opcodes
  <2> HIDE DEF call
  <2>5. Quiet(Append(Item.args, call), N)
    BY <2>3, <2>4, QuietAppend
  <2>6. Same(fn, fn')
    BY <1>0, <2>1 DEF Same, FnOK, Fields
  <2> QED
    BY <2>1, <2>5, <2>6, SilentAction
<1>6. CASE EndCall
  <2> DEFINE i == CallInst(Item.op, Item.sym, Item.result, Top(Item.argc))
             after == emit(Pop(Item.argc), <<i>>)
  <2>1. /\ work # <<>> /\ Item.node = "Invoke" /\ Then(<<>>) /\ Keep
        /\ fn' = IF Item.result = "" THEN after ELSE Push(after, Name(Item.result))
    BY <1>6 DEF EndCall, Working
  <2>2. Item.op \in Plain
    BY <2>1, FirstItem, TreeNodes DEF ItemOK
  <2>3. i.op \in Plain /\ i.to = <<>> /\ IsSeq(<<i>>)
    BY <2>2, TupleSeqs DEF CallInst, Inst
  <2> HIDE DEF i
  <2>4. Emits(fn, after, <<i>>)
    BY <1>0, <2>3, SamePop, SameEmits
  <2> HIDE DEF after
  <2>5. Emits(fn, Push(after, Name(Item.result)), <<i>>)
    BY <2>4 DEF Emits, Push, Fields
  <2>6. Emits(fn, fn', <<i>>)
    BY <2>1, <2>4, <2>5
  <2> QED
    BY <2>1, <2>3, <2>6, PlainAction
<1>7. CASE BuildAccess
  <2>1. work # <<>> /\ Item.node \in {"Access", "Cast"} /\ fn' = fn /\ Keep
    BY <1>7 DEF BuildAccess, Working
  <2>2. Item \in Trees
    BY <2>1, FirstItem, ItemTree
  <2>3. Same(fn, fn')
    BY <1>0, <2>1, SameItself
  <2>4. CASE Item.node = "Access"
    <3>1. Then(Append(Item.args, Fetch(Item.op, Len(Item.args))))
      BY <1>7, <2>4 DEF BuildAccess, Working
    <3>2. Item.args \in Seq(Trees) /\ Item.op \in Plain
      BY <2>2, <2>4, TreeNodes, Opcodes
    <3>3. Quiet(Append(Item.args, Fetch(Item.op, Len(Item.args))), N)
      BY <3>2, QuietAppend, QuietWork
    <3> QED
      BY <2>1, <2>3, <3>1, <3>3, SilentAction
  <2>5. CASE Item.node = "Cast"
    <3>1. Then(<<Item.expr, Fetch("Copy", 1)>>)
      BY <1>7, <2>5 DEF BuildAccess, Working
    <3>2. QuietItem(Item.expr, N) /\ QuietItem(Fetch("Copy", 1), N)
      BY <2>2, <2>5, TreeNodes, Opcodes, QuietTree, QuietWork
    <3>3. Quiet(<<Item.expr, Fetch("Copy", 1)>>, N)
      BY <3>2, QuietTuples
    <3> QED
      BY <2>1, <2>3, <3>1, <3>3, SilentAction
  <2> QED
    BY <2>1, <2>4, <2>5
<1>8. CASE EndAccess
  <2> DEFINE i == Inst(Item.op, Temp(fn.temps), Top(Item.argc))
             g == Push(Pop(Item.argc), Name(Temp(fn.temps)))
  <2>1. /\ work # <<>> /\ Item.node = "Fetch" /\ Then(<<>>) /\ Keep
        /\ fn' = [emit(g, <<i>>) EXCEPT !.temps = @ + 1]
    BY <1>8 DEF EndAccess, Working
  <2>2. Item.op \in Plain
    BY <2>1, FirstItem, TreeNodes DEF ItemOK
  <2>3. i.op \in Plain /\ i.to = <<>> /\ IsSeq(<<i>>)
    BY <2>2, TupleSeqs DEF Inst
  <2>4. Same(fn, g)
    BY <1>0, SamePop, SamePush
  <2> HIDE DEF i, g
  <2>5. Emits(fn, emit(g, <<i>>), <<i>>)
    BY <1>0, <2>3, <2>4, SameEmits
  <2>6. Emits(fn, fn', <<i>>)
    BY <2>1, <2>5, EmitsTemps
  <2> QED
    BY <2>1, <2>3, <2>6, PlainAction
<1>9. CASE BuildAssign
  <2> DEFINE store == Store(Item.name, AssignOp(Item.op))
  <2>1. work # <<>> /\ Item.node = "VarAssign" /\ fn' = fn /\ Keep /\ Then(<<Item.value, store>>)
    BY <1>9 DEF BuildAssign, Working
  <2>2. Item \in Trees
    BY <2>1, FirstItem, ItemTree
  <2>3. QuietItem(Item.value, N) /\ QuietItem(store, N)
    BY <2>1, <2>2, TreeNodes, Opcodes, QuietTree, QuietWork
  <2> HIDE DEF store
  <2>4. Quiet(<<Item.value, store>>, N)
    BY <2>3, QuietTuples
  <2>5. Same(fn, fn')
    BY <1>0, <2>1, SameItself
  <2> QED
    BY <2>1, <2>4, <2>5, SilentAction
<1>10. CASE EndAssign
  <2> DEFINE operands == IF Item.op = "Copy" THEN Top(1) ELSE <<Name(Item.name)>> \o Top(1)
             i == Inst(Item.op, Item.name, operands)
             g == Push(Pop(1), Name(Item.name))
  <2>1. work # <<>> /\ Item.node = "Store" /\ Then(<<>>) /\ Keep /\ fn' = emit(g, <<i>>)
    BY <1>10 DEF EndAssign, Working
  <2>2. Item.op \in Plain
    BY <2>1, FirstItem, TreeNodes DEF ItemOK
  <2> HIDE DEF operands
  <2>3. i.op \in Plain /\ i.to = <<>> /\ IsSeq(<<i>>)
    BY <2>2, TupleSeqs DEF Inst
  <2>4. Same(fn, g)
    BY <1>0, SamePop, SamePush
  <2> HIDE DEF i, g
  <2>5. Emits(fn, fn', <<i>>)
    BY <1>0, <2>1, <2>3, <2>4, SameEmits
  <2> QED
    BY <2>1, <2>3, <2>5, PlainAction
<1>11. CASE BuildArrayAlloc
  <2> DEFINE i == Inst("ArrayAlloc", Item.name, <<Const(Item.size)>>)
             g == Push(fn, Name(Item.name))
  <2>1. work # <<>> /\ Item.node = "ArrayAlloc" /\ Then(<<>>) /\ Keep /\ fn' = emit(g, <<i>>)
    BY <1>11 DEF BuildArrayAlloc, Working
  <2>2. i.op \in Plain /\ i.to = <<>> /\ IsSeq(<<i>>)
    BY Opcodes, TupleSeqs DEF Inst
  <2>3. Same(fn, g)
    BY <1>0, SameItself, SamePush
  <2> HIDE DEF i, g
  <2>4. Emits(fn, fn', <<i>>)
    BY <1>0, <2>1, <2>2, <2>3, SameEmits
  <2> QED
    BY <2>1, <2>2, <2>4, PlainAction
<1> QED
  BY <1>1, <1>2, <1>3, <1>4, <1>5, <1>6, <1>7, <1>8, <1>9, <1>10, <1>11 DEF BuildExpr

\* The code a function is left with.
LeaveCode(v) ==
    (IF Naked THEN <<>> ELSE <<Inst("RegionExit", "", <<>>)>>) \o <<Inst("Return", "", <<v>>)>>

\* The code that leaves a function returns, after leaving the region unless the function
\* is naked.
LEMMA LeaveChunk ==
    ASSUME NEW v
    PROVE  ChunkOK(LeaveCode(v), Naked) /\ Targets(LeaveCode(v)) = {} /\ Ends(LeaveCode(v))
<1> DEFINE r == Inst("Return", "", <<v>>)
           x == Inst("RegionExit", "", <<>>)
<1>1. /\ r.op = "Return" /\ r.to = <<>> /\ IsInst(r)
      /\ x.op = "RegionExit" /\ x.to = <<>> /\ IsInst(x)
  BY EmptySeq DEF Inst, IsInst
<1>2. LeaveCode(v) = (IF Naked THEN <<>> ELSE <<x>>) \o <<r>>
  BY DEF LeaveCode
<1> HIDE DEF r, x
<1>3. CASE Naked
  <2>1. LeaveCode(v) = <<r>>
    BY <1>2, <1>3, TupleSeqs, ConcatEmptySeq DEF IsSeq
  <2>2. IsSeq(<<r>>) /\ Len(<<r>>) = 1 /\ <<r>>[1] = r /\ DOMAIN <<r>> = 1 .. 1
    BY TupleSeqs
  <2>3. ChunkOK(<<r>>, Naked)
    BY <1>1, <1>3, <2>2 DEF ChunkOK, ExitsOK
  <2>4. Targets(<<r>>) = {}
    BY <1>1, <2>2, TupleSeqs DEF Targets
  <2>5. Ends(<<r>>)
    BY <1>1, <2>2 DEF Ends, Jumps
  <2> QED
    BY <2>1, <2>3, <2>4, <2>5
<1>4. CASE ~Naked
  <2>1. LeaveCode(v) = <<x>> \o <<r>>
    BY <1>2, <1>4
  <2> DEFINE c == <<x>> \o <<r>>
  <2>2. IsSeq(c) /\ Len(c) = 2 /\ c[1] = x /\ c[2] = r /\ DOMAIN c = 1 .. 2
    BY TupleSeqs, Joined, SeqFacts
  <2> HIDE DEF c
  <2>3. ChunkOK(c, Naked)
    BY <1>1, <1>4, <2>2 DEF ChunkOK, ExitsOK
  <2>4. Targets(c) = {}
    BY <1>1, <2>2, TupleSeqs DEF Targets
  <2>5. Ends(c)
    BY <1>1, <2>2 DEF Ends, Jumps
  <2> QED
    BY <2>1, <2>3, <2>4, <2>5 DEF c
<1> QED
  BY <1>3, <1>4

\* Running the deferred calls and then leaving is quiet and ends the block.
LEMMA LeaveItems ==
    ASSUME NEW v, fn.defers \in Seq(Trees)
    PROVE  /\ Quiet(LeaveWith(v), Naked)
           /\ LeaveWith(v) # <<>>
           /\ Closes(LeaveWith(v)[Len(LeaveWith(v))])
<1> DEFINE n == Len(fn.defers)
           d == Reverse(fn.defers)
           calls == [i \in DOMAIN d |-> ExprStmt(d[i])]
           last == Code(LeaveCode(v))
<1>1. n \in Nat /\ \A i \in 1 .. n : fn.defers[i] \in Trees
  BY ElementOfSeq, LenProperties
<1>2. d = [i \in 1 .. n |-> fn.defers[(n - i) + 1]]
  BY DEF Reverse
<1>3. \A i \in 1 .. n : (n - i) + 1 \in 1 .. n
  BY <1>1
<1>4. DOMAIN d = 1 .. n /\ \A i \in 1 .. n : d[i] \in Trees
  BY <1>1, <1>2, <1>3
<1>5. LeaveWith(v) = calls \o <<last>>
  BY DEF LeaveWith, LeaveCode
<1> HIDE DEF d
<1>6. calls = [i \in 1 .. n |-> ExprStmt(d[i])]
  BY <1>4
<1>7. IsSeq(calls)
  <2>1. calls \in [1 .. n -> ToSet(calls)]
    BY <1>6 DEF ToSet
  <2> QED
    BY <1>1, <2>1, SeqDef DEF IsSeq
<1>8. Quiet(calls, Naked)
  <2>1. \A i \in 1 .. n : ExprStmt(d[i]).node = "ExprStmt" /\ ExprStmt(d[i]).expr \in Trees
    BY <1>4 DEF ExprStmt
  <2>2. \A i \in 1 .. n : QuietItem(ExprStmt(d[i]), Naked)
    BY <2>1, QuietTree
  <2>3. \A x \in ToSet(calls) : \E i \in 1 .. n : x = ExprStmt(d[i])
    BY <1>6 DEF ToSet
  <2> QED
    BY <1>7, <2>2, <2>3 DEF Quiet
<1>9. last.node = "Code" /\ last.insts = LeaveCode(v)
  BY DEF Code
<1> HIDE DEF last, calls
<1>10. QuietItem(last, Naked) /\ Closes(last)
  BY <1>9, LeaveChunk DEF QuietItem, ItemOK, Mentions, Closes
<1>11. Quiet(<<last>>, Naked)
  BY <1>10, QuietTuples
<1>12. Quiet(LeaveWith(v), Naked)
  BY <1>5, <1>8, <1>11, QuietJoined
<1>13. Len(calls) \in Nat /\ Len(LeaveWith(v)) = Len(calls) + 1
  BY <1>5, <1>7, SeqFacts, TupleSeqs, Joined
<1>14. LeaveWith(v)[Len(calls) + 1] = last
  BY <1>5, <1>7, <1>13, TupleSeqs, Joined
<1>15. LeaveWith(v) # <<>>
  BY <1>13, TupleSeqs
<1> QED
  BY <1>10, <1>12, <1>13, <1>14, <1>15

\* The statements that open no block keep the promises.
LEMMA QuietStatementSteps ==
    ASSUME Owed,
           \/ BuildIf \/ BuildFor \/ BuildReturn \/ EndReturn \/ BuildDefer \/ BuildEffect
           \/ BuildExprStmt \/ EndExprStmt \/ BuildUnknown
    PROVE  Owed'
<1> DEFINE N == Naked
<1>0. FnOK(fn, N)
  BY DEF Owed
<1>1. CASE BuildIf
  <2>1. work # <<>> /\ Item.node = "If" /\ fn' = fn /\ Keep /\ Then(<<Item.cond, Split(Item)>>)
    BY <1>1 DEF BuildIf, Working
  <2>2. Item \in Trees
    BY <2>1, FirstItem, ItemTree
  <2>3. QuietItem(Item.cond, N) /\ QuietItem(Split(Item), N)
    BY <2>1, <2>2, TreeNodes, QuietTree, QuietWork
  <2>4. Quiet(<<Item.cond, Split(Item)>>, N) /\ Same(fn, fn')
    BY <1>0, <2>1, <2>3, QuietTuples, SameItself
  <2> QED
    BY <2>1, <2>4, SilentAction
<1>2. CASE BuildFor
  <2>1. /\ work # <<>> /\ Item.node = "For" /\ Keep
        /\ fn' = [fn EXCEPT !.defs = @ \cup {<<Item.var, fn.cur>>}]
        /\ Then(<<Item.start, Item.end, Enter(Item)>>)
    BY <1>2 DEF BuildFor, Working
  <2>2. Item \in Trees
    BY <2>1, FirstItem, ItemTree
  <2>3. QuietItem(Item.start, N) /\ QuietItem(Item.end, N) /\ QuietItem(Enter(Item), N)
    BY <2>1, <2>2, TreeNodes, QuietTree, QuietWork
  <2>4. Quiet(<<Item.start, Item.end, Enter(Item)>>, N)
    BY <2>3, QuietTuples
  <2>5. IsFiniteSet(fn.defs \cup {<<Item.var, fn.cur>>})
    BY <1>0, FS_AddElement DEF FnOK
  <2>6. Same(fn, fn')
    BY <1>0, <2>1, <2>5 DEF Same, FnOK, Fields
  <2> QED
    BY <2>1, <2>4, <2>6, SilentAction
<1>3. CASE BuildReturn
  <2>1. work # <<>> /\ Item.node = "Return" /\ fn' = fn /\ Keep /\ Then(<<Item.expr, Leave>>)
    BY <1>3 DEF BuildReturn, Working
  <2>2. Item \in Trees
    BY <2>1, FirstItem, ItemTree
  <2>3. QuietItem(Item.expr, N) /\ QuietItem(Leave, N)
    BY <2>1, <2>2, TreeNodes, QuietTree, QuietWork
  <2>4. Quiet(<<Item.expr, Leave>>, N) /\ Same(fn, fn')
    BY <1>0, <2>1, <2>3, QuietTuples, SameItself
  <2> QED
    BY <2>1, <2>4, SilentAction
<1>4. CASE EndReturn
  <2>1. /\ work # <<>> /\ Item.node = "Leave" /\ fn' = Pop(1) /\ Keep
        /\ Then(LeaveWith(Top(1)[1]))
    BY <1>4 DEF EndReturn, Working
  <2>2. Quiet(LeaveWith(Top(1)[1]), N)
    BY <1>0, LeaveItems DEF FnOK
  <2>3. Same(fn, fn')
    BY <1>0, <2>1, SamePop
  <2> QED
    BY <2>1, <2>2, <2>3, SilentAction
<1>5. CASE BuildDefer
  <2>1. /\ work # <<>> /\ Item.node = "Defer" /\ Keep /\ Then(<<>>)
        /\ fn' = [fn EXCEPT !.defers = Append(@, Item.call)]
    BY <1>5 DEF BuildDefer, Working
  <2>2. Item \in Trees
    BY <2>1, FirstItem, ItemTree
  <2>3. Append(fn.defers, Item.call) \in Seq(Trees)
    BY <1>0, <2>1, <2>2, TreeNodes, AppendProperties DEF FnOK
  <2>4. Same(fn, fn')
    BY <1>0, <2>1, <2>3 DEF Same, FnOK, Fields
  <2> QED
    BY <2>1, <2>4, QuietTuples, SilentAction
<1>6. CASE BuildEffect
  <2>1. work # <<>> /\ Item.node \in {"Effect", "Print", "GoStmt"} /\ fn' = fn /\ Keep
    BY <1>6 DEF BuildEffect, Working
  <2>2. Item \in Trees
    BY <2>1, FirstItem, ItemTree
  <2>3. Same(fn, fn')
    BY <1>0, <2>1, SameItself
  <2>4. CASE Item.node = "Effect"
    <3>1. Then(Append(Item.args, Invoke(Item.op, "", "", Len(Item.args))))
      BY <1>6, <2>4 DEF BuildEffect, Working
    <3>2. Item.args \in Seq(Trees) /\ Item.op \in Plain
      BY <2>2, <2>4, TreeNodes, Opcodes
    <3>3. Quiet(Append(Item.args, Invoke(Item.op, "", "", Len(Item.args))), N)
      BY <3>2, QuietAppend, QuietWork
    <3> QED
      BY <2>1, <2>3, <3>1, <3>3, SilentAction
  <2>5. CASE Item.node = "Print"
    <3>1. Then(<<Item.expr, Invoke("Call", "print", "", 1)>>)
      BY <1>6, <2>5 DEF BuildEffect, Working
    <3>2. QuietItem(Item.expr, N) /\ QuietItem(Invoke("Call", "print", "", 1), N)
      BY <2>2, <2>5, TreeNodes, Opcodes, QuietTree, QuietWork
    <3>3. Quiet(<<Item.expr, Invoke("Call", "print", "", 1)>>, N)
      BY <3>2, QuietTuples
    <3> QED
      BY <2>1, <2>3, <3>1, <3>3, SilentAction
  <2>6. CASE Item.node = "GoStmt"
    <3>1. Then(<<Invoke("TaskSpawn", Item.callee, "", 0)>>)
      BY <1>6, <2>6 DEF BuildEffect, Working
    <3>2. Quiet(<<Invoke("TaskSpawn", Item.callee, "", 0)>>, N)
      BY Opcodes, QuietWork, QuietTuples
    <3> QED
      BY <2>1, <2>3, <3>1, <3>2, SilentAction
  <2> QED
    BY <2>1, <2>4, <2>5, <2>6
<1>7. CASE BuildExprStmt
  <2>1. work # <<>> /\ Item.node = "ExprStmt" /\ fn' = fn /\ Keep /\ Then(<<Item.expr, Drop>>)
    BY <1>7 DEF BuildExprStmt, Working
  <2>2. Item.expr \in Trees
    BY <2>1, FirstItem, TreeNodes DEF ItemOK
  <2>3. QuietItem(Item.expr, N) /\ QuietItem(Drop, N)
    BY <2>2, QuietTree, QuietWork
  <2>4. Quiet(<<Item.expr, Drop>>, N) /\ Same(fn, fn')
    BY <1>0, <2>1, <2>3, QuietTuples, SameItself
  <2> QED
    BY <2>1, <2>4, SilentAction
<1>8. CASE EndExprStmt
  <2>1. work # <<>> /\ Item.node = "Drop" /\ fn' = Pop(1) /\ Keep /\ Then(<<>>)
    BY <1>8 DEF EndExprStmt, Working
  <2>2. Same(fn, fn')
    BY <1>0, <2>1, SamePop
  <2> QED
    BY <2>1, <2>2, QuietTuples, SilentAction
<1>9. CASE BuildUnknown
  <2>1. work # <<>> /\ Item.node \in {"Break", "Continue"} /\ fn' = fn /\ Keep /\ Then(<<>>)
    BY <1>9 DEF BuildUnknown
  <2>2. Same(fn, fn')
    BY <1>0, <2>1, SameItself
  <2> QED
    BY <2>1, <2>2, QuietTuples, SilentAction
<1> QED
  BY <1>1, <1>2, <1>3, <1>4, <1>5, <1>6, <1>7, <1>8, <1>9

(***************************************************************************)
(* Actions that open blocks.  A segment is a list of items that opens the  *)
(* blocks O, in the order the provisions of WorkOK ask for, and jumps to   *)
(* blocks in M only.                                                       *)
(***************************************************************************)
Segment(s, naked, O, M) ==
    /\ IsSeq(s) /\ Chain(s) /\ Once(s)
    /\ Opens(s) = O
    /\ \A i \in ToSet(s) : /\ ItemOK(i, naked)
                           /\ i.node \notin {"Finish", "Dominance", "Frontiers", "Phis"}
                           /\ Mentions(i) \subseteq M

\* Two segments make a segment when they open different blocks and the second finds the
\* block closed if it needs it.
LEMMA SegmentJoined ==
    ASSUME NEW a, NEW b, NEW naked, NEW O, NEW P, NEW M,
           Segment(a, naked, O, M), Segment(b, naked, P, M), O \cap P = {},
           b # <<>> /\ NeedsClosed(b[1]) => a = <<>> \/ Closes(a[Len(a)])
    PROVE  Segment(a \o b, naked, O \cup P, M)
<1>1. IsSeq(a) /\ IsSeq(b) /\ Chain(a) /\ Chain(b) /\ Once(a) /\ Once(b)
      /\ Opens(a) = O /\ Opens(b) = P
  BY DEF Segment
<1>2. IsSeq(a \o b) /\ ToSet(a \o b) = ToSet(a) \cup ToSet(b)
  BY <1>1, Joined
<1>3. Chain(a \o b)
  BY <1>1, JoinedChain
<1>4. Once(a \o b)
  BY <1>1, JoinedOnce
<1>5. Opens(a \o b) = O \cup P
  BY <1>1, JoinedOpens
<1>6. \A i \in ToSet(a \o b) : /\ ItemOK(i, naked)
                               /\ i.node \notin {"Finish", "Dominance", "Frontiers", "Phis"}
                               /\ Mentions(i) \subseteq M
  BY <1>2 DEF Segment
<1> QED
  BY <1>2, <1>3, <1>4, <1>5, <1>6 DEF Segment

\* A quiet sequence is a segment that opens nothing.
LEMMA SegmentQuiet ==
    ASSUME NEW s, NEW naked, NEW M, Quiet(s, naked)
    PROVE  Segment(s, naked, {}, M) /\ (s # <<>> => ~NeedsClosed(s[1]))
<1>1. IsSeq(s) /\ Chain(s) /\ Once(s) /\ Opens(s) = {}
  BY QuietFacts DEF Quiet
<1>2. \A i \in ToSet(s) : /\ ItemOK(i, naked)
                          /\ i.node \notin {"Finish", "Dominance", "Frontiers", "Phis"}
                          /\ Mentions(i) \subseteq M
                          /\ ~NeedsClosed(i)
  BY DEF Quiet, QuietItem, NeedsClosed
<1>3. s # <<>> => s[1] \in ToSet(s)
  BY <1>1, HeadAndTail
<1> QED
  BY <1>1, <1>2, <1>3 DEF Segment

\* An item that is not an OpenBlock is a segment by itself.
LEMMA SegmentSingle ==
    ASSUME NEW i, NEW naked, NEW M, ItemOK(i, naked), Mentions(i) \subseteq M,
           i.node \notin {"Finish", "Dominance", "Frontiers", "Phis", "OpenBlock"}
    PROVE  Segment(<<i>>, naked, {}, M)
<1>1. IsSeq(<<i>>) /\ Len(<<i>>) = 1 /\ <<i>>[1] = i /\ ToSet(<<i>>) = {i}
  BY TupleSeqs
<1>2. Chain(<<i>>) /\ Once(<<i>>)
  BY <1>1 DEF Chain, Once
<1>3. Opens(<<i>>) = {}
  BY <1>1 DEF Opens
<1> QED
  BY <1>1, <1>2, <1>3 DEF Segment

\* So is an OpenBlock, which opens its label.
LEMMA SegmentOpen ==
    ASSUME NEW l \in Inner, NEW naked, NEW M
    PROVE  Segment(<<OpenBlock(l)>>, naked, {l}, M)
<1> DEFINE i == OpenBlock(l)
<1>1. i.node = "OpenBlock" /\ i.label = l
  BY DEF OpenBlock
<1> HIDE DEF i
<1>2. IsSeq(<<i>>) /\ Len(<<i>>) = 1 /\ <<i>>[1] = i /\ ToSet(<<i>>) = {i}
  BY TupleSeqs
<1>3. Chain(<<i>>) /\ Once(<<i>>)
  BY <1>2 DEF Chain, Once
<1>4. Opens(<<i>>) = {l}
  BY <1>1, <1>2 DEF Opens
<1>5. ItemOK(i, naked) /\ Mentions(i) = {}
  BY <1>1 DEF ItemOK, Mentions
<1>6. Segment(<<i>>, naked, {l}, M)
  BY <1>1, <1>2, <1>3, <1>4, <1>5 DEF Segment
<1> QED
  BY <1>6 DEF i

\* So is a chunk of code; it closes the block when it ends in a jump.
LEMMA SegmentCode ==
    ASSUME NEW c, NEW naked, NEW M, ChunkOK(c, naked), Targets(c) \subseteq M
    PROVE  Segment(<<Code(c)>>, naked, {}, M) /\ ~NeedsClosed(Code(c))
           /\ (Ends(c) => Closes(Code(c)))
<1>1. Code(c).node = "Code" /\ Code(c).insts = c
  BY DEF Code
<1>2. ItemOK(Code(c), naked) /\ Mentions(Code(c)) \subseteq M
  BY <1>1 DEF ItemOK, Mentions
<1>3. ~NeedsClosed(Code(c)) /\ (Ends(c) => Closes(Code(c)))
  BY <1>1 DEF NeedsClosed, Closes
<1> QED
  BY <1>1, <1>2, <1>3, SegmentSingle

\* A tuple is the concatenation of its front and its last element.
LEMMA TupleJoins ==
    /\ \A a, b : <<a, b>> = <<a>> \o <<b>>
    /\ \A a, b, c : <<a, b, c>> = <<a, b>> \o <<c>>
    /\ \A a, b, c, d : <<a, b, c, d>> = <<a, b, c>> \o <<d>>
<1>1. ASSUME NEW a, NEW b PROVE <<a, b>> = <<a>> \o <<b>>
  <2> DEFINE s == <<a>> \o <<b>>
  <2>1. /\ IsSeq(<<a>>) /\ Len(<<a>>) = 1 /\ ToSet(<<a>>) = {a}
        /\ IsSeq(<<b>>) /\ Len(<<b>>) = 1 /\ ToSet(<<b>>) = {b}
    BY TupleSeqs
  <2>2. IsSeq(s) /\ Len(s) = 2 /\ ToSet(s) = {a, b}
    <3>1. IsSeq(s) /\ Len(s) = Len(<<a>>) + Len(<<b>>)
      BY <2>1, Joined
    <3>2. ToSet(s) = ToSet(<<a>>) \cup ToSet(<<b>>)
      BY <2>1, Joined
    <3>3. ToSet(s) = {a, b}
      BY <2>1, <3>2
    <3> QED
      BY <2>1, <3>1, <3>3
  <2>3. s[1] = a /\ s[2] = b
    BY <2>1, Joined
  <2>4. s \in Seq({a, b})
    BY <2>2, SeqOver
  <2>5. <<a, b>> \in Seq({a, b}) /\ Len(<<a, b>>) = 2
    OBVIOUS
  <2> HIDE DEF s
  <2>6. \A i \in 1 .. 2 : <<a, b>>[i] = s[i]
    BY <2>3
  <2>7. <<a, b>> = s
    BY <2>2, <2>4, <2>5, <2>6, SeqEqual
  <2> QED
    BY <2>7 DEF s
<1>2. ASSUME NEW a, NEW b, NEW c PROVE <<a, b, c>> = <<a, b>> \o <<c>>
  <2> DEFINE s == <<a, b>> \o <<c>>
  <2>1. /\ IsSeq(<<a, b>>) /\ Len(<<a, b>>) = 2 /\ ToSet(<<a, b>>) = {a, b}
        /\ IsSeq(<<c>>) /\ Len(<<c>>) = 1 /\ ToSet(<<c>>) = {c}
    BY TupleSeqs
  <2>2. IsSeq(s) /\ Len(s) = 3 /\ ToSet(s) = {a, b, c}
    BY <2>1, Joined
  <2>3. s[1] = a /\ s[2] = b /\ s[3] = c
    BY <2>1, Joined
  <2>4. s \in Seq({a, b, c})
    BY <2>2, SeqOver
  <2>5. <<a, b, c>> \in Seq({a, b, c}) /\ Len(<<a, b, c>>) = 3
    OBVIOUS
  <2> HIDE DEF s
  <2>6. \A i \in 1 .. 3 : <<a, b, c>>[i] = s[i]
    BY <2>3
  <2>7. <<a, b, c>> = s
    BY <2>2, <2>4, <2>5, <2>6, SeqEqual
  <2> QED
    BY <2>7 DEF s
<1>3. ASSUME NEW a, NEW b, NEW c, NEW d PROVE <<a, b, c, d>> = <<a, b, c>> \o <<d>>
  <2> DEFINE s == <<a, b, c>> \o <<d>>
  <2>1. /\ IsSeq(<<a, b, c>>) /\ Len(<<a, b, c>>) = 3 /\ ToSet(<<a, b, c>>) = {a, b, c}
        /\ IsSeq(<<d>>) /\ Len(<<d>>) = 1 /\ ToSet(<<d>>) = {d}
    BY TupleSeqs
  <2>2. IsSeq(s) /\ Len(s) = 4 /\ ToSet(s) = {a, b, c, d}
    BY <2>1, Joined
  <2>3. s[1] = a /\ s[2] = b /\ s[3] = c /\ s[4] = d
    BY <2>1, Joined
  <2>4. s \in Seq({a, b, c, d})
    BY <2>2, SeqOver
  <2>5. <<a, b, c, d>> \in Seq({a, b, c, d}) /\ Len(<<a, b, c, d>>) = 4
    OBVIOUS
  <2> HIDE DEF s
  <2>6. \A i \in 1 .. 4 : <<a, b, c, d>>[i] = s[i]
    BY <2>3
  <2>7. <<a, b, c, d>> = s
    BY <2>2, <2>4, <2>5, <2>6, SeqEqual
  <2> QED
    BY <2>7 DEF s
<1> QED
  BY <1>1, <1>2, <1>3

\* Two well-formed chunks make a well-formed chunk.
LEMMA ChunkJoined ==
    ASSUME NEW c, NEW d, NEW naked, ChunkOK(c, naked), ChunkOK(d, naked)
    PROVE  ChunkOK(c \o d, naked)
<1>1. IsSeq(c) /\ IsSeq(d) /\ Len(c) \in Nat /\ Len(d) \in Nat
  BY SeqFacts DEF ChunkOK
<1>2. IsSeq(c \o d) /\ Len(c \o d) = Len(c) + Len(d)
  BY <1>1, Joined
<1>3. \A j \in 1 .. Len(c) + Len(d) :
         \/ j \in 1 .. Len(c) /\ (c \o d)[j] = c[j]
         \/ j - Len(c) \in 1 .. Len(d) /\ (c \o d)[j] = d[j - Len(c)]
  BY <1>1, Joined
<1>4. \A j \in 1 .. Len(c \o d) : IsInst((c \o d)[j]) /\ (c \o d)[j].op # "RegionEnter"
  BY <1>2, <1>3 DEF ChunkOK
<1>5. ExitsOK(c \o d, naked)
  BY <1>1, JoinedExits DEF ChunkOK
<1> QED
  BY <1>2, <1>4, <1>5 DEF ChunkOK

\* A branch is a well-formed chunk that ends its block.
LEMMA JumpChunk ==
    ASSUME NEW i, NEW naked, IsInst(i), i.op \in {"Branch", "CondBranch"}
    PROVE  ChunkOK(<<i>>, naked) /\ Ends(<<i>>) /\ Targets(<<i>>) = ToSet(i.to)
<1>1. IsSeq(<<i>>) /\ Len(<<i>>) = 1 /\ <<i>>[1] = i /\ DOMAIN <<i>> = {1}
  BY TupleSeqs
<1>2. ChunkOK(<<i>>, naked)
  BY <1>1 DEF ChunkOK, ExitsOK
<1>3. Ends(<<i>>)
  BY <1>1 DEF Ends, Jumps
<1>4. Targets(<<i>>) = ToSet(i.to)
  BY <1>1 DEF Targets
<1> QED
  BY <1>2, <1>3, <1>4

\* An unconditional branch mentions its one target.
LEMMA BranchChunk ==
    ASSUME NEW l \in Inner, NEW v, NEW naked
    PROVE  LET c == <<Jump("Branch", v, <<l>>)>>
           IN  ChunkOK(c, naked) /\ Ends(c) /\ Targets(c) = {l}
<1> DEFINE i == Jump("Branch", v, <<l>>)
<1>1. i.op = "Branch" /\ i.to = <<l>>
  BY DEF Jump, Inst
<1>2. <<l>> \in Seq(Inner) /\ Len(<<l>>) = 1 /\ ToSet(<<l>>) = {l}
  BY TupleSeqs
<1> HIDE DEF i
<1>3. IsInst(i)
  BY <1>1, <1>2 DEF IsInst
<1>4. ChunkOK(<<i>>, naked) /\ Ends(<<i>>) /\ Targets(<<i>>) = {l}
  BY <1>1, <1>2, <1>3, JumpChunk
<1> QED
  BY <1>4 DEF i

\* A conditional branch mentions its two targets.
LEMMA CondBranchChunk ==
    ASSUME NEW l \in Inner, NEW m \in Inner, NEW v, NEW naked
    PROVE  LET c == <<Jump("CondBranch", v, <<l, m>>)>>
           IN  ChunkOK(c, naked) /\ Ends(c) /\ Targets(c) = {l, m}
<1> DEFINE i == Jump("CondBranch", v, <<l, m>>)
<1>1. i.op = "CondBranch" /\ i.to = <<l, m>>
  BY DEF Jump, Inst
<1>2. <<l, m>> \in Seq(Inner) /\ Len(<<l, m>>) = 2 /\ ToSet(<<l, m>>) = {l, m}
  BY TupleSeqs
<1> HIDE DEF i
<1>3. IsInst(i)
  BY <1>1, <1>2 DEF IsInst
<1>4. ChunkOK(<<i>>, naked) /\ Ends(<<i>>) /\ Targets(<<i>>) = {l, m}
  BY <1>1, <1>2, <1>3, JumpChunk
<1> QED
  BY <1>4 DEF i

\* An instruction, then a jump.
LEMMA PlainThenJump ==
    ASSUME NEW p, NEW j, NEW naked, p.op \in Plain, p.to = <<>>,
           ChunkOK(<<j>>, naked), Ends(<<j>>)
    PROVE  ChunkOK(<<p, j>>, naked) /\ Ends(<<p, j>>) /\ Targets(<<p, j>>) = Targets(<<j>>)
<1>1. ChunkOK(<<p>>, naked) /\ IsSeq(<<p>>) /\ IsSeq(<<j>>) /\ Targets(<<p>>) = {}
  BY PlainChunk, TupleSeqs
<1>2. <<p, j>> = <<p>> \o <<j>>
  BY TupleJoins
<1>3. ChunkOK(<<p>> \o <<j>>, naked) /\ Ends(<<p>> \o <<j>>)
  BY <1>1, ChunkJoined, JoinedEnds
<1>4. Targets(<<p>> \o <<j>>) = {} \cup Targets(<<j>>)
  <2>1. Targets(<<p>> \o <<j>>) = Targets(<<p>>) \cup Targets(<<j>>)
    BY <1>1, JoinedTargets
  <2> QED
    BY <1>1, <2>1
<1> QED
  BY <1>2, <1>3, <1>4

\* An action that ends the block and replaces its item by a segment of fresh blocks
\* keeps the promises.
LEMMA SegmentStep ==
    ASSUME NEW f, NEW g, NEW insts, NEW naked, NEW w, NEW items, NEW O,
           FnOK(f, naked), WorkOK(f, w, naked), w # <<>>,
           w[1].node # "OpenBlock", ~Closes(w[1]),
           Emits(f, g, insts), ChunkOK(insts, naked), Ends(insts), Targets(insts) \subseteq O,
           Segment(items, naked, O, O), O \subseteq NumberedFrom(f.labels, g.labels)
    PROVE  FnOK(g, naked) /\ WorkOK(g, items \o Tail(w), naked)
<1>1. Ends(g.code[g.cur])
  <2>1. g.cur = f.cur /\ g.code[f.cur] = f.code[f.cur] \o insts
    BY DEF Emits, FnOK
  <2>2. IsSeq(f.code[f.cur]) /\ IsSeq(insts)
    BY DEF FnOK, BlockOK, ChunkOK
  <2> QED
    BY <2>1, <2>2, JoinedEnds
<1>2. /\ IsSeq(items) /\ Chain(items) /\ Once(items) /\ Opens(items) = O
      /\ \A i \in ToSet(items) : ItemOK(i, naked) /\ Mentions(i) \subseteq O
      /\ \A i \in ToSet(items) : i.node \notin {"Finish", "Phis"}
  BY DEF Segment
<1>3. \A j \in 1 .. Len(items) : items[j] \in ToSet(items)
  BY <1>2, SeqFacts
<1>4. \A j \in 1 .. Len(items) : items[j].node \notin {"Finish", "Phis"}
  BY <1>2, <1>3
<1>5. \A i \in ToSet(items) : Mentions(i) \subseteq DOMAIN f.code \cup Opens(w) \cup Opens(items)
  BY <1>2
<1> QED
  BY <1>1, <1>2, <1>4, <1>5, WorkAdvances

\* The last element of a sequence something was added to.
LEMMA LastOf ==
    ASSUME NEW a, NEW x, IsSeq(a)
    PROVE  (a \o <<x>>)[Len(a \o <<x>>)] = x
<1>1. Len(a) \in Nat /\ IsSeq(<<x>>) /\ Len(<<x>>) = 1 /\ <<x>>[1] = x
  BY SeqFacts, TupleSeqs
<1>2. Len(a \o <<x>>) = Len(a) + 1 /\ (a \o <<x>>)[Len(a) + 1] = x
  BY <1>1, Joined
<1> QED
  BY <1>2

\* A segment, statements after it.
LEMMA SegmentThenTrees ==
    ASSUME NEW a, NEW T \in Seq(Trees), NEW naked, NEW O, NEW M, Segment(a, naked, O, M)
    PROVE  Segment(a \o T, naked, O, M)
<1>1. Quiet(T, naked)
  BY QuietSeqs
<1>2. Segment(T, naked, {}, M) /\ (T # <<>> => ~NeedsClosed(T[1]))
  BY <1>1, SegmentQuiet
<1>3. Segment(a \o T, naked, O \cup {}, M)
  BY <1>2, SegmentJoined
<1> QED
  BY <1>3

\* A segment, then code that ends the block.
LEMMA SegmentThenCode ==
    ASSUME NEW a, NEW c, NEW naked, NEW O, NEW M, Segment(a, naked, O, M),
           ChunkOK(c, naked), Ends(c), Targets(c) \subseteq M
    PROVE  /\ Segment(a \o <<Code(c)>>, naked, O, M)
           /\ Closes((a \o <<Code(c)>>)[Len(a \o <<Code(c)>>)])
<1>1. Segment(<<Code(c)>>, naked, {}, M) /\ ~NeedsClosed(Code(c)) /\ Closes(Code(c))
  BY SegmentCode
<1>2. <<Code(c)>>[1] = Code(c)
  BY TupleSeqs
<1>3. Segment(a \o <<Code(c)>>, naked, O \cup {}, M)
  BY <1>1, <1>2, SegmentJoined
<1>4. (a \o <<Code(c)>>)[Len(a \o <<Code(c)>>)] = Code(c)
  BY LastOf DEF Segment
<1> QED
  BY <1>1, <1>3, <1>4

\* A segment that ends its block, then the opening of another.
LEMMA SegmentThenOpen ==
    ASSUME NEW a, NEW l \in Inner, NEW naked, NEW O, NEW M, Segment(a, naked, O, M),
           Closes(a[Len(a)]), l \notin O
    PROVE  Segment(a \o <<OpenBlock(l)>>, naked, O \cup {l}, M)
<1>1. Segment(<<OpenBlock(l)>>, naked, {l}, M)
  BY SegmentOpen
<1> QED
  BY <1>1, SegmentJoined

\* Statements, the jump that ends their block and the opening of the next block.
LEMMA SegmentEnd ==
    ASSUME NEW a, NEW T \in Seq(Trees), NEW c, NEW l \in Inner, NEW naked, NEW O, NEW M,
           Segment(a, naked, O, M), ChunkOK(c, naked), Ends(c), Targets(c) \subseteq M, l \notin O
    PROVE  Segment(a \o T \o <<Code(c), OpenBlock(l)>>, naked, O \cup {l}, M)
<1> DEFINE s == a \o T
<1>1. Segment(s, naked, O, M)
  BY SegmentThenTrees
<1> HIDE DEF s
<1>2. /\ Segment(s \o <<Code(c)>>, naked, O, M)
      /\ Closes((s \o <<Code(c)>>)[Len(s \o <<Code(c)>>)])
  BY <1>1, SegmentThenCode
<1>3. Segment((s \o <<Code(c)>>) \o <<OpenBlock(l)>>, naked, O \cup {l}, M)
  BY <1>2, SegmentThenOpen
<1>4. (s \o <<Code(c)>>) \o <<OpenBlock(l)>> = s \o <<Code(c), OpenBlock(l)>>
  <2>1. <<Code(c), OpenBlock(l)>> = <<Code(c)>> \o <<OpenBlock(l)>>
    BY TupleJoins
  <2> DEFINE S == ToSet(s) \cup {Code(c), OpenBlock(l)}
  <2>2. s \in Seq(S) /\ <<Code(c)>> \in Seq(S) /\ <<OpenBlock(l)>> \in Seq(S)
    BY <1>1, SeqOver, TupleSeqs DEF Segment
  <2> HIDE DEF S
  <2>3. (s \o <<Code(c)>>) \o <<OpenBlock(l)>> = s \o (<<Code(c)>> \o <<OpenBlock(l)>>)
    BY <2>2, ConcatAssociative
  <2> QED
    BY <2>1, <2>3
<1> QED
  BY <1>3, <1>4 DEF s

\* What an if statement leaves on the stack is a segment: both arms branch to the merge
\* block.
LEMMA IfSegment ==
    ASSUME NEW naked, NEW a \in Inner, NEW b \in Inner, NEW m \in Inner, a # b, a # m, b # m,
           NEW T \in Seq(Trees), NEW E \in Seq(Trees), NEW c,
           ChunkOK(c, naked), Ends(c), Targets(c) = {m}
    PROVE  Segment(<<OpenBlock(a)>> \o T \o <<Code(c)>> \o <<OpenBlock(b)>> \o E \o
                       <<Code(c), OpenBlock(m)>>, naked, {a, b, m}, {a, b, m})
<1> DEFINE M == {a, b, m}
           s1 == <<OpenBlock(a)>> \o T
           s2 == s1 \o <<Code(c)>>
           s3 == s2 \o <<OpenBlock(b)>>
<1>1. Segment(<<OpenBlock(a)>>, naked, {a}, M)
  BY SegmentOpen
<1>2. Segment(s1, naked, {a}, M)
  BY <1>1, SegmentThenTrees
<1> HIDE DEF s1
<1>3. Segment(s2, naked, {a}, M) /\ Closes(s2[Len(s2)])
  BY <1>2, SegmentThenCode
<1> HIDE DEF s2
<1>4. Segment(s3, naked, {a} \cup {b}, M)
  BY <1>3, SegmentThenOpen
<1> HIDE DEF s3
<1>5. Segment(s3 \o E \o <<Code(c), OpenBlock(m)>>, naked, ({a} \cup {b}) \cup {m}, M)
  BY <1>4, SegmentEnd
<1>6. ({a} \cup {b}) \cup {m} = {a, b, m}
  OBVIOUS
<1> QED
  BY <1>5, <1>6 DEF s1, s2, s3

\* So is what a while statement leaves: the body branches back to the condition.
LEMMA WhileSegment ==
    ASSUME NEW naked, NEW a \in Inner, NEW b \in Inner, NEW m \in Inner, a # b, a # m, b # m,
           NEW cond \in Trees, NEW T \in Seq(Trees), NEW c,
           ChunkOK(c, naked), Ends(c), Targets(c) = {a}
    PROVE  Segment(<<OpenBlock(a), cond, Test(b, m), OpenBlock(b)>> \o T \o
                       <<Code(c), OpenBlock(m)>>, naked, {a, b, m}, {a, b, m})
<1> DEFINE M == {a, b, m}
           s1 == <<OpenBlock(a)>> \o <<cond>>
           s2 == s1 \o <<Test(b, m)>>
           s3 == s2 \o <<OpenBlock(b)>>
<1>1. <<OpenBlock(a), cond, Test(b, m), OpenBlock(b)>> = s3
  BY TupleJoins
<1>2. Segment(<<OpenBlock(a)>>, naked, {a}, M)
  BY SegmentOpen
<1>3. Segment(s1, naked, {a}, M)
  <2>1. <<cond>> \in Seq(Trees)
    OBVIOUS
  <2> QED
    BY <1>2, <2>1, SegmentThenTrees
<1> HIDE DEF s1
<1>4. Segment(s2, naked, {a}, M) /\ Closes(s2[Len(s2)])
  <2>1. Test(b, m).node = "Test" /\ Test(b, m).bodyLbl = b /\ Test(b, m).endLbl = m
    BY DEF Test
  <2>2. /\ ItemOK(Test(b, m), naked) /\ Mentions(Test(b, m)) \subseteq M
        /\ ~NeedsClosed(Test(b, m)) /\ Closes(Test(b, m))
    BY <2>1 DEF ItemOK, Mentions, NeedsClosed, Closes
  <2>3. Segment(<<Test(b, m)>>, naked, {}, M)
    BY <2>1, <2>2, SegmentSingle
  <2>4. <<Test(b, m)>>[1] = Test(b, m)
    BY TupleSeqs
  <2>5. Segment(s2, naked, {a} \cup {}, M)
    BY <1>3, <2>2, <2>3, <2>4, SegmentJoined
  <2>6. s2[Len(s2)] = Test(b, m)
    BY <1>3, LastOf DEF Segment
  <2> QED
    BY <2>2, <2>5, <2>6
<1> HIDE DEF s2
<1>5. Segment(s3, naked, {a} \cup {b}, M)
  BY <1>4, SegmentThenOpen
<1> HIDE DEF s3
<1>6. Segment(s3 \o T \o <<Code(c), OpenBlock(m)>>, naked, ({a} \cup {b}) \cup {m}, M)
  BY <1>5, SegmentEnd
<1>7. ({a} \cup {b}) \cup {m} = {a, b, m}
  OBVIOUS
<1> QED
  BY <1>1, <1>6, <1>7

\* So is what a for statement leaves.
LEMMA ForSegment ==
    ASSUME NEW naked, NEW a \in Inner, NEW b \in Inner, NEW m \in Inner, a # b, a # m, b # m,
           NEW T \in Seq(Trees), NEW c, NEW d,
           ChunkOK(c, naked), Ends(c), Targets(c) = {a},
           ChunkOK(d, naked), Ends(d), Targets(d) = {b, m}
    PROVE  Segment(<<OpenBlock(a), Code(d), OpenBlock(b)>> \o T \o
                       <<Code(c), OpenBlock(m)>>, naked, {a, b, m}, {a, b, m})
<1> DEFINE M == {a, b, m}
           s1 == <<OpenBlock(a)>>
           s2 == s1 \o <<Code(d)>>
           s3 == s2 \o <<OpenBlock(b)>>
<1>1. <<OpenBlock(a), Code(d), OpenBlock(b)>> = s3
  BY TupleJoins, SMTT(40)
<1>2. Segment(s1, naked, {a}, M)
  BY SegmentOpen
<1> HIDE DEF s1
<1>3. Segment(s2, naked, {a}, M) /\ Closes(s2[Len(s2)])
  BY <1>2, SegmentThenCode
<1> HIDE DEF s2
<1>4. Segment(s3, naked, {a} \cup {b}, M)
  BY <1>3, SegmentThenOpen
<1> HIDE DEF s3
<1>5. Segment(s3 \o T \o <<Code(c), OpenBlock(m)>>, naked, ({a} \cup {b}) \cup {m}, M)
  BY <1>4, SegmentEnd
<1>6. ({a} \cup {b}) \cup {m} = {a, b, m}
  OBVIOUS
<1> QED
  BY <1>1, <1>5, <1>6

\* A list that opens no block, after another: nothing more is promised.
LEMMA PromisedThen ==
    ASSUME NEW a, NEW b, NEW G, IsSeq(a), IsSeq(b), Promised(a, G),
           \A i \in ToSet(b) : i.node # "OpenBlock"
    PROVE  Promised(a \o b, G)
<1> DEFINE M == {}
<1>1. \A j \in 1 .. Len(b) : b[j] \in ToSet(b)
  BY SeqFacts
<1>2. Promised(b, G \cup M) /\ \A x \in M : \E i \in 1 .. Len(a) : x \in Mentions(a[i])
  BY <1>1 DEF Promised
<1> HIDE DEF M
<1> QED
  BY <1>2, PromisedJoined

\* A block that G or the list before jumps to is opened.
LEMMA PromisedOpen ==
    ASSUME NEW a, NEW l, NEW G, IsSeq(a), Promised(a, G),
           l \in G \/ \E i \in ToSet(a) : l \in Mentions(i)
    PROVE  Promised(a \o <<OpenBlock(l)>>, G)
<1> DEFINE M == {x \in {l} : \E i \in ToSet(a) : x \in Mentions(i)}
           b == <<OpenBlock(l)>>
<1>1. OpenBlock(l).label = l
  BY DEF OpenBlock
<1>2. IsSeq(b) /\ Len(b) = 1 /\ b[1] = OpenBlock(l)
  BY TupleSeqs
<1>3. \A x \in M : \E i \in 1 .. Len(a) : x \in Mentions(a[i])
  BY SeqFacts
<1>4. l \in G \cup M
  OBVIOUS
<1> HIDE DEF M, b
<1>5. Promised(b, G \cup M)
  BY <1>1, <1>2, <1>4 DEF Promised
<1>6. Promised(a \o b, G)
  BY <1>2, <1>3, <1>5, PromisedJoined
<1> QED
  BY <1>6 DEF b

\* Statements, the jump that ends their block and the opening of the next one.
LEMMA PromisedEnd ==
    ASSUME NEW a, NEW T \in Seq(Trees), NEW c, NEW l, NEW G, IsSeq(a), Promised(a, G),
           l \in G \/ l \in Targets(c) \/ \E i \in ToSet(a) : l \in Mentions(i)
    PROVE  Promised(a \o T \o <<Code(c), OpenBlock(l)>>, G)
<1> DEFINE s == a \o T
           b == <<Code(c), OpenBlock(l)>>
           M == {x \in {l} : \E i \in ToSet(a) : x \in Mentions(i)}
<1>1. /\ OpenBlock(l).label = l /\ Code(c).node = "Code" /\ Code(c).insts = c
  BY DEF OpenBlock, Code
<1>2. IsSeq(T) /\ \A i \in ToSet(T) : i.node # "OpenBlock"
  BY QuietSeqs DEF Quiet, QuietItem
<1>3. Promised(s, G) /\ IsSeq(s) /\ ToSet(a) \subseteq ToSet(s)
  BY <1>2, PromisedThen, Joined
<1>4. IsSeq(b) /\ Len(b) = 2 /\ b[1] = Code(c) /\ b[2] = OpenBlock(l)
  BY TupleSeqs
<1> HIDE DEF s
<1>5. \A x \in M : \E i \in 1 .. Len(s) : x \in Mentions(s[i])
  BY <1>3, SeqFacts
<1>6. l \in G \cup M \/ l \in Targets(c)
  OBVIOUS
<1>7. Mentions(b[1]) = Targets(c)
  BY <1>1, <1>4 DEF Mentions
<1> HIDE DEF M, b
<1>8. Promised(b, G \cup M)
  <2> SUFFICES ASSUME NEW j \in 1 .. 2, b[j].node = "OpenBlock"
               PROVE  \/ b[j].label \in G \cup M
                      \/ \E i \in 1 .. j - 1 : b[j].label \in Mentions(b[i])
    BY <1>4 DEF Promised
  <2>1. j = 2
    BY <1>1, <1>4
  <2>2. b[j].label = l
    BY <1>1, <1>4, <2>1
  <2>3. 1 \in 1 .. j - 1
    BY <2>1
  <2> QED
    BY <1>6, <1>7, <2>2, <2>3
<1>9. Promised(s \o b, G)
  BY <1>3, <1>4, <1>5, <1>8, PromisedJoined
<1> QED
  BY <1>9 DEF b, s

\* One item that opens a block jumped to already.
LEMMA PromisedFirst ==
    ASSUME NEW l, NEW G, l \in G
    PROVE  Promised(<<OpenBlock(l)>>, G)
<1>1. OpenBlock(l).label = l
  BY DEF OpenBlock
<1> QED
  BY <1>1, TupleSeqs DEF Promised

\* The blocks of an if statement: its branch leads to the arms, they lead to the merge
\* block.
LEMMA IfPromised ==
    ASSUME NEW a, NEW b, NEW m, NEW T \in Seq(Trees), NEW E \in Seq(Trees), NEW c, Targets(c) = {m}
    PROVE  Promised(<<OpenBlock(a)>> \o T \o <<Code(c)>> \o <<OpenBlock(b)>> \o E \o
                        <<Code(c), OpenBlock(m)>>, {a, b})
<1> DEFINE G == {a, b}
           s1 == <<OpenBlock(a)>> \o T
           s2 == s1 \o <<Code(c)>>
           s3 == s2 \o <<OpenBlock(b)>>
<1>0. a \in G /\ b \in G
  OBVIOUS
<1> HIDE DEF G
<1>1. IsSeq(<<OpenBlock(a)>>) /\ Promised(<<OpenBlock(a)>>, G)
  BY <1>0, PromisedFirst, TupleSeqs
<1>2. IsSeq(T) /\ \A i \in ToSet(T) : i.node # "OpenBlock"
  BY QuietSeqs DEF Quiet, QuietItem
<1>3. IsSeq(s1) /\ Promised(s1, G)
  BY <1>1, <1>2, PromisedThen, Joined
<1> HIDE DEF s1
<1>4. IsSeq(<<Code(c)>>) /\ \A i \in ToSet(<<Code(c)>>) : i.node # "OpenBlock"
  BY TupleSeqs DEF Code
<1>5. IsSeq(s2) /\ Promised(s2, G)
  BY <1>3, <1>4, PromisedThen, Joined
<1> HIDE DEF s2
<1>6. IsSeq(<<OpenBlock(b)>>)
  BY TupleSeqs
<1>7. IsSeq(s3) /\ Promised(s3, G)
  BY <1>0, <1>5, <1>6, PromisedOpen, Joined
<1> HIDE DEF s3
<1>8. m \in Targets(c)
  OBVIOUS
<1>9. Promised(s3 \o E \o <<Code(c), OpenBlock(m)>>, G)
  BY <1>7, <1>8, PromisedEnd
<1> QED
  BY <1>9 DEF s1, s2, s3, G

\* Those of a while statement: it branches to the condition, the test to the other two.
LEMMA WhilePromised ==
    ASSUME NEW a, NEW b, NEW m, NEW cond \in Trees, NEW T \in Seq(Trees), NEW c
    PROVE  Promised(<<OpenBlock(a), cond, Test(b, m), OpenBlock(b)>> \o T \o
                        <<Code(c), OpenBlock(m)>>, {a})
<1> DEFINE G == {a}
           s0 == <<OpenBlock(a)>>
           s1 == s0 \o <<cond>>
           s2 == s1 \o <<Test(b, m)>>
           s3 == s2 \o <<OpenBlock(b)>>
<1>0. a \in G
  OBVIOUS
<1>1. <<OpenBlock(a), cond, Test(b, m), OpenBlock(b)>> = s3
  BY TupleJoins
<1> HIDE DEF G
<1>2. IsSeq(s0) /\ Promised(s0, G)
  BY <1>0, PromisedFirst, TupleSeqs
<1>3. Test(b, m).node = "Test" /\ Test(b, m).bodyLbl = b /\ Test(b, m).endLbl = m
  BY DEF Test
<1>4. IsSeq(<<cond>>) /\ \A i \in ToSet(<<cond>>) : i.node # "OpenBlock"
  BY TreeNodes, TupleSeqs
<1> HIDE DEF s0
<1>5. IsSeq(s1) /\ Promised(s1, G)
  BY <1>2, <1>4, PromisedThen, Joined
<1>6. IsSeq(<<Test(b, m)>>) /\ ToSet(<<Test(b, m)>>) = {Test(b, m)}
  BY TupleSeqs
<1> HIDE DEF s1
<1>7. IsSeq(s2) /\ Promised(s2, G) /\ Test(b, m) \in ToSet(s2)
  BY <1>3, <1>5, <1>6, PromisedThen, Joined
<1> HIDE DEF s2
<1>8. b \in Mentions(Test(b, m)) /\ m \in Mentions(Test(b, m))
  BY <1>3 DEF Mentions
<1>9. IsSeq(<<OpenBlock(b)>>)
  BY TupleSeqs
<1>10. Promised(s3, G)
  BY <1>7, <1>8, PromisedOpen
<1>11. IsSeq(s3) /\ Test(b, m) \in ToSet(s3)
  BY <1>7, <1>9, Joined
<1> HIDE DEF s3
<1>12. Promised(s3 \o T \o <<Code(c), OpenBlock(m)>>, G)
  BY <1>8, <1>10, <1>11, PromisedEnd
<1> QED
  BY <1>1, <1>12 DEF G

\* Those of a for statement, likewise.
LEMMA ForPromised ==
    ASSUME NEW a, NEW b, NEW m, NEW T \in Seq(Trees), NEW c, NEW d, Targets(d) = {b, m}
    PROVE  Promised(<<OpenBlock(a), Code(d), OpenBlock(b)>> \o T \o
                        <<Code(c), OpenBlock(m)>>, {a})
<1> DEFINE G == {a}
           s1 == <<OpenBlock(a)>>
           s2 == s1 \o <<Code(d)>>
           s3 == s2 \o <<OpenBlock(b)>>
<1>0. a \in G
  OBVIOUS
<1>1. <<OpenBlock(a), Code(d), OpenBlock(b)>> = s3
  BY TupleJoins, SMTT(40)
<1> HIDE DEF G
<1>2. IsSeq(s1) /\ Promised(s1, G)
  BY <1>0, PromisedFirst, TupleSeqs
<1>3. Code(d).node = "Code" /\ Code(d).insts = d
  BY DEF Code
<1>4. IsSeq(<<Code(d)>>) /\ ToSet(<<Code(d)>>) = {Code(d)}
  BY TupleSeqs
<1> HIDE DEF s1
<1>5. IsSeq(s2) /\ Promised(s2, G) /\ Code(d) \in ToSet(s2)
  BY <1>2, <1>3, <1>4, PromisedThen, Joined
<1> HIDE DEF s2
<1>6. b \in Mentions(Code(d)) /\ m \in Mentions(Code(d))
  BY <1>3 DEF Mentions
<1>7. IsSeq(<<OpenBlock(b)>>)
  BY TupleSeqs
<1>8. Promised(s3, G)
  BY <1>5, <1>6, PromisedOpen
<1>9. IsSeq(s3) /\ Code(d) \in ToSet(s3)
  BY <1>5, <1>7, Joined
<1> HIDE DEF s3
<1>10. Promised(s3 \o T \o <<Code(c), OpenBlock(m)>>, G)
  BY <1>6, <1>8, <1>9, PromisedEnd
<1> QED
  BY <1>1, <1>10 DEF G

\* A segment runs no analysis.
LEMMA SegmentFlow ==
    ASSUME NEW s, NEW naked, NEW O, NEW M, Segment(s, naked, O, M)
    PROVE  /\ IsSeq(s) /\ Ordered(s)
           /\ s # <<>> => s[1].node \notin {"Frontiers", "Phis"}
<1>1. IsSeq(s) /\ \A i \in ToSet(s) : i.node \notin {"Frontiers", "Phis"}
  BY DEF Segment
<1>2. /\ \A j \in 1 .. Len(s) : s[j] \in ToSet(s)
      /\ Len(s) \in Nat /\ (s # <<>> => Len(s) >= 1)
  BY <1>1, SeqFacts
<1>3. \A j \in 1 .. Len(s) : s[j].node \notin {"Frontiers", "Phis"}
  BY <1>1, <1>2
<1> QED
  BY <1>1, <1>2, <1>3 DEF Ordered

\* Three labels taken at a time are new and distinct.
LEMMA NewLabels ==
    ASSUME NEW f, NEW g, f.labels \in Nat, g.labels = f.labels + 3,
           NEW p \in LabelKinds, NEW q \in LabelKinds, NEW r \in LabelKinds
    PROVE  LET a == <<p, f.labels + 0>>
               b == <<q, f.labels + 1>>
               m == <<r, f.labels + 2>>
           IN  /\ a \in Inner /\ b \in Inner /\ m \in Inner
               /\ a # b /\ a # m /\ b # m
               /\ {a, b, m} \subseteq NumberedFrom(f.labels, g.labels)
BY DEF Inner, NumberedFrom

\* Numbering three more labels is bookkeeping.
LEMMA EmitsLabels ==
    ASSUME NEW f, NEW g, NEW insts, Emits(f, g, insts), g.labels = f.labels
    PROVE  /\ Emits(f, [g EXCEPT !.labels = @ + 3], insts)
           /\ [g EXCEPT !.labels = @ + 3].labels = f.labels + 3
           /\ Emits(f, [g EXCEPT !.temps = @ + 1, !.labels = @ + 3], insts)
           /\ [g EXCEPT !.temps = @ + 1, !.labels = @ + 3].labels = f.labels + 3
BY DEF Emits, Fields

\* SegmentStep, for an action of the builder.
LEMMA SegmentAction ==
    ASSUME Owed, work # <<>>, NEW insts, NEW items, NEW O,
           Item.node \in {"Split", "While", "Enter"},
           Emits(fn, fn', insts), ChunkOK(insts, Naked), Ends(insts), Targets(insts) \subseteq O,
           Segment(items, Naked, O, O), O \subseteq NumberedFrom(fn.labels, fn'.labels),
           Promised(items, Targets(insts)), Then(items), Keep
    PROVE  Owed'
<1>1. Naked' = Naked
  BY DEF Naked, Keep
<1>2. work[1].node # "OpenBlock" /\ ~Closes(work[1])
  BY FirstItem DEF Closes
<1>3. FnOK(fn', Naked) /\ WorkOK(fn', items \o Tail(work), Naked)
  BY <1>2, SegmentStep DEF Owed
<1>4. /\ IsSeq(items) /\ Ordered(items)
      /\ items # <<>> => items[1].node \notin {"Frontiers", "Phis"}
  BY SegmentFlow
<1>5. /\ Mentions(work[1]) \subseteq Targets(insts)
      /\ work[1].node \notin {"Dominance", "Frontiers"}
  BY FirstItem DEF Mentions
<1>6. FlowOK(fn', items \o Tail(work))
  BY <1>4, <1>5, FlowAdvances DEF Owed
<1> QED
  BY <1>1, <1>3, <1>6 DEF Owed, Then

\* Splitting an if statement after its condition keeps the promises.
LEMMA SplitIfStep ==
    ASSUME Owed, SplitIf
    PROVE  Owed'
<1> DEFINE a == Label("then", 0)
           b == Label("else", 1)
           m == Label("merge", 2)
           c == <<Jump("Branch", <<>>, <<m>>)>>
           i == <<Jump("CondBranch", Top(1), <<a, b>>)>>
           T == Item.if.then
           E == Item.if.else
           items == <<OpenBlock(a)>> \o T \o <<Code(c)>> \o <<OpenBlock(b)>> \o E \o
                       <<Code(c), OpenBlock(m)>>
<1>1. /\ work # <<>> /\ Item.node = "Split" /\ Keep /\ Then(items)
      /\ fn' = [emit(Pop(1), i) EXCEPT !.labels = @ + 3]
  BY DEF SplitIf, Working
<1>2. FnOK(fn, Naked) /\ fn.labels \in Nat
  BY DEF Owed, FnOK
<1>3. Item.if \in Trees /\ Item.if.node = "If"
  BY <1>1, FirstItem, TreeNodes DEF ItemOK
<1>4. T \in Seq(Trees) /\ E \in Seq(Trees)
  BY <1>3, TreeNodes
<1>5. a = <<"then", fn.labels + 0>> /\ b = <<"else", fn.labels + 1>> /\ m = <<"merge", fn.labels + 2>>
  BY DEF Label
<1>6. "then" \in LabelKinds /\ "else" \in LabelKinds /\ "merge" \in LabelKinds
  BY DEF LabelKinds
<1> HIDE DEF a, b, m, T, E
<1>7. IsSeq(i)
  BY TupleSeqs
<1>8. Emits(fn, emit(Pop(1), i), i) /\ emit(Pop(1), i).labels = fn.labels
  BY <1>2, <1>7, SamePop, SameEmits
<1>9. Emits(fn, fn', i) /\ fn'.labels = fn.labels + 3
  BY <1>1, <1>8, EmitsLabels
<1>10. /\ a \in Inner /\ b \in Inner /\ m \in Inner /\ a # b /\ a # m /\ b # m
       /\ {a, b, m} \subseteq NumberedFrom(fn.labels, fn'.labels)
  BY <1>2, <1>5, <1>6, <1>9, NewLabels
<1>11. ChunkOK(c, Naked) /\ Ends(c) /\ Targets(c) = {m}
  BY <1>10, BranchChunk
<1>12. ChunkOK(i, Naked) /\ Ends(i) /\ Targets(i) = {a, b}
  BY <1>10, CondBranchChunk
<1> HIDE DEF c, i
<1>13. Segment(items, Naked, {a, b, m}, {a, b, m})
  BY <1>4, <1>10, <1>11, IfSegment
<1>15. Promised(items, Targets(i))
  BY <1>4, <1>11, <1>12, IfPromised
<1> HIDE DEF items
<1>14. Targets(i) \subseteq {a, b, m}
  BY <1>12
<1> DEFINE O == {a, b, m}
<1>20. /\ Targets(i) \subseteq O /\ O \subseteq NumberedFrom(fn.labels, fn'.labels)
       /\ Segment(items, Naked, O, O)
  BY <1>1, <1>9, <1>10, <1>12, <1>13, <1>14, <1>15
<1> HIDE DEF O
<1>21. work # <<>> /\ Item.node \in {"Split", "While", "Enter"} /\ Then(items) /\ Keep
  BY <1>1
<1>22. /\ Owed /\ work # <<>> /\ Item.node \in {"Split", "While", "Enter"}
       /\ Emits(fn, fn', i) /\ ChunkOK(i, Naked) /\ Ends(i) /\ Targets(i) \subseteq O
       /\ Segment(items, Naked, O, O) /\ O \subseteq NumberedFrom(fn.labels, fn'.labels)
       /\ Promised(items, Targets(i)) /\ Then(items) /\ Keep
  BY <1>9, <1>12, <1>15, <1>20, <1>21
<1> QED
  BY ONLY <1>22, SegmentAction

\* Entering a while statement keeps the promises.
LEMMA BuildWhileStep ==
    ASSUME Owed, BuildWhile
    PROVE  Owed'
<1> DEFINE a == Label("while_cond", 0)
           b == Label("while_body", 1)
           m == Label("while_end", 2)
           c == <<Jump("Branch", <<>>, <<a>>)>>
           items == <<OpenBlock(a), Item.cond, Test(b, m), OpenBlock(b)>> \o Item.body \o
                       <<Code(c), OpenBlock(m)>>
<1>1. /\ work # <<>> /\ Item.node = "While" /\ Keep /\ Then(items)
      /\ fn' = [emit(fn, c) EXCEPT !.labels = @ + 3]
  BY DEF BuildWhile, Working
<1>2. FnOK(fn, Naked) /\ fn.labels \in Nat
  BY DEF Owed, FnOK
<1>3. Item \in Trees
  BY <1>1, FirstItem, ItemTree
<1>4. Item.cond \in Trees /\ Item.body \in Seq(Trees)
  BY <1>1, <1>3, TreeNodes
<1>5. /\ a = <<"while_cond", fn.labels + 0>> /\ b = <<"while_body", fn.labels + 1>>
      /\ m = <<"while_end", fn.labels + 2>>
  BY DEF Label
<1>6. "while_cond" \in LabelKinds /\ "while_body" \in LabelKinds /\ "while_end" \in LabelKinds
  BY DEF LabelKinds
<1> HIDE DEF a, b, m
<1>7. IsSeq(c)
  BY TupleSeqs
<1>8. Emits(fn, emit(fn, c), c) /\ emit(fn, c).labels = fn.labels
  BY <1>2, <1>7, SameItself, SameEmits
<1>9. Emits(fn, fn', c) /\ fn'.labels = fn.labels + 3
  BY <1>1, <1>8, EmitsLabels
<1>10. /\ a \in Inner /\ b \in Inner /\ m \in Inner /\ a # b /\ a # m /\ b # m
       /\ {a, b, m} \subseteq NumberedFrom(fn.labels, fn'.labels)
  BY <1>2, <1>5, <1>6, <1>9, NewLabels
<1>11. ChunkOK(c, Naked) /\ Ends(c) /\ Targets(c) = {a}
  BY <1>10, BranchChunk
<1> HIDE DEF c
<1>12. Segment(items, Naked, {a, b, m}, {a, b, m})
  BY <1>4, <1>10, <1>11, WhileSegment
<1>14. Promised(items, Targets(c))
  BY <1>4, <1>11, WhilePromised
<1> HIDE DEF items
<1>13. Targets(c) \subseteq {a, b, m}
  BY <1>11
<1> DEFINE O == {a, b, m}
<1>20. /\ Targets(c) \subseteq O /\ O \subseteq NumberedFrom(fn.labels, fn'.labels)
       /\ Segment(items, Naked, O, O)
  BY <1>1, <1>9, <1>10, <1>11, <1>12, <1>13, <1>14
<1> HIDE DEF O
<1>21. work # <<>> /\ Item.node \in {"Split", "While", "Enter"} /\ Then(items) /\ Keep
  BY <1>1
<1>22. /\ Owed /\ work # <<>> /\ Item.node \in {"Split", "While", "Enter"}
       /\ Emits(fn, fn', c) /\ ChunkOK(c, Naked) /\ Ends(c) /\ Targets(c) \subseteq O
       /\ Segment(items, Naked, O, O) /\ O \subseteq NumberedFrom(fn.labels, fn'.labels)
       /\ Promised(items, Targets(c)) /\ Then(items) /\ Keep
  BY <1>9, <1>11, <1>14, <1>20, <1>21
<1> QED
  BY ONLY <1>22, SegmentAction

\* Entering a for statement after its bound keeps the promises.
LEMMA EnterForStep ==
    ASSUME Owed, EnterFor
    PROVE  Owed'
<1> DEFINE a == Label("for_cond", 0)
           b == Label("for_body", 1)
           m == Label("for_end", 2)
           var == Item.for.var
           condRes == Temp(fn.temps)
           j == Jump("Branch", <<>>, <<a>>)
           compare == Inst(IF Item.for.inclusive THEN "LessEqual" ELSE "LessThan", condRes,
                           <<Name(var), Top(1)[1]>>)
           test == Jump("CondBranch", <<Name(condRes)>>, <<b, m>>)
           step == Inst("Add", var, <<Name(var), Const(1)>>)
           first == Inst("Copy", var, <<Top(2)[1]>>)
           T == Item.for.body
           i == <<first, j>>
           items == <<OpenBlock(a), Code(<<compare, test>>), OpenBlock(b)>> \o T \o
                       <<Code(<<step, j>>), OpenBlock(m)>>
<1>1. /\ work # <<>> /\ Item.node = "Enter" /\ Keep /\ Then(items)
      /\ fn' = [emit(Pop(2), i) EXCEPT !.temps = @ + 1, !.labels = @ + 3]
  BY DEF EnterFor, Working
<1>2. FnOK(fn, Naked) /\ fn.labels \in Nat
  BY DEF Owed, FnOK
<1>3. Item.for \in Trees /\ Item.for.node = "For"
  BY <1>1, FirstItem, TreeNodes DEF ItemOK
<1>4. T \in Seq(Trees)
  BY <1>3, TreeNodes
<1>5. /\ a = <<"for_cond", fn.labels + 0>> /\ b = <<"for_body", fn.labels + 1>>
      /\ m = <<"for_end", fn.labels + 2>>
  BY DEF Label
<1>6. "for_cond" \in LabelKinds /\ "for_body" \in LabelKinds /\ "for_end" \in LabelKinds
  BY DEF LabelKinds
<1>7. /\ compare.op \in Plain /\ compare.to = <<>>
      /\ step.op \in Plain /\ step.to = <<>>
      /\ first.op \in Plain /\ first.to = <<>>
  BY DEF Inst, Plain, Arithmetic
<1> HIDE DEF a, b, m, T, compare, step, first, condRes
<1>8. IsSeq(i)
  BY TupleSeqs
<1>9. Emits(fn, emit(Pop(2), i), i) /\ emit(Pop(2), i).labels = fn.labels
  BY <1>2, <1>8, SamePop, SameEmits
<1>10. Emits(fn, fn', i) /\ fn'.labels = fn.labels + 3
  BY <1>1, <1>9, EmitsLabels
<1>11. /\ a \in Inner /\ b \in Inner /\ m \in Inner /\ a # b /\ a # m /\ b # m
       /\ {a, b, m} \subseteq NumberedFrom(fn.labels, fn'.labels)
  BY <1>2, <1>5, <1>6, <1>10, NewLabels
<1>12. ChunkOK(<<j>>, Naked) /\ Ends(<<j>>) /\ Targets(<<j>>) = {a}
  BY <1>11, BranchChunk
<1>13. ChunkOK(<<test>>, Naked) /\ Ends(<<test>>) /\ Targets(<<test>>) = {b, m}
  BY <1>11, CondBranchChunk
<1> HIDE DEF j, test
<1>14. ChunkOK(i, Naked) /\ Ends(i) /\ Targets(i) = {a}
  BY <1>7, <1>12, PlainThenJump
<1>15. ChunkOK(<<step, j>>, Naked) /\ Ends(<<step, j>>) /\ Targets(<<step, j>>) = {a}
  BY <1>7, <1>12, PlainThenJump
<1>16. /\ ChunkOK(<<compare, test>>, Naked) /\ Ends(<<compare, test>>)
       /\ Targets(<<compare, test>>) = {b, m}
  BY <1>7, <1>13, PlainThenJump
<1> HIDE DEF i
<1>17. Segment(items, Naked, {a, b, m}, {a, b, m})
  BY <1>4, <1>11, <1>15, <1>16, ForSegment
<1>19. Promised(items, Targets(i))
  BY <1>4, <1>14, <1>16, ForPromised
<1> HIDE DEF items
<1>18. Targets(i) \subseteq {a, b, m}
  BY <1>14
<1> DEFINE O == {a, b, m}
<1>20. /\ Targets(i) \subseteq O /\ O \subseteq NumberedFrom(fn.labels, fn'.labels)
       /\ Segment(items, Naked, O, O)
  BY <1>1, <1>10, <1>11, <1>14, <1>17, <1>18, <1>19
<1> HIDE DEF O
<1>21. work # <<>> /\ Item.node \in {"Split", "While", "Enter"} /\ Then(items) /\ Keep
  BY <1>1
<1>22. /\ Owed /\ work # <<>> /\ Item.node \in {"Split", "While", "Enter"}
       /\ Emits(fn, fn', i) /\ ChunkOK(i, Naked) /\ Ends(i) /\ Targets(i) \subseteq O
       /\ Segment(items, Naked, O, O) /\ O \subseteq NumberedFrom(fn.labels, fn'.labels)
       /\ Promised(items, Targets(i)) /\ Then(items) /\ Keep
  BY <1>10, <1>14, <1>19, <1>20, <1>21
<1> QED
  BY ONLY <1>22, SegmentAction

\* The code of an item, or of a test, that may end the block.
LEMMA ClosingAction ==
    ASSUME Owed, work # <<>>, NEW insts, Item.node # "OpenBlock",
           Emits(fn, fn', insts), ChunkOK(insts, Naked),
           Targets(insts) \subseteq Mentions(Item),
           Closes(Item) => Ends(fn'.code[fn'.cur]), Then(<<>>), Keep
    PROVE  /\ FnOK(fn', Naked') /\ WorkOK(fn', work', Naked')
           /\ Item.node \in {"Test", "Code"} /\ Mentions(Item) \subseteq Targets(insts) => Owed'
<1>1. Naked' = Naked
  BY DEF Naked, Keep
<1>2. Item = work[1] /\ Mentions(Item) \subseteq DOMAIN fn.code \cup Opens(work)
  BY FirstItem
<1> DEFINE none == <<>>
<1>3. /\ IsSeq(none) /\ none = <<>> /\ Len(none) = 0 /\ ToSet(none) = {}
      /\ Chain(none) /\ Once(none) /\ Opens(none) = {}
  <2>1. Quiet(none, Naked)
    BY QuietTuples
  <2> QED
    BY <2>1, QuietFacts, TupleSeqs
<1> HIDE DEF none
<1>4. Targets(insts) \subseteq DOMAIN fn.code \cup Opens(work) \cup Opens(none)
  BY <1>2
<1>5. FnOK(fn', Naked) /\ WorkOK(fn', none \o Tail(work), Naked)
  <2>1. \A k \in 1 .. Len(none) :
           none[k].node \in {"Finish", "Phis"} => k = Len(none) /\ Len(work) = 1
    BY <1>3
  <2>2. /\ \A i \in ToSet(none) : ItemOK(i, Naked)
        /\ \A i \in ToSet(none) :
              Mentions(i) \subseteq DOMAIN fn.code \cup Opens(work) \cup Opens(none)
        /\ Opens(none) \subseteq NumberedFrom(fn.labels, fn'.labels)
    BY <1>3
  <2>3. /\ none # <<>> /\ NeedsClosed(none[1]) => Ends(fn'.code[fn'.cur])
        /\ Closes(work[1]) => none = <<>> /\ Ends(fn'.code[fn'.cur])
        /\ work[1].node # "OpenBlock"
    BY <1>2, <1>3
  <2>4. FnOK(fn, Naked) /\ WorkOK(fn, work, Naked) /\ IsSeq(none) /\ Chain(none) /\ Once(none)
    BY <1>3 DEF Owed
  <2> QED
    BY <1>4, <2>1, <2>2, <2>3, <2>4, WorkAdvances
<1>6. ASSUME Item.node \in {"Test", "Code"}, Mentions(Item) \subseteq Targets(insts)
      PROVE  FlowOK(fn', none \o Tail(work))
  <2>1. Ordered(none) /\ Promised(none, Targets(insts))
    BY <1>3 DEF Ordered, Promised
  <2>2. work[1].node \notin {"Dominance", "Frontiers"} /\ Mentions(work[1]) \subseteq Targets(insts)
    BY <1>2, <1>6
  <2>3. IsSeq(none) /\ (none # <<>> => none[1].node \notin {"Frontiers", "Phis"})
    BY <1>3
  <2>4. FnOK(fn, Naked) /\ WorkOK(fn, work, Naked) /\ FlowOK(fn, work)
    BY DEF Owed
  <2> QED
    BY <2>1, <2>2, <2>3, <2>4, FlowAdvances
<1>7. work' = none \o Tail(work)
  BY <1>3 DEF Then
<1> QED
  BY <1>1, <1>5, <1>6, <1>7 DEF Owed

\* After a chunk that ends in a jump the current block ends in one.
LEMMA EmittedEnds ==
    ASSUME NEW f, NEW g, NEW insts, NEW naked, FnOK(f, naked), Emits(f, g, insts),
           IsSeq(insts), Ends(insts)
    PROVE  Ends(g.code[g.cur])
<1>1. g.cur = f.cur /\ g.code[f.cur] = f.code[f.cur] \o insts
  BY DEF Emits, FnOK
<1>2. IsSeq(f.code[f.cur])
  BY DEF FnOK, BlockOK
<1> QED
  BY <1>1, <1>2, JoinedEnds

\* A loop's test keeps the promises: its two targets are still to be opened or are open.
LEMMA TestLoopStep ==
    ASSUME Owed, TestLoop
    PROVE  Owed'
<1> DEFINE i == <<Jump("CondBranch", Top(1), <<Item.bodyLbl, Item.endLbl>>)>>
<1>1. work # <<>> /\ Item.node = "Test" /\ Keep /\ Then(<<>>) /\ fn' = emit(Pop(1), i)
  BY DEF TestLoop, Working
<1>2. FnOK(fn, Naked)
  BY DEF Owed
<1>3. Item.bodyLbl \in Inner /\ Item.endLbl \in Inner
  BY <1>1, FirstItem, TreeNodes DEF ItemOK
<1>4. ChunkOK(i, Naked) /\ Ends(i) /\ Targets(i) = {Item.bodyLbl, Item.endLbl} /\ IsSeq(i)
  BY <1>3, CondBranchChunk, TupleSeqs, ZenonT(60)
<1> HIDE DEF i
<1>5. Emits(fn, fn', i)
  BY <1>1, <1>2, <1>4, SamePop, SameEmits
<1>6. Ends(fn'.code[fn'.cur])
  BY <1>2, <1>4, <1>5, EmittedEnds
<1>7. Targets(i) = Mentions(Item)
  BY <1>1, <1>4 DEF Mentions
<1> QED
  BY <1>1, <1>4, <1>5, <1>6, <1>7, ClosingAction

\* Appending prepared code keeps the promises.
LEMMA AppendCodeStep ==
    ASSUME Owed, AppendCode
    PROVE  Owed'
<1>1. work # <<>> /\ Item.node = "Code" /\ Keep /\ Then(<<>>) /\ fn' = emit(fn, Item.insts)
  BY DEF AppendCode, Working
<1>2. FnOK(fn, Naked)
  BY DEF Owed
<1>3. ChunkOK(Item.insts, Naked)
  BY <1>1, FirstItem, TreeNodes DEF ItemOK
<1>4. IsSeq(Item.insts)
  BY <1>3 DEF ChunkOK
<1>5. Emits(fn, fn', Item.insts)
  BY <1>1, <1>2, <1>4, SameItself, SameEmits
<1>6. Closes(Item) => Ends(fn'.code[fn'.cur])
  <2>1. Closes(Item) => Ends(Item.insts)
    BY <1>1 DEF Closes
  <2> QED
    BY <2>1, <1>2, <1>4, <1>5, EmittedEnds
<1>7. Targets(Item.insts) = Mentions(Item)
  BY <1>1 DEF Mentions
<1> QED
  BY <1>1, <1>3, <1>5, <1>6, <1>7, ClosingAction

\* The analysis of dominance changes no code.
LEMMA AnalysisSteps ==
    ASSUME Owed, ComputeDominators \/ ComputeFrontiers
    PROVE  Owed'
<1>1. work # <<>> /\ Item.node \in {"Dominance", "Frontiers"} /\ Keep /\ Then(<<>>)
  BY DEF ComputeDominators, ComputeFrontiers, Working
<1>2. FnOK(fn, Naked)
  BY DEF Owed
<1>3. Same(fn, fn')
  <2>1. ASSUME NEW v PROVE Same(fn, [fn EXCEPT !.dom = v]) /\ Same(fn, [fn EXCEPT !.front = v])
    BY <1>2 DEF Same, FnOK, Fields
  <2>2. \/ \E v : fn' = [fn EXCEPT !.dom = v]
        \/ \E v : fn' = [fn EXCEPT !.front = v]
    BY Zenon DEF ComputeDominators, ComputeFrontiers
  <2> QED
    BY <2>1, <2>2
<1>4. Emits(fn, fn', <<>>)
  BY <1>2, <1>3, SameEmitsNothing
<1>5. Ends(fn'.code[fn'.cur])
  BY <1>1, <1>3, FirstItem DEF NeedsClosed, Same
<1>6. ChunkOK(<<>>, Naked) /\ Targets(<<>>) = {}
  BY EmptyChunk
<1>7. FnOK(fn', Naked') /\ WorkOK(fn', work', Naked')
  BY <1>1, <1>4, <1>5, <1>6, ClosingAction
<1> DEFINE t == Tail(work)
<1>8. IsSeq(work) /\ IsSeq(t) /\ Item = work[1] /\ FlowOK(fn, work)
  BY <1>1, FirstItem, HeadAndTail DEF Owed, WorkOK
<1>9. work' = t
  BY <1>1, <1>8, ConcatEmptySeq DEF Then, IsSeq
<1>10. /\ Ordered(t)
       /\ t # <<>> /\ t[1].node = "Frontiers" => Item.node = "Dominance"
       /\ t # <<>> /\ t[1].node = "Phis" => Item.node = "Frontiers"
  BY <1>1, <1>8, OrderedRest DEF FlowOK
<1>11. Promised(t, AllTargets(fn.code))
  <2>1. Mentions(work[1]) = {}
    BY <1>1, <1>8 DEF Mentions
  <2>2. Promised(t, AllTargets(fn.code) \cup Mentions(work[1]))
    BY <1>1, <1>8, PromisedRest DEF FlowOK
  <2> QED
    BY <2>1, <2>2
<1> HIDE DEF t
<1>12. fn'.code = fn.code /\ fn'.defs = fn.defs /\ fn'.params = fn.params
  BY <1>1, <1>2 DEF ComputeDominators, ComputeFrontiers, FnOK, Fields
<1>16. Noted(fn')
  BY <1>8, <1>12 DEF FlowOK, Noted
<1>13. ASSUME t # <<>>, t[1].node = "Frontiers" PROVE fn'.dom = DominatorsOf(fn.code)
  <2>1. ComputeDominators
    BY <1>10, <1>13 DEF ComputeFrontiers, Working
  <2> QED
    BY <1>2, <2>1 DEF ComputeDominators, FnOK, Fields
<1>14. ASSUME t # <<>>, t[1].node = "Phis"
       PROVE  fn'.front = FrontiersOf(fn.code, DominatorsOf(fn.code))
  <2>1. ComputeFrontiers
    BY <1>10, <1>14 DEF ComputeDominators, Working
  <2>2. fn.dom = DominatorsOf(fn.code)
    BY <1>1, <1>8, <1>10, <1>14 DEF FlowOK
  <2>3. fn'.front = FrontiersOf(fn.code, fn.dom)
    BY <1>2, <2>1 DEF ComputeFrontiers, FnOK, Fields
  <2> QED
    BY <2>2, <2>3
<1>15. FlowOK(fn', t)
  BY <1>8, <1>10, <1>11, <1>12, <1>13, <1>14, <1>16 DEF FlowOK
<1> QED
  BY <1>7, <1>9, <1>15 DEF Owed

\* The end of a function: its missing return, the analysis and the phi nodes.
LEMMA EndOfFunction ==
    LET end == <<Dominance, Frontiers, Phis>>
    IN  /\ IsSeq(end) /\ Len(end) = 3 /\ Chain(end) /\ Once(end) /\ Opens(end) = {}
        /\ end[1] = Dominance /\ Ordered(end)
        /\ \A j \in 1 .. 3 : end[j].node \in {"Finish", "Phis"} => j = 3
        /\ \A i \in ToSet(end) : \A naked : ItemOK(i, naked)
        /\ \A i \in ToSet(end) : Mentions(i) = {}
<1> DEFINE end == <<Dominance, Frontiers, Phis>>
<1>1. Dominance.node = "Dominance" /\ Frontiers.node = "Frontiers" /\ Phis.node = "Phis"
  BY DEF Dominance, Frontiers, Phis
<1>2. /\ IsSeq(end) /\ Len(end) = 3 /\ ToSet(end) = {Dominance, Frontiers, Phis}
      /\ end[1] = Dominance /\ end[2] = Frontiers /\ end[3] = Phis
  BY TupleSeqs
<1> HIDE DEF end
<1>3. Chain(end)
  BY <1>1, <1>2 DEF Chain, Closes
<1>4. \A j \in 1 .. 3 : end[j].node # "OpenBlock"
  BY <1>1, <1>2
<1>5. Once(end)
  BY <1>2, <1>4 DEF Once
<1>6. Opens(end) = {}
  BY <1>1, <1>2 DEF Opens
<1>7. \A j \in 1 .. 3 : end[j].node \in {"Finish", "Phis"} => j = 3
  BY <1>1, <1>2
<1>8. \A i \in ToSet(end) : \A naked : ItemOK(i, naked)
  BY <1>1, <1>2 DEF ItemOK
<1>9. \A i \in ToSet(end) : Mentions(i) = {}
  BY <1>1, <1>2 DEF Mentions
<1>10. Ordered(end)
  BY <1>1, <1>2 DEF Ordered
<1> QED
  BY <1>2, <1>3, <1>5, <1>6, <1>7, <1>8, <1>9, <1>10 DEF end

\* The implicit return at the end of a body keeps the promises: nothing follows it but
\* the analyses.
LEMMA AddReturnStep ==
    ASSUME Owed, AddReturn
    PROVE  Owed'
<1> DEFINE end == <<Dominance, Frontiers, Phis>>
           L == IF Returned THEN <<>> ELSE LeaveWith(Const(0))
           items == L \o end
<1>1. work # <<>> /\ Item.node = "Finish" /\ Keep /\ work' = items /\ fn' = fn
  BY DEF AddReturn, Working
<1>2. FnOK(fn, Naked) /\ WorkOK(fn, work, Naked)
  BY DEF Owed
<1>3. Item = work[1] /\ IsSeq(work) /\ Len(work) \in Nat /\ Len(work) >= 1
  BY <1>1, <1>2, FirstItem, SeqFacts DEF WorkOK
<1>4. Len(work) = 1
  <2>1. 1 \in 1 .. Len(work)
    BY <1>3
  <2> QED
    BY <1>1, <1>2, <1>3, <2>1 DEF WorkOK
<1>5. Tail(work) = <<>>
  BY <1>1, <1>2, <1>4, RestOfWork
<1>6. /\ IsSeq(end) /\ Len(end) = 3 /\ Chain(end) /\ Once(end) /\ Opens(end) = {}
      /\ end[1] = Dominance
      /\ \A j \in 1 .. 3 : end[j].node \in {"Finish", "Phis"} => j = 3
      /\ \A i \in ToSet(end) : ItemOK(i, Naked) /\ Mentions(i) = {}
  BY EndOfFunction
<1> HIDE DEF end
<1>8. /\ Quiet(L, Naked)
      /\ L # <<>> => Closes(L[Len(L)])
      /\ L = <<>> => Returned
  <2>1. CASE Returned
    BY <2>1, QuietTuples
  <2>2. CASE ~Returned
    BY <1>2, <2>2, LeaveItems DEF FnOK
  <2> QED
    BY <2>1, <2>2
<1> HIDE DEF L
<1>9. IsSeq(L) /\ Chain(L) /\ Once(L) /\ Opens(L) = {} /\ Len(L) \in Nat
  BY <1>8, QuietFacts, SeqFacts DEF Quiet
<1>10. /\ IsSeq(items) /\ Len(items) = Len(L) + 3
       /\ \A i \in 1 .. Len(L) : items[i] = L[i]
       /\ \A i \in 1 .. 3 : items[Len(L) + i] = end[i]
       /\ ToSet(items) = ToSet(L) \cup ToSet(end)
  <2>3. IsSeq(L) /\ IsSeq(end)
    BY <1>6, <1>9
  <2>1. /\ IsSeq(L \o end) /\ Len(L \o end) = Len(L) + Len(end)
        /\ \A i \in 1 .. Len(L) : (L \o end)[i] = L[i]
        /\ \A i \in 1 .. Len(end) : (L \o end)[Len(L) + i] = end[i]
        /\ ToSet(L \o end) = ToSet(L) \cup ToSet(end)
    BY ONLY <2>3, Joined
  <2>2. Len(end) = 3
    BY <1>6
  <2> QED
    BY <2>1, <2>2
<1>11. Chain(items)
  BY <1>6, <1>8, <1>9, JoinedChain
<1>12. Once(items)
  BY <1>6, <1>9, JoinedOnce
<1>13. Opens(items) = {}
  BY <1>6, <1>9, JoinedOpens
<1> HIDE DEF items
<1>14. \A i \in ToSet(items) : ItemOK(i, Naked) /\ Mentions(i) = {}
  BY <1>6, <1>8, <1>10 DEF Quiet, QuietItem
<1>15. ASSUME NEW j \in 1 .. Len(items), items[j].node \in {"Finish", "Phis"}
       PROVE  j = Len(items) /\ Len(work) = 1
  <2>1. j > Len(L)
    <3>1. SUFFICES ASSUME j <= Len(L) PROVE FALSE
      BY <1>9, <1>10
    <3>2. items[j] = L[j] /\ L[j] \in ToSet(L)
      BY <1>9, <1>10, <3>1, SeqFacts
    <3> QED
      BY <1>8, <1>15, <3>2 DEF Quiet, QuietItem
  <2>2. j - Len(L) \in 1 .. 3 /\ j = Len(L) + (j - Len(L))
    BY <1>9, <1>10, <2>1
  <2>3. items[j] = end[j - Len(L)]
    BY <1>10, <2>2
  <2>4. j - Len(L) = 3
    BY <1>6, <1>15, <2>2, <2>3
  <2> QED
    BY <1>4, <1>9, <1>10, <2>4
<1>16. items # <<>> /\ NeedsClosed(items[1]) => Ends(fn'.code[fn'.cur])
  <2>1. CASE L = <<>>
    <3>1. fn.code[fn.cur] # <<>> /\ fn.code[fn.cur][Len(fn.code[fn.cur])].op = "Return"
      BY <1>8, <2>1 DEF Returned, Last
    <3>2. IsSeq(fn.code[fn.cur])
      BY <1>2 DEF FnOK, BlockOK
    <3>3. Ends(fn.code[fn.cur])
      BY <3>1, <3>2, SeqFacts DEF Ends, Jumps
    <3> QED
      BY <1>1, <3>3
  <2>2. CASE L # <<>>
    <3>1. items[1] = L[1] /\ L[1] \in ToSet(L)
      BY <1>9, <1>10, <2>2, SeqFacts
    <3> QED
      BY <1>8, <3>1 DEF Quiet, QuietItem, NeedsClosed
  <2> QED
    BY <2>1, <2>2
<1>17. Emits(fn, fn', <<>>) /\ ChunkOK(<<>>, Naked) /\ Targets(<<>>) = {}
  BY <1>1, <1>2, SameItself, SameEmitsNothing, EmptyChunk
<1>18. work[1].node # "OpenBlock" /\ ~Closes(work[1])
  BY <1>1, <1>3 DEF Closes
<1>19. /\ Opens(items) \subseteq NumberedFrom(fn.labels, fn'.labels)
       /\ Targets(<<>>) \subseteq DOMAIN fn.code \cup Opens(work) \cup Opens(items)
       /\ \A i \in ToSet(items) : Mentions(i) \subseteq DOMAIN fn.code \cup Opens(work) \cup Opens(items)
       /\ \A i \in ToSet(items) : ItemOK(i, Naked)
  BY <1>13, <1>14, <1>17
<1>20. FnOK(fn', Naked) /\ WorkOK(fn', items \o Tail(work), Naked)
  BY <1>1, <1>2, <1>10, <1>11, <1>12, <1>15, <1>16, <1>17, <1>18, <1>19, WorkAdvances
<1>21. items \o Tail(work) = items
  BY <1>5, <1>10, ConcatEmptySeq DEF IsSeq
<1>22. Naked' = Naked
  BY <1>1 DEF Naked, Keep
<1>23. Ordered(items) /\ (items # <<>> => items[1].node \notin {"Frontiers", "Phis"})
  <2>1. Ordered(L) /\ (L # <<>> => L[1].node \notin {"Frontiers", "Phis"})
    BY <1>8, QuietFlow
  <2>2. Ordered(end) /\ end[1].node = "Dominance"
    BY EndOfFunction DEF Dominance, end
  <2>3. Ordered(L \o end)
    BY <1>6, <1>9, <2>1, <2>2, OrderedJoined
  <2>4. CASE L = <<>>
    <3>1. items[1] = end[1]
      BY <1>6, <1>10, <2>4, TupleSeqs
    <3> QED
      BY <2>2, <2>3, <3>1 DEF items
  <2>5. CASE L # <<>>
    <3>1. items[1] = L[1]
      BY <1>9, <1>10, <2>5, SeqFacts
    <3> QED
      BY <2>1, <2>3, <2>5, <3>1 DEF items
  <2> QED
    BY <2>4, <2>5
<1>24. Promised(items, Targets(<<>>))
  <2>1. \A j \in 1 .. Len(items) : items[j].node # "OpenBlock"
    <3>1. \A j \in 1 .. Len(items) : items[j] \in ToSet(items)
      BY <1>10, SeqFacts
    <3> QED
      BY <1>13, <3>1 DEF Opens
  <2> QED
    BY <2>1 DEF Promised
<1>25. work[1].node \notin {"Dominance", "Frontiers"} /\ Mentions(work[1]) \subseteq Targets(<<>>)
  BY <1>1, <1>3 DEF Mentions
<1>26. FlowOK(fn', items \o Tail(work))
  BY <1>1, <1>2, <1>10, <1>17, <1>23, <1>24, <1>25, FlowAdvances DEF Owed
<1> QED
  BY <1>1, <1>20, <1>21, <1>22, <1>26 DEF Owed

\* Opening a block keeps the promises: the block left ends in a jump, and the label
\* opened is one the stack still owed.
LEMMA EnterBlockStep ==
    ASSUME Owed, EnterBlock
    PROVE  Owed'
<1> DEFINE l == Item.label
           t == Tail(work)
           N == Naked
<1>1. /\ work # <<>> /\ Item.node = "OpenBlock" /\ Keep /\ work' = <<>> \o t
      /\ fn' = [fn EXCEPT !.order = Append(@, l), !.code = Put(@, l, <<>>), !.cur = l]
  BY DEF EnterBlock, Working, Then
<1>2. FnOK(fn, N) /\ WorkOK(fn, work, N)
  BY DEF Owed
<1>3. Item = work[1] /\ l \in Inner /\ Ends(fn.code[fn.cur])
  BY <1>1, FirstItem, TreeNodes DEF ItemOK, NeedsClosed
<1>4. /\ IsSeq(t) /\ Chain(t) /\ Once(t)
      /\ \A i \in ToSet(t) : ItemOK(i, N)
      /\ \A j \in 1 .. Len(t) : t[j].node \in {"Finish", "Phis"} => j = Len(t)
      /\ t # <<>> /\ NeedsClosed(t[1]) => Closes(work[1])
      /\ Opens(work) = {l} \cup Opens(t) /\ l \notin Opens(t)
  BY <1>1, <1>2, <1>3, RestOfWork
<1>5. IsSeq(work) /\ ToSet(t) \subseteq ToSet(work)
  BY <1>1, <1>2, HeadAndTail DEF WorkOK
<1>6. work' = t
  BY <1>1, <1>4, ConcatEmptySeq DEF IsSeq
<1> HIDE DEF l, t
<1>7. ~Closes(work[1])
  BY <1>1, <1>3 DEF Closes
<1>8. l \in NumberedFrom(0, fn.labels) \ DOMAIN fn.code
  BY <1>2, <1>4 DEF WorkOK
<1>9. DOMAIN fn = Fields /\ IsSeq(fn.order) /\ ToSet(fn.order) = DOMAIN fn.code
      /\ IsInjective(fn.order)
  BY <1>2 DEF FnOK, LayoutOK
<1>10. /\ DOMAIN fn' = Fields
       /\ fn'.order = Append(fn.order, l) /\ fn'.cur = l
       /\ fn'.code = Put(fn.code, l, <<>>)
       /\ fn'.labels = fn.labels /\ fn'.defers = fn.defers /\ fn'.defs = fn.defs
       /\ fn'.params = fn.params
  BY <1>1, <1>9 DEF Fields
<1>11. /\ DOMAIN fn'.code = {l} \cup DOMAIN fn.code
       /\ fn'.code[l] = <<>>
       /\ \A k \in DOMAIN fn.code : fn'.code[k] = fn.code[k]
  BY <1>8, <1>10 DEF Put
<1>12. LayoutOK(fn')
  <2> DEFINE o == fn.order
             p == Append(fn.order, l)
  <2>5. /\ IsSeq(p) /\ ToSet(p) = ToSet(o) \cup {l} /\ Len(p) = Len(o) + 1
        /\ \A i \in 1 .. Len(o) : p[i] = o[i]
        /\ p[Len(o) + 1] = l
    <3>1. IsSeq(o)
      BY <1>9
    <3> HIDE DEF o
    <3>2. /\ IsSeq(Append(o, l)) /\ ToSet(Append(o, l)) = ToSet(o) \cup {l}
          /\ Len(Append(o, l)) = Len(o) + 1
          /\ \A i \in 1 .. Len(o) : Append(o, l)[i] = o[i]
          /\ Append(o, l)[Len(o) + 1] = l
      BY ONLY <3>1, Appended, ZenonT(60)
    <3> QED
      BY <3>2 DEF o
  <2>6. /\ Len(o) \in Nat /\ DOMAIN o = 1 .. Len(o)
        /\ \A i \in 1 .. Len(o) : o[i] \in ToSet(o)
    BY <1>9, SeqFacts
  <2>7. DOMAIN p = 1 .. Len(p)
    BY <2>5, SeqFacts
  <2>1. /\ IsSeq(p) /\ ToSet(p) = ToSet(o) \cup {l} /\ Len(p) = Len(o) + 1 /\ Len(o) \in Nat
        /\ \A i \in 1 .. Len(o) : p[i] = o[i]
        /\ p[Len(o) + 1] = l
        /\ DOMAIN o = 1 .. Len(o) /\ DOMAIN p = 1 .. Len(o) + 1
        /\ \A i \in 1 .. Len(o) : o[i] \in ToSet(o)
    BY <2>5, <2>6, <2>7
  <2>2. l \notin ToSet(o)
    BY <1>8, <1>9
  <2> HIDE DEF p, o
  <2>3. ASSUME NEW i \in 1 .. Len(o) + 1, NEW j \in 1 .. Len(o) + 1, p[i] = p[j] PROVE i = j
    <3>1. CASE i \in 1 .. Len(o) /\ j \in 1 .. Len(o)
      BY <1>9, <2>1, <2>3, <3>1 DEF IsInjective, o
    <3>2. CASE i = Len(o) + 1 /\ j \in 1 .. Len(o)
      BY <2>1, <2>2, <2>3, <3>2
    <3>3. CASE i \in 1 .. Len(o) /\ j = Len(o) + 1
      BY <2>1, <2>2, <2>3, <3>3
    <3> QED
      BY <2>1, <3>1, <3>2, <3>3
  <2>4. IsInjective(p)
    BY <2>1, <2>3 DEF IsInjective
  <2> QED
    BY <1>9, <1>10, <1>11, <2>1, <2>4 DEF LayoutOK, p, o
<1>13. ASSUME NEW k \in DOMAIN fn'.code
       PROVE  BlockOK(fn'.code[k], k, N) /\ (k # fn'.cur => Ends(fn'.code[k]))
  <2>1. CASE k = l
    <3>1. l # Entry
      BY <1>3 DEF Inner, Entry, LabelKinds
    <3>2. BlockOK(<<>>, l, N)
      BY <3>1, TupleSeqs DEF BlockOK, ExitsOK, EntersOK
    <3> QED
      BY <1>10, <1>11, <2>1, <3>2
  <2>2. CASE k # l
    <3>1. k \in DOMAIN fn.code /\ fn'.code[k] = fn.code[k]
      BY <1>11, <2>2
    <3>2. BlockOK(fn.code[k], k, N) /\ (k # fn.cur => Ends(fn.code[k]))
      BY <1>2, <3>1 DEF FnOK
    <3> QED
      BY <1>3, <3>1, <3>2
  <2> QED
    BY <2>1, <2>2
<1>14. FnOK(fn', N)
  <2>1. /\ Entry \in DOMAIN fn.code /\ fn.labels \in Nat /\ fn.defers \in Seq(Trees)
        /\ DOMAIN fn.code \subseteq {Entry} \cup NumberedFrom(0, fn.labels)
        /\ IsFiniteSet(fn.defs)
    BY <1>2 DEF FnOK
  <2>2. DOMAIN fn'.code \subseteq {Entry} \cup NumberedFrom(0, fn.labels)
    BY <1>8, <1>11, <2>1
  <2> QED
    BY <1>10, <1>11, <1>12, <1>13, <2>1, <2>2 DEF FnOK
<1>15. DOMAIN fn'.code \cup Opens(t) = DOMAIN fn.code \cup Opens(work)
  BY <1>4, <1>11
<1>16. \A k \in DOMAIN fn'.code : Targets(fn'.code[k]) \subseteq DOMAIN fn'.code \cup Opens(t)
  <2>1. Targets(<<>>) = {}
    BY EmptyChunk
  <2>2. \A k \in DOMAIN fn.code : Targets(fn.code[k]) \subseteq DOMAIN fn.code \cup Opens(work)
    BY <1>2 DEF WorkOK
  <2> QED
    BY <1>11, <1>15, <2>1, <2>2
<1>17. \A i \in ToSet(t) : Mentions(i) \subseteq DOMAIN fn'.code \cup Opens(t)
  BY <1>2, <1>5, <1>15 DEF WorkOK
<1>18. Opens(t) \subseteq NumberedFrom(0, fn'.labels) \ DOMAIN fn'.code
  BY <1>2, <1>4, <1>10, <1>11 DEF WorkOK
<1>19. WorkOK(fn', t, N)
  BY <1>4, <1>7, <1>16, <1>17, <1>18 DEF WorkOK
<1>20. Naked' = N
  BY <1>1 DEF Naked, Keep
<1>21. FlowOK(fn, work)
  BY DEF Owed
<1>22. l \in AllTargets(fn.code)
  <2>1. Len(work) \in Nat /\ Len(work) >= 1
    BY <1>1, <1>5, SeqFacts
  <2>2. 1 \in 1 .. Len(work) /\ 1 .. 1 - 1 = {}
    BY <2>1
  <2>3. work[1].node = "OpenBlock" /\ work[1].label = l
    BY <1>1, <1>3 DEF l
  <2> QED
    BY <1>21, <2>2, <2>3 DEF FlowOK, Promised
<1>23. Connected(fn'.code)
  <2>1. l # Entry
    BY <1>3 DEF Inner, Entry, LabelKinds
  <2>2. \A k \in DOMAIN fn.code : Succs(fn'.code, k) = Targets(fn.code[k])
    BY <1>11 DEF Succs, Targets
  <2> QED
    BY <1>8, <1>11, <1>21, <1>22, <2>1, <2>2, ConnectedNew DEF FlowOK
<1>24. AllTargets(fn.code) \subseteq AllTargets(fn'.code)
  BY <1>11 DEF AllTargets
<1>25. Promised(t, AllTargets(fn'.code))
  <2>1. Mentions(work[1]) = {}
    BY <1>1, <1>3 DEF Mentions
  <2>2. Promised(t, AllTargets(fn.code) \cup Mentions(work[1]))
    BY <1>1, <1>5, <1>21, PromisedRest DEF FlowOK, t
  <2>3. AllTargets(fn.code) \cup Mentions(work[1]) \subseteq AllTargets(fn'.code)
    BY <1>24, <2>1
  <2> QED
    BY <2>2, <2>3, PromisedMore
<1>26. /\ Ordered(t)
       /\ t # <<>> => t[1].node \notin {"Frontiers", "Phis"}
  BY <1>1, <1>3, <1>5, <1>21, OrderedRest DEF FlowOK, t
<1>27. \A k \in DOMAIN fn'.code : \A j \in 1 .. Len(fn'.code[k]) : fn'.code[k][j].op # "Phi"
  <2>1. Len(<<>>) = 0
    BY TupleSeqs
  <2>2. \A k \in DOMAIN fn.code : \A j \in 1 .. Len(fn.code[k]) : fn.code[k][j].op # "Phi"
    BY <1>21 DEF FlowOK
  <2>3. ASSUME NEW k \in DOMAIN fn'.code, NEW j \in 1 .. Len(fn'.code[k])
        PROVE  fn'.code[k][j].op # "Phi"
    <3>1. k # l
      BY <1>11, <2>1
    <3>2. k \in DOMAIN fn.code /\ fn'.code[k] = fn.code[k]
      BY <1>11, <3>1
    <3> QED
      BY <2>2, <3>2
  <2> QED
    BY <2>3
<1>29. Noted(fn')
  <2>1. ToSet(<<>>) = {}
    BY TupleSeqs
  <2>2. ASSUME NEW k \in DOMAIN fn'.code, NEW i \in ToSet(fn'.code[k]), i.op \in Recorded, i.result # ""
        PROVE  <<i.result, k>> \in fn'.defs
    <3>1. k # l
      BY <1>11, <2>1, <2>2
    <3>2. k \in DOMAIN fn.code /\ fn'.code[k] = fn.code[k]
      BY <1>11, <3>1
    <3> QED
      BY <1>10, <1>21, <2>2, <3>2 DEF FlowOK, Noted
  <2> QED
    BY <1>10, <1>21, <2>2 DEF FlowOK, Noted
<1>28. FlowOK(fn', t)
  BY <1>10, <1>11, <1>21, <1>23, <1>25, <1>26, <1>27, <1>29 DEF FlowOK
<1> QED
  BY <1>6, <1>14, <1>19, <1>20, <1>28 DEF Owed

(***************************************************************************)
(* A function begins and ends.                                             *)
(***************************************************************************)

\* What buildFunction sets up is in order, and owes nothing yet.
LEMMA FreshFunction ==
    ASSUME NEW func, IsFiniteSet(func.params)
    PROVE  /\ FnOK(FreshState(func), func.naked)
           /\ DOMAIN FreshState(func).code = {Entry}
           /\ Targets(FreshState(func).code[Entry]) = {}
           /\ \A d \in FreshState(func).defs : d[2] = Entry
           /\ \A j \in 1 .. Len(FreshState(func).code[Entry]) :
                 FreshState(func).code[Entry][j].op # "Phi"
           /\ Noted(FreshState(func))
<1> DEFINE f == FreshState(func)
           enter == Inst("RegionEnter", "", <<>>)
           c == IF func.naked THEN <<>> ELSE <<enter>>
           g == [p \in func.params |-> <<p, Entry>>]
<1>1. /\ DOMAIN f = Fields /\ f.order = <<Entry>> /\ DOMAIN f.code = {Entry} /\ f.code[Entry] = c
      /\ f.cur = Entry /\ f.labels = 0 /\ f.defers = <<>>
      /\ f.defs = {<<p, Entry>> : p \in func.params} /\ f.params = func.params
  BY DEF FreshState, Fields
<1> HIDE DEF f
<1>2. LayoutOK(f)
  <2>1. IsSeq(<<Entry>>) /\ ToSet(<<Entry>>) = {Entry} /\ DOMAIN <<Entry>> = {1}
    BY TupleSeqs
  <2>2. IsInjective(<<Entry>>)
    BY <2>1 DEF IsInjective
  <2> QED
    BY <1>1, <2>1, <2>2 DEF LayoutOK
<1>3. IsFiniteSet(f.defs)
  <2>1. IsFiniteSet({g[p] : p \in func.params})
    BY FiniteImage
  <2>2. {g[p] : p \in func.params} = {<<p, Entry>> : p \in func.params}
    OBVIOUS
  <2> QED
    BY <1>1, <2>1, <2>2
<1>4. enter.op = "RegionEnter" /\ enter.to = <<>>
  BY DEF Inst
<1> HIDE DEF enter
<1>5. BlockOK(c, Entry, func.naked) /\ Targets(c) = {}
  <2>1. CASE func.naked
    <3>1. c = <<>>
      BY <2>1
    <3>2. BlockOK(<<>>, Entry, func.naked)
      BY <2>1, TupleSeqs DEF BlockOK, ExitsOK, EntersOK
    <3> QED
      BY <3>1, <3>2, EmptyChunk
  <2>2. CASE ~func.naked
    <3>1. c = <<enter>>
      BY <2>2
    <3> HIDE DEF c
    <3>2. IsSeq(c) /\ Len(c) = 1 /\ c[1] = enter /\ DOMAIN c = {1}
      BY <3>1, TupleSeqs
    <3>3. IsInst(c[1])
      BY <1>4, <3>2, EmptySeq DEF IsInst
    <3>4. ExitsOK(c, func.naked)
      BY <1>4, <3>2 DEF ExitsOK
    <3>5. EntersOK(c, Entry, func.naked)
      BY <1>4, <2>2, <3>2 DEF EntersOK
    <3>6. Targets(c) = {}
      BY <1>4, <3>2, TupleSeqs DEF Targets
    <3> QED
      BY <3>2, <3>3, <3>4, <3>5, <3>6 DEF BlockOK
  <2> QED
    BY <2>1, <2>2
<1> HIDE DEF c
<1>6. <<>> \in Seq(Trees)
  BY EmptySeq
<1>7. \A l \in DOMAIN f.code : BlockOK(f.code[l], l, func.naked) /\ (l # f.cur => Ends(f.code[l]))
  BY <1>1, <1>5
<1>8. FnOK(f, func.naked)
  BY <1>1, <1>2, <1>3, <1>6, <1>7 DEF FnOK
<1>9. \A j \in 1 .. Len(c) : c[j].op # "Phi"
  BY <1>4, TupleSeqs DEF c
<1>10. \A d \in f.defs : d[2] = Entry
  BY <1>1
<1>11. Noted(f)
  <2>1. ToSet(c) \subseteq {enter}
    BY TupleSeqs DEF c
  <2>2. enter.op \notin Recorded
    BY <1>4 DEF Recorded
  <2> QED
    BY <1>1, <2>1, <2>2 DEF Noted
<1> QED
  BY <1>1, <1>5, <1>8, <1>9, <1>10, <1>11 DEF f

\* A fresh function state and the body it is to lower satisfy the promises.
LEMMA BeginFunctionStep ==
    ASSUME Progress, BeginFunction
    PROVE  Owed' /\ pending' # <<>>
<1> DEFINE func == prog.funcs[Head(pending)]
           w == Append(func.body, Finish)
           N == func.naked
<1>1. pending # <<>> /\ fn' = FreshState(func) /\ work' = w /\ Keep
  BY DEF BeginFunction
<1>2. Head(pending) \in DOMAIN prog.funcs
  BY <1>1, EmptySeq, HeadTailProperties DEF Progress
<1>3. func \in [params : SUBSET STRING, naked : BOOLEAN, body : Seq(Trees)] /\ IsFiniteSet(func.params)
  <2>1. prog.funcs \in Seq([params : SUBSET STRING, naked : BOOLEAN, body : Seq(Trees)])
    BY ProgramsAssumption DEF Progress
  <2>2. prog.funcs[Head(pending)] \in [params : SUBSET STRING, naked : BOOLEAN, body : Seq(Trees)]
    BY <1>2, <2>1, LenProperties, ZenonT(60)
  <2> QED
    BY <1>2, <2>2, ProgramsAssumption DEF Progress
<1>4. func.body \in Seq(Trees)
  BY <1>3
<1>5. Naked' = N
  BY <1>1 DEF Naked, Keep
<1> HIDE DEF func
<1>6. /\ FnOK(fn', N) /\ DOMAIN fn'.code = {Entry} /\ Targets(fn'.code[Entry]) = {}
  BY <1>1, <1>3, FreshFunction
<1>7. Finish.node = "Finish"
  BY DEF Finish
<1>8. Quiet(func.body, N)
  BY <1>4, QuietSeqs
<1> DEFINE b == func.body
<1>9. IsSeq(b) /\ Chain(b) /\ Once(b) /\ Opens(b) = {}
  BY <1>8, QuietFacts DEF Quiet
<1>10. /\ w = b \o <<Finish>> /\ IsSeq(w) /\ ToSet(w) = ToSet(b) \cup {Finish}
       /\ Len(w) = Len(b) + 1
       /\ \A i \in 1 .. Len(b) : w[i] = b[i]
       /\ w[Len(b) + 1] = Finish
  BY <1>9, Appended
<1>11. Len(b) \in Nat /\ \A i \in 1 .. Len(b) : b[i] \in ToSet(b)
  BY <1>9, SeqFacts
<1>12. /\ IsSeq(<<Finish>>) /\ Len(<<Finish>>) = 1 /\ ToSet(<<Finish>>) = {Finish}
       /\ <<Finish>>[1] = Finish
  BY TupleSeqs
<1>13. Chain(<<Finish>>)
  BY <1>12 DEF Chain
<1>14. Once(<<Finish>>)
  BY <1>12 DEF Once
<1>15. Opens(<<Finish>>) = {}
  BY <1>7, <1>12 DEF Opens
<1>16. ~NeedsClosed(<<Finish>>[1])
  BY <1>7, <1>12 DEF NeedsClosed
<1>17. Chain(b \o <<Finish>>)
  BY <1>9, <1>12, <1>13, <1>16, JoinedChain
<1>18. Once(b \o <<Finish>>)
  BY <1>9, <1>12, <1>14, <1>15, JoinedOnce
<1>19. Opens(b \o <<Finish>>) = {}
  BY <1>9, <1>12, <1>15, JoinedOpens
<1>20. ItemOK(Finish, N) /\ Mentions(Finish) = {} /\ ~NeedsClosed(Finish)
  BY <1>7 DEF ItemOK, Mentions, NeedsClosed
<1>21. \A i \in ToSet(b) : /\ ItemOK(i, N) /\ Mentions(i) = {} /\ ~NeedsClosed(i)
                           /\ i.node \notin {"Finish", "Phis"}
  BY <1>8 DEF Quiet, QuietItem, NeedsClosed
<1>22. w = b \o <<Finish>>
  BY <1>10
<1> HIDE DEF w, b
<1>23. \A i \in ToSet(w) : ItemOK(i, N) /\ Mentions(i) = {} /\ ~NeedsClosed(i)
  BY <1>10, <1>20, <1>21
<1>24. \A j \in 1 .. Len(w) : w[j].node \in {"Finish", "Phis"} => j = Len(w)
  <2> SUFFICES ASSUME NEW j \in 1 .. Len(w), j # Len(w) PROVE w[j].node \notin {"Finish", "Phis"}
    OBVIOUS
  <2>1. j \in 1 .. Len(b)
    BY <1>10, <1>11
  <2>2. w[j] = b[j] /\ b[j] \in ToSet(b)
    BY <1>10, <1>11, <2>1
  <2> QED
    BY <1>21, <2>2
<1>25. ~NeedsClosed(w[1])
  <2>1. 1 \in 1 .. Len(w)
    BY <1>10, <1>11
  <2>2. w[1] \in ToSet(w)
    BY <1>10, <2>1, SeqFacts
  <2> QED
    BY <1>23, <2>2
<1>26. Chain(w) /\ Once(w) /\ Opens(w) = {}
  BY <1>17, <1>18, <1>19, <1>22
<1>27. IsSeq(w)
  BY <1>10
<1>28. WorkOK(fn', w, N)
  BY <1>6, <1>23, <1>24, <1>25, <1>26, <1>27 DEF WorkOK
<1>29. pending' # <<>>
  BY <1>1 DEF Keep
<1>30. /\ \A d \in fn'.defs : d[2] \in DOMAIN fn'.code
       /\ \A l \in DOMAIN fn'.code : \A j \in 1 .. Len(fn'.code[l]) : fn'.code[l][j].op # "Phi"
       /\ Noted(fn')
  BY <1>1, <1>3, <1>6, FreshFunction
<1>31. Connected(fn'.code)
  BY <1>6 DEF Connected
<1>32. \A j \in 1 .. Len(w) : w[j].node \notin {"OpenBlock", "Frontiers", "Phis"}
  <2>1. \A j \in 1 .. Len(w) : w[j] \in ToSet(w)
    BY <1>27, SeqFacts
  <2> QED
    BY <1>23, <2>1 DEF NeedsClosed
<1>33. 1 \in 1 .. Len(w) /\ Len(w) \in Nat
  BY <1>10, <1>11
<1>34. FlowOK(fn', w)
  BY <1>30, <1>31, <1>32, <1>33 DEF FlowOK, Promised, Ordered
<1> QED
  BY <1>1, <1>5, <1>6, <1>28, <1>29, <1>34 DEF Owed

(***************************************************************************)
(* The graph of a finished function: where phi nodes are needed.           *)
(***************************************************************************)

\* C is the least set that holds "from" and is closed under step.
IsClosure(C, from, step, U) ==
    /\ from \subseteq C /\ C \subseteq U
    /\ \A c \in C : step[c] \subseteq C
    /\ \A S : from \subseteq S /\ (\A c \in S \cap U : step[c] \subseteq S) => C \subseteq S

\* One round of it.
Grown(R, step) == R \cup UNION {step[c] : c \in R}

\* What the rounds of Closure add up to: the least set that holds "from" and is closed
\* under step, if there are as many rounds as elements.
LEMMA ClosureFacts ==
    ASSUME NEW U, IsFiniteSet(U), NEW n \in Nat, Cardinality(U) <= n,
           NEW from \in SUBSET U, NEW step \in [U -> SUBSET U]
    PROVE  IsClosure(Closure(from, step, n), from, step, U)
<1> DEFINE P == SUBSET U
           next == [R \in P |-> Grown(R, step)]
           Body(f) == [k \in Nat |->
               IF k = 0 THEN from
               ELSE UNION {prev \cup UNION {step[c] : c \in prev} : prev \in {f[k - 1]}}]
           grow == CHOOSE f : f = Body(f)
<1>1. next \in [P -> P] /\ from \in P
  <2>1. \A R \in P : Grown(R, step) \in P
    <3> SUFFICES ASSUME NEW R \in P, NEW y \in Grown(R, step) PROVE y \in U
      OBVIOUS
    <3>1. y \in R \/ \E c \in R : y \in step[c]
      BY Zenon DEF Grown
    <3> QED
      BY <3>1
  <2> QED
    BY <2>1
<1>2. PICK f : IsIteration(f, P, from, next)
  <2> HIDE DEF P, next
  <2> QED
    BY <1>1, RecursionExists
<1>3. f \in [Nat -> P] /\ f[0] = from /\ \A k \in Nat : f[k + 1] = next[f[k]]
  BY <1>2 DEF IsIteration
<1>0. \A g, k : UNION {prev \cup UNION {step[c] : c \in prev} : prev \in {g[k]}} = Grown(g[k], step)
  BY Zenon DEF Grown
<1>4. ASSUME NEW k \in Nat
      PROVE  f[k] = Body(f)[k]
  <2>1. CASE k = 0
    BY <1>3, <2>1
  <2>2. CASE k # 0
    <3>1. k - 1 \in Nat /\ (k - 1) + 1 = k
      BY <2>2
    <3>2. f[k] = next[f[k - 1]] /\ f[k - 1] \in P
      BY <1>3, <3>1
    <3>3. f[k] = Grown(f[k - 1], step)
      BY <3>2
    <3>4. Body(f)[k] = Grown(f[k - 1], step)
      BY <1>0, <2>2
    <3> QED
      BY <3>3, <3>4
  <2> QED
    BY <2>1, <2>2
<1>5. f = Body(f)
  BY <1>3, <1>4, Zenon
<1>6. grow = Body(grow)
  <2> HIDE DEF Body
  <2> QED
    BY <1>5, Zenon
<1>7. Closure(from, step, n) = grow[n]
  BY DEF Closure
<1> HIDE DEF grow
<1>8. grow[0] = from /\ \A k \in Nat : grow[k + 1] = Grown(grow[k], step)
  <2>1. grow[0] = Body(grow)[0] /\ \A k \in Nat : grow[k + 1] = Body(grow)[k + 1]
    BY <1>6
  <2>2. ASSUME NEW k \in Nat
        PROVE  k + 1 \in Nat /\ k + 1 # 0 /\ (k + 1) - 1 = k
    OBVIOUS
  <2>3. ASSUME NEW k \in Nat
        PROVE  Body(grow)[k + 1] = Grown(grow[k], step)
    BY <1>0, <2>2
  <2> QED
    BY <2>1, <2>3
<1> HIDE DEF Body
<1>9. \A k \in Nat : grow[k] \in P /\ from \subseteq grow[k]
  <2> DEFINE G == {k \in Nat : grow[k] \in P /\ from \subseteq grow[k]}
  <2>1. 0 \in G
    BY <1>1, <1>8
  <2>2. ASSUME NEW k \in Nat, k \in G PROVE k + 1 \in G
    <3>1. Grown(grow[k], step) \in P
      BY <1>1, <2>2
    <3> QED
      BY <1>8, <2>2, <3>1 DEF Grown
  <2>3. \A k \in Nat : k \in G
    <3> HIDE DEF G
    <3> QED
      BY <2>1, <2>2, SetInduction
  <2> QED
    BY <2>3
<1>10. IsGrowth(grow, U)
  <2>1. \A k \in Nat : grow[k] \in SUBSET U /\ grow[k] \subseteq grow[k + 1]
    BY <1>8, <1>9 DEF Grown
  <2>2. ASSUME NEW k \in Nat, grow[k + 1] = grow[k]
        PROVE  grow[(k + 1) + 1] = grow[k + 1]
    <3>1. grow[(k + 1) + 1] = Grown(grow[k + 1], step) /\ grow[k + 1] = Grown(grow[k], step)
      BY <1>8
    <3> QED
      BY <2>2, <3>1
  <2> QED
    BY <2>1, <2>2 DEF IsGrowth
<1>11. grow[n] = Grown(grow[n], step)
  BY <1>8, <1>10, Saturation
<1>12. \A c \in grow[n] : step[c] \subseteq grow[n]
  <2> SUFFICES ASSUME NEW c \in grow[n], NEW y \in step[c] PROVE y \in grow[n]
    OBVIOUS
  <2>1. y \in Grown(grow[n], step)
    BY Zenon DEF Grown
  <2> QED
    BY <1>11, <2>1
<1>13. ASSUME NEW S, from \subseteq S, \A c \in S \cap U : step[c] \subseteq S
       PROVE  grow[n] \subseteq S
  <2> DEFINE G == {k \in Nat : grow[k] \subseteq S}
  <2>1. 0 \in G
    BY <1>8, <1>13
  <2>2. ASSUME NEW k \in Nat, k \in G PROVE k + 1 \in G
    <3>1. ASSUME NEW y \in grow[k + 1] PROVE y \in S
      <4>1. y \in grow[k] \/ \E c \in grow[k] : y \in step[c]
        <5>1. y \in Grown(grow[k], step)
          BY <1>8
        <5> QED
          BY <5>1, Zenon DEF Grown
      <4>2. \A c \in grow[k] : c \in S \cap U
        BY <1>9, <2>2
      <4> QED
        BY <1>13, <4>1, <4>2
    <3> QED
      BY <3>1
  <2>3. n \in G
    <3> HIDE DEF G
    <3> QED
      BY <2>1, <2>2, SetInduction
  <2> QED
    BY <2>3
<1>14. from \subseteq grow[n] /\ grow[n] \subseteq U
  BY <1>9
<1> QED
  BY <1>7, <1>12, <1>13, <1>14 DEF IsClosure

\* R is the least set of blocks that holds "from" and is closed under the branches to
\* blocks not avoided.
IsReach(R, code, from, avoid) ==
    /\ from \subseteq R /\ R \subseteq DOMAIN code
    /\ \A c \in R : \A y \in Succs(code, c) : y \notin avoid => y \in R
    /\ \A S : /\ from \subseteq S
              /\ \A c \in S \cap DOMAIN code : \A y \in Succs(code, c) : y \notin avoid => y \in S
              => R \subseteq S

\* Reach is the least set that holds "from" and is closed under the branches not avoided.
LEMMA ReachFacts ==
    ASSUME NEW code, IsGraph(code), NEW from \in SUBSET DOMAIN code, NEW avoid
    PROVE  IsReach(Reach(code, from, avoid), code, from, avoid)
<1> DEFINE U == DOMAIN code
           step == [c \in U |-> Succs(code, c) \ avoid]
           n == Cardinality(U)
<1>1. IsFiniteSet(U) /\ n \in Nat /\ Cardinality(U) <= n
  BY FS_CardinalityType DEF IsGraph
<1>2. step \in [U -> SUBSET U]
  BY DEF IsGraph
<1>3. Reach(code, from, avoid) = Closure(from, step, n)
  BY DEF Reach
<1>4. \A c \in U : step[c] = Succs(code, c) \ avoid
  OBVIOUS
<1> HIDE DEF step, n
<1> DEFINE C == Closure(from, step, n)
<1>9. IsClosure(C, from, step, U)
  BY <1>1, <1>2, ClosureFacts
<1>5. /\ from \subseteq C /\ C \subseteq U
      /\ \A c \in C : step[c] \subseteq C
  BY <1>9 DEF IsClosure
<1>8. ASSUME NEW S, from \subseteq S, \A c \in S \cap U : step[c] \subseteq S
      PROVE  C \subseteq S
  BY <1>8, <1>9 DEF IsClosure
<1> HIDE DEF C
<1>6. \A c \in C : \A y \in Succs(code, c) : y \notin avoid => y \in C
  BY <1>4, <1>5
<1>7. ASSUME NEW S, from \subseteq S,
             \A c \in S \cap U : \A y \in Succs(code, c) : y \notin avoid => y \in S
      PROVE  C \subseteq S
  BY <1>4, <1>7, <1>8
<1> QED
  BY <1>3, <1>5, <1>6, <1>7 DEF C, IsReach

\* Who dominates whom.
LEMMA DominatorFacts ==
    ASSUME NEW code, NEW l \in DOMAIN code, NEW d
    PROVE  d \in DominatorsOf(code)[l] <=>
               /\ d \in DOMAIN code
               /\ d = l \/ d = Entry \/ l \notin Reach(code, {Entry}, {d})
BY DEF DominatorsOf

\* No two blocks dominate each other.
LEMMA DominanceAntisymmetric ==
    ASSUME NEW code, IsGraph(code), Connected(code), NEW a \in DOMAIN code, NEW b \in DOMAIN code,
           a \in DominatorsOf(code)[b], b \in DominatorsOf(code)[a]
    PROVE  a = b
<1> SUFFICES ASSUME a # b PROVE FALSE
  OBVIOUS
<1> DEFINE E == {Entry}
           A == Reach(code, E, {a})
           B == Reach(code, E, {b})
           S == Reach(code, E, {a, b})
<1>1. Entry \in DOMAIN code /\ E \in SUBSET DOMAIN code
  BY DEF IsGraph
<1>2. /\ E \subseteq A /\ \A c \in A : \A y \in Succs(code, c) : y \notin {a} => y \in A
  BY <1>1, ReachFacts DEF IsReach
<1>3. /\ E \subseteq B /\ \A c \in B : \A y \in Succs(code, c) : y \notin {b} => y \in B
  BY <1>1, ReachFacts DEF IsReach
<1>12. IsReach(S, code, E, {a, b})
  BY <1>1, ReachFacts
<1>4. /\ E \subseteq S /\ S \subseteq DOMAIN code
      /\ \A c \in S : \A y \in Succs(code, c) : y \notin {a, b} => y \in S
  BY <1>12, Zenon DEF IsReach
<1>0. ASSUME NEW T, E \subseteq T,
             \A c \in T \cap DOMAIN code : \A y \in Succs(code, c) : y \notin {a, b} => y \in T
      PROVE  S \subseteq T
  BY <1>0, <1>12 DEF IsReach
<1>5. a = Entry \/ b \notin A
  BY DominatorFacts
<1>6. b = Entry \/ a \notin B
  BY DominatorFacts
<1> HIDE DEF A, B, S
<1>7. a # Entry /\ b # Entry
  BY <1>2, <1>3, <1>5, <1>6
<1>8. b \notin A /\ a \notin B
  BY <1>5, <1>6, <1>7
<1>9. S \subseteq A /\ S \subseteq B
  BY <1>0, <1>2, <1>3
<1>10. ASSUME NEW c \in S, NEW y \in Succs(code, c) PROVE y \in S
  <2>1. y # a
    BY <1>3, <1>8, <1>9
  <2>2. y # b
    BY <1>2, <1>8, <1>9
  <2> QED
    BY <1>4, <2>1, <2>2
<1>11. S = DOMAIN code
  <2>1. Entry \in S /\ S \in SUBSET DOMAIN code
    BY <1>4
  <2>2. \A c \in S : Succs(code, c) \cap DOMAIN code \subseteq S
    BY <1>10
  <2> QED
    BY <2>1, <2>2 DEF Connected
<1> QED
  BY <1>8, <1>9, <1>11

\* A definition that reaches a block past no other one dominates it, unless there is a
\* phi node on the way: where its dominance ends is its frontier.
LEMMA ReachingDominates ==
    ASSUME NEW code, IsGraph(code), NEW D \in SUBSET DOMAIN code, NEW P, P \subseteq D,
           NEW d \in D, FrontiersOf(code, DominatorsOf(code))[d] \subseteq P,
           NEW l \in DOMAIN code, l \notin P, Meets(code, D, d, l)
    PROVE  d # l /\ d \in DominatorsOf(code)[l]
<1> DEFINE dom == DominatorsOf(code)
           front == FrontiersOf(code, dom)
           F == Succs(code, d) \ D
           R == Reach(code, F, D)
           T == {c \in DOMAIN code : d \in dom[c]}
<1>1. ASSUME NEW c \in DOMAIN code, d \in dom[c], NEW y \in Succs(code, c), y \notin P
      PROVE  y \in DOMAIN code /\ d # y /\ d \in dom[y]
  <2>1. y \in DOMAIN code
    BY DEF IsGraph
  <2>2. c \in Preds(code, y)
    BY DEF Preds
  <2>3. y \notin front[d]
    BY <1>1
  <2>4. front[d] = {x \in DOMAIN code : /\ d = x \/ d \notin dom[x]
                                        /\ \E p \in Preds(code, x) : d \in dom[p]}
    BY DEF FrontiersOf
  <2> HIDE DEF front, dom
  <2> QED
    BY <1>1, <2>1, <2>2, <2>3, <2>4
<1>2. d \in DOMAIN code /\ d \in dom[d]
  BY DominatorFacts
<1>3. F \in SUBSET DOMAIN code
  BY <1>2 DEF IsGraph
<1>4. \A S : /\ F \subseteq S
             /\ \A c \in S \cap DOMAIN code : \A y \in Succs(code, c) : y \notin D => y \in S
             => R \subseteq S
  BY <1>3, ReachFacts DEF IsReach
<1> HIDE DEF R, dom
<1>5. F \subseteq T
  BY <1>1, <1>2
<1>6. \A c \in T \cap DOMAIN code : \A y \in Succs(code, c) : y \notin D => y \in T
  BY <1>1
<1>7. R \subseteq T
  BY <1>4, <1>5, <1>6
<1>8. PICK c \in {d} \cup R : l \in Succs(code, c)
  BY DEF Meets, R
<1>9. c \in DOMAIN code /\ d \in dom[c]
  BY <1>2, <1>7
<1> QED
  BY <1>1, <1>8, <1>9 DEF dom

\* If b does not dominate a, and a reaches l past no block of D, b among them, then b
\* does not dominate l either.
LEMMA ReachesAround ==
    ASSUME NEW code, IsGraph(code), NEW D \in SUBSET DOMAIN code, NEW a \in D, NEW b \in D,
           b \notin DominatorsOf(code)[a], NEW l \in DOMAIN code, b # l, Meets(code, D, a, l)
    PROVE  b \notin DominatorsOf(code)[l]
<1> DEFINE F == Succs(code, a) \ D
           R == Reach(code, F, D)
           B == Reach(code, {Entry}, {b})
<1>1. b \in DOMAIN code /\ b # a /\ b # Entry /\ a \in B
  BY DominatorFacts
<1>2. {Entry} \in SUBSET DOMAIN code /\ F \in SUBSET DOMAIN code
  BY DEF IsGraph
<1>3. \A c \in B : \A y \in Succs(code, c) : y \notin {b} => y \in B
  BY <1>2, ReachFacts DEF IsReach
<1>4. \A S : /\ F \subseteq S
             /\ \A c \in S \cap DOMAIN code : \A y \in Succs(code, c) : y \notin D => y \in S
             => R \subseteq S
  BY <1>2, ReachFacts DEF IsReach
<1>5. PICK c \in {a} \cup R : l \in Succs(code, c)
  BY DEF Meets
<1> HIDE DEF R, B
<1>6. F \subseteq B
  BY <1>1, <1>3
<1>7. \A x \in B \cap DOMAIN code : \A y \in Succs(code, x) : y \notin D => y \in B
  BY <1>3
<1>8. R \subseteq B
  BY <1>4, <1>6, <1>7
<1>9. l \in B
  BY <1>1, <1>3, <1>5, <1>8
<1> QED
  BY <1>1, <1>9, DominatorFacts DEF B

\* Of the blocks that define a variable only one reaches a block without a phi node:
\* two of them would dominate it, so each would dominate the other.
LEMMA OneDefinitionReaches ==
    ASSUME NEW code, IsGraph(code), Connected(code), NEW D \in SUBSET DOMAIN code, NEW P, P \subseteq D,
           \A d \in D : FrontiersOf(code, DominatorsOf(code))[d] \subseteq P,
           NEW l \in DOMAIN code, l \notin P,
           NEW a \in D, NEW b \in D, Meets(code, D, a, l), Meets(code, D, b, l)
    PROVE  a = b
<1>1. a # l /\ b # l /\ a \in DominatorsOf(code)[l] /\ b \in DominatorsOf(code)[l]
  BY ReachingDominates
<1>2. b \in DominatorsOf(code)[a]
  BY <1>1, ReachesAround
<1>3. a \in DominatorsOf(code)[b]
  BY <1>1, ReachesAround
<1> QED
  BY <1>2, <1>3, DominanceAntisymmetric

\* Graphs with the same branches have the same paths.
LEMMA SameGraph ==
    ASSUME NEW code, NEW more, IsGraph(code), DOMAIN more = DOMAIN code,
           \A l \in DOMAIN code : Succs(more, l) = Succs(code, l),
           NEW D, NEW d \in DOMAIN code, NEW l
    PROVE  Meets(more, D, d, l) <=> Meets(code, D, d, l)
<1> DEFINE F == Succs(code, d) \ D
           R == Reach(code, F, D)
<1>1. [c \in DOMAIN more |-> Succs(more, c) \ D] = [c \in DOMAIN code |-> Succs(code, c) \ D]
  OBVIOUS
<1>2. Reach(more, F, D) = R
  BY <1>1 DEF Reach
<1>3. Succs(more, d) \ D = F
  OBVIOUS
<1>4. R \subseteq DOMAIN code
  <2>1. F \in SUBSET DOMAIN code
    BY DEF IsGraph
  <2> QED
    BY <2>1, ReachFacts DEF IsReach
<1>5. Meets(more, D, d, l) <=> \E c \in {d} \cup R : l \in Succs(more, c)
  BY <1>2, <1>3, Zenon DEF Meets
<1>6. Meets(code, D, d, l) <=> \E c \in {d} \cup R : l \in Succs(code, c)
  BY Zenon DEF Meets
<1> HIDE DEF R
<1> QED
  BY <1>4, <1>5, <1>6

\* A function has phi nodes enough for x if there is one wherever the dominance of a
\* block that defines x ends.
LEMMA EnoughPhis ==
    ASSUME NEW b, NEW x, NEW code, IsGraph(code), Connected(code),
           DOMAIN b.code = DOMAIN code, \A l \in DOMAIN code : Succs(b.code, l) = Succs(code, l),
           DefinedIn(b, x) \subseteq DOMAIN code,
           \A d \in DefinedIn(b, x) :
               FrontiersOf(code, DominatorsOf(code))[d] \subseteq PhisFor(b.code, x)
    PROVE  Suffices(b, x)
<1> DEFINE D == DefinedIn(b, x)
           P == PhisFor(b.code, x)
<1>1. P \subseteq D /\ D \in SUBSET DOMAIN code
  <2>1. D \in SUBSET DOMAIN code
    OBVIOUS
  <2>2. ASSUME NEW l \in P PROVE l \in D
    BY DEF DefinedIn, PhisFor
  <2> HIDE DEF D, P
  <2> QED
    BY <2>1, <2>2
<1>2. \A d \in D : FrontiersOf(code, DominatorsOf(code))[d] \subseteq P
  OBVIOUS
<1> HIDE DEF D, P
<1>3. ASSUME NEW l \in DOMAIN code \ P
      PROVE  Cardinality({d \in D : Meets(b.code, D, d, l)}) <= 1
  <2> DEFINE X == {d \in D : Meets(b.code, D, d, l)}
  <2>1. ASSUME NEW p \in X, NEW q \in X PROVE p = q
    <3>1. p \in D /\ q \in D /\ Meets(b.code, D, p, l) /\ Meets(b.code, D, q, l)
      OBVIOUS
    <3>2. Meets(code, D, p, l)
      BY <1>1, <3>1, SameGraph
    <3>3. Meets(code, D, q, l)
      BY <1>1, <3>1, SameGraph
    <3> QED
      BY <1>1, <1>2, <3>1, <3>2, <3>3, OneDefinitionReaches
  <2> HIDE DEF X
  <2>2. X = {} \/ \E p : X = {p}
    BY <2>1
  <2>3. Cardinality(X) = 0 \/ Cardinality(X) = 1
    BY <2>2, FS_EmptySet, FS_Singleton
  <2> QED
    BY <2>3 DEF X
<1> QED
  BY <1>3 DEF Suffices, D, P

\* The blocks that get a phi node for x: the frontiers of the blocks that define it,
\* and those of the phi nodes.
LEMMA PhiBlocksFacts ==
    ASSUME FnOK(fn, Naked), \A d \in fn.defs : d[2] \in DOMAIN fn.code,
           fn.front = FrontiersOf(fn.code, DominatorsOf(fn.code)), NEW x
    PROVE  /\ PhiBlocks(x) \subseteq DOMAIN fn.code
           /\ \A d \in fn.defs : d[1] = x => fn.front[d[2]] \subseteq PhiBlocks(x)
           /\ \A l \in PhiBlocks(x) : fn.front[l] \subseteq PhiBlocks(x)
<1> DEFINE U == DOMAIN fn.code
           n == Len(fn.order)
           from == UNION {fn.front[d[2]] : d \in {e \in fn.defs : e[1] = x}}
           C == Closure(from, fn.front, n)
<1>1. IsSeq(fn.order) /\ ToSet(fn.order) = U
  BY DEF FnOK, LayoutOK
<1>2. n \in Nat /\ DOMAIN fn.order = 1 .. n
  BY <1>1, SeqFacts
<1>3. IsFiniteSet(U) /\ Cardinality(U) <= n
  <2> DEFINE o == fn.order
  <2>1. o \in Surjection(1 .. n, U)
    <3>1. o \in [1 .. n -> U]
      BY <1>1, <1>2, SeqFacts DEF IsSeq
    <3>2. \A y \in U : \E i \in 1 .. n : o[i] = y
      BY <1>1, SeqFacts
    <3> QED
      BY <3>1, <3>2 DEF Surjection
  <2>2. IsFiniteSet(1 .. n) /\ Cardinality(1 .. n) = n
    BY <1>2, FS_Interval
  <2> HIDE DEF o, n, U
  <2> QED
    BY <2>1, <2>2, FS_Surjection
<1>4. fn.front \in [U -> SUBSET U]
  BY DEF FrontiersOf
<1>5. from \in SUBSET U
  <2>1. ASSUME NEW y \in from PROVE y \in U
    <3>1. PICK d \in fn.defs : y \in fn.front[d[2]]
      BY Zenon
    <3> HIDE DEF U
    <3>2. d[2] \in U
      BY DEF U
    <3> QED
      BY <1>4, <3>1, <3>2
  <2> QED
    BY <2>1
<1>6. PhiBlocks(x) = C
  BY DEF PhiBlocks
<1>7. \A d \in fn.defs : d[1] = x => fn.front[d[2]] \subseteq from
  OBVIOUS
<1> HIDE DEF U, n, from
<1>8. IsClosure(C, from, fn.front, U)
  BY <1>2, <1>3, <1>4, <1>5, ClosureFacts
<1> HIDE DEF C
<1>9. from \subseteq C /\ C \subseteq U /\ \A c \in C : fn.front[c] \subseteq C
  BY <1>8 DEF IsClosure
<1> QED
  BY <1>6, <1>7, <1>9 DEF U

\* A finite set is listed by the sequence of its elements.
LEMMA Listed ==
    ASSUME NEW S, IsFiniteSet(S)
    PROVE  /\ SetToSeq(S) \in [1 .. Cardinality(S) -> S] /\ Cardinality(S) \in Nat
           /\ \A x \in S : \E i \in 1 .. Cardinality(S) : SetToSeq(S)[i] = x
<1>1. PICK f : f \in Bijection(1 .. Cardinality(S), S)
  BY FS_CardinalityType DEF ExistsBijection
<1>2. f \in [1 .. Cardinality(S) -> S] /\ IsInjective(f)
  <2>1. f \in Injection(1 .. Cardinality(S), S)
    BY <1>1 DEF Bijection
  <2> QED
    BY <2>1 DEF Injection, IsInjective
<1>3. Cardinality(S) \in Nat
  BY FS_CardinalityType
<1> DEFINE q == SetToSeq(S)
           n == Cardinality(S)
<1>4. q \in [1 .. n -> S] /\ IsInjective(q)
  BY <1>2 DEF SetToSeq
<1>5. IsFiniteSet(1 .. n) /\ Cardinality(1 .. n) = n
  BY <1>3, FS_Interval
<1> HIDE DEF q
<1>6. q \in Injection(1 .. n, S)
  BY <1>4 DEF Injection, IsInjective
<1>7. q \in Surjection(1 .. n, S)
  BY <1>5, <1>6, FS_Injection
<1>8. \A x \in S : \E i \in 1 .. n : q[i] = x
  BY <1>7 DEF Surjection
<1> QED
  BY <1>3, <1>4, <1>8 DEF q

\* The rest of a sequence without repetitions.
LEMMA RestOnce ==
    ASSUME NEW S, NEW s \in Seq(S), s # <<>>, \A j, k \in 1 .. Len(s) : s[j] = s[k] => j = k
    PROVE  /\ Head(s) \in S /\ Head(s) \in ToSet(s) /\ Tail(s) \in Seq(S)
           /\ ToSet(Tail(s)) = ToSet(s) \ {Head(s)}
           /\ \A j, k \in 1 .. Len(Tail(s)) : Tail(s)[j] = Tail(s)[k] => j = k
<1> DEFINE t == Tail(s)
<1>1. IsSeq(s) /\ ToSet(s) \subseteq S
  BY SeqIsSeq
<1>2. /\ Head(s) = s[1] /\ s[1] \in ToSet(s) /\ IsSeq(t) /\ Len(t) = Len(s) - 1
      /\ \A i \in 1 .. Len(s) - 1 : t[i] = s[i + 1]
      /\ ToSet(t) \subseteq ToSet(s) /\ ToSet(s) \subseteq {s[1]} \cup ToSet(t)
  BY <1>1, HeadAndTail
<1>3. Len(s) \in Nat /\ Len(s) >= 1
  BY <1>1, SeqFacts
<1>4. t \in Seq(S)
  BY HeadTailProperties
<1> HIDE DEF t
<1>5. ASSUME NEW x \in ToSet(t) PROVE x # s[1]
  <2>1. PICK i \in 1 .. Len(t) : x = t[i]
    BY <1>2, SeqFacts
  <2>2. x = s[i + 1] /\ i + 1 \in 1 .. Len(s) /\ i + 1 # 1 /\ 1 \in 1 .. Len(s)
    BY <1>2, <1>3, <2>1
  <2> QED
    BY <2>2
<1>6. ASSUME NEW j \in 1 .. Len(t), NEW k \in 1 .. Len(t), t[j] = t[k] PROVE j = k
  <2>1. t[j] = s[j + 1] /\ t[k] = s[k + 1] /\ j + 1 \in 1 .. Len(s) /\ k + 1 \in 1 .. Len(s)
    BY <1>2, <1>3
  <2>2. j + 1 = k + 1
    BY <1>6, <2>1
  <2> QED
    BY <2>2
<1> QED
  BY <1>1, <1>2, <1>4, <1>5, <1>6 DEF t

\* The function is complete: every jump has its block, every block its end.
LEMMA InsertPhisStep ==
    ASSUME Progress, Owed, pending # <<>>, insertPhiNodes
    PROVE  Progress' /\ work' = <<>>
<1> DEFINE names == {x \in {d[1] : d \in fn.defs} : PhiBlocks(x) # {}}
           known == Over(table, [x \in names |-> Name("")])
           here(l) == SetToSeq({x \in names : l \in PhiBlocks(x)})
           phis(l) == [i \in DOMAIN here(l) |-> Inst("Phi", known[here(l)[i]].name, <<>>)]
           code == [l \in Block |-> phis(l) \o fn.code[l]]
           k == Head(pending)
           V == {x \in DOMAIN table \ {""} : table[x] = Name(x)}
           b == [order |-> fn.order, params |-> fn.params, vars |-> V, code |-> code]
<1>1. /\ work # <<>> /\ Item.node = "Phis" /\ built' = Put(built, k, b)
      /\ pending' = Tail(pending) /\ work' = <<>> /\ prog' = prog
  BY DEF insertPhiNodes, Working
<1> HIDE DEF V
<1>2. FnOK(fn, Naked) /\ WorkOK(fn, work, Naked)
  BY SMTT(40) DEF Owed
<1>3. Item = work[1] /\ Ends(fn.code[fn.cur])
  BY <1>1, FirstItem DEF NeedsClosed
<1>4. Opens(work) = {}
  <2>1. IsSeq(work) /\ Len(work) \in Nat /\ Len(work) >= 1
    BY <1>1, <1>2, SeqFacts DEF WorkOK
  <2>2. Len(work) = 1
    <3>1. 1 \in 1 .. Len(work)
      BY <2>1, SMTT(40)
    <3> QED
      BY <1>1, <1>2, <1>3, <3>1 DEF WorkOK
  <2>3. Opens(work) = Opens(Tail(work)) /\ Tail(work) = <<>>
    BY <1>1, <1>2, <1>3, <2>2, RestOfWork
  <2> QED
    BY <2>3, TupleSeqs DEF Opens
<1>5. IsFiniteSet({d[1] : d \in fn.defs})
  <2> DEFINE g == [d \in fn.defs |-> d[1]]
  <2>1. IsFiniteSet({g[d] : d \in fn.defs})
    BY <1>2, FiniteImage DEF FnOK
  <2>2. {g[d] : d \in fn.defs} = {d[1] : d \in fn.defs}
    BY ZenonT(60)
  <2> QED
    BY <2>1, <2>2
<1> HIDE DEF known
<1>6. ASSUME NEW l
      PROVE  /\ IsSeq(phis(l))
             /\ \A j \in 1 .. Len(phis(l)) : phis(l)[j].op = "Phi" /\ phis(l)[j].to = <<>>
             /\ \A j \in 1 .. Len(phis(l)) :
                   \E x \in names : l \in PhiBlocks(x) /\ phis(l)[j].result = known[x].name
             /\ \A x \in names : l \in PhiBlocks(x) =>
                   \E j \in 1 .. Len(phis(l)) : phis(l)[j].result = known[x].name
  <2> DEFINE S == {x \in names : l \in PhiBlocks(x)}
             n == Cardinality(S)
             h == here(l)
             p == [i \in DOMAIN h |-> Inst("Phi", known[h[i]].name, <<>>)]
  <2>1. IsFiniteSet(S)
    BY <1>5, FS_Subset
  <2>2. /\ DOMAIN h = 1 .. n /\ n \in Nat
        /\ \A i \in 1 .. n : h[i] \in S
        /\ \A x \in S : \E i \in 1 .. n : h[i] = x
    BY <2>1, Listed
  <2>3. p = phis(l)
    OBVIOUS
  <2> HIDE DEF h, n
  <2>4. \A i \in 1 .. n : /\ p[i].op = "Phi" /\ p[i].to = <<>>
                           /\ p[i].result = known[h[i]].name
    BY <2>2 DEF Inst
  <2>5. DOMAIN p = 1 .. n
    BY <2>2
  <2>6. p \in [1 .. n -> {p[i] : i \in 1 .. n}]
    BY <2>5
  <2> HIDE DEF p
  <2>7. p \in Seq({p[i] : i \in 1 .. n})
    BY <2>2, <2>6, SeqDef
  <2>8. IsSeq(p) /\ Len(p) \in Nat /\ DOMAIN p = 1 .. Len(p)
    BY <2>7, SeqIsSeq, LenProperties
  <2>9. \A j \in 1 .. Len(p) : p[j].op = "Phi" /\ p[j].to = <<>>
    BY <2>4, <2>5, <2>8
  <2>10. 1 .. Len(p) = 1 .. n
    BY <2>5, <2>8
  <2>11. ASSUME NEW j \in 1 .. n
         PROVE  \E x \in names : l \in PhiBlocks(x) /\ p[j].result = known[x].name
    <3>1. h[j] \in S /\ p[j].result = known[h[j]].name
      BY <2>2, <2>4
    <3> QED
      BY <3>1
  <2>12. ASSUME NEW x \in names, l \in PhiBlocks(x)
         PROVE  \E j \in 1 .. n : p[j].result = known[x].name
    <3>1. x \in S
      BY <2>12
    <3>2. PICK j \in 1 .. n : h[j] = x
      BY <2>2, <3>1
    <3> QED
      BY <2>4, <3>2
  <2> QED
    BY <2>3, <2>8, <2>9, <2>10, <2>11, <2>12, ZenonT(60)
<1> HIDE DEF phis
<1>7. DOMAIN code = DOMAIN fn.code /\ \A l \in DOMAIN fn.code : code[l] = phis(l) \o fn.code[l]
  BY DEF Block
<1> HIDE DEF code
<1>8. ASSUME NEW l \in DOMAIN fn.code
      PROVE  /\ BlockOK(code[l], l, Naked) /\ Ends(code[l])
             /\ Targets(code[l]) \subseteq DOMAIN fn.code
             /\ Targets(code[l]) = Targets(fn.code[l])
  <2>1. BlockOK(fn.code[l], l, Naked) /\ Ends(fn.code[l])
    BY <1>2, <1>3 DEF FnOK
  <2>2. Targets(fn.code[l]) \subseteq DOMAIN fn.code
    BY <1>2, <1>4 DEF WorkOK
  <2>3. /\ BlockOK(phis(l) \o fn.code[l], l, Naked) /\ Ends(phis(l) \o fn.code[l])
        /\ Targets(phis(l) \o fn.code[l]) = Targets(fn.code[l])
    BY <1>6, <2>1, PhisInFront
  <2> QED
    BY <1>7, <2>2, <2>3
<1>9. b.order = fn.order /\ b.code = code /\ b.params = fn.params /\ b.vars = V
  OBVIOUS
<1> HIDE DEF b
<1>17. /\ FlowOK(fn, work)
       /\ \A d \in fn.defs : d[2] \in DOMAIN fn.code
       /\ fn.front = FrontiersOf(fn.code, DominatorsOf(fn.code))
  BY <1>1, <1>3 DEF Owed, FlowOK
<1>18. \A x : /\ PhiBlocks(x) \subseteq DOMAIN fn.code
              /\ \A d \in fn.defs : d[1] = x => fn.front[d[2]] \subseteq PhiBlocks(x)
              /\ \A l \in PhiBlocks(x) : fn.front[l] \subseteq PhiBlocks(x)
  BY <1>2, <1>17, PhiBlocksFacts
<1>19. ASSUME NEW x, NEW l \in DOMAIN fn.code
       PROVE  l \in PhisFor(code, x) <=> \E y \in names : l \in PhiBlocks(y) /\ known[y].name = x
  <2> DEFINE a == phis(l)
             c == fn.code[l]
  <2>1. IsSeq(a) /\ IsSeq(c) /\ code[l] = a \o c
    BY <1>2, <1>6, <1>7 DEF FnOK, BlockOK
  <2>2. \A j \in 1 .. Len(c) : c[j].op # "Phi"
    BY <1>17 DEF FlowOK
  <2>3. /\ \A j \in 1 .. Len(a) : a[j].op = "Phi"
        /\ \A j \in 1 .. Len(a) : \E y \in names : l \in PhiBlocks(y) /\ a[j].result = known[y].name
        /\ \A y \in names : l \in PhiBlocks(y) => \E j \in 1 .. Len(a) : a[j].result = known[y].name
    BY <1>6, ZenonT(60)
  <2> HIDE DEF a, c
  <2>4. /\ IsSeq(a \o c) /\ Len(a \o c) = Len(a) + Len(c) /\ Len(a) \in Nat /\ Len(c) \in Nat
        /\ \A i \in 1 .. Len(a) : (a \o c)[i] = a[i]
        /\ \A i \in 1 .. Len(c) : (a \o c)[Len(a) + i] = c[i]
    BY <2>1, Joined, SeqFacts
  <2> DEFINE e == a \o c
  <2>5. DOMAIN e = 1 .. Len(a) + Len(c)
    BY <2>4, SeqFacts
  <2> HIDE DEF e
  <2>6. l \in PhisFor(code, x) <=> \E i \in DOMAIN e : e[i].op = "Phi" /\ e[i].result = x
    BY <1>7, <2>1 DEF PhisFor, e
  <2>7. ASSUME NEW i \in DOMAIN e, e[i].op = "Phi"
        PROVE  i \in 1 .. Len(a) /\ e[i] = a[i]
    <3>1. CASE i > Len(a)
      <4>1. i - Len(a) \in 1 .. Len(c) /\ i = Len(a) + (i - Len(a))
        BY <2>4, <2>5, <3>1
      <4>2. e[i] = c[i - Len(a)]
        BY <2>4, <4>1 DEF e
      <4> QED
        BY <2>2, <2>7, <4>1, <4>2
    <3>2. CASE i <= Len(a)
      BY <2>4, <2>5, <3>2 DEF e
    <3> QED
      BY <2>4, <2>5, <3>1, <3>2
  <2>8. \A i \in 1 .. Len(a) : i \in DOMAIN e /\ e[i] = a[i]
    BY <2>4, <2>5 DEF e
  <2> HIDE DEF names
  <2>9. ASSUME NEW i \in DOMAIN e, e[i].op = "Phi", e[i].result = x
        PROVE  \E y \in names : l \in PhiBlocks(y) /\ known[y].name = x
    <3>1. i \in 1 .. Len(a) /\ a[i].result = x
      BY <2>7, <2>9
    <3> QED
      BY <2>3, <3>1
  <2>10. ASSUME NEW y \in names, l \in PhiBlocks(y), known[y].name = x
         PROVE  \E i \in DOMAIN e : e[i].op = "Phi" /\ e[i].result = x
    <3>1. PICK j \in 1 .. Len(a) : a[j].result = x
      BY <2>3, <2>10
    <3> QED
      BY <2>3, <2>8, <3>1
  <2> QED
    BY <2>6, <2>9, <2>10
<1>20. ASSUME NEW x \in V, Tracked(code, x) PROVE Suffices(b, x)
  <2> DEFINE P == PhisFor(code, x)
             D == DefinedIn(b, x)
  <2>1. x \in DOMAIN known /\ known[x].name = x
    <3>1. x \in DOMAIN table /\ table[x] = Name(x)
      BY Zenon DEF V
    <3>2. x \in DOMAIN known /\ known[x] = table[x]
      BY <3>1, Zenon DEF known, Over
    <3> QED
      BY <3>1, <3>2 DEF Name
  <2>2. ASSUME NEW d \in D PROVE d \in P \/ \E e \in fn.defs : e[1] = x /\ d = e[2]
    <3>1. CASE d = Entry /\ x \in fn.params
      <4>1. <<x, Entry>> \in fn.defs
        BY <1>17, <3>1 DEF FlowOK, Noted
      <4> QED
        BY <3>1, <4>1
    <3>2. CASE ~(d = Entry /\ x \in fn.params)
      <4>1. PICK i \in DOMAIN code[d] : d \in DOMAIN code /\ code[d][i].result = x
        BY <1>9, <3>2 DEF DefinedIn
      <4>2. code[d][i].op \in Recorded \cup {"Phi"}
        BY <1>20, <4>1 DEF Tracked
      <4>3. CASE code[d][i].op = "Phi"
        BY <4>1, <4>3 DEF PhisFor
      <4>4. CASE code[d][i].op \in Recorded
        <5>1. d \in DOMAIN fn.code /\ IsSeq(phis(d)) /\ IsSeq(fn.code[d]) /\ code[d] = phis(d) \o fn.code[d]
          BY <1>2, <1>6, <1>7, <4>1 DEF FnOK, BlockOK
        <5>2. \A j \in 1 .. Len(phis(d)) : phis(d)[j].op = "Phi"
          BY <1>6, ZenonT(60)
        <5>3. code[d][i] \in ToSet(fn.code[d])
          <6> DEFINE a == phis(d)
                     c == fn.code[d]
                     y == code[d][i]
          <6>1. y \in ToSet(code[d])
            BY <4>1 DEF ToSet
          <6>2. y.op # "Phi"
            BY <4>4 DEF Recorded
          <6> HIDE DEF a, c, y
          <6>3. ToSet(a \o c) = ToSet(a) \cup ToSet(c)
            BY <5>1, Joined DEF a, c
          <6>4. y \notin ToSet(a)
            <7>1. IsSeq(a) /\ \A j \in 1 .. Len(a) : a[j].op = "Phi"
              BY <5>1, <5>2 DEF a
            <7>2. \A i1 \in ToSet(a) : i1.op = "Phi"
              <8>1. ASSUME NEW z \in ToSet(a) PROVE z.op = "Phi"
                <9>1. PICK j \in 1 .. Len(a) : z = a[j]
                  BY <7>1, <8>1, SeqFacts
                <9> QED
                  BY <7>1, <9>1
              <8> QED
                BY <8>1
            <7> QED
              BY ONLY <6>2, <7>2
          <6> QED
            BY <5>1, <6>1, <6>3, <6>4 DEF a, c, y
        <5>4. <<x, d>> \in fn.defs
          <6>1. x # ""
            BY Zenon DEF V
          <6>2. code[d][i].op \in Recorded /\ code[d][i].result = x
            BY <4>1, <4>4
          <6>3. \A l \in DOMAIN fn.code : \A z \in ToSet(fn.code[l]) :
                   z.op \in Recorded /\ z.result # "" => <<z.result, l>> \in fn.defs
            BY <1>17, Zenon DEF FlowOK, Noted
          <6> QED
            BY <5>1, <5>3, <6>1, <6>2, <6>3, Zenon
        <5> QED
          BY <5>4
      <4> QED
        BY <4>2, <4>3, <4>4
    <3> QED
      BY <3>1, <3>2
  <2>3. P \subseteq DOMAIN fn.code
    BY <1>7 DEF PhisFor
  <2>4. D \subseteq DOMAIN fn.code
    BY <1>17, <2>2, <2>3
  <2> HIDE DEF P, D
  <2>5. ASSUME NEW d \in D, NEW l \in fn.front[d] PROVE l \in P
    <3>1. \E y \in names : l \in PhiBlocks(y) /\ known[y].name = x
      <4>1. CASE d \in P
        <5>1. PICK y \in names : d \in PhiBlocks(y) /\ known[y].name = x
          BY <1>19, <2>3, <4>1 DEF P
        <5>2. l \in PhiBlocks(y)
          BY <1>18, <2>5, <5>1
        <5> QED
          BY <5>1, <5>2
      <4>2. CASE \E e \in fn.defs : e[1] = x /\ d = e[2]
        <5>1. PICK e \in fn.defs : e[1] = x /\ d = e[2]
          BY <4>2
        <5>2. l \in PhiBlocks(x)
          BY <1>18, <2>5, <5>1
        <5>3. x \in names
          BY <5>1, <5>2
        <5> QED
          BY <2>1, <5>2, <5>3
      <4> QED
        BY <2>2, <4>1, <4>2
    <3>2. l \in DOMAIN fn.code
      BY <1>18, <3>1
    <3> QED
      BY <1>19, <3>1, <3>2 DEF P
  <2>6. IsGraph(fn.code) /\ Connected(fn.code)
    <3>1. IsFiniteSet(DOMAIN fn.code) /\ Entry \in DOMAIN fn.code
      BY <1>2, FiniteSeq DEF FnOK, LayoutOK
    <3>2. \A l \in DOMAIN fn.code : Succs(fn.code, l) \subseteq DOMAIN fn.code
      BY <1>2, <1>4 DEF WorkOK, Succs, Targets
    <3> QED
      BY <1>17, <3>1, <3>2 DEF IsGraph, FlowOK
  <2>7. \A l \in DOMAIN fn.code : Succs(b.code, l) = Succs(fn.code, l)
    BY ONLY <1>8, <1>9 DEF Succs, Targets
  <2>8. \A d \in D : FrontiersOf(fn.code, DominatorsOf(fn.code))[d] \subseteq P
    BY <1>17, <2>5
  <2> QED
    BY <1>7, <1>9, <2>4, <2>6, <2>7, <2>8, EnoughPhis DEF D, P
<1>10. BuiltOK(b, Naked)
  <2>1. LayoutOK(b)
    BY <1>2, <1>7, <1>9 DEF FnOK, LayoutOK
  <2>2. Entry \in DOMAIN b.code
    BY <1>2, <1>7, <1>9 DEF FnOK
  <2> QED
    BY <1>7, <1>8, <1>9, <1>20, <2>1, <2>2 DEF BuiltOK
<1>11. /\ pending \in Seq(DOMAIN prog.funcs)
       /\ \A i, j \in 1 .. Len(pending) : pending[i] = pending[j] => i = j
       /\ DOMAIN built = DOMAIN prog.funcs \ ToSet(pending)
       /\ \A i \in DOMAIN built : BuiltOK(built[i], prog.funcs[i].naked)
       /\ prog \in Programs
  BY DEF Progress
<1>12. /\ k \in DOMAIN prog.funcs /\ k \in ToSet(pending) /\ Tail(pending) \in Seq(DOMAIN prog.funcs)
       /\ ToSet(Tail(pending)) = ToSet(pending) \ {k}
       /\ \A i, j \in 1 .. Len(Tail(pending)) : Tail(pending)[i] = Tail(pending)[j] => i = j
  BY <1>11, RestOnce
<1>13. Naked = prog.funcs[k].naked
  BY DEF Naked
<1> HIDE DEF k
<1>14. /\ DOMAIN built' = DOMAIN built \cup {k} /\ built'[k] = b
       /\ \A i \in DOMAIN built : i # k => built'[i] = built[i]
  BY <1>1 DEF Put
<1>15. DOMAIN built' = DOMAIN prog.funcs \ ToSet(Tail(pending))
  BY <1>11, <1>12, <1>14
<1>16. \A i \in DOMAIN built' : BuiltOK(built'[i], prog.funcs[i].naked)
  BY <1>10, <1>11, <1>13, <1>14
<1> QED
  BY <1>1, <1>11, <1>12, <1>15, <1>16 DEF Progress

\* What the builder owes it keeps owing until it is paid, from the first statement of
\* a function to its last instruction.
LEMMA StackSteps ==
    ASSUME Owed, BuildExpr \/ BuildStatement \/ AddReturn \/ ComputeDominators \/ ComputeFrontiers
    PROVE  Owed'
<1>1. CASE BuildExpr
  BY <1>1, ExprSteps
<1>2. CASE BuildStatement
  BY <1>2, QuietStatementSteps, SplitIfStep, BuildWhileStep, EnterForStep, TestLoopStep,
     AppendCodeStep, EnterBlockStep DEF BuildStatement
<1>3. CASE AddReturn
  BY <1>3, AddReturnStep
<1>4. CASE ComputeDominators \/ ComputeFrontiers
  BY <1>4, AnalysisSteps
<1> QED
  BY <1>1, <1>2, <1>3, <1>4

\* A step of the builder keeps the invariant.
LEMMA BuildSteps ==
    ASSUME BuilderInv, Build
    PROVE  BuilderInv'
<1>1. Progress /\ Building /\ Running
  BY DEF BuilderInv
<1>2. CASE BeginFunction
  <2>1. Owed' /\ pending' # <<>>
    BY <1>1, <1>2, BeginFunctionStep
  <2>2. Keep
    BY <1>2 DEF BeginFunction
  <2>3. Progress' /\ Running'
    BY <1>1, <2>2 DEF Progress, Running, Keep, runVars
  <2> QED
    BY <2>1, <2>3 DEF BuilderInv, Building, Owed
<1>3. CASE BuildExpr \/ BuildStatement \/ AddReturn \/ ComputeDominators \/ ComputeFrontiers
  <2>1. work # <<>> /\ Keep
    BY <1>3 DEF BuildExpr, BuildIntLit, BuildVar, BuildBinary, EndBinary, BuildCall, EndCall,
                BuildAccess, EndAccess, BuildAssign, EndAssign, BuildArrayAlloc, Working,
                BuildStatement, BuildIf, SplitIf, BuildWhile, TestLoop, BuildFor, EnterFor,
                BuildReturn, EndReturn, BuildDefer, BuildEffect, BuildExprStmt, EndExprStmt,
                BuildUnknown, AppendCode, EnterBlock, AddReturn, ComputeDominators, ComputeFrontiers
  <2>2. Owed /\ pending # <<>>
    BY <1>1, <2>1 DEF Building, Owed
  <2>3. Owed'
    BY <1>3, <2>2, StackSteps
  <2>4. Progress' /\ Running' /\ pending' # <<>>
    BY <1>1, <2>1, <2>2 DEF Progress, Running, Keep, runVars
  <2> QED
    BY <2>3, <2>4 DEF BuilderInv, Building, Owed
<1>4. CASE insertPhiNodes
  <2>1. work # <<>> /\ UNCHANGED runVars
    BY <1>4 DEF insertPhiNodes, Working
  <2>2. Owed /\ pending # <<>>
    BY <1>1, <2>1 DEF Building, Owed
  <2>3. Progress' /\ work' = <<>>
    BY <1>1, <1>4, <2>2, InsertPhisStep
  <2>4. Running'
    BY <1>1, <2>1, <2>2 DEF Running, runVars
  <2> QED
    BY <2>3, <2>4, SMTT(40) DEF BuilderInv, Building
<1> QED
  BY <1>2, <1>3, <1>4 DEF Build

(***************************************************************************)
(* The execution of the code.                                              *)
(***************************************************************************)

\* Past its phi nodes and its RegionEnter, and before its return, a block is inside
\* the region of its function.
LEMMA InsideRegion ==
    ASSUME NEW code, NEW at \in DOMAIN code, NEW naked, ~naked,
           BlockOK(code[at], at, naked), NEW pc \in 1 .. Len(code[at]),
           code[at][pc].op \notin {"Phi", "RegionEnter", "Return"}
    PROVE  RegionsAt(code, at, pc, naked) = 1
<1> DEFINE c == code[at]
<1>1. Len(c) \in Nat
  BY SeqFacts DEF BlockOK
<1>2. ExitsOK(c, naked) /\ EntersOK(c, at, naked)
  BY DEF BlockOK
<1>3. ~(at = Entry /\ \A j \in 1 .. pc - 1 : c[j].op = "Phi")
  <2> SUFFICES ASSUME at = Entry, \A j \in 1 .. pc - 1 : c[j].op = "Phi" PROVE FALSE
    OBVIOUS
  <2>1. PICK j \in 1 .. Len(c) : c[j].op = "RegionEnter"
    BY <1>2 DEF EntersOK
  <2>2. \A i \in 1 .. j - 1 : c[i].op = "Phi"
    BY <1>2, <2>1 DEF EntersOK
  <2>3. CASE j < pc
    <3>1. j \in 1 .. pc - 1
      BY <1>1, <2>3
    <3> QED
      BY <2>1, <3>1
  <2>4. CASE j > pc
    <3>1. pc \in 1 .. j - 1
      BY <1>1, <2>4
    <3> QED
      BY <2>2, <3>1
  <2>5. CASE j = pc
    BY <2>1, <2>5
  <2> QED
    BY <1>1, <2>3, <2>4, <2>5
<1>4. ~(pc > 1 /\ c[pc - 1].op = "RegionExit")
  <2> SUFFICES ASSUME pc > 1, c[pc - 1].op = "RegionExit" PROVE FALSE
    OBVIOUS
  <2>1. pc - 1 \in 1 .. Len(c) /\ pc - 1 + 1 = pc
    BY <1>1
  <2>2. c[pc - 1 + 1].op = "Return"
    BY <1>2, <2>1 DEF ExitsOK
  <2> QED
    BY <2>1, <2>2
<1> QED
  BY <1>3, <1>4 DEF RegionsAt

\* A block does not end in an instruction that is not a jump.
LEMMA NotTheLast ==
    ASSUME NEW c, IsSeq(c), Ends(c), NEW pc \in 1 .. Len(c), c[pc].op \notin Jumps
    PROVE  pc + 1 \in 1 .. Len(c)
<1>1. Len(c) \in Nat
  BY SeqFacts
<1>2. pc # Len(c)
  BY DEF Ends
<1> QED
  BY <1>1, <1>2

\* From one instruction to the next.
LEMMA RegionsNext ==
    ASSUME NEW code, NEW at \in DOMAIN code, NEW naked \in BOOLEAN,
           BlockOK(code[at], at, naked), NEW pc \in 1 .. Len(code[at]),
           code[at][pc].op # "Return"
    PROVE  RegionsAt(code, at, pc + 1, naked) =
              IF code[at][pc].op = "RegionEnter" THEN RegionsAt(code, at, pc, naked) + 1
              ELSE IF code[at][pc].op = "RegionExit" THEN RegionsAt(code, at, pc, naked) - 1
              ELSE RegionsAt(code, at, pc, naked)
<1> DEFINE c == code[at]
           before == RegionsAt(code, at, pc, naked)
           after == RegionsAt(code, at, pc + 1, naked)
<1>1. Len(c) \in Nat /\ pc + 1 - 1 = pc /\ pc + 1 > 1 /\ pc \in 1 .. pc
  BY SeqFacts DEF BlockOK
<1>2. ExitsOK(c, naked) /\ EntersOK(c, at, naked)
  BY DEF BlockOK
<1>3. CASE c[pc].op = "RegionEnter"
  <2>1. at = Entry /\ ~naked /\ \A i \in 1 .. pc - 1 : c[i].op = "Phi"
    BY <1>2, <1>3 DEF EntersOK
  <2>2. before = 0
    BY <2>1 DEF RegionsAt
  <2>3. after = 1
    BY <1>1, <1>3, <2>1 DEF RegionsAt
  <2> QED
    BY <1>3, <2>2, <2>3
<1>4. CASE c[pc].op = "RegionExit"
  <2>1. ~naked
    BY <1>2, <1>4 DEF ExitsOK
  <2>2. before = 1
    BY <1>4, <2>1, InsideRegion
  <2>3. after = 0
    BY <1>1, <1>4 DEF RegionsAt
  <2> QED
    BY <1>4, <2>2, <2>3
<1>5. CASE c[pc].op = "Phi"
  <2>1. ~(pc > 1 /\ c[pc - 1].op = "RegionExit")
    <3> SUFFICES ASSUME pc > 1, c[pc - 1].op = "RegionExit" PROVE FALSE
      OBVIOUS
    <3>1. pc - 1 \in 1 .. Len(c) /\ pc - 1 + 1 = pc
      BY <1>1
    <3>2. c[pc - 1 + 1].op = "Return"
      BY <1>2, <3>1 DEF ExitsOK
    <3> QED
      BY <3>1, <3>2
  <2>2. 1 .. pc = (1 .. pc - 1) \cup {pc}
    BY <1>1
  <2>3. (\A j \in 1 .. pc : c[j].op = "Phi") <=> (\A j \in 1 .. pc - 1 : c[j].op = "Phi")
    BY <1>5, <2>2
  <2>4. after = IF naked \/ (at = Entry /\ \A j \in 1 .. pc : c[j].op = "Phi") THEN 0 ELSE 1
    BY <1>1, <1>5 DEF RegionsAt
  <2>5. before = IF naked \/ (at = Entry /\ \A j \in 1 .. pc - 1 : c[j].op = "Phi") THEN 0 ELSE 1
    BY <2>1 DEF RegionsAt
  <2> QED
    BY <1>5, <2>3, <2>4, <2>5
<1>6. CASE c[pc].op \notin {"RegionEnter", "RegionExit", "Phi"}
  <2>1. CASE naked
    BY <1>6, <2>1 DEF RegionsAt
  <2>2. CASE ~naked
    <3>1. before = 1
      BY <1>6, <2>2, InsideRegion
    <3>2. after = 1
      BY <1>1, <1>6, <2>2 DEF RegionsAt
    <3> QED
      BY <1>6, <3>1, <3>2
  <2> QED
    BY <2>1, <2>2
<1> QED
  BY <1>3, <1>4, <1>5, <1>6

\* Where a branch leads: to a block, inside the region.
LEMMA Lands ==
    ASSUME NEW b, NEW naked \in BOOLEAN, BuiltOK(b, naked),
           NEW at \in DOMAIN b.code, NEW pc \in 1 .. Len(b.code[at]),
           b.code[at][pc].op \in {"Branch", "CondBranch"},
           NEW n \in 1 .. Len(b.code[at][pc].to)
    PROVE  LET l == b.code[at][pc].to[n]
           IN  /\ l \in DOMAIN b.code
               /\ 1 \in 1 .. Len(b.code[l])
               /\ RegionsAt(b.code, l, 1, naked) = RegionsAt(b.code, at, pc, naked)
<1> DEFINE c == b.code[at]
           i == c[pc]
           l == i.to[n]
<1>1. BlockOK(c, at, naked) /\ Targets(c) \subseteq DOMAIN b.code
  BY DEF BuiltOK
<1>2. IsInst(i) /\ IsSeq(c)
  BY <1>1 DEF BlockOK
<1>3. i.to \in Seq(Inner)
  BY <1>2 DEF IsInst
<1>4. l \in Inner /\ l \in ToSet(i.to)
  BY <1>3, SeqIsSeq, SeqFacts
<1>5. l \in Targets(c)
  BY <1>2, <1>4, SeqFacts DEF Targets
<1>6. l \in DOMAIN b.code
  BY <1>1, <1>5
<1> HIDE DEF l
<1>7. Ends(b.code[l]) /\ IsSeq(b.code[l])
  BY <1>6 DEF BuiltOK, BlockOK
<1>8. 1 \in 1 .. Len(b.code[l])
  BY <1>7, SeqFacts DEF Ends
<1>9. l # Entry
  BY <1>4 DEF Inner, Entry, LabelKinds
<1>10. RegionsAt(b.code, l, 1, naked) = IF naked THEN 0 ELSE 1
  BY <1>9 DEF RegionsAt
<1>11. RegionsAt(b.code, at, pc, naked) = IF naked THEN 0 ELSE 1
  <2>1. CASE naked
    BY <2>1 DEF RegionsAt
  <2>2. CASE ~naked
    BY <1>1, <2>2, InsideRegion
  <2> QED
    BY <2>1, <2>2
<1> QED
  BY <1>6, <1>8, <1>10, <1>11 DEF l

MachineFields == {"status", "at", "pc", "env", "regions", "trace", "result"}

\* m after an instruction that is not a jump: the next one, with d more regions.
Advances(m, n, d) ==
    /\ DOMAIN n = MachineFields
    /\ n.status = m.status /\ n.at = m.at /\ n.pc = m.pc + 1 /\ n.regions = m.regions + d

\* The instructions that do not jump advance the machine by one and change the region
\* count by at most one.
LEMMA ProceedAdvances ==
    ASSUME DOMAIN machine = MachineFields, machine.regions \in {0, 1}
    PROVE  /\ Advances(machine, Proceed, 0)
           /\ \A x, v : Advances(machine, Set(Proceed, x, v), 0)
           /\ \A x, v, t : Advances(machine, [Set(Proceed, x, v) EXCEPT !.trace = t], 0)
           /\ \A d \in {-1, 0, 1} : Advances(machine, [Proceed EXCEPT !.regions = @ + d], d)
<1> DEFINE p == Proceed
<1>1. /\ DOMAIN p = MachineFields /\ p.status = machine.status /\ p.at = machine.at
      /\ p.pc = machine.pc + 1 /\ p.regions = machine.regions
  BY DEF Proceed, MachineFields
<1>2. Advances(machine, p, 0)
  BY <1>1 DEF Advances
<1> HIDE DEF p
<1>3. ASSUME NEW x, NEW v PROVE Advances(machine, Set(p, x, v), 0)
  BY <1>1, <1>2 DEF Advances, Set, MachineFields
<1>4. ASSUME NEW x, NEW v, NEW t PROVE Advances(machine, [Set(p, x, v) EXCEPT !.trace = t], 0)
  <2> DEFINE q == Set(p, x, v)
  <2>1. Advances(machine, q, 0)
    BY <1>3
  <2> HIDE DEF q
  <2>2. Advances(machine, [q EXCEPT !.trace = t], 0)
    BY <2>1 DEF Advances, MachineFields
  <2> QED
    BY <2>2 DEF q
<1>5. ASSUME NEW d \in {-1, 0, 1} PROVE Advances(machine, [p EXCEPT !.regions = @ + d], d)
  BY <1>1 DEF Advances, MachineFields
<1> QED
  BY <1>2, <1>3, <1>4, <1>5 DEF p

\* A machine that advances inside its block stays inside the code, with the region count
\* its position demands.
LEMMA AdvanceStep ==
    ASSUME NEW b, NEW naked \in BOOLEAN, BuiltOK(b, naked), NEW m, NEW n, NEW d,
           MachineOK(m, b.code, naked), m.status = "run",
           b.code[m.at][m.pc].op \notin Jumps, Advances(m, n, d),
           d = (IF b.code[m.at][m.pc].op = "RegionEnter" THEN 1
                ELSE IF b.code[m.at][m.pc].op = "RegionExit" THEN -1 ELSE 0)
    PROVE  MachineOK(n, b.code, naked)
<1> DEFINE c == b.code[m.at]
<1>1. /\ m.at \in DOMAIN b.code /\ m.pc \in 1 .. Len(c)
      /\ m.regions \in {0, 1} /\ m.regions = RegionsAt(b.code, m.at, m.pc, naked)
  BY DEF MachineOK
<1>2. BlockOK(c, m.at, naked) /\ Ends(c) /\ IsSeq(c)
  BY <1>1 DEF BuiltOK, BlockOK
<1>3. m.pc + 1 \in 1 .. Len(c)
  BY <1>1, <1>2, NotTheLast
<1>4. c[m.pc].op # "Return"
  BY DEF Jumps
<1>5. n.regions = RegionsAt(b.code, m.at, m.pc + 1, naked)
  BY <1>1, <1>2, <1>4, RegionsNext DEF Advances
<1>6. n.regions \in {0, 1}
  BY <1>5 DEF RegionsAt
<1> QED
  BY <1>1, <1>3, <1>5, <1>6 DEF MachineOK, Advances, MachineFields

\* An instruction leads to another one, or the function returns.
LEMMA MachineStep ==
    ASSUME NEW naked \in BOOLEAN, BuiltOK(Func, naked), MachineOK(machine, Func.code, naked),
           machine.status = "run"
    PROVE  MachineOK(MachineNext, Func.code, naked)
<1> DEFINE code == Func.code
           c == code[machine.at]
           i == c[machine.pc]
           op == Current.op
<1>1. /\ DOMAIN machine = MachineFields
      /\ machine.at \in DOMAIN code /\ machine.pc \in 1 .. Len(c)
      /\ machine.regions \in {0, 1}
      /\ machine.regions = RegionsAt(code, machine.at, machine.pc, naked)
  BY DEF MachineOK, MachineFields
<1>2. BlockOK(c, machine.at, naked) /\ Len(c) \in Nat
  BY <1>1, SeqFacts DEF BuiltOK, BlockOK
<1>3. Current = i /\ IsInst(i)
  BY <1>1, <1>2 DEF Current, BlockOK
<1>14. (op = "Branch" => Len(i.to) = 1) /\ (op = "CondBranch" => Len(i.to) = 2)
  <2>1. (i.op = "Branch" => Len(i.to) = 1) /\ (i.op = "CondBranch" => Len(i.to) = 2)
    BY <1>3 DEF IsInst
  <2> QED
    BY <1>3, <2>1
<1>4. ~(machine.pc > Len(c))
  BY <1>1, <1>2
<1>5. MachineOK(Fails("garbage"), code, naked)
  BY <1>1, SMTT(40) DEF MachineOK, Fails, MachineFields
<1>6. ASSUME NEW n, NEW d, op \notin Jumps, Advances(machine, n, d),
             d = (IF op = "RegionEnter" THEN 1 ELSE IF op = "RegionExit" THEN -1 ELSE 0)
      PROVE  MachineOK(n, code, naked)
  BY <1>3, <1>6, AdvanceStep
<1>7. ASSUME NEW k \in 1 .. Len(i.to), op \in {"Branch", "CondBranch"}
      PROVE  MachineOK(Goto(Current.to[k]), code, naked)
  <2> DEFINE l == i.to[k]
  <2>1. /\ l \in DOMAIN code /\ 1 \in 1 .. Len(code[l])
        /\ RegionsAt(code, l, 1, naked) = machine.regions
    BY <1>1, <1>3, <1>7, Lands
  <2>2. Current.to[k] = l
    BY <1>3
  <2> HIDE DEF l
  <2>3. Goto(l) = [machine EXCEPT !.at = l, !.pc = 1]
    BY <2>1 DEF Goto
  <2>4. MachineOK([machine EXCEPT !.at = l, !.pc = 1], code, naked)
    BY <1>1, <2>1 DEF MachineOK, MachineFields
  <2> QED
    BY <2>2, <2>3, <2>4
<1>8. ASSUME NEW v, op = "Return"
      PROVE  MachineOK([machine EXCEPT !.status = "done", !.result = v], code, naked)
  <2>1. machine.regions = 0
    BY <1>1, <1>2, <1>3, <1>8 DEF BlockOK, ExitsOK, RegionsAt
  <2> QED
    BY <1>1, <2>1, SMTT(40) DEF MachineOK, MachineFields
<1> HIDE DEF op
<1>9. op = Current.op
  BY DEF op
<1>10. CASE Unset # {}
  BY <1>4, <1>5, <1>10 DEF MachineNext
<1>11. CASE Unset = {} /\ op \in Silent
  <2> DEFINE d == CASE op = "RegionEnter" -> 1 [] op = "RegionExit" -> -1 [] OTHER -> 0
  <2>1. d = IF op = "RegionEnter" THEN 1 ELSE IF op = "RegionExit" THEN -1 ELSE 0
    BY <1>11 DEF Silent
  <2>2. d \in {-1, 0, 1}
    BY <2>1
  <2>3. MachineNext = [Proceed EXCEPT !.regions = @ + d]
    BY <1>4, <1>9, <1>11 DEF MachineNext, Silent, Arithmetic
  <2> HIDE DEF d
  <2>4. Advances(machine, MachineNext, d)
    BY <1>1, <2>2, <2>3, ProceedAdvances
  <2>5. op \notin Jumps
    BY <1>11 DEF Silent, Jumps
  <2> QED
    BY <1>6, <2>1, <2>4, <2>5
<1>12. CASE Unset = {} /\ op \in Jumps
  <2>1. CASE op = "Branch"
    <3>1. MachineNext = Goto(Current.to[1])
      BY <1>4, <1>9, <1>12, <2>1 DEF MachineNext, Silent, Arithmetic
    <3>2. 1 \in 1 .. Len(i.to)
      BY <1>14, <2>1, SMTT(40)
    <3> QED
      BY <1>7, <2>1, <3>1, <3>2
  <2>2. CASE op = "CondBranch"
    <3> DEFINE k == IF Operands[1] # 0 THEN 1 ELSE 2
    <3>1. MachineNext = Goto(Current.to[k])
      BY <1>4, <1>9, <1>12, <2>2 DEF MachineNext, Silent, Arithmetic
    <3>3. k = 1 \/ k = 2
      OBVIOUS
    <3> HIDE DEF k
    <3>5. Len(i.to) = 2
      BY <1>14, <2>2
    <3>6. 1 \in 1 .. 2 /\ 2 \in 1 .. 2
      OBVIOUS
    <3>4. 1 \in 1 .. Len(i.to) /\ 2 \in 1 .. Len(i.to)
      BY ONLY <3>5, <3>6
    <3>2. k \in 1 .. Len(i.to)
      BY <3>3, <3>4
    <3> QED
      BY <1>7, <2>2, <3>1, <3>2
  <2>3. CASE op = "Return"
    <3>1. MachineNext = [machine EXCEPT !.status = "done", !.result = Operands[1]]
      BY <1>4, <1>9, <1>12, <2>3 DEF MachineNext, Silent, Arithmetic
    <3> QED
      BY <1>8, <2>3, <3>1
  <2> QED
    BY <1>12, <2>1, <2>2, <2>3 DEF Jumps
<1>13. CASE Unset = {} /\ op \notin Silent /\ op \notin Jumps
  <2>1. Advances(machine, MachineNext, 0)
    <3>1. CASE op = "Copy"
      <4>1. MachineNext = Set(Proceed, Current.result, Operands[1])
        BY <1>4, <1>9, <1>13, <3>1 DEF MachineNext, Silent, Arithmetic
      <4> QED
        BY <1>1, <4>1, ProceedAdvances
    <3>2. CASE op \in Arithmetic
      <4>1. MachineNext = Set(Proceed, Current.result, Compute(op, Operands[1], Operands[2]))
        BY <1>4, <1>9, <1>13, <3>2 DEF MachineNext, Arithmetic
      <4> QED
        BY <1>1, <4>1, ProceedAdvances
    <3>3. CASE op # "Copy" /\ op \notin Arithmetic
      <4> DEFINE q == Set(Proceed, Current.result, Answer(machine.trace))
                 t == Append(q.trace, Event(op, Current.sym, Operands))
      <4>1. MachineNext = [q EXCEPT !.trace = t]
        BY <1>4, <1>9, <1>13, <3>3 DEF MachineNext, Jumps
      <4> HIDE DEF t
      <4> QED
        BY <1>1, <4>1, ProceedAdvances
    <3> QED
      BY <3>1, <3>2, <3>3
  <2>2. op \notin {"RegionEnter", "RegionExit"}
    BY <1>13 DEF Silent
  <2> QED
    BY <1>6, <1>13, <2>1, <2>2
<1> QED
  BY <1>10, <1>11, <1>12, <1>13

(***************************************************************************)
(* The execution of the source.                                            *)
(***************************************************************************)

\* A sequence of things that can be done.
TodosOK(s) == IsSeq(s) /\ \A e \in ToSet(s) : TodoOK(e)

\* Tuples of tasks of the source semantics are sequences of tasks.
LEMMA TodoTuples ==
    /\ TodosOK(<<>>)
    /\ \A a : TodoOK(a) => TodosOK(<<a>>)
    /\ \A a, b : TodoOK(a) /\ TodoOK(b) => TodosOK(<<a, b>>)
    /\ \A a, b, c : TodoOK(a) /\ TodoOK(b) /\ TodoOK(c) => TodosOK(<<a, b, c>>)
<1>1. TodosOK(<<>>)
  BY TupleSeqs DEF TodosOK
<1>2. ASSUME NEW a, TodoOK(a) PROVE TodosOK(<<a>>)
  BY <1>2, TupleSeqs DEF TodosOK
<1>3. ASSUME NEW a, NEW b, TodoOK(a), TodoOK(b) PROVE TodosOK(<<a, b>>)
  BY <1>3, TupleSeqs DEF TodosOK
<1>4. ASSUME NEW a, NEW b, NEW c, TodoOK(a), TodoOK(b), TodoOK(c) PROVE TodosOK(<<a, b, c>>)
  BY <1>4, TupleSeqs DEF TodosOK
<1> QED
  BY <1>1, <1>2, <1>3, <1>4

\* So are sequences of source trees.
LEMMA TodoTrees ==
    ASSUME NEW s \in Seq(Trees)
    PROVE  TodosOK(s)
BY SeqIsSeq DEF TodosOK, TodoOK

\* Tasks may be appended one at a time.
LEMMA TodoAppend ==
    ASSUME NEW s, TodosOK(s), NEW e, TodoOK(e)
    PROVE  TodosOK(Append(s, e))
<1>1. IsSeq(s) /\ \A d \in ToSet(s) : TodoOK(d)
  BY DEF TodosOK
<1>2. IsSeq(Append(s, e)) /\ ToSet(Append(s, e)) = ToSet(s) \cup {e}
  BY <1>1, Appended
<1> QED
  BY <1>1, <1>2 DEF TodosOK

\* Sequences of tasks are closed under concatenation.
LEMMA TodoJoined ==
    ASSUME NEW s, NEW t, TodosOK(s), TodosOK(t)
    PROVE  TodosOK(s \o t)
<1>1. IsSeq(s) /\ IsSeq(t)
  BY DEF TodosOK
<1>2. IsSeq(s \o t) /\ ToSet(s \o t) = ToSet(s) \cup ToSet(t)
  BY <1>1, Joined
<1> QED
  BY <1>2 DEF TodosOK

\* What is done with operands.
LEMMA TodoNodes ==
    ASSUME NEW e, e.node \in {"Combine", "AsTruth", "Happen", "SetVar", "Drop", "GiveBack",
                              "IntLit", "Var"}
    PROVE  TodoOK(e)
BY DEF TodoOK, IsLeaf

\* The auxiliary tasks of the source semantics are tasks.
LEMMA TodoOperators ==
    /\ \A op : TodoOK(Combine(op))
    /\ \A op, s, n, a : TodoOK(Happen(op, s, n, a))
    /\ \A op : \A r \in Trees : TodoOK(Shortcut(op, r))
    /\ \A x : TodoOK([node |-> "SetVar", name |-> x])
    /\ \A x : TodoOK(Var(x))
    /\ \A n : TodoOK(IntLit(n))
    /\ TodoOK(Drop) /\ TodoOK(AsTruth) /\ TodoOK([node |-> "GiveBack"])
<1>1. ASSUME NEW op, NEW r \in Trees PROVE TodoOK(Shortcut(op, r))
  <2>1. Shortcut(op, r).node = "Shortcut" /\ Shortcut(op, r).right = r
    BY DEF Shortcut
  <2> HIDE DEF Shortcut
  <2> QED
    BY <2>1 DEF TodoOK
<1>2. \A op : TodoOK(Combine(op))
  BY TodoNodes DEF Combine
<1>3. \A op, s, n, a : TodoOK(Happen(op, s, n, a))
  BY TodoNodes DEF Happen
<1>4. \A x : TodoOK([node |-> "SetVar", name |-> x])
  BY TodoNodes
<1>5. \A x : TodoOK(Var(x))
  BY TodoNodes DEF Var
<1>6. \A n : TodoOK(IntLit(n))
  BY TodoNodes DEF IntLit
<1>7. TodoOK(Drop) /\ TodoOK(AsTruth) /\ TodoOK([node |-> "GiveBack"])
  BY TodoNodes DEF Drop, AsTruth
<1> QED
  BY <1>1, <1>2, <1>3, <1>4, <1>5, <1>6, <1>7

\* A while loop of the program is a loop.
LEMMA WhileIsLoop ==
    ASSUME NEW e \in Trees, e.node = "While"
    PROVE  IsLoop(e)
<1>1. e.cond \in Trees /\ e.body \in Seq(Trees) /\ e.step = <<>>
  BY TreeNodes
<1> QED
  BY <1>1, TupleSeqs DEF IsLoop

\* So is a for loop whose range has been evaluated.
LEMMA ForIsLoop ==
    ASSUME NEW e \in Trees, e.node = "For", NEW hi
    PROVE  IsLoop(ForAsWhile(e, hi))
<1> DEFINE op == IF e.inclusive THEN "<=" ELSE "<"
           test == Binary(op, Var(e.var), IntLit(hi))
           inc == VarAssign(e.var, "+=", IntLit(1))
           loop == ForAsWhile(e, hi)
<1>1. e.body \in Seq(Trees)
  BY TreeNodes
<1>2. IsTest(test)
  BY DEF IsTest, Binary, Var, IntLit, IsLeaf
<1>3. ExprStmt(inc).node = "ExprStmt" /\ ExprStmt(inc).expr = inc /\ IsStep(inc)
  BY DEF ExprStmt, IsStep, VarAssign, IntLit, IsLeaf
<1> HIDE DEF inc
<1>4. loop.node = "While" /\ loop.cond = test /\ loop.body = e.body /\ loop.step = <<ExprStmt(inc)>>
  BY DEF ForAsWhile, While, inc
<1> HIDE DEF loop, test
<1>5. IsSeq(loop.step) /\ ToSet(loop.step) = {ExprStmt(inc)}
  BY <1>4, TupleSeqs
<1> QED
  BY <1>1, <1>2, <1>3, <1>4, <1>5 DEF IsLoop, loop

\* What a node is done by can be done.
LEMMA PartsCanBeDone ==
    ASSUME NEW e, TodoOK(e), e.node \in Composite
    PROVE  TodosOK(Parts(e))
<1>1. CASE e.node = "Binary"
  <2>1. e \in Trees \/ IsTest(e)
    BY <1>1 DEF TodoOK, IsLeaf, IsStep, IsLoop, IsAgain
  <2>2. TodoOK(e.left) /\ TodoOK(e.right)
    BY <1>1, <2>1, TreeNodes DEF TodoOK, IsTest
  <2>3. CASE e.op \in {"&&", "||"}
    <3>1. e \in Trees
      BY <2>1, <2>3 DEF IsTest
    <3>2. TodoOK(Shortcut(e.op, e.right))
      BY <1>1, <3>1, TreeNodes, TodoOperators
    <3>3. Parts(e) = <<e.left, Shortcut(e.op, e.right)>>
      BY <1>1, <2>3 DEF Parts
    <3> QED
      BY <2>2, <3>2, <3>3, TodoTuples
  <2>4. CASE e.op \notin {"&&", "||"}
    <3>1. Parts(e) = <<e.left, e.right, Combine(BinaryOp(e.op))>>
      BY <1>1, <2>4 DEF Parts
    <3> QED
      BY <2>2, <3>1, TodoTuples, TodoOperators
  <2> QED
    BY <2>3, <2>4
<1>2. CASE e.node \in {"FuncCall", "GoStmt", "Access", "Effect"}
  <2>1. e \in Trees
    BY <1>2 DEF TodoOK, IsLeaf, IsStep, IsLoop, IsAgain, IsTest
  <2>2. TodosOK(e.args)
    BY <1>2, <2>1, TreeNodes, TodoTrees
  <2>3. PICK op, s, a : Parts(e) = Append(e.args, Happen(op, s, Len(e.args), a))
    <3>1. CASE e.node = "FuncCall"
      BY <3>1 DEF Parts
    <3>2. CASE e.node = "Access"
      BY <3>2 DEF Parts
    <3>3. CASE e.node = "Effect"
      BY <3>3 DEF Parts
    <3>4. CASE e.node = "GoStmt"
      BY <3>4 DEF Parts
    <3> QED
      BY <1>2, <3>1, <3>2, <3>3, <3>4
  <2>4. TodoOK(Happen(op, s, Len(e.args), a))
    BY TodoOperators
  <2> QED
    BY <2>2, <2>3, <2>4, TodoAppend
<1>3. CASE e.node = "Cast"
  <2>1. e \in Trees
    BY <1>3 DEF TodoOK, IsLeaf, IsStep, IsLoop, IsAgain, IsTest
  <2>2. TodoOK(e.expr)
    BY <1>3, <2>1, TreeNodes DEF TodoOK
  <2>3. Parts(e) = <<e.expr>>
    BY <1>3 DEF Parts
  <2> QED
    BY <2>2, <2>3, TodoTuples
<1>4. CASE e.node = "ArrayAlloc"
  <2>1. Parts(e) = <<IntLit(e.size), Happen("ArrayAlloc", "", 1, TRUE), [node |-> "SetVar", name |-> e.name]>>
    BY <1>4 DEF Parts
  <2> QED
    BY <2>1, TodoTuples, TodoOperators
<1>5. CASE e.node = "Print"
  <2>1. e \in Trees
    BY <1>5 DEF TodoOK, IsLeaf, IsStep, IsLoop, IsAgain, IsTest
  <2>2. TodoOK(e.expr)
    BY <1>5, <2>1, TreeNodes DEF TodoOK
  <2>3. Parts(e) = <<e.expr, Happen("Call", "print", 1, FALSE)>>
    BY <1>5 DEF Parts
  <2> QED
    BY <2>2, <2>3, TodoTuples, TodoOperators
<1>7. CASE e.node = "VarAssign"
  <2>1. e \in Trees \/ IsStep(e)
    BY <1>7 DEF TodoOK, IsLeaf, IsTest, IsLoop, IsAgain
  <2>2. TodoOK(e.value)
    BY <1>7, <2>1, TreeNodes DEF TodoOK, IsStep
  <2> DEFINE first == IF AssignOp(e.op) = "Copy" THEN <<e.value>>
                      ELSE <<Var(e.name), e.value, Combine(AssignOp(e.op))>>
             last == <<[node |-> "SetVar", name |-> e.name]>>
  <2>3. TodosOK(first)
    BY <2>2, TodoTuples, TodoOperators
  <2>4. TodosOK(last)
    BY TodoTuples, TodoOperators
  <2>5. Parts(e) = first \o last
    BY <1>7 DEF Parts
  <2> HIDE DEF first, last
  <2> QED
    BY <2>3, <2>4, <2>5, TodoJoined
<1>8. CASE e.node = "ExprStmt"
  <2>1. e.expr \in Trees \/ IsStep(e.expr)
    BY <1>8, TreeNodes DEF TodoOK, IsLeaf, IsTest, IsLoop, IsAgain, IsStep
  <2>2. TodoOK(e.expr)
    BY <2>1 DEF TodoOK
  <2>3. Parts(e) = <<e.expr, Drop>>
    BY <1>8 DEF Parts
  <2> QED
    BY <2>2, <2>3, TodoTuples, TodoOperators
<1>9. CASE e.node = "If"
  <2>1. e \in Trees
    BY <1>9 DEF TodoOK, IsLeaf, IsStep, IsLoop, IsAgain, IsTest
  <2>2. e.cond \in Trees /\ e.then \in Seq(Trees) /\ e.else \in Seq(Trees)
    BY <1>9, <2>1, TreeNodes
  <2> DEFINE d == [node |-> "Choose", then |-> e.then, else |-> e.else]
  <2>3. IsSeq(e.then) /\ IsSeq(e.else) /\ ToSet(e.then) \subseteq Trees /\ ToSet(e.else) \subseteq Trees
    BY <2>2, SeqIsSeq
  <2>4. TodoOK(d)
    BY <2>3 DEF TodoOK
  <2>5. TodoOK(e.cond)
    BY <2>2 DEF TodoOK
  <2>6. Parts(e) = <<e.cond, d>>
    BY <1>9 DEF Parts
  <2> QED
    BY <2>4, <2>5, <2>6, TodoTuples
<1>10. CASE e.node = "While"
  <2>1. IsLoop(e)
    BY <1>10, WhileIsLoop DEF TodoOK, IsLeaf, IsStep, IsAgain, IsTest
  <2>2. TodoOK(e.cond) /\ e.body \in Seq(Trees)
    BY <2>1 DEF IsLoop, TodoOK
  <2> DEFINE body == Append(e.body, Again(e))
             d == [node |-> "Choose", then |-> body, else |-> <<>>]
  <2>3. IsSeq(e.body) /\ ToSet(e.body) \subseteq Trees
    BY <2>2, SeqIsSeq
  <2>4. IsSeq(body) /\ ToSet(body) = ToSet(e.body) \cup {Again(e)}
    BY <2>3, Appended
  <2>5. IsAgain(Again(e))
    BY <2>1 DEF IsAgain, Again
  <2>6. Parts(e) = <<e.cond, d>>
    BY <1>10 DEF Parts
  <2>7. d.node = "Choose" /\ d.then = body /\ d.else = <<>>
    OBVIOUS
  <2> HIDE DEF body, d
  <2>8. \A x \in ToSet(d.then) \cup ToSet(d.else) : x \in Trees \/ IsAgain(x)
    BY <2>3, <2>4, <2>5, <2>7, TupleSeqs
  <2>9. TodoOK(d)
    BY <2>4, <2>7, <2>8, TupleSeqs DEF TodoOK
  <2> QED
    BY <2>2, <2>6, <2>9, TodoTuples
<1>11. CASE e.node = "Again"
  <2>1. IsLoop(e.loop)
    BY <1>11, TreeNodes DEF TodoOK, IsLeaf, IsStep, IsAgain, IsTest, IsLoop
  <2>2. TodoOK(e.loop)
    BY <2>1 DEF TodoOK
  <2>3. IsSeq(e.loop.step) /\ \A s \in ToSet(e.loop.step) : s.node = "ExprStmt" /\ IsStep(s.expr)
    BY <2>1 DEF IsLoop
  <2>4. TodosOK(e.loop.step)
    BY <2>3 DEF TodosOK, TodoOK
  <2>5. Parts(e) = Append(e.loop.step, e.loop)
    BY <1>11 DEF Parts
  <2> QED
    BY <2>2, <2>4, <2>5, TodoAppend
<1>12. CASE e.node = "For"
  <2>1. e \in Trees
    BY <1>12 DEF TodoOK, IsLeaf, IsStep, IsLoop, IsAgain, IsTest
  <2>2. TodoOK(e.start) /\ TodoOK(e.end)
    BY <1>12, <2>1, TreeNodes DEF TodoOK
  <2> DEFINE d == [node |-> "Iterate", for |-> e]
  <2>3. TodoOK(d)
    BY <1>12, <2>1 DEF TodoOK
  <2>4. Parts(e) = <<e.start, e.end, d>>
    BY <1>12 DEF Parts
  <2> QED
    BY <2>2, <2>3, <2>4, TodoTuples
<1>13. CASE e.node = "Return"
  <2>1. e \in Trees
    BY <1>13 DEF TodoOK, IsLeaf, IsStep, IsLoop, IsAgain, IsTest
  <2>2. TodoOK(e.expr)
    BY <1>13, <2>1, TreeNodes DEF TodoOK
  <2>3. Parts(e) = <<e.expr, [node |-> "GiveBack"]>>
    BY <1>13 DEF Parts
  <2> QED
    BY <2>2, <2>3, TodoTuples, TodoOperators
<1> QED
  BY <1>1, <1>2, <1>3, <1>4, <1>5, <1>7, <1>8, <1>9, <1>10, <1>11, <1>12, <1>13 DEF Composite

SourceFields == {"status", "todo", "env", "vals", "defers", "trace", "result"}

\* Values, variables, trace and result are of no account here.
LEMMA SourceChanges ==
    ASSUME NEW s, NEW t, SourceOK(s), DOMAIN t = SourceFields, t.status = s.status,
           TodosOK(t.todo), t.defers \in Seq(Trees)
    PROVE  SourceOK(t)
BY DEF SourceOK, TodosOK, SourceFields

\* Part of a sequence.
LEMMA TodoRest ==
    ASSUME NEW s, TodosOK(s), NEW n \in Nat \ {0}, n <= Len(s) + 1
    PROVE  TodosOK(SubSeq(s, n, Len(s)))
<1> DEFINE t == SubSeq(s, n, Len(s))
<1>1. IsSeq(s) /\ \A e \in ToSet(s) : TodoOK(e)
  BY DEF TodosOK
<1>2. Len(s) \in Nat /\ DOMAIN s = 1 .. Len(s) /\ \A i \in 1 .. Len(s) : s[i] \in ToSet(s)
  BY <1>1, SeqFacts
<1>3. \A i \in n .. Len(s) : s[i] \in ToSet(s)
  BY <1>2
<1>4. t \in Seq(ToSet(s))
  BY <1>1, <1>2, <1>3, SubSeqProperties DEF IsSeq
<1>5. IsSeq(t) /\ ToSet(t) \subseteq ToSet(s)
  BY <1>4, SeqIsSeq
<1> QED
  BY <1>1, <1>5 DEF TodosOK

\* The place of the first mark in a sequence, or 0.
LEMMA FirstAgain ==
    ASSUME NEW s, IsSeq(s)
    PROVE  SelectInSeq(s, LAMBDA d : d.node = "Again") \in 0 .. Len(s)
<1> DEFINE I == {i \in 1 .. Len(s) : s[i].node = "Again"}
<1>1. Len(s) \in Nat
  BY SeqFacts
<1>2. SelectInSeq(s, LAMBDA d : d.node = "Again") = IF I # {} THEN Min(I) ELSE 0
  BY DEF SelectInSeq
<1>3. I \in SUBSET Nat /\ I \subseteq 1 .. Len(s)
  BY <1>1
<1> HIDE DEF I
<1>4. CASE I # {}
  <2>1. \E m \in I : \A k \in I : m <= k
    BY <1>3, <1>4, LeastElement
  <2>2. Min(I) \in I
    BY <2>1 DEF Min
  <2> QED
    BY <1>1, <1>2, <1>3, <1>4, <2>2
<1>5. CASE I = {}
  BY <1>1, <1>2, <1>5
<1> QED
  BY <1>4, <1>5

\* Performing a task leaves the source semantics well formed.
LEMMA PerformStep ==
    ASSUME NEW s, SourceOK(s), NEW e, TodoOK(e)
    PROVE  SourceOK(Perform(s, e))
<1> DEFINE n == Len(s.vals)
           Less(k) == [s EXCEPT !.vals = SubSeq(@, 1, n - k)]
           Yield(k, v) == [s EXCEPT !.vals = Append(SubSeq(@, 1, n - k), v)]
           atEnd == SelectInSeq(s.todo, LAMBDA d : d.node = "Again")
           p == Perform(s, e)
<1>1. DOMAIN s = SourceFields /\ s.defers \in Seq(Trees) /\ TodosOK(s.todo)
  BY DEF SourceOK, SourceFields, TodosOK
<1>2. /\ \A v : SourceOK([s EXCEPT !.vals = v])
      /\ \A x : SourceOK([s EXCEPT !.env = x])
      /\ \A t : TodosOK(t) => SourceOK([s EXCEPT !.todo = t])
      /\ \A c \in Trees : SourceOK([s EXCEPT !.defers = Append(@, c)])
  <2>1. ASSUME NEW v PROVE SourceOK([s EXCEPT !.vals = v])
    BY <1>1, SourceChanges DEF SourceFields
  <2>6. ASSUME NEW x PROVE SourceOK([s EXCEPT !.env = x])
    BY <1>1, SourceChanges DEF SourceFields
  <2>7. ASSUME NEW t, TodosOK(t) PROVE SourceOK([s EXCEPT !.todo = t])
    BY <1>1, <2>7, SourceChanges DEF SourceFields
  <2>8. ASSUME NEW c \in Trees PROVE SourceOK([s EXCEPT !.defers = Append(@, c)])
    <3>1. Append(s.defers, c) \in Seq(Trees)
      BY <1>1, AppendProperties
    <3> QED
      BY <1>1, <3>1, SourceChanges DEF SourceFields
  <2> QED
    BY <2>1, <2>6, <2>7, <2>8
<1>15. ASSUME NEW q, DOMAIN q = SourceFields, q.status = s.status, q.defers = s.defers, TodosOK(q.todo)
       PROVE  SourceOK(q)
  BY <1>1, <1>15, SourceChanges
<1>3. atEnd \in 0 .. Len(s.todo) /\ Len(s.todo) \in Nat
  BY <1>1, FirstAgain, SeqFacts DEF TodosOK
<1>4. CASE e.node \in Composite
  <2>1. TodosOK(Parts(e) \o s.todo)
    BY <1>1, <1>4, PartsCanBeDone, TodoJoined
  <2>2. p = [s EXCEPT !.todo = Parts(e) \o s.todo]
    BY <1>4 DEF Perform, Composite
  <2> QED
    BY <1>2, <2>1, <2>2
<1>5. CASE e.node \in {"IntLit", "Var", "Combine", "AsTruth", "Drop"}
  <2>1. \E v : p = [s EXCEPT !.vals = v]
    <3>1. CASE e.node = "IntLit"
      BY <3>1 DEF Perform, Composite
    <3>2. CASE e.node = "Var"
      BY <3>2 DEF Perform, Composite
    <3>3. CASE e.node = "Combine"
      BY <3>3 DEF Perform, Composite
    <3>4. CASE e.node = "AsTruth"
      BY <3>4 DEF Perform, Composite
    <3>5. CASE e.node = "Drop"
      BY <3>5 DEF Perform, Composite
    <3> QED
      BY <1>5, <3>1, <3>2, <3>3, <3>4, <3>5
  <2> QED
    BY <1>2, <2>1
<1>6. CASE e.node = "Shortcut"
  <2>1. CASE (s.vals[n] = 0) = (e.op = "&&")
    <3>1. p = Yield(1, Truth(s.vals[n] # 0))
      BY <1>6, <2>1 DEF Perform, Composite
    <3> QED
      BY <1>2, <3>1
  <2>2. CASE ~((s.vals[n] = 0) = (e.op = "&&"))
    <3>1. p = [Less(1) EXCEPT !.todo = <<e.right, AsTruth>> \o s.todo]
      BY <1>1, <1>6, <2>2 DEF Perform, Composite, SourceFields
    <3>2. TodoOK(e.right)
      BY <1>6, TreeNodes DEF TodoOK, IsLeaf, IsStep, IsTest, IsLoop, IsAgain
    <3>3. TodosOK(<<e.right, AsTruth>> \o s.todo)
      BY <1>1, <3>2, TodoTuples, TodoOperators, TodoJoined
    <3>4. DOMAIN p = SourceFields /\ p.status = s.status /\ p.defers = s.defers /\ p.todo = <<e.right, AsTruth>> \o s.todo
      BY <1>1, <3>1 DEF SourceFields
    <3> HIDE DEF p
    <3>5. SourceOK(p)
      BY <1>15, <3>3, <3>4
    <3> QED
      BY <3>5 DEF p
  <2> QED
    BY <2>1, <2>2
<1>7. CASE e.node = "Happen"
  <2>1. PICK k, v, t : \/ p = [Yield(k, v) EXCEPT !.trace = t]
                       \/ p = [Less(k) EXCEPT !.trace = t]
    <3>1. CASE e.answers
      BY <1>7, <3>1 DEF Perform, Composite
    <3>2. CASE ~e.answers
      BY <1>7, <3>2 DEF Perform, Composite
    <3> QED
      BY <3>1, <3>2
  <2>2. DOMAIN p = SourceFields /\ p.status = s.status /\ p.defers = s.defers /\ p.todo = s.todo
    BY <1>1, <2>1 DEF SourceFields
  <2> HIDE DEF p
  <2>3. SourceOK(p)
    BY <1>1, <1>15, <2>2
  <2> QED
    BY <2>3 DEF p
<1>8. CASE e.node = "SetVar"
  <2>1. p = [s EXCEPT !.env = Put(s.env, e.name, s.vals[n])]
    BY <1>8 DEF Perform, Composite
  <2> QED
    BY <1>2, <2>1
<1>9. CASE e.node = "Choose"
  <2> DEFINE b == IF s.vals[n] # 0 THEN e.then ELSE e.else
  <2>1. /\ IsSeq(e.then) /\ IsSeq(e.else)
        /\ \A d \in ToSet(e.then) \cup ToSet(e.else) : d \in Trees \/ IsAgain(d)
    BY <1>9, TreeNodes DEF TodoOK, IsLeaf, IsStep, IsTest, IsLoop, IsAgain
  <2>2. \A d : d \in Trees \/ IsAgain(d) => TodoOK(d)
    BY DEF TodoOK
  <2>3. TodosOK(e.then) /\ TodosOK(e.else)
    BY <2>1, <2>2 DEF TodosOK
  <2>4. TodosOK(b \o s.todo)
    BY <1>1, <2>3, TodoJoined
  <2>5. p = [Less(1) EXCEPT !.todo = b \o s.todo]
    BY <1>1, <1>9 DEF Perform, Composite, SourceFields
  <2> HIDE DEF b
  <2>6. DOMAIN p = SourceFields /\ p.status = s.status /\ p.defers = s.defers /\ p.todo = b \o s.todo
    BY <1>1, <2>5 DEF SourceFields
  <2> HIDE DEF p
  <2>7. SourceOK(p)
    BY <1>15, <2>4, <2>6
  <2> QED
    BY <2>7 DEF p
<1>10. CASE e.node = "Iterate"
  <2> DEFINE loop == ForAsWhile(e.for, s.vals[n])
  <2>1. e.for \in Trees /\ e.for.node = "For"
    BY <1>10, TreeNodes DEF TodoOK, IsLeaf, IsStep, IsTest, IsLoop, IsAgain
  <2>2. TodoOK(loop)
    BY <2>1, ForIsLoop DEF TodoOK
  <2>3. p = [Less(2) EXCEPT !.env = Put(s.env, e.for.var, s.vals[n - 1]), !.todo = <<loop>> \o s.todo]
    BY <1>1, <1>10 DEF Perform, Composite, SourceFields
  <2> HIDE DEF loop
  <2>4. TodosOK(<<loop>> \o s.todo)
    BY <1>1, <2>2, TodoTuples, TodoJoined
  <2>5. DOMAIN p = SourceFields /\ p.status = s.status /\ p.defers = s.defers /\ p.todo = <<loop>> \o s.todo
    BY <1>1, <2>3 DEF SourceFields
  <2> HIDE DEF p
  <2>6. SourceOK(p)
    BY <1>15, <2>4, <2>5
  <2> QED
    BY <2>6 DEF p
<1>11. CASE e.node = "GiveBack"
  <2>1. p = [Less(1) EXCEPT !.result = s.vals[n], !.todo = <<>>]
    BY <1>11 DEF Perform, Composite
  <2>2. DOMAIN p = SourceFields /\ p.status = s.status /\ p.defers = s.defers /\ p.todo = <<>>
    BY <1>1, <2>1 DEF SourceFields
  <2> HIDE DEF p
  <2>3. SourceOK(p)
    BY <1>15, <2>2, TodoTuples
  <2> QED
    BY <2>3 DEF p
<1>12. CASE e.node = "Defer"
  <2>1. e.call \in Trees
    BY <1>12, TreeNodes DEF TodoOK, IsLeaf, IsStep, IsTest, IsLoop, IsAgain
  <2>2. p = [s EXCEPT !.defers = Append(@, e.call)]
    BY <1>12 DEF Perform, Composite
  <2> QED
    BY <1>2, <2>1, <2>2
<1>13. CASE e.node \in {"Break", "Continue"}
  <2> HIDE DEF atEnd
  <2>1. CASE atEnd = 0
    <3>1. p = s
      BY <1>13, <2>1 DEF Perform, Composite, atEnd
    <3> QED
      BY <3>1
  <2>2. CASE atEnd # 0 /\ e.node = "Break"
    <3>1. p = [s EXCEPT !.todo = SubSeq(s.todo, atEnd + 1, Len(s.todo))]
      BY <2>2 DEF Perform, Composite, atEnd
    <3>2. TodosOK(SubSeq(s.todo, atEnd + 1, Len(s.todo)))
      BY <1>1, <1>3, TodoRest
    <3> QED
      BY <1>2, <3>1, <3>2
  <2>3. CASE atEnd # 0 /\ e.node = "Continue"
    <3>1. p = [s EXCEPT !.todo = SubSeq(s.todo, atEnd, Len(s.todo))]
      BY <2>3 DEF Perform, Composite, atEnd
    <3>2. TodosOK(SubSeq(s.todo, atEnd, Len(s.todo)))
      BY <1>1, <1>3, <2>3, TodoRest
    <3> QED
      BY <1>2, <3>1, <3>2
  <2> QED
    BY <1>13, <2>1, <2>2, <2>3
<1>14. \/ e.node \in Composite
       \/ e.node \in {"IntLit", "Var", "Combine", "AsTruth", "Drop", "Shortcut", "Happen", "SetVar",
                      "Choose", "Iterate", "GiveBack", "Defer", "Break", "Continue"}
  BY TreeNodes DEF TodoOK, IsLeaf, IsStep, IsTest, IsLoop, IsAgain, Composite
<1> QED
  BY <1>4, <1>5, <1>6, <1>7, <1>8, <1>9, <1>10, <1>11, <1>12, <1>13, <1>14

\* So does every step of the source semantics.
LEMMA SourceStep ==
    ASSUME SourceOK(source)
    PROVE  SourceOK(SourceNext)
<1>1. /\ DOMAIN source = SourceFields /\ source.defers \in Seq(Trees) /\ IsSeq(source.todo)
      /\ \A e \in ToSet(source.todo) : TodoOK(e)
      /\ source.status \in {"run", "leave", "done"}
  BY DEF SourceOK, SourceFields
<1>2. CASE source.todo # <<>>
  <2> DEFINE s == [source EXCEPT !.todo = Tail(@)]
  <2>1. /\ Head(source.todo) \in ToSet(source.todo) /\ IsSeq(Tail(source.todo))
        /\ ToSet(Tail(source.todo)) \subseteq ToSet(source.todo)
    BY <1>1, <1>2, HeadAndTail
  <2>2. TodoOK(Head(source.todo)) /\ TodosOK(Tail(source.todo))
    BY <1>1, <2>1 DEF TodosOK
  <2>3. /\ DOMAIN s = SourceFields /\ s.status = source.status /\ s.defers = source.defers
        /\ s.todo = Tail(source.todo)
    BY <1>1 DEF SourceFields
  <2>4. SourceNext = Perform(s, Head(source.todo))
    BY <1>2 DEF SourceNext
  <2> HIDE DEF s
  <2>5. SourceOK(s)
    BY <1>1, <2>2, <2>3, SourceChanges
  <2> QED
    BY <2>2, <2>4, <2>5, PerformStep
<1>3. CASE source.todo = <<>> /\ source.status = "run"
  <2> DEFINE n == Len(source.defers)
             d == Reverse(source.defers)
             calls == [i \in DOMAIN d |-> ExprStmt(d[i])]
  <2>1. n \in Nat /\ \A i \in 1 .. n : source.defers[i] \in Trees
    BY <1>1, ElementOfSeq, LenProperties
  <2>2. d = [i \in 1 .. n |-> source.defers[(n - i) + 1]]
    BY DEF Reverse
  <2>3. \A i \in 1 .. n : (n - i) + 1 \in 1 .. n
    BY <2>1
  <2>4. DOMAIN d = 1 .. n /\ \A i \in 1 .. n : d[i] \in Trees
    BY <2>1, <2>2, <2>3
  <2>5. SourceNext = [source EXCEPT !.status = "leave", !.todo = calls]
    BY <1>3 DEF SourceNext
  <2> HIDE DEF d
  <2>6. calls = [i \in 1 .. n |-> ExprStmt(d[i])]
    BY <2>4
  <2>7. IsSeq(calls)
    <3>1. calls \in [1 .. n -> ToSet(calls)]
      BY <2>6 DEF ToSet
    <3> QED
      BY <2>1, <3>1, SeqDef DEF IsSeq
  <2>8. \A i \in 1 .. n : ExprStmt(d[i]).node = "ExprStmt" /\ ExprStmt(d[i]).expr \in Trees
    BY <2>4 DEF ExprStmt
  <2>9. \A x \in ToSet(calls) : \E i \in 1 .. n : x = ExprStmt(d[i])
    BY <2>6 DEF ToSet
  <2>10. \A x \in ToSet(calls) : TodoOK(x)
    BY <2>8, <2>9 DEF TodoOK
  <2> HIDE DEF calls
  <2> QED
    BY <1>1, <2>5, <2>7, <2>10 DEF SourceOK, SourceFields
<1>4. CASE source.todo = <<>> /\ source.status # "run"
  <2>1. SourceNext = [source EXCEPT !.status = "done"]
    BY <1>4 DEF SourceNext
  <2> QED
    BY <1>1, <2>1 DEF SourceOK, SourceFields
<1> QED
  BY <1>2, <1>3, <1>4

(***************************************************************************)
(* The invariant.                                                          *)
(***************************************************************************)

\* While a function runs nothing is being built.
LEMMA NothingPending ==
    ASSUME BuilderInv, pending = <<>>
    PROVE  /\ DOMAIN built = DOMAIN prog.funcs
           /\ \A k \in DOMAIN prog.funcs : BuiltOK(built[k], prog.funcs[k].naked)
           /\ \A k \in DOMAIN prog.funcs : /\ prog.funcs[k].naked \in BOOLEAN
                                           /\ prog.funcs[k].body \in Seq(Trees)
<1>1. ToSet(pending) = {}
  BY TupleSeqs
<1>2. DOMAIN built = DOMAIN prog.funcs /\ \A k \in DOMAIN built : BuiltOK(built[k], prog.funcs[k].naked)
  BY <1>1 DEF BuilderInv, Progress
<1>3. prog.funcs \in Seq([params : SUBSET STRING, naked : BOOLEAN, body : Seq(Trees)])
  BY ProgramsAssumption DEF BuilderInv, Progress
<1>4. \A k \in DOMAIN prog.funcs :
         prog.funcs[k] \in [params : SUBSET STRING, naked : BOOLEAN, body : Seq(Trees)]
  BY <1>3, LenProperties, ZenonT(60)
<1>5. ASSUME NEW k \in DOMAIN prog.funcs
      PROVE  prog.funcs[k].naked \in BOOLEAN /\ prog.funcs[k].body \in Seq(Trees)
  BY <1>4
<1> QED
  BY <1>2, <1>5

\* Starting a built function puts the machine at the first instruction of its entry
\* block.
LEMMA StartStep ==
    ASSUME BuilderInv, NEW k \in DOMAIN prog.funcs, NEW env, Start(k, env)
    PROVE  BuilderInv'
<1> DEFINE N == prog.funcs[k].naked
           code == built[k].code
<1>1. /\ pending = <<>> /\ running' = k /\ UNCHANGED buildVars
      /\ machine' = [status |-> "run", at |-> Entry, pc |-> 1, env |-> env,
                     regions |-> 0, trace |-> <<>>, result |-> 0]
      /\ source' = [status |-> "run", todo |-> prog.funcs[k].body, env |-> Over(env, prog.globals),
                    vals |-> <<>>, defers |-> <<>>, trace |-> <<>>, result |-> 0]
  BY DEF Start
<1>2. BuiltOK(built[k], N) /\ N \in BOOLEAN /\ prog.funcs[k].body \in Seq(Trees)
  BY <1>1, NothingPending
<1>3. Entry \in DOMAIN code /\ Ends(code[Entry]) /\ IsSeq(code[Entry])
  BY <1>2 DEF BuiltOK, BlockOK
<1>4. 1 \in 1 .. Len(code[Entry])
  BY <1>3, SeqFacts DEF Ends
<1>5. RegionsAt(code, Entry, 1, N) = 0
  BY DEF RegionsAt
<1>6. MachineOK(machine', code, N)
  BY <1>1, <1>3, <1>4, <1>5 DEF MachineOK
<1>7. <<>> \in Seq(Trees)
  BY EmptySeq
<1>8. TodosOK(prog.funcs[k].body)
  BY <1>2, TodoTrees
<1>9. SourceOK(source')
  BY <1>1, <1>7, <1>8 DEF SourceOK, TodosOK
<1>10. Running'
  BY <1>1, <1>6, <1>9 DEF Running, buildVars
<1>11. Progress' /\ Building'
  BY <1>1 DEF BuilderInv, Progress, Building, Naked, buildVars
<1> QED
  BY <1>10, <1>11 DEF BuilderInv

\* A step of the machine beside the source semantics keeps the invariant.
LEMMA RunStep ==
    ASSUME BuilderInv, Step
    PROVE  BuilderInv'
<1> DEFINE N == prog.funcs[running].naked
<1>1. /\ running # 0 /\ UNCHANGED <<buildVars, running>>
      /\ machine' = IF machine.status = "run" THEN MachineNext ELSE machine
      /\ source' = IF source.status # "done" THEN SourceNext ELSE source
  BY DEF Step
<1>2. /\ running \in DOMAIN prog.funcs /\ pending = <<>>
      /\ MachineOK(machine, Func.code, N) /\ SourceOK(source)
  BY <1>1 DEF BuilderInv, Running, Func
<1>3. BuiltOK(Func, N) /\ N \in BOOLEAN
  BY <1>2, NothingPending DEF Func
<1>4. MachineOK(machine', Func.code, N)
  BY <1>1, <1>2, <1>3, MachineStep
<1>5. SourceOK(source')
  BY <1>1, <1>2, SourceStep
<1>6. Running'
  BY <1>1, <1>2, <1>4, <1>5 DEF Running, buildVars, Func
<1>7. Progress' /\ Building'
  BY <1>1 DEF BuilderInv, Progress, Building, Owed, Naked, buildVars
<1> QED
  BY <1>6, <1>7 DEF BuilderInv

\* The order functions are built in: the entry point, then the others, each once.
LEMMA EachOnce ==
    ASSUME NEW n \in Nat, NEW e \in 1 .. n
    PROVE  LET p == <<e>> \o RemoveAt([i \in 1 .. n |-> i], e)
           IN  /\ p \in Seq(1 .. n) /\ ToSet(p) = 1 .. n
               /\ \A j, k \in 1 .. Len(p) : p[j] = p[k] => j = k
<1> DEFINE s == [i \in 1 .. n |-> i]
           a == SubSeq(s, 1, e - 1)
           b == SubSeq(s, e + 1, n)
           r == a \o b
           p == <<e>> \o r
<1>1. s \in Seq(1 .. n) /\ Len(s) = n /\ \A i \in 1 .. n : s[i] = i
  <2>1. s \in [1 .. n -> 1 .. n]
    OBVIOUS
  <2>2. s \in Seq(1 .. n)
    BY <2>1, SeqDef
  <2> QED
    BY <2>1, <2>2, LenProperties
<1>2. RemoveAt(s, e) = r
  BY <1>1 DEF RemoveAt
<1> HIDE DEF s
<1>3. /\ a \in Seq(1 .. n) /\ Len(a) = e - 1
      /\ \A i \in 1 .. e - 1 : a[i] = i
  <2>1. \A i \in 1 .. e - 1 : i \in 1 .. n /\ s[i] \in 1 .. n
    BY <1>1
  <2> QED
    BY <1>1, <2>1, SubSeqProperties
<1>4. /\ b \in Seq(1 .. n) /\ Len(b) = n - e
      /\ \A i \in 1 .. n - e : b[i] = e + i
  <2>1. \A i \in e + 1 .. n : i \in 1 .. n /\ s[i] \in 1 .. n
    BY <1>1
  <2> QED
    BY <1>1, <2>1, SubSeqProperties
<1> HIDE DEF a, b
<1>5. IsSeq(a) /\ IsSeq(b)
  BY <1>3, <1>4, SeqIsSeq
<1>6. /\ IsSeq(r) /\ Len(r) = n - 1
      /\ \A i \in 1 .. n - 1 : r[i] = IF i < e THEN i ELSE i + 1
  <2>1. /\ IsSeq(a \o b) /\ Len(a \o b) = Len(a) + Len(b)
        /\ \A i \in 1 .. Len(a) + Len(b) : (a \o b)[i] = IF i <= Len(a) THEN a[i] ELSE b[i - Len(a)]
    BY <1>5, Joined
  <2>2. Len(a) + Len(b) = n - 1
    BY <1>3, <1>4
  <2>3. ASSUME NEW i \in 1 .. n - 1 PROVE r[i] = IF i < e THEN i ELSE i + 1
    <3>1. CASE i < e
      <4>1. i \in 1 .. e - 1 /\ i <= Len(a) /\ i \in 1 .. Len(a) + Len(b)
        BY <1>3, <2>2, <3>1
      <4> QED
        BY <1>3, <2>1, <3>1, <4>1
    <3>2. CASE i >= e
      <4>1. i - Len(a) \in 1 .. n - e /\ ~(i <= Len(a)) /\ i \in 1 .. Len(a) + Len(b)
            /\ e + (i - Len(a)) = i + 1
        BY <1>3, <2>2, <3>2
      <4>2. r[i] = b[i - Len(a)]
        BY <2>1, <4>1
      <4>3. b[i - Len(a)] = e + (i - Len(a))
        BY <1>4, <4>1
      <4>4. r[i] = i + 1 /\ ~(i < e)
        BY <3>2, <4>1, <4>2, <4>3
      <4> QED
        BY <4>4
    <3>3. i < e \/ i >= e
      OBVIOUS
    <3> HIDE DEF r
    <3> QED
      BY ONLY <3>1, <3>2, <3>3
  <2> QED
    BY <2>1, <2>2, <2>3
<1> HIDE DEF r
<1>7. /\ IsSeq(p) /\ Len(p) = n /\ p[1] = e
      /\ \A i \in 1 .. n - 1 : p[i + 1] = r[i]
  <2>1. IsSeq(<<e>>) /\ Len(<<e>>) = 1 /\ <<e>>[1] = e
    BY TupleSeqs
  <2>2. /\ IsSeq(<<e>> \o r) /\ Len(<<e>> \o r) = Len(<<e>>) + Len(r)
        /\ \A i \in 1 .. Len(<<e>>) : (<<e>> \o r)[i] = <<e>>[i]
        /\ \A i \in 1 .. Len(r) : (<<e>> \o r)[Len(<<e>>) + i] = r[i]
    BY <1>6, <2>1, Joined
  <2>3. Len(p) = n
    BY <1>6, <2>1, <2>2
  <2>4. p[1] = e
    BY <2>1, <2>2
  <2>5. ASSUME NEW i \in 1 .. n - 1 PROVE p[i + 1] = r[i]
    <3>1. i \in 1 .. Len(r) /\ Len(<<e>>) + i = i + 1
      BY <1>6, <2>1
    <3> QED
      BY <2>2, <3>1
  <2> QED
    BY <2>2, <2>3, <2>4, <2>5
<1> HIDE DEF p
<1>8. \A j \in 1 .. n : p[j] = IF j = 1 THEN e ELSE IF j - 1 < e THEN j - 1 ELSE j
  <2> SUFFICES ASSUME NEW j \in 1 .. n, j # 1 PROVE p[j] = IF j - 1 < e THEN j - 1 ELSE j
    BY <1>7
  <2>1. j - 1 \in 1 .. n - 1 /\ j - 1 + 1 = j
    OBVIOUS
  <2>2. p[j] = r[j - 1]
    BY <1>7, <2>1
  <2> QED
    BY <1>6, <2>1, <2>2
<1>9. \A j \in 1 .. n : p[j] \in 1 .. n
  BY <1>8
<1>10. \A j, k \in 1 .. Len(p) : p[j] = p[k] => j = k
  BY <1>7, <1>8
<1>11. DOMAIN p = 1 .. n
  BY <1>7, SeqFacts
<1>12. ASSUME NEW x \in 1 .. n PROVE x \in ToSet(p)
  <2>1. CASE x = e
    BY <1>7, <1>11, <2>1 DEF ToSet
  <2>2. CASE x < e
    <3>1. x + 1 \in 1 .. n /\ p[x + 1] = x
      BY <1>8, <2>2
    <3> QED
      BY <1>11, <3>1 DEF ToSet
  <2>3. CASE x > e
    <3>1. p[x] = x
      BY <1>8, <2>3
    <3> QED
      BY <1>11, <3>1 DEF ToSet
  <2> QED
    BY <2>1, <2>2, <2>3
<1>13. ToSet(p) = 1 .. n
  BY <1>9, <1>11, <1>12 DEF ToSet
<1>14. p \in Seq(1 .. n)
  BY <1>7, <1>13, SeqOver
<1>15. p = <<e>> \o RemoveAt([i \in 1 .. n |-> i], e)
  BY <1>2 DEF p, r, s
<1> QED
  BY <1>10, <1>13, <1>14, <1>15

\* The invariant holds initially.
LEMMA InitOK ==
    ASSUME Init
    PROVE  BuilderInv
<1> DEFINE n == Len(prog.funcs)
<1>1. /\ prog \in Programs /\ work = <<>> /\ built = <<>>
      /\ running = 0 /\ machine = Idle /\ source = Idle
      /\ pending = <<prog.entry>> \o RemoveAt([i \in DOMAIN prog.funcs |-> i], prog.entry)
  BY DEF Init
<1>2. prog.entry \in DOMAIN prog.funcs /\ DOMAIN prog.funcs = 1 .. n /\ n \in Nat
  <2>1. prog.funcs \in Seq([params : SUBSET STRING, naked : BOOLEAN, body : Seq(Trees)])
        /\ prog.entry \in DOMAIN prog.funcs
    BY <1>1, ProgramsAssumption
  <2> QED
    BY <2>1, LenProperties
<1>3. /\ pending \in Seq(1 .. n) /\ ToSet(pending) = 1 .. n
      /\ \A j, k \in 1 .. Len(pending) : pending[j] = pending[k] => j = k
  <2> DEFINE e == prog.entry
  <2>1. pending = <<e>> \o RemoveAt([i \in 1 .. n |-> i], e)
    BY <1>1, <1>2
  <2>2. n \in Nat /\ e \in 1 .. n
    BY <1>2
  <2> HIDE DEF n, e
  <2> QED
    BY ONLY <2>1, <2>2, EachOnce
<1>4. DOMAIN built = {}
  BY <1>1
<1>5. Progress
  BY <1>1, <1>2, <1>3, <1>4 DEF Progress
<1> QED
  BY <1>1, <1>5 DEF BuilderInv, Building, Running

\* The builder keeps its promises: the blocks laid out so far, those still to be
\* opened according to the builder's stack, and the functions already built are in
\* order at every step, and so are the two executions.
THEOREM BuilderInvariant == Spec => []BuilderInv
<1>1. Init => BuilderInv
  BY InitOK
<1>2. BuilderInv /\ [Next]_vars => BuilderInv'
  <2> SUFFICES ASSUME BuilderInv, [Next]_vars PROVE BuilderInv'
    OBVIOUS
  <2>1. CASE Build
    BY <2>1, BuildSteps
  <2>2. CASE \E k \in DOMAIN prog.funcs : \E env \in Envs(k) : Start(k, env)
    BY <2>2, StartStep
  <2>3. CASE Step
    BY <2>3, RunStep
  <2>4. CASE UNCHANGED vars
    BY <2>4 DEF vars, buildVars, runVars, BuilderInv, Progress, Building, Owed, Running, Naked
  <2> QED
    BY <2>1, <2>2, <2>3, <2>4 DEF Next
<1> QED
  BY <1>1, <1>2, PTL DEF Spec

\* Control is never lost: whatever the nesting of conditionals, loops, returns and
\* deferred calls, no execution of the code runs off the end of a block or branches
\* to a label without one (SSABuilder.cpp, buildStatement and buildFunction).
THEOREM ControlIsNeverLost == Spec => []NeverStuck
<1>1. BuilderInv => NeverStuck
  <2> SUFFICES ASSUME BuilderInv PROVE NeverStuck
    OBVIOUS
  <2>1. Progress /\ Running
    BY DEF BuilderInv
  <2>2. \/ running = 0 /\ machine.status = "idle" /\ source.status = "idle"
        \/ /\ running \in DOMAIN prog.funcs
           /\ machine.status \in {"run", "done", "garbage"}
           /\ source.status \in {"run", "leave", "done"}
    BY <2>1 DEF Running, Idle, MachineOK, SourceOK
  <2>3. Len(prog.funcs) \in Nat /\ DOMAIN prog.funcs = 1 .. Len(prog.funcs)
    <3>1. prog.funcs \in Seq([params : SUBSET STRING, naked : BOOLEAN, body : Seq(Trees)])
      BY <2>1, ProgramsAssumption DEF Progress
    <3> QED
      BY <3>1, LenProperties
  <2>4. running \in 0 .. Len(prog.funcs)
    BY <2>2, <2>3
  <2>5. \A k \in DOMAIN built : /\ ToSet(built[k].order) = DOMAIN built[k].code
                                /\ IsInjective(built[k].order)
    BY <2>1 DEF Progress, BuiltOK, LayoutOK
  <2> QED
    BY <2>1, <2>2, <2>4, <2>5 DEF NeverStuck, TypeOK, Progress
<1> QED
  BY <1>1, BuilderInvariant, PTL

\* Whichever return a function leaves by, it has entered its region and left it
\* exactly once (the RegionEnter and RegionExit that buildFunction and the return
\* statement emit).
THEOREM RegionsAreBalanced == Spec => []RegionsBalanced
<1>1. BuilderInv => RegionsBalanced
  BY DEF BuilderInv, Running, RegionsBalanced, MachineOK
<1> QED
  BY <1>1, BuilderInvariant, PTL

\* Phi nodes suffice, whatever the program, for the variables that are only assigned with
\* =, += and -= or count a loop: where two instructions of the code that insertPhiNodes has
\* finished define such a variable and their definitions meet, there is a phi node for it.
\* Of variables that *= or /= changes nothing is claimed: emit does not record them.
THEOREM PhiNodesSuffice == Spec => []PhisSuffice
<1>1. BuilderInv => PhisSuffice
  BY DEF BuilderInv, Progress, BuiltOK, PhisSuffice
<1> QED
  BY <1>1, BuilderInvariant, PTL

=============================================================================
