---------------------- MODULE RegisterAllocator_proofs ----------------------
(***************************************************************************)
(* Proofs about the register allocators, for every function, every set of  *)
(* registers and every order the hash tables and sorts leave open.         *)
(***************************************************************************)
EXTENDS RegisterAllocator, InductionLemmas, FiniteSetTheorems, SequenceTheorems

(***************************************************************************)
(* The list of intervals.                                                  *)
(***************************************************************************)
IntervalSet == [var : Var, start : Nat, end : Nat, float : BOOLEAN]
Size == Len(intervals)
Slots == 1 .. Size
Start(i) == intervals[i].start
Stop(i) == intervals[i].end

\* The list is sorted by start points.
ListOK ==
    /\ intervals \in Seq(IntervalSet)
    /\ \A i \in Slots : Start(i) <= Stop(i)
    /\ \A i, j \in Slots : i < j => Start(i) <= Start(j)

(***************************************************************************)
(* Linear scan.                                                            *)
(***************************************************************************)
Classes == BOOLEAN
Float(i) == intervals[i].float
Class(fl) == IF fl THEN ToSet(availableFPRs) ELSE ToSet(availableGPRs)
Free(fl) == IF fl THEN freeFPRs ELSE freeGPRs
AllRegs == ToSet(availableGPRs) \cup ToSet(availableFPRs)
OfClass(S, fl) == {a \in S : Float(a) = fl}
Held(fl) == {reg[a] : a \in OfClass(active, fl)}

ScanTypes ==
    /\ n \in 0 .. Size
    /\ active \subseteq 1 .. n
    /\ freeGPRs \subseteq AllRegs /\ freeFPRs \subseteq AllRegs
    /\ reg \in [Slots -> AllRegs \cup {NoReg}]
    /\ slot \in [Slots -> Int]
    /\ currentSpillOffset \in Int
    /\ crossed \in BOOLEAN

\* An active interval holds a register.
ActiveHold == \A a \in active : reg[a] # NoReg

\* An interval that has kept its register and is not active is over.
Over ==
    \A i \in (1 .. n) \ active : reg[i] # NoReg => Stop(i) < Start(n)

\* The slots handed out lie above currentSpillOffset, and no two are the same.
SlotsApart ==
    /\ currentSpillOffset <= 0
    /\ \A i \in Slots : slot[i] # 0 => currentSpillOffset <= slot[i] /\ slot[i] < 0
    /\ \A i, j \in Slots : slot[i] # 0 /\ slot[i] = slot[j] => i = j

\* An interval that has been handled is in a register or in a slot.
ScanPlaced ==
    /\ \A i \in 1 .. n : reg[i] = NoReg <=> slot[i] # 0
    /\ \A i \in Slots : i > n => reg[i] = NoReg /\ slot[i] = 0

ScanBase ==
    /\ ScanTypes
    /\ ActiveHold
    /\ Over
    /\ SlotsApart
    /\ ScanPlaced

(***************************************************************************)
(* What holds of the registers of each class until spillAtInterval passes  *)
(* one from one class to the other.                                        *)
(***************************************************************************)
\* No two active intervals of a class hold the same register.
OneHolder ==
    \A a, b \in active : Float(a) = Float(b) /\ reg[a] = reg[b] => a = b

Conserved ==
    \A fl \in Classes :
        /\ Free(fl) \cup Held(fl) = Class(fl)
        /\ Free(fl) \cap Held(fl) = {}

\* Intervals of a class with the same register do not overlap.
Apart ==
    \A i, j \in 1 .. n :
        i # j /\ Float(i) = Float(j) /\ reg[i] # NoReg /\ reg[i] = reg[j]
            => Stop(i) < Start(j) \/ Stop(j) < Start(i)

ClassesApart == OneHolder /\ Conserved /\ Apart

ScanInv == ScanBase /\ (~crossed => ClassesApart)

\* The two classes and the registers of each.
LEMMA ClassFacts ==
    /\ NoReg \notin AllRegs
    /\ \A fl \in Classes : Class(fl) \subseteq AllRegs
    /\ (\A fl \in Classes : Free(fl) \subseteq AllRegs) <=>
           freeGPRs \subseteq AllRegs /\ freeFPRs \subseteq AllRegs
<1>1. NoReg \notin AllRegs
  BY RegsAssumption DEF AllRegs, ToSet
<1>2. \A fl \in Classes : Class(fl) \subseteq AllRegs
  BY DEF Class, AllRegs, Classes
<1>3. Free(TRUE) = freeFPRs /\ Free(FALSE) = freeGPRs
  BY DEF Free
<1>4. \A fl \in Classes : Free(fl) = freeFPRs \/ Free(fl) = freeGPRs
  BY DEF Free, Classes
<1>5. TRUE \in Classes /\ FALSE \in Classes
  BY DEF Classes
<1> QED
  BY <1>1, <1>2, <1>3, <1>4, <1>5

\* The registers that expiring intervals give back are those they hold.
LEMMA PoolIs ==
    ASSUME ScanBase
    PROVE  \A fl \in Classes :
             LinearScan!Pool(fl) = Free(fl) \cup {reg[a] : a \in OfClass(LinearScan!Expired, fl)}
<1> SUFFICES ASSUME NEW fl \in BOOLEAN
             PROVE  LinearScan!Pool(fl) = Free(fl) \cup {reg[a] : a \in OfClass(LinearScan!Expired, fl)}
  BY DEF Classes
<1>1. LinearScan!Freed(fl) = {reg[a] : a \in OfClass(LinearScan!Expired, fl)}
  BY DEF LinearScan!Freed, LinearScan!Expired, ScanBase, ActiveHold, OfClass, Float
<1>2. CASE fl = TRUE
  BY <1>1, <1>2 DEF LinearScan!Pool, Free
<1>3. CASE fl = FALSE
  BY <1>1, <1>3 DEF LinearScan!Pool, Free
<1> QED
  BY <1>2, <1>3

\* What the three ways of handling an interval have in common: the active
\* intervals that end before it are dropped and their registers are free.
LEMMA ScanFacts ==
    ASSUME ListOK, ScanBase, n < Size
    PROVE  LET cur == n + 1
               still == {a \in active : Stop(a) >= Start(cur)}
           IN  /\ cur \in Slots /\ cur \notin active /\ n \in Nat /\ Size \in Nat
               /\ 1 .. n \subseteq Slots /\ active \subseteq 1 .. n
               /\ 1 .. cur = (1 .. n) \cup {cur} /\ cur \notin 1 .. n
               /\ LinearScan!cur = cur /\ LinearScan!Still = still
               /\ \A i \in Slots : Float(i) \in Classes
               /\ \A fl \in Classes :
                     /\ LinearScan!Pool(fl) = Free(fl) \cup {reg[a] : a \in OfClass(active \ still, fl)}
                     /\ LinearScan!Pool(fl) \subseteq AllRegs
               /\ \A a \in still : reg[a] # NoReg /\ reg[a] \in AllRegs
               /\ \A i \in 1 .. n : i \notin still /\ reg[i] # NoReg => Stop(i) < Start(cur)
<1> DEFINE cur == n + 1
           still == {a \in active : Stop(a) >= Start(cur)}
           gone == active \ still
<1>1. /\ n \in Nat /\ Size \in Nat /\ cur \in Slots /\ cur \notin active
      /\ 1 .. n \subseteq Slots /\ active \subseteq 1 .. n
      /\ 1 .. cur = (1 .. n) \cup {cur} /\ cur \notin 1 .. n
  <2>1. n \in Nat /\ Size \in Nat /\ active \subseteq 1 .. n
    BY DEF ListOK, ScanBase, ScanTypes, Size
  <2> QED
    BY <2>1 DEF Slots
<1>2. \A i \in Slots : Start(i) \in Nat /\ Stop(i) \in Nat /\ Float(i) \in Classes
  <2>1. \A i \in Slots : intervals[i] \in IntervalSet
    BY DEF ListOK, Slots, Size
  <2> QED
    BY <2>1 DEF IntervalSet, Start, Stop, Float, Classes
<1>3. LinearScan!cur = cur
  BY DEF LinearScan!cur
<1>4. LinearScan!Expired = gone /\ LinearScan!Still = still
  <2>1. LinearScan!Expired = gone
    <3>1. \A a \in active : Stop(a) < Start(cur) <=> ~(Stop(a) >= Start(cur))
      BY <1>1, <1>2
    <3>2. LinearScan!Expired = {a \in active : Stop(a) < Start(cur)}
      BY <1>3 DEF LinearScan!Expired, LinearScan!End, Start, Stop
    <3> QED
      BY <3>1, <3>2
  <2> QED
    BY <2>1 DEF LinearScan!Still
<1>5. \A a \in active : reg[a] # NoReg /\ reg[a] \in AllRegs
  BY <1>1 DEF ScanBase, ScanTypes, ActiveHold
<1>6. ASSUME NEW fl \in Classes
      PROVE  /\ LinearScan!Pool(fl) = Free(fl) \cup {reg[a] : a \in OfClass(gone, fl)}
             /\ LinearScan!Pool(fl) \subseteq AllRegs
  <2>1. LinearScan!Pool(fl) = Free(fl) \cup {reg[a] : a \in OfClass(gone, fl)}
    BY <1>4, PoolIs
  <2>2. Free(fl) \subseteq AllRegs
    BY ClassFacts DEF ScanBase, ScanTypes
  <2>3. \A a \in OfClass(gone, fl) : reg[a] \in AllRegs
    BY <1>5 DEF OfClass
  <2> QED
    BY <2>1, <2>2, <2>3
<1>7. ASSUME NEW i \in 1 .. n, i \notin still, reg[i] # NoReg
      PROVE  Stop(i) < Start(cur)
  <2>1. CASE i \in active
    BY <1>1, <1>2, <1>7, <2>1
  <2>2. CASE i \notin active
    <3>1. Stop(i) < Start(n)
      BY <1>7, <2>2 DEF ScanBase, Over
    <3>2. n \in Slots /\ n < cur
      BY <1>1
    <3>3. Start(n) <= Start(cur)
      BY <1>1, <3>2 DEF ListOK
    <3> QED
      BY <1>1, <1>2, <3>1, <3>2, <3>3
  <2> QED
    BY <2>1, <2>2
<1> QED
  BY <1>1, <1>2, <1>3, <1>4, <1>5, <1>6, <1>7

\* The pool of a class and what the remaining intervals hold are all of it.
LEMMA PoolsAndHolders ==
    ASSUME ListOK, ScanBase, ClassesApart, n < Size, NEW fl \in Classes
    PROVE  LET still == {a \in active : Stop(a) >= Start(n + 1)}
           IN  /\ LinearScan!Pool(fl) \cup {reg[a] : a \in OfClass(still, fl)} = Class(fl)
               /\ \A a \in OfClass(still, fl) : reg[a] \notin LinearScan!Pool(fl)
<1> DEFINE still == {a \in active : Stop(a) >= Start(n + 1)}
           pool == LinearScan!Pool(fl)
           gone == active \ still
<1>1. pool = Free(fl) \cup {reg[a] : a \in OfClass(gone, fl)}
  BY ScanFacts
<1>2. Free(fl) \cup Held(fl) = Class(fl) /\ Free(fl) \cap Held(fl) = {}
  BY DEF ClassesApart, Conserved
<1>3. still \subseteq active /\ gone \subseteq active /\ active = still \cup gone /\ still \cap gone = {}
  OBVIOUS
<1>4. \A a, b \in active : Float(a) = Float(b) /\ reg[a] = reg[b] => a = b
  BY DEF ClassesApart, OneHolder
<1> HIDE DEF pool, gone, still
<1>5. Held(fl) = {reg[a] : a \in OfClass(still, fl)} \cup {reg[a] : a \in OfClass(gone, fl)}
  BY <1>3 DEF Held, OfClass
<1>6. pool \cup {reg[a] : a \in OfClass(still, fl)} = Class(fl)
  BY <1>1, <1>2, <1>5
<1>7. ASSUME NEW a \in OfClass(still, fl) PROVE reg[a] \notin pool
  <2>1. a \in still /\ a \in active /\ Float(a) = fl /\ reg[a] \in Held(fl)
    BY <1>3 DEF OfClass, Held
  <2>2. ASSUME NEW b \in OfClass(gone, fl) PROVE reg[b] # reg[a]
    <3>1. b \in gone /\ Float(b) = fl
      BY DEF OfClass
    <3> QED
      BY <1>3, <1>4, <2>1, <3>1
  <2> QED
    BY <1>1, <1>2, <2>1, <2>2
<1> QED
  BY <1>6, <1>7 DEF pool, still

\* The current interval gets the register r, and the intervals of V give theirs up.
Handover(still, V, r) ==
    /\ still = {a \in active : Stop(a) >= Start(n + 1)} /\ V \subseteq still
    /\ r \in AllRegs
    /\ reg' = [i \in Slots |-> IF i = n + 1 THEN r ELSE IF i \in V THEN NoReg ELSE reg[i]]
    /\ active' = (still \ V) \cup {n + 1}
    /\ \A fl \in Classes : Free(fl)' \subseteq AllRegs
    /\ slot' \in [Slots -> Int] /\ currentSpillOffset' \in Int /\ crossed' \in BOOLEAN

\* What the steps do to reg, and to the constant parts of the list.
LEMMA HandoverFacts ==
    ASSUME ListOK, ScanBase, n < Size, intervals' = intervals, n' = n + 1,
           NEW still, NEW V, NEW r, Handover(still, V, r)
    PROVE  /\ reg'[n + 1] = r /\ r # NoReg /\ \A i \in V : reg'[i] = NoReg
           /\ \A i \in Slots : i # n + 1 /\ i \notin V => reg'[i] = reg[i]
           /\ still \subseteq active /\ \A a \in still \ V : reg'[a] = reg[a] /\ a \in active
           /\ Size' = Size /\ Slots' = Slots
           /\ \A i : Start(i)' = Start(i) /\ Stop(i)' = Stop(i) /\ Float(i)' = Float(i)
<1>1. n + 1 \in Slots /\ n + 1 \notin active /\ active \subseteq Slots
  BY ScanFacts
<1>2. still \subseteq active /\ V \subseteq still /\ r \in AllRegs
      /\ reg' = [i \in Slots |-> IF i = n + 1 THEN r ELSE IF i \in V THEN NoReg ELSE reg[i]]
  BY DEF Handover
<1>3. Size' = Size /\ Slots' = Slots
      /\ \A i : Start(i)' = Start(i) /\ Stop(i)' = Stop(i) /\ Float(i)' = Float(i)
  BY DEF Size, Slots, Start, Stop, Float
<1>4. r # NoReg
  BY <1>2, ClassFacts
<1> QED
  BY <1>1, <1>2, <1>3, <1>4

LEMMA GiveRegister ==
    ASSUME ListOK, ScanBase, n < Size, intervals' = intervals, n' = n + 1,
           NEW still, NEW V, NEW r, Handover(still, V, r)
    PROVE  ScanTypes' /\ ActiveHold' /\ Over'
<1> DEFINE cur == n + 1
<1>1. /\ cur \in Slots /\ cur \notin active /\ n \in Nat /\ Size \in Nat
      /\ 1 .. n \subseteq Slots /\ active \subseteq 1 .. n
      /\ 1 .. cur = (1 .. n) \cup {cur} /\ cur \notin 1 .. n
  BY ScanFacts
<1>2. still = {a \in active : Stop(a) >= Start(cur)} /\ V \subseteq still /\ r \in AllRegs
      /\ active' = (still \ V) \cup {cur}
  BY DEF Handover
<1>3. \A i \in 1 .. n : i \notin still /\ reg[i] # NoReg => Stop(i) < Start(cur)
  BY <1>2, ScanFacts
<1>4. /\ reg'[cur] = r /\ r # NoReg /\ \A i \in V : reg'[i] = NoReg
      /\ \A i \in Slots : i # cur /\ i \notin V => reg'[i] = reg[i]
      /\ still \subseteq active /\ \A a \in still \ V : reg'[a] = reg[a] /\ a \in active
      /\ Size' = Size /\ Slots' = Slots
      /\ \A i : Start(i)' = Start(i) /\ Stop(i)' = Stop(i) /\ Float(i)' = Float(i)
  BY HandoverFacts
<1>5. ScanTypes'
  <2>1. reg' \in [Slots -> AllRegs \cup {NoReg}]
    BY <1>2 DEF ScanBase, ScanTypes, Handover
  <2>2. n' \in 0 .. Size /\ active' \subseteq 1 .. n'
    <3>1. n' \in 0 .. Size
      BY <1>1 DEF Slots
    <3>2. active' \subseteq 1 .. cur
      BY <1>1, <1>2, <1>4
    <3> QED
      BY <3>1, <3>2
  <2>3. freeGPRs' \subseteq AllRegs /\ freeFPRs' \subseteq AllRegs
    <3>1. Free(TRUE)' \subseteq AllRegs /\ Free(FALSE)' \subseteq AllRegs
      BY DEF Handover, Classes
    <3> QED
      BY <3>1 DEF Free
  <2>4. slot' \in [Slots -> Int] /\ currentSpillOffset' \in Int /\ crossed' \in BOOLEAN
    BY DEF Handover
  <2> QED
    BY <1>4, <2>1, <2>2, <2>3, <2>4 DEF ScanTypes, AllRegs
<1>6. ActiveHold'
  BY <1>2, <1>4 DEF ScanBase, ActiveHold
<1>7. Over'
  <2> SUFFICES ASSUME NEW i \in (1 .. cur) \ active', reg'[i] # NoReg
               PROVE  Stop(i) < Start(cur)
    BY <1>4 DEF Over
  <2>1. i \in 1 .. n /\ i \notin V /\ i \notin still
    BY <1>1, <1>2, <1>4
  <2>2. reg'[i] = reg[i]
    BY <1>1, <1>4, <2>1
  <2> QED
    BY <1>3, <2>1, <2>2
<1> QED
  BY <1>5, <1>6, <1>7

\* If the register is one of the interval's own class, free or given up by an
\* interval of that class, the classes stay apart.
LEMMA OwnClass ==
    ASSUME ListOK, ScanBase, ClassesApart, n < Size, intervals' = intervals, n' = n + 1,
           NEW still, NEW V, NEW r, Handover(still, V, r), NEW fl, fl = Float(n + 1),
           Free(fl)' = LinearScan!Pool(fl) \ {r},
           \A x \in Classes : x # fl => Free(x)' = LinearScan!Pool(x),
           \A a \in V : Float(a) = fl /\ reg[a] = r,
           r \in LinearScan!Pool(fl) \/ V # {}
    PROVE  ClassesApart'
<1> DEFINE cur == n + 1
<1>1. /\ cur \in Slots /\ cur \notin active
      /\ 1 .. n \subseteq Slots /\ active \subseteq 1 .. n
      /\ 1 .. cur = (1 .. n) \cup {cur} /\ cur \notin 1 .. n
      /\ \A i \in Slots : Float(i) \in Classes
  BY ScanFacts
<1>2. still = {a \in active : Stop(a) >= Start(cur)} /\ V \subseteq still
      /\ active' = (still \ V) \cup {cur}
  BY DEF Handover
<1>3. \A i \in 1 .. n : i \notin still /\ reg[i] # NoReg => Stop(i) < Start(cur)
  BY <1>2, ScanFacts
<1>4. /\ reg'[cur] = r /\ r # NoReg /\ \A i \in V : reg'[i] = NoReg
      /\ \A i \in Slots : i # cur /\ i \notin V => reg'[i] = reg[i]
      /\ still \subseteq active /\ \A a \in still \ V : reg'[a] = reg[a] /\ a \in active
      /\ Size' = Size /\ Slots' = Slots
      /\ \A i : Start(i)' = Start(i) /\ Stop(i)' = Stop(i) /\ Float(i)' = Float(i)
  BY HandoverFacts
<1>5. fl \in Classes
  BY <1>1
<1>6. ASSUME NEW x \in Classes
      PROVE  /\ LinearScan!Pool(x) \cup {reg[a] : a \in OfClass(still, x)} = Class(x)
             /\ \A a \in OfClass(still, x) : reg[a] \notin LinearScan!Pool(x)
  BY <1>2, PoolsAndHolders
<1>7. \A a, b \in active : Float(a) = Float(b) /\ reg[a] = reg[b] => a = b
  BY DEF ClassesApart, OneHolder
<1>8. ASSUME NEW a \in still \ V, Float(a) = fl PROVE reg[a] # r
  <2>1. CASE V # {}
    <3>1. PICK c \in V : TRUE
      BY <2>1
    <3>2. Float(c) = fl /\ reg[c] = r /\ c # a /\ c \in active /\ a \in active
      BY <1>2, <1>4, <3>1
    <3> QED
      BY <1>7, <1>8, <3>2
  <2>2. CASE r \in LinearScan!Pool(fl)
    <3>1. a \in OfClass(still, fl)
      BY <1>8 DEF OfClass
    <3> QED
      BY <1>5, <1>6, <2>2, <3>1
  <2> QED
    BY <2>1, <2>2
<1>9. OneHolder'
  <2> SUFFICES ASSUME NEW a \in active', NEW b \in active', Float(a) = Float(b), reg'[a] = reg'[b]
               PROVE  a = b
    BY <1>4 DEF OneHolder
  <2>1. CASE a = cur /\ b \in still \ V
    BY <1>4, <1>8, <2>1
  <2>2. CASE b = cur /\ a \in still \ V
    BY <1>4, <1>8, <2>2
  <2>3. CASE a \in still \ V /\ b \in still \ V
    BY <1>4, <1>7, <2>3
  <2> QED
    BY <1>2, <2>1, <2>2, <2>3
<1>10. ASSUME NEW x \in Classes
       PROVE  /\ Free(x)' \cup Held(x)' = Class(x)
              /\ Free(x)' \cap Held(x)' = {}
  <2>1. \A y : y \in Held(x)' <=> \E a \in active' : Float(a) = x /\ reg'[a] = y
    BY <1>4 DEF Held, OfClass
  <2>2. \A y : y \in {reg[a] : a \in OfClass(still, x)} <=> \E a \in still : Float(a) = x /\ reg[a] = y
    BY DEF OfClass
  <2>3. CASE x # fl
    <3>1. \A a : a \in active' /\ Float(a) = x <=> a \in still /\ Float(a) = x
      BY <1>1, <1>2, <1>4, <2>3
    <3>2. \A a \in still : Float(a) = x => reg'[a] = reg[a]
      BY <1>4, <2>3
    <3>3. Held(x)' = {reg[a] : a \in OfClass(still, x)}
      BY <2>1, <2>2, <3>1, <3>2
    <3>4. Free(x)' = LinearScan!Pool(x)
      BY <2>3
    <3>5. \A y \in Held(x)' : y \notin Free(x)'
      BY <1>6, <3>3, <3>4
    <3> QED
      BY <1>6, <3>3, <3>4, <3>5
  <2>4. CASE x = fl
    <3>1. ASSUME NEW y
          PROVE  y \in Held(fl)' <=> y = r \/ \E a \in still \ V : Float(a) = fl /\ reg[a] = y
      BY <1>2, <1>4, <2>1, <2>4
    <3>2. Free(fl)' = LinearScan!Pool(fl) \ {r}
      OBVIOUS
    <3>3. \A a \in V : a \in still /\ Float(a) = fl /\ reg[a] = r
      BY <1>2
    <3>4. ASSUME NEW y
          PROVE  (y = r \/ \E a \in still \ V : Float(a) = fl /\ reg[a] = y)
                   => y \notin Free(fl)' /\ y \in Class(fl)
      <4>1. r \in Class(fl)
        BY <1>5, <1>6, <2>2, <2>4, <3>3
      <4>2. ASSUME NEW a \in still \ V, Float(a) = fl
            PROVE  reg[a] \notin LinearScan!Pool(fl) /\ reg[a] \in Class(fl)
        <5>1. a \in OfClass(still, fl)
          BY <4>2 DEF OfClass
        <5> QED
          BY <1>5, <1>6, <5>1
      <4> QED
        BY <3>2, <4>1, <4>2
    <3>5. ASSUME NEW y \in Class(fl), y # r, y \notin LinearScan!Pool(fl)
          PROVE  \E a \in still \ V : Float(a) = fl /\ reg[a] = y
      <4>1. PICK a \in still : Float(a) = fl /\ reg[a] = y
        BY <1>5, <1>6, <2>2, <2>4, <3>5
      <4> QED
        BY <3>3, <3>5, <4>1
    <3>6. LinearScan!Pool(fl) \subseteq Class(fl)
      BY <1>5, <1>6
    <3>7. \A y : y \in Free(fl)' \/ y \in Held(fl)' <=> y \in Class(fl)
      BY <3>1, <3>2, <3>4, <3>5, <3>6
    <3>8. \A y : ~(y \in Free(fl)' /\ y \in Held(fl)')
      BY <3>1, <3>4
    <3> QED
      BY <2>4, <3>7, <3>8
  <2> QED
    BY <2>3, <2>4
<1>11. Conserved'
  <2>1. \A x : Class(x)' = Class(x)
    BY DEF Class
  <2>2. Classes' = Classes
    BY DEF Classes
  <2> QED
    BY <1>10, <2>1, <2>2 DEF Conserved
<1>12. Apart'
  <2>1. ASSUME NEW i \in 1 .. n, Float(i) = fl, reg'[i] # NoReg, reg'[i] = r
        PROVE  Stop(i) < Start(cur)
    <3>1. i \notin V /\ reg'[i] = reg[i]
      BY <1>1, <1>4, <2>1
    <3>2. i \notin still
      BY <1>8, <2>1, <3>1
    <3> QED
      BY <1>3, <2>1, <3>1, <3>2
  <2>2. ASSUME NEW i \in 1 .. n, NEW j \in 1 .. n, i # j, Float(i) = Float(j),
               reg'[i] # NoReg, reg'[i] = reg'[j]
        PROVE  Stop(i) < Start(j) \/ Stop(j) < Start(i)
    <3>1. reg'[i] = reg[i] /\ reg'[j] = reg[j]
      BY <1>1, <1>4, <2>2
    <3> QED
      BY <2>2, <3>1 DEF ClassesApart, Apart
  <2>3. ASSUME NEW i \in 1 .. cur, NEW j \in 1 .. cur, i # j, Float(i) = Float(j),
               reg'[i] # NoReg, reg'[i] = reg'[j]
        PROVE  Stop(i) < Start(j) \/ Stop(j) < Start(i)
    <3>1. CASE i \in 1 .. n /\ j \in 1 .. n
      BY <2>2, <2>3, <3>1
    <3>2. CASE i = cur /\ j \in 1 .. n
      BY <1>4, <2>1, <2>3, <3>2
    <3>3. CASE j = cur /\ i \in 1 .. n
      BY <1>4, <2>1, <2>3, <3>3
    <3> QED
      BY <1>1, <2>3, <3>1, <3>2, <3>3
  <2> QED
    BY <1>4, <2>3 DEF Apart
<1> QED
  BY <1>9, <1>11, <1>12 DEF ClassesApart

\* A new slot is none of the old ones.
LEMMA NewSlotApart ==
    ASSUME SlotsApart, slot \in [Slots -> Int], currentSpillOffset \in Int,
           intervals' = intervals, NEW c \in Slots, slot[c] = 0,
           currentSpillOffset' = currentSpillOffset - 8,
           slot' = [slot EXCEPT ![c] = currentSpillOffset - 8]
    PROVE  /\ SlotsApart' /\ slot'[c] # 0 /\ \A i \in Slots : i # c => slot'[i] = slot[i]
           /\ slot' \in [Slots -> Int] /\ currentSpillOffset' \in Int
<1>1. Slots' = Slots
  BY DEF Slots, Size
<1>2. currentSpillOffset - 8 < 0 /\ currentSpillOffset - 8 < currentSpillOffset
  BY DEF SlotsApart
<1>3. slot'[c] = currentSpillOffset - 8 /\ \A i \in Slots : i # c => slot'[i] = slot[i]
  OBVIOUS
<1>4. \A i \in Slots : slot'[i] # 0 => currentSpillOffset' <= slot'[i] /\ slot'[i] < 0
  BY <1>2, <1>3 DEF SlotsApart
<1>5. \A i \in Slots : i # c => slot'[i] # slot'[c]
  BY <1>2, <1>3 DEF SlotsApart
<1>6. \A i, j \in Slots : slot'[i] # 0 /\ slot'[i] = slot'[j] => i = j
  BY <1>3, <1>5 DEF SlotsApart
<1> QED
  BY <1>1, <1>2, <1>3, <1>4, <1>6 DEF SlotsApart

\* A free register is taken.
LEMMA TakePreserves ==
    ASSUME ListOK, ScanInv, n < Size, intervals' = intervals, n' = n + 1,
           NEW fl, fl = Float(n + 1), NEW r \in LinearScan!Pool(fl), LinearScan!TakeFree(r)
    PROVE  ScanInv'
<1> DEFINE cur == n + 1
           still == {a \in active : Stop(a) >= Start(cur)}
           V == {a \in still : FALSE}
<1> USE DEF ScanInv
<1>1. /\ cur \in Slots /\ cur \notin active /\ n \in Nat /\ Size \in Nat
      /\ 1 .. n \subseteq Slots /\ 1 .. cur = (1 .. n) \cup {cur}
      /\ LinearScan!cur = cur /\ LinearScan!Still = still
      /\ fl \in Classes
      /\ \A x \in Classes : LinearScan!Pool(x) \subseteq AllRegs
  BY ScanFacts
<1>2. /\ reg' = [reg EXCEPT ![cur] = r] /\ active' = still \cup {cur}
      /\ slot' = slot /\ currentSpillOffset' = currentSpillOffset /\ crossed' = crossed
  BY <1>1 DEF LinearScan!TakeFree
<1>3. Free(fl)' = LinearScan!Pool(fl) \ {r} /\ \A x \in Classes : x # fl => Free(x)' = LinearScan!Pool(x)
  <2>1. CASE fl = TRUE
    BY <1>1, <2>1 DEF LinearScan!TakeFree, Free, Classes, Float
  <2>2. CASE fl = FALSE
    BY <1>1, <2>2 DEF LinearScan!TakeFree, Free, Classes, Float
  <2> QED
    BY <1>1, <2>1, <2>2 DEF Classes
<1>4. still \ V = still /\ V \in SUBSET still /\ V = {}
  OBVIOUS
<1>5. r \in AllRegs
  BY <1>1
<1>6. reg' = [i \in Slots |-> IF i = n + 1 THEN r ELSE IF i \in V THEN NoReg ELSE reg[i]]
  BY <1>2 DEF ScanBase, ScanTypes
<1>7. active' = (still \ V) \cup {n + 1}
  BY <1>2, <1>4
<1>8. slot' \in [Slots -> Int] /\ currentSpillOffset' \in Int /\ crossed' \in BOOLEAN
  BY <1>2 DEF ScanBase, ScanTypes
<1>9. \A x \in Classes : Free(x)' \subseteq AllRegs
  BY <1>1, <1>3
<1>10. Handover(still, V, r)
  BY <1>4, <1>5, <1>6, <1>7, <1>8, <1>9 DEF Handover
<1> HIDE DEF still, V
<1>11. ScanTypes' /\ ActiveHold' /\ Over'
  BY <1>10, GiveRegister
<1>12. ~crossed' => ClassesApart'
  <2> SUFFICES ASSUME ~crossed' PROVE ClassesApart'
    OBVIOUS
  <2>1. ListOK /\ ScanBase /\ ClassesApart /\ n < Size /\ intervals' = intervals /\ n' = n + 1
    BY <1>2
  <2>2. /\ fl = Float(n + 1) /\ \A a \in V : Float(a) = fl /\ reg[a] = r
        /\ r \in LinearScan!Pool(fl)
    BY <1>4
  <2> QED
    BY ONLY <1>3, <1>10, <2>1, <2>2, OwnClass
<1>13. Slots' = Slots /\ Size' = Size
  BY DEF Slots, Size
<1>14. SlotsApart'
  BY <1>2, <1>13 DEF ScanBase, SlotsApart
<1>15. ScanPlaced'
  <2>1. r # NoReg /\ slot[cur] = 0
    BY <1>1, <1>5, ClassFacts DEF ScanBase, ScanPlaced, Slots
  <2>2. reg'[cur] = r /\ \A i \in Slots : i # cur => reg'[i] = reg[i]
    BY <1>1, <1>2 DEF ScanBase, ScanTypes
  <2>3. \A i \in 1 .. cur : i = cur \/ i \in 1 .. n
    BY <1>1
  <2>4. \A i \in 1 .. n : i \in Slots /\ i # cur
    BY <1>1
  <2>5. \A i \in Slots : i > cur => i > n /\ i # cur
    BY <1>1 DEF Slots
  <2> QED
    BY <1>2, <1>13, <2>1, <2>2, <2>3, <2>4, <2>5 DEF ScanBase, ScanPlaced
<1> QED
  BY <1>11, <1>12, <1>14, <1>15 DEF ScanBase

\* The current interval is spilled.
LEMMA SpillCurrentPreserves ==
    ASSUME ListOK, ScanInv, n < Size, intervals' = intervals, n' = n + 1, LinearScan!SpillCurrent,
           \A x \in Classes : Free(x)' = LinearScan!Pool(x)
    PROVE  ScanInv'
<1> DEFINE cur == n + 1
           still == {a \in active : Stop(a) >= Start(cur)}
<1> USE DEF ScanInv
<1>1. /\ cur \in Slots /\ cur \notin active /\ n \in Nat /\ Size \in Nat
      /\ 1 .. n \subseteq Slots /\ active \subseteq 1 .. n
      /\ 1 .. cur = (1 .. n) \cup {cur} /\ cur \notin 1 .. n
      /\ LinearScan!cur = cur /\ LinearScan!Still = still
      /\ \A x \in Classes : LinearScan!Pool(x) \subseteq AllRegs
      /\ \A i \in 1 .. n : i \notin still /\ reg[i] # NoReg => Stop(i) < Start(cur)
  BY ScanFacts
<1>2. /\ reg' = reg /\ active' = still /\ crossed' = crossed
      /\ currentSpillOffset' = currentSpillOffset - 8
      /\ slot' = [slot EXCEPT ![cur] = currentSpillOffset - 8]
  BY <1>1 DEF LinearScan!SpillCurrent, LinearScan!NewSlot
<1>3. /\ Size' = Size /\ Slots' = Slots
      /\ \A i : Start(i)' = Start(i) /\ Stop(i)' = Stop(i) /\ Float(i)' = Float(i)
  BY DEF Size, Slots, Start, Stop, Float
<1>4. reg[cur] = NoReg /\ slot[cur] = 0
  BY <1>1 DEF ScanBase, ScanPlaced
<1>5. still \subseteq active
  OBVIOUS
<1>6. /\ SlotsApart' /\ slot'[cur] # 0 /\ \A i \in Slots : i # cur => slot'[i] = slot[i]
      /\ slot' \in [Slots -> Int] /\ currentSpillOffset' \in Int
  <2>1. SlotsApart /\ slot \in [Slots -> Int] /\ currentSpillOffset \in Int
    BY DEF ScanBase, ScanTypes
  <2> HIDE DEF cur
  <2> QED
    BY <1>1, <1>2, <1>4, <2>1, NewSlotApart
<1>7. ScanTypes'
  <2>1. n' \in 0 .. Size /\ active' \subseteq 1 .. cur
    <3>1. n' \in 0 .. Size
      BY <1>1 DEF Slots
    <3>2. active' \subseteq 1 .. cur
      BY <1>1, <1>2, <1>5
    <3> QED
      BY <3>1, <3>2
  <2>2. freeGPRs' \subseteq AllRegs /\ freeFPRs' \subseteq AllRegs
    <3>1. Free(TRUE)' \subseteq AllRegs /\ Free(FALSE)' \subseteq AllRegs
      BY <1>1 DEF Classes
    <3> QED
      BY <3>1 DEF Free
  <2> QED
    BY <1>2, <1>3, <1>6, <2>1, <2>2 DEF ScanBase, ScanTypes, AllRegs
<1>8. ActiveHold'
  BY <1>2, <1>5 DEF ScanBase, ActiveHold
<1>9. Over'
  <2> SUFFICES ASSUME NEW i \in (1 .. cur) \ still, reg[i] # NoReg
               PROVE  Stop(i) < Start(cur)
    BY <1>2, <1>3 DEF Over
  <2> QED
    BY <1>1, <1>4
<1>10. ScanPlaced'
  <2>1. \A i \in 1 .. n : i \in Slots /\ i # cur
    BY <1>1
  <2>2. \A i \in Slots : i > cur => i > n /\ i # cur
    BY <1>1 DEF Slots
  <2> QED
    BY <1>1, <1>2, <1>3, <1>4, <1>6, <2>1, <2>2 DEF ScanBase, ScanPlaced
<1>11. ASSUME ~crossed' PROVE ClassesApart'
  <2>1. ClassesApart
    BY <1>2, <1>11
  <2>2. OneHolder'
    BY <1>2, <1>3, <1>5, <2>1 DEF ClassesApart, OneHolder
  <2>3. Apart'
    <3> SUFFICES ASSUME NEW i \in 1 .. cur, NEW j \in 1 .. cur, i # j, Float(i) = Float(j),
                        reg[i] # NoReg, reg[i] = reg[j]
                 PROVE  Stop(i) < Start(j) \/ Stop(j) < Start(i)
      BY <1>2, <1>3 DEF Apart
    <3>1. i \in 1 .. n /\ j \in 1 .. n
      BY <1>1, <1>4
    <3> QED
      BY <2>1, <3>1 DEF ClassesApart, Apart
  <2>4. ASSUME NEW x \in Classes
        PROVE  Free(x)' \cup Held(x)' = Class(x) /\ Free(x)' \cap Held(x)' = {}
    <3>1. /\ LinearScan!Pool(x) \cup {reg[a] : a \in OfClass(still, x)} = Class(x)
          /\ \A a \in OfClass(still, x) : reg[a] \notin LinearScan!Pool(x)
      BY <2>1, PoolsAndHolders
    <3>2. OfClass(active, x)' = OfClass(still, x)
      BY <1>2, <1>3 DEF OfClass
    <3> HIDE DEF still
    <3>3. Held(x)' = {reg[a] : a \in OfClass(still, x)}
      BY <1>2, <3>2 DEF Held
    <3> QED
      BY <3>1, <3>3
  <2>5. Conserved'
    <3>1. \A x : Class(x)' = Class(x)
      BY DEF Class
    <3>2. Classes' = Classes
      BY DEF Classes
    <3> QED
      BY <2>4, <3>1, <3>2 DEF Conserved
  <2> QED
    BY <2>2, <2>3, <2>5 DEF ClassesApart
<1> QED
  BY <1>6, <1>7, <1>8, <1>9, <1>10, <1>11 DEF ScanBase

\* An active interval is spilled and passes its register on.
LEMMA SpillActivePreserves ==
    ASSUME ListOK, ScanInv, n < Size, intervals' = intervals, n' = n + 1,
           NEW fl, fl = Float(n + 1), LinearScan!Pool(fl) = {},
           NEW c \in LinearScan!Still, LinearScan!SpillActive(c),
           \A x \in Classes : Free(x)' = LinearScan!Pool(x)
    PROVE  ScanInv'
<1> DEFINE cur == n + 1
           still == {a \in active : Stop(a) >= Start(cur)}
<1> USE DEF ScanInv
<1>1. /\ cur \in Slots /\ cur \notin active /\ n \in Nat /\ Size \in Nat
      /\ 1 .. n \subseteq Slots /\ active \subseteq 1 .. n
      /\ 1 .. cur = (1 .. n) \cup {cur} /\ cur \notin 1 .. n
      /\ LinearScan!cur = cur /\ LinearScan!Still = still
      /\ fl \in Classes
      /\ \A x \in Classes : LinearScan!Pool(x) \subseteq AllRegs
      /\ \A a \in still : reg[a] # NoReg /\ reg[a] \in AllRegs
  BY ScanFacts
<1>2. /\ reg' = [reg EXCEPT ![cur] = reg[c], ![c] = NoReg] /\ active' = (still \ {c}) \cup {cur}
      /\ currentSpillOffset' = currentSpillOffset - 8
      /\ slot' = [slot EXCEPT ![c] = currentSpillOffset - 8]
      /\ crossed' = (crossed \/ Float(c) # fl)
  BY <1>1 DEF LinearScan!SpillActive, LinearScan!NewSlot, Float
<1>3. Size' = Size /\ Slots' = Slots
  BY DEF Size, Slots
<1>4. c \in still /\ c \in active /\ c \in 1 .. n /\ c \in Slots /\ c # cur /\ reg[c] # NoReg
  BY <1>1
<1>5. slot[c] = 0
  BY <1>4 DEF ScanBase, ScanPlaced
<1>6. /\ SlotsApart' /\ slot'[c] # 0 /\ \A i \in Slots : i # c => slot'[i] = slot[i]
      /\ slot' \in [Slots -> Int] /\ currentSpillOffset' \in Int
  <2>1. SlotsApart /\ slot \in [Slots -> Int] /\ currentSpillOffset \in Int
    BY DEF ScanBase, ScanTypes
  <2> QED
    BY <1>2, <1>4, <1>5, <2>1, NewSlotApart
<1>7. reg' = [i \in Slots |-> IF i = n + 1 THEN reg[c] ELSE IF i \in {c} THEN NoReg ELSE reg[i]]
  <2>1. reg \in [Slots -> AllRegs \cup {NoReg}]
    BY DEF ScanBase, ScanTypes
  <2> QED
    BY <1>1, <1>2, <1>4, <2>1
<1>8. Handover(still, {c}, reg[c])
  <2>1. \A x \in Classes : Free(x)' \subseteq AllRegs
    BY <1>1
  <2>2. crossed' \in BOOLEAN
    BY <1>2
  <2> QED
    BY <1>1, <1>2, <1>4, <1>6, <1>7, <2>1, <2>2 DEF Handover
<1> HIDE DEF still
<1>9. ScanTypes' /\ ActiveHold' /\ Over'
  BY <1>8, GiveRegister
<1>10. ASSUME ~crossed' PROVE ClassesApart'
  <2>1. ~crossed /\ Float(c) = fl
    BY <1>2, <1>10
  <2>2. ListOK /\ ScanBase /\ ClassesApart /\ n < Size /\ intervals' = intervals /\ n' = n + 1
    BY <2>1
  <2>3. /\ fl = Float(n + 1) /\ \A a \in {c} : Float(a) = fl /\ reg[a] = reg[c]
        /\ {c} # {}
    BY <2>1
  <2>4. /\ Free(fl)' = LinearScan!Pool(fl) \ {reg[c]}
        /\ \A x \in Classes : x # fl => Free(x)' = LinearScan!Pool(x)
    BY <1>1
  <2> QED
    BY ONLY <1>8, <2>2, <2>3, <2>4, OwnClass
<1>11. ScanPlaced'
  <2>1. \A i \in 1 .. n : i \in Slots /\ i # cur
    BY <1>1
  <2>2. \A i \in Slots : i > cur => i > n /\ i # cur /\ i # c
    BY <1>1, <1>4 DEF Slots
  <2>3. reg'[cur] = reg[c] /\ reg'[c] = NoReg /\ \A i \in Slots : i # cur /\ i # c => reg'[i] = reg[i]
    BY <1>1, <1>4, <1>7
  <2>4. slot[cur] = 0
    BY <1>1 DEF ScanBase, ScanPlaced
  <2>5. ASSUME NEW i \in 1 .. cur
        PROVE  reg'[i] = NoReg <=> slot'[i] # 0
    <3>1. CASE i = cur
      BY <1>1, <1>4, <1>6, <2>3, <2>4, <3>1
    <3>2. CASE i = c
      BY <1>6, <2>3, <3>2
    <3>3. CASE i \in 1 .. n /\ i # c
      BY <1>6, <2>1, <2>3, <3>3 DEF ScanBase, ScanPlaced
    <3> QED
      BY <1>1, <3>1, <3>2, <3>3
  <2>6. ASSUME NEW i \in Slots, i > cur
        PROVE  reg'[i] = NoReg /\ slot'[i] = 0
    BY <1>6, <2>2, <2>3, <2>6 DEF ScanBase, ScanPlaced
  <2> QED
    BY <1>3, <2>5, <2>6 DEF ScanPlaced
<1> QED
  BY <1>6, <1>9, <1>10, <1>11 DEF ScanBase

\* At some start point more intervals of a class are alive than the class has
\* registers.
Pressure ==
    \E p \in {Start(i) : i \in Slots}, fl \in BOOLEAN :
        Cardinality({i \in Slots : intervals[i].float = fl /\ Start(i) <= p /\ p <= Stop(i)})
            > Cardinality(Class(fl))

\* The first spill, and the first register passed to the other class, need an
\* empty pool.
SpillsExplained == (\E i \in Slots : slot[i] # 0) \/ crossed => Pressure

\* A register is passed between the classes only where there are both.
CrossedMixed == crossed => \E i, j \in Slots : Float(i) # Float(j)

\* When the pool of a class is empty, the active intervals of the class hold all
\* its registers, and they and the current one are alive where the current one
\* starts.
LEMMA EmptyPoolIsPressure ==
    ASSUME ListOK, ScanBase, ClassesApart, n < Size, LinearScan!Pool(Float(n + 1)) = {}
    PROVE  Pressure
<1> DEFINE cur == n + 1
           fl == Float(cur)
           p == Start(cur)
           still == {a \in active : Stop(a) >= Start(cur)}
           mine == OfClass(still, fl)
           alive == {i \in Slots : intervals[i].float = fl /\ Start(i) <= p /\ p <= Stop(i)}
           hold == [a \in mine |-> reg[a]]
<1>1. /\ cur \in Slots /\ cur \notin active /\ n \in Nat /\ fl \in Classes
      /\ active \subseteq 1 .. n /\ 1 .. n \subseteq Slots
  BY ScanFacts
<1>2. {reg[a] : a \in mine} = Class(fl)
  <2>1. LinearScan!Pool(fl) \cup {reg[a] : a \in mine} = Class(fl)
    BY <1>1, PoolsAndHolders
  <2> HIDE DEF mine
  <2> QED
    BY <2>1
<1>3. Size \in Nat /\ active \subseteq Slots /\ \A a \in active : a < cur
  BY <1>1 DEF ListOK, Size
<1>4. \A i \in Slots : Start(i) \in Nat /\ Stop(i) \in Nat
  <2>1. \A i \in Slots : intervals[i] \in IntervalSet
    BY DEF ListOK, Slots, Size
  <2> QED
    BY <2>1 DEF IntervalSet, Start, Stop
<1>5. IsFiniteSet(Slots)
  BY <1>3, FS_Interval DEF Slots
<1>6. IsFiniteSet(mine) /\ IsFiniteSet(alive) /\ Cardinality(mine) \in Nat
  <2>1. mine \in SUBSET Slots /\ alive \in SUBSET Slots
    BY <1>3 DEF OfClass
  <2> HIDE DEF mine, alive
  <2> QED
    BY <1>5, <2>1, FS_Subset, FS_CardinalityType
<1>7. hold \in Surjection(mine, Class(fl))
  <2> HIDE DEF mine
  <2> QED
    BY <1>2 DEF Surjection
<1>8. Cardinality(Class(fl)) <= Cardinality(mine) /\ IsFiniteSet(Class(fl))
  <2> HIDE DEF hold, mine
  <2> QED
    BY <1>6, <1>7, FS_Surjection
<1>9. mine \cup {cur} \in SUBSET alive
  <2>1. cur \in alive
    BY <1>1, <1>4 DEF ListOK, Float
  <2>2. ASSUME NEW a \in mine
        PROVE  a \in alive
    <3>1. a \in still /\ Float(a) = fl
      BY DEF OfClass
    <3>2. a \in Slots /\ a < cur /\ Start(a) <= Start(cur)
      BY <1>1, <1>3, <3>1 DEF ListOK
    <3>3. intervals[a].float = fl
      BY <3>1 DEF Float
    <3> HIDE DEF fl
    <3> QED
      BY <1>1, <1>4, <3>1, <3>2, <3>3
  <2> QED
    BY <2>1, <2>2
<1>10. Cardinality(mine \cup {cur}) = Cardinality(mine) + 1
  <2>1. cur \notin mine
    BY <1>1 DEF OfClass
  <2> HIDE DEF mine, cur
  <2> QED
    BY <1>6, <2>1, FS_AddElement
<1>11. Cardinality(mine \cup {cur}) <= Cardinality(alive) /\ Cardinality(alive) \in Nat
  <2> HIDE DEF mine, alive
  <2> QED
    BY <1>6, <1>9, FS_Subset, FS_CardinalityType
<1>12. Cardinality(Class(fl)) \in Nat
  BY <1>8, FS_CardinalityType
<1>13. Cardinality(alive) > Cardinality(Class(fl))
  <2> HIDE DEF mine, alive, fl
  <2> QED
    BY <1>6, <1>8, <1>10, <1>11, <1>12
<1>14. p \in {Start(i) : i \in Slots} /\ fl \in BOOLEAN
  BY <1>1 DEF Classes
<1> HIDE DEF fl, p
<1> QED
  BY <1>13, <1>14 DEF Pressure

\* A turn of allocate's loop.
LEMMA ScanNext ==
    ASSUME ListOK, ScanInv, SpillsExplained, CrossedMixed, LinearScan!AllocateNext
    PROVE  ScanInv' /\ SpillsExplained' /\ CrossedMixed'
<1>1. n < Size /\ intervals' = intervals /\ n' = n + 1
  BY DEF LinearScan!AllocateNext, LinearScan!cur, Size
<1>2. n + 1 \in Slots /\ LinearScan!cur = n + 1 /\ Float(n + 1) \in Classes
  BY <1>1, ScanFacts DEF ScanInv
<1>8. PICK fl \in Classes : fl = Float(n + 1)
  BY <1>2
<1>3. intervals[LinearScan!cur].float = fl
  BY <1>2, <1>8 DEF Float
<1>4. Pressure' = Pressure /\ Slots' = Slots
  BY <1>1 DEF Pressure, Slots, Size, Start, Stop, Class
<1>7. \A i : Float(i)' = Float(i)
  BY <1>1 DEF Float
<1>5. CASE LinearScan!Pool(fl) # {}
  <2>1. PICK r \in LinearScan!Pool(fl) : LinearScan!TakeFree(r)
    BY <1>3, <1>5 DEF LinearScan!AllocateNext
  <2>2. slot' = slot /\ crossed' = crossed
    BY <2>1 DEF LinearScan!TakeFree
  <2>3. ScanInv'
    BY <1>1, <1>8, <2>1, TakePreserves
  <2> QED
    BY <1>4, <1>7, <2>2, <2>3 DEF SpillsExplained, CrossedMixed
<1>6. CASE LinearScan!Pool(fl) = {}
  <2>1. LinearScan!spillAtInterval
    BY <1>3, <1>6 DEF LinearScan!AllocateNext
  <2>2. freeGPRs' = LinearScan!Pool(FALSE) /\ freeFPRs' = LinearScan!Pool(TRUE)
    BY <2>1 DEF LinearScan!spillAtInterval
  <2>3. \A x \in Classes : Free(x)' = LinearScan!Pool(x)
    <3>1. Free(TRUE)' = LinearScan!Pool(TRUE) /\ Free(FALSE)' = LinearScan!Pool(FALSE)
      BY <2>2 DEF Free
    <3>2. \A x \in Classes : x = TRUE \/ x = FALSE
      BY DEF Classes
    <3> QED
      BY <3>1, <3>2
  <2>4. Pressure
    <3>1. CASE crossed
      BY <3>1 DEF SpillsExplained
    <3>2. CASE ~crossed
      BY <1>1, <1>6, <3>2, <1>8, EmptyPoolIsPressure DEF ScanInv
    <3> QED
      BY <3>1, <3>2
  <2>5. SpillsExplained'
    BY <1>4, <2>4 DEF SpillsExplained
  <2>6. CASE LinearScan!SpillCurrent
    <3>1. CrossedMixed'
      BY <1>4, <1>7, <2>6 DEF LinearScan!SpillCurrent, CrossedMixed
    <3> QED
      BY <1>1, <2>3, <2>5, <2>6, <3>1, SpillCurrentPreserves
  <2>7. CASE \E c \in LinearScan!Back : LinearScan!SpillActive(c)
    <3>1. PICK c \in LinearScan!Still : LinearScan!SpillActive(c)
      BY <2>7 DEF LinearScan!Back
    <3>3. c \in Slots /\ crossed' = (crossed \/ Float(c) # Float(n + 1))
      BY <1>1, <1>2, <3>1, ScanFacts DEF ScanInv, LinearScan!SpillActive, Float
    <3>4. CrossedMixed'
      BY <1>2, <1>4, <1>7, <3>3 DEF CrossedMixed
    <3> QED
      BY <1>1, <1>6, <1>8, <2>3, <2>5, <3>1, <3>4, SpillActivePreserves
  <2> QED
    BY <2>1, <2>6, <2>7 DEF LinearScan!spillAtInterval
<1> QED
  BY <1>5, <1>6

(***************************************************************************)
(* Graph colouring.                                                        *)
(***************************************************************************)
Overlapping(v) == {u \in Slots \ {v} : Coloring!overlaps(intervals[u], intervals[v])}
Depth == Len(selectStack)
OnStack(v) == \E k \in 1 .. Depth : selectStack[k] = v

ColorTypes ==
    /\ neighbors = [v \in Slots |-> Overlapping(v)]
    /\ selectStack \in Seq(Slots)
    /\ \A j, k \in 1 .. Depth : selectStack[j] = selectStack[k] => j = k
    /\ phase \in {"simplify", "select", "done"}
    /\ phase = "done" => selectStack = <<>>
    /\ reg \in [Slots -> AllRegs \cup {NoReg}]
    /\ slot \in [Slots -> Int]
    /\ currentSpillOffset \in Int
    /\ doubtful \subseteq Slots

\* A node that has not been popped has no place, one that has been has one.
ColorPlaced ==
    \A v \in Slots :
        IF phase = "simplify" \/ OnStack(v) THEN reg[v] = NoReg /\ slot[v] = 0
        ELSE reg[v] = NoReg <=> slot[v] # 0

Proper ==
    \A v \in Slots : \A u \in neighbors[v] : reg[v] # NoReg => reg[u] # reg[v]

ColorInv ==
    /\ ColorTypes
    /\ ColorPlaced
    /\ Proper
    /\ SlotsApart

\* A node k places up the stack was removed with fewer neighbours left than
\* its class has registers, or in doubt; only nodes removed in doubt have slots.
RemovedLow(k) ==
    Cardinality(neighbors[selectStack[k]] \ {selectStack[i] : i \in 1 .. k - 1})
        < Coloring!kLimit(selectStack[k])

DoubtInv ==
    /\ \A k \in 1 .. Depth : selectStack[k] \in doubtful \/ RemovedLow(k)
    /\ \A v \in Slots : slot[v] # 0 => v \in doubtful

\* The pools of GraphColoring.hpp: no register twice, and every class is offered
\* at least as many registers as its degree limit says.
PoolsSuffice ==
    /\ \A i, j \in DOMAIN availableFPRs : availableFPRs[i] = availableFPRs[j] => i = j
    /\ Len(availableGPRs) <= Len(availableFPRs)

\* The allocators count with the same Cardinality.
LEMMA SameCardinality ==
    \A S : Coloring!Cardinality(S) = Cardinality(S) /\ LinearScan!Cardinality(S) = Cardinality(S)
BY Zenon DEF Coloring!Cardinality, LinearScan!Cardinality, Cardinality

\* Facts about the sets the simplify loop works on.
LEMMA SimplifyFacts ==
    ASSUME ListOK, ColorInv
    PROVE  /\ Coloring!Node = Slots /\ Size \in Nat /\ Depth \in Nat
           /\ Coloring!Remaining = {v \in Slots : ~OnStack(v)}
           /\ \A v \in Slots : neighbors[v] \subseteq Slots
<1>1. Coloring!Node = Slots /\ Size \in Nat
  BY DEF Coloring!Node, ListOK, Slots, Size
<1>2. Depth \in Nat /\ DOMAIN selectStack = 1 .. Depth
  BY DEF ColorInv, ColorTypes, Depth
<1>3. Coloring!Remaining = {v \in Slots : ~OnStack(v)}
  <2>1. ToSet(selectStack) = {selectStack[k] : k \in 1 .. Depth}
    BY <1>2, Zenon DEF ToSet
  <2>2. \A v : v \in ToSet(selectStack) <=> OnStack(v)
    BY <2>1 DEF OnStack
  <2> QED
    BY <1>1, <2>2 DEF Coloring!Remaining, Coloring!ToSet, ToSet
<1>4. \A v \in Slots : neighbors[v] \subseteq Slots
  BY DEF ColorInv, ColorTypes, Overlapping
<1> QED
  BY <1>1, <1>2, <1>3, <1>4

\* A node is pushed.
LEMMA PushKeeps ==
    ASSUME ListOK, ColorInv, NEW v \in Coloring!Remaining, Coloring!PushNode(v),
           phase = "simplify", phase' = phase, doubtful' \subseteq Slots
    PROVE  /\ ColorInv'
           /\ Depth' = Depth + 1 /\ selectStack'[Depth + 1] = v
           /\ \A k \in 1 .. Depth : selectStack'[k] = selectStack[k]
<1>1. /\ Depth \in Nat /\ v \in Slots /\ ~OnStack(v)
      /\ selectStack \in Seq(Slots)
  BY SimplifyFacts DEF ColorInv, ColorTypes
<1>2. /\ selectStack' = Append(selectStack, v)
      /\ UNCHANGED <<intervals, neighbors, reg, slot, currentSpillOffset>>
  BY DEF Coloring!PushNode
<1>3. /\ selectStack' \in Seq(Slots) /\ Depth' = Depth + 1 /\ selectStack'[Depth + 1] = v
      /\ \A k \in 1 .. Depth : selectStack'[k] = selectStack[k]
  BY <1>1, <1>2, AppendProperties DEF Depth
<1>4. Slots' = Slots /\ \A u : Overlapping(u)' = Overlapping(u)
  BY <1>2 DEF Slots, Size, Overlapping, Coloring!overlaps
<1>5. \A j, k \in 1 .. Depth' : selectStack'[j] = selectStack'[k] => j = k
  <2>1. \A k \in 1 .. Depth : selectStack'[k] # v
    BY <1>1, <1>3 DEF OnStack
  <2>2. 1 .. Depth' = (1 .. Depth) \cup {Depth + 1}
    BY <1>1, <1>3
  <2> QED
    BY ZenonT(60), <1>3, <2>1, <2>2 DEF ColorInv, ColorTypes
<1>6. ColorTypes'
  BY <1>2, <1>3, <1>4, <1>5 DEF ColorInv, ColorTypes, AllRegs
<1>7. ColorPlaced'
  BY <1>2, <1>4 DEF ColorInv, ColorPlaced
<1>8. Proper' /\ SlotsApart'
  BY <1>2, <1>4 DEF ColorInv, Proper, SlotsApart
<1> QED
  BY <1>3, <1>6, <1>7, <1>8 DEF ColorInv

\* A node is popped: those below it stay, and it is on the stack no more.
LEMMA PopFacts ==
    ASSUME ListOK, ColorInv, selectStack # <<>>, selectStack' = Front(selectStack),
           intervals' = intervals
    PROVE  LET v == Last(selectStack)
           IN  /\ Depth \in Nat \ {0} /\ v \in Slots /\ v = selectStack[Depth] /\ OnStack(v)
               /\ selectStack' \in Seq(Slots) /\ Depth' = Depth - 1
               /\ \A k \in 1 .. Depth - 1 : selectStack'[k] = selectStack[k]
               /\ \A j, k \in 1 .. Depth' : selectStack'[j] = selectStack'[k] => j = k
               /\ \A u \in Slots : OnStack(u)' <=> OnStack(u) /\ u # v
<1> DEFINE v == Last(selectStack)
<1>1. selectStack \in Seq(Slots) /\ Depth \in Nat \ {0}
  BY DEF ColorInv, ColorTypes, Depth
<1>2. v = selectStack[Depth] /\ v \in Slots /\ OnStack(v)
  BY <1>1 DEF Last, Depth, OnStack
<1>3. /\ selectStack' \in Seq(Slots) /\ Depth' = Depth - 1
      /\ \A k \in 1 .. Depth - 1 : selectStack'[k] = selectStack[k]
  <2>1. \A k \in 1 .. Depth - 1 : selectStack[k] \in Slots
    BY <1>1 DEF Depth
  <2>2. Depth - 1 \in Int /\ 1 \in Int
    BY <1>1
  <2>3. selectStack' = SubSeq(selectStack, 1, Depth - 1)
    BY DEF Front, Depth
  <2>4. /\ selectStack' \in Seq(Slots)
        /\ Len(selectStack') = IF 1 <= Depth - 1 THEN Depth - 1 - 1 + 1 ELSE 0
        /\ \A k \in 1 .. Depth - 1 - 1 + 1 : selectStack'[k] = selectStack[1 + k - 1]
    BY <2>1, <2>2, <2>3, SubSeqProperties
  <2>5. Depth' = Len(selectStack')
    BY DEF Depth
  <2> QED
    BY <1>1, <2>4, <2>5
<1>4. \A k \in 1 .. Depth - 1 : k \in 1 .. Depth /\ k # Depth
  BY <1>1
<1>5. \A j, k \in 1 .. Depth' : selectStack'[j] = selectStack'[k] => j = k
  BY <1>3, <1>4 DEF ColorInv, ColorTypes
<1>6. ASSUME NEW u \in Slots
      PROVE  OnStack(u)' <=> OnStack(u) /\ u # v
  <2>1. OnStack(u)' <=> \E k \in 1 .. Depth - 1 : selectStack[k] = u
    BY <1>3 DEF OnStack
  <2>2. 1 .. Depth = (1 .. Depth - 1) \cup {Depth}
    BY <1>1
  <2>3. \A k \in 1 .. Depth - 1 : selectStack[k] # selectStack[Depth]
    BY <1>1, <1>4 DEF ColorInv, ColorTypes
  <2> QED
    BY <1>2, <2>1, <2>2, <2>3 DEF OnStack
<1> QED
  BY <1>1, <1>2, <1>3, <1>5, <1>6

\* The intervals of a node and of its neighbours overlap, both ways.
LEMMA NeighboursMutual ==
    ASSUME ListOK, ColorInv, NEW v \in Slots, NEW u \in neighbors[v]
    PROVE  u \in Slots /\ u # v /\ v \in neighbors[u]
<1>1. \A w \in Slots : neighbors[w] = Overlapping(w)
  BY DEF ColorInv, ColorTypes
<1>2. u \in Slots /\ u # v /\ Coloring!overlaps(intervals[u], intervals[v])
  BY <1>1 DEF Overlapping
<1>3. intervals[u] \in IntervalSet /\ intervals[v] \in IntervalSet
  BY <1>2 DEF ListOK, Slots, Size
<1>4. Coloring!overlaps(intervals[v], intervals[u])
  BY <1>2, <1>3 DEF Coloring!overlaps, IntervalSet
<1> QED
  BY <1>1, <1>2, <1>4 DEF Overlapping

\* What popping a node leaves of the types, whatever place the node gets.
LEMMA PopKeepsTypes ==
    ASSUME ListOK, ColorInv, phase = "select", selectStack # <<>>,
           selectStack' = Front(selectStack),
           phase' = (IF Len(selectStack) = 1 THEN "done" ELSE phase),
           UNCHANGED <<intervals, neighbors, doubtful>>,
           reg' \in [Slots -> AllRegs \cup {NoReg}],
           slot' \in [Slots -> Int], currentSpillOffset' \in Int
    PROVE  ColorTypes'
<1>1. /\ selectStack' \in Seq(Slots) /\ Depth \in Nat \ {0} /\ Depth' = Depth - 1
      /\ \A j, k \in 1 .. Depth' : selectStack'[j] = selectStack'[k] => j = k
  BY PopFacts
<1>2. Slots' = Slots /\ \A u : Overlapping(u)' = Overlapping(u)
  BY DEF Slots, Size, Overlapping, Coloring!overlaps
<1>3. phase' = "done" => selectStack' = <<>>
  <2>1. phase' = "done" => Depth = 1
    BY DEF Depth
  <2>2. Depth = 1 => Len(selectStack') = 0
    BY <1>1 DEF Depth
  <2>3. Len(selectStack') = 0 => selectStack' = <<>>
    <3>1. selectStack' \in Seq(Slots)
      BY <1>1
    <3> QED
      BY <3>1, EmptySeq
  <2> QED
    BY <2>1, <2>2, <2>3
<1>4. phase' \in {"simplify", "select", "done"}
  OBVIOUS
<1>5. neighbors' = [v \in Slots' |-> Overlapping(v)']
  BY <1>2 DEF ColorInv, ColorTypes
<1> QED
  BY <1>1, <1>2, <1>3, <1>4, <1>5 DEF ColorInv, ColorTypes, AllRegs

\* A popped node gets a colour none of its neighbours has, or a new slot.
LEMMA SelectKeeps ==
    ASSUME ListOK, ColorInv, Coloring!Select
    PROVE  ColorInv'
<1> DEFINE v == Last(selectStack)
<1>1. /\ phase = "select" /\ selectStack # <<>> /\ selectStack' = Front(selectStack)
      /\ phase' = (IF Len(selectStack) = 1 THEN "done" ELSE phase)
      /\ UNCHANGED <<intervals, neighbors, doubtful>>
  BY DEF Coloring!Select, Coloring!Front, Front
<1>2. /\ v \in Slots /\ OnStack(v)
      /\ \A u \in Slots : OnStack(u)' <=> OnStack(u) /\ u # v
  BY <1>1, PopFacts
<1>3. Slots' = Slots /\ neighbors' = neighbors /\ reg[v] = NoReg /\ slot[v] = 0
  BY <1>1, <1>2 DEF Slots, Size, ColorInv, ColorPlaced
<1>4. phase' # "simplify" /\ reg \in [Slots -> AllRegs \cup {NoReg}] /\ slot \in [Slots -> Int]
  BY <1>1 DEF ColorInv, ColorTypes
<1>5. CASE \E c \in Coloring!FirstFree(v) : Coloring!ColorNode(v, c)
  <2>1. PICK c \in Coloring!FirstFree(v) : Coloring!ColorNode(v, c)
    BY <1>5
  <2> DEFINE r == availableFPRs[c]
  <2>2. /\ c \in DOMAIN availableFPRs /\ r \notin Coloring!usedColors(v)
        /\ reg' = [reg EXCEPT ![v] = r] /\ slot' = slot
        /\ currentSpillOffset' = currentSpillOffset
    BY <2>1 DEF Coloring!FirstFree, Coloring!ColorNode, Coloring!colorsPool
  <2>3. r \in Nat /\ r \in AllRegs /\ r # NoReg
    BY <2>2, RegsAssumption DEF AllRegs, ToSet
  <2>4. reg' \in [Slots -> AllRegs \cup {NoReg}] /\ reg'[v] = r
        /\ \A u \in Slots : u # v => reg'[u] = reg[u]
    BY <1>2, <1>4, <2>2, <2>3
  <2>5. ColorTypes'
    BY <1>1, <2>2, <2>4, PopKeepsTypes DEF ColorInv, ColorTypes
  <2>6. ColorPlaced'
    BY <1>1, <1>2, <1>3, <1>4, <2>2, <2>3, <2>4 DEF ColorInv, ColorPlaced
  <2>7. \A u \in neighbors[v] : reg[u] # r
    BY <2>2, <2>3 DEF Coloring!usedColors
  <2>8. ASSUME NEW w \in Slots, NEW u \in neighbors[w], reg'[w] # NoReg
        PROVE  reg'[u] # reg'[w]
    <3>1. u \in Slots /\ u # w /\ w \in neighbors[u]
      BY NeighboursMutual
    <3>2. CASE w = v
      BY <2>4, <2>7, <3>1, <3>2
    <3>3. CASE u = v
      BY <2>4, <2>7, <3>1, <3>3
    <3>4. CASE u # v /\ w # v
      BY <2>4, <2>8, <3>1, <3>4 DEF ColorInv, Proper
    <3> QED
      BY <3>2, <3>3, <3>4
  <2>9. Proper'
    BY <1>3, <2>8 DEF Proper
  <2>10. SlotsApart'
    BY <1>3, <2>2 DEF ColorInv, SlotsApart
  <2> QED
    BY <2>5, <2>6, <2>9, <2>10 DEF ColorInv
<1>6. CASE Coloring!SpillNode(v)
  <2>1. /\ currentSpillOffset' = currentSpillOffset - 8
        /\ slot' = [slot EXCEPT ![v] = currentSpillOffset - 8] /\ reg' = reg
    BY <1>6 DEF Coloring!SpillNode, Coloring!SpillOffset
  <2>2. /\ SlotsApart' /\ slot'[v] # 0 /\ \A i \in Slots : i # v => slot'[i] = slot[i]
        /\ slot' \in [Slots -> Int] /\ currentSpillOffset' \in Int
    <3> HIDE DEF v
    <3> QED
      BY <1>1, <1>2, <1>3, <1>4, <2>1, NewSlotApart DEF ColorInv, ColorTypes
  <2>3. ColorTypes'
    BY <1>1, <1>4, <2>1, <2>2, PopKeepsTypes
  <2>4. ColorPlaced'
    BY <1>1, <1>2, <1>3, <1>4, <2>1, <2>2 DEF ColorInv, ColorPlaced
  <2>5. Proper'
    BY <1>3, <2>1 DEF ColorInv, Proper
  <2> QED
    BY <2>2, <2>3, <2>4, <2>5 DEF ColorInv
<1> QED
  BY <1>5, <1>6 DEF Coloring!Select, Coloring!Last, Last

LEMMA ColorNext ==
    ASSUME ListOK, ColorInv, Coloring!Next
    PROVE  ColorInv' /\ intervals' = intervals
<1>1. CASE Coloring!Simplify
  <2>1. PICK v \in Coloring!Remaining :
            Coloring!PushNode(v) /\ doubtful' \in {doubtful, doubtful \cup {v}}
    BY <1>1 DEF Coloring!Simplify, Coloring!Low
  <2>2. phase = "simplify" /\ phase' = phase /\ v \in Slots
    BY <1>1, SimplifyFacts DEF Coloring!Simplify
  <2>3. doubtful' \subseteq Slots
    BY <2>1, <2>2 DEF ColorInv, ColorTypes
  <2> QED
    BY <2>1, <2>2, <2>3, PushKeeps DEF Coloring!PushNode
<1>2. CASE Coloring!EndSimplify
  <2>1. /\ UNCHANGED <<intervals, neighbors, selectStack, reg, slot, currentSpillOffset, doubtful>>
        /\ phase = "simplify" /\ Coloring!Remaining = {}
        /\ phase' = (IF Coloring!Node = {} THEN "done" ELSE "select")
    BY <1>2 DEF Coloring!EndSimplify
  <2>2. Slots' = Slots /\ \A u : Overlapping(u)' = Overlapping(u)
    BY <2>1 DEF Slots, Size, Overlapping, Coloring!overlaps
  <2>3. \A v \in Slots : OnStack(v) /\ OnStack(v)'
    BY <2>1, SimplifyFacts DEF OnStack, Depth
  <2>4. phase' = "done" => selectStack' = <<>>
    <3>1. SUFFICES ASSUME Slots = {} PROVE selectStack = <<>>
      BY <2>1, SimplifyFacts
    <3> QED
      BY <3>1 DEF ColorInv, ColorTypes
  <2>5. ColorTypes'
    BY <2>1, <2>2, <2>4 DEF ColorInv, ColorTypes, AllRegs, Depth
  <2>6. ColorPlaced'
    BY <2>1, <2>2, <2>3 DEF ColorInv, ColorPlaced
  <2>7. Proper' /\ SlotsApart'
    BY <2>1, <2>2 DEF ColorInv, Proper, SlotsApart
  <2> QED
    BY <2>1, <2>5, <2>6, <2>7 DEF ColorInv
<1>3. CASE Coloring!Select
  BY <1>3, SelectKeeps DEF Coloring!Select
<1> QED
  BY <1>1, <1>2, <1>3 DEF Coloring!Next

\* A node that finds no free colour has a neighbour of every colour.
LEMMA NoFreeColor ==
    ASSUME NEW v, Coloring!FirstFree(v) = {}
    PROVE  \A c \in 1 .. Len(availableFPRs) : \E u \in neighbors[v] : reg[u] = availableFPRs[c]
<1> DEFINE used == Coloring!usedColors(v)
           T == {c \in 1 .. Len(availableFPRs) : availableFPRs[c] \notin used}
<1>1. Len(availableFPRs) \in Nat /\ DOMAIN availableFPRs = 1 .. Len(availableFPRs)
  BY RegsAssumption
<1>2. T = {}
  <2>1. SUFFICES ASSUME T # {} PROVE FALSE
    OBVIOUS
  <2>2. PICK m \in T : \A k \in T : m <= k
    <3>1. T \in SUBSET Nat
      BY <1>1
    <3> HIDE DEF T
    <3> QED
      BY <2>1, <3>1, LeastElement
  <2>3. m \in 1 .. Len(availableFPRs) /\ availableFPRs[m] \notin used
    OBVIOUS
  <2>4. \A b \in 1 .. m - 1 : b \in 1 .. Len(availableFPRs) /\ ~(m <= b)
    BY <1>1, <2>3
  <2>5. \A b \in 1 .. m - 1 : availableFPRs[b] \in used
    BY <2>2, <2>4
  <2>6. m \in Coloring!FirstFree(v)
    BY <1>1, <2>3, <2>5 DEF Coloring!FirstFree, Coloring!colorsPool
  <2> QED
    BY <2>6
<1> QED
  BY <1>2 DEF Coloring!usedColors

\* A node removed with fewer neighbours left than its class has registers
\* finds a free colour: the neighbours below it on the stack have none yet.
LEMMA RemovedLowGetsColor ==
    ASSUME ListOK, ColorInv, PoolsSuffice, phase = "select", selectStack # <<>>,
           RemovedLow(Depth), Coloring!FirstFree(selectStack[Depth]) = {}
    PROVE  FALSE
<1> DEFINE v == selectStack[Depth]
           Below == {selectStack[i] : i \in 1 .. Depth - 1}
           N == neighbors[v] \ Below
           L == Len(availableFPRs)
           h == [c \in 1 .. L |-> CHOOSE u \in N : reg[u] = availableFPRs[c]]
<1>1. /\ Depth \in Nat \ {0} /\ v \in Slots /\ L \in Nat /\ Size \in Nat
      /\ \A k \in 1 .. Depth - 1 : selectStack[k] \in Slots
  BY RegsAssumption, SimplifyFacts DEF ColorInv, ColorTypes, Depth
<1>2. \A u \in Below : reg[u] = NoReg
  BY <1>1 DEF ColorInv, ColorPlaced, OnStack
<1>3. \A c \in 1 .. L : availableFPRs[c] # NoReg
  BY RegsAssumption
<1>4. \A c \in 1 .. L : \E u \in N : reg[u] = availableFPRs[c]
  BY <1>2, <1>3, NoFreeColor
<1>5. \A c \in 1 .. L : h[c] \in N /\ reg[h[c]] = availableFPRs[c]
  BY <1>4
<1>6. h \in Injection(1 .. L, N)
  <2>1. h \in [1 .. L -> N]
    BY <1>5
  <2>2. \A a, b \in 1 .. L : h[a] = h[b] => a = b
    <3>1. \A a, b \in 1 .. L : h[a] = h[b] => availableFPRs[a] = availableFPRs[b]
      BY <1>5
    <3>2. DOMAIN availableFPRs = 1 .. L
      BY RegsAssumption
    <3> QED
      BY <3>1, <3>2 DEF PoolsSuffice
  <2> HIDE DEF h, N
  <2> QED
    BY <2>1, <2>2, Zenon DEF Injection, IsInjective
<1>7. IsFiniteSet(N)
  <2>1. N \in SUBSET Slots
    BY <1>1, SimplifyFacts
  <2>2. IsFiniteSet(Slots)
    BY <1>1, FS_Interval DEF Slots
  <2> HIDE DEF N
  <2> QED
    BY <2>1, <2>2, FS_Subset
<1>8. Cardinality(1 .. L) = L
  <2> HIDE DEF L
  <2>1. Cardinality(1 .. L) = IF 1 > L THEN 0 ELSE L - 1 + 1
    BY <1>1, FS_Interval
  <2> QED
    BY <1>1, <2>1
<1>9. L <= Cardinality(N)
  <2> HIDE DEF h, N
  <2> QED
    BY <1>6, <1>7, <1>8, FS_Injection
<1>10. Cardinality(N) < Coloring!kLimit(v)
  BY DEF RemovedLow
<1>11. Coloring!kLimit(v) <= L /\ Coloring!kLimit(v) \in Nat
  BY RegsAssumption DEF Coloring!kLimit, PoolsSuffice
<1>12. Cardinality(N) \in Nat
  <2> HIDE DEF N
  <2> QED
    BY <1>7, FS_CardinalityType
<1> HIDE DEF N, L, v
<1> QED
  BY <1>1, <1>9, <1>10, <1>11, <1>12

\* What lies below a place of the stack does not change when nodes are pushed
\* or popped above it.
LEMMA RemovedLowStays ==
    ASSUME NEW k \in Nat, UNCHANGED <<intervals, neighbors>>,
           \A i \in 1 .. k : selectStack'[i] = selectStack[i], k # 0
    PROVE  RemovedLow(k)' <=> RemovedLow(k)
<1>1. selectStack'[k] = selectStack[k]
  OBVIOUS
<1>2. \A i \in 1 .. k - 1 : selectStack'[i] = selectStack[i]
  OBVIOUS
<1>3. {selectStack[i] : i \in 1 .. k - 1}' = {selectStack[i] : i \in 1 .. k - 1}
  BY <1>2
<1> QED
  BY <1>1, <1>3, Zenon DEF RemovedLow, Coloring!kLimit

LEMMA DoubtNext ==
    ASSUME ListOK, ColorInv, DoubtInv, PoolsSuffice, Coloring!Next
    PROVE  DoubtInv'
<1>0. Depth \in Nat /\ ColorInv' /\ intervals' = intervals /\ Slots' = Slots
  BY SimplifyFacts, ColorNext DEF Slots, Size
<1>1. CASE Coloring!Simplify
  <2>1. PICK v \in Coloring!Remaining :
            /\ Coloring!PushNode(v) /\ doubtful \subseteq doubtful'
            /\ doubtful' \in {doubtful, doubtful \cup {v}}
            /\ v \in Coloring!Low \/ v \in doubtful'
    BY <1>1 DEF Coloring!Simplify, Coloring!Low
  <2>2. phase = "simplify" /\ phase' = phase /\ v \in Slots
    BY <1>1, SimplifyFacts DEF Coloring!Simplify
  <2>3. doubtful' \subseteq Slots
    BY <2>1, <2>2 DEF ColorInv, ColorTypes
  <2>4. /\ Depth' = Depth + 1 /\ selectStack'[Depth + 1] = v
        /\ \A k \in 1 .. Depth : selectStack'[k] = selectStack[k]
        /\ UNCHANGED <<intervals, neighbors, slot>>
    BY <2>1, <2>2, <2>3, PushKeeps DEF Coloring!PushNode
  <2>5. ASSUME NEW k \in 1 .. Depth
        PROVE  selectStack'[k] \in doubtful' \/ RemovedLow(k)'
    <3>1. k \in Nat /\ k # 0 /\ \A i \in 1 .. k : selectStack'[i] = selectStack[i]
      BY <1>0, <2>4
    <3> QED
      BY <2>1, <2>4, <3>1, RemovedLowStays DEF DoubtInv
  <2>6. ASSUME NEW k \in Nat, k = Depth + 1, v \in Coloring!Low
        PROVE  RemovedLow(k)'
    <3>2. Cardinality(neighbors[v] \cap Coloring!Remaining) < Coloring!kLimit(v)
      BY <2>6, SameCardinality DEF Coloring!Low, Coloring!Degree
    <3>3. \A u \in Slots : u \in Coloring!Remaining <=> u \notin {selectStack[i] : i \in 1 .. Depth}
      BY SimplifyFacts DEF OnStack
    <3>4. neighbors[v] \cap Coloring!Remaining = neighbors[v] \ {selectStack[i] : i \in 1 .. Depth}
      BY <2>2, <3>3, SimplifyFacts
    <3>5. k - 1 = Depth
      BY <1>0, <2>6
    <3>6. {selectStack'[i] : i \in 1 .. k - 1} = {selectStack[i] : i \in 1 .. Depth}
      BY <2>4, <3>5
    <3>7. \A u : Coloring!kLimit(u)' = Coloring!kLimit(u)
      BY <2>4 DEF Coloring!kLimit
    <3> QED
      BY <2>4, <2>6, <3>2, <3>4, <3>6, <3>7 DEF RemovedLow
  <2>7. 1 .. Depth' = (1 .. Depth) \cup {Depth + 1}
    BY <1>0, <2>4
  <2>8. \A k \in 1 .. Depth' : selectStack'[k] \in doubtful' \/ RemovedLow(k)'
    BY <1>0, <2>1, <2>4, <2>5, <2>6, <2>7
  <2> QED
    BY <1>0, <2>1, <2>4, <2>8 DEF DoubtInv
<1>2. CASE Coloring!EndSimplify
  <2>1. UNCHANGED <<intervals, neighbors, selectStack, slot, doubtful>>
    BY <1>2 DEF Coloring!EndSimplify
  <2>2. \A k \in 1 .. Depth : RemovedLow(k)' <=> RemovedLow(k)
    BY <2>1 DEF RemovedLow, Coloring!kLimit
  <2> QED
    BY <1>0, <2>1, <2>2 DEF DoubtInv, Depth
<1>3. CASE Coloring!Select
  <2>1. /\ phase = "select" /\ selectStack # <<>> /\ selectStack' = Front(selectStack)
        /\ UNCHANGED <<intervals, neighbors, doubtful>>
    BY <1>3 DEF Coloring!Select, Coloring!Front, Front
  <2> DEFINE v == selectStack[Depth]
  <2>2. /\ Depth \in Nat \ {0} /\ v \in Slots /\ Depth' = Depth - 1 /\ Last(selectStack) = v
        /\ \A k \in 1 .. Depth - 1 : selectStack'[k] = selectStack[k]
    BY <2>1, PopFacts
  <2>3. ASSUME NEW k \in 1 .. Depth'
        PROVE  selectStack'[k] \in doubtful' \/ RemovedLow(k)'
    <3>1. /\ k \in 1 .. Depth /\ k # 0 /\ k \in Nat
          /\ \A i \in 1 .. k : selectStack'[i] = selectStack[i]
      BY <2>2
    <3> QED
      BY <2>1, <3>1, RemovedLowStays DEF DoubtInv
  <2>4. \A u \in Slots : slot'[u] # 0 => u \in doubtful
    <3>1. CASE Coloring!FirstFree(v) # {}
      <4>1. slot' = slot
        BY <1>3, <2>2, <3>1 DEF Coloring!Select, Coloring!Last, Last, Coloring!ColorNode
      <4> QED
        BY <4>1 DEF DoubtInv
    <3>2. CASE Coloring!FirstFree(v) = {}
      <4>1. slot' = [slot EXCEPT ![v] = currentSpillOffset - 8]
        BY <1>3, <2>2, <3>2 DEF Coloring!Select, Coloring!Last, Last, Coloring!SpillNode,
                                Coloring!SpillOffset
      <4>2. ~RemovedLow(Depth)
        BY <2>1, <3>2, RemovedLowGetsColor
      <4>3. v \in doubtful
        BY <2>2, <4>2 DEF DoubtInv
      <4>4. \A u \in Slots : u # v => slot'[u] = slot[u]
        BY <4>1 DEF ColorInv, ColorTypes
      <4> QED
        BY <4>3, <4>4 DEF DoubtInv
    <3> QED
      BY <3>1, <3>2
  <2> QED
    BY <1>0, <2>1, <2>3, <2>4 DEF DoubtInv
<1> QED
  BY <1>1, <1>2, <1>3 DEF Coloring!Next

(***************************************************************************)
(* The liveness analysis.                                                  *)
(***************************************************************************)
\* v is a parameter or occurs in one of the first k instructions.
MentionedBy(v, k) == v \in func.params \/ \E q \in 1 .. k : v \in Mentioned(func.code[q])

PointTypes ==
    /\ func \in Functions0
    /\ instructionIndex \in Points
    /\ defPoints \in [Var -> (0 .. instructionIndex) \cup {None}]
    /\ lastUsePoints \in [Var -> (0 .. instructionIndex) \cup {None}]

\* The variables recorded are those mentioned so far, and no read comes after
\* the last use recorded.
LivenessInv ==
    /\ PointTypes
    /\ \A v \in Var : defPoints[v] # None <=> MentionedBy(v, instructionIndex)
    /\ \A v \in Var : lastUsePoints[v] # None <=> MentionedBy(v, instructionIndex)
    /\ \A v \in Var : \A q \in 1 .. instructionIndex :
          v \in Reads(q) => lastUsePoints[v] # None /\ q <= lastUsePoints[v]

LEMMA FunctionFacts ==
    ASSUME LivenessInv
    PROVE  /\ func.code \in Seq(Instruction) /\ func.params \subseteq Var
           /\ Len(func.code) \in Nat /\ func.jumps \subseteq Points \X Points
           /\ instructionIndex \in Nat /\ instructionIndex <= Len(func.code)
           /\ \A q \in 1 .. Len(func.code) : func.code[q] \in Instruction
<1>1. func \in Functions0 /\ instructionIndex \in Points
  BY DEF LivenessInv, PointTypes
<1>2. /\ func.code \in Seq(Instruction) /\ func.params \subseteq Var
      /\ func.jumps \subseteq Points \X Points
  BY <1>1, FunctionsAssumption DEF Points
<1> QED
  BY <1>1, <1>2 DEF Points

LEMMA InitLiveness ==
    ASSUME Init PROVE LivenessInv
<1>1. func \in Functions0 /\ instructionIndex = 0
  BY DEF Init
<1>2. Len(func.code) \in Nat
  BY <1>1, FunctionsAssumption
<1>3. PointTypes
  BY <1>1, <1>2 DEF Init, PointTypes, Points
<1>4. \A v \in Var : MentionedBy(v, instructionIndex) <=> v \in func.params
  BY <1>1 DEF MentionedBy
<1>5. \A v \in Var : /\ defPoints[v] # None <=> v \in func.params
                     /\ lastUsePoints[v] # None <=> v \in func.params
  BY VarAssumption DEF Init
<1> QED
  BY <1>1, <1>3, <1>4, <1>5 DEF LivenessInv

LEMMA ScanKeepsLiveness ==
    ASSUME LivenessInv, Scan PROVE LivenessInv'
<1> DEFINE i == instructionIndex + 1
           inst == func.code[i]
<1>1. /\ instructionIndex < Len(func.code) /\ instructionIndex' = i /\ func' = func
      /\ defPoints' = [v \in Var |-> IF v \in Mentioned(inst) /\ defPoints[v] = None
                                       THEN i ELSE defPoints[v]]
      /\ lastUsePoints' = [v \in Var |-> IF v \in inst.operands
                                            \/ (v = inst.result /\ lastUsePoints[v] = None)
                                           THEN i ELSE lastUsePoints[v]]
  BY DEF Scan
<1>2. /\ instructionIndex \in Nat /\ Len(func.code) \in Nat /\ i \in 1 .. Len(func.code)
      /\ inst \in Instruction
  BY <1>1, FunctionFacts
<1>3. 1 .. i = (1 .. instructionIndex) \cup {i}
  BY <1>2
<1>4. \A v : MentionedBy(v, instructionIndex)' <=>
              MentionedBy(v, instructionIndex) \/ v \in Mentioned(inst)
  BY <1>1, <1>3 DEF MentionedBy, Mentioned
<1>5. \A v \in Var : v \in Mentioned(inst) <=> v \in inst.operands \/ v = inst.result
  BY VarAssumption DEF Mentioned
<1>6. /\ defPoints \in [Var -> (0 .. instructionIndex) \cup {None}]
      /\ lastUsePoints \in [Var -> (0 .. instructionIndex) \cup {None}]
  BY DEF LivenessInv, PointTypes
<1>7. i # None /\ i \in Nat
  BY <1>2, VarAssumption
<1> HIDE DEF i, inst
<1>8. \A x : x \in (0 .. instructionIndex) \cup {None} => x \in (0 .. i) \cup {None}
  BY <1>2 DEF i
<1>9. PointTypes'
  <2>1. defPoints' \in [Var -> (0 .. i) \cup {None}]
    BY <1>1, <1>6, <1>7, <1>8
  <2>2. lastUsePoints' \in [Var -> (0 .. i) \cup {None}]
    BY <1>1, <1>6, <1>7, <1>8
  <2> QED
    BY <1>1, <1>2, <2>1, <2>2 DEF LivenessInv, PointTypes, Points
<1>10. \A v \in Var : defPoints'[v] # None <=> MentionedBy(v, instructionIndex)'
  BY <1>1, <1>4, <1>7 DEF LivenessInv
<1>11. \A v \in Var : lastUsePoints'[v] # None <=> MentionedBy(v, instructionIndex)'
  BY <1>1, <1>4, <1>5, <1>7 DEF LivenessInv
<1>12. ASSUME NEW v \in Var, NEW q \in 1 .. instructionIndex', v \in Reads(q)'
       PROVE  lastUsePoints'[v] # None /\ q <= lastUsePoints'[v]
  <2>1. v \in func.code[q].operands
    BY <1>1, <1>12 DEF Reads
  <2>2. q \in Nat /\ q <= i
    BY <1>1, <1>2 DEF i
  <2>3. CASE v \in inst.operands
    BY <1>1, <1>7, <2>2, <2>3
  <2>4. CASE v \notin inst.operands
    <3>1. q # i
      BY <2>1, <2>4 DEF inst
    <3>2. q \in 1 .. instructionIndex
      BY <1>1, <1>3, <3>1
    <3>3. lastUsePoints[v] # None /\ q <= lastUsePoints[v]
      BY <2>1, <3>2 DEF LivenessInv, Reads
    <3>4. lastUsePoints'[v] = lastUsePoints[v]
      BY <1>1, <2>4, <3>3
    <3> QED
      BY <3>3, <3>4
  <2> QED
    BY <2>3, <2>4
<1> QED
  BY <1>9, <1>10, <1>11, <1>12 DEF LivenessInv

\* No branch goes back: the functions of one layout-order pass.
ForwardBranches == \A f \in Functions0 : \A e \in f.jumps : e[1] < e[2]

\* Along forward branches, what is live at a point is read at a later one.  By
\* induction on the number of steps a path has.
LEMMA LiveIsReadLater ==
    ASSUME LivenessInv, ForwardBranches, NEW v \in Var, NEW p \in Points, LiveAfter(v, p)
    PROVE  \E q \in Points : p < q /\ v \in Reads(q)
<1> DEFINE S == SUBSET Points
           step == [R \in S |-> R \cup UNION {Succ(q) : q \in {r \in R : v \notin Reads(r) \cup Writes(r)}}]
           Body(f) == [k \in Nat |->
               IF k = 0 THEN Succ(p)
               ELSE f[k - 1] \cup
                    UNION {Succ(q) : q \in {r \in f[k - 1] : v \notin Reads(r) \cup Writes(r)}}]
           reach == CHOOSE f : f = Body(f)
<1>1. step \in [S -> S] /\ Succ(p) \in S
  BY DEF Succ
<1>2. PICK f : IsIteration(f, S, Succ(p), step)
  <2> HIDE DEF S, step
  <2> QED
    BY <1>1, RecursionExists
<1>3. f \in [Nat -> S] /\ f[0] = Succ(p) /\ \A k \in Nat : f[k + 1] = step[f[k]]
  BY <1>2 DEF IsIteration
<1>4. ASSUME NEW k \in Nat
      PROVE  f[k] = Body(f)[k]
  <2>1. CASE k = 0
    BY <1>3, <2>1
  <2>2. CASE k # 0
    <3>1. k - 1 \in Nat /\ (k - 1) + 1 = k
      BY <2>2
    <3>2. f[k] = step[f[k - 1]] /\ f[k - 1] \in S
      BY <1>3, <3>1
    <3> QED
      BY <2>2, <3>1, <3>2
  <2> QED
    BY <2>1, <2>2
<1>5. f = Body(f)
  BY <1>3, <1>4, Zenon
<1>6. reach = Body(reach)
  <2> HIDE DEF Body
  <2> QED
    BY <1>5, Zenon
<1>7. /\ reach[0] = Succ(p)
      /\ \A k \in Nat : reach[k + 1] = reach[k] \cup
             UNION {Succ(q) : q \in {r \in reach[k] : v \notin Reads(r) \cup Writes(r)}}
  <2> HIDE DEF reach
  <2>1. reach[0] = Body(reach)[0] /\ \A k \in Nat : reach[k + 1] = Body(reach)[k + 1]
    BY <1>6
  <2>2. ASSUME NEW k \in Nat
        PROVE  k + 1 \in Nat /\ k + 1 # 0 /\ (k + 1) - 1 = k
    OBVIOUS
  <2>3. ASSUME NEW k \in Nat
        PROVE  Body(reach)[k + 1] = reach[k] \cup
                 UNION {Succ(q) : q \in {r \in reach[k] : v \notin Reads(r) \cup Writes(r)}}
    BY <2>2
  <2> QED
    BY <2>1, <2>3
<1>8. \E q \in reach[Len(func.code)] : v \in Reads(q)
  BY DEF LiveAfter
<1> HIDE DEF reach, Body
<1>9. ASSUME NEW a \in Points, NEW b \in Succ(a)
      PROVE  b \in Points /\ a < b
  <2>1. b \in Points /\ (b = a + 1 \/ <<a, b>> \in func.jumps) /\ a \in Nat
    BY FunctionFacts DEF Succ, Points
  <2>2. func \in Functions0
    BY DEF LivenessInv, PointTypes
  <2>3. ASSUME <<a, b>> \in func.jumps PROVE a < b
    <3>1. <<a, b>>[1] < <<a, b>>[2]
      BY <2>2, <2>3 DEF ForwardBranches
    <3> QED
      BY <3>1
  <2> QED
    BY <2>1, <2>3
<1> DEFINE G == {k \in Nat : \A q \in reach[k] : q \in Points /\ p < q}
<1>10. 0 \in G
  BY <1>7, <1>9
<1>11. ASSUME NEW k \in Nat, k \in G
       PROVE  k + 1 \in G
  <2>1. ASSUME NEW q \in reach[k + 1]
        PROVE  q \in Points /\ p < q
    <3>1. q \in reach[k] \/ \E r \in reach[k] : q \in Succ(r)
      BY <1>7
    <3>2. CASE q \in reach[k]
      BY <1>11, <3>2
    <3>3. CASE \E r \in reach[k] : q \in Succ(r)
      <4>1. PICK r \in reach[k] : q \in Succ(r)
        BY <3>3
      <4>2. r \in Points /\ p < r
        BY <1>11
      <4>3. q \in Points /\ r < q
        BY <1>9, <4>1, <4>2
      <4> QED
        BY <4>2, <4>3, FunctionFacts DEF Points
    <3> QED
      BY <3>1, <3>2, <3>3
  <2> QED
    BY <2>1
<1>12. \A k \in Nat : k \in G
  <2> HIDE DEF G
  <2> QED
    BY <1>10, <1>11, SetInduction
<1> QED
  BY <1>8, <1>12, FunctionFacts

\* Once the pass is over the interval of a variable reaches every point after
\* which it is still read.
LEMMA CoverFromInv ==
    ASSUME LivenessInv, ForwardBranches
    PROVE  IntervalsCoverLiveness
<1>1. TypeOK
  BY FunctionFacts DEF TypeOK, LivenessInv, PointTypes
<1>2. ASSUME Done, NEW v \in Var, NEW p \in Points, LiveAfter(v, p)
      PROVE  contains(Interval(v), p) \/ p < Interval(v).start
  <2>1. PICK q \in Points : p < q /\ v \in Reads(q)
    BY <1>2, LiveIsReadLater
  <2>2. q \in 1 .. instructionIndex /\ p \in Nat /\ q \in Nat
    BY <1>2, <2>1, FunctionFacts DEF Done, Points
  <2>3. lastUsePoints[v] # None /\ q <= lastUsePoints[v] /\ defPoints[v] # None
    BY <2>1, <2>2 DEF LivenessInv
  <2>4. lastUsePoints[v] \in Nat /\ defPoints[v] \in Nat
    BY <2>3 DEF LivenessInv, PointTypes
  <2> QED
    BY <2>1, <2>2, <2>3, <2>4 DEF contains, Interval, Larger
<1> QED
  BY <1>1, <1>2 DEF IntervalsCoverLiveness

(***************************************************************************)
(* The list of intervals that allocate is called with.                     *)
(***************************************************************************)
Recorded == {v \in Var : defPoints[v] # None}

\* The list holds the intervals of the variables recorded.
ListIsAnalysis ==
    /\ \A i \in Slots :
          /\ intervals[i].var \in Recorded
          /\ Start(i) = Interval(intervals[i].var).start
          /\ Stop(i) = Interval(intervals[i].var).end
    /\ \A v \in Recorded : \E i \in Slots : intervals[i].var = v

\* An order of the recorded variables is a sequence that misses none.
LEMMA OrderFacts ==
    ASSUME NEW order \in SetToSeqs(Recorded)
    PROVE  /\ order \in Seq(Recorded)
           /\ \A v \in Recorded : \E i \in DOMAIN order : order[i] = v
<1> DEFINE D == 1 .. Cardinality(Recorded)
<1>1. IsFiniteSet(Recorded)
  <2>1. Recorded \in SUBSET Var
    BY DEF Recorded
  <2> QED
    BY <2>1, VarAssumption, FS_Subset
<1>2. Cardinality(Recorded) \in Nat
  BY <1>1, FS_CardinalityType
<1>3. order \in [D -> Recorded] /\ \A i, j \in D : i # j => order[i] # order[j]
  BY DEF SetToSeqs
<1>4. order \in Seq(Recorded)
  BY <1>2, <1>3
<1>5. Cardinality(D) = Cardinality(Recorded)
  <2>1. Cardinality(D) = IF 1 > Cardinality(Recorded) THEN 0 ELSE Cardinality(Recorded) - 1 + 1
    BY <1>2, FS_Interval
  <2> HIDE DEF D
  <2> QED
    BY <1>2, <2>1
<1> HIDE DEF D
<1>6. order \in Injection(D, Recorded)
  BY <1>3, Zenon DEF Injection, IsInjective
<1>7. order \in Surjection(D, Recorded)
  BY <1>1, <1>5, <1>6, FS_Injection
<1>8. \A v \in Recorded : \E i \in D : order[i] = v
  BY <1>7 DEF Surjection
<1>9. DOMAIN order = D
  BY <1>3
<1> QED
  BY <1>4, <1>8, <1>9

LEMMA ListFacts ==
    ASSUME LivenessInv, NEW order \in SetToSeqs(Recorded), Sorted(order),
           intervals' = Listed(order), UNCHANGED vars
    PROVE  /\ ListOK' /\ ListIsAnalysis' /\ Slots' = DOMAIN order /\ DOMAIN Listed(order) = Slots'
           /\ \A i \in Slots' : intervals'[i].float = (order[i] \in func.float) /\ order[i] \in Var
<1> DEFINE D == DOMAIN order
<1>1. order \in Seq(Recorded) /\ \A v \in Recorded : \E i \in D : order[i] = v
  BY OrderFacts
<1>2. D = 1 .. Len(order) /\ Len(order) \in Nat /\ \A i \in D : order[i] \in Recorded
  BY <1>1
<1>3. \A v \in Recorded : /\ v \in Var /\ defPoints[v] \in Nat
                          /\ lastUsePoints[v] \in Nat \cup {None}
  BY DEF Recorded, LivenessInv, PointTypes
<1>4. \A v \in Recorded : /\ Interval(v).start = defPoints[v] /\ Interval(v).start \in Nat
                          /\ Interval(v).end \in Nat /\ Interval(v).start <= Interval(v).end
  BY <1>3 DEF Interval, Larger
<1>5. /\ UNCHANGED <<func, defPoints, lastUsePoints>>
      /\ \A v : Interval(v)' = Interval(v)
      /\ Recorded' = Recorded
  BY DEF vars, Interval, Recorded
<1>6. DOMAIN intervals' = D
      /\ \A i \in D : intervals'[i] =
           [var |-> order[i], start |-> Interval(order[i]).start, end |-> Interval(order[i]).end,
            float |-> order[i] \in func.float]
  BY DEF Listed
<1>7. \A i \in D : intervals'[i] \in IntervalSet
  <2> SUFFICES ASSUME NEW i \in D PROVE intervals'[i] \in IntervalSet
    OBVIOUS
  <2>2. (order[i] \in func.float) \in BOOLEAN
    OBVIOUS
  <2>3. /\ order[i] \in Var /\ Interval(order[i]).start \in Nat
        /\ Interval(order[i]).end \in Nat
    BY <1>2, <1>3, <1>4
  <2> DEFINE a == order[i]
             fl == order[i] \in func.float
             b == Interval(order[i]).start
             c == Interval(order[i]).end
  <2>4. intervals'[i] = [var |-> a, start |-> b, end |-> c, float |-> fl]
    BY <1>6
  <2>5. a \in Var /\ b \in Nat /\ c \in Nat /\ fl \in BOOLEAN
    BY <2>2, <2>3
  <2> HIDE DEF a, b, c, fl
  <2> QED
    BY <2>4, <2>5 DEF IntervalSet
<1>8. intervals' \in Seq(IntervalSet) /\ Slots' = D
  <2>1. intervals' \in [1 .. Len(order) -> IntervalSet]
    BY <1>2, <1>6, <1>7 DEF Listed
  <2>2. intervals' \in Seq(IntervalSet) /\ Len(intervals') = Len(order)
    BY <1>2, <2>1
  <2> QED
    BY <1>2, <2>2 DEF Slots, Size
<1>9. \A i \in D : /\ Start(i)' = Interval(order[i]).start /\ Stop(i)' = Interval(order[i]).end
                   /\ intervals'[i].var = order[i]
                   /\ intervals'[i].float = (order[i] \in func.float)
  BY <1>6 DEF Start, Stop
<1>10. ListOK'
  <2>1. \A i \in D : Start(i)' <= Stop(i)'
    BY <1>2, <1>4, <1>9
  <2>2. \A i, j \in D : i < j => Start(i)' <= Start(j)'
    BY <1>2, <1>4, <1>9 DEF Sorted
  <2> QED
    BY <1>8, <2>1, <2>2 DEF ListOK
<1>11. ListIsAnalysis'
  <2>1. ASSUME NEW i \in D
        PROVE  /\ intervals'[i].var \in Recorded'
               /\ Start(i)' = Interval(intervals'[i].var).start
               /\ Stop(i)' = Interval(intervals'[i].var).end
    BY <1>2, <1>5, <1>9
  <2>2. \A v \in Recorded' : \E i \in D : intervals'[i].var = v
    BY <1>1, <1>5, <1>9
  <2> QED
    BY <1>5, <1>8, <2>1, <2>2 DEF ListIsAnalysis
<1> QED
  BY <1>2, <1>3, <1>6, <1>8, <1>9, <1>10, <1>11

LEMMA BeginScan ==
    ASSUME LivenessInv, NEW order \in SetToSeqs(Recorded), Sorted(order),
           LinearScan!Begin(Listed(order)), UNCHANGED vars
    PROVE  ListOK' /\ ListIsAnalysis' /\ ScanInv' /\ SpillsExplained' /\ CrossedMixed'
<1>1. /\ intervals' = Listed(order) /\ n' = 0 /\ active' = {} /\ currentSpillOffset' = 0
      /\ crossed' = FALSE /\ freeGPRs' = ToSet(availableGPRs) /\ freeFPRs' = ToSet(availableFPRs)
      /\ reg' = [i \in DOMAIN Listed(order) |-> NoReg]
      /\ slot' = [i \in DOMAIN Listed(order) |-> 0]
  BY DEF LinearScan!Begin
<1>2. ListOK' /\ ListIsAnalysis' /\ DOMAIN Listed(order) = Slots'
  BY <1>1, ListFacts
<1>4. Size' \in Nat
  BY <1>2 DEF ListOK, Size
<1>5. /\ reg' \in [Slots' -> AllRegs \cup {NoReg}] /\ slot' \in [Slots' -> Int]
      /\ \A i \in Slots' : reg'[i] = NoReg /\ slot'[i] = 0
  BY <1>1, <1>2
<1>6. ScanTypes'
  <2>1. n' \in 0 .. Size' /\ active' \subseteq 1 .. n' /\ currentSpillOffset' \in Int
    BY <1>1, <1>4
  <2>2. freeGPRs' \subseteq AllRegs /\ freeFPRs' \subseteq AllRegs
    BY <1>1 DEF AllRegs
  <2>3. crossed' \in BOOLEAN
    BY <1>1
  <2> QED
    BY <1>5, <2>1, <2>2, <2>3 DEF ScanTypes, AllRegs
<1>7. ActiveHold' /\ OneHolder' /\ Over' /\ Apart' /\ SlotsApart' /\ ScanPlaced'
  BY <1>1, <1>5 DEF ActiveHold, OneHolder, Over, Apart, SlotsApart, ScanPlaced
<1>8. Conserved'
  <2>1. \A fl \in Classes : Held(fl)' = {}
    BY <1>1 DEF Held, OfClass
  <2>2. \A fl \in Classes : Free(fl)' = Class(fl)
    BY <1>1 DEF Free, Class, Classes
  <2>3. Classes' = Classes /\ \A fl \in Classes : Class(fl)' = Class(fl)
    BY DEF Class, Classes
  <2> QED
    BY <2>1, <2>2, <2>3 DEF Conserved
<1>9. SpillsExplained' /\ CrossedMixed'
  BY <1>1, <1>5 DEF SpillsExplained, CrossedMixed
<1> QED
  BY <1>2, <1>6, <1>7, <1>8, <1>9 DEF ScanInv, ScanBase, ClassesApart

LEMMA BeginColoring ==
    ASSUME LivenessInv, NEW order \in SetToSeqs(Recorded), Sorted(order),
           Coloring!Begin(Listed(order)), UNCHANGED vars
    PROVE  ListOK' /\ ListIsAnalysis' /\ ColorInv' /\ DoubtInv'
<1>1. /\ intervals' = Listed(order) /\ selectStack' = <<>> /\ phase' = "simplify"
      /\ currentSpillOffset' = 0 /\ doubtful' = {}
      /\ reg' = [i \in DOMAIN Listed(order) |-> NoReg]
      /\ slot' = [i \in DOMAIN Listed(order) |-> 0]
      /\ neighbors' = [v \in DOMAIN Listed(order) |->
             {u \in DOMAIN Listed(order) \ {v} :
                Coloring!overlaps(Listed(order)[u], Listed(order)[v])}]
  BY DEF Coloring!Begin
<1>2. ListOK' /\ ListIsAnalysis' /\ DOMAIN Listed(order) = Slots'
  BY <1>1, ListFacts
<1>3. /\ reg' \in [Slots' -> AllRegs \cup {NoReg}] /\ slot' \in [Slots' -> Int]
      /\ \A i \in Slots' : reg'[i] = NoReg /\ slot'[i] = 0
  BY <1>1, <1>2
<1>4. \A v : Overlapping(v)' = {u \in Slots' \ {v} : Coloring!overlaps(intervals'[u], intervals'[v])}
  BY DEF Overlapping, Coloring!overlaps
<1>5. neighbors' = [v \in Slots' |-> Overlapping(v)']
  BY <1>1, <1>2, <1>4
<1>6. Depth' = 0 /\ selectStack' \in Seq(Slots')
  BY <1>1 DEF Depth
<1>7. ColorTypes'
  BY <1>1, <1>3, <1>5, <1>6 DEF ColorTypes, AllRegs
<1>8. ColorPlaced' /\ Proper' /\ SlotsApart'
  BY <1>1, <1>3 DEF ColorPlaced, Proper, SlotsApart
<1>9. DoubtInv'
  BY <1>3, <1>6 DEF DoubtInv
<1> QED
  BY <1>2, <1>7, <1>8, <1>9 DEF ColorInv

(***************************************************************************)
(* allocateFunction.                                                       *)
(***************************************************************************)
\* The inductive invariant: until allocate is called there are no intervals;
\* from then on they are those of the analysis, and the allocator's own
\* invariant holds.
AllocInv ==
    /\ LivenessInv
    /\ strategy \in {"LinearScan", "GraphColoring"}
    /\ stage \in {"liveness", "allocate"}
    /\ stage = "liveness" => intervals = <<>>
    /\ stage = "allocate" => Done /\ ListOK /\ ListIsAnalysis
    /\ stage = "allocate" /\ strategy = "LinearScan" => ScanInv /\ SpillsExplained /\ CrossedMixed
    /\ stage = "allocate" /\ strategy = "GraphColoring" => ColorInv

DoubtAllocInv == stage = "allocate" /\ strategy = "GraphColoring" => DoubtInv

LEMMA AllocInitInv ==
    ASSUME AllocInit PROVE AllocInv /\ DoubtAllocInv
<1>1. LivenessInv
  BY InitLiveness DEF AllocInit
<1> QED
  BY <1>1 DEF AllocInit, AllocInv, DoubtAllocInv

\* Steps that leave the analysis and the list alone keep what is said of them.
LEMMA ListStays ==
    ASSUME AllocInv, stage = "allocate", UNCHANGED <<vars, intervals, stage, strategy>>
    PROVE  LivenessInv' /\ Done' /\ ListOK' /\ ListIsAnalysis'
<1>1. UNCHANGED <<func, instructionIndex, defPoints, lastUsePoints, intervals>>
  BY DEF vars
<1>2. LivenessInv'
  BY <1>1 DEF AllocInv, LivenessInv, PointTypes, Points, MentionedBy, Mentioned, Reads
<1>3. Done'
  BY <1>1 DEF AllocInv, Done
<1>4. /\ \A i : Start(i)' = Start(i) /\ Stop(i)' = Stop(i)
      /\ Slots' = Slots /\ Recorded' = Recorded /\ \A v : Interval(v)' = Interval(v)
  BY <1>1 DEF Start, Stop, Slots, Size, Recorded, Interval
<1>5. ListOK'
  BY <1>1, <1>4 DEF AllocInv, ListOK
<1>6. ListIsAnalysis'
  BY <1>1, <1>4 DEF AllocInv, ListIsAnalysis
<1> QED
  BY <1>2, <1>3, <1>5, <1>6

LEMMA AllocNextInv ==
    ASSUME AllocInv, AllocNext PROVE AllocInv'
<1>1. CASE Analyze
  <2>1. LivenessInv'
    BY <1>1, ScanKeepsLiveness DEF AllocInv, Analyze
  <2>2. func' = func /\ stage = "liveness"
        /\ UNCHANGED <<strategy, stage, intervals>>
    BY <1>1 DEF Analyze, Scan
  <2> QED
    BY <2>1, <2>2 DEF AllocInv
<1>2. CASE Allocate
  <2>1. PICK order \in SetToSeqs(Recorded) :
          /\ Sorted(order)
          /\ IF strategy = "GraphColoring"
               THEN Coloring!Begin(Listed(order)) ELSE LinearScan!Begin(Listed(order))
    BY <1>2 DEF Allocate, Recorded
  <2>2. /\ stage = "liveness" /\ Done /\ stage' = "allocate" /\ UNCHANGED vars
        /\ UNCHANGED strategy
    BY <1>2 DEF Allocate, livenessVars
  <2>3. UNCHANGED <<func, instructionIndex, defPoints, lastUsePoints>>
    BY <2>2 DEF vars
  <2>4. LivenessInv' /\ Done'
    BY <2>2, <2>3 DEF AllocInv, LivenessInv, PointTypes, Points, MentionedBy, Mentioned, Reads, Done
  <2>5. CASE strategy = "GraphColoring"
    <3>1. ListOK' /\ ListIsAnalysis' /\ ColorInv'
      BY <2>1, <2>2, <2>5, BeginColoring DEF AllocInv
    <3> QED
      BY <2>2, <2>4, <2>5, <3>1 DEF AllocInv
  <2>6. CASE strategy = "LinearScan"
    <3>1. ListOK' /\ ListIsAnalysis' /\ ScanInv' /\ SpillsExplained' /\ CrossedMixed'
      BY <2>1, <2>2, <2>6, BeginScan DEF AllocInv
    <3> QED
      BY <2>2, <2>4, <2>6, <3>1 DEF AllocInv
  <2> QED
    BY <2>5, <2>6 DEF AllocInv
<1>3. CASE Scanning
  <2>1. /\ stage = "allocate" /\ strategy = "LinearScan" /\ LinearScan!AllocateNext
        /\ UNCHANGED <<vars, strategy, stage, intervals>>
    BY <1>3 DEF Scanning, livenessVars, LinearScan!AllocateNext
  <2>2. ScanInv' /\ SpillsExplained' /\ CrossedMixed'
    BY <2>1, ScanNext DEF AllocInv
  <2> QED
    BY <2>1, <2>2, ListStays DEF AllocInv
<1>4. CASE Colour
  <2>1. /\ stage = "allocate" /\ strategy = "GraphColoring" /\ Coloring!Next
        /\ UNCHANGED <<vars, strategy, stage>>
    BY <1>4 DEF Colour, livenessVars
  <2>2. ColorInv' /\ UNCHANGED intervals
    BY <2>1, ColorNext DEF AllocInv
  <2> QED
    BY <2>1, <2>2, ListStays DEF AllocInv
<1> QED
  BY <1>1, <1>2, <1>3, <1>4 DEF AllocNext

LEMMA DoubtAllocNext ==
    ASSUME AllocInv, DoubtAllocInv, PoolsSuffice, AllocNext PROVE DoubtAllocInv'
<1>1. CASE Analyze
  BY <1>1 DEF Analyze, DoubtAllocInv
<1>2. CASE Allocate
  <2>1. SUFFICES ASSUME strategy = "GraphColoring" PROVE DoubtInv'
    BY <1>2 DEF Allocate, DoubtAllocInv
  <2>2. PICK order \in SetToSeqs(Recorded) : Sorted(order) /\ Coloring!Begin(Listed(order))
    BY <1>2, <2>1 DEF Allocate, Recorded
  <2> QED
    BY <1>2, <2>2, BeginColoring DEF AllocInv, Allocate, livenessVars
<1>3. CASE Scanning
  BY <1>3 DEF Scanning, DoubtAllocInv
<1>4. CASE Colour
  BY <1>4, DoubtNext DEF Colour, DoubtAllocInv, AllocInv
<1> QED
  BY <1>1, <1>2, <1>3, <1>4 DEF AllocNext

\* A stuttering step changes nothing that the invariants mention.
LEMMA AllocStutter ==
    ASSUME AllocInv, UNCHANGED allocVars
    PROVE  AllocInv' /\ (DoubtAllocInv => DoubtAllocInv')
<1>1. /\ UNCHANGED <<func, instructionIndex, defPoints, lastUsePoints>>
      /\ UNCHANGED <<strategy, stage, intervals, reg, slot, currentSpillOffset>>
      /\ UNCHANGED <<n, freeGPRs, freeFPRs, active, crossed, neighbors, selectStack, phase, doubtful>>
  BY DEF allocVars, livenessVars, vars, scanVars, graphVars
<1>2. LivenessInv' /\ (Done' <=> Done)
  BY <1>1 DEF AllocInv, LivenessInv, PointTypes, Points, MentionedBy, Mentioned, Reads, Done
<1>3. stage = "allocate" => ListOK' /\ ListIsAnalysis'
  BY <1>1, ListStays DEF vars
<1>4. /\ Slots' = Slots
      /\ \A i : Start(i)' = Start(i) /\ Stop(i)' = Stop(i) /\ Float(i)' = Float(i)
      /\ Classes' = Classes
      /\ \A fl : Class(fl)' = Class(fl) /\ Free(fl)' = Free(fl) /\ Held(fl)' = Held(fl)
  BY <1>1 DEF Slots, Size, Start, Stop, Float, Classes, Class, Free, Held, OfClass
<1>5. ScanInv => ScanInv'
  <2>1. ScanBase => ScanBase'
    BY <1>1, <1>4 DEF ScanBase, ScanTypes, ActiveHold, Over, SlotsApart, ScanPlaced, Size, AllRegs
  <2>2. ClassesApart => ClassesApart'
    BY <1>1, <1>4 DEF ClassesApart, OneHolder, Conserved, Apart
  <2> QED
    BY <1>1, <2>1, <2>2 DEF ScanInv
<1>6. /\ SpillsExplained => SpillsExplained'
      /\ CrossedMixed => CrossedMixed'
  BY <1>1, <1>4 DEF SpillsExplained, Pressure, CrossedMixed
<1>7. (\A v : Overlapping(v)' = Overlapping(v)) /\ (\A v : OnStack(v)' <=> OnStack(v)) /\ Depth' = Depth
  BY <1>1, <1>4 DEF Overlapping, Coloring!overlaps, OnStack, Depth
<1>8. ColorInv => ColorInv'
  BY <1>1, <1>4, <1>7 DEF ColorInv, ColorTypes, ColorPlaced, Proper, SlotsApart, AllRegs
<1>9. DoubtInv => DoubtInv'
  <2>1. \A k : RemovedLow(k)' <=> RemovedLow(k)
    BY <1>1 DEF RemovedLow, Coloring!kLimit
  <2> QED
    BY <1>1, <1>4, <1>7, <2>1 DEF DoubtInv
<1> QED
  BY <1>1, <1>2, <1>3, <1>5, <1>6, <1>8, <1>9 DEF AllocInv, DoubtAllocInv

\* The invariant of both allocators holds throughout: the analysis records
\* what has been mentioned, the list is the analysis, and the places given out
\* are apart.
THEOREM AllocationInvariant == AllocSpec => []AllocInv
<1>1. AllocInit => AllocInv
  BY AllocInitInv
<1>2. AllocInv /\ [AllocNext]_allocVars => AllocInv'
  BY AllocNextInv, AllocStutter
<1> QED
  BY <1>1, <1>2, PTL DEF AllocSpec

\* If the classes are separated, registers have been passed on within a class only.
LEMMA SeparatedFacts ==
    ASSUME AllocInv, stage = "allocate", strategy = "LinearScan", Separated
    PROVE  ~crossed /\ ClassesApart
<1>1. ~crossed
  BY DEF AllocInv, Separated, CrossedMixed, Index, ListOK, Slots, Size, Float
<1> QED
  BY <1>1 DEF AllocInv, ScanInv

\* As long as spillAtInterval has not passed a register between the classes,
\* which it never does for intervals of one class, expireOldIntervals and
\* spillAtInterval lose no register of a class and hand none out twice, for any
\* number of intervals and registers.
THEOREM LinearScanConserves == AllocSpec => []RegistersConserved
<1>1. AllocInv => RegistersConserved
  <2>1. SUFFICES ASSUME AllocInv, stage = "allocate", strategy = "LinearScan"
                 PROVE  LinearScan!TypeOK /\ (Separated => LinearScan!RegistersConserved)
    BY DEF RegistersConserved
  <2>2. ScanBase /\ ListOK
    BY <2>1 DEF AllocInv, ScanInv
  <2>3. LinearScan!TypeOK
    BY <2>2 DEF ScanBase, ScanTypes, LinearScan!TypeOK, LinearScan!Index, LinearScan!Regs,
                Size, Slots, AllRegs
  <2>9. SUFFICES ASSUME Separated PROVE LinearScan!RegistersConserved
    BY <2>3
  <2>4. active \subseteq Slots /\ \A a \in active : intervals[a].float \in BOOLEAN
    <3>1. active \subseteq Slots /\ \A i \in Slots : intervals[i] \in IntervalSet
      BY <2>2 DEF ScanBase, ScanTypes, ListOK, Slots, Size
    <3> QED
      BY <3>1 DEF IntervalSet
  <2>5. /\ {e \in active : intervals[e].float = TRUE} = {e \in active : intervals[e].float}
        /\ {e \in active : intervals[e].float = FALSE} = {e \in active : ~intervals[e].float}
    BY <2>4, Zenon
  <2>10. /\ Held(TRUE) = {reg[a] : a \in {e \in active : intervals[e].float = TRUE}}
         /\ Held(FALSE) = {reg[a] : a \in {e \in active : intervals[e].float = FALSE}}
    BY DEF Held, OfClass, Float
  <2>6. /\ freeGPRs \cup Held(FALSE) = ToSet(availableGPRs) /\ freeGPRs \cap Held(FALSE) = {}
        /\ freeFPRs \cup Held(TRUE) = ToSet(availableFPRs) /\ freeFPRs \cap Held(TRUE) = {}
    <3>1. \A fl \in BOOLEAN : Free(fl) \cup Held(fl) = Class(fl) /\ Free(fl) \cap Held(fl) = {}
      BY <2>1, <2>9, SeparatedFacts DEF ClassesApart, Conserved, Classes
    <3> QED
      BY <3>1 DEF Free, Class
  <2>7. ASSUME NEW a \in active
        PROVE  reg[a] \notin (IF intervals[a].float THEN freeFPRs ELSE freeGPRs)
    <3>1. CASE intervals[a].float = TRUE
      <4>1. reg[a] \in Held(TRUE)
        BY <2>10, <3>1
      <4> QED
        BY <2>6, <3>1, <4>1
    <3>2. CASE intervals[a].float = FALSE
      <4>1. reg[a] \in Held(FALSE)
        BY <2>10, <3>2
      <4> QED
        BY <2>6, <3>2, <4>1
    <3> QED
      BY <2>4, <3>1, <3>2
  <2>8. LinearScan!RegistersConserved
    BY <2>5, <2>6, <2>7, <2>10 DEF LinearScan!RegistersConserved
  <2> QED
    BY <2>8
<1> QED
  BY <1>1, AllocationInvariant, PTL

\* When an allocator is done, every variable that the function mentions has a
\* register or a stack slot of its own inside the frame, and not both.
THEOREM EveryVariablePlaced == AllocSpec => []OnePlaceEach
<1>1. AllocInv => OnePlaceEach
  <2>1. SUFFICES ASSUME AllocInv, Allocated PROVE OnePlaceEach
    BY DEF OnePlaceEach
  <2>2. /\ stage = "allocate" /\ ListOK /\ ListIsAnalysis /\ LivenessInv
        /\ instructionIndex = Len(func.code)
    BY <2>1 DEF Allocated, AllocInv, Done
  <2>3. Index = Slots /\ Size \in Nat
    BY <2>2 DEF Index, ListOK, Slots, Size
  <2>4. {intervals[i].var : i \in Index} =
           func.params \cup UNION {Mentioned(func.code[p]) : p \in DOMAIN func.code}
    <3>1. {intervals[i].var : i \in Index} = Recorded
      BY <2>2, <2>3 DEF ListIsAnalysis
    <3>2. DOMAIN func.code = 1 .. Len(func.code) /\ func.params \subseteq Var
          /\ \A q \in DOMAIN func.code : func.code[q] \in Instruction
      BY <2>2, FunctionFacts
    <3>3. \A q \in DOMAIN func.code : Mentioned(func.code[q]) \subseteq Var
      BY <3>2 DEF Mentioned, Instruction
    <3>4. \A v \in Var : v \in Recorded <=> MentionedBy(v, Len(func.code))
      BY <2>2 DEF LivenessInv, Recorded
    <3>5. \A v : v \in Recorded => v \in Var
      BY DEF Recorded
    <3>6. \A v : v \in Recorded <=>
             v \in func.params \/ \E q \in DOMAIN func.code : v \in Mentioned(func.code[q])
      BY <3>2, <3>3, <3>4, <3>5 DEF MentionedBy
    <3> QED
      BY <3>1, <3>6
  <2>5. SlotsApart /\ (\A i \in Slots : (reg[i] = NoReg) <=> (slot[i] # 0)) /\ slot \in [Slots -> Int]
        /\ currentSpillOffset \in Int
    <3>1. CASE strategy = "LinearScan"
      <4>1. ScanBase /\ n = Size
        BY <2>1, <2>2, <3>1 DEF AllocInv, ScanInv, Allocated, LinearScan!Finished, Size
      <4> QED
        BY <4>1 DEF ScanBase, ScanTypes, ScanPlaced, Slots
    <3>2. CASE strategy = "GraphColoring"
      <4>1. ColorInv /\ phase = "done"
        BY <2>1, <2>2, <3>2 DEF AllocInv, Allocated, Coloring!Finished
      <4>2. selectStack = <<>>
        BY <4>1 DEF ColorInv, ColorTypes
      <4>3. \A v : ~OnStack(v)
        BY <4>2 DEF OnStack, Depth
      <4> QED
        BY <4>1, <4>3 DEF ColorInv, ColorTypes, ColorPlaced
    <3> QED
      BY <2>1, <3>1, <3>2 DEF AllocInv
  <2>6. \A i, j \in Index : slot[i] # 0 /\ slot[i] = slot[j] => i = j
    BY <2>3, <2>5 DEF SlotsApart
  <2>7. \A i \in Index : currentSpillOffset <= slot[i]
    BY <2>3, <2>5 DEF SlotsApart
  <2> QED
    BY <2>3, <2>4, <2>5, <2>6, <2>7 DEF OnePlaceEach
<1> QED
  BY <1>1, AllocationInvariant, PTL

\* Two variables whose intervals overlap do not share a register, unless linear
\* scan has passed one from one class to the other.
NeverShared ==
    Separated => \A i, j \in Index : i # j /\ Alive(i) \cap Alive(j) # {} => ~Share(i, j)

LEMMA NeverSharedFromInv ==
    ASSUME AllocInv PROVE NeverShared
<1> SUFFICES ASSUME Separated, NEW i \in Index, NEW j \in Index, i # j, Share(i, j),
                    NEW p \in Alive(i) \cap Alive(j)
             PROVE  FALSE
  BY DEF NeverShared
<1>1. stage = "allocate" /\ ListOK
  BY DEF AllocInv, Index
<1>2. Size \in Nat /\ Index = Slots /\ i \in Slots /\ j \in Slots
  BY <1>1 DEF ListOK, Index, Slots, Size
<1>3. intervals[i] \in IntervalSet /\ intervals[j] \in IntervalSet
  BY <1>1, <1>2 DEF ListOK, Slots, Size
<1>4. /\ Start(i) \in Nat /\ Stop(i) \in Nat /\ Start(j) \in Nat /\ Stop(j) \in Nat
      /\ p \in Int /\ Start(i) <= p /\ p <= Stop(i) /\ Start(j) <= p /\ p <= Stop(j)
  BY <1>3 DEF Alive, IntervalSet, Start, Stop
<1>5. reg[i] # NoReg /\ reg[i] = reg[j]
  BY DEF Share
<1>6. CASE strategy = "LinearScan"
  <2>1. ScanBase /\ ClassesApart
    BY <1>1, <1>6, SeparatedFacts DEF AllocInv, ScanInv
  <2>2. n \in Nat /\ i \in 1 .. n /\ j \in 1 .. n
    BY <1>2, <1>5, <2>1 DEF ScanBase, ScanTypes, ScanPlaced, Slots
  <2>3. Float(i) = Float(j)
    BY <1>6 DEF Share, SameClass, Float
  <2>4. Stop(i) < Start(j) \/ Stop(j) < Start(i)
    BY <1>5, <2>1, <2>2, <2>3 DEF ClassesApart, Apart
  <2> QED
    BY <1>4, <2>4
<1>7. CASE strategy = "GraphColoring"
  <2>1. ColorInv
    BY <1>1, <1>7 DEF AllocInv
  <2>2. j \in Overlapping(i)
    BY <1>2, <1>4 DEF Overlapping, Coloring!overlaps, Start, Stop
  <2>3. j \in neighbors[i]
    BY <1>2, <2>1, <2>2 DEF ColorInv, ColorTypes
  <2> QED
    BY <1>2, <1>5, <2>1, <2>3 DEF ColorInv, Proper
<1> QED
  BY <1>6, <1>7 DEF AllocInv

\* A variable in a register is alone there for its whole interval, at every
\* step of either allocator and whatever the branches of the function; by linear
\* scan unless the function has variables of both classes and spillAtInterval has
\* passed a register from one class to the other.
THEOREM RegistersNotShared == AllocSpec => []NeverShared
<1>1. AllocInv => NeverShared
  BY NeverSharedFromInv
<1> QED
  BY <1>1, AllocationInvariant, PTL

\* For functions without backward branches the intervals cover liveness: what
\* computeLiveIntervals takes from one pass in layout order is long enough.
THEOREM LivenessCovered ==
    ASSUME ForwardBranches
    PROVE  AllocSpec => []IntervalsCoverLiveness
<1>1. AllocInv => IntervalsCoverLiveness
  BY CoverFromInv DEF AllocInv
<1> QED
  BY <1>1, AllocationInvariant, PTL

\* For functions without backward branches no two values that some path still
\* needs share a register once the function is allocated: by graph colouring
\* always, by linear scan for variables of one class, and for variables of both
\* as long as spillAtInterval has not passed a register from one to the other.
THEOREM NoTwoLiveValuesClash ==
    ASSUME ForwardBranches
    PROVE  AllocSpec => []NoClash
<1>1. AllocInv => NoClash
  <2>1. SUFFICES ASSUME AllocInv, Separated, Allocated, NEW i \in Index, NEW j \in Index, NEW p \in Points,
                        i # j, p >= intervals[i].start, p >= intervals[j].start,
                        LiveAfter(intervals[i].var, p), LiveAfter(intervals[j].var, p)
                 PROVE  ~Share(i, j)
    BY NeverSharedFromInv DEF NeverShared, NoClash
  <2>2. stage = "allocate" /\ ListOK /\ ListIsAnalysis /\ Done /\ LivenessInv
    BY <2>1 DEF Allocated, AllocInv
  <2>3. Index = Slots /\ p \in Nat
    BY <2>2, FunctionFacts DEF ListOK, Index, Slots, Size, Points
  <2>4. ASSUME NEW k \in Slots, p >= intervals[k].start, LiveAfter(intervals[k].var, p)
        PROVE  p \in Alive(k)
    <3>1. /\ intervals[k].var \in Var
          /\ intervals[k].start = Interval(intervals[k].var).start
          /\ intervals[k].end = Interval(intervals[k].var).end
      BY <2>2 DEF ListIsAnalysis, Recorded, Start, Stop
    <3>2. \/ contains(Interval(intervals[k].var), p)
          \/ p < Interval(intervals[k].var).start
      BY <2>2, <2>4, <3>1, CoverFromInv DEF IntervalsCoverLiveness
    <3>3. intervals[k].start \in Nat /\ intervals[k].end \in Nat
      <4>1. intervals[k] \in IntervalSet
        BY <2>2 DEF ListOK, Slots, Size
      <4> QED
        BY <4>1 DEF IntervalSet
    <3>4. intervals[k].start <= p /\ p <= intervals[k].end
      BY <2>3, <2>4, <3>1, <3>2, <3>3 DEF contains
    <3> QED
      BY <2>3, <3>3, <3>4 DEF Alive
  <2>5. p \in Alive(i) /\ p \in Alive(j)
    BY <2>1, <2>3, <2>4
  <2> QED
    BY <2>1, <2>5, NeverSharedFromInv DEF NeverShared
<1> QED
  BY <1>1, AllocationInvariant, PTL

\* The stack of removed nodes is no longer than the graph.
LEMMA StackFits ==
    ASSUME ListOK, ColorInv PROVE Depth <= Size
<1>1. Depth \in Nat /\ Size \in Nat
  BY SimplifyFacts
<1>2. selectStack \in Injection(1 .. Depth, Slots)
  <2>1. selectStack \in [1 .. Depth -> Slots]
    BY DEF ColorInv, ColorTypes, Depth
  <2>2. \A j, k \in 1 .. Depth : selectStack[j] = selectStack[k] => j = k
    BY DEF ColorInv, ColorTypes
  <2> QED
    BY <2>1, <2>2, Zenon DEF Injection, IsInjective
<1>3. IsFiniteSet(Slots) /\ Cardinality(Slots) = Size
  <2>1. IsFiniteSet(Slots) /\ Cardinality(Slots) = IF 1 > Size THEN 0 ELSE Size - 1 + 1
    BY <1>1, FS_Interval DEF Slots
  <2> QED
    BY <1>1, <2>1
<1>4. Cardinality(1 .. Depth) = Depth
  <2>1. Cardinality(1 .. Depth) = IF 1 > Depth THEN 0 ELSE Depth - 1 + 1
    BY <1>1, FS_Interval
  <2> QED
    BY <1>1, <2>1
<1> QED
  BY <1>2, <1>3, <1>4, FS_Injection

\* A variable is spilled only for want of registers: linear scan spills when
\* more intervals overlap than there are registers, and graph colouring only
\* what it removed in doubt, if the pool it offers is not smaller than the
\* degree limit of the class.
THEOREM SpillsOnlyInNeed ==
    ASSUME PoolsSuffice
    PROVE  AllocSpec => []SpillsJustified
<1>1. AllocInit => AllocInv /\ DoubtAllocInv
  BY AllocInitInv
<1>2. AllocInv /\ DoubtAllocInv /\ [AllocNext]_allocVars => AllocInv' /\ DoubtAllocInv'
  BY AllocNextInv, DoubtAllocNext, AllocStutter
<1>3. AllocInv /\ DoubtAllocInv => SpillsJustified
  <2>1. SUFFICES ASSUME AllocInv, DoubtAllocInv, stage = "allocate"
                 PROVE  IF strategy = "LinearScan" THEN LinearScan!SpillsOnlyUnderPressure
                        ELSE Coloring!TypeOK /\ Coloring!OnlyDoubtfulSpilled
    BY DEF SpillsJustified
  <2>2. CASE strategy = "LinearScan"
    <3>1. SpillsExplained /\ ListOK
      BY <2>1, <2>2 DEF AllocInv
    <3>2. LinearScan!Index = Slots
      BY DEF LinearScan!Index, Slots, Size
    <3>3. SUFFICES ASSUME \E i \in Slots : slot[i] # 0 PROVE LinearScan!SpillsOnlyUnderPressure
      BY <2>2, <3>2 DEF LinearScan!SpillsOnlyUnderPressure
    <3>4. PICK p \in {Start(i) : i \in Slots}, fl \in BOOLEAN :
            Cardinality({i \in Slots : intervals[i].float = fl /\ Start(i) <= p /\ p <= Stop(i)})
                > Cardinality(Class(fl))
      BY <3>1, <3>3 DEF SpillsExplained, Pressure
    <3>5. LinearScan!Cardinality({i \in Slots : /\ intervals[i].float = fl
                                                 /\ intervals[i].start <= p /\ p <= LinearScan!End(i)})
            > LinearScan!Cardinality(IF fl THEN ToSet(availableFPRs) ELSE ToSet(availableGPRs))
      BY <3>4, SameCardinality DEF LinearScan!End, Start, Stop, Class
    <3> QED
      BY <3>2, <3>4, <3>5 DEF LinearScan!SpillsOnlyUnderPressure, Start
  <2>3. CASE strategy = "GraphColoring"
    <3>1. ColorInv /\ DoubtInv /\ ListOK
      BY <2>1, <2>3 DEF AllocInv, DoubtAllocInv
    <3>2. Coloring!Node = Slots /\ Depth <= Size /\ \A v \in Slots : neighbors[v] \subseteq Slots
      BY <3>1, SimplifyFacts, StackFits
    <3>3. Coloring!TypeOK
      BY <3>1, <3>2 DEF ColorInv, ColorTypes, Coloring!TypeOK, Coloring!ToSet, ToSet, AllRegs,
                        Depth, Size
    <3>4. Coloring!OnlyDoubtfulSpilled
      BY <3>1, <3>2 DEF DoubtInv, Coloring!OnlyDoubtfulSpilled
    <3> QED
      BY <2>3, <3>3, <3>4
  <2> QED
    BY <2>1, <2>2, <2>3 DEF AllocInv
<1> QED
  BY <1>1, <1>2, <1>3, PTL DEF AllocSpec

=============================================================================
