--------------------------- MODULE MCModuleLoader ---------------------------
(***************************************************************************)
(* Import graphs over three files for TLC.  "a" is the root and has up to  *)
(* two imports, "b" and "c" up to one; every import may be spelled with or *)
(* without ".lsm".  "c" lies in the current directory, in libs, or in both *)
(* with different contents; at most one file is missing or broken.         *)
(***************************************************************************)
EXTENDS ModuleLoader

MCStem == {"a", "b", "c"}
MCSearchPaths == <<".", "libs">>
MCRoot == [stem |-> "a", ext |-> TRUE]

UpTo(n) == BoundedSeq(Name, n)
RootImports == UpTo(2) \cup {<<CHeader, n>> : n \in Name}
Absent == [kind |-> "absent", imports |-> <<>>]

Contents(kind, imports) == [kind |-> kind, imports |-> IF kind = "ok" THEN imports ELSE <<>>]

Disk(ia, ib, ic, ka, kb, kc, where) ==
    [f \in File |->
        CASE f.stem = "a" /\ f.dir = "." -> Contents(ka, ia)
          [] f.stem = "b" /\ f.dir = "." -> Contents(kb, ib)
          [] f.stem = "c" /\ f.dir \in where -> Contents(IF f.dir = "." THEN kc ELSE "ok", ic)
          [] OTHER -> Absent]

MCFileSystems ==
    {Disk(ia, ib, ic, ks[1], ks[2], ks[3], where) :
        ia \in RootImports, ib \in UpTo(1), ic \in UpTo(1),
        ks \in {k \in Kinds \X Kinds \X Kinds :
                  \/ k[1] = "ok" /\ k[2] = "ok"
                  \/ k[2] = "ok" /\ k[3] = "ok"
                  \/ k[1] = "ok" /\ k[3] = "ok"},
        where \in {{"."}, {"libs"}, {".", "libs"}}}

=============================================================================
