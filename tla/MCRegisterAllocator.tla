------------------------ MODULE MCRegisterAllocator ------------------------
(***************************************************************************)
(* Functions for TLC: short ones with every branch forward, and one for    *)
(* every list of up to four intervals.                                     *)
(***************************************************************************)
EXTENDS RegisterAllocator

CONSTANTS x, y, z, w

\* Functions of three instructions over x and y, with up to one parameter.
Code == [1 .. 3 -> [operands : {{}, {x}, {y}}, result : {x, y, None}]]
Branching ==
    {[params |-> p, code |-> c, float |-> {}, jumps |-> j] :
        p \in {{}, {x}}, c \in Code, j \in {{}, {<<1, 3>>}}}

\* The function whose i-th variable is mentioned at the two ends of interval i.
Span(last) == {i \in (1 .. last) \X (1 .. last) : i[1] <= i[2]}
Leq(i, j) == i[1] < j[1] \/ (i[1] = j[1] /\ i[2] <= j[2])
Lists(k, last) ==
    {s \in [1 .. k -> Span(last)] : \A i \in 1 .. k - 1 : Leq(s[i], s[i + 1])}
Names == <<x, y, z, w>>
Mentioning(s, last, float) ==
    [params |-> {}, float |-> float, jumps |-> {},
     code |-> [p \in 1 .. last |-> [operands |-> {Names[i] : i \in {j \in DOMAIN s : p \in {s[j][1], s[j][2]}}},
                                    result |-> None]]]

MCFunctions ==
    Branching
        \cup {Mentioning(s, 4, float) : s \in Lists(3, 4), float \in {{}, Var}}
        \cup {Mentioning(s, 3, float) : s \in Lists(3, 3), float \in SUBSET {x, y, z}}
        \cup {Mentioning(s, 2, float) : s \in Lists(4, 2), float \in {{}, {x, z}, Var}}

\* Pools in the proportion of x86_64 (7 and 14 registers).
OneGPR == <<10>>
TwoFPRs == <<2, 10>>

=============================================================================
