---------------------------- MODULE MCSSABuilder ----------------------------
(***************************************************************************)
(* Programs for TLC.  A program has a function of the full set, compiled   *)
(* first, and a second one that would notice what the first left behind.   *)
(* Every loop comes to an end.                                             *)
(***************************************************************************)
EXTENDS SSABuilder

X == Var("x")
Inc == ExprStmt(VarAssign("x", "+=", IntLit(1)))
Low == Binary("<", X, IntLit(2))

Simple ==
    {Inc, ExprStmt(VarAssign("y", "=", FuncCall("f", <<X>>))), PrintNode(Var("y")),
     Effect("ArrayStore", <<X, Access("ArrayLoad", <<Binary("-", X, IntLit(1))>>)>>),
     Return(Binary("+", X, Var("y")))}

Bodies == {<<>>} \cup {<<s>> : s \in Simple}
Longer == Bodies \cup {<<s, t>> : s \in Simple, t \in Simple}
Both == Binary("&&", Low, Binary("<=", Var("y"), X))

\* The end of a range is a literal or a name the body leaves alone; continue is
\* the last statement of its loop, where it changes nothing.
Scaled == <<ExprStmt(VarAssign("y", "*=", IntLit(-3))), ExprStmt(VarAssign("y", "/=", IntLit(2)))>>
Ifs == {If(Low, t, e) : t \in Longer, e \in Bodies} \cup {If(Low, Scaled, e) : e \in Bodies}
Whiles == {While(c, b \o <<Inc, Continue>>) : c \in {Low, Both}, b \in Longer}
Fors == {For("i", IntLit(1), IntLit(2), incl, b) : incl \in BOOLEAN, b \in Longer}
Nested == {While(Low, <<If(Both, t, <<>>), Inc>>) : t \in Bodies}
          \cup {For("i", IntLit(0), X, FALSE, <<If(Low, <<>>, e)>>) : e \in Bodies \ {<<Inc>>}}

Opening == Defer(FuncCall("close", <<X>>))
Closing ==
    {<<PrintNode(X)>>,
     <<Defer(FuncCall("late", <<Var("y")>>)), Return(Binary("*", IntLit(2), IntLit(3)))>>}

First == {[params |-> {"x", "y"}, naked |-> FALSE, body |-> <<Opening, c>> \o d] :
             c \in Ifs \cup Whiles \cup Fors \cup Nested, d \in Closing}
Second == [params |-> {"x"}, naked |-> TRUE,
           body |-> <<GoStmt("f", <<>>), PrintNode(Binary("+", Var("G"), X)),
                      ExprStmt(ArrayAlloc("a", 4)),
                      ExprStmt(VarAssign("y", "=", Cast(X)))>>]

MCPrograms == {[globals |-> [G |-> 7], funcs |-> <<Second, f>>, entry |-> 2] : f \in First}

OneFunction(body) ==
    [globals |-> [G |-> 7], entry |-> 1,
     funcs |-> <<[params |-> {"x", "y"}, naked |-> FALSE, body |-> body]>>]

\* A loop that is left early.
BreakPrograms ==
    {OneFunction(<<While(Low, <<Inc, If(Both, <<s>>, <<>>), PrintNode(X)>>)>>) :
        s \in {Break, Continue}}

\* A task with an argument, and conditions whose right side is a call.  With
\* either set in the place of BreakPrograms, CompiledAsWritten fails as well.
GoPrograms == {OneFunction(<<GoStmt("worker", args)>>) : args \in {<<>>, <<X>>}}
ShortcutPrograms ==
    {OneFunction(<<If(Binary(op, Binary("<", X, IntLit(1)), FuncCall("f", <<X>>)), <<Inc>>, <<>>),
                   Return(X)>>) : op \in {"&&", "||"}}

\* The parts of a tree, and the trees of the programs: their statements and,
\* level by level, their parts.
Kids(e) ==
    CASE e.node = "Binary" -> {e.left, e.right}
      [] e.node \in {"FuncCall", "GoStmt", "Access", "Effect"} -> ToSet(e.args)
      [] e.node = "VarAssign" -> {e.value}
      [] e.node \in {"Cast", "ExprStmt", "Print", "Return"} -> {e.expr}
      [] e.node = "Defer" -> {e.call}
      [] e.node = "If" -> {e.cond} \cup ToSet(e.then) \cup ToSet(e.else)
      [] e.node = "While" -> {e.cond} \cup ToSet(e.body)
      [] e.node = "For" -> {e.start, e.end} \cup ToSet(e.body)
      [] OTHER -> {}

Statements ==
    UNION {UNION {ToSet(p.funcs[k].body) : k \in DOMAIN p.funcs} :
           p \in MCPrograms \cup BreakPrograms \cup GoPrograms \cup ShortcutPrograms}
Levels == 7
Level[n \in 0 .. Levels] ==
    IF n = 0 THEN Statements ELSE UNION {{e} \cup Kids(e) : e \in Level[n - 1]}
MCTrees == Level[Levels]

=============================================================================
