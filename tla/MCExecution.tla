------------------------------ MODULE MCExecution ------------------------------
(* Three components that never act at the same time, side by side: a program that is *)
(* compiled and run; one evaluation, unwinding; and the debugger that holds halted   *)
(* evaluations.  A behaviour is of one of them, and the others rest.                 *)
EXTENDS Interpreter, Unwind, Debugger

VARIABLE part

ASSUME UnwindAssumption
ASSUME DebuggerAssumption

MCInstVarNames == <<"k", "i">>
MCArguments == <<Num(2)>>
MCFields == {"p", "x", "a", "k", "i", "P", "w", "G"}

L(n) == [k |-> "Lit", value |-> n, kids |-> <<>>]
V(x) == [k |-> "Var", name |-> x, kids |-> <<>>]
Asg(x, e) == [k |-> "Assign", name |-> x, kids |-> <<e>>]
Snd(r, sel, args) == [k |-> "Send", sel |-> sel, argc |-> Len(args), kids |-> <<r>> \o args]
Part1(sel, args) == [k |-> "Send", sel |-> sel, argc |-> Len(args), kids |-> args]
Stmts1(stmts) == [k |-> "Seq", kids |-> stmts]
BlockOf(params, temps, stmts) == [k |-> "Block", params |-> params, temps |-> temps, kids |-> <<Stmts1(stmts)>>]
Blk(stmts) == BlockOf(<<>>, <<>>, stmts)
Ret(e) == [k |-> "Return", kids |-> <<e>>]
Plus(a, b) == Snd(a, "+", <<b>>)

(* Statements over the method's temps a and b, the block's temp t and the loop's i. *)
Stmt1 == {Asg("a", Plus(V("a"), V("x"))), Asg("b", Blk(<<V("a")>>)), Asg("b", Blk(<<V("x")>>)),
          Asg("b", Blk(<<Asg("t", Plus(V("t"), L(1))), V("t")>>)), Asg("t", V("x"))}
Stmt2 == Stmt1 \union {Ret(V("x")), Asg("i", Blk(<<Asg("a", Plus(V("a"), V("t"))), Ret(V("a"))>>)),
                       Asg("P", Snd(BlockOf(<<"y">>, <<>>, <<Asg("a", Plus(V("y"), V("a"))), V("a")>>),
                                    "value:", <<L(5)>>))}

(* The statements x takes part in, run twice or so by the form that holds them. *)
WithT(stmts) == <<Asg("t", L(3))>> \o stmts
Forms(s1, s2) ==
  {Snd(L(1), "to:do:", <<L(2), BlockOf(<<"x">>, <<"t">>, WithT(<<s1, s2>>))>>),
   Snd(L(2), "to:by:do:", <<L(-1), L(-2), BlockOf(<<"x">>, <<"t">>, WithT(<<s1, s2>>))>>),
   Snd(L(1), "to:do:", <<L(2), BlockOf(<<"x">>, <<"t">>, <<Snd(Snd(V("t"), "=", <<L(1)>>), "ifFalse:",
                                                       <<Blk(<<Asg("t", L(1)), s1>>)>>), s2>>)>>),
   Snd(BlockOf(<<"x">>, <<"t">>, WithT(<<s1, s2>>)), "value:", <<V("p")>>)}

Body(s1, s2, end) == <<Asg("a", L(0)), s1, s2>> \o end
Ends == {<<Ret(V("a"))>>, <<Ret(Snd(V("b"), "value", <<>>))>>, <<Snd(V("b"), "value", <<>>)>>}

MethodOf(entry, stmts) ==
  [k |-> "Method", params |-> IF entry THEN <<>> ELSE <<"p">>, temps |-> <<"a", "b">>, doIt |-> entry,
   kids |-> <<Stmts1(stmts)>>]

Capturing == {MethodOf(FALSE, <<Asg("a", L(0)), f>> \o e):
               f \in UNION {Forms(s1, s2): s1 \in Stmt1, s2 \in Stmt2}, e \in Ends}

(* Conditions, loops on conditions and cascades, around one statement. *)
Less == Snd(V("a"), "<", <<L(2)>>)
Up == Asg("a", Plus(V("a"), L(1)))
Conditions == {Less, Snd(Less, "and:", <<Blk(<<Snd(V("p"), "=", <<L(2)>>)>>)>>),
               Snd(Less, "or:", <<Blk(<<Up, Snd(V("a"), "=", <<L(2)>>)>>)>>), V("p"), Snd(Less, "and:", <<Blk(<<>>)>>)}
Past(c) == Snd(Snd(V("a"), ">", <<L(3)>>), "or:", <<Blk(<<c>>)>>)
Shapes(c) ==
  {Snd(Blk(<<c>>), "whileTrue:", <<BlockOf(<<>>, <<"t">>, <<Up, Asg("b", Blk(<<Asg("t", V("a")), V("t")>>))>>)>>),
   Snd(Blk(<<Past(c)>>), "whileFalse:", <<Blk(<<Up>>)>>),
   Snd(Blk(<<Up, c>>), "whileTrue", <<>>), Snd(Blk(<<Up, Past(c)>>), "whileFalse", <<>>),
   Snd(c, "ifTrue:ifFalse:", <<Blk(<<Up>>), Blk(<<>>)>>),
   Snd(c, "ifFalse:ifTrue:", <<Blk(<<Ret(L(7))>>), Blk(<<Asg("b", Blk(<<V("a")>>)), L(4)>>)>>),
   Snd(Snd(c, "ifTrue:", <<V("b")>>), "yourself", <<>>), Snd(c, "ifFalse:", <<Blk(<<V("self")>>)>>),
   Snd(Plus(L(1), c), "yourself", <<>>),
   Snd(L(1), "to:by:do:", <<L(2), L(0), BlockOf(<<"x">>, <<>>, <<c>>)>>)}
(* Branches on a block that is not a literal: Boolean's own methods. *)
Natives == UNION {{Snd(V(x), sel, <<V("b")>>): sel \in {"ifTrue:", "ifFalse:", "and:", "or:"}}
                    \union {Snd(V(x), sel, <<V("b"), Blk(<<L(3)>>)>>): sel \in {"ifTrue:ifFalse:", "ifFalse:ifTrue:"}}
                    \union {Snd(V(x), sel, <<V("i")>>): sel \in {"&", "|", "eqv:", "xor:"}}
                    \union {Snd(V(x), "not", <<>>)}: x \in {"true", "false", "p"}}
Branching == {MethodOf(FALSE, <<Asg("i", V(y)), Asg("a", L(4)), Asg("b", Blk(<<Up>>)), Ret(e)>>):
                y \in {"true", "false", "nil"}, e \in Natives}

Cascades == {[k |-> "Cascade", kids |-> <<Snd(V("a"), "+", <<L(1)>>), Part1("yourself", <<>>)>>],
             [k |-> "Cascade", kids |-> <<Snd(Up, "yourself", <<>>), Snd(Part1("+", <<L(8)>>), "*", <<V("a")>>),
                                          Part1("-", <<L(-3)>>)>>]}
Wraps(e) == {<<Asg("k", e)>>, <<Asg("i", e)>>, <<e>>, <<Asg("i", Plus(L(1), e))>>, <<Ret(e)>>}

Controls == {MethodOf(d, <<Asg("a", L(0))>> \o w):
               d \in BOOLEAN, w \in UNION {Wraps(e): e \in Cascades \union UNION {Shapes(c): c \in Conditions}}}

(* Assignments to every kind of name, at the top and in a block that is expanded or real. *)
Names == {"a", "p", "x", "self", "super", "true", "k", "i", "P", "w", "G"}
At(n) == {<<Asg(n, L(6))>>, <<Snd(V("true"), "ifTrue:", <<Blk(<<Asg(n, L(6))>>)>>)>>,
          <<Snd(BlockOf(<<"x">>, <<>>, <<Asg(n, L(6))>>), "value:", <<L(1)>>)>>,
          <<Snd(L(1), "to:do:", <<L(2), BlockOf(<<"x">>, <<>>, <<Asg(n, V("x"))>>)>>)>>,
          <<Snd(BlockOf(<<>>, <<"x", "p">>, <<Asg(n, L(6))>>), "value", <<>>)>>}
Assignments == {MethodOf(d, w): d \in BOOLEAN, w \in UNION {At(n): n \in Names}}

(* The program of the behaviours that are not about one. *)
Empty == MethodOf(FALSE, <<>>)

MCPrograms == Capturing \union Branching \union Controls \union Assignments \union {Empty}

-------------------------------------------------------------------------------
MCInit == /\ part \in {"program", "unwind", "debugger"}
          /\ Init /\ UnwindInit /\ DebugInit
          /\ prog \in IF part = "program" THEN MCPrograms ELSE {Empty}
          /\ part # "unwind" => stack[1].kind = "method"
          /\ part # "debugger" => methods["foo"] = Missing

ProgramStep == part = "program" /\ Next /\ UNCHANGED <<part, unwindVars, debugVars>>
UnwindStep  == part = "unwind" /\ UnwindNext /\ UNCHANGED <<part, vars, debugVars>>
DebugStep   == part = "debugger" /\ DebugNext /\ UNCHANGED <<part, vars, unwindVars>>

MCSpec == MCInit /\ [][ProgramStep \/ UnwindStep \/ DebugStep]_<<part, vars, unwindVars, debugVars>>
================================================================================
