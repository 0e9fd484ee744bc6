--------------------------- MODULE SmalltalkMeaning ---------------------------
(* What a program means, without a compiler: every block is a closure over the *)
(* variables themselves, every variable is a cell made when its block or method *)
(* starts, and ifTrue:, and:, whileTrue: and to:do: are sends that evaluate     *)
(* their blocks.  The reference the compiled code is compared with.             *)
EXTENDS Integers, Sequences

Num(n)  == [t |-> "int", n |-> n]
Nil     == [t |-> "nil"]
True    == [t |-> "true"]
False   == [t |-> "false"]
Self    == [t |-> "self"]
Bool(b) == IF b THEN True ELSE False

(* SmallInteger arithmetic, and = of the constants; the empty sequence is a send that fails. *)
Arithmetic(sel, a, b) ==
  IF a.t # "int" \/ b.t # "int"
  THEN IF sel = "=" /\ {a.t, b.t} \subseteq {"int", "nil", "true", "false", "self"} THEN <<Bool(a = b)>> ELSE <<>>
  ELSE CASE sel = "+" -> <<Num(a.n + b.n)>>
         [] sel = "-" -> <<Num(a.n - b.n)>>
         [] sel = "*" -> <<Num(a.n * b.n)>>
         [] sel = "<" -> <<Bool(a.n < b.n)>>
         [] sel = ">" -> <<Bool(a.n > b.n)>>
         [] sel = "<=" -> <<Bool(a.n <= b.n)>>
         [] sel = ">=" -> <<Bool(a.n >= b.n)>>
         [] sel = "=" -> <<Bool(a.n = b.n)>>
         [] OTHER -> <<>>

(* A state: `cells`, the variables made so far; `fields`, the instance and class
   variables and bindings by name.  A result is the state with `v`, the value, and
   `exit`: "no", "returned" by a ^, or "error". *)
Value(s, v) == [s EXCEPT !.v = v]
Exit(s, how) == [s EXCEPT !.exit = how]
Start(fields) == [cells |-> <<>>, fields |-> fields, v |-> Nil, exit |-> "no"]

Fresh(s, env, names, values) ==
  LET new == [i \in 1 .. Len(names) |-> IF i <= Len(values) THEN values[i] ELSE Nil]
  IN [s  |-> [s EXCEPT !.cells = @ \o new],
      env |-> <<[names |-> names, base |-> Len(s.cells)]>> \o env]

Scope(env, name) == {i \in 1 .. Len(env): \E j \in 1 .. Len(env[i].names): env[i].names[j] = name}
CellOf(env, name) ==
  LET e == env[CHOOSE i \in Scope(env, name): \A j \in Scope(env, name): i <= j]
  IN e.base + (CHOOSE j \in 1 .. Len(e.names): e.names[j] = name)

Read(s, env, name) ==
  CASE Scope(env, name) # {} -> s.cells[CellOf(env, name)]
    [] Scope(env, name) = {} ->
         IF name \in {"self", "nil", "true", "false"}
         THEN [self |-> Self, nil |-> Nil, true |-> True, false |-> False][name]
         ELSE s.fields[name]

Write(s, env, name, v) ==
  IF Scope(env, name) # {} THEN [s EXCEPT !.cells[CellOf(env, name)] = v]
  ELSE [s EXCEPT !.fields[name] = v]

RECURSIVE Eval(_, _, _), EvalAll(_, _, _, _, _), EvalSeq(_, _, _, _), Call(_, _, _),
          Sent(_, _, _, _), While(_, _, _, _), Count(_, _, _, _, _), Parts(_, _, _, _, _),
          PartOf(_, _, _, _)

(* k is applied to the values of the kids from i on, unless one of them exits. *)
EvalAll(ns, i, env, s, vs) ==
  IF i > Len(ns) \/ s.exit # "no" THEN [s |-> s, vs |-> vs]
  ELSE LET r == Eval(ns[i], env, s) IN EvalAll(ns, i + 1, env, r, Append(vs, r.v))

EvalSeq(n, i, env, s) ==
  IF i > Len(n.kids) \/ s.exit # "no" THEN s ELSE EvalSeq(n, i + 1, env, Eval(n.kids[i], env, s))

(* A closure called with arguments. *)
Call(s, f, args) ==
  IF f.t # "closure" \/ Len(args) # Len(f.node.params) THEN Exit(s, "error")
  ELSE LET e == Fresh(s, f.env, f.node.params \o f.node.temps, args)
       IN EvalSeq(f.node.kids[1], 1, e.env, Value(e.s, Nil))

While(s, cond, body, wanted) ==
  LET c == Call(s, cond, <<>>)
  IN IF c.exit # "no" THEN c
     ELSE IF c.v \notin {True, False} THEN Exit(c, "error")
     ELSE IF c.v # Bool(wanted) THEN Value(c, Nil)
     ELSE LET b == IF body = Nil THEN c ELSE Call(c, body, <<>>)
          IN IF b.exit # "no" THEN b ELSE While(b, cond, body, wanted)

Count(s, i, limit, step, body) ==
  IF s.exit # "no" \/ (IF step > 0 THEN i > limit ELSE i < limit) THEN s
  ELSE Count(Call(s, body, <<Num(i)>>), i + step, limit, step, body)

Sent(s, sel, r, args) ==
  LET cond(b) == r = Bool(b)
      known == r \in {True, False}
      when(b, f, other) == IF ~known THEN Exit(s, "error")
                           ELSE IF cond(b) THEN Call(s, f, <<>>) ELSE other
  IN CASE sel = "ifTrue:" -> when(TRUE, args[1], Value(s, Nil))
       [] sel = "ifFalse:" -> when(FALSE, args[1], Value(s, Nil))
       [] sel = "and:" -> when(TRUE, args[1], Value(s, False))
       [] sel = "or:" -> when(FALSE, args[1], Value(s, True))
       [] sel = "ifTrue:ifFalse:" -> when(TRUE, args[1], Call(s, args[2], <<>>))
       [] sel = "ifFalse:ifTrue:" -> when(FALSE, args[1], Call(s, args[2], <<>>))
       [] sel \in {"whileTrue:", "whileFalse:"} -> While(s, r, args[1], sel = "whileTrue:")
       [] sel \in {"whileTrue", "whileFalse"} -> While(s, r, Nil, sel = "whileTrue")
       [] sel = "to:do:" ->
            IF r.t # "int" \/ args[1].t # "int" THEN Exit(s, "error")
            ELSE LET c == Count(s, r.n, args[1].n, 1, args[2])
                 IN IF c.exit = "no" THEN Value(c, r) ELSE c
       [] sel = "to:by:do:" ->
            IF {r.t, args[1].t, args[2].t} # {"int"} \/ args[2] = Num(0) THEN Exit(s, "error")
            ELSE LET c == Count(s, r.n, args[1].n, args[2].n, args[3])
                 IN IF c.exit = "no" THEN Value(c, r) ELSE c
       [] sel \in {"value", "value:"} -> Call(s, r, args)
       [] sel = "yourself" -> Value(s, r)
       [] sel = "not" /\ known -> Value(s, Bool(r = False))
       [] sel = "&" /\ known -> Value(s, IF r = True THEN args[1] ELSE False)
       [] sel = "|" /\ known -> Value(s, IF r = True THEN True ELSE args[1])
       [] sel \in {"eqv:", "xor:"} /\ known /\ Len(args) = 1 ->
            IF args[1] \in {True, False} THEN Value(s, Bool((sel = "eqv:") = (r = args[1]))) ELSE Exit(s, "error")
       [] OTHER -> LET a == IF Len(args) = 1 THEN Arithmetic(sel, r, args[1]) ELSE <<>>
                   IN IF a = <<>> THEN Exit(s, "error") ELSE Value(s, a[1])

(* The parts of a cascade go to the receiver of the first. *)
PartOf(n, env, s, r) ==
  LET chained == Len(n.kids) = n.argc + 1
      below == IF chained THEN PartOf(n.kids[1], env, s, r) ELSE Value(s, r)
      args == EvalAll(SubSeq(n.kids, IF chained THEN 2 ELSE 1, Len(n.kids)), 1, env, below, <<>>)
  IN IF args.s.exit # "no" THEN args.s ELSE Sent(args.s, n.sel, below.v, args.vs)

Parts(ns, i, env, s, r) ==
  IF i > Len(ns) \/ s.exit # "no" THEN s ELSE Parts(ns, i + 1, env, PartOf(ns[i], env, s, r), r)

Eval(n, env, s) ==
  CASE n.k = "Lit" -> Value(s, Num(n.value))
    [] n.k = "Var" -> Value(s, Read(s, env, n.name))
    [] n.k = "Block" -> Value(s, [t |-> "closure", node |-> n, env |-> env])
    [] n.k = "Seq" -> EvalSeq(n, 1, env, Value(s, Nil))
    [] n.k = "Assign" -> LET r == Eval(n.kids[1], env, s)
                         IN IF r.exit = "no" THEN Write(r, env, n.name, r.v) ELSE r
    [] n.k = "Return" -> LET r == Eval(n.kids[1], env, s)
                         IN IF r.exit = "no" THEN Exit(r, "returned") ELSE r
    [] n.k = "Send" ->
         LET all == EvalAll(n.kids, 1, env, s, <<>>)
         IN IF all.s.exit # "no" THEN all.s ELSE Sent(all.s, n.sel, all.vs[1], Tail(all.vs))
    [] n.k = "Cascade" ->
         LET r == Eval(n.kids[1].kids[1], env, s)
             first == [n.kids[1] EXCEPT !.kids = Tail(@)]
         IN IF r.exit # "no" THEN r ELSE Parts(<<first>> \o Tail(n.kids), 1, env, r, r.v)

(* The meaning of a method or doIt, applied to arguments. *)
Meaning(m, args, fields) ==
  LET e == Fresh(Start(fields), <<>>, m.params \o m.temps, args)
      r == EvalSeq(m.kids[1], 1, e.env, e.s)
  IN CASE r.exit = "error" -> [t |-> "error", fields |-> r.fields]
       [] r.exit = "returned" -> [t |-> "value", v |-> r.v, fields |-> r.fields]
       [] OTHER -> [t |-> "value", fields |-> r.fields,
                    v |-> IF m.doIt /\ m.kids[1].kids # <<>> THEN r.v ELSE Self]
=============================================================================
