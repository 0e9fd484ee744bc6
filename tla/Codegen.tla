------------------------------- MODULE Codegen -------------------------------
(* The code generator (compiler/src/Codegen.cpp): capture analysis, the layout *)
(* of temporaries, inline expansion and the emission of the instruction stream *)
(* with its patched jumps.  Source spans, the pc map and the byte widths of    *)
(* indexes are left out.  A node of the syntax tree is named by its path from  *)
(* the method, as the code names it by its address.                            *)
EXTENDS Integers, Sequences, FiniteSets, SequencesExt

CONSTANTS InstVarNames,       \* instance variables of the class
          KernelInstVars,     \* how many of them a Kernel class declares
          ClassVarNames,      \* the class's pool variables
          KnownGlobals        \* the names a doIt finds in Smalltalk

-------------------------------------------------------------------------------
\* Inline expansion

LiteralBlock(n, params) == n.k = "Block" /\ Len(n.params) = params

HasReceiver(n) == Len(n.kids) = n.argc + 1

KnownStep(n) == n.k = "Lit" /\ n.value # 0

(* inlinePlan: the sends that become jumps, or "None". *)
Plan(n) ==
  LET arg(i, params) == LiteralBlock(n.kids[i + 1], params)
      is(sel, ok) == n.sel = sel /\ ok
  IN IF n.k # "Send" \/ ~HasReceiver(n) THEN "None"
     ELSE IF n.argc = 0 /\ n.sel \in {"whileTrue", "whileFalse"} /\ LiteralBlock(n.kids[1], 0)
     THEN n.sel
     ELSE IF n.argc = 1 /\ arg(1, 0)
             /\ \/ n.sel \in {"ifTrue:", "ifFalse:", "and:", "or:"}
                \/ n.sel \in {"whileTrue:", "whileFalse:"} /\ LiteralBlock(n.kids[1], 0)
     THEN n.sel
     ELSE IF \/ n.argc = 2 /\ n.sel \in {"ifTrue:ifFalse:", "ifFalse:ifTrue:"} /\ arg(1, 0) /\ arg(2, 0)
             \/ n.argc = 2 /\ n.sel = "to:do:" /\ arg(2, 1)
             \/ n.argc = 3 /\ n.sel = "to:by:do:" /\ arg(3, 1)
                /\ KnownStep(n.kids[3])
     THEN n.sel ELSE "None"

Loops == {"whileTrue", "whileFalse", "whileTrue:", "whileFalse:"}

-------------------------------------------------------------------------------
\* The analysis: declarations and uses of the names, in the order of the walk

Join(seqs) == FlattenSeq(seqs)

Declares(p, real, names, kind, from) ==
  [i \in 1 .. Len(names) |->
     [is |-> "decl", var |-> <<p, from + i>>, name |-> names[i], kind |-> kind, real |-> real]]

(* reference: the innermost declaration of the name, if any. *)
Reference(n, p, env, write) ==
  LET at == {i \in 1 .. Len(env.scopes): \E j \in 1 .. Len(env.scopes[i]): env.scopes[i][j].name = n.name}
      scope == env.scopes[CHOOSE i \in at: \A j \in at: i <= j]
      v == scope[CHOOSE j \in 1 .. Len(scope): scope[j].name = n.name]
  IN IF at = {} THEN <<>>
     ELSE <<[is |-> "ref", path |-> p, var |-> v.var, kind |-> v.kind, from |-> env.real,
             real |-> v.real, write |-> write]>>

RECURSIVE Walk(_, _, _)

WalkKids(n, p, env) == Join([i \in 1 .. Len(n.kids) |-> Walk(n.kids[i], Append(p, i), env)])

Inner(real, scope, env) == [real |-> real, scopes |-> <<scope>> \o env.scopes]

(* A block, inlined into the enclosing real scope or a real scope of its own. *)
WalkBlock(n, p, env, real, paramKind) ==
  LET scope == Declares(p, real, n.params, paramKind, 0)
                 \o Declares(p, real, n.temps, "Temp", Len(n.params))
  IN <<[is |-> "scope", real |-> real]>> \o scope \o WalkKids(n, p, Inner(real, scope, env))

InlinedKid(n, p, env, i, kind) == WalkBlock(n.kids[i], Append(p, i), env, env.real, kind)

WalkInlined(n, p, env) ==
  LET kid(i) == Walk(n.kids[i], Append(p, i), env)
      last == Len(n.kids)
  IN CASE Plan(n) \in Loops ->
            Join([i \in 1 .. last |-> InlinedKid(n, p, env, i, "Temp")])
       [] Plan(n) \in {"to:do:", "to:by:do:"} ->
            Join([i \in 1 .. last - 1 |-> kid(i)])
              \o Declares(p, env.real, <<"">>, "Hidden", 0)
              \o InlinedKid(n, p, env, last, "LoopVar")
       [] OTHER ->
            kid(1) \o Join([i \in 1 .. last - 1 |-> InlinedKid(n, p, env, i + 1, "Temp")])

Walk(n, p, env) ==
  CASE n.k = "Var" -> Reference(n, p, env, FALSE)
    [] n.k = "Assign" -> WalkKids(n, p, env) \o Reference(n, p, env, TRUE)
    [] n.k = "Cascade" ->
         Join([i \in 1 .. Len(n.kids) |-> WalkKids(n.kids[i], Append(p, i), env)])
    [] n.k = "Block" -> WalkBlock(n, p, env, p, "Arg")
    [] n.k = "Send" /\ Plan(n) # "None" -> WalkInlined(n, p, env)
    [] OTHER -> WalkKids(n, p, env)

(* The declarations and the uses, and the real scopes they are in. *)
Analysis(m) ==
  LET walk == WalkBlock(m, <<>>, [real |-> <<>>, scopes |-> <<>>], <<>>, "Arg")
  IN [decls |-> SelectSeq(walk, LAMBDA e: e.is = "decl"),
      refs  |-> SelectSeq(walk, LAMBDA e: e.is = "ref"), reals |-> {e.real: e \in Range(walk)}]

AssignsParameter(an) == \E e \in Range(an.refs): e.write /\ e.kind = "Arg"   \* mutant

AssignsArgument(an) ==
  \E e \in Range(an.refs): e.write /\ e.kind \in {"Arg", "LoopVar"}

-------------------------------------------------------------------------------
\* Layout: [args][plain temps][temp vectors][copied]

BoxedAssigned(an, v) == v.kind = "Temp" /\ \E e \in Range(an.refs): e.var = v.var /\ e.write
                                                            /\ e.from = v.real   \* mutant

(* A temp that a nested real scope captures and that is assigned anywhere lives
   in a temp vector of its declaring node; other captures copy the value. *)
Boxed(an, v) ==
  LET uses == {e \in Range(an.refs): e.var = v.var}
  IN v.kind = "Temp" /\ (\E e \in uses: e.from # v.real) /\ (\E e \in uses: e.write)

VarsOf(an, real) == SelectSeq(an.decls, LAMBDA v: v.real = real)
BoxedOf(an, real) == SelectSeq(VarsOf(an, real), LAMBDA v: Boxed(an, v))

Plain(an, real) ==
  SelectSeq(VarsOf(an, real), LAMBDA v: v.kind = "Arg")
    \o SelectSeq(VarsOf(an, real), LAMBDA v: v.kind # "Arg" /\ ~Boxed(an, v))

Distinct(s) == SelectSeq([i \in 1 .. Len(s) |-> [i |-> i, e |-> s[i]]],
                         LAMBDA x: \A j \in 1 .. x.i - 1: s[j] # x.e)
Uniq(s) == LET d == Distinct(s) IN [i \in 1 .. Len(d) |-> d[i].e]

(* The declaring nodes with a temp vector in the real scope. *)
Vectors(an, real) == LET b == BoxedOf(an, real) IN Uniq([i \in 1 .. Len(b) |-> b[i].var[1]])

Position(s, e) == (CHOOSE i \in 1 .. Len(s): s[i] = e) - 1

DeclOf(an, var) == an.decls[CHOOSE i \in 1 .. Len(an.decls): an.decls[i].var = var]

(* A capture is a variable, or the temp vector of a declaring node. *)
CaptureOf(an, v) == IF Boxed(an, v) THEN [vector |-> v.var[1]] ELSE [var |-> v.var]

(* Every real scope between a use and the variable's own copies the capture. *)
Copied(an, real) ==
  LET outer == SelectSeq(an.refs, LAMBDA e: /\ e.from # e.real /\ e.real # real
                                             /\ IsPrefix(e.real, real) /\ IsPrefix(real, e.from))
  IN Uniq([i \in 1 .. Len(outer) |-> CaptureOf(an, DeclOf(an, outer[i].var))])

(* Each real scope's temporaries, laid out once for the whole method. *)
Layout(an) ==
  [decls |-> an.decls, refs |-> an.refs,
   boxed   |-> {v \in Range(an.decls): Boxed(an, v)},
   plain   |-> [real \in an.reals |-> Plain(an, real)],
   vectors |-> [real \in an.reals |-> Vectors(an, real)],
   copied  |-> [real \in an.reals |-> Copied(an, real)]]

VecVars(lay, decl) == SelectSeq(lay.decls, LAMBDA v: v.var[1] = decl /\ v \in lay.boxed)

CopiedBase(lay, real) == Len(lay.plain[real]) + Len(lay.vectors[real])

NumTemps(lay, real) == CopiedBase(lay, real) + Len(lay.copied[real])

-------------------------------------------------------------------------------
\* Emission

(* An Emitter: the layout, its real scope, whether undeclared names are bindings
   (a doIt), the code so far and the literals. *)
Emitter(lay, real, doIt) == [lay |-> lay, real |-> real, doIt |-> doIt, code |-> <<>>, lits |-> <<>>, failed |-> FALSE]

Fail(em) == [em EXCEPT !.failed = TRUE]

Emit(em, cells) == [em EXCEPT !.code = @ \o cells]

(* intern: equal symbols and integers share a literal; methods never do. *)
Intern(em, lit) ==
  IF lit.is # "method" /\ lit \in Range(em.lits) THEN em ELSE [em EXCEPT !.lits = Append(@, lit)]

LitIndex(em, lit) ==
  IF lit.is = "method" THEN Len(em.lits) - 1 ELSE Position(em.lits, lit)

WithLit(em, op, lit, rest) ==
  LET i == Intern(em, lit) IN Emit(i, <<op, LitIndex(i, lit)>> \o rest)

Here(em) == Len(em.code)

(* patchJump: the offset counts from the instruction after the jump. *)
Patch(em, at) == [em EXCEPT !.code[at + 2] = Here(em) - (at + 3)]

Jump(em, op) == Emit(em, <<op, 0, 0>>)
JumpBack(em, op, target) == Emit(em, <<op, target - (Here(em) + 3), 0>>)

CopiedIndex(em, cap) == CopiedBase(em.lay, em.real) + Position(em.lay.copied[em.real], cap)

OwnVector(em, decl) == Len(em.lay.plain[em.real]) + Position(em.lay.vectors[em.real], decl)

VectorTemp(em, v) == IF v.real = em.real THEN OwnVector(em, v.var[1])
                     ELSE CopiedIndex(em, [vector |-> v.var[1]])

PlainTemp(em, v) == IF v.real = em.real THEN Position(em.lay.plain[em.real], v)
                    ELSE CopiedIndex(em, [var |-> v.var])

(* Where the variable is: a slot of a temp vector, or a temp of the frame. *)
Place(em, v) == IF v \in em.lay.boxed
                THEN <<Position(VecVars(em.lay, v.var[1]), v), VectorTemp(em, v)>>
                ELSE <<PlainTemp(em, v)>>

Load(em, v) == Emit(em, <<IF v \in em.lay.boxed THEN "PushRemoteTemp" ELSE "PushTemp">> \o Place(em, v))

StoreKeeps(em, v, pop) ==   \* mutant
  Emit(em, <<IF v \in em.lay.boxed THEN "StoreRemoteTemp"
             ELSE IF pop THEN "PopStoreTemp" ELSE "StoreTemp">> \o Place(em, v))

Store(em, v, pop) ==
  Emit(em, <<IF v \in em.lay.boxed THEN IF pop THEN "PopStoreRemoteTemp" ELSE "StoreRemoteTemp"
             ELSE IF pop THEN "PopStoreTemp" ELSE "StoreTemp">> \o Place(em, v))

PushCapture(em, cap) ==
  Emit(em, <<"PushTemp", IF "var" \in DOMAIN cap THEN PlainTemp(em, DeclOf(em.lay, cap.var))
                         ELSE VectorTemp(em, VecVars(em.lay, cap.vector)[1])>>)

(* emitEntry: fresh temp vectors, and nil in an inlined block's plain temps. *)
Entry(em, p, inlined) ==
  LET temps == SelectSeq(em.lay.plain[em.real], LAMBDA v: v.var[1] = p /\ v.kind = "Temp")
      nils == Join([i \in 1 .. Len(temps) |-> <<"PushNil", "PopStoreTemp", PlainTemp(em, temps[i])>>])
      vector == IF p \in Range(em.lay.vectors[em.real])
                THEN <<"PushNewArray", Len(VecVars(em.lay, p)), "PopStoreTemp", OwnVector(em, p)>> ELSE <<>>
  IN Emit(em, (IF inlined THEN nils ELSE <<>>) \o vector)

(* The declaration a Variable or Assign names; <<>> for a name that is not local. *)
Local(em, p) ==
  LET r == SelectSeq(em.lay.refs, LAMBDA e: e.path = p)
  IN IF r = <<>> THEN <<>> ELSE <<DeclOf(em.lay, r[1].var)>>

Specials == <<"+", "-", "*", "<", ">", "<=", ">=", "=", "value", "value:">>

InstVar(name) == Position(InstVarNames, name)
Pseudo == [self |-> "PushReceiver", thisContext |-> "PushThisContext", nil |-> "PushNil",
           true |-> "PushTrue", false |-> "PushFalse"]
PseudoNames == DOMAIN Pseudo \union {"super"}
Symbol(s)  == [is |-> "symbol", text |-> s]
Binding(s) == [is |-> "binding", text |-> s]

(* compileVariable: local, instance, pseudo, class variable, binding or global. *)
Variable(em, n, p) ==
  LET v == Local(em, p)
  IN CASE v # <<>> -> Load(em, v[1])
       [] v = <<>> /\ n.name \in Range(InstVarNames) -> Emit(em, <<"PushInstVar", InstVar(n.name)>>)
       [] v = <<>> /\ n.name \notin Range(InstVarNames) ->
            IF n.name = "super" THEN Fail(em)
            ELSE IF n.name \in DOMAIN Pseudo THEN Emit(em, <<Pseudo[n.name]>>)
            ELSE IF n.name \in ClassVarNames \/ (em.doIt /\ n.name \notin KnownGlobals)
            THEN WithLit(em, "PushLitVar", Binding(n.name), <<>>)
            ELSE WithLit(em, "PushGlobal", Symbol(n.name), <<>>)

(* The store of compileAssign, after its value. *)
StoreName(em, n, p, pop) ==
  LET v == Local(em, p)
  IN CASE v # <<>> -> Store(em, v[1], pop)
       [] v = <<>> /\ n.name \in Range(InstVarNames) ->
            IF InstVar(n.name) < KernelInstVars THEN Fail(em)
            ELSE Emit(em, <<IF pop THEN "PopStoreInstVar" ELSE "StoreInstVar", InstVar(n.name)>>)
       [] v = <<>> /\ n.name \notin Range(InstVarNames) ->
            IF n.name \in ClassVarNames \/ (em.doIt /\ n.name \notin PseudoNames \union KnownGlobals)
            THEN WithLit(em, IF pop THEN "PopStoreLitVar" ELSE "StoreLitVar", Binding(n.name), <<>>)
            ELSE Fail(em)

Literal(em, n) ==
  CASE n.value = -1 -> Emit(em, <<"PushMinusOne">>)
    [] n.value = 0  -> Emit(em, <<"PushZero">>)
    [] n.value = 1  -> Emit(em, <<"PushOne">>)
    [] n.value = 2  -> Emit(em, <<"PushTwo">>)
    [] OTHER        -> WithLit(em, "PushLiteral", [is |-> "int", value |-> n.value], <<>>)

SendOf(em, n) ==
  IF n.sel \in Range(Specials) THEN Emit(em, <<"SendSpecial", Position(Specials, n.sel), n.argc>>)
  ELSE WithLit(em, "Send", Symbol(n.sel), <<n.argc>>)

RECURSIVE Node(_, _, _, _), Stmts(_, _, _, _), Operands(_, _, _, _), Part(_, _, _), Cascade(_, _, _, _)

(* A node compiled for its value, or as a statement (asStmt). *)
Expr(em, n, p) == Node(em, n, p, TRUE)
Stmt(em, n, p) == Node(em, n, p, FALSE)

(* The first `count` statements of a sequence. *)
Stmts(em, n, p, count) ==
  IF count = 0 THEN em ELSE Stmt(Stmts(em, n, p, count - 1), n.kids[count], Append(p, count))

Return(em, n, p) ==
  IF em.real # <<>> THEN Emit(Expr(em, n.kids[1], Append(p, 1)), <<"ReturnBlock">>)
  ELSE IF n.kids[1].k = "Var" /\ n.kids[1].name \in {"self", "true", "false", "nil"}
  THEN Emit(em, <<[self |-> "ReturnReceiver", true |-> "ReturnTrue", false |-> "ReturnFalse",
                   nil |-> "ReturnNil"][n.kids[1].name]>>)
  ELSE Emit(Expr(em, n.kids[1], Append(p, 1)), <<"ReturnTop">>)

LastIs(n, kind) == n.kids # <<>> /\ n.kids[Len(n.kids)].k = kind

(* A sequence whose last value is wanted. *)
ValueOf(em, n, p) ==
  IF n.kids = <<>> THEN Emit(em, <<"PushNil">>)
  ELSE Expr(Stmts(em, n, p, Len(n.kids) - 1), n.kids[Len(n.kids)], Append(p, Len(n.kids)))

(* The kids from i on, each leaving its value on the stack. *)
Operands(em, n, p, i) ==
  IF i > Len(n.kids) THEN em ELSE Operands(Expr(em, n.kids[i], Append(p, i)), n, p, i + 1)

Send(em, n, p) == SendOf(Operands(em, n, p, 1), n)

(* compileCascade: the receiver is on the stack, one copy for each part. *)
Cascade(em, n, p, i) ==
  LET last == i = Len(n.kids)
      copy == IF last THEN em ELSE Emit(em, <<"Dup">>)
      sent == IF i = 1 THEN SendOf(Operands(copy, n.kids[1], Append(p, 1), 2), n.kids[1])
              ELSE Part(copy, n.kids[i], Append(p, i))
  IN IF last THEN sent ELSE Cascade(Emit(sent, <<"Pop">>), n, p, i + 1)

(* compileCascadePart: the first message of a part goes to the copy. *)
Part(em, n, p) ==
  LET chained == HasReceiver(n)
      below == IF chained THEN Part(em, n.kids[1], Append(p, 1)) ELSE em
  IN SendOf(Operands(below, n, p, IF chained THEN 2 ELSE 1), n)

(* compileBlock: the block's own method, then the captures and CreateBlock. *)
Block(em, n, p) ==
  LET entry == Entry(Emitter(em.lay, p, em.doIt), p, FALSE)
      value == ValueOf(entry, n.kids[1], Append(p, 1))
      body  == IF LastIs(n.kids[1], "Return") THEN value ELSE Emit(value, <<"ReturnTop">>)
      image == [args |-> Len(n.params), temps |-> NumTemps(em.lay, p), code |-> body.code,
                lits |-> body.lits]
      caps  == em.lay.copied[p]
      push  == FoldLeft(PushCapture, em, caps)
  IN IF body.failed THEN Fail(em)
     ELSE WithLit(push, "CreateBlock", [is |-> "method", method |-> image], <<Len(caps)>>)

InlinedValue(em, n, p, i) ==
  LET q == Append(p, i) IN ValueOf(Entry(em, q, TRUE), n.kids[i].kids[1], Append(q, 1))

InlinedEffect(em, n, p, i) ==
  LET q == Append(p, i) IN Stmt(Entry(em, q, TRUE), n.kids[i].kids[1], Append(q, 1))

(* receiver to: limit by: step do: block; the receiver stays as the value. *)
ToDo(em, n, p) ==
  LET last == Len(n.kids)
      v == DeclOf(em.lay, <<Append(p, last), 1>>)
      limit == DeclOf(em.lay, <<p, 1>>)
      down == last = 4 /\ n.kids[3].value < 0
      set == Store(Expr(Store(Emit(Expr(em, n.kids[1], Append(p, 1)), <<"Dup">>), v, TRUE),
                        n.kids[2], Append(p, 2)), limit, TRUE)
      test == SendOf(Load(Load(set, v), limit), [sel |-> IF down THEN ">=" ELSE "<=", argc |-> 1])
      body == InlinedEffect(Jump(test, "JumpFalse"), n, p, last)
      step == IF last = 4 THEN Expr(Load(body, v), n.kids[3], Append(p, 3))
                          ELSE Emit(Load(body, v), <<"PushOne">>)
      next == Store(SendOf(step, [sel |-> "+", argc |-> 1]), v, TRUE)
  IN Patch(JumpBack(next, "Jump", Here(set)), Here(test))

(* compileInlined: each form leaves one value, like the send it replaces. *)
Inlined(em, n, p) ==
  LET plan == Plan(n)
      onTrue(sels) == IF plan \in sels THEN "JumpTrue" ELSE "JumpFalse"
      rcvr == Expr(em, n.kids[1], Append(p, 1))
      taken == InlinedValue(Jump(rcvr, onTrue({"ifFalse:", "or:", "ifFalse:ifTrue:"})), n, p, 2)
      skip == Patch(Jump(taken, "Jump"), Here(rcvr))
      other == IF Len(n.kids) = 3 THEN InlinedValue(skip, n, p, 3)
               ELSE Emit(skip, <<CASE plan = "and:" -> "PushFalse" [] plan = "or:" -> "PushTrue"
                                   [] OTHER -> "PushNil">>)
      cond == InlinedValue(em, n, p, 1)
      loop == InlinedEffect(Jump(cond, onTrue({"whileFalse:"})), n, p, 2)
  IN CASE plan \in {"to:do:", "to:by:do:"} -> ToDo(em, n, p)
       [] plan \in {"whileTrue", "whileFalse"} ->
            Emit(JumpBack(cond, onTrue({"whileTrue"}), Here(em)), <<"PushNil">>)
       [] plan \in {"whileTrue:", "whileFalse:"} ->
            Emit(Patch(JumpBack(loop, "Jump", Here(em)), Here(cond)), <<"PushNil">>)
       [] OTHER -> Patch(other, Here(taken))

(* What leaves a value of its own on the stack. *)
LeavesValue(em, n, p) ==
  CASE n.k = "Send"    -> IF Plan(n) # "None" THEN Inlined(em, n, p) ELSE Send(em, n, p)
    [] n.k = "Cascade" -> Cascade(Expr(em, n.kids[1].kids[1], p \o <<1, 1>>), n, p, 1)
    [] n.k = "Var"     -> Variable(em, n, p)
    [] n.k = "Lit"     -> Literal(em, n)
    [] n.k = "Block"   -> Block(em, n, p)

Node(em, n, p, wanted) ==
  CASE n.k = "Return" -> Return(em, n, p)
    [] n.k = "Seq"    -> IF wanted THEN ValueOf(em, n, p) ELSE Stmts(em, n, p, Len(n.kids))
    [] n.k = "Assign" -> StoreName(Expr(em, n.kids[1], Append(p, 1)), n, p, ~wanted)
    [] OTHER          -> Emit(LeavesValue(em, n, p), IF wanted THEN <<>> ELSE <<"Pop">>)

(* compileMethod: a method answers its receiver, a doIt its last value. *)
Codegen(m) ==
  LET an == Analysis(m)
      lay == Layout(an)
      entry == Entry(Emitter(lay, <<>>, m.doIt), <<>>, FALSE)
      seq == m.kids[1]
      em == IF LastIs(seq, "Return") THEN Stmts(entry, seq, <<1>>, Len(seq.kids))
            ELSE IF m.doIt /\ seq.kids # <<>> THEN Emit(ValueOf(entry, seq, <<1>>), <<"ReturnTop">>)
            ELSE Emit(Stmts(entry, seq, <<1>>, Len(seq.kids)), <<"ReturnReceiver">>)
  IN [ok |-> ~AssignsArgument(an) /\ ~em.failed,
      image |-> [args |-> Len(m.params), temps |-> NumTemps(lay, <<>>), code |-> em.code,
                 lits |-> em.lits]]
=============================================================================
