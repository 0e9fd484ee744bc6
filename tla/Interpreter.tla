------------------------------ MODULE Interpreter ------------------------------
(* The bytecode loop (runtime/src/Interpreter.cpp) on the code Codegen emits:   *)
(* activations with their temps and operand stacks, closures with copied values,*)
(* temp vectors, jumps, returns, and the sends answered without a method.  A    *)
(* send nothing understands ends the run.  Halts, unwinding and collections are *)
(* in Unwind, Session and Compaction.                                           *)
EXTENDS Codegen, SmalltalkMeaning

CONSTANTS Programs,     \* the methods and doIts to compile
          Arguments,    \* the arguments they are started with
          Fields        \* the names of all fields and bindings, nil at the start

VARIABLES prog,         \* the program
          frames,       \* the activations, the running one first
          vecs,         \* the temp vectors made so far
          fields,       \* instance variables, class variables and bindings
          out           \* "source", "running", "rejected", or the result

vars == <<prog, frames, vecs, fields, out>>

(* A frame: its method's image, the pc, the temps, the operand stack and whether
   it is a block's activation. *)
Activation(image, args, copied, block) ==
  [image |-> image, pc |-> 0, stack |-> <<>>, block |-> block,
   temps |-> [i \in 1 .. image.temps |->
                IF i <= Len(args) THEN args[i]
                ELSE IF i > image.temps - Len(copied)
                THEN copied[i - (image.temps - Len(copied))] ELSE Nil]]

Frame == frames[1]
Op    == Frame.image.code[Frame.pc + 1]
Arg(i) == Frame.image.code[Frame.pc + 1 + i]
Lit   == Frame.image.lits[Arg(1) + 1]
Depth == Len(Frame.stack)
Peek(i) == Frame.stack[Depth - i]

(* Operands of each instruction, and the stack values it takes. *)
Width == [op \in {"PushTemp", "PushInstVar", "PushLiteral", "PushGlobal", "StoreTemp", "StoreInstVar",
                  "PopStoreTemp", "PopStoreInstVar", "PushNewArray", "PushLitVar", "StoreLitVar",
                  "PopStoreLitVar"} |-> 1]
OperandBytes(op) ==
  IF op \in DOMAIN Width THEN 1
  ELSE IF op \in {"Send", "SendSpecial", "Jump", "JumpTrue", "JumpFalse", "CreateBlock",
                  "PushRemoteTemp", "StoreRemoteTemp", "PopStoreRemoteTemp"} THEN 2 ELSE 0

Takes == CASE Op \in {"Send", "SendSpecial"} -> Arg(2) + 1
           [] Op = "CreateBlock" -> Arg(2)
           [] Op \in {"Pop", "Dup", "JumpTrue", "JumpFalse", "ReturnTop", "ReturnBlock", "StoreTemp",
                      "PopStoreTemp", "StoreInstVar", "PopStoreInstVar", "StoreRemoteTemp",
                      "PopStoreRemoteTemp", "StoreLitVar", "PopStoreLitVar"} -> 1
           [] OTHER -> 0

(* The vector of a remote-temp instruction: temp Arg(2), its slot Arg(1). *)
RemoteSlot == /\ Arg(2) < Len(Frame.temps)
              /\ Frame.temps[Arg(2) + 1].t = "vector"
              /\ Arg(1) < Len(vecs[Frame.temps[Arg(2) + 1].id])

InRange ==
  CASE Op \in {"PushTemp", "StoreTemp", "PopStoreTemp"} -> Arg(1) < Len(Frame.temps)
    [] Op \in {"PushInstVar", "StoreInstVar", "PopStoreInstVar"} -> Arg(1) < Len(InstVarNames)
    [] Op \in {"PushLiteral", "PushGlobal", "Send"} -> Arg(1) < Len(Frame.image.lits)
    [] Op \in {"PushLitVar", "StoreLitVar", "PopStoreLitVar"} ->
         Arg(1) < Len(Frame.image.lits) /\ Lit.is = "binding"
    [] Op = "CreateBlock" -> /\ Arg(1) < Len(Frame.image.lits)
                             /\ Lit.is = "method"
                             /\ Lit.method.args <= Lit.method.temps
                             /\ Lit.method.args + Arg(2) <= Lit.method.temps
    [] Op \in {"PushRemoteTemp", "StoreRemoteTemp", "PopStoreRemoteTemp"} -> RemoteSlot
    [] Op \in {"Jump", "JumpTrue", "JumpFalse"} -> Frame.pc + 3 + Arg(1) \in 0 .. Len(Frame.image.code)
    [] OTHER -> TRUE

(* The negation of the exits for malformed code: past the end, an operand missing, the
   stack too short, an index out of range. *)
WellFormed == /\ Frame.pc < Len(Frame.image.code)
              /\ Frame.pc + 1 + OperandBytes(Op) <= Len(Frame.image.code)
              /\ Depth >= Takes
              /\ InRange

-------------------------------------------------------------------------------
Init == /\ prog \in Programs
        /\ frames = <<>> /\ vecs = <<>> /\ out = [t |-> "source"]
        /\ fields = [f \in Fields |-> Nil]

Compiled == [m \in Programs |-> Codegen(m)]

Compile ==
  /\ out.t = "source"
  /\ \E c \in {Compiled[prog]}:
       IF c.ok
       THEN /\ frames' = <<Activation(c.image, SubSeq(Arguments, 1, c.image.args), <<>>, FALSE)>>
            /\ out' = [t |-> "running"]
       ELSE frames' = <<>> /\ out' = [t |-> "rejected"]
  /\ UNCHANGED <<prog, vecs, fields>>

Runs(ops) == out.t = "running" /\ Op \in ops

(* The running frame after its instruction: the operands read, `pops` values gone and
   `push` on the stack. *)
Next1(pops, push) ==
  [Frame EXCEPT !.pc = @ + 1 + OperandBytes(Op), !.stack = SubSeq(@, 1, Depth - pops) \o push]
Goes(f) == frames' = <<f>> \o Tail(frames)
Pushes(v) == Goes(Next1(0, <<v>>))
Running == UNCHANGED <<prog, out>>

Constant ==
  [PushReceiver |-> Self, PushTrue |-> True, PushFalse |-> False, PushNil |-> Nil, PushMinusOne |-> Num(-1),
   PushZero |-> Num(0), PushOne |-> Num(1), PushTwo |-> Num(2)]

Push == /\ Runs(DOMAIN Constant \union {"PushTemp", "PushInstVar", "PushLiteral", "PushGlobal", "PushLitVar"})
        /\ Pushes(CASE Op \in DOMAIN Constant -> Constant[Op]
                    [] Op = "PushTemp" -> Frame.temps[Arg(1) + 1]
                    [] Op = "PushInstVar" -> fields[InstVarNames[Arg(1) + 1]]
                    [] Op = "PushLiteral" -> Num(Lit.value)
                    [] Op \in {"PushGlobal", "PushLitVar"} -> fields[Lit.text])
        /\ Running /\ UNCHANGED <<vecs, fields>>

PopDup == /\ Runs({"Pop", "Dup"})
          /\ Goes(IF Op = "Pop" THEN Next1(1, <<>>) ELSE Next1(0, <<Peek(0)>>))
          /\ Running /\ UNCHANGED <<vecs, fields>>

Popped(ops) == Next1(IF Op \in ops THEN 1 ELSE 0, <<>>)

StoreTemp == /\ Runs({"StoreTemp", "PopStoreTemp"})
             /\ Goes([Popped({"PopStoreTemp"}) EXCEPT !.temps[Arg(1) + 1] = Peek(0)])
             /\ Running /\ UNCHANGED <<vecs, fields>>

StoreField ==
  /\ Runs({"StoreInstVar", "PopStoreInstVar", "StoreLitVar", "PopStoreLitVar"})
  /\ LET f == IF Op \in {"StoreInstVar", "PopStoreInstVar"} THEN InstVarNames[Arg(1) + 1] ELSE Lit.text
     IN fields' = [fields EXCEPT ![f] = Peek(0)]
  /\ Goes(Popped({"PopStoreInstVar", "PopStoreLitVar"}))
  /\ Running /\ UNCHANGED vecs

PushNewArray == /\ Runs({"PushNewArray"})
                /\ vecs' = Append(vecs, [i \in 1 .. Arg(1) |-> Nil])
                /\ Pushes([t |-> "vector", id |-> Len(vecs) + 1])
                /\ Running /\ UNCHANGED fields

RemoteTemp ==
  /\ Runs({"PushRemoteTemp", "StoreRemoteTemp", "PopStoreRemoteTemp"})
  /\ LET id == Frame.temps[Arg(2) + 1].id
     IN IF Op = "PushRemoteTemp" THEN Pushes(vecs[id][Arg(1) + 1]) /\ UNCHANGED vecs
        ELSE Goes(Popped({"PopStoreRemoteTemp"})) /\ vecs' = [vecs EXCEPT ![id][Arg(1) + 1] = Peek(0)]
  /\ Running /\ UNCHANGED fields

CreateBlock ==
  /\ Runs({"CreateBlock"})
  /\ Goes(Next1(Arg(2), <<[t |-> "closure", image |-> Lit.method,
                           copied |-> SubSeq(Frame.stack, Depth - Arg(2) + 1, Depth)]>>))
  /\ Running /\ UNCHANGED <<vecs, fields>>

Jumps ==
  /\ Runs({"Jump", "JumpTrue", "JumpFalse"})
  /\ LET next == Next1(IF Op = "Jump" THEN 0 ELSE 1, <<>>)
         take == \/ Op = "Jump"
                 \/ Op = "JumpTrue" /\ Peek(0) = True
                 \/ Op = "JumpFalse" /\ Peek(0) = False
     IN IF Op # "Jump" /\ Peek(0) \notin {True, False}
        THEN frames' = <<>> /\ out' = [t |-> "error"]          \* mustBeBoolean, then an abort
        ELSE Goes([next EXCEPT !.pc = IF take THEN @ + Arg(1) ELSE @]) /\ UNCHANGED out
  /\ UNCHANGED <<prog, vecs, fields>>

(* Boolean's natives: the argument block they value, or their answer without one. *)
BlockArg(sel, b) ==
  IF <<sel, b>> \in {<<"ifTrue:", TRUE>>, <<"ifFalse:", FALSE>>, <<"and:", TRUE>>, <<"or:", FALSE>>,
                    <<"ifTrue:ifFalse:", TRUE>>, <<"ifFalse:ifTrue:", FALSE>>} THEN 1
  ELSE IF <<sel, b>> \in {<<"ifTrue:ifFalse:", FALSE>>, <<"ifFalse:ifTrue:", TRUE>>} THEN 2 ELSE 0

BooleanAnswer(sel, b, args) ==
  LET logical == Len(args) = 1 /\ args[1] \in {True, False}
  IN CASE sel \in {"ifTrue:", "ifFalse:"} -> <<Nil>>
       [] sel \in {"and:", "or:"} -> <<Bool(b)>>
       [] sel = "not" -> <<Bool(~b)>>
       [] sel = "&" -> <<IF b THEN args[1] ELSE False>>
       [] sel = "|" -> <<IF b THEN True ELSE args[1]>>
       [] sel = "eqv:" /\ logical -> <<Bool(b <=> args[1] = True)>>
       [] sel = "xor:" /\ logical -> <<Bool(b # (args[1] = True))>>
       [] OTHER -> <<>>

(* The closure a send activates and its arguments, and the answer of one that needs none. *)
Callee(sel, rcvr, args) ==
  LET i == IF rcvr \in {True, False} THEN BlockArg(sel, rcvr = True) ELSE 0
  IN IF sel \in {"value", "value:"} THEN <<rcvr, args>> ELSE IF i > 0 THEN <<args[i], <<>>>> ELSE <<>>

Answer(sel, rcvr, args) ==
  LET fast == IF Len(args) = 1 THEN Arithmetic(sel, rcvr, args[1]) ELSE <<>>
  IN IF fast # <<>> THEN fast
     ELSE IF sel = "yourself" THEN <<rcvr>>
     ELSE IF rcvr \in {True, False} THEN BooleanAnswer(sel, rcvr = True, args) ELSE <<>>

(* performSend: a closure's activation starts, or the answer replaces the operands; a send
   that fails aborts. *)
Sends ==
  /\ Runs({"Send", "SendSpecial"})
  /\ LET sel  == IF Op = "Send" THEN Lit.text ELSE Specials[Arg(1) + 1]
         args == SubSeq(Frame.stack, Depth - Arg(2) + 1, Depth)
         call == Callee(sel, Peek(Arg(2)), args)
         answer == Answer(sel, Peek(Arg(2)), args)
         back == Next1(Arg(2) + 1, <<>>)
     IN IF call # <<>> /\ call[1].t = "closure"
        THEN IF call[1].image.args = Len(call[2])
             THEN /\ frames' = <<Activation(call[1].image, call[2], call[1].copied, TRUE), back>> \o Tail(frames)
                  /\ UNCHANGED out
             ELSE frames' = <<>> /\ out' = [t |-> "error"]
        ELSE IF call = <<>> /\ answer # <<>> THEN Goes(Next1(Arg(2) + 1, answer)) /\ UNCHANGED out
        ELSE frames' = <<>> /\ out' = [t |-> "error"]
  /\ UNCHANGED <<prog, vecs, fields>>

(* A value goes on the caller's stack; ^ in a block ends the method. *)
Returns ==
  /\ Runs({"ReturnReceiver", "ReturnTrue", "ReturnFalse", "ReturnNil", "ReturnTop", "ReturnBlock"})
  /\ LET v == CASE Op = "ReturnReceiver" -> Self [] Op = "ReturnTrue" -> True
                [] Op = "ReturnFalse" -> False [] Op = "ReturnNil" -> Nil [] OTHER -> Peek(0)
     IN IF Len(frames) = 1 \/ (Op = "ReturnBlock" /\ Frame.block)
        THEN frames' = <<>> /\ out' = [t |-> "value", v |-> v]
        ELSE /\ frames' = <<[frames[2] EXCEPT !.stack = Append(@, v)]>> \o SubSeq(frames, 3, Len(frames))
             /\ UNCHANGED out
  /\ UNCHANGED <<prog, vecs, fields>>

Done == out.t \in {"value", "error", "rejected"} /\ UNCHANGED vars

Next == Compile \/ Push \/ PopDup \/ StoreTemp \/ StoreField \/ PushNewArray \/ RemoteTemp
          \/ CreateBlock \/ Jumps \/ Sends \/ Returns \/ Done

Spec == Init /\ [][Next]_vars
-------------------------------------------------------------------------------
(* What the host sees of a value: a closure only as one. *)
Shown(v) == IF v.t = "closure" THEN [t |-> "closure"] ELSE v

Observed(r, fs) == [t |-> r.t, fields |-> [f \in Fields |-> Shown(fs[f])],
                    v |-> IF r.t = "value" THEN Shown(r.v) ELSE Nil]

Meant == [m \in Programs |-> Meaning(m, Arguments, [f \in Fields |-> Nil])]

(* The compiled program computes what the source means: temporaries that blocks share or
   copy, blocks expanded in line, jumps and cascades make no difference to its answer, to the
   instance variables and bindings it leaves, or to whether it fails (Codegen.cpp layout,
   compileInlined, compileToDo, emitEntry). *)
CompiledMeansSource ==
  out.t \in {"value", "error"} =>
    Observed(out, fields) = Observed(Meant[prog], Meant[prog].fields)

(* No code of the generator takes one of the loop's exits for malformed code: a jump stays in
   the method, the stack never runs short, every index is in range, a remote temp is in a vector. *)
CodeWellFormed == out.t = "running" => WellFormed

(* A method that runs to its end leaves nothing on its operand stack: statements, loops and
   cascades in line pop what they push, on every pass. *)
StatementsLeaveNothing ==
  out.t = "running" /\ ~Frame.block /\ ~prog.doIt /\ ~LastIs(prog.kids[1], "Return")
    /\ Frame.pc = Len(Frame.image.code) - 1 => Depth = 0

(* Assignments no program may make, by the scopes of the source alone. *)
RECURSIVE Illegal(_, _)
Illegal(n, env) ==
  LET inner == IF n.k \in {"Block", "Method"}
               THEN <<[args |-> Range(n.params), temps |-> Range(n.temps)]>> \o env ELSE env
      scopes == {i \in 1 .. Len(env): n.name \in env[i].args \union env[i].temps}
      first == CHOOSE i \in scopes: \A j \in scopes: i <= j
      bad == IF scopes # {} THEN n.name \in env[first].args
             ELSE \/ n.name \in PseudoNames
                  \/ n.name \in {InstVarNames[i]: i \in 1 .. KernelInstVars}
                  \/ prog.doIt /\ n.name \in KnownGlobals
                  \/ ~prog.doIt /\ n.name \notin ClassVarNames \union Range(InstVarNames)
  IN \/ n.k = "Assign" /\ bad
     \/ \E i \in 1 .. Len(n.kids): Illegal(n.kids[i], inner)

(* The generator refuses exactly the programs that assign an argument, a loop variable, a
   pseudo-variable, a kernel class's own instance variable or an undeclared name. *)
RejectsExactly == out.t # "source" => (out.t = "rejected" <=> Illegal(prog, <<>>))

(* No instruction of the generator meets a case the loop has no rule for, and what a
   statement pushes it pops. *)
CodeRuns == CodeWellFormed /\ StatementsLeaveNothing
=============================================================================
