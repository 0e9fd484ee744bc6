------------------------------ MODULE UnwindProofs ------------------------------
(* That an unwinding leaves nothing behind and ends where it must, whatever the  *)
(* Smalltalk code does: for a stack of any size and any number of activations,   *)
(* aborts, restarts and handles.                                                 *)
EXTENDS Unwind, SequenceTheorems, FiniteSetTheorems, WellFoundedInduction, TLAPS

Us == [aborting: BOOLEAN, reason: Nat, handle: Nat, nonlocal: BOOLEAN, home: Int,
       restarting: BOOLEAN, target: Nat]
Cs == [u: Us, accept: BOOLEAN, abandoning: BOOLEAN]

MethodsAll == [kind: {"method"}, id: Nat]
BlocksAll  == [kind: {"block"}, id: Nat, home: Int]
NativesAll == [kind: {"ensure", "curtailed"}, id: Nat, home: Int, at: {"body", "cleanup"},
               ran: {0, 1}, answer: {"value", "empty"}, saved: Us]
Activations == MethodsAll \union BlocksAll \union NativesAll

Types ==
  /\ stack \in Seq(Activations) /\ ctl \in {"run", "call", "value", "empty", "done"}
  /\ ctx \in Cs
  /\ handles \subseteq 1 .. aborts /\ captured \in 0 .. aborts /\ outcome \in 0 .. aborts
  /\ calls \in Nat \ {0} /\ aborts \in Nat
  /\ stops \in 0 .. MaxStops /\ restarts \in 0 .. MaxRestarts

IsCleanup(i) == IsNative(stack[i]) /\ stack[i].at = "cleanup"
Beneath(i)   == \E j \in 1 .. Len(stack): j < i /\ IsCleanup(j)

(* One unwinding at a time; a handle only with an abort, a target with a restart. *)
Shape(u) ==
  /\ ~(u.aborting /\ u.nonlocal) /\ ~(u.aborting /\ u.restarting)
  /\ ~(u.nonlocal /\ u.restarting)
  /\ ~u.aborting => u.handle = 0
  /\ ~u.restarting => u.target = 0
  /\ u.reason <= aborts /\ u.handle <= aborts /\ u.target <= calls
  /\ u.home \in 0 .. calls

HomeBelow(home, i) ==
  home = Foreign \/ \E j \in 1 .. Len(stack): j < i /\ stack[j].kind = "method" /\ stack[j].id = home

(* What a cleanup set aside, and what its native is to answer. *)
Saved(a) ==
  /\ Shape(a.saved) /\ ~a.saved.restarting
  /\ a.answer = "empty" <=> (a.saved.aborting \/ a.saved.nonlocal)
  /\ a.kind = "curtailed" => a.answer = "empty"

(* Of one activation and those beneath it. *)
Layer(i) ==
  /\ stack[i].id \in 1 .. calls
  /\ stack[i].kind # "method" => stack[i].home \in -1 .. calls
  /\ \A j \in 1 .. Len(stack): j < i => stack[j].id < stack[i].id
  /\ i = 1 => ~IsNative(stack[i])
  /\ IsNative(stack[i]) /\ stack[i].at = "body" => stack[i].ran = 0
  /\ IsCleanup(i) => Saved(stack[i])
  /\ IsCleanup(i) /\ stack[i].saved.nonlocal => HomeBelow(stack[i].saved.home, i)
  /\ ~Beneath(i) => i <= StackLimit

Ran(i) == IsCleanup(i) => stack[i].ran = 1 \/ Beneath(i)

Layers == /\ \A i \in 1 .. Len(stack): Layer(i)
          /\ \A i \in 1 .. Len(stack): i < Len(stack) \/ ctl \in {"value", "empty"} => Ran(i)

Control ==
  /\ ctl # "empty" => ~Unwinding(ctx) /\ ~ctx.abandoning
  /\ ctl = "empty" /\ stack # <<>> => Unwinding(ctx)
  /\ ctl = "call" => stack # <<>> /\ IsNative(Top) /\ (Top.at = "cleanup" => Top.ran = 0)
  /\ ctl = "run" /\ stack # <<>> => ~IsNative(Top)
  /\ Shape(ctx.u)
  /\ ctx.abandoning => ctx.u.aborting
  /\ ctx.u.restarting => SetAside = {}
  /\ ctx.u.nonlocal => HomeBelow(ctx.u.home, Len(stack) + 1)

(* A restart's target is on the stack, a method if it accepts. *)
Armed ==
  /\ ctx.u.restarting => \E i \in 1 .. Len(stack): /\ ~IsNative(stack[i]) /\ stack[i].id = ctx.u.target
                                                   /\ ctx.accept => stack[i].kind = "method"
  /\ ctx.accept => ctx.u.restarting

Held == {i \in SetAside: stack[i].saved.handle # 0}
HandlesAre    == handles = {stack[i].saved.handle : i \in Held} \union ({ctx.u.handle} \ {0})
HandlesDiffer == \A i, j \in Held: stack[i].saved.handle = stack[j].saved.handle => i = j
HandlesApart  == \A i \in Held: stack[i].saved.handle # ctx.u.handle

(* While no abort is under way there was none. *)
FirstAbort == ~Alone /\ ctl # "done" => aborts = 0

IInv == /\ Types /\ Layers /\ Control /\ Armed
        /\ HandlesAre /\ HandlesDiffer /\ HandlesApart /\ FirstAbort

-------------------------------------------------------------------------------
\* Records

LEMMA ContextIs ==
  ASSUME NEW u \in Us, NEW a \in BOOLEAN, NEW b \in BOOLEAN
  PROVE  /\ CallContext(u, a, b) \in Cs /\ CallContext(u, a, b).u = u
         /\ CallContext(u, a, b).accept = a /\ CallContext(u, a, b).abandoning = b
BY DEF CallContext, Cs

LEMMA ContextFields ==
  ASSUME NEW c \in Cs
  PROVE  /\ c.u \in Us /\ c.accept \in BOOLEAN /\ c.abandoning \in BOOLEAN
         /\ c = CallContext(c.u, c.accept, c.abandoning)
         /\ \A v \in Us: [c EXCEPT !.u = v] = CallContext(v, c.accept, c.abandoning)
BY DEF CallContext, Cs

LEMMA SettledIs ==
  /\ Settled \in Us /\ ~Settled.aborting /\ ~Settled.nonlocal /\ ~Settled.restarting
  /\ Settled.reason = 0 /\ Settled.handle = 0 /\ Settled.home = 0 /\ Settled.target = 0
BY DEF Settled, Us

LEMMA SettledShape ==
  ASSUME Types
  PROVE  Shape(Settled)
<1>1. aborts \in Nat /\ calls \in Nat
  BY DEF Types
<1> QED
  BY <1>1, SettledIs DEF Shape

LEMMA ActivationKinds ==
  ASSUME NEW a \in Activations
  PROVE  /\ a.kind \in {"method", "block", "ensure", "curtailed"} /\ a.id \in Nat
         /\ IsNative(a) => /\ a \in NativesAll /\ a.home \in Int /\ a.at \in {"body", "cleanup"}
                           /\ a.ran \in {0, 1} /\ a.answer \in {"value", "empty"} /\ a.saved \in Us
         /\ ~IsNative(a) => a.kind \in {"method", "block"}
         /\ a.kind = "block" => a.home \in Int
<1>1. CASE a \in MethodsAll
  BY <1>1 DEF MethodsAll, IsNative
<1>2. CASE a \in BlocksAll
  BY <1>2 DEF BlocksAll, IsNative
<1>3. CASE a \in NativesAll
  BY <1>3 DEF NativesAll, IsNative
<1> QED
  BY <1>1, <1>2, <1>3 DEF Activations

LEMMA NewMethod ==
  ASSUME NEW n \in Nat
  PROVE  /\ MethodFrame(n) \in Activations /\ MethodFrame(n).kind = "method" /\ MethodFrame(n).id = n
         /\ ~IsNative(MethodFrame(n))
<1>1. MethodFrame(n) \in MethodsAll /\ MethodFrame(n).kind = "method" /\ MethodFrame(n).id = n
  BY DEF MethodFrame, MethodsAll
<1> QED
  BY <1>1 DEF Activations, IsNative

LEMMA NewBlock ==
  ASSUME NEW n \in Nat, NEW h \in Int
  PROVE  /\ BlockFrame(n, h) \in Activations /\ BlockFrame(n, h).kind = "block" /\ BlockFrame(n, h).id = n
         /\ BlockFrame(n, h).home = h /\ ~IsNative(BlockFrame(n, h))
<1>1. BlockFrame(n, h) \in BlocksAll /\ BlockFrame(n, h).kind = "block" /\ BlockFrame(n, h).id = n
      /\ BlockFrame(n, h).home = h
  BY DEF BlockFrame, BlocksAll
<1> QED
  BY <1>1 DEF Activations, IsNative

LEMMA NewNative ==
  ASSUME NEW k \in {"ensure", "curtailed"}, NEW n \in Nat, NEW h \in Int
  PROVE  LET a == NativeFrame(k, n, h)
         IN /\ a \in Activations /\ a.kind = k /\ a.id = n /\ a.home = h /\ IsNative(a)
            /\ a.at = "body" /\ a.ran = 0
<1> DEFINE a == NativeFrame(k, n, h)
<1>1. a \in NativesAll
  BY SettledIs DEF NativeFrame, NativesAll
<1>2. a.kind = k /\ a.id = n /\ a.home = h /\ a.at = "body" /\ a.ran = 0
  BY DEF NativeFrame
<1> QED
  BY <1>1, <1>2 DEF Activations, IsNative

-------------------------------------------------------------------------------
\* The stack

LEMMA StackTop ==
  ASSUME Types, stack # <<>>
  PROVE  /\ Len(stack) \in Nat \ {0} /\ Top \in Activations /\ Top = stack[Len(stack)]
         /\ Below \in Seq(Activations) /\ Len(Below) = Len(stack) - 1
         /\ \A i \in 1 .. Len(stack) - 1: Below[i] = stack[i]
<1>1. stack \in Seq(Activations) /\ Len(stack) \in Nat \ {0}
  BY EmptySeq DEF Types
<1>2. Top = stack[Len(stack)] /\ Top \in Activations
  BY <1>1, ElementOfSeq DEF Top
<1>3. /\ Below \in Seq(Activations) /\ Len(Below) = Len(stack) - 1
      /\ \A i \in 1 .. Len(stack) - 1: Below[i] = stack[i]
  <2> DEFINE n == Len(stack) - 1
  <2>1. n \in Int /\ 1 \in Int /\ \A i \in 1 .. n: i \in 1 .. Len(stack)
    BY <1>1
  <2>2. \A i \in 1 .. n: stack[i] \in Activations
    BY <1>1, <2>1, ElementOfSeq
  <2>3. Below = SubSeq(stack, 1, n)
    BY DEF Below
  <2> HIDE DEF n
  <2>4. /\ SubSeq(stack, 1, n) \in Seq(Activations)
        /\ Len(SubSeq(stack, 1, n)) = IF 1 <= n THEN n - 1 + 1 ELSE 0
        /\ \A i \in 1 .. n - 1 + 1: SubSeq(stack, 1, n)[i] = stack[1 + i - 1]
    BY <2>1, <2>2, SubSeqProperties
  <2>5. \A i \in 1 .. n: 1 + i - 1 = i /\ i \in 1 .. n - 1 + 1
    BY <2>1
  <2>6. n \in Nat /\ (1 <= n \/ n = 0)
    <3>1. \A m \in Nat \ {0}: m - 1 \in Nat /\ (1 <= m - 1 \/ m - 1 = 0)
      OBVIOUS
    <3>2. Len(stack) \in Nat \ {0}
      BY <1>1
    <3> QED
      BY <3>1, <3>2 DEF n
  <2>7. Len(Below) = n
    BY <2>3, <2>4, <2>6
  <2>8. \A i \in 1 .. n: Below[i] = stack[i]
    BY <2>3, <2>4, <2>5
  <2> QED
    BY <2>3, <2>4, <2>7, <2>8 DEF n
<1> QED
  BY <1>1, <1>2, <1>3

LEMMA LenIs ==
  ASSUME Types
  PROVE  /\ Len(stack) \in Nat /\ stack \in Seq(Activations)
         /\ (Len(stack) = 0) <=> (stack = <<>>)
         /\ \A i \in 1 .. Len(stack): stack[i] \in Activations
BY EmptySeq, ElementOfSeq, LenProperties DEF Types

(* The activations up to the n-th are as they were. *)
Kept(n) == /\ n \in Nat /\ n <= Len(stack) /\ n <= Len(stack')
           /\ \A j \in 1 .. n: stack'[j] = stack[j]
           /\ calls' \in Nat /\ aborts' \in Nat /\ calls <= calls' /\ aborts <= aborts'

LEMMA ShapeKept ==
  ASSUME Types, NEW n, Kept(n), NEW u \in Us, Shape(u)
  PROVE  Shape(u)'
<1>1. /\ calls \in Nat /\ aborts \in Nat /\ calls' \in Nat /\ aborts' \in Nat
      /\ calls <= calls' /\ aborts <= aborts'
  BY DEF Types, Kept
<1>2. u.reason \in Nat /\ u.handle \in Nat /\ u.target \in Nat
  BY DEF Us
<1> QED
  BY <1>1, <1>2 DEF Shape

LEMMA PrefixSame ==
  ASSUME Types, Types', NEW n, Kept(n)
  PROVE  /\ \A i \in 1 .. n: IsCleanup(i)' <=> IsCleanup(i)
         /\ \A i \in 1 .. n + 1: Beneath(i)' <=> Beneath(i)
         /\ \A i \in 1 .. n + 1: \A h: HomeBelow(h, i)' <=> HomeBelow(h, i)
<1>1. /\ Len(stack) \in Nat /\ Len(stack') \in Nat /\ n \in Nat
      /\ n <= Len(stack) /\ n <= Len(stack') /\ \A j \in 1 .. n: stack'[j] = stack[j]
  BY LenIs DEF Kept
<1>2. \A i \in 1 .. n: IsCleanup(i)' <=> IsCleanup(i)
  BY <1>1 DEF IsCleanup, IsNative
<1>3. \A i \in 1 .. n + 1: \A j: j \in 1 .. Len(stack) /\ j < i <=> j \in 1 .. n /\ j < i
  BY <1>1
<1>4. \A i \in 1 .. n + 1: \A j: j \in 1 .. Len(stack') /\ j < i <=> j \in 1 .. n /\ j < i
  BY <1>1
<1>5. \A i \in 1 .. n + 1: Beneath(i)' <=> Beneath(i)
  BY <1>2, <1>3, <1>4 DEF Beneath
<1>6. \A i \in 1 .. n + 1: \A h: HomeBelow(h, i)' <=> HomeBelow(h, i)
  BY <1>1, <1>3, <1>4 DEF HomeBelow
<1> QED
  BY <1>2, <1>5, <1>6

LEMMA LayerKept ==
  ASSUME Types, Types', NEW n, Kept(n), NEW i \in 1 .. n, Layer(i)
  PROVE  Layer(i)' /\ (Ran(i) => Ran(i)')
<1>1. /\ Len(stack) \in Nat /\ Len(stack') \in Nat /\ n \in Nat /\ i \in 1 .. Len(stack)
      /\ n <= Len(stack) /\ n <= Len(stack') /\ \A j \in 1 .. n: stack'[j] = stack[j]
      /\ calls \in Nat /\ calls' \in Nat /\ calls <= calls'
  BY LenIs DEF Kept, Types
<1>2. stack'[i] = stack[i] /\ (IsCleanup(i)' <=> IsCleanup(i)) /\ (Beneath(i)' <=> Beneath(i))
      /\ \A h: HomeBelow(h, i)' <=> HomeBelow(h, i)
  BY <1>1, PrefixSame
<1>3. (stack[i].id \in 1 .. calls)'
  BY <1>1, <1>2 DEF Layer
<1>4. (stack[i].kind # "method" => stack[i].home \in -1 .. calls)'
  BY <1>1, <1>2 DEF Layer
<1>5. (\A j \in 1 .. Len(stack): j < i => stack[j].id < stack[i].id)'
  <2>1. ASSUME NEW j \in 1 .. Len(stack'), j < i PROVE stack'[j].id < stack'[i].id
    <3>1. j \in 1 .. n /\ j \in 1 .. Len(stack)
      BY <1>1, <2>1
    <3> QED
      BY <1>1, <1>2, <2>1, <3>1 DEF Layer
  <2> QED
    BY <2>1
<1>6. (IsCleanup(i) => Saved(stack[i]))'
  <2>1. SUFFICES ASSUME IsCleanup(i) PROVE Saved(stack[i])'
    BY <1>2
  <2>2. stack[i].saved \in Us /\ Saved(stack[i])
    BY <1>1, <2>1, LenIs, ActivationKinds DEF Layer, IsCleanup
  <2>3. Shape(stack[i].saved)
    BY <2>2 DEF Saved
  <2>4. PICK v \in Us: v = stack[i].saved
    BY <2>2
  <2>5. Shape(v)'
    BY <2>3, <2>4, ShapeKept
  <2> QED
    BY <1>2, <2>2, <2>4, <2>5 DEF Saved, Shape
<1>7. (IsCleanup(i) /\ stack[i].saved.nonlocal => HomeBelow(stack[i].saved.home, i))'
  BY <1>2 DEF Layer, HomeBelow
<1>8. (~Beneath(i) => i <= StackLimit)'
  BY <1>2 DEF Layer
<1>9. (i = 1 => ~IsNative(stack[i]))'
  BY <1>2 DEF Layer, IsNative
<1>10. (IsNative(stack[i]) /\ stack[i].at = "body" => stack[i].ran = 0)'
  BY <1>2 DEF Layer, IsNative
<1>11. Ran(i) => Ran(i)'
  BY <1>2 DEF Ran
<1> QED
  BY <1>3, <1>4, <1>5, <1>6, <1>7, <1>8, <1>9, <1>10, <1>11 DEF Layer

LEMMA LayerNew ==
  ASSUME Types, Types', NEW n, Kept(n), n + 1 <= Len(stack'),
         NEW a \in Activations, stack'[n + 1] = a,
         a.id \in 1 .. calls', \A j \in 1 .. n: stack[j].id < a.id,
         a.kind # "method" => a.home \in -1 .. calls',
         n = 0 => ~IsNative(a),
         IsNative(a) /\ a.at = "body" => a.ran = 0,
         IsNative(a) /\ a.at = "cleanup"
           => Saved(a)' /\ (a.saved.nonlocal => HomeBelow(a.saved.home, n + 1)),
         ~Beneath(n + 1) => n + 1 <= StackLimit
  PROVE  Layer(n + 1)'
<1>1. /\ n \in Nat /\ Len(stack) \in Nat /\ Len(stack') \in Nat
      /\ n <= Len(stack) /\ n <= Len(stack') /\ \A j \in 1 .. n: stack'[j] = stack[j]
  BY LenIs DEF Kept
<1>2. n + 1 \in 1 .. n + 1
  BY <1>1
<1>3. /\ Beneath(n + 1)' <=> Beneath(n + 1)
      /\ \A h: HomeBelow(h, n + 1)' <=> HomeBelow(h, n + 1)
  BY <1>1, <1>2, PrefixSame
<1>4. (\A j \in 1 .. Len(stack): j < n + 1 => stack[j].id < stack[n + 1].id)'
  <2>1. ASSUME NEW j \in 1 .. Len(stack'), j < n + 1 PROVE stack'[j].id < stack'[n + 1].id
    <3>1. j \in 1 .. n
      BY <1>1, <2>1
    <3> QED
      BY <1>1, <3>1
  <2> QED
    BY <2>1
<1>5. (IsCleanup(n + 1) => Saved(stack[n + 1]))'
  BY DEF IsCleanup, IsNative, Saved
<1>6. (IsCleanup(n + 1) /\ stack[n + 1].saved.nonlocal => HomeBelow(stack[n + 1].saved.home, n + 1))'
  <2>1. ASSUME IsCleanup(n + 1)', a.saved.nonlocal PROVE HomeBelow(a.saved.home, n + 1)'
    BY <1>3, <2>1 DEF IsCleanup, IsNative
  <2> QED
    BY <2>1 DEF HomeBelow
<1>7. (~Beneath(n + 1) => n + 1 <= StackLimit)'
  BY <1>3
<1>8. (n + 1 = 1 => ~IsNative(stack[n + 1]))'
  BY <1>1 DEF IsNative
<1>9. (IsNative(stack[n + 1]) /\ stack[n + 1].at = "body" => stack[n + 1].ran = 0)'
  BY DEF IsNative
<1>10. (stack[n + 1].id \in 1 .. calls)' /\ (stack[n + 1].kind # "method" => stack[n + 1].home \in -1 .. calls)'
  OBVIOUS
<1> QED
  BY <1>4, <1>5, <1>6, <1>7, <1>8, <1>9, <1>10 DEF Layer

(* What is set aside is what it was when what changed is no cleanup. *)
LEMMA SetAsideSame ==
  ASSUME Types, Types', NEW n, Kept(n),
         \A i \in 1 .. Len(stack): i > n => ~IsCleanup(i),
         \A i \in 1 .. Len(stack'): i > n => ~IsCleanup(i)'
  PROVE  /\ SetAside' = SetAside /\ SetAside \subseteq 1 .. n
         /\ \A i \in SetAside: stack'[i] = stack[i]
<1>1. /\ n \in Nat /\ Len(stack) \in Nat /\ Len(stack') \in Nat
      /\ n <= Len(stack) /\ n <= Len(stack') /\ \A j \in 1 .. n: stack'[j] = stack[j]
  BY LenIs DEF Kept
<1>2. \A i: i \in SetAside <=> i \in 1 .. n /\ IsCleanup(i) /\ stack[i].saved.aborting
  BY <1>1 DEF SetAside, Cleanups, IsCleanup
<1>3. \A i: i \in SetAside' <=> i \in 1 .. n /\ IsCleanup(i)' /\ stack'[i].saved.aborting
  BY <1>1 DEF SetAside, Cleanups, IsCleanup
<1>4. \A i \in 1 .. n: IsCleanup(i)' <=> IsCleanup(i)
  BY PrefixSame
<1>5. \A i: i \in SetAside' <=> i \in SetAside
  BY <1>1, <1>2, <1>3, <1>4
<1> QED
  BY <1>1, <1>2, <1>5

LEMMA KeptAll ==
  ASSUME Types, NEW n \in Nat, n <= Len(stack), n <= Len(stack'),
         \A j \in 1 .. n: stack'[j] = stack[j],
         calls' \in Nat, aborts' \in Nat, calls <= calls', aborts <= aborts'
  PROVE  Kept(n)
BY DEF Kept

-------------------------------------------------------------------------------
\* An activation starts or ends

LEMMA Pushes ==
  ASSUME UnwindAssumption, Types, Types', Layers, NEW a \in Activations, ~(IsNative(a) /\ a.at = "cleanup"),
         a.id = calls + 1, a.kind # "method" => a.home \in -1 .. calls,
         IsNative(a) => a.ran = 0 /\ stack # <<>>, Len(stack) < Limit,
         stack # <<>> => ~IsNative(Top), stack' = Append(stack, a),
         calls' = calls + 1, aborts' = aborts, ctl' \in {"run", "call"}
  PROVE  /\ Layers' /\ Kept(Len(stack)) /\ Len(stack') = Len(stack) + 1
         /\ stack'[Len(stack) + 1] = a /\ Top' = a /\ stack' # <<>>
         /\ SetAside' = SetAside /\ \A i \in SetAside: stack'[i] = stack[i]
<1>0. PICK n \in Nat: n = Len(stack)
  BY LenIs
<1>1. n \in Nat /\ n = Len(stack) /\ stack \in Seq(Activations) /\ calls \in Nat /\ aborts \in Nat
  BY <1>0, LenIs DEF Types
<1>2. /\ Len(stack') = n + 1 /\ \A j \in 1 .. n: stack'[j] = stack[j]
      /\ stack'[n + 1] = a /\ stack' # <<>>
  BY <1>1, AppendProperties
<1>3. Kept(n)
  BY <1>1, <1>2 DEF Kept
<1>4. \A i \in 1 .. n: Layer(i) /\ Ran(i)
  <2>1. ASSUME NEW i \in 1 .. n PROVE Ran(i)
    <3>1. CASE i < n
      BY <1>1, <3>1 DEF Layers
    <3>2. CASE i = n
      <4>1. stack # <<>> /\ Top = stack[n]
        BY <1>1, <3>2, StackTop, LenIs
      <4> QED
        BY <3>2, <4>1 DEF Ran, IsCleanup
    <3> QED
      BY <1>1, <3>1, <3>2
  <2> QED
    BY <1>1, <2>1 DEF Layers
<1>5. Layer(n + 1)'
  <2>1. ~Beneath(n + 1) => n + 1 <= StackLimit
    <3>1. ASSUME ~Beneath(n + 1) PROVE Cleanups = {}
      BY <1>1, <3>1 DEF Beneath, Cleanups, IsCleanup
    <3>2. ASSUME ~Beneath(n + 1) PROVE n < StackLimit
      BY <1>1, <3>1, <3>2 DEF Limit
    <3>3. StackLimit \in Int => (n < StackLimit => n + 1 <= StackLimit)
      BY <1>1
    <3>4. UnwindAssumption => StackLimit \in Int
      BY DEF UnwindAssumption
    <3> QED
      BY <3>2, <3>3, <3>4
  <2>2. a.id \in 1 .. calls' /\ \A j \in 1 .. n: stack[j].id < a.id
    <3>1. \A j \in 1 .. n: stack[j].id \in 1 .. calls
      BY <1>4 DEF Layer
    <3> QED
      BY <1>1, <3>1
  <2>3. a.kind # "method" => a.home \in -1 .. calls'
    BY <1>1
  <2>4. n = 0 => ~IsNative(a)
    BY <1>1, LenIs
  <2>5. n + 1 <= Len(stack')
    BY <1>1, <1>2
  <2>6. IsNative(a) /\ a.at = "cleanup"
          => Saved(a)' /\ (a.saved.nonlocal => HomeBelow(a.saved.home, n + 1))
    OBVIOUS
  <2>7. IsNative(a) /\ a.at = "body" => a.ran = 0
    OBVIOUS
  <2>8. stack'[n + 1] = a
    BY <1>2
  <2> QED
    BY <1>3, <2>1, <2>2, <2>3, <2>4, <2>5, <2>6, <2>7, <2>8, LayerNew
<1>6. \A i \in 1 .. n: Layer(i)' /\ Ran(i)'
  BY <1>3, <1>4, LayerKept
<1>7. \A i \in 1 .. Len(stack'): i \in 1 .. n \/ i = n + 1
  BY <1>1, <1>2
<1>8. Layers'
  <2>1. ASSUME NEW i \in 1 .. Len(stack') PROVE Layer(i)'
    <3>1. CASE i \in 1 .. n
      BY <1>6, <3>1
    <3>2. CASE i = n + 1
      BY <1>5, <3>2 DEF Layer
    <3> QED
      BY <1>7, <3>1, <3>2
  <2>2. ASSUME NEW i \in 1 .. Len(stack'), i < Len(stack') PROVE Ran(i)'
    BY <1>1, <1>2, <1>6, <1>7, <2>2
  <2> QED
    BY <2>1, <2>2 DEF Layers
<1>9. Top' = a
  BY <1>2 DEF Top
<1>10. SetAside' = SetAside /\ \A i \in SetAside: stack'[i] = stack[i]
  <2>1. \A i \in 1 .. Len(stack): i > n => ~IsCleanup(i)
    BY <1>1
  <2>2. \A i \in 1 .. Len(stack'): i > n => ~IsCleanup(i)'
    BY <1>1, <1>2, <1>7 DEF IsCleanup, IsNative
  <2> QED
    BY <1>3, <2>1, <2>2, SetAsideSame
<1> QED
  BY <1>1, <1>2, <1>3, <1>8, <1>9, <1>10

LEMMA Pops ==
  ASSUME Types, Types', Layers, stack # <<>>, stack' = Below, calls' = calls, aborts' = aborts,
         NEW m, m = Len(stack)
  PROVE  /\ Layers' /\ Kept(m - 1) /\ Len(stack') = m - 1 /\ m \in Nat \ {0}
         /\ SetAside' = SetAside \ {m} /\ \A i \in SetAside': stack'[i] = stack[i]
         /\ ~IsCleanup(m) => m \notin SetAside
<1>1. /\ m \in Nat \ {0} /\ Len(stack') = m - 1 /\ calls \in Nat /\ aborts \in Nat
      /\ \A i \in 1 .. m - 1: stack'[i] = stack[i]
  BY StackTop DEF Types
<1>2. m - 1 \in Nat /\ m - 1 <= m
  BY <1>1
<1>3. Kept(m - 1)
  BY <1>1, <1>2 DEF Kept
<1>4. \A i \in 1 .. m - 1: Layer(i) /\ Ran(i)
  <2>1. \A i \in 1 .. m - 1: i \in 1 .. m /\ i < m
    BY <1>1
  <2> QED
    BY <2>1 DEF Layers
<1>5. \A i \in 1 .. m - 1: Layer(i)' /\ Ran(i)'
  BY <1>3, <1>4, LayerKept
<1>6. Layers'
  BY <1>1, <1>5 DEF Layers
<1>7. \A i \in 1 .. m - 1: IsCleanup(i)' <=> IsCleanup(i)
  BY <1>3, PrefixSame
<1>8. \A i: i \in SetAside <=> i \in 1 .. m /\ IsCleanup(i) /\ stack[i].saved.aborting
  BY DEF SetAside, Cleanups, IsCleanup
<1>9. \A i: i \in SetAside' <=> i \in 1 .. m - 1 /\ IsCleanup(i)' /\ stack'[i].saved.aborting
  BY <1>1 DEF SetAside, Cleanups, IsCleanup
<1>10. \A i: i \in SetAside' <=> i \in SetAside /\ i # m
  BY <1>1, <1>7, <1>8, <1>9
<1>11. SetAside' = SetAside \ {m}
  BY <1>10
<1> QED
  BY <1>1, <1>3, <1>6, <1>8, <1>9, <1>11

(* The last activation changes and the others stay. *)
LEMMA Retops ==
  ASSUME Types, Types', Layers, NEW m \in Nat \ {0}, m = Len(stack), Len(stack') = m,
         Kept(m - 1), Layer(m)', ctl' \in {"value", "empty"} => Ran(m)'
  PROVE  Layers'
<1>1. \A i \in 1 .. m - 1: i \in 1 .. m /\ i < m
  OBVIOUS
<1>2. \A i \in 1 .. m - 1: Layer(i) /\ Ran(i)
  BY <1>1 DEF Layers
<1>3. \A i \in 1 .. m - 1: Layer(i)' /\ Ran(i)'
  BY <1>2, LayerKept
<1>4. \A i \in 1 .. m: i \in 1 .. m - 1 \/ i = m
  OBVIOUS
<1>5. ASSUME NEW i \in 1 .. m PROVE Layer(i)' /\ (i < m \/ ctl' \in {"value", "empty"} => Ran(i)')
  <2>1. CASE i \in 1 .. m - 1
    BY <1>3, <2>1
  <2>2. CASE i = m
    BY <2>2
  <2> QED
    BY <1>4, <2>1, <2>2
<1> QED
  BY <1>5 DEF Layers

(* The stack stays. *)
LEMMA Stays ==
  ASSUME Types, Types', Layers, stack' = stack, calls' = calls, aborts <= aborts',
         ctl' \in {"value", "empty"} /\ stack # <<>> => Ran(Len(stack))
  PROVE  /\ Layers' /\ Kept(Len(stack))
         /\ SetAside' = SetAside /\ \A i \in SetAside: stack'[i] = stack[i]
<1>0. PICK m \in Nat: m = Len(stack)
  BY LenIs
<1>1. m = Len(stack') /\ Kept(m)
  BY <1>0 DEF Kept, Types
<1>2. \A i \in 1 .. m: Layer(i)' /\ (Ran(i) => Ran(i)')
  BY <1>0, <1>1, LayerKept DEF Layers
<1>3. \A i \in 1 .. m: i < m \/ ctl' \in {"value", "empty"} => Ran(i)
  <2>1. ASSUME NEW i \in 1 .. m, ctl' \in {"value", "empty"} PROVE Ran(i)
    <3>1. stack # <<>>
      BY <1>0, <2>1, LenIs
    <3>2. CASE i = m
      BY <1>0, <2>1, <3>1, <3>2
    <3>3. CASE i # m
      <4>1. i < m
        BY <3>3
      <4> QED
        BY <1>0, <4>1 DEF Layers
    <3> QED
      BY <3>2, <3>3
  <2> QED
    BY <1>0, <2>1 DEF Layers
<1>4. Layers'
  BY <1>1, <1>2, <1>3 DEF Layers
<1>5. SetAside' = SetAside
  BY DEF SetAside, Cleanups, IsNative
<1> QED
  BY <1>0, <1>1, <1>4, <1>5

-------------------------------------------------------------------------------
\* What is left of the rest of the invariant

LEMMA HandlesKept ==
  ASSUME HandlesAre, HandlesDiffer, HandlesApart,
         SetAside' = SetAside, \A i \in SetAside: stack'[i].saved = stack[i].saved,
         handles' = handles, ctx'.u.handle = ctx.u.handle
  PROVE  HandlesAre' /\ HandlesDiffer' /\ HandlesApart'
<1>1. Held' = Held /\ \A i \in Held: stack'[i].saved = stack[i].saved
  BY DEF Held
<1>2. {stack'[i].saved.handle : i \in Held'} = {stack[i].saved.handle : i \in Held}
  BY <1>1
<1> QED
  BY <1>1, <1>2 DEF HandlesAre, HandlesDiffer, HandlesApart

LEMMA TargetKept ==
  ASSUME Types, Types', Armed, NEW n, Kept(n), ctx'.u.restarting => ctx.u.restarting,
         ctx'.u.target = ctx.u.target, ctx'.accept => ctx.accept, ctx'.accept => ctx'.u.restarting,
         ctx'.u.restarting => \A i \in 1 .. Len(stack): i > n => IsNative(stack[i]) \/ stack[i].id # ctx.u.target
  PROVE  Armed'
<1>1. SUFFICES ASSUME ctx'.u.restarting
      PROVE  (\E i \in 1 .. Len(stack): /\ ~IsNative(stack[i]) /\ stack[i].id = ctx.u.target
                                        /\ ctx.accept => stack[i].kind = "method")'
  BY DEF Armed
<1>2. PICK i \in 1 .. Len(stack): /\ ~IsNative(stack[i]) /\ stack[i].id = ctx.u.target
                                  /\ ctx.accept => stack[i].kind = "method"
  BY <1>1 DEF Armed
<1>3. /\ i \in 1 .. n /\ i \in 1 .. Len(stack') /\ stack'[i] = stack[i]
  <2>1. n \in Nat /\ n <= Len(stack) /\ n <= Len(stack') /\ Len(stack) \in Nat /\ Len(stack') \in Nat
    BY LenIs DEF Kept
  <2>2. ~(i > n)
    BY <1>1, <1>2
  <2>3. i \in 1 .. n /\ i \in 1 .. Len(stack')
    BY <2>1, <2>2
  <2> QED
    BY <2>3 DEF Kept
<1> QED
  BY <1>2, <1>3 DEF IsNative

(* What the cleanups set aside stays. *)
Same == SetAside' = SetAside /\ \A i \in SetAside: stack'[i].saved = stack[i].saved

LEMMA SameStack ==
  ASSUME stack' = stack
  PROVE  Same
BY DEF Same, SetAside, Cleanups, IsNative

-------------------------------------------------------------------------------
\* Aborts

LEMMA StartAbortIs ==
  ASSUME NEW u \in Us, NEW r \in Nat, NEW h \in Nat, ~u.aborting
  PROVE  /\ StartAbort(u, r, h) \in Us
         /\ StartAbort(u, r, h).aborting /\ ~StartAbort(u, r, h).nonlocal
         /\ StartAbort(u, r, h).restarting <=> u.restarting
         /\ StartAbort(u, r, h).reason = r /\ StartAbort(u, r, h).handle = h
         /\ StartAbort(u, r, h).home = 0 /\ StartAbort(u, r, h).target = u.target
<1>1. StartAbort(u, r, h) \in Us
  <2>1. PICK v \in Us: v = [u EXCEPT !.aborting = TRUE, !.nonlocal = FALSE]
    BY DEF Us
  <2>2. PICK w \in Us: w = [v EXCEPT !.reason = r, !.handle = h]
    BY DEF Us
  <2>3. [w EXCEPT !.home = 0] \in Us
    BY DEF Us
  <2>4. [w EXCEPT !.home = 0] = StartAbort(u, r, h)
    BY <2>1, <2>2 DEF StartAbort, Us
  <2> QED
    BY <2>3, <2>4
<1>2. StartAbort(u, r, h).aborting /\ ~StartAbort(u, r, h).nonlocal
  BY DEF StartAbort, Us
<1>3. StartAbort(u, r, h).restarting <=> u.restarting
  BY DEF StartAbort, Us
<1>4. StartAbort(u, r, h).reason = r
  BY DEF StartAbort, Us
<1>5. StartAbort(u, r, h).handle = h
  BY DEF StartAbort, Us
<1>6. StartAbort(u, r, h).home = 0
  BY DEF StartAbort, Us
<1>7. StartAbort(u, r, h).target = u.target
  BY DEF StartAbort, Us
<1> QED
  BY <1>1, <1>2, <1>3, <1>4, <1>5, <1>6, <1>7

LEMMA AbortIs ==
  ASSUME Types, NEW c \in Cs, NEW loud, NEW built \in BOOLEAN, ~c.u.aborting, Abort(c, loud, built)
  PROVE  /\ ctx' \in Cs /\ ctx'.u.aborting /\ ~ctx'.u.nonlocal
         /\ (ctx'.u.restarting <=> c.u.restarting) /\ ctx'.u.target = c.u.target
         /\ ctx'.u.reason = aborts + 1 /\ ctx'.u.handle \in {0, aborts + 1} /\ ctx'.u.home = 0
         /\ ctx'.accept = c.accept /\ ctx'.abandoning = c.abandoning
         /\ aborts' = aborts + 1 /\ handles' = handles \union ({ctx'.u.handle} \ {0})
         /\ captured' = captured \/ (captured' = aborts + 1 /\ SetAside = {})
         /\ ctl' = "empty"
<1> DEFINE h == IF built THEN aborts + 1 ELSE 0
           v == StartAbort(c.u, aborts + 1, h)
<1>1. aborts \in Nat /\ aborts + 1 \in Nat /\ h \in Nat /\ h \in {0, aborts + 1} /\ c.u \in Us
  BY ContextFields DEF Types
<1>2. /\ aborts' = aborts + 1 /\ ctx' = [c EXCEPT !.u = v] /\ ctl' = "empty"
      /\ handles' = IF h # 0 THEN handles \union {h} ELSE handles
      /\ captured' = IF loud /\ Captures(c) THEN aborts' ELSE captured
  BY <1>1 DEF Abort
<1>3. /\ v \in Us /\ v.aborting /\ ~v.nonlocal /\ (v.restarting <=> c.u.restarting)
      /\ v.reason = aborts + 1 /\ v.handle = h /\ v.home = 0 /\ v.target = c.u.target
  <2> HIDE DEF h
  <2> QED
    BY <1>1, StartAbortIs
<1>4. handles' = handles \union ({h} \ {0})
  BY <1>2
<1> HIDE DEF v, h
<1>5. ctx' = CallContext(v, c.accept, c.abandoning)
  BY <1>2, <1>3, ContextFields
<1>6. ctx' \in Cs /\ ctx'.u = v /\ ctx'.accept = c.accept /\ ctx'.abandoning = c.abandoning
  <2>1. c.accept \in BOOLEAN /\ c.abandoning \in BOOLEAN
    BY ContextFields
  <2> QED
    BY <1>3, <1>5, <2>1 DEF CallContext, Cs
<1>7. captured' = captured \/ (captured' = aborts + 1 /\ SetAside = {})
  BY <1>2 DEF Captures
<1> QED
  BY <1>1, <1>2, <1>3, <1>4, <1>6, <1>7

LEMMA NoHeld ==
  ASSUME Types, Layers, HandlesAre, NEW i \in SetAside
  PROVE  /\ i \in 1 .. Len(stack) /\ IsCleanup(i) /\ stack[i].saved \in Us
         /\ stack[i].saved.handle <= aborts /\ stack[i].saved.handle \in Nat
         /\ stack[i].saved.reason <= aborts /\ stack[i].saved.reason \in Nat
<1>1. i \in 1 .. Len(stack) /\ IsCleanup(i)
  BY DEF SetAside, Cleanups, IsCleanup
<1>2. stack[i].saved \in Us /\ Shape(stack[i].saved)
  BY <1>1, LenIs, ActivationKinds DEF Layers, Layer, IsCleanup, Saved
<1> QED
  BY <1>1, <1>2 DEF Shape, Us

LEMMA AbortKeeps ==
  ASSUME IInv, NEW c \in Cs, NEW loud, NEW built \in BOOLEAN, Abort(c, loud, built),
         ~c.u.aborting, ~c.u.restarting, c.u.target = 0, ~c.accept, ctx.u.handle = 0,
         stack' = stack, calls' = calls, outcome' = outcome,
         stops' \in 0 .. MaxStops, restarts' \in 0 .. MaxRestarts,
         stack # <<>> => Ran(Len(stack))
  PROVE  IInv'
<1>1. /\ Types /\ Layers /\ HandlesAre /\ HandlesDiffer /\ HandlesApart
  BY DEF IInv
<1>2. /\ ctx' \in Cs /\ ctx'.u.aborting /\ ~ctx'.u.nonlocal
      /\ ~ctx'.u.restarting /\ ctx'.u.target = 0
      /\ ctx'.u.reason = aborts + 1 /\ ctx'.u.handle \in {0, aborts + 1} /\ ctx'.u.home = 0
      /\ ~ctx'.accept
  BY <1>1, AbortIs
<1>3. /\ aborts' = aborts + 1 /\ handles' = handles \union ({ctx'.u.handle} \ {0})
      /\ captured' = captured \/ captured' = aborts + 1
      /\ ctl' = "empty"
  BY <1>1, AbortIs
<1>4. aborts \in Nat /\ calls \in Nat \ {0} /\ aborts + 1 \in Nat /\ aborts <= aborts'
  BY <1>1, <1>3 DEF Types
<1>5. Types'
  <2>1. captured' \in 0 .. aborts' /\ outcome' \in 0 .. aborts'
    BY <1>1, <1>3, <1>4 DEF Types
  <2>2. handles' \subseteq 1 .. aborts'
    <3>1. ASSUME NEW x \in handles' PROVE x \in 1 .. aborts + 1
      <4>1. CASE x \in handles
        BY <1>1, <1>4, <4>1 DEF Types
      <4>2. CASE x = aborts + 1
        BY <1>4, <4>2
      <4> QED
        BY <1>2, <1>3, <4>1, <4>2
    <3> QED
      BY <1>3, <3>1
  <2> QED
    BY <1>1, <1>2, <1>3, <1>4, <2>1, <2>2 DEF Types
<1>6. /\ Layers' /\ Kept(Len(stack))
      /\ SetAside' = SetAside /\ \A i \in SetAside: stack'[i] = stack[i]
  BY <1>1, <1>3, <1>4, <1>5, Stays
<1>7. Shape(ctx.u)'
  <2>1. 0 \in 0 .. calls' /\ 0 <= aborts' /\ 0 <= calls' /\ aborts + 1 <= aborts'
    BY <1>3, <1>4
  <2>2. ctx'.u.handle <= aborts'
    BY <1>2, <2>1
  <2> QED
    BY <1>2, <2>1, <2>2 DEF Shape
<1>8. Control'
  BY <1>2, <1>3, <1>7 DEF Control, Unwinding, Shape
<1>9. Armed' /\ FirstAbort'
  BY <1>2 DEF Armed, FirstAbort, Alone
<1>10. Held' = Held /\ \A i \in Held: stack'[i].saved.handle = stack[i].saved.handle
  BY <1>6 DEF Held
<1>11. \A i \in Held: stack[i].saved.handle \in 1 .. aborts
  BY <1>1, <1>4, NoHeld DEF Held
<1>12. HandlesDiffer'
  BY <1>1, <1>10 DEF HandlesDiffer
<1>13. HandlesApart'
  BY <1>2, <1>4, <1>10, <1>11 DEF HandlesApart
<1>14. HandlesAre'
  <2>1. handles = {stack[i].saved.handle : i \in Held}
    BY <1>1 DEF HandlesAre
  <2>2. {stack'[i].saved.handle : i \in Held'} = {stack[i].saved.handle : i \in Held}
    BY <1>10
  <2> QED
    BY <1>3, <2>1, <2>2 DEF HandlesAre
<1> QED
  BY <1>5, <1>6, <1>8, <1>9, <1>12, <1>13, <1>14 DEF IInv

-------------------------------------------------------------------------------
\* What the steps do to the fields

Pause(u, b, h) == [u EXCEPT !.nonlocal = b, !.home = h]
Aim(u, b, t)   == [u EXCEPT !.restarting = b, !.target = t]

LEMMA Pauses ==
  ASSUME NEW u \in Us, NEW b \in BOOLEAN, NEW h \in Int
  PROVE  /\ Pause(u, b, h) \in Us
         /\ Pause(u, b, h).nonlocal <=> b
         /\ Pause(u, b, h).aborting <=> u.aborting
         /\ Pause(u, b, h).restarting <=> u.restarting
         /\ Pause(u, b, h).home = h /\ Pause(u, b, h).reason = u.reason
         /\ Pause(u, b, h).handle = u.handle /\ Pause(u, b, h).target = u.target
<1>1. Pause(u, b, h) \in Us
  BY DEF Us, Pause
<1>2. Pause(u, b, h).nonlocal <=> b
  BY DEF Us, Pause
<1>3. Pause(u, b, h).aborting <=> u.aborting
  BY DEF Us, Pause
<1>4. Pause(u, b, h).restarting <=> u.restarting
  BY DEF Us, Pause
<1>5. /\ Pause(u, b, h).home = h /\ Pause(u, b, h).reason = u.reason
      /\ Pause(u, b, h).handle = u.handle /\ Pause(u, b, h).target = u.target
  BY DEF Us, Pause
<1> QED
  BY <1>1, <1>2, <1>3, <1>4, <1>5

LEMMA PausesContext ==
  ASSUME NEW c \in Cs, NEW b \in BOOLEAN, NEW h \in Int
  PROVE  [c EXCEPT !.u.nonlocal = b, !.u.home = h] = CallContext(Pause(c.u, b, h), c.accept, c.abandoning)
<1>1. [c EXCEPT !.u.nonlocal = b, !.u.home = h] = [c EXCEPT !.u = Pause(c.u, b, h)]
  BY DEF Cs, Us, Pause
<1>2. Pause(c.u, b, h) \in Us
  BY ContextFields, Pauses
<1> QED
  BY <1>1, <1>2, ContextFields

LEMMA Aims ==
  ASSUME NEW u \in Us, NEW b \in BOOLEAN, NEW t \in Nat
  PROVE  /\ Aim(u, b, t) \in Us
         /\ Aim(u, b, t).nonlocal <=> u.nonlocal
         /\ Aim(u, b, t).aborting <=> u.aborting
         /\ Aim(u, b, t).restarting <=> b
         /\ Aim(u, b, t).home = u.home /\ Aim(u, b, t).reason = u.reason
         /\ Aim(u, b, t).handle = u.handle /\ Aim(u, b, t).target = t
<1>1. Aim(u, b, t) \in Us
  BY DEF Us, Aim
<1>2. Aim(u, b, t).nonlocal <=> u.nonlocal
  BY DEF Us, Aim
<1>3. Aim(u, b, t).aborting <=> u.aborting
  BY DEF Us, Aim
<1>4. Aim(u, b, t).restarting <=> b
  BY DEF Us, Aim
<1>5. /\ Aim(u, b, t).home = u.home /\ Aim(u, b, t).reason = u.reason
      /\ Aim(u, b, t).handle = u.handle /\ Aim(u, b, t).target = t
  BY DEF Us, Aim
<1> QED
  BY <1>1, <1>2, <1>3, <1>4, <1>5

LEMMA AimsContext ==
  ASSUME NEW c \in Cs, NEW b \in BOOLEAN, NEW t \in Nat
  PROVE  [c EXCEPT !.u.restarting = b, !.u.target = t] = CallContext(Aim(c.u, b, t), c.accept, c.abandoning)
<1>1. [c EXCEPT !.u.restarting = b, !.u.target = t] = [c EXCEPT !.u = Aim(c.u, b, t)]
  BY DEF Cs, Us, Aim
<1>2. Aim(c.u, b, t) \in Us
  BY ContextFields, Aims
<1> QED
  BY <1>1, <1>2, ContextFields

(* Where code runs or is about to, nothing unwinds. *)
LEMMA Clear ==
  ASSUME IInv, ctl # "empty"
  PROVE  /\ ctx \in Cs /\ ctx.u \in Us
         /\ ~ctx.u.aborting /\ ~ctx.u.nonlocal /\ ~ctx.u.restarting
         /\ ctx.u.handle = 0 /\ ctx.u.target = 0 /\ ~ctx.accept /\ ~ctx.abandoning
<1>1. ctx \in Cs /\ ctx.u \in Us
  BY ContextFields DEF IInv, Types
<1> QED
  BY <1>1 DEF IInv, Control, Armed, Unwinding, Shape

LEMMA HomesAre ==
  ASSUME Types, Layers, NEW h \in Homes
  PROVE  h \in Int /\ h \in -1 .. calls
<1>1. \A i \in 1 .. Len(stack): stack[i].id \in 1 .. calls
  BY DEF Layers, Layer
<1>2. calls \in Nat
  BY DEF Types
<1> QED
  BY <1>1, <1>2 DEF Homes, Methods, Frames, Foreign, Dead

LEMMA AliveIs ==
  ASSUME Types, Layers, NEW h, Alive(h)
  PROVE  HomeBelow(h, Len(stack) + 1) /\ h \in 0 .. calls
<1>1. /\ Len(stack) \in Nat /\ calls \in Nat
      /\ \A i \in 1 .. Len(stack): i < Len(stack) + 1 /\ stack[i].id \in 1 .. calls
  BY LenIs DEF Layers, Layer, Types
<1> QED
  BY <1>1 DEF Alive, HomeBelow, Methods, Frames, Foreign

(* What runs, or is called, with nothing unwinding. *)
LEMMA Settles ==
  ASSUME IInv, ctl # "empty", ctl # "done", Types', Layers', NEW n, Kept(n), ctx' = ctx,
         handles' = handles, aborts' = aborts,
         SetAside' = SetAside, \A i \in SetAside: stack'[i].saved = stack[i].saved,
         ctl' \in {"run", "call", "value"},
         (ctl = "call" => stack # <<>> /\ IsNative(Top) /\ (Top.at = "cleanup" => Top.ran = 0))',
         (ctl = "run" /\ stack # <<>> => ~IsNative(Top))'
  PROVE  IInv'
<1>1. /\ ctx.u \in Us /\ ~ctx.u.aborting /\ ~ctx.u.nonlocal /\ ~ctx.u.restarting
      /\ ~ctx.accept /\ ~ctx.abandoning
  BY Clear
<1>2. Shape(ctx.u)'
  <2>1. Types /\ Shape(ctx.u)
    BY DEF IInv, Control
  <2>2. PICK v \in Us: v = ctx.u
    BY <1>1
  <2>3. Shape(v)'
    BY <2>1, <2>2, ShapeKept
  <2> QED
    BY <2>2, <2>3 DEF Shape
<1>3. Control'
  BY <1>1, <1>2 DEF Control, Unwinding
<1>4. Armed'
  BY <1>1 DEF Armed
<1>5. HandlesAre' /\ HandlesDiffer' /\ HandlesApart'
  BY HandlesKept DEF IInv
<1>6. FirstAbort'
  BY DEF IInv, FirstAbort, Alone
<1> QED
  BY <1>3, <1>4, <1>5, <1>6 DEF IInv

-------------------------------------------------------------------------------
\* The code of an activation

LEMMA Running ==
  ASSUME IInv, RunsCode
  PROVE  /\ stack # <<>> /\ ctl = "run" /\ ~IsNative(Top) /\ Len(stack) \in Nat \ {0}
         /\ Top = stack[Len(stack)] /\ ~IsCleanup(Len(stack)) /\ Ran(Len(stack))
<1>1. stack # <<>> /\ ctl = "run" /\ ~IsNative(Top)
  BY DEF IInv, Control, RunsCode
<1>2. Len(stack) \in Nat \ {0} /\ Top = stack[Len(stack)]
  BY <1>1, StackTop DEF IInv
<1> QED
  BY <1>1, <1>2 DEF IsCleanup, Ran

LEMMA Starting ==
  ASSUME UnwindAssumption, IInv, RunsCode, NEW a \in Activations, NEW at \in {"run", "call"}, Starts(a, at),
         a.id = calls + 1, a.kind # "method" => a.home \in -1 .. calls,
         IsNative(a) => a.at = "body" /\ a.ran = 0,
         IsNative(a) <=> at = "call", UNCHANGED <<stops, restarts, outcome>>
  PROVE  IInv' /\ Same /\ Len(stack) <= Len(stack')
<1>1. /\ stack # <<>> /\ ctl = "run" /\ ~IsNative(Top) /\ Ran(Len(stack))
  BY Running
<1>2. Types /\ Layers /\ ctx \in Cs
  BY DEF IInv, Types
<1>3. CASE Len(stack) >= Limit
  <2>1. Abort(ctx, TRUE, FALSE) /\ stack' = stack /\ calls' = calls
    BY <1>3 DEF Starts
  <2>2. stops' \in 0 .. MaxStops /\ restarts' \in 0 .. MaxRestarts
    BY <1>2 DEF Types
  <2>3. IInv'
    BY <1>1, <1>2, <2>1, <2>2, Clear, AbortKeeps
  <2>4. Len(stack) \in Nat /\ Len(stack') = Len(stack)
    BY <1>2, <2>1, LenIs
  <2> QED
    BY <2>1, <2>3, <2>4, SameStack
<1>4. CASE ~(Len(stack) >= Limit)
  <2>1. /\ stack' = Append(stack, a) /\ calls' = calls + 1 /\ ctl' = at
        /\ ctx' = ctx /\ handles' = handles /\ aborts' = aborts /\ captured' = captured
    BY <1>4 DEF Starts
  <2>2. Types'
    <3>1. calls' \in Nat \ {0} /\ stack' \in Seq(Activations)
      BY <1>2, <2>1, AppendProperties DEF Types
    <3> QED
      BY <1>2, <2>1, <3>1 DEF Types
  <2>3. Len(stack) < Limit
    <3>1. Len(stack) \in Nat /\ Limit \in Int
      BY <1>2, LenIs DEF Limit, UnwindAssumption
    <3> QED
      BY <1>4, <3>1
  <2>4. ~(IsNative(a) /\ a.at = "cleanup") /\ (IsNative(a) => a.ran = 0 /\ stack # <<>>)
    BY <1>1
  <2>5. stack # <<>> => ~IsNative(Top)
    BY <1>1
  <2>6. ctl' \in {"run", "call"}
    BY <2>1
  <2>7. /\ Layers' /\ Kept(Len(stack)) /\ Len(stack') = Len(stack) + 1 /\ Top' = a /\ stack' # <<>>
        /\ SetAside' = SetAside /\ \A i \in SetAside: stack'[i] = stack[i]
    BY <1>2, <2>1, <2>2, <2>3, <2>4, <2>5, <2>6, Pushes
  <2>8. (ctl = "call" => stack # <<>> /\ IsNative(Top) /\ (Top.at = "cleanup" => Top.ran = 0))'
    BY <2>1, <2>7 DEF IsNative
  <2>9. (ctl = "run" /\ stack # <<>> => ~IsNative(Top))'
    BY <2>1, <2>7 DEF IsNative
  <2>10. Same
    BY <2>7 DEF Same
  <2>11. Len(stack) <= Len(stack')
    BY <1>2, <2>7, LenIs
  <2>12. IInv'
    BY <1>1, <2>1, <2>2, <2>6, <2>7, <2>8, <2>9, Settles
  <2> QED
    BY <2>10, <2>11, <2>12
<1> QED
  BY <1>3, <1>4

LEMMA SendsKeeps == UnwindAssumption /\ IInv /\ SendsMessage => IInv' /\ Same /\ Len(stack) <= Len(stack')
<1> SUFFICES ASSUME UnwindAssumption, IInv, SendsMessage PROVE IInv' /\ Same /\ Len(stack) <= Len(stack')
  OBVIOUS
<1>1. Types /\ Layers /\ RunsCode /\ UNCHANGED <<stops, restarts, outcome>>
  BY DEF IInv, SendsMessage
<1>2. calls + 1 \in Nat
  BY <1>1 DEF Types
<1>3. CASE Starts(MethodFrame(calls + 1), "run")
  <2>1. PICK a \in Activations: a = MethodFrame(calls + 1)
    BY <1>2, NewMethod
  <2>2. a.kind = "method" /\ a.id = calls + 1 /\ ~IsNative(a) /\ Starts(a, "run")
    BY <1>2, <1>3, <2>1, NewMethod
  <2> QED
    BY <1>1, <2>2, Starting
<1>4. CASE \E h \in Homes: Starts(BlockFrame(calls + 1, h), "run")
  <2>1. PICK h \in Homes: Starts(BlockFrame(calls + 1, h), "run")
    BY <1>4
  <2>2. h \in Int /\ h \in -1 .. calls
    BY <1>1, HomesAre
  <2>3. PICK a \in Activations: a = BlockFrame(calls + 1, h)
    BY <1>2, <2>2, NewBlock
  <2>4. a.kind = "block" /\ a.id = calls + 1 /\ a.home = h /\ ~IsNative(a) /\ Starts(a, "run")
    BY <1>2, <2>1, <2>2, <2>3, NewBlock
  <2> QED
    BY <1>1, <2>2, <2>4, Starting
<1> QED
  BY <1>3, <1>4 DEF SendsMessage

LEMMA SendsNativeKeeps == UnwindAssumption /\ IInv /\ SendsNative => IInv' /\ Same /\ Len(stack) <= Len(stack')
<1> SUFFICES ASSUME UnwindAssumption, IInv, SendsNative PROVE IInv' /\ Same /\ Len(stack) <= Len(stack')
  OBVIOUS
<1>1. Types /\ Layers /\ RunsCode /\ UNCHANGED <<stops, restarts, outcome>>
  BY DEF IInv, SendsNative
<1>2. calls + 1 \in Nat
  BY <1>1 DEF Types
<1>3. PICK k \in {"ensure", "curtailed"}, h \in Homes: Starts(NativeFrame(k, calls + 1, h), "call")
  BY DEF SendsNative
<1>4. h \in Int /\ h \in -1 .. calls
  BY <1>1, HomesAre
<1>5. PICK a \in Activations: a = NativeFrame(k, calls + 1, h)
  BY <1>2, <1>4, NewNative
<1>6. /\ a.id = calls + 1 /\ a.home = h /\ IsNative(a) /\ a.at = "body" /\ a.ran = 0
      /\ Starts(a, "call")
  BY <1>2, <1>3, <1>4, <1>5, NewNative
<1> QED
  BY <1>1, <1>4, <1>6, Starting

LEMMA ReturnsKeeps == IInv /\ ReturnsAnswer => IInv' /\ Same
<1> SUFFICES ASSUME IInv, ReturnsAnswer PROVE IInv' /\ Same
  OBVIOUS
<1>1. stack # <<>> /\ ctl = "run" /\ ~IsCleanup(Len(stack))
  BY Running DEF ReturnsAnswer
<1>2. /\ stack' = Below /\ ctl' = "value" /\ Types /\ Layers
      /\ UNCHANGED <<ctx, handles, calls, aborts, stops, restarts, captured, outcome>>
  BY DEF IInv, ReturnsAnswer
<1>3. Types'
  BY <1>1, <1>2, StackTop DEF Types
<1>4. PICK m: m = Len(stack)
  OBVIOUS
<1>5. /\ Layers' /\ Kept(m - 1) /\ SetAside' = SetAside \ {m} /\ \A i \in SetAside': stack'[i] = stack[i]
      /\ m \notin SetAside
  BY <1>1, <1>2, <1>3, <1>4, Pops
<1>6. SetAside' = SetAside
  BY <1>5
<1>7. Same
  BY <1>5, <1>6 DEF Same
<1>8. IInv'
  BY <1>1, <1>2, <1>3, <1>5, <1>6, Settles
<1> QED
  BY <1>7, <1>8

LEMMA ContinuesKeeps == IInv /\ Continues => IInv'
<1> SUFFICES ASSUME IInv, Continues PROVE IInv'
  OBVIOUS
<1>1. /\ stack # <<>> /\ ctl = "value" /\ ~IsNative(Top) /\ ctl' = "run" /\ Types /\ Layers
      /\ UNCHANGED <<stack, ctx, handles, calls, aborts, stops, restarts, captured, outcome>>
  BY DEF IInv, Continues, Arrives
<1>2. Types'
  BY <1>1 DEF Types
<1>3. aborts <= aborts'
  BY <1>1 DEF Types
<1>4. /\ Layers' /\ Kept(Len(stack)) /\ SetAside' = SetAside /\ \A i \in SetAside: stack'[i] = stack[i]
  BY <1>1, <1>2, <1>3, Stays
<1>5. Top' = Top
  BY <1>1 DEF Top
<1>6. (ctl = "run" /\ stack # <<>> => ~IsNative(Top))'
  BY <1>1, <1>5 DEF IsNative
<1> QED
  BY <1>1, <1>2, <1>4, <1>6, Settles

LEMMA ReturnsBlockKeeps == IInv /\ ReturnsBlock => IInv'
<1> SUFFICES ASSUME IInv, ReturnsBlock PROVE IInv'
  OBVIOUS
<1>1. /\ stack # <<>> /\ ctl = "run" /\ Ran(Len(stack)) /\ Top.kind = "block"
      /\ UNCHANGED <<stack, calls, stops, restarts, outcome>> /\ Types /\ Layers
  BY Running DEF IInv, ReturnsBlock
<1>2. /\ ctx \in Cs /\ ctx.u \in Us /\ ~ctx.u.aborting /\ ~ctx.u.nonlocal /\ ~ctx.u.restarting
      /\ ctx.u.handle = 0 /\ ctx.u.target = 0 /\ ~ctx.accept /\ ~ctx.abandoning
  BY <1>1, Clear
<1>3. CASE Alive(Top.home)
  <2>1. PICK h: h = Top.home
    OBVIOUS
  <2>2. HomeBelow(h, Len(stack) + 1) /\ h \in 0 .. calls /\ h \in Int
    BY <1>1, <1>3, <2>1, AliveIs DEF Types
  <2>3. ctx' = [ctx EXCEPT !.u.nonlocal = TRUE, !.u.home = h] /\ ctl' = "empty"
        /\ handles' = handles /\ aborts' = aborts /\ captured' = captured
    BY <1>3, <2>1 DEF ReturnsBlock
  <2>17. PICK u \in Us: u = ctx.u
    BY <1>2
  <2>18. ~u.aborting /\ ~u.restarting /\ u.handle = 0 /\ u.target = 0
    BY <1>2, <2>17
  <2>19. h \in Int
    BY <2>2
  <2>4. PICK v \in Us: v = Pause(u, TRUE, h)
    BY <2>19, Pauses
  <2>5. /\ v.nonlocal /\ ~v.aborting /\ ~v.restarting
        /\ v.home = h /\ v.reason = u.reason /\ v.handle = 0 /\ v.target = 0
    <3>1. v.nonlocal
      BY <2>4, <2>19, Pauses
    <3>2. ~v.aborting
      BY <2>4, <2>18, <2>19, Pauses
    <3>3. ~v.restarting
      BY <2>4, <2>18, <2>19, Pauses
    <3>4. v.home = h /\ v.reason = u.reason /\ v.handle = 0 /\ v.target = 0
      BY <2>4, <2>18, <2>19, Pauses
    <3> QED
      BY <3>1, <3>2, <3>3, <3>4
  <2>16. ctx' = CallContext(v, ctx.accept, ctx.abandoning)
    <3>1. [ctx EXCEPT !.u.nonlocal = TRUE, !.u.home = h] = CallContext(v, ctx.accept, ctx.abandoning)
      BY <1>2, <2>4, <2>17, <2>19, PausesContext
    <3> QED
      BY <2>3, <3>1
  <2>6. ctx' \in Cs /\ ctx'.u = v /\ ~ctx'.accept /\ ~ctx'.abandoning
    <3>1. ctx' = CallContext(v, FALSE, FALSE)
      BY <1>2, <2>16 DEF Cs
    <3> QED
      BY <3>1, ContextIs
  <2>7. Types'
    BY <1>1, <2>3, <2>6 DEF Types
  <2>8. aborts <= aborts'
    BY <1>1, <2>3 DEF Types
  <2>9. /\ Layers' /\ Kept(Len(stack)) /\ SetAside' = SetAside
        /\ \A i \in SetAside: stack'[i] = stack[i]
    BY <1>1, <2>7, <2>8, Stays
  <2>10. Shape(v)'
    <3>1. /\ Shape(ctx.u) /\ calls' = calls /\ aborts' = aborts
      BY <1>1, <2>3 DEF IInv, Control
    <3>2. v.reason <= aborts /\ v.handle <= aborts /\ v.target <= calls
      BY <1>2, <2>5, <2>17, <3>1 DEF Shape
    <3> QED
      BY <2>2, <2>5, <3>1, <3>2 DEF Shape
  <2>11. HomeBelow(h, Len(stack) + 1)'
    BY <1>1, <2>2 DEF HomeBelow
  <2>12. Control'
    BY <1>2, <2>3, <2>5, <2>6, <2>10, <2>11 DEF Control, Unwinding, Shape
  <2>13. Armed'
    BY <1>2, <2>5, <2>6 DEF Armed
  <2>14. HandlesAre' /\ HandlesDiffer' /\ HandlesApart'
    BY <1>2, <2>3, <2>5, <2>6, <2>9, HandlesKept DEF IInv
  <2>15. FirstAbort'
    BY <1>1, <1>2, <2>3, <2>9 DEF IInv, FirstAbort, Alone
  <2> QED
    BY <2>7, <2>9, <2>12, <2>13, <2>14, <2>15 DEF IInv
<1>4. CASE ~Alive(Top.home)
  <2>1. Abort(ctx, TRUE, FALSE) /\ stops' \in 0 .. MaxStops /\ restarts' \in 0 .. MaxRestarts
    BY <1>1, <1>4 DEF ReturnsBlock, Types
  <2> QED
    BY <1>1, <1>2, <2>1, AbortKeeps
<1> QED
  BY <1>3, <1>4

LEMMA Stopping ==
  ASSUME UnwindAssumption, Types, stops < MaxStops, stops' = stops + 1
  PROVE  stops' \in 0 .. MaxStops
BY DEF Types, UnwindAssumption

LEMMA ErrsKeeps == UnwindAssumption /\ IInv /\ Errs => IInv'
<1> SUFFICES ASSUME UnwindAssumption, IInv, Errs PROVE IInv'
  OBVIOUS
<1>1. /\ stack # <<>> /\ ctl = "run" /\ Ran(Len(stack)) /\ Types
      /\ UNCHANGED <<stack, calls, restarts, outcome>> /\ stops < MaxStops /\ stops' = stops + 1
  BY Running DEF IInv, Errs
<1>2. PICK built \in BOOLEAN: Abort(ctx, TRUE, built)
  BY DEF Errs
<1>3. stops' \in 0 .. MaxStops /\ restarts' \in 0 .. MaxRestarts
  BY <1>1, Stopping DEF Types
<1> QED
  BY <1>1, <1>2, <1>3, Clear, AbortKeeps

LEMMA TerminatedKeeps == UnwindAssumption /\ IInv /\ Terminated => IInv'
<1> SUFFICES ASSUME UnwindAssumption, IInv, Terminated PROVE IInv'
  OBVIOUS
<1>1. /\ stack # <<>> /\ ctl = "run" /\ Ran(Len(stack)) /\ Types
      /\ UNCHANGED <<stack, calls, restarts, outcome>> /\ stops < MaxStops /\ stops' = stops + 1
  BY Running DEF IInv, Terminated
<1>2. PICK abandon \in BOOLEAN: Abort([ctx EXCEPT !.abandoning = abandon], FALSE, FALSE)
  BY DEF Terminated
<1>3. stops' \in 0 .. MaxStops /\ restarts' \in 0 .. MaxRestarts
  BY <1>1, Stopping DEF Types
<1>4. /\ ctx \in Cs /\ ctx.u \in Us /\ ~ctx.u.aborting /\ ~ctx.u.nonlocal /\ ~ctx.u.restarting
      /\ ctx.u.handle = 0 /\ ctx.u.target = 0 /\ ~ctx.accept /\ ~ctx.abandoning
  BY <1>1, Clear
<1>5. [ctx EXCEPT !.abandoning = abandon] \in Cs
  BY <1>4 DEF Cs
<1>6. PICK c \in Cs: c = [ctx EXCEPT !.abandoning = abandon]
  BY <1>5
<1>7. c.u = ctx.u
  BY <1>4, <1>6 DEF Cs
<1>8. ~c.accept
  BY <1>4, <1>6 DEF Cs
<1>9. Abort(c, FALSE, FALSE)
  BY <1>2, <1>6
<1>10. ~c.u.aborting /\ ~c.u.restarting /\ c.u.target = 0
  BY <1>4, <1>7
<1> QED
  BY <1>1, <1>3, <1>4, <1>8, <1>9, <1>10, AbortKeeps

LEMMA RestartsKeeps == UnwindAssumption /\ IInv /\ Restarts => IInv'
<1> SUFFICES ASSUME UnwindAssumption, IInv, Restarts PROVE IInv'
  OBVIOUS
<1>1. /\ stack # <<>> /\ ctl = "run" /\ Ran(Len(stack)) /\ Types /\ Layers
      /\ UNCHANGED <<stack, handles, calls, aborts, stops, captured, outcome>>
      /\ restarts < MaxRestarts /\ restarts' = restarts + 1 /\ SetAside = {} /\ ctl' = "empty"
  BY Running DEF IInv, Restarts, CanHalt
<1>2. /\ ctx \in Cs /\ ctx.u \in Us /\ ~ctx.u.aborting /\ ~ctx.u.nonlocal /\ ~ctx.u.restarting
      /\ ctx.u.handle = 0 /\ ctx.u.target = 0 /\ ~ctx.accept /\ ~ctx.abandoning
  BY <1>1, Clear
<1>3. PICK i \in Frames: \E accept \in IF stack[i].kind = "method" THEN BOOLEAN ELSE {FALSE}:
        ctx' = [ctx EXCEPT !.u.restarting = TRUE, !.u.target = stack[i].id, !.accept = accept]
  BY DEF Restarts
<1>4. PICK accept \in BOOLEAN: /\ accept => stack[i].kind = "method"
        /\ ctx' = [ctx EXCEPT !.u.restarting = TRUE, !.u.target = stack[i].id, !.accept = accept]
  BY <1>3
<1>5. /\ i \in 1 .. Len(stack) /\ ~IsNative(stack[i]) /\ stack[i].id \in 1 .. calls
  BY <1>1 DEF Frames, Layers, Layer
<1>6. PICK t \in Nat: t = stack[i].id /\ t <= calls
  BY <1>1, <1>5 DEF Types
<1>19. PICK u \in Us: u = ctx.u
  BY <1>2
<1>20. ~u.aborting /\ ~u.nonlocal /\ u.handle = 0
  BY <1>2, <1>19
<1>7. PICK v \in Us: v = Aim(u, TRUE, t)
  BY Aims
<1>8. /\ v.restarting /\ v.target = t /\ ~v.aborting /\ ~v.nonlocal /\ v.handle = 0
      /\ v.reason = u.reason /\ v.home = u.home
  <2>1. v.restarting
    BY <1>7, Aims
  <2>2. ~v.aborting
    BY <1>7, <1>20, Aims
  <2>3. ~v.nonlocal
    BY <1>7, <1>20, Aims
  <2>4. v.target = t /\ v.handle = 0 /\ v.reason = u.reason /\ v.home = u.home
    BY <1>7, <1>20, Aims
  <2> QED
    BY <2>1, <2>2, <2>3, <2>4
<1>9. ctx' = CallContext(v, accept, FALSE)
  <2>1. [ctx EXCEPT !.u.restarting = TRUE, !.u.target = t] = CallContext(v, ctx.accept, ctx.abandoning)
    BY <1>2, <1>7, <1>19, AimsContext
  <2>2. ctx' = [[ctx EXCEPT !.u.restarting = TRUE, !.u.target = t] EXCEPT !.accept = accept]
    BY <1>4, <1>6
  <2>3. ctx.abandoning = FALSE
    BY <1>2, ContextFields
  <2> QED
    BY <2>1, <2>2, <2>3 DEF CallContext
<1>10. ctx' \in Cs /\ ctx'.u = v /\ ctx'.accept = accept /\ ctx'.abandoning = FALSE
  BY <1>9, ContextIs
<1>11. Types'
  <2>1. restarts' \in 0 .. MaxRestarts
    BY <1>1 DEF Types, UnwindAssumption
  <2> QED
    BY <1>1, <1>10, <2>1 DEF Types
<1>12. aborts <= aborts'
  BY <1>1 DEF Types
<1>13. /\ Layers' /\ Kept(Len(stack)) /\ SetAside' = SetAside
       /\ \A k \in SetAside: stack'[k] = stack[k]
  BY <1>1, <1>11, <1>12, Stays
<1>14. Shape(v)'
  <2>1. /\ Shape(ctx.u) /\ calls' = calls /\ aborts' = aborts
    BY <1>1 DEF IInv, Control
  <2>2. v.reason <= aborts /\ v.handle <= aborts /\ v.target <= calls /\ v.home \in 0 .. calls
    BY <1>2, <1>6, <1>8, <1>19, <2>1 DEF Shape
  <2> QED
    BY <1>8, <2>1, <2>2 DEF Shape
<1>15. Control'
  BY <1>1, <1>8, <1>10, <1>13, <1>14 DEF Control, Unwinding, Shape
<1>16. Armed'
  BY <1>1, <1>4, <1>5, <1>6, <1>8, <1>10 DEF Armed, IsNative
<1>17. HandlesAre' /\ HandlesDiffer' /\ HandlesApart'
  BY <1>1, <1>2, <1>8, <1>10, <1>13, HandlesKept DEF IInv
<1>18. FirstAbort'
  BY <1>1, <1>2, <1>13 DEF IInv, FirstAbort, Alone
<1> QED
  BY <1>11, <1>13, <1>15, <1>16, <1>17, <1>18 DEF IInv

(* The native that calls a block, and what its cleanup needs for that. *)
LEMMA Counting ==
  ASSUME NEW a \in NativesAll, a.at = "cleanup"
  PROVE  /\ [a EXCEPT !.ran = 1] \in NativesAll
         /\ [a EXCEPT !.ran = 1].kind = a.kind /\ [a EXCEPT !.ran = 1].id = a.id
         /\ [a EXCEPT !.ran = 1].home = a.home /\ [a EXCEPT !.ran = 1].at = "cleanup"
         /\ [a EXCEPT !.ran = 1].ran = 1 /\ [a EXCEPT !.ran = 1].answer = a.answer
         /\ [a EXCEPT !.ran = 1].saved = a.saved
BY DEF NativesAll

LEMMA CallsBlockKeeps == UnwindAssumption /\ IInv /\ CallsBlock => IInv' /\ Same /\ Len(stack) <= Len(stack')
<1> SUFFICES ASSUME UnwindAssumption, IInv, CallsBlock PROVE IInv' /\ Same /\ Len(stack) <= Len(stack')
  OBVIOUS
<1>1. /\ stack # <<>> /\ ctl = "call" /\ IsNative(Top) /\ (Top.at = "cleanup" => Top.ran = 0)
      /\ Types /\ Layers /\ UNCHANGED <<stops, restarts, outcome>>
  BY DEF IInv, Control, CallsBlock
<1>2. PICK m \in Nat \ {0}: m = Len(stack)
  BY <1>1, StackTop
<1>3. /\ Top = stack[m] /\ Top \in Activations /\ calls \in Nat \ {0} /\ aborts \in Nat
      /\ m - 1 \in Nat /\ m \in 1 .. m
      /\ Below \in Seq(Activations) /\ Len(Below) = m - 1 /\ \A i \in 1 .. m - 1: Below[i] = stack[i]
  BY <1>1, <1>2, StackTop DEF Types
<1>4. PICK t \in NativesAll: t = Top
  BY <1>1, <1>3, ActivationKinds
<1>5. Layer(m) /\ \A i \in 1 .. m - 1: Layer(i) /\ Ran(i)
  <2>1. \A i \in 1 .. m - 1: i \in 1 .. m /\ i < m
    BY <1>3
  <2> QED
    BY <1>1, <1>2, <1>3, <2>1 DEF Layers
<1>6. IsCleanup(m) <=> t.at = "cleanup"
  BY <1>1, <1>3, <1>4 DEF IsCleanup
<1>7. CASE Len(stack) >= Limit
  <2>1. Abort(ctx, TRUE, FALSE) /\ stack' = stack /\ calls' = calls
    BY <1>7 DEF CallsBlock
  <2>2. stops' \in 0 .. MaxStops /\ restarts' \in 0 .. MaxRestarts
    BY <1>1 DEF Types
  <2>3. Ran(m)
    <3>1. SUFFICES ASSUME IsCleanup(m) PROVE Beneath(m)
      BY DEF Ran
    <3>2. Cleanups # {}
      BY <1>2, <1>3, <3>1 DEF Cleanups, IsCleanup
    <3>3. ~(m <= StackLimit)
      BY <1>2, <1>7, <3>2 DEF Limit, UnwindAssumption
    <3> QED
      BY <1>5, <3>3 DEF Layer
  <2>4. ctx \in Cs
    BY <1>1 DEF Types
  <2>5. IInv'
    BY <1>1, <1>2, <2>1, <2>2, <2>3, <2>4, Clear, AbortKeeps
  <2>6. Len(stack) <= Len(stack')
    BY <1>2, <2>1
  <2> QED
    BY <2>1, <2>5, <2>6, SameStack
<1>8. CASE ~(Len(stack) >= Limit)
  <2>1. PICK a \in NativesAll: a = IF t.at = "cleanup" THEN [t EXCEPT !.ran = 1] ELSE t
    BY Counting
  <2>2. /\ a.kind = t.kind /\ a.id = t.id /\ a.home = t.home /\ a.at = t.at
        /\ a.answer = t.answer /\ a.saved = t.saved
        /\ a.at = "cleanup" => a.ran = 1
        /\ a.at = "body" => a.ran = t.ran
    <3>1. CASE t.at = "cleanup"
      BY <2>1, <3>1, Counting
    <3>2. CASE t.at # "cleanup"
      BY <2>1, <3>2
    <3> QED
      BY <3>1, <3>2
  <2>3. PICK b \in Activations: b = BlockFrame(calls + 1, t.home)
    BY <1>3, NewBlock DEF NativesAll
  <2>4. b.kind = "block" /\ b.id = calls + 1 /\ b.home = t.home /\ ~IsNative(b)
    BY <1>3, <2>3, NewBlock DEF NativesAll
  <2>5. /\ stack' = Append(Below \o <<a>>, b) /\ calls' = calls + 1 /\ ctl' = "run"
        /\ ctx' = ctx /\ handles' = handles /\ aborts' = aborts /\ captured' = captured
    <3>1. (IF Top.at = "cleanup" THEN [Top EXCEPT !.ran = @ + 1] ELSE Top) = a
      BY <1>1, <1>4, <2>1
    <3> QED
      BY <1>4, <1>8, <2>3, <3>1 DEF CallsBlock
  <2>6. a \in Activations /\ IsNative(a)
    BY DEF Activations, NativesAll, IsNative
  <2>7. /\ stack' \in Seq(Activations) /\ Len(stack') = m + 1
        /\ \A i \in 1 .. m - 1: stack'[i] = stack[i]
        /\ stack'[m] = a /\ stack'[m + 1] = b
    <3>1. /\ Below \o <<a>> \in Seq(Activations) /\ Len(Below \o <<a>>) = m
          /\ \A i \in 1 .. m - 1: (Below \o <<a>>)[i] = stack[i]
          /\ (Below \o <<a>>)[m] = a
      BY <1>3, <2>6
    <3> QED
      BY <1>3, <2>5, <3>1, AppendProperties
  <2>8. Types'
    BY <1>1, <1>3, <2>5, <2>7 DEF Types
  <2>9. Kept(m - 1)
    BY <1>2, <1>3, <2>5, <2>7 DEF Kept
  <2>10. \A i \in 1 .. m - 1: Layer(i)' /\ Ran(i)'
    BY <1>1, <1>5, <2>8, <2>9, LayerKept
  <2>11. Layer(m)' /\ Ran(m)'
    <3>1. /\ a.id \in 1 .. calls' /\ a.home \in -1 .. calls'
          /\ \A j \in 1 .. m - 1: stack[j].id < a.id
          /\ m - 1 = 0 => ~IsNative(a)
      <4>1. /\ t.id \in 1 .. calls /\ t.home \in -1 .. calls /\ \A j \in 1 .. m: j < m => stack[j].id < t.id
            /\ m # 1
        BY <1>1, <1>2, <1>3, <1>4, <1>5 DEF Layer, IsNative
      <4>2. t.id \in 1 .. calls' /\ t.home \in -1 .. calls'
        BY <1>3, <2>5, <4>1
      <4>3. \A j \in 1 .. m - 1: j \in 1 .. m /\ j < m
        OBVIOUS
      <4>4. m - 1 # 0
        BY <1>3, <4>1
      <4> QED
        BY <2>2, <4>1, <4>2, <4>3, <4>4
    <3>2. a.at = "body" => a.ran = 0
      BY <1>1, <1>3, <1>4, <1>5, <2>2 DEF Layer
    <3>3. a.at = "cleanup" => Saved(a)' /\ (a.saved.nonlocal => HomeBelow(a.saved.home, m))
      <4>1. SUFFICES ASSUME a.at = "cleanup" PROVE Saved(a)' /\ (a.saved.nonlocal => HomeBelow(a.saved.home, m))
        OBVIOUS
      <4>2. IsCleanup(m) /\ t = stack[m]
        BY <1>3, <1>4, <1>6, <2>2, <4>1
      <4>3. Saved(t) /\ (t.saved.nonlocal => HomeBelow(t.saved.home, m))
        BY <1>5, <4>2 DEF Layer
      <4>4. PICK v \in Us: v = t.saved
        BY DEF NativesAll
      <4>5. Shape(v)'
        BY <1>1, <2>9, <4>3, <4>4, ShapeKept DEF Saved
      <4> QED
        BY <2>2, <4>3, <4>4, <4>5 DEF Saved, Shape
    <3>4. ~Beneath(m) => m <= StackLimit
      BY <1>5 DEF Layer
    <3>5. m - 1 + 1 = m /\ m <= Len(stack')
      BY <2>7
    <3>6. Layer(m - 1 + 1)'
      BY <1>1, <2>6, <2>7, <2>8, <2>9, <3>1, <3>2, <3>3, <3>4, <3>5, LayerNew
    <3>7. Layer(m)'
      BY <3>5, <3>6 DEF Layer
    <3> QED
      BY <2>2, <2>7, <3>7 DEF Ran, IsCleanup
  <2>12. \A i \in 1 .. m: IsCleanup(i)' <=> IsCleanup(i)
    <3>1. \A i \in 1 .. m: i \in 1 .. m - 1 \/ i = m
      OBVIOUS
    <3>2. IsCleanup(m)' <=> IsCleanup(m)
      BY <1>6, <2>2, <2>6, <2>7 DEF IsCleanup, IsNative
    <3>3. \A i \in 1 .. m - 1: IsCleanup(i)' <=> IsCleanup(i)
      BY <1>1, <2>8, <2>9, PrefixSame
    <3> QED
      BY <3>1, <3>2, <3>3
  <2>13. Layer(m + 1)'
    <3>1. (stack[m + 1].id \in 1 .. calls)' /\ (stack[m + 1].home \in -1 .. calls)'
          /\ (~IsNative(stack[m + 1]))'
      <4>1. t.home \in -1 .. calls
        BY <1>1, <1>3, <1>4, <1>5 DEF Layer, IsNative
      <4> QED
        BY <1>3, <2>4, <2>5, <2>7, <4>1 DEF IsNative
    <3>2. (\A j \in 1 .. Len(stack): j < m + 1 => stack[j].id < stack[m + 1].id)'
      <4>1. ASSUME NEW j \in 1 .. Len(stack'), j < m + 1 PROVE stack'[j].id < calls + 1
        <5>1. j \in 1 .. m - 1 \/ j = m
          BY <2>7, <4>1
        <5>2. \A k \in 1 .. m: stack[k].id \in 1 .. calls
          BY <1>1, <1>2 DEF Layers, Layer
        <5>3. CASE j \in 1 .. m - 1
          BY <1>3, <2>7, <5>2, <5>3
        <5>4. CASE j = m
          BY <1>3, <1>4, <2>2, <2>7, <5>2, <5>4
        <5> QED
          BY <5>1, <5>3, <5>4
      <4> QED
        BY <2>4, <2>7, <4>1
    <3>3. (~Beneath(m + 1) => m + 1 <= StackLimit)'
      <4>1. SUFFICES ASSUME ~Beneath(m + 1)' PROVE m + 1 <= StackLimit
        OBVIOUS
      <4>2. \A j \in 1 .. m: j \in 1 .. Len(stack') /\ j < m + 1
        BY <2>7
      <4>3. \A j \in 1 .. m: ~IsCleanup(j)
        BY <2>12, <4>1, <4>2 DEF Beneath
      <4>4. Cleanups = {}
        BY <1>2, <4>3 DEF Cleanups, IsCleanup
      <4> QED
        BY <1>2, <1>8, <4>4 DEF Limit, UnwindAssumption
    <3>4. ~IsCleanup(m + 1)' /\ m + 1 # 1
      BY <3>1 DEF IsCleanup, IsNative
    <3> QED
      BY <3>1, <3>2, <3>3, <3>4 DEF Layer, IsNative
  <2>14. Layers'
    <3>1. \A i \in 1 .. Len(stack'): i \in 1 .. m - 1 \/ i = m \/ i = m + 1
      BY <2>7
    <3>2. ASSUME NEW i \in 1 .. Len(stack') PROVE Layer(i)'
      <4>1. CASE i \in 1 .. m - 1
        BY <2>10, <4>1
      <4>2. CASE i = m
        BY <2>11, <4>2 DEF Layer
      <4>3. CASE i = m + 1
        BY <2>13, <4>3 DEF Layer
      <4> QED
        BY <3>1, <4>1, <4>2, <4>3
    <3>3. ASSUME NEW i \in 1 .. Len(stack'), i < Len(stack') PROVE Ran(i)'
      <4>1. CASE i \in 1 .. m - 1
        BY <2>10, <4>1
      <4>2. CASE i = m
        BY <2>11, <4>2 DEF Ran
      <4> QED
        BY <2>7, <3>3, <4>1, <4>2
    <3>4. ctl' \notin {"value", "empty"}
      BY <2>5
    <3> QED
      BY <3>2, <3>3, <3>4 DEF Layers
  <2>15. /\ SetAside' = SetAside /\ \A i \in SetAside: stack'[i].saved = stack[i].saved
    <3>1. \A i \in 1 .. m: IsCleanup(i) => stack'[i].saved = stack[i].saved
      <4>1. \A i \in 1 .. m: i \in 1 .. m - 1 \/ i = m
        OBVIOUS
      <4> QED
        BY <1>3, <1>4, <2>2, <2>7, <4>1
    <3>2. \A i: i \in SetAside <=> i \in 1 .. m /\ IsCleanup(i) /\ stack[i].saved.aborting
      BY <1>2 DEF SetAside, Cleanups, IsCleanup
    <3>3. \A i: i \in SetAside' <=> i \in 1 .. m + 1 /\ IsCleanup(i)' /\ stack'[i].saved.aborting
      BY <2>7 DEF SetAside, Cleanups, IsCleanup
    <3>4. ~IsCleanup(m + 1)' /\ \A i \in 1 .. m + 1: i \in 1 .. m \/ i = m + 1
      BY <2>4, <2>7 DEF IsCleanup, IsNative
    <3>5. \A i: i \in SetAside' <=> i \in SetAside
      BY <2>12, <3>1, <3>2, <3>3, <3>4
    <3> QED
      BY <3>1, <3>2, <3>5
  <2>16. (ctl = "run" /\ stack # <<>> => ~IsNative(Top))'
    BY <2>4, <2>7 DEF Top, IsNative
  <2>17. IInv'
    BY <1>1, <2>5, <2>8, <2>9, <2>14, <2>15, <2>16, Settles
  <2>18. Len(stack) <= Len(stack')
    BY <1>2, <2>7
  <2> QED
    BY <2>15, <2>17, <2>18 DEF Same
<1> QED
  BY <1>7, <1>8

-------------------------------------------------------------------------------
\* An answer arrives

LEMMA HomeStays ==
  ASSUME Types, Types', NEW m \in Nat \ {0}, m = Len(stack), Kept(m - 1), NEW h, HomeBelow(h, m + 1),
         ~(stack[m].kind = "method" /\ stack[m].id = h)
  PROVE  HomeBelow(h, m) /\ HomeBelow(h, m)'
<1>1. HomeBelow(h, m)
  <2>1. \A j \in 1 .. m: j < m + 1 => j < m \/ j = m
    OBVIOUS
  <2> QED
    BY <2>1 DEF HomeBelow
<1>2. m \in 1 .. m - 1 + 1
  OBVIOUS
<1>3. HomeBelow(h, m)' <=> HomeBelow(h, m)
  BY <1>2, PrefixSame
<1> QED
  BY <1>1, <1>3

(* An activation other than a cleanup leaves. *)
LEMMA Popping ==
  ASSUME IInv, ctl # "done", stack # <<>>, NEW m, m = Len(stack), ~IsCleanup(m), stack' = Below,
         ctx' \in Cs, ctx'.u.handle = ctx.u.handle, ctx'.u.aborting <=> ctx.u.aborting,
         ctl' \in {"value", "empty"},
         UNCHANGED <<handles, calls, aborts, stops, restarts, captured, outcome>>
  PROVE  /\ Types' /\ Layers' /\ Kept(m - 1) /\ Len(stack') = m - 1 /\ m \in Nat \ {0}
         /\ SetAside' = SetAside /\ Same /\ HandlesAre' /\ HandlesDiffer' /\ HandlesApart' /\ FirstAbort'
<1>1. Types /\ Layers
  BY DEF IInv
<1>2. Types'
  BY <1>1, StackTop DEF Types
<1>3. calls' = calls /\ aborts' = aborts /\ handles' = handles
  OBVIOUS
<1>4. /\ Layers' /\ Kept(m - 1) /\ Len(stack') = m - 1 /\ m \in Nat \ {0}
      /\ SetAside' = SetAside \ {m} /\ \A i \in SetAside': stack'[i] = stack[i]
      /\ m \notin SetAside
  BY <1>1, <1>2, <1>3, Pops
<1>5. SetAside' = SetAside /\ \A i \in SetAside: stack'[i].saved = stack[i].saved
  BY <1>4
<1>6. HandlesAre' /\ HandlesDiffer' /\ HandlesApart'
  BY <1>3, <1>5, HandlesKept DEF IInv
<1>7. FirstAbort'
  BY <1>3, <1>5 DEF IInv, FirstAbort, Alone
<1> QED
  BY <1>2, <1>4, <1>5, <1>6, <1>7 DEF Same

(* The unwinding goes on beneath: a native without its cleanup, a frame that is
   not the target. *)
LEMMA Unrolls ==
  ASSUME IInv, ctl = "empty", stack # <<>>, ~IsCleanup(Len(stack)), stack' = Below, ctx' = ctx,
         ctl' = "empty", ctx.u.aborting \/ ctx.u.restarting,
         ctx.u.restarting => IsNative(Top) \/ Top.id # ctx.u.target,
         UNCHANGED <<handles, calls, aborts, stops, restarts, captured, outcome>>
  PROVE  IInv' /\ Same
<1>1. PICK m: m = Len(stack)
  OBVIOUS
<1>2. ctx \in Cs /\ ctx.u \in Us /\ Types
  BY ContextFields DEF IInv, Types
<1>3. /\ Types' /\ Layers' /\ Kept(m - 1) /\ Len(stack') = m - 1 /\ m \in Nat \ {0}
      /\ SetAside' = SetAside /\ Same /\ HandlesAre' /\ HandlesDiffer' /\ HandlesApart' /\ FirstAbort'
  BY <1>1, <1>2, Popping
<1>4. Shape(ctx.u) /\ Shape(ctx.u)'
  <2>1. Shape(ctx.u)
    BY DEF IInv, Control
  <2>2. PICK v \in Us: v = ctx.u
    BY <1>2
  <2>3. Shape(v)'
    BY <1>2, <1>3, <2>1, <2>2, ShapeKept
  <2> QED
    BY <2>1, <2>2, <2>3 DEF Shape
<1>5. ~ctx.u.nonlocal
  BY <1>4 DEF Shape
<1>6. Control'
  <2>1. (ctl = "empty" /\ stack # <<>> => Unwinding(ctx))'
    BY DEF Unwinding
  <2>2. (ctx.abandoning => ctx.u.aborting)' /\ (ctx.u.restarting => SetAside = {})'
    BY <1>3 DEF IInv, Control
  <2> QED
    BY <1>4, <1>5, <2>1, <2>2 DEF Control
<1>7. Armed'
  <2>1. ctx.u.restarting => \A i \in 1 .. Len(stack): i > m - 1 => IsNative(stack[i]) \/ stack[i].id # ctx.u.target
    <3>1. \A i \in 1 .. Len(stack): i > m - 1 => i = m
      BY <1>1, <1>3
    <3>2. Top = stack[m]
      BY <1>1 DEF Top
    <3> QED
      BY <3>1, <3>2
  <2>2. ctx.accept => ctx.u.restarting
    BY DEF IInv, Armed
  <2>3. Armed
    BY DEF IInv
  <2> QED
    BY <1>2, <1>3, <2>1, <2>2, <2>3, TargetKept
<1> QED
  BY <1>3, <1>6, <1>7 DEF IInv

LEMMA ReturnsNativeKeeps == IInv /\ ReturnsNative => IInv' /\ Same
<1> SUFFICES ASSUME IInv, ReturnsNative PROVE IInv' /\ Same
  OBVIOUS
<1>1. /\ stack # <<>> /\ IsNative(Top) /\ Top.at = "body" /\ stack' = Below /\ Types /\ Layers
      /\ UNCHANGED <<ctl, ctx, handles, calls, aborts, stops, restarts, captured, outcome>>
  BY DEF IInv, ReturnsNative
<1>2. ~IsCleanup(Len(stack))
  BY <1>1 DEF IsCleanup, Top
<1>3. CASE ctl = "value" /\ Top.kind = "curtailed"
  <2>1. Types'
    BY <1>1, StackTop DEF Types
  <2>2. PICK m: m = Len(stack)
    OBVIOUS
  <2>3. /\ Layers' /\ Kept(m - 1) /\ SetAside' = SetAside \ {m}
        /\ \A i \in SetAside': stack'[i] = stack[i]
    <3>1. calls' = calls /\ aborts' = aborts
      BY <1>1
    <3> QED
      BY <1>1, <1>2, <2>1, <2>2, <3>1, Pops
  <2>4. SetAside' = SetAside /\ \A i \in SetAside: stack'[i].saved = stack[i].saved
    <3>1. m \notin SetAside
      BY <1>2, <2>2 DEF SetAside, Cleanups, IsCleanup
    <3> QED
      BY <2>3, <3>1
  <2>5. IInv'
    BY <1>1, <1>3, <2>1, <2>3, <2>4, Settles
  <2> QED
    BY <2>4, <2>5 DEF Same
<1>4. CASE ctl = "empty" /\ ~Cleans(ctx)
  <2>1. ctx.u.aborting \/ ctx.u.restarting
    BY <1>4 DEF Cleans, IInv, Control
  <2> QED
    BY <1>1, <1>2, <1>4, <2>1, Unrolls
<1> QED
  BY <1>3, <1>4 DEF ReturnsNative

(* A target that unwinding leaves beneath it is none: ~FrameLink finds nothing. *)
LEMMA NothingLeft ==
  ASSUME IInv, stack # <<>>, ~(ctx.u.restarting /\ ctx.u.target = Top.id),
         NEW c, c.u.target = ctx.u.target
  PROVE  Left(c) = c
<1>1. Len(stack) \in Nat \ {0} /\ Top = stack[Len(stack)] /\ calls \in Nat
  BY StackTop DEF IInv, Types
<1>2. Top.id \in 1 .. calls
  BY <1>1 DEF IInv, Layers, Layer
<1>3. ~ctx.u.restarting => ctx.u.target = 0
  BY DEF IInv, Control, Shape
<1> QED
  BY <1>1, <1>2, <1>3 DEF Left

LEMMA OutermostIs ==
  ASSUME Types, Layers, NEW m \in Nat \ {0}, m = Len(stack), Outermost
  PROVE  m = 1
<1>1. 1 \in 1 .. m
  OBVIOUS
<1>2. ~IsNative(stack[1])
  BY <1>1 DEF Layers, Layer
<1> QED
  BY <1>1, <1>2 DEF Outermost, Frames

LEMMA LeavesKeeps ==
  IInv /\ Leaves => /\ IInv' /\ Same
                   /\ IF ctx.u.aborting THEN ctx' = ctx ELSE ~ctx'.u.aborting
<1> SUFFICES ASSUME IInv, Leaves
             PROVE  IInv' /\ Same /\ IF ctx.u.aborting THEN ctx' = ctx ELSE ~ctx'.u.aborting
  OBVIOUS
<1>1. /\ stack # <<>> /\ ctl = "empty" /\ ~IsNative(Top) /\ stack' = Below /\ Types /\ Layers
      /\ ~(ctx.u.restarting /\ ctx.u.target = Top.id)
      /\ UNCHANGED <<handles, calls, aborts, stops, restarts, captured, outcome>>
  BY DEF IInv, Leaves, Arrives
<1>2. PICK m \in Nat \ {0}: m = Len(stack) /\ Top = stack[m]
  BY <1>1, StackTop
<1>3. ~IsCleanup(m)
  BY <1>1, <1>2 DEF IsCleanup
<1>4. CASE ctx.u.restarting \/ ctx.u.aborting
  <2>1. ctx' = Left(ctx) /\ ctl' = "empty"
    BY <1>4 DEF Leaves
  <2>2. ctx' = ctx
    BY <1>1, <2>1, NothingLeft
  <2>3. IInv' /\ Same
    BY <1>1, <1>2, <1>3, <1>4, <2>1, <2>2, Unrolls
  <2> QED
    BY <2>2, <2>3
<1>5. CASE ~ctx.u.restarting /\ ~ctx.u.aborting
  <2>1. /\ ctx \in Cs /\ ctx.u \in Us /\ Shape(ctx.u) /\ ctx.u.nonlocal
        /\ ctx.u.handle = 0 /\ ctx.u.target = 0 /\ ~ctx.accept /\ ~ctx.abandoning
        /\ HomeBelow(ctx.u.home, m + 1) /\ ctx.accept = FALSE /\ ctx.abandoning = FALSE
    BY <1>1, <1>2, <1>5, ContextFields DEF IInv, Types, Control, Unwinding, Shape, Armed
  <2>2. PICK u \in Us: u = ctx.u
    BY <2>1
  <2>16. ctx.accept \in BOOLEAN /\ ctx.abandoning \in BOOLEAN /\ ctx \in Cs
    BY <2>1 DEF Cs
  <2>3. ~u.aborting /\ ~u.restarting /\ u.handle = 0 /\ u.target = 0
    BY <1>5, <2>1, <2>2
  <2>17. PICK z \in Int: z = 0
    OBVIOUS
  <2>4. PICK b \in BOOLEAN, h \in Int:
          /\ ctx' = CallContext(Pause(u, b, h), ctx.accept, ctx.abandoning)
          /\ b => h = u.home /\ ctl' = "empty" /\ ~Outermost /\ ~Hit(ctx)
          /\ ~b => h = 0 /\ (ctl' = "value" \/ Outermost)
          /\ ctl' \in {"value", "empty"} /\ (ctl' = "value" => ~b)
    <3>1. CASE Hit(ctx)
      <4>1. /\ ctx' = Left([ctx EXCEPT !.u.nonlocal = FALSE, !.u.home = z]) /\ ctl' = "value"
        BY <1>5, <2>17, <3>1 DEF Leaves
      <4>2. [ctx EXCEPT !.u.nonlocal = FALSE, !.u.home = z] = CallContext(Pause(u, FALSE, z), ctx.accept, ctx.abandoning)
        BY <2>2, <2>16, PausesContext
      <4>3. PICK c \in Cs: c = CallContext(Pause(u, FALSE, z), ctx.accept, ctx.abandoning)
        BY <2>1, <2>16, Pauses, ContextIs
      <4>4. c.u.target = ctx.u.target
        <5>1. PICK p \in Us: p = Pause(u, FALSE, z)
          BY Pauses
        <5>2. p.target = u.target
          BY <5>1, Pauses
        <5>3. c.u = p
          BY <2>16, <4>3, <5>1, ContextIs
        <5> QED
          BY <2>2, <5>2, <5>3
      <4>5. Left(c) = c
        BY <1>1, <4>4, NothingLeft
      <4> QED
        BY <2>17, <3>1, <4>1, <4>2, <4>3, <4>5
    <3>2. CASE ~Hit(ctx)
      <4>1. ctx' = Left(Misses(ctx)) /\ ctl' = "empty"
        BY <1>5, <3>2 DEF Leaves
      <4>2. PICK b \in BOOLEAN, h \in Int:
              /\ Misses(ctx) = CallContext(Pause(u, b, h), ctx.accept, ctx.abandoning)
              /\ b => h = u.home /\ ~Outermost
              /\ ~b => h = 0 /\ Outermost
        <5>1. CASE Outermost
          <6>1. Misses(ctx) = [ctx EXCEPT !.u.nonlocal = FALSE, !.u.home = z]
            BY <2>17, <5>1 DEF Misses
          <6>2. Misses(ctx) = CallContext(Pause(u, FALSE, z), ctx.accept, ctx.abandoning)
            BY <2>2, <2>16, <6>1, PausesContext
          <6> QED
            BY <2>17, <5>1, <6>2
        <5>2. CASE ~Outermost
          <6>1. ctx.u.nonlocal = TRUE
            BY <2>1 DEF Us
          <6>2. Misses(ctx) = [ctx EXCEPT !.u.nonlocal = TRUE, !.u.home = ctx.u.home]
            BY <5>2, <6>1 DEF Misses
          <6>3. PICK h \in Int: h = ctx.u.home
            BY <2>1 DEF Us
          <6>4. Misses(ctx) = CallContext(Pause(u, TRUE, h), ctx.accept, ctx.abandoning)
            BY <2>2, <2>16, <6>2, <6>3, PausesContext
          <6> QED
            BY <2>2, <5>2, <6>3, <6>4
        <5> QED
          BY <5>1, <5>2
      <4>3. PICK c \in Cs: c = CallContext(Pause(u, b, h), ctx.accept, ctx.abandoning)
        BY <2>1, <2>16, Pauses, ContextIs
      <4>4. c.u.target = ctx.u.target
        BY <2>2, <2>16, <4>3, Pauses, ContextIs
      <4>5. Left(c) = c
        BY <1>1, <4>4, NothingLeft
      <4> QED
        BY <3>2, <4>1, <4>2, <4>3, <4>5
    <3> QED
      BY <3>1, <3>2
  <2>5. PICK v \in Us: v = Pause(u, b, h)
    BY Pauses
  <2>6. v.nonlocal <=> b
    BY <2>5, Pauses
  <2>7. ~v.aborting
    BY <2>3, <2>5, Pauses
  <2>8. ~v.restarting
    BY <2>3, <2>5, Pauses
  <2>9. v.home = h /\ v.reason = u.reason /\ v.handle = 0 /\ v.target = 0
    BY <2>3, <2>5, Pauses
  <2>10. ctx' \in Cs /\ ctx'.u = v /\ ~ctx'.accept /\ ~ctx'.abandoning
    <3>1. ctx' = CallContext(v, ctx.accept, ctx.abandoning)
      BY <2>4, <2>5
    <3> QED
      BY <2>1, <2>16, <3>1, ContextIs
  <2>11. /\ Types' /\ Layers' /\ Kept(m - 1) /\ Len(stack') = m - 1
         /\ SetAside' = SetAside /\ Same /\ HandlesAre' /\ HandlesDiffer' /\ HandlesApart' /\ FirstAbort'
    BY <1>1, <1>2, <1>3, <1>5, <2>1, <2>4, <2>7, <2>9, <2>10, Popping
  <2>12. Shape(v)'
    <3>1. /\ v.reason <= aborts /\ h \in 0 .. calls /\ calls' = calls /\ aborts' = aborts
      <4>1. ctx.u.home \in 0 .. calls /\ ctx.u.reason <= aborts /\ calls \in Nat
        BY <1>1, <2>1 DEF Shape, Types
      <4> QED
        BY <1>1, <2>2, <2>4, <2>9, <4>1
    <3>2. 0 <= aborts /\ 0 <= calls
      BY <1>1 DEF Types
    <3> QED
      BY <2>7, <2>8, <2>9, <3>1, <3>2 DEF Shape
  <2>13. b => HomeBelow(h, m)'
    <3>1. SUFFICES ASSUME b PROVE HomeBelow(h, m)'
      OBVIOUS
    <3>2. HomeBelow(h, m + 1) /\ ~(stack[m].kind = "method" /\ stack[m].id = h)
      BY <1>2, <2>1, <2>2, <2>4, <3>1 DEF Hit
    <3> QED
      BY <1>1, <1>2, <2>11, <3>2, HomeStays
  <2>14. Control'
    <3>1. (ctx.u.nonlocal => HomeBelow(ctx.u.home, Len(stack) + 1))'
      <4>1. Len(stack') + 1 = m
        BY <2>11
      <4> QED
        BY <2>6, <2>9, <2>10, <2>13, <4>1 DEF HomeBelow
    <3>2. (ctl = "empty" /\ stack # <<>> => Unwinding(ctx))'
      <4>1. ASSUME ctl' = "empty", stack' # <<>> PROVE b
        <5>1. Len(stack') # 0
          BY <2>11, <4>1, LenIs
        <5>2. m # 1
          BY <2>11, <5>1
        <5>3. ~Outermost
          BY <1>1, <1>2, <5>2, OutermostIs
        <5> QED
          BY <2>4, <4>1, <5>3
      <4> QED
        BY <2>6, <2>10, <4>1 DEF Unwinding
    <3>3. (ctl # "empty" => ~Unwinding(ctx) /\ ~ctx.abandoning)'
      BY <2>4, <2>6, <2>7, <2>8, <2>10 DEF Unwinding
    <3>4. (ctl = "call" => stack # <<>> /\ IsNative(Top) /\ (Top.at = "cleanup" => Top.ran = 0))'
          /\ (ctl = "run" /\ stack # <<>> => ~IsNative(Top))'
      BY <2>4
    <3>5. Shape(ctx.u)'
      BY <2>10, <2>12 DEF Shape
    <3> QED
      BY <2>8, <2>10, <3>1, <3>2, <3>3, <3>4, <3>5 DEF Control
  <2>15. Armed'
    BY <2>8, <2>10 DEF Armed
  <2>18. IInv'
    BY <2>11, <2>14, <2>15 DEF IInv
  <2> QED
    BY <1>5, <2>7, <2>10, <2>11, <2>18
<1> QED
  BY <1>4, <1>5

LEMMA Landing ==
  ASSUME IInv, AtTarget
  PROVE  /\ stack # <<>> /\ ctl = "empty" /\ ~IsNative(Top) /\ SetAside = {} /\ Ran(Len(stack))
         /\ ctx.u.handle = 0 /\ ctx.abandoning = FALSE /\ ~ctx.u.aborting
         /\ \E v \in Us: /\ Landed(ctx) = CallContext(v, ctx.accept, ctx.abandoning) /\ Shape(v)
                         /\ ~v.aborting /\ ~v.nonlocal /\ ~v.restarting
                         /\ v.handle = 0 /\ v.target = 0
<1>1. /\ stack # <<>> /\ ctl = "empty" /\ ~IsNative(Top) /\ ctx.u.restarting /\ Types /\ Layers
      /\ ctx \in Cs /\ ctx.u \in Us /\ Shape(ctx.u) /\ SetAside = {}
  BY ContextFields DEF IInv, AtTarget, Arrives, Types, Control
<1>2. ~ctx.u.aborting /\ ~ctx.u.nonlocal /\ ctx.u.handle = 0
  BY <1>1 DEF Shape
<1>3. ctx.abandoning = FALSE
  BY <1>1, <1>2 DEF IInv, Control, Cs
<1>4. Ran(Len(stack))
  <2>1. Top = stack[Len(stack)]
    BY DEF Top
  <2> QED
    BY <1>1, <2>1 DEF Ran, IsCleanup
<1>5. PICK z \in Nat: z = 0
  OBVIOUS
<1>6. PICK u \in Us: u = ctx.u
  BY <1>1
<1>7. ~u.aborting /\ ~u.nonlocal /\ u.handle = 0
  BY <1>2, <1>6
<1>8. PICK v \in Us: v = Aim(u, FALSE, z)
  BY Aims
<1>9. Landed(ctx) = CallContext(v, ctx.accept, ctx.abandoning)
  <2>1. Landed(ctx) = [ctx EXCEPT !.u.restarting = FALSE, !.u.target = z]
    BY <1>5 DEF Landed
  <2>2. ctx \in Cs
    BY <1>1
  <2>3. [ctx EXCEPT !.u.restarting = FALSE, !.u.target = z] = CallContext(v, ctx.accept, ctx.abandoning)
    BY <1>6, <1>8, <2>2, AimsContext
  <2> QED
    BY <2>1, <2>3
<1>10. ~v.aborting
  BY <1>7, <1>8, Aims
<1>11. ~v.nonlocal
  BY <1>7, <1>8, Aims
<1>12. ~v.restarting
  BY <1>8, Aims
<1>13. v.handle = 0 /\ v.target = z /\ v.reason = u.reason /\ v.home = u.home
  BY <1>7, <1>8, Aims
<1>14. Shape(v)
  <2>1. v.reason <= aborts /\ v.home \in 0 .. calls /\ 0 <= aborts /\ 0 <= calls
    BY <1>1, <1>6, <1>13 DEF Shape, Types
  <2> QED
    BY <1>5, <1>10, <1>11, <1>12, <1>13, <2>1 DEF Shape
<1> QED
  BY <1>1, <1>2, <1>3, <1>4, <1>5, <1>9, <1>10, <1>11, <1>12, <1>13, <1>14

LEMMA StartsOverKeeps == UnwindAssumption /\ IInv /\ StartsOver => IInv'
<1> SUFFICES ASSUME UnwindAssumption, IInv, StartsOver PROVE IInv'
  OBVIOUS
<1>1. AtTarget /\ ~ctx.accept /\ UNCHANGED <<calls, restarts, outcome>> /\ Types /\ Layers
  BY DEF IInv, StartsOver
<1>2. /\ stack # <<>> /\ ctl = "empty" /\ ~IsNative(Top) /\ SetAside = {} /\ Ran(Len(stack))
      /\ ctx.u.handle = 0 /\ ctx.abandoning = FALSE /\ ~ctx.u.aborting
  BY <1>1, Landing
<1>3. PICK v \in Us: /\ Landed(ctx) = CallContext(v, ctx.accept, ctx.abandoning) /\ Shape(v)
                     /\ ~v.aborting /\ ~v.nonlocal /\ ~v.restarting
                     /\ v.handle = 0 /\ v.target = 0
  BY <1>1, Landing
<1>4. PICK c \in Cs: c = CallContext(v, ctx.accept, ctx.abandoning)
  <2>1. ctx.accept \in BOOLEAN /\ ctx.abandoning \in BOOLEAN
    BY <1>1, ContextFields DEF Types
  <2> QED
    BY <2>1, ContextIs
<1>5. c.u = v /\ ~c.accept /\ ~c.abandoning
  <2>1. c = CallContext(v, FALSE, FALSE)
    BY <1>1, <1>2, <1>4 DEF Types, Cs
  <2> QED
    BY <2>1, ContextIs
<1>6. CASE ctx' = Landed(ctx) /\ ctl' = "run" /\ UNCHANGED <<stack, handles, aborts, stops, captured>>
  <2>1. ctx' = c /\ c \in Cs
    BY <1>3, <1>4, <1>6
  <2>2. Types'
    BY <1>1, <1>6, <2>1 DEF Types
  <2>3. aborts <= aborts' /\ calls' = calls
    BY <1>1, <1>6 DEF Types
  <2>4. /\ Layers' /\ SetAside' = SetAside /\ \A i \in SetAside: stack'[i] = stack[i]
    BY <1>1, <1>2, <1>6, <2>2, <2>3, Stays
  <2>5. Shape(ctx.u)'
    BY <1>1, <1>3, <1>5, <1>6, <2>1 DEF Shape
  <2>6. Control'
    <3>1. Top' = Top
      BY <1>6 DEF Top
    <3> QED
      BY <1>2, <1>3, <1>5, <1>6, <2>1, <2>5, <3>1 DEF Control, Unwinding, IsNative
  <2>7. Armed'
    BY <1>3, <1>5, <2>1 DEF Armed
  <2>8. HandlesAre' /\ HandlesDiffer' /\ HandlesApart'
    BY <1>2, <1>3, <1>5, <1>6, <2>1, <2>4, HandlesKept DEF IInv
  <2>9. FirstAbort'
    BY <1>2, <1>6 DEF IInv, FirstAbort, Alone
  <2> QED
    BY <2>2, <2>4, <2>6, <2>7, <2>8, <2>9 DEF IInv
<1>7. CASE /\ Top.kind = "block" /\ stops < MaxStops /\ Abort(Landed(ctx), TRUE, FALSE)
           /\ stops' = stops + 1 /\ UNCHANGED stack
  <2>1. Abort(c, TRUE, FALSE)
    BY <1>3, <1>4, <1>7
  <2>2. stops' \in 0 .. MaxStops /\ restarts' \in 0 .. MaxRestarts
    BY <1>1, <1>7, Stopping DEF Types
  <2>3. ~c.u.aborting /\ ~c.u.restarting /\ c.u.target = 0
    BY <1>3, <1>5
  <2> QED
    BY <1>1, <1>2, <1>5, <1>7, <2>1, <2>2, <2>3, AbortKeeps
<1> QED
  BY <1>6, <1>7 DEF StartsOver

LEMMA ReactivatesKeeps ==
  IInv /\ Reactivates => IInv' /\ SetAside' = {} /\ Len(stack') = Len(stack) /\ Kept(Len(stack) - 1)
<1> SUFFICES ASSUME IInv, Reactivates
             PROVE  IInv' /\ SetAside' = {} /\ Len(stack') = Len(stack) /\ Kept(Len(stack) - 1)
  OBVIOUS
<1>1. /\ AtTarget /\ Types /\ Layers
      /\ ctx' = [Landed(ctx) EXCEPT !.accept = FALSE]
      /\ stack' = Append(Below, MethodFrame(calls + 1)) /\ calls' = calls + 1 /\ ctl' = "run"
      /\ UNCHANGED <<handles, aborts, stops, restarts, captured, outcome>>
  BY DEF IInv, Reactivates
<1>2. /\ stack # <<>> /\ ctl = "empty" /\ ~IsNative(Top) /\ SetAside = {} /\ Ran(Len(stack))
      /\ ctx.u.handle = 0 /\ ctx.abandoning = FALSE /\ ~ctx.u.aborting
  BY <1>1, Landing
<1>3. PICK v \in Us: /\ Landed(ctx) = CallContext(v, ctx.accept, ctx.abandoning) /\ Shape(v)
                     /\ ~v.aborting /\ ~v.nonlocal /\ ~v.restarting
                     /\ v.handle = 0 /\ v.target = 0
  BY <1>1, Landing
<1>4. PICK c \in Cs: c = CallContext(v, ctx.accept, ctx.abandoning)
  <2>1. ctx.accept \in BOOLEAN /\ ctx.abandoning \in BOOLEAN
    BY <1>1, ContextFields DEF Types
  <2> QED
    BY <2>1, ContextIs
<1>5. ctx' \in Cs /\ ctx'.u = v /\ ~ctx'.accept /\ ~ctx'.abandoning
  <2>1. ctx' = [c EXCEPT !.accept = FALSE]
    BY <1>1, <1>3, <1>4
  <2>2. c.u = v
    BY <1>4 DEF CallContext
  <2>3. ~c.abandoning
    BY <1>2, <1>4 DEF CallContext
  <2>4. ctx' \in Cs
    BY <2>1 DEF Cs
  <2>5. ctx'.u = c.u
    BY <2>1 DEF Cs
  <2>6. ~ctx'.accept
    BY <2>1 DEF Cs
  <2>7. ~ctx'.abandoning
    BY <2>1, <2>3 DEF Cs
  <2> QED
    BY <2>2, <2>4, <2>5, <2>6, <2>7
<1>6. PICK m \in Nat \ {0}: m = Len(stack)
  BY <1>2, StackTop
<1>7. PICK a \in Activations: a = MethodFrame(calls + 1) /\ a.kind = "method" /\ a.id = calls + 1 /\ ~IsNative(a)
  <2>1. calls + 1 \in Nat
    BY <1>1 DEF Types
  <2> QED
    BY <2>1, NewMethod
<1>8. /\ stack' \in Seq(Activations) /\ Len(stack') = m /\ stack'[m] = a /\ stack' # <<>>
      /\ \A i \in 1 .. m - 1: stack'[i] = stack[i]
  <2>1. Below \in Seq(Activations) /\ Len(Below) = m - 1 /\ \A i \in 1 .. m - 1: Below[i] = stack[i]
    BY <1>1, <1>2, <1>6, StackTop
  <2>2. stack' = Append(Below, a)
    BY <1>1, <1>7
  <2>3. /\ stack' \in Seq(Activations) /\ Len(stack') = m - 1 + 1 /\ stack'[m - 1 + 1] = a
        /\ \A i \in 1 .. m - 1: stack'[i] = Below[i]
    BY <2>1, <2>2, AppendProperties
  <2>4. m - 1 + 1 = m
    OBVIOUS
  <2>5. stack' # <<>>
    BY <2>2, <2>1, AppendProperties
  <2> QED
    BY <2>1, <2>3, <2>4, <2>5
<1>9. calls \in Nat \ {0} /\ calls' \in Nat \ {0} /\ aborts \in Nat /\ calls <= calls'
      /\ m - 1 \in Nat /\ m - 1 <= m /\ m - 1 + 1 = m /\ m \in 1 .. m
  BY <1>1 DEF Types
<1>10. Types'
  BY <1>1, <1>5, <1>8, <1>9 DEF Types
<1>11. Kept(m - 1)
  BY <1>1, <1>6, <1>8, <1>9 DEF Kept
<1>12. Layers'
  <2>1. Layer(m) /\ \A j \in 1 .. m: stack[j].id \in 1 .. calls
    BY <1>1, <1>6, <1>9 DEF Layers, Layer
  <2>2. a.id \in 1 .. calls' /\ \A j \in 1 .. m - 1: stack[j].id < a.id
    BY <1>1, <1>7, <1>9, <2>1
  <2>3. ~Beneath(m) => m <= StackLimit
    BY <2>1 DEF Layer
  <2>7. m - 1 + 1 <= Len(stack') /\ stack'[m - 1 + 1] = a
    BY <1>8, <1>9
  <2>8. ~Beneath(m - 1 + 1) => m - 1 + 1 <= StackLimit
    BY <1>9, <2>3
  <2>4. Layer(m - 1 + 1)'
    BY <1>1, <1>7, <1>10, <1>11, <2>2, <2>7, <2>8, LayerNew
  <2>5. Layer(m)'
    BY <1>9, <2>4 DEF Layer
  <2>6. ctl' \notin {"value", "empty"}
    BY <1>1
  <2> QED
    BY <1>1, <1>6, <1>8, <1>10, <1>11, <2>5, <2>6, Retops
<1>13. SetAside' = {}
  <2>1. \A i: i \in SetAside <=> i \in 1 .. m /\ IsCleanup(i) /\ stack[i].saved.aborting
    BY <1>6 DEF SetAside, Cleanups, IsCleanup
  <2>2. \A i: i \in SetAside' <=> i \in 1 .. m /\ IsCleanup(i)' /\ stack'[i].saved.aborting
    BY <1>8 DEF SetAside, Cleanups, IsCleanup
  <2>3. ~IsCleanup(m)'
    BY <1>7, <1>8 DEF IsCleanup, IsNative
  <2>4. \A i \in 1 .. m - 1: (IsCleanup(i)' <=> IsCleanup(i)) /\ stack'[i] = stack[i]
    BY <1>1, <1>8, <1>10, <1>11, PrefixSame
  <2>5. \A i \in 1 .. m: i \in 1 .. m - 1 \/ i = m
    OBVIOUS
  <2>6. \A i: i \notin SetAside'
    BY <1>2, <1>9, <2>1, <2>2, <2>3, <2>4, <2>5
  <2> QED
    BY <2>6
<1>14. Shape(ctx.u)'
  <2>1. Shape(v)'
    BY <1>1, <1>3, <1>11, ShapeKept
  <2> QED
    BY <1>5, <2>1 DEF Shape
<1>15. Control'
  <2>1. Top' = a
    BY <1>8 DEF Top
  <2> QED
    BY <1>1, <1>3, <1>5, <1>7, <1>13, <1>14, <2>1 DEF Control, Unwinding, IsNative
<1>16. Armed'
  BY <1>3, <1>5 DEF Armed
<1>17. HandlesAre' /\ HandlesDiffer' /\ HandlesApart'
  BY <1>1, <1>2, <1>3, <1>5, <1>13, HandlesKept DEF IInv
<1>18. FirstAbort'
  BY <1>1, <1>2, <1>13 DEF IInv, FirstAbort, Alone
<1>19. IInv'
  BY <1>10, <1>12, <1>15, <1>16, <1>17, <1>18 DEF IInv
<1> QED
  BY <1>6, <1>8, <1>11, <1>13, <1>19

-------------------------------------------------------------------------------
\* Cleanups

Paused(t, c, u) == [t EXCEPT !.at = "cleanup", !.answer = c, !.saved = u]

LEMMA Pausing ==
  ASSUME NEW t \in NativesAll, NEW c \in {"value", "empty"}, NEW u \in Us
  PROVE  /\ Paused(t, c, u) \in NativesAll /\ Paused(t, c, u).kind = t.kind
         /\ Paused(t, c, u).id = t.id /\ Paused(t, c, u).home = t.home
         /\ Paused(t, c, u).at = "cleanup" /\ Paused(t, c, u).ran = t.ran
         /\ Paused(t, c, u).answer = c /\ Paused(t, c, u).saved = u
<1>1. Paused(t, c, u) \in NativesAll
  BY DEF NativesAll, Paused
<1>2. /\ Paused(t, c, u).kind = t.kind /\ Paused(t, c, u).id = t.id
      /\ Paused(t, c, u).home = t.home /\ Paused(t, c, u).ran = t.ran
  BY DEF NativesAll, Paused
<1>3. Paused(t, c, u).at = "cleanup" /\ Paused(t, c, u).answer = c
  BY DEF NativesAll, Paused
<1>4. Paused(t, c, u).saved = u
  BY DEF NativesAll, Paused
<1> QED
  BY <1>1, <1>2, <1>3, <1>4

(* The abort that is set aside, and its reason with it. *)
Laid == LET m == Len(stack)
        IN /\ m \in Nat /\ m \notin SetAside /\ \A i \in SetAside: i < m
           /\ SetAside' = IF ctx.u.aborting THEN SetAside \union {m} ELSE SetAside
           /\ \A i \in SetAside: stack'[i] = stack[i]
           /\ stack'[m].saved = ctx.u

LEMMA BeginsAsideKeeps == IInv /\ BeginsAside => IInv' /\ Laid /\ Len(stack') = Len(stack)
<1> SUFFICES ASSUME IInv, BeginsAside PROVE IInv' /\ Laid /\ Len(stack') = Len(stack)
  OBVIOUS
<1>1. /\ stack # <<>> /\ IsNative(Top) /\ Top.at = "body" /\ Cleans(ctx) /\ Types /\ Layers
      /\ ctl \in {"value", "empty"} /\ (ctl = "value" => Top.kind = "ensure")
      /\ stack' = Append(Below, [Top EXCEPT !.at = "cleanup", !.answer = ctl, !.saved = ctx.u])
      /\ ctx' = [ctx EXCEPT !.u = Settled] /\ handles' = handles /\ ctl' = "call"
      /\ UNCHANGED <<calls, aborts, stops, restarts, captured, outcome>>
  BY DEF IInv, BeginsAside, Aside
<1>2. /\ ctx \in Cs /\ ctx.u \in Us /\ Shape(ctx.u) /\ ~ctx.u.restarting /\ ctx.abandoning = FALSE
      /\ ctx.u.target = 0 /\ ctx.accept = FALSE
      /\ (ctl = "empty" <=> ctx.u.aborting \/ ctx.u.nonlocal)
      /\ (ctx.u.nonlocal => HomeBelow(ctx.u.home, Len(stack) + 1))
  <2>1. ctx \in Cs /\ ctx.u \in Us /\ ~ctx.u.restarting /\ ~ctx.abandoning
    BY <1>1, ContextFields DEF Types, Cleans
  <2>2. Shape(ctx.u) /\ (ctx.u.nonlocal => HomeBelow(ctx.u.home, Len(stack) + 1))
    BY DEF IInv, Control
  <2>3. ctl = "empty" <=> ctx.u.aborting \/ ctx.u.nonlocal
    BY <1>1, <2>1 DEF IInv, Control, Unwinding
  <2>4. ~ctx.accept
    BY <2>1 DEF IInv, Armed
  <2>5. ctx.accept = FALSE /\ ctx.abandoning = FALSE
    BY <2>1, <2>4 DEF Cs
  <2> QED
    BY <2>1, <2>2, <2>3, <2>5 DEF Shape
<1>3. PICK m \in Nat \ {0}: m = Len(stack) /\ Top = stack[m]
  BY <1>1, StackTop
<1>4. PICK t \in NativesAll: t = Top
  BY <1>1, StackTop, ActivationKinds
<1>5. PICK a \in NativesAll: /\ a = Paused(t, ctl, ctx.u)
                             /\ a.kind = t.kind /\ a.id = t.id /\ a.home = t.home /\ a.at = "cleanup"
                             /\ a.ran = t.ran /\ a.answer = ctl /\ a.saved = ctx.u
  BY <1>1, <1>2, Pausing
<1>6. a \in Activations /\ IsNative(a)
  BY DEF Activations, NativesAll, IsNative
<1>7. /\ stack' \in Seq(Activations) /\ Len(stack') = m /\ stack'[m] = a /\ stack' # <<>>
      /\ \A i \in 1 .. m - 1: stack'[i] = stack[i]
  <2>1. Below \in Seq(Activations) /\ Len(Below) = m - 1 /\ \A i \in 1 .. m - 1: Below[i] = stack[i]
    BY <1>1, <1>3, StackTop
  <2>2. stack' = Append(Below, a)
    BY <1>1, <1>4, <1>5 DEF Paused
  <2>3. /\ stack' \in Seq(Activations) /\ Len(stack') = m - 1 + 1 /\ stack'[m - 1 + 1] = a
        /\ \A i \in 1 .. m - 1: stack'[i] = Below[i]
    BY <1>6, <2>1, <2>2, AppendProperties
  <2>4. m - 1 + 1 = m
    OBVIOUS
  <2>5. stack' # <<>>
    BY <1>6, <2>1, <2>2, AppendProperties
  <2> QED
    BY <2>1, <2>3, <2>4, <2>5
<1>8. /\ calls \in Nat \ {0} /\ calls' = calls /\ aborts \in Nat /\ aborts' = aborts
      /\ m - 1 \in Nat /\ m - 1 <= m /\ m - 1 + 1 = m /\ m \in 1 .. m
  BY <1>1 DEF Types
<1>9. ctx' \in Cs /\ ctx'.u = Settled /\ ~ctx'.accept /\ ~ctx'.abandoning
  <2>1. ctx' = CallContext(Settled, FALSE, FALSE)
    BY <1>1, <1>2, SettledIs, ContextFields
  <2> QED
    BY <2>1, SettledIs, ContextIs
<1>10. Types'
  BY <1>1, <1>7, <1>8, <1>9 DEF Types
<1>11. Kept(m - 1)
  BY <1>3, <1>7, <1>8 DEF Kept
<1>12. Layer(m)
  BY <1>1, <1>3, <1>8 DEF Layers
<1>13. t.ran = 0
  BY <1>1, <1>3, <1>4, <1>12 DEF Layer
<1>14. Layers'
  <2>1. /\ a.id \in 1 .. calls' /\ \A j \in 1 .. m - 1: stack[j].id < a.id
        /\ a.home \in -1 .. calls' /\ m # 1
    <3>1. /\ t.id \in 1 .. calls /\ t.home \in -1 .. calls /\ \A j \in 1 .. m: j < m => stack[j].id < t.id
          /\ m # 1
      BY <1>1, <1>3, <1>4, <1>12 DEF Layer, IsNative
    <3>2. \A j \in 1 .. m - 1: j \in 1 .. m /\ j < m
      OBVIOUS
    <3> QED
      BY <1>5, <1>8, <3>1, <3>2
  <2>2. Saved(a)'
    <3>1. PICK v \in Us: v = ctx.u
      BY <1>2
    <3>2. Shape(v)'
      BY <1>1, <1>2, <1>11, <3>1, ShapeKept
    <3>3. a.saved = v /\ a.answer = ctl
      BY <1>5, <3>1
    <3>4. ~v.restarting /\ (ctl = "empty" <=> v.aborting \/ v.nonlocal)
      BY <1>2, <3>1
    <3>5. a.kind = "curtailed" => a.answer = "empty"
      BY <1>1, <1>4, <1>5
    <3> QED
      BY <3>2, <3>3, <3>4, <3>5 DEF Saved, Shape
  <2>3. a.saved.nonlocal => HomeBelow(a.saved.home, m)
    <3>1. SUFFICES ASSUME ctx.u.nonlocal PROVE HomeBelow(ctx.u.home, m)
      BY <1>5
    <3>2. stack[m].kind # "method"
      BY <1>1, <1>3 DEF IsNative
    <3>3. PICK h: h = ctx.u.home
      OBVIOUS
    <3>4. HomeBelow(h, m + 1)
      BY <1>2, <1>3, <3>1, <3>3
    <3>5. HomeBelow(h, m)
      BY <1>1, <1>3, <1>10, <1>11, <3>2, <3>4, HomeStays
    <3> QED
      BY <3>3, <3>5
  <2>4. ~Beneath(m) => m <= StackLimit
    BY <1>12 DEF Layer
  <2>5. m - 1 + 1 <= Len(stack') /\ stack'[m - 1 + 1] = a
    BY <1>7, <1>8
  <2>6. (~Beneath(m - 1 + 1) => m - 1 + 1 <= StackLimit)
        /\ (a.saved.nonlocal => HomeBelow(a.saved.home, m - 1 + 1)) /\ m - 1 # 0
    BY <1>8, <2>1, <2>3, <2>4
  <2>7. Layer(m - 1 + 1)'
    BY <1>1, <1>5, <1>6, <1>10, <1>11, <2>1, <2>2, <2>5, <2>6, LayerNew
  <2>8. Layer(m)'
    BY <1>8, <2>7 DEF Layer
  <2>9. ctl' \notin {"value", "empty"}
    BY <1>1
  <2> QED
    BY <1>1, <1>3, <1>7, <1>10, <1>11, <2>8, <2>9, Retops
<1>15. m \notin SetAside
  BY <1>1, <1>3 DEF SetAside, Cleanups
<1>16. /\ SetAside' = IF ctx.u.aborting THEN SetAside \union {m} ELSE SetAside
       /\ \A i \in SetAside: stack'[i] = stack[i]
  <2>1. \A i: i \in SetAside <=> i \in 1 .. m /\ IsCleanup(i) /\ stack[i].saved.aborting
    BY <1>3 DEF SetAside, Cleanups, IsCleanup
  <2>2. \A i: i \in SetAside' <=> i \in 1 .. m /\ IsCleanup(i)' /\ stack'[i].saved.aborting
    BY <1>7 DEF SetAside, Cleanups, IsCleanup
  <2>3. IsCleanup(m)' /\ (stack'[m].saved.aborting <=> ctx.u.aborting)
    BY <1>5, <1>6, <1>7 DEF IsCleanup, IsNative
  <2>4. \A i \in 1 .. m - 1: (IsCleanup(i)' <=> IsCleanup(i)) /\ stack'[i] = stack[i]
    BY <1>1, <1>7, <1>10, <1>11, PrefixSame
  <2>5. \A i \in 1 .. m: i \in 1 .. m - 1 \/ i = m
    OBVIOUS
  <2>6. \A i \in SetAside: i \in 1 .. m - 1
    BY <1>15, <2>1, <2>5
  <2>7. \A i: i \in SetAside' <=> i \in SetAside \/ (i = m /\ ctx.u.aborting)
    BY <1>8, <1>15, <2>1, <2>2, <2>3, <2>4, <2>5
  <2> QED
    BY <2>4, <2>6, <2>7
<1>17. Control'
  <2>1. Top' = a
    BY <1>7 DEF Top
  <2>2. Shape(Settled)'
    BY <1>8, SettledIs DEF Shape
  <2> QED
    BY <1>1, <1>5, <1>6, <1>7, <1>9, <1>13, <2>1, <2>2, SettledIs DEF Control, Unwinding, IsNative, Shape
<1>18. Armed'
  BY <1>9, SettledIs DEF Armed
<1>19. FirstAbort'
  BY <1>1, <1>9, <1>16, SettledIs DEF IInv, FirstAbort, Alone
<1>20. PICK x \in Nat: x = ctx.u.handle
  BY <1>2 DEF Us
<1>21. stack'[m].saved.handle = x /\ ctx'.u.handle = 0
  BY <1>5, <1>7, <1>9, <1>20, SettledIs
<1>22. (x # 0 => ctx.u.aborting)
  BY <1>2, <1>20 DEF Shape
<1>23. Held' = IF x # 0 THEN Held \union {m} ELSE Held
  BY <1>15, <1>16, <1>21, <1>22 DEF Held
<1>24. \A i \in Held: i # m /\ stack'[i].saved.handle = stack[i].saved.handle /\ stack[i].saved.handle # 0
  BY <1>15, <1>16 DEF Held
<1>25. HandlesAre'
  <2>1. handles = {stack[i].saved.handle : i \in Held} \union ({x} \ {0})
    BY <1>20 DEF IInv, HandlesAre
  <2>2. {stack'[i].saved.handle : i \in Held'} = {stack[i].saved.handle : i \in Held} \union ({x} \ {0})
    BY <1>21, <1>23, <1>24
  <2> QED
    BY <1>1, <1>21, <2>1, <2>2 DEF HandlesAre
<1>26. HandlesDiffer' /\ HandlesApart'
  <2>1. \A i \in Held: stack[i].saved.handle # x
    BY <1>20 DEF IInv, HandlesApart
  <2>2. \A i, j \in Held: stack[i].saved.handle = stack[j].saved.handle => i = j
    BY DEF IInv, HandlesDiffer
  <2>3. HandlesDiffer'
    BY <1>21, <1>23, <1>24, <2>1, <2>2 DEF HandlesDiffer
  <2>4. HandlesApart'
    BY <1>21, <1>23, <1>24 DEF HandlesApart
  <2> QED
    BY <2>3, <2>4
<1>27. IInv'
  BY <1>10, <1>14, <1>17, <1>18, <1>19, <1>25, <1>26 DEF IInv
<1>28. Laid
  <2>1. \A i \in SetAside: i \in 1 .. m
    BY <1>3 DEF SetAside, Cleanups
  <2>2. \A i \in SetAside: i < m
    BY <1>15, <2>1
  <2> QED
    BY <1>3, <1>5, <1>7, <1>15, <1>16, <2>2 DEF Laid
<1> QED
  BY <1>3, <1>7, <1>27, <1>28

(* The abort that was set aside is taken up again. *)
Taken == LET m == Len(stack)
         IN /\ m \in Nat /\ \A i \in SetAside: i <= m
            /\ m \in SetAside <=> stack[m].saved.aborting
            /\ SetAside' = SetAside \ {m} /\ \A i \in SetAside': stack'[i] = stack[i]
            /\ IF Wins(stack[m].saved) THEN ctx' = ctx ELSE ctx'.u = stack[m].saved

LEMMA EndsAsideKeeps == IInv /\ EndsAside => IInv' /\ Taken
<1> SUFFICES ASSUME IInv, EndsAside PROVE IInv' /\ Taken
  OBVIOUS
<1>1. /\ stack # <<>> /\ IsNative(Top) /\ Top.at = "cleanup" /\ ctl \in {"value", "empty"}
      /\ Types /\ Layers /\ stack' = Below
      /\ IF Wins(Top.saved)
         THEN ctx' = ctx /\ handles' = Dropped(Top.saved.handle)
         ELSE ctx' = [ctx EXCEPT !.u = Top.saved] /\ handles' = Dropped(ctx.u.handle)
      /\ ctl' = IF Top.kind = "curtailed" \/ Unwinding(ctx') THEN "empty" ELSE Top.answer
      /\ UNCHANGED <<calls, aborts, stops, restarts, captured, outcome>>
  BY DEF IInv, EndsAside
<1>2. PICK m \in Nat \ {0}: m = Len(stack) /\ Top = stack[m]
  BY <1>1, StackTop
<1>3. /\ calls \in Nat \ {0} /\ calls' = calls /\ aborts \in Nat /\ aborts' = aborts
      /\ m - 1 \in Nat /\ m \in 1 .. m /\ handles \subseteq 1 .. aborts
  BY <1>1 DEF Types
<1>4. IsCleanup(m) /\ Layer(m)
  BY <1>1, <1>2, <1>3 DEF Layers, IsCleanup
<1>5. PICK t \in NativesAll: t = Top
  BY <1>1, StackTop, ActivationKinds
<1>6. PICK w \in Us: w = t.saved
  BY DEF NativesAll
<1>7. /\ Shape(w) /\ ~w.restarting /\ (t.answer = "empty" <=> w.aborting \/ w.nonlocal)
      /\ (t.kind = "curtailed" => t.answer = "empty") /\ t.answer \in {"value", "empty"}
      /\ (w.nonlocal => HomeBelow(w.home, m))
  BY <1>2, <1>4, <1>5, <1>6 DEF Layer, Saved, NativesAll
<1>8. /\ ctx \in Cs /\ ctx.u \in Us /\ Shape(ctx.u)
  BY <1>1, ContextFields DEF Types, IInv, Control
<1>9. m \in SetAside <=> w.aborting
  BY <1>2, <1>4, <1>5, <1>6 DEF SetAside, Cleanups, IsCleanup
<1>10. stack[m].saved = w
  BY <1>2, <1>5, <1>6
<1>11. ASSUME Types'
       PROVE  /\ Layers' /\ Kept(m - 1) /\ Len(stack') = m - 1
              /\ SetAside' = SetAside \ {m} /\ \A i \in SetAside': stack'[i] = stack[i]
  <2>1. m = Len(stack) /\ calls' = calls /\ aborts' = aborts
    BY <1>2, <1>3
  <2> QED
    BY <1>1, <1>11, <2>1, Pops
<1>14. \A i \in SetAside: i <= m
  BY <1>2 DEF SetAside, Cleanups
<1>12. CASE Wins(w)
  <2>1. ctl = "empty" /\ ~w.aborting /\ w.handle = 0
    BY <1>7, <1>12 DEF Wins, Shape
  <2>2. ctx' = ctx /\ handles' = handles
    <3>1. 0 \notin handles
      BY <1>3
    <3> QED
      BY <1>1, <1>5, <1>6, <1>12, <2>1, <3>1 DEF Dropped
  <2>3. Unwinding(ctx) /\ ctl' = "empty"
    <3>1. Unwinding(ctx)
      BY <1>1, <2>1 DEF IInv, Control
    <3> QED
      BY <1>1, <2>2, <3>1
  <2>4. Types'
    BY <1>1, <2>2, <2>3, StackTop DEF Types
  <2>5. /\ Layers' /\ Kept(m - 1) /\ Len(stack') = m - 1
        /\ SetAside' = SetAside /\ \A i \in SetAside: stack'[i].saved = stack[i].saved
    BY <1>9, <1>11, <2>1, <2>4
  <2>6. Shape(ctx.u)'
    <3>1. PICK v \in Us: v = ctx.u
      BY <1>8
    <3>2. Shape(v)'
      BY <1>1, <1>8, <2>5, <3>1, ShapeKept
    <3> QED
      BY <2>2, <3>1, <3>2 DEF Shape
  <2>7. (ctx.u.nonlocal => HomeBelow(ctx.u.home, Len(stack) + 1))'
    <3>1. SUFFICES ASSUME ctx.u.nonlocal PROVE (HomeBelow(ctx.u.home, Len(stack) + 1))'
      BY <2>2
    <3>2. PICK h: h = ctx.u.home
      OBVIOUS
    <3>3. HomeBelow(h, m + 1) /\ stack[m].kind # "method"
      BY <1>1, <1>2, <3>1, <3>2 DEF IInv, Control, IsNative
    <3>4. HomeBelow(h, m)'
      BY <1>1, <1>2, <2>4, <2>5, <3>3, HomeStays
    <3>5. Len(stack') + 1 = m
      BY <2>5
    <3> QED
      BY <2>2, <3>2, <3>4, <3>5 DEF HomeBelow
  <2>8. Control'
    <3>1. (ctx.abandoning => ctx.u.aborting)' /\ (ctx.u.restarting => SetAside = {})'
      BY <2>2, <2>5 DEF IInv, Control
    <3>2. (ctl = "empty" /\ stack # <<>> => Unwinding(ctx))'
      BY <2>2, <2>3 DEF Unwinding
    <3> QED
      BY <2>3, <2>6, <2>7, <3>1, <3>2 DEF Control
  <2>9. Armed'
    <3>1. \A i \in 1 .. Len(stack): i > m - 1 => IsNative(stack[i])
      <4>1. \A i \in 1 .. Len(stack): i > m - 1 => i = m
        BY <1>2
      <4> QED
        BY <1>1, <1>2, <4>1
    <3>2. (ctx.accept => ctx.u.restarting) /\ Armed
      BY DEF IInv, Armed
    <3> QED
      BY <1>1, <2>2, <2>4, <2>5, <3>1, <3>2, TargetKept
  <2>10. HandlesAre' /\ HandlesDiffer' /\ HandlesApart'
    BY <2>2, <2>5, HandlesKept DEF IInv
  <2>11. FirstAbort'
    BY <1>1, <2>2, <2>3, <2>5 DEF IInv, FirstAbort, Alone
  <2>12. IInv'
    BY <2>4, <2>5, <2>8, <2>9, <2>10, <2>11 DEF IInv
  <2>13. SetAside' = SetAside \ {m} /\ \A i \in SetAside': stack'[i] = stack[i]
    BY <1>11, <2>4
  <2> QED
    BY <1>2, <1>9, <1>10, <1>12, <1>14, <2>2, <2>12, <2>13 DEF Taken
<1>13. CASE ~Wins(w)
  <2>1. ctl = "value" \/ w.aborting
    BY <1>1, <1>13 DEF Wins
  <2>2. ctx' = [ctx EXCEPT !.u = w] /\ handles' = handles \ {ctx.u.handle}
    BY <1>1, <1>5, <1>6, <1>13 DEF Dropped
  <2>3. ctl = "value" => ~ctx.u.aborting /\ ~ctx.u.nonlocal /\ ~ctx.u.restarting /\ ~ctx.abandoning
    BY DEF IInv, Control, Unwinding
  <2>4. ctx.accept = FALSE /\ (ctx.abandoning => w.aborting)
    <3>1. ~ctx.u.restarting
      BY <1>9, <2>1, <2>3 DEF IInv, Control
    <3>2. ~ctx.accept
      BY <3>1 DEF IInv, Armed
    <3> QED
      BY <1>8, <2>1, <2>3, <3>2 DEF Cs
  <2>5. ctx' \in Cs /\ ctx'.u = w /\ ~ctx'.accept /\ (ctx'.abandoning <=> ctx.abandoning)
    <3>1. ctx' = CallContext(w, ctx.accept, ctx.abandoning)
      BY <1>8, <2>2, ContextFields
    <3>2. ctx.accept \in BOOLEAN /\ ctx.abandoning \in BOOLEAN
      BY <1>8, ContextFields
    <3>3. ctx' \in Cs
      BY <3>1, <3>2, ContextIs
    <3>4. ctx'.u = w
      BY <3>1, <3>2, ContextIs
    <3>5. ~ctx'.accept
      BY <2>4, <3>1 DEF CallContext
    <3>6. ctx'.abandoning <=> ctx.abandoning
      BY <3>1 DEF CallContext
    <3> QED
      BY <3>3, <3>4, <3>5, <3>6
  <2>6. Unwinding(ctx') <=> t.answer = "empty"
    BY <1>7, <2>5 DEF Unwinding
  <2>7. ctl' = t.answer
    BY <1>1, <1>5, <1>7, <2>6
  <2>8. Types'
    <3>1. stack' \in Seq(Activations) /\ handles' \subseteq 1 .. aborts'
      BY <1>1, <1>3, <2>2, StackTop
    <3> QED
      BY <1>1, <1>3, <1>7, <2>5, <2>7, <3>1 DEF Types
  <2>9. /\ Layers' /\ Kept(m - 1) /\ Len(stack') = m - 1
        /\ SetAside' = SetAside \ {m} /\ \A i \in SetAside': stack'[i] = stack[i]
    BY <1>11, <2>8
  <2>10. Shape(ctx.u)'
    <3>1. Shape(w)'
      BY <1>1, <1>7, <2>9, ShapeKept
    <3> QED
      BY <2>5, <3>1 DEF Shape
  <2>11. (ctx.u.nonlocal => HomeBelow(ctx.u.home, Len(stack) + 1))'
    <3>1. SUFFICES ASSUME w.nonlocal PROVE (HomeBelow(w.home, m))'
      <4>1. Len(stack') + 1 = m
        BY <2>9
      <4> QED
        BY <2>5, <4>1 DEF HomeBelow
    <3>2. m \in 1 .. m - 1 + 1
      OBVIOUS
    <3>3. HomeBelow(w.home, m)' <=> HomeBelow(w.home, m)
      BY <1>1, <2>8, <2>9, <3>2, PrefixSame
    <3> QED
      BY <1>7, <3>1, <3>3
  <2>12. Control'
    <3>1. (ctl # "empty" => ~Unwinding(ctx) /\ ~ctx.abandoning)'
      <4>1. t.answer # "empty" => ~ctx'.abandoning
        BY <1>7, <2>4, <2>5
      <4> QED
        BY <2>6, <2>7, <4>1 DEF Unwinding
    <3>2. (ctl = "empty" /\ stack # <<>> => Unwinding(ctx))'
      BY <2>6, <2>7 DEF Unwinding
    <3>3. (ctx.abandoning => ctx.u.aborting)' /\ ~ctx'.u.restarting
      BY <1>7, <2>4, <2>5
    <3>4. ctl' \notin {"call", "run"}
      BY <1>7, <2>7
    <3> QED
      BY <2>10, <2>11, <3>1, <3>2, <3>3, <3>4 DEF Control
  <2>13. Armed'
    BY <1>7, <2>5 DEF Armed
  <2>14. FirstAbort'
    <3>1. SUFFICES ASSUME ~w.aborting, SetAside \ {m} = {} PROVE aborts = 0
      BY <1>3, <2>5, <2>9 DEF FirstAbort, Alone
    <3>2. SetAside = {} /\ ctl = "value" /\ ~ctx.u.aborting
      BY <1>9, <2>1, <2>3, <3>1
    <3> QED
      BY <3>2 DEF IInv, FirstAbort, Alone
  <2>15. PICK x \in Nat, y \in Nat: x = ctx.u.handle /\ y = w.handle
    BY <1>8 DEF Us
  <2>16. /\ handles' = handles \ {x} /\ ctx'.u.handle = y /\ (y # 0 => w.aborting)
         /\ stack[m].saved.handle = y
    BY <1>7, <1>10, <2>2, <2>5, <2>15 DEF Shape
  <2>17. Held' = Held \ {m} /\ (m \in Held <=> y # 0)
    BY <1>9, <2>9, <2>16 DEF Held
  <2>18. \A i \in Held': stack'[i].saved.handle = stack[i].saved.handle /\ i \in Held
    BY <2>9, <2>17 DEF Held
  <2>19. /\ handles = {stack[i].saved.handle : i \in Held} \union ({x} \ {0})
         /\ \A i \in Held: stack[i].saved.handle # x /\ stack[i].saved.handle # 0
         /\ \A i, j \in Held: stack[i].saved.handle = stack[j].saved.handle => i = j
    BY <2>15 DEF IInv, HandlesAre, HandlesApart, HandlesDiffer, Held
  <2>20. HandlesAre'
    <3>1. {stack[i].saved.handle : i \in Held} = {stack[i].saved.handle : i \in Held \ {m}} \union ({y} \ {0})
      BY <2>16, <2>17
    <3>2. {stack'[i].saved.handle : i \in Held'} = {stack[i].saved.handle : i \in Held \ {m}}
      BY <2>17, <2>18
    <3>3. handles \ {x} = {stack[i].saved.handle : i \in Held}
      BY <2>19
    <3> QED
      BY <2>16, <3>1, <3>2, <3>3 DEF HandlesAre
  <2>21. HandlesDiffer'
    BY <2>18, <2>19 DEF HandlesDiffer
  <2>22. HandlesApart'
    <3>1. \A i \in Held': stack[i].saved.handle # y
      BY <2>16, <2>17, <2>18, <2>19
    <3> QED
      BY <2>16, <2>18, <3>1 DEF HandlesApart
  <2>23. IInv'
    BY <2>8, <2>9, <2>12, <2>13, <2>14, <2>20, <2>21, <2>22 DEF IInv
  <2> QED
    BY <1>2, <1>9, <1>10, <1>13, <1>14, <2>5, <2>9, <2>23 DEF Taken
<1> QED
  BY <1>12, <1>13

LEMMA FinishesKeeps == IInv /\ Finishes => IInv'
<1> SUFFICES ASSUME IInv, Finishes PROVE IInv'
  OBVIOUS
<1>1. /\ stack = <<>> /\ Types /\ ctl' = "done"
      /\ outcome' = IF ctx.u.aborting THEN ctx.u.reason ELSE 0
      /\ handles' = handles \ {ctx.u.handle}
      /\ ctx' = CallContext(Settled, ctx.accept, FALSE)
      /\ UNCHANGED <<stack, calls, aborts, stops, restarts, captured>>
  BY DEF IInv, Finishes, Dropped
<1>2. /\ Len(stack) = 0 /\ Len(stack') = 0 /\ aborts \in Nat /\ calls \in Nat \ {0}
  BY <1>1, LenIs DEF Types
<1>3. ctx \in Cs /\ ctx.u \in Us /\ ctx.u.reason \in 0 .. aborts
  BY <1>1, <1>2, ContextFields DEF Types, IInv, Control, Shape, Us
<1>4. ctx.accept = FALSE
  <2>1. ~ctx.accept
    BY <1>2 DEF IInv, Armed
  <2> QED
    BY <1>3, <2>1 DEF Cs
<1>5. ctx' \in Cs /\ ctx'.u = Settled /\ ~ctx'.accept /\ ~ctx'.abandoning
  <2>1. ctx' = CallContext(Settled, FALSE, FALSE)
    BY <1>1, <1>4
  <2> QED
    BY <2>1, SettledIs, ContextIs
<1>6. Types'
  <2>1. handles' \subseteq 1 .. aborts' /\ outcome' \in 0 .. aborts'
    <3>1. handles \subseteq 1 .. aborts /\ aborts' = aborts /\ 0 \in 0 .. aborts
      BY <1>1, <1>2 DEF Types
    <3>2. outcome' \in {ctx.u.reason, 0}
      BY <1>1
    <3> QED
      BY <1>1, <1>3, <3>1, <3>2
  <2> QED
    BY <1>1, <1>5, <2>1 DEF Types
<1>7. Layers'
  BY <1>2 DEF Layers
<1>8. SetAside = {} /\ SetAside' = {}
  BY <1>2 DEF SetAside, Cleanups
<1>9. Shape(Settled)'
  BY <1>1, <1>2, SettledIs DEF Shape
<1>10. Control'
  BY <1>1, <1>5, <1>8, <1>9, SettledIs DEF Control, Unwinding, Shape
<1>11. Armed' /\ FirstAbort'
  BY <1>1, <1>5, SettledIs DEF Armed, FirstAbort
<1>12. Held = {} /\ Held' = {}
  BY <1>8 DEF Held
<1>13. handles' = {}
  BY <1>1, <1>12 DEF IInv, HandlesAre
<1>14. HandlesAre' /\ HandlesDiffer' /\ HandlesApart'
  BY <1>5, <1>12, <1>13, SettledIs DEF HandlesAre, HandlesDiffer, HandlesApart
<1> QED
  BY <1>6, <1>7, <1>10, <1>11, <1>14 DEF IInv

LEMMA StutterKeeps == IInv /\ UNCHANGED unwindVars => IInv'
<1> SUFFICES ASSUME IInv, UNCHANGED unwindVars PROVE IInv'
  OBVIOUS
<1>1. UNCHANGED <<stack, ctl, ctx, handles, calls, aborts, stops, restarts, captured, outcome>> /\ Types
  BY DEF unwindVars, IInv
<1>2. Types'
  BY <1>1 DEF Types
<1>3. aborts <= aborts' /\ calls' = calls
  BY <1>1 DEF Types
<1>4. ctl' \in {"value", "empty"} /\ stack # <<>> => Ran(Len(stack))
  <2>1. stack # <<>> => Len(stack) \in 1 .. Len(stack)
    BY <1>1, StackTop
  <2> QED
    BY <1>1, <2>1 DEF IInv, Layers
<1>5. /\ Layers' /\ SetAside' = SetAside /\ \A i \in SetAside: stack'[i] = stack[i]
  <2>1. stack' = stack /\ Layers
    BY <1>1 DEF IInv
  <2> QED
    BY <1>1, <1>2, <1>3, <1>4, <2>1, Stays
<1>6. Control'
  BY <1>1, <1>5 DEF IInv, Control, Unwinding, Shape, Top, IsNative, HomeBelow
<1>7. Armed'
  BY <1>1 DEF IInv, Armed, IsNative
<1>8. HandlesAre' /\ HandlesDiffer' /\ HandlesApart'
  BY <1>1, <1>5, HandlesKept DEF IInv
<1>9. FirstAbort'
  BY <1>1, <1>5 DEF IInv, FirstAbort, Alone
<1> QED
  BY <1>2, <1>5, <1>6, <1>7, <1>8, <1>9 DEF IInv

LEMMA InitHolds == UnwindAssumption /\ UnwindInit => IInv
<1> SUFFICES ASSUME UnwindAssumption, UnwindInit PROVE IInv
  OBVIOUS
<1>1. /\ stack \in {<<MethodFrame(1)>>, <<BlockFrame(1, Foreign)>>} /\ ctl = "run"
      /\ ctx = CallContext(Settled, FALSE, FALSE) /\ handles = {}
      /\ calls = 1 /\ aborts = 0 /\ stops = 0 /\ restarts = 0 /\ captured = 0 /\ outcome = 0
  BY DEF UnwindInit
<1>2. PICK a \in Activations: /\ stack = <<a>> /\ ~IsNative(a) /\ a.id = 1
                              /\ a.kind # "method" => a.home = 0
  <2>1. CASE stack = <<MethodFrame(1)>>
    BY <2>1, NewMethod
  <2>2. CASE stack = <<BlockFrame(1, Foreign)>>
    BY <2>2, NewBlock DEF Foreign
  <2> QED
    BY <1>1, <2>1, <2>2
<1>3. /\ Len(stack) = 1 /\ stack[1] = a /\ Top = a /\ stack \in Seq(Activations) /\ stack # <<>>
  BY <1>2 DEF Top
<1>4. /\ ctx \in Cs /\ ctx.u = Settled /\ ~ctx.accept /\ ~ctx.abandoning
  BY <1>1, SettledIs, ContextIs
<1>5. Types
  <2>1. handles \subseteq 1 .. aborts
    BY <1>1
  <2>2. stops \in 0 .. MaxStops /\ restarts \in 0 .. MaxRestarts
    BY <1>1 DEF UnwindAssumption
  <2>3. captured \in 0 .. aborts /\ outcome \in 0 .. aborts /\ calls \in Nat \ {0} /\ aborts \in Nat
    BY <1>1
  <2> QED
    BY <1>1, <1>3, <1>4, <2>1, <2>2, <2>3 DEF Types
<1>6. \A i \in 1 .. Len(stack): i = 1
  BY <1>3
<1>7. Layer(1)
  <2>1. stack[1].id \in 1 .. calls /\ (stack[1].kind # "method" => stack[1].home \in -1 .. calls)
    BY <1>1, <1>2, <1>3
  <2>2. ~IsNative(stack[1]) /\ ~IsCleanup(1)
    BY <1>2, <1>3 DEF IsCleanup
  <2>3. 1 <= StackLimit
    BY DEF UnwindAssumption
  <2> QED
    BY <1>6, <2>1, <2>2, <2>3 DEF Layer
<1>8. Layers
  BY <1>1, <1>3, <1>6, <1>7 DEF Layers
<1>9. SetAside = {}
  BY <1>2, <1>3, <1>6 DEF SetAside, Cleanups, IsNative
<1>10. Control
  BY <1>1, <1>2, <1>3, <1>4, <1>5, SettledIs, SettledShape DEF Control, Unwinding
<1>11. Armed /\ FirstAbort
  BY <1>1, <1>4, SettledIs DEF Armed, FirstAbort
<1>12. HandlesAre /\ HandlesDiffer /\ HandlesApart
  <2>1. Held = {}
    BY <1>9 DEF Held
  <2> QED
    BY <1>1, <1>4, <2>1, SettledIs DEF HandlesAre, HandlesDiffer, HandlesApart
<1> QED
  BY <1>5, <1>8, <1>10, <1>11, <1>12 DEF IInv

LEMMA NextKeeps == UnwindAssumption /\ IInv /\ [UnwindNext]_unwindVars => IInv'
BY SendsKeeps, SendsNativeKeeps, ReturnsKeeps, ReturnsBlockKeeps, ErrsKeeps, RestartsKeeps,
   TerminatedKeeps, CallsBlockKeeps, ContinuesKeeps, LeavesKeeps, StartsOverKeeps, ReactivatesKeeps,
   BeginsAsideKeeps, EndsAsideKeeps, ReturnsNativeKeeps, FinishesKeeps, StutterKeeps
   DEF UnwindNext, Code, Machine, Finished

-------------------------------------------------------------------------------
\* The unwinding is sound

LEMMA TypesOK == IInv => TypeOK
<1> SUFFICES ASSUME IInv PROVE TypeOK
  OBVIOUS
<1>1. Types /\ Layers /\ Shape(ctx.u) /\ ctx.u \in Us /\ calls \in Nat \ {0} /\ aborts \in Nat
  BY ContextFields DEF IInv, Types, Control
<1>2. ASSUME NEW i \in 1 .. Len(stack)
      PROVE  /\ stack[i].kind \in {"method", "block", "ensure", "curtailed"}
             /\ stack[i].id \in 1 .. calls
             /\ stack[i].kind # "method" => stack[i].home \in 1 .. calls \union {Foreign, Dead}
             /\ IsNative(stack[i]) => stack[i].at \in {"body", "cleanup"} /\ stack[i].ran \in 0 .. 1
  <2>1. PICK a \in Activations: a = stack[i]
    BY <1>1, LenIs
  <2>2. Layer(i)
    BY <1>1 DEF Layers
  <2>3. a.kind \in {"method", "block", "ensure", "curtailed"} /\ a.id \in 1 .. calls
    BY <2>1, <2>2, ActivationKinds DEF Layer
  <2>4. a.kind # "method" => a.home \in 1 .. calls \union {Foreign, Dead}
    BY <1>1, <2>1, <2>2 DEF Layer, Foreign, Dead
  <2>5. IsNative(a) => a.at \in {"body", "cleanup"} /\ a.ran \in 0 .. 1
    BY ActivationKinds
  <2> QED
    BY <2>1, <2>3, <2>4, <2>5
<1>3. {ctx.u.reason, ctx.u.handle, captured, outcome} \union handles \subseteq 0 .. aborts
  <2>1. ctx.u.reason \in 0 .. aborts /\ ctx.u.handle \in 0 .. aborts
    BY <1>1 DEF Shape, Us
  <2>2. captured \in 0 .. aborts /\ outcome \in 0 .. aborts /\ handles \subseteq 1 .. aborts
    BY <1>1 DEF Types
  <2>3. \A x \in 1 .. aborts: x \in 0 .. aborts
    OBVIOUS
  <2> QED
    BY <2>1, <2>2, <2>3
<1>4. ctx.u.target \in 0 .. calls /\ ctx.u.home \in 0 .. calls
  BY <1>1 DEF Shape, Us
<1> QED
  BY <1>1, <1>2, <1>3, <1>4 DEF TypeOK, Types

LEMMA HomesLive == IInv => HomeOfReturnLives
<1> SUFFICES ASSUME IInv PROVE HomeOfReturnLives
  OBVIOUS
<1>1. Types /\ Layers /\ Len(stack) \in Nat
  BY LenIs DEF IInv
<1>2. ctx.u.nonlocal => Alive(ctx.u.home)
  <2>1. SUFFICES ASSUME ctx.u.nonlocal PROVE Alive(ctx.u.home)
    OBVIOUS
  <2>2. HomeBelow(ctx.u.home, Len(stack) + 1)
    BY <2>1 DEF IInv, Control
  <2> QED
    BY <2>2 DEF HomeBelow, Alive, Methods, Frames, IsNative
<1>3. ASSUME NEW i \in Cleanups, stack[i].saved.nonlocal
      PROVE  \/ stack[i].saved.home = Foreign
             \/ \E j \in Frames: j < i /\ stack[j].kind = "method" /\ stack[j].id = stack[i].saved.home
  <2>1. i \in 1 .. Len(stack) /\ IsCleanup(i)
    BY DEF Cleanups, IsCleanup
  <2>2. HomeBelow(stack[i].saved.home, i)
    BY <1>1, <1>3, <2>1 DEF Layers, Layer
  <2> QED
    BY <2>2 DEF HomeBelow, Frames, IsNative
<1> QED
  BY <1>2, <1>3 DEF HomeOfReturnLives

LEMMA IsSound == IInv => UnwindSound
<1> SUFFICES ASSUME IInv PROVE UnwindSound
  OBVIOUS
<1>1. CodeRunsSettled
  BY DEF IInv, Control, CodeRunsSettled
<1>2. HandlesExact
  BY DEF IInv, HandlesAre, HandlesDiffer, HandlesApart, Held, HandlesExact
<1>3. AcceptArmed
  BY DEF IInv, Armed, Control, Shape, AcceptArmed, Frames, Methods
<1> QED
  BY <1>1, <1>2, <1>3, TypesOK, HomesLive DEF UnwindSound

(* The shape of the unwinding is an invariant: every cleanup on the stack holds
   what it set aside, and what unwinds has somewhere to go. *)
THEOREM Invariant == ASSUME UnwindAssumption PROVE UnwindSpec => []IInv
<1>1. UnwindInit => IInv
  BY InitHolds
<1>2. IInv /\ [UnwindNext]_unwindVars => IInv'
  BY NextKeeps
<1> QED
  BY <1>1, <1>2, PTL DEF UnwindSpec

(* Between any two steps the fields of an unwinding, the handles and the stack
   agree: no code runs while frames unwind, each reason has its one handle, a
   paused ^ has a home to return to, and armed slots belong to the restart in
   flight (Interpreter::run, runAside, clearUnwinding). *)
THEOREM FieldsAgree == ASSUME UnwindAssumption PROVE UnwindSpec => []UnwindSound
<1>1. UnwindSpec => []IInv
  BY Invariant
<1> QED
  BY <1>1, IsSound, PTL

-------------------------------------------------------------------------------
\* Every way out arrives

CleanupRuns ==
  \A i \in 1 .. Len(stack):
       (IsNative(stack[i]) /\ Len(stack') < i) =>
         \/ ctx.u.restarting \/ ctx.abandoning
         \/ stack[i].ran = IF stack[i].kind = "ensure" \/ ctl = "empty" \/ stack[i].at = "cleanup"
                           THEN 1 ELSE 0
         \/ \E j \in Cleanups: j < i

Lands ==
  ctx.u.restarting =>
       LET at == CHOOSE i \in Frames: stack[i].id = ctx.u.target
       IN /\ Len(stack') >= at
          /\ SubSeq(stack', 1, at - 1) = SubSeq(stack, 1, at - 1)
          /\ \/ ctx'.u.restarting /\ ctx'.u.target = ctx.u.target /\ ctl' = "empty"
             \/ Len(stack') = at /\ (ctl' = "run" \/ ctx'.u.aborting)

ReachesHome == ctx.u.nonlocal /\ ctl' = "value" => ~IsNative(Top) /\ Top.id = ctx.u.home

(* Only these four steps take an activation away, and the last one only. *)
LEMMA Shrinks ==
  ASSUME UnwindAssumption, IInv, [UnwindNext]_unwindVars, NEW i \in 1 .. Len(stack), Len(stack') < i
  PROVE  i = Len(stack) /\ stack # <<>> /\ (ReturnsAnswer \/ Leaves \/ EndsAside \/ ReturnsNative)
<1>1. Types /\ Len(stack) \in Nat /\ stack # <<>>
  BY LenIs DEF IInv
<1>2. ~(stack' = stack)
  BY <1>1
<1>3. ~(Len(stack) <= Len(stack'))
  <2>1. Len(stack') \in Nat
    <3>1. Types'
      BY NextKeeps DEF IInv
    <3> QED
      BY <3>1, LenProperties DEF Types
  <2> QED
    BY <1>1, <2>1
<1>4. ReturnsAnswer \/ Leaves \/ EndsAside \/ ReturnsNative
  <2>1. ~SendsMessage /\ ~SendsNative /\ ~CallsBlock
    BY <1>3, SendsKeeps, SendsNativeKeeps, CallsBlockKeeps
  <2>2. ~ReturnsBlock /\ ~Errs /\ ~Restarts /\ ~Terminated /\ ~Continues /\ ~StartsOver /\ ~Finishes
        /\ ~UNCHANGED unwindVars /\ ~Finished
    BY <1>2 DEF ReturnsBlock, Errs, Restarts, Terminated, Continues, StartsOver, Finishes, Finished, unwindVars
  <2>3. ~Reactivates /\ ~BeginsAside
    <3>1. Len(stack') # Len(stack)
      BY <1>1
    <3> QED
      BY <3>1, ReactivatesKeeps, BeginsAsideKeeps
  <2> QED
    BY <2>1, <2>2, <2>3 DEF UnwindNext, Code, Machine
<1>5. i = Len(stack)
  <2>1. stack' = Below
    BY <1>4 DEF ReturnsAnswer, Leaves, EndsAside, ReturnsNative
  <2>2. Len(stack') = Len(stack) - 1
    BY <1>1, <2>1, StackTop
  <2> QED
    BY <1>1, <2>2
<1> QED
  BY <1>1, <1>4, <1>5

LEMMA CleanupStep == UnwindAssumption /\ IInv /\ [UnwindNext]_unwindVars => CleanupRuns
<1> SUFFICES ASSUME UnwindAssumption, IInv, [UnwindNext]_unwindVars, NEW i \in 1 .. Len(stack),
                    IsNative(stack[i]), Len(stack') < i, ~ctx.u.restarting, ~ctx.abandoning
             PROVE  \/ stack[i].ran = IF stack[i].kind = "ensure" \/ ctl = "empty" \/ stack[i].at = "cleanup"
                                      THEN 1 ELSE 0
                    \/ \E j \in Cleanups: j < i
  BY DEF CleanupRuns
<1>1. i = Len(stack) /\ stack # <<>> /\ (ReturnsAnswer \/ Leaves \/ EndsAside \/ ReturnsNative)
  BY Shrinks
<1>2. Top = stack[i] /\ Layer(i) /\ Types
  BY <1>1 DEF Top, IInv, Layers
<1>3. CASE ReturnsAnswer
  BY <1>2, <1>3, Running DEF ReturnsAnswer
<1>4. CASE Leaves
  BY <1>2, <1>4 DEF Leaves
<1>5. CASE EndsAside
  <2>1. stack[i].at = "cleanup" /\ IsCleanup(i) /\ ctl \in {"value", "empty"}
    BY <1>2, <1>5 DEF EndsAside, IsCleanup
  <2>2. Ran(i)
    BY <2>1 DEF IInv, Layers
  <2>3. Beneath(i) => \E j \in Cleanups: j < i
    BY DEF Beneath, Cleanups, IsCleanup
  <2> QED
    BY <2>1, <2>2, <2>3 DEF Ran
<1>6. CASE ReturnsNative
  <2>1. stack[i].at = "body" /\ ctl = "value" /\ stack[i].kind = "curtailed"
    BY <1>2, <1>6 DEF ReturnsNative, Cleans
  <2>2. stack[i].ran = 0
    BY <1>2, <2>1 DEF Layer
  <2> QED
    BY <2>1, <2>2
<1> QED
  BY <1>1, <1>3, <1>4, <1>5, <1>6

LEMMA HomeStep == UnwindAssumption /\ IInv /\ [UnwindNext]_unwindVars => ReachesHome
<1> SUFFICES ASSUME UnwindAssumption, IInv, [UnwindNext]_unwindVars, ctx.u.nonlocal, ctl' = "value"
             PROVE  ~IsNative(Top) /\ Top.id = ctx.u.home
  BY DEF ReachesHome
<1>1. ctl = "empty" /\ ~ctx.u.aborting /\ ~ctx.u.restarting /\ ~ctx.abandoning
  BY DEF IInv, Control, Unwinding, Shape
<1>2. CASE Leaves
  <2>1. Hit(ctx) /\ ~IsNative(Top)
    BY <1>1, <1>2 DEF Leaves
  <2> QED
    BY <2>1 DEF Hit
<1>3. CASE EndsAside
  <2>1. ~Unwinding(ctx') /\ Taken /\ Top = stack[Len(stack)]
    BY <1>3, EndsAsideKeeps DEF EndsAside, Top
  <2>2. CASE Wins(Top.saved)
    BY <2>1, <2>2 DEF Taken, Unwinding
  <2>3. CASE ~Wins(Top.saved)
    BY <1>1, <2>1, <2>3 DEF Taken, Unwinding, Wins
  <2> QED
    BY <2>2, <2>3
<1>4. CASE Code
  BY <1>1, <1>4 DEF Code, RunsCode, SendsMessage, SendsNative, ReturnsAnswer, ReturnsBlock, Errs, Restarts, Terminated
<1>5. CASE Machine /\ ~Leaves /\ ~EndsAside
  BY <1>1, <1>5 DEF Machine, CallsBlock, Continues, Arrives, StartsOver, Reactivates, AtTarget,
                    BeginsAside, ReturnsNative, Finishes
<1>6. CASE UNCHANGED unwindVars \/ Finished
  BY <1>1, <1>6 DEF unwindVars, Finished
<1> QED
  BY <1>2, <1>3, <1>4, <1>5, <1>6 DEF UnwindNext

LEMMA PrefixOf ==
  ASSUME Types, Types', NEW n, Kept(n), NEW k \in Nat \ {0}, k - 1 <= n
  PROVE  SubSeq(stack', 1, k - 1) = SubSeq(stack, 1, k - 1)
<1>1. /\ n \in Nat /\ n <= Len(stack) /\ n <= Len(stack') /\ k - 1 \in Nat
      /\ Len(stack) \in Nat /\ Len(stack') \in Nat /\ \A j \in 1 .. n: stack'[j] = stack[j]
      /\ stack \in Seq(Activations) /\ stack' \in Seq(Activations)
  BY LenIs, LenProperties DEF Kept, Types
<1>2. PICK l \in Nat: l = k - 1
  BY <1>1
<1>3. \A i \in 1 .. l: i \in 1 .. n /\ i \in 1 .. Len(stack) /\ i \in 1 .. Len(stack')
  BY <1>1, <1>2
<1>4. \A i \in 1 .. l: stack'[i] = stack[i] /\ stack[i] \in Activations /\ stack'[i] \in Activations
  BY <1>1, <1>3, ElementOfSeq
<1>5. SubSeq(stack', 1, l) = SubSeq(stack, 1, l)
  BY <1>1, <1>3, <1>4
<1> QED
  BY <1>2, <1>5

LEMMA LandsStep == UnwindAssumption /\ IInv /\ [UnwindNext]_unwindVars => Lands
<1> DEFINE at == CHOOSE i \in Frames: stack[i].id = ctx.u.target
<1> SUFFICES ASSUME UnwindAssumption, IInv, [UnwindNext]_unwindVars, ctx.u.restarting
             PROVE  /\ Len(stack') >= at
                    /\ SubSeq(stack', 1, at - 1) = SubSeq(stack, 1, at - 1)
                    /\ \/ ctx'.u.restarting /\ ctx'.u.target = ctx.u.target /\ ctl' = "empty"
                       \/ Len(stack') = at /\ (ctl' = "run" \/ ctx'.u.aborting)
  BY DEF Lands
<1>1. at \in Frames /\ stack[at].id = ctx.u.target
  <2>1. \E i \in Frames: stack[i].id = ctx.u.target
    BY DEF IInv, Armed, Frames
  <2> QED
    BY <2>1
<1>2. PICK a: a = at
  OBVIOUS
<1> HIDE DEF at
<1>3. PICK m \in Nat \ {0}: m = Len(stack) /\ Top = stack[m] /\ stack # <<>>
  <2>1. Types /\ Len(stack) \in Nat /\ Len(stack) # 0
    BY <1>1, LenIs DEF IInv, Frames
  <2>2. stack # <<>>
    BY <2>1, LenIs
  <2> QED
    BY <2>1, <2>2, StackTop
<1>4. a \in 1 .. m /\ ~IsNative(stack[a]) /\ stack[a].id = ctx.u.target
  BY <1>1, <1>2, <1>3 DEF Frames
<1>5. /\ ctl = "empty" /\ ~ctx.u.aborting /\ ~ctx.u.nonlocal /\ ~ctx.abandoning /\ SetAside = {}
      /\ Types /\ Layers /\ Types' /\ ctx \in Cs
  <2>1. IInv'
    BY NextKeeps
  <2> QED
    BY <2>1 DEF IInv, Control, Unwinding, Shape, Types
<1>6. (Top.id = ctx.u.target) => a = m
  <2>1. SUFFICES ASSUME Top.id = ctx.u.target, a # m PROVE FALSE
    OBVIOUS
  <2>2. a < m /\ m \in 1 .. m
    BY <1>4, <2>1
  <2>3. stack[a].id < stack[m].id /\ stack[m].id \in 1 .. calls /\ calls \in Nat
    BY <1>3, <1>4, <1>5, <2>2 DEF Layers, Layer, Types
  <2> QED
    BY <1>3, <1>4, <2>1, <2>3
<1>7. ASSUME Len(stack') = m, Kept(m - 1)
      PROVE  Len(stack') >= a /\ SubSeq(stack', 1, a - 1) = SubSeq(stack, 1, a - 1)
  BY <1>4, <1>5, <1>7, PrefixOf
<1>8. ASSUME stack' = Below, a # m, calls' = calls, aborts' = aborts
      PROVE  Len(stack') >= a /\ SubSeq(stack', 1, a - 1) = SubSeq(stack, 1, a - 1)
  <2>1. Kept(m - 1) /\ Len(stack') = m - 1
    BY <1>3, <1>5, <1>8, Pops
  <2>2. a <= m - 1 /\ a - 1 <= m - 1 /\ a \in Nat \ {0}
    BY <1>4, <1>8
  <2> QED
    BY <1>5, <2>1, <2>2, PrefixOf
<1>9. CASE Leaves
  <2>1. /\ stack' = Below /\ ctx' = Left(ctx) /\ ctl' = "empty" /\ calls' = calls /\ aborts' = aborts
        /\ ~IsNative(Top) /\ Top.id # ctx.u.target
    BY <1>9 DEF Leaves
  <2>2. ctx' = ctx
    BY <1>3, <2>1, NothingLeft
  <2>3. a # m
    BY <1>3, <1>4, <2>1
  <2> QED
    BY <1>2, <1>8, <2>1, <2>2, <2>3
<1>10. CASE StartsOver
  <2>1. AtTarget /\ stack' = stack
    BY <1>10 DEF StartsOver
  <2>2. a = m
    BY <1>6, <2>1 DEF AtTarget
  <2>3. ctl' = "run" \/ ctx'.u.aborting
    <3>1. ASSUME Abort(Landed(ctx), TRUE, FALSE) PROVE ctx'.u.aborting
      <4>1. PICK v \in Us: Landed(ctx) = CallContext(v, ctx.accept, ctx.abandoning) /\ ~v.aborting
        BY <2>1, Landing
      <4>2. ctx.accept \in BOOLEAN /\ ctx.abandoning \in BOOLEAN
        BY <1>5, ContextFields
      <4>3. PICK c \in Cs: c = CallContext(v, ctx.accept, ctx.abandoning) /\ c.u = v
        BY <4>2, ContextIs
      <4>4. Abort(c, TRUE, FALSE) /\ ~c.u.aborting
        BY <3>1, <4>1, <4>3
      <4> QED
        BY <1>5, <4>4, AbortIs
    <3> QED
      BY <1>10, <3>1 DEF StartsOver
  <2> QED
    <3>1. Len(stack') = m /\ Len(stack') >= a /\ SubSeq(stack', 1, a - 1) = SubSeq(stack, 1, a - 1)
      BY <1>3, <1>4, <2>1
    <3> QED
      BY <1>2, <2>2, <2>3, <3>1
<1>11. CASE Reactivates
  <2>1. AtTarget /\ ctl' = "run" /\ Len(stack') = m /\ Kept(m - 1)
    BY <1>3, <1>11, ReactivatesKeeps DEF Reactivates
  <2>2. a = m
    BY <1>6, <2>1 DEF AtTarget
  <2> QED
    BY <1>2, <1>7, <2>1, <2>2
<1>12. CASE EndsAside
  <2>1. /\ IsNative(Top) /\ stack' = Below /\ calls' = calls /\ aborts' = aborts /\ Taken
        /\ ctl' = IF Top.kind = "curtailed" \/ Unwinding(ctx') THEN "empty" ELSE Top.answer
    BY <1>12, EndsAsideKeeps DEF EndsAside
  <2>2. ~stack[m].saved.aborting
    BY <1>3, <1>5, <2>1 DEF Taken
  <2>3. ctx' = ctx
    BY <1>3, <1>5, <2>1, <2>2 DEF Taken, Wins
  <2>4. ctl' = "empty" /\ a # m
    BY <1>3, <1>4, <2>1, <2>3 DEF Unwinding
  <2> QED
    BY <1>2, <1>8, <2>1, <2>3, <2>4
<1>13. CASE ReturnsNative
  <2>1. IsNative(Top) /\ stack' = Below /\ ctx' = ctx /\ ctl' = ctl /\ calls' = calls /\ aborts' = aborts
    BY <1>13 DEF ReturnsNative
  <2>2. a # m
    BY <1>3, <1>4, <2>1
  <2> QED
    BY <1>2, <1>5, <1>8, <2>1, <2>2
<1>14. CASE UNCHANGED unwindVars \/ Finished
  <2>1. stack' = stack /\ ctx' = ctx /\ ctl' = ctl
    BY <1>14 DEF unwindVars, Finished
  <2>2. Len(stack') >= a /\ SubSeq(stack', 1, a - 1) = SubSeq(stack, 1, a - 1)
    BY <1>3, <1>4, <2>1
  <2> QED
    BY <1>2, <1>5, <2>1, <2>2
<1>15. ~Code /\ ~CallsBlock /\ ~Continues /\ ~BeginsAside /\ ~Finishes
  BY <1>3, <1>5 DEF Code, RunsCode, SendsMessage, SendsNative, ReturnsAnswer, ReturnsBlock, Errs, Restarts, Terminated,
                    CallsBlock, Continues, Arrives, BeginsAside, Cleans, Finishes
<1> QED
  BY <1>9, <1>10, <1>11, <1>12, <1>13, <1>14, <1>15 DEF UnwindNext, Machine

(* Every way out of an activation ends where it must: ensure: and ifCurtailed:
   have run their cleanups once, a restart reaches its target with everything
   beneath it in place, a ^ ends at its home (runAside, applyRestart,
   consumeNonlocal). *)
THEOREM WaysOutArrive == ASSUME UnwindAssumption PROVE UnwindSpec => UnwindArrives
<1>1. UnwindSpec => []IInv
  BY Invariant
<1>2. IInv /\ [UnwindNext]_unwindVars => [CleanupRuns]_unwindVars
  BY CleanupStep
<1>3. IInv /\ [UnwindNext]_unwindVars => [Lands]_unwindVars
  BY LandsStep
<1>4. IInv /\ [UnwindNext]_unwindVars => [ReachesHome]_unwindVars
  BY HomeStep
<1>5. UnwindSpec => [][CleanupRuns]_unwindVars
  BY <1>1, <1>2, PTL DEF UnwindSpec
<1>6. UnwindSpec => [][Lands]_unwindVars
  BY <1>1, <1>3, PTL DEF UnwindSpec
<1>7. UnwindSpec => [][ReachesHome]_unwindVars
  BY <1>1, <1>4, PTL DEF UnwindSpec
<1> QED
  BY <1>5, <1>6, <1>7, PTL DEF UnwindArrives, CleanupsRun, RestartLands, ReturnArrives,
                          CleanupRuns, Lands, ReachesHome

-------------------------------------------------------------------------------
\* The evaluation ends with the abort that began first

Phase    == IF ctl = "done" THEN "ended" ELSE IF Alone THEN "aborting" ELSE "running"
Shown    == IF AbortReason = 0 THEN 0 ELSE captured
Promised == <<Phase, AbortReason, Shown>>

LEMMA LowestIs ==
  ASSUME NEW S, S \subseteq Nat, NEW i \in S, \A k \in S: i <= k
  PROVE  (CHOOSE j \in S: \A k \in S: j <= k) = i
<1>1. PICK j \in S: j = CHOOSE x \in S: \A k \in S: x <= k
  OBVIOUS
<1>2. \A k \in S: j <= k
  BY <1>1
<1>3. i <= j /\ j <= i /\ i \in Nat /\ j \in Nat
  BY <1>2
<1> QED
  BY <1>1, <1>3

LEMMA LowestExists ==
  ASSUME NEW S, S \subseteq Nat, S # {}
  PROVE  \E i \in S: \A k \in S: i <= k
<1>1. PICK i \in S: \A k \in S: ~(<<k, i>> \in OpToRel(<, Nat))
  BY NatLessThanWellFounded, WFMin
<1>2. \A k \in S: ~(k < i)
  BY <1>1 DEF OpToRel
<1> QED
  BY <1>2

(* The abort set aside lowest is the one that ends the evaluation. *)
LEMMA LowestReason ==
  ASSUME Types, ctl # "done", NEW i \in SetAside, \A k \in SetAside: i <= k
  PROVE  AbortReason = stack[i].saved.reason
<1>1. SetAside \subseteq Nat
  BY LenIs DEF SetAside, Cleanups
<1>2. (CHOOSE j \in SetAside: \A k \in SetAside: j <= k) = i
  BY <1>1, LowestIs
<1> QED
  BY <1>2 DEF AbortReason

LEMMA LowestReasonNext ==
  ASSUME Types', ctl' # "done", NEW i \in SetAside', \A k \in SetAside': i <= k
  PROVE  AbortReason' = stack'[i].saved.reason
<1>1. SetAside' \subseteq Nat
  BY LenProperties DEF Types, SetAside, Cleanups
<1>2. (CHOOSE j \in SetAside': \A k \in SetAside': j <= k) = i
  BY <1>1, LowestIs
<1> QED
  BY <1>2 DEF AbortReason

(* No abort begins, and none is set aside or taken up. *)
LEMMA Quiet ==
  ASSUME Types, Types', Same, ctl # "done", ctl' # "done", captured' = captured,
         IF ctx.u.aborting THEN ctx'.u.aborting /\ ctx'.u.reason = ctx.u.reason ELSE ~ctx'.u.aborting
  PROVE  UNCHANGED Promised
<1>1. Alone' <=> Alone
  BY DEF Alone, Same
<1>2. AbortReason' = AbortReason
  <2>1. CASE SetAside = {}
    <3>1. SetAside' = {}
      BY <2>1 DEF Same
    <3> QED
      BY <2>1, <3>1 DEF AbortReason
  <2>2. CASE SetAside # {}
    <3>1. SetAside \subseteq Nat
      BY LenIs DEF SetAside, Cleanups
    <3>2. PICK i \in SetAside: \A k \in SetAside: i <= k
      BY <2>2, <3>1, LowestExists
    <3>3. AbortReason = stack[i].saved.reason
      BY <3>2, LowestReason
    <3>4. i \in SetAside' /\ (\A k \in SetAside': i <= k) /\ stack'[i].saved = stack[i].saved
      BY <3>2 DEF Same
    <3>5. AbortReason' = stack'[i].saved.reason
      BY <3>4, LowestReasonNext
    <3> QED
      BY <3>3, <3>4, <3>5
  <2> QED
    BY <2>1, <2>2
<1> QED
  BY <1>1, <1>2 DEF Promised, Phase, Shown

(* An abort begins; where one is set aside already nothing is to be seen of it. *)
LEMMA Erupts ==
  ASSUME IInv, Types', Same, ctl # "done", ~ctx.u.aborting, NEW c \in Cs, ~c.u.aborting, NEW loud,
         NEW built \in BOOLEAN, Abort(c, loud, built)
  PROVE  [E!Next]_Promised
<1>1. /\ ctx'.u.aborting /\ ctx'.u.reason = aborts + 1 /\ ctl' = "empty"
      /\ captured' = captured \/ (captured' = aborts + 1 /\ SetAside = {})
  BY AbortIs DEF IInv
<1>2. CASE SetAside = {}
  <2>1. ~Alone /\ Alone' /\ SetAside' = {}
    BY <1>1, <1>2 DEF Alone, Same
  <2>2. aborts = 0 /\ captured = 0
    BY <2>1 DEF IInv, FirstAbort, Types
  <2>3. AbortReason = 0 /\ AbortReason' = 1
    BY <1>1, <1>2, <2>1, <2>2 DEF AbortReason, Alone
  <2>4. Phase = "running" /\ Phase' = "aborting" /\ Shown' \in {0, 1}
    BY <1>1, <2>1, <2>2, <2>3 DEF Phase, Shown
  <2> QED
    BY <2>3, <2>4 DEF E!Next, E!Begins, Phase, Shown
<1>3. CASE SetAside # {}
  <2>1. captured' = captured /\ SetAside' # {} /\ Types
    BY <1>1, <1>3 DEF Same, IInv
  <2>2. SetAside \subseteq Nat
    BY <2>1, LenIs DEF SetAside, Cleanups
  <2>3. PICK i \in SetAside: \A k \in SetAside: i <= k
    BY <1>3, <2>2, LowestExists
  <2>4. AbortReason = stack[i].saved.reason
    BY <2>1, <2>3, LowestReason
  <2>5. i \in SetAside' /\ (\A k \in SetAside': i <= k) /\ stack'[i].saved = stack[i].saved
    BY <2>3 DEF Same
  <2>6. AbortReason' = stack'[i].saved.reason
    BY <1>1, <2>5, LowestReasonNext
  <2>7. Alone /\ Alone'
    BY <1>3, <2>1 DEF Alone
  <2> QED
    BY <1>1, <2>1, <2>4, <2>5, <2>6, <2>7 DEF Promised, Phase, Shown
<1> QED
  BY <1>2, <1>3

LEMMA StartsPromise ==
  ASSUME IInv, Types', Same, RunsCode, NEW a, NEW at \in {"run", "call"}, Starts(a, at)
  PROVE  [E!Next]_Promised
<1>1. ctl = "run" /\ ctx \in Cs /\ ~ctx.u.aborting /\ Types
  BY Clear DEF RunsCode, IInv, Types
<1>2. CASE Len(stack) >= Limit
  <2>1. Abort(ctx, TRUE, FALSE)
    BY <1>2 DEF Starts
  <2> QED
    BY <1>1, <2>1, Erupts
<1>3. CASE ~(Len(stack) >= Limit)
  <2>1. ctx' = ctx /\ captured' = captured /\ ctl' = at
    BY <1>3 DEF Starts
  <2> QED
    BY <1>1, <2>1, Quiet
<1> QED
  BY <1>2, <1>3

LEMMA CodePromise ==
  ASSUME UnwindAssumption, IInv, IInv', Code
  PROVE  [E!Next]_Promised
<1>1. Types /\ Types' /\ RunsCode /\ ctl = "run" /\ ctx \in Cs /\ ctx.u \in Us /\ ~ctx.u.aborting
  <2>1. RunsCode
    BY DEF Code, SendsMessage, SendsNative, ReturnsAnswer, ReturnsBlock, Errs, Restarts, Terminated
  <2> QED
    BY <2>1, Clear DEF IInv, RunsCode
<1>2. CASE SendsMessage
  <2>1. Same
    BY <1>2, SendsKeeps
  <2> QED
    BY <1>1, <1>2, <2>1, StartsPromise DEF SendsMessage
<1>3. CASE SendsNative
  <2>1. Same
    BY <1>3, SendsNativeKeeps
  <2> QED
    BY <1>1, <1>3, <2>1, StartsPromise DEF SendsNative
<1>4. CASE ReturnsAnswer
  <2>1. Same /\ ctx' = ctx /\ captured' = captured /\ ctl' = "value"
    BY <1>4, ReturnsKeeps DEF ReturnsAnswer
  <2> QED
    BY <1>1, <2>1, Quiet
<1>5. CASE ReturnsBlock
  <2>1. Same
    BY <1>5, SameStack DEF ReturnsBlock
  <2>2. CASE Alive(Top.home)
    <3>1. ctx' = [ctx EXCEPT !.u.nonlocal = TRUE, !.u.home = Top.home] /\ captured' = captured /\ ctl' = "empty"
      BY <1>5, <2>2 DEF ReturnsBlock
    <3>2. ~ctx'.u.aborting
      BY <1>1, <3>1 DEF Cs, Us
    <3> QED
      BY <1>1, <2>1, <3>1, <3>2, Quiet
  <2>3. CASE ~Alive(Top.home)
    <3>1. Abort(ctx, TRUE, FALSE)
      BY <1>5, <2>3 DEF ReturnsBlock
    <3> QED
      BY <1>1, <2>1, <3>1, Erupts
  <2> QED
    BY <2>2, <2>3
<1>6. CASE Errs
  <2>1. PICK built \in BOOLEAN: Abort(ctx, TRUE, built)
    BY <1>6 DEF Errs
  <2>2. Same
    BY <1>6, SameStack DEF Errs
  <2> QED
    BY <1>1, <2>1, <2>2, Erupts
<1>7. CASE Restarts
  <2>1. Same /\ captured' = captured /\ ctl' = "empty"
    BY <1>7, SameStack DEF Restarts
  <2>2. PICK t, accept: ctx' = [ctx EXCEPT !.u.restarting = TRUE, !.u.target = t, !.accept = accept]
    BY <1>7 DEF Restarts
  <2>3. ~ctx'.u.aborting
    BY <1>1, <2>2 DEF Cs, Us
  <2> QED
    BY <1>1, <2>1, <2>3, Quiet
<1>8. CASE Terminated
  <2>1. PICK abandon \in BOOLEAN: Abort([ctx EXCEPT !.abandoning = abandon], FALSE, FALSE)
    BY <1>8 DEF Terminated
  <2>2. PICK c \in Cs: c = [ctx EXCEPT !.abandoning = abandon]
    BY <1>1 DEF Cs
  <2>3. c.u = ctx.u
    BY <1>1, <2>2 DEF Cs
  <2>4. Same
    BY <1>8, SameStack DEF Terminated
  <2>5. Abort(c, FALSE, FALSE) /\ ~c.u.aborting
    BY <1>1, <2>1, <2>2, <2>3
  <2> QED
    BY <1>1, <2>4, <2>5, Erupts
<1> QED
  BY <1>2, <1>3, <1>4, <1>5, <1>6, <1>7, <1>8 DEF Code

(* The machine's own steps on the way. *)
LEMMA PassesPromise ==
  ASSUME UnwindAssumption, IInv, IInv', CallsBlock \/ Continues \/ ReturnsNative \/ Leaves
  PROVE  [E!Next]_Promised
<1>1. Types /\ Types' /\ ctx \in Cs
  BY DEF IInv, Types
<1>2. CASE CallsBlock
  <2>1. Same /\ ctl = "call" /\ ~ctx.u.aborting
    BY <1>2, CallsBlockKeeps, Clear DEF CallsBlock
  <2>2. CASE Len(stack) >= Limit
    <3>1. Abort(ctx, TRUE, FALSE)
      BY <1>2, <2>2 DEF CallsBlock
    <3> QED
      BY <1>1, <2>1, <3>1, Erupts
  <2>3. CASE ~(Len(stack) >= Limit)
    <3>1. ctx' = ctx /\ captured' = captured /\ ctl' = "run"
      BY <1>2, <2>3 DEF CallsBlock
    <3> QED
      BY <1>1, <2>1, <3>1, Quiet
  <2> QED
    BY <2>2, <2>3
<1>3. CASE Continues
  <2>1. Same /\ ctx' = ctx /\ captured' = captured /\ ctl = "value" /\ ctl' = "run"
    BY <1>3, SameStack DEF Continues, Arrives
  <2> QED
    BY <1>1, <2>1, Quiet
<1>4. CASE ReturnsNative
  <2>1. Same /\ ctx' = ctx /\ captured' = captured /\ ctl' = ctl /\ ctl # "done"
    BY <1>4, ReturnsNativeKeeps DEF ReturnsNative
  <2> QED
    BY <1>1, <2>1, Quiet
<1>5. CASE Leaves
  <2>1. Same /\ captured' = captured /\ ctl = "empty" /\ ctl' # "done"
    BY <1>5, LeavesKeeps DEF Leaves, Arrives
  <2>2. IF ctx.u.aborting THEN ctx' = ctx ELSE ~ctx'.u.aborting
    BY <1>5, LeavesKeeps
  <2> QED
    BY <1>1, <2>1, <2>2, Quiet
<1> QED
  BY <1>2, <1>3, <1>4, <1>5

LEMMA RestartPromise ==
  ASSUME UnwindAssumption, IInv, IInv', StartsOver \/ Reactivates
  PROVE  [E!Next]_Promised
<1>1. Types /\ Types' /\ AtTarget /\ ctl = "empty" /\ SetAside = {} /\ ~ctx.u.aborting
  <2>1. AtTarget
    BY DEF StartsOver, Reactivates
  <2> QED
    BY <2>1, Landing DEF IInv
<1>2. CASE StartsOver
  <2>1. Same
    BY <1>2, SameStack DEF StartsOver
  <2>2. CASE ctx' = Landed(ctx) /\ ctl' = "run" /\ captured' = captured
    <3>1. ~ctx'.u.aborting
      BY <2>2 DEF IInv, Control, Unwinding
    <3> QED
      BY <1>1, <2>1, <2>2, <3>1, Quiet
  <2>3. CASE Abort(Landed(ctx), TRUE, FALSE)
    <3>1. PICK v \in Us: Landed(ctx) = CallContext(v, ctx.accept, ctx.abandoning) /\ ~v.aborting
      BY <1>1, Landing
    <3>2. PICK c \in Cs: c = CallContext(v, ctx.accept, ctx.abandoning)
      <4>1. ctx.accept \in BOOLEAN /\ ctx.abandoning \in BOOLEAN
        BY <1>1, ContextFields DEF Types
      <4> QED
        BY <4>1, ContextIs
    <3>3. c.u = v
      BY <3>2 DEF CallContext
    <3>4. Abort(c, TRUE, FALSE) /\ ~c.u.aborting
      BY <2>3, <3>1, <3>2, <3>3
    <3> QED
      BY <1>1, <2>1, <3>4, Erupts
  <2> QED
    BY <1>2, <2>2, <2>3 DEF StartsOver
<1>3. CASE Reactivates
  <2>1. SetAside' = {} /\ captured' = captured /\ ctl' = "run"
    BY <1>3, ReactivatesKeeps DEF Reactivates
  <2>2. Same
    BY <1>1, <2>1 DEF Same
  <2>3. ~ctx'.u.aborting
    BY <2>1 DEF IInv, Control, Unwinding
  <2> QED
    BY <1>1, <2>1, <2>2, <2>3, Quiet
<1> QED
  BY <1>2, <1>3

(* An abort goes aside on top of those set aside before it. *)
LEMMA AsidePromise ==
  ASSUME IInv, IInv', BeginsAside
  PROVE  [E!Next]_Promised
<1>1. /\ Types /\ Types' /\ captured' = captured /\ ctl # "done" /\ ctl' = "call" /\ Laid
      /\ ~ctx'.u.aborting
  BY BeginsAsideKeeps DEF IInv, BeginsAside, Control, Unwinding
<1>2. CASE ~ctx.u.aborting
  <2>1. Same
    BY <1>1, <1>2 DEF Laid, Same
  <2> QED
    BY <1>1, <1>2, <2>1, Quiet
<1>3. CASE ctx.u.aborting
  <2>1. PICK m: /\ m \in Nat /\ (\A i \in SetAside: i < m) /\ SetAside' = SetAside \union {m}
                /\ (\A i \in SetAside: stack'[i] = stack[i]) /\ stack'[m].saved = ctx.u
    BY <1>1, <1>3 DEF Laid
  <2>2. Alone /\ Alone'
    BY <1>3, <2>1 DEF Alone
  <2>3. AbortReason' = AbortReason
    <3>1. CASE SetAside = {}
      <4>1. AbortReason = ctx.u.reason
        BY <1>1, <1>3, <3>1 DEF AbortReason
      <4>2. m \in SetAside' /\ \A k \in SetAside': m <= k
        BY <2>1, <3>1
      <4>3. AbortReason' = stack'[m].saved.reason
        BY <1>1, <4>2, LowestReasonNext
      <4> QED
        BY <2>1, <4>1, <4>3
    <3>2. CASE SetAside # {}
      <4>1. SetAside \subseteq Nat
        BY <1>1, LenIs DEF SetAside, Cleanups
      <4>2. PICK i \in SetAside: \A k \in SetAside: i <= k
        BY <3>2, <4>1, LowestExists
      <4>3. AbortReason = stack[i].saved.reason
        BY <1>1, <4>2, LowestReason
      <4>4. i \in SetAside' /\ (\A k \in SetAside': i <= k) /\ stack'[i] = stack[i]
        BY <2>1, <4>1, <4>2
      <4>5. AbortReason' = stack'[i].saved.reason
        BY <1>1, <4>4, LowestReasonNext
      <4> QED
        BY <4>3, <4>4, <4>5
    <3> QED
      BY <3>1, <3>2
  <2> QED
    BY <1>1, <2>2, <2>3 DEF Promised, Phase, Shown
<1> QED
  BY <1>2, <1>3

(* And comes back over whatever its cleanup started. *)
LEMMA BackPromise ==
  ASSUME IInv, IInv', EndsAside
  PROVE  [E!Next]_Promised
<1>1. /\ Types /\ Types' /\ captured' = captured /\ ctl \in {"value", "empty"} /\ Taken
      /\ ctl' \in {"value", "empty"} /\ Top = stack[Len(stack)] /\ IsNative(Top)
  <2>1. ctl' \in {"run", "call", "value", "empty", "done"} /\ Types
    BY DEF IInv, Types
  <2>2. stack # <<>> /\ IsNative(Top) /\ Top.at = "cleanup" /\ Layers /\ Top = stack[Len(stack)]
    BY DEF IInv, EndsAside, Top
  <2>3. Len(stack) \in 1 .. Len(stack) /\ Layer(Len(stack)) /\ IsCleanup(Len(stack))
    <3>1. Len(stack) \in 1 .. Len(stack)
      BY <2>2, LenIs, StackTop DEF IInv
    <3> QED
      BY <2>2, <3>1 DEF Layers, IsCleanup
  <2>4. Top \in NativesAll
    BY <2>1, <2>2, <2>3, ActivationKinds, ElementOfSeq DEF Types
  <2>5. Top.answer \in {"value", "empty"}
    BY <2>4 DEF NativesAll
  <2> QED
    BY <2>2, <2>5, EndsAsideKeeps DEF IInv, EndsAside
<1>2. PICK m: /\ m = Len(stack) /\ m \in Nat /\ (\A i \in SetAside: i <= m)
              /\ (m \in SetAside <=> stack[m].saved.aborting) /\ SetAside' = SetAside \ {m}
              /\ (\A i \in SetAside': stack'[i] = stack[i])
              /\ IF Wins(stack[m].saved) THEN ctx' = ctx ELSE ctx'.u = stack[m].saved
  BY <1>1 DEF Taken
<1>3. CASE m \notin SetAside
  <2>1. Same /\ ~stack[m].saved.aborting
    BY <1>2, <1>3 DEF Same
  <2>2. CASE Wins(stack[m].saved)
    <3>1. ctx' = ctx
      BY <1>2, <2>2
    <3> QED
      BY <1>1, <2>1, <3>1, Quiet
  <2>3. CASE ~Wins(stack[m].saved)
    <3>1. ~ctx'.u.aborting
      BY <1>2, <2>1, <2>3
    <3>2. ctl = "value"
      BY <1>1, <2>1, <2>3 DEF Wins
    <3>3. ~ctx.u.aborting
      BY <3>2, Clear
    <3> QED
      BY <1>1, <2>1, <3>1, <3>3, Quiet
  <2> QED
    BY <2>2, <2>3
<1>4. CASE m \in SetAside
  <2>1. stack[m].saved.aborting /\ ~Wins(stack[m].saved)
    BY <1>2, <1>4 DEF Wins
  <2>2. ctx'.u = stack[m].saved /\ ctx'.u.aborting
    BY <1>2, <2>1
  <2>3. Alone /\ Alone'
    BY <1>4, <2>2 DEF Alone
  <2>4. SetAside \subseteq Nat
    BY <1>1, LenIs DEF SetAside, Cleanups
  <2>5. PICK i \in SetAside: \A k \in SetAside: i <= k
    BY <1>4, <2>4, LowestExists
  <2>6. AbortReason = stack[i].saved.reason
    BY <1>1, <2>5, LowestReason
  <2>7. AbortReason' = AbortReason
    <3>1. CASE i = m
      <4>1. SetAside' = {}
        <5>1. \A k \in SetAside: k = m
          BY <1>2, <2>4, <2>5, <3>1
        <5> QED
          BY <1>2, <5>1
      <4>2. AbortReason' = ctx'.u.reason
        BY <1>1, <2>2, <4>1 DEF AbortReason
      <4> QED
        BY <2>2, <2>6, <3>1, <4>2
    <3>2. CASE i # m
      <4>1. i \in SetAside' /\ (\A k \in SetAside': i <= k) /\ stack'[i] = stack[i]
        BY <1>2, <2>5, <3>2
      <4>2. AbortReason' = stack'[i].saved.reason
        BY <1>1, <4>1, LowestReasonNext
      <4> QED
        BY <2>6, <4>1, <4>2
    <3> QED
      BY <3>1, <3>2
  <2> QED
    BY <1>1, <2>3, <2>7 DEF Promised, Phase, Shown
<1> QED
  BY <1>3, <1>4

LEMMA FinishPromise ==
  ASSUME IInv, IInv', Finishes
  PROVE  E!Next
<1>1. /\ stack = <<>> /\ ctl # "done" /\ ctl' = "done" /\ captured' = captured
      /\ outcome' = IF ctx.u.aborting THEN ctx.u.reason ELSE 0
  BY DEF Finishes
<1>2. SetAside = {}
  BY <1>1 DEF SetAside, Cleanups
<1>3. AbortReason' = AbortReason
  BY <1>1, <1>2 DEF AbortReason
<1>4. Shown' = Shown /\ Phase \in {"running", "aborting"} /\ Phase' = "ended"
  BY <1>1, <1>3 DEF Shown, Phase
<1> QED
  BY <1>3, <1>4 DEF E!Next, E!Ends, Phase, Shown

LEMMA NextPromise ==
  ASSUME UnwindAssumption, IInv, [UnwindNext]_unwindVars
  PROVE  [E!Next]_Promised
<1>1. IInv'
  BY NextKeeps
<1>2. CASE Code
  BY <1>1, <1>2, CodePromise
<1>3. CASE CallsBlock \/ Continues \/ ReturnsNative \/ Leaves
  BY <1>1, <1>3, PassesPromise
<1>4. CASE StartsOver \/ Reactivates
  BY <1>1, <1>4, RestartPromise
<1>5. CASE BeginsAside
  BY <1>1, <1>5, AsidePromise
<1>6. CASE EndsAside
  BY <1>1, <1>6, BackPromise
<1>7. CASE Finishes
  BY <1>1, <1>7, FinishPromise
<1>8. CASE UNCHANGED unwindVars \/ Finished
  <2>1. stack' = stack /\ ctx' = ctx /\ ctl' = ctl /\ captured' = captured /\ outcome' = outcome
    BY <1>8 DEF unwindVars, Finished
  <2>2. SetAside' = SetAside
    BY <2>1, SameStack DEF Same
  <2>3. AbortReason' = AbortReason
    BY <2>1, <2>2 DEF AbortReason
  <2> QED
    BY <2>1, <2>2, <2>3 DEF Promised, Phase, Shown, Alone
<1> QED
  BY <1>2, <1>3, <1>4, <1>5, <1>6, <1>7, <1>8 DEF UnwindNext, Machine

LEMMA InitPromise ==
  ASSUME UnwindAssumption, UnwindInit
  PROVE  E!Init
<1>1. ctl = "run" /\ ~ctx.u.aborting /\ SetAside = {}
  <2>1. ctl = "run" /\ ~ctx.u.aborting
    BY DEF UnwindInit, CallContext, Settled
  <2>2. \A i \in 1 .. Len(stack): ~IsNative(stack[i])
    BY DEF UnwindInit, MethodFrame, BlockFrame, IsNative
  <2> QED
    BY <2>1, <2>2 DEF SetAside, Cleanups
<1>2. AbortReason = 0 /\ ~Alone
  BY <1>1 DEF AbortReason, Alone
<1> QED
  BY <1>1, <1>2 DEF E!Init

(* An abort that has begun ends the evaluation with its own reason, whatever the
   cleanups abort, return or restart, and the capture is of that abort
   (startAbort, runAside, DebugState::onAbort). *)
THEOREM EndsWithFirstAbort == ASSUME UnwindAssumption PROVE UnwindSpec => ImplementsEvaluation
<1>1. UnwindInit => E!Init
  BY InitPromise
<1>2. IInv /\ [UnwindNext]_unwindVars
        => [E!Next]_<<IF ctl = "done" THEN "ended" ELSE IF Alone THEN "aborting" ELSE "running",
                      AbortReason, IF AbortReason = 0 THEN 0 ELSE captured>>
  BY NextPromise DEF Promised, Phase, Shown
<1>3. UnwindSpec => []IInv
  BY Invariant
<1> QED
  BY <1>1, <1>2, <1>3, PTL DEF UnwindSpec, ImplementsEvaluation, E!Spec, E!promised

=============================================================================
