-------------------------------- MODULE Unwind --------------------------------
(* The unwinding of one process: aborts, non-local returns and the debugger's  *)
(* Restart and Accept, through ensure: and ifCurtailed:, whose cleanups may    *)
(* start any of them anew (Interpreter.cpp, Send.cpp, kernel/BlockContext.cpp).*)
(* The C++ stack is a sequence of activations: methods and blocks that the     *)
(* interpreter runs, and the natives ensure: and ifCurtailed: in the middle of *)
(* their two block calls.  The Smalltalk code is arbitrary.                    *)
EXTENDS Integers, Sequences, FiniteSets

CONSTANTS StackLimit,   \* activations before a send overflows the stack
          Reserve,      \* how many more there may be while a cleanup runs
          MaxCalls,     \* bound: activations the code starts
          MaxStops,     \* bound: errors, terminates and abandons
          MaxRestarts   \* bound: Restart and Accept

UnwindAssumption ==
  /\ StackLimit \in Nat \ {0} /\ Reserve \in Nat \ {0}
  /\ MaxCalls \in Nat \ {0} /\ MaxStops \in Nat /\ MaxRestarts \in Nat

VARIABLES stack,      \* the activations, the running one last
          ctl,        \* "run": the last activation runs; "call": the native starts its block;
                      \* "value", "empty": what the callee answered it; "done": the end
          ctx,        \* the unwinding fields of CallContext
          handles,    \* the handles in Roots that hold reasons
          calls,      \* activations so far; an activation is named by its number
          aborts,     \* aborts so far; an abort's number is its reason
          stops, restarts,    \* so far
          captured,   \* the abort DebugState::onAbort captured last (0: none)
          outcome     \* the reason the end of the evaluation reports (0: none)

unwindVars == <<stack, ctl, ctx, handles, calls, aborts, stops, restarts, captured, outcome>>

Foreign == 0          \* a home in another process
Dead    == -1         \* a home that has returned

-------------------------------------------------------------------------------
\* CallContext

(* The fields clearUnwinding clears and runAside sets aside.  `home` is
   nonlocalHome, `target` restartFrame; a handle is named by the reason it holds. *)
Settled == [aborting |-> FALSE, reason |-> 0, handle |-> 0, nonlocal |-> FALSE, home |-> 0,
            restarting |-> FALSE, target |-> 0]

(* Beside them CallContext has the armed acceptSlots and `abandoning`. *)
CallContext(u, accept, abandoning) == [u |-> u, accept |-> accept, abandoning |-> abandoning]

Unwinding(c) == c.u.aborting \/ c.u.nonlocal \/ c.u.restarting

Top   == stack[Len(stack)]
Below == SubSeq(stack, 1, Len(stack) - 1)
IsNative(a) == a.kind \in {"ensure", "curtailed"}
Frames    == {i \in 1 .. Len(stack): ~IsNative(stack[i])}
Methods   == {stack[i].id : i \in {j \in Frames: stack[j].kind = "method"}}
Outermost == Frames = {Len(stack)}

(* cleanupDepth and abortSetAside count the cleanups on the stack, and those
   with an abort set aside. *)
Cleanups  == {i \in 1 .. Len(stack): IsNative(stack[i]) /\ stack[i].at = "cleanup"}
SetAside  == {i \in Cleanups: stack[i].saved.aborting}

MethodFrame(n)      == [kind |-> "method", id |-> n]
BlockFrame(n, home) == [kind |-> "block", id |-> n, home |-> home]
NativeFrame(k, n, home) ==
  [kind |-> k, id |-> n, home |-> home, at |-> "body", ran |-> 0, answer |-> "empty",
   saved |-> Settled]

(* contextAlive *)
Alive(home) == home \in Methods \union {Foreign}

-------------------------------------------------------------------------------
\* Aborts

(* startAbort: the first reason stays; an abort overrides a ^ in flight. *)
StartAbort(u, r, h) ==
  [u EXCEPT !.aborting = TRUE,
            !.reason = IF u.aborting THEN @ ELSE r,
            !.handle = IF u.aborting THEN @ ELSE h,
            !.nonlocal = FALSE, !.home = 0]

(* An abort is captured when it begins: not an abandon, nor one within a cleanup
   that has an earlier abort set aside. *)
Captures(c) == ~c.u.aborting /\ ~c.abandoning /\ SetAside = {}

(* abortEvaluation, and abortEvaluationQuiet (loud = FALSE).  A reason built at
   run time is held by a handle. *)
Abort(c, loud, built) ==
  /\ aborts' = aborts + 1
  /\ LET h == IF built /\ ~c.u.aborting THEN aborts' ELSE 0
     IN /\ ctx' = [c EXCEPT !.u = StartAbort(c.u, aborts', h)]
        /\ handles' = IF h # 0 THEN handles \union {h} ELSE handles
  /\ captured' = IF loud /\ Captures(c) THEN aborts' ELSE captured
  /\ ctl' = "empty"

(* clearUnwinding drops the handle of the reason with the abort. *)
Dropped(h) == handles \ {h}

-------------------------------------------------------------------------------
\* The code of the activation that runs

RunsCode == ctl = "run" /\ stack # <<>>

LimitFixed == StackLimit   \* mutant

(* A cleanup may use part of the reserve (applyMethod). *)
Limit == IF Cleanups # {} THEN StackLimit + Reserve ELSE StackLimit

(* Every send passes applyMethod, which overflows or starts the activation. *)
Starts(activation, at) ==
  IF Len(stack) >= Limit
  THEN Abort(ctx, TRUE, FALSE) /\ UNCHANGED <<stack, calls>>
  ELSE /\ stack' = Append(stack, activation)
       /\ calls' = calls + 1
       /\ ctl' = at
       /\ UNCHANGED <<ctx, handles, aborts, captured>>

Homes == Methods \union {Foreign, Dead}

SendsMessage == /\ RunsCode /\ calls < MaxCalls
         /\ \/ Starts(MethodFrame(calls + 1), "run")
            \/ \E h \in Homes: Starts(BlockFrame(calls + 1, h), "run")
         /\ UNCHANGED <<stops, restarts, outcome>>

SendsNative == /\ RunsCode /\ calls < MaxCalls
               /\ \E k \in {"ensure", "curtailed"}, h \in Homes:
                    Starts(NativeFrame(k, calls + 1, h), "call")
               /\ UNCHANGED <<stops, restarts, outcome>>

(* The native calls its receiver, or its argument as the cleanup (callBlock). *)
CallsBlock ==
  /\ ctl = "call"
  /\ IF Len(stack) >= Limit
     THEN Abort(ctx, TRUE, FALSE) /\ UNCHANGED <<stack, calls>>
     ELSE /\ stack' = Append(Below \o <<IF Top.at = "cleanup" THEN [Top EXCEPT !.ran = @ + 1]
                                                              ELSE Top>>,
                             BlockFrame(calls + 1, Top.home))
          /\ calls' = calls + 1
          /\ ctl' = "run"
          /\ UNCHANGED <<ctx, handles, aborts, captured>>
  /\ UNCHANGED <<stops, restarts, outcome>>

(* ReturnTop and its kin. *)
ReturnsAnswer == /\ RunsCode
           /\ stack' = Below /\ ctl' = "value"
           /\ UNCHANGED <<ctx, handles, calls, aborts, stops, restarts, captured, outcome>>

(* ReturnBlock: ^ in a block.  With its home gone cannotReturn: aborts. *)
ReturnsBlock ==
  /\ RunsCode /\ Top.kind = "block"
  /\ IF Alive(Top.home)
     THEN /\ ctx' = [ctx EXCEPT !.u.nonlocal = TRUE, !.u.home = Top.home]
          /\ ctl' = "empty"
          /\ UNCHANGED <<handles, aborts, captured>>
     ELSE Abort(ctx, TRUE, FALSE)
  /\ UNCHANGED <<stack, calls, stops, restarts, outcome>>

(* An error, or a native that answers empty: the abort with its reason. *)
Errs == /\ RunsCode /\ stops < MaxStops
        /\ stops' = stops + 1
        /\ \E built \in BOOLEAN: Abort(ctx, TRUE, built)
        /\ UNCHANGED <<stack, calls, restarts, outcome>>

CanHalt(c) == ~c.u.aborting /\ ~c.abandoning /\ ~c.u.restarting /\ SetAside = {}

(* The debugger's Restart of any activation of a halted process, or Accept of a
   method: halt answers false, and the frames above the target unwind. *)
Restarts ==
  /\ RunsCode /\ restarts < MaxRestarts /\ CanHalt(ctx)
  /\ \E i \in Frames: \E accept \in IF stack[i].kind = "method" THEN BOOLEAN ELSE {FALSE}:
       ctx' = [ctx EXCEPT !.u.restarting = TRUE, !.u.target = stack[i].id, !.accept = accept]
  /\ restarts' = restarts + 1
  /\ ctl' = "empty"
  /\ UNCHANGED <<stack, handles, calls, aborts, stops, captured, outcome>>

(* A switch back to a process terminated meanwhile, or abandoned (afterResume). *)
Terminated ==
  /\ RunsCode /\ stops < MaxStops
  /\ stops' = stops + 1
  /\ \E abandon \in BOOLEAN: Abort([ctx EXCEPT !.abandoning = abandon], FALSE, FALSE)
  /\ UNCHANGED <<stack, calls, restarts, outcome>>

-------------------------------------------------------------------------------
\* An answer arrives

Arrives(a) == stack # <<>> /\ ctl = a

(* ~FrameLink: a target that leaves without restarting is forgotten. *)
Left(c) == IF c.u.target = Top.id THEN [c EXCEPT !.u.target = 0, !.accept = FALSE] ELSE c

Continues == /\ Arrives("value") /\ ~IsNative(Top)
             /\ ctl' = "run"
             /\ UNCHANGED <<stack, ctx, handles, calls, aborts, stops, restarts, captured, outcome>>

(* consumeNonlocal: the ^ ends at its home. *)
Hit(c) == Top.kind = "method" /\ c.u.nonlocal /\ c.u.home = Top.id

Misses(c) == [c EXCEPT !.u.nonlocal = @ /\ ~Outermost, !.u.home = IF Outermost THEN 0 ELSE @]

Leaves ==
  /\ Arrives("empty") /\ ~IsNative(Top)
  /\ ~(ctx.u.restarting /\ ctx.u.target = Top.id)
  /\ stack' = Below
  /\ IF ~ctx.u.restarting /\ ~ctx.u.aborting /\ Hit(ctx)
     THEN /\ ctx' = Left([ctx EXCEPT !.u.nonlocal = FALSE, !.u.home = 0])
          /\ ctl' = "value"
     ELSE /\ ctx' = Left(IF ctx.u.restarting \/ ctx.u.aborting THEN ctx ELSE Misses(ctx))
          /\ ctl' = "empty"
  /\ UNCHANGED <<handles, calls, aborts, stops, restarts, captured, outcome>>

AtTarget == Arrives("empty") /\ ~IsNative(Top) /\ ctx.u.restarting /\ ctx.u.target = Top.id

Landed(c) == [c EXCEPT !.u.restarting = FALSE, !.u.target = 0]

(* applyRestart: the target starts over.  A block whose copied values were
   spoilt while it was halted aborts instead. *)
StartsOver ==
  /\ AtTarget /\ ~ctx.accept
  /\ \/ /\ ctx' = Landed(ctx) /\ ctl' = "run"
        /\ UNCHANGED <<stack, handles, aborts, stops, captured>>
     \/ /\ Top.kind = "block" /\ stops < MaxStops
        /\ Abort(Landed(ctx), TRUE, FALSE)
        /\ stops' = stops + 1
        /\ UNCHANGED stack
  /\ UNCHANGED <<calls, restarts, outcome>>

(* reactivateAccepted: the target leaves and its send starts the new method. *)
Reactivates ==
  /\ AtTarget /\ ctx.accept
  /\ ctx' = [Landed(ctx) EXCEPT !.accept = FALSE]
  /\ stack' = Append(Below, MethodFrame(calls + 1))
  /\ calls' = calls + 1
  /\ ctl' = "run"
  /\ UNCHANGED <<handles, aborts, stops, restarts, captured, outcome>>

Cleans(c) == ~c.abandoning /\ ~c.u.restarting

AsideAttached(u) == Dropped(u.handle)   \* mutant

(* The reason's handle leaves ctx before clearUnwinding, which would drop it. *)
Aside(u) == handles

(* runAside, its first half: the unwinding is set aside and the cleanup called. *)
BeginsAside ==
  /\ stack # <<>> /\ IsNative(Top) /\ Top.at = "body" /\ Cleans(ctx)
  /\ ctl = "empty" \/ (ctl = "value" /\ Top.kind = "ensure")
  /\ stack' = Append(Below, [Top EXCEPT !.at = "cleanup", !.answer = ctl, !.saved = ctx.u])
  /\ ctx' = [ctx EXCEPT !.u = Settled]
  /\ handles' = Aside(ctx.u)
  /\ ctl' = "call"
  /\ UNCHANGED <<calls, aborts, stops, restarts, captured, outcome>>

WinsAlways(saved) == ctl = "empty"   \* mutant

(* What the cleanup itself started wins, but never over an abort. *)
Wins(saved) == ctl = "empty" /\ ~saved.aborting

(* runAside, its second half, and the return of the native. *)
EndsAside ==
  /\ stack # <<>> /\ IsNative(Top) /\ Top.at = "cleanup" /\ ctl \in {"value", "empty"}
  /\ LET saved == Top.saved
     IN IF Wins(saved)
        THEN ctx' = ctx /\ handles' = Dropped(saved.handle)
        ELSE ctx' = [ctx EXCEPT !.u = saved] /\ handles' = Dropped(ctx.u.handle)
  /\ ctl' = IF Top.kind = "curtailed" \/ Unwinding(ctx') THEN "empty" ELSE Top.answer
  /\ stack' = Below
  /\ UNCHANGED <<calls, aborts, stops, restarts, captured, outcome>>

(* The native returns without a cleanup. *)
ReturnsNative ==
  /\ stack # <<>> /\ IsNative(Top) /\ Top.at = "body"
  /\ \/ ctl = "value" /\ Top.kind = "curtailed"
     \/ ctl = "empty" /\ ~Cleans(ctx)
  /\ stack' = Below
  /\ UNCHANGED <<ctl, ctx, handles, calls, aborts, stops, restarts, captured, outcome>>

(* The end of runFiber: the abort is the answer, and is cleared. *)
Finishes ==
  /\ stack = <<>> /\ ctl \in {"value", "empty"}
  /\ outcome' = IF ctx.u.aborting THEN ctx.u.reason ELSE 0
  /\ handles' = Dropped(ctx.u.handle)
  /\ ctx' = CallContext(Settled, ctx.accept, FALSE)
  /\ ctl' = "done"
  /\ UNCHANGED <<stack, calls, aborts, stops, restarts, captured>>

Finished == ctl = "done" /\ UNCHANGED unwindVars

-------------------------------------------------------------------------------

(* An evaluation applies its doIt, a forked process a block with a foreign home. *)
UnwindInit ==
  /\ stack \in {<<MethodFrame(1)>>, <<BlockFrame(1, Foreign)>>}
  /\ ctl = "run"
  /\ ctx = CallContext(Settled, FALSE, FALSE)
  /\ handles = {}
  /\ calls = 1 /\ aborts = 0 /\ stops = 0 /\ restarts = 0
  /\ captured = 0 /\ outcome = 0

Code == SendsMessage \/ SendsNative \/ ReturnsAnswer \/ ReturnsBlock \/ Errs \/ Restarts \/ Terminated

Machine == \/ CallsBlock \/ Continues \/ Leaves \/ StartsOver \/ Reactivates
           \/ BeginsAside \/ EndsAside \/ ReturnsNative \/ Finishes

UnwindNext == Code \/ Machine \/ Finished

UnwindSpec == UnwindInit /\ [][UnwindNext]_unwindVars

-------------------------------------------------------------------------------
\* Properties

(* The shape of the state: what the stack, the fields and the handles can be. *)
TypeOK ==
  /\ ctl \in {"run", "call", "value", "empty", "done"}
  /\ \A i \in 1 .. Len(stack): /\ stack[i].kind \in {"method", "block", "ensure", "curtailed"}
                               /\ stack[i].id \in 1 .. calls
                               /\ stack[i].kind # "method" =>
                                    stack[i].home \in 1 .. calls \union {Foreign, Dead}
                               /\ IsNative(stack[i]) => stack[i].at \in {"body", "cleanup"}
                                                        /\ stack[i].ran \in 0 .. 1
  /\ {ctx.u.reason, ctx.u.handle, captured, outcome} \union handles \subseteq 0 .. aborts
  /\ ctx.u.target \in 0 .. calls /\ ctx.u.home \in 0 .. calls
  /\ calls \in Nat \ {0} /\ aborts \in Nat
  /\ stops \in 0 .. MaxStops /\ restarts \in 0 .. MaxRestarts

(* No Smalltalk code runs, and no cleanup is called, while frames unwind or
   after an abandon (Interpreter::run refuses; the natives must not get there);
   and an empty answer always is an unwinding, so that no native's answer is
   taken for a failure of its own (the "failed: #ensure:" no program caused). *)
CodeRunsSettled ==
  /\ ctl \in {"run", "call"} => ~Unwinding(ctx) /\ ~ctx.abandoning
  /\ ctl = "empty" /\ stack # <<>> => Unwinding(ctx)

(* The handles that hold reasons are those of the abort in flight and of the
   aborts set aside: none leaks, none is dropped while its text is needed, and
   none is held twice (runAside, clearUnwinding). *)
HandlesExact ==
  LET held == {i \in SetAside: stack[i].saved.handle # 0}
  IN /\ handles = {stack[i].saved.handle : i \in held} \union ({ctx.u.handle} \ {0})
     /\ \A i, j \in held: stack[i].saved.handle = stack[j].saved.handle => i = j
     /\ \A i \in held: stack[i].saved.handle # ctx.u.handle

(* A ^ in flight or set aside has its home on this stack, below it, or in
   another process: a cleanup never lets the home of a paused ^ return. *)
HomeOfReturnLives ==
  /\ ctx.u.nonlocal => Alive(ctx.u.home)
  /\ \A i \in Cleanups: stack[i].saved.nonlocal =>
       \/ stack[i].saved.home = Foreign
       \/ \E j \in Frames: j < i /\ stack[j].kind = "method" /\ stack[j].id = stack[i].saved.home

(* Armed acceptSlots belong to the restart in flight, whose target is a method
   on the stack: left over, they would turn a later Restart into an Accept. *)
AcceptArmed ==
  /\ ctx.accept => ctx.u.restarting /\ ctx.u.target \in Methods
  /\ ctx.u.restarting => \E i \in Frames: stack[i].id = ctx.u.target
  /\ ~ctx.u.restarting => ctx.u.target = 0

(* ensure: runs its cleanup exactly once however its block ends, ifCurtailed:
   exactly when its block unwinds, unless a restart or an abandon takes the
   activation away.  After a stack overflow the reserve lets the cleanup start;
   only within another cleanup may it find no room. *)
CleanupsRun ==
  [][\A i \in 1 .. Len(stack):
       (IsNative(stack[i]) /\ Len(stack') < i) =>
         \/ ctx.u.restarting \/ ctx.abandoning
         \/ stack[i].ran = IF stack[i].kind = "ensure" \/ ctl = "empty" \/ stack[i].at = "cleanup"
                           THEN 1 ELSE 0
         \/ \E j \in Cleanups: j < i]_unwindVars

(* A restart keeps its course: until its target starts over (or the accepted
   method in its place) nothing else runs, no cleanup is called, nothing beneath
   the target leaves, and only an abort may replace it. *)
RestartLands ==
  [][ctx.u.restarting =>
       LET at == CHOOSE i \in Frames: stack[i].id = ctx.u.target
       IN /\ Len(stack') >= at
          /\ SubSeq(stack', 1, at - 1) = SubSeq(stack, 1, at - 1)
          /\ \/ ctx'.u.restarting /\ ctx'.u.target = ctx.u.target /\ ctl' = "empty"
             \/ Len(stack') = at /\ (ctl' = "run" \/ ctx'.u.aborting)]_unwindVars

(* A ^ ends at its home and nowhere else: the activation that continues with its
   value is the one beneath the home. *)
ReturnArrives ==
  [][ctx.u.nonlocal /\ ctl' = "value" => ~IsNative(Top) /\ Top.id = ctx.u.home]_unwindVars

(* The abort that began first and is still to end the evaluation. *)
Alone == ctx.u.aborting \/ SetAside # {}
AbortReason ==
  IF ctl = "done" THEN outcome
  ELSE IF SetAside # {} THEN LET i == CHOOSE j \in SetAside: \A k \in SetAside: j <= k
                             IN stack[i].saved.reason
  ELSE IF ctx.u.aborting THEN ctx.u.reason ELSE 0

E == INSTANCE Evaluation WITH
       phase     <- IF ctl = "done" THEN "ended" ELSE IF Alone THEN "aborting" ELSE "running",
       reason    <- AbortReason,
       captured  <- IF AbortReason = 0 THEN 0 ELSE captured

(* An abort that has begun ends the evaluation with its own reason, whatever the
   cleanups abort, return or restart, and the capture is of that abort. *)
ImplementsEvaluation == E!Spec

(* Between any two steps the fields of the unwinding, the handles and the stack agree. *)
UnwindSound == TypeOK /\ CodeRunsSettled /\ HandlesExact /\ HomeOfReturnLives /\ AcceptArmed

(* Every way out of an activation ends where it must, and runs each cleanup on its way. *)
UnwindArrives == CleanupsRun /\ RestartLands /\ ReturnArrives

=============================================================================
