------------------------------ MODULE Scheduler ------------------------------
(***************************************************************************)
(* The cooperative scheduler of a session (Scheduler.cpp): one process     *)
(* runs at a time, and control moves only where the running one yields,    *)
(* waits, suspends itself, terminates another, halts or ends.  The base    *)
(* process runs what the host asks for (an evaluation, the wait for an     *)
(* evaluating process, a drain, terminateAll, abandonAll); the others are  *)
(* fibers.  The Smalltalk code is any program: the running process may     *)
(* perform any operation, on any process it could name.                    *)
(*                                                                         *)
(* A step is one operation up to its switch; what the process does when it *)
(* is switched to again is the step Resumes or Begins.  Nothing else runs  *)
(* in between, as in the code.                                             *)
(***************************************************************************)
EXTENDS ProcessTable

CONSTANTS
  MaxFibers,    \* kMaxFibers: live processes other than the base
  MaxHalted,    \* kMaxHalted: halted processes
  DrainRounds,  \* kDrainRounds: the yields of a drain, the passes of terminateAll
  MaxElements,  \* bound: elements in a SharedQueue
  MaxFailures,  \* bound: allocations that fail
  Strangers,    \* Processes of a loaded image: they have no record here
  HostCalls,    \* the calls the host makes
  CodeOps,      \* the operations the programs use,
  CleanupOps    \* and those their ensure: and ifCurtailed: blocks use

ASSUME LimitAssumption ==
  /\ MaxFibers \in Nat /\ MaxHalted \in Nat /\ DrainRounds \in Nat
  /\ MaxElements \in Nat /\ MaxFailures \in Nat
  /\ Strangers \subseteq Fibers

VARIABLES
  vm,        \* the process table
  host,      \* what the base does for the host, and how far it is
  awaited,   \* awaited_: the evaluating process the base waits for
  evalEnd,   \* evalEnd_: how it ended
  failed,    \* the processes recordFailure was called for (processFailures)
  oomLeft,   \* allocations that may still fail
  starved    \* ghost: the processes an allocation failed for

vars == <<vm, host, awaited, evalEnd, failed, oomLeft, starved>>

HostStates == {"idle", "eval", "await", "drain", "terminate", "abandon",
               "closed"}
Outcomes == {"none", "pending", "Finished", "Failed", "Halted"}

\* What runs Smalltalk on the base: an ao_eval without the live debugger, a test
\* file, or a send of the debugger's prints and of the change-set model.
Entries == {"eval", "test", "send"}

Idle == [at |-> "idle", entry |-> "none", rounds |-> 0, pass |-> 0,
         todo |-> {}, doing |-> Nobody, before |-> 0, ended |-> FALSE,
         clears |-> FALSE, closing |-> FALSE]

TypeOK ==
  /\ Typed(vm)
  /\ host \in [at : HostStates, entry : Entries \cup {"none"},
               rounds : 0 .. DrainRounds, pass : 0 .. DrainRounds,
               todo : SUBSET Proc, doing : Proc \cup {Nobody}, before : Nat,
               ended : BOOLEAN, clears : BOOLEAN, closing : BOOLEAN]
  /\ awaited \in Proc \cup {Nobody}
  /\ evalEnd \in Outcomes
  /\ failed \subseteq Proc
  /\ oomLeft \in 0 .. MaxFailures
  /\ starved \subseteq Proc

-----------------------------------------------------------------------------
\* The constructor, after a boot or a load: the base runs, the queue is empty,
\* and a loaded image may hold Semaphores on which its own Processes wait.
Init ==
  /\ \E image \in [Semaphores -> {<<>>} \cup {<<p>> : p \in Strangers}] :
       /\ \A s, u \in Semaphores : image[s] = image[u] => s = u \/ image[s] = <<>>
       /\ vm = [state      |-> [p \in Proc |-> IF p = Base THEN "Running"
                                               ELSE IF p \in Strangers THEN "Gone"
                                               ELSE "None"],
                current    |-> Base,
                ready      |-> <<>>,
                quiescent  |-> <<>>,
                myList     |-> [p \in Proc |->
                                 IF \E s \in Semaphores : image[s] = <<p>>
                                   THEN CHOOSE s \in Semaphores : image[s] = <<p>>
                                   ELSE Nil],
                linkedList |-> image,
                excess     |-> [s \in Semaphores |-> 0],
                waitingOn  |-> [p \in Proc |-> Nil],
                signaledBy |-> [p \in Proc |-> Nil],
                resumeTo   |-> [p \in Proc |-> Nobody],
                awaiting   |-> {}, condemned  |-> {}, terminated |-> {},
                abandoned  |-> {}, deadlocked |-> {}, aborting   |-> {},
                evals      |-> {}, marked     |-> {}, heapMark   |-> FALSE,
                frame      |-> [p \in Proc |-> IF p = Base THEN "code" ELSE "new"],
                contents   |-> [q \in Queues |-> 0]]
  /\ host = Idle
  /\ awaited = Nobody
  /\ evalEnd = "none"
  /\ failed = {}
  /\ oomLeft = MaxFailures
  /\ starved = {}

-----------------------------------------------------------------------------
\* The outcomes of an operation of the running process.

me == vm.current

\* Smalltalk code of the running process may perform op: it is not inside an
\* operation, and it is not abandoned (an abandoned process runs no code).
MayRun(op) == /\ vm.frame[me] = "code"
              /\ me \notin vm.abandoned
              /\ me = Base => host.at = "eval"
              /\ op \in IF me \in vm.aborting THEN CleanupOps ELSE CodeOps

Aborts(t)    == [t EXCEPT !.aborting = @ \cup {t.current}]
Blocks(t, f) == SwitchAway([t EXCEPT !.frame[t.current] = f],
                           t.current)

Becomes(t) == /\ vm' = t
              /\ UNCHANGED <<host, awaited, evalEnd, failed, oomLeft, starved>>

\* An allocation fails in the operation, which leaves t: the heap is marked and
\* the operation aborts.
OutOfMemory(t) ==
  /\ oomLeft > 0
  /\ oomLeft' = oomLeft - 1
  /\ starved' = starved \cup {me}
  /\ vm' = Aborts([t EXCEPT !.heapMark = TRUE])
  /\ UNCHANGED <<host, awaited, evalEnd, failed>>

\* Scheduler::canHalt: only the evaluating process the base waits for, and only
\* while it runs normally.
CanHalt == /\ me \in vm.evals /\ me = awaited
           /\ me \notin vm.aborting \cup vm.abandoned \cup vm.condemned
           /\ Cardinality(HaltedOf(vm)) < MaxHalted

\* Scheduler::halt: back to the base, which waits or sits in the ready queue.
Halts(t) ==
  LET stopped == [t EXCEPT !.state[me] = "Halted",
                           !.resumeTo[me] = Nobody,
                           !.frame[me] = "op"]
  IN SwitchTo(LeaveLists(stopped, Base), Base)

\* stopOrAbort: an error halts a live evaluation and aborts any other process.
Stops(t) == Becomes(IF CanHalt THEN Halts(t) ELSE Aborts(t))

-----------------------------------------------------------------------------
\* The operations Smalltalk code sends.

\* An error in the code itself: doesNotUnderstand:, error:, a failed native.
Trouble == MayRun("trouble") /\ Stops(vm)

\* SPEC 3.4: the limit of live processes.
Full == Cardinality(LiveFibers(vm)) >= MaxFibers

\* The process made, but not taken by the ready queue: its record goes again.
Unmade(t, p) == [t EXCEPT !.state[p] = "Gone"]

\* It aborts past the limit, or when no stack can be had for the fiber.
Fork ==
  /\ MayRun("fork")
  /\ \/ Becomes(Aborts(vm))
     \/ ~Full /\ OutOfMemory(vm)
     \/ /\ ~Full
        /\ \E p \in Fibers :
             /\ IsNextPid(vm, p)
             /\ Becomes(Enqueue(vm, p)) \/ OutOfMemory(Unmade(EnqueueFails(vm, p), p))

\* With an empty queue yield does nothing.
YieldFrom(t) ==
  LET queued == Enqueue([t EXCEPT !.frame[t.current] = "op"],
                        t.current)
  IN SwitchTo(TakeNext(queued, t.current), NextOf(queued, t.current))

Yield ==
  /\ MayRun("yield")
  /\ vm.ready # <<>>
  /\ Becomes(YieldFrom(vm)) \/ OutOfMemory(EnqueueFails(vm, me))

WaitsOn(t, s, f) ==
  Blocks([t EXCEPT !.linkedList[s] = Append(@, t.current),
                   !.myList[t.current] = s,
                   !.state[t.current] = "Waiting",
                   !.waitingOn[t.current] = s], f)

Answered(t, s) == [t EXCEPT !.excess[s] = @ - 1]

\* The readSynch of a SharedQueue is reached through the queue only.
Plain == Semaphores \ {ReadSynch[q] : q \in Queues}

Wait ==
  /\ MayRun("wait")
  /\ \E s \in Plain :
       \/ vm.excess[s] > 0 /\ Becomes(Answered(vm, s))
       \/ vm.excess[s] = 0 /\ Becomes(WaitsOn(vm, s, "op"))
       \/ vm.excess[s] = 0 /\ OutOfMemory(vm)

\* It fails past the limit of excessSignals, or without room for the waiter.
SignalSemaphore ==
  /\ MayRun("signal")
  /\ \E s \in Plain :
       \/ ~Overflows(vm, s) /\ Becomes(Signal(vm, s))
       \/ Overflows(vm, s) /\ Stops(DropStale(vm, s))
       \/ FirstWaiter(vm, s) # 0 /\ OutOfMemory(SignalFails(vm, s))

\* The processes Smalltalk code can name: those that were made.
Named == {p \in Proc : vm.state[p] # "None"}

\* On a stopped process or one that cannot run, suspend does nothing.
Suspend ==
  /\ MayRun("suspend")
  /\ \/ Becomes(Blocks([vm EXCEPT !.state[me] = "Suspended"],
                       "op"))
     \/ \E p \in Named :
          /\ vm.state[p] \in {"Ready", "Waiting"}
          /\ Becomes(LeaveLists(vm, p))

\* Mutated form: a halted process is resumed by Smalltalk code.
ResumableHalted(p) == vm.state[p] \in {"Suspended", "Halted"}

Resumable(p) == vm.state[p] = "Suspended"

\* resume does nothing on a process that runs, is ready, waits or is halted.
Resume ==
  /\ MayRun("resume")
  /\ \E p \in Named :
       \/ vm.state[p] \in {"Dead", "Gone"} /\ Becomes(Aborts(vm))
       \/ Resumable(p) /\ Becomes(Enqueue(vm, p))
       \/ Resumable(p) /\ OutOfMemory(EnqueueFails(vm, p))

\* The part of terminate after the signal went back: one not started ends at
\* once, another unwinds on itself and comes back when it ends or switches away.
Terminated(t, p) ==
  LET out == LeaveLists(t, p)
  IN IF t.frame[p] = "new"
       THEN ReapDead([out EXCEPT !.state[p] = "Dead",
                                 !.terminated = @ \cup {p}])
       ELSE SwitchTo([out EXCEPT
                        !.condemned = @ \cup {p},
                        !.resumeTo[p] = t.current,
                        !.state[t.current] = "Waiting",
                        !.awaiting  = @ \cup {t.current},
                        !.frame[t.current] = "op"], p)

\* Scheduler::terminate of another live fiber: a signal that took it out of a
\* wait it has not returned from goes back first.
GivesBack(p) == vm.signaledBy[p] # Nil

\* Mutated form: the signal goes with the process.
RelievedOfNothing(p) == vm

Relieved(p) ==
  LET given == Signal(vm, vm.signaledBy[p])
  IN IF GivesBack(p) THEN [given EXCEPT !.signaledBy[p] = Nil]
                     ELSE vm

TerminatesOther(p) ==
  \/ /\ GivesBack(p) => ~Overflows(vm, vm.signaledBy[p])
     /\ Becomes(Terminated(Relieved(p), p))
  \/ /\ GivesBack(p)
     /\ Overflows(vm, vm.signaledBy[p])
     /\ Stops(DropStale(vm, vm.signaledBy[p]))
  \/ /\ GivesBack(p)
     /\ FirstWaiter(vm, vm.signaledBy[p]) # 0
     /\ OutOfMemory(SignalFails(vm, vm.signaledBy[p]))

Terminate ==
  /\ MayRun("terminate")
  /\ \/ /\ me # Base
        /\ Becomes(Aborts([vm EXCEPT !.terminated = @ \cup {me}]))
     \/ Becomes(Aborts(vm))          \* the base never ends: the sender fails
     \/ \E p \in LiveFibers(vm) \ {me} : TerminatesOther(p)

\* Mutated form: the element stays.
TakesBackNothing(t, q) == t

\* ocRemoveLast, for a nextPut: that failed.
TakesBack(t, q) == [t EXCEPT !.contents[q] = @ - 1]

\* SharedQueue nextPut:.  When the signal fails the element goes out again, and
\* no halt comes in between.
NextPut ==
  /\ MayRun("nextPut")
  /\ \E q \in Queues :
       LET s   == ReadSynch[q]
           put == [vm EXCEPT !.contents[q] = @ + 1]
       IN /\ vm.contents[q] < MaxElements
          /\ \/ ~Overflows(vm, s) /\ Becomes(Signal(put, s))
             \/ /\ Overflows(vm, s)
                /\ Becomes(Aborts(TakesBack(DropStale(put, s), q)))
             \/ OutOfMemory(vm)                     \* the element has no room
             \/ /\ FirstWaiter(vm, s) # 0           \* the reader has none
                /\ OutOfMemory(TakesBack(SignalFails(put, s), q))

\* SharedQueue next: wait on readSynch until there is an element.  A signal
\* whose element another reader took is used up, and it waits again.
Takes(t, q) == [t EXCEPT !.contents[q] = @ - 1]
Emptied(t, q) == [t EXCEPT !.excess[ReadSynch[q]] = 0]
WaitsForElement(t, q) == WaitsOn(Emptied(t, q), ReadSynch[q], q)

NextElement ==
  /\ MayRun("next")
  /\ \E q \in Queues :
       LET claim == vm.excess[ReadSynch[q]] > 0 /\ vm.contents[q] > 0
       IN \/ claim /\ Becomes(Takes(Answered(vm, ReadSynch[q]), q))
          \/ ~claim /\ Becomes(WaitsForElement(vm, q))
          \/ ~claim /\ OutOfMemory(Emptied(vm, q))

Code == \/ Trouble \/ Fork \/ Yield \/ Wait \/ SignalSemaphore \/ Suspend
        \/ Resume \/ Terminate \/ NextPut \/ NextElement

-----------------------------------------------------------------------------
\* A process runs again, or for the first time.

\* Scheduler::afterResume, once the dead are released: the unwinding asked for
\* meanwhile, if any.
Unwound(t) ==
  LET gone == [t EXCEPT !.aborting = @ \cup {t.current},
                        !.frame[t.current] = "code"]
  IN IF t.current \in t.condemned
       THEN [gone EXCEPT !.condemned  = @ \ {t.current},
                         !.terminated = @ \cup {t.current}]
       ELSE [gone EXCEPT !.deadlocked = @ \ {t.current}]

Unwinds(t) == t.current \in t.abandoned \cup t.condemned \cup t.deadlocked

\* The base's own abort is not the host call's, but in an evaluation: the loops
\* of awaitEval, drain and terminateAll clear it.
Forgiven(t) == IF t.current = Base /\ host.at # "eval"
                 THEN [t EXCEPT !.aborting = @ \ {Base}] ELSE t

\* The operation it was in returns.
Continues(t) ==
  IF Unwinds(t)
    THEN Forgiven(Unwound(t))
  ELSE IF t.frame[t.current] \in Queues
    THEN LET q == t.frame[t.current]
         IN IF t.contents[q] > 0
              THEN [Takes(t, q) EXCEPT !.frame[t.current] = "code"]
              ELSE WaitsForElement(t, q)
  ELSE [t EXCEPT !.frame[t.current] = "code"]

Resumes ==
  /\ vm.frame[me] \notin {"new", "code"}
  /\ \/ Becomes(Continues(ReapDead(vm)))
     \/ /\ vm.frame[me] \in Queues          \* no memory to wait again
        /\ ~Unwinds(vm)
        /\ vm.contents[vm.frame[me]] = 0
        /\ OutOfMemory([Emptied(ReapDead(vm), vm.frame[me])
                          EXCEPT !.frame[me] = "code"])

\* Scheduler::runFiber up to the block.
Begins ==
  /\ vm.frame[me] = "new"
  /\ Becomes([ReapDead(vm) EXCEPT !.frame[me] = "code"])

\* Mutated form: a terminated evaluation is not answered.
AnswerUnlessTerminated(p, fails) ==
  IF p \in vm.evals /\ p = awaited /\ p \notin vm.abandoned \cup vm.terminated
    THEN IF fails THEN "Failed" ELSE "Finished"
    ELSE evalEnd

\* Scheduler::endEval: the outcome, when the base waits for it.
Answer(p, fails) ==
  IF p \in vm.evals /\ p = awaited /\ p \notin vm.abandoned
    THEN IF fails \/ p \in vm.terminated THEN "Failed" ELSE "Finished"
    ELSE evalEnd

\* The end of runFiber, endEval and finishFiber.  lost: the body came back
\* without a value and without an abort (a ^ to another process).
Ends(lost) ==
  LET p     == me
      fails == p \in vm.aborting \/ vm.heapMark \/ lost
  IN /\ vm.frame[p] = "code"
     /\ p # Base
     /\ lost => p \notin vm.aborting
     /\ failed' = IF fails /\ p \notin vm.evals \cup vm.terminated \cup vm.abandoned
                    THEN failed \cup {p} ELSE failed
     /\ evalEnd' = Answer(p, fails)
     /\ vm' = SwitchAway([vm EXCEPT !.state[p] = "Dead",
                                    !.myList[p] = Nil,
                                    !.heapMark = FALSE], p)
     /\ UNCHANGED <<host, awaited, oomLeft, starved>>

EndBody == \E lost \in BOOLEAN : Ends(lost)

-----------------------------------------------------------------------------
\* The base, for the host.

\* The base is in none of its operations, so the loop of the host call goes on.
InHost(at) == /\ host.at = at
              /\ me = Base
              /\ vm.frame[Base] = "code"

\* The host makes the call between two others.
Called(call) == InHost("idle") /\ call \in HostCalls

\* What an entry from the host clears first.
Cleared == [vm EXCEPT !.heapMark = FALSE, !.aborting = @ \ {Base}]

HostBecomes(t, h) ==
  vm' = t /\ host' = h /\ UNCHANGED <<awaited, evalEnd, failed, oomLeft, starved>>

\* An allocation fails in a loop of the base, which clears its abort.
HostOutOfMemory(t, h) ==
  /\ oomLeft > 0
  /\ oomLeft' = oomLeft - 1
  /\ starved' = starved \cup {Base}
  /\ vm' = [t EXCEPT !.heapMark = TRUE]
  /\ host' = h
  /\ UNCHANGED <<awaited, evalEnd, failed>>

\* The drain after an entry; clears: the heap's mark goes at its end.
Draining(entry, clears) ==
  [Idle EXCEPT !.at     = "drain",
               !.entry  = entry,
               !.rounds = DrainRounds,
               !.clears = clears]

Evaluating(entry) == [Idle EXCEPT !.at = "eval", !.entry = entry]

\* An entry that runs Smalltalk on the base.  The tests run without the live
\* debugger (ao --test).
Eval ==
  \E entry \in Entries :
    /\ Called(entry)
    /\ entry = "test" => vm.evals = {}
    /\ HostBecomes(Cleared, Evaluating(entry))

\* finishEval: the reason it fails for, given what ended on the base or on the
\* evaluating process, is fixed before the drain.
Fails(outcome) == outcome = "Failed" \/ vm.heapMark

EvalEnds ==
  /\ InHost("eval")
  /\ \/ /\ host.entry = "eval"          \* its value may have no printString
        /\ \E outcome \in {"Finished", "Failed"} :
             /\ Base \in vm.aborting => outcome = "Failed"
             /\ HostBecomes([vm EXCEPT !.aborting = @ \ {Base}],
                            Draining("eval", Fails(outcome)))
     \/ host.entry = "test" /\ HostBecomes(Cleared, Draining("test", FALSE))
     \/ host.entry = "send" /\ HostBecomes(Cleared, Idle)

\* Scheduler::runAwaited.
RunAwaited(t, p) ==
  SwitchTo([t EXCEPT !.resumeTo[p] = Base,
                     !.state[Base] = "Waiting",
                     !.awaiting = @ \cup {Base},
                     !.frame[Base] = "op"], p)

AwaitEval(t, p) ==
  /\ vm' = RunAwaited(t, p)
  /\ host' = [Idle EXCEPT !.at = "await"]
  /\ awaited' = p
  /\ evalEnd' = "pending"
  /\ UNCHANGED <<failed, oomLeft, starved>>

\* ao_eval with the live debugger: forkEval, which fails past the limit and
\* without a stack, then awaitEval.  The outcome starts as "pending" (a failure in
\* the code), so that an answer nobody gave is told from one.
EvalLive ==
  /\ Called("live")
  /\ \/ HostBecomes(Cleared, Draining("eval", TRUE))
     \/ ~Full /\ HostOutOfMemory(Cleared, Draining("eval", TRUE))
     \/ /\ ~Full
        /\ \E p \in Fibers :
             /\ IsNextPid(vm, p)
             /\ AwaitEval([Cleared EXCEPT
                             !.state[p] = "Suspended",
                             !.evals = @ \cup {p}], p)

\* Proceed, Step, Restart and Accept of a halted process.
Proceed ==
  /\ Called("debug")
  /\ \E p \in HaltedOf(vm) :
       AwaitEval([Cleared EXCEPT !.state[p] = "Suspended"], p)

\* The process awaited has ended or halts again.
AwaitOver == vm.state[awaited] \in {"Dead", "Gone", "Halted"}

\* Mutated form: the base yields to an empty queue, again and again.
EvalDeadlocksNever(t) == t

\* The evaluation waits and nothing else can run: it aborts with the deadlock.
EvalDeadlocks(t) ==
  LET out == LeaveLists(t, awaited)
  IN RunAwaited([out EXCEPT !.deadlocked = @ \cup {awaited}], awaited)

\* The loop of awaitEval: the other processes run until it is over.
AwaitLoop ==
  /\ InHost("await")
  /\ ~AwaitOver
  /\ \/ vm.ready # <<>> /\ Becomes(YieldFrom(vm))
     \/ vm.ready # <<>> /\ HostOutOfMemory(EnqueueFails(vm, Base), host)
     \/ vm.ready = <<>> /\ Becomes(EvalDeadlocks(vm))

Outcome == IF vm.state[awaited] = "Halted" THEN "Halted" ELSE evalEnd

\* The value of a finished evaluation is printed on the base, then the drain.
AwaitDone ==
  /\ InHost("await")
  /\ AwaitOver
  /\ vm' = [vm EXCEPT !.aborting = @ \ {Base}]
  /\ awaited' = Nobody
  /\ evalEnd' = Outcome
  /\ host' = IF Outcome = "Finished"
               THEN Evaluating("eval")
               ELSE Draining("eval", Fails(Outcome))
  /\ UNCHANGED <<failed, oomLeft, starved>>

\* Scheduler::abortHalted: a terminate from the base, then the drain.
AbortHalted ==
  /\ Called("debug")
  /\ \E p \in HaltedOf(vm) : HostBecomes(Terminated(Cleared, p),
                                     Draining("eval", TRUE))

\* Scheduler::drain.
Drain ==
  /\ InHost("drain")
  /\ host.rounds > 0
  /\ vm.ready # <<>>
  /\ LET rest == [host EXCEPT !.rounds = @ - 1]
     IN HostBecomes(YieldFrom(vm), rest) \/ HostOutOfMemory(EnqueueFails(vm, Base), rest)

Drained == InHost("drain") /\ (host.rounds = 0 \/ vm.ready = <<>>)

DrainEnds ==
  /\ Drained
  /\ host.pass = 0 /\ host.entry = "eval"
  /\ HostBecomes(IF host.clears THEN [vm EXCEPT !.heapMark = FALSE] ELSE vm, Idle)

\* Scheduler::terminateAll(false), after the drain of a test file.
Passing(n) == [Idle EXCEPT !.at     = "terminate",
                           !.pass   = n,
                           !.before = Cardinality(LiveFibers(vm)),
                           !.todo   = LiveFibers(vm) \ vm.terminated]

Abandoning(closing) == [Idle EXCEPT !.at = "abandon", !.closing = closing]

TerminateAll ==
  /\ Drained
  /\ host.pass = 0 /\ host.entry = "test"
  /\ HostBecomes(vm, IF DrainRounds = 0 THEN Abandoning(FALSE) ELSE Passing(1))

Over(p) == p \notin LiveFibers(vm) \/ p \in vm.terminated

\* One process of the pass, in the order of the records; then whether it ended.
TerminateNext ==
  /\ InHost("terminate")
  /\ host.doing = Nobody
  /\ \E p \in host.todo :
       /\ \A q \in host.todo : p <= q
       /\ LET s    == vm.signaledBy[p]
              rest == [host EXCEPT !.todo = @ \ {p}]
              sent == [rest EXCEPT !.doing = p]
          IN \/ Over(p) /\ HostBecomes(vm, rest)
             \/ /\ ~Over(p)
                /\ GivesBack(p) => ~Overflows(vm, s)
                /\ HostBecomes(Terminated(Relieved(p), p), sent)
             \/ /\ ~Over(p) /\ GivesBack(p) /\ Overflows(vm, s)
                /\ HostBecomes(DropStale(vm, s), sent)
             \/ /\ ~Over(p) /\ GivesBack(p) /\ FirstWaiter(vm, s) # 0
                /\ HostOutOfMemory(SignalFails(vm, s), sent)

TerminatedNext ==
  /\ InHost("terminate")
  /\ host.doing # Nobody
  /\ HostBecomes(vm, [host EXCEPT !.doing = Nobody,
                                  !.ended = @ \/ Over(host.doing)])

\* The drain of the pass, then the next pass or the abandon of what is left.
PassDrains ==
  /\ InHost("terminate")
  /\ host.doing = Nobody /\ host.todo = {}
  /\ HostBecomes(vm, [host EXCEPT !.at = "drain", !.rounds = DrainRounds])

PassEnds ==
  /\ Drained /\ host.pass > 0
  /\ LET left == Cardinality(LiveFibers(vm))
     IN HostBecomes(vm, IF \/ left = 0
                           \/ ~host.ended /\ left >= host.before
                           \/ host.pass = DrainRounds
                          THEN Abandoning(FALSE) ELSE Passing(host.pass + 1))

\* terminateAll(true), before the heap goes: shutdown, a load.
Close == Called("close") /\ HostBecomes(vm, Abandoning(TRUE))

Abandoned(t, p) == [LeaveLists(t, p) EXCEPT !.abandoned = @ \cup {p}]

\* Scheduler::abandonAll: the oldest live fiber, which unwinds without running
\* code and comes back; one not started just ends.
AbandonNext ==
  /\ InHost("abandon")
  /\ \E p \in LiveFibers(vm) :
       /\ \A q \in LiveFibers(vm) : p <= q
       /\ LET out == Abandoned(vm, p)
          IN Becomes(IF vm.frame[p] = "new"
                      THEN ReapDead([out EXCEPT !.state[p] = "Dead"])
                      ELSE RunAwaited(out, p))

AbandonEnds ==
  /\ InHost("abandon")
  /\ LiveFibers(vm) = {}
  /\ HostBecomes([vm EXCEPT !.aborting = @ \ {Base}],
                 IF host.closing THEN [Idle EXCEPT !.at = "closed"] ELSE Idle)

Closed == InHost("closed") /\ UNCHANGED vars

Calls == Eval \/ EvalLive \/ Proceed \/ AbortHalted \/ Close

HostLoops == \/ EvalEnds \/ AwaitLoop \/ AwaitDone \/ Drain \/ DrainEnds
             \/ TerminateAll \/ TerminateNext \/ TerminatedNext \/ PassDrains \/ PassEnds
             \/ AbandonNext \/ AbandonEnds

Next == Code \/ Resumes \/ Begins \/ EndBody \/ Calls \/ HostLoops \/ Closed

Spec == Init /\ [][Next]_vars

-----------------------------------------------------------------------------
\* Safety.

\* The ready queue holds each ready process once and nothing else, and
\* quiescentProcesses, which Smalltalk sees, is the same queue: also after a fork,
\* a yield, a signal, a resume or a terminate between whose two halves, the C++
\* queue and the Smalltalk one, memory ran out (Scheduler::enqueue).
QueueExact ==
  /\ vm.quiescent = vm.ready
  /\ IsInjective(vm.ready)
  /\ \A p \in Proc : vm.state[p] = "Ready" <=> p \in ToSet(vm.ready)

\* Exactly one process runs, the current one, and it is in no list and waits for
\* nobody (Scheduler::switchTo).
OneRunning ==
  /\ \A p \in Proc : vm.state[p] = "Running" <=> p = me
  /\ me \notin vm.awaiting

\* A process waits on a Semaphore exactly when its linkedList holds it, once: a
\* suspend, a terminate, a halt or a deadlock takes it out, and its myList says
\* where it is.
WaitersExact ==
  \A s \in Semaphores, p \in Proc \ Strangers :
    /\ Waits(vm, p, s) <=> p \in ToSet(vm.linkedList[s])
    /\ Cardinality({i \in 1 .. Len(vm.linkedList[s]) : vm.linkedList[s][i] = p}) <= 1
    /\ p \in Live(vm) => (vm.myList[p] = s <=> Waits(vm, p, s))

\* No pointer of the scheduler outlives a record: resumeTo and the ready queue
\* name records that exist (Scheduler::reapDead frees the others).
NoDangling ==
  /\ \A p \in Proc : vm.resumeTo[p] # Nobody =>
       vm.state[vm.resumeTo[p]] \notin {"None", "Dead", "Gone"}
  /\ \A p \in ToSet(vm.ready) : p \in Live(vm)

\* No waiter sleeps on a Semaphore that has a signal to give.
NoWaiterBesideExcess ==
  \A s \in Semaphores :
    vm.excess[s] > 0 => \A p \in Proc : ~Waits(vm, p, s)

\* readSynch counts the elements no reader has claimed: each element of a
\* SharedQueue is covered by an excess signal or by a reader that was signalled
\* for it and is on its way (Process.cpp, SharedQueue new).
Claims(q) ==
  vm.excess[ReadSynch[q]]
  + Cardinality({p \in Proc : vm.signaledBy[p] = ReadSynch[q]})
  + IF vm.frame[me] = q /\ ~Unwinds(vm) THEN 1 ELSE 0

ElementsClaimed == \A q \in Queues : vm.contents[q] <= Claims(q)

\* A process that waits for one it switched to (a terminate, an evaluation) is
\* brought back: some live process will return to it.
AwaiterReturns ==
  \A p \in vm.awaiting : \E o \in Live(vm) : vm.resumeTo[o] = p

\* Whatever halts, aborts and restarts come, the limits hold: live fibers, and
\* halted processes, all of them evaluations.
Limits ==
  /\ Cardinality(LiveFibers(vm)) <= MaxFibers
  /\ Cardinality(HaltedOf(vm)) <= MaxHalted
  /\ HaltedOf(vm) \subseteq vm.evals

\* An allocation that fails is the failure of the process it failed for, and of
\* no other: marks do not leak across a switch (Scheduler::switchTo, runFiber).
MarkIsOwn ==
  /\ vm.heapMark => me \in starved
  /\ vm.marked \ {me} \subseteq starved

\* An ended evaluation was answered by the process it ran on: awaitEval never
\* falls through with the outcome it started from (Scheduler::endEval).
EvalAnswered == InHost("await") /\ AwaitOver => \/ evalEnd \in {"Finished", "Failed"}
                                              \/ vm.state[awaited] = "Halted"

\* An evaluation that halted is answered with AO_ERR_HALT: the base has no mark
\* that would make finishEval answer a failure in its place.
HaltAnswered ==
  InHost("await") /\ AwaitOver /\ Outcome = "Halted" => ~Fails(Outcome)

\* Between host calls nothing but the base can run: no host call returns while a
\* fiber is current, and none leaves the base waiting or in a list.
BaseAtRest == host.at \in {"idle", "closed"} =>
  /\ me = Base
  /\ Base \notin vm.aborting \cup vm.deadlocked \cup vm.awaiting
  /\ vm.condemned = {} /\ vm.deadlocked = {} /\ awaited = Nobody

\* A session that closed has no process left, and no list that names one.
AllGone == host.at = "closed" =>
  /\ LiveFibers(vm) = {}
  /\ \A s \in Semaphores : ToSet(vm.linkedList[s]) \subseteq Strangers

\* What the host is told: an evaluation's own outcome, within the limits, with the
\* session at rest after each call and empty after the last.
HostAnswered == EvalAnswered /\ Limits /\ BaseAtRest /\ AllGone

-----------------------------------------------------------------------------
\* What a step may never do.

\* A halted process stays halted until the debugger resumes or aborts it, or
\* another process terminates or the session abandons it (SPEC 3.13).
HaltedStays ==
  [][\A p \in HaltedOf(vm) :
       vm'.state[p] # "Halted" =>
         p = awaited' \/ p \in vm'.condemned \cup vm'.abandoned]_vars

\* A signal that took a process out of its wait is answered by that wait, or
\* goes back to the Semaphore; abandon alone drops it.
SignalKept ==
  [][\A p \in Proc :
       LET s == vm.signaledBy[p]
           Held(t) == t.excess[s]
                      + Cardinality({r \in Proc : t.signaledBy[r] = s})
       IN s # Nil /\ vm'.signaledBy[p] = Nil =>
            \/ p = vm'.current /\ ~Unwinds(vm')
            \/ p \in vm'.abandoned
            \/ Held(vm') >= Held(vm)]_vars

-----------------------------------------------------------------------------
\* Liveness: the machine keeps going, and the body of each process that keeps
\* running ends.
Fairness ==
  /\ WF_vars(Code \/ Resumes \/ Begins \/ EndBody \/ HostLoops)
  /\ WF_vars(HostLoops)
  /\ \A p \in Fibers : SF_vars(me = p /\ EndBody)

FairSpec == Spec /\ Fairness

\* Every call of the host returns.
CallsReturn == (host.at \notin {"idle", "closed"}) ~> (host.at \in {"idle", "closed"})
=============================================================================
