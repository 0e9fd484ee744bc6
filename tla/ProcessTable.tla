---------------------------- MODULE ProcessTable ----------------------------
(***************************************************************************)
(* The scheduler's data: the process records (Scheduler::Record), the      *)
(* ready queue and the Smalltalk objects kept in step with it, and the     *)
(* helpers that move a process between them.  Each helper of Scheduler.cpp *)
(* is an operator that takes the scheduler's state, a record, and answers  *)
(* the state after the call, so that an operation composes them in the     *)
(* order of the code.                                                      *)
(***************************************************************************)
EXTENDS Integers, Sequences, FiniteSets, SequencesExt

CONSTANTS
  MaxPid,       \* bound: the process ids are 0..MaxPid, and none is used twice
  Semaphores,   \* the Semaphores of the image
  Queues,       \* the SharedQueues
  ReadSynch,    \* the readSynch of each SharedQueue
  MaxExcess     \* kSmiMax: the largest excessSignals

Base   == 0
Proc   == Base .. MaxPid
Fibers == Proc \ {Base}
Nobody == -1
Nil    == "nil"
Quiescent == "quiescentProcesses"

ASSUME PidAssumption   == MaxPid \in Nat
ASSUME ExcessAssumption == MaxExcess \in Nat
ASSUME QueueAssumption ==
  /\ ReadSynch \in [Queues -> Semaphores]
  /\ \A q, r \in Queues : ReadSynch[q] = ReadSynch[r] => q = r
ASSUME NameAssumption ==
  /\ Nil \notin Semaphores /\ Quiescent \notin Semaphores
  /\ Queues \cap {"new", "code", "op"} = {}

\* Scheduler::State, and a pid without a record: not made yet, or released.
States == {"None", "Ready", "Running", "Waiting", "Suspended", "Halted",
           "Dead", "Gone"}

\* Where a process stands in its C++ stack: its block has not begun; it runs
\* Smalltalk code; it is inside an operation that returns once the process is
\* switched to; it is inside next of a SharedQueue.
Frames == {"new", "code", "op"} \cup Queues

Fields == {"state", "current", "ready", "quiescent", "myList", "linkedList",
           "excess", "waitingOn", "signaledBy", "resumeTo", "awaiting",
           "condemned", "terminated", "abandoned", "deadlocked", "aborting",
           "evals", "marked", "heapMark", "frame", "contents"}

Typed(t) ==
  /\ DOMAIN t = Fields
  /\ t.state      \in [Proc -> States]
  /\ t.current    \in Proc
  /\ t.ready      \in Seq(Proc)
  /\ t.quiescent  \in Seq(Proc)
  /\ t.myList     \in [Proc -> Semaphores \cup {Nil, Quiescent}]
  /\ t.linkedList \in [Semaphores -> Seq(Proc)]
  /\ t.excess     \in [Semaphores -> 0 .. MaxExcess]
  /\ t.waitingOn  \in [Proc -> Semaphores \cup {Nil}]
  /\ t.signaledBy \in [Proc -> Semaphores \cup {Nil}]
  /\ t.resumeTo   \in [Proc -> Proc \cup {Nobody}]
  /\ t.awaiting   \subseteq Proc   \* awaitingTerminate
  /\ t.condemned  \subseteq Proc   \* terminateRequested
  /\ t.terminated \subseteq Proc
  /\ t.abandoned  \subseteq Proc   \* abandon
  /\ t.deadlocked \subseteq Proc   \* deadlockPending
  /\ t.aborting   \subseteq Proc   \* its context unwinds with an abort
  /\ t.evals      \subseteq Proc   \* isEval
  /\ t.marked     \subseteq Proc   \* outOfMemory, of those not running
  /\ t.heapMark   \in BOOLEAN      \* the heap's mark: the running one's
  /\ t.frame      \in [Proc -> Frames]
  /\ t.contents   \in [Queues -> Nat]

\* The processes with a record that has not ended.
LiveStates == {"Ready", "Running", "Waiting", "Suspended", "Halted"}
Live(t)       == {p \in Proc : t.state[p] \in LiveStates}
LiveFibers(t) == Live(t) \ {Base}
HaltedOf(t)   == {p \in Proc : t.state[p] = "Halted"}

\* The next id: they are given out in order, to records kept in that order.
IsNextPid(t, p) == /\ t.state[p] = "None"
                   /\ \A q \in Proc : t.state[q] = "None" => p <= q

-----------------------------------------------------------------------------
\* Out of the ready queue and of quiescentProcesses.
LeaveReady(t, p) == [t EXCEPT !.ready     = RemoveFirst(@, p),
                              !.quiescent = RemoveFirst(@, p)]

\* Mutated form: the processes that would return to p keep their pointer.
ReturningForgotten(t, p) == {}

\* The processes that would return to p, when p waits for one it switched to.
Returning(t, p) ==
  IF p \in t.awaiting THEN {o \in Proc : t.resumeTo[o] = p} ELSE {}

\* Mutated form: the linkedList keeps the process.
LeaveWaitListed(t, p) ==
  [t EXCEPT !.waitingOn[p] = Nil,
            !.awaiting  = @ \ {p},
            !.resumeTo  = [o \in Proc |->
                             IF o \in Returning(t, p) THEN Nobody ELSE @[o]]]

\* Out of the linkedList it waits in, or of the wait for another process.
LeaveWait(t, p) ==
  [t EXCEPT !.linkedList = [s \in Semaphores |->
                              IF s = t.waitingOn[p] THEN RemoveFirst(@[s], p)
                                                    ELSE @[s]],
            !.waitingOn[p] = Nil,
            !.awaiting   = @ \ {p},
            !.resumeTo   = [o \in Proc |->
                              IF o \in Returning(t, p) THEN Nobody ELSE @[o]]]

\* Scheduler::leaveLists: p is suspended, in no list.
LeaveLists(t, p) ==
  LET out == IF t.state[p] = "Ready" THEN LeaveReady(t, p)
             ELSE IF t.state[p] = "Waiting" THEN LeaveWait(t, p) ELSE t
  IN [out EXCEPT !.myList[p] = Nil,
                 !.state[p] = "Suspended"]

\* Scheduler::enqueue: the C++ queue takes p first.
Pushed(t, p) == [t EXCEPT !.ready = Append(@, p)]

\* Then quiescentProcesses does, and p is ready.
Enqueue(t, p) ==
  [Pushed(t, p) EXCEPT !.quiescent = Append(@, p),
                       !.myList[p] = Quiescent,
                       !.state[p]  = "Ready"]

\* Mutated form: the C++ queue keeps what quiescentProcesses had no room for.
PoppedBackNot(t) == t

\* pop_back.
PoppedBack(t) == [t EXCEPT !.ready = Front(@)]

\* When quiescentProcesses cannot be made, or cannot grow (no memory), the C++
\* queue is put back, and the call fails.
EnqueueFails(t, p) == PoppedBack(Pushed(t, p))

\* Mutated form: nobody is returned to.
ReturneeNone(t, p) == Nobody

\* Scheduler::takeNext: whom p switches to when it stops running, first the one
\* that waits for it, and the state with that process taken out of where it was.
Returnee(t, p) ==
  LET to == t.resumeTo[p]
  IN IF to # Nobody /\ to \in t.awaiting /\ t.state[to] = "Waiting"
       THEN to ELSE Nobody

NextOf(t, p) == IF Returnee(t, p) # Nobody THEN Returnee(t, p)
                ELSE IF t.ready # <<>> THEN Head(t.ready) ELSE Nobody

TakeNext(t, p) ==
  LET to   == Returnee(t, p)
      left == [t EXCEPT !.resumeTo[p] = Nobody]
  IN IF to # Nobody
       THEN [left EXCEPT !.awaiting = @ \ {to},
                         !.state[to] = "Suspended"]
     ELSE IF t.ready # <<>> THEN LeaveLists(left, Head(t.ready))
     ELSE left

\* Mutated form: the heap keeps the mark of the process that stops.
SwitchMarksShared(t, p) == t

\* The out-of-memory mark is each process's own: the heap holds the running one's.
SwitchMarks(t, p) ==
  [t EXCEPT !.marked   = IF t.heapMark THEN @ \cup {t.current} ELSE @ \ {t.current},
            !.heapMark = p \in t.marked]

\* Scheduler::switchTo.
SwitchTo(t, p) ==
  [SwitchMarks(t, p) EXCEPT !.myList[p] = Nil,
                            !.signaledBy[p] = Nil,
                            !.state[p] = "Running",
                            !.current    = p]

\* Mutated form: the base aborts but is not marked running again.
BaseFailsStopped(t) == [t EXCEPT !.aborting = @ \cup {Base},
                                 !.frame[Base] = "code"]

\* The base itself cannot block: its operation aborts on the spot.
BaseFails(t) == [t EXCEPT !.state[Base] = "Running",
                          !.aborting = @ \cup {Base},
                          !.frame[Base] = "code"]

\* The switch of Scheduler::block and finishFiber.  With no process to switch
\* to, the base's operation is undone and the base aborts: on the spot when it
\* is the one that blocked, else once it runs.
SwitchAway(t, p) ==
  LET next   == NextOf(t, p)
      taken  == TakeNext(t, p)
      undone == LeaveLists(taken, Base)
  IN IF next # Nobody THEN SwitchTo(taken, next)
     ELSE IF p = Base THEN BaseFails(undone)
     ELSE SwitchTo([undone EXCEPT !.deadlocked = @ \cup {Base}], Base)

\* Scheduler::reapDead: the records of the ended processes go, and with them
\* every pointer to them.
ReapDead(t) ==
  LET dead == {p \in Fibers : t.state[p] = "Dead" /\ p # t.current}
      keep == Proc \ dead
  IN [t EXCEPT
        !.state      = [p \in Proc |-> IF p \in dead THEN "Gone" ELSE @[p]],
        !.resumeTo   = [p \in Proc |->
                          IF p \in dead \/ @[p] \in dead THEN Nobody ELSE @[p]],
        !.frame      = [p \in Proc |-> IF p \in dead THEN "new" ELSE @[p]],
        !.terminated = @ \cap keep,
        !.abandoned  = @ \cap keep,
        !.aborting   = @ \cap keep,
        !.evals      = @ \cap keep,
        !.marked     = @ \cap keep]

-----------------------------------------------------------------------------
\* The waiters Scheduler::signal can wake: those whose record waits on s.
Waits(t, p, s) == t.state[p] = "Waiting" /\ t.waitingOn[p] = s

\* Mutated form: only the first entry of the list is looked at.
FirstWaiterAtHead(t, s) ==
  IF t.linkedList[s] # <<>> /\ Waits(t, Head(t.linkedList[s]), s) THEN 1 ELSE 0

FirstWaiter(t, s) ==
  SelectInSeq(t.linkedList[s], LAMBDA p : Waits(t, p, s))

\* Scheduler::signal drops the waiters that cannot run from the head of s.
DropStale(t, s) ==
  LET n    == IF FirstWaiter(t, s) = 0 THEN Len(t.linkedList[s])
                                       ELSE FirstWaiter(t, s) - 1
      gone == {t.linkedList[s][i] : i \in 1 .. n}
  IN [t EXCEPT
        !.linkedList[s] = SubSeq(@, n + 1, Len(@)),
        !.myList     = [p \in Proc |-> IF p \in gone /\ @[p] = s
                                         THEN Nil ELSE @[p]]]

\* Mutated form: the limit of a SmallInteger is not checked.
OverflowsNever(t, s) == FALSE

\* It needs room in the ready queue when there is a waiter, and an excessSignals
\* below kSmiMax when there is none.
Overflows(t, s) == FirstWaiter(t, s) = 0 /\ t.excess[s] >= MaxExcess

Signal(t, s) ==
  LET left == DropStale(t, s)
      p    == Head(left.linkedList[s])
  IN IF FirstWaiter(t, s) = 0
       THEN [left EXCEPT !.excess[s] = @ + 1]
       ELSE Enqueue([left EXCEPT !.linkedList[s] = RemoveFirst(@, p),
                                 !.waitingOn[p]  = Nil,
                                 !.signaledBy[p] = s], p)

\* The waiter that the ready queue could not take waits on; those dropped on the
\* way to it are gone all the same.
SignalFails(t, s) ==
  LET left == DropStale(t, s) IN EnqueueFails(left, Head(left.linkedList[s]))
=============================================================================
