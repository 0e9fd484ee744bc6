---------------------------- MODULE AnswersProofs ----------------------------
(***************************************************************************)
(* What a process takes with it when control moves: the out-of-memory mark *)
(* that is its own, the signal that took it out of a wait, the element of  *)
(* a SharedQueue that signal stands for, the unwinding asked of it, and    *)
(* the answer its evaluation owes to the host.  The invariant is IPlaces   *)
(* of SchedulerProofs with Whole added, what the process records say of    *)
(* each other beyond the lists, and what the host's call says of them.     *)
(* Last, the chain of returns, Linked: who switched to whom and is         *)
(* returned to.                                                            *)
(***************************************************************************)
EXTENDS SchedulerProofs

\* Smalltalk code may suspend a process, and with it the signal it was woken by.
MaySuspend == "suspend" \in CodeOps \cup CleanupOps

\* The host may abandon processes: their signals are dropped with them.
MayAbandon == HostCalls \cap {"test", "close"} # {}

Strict == ~ MaySuspend /\ ~ MayAbandon

\* The operation f a process is in is a wait on s.
Fits(f, s) == \/ f = "op" /\ s \in Plain
              \/ f \in Queues /\ s = ReadSynch[f]

Extant(t, p) == t.state[p] \notin {"Dead", "Gone"}

\* Only the process n, the one that runs or is switched to, is in its code, is
\* abandoned, or has an unwinding to do; it does that where an operation returns.
Settles(t, n) ==
  /\ \A p \in Proc : p # n /\ Extant(t, p) =>
       t.frame[p] # "code" /\ p \notin t.abandoned
  /\ t.condemned \cup t.deadlocked \subseteq {n}
  /\ t.condemned = {} \/ t.deadlocked = {}
  /\ t.condemned \cup t.deadlocked # {} => t.frame[n] \notin {"new", "code"}
  /\ Base \notin t.condemned \cup t.abandoned /\ t.frame[Base] # "new"

\* Whoever a signal took out of its wait is on its way back to that wait; n has
\* just left the ready queue.
Signaled(t, n) ==
  /\ \A p \in Proc : t.signaledBy[p] # Nil =>
       /\ \/ p = n \/ t.state[p] = "Ready"
          \/ MaySuspend /\ t.state[p] = "Suspended"
       /\ Fits(t.frame[p], t.signaledBy[p])
  /\ \A p \in Proc, s \in Semaphores : Waits(t, p, s) => Fits(t.frame[p], s)

HaltsEval(t) == HaltedOf(t) \subseteq t.evals

\* The marks are of processes in S.
Marked(t, S) == t.marked \subseteq S /\ (t.heapMark => t.current \in S)

\* The signals of s, given and not yet used up.
Bearers(t, s) == {p \in Proc : t.signaledBy[p] = s}
Count(t, s)   == t.excess[s] + Cardinality(Bearers(t, s))

Own(t, q) == IF t.frame[t.current] = q /\ ~ Unwinds(t) THEN 1 ELSE 0

Claimed(t) ==
  \A q \in Queues : t.contents[q] <= Count(t, ReadSynch[q]) + Own(t, q)

\* The same while no process runs.
Covered(t) == \A q \in Queues : t.contents[q] <= Count(t, ReadSynch[q])

Whole(t, S) == /\ Settles(t, t.current) /\ Signaled(t, Nobody) /\ HaltsEval(t)
               /\ Marked(t, S) /\ (Strict => Claimed(t))

\* Nothing runs, n is switched to next.
Poised(t, n, S) == /\ Settles(t, n) /\ Signaled(t, n) /\ HaltsEval(t)
                   /\ Marked(t, S) /\ (Strict => Covered(t))

-----------------------------------------------------------------------------
\* What the helpers of the process table leave alone.

SameFlags(t, u) ==
  /\ u.current = t.current /\ u.excess = t.excess /\ u.contents = t.contents
  /\ u.condemned = t.condemned /\ u.terminated = t.terminated
  /\ u.abandoned = t.abandoned /\ u.deadlocked = t.deadlocked
  /\ u.evals = t.evals /\ u.marked = t.marked /\ u.heapMark = t.heapMark

LEMMA SameFlagsThrough ==
  ASSUME NEW t, NEW u, NEW v, SameFlags(t, u), SameFlags(u, v)
  PROVE  SameFlags(t, v)
BY DEF SameFlags

LEMMA LeaveListsRest ==
  ASSUME NEW t, Typed(t), NEW p \in Proc
  PROVE  LET u == LeaveLists(t, p) IN
         /\ SameFlags(t, u) /\ u.aborting = t.aborting
         /\ u.frame = t.frame /\ u.signaledBy = t.signaledBy
         /\ u.state = [t.state EXCEPT ![p] = "Suspended"]
         /\ \A o \in Proc : o # p => u.waitingOn[o] = t.waitingOn[o]
<1> DEFINE u == LeaveLists(t, p)
<1>1. CASE t.state[p] = "Ready"
  <2>1. u = [LeaveReady(t, p) EXCEPT !.myList[p] = Nil, !.state[p] = "Suspended"]
    BY <1>1 DEF LeaveLists
  <2> QED
    BY <1>1, <2>1 DEF Typed, LeaveReady, Fields, SameFlags
<1>2. CASE t.state[p] = "Waiting"
  <2>1. u = [LeaveWait(t, p) EXCEPT !.myList[p] = Nil, !.state[p] = "Suspended"]
    BY <1>2 DEF LeaveLists
  <2> QED
    BY <1>2, <2>1 DEF Typed, LeaveWait, Fields, SameFlags
<1>3. CASE t.state[p] \notin {"Ready", "Waiting"}
  <2>1. u = [t EXCEPT !.myList[p] = Nil, !.state[p] = "Suspended"]
    BY <1>3 DEF LeaveLists
  <2> QED
    BY <1>3, <2>1 DEF Typed, Fields, SameFlags
<1> QED
  BY <1>1, <1>2, <1>3

LEMMA EnqueueRest ==
  ASSUME NEW t, Typed(t), NEW p \in Proc
  PROVE  LET u == Enqueue(t, p) IN
         /\ SameFlags(t, u) /\ u.aborting = t.aborting
         /\ u.frame = t.frame /\ u.signaledBy = t.signaledBy
         /\ u.state = [t.state EXCEPT ![p] = "Ready"]
         /\ u.waitingOn = t.waitingOn
BY DEF Typed, Fields, SameFlags, Enqueue, Pushed

LEMMA TakeNextRest ==
  ASSUME NEW t, Core(t), Parked(t), NEW p \in Proc
  PROVE  LET u == TakeNext(t, p) IN
         /\ SameFlags(t, u) /\ u.aborting = t.aborting
         /\ u.frame = t.frame /\ u.signaledBy = t.signaledBy
         /\ NextOf(t, p) # Nobody =>
              u.state = [t.state EXCEPT ![NextOf(t, p)] = "Suspended"]
         /\ NextOf(t, p) = Nobody => u.state = t.state
         /\ \A o \in Proc : o # NextOf(t, p) => u.waitingOn[o] = t.waitingOn[o]
<1> DEFINE u    == TakeNext(t, p)
           to   == Returnee(t, p)
           left == [t EXCEPT !.resumeTo[p] = Nobody]
<1>1. to \in Proc \cup {Nobody}
  BY DEF Returnee, Core, Typed
<1>2. /\ SameFlags(t, left) /\ left.aborting = t.aborting
      /\ left.frame = t.frame /\ left.signaledBy = t.signaledBy
      /\ left.state = t.state /\ left.waitingOn = t.waitingOn
      /\ left.ready = t.ready
  BY DEF Core, Typed, Fields, SameFlags
<1>3. Typed(left)
  BY SMTT(30) DEF Core, Typed, Fields, Nobody
<1>4. CASE to # Nobody
  <2>1. u = [left EXCEPT !.awaiting = @ \ {to}, !.state[to] = "Suspended"]
    BY <1>4 DEF TakeNext
  <2>2. NextOf(t, p) = to
    BY <1>4 DEF NextOf
  <2> HIDE DEF to, left
  <2>3. /\ SameFlags(left, u) /\ u.aborting = left.aborting
        /\ u.frame = left.frame /\ u.signaledBy = left.signaledBy
        /\ u.state = [left.state EXCEPT ![to] = "Suspended"]
        /\ u.waitingOn = left.waitingOn
    BY <1>3, <2>1 DEF Typed, Fields, SameFlags
  <2> QED
    BY <1>2, <1>4, <2>2, <2>3, SameFlagsThrough
<1>5. CASE to = Nobody /\ t.ready # <<>>
  <2> DEFINE h == Head(t.ready)
  <2>1. u = LeaveLists(left, h)
    BY <1>5 DEF TakeNext
  <2>2. NextOf(t, p) = h
    BY <1>5 DEF NextOf
  <2>3. h \in Proc
    BY <1>5, HeadTailProperties DEF Core, Typed
  <2>4. h # Nobody
    BY <2>3, Names
  <2> HIDE DEF to, left, h
  <2>5. /\ SameFlags(left, u) /\ u.aborting = left.aborting
        /\ u.frame = left.frame /\ u.signaledBy = left.signaledBy
        /\ u.state = [left.state EXCEPT ![h] = "Suspended"]
        /\ \A o \in Proc : o # h => u.waitingOn[o] = left.waitingOn[o]
    BY <1>3, <2>1, <2>3, LeaveListsRest
  <2> QED
    BY <1>2, <2>2, <2>4, <2>5, SameFlagsThrough
<1>6. CASE to = Nobody /\ t.ready = <<>>
  <2>1. u = left /\ NextOf(t, p) = Nobody
    BY <1>6 DEF TakeNext, NextOf
  <2> QED
    BY <1>2, <2>1
<1> QED
  BY <1>1, <1>4, <1>5, <1>6

-----------------------------------------------------------------------------
\* A switch from t, where the process that ran has stopped.

Switches(t, u) ==
  /\ u.current \in Proc
  /\ t.state[u.current] \in LiveStates
  /\ \A p \in Proc :
       /\ u.state[p] = IF p = u.current THEN "Running" ELSE t.state[p]
       /\ u.signaledBy[p] = IF p = u.current THEN Nil ELSE t.signaledBy[p]
       /\ p # u.current => u.waitingOn[p] = t.waitingOn[p]
  /\ u.excess = t.excess /\ u.contents = t.contents
  /\ u.condemned = t.condemned /\ u.abandoned = t.abandoned
  /\ u.evals = t.evals
  /\ u.marked \subseteq t.marked \cup {p \in Proc : p = t.current /\ t.heapMark}
  /\ u.heapMark => u.current \in t.marked \/ (u.current = t.current /\ t.heapMark)

\* To a process that could run,
Plainly(t, u) ==
  u.frame = t.frame /\ u.deadlocked = t.deadlocked /\ u.aborting = t.aborting

\* or to the base, which cannot do what it stopped in.
ToBase(t, u) ==
  /\ u.current = Base /\ t.ready = <<>>
  /\ \/ /\ t.current # Base
        /\ u.frame = t.frame /\ u.aborting = t.aborting
        /\ u.deadlocked = t.deadlocked \cup {Base}
     \/ /\ t.current = Base
        /\ u.frame = [t.frame EXCEPT ![Base] = "code"]
        /\ u.aborting = t.aborting \cup {Base}
        /\ u.deadlocked = t.deadlocked

LEMMA SwitchToSwitches ==
  ASSUME NEW t, Typed(t), NEW p \in Proc, t.state[p] \in LiveStates
  PROVE  /\ Switches(t, SwitchTo(t, p)) /\ Plainly(t, SwitchTo(t, p))
         /\ SwitchTo(t, p).current = p
<1> DEFINE u == SwitchTo(t, p)
<1>1. /\ u.current = p /\ u.frame = t.frame /\ u.deadlocked = t.deadlocked
      /\ u.aborting = t.aborting /\ u.waitingOn = t.waitingOn
      /\ u.excess = t.excess /\ u.contents = t.contents
      /\ u.condemned = t.condemned /\ u.abandoned = t.abandoned
      /\ u.evals = t.evals
      /\ u.state = [t.state EXCEPT ![p] = "Running"]
      /\ u.signaledBy = [t.signaledBy EXCEPT ![p] = Nil]
  BY DEF Typed, Fields, SwitchTo, SwitchMarks
<1>2. /\ u.marked = (IF t.heapMark THEN t.marked \cup {t.current}
                                   ELSE t.marked \ {t.current})
      /\ u.heapMark <=> p \in t.marked
  BY DEF Typed, Fields, SwitchTo, SwitchMarks
<1> HIDE DEF u
<1>3. \A o \in Proc :
        /\ u.state[o] = IF o = p THEN "Running" ELSE t.state[o]
        /\ u.signaledBy[o] = IF o = p THEN Nil ELSE t.signaledBy[o]
  BY <1>1 DEF Typed
<1>4. u.marked \subseteq t.marked \cup {o \in Proc : o = t.current /\ t.heapMark}
  BY <1>2 DEF Typed
<1> QED
  BY <1>1, <1>2, <1>3, <1>4 DEF Switches, Plainly, u

\* The switch from the start, through states that differ in nothing it reads.
LEMMA SwitchFrom ==
  ASSUME NEW t, NEW v, NEW u, Switches(v, u), SameFlags(t, v),
         v.signaledBy = t.signaledBy, t.state[u.current] \in LiveStates,
         \A o \in Proc : o # u.current =>
            v.state[o] = t.state[o] /\ v.waitingOn[o] = t.waitingOn[o]
  PROVE  Switches(t, u)
BY DEF Switches, SameFlags

LEMMA SwitchAwaySwitches ==
  ASSUME NEW t, Core(t), Parked(t), t.state[Base] \in BaseStates,
         t.signaledBy[t.current] = Nil
  PROVE  LET u == SwitchAway(t, t.current) IN
         /\ Switches(t, u)
         /\ Plainly(t, u) \/ ToBase(t, u)
<1> DEFINE p      == t.current
           next   == NextOf(t, p)
           taken  == TakeNext(t, p)
           undone == LeaveLists(taken, Base)
           u      == SwitchAway(t, p)
<1>1. p \in Proc /\ Base \in Proc /\ Nobody \notin Proc
  BY Names DEF Core, Typed
<1>2. /\ Core(taken)
      /\ next # Nobody => next \in Proc /\ taken.state[next] = "Suspended"
      /\ next = Nobody => t.ready = <<>>
  BY <1>1, TakeNextTakes
<1>3. /\ SameFlags(t, taken) /\ taken.aborting = t.aborting
      /\ taken.frame = t.frame /\ taken.signaledBy = t.signaledBy
      /\ next # Nobody => taken.state = [t.state EXCEPT ![next] = "Suspended"]
      /\ next = Nobody => taken.state = t.state
      /\ \A o \in Proc : o # next => taken.waitingOn[o] = t.waitingOn[o]
  BY <1>1, TakeNextRest
<1>4. next # Nobody => t.state[next] \in {"Ready", "Waiting"}
  <2>1. CASE Returnee(t, p) # Nobody
    <3>1. next = Returnee(t, p)
      BY <2>1 DEF NextOf
    <3> QED
      BY <2>1, <3>1 DEF Returnee
  <2>2. CASE Returnee(t, p) = Nobody /\ t.ready # <<>>
    <3>1. next = Head(t.ready)
      BY <2>2 DEF NextOf
    <3>2. Head(t.ready) \in ToSet(t.ready) /\ Head(t.ready) \in Proc
      BY <2>2, HeadTailProperties, LenProperties, EmptySeq DEF Core, Typed, ToSet
    <3> QED
      BY <3>1, <3>2 DEF Core, Queued
  <2> QED
    BY <2>1, <2>2 DEF NextOf
<1> HIDE DEF next, taken
<1>5. /\ SameFlags(taken, undone) /\ undone.aborting = taken.aborting
      /\ undone.frame = taken.frame /\ undone.signaledBy = taken.signaledBy
      /\ undone.state = [taken.state EXCEPT ![Base] = "Suspended"]
      /\ \A o \in Proc : o # Base => undone.waitingOn[o] = taken.waitingOn[o]
  BY <1>1, <1>2, LeaveListsRest DEF Core
<1>6. Core(undone)
  BY <1>1, <1>2, LeaveListsKeeps
<1> HIDE DEF undone, u
<1>7. CASE next # Nobody
  <2>1. u = SwitchTo(taken, next)
    BY <1>7 DEF SwitchAway, u, next, taken
  <2>2. Switches(taken, u) /\ Plainly(taken, u) /\ u.current = next
    BY <1>2, <1>7, <2>1, SwitchToSwitches DEF Core, LiveStates
  <2>3. \A o \in Proc : o # next => taken.state[o] = t.state[o]
    BY <1>2, <1>3, <1>7 DEF Core, Typed
  <2>4. t.state[u.current] \in LiveStates
    BY <1>4, <1>7, <2>2 DEF LiveStates
  <2>5. \A o \in Proc : o # u.current =>
            taken.state[o] = t.state[o] /\ taken.waitingOn[o] = t.waitingOn[o]
    BY <1>3, <2>2, <2>3
  <2>6. Switches(t, u)
    BY <1>3, <2>2, <2>4, <2>5, SwitchFrom
  <2>7. Plainly(t, u)
    BY <1>3, <2>2 DEF Plainly, SameFlags
  <2> QED
    BY <2>6, <2>7 DEF u
<1>8. ASSUME next = Nobody
      PROVE  /\ t.ready = <<>> /\ t.state[Base] \in LiveStates
             /\ SameFlags(t, undone) /\ undone.aborting = t.aborting
             /\ undone.frame = t.frame /\ undone.signaledBy = t.signaledBy
             /\ \A o \in Proc : o # Base =>
                  /\ undone.state[o] = t.state[o]
                  /\ undone.waitingOn[o] = t.waitingOn[o]
             /\ undone.state[Base] = "Suspended"
  <2>1. t.state[Base] \in LiveStates
    BY DEF BaseStates, LiveStates
  <2>2. SameFlags(t, undone)
    BY <1>3, <1>5, SameFlagsThrough
  <2>3. \A o \in Proc : undone.state[o] = IF o = Base THEN "Suspended" ELSE t.state[o]
    BY <1>1, <1>3, <1>5, <1>8 DEF Core, Typed
  <2>4. \A o \in Proc : o # next
    BY <1>1, <1>8
  <2> QED
    BY <1>1, <1>2, <1>3, <1>5, <1>8, <2>1, <2>2, <2>3, <2>4
<1>9. CASE next = Nobody /\ p = Base
  <2>1. u = BaseFails(undone)
    BY <1>9 DEF SwitchAway, u, next, taken, undone
  <2>2. /\ u.current = Base /\ u.signaledBy = undone.signaledBy
        /\ u.excess = undone.excess /\ u.contents = undone.contents
        /\ u.condemned = undone.condemned /\ u.abandoned = undone.abandoned
        /\ u.deadlocked = undone.deadlocked
        /\ u.evals = undone.evals /\ u.marked = undone.marked
        /\ u.aborting = undone.aborting \cup {Base}
        /\ u.frame = [undone.frame EXCEPT ![Base] = "code"]
        /\ u.state = [undone.state EXCEPT ![Base] = "Running"]
        /\ u.waitingOn = undone.waitingOn
    BY <1>3, <1>6, <1>8, <1>9, <2>1 DEF Core, Typed, Fields, BaseFails, SameFlags
  <2>3. u.heapMark <=> undone.heapMark
    BY <1>6, <2>1 DEF Core, Typed, Fields, BaseFails
  <2>4. \A o \in Proc : u.state[o] = IF o = Base THEN "Running" ELSE undone.state[o]
    BY <1>1, <1>6, <2>2 DEF Core, Typed
  <2>5. \A o \in Proc : u.signaledBy[o] = IF o = Base THEN Nil ELSE t.signaledBy[o]
    BY <1>8, <1>9, <2>2
  <2>6. Switches(t, u)
    BY <1>1, <1>8, <1>9, <2>2, <2>3, <2>4, <2>5 DEF Switches, SameFlags
  <2>7. ToBase(t, u)
    BY <1>8, <1>9, <2>2 DEF ToBase, SameFlags
  <2> QED
    BY <2>6, <2>7 DEF u
<1>10. CASE next = Nobody /\ p # Base
  <2> DEFINE v == [undone EXCEPT !.deadlocked = @ \cup {Base}]
  <2>1. u = SwitchTo(v, Base)
    BY <1>10 DEF SwitchAway, u, next, taken, undone
  <2>2. Typed(v)
    BY <1>1, <1>6, SMTT(30) DEF Core, Typed, Fields
  <2>3. /\ v.current = undone.current /\ v.signaledBy = undone.signaledBy
        /\ v.excess = undone.excess /\ v.contents = undone.contents
        /\ v.condemned = undone.condemned /\ v.abandoned = undone.abandoned
        /\ v.deadlocked = undone.deadlocked \cup {Base}
        /\ v.evals = undone.evals /\ v.marked = undone.marked
        /\ v.aborting = undone.aborting /\ v.frame = undone.frame
        /\ v.state = undone.state /\ v.waitingOn = undone.waitingOn
    BY <1>6 DEF Core, Typed, Fields
  <2>4. v.heapMark <=> undone.heapMark
    BY <1>6 DEF Core, Typed, Fields
  <2> HIDE DEF v
  <2>5. Switches(v, u) /\ Plainly(v, u) /\ u.current = Base
    BY <1>1, <1>8, <1>10, <2>1, <2>2, <2>3, SwitchToSwitches DEF LiveStates
  <2>6. Switches(t, u)
    BY <1>8, <1>10, <2>3, <2>4, <2>5 DEF Switches, SameFlags
  <2>7. ToBase(t, u)
    BY <1>8, <1>10, <2>3, <2>5 DEF ToBase, Plainly, SameFlags
  <2> QED
    BY <2>6, <2>7 DEF u
<1> QED
  BY <1>7, <1>9, <1>10

-----------------------------------------------------------------------------
\* What a switch keeps.

Alive(t, p) == t.state[p] \in LiveStates

\* Who lives, which evaluations do, and who has begun; those of X may end.
Runs(t, u, X) == \A p \in Proc :
  /\ Alive(u, p) => Alive(t, p)
  /\ t.state[p] \in {"Dead", "Gone"} => u.state[p] \in {"Dead", "Gone"}
  /\ Alive(t, p) /\ p \notin X =>
       /\ Alive(u, p)
       /\ u.frame[p] = "new" => t.frame[p] = "new"
       /\ p \in t.evals => p \in u.evals

NoneHalts(t, u) == HaltedOf(u) \subseteq HaltedOf(t)

\* A signal leaves its bearer only when that runs on in its wait.
Delivers(t, u) == \A p \in Proc :
  t.signaledBy[p] # Nil /\ u.signaledBy[p] = Nil =>
    p = u.current /\ (MaySuspend \/ ~ Unwinds(u))

\* The base fails no more, and waits for no more elements, than it did.
Disturbed(t) == Base \in t.aborting \/ t.frame[Base] \in Queues
Calmly(t, u) == Disturbed(u) => Disturbed(t)

LEMMA RunsThrough ==
  ASSUME NEW t, NEW u, NEW v, NEW X, Runs(t, u, X), Runs(u, v, {})
  PROVE  Runs(t, v, X)
BY DEF Runs

LEMMA Nowhere ==
  ASSUME NEW t, Typed(t), NEW n, Settles(t, Nobody)
  PROVE  /\ Settles(t, n) /\ t.condemned = {} /\ t.deadlocked = {}
         /\ \A p \in Proc : Extant(t, p) =>
              t.frame[p] # "code" /\ p \notin t.abandoned
BY Names DEF Settles, Typed

LEMMA Kinds ==
  /\ \A q \in Queues : /\ q \notin {"new", "code", "op"} /\ q \in Frames
                       /\ ReadSynch[q] \in Semaphores
                       /\ ReadSynch[q] \notin Plain /\ ReadSynch[q] # Nil
  /\ \A q, r \in Queues : ReadSynch[q] = ReadSynch[r] => q = r
  /\ \A f, s : Fits(f, s) => f \notin {"new", "code"}
  /\ \A q \in Queues : \A f : Fits(f, ReadSynch[q]) => f = q
BY QueueAssumption, NameAssumption DEF Fits, Plain, Frames

LEMMA BearersFinite ==
  ASSUME NEW t, NEW s
  PROVE  /\ IsFiniteSet(Bearers(t, s)) /\ Cardinality(Bearers(t, s)) \in Nat
<1>1. IsFiniteSet(Proc)
  BY PidAssumption, FS_Interval DEF Proc, Base
<1>2. Bearers(t, s) \subseteq Proc
  BY DEF Bearers
<1> QED
  BY <1>1, <1>2, FS_Subset, FS_CardinalityType

\* One bearer less.
LEMMA BearerLeaves ==
  ASSUME NEW t, NEW u, NEW n \in Proc, NEW s, s # Nil,
         \A p \in Proc : u.signaledBy[p] = IF p = n THEN Nil ELSE t.signaledBy[p]
  PROVE  Cardinality(Bearers(u, s)) = IF t.signaledBy[n] = s
                                        THEN Cardinality(Bearers(t, s)) - 1
                                        ELSE Cardinality(Bearers(t, s))
<1>1. CASE t.signaledBy[n] = s
  <2>1. Bearers(u, s) = Bearers(t, s) \ {n} /\ n \in Bearers(t, s)
    BY <1>1 DEF Bearers
  <2>2. IsFiniteSet(Bearers(t, s))
    BY BearersFinite
  <2>3. Cardinality(Bearers(t, s) \ {n}) = Cardinality(Bearers(t, s)) - 1
    BY <2>1, <2>2, FS_RemoveElement
  <2> QED
    BY <1>1, <2>1, <2>3
<1>2. CASE t.signaledBy[n] # s
  <2>1. Bearers(u, s) = Bearers(t, s)
    BY <1>2 DEF Bearers
  <2> QED
    BY <1>2, <2>1
<1> QED
  BY <1>1, <1>2

\* One more.
LEMMA BearerComes ==
  ASSUME NEW t, NEW u, NEW n \in Proc, NEW r, r # Nil,
         t.signaledBy[n] = Nil,
         \A p \in Proc : u.signaledBy[p] = IF p = n THEN r ELSE t.signaledBy[p],
         NEW s, s # Nil
  PROVE  Cardinality(Bearers(u, s)) = IF s = r THEN Cardinality(Bearers(t, s)) + 1
                                               ELSE Cardinality(Bearers(t, s))
<1>1. CASE s = r
  <2>1. Bearers(u, s) = Bearers(t, s) \cup {n} /\ n \notin Bearers(t, s)
    BY <1>1 DEF Bearers
  <2> QED
    BY <1>1, <2>1, BearersFinite, FS_AddElement
<1>2. CASE s # r
  <2>1. Bearers(u, s) = Bearers(t, s)
    BY <1>2 DEF Bearers
  <2> QED
    BY <1>2, <2>1
<1> QED
  BY <1>1, <1>2

\* The claim of a bearer becomes that of the process that runs.
LEMMA SwitchClaimed ==
  ASSUME NEW t, NEW u, Typed(t), Switches(t, u), Covered(t),
         t.signaledBy[u.current] # Nil =>
           /\ Fits(u.frame[u.current], t.signaledBy[u.current])
           /\ ~ Unwinds(u)
  PROVE  Claimed(u)
<1> SUFFICES ASSUME NEW q \in Queues
             PROVE  u.contents[q] <= Count(u, ReadSynch[q]) + Own(u, q)
  BY DEF Claimed
<1> DEFINE s == ReadSynch[q]
           n == u.current
<1>1. s \in Semaphores /\ s # Nil
  BY Kinds
<1>2. /\ n \in Proc /\ u.excess = t.excess /\ u.contents = t.contents
      /\ \A p \in Proc : u.signaledBy[p] = IF p = n THEN Nil ELSE t.signaledBy[p]
  BY DEF Switches
<1>3. t.contents[q] <= t.excess[s] + Cardinality(Bearers(t, s))
  BY DEF Covered, Count
<1>4. /\ t.contents[q] \in Nat /\ t.excess[s] \in Nat
      /\ Cardinality(Bearers(t, s)) \in Nat /\ Cardinality(Bearers(u, s)) \in Nat
  BY <1>1, BearersFinite, ExcessAssumption DEF Typed
<1>5. Cardinality(Bearers(u, s)) = IF t.signaledBy[n] = s
                                     THEN Cardinality(Bearers(t, s)) - 1
                                     ELSE Cardinality(Bearers(t, s))
  BY <1>1, <1>2, BearerLeaves
<1>6. t.signaledBy[n] = s => Own(u, q) = 1
  BY <1>1, Kinds DEF Own
<1>7. Own(u, q) \in {0, 1}
  BY DEF Own
<1>8. Count(u, s) = t.excess[s] + Cardinality(Bearers(u, s))
  BY <1>2 DEF Count
<1>9. u.contents[q] = t.contents[q]
  BY <1>2
<1> HIDE DEF s, n
<1>10. CASE t.signaledBy[n] = s
  BY <1>3, <1>4, <1>5, <1>6, <1>8, <1>9, <1>10 DEF s
<1>11. CASE t.signaledBy[n] # s
  BY <1>3, <1>4, <1>5, <1>7, <1>8, <1>9, <1>11 DEF s
<1> QED
  BY <1>10, <1>11

LEMMA SwitchSignaled ==
  ASSUME NEW t, NEW u, Switches(t, u), Signaled(t, u.current),
         \A p \in Proc : p # u.current => u.frame[p] = t.frame[p]
  PROVE  Signaled(u, Nobody)
<1>1. \A p \in Proc, s \in Semaphores : Waits(u, p, s) => p # u.current /\ Waits(t, p, s)
  BY DEF Switches, Waits
<1>2. \A p \in Proc : u.signaledBy[p] # Nil =>
        /\ p # u.current /\ u.signaledBy[p] = t.signaledBy[p]
        /\ u.state[p] = t.state[p]
  BY DEF Switches
<1> QED
  BY <1>1, <1>2 DEF Signaled

LEMMA SwitchMarked ==
  ASSUME NEW t, NEW u, NEW S, Switches(t, u), Marked(t, S)
  PROVE  Marked(u, S)
BY DEF Switches, Marked

LEMMA SwitchHalts ==
  ASSUME NEW t, NEW u, Switches(t, u), HaltsEval(t)
  PROVE  HaltsEval(u)
BY DEF Switches, HaltsEval, HaltedOf

LEMMA SwitchRuns ==
  ASSUME NEW t, NEW u, Typed(t), Switches(t, u),
         \A p \in Proc : u.frame[p] = t.frame[p] \/ u.frame[p] = "code"
  PROVE  Runs(t, u, {}) /\ NoneHalts(t, u)
BY DEF Switches, Runs, NoneHalts, HaltedOf, Alive, LiveStates

\* To a process that could run.
LEMMA PlainlyWhole ==
  ASSUME NEW t, NEW u, NEW S, Typed(t), Switches(t, u), Plainly(t, u),
         Poised(t, u.current, S),
         ~ MaySuspend /\ t.signaledBy[u.current] # Nil => (Strict => ~ Unwinds(u))
  PROVE  Whole(u, S) /\ Runs(t, u, {}) /\ NoneHalts(t, u) /\ Calmly(t, u)
<1> DEFINE n == u.current
<1>1. n \in Proc /\ u.frame = t.frame
  BY DEF Switches, Plainly
<1>2. Settles(u, n)
  <2>1. \A p \in Proc : p # n => u.state[p] = t.state[p]
    BY DEF Switches
  <2>2. /\ u.condemned = t.condemned /\ u.abandoned = t.abandoned
        /\ u.deadlocked = t.deadlocked
    BY DEF Switches, Plainly
  <2> QED
    BY <1>1, <2>1, <2>2 DEF Settles, Poised, Extant
<1>3. Signaled(u, Nobody) /\ Marked(u, S) /\ HaltsEval(u)
  BY <1>1, SwitchSignaled, SwitchMarked, SwitchHalts DEF Poised
<1>4. ASSUME Strict PROVE Claimed(u)
  <2>1. t.signaledBy[n] # Nil => Fits(u.frame[n], t.signaledBy[n]) /\ ~ Unwinds(u)
    BY <1>1, <1>4 DEF Poised, Signaled, Strict
  <2> QED
    BY <1>4, <2>1, SwitchClaimed DEF Poised
<1>5. Runs(t, u, {}) /\ NoneHalts(t, u)
  BY <1>1, SwitchRuns
<1>6. Calmly(t, u)
  BY DEF Calmly, Disturbed, Plainly
<1> QED
  BY <1>2, <1>3, <1>4, <1>5, <1>6 DEF Whole

\* takeNext's choice, or the base that cannot go on.
LEMMA SwitchWhole ==
  ASSUME NEW t, NEW u, NEW S, Core(t), Switches(t, u),
         Plainly(t, u) \/ ToBase(t, u), Poised(t, Nobody, S)
  PROVE  /\ Whole(u, S) /\ Runs(t, u, {}) /\ NoneHalts(t, u) /\ Delivers(t, u)
         /\ u.current \notin u.abandoned
         /\ Plainly(t, u) \/ t.current # Base => Calmly(t, u)
<1> DEFINE n == u.current
<1>1. /\ n \in Proc /\ Extant(t, n) /\ u.abandoned = t.abandoned
      /\ u.condemned = t.condemned /\ Base \in Proc
  BY Names DEF Switches, LiveStates, Extant
<1>2. /\ Settles(t, n) /\ t.condemned = {} /\ t.deadlocked = {}
      /\ \A p \in Proc : Extant(t, p) =>
           t.frame[p] # "code" /\ p \notin t.abandoned
  BY Nowhere DEF Poised, Core
<1>3. n \notin u.abandoned
  BY <1>1, <1>2
<1>4. Poised(t, n, S)
  BY <1>2, Names DEF Poised, Signaled
<1>5. \A p \in Proc : t.signaledBy[p] # Nil /\ u.signaledBy[p] = Nil => p = n
  BY DEF Switches
<1>6. CASE Plainly(t, u)
  <2>1. ~ Unwinds(u)
    BY <1>1, <1>2, <1>3, <1>6 DEF Unwinds, Plainly
  <2>2. Whole(u, S) /\ Runs(t, u, {}) /\ NoneHalts(t, u) /\ Calmly(t, u)
    BY <1>4, <1>6, <2>1, PlainlyWhole DEF Core
  <2> QED
    BY <1>3, <1>5, <2>1, <2>2 DEF Delivers
<1>7. CASE ToBase(t, u)
  <2>1. /\ n = Base /\ t.ready = <<>>
        /\ \A p \in Proc : p # n => u.frame[p] = t.frame[p]
        /\ \A p \in Proc : u.frame[p] = t.frame[p] \/ u.frame[p] = "code"
    BY <1>7 DEF ToBase, Core, Typed
  <2>2. Settles(u, n)
    <3>1. \A p \in Proc : p # n => u.state[p] = t.state[p]
      BY DEF Switches
    <3>2. Base \notin t.abandoned /\ t.frame[Base] \notin {"new", "code"}
      BY <1>1, <1>2, <2>1 DEF Settles
    <3>3. CASE u.deadlocked = t.deadlocked \cup {Base} /\ u.frame = t.frame
      BY <1>1, <1>2, <2>1, <3>1, <3>2, <3>3 DEF Settles, Extant
    <3>4. CASE u.deadlocked = t.deadlocked /\ u.frame[Base] = "code"
      BY <1>1, <1>2, <2>1, <3>1, <3>2, <3>4 DEF Settles, Extant
    <3>5. CASE u.frame = [t.frame EXCEPT ![Base] = "code"] /\ u.deadlocked = t.deadlocked
      <4>1. u.frame[Base] = "code"
        BY <1>1, <3>5 DEF Core, Typed
      <4> QED
        BY <3>4, <3>5, <4>1
    <3> QED
      BY <1>7, <3>3, <3>5 DEF ToBase
  <2>3. Signaled(u, Nobody) /\ Marked(u, S) /\ HaltsEval(u)
    BY <1>4, <2>1, SwitchSignaled, SwitchMarked, SwitchHalts DEF Poised
  <2>4. ~ MaySuspend => t.signaledBy[n] = Nil
    <3>1. n \notin ToSet(t.ready)
      BY <2>1 DEF ToSet
    <3>2. t.state[n] # "Ready"
      BY <1>1, <3>1 DEF Core, Queued
    <3> QED
      BY <1>1, <3>2, Names DEF Poised, Signaled
  <2>5. Strict => Claimed(u)
    BY <2>4, SwitchClaimed DEF Strict, Poised, Core
  <2>6. Runs(t, u, {}) /\ NoneHalts(t, u)
    BY <2>1, SwitchRuns DEF Core
  <2>7. Delivers(t, u)
    BY <1>5, <2>4 DEF Delivers
  <2>8. t.current # Base => Calmly(t, u)
    BY <1>7 DEF ToBase, Calmly, Disturbed
  <2>9. Plainly(t, u) => Calmly(t, u)
    BY DEF Plainly, Calmly, Disturbed
  <2> QED
    BY <1>3, <2>2, <2>3, <2>5, <2>6, <2>7, <2>8, <2>9 DEF Whole
<1> QED
  BY <1>6, <1>7

-----------------------------------------------------------------------------
\* The running process stops.

LEMMA OwnNothing ==
  ASSUME NEW t, Typed(t), Claimed(t), t.frame[t.current] \notin Queues
  PROVE  Covered(t)
<1>1. ASSUME NEW q \in Queues
      PROVE  t.contents[q] <= Count(t, ReadSynch[q])
  <2>1. Own(t, q) = 0
    BY DEF Own
  <2>2. t.contents[q] <= Count(t, ReadSynch[q]) + Own(t, q)
    BY DEF Claimed
  <2>3. t.excess[ReadSynch[q]] \in Nat /\ Cardinality(Bearers(t, ReadSynch[q])) \in Nat
    BY Kinds, BearersFinite, ExcessAssumption DEF Typed
  <2> QED
    BY <2>1, <2>2, <2>3 DEF Count
<1> QED
  BY <1>1 DEF Covered

\* Whoever runs bears no signal.
LEMMA RunnerBearsNone ==
  ASSUME NEW t, Sound(t), Signaled(t, Nobody)
  PROVE  t.signaledBy[t.current] = Nil
BY Names DEF Sound, Core, Typed, OneRuns, Signaled

StopStates == {"Ready", "Waiting", "Suspended", "Halted", "Dead"}

\* m is t with the running process stopped in f, its state x.
Stopped(t, m, x, f) ==
  /\ x \in StopStates
  /\ SameFlags(t, m) /\ m.signaledBy = t.signaledBy
  /\ m.aborting = t.aborting
  /\ m.state = [t.state EXCEPT ![t.current] = x]
  /\ m.frame = [t.frame EXCEPT ![t.current] = f]
  /\ \A o \in Proc : o # t.current => m.waitingOn[o] = t.waitingOn[o]
  /\ \A s \in Semaphores : Waits(m, t.current, s) => Fits(f, s)
  /\ f # "new"
  /\ x = "Dead" \/ (f # "code" /\ t.current \notin t.abandoned)

LEMMA StopPoised ==
  ASSUME NEW t, NEW m, NEW S, NEW x, NEW f, Sound(t), Whole(t, S),
         Stopped(t, m, x, f),
         x = "Halted" => t.current \in t.evals,
         t.condemned = {}, t.deadlocked = {}, Strict => Covered(t)
  PROVE  /\ Poised(m, Nobody, S)
         /\ Runs(t, m, IF x = "Dead" THEN {t.current} ELSE {})
         /\ x # "Halted" => NoneHalts(t, m)
         /\ m.signaledBy[m.current] = Nil
<1> DEFINE c == t.current
<1>0. /\ x \in StopStates
      /\ SameFlags(t, m) /\ m.signaledBy = t.signaledBy
      /\ m.state = [t.state EXCEPT ![t.current] = x]
      /\ m.frame = [t.frame EXCEPT ![t.current] = f]
      /\ \A o \in Proc : o # t.current => m.waitingOn[o] = t.waitingOn[o]
      /\ \A s \in Semaphores : Waits(m, t.current, s) => Fits(f, s)
      /\ f # "new"
      /\ x = "Dead" \/ (f # "code" /\ t.current \notin t.abandoned)
  BY DEF Stopped
<1>1. /\ c \in Proc /\ t.state[c] = "Running" /\ t.signaledBy[c] = Nil
      /\ m.current = c /\ Base \in Proc /\ Nobody \notin Proc
  BY <1>0, RunnerBearsNone, Names DEF Sound, Core, Typed, OneRuns, SameFlags, Whole
<1>2. \A o \in Proc : /\ m.state[o] = IF o = c THEN x ELSE t.state[o]
                      /\ m.frame[o] = IF o = c THEN f ELSE t.frame[o]
  BY <1>0, <1>1 DEF Sound, Core, Typed
<1>3. Settles(m, Nobody)
  <2>1. /\ m.condemned = {} /\ m.deadlocked = {} /\ m.abandoned = t.abandoned
    BY <1>0 DEF SameFlags
  <2>2. \A o \in Proc : Extant(m, o) => m.frame[o] # "code" /\ o \notin m.abandoned
    BY <1>0, <1>1, <1>2, <2>1 DEF Extant, Whole, Settles
  <2>3. Base \notin m.abandoned /\ m.frame[Base] # "new"
    BY <1>0, <1>1, <1>2, <2>1 DEF Whole, Settles
  <2> QED
    BY <1>0, <2>1, <2>2, <2>3 DEF Settles
<1>4. Signaled(m, Nobody)
  <2>1. ASSUME NEW o \in Proc, m.signaledBy[o] # Nil
        PROVE  /\ o # c /\ m.state[o] = t.state[o] /\ m.frame[o] = t.frame[o]
               /\ m.signaledBy[o] = t.signaledBy[o]
    BY <1>0, <1>1, <1>2, <2>1
  <2>2. ASSUME NEW o \in Proc, NEW s \in Semaphores, Waits(m, o, s)
        PROVE  Fits(m.frame[o], s)
    <3>1. CASE o = c
      BY <1>0, <1>1, <1>2, <2>2, <3>1
    <3>2. CASE o # c
      <4>1. Waits(t, o, s)
        BY <1>0, <1>2, <2>2, <3>2 DEF Waits
      <4> QED
        BY <1>0, <1>2, <3>2, <4>1 DEF Whole, Signaled
    <3> QED
      BY <1>0, <3>1, <3>2
  <2> QED
    BY <1>0, <2>1, <2>2 DEF Whole, Signaled
<1>5. HaltsEval(m)
  BY <1>0, <1>2 DEF HaltsEval, HaltedOf, SameFlags, Whole
<1>6. Marked(m, S)
  BY <1>0 DEF Marked, SameFlags, Whole
<1>7. Covered(t) => Covered(m)
  <2>1. \A s : Bearers(m, s) = Bearers(t, s)
    BY <1>0 DEF Bearers
  <2> QED
    BY <1>0, <2>1 DEF Covered, Count, SameFlags
<1>8. Runs(t, m, IF x = "Dead" THEN {c} ELSE {})
  BY <1>0, <1>1, <1>2 DEF Runs, Alive, LiveStates, SameFlags, StopStates
<1>9. x # "Halted" => NoneHalts(t, m)
  BY <1>0, <1>1, <1>2 DEF NoneHalts, HaltedOf
<1> QED
  BY <1>0, <1>1, <1>3, <1>4, <1>5, <1>6, <1>7, <1>8, <1>9 DEF Poised

\* It stops and the switch takes whom takeNext gives it.
Moves(t, u, S) ==
  /\ Whole(u, S) /\ Runs(t, u, {}) /\ NoneHalts(t, u) /\ Delivers(t, u)
  /\ u.current \notin u.abandoned
  /\ t.current # Base => Calmly(t, u)

LEMMA StopMoves ==
  ASSUME NEW t, NEW m, NEW S, NEW x, NEW f, Sound(t), Places(t), Whole(t, S),
         Stopped(t, m, x, f), x # "Halted",
         x = "Dead" => t.current # Base,
         t.condemned = {}, t.deadlocked = {}, Strict => Covered(t),
         Core(m), Parked(m)
  PROVE  LET u == SwitchAway(m, m.current) IN
         /\ Whole(u, S) /\ Runs(t, u, IF x = "Dead" THEN {t.current} ELSE {})
         /\ x # "Dead" => Moves(t, u, S)
         /\ NoneHalts(t, u) /\ Delivers(t, u) /\ u.current \notin u.abandoned
         /\ t.current # Base => Calmly(t, u)
         /\ m.ready # <<>> /\ f \notin Queues => Calmly(t, u)
<1> DEFINE u == SwitchAway(m, m.current)
           X == IF x = "Dead" THEN {t.current} ELSE {}
<1>p. /\ Poised(m, Nobody, S)
      /\ Runs(t, m, IF x = "Dead" THEN {t.current} ELSE {})
      /\ NoneHalts(t, m) /\ m.signaledBy[m.current] = Nil
  BY StopPoised
<1>1. /\ Poised(m, Nobody, S) /\ Runs(t, m, X) /\ NoneHalts(t, m)
      /\ m.signaledBy[m.current] = Nil
  BY <1>p
<1>2. m.state[Base] \in BaseStates
  BY Names DEF Sound, Core, Typed, Places, Ranked, BaseStates, Stopped,
                 StopStates
<1>3. Switches(m, u) /\ (Plainly(m, u) \/ ToBase(m, u))
  BY <1>1, <1>2, SwitchAwaySwitches
<1> HIDE DEF u, X
<1>4. /\ Whole(u, S) /\ Runs(m, u, {}) /\ NoneHalts(m, u) /\ Delivers(m, u)
      /\ u.current \notin u.abandoned
      /\ Plainly(m, u) \/ m.current # Base => Calmly(m, u)
  BY <1>1, <1>3, SwitchWhole
<1>5. Runs(t, u, X) /\ NoneHalts(t, u)
  BY <1>1, <1>4, RunsThrough DEF NoneHalts
<1>6. Delivers(t, u)
  BY <1>4 DEF Delivers, Stopped
<1>7. t.current # Base => Calmly(t, u)
  <2>1. t.current # Base => /\ m.frame[Base] = t.frame[Base]
                              /\ m.aborting = t.aborting
    BY Names DEF Sound, Core, Typed, Stopped
  <2>2. m.current = t.current
    BY DEF SameFlags, Stopped
  <2> QED
    BY <1>4, <2>1, <2>2 DEF Calmly, Disturbed
<1>8. ASSUME m.ready # <<>>, f \notin Queues PROVE Calmly(t, u)
  <2>1. Calmly(m, u)
    BY <1>3, <1>4, <1>8 DEF ToBase
  <2>2. /\ m.frame[Base] = t.frame[Base] \/ m.frame[Base] = f
        /\ m.aborting = t.aborting
    BY Names DEF Sound, Core, Typed, Stopped
  <2> QED
    BY <1>8, <2>1, <2>2 DEF Calmly, Disturbed
<1> QED
  BY <1>4, <1>5, <1>6, <1>7, <1>8 DEF Moves, X, u

-----------------------------------------------------------------------------
\* Steps in which the running process runs on.

\* Nothing of the processes' places and tasks changes.
Quiet(t, u) ==
  /\ u.state = t.state /\ u.waitingOn = t.waitingOn /\ u.frame = t.frame
  /\ u.signaledBy = t.signaledBy /\ u.current = t.current
  /\ u.condemned = t.condemned /\ u.abandoned = t.abandoned
  /\ u.deadlocked = t.deadlocked /\ u.evals = t.evals /\ u.marked = t.marked

LEMMA QuietRuns ==
  ASSUME NEW t, NEW u, Quiet(t, u)
  PROVE  /\ Runs(t, u, {}) /\ NoneHalts(t, u) /\ Delivers(t, u)
         /\ \A q : Own(u, q) = Own(t, q)
         /\ \A s : Bearers(u, s) = Bearers(t, s)
BY DEF Quiet, Runs, NoneHalts, HaltedOf, Delivers, Alive, Own, Bearers, Unwinds

LEMMA QuietWhole ==
  ASSUME NEW t, NEW u, NEW S, NEW S2, Whole(t, S), Quiet(t, u), S \subseteq S2,
         u.heapMark => t.heapMark \/ t.current \in S2,
         Strict => Claimed(u)
  PROVE  Whole(u, S2)
<1>1. Settles(u, u.current)
  BY DEF Quiet, Whole, Settles, Extant
<1>2. Signaled(u, Nobody)
  BY DEF Quiet, Whole, Signaled, Waits
<1>3. HaltsEval(u) /\ Marked(u, S2)
  BY DEF Quiet, Whole, HaltsEval, HaltedOf, Marked
<1> QED
  BY <1>1, <1>2, <1>3 DEF Whole

\* The counts are the same where elements are concerned.
LEMMA ClaimedDepends ==
  ASSUME NEW t, NEW u, Claimed(t), u.contents = t.contents,
         \A q \in Queues : u.excess[ReadSynch[q]] = t.excess[ReadSynch[q]],
         \A q : Own(u, q) = Own(t, q),
         \A s : Bearers(u, s) = Bearers(t, s)
  PROVE  Claimed(u)
BY DEF Claimed, Count

LEMMA AbortsWhole ==
  ASSUME NEW t, NEW S, Typed(t), Whole(t, S)
  PROVE  LET v == Aborts(t)
             w == Aborts([t EXCEPT !.heapMark = TRUE])
         IN /\ Whole(v, S) /\ Quiet(t, v)
            /\ Whole(w, S \cup {t.current}) /\ Quiet(t, w)
            /\ t.current # Base => Calmly(t, v) /\ Calmly(t, w)
<1> DEFINE v == Aborts(t)
           w == Aborts([t EXCEPT !.heapMark = TRUE])
<1>1. /\ Quiet(t, v) /\ v.excess = t.excess /\ v.contents = t.contents
      /\ v.aborting = t.aborting \cup {t.current}
  BY DEF Typed, Fields, Aborts, Quiet
<1>2. v.heapMark <=> t.heapMark
  BY DEF Typed, Fields, Aborts
<1>3. /\ Quiet(t, w) /\ w.excess = t.excess /\ w.contents = t.contents
      /\ w.aborting = t.aborting \cup {t.current}
  BY DEF Typed, Fields, Aborts, Quiet
<1> HIDE DEF v, w
<1>4. Strict => Claimed(v) /\ Claimed(w)
  BY <1>1, <1>3, QuietRuns, ClaimedDepends DEF Whole
<1>5. Whole(v, S)
  BY <1>1, <1>2, <1>4, QuietWhole
<1>6. Whole(w, S \cup {t.current})
  BY <1>3, <1>4, QuietWhole
<1>7. t.current # Base => Calmly(t, v) /\ Calmly(t, w)
  BY <1>1, <1>3 DEF Calmly, Disturbed, Quiet
<1> QED
  BY <1>1, <1>3, <1>5, <1>6, <1>7 DEF v, w

LEMMA DropStaleRest ==
  ASSUME NEW t, Typed(t), NEW s \in Semaphores
  PROVE  LET u == DropStale(t, s) IN
         /\ Quiet(t, u) /\ u.excess = t.excess /\ u.contents = t.contents
         /\ u.aborting = t.aborting /\ u.terminated = t.terminated
         /\ u.heapMark <=> t.heapMark
<1> DEFINE n    == IF FirstWaiter(t, s) = 0 THEN Len(t.linkedList[s])
                                            ELSE FirstWaiter(t, s) - 1
           gone == {t.linkedList[s][i] : i \in 1 .. n}
           r    == [t.linkedList EXCEPT ![s] = SubSeq(@, n + 1, Len(@))]
           l    == [p \in Proc |-> IF p \in gone /\ t.myList[p] = s
                                     THEN Nil ELSE t.myList[p]]
           u    == DropStale(t, s)
<1>1. u = [t EXCEPT !.linkedList = r, !.myList = l]
  BY DEF DropStale, Typed, Fields
<1> HIDE DEF r, l, n, gone
<1> QED
  BY <1>1 DEF Typed, Fields, Quiet

LEMMA DropStaleWhole ==
  ASSUME NEW t, NEW S, Typed(t), Whole(t, S), NEW s \in Semaphores
  PROVE  LET u == DropStale(t, s) IN
         /\ Whole(u, S) /\ Quiet(t, u) /\ Calmly(t, u)
         /\ u.excess = t.excess /\ u.contents = t.contents
<1> DEFINE u == DropStale(t, s)
<1>1. /\ Quiet(t, u) /\ u.excess = t.excess /\ u.contents = t.contents
      /\ u.aborting = t.aborting
      /\ u.heapMark <=> t.heapMark
  BY DropStaleRest
<1> HIDE DEF u
<1>2. Strict => Claimed(u)
  BY <1>1, QuietRuns, ClaimedDepends DEF Whole
<1>3. Whole(u, S)
  BY <1>1, <1>2, QuietWhole
<1>4. Calmly(t, u)
  BY <1>1 DEF Calmly, Disturbed, Quiet
<1> QED
  BY <1>1, <1>3, <1>4 DEF u

\* A signal is given: one more is counted or borne, and nobody is switched to.
LEMMA SignalRest ==
  ASSUME NEW t, NEW S, Sound(t), NEW s \in Semaphores, ~ Overflows(t, s),
         Settles(t, t.current), Signaled(t, Nobody), HaltsEval(t), Marked(t, S)
  PROVE  LET u == Signal(t, s) IN
         /\ Settles(u, u.current) /\ Signaled(u, Nobody) /\ HaltsEval(u)
         /\ Marked(u, S) /\ u.current = t.current /\ u.frame = t.frame
         /\ u.condemned = t.condemned /\ u.abandoned = t.abandoned
         /\ u.deadlocked = t.deadlocked /\ u.contents = t.contents
         /\ u.aborting = t.aborting /\ u.evals = t.evals
         /\ Runs(t, u, {}) /\ NoneHalts(t, u)
         /\ \A p \in Proc : t.signaledBy[p] # Nil =>
              u.signaledBy[p] = t.signaledBy[p] /\ u.state[p] = t.state[p]
         /\ \A z \in Semaphores :
              Count(u, z) = IF z = s THEN Count(t, z) + 1 ELSE Count(t, z)
         /\ \A p \in Proc : u.state[p] # t.state[p] => t.state[p] = "Waiting"
<1> DEFINE left == DropStale(t, s)
           p    == Head(left.linkedList[s])
           mid  == [left EXCEPT !.linkedList[s] = RemoveFirst(@, p),
                                !.waitingOn[p]  = Nil,
                                !.signaledBy[p] = s]
           u    == Signal(t, s)
<1>0. Core(t) /\ Typed(t) /\ s # Nil
  BY Names DEF Sound, Core
<1>1. /\ Quiet(t, left) /\ left.excess = t.excess /\ left.contents = t.contents
      /\ left.aborting = t.aborting
      /\ left.heapMark <=> t.heapMark
  BY <1>0, DropStaleRest
<1>2. /\ Typed(left)
      /\ FirstWaiter(t, s) # 0 => p \in Proc /\ Waits(t, p, s)
  <2>1. Core(t)
    BY <1>0
  <2>2. /\ Core(left) /\ left.state = t.state /\ left.current = t.current
        /\ left.waitingOn = t.waitingOn /\ left.awaiting = t.awaiting
        /\ left.excess = t.excess
        /\ FirstWaiter(t, s) # 0 => p \in Proc /\ Waits(t, p, s)
    BY ONLY <2>1, s \in Semaphores, DropStaleKeeps
  <2> QED
    BY <2>2 DEF Core
<1> HIDE DEF left, p
<1>3. \A z \in Semaphores : Cardinality(Bearers(t, z)) \in Nat /\ t.excess[z] \in Nat
  BY <1>0, BearersFinite, ExcessAssumption DEF Typed
<1>4. CASE FirstWaiter(t, s) = 0
  <2>1. u = [left EXCEPT !.excess[s] = @ + 1]
    BY <1>4 DEF Signal, left
  <2>2. /\ Quiet(left, u) /\ u.contents = left.contents /\ u.aborting = left.aborting
        /\ u.excess = [left.excess EXCEPT ![s] = @ + 1]
    BY <1>2, <2>1 DEF Typed, Fields, Quiet
  <2>3. u.heapMark <=> left.heapMark
    BY <1>2, <2>1 DEF Typed, Fields
  <2> HIDE DEF u
  <2>4. Quiet(t, u)
    BY <1>1, <2>2 DEF Quiet
  <2>5. Settles(u, u.current) /\ Signaled(u, Nobody) /\ HaltsEval(u) /\ Marked(u, S)
    BY <1>1, <2>3, <2>4 DEF Quiet, Settles, Extant, Signaled, Waits, HaltsEval,
                           HaltedOf, Marked
  <2>6. Runs(t, u, {}) /\ NoneHalts(t, u) /\ \A z : Bearers(u, z) = Bearers(t, z)
    BY <2>4, QuietRuns
  <2>7. \A z \in Semaphores : u.excess[z] = IF z = s THEN t.excess[z] + 1
                                                     ELSE t.excess[z]
    BY <1>1, <1>2, <2>2 DEF Typed
  <2>8. \A z \in Semaphores :
          Count(u, z) = IF z = s THEN Count(t, z) + 1 ELSE Count(t, z)
    BY <1>3, <2>6, <2>7 DEF Count
  <2> QED
    BY <1>1, <2>2, <2>4, <2>5, <2>6, <2>8 DEF Quiet, u
<1>5. CASE FirstWaiter(t, s) # 0
  <2>1. u = Enqueue(mid, p)
    BY <1>5 DEF Signal, left, p
  <2>2. /\ p \in Proc /\ t.state[p] = "Waiting" /\ t.waitingOn[p] = s
        /\ Fits(t.frame[p], s)
    BY <1>2, <1>5 DEF Waits, Signaled
  <2>3. t.signaledBy[p] = Nil
    BY <2>2, Names DEF Signaled
  <2>4. /\ u.state = [left.state EXCEPT ![p] = "Ready"]
        /\ u.waitingOn = [left.waitingOn EXCEPT ![p] = Nil]
        /\ u.signaledBy = [left.signaledBy EXCEPT ![p] = s]
        /\ u.frame = left.frame /\ u.current = left.current
        /\ u.condemned = left.condemned /\ u.abandoned = left.abandoned
        /\ u.deadlocked = left.deadlocked /\ u.evals = left.evals
        /\ u.marked = left.marked /\ u.contents = left.contents
        /\ u.aborting = left.aborting /\ u.excess = left.excess
    BY <1>2, <2>1 DEF Typed, Fields, Enqueue, Pushed
  <2>5. u.heapMark <=> left.heapMark
    BY <1>2, <2>1 DEF Typed, Fields, Enqueue, Pushed
  <2> HIDE DEF u, mid
  <2>6. \A o \in Proc :
          /\ u.state[o] = IF o = p THEN "Ready" ELSE t.state[o]
          /\ u.waitingOn[o] = IF o = p THEN Nil ELSE t.waitingOn[o]
          /\ u.signaledBy[o] = IF o = p THEN s ELSE t.signaledBy[o]
    BY <1>0, <1>1, <2>4 DEF Typed, Quiet
  <2>7. /\ u.frame = t.frame /\ u.current = t.current
        /\ u.condemned = t.condemned /\ u.abandoned = t.abandoned
        /\ u.deadlocked = t.deadlocked /\ u.evals = t.evals
        /\ u.marked = t.marked /\ u.contents = t.contents
        /\ u.aborting = t.aborting /\ u.excess = t.excess
        /\ u.heapMark <=> t.heapMark
    BY <1>1, <2>4, <2>5 DEF Quiet
  <2>8. Settles(u, u.current)
    <3>1. \A o \in Proc : Extant(u, o) => Extant(t, o)
      BY <2>2, <2>6 DEF Extant
    <3> QED
      BY <2>7, <3>1 DEF Settles
  <2>9. Signaled(u, Nobody)
    <3>1. ASSUME NEW o \in Proc, u.signaledBy[o] # Nil
          PROVE  /\ \/ u.state[o] = "Ready"
                    \/ MaySuspend /\ u.state[o] = "Suspended"
                 /\ Fits(u.frame[o], u.signaledBy[o])
      <4>1. CASE o = p
        BY <2>2, <2>6, <2>7, <4>1
      <4>2. CASE o # p
        BY <2>6, <2>7, <3>1, <4>2, Names DEF Signaled
      <4> QED
        BY <4>1, <4>2
    <3>2. \A o \in Proc, z \in Semaphores : Waits(u, o, z) => Waits(t, o, z)
      BY <2>6 DEF Waits
    <3> QED
      BY <2>7, <3>1, <3>2 DEF Signaled
  <2>10. HaltsEval(u) /\ Marked(u, S)
    BY <2>6, <2>7 DEF HaltsEval, HaltedOf, Marked
  <2>11. Runs(t, u, {}) /\ NoneHalts(t, u)
    BY <2>2, <2>6, <2>7 DEF Runs, NoneHalts, HaltedOf, Alive, LiveStates
  <2>12. ASSUME NEW z \in Semaphores
         PROVE  Count(u, z) = IF z = s THEN Count(t, z) + 1 ELSE Count(t, z)
    <3>1. z # Nil
      BY Names
    <3>2. Cardinality(Bearers(u, z)) = IF z = s THEN Cardinality(Bearers(t, z)) + 1
                                                ELSE Cardinality(Bearers(t, z))
      BY <1>0, <2>2, <2>3, <2>6, <3>1, BearerComes
    <3> QED
      BY <1>3, <2>7, <3>2 DEF Count
  <2>13. \A o \in Proc : t.signaledBy[o] # Nil =>
           u.signaledBy[o] = t.signaledBy[o] /\ u.state[o] = t.state[o]
    BY <2>3, <2>6
  <2>14. \A o \in Proc : u.state[o] # t.state[o] => t.state[o] = "Waiting"
    BY <2>2, <2>6
  <2> QED
    BY <2>7, <2>8, <2>9, <2>10, <2>11, <2>12, <2>13, <2>14 DEF u
<1> QED
  BY <1>4, <1>5

\* reapDead forgets the ended processes only.
LEMMA ReapDeadRest ==
  ASSUME NEW t, NEW S, Sound(t), Whole(t, S)
  PROVE  LET u == ReapDead(t) IN
         /\ Whole(u, S) /\ Runs(t, u, {}) /\ NoneHalts(t, u) /\ Delivers(t, u)
         /\ Calmly(t, u) /\ u.frame[u.current] = t.frame[t.current]
         /\ u.current = t.current /\ u.signaledBy = t.signaledBy
         /\ u.excess = t.excess /\ u.contents = t.contents
         /\ u.condemned = t.condemned /\ u.deadlocked = t.deadlocked
         /\ u.abandoned \subseteq t.abandoned
         /\ t.current \in t.abandoned => t.current \in u.abandoned
         /\ u.aborting \subseteq t.aborting
         /\ Unwinds(u) = Unwinds(t)
<1> DEFINE dead == {p \in Fibers : t.state[p] = "Dead" /\ p # t.current}
           u    == ReapDead(t)
<1>1. Typed(t) /\ t.current \in Proc
  BY DEF Sound, Core, Typed
<1>2. /\ u.state = [p \in Proc |-> IF p \in dead THEN "Gone" ELSE t.state[p]]
      /\ u.frame = [p \in Proc |-> IF p \in dead THEN "new" ELSE t.frame[p]]
      /\ u.abandoned = t.abandoned \cap (Proc \ dead)
      /\ u.aborting = t.aborting \cap (Proc \ dead)
      /\ u.evals = t.evals \cap (Proc \ dead)
      /\ u.marked = t.marked \cap (Proc \ dead)
      /\ u.current = t.current /\ u.signaledBy = t.signaledBy
      /\ u.excess = t.excess /\ u.contents = t.contents
      /\ u.waitingOn = t.waitingOn
      /\ u.condemned = t.condemned /\ u.deadlocked = t.deadlocked
  BY <1>1 DEF Typed, Fields, ReapDead
<1>3. u.heapMark <=> t.heapMark
  BY <1>1 DEF Typed, Fields, ReapDead
<1>4. /\ \A p \in dead : p # t.current /\ p # Base /\ t.state[p] = "Dead" /\ p \in Proc
      /\ Base \in Proc
  BY Names
<1> HIDE DEF u, dead
<1>5. \A p \in Proc :
        /\ u.state[p] = IF p \in dead THEN "Gone" ELSE t.state[p]
        /\ u.frame[p] = IF p \in dead THEN "new" ELSE t.frame[p]
  BY <1>2
<1>6. Settles(u, u.current)
  <2>1. \A p \in Proc : Extant(u, p) => Extant(t, p) /\ p \notin dead
    BY <1>4, <1>5 DEF Extant
  <2>2. u.frame[u.current] = t.frame[t.current] /\ u.frame[Base] = t.frame[Base]
    BY <1>1, <1>2, <1>4, <1>5
  <2> QED
    BY <1>2, <1>5, <2>1, <2>2 DEF Whole, Settles
<1>7. Signaled(u, Nobody)
  <2>1. ASSUME NEW p \in Proc, u.signaledBy[p] # Nil
        PROVE  p \notin dead
    BY <1>2, <1>4, <2>1, Names DEF Whole, Signaled
  <2>2. \A p \in Proc, s \in Semaphores : Waits(u, p, s) => Waits(t, p, s) /\ p \notin dead
    BY <1>2, <1>5 DEF Waits
  <2> QED
    BY <1>2, <1>5, <2>1, <2>2 DEF Whole, Signaled
<1>8. HaltsEval(u) /\ Marked(u, S) /\ NoneHalts(t, u)
  BY <1>1, <1>2, <1>3, <1>5 DEF HaltsEval, HaltedOf, Marked, Whole, NoneHalts
<1>9. t.current \in u.abandoned <=> t.current \in t.abandoned
  BY <1>1, <1>2, <1>4
<1>10. Unwinds(u) = Unwinds(t)
  BY <1>2, <1>9 DEF Unwinds
<1>11. Strict => Claimed(u)
  <2>1. \A q : Own(u, q) = Own(t, q)
    BY <1>1, <1>2, <1>4, <1>5, <1>10 DEF Own
  <2>2. \A s : Bearers(u, s) = Bearers(t, s)
    BY <1>2 DEF Bearers
  <2> QED
    BY <1>2, <2>1, <2>2, ClaimedDepends DEF Whole
<1>12. Runs(t, u, {}) /\ Delivers(t, u)
  BY <1>1, <1>2, <1>4, <1>5 DEF Runs, Alive, LiveStates, Delivers
<1>13. Calmly(t, u)
  BY <1>2, <1>4, <1>5 DEF Calmly, Disturbed
<1>14. u.frame[u.current] = t.frame[t.current]
  BY <1>1, <1>2, <1>4, <1>5
<1> QED
  BY <1>2, <1>6, <1>7, <1>8, <1>9, <1>10, <1>11, <1>12, <1>13, <1>14 DEF Whole, u

-----------------------------------------------------------------------------
\* The operations that stop the running process.

\* Nothing is asked of the running process, and it claims no element.
Free(t) == /\ t.current \notin t.abandoned
           /\ t.condemned = {} /\ t.deadlocked = {}
           /\ Strict => Covered(t)

LEMMA InCodeFree ==
  ASSUME NEW t, NEW S, Typed(t), Whole(t, S), t.frame[t.current] = "code",
         t.current \notin t.abandoned
  PROVE  Free(t)
BY OwnNothing, Kinds DEF Free, Whole, Settles

\* wait.
LEMMA WaitsOnMoves ==
  ASSUME NEW t, NEW S, Sound(t), Places(t), Whole(t, S), Free(t),
         NEW s \in Semaphores, NEW f \in Frames, Fits(f, s)
  PROVE  Moves(t, WaitsOn(t, s, f), S)
<1> DEFINE c == t.current
           m == [[t EXCEPT !.linkedList[s] = Append(@, t.current),
                           !.myList[t.current] = s,
                           !.state[t.current] = "Waiting",
                           !.waitingOn[t.current] = s]
                 EXCEPT !.frame[t.current] = f]
<1>1. c \in Proc /\ Typed(t) /\ t.linkedList[s] \in Seq(Proc)
  BY DEF Sound, Core, Typed
<1>2. Append(t.linkedList[s], c) \in Seq(Proc)
  BY <1>1, AppendAdds
<1>3. Typed(m)
  BY <1>1, <1>2, SMTT(30) DEF Typed, States, Fields
<1>4. /\ m.ready = t.ready /\ m.quiescent = t.quiescent
      /\ m.state = [t.state EXCEPT ![c] = "Waiting"]
      /\ m.waitingOn = [t.waitingOn EXCEPT ![c] = s]
      /\ m.frame = [t.frame EXCEPT ![c] = f]
      /\ m.current = c /\ m.awaiting = t.awaiting
      /\ SameFlags(t, m) /\ m.signaledBy = t.signaledBy
      /\ m.aborting = t.aborting
  BY <1>1 DEF Typed, Fields, SameFlags
<1>5. WaitsOn(t, s, f) = SwitchAway(m, m.current)
  BY <1>4 DEF WaitsOn, Blocks
<1> HIDE DEF m
<1>6. "Waiting" \in States \ {"Ready", "Running"}
  BY DEF States
<1>7. Core(m) /\ Parked(m)
  BY <1>3, <1>4, <1>6, StopParks
<1>8. Stopped(t, m, "Waiting", f)
  <2>1. \A o \in Proc : o # c => m.waitingOn[o] = t.waitingOn[o]
    BY <1>1, <1>4 DEF Typed
  <2>2. \A z \in Semaphores : Waits(m, c, z) => Fits(f, z)
    BY <1>1, <1>4 DEF Typed, Waits
  <2>3. f \notin {"new", "code"} /\ c \notin t.abandoned
    BY Kinds DEF Free
  <2> QED
    BY <1>4, <2>1, <2>2, <2>3 DEF Stopped, StopStates
<1>9. t.condemned = {} /\ t.deadlocked = {} /\ (Strict => Covered(t))
  BY DEF Free
<1>10. PICK x : x = "Waiting"
  OBVIOUS
<1>11. Stopped(t, m, x, f) /\ x # "Halted" /\ x # "Dead"
  BY <1>8, <1>10
<1>12. Moves(t, SwitchAway(m, m.current), S)
  BY <1>7, <1>9, <1>11, StopMoves
<1> QED
  BY <1>5, <1>12

\* suspend, of the process itself.
LEMMA SuspendMoves ==
  ASSUME NEW t, NEW S, Sound(t), Places(t), Whole(t, S), Free(t)
  PROVE  LET u == Blocks([t EXCEPT !.state[t.current] = "Suspended"], "op")
         IN Moves(t, u, S)
<1> DEFINE c == t.current
           m == [[t EXCEPT !.state[c] = "Suspended"] EXCEPT !.frame[c] = "op"]
           u == Blocks([t EXCEPT !.state[c] = "Suspended"], "op")
<1>1. c \in Proc /\ Typed(t)
  BY DEF Sound, Core, Typed
<1>3. Typed(m)
  BY <1>1, SMTT(30) DEF Typed, States, Frames, Fields
<1>4. /\ m.ready = t.ready /\ m.quiescent = t.quiescent
      /\ m.state = [t.state EXCEPT ![c] = "Suspended"]
      /\ m.waitingOn = t.waitingOn
      /\ m.frame = [t.frame EXCEPT ![c] = "op"]
      /\ m.current = c /\ m.awaiting = t.awaiting
      /\ SameFlags(t, m) /\ m.signaledBy = t.signaledBy
      /\ m.aborting = t.aborting
  BY <1>1 DEF Typed, Fields, SameFlags
<1>5. u = SwitchAway(m, m.current)
  BY <1>1, <1>4 DEF Blocks, Typed, Fields
<1> HIDE DEF m, u
<1>6. "Suspended" \in States \ {"Ready", "Running"}
  BY DEF States
<1>7. Core(m) /\ Parked(m)
  BY <1>3, <1>4, <1>6, StopParks
<1>8. Stopped(t, m, "Suspended", "op")
  <2>1. m.state[c] = "Suspended"
    BY <1>1, <1>4 DEF Typed
  <2>2. \A z \in Semaphores : ~ Waits(m, c, z)
    BY <2>1 DEF Waits
  <2>3. c \notin t.abandoned
    BY DEF Free
  <2> QED
    BY <1>4, <2>2, <2>3 DEF Stopped, StopStates
<1>9. t.condemned = {} /\ t.deadlocked = {} /\ (Strict => Covered(t))
  BY DEF Free
<1>10. PICK x, f : x = "Suspended" /\ f = "op"
  OBVIOUS
<1>11. Stopped(t, m, x, f) /\ x # "Halted" /\ x # "Dead"
  BY <1>8, <1>10
<1>12. Moves(t, SwitchAway(m, m.current), S)
  BY <1>7, <1>9, <1>11, StopMoves
<1> QED
  BY <1>5, <1>12 DEF u

\* yield, of any process, the base in its loops among them.
LEMMA YieldMoves ==
  ASSUME NEW t, NEW S, Sound(t), Places(t), Whole(t, S), Free(t)
  PROVE  Moves(t, YieldFrom(t), S) /\ Calmly(t, YieldFrom(t))
<1> DEFINE c == t.current
           k == [t EXCEPT !.frame[t.current] = "op"]
           m == Enqueue(k, c)
           n == NextOf(m, c)
           u == YieldFrom(t)
<1>1. /\ c \in Proc /\ "op" \in Frames /\ t.state[c] = "Running" /\ Typed(t)
  BY DEF Frames, Sound, Core, Typed, OneRuns
<1>2. Sound(k) /\ SamePlaces(t, k) /\ k.current = c
  BY <1>1, FrameKeeps
<1>3. u = SwitchTo(TakeNext(m, c), n)
  BY DEF YieldFrom
<1>4. /\ k.frame = [t.frame EXCEPT ![c] = "op"] /\ k.waitingOn = t.waitingOn
      /\ k.state = t.state
      /\ SameFlags(t, k) /\ k.signaledBy = t.signaledBy
      /\ k.aborting = t.aborting
  BY <1>1 DEF Typed, Fields, SameFlags
<1> HIDE DEF k
<1>5. k.state[c] = "Running" /\ c \notin k.awaiting /\ k.waitingOn[c] = Nil
  BY <1>1, <1>2 DEF Sound, Core, OneRuns, WaitsForOne
<1>6. /\ Core(m) /\ m.ready # <<>> /\ m.current = c
      /\ \A o \in Proc : m.state[o] = IF o = c THEN "Ready" ELSE k.state[o]
  BY <1>1, <1>2, <1>5, EnqueueKeeps DEF Sound
<1>7. /\ SameFlags(k, m) /\ m.aborting = k.aborting
      /\ m.frame = k.frame /\ m.signaledBy = k.signaledBy
      /\ m.state = [k.state EXCEPT ![c] = "Ready"]
      /\ m.waitingOn = k.waitingOn
  BY <1>1, <1>2, EnqueueRest DEF Sound, Core
<1> HIDE DEF m
<1>8. Parked(m)
  BY <1>2, <1>6 DEF Sound, OneRuns, Parked
<1>9. n # Nobody
  BY <1>1, <1>6, <1>8, TakeNextTakes
<1>10. u = SwitchAway(m, m.current)
  BY <1>3, <1>6, <1>9 DEF SwitchAway
<1>11. Stopped(t, m, "Ready", "op")
  <2>1. m.state[c] = "Ready"
    BY <1>1, <1>6
  <2>2. \A z \in Semaphores : ~ Waits(m, c, z)
    BY <2>1 DEF Waits
  <2>3. c \notin t.abandoned
    BY DEF Free
  <2>4. SameFlags(t, m)
    BY <1>4, <1>7, SameFlagsThrough
  <2> QED
    BY <1>4, <1>7, <2>2, <2>3, <2>4 DEF Stopped, StopStates
<1>12. t.condemned = {} /\ t.deadlocked = {} /\ (Strict => Covered(t))
  BY DEF Free
<1>13. PICK x, f : x = "Ready" /\ f = "op" /\ f \notin Queues
  BY Kinds
<1>14. Stopped(t, m, x, f) /\ x # "Halted" /\ x # "Dead"
  BY <1>11, <1>13
<1>15. /\ Moves(t, SwitchAway(m, m.current), S)
       /\ m.ready # <<>> /\ f \notin Queues =>
            Calmly(t, SwitchAway(m, m.current))
  BY <1>6, <1>8, <1>12, <1>14, StopMoves
<1> HIDE DEF u
<1> QED
  BY <1>6, <1>10, <1>13, <1>15 DEF u

\* halt: the evaluation stops, and the base goes on.
LEMMA HaltsMoves ==
  ASSUME NEW t, NEW S, Sound(t), Places(t), Whole(t, S), Free(t),
         t.current = me, me # Base, me \in t.evals
  PROVE  LET u == Halts(t) IN
         /\ Whole(u, S) /\ Runs(t, u, {}) /\ Delivers(t, u)
         /\ u.current \notin u.abandoned /\ Calmly(t, u)
         /\ HaltedOf(u) \subseteq HaltedOf(t) \cup {me}
<1> DEFINE m == [t EXCEPT !.state[me] = "Halted",
                          !.resumeTo[me] = Nobody,
                          !.frame[me] = "op"]
           v == LeaveLists(m, Base)
           u == Halts(t)
<1>1. /\ me \in Proc /\ Typed(t) /\ Base \in Proc /\ Nobody \notin Proc
      /\ Base # me /\ "op" \notin Queues
  BY Names, Kinds DEF Sound, Core, Typed
<1>2. Typed(m)
  BY <1>1, SMTT(30) DEF Typed, States, Frames, Fields
<1>3. /\ m.ready = t.ready /\ m.quiescent = t.quiescent
      /\ m.state = [t.state EXCEPT ![me] = "Halted"]
      /\ m.waitingOn = t.waitingOn
      /\ m.frame = [t.frame EXCEPT ![me] = "op"]
      /\ m.current = me /\ m.awaiting = t.awaiting
      /\ SameFlags(t, m) /\ m.signaledBy = t.signaledBy
      /\ m.aborting = t.aborting
  BY <1>1 DEF Typed, Fields, SameFlags
<1>4. u = SwitchTo(v, Base)
  BY DEF Halts
<1> HIDE DEF m, u
<1>5. "Halted" \in States \ {"Ready", "Running"}
  BY DEF States
<1>6. Core(m) /\ Parked(m)
  BY <1>2, <1>3, <1>5, StopParks
<1>7. Stopped(t, m, "Halted", "op")
  <2>1. m.state[me] = "Halted"
    BY <1>1, <1>3 DEF Typed
  <2>2. \A z \in Semaphores : ~ Waits(m, t.current, z)
    BY <2>1 DEF Waits
  <2>3. t.current \notin t.abandoned
    BY DEF Free
  <2> QED
    BY <1>3, <2>2, <2>3 DEF Stopped, StopStates
<1>8. /\ Poised(m, Nobody, S) /\ Runs(t, m, {})
  <2>1. t.condemned = {} /\ t.deadlocked = {} /\ (Strict => Covered(t))
    BY DEF Free
  <2>2. PICK x, f : x = "Halted" /\ f = "op" /\ x # "Dead"
    OBVIOUS
  <2> QED
    BY <1>7, <2>1, <2>2, StopPoised
<1>9. /\ SameFlags(m, v) /\ v.aborting = m.aborting
      /\ v.frame = m.frame /\ v.signaledBy = m.signaledBy
      /\ v.state = [m.state EXCEPT ![Base] = "Suspended"]
      /\ \A o \in Proc : o # Base => v.waitingOn[o] = m.waitingOn[o]
  BY <1>1, <1>2, LeaveListsRest
<1>10. Typed(v)
  BY <1>1, <1>6, LeaveListsKeeps DEF Core
<1> HIDE DEF v
<1>11. /\ \A o \in Proc : v.state[o] = IF o = Base THEN "Suspended" ELSE m.state[o]
       /\ m.state[Base] \in LiveStates
  BY <1>1, <1>2, <1>3, <1>9 DEF Typed, Places, Ranked, BaseStates, LiveStates
<1>12. Switches(v, u) /\ Plainly(v, u) /\ u.current = Base
  <2>1. PICK b : b = Base
    OBVIOUS
  <2>2. v.state[b] \in LiveStates /\ b \in Proc
    BY <1>1, <1>11, <2>1 DEF LiveStates
  <2>3. /\ Switches(v, SwitchTo(v, b)) /\ Plainly(v, SwitchTo(v, b))
        /\ SwitchTo(v, b).current = b
    BY <1>10, <2>2, SwitchToSwitches
  <2> QED
    BY <1>4, <2>1, <2>3
<1>13. Switches(m, u)
  <2>1. \A o \in Proc : o # u.current =>
            v.state[o] = m.state[o] /\ v.waitingOn[o] = m.waitingOn[o]
    BY <1>9, <1>11, <1>12
  <2>2. m.state[u.current] \in LiveStates
    BY <1>11, <1>12
  <2> QED
    BY <1>9, <1>12, <2>1, <2>2 DEF Switches, SameFlags
<1>14. Plainly(m, u)
  BY <1>9, <1>12 DEF Plainly, SameFlags
<1>15. /\ Whole(u, S) /\ Runs(m, u, {}) /\ NoneHalts(m, u) /\ Delivers(m, u)
       /\ u.current \notin u.abandoned /\ Calmly(m, u)
  BY <1>6, <1>8, <1>13, <1>14, SwitchWhole
<1>16. Runs(t, u, {})
  BY <1>8, <1>15, RunsThrough
<1>17. Delivers(t, u)
  BY <1>3, <1>15 DEF Delivers
<1>18. Calmly(t, u)
  <2>1. m.frame[Base] = t.frame[Base]
    BY <1>1, <1>3 DEF Typed
  <2> QED
    BY <1>3, <1>15, <2>1 DEF Calmly, Disturbed
<1>19. HaltedOf(m) \subseteq HaltedOf(t) \cup {me}
  BY <1>1, <1>3 DEF HaltedOf, Typed
<1> QED
  BY <1>15, <1>16, <1>17, <1>18, <1>19 DEF NoneHalts, u

-----------------------------------------------------------------------------
\* What one process does to another.

\* p leaves its lists, or ends before it began; it may be abandoned then.
Elsewhere(t, u, p, x) ==
  /\ p \in Proc /\ p # t.current /\ Extant(t, p)
  /\ u.state = [t.state EXCEPT ![p] = x]
  /\ x = "Dead" => p \in Fibers /\ t.signaledBy[p] = Nil
  /\ \/ x = "Dead" /\ u.abandoned \in {t.abandoned, t.abandoned \cup {p}}
     \/ /\ x = "Suspended" /\ u.abandoned = t.abandoned
        /\ t.signaledBy[p] # Nil => MaySuspend
  /\ \A o \in Proc : o # p => u.waitingOn[o] = t.waitingOn[o]
  /\ u.frame = t.frame /\ u.signaledBy = t.signaledBy /\ u.current = t.current
  /\ u.condemned = t.condemned /\ u.deadlocked = t.deadlocked
  /\ u.evals = t.evals /\ u.marked = t.marked /\ (u.heapMark => t.heapMark)
  /\ u.excess = t.excess /\ u.contents = t.contents

LEMMA OtherWhole ==
  ASSUME NEW t, NEW u, NEW S, NEW p, NEW x, Sound(t), Whole(t, S),
         Elsewhere(t, u, p, x)
  PROVE  /\ Whole(u, S) /\ Delivers(t, u) /\ NoneHalts(t, u)
         /\ t.state[p] \in LiveStates => Runs(t, u, {p})
         /\ t.state[p] \in LiveStates /\ x = "Suspended" => Runs(t, u, {})
<1> USE DEF Elsewhere
<1>1. /\ x = "Dead" => p # Base
      /\ Base \in Proc
      /\ \A o \in Proc : u.state[o] = IF o = p THEN x ELSE t.state[o]
  BY Names DEF Sound, Core, Typed
<1>2. Settles(u, u.current)
  <2>1. \A o \in Proc : Extant(u, o) /\ o # t.current =>
          u.frame[o] # "code" /\ o \notin u.abandoned
    <3>1. ASSUME NEW o \in Proc, Extant(u, o), o # t.current
          PROVE  u.frame[o] # "code" /\ o \notin u.abandoned
      <4>1. CASE o = p
        <5>1. x = "Suspended" /\ u.abandoned = t.abandoned
          BY <1>1, <3>1, <4>1 DEF Extant
        <5> QED
          BY <3>1, <4>1, <5>1 DEF Whole, Settles
      <4>2. CASE o # p
        BY <1>1, <3>1, <4>2 DEF Extant, Whole, Settles
      <4> QED
        BY <4>1, <4>2
    <3> QED
      BY <3>1
  <2>2. Base \notin u.abandoned
    BY <1>1 DEF Whole, Settles
  <2> QED
    BY <2>1, <2>2 DEF Whole, Settles
<1>3. Signaled(u, Nobody)
  <2>1. ASSUME NEW o \in Proc, u.signaledBy[o] # Nil
        PROVE  \/ u.state[o] = "Ready"
               \/ MaySuspend /\ u.state[o] = "Suspended"
    <3>1. CASE o = p
      BY <1>1, <2>1, <3>1
    <3>2. CASE o # p
      BY <1>1, <2>1, <3>2, Names DEF Whole, Signaled
    <3> QED
      BY <3>1, <3>2
  <2>2. \A o \in Proc, s \in Semaphores : Waits(u, o, s) => Waits(t, o, s)
    BY <1>1 DEF Waits
  <2> QED
    BY <2>1, <2>2 DEF Whole, Signaled
<1>4. NoneHalts(t, u) /\ HaltsEval(u)
  BY <1>1 DEF NoneHalts, HaltedOf, HaltsEval, Whole
<1>5. Marked(u, S)
  BY DEF Marked, Whole
<1>6. ASSUME Strict PROVE Claimed(u)
  <2>1. \A s : Bearers(u, s) = Bearers(t, s)
    BY DEF Bearers
  <2>2. t.current \in u.abandoned <=> t.current \in t.abandoned
    OBVIOUS
  <2>3. \A q : Own(u, q) = Own(t, q)
    BY <2>2 DEF Own, Unwinds
  <2> QED
    BY <1>6, <2>1, <2>3, ClaimedDepends DEF Whole
<1>7. Delivers(t, u)
  BY DEF Delivers
<1>8. t.state[p] \in LiveStates => Runs(t, u, {p})
  BY <1>1 DEF Runs, Alive, LiveStates
<1>9. t.state[p] \in LiveStates /\ x = "Suspended" => Runs(t, u, {})
  BY <1>1 DEF Runs, Alive, LiveStates
<1> QED
  BY <1>2, <1>3, <1>4, <1>5, <1>6, <1>7, <1>8, <1>9 DEF Whole

\* The running process waits for p, which it switches to and which may have an
\* unwinding to do.
HandsTo(t, v, p) ==
  /\ v.current = t.current /\ v.signaledBy = t.signaledBy
  /\ v.aborting = t.aborting /\ v.evals = t.evals /\ v.marked = t.marked
  /\ v.heapMark <=> t.heapMark
  /\ v.excess = t.excess /\ v.contents = t.contents
  /\ v.frame = [t.frame EXCEPT ![t.current] = "op"]
  /\ \A o \in Proc :
       /\ v.state[o] = IF o = p THEN "Suspended"
                       ELSE IF o = t.current THEN "Waiting" ELSE t.state[o]
       /\ o # p => v.waitingOn[o] = t.waitingOn[o]
  /\ v.abandoned \subseteq t.abandoned \cup {p}
  /\ v.condemned \subseteq {p} /\ v.deadlocked \subseteq {p}
  /\ v.condemned = {} \/ v.deadlocked = {}
  /\ v.condemned \cup v.deadlocked # {} => t.frame[p] # "new"

LEMMA HandsWhole ==
  ASSUME NEW t, NEW v, NEW S, Sound(t), Whole(t, S), Free(t), Typed(v),
         NEW p \in Fibers, p # t.current, t.state[p] \in LiveStates,
         HandsTo(t, v, p),
         Strict /\ t.signaledBy[p] # Nil =>
           p \notin v.abandoned \cup v.condemned \cup v.deadlocked
  PROVE  LET u == SwitchTo(v, p) IN
         /\ Whole(u, S) /\ Runs(t, u, {}) /\ NoneHalts(t, u) /\ Calmly(t, u)
         /\ \A o \in Proc : t.signaledBy[o] # Nil /\ u.signaledBy[o] = Nil => o = p
         /\ u.current = p /\ u.abandoned = v.abandoned
         /\ u.condemned = v.condemned /\ u.deadlocked = v.deadlocked
         /\ u.frame = v.frame
<1> DEFINE u == SwitchTo(v, p)
           c == t.current
<1>1. /\ p \in Proc /\ c \in Proc /\ Base \in Proc /\ p # Base
      /\ t.state[c] = "Running" /\ t.waitingOn[c] = Nil /\ t.signaledBy[c] = Nil
      /\ Nobody \notin Proc
  BY Names, RunnerBearsNone DEF Sound, Core, Typed, OneRuns, WaitsForOne, Whole
<1>2. /\ v.current = c /\ v.signaledBy = t.signaledBy
      /\ v.aborting = t.aborting /\ v.evals = t.evals /\ v.marked = t.marked
      /\ v.excess = t.excess /\ v.contents = t.contents
      /\ \A o \in Proc :
           /\ v.state[o] = IF o = p THEN "Suspended"
                           ELSE IF o = c THEN "Waiting" ELSE t.state[o]
           /\ o # p => v.waitingOn[o] = t.waitingOn[o]
           /\ v.frame[o] = IF o = c THEN "op" ELSE t.frame[o]
      /\ v.abandoned \subseteq t.abandoned \cup {p}
      /\ v.condemned \subseteq {p} /\ v.deadlocked \subseteq {p}
      /\ v.condemned = {} \/ v.deadlocked = {}
      /\ v.condemned \cup v.deadlocked # {} => t.frame[p] # "new"
  BY <1>1 DEF HandsTo, Sound, Core, Typed
<1>3. v.heapMark <=> t.heapMark
  BY DEF HandsTo
<1> HIDE DEF u
<1>4. Settles(v, p)
  <2>1. ASSUME NEW o \in Proc, o # p, Extant(v, o)
        PROVE  v.frame[o] # "code" /\ o \notin v.abandoned
    <3>1. CASE o = c
      BY <1>2, <2>1, <3>1 DEF Free
    <3>2. CASE o # c
      BY <1>2, <2>1, <3>2 DEF Whole, Settles, Extant
    <3> QED
      BY <3>1, <3>2
  <2>2. v.frame[p] = t.frame[p] /\ t.frame[p] # "code"
    BY <1>1, <1>2 DEF Whole, Settles, Extant, LiveStates
  <2>3. Base \notin v.condemned \cup v.abandoned /\ v.frame[Base] # "new"
    BY <1>1, <1>2 DEF Whole, Settles
  <2> QED
    BY <1>2, <2>1, <2>2, <2>3 DEF Settles
<1>5. Signaled(v, p)
  <2>1. ASSUME NEW o \in Proc, v.signaledBy[o] # Nil
        PROVE  /\ \/ o = p \/ v.state[o] = "Ready"
                  \/ MaySuspend /\ v.state[o] = "Suspended"
               /\ Fits(v.frame[o], v.signaledBy[o])
    BY <1>1, <1>2, <2>1 DEF Whole, Signaled
  <2>2. ASSUME NEW o \in Proc, NEW s \in Semaphores, Waits(v, o, s)
        PROVE  Fits(v.frame[o], s)
    <3>1. o # p /\ v.waitingOn[o] = s
      BY <1>2, <2>2 DEF Waits
    <3>2. o # c
      BY <1>1, <1>2, <3>1, Names
    <3>3. Waits(t, o, s) /\ v.frame[o] = t.frame[o]
      BY <1>2, <2>2, <3>1, <3>2 DEF Waits
    <3> QED
      BY <3>3 DEF Whole, Signaled
  <2> QED
    BY <2>1, <2>2 DEF Signaled
<1>6. HaltsEval(v) /\ NoneHalts(t, v) /\ Marked(v, S)
  <2>1. HaltedOf(v) \subseteq HaltedOf(t)
    BY <1>2 DEF HaltedOf
  <2>2. Marked(v, S)
    BY <1>2, <1>3 DEF Marked, Whole
  <2> QED
    BY <1>2, <2>1, <2>2 DEF HaltsEval, NoneHalts, Whole
<1>7. Strict => Covered(v)
  <2>1. \A s : Bearers(v, s) = Bearers(t, s)
    BY <1>2 DEF Bearers
  <2> QED
    BY <1>2, <2>1 DEF Covered, Count, Free
<1>8. v.state[p] \in LiveStates
  BY <1>1, <1>2 DEF LiveStates
<1>9. Switches(v, u) /\ Plainly(v, u) /\ u.current = p
  BY <1>1, <1>8, SwitchToSwitches DEF u
<1>10. /\ u.condemned = v.condemned /\ u.abandoned = v.abandoned
       /\ u.deadlocked = v.deadlocked /\ u.frame = v.frame
       /\ u.aborting = v.aborting
  BY <1>9 DEF Switches, Plainly
<1>11. Whole(u, S) /\ Runs(v, u, {}) /\ NoneHalts(v, u)
  <2>1. Poised(v, u.current, S)
    BY <1>4, <1>5, <1>6, <1>7, <1>9 DEF Poised
  <2>2. ~ MaySuspend /\ v.signaledBy[u.current] # Nil => (Strict => ~ Unwinds(u))
    BY <1>2, <1>9, <1>10 DEF Unwinds
  <2> QED
    BY <1>9, <2>1, <2>2, PlainlyWhole
<1>12. Runs(t, v, {})
  BY <1>1, <1>2 DEF Runs, Alive, LiveStates
<1>13. Runs(t, u, {})
  BY <1>11, <1>12, RunsThrough
<1>14. Calmly(t, u)
  <2>1. "op" \notin Queues
    BY Kinds
  <2> QED
    BY <1>1, <1>2, <1>10, <2>1 DEF Calmly, Disturbed
<1>15. \A o \in Proc : t.signaledBy[o] # Nil /\ u.signaledBy[o] = Nil => o = p
  BY <1>2, <1>9 DEF Switches
<1> QED
  BY <1>6, <1>9, <1>10, <1>11, <1>13, <1>14, <1>15 DEF NoneHalts, u
\* What the process that runs claims comes on top.
LEMMA CoveredClaimed ==
  ASSUME NEW t, Typed(t), Covered(t)
  PROVE  Claimed(t)
<1>1. ASSUME NEW q \in Queues
      PROVE  t.contents[q] <= Count(t, ReadSynch[q]) + Own(t, q)
  <2>1. Own(t, q) \in {0, 1}
    BY DEF Own
  <2>2. t.contents[q] <= Count(t, ReadSynch[q]) /\ t.contents[q] \in Nat
    BY DEF Covered, Typed
  <2>3. t.excess[ReadSynch[q]] \in Nat /\ Cardinality(Bearers(t, ReadSynch[q])) \in Nat
    BY Kinds, BearersFinite, ExcessAssumption DEF Typed
  <2> QED
    BY <2>1, <2>2, <2>3 DEF Count
<1> QED
  BY <1>1 DEF Claimed

\* A process not started yet, or suspended, enters the ready queue or begins as
\* an evaluation; one the queue did not take is gone.
LEMMA BornWhole ==
  ASSUME NEW t, NEW u, NEW S, Sound(t), Whole(t, S), NEW p \in Proc, NEW x,
         t.state[p] \in {"None", "Suspended"},
         u.state = [t.state EXCEPT ![p] = x],
         x \in {"Ready", "Suspended", "Gone"},
         t.state[p] = "Suspended" => x = "Ready",
         u.waitingOn = t.waitingOn, u.frame = t.frame,
         u.signaledBy = t.signaledBy, u.current = t.current,
         u.abandoned = t.abandoned, u.condemned = t.condemned,
         u.deadlocked = t.deadlocked, t.evals \subseteq u.evals,
         u.marked = t.marked, u.heapMark => t.heapMark,
         u.excess = t.excess, u.contents = t.contents
  PROVE  /\ Whole(u, S) /\ Delivers(t, u) /\ NoneHalts(t, u)
         /\ t.state[p] = "Suspended" => Runs(t, u, {})
         /\ x = "Gone" => Runs(t, u, {})
         /\ p # t.current
<1>1. /\ \A o \in Proc : u.state[o] = IF o = p THEN x ELSE t.state[o]
      /\ p # t.current
  BY DEF Sound, Core, Typed, OneRuns
<1>2. Settles(u, u.current)
  <2>1. ASSUME NEW o \in Proc, o # t.current, Extant(u, o)
        PROVE  Extant(t, o)
    BY <1>1, <2>1 DEF Extant
  <2> QED
    BY <2>1 DEF Whole, Settles
<1>3. Signaled(u, Nobody)
  <2>1. ASSUME NEW o \in Proc, u.signaledBy[o] # Nil
        PROVE  \/ u.state[o] = "Ready"
               \/ MaySuspend /\ u.state[o] = "Suspended"
    BY <1>1, <2>1, Names DEF Whole, Signaled
  <2>2. \A o \in Proc, s \in Semaphores : Waits(u, o, s) => Waits(t, o, s)
    BY <1>1 DEF Waits
  <2> QED
    BY <2>1, <2>2 DEF Whole, Signaled
<1>4. NoneHalts(t, u) /\ HaltsEval(u)
  BY <1>1 DEF NoneHalts, HaltedOf, HaltsEval, Whole
<1>5. Marked(u, S)
  BY DEF Marked, Whole
<1>6. ASSUME Strict PROVE Claimed(u)
  <2>1. \A s : Bearers(u, s) = Bearers(t, s)
    BY DEF Bearers
  <2>2. \A q : Own(u, q) = Own(t, q)
    BY DEF Own, Unwinds
  <2> QED
    BY <1>6, <2>1, <2>2, ClaimedDepends DEF Whole
<1>7. Delivers(t, u)
  BY DEF Delivers
<1>8. t.state[p] = "Suspended" => Runs(t, u, {})
  BY <1>1 DEF Runs, Alive, LiveStates
<1>9. x = "Gone" => Runs(t, u, {})
  BY <1>1 DEF Runs, Alive, LiveStates
<1> QED
  BY <1>1, <1>2, <1>3, <1>4, <1>5, <1>6, <1>7, <1>8, <1>9 DEF Whole

\* The running process goes on with its code.
ToCode(t, u) ==
  /\ u.state = t.state /\ u.waitingOn = t.waitingOn /\ u.current = t.current
  /\ u.signaledBy = t.signaledBy /\ u.abandoned = t.abandoned
  /\ u.evals = t.evals /\ u.marked = t.marked
  /\ u.heapMark => t.heapMark
  /\ u.frame = [t.frame EXCEPT ![t.current] = "code"]
  /\ u.condemned = {} /\ u.deadlocked = {}

LEMMA ToCodeWhole ==
  ASSUME NEW t, NEW u, NEW S, Sound(t), Whole(t, S), ToCode(t, u),
         Typed(u), Strict => Covered(u)
  PROVE  Whole(u, S) /\ Runs(t, u, {}) /\ NoneHalts(t, u) /\ Delivers(t, u)
<1>1. /\ \A o \in Proc : u.frame[o] = IF o = t.current THEN "code" ELSE t.frame[o]
      /\ t.current \in Proc /\ t.state[t.current] = "Running"
      /\ t.signaledBy[t.current] = Nil
  BY RunnerBearsNone DEF Whole, Sound, Core, Typed, OneRuns, ToCode
<1>2. Settles(u, u.current)
  BY <1>1, Names DEF Whole, Settles, Extant, ToCode
<1>3. Signaled(u, Nobody)
  <2>1. \A o \in Proc : u.signaledBy[o] # Nil => o # t.current
    BY <1>1 DEF ToCode
  <2>2. \A o \in Proc, s \in Semaphores :
          Waits(u, o, s) => Waits(t, o, s) /\ o # t.current
    BY <1>1 DEF Waits, ToCode
  <2> QED
    BY <1>1, <2>1, <2>2 DEF Whole, Signaled, ToCode
<1>4. NoneHalts(t, u) /\ HaltsEval(u)
  BY DEF NoneHalts, HaltedOf, HaltsEval, Whole, ToCode
<1>5. Marked(u, S)
  BY DEF Marked, Whole, ToCode
<1>6. Strict => Claimed(u)
  BY CoveredClaimed
<1>7. Runs(t, u, {})
  BY <1>1 DEF Runs, Alive, ToCode
<1>8. Delivers(t, u)
  BY DEF Delivers, ToCode
<1> QED
  BY <1>2, <1>3, <1>4, <1>5, <1>6, <1>7, <1>8 DEF Whole
\* The stale signals of an empty SharedQueue claim nothing.
LEMMA EmptiedWhole ==
  ASSUME NEW t, NEW S, Sound(t), Whole(t, S), ~ Unwinds(t), NEW q \in Queues,
         \/ t.frame[t.current] = q /\ t.contents[q] = 0
         \/ /\ t.frame[t.current] = "code"
            /\ t.excess[ReadSynch[q]] = 0 \/ t.contents[q] = 0
  PROVE  LET u == Emptied(t, q) IN Whole(u, S) /\ Free(u) /\ Quiet(t, u)
<1> DEFINE u == Emptied(t, q)
           s == ReadSynch[q]
<1>1. /\ s \in Semaphores /\ Typed(t)
      /\ t.current \in Proc
  BY Kinds DEF Sound, Core, Typed
<1>2. /\ Quiet(t, u) /\ u.contents = t.contents
      /\ u.excess = [t.excess EXCEPT ![s] = 0]
      /\ u.heapMark <=> t.heapMark
  BY <1>1 DEF Typed, Fields, Quiet, Emptied
<1> HIDE DEF u
<1>3. \A z : Bearers(u, z) = Bearers(t, z)
  BY <1>2, QuietRuns
<1>4. ASSUME Strict PROVE Covered(u)
  <2>1. ASSUME NEW r \in Queues
        PROVE  u.contents[r] <= Count(u, ReadSynch[r])
    <3>1. /\ t.contents[r] \in Nat /\ t.excess[ReadSynch[r]] \in Nat
          /\ Cardinality(Bearers(t, ReadSynch[r])) \in Nat
      BY <1>1, Kinds, BearersFinite, ExcessAssumption DEF Typed
    <3>2. t.contents[r] <= Count(t, ReadSynch[r]) + Own(t, r)
      BY <1>4 DEF Whole, Claimed
    <3>3. Count(u, ReadSynch[r]) = u.excess[ReadSynch[r]]
                                   + Cardinality(Bearers(t, ReadSynch[r]))
      BY <1>3 DEF Count
    <3>4. u.contents[r] = t.contents[r]
      BY <1>2
    <3>5. u.excess[ReadSynch[r]] = IF r = q THEN 0 ELSE t.excess[ReadSynch[r]]
      BY <1>1, <1>2, Kinds DEF Typed
    <3>6. CASE t.contents[r] = 0
      BY <3>1, <3>3, <3>4, <3>5, <3>6
    <3>7. CASE t.contents[r] # 0
      <4>1. t.frame[t.current] # r
        BY <3>7, Kinds
      <4>2. Own(t, r) = 0
        BY <4>1 DEF Own
      <4>3. u.excess[ReadSynch[r]] = t.excess[ReadSynch[r]]
        BY <3>5, <3>7, <4>1
      <4> QED
        BY <3>1, <3>2, <3>3, <3>4, <4>2, <4>3 DEF Count
    <3> QED
      BY <3>6, <3>7
  <2> QED
    BY <2>1 DEF Covered
<1>5. Typed(u)
  <2>1. Sound(u)
    BY <1>1, ExcessKeeps, ExcessAssumption DEF u, Emptied
  <2> QED
    BY <2>1 DEF Sound, Core
<1>6. Strict => Claimed(u)
  BY <1>4, <1>5, CoveredClaimed
<1>7. Whole(u, S)
  <2>1. S \subseteq S
    OBVIOUS
  <2> QED
    BY <1>2, <1>6, <2>1, QuietWhole
<1>8. Free(u)
  BY <1>2, <1>4 DEF Free, Quiet, Whole, Settles, Unwinds
<1> QED
  BY <1>2, <1>7, <1>8 DEF u

\* The operation the running process was in returns.
LEMMA ContinuesWhole ==
  ASSUME NEW t, NEW S, Sound(t), Places(t), Whole(t, S),
         t.frame[t.current] \notin {"new", "code"}
  PROVE  LET u == Continues(t) IN
         /\ Whole(u, S) /\ Runs(t, u, {}) /\ NoneHalts(t, u) /\ Delivers(t, u)
         /\ \/ u.current \notin u.abandoned
            \/ t.current \in t.abandoned
         /\ \/ host.at = "eval" \/ Calmly(t, u)
            \/ t.current = Base /\ t.frame[Base] \in Queues
<1> DEFINE c == t.current
           q == t.frame[c]
           u == Continues(t)
<1>1. /\ c \in Proc /\ Typed(t) /\ t.frame[c] = q
      /\ Base \in Proc /\ "code" \notin Queues
  BY Kinds, Names DEF Sound, Core, Typed
<1>2. Typed(u)
  BY ContinuesRuns DEF Sound, Core
<1>3. CASE Unwinds(t)
  <2>1. u = Forgiven(Unwound(t))
    BY <1>3 DEF Continues
  <2>2. ToCode(t, u)
    <3>1. CASE t.current \in t.condemned
      <4>1. t.condemned \ {c} = {} /\ t.deadlocked = {}
        BY <3>1 DEF Whole, Settles
      <4> QED
        BY <1>1, <2>1, <3>1, <4>1
        DEF Typed, Fields, ToCode, Forgiven, Unwound
    <3>2. CASE t.current \notin t.condemned
      <4>1. t.deadlocked \ {c} = {} /\ t.condemned = {}
        BY <3>2 DEF Whole, Settles
      <4> QED
        BY <1>1, <2>1, <3>2, <4>1
        DEF Typed, Fields, ToCode, Forgiven, Unwound
    <3> QED
      BY <3>1, <3>2
  <2>3. /\ u.contents = t.contents /\ u.excess = t.excess
        /\ u.aborting = IF c = Base /\ host.at # "eval"
                          THEN (t.aborting \cup {c}) \ {Base}
                          ELSE t.aborting \cup {c}
    BY <1>1, <2>1 DEF Typed, Fields, Forgiven, Unwound
  <2>4. ASSUME Strict PROVE Covered(u)
    <3>1. \A r : Own(t, r) = 0
      BY <1>3 DEF Own
    <3>2. \A z : Bearers(u, z) = Bearers(t, z)
      BY <2>2 DEF Bearers, ToCode
    <3>3. \A r \in Queues : t.contents[r] <= Count(t, ReadSynch[r]) + Own(t, r)
      BY <2>4 DEF Whole, Claimed
    <3>4. ASSUME NEW r \in Queues
          PROVE  u.contents[r] <= Count(u, ReadSynch[r])
      <4>1. /\ t.contents[r] \in Nat /\ t.excess[ReadSynch[r]] \in Nat
            /\ Cardinality(Bearers(t, ReadSynch[r])) \in Nat
        BY <1>1, Kinds, BearersFinite, ExcessAssumption DEF Typed
      <4>2. Own(t, r) = 0 /\ t.contents[r] <= Count(t, ReadSynch[r]) + Own(t, r)
        BY <3>1, <3>3
      <4> QED
        BY <2>3, <3>2, <4>1, <4>2 DEF Count
    <3> QED
      BY <3>4 DEF Covered
  <2>5. Whole(u, S) /\ Runs(t, u, {}) /\ NoneHalts(t, u) /\ Delivers(t, u)
    BY <1>2, <2>2, <2>4, ToCodeWhole
  <2>6. u.current = c /\ u.abandoned = t.abandoned
    BY <2>2 DEF ToCode
  <2>7. host.at = "eval" \/ Calmly(t, u)
    <3>1. u.frame = [t.frame EXCEPT ![c] = "code"]
      BY <2>2 DEF ToCode
    <3>2. CASE c = Base
      BY <1>1, <2>3, <3>1, <3>2 DEF Calmly, Disturbed, Typed
    <3>3. CASE c # Base
      BY <1>1, <2>3, <3>1, <3>3 DEF Calmly, Disturbed, Typed
    <3> QED
      BY <3>2, <3>3
  <2> QED
    BY <2>5, <2>6, <2>7
<1>4. CASE ~ Unwinds(t) /\ q \in Queues /\ ~ (t.contents[q] > 0)
  <2> DEFINE w == Emptied(t, q)
             s == ReadSynch[q]
  <2>1. t.contents[q] = 0
    BY <1>1, <1>4 DEF Typed
  <2>2. Whole(w, S) /\ Free(w) /\ Quiet(t, w)
    BY <1>1, <1>4, <2>1, EmptiedWhole
  <2>3. Sound(w) /\ Places(w)
    BY <1>4, EmptiedPlaces
  <2>4. u = WaitsOn(w, s, q) /\ w.aborting = t.aborting
    BY <1>1, <1>4 DEF Continues, WaitsForElement, Emptied, Typed, Fields
  <2>5. s \in Semaphores /\ q \in Frames /\ Fits(q, s)
    BY <1>4, Kinds DEF Fits
  <2> HIDE DEF u, w, s, q
  <2>6. Moves(w, WaitsOn(w, s, q), S)
    BY <2>2, <2>3, <2>5, WaitsOnMoves
  <2>7. Moves(w, u, S)
    BY <2>4, <2>6
  <2>8. w.current = c /\ w.signaledBy = t.signaledBy /\ w.frame = t.frame
    BY <2>2 DEF Quiet
  <2>9. Runs(t, u, {}) /\ NoneHalts(t, u) /\ Delivers(t, u)
    <3>1. Runs(t, w, {}) /\ NoneHalts(t, w)
      BY <2>2, QuietRuns
    <3>2. Runs(w, u, {}) /\ NoneHalts(w, u) /\ Delivers(w, u)
      BY <2>7 DEF Moves
    <3>3. Runs(t, u, {})
      BY <3>1, <3>2, RunsThrough
    <3> QED
      BY <2>8, <3>1, <3>2, <3>3 DEF NoneHalts, Delivers
  <2>10. c # Base => Calmly(t, u)
    BY <2>4, <2>7, <2>8 DEF Moves, Calmly, Disturbed
  <2> QED
    BY <1>1, <1>4, <2>7, <2>9, <2>10 DEF Moves, q, u
<1>5. CASE ~ Unwinds(t) /\ ~ (q \in Queues /\ ~ (t.contents[q] > 0))
  <2> DEFINE k == IF q \in Queues THEN [t.contents EXCEPT ![q] = @ - 1] ELSE t.contents
  <2>1. u = IF q \in Queues THEN [Takes(t, q) EXCEPT !.frame[c] = "code"]
                            ELSE [t EXCEPT !.frame[c] = "code"]
    BY <1>5 DEF Continues
  <2>2. t.condemned = {} /\ t.deadlocked = {} /\ c \notin t.abandoned
    BY <1>5 DEF Whole, Settles, Unwinds
  <2>3. ToCode(t, u)
    BY <1>1, <2>1, <2>2 DEF Typed, Fields, ToCode, Takes
  <2>4. u.contents = k /\ u.excess = t.excess /\ u.aborting = t.aborting
    BY <1>1, <2>1 DEF Typed, Fields, Takes
  <2> HIDE DEF u
  <2>5. ASSUME Strict PROVE Covered(u)
    <3>1. \A z : Bearers(u, z) = Bearers(t, z)
      BY <2>3 DEF Bearers, ToCode
    <3>2. ASSUME NEW r \in Queues
          PROVE  u.contents[r] <= Count(u, ReadSynch[r])
      <4>1. /\ t.contents[r] \in Nat /\ t.excess[ReadSynch[r]] \in Nat
            /\ Cardinality(Bearers(t, ReadSynch[r])) \in Nat
        BY <1>1, Kinds, BearersFinite, ExcessAssumption DEF Typed
      <4>2. t.contents[r] <= Count(t, ReadSynch[r]) + Own(t, r)
        BY <2>5 DEF Whole, Claimed
      <4>3. Count(u, ReadSynch[r]) = Count(t, ReadSynch[r])
        BY <2>4, <3>1 DEF Count
      <4>4. Count(t, ReadSynch[r]) \in Nat
        BY <4>1 DEF Count
      <4>5. CASE r = q
        <5>1. Own(t, r) <= 1 /\ Own(t, r) \in Nat
          BY DEF Own
        <5>2. u.contents[r] = t.contents[r] - 1
          BY <1>1, <2>4, <4>5 DEF Typed
        <5> HIDE DEF q
        <5> QED
          BY <4>1, <4>2, <4>3, <4>4, <5>1, <5>2
      <4>6. CASE r # q
        <5>1. Own(t, r) = 0
          BY <4>6 DEF Own
        <5>2. u.contents[r] = t.contents[r]
          BY <1>1, <2>4, <4>6 DEF Typed
        <5> QED
          BY <4>1, <4>2, <4>3, <4>4, <5>1, <5>2
      <4> QED
        BY <4>5, <4>6
    <3> QED
      BY <3>2 DEF Covered
  <2>6. Whole(u, S) /\ Runs(t, u, {}) /\ NoneHalts(t, u) /\ Delivers(t, u)
    BY <1>2, <2>3, <2>5, ToCodeWhole
  <2>7. u.current \notin u.abandoned
    BY <2>2, <2>3 DEF ToCode
  <2>8. Calmly(t, u)
    BY <1>1, <2>3, <2>4 DEF ToCode, Calmly, Disturbed, Typed
  <2> QED
    BY <2>6, <2>7, <2>8 DEF u
<1> QED
  BY <1>3, <1>4, <1>5
\* The part of a terminate after the signal went back, by another process.
LEMMA TerminatedWhole ==
  ASSUME NEW t, NEW S, Sound(t), Whole(t, S), Free(t),
         NEW p \in Fibers, p # t.current, Alive(t, p), t.signaledBy[p] = Nil
  PROVE  LET u == Terminated(t, p) IN
         /\ Whole(u, S) /\ Runs(t, u, IF t.frame[p] = "new" THEN {p} ELSE {})
         /\ NoneHalts(t, u) /\ Calmly(t, u) /\ u.current \notin u.abandoned
         /\ \A o \in Proc : u.signaledBy[o] = t.signaledBy[o]
         /\ u.excess = t.excess
<1> DEFINE c   == t.current
           out == LeaveLists(t, p)
           u   == Terminated(t, p)
<1>1. /\ c \in Proc /\ p \in Proc /\ p # Base /\ Typed(t)
      /\ t.state[p] \in LiveStates /\ Extant(t, p)
  BY Names DEF Sound, Core, Typed, Alive, LiveStates, Extant
<1>2. /\ Sound(out) /\ out.current = c /\ out.state[p] = "Suspended"
      /\ out.frame = t.frame
  BY <1>1, LeaveListsSound
<1>3. /\ SameFlags(t, out) /\ out.aborting = t.aborting
      /\ out.signaledBy = t.signaledBy
      /\ out.state = [t.state EXCEPT ![p] = "Suspended"]
      /\ \A o \in Proc : o # p => out.waitingOn[o] = t.waitingOn[o]
  BY <1>1, LeaveListsRest
<1> HIDE DEF out, u
<1>4. CASE t.frame[p] = "new"
  <2> DEFINE m == [out EXCEPT !.state[p] = "Dead", !.terminated = @ \cup {p}]
             x == "Dead"
  <2>1. u = ReapDead(m)
    BY <1>4 DEF Terminated, out, u
  <2>2. Typed(m)
    BY <1>1, <1>2, SMTT(30) DEF Sound, Core, Typed, States, Fields
  <2>3. /\ m.ready = out.ready /\ m.quiescent = out.quiescent
        /\ m.state = [out.state EXCEPT ![p] = "Dead"]
        /\ m.awaiting = out.awaiting /\ m.waitingOn = out.waitingOn
        /\ m.current = out.current
    BY <1>2 DEF Sound, Core, Typed, Fields
  <2>4. /\ m.frame = out.frame /\ m.signaledBy = out.signaledBy
        /\ m.condemned = out.condemned /\ m.deadlocked = out.deadlocked
        /\ m.abandoned = out.abandoned /\ m.evals = out.evals
        /\ m.marked = out.marked /\ m.excess = out.excess
        /\ m.contents = out.contents /\ m.aborting = out.aborting
        /\ m.heapMark <=> out.heapMark
    BY <1>2 DEF Sound, Core, Typed, Fields
  <2> HIDE DEF m, x
  <2>5. Sound(m)
    BY <1>1, <1>2, <2>2, <2>3, OtherMoves
  <2>6. m.state = [t.state EXCEPT ![p] = x] /\ x = "Dead"
    BY <1>1, <1>3, <2>3 DEF Typed, x
  <2>7. /\ m.frame = t.frame /\ m.signaledBy = t.signaledBy
        /\ m.condemned = t.condemned /\ m.deadlocked = t.deadlocked
        /\ m.abandoned = t.abandoned /\ m.evals = t.evals
        /\ m.marked = t.marked /\ m.excess = t.excess /\ m.contents = t.contents
        /\ m.current = t.current /\ m.aborting = t.aborting
        /\ m.heapMark => t.heapMark
        /\ \A o \in Proc : o # p => m.waitingOn[o] = t.waitingOn[o]
    BY <1>2, <1>3, <2>3, <2>4 DEF SameFlags
  <2>a. Elsewhere(t, m, p, x)
    BY <1>1, <2>6, <2>7 DEF Elsewhere
  <2>8. Whole(m, S) /\ NoneHalts(t, m) /\ Runs(t, m, {p})
    BY <1>1, <2>a, OtherWhole
  <2>9. /\ Whole(u, S) /\ Runs(m, u, {}) /\ NoneHalts(m, u) /\ Calmly(m, u)
        /\ u.current = m.current /\ u.signaledBy = m.signaledBy
        /\ u.excess = m.excess /\ u.abandoned \subseteq m.abandoned
    BY <2>1, <2>5, <2>8, ReapDeadRest
  <2>10. Runs(t, u, {p})
    BY <2>8, <2>9, RunsThrough
  <2>11. Calmly(t, u)
    BY <2>7, <2>9 DEF Calmly, Disturbed
  <2>12. u.current \notin u.abandoned
    BY <2>7, <2>9 DEF Free
  <2> QED
    BY <1>4, <2>7, <2>8, <2>9, <2>10, <2>11, <2>12 DEF NoneHalts, u
<1>5. CASE t.frame[p] # "new"
  <2> DEFINE v == [out EXCEPT !.condemned   = @ \cup {p},
                              !.resumeTo[p] = t.current,
                              !.state[t.current] = "Waiting",
                              !.awaiting    = @ \cup {t.current},
                              !.frame[t.current] = "op"]
  <2>1. u = SwitchTo(v, p)
    BY <1>5 DEF Terminated, out, u
  <2>2. Typed(v)
    BY <1>1, <1>2, SMTT(30) DEF Sound, Core, Typed, States, Frames, Fields
  <2>3. /\ v.state = [out.state EXCEPT ![c] = "Waiting"]
        /\ v.waitingOn = out.waitingOn
        /\ v.condemned = out.condemned \cup {p}
        /\ v.frame = [out.frame EXCEPT ![c] = "op"]
        /\ v.signaledBy = out.signaledBy /\ v.current = out.current
    BY <1>2 DEF Sound, Core, Typed, Fields
  <2>4. /\ v.deadlocked = out.deadlocked
        /\ v.abandoned = out.abandoned /\ v.evals = out.evals
        /\ v.marked = out.marked /\ v.excess = out.excess
        /\ v.contents = out.contents /\ v.aborting = out.aborting
        /\ v.heapMark <=> out.heapMark
    BY <1>2 DEF Sound, Core, Typed, Fields
  <2> HIDE DEF v
  <2>5. v.condemned = {p} /\ v.deadlocked = {} /\ v.abandoned = t.abandoned
    BY <1>3, <2>3, <2>4 DEF SameFlags, Free
  <2>6. HandsTo(t, v, p)
    <3>1. /\ v.current = t.current /\ v.signaledBy = t.signaledBy
          /\ v.aborting = t.aborting /\ v.evals = t.evals /\ v.marked = t.marked
          /\ v.heapMark <=> t.heapMark
          /\ v.excess = t.excess /\ v.contents = t.contents
          /\ v.frame = [t.frame EXCEPT ![t.current] = "op"]
      BY <1>2, <1>3, <2>3, <2>4 DEF SameFlags
    <3>2. \A o \in Proc :
            /\ v.state[o] = IF o = p THEN "Suspended"
                            ELSE IF o = t.current THEN "Waiting" ELSE t.state[o]
            /\ o # p => v.waitingOn[o] = t.waitingOn[o]
      BY <1>1, <1>3, <2>3 DEF Typed
    <3> QED
      BY <1>5, <2>5, <3>1, <3>2 DEF HandsTo
  <2>7. /\ Whole(u, S) /\ Runs(t, u, {}) /\ NoneHalts(t, u) /\ Calmly(t, u)
        /\ u.current = p /\ u.abandoned = v.abandoned
    BY <1>1, <2>1, <2>2, <2>6, HandsWhole
  <2>8. p \notin t.abandoned
    BY <1>1 DEF Whole, Settles
  <2>9. u.excess = t.excess /\ \A o \in Proc : u.signaledBy[o] = t.signaledBy[o]
    <3>1. v.state[p] \in LiveStates
      BY <1>1, <2>6 DEF HandsTo, LiveStates
    <3>2. Switches(v, u)
      BY <1>1, <2>1, <2>2, <3>1, SwitchToSwitches
    <3> QED
      BY <2>6, <2>7, <3>2 DEF Switches, HandsTo
  <2> QED
    BY <1>5, <2>5, <2>7, <2>8, <2>9 DEF u
<1> QED
  BY <1>4, <1>5

\* The base switches to p, which it took out of its lists, or made, and which
\* may have an unwinding to run.
Ousted(t, w, p) ==
  /\ w.current = t.current /\ w.signaledBy = t.signaledBy
  /\ w.aborting = t.aborting /\ w.evals = t.evals /\ w.marked = t.marked
  /\ w.heapMark <=> t.heapMark
  /\ w.excess = t.excess /\ w.contents = t.contents /\ w.frame = t.frame
  /\ \A o \in Proc :
       /\ w.state[o] = IF o = p THEN "Suspended" ELSE t.state[o]
       /\ o # p => w.waitingOn[o] = t.waitingOn[o]
  /\ w.abandoned \subseteq t.abandoned \cup {p}
  /\ w.condemned = t.condemned /\ w.deadlocked \subseteq t.deadlocked \cup {p}
  /\ w.deadlocked # {} => t.frame[p] # "new"

LEMMA RunAwaitedWhole ==
  ASSUME NEW t, NEW w, NEW S, Sound(t), Whole(t, S), Free(t), t.current = Base,
         Typed(w), NEW p \in Fibers, Alive(t, p), Ousted(t, w, p),
         Strict /\ t.signaledBy[p] # Nil => p \notin w.abandoned \cup w.deadlocked
  PROVE  LET u == RunAwaited(w, p) IN
         /\ Whole(u, S) /\ Runs(t, u, {}) /\ NoneHalts(t, u) /\ Calmly(t, u)
         /\ \A o \in Proc : t.signaledBy[o] # Nil /\ u.signaledBy[o] = Nil => o = p
         /\ u.current = p /\ u.abandoned = w.abandoned
         /\ u.evals = w.evals
<1> DEFINE v == [w EXCEPT !.resumeTo[p] = Base,
                          !.state[Base] = "Waiting",
                          !.awaiting    = @ \cup {Base},
                          !.frame[Base] = "op"]
           u == RunAwaited(w, p)
<1>1. Base \in Proc /\ p \in Proc /\ p # Base /\ p # t.current
  BY Names
<1>2. Typed(v)
  BY <1>1, SMTT(30) DEF Typed, States, Frames, Fields
<1>3. u = SwitchTo(v, p)
  BY DEF RunAwaited
<1>4. /\ v.state = [w.state EXCEPT ![Base] = "Waiting"]
      /\ v.waitingOn = w.waitingOn /\ v.condemned = w.condemned
      /\ v.frame = [w.frame EXCEPT ![Base] = "op"]
      /\ v.signaledBy = w.signaledBy /\ v.current = w.current
      /\ v.deadlocked = w.deadlocked /\ v.abandoned = w.abandoned
      /\ v.evals = w.evals /\ v.marked = w.marked /\ v.excess = w.excess
      /\ v.contents = w.contents /\ v.aborting = w.aborting
      /\ v.heapMark <=> w.heapMark
  BY <1>1 DEF Typed, Fields
<1> HIDE DEF v, u
<1>5. HandsTo(t, v, p)
  <2>1. \A o \in Proc :
          /\ v.state[o] = IF o = p THEN "Suspended"
                          ELSE IF o = t.current THEN "Waiting" ELSE t.state[o]
          /\ o # p => v.waitingOn[o] = t.waitingOn[o]
    BY <1>1, <1>4 DEF Ousted, Typed
  <2>2. t.condemned = {} /\ t.deadlocked = {}
    BY DEF Free
  <2> QED
    BY <1>4, <2>1, <2>2 DEF HandsTo, Ousted
<1>6. t.state[p] \in LiveStates
  BY DEF Alive
<1>7. Strict /\ t.signaledBy[p] # Nil =>
        p \notin v.abandoned \cup v.condemned \cup v.deadlocked
  BY <1>4 DEF Free, Ousted
<1>8. /\ Whole(u, S) /\ Runs(t, u, {}) /\ NoneHalts(t, u) /\ Calmly(t, u)
      /\ \A o \in Proc : t.signaledBy[o] # Nil /\ u.signaledBy[o] = Nil => o = p
      /\ u.current = p /\ u.abandoned = v.abandoned
  BY <1>1, <1>2, <1>3, <1>5, <1>6, <1>7, HandsWhole
<1>9. u.evals = v.evals
  BY <1>3 DEF SwitchTo, SwitchMarks, Typed, Fields
<1> QED
  BY <1>4, <1>8, <1>9 DEF u
\* A signal given back counts as much as it did with the process it took out of
\* its wait.
LEMMA RelievedWhole ==
  ASSUME NEW S, Sound(vm), Whole(vm, S), Free(vm), NEW p \in Fibers, p # me,
         Alive(vm, p), GivesBack(p) => ~ Overflows(vm, vm.signaledBy[p])
  PROVE  LET u == Relieved(p) IN
         /\ Whole(u, S) /\ Free(u) /\ Runs(vm, u, {}) /\ NoneHalts(vm, u)
         /\ Alive(u, p) /\ u.signaledBy[p] = Nil
         /\ u.current = me /\ u.frame = vm.frame /\ u.aborting = vm.aborting
         /\ u.abandoned = vm.abandoned
         /\ \A o \in Proc : o # p /\ vm.signaledBy[o] # Nil => u.signaledBy[o] # Nil
         /\ GivesBack(p) =>
              Count(u, vm.signaledBy[p]) = Count(vm, vm.signaledBy[p])
<1> DEFINE s == vm.signaledBy[p]
           v == Signal(vm, s)
           u == Relieved(p)
<1>1. p \in Proc /\ Typed(vm) /\ me = vm.current /\ me \in Proc
  BY Names DEF Sound, Core, Typed, me
<1>2. CASE ~ GivesBack(p)
  <2>1. u = vm
    BY <1>2 DEF Relieved
  <2>2. Runs(vm, vm, {}) /\ NoneHalts(vm, vm)
    BY DEF Runs, NoneHalts
  <2> QED
    BY <1>1, <1>2, <2>1, <2>2 DEF GivesBack
<1>3. CASE GivesBack(p)
  <2>1. s \in Semaphores /\ s # Nil /\ ~ Overflows(vm, s)
    BY <1>1, <1>3 DEF GivesBack, Typed
  <2>2. u = [v EXCEPT !.signaledBy[p] = Nil]
    BY <1>3 DEF Relieved
  <2>3. Sound(v)
    BY <2>1, SignalSound
  <2>4. Settles(vm, vm.current) /\ Signaled(vm, Nobody) /\ HaltsEval(vm) /\ Marked(vm, S)
    BY DEF Whole
  <2>5. /\ Settles(v, v.current) /\ Signaled(v, Nobody) /\ HaltsEval(v)
        /\ Marked(v, S) /\ v.current = vm.current /\ v.frame = vm.frame
        /\ v.condemned = vm.condemned /\ v.abandoned = vm.abandoned
        /\ v.deadlocked = vm.deadlocked /\ v.contents = vm.contents
        /\ v.aborting = vm.aborting /\ v.evals = vm.evals
        /\ Runs(vm, v, {}) /\ NoneHalts(vm, v)
        /\ \A o \in Proc : vm.signaledBy[o] # Nil =>
             v.signaledBy[o] = vm.signaledBy[o] /\ v.state[o] = vm.state[o]
        /\ \A z \in Semaphores :
             Count(v, z) = IF z = s THEN Count(vm, z) + 1 ELSE Count(vm, z)
    BY <2>1, <2>4, SignalRest
  <2> HIDE DEF v, u
  <2>6. /\ u.state = v.state /\ u.waitingOn = v.waitingOn /\ u.frame = v.frame
        /\ u.current = v.current /\ u.condemned = v.condemned
        /\ u.abandoned = v.abandoned /\ u.deadlocked = v.deadlocked
        /\ u.evals = v.evals /\ u.marked = v.marked
        /\ u.aborting = v.aborting
        /\ u.excess = v.excess /\ u.contents = v.contents
        /\ u.heapMark <=> v.heapMark
        /\ \A o \in Proc : u.signaledBy[o] = IF o = p THEN Nil ELSE v.signaledBy[o]
    BY <2>2, <2>3 DEF Sound, Core, Typed, Fields
  <2>7. Typed(u)
    BY <1>1, <2>2, <2>3, SMTT(30) DEF Sound, Core, Typed, Fields
  <2>8. v.signaledBy[p] = s
    BY <1>1, <2>1, <2>5
  <2>9. ASSUME NEW z \in Semaphores PROVE Count(u, z) = Count(vm, z)
    <3>1. z # Nil
      BY Names
    <3>2. Cardinality(Bearers(u, z)) = IF v.signaledBy[p] = z
                                         THEN Cardinality(Bearers(v, z)) - 1
                                         ELSE Cardinality(Bearers(v, z))
      BY <1>1, <2>6, <3>1, BearerLeaves
    <3>3. /\ v.excess[z] \in Nat /\ Cardinality(Bearers(v, z)) \in Nat
          /\ vm.excess[z] \in Nat /\ Cardinality(Bearers(vm, z)) \in Nat
      BY <1>1, <2>3, BearersFinite, ExcessAssumption DEF Sound, Core, Typed
    <3>4. v.excess[z] + Cardinality(Bearers(v, z)) =
            IF z = s THEN Count(vm, z) + 1 ELSE Count(vm, z)
      BY <2>5 DEF Count
    <3>5. Count(vm, z) \in Nat
      BY <3>3 DEF Count
    <3>6. Count(u, z) = v.excess[z] + Cardinality(Bearers(u, z))
      BY <2>6 DEF Count
    <3>7. CASE z = s
      BY <2>8, <3>2, <3>3, <3>4, <3>5, <3>6, <3>7
    <3>8. CASE z # s
      BY <2>8, <3>2, <3>3, <3>4, <3>5, <3>6, <3>8
    <3> QED
      BY <3>7, <3>8
  <2>10. Strict => Covered(u)
    BY <2>5, <2>6, <2>9, Kinds DEF Free, Covered
  <2>11. Whole(u, S)
    <3>1. Settles(u, u.current)
      BY <2>5, <2>6 DEF Settles, Extant
    <3>2. Signaled(u, Nobody)
      <4>1. \A o \in Proc : u.signaledBy[o] # Nil => u.signaledBy[o] = v.signaledBy[o]
        BY <2>6
      <4>2. \A o \in Proc, z \in Semaphores : Waits(u, o, z) <=> Waits(v, o, z)
        BY <2>6 DEF Waits
      <4> QED
        BY <2>5, <2>6, <4>1, <4>2 DEF Signaled
    <3>3. HaltsEval(u) /\ Marked(u, S)
      BY <2>5, <2>6 DEF HaltsEval, HaltedOf, Marked
    <3>4. Strict => Claimed(u)
      BY <2>7, <2>10, CoveredClaimed
    <3> QED
      BY <3>1, <3>2, <3>3, <3>4 DEF Whole
  <2>12. Free(u)
    BY <2>5, <2>6, <2>10 DEF Free
  <2>13. Runs(vm, u, {}) /\ NoneHalts(vm, u)
    BY <2>5, <2>6 DEF Runs, Alive, NoneHalts, HaltedOf
  <2>14. Alive(u, p)
    BY <1>1, <2>1, <2>5, <2>6 DEF Alive
  <2>15. \A o \in Proc : o # p /\ vm.signaledBy[o] # Nil => u.signaledBy[o] # Nil
    BY <2>5, <2>6
  <2>16. u.signaledBy[p] = Nil
    BY <1>1, <2>6
  <2> QED
    BY <1>1, <2>1, <2>5, <2>6, <2>9, <2>11, <2>12, <2>13, <2>14, <2>15, <2>16 DEF u
<1> QED
  BY <1>2, <1>3

-----------------------------------------------------------------------------
\* The invariant.

\* The base waits in awaitEval for an evaluation that lives, or that ended and
\* was answered.
Owes ==
  /\ host.at = "await" <=> awaited # Nobody
  /\ awaited # Nobody =>
       \/ vm.state[awaited] \in {"Dead", "Gone"} /\ evalEnd \in {"Finished", "Failed"}
       \/ /\ Alive(vm, awaited) /\ awaited \in vm.evals
          /\ vm.frame[awaited] = "new" => awaited = me

\* Between two calls of the host only the base runs, and none of its operations
\* or aborts is left over from a call that was not an evaluation.
Calm ==
  /\ host.at \in {"idle", "closed"} => me = Base /\ vm.frame[Base] = "code"
  /\ Disturbed(vm) => host.at = "eval"
  /\ me \in vm.abandoned => host.at = "abandon"
  /\ host.at = "closed" => LiveFibers(vm) = {}
  /\ (host.at \in {"terminate", "abandon"} \/ host.pass > 0 \/ host.entry = "test")
       => MayAbandon

Bounded ==
  /\ Cardinality(LiveFibers(vm)) <= MaxFibers
  /\ Cardinality(HaltedOf(vm)) <= MaxHalted

IAnswers == IPlaces /\ Whole(vm, starved) /\ Owes /\ Calm /\ Bounded

\* The body of SignalKept, where no process can be suspended inside a wait.
Held(t, s) == t.excess[s] + Cardinality({r \in Proc : t.signaledBy[r] = s})

KeepsSignals ==
  \A p \in Proc :
    vm.signaledBy[p] # Nil /\ vm'.signaledBy[p] = Nil =>
      \/ p = vm'.current /\ ~ Unwinds(vm')
      \/ p \in vm'.abandoned
      \/ Held(vm', vm.signaledBy[p]) >= Held(vm, vm.signaledBy[p])

Advances == /\ Whole(vm', starved') /\ Owes' /\ Calm' /\ Bounded'
            /\ ~ MaySuspend => KeepsSignals

LEMMA CountsFinite ==
  ASSUME NEW t, NEW u
  PROVE  /\ IsFiniteSet(LiveFibers(t)) /\ IsFiniteSet(HaltedOf(t))
         /\ LiveFibers(u) \subseteq LiveFibers(t) =>
              Cardinality(LiveFibers(u)) <= Cardinality(LiveFibers(t))
         /\ HaltedOf(u) \subseteq HaltedOf(t) =>
              Cardinality(HaltedOf(u)) <= Cardinality(HaltedOf(t))
         /\ Cardinality(LiveFibers(t)) \in Nat /\ Cardinality(HaltedOf(t)) \in Nat
<1>1. IsFiniteSet(Proc)
  BY FS_Interval, PidAssumption DEF Proc, Base
<1>2. LiveFibers(t) \subseteq Proc /\ HaltedOf(t) \subseteq Proc
  BY DEF LiveFibers, Live, HaltedOf
<1>3. IsFiniteSet(LiveFibers(t)) /\ IsFiniteSet(HaltedOf(t))
  BY <1>1, <1>2, FS_Subset
<1> QED
  BY <1>3, FS_Subset, FS_CardinalityType

\* The limits hold after a step that starts and halts nothing.
LEMMA HaltsBounded ==
  ASSUME IAnswers, NoneHalts(vm, vm')
  PROVE  Cardinality(HaltedOf(vm')) <= MaxHalted
<1>1. Cardinality(HaltedOf(vm')) <= Cardinality(HaltedOf(vm))
  BY CountsFinite DEF NoneHalts
<1>2. /\ Cardinality(HaltedOf(vm')) \in Nat /\ Cardinality(HaltedOf(vm)) \in Nat
      /\ MaxHalted \in Nat /\ Cardinality(HaltedOf(vm)) <= MaxHalted
  BY CountsFinite, LimitAssumption DEF IAnswers, Bounded
<1> QED
  BY <1>1, <1>2

LEMMA BoundsKept ==
  ASSUME IAnswers, NEW X, Runs(vm, vm', X),
         Cardinality(HaltedOf(vm')) <= MaxHalted
  PROVE  Bounded'
<1>1. LiveFibers(vm') \subseteq LiveFibers(vm)
  BY DEF Runs, Alive, LiveFibers, Live
<1>2. Cardinality(LiveFibers(vm')) <= Cardinality(LiveFibers(vm))
  BY <1>1, CountsFinite
<1>3. /\ Cardinality(LiveFibers(vm')) \in Nat /\ Cardinality(LiveFibers(vm)) \in Nat
      /\ MaxFibers \in Nat
  BY CountsFinite, LimitAssumption
<1>4. Cardinality(LiveFibers(vm)) <= MaxFibers
  BY DEF IAnswers, Bounded
<1>5. Cardinality(LiveFibers(vm')) <= MaxFibers
  BY <1>2, <1>3, <1>4
<1>6. LiveFibers(vm)' = LiveFibers(vm') /\ HaltedOf(vm)' = HaltedOf(vm')
  BY DEF LiveFibers, Live, HaltedOf
<1> QED
  BY <1>5, <1>6 DEF Bounded

\* A step after which the base waits for the process it waited for.
LEMMA Advance ==
  ASSUME IAnswers, NEW X, Whole(vm', starved'), Runs(vm, vm', X),
         awaited \notin X, awaited' = awaited, evalEnd' = evalEnd,
         vm.frame[me] # "new" \/ vm'.frame[me] # "new",
         host'.at = "await" <=> host.at = "await",
         Calm', Cardinality(HaltedOf(vm')) <= MaxHalted,
         ~ MaySuspend => KeepsSignals
  PROVE  Advances
<1>1. awaited \in Proc \cup {Nobody} /\ Nobody \notin Proc
  BY Names DEF IAnswers, IPlaces, IInv, TypeOK
<1>2. Owes'
  <2>1. CASE awaited = Nobody
    BY <2>1 DEF Owes, IAnswers
  <2>2. CASE awaited # Nobody /\ vm.state[awaited] \in {"Dead", "Gone"}
    <3>1. evalEnd \in {"Finished", "Failed"}
      BY <2>2 DEF Owes, IAnswers, Alive, LiveStates
    <3>2. vm'.state[awaited] \in {"Dead", "Gone"}
      BY <1>1, <2>2 DEF Runs
    <3> QED
      BY <2>2, <3>1, <3>2 DEF Owes, IAnswers
  <2>3. CASE awaited # Nobody /\ vm.state[awaited] \notin {"Dead", "Gone"}
    <3>1. Alive(vm, awaited) /\ awaited \in vm.evals
          /\ (vm.frame[awaited] = "new" => awaited = me)
      BY <2>3 DEF Owes, IAnswers
    <3>2. Alive(vm', awaited) /\ awaited \in vm'.evals
          /\ (vm'.frame[awaited] = "new" => vm.frame[awaited] = "new")
      BY <1>1, <2>3, <3>1 DEF Runs
    <3>3. vm'.frame[awaited] # "new"
      BY <3>1, <3>2
    <3> QED
      BY <2>3, <3>2, <3>3 DEF Owes, IAnswers, Alive
  <2> QED
    BY <2>1, <2>2, <2>3
<1>3. Bounded'
  BY BoundsKept
<1> QED
  BY <1>2, <1>3 DEF Advances
-----------------------------------------------------------------------------
\* The steps.

\* What holds where an action begins.
LEMMA Now ==
  ASSUME IAnswers
  PROVE  /\ IPlaces /\ IInv /\ Sound(vm) /\ Core(vm) /\ Typed(vm) /\ Places(vm)
         /\ Whole(vm, starved) /\ Owes /\ Calm /\ Bounded
         /\ me \in Proc /\ vm.state[me] = "Running" /\ me = vm.current
         /\ Alive(vm, me) /\ awaited \in Proc \cup {Nobody} /\ awaited # Base
         /\ Runs(vm, vm, {}) /\ NoneHalts(vm, vm) /\ starved \subseteq Proc
BY Here DEF IAnswers, Alive, LiveStates, IPlaces, IInv, TypeOK, Runs, NoneHalts

\* Every process of vm that is not in X runs on in t, which has no new one.
Goes(t, X) ==
  /\ Runs(vm, t, X) /\ NoneHalts(vm, t) /\ Delivers(vm, t)
  /\ t.current \in t.abandoned => me \in vm.abandoned
  /\ host.at = "eval" \/ Calmly(vm, t)

LEMMA DeliversKeeps ==
  ASSUME Delivers(vm, vm')
  PROVE  ~ MaySuspend => KeepsSignals
BY DEF Delivers, KeepsSignals

\* A step of the running process, in a call of the host.
LEMMA CarriesOn ==
  ASSUME IAnswers, NEW X, UNCHANGED <<host, awaited, evalEnd>>,
         Whole(vm', starved'), Goes(vm', X), awaited \notin X,
         vm.frame[me] # "new" \/ vm'.frame[me] # "new",
         host.at \notin {"idle", "closed"}
  PROVE  Advances
<1>1. Cardinality(HaltedOf(vm')) <= MaxHalted
  BY HaltsBounded DEF Goes
<1>2. Calm'
  BY DEF Goes, IAnswers, Calm, Calmly, me
<1>3. ~ MaySuspend => KeepsSignals
  BY DeliversKeeps DEF Goes
<1>4. Runs(vm, vm', X)
  BY DEF Goes
<1> QED
  BY <1>1, <1>2, <1>3, <1>4, Advance

LEMMA BecomesAdvances ==
  ASSUME IAnswers, NEW t, NEW X, Becomes(t), Whole(t, starved), Goes(t, X),
         awaited \notin X, vm.frame[me] # "new" \/ t.frame[me] # "new",
         host.at \notin {"idle", "closed"}
  PROVE  Advances
<1>1. vm' = t /\ starved' = starved /\ UNCHANGED <<host, awaited, evalEnd>>
  BY DEF Becomes
<1> QED
  BY <1>1, CarriesOn

\* The operation aborts, t being what it had done; and it aborts for want of
\* memory.
Same(t) ==
  /\ Runs(vm, t, {}) /\ NoneHalts(vm, t) /\ t.current = me
  /\ t.signaledBy = vm.signaledBy /\ t.abandoned \subseteq vm.abandoned
  /\ me # Base => Calmly(vm, t)

LEMMA AbortsGoes ==
  ASSUME IAnswers, NEW t, Typed(t), Whole(t, starved), Same(t),
         host.at = "eval" \/ me # Base
  PROVE  LET v == Aborts(t)
             w == Aborts([t EXCEPT !.heapMark = TRUE])
         IN /\ Whole(v, starved) /\ Goes(v, {})
            /\ Whole(w, starved \cup {me}) /\ Goes(w, {})
<1> DEFINE v == Aborts(t)
           w == Aborts([t EXCEPT !.heapMark = TRUE])
<1>1. /\ Whole(v, starved) /\ Quiet(t, v)
      /\ Whole(w, starved \cup {t.current}) /\ Quiet(t, w)
      /\ t.current # Base => Calmly(t, v) /\ Calmly(t, w)
  BY AbortsWhole
<1>2. t.current = me
  BY DEF Same
<1>3. ASSUME NEW u, Quiet(t, u), t.current # Base => Calmly(t, u)
      PROVE  Goes(u, {})
  <2>1. Runs(t, u, {}) /\ NoneHalts(t, u) /\ Delivers(t, u)
    BY <1>3, QuietRuns
  <2>2. Runs(vm, u, {})
    BY <2>1, RunsThrough DEF Same
  <2>3. /\ u.signaledBy = vm.signaledBy /\ u.abandoned \subseteq vm.abandoned
        /\ u.current = me
    BY <1>3 DEF Quiet, Same
  <2> QED
    BY <1>2, <1>3, <2>1, <2>2, <2>3 DEF Goes, Same, NoneHalts, Delivers, Calmly
<1>4. Goes(v, {}) /\ Goes(w, {})
  BY <1>1, <1>3
<1> QED
  BY <1>1, <1>2, <1>4

LEMMA AbortsAdvances ==
  ASSUME IAnswers, NEW t, Typed(t), Whole(t, starved), Same(t),
         host.at = "eval" \/ me # Base, host.at \notin {"idle", "closed"},
         vm.frame[me] # "new", Becomes(Aborts(t)) \/ OutOfMemory(t)
  PROVE  Advances
<1> DEFINE v == Aborts(t)
           w == Aborts([t EXCEPT !.heapMark = TRUE])
<1>1. /\ Whole(v, starved) /\ Goes(v, {})
      /\ Whole(w, starved \cup {me}) /\ Goes(w, {})
  BY AbortsGoes
<1>2. CASE Becomes(v)
  BY <1>1, <1>2, BecomesAdvances
<1>3. CASE OutOfMemory(t)
  <2>1. /\ vm' = w /\ starved' = starved \cup {me}
        /\ UNCHANGED <<host, awaited, evalEnd>>
    BY <1>3 DEF OutOfMemory
  <2> HIDE DEF w
  <2>2. Whole(vm', starved') /\ Goes(vm', {})
    BY <1>1, <2>1
  <2> QED
    BY <2>1, <2>2, CarriesOn
<1> QED
  BY <1>2, <1>3

LEMMA StopsAdvances ==
  ASSUME IAnswers, NEW t, Sound(t), Places(t), Whole(t, starved), Same(t),
         Free(t), t.evals = vm.evals, HaltedOf(t) = HaltedOf(vm), Calmly(vm, t),
         host.at = "eval" \/ me # Base, host.at \notin {"idle", "closed"},
         vm.frame[me] # "new", Stops(t)
  PROVE  Advances
<1>0. t.current = me /\ Typed(t)
  BY DEF Same, Sound, Core
<1>1. CASE CanHalt
  <2> DEFINE u == Halts(t)
  <2>1. vm' = u /\ starved' = starved /\ UNCHANGED <<host, awaited, evalEnd>>
    BY <1>1 DEF Stops, Becomes
  <2>2. me # Base /\ me \in t.evals /\ me \in vm.evals
    BY <1>1, Now DEF CanHalt
  <2>3. /\ Whole(u, starved) /\ Runs(t, u, {}) /\ Delivers(t, u)
        /\ u.current \notin u.abandoned /\ Calmly(t, u)
        /\ HaltedOf(u) \subseteq HaltedOf(t) \cup {me}
    BY <1>0, <2>2, HaltsMoves
  <2> HIDE DEF u
  <2>4. Runs(vm, u, {})
    BY <2>3, RunsThrough DEF Same
  <2>5. Delivers(vm, u) /\ Calmly(vm, u)
    BY <2>3 DEF Delivers, Same, Calmly
  <2>6. Cardinality(HaltedOf(u)) <= MaxHalted
    <3>1. Cardinality(HaltedOf(vm)) < MaxHalted
      BY <1>1 DEF CanHalt
    <3>2. IsFiniteSet(HaltedOf(vm)) /\ IsFiniteSet(HaltedOf(u))
      BY CountsFinite
    <3>3. HaltedOf(u) \subseteq HaltedOf(vm) \cup {me}
      BY <2>3
    <3>4. /\ IsFiniteSet(HaltedOf(vm) \cup {me})
          /\ Cardinality(HaltedOf(vm) \cup {me}) =
               IF me \in HaltedOf(vm) THEN Cardinality(HaltedOf(vm))
                                      ELSE Cardinality(HaltedOf(vm)) + 1
      BY <3>2, FS_AddElement
    <3>5. Cardinality(HaltedOf(u)) <= Cardinality(HaltedOf(vm) \cup {me})
      BY <3>3, <3>4, FS_Subset
    <3>6. /\ Cardinality(HaltedOf(u)) \in Nat /\ Cardinality(HaltedOf(vm)) \in Nat
          /\ MaxHalted \in Nat
      BY CountsFinite, LimitAssumption
    <3> QED
      BY <3>1, <3>4, <3>5, <3>6
  <2>7. Calm'
    BY <2>1, <2>3, <2>5 DEF IAnswers, Calm, Calmly, me
  <2>8. ~ MaySuspend => KeepsSignals
    BY <2>1, <2>5, DeliversKeeps
  <2>9. awaited \notin {}
    OBVIOUS
  <2> QED
    BY <2>1, <2>3, <2>4, <2>6, <2>7, <2>8, <2>9, Advance
<1>2. CASE ~ CanHalt
  <2>1. Becomes(Aborts(t))
    BY <1>2 DEF Stops
  <2> QED
    BY <1>0, <2>1, AbortsAdvances
<1> QED
  BY <1>1, <1>2
\* The running process is in its code: nothing unwinds, and what it does is its
\* own (abandon runs no code, and the base runs code in an evaluation only).
LEMMA InCode ==
  ASSUME IAnswers, NEW op, MayRun(op)
  PROVE  /\ vm.frame[me] = "code" /\ vm.frame[me] # "new"
         /\ me \notin vm.abandoned
         /\ Free(vm) /\ Same(vm) /\ awaited \notin {}
         /\ host.at \notin {"idle", "closed"}
         /\ host.at = "eval" \/ me # Base
<1>1. vm.frame[me] = "code" /\ me \notin vm.abandoned /\ (me = Base => host.at = "eval")
  BY DEF MayRun
<1>2. Free(vm)
  BY <1>1, Now, InCodeFree
<1>3. host.at \notin {"idle", "closed"}
  BY <1>1, Now DEF Calm
<1>4. Same(vm)
  BY Now DEF Same, Calmly
<1> QED
  BY <1>1, <1>2, <1>3, <1>4

LEMMA MovesGoes ==
  ASSUME IAnswers, NEW t, NEW S, Moves(vm, t, S), host.at = "eval" \/ me # Base
  PROVE  Goes(t, {})
BY DEF Moves, Goes, me

LEMMA QuietGoes ==
  ASSUME IAnswers, NEW t, Quiet(vm, t), host.at = "eval" \/ Calmly(vm, t)
  PROVE  Goes(t, {})
BY QuietRuns DEF Goes, Quiet, me

LEMMA TroubleAdvances == IAnswers /\ Trouble => Advances
<1> SUFFICES ASSUME IAnswers, MayRun("trouble"), Stops(vm) PROVE Advances
  BY DEF Trouble
<1>1. Calmly(vm, vm)
  BY DEF Calmly
<1> QED
  BY <1>1, Now, InCode, StopsAdvances

LEMMA YieldAdvances == IAnswers /\ Yield => Advances
<1> SUFFICES ASSUME IAnswers, MayRun("yield"),
                    Becomes(YieldFrom(vm)) \/ OutOfMemory(vm)
             PROVE  Advances
  BY Now, YieldIs
<1> DEFINE u == YieldFrom(vm)
<1>1. Moves(vm, u, starved)
  BY Now, InCode, YieldMoves
<1>2. CASE Becomes(u)
  <2> HIDE DEF u
  <2>1. Whole(u, starved)
    BY <1>1 DEF Moves
  <2>2. Goes(u, {})
    BY <1>1, InCode, MovesGoes
  <2> QED
    BY <1>2, <2>1, <2>2, InCode, BecomesAdvances
<1>3. CASE OutOfMemory(vm)
  BY <1>3, Now, InCode, AbortsAdvances
<1> QED
  BY <1>2, <1>3

LEMMA WaitAdvances == IAnswers /\ Wait => Advances
<1> SUFFICES ASSUME IAnswers, MayRun("wait"), NEW s \in Plain,
                    \/ vm.excess[s] > 0 /\ Becomes(Answered(vm, s))
                    \/ vm.excess[s] = 0 /\ Becomes(WaitsOn(vm, s, "op"))
                    \/ vm.excess[s] = 0 /\ OutOfMemory(vm)
             PROVE  Advances
  BY DEF Wait
<1>1. s \in Semaphores /\ "op" \in Frames /\ Fits("op", s)
  BY DEF Plain, Frames, Fits
<1>2. CASE Becomes(Answered(vm, s))
  <2> DEFINE u == Answered(vm, s)
  <2>1. /\ Quiet(vm, u) /\ u.contents = vm.contents /\ u.aborting = vm.aborting
        /\ u.excess = [vm.excess EXCEPT ![s] = @ - 1]
        /\ u.heapMark <=> vm.heapMark
    BY Now DEF Typed, Fields, Quiet, Answered
  <2> HIDE DEF u
  <2>2. Strict => Claimed(u)
    <3>1. \A q \in Queues : u.excess[ReadSynch[q]] = vm.excess[ReadSynch[q]]
      BY <1>1, <2>1, Now, Kinds DEF Typed
    <3>2. /\ \A q : Own(u, q) = Own(vm, q)
          /\ \A z : Bearers(u, z) = Bearers(vm, z)
      BY <2>1, QuietRuns
    <3>3. Strict => Claimed(vm)
      BY Now DEF Whole
    <3>4. u.contents = vm.contents
      BY <2>1
    <3> QED
      BY <3>1, <3>2, <3>3, <3>4, ClaimedDepends
  <2>3. Whole(u, starved)
    <3>1. starved \subseteq starved
      OBVIOUS
    <3> QED
      BY <2>1, <2>2, <3>1, Now, QuietWhole
  <2>4. Goes(u, {})
    <3>1. Calmly(vm, u)
      BY <2>1 DEF Calmly, Disturbed, Quiet
    <3> QED
      BY <2>1, <3>1, QuietGoes
  <2> QED
    BY <1>2, <2>3, <2>4, InCode, BecomesAdvances DEF u
<1>3. CASE Becomes(WaitsOn(vm, s, "op"))
  <2> DEFINE u == WaitsOn(vm, s, "op")
  <2>1. Moves(vm, u, starved)
    BY <1>1, Now, InCode, WaitsOnMoves
  <2> HIDE DEF u
  <2>2. Whole(u, starved) /\ Goes(u, {})
    BY <2>1, InCode, MovesGoes DEF Moves
  <2> QED
    BY <1>3, <2>2, InCode, BecomesAdvances DEF u
<1>4. CASE OutOfMemory(vm)
  BY <1>4, Now, InCode, AbortsAdvances
<1> QED
  BY <1>2, <1>3, <1>4

\* A signal adds to what its Semaphore counts.
LEMMA SignalWhole ==
  ASSUME IAnswers, Free(vm), NEW s \in Semaphores, ~ Overflows(vm, s)
  PROVE  Whole(Signal(vm, s), starved) /\ Goes(Signal(vm, s), {})
<1> DEFINE u == Signal(vm, s)
<1>1. Settles(vm, vm.current) /\ Signaled(vm, Nobody) /\ HaltsEval(vm)
      /\ Marked(vm, starved) /\ Sound(vm)
  BY Now DEF Whole
<1>2. /\ Settles(u, u.current) /\ Signaled(u, Nobody) /\ HaltsEval(u)
      /\ Marked(u, starved) /\ u.current = vm.current /\ u.frame = vm.frame
      /\ u.abandoned = vm.abandoned /\ u.contents = vm.contents
      /\ u.aborting = vm.aborting
      /\ Runs(vm, u, {}) /\ NoneHalts(vm, u)
      /\ \A p \in Proc : vm.signaledBy[p] # Nil => u.signaledBy[p] = vm.signaledBy[p]
      /\ \A z \in Semaphores :
           Count(u, z) = IF z = s THEN Count(vm, z) + 1 ELSE Count(vm, z)
  BY <1>1, SignalRest
<1>3. Sound(u)
  BY <1>1, SignalSound
<1> HIDE DEF u
<1>4. Strict => Covered(u)
  <2>1. ASSUME Strict, NEW q \in Queues
        PROVE  u.contents[q] <= Count(u, ReadSynch[q])
    <3>1. vm.contents[q] <= Count(vm, ReadSynch[q])
      BY <2>1 DEF Free, Covered
    <3>2. /\ ReadSynch[q] \in Semaphores /\ vm.contents[q] \in Nat
          /\ vm.excess[ReadSynch[q]] \in Nat
          /\ Cardinality(Bearers(vm, ReadSynch[q])) \in Nat
      BY Now, Kinds, BearersFinite, ExcessAssumption DEF Typed
    <3>3. Count(vm, ReadSynch[q]) \in Nat
      BY <3>2 DEF Count
    <3>4. \/ Count(u, ReadSynch[q]) = Count(vm, ReadSynch[q])
          \/ Count(u, ReadSynch[q]) = Count(vm, ReadSynch[q]) + 1
      BY <1>2, <3>2
    <3>5. u.contents[q] = vm.contents[q]
      BY <1>2
    <3> QED
      BY <3>1, <3>2, <3>3, <3>4, <3>5
  <2> QED
    BY <2>1 DEF Covered
<1>5. Strict => Claimed(u)
  BY <1>3, <1>4, CoveredClaimed DEF Sound, Core
<1>6. Whole(u, starved)
  BY <1>2, <1>5 DEF Whole
<1>7. Goes(u, {})
  BY <1>2 DEF Goes, Delivers, Calmly, Disturbed, me
<1> QED
  BY <1>6, <1>7 DEF u

\* The waiters that cannot run go, and nothing else changes.
LEMMA DropStaleSame ==
  ASSUME IAnswers, Free(vm), NEW s \in Semaphores
  PROVE  LET t == DropStale(vm, s) IN
         /\ Sound(t) /\ Places(t) /\ Typed(t) /\ Whole(t, starved) /\ Same(t)
         /\ Free(t) /\ t.evals = vm.evals /\ HaltedOf(t) = HaltedOf(vm)
         /\ Calmly(vm, t) /\ Quiet(vm, t)
<1> DEFINE t == DropStale(vm, s)
<1>1. Sound(t) /\ Places(t)
  BY Now, SignalSound, DropStalePlaces
<1>2. /\ Whole(t, starved) /\ Quiet(vm, t) /\ Calmly(vm, t)
      /\ t.excess = vm.excess /\ t.contents = vm.contents
  BY Now, DropStaleWhole
<1> HIDE DEF t
<1>3. Same(t)
  BY <1>2, QuietRuns DEF Same, Quiet, me
<1>4. Free(t)
  <2>1. \A z : Count(t, z) = Count(vm, z)
    BY <1>2, QuietRuns DEF Count
  <2> QED
    BY <1>2, <2>1 DEF Free, Covered, Quiet
<1>5. t.evals = vm.evals /\ HaltedOf(t) = HaltedOf(vm)
  BY <1>2 DEF Quiet, HaltedOf
<1> QED
  BY <1>1, <1>2, <1>3, <1>4, <1>5 DEF t, Sound, Core

LEMMA SignalSemaphoreAdvances == IAnswers /\ SignalSemaphore => Advances
<1> SUFFICES ASSUME IAnswers, MayRun("signal"), NEW s \in Plain,
                    \/ ~ Overflows(vm, s) /\ Becomes(Signal(vm, s))
                    \/ Stops(DropStale(vm, s))
                    \/ OutOfMemory(DropStale(vm, s))
             PROVE  Advances
  BY Now, SignalSemaphoreIs
<1>1. s \in Semaphores
  BY DEF Plain
<1>2. CASE ~ Overflows(vm, s) /\ Becomes(Signal(vm, s))
  <2>1. Whole(Signal(vm, s), starved) /\ Goes(Signal(vm, s), {})
    BY <1>1, <1>2, InCode, SignalWhole
  <2> QED
    BY <1>2, <2>1, InCode, BecomesAdvances
<1>3. CASE Stops(DropStale(vm, s))
  BY <1>1, <1>3, InCode, DropStaleSame, StopsAdvances
<1>4. CASE OutOfMemory(DropStale(vm, s))
  BY <1>1, <1>4, InCode, DropStaleSame, AbortsAdvances
<1> QED
  BY <1>2, <1>3, <1>4
\* A step that leaves every process where it is.
LEMMA QuietSame ==
  ASSUME IAnswers, NEW t, Quiet(vm, t), t.aborting = vm.aborting,
         t.heapMark => vm.heapMark, Strict => Claimed(t)
  PROVE  Whole(t, starved) /\ Same(t) /\ Calmly(vm, t)
<1>1. Whole(t, starved)
  <2>1. starved \subseteq starved
    OBVIOUS
  <2> QED
    BY <2>1, Now, QuietWhole
<1>2. Calmly(vm, t)
  BY DEF Calmly, Disturbed, Quiet
<1> QED
  BY <1>1, <1>2, QuietRuns DEF Same, Quiet, me

LEMMA SuspendAdvances == IAnswers /\ Suspend => Advances
<1> SUFFICES ASSUME IAnswers, Suspend PROVE Advances
  OBVIOUS
<1>1. MayRun("suspend") /\ MaySuspend
  BY DEF Suspend, MayRun, MaySuspend
<1>2. CASE Becomes(Blocks([vm EXCEPT !.state[me] = "Suspended"], "op"))
  <2> DEFINE u == Blocks([vm EXCEPT !.state[vm.current] = "Suspended"], "op")
  <2>1. Moves(vm, u, starved)
    BY <1>1, Now, InCode, SuspendMoves
  <2>2. Becomes(u)
    BY <1>2 DEF me
  <2> HIDE DEF u
  <2>3. Whole(u, starved) /\ Goes(u, {})
    BY <1>1, <2>1, InCode, MovesGoes DEF Moves
  <2> QED
    BY <1>1, <2>2, <2>3, InCode, BecomesAdvances
<1>3. ASSUME NEW p \in Named, vm.state[p] \in {"Ready", "Waiting"},
             Becomes(LeaveLists(vm, p))
      PROVE  Advances
  <2> DEFINE u == LeaveLists(vm, p)
             x == "Suspended"
  <2>1. /\ p \in Proc /\ p # me /\ p # vm.current
        /\ Extant(vm, p) /\ vm.state[p] \in LiveStates
    BY <1>3, Now DEF Named, Extant, LiveStates
  <2>2. /\ SameFlags(vm, u) /\ u.aborting = vm.aborting
        /\ u.frame = vm.frame /\ u.signaledBy = vm.signaledBy
        /\ u.state = [vm.state EXCEPT ![p] = "Suspended"]
        /\ \A o \in Proc : o # p => u.waitingOn[o] = vm.waitingOn[o]
    BY <2>1, Now, LeaveListsRest
  <2> HIDE DEF u, x
  <2>3. x = "Suspended" /\ x # "Dead" /\ u.state = [vm.state EXCEPT ![p] = x]
    BY <2>2 DEF x
  <2>4. /\ u.current = vm.current /\ u.excess = vm.excess
        /\ u.contents = vm.contents /\ u.condemned = vm.condemned
        /\ u.abandoned = vm.abandoned /\ u.deadlocked = vm.deadlocked
        /\ u.evals = vm.evals /\ u.marked = vm.marked
        /\ u.heapMark => vm.heapMark
    BY <2>2 DEF SameFlags
  <2>a. Elsewhere(vm, u, p, x)
    BY <1>1, <2>1, <2>2, <2>3, <2>4 DEF Elsewhere
  <2>5. Whole(u, starved) /\ Delivers(vm, u) /\ NoneHalts(vm, u) /\ Runs(vm, u, {})
    BY <2>1, <2>3, <2>a, Now, OtherWhole
  <2>6. Goes(u, {})
    BY <2>2, <2>4, <2>5 DEF Goes, Calmly, Disturbed, me
  <2> QED
    BY <1>1, <1>3, <2>5, <2>6, InCode, BecomesAdvances DEF u
<1> QED
  BY <1>2, <1>3 DEF Suspend

\* A process suspended, or just made, as the ready queue takes it.
LEMMA EnqueuedWhole ==
  ASSUME IAnswers, NEW p \in Proc, vm.state[p] \in {"None", "Suspended"}
  PROVE  LET u == Enqueue(vm, p) IN
         /\ Whole(u, starved) /\ Delivers(vm, u) /\ NoneHalts(vm, u)
         /\ vm.state[p] = "Suspended" => Goes(u, {})
         /\ u.state = [vm.state EXCEPT ![p] = "Ready"]
         /\ u.current = vm.current /\ u.frame = vm.frame
         /\ u.abandoned = vm.abandoned /\ u.aborting = vm.aborting
         /\ u.evals = vm.evals /\ p # me
<1> DEFINE u == Enqueue(vm, p)
           x == "Ready"
<1>1. /\ SameFlags(vm, u) /\ u.aborting = vm.aborting
      /\ u.frame = vm.frame /\ u.signaledBy = vm.signaledBy
      /\ u.state = [vm.state EXCEPT ![p] = "Ready"]
      /\ u.waitingOn = vm.waitingOn
  BY Now, EnqueueRest
<1> HIDE DEF u, x
<1>2. /\ x = "Ready" /\ x \in {"Ready", "Suspended", "Gone"}
      /\ u.state = [vm.state EXCEPT ![p] = x]
  BY <1>1 DEF x
<1>3. /\ u.current = vm.current /\ u.excess = vm.excess
      /\ u.contents = vm.contents /\ u.condemned = vm.condemned
      /\ u.abandoned = vm.abandoned /\ u.deadlocked = vm.deadlocked
      /\ u.evals = vm.evals /\ u.marked = vm.marked
      /\ u.heapMark => vm.heapMark
  BY <1>1 DEF SameFlags
<1>4. vm.evals \subseteq u.evals
  BY <1>3
<1>5. /\ Whole(u, starved) /\ Delivers(vm, u) /\ NoneHalts(vm, u)
      /\ vm.state[p] = "Suspended" => Runs(vm, u, {})
      /\ p # vm.current
  BY <1>1, <1>2, <1>3, <1>4, Now, BornWhole
<1>6. vm.state[p] = "Suspended" => Goes(u, {})
  BY <1>1, <1>3, <1>5 DEF Goes, Calmly, Disturbed, me
<1> QED
  BY <1>1, <1>3, <1>5, <1>6 DEF u, me

LEMMA ResumeAdvances == IAnswers /\ Resume => Advances
<1> SUFFICES ASSUME IAnswers, MayRun("resume"), NEW p \in Named,
                    \/ Becomes(Aborts(vm))
                    \/ Resumable(p) /\ Becomes(Enqueue(vm, p))
                    \/ OutOfMemory(vm)
             PROVE  Advances
  BY Now, ResumeIs
<1>1. CASE Becomes(Aborts(vm)) \/ OutOfMemory(vm)
  BY <1>1, Now, InCode, AbortsAdvances
<1>2. CASE Resumable(p) /\ Becomes(Enqueue(vm, p))
  <2>1. p \in Proc /\ vm.state[p] = "Suspended"
    BY <1>2 DEF Named, Resumable
  <2>2. Whole(Enqueue(vm, p), starved) /\ Goes(Enqueue(vm, p), {})
    BY <2>1, EnqueuedWhole
  <2> QED
    BY <1>2, <2>2, InCode, BecomesAdvances
<1> QED
  BY <1>1, <1>2

\* One process more, within the limit.
LEMMA OneMore ==
  ASSUME IAnswers, ~ Full, NEW p \in Fibers, NEW t,
         \A o \in Proc : o # p /\ Alive(t, o) => Alive(vm, o)
  PROVE  Cardinality(LiveFibers(t)) <= MaxFibers
<1>1. IsFiniteSet(LiveFibers(vm)) /\ IsFiniteSet(LiveFibers(t))
  BY CountsFinite
<1>2. LiveFibers(t) \subseteq LiveFibers(vm) \cup {p}
  BY DEF LiveFibers, Live, Alive
<1>3. /\ IsFiniteSet(LiveFibers(vm) \cup {p})
      /\ Cardinality(LiveFibers(vm) \cup {p}) =
           IF p \in LiveFibers(vm) THEN Cardinality(LiveFibers(vm))
                                   ELSE Cardinality(LiveFibers(vm)) + 1
  BY <1>1, FS_AddElement
<1>4. Cardinality(LiveFibers(t)) <= Cardinality(LiveFibers(vm) \cup {p})
  BY <1>2, <1>3, FS_Subset
<1>5. /\ Cardinality(LiveFibers(vm)) \in Nat /\ Cardinality(LiveFibers(t)) \in Nat
      /\ MaxFibers \in Nat
  BY CountsFinite, LimitAssumption
<1>6. Cardinality(LiveFibers(vm)) < MaxFibers
  BY <1>5 DEF Full
<1> QED
  BY <1>3, <1>4, <1>5, <1>6

LEMMA ForkAdvances == IAnswers /\ Fork => Advances
<1> SUFFICES ASSUME IAnswers, Fork PROVE Advances
  OBVIOUS
<1>1. MayRun("fork")
  BY Now, ForkIs
<1>2. CASE Becomes(Aborts(vm)) \/ OutOfMemory(vm)
  BY <1>1, <1>2, Now, InCode, AbortsAdvances
<1>3. ASSUME ~ Full, NEW p \in Fibers, IsNextPid(vm, p), Becomes(Enqueue(vm, p))
      PROVE  Advances
  <2> DEFINE u == Enqueue(vm, p)
  <2>1. p \in Proc /\ vm.state[p] = "None"
    BY <1>3, Names DEF IsNextPid
  <2>2. /\ Whole(u, starved) /\ Delivers(vm, u) /\ NoneHalts(vm, u)
        /\ u.state = [vm.state EXCEPT ![p] = "Ready"]
        /\ u.current = vm.current /\ u.frame = vm.frame
        /\ u.abandoned = vm.abandoned /\ u.aborting = vm.aborting
        /\ u.evals = vm.evals
    BY <2>1, EnqueuedWhole
  <2>3. vm' = u /\ starved' = starved /\ UNCHANGED <<host, awaited, evalEnd>>
    BY <1>3 DEF Becomes
  <2> HIDE DEF u
  <2>4. \A o \in Proc : o # p => u.state[o] = vm.state[o]
    BY <2>2, Now DEF Typed
  <2>5. Cardinality(LiveFibers(u)) <= MaxFibers
    BY <1>3, <2>4, OneMore DEF Alive
  <2>6. Cardinality(HaltedOf(u)) <= MaxHalted
    <3>1. Cardinality(HaltedOf(u)) <= Cardinality(HaltedOf(vm))
      BY <2>2, CountsFinite DEF NoneHalts
    <3>2. /\ Cardinality(HaltedOf(u)) \in Nat /\ Cardinality(HaltedOf(vm)) \in Nat
          /\ MaxHalted \in Nat /\ Cardinality(HaltedOf(vm)) <= MaxHalted
      BY CountsFinite, LimitAssumption DEF IAnswers, Bounded
    <3> QED
      BY <3>1, <3>2
  <2>7. Owes'
    <3>1. awaited # Nobody => awaited # p
      BY <2>1 DEF IAnswers, Owes, Alive, LiveStates
    <3> QED
      BY <2>2, <2>3, <2>4, <3>1, Now DEF IAnswers, Owes, Alive, me
  <2>8. Calm'
    BY <1>1, <2>2, <2>3, InCode DEF IAnswers, Calm, Disturbed, me
  <2>9. Bounded'
    <3>1. LiveFibers(vm)' = LiveFibers(u) /\ HaltedOf(vm)' = HaltedOf(u)
      BY <2>3 DEF LiveFibers, Live, HaltedOf
    <3> QED
      BY <2>5, <2>6, <3>1 DEF Bounded
  <2>10. ~ MaySuspend => KeepsSignals
    BY <2>2, <2>3, DeliversKeeps
  <2> QED
    BY <2>2, <2>3, <2>7, <2>8, <2>9, <2>10 DEF Advances
<1>4. ASSUME NEW p \in Fibers, IsNextPid(vm, p), OutOfMemory(Unmade(vm, p))
      PROVE  Advances
  <2> DEFINE u == Unmade(vm, p)
             x == "Gone"
  <2>1. p \in Proc /\ vm.state[p] = "None"
    BY <1>4, Names DEF IsNextPid
  <2>2. Typed(u)
    BY <2>1, Now, SMTT(30) DEF Typed, Unmade, States, Fields
  <2>3. /\ u.state = [vm.state EXCEPT ![p] = "Gone"]
        /\ u.waitingOn = vm.waitingOn /\ u.frame = vm.frame
        /\ u.signaledBy = vm.signaledBy /\ u.current = vm.current
        /\ u.abandoned = vm.abandoned /\ u.condemned = vm.condemned
        /\ u.deadlocked = vm.deadlocked /\ u.evals = vm.evals
        /\ u.marked = vm.marked /\ u.excess = vm.excess
        /\ u.contents = vm.contents /\ u.aborting = vm.aborting
        /\ u.heapMark => vm.heapMark
    BY Now DEF Typed, Unmade, Fields
  <2> HIDE DEF u, x
  <2>4. /\ x \in {"Ready", "Suspended", "Gone"} /\ x = "Gone"
        /\ u.state = [vm.state EXCEPT ![p] = x] /\ vm.evals \subseteq u.evals
        /\ vm.state[p] = "Suspended" => x = "Ready"
        /\ vm.state[p] \in {"None", "Suspended"}
    BY <2>1, <2>3 DEF x
  <2>5. Whole(u, starved) /\ NoneHalts(vm, u) /\ Runs(vm, u, {})
    BY <2>1, <2>3, <2>4, Now, BornWhole
  <2>6. Same(u)
    BY <2>3, <2>5 DEF Same, Calmly, Disturbed, me
  <2> QED
    BY <1>1, <1>4, <2>2, <2>5, <2>6, InCode, AbortsAdvances DEF u
<1> QED
  BY <1>2, <1>3, <1>4, Now, ForkIs
\* A terminate of a live process, from Smalltalk code or from the base.
Ending(p) == IF vm.frame[p] = "new" THEN {p} ELSE {}

LEMMA TerminatedGoes ==
  ASSUME IAnswers, Free(vm), NEW p \in LiveFibers(vm) \ {me},
         GivesBack(p) => ~ Overflows(vm, vm.signaledBy[p]),
         vm' = Terminated(Relieved(p), p)
  PROVE  /\ Whole(vm', starved) /\ Runs(vm, vm', Ending(p)) /\ NoneHalts(vm, vm')
         /\ KeepsSignals /\ vm'.current \notin vm'.abandoned /\ Calmly(vm, vm')
         /\ awaited \notin Ending(p)
<1> DEFINE r == Relieved(p)
           u == Terminated(r, p)
           s == vm.signaledBy[p]
<1>1. p \in Fibers /\ p \in Proc /\ p # me /\ Alive(vm, p)
  BY DEF LiveFibers, Live, Fibers, Alive
<1>2. /\ Whole(r, starved) /\ Free(r) /\ Runs(vm, r, {}) /\ NoneHalts(vm, r)
      /\ Alive(r, p) /\ r.signaledBy[p] = Nil
      /\ r.current = me /\ r.frame = vm.frame /\ r.aborting = vm.aborting
      /\ r.abandoned = vm.abandoned
      /\ \A o \in Proc : o # p /\ vm.signaledBy[o] # Nil => r.signaledBy[o] # Nil
      /\ GivesBack(p) => Count(r, s) = Count(vm, s)
  BY <1>1, Now, RelievedWhole
<1>3. Sound(r)
  BY <1>1, Now, RelievedSound DEF IPlaces
<1> HIDE DEF r
<1>4. /\ Whole(u, starved) /\ Runs(r, u, IF r.frame[p] = "new" THEN {p} ELSE {})
      /\ NoneHalts(r, u) /\ Calmly(r, u) /\ u.current \notin u.abandoned
      /\ \A o \in Proc : u.signaledBy[o] = r.signaledBy[o]
      /\ u.excess = r.excess
  BY <1>1, <1>2, <1>3, TerminatedWhole
<1>5. vm' = u
  BY DEF r
<1> HIDE DEF u
<1>6. Runs(vm, u, Ending(p))
  BY <1>2, <1>4 DEF Runs, Ending
<1>7. NoneHalts(vm, u) /\ Calmly(vm, u)
  BY <1>2, <1>4 DEF NoneHalts, Calmly, Disturbed
<1>8. KeepsSignals
  <2>1. SUFFICES ASSUME NEW o \in Proc, vm.signaledBy[o] # Nil, u.signaledBy[o] = Nil
                 PROVE  Held(u, vm.signaledBy[o]) >= Held(vm, vm.signaledBy[o])
    BY <1>5 DEF KeepsSignals
  <2>2. o = p
    BY <1>2, <1>4, <2>1
  <2>3. GivesBack(p) /\ s \in Semaphores
    BY <1>1, <2>1, <2>2, Now DEF GivesBack, Typed
  <2>4. Held(u, s) = Count(r, s)
    <3>1. {x \in Proc : u.signaledBy[x] = s} = Bearers(r, s)
      BY <1>4 DEF Bearers
    <3> QED
      BY <1>4, <3>1 DEF Held, Count
  <2>5. Held(vm, s) = Count(vm, s)
    BY DEF Held, Count, Bearers
  <2>6. Count(vm, s) \in Nat
    BY <2>3, Now, BearersFinite, ExcessAssumption DEF Count, Typed
  <2>7. Held(u, s) >= Held(vm, s)
    BY <1>2, <2>3, <2>4, <2>5, <2>6
  <2> QED
    BY <2>2, <2>7
<1>9. awaited \notin Ending(p)
  <2>1. SUFFICES ASSUME awaited = p, vm.frame[p] = "new" PROVE FALSE
    BY DEF Ending
  <2>2. awaited # Nobody /\ vm.state[awaited] \notin {"Dead", "Gone"}
    BY <1>1, <2>1, Names DEF Alive, LiveStates
  <2> QED
    BY <1>1, <2>1, <2>2, Now DEF Owes
<1> QED
  BY <1>4, <1>5, <1>6, <1>7, <1>8, <1>9

LEMMA TerminateAdvances == IAnswers /\ Terminate => Advances
<1> SUFFICES ASSUME IAnswers, Terminate PROVE Advances
  OBVIOUS
<1>1. MayRun("terminate")
  BY DEF Terminate
<1>2. CASE Becomes(Aborts([vm EXCEPT !.terminated = @ \cup {me}]))
  <2> DEFINE u == [vm EXCEPT !.terminated = @ \cup {me}]
  <2>1. Typed(u)
    BY Now, SMTT(30) DEF Typed, Fields
  <2>2. /\ Quiet(vm, u) /\ u.aborting = vm.aborting
        /\ u.contents = vm.contents /\ u.excess = vm.excess
        /\ u.heapMark <=> vm.heapMark
    BY Now DEF Typed, Fields, Quiet
  <2> HIDE DEF u
  <2>3. Strict => Claimed(u)
    <3>1. /\ \A q : Own(u, q) = Own(vm, q)
          /\ \A z : Bearers(u, z) = Bearers(vm, z)
      BY <2>2, QuietRuns
    <3>2. Strict => Claimed(vm)
      BY Now DEF Whole
    <3>3. \A q \in Queues : u.excess[ReadSynch[q]] = vm.excess[ReadSynch[q]]
      BY <2>2
    <3> QED
      BY <2>2, <3>1, <3>2, <3>3, ClaimedDepends
  <2>4. Whole(u, starved) /\ Same(u)
    BY <2>2, <2>3, QuietSame
  <2> QED
    BY <1>1, <1>2, <2>1, <2>4, InCode, AbortsAdvances DEF u
<1>3. CASE Becomes(Aborts(vm))
  BY <1>1, <1>3, Now, InCode, AbortsAdvances
<1>4. ASSUME NEW p \in LiveFibers(vm) \ {me}, TerminatesOther(p)
      PROVE  Advances
  <2>1. p \in Proc
    BY DEF LiveFibers, Live
  <2>2. CASE /\ GivesBack(p) => ~Overflows(vm, vm.signaledBy[p])
             /\ Becomes(Terminated(Relieved(p), p))
    <3>1. /\ vm' = Terminated(Relieved(p), p) /\ starved' = starved
          /\ UNCHANGED <<host, awaited, evalEnd>>
      BY <2>2 DEF Becomes
    <3>2. /\ Whole(vm', starved) /\ Runs(vm, vm', Ending(p)) /\ NoneHalts(vm, vm')
          /\ KeepsSignals /\ vm'.current \notin vm'.abandoned /\ Calmly(vm, vm')
          /\ awaited \notin Ending(p)
      BY <1>1, <2>2, <3>1, InCode, TerminatedGoes
    <3>3. Cardinality(HaltedOf(vm')) <= MaxHalted
      BY <3>2, HaltsBounded
    <3>4. Calm'
      BY <1>1, <3>1, <3>2, InCode DEF IAnswers, Calm, Calmly, me
    <3>5. Whole(vm', starved') /\ vm.frame[me] # "new"
          /\ (host'.at = "await" <=> host.at = "await")
      BY <1>1, <3>1, <3>2, InCode
    <3> QED
      BY <3>1, <3>2, <3>3, <3>4, <3>5, Advance
  <2>3. CASE GivesBack(p) /\ (\/ Stops(DropStale(vm, vm.signaledBy[p]))
                              \/ OutOfMemory(DropStale(vm, vm.signaledBy[p])))
    <3>1. vm.signaledBy[p] \in Semaphores
      BY <2>1, <2>3, Now DEF GivesBack, Typed
    <3> QED
      BY <1>1, <2>3, <3>1, InCode, DropStaleSame, StopsAdvances, AbortsAdvances
  <2> QED
    BY <1>4, <2>1, <2>2, <2>3, Now, TerminatesOtherIs
<1> QED
  BY <1>2, <1>3, <1>4 DEF Terminate

LEMMA NextPutAdvances == IAnswers /\ NextPut => Advances
<1> SUFFICES ASSUME IAnswers, NextPut PROVE Advances
  OBVIOUS
<1>0. MayRun("nextPut")
  BY Now, NextPutIs
<1>1. PICK q \in Queues :
        LET s   == ReadSynch[q]
            put == [vm EXCEPT !.contents[q] = @ + 1]
        IN \/ ~Overflows(vm, s) /\ Becomes(Signal(put, s))
           \/ Becomes(Aborts(TakesBack(DropStale(put, s), q)))
           \/ OutOfMemory(vm)
           \/ OutOfMemory(TakesBack(DropStale(put, s), q))
  BY Now, NextPutIs
<1> DEFINE s    == ReadSynch[q]
           n    == vm.contents[q]
           put  == [vm EXCEPT !.contents[q] = @ + 1]
           left == DropStale(put, s)
           back == TakesBack(left, q)
<1>2. s \in Semaphores /\ n \in Nat
  BY QueueAssumption, Now DEF Typed
<1>3. put = [vm EXCEPT !.contents[q] = n + 1]
  OBVIOUS
<1>4. Sound(put) /\ put.contents = [vm.contents EXCEPT ![q] = n + 1]
  <2>1. PICK m : m = n + 1
    OBVIOUS
  <2>2. m \in Nat /\ put = [vm EXCEPT !.contents[q] = m]
    BY <1>2, <1>3, <2>1
  <2> HIDE DEF put, n
  <2>3. Sound(put)
    BY <2>2, Now, ContentsKeep
  <2>4. put.contents = [vm.contents EXCEPT ![q] = m]
    BY <2>2, Now DEF Typed, Fields
  <2> QED
    BY <2>1, <2>3, <2>4
<1>5. /\ put.linkedList = vm.linkedList /\ put.excess = vm.excess
      /\ Quiet(vm, put) /\ put.aborting = vm.aborting
      /\ put.heapMark <=> vm.heapMark
  BY Now DEF Typed, Fields, Quiet
<1> HIDE DEF put, s
<1>6. Overflows(put, s) <=> Overflows(vm, s)
  BY <1>5 DEF Overflows, FirstWaiter, Waits, Quiet
<1>7. \A z : Count(put, z) = Count(vm, z)
  BY <1>5 DEF Count, Bearers, Quiet
<1>8. /\ Settles(put, put.current) /\ Signaled(put, Nobody) /\ HaltsEval(put)
      /\ Marked(put, starved)
  BY <1>5, Now DEF Whole, Quiet, Settles, Extant, Signaled, Waits, HaltsEval,
                   HaltedOf, Marked
<1>9. Runs(vm, put, {}) /\ NoneHalts(vm, put)
  BY <1>5, QuietRuns
<1>10. CASE ~ Overflows(vm, s) /\ Becomes(Signal(put, s))
  <2> DEFINE u == Signal(put, s)
  <2>1. /\ Settles(u, u.current) /\ Signaled(u, Nobody) /\ HaltsEval(u)
        /\ Marked(u, starved) /\ u.current = put.current /\ u.frame = put.frame
        /\ u.abandoned = put.abandoned /\ u.contents = put.contents
        /\ u.aborting = put.aborting
        /\ Runs(put, u, {}) /\ NoneHalts(put, u)
        /\ \A p \in Proc : put.signaledBy[p] # Nil => u.signaledBy[p] = put.signaledBy[p]
        /\ \A z \in Semaphores :
             Count(u, z) = IF z = s THEN Count(put, z) + 1 ELSE Count(put, z)
    BY <1>2, <1>4, <1>6, <1>8, <1>10, SignalRest
  <2>2. Sound(u)
    BY <1>2, <1>4, <1>6, <1>10, SignalSound
  <2> HIDE DEF u
  <2>3. ASSUME Strict PROVE Covered(u)
    <3>1. ASSUME NEW r \in Queues
          PROVE  u.contents[r] <= Count(u, ReadSynch[r])
      <4>1. vm.contents[r] <= Count(vm, ReadSynch[r])
        BY <1>0, <2>3, InCode DEF Free, Covered
      <4>2. /\ ReadSynch[r] \in Semaphores /\ vm.contents[r] \in Nat
            /\ vm.excess[ReadSynch[r]] \in Nat
            /\ Cardinality(Bearers(vm, ReadSynch[r])) \in Nat
        BY Now, Kinds, BearersFinite, ExcessAssumption DEF Typed
      <4>3. Count(vm, ReadSynch[r]) \in Nat
        BY <4>2 DEF Count
      <4>4. u.contents[r] = IF r = q THEN vm.contents[r] + 1 ELSE vm.contents[r]
        BY <1>4, <2>1, Now DEF Typed
      <4>5. r = q <=> ReadSynch[r] = s
        BY Kinds DEF s
      <4>6. Count(u, ReadSynch[r]) = IF r = q THEN Count(vm, ReadSynch[r]) + 1
                                              ELSE Count(vm, ReadSynch[r])
        BY <1>7, <2>1, <4>2, <4>5
      <4> QED
        BY <4>1, <4>2, <4>3, <4>4, <4>6
    <3> QED
      BY <3>1 DEF Covered
  <2>4. Whole(u, starved)
    BY <2>1, <2>2, <2>3, CoveredClaimed DEF Whole, Sound, Core
  <2>5. Goes(u, {})
    <3>1. Runs(vm, u, {})
      BY <1>9, <2>1, RunsThrough
    <3> QED
      BY <1>5, <1>9, <2>1, <3>1
      DEF Goes, Quiet, NoneHalts, Delivers, Calmly, Disturbed, me
  <2> QED
    BY <1>0, <1>10, <2>4, <2>5, InCode, BecomesAdvances DEF u
<1>11. CASE Becomes(Aborts(back)) \/ OutOfMemory(back)
  <2>1. /\ Quiet(put, left) /\ left.excess = put.excess
        /\ left.contents = put.contents
        /\ left.aborting = put.aborting
        /\ left.heapMark <=> put.heapMark
    BY <1>2, <1>4, DropStaleRest DEF Sound, Core
  <2>2. Sound(left)
    BY <1>2, <1>4, SignalSound
  <2> HIDE DEF left
  <2>3. back = [left EXCEPT !.contents[q] = n]
    <3>1. left.contents[q] - 1 = n
      BY <1>2, <1>4, <2>1, Now DEF Typed
    <3>2. back = [left EXCEPT !.contents[q] = left.contents[q] - 1]
      BY DEF TakesBack
    <3> HIDE DEF back, n
    <3> QED
      BY <3>1, <3>2
  <2>4. Typed(back)
    <3> HIDE DEF back, n
    <3> QED
      BY <1>2, <2>2, <2>3, ContentsKeep DEF Sound, Core
  <2>5. /\ Quiet(left, back) /\ back.excess = left.excess
        /\ back.aborting = left.aborting
        /\ back.heapMark <=> left.heapMark
        /\ back.contents = [left.contents EXCEPT ![q] = n]
    <3> HIDE DEF back, n
    <3> QED
      BY <2>2, <2>3 DEF Sound, Core, Typed, Fields, Quiet
  <2>6. back.contents = vm.contents
    <3>1. back.contents = [[vm.contents EXCEPT ![q] = n + 1] EXCEPT ![q] = n]
      BY <1>4, <2>1, <2>5
    <3> HIDE DEF back
    <3> QED
      BY <3>1, Now DEF Typed
  <2> HIDE DEF back
  <2>7. /\ Quiet(vm, back) /\ back.aborting = vm.aborting
        /\ back.excess = vm.excess
        /\ back.heapMark => vm.heapMark
    BY <1>5, <2>1, <2>5 DEF Quiet
  <2>8. Strict => Claimed(back)
    <3>1. /\ \A r : Own(back, r) = Own(vm, r)
          /\ \A z : Bearers(back, z) = Bearers(vm, z)
      BY <2>7, QuietRuns
    <3>2. Strict => Claimed(vm)
      BY Now DEF Whole
    <3>3. \A r \in Queues : back.excess[ReadSynch[r]] = vm.excess[ReadSynch[r]]
      BY <2>7
    <3> QED
      BY <2>6, <3>1, <3>2, <3>3, ClaimedDepends
  <2>9. Whole(back, starved) /\ Same(back)
    BY <2>7, <2>8, QuietSame
  <2> QED
    BY <1>0, <1>11, <2>4, <2>9, InCode, AbortsAdvances
<1>12. CASE OutOfMemory(vm)
  BY <1>0, <1>12, Now, InCode, AbortsAdvances
<1> QED
  BY <1>1, <1>10, <1>11, <1>12 DEF put, s

LEMMA NextElementAdvances == IAnswers /\ NextElement => Advances
<1> SUFFICES ASSUME IAnswers, NextElement PROVE Advances
  OBVIOUS
<1>0. MayRun("next")
  BY DEF NextElement
<1>1. PICK q \in Queues :
        \/ /\ vm.excess[ReadSynch[q]] > 0 /\ vm.contents[q] > 0
           /\ Becomes(Takes(Answered(vm, ReadSynch[q]), q))
        \/ /\ ~ (vm.excess[ReadSynch[q]] > 0 /\ vm.contents[q] > 0)
           /\ Becomes(WaitsForElement(vm, q)) \/ OutOfMemory(Emptied(vm, q))
  BY DEF NextElement
<1> DEFINE s == ReadSynch[q]
<1>2. /\ s \in Semaphores /\ vm.excess[s] \in Nat /\ vm.contents[q] \in Nat
      /\ q \in Frames /\ Fits(q, s)
  BY Now, Kinds, ExcessAssumption DEF Typed, Fits
<1>3. CASE /\ vm.excess[s] > 0 /\ vm.contents[q] > 0
           /\ Becomes(Takes(Answered(vm, s), q))
  <2> DEFINE u == Takes(Answered(vm, s), q)
  <2>1. /\ Quiet(vm, u) /\ u.aborting = vm.aborting
        /\ u.heapMark <=> vm.heapMark
        /\ u.excess = [vm.excess EXCEPT ![s] = @ - 1]
        /\ u.contents = [vm.contents EXCEPT ![q] = @ - 1]
    BY Now DEF Typed, Fields, Quiet, Takes, Answered
  <2> HIDE DEF u
  <2>2. ASSUME Strict PROVE Claimed(u)
    <3>1. ASSUME NEW r \in Queues
          PROVE  u.contents[r] <= Count(u, ReadSynch[r]) + Own(u, r)
      <4>1. vm.contents[r] <= Count(vm, ReadSynch[r]) + Own(vm, r)
        BY <2>2, Now DEF Whole, Claimed
      <4>2. Own(u, r) = Own(vm, r) /\ Bearers(u, ReadSynch[r]) = Bearers(vm, ReadSynch[r])
        BY <2>1, QuietRuns
      <4>3. /\ ReadSynch[r] \in Semaphores /\ vm.contents[r] \in Nat
            /\ vm.excess[ReadSynch[r]] \in Nat
            /\ Cardinality(Bearers(vm, ReadSynch[r])) \in Nat
        BY Now, Kinds, BearersFinite, ExcessAssumption DEF Typed
      <4>4. r = q <=> ReadSynch[r] = s
        BY Kinds
      <4>5. Own(vm, r) \in {0, 1}
        BY DEF Own
      <4>6. CASE r = q
        <5>1. /\ u.contents[r] = vm.contents[r] - 1
              /\ u.excess[ReadSynch[r]] = vm.excess[ReadSynch[r]] - 1
          BY <1>2, <2>1, <4>6, Now DEF Typed
        <5> HIDE DEF s
        <5> QED
          BY <4>1, <4>2, <4>3, <4>5, <5>1 DEF Count
      <4>7. CASE r # q
        <5>1. /\ u.contents[r] = vm.contents[r]
              /\ u.excess[ReadSynch[r]] = vm.excess[ReadSynch[r]]
          BY <1>2, <2>1, <4>3, <4>4, <4>7, Now DEF Typed
        <5> QED
          BY <4>1, <4>2, <4>3, <4>5, <5>1 DEF Count
      <4> QED
        BY <4>6, <4>7
    <3> QED
      BY <3>1 DEF Claimed
  <2>3. Whole(u, starved) /\ Calmly(vm, u)
    BY <2>1, <2>2, QuietSame
  <2>4. Goes(u, {})
    BY <2>1, <2>3, QuietGoes
  <2> QED
    BY <1>0, <1>3, <2>3, <2>4, InCode, BecomesAdvances DEF u
<1>4. CASE /\ ~ (vm.excess[s] > 0 /\ vm.contents[q] > 0)
           /\ Becomes(WaitsForElement(vm, q)) \/ OutOfMemory(Emptied(vm, q))
  <2> DEFINE w == Emptied(vm, q)
  <2>1. vm.excess[s] = 0 \/ vm.contents[q] = 0
    BY <1>2, <1>4
  <2>2. ~ Unwinds(vm)
    BY <1>0, InCode DEF Free, Unwinds
  <2>3. vm.frame[vm.current] = "code"
    BY <1>0, InCode DEF me
  <2>4. Whole(w, starved) /\ Free(w) /\ Quiet(vm, w)
    BY <2>1, <2>2, <2>3, Now, EmptiedWhole
  <2>5. Sound(w) /\ Places(w)
    BY Now, EmptiedPlaces
  <2>6. w.aborting = vm.aborting /\ WaitsForElement(vm, q) = WaitsOn(w, s, q)
    BY Now DEF WaitsForElement, Emptied, Typed, Fields
  <2> HIDE DEF w, s
  <2>7. Calmly(vm, w) /\ Calmly(w, vm)
    BY <2>4, <2>6 DEF Calmly, Disturbed, Quiet
  <2>8. Same(w)
    BY <2>4, <2>7, QuietRuns DEF Same, Quiet, me
  <2>9. CASE Becomes(WaitsForElement(vm, q))
    <3> DEFINE u == WaitsOn(w, s, q)
    <3>1. Moves(w, u, starved)
      BY <1>2, <2>4, <2>5, WaitsOnMoves
    <3> HIDE DEF u
    <3>2. /\ Whole(u, starved) /\ Runs(w, u, {}) /\ NoneHalts(w, u) /\ Delivers(w, u)
          /\ u.current \notin u.abandoned
          /\ w.current # Base => Calmly(w, u)
      BY <3>1 DEF Moves
    <3>3. Runs(vm, u, {})
      BY <2>8, <3>2, RunsThrough DEF Same
    <3>4. host.at = "eval" \/ Calmly(vm, u)
      BY <1>0, <2>4, <2>7, <3>2, InCode DEF Quiet, Calmly, me
    <3>5. Goes(u, {})
      BY <2>8, <3>2, <3>3, <3>4 DEF Goes, Same, NoneHalts, Delivers
    <3>6. Becomes(u)
      BY <2>6, <2>9 DEF u
    <3> QED
      BY <1>0, <3>2, <3>5, <3>6, InCode, BecomesAdvances
  <2>10. CASE OutOfMemory(Emptied(vm, q))
    <3>1. Typed(w) /\ OutOfMemory(w)
      BY <2>5, <2>10 DEF w, Sound, Core
    <3> QED
      BY <1>0, <2>4, <2>8, <3>1, InCode, AbortsAdvances
  <2> QED
    BY <1>4, <2>9, <2>10
<1> QED
  BY <1>1, <1>3, <1>4
LEMMA CodeAdvances == IAnswers /\ Code => Advances
BY TroubleAdvances, ForkAdvances, YieldAdvances, WaitAdvances,
   SignalSemaphoreAdvances, SuspendAdvances, ResumeAdvances, TerminateAdvances,
   NextPutAdvances, NextElementAdvances DEF Code

\* The dead are released before anything else of a process that runs again.
LEMMA Reaped ==
  ASSUME IAnswers
  PROVE  LET t == ReapDead(vm) IN
         /\ Sound(t) /\ Typed(t) /\ Places(t) /\ Whole(t, starved)
         /\ Runs(vm, t, {}) /\ NoneHalts(vm, t) /\ Calmly(vm, t)
         /\ t.frame[me] = vm.frame[me] /\ t.current = me
         /\ t.signaledBy = vm.signaledBy /\ t.contents = vm.contents
         /\ t.condemned = vm.condemned /\ t.deadlocked = vm.deadlocked
         /\ t.abandoned \subseteq vm.abandoned
         /\ Unwinds(t) = Unwinds(vm)
<1> DEFINE t == ReapDead(vm)
<1>1. Sound(t)
  BY Now, ReapDeadKeeps
<1>2. Places(t)
  BY Now, ReapDeadPlaces
<1>3. /\ Whole(t, starved) /\ Runs(vm, t, {}) /\ NoneHalts(vm, t)
      /\ Calmly(vm, t) /\ t.frame[t.current] = vm.frame[vm.current]
      /\ t.current = vm.current /\ t.signaledBy = vm.signaledBy
      /\ t.contents = vm.contents
      /\ t.condemned = vm.condemned /\ t.deadlocked = vm.deadlocked
      /\ t.abandoned \subseteq vm.abandoned
      /\ Unwinds(t) = Unwinds(vm)
  BY Now, ReapDeadRest
<1> HIDE DEF t
<1> QED
  BY <1>1, <1>2, <1>3 DEF t, Sound, Core, me

LEMMA ResumesAdvances == IAnswers /\ Resumes => Advances
<1> SUFFICES ASSUME IAnswers, Resumes PROVE Advances
  OBVIOUS
<1> DEFINE t == ReapDead(vm)
           f == vm.frame[me]
<1>1. f \notin {"new", "code"}
  BY DEF Resumes
<1>2. /\ Sound(t) /\ Typed(t) /\ Places(t) /\ Whole(t, starved)
      /\ Runs(vm, t, {}) /\ NoneHalts(vm, t) /\ Calmly(vm, t)
      /\ t.frame[me] = f /\ t.current = me
      /\ t.signaledBy = vm.signaledBy /\ t.contents = vm.contents
      /\ t.condemned = vm.condemned /\ t.deadlocked = vm.deadlocked
      /\ t.abandoned \subseteq vm.abandoned
      /\ Unwinds(t) = Unwinds(vm)
  BY Reaped
<1>3. host.at \notin {"idle", "closed"}
  BY <1>1, Now DEF Calm
<1>4. me = Base /\ f \in Queues => host.at = "eval"
  BY Now DEF Calm, Disturbed
<1>5. \/ Becomes(Continues(t))
      \/ /\ f \in Queues /\ ~ Unwinds(vm) /\ vm.contents[f] = 0
         /\ OutOfMemory([Emptied(t, f) EXCEPT !.frame[me] = "code"])
  BY DEF Resumes
<1> HIDE DEF t
<1>6. CASE Becomes(Continues(t))
  <2> DEFINE u == Continues(t)
  <2>1. /\ Whole(u, starved) /\ Runs(t, u, {}) /\ NoneHalts(t, u) /\ Delivers(t, u)
        /\ \/ u.current \notin u.abandoned
           \/ t.current \in t.abandoned
        /\ \/ host.at = "eval" \/ Calmly(t, u)
           \/ t.current = Base /\ t.frame[Base] \in Queues
    BY <1>1, <1>2, ContinuesWhole
  <2> HIDE DEF u
  <2>2. Runs(vm, u, {})
    BY <1>2, <2>1, RunsThrough
  <2>3. u.current \in u.abandoned => me \in vm.abandoned
    BY <1>2, <2>1
  <2>4. host.at = "eval" \/ Calmly(vm, u)
    <3> HIDE DEF f
    <3> QED
      BY <1>2, <1>4, <2>1 DEF Calmly
  <2>5. NoneHalts(vm, u) /\ Delivers(vm, u)
    BY <1>2, <2>1 DEF NoneHalts, Delivers
  <2>6. Goes(u, {})
    BY <2>2, <2>3, <2>4, <2>5 DEF Goes
  <2>7. Becomes(u) /\ vm.frame[me] # "new" /\ awaited \notin {}
    BY <1>1, <1>6 DEF u
  <2> QED
    BY <1>3, <2>1, <2>6, <2>7, BecomesAdvances
<1>7. CASE /\ f \in Queues /\ ~ Unwinds(vm) /\ vm.contents[f] = 0
           /\ OutOfMemory([Emptied(t, f) EXCEPT !.frame[me] = "code"])
  <2> DEFINE w == Emptied(t, f)
             u == [w EXCEPT !.frame[me] = "code"]
  <2>1. /\ f \in Queues /\ ~ Unwinds(t) /\ t.frame[t.current] = f
        /\ t.contents[f] = 0
    BY <1>2, <1>7
  <2>2. OutOfMemory(u)
    BY <1>7
  <2> HIDE DEF f
  <2>3. Whole(w, starved) /\ Free(w) /\ Quiet(t, w)
    BY <1>2, <2>1, EmptiedWhole
  <2>4. Sound(w)
    BY <1>2, <2>1, EmptiedPlaces
  <2>5. w.aborting = t.aborting
    BY <1>2 DEF Emptied, Typed, Fields
  <2>6. w.current = me
    BY <1>2, <2>3 DEF Quiet
  <2> HIDE DEF w
  <2>7. "code" \in Frames /\ me \in Proc
    BY Now DEF Frames
  <2>8. Sound(u)
    BY <2>4, <2>7, FrameKeeps
  <2>9. /\ ToCode(w, u) /\ u.aborting = w.aborting
        /\ u.excess = w.excess /\ u.contents = w.contents
    BY <2>3, <2>4, <2>6 DEF Sound, Core, Typed, Fields, ToCode, Free
  <2> HIDE DEF u
  <2>10. Strict => Covered(u)
    <3>1. \A z : Bearers(u, z) = Bearers(w, z)
      BY <2>9 DEF ToCode, Bearers
    <3> QED
      BY <2>3, <2>9, <3>1 DEF Free, Covered, Count
  <2>11. Typed(u)
    BY <2>8 DEF Sound, Core
  <2>12. Whole(u, starved) /\ Runs(w, u, {}) /\ NoneHalts(w, u)
    BY <2>3, <2>4, <2>9, <2>10, <2>11, ToCodeWhole
  <2>13. Same(u)
    <3>1. Runs(t, w, {}) /\ NoneHalts(t, w)
      BY <2>3, QuietRuns
    <3>2. Runs(t, u, {})
      BY <2>12, <3>1, RunsThrough
    <3>3. Runs(vm, u, {})
      BY <1>2, <3>2, RunsThrough
    <3>4. NoneHalts(vm, u)
      BY <1>2, <2>12, <3>1 DEF NoneHalts
    <3>5. /\ u.current = me /\ u.signaledBy = vm.signaledBy
          /\ u.abandoned \subseteq vm.abandoned
      BY <1>2, <2>3, <2>9 DEF Quiet, ToCode
    <3>6. me # Base => Calmly(vm, u)
      <4>1. me # Base => Calmly(t, u)
        <5> SUFFICES ASSUME me # Base PROVE Calmly(t, u)
          OBVIOUS
        <5>1. u.frame[Base] = t.frame[Base]
          BY <1>2, <2>3, <2>6, <2>9, Names DEF Quiet, ToCode, Typed
        <5> QED
          BY <2>5, <2>9, <5>1 DEF Calmly, Disturbed
      <4> QED
        BY <1>2, <4>1 DEF Calmly
    <3> QED
      BY <3>3, <3>4, <3>5, <3>6 DEF Same
  <2>14. host.at = "eval" \/ me # Base
    BY <1>4, <2>1
  <2>15. vm.frame[me] # "new"
    BY <1>1 DEF f
  <2> QED
    BY <1>3, <2>2, <2>11, <2>12, <2>13, <2>14, <2>15, AbortsAdvances
<1> QED
  BY <1>5, <1>6, <1>7

LEMMA BeginsAdvances == IAnswers /\ Begins => Advances
<1> SUFFICES ASSUME IAnswers, Begins PROVE Advances
  OBVIOUS
<1> DEFINE t == ReapDead(vm)
           u == [t EXCEPT !.frame[me] = "code"]
<1>1. vm.frame[me] = "new" /\ Becomes(u)
  BY DEF Begins
<1>2. /\ Sound(t) /\ Typed(t) /\ Places(t) /\ Whole(t, starved)
      /\ Runs(vm, t, {}) /\ NoneHalts(vm, t) /\ Calmly(vm, t)
      /\ t.frame[me] = vm.frame[me] /\ t.current = me
      /\ t.signaledBy = vm.signaledBy
      /\ t.condemned = vm.condemned /\ t.deadlocked = vm.deadlocked
      /\ t.abandoned \subseteq vm.abandoned
  BY Reaped
<1> HIDE DEF t
<1>3. me # Base /\ vm.condemned = {} /\ vm.deadlocked = {}
  BY <1>1, Now DEF Whole, Settles
<1>4. host.at \notin {"idle", "closed"}
  BY <1>1, Now DEF Calm
<1>5. "code" \in Frames /\ me \in Proc
  BY Now DEF Frames
<1>6. Sound(u)
  BY <1>2, <1>5, FrameKeeps
<1>7. /\ ToCode(t, u) /\ u.aborting = t.aborting
      /\ u.excess = t.excess /\ u.contents = t.contents
  BY <1>2, <1>3 DEF Typed, Fields, ToCode
<1> HIDE DEF u
<1>8. Strict => Covered(u)
  <2>1. Strict => Covered(t)
    BY <1>1, <1>2, OwnNothing, Kinds DEF Whole
  <2>2. \A z : Bearers(u, z) = Bearers(t, z)
    BY <1>7 DEF ToCode, Bearers
  <2> QED
    BY <1>7, <2>1, <2>2 DEF Covered, Count
<1>9. Typed(u)
  BY <1>6 DEF Sound, Core
<1>10. Whole(u, starved) /\ Runs(t, u, {}) /\ NoneHalts(t, u) /\ Delivers(t, u)
  BY <1>2, <1>7, <1>8, <1>9, ToCodeWhole
<1>11. Goes(u, {})
  <2>1. Runs(vm, u, {})
    BY <1>2, <1>10, RunsThrough
  <2>2. NoneHalts(vm, u) /\ Delivers(vm, u)
    BY <1>2, <1>10 DEF NoneHalts, Delivers
  <2>3. u.current \in u.abandoned => me \in vm.abandoned
    BY <1>2, <1>7 DEF ToCode
  <2>4. Calmly(t, u)
    <3>1. u.frame[Base] = t.frame[Base]
      BY <1>2, <1>3, <1>7, Names DEF ToCode, Typed
    <3> QED
      BY <1>7, <3>1 DEF Calmly, Disturbed
  <2> QED
    BY <1>2, <2>1, <2>2, <2>3, <2>4 DEF Goes, Calmly
<1>12. u.frame[me] # "new" /\ awaited \notin {}
  BY <1>2, <1>5, <1>7 DEF ToCode, Typed
<1> QED
  BY <1>1, <1>4, <1>10, <1>11, <1>12, BecomesAdvances
\* The body ends, and with it the evaluation the base may wait for.
LEMMA EndBodyAdvances == IAnswers /\ EndBody => Advances
<1> SUFFICES ASSUME IAnswers, NEW lost \in BOOLEAN, Ends(lost) PROVE Advances
  BY DEF EndBody
<1> DEFINE c == vm.current
           t == [vm EXCEPT !.heapMark = FALSE]
           m == [vm EXCEPT !.state[c] = "Dead", !.myList[c] = Nil, !.heapMark = FALSE]
           u == SwitchAway(m, m.current)
           fails == me \in vm.aborting \/ vm.heapMark \/ lost
<1>1. /\ vm.frame[c] = "code" /\ c # Base /\ c = me /\ c \in Proc
      /\ vm.state[c] = "Running" /\ evalEnd' = Answer(c, fails)
      /\ vm' = SwitchAway(m, c)
      /\ UNCHANGED <<host, awaited, starved>>
  BY Now DEF Ends, me
<1>2. Sound(t) /\ Places(t) /\ Typed(t)
  BY Now, UnmarkedSound, ClearedPlaces DEF IPlaces, Sound, Core
<1>3. /\ Quiet(vm, t) /\ t.aborting = vm.aborting /\ t.heapMark = FALSE
      /\ t.excess = vm.excess /\ t.contents = vm.contents
      /\ t.ready = vm.ready /\ t.quiescent = vm.quiescent
      /\ t.awaiting = vm.awaiting /\ t.current = c
  BY Now DEF Typed, Fields, Quiet
<1>4. Typed(m)
  BY Now, SMTT(30) DEF Typed, States, Fields
<1>5. /\ m.state = [t.state EXCEPT ![c] = "Dead"]
      /\ m.ready = t.ready /\ m.quiescent = t.quiescent
      /\ m.awaiting = t.awaiting /\ m.waitingOn = t.waitingOn
      /\ m.frame = t.frame /\ m.current = c
      /\ m.signaledBy = t.signaledBy /\ m.aborting = t.aborting
      /\ SameFlags(t, m)
  BY Now DEF Typed, Fields, SameFlags
<1> HIDE DEF t, m, fails
<1>6. "Dead" \in States \ {"Ready", "Running"}
  BY DEF States
<1>7. Core(m) /\ Parked(m)
  BY <1>2, <1>3, <1>4, <1>5, <1>6, StopParks
<1>8. /\ \A q : Own(t, q) = Own(vm, q)
      /\ \A s : Bearers(t, s) = Bearers(vm, s)
      /\ Runs(vm, t, {}) /\ NoneHalts(vm, t) /\ Delivers(vm, t)
  BY <1>3, QuietRuns
<1>9. Strict => Claimed(t) /\ Covered(t)
  <2>1. Strict => Claimed(t)
    BY <1>3, <1>8, Now, ClaimedDepends DEF Whole
  <2>2. t.frame[t.current] \notin Queues
    BY <1>1, <1>3, Kinds DEF Quiet
  <2> QED
    BY <1>2, <2>1, <2>2, OwnNothing
<1>10. Whole(t, starved)
  <2>1. starved \subseteq starved
    OBVIOUS
  <2> QED
    BY <1>3, <1>9, <2>1, Now, QuietWhole
<1>11. t.condemned = {} /\ t.deadlocked = {}
  BY <1>1, <1>3, Now DEF Whole, Settles, Quiet
<1>12. Stopped(t, m, "Dead", "code")
  <2>1. m.frame = [t.frame EXCEPT ![c] = "code"]
    BY <1>1, <1>2, <1>3, <1>5 DEF Quiet, Typed
  <2>2. \A z : ~ Waits(m, c, z)
    BY <1>1, <1>2, <1>5 DEF Waits, Typed
  <2> QED
    BY <1>3, <1>5, <2>1, <2>2 DEF Stopped, StopStates
<1>13. PICK x, f : x = "Dead" /\ f = "code"
  OBVIOUS
<1>14. Stopped(t, m, x, f) /\ x # "Halted" /\ (x = "Dead" => t.current # Base)
  BY <1>1, <1>3, <1>12, <1>13
<1>15. /\ Whole(u, starved) /\ Runs(t, u, {t.current})
       /\ NoneHalts(t, u) /\ Delivers(t, u) /\ u.current \notin u.abandoned
       /\ t.current # Base => Calmly(t, u)
  BY <1>2, <1>7, <1>9, <1>10, <1>11, <1>13, <1>14, StopMoves
<1>16. vm' = u
  BY <1>1, <1>5
<1>17. u.state[c] = "Dead"
  <2>1. m.state[Base] \in BaseStates /\ m.signaledBy[m.current] = Nil
    <3>1. t.state[Base] \in BaseStates
      BY <1>2 DEF Places, Ranked
    <3>2. t.signaledBy[t.current] = Nil
      BY <1>2, <1>10, RunnerBearsNone DEF Whole
    <3> QED
      BY <1>1, <1>2, <1>3, <1>5, <3>1, <3>2, Names DEF Typed
  <2>2. Switches(m, u)
    BY <1>7, <2>1, SwitchAwaySwitches
  <2>3. m.state[c] = "Dead"
    BY <1>1, <1>2, <1>5 DEF Typed
  <2> HIDE DEF u
  <2>4. u.current # c
    BY <2>2, <2>3 DEF Switches, LiveStates
  <2> QED
    BY <1>1, <2>2, <2>3, <2>4 DEF Switches
<1> HIDE DEF u
<1>18. Runs(vm, u, {c})
  BY <1>3, <1>15 DEF Runs, Quiet, Alive
<1>19. Cardinality(HaltedOf(vm')) <= MaxHalted
  BY <1>8, <1>15, <1>16, HaltsBounded DEF NoneHalts
<1>20. Calm'
  <2>1. Calmly(vm, u)
    BY <1>1, <1>3, <1>15 DEF Calmly, Disturbed, Quiet
  <2>2. host.at \notin {"idle", "closed"}
    BY <1>1, Now DEF Calm
  <2> QED
    BY <1>1, <1>15, <1>16, <2>1, <2>2, Now DEF Calm, Calmly, me
<1>21. ~ MaySuspend => KeepsSignals
  BY <1>3, <1>15, <1>16, DeliversKeeps DEF Delivers, Quiet
<1>22. CASE awaited = c
  <2>1. c \in vm.evals /\ host.at = "await"
    BY <1>1, <1>22, Now, Names DEF Owes
  <2>2. c \notin vm.abandoned
    BY <1>1, <2>1, Now DEF Calm
  <2>3. evalEnd' \in {"Finished", "Failed"}
    BY <1>1, <1>22, <2>1, <2>2 DEF Answer
  <2>4. Owes'
    BY <1>1, <1>16, <1>17, <1>22, <2>1, <2>3, Names DEF Owes
  <2>5. Bounded'
    BY <1>16, <1>18, <1>19, BoundsKept
  <2> QED
    BY <1>1, <1>15, <1>16, <1>20, <1>21, <2>4, <2>5 DEF Advances
<1>23. CASE awaited # c
  <2>1. evalEnd' = evalEnd /\ awaited \notin {c}
    BY <1>1, <1>23 DEF Answer
  <2>2. vm.frame[me] # "new"
    BY <1>1
  <2> QED
    BY <1>1, <1>15, <1>16, <1>18, <1>19, <1>20, <1>21, <2>1, <2>2, Advance
<1> QED
  BY <1>22, <1>23
-----------------------------------------------------------------------------
\* The calls of the host and its loops.

\* What a host call is entitled to: only one that abandons processes gets to.
Entitled(h) ==
  (h.at \in {"terminate", "abandon"} \/ h.pass > 0 \/ h.entry = "test") => MayAbandon

LEMMA HostSays ==
  /\ Entitled(Idle) /\ Entitled([Idle EXCEPT !.at = "await"])
  /\ Entitled([Idle EXCEPT !.at = "closed"])
  /\ \A b : Entitled(Draining("eval", b))
  /\ Entitled(Evaluating("eval")) /\ Entitled(Evaluating("send"))
  /\ MayAbandon => \A h : Entitled(h)
BY DEF Entitled, Idle, Draining, Evaluating

\* The base is in none of its operations.
LEMMA HostFree ==
  ASSUME IAnswers, NEW at, InHost(at)
  PROVE  /\ host.at = at /\ me = Base /\ vm.current = Base
         /\ vm.frame[me] = "code" /\ vm.frame[me] # "new"
         /\ vm.frame[Base] = "code"
         /\ Base \notin vm.abandoned /\ Free(vm) /\ Same(vm)
         /\ vm.frame[Base] \notin Queues
         /\ Entitled(host)
         /\ at # "eval" => Base \notin vm.aborting
         /\ at # "await" => awaited = Nobody
<1>1. host.at = at /\ me = Base /\ vm.frame[Base] = "code"
  BY DEF InHost
<1>2. Base \notin vm.abandoned
  BY Now DEF Whole, Settles
<1>3. Free(vm)
  BY <1>1, <1>2, Now, InCodeFree
<1>4. vm.frame[Base] \notin Queues
  BY <1>1, Kinds
<1>5. Entitled(host) /\ (at # "eval" => Base \notin vm.aborting)
  BY <1>1, Now DEF Calm, Disturbed, Entitled
<1>6. Same(vm)
  BY <1>1, Now DEF Same
<1>7. at # "await" => awaited = Nobody
  BY <1>1, Now DEF Owes
<1> QED
  BY <1>1, <1>2, <1>3, <1>4, <1>5, <1>6, <1>7 DEF me

\* A step of the base that switches to a process, or to nobody.
LEMMA HostAdvances ==
  ASSUME IAnswers, NEW at, InHost(at), NEW X, Whole(vm', starved'),
         Runs(vm, vm', X), NoneHalts(vm, vm'), awaited \notin X,
         UNCHANGED <<awaited, evalEnd>>,
         host'.at = "await" <=> host.at = "await",
         host'.at \notin {"idle", "closed"},
         Disturbed(vm') => host'.at = "eval",
         vm'.current \in vm'.abandoned => host'.at = "abandon",
         Entitled(host'), ~ MaySuspend => KeepsSignals
  PROVE  Advances
<1>1. Cardinality(HaltedOf(vm')) <= MaxHalted
  BY HaltsBounded
<1>2. Calm'
  BY DEF Calm, Entitled, me
<1>3. vm.frame[me] # "new" \/ vm'.frame[me] # "new"
  BY HostFree
<1> QED
  BY <1>1, <1>2, <1>3, Advance

\* A step of the base that leaves every process where it is.
Rests == /\ Quiet(vm, vm')
         /\ vm'.excess = vm.excess /\ vm'.contents = vm.contents
         /\ vm'.heapMark => vm.heapMark \/ Base \in starved'
         /\ starved \subseteq starved'
         /\ Base \in vm'.aborting => host'.at = "eval"
         /\ host'.at = "closed" => LiveFibers(vm) = {}
         /\ Entitled(host')

LEMMA RestsHolds ==
  ASSUME IAnswers, NEW at, InHost(at), Rests
  PROVE  /\ Whole(vm', starved') /\ Runs(vm, vm', {}) /\ Calm'
         /\ Bounded' /\ (~ MaySuspend => KeepsSignals)
<1>1. /\ Runs(vm, vm', {}) /\ NoneHalts(vm, vm') /\ Delivers(vm, vm')
      /\ \A q : Own(vm', q) = Own(vm, q)
      /\ \A s : Bearers(vm', s) = Bearers(vm, s)
  BY QuietRuns DEF Rests
<1>2. Strict => Claimed(vm')
  BY <1>1, Now, ClaimedDepends DEF Whole, Rests
<1>3. Whole(vm', starved')
  BY <1>2, HostFree, Now, QuietWhole DEF Rests
<1>4. Bounded'
  BY <1>1, HaltsBounded, BoundsKept
<1>5. Calm'
  <2>1. LiveFibers(vm') = LiveFibers(vm)
    BY DEF Rests, Quiet, LiveFibers, Live
  <2>2. vm'.current = Base /\ vm'.frame[Base] = "code" /\ Base \notin vm'.abandoned
    BY HostFree DEF Rests, Quiet
  <2>3. Disturbed(vm') => host'.at = "eval"
    BY <2>2, Kinds DEF Rests, Disturbed
  <2> QED
    BY <2>1, <2>2, <2>3 DEF Calm, Entitled, Rests, me
<1> QED
  BY <1>1, <1>3, <1>4, <1>5, DeliversKeeps

LEMMA RestsAdvances ==
  ASSUME IAnswers, NEW at, InHost(at), Rests, UNCHANGED <<awaited, evalEnd>>,
         host'.at = "await" <=> host.at = "await"
  PROVE  Advances
<1>1. /\ Whole(vm', starved') /\ Runs(vm, vm', {}) /\ Calm'
      /\ Bounded' /\ (~ MaySuspend => KeepsSignals)
  BY RestsHolds
<1>2. vm.frame[me] # "new" \/ vm'.frame[me] # "new"
  BY HostFree
<1>3. Cardinality(HaltedOf(vm')) <= MaxHalted
  BY <1>1 DEF Bounded, HaltedOf
<1>4. awaited \notin {}
  OBVIOUS
<1> QED
  BY <1>1, <1>2, <1>3, <1>4, Advance

\* What the host clears.
LEMMA ClearedRest ==
  ASSUME IAnswers
  PROVE  /\ Quiet(vm, Cleared) /\ Cleared.excess = vm.excess
         /\ Cleared.contents = vm.contents /\ Base \notin Cleared.aborting
         /\ Cleared.heapMark = FALSE
         /\ LET t == [vm EXCEPT !.aborting = @ \ {Base}] IN
            /\ Quiet(vm, t) /\ t.excess = vm.excess /\ t.contents = vm.contents
            /\ Base \notin t.aborting
            /\ t.heapMark <=> vm.heapMark
         /\ LET t == [vm EXCEPT !.heapMark = FALSE] IN
            /\ Quiet(vm, t) /\ t.excess = vm.excess /\ t.contents = vm.contents
            /\ t.aborting = vm.aborting
            /\ t.heapMark = FALSE
BY Now DEF Typed, Fields, Cleared, Quiet
\* The base goes on with h, and t is vm with less of the base's own failures.
LEMMA Onwards ==
  ASSUME IAnswers, NEW at, InHost(at), NEW t, NEW h,
         \/ t = vm /\ at # "eval"
         \/ t = Cleared
         \/ t = [vm EXCEPT !.aborting = @ \ {Base}]
         \/ t = [vm EXCEPT !.heapMark = FALSE] /\ at # "eval",
         \/ HostBecomes(t, h)
         \/ HostOutOfMemory(t, h) /\ t \in {vm, Cleared},
         h.at = "await" <=> at = "await",
         h.at = "closed" => LiveFibers(vm) = {},
         Entitled(h)
  PROVE  Advances
<1>1. /\ Quiet(vm, t) /\ t.excess = vm.excess /\ t.contents = vm.contents
      /\ (t.heapMark => vm.heapMark) /\ Base \notin t.aborting
  BY ClearedRest, HostFree DEF Quiet
<1>2. /\ host' = h /\ UNCHANGED <<awaited, evalEnd>> /\ host.at = at
  BY HostFree DEF HostBecomes, HostOutOfMemory
<1>3. CASE HostBecomes(t, h)
  <2>1. vm' = t /\ starved' = starved
    BY <1>3 DEF HostBecomes
  <2>2. Rests
    BY <1>1, <1>2, <2>1 DEF Rests
  <2> QED
    BY <1>2, <2>2, RestsAdvances
<1>4. CASE HostOutOfMemory(t, h) /\ t \in {vm, Cleared}
  <2>1. vm' = [t EXCEPT !.heapMark = TRUE] /\ starved' = starved \cup {Base}
    BY <1>4 DEF HostOutOfMemory
  <2>2. Typed(t)
    BY <1>4, Now, ClearedSound DEF IPlaces, Sound, Core
  <2>3. /\ vm'.excess = t.excess /\ vm'.contents = t.contents
        /\ vm'.aborting = t.aborting /\ Quiet(t, vm')
    BY <2>1, <2>2 DEF Typed, Fields, Quiet
  <2>4. Quiet(vm, vm')
    BY <1>1, <2>3 DEF Quiet
  <2>5. Rests
    BY <1>1, <1>2, <2>1, <2>3, <2>4 DEF Rests
  <2> QED
    BY <1>2, <2>5, RestsAdvances
<1> QED
  BY <1>3, <1>4

LEMMA EvalAdvances == IAnswers /\ Eval => Advances
<1> SUFFICES ASSUME IAnswers, NEW entry \in Entries, Called(entry),
                    HostBecomes(Cleared, Evaluating(entry))
             PROVE  Advances
  BY DEF Eval
<1>1. InHost("idle") /\ entry \in HostCalls
  BY DEF Called
<1>2. Entitled(Evaluating(entry))
  BY <1>1, HostSays DEF Entries, MayAbandon
<1>3. Evaluating(entry).at = "eval"
  BY HostTyped
<1> QED
  BY <1>1, <1>2, <1>3, Onwards

LEMMA CloseAdvances == IAnswers /\ Close => Advances
<1> SUFFICES ASSUME IAnswers, Called("close"), HostBecomes(vm, Abandoning(TRUE))
             PROVE  Advances
  BY DEF Close
<1>1. InHost("idle") /\ MayAbandon
  BY DEF Called, MayAbandon
<1>2. PICK h : h = Abandoning(TRUE)
  OBVIOUS
<1>3. h.at = "abandon"
  BY <1>2 DEF Abandoning, Idle
<1>4. HostBecomes(vm, h)
  BY <1>2
<1>5. Entitled(h)
  BY <1>1, HostSays
<1> QED
  BY <1>1, <1>3, <1>4, <1>5, Onwards

LEMMA EvalEndsAdvances == IAnswers /\ EvalEnds => Advances
<1> SUFFICES ASSUME IAnswers, EvalEnds PROVE Advances
  OBVIOUS
<1>1. InHost("eval")
  BY DEF EvalEnds
<1>2. PICK h : /\ \/ HostBecomes([vm EXCEPT !.aborting = @ \ {Base}], h)
                  \/ HostBecomes(Cleared, h)
               /\ \/ \E b \in BOOLEAN : h = Draining("eval", b)
                  \/ h = Draining("test", FALSE) /\ host.entry = "test"
                  \/ h = Idle
  BY DEF EvalEnds, Fails
<1>3. h.at \in {"drain", "idle"}
  BY <1>2, HostTyped DEF Entries
<1>4. Entitled(h)
  BY <1>1, <1>2, HostFree, HostSays DEF Entitled
<1> QED
  BY <1>1, <1>2, <1>3, <1>4, Onwards

LEMMA DrainEndsAdvances == IAnswers /\ DrainEnds => Advances
<1> SUFFICES ASSUME IAnswers, InHost("drain"),
                    \/ HostBecomes(vm, Idle)
                    \/ HostBecomes([vm EXCEPT !.heapMark = FALSE], Idle)
             PROVE  Advances
  BY DEF DrainEnds, Drained
<1>1. Entitled(Idle) /\ Idle.at = "idle"
  BY HostSays, HostTyped
<1> QED
  BY <1>1, Onwards

LEMMA PassesAdvance ==
  IAnswers /\ (TerminateAll \/ TerminatedNext \/ PassDrains \/ PassEnds) => Advances
<1> SUFFICES ASSUME IAnswers, TerminateAll \/ TerminatedNext \/ PassDrains \/ PassEnds
             PROVE  Advances
  OBVIOUS
<1>1. host \in HostRecords /\ IInv
  BY Now, HostNow DEF IPlaces
<1>2. InHost("drain") \/ InHost("terminate")
  BY DEF TerminateAll, TerminatedNext, PassDrains, PassEnds, Drained
<1>3. MayAbandon
  BY <1>1, <1>2, HostFree DEF Entitled, TerminateAll, TerminatedNext, PassDrains,
                             PassEnds, Drained, InHost, HostRecords
<1>4. PICK h : HostBecomes(vm, h) /\ h.at \in {"terminate", "abandon", "drain"}
  <2>1. \A b \in BOOLEAN : [host EXCEPT !.doing = Nobody, !.ended = b].at = host.at
    BY <1>1 DEF HostRecords
  <2>2. [host EXCEPT !.at = "drain", !.rounds = DrainRounds].at = "drain"
    BY <1>1 DEF HostRecords
  <2>3. \A n : Passing(n).at = "terminate"
    BY DEF Passing, Idle
  <2>4. \A b \in BOOLEAN : Abandoning(b).at = "abandon"
    BY HostTyped
  <2>5. TerminatedNext => InHost("terminate")
    BY DEF TerminatedNext
  <2>6. ASSUME TerminatedNext
        PROVE  \E h : HostBecomes(vm, h) /\ h.at \in {"terminate", "abandon", "drain"}
    <3>1. PICK b \in BOOLEAN :
            HostBecomes(vm, [host EXCEPT !.doing = Nobody, !.ended = b])
      BY <1>1, <2>6 DEF TerminatedNext, HostRecords
    <3> QED
      BY <2>1, <2>6, <3>1 DEF TerminatedNext, InHost
  <2>7. ASSUME TerminateAll \/ PassEnds
        PROVE  \E h : HostBecomes(vm, h) /\ h.at \in {"terminate", "abandon", "drain"}
    BY <2>3, <2>4, <2>7 DEF TerminateAll, PassEnds
  <2>8. ASSUME PassDrains
        PROVE  \E h : HostBecomes(vm, h) /\ h.at \in {"terminate", "abandon", "drain"}
    BY <2>2, <2>8 DEF PassDrains
  <2> QED
    BY <2>6, <2>7, <2>8
<1>5. Entitled(h)
  BY <1>3, HostSays
<1> QED
  BY <1>2, <1>4, <1>5, Onwards

LEMMA AbandonEndsAdvances == IAnswers /\ AbandonEnds => Advances
<1> SUFFICES ASSUME IAnswers, AbandonEnds PROVE Advances
  OBVIOUS
<1>1. InHost("abandon") /\ LiveFibers(vm) = {}
  BY DEF AbandonEnds
<1>2. PICK h : /\ HostBecomes([vm EXCEPT !.aborting = @ \ {Base}], h)
               /\ h \in {Idle, [Idle EXCEPT !.at = "closed"]}
  BY DEF AbandonEnds
<1>3. Entitled(h) /\ h.at # "await"
  BY <1>2, HostSays, HostTyped
<1> QED
  BY <1>1, <1>2, <1>3, Onwards

\* The base takes the outcome and waits for nobody any more.
LEMMA AwaitDoneAdvances == IAnswers /\ AwaitDone => Advances
<1> SUFFICES ASSUME IAnswers, AwaitDone PROVE Advances
  OBVIOUS
<1> DEFINE t == [vm EXCEPT !.aborting = @ \ {Base}]
<1>1. /\ InHost("await") /\ vm' = t /\ awaited' = Nobody /\ starved' = starved
      /\ \/ host' = Evaluating("eval")
         \/ \E b \in BOOLEAN : host' = Draining("eval", b)
  BY DEF AwaitDone, Fails
<1>2. host'.at \in {"eval", "drain"} /\ Entitled(host')
  BY <1>1, HostTyped, HostSays DEF Entries
<1>3. /\ Quiet(vm, t) /\ t.excess = vm.excess /\ t.contents = vm.contents
      /\ Base \notin t.aborting
      /\ t.heapMark <=> vm.heapMark
  BY ClearedRest
<1> HIDE DEF t
<1>4. Rests
  BY <1>1, <1>2, <1>3 DEF Rests
<1>5. /\ Whole(vm', starved') /\ Runs(vm, vm', {}) /\ Calm'
      /\ Bounded' /\ (~ MaySuspend => KeepsSignals)
  BY <1>1, <1>4, RestsHolds
<1>6. Owes'
  BY <1>1, <1>2 DEF Owes
<1> QED
  BY <1>5, <1>6 DEF Advances

LEMMA ClosedAdvances == IAnswers /\ Closed => Advances
<1> SUFFICES ASSUME IAnswers, InHost("closed"), UNCHANGED vars PROVE Advances
  BY DEF Closed
<1>1. HostBecomes(vm, host)
  BY DEF vars, HostBecomes
<1>2. Entitled(host) /\ host.at = "closed" /\ LiveFibers(vm) = {}
  BY HostFree, Now DEF Calm
<1> QED
  BY <1>1, <1>2, Onwards

LEMMA YieldsAdvance ==
  ASSUME IAnswers, InHost("await"), Becomes(YieldFrom(vm))
  PROVE  Advances
<1> DEFINE u == YieldFrom(vm)
<1>1. Moves(vm, u, starved) /\ Calmly(vm, u)
  BY Now, HostFree, YieldMoves
<1> HIDE DEF u
<1>2. Whole(u, starved) /\ Goes(u, {})
  BY <1>1 DEF Moves, Goes
<1>3. host.at \notin {"idle", "closed"} /\ vm.frame[me] # "new" /\ awaited \notin {}
  BY HostFree
<1> QED
  BY <1>2, <1>3, BecomesAdvances DEF u

LEMMA DrainAdvances == IAnswers /\ Drain => Advances
<1> SUFFICES ASSUME IAnswers, InHost("drain"), host.rounds > 0,
                    LET rest == [host EXCEPT !.rounds = @ - 1]
                    IN HostBecomes(YieldFrom(vm), rest) \/ HostOutOfMemory(vm, rest)
             PROVE  Advances
  BY Now, DrainIs
<1> DEFINE u == YieldFrom(vm)
           h == [host EXCEPT !.rounds = @ - 1]
<1>1. h.at = "drain" /\ h.pass = host.pass /\ h.entry = host.entry
  BY Now, HostNow, HostFree DEF IPlaces, HostRecords
<1>2. Entitled(h)
  BY <1>1, HostFree DEF Entitled
<1>3. HostBecomes(u, h) \/ HostOutOfMemory(vm, h)
  OBVIOUS
<1> HIDE DEF h
<1>4. CASE HostBecomes(u, h)
  <2>1. Moves(vm, u, starved) /\ Calmly(vm, u)
    BY Now, HostFree, YieldMoves
  <2> HIDE DEF u
  <2>2. /\ vm' = u /\ host' = h /\ starved' = starved
        /\ UNCHANGED <<awaited, evalEnd>>
    BY <1>4 DEF HostBecomes
  <2>3. /\ Whole(u, starved) /\ Runs(vm, u, {}) /\ NoneHalts(vm, u)
        /\ u.current \notin u.abandoned /\ Delivers(vm, u)
    BY <2>1 DEF Moves
  <2>4. ~ Disturbed(u)
    BY <2>1, HostFree DEF Calmly, Disturbed
  <2>5. awaited \notin {} /\ host.at = "drain" /\ (~ MaySuspend => KeepsSignals)
    BY <2>2, <2>3, DeliversKeeps, HostFree
  <2> QED
    BY <1>1, <1>2, <2>2, <2>3, <2>4, <2>5, HostAdvances
<1>5. CASE HostOutOfMemory(vm, h)
  BY <1>1, <1>2, <1>5, Onwards
<1> QED
  BY <1>3, <1>4, <1>5
\* The base switches to p and waits for its evaluation.
LEMMA AwaitsIt ==
  ASSUME IAnswers, NEW at, InHost(at), NEW t, NEW w, NEW p \in Fibers,
         Sound(t), Whole(t, starved), Free(t), t.current = Base, ~ Disturbed(t),
         Typed(w), Alive(t, p), Ousted(t, w, p), p \in t.evals,
         p \notin w.abandoned,
         Strict /\ t.signaledBy[p] # Nil => p \notin w.deadlocked,
         AwaitEval(w, p)
  PROVE  /\ Whole(vm', starved') /\ Owes' /\ Calm'
         /\ Runs(t, vm', {}) /\ NoneHalts(t, vm')
         /\ \A o \in Proc : t.signaledBy[o] # Nil /\ vm'.signaledBy[o] = Nil => o = p
<1> DEFINE u == RunAwaited(w, p)
<1>1. /\ vm' = u /\ awaited' = p /\ starved' = starved
      /\ host' = [Idle EXCEPT !.at = "await"]
  BY DEF AwaitEval
<1>2. /\ Whole(u, starved) /\ Runs(t, u, {}) /\ NoneHalts(t, u) /\ Calmly(t, u)
      /\ \A o \in Proc : t.signaledBy[o] # Nil /\ u.signaledBy[o] = Nil => o = p
      /\ u.current = p /\ u.abandoned = w.abandoned
      /\ u.evals = w.evals
  BY RunAwaitedWhole
<1> HIDE DEF u
<1>3. host'.at = "await" /\ Entitled(host')
  BY <1>1, HostSays DEF Idle
<1>4. p \in Proc /\ p # Nobody
  BY Names
<1>5. Alive(u, p) /\ p \in u.evals
  BY <1>2, <1>4 DEF Runs, Ousted
<1>6. Owes'
  BY <1>1, <1>2, <1>3, <1>4, <1>5 DEF Owes, Alive, me
<1>7. Calm'
  BY <1>1, <1>2, <1>3 DEF Calm, Calmly, Entitled, me
<1> QED
  BY <1>1, <1>2, <1>6, <1>7

\* What holds of the table once the host has cleared what was left.
LEMMA ClearedWhole ==
  ASSUME IAnswers, NEW at, InHost(at)
  PROVE  /\ Sound(Cleared) /\ Typed(Cleared) /\ Places(Cleared)
         /\ Whole(Cleared, starved) /\ Free(Cleared)
         /\ Cleared.current = Base /\ ~ Disturbed(Cleared)
         /\ Runs(vm, Cleared, {}) /\ NoneHalts(vm, Cleared)
         /\ Quiet(vm, Cleared)
<1> DEFINE c == Cleared
<1>1. /\ Quiet(vm, c) /\ c.excess = vm.excess
      /\ c.contents = vm.contents /\ Base \notin c.aborting
      /\ c.heapMark = FALSE
  BY ClearedRest
<1>2. Sound(c) /\ Places(c)
  BY Now, ClearedPlaces
<1> HIDE DEF c
<1>3. /\ Runs(vm, c, {}) /\ NoneHalts(vm, c)
      /\ \A q : Own(c, q) = Own(vm, q)
      /\ \A s : Bearers(c, s) = Bearers(vm, s)
  BY <1>1, QuietRuns
<1>4. Strict => Claimed(c)
  BY <1>1, <1>3, Now, ClaimedDepends DEF Whole
<1>5. Whole(c, starved)
  <2>1. starved \subseteq starved
    OBVIOUS
  <2> QED
    BY <1>1, <1>4, <2>1, Now, QuietWhole
<1>6. c.current = Base /\ c.frame[Base] = "code" /\ Base \notin c.abandoned
  BY <1>1, HostFree DEF Quiet
<1>7. ~ Disturbed(c)
  BY <1>1, <1>6, Kinds DEF Disturbed
<1>8. Free(c)
  BY <1>2, <1>5, <1>6, InCodeFree DEF Sound, Core
<1> QED
  BY <1>1, <1>2, <1>3, <1>5, <1>6, <1>7, <1>8 DEF c, Sound, Core

LEMMA EvalLiveAdvances == IAnswers /\ EvalLive => Advances
<1> SUFFICES ASSUME IAnswers, EvalLive PROVE Advances
  OBVIOUS
<1>0. InHost("idle")
  BY DEF EvalLive, Called
<1>1. InHost("idle") /\ awaited = Nobody /\ me = Base
  BY <1>0, HostFree
<1>2. CASE \/ HostBecomes(Cleared, Draining("eval", TRUE))
           \/ HostOutOfMemory(Cleared, Draining("eval", TRUE))
  <2>1. PICK h : h = Draining("eval", TRUE)
    OBVIOUS
  <2>2. h.at = "drain" /\ Entitled(h)
    BY <2>1 DEF Draining, Idle, Entitled
  <2>3. HostBecomes(Cleared, h) \/ HostOutOfMemory(Cleared, h)
    BY <1>2, <2>1
  <2> QED
    BY <1>1, <2>2, <2>3, Onwards
<1>3. ASSUME ~ Full, NEW p \in Fibers, IsNextPid(vm, p),
             AwaitEval([Cleared EXCEPT !.state[p] = "Suspended",
                                       !.evals = @ \cup {p}], p)
      PROVE  Advances
  <2> DEFINE c == Cleared
             w == [c EXCEPT !.state[p] = "Suspended", !.evals = @ \cup {p}]
             x == "Suspended"
  <2>1. /\ Sound(c) /\ Typed(c) /\ Places(c) /\ Whole(c, starved) /\ Free(c)
        /\ c.current = Base /\ ~ Disturbed(c) /\ Runs(vm, c, {})
        /\ NoneHalts(vm, c) /\ Quiet(vm, c)
    BY <1>1, ClearedWhole
  <2>2. p \in Proc /\ p # me /\ c.state[p] = "None" /\ p # Base
    BY <1>1, <1>3, <2>1, Names DEF IsNextPid, Quiet
  <2>3. AwaitEval(w, p)
    BY <1>3
  <2> HIDE DEF c
  <2>4. Typed(w)
    BY <2>1, <2>2, SMTT(30) DEF Typed, States, Fields
  <2>5. /\ w.ready = c.ready /\ w.quiescent = c.quiescent
        /\ w.state = [c.state EXCEPT ![p] = "Suspended"]
        /\ w.awaiting = c.awaiting /\ w.waitingOn = c.waitingOn
        /\ w.current = c.current /\ w.evals = c.evals \cup {p}
        /\ w.frame = c.frame /\ w.signaledBy = c.signaledBy
        /\ w.abandoned = c.abandoned /\ w.condemned = c.condemned
        /\ w.deadlocked = c.deadlocked /\ w.marked = c.marked
        /\ w.excess = c.excess /\ w.contents = c.contents
        /\ w.aborting = c.aborting
        /\ w.heapMark <=> c.heapMark
    BY <2>1 DEF Typed, Fields
  <2> HIDE DEF w
  <2>6. Sound(w)
    BY <2>1, <2>2, <2>4, <2>5, OtherMoves
  <2>7. Whole(w, starved) /\ Delivers(c, w) /\ NoneHalts(c, w)
    <3>1. w.state = [c.state EXCEPT ![p] = x]
      BY <2>5
    <3>2. x \in {"Ready", "Suspended", "Gone"}
      OBVIOUS
    <3> HIDE DEF x
    <3> QED
      BY <2>1, <2>2, <2>5, <3>1, <3>2, BornWhole
  <2>8. Free(w)
    <3>1. \A z : Count(w, z) = Count(c, z)
      BY <2>5 DEF Count, Bearers
    <3> QED
      BY <2>1, <2>5, <3>1 DEF Free, Covered
  <2>9. w.state[p] = "Suspended" /\ Alive(w, p)
    BY <2>1, <2>2, <2>5 DEF Typed, Alive, LiveStates
  <2>10. Ousted(w, w, p)
    <3>1. w.deadlocked = {}
      BY <2>8 DEF Free
    <3> QED
      BY <2>9, <3>1 DEF Ousted
  <2>11. p \notin w.abandoned
    BY <2>1, <2>2, <2>5, <2>7, <2>9 DEF Whole, Settles, Extant
  <2>12. Strict => w.signaledBy[p] = Nil
    BY <2>2, <2>7, <2>9, Names DEF Whole, Signaled, Strict
  <2>13. ~ Disturbed(w) /\ w.current = Base /\ p \in w.evals
    BY <2>1, <2>5 DEF Disturbed
  <2>14. /\ Whole(vm', starved') /\ Owes' /\ Calm'
         /\ Runs(w, vm', {}) /\ NoneHalts(w, vm')
         /\ \A o \in Proc : w.signaledBy[o] # Nil /\ vm'.signaledBy[o] = Nil => o = p
    BY <1>1, <2>3, <2>4, <2>6, <2>7, <2>8, <2>9, <2>10, <2>11, <2>12, <2>13, AwaitsIt
  <2>15. Cardinality(LiveFibers(vm')) <= MaxFibers
    <3>1. \A o \in Proc : o # p /\ Alive(vm', o) => Alive(vm, o)
      BY <2>1, <2>5, <2>14 DEF Runs, Alive, Quiet, Typed
    <3> QED
      BY <1>3, <3>1, OneMore
  <2>16. Cardinality(HaltedOf(vm')) <= MaxHalted
    BY <2>1, <2>7, <2>14, HaltsBounded DEF NoneHalts
  <2>17. vm.signaledBy[p] = Nil
    BY <1>3, <2>2, Now, Names DEF Whole, Signaled, IsNextPid
  <2>18. KeepsSignals
    BY <2>1, <2>5, <2>14, <2>17 DEF KeepsSignals, Quiet
  <2>19. Bounded'
    BY <2>15, <2>16 DEF Bounded, LiveFibers, Live, HaltedOf
  <2> QED
    BY <2>14, <2>18, <2>19 DEF Advances
<1> QED
  BY <1>2, <1>3 DEF EvalLive

LEMMA ProceedAdvances == IAnswers /\ Proceed => Advances
<1> SUFFICES ASSUME IAnswers, Proceed PROVE Advances
  OBVIOUS
<1>1. InHost("idle") /\ awaited = Nobody /\ me = Base
  BY HostFree DEF Proceed, Called
<1>2. PICK p \in HaltedOf(vm) :
        AwaitEval([Cleared EXCEPT !.state[p] = "Suspended"], p)
  BY DEF Proceed
<1> DEFINE c == Cleared
           w == [c EXCEPT !.state[p] = "Suspended"]
<1>3. AwaitEval(w, p)
  BY <1>2
<1>4. /\ Sound(c) /\ Typed(c) /\ Places(c) /\ Whole(c, starved) /\ Free(c)
      /\ c.current = Base /\ ~ Disturbed(c) /\ Runs(vm, c, {})
      /\ NoneHalts(vm, c) /\ Quiet(vm, c)
  BY <1>1, ClearedWhole
<1>5. p \in Proc /\ vm.state[p] = "Halted" /\ p # me /\ p \in vm.evals
  BY Now DEF HaltedOf, Whole, HaltsEval
<1>6. p \in Fibers /\ p # Base
  BY <1>1, <1>5 DEF Fibers
<1> HIDE DEF c
<1>7. Typed(w)
  BY <1>4, <1>5, SMTT(30) DEF Typed, States, Fields
<1>8. /\ w.state = [c.state EXCEPT ![p] = "Suspended"]
      /\ w.current = c.current /\ w.evals = c.evals
      /\ w.frame = c.frame /\ w.signaledBy = c.signaledBy
      /\ w.abandoned = c.abandoned /\ w.condemned = c.condemned
      /\ w.deadlocked = c.deadlocked /\ w.marked = c.marked
      /\ w.excess = c.excess /\ w.contents = c.contents
      /\ w.aborting = c.aborting /\ w.waitingOn = c.waitingOn
      /\ w.heapMark <=> c.heapMark
  BY <1>4 DEF Typed, Fields
<1> HIDE DEF w
<1>9. Ousted(c, w, p)
  <2>1. w.deadlocked = {}
    BY <1>4, <1>8 DEF Free
  <2>2. \A o \in Proc : w.state[o] = IF o = p THEN "Suspended" ELSE c.state[o]
    BY <1>4, <1>8 DEF Typed
  <2> QED
    BY <1>8, <2>1, <2>2 DEF Ousted
<1>10. c.state[p] = "Halted" /\ Alive(c, p) /\ p \in c.evals
  BY <1>4, <1>5 DEF Quiet, Alive, LiveStates
<1>11. p \notin w.abandoned
  BY <1>4, <1>5, <1>6, <1>8, <1>10 DEF Whole, Settles, Extant
<1>12. c.signaledBy[p] = Nil
  BY <1>4, <1>5, <1>10, Names DEF Whole, Signaled
<1>13. /\ Whole(vm', starved') /\ Owes' /\ Calm'
       /\ Runs(c, vm', {}) /\ NoneHalts(c, vm')
       /\ \A o \in Proc : c.signaledBy[o] # Nil /\ vm'.signaledBy[o] = Nil => o = p
  BY <1>1, <1>3, <1>4, <1>6, <1>7, <1>9, <1>10, <1>11, <1>12, AwaitsIt
<1>14. Runs(vm, vm', {}) /\ NoneHalts(vm, vm')
  BY <1>4, <1>13, RunsThrough DEF NoneHalts
<1>15. Bounded'
  BY <1>14, HaltsBounded, BoundsKept
<1>16. KeepsSignals
  BY <1>4, <1>12, <1>13 DEF KeepsSignals, Quiet
<1> QED
  BY <1>13, <1>15, <1>16 DEF Advances

LEMMA AbortHaltedAdvances == IAnswers /\ AbortHalted => Advances
<1> SUFFICES ASSUME IAnswers, AbortHalted PROVE Advances
  OBVIOUS
<1>1. InHost("idle") /\ awaited = Nobody /\ me = Base /\ host.at = "idle"
  BY HostFree DEF AbortHalted, Called
<1>2. PICK p \in HaltedOf(vm) :
        HostBecomes(Terminated(Cleared, p), Draining("eval", TRUE))
  BY DEF AbortHalted
<1> DEFINE c == Cleared
           u == Terminated(c, p)
<1>3. /\ vm' = u /\ starved' = starved /\ UNCHANGED <<awaited, evalEnd>>
      /\ host' = Draining("eval", TRUE)
  BY <1>2 DEF HostBecomes
<1>4. host'.at = "drain" /\ Entitled(host')
  BY <1>3 DEF Draining, Idle, Entitled
<1>5. /\ Sound(c) /\ Typed(c) /\ Places(c) /\ Whole(c, starved) /\ Free(c)
      /\ c.current = Base /\ ~ Disturbed(c) /\ Runs(vm, c, {})
      /\ NoneHalts(vm, c) /\ Quiet(vm, c)
  BY <1>1, ClearedWhole
<1>6. p \in Proc /\ vm.state[p] = "Halted" /\ p # me
  BY Now DEF HaltedOf
<1>7. p \in Fibers /\ p # c.current
  BY <1>1, <1>5, <1>6 DEF Fibers
<1> HIDE DEF c
<1>8. c.state[p] = "Halted" /\ Alive(c, p) /\ c.frame[p] # "new"
  BY <1>5, <1>6 DEF Quiet, Alive, LiveStates, Places, Ranked
<1>9. c.signaledBy[p] = Nil
  BY <1>5, <1>6, <1>8, Names DEF Whole, Signaled
<1>10. /\ Whole(u, starved) /\ Runs(c, u, IF c.frame[p] = "new" THEN {p} ELSE {})
       /\ NoneHalts(c, u) /\ Calmly(c, u) /\ u.current \notin u.abandoned
       /\ \A o \in Proc : u.signaledBy[o] = c.signaledBy[o]
  BY <1>5, <1>7, <1>8, <1>9, TerminatedWhole
<1> HIDE DEF u
<1>11. Runs(c, u, {})
  BY <1>8, <1>10
<1>12. Runs(vm, u, {}) /\ NoneHalts(vm, u)
  BY <1>5, <1>10, <1>11, RunsThrough DEF NoneHalts
<1>13. ~ Disturbed(u)
  BY <1>5, <1>10 DEF Calmly
<1>14. KeepsSignals
  BY <1>3, <1>5, <1>10 DEF KeepsSignals, Quiet
<1>15. awaited \notin {}
  OBVIOUS
<1> QED
  BY <1>1, <1>3, <1>4, <1>10, <1>12, <1>13, <1>14, <1>15, HostAdvances
\* Nothing can run but the evaluation, which waits: it aborts with the deadlock.
LEMMA EvalDeadlocksAdvances ==
  ASSUME IAnswers, InHost("await"), ~ AwaitOver, vm.ready = <<>>,
         Becomes(EvalDeadlocks(vm))
  PROVE  Advances
<1> DEFINE p   == awaited
           out == LeaveLists(vm, p)
           w   == [out EXCEPT !.deadlocked = @ \cup {p}]
           u   == RunAwaited(w, p)
<1>0. InHost(host.at)
  BY DEF InHost
<1>1. /\ me = Base /\ vm.current = Base /\ host.at = "await"
      /\ Free(vm) /\ vm.frame[me] # "new" /\ Entitled(host)
  BY <1>0, HostFree DEF InHost
<1>2. p \in Fibers /\ p \in Proc /\ p # vm.current
  BY <1>1, Now, Names DEF IPlaces, IInv, AwaitsFiber
<1>3. Alive(vm, p) /\ vm.frame[p] # "new"
  BY <1>1, <1>2, Now, Names DEF Owes, AwaitOver
<1>4. /\ SameFlags(vm, out) /\ out.aborting = vm.aborting
      /\ out.frame = vm.frame /\ out.signaledBy = vm.signaledBy
      /\ out.state = [vm.state EXCEPT ![p] = "Suspended"]
      /\ \A o \in Proc : o # p => out.waitingOn[o] = vm.waitingOn[o]
  BY <1>2, Now, LeaveListsRest
<1>5. Sound(out)
  BY <1>2, Now, LeaveListsSound
<1>6. vm' = u /\ UNCHANGED <<host, awaited, evalEnd>> /\ starved' = starved
  BY DEF Becomes, EvalDeadlocks
<1> HIDE DEF out
<1>7. Typed(w)
  BY <1>2, <1>5, SMTT(30) DEF Sound, Core, Typed, Fields
<1>8. /\ w.state = out.state /\ w.current = out.current
      /\ w.waitingOn = out.waitingOn /\ w.frame = out.frame
      /\ w.signaledBy = out.signaledBy /\ w.aborting = out.aborting
      /\ w.evals = out.evals /\ w.marked = out.marked
      /\ w.excess = out.excess /\ w.contents = out.contents
      /\ w.abandoned = out.abandoned /\ w.condemned = out.condemned
      /\ w.deadlocked = out.deadlocked \cup {p}
      /\ w.heapMark <=> out.heapMark
  BY <1>5 DEF Sound, Core, Typed, Fields
<1> HIDE DEF w
<1>9. Ousted(vm, w, p)
  <2>1. \A o \in Proc : w.state[o] = IF o = p THEN "Suspended" ELSE vm.state[o]
    BY <1>4, <1>8, Now DEF Typed
  <2>2. w.heapMark <=> vm.heapMark
    BY <1>4, <1>8 DEF SameFlags
  <2>3. w.current = vm.current /\ w.evals = vm.evals /\ w.marked = vm.marked
        /\ w.excess = vm.excess /\ w.contents = vm.contents
        /\ w.abandoned = vm.abandoned /\ w.condemned = vm.condemned
        /\ w.deadlocked = vm.deadlocked \cup {p}
    BY <1>4, <1>8 DEF SameFlags
  <2>4. w.signaledBy = vm.signaledBy /\ w.aborting = vm.aborting /\ w.frame = vm.frame
        /\ \A o \in Proc : o # p => w.waitingOn[o] = vm.waitingOn[o]
    BY <1>4, <1>8
  <2> QED
    BY <1>3, <2>1, <2>2, <2>3, <2>4 DEF Ousted
<1>10. ~ MaySuspend => vm.signaledBy[p] = Nil
  <2>1. vm.state[p] # "Ready"
    <3>1. \A o \in Proc : vm.state[o] = "Ready" <=> o \in ToSet(vm.ready)
      BY Now DEF Core, Queued
    <3>2. ToSet(vm.ready) = {}
      BY DEF ToSet
    <3> QED
      BY <1>2, <3>1, <3>2
  <2> QED
    BY <1>2, <2>1, Now, Names DEF Whole, Signaled
<1>11. /\ Whole(u, starved) /\ Runs(vm, u, {}) /\ NoneHalts(vm, u) /\ Calmly(vm, u)
       /\ \A o \in Proc : vm.signaledBy[o] # Nil /\ u.signaledBy[o] = Nil => o = p
       /\ u.current = p /\ u.abandoned = w.abandoned
  BY <1>1, <1>2, <1>3, <1>7, <1>9, <1>10, Now, RunAwaitedWhole DEF Strict
<1> HIDE DEF u
<1>12. p \notin u.abandoned
  <2>1. p \notin vm.abandoned
    BY <1>2, <1>3, Now DEF Whole, Settles, Extant, Alive, LiveStates
  <2> QED
    BY <1>4, <1>8, <1>11, <2>1 DEF SameFlags
<1>13. ~ MaySuspend => KeepsSignals
  BY <1>6, <1>10, <1>11 DEF KeepsSignals
<1>14. ~ Disturbed(u)
  BY <1>1, <1>11, Now DEF Calm, Calmly
<1>15. awaited \notin {}
  OBVIOUS
<1> QED
  BY <1>0, <1>1, <1>6, <1>11, <1>12, <1>13, <1>14, <1>15, HostAdvances

LEMMA AwaitLoopAdvances == IAnswers /\ AwaitLoop => Advances
<1> SUFFICES ASSUME IAnswers, AwaitLoop PROVE Advances
  OBVIOUS
<1>1. InHost("await") /\ ~ AwaitOver
  BY Now, AwaitLoopIs
<1>2. CASE HostOutOfMemory(vm, host)
  <2>1. Entitled(host) /\ host.at = "await"
    BY <1>1, HostFree
  <2> QED
    BY <1>1, <1>2, <2>1, Onwards
<1> QED
  BY <1>1, <1>2, YieldsAdvance, EvalDeadlocksAdvances, Now, AwaitLoopIs

\* One process of the pass; nothing of it but the unwinding the base asked for
\* runs before the base is back.
LEMMA TerminateNextAdvances == IAnswers /\ TerminateNext => Advances
<1> SUFFICES ASSUME IAnswers, TerminateNext PROVE Advances
  OBVIOUS
<1> DEFINE rest(p) == [host EXCEPT !.todo = @ \ {p}]
           sent(p) == [rest(p) EXCEPT !.doing = p]
<1>1. InHost("terminate")
  BY Now, TerminateNextIs
<1>2. PICK p \in host.todo :
        \/ HostBecomes(vm, rest(p))
        \/ /\ ~ Over(p)
           /\ GivesBack(p) => ~Overflows(vm, vm.signaledBy[p])
           /\ HostBecomes(Terminated(Relieved(p), p), sent(p))
        \/ /\ GivesBack(p)
           /\ \/ HostBecomes(DropStale(vm, vm.signaledBy[p]), sent(p))
              \/ HostOutOfMemory(DropStale(vm, vm.signaledBy[p]), sent(p))
  BY Now, TerminateNextIs
<1>3. host \in HostRecords
  BY Now, HostNow DEF IPlaces
<1>4. p \in Proc /\ rest(p).at = host.at /\ sent(p).at = host.at
  BY <1>3 DEF HostRecords
<1>5. MayAbandon /\ host.at = "terminate" /\ Free(vm) /\ me = Base
  BY <1>1, HostFree DEF Entitled, InHost
<1>6. Entitled(rest(p)) /\ Entitled(sent(p))
  BY <1>5, HostSays
<1> HIDE DEF rest, sent
<1>7. CASE HostBecomes(vm, rest(p))
  BY <1>1, <1>4, <1>5, <1>6, <1>7, Onwards
<1>8. CASE /\ ~ Over(p)
           /\ GivesBack(p) => ~Overflows(vm, vm.signaledBy[p])
           /\ HostBecomes(Terminated(Relieved(p), p), sent(p))
  <2>1. p \in LiveFibers(vm) \ {me}
    BY <1>5, <1>8 DEF Over, LiveFibers
  <2>2. /\ vm' = Terminated(Relieved(p), p) /\ starved' = starved
        /\ host' = sent(p) /\ UNCHANGED <<awaited, evalEnd>>
    BY <1>8 DEF HostBecomes
  <2>3. /\ Whole(vm', starved) /\ Runs(vm, vm', Ending(p)) /\ NoneHalts(vm, vm')
        /\ KeepsSignals /\ vm'.current \notin vm'.abandoned /\ Calmly(vm, vm')
        /\ awaited \notin Ending(p)
    BY <1>5, <1>8, <2>1, <2>2, TerminatedGoes
  <2>4. ~ Disturbed(vm')
    BY <1>5, <2>3, Now DEF Calm, Calmly
  <2> QED
    BY <1>1, <1>4, <1>5, <1>6, <2>2, <2>3, <2>4, HostAdvances
<1>9. CASE /\ GivesBack(p)
           /\ \/ HostBecomes(DropStale(vm, vm.signaledBy[p]), sent(p))
              \/ HostOutOfMemory(DropStale(vm, vm.signaledBy[p]), sent(p))
  <2> DEFINE t == DropStale(vm, vm.signaledBy[p])
  <2>1. vm.signaledBy[p] \in Semaphores
    BY <1>4, <1>9, Now DEF GivesBack, Typed
  <2>2. /\ Quiet(vm, t) /\ t.excess = vm.excess /\ t.contents = vm.contents
        /\ t.aborting = vm.aborting
        /\ t.heapMark <=> vm.heapMark
    BY <2>1, Now, DropStaleRest
  <2>3. Typed(t)
    BY <2>1, Now, SignalSound DEF Sound, Core
  <2> HIDE DEF t
  <2>4. /\ host' = sent(p) /\ UNCHANGED <<awaited, evalEnd>>
        /\ Base \notin vm.aborting
    BY <1>1, <1>9, HostFree DEF HostBecomes, HostOutOfMemory, t
  <2>5. CASE HostBecomes(t, sent(p))
    <3>1. vm' = t /\ starved' = starved
      BY <2>5 DEF HostBecomes
    <3>2. Rests
      BY <1>4, <1>5, <1>6, <2>2, <2>4, <3>1 DEF Rests
    <3> QED
      BY <1>1, <1>4, <2>4, <3>2, RestsAdvances
  <2>6. CASE HostOutOfMemory(t, sent(p))
    <3>1. vm' = [t EXCEPT !.heapMark = TRUE] /\ starved' = starved \cup {Base}
      BY <2>6 DEF HostOutOfMemory
    <3>2. /\ vm'.excess = t.excess /\ vm'.contents = t.contents
          /\ vm'.aborting = t.aborting /\ Quiet(t, vm')
      BY <2>3, <3>1 DEF Typed, Fields, Quiet
    <3>3. Quiet(vm, vm')
      BY <2>2, <3>2 DEF Quiet
    <3>4. Rests
      BY <1>4, <1>5, <1>6, <2>2, <2>4, <3>1, <3>2, <3>3 DEF Rests
    <3> QED
      BY <1>1, <1>4, <2>4, <3>4, RestsAdvances
  <2> QED
    BY <1>9, <2>5, <2>6 DEF t
<1> QED
  BY <1>2, <1>7, <1>8, <1>9

\* abandonAll: the process the base switches to runs no code, and one that was
\* not started is gone at once.
LEMMA AbandonNextAdvances == IAnswers /\ AbandonNext => Advances
<1> SUFFICES ASSUME IAnswers, AbandonNext PROVE Advances
  OBVIOUS
<1>1. InHost("abandon")
  BY DEF AbandonNext
<1>2. PICK p \in LiveFibers(vm) :
        Becomes(IF vm.frame[p] = "new"
                  THEN ReapDead([Abandoned(vm, p) EXCEPT !.state[p] = "Dead"])
                  ELSE RunAwaited(Abandoned(vm, p), p))
  BY DEF AbandonNext
<1> DEFINE left == LeaveLists(vm, p)
           out  == Abandoned(vm, p)
           t    == [out EXCEPT !.state[p] = "Dead"]
           v    == RunAwaited(out, p)
           y    == "Dead"
<1>3. /\ me = Base /\ vm.current = Base /\ host.at = "abandon" /\ MayAbandon
      /\ Free(vm) /\ vm.frame[me] # "new" /\ Entitled(host) /\ awaited = Nobody
  BY <1>1, HostFree DEF Entitled
<1>4. /\ p \in Fibers /\ p \in Proc /\ p # vm.current /\ Alive(vm, p)
      /\ vm.state[p] \in LiveStates /\ Extant(vm, p)
  BY <1>3, Names DEF LiveFibers, Live, LiveStates, Fibers, Alive, Extant
<1>5. /\ SameFlags(vm, left) /\ left.aborting = vm.aborting
      /\ left.frame = vm.frame /\ left.signaledBy = vm.signaledBy
      /\ left.state = [vm.state EXCEPT ![p] = "Suspended"]
      /\ \A o \in Proc : o # p => left.waitingOn[o] = vm.waitingOn[o]
  BY <1>4, Now, LeaveListsRest
<1>6. Sound(left) /\ left.state[p] = "Suspended"
  BY <1>4, Now, LeaveListsSound
<1>7. out = [left EXCEPT !.abandoned = @ \cup {p}]
  BY DEF Abandoned
<1>8. /\ UNCHANGED <<host, awaited, evalEnd>> /\ starved' = starved
      /\ \/ vm.frame[p] = "new" /\ vm' = ReapDead(t)
         \/ vm.frame[p] # "new" /\ vm' = v
  BY <1>2 DEF Becomes
<1> HIDE DEF left, out
<1>9. Typed(out)
  BY <1>4, <1>6, <1>7, SMTT(30) DEF Sound, Core, Typed, Fields
<1>10. /\ out.state = left.state /\ out.current = left.current
       /\ out.ready = left.ready /\ out.quiescent = left.quiescent
       /\ out.awaiting = left.awaiting
       /\ out.waitingOn = left.waitingOn /\ out.frame = left.frame
       /\ out.signaledBy = left.signaledBy /\ out.aborting = left.aborting
       /\ out.evals = left.evals /\ out.marked = left.marked
       /\ out.excess = left.excess /\ out.contents = left.contents
       /\ out.abandoned = left.abandoned \cup {p}
       /\ out.condemned = left.condemned /\ out.deadlocked = left.deadlocked
       /\ out.heapMark <=> left.heapMark
  BY <1>6, <1>7 DEF Sound, Core, Typed, Fields
<1>11. Sound(out) /\ out.state[p] = "Suspended"
  BY <1>6, <1>9, <1>10, SoundDepends DEF SamePlaces
<1>12. out.heapMark <=> vm.heapMark
  BY <1>5, <1>10 DEF SameFlags
<1>13. /\ out.current = vm.current /\ out.evals = vm.evals
       /\ out.marked = vm.marked
       /\ out.excess = vm.excess /\ out.contents = vm.contents
       /\ out.abandoned = vm.abandoned \cup {p}
       /\ out.condemned = vm.condemned /\ out.deadlocked = vm.deadlocked
       /\ out.signaledBy = vm.signaledBy /\ out.aborting = vm.aborting
       /\ out.frame = vm.frame
       /\ out.state = [vm.state EXCEPT ![p] = "Suspended"]
       /\ \A o \in Proc : o # p => out.waitingOn[o] = vm.waitingOn[o]
  BY <1>5, <1>10 DEF SameFlags
<1>14. CASE vm.frame[p] = "new" /\ vm' = ReapDead(t)
  <2>1. Typed(t)
    BY <1>4, <1>9, SMTT(30) DEF Typed, States, Fields
  <2>2. /\ t.ready = out.ready /\ t.quiescent = out.quiescent
        /\ t.state = [out.state EXCEPT ![p] = "Dead"]
        /\ t.awaiting = out.awaiting /\ t.waitingOn = out.waitingOn
        /\ t.current = out.current
        /\ t.evals = out.evals /\ t.marked = out.marked
        /\ t.excess = out.excess /\ t.contents = out.contents
        /\ t.abandoned = out.abandoned
        /\ t.condemned = out.condemned /\ t.deadlocked = out.deadlocked
        /\ t.signaledBy = out.signaledBy /\ t.aborting = out.aborting
        /\ t.frame = out.frame
        /\ t.heapMark <=> out.heapMark
    BY <1>9 DEF Typed, Fields
  <2> HIDE DEF t
  <2>3. Sound(t)
    <3>1. p # out.current /\ out.state[p] \notin {"Ready", "Waiting"}
      BY <1>4, <1>11, <1>13
    <3>2. y \in {"Suspended", "Dead", "Gone"} /\ t.state = [out.state EXCEPT ![p] = y]
      BY <2>2
    <3>3. /\ t.ready = out.ready /\ t.quiescent = out.quiescent
          /\ t.awaiting = out.awaiting /\ t.waitingOn = out.waitingOn
          /\ t.current = out.current
      BY <2>2
    <3>4. p \in Proc /\ Sound(out) /\ Typed(t)
      BY <1>4, <1>11, <2>1
    <3> HIDE DEF y
    <3> QED
      BY <3>1, <3>2, <3>3, <3>4, OtherMoves
  <2>4. vm.signaledBy[p] = Nil
    BY <1>4, <1>14, Now, Kinds DEF Whole, Signaled
  <2>5. Elsewhere(vm, t, p, y)
    <3>1. t.state = [vm.state EXCEPT ![p] = y]
      <4>1. t.state = [[vm.state EXCEPT ![p] = "Suspended"] EXCEPT ![p] = "Dead"]
        BY <1>13, <2>2
      <4> QED
        BY <4>1, <1>4, Now DEF Typed
    <3>2. t.heapMark => vm.heapMark
      BY <1>12, <2>2
    <3> QED
      BY <1>4, <1>13, <2>2, <2>4, <3>1, <3>2 DEF Elsewhere
  <2>6. /\ Whole(t, starved) /\ Delivers(vm, t) /\ NoneHalts(vm, t)
        /\ Runs(vm, t, {p})
    <3> HIDE DEF y
    <3> QED
      BY <1>4, <2>5, Now, OtherWhole
  <2> DEFINE u == ReapDead(t)
  <2>7. /\ Whole(u, starved) /\ Runs(t, u, {}) /\ NoneHalts(t, u)
        /\ Calmly(t, u) /\ u.current = t.current /\ u.signaledBy = t.signaledBy
    BY <2>3, <2>6, ReapDeadRest
  <2>8. vm' = u
    BY <1>14
  <2> HIDE DEF u
  <2>9. Runs(vm, u, {p}) /\ NoneHalts(vm, u)
    BY <2>6, <2>7, RunsThrough DEF NoneHalts
  <2>10. ~ Disturbed(u)
    <3>1. Disturbed(t) => Disturbed(vm)
      BY <1>13, <2>2 DEF Disturbed
    <3>2. ~ Disturbed(vm)
      BY <1>3, Now DEF Calm
    <3> QED
      BY <2>7, <3>1, <3>2 DEF Calmly
  <2>11. KeepsSignals
    BY <1>13, <2>2, <2>7, <2>8 DEF KeepsSignals
  <2>12. awaited \notin {p}
    BY <1>3, <1>4, Names
  <2> QED
    BY <1>1, <1>3, <1>8, <2>7, <2>8, <2>9, <2>10, <2>11, <2>12, HostAdvances
<1>15. CASE vm.frame[p] # "new" /\ vm' = v
  <2>1. Ousted(vm, out, p)
    <3>1. \A o \in Proc : out.state[o] = IF o = p THEN "Suspended" ELSE vm.state[o]
      BY <1>13, Now DEF Typed
    <3> QED
      BY <1>12, <1>13, <1>15, <3>1 DEF Ousted
  <2>2. ~ Strict
    BY <1>3 DEF Strict
  <2>3. /\ Whole(v, starved) /\ Runs(vm, v, {}) /\ NoneHalts(vm, v) /\ Calmly(vm, v)
        /\ \A o \in Proc : vm.signaledBy[o] # Nil /\ v.signaledBy[o] = Nil => o = p
        /\ v.current = p /\ v.abandoned = out.abandoned
    BY <1>3, <1>4, <1>9, <2>1, <2>2, Now, RunAwaitedWhole
  <2> HIDE DEF v
  <2>4. ~ Disturbed(v)
    BY <1>3, <2>3, Now DEF Calm, Calmly
  <2>5. KeepsSignals
    BY <1>13, <1>15, <2>3 DEF KeepsSignals
  <2>6. awaited \notin {}
    OBVIOUS
  <2> QED
    BY <1>1, <1>3, <1>8, <1>15, <2>3, <2>4, <2>5, <2>6, HostAdvances
<1> QED
  BY <1>8, <1>14, <1>15

LEMMA CallsAdvance == IAnswers /\ Calls => Advances
BY EvalAdvances, EvalLiveAdvances, ProceedAdvances, AbortHaltedAdvances,
   CloseAdvances DEF Calls

LEMMA HostLoopsAdvance == IAnswers /\ HostLoops => Advances
BY EvalEndsAdvances, AwaitLoopAdvances, AwaitDoneAdvances, DrainAdvances,
   DrainEndsAdvances, PassesAdvance, TerminateNextAdvances, AbandonNextAdvances,
   AbandonEndsAdvances DEF HostLoops
-----------------------------------------------------------------------------
\* The invariant.

LEMMA InitIAnswers == Init => IAnswers
<1> SUFFICES ASSUME Init PROVE IAnswers
  OBVIOUS
<1>1. IPlaces
  BY InitIInv, InitPlaces DEF IPlaces
<1>2. /\ vm.state = [p \in Proc |-> IF p = Base THEN "Running"
                                    ELSE IF p \in Strangers THEN "Gone" ELSE "None"]
      /\ vm.excess = [s \in Semaphores |-> 0]
      /\ vm.signaledBy = [p \in Proc |-> Nil]
      /\ vm.current = Base
      /\ vm.frame = [p \in Proc |-> IF p = Base THEN "code" ELSE "new"]
      /\ vm.contents = [q \in Queues |-> 0]
      /\ vm.condemned = {} /\ vm.abandoned = {} /\ vm.deadlocked = {}
      /\ vm.aborting = {} /\ vm.evals = {} /\ vm.marked = {}
  BY DEF Init
<1>3. vm.heapMark = FALSE
  BY DEF Init
<1>4. host = Idle /\ awaited = Nobody
  BY DEF Init
<1>5. Settles(vm, vm.current) /\ Signaled(vm, Nobody) /\ HaltsEval(vm)
  BY <1>2, Names DEF Settles, Signaled, HaltsEval, HaltedOf, Waits, Extant
<1>6. Marked(vm, starved)
  BY <1>2, <1>3 DEF Marked
<1>7. Claimed(vm)
  <2>1. ASSUME NEW q \in Queues
        PROVE  vm.contents[q] <= Count(vm, ReadSynch[q]) + Own(vm, q)
    <3>1. vm.contents[q] = 0 /\ vm.excess[ReadSynch[q]] = 0
      BY <1>2, Kinds
    <3>2. Cardinality(Bearers(vm, ReadSynch[q])) \in Nat /\ Own(vm, q) \in {0, 1}
      BY BearersFinite DEF Own
    <3> QED
      BY <3>1, <3>2 DEF Count
  <2> QED
    BY <2>1 DEF Claimed
<1>8. Whole(vm, starved)
  BY <1>5, <1>6, <1>7 DEF Whole
<1>9. Owes
  BY <1>4, Names DEF Owes, Idle
<1>10. LiveFibers(vm) = {} /\ HaltedOf(vm) = {}
  BY <1>2, Names DEF LiveFibers, Live, LiveStates, HaltedOf
<1>11. Calm
  BY <1>2, <1>4, <1>10, Names, Kinds DEF Calm, Disturbed, Idle, me
<1>12. Bounded
  BY <1>10, FS_EmptySet, LimitAssumption DEF Bounded
<1> QED
  BY <1>1, <1>8, <1>9, <1>11, <1>12 DEF IAnswers

LEMMA NextAdvances == IAnswers /\ Next => Advances
BY CodeAdvances, ResumesAdvances, BeginsAdvances, EndBodyAdvances, CallsAdvance,
   HostLoopsAdvance, ClosedAdvances DEF Next

LEMMA StepIAnswers == IAnswers /\ [Next]_vars => IAnswers'
<1> SUFFICES ASSUME IAnswers, [Next]_vars PROVE IAnswers'
  OBVIOUS
<1>1. CASE Next
  <2>1. IInv' /\ Holds
    BY <1>1, StepIInv, StepHolds DEF IAnswers, IPlaces
  <2>2. Advances
    BY <1>1, NextAdvances
  <2> QED
    BY <2>1, <2>2 DEF IAnswers, IPlaces, Holds, Advances
<1>2. CASE UNCHANGED vars
  <2>1. IInv'
    BY StepIInv DEF IAnswers, IPlaces
  <2> QED
    BY <1>2, <2>1
    DEF vars, IAnswers, IPlaces, Owes, Calm, Bounded, me
<1> QED
  BY <1>1, <1>2

LEMMA AnswersInvariance == Spec => []IAnswers
<1>1. Init => IAnswers
  BY InitIAnswers
<1>2. IAnswers /\ [Next]_vars => IAnswers'
  BY StepIAnswers
<1> QED
  BY <1>1, <1>2, PTL DEF Spec

-----------------------------------------------------------------------------
\* What the host and the programs are told.

\* An allocation that fails marks the process it failed for and no other: the
\* heap's mark is the running process's, and those kept aside by a switch are of
\* processes that ran out of memory themselves (Scheduler::switchTo, runFiber).
THEOREM MarksAreOwn == Spec => []MarkIsOwn
<1>1. IAnswers => MarkIsOwn
  BY DEF IAnswers, Whole, Marked, MarkIsOwn, me
<1> QED
  BY <1>1, AnswersInvariance, PTL

\* awaitEval ends with the evaluation's own outcome (finished, failed or halted);
\* the fibers and the halted processes stay within their limits, and only
\* evaluations halt; between two host calls the base runs, with no abort,
\* deadlock or wait of its own and no evaluation to wait for; and a session that
\* closed keeps no process and no Semaphore that lists one of its own.
THEOREM HostIsAnswered == Spec => []HostAnswered
<1>1. IAnswers => HostAnswered
  <2> SUFFICES ASSUME IAnswers PROVE HostAnswered
    OBVIOUS
  <2>1. EvalAnswered
    BY Now DEF EvalAnswered, InHost, AwaitOver, Owes, Alive, LiveStates
  <2>2. Limits
    BY Now DEF Limits, Bounded, Whole, HaltsEval
  <2>3. BaseAtRest
    <3> SUFFICES ASSUME host.at \in {"idle", "closed"}
                 PROVE  /\ me = Base
                        /\ Base \notin vm.aborting \cup vm.deadlocked \cup vm.awaiting
                        /\ vm.condemned = {} /\ vm.deadlocked = {} /\ awaited = Nobody
      BY DEF BaseAtRest
    <3>1. me = Base /\ vm.frame[Base] = "code" /\ Base \notin vm.aborting
      BY Now DEF Calm, Disturbed
    <3>2. vm.condemned = {} /\ vm.deadlocked = {}
      BY <3>1, Now DEF Whole, Settles
    <3>3. Base \notin vm.awaiting
      BY <3>1, Now, CurrentIsFree
    <3>4. awaited = Nobody
      BY Now DEF Owes
    <3> QED
      BY <3>1, <3>2, <3>3, <3>4
  <2>4. AllGone
    <3> SUFFICES ASSUME host.at = "closed"
                 PROVE  /\ LiveFibers(vm) = {}
                        /\ \A s \in Semaphores : ToSet(vm.linkedList[s]) \subseteq Strangers
      BY DEF AllGone
    <3>1. LiveFibers(vm) = {} /\ me = Base
      BY Now DEF Calm
    <3>2. ASSUME NEW s \in Semaphores, NEW p \in ToSet(vm.linkedList[s]),
                 p \notin Strangers
          PROVE  FALSE
      <4>1. p \in Proc
        BY <3>2, Now DEF Typed, ToSet
      <4>2. Waits(vm, p, s)
        BY <3>2, <4>1, Now DEF Places, Listed, Natives
      <4>3. p \in Live(vm)
        BY <4>1, <4>2 DEF Waits, Live, LiveStates
      <4>4. p # Base
        BY <3>1, <4>2, Now DEF Waits
      <4> QED
        BY <3>1, <4>3, <4>4 DEF LiveFibers
    <3> QED
      BY <3>1, <3>2
  <2> QED
    BY <2>1, <2>2, <2>3, <2>4 DEF HostAnswered
<1> QED
  BY <1>1, AnswersInvariance, PTL

\* While no program suspends a process it has signalled, a signal that took a
\* process out of its wait is answered by that wait, or goes back to the
\* Semaphore when the process is terminated first; abandonAll alone drops it
\* (Scheduler::signal, terminate, afterResume).
THEOREM SignalsAreKept ==
  ASSUME "suspend" \notin CodeOps \cup CleanupOps
  PROVE  Spec => SignalKept
<1>1. ASSUME IAnswers, [Next]_vars
      PROVE  [\A p \in Proc :
                LET s == vm.signaledBy[p]
                    Kept2(t) == t.excess[s]
                                + Cardinality({r \in Proc : t.signaledBy[r] = s})
                IN s # Nil /\ vm'.signaledBy[p] = Nil =>
                     \/ p = vm'.current /\ ~Unwinds(vm')
                     \/ p \in vm'.abandoned
                     \/ Kept2(vm') >= Kept2(vm)]_vars
  <2>1. CASE Next
    <3>1. KeepsSignals
      BY <1>1, <2>1, NextAdvances DEF Advances, MaySuspend
    <3> QED
      BY <3>1 DEF KeepsSignals, Held
  <2>2. CASE UNCHANGED vars
    BY <2>2
  <2> QED
    BY <1>1, <2>1, <2>2
<1> QED
  BY <1>1, AnswersInvariance, PTL DEF Spec, SignalKept

\* While no program suspends a process and the host abandons none, each element
\* of a SharedQueue is claimed: by a signal its readSynch still has to give, by a
\* reader that was signalled for it and is on its way, or by the running one
\* (SharedQueue nextPut:, next, and Process terminate).
THEOREM ElementsAreClaimed ==
  ASSUME "suspend" \notin CodeOps \cup CleanupOps,
         HostCalls \cap {"test", "close"} = {}
  PROVE  Spec => []ElementsClaimed
<1>1. IAnswers => ElementsClaimed
  <2> SUFFICES ASSUME IAnswers, NEW q \in Queues PROVE vm.contents[q] <= Claims(q)
    BY DEF ElementsClaimed
  <2>1. vm.contents[q] <= Count(vm, ReadSynch[q]) + Own(vm, q)
    BY Now DEF Whole, Claimed, Strict, MaySuspend, MayAbandon
  <2>2. Claims(q) = Count(vm, ReadSynch[q]) + Own(vm, q)
    BY DEF Claims, Count, Bearers, Own, me
  <2> QED
    BY <2>1, <2>2
<1> QED
  BY <1>1, AnswersInvariance, PTL

-----------------------------------------------------------------------------
\* Who returns to whom: a process that switched to another and waits for it holds
\* on to that one through resumeTo, and the chain of these pointers is kept whole.

\* The processes that unwind, or will when they run next.
Doomed(t) == t.condemned \cup t.aborting

\* The chain of returns, n the process that runs or the one about to: a pointer
\* is held by n or by one that itself waits to be returned to, each such process
\* is pointed at by a process that lives, and behind a process that unwinds
\* nobody but the base waits.
Linked(t, n) ==
  /\ t.resumeTo[Base] = Nobody
  /\ \A o \in Proc : t.resumeTo[o] # Nobody => o = n \/ o \in t.awaiting
  /\ \A p \in t.awaiting :
       \E o \in Proc : t.resumeTo[o] = p /\ (o = n \/ Alive(t, o))
  /\ \A o \in Proc : t.resumeTo[o] \notin {Nobody, Base} => o \in Doomed(t)
  /\ \A o \in t.awaiting : o \in Doomed(t) => o = Base

\* A state with the same pointers, whose holders live on.
LinksKept(t, u, n) ==
  /\ u.resumeTo = t.resumeTo /\ u.awaiting = t.awaiting
  /\ \A o \in Proc : t.resumeTo[o] # Nobody /\ o # n /\ Alive(t, o) => Alive(u, o)
  /\ \A o \in Proc : t.resumeTo[o] # Nobody /\ o # Base /\ o \in Doomed(t) =>
       o \in Doomed(u)
  /\ \A o \in t.awaiting : o \in Doomed(u) /\ o # Base => o \in Doomed(t)

LEMMA LinkedDepends ==
  ASSUME NEW t, NEW u, NEW n, Typed(t), Linked(t, n), LinksKept(t, u, n)
  PROVE  Linked(u, n)
<1>0. /\ Base \in Proc /\ t.awaiting \subseteq Proc /\ Nobody \notin Proc
      /\ u.resumeTo = t.resumeTo /\ u.awaiting = t.awaiting
  BY Names DEF Typed, LinksKept
<1>1. /\ u.resumeTo[Base] = Nobody
      /\ \A o \in Proc : u.resumeTo[o] # Nobody => o = n \/ o \in u.awaiting
  BY <1>0 DEF Linked
<1>2. ASSUME NEW p \in u.awaiting
      PROVE  \E o \in Proc : u.resumeTo[o] = p /\ (o = n \/ Alive(u, o))
  <2>1. PICK o \in Proc : t.resumeTo[o] = p /\ (o = n \/ Alive(t, o))
    BY <1>0, <1>2 DEF Linked
  <2>2. t.resumeTo[o] # Nobody
    BY <2>1, <1>0, <1>2
  <2>. QED BY <2>1, <2>2, <1>0 DEF LinksKept
<1>3. ASSUME NEW o \in Proc, u.resumeTo[o] \notin {Nobody, Base}
      PROVE  o \in Doomed(u)
  <2>1. o # Base /\ t.resumeTo[o] # Nobody /\ o \in Doomed(t)
    BY <1>0, <1>3 DEF Linked
  <2>. QED BY <2>1 DEF LinksKept
<1>4. ASSUME NEW o \in u.awaiting, o \in Doomed(u)
      PROVE  o = Base
  BY <1>0, <1>4 DEF Linked, LinksKept
<1>. QED BY <1>1, <1>2, <1>3, <1>4 DEF Linked

\* Another process is about to run, where the last one holds no pointer.
LEMMA LinkedShifts ==
  ASSUME NEW t, NEW n, NEW m, Typed(t), Linked(t, n), n \in Proc,
         t.resumeTo[n] = Nobody
  PROVE  Linked(t, m)
<1>0. Nobody \notin Proc /\ t.awaiting \subseteq Proc
  BY Names DEF Typed
<1>1. \A o \in Proc : t.resumeTo[o] # Nobody => o = m \/ o \in t.awaiting
  BY DEF Linked
<1>2. ASSUME NEW p \in t.awaiting
      PROVE  \E o \in Proc : t.resumeTo[o] = p /\ (o = m \/ Alive(t, o))
  <2>1. PICK o \in Proc : t.resumeTo[o] = p /\ (o = n \/ Alive(t, o))
    BY <1>2 DEF Linked
  <2>. QED BY <2>1, <1>0, <1>2
<1>. QED BY <1>1, <1>2 DEF Linked

\* Where nobody waits and nobody points.
LEMMA LinkedAlone ==
  ASSUME NEW t, NEW n, t.awaiting = {}, \A o \in Proc : t.resumeTo[o] = Nobody
  PROVE  Linked(t, n)
BY Names DEF Linked

\* While the running process does not unwind, only the base may wait for it.
LEMMA NotHeld ==
  ASSUME NEW t, NEW n \in Proc, Typed(t), Linked(t, n), n = Base \/ n \notin Doomed(t)
  PROVE  /\ t.awaiting \subseteq {Base}
         /\ \A p \in Proc : p # n => t.resumeTo[p] = Nobody
         /\ t.resumeTo[n] \in {Nobody, Base}
<1>0. Base \in Proc /\ t.awaiting \subseteq Proc /\ Nobody \notin Proc
  BY Names DEF Typed
<1>1. ASSUME NEW p \in t.awaiting, p # Base
      PROVE  FALSE
  <2>1. PICK o \in Proc : t.resumeTo[o] = p
    BY <1>1 DEF Linked
  <2>2. o \in Doomed(t) /\ o # Base
    BY <2>1, <1>0, <1>1 DEF Linked
  <2>3. o # n
    BY <2>2
  <2>4. o \in t.awaiting
    BY <2>1, <2>3, <1>0, <1>1 DEF Linked
  <2>. QED BY <2>2, <2>4 DEF Linked
<1>2. \A p \in Proc : p # n => t.resumeTo[p] = Nobody
  BY <1>1, <1>0 DEF Linked
<1>3. t.resumeTo[n] \in {Nobody, Base}
  BY <1>0 DEF Linked
<1>. QED BY <1>1, <1>2, <1>3

LEMMA SwitchToLinked ==
  ASSUME NEW t, Typed(t), NEW p \in Proc, Linked(t, p)
  PROVE  Linked(SwitchTo(t, p), p)
<1> DEFINE u == SwitchTo(t, p)
<1>1. /\ u.resumeTo = t.resumeTo /\ u.awaiting = t.awaiting
      /\ u.condemned = t.condemned /\ u.aborting = t.aborting
  BY SMTT(30) DEF SwitchTo, SwitchMarks, Typed, Fields
<1>2. \A o \in Proc : o # p => u.state[o] = t.state[o]
  BY SMTT(30) DEF SwitchTo, SwitchMarks, Typed, Fields
<1>. HIDE DEF u
<1>3. LinksKept(t, u, p)
  BY <1>1, <1>2 DEF LinksKept, Doomed, Alive
<1>. QED BY <1>3, LinkedDepends DEF u

\* A process taken out of where it is: the pointers at it go.
Leaves(t, u, p) ==
  /\ u.awaiting = t.awaiting \ {p}
  /\ \A o \in Proc : u.resumeTo[o] =
       IF p \in t.awaiting /\ t.resumeTo[o] = p THEN Nobody ELSE t.resumeTo[o]
  /\ u.state = [t.state EXCEPT ![p] = "Suspended"]
  /\ u.condemned = t.condemned /\ u.aborting = t.aborting
  /\ p \notin t.awaiting => u.resumeTo = t.resumeTo

LEMMA LeaveListsLeaves ==
  ASSUME NEW t, Core(t), NEW p \in Proc
  PROVE  Leaves(t, LeaveLists(t, p), p)
<1> DEFINE u == LeaveLists(t, p)
<1>0. Typed(t) /\ WaitsForOne(t)
  BY DEF Core
<1>1. /\ u.state = [t.state EXCEPT ![p] = "Suspended"]
      /\ u.condemned = t.condemned /\ u.aborting = t.aborting
  BY <1>0, LeaveListsRest DEF SameFlags
<1>a. /\ u.myList = [t.myList EXCEPT ![p] = Nil]
      /\ u.excess = t.excess /\ u.frame = t.frame
      /\ t.state[p] # "Waiting" =>
           /\ u.linkedList = t.linkedList /\ u.waitingOn = t.waitingOn
           /\ u.awaiting = t.awaiting /\ u.resumeTo = t.resumeTo
      /\ t.state[p] = "Waiting" =>
           /\ u.linkedList = [s \in Semaphores |->
                                IF s = t.waitingOn[p]
                                  THEN RemoveFirst(t.linkedList[s], p)
                                  ELSE t.linkedList[s]]
           /\ u.waitingOn = [t.waitingOn EXCEPT ![p] = Nil]
           /\ u.awaiting = t.awaiting \ {p}
           /\ u.resumeTo = [o \in Proc |-> IF o \in Returning(t, p) THEN Nobody
                                                                 ELSE t.resumeTo[o]]
  BY LeaveListsFields
<1>2. CASE t.state[p] # "Waiting"
  <2>1. p \notin t.awaiting
    BY <1>0, <1>2 DEF WaitsForOne
  <2>2. u.awaiting = t.awaiting /\ u.resumeTo = t.resumeTo
    BY <1>2, <1>a
  <2>. HIDE DEF u
  <2>. QED BY <1>1, <2>1, <2>2 DEF u, Leaves
<1>3. CASE t.state[p] = "Waiting"
  <2>1. /\ u.awaiting = t.awaiting \ {p}
        /\ u.resumeTo = [o \in Proc |-> IF o \in Returning(t, p) THEN Nobody
                                                              ELSE t.resumeTo[o]]
    BY <1>3, <1>a
  <2>2. \A o \in Proc : o \in Returning(t, p) <=> p \in t.awaiting /\ t.resumeTo[o] = p
    BY DEF Returning
  <2>3. p \notin t.awaiting => u.resumeTo = t.resumeTo
    <3>1. p \notin t.awaiting => u.resumeTo = [o \in Proc |-> t.resumeTo[o]]
      BY <2>1, <2>2
    <3>2. t.resumeTo \in [Proc -> Proc \cup {Nobody}]
      BY <1>0 DEF Typed
    <3>. QED BY <3>1, <3>2
  <2>. HIDE DEF u
  <2>. QED BY <1>1, <2>1, <2>2, <2>3 DEF u, Leaves
<1>. QED BY <1>2, <1>3

\* So the chain holds, when the process taken out was not in the middle of it.
LEMMA LeaveListsLinked ==
  ASSUME NEW t, Core(t), NEW p \in Proc, NEW n, Linked(t, n),
         p \in t.awaiting => t.resumeTo[p] = Nobody
  PROVE  Linked(LeaveLists(t, p), n)
<1> DEFINE u == LeaveLists(t, p)
<1>0. Base \in Proc /\ t.awaiting \subseteq Proc /\ Nobody \notin Proc /\ Typed(t)
  BY Names DEF Core, Typed
<1>1. /\ u.awaiting = t.awaiting \ {p}
      /\ \A o \in Proc : u.resumeTo[o] =
           IF p \in t.awaiting /\ t.resumeTo[o] = p THEN Nobody ELSE t.resumeTo[o]
      /\ u.state = [t.state EXCEPT ![p] = "Suspended"]
      /\ u.condemned = t.condemned /\ u.aborting = t.aborting
  BY LeaveListsLeaves DEF Leaves
<1>2. t.state \in [Proc -> States]
  BY <1>0 DEF Typed
<1>. HIDE DEF u
<1>3. Doomed(u) = Doomed(t) /\ \A o \in Proc : Alive(t, o) => Alive(u, o)
  BY <1>1, <1>2 DEF Doomed, Alive, LiveStates
<1>4. u.resumeTo[Base] = Nobody
  BY <1>0, <1>1 DEF Linked
<1>5. ASSUME NEW o \in Proc, u.resumeTo[o] # Nobody
      PROVE  (o = n \/ o \in u.awaiting) /\ u.resumeTo[o] = t.resumeTo[o]
  <2>1. t.resumeTo[o] # Nobody /\ u.resumeTo[o] = t.resumeTo[o]
    BY <1>1, <1>5
  <2>2. o = n \/ o \in t.awaiting
    BY <2>1 DEF Linked
  <2>. QED BY <2>1, <2>2, <1>1
<1>6. ASSUME NEW x \in u.awaiting
      PROVE  \E o \in Proc : u.resumeTo[o] = x /\ (o = n \/ Alive(u, o))
  <2>1. x \in t.awaiting /\ x # p
    BY <1>1, <1>6
  <2>2. PICK o \in Proc : t.resumeTo[o] = x /\ (o = n \/ Alive(t, o))
    BY <2>1 DEF Linked
  <2>. QED BY <2>1, <2>2, <1>1, <1>3
<1>7. ASSUME NEW o \in Proc, u.resumeTo[o] \notin {Nobody, Base}
      PROVE  o \in Doomed(u)
  BY <1>3, <1>5, <1>7 DEF Linked
<1>8. \A o \in u.awaiting : o \in Doomed(u) => o = Base
  BY <1>1, <1>3 DEF Linked
<1>. QED BY <1>4, <1>5, <1>6, <1>7, <1>8 DEF Linked, u

\* Where nobody waits for p, p points at nobody any more.
LEMMA NoReturnee ==
  ASSUME NEW t, Core(t), Pointed(t), NEW p \in Proc, Returnee(t, p) = Nobody
  PROVE  t.resumeTo[p] = Nobody
<1> SUFFICES ASSUME t.resumeTo[p] # Nobody PROVE FALSE
  OBVIOUS
<1>1. t.resumeTo[p] \in t.awaiting
  BY DEF Pointed
<1>2. t.state[t.resumeTo[p]] = "Waiting"
  BY <1>1 DEF Core, WaitsForOne
<1>3. Returnee(t, p) = t.resumeTo[p]
  BY <1>1, <1>2 DEF Returnee
<1>. QED BY <1>3

LEMMA TakeNextLinked ==
  ASSUME NEW t, Core(t), Parked(t), Pointed(t), NEW p \in Proc, Linked(t, p)
  PROVE  /\ NextOf(t, p) # Nobody => Linked(TakeNext(t, p), NextOf(t, p))
         /\ NextOf(t, p) = Nobody => Linked(TakeNext(t, p), Base)
<1> DEFINE u    == TakeNext(t, p)
           to   == Returnee(t, p)
           left == [t EXCEPT !.resumeTo[p] = Nobody]
<1>0. /\ Base \in Proc /\ t.awaiting \subseteq Proc /\ Nobody \notin Proc /\ Typed(t)
      /\ WaitsForOne(t) /\ Queued(t)
  BY Names DEF Core, Typed
<1>1. CASE to # Nobody
  <2>1. /\ to = t.resumeTo[p] /\ to \in t.awaiting /\ to \in Proc
        /\ NextOf(t, p) = to
    BY <1>1, <1>0 DEF Returnee, NextOf
  <2>2. u = [left EXCEPT !.awaiting = @ \ {to}, !.state[to] = "Suspended"]
    BY <1>1 DEF TakeNext
  <2>3. /\ u.awaiting = t.awaiting \ {to}
        /\ u.resumeTo = [t.resumeTo EXCEPT ![p] = Nobody]
        /\ u.state = [t.state EXCEPT ![to] = "Suspended"]
        /\ u.condemned = t.condemned /\ u.aborting = t.aborting
    BY <2>2, <1>0, SMTT(30) DEF Typed, Fields
  <2>4. t.resumeTo \in [Proc -> Proc \cup {Nobody}] /\ t.state \in [Proc -> States]
    BY <1>0 DEF Typed
  <2>. HIDE DEF u, to
  <2>5. Doomed(u) = Doomed(t) /\ \A o \in Proc : Alive(t, o) => Alive(u, o)
    BY <2>3, <2>4 DEF Doomed, Alive, LiveStates
  <2>6. \A o \in Proc : u.resumeTo[o] = IF o = p THEN Nobody ELSE t.resumeTo[o]
    BY <2>3, <2>4
  <2>7. u.resumeTo[Base] = Nobody
    BY <2>6, <1>0 DEF Linked
  <2>8. ASSUME NEW o \in Proc, u.resumeTo[o] # Nobody
        PROVE  (o = to \/ o \in u.awaiting) /\ u.resumeTo[o] = t.resumeTo[o]
    <3>1. o # p /\ t.resumeTo[o] # Nobody /\ u.resumeTo[o] = t.resumeTo[o]
      BY <2>6, <2>8
    <3>2. o \in t.awaiting
      BY <3>1 DEF Linked
    <3>. QED BY <3>1, <3>2, <2>3
  <2>9. ASSUME NEW x \in u.awaiting
        PROVE  \E o \in Proc : u.resumeTo[o] = x /\ (o = to \/ Alive(u, o))
    <3>1. x \in t.awaiting /\ x # to
      BY <2>3, <2>9
    <3>2. PICK o \in Proc : t.resumeTo[o] = x /\ (o = p \/ Alive(t, o))
      BY <3>1 DEF Linked
    <3>3. o # p
      BY <3>1, <3>2, <2>1
    <3>. QED BY <3>2, <3>3, <2>5, <2>6
  <2>10. ASSUME NEW o \in Proc, u.resumeTo[o] \notin {Nobody, Base}
         PROVE  o \in Doomed(u)
    BY <2>5, <2>8, <2>10 DEF Linked
  <2>11. \A o \in u.awaiting : o \in Doomed(u) => o = Base
    BY <2>3, <2>5 DEF Linked
  <2>12. Linked(u, to)
    BY <2>7, <2>8, <2>9, <2>10, <2>11 DEF Linked
  <2>. QED BY <2>12, <2>1, <1>1 DEF u
<1>2. CASE to = Nobody
  <2>1. t.resumeTo[p] = Nobody
    BY <1>2, NoReturnee
  <2>2. /\ left.state = t.state /\ left.ready = t.ready
        /\ left.quiescent = t.quiescent /\ left.awaiting = t.awaiting
        /\ left.waitingOn = t.waitingOn /\ left.resumeTo = t.resumeTo
        /\ left.condemned = t.condemned /\ left.aborting = t.aborting
    <3>1. [t.resumeTo EXCEPT ![p] = Nobody] = t.resumeTo
      BY <2>1, <1>0 DEF Typed
    <3>. QED BY <3>1, <1>0 DEF Typed, Fields
  <2>a. Typed(left)
    BY <1>0, SMTT(30) DEF Typed, Fields
  <2>. HIDE DEF left
  <2>b. Core(left)
    BY <2>2, <2>a, CoreDepends
  <2>3. ASSUME NEW m
        PROVE  Linked(left, m)
    <3>1. LinksKept(t, left, m)
      BY <2>2 DEF LinksKept, Alive, Doomed
    <3>2. Linked(t, m)
      BY <2>1, <1>0, LinkedShifts
    <3>. QED BY <3>1, <3>2, <1>0, LinkedDepends
  <2>4. CASE t.ready # <<>>
    <3> DEFINE h == Head(t.ready)
    <3>1. h \in ToSet(t.ready) /\ h \in Proc
      BY <2>4, <1>0 DEF Typed, ToSet
    <3>2. t.state[h] = "Ready"
      BY <3>1, <1>0 DEF Queued
    <3>3. h \notin left.awaiting
      BY <3>2, <1>0, <2>2 DEF WaitsForOne
    <3>5. u = LeaveLists(left, h) /\ NextOf(t, p) = h
      BY <1>2, <2>2, <2>4 DEF TakeNext, NextOf, left
    <3>. HIDE DEF h, u
    <3>6. Linked(left, h)
      BY <2>3
    <3>4. Linked(LeaveLists(left, h), h)
      BY <3>6, <2>b, <3>1, <3>3, LeaveListsLinked
    <3>. QED BY <3>4, <3>5, <3>1, <1>0 DEF u
  <2>5. CASE t.ready = <<>>
    <3>1. u = left /\ NextOf(t, p) = Nobody
      BY <1>2, <2>2, <2>5 DEF TakeNext, NextOf, left
    <3>2. Linked(left, Base)
      BY <2>3
    <3>. QED BY <3>1, <3>2
  <2>. QED BY <2>4, <2>5
<1>. QED BY <1>1, <1>2

LEMMA SwitchAwayLinked ==
  ASSUME NEW t, Core(t), Parked(t), Pointed(t), Linked(t, t.current)
  PROVE  Linked(SwitchAway(t, t.current), SwitchAway(t, t.current).current)
<1> DEFINE p      == t.current
           next   == NextOf(t, p)
           taken  == TakeNext(t, p)
           undone == LeaveLists(taken, Base)
           u      == SwitchAway(t, t.current)
<1>0. p \in Proc /\ Base \in Proc /\ Typed(t)
  BY Names DEF Core, Typed
<1>1. /\ Core(taken) /\ Parked(taken) /\ taken.current = p
      /\ next # Nobody => next \in Proc /\ taken.state[next] = "Suspended"
      /\ next # Nobody => Linked(taken, next)
      /\ next = Nobody => Linked(taken, Base)
  BY <1>0, TakeNextTakes, TakeNextLinked
<1>2. CASE next # Nobody
  <2>1. Linked(SwitchTo(taken, next), next) /\ SwitchTo(taken, next).current = next
    BY <1>1, <1>2, SwitchToLinked, SwitchToRuns DEF Core
  <2>2. u = SwitchTo(taken, next)
    BY <1>2 DEF SwitchAway
  <2>. QED BY <2>1, <2>2
<1>3. CASE next = Nobody
  <2>1. taken.resumeTo[Base] = Nobody
    BY <1>1, <1>3 DEF Linked
  <2>2. Linked(undone, Base)
    BY <1>0, <1>1, <1>3, <2>1, LeaveListsLinked
  <2>3. Core(undone) /\ undone.current = p
    BY <1>0, <1>1, LeaveListsKeeps
  <2>4. Typed(undone) /\ \A o \in Proc : undone.state[o] # "Running" \/ o = Base
    <3>1. \A o \in Proc : undone.state[o] = IF o = Base THEN "Suspended" ELSE taken.state[o]
      BY <1>0, <1>1, LeaveListsKeeps
    <3>. QED BY <3>1, <2>3, <1>1 DEF Core, Parked
  <2>. HIDE DEF undone
  <2>5. CASE p = Base
    <3>1. u = BaseFails(undone)
      BY <1>3, <2>5 DEF SwitchAway, undone
    <3>2. /\ u.resumeTo = undone.resumeTo /\ u.awaiting = undone.awaiting
          /\ u.state = [undone.state EXCEPT ![Base] = "Running"]
          /\ u.condemned = undone.condemned
          /\ u.aborting = undone.aborting \cup {Base}
          /\ u.current = undone.current
      BY <3>1, <2>4, SMTT(30) DEF BaseFails, Typed, Fields
    <3>3. undone.state \in [Proc -> States]
      BY <2>4 DEF Typed
    <3>. HIDE DEF u
    <3>4. LinksKept(undone, u, Base)
      BY <3>2, <3>3 DEF LinksKept, Alive, Doomed
    <3>5. u.current = Base
      BY <3>2, <2>3, <2>5
    <3>6. Linked(u, u.current)
      BY <3>4, <3>5, <2>2, <2>4, LinkedDepends
    <3>. QED BY <3>6 DEF u
  <2>6. CASE p # Base
    <3> DEFINE w == [undone EXCEPT !.deadlocked = @ \cup {Base}]
    <3>1. u = SwitchTo(w, Base)
      BY <1>3, <2>6 DEF SwitchAway, undone
    <3>2. /\ w.resumeTo = undone.resumeTo /\ w.awaiting = undone.awaiting
          /\ w.state = undone.state
          /\ w.condemned = undone.condemned /\ w.aborting = undone.aborting
      BY <2>4 DEF Typed, Fields
    <3>3. Typed(w)
      BY <2>4, <1>0, SMTT(30) DEF Typed, Fields
    <3>. HIDE DEF w
    <3>4. LinksKept(undone, w, Base)
      BY <3>2 DEF LinksKept, Alive, Doomed
    <3>5. Linked(w, Base)
      BY <3>4, <2>2, <2>4, LinkedDepends
    <3>6. Linked(SwitchTo(w, Base), Base)
      BY <3>3, <3>5, <1>0, SwitchToLinked
    <3>7. SwitchTo(w, Base).current = Base
      BY <3>3, SMTT(30) DEF SwitchTo, SwitchMarks, Typed, Fields
    <3>. QED BY <3>1, <3>6, <3>7
  <2>. QED BY <2>5, <2>6
<1>. QED BY <1>2, <1>3

\* An operation stops the process that runs: the one it returns to goes on.
LEMMA StopLinked ==
  ASSUME NEW t, NEW m, Sound(t), Places(t), Linked(t, t.current),
         Core(m), Parked(m), m.current = t.current,
         m.resumeTo = t.resumeTo, m.awaiting = t.awaiting,
         m.condemned = t.condemned, m.aborting = t.aborting,
         \A o \in Proc : o # t.current => m.state[o] = t.state[o]
  PROVE  LET u == SwitchAway(m, m.current) IN Linked(u, u.current)
<1>1. Typed(t)
  BY DEF Sound, Core
<1>2. LinksKept(t, m, t.current)
  BY DEF LinksKept, Alive, Doomed
<1>3. Linked(m, t.current)
  BY <1>1, <1>2, LinkedDepends
<1>4. Linked(m, m.current)
  BY <1>3
<1>5. Pointed(m)
  BY PointedDepends DEF Places
<1>. QED BY <1>4, <1>5, SwitchAwayLinked

LEMMA WaitsOnLinked ==
  ASSUME NEW t, Sound(t), Places(t), Linked(t, t.current),
         NEW s \in Semaphores, NEW f \in Frames
  PROVE  LET u == WaitsOn(t, s, f) IN Linked(u, u.current)
<1> DEFINE c == t.current
           m == [[t EXCEPT !.linkedList[s] = Append(@, t.current),
                           !.myList[t.current] = s,
                           !.state[t.current] = "Waiting",
                           !.waitingOn[t.current] = s]
                 EXCEPT !.frame[t.current] = f]
<1>1. c \in Proc /\ Typed(t) /\ t.linkedList[s] \in Seq(Proc)
  BY DEF Sound, Core, Typed
<1>2. Append(t.linkedList[s], c) \in Seq(Proc)
  BY <1>1, AppendAdds
<1>3. Typed(m)
  BY <1>1, <1>2, SMTT(30) DEF Typed, States, Fields
<1>4. /\ m.ready = t.ready /\ m.quiescent = t.quiescent
      /\ m.state = [t.state EXCEPT ![c] = "Waiting"]
      /\ m.waitingOn = [t.waitingOn EXCEPT ![c] = s]
      /\ m.current = c /\ m.awaiting = t.awaiting /\ m.resumeTo = t.resumeTo
      /\ m.condemned = t.condemned /\ m.aborting = t.aborting
  BY <1>1 DEF Typed, Fields
<1>5. WaitsOn(t, s, f) = SwitchAway(m, m.current)
  BY <1>4 DEF WaitsOn, Blocks
<1>. HIDE DEF m
<1>6. "Waiting" \in States \ {"Ready", "Running"}
  BY DEF States
<1>7. Core(m) /\ Parked(m)
  BY <1>3, <1>4, <1>6, StopParks
<1>8. \A o \in Proc : o # t.current => m.state[o] = t.state[o]
  BY <1>1, <1>4 DEF Typed
<1>9. LET u == SwitchAway(m, m.current) IN Linked(u, u.current)
  BY <1>4, <1>7, <1>8, StopLinked
<1>. QED BY <1>5, <1>9

LEMMA SuspendLinked ==
  ASSUME NEW t, Sound(t), Places(t), Linked(t, t.current)
  PROVE  LET u == Blocks([t EXCEPT !.state[t.current] = "Suspended"], "op")
         IN Linked(u, u.current)
<1> DEFINE c == t.current
           m == [[t EXCEPT !.state[c] = "Suspended"] EXCEPT !.frame[c] = "op"]
           b == Blocks([t EXCEPT !.state[c] = "Suspended"], "op")
<1>1. c \in Proc /\ Typed(t)
  BY DEF Sound, Core, Typed
<1>3. Typed(m)
  BY <1>1, SMTT(30) DEF Typed, States, Frames, Fields
<1>4. /\ m.ready = t.ready /\ m.quiescent = t.quiescent
      /\ m.state = [t.state EXCEPT ![c] = "Suspended"]
      /\ m.waitingOn = t.waitingOn
      /\ m.current = c /\ m.awaiting = t.awaiting /\ m.resumeTo = t.resumeTo
      /\ m.condemned = t.condemned /\ m.aborting = t.aborting
  BY <1>1 DEF Typed, Fields
<1>5. b = SwitchAway(m, m.current)
  BY <1>1, <1>4 DEF Blocks, Typed, Fields
<1>. HIDE DEF m, b
<1>6. "Suspended" \in States \ {"Ready", "Running"}
  BY DEF States
<1>7. Core(m) /\ Parked(m)
  BY <1>3, <1>4, <1>6, StopParks
<1>8. \A o \in Proc : o # t.current => m.state[o] = t.state[o]
  BY <1>1, <1>4 DEF Typed
<1>9. LET u == SwitchAway(m, m.current) IN Linked(u, u.current)
  BY <1>4, <1>7, <1>8, StopLinked
<1>. QED BY <1>5, <1>9 DEF b

LEMMA YieldLinked ==
  ASSUME NEW t, Sound(t), Places(t), Linked(t, t.current)
  PROVE  LET u == YieldFrom(t) IN Linked(u, u.current)
<1> DEFINE c == t.current
           k == [t EXCEPT !.frame[t.current] = "op"]
           m == Enqueue(k, c)
           n == NextOf(m, c)
           y == YieldFrom(t)
<1>1. /\ c \in Proc /\ "op" \in Frames /\ t.state[c] = "Running" /\ Typed(t)
  BY DEF Frames, Sound, Core, Typed, OneRuns
<1>2. Sound(k) /\ SamePlaces(t, k) /\ k.current = c
  BY <1>1, FrameKeeps
<1>3. y = SwitchTo(TakeNext(m, c), n)
  BY DEF YieldFrom
<1>4. /\ k.resumeTo = t.resumeTo /\ k.state = t.state /\ k.awaiting = t.awaiting
      /\ k.condemned = t.condemned /\ k.aborting = t.aborting
  BY <1>1 DEF Typed, Fields
<1>. HIDE DEF k
<1>5. k.state[c] = "Running" /\ c \notin k.awaiting /\ k.waitingOn[c] = Nil
  BY <1>1, <1>2 DEF Sound, Core, OneRuns, WaitsForOne
<1>6. /\ Core(m) /\ m.ready # <<>> /\ m.current = c
      /\ \A o \in Proc : m.state[o] = IF o = c THEN "Ready" ELSE k.state[o]
  BY <1>1, <1>2, <1>5, EnqueueKeeps DEF Sound
<1>7. /\ m.resumeTo = k.resumeTo /\ m.awaiting = k.awaiting
      /\ m.condemned = k.condemned /\ m.aborting = k.aborting
  BY <1>2 DEF Enqueue, Pushed, Sound, Core, Typed, Fields
<1>. HIDE DEF m
<1>8. Parked(m)
  BY <1>2, <1>6 DEF Sound, OneRuns, Parked
<1>9. n # Nobody
  BY <1>1, <1>6, <1>8, TakeNextTakes
<1>10. y = SwitchAway(m, m.current)
  BY <1>3, <1>6, <1>9 DEF SwitchAway
<1>. HIDE DEF y
<1>11. \A o \in Proc : o # t.current => m.state[o] = t.state[o]
  BY <1>4, <1>6
<1>12. LET u == SwitchAway(m, m.current) IN Linked(u, u.current)
  BY <1>4, <1>6, <1>7, <1>8, <1>11, StopLinked
<1>. QED BY <1>10, <1>12 DEF y

\* A halt, of a process that does not unwind: nobody waits any more.
LEMMA HaltsLinked ==
  ASSUME NEW t, Sound(t), Places(t), Linked(t, t.current),
         t.current = me, me # Base, me \notin Doomed(t)
  PROVE  LET u == Halts(t) IN Linked(u, u.current)
<1> DEFINE m == [t EXCEPT !.state[me] = "Halted",
                          !.resumeTo[me] = Nobody,
                          !.frame[me] = "op"]
           v == LeaveLists(m, Base)
           h == Halts(t)
<1>1. /\ me \in Proc /\ Typed(t) /\ Base \in Proc /\ Nobody \notin Proc
      /\ Base # me
  BY Names DEF Sound, Core, Typed
<1>2. Typed(m)
  BY <1>1, SMTT(30) DEF Typed, States, Frames, Fields
<1>3. /\ m.ready = t.ready /\ m.quiescent = t.quiescent
      /\ m.state = [t.state EXCEPT ![me] = "Halted"]
      /\ m.waitingOn = t.waitingOn
      /\ m.awaiting = t.awaiting
      /\ m.resumeTo = [t.resumeTo EXCEPT ![me] = Nobody]
  BY <1>1 DEF Typed, Fields
<1>4. h = SwitchTo(v, Base)
  BY DEF Halts
<1>. HIDE DEF m, h
<1>5. "Halted" \in States \ {"Ready", "Running"}
  BY DEF States
<1>6. Core(m) /\ Parked(m)
  BY <1>2, <1>3, <1>5, StopParks
<1>7. /\ t.awaiting \subseteq {Base}
      /\ \A p \in Proc : p # me => t.resumeTo[p] = Nobody
  BY <1>1, NotHeld
<1>8. \A p \in Proc : m.resumeTo[p] = Nobody
  BY <1>1, <1>3, <1>7 DEF Typed
<1>9. /\ v.awaiting = m.awaiting \ {Base}
      /\ \A o \in Proc : v.resumeTo[o] =
           IF Base \in m.awaiting /\ m.resumeTo[o] = Base THEN Nobody
                                                          ELSE m.resumeTo[o]
  <2>1. Leaves(m, v, Base)
    BY <1>1, <1>6, LeaveListsLeaves
  <2>. QED BY <2>1 DEF Leaves
<1>10. Core(v)
  BY <1>1, <1>6, LeaveListsKeeps
<1>. HIDE DEF v
<1>11. Linked(v, Base)
  <2>1. v.awaiting = {}
    BY <1>3, <1>7, <1>9
  <2>2. \A o \in Proc : v.resumeTo[o] = Nobody
    BY <1>8, <1>9
  <2>. QED BY <2>1, <2>2, LinkedAlone
<1>12. Linked(SwitchTo(v, Base), Base)
  BY <1>1, <1>10, <1>11, SwitchToLinked DEF Core
<1>13. h.current = Base
  BY <1>4, <1>10, SMTT(30) DEF SwitchTo, SwitchMarks, Core, Typed, Fields
<1>. QED BY <1>4, <1>12, <1>13 DEF h

\* The dead are released: nobody waits for one of them, and none is waited for.
LEMMA ReapDeadLinked ==
  ASSUME NEW t, Sound(t), Pointed(t), Linked(t, t.current)
  PROVE  Linked(ReapDead(t), t.current) /\ ReapDead(t).current = t.current
<1> DEFINE u    == ReapDead(t)
           dead == {p \in Fibers : t.state[p] = "Dead" /\ p # t.current}
<1>0. Typed(t) /\ WaitsForOne(t) /\ Nobody \notin Proc /\ Fibers \subseteq Proc
  BY Names DEF Sound, Core
<1>1. /\ u.state = [p \in Proc |-> IF p \in dead THEN "Gone" ELSE t.state[p]]
      /\ u.resumeTo = [p \in Proc |->
                          IF p \in dead \/ t.resumeTo[p] \in dead
                            THEN Nobody ELSE t.resumeTo[p]]
      /\ u.awaiting = t.awaiting /\ u.condemned = t.condemned
      /\ u.aborting = t.aborting \cap (Proc \ dead)
  BY <1>0 DEF Typed, ReapDead, Fields
<1>2. \A p \in dead : p \in Proc /\ t.state[p] = "Dead" /\ p # t.current
                      /\ p \notin t.awaiting
  BY <1>0 DEF WaitsForOne
<1>. HIDE DEF u, dead
<1>3. ASSUME NEW p \in Proc
      PROVE  /\ u.resumeTo[p] = t.resumeTo[p]
             /\ p \in dead => t.resumeTo[p] = Nobody
  <2>1. p \in dead => t.resumeTo[p] = Nobody
    BY <1>2 DEF Linked
  <2>2. t.resumeTo[p] \notin dead
    BY <1>0, <1>2 DEF Pointed
  <2>. QED BY <1>1, <2>1, <2>2
<1>4. u.resumeTo = t.resumeTo
  BY <1>0, <1>1, <1>3 DEF Typed
<1>5. \A o \in Proc : t.resumeTo[o] # Nobody => u.state[o] = t.state[o]
  BY <1>1, <1>3
<1>6. LinksKept(t, u, t.current)
  BY <1>1, <1>3, <1>4, <1>5 DEF LinksKept, Alive, Doomed
<1>7. ReapDead(t).current = t.current
  BY ReapDeadKeeps
<1>. QED BY <1>0, <1>6, <1>7, LinkedDepends DEF u

\* The running process hands over to p, which returns to it: neither it nor any
\* other but the base was waited for.
LEMMA HandsLinked ==
  ASSUME NEW t, NEW v, Typed(t), Typed(v), Linked(t, t.current),
         t.current = Base \/ t.current \notin Doomed(t),
         NEW p \in Fibers, p # t.current,
         v.awaiting = t.awaiting \cup {t.current},
         v.resumeTo = [t.resumeTo EXCEPT ![p] = t.current],
         Alive(v, t.current),
         t.current = Base \/ (p \in Doomed(v) /\ t.current \notin Doomed(v))
  PROVE  Linked(SwitchTo(v, p), SwitchTo(v, p).current)
<1> DEFINE c == t.current
<1>1. /\ c \in Proc /\ p \in Proc /\ p # Base /\ Nobody \notin Proc
      /\ Base \in Proc
  BY Names DEF Typed
<1>2. /\ t.awaiting \subseteq {Base}
      /\ \A o \in Proc : o # c => t.resumeTo[o] = Nobody
      /\ t.resumeTo[c] \in {Nobody, Base}
  BY <1>1, NotHeld
<1>3. \A o \in Proc : v.resumeTo[o] = IF o = p THEN c ELSE t.resumeTo[o]
  BY <1>1 DEF Typed
<1>4. v.resumeTo[Base] = Nobody
  BY <1>1, <1>3 DEF Linked
<1>5. \A o \in Proc : v.resumeTo[o] # Nobody => o = p \/ o \in v.awaiting
  BY <1>2, <1>3
<1>6. ASSUME NEW x \in v.awaiting
      PROVE  \E o \in Proc : v.resumeTo[o] = x /\ (o = p \/ Alive(v, o))
  <2>1. CASE x = c
    BY <2>1, <1>1, <1>3
  <2>2. CASE x # c
    <3>1. x \in t.awaiting /\ x \in Proc
      BY <2>2, <1>1, <1>2, <1>6
    <3>2. PICK o \in Proc : t.resumeTo[o] = x
      BY <3>1 DEF Linked
    <3>3. o = c
      BY <3>1, <3>2, <1>1, <1>2
    <3>. QED BY <3>2, <3>3, <1>3
  <2>. QED BY <2>1, <2>2
<1>7. ASSUME NEW o \in Proc, v.resumeTo[o] \notin {Nobody, Base}
      PROVE  o \in Doomed(v)
  BY <1>2, <1>3, <1>7
<1>8. \A o \in v.awaiting : o \in Doomed(v) => o = Base
  BY <1>2
<1>9. Linked(v, p)
  BY <1>4, <1>5, <1>6, <1>7, <1>8 DEF Linked
<1>10. SwitchTo(v, p).current = p
  BY SMTT(30) DEF SwitchTo, SwitchMarks, Typed, Fields
<1>. QED BY <1>1, <1>9, <1>10, SwitchToLinked

\* A process terminates another, and does not unwind itself.
LEMMA TerminatedLinked ==
  ASSUME NEW t, Sound(t), Places(t), Linked(t, t.current),
         t.current = Base \/ t.current \notin Doomed(t),
         NEW p \in Fibers, p # t.current
  PROVE  LET u == Terminated(t, p) IN Linked(u, u.current)
<1> DEFINE c   == t.current
           out == LeaveLists(t, p)
           e   == Terminated(t, p)
<1>1. /\ c \in Proc /\ p \in Proc /\ p # Base /\ Typed(t) /\ Core(t)
      /\ Nobody \notin Proc /\ Base \in Proc
  BY Names DEF Sound, Core, Typed
<1>2. /\ t.awaiting \subseteq {Base}
      /\ \A o \in Proc : o # c => t.resumeTo[o] = Nobody
      /\ t.resumeTo[c] \in {Nobody, Base}
  BY <1>1, NotHeld
<1>3. p \notin t.awaiting
  BY <1>1, <1>2
<1>4. /\ out.awaiting = t.awaiting /\ out.resumeTo = t.resumeTo
      /\ out.state = [t.state EXCEPT ![p] = "Suspended"]
      /\ out.condemned = t.condemned /\ out.aborting = t.aborting
  <2>1. Leaves(t, out, p)
    BY <1>1, LeaveListsLeaves
  <2>. HIDE DEF out
  <2>2. t.awaiting \ {p} = t.awaiting
    BY <1>3
  <2>. QED BY <2>1, <2>2, <1>3 DEF Leaves
<1>5. /\ Sound(out) /\ out.current = c /\ out.state[p] = "Suspended"
      /\ out.frame = t.frame
  BY <1>1, LeaveListsSound
<1>6. CASE t.frame[p] = "new"
  <2> DEFINE m == [out EXCEPT !.state[p] = "Dead", !.terminated = @ \cup {p}]
  <2>1. e = ReapDead(m)
    BY <1>6 DEF Terminated
  <2>2. Typed(m)
    BY <1>1, <1>5, SMTT(30) DEF Sound, Core, Typed, States, Fields
  <2>3. /\ m.ready = out.ready /\ m.quiescent = out.quiescent
        /\ m.state = [out.state EXCEPT ![p] = "Dead"]
        /\ m.awaiting = out.awaiting /\ m.waitingOn = out.waitingOn
        /\ m.current = out.current /\ m.resumeTo = out.resumeTo
        /\ m.condemned = out.condemned /\ m.aborting = out.aborting
        /\ m.linkedList = out.linkedList /\ m.myList = out.myList
        /\ m.excess = out.excess /\ m.frame = out.frame
    BY <1>5 DEF Sound, Core, Typed, Fields
  <2>. HIDE DEF m
  <2>4. Sound(m)
    BY <1>1, <1>5, <2>2, <2>3, OtherMoves
  <2>5. LinksKept(t, m, c)
    <3>1. \A o \in Proc : o # p => m.state[o] = t.state[o]
      BY <1>1, <1>4, <2>3 DEF Typed
    <3>2. t.resumeTo[p] = Nobody
      BY <1>1, <1>2
    <3>. QED BY <1>4, <2>3, <3>1, <3>2 DEF LinksKept, Alive, Doomed
  <2>6. Linked(m, m.current)
    BY <1>1, <1>5, <2>3, <2>5, LinkedDepends
  <2>7. Pointed(m)
    <3>1. Pointed(out)
      BY <1>4, PointedDepends DEF Places
    <3>. QED BY <2>3, <3>1, PointedDepends
  <2>. HIDE DEF e
  <2>8. Linked(ReapDead(m), m.current) /\ ReapDead(m).current = m.current
    BY <2>4, <2>6, <2>7, ReapDeadLinked
  <2>. QED BY <2>1, <2>8 DEF e
<1>7. CASE t.frame[p] # "new"
  <2> DEFINE v == [out EXCEPT !.condemned   = @ \cup {p},
                              !.resumeTo[p] = t.current,
                              !.state[t.current] = "Waiting",
                              !.awaiting    = @ \cup {t.current},
                              !.frame[t.current] = "op"]
  <2>1. e = SwitchTo(v, p)
    BY <1>7 DEF Terminated
  <2>2. Typed(v)
    BY <1>1, <1>5, SMTT(30) DEF Sound, Core, Typed, States, Frames, Fields
  <2>3. /\ v.state = [out.state EXCEPT ![c] = "Waiting"]
        /\ v.condemned = out.condemned \cup {p}
        /\ v.aborting = out.aborting
        /\ v.awaiting = out.awaiting \cup {c}
        /\ v.resumeTo = [out.resumeTo EXCEPT ![p] = c]
    BY <1>5 DEF Sound, Core, Typed, Fields
  <2>4. out.state \in [Proc -> States]
    BY <1>5 DEF Sound, Core, Typed
  <2>. HIDE DEF v, out, e
  <2>5. Alive(v, c)
    BY <1>1, <2>3, <2>4 DEF Alive, LiveStates
  <2>6. c = Base \/ (p \in Doomed(v) /\ c \notin Doomed(v))
    BY <1>4, <2>3 DEF Doomed
  <2>7. /\ v.awaiting = t.awaiting \cup {t.current}
        /\ v.resumeTo = [t.resumeTo EXCEPT ![p] = t.current]
    BY <1>4, <2>3
  <2>8. Linked(SwitchTo(v, p), SwitchTo(v, p).current)
    BY <1>1, <2>2, <2>5, <2>6, <2>7, HandsLinked
  <2>. QED BY <2>1, <2>8 DEF e
<1>. QED BY <1>6, <1>7

\* The base runs a process, w, taken out of its lists, and waits for it.
LEMMA RunAwaitedLinked ==
  ASSUME NEW w, Typed(w), w.current = Base, Linked(w, Base), NEW p \in Fibers
  PROVE  LET u == RunAwaited(w, p) IN Linked(u, u.current)
<1> DEFINE v == [w EXCEPT !.resumeTo[p] = Base,
                          !.state[Base] = "Waiting",
                          !.awaiting = @ \cup {Base},
                          !.frame[Base] = "op"]
           r == RunAwaited(w, p)
<1>1. p # Base /\ p \in Proc /\ Base \in Proc
  BY Names
<1>2. r = SwitchTo(v, p)
  BY DEF RunAwaited
<1>3. Typed(v)
  BY <1>1, SMTT(30) DEF Typed, States, Frames, Fields
<1>4. /\ v.state = [w.state EXCEPT ![Base] = "Waiting"]
      /\ v.awaiting = w.awaiting \cup {Base}
      /\ v.resumeTo = [w.resumeTo EXCEPT ![p] = Base]
  BY <1>1 DEF Typed, Fields
<1>5. Alive(v, Base)
  BY <1>1, <1>4 DEF Typed, Alive, LiveStates
<1>. HIDE DEF v, r
<1>6. PICK b : b = w.current
  OBVIOUS
<1>7. /\ v.awaiting = w.awaiting \cup {w.current}
      /\ v.resumeTo = [w.resumeTo EXCEPT ![p] = w.current]
      /\ Alive(v, w.current) /\ Linked(w, w.current) /\ p # w.current
  BY <1>1, <1>4, <1>5
<1>8. Linked(SwitchTo(v, p), SwitchTo(v, p).current)
  BY <1>3, <1>7, HandsLinked
<1>. QED BY <1>2, <1>8 DEF r

-----------------------------------------------------------------------------
\* The steps.

\* What an operation leaves that moves no pointer and stops nobody.
Tied(t, u) ==
  /\ u.resumeTo = t.resumeTo /\ u.awaiting = t.awaiting
  /\ u.current = t.current
  /\ u.condemned = t.condemned /\ u.aborting = t.aborting
  /\ \A o \in Proc : t.resumeTo[o] # Nobody /\ Alive(t, o) => Alive(u, o)

LEMMA TiedLinked ==
  ASSUME NEW t, NEW u, Typed(t), Linked(t, t.current), Tied(t, u)
  PROVE  Linked(u, u.current)
<1>1. LinksKept(t, u, t.current)
  BY DEF Tied, LinksKept, Doomed
<1>. QED BY <1>1, LinkedDepends DEF Tied

LEMMA TiedThrough ==
  ASSUME NEW t, NEW u, NEW v, Tied(t, u), Tied(u, v)
  PROVE  Tied(t, v)
BY DEF Tied

LEMMA AbortsLinked ==
  ASSUME NEW t, Typed(t), Linked(t, t.current), t.current \notin t.awaiting
  PROVE  LET v == Aborts(t)
             w == Aborts([t EXCEPT !.heapMark = TRUE])
         IN Linked(v, v.current) /\ Linked(w, w.current)
<1> DEFINE v == Aborts(t)
           w == Aborts([t EXCEPT !.heapMark = TRUE])
<1>1. /\ v.resumeTo = t.resumeTo /\ v.awaiting = t.awaiting
      /\ v.current = t.current /\ v.state = t.state
      /\ v.condemned = t.condemned /\ v.aborting = t.aborting \cup {t.current}
  BY DEF Aborts, Typed, Fields
<1>2. /\ w.resumeTo = t.resumeTo /\ w.awaiting = t.awaiting
      /\ w.current = t.current /\ w.state = t.state
      /\ w.condemned = t.condemned /\ w.aborting = t.aborting \cup {t.current}
  BY DEF Aborts, Typed, Fields
<1>. HIDE DEF v, w
<1>3. LinksKept(t, v, t.current) /\ LinksKept(t, w, t.current)
  BY <1>1, <1>2 DEF LinksKept, Doomed, Alive
<1>4. Linked(v, v.current) /\ Linked(w, w.current)
  BY <1>1, <1>2, <1>3, LinkedDepends
<1>. QED BY <1>4 DEF v, w

LEMMA DropStaleTied ==
  ASSUME NEW t, Sound(t), NEW s \in Semaphores
  PROVE  Tied(t, DropStale(t, s)) /\ DropStale(t, s).excess = t.excess
<1> DEFINE u == DropStale(t, s)
<1>1. Typed(t)
  BY DEF Sound, Core
<1>2. /\ u.resumeTo = t.resumeTo /\ u.awaiting = t.awaiting
      /\ u.current = t.current /\ u.state = t.state /\ u.excess = t.excess
      /\ u.condemned = t.condemned /\ u.aborting = t.aborting
  BY <1>1 DEF DropStale, Typed, Fields
<1>. HIDE DEF u
<1>3. Tied(t, u)
  BY <1>2 DEF Tied, Alive
<1>. QED BY <1>2, <1>3 DEF u

LEMMA SignalTied ==
  ASSUME NEW t, Sound(t), NEW s \in Semaphores
  PROVE  Tied(t, Signal(t, s))
<1> DEFINE left == DropStale(t, s)
           p    == Head(left.linkedList[s])
           u    == Signal(t, s)
<1>1. Typed(t) /\ Sound(left) /\ Tied(t, left)
  BY SignalSound, DropStaleTied DEF Sound, Core
<1>2. Typed(left)
  BY <1>1 DEF Sound, Core
<1>3. left.state \in [Proc -> States]
  BY <1>2 DEF Typed
<1>4. CASE FirstWaiter(t, s) = 0
  <2>1. u = [left EXCEPT !.excess[s] = @ + 1]
    BY <1>4 DEF Signal
  <2>. HIDE DEF left
  <2>2. /\ u.resumeTo = left.resumeTo /\ u.awaiting = left.awaiting
        /\ u.current = left.current /\ u.state = left.state
        /\ u.condemned = left.condemned /\ u.aborting = left.aborting
    BY <1>2, <2>1 DEF Typed, Fields
  <2>. HIDE DEF u
  <2>3. Tied(left, u)
    BY <2>2 DEF Tied, Alive
  <2>4. Tied(t, u)
    BY <1>1, <2>3, TiedThrough
  <2>. QED BY <2>4 DEF u
<1>5. CASE FirstWaiter(t, s) # 0
  <2>1. u = Enqueue([left EXCEPT !.linkedList[s] = RemoveFirst(@, p),
                                 !.waitingOn[p]  = Nil,
                                 !.signaledBy[p] = s], p)
    BY <1>5 DEF Signal
  <2>. HIDE DEF left, p
  <2>2. /\ u.resumeTo = left.resumeTo /\ u.awaiting = left.awaiting
        /\ u.current = left.current
        /\ u.state = [left.state EXCEPT ![p] = "Ready"]
        /\ u.condemned = left.condemned /\ u.aborting = left.aborting
    BY <1>2, <2>1 DEF Enqueue, Pushed, Typed, Fields
  <2>. HIDE DEF u
  <2>3. \A o \in Proc : Alive(left, o) => Alive(u, o)
    BY <1>3, <2>2 DEF Alive, LiveStates
  <2>4. Tied(left, u)
    BY <2>2, <2>3 DEF Tied
  <2>5. Tied(t, u)
    BY <1>1, <2>4, TiedThrough
  <2>. QED BY <2>5 DEF u
<1>. QED BY <1>4, <1>5

\* The invariant, and the step it takes.
IReturns == IAnswers /\ Linked(vm, vm.current)
Returns  == Linked(vm', vm'.current)

\* No ensure: or ifCurtailed: block suspends or terminates another process.
Orderly == CleanupOps \cap {"suspend", "terminate"} = {}

LEMMA Around ==
  ASSUME IReturns
  PROVE  /\ IAnswers /\ IPlaces /\ IInv
         /\ Sound(vm) /\ Core(vm) /\ Typed(vm) /\ Places(vm)
         /\ Linked(vm, vm.current) /\ Linked(vm, me) /\ me = vm.current
         /\ me \in Proc /\ vm.state[me] = "Running" /\ me \notin vm.awaiting
         /\ Tied(vm, vm) /\ vm.state \in [Proc -> States]
<1>1. /\ IAnswers /\ IPlaces /\ IInv
      /\ Sound(vm) /\ Core(vm) /\ Typed(vm) /\ Places(vm)
      /\ Linked(vm, vm.current) /\ me = vm.current
      /\ me \in Proc /\ vm.state[me] = "Running"
  BY Now DEF IReturns, IPlaces
<1>2. me \notin vm.awaiting
  BY <1>1 DEF Core, WaitsForOne
<1>3. Tied(vm, vm)
  BY DEF Tied
<1>4. vm.state \in [Proc -> States]
  BY <1>1 DEF Typed
<1>. QED BY <1>1, <1>2, <1>3, <1>4

LEMMA TiedReturns ==
  ASSUME IReturns, NEW t, Tied(vm, t)
  PROVE  /\ Linked(t, t.current)
         /\ Becomes(t) => Returns
         /\ Typed(t) /\ Becomes(Aborts(t)) => Returns
         /\ Typed(t) /\ OutOfMemory(t) => Returns
         /\ \A h : HostBecomes(t, h) => Returns
<1>1. Linked(t, t.current)
  BY Around, TiedLinked
<1>2. t.current \notin t.awaiting
  BY Around DEF Tied
<1>3. Becomes(t) => Returns
  BY <1>1 DEF Becomes, Returns
<1>4. Typed(t) /\ Becomes(Aborts(t)) => Returns
  <2>. SUFFICES ASSUME Typed(t), Becomes(Aborts(t)) PROVE Returns
    OBVIOUS
  <2>1. Linked(Aborts(t), Aborts(t).current)
    BY <1>1, <1>2, AbortsLinked
  <2>. QED BY <2>1 DEF Becomes, Returns
<1>5. Typed(t) /\ OutOfMemory(t) => Returns
  <2>. SUFFICES ASSUME Typed(t), OutOfMemory(t) PROVE Returns
    OBVIOUS
  <2> DEFINE w == Aborts([t EXCEPT !.heapMark = TRUE])
  <2>1. Linked(w, w.current)
    BY <1>1, <1>2, AbortsLinked
  <2>2. vm' = w
    BY DEF OutOfMemory
  <2>. HIDE DEF w
  <2>. QED BY <2>1, <2>2 DEF Returns
<1>6. \A h : HostBecomes(t, h) => Returns
  BY <1>1 DEF HostBecomes, Returns
<1>. QED BY <1>1, <1>3, <1>4, <1>5, <1>6

\* An error halts the evaluation, or aborts the process.
LEMMA StopsReturns ==
  ASSUME IReturns, NEW t, Sound(t), Places(t), Tied(vm, t),
         CanHalt => me # Base, Stops(t)
  PROVE  Returns
<1>1. Typed(t) /\ t.current = me /\ Linked(t, t.current)
  BY TiedReturns, Around DEF Sound, Core, Tied
<1>2. CASE CanHalt
  <2>1. me # Base /\ me \notin Doomed(t)
    BY <1>2 DEF CanHalt, Doomed, Tied
  <2>2. Linked(Halts(t), Halts(t).current)
    BY <1>1, <2>1, HaltsLinked
  <2>. QED BY <1>2, <2>2 DEF Stops, Becomes, Returns
<1>3. CASE ~ CanHalt
  BY <1>1, <1>3, TiedReturns DEF Stops
<1>. QED BY <1>2, <1>3

LEMMA FiberHalts ==
  ASSUME IReturns
  PROVE  CanHalt => me # Base
BY Now DEF IReturns, CanHalt

LEMMA TroubleReturns == IReturns /\ Trouble => Returns
BY Around, FiberHalts, StopsReturns DEF Trouble

LEMMA ForkReturns == IReturns /\ Fork => Returns
<1> SUFFICES ASSUME IReturns, Fork PROVE Returns
  OBVIOUS
<1>1. CASE Becomes(Aborts(vm)) \/ OutOfMemory(vm)
  BY <1>1, Around, TiedReturns
<1>2. ASSUME NEW p \in Fibers, IsNextPid(vm, p),
             Becomes(Enqueue(vm, p)) \/ OutOfMemory(Unmade(vm, p))
      PROVE  Returns
  <2> DEFINE u == Enqueue(vm, p)
             w == Unmade(vm, p)
  <2>1. p \in Proc /\ vm.state[p] = "None"
    BY <1>2, Names DEF IsNextPid
  <2>2. /\ u.resumeTo = vm.resumeTo /\ u.awaiting = vm.awaiting
        /\ u.current = vm.current
        /\ u.state = [vm.state EXCEPT ![p] = "Ready"]
        /\ u.condemned = vm.condemned /\ u.aborting = vm.aborting
    BY Around DEF Enqueue, Pushed, Typed, Fields
  <2>3. /\ w.resumeTo = vm.resumeTo /\ w.awaiting = vm.awaiting
        /\ w.current = vm.current
        /\ w.state = [vm.state EXCEPT ![p] = "Gone"]
        /\ w.condemned = vm.condemned /\ w.aborting = vm.aborting
    BY Around DEF Unmade, Typed, Fields
  <2>4. Typed(w)
    BY <2>1, Around, SMTT(30) DEF Typed, Unmade, States, Fields
  <2>. HIDE DEF u, w
  <2>5. \A o \in Proc : Alive(vm, o) => Alive(u, o) /\ Alive(w, o)
    BY <2>1, <2>2, <2>3, Around DEF Alive, LiveStates
  <2>6. Tied(vm, u) /\ Tied(vm, w)
    BY <2>2, <2>3, <2>5 DEF Tied
  <2>7. Becomes(u) \/ OutOfMemory(w)
    BY <1>2 DEF u, w
  <2>. QED BY <2>4, <2>6, <2>7, TiedReturns
<1>. QED BY <1>1, <1>2, Around, ForkIs

LEMMA YieldReturns == IReturns /\ Yield => Returns
<1> SUFFICES ASSUME IReturns, Yield PROVE Returns
  OBVIOUS
<1>1. CASE Becomes(YieldFrom(vm))
  <2>1. LET u == YieldFrom(vm) IN Linked(u, u.current)
    BY Around, YieldLinked
  <2>. QED BY <1>1, <2>1 DEF Becomes, Returns
<1>2. CASE OutOfMemory(vm)
  BY <1>2, Around, TiedReturns
<1>. QED BY <1>1, <1>2, Around, YieldIs

LEMMA WaitReturns == IReturns /\ Wait => Returns
<1> SUFFICES ASSUME IReturns, NEW s \in Plain,
                    \/ Becomes(Answered(vm, s))
                    \/ Becomes(WaitsOn(vm, s, "op"))
                    \/ OutOfMemory(vm)
             PROVE  Returns
  BY DEF Wait
<1>0. s \in Semaphores /\ "op" \in Frames
  BY DEF Plain, Frames
<1>1. CASE Becomes(Answered(vm, s))
  <2> DEFINE u == Answered(vm, s)
  <2>1. /\ u.resumeTo = vm.resumeTo /\ u.awaiting = vm.awaiting
        /\ u.current = vm.current /\ u.state = vm.state
        /\ u.condemned = vm.condemned /\ u.aborting = vm.aborting
    BY Around DEF Answered, Typed, Fields
  <2>. HIDE DEF u
  <2>2. Tied(vm, u)
    BY <2>1 DEF Tied, Alive
  <2>3. Becomes(u)
    BY <1>1 DEF u
  <2>. QED BY <2>2, <2>3, TiedReturns
<1>2. CASE Becomes(WaitsOn(vm, s, "op"))
  <2>1. LET u == WaitsOn(vm, s, "op") IN Linked(u, u.current)
    BY <1>0, Around, WaitsOnLinked
  <2>. QED BY <1>2, <2>1 DEF Becomes, Returns
<1>3. CASE OutOfMemory(vm)
  BY <1>3, Around, TiedReturns
<1>. QED BY <1>1, <1>2, <1>3

LEMMA DroppedReturns ==
  ASSUME IReturns, NEW s \in Semaphores,
         Stops(DropStale(vm, s)) \/ OutOfMemory(DropStale(vm, s))
  PROVE  Returns
<1>1. Sound(DropStale(vm, s)) /\ Places(DropStale(vm, s)) /\ Tied(vm, DropStale(vm, s))
  BY Around, SignalSound, DropStalePlaces, DropStaleTied
<1>2. Typed(DropStale(vm, s))
  BY <1>1 DEF Sound, Core
<1>. QED BY <1>1, <1>2, FiberHalts, StopsReturns, TiedReturns

LEMMA SignalSemaphoreReturns == IReturns /\ SignalSemaphore => Returns
<1> SUFFICES ASSUME IReturns, NEW s \in Plain,
                    \/ Becomes(Signal(vm, s))
                    \/ Stops(DropStale(vm, s))
                    \/ OutOfMemory(DropStale(vm, s))
             PROVE  Returns
  BY Around, SignalSemaphoreIs
<1>1. s \in Semaphores
  BY DEF Plain
<1>2. Tied(vm, Signal(vm, s))
  BY <1>1, Around, SignalTied
<1>. QED BY <1>1, <1>2, TiedReturns, DroppedReturns

\* suspend and terminate are sent by a process that does not unwind.
LEMMA NotDoomed ==
  ASSUME IReturns, Orderly, MayRun("suspend") \/ MayRun("terminate")
  PROVE  me \notin Doomed(vm) /\ vm.current \notin Doomed(vm)
<1>1. me \notin vm.aborting
  BY DEF MayRun, Orderly
<1>2. vm.condemned = {}
  BY InCode DEF IReturns, Free
<1>. QED BY <1>1, <1>2 DEF Doomed, me

LEMMA SuspendReturns == IReturns /\ Orderly /\ Suspend => Returns
<1> SUFFICES ASSUME IReturns, Orderly, Suspend PROVE Returns
  OBVIOUS
<1>0. MayRun("suspend")
  BY DEF Suspend
<1>1. CASE Becomes(Blocks([vm EXCEPT !.state[me] = "Suspended"], "op"))
  <2>1. LET u == Blocks([vm EXCEPT !.state[vm.current] = "Suspended"], "op")
        IN Linked(u, u.current)
    BY Around, SuspendLinked
  <2>. QED BY <1>1, <2>1 DEF Becomes, Returns, me
<1>2. ASSUME NEW p \in Named, vm.state[p] \in {"Ready", "Waiting"},
             Becomes(LeaveLists(vm, p))
      PROVE  Returns
  <2>1. p \in Proc /\ p # vm.current
    BY <1>2, Around DEF Named
  <2>2. vm.resumeTo[p] = Nobody
    BY <1>0, <2>1, NotDoomed, NotHeld, Around
  <2>3. Linked(LeaveLists(vm, p), vm.current)
    BY <2>1, <2>2, Around, LeaveListsLinked
  <2>4. LeaveLists(vm, p).current = vm.current
    BY <2>1, Around, LeaveListsKeeps
  <2>. QED BY <1>2, <2>3, <2>4 DEF Becomes, Returns
<1>. QED BY <1>1, <1>2 DEF Suspend

LEMMA ResumeReturns == IReturns /\ Resume => Returns
<1> SUFFICES ASSUME IReturns, NEW p \in Named,
                    \/ Becomes(Aborts(vm))
                    \/ Becomes(Enqueue(vm, p))
                    \/ OutOfMemory(vm)
             PROVE  Returns
  BY Around, ResumeIs
<1>1. CASE Becomes(Aborts(vm)) \/ OutOfMemory(vm)
  BY <1>1, Around, TiedReturns
<1>2. CASE Becomes(Enqueue(vm, p))
  <2> DEFINE u == Enqueue(vm, p)
  <2>1. p \in Proc
    BY DEF Named
  <2>2. /\ u.resumeTo = vm.resumeTo /\ u.awaiting = vm.awaiting
        /\ u.current = vm.current
        /\ u.state = [vm.state EXCEPT ![p] = "Ready"]
        /\ u.condemned = vm.condemned /\ u.aborting = vm.aborting
    BY Around DEF Enqueue, Pushed, Typed, Fields
  <2>3. Becomes(u)
    BY <1>2
  <2>. HIDE DEF u
  <2>4. \A o \in Proc : Alive(vm, o) => Alive(u, o)
    BY <2>1, <2>2, Around DEF Alive, LiveStates
  <2>5. Tied(vm, u)
    BY <2>2, <2>4 DEF Tied
  <2>. QED BY <2>3, <2>5, TiedReturns
<1>. QED BY <1>1, <1>2

\* A process has its signal given back and is terminated.
LEMMA TerminatedReturns ==
  ASSUME IReturns, me = Base \/ me \notin Doomed(vm), NEW p \in LiveFibers(vm) \ {me},
         GivesBack(p) => ~ Overflows(vm, vm.signaledBy[p]),
         vm' = Terminated(Relieved(p), p)
  PROVE  Returns
<1> DEFINE t == Relieved(p)
<1>1. p \in Fibers /\ p \in Proc /\ p # me /\ vm.state[p] # "Gone"
  BY Names DEF LiveFibers, Live, LiveStates, Fibers
<1>2. Sound(t) /\ t.current = me
  BY <1>1, Around, RelievedSound
<1>3. Places(t)
  BY <1>1, Around, RelievedPlaces
<1>4. Tied(vm, t)
  <2>1. CASE GivesBack(p)
    <3> DEFINE given == Signal(vm, vm.signaledBy[p])
    <3>1. vm.signaledBy[p] \in Semaphores
      BY <2>1, <1>1, Around DEF GivesBack, Typed
    <3>2. Tied(vm, given) /\ Sound(given)
      BY <2>1, <3>1, Around, SignalTied, SignalSound
    <3>3. t = [given EXCEPT !.signaledBy[p] = Nil]
      BY <2>1 DEF Relieved
    <3>. HIDE DEF given
    <3>4. /\ t.resumeTo = given.resumeTo /\ t.awaiting = given.awaiting
          /\ t.current = given.current /\ t.state = given.state
          /\ t.condemned = given.condemned /\ t.aborting = given.aborting
      BY <3>2, <3>3 DEF Sound, Core, Typed, Fields
    <3>. HIDE DEF t
    <3>5. Tied(given, t)
      BY <3>4 DEF Tied, Alive
    <3>. QED BY <3>2, <3>5, TiedThrough
  <2>2. CASE ~ GivesBack(p)
    BY <2>2, Around DEF Relieved
  <2>. QED BY <2>1, <2>2
<1>. HIDE DEF t
<1>5. Linked(t, t.current)
  BY <1>4, TiedReturns
<1>6. t.current = Base \/ t.current \notin Doomed(t)
  BY <1>2, <1>4 DEF Tied, Doomed
<1>7. LET u == Terminated(t, p) IN Linked(u, u.current)
  BY <1>1, <1>2, <1>3, <1>5, <1>6, TerminatedLinked
<1>. QED BY <1>7 DEF Returns, t

LEMMA TerminateReturns == IReturns /\ Orderly /\ Terminate => Returns
<1> SUFFICES ASSUME IReturns, Orderly, Terminate PROVE Returns
  OBVIOUS
<1>1. MayRun("terminate")
  BY DEF Terminate
<1>2. CASE Becomes(Aborts([vm EXCEPT !.terminated = @ \cup {me}]))
  <2> DEFINE u == [vm EXCEPT !.terminated = @ \cup {me}]
  <2>1. Typed(u)
    BY Around, SMTT(30) DEF Typed, Fields
  <2>2. /\ u.resumeTo = vm.resumeTo /\ u.awaiting = vm.awaiting
        /\ u.current = vm.current /\ u.state = vm.state
        /\ u.condemned = vm.condemned /\ u.aborting = vm.aborting
    BY Around DEF Typed, Fields
  <2>. HIDE DEF u
  <2>3. Tied(vm, u)
    BY <2>2 DEF Tied, Alive
  <2>4. Becomes(Aborts(u))
    BY <1>2 DEF u
  <2>. QED BY <2>1, <2>3, <2>4, TiedReturns
<1>3. CASE Becomes(Aborts(vm))
  BY <1>3, Around, TiedReturns
<1>4. ASSUME NEW p \in LiveFibers(vm) \ {me}, TerminatesOther(p)
      PROVE  Returns
  <2>1. p \in Proc
    BY DEF LiveFibers, Live
  <2>2. CASE /\ GivesBack(p) => ~Overflows(vm, vm.signaledBy[p])
             /\ Becomes(Terminated(Relieved(p), p))
    <3>1. vm' = Terminated(Relieved(p), p)
      BY <2>2 DEF Becomes
    <3>2. me \notin Doomed(vm)
      BY <1>1, NotDoomed
    <3>. QED BY <2>2, <3>1, <3>2, TerminatedReturns
  <2>3. CASE GivesBack(p) /\ (\/ Stops(DropStale(vm, vm.signaledBy[p]))
                              \/ OutOfMemory(DropStale(vm, vm.signaledBy[p])))
    <3>1. vm.signaledBy[p] \in Semaphores
      BY <2>1, <2>3, Around DEF GivesBack, Typed
    <3>. QED BY <2>3, <3>1, DroppedReturns
  <2>. QED BY <1>4, <2>1, <2>2, <2>3, Around, TerminatesOtherIs
<1>. QED BY <1>2, <1>3, <1>4 DEF Terminate

LEMMA NextPutReturns == IReturns /\ NextPut => Returns
<1> SUFFICES ASSUME IReturns, NextPut PROVE Returns
  OBVIOUS
<1>1. PICK q \in Queues :
        LET s   == ReadSynch[q]
            put == [vm EXCEPT !.contents[q] = @ + 1]
        IN \/ Becomes(Signal(put, s))
           \/ Becomes(Aborts(TakesBack(DropStale(put, s), q)))
           \/ OutOfMemory(vm)
           \/ OutOfMemory(TakesBack(DropStale(put, s), q))
  BY Around, NextPutIs
<1> DEFINE s    == ReadSynch[q]
           n    == vm.contents[q]
           put  == [vm EXCEPT !.contents[q] = @ + 1]
           left == DropStale(put, s)
           back == TakesBack(left, q)
<1>2. s \in Semaphores /\ n \in Nat
  BY QueueAssumption, Around DEF Typed
<1>3. put = [vm EXCEPT !.contents[q] = n + 1]
  OBVIOUS
<1>4. Sound(put) /\ put.contents = [vm.contents EXCEPT ![q] = n + 1]
  <2>1. PICK m : m = n + 1
    OBVIOUS
  <2>2. m \in Nat /\ put = [vm EXCEPT !.contents[q] = m]
    BY <1>2, <1>3, <2>1
  <2>. HIDE DEF put, n
  <2>3. Sound(put)
    BY <2>2, Around, ContentsKeep
  <2>4. put.contents = [vm.contents EXCEPT ![q] = m]
    BY <2>2, Around DEF Typed, Fields
  <2>. QED BY <2>1, <2>3, <2>4
<1>5. /\ put.resumeTo = vm.resumeTo /\ put.awaiting = vm.awaiting
      /\ put.current = vm.current /\ put.state = vm.state
      /\ put.condemned = vm.condemned /\ put.aborting = vm.aborting
  BY Around DEF Typed, Fields
<1>. HIDE DEF put, s
<1>6. Tied(vm, put)
  BY <1>5 DEF Tied, Alive
<1>7. CASE Becomes(Signal(put, s))
  <2>1. Tied(put, Signal(put, s))
    BY <1>2, <1>4, SignalTied
  <2>2. Tied(vm, Signal(put, s))
    BY <1>6, <2>1, TiedThrough
  <2>. QED BY <1>7, <2>2, TiedReturns
<1>8. CASE Becomes(Aborts(back)) \/ OutOfMemory(back)
  <2>1. Tied(put, left) /\ Sound(left) /\ left.contents = put.contents
    BY <1>2, <1>4, DropStaleTied, SignalSound
  <2>2. Tied(vm, left)
    BY <1>6, <2>1, TiedThrough
  <2>. HIDE DEF left
  <2>3. back = [left EXCEPT !.contents[q] = n]
    <3>1. left.contents[q] - 1 = n
      BY <1>2, <1>4, <2>1, Around DEF Typed
    <3>2. back = [left EXCEPT !.contents[q] = left.contents[q] - 1]
      BY DEF TakesBack
    <3>. HIDE DEF back, n
    <3>. QED BY <3>1, <3>2
  <2>4. Typed(back)
    <3>. HIDE DEF back, n
    <3>. QED BY <1>2, <2>1, <2>3, ContentsKeep DEF Sound, Core
  <2>5. /\ back.resumeTo = left.resumeTo /\ back.awaiting = left.awaiting
        /\ back.current = left.current /\ back.state = left.state
        /\ back.condemned = left.condemned /\ back.aborting = left.aborting
    <3>. HIDE DEF back, n
    <3>. QED BY <2>1, <2>3 DEF Sound, Core, Typed, Fields
  <2>. HIDE DEF back
  <2>6. Tied(left, back)
    BY <2>5 DEF Tied, Alive
  <2>7. Tied(vm, back)
    BY <2>2, <2>6, TiedThrough
  <2>. QED BY <1>8, <2>4, <2>7, TiedReturns
<1>9. CASE OutOfMemory(vm)
  BY <1>9, Around, TiedReturns
<1>. QED BY <1>1, <1>7, <1>8, <1>9 DEF put, s

\* A SharedQueue whose readSynch has its signals used up.
LEMMA EmptiedTied ==
  ASSUME NEW t, Sound(t), NEW q \in Queues
  PROVE  Tied(t, Emptied(t, q))
<1> DEFINE u == Emptied(t, q)
<1>1. /\ u.resumeTo = t.resumeTo /\ u.awaiting = t.awaiting
      /\ u.current = t.current /\ u.state = t.state
      /\ u.condemned = t.condemned /\ u.aborting = t.aborting
  BY DEF Emptied, Sound, Core, Typed, Fields
<1>. HIDE DEF u
<1>2. Tied(t, u)
  BY <1>1 DEF Tied, Alive
<1>. QED BY <1>2 DEF u

LEMMA WaitsForElementLinked ==
  ASSUME NEW t, Sound(t), Places(t), Linked(t, t.current), NEW q \in Queues
  PROVE  LET u == WaitsForElement(t, q) IN Linked(u, u.current)
<1> DEFINE w == Emptied(t, q)
<1>1. Sound(w) /\ Places(w) /\ Tied(t, w)
  BY EmptiedPlaces, EmptiedTied
<1>2. WaitsForElement(t, q) = WaitsOn(w, ReadSynch[q], q)
  BY DEF WaitsForElement
<1>3. ReadSynch[q] \in Semaphores /\ q \in Frames
  BY Kinds
<1>. HIDE DEF w
<1>4. Linked(w, w.current)
  BY <1>1, TiedLinked DEF Sound, Core
<1>5. LET u == WaitsOn(w, ReadSynch[q], q) IN Linked(u, u.current)
  BY <1>1, <1>3, <1>4, WaitsOnLinked
<1>. QED BY <1>2, <1>5

LEMMA NextElementReturns == IReturns /\ NextElement => Returns
<1> SUFFICES ASSUME IReturns, NEW q \in Queues,
                    \/ Becomes(Takes(Answered(vm, ReadSynch[q]), q))
                    \/ Becomes(WaitsForElement(vm, q))
                    \/ OutOfMemory(Emptied(vm, q))
             PROVE  Returns
  BY DEF NextElement
<1>1. CASE Becomes(Takes(Answered(vm, ReadSynch[q]), q))
  <2> DEFINE u == Takes(Answered(vm, ReadSynch[q]), q)
  <2>1. /\ u.resumeTo = vm.resumeTo /\ u.awaiting = vm.awaiting
        /\ u.current = vm.current /\ u.state = vm.state
        /\ u.condemned = vm.condemned /\ u.aborting = vm.aborting
    BY Around DEF Takes, Answered, Typed, Fields
  <2>2. Becomes(u)
    BY <1>1
  <2>. HIDE DEF u
  <2>3. Tied(vm, u)
    BY <2>1 DEF Tied, Alive
  <2>. QED BY <2>2, <2>3, TiedReturns
<1>2. CASE Becomes(WaitsForElement(vm, q))
  <2>1. LET u == WaitsForElement(vm, q) IN Linked(u, u.current)
    BY Around, WaitsForElementLinked
  <2>. QED BY <1>2, <2>1 DEF Becomes, Returns
<1>3. CASE OutOfMemory(Emptied(vm, q))
  <2>1. Tied(vm, Emptied(vm, q))
    BY Around, EmptiedTied
  <2>2. Typed(Emptied(vm, q))
    BY Around, EmptiedPlaces DEF Sound, Core
  <2>. QED BY <1>3, <2>1, <2>2, TiedReturns
<1>. QED BY <1>1, <1>2, <1>3

LEMMA CodeReturns == IReturns /\ Orderly /\ Code => Returns
BY TroubleReturns, ForkReturns, YieldReturns, WaitReturns, SignalSemaphoreReturns,
   SuspendReturns, ResumeReturns, TerminateReturns, NextPutReturns,
   NextElementReturns DEF Code
\* What no link depends on but the base: the abort of the base, the heap's mark.
LEMMA SpareLinked ==
  ASSUME NEW t, NEW u, Typed(t), Linked(t, t.current), u.current = t.current,
         u.resumeTo = t.resumeTo, u.awaiting = t.awaiting, u.state = t.state,
         t.current \notin t.awaiting,
         Doomed(t) \ {Base} \subseteq Doomed(u),
         Doomed(u) \subseteq Doomed(t) \cup {Base, t.current}
  PROVE  Linked(u, u.current)
<1>1. LinksKept(t, u, t.current)
  BY DEF LinksKept, Alive
<1>. QED BY <1>1, LinkedDepends

\* An operation returns, or the unwinding asked for meanwhile begins.
LEMMA ContinuesLinked ==
  ASSUME NEW t, Sound(t), Places(t), Linked(t, t.current)
  PROVE  LET u == Continues(t) IN Linked(u, u.current)
<1> DEFINE c == t.current
           q == t.frame[c]
           u == Continues(t)
<1>1. /\ Typed(t) /\ c \in Proc /\ c \notin t.awaiting
  BY CurrentIsFree DEF Sound, Core, Typed
<1>2. CASE Unwinds(t)
  <2>1. u = Forgiven(Unwound(t))
    BY <1>2 DEF Continues
  <2>2. /\ u.current = c /\ u.resumeTo = t.resumeTo
        /\ u.awaiting = t.awaiting /\ u.state = t.state
        /\ u.aborting = IF c = Base /\ host.at # "eval"
                          THEN (t.aborting \cup {c}) \ {Base}
                          ELSE t.aborting \cup {c}
        /\ u.condemned = t.condemned \ {c}
    <3>1. CASE c \in t.condemned
      BY <1>1, <2>1, <3>1 DEF Typed, Fields, Forgiven, Unwound
    <3>2. CASE c \notin t.condemned
      BY <1>1, <2>1, <3>2 DEF Typed, Fields, Forgiven, Unwound
    <3>. QED BY <3>1, <3>2
  <2>. HIDE DEF u
  <2>3. /\ Doomed(t) \ {Base} \subseteq Doomed(u)
        /\ Doomed(u) \subseteq Doomed(t) \cup {Base, c}
    BY <2>2 DEF Doomed
  <2>4. Linked(u, u.current)
    BY <1>1, <2>2, <2>3, SpareLinked
  <2>. QED BY <2>4 DEF u
<1>3. CASE ~ Unwinds(t) /\ q \in Queues /\ ~ (t.contents[q] > 0)
  <2>1. LET w == WaitsForElement(t, q) IN Linked(w, w.current)
    BY <1>3, WaitsForElementLinked
  <2>. QED BY <1>3, <2>1 DEF Continues
<1>4. CASE ~ Unwinds(t) /\ ~ (q \in Queues /\ ~ (t.contents[q] > 0))
  <2>1. u = IF q \in Queues THEN [Takes(t, q) EXCEPT !.frame[c] = "code"]
                            ELSE [t EXCEPT !.frame[c] = "code"]
    BY <1>4 DEF Continues
  <2>2. /\ u.resumeTo = t.resumeTo /\ u.awaiting = t.awaiting
        /\ u.current = t.current /\ u.state = t.state
        /\ u.condemned = t.condemned /\ u.aborting = t.aborting
    BY <1>1, <2>1 DEF Typed, Fields, Takes
  <2>. HIDE DEF u
  <2>3. Tied(t, u)
    BY <2>2 DEF Tied, Alive
  <2>4. Linked(u, u.current)
    BY <1>1, <2>3, TiedLinked
  <2>. QED BY <2>4 DEF u
<1>. QED BY <1>2, <1>3, <1>4

\* The dead are released before anything else of a process that runs again.
LEMMA ReapedLinked ==
  ASSUME IReturns
  PROVE  LET t == ReapDead(vm) IN
         /\ Sound(t) /\ Places(t) /\ Typed(t) /\ t.current = me
         /\ Linked(t, t.current) /\ me \notin t.awaiting
<1> DEFINE t == ReapDead(vm)
<1>1. /\ Sound(t) /\ Typed(t) /\ Places(t) /\ t.current = me
  BY Reaped DEF IReturns
<1>2. Linked(t, vm.current) /\ t.current = vm.current
  BY Around, ReapDeadLinked DEF Places
<1>3. me \notin t.awaiting
  BY <1>1, CurrentIsFree
<1>. HIDE DEF t
<1>4. Linked(t, t.current)
  BY <1>2
<1>. QED BY <1>1, <1>3, <1>4 DEF t

LEMMA ResumesReturns == IReturns /\ Resumes => Returns
<1> SUFFICES ASSUME IReturns, Resumes PROVE Returns
  OBVIOUS
<1> DEFINE t == ReapDead(vm)
           f == vm.frame[me]
<1>1. /\ Sound(t) /\ Places(t) /\ Typed(t) /\ t.current = me
      /\ Linked(t, t.current) /\ me \notin t.awaiting
  BY ReapedLinked
<1>2. \/ Becomes(Continues(t))
      \/ f \in Queues /\ OutOfMemory([Emptied(t, f) EXCEPT !.frame[me] = "code"])
  BY DEF Resumes
<1>. HIDE DEF t, f
<1>3. CASE Becomes(Continues(t))
  <2>1. LET u == Continues(t) IN Linked(u, u.current)
    BY <1>1, ContinuesLinked
  <2>. QED BY <1>3, <2>1 DEF Becomes, Returns
<1>4. CASE f \in Queues /\ OutOfMemory([Emptied(t, f) EXCEPT !.frame[me] = "code"])
  <2> DEFINE w == Emptied(t, f)
             u == [w EXCEPT !.frame[me] = "code"]
             v == Aborts([u EXCEPT !.heapMark = TRUE])
  <2>1. Sound(w) /\ Tied(t, w)
    BY <1>1, <1>4, EmptiedPlaces, EmptiedTied
  <2>. HIDE DEF w
  <2>2. "code" \in Frames /\ me \in Proc
    BY Around DEF Frames
  <2>3. Sound(u)
    BY <2>1, <2>2, FrameKeeps
  <2>4. /\ u.resumeTo = w.resumeTo /\ u.awaiting = w.awaiting
        /\ u.current = w.current /\ u.state = w.state
        /\ u.condemned = w.condemned /\ u.aborting = w.aborting
    BY <2>1 DEF Sound, Core, Typed, Fields
  <2>5. vm' = v
    BY <1>4 DEF OutOfMemory, w
  <2>. HIDE DEF u
  <2>6. Tied(w, u)
    BY <2>4 DEF Tied, Alive
  <2>7. Tied(t, u)
    BY <2>1, <2>6, TiedThrough
  <2>8. Typed(u) /\ Linked(u, u.current)
    BY <1>1, <2>3, <2>7, TiedLinked DEF Sound, Core
  <2>9. u.current \notin u.awaiting
    BY <1>1, <2>7 DEF Tied
  <2>10. Linked(v, v.current)
    BY <2>8, <2>9, AbortsLinked
  <2>. QED BY <2>5, <2>10 DEF Returns
<1>. QED BY <1>2, <1>3, <1>4

LEMMA BeginsReturns == IReturns /\ Begins => Returns
<1> SUFFICES ASSUME IReturns, Begins PROVE Returns
  OBVIOUS
<1> DEFINE t == ReapDead(vm)
           u == [t EXCEPT !.frame[me] = "code"]
<1>1. Typed(t) /\ t.current = me /\ Linked(t, t.current)
  BY ReapedLinked
<1>2. vm' = u
  BY DEF Begins, Becomes
<1>. HIDE DEF t
<1>3. /\ u.resumeTo = t.resumeTo /\ u.awaiting = t.awaiting
      /\ u.current = t.current /\ u.state = t.state
      /\ u.condemned = t.condemned /\ u.aborting = t.aborting
  BY <1>1 DEF Typed, Fields
<1>. HIDE DEF u
<1>4. Tied(t, u)
  BY <1>3 DEF Tied, Alive
<1>5. Linked(u, u.current)
  BY <1>1, <1>4, TiedLinked
<1>. QED BY <1>2, <1>5 DEF Returns

LEMMA EndBodyReturns == IReturns /\ EndBody => Returns
<1> SUFFICES ASSUME IReturns, EndBody PROVE Returns
  OBVIOUS
<1> DEFINE m == [vm EXCEPT !.state[me] = "Dead", !.myList[me] = Nil,
                           !.heapMark = FALSE]
<1>1. me # Base /\ vm' = SwitchAway(m, me)
  BY DEF EndBody, Ends
<1>2. /\ m.current = vm.current /\ m.resumeTo = vm.resumeTo
      /\ m.awaiting = vm.awaiting /\ m.condemned = vm.condemned
      /\ m.aborting = vm.aborting
      /\ m.state = [vm.state EXCEPT ![me] = "Dead"]
  BY Around DEF Typed, Fields
<1>3. Typed(m)
  BY Around, SMTT(30) DEF Typed, States, Fields
<1>8. /\ m.ready = vm.ready /\ m.quiescent = vm.quiescent
       /\ m.waitingOn = vm.waitingOn
  BY Around DEF Typed, Fields
<1>. HIDE DEF m
<1>6. "Dead" \in States \ {"Ready", "Running"}
  BY DEF States
<1>7. Core(m) /\ Parked(m)
  BY <1>2, <1>3, <1>8, <1>6, Around, StopParks
<1>4. \A o \in Proc : o # vm.current => m.state[o] = vm.state[o]
  BY <1>2, Around
<1>5. LET u == SwitchAway(m, m.current) IN Linked(u, u.current)
  BY <1>2, <1>7, <1>4, Around, StopLinked
<1>. QED BY <1>1, <1>2, <1>5, Around DEF Returns
-----------------------------------------------------------------------------
\* The base, for the host.

\* Its mark, and its own abort, are no link's matter.
LEMMA SpareReturns ==
  ASSUME IReturns, me = Base, NEW t,
         \/ t = vm
         \/ t = Cleared
         \/ t = [vm EXCEPT !.aborting = @ \ {Base}]
         \/ t = [vm EXCEPT !.heapMark = FALSE]
  PROVE  /\ Linked(t, t.current) /\ t.current = Base
         /\ vm' = t => Returns
         /\ \A h : HostBecomes(t, h) => Returns
         /\ \A h : HostOutOfMemory(t, h) => Returns
<1>1. /\ t.resumeTo = vm.resumeTo /\ t.awaiting = vm.awaiting
      /\ t.current = vm.current /\ t.state = vm.state
      /\ t.condemned = vm.condemned
      /\ t.aborting = vm.aborting \/ t.aborting = vm.aborting \ {Base}
      /\ DOMAIN t = Fields
  BY Around DEF Typed, Fields, Cleared
<1> DEFINE w == [t EXCEPT !.heapMark = TRUE]
<1>2. /\ w.resumeTo = t.resumeTo /\ w.awaiting = t.awaiting
      /\ w.current = t.current /\ w.state = t.state
      /\ w.condemned = t.condemned /\ w.aborting = t.aborting
  BY <1>1 DEF Fields
<1>. HIDE DEF w
<1>3. /\ Doomed(vm) \ {Base} \subseteq Doomed(t)
      /\ Doomed(t) \subseteq Doomed(vm) \cup {Base, vm.current}
      /\ Doomed(w) = Doomed(t)
  BY <1>1, <1>2 DEF Doomed
<1>4. Linked(t, t.current)
  BY <1>1, <1>3, Around, SpareLinked
<1>5. Linked(w, w.current)
  BY <1>1, <1>2, <1>3, Around, SpareLinked
<1>6. t.current = Base
  BY <1>1 DEF me
<1>7. \A h : HostOutOfMemory(t, h) => vm' = w
  BY DEF HostOutOfMemory, w
<1>. QED BY <1>4, <1>5, <1>6, <1>7 DEF HostBecomes, Returns

LEMMA OnBase ==
  ASSUME IReturns, NEW at, InHost(at)
  PROVE  me = Base /\ vm.current = Base /\ host.at = at /\ IAnswers
BY DEF InHost, me, IReturns

\* The steps that change nothing else.
LEMMA EvalReturns == IReturns /\ Eval => Returns
BY OnBase, SpareReturns DEF Eval, Called

LEMMA CloseReturns == IReturns /\ Close => Returns
BY OnBase, SpareReturns DEF Close, Called

LEMMA EvalEndsReturns == IReturns /\ EvalEnds => Returns
BY OnBase, SpareReturns DEF EvalEnds

LEMMA DrainEndsReturns == IReturns /\ DrainEnds => Returns
<1> SUFFICES ASSUME IReturns, DrainEnds PROVE Returns
  OBVIOUS
<1>1. me = Base
  BY OnBase DEF DrainEnds, Drained
<1>2. CASE host.clears
  BY <1>1, <1>2, SpareReturns DEF DrainEnds
<1>3. CASE ~ host.clears
  BY <1>1, <1>3, SpareReturns DEF DrainEnds
<1>. QED BY <1>2, <1>3

LEMMA PassesReturn ==
  IReturns /\ (TerminateAll \/ TerminatedNext \/ PassDrains \/ PassEnds) => Returns
BY OnBase, SpareReturns
DEF TerminateAll, TerminatedNext, PassDrains, PassEnds, Drained

LEMMA AbandonEndsReturns == IReturns /\ AbandonEnds => Returns
BY OnBase, SpareReturns DEF AbandonEnds

LEMMA AwaitDoneReturns == IReturns /\ AwaitDone => Returns
BY OnBase, SpareReturns DEF AwaitDone

LEMMA YieldsReturn ==
  ASSUME IReturns, NEW h, Becomes(YieldFrom(vm)) \/ HostBecomes(YieldFrom(vm), h)
  PROVE  Returns
<1>1. LET u == YieldFrom(vm) IN Linked(u, u.current)
  BY Around, YieldLinked
<1>. QED BY <1>1 DEF Becomes, HostBecomes, Returns

LEMMA DrainReturns == IReturns /\ Drain => Returns
BY OnBase, SpareReturns, YieldsReturn, Around, DrainIs

\* An evaluation begins, or a halted one goes on.
LEMMA AwaitReturns ==
  ASSUME IReturns, NEW at, InHost(at), NEW p \in Fibers, NEW w, Typed(w),
         w.current = Base, w.resumeTo = vm.resumeTo, w.awaiting = vm.awaiting,
         w.state = [vm.state EXCEPT ![p] = "Suspended"],
         w.condemned = vm.condemned, w.aborting = vm.aborting \ {Base},
         AwaitEval(w, p)
  PROVE  Returns
<1>1. /\ me = Base /\ vm.current = Base /\ p \in Proc /\ p # Base
      /\ vm.current \notin vm.awaiting /\ vm.state \in [Proc -> States]
  BY OnBase, Around, Names DEF Fibers
<1>2. Typed(vm) /\ Linked(vm, Base)
  BY <1>1, Around
<1>3. \A o \in Proc : Alive(vm, o) => Alive(w, o)
  BY <1>1 DEF Alive, LiveStates
<1>4. /\ Doomed(vm) \ {Base} \subseteq Doomed(w)
      /\ Doomed(w) \subseteq Doomed(vm)
  BY DEF Doomed
<1>5. LinksKept(vm, w, Base)
  BY <1>3, <1>4 DEF LinksKept
<1>6. Linked(w, Base)
  BY <1>2, <1>5, LinkedDepends
<1>7. LET u == RunAwaited(w, p) IN Linked(u, u.current)
  BY <1>6, RunAwaitedLinked
<1>. QED BY <1>7 DEF AwaitEval, Returns

LEMMA EvalLiveReturns == IReturns /\ EvalLive => Returns
<1> SUFFICES ASSUME IReturns, EvalLive PROVE Returns
  OBVIOUS
<1>1. InHost("idle")
  BY DEF EvalLive, Called
<1>2. CASE \/ HostBecomes(Cleared, Draining("eval", TRUE))
           \/ HostOutOfMemory(Cleared, Draining("eval", TRUE))
  BY <1>1, <1>2, OnBase, SpareReturns
<1>3. ASSUME NEW p \in Fibers,
             AwaitEval([Cleared EXCEPT !.state[p] = "Suspended",
                                       !.evals = @ \cup {p}], p)
      PROVE  Returns
  <2> DEFINE w == [Cleared EXCEPT !.state[p] = "Suspended",
                                  !.evals = @ \cup {p}]
  <2>1. Typed(w)
    BY Around, Names, SMTT(30) DEF Typed, States, Fields, Cleared, Fibers
  <2>2. /\ w.current = vm.current /\ w.resumeTo = vm.resumeTo
        /\ w.awaiting = vm.awaiting
        /\ w.state = [vm.state EXCEPT ![p] = "Suspended"]
        /\ w.condemned = vm.condemned /\ w.aborting = vm.aborting \ {Base}
    BY Around DEF Typed, Fields, Cleared
  <2>3. AwaitEval(w, p)
    BY <1>3
  <2>. HIDE DEF w
  <2>4. w.current = Base
    BY <1>1, <2>2, OnBase
  <2>. QED BY <1>1, <2>1, <2>2, <2>3, <2>4, AwaitReturns
<1>. QED BY <1>2, <1>3 DEF EvalLive

LEMMA ProceedReturns == IReturns /\ Proceed => Returns
<1> SUFFICES ASSUME IReturns, NEW p \in HaltedOf(vm), InHost("idle"),
                    AwaitEval([Cleared EXCEPT !.state[p] = "Suspended"], p)
             PROVE  Returns
  BY DEF Proceed, Called
<1> DEFINE w == [Cleared EXCEPT !.state[p] = "Suspended"]
<1>1. p \in Fibers
  <2>1. p \in Proc /\ vm.state[p] = "Halted"
    BY DEF HaltedOf
  <2>2. me = Base /\ vm.state[me] = "Running"
    BY OnBase, Around
  <2>. QED BY <2>1, <2>2 DEF Fibers
<1>2. Typed(w)
  BY <1>1, Around, Names, SMTT(30) DEF Typed, States, Fields, Cleared, Fibers
<1>3. /\ w.current = vm.current /\ w.resumeTo = vm.resumeTo
      /\ w.awaiting = vm.awaiting
      /\ w.state = [vm.state EXCEPT ![p] = "Suspended"]
      /\ w.condemned = vm.condemned /\ w.aborting = vm.aborting \ {Base}
  BY Around DEF Typed, Fields, Cleared
<1>4. AwaitEval(w, p)
  OBVIOUS
<1>. HIDE DEF w
<1>5. w.current = Base
  BY <1>3, OnBase
<1>. QED BY <1>1, <1>2, <1>3, <1>4, <1>5, AwaitReturns
LEMMA AbortHaltedReturns == IReturns /\ AbortHalted => Returns
<1> SUFFICES ASSUME IReturns, NEW p \in HaltedOf(vm), InHost("idle"),
                    HostBecomes(Terminated(Cleared, p), Draining("eval", TRUE))
             PROVE  Returns
  BY DEF AbortHalted, Called
<1>1. /\ Sound(Cleared) /\ Places(Cleared) /\ Cleared.current = Base
  BY ClearedWhole DEF IReturns
<1>2. me = Base
  BY OnBase
<1>3. p \in Fibers /\ p # Cleared.current
  <2>1. p \in Proc /\ vm.state[p] = "Halted"
    BY DEF HaltedOf
  <2>2. vm.state[me] = "Running"
    BY Around
  <2>. QED BY <1>1, <1>2, <2>1, <2>2 DEF Fibers
<1>4. Linked(Cleared, Cleared.current)
  BY <1>2, SpareReturns
<1>5. LET u == Terminated(Cleared, p) IN Linked(u, u.current)
  BY <1>1, <1>3, <1>4, TerminatedLinked
<1>. QED BY <1>5 DEF HostBecomes, Returns

\* The base takes a process out of its lists: while the base runs, the base alone
\* could be returned to, so nobody loses the one it waits for.
LEMMA OustedLinked ==
  ASSUME IReturns, me = Base, NEW p \in Fibers
  PROVE  LET out == LeaveLists(vm, p) IN
         /\ Typed(out) /\ Linked(out, Base) /\ out.current = Base
         /\ \A o \in Proc : o # Base => out.resumeTo[o] = Nobody
<1> DEFINE out == LeaveLists(vm, p)
<1>1. p \in Proc /\ p # Base /\ Base \in Proc /\ vm.current = Base
  BY Names DEF Fibers, me
<1>2. \A o \in Proc : o # Base => vm.resumeTo[o] = Nobody
  BY <1>1, NotHeld, Around
<1>3. Linked(out, Base)
  BY <1>1, <1>2, Around, LeaveListsLinked
<1>4. Core(out) /\ out.current = Base
  BY <1>1, Around, LeaveListsKeeps
<1>5. Leaves(vm, out, p)
  BY <1>1, Around, LeaveListsLeaves
<1>. HIDE DEF out
<1>6. \A o \in Proc : o # Base => out.resumeTo[o] = Nobody
  BY <1>2, <1>5 DEF Leaves
<1>. QED BY <1>3, <1>4, <1>6 DEF Core, out

LEMMA AwaitLoopReturns == IReturns /\ AwaitLoop => Returns
<1> SUFFICES ASSUME IReturns, AwaitLoop PROVE Returns
  OBVIOUS
<1>1. me = Base
  BY OnBase, Around, AwaitLoopIs
<1>2. CASE Becomes(YieldFrom(vm))
  BY <1>2, YieldsReturn
<1>3. CASE HostOutOfMemory(vm, host)
  BY <1>1, <1>3, SpareReturns
<1>4. CASE Becomes(EvalDeadlocks(vm))
  <2> DEFINE p   == awaited
             out == LeaveLists(vm, p)
             w   == [out EXCEPT !.deadlocked = @ \cup {p}]
  <2>1. p \in Fibers
    BY Around, OnBase, Names, AwaitLoopIs DEF IInv, AwaitsFiber
  <2>2. /\ Typed(out) /\ Linked(out, Base) /\ out.current = Base
    BY <1>1, <2>1, OustedLinked
  <2>3. p \in Proc
    BY <2>1, Names DEF Fibers
  <2>4. vm' = RunAwaited(w, p)
    BY <1>4 DEF Becomes, EvalDeadlocks
  <2>. HIDE DEF out, p
  <2>5. Typed(w)
    BY <2>2, <2>3, SMTT(30) DEF Typed, Fields
  <2>6. /\ w.resumeTo = out.resumeTo /\ w.awaiting = out.awaiting
        /\ w.current = out.current /\ w.state = out.state
        /\ w.condemned = out.condemned /\ w.aborting = out.aborting
    BY <2>2 DEF Typed, Fields
  <2>. HIDE DEF w
  <2>7. Tied(out, w)
    BY <2>6 DEF Tied, Alive
  <2>8. Linked(w, w.current) /\ w.current = Base
    BY <2>2, <2>7, TiedLinked DEF Tied
  <2>9. LET u == RunAwaited(w, p) IN Linked(u, u.current)
    BY <2>1, <2>5, <2>8, RunAwaitedLinked
  <2>. QED BY <2>4, <2>9 DEF Returns
<1>. QED BY <1>2, <1>3, <1>4, Around, AwaitLoopIs

LEMMA TerminateNextReturns == IReturns /\ TerminateNext => Returns
<1> SUFFICES ASSUME IReturns, TerminateNext PROVE Returns
  OBVIOUS
<1>1. InHost("terminate") /\ me = Base
  BY OnBase, Around, TerminateNextIs
<1>2. PICK p \in host.todo :
        \E h : \/ HostBecomes(vm, h)
               \/ /\ ~ Over(p)
                  /\ GivesBack(p) => ~Overflows(vm, vm.signaledBy[p])
                  /\ HostBecomes(Terminated(Relieved(p), p), h)
               \/ /\ GivesBack(p)
                  /\ \/ HostBecomes(DropStale(vm, vm.signaledBy[p]), h)
                     \/ HostOutOfMemory(DropStale(vm, vm.signaledBy[p]), h)
  BY Around, TerminateNextIs
<1>3. PICK h : \/ HostBecomes(vm, h)
               \/ /\ ~ Over(p)
                  /\ GivesBack(p) => ~Overflows(vm, vm.signaledBy[p])
                  /\ HostBecomes(Terminated(Relieved(p), p), h)
               \/ /\ GivesBack(p)
                  /\ \/ HostBecomes(DropStale(vm, vm.signaledBy[p]), h)
                     \/ HostOutOfMemory(DropStale(vm, vm.signaledBy[p]), h)
  BY <1>2
<1>4. p \in Proc
  BY Around DEF IInv, TypeOK
<1>5. CASE HostBecomes(vm, h)
  BY <1>1, <1>5, SpareReturns
<1>6. CASE /\ ~ Over(p)
           /\ GivesBack(p) => ~Overflows(vm, vm.signaledBy[p])
           /\ HostBecomes(Terminated(Relieved(p), p), h)
  <2>1. p \in LiveFibers(vm) \ {me}
    BY <1>1, <1>6 DEF Over, LiveFibers
  <2>2. vm' = Terminated(Relieved(p), p)
    BY <1>6 DEF HostBecomes
  <2>. QED BY <1>1, <1>6, <2>1, <2>2, TerminatedReturns
<1>7. CASE /\ GivesBack(p)
           /\ \/ HostBecomes(DropStale(vm, vm.signaledBy[p]), h)
              \/ HostOutOfMemory(DropStale(vm, vm.signaledBy[p]), h)
  <2> DEFINE t == DropStale(vm, vm.signaledBy[p])
             w == [t EXCEPT !.heapMark = TRUE]
  <2>1. vm.signaledBy[p] \in Semaphores
    BY <1>4, <1>7, Around DEF GivesBack, Typed
  <2>2. Sound(t) /\ Tied(vm, t)
    BY <2>1, Around, SignalSound, DropStaleTied
  <2>3. vm' \in {t, w}
    BY <1>7 DEF HostBecomes, HostOutOfMemory
  <2>. HIDE DEF t
  <2>4. Typed(t) /\ Linked(t, t.current)
    BY <2>2, TiedReturns DEF Sound, Core
  <2>5. /\ w.resumeTo = t.resumeTo /\ w.awaiting = t.awaiting
        /\ w.current = t.current /\ w.state = t.state
        /\ w.condemned = t.condemned /\ w.aborting = t.aborting
    BY <2>4 DEF Typed, Fields
  <2>. HIDE DEF w
  <2>6. Tied(t, w)
    BY <2>5 DEF Tied, Alive
  <2>7. Linked(w, w.current)
    BY <2>4, <2>6, TiedLinked
  <2>. QED BY <2>3, <2>4, <2>7 DEF Returns
<1>. QED BY <1>3, <1>5, <1>6, <1>7

LEMMA AbandonNextReturns == IReturns /\ AbandonNext => Returns
<1> SUFFICES ASSUME IReturns, AbandonNext PROVE Returns
  OBVIOUS
<1>1. me = Base
  BY OnBase DEF AbandonNext
<1>2. PICK p \in LiveFibers(vm) :
        Becomes(IF vm.frame[p] = "new"
                  THEN ReapDead([Abandoned(vm, p) EXCEPT !.state[p] = "Dead"])
                  ELSE RunAwaited(Abandoned(vm, p), p))
  BY DEF AbandonNext
<1> DEFINE left == LeaveLists(vm, p)
           out  == Abandoned(vm, p)
           t    == [out EXCEPT !.state[p] = "Dead"]
<1>3. p \in Fibers /\ p \in Proc /\ p # Base
  BY Names DEF LiveFibers, Live, Fibers
<1>4. /\ Typed(left) /\ Linked(left, Base) /\ left.current = Base
      /\ \A o \in Proc : o # Base => left.resumeTo[o] = Nobody
  BY <1>1, <1>3, OustedLinked
<1>10. Sound(left) /\ Places(left) /\ left.state[p] = "Suspended"
  <2>1. Sound(vm) /\ Places(vm) /\ p # vm.current
    BY <1>1, <1>3, Around
  <2>2. Sound(left) /\ left.state[p] = "Suspended"
    BY <1>3, <2>1, LeaveListsSound
  <2>3. Core(vm) /\ vm.state[p] # "Gone"
    BY <1>2, <1>3, <2>1 DEF Sound, LiveFibers, Live, LiveStates
  <2>4. Places(left)
    BY <1>3, <2>1, <2>3, LeaveListsPlaces
  <2>. QED BY <2>2, <2>4
<1>. HIDE DEF left
<1>5. /\ out.current = left.current /\ out.resumeTo = left.resumeTo
      /\ out.awaiting = left.awaiting /\ out.state = left.state
      /\ out.condemned = left.condemned /\ out.aborting = left.aborting
      /\ out.ready = left.ready /\ out.quiescent = left.quiescent
      /\ out.waitingOn = left.waitingOn
  BY <1>4 DEF Abandoned, Typed, Fields, left
<1>6. Typed(out)
  BY <1>3, <1>4, SMTT(30) DEF Abandoned, Typed, Fields, left
<1>. HIDE DEF out
<1>7. Linked(out, out.current) /\ out.current = Base
  <2>1. Tied(left, out)
    BY <1>5 DEF Tied, Alive
  <2>. QED BY <1>4, <1>5, <2>1, TiedLinked
<1>8. CASE vm' = RunAwaited(out, p)
  <2>1. LET u == RunAwaited(out, p) IN Linked(u, u.current)
    BY <1>3, <1>6, <1>7, RunAwaitedLinked
  <2>. QED BY <1>8, <2>1 DEF Returns
<1>9. CASE vm' = ReapDead(t)
  <2>1. Typed(t)
    BY <1>3, <1>6, SMTT(30) DEF Typed, States, Fields
  <2>2. /\ t.current = out.current /\ t.resumeTo = out.resumeTo
        /\ t.awaiting = out.awaiting
        /\ t.condemned = out.condemned /\ t.aborting = out.aborting
        /\ t.state = [out.state EXCEPT ![p] = "Dead"]
        /\ t.ready = out.ready /\ t.quiescent = out.quiescent
        /\ t.waitingOn = out.waitingOn
    BY <1>6 DEF Typed, Fields
  <2>. HIDE DEF t
  <2>3. Sound(t) /\ Pointed(t)
    <3>1. Sound(out)
      BY <1>5, <1>6, <1>10, SoundDepends DEF SamePlaces
    <3>2. Sound(t)
      BY <1>3, <1>5, <1>7, <1>10, <2>1, <2>2, <3>1, OtherMoves
    <3>3. Pointed(t)
      BY <1>5, <1>10, <2>2, PointedDepends DEF Places
    <3>. QED BY <3>2, <3>3
  <2>4. LinksKept(out, t, Base)
    BY <1>4, <1>5, <2>2 DEF LinksKept, Doomed
  <2>5. Linked(t, t.current)
    BY <1>6, <1>7, <2>2, <2>4, LinkedDepends
  <2>6. Linked(ReapDead(t), t.current) /\ ReapDead(t).current = t.current
    BY <2>3, <2>5, ReapDeadLinked
  <2>. QED BY <1>9, <2>6 DEF Returns
<1>. QED BY <1>2, <1>8, <1>9 DEF Becomes, out, t
LEMMA CallsReturnIt == IReturns /\ Calls => Returns
BY EvalReturns, EvalLiveReturns, ProceedReturns, AbortHaltedReturns, CloseReturns
DEF Calls

LEMMA HostLoopsReturn == IReturns /\ HostLoops => Returns
BY EvalEndsReturns, AwaitLoopReturns, AwaitDoneReturns, DrainReturns,
   DrainEndsReturns, PassesReturn, TerminateNextReturns, AbandonNextReturns,
   AbandonEndsReturns DEF HostLoops

LEMMA InitIReturns == Init => IReturns
<1> SUFFICES ASSUME Init PROVE IReturns
  OBVIOUS
<1>1. vm.awaiting = {} /\ vm.resumeTo = [p \in Proc |-> Nobody]
  BY DEF Init
<1>2. Linked(vm, vm.current)
  BY <1>1, LinkedAlone
<1>. QED BY <1>2, InitIAnswers DEF IReturns

LEMMA NextReturns == IReturns /\ Orderly /\ Next => Returns
<1> SUFFICES ASSUME IReturns, Orderly, Next PROVE Returns
  OBVIOUS
<1>1. CASE Closed
  BY <1>1, Around DEF Closed, vars, Returns
<1>. QED BY <1>1, CodeReturns, ResumesReturns, BeginsReturns, EndBodyReturns,
            CallsReturnIt, HostLoopsReturn DEF Next

LEMMA StepIReturns == IReturns /\ Orderly /\ [Next]_vars => IReturns'
<1> SUFFICES ASSUME IReturns, Orderly, [Next]_vars PROVE IReturns'
  OBVIOUS
<1>1. IAnswers'
  BY StepIAnswers DEF IReturns
<1>2. Linked(vm, vm.current)'
  <2>1. CASE Next
    BY <2>1, NextReturns DEF Returns
  <2>2. CASE UNCHANGED vars
    BY <2>2 DEF vars, IReturns
  <2>. QED BY <2>1, <2>2
<1>. QED BY <1>1, <1>2 DEF IReturns

LEMMA ReturnsInvariance ==
  ASSUME Orderly
  PROVE  Spec => []IReturns
<1>1. Init => IReturns
  BY InitIReturns
<1>2. IReturns /\ [Next]_vars => IReturns'
  BY StepIReturns
<1>. QED BY <1>1, <1>2, PTL DEF Spec

\* A process that waits for one it switched to is brought back by it: the one it
\* waits for lives and will return to it (Scheduler::terminate, runAwaited, takeNext).
\* No ensure: or ifCurtailed: block may suspend or terminate another process: one
\* that does so while it is itself being waited for takes the pointer away.
THEOREM AwaitersReturn ==
  ASSUME CleanupOps \cap {"suspend", "terminate"} = {}
  PROVE  Spec => []AwaiterReturns
<1>1. Orderly
  BY DEF Orderly
<1>2. IReturns => AwaiterReturns
  <2> SUFFICES ASSUME IReturns, NEW p \in vm.awaiting
               PROVE  \E o \in Live(vm) : vm.resumeTo[o] = p
    BY DEF AwaiterReturns
  <2>1. PICK o \in Proc : vm.resumeTo[o] = p /\ (o = me \/ Alive(vm, o))
    BY Around DEF Linked
  <2>2. o \in Live(vm)
    BY <2>1, Around DEF Live, LiveStates, Alive
  <2>. QED BY <2>1, <2>2
<1>. QED BY <1>1, <1>2, ReturnsInvariance, PTL

=============================================================================
