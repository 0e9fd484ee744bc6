--------------------------- MODULE SchedulerProofs ---------------------------
(***************************************************************************)
(* The scheduler keeps its queues and its one running process, proved for  *)
(* every number of processes, Semaphores and SharedQueues, every limit and *)
(* every program.  The inductive invariant is IInv: besides the types, the *)
(* process table is Sound, and awaitEval waits for a fiber.                *)
(*                                                                         *)
(* First what the helpers of ProcessTable do to the process table: Core is *)
(* what each of them keeps, Sound adds that exactly the current process    *)
(* runs.  Then the operations of the scheduler, one at a time.  Last, with *)
(* the invariant IPlaces, the same again for where every process is.       *)
(***************************************************************************)
EXTENDS Scheduler, SequenceTheorems, WellFoundedInduction, FiniteSetTheorems,
        TLAPS

\* The ready queue, the queue Smalltalk sees and the states agree.
Queued(t) ==
  /\ t.quiescent = t.ready
  /\ IsInjective(t.ready)
  /\ \A p \in Proc : t.state[p] = "Ready" <=> p \in ToSet(t.ready)

\* Whoever waits, for a Semaphore or for another process, is Waiting, and it
\* waits for one thing.
WaitsForOne(t) ==
  /\ \A p \in t.awaiting : t.state[p] = "Waiting" /\ t.waitingOn[p] = Nil
  /\ \A p \in Proc : t.waitingOn[p] # Nil => t.state[p] = "Waiting"

\* In the middle of a switch no process runs; between two steps one does.
Parked(t) == \A p \in Proc : t.state[p] # "Running"
OneRuns(t) == \A p \in Proc : t.state[p] = "Running" <=> p = t.current

Core(t)  == Typed(t) /\ Queued(t) /\ WaitsForOne(t)
Sound(t) == Core(t) /\ OneRuns(t)

-----------------------------------------------------------------------------
\* Sequences.

\* The least element of a nonempty set of naturals, which Min chooses.
LEMMA MinIsLeast ==
  ASSUME NEW T, T \subseteq Nat, T # {}
  PROVE  /\ Min(T) \in T
         /\ \A y \in T : Min(T) <= y
<1>1. \E x \in T : \A y \in T : ~ (<<y, x>> \in OpToRel(<, Nat))
  BY NatLessThanWellFounded, WFMin
<1>2. \A x, y \in Nat : <<y, x>> \in OpToRel(<, Nat) <=> y < x
  BY DEF OpToRel
<1>3. PICK x \in T : \A y \in T : ~ (<<y, x>> \in OpToRel(<, Nat))
  BY <1>1
<1>4. \A y \in T : ~ (y < x)
  BY <1>2, <1>3
<1>5. \A y \in T : x <= y
  BY <1>4
<1> QED
  BY <1>5 DEF Min

\* Where RemoveFirst takes an element out.
LEMMA FirstIndex ==
  ASSUME NEW S, NEW q \in Seq(S), NEW e, \E i \in 1 .. Len(q) : q[i] = e
  PROVE  \E k \in 1 .. Len(q) :
           /\ q[k] = e
           /\ RemoveFirst(q, e) = RemoveAt(q, k)
<1> DEFINE I == {i \in 1 .. Len(q) : q[i] = e}
<1>1. I \subseteq Nat /\ I # {}
  BY LenProperties
<1>2. Min(I) \in I
  BY <1>1, MinIsLeast
<1>3. SelectInSeq(q, LAMBDA v : v = e) = Min(I)
  BY <1>1 DEF SelectInSeq
<1>4. RemoveFirst(q, e) = RemoveAt(q, Min(I))
  BY <1>3 DEF RemoveFirst
<1> QED
  BY <1>2, <1>4

\* A sequence without the element at k: its length, and where the others went.
LEMMA WithoutOne ==
  ASSUME NEW S, NEW q \in Seq(S), NEW k \in 1 .. Len(q)
  PROVE  /\ RemoveAt(q, k) \in Seq(S)
         /\ Len(RemoveAt(q, k)) = Len(q) - 1
         /\ \A i \in 1 .. Len(q) - 1 :
              RemoveAt(q, k)[i] = IF i < k THEN q[i] ELSE q[i + 1]
<1>1. PICK n : n = Len(q)
  OBVIOUS
<1>2. n \in Nat /\ q \in [1 .. n -> S] /\ k \in 1 .. n
  BY <1>1, LenProperties
<1>3. PICK a : a = SubSeq(q, 1, k - 1)
  OBVIOUS
<1>4. PICK b : b = SubSeq(q, k + 1, n)
  OBVIOUS
<1>5. /\ a \in Seq(S) /\ Len(a) = IF 1 <= k - 1 THEN (k - 1) - 1 + 1 ELSE 0
      /\ \A i \in 1 .. (k - 1) - 1 + 1 : a[i] = q[1 + i - 1]
  BY <1>2, <1>3, SubSeqProperties
<1>6. /\ b \in Seq(S) /\ Len(b) = IF k + 1 <= n THEN n - (k + 1) + 1 ELSE 0
      /\ \A i \in 1 .. n - (k + 1) + 1 : b[i] = q[(k + 1) + i - 1]
  BY <1>2, <1>4, SubSeqProperties
<1>s. a \in Seq(S) /\ b \in Seq(S)
  BY <1>5, <1>6
<1>7. Len(a) = k - 1 /\ \A i \in 1 .. k - 1 : a[i] = q[i]
  BY <1>2, <1>5
<1>8. Len(b) = n - k
  BY <1>2, <1>6
<1>9. \A i \in 1 .. n - k : b[i] = q[k + i]
  <2>1. \A i \in 1 .. n - k : (k + 1) + i - 1 = k + i /\ n - (k + 1) + 1 = n - k
    BY <1>2
  <2> QED
    BY <1>6, <2>1
<1>10. PICK r : r = a \o b
  OBVIOUS
<1>11. /\ r \in Seq(S)
       /\ Len(r) = Len(a) + Len(b)
       /\ \A i \in 1 .. Len(a) + Len(b) :
            r[i] = IF i <= Len(a) THEN a[i] ELSE b[i - Len(a)]
  BY <1>s, <1>10, ConcatProperties
<1>12. Len(r) = n - 1
  BY <1>2, <1>7, <1>8, <1>11
<1>13. ASSUME NEW i \in 1 .. n - 1
       PROVE  r[i] = IF i < k THEN q[i] ELSE q[i + 1]
  <2>1. i \in 1 .. Len(a) + Len(b) /\ i \in Int
    BY <1>2, <1>7, <1>8
  <2>2. r[i] = IF i <= k - 1 THEN a[i] ELSE b[i - (k - 1)]
    BY <1>7, <1>11, <2>1
  <2>3. CASE i < k
    BY <1>2, <1>7, <2>1, <2>2, <2>3
  <2>4. CASE ~ (i < k)
    <3>1. /\ i - (k - 1) \in 1 .. n - k /\ k + (i - (k - 1)) = i + 1
          /\ ~ (i <= k - 1)
      BY <1>2, <2>1, <2>4
    <3> QED
      BY <1>9, <2>2, <2>4, <3>1
  <2> QED
    BY <2>3, <2>4
<1>14. RemoveAt(q, k) = r
  BY <1>1, <1>3, <1>4, <1>10 DEF RemoveAt
<1> QED
  BY <1>1, <1>11, <1>12, <1>13, <1>14

\* RemoveFirst keeps the type; on a sequence without repetitions it takes e out
\* and leaves every other element, and the result has no repetitions.
LEMMA RemoveFirstType ==
  ASSUME NEW S, NEW q \in Seq(S), NEW e
  PROVE  RemoveFirst(q, e) \in Seq(S)
<1>1. CASE \E i \in 1 .. Len(q) : q[i] = e
  <2>1. PICK k \in 1 .. Len(q) :
          RemoveFirst(q, e) = RemoveAt(q, k)
    BY <1>1, FirstIndex
  <2> QED
    BY <2>1, WithoutOne
<1>2. CASE ~ \E i \in 1 .. Len(q) : q[i] = e
  BY <1>2 DEF RemoveFirst
<1> QED
  BY <1>1, <1>2

LEMMA RemoveFirstTakesOut ==
  ASSUME NEW S, NEW q \in Seq(S), NEW e, IsInjective(q)
  PROVE  /\ IsInjective(RemoveFirst(q, e))
         /\ \A x : x \in ToSet(RemoveFirst(q, e)) <=> x \in ToSet(q) /\ x # e
<1>1. CASE \E i \in 1 .. Len(q) : q[i] = e
  <2> DEFINE r == RemoveFirst(q, e)
  <2>1. PICK k \in 1 .. Len(q) :
          q[k] = e /\ r = RemoveAt(q, k)
    BY <1>1, FirstIndex
  <2>2. /\ r \in Seq(S) /\ Len(r) = Len(q) - 1
        /\ \A i \in 1 .. Len(q) - 1 : r[i] = IF i < k THEN q[i] ELSE q[i + 1]
    BY <2>1, WithoutOne
  <2>0. q[k] = e
    BY <2>1
  <2>3. /\ Len(q) \in Nat /\ DOMAIN q = 1 .. Len(q)
        /\ DOMAIN r = 1 .. Len(q) - 1
    BY <2>2, LenProperties
  <2> HIDE DEF r
  <2>4. IsInjective(r)
    BY <2>2, <2>3, SMTT(30) DEF IsInjective
  <2>5. ASSUME NEW x, x \in ToSet(r)
        PROVE  x \in ToSet(q) /\ x # e
    <3>1. PICK i \in 1 .. Len(q) - 1 : r[i] = x
      BY <2>3, <2>5 DEF ToSet
    <3> DEFINE j == IF i < k THEN i ELSE i + 1
    <3>2. j \in 1 .. Len(q) /\ j # k /\ q[j] = x
      BY <2>2, <2>3, <3>1
    <3>3. q[j] # q[k]
      BY <2>3, <3>2 DEF IsInjective
    <3> QED
      BY <2>0, <2>3, <3>2, <3>3 DEF ToSet
  <2>6. ASSUME NEW x, x \in ToSet(q), x # e
        PROVE  x \in ToSet(r)
    <3>1. PICK i \in 1 .. Len(q) : q[i] = x
      BY <2>3, <2>6 DEF ToSet
    <3>2. CASE i < k
      BY <2>2, <2>3, <3>1, <3>2 DEF ToSet
    <3>3. CASE i > k
      <4>1. i - 1 \in DOMAIN r /\ r[i - 1] = x
        BY <2>2, <2>3, <3>1, <3>3
      <4> QED
        BY <4>1 DEF ToSet
    <3>4. i # k /\ i \in Int /\ k \in Int
      BY <2>0, <2>3, <2>6, <3>1
    <3> QED
      BY <3>2, <3>3, <3>4
  <2> QED
    BY <2>4, <2>5, <2>6 DEF r
<1>2. CASE ~ \E i \in 1 .. Len(q) : q[i] = e
  <2>1. RemoveFirst(q, e) = q /\ DOMAIN q = 1 .. Len(q)
    BY <1>2, LenProperties DEF RemoveFirst
  <2> QED
    BY <1>2, <2>1 DEF ToSet
<1> QED
  BY <1>1, <1>2

\* Append puts a new element at the end.
LEMMA AppendAdds ==
  ASSUME NEW S, NEW q \in Seq(S), NEW e \in S
  PROVE  /\ Append(q, e) \in Seq(S)
         /\ Append(q, e) # <<>>
         /\ \A x : x \in ToSet(Append(q, e)) <=> x \in ToSet(q) \/ x = e
         /\ IsInjective(q) /\ e \notin ToSet(q) => IsInjective(Append(q, e))
<1> DEFINE r == Append(q, e)
<1>1. /\ r \in Seq(S) /\ Len(r) = Len(q) + 1
      /\ \A i \in 1 .. Len(q) : r[i] = q[i]
      /\ r[Len(q) + 1] = e
  BY AppendProperties
<1>2. /\ Len(q) \in Nat /\ DOMAIN q = 1 .. Len(q)
      /\ DOMAIN r = 1 .. Len(q) + 1
  BY <1>1, LenProperties
<1> HIDE DEF r
<1>3. r # <<>>
  BY <1>1, <1>2, EmptySeq
<1>4. \A x : x \in ToSet(r) <=> x \in ToSet(q) \/ x = e
  BY <1>1, <1>2 DEF ToSet
<1>5. IsInjective(q) /\ e \notin ToSet(q) => IsInjective(r)
  BY <1>1, <1>2 DEF ToSet, IsInjective
<1> QED
  BY <1>1, <1>3, <1>4, <1>5 DEF r
-----------------------------------------------------------------------------
\* Core depends on five fields; the operations that change none of them keep it.

LEMMA CoreDepends ==
  ASSUME NEW t, NEW u, Core(t), Typed(u),
         u.state = t.state, u.ready = t.ready, u.quiescent = t.quiescent,
         u.awaiting = t.awaiting, u.waitingOn = t.waitingOn
  PROVE  /\ Core(u)
         /\ Parked(t) => Parked(u)
         /\ OneRuns(t) /\ u.current = t.current => Sound(u)
BY DEF Core, Queued, WaitsForOne, Parked, OneRuns, Sound

\* The base and the fibers are processes, and Nobody and the names are not.
LEMMA Names ==
  /\ Base \in Proc /\ Fibers \subseteq Proc /\ Base \notin Fibers
  /\ Nobody \notin Proc
  /\ Nil \notin Semaphores
BY PidAssumption, NameAssumption DEF Base, Proc, Fibers, Nobody

\* Enqueue of a process that is in no list makes it ready.
LEMMA EnqueueKeeps ==
  ASSUME NEW t, Core(t), NEW p \in Proc,
         t.state[p] # "Ready", p \notin t.awaiting, t.waitingOn[p] = Nil
  PROVE  /\ Core(Enqueue(t, p))
         /\ Enqueue(t, p).ready # <<>>
         /\ Enqueue(t, p).current = t.current
         /\ \A o \in Proc : Enqueue(t, p).state[o] =
                              IF o = p THEN "Ready" ELSE t.state[o]
<1> DEFINE u == Enqueue(t, p)
<1>1. Typed(u)
  BY SMTT(30) DEF Core, Enqueue, Pushed, Typed, States, Fields
<1>2. /\ u.ready = Append(t.ready, p) /\ u.quiescent = Append(t.quiescent, p)
      /\ u.state = [t.state EXCEPT ![p] = "Ready"]
      /\ u.awaiting = t.awaiting /\ u.waitingOn = t.waitingOn
      /\ u.current = t.current
  BY DEF Core, Typed, Enqueue, Pushed, Fields
<1>3. \A o \in Proc : u.state[o] = IF o = p THEN "Ready" ELSE t.state[o]
  BY <1>2 DEF Core, Typed
<1>4. t.ready \in Seq(Proc) /\ p \notin ToSet(t.ready) /\ IsInjective(t.ready)
  BY DEF Core, Queued, Typed
<1>5. /\ u.ready # <<>>
      /\ \A x : x \in ToSet(u.ready) <=> x \in ToSet(t.ready) \/ x = p
      /\ IsInjective(u.ready)
  BY <1>2, <1>4, AppendAdds
<1> HIDE DEF u
<1>6. Queued(u)
  BY <1>2, <1>3, <1>5 DEF Core, Queued
<1>7. WaitsForOne(u)
  BY <1>2, <1>3 DEF Core, WaitsForOne
<1> QED
  BY <1>1, <1>2, <1>3, <1>5, <1>6, <1>7 DEF Core, u

\* leaveLists takes a process out of whatever list it is in.
LEMMA LeaveListsKeeps ==
  ASSUME NEW t, Core(t), NEW p \in Proc
  PROVE  /\ Core(LeaveLists(t, p))
         /\ LeaveLists(t, p).current = t.current
         /\ \A o \in Proc : LeaveLists(t, p).state[o] =
                              IF o = p THEN "Suspended" ELSE t.state[o]
         /\ LeaveLists(t, p).frame = t.frame
         /\ LeaveLists(t, p).contents = t.contents
<1> DEFINE u == LeaveLists(t, p)
<1>1. /\ \A s \in Semaphores : RemoveFirst(t.linkedList[s], p) \in Seq(Proc)
      /\ RemoveFirst(t.ready, p) \in Seq(Proc)
      /\ RemoveFirst(t.quiescent, p) \in Seq(Proc)
  BY RemoveFirstType DEF Core, Typed
<1>2. /\ IsInjective(RemoveFirst(t.ready, p))
      /\ \A x : x \in ToSet(RemoveFirst(t.ready, p)) <=> x \in ToSet(t.ready) /\ x # p
  BY RemoveFirstTakesOut DEF Core, Typed, Queued
<1>3. CASE t.state[p] = "Ready"
  <2>1. /\ u = [LeaveReady(t, p) EXCEPT !.myList[p] = Nil,
                                        !.state[p] = "Suspended"]
    BY <1>3 DEF LeaveLists
  <2>2. Typed(u)
    BY <2>1, <1>1, SMTT(30) DEF Core, Typed, LeaveReady, States, Fields
  <2>3. /\ u.ready = RemoveFirst(t.ready, p)
        /\ u.quiescent = RemoveFirst(t.quiescent, p)
        /\ u.state = [t.state EXCEPT ![p] = "Suspended"]
        /\ u.awaiting = t.awaiting /\ u.waitingOn = t.waitingOn
        /\ u.current = t.current /\ u.frame = t.frame /\ u.contents = t.contents
    BY <2>1 DEF Core, Typed, LeaveReady, Fields
  <2> HIDE DEF u
  <2>4. \A o \in Proc : u.state[o] = IF o = p THEN "Suspended" ELSE t.state[o]
    BY <2>3 DEF Core, Typed
  <2>5. Queued(u)
    BY <2>3, <2>4, <1>2 DEF Core, Queued
  <2>6. WaitsForOne(u)
    BY <1>3, <2>3, <2>4 DEF Core, WaitsForOne
  <2> QED
    BY <2>2, <2>3, <2>4, <2>5, <2>6 DEF Core, u
<1>4. CASE t.state[p] = "Waiting"
  <2>1. /\ u = [LeaveWait(t, p) EXCEPT !.myList[p] = Nil,
                                       !.state[p] = "Suspended"]
    BY <1>4 DEF LeaveLists
  <2>2. Typed(u)
    <3>1. /\ DOMAIN u = Fields
          /\ u.linkedList = [s \in Semaphores |->
                               IF s = t.waitingOn[p]
                                 THEN RemoveFirst(t.linkedList[s], p)
                                 ELSE t.linkedList[s]]
          /\ u.waitingOn = [t.waitingOn EXCEPT ![p] = Nil]
          /\ u.awaiting = t.awaiting \ {p}
          /\ u.resumeTo = [o \in Proc |-> IF o \in Returning(t, p) THEN Nobody
                                                                 ELSE t.resumeTo[o]]
          /\ u.myList = [t.myList EXCEPT ![p] = Nil]
          /\ u.state = [t.state EXCEPT ![p] = "Suspended"]
      BY <2>1 DEF Core, Typed, LeaveWait, Fields
    <3>2. /\ u.current = t.current /\ u.ready = t.ready
          /\ u.quiescent = t.quiescent /\ u.excess = t.excess
          /\ u.signaledBy = t.signaledBy /\ u.condemned = t.condemned
          /\ u.terminated = t.terminated /\ u.abandoned = t.abandoned
          /\ u.deadlocked = t.deadlocked /\ u.aborting = t.aborting
          /\ u.evals = t.evals /\ u.marked = t.marked
          /\ u.heapMark = t.heapMark /\ u.frame = t.frame
          /\ u.contents = t.contents
      BY <2>1 DEF Core, Typed, LeaveWait, Fields
    <3> HIDE DEF u
    <3>3. u.linkedList \in [Semaphores -> Seq(Proc)]
      BY <1>1, <3>1 DEF Core, Typed
    <3> QED
      BY <3>1, <3>2, <3>3, SMTT(30) DEF Core, Typed, States
  <2>3. /\ u.ready = t.ready /\ u.quiescent = t.quiescent
        /\ u.state = [t.state EXCEPT ![p] = "Suspended"]
        /\ u.awaiting = t.awaiting \ {p}
        /\ u.waitingOn = [t.waitingOn EXCEPT ![p] = Nil]
        /\ u.current = t.current /\ u.frame = t.frame /\ u.contents = t.contents
    BY <2>1 DEF Core, Typed, LeaveWait, Fields
  <2> HIDE DEF u
  <2>4. \A o \in Proc : u.state[o] = IF o = p THEN "Suspended" ELSE t.state[o]
    BY <2>3 DEF Core, Typed
  <2>5. Queued(u)
    BY <1>4, <2>3, <2>4 DEF Core, Queued
  <2>6. WaitsForOne(u)
    BY <2>3, <2>4 DEF Core, WaitsForOne, Typed
  <2> QED
    BY <2>2, <2>3, <2>4, <2>5, <2>6 DEF Core, u
<1>5. CASE t.state[p] \notin {"Ready", "Waiting"}
  <2>1. u = [t EXCEPT !.myList[p] = Nil,
                      !.state[p] = "Suspended"]
    BY <1>5 DEF LeaveLists
  <2>2. Typed(u)
    BY <2>1, SMTT(30) DEF Core, Typed, States, Fields
  <2>3. /\ u.ready = t.ready /\ u.quiescent = t.quiescent
        /\ u.state = [t.state EXCEPT ![p] = "Suspended"]
        /\ u.awaiting = t.awaiting /\ u.waitingOn = t.waitingOn
        /\ u.current = t.current /\ u.frame = t.frame /\ u.contents = t.contents
    BY <2>1 DEF Core, Typed, Fields
  <2> HIDE DEF u
  <2>4. \A o \in Proc : u.state[o] = IF o = p THEN "Suspended" ELSE t.state[o]
    BY <2>3 DEF Core, Typed
  <2>5. Queued(u)
    BY <1>5, <2>3, <2>4 DEF Core, Queued
  <2>6. WaitsForOne(u)
    BY <1>5, <2>3, <2>4 DEF Core, WaitsForOne, Typed
  <2> QED
    BY <2>2, <2>3, <2>4, <2>5, <2>6 DEF Core, u
<1> QED
  BY <1>3, <1>4, <1>5

\* switchTo, to a process that neither is queued nor waits: it alone runs.
LEMMA SwitchToRuns ==
  ASSUME NEW t, Core(t), Parked(t), NEW p \in Proc,
         t.state[p] \notin {"Ready", "Waiting"}
  PROVE  Sound(SwitchTo(t, p)) /\ SwitchTo(t, p).current = p
<1> DEFINE u == SwitchTo(t, p)
<1>1. Typed(u)
  BY SMTT(30) DEF Core, SwitchTo, SwitchMarks, Typed, States, Fields
<1>2. /\ u.ready = t.ready /\ u.quiescent = t.quiescent
      /\ u.state = [t.state EXCEPT ![p] = "Running"]
      /\ u.awaiting = t.awaiting /\ u.waitingOn = t.waitingOn
      /\ u.current = p
  BY DEF Core, Typed, SwitchTo, SwitchMarks, Fields
<1> HIDE DEF u
<1>3. \A o \in Proc : u.state[o] = IF o = p THEN "Running" ELSE t.state[o]
  BY <1>2 DEF Core, Typed
<1>4. Queued(u) /\ WaitsForOne(u)
  BY <1>2, <1>3 DEF Core, Queued, WaitsForOne
<1>5. OneRuns(u)
  BY <1>2, <1>3 DEF Parked, OneRuns
<1> QED
  BY <1>1, <1>2, <1>4, <1>5 DEF Sound, Core, u

\* takeNext takes the process to switch to out of where it was: the one that
\* waits for the process that stops, else the head of the ready queue.
LEMMA TakeNextTakes ==
  ASSUME NEW t, Core(t), Parked(t), NEW p \in Proc
  PROVE  /\ Core(TakeNext(t, p)) /\ Parked(TakeNext(t, p))
         /\ TakeNext(t, p).current = t.current
         /\ NextOf(t, p) # Nobody =>
              /\ NextOf(t, p) \in Proc
              /\ TakeNext(t, p).state[NextOf(t, p)] = "Suspended"
         /\ NextOf(t, p) = Nobody => t.ready = <<>>
<1> DEFINE to   == Returnee(t, p)
           left == [t EXCEPT !.resumeTo[p] = Nobody]
           u    == TakeNext(t, p)
<1>1. /\ Typed(left)
      /\ left.state = t.state /\ left.ready = t.ready
      /\ left.quiescent = t.quiescent /\ left.awaiting = t.awaiting
      /\ left.waitingOn = t.waitingOn /\ left.current = t.current
  BY SMTT(30) DEF Core, Typed, Fields
<1> HIDE DEF left
<1>2. Core(left) /\ Parked(left)
  BY <1>1, CoreDepends
<1>3. to \in Proc \cup {Nobody} /\ (to # Nobody => to \in t.awaiting)
  BY DEF Core, Typed, Returnee
<1> HIDE DEF to
<1>4. CASE to # Nobody
  <2>1. u = [left EXCEPT !.awaiting = @ \ {to},
                         !.state[to] = "Suspended"]
    BY <1>4 DEF TakeNext, left, to
  <2>2. Typed(u)
    BY <1>1, <1>3, <1>4, <2>1, SMTT(30) DEF Typed, States, Fields
  <2>3. /\ u.ready = t.ready /\ u.quiescent = t.quiescent
        /\ u.state = [t.state EXCEPT ![to] = "Suspended"]
        /\ u.awaiting = t.awaiting \ {to} /\ u.waitingOn = t.waitingOn
        /\ u.current = t.current
    <3> HIDE DEF u
    <3>1. /\ u.ready = left.ready /\ u.quiescent = left.quiescent
          /\ u.awaiting = left.awaiting \ {to} /\ u.waitingOn = left.waitingOn
          /\ u.current = left.current
      BY <1>1, <2>1 DEF Typed, Fields
    <3>2. u.state = [left.state EXCEPT ![to] = "Suspended"]
      BY <1>1, <2>1 DEF Typed, Fields
    <3> QED
      BY <1>1, <3>1, <3>2
  <2> HIDE DEF u
  <2>4. \A o \in Proc : u.state[o] = IF o = to THEN "Suspended" ELSE t.state[o]
    BY <1>3, <1>4, <2>3 DEF Core, Typed
  <2>5. /\ t.state[to] = "Waiting" /\ t.waitingOn[to] = Nil
        /\ to \in Proc
    BY <1>3, <1>4 DEF Core, WaitsForOne
  <2>6. Queued(u)
    BY <2>3, <2>4, <2>5 DEF Core, Queued
  <2>7. WaitsForOne(u)
    BY <2>3, <2>4, <2>5 DEF Core, WaitsForOne
  <2>8. Parked(u)
    BY <2>4 DEF Parked
  <2>9. NextOf(t, p) = to
    BY <1>4 DEF NextOf, to
  <2> QED
    BY <1>4, <2>2, <2>3, <2>4, <2>5, <2>6, <2>7, <2>8, <2>9 DEF Core, u
<1>5. CASE to = Nobody /\ t.ready # <<>>
  <2> DEFINE h == Head(t.ready)
  <2>1. u = LeaveLists(left, h) /\ NextOf(t, p) = h
    BY <1>5 DEF TakeNext, NextOf, left, to
  <2>2. h \in Proc
    BY <1>5, HeadTailProperties DEF Core, Typed
  <2> HIDE DEF u, h
  <2>3. /\ Core(u) /\ u.current = t.current
        /\ \A o \in Proc : u.state[o] = IF o = h THEN "Suspended" ELSE t.state[o]
    <3>1. /\ Core(LeaveLists(left, h)) /\ LeaveLists(left, h).current = left.current
          /\ \A o \in Proc : LeaveLists(left, h).state[o] =
                               IF o = h THEN "Suspended" ELSE left.state[o]
      BY <1>2, <2>2, LeaveListsKeeps
    <3> QED
      BY <1>1, <2>1, <3>1
  <2>4. Parked(u)
    BY <2>3 DEF Parked
  <2> QED
    BY <2>1, <2>2, <2>3, <2>4, <1>5, Names DEF u
<1>6. CASE to = Nobody /\ t.ready = <<>>
  <2>1. u = left /\ NextOf(t, p) = Nobody
    BY <1>6 DEF TakeNext, NextOf, left, to
  <2> HIDE DEF u
  <2> QED
    BY <1>1, <1>2, <1>6, <2>1 DEF u
<1> QED
  BY <1>4, <1>5, <1>6

\* The switch of a process that stopped running ends with one that runs.
LEMMA SwitchAwayRuns ==
  ASSUME NEW t, Core(t), Parked(t)
  PROVE  Sound(SwitchAway(t, t.current))
<1> DEFINE p      == t.current
           next   == NextOf(t, p)
           taken  == TakeNext(t, p)
           undone == LeaveLists(taken, Base)
<1>1. p \in Proc /\ Base \in Proc
  BY Names DEF Core, Typed
<1>2. /\ Core(taken) /\ Parked(taken) /\ taken.current = p
      /\ next # Nobody => next \in Proc /\ taken.state[next] = "Suspended"
  BY <1>1, TakeNextTakes
<1> HIDE DEF next, taken
<1>3. /\ Core(undone) /\ undone.current = p
      /\ \A o \in Proc : undone.state[o] =
                           IF o = Base THEN "Suspended" ELSE taken.state[o]
  BY <1>1, <1>2, LeaveListsKeeps
<1>4. Parked(undone)
  BY <1>2, <1>3 DEF Parked
<1> HIDE DEF undone
<1>5. CASE next # Nobody
  <2>1. SwitchAway(t, p) = SwitchTo(taken, next)
    BY <1>5 DEF SwitchAway, next, taken
  <2> QED
    BY <1>2, <1>5, <2>1, SwitchToRuns
<1>6. CASE next = Nobody /\ p = Base
  <2> DEFINE u == BaseFails(undone)
  <2>1. SwitchAway(t, p) = u
    BY <1>6 DEF SwitchAway, next, taken, undone
  <2>2. Typed(u)
    BY <1>1, <1>3, SMTT(30) DEF Core, Typed, BaseFails, States, Fields, Frames
  <2>3. /\ u.ready = undone.ready /\ u.quiescent = undone.quiescent
        /\ u.state = [undone.state EXCEPT ![Base] = "Running"]
        /\ u.awaiting = undone.awaiting /\ u.waitingOn = undone.waitingOn
        /\ u.current = Base
    BY <1>3, <1>6 DEF Core, Typed, BaseFails, Fields
  <2> HIDE DEF u
  <2>4. \A o \in Proc : u.state[o] = IF o = Base THEN "Running" ELSE undone.state[o]
    BY <1>3, <2>3 DEF Core, Typed
  <2>5. Queued(u) /\ WaitsForOne(u)
    BY <1>1, <1>3, <2>3, <2>4 DEF Core, Queued, WaitsForOne
  <2>6. OneRuns(u)
    BY <1>4, <2>3, <2>4 DEF OneRuns, Parked
  <2> QED
    BY <2>1, <2>2, <2>5, <2>6 DEF Sound, Core
<1>7. CASE next = Nobody /\ p # Base
  <2> DEFINE v == [undone EXCEPT !.deadlocked = @ \cup {Base}]
  <2>1. SwitchAway(t, p) = SwitchTo(v, Base)
    BY <1>7 DEF SwitchAway, next, taken, undone
  <2>2. Typed(v)
    BY <1>1, <1>3, SMTT(30) DEF Core, Typed, Fields
  <2>3. /\ v.ready = undone.ready /\ v.quiescent = undone.quiescent
        /\ v.state = undone.state
        /\ v.awaiting = undone.awaiting /\ v.waitingOn = undone.waitingOn
    BY <1>3 DEF Core, Typed, Fields
  <2> HIDE DEF v
  <2>4. Core(v) /\ Parked(v) /\ v.state[Base] = "Suspended"
    BY <1>1, <1>3, <1>4, <2>2, <2>3, CoreDepends
  <2> QED
    BY <1>1, <2>1, <2>4, SwitchToRuns
<1> QED
  BY <1>5, <1>6, <1>7

\* reapDead changes nobody's place but that of the dead.
LEMMA ReapDeadKeeps ==
  ASSUME NEW t, Sound(t)
  PROVE  /\ Sound(ReapDead(t)) /\ ReapDead(t).current = t.current
         /\ ReapDead(t).contents = t.contents
<1> DEFINE u == ReapDead(t)
           dead == {p \in Fibers : t.state[p] = "Dead" /\ p # t.current}
<1>1. Typed(u)
  BY SMTT(30) DEF Sound, Core, ReapDead, Typed, States, Fields, Frames
<1>2. /\ u.ready = t.ready /\ u.quiescent = t.quiescent
      /\ u.state = [p \in Proc |-> IF p \in dead THEN "Gone" ELSE t.state[p]]
      /\ u.awaiting = t.awaiting /\ u.waitingOn = t.waitingOn
      /\ u.current = t.current /\ u.contents = t.contents
  BY DEF Sound, Core, Typed, ReapDead, Fields
<1> HIDE DEF u
<1>3. Queued(u) /\ WaitsForOne(u)
  BY <1>2, Names DEF Sound, Core, Typed, Queued, WaitsForOne
<1>4. OneRuns(u)
  BY <1>2 DEF Sound, OneRuns
<1> QED
  BY <1>1, <1>2, <1>3, <1>4 DEF Sound, Core, u

\* The index FirstWaiter answers is that of a process that waits.
LEMMA FirstWaiterWaits ==
  ASSUME NEW t, Typed(t), NEW s \in Semaphores
  PROVE  /\ FirstWaiter(t, s) \in 0 .. Len(t.linkedList[s])
         /\ FirstWaiter(t, s) # 0 => Waits(t, t.linkedList[s][FirstWaiter(t, s)], s)
<1> DEFINE l == t.linkedList[s]
           I == {i \in 1 .. Len(l) : Waits(t, l[i], s)}
<1>1. l \in Seq(Proc) /\ Len(l) \in Nat
  BY LenProperties DEF Typed
<1>2. FirstWaiter(t, s) = IF I # {} THEN Min(I) ELSE 0
  BY DEF FirstWaiter, SelectInSeq
<1>3. CASE I # {}
  <2>1. I \subseteq Nat /\ I # {}
    BY <1>1, <1>3
  <2>2. Min(I) \in I
    BY <2>1, MinIsLeast
  <2> QED
    BY <1>1, <1>2, <1>3, <2>2
<1>4. CASE I = {}
  BY <1>1, <1>2, <1>4
<1> QED
  BY <1>3, <1>4

\* DropStale only shortens the list of s, from its head up to the first waiter.
LEMMA DropStaleKeeps ==
  ASSUME NEW t, Core(t), NEW s \in Semaphores
  PROVE  /\ Core(DropStale(t, s))
         /\ Parked(t) => Parked(DropStale(t, s))
         /\ OneRuns(t) => Sound(DropStale(t, s))
         /\ DropStale(t, s).state = t.state
         /\ DropStale(t, s).current = t.current
         /\ DropStale(t, s).waitingOn = t.waitingOn
         /\ DropStale(t, s).awaiting = t.awaiting
         /\ DropStale(t, s).contents = t.contents
         /\ DropStale(t, s).excess = t.excess
         /\ FirstWaiter(t, s) # 0 =>
              /\ DropStale(t, s).linkedList[s] # <<>>
              /\ Head(DropStale(t, s).linkedList[s]) \in Proc
              /\ Waits(t, Head(DropStale(t, s).linkedList[s]), s)
<1> DEFINE l    == t.linkedList[s]
           f    == FirstWaiter(t, s)
           n    == IF f = 0 THEN Len(l) ELSE f - 1
           gone == {l[i] : i \in 1 .. n}
           u    == DropStale(t, s)
<1>1. /\ l \in Seq(Proc) /\ Len(l) \in Nat
      /\ \A i \in 1 .. Len(l) : l[i] \in Proc
      /\ f \in 0 .. Len(l)
      /\ f # 0 => Waits(t, l[f], s)
  BY LenProperties, ElementOfSeq, FirstWaiterWaits DEF Core, Typed
<1> HIDE DEF f
<1>2. n \in 0 .. Len(l)
  BY <1>1
<1>3. PICK r : r = SubSeq(l, n + 1, Len(l))
  OBVIOUS
<1>4. u = [t EXCEPT
             !.linkedList[s] = r,
             !.myList     = [p \in Proc |-> IF p \in gone /\ @[p] = s
                                              THEN Nil ELSE @[p]]]
  BY <1>3 DEF DropStale, f
<1> HIDE DEF n, l, u, gone
<1>5. /\ r \in Seq(Proc)
      /\ Len(r) = IF n + 1 <= Len(l) THEN Len(l) - (n + 1) + 1 ELSE 0
      /\ \A i \in 1 .. Len(l) - (n + 1) + 1 : r[i] = l[(n + 1) + i - 1]
  <2>1. \A i \in n + 1 .. Len(l) : l[i] \in Proc
    BY <1>1, <1>2
  <2> QED
    BY <1>1, <1>2, <1>3, <2>1, SubSeqProperties
<1>6. /\ u.state = t.state /\ u.ready = t.ready /\ u.quiescent = t.quiescent
      /\ u.awaiting = t.awaiting /\ u.waitingOn = t.waitingOn
      /\ u.current = t.current /\ u.contents = t.contents
      /\ u.excess = t.excess /\ u.linkedList[s] = r
  BY <1>4 DEF Core, Typed, Fields
<1>7. Typed(u)
  BY <1>4, <1>5, SMTT(30) DEF Core, Typed, Fields
<1>8. f # 0 => /\ r # <<>>
               /\ Head(r) \in Proc
               /\ Waits(t, Head(r), s)
  <2> SUFFICES ASSUME f # 0
               PROVE  /\ r # <<>> /\ Head(r) \in Proc /\ Waits(t, Head(r), s)
    OBVIOUS
  <2>1. n + 1 = f /\ f \in 1 .. Len(l)
    BY <1>1 DEF n
  <2>2. Len(r) = Len(l) - f + 1 /\ r[1] = l[f]
    <3>1. 1 \in 1 .. Len(l) - (n + 1) + 1 /\ (n + 1) + 1 - 1 = f
      BY <1>1, <1>2, <2>1
    <3>2. r[1] = l[f]
      BY <1>5, <3>1
    <3> QED
      BY <1>1, <1>5, <2>1, <3>2
  <2>3. r # <<>>
    BY <1>1, <2>1, <2>2, EmptySeq
  <2>4. Head(r) = r[1]
    BY <1>5, <2>3
  <2> QED
    BY <1>1, <2>1, <2>2, <2>3, <2>4
<1>9. /\ Core(u) /\ (Parked(t) => Parked(u)) /\ (OneRuns(t) => Sound(u))
  BY <1>6, <1>7, CoreDepends
<1> QED
  BY <1>6, <1>8, <1>9 DEF u, f

\* signal wakes a process that waits for the Semaphore, or counts the signal;
\* no process that ran or was suspended is touched.
LEMMA SignalKeeps ==
  ASSUME NEW t, Core(t), NEW s \in Semaphores, ~ Overflows(t, s)
  PROVE  /\ Core(Signal(t, s))
         /\ Parked(t) => Parked(Signal(t, s))
         /\ OneRuns(t) => Sound(Signal(t, s))
         /\ Signal(t, s).current = t.current
         /\ Signal(t, s).contents = t.contents
<1> DEFINE left == DropStale(t, s)
           p    == Head(left.linkedList[s])
           u    == Signal(t, s)
<1>1. /\ Core(left) /\ left.state = t.state /\ left.current = t.current
      /\ left.waitingOn = t.waitingOn /\ left.awaiting = t.awaiting
      /\ left.contents = t.contents /\ left.excess = t.excess
      /\ FirstWaiter(t, s) # 0 => p \in Proc /\ Waits(t, p, s)
  BY DropStaleKeeps
<1> HIDE DEF left, p
<1>2. CASE FirstWaiter(t, s) = 0
  <2>1. u = [left EXCEPT !.excess[s] = @ + 1]
    BY <1>2 DEF Signal, left
  <2>2. t.excess[s] + 1 \in 0 .. MaxExcess
    BY <1>2, ExcessAssumption DEF Overflows, Core, Typed
  <2>3. Typed(u)
    BY <1>1, <2>1, <2>2, SMTT(30) DEF Core, Typed, Fields
  <2>4. /\ u.state = left.state /\ u.ready = left.ready
        /\ u.quiescent = left.quiescent /\ u.awaiting = left.awaiting
        /\ u.waitingOn = left.waitingOn /\ u.current = left.current
        /\ u.contents = left.contents
    BY <1>1, <2>1 DEF Core, Typed, Fields
  <2> HIDE DEF u
  <2>5. /\ Core(u) /\ (Parked(left) => Parked(u)) /\ (OneRuns(left) => Sound(u))
    BY <1>1, <2>3, <2>4, CoreDepends
  <2> QED
    BY <1>1, <2>4, <2>5 DEF u, Parked, OneRuns
<1>3. CASE FirstWaiter(t, s) # 0
  <2>2. p \in Proc /\ left.state[p] = "Waiting" /\ left.waitingOn[p] = s
    BY <1>1, <1>3 DEF Waits
  <2> DEFINE w == [left EXCEPT
                     !.linkedList[s] = RemoveFirst(@, p),
                     !.waitingOn[p] = Nil,
                     !.signaledBy[p] = s]
  <2>3. RemoveFirst(left.linkedList[s], p) \in Seq(Proc)
    BY <1>1, RemoveFirstType DEF Core, Typed
  <2>4. Typed(w)
    BY <1>1, <2>2, <2>3, SMTT(30) DEF Core, Typed, Fields
  <2>5. /\ w.state = left.state /\ w.ready = left.ready
        /\ w.quiescent = left.quiescent /\ w.awaiting = left.awaiting
        /\ w.waitingOn = [left.waitingOn EXCEPT ![p] = Nil]
        /\ w.current = left.current /\ w.contents = left.contents
    BY <1>1 DEF Core, Typed, Fields
  <2> HIDE DEF w
  <2>6. Queued(w) /\ WaitsForOne(w)
    BY <1>1, <2>2, <2>5 DEF Core, Queued, WaitsForOne, Typed
  <2>7. Core(w)
    BY <2>4, <2>6 DEF Core
  <2>8. p \notin w.awaiting /\ w.waitingOn[p] = Nil /\ w.state[p] # "Ready"
    BY <1>1, <2>2, <2>5, Names DEF Core, WaitsForOne, Typed
  <2>9. /\ Core(Enqueue(w, p)) /\ Enqueue(w, p).current = w.current
        /\ \A o \in Proc : Enqueue(w, p).state[o] =
                             IF o = p THEN "Ready" ELSE w.state[o]
    BY <2>2, <2>7, <2>8, EnqueueKeeps
  <2>10. u = Enqueue(w, p)
    BY <1>3 DEF Signal, left, p, w
  <2>11. u.contents = t.contents
    BY <1>1, <2>4, <2>5, <2>10 DEF Enqueue, Pushed, Typed, Fields
  <2> HIDE DEF u
  <2>12. /\ Parked(t) => Parked(u)
         /\ OneRuns(t) => OneRuns(u)
    BY <1>1, <2>2, <2>5, <2>9, <2>10 DEF Parked, OneRuns
  <2> QED
    BY <1>1, <2>5, <2>9, <2>10, <2>11, <2>12 DEF u, Sound
<1> QED
  BY <1>2, <1>3

-----------------------------------------------------------------------------
\* The inductive invariant.

AwaitsFiber == host.at = "await" => awaited \in Fibers

IInv == TypeOK /\ Sound(vm) /\ AwaitsFiber

-----------------------------------------------------------------------------
\* The outcomes of an operation keep the process table sound.

\* The fields Sound is about, but for the current process.
SamePlaces(t, u) ==
  /\ u.state = t.state /\ u.ready = t.ready /\ u.quiescent = t.quiescent
  /\ u.awaiting = t.awaiting /\ u.waitingOn = t.waitingOn

\* An operation that touches none of them.
LEMMA SoundDepends ==
  ASSUME NEW t, NEW u, Sound(t), Typed(u), SamePlaces(t, u),
         u.current = t.current
  PROVE  Sound(u)
BY CoreDepends DEF Sound, SamePlaces

\* An abort, a frame, the elements of a SharedQueue and the excess of a
\* Semaphore are marks and counts beside the places.
LEMMA AbortsKeeps ==
  ASSUME NEW t, Sound(t)
  PROVE  /\ Sound(Aborts(t))
         /\ Sound(Aborts([t EXCEPT !.heapMark = TRUE]))
<1> DEFINE u == Aborts(t)
           v == Aborts([t EXCEPT !.heapMark = TRUE])
<1>1. Typed(u) /\ Typed(v)
  BY SMTT(30) DEF Sound, Core, Typed, Aborts, Fields
<1>2. SamePlaces(t, u) /\ u.current = t.current
  BY DEF Sound, Core, Typed, Aborts, Fields, SamePlaces
<1>3. SamePlaces(t, v) /\ v.current = t.current
  BY DEF Sound, Core, Typed, Aborts, Fields, SamePlaces
<1> HIDE DEF u, v
<1> QED
  BY <1>1, <1>2, <1>3, SoundDepends DEF u, v

LEMMA FrameKeeps ==
  ASSUME NEW t, Sound(t), NEW p \in Proc, NEW f \in Frames
  PROVE  /\ Sound([t EXCEPT !.frame[p] = f])
         /\ SamePlaces(t, [t EXCEPT !.frame[p] = f])
         /\ [t EXCEPT !.frame[p] = f].current = t.current
<1> DEFINE u == [t EXCEPT !.frame[p] = f]
<1>1. Typed(u)
  BY SMTT(30) DEF Sound, Core, Typed, Fields
<1>2. SamePlaces(t, u) /\ u.current = t.current
  BY DEF Sound, Core, Typed, Fields, SamePlaces
<1> HIDE DEF u
<1> QED
  BY <1>1, <1>2, SoundDepends DEF u

LEMMA ContentsKeep ==
  ASSUME NEW t, Sound(t), NEW q \in Queues, NEW n \in Nat
  PROVE  /\ Sound([t EXCEPT !.contents[q] = n])
         /\ [t EXCEPT !.contents[q] = n].current = t.current
         /\ [t EXCEPT !.contents[q] = n].contents[q] = n
<1> DEFINE u == [t EXCEPT !.contents[q] = n]
<1>1. Typed(u)
  BY SMTT(30) DEF Sound, Core, Typed, Fields
<1>2. SamePlaces(t, u) /\ u.current = t.current /\ u.contents[q] = n
  BY DEF Sound, Core, Typed, Fields, SamePlaces
<1> HIDE DEF u
<1> QED
  BY <1>1, <1>2, SoundDepends DEF u

LEMMA ExcessKeeps ==
  ASSUME NEW t, Sound(t), NEW s \in Semaphores, NEW n \in 0 .. MaxExcess
  PROVE  /\ Sound([t EXCEPT !.excess[s] = n])
         /\ [t EXCEPT !.excess[s] = n].current = t.current
         /\ [t EXCEPT !.excess[s] = n].contents = t.contents
<1> DEFINE u == [t EXCEPT !.excess[s] = n]
<1>1. Typed(u)
  BY SMTT(30) DEF Sound, Core, Typed, Fields
<1>2. SamePlaces(t, u) /\ u.current = t.current /\ u.contents = t.contents
  BY DEF Sound, Core, Typed, Fields, SamePlaces
<1> HIDE DEF u
<1> QED
  BY <1>1, <1>2, SoundDepends DEF u

-----------------------------------------------------------------------------
\* The switches.

\* The running process stops, for a Semaphore, for another process, or for
\* good: for the moment no process runs.
LEMMA StopParks ==
  ASSUME NEW t, NEW u, Sound(t), Typed(u),
         NEW x \in States \ {"Ready", "Running"},
         u.state = [t.state EXCEPT ![t.current] = x],
         u.ready = t.ready, u.quiescent = t.quiescent,
         \/ u.awaiting = t.awaiting /\ u.waitingOn = t.waitingOn
         \/ /\ x = "Waiting"
            /\ u.awaiting = t.awaiting \cup {t.current}
            /\ u.waitingOn = t.waitingOn
         \/ /\ x = "Waiting"
            /\ u.awaiting = t.awaiting
            /\ \E s \in Semaphores : u.waitingOn = [t.waitingOn EXCEPT ![t.current] = s]
  PROVE  /\ Core(u) /\ Parked(u)
         /\ \A o \in Proc : u.state[o] = IF o = t.current THEN x ELSE t.state[o]
<1>1. t.current \in Proc /\ t.state[t.current] = "Running"
  BY DEF Sound, Core, Typed, OneRuns
<1>2. t.current \notin t.awaiting /\ t.waitingOn[t.current] = Nil
  BY <1>1 DEF Sound, Core, WaitsForOne
<1>3. \A o \in Proc : u.state[o] = IF o = t.current THEN x ELSE t.state[o]
  BY <1>1 DEF Sound, Core, Typed
<1>4. Queued(u)
  BY <1>1, <1>3 DEF Sound, Core, Queued
<1>5. WaitsForOne(u)
  <2>1. WaitsForOne(t)
    BY DEF Sound, Core
  <2>2. CASE u.awaiting = t.awaiting /\ u.waitingOn = t.waitingOn
    BY <1>1, <1>2, <1>3, <2>1, <2>2 DEF WaitsForOne
  <2>3. CASE x = "Waiting" /\ u.awaiting = t.awaiting \cup {t.current}
             /\ u.waitingOn = t.waitingOn
    BY <1>1, <1>2, <1>3, <2>1, <2>3 DEF WaitsForOne
  <2>4. CASE /\ x = "Waiting" /\ u.awaiting = t.awaiting
             /\ \E s \in Semaphores : u.waitingOn = [t.waitingOn EXCEPT ![t.current] = s]
    <3>1. \A o \in Proc : o # t.current => u.waitingOn[o] = t.waitingOn[o]
      BY <1>1, <2>4 DEF Sound, Core, Typed
    <3>2. t.awaiting \subseteq Proc
      BY DEF Sound, Core, Typed
    <3> QED
      BY <1>1, <1>2, <1>3, <2>1, <2>4, <3>1, <3>2 DEF WaitsForOne
  <2> QED
    BY <2>2, <2>3, <2>4
<1>6. Parked(u)
  BY <1>1, <1>3 DEF Sound, OneRuns, Parked
<1> QED
  BY <1>3, <1>4, <1>5, <1>6 DEF Core

\* A process that is neither queued nor waiting, nor the current one, changes.
LEMMA OtherMoves ==
  ASSUME NEW t, NEW u, Sound(t), Typed(u), NEW p \in Proc, p # t.current,
         t.state[p] \notin {"Ready", "Waiting"},
         NEW x \in {"Suspended", "Dead", "Gone"},
         u.state = [t.state EXCEPT ![p] = x],
         u.ready = t.ready, u.quiescent = t.quiescent,
         u.awaiting = t.awaiting, u.waitingOn = t.waitingOn,
         u.current = t.current
  PROVE  Sound(u)
<1>1. \A o \in Proc : u.state[o] = IF o = p THEN x ELSE t.state[o]
  BY DEF Sound, Core, Typed
<1>2. Queued(u)
  BY <1>1 DEF Sound, Core, Queued
<1>3. WaitsForOne(u)
  BY <1>1 DEF Sound, Core, WaitsForOne
<1>4. OneRuns(u)
  BY <1>1 DEF Sound, OneRuns
<1> QED
  BY <1>2, <1>3, <1>4 DEF Sound, Core

\* block: a parked process switches away.
LEMMA BlocksRuns ==
  ASSUME NEW t, Core(t), Parked(t), NEW f \in Frames
  PROVE  Sound(Blocks(t, f))
<1> DEFINE u == [t EXCEPT !.frame[t.current] = f]
<1>1. Typed(u)
  BY SMTT(30) DEF Core, Typed, Fields
<1>2. SamePlaces(t, u) /\ u.current = t.current
  BY DEF Core, Typed, Fields, SamePlaces
<1>3. Blocks(t, f) = SwitchAway(u, t.current)
  BY DEF Blocks
<1> HIDE DEF u
<1>4. Core(u) /\ Parked(u)
  BY <1>1, <1>2, CoreDepends DEF SamePlaces
<1> QED
  BY <1>2, <1>3, <1>4, SwitchAwayRuns

\* wait on a Semaphore.
LEMMA WaitsOnRuns ==
  ASSUME NEW t, Sound(t), NEW s \in Semaphores, NEW f \in Frames
  PROVE  Sound(WaitsOn(t, s, f))
<1> DEFINE p == t.current
           u == [t EXCEPT !.linkedList[s] = Append(@, t.current),
                          !.myList[t.current] = s,
                          !.state[t.current] = "Waiting",
                          !.waitingOn[t.current] = s]
<1>1. Append(t.linkedList[s], t.current) \in Seq(Proc)
  BY AppendProperties DEF Sound, Core, Typed
<1>2. Typed(u)
  BY <1>1, SMTT(30) DEF Sound, Core, Typed, States, Fields
<1>3. /\ u.ready = t.ready /\ u.quiescent = t.quiescent
      /\ u.state = [t.state EXCEPT ![p] = "Waiting"]
      /\ u.awaiting = t.awaiting
      /\ u.waitingOn = [t.waitingOn EXCEPT ![p] = s]
      /\ u.current = p
  BY DEF Sound, Core, Typed, Fields
<1>4. WaitsOn(t, s, f) = Blocks(u, f)
  BY DEF WaitsOn
<1> HIDE DEF u
<1>5. "Waiting" \in States \ {"Ready", "Running"}
  BY DEF States
<1>6. Core(u) /\ Parked(u)
  BY <1>2, <1>3, <1>5, StopParks
<1> QED
  BY <1>4, <1>6, BlocksRuns

\* yield: to the end of the queue and on to its head.
LEMMA YieldRuns ==
  ASSUME NEW t, Sound(t)
  PROVE  Sound(YieldFrom(t))
<1> DEFINE p == t.current
           u == [t EXCEPT !.frame[t.current] = "op"]
           v == Enqueue(u, p)
           n == NextOf(v, p)
           w == TakeNext(v, p)
<1>1. p \in Proc /\ "op" \in Frames
  BY DEF Sound, Core, Typed, Frames
<1>2. Sound(u) /\ SamePlaces(t, u) /\ u.current = p
  BY <1>1, FrameKeeps
<1>3. YieldFrom(t) = SwitchTo(w, n)
  BY DEF YieldFrom
<1> HIDE DEF u
<1>4. u.state[p] = "Running" /\ p \notin u.awaiting /\ u.waitingOn[p] = Nil
  BY <1>1, <1>2 DEF Sound, Core, OneRuns, WaitsForOne
<1>5. /\ Core(v) /\ v.ready # <<>>
      /\ \A o \in Proc : v.state[o] = IF o = p THEN "Ready" ELSE u.state[o]
  BY <1>1, <1>2, <1>4, EnqueueKeeps DEF Sound
<1> HIDE DEF v
<1>6. Parked(v)
  BY <1>2, <1>5 DEF Sound, OneRuns, Parked
<1>7. /\ Core(w) /\ Parked(w)
      /\ n # Nobody => n \in Proc /\ w.state[n] = "Suspended"
      /\ n = Nobody => v.ready = <<>>
  BY <1>1, <1>5, <1>6, TakeNextTakes
<1> HIDE DEF w, n
<1> QED
  BY <1>3, <1>5, <1>7, SwitchToRuns

\* halt: back to the base.
LEMMA HaltsRuns ==
  ASSUME NEW t, Sound(t), t.current = me
  PROVE  Sound(Halts(t))
<1> DEFINE u == [t EXCEPT !.state[me] = "Halted",
                          !.resumeTo[me] = Nobody,
                          !.frame[me] = "op"]
           v == LeaveLists(u, Base)
<1>1. Typed(u)
  BY SMTT(30) DEF Sound, Core, Typed, States, Frames, Fields
<1>2. /\ u.ready = t.ready /\ u.quiescent = t.quiescent
      /\ u.state = [t.state EXCEPT ![t.current] = "Halted"]
      /\ u.awaiting = t.awaiting /\ u.waitingOn = t.waitingOn
      /\ u.current = t.current
  BY DEF Sound, Core, Typed, Fields
<1>3. Halts(t) = SwitchTo(v, Base)
  BY DEF Halts
<1> HIDE DEF u
<1>4. "Halted" \in States \ {"Ready", "Running"}
  BY DEF States
<1>5. Core(u) /\ Parked(u)
  BY <1>1, <1>2, <1>4, StopParks
<1>6. /\ Core(v)
      /\ \A o \in Proc : v.state[o] = IF o = Base THEN "Suspended" ELSE u.state[o]
  BY <1>5, Names, LeaveListsKeeps
<1> HIDE DEF v
<1>7. Parked(v) /\ v.state[Base] = "Suspended"
  BY <1>5, <1>6, Names DEF Parked
<1> QED
  BY <1>3, <1>6, <1>7, Names, SwitchToRuns

\* A process taken out of its list, while another runs.
LEMMA LeaveListsSound ==
  ASSUME NEW t, Sound(t), NEW p \in Proc, p # t.current
  PROVE  /\ Sound(LeaveLists(t, p))
         /\ LeaveLists(t, p).current = t.current
         /\ LeaveLists(t, p).state[p] = "Suspended"
         /\ LeaveLists(t, p).frame = t.frame
<1>1. /\ Core(LeaveLists(t, p)) /\ LeaveLists(t, p).current = t.current
      /\ \A o \in Proc : LeaveLists(t, p).state[o] =
                           IF o = p THEN "Suspended" ELSE t.state[o]
      /\ LeaveLists(t, p).frame = t.frame
  BY LeaveListsKeeps DEF Sound
<1>2. OneRuns(LeaveLists(t, p))
  BY <1>1 DEF Sound, OneRuns
<1> QED
  BY <1>1, <1>2 DEF Sound

\* The running process waits for p and switches to it.
LEMMA HandsOver ==
  ASSUME NEW t, NEW u, Sound(t), Typed(u), NEW p \in Proc, p # t.current,
         t.state[p] \notin {"Ready", "Waiting"},
         u.state = [t.state EXCEPT ![t.current] = "Waiting"],
         u.ready = t.ready, u.quiescent = t.quiescent,
         u.awaiting = t.awaiting \cup {t.current}, u.waitingOn = t.waitingOn
  PROVE  Sound(SwitchTo(u, p))
<1>1. "Waiting" \in States \ {"Ready", "Running"}
  BY DEF States
<1>2. Core(u) /\ Parked(u)
  BY <1>1, StopParks
<1>3. u.state[p] = t.state[p]
  BY DEF Sound, Core, Typed
<1> QED
  BY <1>2, <1>3, SwitchToRuns

\* terminate of a process that does not run: it ends at once, or unwinds while
\* the sender waits.
LEMMA TerminatedRuns ==
  ASSUME NEW t, Sound(t), NEW p \in Proc, p # t.current
  PROVE  Sound(Terminated(t, p))
<1> DEFINE c   == t.current
           out == LeaveLists(t, p)
<1>1. c \in Proc
  BY DEF Sound, Core, Typed
<1>2. /\ Sound(out) /\ out.current = c /\ out.state[p] = "Suspended"
      /\ out.frame = t.frame
  BY LeaveListsSound
<1> HIDE DEF out
<1>3. CASE t.frame[p] = "new"
  <2> DEFINE u == [out EXCEPT !.state[p] = "Dead", !.terminated = @ \cup {p}]
  <2>1. Terminated(t, p) = ReapDead(u)
    BY <1>3 DEF Terminated, out
  <2>2. Typed(u)
    BY <1>2, SMTT(30) DEF Sound, Core, Typed, States, Fields
  <2>3. /\ u.ready = out.ready /\ u.quiescent = out.quiescent
        /\ u.state = [out.state EXCEPT ![p] = "Dead"]
        /\ u.awaiting = out.awaiting /\ u.waitingOn = out.waitingOn
        /\ u.current = out.current
    BY <1>2 DEF Sound, Core, Typed, Fields
  <2> HIDE DEF u
  <2>4. Sound(u)
    BY <1>2, <2>2, <2>3, OtherMoves
  <2> QED
    BY <2>1, <2>4, ReapDeadKeeps
<1>4. CASE t.frame[p] # "new"
  <2> DEFINE u == [out EXCEPT !.condemned   = @ \cup {p},
                              !.resumeTo[p] = t.current,
                              !.state[t.current] = "Waiting",
                              !.awaiting    = @ \cup {t.current},
                              !.frame[t.current] = "op"]
  <2>1. Terminated(t, p) = SwitchTo(u, p)
    BY <1>4 DEF Terminated, out
  <2>2. Typed(u)
    BY <1>1, <1>2, SMTT(30) DEF Sound, Core, Typed, States, Frames, Fields
  <2>3. /\ u.ready = out.ready /\ u.quiescent = out.quiescent
        /\ u.state = [out.state EXCEPT ![c] = "Waiting"]
        /\ u.awaiting = out.awaiting \cup {c} /\ u.waitingOn = out.waitingOn
    BY <1>2 DEF Sound, Core, Typed, Fields
  <2> HIDE DEF u
  <2>4. Sound(SwitchTo(u, p))
    BY <1>2, <2>2, <2>3, HandsOver
  <2> QED
    BY <2>1, <2>4
<1> QED
  BY <1>3, <1>4

\* The base waits for p and switches to it.
LEMMA RunAwaitedRuns ==
  ASSUME NEW t, Sound(t), t.current = Base, NEW p \in Fibers,
         t.state[p] \notin {"Ready", "Waiting"}
  PROVE  Sound(RunAwaited(t, p))
<1> DEFINE u == [t EXCEPT !.resumeTo[p] = Base,
                          !.state[Base] = "Waiting",
                          !.awaiting    = @ \cup {Base},
                          !.frame[Base] = "op"]
<1>1. Base \in Proc /\ p \in Proc /\ p # Base
  BY Names
<1>2. Typed(u)
  BY <1>1, SMTT(30) DEF Sound, Core, Typed, States, Frames, Fields
<1>3. /\ u.ready = t.ready /\ u.quiescent = t.quiescent
      /\ u.state = [t.state EXCEPT ![Base] = "Waiting"]
      /\ u.awaiting = t.awaiting \cup {Base} /\ u.waitingOn = t.waitingOn
  BY DEF Sound, Core, Typed, Fields
<1>4. RunAwaited(t, p) = SwitchTo(u, p)
  BY DEF RunAwaited
<1> HIDE DEF u
<1> QED
  BY <1>1, <1>2, <1>3, <1>4, HandsOver

\* afterResume and the rest of the operation the process was in.
LEMMA UnwoundKeeps ==
  ASSUME NEW t, Sound(t)
  PROVE  Sound(Unwound(t)) /\ Sound(Forgiven(Unwound(t)))
<1> DEFINE u == Unwound(t)
           v == Forgiven(u)
<1>1. t.current \in Proc
  BY DEF Sound, Core, Typed
<1>2. Typed(u) /\ SamePlaces(t, u) /\ u.current = t.current
  <2>1. CASE t.current \in t.condemned
    BY <1>1, <2>1, SMTT(30)
    DEF Sound, Core, Typed, Unwound, SamePlaces, Frames, Fields
  <2>2. CASE t.current \notin t.condemned
    BY <1>1, <2>2, SMTT(30)
    DEF Sound, Core, Typed, Unwound, SamePlaces, Frames, Fields
  <2> QED
    BY <2>1, <2>2
<1> HIDE DEF u
<1>3. Sound(u)
  BY <1>2, SoundDepends
<1>4. Typed(v) /\ SamePlaces(u, v) /\ v.current = u.current
  BY <1>2, SMTT(30) DEF Typed, Forgiven, SamePlaces, Fields
<1> HIDE DEF v
<1> QED
  BY <1>3, <1>4, SoundDepends DEF u, v

LEMMA ContinuesRuns ==
  ASSUME NEW t, Sound(t)
  PROVE  Sound(Continues(t))
<1> DEFINE c == t.current
           q == t.frame[c]
<1>1. c \in Proc /\ q \in Frames /\ "code" \in Frames
  BY DEF Sound, Core, Typed, Frames
<1>2. CASE Unwinds(t)
  BY <1>2, UnwoundKeeps DEF Continues
<1>3. CASE ~ Unwinds(t) /\ q \in Queues /\ t.contents[q] > 0
  <2> DEFINE u == Takes(t, q)
  <2>1. t.contents[q] - 1 \in Nat
    BY <1>3 DEF Sound, Core, Typed
  <2>2. u = [t EXCEPT !.contents[q] = t.contents[q] - 1]
    BY DEF Takes
  <2> HIDE DEF u
  <2>3. Sound(u) /\ u.current = c
    BY <1>3, <2>1, <2>2, ContentsKeep
  <2>4. Sound([u EXCEPT !.frame[c] = "code"])
    BY <1>1, <2>3, FrameKeeps
  <2>5. Continues(t) = [u EXCEPT !.frame[c] = "code"]
    BY <1>3 DEF Continues, u
  <2> QED
    BY <2>4, <2>5
<1>4. CASE ~ Unwinds(t) /\ q \in Queues /\ ~ (t.contents[q] > 0)
  <2> DEFINE u == Emptied(t, q)
             s == ReadSynch[q]
  <2>1. s \in Semaphores /\ 0 \in 0 .. MaxExcess
    BY <1>4, QueueAssumption, ExcessAssumption
  <2>2. u = [t EXCEPT !.excess[s] = 0]
    BY DEF Emptied
  <2> HIDE DEF u, s
  <2>3. Sound(u)
    BY <2>1, <2>2, ExcessKeeps
  <2>4. Sound(WaitsOn(u, s, q))
    BY <1>1, <2>1, <2>3, WaitsOnRuns
  <2>5. Continues(t) = WaitsOn(u, s, q)
    BY <1>4 DEF Continues, WaitsForElement, u, s
  <2> QED
    BY <2>4, <2>5
<1>5. CASE ~ Unwinds(t) /\ q \notin Queues
  <2>1. Continues(t) = [t EXCEPT !.frame[c] = "code"]
    BY <1>5 DEF Continues
  <2> QED
    BY <1>1, <2>1, FrameKeeps
<1> QED
  BY <1>2, <1>3, <1>4, <1>5

-----------------------------------------------------------------------------
\* The invariant of the whole state.

HostRecords == [at : HostStates, entry : Entries \cup {"none"},
                rounds : 0 .. DrainRounds, pass : 0 .. DrainRounds,
                todo : SUBSET Proc, doing : Proc \cup {Nobody},
                before : Nat, ended : BOOLEAN, clears : BOOLEAN,
                closing : BOOLEAN]

\* The number of live fibers, which a pass of terminateAll remembers.
LEMMA LiveCount == Cardinality(LiveFibers(vm)) \in Nat
<1>1. IsFiniteSet(Proc)
  BY PidAssumption, FS_Interval DEF Proc, Base
<1>2. LiveFibers(vm) \subseteq Proc
  BY DEF LiveFibers, Live
<1> QED
  BY <1>1, <1>2, FS_Subset, FS_CardinalityType

LEMMA BecomesKeeps ==
  ASSUME IInv, NEW t, Sound(t), Becomes(t)
  PROVE  IInv'
BY SMTT(30) DEF IInv, TypeOK, AwaitsFiber, Becomes, Sound, Core

LEMMA OutOfMemoryKeeps ==
  ASSUME IInv, NEW t, Sound(t), OutOfMemory(t)
  PROVE  IInv'
<1>1. Sound(vm')
  BY AbortsKeeps DEF OutOfMemory
<1>2. oomLeft' \in 0 .. MaxFailures
  BY LimitAssumption DEF IInv, TypeOK, OutOfMemory
<1>3. starved' \subseteq Proc
  BY DEF IInv, TypeOK, OutOfMemory, Sound, Core, Typed, me
<1> QED
  BY <1>1, <1>2, <1>3 DEF IInv, TypeOK, AwaitsFiber, OutOfMemory, Sound, Core

LEMMA StopsKeeps ==
  ASSUME IInv, NEW t, Sound(t), t.current = me, Stops(t)
  PROVE  IInv'
<1>1. Sound(IF CanHalt THEN Halts(t) ELSE Aborts(t))
  BY HaltsRuns, AbortsKeeps
<1> QED
  BY <1>1, BecomesKeeps DEF Stops

LEMMA HostBecomesKeeps ==
  ASSUME IInv, NEW t, Sound(t), NEW h \in HostRecords,
         h.at = "await" => host.at = "await",
         HostBecomes(t, h)
  PROVE  IInv'
BY SMTT(30) DEF IInv, TypeOK, AwaitsFiber, HostBecomes, HostRecords, Sound, Core

LEMMA HostOutOfMemoryKeeps ==
  ASSUME IInv, NEW t, Sound(t), NEW h \in HostRecords,
         h.at = "await" => host.at = "await",
         HostOutOfMemory(t, h)
  PROVE  IInv'
<1> DEFINE u == [t EXCEPT !.heapMark = TRUE]
<1>1. Typed(u) /\ SamePlaces(t, u) /\ u.current = t.current
  BY SMTT(30) DEF Sound, Core, Typed, SamePlaces, Fields
<1>2. vm' = u
  BY DEF HostOutOfMemory
<1> HIDE DEF u
<1>3. Sound(vm')
  BY <1>1, <1>2, SoundDepends
<1>4. oomLeft' \in 0 .. MaxFailures
  BY LimitAssumption DEF IInv, TypeOK, HostOutOfMemory
<1>5. starved' \subseteq Proc
  BY Names DEF IInv, TypeOK, HostOutOfMemory
<1> QED
  BY <1>3, <1>4, <1>5
  DEF IInv, TypeOK, AwaitsFiber, HostOutOfMemory, HostRecords, Sound, Core

\* The initial state, of a booted image or of a loaded one.
LEMMA InitIInv == Init => IInv
<1> SUFFICES ASSUME Init PROVE IInv
  OBVIOUS
<1>1. Sound(vm)
  <2>1. Typed(vm)
    <3>1. PICK image \in [Semaphores -> {<<>>} \cup {<<p>> : p \in Strangers}] :
            vm.linkedList = image /\ DOMAIN vm = Fields
      BY DEF Init, Fields
    <3>2. image \in [Semaphores -> Seq(Proc)]
      <4>1. \A p \in Strangers : <<p>> \in Seq(Proc)
        BY LimitAssumption, Names
      <4>2. <<>> \in Seq(Proc)
        BY EmptySeq
      <4>3. {<<>>} \cup {<<p>> : p \in Strangers} \subseteq Seq(Proc)
        BY <4>1, <4>2
      <4> HIDE DEF Proc
      <4> QED
        BY <4>3
    <3>3. vm.myList \in [Proc -> Semaphores \cup {Nil, Quiescent}]
      BY DEF Init
    <3>4. vm.state \in [Proc -> States] /\ vm.frame \in [Proc -> Frames]
      BY DEF Init, States, Frames
    <3>5. /\ vm.current \in Proc /\ vm.ready \in Seq(Proc)
          /\ vm.quiescent \in Seq(Proc)
          /\ vm.excess \in [Semaphores -> 0 .. MaxExcess]
          /\ vm.contents \in [Queues -> Nat]
      BY Names, ExcessAssumption DEF Init
    <3>6. /\ vm.waitingOn \in [Proc -> Semaphores \cup {Nil}]
          /\ vm.signaledBy \in [Proc -> Semaphores \cup {Nil}]
          /\ vm.resumeTo \in [Proc -> Proc \cup {Nobody}]
      BY DEF Init
    <3>7. /\ vm.awaiting = {} /\ vm.condemned = {} /\ vm.terminated = {}
          /\ vm.abandoned = {} /\ vm.deadlocked = {} /\ vm.aborting = {}
          /\ vm.evals = {} /\ vm.marked = {} /\ vm.heapMark = FALSE
      BY DEF Init
    <3> QED
      BY <3>1, <3>2, <3>3, <3>4, <3>5, <3>6, <3>7 DEF Typed
  <2>2. /\ vm.state = [p \in Proc |-> IF p = Base THEN "Running"
                                      ELSE IF p \in Strangers THEN "Gone" ELSE "None"]
        /\ vm.current = Base /\ vm.ready = <<>> /\ vm.quiescent = <<>>
        /\ vm.awaiting = {} /\ vm.waitingOn = [p \in Proc |-> Nil]
    BY DEF Init
  <2>3. Queued(vm)
    BY <2>2 DEF Queued, IsInjective, ToSet
  <2>4. WaitsForOne(vm) /\ OneRuns(vm)
    BY <2>2 DEF WaitsForOne, OneRuns
  <2> QED
    BY <2>1, <2>3, <2>4 DEF Sound, Core
<1>2. host \in HostRecords /\ host.at = "idle"
  BY LimitAssumption DEF Init, Idle, HostRecords, HostStates
<1>3. /\ awaited \in Proc \cup {Nobody} /\ evalEnd \in Outcomes
      /\ failed \subseteq Proc /\ oomLeft \in 0 .. MaxFailures
      /\ starved \subseteq Proc
  BY LimitAssumption DEF Init, Outcomes
<1> QED
  BY <1>1, <1>2, <1>3 DEF IInv, TypeOK, AwaitsFiber, HostRecords, Sound, Core

-----------------------------------------------------------------------------
\* The operations of Smalltalk code, one lemma each.

\* What an operation starts from.
LEMMA AtRest ==
  ASSUME IInv
  PROVE  /\ Sound(vm) /\ Core(vm) /\ Typed(vm)
         /\ me \in Proc /\ vm.state[me] = "Running"
         /\ \A p \in Proc : p # me => vm.state[p] # "Running"
BY DEF IInv, Sound, Core, Typed, OneRuns, me

\* Enqueue of a process in no list, while another runs.
LEMMA EnqueueSound ==
  ASSUME NEW t, Sound(t), NEW p \in Proc, t.state[p] \in {"None", "Suspended"}
  PROVE  Sound(Enqueue(t, p))
<1>1. p \notin t.awaiting /\ t.waitingOn[p] = Nil /\ p # t.current
  BY DEF Sound, Core, WaitsForOne, OneRuns
<1>2. /\ Core(Enqueue(t, p)) /\ Enqueue(t, p).current = t.current
      /\ \A o \in Proc : Enqueue(t, p).state[o] =
                           IF o = p THEN "Ready" ELSE t.state[o]
  BY <1>1, EnqueueKeeps DEF Sound
<1> QED
  BY <1>1, <1>2 DEF Sound, OneRuns

\* pop_back undoes push_back.
LEMMA FrontOfAppend ==
  ASSUME NEW S, NEW q \in Seq(S), NEW e \in S
  PROVE  Front(Append(q, e)) = q
<1> DEFINE r == Append(q, e)
<1>1. /\ r \in Seq(S) /\ Len(r) = Len(q) + 1 /\ Len(q) \in Nat
      /\ \A i \in 1 .. Len(q) : r[i] = q[i]
  BY AppendProperties, LenProperties
<1> HIDE DEF r
<1>2. Front(r) = [i \in 1 .. Len(q) |-> r[i]]
  BY <1>1 DEF Front
<1>3. q = [i \in 1 .. Len(q) |-> q[i]]
  BY LenProperties
<1> QED
  BY <1>1, <1>2, <1>3 DEF r

\* What enqueue leaves when it fails: every field is what it was.
LEMMA PopsBack ==
  ASSUME NEW t, Typed(t), NEW p \in Proc
  PROVE  LET u == EnqueueFails(t, p)
         IN /\ DOMAIN u = Fields
            /\ \A f \in Fields : u[f] = t[f]
<1> DEFINE a == Pushed(t, p)
           u == EnqueueFails(t, p)
<1>1. /\ DOMAIN a = Fields /\ a["ready"] = Append(t.ready, p)
      /\ \A f \in Fields : f # "ready" => a[f] = t[f]
  BY DEF Typed, Pushed, Fields
<1>2. u = [a EXCEPT !.ready = Front(@)]
  BY DEF EnqueueFails, PoppedBack
<1> HIDE DEF a, u
<1>3. DOMAIN u = Fields /\ \A f \in Fields : f # "ready" => u[f] = a[f]
  BY <1>1, <1>2
<1>4. u["ready"] = Front(Append(t.ready, p))
  BY <1>1, <1>2 DEF Fields
<1>5. Front(Append(t.ready, p)) = t.ready
  BY FrontOfAppend DEF Typed
<1>6. \A f \in Fields : u[f] = t[f]
  BY <1>1, <1>3, <1>4, <1>5
<1> QED
  BY <1>3, <1>6 DEF u

\* So an operation that fails there fails as if it had touched nothing but the
\* waiters it dropped, the process it made and the element it took back.
LEMMA EnqueueFailsKeeps ==
  ASSUME NEW t, Typed(t), NEW p \in Proc
  PROVE  /\ OutOfMemory(EnqueueFails(t, p)) => OutOfMemory(t)
         /\ \A h : HostOutOfMemory(EnqueueFails(t, p), h) => HostOutOfMemory(t, h)
         /\ OutOfMemory(Unmade(EnqueueFails(t, p), p)) => OutOfMemory(Unmade(t, p))
         /\ \A q : OutOfMemory(TakesBack(EnqueueFails(t, p), q)) =>
                     OutOfMemory(TakesBack(t, q))
<1> DEFINE u == EnqueueFails(t, p)
<1>1. DOMAIN t = Fields /\ DOMAIN u = Fields /\ \A f \in Fields : u[f] = t[f]
  BY PopsBack DEF Typed
<1> HIDE DEF u
<1>2. [u EXCEPT !.heapMark = TRUE] = [t EXCEPT !.heapMark = TRUE]
  BY <1>1
<1>3. Unmade(u, p) = Unmade(t, p)
  BY <1>1 DEF Unmade, Fields
<1>4. \A q : TakesBack(u, q) = TakesBack(t, q)
  BY <1>1 DEF TakesBack, Fields
<1> QED
  BY <1>2, <1>3, <1>4 DEF OutOfMemory, HostOutOfMemory, u

LEMMA SignalFailsKeeps ==
  ASSUME NEW t, Core(t), NEW s \in Semaphores, FirstWaiter(t, s) # 0
  PROVE  /\ OutOfMemory(SignalFails(t, s)) => OutOfMemory(DropStale(t, s))
         /\ \A h : HostOutOfMemory(SignalFails(t, s), h) =>
                     HostOutOfMemory(DropStale(t, s), h)
         /\ \A q : OutOfMemory(TakesBack(SignalFails(t, s), q)) =>
                     OutOfMemory(TakesBack(DropStale(t, s), q))
<1> DEFINE left == DropStale(t, s)
           p == Head(left.linkedList[s])
<1>1. Typed(left) /\ p \in Proc
  BY DropStaleKeeps DEF Core
<1>2. SignalFails(t, s) = EnqueueFails(left, p)
  BY DEF SignalFails
<1> HIDE DEF left, p
<1> QED
  BY <1>1, <1>2, EnqueueFailsKeeps DEF left

\* What each operation that can fail in enqueue does, the failures put that way.
LEMMA ForkIs ==
  ASSUME IInv, Fork
  PROVE  /\ MayRun("fork")
         /\ \/ Becomes(Aborts(vm))
            \/ ~Full /\ OutOfMemory(vm)
            \/ /\ ~Full
               /\ \E p \in Fibers :
                    /\ IsNextPid(vm, p)
                    /\ Becomes(Enqueue(vm, p)) \/ OutOfMemory(Unmade(vm, p))
BY AtRest, Names, EnqueueFailsKeeps DEF Fork

LEMMA YieldIs ==
  ASSUME IInv, Yield
  PROVE  /\ MayRun("yield") /\ vm.ready # <<>>
         /\ Becomes(YieldFrom(vm)) \/ OutOfMemory(vm)
BY AtRest, EnqueueFailsKeeps DEF Yield

LEMMA SignalSemaphoreIs ==
  ASSUME IInv, SignalSemaphore
  PROVE  /\ MayRun("signal")
         /\ \E s \in Plain :
              \/ ~Overflows(vm, s) /\ Becomes(Signal(vm, s))
              \/ Overflows(vm, s) /\ Stops(DropStale(vm, s))
              \/ FirstWaiter(vm, s) # 0 /\ OutOfMemory(DropStale(vm, s))
BY AtRest, SignalFailsKeeps DEF SignalSemaphore, Plain

LEMMA ResumeIs ==
  ASSUME IInv, Resume
  PROVE  /\ MayRun("resume")
         /\ \E p \in Named :
              \/ vm.state[p] \in {"Dead", "Gone"} /\ Becomes(Aborts(vm))
              \/ Resumable(p) /\ Becomes(Enqueue(vm, p))
              \/ Resumable(p) /\ OutOfMemory(vm)
BY AtRest, EnqueueFailsKeeps DEF Resume, Named

LEMMA TerminatesOtherIs ==
  ASSUME IInv, NEW p \in Proc, TerminatesOther(p)
  PROVE  \/ /\ GivesBack(p) => ~Overflows(vm, vm.signaledBy[p])
            /\ Becomes(Terminated(Relieved(p), p))
         \/ /\ GivesBack(p)
            /\ Overflows(vm, vm.signaledBy[p])
            /\ Stops(DropStale(vm, vm.signaledBy[p]))
         \/ /\ GivesBack(p)
            /\ FirstWaiter(vm, vm.signaledBy[p]) # 0
            /\ OutOfMemory(DropStale(vm, vm.signaledBy[p]))
<1>1. GivesBack(p) => vm.signaledBy[p] \in Semaphores
  BY AtRest DEF Typed, GivesBack
<1> QED
  BY <1>1, AtRest, SignalFailsKeeps DEF TerminatesOther

LEMMA NextPutIs ==
  ASSUME IInv, NextPut
  PROVE  /\ MayRun("nextPut")
         /\ \E q \in Queues :
              LET s   == ReadSynch[q]
                  put == [vm EXCEPT !.contents[q] = @ + 1]
              IN /\ vm.contents[q] < MaxElements
                 /\ \/ ~Overflows(vm, s) /\ Becomes(Signal(put, s))
                    \/ /\ Overflows(vm, s)
                       /\ Becomes(Aborts(TakesBack(DropStale(put, s), q)))
                    \/ OutOfMemory(vm)
                    \/ /\ FirstWaiter(vm, s) # 0
                       /\ OutOfMemory(TakesBack(DropStale(put, s), q))
<1>1. PICK q \in Queues :
        LET s   == ReadSynch[q]
            put == [vm EXCEPT !.contents[q] = @ + 1]
        IN /\ vm.contents[q] < MaxElements
           /\ \/ ~Overflows(vm, s) /\ Becomes(Signal(put, s))
              \/ /\ Overflows(vm, s)
                 /\ Becomes(Aborts(TakesBack(DropStale(put, s), q)))
              \/ OutOfMemory(vm)
              \/ /\ FirstWaiter(vm, s) # 0
                 /\ OutOfMemory(TakesBack(SignalFails(put, s), q))
  BY DEF NextPut
<1> DEFINE put == [vm EXCEPT !.contents[q] = @ + 1]
<1>2. ReadSynch[q] \in Semaphores
  BY QueueAssumption
<1>3. Core(put)
  <2>1. PICK m : m = vm.contents[q] + 1
    OBVIOUS
  <2>2. m \in Nat /\ put = [vm EXCEPT !.contents[q] = m]
    BY <2>1, AtRest DEF Typed
  <2> HIDE DEF put
  <2> QED
    BY <2>2, AtRest, ContentsKeep DEF Sound
<1>4. put.linkedList = vm.linkedList /\ put.state = vm.state
      /\ put.waitingOn = vm.waitingOn
  BY AtRest DEF Typed, Fields
<1>5. FirstWaiter(put, ReadSynch[q]) = FirstWaiter(vm, ReadSynch[q])
  BY <1>4 DEF FirstWaiter, Waits
<1> HIDE DEF put
<1>6. FirstWaiter(vm, ReadSynch[q]) # 0
        /\ OutOfMemory(TakesBack(SignalFails(put, ReadSynch[q]), q))
      => OutOfMemory(TakesBack(DropStale(put, ReadSynch[q]), q))
  BY <1>2, <1>3, <1>5, SignalFailsKeeps
<1> QED
  BY <1>1, <1>6 DEF NextPut, put

LEMMA AwaitLoopIs ==
  ASSUME IInv, AwaitLoop
  PROVE  /\ InHost("await") /\ ~AwaitOver
         /\ \/ vm.ready # <<>> /\ Becomes(YieldFrom(vm))
            \/ vm.ready # <<>> /\ HostOutOfMemory(vm, host)
            \/ vm.ready = <<>> /\ Becomes(EvalDeadlocks(vm))
BY AtRest, Names, EnqueueFailsKeeps DEF AwaitLoop

LEMMA DrainIs ==
  ASSUME IInv, Drain
  PROVE  /\ InHost("drain") /\ host.rounds > 0 /\ vm.ready # <<>>
         /\ LET rest == [host EXCEPT !.rounds = @ - 1]
            IN HostBecomes(YieldFrom(vm), rest) \/ HostOutOfMemory(vm, rest)
BY AtRest, Names, EnqueueFailsKeeps DEF Drain

LEMMA TerminateNextIs ==
  ASSUME IInv, TerminateNext
  PROVE  /\ InHost("terminate") /\ host.doing = Nobody
         /\ \E p \in host.todo :
              /\ \A q \in host.todo : p <= q
              /\ LET s    == vm.signaledBy[p]
                     rest == [host EXCEPT !.todo = @ \ {p}]
                     sent == [rest EXCEPT !.doing = p]
                 IN \/ Over(p) /\ HostBecomes(vm, rest)
                    \/ /\ ~Over(p)
                       /\ GivesBack(p) => ~Overflows(vm, s)
                       /\ HostBecomes(Terminated(Relieved(p), p), sent)
                    \/ /\ ~Over(p) /\ GivesBack(p) /\ Overflows(vm, s)
                       /\ HostBecomes(DropStale(vm, s), sent)
                    \/ /\ ~Over(p) /\ GivesBack(p) /\ FirstWaiter(vm, s) # 0
                       /\ HostOutOfMemory(DropStale(vm, s), sent)
<1>1. \A p \in host.todo : p \in Proc
  BY DEF IInv, TypeOK, HostRecords
<1>2. \A p \in Proc : GivesBack(p) => vm.signaledBy[p] \in Semaphores
  BY AtRest DEF Typed, GivesBack
<1>3. \A p \in host.todo : \A h :
        /\ GivesBack(p) /\ FirstWaiter(vm, vm.signaledBy[p]) # 0
        /\ HostOutOfMemory(SignalFails(vm, vm.signaledBy[p]), h)
        => HostOutOfMemory(DropStale(vm, vm.signaledBy[p]), h)
  BY <1>1, <1>2, AtRest, SignalFailsKeeps
<1> QED
  BY <1>3 DEF TerminateNext

LEMMA TroubleKeeps == IInv /\ Trouble => IInv'
BY AtRest, StopsKeeps DEF Trouble, me

LEMMA ForkKeeps == IInv /\ Fork => IInv'
<1> SUFFICES ASSUME IInv, Fork PROVE IInv'
  OBVIOUS
<1>1. CASE Becomes(Aborts(vm))
  BY <1>1, AtRest, AbortsKeeps, BecomesKeeps
<1>2. CASE OutOfMemory(vm)
  BY <1>2, AtRest, OutOfMemoryKeeps
<1>3. ASSUME NEW p \in Fibers, IsNextPid(vm, p),
             Becomes(Enqueue(vm, p)) \/ OutOfMemory(Unmade(vm, p))
      PROVE  IInv'
  <2>1. p \in Proc /\ vm.state[p] = "None" /\ p # vm.current
    BY <1>3, AtRest, Names DEF IsNextPid, me
  <2>2. Sound(Enqueue(vm, p))
    BY <2>1, AtRest, EnqueueSound
  <2> DEFINE u == Unmade(vm, p)
  <2>3. Typed(u)
    BY <2>1, AtRest, SMTT(30) DEF Typed, Unmade, States, Fields
  <2>4. /\ u.ready = vm.ready /\ u.quiescent = vm.quiescent
        /\ u.state = [vm.state EXCEPT ![p] = "Gone"]
        /\ u.awaiting = vm.awaiting /\ u.waitingOn = vm.waitingOn
        /\ u.current = vm.current
    BY AtRest DEF Typed, Unmade, Fields
  <2> HIDE DEF u
  <2>5. Sound(u)
    BY <2>1, <2>3, <2>4, AtRest, OtherMoves
  <2> QED
    BY <1>3, <2>2, <2>5, BecomesKeeps, OutOfMemoryKeeps DEF u
<1> QED
  BY <1>1, <1>2, <1>3, ForkIs

LEMMA YieldKeeps == IInv /\ Yield => IInv'
BY AtRest, YieldRuns, BecomesKeeps, OutOfMemoryKeeps, YieldIs

LEMMA WaitKeeps == IInv /\ Wait => IInv'
<1> SUFFICES ASSUME IInv, NEW s \in Plain,
                    \/ vm.excess[s] > 0 /\ Becomes(Answered(vm, s))
                    \/ vm.excess[s] = 0 /\ Becomes(WaitsOn(vm, s, "op"))
                    \/ vm.excess[s] = 0 /\ OutOfMemory(vm)
             PROVE  IInv'
  BY DEF Wait
<1>1. s \in Semaphores /\ "op" \in Frames /\ vm.excess[s] \in 0 .. MaxExcess
  BY AtRest DEF Plain, Frames, Typed
<1>2. CASE vm.excess[s] > 0 /\ Becomes(Answered(vm, s))
  <2>1. vm.excess[s] - 1 \in 0 .. MaxExcess
    BY <1>1, <1>2, ExcessAssumption
  <2>2. Answered(vm, s) = [vm EXCEPT !.excess[s] = vm.excess[s] - 1]
    BY DEF Answered
  <2> QED
    BY <1>1, <1>2, <2>1, <2>2, AtRest, ExcessKeeps, BecomesKeeps
<1>3. CASE Becomes(WaitsOn(vm, s, "op"))
  BY <1>1, <1>3, AtRest, WaitsOnRuns, BecomesKeeps
<1>4. CASE OutOfMemory(vm)
  BY <1>4, AtRest, OutOfMemoryKeeps
<1> QED
  BY <1>2, <1>3, <1>4

\* signal, and the signal that a terminate gives back.
LEMMA SignalSound ==
  ASSUME NEW t, Sound(t), NEW s \in Semaphores
  PROVE  /\ ~ Overflows(t, s) => /\ Sound(Signal(t, s))
                                 /\ Signal(t, s).current = t.current
                                 /\ Signal(t, s).contents = t.contents
         /\ Sound(DropStale(t, s)) /\ DropStale(t, s).current = t.current
         /\ DropStale(t, s).contents = t.contents
BY SignalKeeps, DropStaleKeeps DEF Sound

LEMMA SignalSemaphoreKeeps == IInv /\ SignalSemaphore => IInv'
<1> SUFFICES ASSUME IInv, NEW s \in Plain,
                    \/ ~Overflows(vm, s) /\ Becomes(Signal(vm, s))
                    \/ Overflows(vm, s) /\ Stops(DropStale(vm, s))
                    \/ FirstWaiter(vm, s) # 0 /\ OutOfMemory(DropStale(vm, s))
             PROVE  IInv'
  BY SignalSemaphoreIs
<1>1. s \in Semaphores
  BY DEF Plain
<1>2. /\ ~ Overflows(vm, s) => Sound(Signal(vm, s))
      /\ Sound(DropStale(vm, s)) /\ DropStale(vm, s).current = me
  BY <1>1, AtRest, SignalSound DEF me
<1> QED
  BY <1>2, BecomesKeeps, StopsKeeps, OutOfMemoryKeeps

LEMMA SuspendKeeps == IInv /\ Suspend => IInv'
<1> SUFFICES ASSUME IInv, Suspend PROVE IInv'
  OBVIOUS
<1>1. CASE Becomes(Blocks([vm EXCEPT !.state[me] = "Suspended"], "op"))
  <2> DEFINE u == [vm EXCEPT !.state[me] = "Suspended"]
  <2>1. Typed(u)
    BY AtRest, SMTT(30) DEF Typed, States, Fields
  <2>2. /\ u.ready = vm.ready /\ u.quiescent = vm.quiescent
        /\ u.state = [vm.state EXCEPT ![vm.current] = "Suspended"]
        /\ u.awaiting = vm.awaiting /\ u.waitingOn = vm.waitingOn
    BY AtRest DEF Typed, Fields, me
  <2> HIDE DEF u
  <2>3. "Suspended" \in States \ {"Ready", "Running"} /\ "op" \in Frames
    BY DEF States, Frames
  <2>4. Core(u) /\ Parked(u)
    BY <2>1, <2>2, <2>3, AtRest, StopParks
  <2>5. Sound(Blocks(u, "op"))
    BY <2>3, <2>4, BlocksRuns
  <2> QED
    BY <1>1, <2>5, BecomesKeeps DEF u
<1>2. ASSUME NEW p \in Named, vm.state[p] \in {"Ready", "Waiting"},
             Becomes(LeaveLists(vm, p))
      PROVE  IInv'
  <2>1. p \in Proc /\ p # vm.current
    BY <1>2, AtRest DEF Named, me
  <2> QED
    BY <1>2, <2>1, AtRest, LeaveListsSound, BecomesKeeps
<1> QED
  BY <1>1, <1>2 DEF Suspend

LEMMA ResumeKeeps == IInv /\ Resume => IInv'
<1> SUFFICES ASSUME IInv, NEW p \in Named,
                    \/ Becomes(Aborts(vm))
                    \/ Resumable(p) /\ Becomes(Enqueue(vm, p))
                    \/ Resumable(p) /\ OutOfMemory(vm)
             PROVE  IInv'
  BY ResumeIs
<1>1. CASE Becomes(Aborts(vm))
  BY <1>1, AtRest, AbortsKeeps, BecomesKeeps
<1>2. CASE Resumable(p) /\ Becomes(Enqueue(vm, p))
  BY <1>2, AtRest, EnqueueSound, BecomesKeeps DEF Named, Resumable
<1>3. CASE OutOfMemory(vm)
  BY <1>3, AtRest, OutOfMemoryKeeps
<1> QED
  BY <1>1, <1>2, <1>3

\* The signal goes back before the process is terminated.
LEMMA RelievedSound ==
  ASSUME IInv, NEW p \in Proc,
         GivesBack(p) => ~ Overflows(vm, vm.signaledBy[p])
  PROVE  Sound(Relieved(p)) /\ Relieved(p).current = me
<1> DEFINE s == vm.signaledBy[p]
           v == Signal(vm, s)
           u == [v EXCEPT !.signaledBy[p] = Nil]
<1>1. CASE ~ GivesBack(p)
  BY <1>1, AtRest DEF Relieved, me
<1>2. CASE GivesBack(p)
  <2>1. s \in Semaphores
    BY <1>2, AtRest DEF GivesBack, Typed
  <2>2. Sound(v) /\ v.current = me
    BY <1>2, <2>1, AtRest, SignalSound DEF me
  <2>3. Relieved(p) = u
    BY <1>2 DEF Relieved
  <2> HIDE DEF v
  <2>4. Typed(u) /\ SamePlaces(v, u) /\ u.current = v.current
    BY <2>2, SMTT(30) DEF Sound, Core, Typed, SamePlaces, Fields
  <2> HIDE DEF u
  <2> QED
    BY <2>2, <2>3, <2>4, SoundDepends
<1> QED
  BY <1>1, <1>2

\* What is left when it does not.
LEMMA GivesBackSound ==
  ASSUME IInv, NEW p \in Proc, GivesBack(p)
  PROVE  /\ Sound(DropStale(vm, vm.signaledBy[p]))
         /\ DropStale(vm, vm.signaledBy[p]).current = me
<1>1. vm.signaledBy[p] \in Semaphores
  BY AtRest DEF GivesBack, Typed
<1> QED
  BY <1>1, AtRest, SignalSound DEF me

LEMMA TerminateKeeps == IInv /\ Terminate => IInv'
<1> SUFFICES ASSUME IInv, Terminate PROVE IInv'
  OBVIOUS
<1>1. CASE Becomes(Aborts([vm EXCEPT !.terminated = @ \cup {me}]))
  <2> DEFINE u == [vm EXCEPT !.terminated = @ \cup {me}]
  <2>1. Typed(u) /\ SamePlaces(vm, u) /\ u.current = vm.current
    BY AtRest, SMTT(30) DEF Typed, SamePlaces, Fields
  <2> HIDE DEF u
  <2>2. Sound(Aborts(u))
    BY <2>1, AtRest, SoundDepends, AbortsKeeps
  <2> QED
    BY <1>1, <2>2, BecomesKeeps DEF u
<1>2. CASE Becomes(Aborts(vm))
  BY <1>2, AtRest, AbortsKeeps, BecomesKeeps
<1>3. ASSUME NEW p \in LiveFibers(vm) \ {me}, TerminatesOther(p)
      PROVE  IInv'
  <2>1. p \in Proc /\ p # me
    BY <1>3 DEF LiveFibers, Live
  <2>2. CASE /\ GivesBack(p) => ~Overflows(vm, vm.signaledBy[p])
             /\ Becomes(Terminated(Relieved(p), p))
    <3>1. Sound(Relieved(p)) /\ Relieved(p).current = me
      BY <2>1, <2>2, RelievedSound
    <3>2. Sound(Terminated(Relieved(p), p))
      BY <2>1, <3>1, TerminatedRuns
    <3> QED
      BY <2>2, <3>2, BecomesKeeps
  <2>3. CASE GivesBack(p) /\ Stops(DropStale(vm, vm.signaledBy[p]))
    BY <2>1, <2>3, GivesBackSound, StopsKeeps
  <2>4. CASE GivesBack(p) /\ OutOfMemory(DropStale(vm, vm.signaledBy[p]))
    BY <2>1, <2>4, GivesBackSound, OutOfMemoryKeeps
  <2> QED
    BY <1>3, <2>1, <2>2, <2>3, <2>4, TerminatesOtherIs
<1> QED
  BY <1>1, <1>2, <1>3 DEF Terminate

LEMMA NextPutKeeps == IInv /\ NextPut => IInv'
<1> SUFFICES ASSUME IInv, NextPut PROVE IInv'
  OBVIOUS
<1>1. PICK q \in Queues :
        LET s   == ReadSynch[q]
            put == [vm EXCEPT !.contents[q] = @ + 1]
        IN \/ ~Overflows(vm, s) /\ Becomes(Signal(put, s))
           \/ Becomes(Aborts(TakesBack(DropStale(put, s), q)))
           \/ OutOfMemory(vm)
           \/ OutOfMemory(TakesBack(DropStale(put, s), q))
  BY NextPutIs
<1> DEFINE s    == ReadSynch[q]
           n    == vm.contents[q]
           put  == [vm EXCEPT !.contents[q] = @ + 1]
           left == DropStale(put, s)
           back == TakesBack(left, q)
<1>2. s \in Semaphores /\ n \in Nat
  BY QueueAssumption, AtRest DEF Typed
<1>3. put = [vm EXCEPT !.contents[q] = n + 1]
  OBVIOUS
<1>4. /\ Sound(put) /\ put.contents[q] = n + 1
      /\ put.linkedList = vm.linkedList /\ put.state = vm.state
      /\ put.waitingOn = vm.waitingOn /\ put.excess = vm.excess
  <2>1. Sound(put) /\ put.contents[q] = n + 1
    <3>1. PICK m : m = n + 1
      OBVIOUS
    <3>2. m \in Nat /\ put = [vm EXCEPT !.contents[q] = m]
      BY <1>2, <1>3, <3>1
    <3> HIDE DEF put, n
    <3> QED
      BY <3>1, <3>2, AtRest, ContentsKeep
  <2>2. /\ put.linkedList = vm.linkedList /\ put.state = vm.state
        /\ put.waitingOn = vm.waitingOn /\ put.excess = vm.excess
    BY AtRest DEF Typed, Fields
  <2> QED
    BY <2>1, <2>2
<1> HIDE DEF put, s
<1>5. Overflows(put, s) <=> Overflows(vm, s)
  BY <1>4 DEF Overflows, FirstWaiter, Waits
<1>6. ~ Overflows(vm, s) => Sound(Signal(put, s))
  BY <1>2, <1>4, <1>5, SignalSound
<1>7. Sound(left) /\ left.contents = put.contents
  BY <1>2, <1>4, SignalSound
<1> HIDE DEF left
<1>8. Sound(back)
  <2>1. back = [left EXCEPT !.contents[q] = n]
    <3>1. left.contents[q] - 1 = n
      BY <1>2, <1>4, <1>7
    <3>2. back = [left EXCEPT !.contents[q] = left.contents[q] - 1]
      BY DEF TakesBack
    <3> HIDE DEF back, n
    <3> QED
      BY <3>1, <3>2
  <2> HIDE DEF back
  <2> QED
    BY <1>2, <1>7, <2>1, ContentsKeep
<1> HIDE DEF back
<1>9. Sound(Aborts(back))
  BY <1>8, AbortsKeeps
<1>10. \/ ~Overflows(vm, s) /\ Becomes(Signal(put, s))
       \/ Becomes(Aborts(back))
       \/ OutOfMemory(vm)
       \/ OutOfMemory(back)
  BY <1>1 DEF s, put, left, back
<1> QED
  BY <1>6, <1>8, <1>9, <1>10, AtRest, BecomesKeeps, OutOfMemoryKeeps

LEMMA NextElementKeeps == IInv /\ NextElement => IInv'
<1> SUFFICES ASSUME IInv, NextElement PROVE IInv'
  OBVIOUS
<1>1. PICK q \in Queues :
        \/ /\ vm.excess[ReadSynch[q]] > 0 /\ vm.contents[q] > 0
           /\ Becomes(Takes(Answered(vm, ReadSynch[q]), q))
        \/ Becomes(WaitsForElement(vm, q))
        \/ OutOfMemory(Emptied(vm, q))
  BY DEF NextElement
<1> DEFINE s == ReadSynch[q]
<1>2. /\ s \in Semaphores /\ vm.contents[q] \in Nat /\ 0 \in 0 .. MaxExcess
      /\ vm.excess[s] \in 0 .. MaxExcess
      /\ q \in Frames
  BY QueueAssumption, ExcessAssumption, AtRest DEF Typed, Frames
<1> HIDE DEF s
<1>3. CASE /\ vm.excess[s] > 0 /\ vm.contents[q] > 0
           /\ Becomes(Takes(Answered(vm, s), q))
  <2> DEFINE u == Answered(vm, s)
             v == Takes(u, q)
  <2>1. vm.excess[s] - 1 \in 0 .. MaxExcess /\ vm.contents[q] - 1 \in Nat
    BY <1>2, <1>3, ExcessAssumption
  <2>2. u = [vm EXCEPT !.excess[s] = vm.excess[s] - 1]
    BY DEF Answered
  <2> HIDE DEF u
  <2>3. Sound(u) /\ u.contents = vm.contents
    BY <1>2, <2>1, <2>2, AtRest, ExcessKeeps
  <2>4. v = [u EXCEPT !.contents[q] = vm.contents[q] - 1]
    BY <2>3 DEF Takes
  <2> HIDE DEF v
  <2>5. Sound(v)
    BY <2>1, <2>3, <2>4, ContentsKeep
  <2> QED
    BY <1>3, <2>5, BecomesKeeps DEF u, v
<1>4. Sound(Emptied(vm, q))
  <2>1. Emptied(vm, q) = [vm EXCEPT !.excess[s] = 0]
    BY DEF Emptied, s
  <2> QED
    BY <1>2, <2>1, AtRest, ExcessKeeps
<1>5. Sound(WaitsForElement(vm, q))
  <2>1. WaitsForElement(vm, q) = WaitsOn(Emptied(vm, q), s, q)
    BY DEF WaitsForElement, s
  <2> QED
    BY <1>2, <1>4, <2>1, WaitsOnRuns
<1> QED
  BY <1>1, <1>3, <1>4, <1>5, BecomesKeeps, OutOfMemoryKeeps DEF s

LEMMA CodeKeeps == IInv /\ Code => IInv'
BY TroubleKeeps, ForkKeeps, YieldKeeps, WaitKeeps, SignalSemaphoreKeeps,
   SuspendKeeps, ResumeKeeps, TerminateKeeps, NextPutKeeps, NextElementKeeps
DEF Code

-----------------------------------------------------------------------------
\* A process runs again, begins or ends.

LEMMA ResumesKeeps == IInv /\ Resumes => IInv'
<1> SUFFICES ASSUME IInv, Resumes PROVE IInv'
  OBVIOUS
<1> DEFINE t == ReapDead(vm)
<1>1. Sound(t) /\ t.current = me
  BY AtRest, ReapDeadKeeps DEF me
<1>2. CASE Becomes(Continues(t))
  BY <1>1, <1>2, ContinuesRuns, BecomesKeeps
<1>3. CASE /\ vm.frame[me] \in Queues
           /\ OutOfMemory([Emptied(t, vm.frame[me]) EXCEPT !.frame[me] = "code"])
  <2> DEFINE q == vm.frame[me]
             u == Emptied(t, q)
  <2>1. ReadSynch[q] \in Semaphores /\ 0 \in 0 .. MaxExcess
    BY <1>3, QueueAssumption, ExcessAssumption
  <2>2. u = [t EXCEPT !.excess[ReadSynch[q]] = 0]
    BY DEF Emptied
  <2> HIDE DEF t, u
  <2>3. Sound(u)
    BY <1>1, <2>1, <2>2, ExcessKeeps
  <2>4. me \in Proc /\ "code" \in Frames
    BY AtRest DEF Frames
  <2>5. Sound([u EXCEPT !.frame[me] = "code"])
    BY <2>3, <2>4, FrameKeeps
  <2> QED
    BY <1>3, <2>5, OutOfMemoryKeeps DEF t, u
<1> QED
  BY <1>2, <1>3 DEF Resumes

LEMMA BeginsKeeps == IInv /\ Begins => IInv'
<1> SUFFICES ASSUME IInv, Begins PROVE IInv'
  OBVIOUS
<1> DEFINE t == ReapDead(vm)
<1>1. Sound(t) /\ me \in Proc /\ "code" \in Frames
  BY AtRest, ReapDeadKeeps DEF Frames
<1> HIDE DEF t
<1>2. Sound([t EXCEPT !.frame[me] = "code"])
  BY <1>1, FrameKeeps
<1> QED
  BY <1>2, BecomesKeeps DEF Begins, t

LEMMA EndBodyKeeps == IInv /\ EndBody => IInv'
<1> SUFFICES ASSUME IInv, NEW lost \in BOOLEAN, Ends(lost) PROVE IInv'
  BY DEF EndBody
<1> DEFINE p == me
           u == [vm EXCEPT !.state[p] = "Dead", !.myList[p] = Nil, !.heapMark = FALSE]
<1>1. Typed(u)
  BY AtRest, SMTT(30) DEF Typed, States, Fields
<1>2. /\ u.ready = vm.ready /\ u.quiescent = vm.quiescent
      /\ u.state = [vm.state EXCEPT ![vm.current] = "Dead"]
      /\ u.awaiting = vm.awaiting /\ u.waitingOn = vm.waitingOn
      /\ u.current = p
  BY AtRest DEF Typed, Fields, me
<1>3. vm' = SwitchAway(u, p)
  BY DEF Ends
<1> HIDE DEF u
<1>4. "Dead" \in States \ {"Ready", "Running"}
  BY DEF States
<1>5. Core(u) /\ Parked(u)
  BY <1>1, <1>2, <1>4, AtRest, StopParks
<1>6. Sound(vm')
  BY <1>2, <1>3, <1>5, SwitchAwayRuns
<1>7. failed' \subseteq Proc
  BY AtRest DEF Ends, IInv, TypeOK
<1>8. evalEnd' \in Outcomes
  BY DEF Ends, Answer, IInv, TypeOK, Outcomes
<1>9. UNCHANGED <<host, awaited, oomLeft, starved>>
  BY DEF Ends
<1> QED
  BY <1>6, <1>7, <1>8, <1>9 DEF IInv, TypeOK, AwaitsFiber, Sound, Core

-----------------------------------------------------------------------------
\* The calls of the host and its loops.

LEMMA ClearedSound ==
  ASSUME IInv
  PROVE  Sound(Cleared) /\ SamePlaces(vm, Cleared) /\ Cleared.current = me
<1>1. Typed(Cleared) /\ SamePlaces(vm, Cleared) /\ Cleared.current = me
  BY AtRest, SMTT(30) DEF Typed, Cleared, SamePlaces, Fields, me
<1> QED
  BY <1>1, AtRest, SoundDepends DEF me

LEMMA HostTyped ==
  /\ Idle \in HostRecords
  /\ \A entry \in Entries, clears \in BOOLEAN :
       Draining(entry, clears) \in HostRecords
  /\ \A entry \in Entries : Evaluating(entry) \in HostRecords
  /\ [Idle EXCEPT !.at = "await"] \in HostRecords
  /\ [Idle EXCEPT !.at = "closed"] \in HostRecords
  /\ Idle.at # "await" /\ [Idle EXCEPT !.at = "closed"].at = "closed"
  /\ \A closing \in BOOLEAN : Abandoning(closing) \in HostRecords
  /\ \A n \in 0 .. DrainRounds : IInv => Passing(n) \in HostRecords
  /\ Idle.at = "idle"
  /\ \A entry \in Entries, clears \in BOOLEAN :
       Draining(entry, clears).at = "drain"
  /\ \A entry \in Entries : Evaluating(entry).at = "eval"
  /\ \A closing \in BOOLEAN : Abandoning(closing).at = "abandon"
  /\ \A n \in 0 .. DrainRounds : Passing(n).at = "terminate"
<1>1. Idle \in HostRecords /\ Idle.at = "idle"
  BY LimitAssumption DEF Idle, HostRecords, HostStates
<1>2. ASSUME NEW entry \in Entries, NEW clears \in BOOLEAN
      PROVE  /\ Draining(entry, clears) \in HostRecords
             /\ Draining(entry, clears).at = "drain"
  <2>1. PICK n \in 0 .. DrainRounds : n = DrainRounds
    BY LimitAssumption
  <2> DEFINE h == [Idle EXCEPT !.at = "drain", !.entry = entry, !.rounds = n]
  <2>2. h \in HostRecords /\ h.at = "drain"
    BY <1>1 DEF HostRecords, HostStates
  <2>3. Draining(entry, clears) = [h EXCEPT !.clears = clears]
    BY <1>1, <2>1 DEF Draining, HostRecords
  <2> HIDE DEF h
  <2> QED
    BY <2>2, <2>3 DEF HostRecords
<1>3. /\ \A entry \in Entries : /\ Evaluating(entry) \in HostRecords
                                /\ Evaluating(entry).at = "eval"
      /\ [Idle EXCEPT !.at = "await"] \in HostRecords
      /\ [Idle EXCEPT !.at = "closed"] \in HostRecords
      /\ [Idle EXCEPT !.at = "closed"].at = "closed"
  BY <1>1 DEF Evaluating, HostRecords, HostStates
<1>4. \A closing \in BOOLEAN : /\ Abandoning(closing) \in HostRecords
                               /\ Abandoning(closing).at = "abandon"
  BY <1>1 DEF Abandoning, HostRecords, HostStates
<1>5. ASSUME NEW n \in 0 .. DrainRounds
      PROVE  /\ IInv => Passing(n) \in HostRecords
             /\ Passing(n).at = "terminate"
  <2>1. LiveFibers(vm) \ vm.terminated \in SUBSET Proc
    BY DEF LiveFibers, Live
  <2>2. PICK c \in Nat : c = Cardinality(LiveFibers(vm))
    BY LiveCount
  <2>3. PICK l \in SUBSET Proc : l = LiveFibers(vm) \ vm.terminated
    BY <2>1
  <2>4. Passing(n) = [Idle EXCEPT !.at = "terminate", !.pass = n,
                                  !.before = c, !.todo = l]
    BY <2>2, <2>3 DEF Passing
  <2> DEFINE h == [Idle EXCEPT !.at = "terminate", !.pass = n]
  <2>5. h \in HostRecords /\ h.at = "terminate"
    BY <1>1 DEF HostRecords, HostStates
  <2>6. Passing(n) = [h EXCEPT !.before = c, !.todo = l]
    BY <1>1, <2>4 DEF HostRecords
  <2> HIDE DEF h
  <2> QED
    BY <2>5, <2>6 DEF HostRecords
<1> QED
  BY <1>1, <1>2, <1>3, <1>4, <1>5

LEMMA HostNow == IInv => host \in HostRecords
BY DEF IInv, TypeOK, HostRecords

\* awaitEval starts, with a fiber that neither runs nor is in a list.
LEMMA AwaitEvalKeeps ==
  ASSUME IInv, NEW t, Sound(t), t.current = Base, NEW p \in Fibers,
         t.state[p] \notin {"Ready", "Waiting"}, AwaitEval(t, p)
  PROVE  IInv'
<1>1. Sound(vm')
  BY RunAwaitedRuns DEF AwaitEval
<1>2. host' \in HostRecords
  BY HostTyped DEF AwaitEval
<1>3. awaited' \in Fibers /\ awaited' \in Proc /\ evalEnd' \in Outcomes
  BY Names DEF AwaitEval, Outcomes
<1> QED
  BY <1>1, <1>2, <1>3
  DEF IInv, TypeOK, AwaitsFiber, AwaitEval, HostRecords, Sound, Core

LEMMA CallsKeep == IInv /\ Calls => IInv'
<1> SUFFICES ASSUME IInv, Calls PROVE IInv'
  OBVIOUS
<1>1. Sound(Cleared) /\ SamePlaces(vm, Cleared) /\ Cleared.current = me
  BY ClearedSound
<1>2. CASE Eval
  <2>1. PICK entry \in Entries : HostBecomes(Cleared, Evaluating(entry))
    BY <1>2 DEF Eval
  <2> QED
    BY <1>1, <2>1, HostTyped, HostBecomesKeeps
<1>3. CASE EvalLive
  <2>1. me = Base
    BY <1>3 DEF EvalLive, Called, InHost
  <2>2. CASE \/ HostBecomes(Cleared, Draining("eval", TRUE))
             \/ HostOutOfMemory(Cleared, Draining("eval", TRUE))
    <3>1. "eval" \in Entries
      BY DEF Entries
    <3> QED
      BY <1>1, <2>2, <3>1, HostTyped, HostBecomesKeeps, HostOutOfMemoryKeeps
  <2>3. ASSUME NEW p \in Fibers, IsNextPid(vm, p),
               AwaitEval([Cleared EXCEPT !.state[p] = "Suspended",
                                         !.evals = @ \cup {p}], p)
        PROVE  IInv'
    <3> DEFINE c == Cleared
               u == [c EXCEPT !.state[p] = "Suspended", !.evals = @ \cup {p}]
    <3>1. p \in Proc /\ p # me /\ c.state[p] = "None"
      BY <1>1, <2>1, <2>3, Names DEF IsNextPid, SamePlaces
    <3> HIDE DEF c
    <3>2. Typed(u)
      BY <1>1, <3>1, SMTT(30) DEF Sound, Core, Typed, States, Fields, c
    <3>3. /\ u.ready = c.ready /\ u.quiescent = c.quiescent
          /\ u.state = [c.state EXCEPT ![p] = "Suspended"]
          /\ u.awaiting = c.awaiting /\ u.waitingOn = c.waitingOn
          /\ u.current = c.current
      BY <1>1 DEF Sound, Core, Typed, Fields, c
    <3>4. AwaitEval(u, p)
      BY <2>3 DEF c
    <3> HIDE DEF u
    <3>5. Sound(u)
      BY <1>1, <3>1, <3>2, <3>3, OtherMoves DEF c
    <3>6. u.state[p] = "Suspended" /\ u.current = Base
      BY <1>1, <2>1, <3>1, <3>3 DEF Sound, Core, Typed, c
    <3> QED
      BY <3>4, <3>5, <3>6, AwaitEvalKeeps
  <2> QED
    BY <1>3, <2>2, <2>3 DEF EvalLive
<1>4. CASE Proceed
  <2>1. me = Base
    BY <1>4 DEF Proceed, Called, InHost
  <2>2. PICK p \in HaltedOf(vm) :
          AwaitEval([Cleared EXCEPT !.state[p] = "Suspended"], p)
    BY <1>4 DEF Proceed
  <2> DEFINE c == Cleared
             u == [c EXCEPT !.state[p] = "Suspended"]
  <2>3. p \in Fibers /\ p \in Proc /\ p # me /\ c.state[p] = "Halted"
    BY <1>1, <2>1, <2>2, AtRest DEF HaltedOf, SamePlaces, Fibers
  <2> HIDE DEF c
  <2>4. Typed(u)
    BY <1>1, <2>3, SMTT(30) DEF Sound, Core, Typed, States, Fields, c
  <2>5. /\ u.ready = c.ready /\ u.quiescent = c.quiescent
        /\ u.state = [c.state EXCEPT ![p] = "Suspended"]
        /\ u.awaiting = c.awaiting /\ u.waitingOn = c.waitingOn
        /\ u.current = c.current
    BY <1>1 DEF Sound, Core, Typed, Fields, c
  <2>6. AwaitEval(u, p)
    BY <2>2 DEF c
  <2> HIDE DEF u
  <2>7. Sound(u)
    BY <1>1, <2>3, <2>4, <2>5, OtherMoves DEF c
  <2>8. u.state[p] = "Suspended" /\ u.current = Base
    BY <1>1, <2>1, <2>3, <2>5 DEF Sound, Core, Typed, c
  <2> QED
    BY <2>3, <2>6, <2>7, <2>8, AwaitEvalKeeps
<1>5. CASE AbortHalted
  <2>1. PICK p \in HaltedOf(vm) :
          HostBecomes(Terminated(Cleared, p), Draining("eval", TRUE))
    BY <1>5 DEF AbortHalted
  <2>4. "eval" \in Entries
    BY DEF Entries
  <2>2. p \in Proc /\ p # Cleared.current
    BY <1>1, AtRest DEF HaltedOf
  <2>3. Sound(Terminated(Cleared, p))
    BY <1>1, <2>2, TerminatedRuns
  <2> QED
    BY <2>1, <2>3, <2>4, HostTyped, HostBecomesKeeps
<1>7. CASE Close
  BY <1>7, AtRest, HostTyped, HostBecomesKeeps DEF Close
<1> QED
  BY <1>2, <1>3, <1>4, <1>5, <1>7 DEF Calls

\* A loop of the base that changes one field of host.
LEMMA HostFields ==
  ASSUME IInv
  PROVE  /\ host.rounds > 0 => [host EXCEPT !.rounds = @ - 1] \in HostRecords
         /\ [host EXCEPT !.rounds = @ - 1].at = host.at
         /\ \A p \in Proc :
              LET rest == [host EXCEPT !.todo = @ \ {p}]
                  sent == [rest EXCEPT !.doing = p]
              IN /\ rest \in HostRecords /\ rest.at = host.at
                 /\ sent \in HostRecords /\ sent.at = host.at
         /\ \A b \in BOOLEAN :
              /\ [host EXCEPT !.doing = Nobody, !.ended = b] \in HostRecords
              /\ [host EXCEPT !.doing = Nobody, !.ended = b].at = host.at
         /\ [host EXCEPT !.at = "drain", !.rounds = DrainRounds] \in HostRecords
         /\ [host EXCEPT !.at = "drain", !.rounds = DrainRounds].at = "drain"
<1>1. host \in HostRecords
  BY HostNow
<1>2. /\ host.rounds > 0 => [host EXCEPT !.rounds = @ - 1] \in HostRecords
      /\ [host EXCEPT !.rounds = @ - 1].at = host.at
  <2>1. host.rounds > 0 => host.rounds - 1 \in 0 .. DrainRounds
    BY <1>1, LimitAssumption DEF HostRecords
  <2> QED
    BY <1>1, <2>1 DEF HostRecords
<1>4. ASSUME NEW p \in Proc
      PROVE  LET rest == [host EXCEPT !.todo = @ \ {p}]
                 sent == [rest EXCEPT !.doing = p]
             IN /\ rest \in HostRecords /\ rest.at = host.at
                /\ sent \in HostRecords /\ sent.at = host.at
  <2>1. PICK l \in SUBSET Proc : l = host.todo \ {p}
    BY <1>1 DEF HostRecords
  <2>2. [host EXCEPT !.todo = @ \ {p}] = [host EXCEPT !.todo = l]
    BY <2>1
  <2>3. /\ [host EXCEPT !.todo = l] \in HostRecords
        /\ [host EXCEPT !.todo = l].at = host.at
    BY <1>1 DEF HostRecords
  <2> DEFINE rest == [host EXCEPT !.todo = @ \ {p}]
  <2>4. rest \in HostRecords /\ rest.at = host.at
    BY <2>2, <2>3
  <2> HIDE DEF rest
  <2>5. [rest EXCEPT !.doing = p] \in HostRecords
    BY <2>4 DEF HostRecords
  <2>6. [rest EXCEPT !.doing = p].at = rest.at
    BY <2>4 DEF HostRecords
  <2> QED
    BY <2>4, <2>5, <2>6 DEF rest
<1>5. ASSUME NEW b \in BOOLEAN
      PROVE  /\ [host EXCEPT !.doing = Nobody, !.ended = b] \in HostRecords
             /\ [host EXCEPT !.doing = Nobody, !.ended = b].at = host.at
  BY <1>1 DEF HostRecords
<1>6. /\ [host EXCEPT !.at = "drain", !.rounds = DrainRounds] \in HostRecords
      /\ [host EXCEPT !.at = "drain", !.rounds = DrainRounds].at = "drain"
  <2>1. PICK n \in 0 .. DrainRounds : n = DrainRounds
    BY LimitAssumption
  <2>2. /\ [host EXCEPT !.at = "drain", !.rounds = n] \in HostRecords
        /\ [host EXCEPT !.at = "drain", !.rounds = n].at = "drain"
    BY <1>1 DEF HostRecords, HostStates
  <2> QED
    BY <2>1, <2>2
<1> QED
  BY <1>2, <1>4, <1>5, <1>6

LEMMA AwaitLoopKeeps == IInv /\ AwaitLoop => IInv'
<1> SUFFICES ASSUME IInv, AwaitLoop PROVE IInv'
  OBVIOUS
<1>1. me = Base /\ host.at = "await" /\ awaited \in Fibers
  BY AwaitLoopIs DEF InHost, IInv, AwaitsFiber
<1>2. CASE Becomes(YieldFrom(vm))
  BY <1>2, AtRest, YieldRuns, BecomesKeeps
<1>3. CASE HostOutOfMemory(vm, host)
  BY <1>3, AtRest, HostNow, HostOutOfMemoryKeeps
<1>4. CASE Becomes(EvalDeadlocks(vm))
  <2> DEFINE out == LeaveLists(vm, awaited)
             u   == [out EXCEPT !.deadlocked = @ \cup {awaited}]
  <2>1. awaited \in Proc /\ awaited # vm.current
    BY <1>1, Names DEF me
  <2>2. /\ Sound(out) /\ out.current = Base /\ out.state[awaited] = "Suspended"
    BY <1>1, <2>1, AtRest, LeaveListsSound DEF me
  <2> HIDE DEF out
  <2>3. Typed(u) /\ SamePlaces(out, u) /\ u.current = out.current
    BY <2>1, <2>2, SMTT(30) DEF Sound, Core, Typed, SamePlaces, Fields
  <2> HIDE DEF u
  <2>4. Sound(u) /\ u.current = Base /\ u.state[awaited] = "Suspended"
    BY <2>2, <2>3, SoundDepends DEF SamePlaces
  <2>5. Sound(RunAwaited(u, awaited))
    BY <1>1, <2>4, RunAwaitedRuns
  <2>6. EvalDeadlocks(vm) = RunAwaited(u, awaited)
    BY DEF EvalDeadlocks, u, out
  <2> QED
    BY <1>4, <2>5, <2>6, BecomesKeeps
<1> QED
  BY <1>2, <1>3, <1>4, AwaitLoopIs

\* The base forgets its abort at the end of a loop.
LEMMA ForgottenSound ==
  ASSUME IInv
  PROVE  Sound([vm EXCEPT !.aborting = @ \ {Base}])
<1> DEFINE u == [vm EXCEPT !.aborting = @ \ {Base}]
<1>1. Typed(u) /\ SamePlaces(vm, u) /\ u.current = vm.current
  BY AtRest, SMTT(30) DEF Typed, SamePlaces, Fields
<1> HIDE DEF u
<1> QED
  BY <1>1, AtRest, SoundDepends DEF u

LEMMA UnmarkedSound ==
  ASSUME IInv
  PROVE  Sound([vm EXCEPT !.heapMark = FALSE])
<1> DEFINE u == [vm EXCEPT !.heapMark = FALSE]
<1>1. Typed(u) /\ SamePlaces(vm, u) /\ u.current = vm.current
  BY AtRest, SMTT(30) DEF Typed, SamePlaces, Fields
<1> HIDE DEF u
<1> QED
  BY <1>1, AtRest, SoundDepends DEF u

LEMMA AwaitDoneKeeps == IInv /\ AwaitDone => IInv'
<1> SUFFICES ASSUME IInv, AwaitDone PROVE IInv'
  OBVIOUS
<1>1. Sound(vm')
  BY ForgottenSound DEF AwaitDone
<1>2. host' \in HostRecords /\ host'.at # "await"
  <2>1. "eval" \in Entries /\ Fails(Outcome) \in BOOLEAN
    BY AtRest DEF Entries, Fails, Sound, Core, Typed
  <2> QED
    BY <2>1, HostTyped DEF AwaitDone
<1>3. /\ awaited' \in Proc \cup {Nobody} /\ evalEnd' \in Outcomes
      /\ UNCHANGED <<failed, oomLeft, starved>>
  BY DEF AwaitDone, IInv, TypeOK, Outcome, Outcomes
<1> QED
  BY <1>1, <1>2, <1>3 DEF IInv, TypeOK, AwaitsFiber, HostRecords, Sound, Core

LEMMA TerminateNextKeeps == IInv /\ TerminateNext => IInv'
<1> SUFFICES ASSUME IInv, TerminateNext PROVE IInv'
  OBVIOUS
<1> DEFINE rest(p) == [host EXCEPT !.todo = @ \ {p}]
           sent(p) == [rest(p) EXCEPT !.doing = p]
<1>1. host.at = "terminate" /\ me = Base
  BY TerminateNextIs DEF InHost
<1>2. PICK p \in host.todo :
        \/ HostBecomes(vm, rest(p))
        \/ /\ ~ Over(p)
           /\ GivesBack(p) => ~Overflows(vm, vm.signaledBy[p])
           /\ HostBecomes(Terminated(Relieved(p), p), sent(p))
        \/ /\ GivesBack(p)
           /\ HostBecomes(DropStale(vm, vm.signaledBy[p]), sent(p))
        \/ /\ GivesBack(p)
           /\ HostOutOfMemory(DropStale(vm, vm.signaledBy[p]), sent(p))
  BY TerminateNextIs
<1>3. p \in Proc
  BY HostNow DEF HostRecords
<1>4. /\ rest(p) \in HostRecords /\ rest(p).at = "terminate"
      /\ sent(p) \in HostRecords /\ sent(p).at = "terminate"
  BY <1>1, <1>3, HostFields
<1> HIDE DEF rest, sent
<1>5. CASE HostBecomes(vm, rest(p))
  BY <1>4, <1>5, AtRest, HostBecomesKeeps
<1>6. CASE /\ ~ Over(p)
           /\ GivesBack(p) => ~Overflows(vm, vm.signaledBy[p])
           /\ HostBecomes(Terminated(Relieved(p), p), sent(p))
  <2>1. p # me
    BY <1>1, <1>6 DEF Over, LiveFibers
  <2>2. Sound(Relieved(p)) /\ Relieved(p).current = me
    BY <1>3, <1>6, RelievedSound
  <2>3. Sound(Terminated(Relieved(p), p))
    BY <1>3, <2>1, <2>2, TerminatedRuns
  <2> QED
    BY <1>4, <1>6, <2>3, HostBecomesKeeps
<1>7. CASE /\ GivesBack(p)
           /\ HostBecomes(DropStale(vm, vm.signaledBy[p]), sent(p))
  BY <1>3, <1>4, <1>7, GivesBackSound, HostBecomesKeeps
<1>8. CASE /\ GivesBack(p)
           /\ HostOutOfMemory(DropStale(vm, vm.signaledBy[p]), sent(p))
  BY <1>3, <1>4, <1>8, GivesBackSound, HostOutOfMemoryKeeps
<1> QED
  BY <1>2, <1>5, <1>6, <1>7, <1>8

LEMMA AbandonNextKeeps == IInv /\ AbandonNext => IInv'
<1> SUFFICES ASSUME IInv, AbandonNext PROVE IInv'
  OBVIOUS
<1>1. PICK p \in LiveFibers(vm) :
        Becomes(IF vm.frame[p] = "new"
                  THEN ReapDead([Abandoned(vm, p) EXCEPT !.state[p] = "Dead"])
                  ELSE RunAwaited(Abandoned(vm, p), p))
  BY DEF AbandonNext
<1> DEFINE left == LeaveLists(vm, p)
           out  == Abandoned(vm, p)
           u    == [out EXCEPT !.state[p] = "Dead"]
<1>2. me = Base /\ vm.current = Base
  BY DEF AbandonNext, InHost, me
<1>3. p \in Fibers /\ p \in Proc /\ p # vm.current
  BY <1>2, Names DEF LiveFibers, Live, Fibers
<1>4. Sound(left) /\ left.current = vm.current /\ left.state[p] = "Suspended"
  BY <1>3, AtRest, LeaveListsSound
<1>5. out = [left EXCEPT !.abandoned = @ \cup {p}]
  BY DEF Abandoned
<1> HIDE DEF left, out
<1>6. Typed(out) /\ SamePlaces(left, out) /\ out.current = left.current
  BY <1>3, <1>4, <1>5, SMTT(30) DEF Sound, Core, Typed, SamePlaces, Fields
<1>7. /\ Sound(out) /\ out.current = Base /\ out.state[p] = "Suspended"
  BY <1>2, <1>4, <1>6, SoundDepends DEF SamePlaces
<1>8. CASE Becomes(ReapDead(u))
  <2>1. Typed(u)
    BY <1>3, <1>7, SMTT(30) DEF Sound, Core, Typed, States, Fields
  <2>2. /\ u.ready = out.ready /\ u.quiescent = out.quiescent
        /\ u.state = [out.state EXCEPT ![p] = "Dead"]
        /\ u.awaiting = out.awaiting /\ u.waitingOn = out.waitingOn
        /\ u.current = out.current
    BY <1>7 DEF Sound, Core, Typed, Fields
  <2> HIDE DEF u
  <2>3. Sound(u)
    BY <1>2, <1>3, <1>7, <2>1, <2>2, OtherMoves
  <2> QED
    BY <1>8, <2>3, ReapDeadKeeps, BecomesKeeps
<1>9. CASE Becomes(RunAwaited(out, p))
  BY <1>3, <1>7, <1>9, RunAwaitedRuns, BecomesKeeps
<1> QED
  BY <1>1, <1>8, <1>9 DEF out

LEMMA HostLoopsKeep == IInv /\ HostLoops => IInv'
<1> SUFFICES ASSUME IInv, HostLoops PROVE IInv'
  OBVIOUS
<1>1. Sound(vm) /\ Sound(Cleared) /\ host \in HostRecords
  BY AtRest, ClearedSound, HostNow
<1>2. CASE EvalEnds
  <2>1. Sound([vm EXCEPT !.aborting = @ \ {Base}])
    BY ForgottenSound
  <2>2. Entries = {"eval", "test", "send"}
    BY DEF Entries
  <2>3. CASE \E outcome \in {"Finished", "Failed"} :
               HostBecomes([vm EXCEPT !.aborting = @ \ {Base}],
                           Draining("eval", Fails(outcome)))
    <3>1. \A outcome \in {"Finished", "Failed"} : Fails(outcome) \in BOOLEAN
      BY <1>1 DEF Fails, Sound, Core, Typed
    <3> QED
      BY <2>1, <2>2, <2>3, <3>1, HostTyped, HostBecomesKeeps
  <2>4. CASE \/ HostBecomes(Cleared, Draining("test", FALSE))
             \/ HostBecomes(Cleared, Idle)
    BY <1>1, <2>2, <2>4, HostTyped, HostBecomesKeeps
  <2> QED
    BY <1>2, <2>3, <2>4 DEF EvalEnds
<1>3. CASE AwaitLoop
  BY <1>3, AwaitLoopKeeps
<1>4. CASE AwaitDone
  BY <1>4, AwaitDoneKeeps
<1>5. CASE Drain
  <2> DEFINE rest == [host EXCEPT !.rounds = @ - 1]
  <2>1. rest \in HostRecords /\ rest.at = host.at
    BY <1>5, HostFields, DrainIs
  <2>2. HostBecomes(YieldFrom(vm), rest) \/ HostOutOfMemory(vm, rest)
    BY <1>5, DrainIs
  <2> HIDE DEF rest
  <2>3. Sound(YieldFrom(vm))
    BY <1>1, YieldRuns
  <2> QED
    BY <1>1, <2>1, <2>2, <2>3, HostBecomesKeeps, HostOutOfMemoryKeeps
<1>6. CASE DrainEnds
  <2>1. Sound([vm EXCEPT !.heapMark = FALSE])
    BY UnmarkedSound
  <2> QED
    BY <1>1, <1>6, <2>1, HostTyped, HostBecomesKeeps DEF DrainEnds
<1>13. CASE TerminateAll
  <2>1. CASE HostBecomes(vm, Abandoning(FALSE))
    BY <1>1, <2>1, HostTyped, HostBecomesKeeps
  <2>2. CASE DrainRounds # 0 /\ HostBecomes(vm, Passing(1))
    <3>1. 1 \in 0 .. DrainRounds
      BY <2>2, LimitAssumption
    <3> QED
      BY <1>1, <2>2, <3>1, HostTyped, HostBecomesKeeps
  <2> QED
    BY <1>13, <2>1, <2>2 DEF TerminateAll
<1>7. CASE TerminateNext
  BY <1>7, TerminateNextKeeps
<1>8. CASE TerminatedNext
  <2> DEFINE b == host.ended \/ Over(host.doing)
             h == [host EXCEPT !.doing = Nobody, !.ended = b]
  <2>1. b \in BOOLEAN
    BY DEF Over
  <2>2. HostBecomes(vm, h)
    BY <1>8 DEF TerminatedNext
  <2>3. h \in HostRecords /\ h.at = host.at
    BY <2>1, HostFields
  <2> HIDE DEF h
  <2> QED
    BY <1>1, <2>2, <2>3, HostBecomesKeeps
<1>9. CASE PassDrains
  BY <1>1, <1>9, HostFields, HostBecomesKeeps DEF PassDrains
<1>10. CASE PassEnds
  <2>1. CASE HostBecomes(vm, Abandoning(FALSE))
    BY <1>1, <2>1, HostTyped, HostBecomesKeeps
  <2>2. CASE host.pass # DrainRounds /\ HostBecomes(vm, Passing(host.pass + 1))
    <3>1. host.pass + 1 \in 0 .. DrainRounds
      BY <1>1, <2>2, LimitAssumption DEF HostRecords
    <3> QED
      BY <1>1, <2>2, <3>1, HostTyped, HostBecomesKeeps
  <2> QED
    BY <1>10, <2>1, <2>2 DEF PassEnds
<1>11. CASE AbandonNext
  BY <1>11, AbandonNextKeeps
<1>12. CASE AbandonEnds
  <2> DEFINE u == [vm EXCEPT !.aborting = @ \ {Base}]
             h == IF host.closing THEN [Idle EXCEPT !.at = "closed"] ELSE Idle
  <2>1. Sound(u)
    BY ForgottenSound
  <2>2. h \in HostRecords /\ h.at # "await"
    BY HostTyped
  <2>3. HostBecomes(u, h)
    BY <1>12 DEF AbandonEnds
  <2> HIDE DEF u, h
  <2> QED
    BY <2>1, <2>2, <2>3, HostBecomesKeeps
<1> QED
  BY <1>2, <1>3, <1>4, <1>5, <1>6, <1>7, <1>8, <1>9, <1>10, <1>11, <1>12, <1>13
  DEF HostLoops

-----------------------------------------------------------------------------
\* The theorems.

LEMMA StepIInv == IInv /\ [Next]_vars => IInv'
<1> SUFFICES ASSUME IInv, [Next]_vars PROVE IInv'
  OBVIOUS
<1>1. CASE Code
  BY <1>1, CodeKeeps
<1>2. CASE Resumes
  BY <1>2, ResumesKeeps
<1>3. CASE Begins
  BY <1>3, BeginsKeeps
<1>4. CASE EndBody
  BY <1>4, EndBodyKeeps
<1>5. CASE Calls
  BY <1>5, CallsKeep
<1>6. CASE HostLoops
  BY <1>6, HostLoopsKeep
<1>7. CASE UNCHANGED vars
  BY <1>7 DEF vars, IInv, TypeOK, AwaitsFiber, Sound, Core, Typed, Queued,
              WaitsForOne, OneRuns
<1>8. CASE Closed
  BY <1>7, <1>8 DEF Closed
<1> QED
  BY <1>1, <1>2, <1>3, <1>4, <1>5, <1>6, <1>7, <1>8 DEF Next

LEMMA Invariance == Spec => []IInv
BY InitIInv, StepIInv, PTL DEF Spec

\* Every state of the scheduler is well typed: whatever the programs, no count
\* leaves its range, excessSignals never passes kSmiMax, and no pointer to a
\* process is anything but one.
THEOREM TypeCorrect == Spec => []TypeOK
<1>1. IInv => TypeOK
  BY DEF IInv
<1> QED
  BY <1>1, Invariance, PTL

\* The ready queue holds the ready processes, each once, and Smalltalk sees the
\* same queue (Scheduler::enqueue, leaveLists, takeNext).
THEOREM QueueIsExact == Spec => []QueueExact
<1>1. IInv => QueueExact
  BY DEF IInv, Sound, Core, Queued, QueueExact
<1> QED
  BY <1>1, Invariance, PTL

\* Between two steps one process runs, the current one, and it waits for nobody
\* (Scheduler::switchTo, block).
THEOREM OneProcessRuns == Spec => []OneRunning
<1>1. IInv => OneRunning
  <2> SUFFICES ASSUME IInv PROVE OneRunning
    OBVIOUS
  <2>1. \A p \in Proc : vm.state[p] = "Running" <=> p = me
    BY DEF IInv, Sound, OneRuns, me
  <2>2. me \notin vm.awaiting
    BY AtRest DEF Core, WaitsForOne
  <2> QED
    BY <2>1, <2>2 DEF OneRunning
<1> QED
  BY <1>1, Invariance, PTL
-------------------------------------------------------------------------------
(***************************************************************************)
(* Where every process of the scheduler is: each Semaphore's linkedList    *)
(* holds its waiters and no one else, no pointer outlives its process, no  *)
(* waiter sleeps beside a signal, and a halted process stays halted until  *)
(* it is resumed or ended.  IPlaces is IInv with Places added: what        *)
(* LinkedLists, the pointers resumeTo and the states say of each other.    *)
(***************************************************************************)

\* The Processes that are not of a loaded image; those have no record here, so
\* that a signal drops them.
Natives == Proc \ Strangers

BaseStates == {"Ready", "Running", "Waiting", "Suspended"}

\* A linkedList holds those that wait on its Semaphore, once; their myList says
\* so, and there is no signal they could take.
Listed(t) ==
  /\ \A s \in Semaphores : IsInjective(t.linkedList[s])
  /\ \A s \in Semaphores, p \in Natives :
       /\ Waits(t, p, s) <=> p \in ToSet(t.linkedList[s])
       /\ t.myList[p] = s <=> Waits(t, p, s)
  /\ \A s \in Semaphores :
       t.excess[s] > 0 => \A p \in Natives : ~ Waits(t, p, s)

\* Whoever is to return to a process returns to one that waits for that, and
\* nobody else will.
Pointed(t) ==
  /\ \A p \in Proc : t.resumeTo[p] # Nobody => t.resumeTo[p] \in t.awaiting
  /\ \A p, o \in Proc :
       t.resumeTo[p] # Nobody /\ t.resumeTo[p] = t.resumeTo[o] => p = o

\* The base never ends nor halts; what halted has begun.
Ranked(t) ==
  /\ \A p \in Strangers : t.state[p] = "Gone"
  /\ t.state[Base] \in BaseStates
  /\ \A p \in Proc : t.state[p] = "Halted" => t.frame[p] # "new"

Places(t) == Listed(t) /\ Pointed(t) /\ Ranked(t)

\* What an operation leaves as it is: the halted processes but those of X, the
\* ended ones, and the base among those that may run.
Kept(t, u, X) == \A o \in Proc :
  /\ t.state[o] = "Gone" => u.state[o] = "Gone"
  /\ t.state[o] = "Halted" /\ o \notin X => u.state[o] = "Halted"
  /\ u.state[o] = "Halted" => t.state[o] = "Halted" /\ u.frame[o] = t.frame[o]
  /\ o = Base /\ t.state[o] \in BaseStates => u.state[o] \in BaseStates

-----------------------------------------------------------------------------
\* The parts of Places, one change at a time.

LEMMA KeptRanked ==
  ASSUME NEW t, NEW u, NEW X, Ranked(t), Kept(t, u, X)
  PROVE  Ranked(u)
BY Names, LimitAssumption DEF Ranked, Kept

LEMMA KeptThrough ==
  ASSUME NEW t, NEW u, NEW v, NEW X, Kept(t, u, X), Kept(u, v, X)
  PROVE  Kept(t, v, X)
BY DEF Kept

LEMMA KeptMore ==
  ASSUME NEW t, NEW u, NEW X, Kept(t, u, {})
  PROVE  Kept(t, u, X)
BY DEF Kept

\* Nothing that Listed is about changes.
LEMMA ListedDepends ==
  ASSUME NEW t, NEW u, Listed(t), u.state = t.state,
         u.waitingOn = t.waitingOn, u.linkedList = t.linkedList,
         u.myList = t.myList, u.excess = t.excess
  PROVE  Listed(u)
BY DEF Listed, Waits

\* A process that waits for no Semaphore changes its state.
LEMMA ListedMoves ==
  ASSUME NEW t, NEW u, Listed(t), NEW p \in Proc, t.waitingOn[p] = Nil,
         \A o \in Proc : o # p => u.state[o] = t.state[o],
         u.waitingOn = t.waitingOn, u.linkedList = t.linkedList,
         u.excess = t.excess,
         \A o \in Proc : \/ u.myList[o] = t.myList[o]
                         \/ o = p /\ u.myList[o] \in {Nil, Quiescent}
  PROVE  Listed(u)
<1>1. \A s \in Semaphores : s # Nil /\ s # Quiescent
  BY NameAssumption
<1>2. ASSUME NEW s \in Semaphores, NEW o \in Natives
      PROVE  /\ Waits(u, o, s) <=> Waits(t, o, s)
             /\ u.myList[o] = s <=> t.myList[o] = s
  <2>1. o \in Proc
    BY DEF Natives
  <2>2. CASE o # p
    BY <2>1, <2>2 DEF Waits
  <2>3. CASE o = p
    <3>1. ~ Waits(u, o, s) /\ ~ Waits(t, o, s)
      BY <1>1, <2>3 DEF Waits
    <3>2. t.myList[o] # s
      BY <3>1 DEF Listed
    <3> QED
      BY <1>1, <2>1, <2>3, <3>1, <3>2
  <2> QED
    BY <2>2, <2>3
<1> QED
  BY <1>2 DEF Listed

LEMMA PointedDepends ==
  ASSUME NEW t, NEW u, Pointed(t), u.awaiting = t.awaiting,
         u.resumeTo = t.resumeTo
  PROVE  Pointed(u)
BY DEF Pointed

-----------------------------------------------------------------------------
\* The helpers of the process table.

\* The fields of the table after LeaveLists.
LEMMA LeaveListsFields ==
  ASSUME NEW t, Core(t), NEW p \in Proc
  PROVE  LET u == LeaveLists(t, p) IN
         /\ u.myList = [t.myList EXCEPT ![p] = Nil]
         /\ u.excess = t.excess /\ u.frame = t.frame
         /\ t.state[p] # "Waiting" =>
              /\ u.linkedList = t.linkedList /\ u.waitingOn = t.waitingOn
              /\ u.awaiting = t.awaiting /\ u.resumeTo = t.resumeTo
         /\ t.state[p] = "Waiting" =>
              /\ u.linkedList = [s \in Semaphores |->
                                   IF s = t.waitingOn[p]
                                     THEN RemoveFirst(t.linkedList[s], p)
                                     ELSE t.linkedList[s]]
              /\ u.waitingOn = [t.waitingOn EXCEPT ![p] = Nil]
              /\ u.awaiting = t.awaiting \ {p}
              /\ u.resumeTo = [o \in Proc |-> IF o \in Returning(t, p) THEN Nobody
                                                                     ELSE t.resumeTo[o]]
<1> DEFINE u == LeaveLists(t, p)
<1>1. CASE t.state[p] = "Ready"
  <2>1. u = [LeaveReady(t, p) EXCEPT !.myList[p] = Nil, !.state[p] = "Suspended"]
    BY <1>1 DEF LeaveLists
  <2> QED
    BY <1>1, <2>1 DEF Core, Typed, LeaveReady, Fields
<1>2. CASE t.state[p] = "Waiting"
  <2>1. u = [LeaveWait(t, p) EXCEPT !.myList[p] = Nil, !.state[p] = "Suspended"]
    BY <1>2 DEF LeaveLists
  <2> QED
    BY <1>2, <2>1 DEF Core, Typed, LeaveWait, Fields
<1>3. CASE t.state[p] \notin {"Ready", "Waiting"}
  <2>1. u = [t EXCEPT !.myList[p] = Nil, !.state[p] = "Suspended"]
    BY <1>3 DEF LeaveLists
  <2> QED
    BY <1>3, <2>1 DEF Core, Typed, Fields
<1> QED
  BY <1>1, <1>2, <1>3

\* leaveLists takes a process out of the linkedList it waits in and out of the
\* pointers of those that would return to it.
LEMMA LeaveListsPlaces ==
  ASSUME NEW t, Core(t), Places(t), NEW p \in Proc,
         t.state[p] # "Gone"
  PROVE  /\ Places(LeaveLists(t, p))
         /\ Kept(t, LeaveLists(t, p), {p})
         /\ t.state[p] # "Halted" => Kept(t, LeaveLists(t, p), {})
<1> DEFINE u == LeaveLists(t, p)
<1>1. /\ Core(u)
      /\ \A o \in Proc : u.state[o] = IF o = p THEN "Suspended" ELSE t.state[o]
      /\ u.frame = t.frame
  BY LeaveListsKeeps
<1>2. /\ u.myList = [t.myList EXCEPT ![p] = Nil] /\ u.excess = t.excess
      /\ t.state[p] # "Waiting" =>
              /\ u.linkedList = t.linkedList /\ u.waitingOn = t.waitingOn
              /\ u.awaiting = t.awaiting /\ u.resumeTo = t.resumeTo
      /\ t.state[p] = "Waiting" =>
              /\ u.linkedList = [s \in Semaphores |->
                                   IF s = t.waitingOn[p]
                                     THEN RemoveFirst(t.linkedList[s], p)
                                     ELSE t.linkedList[s]]
              /\ u.waitingOn = [t.waitingOn EXCEPT ![p] = Nil]
              /\ u.awaiting = t.awaiting \ {p}
              /\ u.resumeTo = [o \in Proc |-> IF o \in Returning(t, p) THEN Nobody
                                                                     ELSE t.resumeTo[o]]
  BY LeaveListsFields
<1> HIDE DEF u
<1>3. Kept(t, u, {p}) /\ (t.state[p] # "Halted" => Kept(t, u, {}))
  BY <1>1 DEF Kept, BaseStates
<1>4. \A o \in Proc : u.myList[o] = IF o = p THEN Nil ELSE t.myList[o]
  BY <1>2 DEF Core, Typed
<1>5. CASE t.state[p] # "Waiting"
  <2>1. t.waitingOn[p] = Nil
    BY <1>5 DEF Core, WaitsForOne
  <2>2. Listed(u)
    <3>1. /\ \A o \in Proc : o # p => u.state[o] = t.state[o]
          /\ \A o \in Proc : \/ u.myList[o] = t.myList[o]
                             \/ o = p /\ u.myList[o] \in {Nil, Quiescent}
      BY <1>1, <1>4
    <3>2. /\ u.waitingOn = t.waitingOn /\ u.linkedList = t.linkedList
          /\ u.excess = t.excess
      BY <1>2, <1>5
    <3> QED
      BY <2>1, <3>1, <3>2, ListedMoves DEF Places
  <2>3. Pointed(u)
    <3>1. u.awaiting = t.awaiting /\ u.resumeTo = t.resumeTo
      BY <1>2, <1>5
    <3> QED
      BY <3>1, PointedDepends DEF Places
  <2> QED
    BY <1>3, <2>2, <2>3, KeptRanked DEF Places, u
<1>6. CASE t.state[p] = "Waiting"
  <2>0. p \in Natives
    BY <1>6 DEF Places, Ranked, Natives
  <2>1. \A o \in Proc : u.waitingOn[o] = IF o = p THEN Nil ELSE t.waitingOn[o]
    BY <1>2, <1>6 DEF Core, Typed
  <2>2. ASSUME NEW s \in Semaphores
        PROVE  /\ IsInjective(u.linkedList[s])
               /\ \A x : x \in ToSet(u.linkedList[s]) <=>
                           x \in ToSet(t.linkedList[s]) /\ x # p
    <3>1. /\ t.linkedList[s] \in Seq(Proc) /\ IsInjective(t.linkedList[s])
      BY DEF Core, Typed, Places, Listed
    <3>2. CASE s = t.waitingOn[p]
      <4>1. u.linkedList[s] = RemoveFirst(t.linkedList[s], p)
        BY <1>2, <1>6, <3>2
      <4> QED
        BY <3>1, <4>1, RemoveFirstTakesOut
    <3>3. CASE s # t.waitingOn[p]
      <4>1. u.linkedList[s] = t.linkedList[s]
        BY <1>2, <1>6, <3>3
      <4>2. p \notin ToSet(t.linkedList[s])
        BY <2>0, <3>3 DEF Places, Listed, Waits
      <4> QED
        BY <3>1, <4>1, <4>2
    <3> QED
      BY <3>2, <3>3
  <2>3. ASSUME NEW s \in Semaphores, NEW o \in Natives
        PROVE  /\ Waits(u, o, s) <=> Waits(t, o, s) /\ o # p
               /\ u.myList[o] = s <=> t.myList[o] = s /\ o # p
    <3>1. s # Nil /\ o \in Proc
      BY Names DEF Natives
    <3> QED
      BY <1>1, <1>4, <2>1, <3>1 DEF Waits
  <2>4. Listed(u)
    BY <1>2, <2>2, <2>3 DEF Places, Listed
  <2>5. Pointed(u)
    <3>1. ASSUME NEW o \in Proc, u.resumeTo[o] # Nobody
          PROVE  u.resumeTo[o] = t.resumeTo[o] /\ t.resumeTo[o] # p
      <4>1. o \notin Returning(t, p) /\ u.resumeTo[o] = t.resumeTo[o]
        BY <1>2, <1>6, <3>1
      <4>2. t.resumeTo[o] = p => p \in t.awaiting
        BY <3>1, <4>1 DEF Places, Pointed
      <4> QED
        BY <4>1, <4>2 DEF Returning
    <3>2. u.awaiting = t.awaiting \ {p}
      BY <1>2, <1>6
    <3> QED
      BY <3>1, <3>2 DEF Places, Pointed
  <2> QED
    BY <1>3, <2>4, <2>5, KeptRanked DEF Places, u
<1> QED
  BY <1>5, <1>6

\* A process in no list goes to the end of the ready queue.
LEMMA EnqueuePlaces ==
  ASSUME NEW t, Core(t), Places(t), NEW p \in Proc,
         t.state[p] \notin {"Ready", "Gone", "Halted"}, p \notin t.awaiting,
         t.waitingOn[p] = Nil
  PROVE  Places(Enqueue(t, p)) /\ Kept(t, Enqueue(t, p), {})
<1> DEFINE u == Enqueue(t, p)
<1>1. \A o \in Proc : u.state[o] = IF o = p THEN "Ready" ELSE t.state[o]
  BY EnqueueKeeps
<1>2. /\ u.myList = [t.myList EXCEPT ![p] = Quiescent] /\ u.excess = t.excess
      /\ u.linkedList = t.linkedList /\ u.waitingOn = t.waitingOn
      /\ u.awaiting = t.awaiting /\ u.resumeTo = t.resumeTo /\ u.frame = t.frame
  BY DEF Core, Typed, Enqueue, Pushed, Fields
<1> HIDE DEF u
<1>3. /\ \A o \in Proc : o # p => u.state[o] = t.state[o]
      /\ \A o \in Proc : \/ u.myList[o] = t.myList[o]
                         \/ o = p /\ u.myList[o] \in {Nil, Quiescent}
  BY <1>1, <1>2 DEF Core, Typed
<1>4. Listed(u)
  BY <1>2, <1>3, ListedMoves DEF Places
<1>5. Pointed(u)
  BY <1>2, PointedDepends DEF Places
<1>6. Kept(t, u, {})
  BY <1>1, <1>2 DEF Kept, BaseStates
<1> QED
  BY <1>4, <1>5, <1>6, KeptRanked DEF Places, u

\* switchTo, to a process in no list.
LEMMA SwitchToPlaces ==
  ASSUME NEW t, Core(t), Places(t), NEW p \in Proc,
         t.state[p] \notin {"Ready", "Waiting", "Gone", "Halted"}
  PROVE  /\ Places(SwitchTo(t, p)) /\ Kept(t, SwitchTo(t, p), {})
         /\ \A o \in Proc : SwitchTo(t, p).state[o] =
                              IF o = p THEN "Running" ELSE t.state[o]
<1> DEFINE u == SwitchTo(t, p)
<1>1. /\ u.state = [t.state EXCEPT ![p] = "Running"]
      /\ u.myList = [t.myList EXCEPT ![p] = Nil] /\ u.excess = t.excess
      /\ u.linkedList = t.linkedList /\ u.waitingOn = t.waitingOn
      /\ u.awaiting = t.awaiting /\ u.resumeTo = t.resumeTo /\ u.frame = t.frame
  BY DEF Core, Typed, SwitchTo, SwitchMarks, Fields
<1> HIDE DEF u
<1>2. \A o \in Proc : u.state[o] = IF o = p THEN "Running" ELSE t.state[o]
  BY <1>1 DEF Core, Typed
<1>3. /\ \A o \in Proc : o # p => u.state[o] = t.state[o]
      /\ \A o \in Proc : \/ u.myList[o] = t.myList[o]
                         \/ o = p /\ u.myList[o] \in {Nil, Quiescent}
  BY <1>1, <1>2 DEF Core, Typed
<1>4. Listed(u)
  <2>1. t.waitingOn[p] = Nil
    BY DEF Core, WaitsForOne
  <2> QED
    BY <1>1, <1>3, <2>1, ListedMoves DEF Places
<1>5. Pointed(u)
  BY <1>1, PointedDepends DEF Places
<1>6. Kept(t, u, {})
  BY <1>1, <1>2 DEF Kept, BaseStates
<1> QED
  BY <1>2, <1>4, <1>5, <1>6, KeptRanked DEF Places, u

\* takeNext: the process to switch to is in no list any more, and nobody else
\* would return to it.
LEMMA TakeNextPlaces ==
  ASSUME NEW t, Core(t), Parked(t), Places(t), NEW p \in Proc
  PROVE  /\ Places(TakeNext(t, p)) /\ Kept(t, TakeNext(t, p), {})
         /\ \A o \in Proc : TakeNext(t, p).state[o] =
               IF o = NextOf(t, p) THEN "Suspended" ELSE t.state[o]
         /\ NextOf(t, p) # Nobody =>
               /\ NextOf(t, p) \in Proc
               /\ t.state[NextOf(t, p)] \in {"Ready", "Waiting"}
<1> DEFINE to   == Returnee(t, p)
           left == [t EXCEPT !.resumeTo[p] = Nobody]
           u    == TakeNext(t, p)
<1>1. /\ Typed(left) /\ left.state = t.state /\ left.ready = t.ready
      /\ left.quiescent = t.quiescent /\ left.awaiting = t.awaiting
      /\ left.waitingOn = t.waitingOn /\ left.current = t.current
      /\ left.linkedList = t.linkedList /\ left.myList = t.myList
      /\ left.excess = t.excess /\ left.frame = t.frame
      /\ left.resumeTo = [t.resumeTo EXCEPT ![p] = Nobody]
  BY SMTT(30) DEF Core, Typed, Fields
<1> HIDE DEF left
<1>2. Core(left) /\ Parked(left)
  BY <1>1, CoreDepends
<1>0. \A o \in Proc : left.resumeTo[o] = IF o = p THEN Nobody ELSE t.resumeTo[o]
  BY <1>1 DEF Core, Typed
<1>3. Listed(left) /\ Ranked(left) /\ Pointed(left) /\ Kept(t, left, {})
  <2>1. Listed(left)
    BY <1>1, ListedDepends DEF Places
  <2>2. Pointed(left)
    BY <1>0, <1>1 DEF Places, Pointed
  <2>3. Kept(t, left, {})
    BY <1>1 DEF Kept
  <2> QED
    BY <2>1, <2>2, <2>3, KeptRanked DEF Places
<1>4. /\ to \in Proc \cup {Nobody}
      /\ to # Nobody => /\ to \in t.awaiting /\ t.state[to] = "Waiting"
                        /\ t.waitingOn[to] = Nil /\ to = t.resumeTo[p]
  BY DEF Core, Typed, Returnee, WaitsForOne
<1> HIDE DEF to
<1>5. CASE to # Nobody
  <2>1. u = [left EXCEPT !.awaiting = @ \ {to}, !.state[to] = "Suspended"]
    BY <1>5 DEF TakeNext, left, to
  <2>2. /\ u.state = [left.state EXCEPT ![to] = "Suspended"]
        /\ u.awaiting = left.awaiting \ {to} /\ u.waitingOn = left.waitingOn
        /\ u.linkedList = left.linkedList /\ u.myList = left.myList
        /\ u.excess = left.excess /\ u.frame = left.frame
        /\ u.resumeTo = left.resumeTo
    BY <1>1, <2>1 DEF Typed, Fields
  <2> HIDE DEF u
  <2>3. NextOf(t, p) = to /\ to \in Proc
    BY <1>4, <1>5 DEF NextOf, to
  <2>4. \A o \in Proc : u.state[o] = IF o = to THEN "Suspended" ELSE t.state[o]
    BY <1>1, <2>2, <2>3 DEF Core, Typed
  <2>5. Listed(u)
    <3>1. /\ \A o \in Proc : o # to => u.state[o] = left.state[o]
          /\ \A o \in Proc : \/ u.myList[o] = left.myList[o]
                             \/ o = to /\ u.myList[o] \in {Nil, Quiescent}
      BY <1>1, <2>2, <2>4
    <3>2. left.waitingOn[to] = Nil
      BY <1>1, <1>4, <1>5
    <3> QED
      BY <1>3, <2>2, <2>3, <3>1, <3>2, ListedMoves
  <2>6. Pointed(u)
    <3>1. \A o \in Proc : left.resumeTo[o] # to
      BY <1>0, <1>4, <1>5 DEF Places, Pointed
    <3> QED
      BY <1>3, <2>2, <3>1 DEF Pointed
  <2>7. Kept(t, u, {})
    BY <1>1, <1>4, <1>5, <2>2, <2>4 DEF Kept, BaseStates
  <2> QED
    BY <1>4, <1>5, <2>3, <2>4, <2>5, <2>6, <2>7, KeptRanked DEF Places, u
<1>6. CASE to = Nobody /\ t.ready # <<>>
  <2> DEFINE h == Head(t.ready)
  <2>1. u = LeaveLists(left, h) /\ NextOf(t, p) = h
    BY <1>6 DEF TakeNext, NextOf, left, to
  <2>2. h \in Proc /\ t.state[h] = "Ready"
    <3>1. h = t.ready[1] /\ 1 \in DOMAIN t.ready /\ h \in Proc
      BY <1>6, HeadTailProperties, EmptySeq, LenProperties DEF Core, Typed
    <3>2. h \in ToSet(t.ready)
      BY <3>1 DEF ToSet
    <3> QED
      BY <3>1, <3>2 DEF Core, Queued
  <2> HIDE DEF u, h
  <2>3. /\ Places(LeaveLists(left, h))
        /\ left.state[h] # "Halted" => Kept(left, LeaveLists(left, h), {})
    BY <1>1, <1>2, <1>3, <2>2, LeaveListsPlaces DEF Places
  <2>4. \A o \in Proc : u.state[o] = IF o = h THEN "Suspended" ELSE left.state[o]
    BY <1>2, <2>1, <2>2, LeaveListsKeeps
  <2>5. Kept(t, u, {})
    BY <1>1, <1>3, <2>1, <2>2, <2>3, KeptThrough
  <2> QED
    BY <1>1, <2>1, <2>2, <2>3, <2>4, <2>5 DEF u
<1>7. CASE to = Nobody /\ t.ready = <<>>
  <2>1. u = left /\ NextOf(t, p) = Nobody
    BY <1>7 DEF TakeNext, NextOf, left, to
  <2> HIDE DEF u
  <2> QED
    BY <1>1, <1>3, <2>1, Names DEF u, Places
<1> QED
  BY <1>5, <1>6, <1>7

\* block and finishFiber: whoever runs next, or the base with its operation
\* undone.
LEMMA SwitchAwayPlaces ==
  ASSUME NEW t, Core(t), Parked(t), Places(t)
  PROVE  /\ Places(SwitchAway(t, t.current))
         /\ Kept(t, SwitchAway(t, t.current), {})
<1> DEFINE p      == t.current
           next   == NextOf(t, p)
           taken  == TakeNext(t, p)
           undone == LeaveLists(taken, Base)
<1>1. p \in Proc /\ Base \in Proc
  BY Names DEF Core, Typed
<1>2. /\ Core(taken) /\ Parked(taken) /\ taken.current = p
      /\ next # Nobody => next \in Proc /\ taken.state[next] = "Suspended"
  BY <1>1, TakeNextTakes
<1>3. Places(taken) /\ Kept(t, taken, {})
  BY <1>1, TakeNextPlaces
<1> HIDE DEF next, taken
<1>4. /\ Core(undone) /\ undone.current = p
      /\ \A o \in Proc : undone.state[o] =
                           IF o = Base THEN "Suspended" ELSE taken.state[o]
  BY <1>1, <1>2, LeaveListsKeeps
<1>5. Places(undone) /\ Kept(taken, undone, {})
  <2>1. taken.state[Base] \in BaseStates
    BY <1>3 DEF Places, Ranked
  <2> QED
    BY <1>1, <1>2, <1>3, <2>1, LeaveListsPlaces DEF BaseStates
<1>6. Kept(t, undone, {})
  BY <1>3, <1>5, KeptThrough
<1> HIDE DEF undone
<1>7. CASE next # Nobody
  <2>1. SwitchAway(t, p) = SwitchTo(taken, next)
    BY <1>7 DEF SwitchAway, next, taken
  <2>2. Places(SwitchTo(taken, next)) /\ Kept(taken, SwitchTo(taken, next), {})
    BY <1>2, <1>3, <1>7, SwitchToPlaces
  <2> QED
    BY <1>3, <2>1, <2>2, KeptThrough
<1>8. CASE next = Nobody /\ p = Base
  <2> DEFINE u == BaseFails(undone)
  <2>1. SwitchAway(t, p) = u
    BY <1>8 DEF SwitchAway, next, taken, undone
  <2>2. /\ u.state = [undone.state EXCEPT ![Base] = "Running"]
        /\ u.awaiting = undone.awaiting /\ u.waitingOn = undone.waitingOn
        /\ u.linkedList = undone.linkedList /\ u.myList = undone.myList
        /\ u.excess = undone.excess /\ u.resumeTo = undone.resumeTo
        /\ u.frame = [undone.frame EXCEPT ![Base] = "code"]
    BY <1>4 DEF Core, Typed, BaseFails, Fields
  <2> HIDE DEF u
  <2>3. \A o \in Proc :
          /\ u.state[o] = IF o = Base THEN "Running" ELSE undone.state[o]
          /\ u.frame[o] = IF o = Base THEN "code" ELSE undone.frame[o]
    BY <1>4, <2>2 DEF Core, Typed
  <2>4. Listed(u)
    <3>1. undone.waitingOn[Base] = Nil
      BY <1>1, <1>4 DEF Core, WaitsForOne
    <3> QED
      BY <1>1, <1>5, <2>2, <2>3, <3>1, ListedMoves DEF Places
  <2>5. Pointed(u)
    BY <1>5, <2>2, PointedDepends DEF Places
  <2>6. Kept(undone, u, {})
    BY <1>4, <2>3 DEF Kept, BaseStates
  <2> QED
    BY <1>5, <1>6, <2>1, <2>4, <2>5, <2>6, KeptRanked, KeptThrough DEF Places
<1>9. CASE next = Nobody /\ p # Base
  <2> DEFINE v == [undone EXCEPT !.deadlocked = @ \cup {Base}]
  <2>1. SwitchAway(t, p) = SwitchTo(v, Base)
    BY <1>9 DEF SwitchAway, next, taken, undone
  <2>2. Typed(v)
    BY <1>1, <1>4, SMTT(30) DEF Core, Typed, Fields
  <2>3. /\ v.ready = undone.ready /\ v.quiescent = undone.quiescent
        /\ v.state = undone.state /\ v.frame = undone.frame
        /\ v.awaiting = undone.awaiting /\ v.waitingOn = undone.waitingOn
        /\ v.linkedList = undone.linkedList /\ v.myList = undone.myList
        /\ v.excess = undone.excess /\ v.resumeTo = undone.resumeTo
    BY <1>4 DEF Core, Typed, Fields
  <2> HIDE DEF v
  <2>4. Core(v) /\ v.state[Base] = "Suspended"
    BY <1>1, <1>4, <2>2, <2>3, CoreDepends
  <2>5. Places(v) /\ Kept(undone, v, {})
    BY <1>5, <2>3, ListedDepends, PointedDepends DEF Places, Ranked, Kept
  <2>6. Places(SwitchTo(v, Base)) /\ Kept(v, SwitchTo(v, Base), {})
    BY <1>1, <2>4, <2>5, SwitchToPlaces
  <2> QED
    BY <1>6, <2>1, <2>5, <2>6, KeptThrough
<1> QED
  BY <1>7, <1>8, <1>9

\* reapDead: the ended processes are in no list, and nobody returns to them.
LEMMA ReapDeadPlaces ==
  ASSUME NEW t, Sound(t), Places(t)
  PROVE  Places(ReapDead(t)) /\ Kept(t, ReapDead(t), {})
<1> DEFINE u == ReapDead(t)
           dead == {p \in Fibers : t.state[p] = "Dead" /\ p # t.current}
<1>1. /\ u.state = [p \in Proc |-> IF p \in dead THEN "Gone" ELSE t.state[p]]
      /\ u.frame = [p \in Proc |-> IF p \in dead THEN "new" ELSE t.frame[p]]
      /\ u.resumeTo = [p \in Proc |->
                          IF p \in dead \/ t.resumeTo[p] \in dead
                            THEN Nobody ELSE t.resumeTo[p]]
      /\ u.awaiting = t.awaiting /\ u.waitingOn = t.waitingOn
      /\ u.linkedList = t.linkedList /\ u.myList = t.myList
      /\ u.excess = t.excess
  BY DEF Sound, Core, Typed, ReapDead, Fields
<1>2. \A p \in Proc : /\ p \in dead => t.state[p] = "Dead" /\ p # Base
                      /\ u.state[p] = IF p \in dead THEN "Gone" ELSE t.state[p]
                      /\ u.frame[p] = IF p \in dead THEN "new" ELSE t.frame[p]
  BY <1>1 DEF Fibers
<1>3. Pointed(u)
  BY <1>1 DEF Places, Pointed
<1> HIDE DEF u, dead
<1>4. Listed(u)
  <2>1. \A s \in Semaphores, p \in Natives : Waits(u, p, s) <=> Waits(t, p, s)
    BY <1>1, <1>2 DEF Waits, Natives
  <2> QED
    BY <1>1, <2>1 DEF Places, Listed
<1>5. Kept(t, u, {})
  BY <1>2 DEF Kept
<1> QED
  BY <1>3, <1>4, <1>5, KeptRanked DEF Places, u

\* FirstWaiter answers the first that waits.
LEMMA FirstWaiterFirst ==
  ASSUME NEW t, Typed(t), NEW s \in Semaphores, NEW i \in 1 .. Len(t.linkedList[s]),
         Waits(t, t.linkedList[s][i], s)
  PROVE  FirstWaiter(t, s) # 0 /\ FirstWaiter(t, s) <= i
<1> DEFINE l == t.linkedList[s]
           I == {j \in 1 .. Len(l) : Waits(t, l[j], s)}
<1>1. l \in Seq(Proc) /\ Len(l) \in Nat
  BY LenProperties DEF Typed
<1>2. FirstWaiter(t, s) = IF I # {} THEN Min(I) ELSE 0
  BY DEF FirstWaiter, SelectInSeq
<1>3. i \in I /\ I \subseteq Nat
  BY <1>1
<1>4. Min(I) \in I /\ \A y \in I : Min(I) <= y
  BY <1>3, MinIsLeast
<1>5. \A j \in I : j # 0
  OBVIOUS
<1> HIDE DEF I
<1> QED
  BY <1>2, <1>3, <1>4, <1>5

\* The waiters a signal drops are strangers.
LEMMA DropStalePlaces ==
  ASSUME NEW t, Core(t), Places(t), NEW s \in Semaphores
  PROVE  LET u == DropStale(t, s) IN
         /\ Places(u) /\ Kept(t, u, {})
         /\ u.resumeTo = t.resumeTo /\ u.frame = t.frame
<1> DEFINE l    == t.linkedList[s]
           f    == FirstWaiter(t, s)
           n    == IF f = 0 THEN Len(l) ELSE f - 1
           gone == {l[i] : i \in 1 .. n}
           u    == DropStale(t, s)
<1>1. /\ l \in Seq(Proc) /\ Len(l) \in Nat /\ DOMAIN l = 1 .. Len(l)
      /\ \A i \in 1 .. Len(l) : l[i] \in Proc
      /\ f \in 0 .. Len(l)
      /\ \A i \in 1 .. Len(l) : Waits(t, l[i], s) => f # 0 /\ f <= i
  BY LenProperties, ElementOfSeq, FirstWaiterWaits, FirstWaiterFirst DEF Core, Typed
<1> HIDE DEF f
<1>2. n \in 0 .. Len(l) /\ \A i \in 1 .. Len(l) : Waits(t, l[i], s) => n < i
  BY <1>1
<1>3. PICK r : r = SubSeq(l, n + 1, Len(l))
  OBVIOUS
<1>4. u = [t EXCEPT
             !.linkedList[s] = r,
             !.myList     = [p \in Proc |-> IF p \in gone /\ @[p] = s
                                              THEN Nil ELSE @[p]]]
  BY <1>3 DEF DropStale, f
<1>g. \A x \in gone : \E i \in 1 .. n : x = l[i]
  OBVIOUS
<1>p. IsInjective(l) /\ \A o \in Natives : Waits(t, o, s) <=> o \in ToSet(l)
  BY DEF Places, Listed
<1> HIDE DEF n, l, u, gone
<1>5. /\ r \in Seq(Proc) /\ Len(r) = Len(l) - n
      /\ \A i \in 1 .. Len(l) - n : r[i] = l[n + i]
  <2>1. \A i \in n + 1 .. Len(l) : l[i] \in Proc
    BY <1>1, <1>2
  <2>2. /\ r \in Seq(Proc)
        /\ Len(r) = IF n + 1 <= Len(l) THEN Len(l) - (n + 1) + 1 ELSE 0
        /\ \A i \in 1 .. Len(l) - (n + 1) + 1 : r[i] = l[(n + 1) + i - 1]
    BY <1>1, <1>2, <1>3, <2>1, SubSeqProperties
  <2>3. \A i \in 1 .. Len(l) - n : (n + 1) + i - 1 = n + i
    BY <1>1, <1>2
  <2>4. Len(l) - (n + 1) + 1 = Len(l) - n
    BY <1>1, <1>2
  <2>5. Len(r) = Len(l) - n
    BY <1>1, <1>2, <2>2
  <2>6. \A i \in 1 .. Len(l) - n : r[i] = l[n + i]
    BY <2>2, <2>3, <2>4
  <2> QED
    BY <2>2, <2>5, <2>6
<1>6. /\ u.state = t.state /\ u.frame = t.frame
      /\ u.awaiting = t.awaiting /\ u.waitingOn = t.waitingOn
      /\ u.excess = t.excess /\ u.resumeTo = t.resumeTo
      /\ u.linkedList = [t.linkedList EXCEPT ![s] = r]
      /\ u.myList = [p \in Proc |-> IF p \in gone /\ t.myList[p] = s
                                       THEN Nil ELSE t.myList[p]]
  BY <1>4 DEF Core, Typed, Fields
<1>7. DOMAIN r = 1 .. Len(l) - n
  BY <1>5, LenProperties
<1>8. IsInjective(r)
  <2>1. ASSUME NEW i \in DOMAIN r, NEW j \in DOMAIN r, r[i] = r[j]
        PROVE  i = j
    <3>1. n + i \in DOMAIN l /\ n + j \in DOMAIN l /\ l[n + i] = l[n + j]
      BY <1>1, <1>2, <1>5, <1>7, <2>1
    <3>2. n + i = n + j
      BY <1>p, <3>1 DEF IsInjective
    <3> QED
      BY <1>2, <1>7, <3>2
  <2> QED
    BY <2>1 DEF IsInjective
<1>9. ASSUME NEW o \in Natives PROVE o \in ToSet(r) <=> o \in ToSet(l)
  <2>1. ASSUME o \in ToSet(r) PROVE o \in ToSet(l)
    <3>1. PICK i \in DOMAIN r : o = r[i]
      BY <2>1 DEF ToSet
    <3>2. n + i \in DOMAIN l /\ o = l[n + i]
      BY <1>1, <1>2, <1>5, <1>7, <3>1
    <3> QED
      BY <3>2 DEF ToSet
  <2>2. ASSUME o \in ToSet(l) PROVE o \in ToSet(r)
    <3>1. PICK i \in DOMAIN l : o = l[i]
      BY <2>2 DEF ToSet
    <3>2. Waits(t, l[i], s)
      BY <1>p, <2>2, <3>1
    <3>3. n < i
      BY <1>1, <1>2, <3>1, <3>2
    <3>4. i - n \in DOMAIN r /\ n + (i - n) = i
      BY <1>1, <1>2, <1>7, <3>1, <3>3
    <3>5. r[i - n] = o
      BY <1>5, <1>7, <3>1, <3>4
    <3> QED
      BY <3>4, <3>5 DEF ToSet
  <2> QED
    BY <2>1, <2>2
<1>10. ASSUME NEW o \in Natives PROVE u.myList[o] = t.myList[o]
  <2>1. o \in Proc
    BY DEF Natives
  <2>2. ASSUME o \in gone, t.myList[o] = s PROVE FALSE
    <3>1. PICK i \in 1 .. n : o = l[i]
      BY <1>g, <2>2
    <3>2. Waits(t, o, s)
      BY <2>2 DEF Places, Listed
    <3>3. i \in 1 .. Len(l)
      BY <1>1, <1>2
    <3>4. n < i
      BY <1>2, <3>1, <3>2, <3>3
    <3> QED
      BY <1>1, <1>2, <3>4
  <2> QED
    BY <1>6, <2>1, <2>2
<1>11. Listed(u)
  <2>1. \A z \in Semaphores : u.linkedList[z] = IF z = s THEN r ELSE t.linkedList[z]
    BY <1>6 DEF Core, Typed
  <2>2. \A z \in Semaphores, o \in Natives : Waits(u, o, z) <=> Waits(t, o, z)
    BY <1>6 DEF Waits
  <2>3. \A z \in Semaphores : IsInjective(u.linkedList[z])
    BY <1>8, <2>1 DEF Places, Listed
  <2>4. \A z \in Semaphores, o \in Natives :
          o \in ToSet(u.linkedList[z]) <=> o \in ToSet(t.linkedList[z])
    BY <1>9, <2>1 DEF l
  <2> QED
    BY <1>6, <1>10, <2>2, <2>3, <2>4 DEF Places, Listed
<1>12. Pointed(u) /\ Kept(t, u, {})
  BY <1>6, PointedDepends DEF Places, Kept
<1> QED
  BY <1>6, <1>11, <1>12, KeptRanked DEF Places, u

\* signal: the first waiter leaves the linkedList for the ready queue, or nobody
\* waits and the signal is counted.
LEMMA SignalPlaces ==
  ASSUME NEW t, Core(t), Places(t), NEW s \in Semaphores, ~ Overflows(t, s)
  PROVE  /\ Places(Signal(t, s)) /\ Kept(t, Signal(t, s), {})
         /\ \A o \in Proc : t.state[o] # "Gone" => Signal(t, s).state[o] # "Gone"
<1> DEFINE left == DropStale(t, s)
           p    == Head(left.linkedList[s])
           u    == Signal(t, s)
<1>1. /\ Core(left) /\ left.state = t.state /\ left.current = t.current
      /\ left.waitingOn = t.waitingOn /\ left.awaiting = t.awaiting
      /\ left.excess = t.excess
      /\ FirstWaiter(t, s) # 0 => p \in Proc /\ Waits(t, p, s)
  BY DropStaleKeeps
<1>2. Places(left) /\ Kept(t, left, {}) /\ left.frame = t.frame
  BY DropStalePlaces
<1> HIDE DEF left, p
<1>3. CASE FirstWaiter(t, s) = 0
  <2>1. u = [left EXCEPT !.excess[s] = @ + 1]
    BY <1>3 DEF Signal, left
  <2>2. /\ u.state = left.state /\ u.frame = left.frame
        /\ u.awaiting = left.awaiting /\ u.waitingOn = left.waitingOn
        /\ u.linkedList = left.linkedList /\ u.myList = left.myList
        /\ u.resumeTo = left.resumeTo
        /\ u.excess = [left.excess EXCEPT ![s] = left.excess[s] + 1]
    BY <1>1, <2>1 DEF Core, Typed, Fields
  <2> HIDE DEF u
  <2>3. \A o \in Natives : ~ Waits(t, o, s)
    <3>1. SUFFICES ASSUME NEW o \in Natives, Waits(t, o, s) PROVE FALSE
      OBVIOUS
    <3>2. o \in ToSet(t.linkedList[s]) /\ t.linkedList[s] \in Seq(Proc)
      BY <3>1 DEF Places, Listed, Core, Typed
    <3>3. PICK i \in 1 .. Len(t.linkedList[s]) : t.linkedList[s][i] = o
      BY <3>2, LenProperties DEF ToSet
    <3> QED
      BY <1>3, <3>1, <3>3, FirstWaiterFirst DEF Core
  <2>4. /\ \A z \in Semaphores, o \in Natives : Waits(u, o, z) <=> Waits(left, o, z)
        /\ \A o \in Natives : ~ Waits(u, o, s)
    BY <1>1, <2>2, <2>3 DEF Waits
  <2>5. \A z \in Semaphores : z # s => u.excess[z] = left.excess[z]
    BY <1>1, <2>2 DEF Core, Typed
  <2>6. Listed(u)
    BY <1>2, <2>2, <2>4, <2>5 DEF Places, Listed
  <2>7. Pointed(u) /\ Kept(left, u, {})
    BY <1>2, <2>2, PointedDepends DEF Places, Kept
  <2>8. Places(u) /\ Kept(t, u, {})
    BY <1>2, <2>6, <2>7, KeptRanked, KeptThrough DEF Places
  <2>9. u.state = t.state
    BY <1>1, <2>2
  <2> QED
    BY <2>8, <2>9 DEF u
<1>4. CASE FirstWaiter(t, s) # 0
  <2>1. p \in Proc /\ t.state[p] = "Waiting" /\ t.waitingOn[p] = s
    BY <1>1, <1>4 DEF Waits
  <2>2. p \in Natives
    BY <2>1 DEF Places, Ranked, Natives
  <2> DEFINE rest == RemoveFirst(left.linkedList[s], p)
  <2> DEFINE w == [left EXCEPT !.linkedList[s] = rest,
                               !.waitingOn[p] = Nil,
                               !.signaledBy[p] = s]
  <2>3. u = Enqueue(w, p)
    BY <1>4 DEF Signal, left, p
  <2> HIDE DEF rest
  <2>w. /\ w.linkedList = [left.linkedList EXCEPT ![s] = rest]
        /\ w.waitingOn = [left.waitingOn EXCEPT ![p] = Nil]
        /\ w.state = left.state /\ w.myList = left.myList
        /\ w.awaiting = left.awaiting /\ w.resumeTo = left.resumeTo
        /\ w.excess = left.excess /\ w.frame = left.frame
        /\ DOMAIN w = Fields
    BY <1>1 DEF Core, Typed, Fields
  <2> HIDE DEF w, u
  <2>4. /\ u.linkedList = [left.linkedList EXCEPT ![s] = rest]
        /\ u.waitingOn = [left.waitingOn EXCEPT ![p] = Nil]
        /\ u.state = [left.state EXCEPT ![p] = "Ready"]
        /\ u.myList = [left.myList EXCEPT ![p] = Quiescent]
        /\ u.awaiting = left.awaiting /\ u.resumeTo = left.resumeTo
        /\ u.excess = left.excess /\ u.frame = left.frame
    <3>1. /\ u.linkedList = w.linkedList /\ u.waitingOn = w.waitingOn
          /\ u.state = [w.state EXCEPT ![p] = "Ready"]
          /\ u.myList = [w.myList EXCEPT ![p] = Quiescent]
          /\ u.awaiting = w.awaiting /\ u.resumeTo = w.resumeTo
          /\ u.excess = w.excess /\ u.frame = w.frame
      BY <2>3, <2>w DEF Enqueue, Pushed, Fields
    <3> QED
      BY <2>w, <3>1
  <2>5. /\ IsInjective(rest)
        /\ \A x : x \in ToSet(rest) <=> x \in ToSet(left.linkedList[s]) /\ x # p
    <3> USE DEF rest
    <3>1. left.linkedList[s] \in Seq(Proc) /\ IsInjective(left.linkedList[s])
      BY <1>1, <1>2 DEF Core, Typed, Places, Listed
    <3> QED
      BY <3>1, RemoveFirstTakesOut
  <2> HIDE DEF u, rest
  <2>6. \A z \in Semaphores : u.linkedList[z] = IF z = s THEN rest
                                                 ELSE left.linkedList[z]
    BY <1>1, <2>4 DEF Core, Typed
  <2>7. \A o \in Proc :
          /\ u.waitingOn[o] = IF o = p THEN Nil ELSE left.waitingOn[o]
          /\ u.state[o] = IF o = p THEN "Ready" ELSE left.state[o]
          /\ u.myList[o] = IF o = p THEN Quiescent ELSE left.myList[o]
    BY <1>1, <2>4 DEF Core, Typed
  <2>8. ASSUME NEW z \in Semaphores, NEW o \in Natives
        PROVE  /\ Waits(u, o, z) <=> Waits(left, o, z) /\ o # p
               /\ u.myList[o] = z <=> left.myList[o] = z /\ o # p
               /\ o \in ToSet(u.linkedList[z]) <=>
                    o \in ToSet(left.linkedList[z]) /\ o # p
    <3>1. o \in Proc /\ z # Quiescent /\ z # Nil
      BY NameAssumption DEF Natives
    <3>2. Waits(u, o, z) <=> Waits(left, o, z) /\ o # p
      BY <2>7, <3>1 DEF Waits
    <3>3. u.myList[o] = z <=> left.myList[o] = z /\ o # p
      BY <2>7, <3>1
    <3>4. z # s => p \notin ToSet(left.linkedList[z])
      BY <1>1, <1>2, <2>1, <2>2 DEF Places, Listed, Waits
    <3>5. o \in ToSet(u.linkedList[z]) <=> o \in ToSet(left.linkedList[z]) /\ o # p
      BY <2>5, <2>6, <3>4
    <3> QED
      BY <3>2, <3>3, <3>5
  <2>9. Listed(u)
    <3>1. \A z \in Semaphores : IsInjective(u.linkedList[z])
      BY <1>2, <2>5, <2>6 DEF Places, Listed
    <3> QED
      BY <1>2, <2>4, <2>8, <3>1 DEF Places, Listed
  <2>10. Pointed(u)
    BY <1>2, <2>4, PointedDepends DEF Places
  <2>11. Kept(left, u, {})
    BY <1>1, <2>1, <2>4, <2>7 DEF Kept, BaseStates
  <2>12. Places(u) /\ Kept(t, u, {})
    BY <1>2, <2>9, <2>10, <2>11, KeptRanked, KeptThrough DEF Places
  <2>13. \A o \in Proc : t.state[o] # "Gone" => u.state[o] # "Gone"
    BY <1>1, <2>7
  <2> QED
    BY <2>12, <2>13 DEF u
<1> QED
  BY <1>3, <1>4

-----------------------------------------------------------------------------
\* The outcomes of an operation.

\* The fields Places is about; signals may be used up, and only what has not
\* halted is in another frame.
SameWaits(t, u) ==
  /\ u.state = t.state /\ u.waitingOn = t.waitingOn
  /\ u.linkedList = t.linkedList /\ u.myList = t.myList
  /\ u.awaiting = t.awaiting /\ u.resumeTo = t.resumeTo
  /\ \A s \in Semaphores : u.excess[s] > 0 => t.excess[s] > 0
  /\ \A o \in Proc : t.state[o] = "Halted" => u.frame[o] = t.frame[o]

LEMMA PlacesDepend ==
  ASSUME NEW t, NEW u, Places(t), SameWaits(t, u)
  PROVE  Places(u) /\ Kept(t, u, {})
<1>1. \A s \in Semaphores, p \in Natives : Waits(u, p, s) <=> Waits(t, p, s)
  BY DEF SameWaits, Waits
<1>2. Listed(u)
  BY <1>1 DEF Places, Listed, SameWaits
<1>3. Pointed(u)
  BY PointedDepends DEF Places, SameWaits
<1>4. Kept(t, u, {})
  BY DEF SameWaits, Kept
<1> QED
  BY <1>2, <1>3, <1>4, KeptRanked DEF Places

LEMMA AbortsPlaces ==
  ASSUME NEW t, Sound(t), Places(t)
  PROVE  /\ Places(Aborts(t)) /\ Kept(t, Aborts(t), {})
         /\ LET v == Aborts([t EXCEPT !.heapMark = TRUE])
            IN Places(v) /\ Kept(t, v, {})
<1> DEFINE u == Aborts(t)
           v == Aborts([t EXCEPT !.heapMark = TRUE])
<1>1. SameWaits(t, u)
  BY DEF Sound, Core, Typed, Aborts, Fields, SameWaits
<1>2. SameWaits(t, v)
  BY DEF Sound, Core, Typed, Aborts, Fields, SameWaits
<1> HIDE DEF u, v
<1> QED
  BY <1>1, <1>2, PlacesDepend DEF u, v

\* The frame of a process that has not halted.
LEMMA FramePlaces ==
  ASSUME NEW t, Typed(t), Places(t), NEW p \in Proc, t.state[p] # "Halted",
         NEW f
  PROVE  /\ Places([t EXCEPT !.frame[p] = f])
         /\ Kept(t, [t EXCEPT !.frame[p] = f], {})
<1> DEFINE u == [t EXCEPT !.frame[p] = f]
<1>1. SameWaits(t, u)
  BY DEF Typed, Fields, SameWaits
<1> HIDE DEF u
<1> QED
  BY <1>1, PlacesDepend DEF u

LEMMA ContentsPlaces ==
  ASSUME NEW t, Typed(t), Places(t), NEW q \in Queues, NEW n
  PROVE  /\ Places([t EXCEPT !.contents[q] = n])
         /\ Kept(t, [t EXCEPT !.contents[q] = n], {})
<1> DEFINE u == [t EXCEPT !.contents[q] = n]
<1>1. SameWaits(t, u)
  BY DEF Typed, Fields, SameWaits
<1> HIDE DEF u
<1> QED
  BY <1>1, PlacesDepend DEF u

\* Signals are used up, never made up.
LEMMA ExcessPlaces ==
  ASSUME NEW t, Typed(t), Places(t), NEW s \in Semaphores, NEW n,
         n > 0 => t.excess[s] > 0
  PROVE  /\ Places([t EXCEPT !.excess[s] = n])
         /\ Kept(t, [t EXCEPT !.excess[s] = n], {})
<1> DEFINE u == [t EXCEPT !.excess[s] = n]
<1>1. /\ u.state = t.state /\ u.waitingOn = t.waitingOn
      /\ u.linkedList = t.linkedList /\ u.myList = t.myList
      /\ u.awaiting = t.awaiting /\ u.resumeTo = t.resumeTo
      /\ u.excess = [t.excess EXCEPT ![s] = n] /\ u.frame = t.frame
  BY DEF Typed, Fields
<1> HIDE DEF u
<1>2. \A z \in Semaphores : u.excess[z] = IF z = s THEN n ELSE t.excess[z]
  BY <1>1 DEF Typed
<1>3. SameWaits(t, u)
  BY <1>1, <1>2 DEF SameWaits
<1> QED
  BY <1>3, PlacesDepend DEF u

-----------------------------------------------------------------------------
\* The switches.

\* The current process is no stranger, and waits for nothing.
LEMMA CurrentIsFree ==
  ASSUME NEW t, Sound(t), Places(t)
  PROVE  /\ t.current \in Proc /\ t.current \in Natives
         /\ t.state[t.current] = "Running"
         /\ t.waitingOn[t.current] = Nil /\ t.current \notin t.awaiting
         /\ \A o \in Proc : t.resumeTo[o] # t.current
<1>1. t.current \in Proc /\ t.state[t.current] = "Running"
  BY DEF Sound, Core, Typed, OneRuns
<1>2. t.waitingOn[t.current] = Nil /\ t.current \notin t.awaiting
  BY <1>1 DEF Sound, Core, WaitsForOne
<1>3. t.current \in Natives
  BY <1>1 DEF Places, Ranked, Natives
<1>4. \A o \in Proc : t.resumeTo[o] # t.current
  BY <1>1, <1>2, Names DEF Places, Pointed
<1> QED
  BY <1>1, <1>2, <1>3, <1>4

\* The running process stops: it is suspended, it has ended, or it waits for the
\* process p, which will return to it.
LEMMA StopPlaces ==
  ASSUME NEW t, NEW u, Sound(t), Places(t),
         NEW x \in {"Suspended", "Waiting", "Dead"},
         t.current = Base => x # "Dead",
         u.state = [t.state EXCEPT ![t.current] = x],
         u.waitingOn = t.waitingOn, u.linkedList = t.linkedList,
         u.excess = t.excess,
         \/ u.myList = t.myList
         \/ u.myList = [t.myList EXCEPT ![t.current] = Nil],
         \/ u.awaiting = t.awaiting /\ u.resumeTo = t.resumeTo
         \/ /\ u.awaiting = t.awaiting \cup {t.current}
            /\ \E p \in Proc : u.resumeTo = [t.resumeTo EXCEPT ![p] = t.current],
         \A o \in Proc : o # t.current => u.frame[o] = t.frame[o]
  PROVE  Places(u) /\ Kept(t, u, {})
<1> DEFINE c == t.current
<1>1. /\ c \in Proc /\ t.state[c] = "Running" /\ t.waitingOn[c] = Nil
      /\ c \notin t.awaiting /\ \A o \in Proc : t.resumeTo[o] # c
  BY CurrentIsFree
<1>2. \A o \in Proc : u.state[o] = IF o = c THEN x ELSE t.state[o]
  BY <1>1 DEF Sound, Core, Typed
<1>3. \A o \in Proc : \/ u.myList[o] = t.myList[o]
                      \/ o = c /\ u.myList[o] \in {Nil, Quiescent}
  BY <1>1 DEF Sound, Core, Typed
<1>4. Listed(u)
  <2>1. \A o \in Proc : o # c => u.state[o] = t.state[o]
    BY <1>2
  <2>2. Listed(t)
    BY DEF Places
  <2> HIDE DEF c
  <2> QED
    BY <1>1, <1>3, <2>1, <2>2, ListedMoves
<1>5. Pointed(u)
  <2>1. CASE u.awaiting = t.awaiting /\ u.resumeTo = t.resumeTo
    BY <2>1, PointedDepends DEF Places
  <2>2. ASSUME u.awaiting = t.awaiting \cup {c}, NEW p \in Proc,
               u.resumeTo = [t.resumeTo EXCEPT ![p] = c]
        PROVE  Pointed(u)
    <3>1. \A o \in Proc : u.resumeTo[o] = IF o = p THEN c ELSE t.resumeTo[o]
      BY <2>2 DEF Sound, Core, Typed
    <3> QED
      BY <1>1, <2>2, <3>1 DEF Places, Pointed
  <2> QED
    BY <2>1, <2>2
<1>6. Kept(t, u, {})
  BY <1>1, <1>2 DEF Kept, BaseStates
<1> QED
  BY <1>4, <1>5, <1>6, KeptRanked DEF Places

\* block.
LEMMA BlocksPlaces ==
  ASSUME NEW t, Core(t), Parked(t), Places(t), t.state[t.current] # "Halted",
         NEW f \in Frames
  PROVE  Places(Blocks(t, f)) /\ Kept(t, Blocks(t, f), {})
<1> DEFINE u == [t EXCEPT !.frame[t.current] = f]
<1>1. t.current \in Proc
  BY DEF Core, Typed
<1>2. Typed(u) /\ SamePlaces(t, u) /\ u.current = t.current
  <2>1. Typed(u)
    BY SMTT(30) DEF Core, Typed, Fields
  <2> QED
    BY <2>1 DEF Core, Typed, Fields, SamePlaces
<1>3. Places(u) /\ Kept(t, u, {})
  BY <1>1, FramePlaces DEF Core
<1>4. Blocks(t, f) = SwitchAway(u, t.current)
  BY DEF Blocks
<1> HIDE DEF u
<1>5. Core(u) /\ Parked(u)
  BY <1>2, CoreDepends DEF SamePlaces
<1>6. Places(SwitchAway(u, u.current)) /\ Kept(u, SwitchAway(u, u.current), {})
  BY <1>3, <1>5, SwitchAwayPlaces
<1> QED
  BY <1>2, <1>3, <1>4, <1>6, KeptThrough

\* wait on a Semaphore without a signal.
LEMMA WaitsOnPlaces ==
  ASSUME NEW t, Sound(t), Places(t), NEW s \in Semaphores, t.excess[s] = 0,
         NEW f \in Frames
  PROVE  Places(WaitsOn(t, s, f)) /\ Kept(t, WaitsOn(t, s, f), {})
<1> DEFINE p == t.current
           u == [t EXCEPT !.linkedList[s] = Append(@, t.current),
                          !.myList[t.current] = s,
                          !.state[t.current] = "Waiting",
                          !.waitingOn[t.current] = s]
<1>1. /\ p \in Proc /\ p \in Natives /\ t.state[p] = "Running"
      /\ t.waitingOn[p] = Nil
  BY CurrentIsFree
<1>2. /\ t.linkedList[s] \in Seq(Proc) /\ IsInjective(t.linkedList[s])
      /\ p \notin ToSet(t.linkedList[s])
  BY <1>1 DEF Sound, Core, Typed, Places, Listed, Waits
<1>3. /\ Append(t.linkedList[s], p) \in Seq(Proc)
      /\ IsInjective(Append(t.linkedList[s], p))
      /\ \A x : x \in ToSet(Append(t.linkedList[s], p)) <=>
                  x \in ToSet(t.linkedList[s]) \/ x = p
  BY <1>1, <1>2, AppendAdds
<1>4. Typed(u)
  BY <1>3, SMTT(30) DEF Sound, Core, Typed, States, Fields
<1>5. /\ u.ready = t.ready /\ u.quiescent = t.quiescent
      /\ u.state = [t.state EXCEPT ![p] = "Waiting"]
      /\ u.waitingOn = [t.waitingOn EXCEPT ![p] = s]
      /\ u.current = p /\ u.frame = t.frame /\ u.excess = t.excess
      /\ u.awaiting = t.awaiting /\ u.resumeTo = t.resumeTo
  BY DEF Sound, Core, Typed, Fields
<1>l. /\ u.linkedList = [t.linkedList EXCEPT ![s] = Append(@, p)]
      /\ u.myList = [t.myList EXCEPT ![p] = s]
  BY DEF Sound, Core, Typed, Fields
<1>6. WaitsOn(t, s, f) = Blocks(u, f)
  BY DEF WaitsOn
<1> HIDE DEF u
<1>7. "Waiting" \in States \ {"Ready", "Running"}
  BY DEF States
<1>8. Core(u) /\ Parked(u)
  BY <1>4, <1>5, <1>7, StopParks
<1>9. \A o \in Proc :
        /\ u.state[o] = IF o = p THEN "Waiting" ELSE t.state[o]
        /\ u.waitingOn[o] = IF o = p THEN s ELSE t.waitingOn[o]
        /\ u.myList[o] = IF o = p THEN s ELSE t.myList[o]
  BY <1>1, <1>5, <1>l DEF Sound, Core, Typed
<1>10. \A z \in Semaphores : u.linkedList[z] = IF z = s THEN Append(t.linkedList[s], p)
                                                ELSE t.linkedList[z]
  BY <1>l DEF Sound, Core, Typed
<1>11. ASSUME NEW z \in Semaphores, NEW o \in Natives
       PROVE  /\ Waits(u, o, z) <=> Waits(t, o, z) \/ (o = p /\ z = s)
              /\ u.myList[o] = z <=> t.myList[o] = z \/ (o = p /\ z = s)
              /\ o \in ToSet(u.linkedList[z]) <=>
                   o \in ToSet(t.linkedList[z]) \/ (o = p /\ z = s)
  <2>1. o \in Proc
    BY DEF Natives
  <2>2. ~ Waits(t, p, z) /\ t.myList[p] # z
    BY <1>1 DEF Waits, Places, Listed
  <2>3. Waits(u, o, z) <=> Waits(t, o, z) \/ (o = p /\ z = s)
    BY <1>9, <2>1, <2>2 DEF Waits
  <2>4. u.myList[o] = z <=> t.myList[o] = z \/ (o = p /\ z = s)
    BY <1>9, <2>1, <2>2
  <2>5. o \in ToSet(u.linkedList[z]) <=>
                   o \in ToSet(t.linkedList[z]) \/ (o = p /\ z = s)
    BY <1>3, <1>10
  <2> QED
    BY <2>3, <2>4, <2>5
<1>12. Listed(u)
  <2>1. \A z \in Semaphores : IsInjective(u.linkedList[z])
    BY <1>3, <1>10 DEF Places, Listed
  <2>2. \A z \in Semaphores :
          u.excess[z] > 0 => \A o \in Natives : ~ Waits(u, o, z)
    BY <1>5, <1>11 DEF Places, Listed
  <2> QED
    BY <1>11, <2>1, <2>2 DEF Places, Listed
<1>13. Pointed(u)
  BY <1>5, PointedDepends DEF Places
<1>14. Kept(t, u, {})
  BY <1>1, <1>5, <1>9 DEF Kept, BaseStates
<1>15. Places(u)
  BY <1>12, <1>13, <1>14, KeptRanked DEF Places
<1>16. Places(Blocks(u, f)) /\ Kept(u, Blocks(u, f), {})
  BY <1>1, <1>5, <1>8, <1>9, <1>15, BlocksPlaces
<1> QED
  BY <1>6, <1>14, <1>16, KeptThrough

\* yield.
LEMMA YieldPlaces ==
  ASSUME NEW t, Sound(t), Places(t)
  PROVE  Places(YieldFrom(t)) /\ Kept(t, YieldFrom(t), {})
<1> DEFINE p == t.current
           u == [t EXCEPT !.frame[t.current] = "op"]
           v == Enqueue(u, p)
           n == NextOf(v, p)
           w == TakeNext(v, p)
<1>1. /\ p \in Proc /\ "op" \in Frames /\ t.state[p] = "Running"
  BY CurrentIsFree DEF Frames
<1>2. Sound(u) /\ SamePlaces(t, u) /\ u.current = p
  BY <1>1, FrameKeeps
<1>3. YieldFrom(t) = SwitchTo(w, n)
  BY DEF YieldFrom
<1>4. Places(u) /\ Kept(t, u, {})
  BY <1>1, FramePlaces DEF Sound, Core
<1> HIDE DEF u
<1>5. u.state[p] = "Running" /\ p \notin u.awaiting /\ u.waitingOn[p] = Nil
  BY <1>2, <1>4, CurrentIsFree
<1>6. /\ Core(v) /\ v.ready # <<>>
      /\ \A o \in Proc : v.state[o] = IF o = p THEN "Ready" ELSE u.state[o]
  BY <1>1, <1>2, <1>5, EnqueueKeeps DEF Sound
<1>7. Places(v) /\ Kept(u, v, {})
  BY <1>1, <1>2, <1>4, <1>5, EnqueuePlaces DEF Sound
<1> HIDE DEF v
<1>8. Parked(v)
  BY <1>2, <1>6 DEF Sound, OneRuns, Parked
<1>9. /\ Core(w) /\ Parked(w)
      /\ n # Nobody => n \in Proc /\ w.state[n] = "Suspended"
      /\ n = Nobody => v.ready = <<>>
  BY <1>1, <1>6, <1>8, TakeNextTakes
<1>10. Places(w) /\ Kept(v, w, {})
  BY <1>1, <1>6, <1>7, <1>8, TakeNextPlaces
<1> HIDE DEF w, n
<1>11. Places(SwitchTo(w, n)) /\ Kept(w, SwitchTo(w, n), {})
  BY <1>6, <1>9, <1>10, SwitchToPlaces
<1> QED
  BY <1>3, <1>4, <1>7, <1>10, <1>11, KeptThrough

\* What has halted, but for X, still is.
Still(t, u, X) == \A o \in Proc \ X :
  t.state[o] = "Halted" => u.state[o] = "Halted"

LEMMA KeptIsStill ==
  ASSUME NEW t, NEW u, NEW v, NEW X, Kept(t, u, X)
  PROVE  /\ Still(t, u, X)
         /\ Still(v, t, X) => Still(v, u, X)
BY DEF Kept, Still

\* halt: the base goes on.
LEMMA HaltsPlaces ==
  ASSUME NEW t, Sound(t), Places(t), t.current = me, me # Base
  PROVE  Places(Halts(t)) /\ Still(t, Halts(t), {})
<1> DEFINE u == [t EXCEPT !.state[me] = "Halted",
                          !.resumeTo[me] = Nobody,
                          !.frame[me] = "op"]
           v == LeaveLists(u, Base)
<1>0. /\ me \in Proc /\ t.state[me] = "Running" /\ t.waitingOn[me] = Nil
      /\ Base \in Proc
  BY CurrentIsFree, Names
<1>1. Typed(u)
  BY SMTT(30) DEF Sound, Core, Typed, States, Frames, Fields
<1>2. /\ u.ready = t.ready /\ u.quiescent = t.quiescent
      /\ u.state = [t.state EXCEPT ![t.current] = "Halted"]
      /\ u.awaiting = t.awaiting /\ u.waitingOn = t.waitingOn
      /\ u.current = t.current
  BY DEF Sound, Core, Typed, Fields
<1>3. /\ u.linkedList = t.linkedList /\ u.myList = t.myList /\ u.excess = t.excess
      /\ u.resumeTo = [t.resumeTo EXCEPT ![me] = Nobody]
      /\ u.frame = [t.frame EXCEPT ![me] = "op"]
  BY DEF Sound, Core, Typed, Fields
<1>4. Halts(t) = SwitchTo(v, Base)
  BY DEF Halts
<1> HIDE DEF u
<1>5. "Halted" \in States \ {"Ready", "Running"}
  BY DEF States
<1>6. Core(u) /\ Parked(u)
  BY <1>1, <1>2, <1>5, StopParks
<1>7. \A o \in Proc :
        /\ u.state[o] = IF o = me THEN "Halted" ELSE t.state[o]
        /\ u.resumeTo[o] = IF o = me THEN Nobody ELSE t.resumeTo[o]
        /\ u.frame[o] = IF o = me THEN "op" ELSE t.frame[o]
  BY <1>0, <1>2, <1>3 DEF Sound, Core, Typed
<1>8. Listed(u)
  <2>1. /\ \A o \in Proc : o # me => u.state[o] = t.state[o]
        /\ \A o \in Proc : u.myList[o] = t.myList[o]
    BY <1>3, <1>7
  <2>2. Listed(t)
    BY DEF Places
  <2> QED
    BY <1>0, <1>2, <1>3, <2>1, <2>2, ListedMoves
<1>9. Pointed(u)
  BY <1>2, <1>7 DEF Places, Pointed
<1>10. Ranked(u)
  BY <1>0, <1>7, LimitAssumption, Names DEF Places, Ranked
<1>11. Still(t, u, {})
  BY <1>7 DEF Still
<1>12. Places(v) /\ Kept(u, v, {})
  <2>1. u.state[Base] \in BaseStates
    BY <1>10 DEF Ranked
  <2> QED
    BY <1>0, <1>6, <1>8, <1>9, <1>10, <2>1, LeaveListsPlaces DEF Places, BaseStates
<1>13. /\ Core(v) /\ v.state[Base] = "Suspended"
  BY <1>0, <1>6, LeaveListsKeeps
<1> HIDE DEF v
<1>14. Places(SwitchTo(v, Base)) /\ Kept(v, SwitchTo(v, Base), {})
  BY <1>0, <1>12, <1>13, SwitchToPlaces
<1> QED
  BY <1>4, <1>11, <1>12, <1>14, KeptIsStill

\* A process that neither runs nor is in a list changes its state.
LEMMA OtherPlaces ==
  ASSUME NEW t, NEW u, Sound(t), Places(t), NEW p \in Proc,
         t.state[p] \notin {"Ready", "Waiting", "Gone"}, p # Base,
         NEW x \in {"Suspended", "Dead", "Gone"},
         u.state = [t.state EXCEPT ![p] = x],
         u.waitingOn = t.waitingOn, u.linkedList = t.linkedList,
         u.myList = t.myList, u.excess = t.excess, u.frame = t.frame,
         u.awaiting = t.awaiting, u.resumeTo = t.resumeTo
  PROVE  /\ Places(u) /\ Kept(t, u, {p})
         /\ t.state[p] # "Halted" => Kept(t, u, {})
<1>1. \A o \in Proc : u.state[o] = IF o = p THEN x ELSE t.state[o]
  BY DEF Sound, Core, Typed
<1>2. t.waitingOn[p] = Nil
  BY DEF Sound, Core, WaitsForOne
<1>3. Listed(u)
  <2>1. /\ \A o \in Proc : o # p => u.state[o] = t.state[o]
        /\ \A o \in Proc : u.myList[o] = t.myList[o]
    BY <1>1
  <2> QED
    BY <1>2, <2>1, ListedMoves DEF Places
<1>4. Pointed(u)
  BY PointedDepends DEF Places
<1>5. Kept(t, u, {p}) /\ (t.state[p] # "Halted" => Kept(t, u, {}))
  BY <1>1 DEF Kept, BaseStates
<1> QED
  BY <1>3, <1>4, <1>5, KeptRanked DEF Places

\* The running process waits for p and switches to it.
LEMMA HandsOverPlaces ==
  ASSUME NEW t, NEW u, Sound(t), Places(t), Typed(u), NEW p \in Proc,
         p # t.current,
         t.state[p] \notin {"Ready", "Waiting", "Gone", "Halted"},
         u.state = [t.state EXCEPT ![t.current] = "Waiting"],
         u.ready = t.ready, u.quiescent = t.quiescent,
         u.awaiting = t.awaiting \cup {t.current}, u.waitingOn = t.waitingOn,
         u.resumeTo = [t.resumeTo EXCEPT ![p] = t.current],
         u.linkedList = t.linkedList, u.excess = t.excess, u.myList = t.myList,
         \A o \in Proc : o # t.current => u.frame[o] = t.frame[o]
  PROVE  Places(SwitchTo(u, p)) /\ Kept(t, SwitchTo(u, p), {})
<1>1. "Waiting" \in States \ {"Ready", "Running"}
  BY DEF States
<1>2. Core(u) /\ Parked(u)
  BY <1>1, StopParks
<1>3. u.state[p] = t.state[p]
  BY DEF Sound, Core, Typed
<1>4. Places(u) /\ Kept(t, u, {})
  BY StopPlaces
<1>5. Places(SwitchTo(u, p)) /\ Kept(u, SwitchTo(u, p), {})
  BY <1>2, <1>3, <1>4, SwitchToPlaces
<1> QED
  BY <1>4, <1>5, KeptThrough

\* terminate of another process: a halted one unwinds, condemned.
LEMMA TerminatedPlaces ==
  ASSUME NEW t, Sound(t), Places(t), NEW p \in Fibers, p # t.current,
         t.state[p] # "Gone"
  PROVE  /\ Places(Terminated(t, p)) /\ Kept(t, Terminated(t, p), {p})
         /\ t.state[p] = "Halted" => p \in Terminated(t, p).condemned
<1> DEFINE c   == t.current
           out == LeaveLists(t, p)
<1>1. c \in Proc /\ p \in Proc /\ p # Base
  BY Names DEF Sound, Core, Typed
<1>2. /\ Sound(out) /\ out.current = c /\ out.state[p] = "Suspended"
      /\ out.frame = t.frame
  BY <1>1, LeaveListsSound
<1>3. Places(out) /\ Kept(t, out, {p})
  BY <1>1, LeaveListsPlaces DEF Sound
<1> HIDE DEF out
<1>4. CASE t.frame[p] = "new"
  <2> DEFINE u == [out EXCEPT !.state[p] = "Dead", !.terminated = @ \cup {p}]
  <2>1. Terminated(t, p) = ReapDead(u)
    BY <1>4 DEF Terminated, out
  <2>2. Typed(u)
    BY <1>1, <1>2, SMTT(30) DEF Sound, Core, Typed, States, Fields
  <2>3. /\ u.ready = out.ready /\ u.quiescent = out.quiescent
        /\ u.state = [out.state EXCEPT ![p] = "Dead"]
        /\ u.awaiting = out.awaiting /\ u.waitingOn = out.waitingOn
        /\ u.current = out.current
    BY <1>2 DEF Sound, Core, Typed, Fields
  <2>f. /\ u.linkedList = out.linkedList /\ u.myList = out.myList
        /\ u.excess = out.excess /\ u.frame = out.frame
        /\ u.resumeTo = out.resumeTo
    BY <1>2 DEF Sound, Core, Typed, Fields
  <2> HIDE DEF u
  <2>4. Sound(u)
    BY <1>1, <1>2, <2>2, <2>3, OtherMoves
  <2>5. Places(u) /\ Kept(out, u, {p})
    BY <1>1, <1>2, <1>3, <2>3, <2>f, OtherPlaces
  <2>6. Places(ReapDead(u)) /\ Kept(u, ReapDead(u), {p})
    BY <2>4, <2>5, ReapDeadPlaces, KeptMore
  <2>7. t.state[p] # "Halted"
    BY <1>1, <1>4 DEF Places, Ranked
  <2> QED
    BY <1>3, <2>1, <2>5, <2>6, <2>7, KeptThrough
<1>5. CASE t.frame[p] # "new"
  <2> DEFINE u == [out EXCEPT !.condemned   = @ \cup {p},
                              !.resumeTo[p] = t.current,
                              !.state[t.current] = "Waiting",
                              !.awaiting    = @ \cup {t.current},
                              !.frame[t.current] = "op"]
  <2>1. Terminated(t, p) = SwitchTo(u, p)
    BY <1>5 DEF Terminated, out
  <2>2. Typed(u)
    BY <1>1, <1>2, SMTT(30) DEF Sound, Core, Typed, States, Frames, Fields
  <2>3. /\ u.ready = out.ready /\ u.quiescent = out.quiescent
        /\ u.state = [out.state EXCEPT ![c] = "Waiting"]
        /\ u.awaiting = out.awaiting \cup {c} /\ u.waitingOn = out.waitingOn
        /\ u.resumeTo = [out.resumeTo EXCEPT ![p] = c]
    BY <1>2 DEF Sound, Core, Typed, Fields
  <2>f. /\ u.linkedList = out.linkedList /\ u.myList = out.myList
        /\ u.excess = out.excess /\ p \in u.condemned
        /\ u.frame = [out.frame EXCEPT ![c] = "op"]
    BY <1>2 DEF Sound, Core, Typed, Fields
  <2> HIDE DEF u
  <2>4. \A o \in Proc : o # c => u.frame[o] = out.frame[o]
    BY <1>2, <2>f DEF Sound, Core, Typed
  <2>5. Places(SwitchTo(u, p)) /\ Kept(out, SwitchTo(u, p), {})
    BY <1>1, <1>2, <1>3, <2>2, <2>3, <2>f, <2>4, HandsOverPlaces
  <2>6. SwitchTo(u, p).condemned = u.condemned
    BY <2>2 DEF Typed, SwitchTo, SwitchMarks, Fields
  <2> QED
    BY <1>3, <2>1, <2>f, <2>5, <2>6, KeptMore, KeptThrough
<1> QED
  BY <1>4, <1>5

\* The base waits for p and switches to it.
LEMMA RunAwaitedPlaces ==
  ASSUME NEW t, Sound(t), Places(t), t.current = Base, NEW p \in Fibers,
         t.state[p] \notin {"Ready", "Waiting", "Gone", "Halted"}
  PROVE  Places(RunAwaited(t, p)) /\ Kept(t, RunAwaited(t, p), {})
<1> DEFINE u == [t EXCEPT !.resumeTo[p] = Base,
                          !.state[Base] = "Waiting",
                          !.awaiting    = @ \cup {Base},
                          !.frame[Base] = "op"]
<1>1. Base \in Proc /\ p \in Proc /\ p # Base
  BY Names
<1>2. Typed(u)
  BY <1>1, SMTT(30) DEF Sound, Core, Typed, States, Frames, Fields
<1>3. /\ u.ready = t.ready /\ u.quiescent = t.quiescent
      /\ u.state = [t.state EXCEPT ![Base] = "Waiting"]
      /\ u.awaiting = t.awaiting \cup {Base} /\ u.waitingOn = t.waitingOn
      /\ u.resumeTo = [t.resumeTo EXCEPT ![p] = Base]
  BY DEF Sound, Core, Typed, Fields
<1>f. /\ u.linkedList = t.linkedList /\ u.myList = t.myList
      /\ u.excess = t.excess
      /\ u.frame = [t.frame EXCEPT ![Base] = "op"]
  BY DEF Sound, Core, Typed, Fields
<1>4. RunAwaited(t, p) = SwitchTo(u, p)
  BY DEF RunAwaited
<1> HIDE DEF u
<1>5. \A o \in Proc : o # Base => u.frame[o] = t.frame[o]
  BY <1>f DEF Sound, Core, Typed
<1>6. /\ p # t.current /\ u.state = [t.state EXCEPT ![t.current] = "Waiting"]
      /\ u.awaiting = t.awaiting \cup {t.current}
      /\ u.resumeTo = [t.resumeTo EXCEPT ![p] = t.current]
      /\ \A o \in Proc : o # t.current => u.frame[o] = t.frame[o]
  BY <1>1, <1>3, <1>5
<1>7. /\ u.ready = t.ready /\ u.quiescent = t.quiescent
      /\ u.waitingOn = t.waitingOn
  BY <1>3
<1>8. Places(SwitchTo(u, p)) /\ Kept(t, SwitchTo(u, p), {})
  BY <1>1, <1>2, <1>f, <1>6, <1>7, HandsOverPlaces
<1> QED
  BY <1>4, <1>8

\* afterResume.
LEMMA UnwoundPlaces ==
  ASSUME NEW t, Sound(t), Places(t)
  PROVE  /\ Places(Forgiven(Unwound(t)))
         /\ Kept(t, Forgiven(Unwound(t)), {})
<1> DEFINE u == Unwound(t)
           v == Forgiven(u)
<1>1. t.current \in Proc /\ t.state[t.current] = "Running"
  BY CurrentIsFree
<1>2. SameWaits(t, u)
  <2>1. CASE t.current \in t.condemned
    BY <1>1, <2>1 DEF Sound, Core, Typed, Unwound, SameWaits, Fields
  <2>2. CASE t.current \notin t.condemned
    BY <1>1, <2>2 DEF Sound, Core, Typed, Unwound, SameWaits, Fields
  <2> QED
    BY <2>1, <2>2
<1>3. Sound(u)
  BY UnwoundKeeps
<1> HIDE DEF u
<1>4. SameWaits(u, v)
  BY <1>3 DEF Sound, Core, Typed, Forgiven, SameWaits, Fields
<1> HIDE DEF v
<1>5. Places(u) /\ Kept(t, u, {})
  BY <1>2, PlacesDepend
<1>6. Places(v) /\ Kept(u, v, {})
  BY <1>4, <1>5, PlacesDepend
<1> QED
  BY <1>5, <1>6, KeptThrough DEF u, v

LEMMA ContinuesPlaces ==
  ASSUME NEW t, Sound(t), Places(t)
  PROVE  Places(Continues(t)) /\ Kept(t, Continues(t), {})
<1> DEFINE c == t.current
           q == t.frame[c]
<1>1. /\ c \in Proc /\ q \in Frames /\ t.state[c] = "Running" /\ Typed(t)
  BY CurrentIsFree DEF Sound, Core, Typed
<1>2. CASE Unwinds(t)
  BY <1>2, UnwoundPlaces DEF Continues
<1>3. CASE ~ Unwinds(t) /\ q \in Queues /\ t.contents[q] > 0
  <2> DEFINE u == Takes(t, q)
  <2>1. t.contents[q] - 1 \in Nat
    BY <1>3 DEF Sound, Core, Typed
  <2>2. u = [t EXCEPT !.contents[q] = t.contents[q] - 1]
    BY DEF Takes
  <2>3. Continues(t) = [u EXCEPT !.frame[c] = "code"]
    BY <1>3 DEF Continues
  <2>s. u.state = t.state
    BY <1>1, <2>2 DEF Typed, Fields
  <2> HIDE DEF u
  <2>4. Sound(u)
    BY <1>3, <2>1, <2>2, ContentsKeep
  <2>5. Places(u) /\ Kept(t, u, {})
    BY <1>1, <1>3, <2>2, ContentsPlaces
  <2>6. /\ Places([u EXCEPT !.frame[c] = "code"])
        /\ Kept(u, [u EXCEPT !.frame[c] = "code"], {})
    BY <1>1, <2>s, <2>4, <2>5, FramePlaces DEF Sound, Core
  <2> QED
    BY <2>3, <2>5, <2>6, KeptThrough
<1>4. CASE ~ Unwinds(t) /\ q \in Queues /\ ~ (t.contents[q] > 0)
  <2> DEFINE u == Emptied(t, q)
             s == ReadSynch[q]
  <2>1. s \in Semaphores /\ 0 \in 0 .. MaxExcess
    BY <1>4, QueueAssumption, ExcessAssumption
  <2>2. u = [t EXCEPT !.excess[s] = 0]
    BY DEF Emptied
  <2>3. Continues(t) = WaitsOn(u, s, q)
    BY <1>4 DEF Continues, WaitsForElement
  <2>e. u.excess[s] = 0
    BY <1>1, <2>1, <2>2 DEF Typed, Fields
  <2> HIDE DEF u, s
  <2>4. Sound(u)
    BY <2>1, <2>2, ExcessKeeps
  <2>5. Places(u) /\ Kept(t, u, {})
    BY <1>1, <2>1, <2>2, ExcessPlaces
  <2>6. Places(WaitsOn(u, s, q)) /\ Kept(u, WaitsOn(u, s, q), {})
    BY <1>1, <2>1, <2>e, <2>4, <2>5, WaitsOnPlaces
  <2> QED
    BY <2>3, <2>5, <2>6, KeptThrough
<1>5. CASE ~ Unwinds(t) /\ q \notin Queues
  <2>1. Continues(t) = [t EXCEPT !.frame[c] = "code"]
    BY <1>5 DEF Continues
  <2> QED
    BY <1>1, <2>1, FramePlaces
<1> QED
  BY <1>2, <1>3, <1>4, <1>5

-----------------------------------------------------------------------------
\* The invariant of the whole state, and what each step is shown to do.

IPlaces == IInv /\ Places(vm) /\ awaited # Base

\* What HaltedStays says of a step.
HaltedKept ==
  \A p \in HaltedOf(vm) :
    vm'.state[p] # "Halted" =>
      p = awaited' \/ p \in vm'.condemned \cup vm'.abandoned

Holds == Places(vm') /\ HaltedKept /\ awaited' # Base

LEMMA BecomesPlaces ==
  ASSUME IPlaces, NEW t, Places(t), Still(vm, t, {}), Becomes(t)
  PROVE  Holds
BY DEF IPlaces, Becomes, Holds, HaltedKept, HaltedOf, Still

LEMMA HostBecomesPlaces ==
  ASSUME IPlaces, NEW t, Places(t), Still(vm, t, {}), NEW h, HostBecomes(t, h)
  PROVE  Holds
BY DEF IPlaces, HostBecomes, Holds, HaltedKept, HaltedOf, Still

LEMMA OutOfMemoryPlaces ==
  ASSUME IPlaces, NEW t, Sound(t), Places(t), Kept(vm, t, {}), OutOfMemory(t)
  PROVE  Holds
<1> DEFINE v == Aborts([t EXCEPT !.heapMark = TRUE])
<1>1. Places(v) /\ Kept(t, v, {})
  BY AbortsPlaces
<1>2. vm' = v /\ awaited' = awaited
  BY DEF OutOfMemory
<1> HIDE DEF v
<1>3. Still(vm, v, {})
  BY <1>1, KeptIsStill
<1> QED
  BY <1>1, <1>2, <1>3 DEF IPlaces, Holds, HaltedKept, HaltedOf, Still

LEMMA HostOutOfMemoryPlaces ==
  ASSUME IPlaces, NEW t, Sound(t), Places(t), Kept(vm, t, {}), NEW h,
         HostOutOfMemory(t, h)
  PROVE  Holds
<1> DEFINE v == [t EXCEPT !.heapMark = TRUE]
<1>1. SameWaits(t, v)
  BY DEF Sound, Core, Typed, SameWaits, Fields
<1>2. vm' = v /\ awaited' = awaited
  BY DEF HostOutOfMemory
<1> HIDE DEF v
<1>3. Places(v) /\ Kept(t, v, {})
  BY <1>1, PlacesDepend
<1>4. Still(vm, v, {})
  BY <1>3, KeptIsStill
<1> QED
  BY <1>2, <1>3, <1>4 DEF IPlaces, Holds, HaltedKept, HaltedOf, Still

LEMMA StopsPlaces ==
  ASSUME IPlaces, NEW t, Sound(t), Places(t), Kept(vm, t, {}), t.current = me,
         Stops(t)
  PROVE  Holds
<1>1. CASE CanHalt /\ Becomes(Halts(t))
  <2>1. me # Base
    BY <1>1 DEF IPlaces, CanHalt
  <2>2. Places(Halts(t)) /\ Still(t, Halts(t), {})
    BY <2>1, HaltsPlaces
  <2>3. Still(vm, Halts(t), {})
    BY <2>2 DEF Still, Kept
  <2> QED
    BY <1>1, <2>2, <2>3, BecomesPlaces
<1>2. CASE Becomes(Aborts(t))
  <2>1. Places(Aborts(t)) /\ Kept(t, Aborts(t), {})
    BY AbortsPlaces
  <2>2. Still(vm, Aborts(t), {})
    BY <2>1, KeptIsStill
  <2> QED
    BY <1>2, <2>1, <2>2, BecomesPlaces
<1> QED
  BY <1>1, <1>2 DEF Stops

\* What an operation starts from.
LEMMA Here ==
  ASSUME IPlaces
  PROVE  /\ Sound(vm) /\ Core(vm) /\ Typed(vm) /\ Places(vm) /\ IInv
         /\ Kept(vm, vm, {}) /\ Still(vm, vm, {})
         /\ me \in Proc /\ vm.state[me] = "Running" /\ me = vm.current
         /\ \A p \in Proc : p # me => vm.state[p] # "Running"
BY AtRest DEF IPlaces, Kept, Still, me

-----------------------------------------------------------------------------
\* The operations of Smalltalk code.

LEMMA AbortPlaces ==
  ASSUME IPlaces, Becomes(Aborts(vm))
  PROVE  Holds
BY Here, AbortsPlaces, KeptIsStill, BecomesPlaces

LEMMA TroublePlaces == IPlaces /\ Trouble => Holds
BY Here, StopsPlaces DEF Trouble

LEMMA ForkPlaces == IPlaces /\ Fork => Holds
<1> SUFFICES ASSUME IPlaces, Fork PROVE Holds
  OBVIOUS
<1>1. CASE Becomes(Aborts(vm))
  BY <1>1, AbortPlaces
<1>2. CASE OutOfMemory(vm)
  BY <1>2, Here, OutOfMemoryPlaces
<1>3. ASSUME NEW p \in Fibers, IsNextPid(vm, p),
             Becomes(Enqueue(vm, p)) \/ OutOfMemory(Unmade(vm, p))
      PROVE  Holds
  <2>1. /\ p \in Proc /\ vm.state[p] = "None" /\ p # vm.current /\ p # Base
    BY <1>3, Here, Names DEF IsNextPid
  <2>2. Places(Enqueue(vm, p)) /\ Kept(vm, Enqueue(vm, p), {})
    BY <2>1, Here, EnqueuePlaces DEF Core, WaitsForOne
  <2>3. Still(vm, Enqueue(vm, p), {})
    BY <2>2, KeptIsStill
  <2> DEFINE u == Unmade(vm, p)
  <2>4. Typed(u)
    BY <2>1, Here, SMTT(30) DEF Typed, Unmade, States, Fields
  <2>5. /\ u.ready = vm.ready /\ u.quiescent = vm.quiescent
        /\ u.state = [vm.state EXCEPT ![p] = "Gone"]
        /\ u.awaiting = vm.awaiting /\ u.waitingOn = vm.waitingOn
        /\ u.current = vm.current
    BY Here DEF Typed, Unmade, Fields
  <2>6. /\ u.linkedList = vm.linkedList /\ u.myList = vm.myList
        /\ u.excess = vm.excess /\ u.frame = vm.frame /\ u.resumeTo = vm.resumeTo
    BY Here DEF Typed, Unmade, Fields
  <2> HIDE DEF u
  <2>7. Sound(u)
    BY <2>1, <2>4, <2>5, Here, OtherMoves
  <2>8. Places(u) /\ Kept(vm, u, {})
    BY <2>1, <2>5, <2>6, Here, OtherPlaces
  <2> QED
    BY <1>3, <2>2, <2>3, <2>7, <2>8, BecomesPlaces, OutOfMemoryPlaces DEF u
<1> QED
  BY <1>1, <1>2, <1>3, Here, ForkIs

LEMMA YieldStepPlaces == IPlaces /\ Yield => Holds
BY Here, YieldPlaces, KeptIsStill, BecomesPlaces, OutOfMemoryPlaces, YieldIs

LEMMA WaitPlaces == IPlaces /\ Wait => Holds
<1> SUFFICES ASSUME IPlaces, NEW s \in Plain,
                    \/ vm.excess[s] > 0 /\ Becomes(Answered(vm, s))
                    \/ vm.excess[s] = 0 /\ Becomes(WaitsOn(vm, s, "op"))
                    \/ vm.excess[s] = 0 /\ OutOfMemory(vm)
             PROVE  Holds
  BY DEF Wait
<1>1. s \in Semaphores /\ "op" \in Frames
  BY DEF Plain, Frames
<1>2. CASE vm.excess[s] > 0 /\ Becomes(Answered(vm, s))
  <2>1. Answered(vm, s) = [vm EXCEPT !.excess[s] = vm.excess[s] - 1]
    BY DEF Answered
  <2>2. Places(Answered(vm, s)) /\ Kept(vm, Answered(vm, s), {})
    BY <1>1, <1>2, <2>1, Here, ExcessPlaces
  <2> QED
    BY <1>2, <2>2, KeptIsStill, BecomesPlaces
<1>3. CASE vm.excess[s] = 0 /\ Becomes(WaitsOn(vm, s, "op"))
  BY <1>1, <1>3, Here, WaitsOnPlaces, KeptIsStill, BecomesPlaces
<1>4. CASE OutOfMemory(vm)
  BY <1>4, Here, OutOfMemoryPlaces
<1> QED
  BY <1>2, <1>3, <1>4

LEMMA SignalSemaphorePlaces == IPlaces /\ SignalSemaphore => Holds
<1> SUFFICES ASSUME IPlaces, NEW s \in Plain,
                    \/ ~Overflows(vm, s) /\ Becomes(Signal(vm, s))
                    \/ Overflows(vm, s) /\ Stops(DropStale(vm, s))
                    \/ FirstWaiter(vm, s) # 0 /\ OutOfMemory(DropStale(vm, s))
             PROVE  Holds
  BY Here, SignalSemaphoreIs
<1>1. s \in Semaphores
  BY DEF Plain
<1>2. /\ Sound(DropStale(vm, s)) /\ DropStale(vm, s).current = me
      /\ Places(DropStale(vm, s)) /\ Kept(vm, DropStale(vm, s), {})
  BY <1>1, Here, SignalSound, DropStalePlaces
<1>3. ~ Overflows(vm, s) =>
        Places(Signal(vm, s)) /\ Still(vm, Signal(vm, s), {})
  BY <1>1, Here, SignalPlaces, KeptIsStill
<1> QED
  BY <1>2, <1>3, BecomesPlaces, StopsPlaces, OutOfMemoryPlaces

LEMMA SuspendPlaces == IPlaces /\ Suspend => Holds
<1> SUFFICES ASSUME IPlaces, Suspend PROVE Holds
  OBVIOUS
<1>1. CASE Becomes(Blocks([vm EXCEPT !.state[me] = "Suspended"], "op"))
  <2> DEFINE u == [vm EXCEPT !.state[me] = "Suspended"]
  <2>1. Typed(u)
    BY Here, SMTT(30) DEF Typed, States, Fields
  <2>2. /\ u.ready = vm.ready /\ u.quiescent = vm.quiescent
        /\ u.state = [vm.state EXCEPT ![vm.current] = "Suspended"]
        /\ u.awaiting = vm.awaiting /\ u.waitingOn = vm.waitingOn
        /\ u.current = vm.current
    BY Here DEF Typed, Fields
  <2>3. /\ u.linkedList = vm.linkedList /\ u.myList = vm.myList
        /\ u.excess = vm.excess /\ u.frame = vm.frame /\ u.resumeTo = vm.resumeTo
    BY Here DEF Typed, Fields
  <2> HIDE DEF u
  <2>4. "Suspended" \in States \ {"Ready", "Running"} /\ "op" \in Frames
    BY DEF States, Frames
  <2>5. Core(u) /\ Parked(u)
    BY <2>1, <2>2, <2>4, Here, StopParks
  <2>6. Places(u) /\ Kept(vm, u, {})
    BY <2>2, <2>3, Here, StopPlaces
  <2>7. u.state[u.current] # "Halted"
    BY <2>2, Here DEF Typed
  <2>8. Places(Blocks(u, "op")) /\ Kept(u, Blocks(u, "op"), {})
    BY <2>4, <2>5, <2>6, <2>7, BlocksPlaces
  <2>9. Still(vm, Blocks(u, "op"), {})
    BY <2>6, <2>8, KeptIsStill
  <2> QED
    BY <1>1, <2>8, <2>9, BecomesPlaces DEF u
<1>2. ASSUME NEW p \in Named, vm.state[p] \in {"Ready", "Waiting"},
             Becomes(LeaveLists(vm, p))
      PROVE  Holds
  <2>1. p \in Proc
    BY <1>2 DEF Named
  <2>2. Places(LeaveLists(vm, p)) /\ Kept(vm, LeaveLists(vm, p), {})
    BY <1>2, <2>1, Here, LeaveListsPlaces
  <2> QED
    BY <1>2, <2>2, KeptIsStill, BecomesPlaces
<1> QED
  BY <1>1, <1>2 DEF Suspend

LEMMA ResumePlaces == IPlaces /\ Resume => Holds
<1> SUFFICES ASSUME IPlaces, NEW p \in Named,
                    \/ Becomes(Aborts(vm))
                    \/ Resumable(p) /\ Becomes(Enqueue(vm, p))
                    \/ Resumable(p) /\ OutOfMemory(vm)
             PROVE  Holds
  BY Here, ResumeIs
<1>1. CASE Becomes(Aborts(vm))
  BY <1>1, AbortPlaces
<1>2. CASE Resumable(p) /\ Becomes(Enqueue(vm, p))
  <2>1. /\ p \in Proc /\ vm.state[p] = "Suspended"
        /\ p \notin vm.awaiting /\ vm.waitingOn[p] = Nil
    BY <1>2, Here DEF Named, Resumable, Core, WaitsForOne
  <2>2. Places(Enqueue(vm, p)) /\ Kept(vm, Enqueue(vm, p), {})
    BY <2>1, Here, EnqueuePlaces
  <2> QED
    BY <1>2, <2>2, KeptIsStill, BecomesPlaces
<1>3. CASE OutOfMemory(vm)
  BY <1>3, Here, OutOfMemoryPlaces
<1> QED
  BY <1>1, <1>2, <1>3

\* The signal a terminate gives back.
LEMMA RelievedPlaces ==
  ASSUME IPlaces, NEW p \in Proc, vm.state[p] # "Gone",
         GivesBack(p) => ~ Overflows(vm, vm.signaledBy[p])
  PROVE  /\ Places(Relieved(p)) /\ Kept(vm, Relieved(p), {})
         /\ Relieved(p).state[p] # "Gone"
<1> DEFINE s == vm.signaledBy[p]
           v == Signal(vm, s)
           u == [v EXCEPT !.signaledBy[p] = Nil]
<1>1. CASE ~ GivesBack(p)
  BY <1>1, Here DEF Relieved
<1>2. CASE GivesBack(p)
  <2>1. s \in Semaphores
    BY <1>2, Here DEF GivesBack, Typed
  <2>2. Sound(v) /\ Places(v) /\ Kept(vm, v, {}) /\ v.state[p] # "Gone"
    BY <1>2, <2>1, Here, SignalSound, SignalPlaces
  <2>3. Relieved(p) = u
    BY <1>2 DEF Relieved
  <2> HIDE DEF v
  <2>4. SameWaits(v, u)
    BY <2>2 DEF Sound, Core, Typed, SameWaits, Fields
  <2> HIDE DEF u
  <2>5. Places(u) /\ Kept(v, u, {}) /\ u.state = v.state
    BY <2>2, <2>4, PlacesDepend DEF SameWaits
  <2> QED
    BY <2>2, <2>3, <2>5, KeptThrough
<1> QED
  BY <1>1, <1>2

LEMMA GivesBackPlaces ==
  ASSUME IPlaces, NEW p \in Proc, GivesBack(p)
  PROVE  LET t == DropStale(vm, vm.signaledBy[p])
         IN /\ Sound(t) /\ t.current = me
            /\ Places(t) /\ Kept(vm, t, {}) /\ Still(vm, t, {})
<1>1. vm.signaledBy[p] \in Semaphores
  BY Here DEF GivesBack, Typed
<1> QED
  BY <1>1, Here, SignalSound, DropStalePlaces, KeptIsStill

\* A terminate, from Smalltalk code or from the base.
LEMMA TerminatedHolds ==
  ASSUME IPlaces, NEW t, Sound(t), Places(t), Kept(vm, t, {}),
         NEW p \in Fibers, p # t.current, t.state[p] # "Gone",
         vm' = Terminated(t, p), awaited' = awaited
  PROVE  Holds
<1> DEFINE u == Terminated(t, p)
<1>1. /\ Places(u) /\ Kept(t, u, {p})
      /\ t.state[p] = "Halted" => p \in u.condemned
  BY TerminatedPlaces
<1>2. vm' = u
  OBVIOUS
<1> HIDE DEF u
<1>3. HaltedKept
  BY <1>1, <1>2 DEF HaltedKept, HaltedOf, Kept
<1> QED
  BY <1>1, <1>2, <1>3 DEF Holds, IPlaces

LEMMA TerminatePlaces == IPlaces /\ Terminate => Holds
<1> SUFFICES ASSUME IPlaces, Terminate PROVE Holds
  OBVIOUS
<1>1. CASE Becomes(Aborts([vm EXCEPT !.terminated = @ \cup {me}]))
  <2> DEFINE u == [vm EXCEPT !.terminated = @ \cup {me}]
  <2>1. /\ Typed(u) /\ SamePlaces(vm, u) /\ u.current = vm.current
        /\ SameWaits(vm, u)
    <3>1. Typed(u)
      BY Here, SMTT(30) DEF Typed, Fields
    <3>2. SamePlaces(vm, u) /\ u.current = vm.current /\ SameWaits(vm, u)
      BY Here DEF Typed, SamePlaces, SameWaits, Fields
    <3> QED
      BY <3>1, <3>2
  <2> HIDE DEF u
  <2>2. Sound(u) /\ Places(u) /\ Kept(vm, u, {})
    BY <2>1, Here, SoundDepends, PlacesDepend
  <2>3. Places(Aborts(u)) /\ Kept(u, Aborts(u), {})
    BY <2>2, AbortsPlaces
  <2>4. Still(vm, Aborts(u), {})
    BY <2>2, <2>3, KeptIsStill
  <2> QED
    BY <1>1, <2>3, <2>4, BecomesPlaces DEF u
<1>2. CASE Becomes(Aborts(vm))
  BY <1>2, AbortPlaces
<1>3. ASSUME NEW p \in LiveFibers(vm) \ {me}, TerminatesOther(p)
      PROVE  Holds
  <2>1. p \in Proc /\ p \in Fibers /\ p # me /\ vm.state[p] # "Gone"
    BY <1>3 DEF LiveFibers, Live, LiveStates, Fibers
  <2>2. CASE /\ GivesBack(p) => ~Overflows(vm, vm.signaledBy[p])
             /\ Becomes(Terminated(Relieved(p), p))
    <3>1. Sound(Relieved(p)) /\ Relieved(p).current = me
      BY <2>1, <2>2, Here, RelievedSound
    <3>2. /\ Places(Relieved(p)) /\ Kept(vm, Relieved(p), {})
          /\ Relieved(p).state[p] # "Gone"
      BY <2>1, <2>2, RelievedPlaces
    <3>3. vm' = Terminated(Relieved(p), p) /\ awaited' = awaited
      BY <2>2 DEF Becomes
    <3> QED
      BY <2>1, <3>1, <3>2, <3>3, TerminatedHolds
  <2>3. CASE GivesBack(p) /\ Stops(DropStale(vm, vm.signaledBy[p]))
    BY <2>1, <2>3, GivesBackPlaces, StopsPlaces
  <2>4. CASE GivesBack(p) /\ OutOfMemory(DropStale(vm, vm.signaledBy[p]))
    BY <2>1, <2>4, GivesBackPlaces, OutOfMemoryPlaces
  <2> QED
    BY <1>3, <2>1, <2>2, <2>3, <2>4, Here, TerminatesOtherIs
<1> QED
  BY <1>1, <1>2, <1>3 DEF Terminate

LEMMA NextPutPlaces == IPlaces /\ NextPut => Holds
<1> SUFFICES ASSUME IPlaces, NextPut PROVE Holds
  OBVIOUS
<1>1. PICK q \in Queues :
        LET s   == ReadSynch[q]
            put == [vm EXCEPT !.contents[q] = @ + 1]
        IN \/ ~Overflows(vm, s) /\ Becomes(Signal(put, s))
           \/ Becomes(Aborts(TakesBack(DropStale(put, s), q)))
           \/ OutOfMemory(vm)
           \/ OutOfMemory(TakesBack(DropStale(put, s), q))
  BY Here, NextPutIs
<1> DEFINE s    == ReadSynch[q]
           n    == vm.contents[q]
           put  == [vm EXCEPT !.contents[q] = @ + 1]
           left == DropStale(put, s)
           back == TakesBack(left, q)
<1>2. s \in Semaphores /\ n \in Nat
  BY QueueAssumption, Here DEF Typed
<1>3. put = [vm EXCEPT !.contents[q] = n + 1]
  OBVIOUS
<1>4. /\ Sound(put) /\ put.contents[q] = n + 1
      /\ put.linkedList = vm.linkedList /\ put.state = vm.state
      /\ put.waitingOn = vm.waitingOn /\ put.excess = vm.excess
  <2>1. Sound(put) /\ put.contents[q] = n + 1
    <3>1. PICK m : m = n + 1
      OBVIOUS
    <3>2. m \in Nat /\ put = [vm EXCEPT !.contents[q] = m]
      BY <1>2, <1>3, <3>1
    <3> HIDE DEF put, n
    <3> QED
      BY <3>1, <3>2, Here, ContentsKeep
  <2>2. /\ put.linkedList = vm.linkedList /\ put.state = vm.state
        /\ put.waitingOn = vm.waitingOn /\ put.excess = vm.excess
    BY Here DEF Typed, Fields
  <2> QED
    BY <2>1, <2>2
<1>p. Places(put) /\ Kept(vm, put, {})
  <2> HIDE DEF n
  <2> QED
    BY <1>3, Here, ContentsPlaces
<1> HIDE DEF put, s
<1>5. Overflows(put, s) <=> Overflows(vm, s)
  BY <1>4 DEF Overflows, FirstWaiter, Waits
<1>6. ~ Overflows(vm, s) => Places(Signal(put, s)) /\ Still(vm, Signal(put, s), {})
  <2>1. SUFFICES ASSUME ~ Overflows(vm, s)
                 PROVE  Places(Signal(put, s)) /\ Still(vm, Signal(put, s), {})
    OBVIOUS
  <2>2. Places(Signal(put, s)) /\ Kept(put, Signal(put, s), {})
    BY <1>2, <1>4, <1>p, <1>5, <2>1, SignalPlaces DEF Sound
  <2> QED
    BY <1>p, <2>2, KeptIsStill
<1>7. /\ Sound(left) /\ left.contents = put.contents
      /\ Places(left) /\ Kept(put, left, {})
  BY <1>2, <1>4, <1>p, SignalSound, DropStalePlaces DEF Sound
<1> HIDE DEF left
<1>8. Sound(back) /\ Places(back) /\ Kept(vm, back, {})
  <2>1. back = [left EXCEPT !.contents[q] = n]
    <3>1. left.contents[q] - 1 = n
      BY <1>2, <1>4, <1>7
    <3>2. back = [left EXCEPT !.contents[q] = left.contents[q] - 1]
      BY DEF TakesBack
    <3> HIDE DEF back, n
    <3> QED
      BY <3>1, <3>2
  <2> HIDE DEF back, n
  <2>2. Sound(back)
    BY <1>2, <1>7, <2>1, ContentsKeep
  <2>3. Places(back) /\ Kept(left, back, {})
    BY <1>7, <2>1, ContentsPlaces DEF Sound, Core
  <2>4. Kept(vm, left, {})
    BY <1>p, <1>7, KeptThrough
  <2> QED
    BY <2>2, <2>3, <2>4, KeptThrough
<1> HIDE DEF back
<1>9. Places(Aborts(back)) /\ Still(vm, Aborts(back), {})
  BY <1>8, AbortsPlaces, KeptIsStill
<1>10. \/ ~Overflows(vm, s) /\ Becomes(Signal(put, s))
       \/ Becomes(Aborts(back))
       \/ OutOfMemory(vm)
       \/ OutOfMemory(back)
  BY <1>1 DEF s, put, left, back
<1> QED
  BY <1>6, <1>8, <1>9, <1>10, Here, BecomesPlaces, OutOfMemoryPlaces

\* A reader that finds no element waits, with the signals used up.
LEMMA EmptiedPlaces ==
  ASSUME NEW t, Sound(t), Places(t), NEW q \in Queues
  PROVE  /\ Sound(Emptied(t, q)) /\ Places(Emptied(t, q))
         /\ Kept(t, Emptied(t, q), {})
         /\ Places(WaitsForElement(t, q)) /\ Kept(t, WaitsForElement(t, q), {})
         /\ Emptied(t, q).state = t.state
<1> DEFINE s == ReadSynch[q]
           u == Emptied(t, q)
<1>1. s \in Semaphores /\ 0 \in 0 .. MaxExcess /\ q \in Frames
  BY QueueAssumption, ExcessAssumption DEF Frames
<1>2. u = [t EXCEPT !.excess[s] = 0]
  BY DEF Emptied
<1>3. u.excess[s] = 0 /\ u.state = t.state
  BY <1>1, <1>2 DEF Sound, Core, Typed, Fields
<1>4. WaitsForElement(t, q) = WaitsOn(u, s, q)
  BY DEF WaitsForElement
<1> HIDE DEF u, s
<1>5. Sound(u) /\ Places(u) /\ Kept(t, u, {})
  BY <1>1, <1>2, ExcessKeeps, ExcessPlaces DEF Sound, Core
<1>6. Places(WaitsOn(u, s, q)) /\ Kept(u, WaitsOn(u, s, q), {})
  BY <1>1, <1>3, <1>5, WaitsOnPlaces
<1> QED
  BY <1>3, <1>4, <1>5, <1>6, KeptThrough DEF u

LEMMA NextElementPlaces == IPlaces /\ NextElement => Holds
<1> SUFFICES ASSUME IPlaces, NextElement PROVE Holds
  OBVIOUS
<1>1. PICK q \in Queues :
        \/ /\ vm.excess[ReadSynch[q]] > 0 /\ vm.contents[q] > 0
           /\ Becomes(Takes(Answered(vm, ReadSynch[q]), q))
        \/ Becomes(WaitsForElement(vm, q))
        \/ OutOfMemory(Emptied(vm, q))
  BY DEF NextElement
<1> DEFINE s == ReadSynch[q]
<1>2. s \in Semaphores
  BY QueueAssumption
<1> HIDE DEF s
<1>3. CASE /\ vm.excess[s] > 0 /\ vm.contents[q] > 0
           /\ Becomes(Takes(Answered(vm, s), q))
  <2> DEFINE u == Answered(vm, s)
             v == Takes(u, q)
  <2>1. u = [vm EXCEPT !.excess[s] = vm.excess[s] - 1]
    BY DEF Answered
  <2>t. vm.excess[s] - 1 \in 0 .. MaxExcess
    BY <1>2, <1>3, ExcessAssumption, Here DEF Typed
  <2> HIDE DEF u
  <2>2. Places(u) /\ Kept(vm, u, {})
    BY <1>2, <1>3, <2>1, Here, ExcessPlaces
  <2>3. Sound(u)
    BY <1>2, <2>1, <2>t, Here, ExcessKeeps
  <2>4. v = [u EXCEPT !.contents[q] = u.contents[q] - 1]
    BY DEF Takes
  <2> HIDE DEF v
  <2>5. Places(v) /\ Kept(u, v, {})
    BY <2>2, <2>3, <2>4, ContentsPlaces DEF Sound, Core
  <2>6. Still(vm, v, {})
    BY <2>2, <2>5, KeptIsStill
  <2> QED
    BY <1>3, <2>5, <2>6, BecomesPlaces DEF u, v
<1>4. /\ Sound(Emptied(vm, q)) /\ Places(Emptied(vm, q))
      /\ Kept(vm, Emptied(vm, q), {})
      /\ Places(WaitsForElement(vm, q)) /\ Still(vm, WaitsForElement(vm, q), {})
  BY Here, EmptiedPlaces, KeptIsStill
<1> QED
  BY <1>1, <1>3, <1>4, BecomesPlaces, OutOfMemoryPlaces DEF s

LEMMA CodePlaces == IPlaces /\ Code => Holds
BY TroublePlaces, ForkPlaces, YieldStepPlaces, WaitPlaces, SignalSemaphorePlaces,
   SuspendPlaces, ResumePlaces, TerminatePlaces, NextPutPlaces, NextElementPlaces
DEF Code

-----------------------------------------------------------------------------
\* A process runs again, begins or ends.

LEMMA ResumesPlaces == IPlaces /\ Resumes => Holds
<1> SUFFICES ASSUME IPlaces, Resumes PROVE Holds
  OBVIOUS
<1> DEFINE t == ReapDead(vm)
<1>1. Sound(t) /\ t.current = me /\ Places(t) /\ Kept(vm, t, {})
  BY Here, ReapDeadKeeps, ReapDeadPlaces
<1> HIDE DEF t
<1>2. CASE Becomes(Continues(t))
  <2>1. Places(Continues(t)) /\ Kept(t, Continues(t), {})
    BY <1>1, ContinuesPlaces
  <2> QED
    BY <1>1, <1>2, <2>1, KeptIsStill, BecomesPlaces
<1>3. CASE /\ vm.frame[me] \in Queues
           /\ OutOfMemory([Emptied(t, vm.frame[me]) EXCEPT !.frame[me] = "code"])
  <2> DEFINE q == vm.frame[me]
             u == Emptied(t, q)
             v == [u EXCEPT !.frame[me] = "code"]
  <2>1. Sound(u) /\ Places(u) /\ Kept(t, u, {}) /\ u.state = t.state
    BY <1>1, <1>3, EmptiedPlaces
  <2> HIDE DEF u
  <2>2. me \in Proc /\ "code" \in Frames /\ u.state[me] = "Running"
    BY <1>1, <2>1, Here, CurrentIsFree DEF Frames
  <2>3. Sound(v)
    BY <2>1, <2>2, FrameKeeps
  <2>4. Places(v) /\ Kept(u, v, {})
    BY <2>1, <2>2, FramePlaces DEF Sound, Core
  <2> HIDE DEF v
  <2>5. Kept(vm, v, {})
    BY <1>1, <2>1, <2>4, KeptThrough
  <2> QED
    BY <1>3, <2>3, <2>4, <2>5, OutOfMemoryPlaces DEF u, v
<1> QED
  BY <1>2, <1>3 DEF Resumes, t

LEMMA BeginsPlaces == IPlaces /\ Begins => Holds
<1> SUFFICES ASSUME IPlaces, Begins PROVE Holds
  OBVIOUS
<1> DEFINE t == ReapDead(vm)
           u == [t EXCEPT !.frame[me] = "code"]
<1>1. /\ Sound(t) /\ Places(t) /\ Kept(vm, t, {}) /\ t.current = me
  BY Here, ReapDeadKeeps, ReapDeadPlaces
<1> HIDE DEF t
<1>2. t.state[me] = "Running" /\ me \in Proc
  BY <1>1, CurrentIsFree
<1>3. Places(u) /\ Kept(t, u, {})
  BY <1>1, <1>2, FramePlaces DEF Sound, Core
<1>4. Becomes(u)
  BY DEF Begins, t
<1> HIDE DEF u
<1>5. Still(vm, u, {})
  BY <1>1, <1>3, KeptIsStill
<1> QED
  BY <1>3, <1>4, <1>5, BecomesPlaces

LEMMA EndBodyPlaces == IPlaces /\ EndBody => Holds
<1> SUFFICES ASSUME IPlaces, NEW lost \in BOOLEAN, Ends(lost) PROVE Holds
  BY DEF EndBody
<1> DEFINE p == me
           u == [vm EXCEPT !.state[p] = "Dead", !.myList[p] = Nil, !.heapMark = FALSE]
<1>1. Typed(u)
  BY Here, SMTT(30) DEF Typed, States, Fields
<1>2. /\ u.ready = vm.ready /\ u.quiescent = vm.quiescent
      /\ u.state = [vm.state EXCEPT ![vm.current] = "Dead"]
      /\ u.awaiting = vm.awaiting /\ u.waitingOn = vm.waitingOn
      /\ u.current = p
  BY Here DEF Typed, Fields
<1>3. /\ u.linkedList = vm.linkedList /\ u.excess = vm.excess
      /\ u.myList = [vm.myList EXCEPT ![vm.current] = Nil]
      /\ u.frame = vm.frame /\ u.resumeTo = vm.resumeTo
  BY Here DEF Typed, Fields
<1>4. vm' = SwitchAway(u, p) /\ awaited' = awaited /\ p # Base
  BY DEF Ends
<1> HIDE DEF u
<1>5. "Dead" \in States \ {"Ready", "Running"}
  BY DEF States
<1>6. Core(u) /\ Parked(u)
  BY <1>1, <1>2, <1>5, Here, StopParks
<1>7. Places(u) /\ Kept(vm, u, {})
  BY <1>2, <1>3, <1>4, Here, StopPlaces
<1>8. Places(vm') /\ Kept(u, vm', {})
  BY <1>2, <1>4, <1>6, <1>7, SwitchAwayPlaces
<1>9. Still(vm, vm', {})
  BY <1>7, <1>8, KeptIsStill
<1> QED
  BY <1>4, <1>8, <1>9 DEF Holds, HaltedKept, HaltedOf, Still, IPlaces

-----------------------------------------------------------------------------
\* The calls of the host and its loops.

\* The host clears what no list, pointer or state depends on.
LEMMA ClearedPlaces ==
  ASSUME IPlaces
  PROVE  /\ Sound(Cleared) /\ Places(Cleared) /\ Kept(vm, Cleared, {})
         /\ Still(vm, Cleared, {}) /\ Cleared.current = me
         /\ LET t == [vm EXCEPT !.aborting = @ \ {Base}]
            IN Places(t) /\ Kept(vm, t, {}) /\ Still(vm, t, {})
         /\ LET t == [vm EXCEPT !.heapMark = FALSE]
            IN Places(t) /\ Kept(vm, t, {}) /\ Still(vm, t, {})
<1>1. Sound(Cleared) /\ Cleared.current = me
  BY Here, ClearedSound
<1>2. SameWaits(vm, Cleared)
  BY Here DEF Typed, Cleared, SameWaits, Fields
<1>3. SameWaits(vm, [vm EXCEPT !.aborting = @ \ {Base}])
  BY Here DEF Typed, SameWaits, Fields
<1>4. SameWaits(vm, [vm EXCEPT !.heapMark = FALSE])
  BY Here DEF Typed, SameWaits, Fields
<1>5. \A t : SameWaits(vm, t) => Places(t) /\ Kept(vm, t, {}) /\ Still(vm, t, {})
  BY Here, PlacesDepend, KeptIsStill
<1> QED
  BY <1>1, <1>2, <1>3, <1>4, <1>5

LEMMA AwaitEvalPlaces ==
  ASSUME IPlaces, NEW t, Sound(t), Places(t), t.current = Base, NEW p \in Fibers,
         t.state[p] = "Suspended", Kept(vm, t, {p}), AwaitEval(t, p)
  PROVE  Holds
<1> DEFINE u == RunAwaited(t, p)
<1>1. Places(u) /\ Kept(t, u, {})
  BY RunAwaitedPlaces
<1>2. vm' = u /\ awaited' = p /\ p # Base
  BY Names DEF AwaitEval
<1> HIDE DEF u
<1>3. HaltedKept
  BY <1>1, <1>2 DEF HaltedKept, HaltedOf, Kept
<1> QED
  BY <1>1, <1>2, <1>3 DEF Holds

LEMMA EvalLivePlaces == IPlaces /\ EvalLive => Holds
<1> SUFFICES ASSUME IPlaces, EvalLive PROVE Holds
  OBVIOUS
<1>1. me = Base /\ Sound(Cleared) /\ Places(Cleared) /\ Kept(vm, Cleared, {})
  BY ClearedPlaces DEF EvalLive, Called, InHost
<1>2. CASE \/ HostBecomes(Cleared, Draining("eval", TRUE))
           \/ HostOutOfMemory(Cleared, Draining("eval", TRUE))
  BY <1>2, ClearedPlaces, HostBecomesPlaces, HostOutOfMemoryPlaces
<1>3. ASSUME NEW p \in Fibers, IsNextPid(vm, p),
             AwaitEval([Cleared EXCEPT !.state[p] = "Suspended",
                                       !.evals = @ \cup {p}], p)
      PROVE  Holds
  <2> DEFINE c == Cleared
             u == [c EXCEPT !.state[p] = "Suspended", !.evals = @ \cup {p}]
  <2>1. p \in Proc /\ p # me /\ c.state[p] = "None" /\ c.current = me
    BY <1>1, <1>3, Here, ClearedSound, Names DEF IsNextPid, SamePlaces
  <2> HIDE DEF c
  <2>2. Typed(u)
    BY <1>1, <2>1, SMTT(30) DEF Sound, Core, Typed, States, Fields, c
  <2>3. /\ u.ready = c.ready /\ u.quiescent = c.quiescent
        /\ u.state = [c.state EXCEPT ![p] = "Suspended"]
        /\ u.awaiting = c.awaiting /\ u.waitingOn = c.waitingOn
        /\ u.current = c.current
    BY <1>1 DEF Sound, Core, Typed, Fields, c
  <2>4. /\ u.linkedList = c.linkedList /\ u.myList = c.myList
        /\ u.excess = c.excess /\ u.frame = c.frame /\ u.resumeTo = c.resumeTo
    BY <1>1 DEF Sound, Core, Typed, Fields, c
  <2>5. AwaitEval(u, p)
    BY <1>3 DEF c
  <2> HIDE DEF u
  <2>6. Sound(u)
    BY <1>1, <2>1, <2>2, <2>3, OtherMoves DEF c
  <2>7. Places(u) /\ Kept(c, u, {})
    BY <1>1, <2>1, <2>3, <2>4, Names, OtherPlaces DEF c
  <2>8. u.state[p] = "Suspended" /\ u.current = Base
    BY <1>1, <2>1, <2>3 DEF Sound, Core, Typed, c
  <2>9. Kept(vm, u, {p})
    BY <1>1, <2>7, KeptThrough, KeptMore DEF c
  <2> QED
    BY <2>5, <2>6, <2>7, <2>8, <2>9, AwaitEvalPlaces
<1> QED
  BY <1>2, <1>3 DEF EvalLive

LEMMA ProceedPlaces == IPlaces /\ Proceed => Holds
<1> SUFFICES ASSUME IPlaces, Proceed PROVE Holds
  OBVIOUS
<1>1. me = Base /\ Sound(Cleared) /\ Places(Cleared) /\ Kept(vm, Cleared, {})
  BY ClearedPlaces DEF Proceed, Called, InHost
<1>2. PICK p \in HaltedOf(vm) :
        AwaitEval([Cleared EXCEPT !.state[p] = "Suspended"], p)
  BY DEF Proceed
<1> DEFINE c == Cleared
           u == [c EXCEPT !.state[p] = "Suspended"]
<1>3. p \in Fibers /\ p \in Proc /\ p # me /\ c.state[p] = "Halted" /\ c.current = me
  BY <1>1, Here, ClearedSound DEF HaltedOf, SamePlaces, Fibers
<1> HIDE DEF c
<1>4. Typed(u)
  BY <1>1, <1>3, SMTT(30) DEF Sound, Core, Typed, States, Fields, c
<1>5. /\ u.ready = c.ready /\ u.quiescent = c.quiescent
      /\ u.state = [c.state EXCEPT ![p] = "Suspended"]
      /\ u.awaiting = c.awaiting /\ u.waitingOn = c.waitingOn
      /\ u.current = c.current
  BY <1>1 DEF Sound, Core, Typed, Fields, c
<1>6. /\ u.linkedList = c.linkedList /\ u.myList = c.myList
      /\ u.excess = c.excess /\ u.frame = c.frame /\ u.resumeTo = c.resumeTo
  BY <1>1 DEF Sound, Core, Typed, Fields, c
<1>7. AwaitEval(u, p)
  BY <1>2 DEF c
<1> HIDE DEF u
<1>8. Sound(u)
  BY <1>1, <1>3, <1>4, <1>5, OtherMoves DEF c
<1>9. Places(u) /\ Kept(c, u, {p})
  BY <1>1, <1>3, <1>5, <1>6, Names, OtherPlaces DEF c
<1>10. u.state[p] = "Suspended" /\ u.current = Base
  BY <1>1, <1>3, <1>5 DEF Sound, Core, Typed, c
<1>11. Kept(vm, u, {p})
  BY <1>1, <1>9, KeptThrough, KeptMore DEF c
<1> QED
  BY <1>3, <1>7, <1>8, <1>9, <1>10, <1>11, AwaitEvalPlaces

LEMMA AbortHaltedPlaces == IPlaces /\ AbortHalted => Holds
<1> SUFFICES ASSUME IPlaces, AbortHalted PROVE Holds
  OBVIOUS
<1>1. me = Base /\ Sound(Cleared) /\ Places(Cleared) /\ Kept(vm, Cleared, {})
      /\ Cleared.current = me
  BY ClearedPlaces DEF AbortHalted, Called, InHost
<1>2. PICK p \in HaltedOf(vm) :
        HostBecomes(Terminated(Cleared, p), Draining("eval", TRUE))
  BY DEF AbortHalted
<1>3. p \in Fibers /\ p # me /\ Cleared.state[p] # "Gone"
  BY <1>1, Here, ClearedSound DEF HaltedOf, SamePlaces, Fibers
<1>4. vm' = Terminated(Cleared, p) /\ awaited' = awaited
  BY <1>2 DEF HostBecomes
<1> QED
  BY <1>1, <1>3, <1>4, TerminatedHolds

LEMMA CallsPlaces == IPlaces /\ Calls => Holds
<1> SUFFICES ASSUME IPlaces, Calls PROVE Holds
  OBVIOUS
<1>1. CASE Eval
  BY <1>1, ClearedPlaces, HostBecomesPlaces DEF Eval
<1>2. CASE Close
  BY <1>2, Here, HostBecomesPlaces DEF Close
<1> QED
  BY <1>1, <1>2, EvalLivePlaces, ProceedPlaces, AbortHaltedPlaces DEF Calls

LEMMA AwaitLoopPlaces == IPlaces /\ AwaitLoop => Holds
<1> SUFFICES ASSUME IPlaces, AwaitLoop PROVE Holds
  OBVIOUS
<1>1. /\ me = Base /\ awaited \in Fibers /\ awaited \in Proc
      /\ vm.state[awaited] \notin {"Dead", "Gone", "Halted"}
  BY Here, Names, AwaitLoopIs DEF AwaitOver, InHost, IInv, AwaitsFiber
<1>2. CASE Becomes(YieldFrom(vm))
  BY <1>2, Here, YieldPlaces, KeptIsStill, BecomesPlaces
<1>3. CASE HostOutOfMemory(vm, host)
  BY <1>3, Here, HostOutOfMemoryPlaces
<1>4. CASE Becomes(EvalDeadlocks(vm))
  <2> DEFINE out == LeaveLists(vm, awaited)
             u   == [out EXCEPT !.deadlocked = @ \cup {awaited}]
  <2>1. awaited # vm.current
    BY <1>1, Names DEF me
  <2>2. /\ Sound(out) /\ out.current = Base /\ out.state[awaited] = "Suspended"
    BY <1>1, <2>1, Here, LeaveListsSound DEF me
  <2>3. Places(out) /\ Kept(vm, out, {})
    BY <1>1, Here, LeaveListsPlaces
  <2> HIDE DEF out
  <2>4. /\ Typed(u) /\ SamePlaces(out, u) /\ u.current = out.current
        /\ SameWaits(out, u)
    <3>1. Typed(u)
      BY <1>1, <2>2, SMTT(30) DEF Sound, Core, Typed, Fields
    <3>2. SamePlaces(out, u) /\ u.current = out.current /\ SameWaits(out, u)
      BY <2>2 DEF Sound, Core, Typed, SamePlaces, SameWaits, Fields
    <3> QED
      BY <3>1, <3>2
  <2> HIDE DEF u
  <2>5. Sound(u) /\ u.current = Base /\ u.state[awaited] = "Suspended"
    BY <2>2, <2>4, SoundDepends DEF SamePlaces
  <2>6. Places(u) /\ Kept(out, u, {})
    BY <2>3, <2>4, PlacesDepend
  <2>7. Places(RunAwaited(u, awaited)) /\ Kept(u, RunAwaited(u, awaited), {})
    BY <1>1, <2>5, <2>6, RunAwaitedPlaces
  <2>8. Still(vm, RunAwaited(u, awaited), {})
    BY <2>3, <2>6, <2>7, KeptThrough, KeptIsStill
  <2>9. EvalDeadlocks(vm) = RunAwaited(u, awaited)
    BY DEF EvalDeadlocks, u, out
  <2> QED
    BY <1>4, <2>7, <2>8, <2>9, BecomesPlaces
<1> QED
  BY <1>2, <1>3, <1>4, Here, AwaitLoopIs

LEMMA AwaitDonePlaces == IPlaces /\ AwaitDone => Holds
<1> SUFFICES ASSUME IPlaces, AwaitDone PROVE Holds
  OBVIOUS
<1> DEFINE t == [vm EXCEPT !.aborting = @ \ {Base}]
<1>1. Places(t) /\ Still(vm, t, {})
  BY ClearedPlaces
<1>2. vm' = t /\ awaited' # Base
  BY Names DEF AwaitDone
<1> HIDE DEF t
<1> QED
  BY <1>1, <1>2 DEF Holds, HaltedKept, HaltedOf, Still

LEMMA TerminateNextPlaces == IPlaces /\ TerminateNext => Holds
<1> SUFFICES ASSUME IPlaces, TerminateNext PROVE Holds
  OBVIOUS
<1> DEFINE rest(p) == [host EXCEPT !.todo = @ \ {p}]
           sent(p) == [rest(p) EXCEPT !.doing = p]
<1>1. me = Base
  BY Here, TerminateNextIs DEF InHost
<1>2. PICK p \in host.todo :
        \/ HostBecomes(vm, rest(p))
        \/ /\ ~ Over(p)
           /\ GivesBack(p) => ~Overflows(vm, vm.signaledBy[p])
           /\ HostBecomes(Terminated(Relieved(p), p), sent(p))
        \/ /\ GivesBack(p)
           /\ HostBecomes(DropStale(vm, vm.signaledBy[p]), sent(p))
        \/ /\ GivesBack(p)
           /\ HostOutOfMemory(DropStale(vm, vm.signaledBy[p]), sent(p))
  BY Here, TerminateNextIs
<1>3. p \in Proc
  BY Here, HostNow DEF HostRecords
<1> HIDE DEF rest, sent
<1>4. CASE HostBecomes(vm, rest(p))
  BY <1>4, Here, HostBecomesPlaces
<1>5. CASE /\ ~ Over(p)
           /\ GivesBack(p) => ~Overflows(vm, vm.signaledBy[p])
           /\ HostBecomes(Terminated(Relieved(p), p), sent(p))
  <2>1. p # me /\ p \in Fibers /\ vm.state[p] # "Gone"
    BY <1>1, <1>5 DEF Over, LiveFibers, Live, LiveStates, Fibers
  <2>2. Sound(Relieved(p)) /\ Relieved(p).current = me
    BY <1>3, <1>5, Here, RelievedSound
  <2>3. /\ Places(Relieved(p)) /\ Kept(vm, Relieved(p), {})
        /\ Relieved(p).state[p] # "Gone"
    BY <1>3, <1>5, <2>1, RelievedPlaces
  <2>4. vm' = Terminated(Relieved(p), p) /\ awaited' = awaited
    BY <1>5 DEF HostBecomes
  <2> QED
    BY <2>1, <2>2, <2>3, <2>4, TerminatedHolds
<1>6. CASE /\ GivesBack(p)
           /\ HostBecomes(DropStale(vm, vm.signaledBy[p]), sent(p))
  BY <1>3, <1>6, GivesBackPlaces, HostBecomesPlaces
<1>7. CASE /\ GivesBack(p)
           /\ HostOutOfMemory(DropStale(vm, vm.signaledBy[p]), sent(p))
  BY <1>3, <1>7, GivesBackPlaces, HostOutOfMemoryPlaces
<1> QED
  BY <1>2, <1>4, <1>5, <1>6, <1>7

LEMMA AbandonNextPlaces == IPlaces /\ AbandonNext => Holds
<1> SUFFICES ASSUME IPlaces, AbandonNext PROVE Holds
  OBVIOUS
<1>1. PICK p \in LiveFibers(vm) :
        Becomes(IF vm.frame[p] = "new"
                  THEN ReapDead([Abandoned(vm, p) EXCEPT !.state[p] = "Dead"])
                  ELSE RunAwaited(Abandoned(vm, p), p))
  BY DEF AbandonNext
<1> DEFINE left == LeaveLists(vm, p)
           out  == Abandoned(vm, p)
           u    == [out EXCEPT !.state[p] = "Dead"]
           v    == RunAwaited(out, p)
<1>2. me = Base /\ vm.current = Base
  BY DEF AbandonNext, InHost, me
<1>3. /\ p \in Fibers /\ p \in Proc /\ p # vm.current
      /\ vm.state[p] # "Gone"
  BY <1>2, Names DEF LiveFibers, Live, LiveStates, Fibers
<1>4. Sound(left) /\ left.current = vm.current /\ left.state[p] = "Suspended"
  BY <1>3, Here, LeaveListsSound
<1>5. /\ Places(left) /\ Kept(vm, left, {p})
      /\ vm.state[p] # "Halted" => Kept(vm, left, {})
  BY <1>3, Here, LeaveListsPlaces
<1>6. out = [left EXCEPT !.abandoned = @ \cup {p}]
  BY DEF Abandoned
<1> HIDE DEF left, out
<1>7. /\ Typed(out) /\ SamePlaces(left, out) /\ out.current = left.current
      /\ SameWaits(left, out) /\ p \in out.abandoned
  <2>1. Typed(out)
    BY <1>3, <1>4, <1>6, SMTT(30) DEF Sound, Core, Typed, Fields
  <2>2. /\ SamePlaces(left, out) /\ out.current = left.current
        /\ SameWaits(left, out) /\ p \in out.abandoned
    BY <1>4, <1>6 DEF Sound, Core, Typed, SamePlaces, SameWaits, Fields
  <2> QED
    BY <2>1, <2>2
<1>8. /\ Sound(out) /\ out.current = Base /\ out.state[p] = "Suspended"
  BY <1>2, <1>4, <1>7, SoundDepends DEF SamePlaces
<1>9. Places(out) /\ Kept(left, out, {})
  BY <1>5, <1>7, PlacesDepend
<1>10. CASE vm.frame[p] = "new" /\ Becomes(ReapDead(u))
  <2>1. Typed(u)
    BY <1>3, <1>8, SMTT(30) DEF Sound, Core, Typed, States, Fields
  <2>2. /\ u.ready = out.ready /\ u.quiescent = out.quiescent
        /\ u.state = [out.state EXCEPT ![p] = "Dead"]
        /\ u.awaiting = out.awaiting /\ u.waitingOn = out.waitingOn
        /\ u.current = out.current
    BY <1>8 DEF Sound, Core, Typed, Fields
  <2>3. /\ u.linkedList = out.linkedList /\ u.myList = out.myList
        /\ u.excess = out.excess /\ u.frame = out.frame
        /\ u.resumeTo = out.resumeTo
    BY <1>8 DEF Sound, Core, Typed, Fields
  <2> HIDE DEF u
  <2>4. Sound(u)
    BY <1>2, <1>3, <1>8, <2>1, <2>2, OtherMoves
  <2>5. Places(u) /\ Kept(out, u, {})
    BY <1>3, <1>8, <1>9, <2>2, <2>3, Names, OtherPlaces
  <2>6. Places(ReapDead(u)) /\ Kept(u, ReapDead(u), {})
    BY <2>4, <2>5, ReapDeadPlaces
  <2>7. vm.state[p] # "Halted"
    BY <1>3, <1>10, Here DEF Places, Ranked
  <2>8. Still(vm, ReapDead(u), {})
    BY <1>5, <1>9, <2>5, <2>6, <2>7, KeptThrough, KeptIsStill
  <2> QED
    BY <1>10, <2>6, <2>8, BecomesPlaces
<1>11. CASE Becomes(v)
  <2>1. Places(v) /\ Kept(out, v, {})
    BY <1>3, <1>8, <1>9, RunAwaitedPlaces
  <2>2. v.abandoned = out.abandoned
    BY <1>8 DEF Sound, Core, Typed, RunAwaited, SwitchTo, SwitchMarks, Fields
  <2>3. vm' = v /\ awaited' = awaited
    BY <1>11 DEF Becomes
  <2> HIDE DEF v
  <2>4. Kept(vm, v, {p})
    BY <1>5, <1>9, <2>1, KeptThrough, KeptMore
  <2>5. HaltedKept
    BY <1>7, <2>2, <2>3, <2>4 DEF HaltedKept, HaltedOf, Kept
  <2> QED
    BY <2>1, <2>3, <2>5 DEF Holds, IPlaces
<1> QED
  BY <1>1, <1>10, <1>11 DEF out

LEMMA HostLoopsPlaces == IPlaces /\ HostLoops => Holds
<1> SUFFICES ASSUME IPlaces, HostLoops PROVE Holds
  OBVIOUS
<1>1. CASE EvalEnds
  BY <1>1, ClearedPlaces, HostBecomesPlaces DEF EvalEnds
<1>2. CASE Drain
  <2>1. PICK rest : HostBecomes(YieldFrom(vm), rest) \/ HostOutOfMemory(vm, rest)
    BY <1>2, Here, DrainIs
  <2>2. Places(YieldFrom(vm)) /\ Still(vm, YieldFrom(vm), {})
    BY Here, YieldPlaces, KeptIsStill
  <2> QED
    BY <2>1, <2>2, Here, HostBecomesPlaces, HostOutOfMemoryPlaces
<1>3. CASE DrainEnds
  BY <1>3, Here, ClearedPlaces, HostBecomesPlaces DEF DrainEnds
<1>4. CASE \/ TerminateAll \/ TerminatedNext \/ PassDrains \/ PassEnds
  <2>1. PICK h : HostBecomes(vm, h)
    BY <1>4 DEF TerminateAll, TerminatedNext, PassDrains, PassEnds
  <2> QED
    BY <2>1, Here, HostBecomesPlaces
<1>5. CASE AbandonEnds
  BY <1>5, ClearedPlaces, HostBecomesPlaces DEF AbandonEnds
<1> QED
  BY <1>1, <1>2, <1>3, <1>4, <1>5, AwaitLoopPlaces, AwaitDonePlaces,
     TerminateNextPlaces, AbandonNextPlaces DEF HostLoops

-----------------------------------------------------------------------------
\* The theorems.

\* A loaded image brings lists of its own Processes only.
LEMMA InitPlaces == Init => Places(vm) /\ awaited # Base
<1> SUFFICES ASSUME Init PROVE Places(vm) /\ awaited # Base
  OBVIOUS
<1>1. PICK image \in [Semaphores -> {<<>>} \cup {<<p>> : p \in Strangers}] :
        /\ vm.linkedList = image
        /\ \A p \in Proc : (\A s \in Semaphores : image[s] # <<p>>) => vm.myList[p] = Nil
  BY DEF Init
<1>2. /\ vm.state = [p \in Proc |-> IF p = Base THEN "Running"
                                    ELSE IF p \in Strangers THEN "Gone" ELSE "None"]
      /\ vm.excess = [s \in Semaphores |-> 0]
      /\ vm.waitingOn = [p \in Proc |-> Nil]
      /\ vm.resumeTo = [p \in Proc |-> Nobody]
      /\ vm.frame = [p \in Proc |-> IF p = Base THEN "code" ELSE "new"]
  BY DEF Init
<1>3. ASSUME NEW s \in Semaphores
      PROVE  /\ IsInjective(image[s])
             /\ \A p \in Natives : p \notin ToSet(image[s]) /\ image[s] # <<p>>
  <2>1. CASE image[s] = <<>>
    <3>1. \A p : image[s] # <<p>>
      <4>1. \A p : Len(<<p>>) = 1 /\ Len(<<>>) = 0
        OBVIOUS
      <4> QED
        BY <2>1, <4>1
    <3> QED
      BY <2>1, <3>1 DEF IsInjective, ToSet
  <2>2. ASSUME NEW q \in Strangers, image[s] = <<q>>
        PROVE  /\ IsInjective(image[s])
               /\ \A p \in Natives : p \notin ToSet(image[s]) /\ image[s] # <<p>>
    <3>1. DOMAIN image[s] = {1} /\ image[s][1] = q
      BY <2>2
    <3>2. \A p : image[s] = <<p>> => p = q
      BY <3>1
    <3> QED
      BY <3>1, <3>2 DEF IsInjective, ToSet, Natives
  <2> QED
    BY <1>1, <2>1, <2>2
<1>4. ASSUME NEW s \in Semaphores, NEW p \in Natives
      PROVE  ~ Waits(vm, p, s) /\ vm.myList[p] # s
  <2>1. p \in Proc /\ s # Nil
    BY NameAssumption DEF Natives
  <2>2. vm.waitingOn[p] = Nil /\ vm.myList[p] = Nil
    <3>1. \A z \in Semaphores : image[z] # <<p>>
      BY <1>3
    <3>2. vm.myList[p] = Nil
      BY <1>1, <2>1, <3>1, Zenon
    <3>3. vm.waitingOn[p] = Nil
      BY <1>2, <2>1
    <3> QED
      BY <3>2, <3>3
  <2> QED
    BY <2>1, <2>2 DEF Waits
<1>5. Listed(vm)
  <2>1. \A s \in Semaphores : vm.excess[s] = 0
    BY <1>2
  <2> QED
    BY <1>1, <1>3, <1>4, <2>1 DEF Listed
<1>6. Pointed(vm)
  BY <1>2 DEF Pointed
<1>7. Ranked(vm)
  BY <1>2, LimitAssumption, Names DEF Ranked, BaseStates
<1>8. awaited # Base
  BY Names DEF Init
<1> QED
  BY <1>5, <1>6, <1>7, <1>8 DEF Places

LEMMA StepHolds == IPlaces /\ Next => Holds
<1> SUFFICES ASSUME IPlaces, Next PROVE Holds
  OBVIOUS
<1>1. CASE Closed
  BY <1>1, Here DEF Closed, vars, IPlaces, Holds, HaltedKept, HaltedOf
<1> QED
  BY <1>1, CodePlaces, ResumesPlaces, BeginsPlaces, EndBodyPlaces, CallsPlaces,
     HostLoopsPlaces DEF Next

LEMMA PlacesInvariance == Spec => []IPlaces
<1>1. Init => IPlaces
  BY InitIInv, InitPlaces DEF IPlaces
<1>2. IPlaces /\ [Next]_vars => IPlaces'
  <2> SUFFICES ASSUME IPlaces, [Next]_vars PROVE IPlaces'
    OBVIOUS
  <2>1. IInv'
    BY StepIInv DEF IPlaces
  <2>2. CASE Next
    BY <2>1, <2>2, StepHolds DEF IPlaces, Holds
  <2>3. CASE UNCHANGED vars
    BY <2>1, <2>3 DEF vars, IPlaces
  <2> QED
    BY <2>2, <2>3
<1> QED
  BY <1>1, <1>2, PTL DEF Spec

\* Whatever runs between, fails or is terminated, a process waits on a Semaphore
\* exactly when the linkedList of that Semaphore holds it, once, and its myList
\* names that Semaphore (Semaphore wait, signal, leaveLists).
THEOREM WaitersAreExact == Spec => []WaitersExact
<1>1. IPlaces => WaitersExact
  <2> SUFFICES ASSUME IPlaces, NEW s \in Semaphores, NEW p \in Natives
               PROVE  /\ Waits(vm, p, s) <=> p \in ToSet(vm.linkedList[s])
                      /\ Cardinality({i \in 1 .. Len(vm.linkedList[s]) :
                                        vm.linkedList[s][i] = p}) <= 1
                      /\ p \in Live(vm) => (vm.myList[p] = s <=> Waits(vm, p, s))
    BY DEF WaitersExact, Natives
  <2> DEFINE l  == vm.linkedList[s]
             at == {i \in 1 .. Len(l) : l[i] = p}
  <2>1. /\ Waits(vm, p, s) <=> p \in ToSet(l)
        /\ vm.myList[p] = s <=> Waits(vm, p, s)
        /\ IsInjective(l) /\ l \in Seq(Proc)
    BY Here DEF Places, Listed, Typed
  <2> HIDE DEF l
  <2>2. Cardinality(at) <= 1
    <3>1. at = {} \/ \E i \in at : at = {i}
      <4>1. SUFFICES ASSUME NEW i \in at PROVE at = {i}
        OBVIOUS
      <4>2. DOMAIN l = 1 .. Len(l)
        BY <2>1, LenProperties
      <4> QED
        BY <2>1, <4>1, <4>2 DEF IsInjective
    <3> HIDE DEF at
    <3>2. CASE at = {}
      <4>1. Cardinality(at) = 0
        BY <3>2, FS_EmptySet
      <4> QED
        BY <4>1
    <3>3. ASSUME NEW i, at = {i} PROVE Cardinality(at) <= 1
      <4>1. Cardinality(at) = 1
        BY <3>3, FS_Singleton
      <4> QED
        BY <4>1
    <3> QED
      BY <3>1, <3>2, <3>3
  <2> QED
    BY <2>1, <2>2 DEF l
<1> QED
  BY <1>1, PlacesInvariance, PTL

\* Neither resumeTo nor the ready queue ever names a process whose record is
\* released or not made yet (reapDead, leaveLists).
THEOREM NothingDangles == Spec => []NoDangling
<1>1. IPlaces => NoDangling
  <2> SUFFICES ASSUME IPlaces PROVE NoDangling
    OBVIOUS
  <2>1. ASSUME NEW p \in Proc, vm.resumeTo[p] # Nobody
        PROVE  vm.state[vm.resumeTo[p]] \notin {"None", "Dead", "Gone"}
    <3>1. vm.resumeTo[p] \in Proc /\ vm.resumeTo[p] \in vm.awaiting
      BY <2>1, Here DEF Places, Pointed, Typed
    <3> QED
      BY <3>1, Here DEF Core, WaitsForOne
  <2>2. ASSUME NEW p \in ToSet(vm.ready) PROVE p \in Live(vm)
    <3>1. p \in Proc
      BY Here, ElementOfSeq, LenProperties DEF Typed, ToSet
    <3> QED
      BY <3>1, Here DEF Core, Queued, Live, LiveStates
  <2> QED
    BY <2>1, <2>2 DEF NoDangling
<1> QED
  BY <1>1, PlacesInvariance, PTL

\* No process sleeps on a Semaphore while that holds a signal: a wakeup is not
\* lost, whatever stale entries the signal has to drop first (Semaphore signal,
\* wait, SharedQueue next).
THEOREM NoneWaitsBesideASignal == Spec => []NoWaiterBesideExcess
<1>1. IPlaces => NoWaiterBesideExcess
  <2> SUFFICES ASSUME IPlaces, NEW s \in Semaphores, vm.excess[s] > 0,
                      NEW p \in Proc, Waits(vm, p, s)
               PROVE  FALSE
    BY DEF NoWaiterBesideExcess
  <2>1. CASE p \in Natives
    BY <2>1, Here DEF Places, Listed
  <2>2. CASE p \in Strangers
    BY <2>2, Here DEF Places, Ranked, Waits
  <2> QED
    BY <2>1, <2>2 DEF Natives
<1> QED
  BY <1>1, PlacesInvariance, PTL

\* A step that takes a process out of its halt is the debugger resuming it, or it
\* is condemned by a terminate or abandoned by the session (SPEC 3.13).
THEOREM HaltedStaysHalted == Spec => HaltedStays
<1>1. IPlaces /\ [Next]_vars => [HaltedKept]_vars
  BY StepHolds DEF Holds
<1>2. HaltedStays <=> [][HaltedKept]_vars
  <2>1. [HaltedKept]_vars <=>
          [\A p \in HaltedOf(vm) :
             vm'.state[p] # "Halted" =>
               p = awaited' \/ p \in vm'.condemned \cup vm'.abandoned]_vars
    BY DEF HaltedKept
  <2> QED
    BY <2>1, PTL DEF HaltedStays
<1> QED
  BY <1>1, <1>2, PlacesInvariance, PTL DEF Spec
=============================================================================
