----------------------------- MODULE SessionProofs -----------------------------
(* That the entries of the ABI exclude one another, and what the session keeps  *)
(* between them: for any number of threads, nested calls, evaluations, sessions *)
(* and generations.                                                             *)
EXTENDS Session, FiniteSetTheorems, SequenceTheorems, TLAPS

Stages == {"refused", "taken", "begin", "run", "drain", "done"}
Frame  == [op: Ops, at: Stages]
Snaps  == {"empty", "own", "other"}
Session0 == [id: Nat, sink: BOOLEAN, snap: Snaps, result: Int]
Runs   == [who: {"none", "base", "eval", "other"}, sink: BOOLEAN]

(* The call that got past the compare-exchange, always the outermost of its thread. *)
Occupied(t) == calls[t] # <<>> /\ calls[t][1].at # "refused"
First(t)    == calls[t][1]
Inside(t, op, ats) == Occupied(t) /\ First(t).op = op /\ First(t).at \in ats

(* What runs inside. *)
Evaluates == \E t \in Threads: Inside(t, "eval", {"run", "drain"})
Prints    == \E t \in Threads: Inside(t, "print", {"run"})
Loads     == \E t \in Threads: Inside(t, "load", {"run"})
Works     == \E t \in Threads: Occupied(t) /\ First(t).at \in {"run", "drain"}
Strays    == \E t \in Threads: Occupied(t) /\ First(t).at = "drain" /\ First(t).op # "eval"

Types ==
  /\ entered \in {0, 1}
  /\ calls \in [Threads -> Seq(Frame)]
  /\ session \in Session0 /\ next \in Session0
  /\ running \in Runs
  /\ capture \in BOOLEAN /\ debugEntries \in Nat /\ generation \in 0 .. MaxGen
  /\ interrupt \in [on: BOOLEAN, raised: Nat] /\ direct \in BOOLEAN
  /\ evals \in 0 .. MaxEvals /\ made \in Nat /\ blamed \in BOOLEAN
  /\ struck \subseteq Nat \X Nat

(* A hook's call while an entry runs is refused, and one of another thread too: a
   thread has at most one call that got in, below it nothing and above it one refused. *)
Nesting ==
  \A t \in Threads:
    /\ Len(calls[t]) <= 2 /\ Len(calls[t]) <= MaxNest
    /\ Len(calls[t]) = 2 => First(t).at \in {"run", "drain"} /\ calls[t][2].at = "refused"

Exclusive ==
  /\ \A t, u \in Threads: Occupied(t) /\ Occupied(u) => t = u
  /\ entered = 1 <=> \E t \in Threads: Occupied(t)
  /\ direct => session.id # 0 /\ \A t \in Threads: Occupied(t) => First(t).at = "taken"

(* What the call inside owns: the process that runs, the session being made, the
   prints' mark, and a session to work on. *)
Owned ==
  /\ running # Idle => Works
  /\ next # NoSession => Loads
  /\ debugEntries = IF Prints THEN 1 ELSE 0
  /\ Prints => ~session.sink /\ ~running.sink
  /\ Works => session.id # 0
  /\ session.id = 0 => session = NoSession
  /\ next.id = 0 => next = NoSession
  /\ ~Strays
  /\ next.result = 0 /\ next.snap = "empty"

Answered ==
  /\ session.result \in {0, evals, -evals}
  /\ Evaluates => session.result = 0 /\ evals > 0
  /\ blamed => session.snap = "own"
  /\ interrupt.on /\ Evaluates => interrupt.raised = evals
  /\ \A p \in struck: p[1] = p[2]

IInv == Types /\ Nesting /\ Exclusive /\ Owned /\ Answered

-------------------------------------------------------------------------------
(* The frames *)

(* What the thread of the innermost call that got in looks like: that call alone. *)
LEMMA TopInside ==
  ASSUME Types, Nesting, NEW t \in Threads, Top(t).at \in Stages \ {"refused"}
  PROVE  Len(calls[t]) = 1 /\ Occupied(t) /\ First(t) = Top(t) /\ First(t) \in Frame
PROOF
  <1>1. calls[t] \in Seq(Frame)
    BY DEF Types
  <1>2. calls[t] # <<>>
    BY DEF Top, Stages
  <1>3. Len(calls[t]) \in {1, 2}
    <2>1. Len(calls[t]) \in Nat /\ Len(calls[t]) # 0
      BY <1>1, <1>2, EmptySeq, LenProperties
    <2>2. Len(calls[t]) <= 2
      BY DEF Nesting
    <2>3. \A n \in Nat: n # 0 /\ n <= 2 => n \in {1, 2}
      OBVIOUS
    <2> QED BY <2>1, <2>2, <2>3
  <1>4. Len(calls[t]) # 2
    BY <1>2 DEF Nesting, Top
  <1> QED BY <1>1, <1>2, <1>3, <1>4 DEF Top, Occupied, First

(* A call that got in goes on to another stage, refused by the busy test or not: no
   other call is inside, before and after. *)
LEMMA Moved ==
  ASSUME Types, Nesting, Exclusive, NEW t \in Threads, NEW at \in Stages,
         Top(t).at \in Stages \ {"refused"}, Goes(t, at)
  PROVE  /\ calls' \in [Threads -> Seq(Frame)] /\ Nesting'
         /\ Occupied(t) /\ First(t) = Top(t) /\ entered = 1
         /\ \A u \in Threads: Occupied(u) <=> u = t
         /\ \A u \in Threads: Occupied(u)' <=> u = t /\ at # "refused"
         /\ First(t)' = [op |-> Top(t).op, at |-> at]
         /\ calls'[t] = <<[op |-> Top(t).op, at |-> at]>>
PROOF
  <1> DEFINE f == [op |-> Top(t).op, at |-> at]
  <1>1. /\ Len(calls[t]) = 1 /\ Occupied(t) /\ First(t) = Top(t) /\ First(t) \in Frame
    BY TopInside
  <1>2. f \in Frame
    BY <1>1 DEF Frame
  <1>3. calls[t] \in Seq(Frame) /\ calls \in [Threads -> Seq(Frame)]
    BY DEF Types
  <1>4. calls' = [calls EXCEPT ![t] = [calls[t] EXCEPT ![1].at = at]]
    BY <1>1, <1>3 DEF Goes
  <1>5. [calls[t] EXCEPT ![1].at = at] = <<f>>
    <2>1. calls[t] = <<First(t)>>
      BY <1>1, <1>3 DEF First
    <2>2. [First(t) EXCEPT !.at = at] = f
      BY <1>1 DEF Frame
    <2> QED BY <2>1, <2>2
  <1>6. calls' = [calls EXCEPT ![t] = <<f>>]
    BY <1>4, <1>5
  <1>7. <<f>> \in Seq(Frame) /\ Len(<<f>>) = 1 /\ <<f>>[1] = f /\ <<f>> # <<>>
    BY <1>2
  <1>8. calls' \in [Threads -> Seq(Frame)] /\ calls'[t] = <<f>>
        /\ \A u \in Threads: u # t => calls'[u] = calls[u]
    BY <1>3, <1>6, <1>7
  <1>9. Nesting'
    <2>1. 1 <= MaxNest
      BY SessionAssumption
    <2>2. ASSUME NEW u \in Threads
          PROVE  /\ Len(calls'[u]) <= 2 /\ Len(calls'[u]) <= MaxNest
                 /\ Len(calls'[u]) = 2 => calls'[u][1].at \in {"run", "drain"} /\ calls'[u][2].at = "refused"
      <3>1. CASE u = t
        BY <1>7, <1>8, <2>1, <3>1, SessionAssumption
      <3>2. CASE u # t
        BY <1>8, <3>2 DEF Nesting, First
      <3> QED BY <3>1, <3>2
    <2> QED BY <2>2 DEF Nesting, First
  <1>10. \A u \in Threads: Occupied(u) <=> u = t
    BY <1>1 DEF Exclusive
  <1>11. \A u \in Threads: Occupied(u)' <=> u = t /\ at # "refused"
    BY <1>7, <1>8, <1>10 DEF Occupied
  <1> QED BY <1>1, <1>7, <1>8, <1>9, <1>10, <1>11 DEF Exclusive, First

(* The calls that got in are the same after as before. *)
SameInside == \A u \in Threads: (Occupied(u)' <=> Occupied(u)) /\ (Occupied(u) => First(u)' = First(u))

(* A call is refused on top of the others, or gets in where no other is. *)
LEMMA EnterFrames ==
  ASSUME Types, Nesting, Exclusive, NEW t \in Threads, NEW op \in Ops, Enters(t, op)
  PROVE  /\ calls' \in [Threads -> Seq(Frame)] /\ Nesting'
         /\ entered = 1 => SameInside
         /\ entered # 1 => /\ \A u \in Threads: ~Occupied(u) /\ (Occupied(u)' <=> u = t)
                           /\ First(t)' = [op |-> op, at |-> "taken"]
PROOF
  <1> DEFINE f == [op |-> op, at |-> IF Refuses THEN "refused" ELSE "taken"]
  <1>1. f \in Frame
    BY DEF Frame, Stages
  <1>2. calls[t] \in Seq(Frame) /\ calls \in [Threads -> Seq(Frame)]
    BY DEF Types
  <1>3. calls' = [calls EXCEPT ![t] = Append(calls[t], f)]
    BY DEF Enters
  <1>4. calls' \in [Threads -> Seq(Frame)] /\ calls'[t] = Append(calls[t], f)
        /\ \A u \in Threads: u # t => calls'[u] = calls[u]
    BY <1>1, <1>2, <1>3, AppendProperties
  <1>5. CASE calls[t] = <<>>
    <2>1. calls'[t] = <<f>> /\ Len(calls'[t]) = 1 /\ First(t)' = f /\ calls'[t] # <<>>
      BY <1>1, <1>2, <1>4, <1>5 DEF First
    <2>2. Occupied(t)' <=> ~Refuses
      BY <2>1 DEF Occupied, First
    <2>3. ~Occupied(t)
      BY <1>5 DEF Occupied
    <2>4. Nesting'
      <3>1. 1 <= MaxNest
        BY SessionAssumption
      <3>2. ASSUME NEW u \in Threads
            PROVE  /\ Len(calls'[u]) <= 2 /\ Len(calls'[u]) <= MaxNest
                   /\ Len(calls'[u]) = 2 => calls'[u][1].at \in {"run", "drain"} /\ calls'[u][2].at = "refused"
        <4>1. CASE u = t
          BY <2>1, <3>1, <4>1, SessionAssumption
        <4>2. CASE u # t
          BY <1>4, <4>2 DEF Nesting, First
        <4> QED BY <4>1, <4>2
      <3> QED BY <3>2 DEF Nesting, First
    <2>5. \A u \in Threads: u # t => (Occupied(u)' <=> Occupied(u)) /\ First(u)' = First(u)
      BY <1>4 DEF Occupied, First
    <2> QED BY <1>4, <2>1, <2>2, <2>3, <2>4, <2>5 DEF Refuses, Exclusive, SameInside
  <1>6. CASE calls[t] # <<>>
    <2>1. Top(t).at \in {"run", "drain"}
      <3>1. Len(calls[t]) \in 1 .. Len(calls[t])
        BY <1>2, <1>6, EmptySeq, LenProperties
      <3>2. Top(t) \in Frame
        BY <1>2, <1>6, <3>1, ElementOfSeq DEF Top
      <3> QED BY <3>2 DEF Enters, InHost, Frame, Stages
    <2>2. Len(calls[t]) = 1 /\ Occupied(t) /\ First(t) = Top(t)
      BY <2>1, TopInside DEF Stages
    <2>3. entered = 1 /\ Refuses
      BY <2>2 DEF Exclusive, Refuses
    <2>4. Len(calls'[t]) = 2 /\ calls'[t][1] = First(t) /\ calls'[t][2] = f /\ calls'[t] # <<>>
      <3>1. /\ Append(calls[t], f) # <<>>
            /\ Len(Append(calls[t], f)) = Len(calls[t]) + 1
            /\ \A i \in 1 .. Len(calls[t]): Append(calls[t], f)[i] = calls[t][i]
            /\ Append(calls[t], f)[Len(calls[t]) + 1] = f
        BY <1>1, <1>2, AppendProperties
      <3> HIDE DEF f
      <3> QED BY <1>4, <2>2, <3>1 DEF First
    <2>5. Nesting'
      <3>1. 2 <= MaxNest
        BY <2>2, SessionAssumption DEF Enters
      <3>2. ASSUME NEW u \in Threads
            PROVE  /\ Len(calls'[u]) <= 2 /\ Len(calls'[u]) <= MaxNest
                   /\ Len(calls'[u]) = 2 => calls'[u][1].at \in {"run", "drain"} /\ calls'[u][2].at = "refused"
        <4>1. CASE u = t
          <5>1. First(t).at \in {"run", "drain"} /\ f.at = "refused"
            BY <2>1, <2>2, <2>3
          <5>2. 2 <= 2
            OBVIOUS
          <5> HIDE DEF f
          <5> QED BY <2>4, <3>1, <4>1, <5>1, <5>2
        <4>2. CASE u # t
          BY <1>4, <4>2 DEF Nesting, First
        <4> QED BY <4>1, <4>2
      <3> QED BY <3>2 DEF Nesting, First
    <2>6. \A u \in Threads: u # t => (Occupied(u)' <=> Occupied(u)) /\ First(u)' = First(u)
      BY <1>4 DEF Occupied, First
    <2>7. Occupied(t)' /\ First(t)' = First(t)
      BY <2>2, <2>4 DEF Occupied, First
    <2> QED BY <1>4, <2>2, <2>3, <2>5, <2>6, <2>7 DEF SameInside
  <1> QED BY <1>5, <1>6

(* A call that returns was refused, or was the one inside. *)
LEMMA ReturnFrames ==
  ASSUME Types, Nesting, Exclusive, NEW t \in Threads, Returns(t)
  PROVE  /\ calls' \in [Threads -> Seq(Frame)] /\ Nesting'
         /\ Top(t).at # "done" => SameInside
         /\ Top(t).at = "done" => /\ \A u \in Threads: (Occupied(u) <=> u = t) /\ ~Occupied(u)'
                                  /\ First(t).at = "done"
PROOF
  <1>1. calls[t] \in Seq(Frame) /\ calls \in [Threads -> Seq(Frame)]
    BY DEF Types
  <1>2. calls[t] # <<>>
    BY DEF Returns, Top
  <1>3. calls' = [calls EXCEPT ![t] = SubSeq(calls[t], 1, Len(calls[t]) - 1)]
    BY DEF Returns
  <1>4. Len(calls[t]) \in {1, 2}
    <2>1. Len(calls[t]) \in Nat /\ Len(calls[t]) # 0
      BY <1>1, <1>2, EmptySeq, LenProperties
    <2>2. Len(calls[t]) <= 2
      BY DEF Nesting
    <2>3. \A n \in Nat: n # 0 /\ n <= 2 => n \in {1, 2}
      OBVIOUS
    <2> QED BY <2>1, <2>2, <2>3
  <1>5. CASE Len(calls[t]) = 1
    <2>1. calls'[t] = <<>> /\ calls' \in [Threads -> Seq(Frame)]
          /\ \A u \in Threads: u # t => calls'[u] = calls[u]
      <3>1. SubSeq(calls[t], 1, Len(calls[t]) - 1) = <<>>
        BY <1>1, <1>5, SubSeqEmpty
      <3> QED BY <1>1, <1>3, <3>1, EmptySeq
    <2>2. First(t) = Top(t) /\ (Occupied(t) <=> Top(t).at # "refused")
      BY <1>2, <1>5 DEF First, Top, Occupied
    <2>3. ~Occupied(t)'
      BY <2>1 DEF Occupied
    <2>4. Nesting'
      <3>1. ASSUME NEW u \in Threads
            PROVE  /\ Len(calls'[u]) <= 2 /\ Len(calls'[u]) <= MaxNest
                   /\ Len(calls'[u]) = 2 => calls'[u][1].at \in {"run", "drain"} /\ calls'[u][2].at = "refused"
        <4>1. CASE u = t
          BY <2>1, <4>1, SessionAssumption
        <4>2. CASE u # t
          BY <2>1, <4>2 DEF Nesting, First
        <4> QED BY <4>1, <4>2
      <3> QED BY <3>1 DEF Nesting, First
    <2>5. \A u \in Threads: u # t => (Occupied(u)' <=> Occupied(u)) /\ First(u)' = First(u)
      BY <2>1 DEF Occupied, First
    <2>6. Top(t).at \in {"refused", "done"}
      BY DEF Returns
    <2> QED BY <2>1, <2>2, <2>3, <2>4, <2>5, <2>6 DEF SameInside, Exclusive
  <1>6. CASE Len(calls[t]) = 2
    <2>1. First(t).at \in {"run", "drain"} /\ Top(t).at = "refused" /\ Occupied(t)
      BY <1>2, <1>6 DEF Nesting, Top, Occupied, First
    <2>2. Len(calls'[t]) = 1 /\ calls'[t][1] = First(t) /\ calls' \in [Threads -> Seq(Frame)]
          /\ \A u \in Threads: u # t => calls'[u] = calls[u]
      <3>1. SubSeq(calls[t], 1, 1) \in Seq(Frame) /\ Len(SubSeq(calls[t], 1, 1)) = 1
            /\ SubSeq(calls[t], 1, 1)[1] = calls[t][1]
        BY <1>1, <1>6, SubSeqProperties
      <3> QED BY <1>1, <1>3, <1>6, <3>1 DEF First
    <2>3. Nesting'
      <3>1. 1 <= MaxNest
        BY SessionAssumption
      <3>2. ASSUME NEW u \in Threads
            PROVE  /\ Len(calls'[u]) <= 2 /\ Len(calls'[u]) <= MaxNest
                   /\ Len(calls'[u]) = 2 => calls'[u][1].at \in {"run", "drain"} /\ calls'[u][2].at = "refused"
        <4>1. CASE u = t
          <5>1. Len(calls'[u]) = 1
            BY <2>2, <4>1
          <5>2. \A n: n = 1 => n <= 2 /\ n # 2
            OBVIOUS
          <5> QED BY <3>1, <5>1, <5>2
        <4>2. CASE u # t
          BY <2>2, <4>2 DEF Nesting, First
        <4> QED BY <4>1, <4>2
      <3> QED BY <3>2 DEF Nesting, First
    <2>4. \A u \in Threads: u # t => (Occupied(u)' <=> Occupied(u)) /\ First(u)' = First(u)
      BY <2>2 DEF Occupied, First
    <2>5. calls'[t] # <<>>
      <3>1. Len(<<>>) = 0
        OBVIOUS
      <3>2. Len(calls'[t]) # 0
        BY <2>2
      <3> QED BY <3>1, <3>2
    <2>6. Occupied(t)' /\ First(t)' = First(t)
      BY <2>1, <2>2, <2>5 DEF Occupied, First
    <2> QED BY <2>1, <2>2, <2>3, <2>4, <2>6 DEF SameInside
  <1> QED BY <1>4, <1>5, <1>6

-------------------------------------------------------------------------------
(* What runs inside, over a step *)

(* What is done where the same calls are inside. *)
LEMMA SameViews ==
  ASSUME SameInside
  PROVE  /\ Evaluates' <=> Evaluates
         /\ Prints' <=> Prints
         /\ Loads' <=> Loads
         /\ Works' <=> Works
         /\ Strays' <=> Strays
PROOF
  BY DEF SameInside, Evaluates, Prints, Loads, Works, Strays, Inside

LEMMA StayViews ==
  ASSUME calls' = calls
  PROVE  SameInside
PROOF
  BY DEF SameInside, Occupied, First

(* Nothing runs inside: no call got in, or it has not begun or is over. *)
LEMMA Resting ==
  ASSUME \A u \in Threads: Occupied(u) => First(u).at \notin {"run", "drain"}
  PROVE  ~Evaluates /\ ~Prints /\ ~Loads /\ ~Works /\ ~Strays
PROOF
  BY DEF Evaluates, Prints, Loads, Works, Strays, Inside

LEMMA RestingNext ==
  ASSUME \A u \in Threads: Occupied(u)' => First(u)'.at \notin {"run", "drain"}
  PROVE  ~Evaluates' /\ ~Prints' /\ ~Loads' /\ ~Works' /\ ~Strays'
PROOF
  BY DEF Evaluates, Prints, Loads, Works, Strays, Inside

(* The call inside goes on: what ran, and what runs now, is what that call is. *)
LEMMA Onward ==
  ASSUME Types, Nesting, Exclusive, NEW t \in Threads, NEW at \in Stages \ {"refused"},
         Top(t).at \in {"begin", "run", "drain", "done"}, Goes(t, at),
         entered' = entered, direct' = direct
  PROVE  /\ calls' \in [Threads -> Seq(Frame)] /\ Nesting' /\ Exclusive' /\ ~direct
         /\ Top(t) \in Frame
         /\ Evaluates <=> Top(t).op = "eval" /\ Top(t).at \in {"run", "drain"}
         /\ Evaluates' <=> Top(t).op = "eval" /\ at \in {"run", "drain"}
         /\ Prints <=> Top(t).op = "print" /\ Top(t).at = "run"
         /\ Prints' <=> Top(t).op = "print" /\ at = "run"
         /\ Loads <=> Top(t).op = "load" /\ Top(t).at = "run"
         /\ Loads' <=> Top(t).op = "load" /\ at = "run"
         /\ Works <=> Top(t).at \in {"run", "drain"}
         /\ Works' <=> at \in {"run", "drain"}
         /\ Strays' <=> at = "drain" /\ Top(t).op # "eval"
         /\ Strays <=> Top(t).at = "drain" /\ Top(t).op # "eval"
PROOF
  <1>1. Top(t).at \in Stages \ {"refused"} /\ at \in Stages
    BY DEF Stages
  <1>2. /\ calls' \in [Threads -> Seq(Frame)] /\ Nesting'
        /\ Occupied(t) /\ First(t) = Top(t) /\ entered = 1
        /\ \A u \in Threads: Occupied(u) <=> u = t
        /\ \A u \in Threads: Occupied(u)' <=> u = t
        /\ First(t)' = [op |-> Top(t).op, at |-> at]
    BY <1>1, Moved
  <1>3. First(t)'.op = Top(t).op /\ First(t)'.at = at
    BY <1>2
  <1>4. ~direct
    BY <1>2 DEF Exclusive
  <1>5. Exclusive'
    <2>1. entered' = 1 /\ ~direct'
      BY <1>2, <1>4
    <2> QED BY <1>2, <2>1 DEF Exclusive
  <1>6. Top(t) \in Frame
    BY <1>1, TopInside
  <1>7. /\ Evaluates <=> Top(t).op = "eval" /\ Top(t).at \in {"run", "drain"}
        /\ Prints <=> Top(t).op = "print" /\ Top(t).at = "run"
        /\ Loads <=> Top(t).op = "load" /\ Top(t).at = "run"
        /\ Works <=> Top(t).at \in {"run", "drain"}
        /\ Strays <=> Top(t).at = "drain" /\ Top(t).op # "eval"
    BY <1>2 DEF Evaluates, Prints, Loads, Works, Strays, Inside
  <1>8. /\ Evaluates' <=> Top(t).op = "eval" /\ at \in {"run", "drain"}
        /\ Prints' <=> Top(t).op = "print" /\ at = "run"
        /\ Loads' <=> Top(t).op = "load" /\ at = "run"
        /\ Works' <=> at \in {"run", "drain"}
        /\ Strays' <=> at = "drain" /\ Top(t).op # "eval"
    BY <1>2, <1>3 DEF Evaluates, Prints, Loads, Works, Strays, Inside
  <1> QED BY <1>2, <1>4, <1>5, <1>6, <1>7, <1>8

(* What runs stays, and nothing else changes: neither does what it owns. *)
LEMMA Quiet ==
  ASSUME IInv, Evaluates' <=> Evaluates, Prints' <=> Prints, Loads' <=> Loads, Works' <=> Works,
         Strays' <=> Strays,
         calls' \in [Threads -> Seq(Frame)], entered' \in {0, 1}, Nesting', Exclusive',
         UNCHANGED <<session, next, running, capture, debugEntries, generation, interrupt, direct,
                     evals, made, blamed, struck>>
  PROVE  IInv'
PROOF
  <1>1. Types'
    BY DEF IInv, Types
  <1>2. Owned'
    BY DEF IInv, Owned
  <1>3. Answered'
    BY DEF IInv, Answered
  <1> QED BY <1>1, <1>2, <1>3 DEF IInv

-------------------------------------------------------------------------------
(* Each step keeps the invariant *)

LEMMA InitInv == Init => IInv
PROOF
  <1> SUFFICES ASSUME Init PROVE IInv
    OBVIOUS
  <1>1. \A t \in Threads: calls[t] = <<>> /\ Len(calls[t]) = 0
    BY DEF Init
  <1>2. \A t \in Threads: ~Occupied(t)
    BY <1>1 DEF Occupied
  <1>3. ~Evaluates /\ ~Prints /\ ~Loads /\ ~Works /\ ~Strays
    BY <1>2, Resting
  <1>4. Types
    <2>1. <<>> \in Seq(Frame)
      OBVIOUS
    <2>2. calls \in [Threads -> Seq(Frame)]
      BY <2>1 DEF Init
    <2>3. session \in Session0 /\ next \in Session0 /\ running \in Runs
      BY DEF Init, NoSession, Session0, Snaps, Idle, Runs
    <2>4. interrupt \in [on: BOOLEAN, raised: Nat]
      BY DEF Init, NoRequest
    <2>5. entered \in {0, 1} /\ debugEntries \in Nat /\ generation \in 0 .. MaxGen
          /\ evals \in 0 .. MaxEvals /\ made \in Nat
      BY SessionAssumption DEF Init
    <2>6. capture \in BOOLEAN /\ direct \in BOOLEAN /\ blamed \in BOOLEAN /\ struck \subseteq Nat \X Nat
      BY DEF Init
    <2> QED BY <2>2, <2>3, <2>4, <2>5, <2>6 DEF Types
  <1>5. Nesting
    BY <1>1, SessionAssumption DEF Nesting
  <1>6. Exclusive
    BY <1>2 DEF Exclusive, Init
  <1>7. Owned
    BY <1>3 DEF Owned, Init, NoSession
  <1>8. Answered
    BY <1>3 DEF Answered, Init, NoSession, NoRequest
  <1> QED BY <1>4, <1>5, <1>6, <1>7, <1>8 DEF IInv

LEMMA EntersInv ==
  ASSUME IInv, NEW t \in Threads, NEW op \in Ops, Enters(t, op)
  PROVE  IInv'
PROOF
  <1>1. Types /\ Nesting /\ Exclusive /\ calls' \in [Threads -> Seq(Frame)] /\ Nesting' /\ entered' = 1
    BY EnterFrames DEF IInv, Enters
  <1>2. UNCHANGED <<session, next, running, capture, debugEntries, generation, interrupt, direct,
                    evals, made, blamed, struck>>
    BY DEF Enters
  <1>3. CASE entered = 1
    <2>1. SameInside
      BY <1>1, <1>3, EnterFrames
    <2>2. Exclusive'
      BY <1>1, <1>2, <1>3, <2>1 DEF Exclusive, SameInside
    <2> QED BY <1>1, <1>2, <2>1, <2>2, SameViews, Quiet
  <1>4. CASE entered # 1
    <2>1. /\ \A u \in Threads: ~Occupied(u) /\ (Occupied(u)' <=> u = t)
          /\ First(t)' = [op |-> op, at |-> "taken"]
      BY <1>1, <1>4, EnterFrames
    <2>2. First(t)'.at = "taken"
      BY <2>1
    <2>3. Exclusive'
      BY <1>1, <1>2, <2>1, <2>2 DEF Exclusive
    <2>4. ~Evaluates /\ ~Prints /\ ~Loads /\ ~Works /\ ~Strays
      BY <2>1, Resting
    <2>5. ~Evaluates' /\ ~Prints' /\ ~Loads' /\ ~Works' /\ ~Strays'
      BY <2>1, <2>2, RestingNext
    <2> QED BY <1>1, <1>2, <2>3, <2>4, <2>5, Quiet
  <1> QED BY <1>3, <1>4

LEMMA TestsBusyInv ==
  ASSUME IInv, NEW t \in Threads, TestsBusy(t)
  PROVE  IInv'
PROOF
  <1> DEFINE at == IF Busy THEN "refused" ELSE "begin"
  <1>1. Types /\ Nesting /\ Exclusive /\ Owned
    BY DEF IInv
  <1>2. Top(t).at \in Stages \ {"refused"} /\ at \in Stages /\ Top(t).at = "taken" /\ Goes(t, at)
    BY DEF TestsBusy, Stages
  <1> HIDE DEF at
  <1>3. UNCHANGED <<session, next, running, capture, debugEntries, generation, interrupt, direct,
                    evals, made, blamed, struck>>
    BY DEF TestsBusy
  <1>4. /\ calls' \in [Threads -> Seq(Frame)] /\ Nesting'
        /\ Occupied(t) /\ First(t).at = "taken" /\ entered = 1
        /\ \A u \in Threads: Occupied(u) <=> u = t
        /\ \A u \in Threads: Occupied(u)' <=> u = t /\ at # "refused"
        /\ First(t)' = [op |-> Top(t).op, at |-> at]
    BY <1>1, <1>2, Moved
  <1>5. First(t)'.at = at /\ at \in {"refused", "begin"}
    BY <1>4 DEF at
  <1>6. ~Evaluates /\ ~Prints /\ ~Loads /\ ~Works /\ ~Strays
    BY <1>4, Resting
  <1>7. ~Evaluates' /\ ~Prints' /\ ~Loads' /\ ~Works' /\ ~Strays'
    BY <1>4, <1>5, RestingNext
  <1>8. Exclusive' /\ entered' \in {0, 1}
    <2>1. CASE Busy
      <3>1. at = "refused" /\ entered' = 0
        BY <2>1 DEF at, TestsBusy, GivenBack
      <3> QED BY <1>1, <1>3, <1>4, <3>1 DEF Exclusive
    <2>2. CASE ~Busy
      <3>1. at = "begin" /\ entered' = 1
        BY <1>4, <2>2 DEF at, TestsBusy
      <3>2. ~direct
        BY <1>1, <2>2 DEF Busy, Live, Exclusive, NoSession
      <3> QED BY <1>1, <1>3, <1>4, <3>1, <3>2 DEF Exclusive
    <2> QED BY <2>1, <2>2
  <1> QED BY <1>3, <1>4, <1>6, <1>7, <1>8, Quiet

LEMMA ReturnsInv ==
  ASSUME IInv, NEW t \in Threads, Returns(t)
  PROVE  IInv'
PROOF
  <1>1. Types /\ Nesting /\ Exclusive /\ calls' \in [Threads -> Seq(Frame)] /\ Nesting'
    BY ReturnFrames DEF IInv
  <1>2. UNCHANGED <<session, next, running, capture, debugEntries, generation, interrupt, direct,
                    evals, made, blamed, struck>>
    BY DEF Returns
  <1>3. CASE Top(t).at # "done"
    <2>1. SameInside /\ entered' = entered
      BY <1>1, <1>3, ReturnFrames DEF Returns
    <2>2. Exclusive' /\ entered' \in {0, 1}
      BY <1>1, <1>2, <2>1 DEF Exclusive, SameInside, Types
    <2> QED BY <1>1, <1>2, <2>1, <2>2, SameViews, Quiet
  <1>4. CASE Top(t).at = "done"
    <2>1. /\ \A u \in Threads: (Occupied(u) <=> u = t) /\ ~Occupied(u)'
          /\ First(t).at = "done" /\ entered' = 0
      BY <1>1, <1>4, ReturnFrames DEF Returns
    <2>2. Exclusive'
      BY <1>1, <1>2, <2>1 DEF Exclusive
    <2>3. ~Evaluates /\ ~Prints /\ ~Loads /\ ~Works /\ ~Strays
      BY <2>1, Resting
    <2>4. ~Evaluates' /\ ~Prints' /\ ~Loads' /\ ~Works' /\ ~Strays'
      BY <2>1, RestingNext
    <2> QED BY <1>1, <1>2, <2>1, <2>2, <2>3, <2>4, Quiet
  <1> QED BY <1>3, <1>4

(* The session's records. *)
LEMMA Records ==
  ASSUME Types
  PROVE  /\ NewSession \in Session0 /\ NewSession.id # 0 /\ NewSession.snap = "empty" /\ NewSession.result = 0
         /\ NoSession \in Session0 /\ NoSession.id = 0 /\ NoSession.snap = "empty" /\ NoSession.result = 0
         /\ Cleared(NoSession) = NoSession
         /\ Idle \in Runs /\ Idle.sink = FALSE
         /\ \A s \in Session0: /\ Cleared(s) \in Session0 /\ Cleared(s).id = s.id /\ Cleared(s).sink = s.sink
                               /\ Cleared(s).result = s.result /\ Cleared(s).snap = "empty"
                               /\ Base(s) \in Runs /\ Base(s).sink = s.sink
PROOF
  <1>1. NoSession \in Session0 /\ NoSession.id = 0 /\ NoSession.snap = "empty" /\ NoSession.result = 0
    BY DEF NoSession, Session0, Snaps
  <1>2. made + 1 \in Nat /\ made + 1 # 0 /\ capture \in BOOLEAN
    BY DEF Types
  <1>3. ASSUME NEW s \in Session0, NEW n \in Nat
        PROVE  /\ [s EXCEPT !.id = n] \in Session0 /\ [s EXCEPT !.id = n].id = n
               /\ [s EXCEPT !.id = n].snap = s.snap /\ [s EXCEPT !.id = n].result = s.result
    BY DEF Session0
  <1>4. /\ NewSession \in Session0 /\ NewSession.id # 0 /\ NewSession.snap = "empty"
        /\ NewSession.result = 0
    <2> DEFINE s == [NoSession EXCEPT !.id = made + 1]
    <2>1. s \in Session0 /\ s.id # 0 /\ s.snap = "empty" /\ s.result = 0
      BY <1>1, <1>2, <1>3
    <2>2. NewSession = [s EXCEPT !.sink = capture]
      BY DEF NewSession
    <2> HIDE DEF s
    <2> QED BY <1>2, <2>1, <2>2 DEF Session0
  <1>5. Idle \in Runs /\ Idle.sink = FALSE
    BY DEF Idle, Runs
  <1>6. ASSUME NEW s \in Session0
        PROVE  /\ Cleared(s) \in Session0 /\ Cleared(s).id = s.id /\ Cleared(s).sink = s.sink
               /\ Cleared(s).result = s.result /\ Cleared(s).snap = "empty"
    <2>1. Cleared(s) = [id |-> s.id, sink |-> s.sink, snap |-> "empty", result |-> s.result]
      BY DEF Cleared, Session0
    <2> QED BY <2>1 DEF Session0, Snaps
  <1>7. ASSUME NEW s \in Session0 PROVE Base(s) \in Runs /\ Base(s).sink = s.sink
    BY DEF Session0, Base, Runs
  <1>8. Cleared(NoSession) = NoSession
    BY DEF NoSession, Cleared
  <1> QED BY <1>1, <1>4, <1>5, <1>6, <1>7, <1>8

LEMMA BumpedIsGeneration ==
  ASSUME Types, Bumped
  PROVE  generation' \in 0 .. MaxGen /\ generation' # generation
PROOF
  BY SessionAssumption DEF Types, Bumped

LEMMA BootsInv ==
  ASSUME IInv, NEW t \in Threads, Boots(t)
  PROVE  IInv'
PROOF
  <1>1. Types /\ Nesting /\ Exclusive /\ Owned /\ Answered
    BY DEF IInv
  <1>2. Top(t).op = "boot" /\ Top(t).at = "begin"
    BY DEF Boots, At
  <1>3. Goes(t, "done") /\ entered' = entered /\ direct' = direct
    BY DEF Boots
  <1>4. /\ calls' \in [Threads -> Seq(Frame)] /\ Nesting' /\ Exclusive'
        /\ ~Evaluates /\ ~Prints /\ ~Loads /\ ~Works /\ ~Strays
        /\ ~Evaluates' /\ ~Prints' /\ ~Loads' /\ ~Works' /\ ~Strays'
    BY <1>1, <1>2, <1>3, Onward DEF Stages
  <1>5. Types'
    <2>1. session' \in Session0 /\ made' \in Nat
      <3>1. UNCHANGED <<session, made>> \/ (session' = NewSession /\ made' = made + 1)
        BY DEF Boots
      <3>2. session \in Session0 /\ made \in Nat /\ NewSession \in Session0
        BY <1>1, Records DEF Types
      <3>3. made + 1 \in Nat
        BY <3>2
      <3> QED BY <3>1, <3>2, <3>3
    <2>2. generation' \in 0 .. MaxGen
      BY <1>1, BumpedIsGeneration DEF Types, Boots
    <2> QED BY <1>1, <1>4, <2>1, <2>2 DEF Types, Boots
  <1>6. Owned'
    BY <1>1, <1>4, Records DEF Owned, Boots, Live
  <1>7. Answered'
    BY <1>1, <1>4, Records DEF Answered, Owned, Boots, Live, Types
  <1> QED BY <1>4, <1>5, <1>6, <1>7 DEF IInv

LEMMA ShutsDownInv ==
  ASSUME IInv, NEW t \in Threads, ShutsDown(t)
  PROVE  IInv'
PROOF
  <1>1. Types /\ Nesting /\ Exclusive /\ Owned /\ Answered
    BY DEF IInv
  <1>2. Top(t).op = "shutdown" /\ Top(t).at = "begin"
    BY DEF ShutsDown, At
  <1>3. Goes(t, "done") /\ entered' = entered /\ direct' = direct
    BY DEF ShutsDown
  <1>4. /\ calls' \in [Threads -> Seq(Frame)] /\ Nesting' /\ Exclusive'
        /\ ~Evaluates /\ ~Prints /\ ~Loads /\ ~Works /\ ~Strays
        /\ ~Evaluates' /\ ~Prints' /\ ~Loads' /\ ~Works' /\ ~Strays'
    BY <1>1, <1>2, <1>3, Onward DEF Stages
  <1>5. Types'
    BY <1>1, <1>4, Records, BumpedIsGeneration DEF Types, ShutsDown
  <1>6. Owned'
    BY <1>1, <1>4, Records DEF Owned, ShutsDown, Live
  <1>7. Answered'
    BY <1>1, <1>4, Records DEF Answered, ShutsDown
  <1> QED BY <1>4, <1>5, <1>6, <1>7 DEF IInv

LEMMA LoadEndsInv ==
  ASSUME IInv, NEW t \in Threads, LoadEnds(t)
  PROVE  IInv'
PROOF
  <1>1. Types /\ Nesting /\ Exclusive /\ Owned /\ Answered
    BY DEF IInv
  <1>2. Top(t).op = "load" /\ Top(t).at = "run"
    BY DEF LoadEnds, At
  <1>3. Goes(t, "done") /\ entered' = entered /\ direct' = direct
    BY DEF LoadEnds
  <1>4. /\ calls' \in [Threads -> Seq(Frame)] /\ Nesting' /\ Exclusive'
        /\ ~Evaluates /\ ~Prints /\ Loads /\ Works /\ ~Strays
        /\ ~Evaluates' /\ ~Prints' /\ ~Loads' /\ ~Works' /\ ~Strays'
    BY <1>1, <1>2, <1>3, Onward DEF Stages
  <1>5. Types'
    BY <1>1, <1>4, Records, BumpedIsGeneration DEF Types, LoadEnds
  <1>6. Owned'
    <2>1. CASE session' = session
      BY <1>1, <1>4, <2>1, Records DEF Owned, LoadEnds
    <2>2. CASE session' = Cleared(next)
      <3>1. next \in Session0 /\ (next.id = 0 => next = NoSession)
        BY <1>1 DEF Owned, Types
      <3>2. session'.id = 0 => session' = NoSession
        BY <2>2, <3>1, Records, <1>1
      <3> QED BY <1>1, <1>4, <3>2, Records DEF Owned, LoadEnds
    <2> QED BY <2>1, <2>2 DEF LoadEnds
  <1>7. Answered'
    <2>1. CASE UNCHANGED <<session, blamed>>
      BY <1>1, <1>4, <2>1 DEF Answered, LoadEnds
    <2>2. CASE session' = Cleared(next) /\ blamed' = FALSE
      <3>1. session'.result = 0
        BY <1>1, <2>2, Records DEF Owned, Types
      <3> QED BY <1>1, <1>4, <2>2, <3>1 DEF Answered, LoadEnds
    <2> QED BY <2>1, <2>2 DEF LoadEnds
  <1> QED BY <1>4, <1>5, <1>6, <1>7 DEF IInv

LEMMA InterruptedInv ==
  ASSUME IInv, NEW t \in Threads, Interrupted(t)
  PROVE  IInv'
PROOF
  <1>1. Types /\ Nesting /\ Exclusive /\ Owned /\ Answered
    BY DEF IInv
  <1>2. Top(t).op = "eval" /\ Top(t).at = "run"
    BY DEF Interrupted, At
  <1>3. Goes(t, "drain") /\ entered' = entered /\ direct' = direct
    BY DEF Interrupted
  <1>4. /\ calls' \in [Threads -> Seq(Frame)] /\ Nesting' /\ Exclusive'
        /\ Evaluates /\ ~Prints /\ ~Loads /\ Works /\ ~Strays
        /\ Evaluates' /\ ~Prints' /\ ~Loads' /\ Works' /\ ~Strays'
    BY <1>1, <1>2, <1>3, Onward DEF Stages
  <1>5. Types'
    <2>1. interrupt' \in [on: BOOLEAN, raised: Nat]
      BY DEF Interrupted, ClearInterrupt, NoRequest
    <2>2. struck' \subseteq Nat \X Nat
      <3>1. interrupt.raised \in Nat /\ evals \in Nat
        BY <1>1, SessionAssumption DEF Types
      <3>2. <<interrupt.raised, evals>> \in Nat \X Nat
        BY <3>1
      <3> QED BY <1>1, <3>2 DEF Types, Interrupted
    <2>3. running' \in Runs
      BY <1>1, Records DEF Interrupted
    <2> QED BY <1>1, <1>4, <2>1, <2>2, <2>3 DEF Types, Interrupted
  <1>6. Owned'
    BY <1>1, <1>4, Records DEF Owned, Interrupted
  <1>7. Answered'
    BY <1>1, <1>4 DEF Answered, Interrupted, ClearInterrupt, NoRequest
  <1> QED BY <1>4, <1>5, <1>6, <1>7 DEF IInv

LEMMA EvalDrainsInv ==
  ASSUME IInv, NEW t \in Threads, EvalDrains(t)
  PROVE  IInv'
PROOF
  <1>1. Types /\ Nesting /\ Exclusive /\ Owned /\ Answered
    BY DEF IInv
  <1>2. Top(t).op = "eval" /\ Top(t).at = "run"
    BY DEF EvalDrains, At
  <1>3. Goes(t, "drain") /\ entered' = entered /\ direct' = direct
    BY DEF EvalDrains
  <1>4. /\ calls' \in [Threads -> Seq(Frame)] /\ Nesting' /\ Exclusive'
        /\ Evaluates /\ ~Prints /\ ~Loads /\ Works /\ ~Strays
        /\ Evaluates' /\ ~Prints' /\ ~Loads' /\ Works' /\ ~Strays'
    BY <1>1, <1>2, <1>3, Onward DEF Stages
  <1>5. Types'
    BY <1>1, <1>4, Records DEF Types, EvalDrains
  <1>6. Owned'
    BY <1>1, <1>4, Records DEF Owned, EvalDrains
  <1>7. Answered'
    BY <1>1, <1>4 DEF Answered, EvalDrains
  <1> QED BY <1>4, <1>5, <1>6, <1>7 DEF IInv

LEMMA EvalEndsInv ==
  ASSUME IInv, NEW t \in Threads, EvalEnds(t)
  PROVE  IInv'
PROOF
  <1>1. Types /\ Nesting /\ Exclusive /\ Owned /\ Answered
    BY DEF IInv
  <1>2. Top(t).op = "eval" /\ Top(t).at = "drain"
    BY DEF EvalEnds, At
  <1>3. Goes(t, "done") /\ entered' = entered /\ direct' = direct
    BY DEF EvalEnds
  <1>4. /\ calls' \in [Threads -> Seq(Frame)] /\ Nesting' /\ Exclusive'
        /\ Evaluates /\ ~Prints /\ ~Loads /\ Works /\ ~Strays
        /\ ~Evaluates' /\ ~Prints' /\ ~Loads' /\ ~Works' /\ ~Strays'
    BY <1>1, <1>2, <1>3, Onward DEF Stages
  <1>5. Types'
    <2>1. interrupt' \in [on: BOOLEAN, raised: Nat]
      BY DEF EvalEnds, ClearInterrupt, NoRequest
    <2>2. session' \in Session0
      <3>1. PICK r \in {session.result, evals, -evals}: session' = [session EXCEPT !.result = r]
        BY DEF EvalEnds
      <3>2. r \in Int
        <4>1. session.result \in Int /\ evals \in Int
          BY <1>1, SessionAssumption DEF Types, Session0
        <4> QED BY <4>1
      <3> QED BY <1>1, <3>1, <3>2 DEF Types, Session0
    <2>3. running' \in Runs
      BY <1>1, Records DEF EvalEnds
    <2> QED BY <1>1, <1>4, <2>1, <2>2, <2>3 DEF Types, EvalEnds
  <1>6. Owned'
    BY <1>1, <1>4, Records DEF Owned, EvalEnds, Types, Session0
  <1>7. Answered'
    BY <1>1, <1>4 DEF Answered, EvalEnds, ClearInterrupt, NoRequest, Types, Session0
  <1> QED BY <1>4, <1>5, <1>6, <1>7 DEF IInv

LEMMA PrintEndsInv ==
  ASSUME IInv, NEW t \in Threads, PrintEnds(t)
  PROVE  IInv'
PROOF
  <1>1. Types /\ Nesting /\ Exclusive /\ Owned /\ Answered
    BY DEF IInv
  <1>2. Top(t).op = "print" /\ Top(t).at = "run"
    BY DEF PrintEnds, At
  <1>3. Goes(t, "done") /\ entered' = entered /\ direct' = direct
    BY DEF PrintEnds
  <1>4. /\ calls' \in [Threads -> Seq(Frame)] /\ Nesting' /\ Exclusive'
        /\ ~Evaluates /\ Prints /\ ~Loads /\ Works /\ ~Strays
        /\ ~Evaluates' /\ ~Prints' /\ ~Loads' /\ ~Works' /\ ~Strays'
    BY <1>1, <1>2, <1>3, Onward DEF Stages
  <1>5. Types'
    <2>1. debugEntries' = 0
      BY <1>1, <1>4 DEF Owned, PrintEnds, EndDebugFree
    <2>2. session' \in Session0
      BY <1>1, <2>1 DEF Types, PrintEnds, EndDebugFree, Session0
    <2>3. running' \in Runs
      BY <1>1, Records DEF PrintEnds
    <2> QED BY <1>1, <1>4, <2>1, <2>2, <2>3 DEF Types, PrintEnds
  <1>6. Owned'
    BY <1>1, <1>4, Records DEF Owned, PrintEnds, EndDebugFree, Types, Session0
  <1>7. Answered'
    BY <1>1, <1>4 DEF Answered, PrintEnds, EndDebugFree, Types, Session0
  <1> QED BY <1>4, <1>5, <1>6, <1>7 DEF IInv

LEMMA ClearsInv ==
  ASSUME IInv, NEW t \in Threads, Clears(t)
  PROVE  IInv'
PROOF
  <1>1. Types /\ Nesting /\ Exclusive /\ Owned /\ Answered
    BY DEF IInv
  <1>2. Top(t).op = "clear" /\ Top(t).at = "begin"
    BY DEF Clears, At
  <1>3. Goes(t, "done") /\ entered' = entered /\ direct' = direct
    BY DEF Clears
  <1>4. /\ calls' \in [Threads -> Seq(Frame)] /\ Nesting' /\ Exclusive'
        /\ ~Evaluates /\ ~Prints /\ ~Loads /\ ~Works /\ ~Strays
        /\ ~Evaluates' /\ ~Prints' /\ ~Loads' /\ ~Works' /\ ~Strays'
    BY <1>1, <1>2, <1>3, Onward DEF Stages
  <1>5. Types'
    BY <1>1, <1>4, Records, BumpedIsGeneration DEF Types, Clears
  <1>6. Owned'
    BY <1>1, <1>4, Records DEF Owned, Clears, Live, Types
  <1>7. Answered'
    BY <1>1, <1>4, Records DEF Answered, Owned, Clears, Live, Types
  <1> QED BY <1>4, <1>5, <1>6, <1>7 DEF IInv

LEMMA LoadBeginsInv ==
  ASSUME IInv, NEW t \in Threads, LoadBegins(t)
  PROVE  IInv'
PROOF
  <1>1. Types /\ Nesting /\ Exclusive /\ Owned /\ Answered
    BY DEF IInv
  <1>2. Top(t).op = "load" /\ Top(t).at = "begin"
    BY DEF LoadBegins, At
  <1>3. CASE Goes(t, "done") /\ UNCHANGED <<next, running, made>>
    <2>1. Goes(t, "done") /\ entered' = entered /\ direct' = direct
      BY <1>2, <1>3 DEF LoadBegins
    <2>2. /\ calls' \in [Threads -> Seq(Frame)] /\ Nesting' /\ Exclusive'
          /\ ~Evaluates /\ ~Prints /\ ~Loads /\ ~Works /\ ~Strays
          /\ ~Evaluates' /\ ~Prints' /\ ~Loads' /\ ~Works' /\ ~Strays'
      BY <1>1, <1>2, <2>1, Onward DEF Stages
    <2>3. Types'
      BY <1>1, <1>3, <2>2 DEF Types, LoadBegins
    <2>4. Owned'
      BY <1>1, <1>3, <2>2 DEF Owned, LoadBegins
    <2>5. Answered'
      BY <1>1, <1>3, <2>2 DEF Answered, LoadBegins
    <2> QED BY <2>2, <2>3, <2>4, <2>5 DEF IInv
  <1>4. CASE /\ Live /\ Goes(t, "run") /\ next' = NewSession /\ made' = made + 1
                /\ running' = Base(NewSession)
    <2>1. Goes(t, "run") /\ entered' = entered /\ direct' = direct
      BY <1>2, <1>4 DEF LoadBegins
    <2>2. /\ calls' \in [Threads -> Seq(Frame)] /\ Nesting' /\ Exclusive'
          /\ ~Evaluates /\ ~Prints /\ ~Loads /\ ~Works /\ ~Strays
          /\ ~Evaluates' /\ ~Prints' /\ Loads' /\ Works' /\ ~Strays'
      BY <1>1, <1>2, <2>1, Onward DEF Stages
    <2>3. Types'
      <3>1. made' \in Nat
        BY <1>1, <1>4 DEF Types
      <3>2. next' \in Session0 /\ running' \in Runs
        BY <1>1, <1>4, Records
      <3> QED BY <1>1, <2>2, <3>1, <3>2 DEF Types, LoadBegins
    <2>4. Owned'
      BY <1>1, <1>4, <2>2, Records DEF Owned, LoadBegins, Live
    <2>5. Answered'
      BY <1>1, <1>4, <2>2, Records DEF Answered, LoadBegins
    <2> QED BY <2>2, <2>3, <2>4, <2>5 DEF IInv
  <1> QED BY <1>3, <1>4 DEF LoadBegins

LEMMA PrintBeginsInv ==
  ASSUME IInv, NEW t \in Threads, PrintBegins(t)
  PROVE  IInv'
PROOF
  <1>1. Types /\ Nesting /\ Exclusive /\ Owned /\ Answered
    BY DEF IInv
  <1>2. Top(t).op = "print" /\ Top(t).at = "begin"
    BY DEF PrintBegins, At
  <1>3. CASE ~Live
    <2>1. Goes(t, "done") /\ entered' = entered /\ direct' = direct
      BY <1>2, <1>3 DEF PrintBegins
    <2>2. /\ calls' \in [Threads -> Seq(Frame)] /\ Nesting' /\ Exclusive'
          /\ ~Evaluates /\ ~Prints /\ ~Loads /\ ~Works /\ ~Strays
          /\ ~Evaluates' /\ ~Prints' /\ ~Loads' /\ ~Works' /\ ~Strays'
      BY <1>1, <1>2, <2>1, Onward DEF Stages
    <2>3. Types'
      BY <1>1, <1>3, <2>2 DEF Types, PrintBegins
    <2>4. Owned'
      BY <1>1, <1>3, <2>2 DEF Owned, PrintBegins
    <2>5. Answered'
      BY <1>1, <1>3, <2>2 DEF Answered, PrintBegins
    <2> QED BY <2>2, <2>3, <2>4, <2>5 DEF IInv
  <1>4. CASE Live
    <2>1. Goes(t, "run") /\ entered' = entered /\ direct' = direct
      BY <1>2, <1>4 DEF PrintBegins
    <2>2. /\ calls' \in [Threads -> Seq(Frame)] /\ Nesting' /\ Exclusive'
          /\ ~Evaluates /\ ~Prints /\ ~Loads /\ ~Works /\ ~Strays
          /\ ~Evaluates' /\ Prints' /\ ~Loads' /\ Works' /\ ~Strays'
      BY <1>1, <1>2, <2>1, Onward DEF Stages
    <2>3. Types'
      <3>1. session' = DebugFree /\ debugEntries' = debugEntries + 1 /\ running' = Base(session')
        BY <1>4 DEF PrintBegins
      <3>2. DebugFree \in Session0
        BY <1>1 DEF Types, DebugFree, Session0
      <3>3. session' \in Session0 /\ running' \in Runs
        BY <1>1, <3>1, <3>2, Records
      <3>4. debugEntries' \in Nat
        BY <1>1, <3>1 DEF Types
      <3> QED BY <1>1, <2>2, <3>3, <3>4 DEF Types, PrintBegins
    <2>4. Owned'
      BY <1>1, <1>4, <2>2, Records DEF Owned, PrintBegins, DebugFree, Types, Session0, Base, Live
    <2>5. Answered'
      BY <1>1, <1>4, <2>2, Records DEF Answered, PrintBegins, DebugFree, Types, Session0
    <2> QED BY <2>2, <2>3, <2>4, <2>5 DEF IInv
  <1> QED BY <1>3, <1>4 DEF PrintBegins

LEMMA Started ==
  ASSUME Types
  PROVE  /\ EvalStarted \in Session0 /\ EvalStarted.id = session.id /\ EvalStarted.sink = session.sink
         /\ EvalStarted.snap = "empty" /\ EvalStarted.result = 0
         /\ \A w \in {"eval", "other"}: Switched(w) \in Runs /\ Switched(w).sink = session.sink
PROOF
  <1>1. session \in Session0
    BY DEF Types
  <1>2. EvalStarted = [id |-> session.id, sink |-> session.sink, snap |-> "empty", result |-> 0]
    <2>1. Cleared(session) = [id |-> session.id, sink |-> session.sink, snap |-> "empty", result |-> session.result]
      BY <1>1 DEF Cleared, Session0
    <2> QED BY <2>1 DEF EvalStarted
  <1>3. /\ EvalStarted \in Session0 /\ EvalStarted.id = session.id /\ EvalStarted.sink = session.sink
        /\ EvalStarted.snap = "empty" /\ EvalStarted.result = 0
    BY <1>1, <1>2 DEF Session0, Snaps
  <1>4. \A w \in {"eval", "other"}: Switched(w) \in Runs /\ Switched(w).sink = session.sink
    BY <1>1 DEF Switched, Runs, Session0
  <1> QED BY <1>3, <1>4

LEMMA EvalBeginsInv ==
  ASSUME IInv, NEW t \in Threads, EvalBegins(t)
  PROVE  IInv'
PROOF
  <1>1. Types /\ Nesting /\ Exclusive /\ Owned /\ Answered
    BY DEF IInv
  <1>2. Top(t).op = "eval" /\ Top(t).at = "begin"
    BY DEF EvalBegins, At
  <1>3. interrupt' \in [on: BOOLEAN, raised: Nat]
    BY DEF EvalBegins, StartsUnasked, ClearInterrupt, NoRequest
  <1>4. evals' \in 0 .. MaxEvals
    <2>1. \A n, m \in Nat: n < m => n + 1 \in 0 .. m
      OBVIOUS
    <2> QED BY <1>1, <2>1, SessionAssumption DEF EvalBegins, Types
  <1>5. CASE ~Live
    <2>1. Goes(t, "done") /\ entered' = entered /\ direct' = direct
      BY <1>2, <1>5 DEF EvalBegins
    <2>2. /\ calls' \in [Threads -> Seq(Frame)] /\ Nesting' /\ Exclusive'
          /\ ~Evaluates /\ ~Prints /\ ~Loads /\ ~Works /\ ~Strays
          /\ ~Evaluates' /\ ~Prints' /\ ~Loads' /\ ~Works' /\ ~Strays'
      BY <1>1, <1>2, <2>1, Onward DEF Stages
    <2>3. Types'
      BY <1>1, <1>5, <1>3, <1>4, <2>2 DEF Types, EvalBegins
    <2>4. Owned'
      BY <1>1, <1>5, <2>2 DEF Owned, EvalBegins
    <2>5. Answered'
      BY <1>1, <1>5, <2>2, Records DEF Owned, Answered, EvalBegins, StartsUnasked, ClearInterrupt, NoRequest, Live
    <2> QED BY <2>2, <2>3, <2>4, <2>5 DEF IInv
  <1>6. CASE Live /\ Goes(t, "done") /\ UNCHANGED running
    <2>1. Goes(t, "done") /\ entered' = entered /\ direct' = direct
      BY <1>2, <1>6 DEF EvalBegins
    <2>2. /\ calls' \in [Threads -> Seq(Frame)] /\ Nesting' /\ Exclusive'
          /\ ~Evaluates /\ ~Prints /\ ~Loads /\ ~Works /\ ~Strays
          /\ ~Evaluates' /\ ~Prints' /\ ~Loads' /\ ~Works' /\ ~Strays'
      BY <1>1, <1>2, <2>1, Onward DEF Stages
    <2>3. Types'
      <3>1. session' \in Session0 /\ generation' \in 0 .. MaxGen /\ blamed' = FALSE
        BY <1>1, <1>6, Started, BumpedIsGeneration DEF EvalBegins
      <3> QED BY <1>1, <1>6, <2>2, <1>3, <1>4, <3>1 DEF Types, EvalBegins
    <2>4. Owned'
      BY <1>1, <1>6, <2>2, Started DEF Owned, EvalBegins, Types, Live
    <2>5. Answered'
      BY <1>1, <1>6, <2>2, Started DEF Answered, EvalBegins, StartsUnasked, ClearInterrupt, NoRequest, Types
    <2> QED BY <2>2, <2>3, <2>4, <2>5 DEF IInv
  <1>7. CASE Live /\ Goes(t, "run") /\ running' \in {Base(session), Switched("eval")}
    <2>1. Goes(t, "run") /\ entered' = entered /\ direct' = direct
      BY <1>2, <1>7 DEF EvalBegins
    <2>2. /\ calls' \in [Threads -> Seq(Frame)] /\ Nesting' /\ Exclusive'
          /\ ~Evaluates /\ ~Prints /\ ~Loads /\ ~Works /\ ~Strays
          /\ Evaluates' /\ ~Prints' /\ ~Loads' /\ Works' /\ ~Strays'
      BY <1>1, <1>2, <2>1, Onward DEF Stages
    <2>3. Types'
      <3>1. session' \in Session0 /\ generation' \in 0 .. MaxGen /\ blamed' = FALSE
        BY <1>1, <1>7, Started, BumpedIsGeneration DEF EvalBegins
      <3>2. running' \in Runs
        BY <1>1, <1>7, Started, Records DEF Types
      <3> QED BY <1>1, <2>2, <1>3, <1>4, <3>1, <3>2 DEF Types, EvalBegins
    <2>4. Owned'
      BY <1>1, <1>7, <2>2, Started, Records DEF Owned, EvalBegins, Types, Live
    <2>5. Answered'
      BY <1>1, <1>7, <2>2, Started DEF Answered, EvalBegins, StartsUnasked, ClearInterrupt, NoRequest, Types
    <2> QED BY <2>2, <2>3, <2>4, <2>5 DEF IInv
  <1> QED BY <1>5, <1>6, <1>7 DEF EvalBegins

LEMMA FileInRunsInv ==
  ASSUME IInv, NEW t \in Threads, FileInRuns(t)
  PROVE  IInv'
PROOF
  <1>1. Types /\ Nesting /\ Exclusive /\ Owned /\ Answered
    BY DEF IInv
  <1>2. /\ Top(t).op = "filein" /\ Top(t).at \in {"begin", "run"}
        /\ entered' = entered /\ direct' = direct
    BY DEF FileInRuns, At
  <1>3. CASE Top(t).at = "begin" /\ Live
    <2>1. Goes(t, "run") /\ running' = Base(session)
      BY <1>3 DEF FileInRuns, At
    <2>2. /\ calls' \in [Threads -> Seq(Frame)] /\ Nesting' /\ Exclusive'
          /\ ~Evaluates /\ ~Prints /\ ~Loads /\ ~Works /\ ~Strays
          /\ ~Evaluates' /\ ~Prints' /\ ~Loads' /\ Works' /\ ~Strays'
      BY <1>1, <1>2, <1>3, <2>1, Onward DEF Stages
    <2>3. Types'
      BY <1>1, <2>1, <2>2, Records DEF Types, FileInRuns
    <2>4. Owned'
      BY <1>1, <1>3, <2>1, <2>2, Records DEF Owned, FileInRuns, Live
    <2>5. Answered'
      BY <1>1, <2>2 DEF Answered, FileInRuns
    <2> QED BY <2>2, <2>3, <2>4, <2>5 DEF IInv
  <1>4. CASE (Top(t).at = "begin" /\ ~Live) \/ Top(t).at = "run"
    <2>1. Goes(t, "done") /\ (running' = Idle \/ (running' = running /\ Top(t).at = "begin"))
      BY <1>4 DEF FileInRuns, At
    <2>2. /\ calls' \in [Threads -> Seq(Frame)] /\ Nesting' /\ Exclusive'
          /\ ~Evaluates /\ ~Prints /\ ~Loads /\ (Works <=> Top(t).at = "run") /\ ~Strays
          /\ ~Evaluates' /\ ~Prints' /\ ~Loads' /\ ~Works' /\ ~Strays'
      BY <1>1, <1>2, <2>1, Onward DEF Stages
    <2>3. Types'
      BY <1>1, <2>1, <2>2, Records DEF Types, FileInRuns
    <2>4. Owned'
      BY <1>1, <2>1, <2>2, Records DEF Owned, FileInRuns
    <2>5. Answered'
      BY <1>1, <2>2 DEF Answered, FileInRuns
    <2> QED BY <2>2, <2>3, <2>4, <2>5 DEF IInv
  <1> QED BY <1>2, <1>3, <1>4

LEMMA ThrowsInv ==
  ASSUME IInv, NEW t \in Threads, Throws(t)
  PROVE  IInv'
PROOF
  <1>1. Types /\ Nesting /\ Exclusive /\ Owned /\ Answered
    BY DEF IInv
  <1>2. /\ Top(t).at \in {"run", "drain"} /\ Goes(t, "done")
        /\ entered' = entered /\ direct' = direct
    BY DEF Throws
  <1>3. /\ calls' \in [Threads -> Seq(Frame)] /\ Nesting' /\ Exclusive'
        /\ Prints <=> Top(t).op = "print" /\ Top(t).at = "run"
        /\ Strays <=> Top(t).at = "drain" /\ Top(t).op # "eval"
        /\ Works /\ ~Evaluates' /\ ~Prints' /\ ~Loads' /\ ~Works' /\ ~Strays'
    BY <1>1, <1>2, Onward DEF Stages
  <1>4. Prints <=> Top(t).op = "print"
    BY <1>1, <1>2, <1>3 DEF Owned
  <1>5. /\ session' \in Session0 /\ session'.id = session.id /\ session'.snap = session.snap
        /\ session'.result = session.result /\ debugEntries' = 0
    <2>1. CASE Prints
      BY <1>1, <1>4, <2>1 DEF Throws, EndDebugFree, Owned, Types, Session0
    <2>2. CASE ~Prints
      BY <1>1, <1>4, <2>2 DEF Throws, Owned, Types
    <2> QED BY <2>1, <2>2
  <1>6. Types'
    BY <1>1, <1>3, <1>5, Records DEF Types, Throws
  <1>7. Owned'
    BY <1>1, <1>3, <1>5, Records DEF Owned, Throws
  <1>8. Answered'
    BY <1>1, <1>3, <1>5 DEF Answered, Throws
  <1> QED BY <1>3, <1>6, <1>7, <1>8 DEF IInv

-------------------------------------------------------------------------------
(* The steps that leave the calls alone *)

LEMMA StaysInv ==
  ASSUME IInv, calls' = calls, entered' = entered, direct' = direct,
         session'.id = session.id
  PROVE  /\ calls' \in [Threads -> Seq(Frame)] /\ Nesting' /\ Exclusive'
         /\ Evaluates' <=> Evaluates
         /\ Prints' <=> Prints
         /\ Loads' <=> Loads
         /\ Works' <=> Works
         /\ Strays' <=> Strays
PROOF
  <1>1. SameInside
    BY StayViews
  <1>2. calls' \in [Threads -> Seq(Frame)] /\ Nesting'
    BY DEF IInv, Types, Nesting, First
  <1>3. Exclusive'
    BY <1>1 DEF IInv, Exclusive, SameInside
  <1> QED BY <1>1, <1>2, <1>3, SameViews

(* A thread whose innermost call runs is the one that works. *)
LEMMA RunsInside ==
  ASSUME IInv, NEW t \in Threads, Top(t).at \in {"run", "drain"}
  PROVE  Works
PROOF
  BY TopInside DEF IInv, Stages, Works

LEMMA SetsCaptureInv ==
  ASSUME IInv, NEW t \in Threads, SetsCapture(t)
  PROVE  IInv'
PROOF
  <1>1. Types /\ Owned /\ Answered
    BY DEF IInv
  <1>2. /\ session' \in Session0 /\ session'.id = session.id /\ session'.snap = session.snap
        /\ session'.result = session.result /\ (session = NoSession => session' = session)
        /\ (debugEntries # 0 => session' = session)
    BY <1>1 DEF SetsCapture, CaptureApplied, Types, Session0, Live
  <1>3. /\ running' \in Runs /\ (running = Idle => running' = Idle)
        /\ running'.sink \in {running.sink, session'.sink}
    <2>1. running' = running \/ (running.who = "base" /\ running' = [running EXCEPT !.sink = session'.sink])
      BY DEF SetsCapture
    <2>2. running \in Runs /\ session'.sink \in BOOLEAN
      BY <1>1, <1>2 DEF Types, Session0
    <2>3. CASE running' = running
      BY <2>2, <2>3
    <2>4. CASE running.who = "base" /\ running' = [running EXCEPT !.sink = session'.sink]
      <3>1. running # Idle
        BY <2>4 DEF Idle
      <3>2. running' \in Runs /\ running'.sink = session'.sink
        BY <2>2, <2>4 DEF Runs
      <3> QED BY <3>1, <3>2
    <2> QED BY <2>1, <2>3, <2>4
  <1>4. /\ calls' \in [Threads -> Seq(Frame)] /\ Nesting' /\ Exclusive'
        /\ Evaluates' <=> Evaluates
        /\ Prints' <=> Prints
        /\ Loads' <=> Loads
        /\ Works' <=> Works
        /\ Strays' <=> Strays
    BY <1>2, StaysInv DEF SetsCapture
  <1>5. Types'
    BY <1>1, <1>2, <1>3, <1>4 DEF Types, SetsCapture
  <1>6. Owned'
    BY <1>1, <1>2, <1>3, <1>4 DEF Owned, SetsCapture
  <1>7. Answered'
    BY <1>1, <1>2, <1>4 DEF Answered, SetsCapture
  <1> QED BY <1>4, <1>5, <1>6, <1>7 DEF IInv

(* The evaluation that runs now is the last one that began. *)
LEMMA CurrentIs ==
  ASSUME IInv
  PROVE  Current = IF Evaluates THEN evals ELSE 0
PROOF
  <1> DEFINE At1(t, i) == i <= Len(calls[t]) /\ calls[t][i].op = "eval" /\ calls[t][i].at \in {"run", "drain"}
  <1>1. Types /\ Nesting
    BY DEF IInv
  <1>2. ASSUME NEW t \in Threads, NEW i \in 1 .. MaxNest, At1(t, i)
        PROVE  Evaluates
    <2>1. Len(calls[t]) \in Nat /\ Len(calls[t]) <= 2 /\ calls[t] \in Seq(Frame)
      BY <1>1, LenProperties DEF Types, Nesting
    <2>2. i \in {1, 2}
      <3>1. \A n, j \in Nat: n <= 2 /\ j <= n /\ j >= 1 => j \in {1, 2}
        OBVIOUS
      <3>2. i \in Nat /\ i >= 1
        BY SessionAssumption
      <3> QED BY <1>2, <2>1, <3>1, <3>2
    <2>3. i # 2
      <3>1. SUFFICES ASSUME i = 2 PROVE FALSE
        OBVIOUS
      <3>2. Len(calls[t]) = 2
        <4>1. \A n \in Nat: n <= 2 /\ 2 <= n => n = 2
          OBVIOUS
        <4> QED BY <1>2, <2>1, <3>1, <4>1
      <3> QED BY <1>1, <1>2, <3>1, <3>2 DEF Nesting
    <2>4. calls[t] # <<>>
      BY <1>2, <2>1, <2>2, <2>3, EmptySeq
    <2> QED BY <1>2, <2>2, <2>3, <2>4 DEF Evaluates, Inside, Occupied, First
  <1>3. ASSUME Evaluates
        PROVE  \E t \in Threads, i \in 1 .. MaxNest: At1(t, i)
    <2>1. PICK t \in Threads: Inside(t, "eval", {"run", "drain"})
      BY <1>3 DEF Evaluates
    <2>2. calls[t] # <<>> /\ calls[t] \in Seq(Frame)
      BY <1>1, <2>1 DEF Inside, Occupied, Types
    <2>3. 1 <= Len(calls[t])
      <3>1. Len(calls[t]) \in Nat /\ Len(calls[t]) # 0
        BY <2>2, EmptySeq, LenProperties
      <3> QED BY <3>1
    <2>4. At1(t, 1)
      BY <2>1, <2>3 DEF Inside, First
    <2>5. 1 \in 1 .. MaxNest
      BY SessionAssumption
    <2> QED BY <2>4, <2>5
  <1> QED BY <1>2, <1>3 DEF Current

LEMMA RequestsInterruptInv ==
  ASSUME IInv, NEW t \in Threads, RequestsInterrupt(t)
  PROVE  IInv'
PROOF
  <1>1. Types /\ Owned /\ Answered
    BY DEF IInv
  <1>2. interrupt' = [on |-> TRUE, raised |-> IF Evaluates THEN evals ELSE 0]
    BY CurrentIs DEF RequestsInterrupt
  <1>3. /\ calls' \in [Threads -> Seq(Frame)] /\ Nesting' /\ Exclusive'
        /\ Evaluates' <=> Evaluates
        /\ Prints' <=> Prints
        /\ Loads' <=> Loads
        /\ Works' <=> Works
        /\ Strays' <=> Strays
    BY StaysInv DEF RequestsInterrupt
  <1>4. Types'
    <2>1. (IF Evaluates THEN evals ELSE 0) \in Nat
      BY <1>1, SessionAssumption DEF Types
    <2> QED BY <1>1, <1>2, <1>3, <2>1 DEF Types, RequestsInterrupt
  <1>5. Owned'
    BY <1>1, <1>3 DEF Owned, RequestsInterrupt
  <1>6. Answered'
    BY <1>1, <1>2, <1>3 DEF Answered, RequestsInterrupt
  <1> QED BY <1>3, <1>4, <1>5, <1>6 DEF IInv

LEMMA SwitchesInv ==
  ASSUME IInv, NEW t \in Threads, Switches(t)
  PROVE  IInv'
PROOF
  <1>1. Types /\ Owned /\ Answered
    BY DEF IInv
  <1>2. Works
    BY RunsInside DEF Switches, At
  <1>3. running' \in Runs /\ running'.sink = session.sink
    <2>1. running' \in {Base(session), Switched("eval"), Switched("other")}
      BY DEF Switches
    <2> QED BY <1>1, <2>1, Records, Started DEF Types
  <1>4. /\ calls' \in [Threads -> Seq(Frame)] /\ Nesting' /\ Exclusive'
        /\ Evaluates' <=> Evaluates
        /\ Prints' <=> Prints
        /\ Loads' <=> Loads
        /\ Works' <=> Works
        /\ Strays' <=> Strays
    BY StaysInv DEF Switches
  <1>5. Types'
    BY <1>1, <1>3, <1>4 DEF Types, Switches
  <1>6. Owned'
    BY <1>1, <1>2, <1>3, <1>4 DEF Owned, Switches
  <1>7. Answered'
    BY <1>1, <1>4 DEF Answered, Switches
  <1> QED BY <1>4, <1>5, <1>6, <1>7 DEF IInv

LEMMA AbortsInv ==
  ASSUME IInv, NEW t \in Threads, Aborts(t)
  PROVE  IInv'
PROOF
  <1>1. Types /\ Owned /\ Answered
    BY DEF IInv
  <1>2. Works /\ session.id # 0 /\ ~Prints
    BY <1>1, RunsInside DEF Aborts, Owned
  <1>3. /\ session' \in Session0 /\ session'.id = session.id /\ session'.sink = session.sink
        /\ session'.result = session.result
    BY <1>1 DEF Aborts, Types, Session0, Snaps
  <1>4. blamed' \in BOOLEAN /\ (blamed' => session'.snap = "own")
    BY <1>1 DEF Aborts, Replaces, Own, Types, Session0, Answered
  <1>5. generation' \in 0 .. MaxGen
    BY <1>1, BumpedIsGeneration DEF Aborts, Types
  <1>6. /\ calls' \in [Threads -> Seq(Frame)] /\ Nesting' /\ Exclusive'
        /\ Evaluates' <=> Evaluates
        /\ Prints' <=> Prints
        /\ Loads' <=> Loads
        /\ Works' <=> Works
        /\ Strays' <=> Strays
    BY <1>3, StaysInv DEF Aborts
  <1>7. Types'
    BY <1>1, <1>3, <1>4, <1>5, <1>6 DEF Types, Aborts
  <1>8. Owned'
    BY <1>1, <1>2, <1>3, <1>6 DEF Owned, Aborts
  <1>9. Answered'
    BY <1>1, <1>3, <1>4, <1>6 DEF Answered, Aborts
  <1> QED BY <1>6, <1>7, <1>8, <1>9 DEF IInv

LEMMA SendsDirectlyInv ==
  ASSUME IInv, SendsDirectly
  PROVE  IInv'
PROOF
  <1>1. Types /\ Nesting /\ Exclusive /\ Owned /\ Answered
    BY DEF IInv
  <1>2. SameInside
    BY StayViews DEF SendsDirectly
  <1>3. \A u \in Threads: ~Occupied(u)
    BY <1>1 DEF Exclusive, SendsDirectly
  <1>4. session.id # 0
    BY <1>1 DEF SendsDirectly, Live, Owned
  <1>5. Exclusive'
    BY <1>1, <1>2, <1>3, <1>4 DEF Exclusive, SameInside, SendsDirectly
  <1>6. Nesting' /\ Types'
    BY <1>1 DEF SendsDirectly, Nesting, First, Types
  <1>7. Owned'
    BY <1>1, <1>2, SameViews DEF Owned, SendsDirectly
  <1>8. Answered'
    BY <1>1, <1>2, SameViews DEF Answered, SendsDirectly
  <1> QED BY <1>5, <1>6, <1>7, <1>8 DEF IInv

LEMMA NextInv == IInv /\ [Next]_vars => IInv'
PROOF
  <1> SUFFICES ASSUME IInv, [Next]_vars PROVE IInv'
    OBVIOUS
  <1>1. CASE SendsDirectly
    BY <1>1, SendsDirectlyInv
  <1>2. ASSUME NEW t \in Threads, Thread(t) PROVE IInv'
    <2>1. CASE \E op \in Ops: Enters(t, op)
      BY <2>1, EntersInv
    <2>2. CASE TestsBusy(t)
      BY <2>2, TestsBusyInv
    <2>3. CASE Returns(t)
      BY <2>3, ReturnsInv
    <2>4. CASE SetsCapture(t)
      BY <2>4, SetsCaptureInv
    <2>5. CASE RequestsInterrupt(t)
      BY <2>5, RequestsInterruptInv
    <2>6. CASE Boots(t)
      BY <2>6, BootsInv
    <2>7. CASE ShutsDown(t)
      BY <2>7, ShutsDownInv
    <2>8. CASE LoadBegins(t)
      BY <2>8, LoadBeginsInv
    <2>9. CASE LoadEnds(t)
      BY <2>9, LoadEndsInv
    <2>10. CASE EvalBegins(t)
      BY <2>10, EvalBeginsInv
    <2>11. CASE Switches(t)
      BY <2>11, SwitchesInv
    <2>12. CASE Interrupted(t)
      BY <2>12, InterruptedInv
    <2>13. CASE EvalDrains(t)
      BY <2>13, EvalDrainsInv
    <2>14. CASE EvalEnds(t)
      BY <2>14, EvalEndsInv
    <2>15. CASE PrintBegins(t)
      BY <2>15, PrintBeginsInv
    <2>16. CASE PrintEnds(t)
      BY <2>16, PrintEndsInv
    <2>17. CASE FileInRuns(t)
      BY <2>17, FileInRunsInv
    <2>18. CASE Clears(t)
      BY <2>18, ClearsInv
    <2>19. CASE Aborts(t)
      BY <2>19, AbortsInv
    <2>20. CASE Throws(t)
      BY <2>20, ThrowsInv
    <2> QED BY <1>2, <2>1, <2>2, <2>3, <2>4, <2>5, <2>6, <2>7, <2>8, <2>9, <2>10, <2>11, <2>12,
               <2>13, <2>14, <2>15, <2>16, <2>17, <2>18, <2>19, <2>20 DEF Thread
  <1>3. CASE UNCHANGED vars
    BY <1>3, StayViews, SameViews DEF vars, IInv, Types, Nesting, First, Exclusive, Occupied, Owned, Answered
  <1> QED BY <1>1, <1>2, <1>3 DEF Next

-------------------------------------------------------------------------------
(* What follows *)

(* The invariant holds in every state, for any number of threads, of calls inside one
   another, of evaluations, sessions and generations. *)
THEOREM Invariant == Spec => []IInv
PROOF
  <1>1. Init => IInv
    BY InitInv
  <1>2. IInv /\ [Next]_vars => IInv'
    BY NextInv
  <1> QED BY <1>1, <1>2, PTL DEF Spec

(* A call past the busy test is the outermost of its thread. *)
LEMMA HolderIs ==
  ASSUME IInv, NEW h \in Holders
  PROVE  h = <<h[1], 1>> /\ h[1] \in Threads /\ Occupied(h[1]) /\ First(h[1]).at # "taken"
PROOF
  <1>1. Types /\ Nesting
    BY DEF IInv
  <1>2. /\ h \in Threads \X (1 .. MaxNest) /\ h[2] <= Len(calls[h[1]])
        /\ calls[h[1]][h[2]].at \in {"begin", "run", "drain", "done"}
    BY DEF Holders
  <1>3. h = <<h[1], h[2]>> /\ h[1] \in Threads /\ h[2] \in 1 .. MaxNest
    BY <1>2
  <1>4. Len(calls[h[1]]) \in Nat /\ Len(calls[h[1]]) <= 2 /\ calls[h[1]] \in Seq(Frame)
    BY <1>1, <1>3, LenProperties DEF Types, Nesting
  <1>5. h[2] \in Nat /\ h[2] >= 1
    BY <1>3, SessionAssumption
  <1>6. \A n, j \in Nat: n <= 2 /\ j <= n /\ j >= 1 => j = 1 \/ (j = 2 /\ n = 2)
    OBVIOUS
  <1>7. h[2] = 1 \/ (h[2] = 2 /\ Len(calls[h[1]]) = 2)
    BY <1>2, <1>4, <1>5, <1>6
  <1>8. h[2] = 1
    <2>1. SUFFICES ASSUME h[2] = 2, Len(calls[h[1]]) = 2 PROVE FALSE
      BY <1>7
    <2> QED BY <1>1, <1>2, <1>3, <2>1 DEF Nesting
  <1>9. calls[h[1]] # <<>>
    <2>1. Len(<<>>) = 0
      OBVIOUS
    <2>2. Len(calls[h[1]]) # 0
      BY <1>2, <1>4, <1>5
    <2> QED BY <2>1, <2>2
  <1> QED BY <1>2, <1>3, <1>8, <1>9 DEF Occupied, First

LEMMA OneInsideHolds == IInv => OneInside
PROOF
  <1> SUFFICES ASSUME IInv PROVE OneInside
    OBVIOUS
  <1>1. Exclusive
    BY DEF IInv
  <1>2. CASE Holders = {}
    <2>1. Cardinality(Holders) = 0
      BY <1>2, FS_EmptySet
    <2> QED BY <2>1 DEF OneInside
  <1>3. CASE Holders # {}
    <2>1. PICK h \in Holders: TRUE
      BY <1>3
    <2>2. Occupied(h[1]) /\ First(h[1]).at # "taken" /\ h[1] \in Threads
      BY <2>1, HolderIs
    <2>3. ASSUME NEW g \in Holders PROVE g = h
      <3>1. /\ g = <<g[1], 1>> /\ g[1] \in Threads /\ Occupied(g[1])
            /\ h = <<h[1], 1>>
        BY <2>1, HolderIs
      <3>2. g[1] = h[1]
        BY <1>1, <2>2, <3>1 DEF Exclusive
      <3> QED BY <3>1, <3>2
    <2>4. Holders = {h}
      BY <2>1, <2>3
    <2>5. Cardinality(Holders) = 1
      BY <2>4, FS_Singleton
    <2>6. ~direct
      BY <1>1, <2>2 DEF Exclusive
    <2> QED BY <2>5, <2>6 DEF OneInside
  <1> QED BY <1>2, <1>3

LEMMA EntryHeldHolds == IInv => EntryHeld
PROOF
  <1> SUFFICES ASSUME IInv PROVE EntryHeld
    OBVIOUS
  <1>1. Types /\ Nesting /\ Exclusive
    BY DEF IInv
  <1>2. ASSUME entered = 1
        PROVE  Holders # {} \/ \E t \in Threads: Top(t).at = "taken"
    <2>1. PICK t \in Threads: Occupied(t)
      BY <1>1, <1>2 DEF Exclusive
    <2>2. calls[t] \in Seq(Frame) /\ calls[t] # <<>>
      BY <1>1, <2>1 DEF Types, Occupied
    <2>3. Len(calls[t]) \in Nat /\ Len(calls[t]) # 0 /\ Len(calls[t]) <= 2
      BY <1>1, <2>2, EmptySeq, LenProperties DEF Nesting
    <2>4. 1 <= Len(calls[t]) /\ 1 \in 1 .. Len(calls[t])
      BY <2>3
    <2>5. First(t) \in Frame
      BY <2>2, <2>4, ElementOfSeq DEF First
    <2>6. CASE First(t).at = "taken"
      <3>1. Len(calls[t]) # 2
        BY <1>1, <2>6 DEF Nesting
      <3>2. \A n \in Nat: n # 0 /\ n <= 2 /\ n # 2 => n = 1
        OBVIOUS
      <3>3. Len(calls[t]) = 1
        BY <2>3, <3>1, <3>2
      <3>4. Top(t) = First(t)
        BY <2>2, <3>3 DEF Top, First
      <3> QED BY <2>6, <3>4
    <2>7. CASE First(t).at # "taken"
      <3>1. First(t).at \in {"begin", "run", "drain", "done"}
        BY <2>1, <2>5, <2>7 DEF Frame, Stages, Occupied, First
      <3>2. <<t, 1>> \in Threads \X (1 .. MaxNest)
        BY SessionAssumption
      <3>3. <<t, 1>> \in Holders
        BY <2>4, <3>1, <3>2 DEF Holders, First
      <3> QED BY <3>3
    <2> QED BY <2>6, <2>7
  <1>3. ASSUME Holders # {} PROVE entered = 1
    BY <1>1, <1>3, HolderIs DEF Exclusive
  <1>4. ASSUME NEW t \in Threads, Top(t).at = "taken" PROVE entered = 1
    BY <1>1, <1>4, TopInside DEF Exclusive, Stages
  <1> QED BY <1>2, <1>3, <1>4 DEF EntryHeld

LEMMA TypesHold == IInv => TypeOK
PROOF
  <1> SUFFICES ASSUME IInv PROVE TypeOK
    OBVIOUS
  <1>1. Types /\ Owned /\ Answered
    BY DEF IInv
  <1>2. debugEntries \in 0 .. MaxNest
    BY <1>1, SessionAssumption DEF Owned
  <1>3. ASSUME NEW t \in Threads, NEW i \in 1 .. Len(calls[t]) PROVE calls[t][i].op \in Ops
    <2>1. calls[t] \in Seq(Frame)
      BY <1>1 DEF Types
    <2>2. calls[t][i] \in Frame
      BY <2>1, ElementOfSeq
    <2> QED BY <2>2 DEF Frame
  <1>4. session.result \in -MaxEvals .. MaxEvals
    <2>1. \A n, m \in Nat: n <= m => 0 \in -m .. m /\ n \in -m .. m /\ -n \in -m .. m
      OBVIOUS
    <2>2. evals \in Nat /\ evals <= MaxEvals
      BY <1>1, SessionAssumption DEF Types
    <2>3. session.result \in {0, evals, -evals}
      BY <1>1 DEF Answered
    <2> QED BY <2>1, <2>2, <2>3, SessionAssumption
  <1>5. {session.snap, next.snap} \subseteq {"empty", "own", "other"}
    BY <1>1 DEF Types, Session0, Snaps
  <1>6. running.who \in {"none", "base", "eval", "other"} /\ running.sink \in BOOLEAN
    BY <1>1 DEF Types, Runs
  <1>7. entered \in {0, 1} /\ generation \in 0 .. MaxGen
    BY <1>1 DEF Types
  <1> QED BY <1>2, <1>3, <1>4, <1>5, <1>6, <1>7 DEF TypeOK

(* The entries of the ABI exclude one another; the mark is set exactly while one
   holds it; the result is the last evaluation's, and empty while one runs; no
   background failure hides the entry's own. *)
THEOREM Entries == Spec => []EntriesSound
PROOF
  <1>1. IInv => EntriesSound
    <2> SUFFICES ASSUME IInv PROVE EntriesSound
      OBVIOUS
    <2>1. TypeOK /\ OneInside /\ EntryHeld
      BY TypesHold, OneInsideHolds, EntryHeldHolds
    <2>2. ResultIsLast
      BY CurrentIs DEF ResultIsLast, IInv, Answered
    <2>3. OwnFailureShown
      BY DEF OwnFailureShown, IInv, Answered
    <2> QED BY <2>1, <2>2, <2>3 DEF EntriesSound
  <1> QED BY <1>1, Invariant, PTL

(* An interrupt halts the evaluation it was asked in and no other. *)
THEOREM Interrupts == Spec => []InterruptsOwn
PROOF
  <1>1. IInv => InterruptsOwn
    BY DEF IInv, Answered, InterruptsOwn
  <1> QED BY <1>1, Invariant, PTL

-------------------------------------------------------------------------------
(* What a step may do to the snapshot *)

KeepsUnlessTold   == generation' = generation => Snap' = Snap
KeepsWhileLoading == next # NoSession =>
                       \/ session'.id = next.id
                       \/ generation' = generation /\ [session' EXCEPT !.sink = session.sink] = session
KeepsInPrints     == debugEntries > 0 => Snap' = Snap
Keeps == KeepsUnlessTold /\ KeepsWhileLoading /\ KeepsInPrints

(* A step that changes of the session only what its base captures. *)
LEMMA SinkOnly ==
  ASSUME Types, generation' = generation,
         \/ session' = session
         \/ \E b \in BOOLEAN: session' = [session EXCEPT !.sink = b]
  PROVE  Keeps
PROOF
  <1>1. session \in Session0
    BY DEF Types
  <1>2. session'.snap = session.snap /\ [session' EXCEPT !.sink = session.sink] = session
    BY <1>1 DEF Session0
  <1> QED BY <1>2 DEF Keeps, KeepsUnlessTold, KeepsWhileLoading, KeepsInPrints, Snap

(* A step of the call inside that neither loads nor prints. *)
LEMMA NoLoadNorPrint ==
  ASSUME Owned, ~Loads, ~Prints, KeepsUnlessTold
  PROVE  Keeps
PROOF
  BY DEF Keeps, KeepsWhileLoading, KeepsInPrints, Owned

LEMMA BootsKeeps ==
  ASSUME IInv, NEW t \in Threads, Boots(t)
  PROVE  Keeps
PROOF
  <1>1. Types /\ Nesting /\ Exclusive /\ Owned
    BY DEF IInv
  <1>2. ~Loads /\ ~Prints
    <2>1. Top(t).op = "boot" /\ Top(t).at = "begin" /\ Goes(t, "done") /\ entered' = entered /\ direct' = direct
      BY DEF Boots, At
    <2> QED BY <1>1, <2>1, Onward DEF Stages
  <1>3. KeepsUnlessTold
    <2>1. CASE session' = session
      BY <2>1 DEF KeepsUnlessTold, Snap
    <2>2. CASE ~Live /\ session' = NewSession
      BY <1>1, <2>2, Records DEF KeepsUnlessTold, Snap, Live
    <2> QED BY <2>1, <2>2 DEF Boots
  <1> QED BY <1>1, <1>2, <1>3, NoLoadNorPrint

LEMMA ShutsDownKeeps ==
  ASSUME IInv, NEW t \in Threads, ShutsDown(t)
  PROVE  Keeps
PROOF
  <1>1. Types /\ Nesting /\ Exclusive /\ Owned
    BY DEF IInv
  <1>2. ~Loads /\ ~Prints
    <2>1. Top(t).op = "shutdown" /\ Top(t).at = "begin" /\ Goes(t, "done") /\ entered' = entered /\ direct' = direct
      BY DEF ShutsDown, At
    <2> QED BY <1>1, <2>1, Onward DEF Stages
  <1>3. KeepsUnlessTold
    <2>1. CASE Live
      BY <1>1, <2>1, BumpedIsGeneration DEF KeepsUnlessTold, ShutsDown
    <2>2. CASE ~Live
      BY <2>2 DEF KeepsUnlessTold, ShutsDown, Live, Snap
    <2> QED BY <2>1, <2>2
  <1> QED BY <1>1, <1>2, <1>3, NoLoadNorPrint

LEMMA EvalBeginsKeeps ==
  ASSUME IInv, NEW t \in Threads, EvalBegins(t)
  PROVE  Keeps
PROOF
  <1>1. Types /\ Nesting /\ Exclusive /\ Owned
    BY DEF IInv
  <1>2. ~Loads /\ ~Prints
    <2>1. /\ Top(t).op = "eval" /\ Top(t).at = "begin" /\ (Goes(t, "done") \/ Goes(t, "run"))
          /\ entered' = entered /\ direct' = direct
      BY DEF EvalBegins, At
    <2> QED BY <1>1, <2>1, Onward DEF Stages
  <1>3. KeepsUnlessTold
    <2>1. CASE Live
      BY <1>1, <2>1, BumpedIsGeneration DEF KeepsUnlessTold, EvalBegins
    <2>2. CASE ~Live
      BY <2>2 DEF KeepsUnlessTold, EvalBegins, Snap
    <2> QED BY <2>1, <2>2
  <1> QED BY <1>1, <1>2, <1>3, NoLoadNorPrint

LEMMA EvalEndsKeeps ==
  ASSUME IInv, NEW t \in Threads, EvalEnds(t)
  PROVE  Keeps
PROOF
  <1>1. Types /\ Nesting /\ Exclusive /\ Owned
    BY DEF IInv
  <1>2. ~Loads /\ ~Prints
    <2>1. Top(t).op = "eval" /\ Top(t).at = "drain" /\ Goes(t, "done") /\ entered' = entered /\ direct' = direct
      BY DEF EvalEnds, At
    <2> QED BY <1>1, <2>1, Onward DEF Stages
  <1>3. KeepsUnlessTold
    <2>1. PICK r: session' = [session EXCEPT !.result = r]
      BY DEF EvalEnds
    <2>2. session'.snap = session.snap
      BY <1>1, <2>1 DEF Types, Session0
    <2> QED BY <2>2 DEF KeepsUnlessTold, Snap
  <1> QED BY <1>1, <1>2, <1>3, NoLoadNorPrint

LEMMA ClearsKeeps ==
  ASSUME IInv, NEW t \in Threads, Clears(t)
  PROVE  Keeps
PROOF
  <1>1. Types /\ Nesting /\ Exclusive /\ Owned
    BY DEF IInv
  <1>2. ~Loads /\ ~Prints
    <2>1. Top(t).op = "clear" /\ Top(t).at = "begin" /\ Goes(t, "done") /\ entered' = entered /\ direct' = direct
      BY DEF Clears, At
    <2> QED BY <1>1, <2>1, Onward DEF Stages
  <1>3. KeepsUnlessTold
    <2>1. CASE Live
      BY <1>1, <2>1, BumpedIsGeneration DEF KeepsUnlessTold, Clears
    <2>2. CASE ~Live
      BY <2>2 DEF KeepsUnlessTold, Clears, Snap
    <2> QED BY <2>1, <2>2
  <1> QED BY <1>1, <1>2, <1>3, NoLoadNorPrint

LEMMA LoadEndsKeeps ==
  ASSUME IInv, NEW t \in Threads, LoadEnds(t)
  PROVE  Keeps
PROOF
  <1>1. Types /\ Nesting /\ Exclusive /\ Owned
    BY DEF IInv
  <1>2. CASE UNCHANGED <<session, generation>>
    BY <1>1, <1>2, SinkOnly
  <1>3. CASE session' = Cleared(next) /\ Bumped
    <2>1. ~Prints
      <3>1. Top(t).op = "load" /\ Top(t).at = "run" /\ Goes(t, "done") /\ entered' = entered /\ direct' = direct
        BY DEF LoadEnds, At
      <3> QED BY <1>1, <3>1, Onward DEF Stages
    <2>2. session'.id = next.id
      BY <1>1, <1>3, Records DEF Types
    <2>3. generation' # generation
      BY <1>1, <1>3, BumpedIsGeneration
    <2> QED BY <1>1, <2>1, <2>2, <2>3 DEF Keeps, KeepsUnlessTold, KeepsWhileLoading, KeepsInPrints, Owned
  <1> QED BY <1>2, <1>3 DEF LoadEnds

LEMMA AbortsKeeps ==
  ASSUME IInv, NEW t \in Threads, Aborts(t)
  PROVE  Keeps
PROOF
  <1>1. Types /\ Owned
    BY DEF IInv
  <1>2. CASE ~Captures
    BY <1>1, <1>2, SinkOnly DEF Aborts
  <1>3. CASE Captures
    <2>1. ~Prints
      BY <1>1 DEF Owned, Aborts
    <2>2. generation' # generation
      BY <1>1, <1>3, BumpedIsGeneration DEF Aborts
    <2> QED BY <1>1, <1>3, <2>1, <2>2 DEF Keeps, KeepsUnlessTold, KeepsWhileLoading, KeepsInPrints, Owned, Captures
  <1> QED BY <1>2, <1>3

LEMMA NextKeeps == IInv /\ [Next]_vars => Keeps
PROOF
  <1> SUFFICES ASSUME IInv, [Next]_vars PROVE Keeps
    OBVIOUS
  <1>1. Types /\ capture \in BOOLEAN
    BY DEF IInv, Types
  <1>2. CASE UNCHANGED <<session, generation>>
    BY <1>1, <1>2, SinkOnly
  <1>3. CASE /\ generation' = generation
             /\ \E b \in BOOLEAN: session' = [session EXCEPT !.sink = b]
    BY <1>1, <1>3, SinkOnly
  <1>4. ASSUME NEW t \in Threads, Thread(t) PROVE Keeps
    <2>1. CASE \/ \E op \in Ops: Enters(t, op)
               \/ TestsBusy(t) \/ Returns(t) \/ RequestsInterrupt(t) \/ LoadBegins(t)
               \/ Switches(t) \/ Interrupted(t) \/ EvalDrains(t) \/ FileInRuns(t)
      <3>1. UNCHANGED <<session, generation>>
        BY <2>1 DEF Enters, TestsBusy, Returns, RequestsInterrupt, LoadBegins, Switches,
                    Interrupted, EvalDrains, FileInRuns
      <3> QED BY <1>2, <3>1
    <2>2. CASE SetsCapture(t)
      <3>1. (~capture) \in BOOLEAN /\ generation' = generation
            /\ (session' = session \/ session' = [session EXCEPT !.sink = ~capture])
        BY <2>2 DEF SetsCapture, CaptureApplied
      <3> QED BY <1>2, <1>3, <3>1
    <2>3. CASE PrintBegins(t)
      <3>1. generation' = generation /\ (session' = session \/ session' = [session EXCEPT !.sink = FALSE])
        BY <2>3 DEF PrintBegins, DebugFree
      <3> QED BY <1>2, <1>3, <3>1
    <2>4. CASE PrintEnds(t) \/ Throws(t)
      <3>1. generation' = generation /\ (session' = session \/ session' = [session EXCEPT !.sink = capture])
        BY <2>4 DEF PrintEnds, Throws, EndDebugFree
      <3> QED BY <1>1, <1>2, <1>3, <3>1
    <2>5. CASE Boots(t)
      BY <2>5, BootsKeeps
    <2>6. CASE ShutsDown(t)
      BY <2>6, ShutsDownKeeps
    <2>7. CASE LoadEnds(t)
      BY <2>7, LoadEndsKeeps
    <2>8. CASE EvalBegins(t)
      BY <2>8, EvalBeginsKeeps
    <2>9. CASE EvalEnds(t)
      BY <2>9, EvalEndsKeeps
    <2>10. CASE Clears(t)
      BY <2>10, ClearsKeeps
    <2>11. CASE Aborts(t)
      BY <2>11, AbortsKeeps
    <2> QED BY <1>4, <2>1, <2>2, <2>3, <2>4, <2>5, <2>6, <2>7, <2>8, <2>9, <2>10, <2>11 DEF Thread
  <1>5. CASE SendsDirectly \/ UNCHANGED vars
    BY <1>2, <1>5 DEF SendsDirectly, vars
  <1> QED BY <1>4, <1>5 DEF Next

(* The snapshot stays while its generation does, while a load probes the session it
   makes, and while a print of the debugger runs. *)
THEOREM Kept == Spec => SnapshotKept
PROOF
  <1>1. IInv /\ [Next]_vars => [KeepsUnlessTold /\ KeepsWhileLoading /\ KeepsInPrints]_vars
    BY NextKeeps DEF Keeps
  <1>2. [KeepsUnlessTold /\ KeepsWhileLoading /\ KeepsInPrints]_vars => [KeepsUnlessTold]_vars
    OBVIOUS
  <1>3. [KeepsUnlessTold /\ KeepsWhileLoading /\ KeepsInPrints]_vars => [KeepsWhileLoading]_vars
    OBVIOUS
  <1>4. [KeepsUnlessTold /\ KeepsWhileLoading /\ KeepsInPrints]_vars => [KeepsInPrints]_vars
    OBVIOUS
  <1>5. Spec => [][KeepsUnlessTold]_vars /\ [][KeepsWhileLoading]_vars /\ [][KeepsInPrints]_vars
    BY <1>1, <1>2, <1>3, <1>4, Invariant, PTL DEF Spec
  <1> QED BY <1>5, PTL DEF SnapshotKept, GenerationTells, LoadAllOrNothing, PrintsKeepSnapshot,
                           KeepsUnlessTold, KeepsWhileLoading, KeepsInPrints

================================================================================
