----------------------------- MODULE DebuggerProofs -----------------------------
(* That what a debugger's window shows is what its buttons act on, and that a     *)
(* halt ends only as it was asked to: for any number of evaluations, activations, *)
(* methods and resumes.                                                           *)
EXTENDS Debugger, SequenceTheorems, WellFoundedInduction, TLAPS

FrameSet == [act: Nat, sel: Selectors \union {"doIt", "block"}, method: Nat, home: Nat, stmt: BOOLEAN]
InFlight == Selectors \union {"none"}
Modes    == {"None", "Into", "Over", "Out"}
Reasons  == {"none", "step", "failure", "debug it", "accepted"}
Procs == [state: {"none", "live", "halted", "dead"}, frames: Seq(FrameSet),
          inflight: InFlight, reason: Reasons,
          mode: Modes, depth: Nat]

Types ==
  /\ procs \in [Pids -> Procs] /\ running \in Pids \union {0}
  /\ methods \in [Selectors -> Int]
  /\ held \subseteq Pids /\ doIt \in Pids \union {0} /\ acts \in Nat /\ installs \in Nat

(* A chain's activations, innermost first, began one after the other. *)
Chained(fs) ==
  /\ \A i \in 1 .. Len(fs): fs[i].act \in 1 .. acts
  /\ \A i, j \in 1 .. Len(fs): i < j => fs[j].act < fs[i].act

(* Of each process: it runs or is halted while it has a chain, and its doIt's
   entry is kept as long. *)
Process(p) ==
  /\ procs[p].state = "live" <=> running = p
  /\ procs[p].state \in {"live", "halted"} <=> procs[p].frames # <<>>
  /\ procs[p].state \in {"live", "halted"} => p \in held \union {doIt}
  /\ Chained(procs[p].frames)

(* A mark to stop at is of the step that was asked for. *)
Marked ==
  /\ \A p \in Pids: procs[p].state = "halted" => procs[p].mode = "None"
  /\ running # 0 /\ procs[running].mode # "None" => asked = "step"

(* An accept whose change is being recorded. *)
Recording ==
  accept # None =>
    /\ running = 0 /\ view = NoView
    /\ accept.pid \in Pids /\ accept.chain \in Seq(FrameSet) /\ accept.chain # <<>>
    /\ Chained(accept.chain)

(* An open window is of a halted process; its rows are those of its chain as it
   is, with a synthesized frame on top or without. *)
AnyRows(p) == {RowsAs(p, TRUE), RowsAs(p, FALSE)}
Window == view # NoView => view.pid \in Pids /\ Halted(view.pid) /\ view.rows \in AnyRows(view.pid)

LEMMA RowsAreAny == ASSUME NEW p PROVE Rows(p) \in AnyRows(p)
<1>1. Synthesizes(p) \in BOOLEAN
  BY DEF Synthesizes
<1> QED
  BY <1>1 DEF Rows, AnyRows

IInv == Types /\ (\A p \in Pids: Process(p)) /\ Marked /\ Recording /\ Window

-------------------------------------------------------------------------------
\* Frames and chains

LEMMA FrameIs ==
  ASSUME NEW a \in Nat, NEW sel \in Selectors \union {"doIt", "block"}, NEW m \in Nat, NEW h \in Nat
  PROVE  ChainFrame(a, sel, m, h, TRUE) \in FrameSet /\ ChainFrame(a, sel, m, h, TRUE).act = a
BY DEF ChainFrame, FrameSet

(* The frame at another place of its code. *)
Placed(f, stmt) == [f EXCEPT !.stmt = stmt]

LEMMA PlacedIs ==
  ASSUME NEW f \in FrameSet, NEW stmt \in BOOLEAN
  PROVE  /\ Placed(f, stmt) \in FrameSet /\ Placed(f, stmt).act = f.act /\ Placed(f, stmt).sel = f.sel
         /\ Placed(f, stmt).method = f.method
<1>1. Placed(f, stmt) \in FrameSet
  BY DEF Placed, FrameSet
<1>2. Placed(f, stmt).act = f.act /\ Placed(f, stmt).method = f.method
  BY DEF Placed, FrameSet
<1>3. Placed(f, stmt).sel = f.sel
  BY DEF Placed, FrameSet
<1> QED
  BY <1>1, <1>2, <1>3

LEMMA ChainCalls ==
  ASSUME NEW fs \in Seq(FrameSet), Chained(fs), NEW f \in FrameSet, f.act = acts + 1,
         acts \in Nat, acts' = acts + 1
  PROVE  LET gs == <<f>> \o fs IN gs \in Seq(FrameSet) /\ gs # <<>> /\ Chained(gs)'
<1> DEFINE gs == <<f>> \o fs
<1>1. <<f>> \in Seq(FrameSet) /\ Len(<<f>>) = 1 /\ <<f>>[1] = f
  OBVIOUS
<1>2. gs \in Seq(FrameSet) /\ Len(gs) = 1 + Len(fs) /\ Len(fs) \in Nat
  BY <1>1, ConcatProperties, LenProperties
<1>3. gs[1] = f /\ \A i \in 2 .. Len(gs): gs[i] = fs[i - 1] /\ i - 1 \in 1 .. Len(fs)
  BY <1>1, <1>2, ConcatProperties
<1>4. \A i \in 1 .. Len(fs): fs[i].act \in 1 .. acts
  BY DEF Chained
<1> HIDE DEF gs
<1>5. \A i \in 1 .. Len(gs): gs[i].act \in 1 .. acts + 1
  BY <1>2, <1>3, <1>4
<1>6. ASSUME NEW i \in 1 .. Len(gs), NEW j \in 1 .. Len(gs), i < j
      PROVE  gs[j].act < gs[i].act
  <2>1. j \in 2 .. Len(gs) /\ gs[j] = fs[j - 1] /\ j - 1 \in 1 .. Len(fs)
    BY <1>2, <1>3, <1>6
  <2>2. CASE i = 1
    <3>1. fs[j - 1].act \in 1 .. acts
      BY <1>4, <2>1
    <3> QED
      BY <1>3, <2>1, <2>2, <3>1
  <2>3. CASE i # 1
    <3>1. gs[i] = fs[i - 1] /\ i - 1 \in 1 .. Len(fs) /\ i - 1 < j - 1
      BY <1>2, <1>3, <1>6, <2>3
    <3> QED
      BY <2>1, <3>1 DEF Chained
  <2> QED
    BY <2>2, <2>3
<1>7. gs # <<>>
  BY <1>2
<1>8. Chained(gs)'
  BY <1>5, <1>6 DEF Chained
<1> QED
  BY <1>2, <1>7, <1>8 DEF gs

(* The frame at k in another place, on those beneath it. *)
LEMMA ChainFrom ==
  ASSUME NEW fs \in Seq(FrameSet), Chained(fs), NEW k \in 1 .. Len(fs), NEW f \in FrameSet,
         f.act = fs[k].act
  PROVE  LET gs == <<f>> \o SubSeq(fs, k + 1, Len(fs))
         IN gs \in Seq(FrameSet) /\ gs # <<>> /\ gs[1] = f /\ Chained(gs)
<1> DEFINE ts == SubSeq(fs, k + 1, Len(fs))
           gs == <<f>> \o ts
<1>1. <<f>> \in Seq(FrameSet) /\ Len(<<f>>) = 1 /\ <<f>>[1] = f
  OBVIOUS
<1>2. Len(fs) \in Nat /\ k \in Nat /\ k <= Len(fs)
  BY LenProperties
<1>3. ts \in Seq(FrameSet) /\ Len(ts) = Len(fs) - k /\ \A i \in 1 .. Len(ts): ts[i] = fs[k + i]
  BY <1>2, SubSeqProperties
<1> HIDE DEF ts
<1>4. gs \in Seq(FrameSet) /\ Len(gs) = 1 + Len(ts)
  BY <1>1, <1>3, ConcatProperties
<1>5. \A i \in 1 .. Len(gs): gs[i] = IF i <= 1 THEN <<f>>[i] ELSE ts[i - 1]
  BY <1>1, <1>3, ConcatProperties
<1>6. gs[1] = f /\ gs # <<>>
  BY <1>1, <1>2, <1>3, <1>4, <1>5
<1> HIDE DEF gs
<1>7. \A i \in 1 .. Len(gs): i + k - 1 \in 1 .. Len(fs) /\ gs[i].act = fs[i + k - 1].act
  <2> TAKE i \in 1 .. Len(gs)
  <2>1. i + k - 1 \in 1 .. Len(fs)
    BY <1>2, <1>3, <1>4
  <2>2. CASE i = 1
    BY <1>2, <1>6, <2>1, <2>2
  <2>3. CASE i # 1
    <3>1. gs[i] = ts[i - 1] /\ i - 1 \in 1 .. Len(ts)
      BY <1>3, <1>4, <1>5, <2>3
    <3>2. ts[i - 1] = fs[k + (i - 1)] /\ k + (i - 1) = i + k - 1
      BY <1>2, <1>3, <3>1
    <3> QED
      BY <2>1, <3>1, <3>2
  <2> QED
    BY <2>2, <2>3
<1>8. Chained(gs)
  <2>1. \A i \in 1 .. Len(gs): gs[i].act \in 1 .. acts
    BY <1>7 DEF Chained
  <2>2. ASSUME NEW i \in 1 .. Len(gs), NEW j \in 1 .. Len(gs), i < j
        PROVE  gs[j].act < gs[i].act
    <3>1. i + k - 1 < j + k - 1 /\ i + k - 1 \in 1 .. Len(fs) /\ j + k - 1 \in 1 .. Len(fs)
      BY <1>2, <1>7, <2>2
    <3>2. fs[j + k - 1].act < fs[i + k - 1].act
      BY <3>1 DEF Chained
    <3> QED
      BY <1>7, <3>2
  <2> QED
    BY <2>1, <2>2 DEF Chained
<1> QED
  BY <1>4, <1>6, <1>8 DEF gs, ts

LEMMA ChainTail ==
  ASSUME NEW fs \in Seq(FrameSet), Chained(fs), fs # <<>>
  PROVE  Tail(fs) \in Seq(FrameSet) /\ Chained(Tail(fs)) /\ Head(fs) = fs[1] /\ 1 \in 1 .. Len(fs)
         /\ Tail(fs) = SubSeq(fs, 2, Len(fs)) /\ Head(fs) \in FrameSet
<1>1. /\ Tail(fs) \in Seq(FrameSet) /\ Head(fs) \in FrameSet /\ Len(Tail(fs)) = Len(fs) - 1
      /\ \A i \in 1 .. Len(Tail(fs)): Tail(fs)[i] = fs[i + 1]
  BY HeadTailProperties
<1>2. Len(fs) \in Nat /\ Len(fs) # 0 /\ Head(fs) = fs[1]
  BY EmptySeq, LenProperties
<1>3. Tail(fs) = SubSeq(fs, 2, Len(fs))
  BY TailIsSubSeq
<1>4. Chained(Tail(fs))
  <2> DEFINE ts == Tail(fs)
  <2>1. Len(ts) = Len(fs) - 1 /\ \A i \in 1 .. Len(ts): ts[i] = fs[i + 1] /\ i + 1 \in 1 .. Len(fs)
    BY <1>1, <1>2
  <2> HIDE DEF ts
  <2>2. \A i \in 1 .. Len(ts): ts[i].act \in 1 .. acts
    BY <2>1 DEF Chained
  <2>3. ASSUME NEW i \in 1 .. Len(ts), NEW j \in 1 .. Len(ts), i < j
        PROVE  ts[j].act < ts[i].act
    <3>1. i + 1 < j + 1 /\ i + 1 \in 1 .. Len(fs) /\ j + 1 \in 1 .. Len(fs)
      BY <1>2, <2>1, <2>3
    <3> QED
      BY <2>1, <3>1 DEF Chained
  <2> QED
    BY <2>2, <2>3 DEF ts, Chained
<1> QED
  BY <1>1, <1>2, <1>3, <1>4

LEMMA ChainLater ==
  ASSUME NEW fs, Chained(fs), acts \in Nat, acts' \in Nat, acts <= acts'
  PROVE  Chained(fs)'
BY DEF Chained

-------------------------------------------------------------------------------
\* Processes

LEMMA NoProcIs ==
  NoProc \in Procs /\ NoProc.state = "none" /\ NoProc.frames = <<>> /\ NoProc.mode = "None"
<1>1. <<>> \in Seq(FrameSet) /\ 0 \in Nat
  BY EmptySeq
<1> QED
  BY <1>1 DEF NoProc, Procs, InFlight, Reasons, Modes

LEMMA ProcFields ==
  ASSUME NEW q \in Procs
  PROVE  /\ q.state \in {"none", "live", "halted", "dead"} /\ q.frames \in Seq(FrameSet)
         /\ q.inflight \in InFlight /\ q.mode \in Modes
         /\ q.depth \in Nat /\ Len(q.frames) \in Nat
<1>1. q.frames \in Seq(FrameSet)
  BY DEF Procs
<1> QED
  BY <1>1, LenProperties DEF Procs

LEMMA HaltedAtIs ==
  ASSUME NEW q \in Procs, NEW fs \in Seq(FrameSet), NEW sel \in InFlight, NEW why \in Reasons
  PROVE  LET h == HaltedAt(q, fs, sel, why)
         IN h \in Procs /\ h.state = "halted" /\ h.frames = fs /\ h.mode = "None" /\ h.reason = why
<1> DEFINE h == HaltedAt(q, fs, sel, why)
<1>1. h \in Procs
  BY DEF HaltedAt, ModeAfterHalt, Procs, Modes
<1>2. h.state = "halted" /\ h.mode = "None" /\ h.reason = why
  BY DEF HaltedAt, ModeAfterHalt, Procs, Modes
<1>3. h.frames = fs
  BY DEF HaltedAt, ModeAfterHalt, Procs, Modes
<1> QED
  BY <1>1, <1>2, <1>3

Dead == [NoProc EXCEPT !.state = "dead"]

LEMMA DeadIs == Dead \in Procs /\ Dead.state = "dead" /\ Dead.frames = <<>> /\ Dead.mode = "None"
<1>1. <<>> \in Seq(FrameSet) /\ 0 \in Nat
  BY EmptySeq
<1> QED
  BY <1>1 DEF Dead, NoProc, Procs, InFlight, Reasons, Modes

(* A process with another chain, and no send in flight. *)
MovesOn(q, fs) == [q EXCEPT !.frames = fs, !.inflight = "none"]

LEMMA MovesOnIs ==
  ASSUME NEW q \in Procs, NEW fs \in Seq(FrameSet)
  PROVE  LET g == MovesOn(q, fs)
         IN g \in Procs /\ g.frames = fs /\ g.state = q.state /\ g.mode = q.mode
<1> DEFINE g == MovesOn(q, fs)
<1>1. g \in Procs
  BY DEF MovesOn, Procs, InFlight
<1>2. g.state = q.state /\ g.mode = q.mode
  BY DEF MovesOn, Procs, InFlight
<1>3. g.frames = fs
  BY DEF MovesOn, Procs, InFlight
<1> QED
  BY <1>1, <1>2, <1>3

(* A process that lives again on a chain. *)
Wakes(q, fs, mode, depth) ==
  [q EXCEPT !.state = "live", !.inflight = "none", !.frames = fs, !.mode = mode, !.depth = depth]

LEMMA WakesIs ==
  ASSUME NEW q \in Procs, NEW fs \in Seq(FrameSet), NEW mode \in Modes,
         NEW depth \in Nat
  PROVE  LET w == Wakes(q, fs, mode, depth)
         IN w \in Procs /\ w.frames = fs /\ w.state = "live" /\ w.mode = mode
<1> DEFINE w == Wakes(q, fs, mode, depth)
<1>1. w \in Procs
  BY DEF Wakes, Procs, InFlight
<1>2. w.state = "live" /\ w.mode = mode
  BY DEF Wakes, Procs, InFlight
<1>3. w.frames = fs
  BY DEF Wakes, Procs, InFlight
<1> QED
  BY <1>1, <1>2, <1>3

-------------------------------------------------------------------------------
\* What a step of one process leaves alone

LEMMA Kinds ==
  ASSUME DebuggerAssumption, IInv
  PROVE  /\ Types /\ (\A p \in Pids: Process(p)) /\ Marked /\ Recording /\ Window
         /\ 0 \notin Pids /\ acts \in Nat
         /\ \A p \in Pids: procs[p] \in Procs
         /\ running # 0 => running \in Pids
BY DEF IInv, Types, DebuggerAssumption

(* One process changes to q; the others stay. *)
LEMMA OthersStay ==
  ASSUME DebuggerAssumption, IInv, NEW p \in Pids, NEW q \in Procs,
         procs' = [procs EXCEPT ![p] = q],
         running' \in Pids \union {0}, running \in {0, p}, running' \in {0, p},
         acts' \in Nat, acts <= acts',
         \A r \in Pids: r # p /\ procs[r].state \in {"live", "halted"} /\ r \in held \union {doIt}
            => r \in held' \union {doIt'}
  PROVE  /\ procs' \in [Pids -> Procs] /\ procs'[p] = q
         /\ \A r \in Pids: r # p => procs'[r] = procs[r] /\ Process(r)'
<1>1. procs' \in [Pids -> Procs] /\ procs'[p] = q /\ \A r \in Pids: r # p => procs'[r] = procs[r]
  BY DEF IInv, Types
<1>2. ASSUME NEW r \in Pids, r # p
      PROVE  Process(r)'
  <2>1. Process(r) /\ procs'[r] = procs[r] /\ acts \in Nat
    BY <1>1, <1>2 DEF IInv, Types
  <2>2. procs[r].state = "live" <=> running = r
    BY <2>1 DEF Process
  <2>3. running # r /\ running' # r
    BY <1>2 DEF DebuggerAssumption
  <2>4. Chained(procs[r].frames)'
    <3>1. PICK fs: fs = procs[r].frames
      OBVIOUS
    <3>2. Chained(fs)
      BY <2>1, <3>1 DEF Process
    <3>3. Chained(fs)'
      BY <2>1, <3>2, ChainLater
    <3> QED
      BY <2>1, <3>1, <3>3 DEF Chained
  <2> QED
    BY <1>2, <2>1, <2>2, <2>3, <2>4 DEF Process
<1> QED
  BY <1>1, <1>2

(* A window on another process, or none, shows the same rows, whatever a method is. *)
LEMMA WindowStays ==
  ASSUME IInv, view' = view, view # NoView => procs'[view.pid] = procs[view.pid]
  PROVE  Window'
<1>1. CASE view = NoView
  BY <1>1 DEF Window
<1>2. CASE view # NoView
  <2>1. view.pid \in Pids /\ Halted(view.pid) /\ view.rows \in AnyRows(view.pid)
    BY <1>2 DEF IInv, Window
  <2>2. PICK p: p = view.pid
    OBVIOUS
  <2>3. procs'[p] = procs[p] /\ view'.pid = p /\ view'.rows = view.rows
    BY <1>2, <2>2
  <2>4. Halted(p)' /\ AnyRows(p)' = AnyRows(p)
    BY <2>1, <2>2, <2>3 DEF Halted, AnyRows, RowsAs, DepthOf
  <2> QED
    BY <2>1, <2>2, <2>3, <2>4 DEF Window, Halted, AnyRows, RowsAs, DepthOf
<1> QED
  BY <1>1, <1>2

(* A step of process p, or of the host on it, that keeps the invariant. *)
LEMMA StepKeeps ==
  ASSUME DebuggerAssumption, IInv, NEW p \in Pids, NEW q \in Procs,
         procs' = [procs EXCEPT ![p] = q],
         running \in {0, p}, running' \in {0, p}, acts' \in Nat, acts <= acts', methods' = methods,
         installs' = installs,
         held' \subseteq Pids, doIt' \in Pids \union {0},
         \A r \in Pids: r # p /\ procs[r].state \in {"live", "halted"} /\ r \in held \union {doIt}
            => r \in held' \union {doIt'},
         q.state = "live" <=> running' = p,
         q.state \in {"live", "halted"} <=> q.frames # <<>>,
         q.state \in {"live", "halted"} => p \in held' \union {doIt'},
         Chained(q.frames)',
         q.state = "halted" => q.mode = "None",
         running' = p /\ q.mode # "None" => asked' = "step",
         accept' # None => accept' = accept /\ running' = 0 /\ view' = NoView,
         Window'
  PROVE  IInv'
<1>1. procs' \in [Pids -> Procs] /\ procs'[p] = q
  BY OthersStay
<1>2. \A r \in Pids: r # p => procs'[r] = procs[r] /\ Process(r)'
  BY OthersStay
<1>3. Types'
  BY <1>1 DEF IInv, Types
<1>4. \A r \in Pids: Process(r)'
  <2>1. Process(p)'
    BY <1>1 DEF Process, Chained
  <2> QED
    BY <1>2, <2>1
<1>5. Marked'
  <2>1. \A r \in Pids: (procs[r].state = "halted" => procs[r].mode = "None")'
    BY <1>1, <1>2 DEF IInv, Marked
  <2>2. (running # 0 /\ procs[running].mode # "None" => asked = "step")'
    BY <1>1
  <2> QED
    BY <2>1, <2>2 DEF Marked
<1>6. Recording'
  <2>1. CASE accept' = None
    BY <2>1 DEF Recording
  <2>2. CASE accept' # None
    <3>1. accept' = accept /\ accept # None /\ running' = 0 /\ view' = NoView
      BY <2>2
    <3>2. /\ accept.pid \in Pids /\ accept.chain \in Seq(FrameSet) /\ accept.chain # <<>>
          /\ Chained(accept.chain)
      BY <3>1 DEF IInv, Recording
    <3>3. PICK fs: fs = accept.chain
      OBVIOUS
    <3>4. Chained(fs)'
      BY <3>2, <3>3, ChainLater DEF IInv, Types
    <3> QED
      BY <3>1, <3>2, <3>3, <3>4 DEF Recording, Chained
  <2> QED
    BY <2>1, <2>2
<1> QED
  BY <1>3, <1>4, <1>5, <1>6 DEF IInv

(* What a step may not do to a halt. *)
StepsAsked == \A p \in Pids: running = p /\ procs'[p].state = "halted" /\ procs'[p].reason = "step"
                               => asked = "step"
SourcesGo  == held' # held => \A p \in held': Halted(p)
DeadStay   == \A p \in Pids: procs[p].state = "dead" => procs'[p].state = "dead"
Answered   == StepsAsked /\ SourcesGo /\ DeadStay

(* Of a step that changes p alone. *)
LEMMA AnsweredIs ==
  ASSUME DebuggerAssumption, IInv, NEW p \in Pids, NEW q, procs' = [procs EXCEPT ![p] = q],
         running \in {0, p}, procs[p].state # "dead" \/ q.state = "dead",
         running = p /\ q.state = "halted" /\ q.reason = "step" => asked = "step",
         SourcesGo
  PROVE  Answered
<1>1. procs'[p] = q /\ \A r \in Pids: r # p => procs'[r] = procs[r]
  BY DEF IInv, Types
<1>2. StepsAsked
  <2>1. 0 \notin Pids
    BY DEF DebuggerAssumption
  <2> QED
    BY <1>1, <2>1 DEF StepsAsked
<1>3. DeadStay
  BY <1>1 DEF DeadStay
<1> QED
  BY <1>2, <1>3 DEF Answered

-------------------------------------------------------------------------------
\* The running process

LEMMA RunningIs ==
  ASSUME DebuggerAssumption, IInv, running # 0
  PROVE  /\ running \in Pids /\ procs[running] \in Procs /\ procs[running].state = "live"
         /\ procs[running].frames \in Seq(FrameSet) /\ procs[running].frames # <<>>
         /\ Chained(procs[running].frames) /\ running \in held \union {doIt} /\ accept = None
         /\ view # NoView => view.pid # running
         /\ procs[running].mode # "None" => asked = "step"
<1>1. running \in Pids /\ procs[running] \in Procs
  BY Kinds
<1>2. Process(running) /\ Marked /\ Recording
  BY <1>1, Kinds
<1>3. procs[running].state = "live"
  BY <1>2 DEF Process
<1>4. procs[running].frames \in Seq(FrameSet)
  BY <1>1, ProcFields
<1>5. view # NoView => view.pid # running
  BY <1>3 DEF IInv, Window, Halted
<1> QED
  BY <1>1, <1>2, <1>3, <1>4, <1>5 DEF Process, Marked, Recording

LEMMA ExecutesKeeps ==
  ASSUME DebuggerAssumption, IInv, running # 0, NEW fs \in Seq(FrameSet), Chained(fs)', Executes(fs),
         acts' \in Nat, acts <= acts',
         UNCHANGED <<methods, accept, doIt, held, view, installs, asked>>
  PROVE  IInv' /\ Answered
<1>1. /\ running \in Pids /\ procs[running] \in Procs /\ procs[running].state = "live"
      /\ running \in held \union {doIt} /\ accept = None
      /\ view # NoView => view.pid # running
      /\ procs[running].mode # "None" => asked = "step"
  BY RunningIs
<1>2. PICK p \in Pids: p = running
  BY <1>1
<1>3. PICK q \in Procs: q = procs[p]
  BY <1>1, <1>2
<1>4. q.state = "live" /\ (q.mode # "None" => asked = "step") /\ p # 0
  BY <1>1, <1>2, <1>3
<1>5. held' \subseteq Pids /\ doIt' \in Pids \union {0} /\ SourcesGo
  BY DEF IInv, Types, SourcesGo
<1>6. ASSUME NEW r \in Procs, procs' = [procs EXCEPT ![p] = r], running' \in {0, p},
             r.state = "live" <=> running' = p, r.state \in {"live", "halted"} <=> r.frames # <<>>,
             r.frames = fs, r.state = "halted" => r.mode = "None",
             running' = p => r.mode = q.mode,
             r.state = "halted" /\ r.reason = "step" => asked = "step"
      PROVE  IInv' /\ Answered
  <2>1. Window'
    <3>1. view # NoView => procs'[view.pid] = procs[view.pid]
      BY <1>1, <1>2, <1>6 DEF IInv, Types, Window
    <3> QED
      BY <3>1, WindowStays
  <2>2. Chained(r.frames)'
    BY <1>6 DEF Chained
  <2>3. IInv'
    BY <1>1, <1>2, <1>4, <1>5, <1>6, <2>1, <2>2, StepKeeps
  <2>4. Answered
    BY <1>2, <1>3, <1>4, <1>5, <1>6, AnsweredIs
  <2> QED
    BY <2>3, <2>4
<1>7. CASE fs = <<>>
  <2>1. procs' = [procs EXCEPT ![p] = Dead] /\ running' = 0
    BY <1>2, <1>7 DEF Executes, Dead
  <2>2. Dead \in Procs /\ Dead.state = "dead" /\ Dead.frames = <<>>
    BY DeadIs
  <2> QED
    BY <1>4, <1>6, <1>7, <2>1, <2>2
<1>8. CASE fs # <<>> /\ Reached(p, fs)
  <2>1. PICK h: h = HaltedAt(q, fs, "none", "step")
    OBVIOUS
  <2>2. procs' = [procs EXCEPT ![p] = h] /\ running' = 0
    BY <1>2, <1>3, <1>8, <2>1 DEF Executes
  <2>3. h \in Procs /\ h.state = "halted" /\ h.frames = fs /\ h.mode = "None"
    <3>1. PICK sel \in InFlight: sel = "none"
      BY DEF InFlight
    <3>2. PICK why \in Reasons: why = "step"
      BY DEF Reasons
    <3>3. h = HaltedAt(q, fs, sel, why)
      BY <2>1, <3>1, <3>2
    <3>4. /\ HaltedAt(q, fs, sel, why) \in Procs /\ HaltedAt(q, fs, sel, why).state = "halted"
          /\ HaltedAt(q, fs, sel, why).frames = fs /\ HaltedAt(q, fs, sel, why).mode = "None"
      BY HaltedAtIs
    <3> QED
      BY <3>3, <3>4
  <2>4. asked = "step"
    <3>1. q.mode # "None"
      BY <1>3, <1>8 DEF Reached
    <3> QED
      BY <1>4, <3>1
  <2> QED
    BY <1>4, <1>6, <1>8, <2>2, <2>3, <2>4
<1>9. CASE fs # <<>> /\ ~Reached(p, fs)
  <2>1. PICK g: g = MovesOn(q, fs)
    OBVIOUS
  <2>2. procs' = [procs EXCEPT ![p] = g] /\ running' = p
    <3>1. procs' = [procs EXCEPT ![p].frames = fs, ![p].inflight = "none"] /\ running' = p
      BY <1>2, <1>9 DEF Executes
    <3> QED
      BY <1>3, <2>1, <3>1 DEF MovesOn, IInv, Types
  <2>3. g \in Procs /\ g.frames = fs /\ g.state = q.state /\ g.mode = q.mode
    BY <2>1, MovesOnIs
  <2> QED
    BY <1>4, <1>6, <1>9, <2>2, <2>3
<1> QED
  BY <1>7, <1>8, <1>9

LEMMA CallsKeeps == DebuggerAssumption /\ IInv /\ Calls => IInv' /\ Answered
<1> SUFFICES ASSUME DebuggerAssumption, IInv, Calls PROVE IInv' /\ Answered
  OBVIOUS
<1>1. /\ running # 0 /\ acts \in Nat /\ acts' = acts + 1
      /\ UNCHANGED <<methods, accept, doIt, held, view, installs, asked>>
  BY Kinds DEF Calls
<1>2. PICK fs \in Seq(FrameSet): fs = Chain /\ Chained(fs)
  BY <1>1, RunningIs DEF Chain
<1>3. PICK f \in FrameSet: f.act = acts + 1 /\ Executes(<<f>> \o fs)
  <2>1. CASE \E sel \in Selectors: methods[sel] > 0
                                   /\ Executes(<<ChainFrame(acts + 1, sel, methods[sel], 0, TRUE)>> \o Chain)
    <3>1. PICK sel \in Selectors: methods[sel] > 0
                                  /\ Executes(<<ChainFrame(acts + 1, sel, methods[sel], 0, TRUE)>> \o Chain)
      BY <2>1
    <3>2. methods[sel] \in Nat
      BY <3>1 DEF IInv, Types
    <3>3. PICK f: f = ChainFrame(acts + 1, sel, methods[sel], 0, TRUE)
      OBVIOUS
    <3>4. acts + 1 \in Nat /\ 0 \in Nat /\ sel \in Selectors \union {"doIt", "block"}
      BY <1>1
    <3>5. f \in FrameSet /\ f.act = acts + 1
      BY <3>2, <3>3, <3>4, FrameIs
    <3>6. Executes(<<f>> \o fs)
      BY <1>2, <3>1, <3>3
    <3> QED
      BY <3>5, <3>6
  <2>2. CASE \E home \in 1 .. acts: Executes(<<ChainFrame(acts + 1, "block", 0, home, TRUE)>> \o Chain)
    <3>1. PICK home \in 1 .. acts: Executes(<<ChainFrame(acts + 1, "block", 0, home, TRUE)>> \o Chain)
      BY <2>2
    <3>2. PICK f: f = ChainFrame(acts + 1, "block", 0, home, TRUE)
      OBVIOUS
    <3>3. acts + 1 \in Nat /\ home \in Nat /\ 0 \in Nat /\ "block" \in Selectors \union {"doIt", "block"}
      BY <1>1
    <3>4. f \in FrameSet /\ f.act = acts + 1
      BY <3>2, <3>3, FrameIs
    <3>5. Executes(<<f>> \o fs)
      BY <1>2, <3>1, <3>2
    <3> QED
      BY <3>4, <3>5
  <2> QED
    BY <2>1, <2>2 DEF Calls
<1>4. PICK gs: gs = <<f>> \o fs
  OBVIOUS
<1>5. gs \in Seq(FrameSet) /\ Chained(gs)'
  BY <1>1, <1>2, <1>3, <1>4, ChainCalls
<1>6. Executes(gs) /\ acts' \in Nat /\ acts <= acts'
  BY <1>1, <1>3, <1>4
<1> QED
  BY <1>1, <1>5, <1>6, ExecutesKeeps

LEMMA GoesKeeps == DebuggerAssumption /\ IInv /\ GoesOn => IInv' /\ Answered
<1> SUFFICES ASSUME DebuggerAssumption, IInv, GoesOn PROVE IInv' /\ Answered
  OBVIOUS
<1>1. /\ running # 0 /\ acts \in Nat /\ acts' = acts
      /\ UNCHANGED <<methods, accept, doIt, held, view, installs, asked>>
  BY Kinds DEF GoesOn
<1>2. PICK fs \in Seq(FrameSet): fs = Chain /\ Chained(fs) /\ fs # <<>>
  BY <1>1, RunningIs DEF Chain
<1>3. /\ Tail(fs) \in Seq(FrameSet) /\ Chained(Tail(fs)) /\ Head(fs) = fs[1] /\ 1 \in 1 .. Len(fs)
      /\ Tail(fs) = SubSeq(fs, 2, Len(fs)) /\ Head(fs) \in FrameSet
  BY <1>2, ChainTail
<1>4. PICK gs \in Seq(FrameSet): Chained(gs) /\ Executes(gs)
  <2>1. CASE \E stmt \in BOOLEAN: Executes(<<Placed(Head(fs), stmt)>> \o Tail(fs))
    <3>1. PICK stmt \in BOOLEAN: Executes(<<Placed(Head(fs), stmt)>> \o Tail(fs))
      BY <2>1
    <3>2. PICK f: f = Placed(Head(fs), stmt)
      OBVIOUS
    <3>3. f \in FrameSet /\ f.act = fs[1].act
      BY <1>3, <3>2, PlacedIs
    <3>4. PICK gs: gs = <<f>> \o SubSeq(fs, 1 + 1, Len(fs))
      OBVIOUS
    <3>5. gs \in Seq(FrameSet) /\ Chained(gs)
      BY <1>2, <1>3, <3>3, <3>4, ChainFrom
    <3>6. gs = <<Placed(Head(fs), stmt)>> \o Tail(fs)
      BY <1>3, <3>2, <3>4
    <3> QED
      BY <3>1, <3>5, <3>6
  <2>2. CASE Executes(Tail(fs))
    BY <1>3, <2>2
  <2> QED
    BY <1>2, <2>1, <2>2 DEF GoesOn, Placed
<1>5. Chained(gs)'
  BY <1>1, <1>4, ChainLater
<1> QED
  BY <1>1, <1>4, <1>5, ExecutesKeeps

LEMMA FailsKeeps == DebuggerAssumption /\ IInv /\ Fails => IInv' /\ Answered
<1> SUFFICES ASSUME DebuggerAssumption, IInv, Fails PROVE IInv' /\ Answered
  OBVIOUS
<1>1. /\ running # 0 /\ running' = 0 /\ acts' = acts /\ acts \in Nat
      /\ UNCHANGED <<methods, accept, doIt, held, view, installs, asked>>
  BY Kinds DEF Fails
<1>2. PICK p \in Pids: p = running
  BY <1>1, RunningIs
<1>3. PICK q \in Procs: q = procs[p]
  BY <1>1, <1>2, RunningIs
<1>4. /\ q.state = "live" /\ p \in held \union {doIt} /\ accept = None /\ p # 0
      /\ view # NoView => view.pid # p
  BY <1>1, <1>2, <1>3, RunningIs
<1>5. PICK fs \in Seq(FrameSet): fs = Chain /\ Chained(fs) /\ fs # <<>>
  BY <1>1, RunningIs DEF Chain
<1>6. PICK sel \in InFlight, why \in Reasons:
        procs' = [procs EXCEPT ![p] = HaltedAt(q, fs, sel, why)] /\ why = "failure"
  <2>1. PICK sel \in Selectors: procs' = [procs EXCEPT ![p] = HaltedAt(procs[p], fs, sel, "failure")]
    BY <1>2, <1>5 DEF Fails
  <2>2. sel \in InFlight
    BY DEF InFlight
  <2>3. PICK why \in Reasons: why = "failure"
    BY DEF Reasons
  <2> QED
    BY <1>3, <2>1, <2>2, <2>3
<1>7. PICK h \in Procs: h = HaltedAt(q, fs, sel, why)
  BY HaltedAtIs
<1>8. h.state = "halted" /\ h.frames = fs /\ h.mode = "None" /\ h.reason = "failure"
  BY <1>6, <1>7, HaltedAtIs
<1>9. procs' = [procs EXCEPT ![p] = h]
  BY <1>6, <1>7
<1>10. held' \subseteq Pids /\ doIt' \in Pids \union {0} /\ SourcesGo
  BY <1>1 DEF IInv, Types, SourcesGo
<1>11. Chained(h.frames)'
  <2>1. Chained(fs)'
    BY <1>1, <1>5, ChainLater
  <2> QED
    BY <1>8, <2>1 DEF Chained
<1>12. Window'
  <2>1. view # NoView => procs'[view.pid] = procs[view.pid]
    BY <1>4, <1>9 DEF IInv, Types, Window
  <2> QED
    BY <1>1, <2>1, WindowStays
<1>13. IInv'
  <2>1. /\ running \in {0, p} /\ running' \in {0, p} /\ acts' \in Nat /\ acts <= acts'
        /\ methods' = methods /\ installs' = installs
    BY <1>1, <1>2
  <2>2. \A r \in Pids: r # p /\ procs[r].state \in {"live", "halted"} /\ r \in held \union {doIt}
           => r \in held' \union {doIt'}
    BY <1>1
  <2>3. h.state = "live" <=> running' = p
    BY <1>1, <1>4, <1>8
  <2>4. h.state \in {"live", "halted"} <=> h.frames # <<>>
    BY <1>5, <1>8
  <2>5. p \in held' \union {doIt'} /\ accept' = None /\ running' # p
    BY <1>1, <1>4
  <2> QED
    BY <1>8, <1>9, <1>10, <1>11, <1>12, <2>1, <2>2, <2>3, <2>4, <2>5, StepKeeps
<1>14. Answered
  BY <1>2, <1>3, <1>4, <1>8, <1>9, <1>10, AnsweredIs
<1> QED
  BY <1>13, <1>14

-------------------------------------------------------------------------------
\* The host's entries

LEMMA HaltedIs ==
  ASSUME DebuggerAssumption, IInv, NEW p \in Pids, Halted(p)
  PROVE  /\ procs[p] \in Procs /\ procs[p].state = "halted" /\ procs[p].mode = "None"
         /\ procs[p].frames \in Seq(FrameSet) /\ procs[p].frames # <<>> /\ Chained(procs[p].frames)
         /\ p \in held \union {doIt} /\ p # 0
<1>1. procs[p] \in Procs /\ procs[p].state = "halted" /\ p # 0
  BY Kinds DEF Halted
<1>2. Process(p) /\ Marked
  BY Kinds
<1>3. procs[p].frames \in Seq(FrameSet)
  BY <1>1, ProcFields
<1> QED
  BY <1>1, <1>2, <1>3 DEF Process, Marked

(* A halted process lives again on a chain of its own. *)
LEMMA WakesKeeps ==
  ASSUME DebuggerAssumption, IInv, AtRest, NEW p \in Pids, Halted(p), NEW fs \in Seq(FrameSet),
         fs # <<>>, Chained(fs), NEW mode \in Modes, NEW depth \in Nat,
         procs' = [procs EXCEPT ![p] = Wakes(procs[p], fs, mode, depth)], running' = p,
         mode # "None" => asked' = "step", Window',
         UNCHANGED <<methods, accept, doIt, held, acts, installs>>
  PROVE  IInv' /\ Answered
<1>1. PICK q \in Procs: q = procs[p]
  BY HaltedIs
<1>2. q.state = "halted" /\ p \in held \union {doIt} /\ p # 0
  BY <1>1, HaltedIs
<1>3. PICK w \in Procs: w = Wakes(q, fs, mode, depth)
  BY WakesIs
<1>4. w.frames = fs /\ w.state = "live" /\ w.mode = mode
  BY <1>3, WakesIs
<1>5. procs' = [procs EXCEPT ![p] = w]
  BY <1>1, <1>3
<1>6. /\ running = 0 /\ accept' = None /\ acts \in Nat /\ acts' = acts
      /\ held' \subseteq Pids /\ doIt' \in Pids \union {0} /\ SourcesGo
  BY DEF AtRest, IInv, Types, SourcesGo
<1>7. Chained(w.frames)'
  <2>1. Chained(fs)'
    BY <1>6, ChainLater
  <2> QED
    BY <1>4, <2>1 DEF Chained
<1>8. IInv'
  <2>1. /\ running \in {0, p} /\ running' \in {0, p} /\ acts' \in Nat /\ acts <= acts'
        /\ methods' = methods /\ installs' = installs
    BY <1>6
  <2>2. \A r \in Pids: r # p /\ procs[r].state \in {"live", "halted"} /\ r \in held \union {doIt}
           => r \in held' \union {doIt'}
    OBVIOUS
  <2>3. /\ w.state = "live" <=> running' = p
        /\ w.state \in {"live", "halted"} <=> w.frames # <<>>
        /\ p \in held' \union {doIt'} /\ accept' = None /\ w.state # "halted"
        /\ (running' = p /\ w.mode # "None" => asked' = "step")
    BY <1>2, <1>4, <1>6
  <2> QED
    BY <1>5, <1>6, <1>7, <2>1, <2>2, <2>3, StepKeeps
<1>9. Answered
  BY <1>1, <1>2, <1>4, <1>5, <1>6, AnsweredIs
<1> QED
  BY <1>8, <1>9

LEMMA ResumesKeeps == DebuggerAssumption /\ IInv /\ Resumes => IInv' /\ Answered
<1> SUFFICES ASSUME DebuggerAssumption, IInv, Resumes PROVE IInv' /\ Answered
  OBVIOUS
<1>1. PICK p \in Pids, mode \in Modes:
        /\ Halted(p) /\ running' = p
        /\ procs' = [procs EXCEPT ![p].state = "live", ![p].inflight = "none", ![p].mode = mode,
                                  ![p].depth = IF mode = "None" THEN 0 ELSE DepthOf(p)]
        /\ asked' = IF mode = "None" THEN "proceed" ELSE "step"
        /\ view' = IF view.pid = p THEN NoView ELSE view
  BY DEF Resumes, Modes
<1>2. AtRest /\ UNCHANGED <<methods, accept, doIt, held, acts, installs>>
  BY DEF Resumes
<1>3. PICK fs \in Seq(FrameSet): fs = procs[p].frames /\ fs # <<>> /\ Chained(fs)
  BY <1>1, HaltedIs
<1>4. PICK depth \in Nat: depth = IF mode = "None" THEN 0 ELSE DepthOf(p)
  BY <1>3, LenProperties DEF DepthOf
<1>5. procs' = [procs EXCEPT ![p] = Wakes(procs[p], fs, mode, depth)]
  <2>1. procs[p] \in Procs /\ procs \in [Pids -> Procs]
    BY <1>1, HaltedIs DEF IInv, Types
  <2>2. procs' = [procs EXCEPT ![p] = [procs[p] EXCEPT !.state = "live", !.inflight = "none",
                                                     !.mode = mode, !.depth = depth]]
    BY <1>1, <1>4, <2>1
  <2>3. [procs[p] EXCEPT !.state = "live", !.inflight = "none", !.mode = mode, !.depth = depth]
          = Wakes(procs[p], fs, mode, depth)
    BY <1>3, <2>1 DEF Wakes, Procs
  <2> QED
    BY <2>2, <2>3
<1>6. Window'
  <2>2. CASE view.pid = p
    BY <1>1, <2>2 DEF Window
  <2>3. CASE view.pid # p
    <3>1. view' = view /\ (view # NoView => procs'[view.pid] = procs[view.pid])
      BY <1>1, <1>5, <2>3 DEF IInv, Types, Window
    <3> QED
      BY <1>2, <3>1, WindowStays
  <2> QED
    BY <2>2, <2>3
<1>7. (mode # "None" => asked' = "step") /\ Halted(p) /\ running' = p
  BY <1>1
<1> QED
  BY <1>2, <1>3, <1>5, <1>6, <1>7, WakesKeeps

LEMMA TerminatesKeeps == DebuggerAssumption /\ IInv /\ Terminates => IInv' /\ Answered
<1> SUFFICES ASSUME DebuggerAssumption, IInv, Terminates PROVE IInv' /\ Answered
  OBVIOUS
<1>1. PICK p \in Pids: /\ Halted(p) /\ procs' = [procs EXCEPT ![p] = Dead]
                       /\ view' = IF view.pid = p THEN NoView ELSE view
  BY DEF Terminates, Dead
<1>2. running = 0 /\ UNCHANGED <<running, methods, accept, doIt, held, acts, installs, asked>>
  BY DEF Terminates
<1>3. Dead \in Procs /\ Dead.state = "dead" /\ Dead.frames = <<>>
  BY DeadIs
<1>4. procs[p].state = "halted" /\ p # 0
  BY <1>1, HaltedIs
<1>5. /\ acts \in Nat /\ held' \subseteq Pids /\ doIt' \in Pids \union {0} /\ SourcesGo
      /\ accept' # None => accept' = accept /\ running' = 0 /\ view' = NoView
  <2>1. accept # None => view = NoView
    BY DEF IInv, Recording
  <2> QED
    BY <1>1, <1>2, <2>1 DEF IInv, Types, SourcesGo
<1>6. Chained(Dead.frames)'
  BY <1>3, EmptySeq DEF Chained
<1>7. Window'
  <2>2. CASE view.pid = p
    BY <1>1, <2>2 DEF Window
  <2>3. CASE view.pid # p
    <3>1. view' = view /\ (view # NoView => procs'[view.pid] = procs[view.pid])
      BY <1>1, <2>3 DEF IInv, Types, Window
    <3> QED
      BY <1>2, <3>1, WindowStays
  <2> QED
    BY <2>2, <2>3
<1>8. IInv'
  <2>1. /\ running \in {0, p} /\ running' \in {0, p} /\ acts' \in Nat /\ acts <= acts'
        /\ methods' = methods /\ installs' = installs
    BY <1>2, <1>5
  <2>2. \A r \in Pids: r # p /\ procs[r].state \in {"live", "halted"} /\ r \in held \union {doIt}
           => r \in held' \union {doIt'}
    BY <1>2
  <2>3. /\ Dead.state = "live" <=> running' = p
        /\ Dead.state \in {"live", "halted"} <=> Dead.frames # <<>>
        /\ Dead.state \notin {"live", "halted"} /\ Dead.state # "halted" /\ running' # p
    BY <1>2, <1>3, <1>4
  <2> QED
    BY <1>1, <1>3, <1>5, <1>6, <1>7, <2>1, <2>2, <2>3, StepKeeps
<1>9. Answered
  BY <1>1, <1>2, <1>3, <1>4, <1>5, AnsweredIs
<1> QED
  BY <1>8, <1>9

(* A row read now is the frame it names. *)
LEMMA RowIs ==
  ASSUME DebuggerAssumption, IInv, NEW p \in Pids, NEW i \in 0 .. Len(Rows(p)) - 1,
         FrameAt(p, i) # 0
  PROVE  /\ FrameAt(p, i) \in 1 .. DepthOf(p)
         /\ Rows(p)[i + 1] = procs[p].frames[FrameAt(p, i)].act
<1> DEFINE tail == [k \in 1 .. DepthOf(p) |-> procs[p].frames[k].act]
<1>1. DepthOf(p) \in Nat
  BY Kinds, ProcFields DEF DepthOf
<1>2. \A k \in 1 .. DepthOf(p): procs[p].frames[k].act \in Nat
  <2>1. PICK fs \in Seq(FrameSet): fs = procs[p].frames
    BY Kinds, ProcFields
  <2>2. \A k \in 1 .. Len(fs): fs[k] \in FrameSet
    BY ElementOfSeq
  <2>3. \A k \in 1 .. Len(fs): fs[k].act \in Nat
    BY <2>2 DEF FrameSet
  <2> QED
    BY <2>1, <2>3 DEF DepthOf
<1>3. tail \in Seq(Nat) /\ Len(tail) = DepthOf(p) /\ \A k \in 1 .. DepthOf(p): tail[k] = procs[p].frames[k].act
  BY <1>1, <1>2, IsASeq
<1>4. CASE Synthesizes(p)
  <2>1. FrameAt(p, i) = i /\ i \in 1 .. DepthOf(p)
    BY <1>1, <1>4 DEF FrameAt
  <2>2. Rows(p) = <<0>> \o tail
    BY <1>4 DEF Rows, RowsAs
  <2> HIDE DEF tail
  <2>3. PICK z \in Seq(Nat): z = <<0>> /\ Len(z) = 1
    <3>1. PICK n \in Nat: n = 0
      OBVIOUS
    <3>2. <<n>> \in Seq(Nat) /\ Len(<<n>>) = 1
      OBVIOUS
    <3> QED
      BY <3>1, <3>2
  <2>4. Rows(p)[i + 1] = tail[i]
    <3>1. \A n \in 1 .. Len(z) + Len(tail):
             (z \o tail)[n] = IF n <= Len(z) THEN z[n] ELSE tail[n - Len(z)]
      BY <1>3, ConcatProperties
    <3>2. i + 1 \in 1 .. Len(z) + Len(tail) /\ ~(i + 1 <= Len(z)) /\ i + 1 - Len(z) = i
      BY <1>1, <1>3, <2>1, <2>3
    <3> QED
      BY <2>2, <2>3, <3>1, <3>2
  <2> QED
    BY <1>3, <2>1, <2>4
<1>5. CASE ~Synthesizes(p)
  <2>1. FrameAt(p, i) = i + 1 /\ i + 1 \in 1 .. DepthOf(p)
    BY <1>1, <1>5 DEF FrameAt
  <2>2. Rows(p) = tail
    <3>1. Rows(p) = <<>> \o tail
      BY <1>5 DEF Rows, RowsAs
    <3> HIDE DEF tail
    <3> QED
      BY <1>3, <3>1, ConcatEmptySeq
  <2> QED
    BY <1>3, <2>1, <2>2
<1> QED
  BY <1>4, <1>5

LEMMA StartedOverIs ==
  ASSUME NEW fs \in Seq(FrameSet), Chained(fs), NEW k \in 1 .. Len(fs)
  PROVE  LET gs == StartedOver(fs, k)
         IN /\ gs \in Seq(FrameSet) /\ gs # <<>> /\ Chained(gs)
            /\ gs[1].act = fs[k].act /\ gs[1].sel = fs[k].sel
<1>1. fs[k] \in FrameSet
  BY ElementOfSeq
<1>2. PICK f: f = Placed(fs[k], TRUE)
  OBVIOUS
<1>3. f \in FrameSet /\ f.act = fs[k].act /\ f.sel = fs[k].sel
  BY <1>1, <1>2, PlacedIs
<1>4. PICK gs: gs = <<f>> \o SubSeq(fs, k + 1, Len(fs))
  OBVIOUS
<1>5. gs \in Seq(FrameSet) /\ gs # <<>> /\ gs[1] = f /\ Chained(gs)
  BY <1>3, <1>4, ChainFrom
<1>6. StartedOver(fs, k) = gs
  BY <1>2, <1>4 DEF StartedOver, Placed
<1> QED
  BY <1>3, <1>5, <1>6

LEMMA RestartsKeeps == DebuggerAssumption /\ IInv /\ RestartsRow => IInv' /\ Answered
<1> SUFFICES ASSUME DebuggerAssumption, IInv, RestartsRow PROVE IInv' /\ Answered
  OBVIOUS
<1>1. AtRest /\ WindowShows /\ view' = NoView /\ UNCHANGED <<methods, accept, doIt, held, acts, installs>>
  BY DEF RestartsRow
<1>2. PICK p \in Pids: p = view.pid /\ Halted(p)
  <2>1. view # NoView
    BY <1>1 DEF WindowShows, NoView
  <2> QED
    BY <2>1 DEF IInv, Window
<1>3. PICK i \in 0 .. Len(view.rows) - 1:
        /\ FrameAt(p, i) # 0
        /\ procs' = [procs EXCEPT ![p].state = "live", ![p].inflight = "none",
                                  ![p].frames = StartedOver(@, FrameAt(p, i))]
        /\ running' = p
  BY <1>2 DEF RestartsRow
<1>4. PICK fs \in Seq(FrameSet): fs = procs[p].frames /\ Chained(fs)
  BY <1>2, HaltedIs
<1>5. PICK k: k = FrameAt(p, i) /\ k \in 1 .. Len(fs)
  BY <1>3, <1>4 DEF FrameAt, DepthOf
<1>6. PICK gs \in Seq(FrameSet): gs = StartedOver(fs, k) /\ gs # <<>> /\ Chained(gs)
  BY <1>4, <1>5, StartedOverIs
<1>7. procs[p] \in Procs /\ procs[p].mode = "None" /\ procs \in [Pids -> Procs]
  BY <1>2, HaltedIs DEF IInv, Types
<1>8. PICK mode \in Modes, depth \in Nat: mode = procs[p].mode /\ depth = procs[p].depth
  BY <1>7, ProcFields
<1>9. procs' = [procs EXCEPT ![p] = Wakes(procs[p], gs, mode, depth)]
  <2>1. procs' = [procs EXCEPT ![p] = [procs[p] EXCEPT !.state = "live", !.inflight = "none",
                                                     !.frames = gs]]
    BY <1>3, <1>4, <1>5, <1>6, <1>7
  <2>2. [procs[p] EXCEPT !.state = "live", !.inflight = "none", !.frames = gs]
          = Wakes(procs[p], gs, mode, depth)
    BY <1>7, <1>8 DEF Wakes, Procs
  <2> QED
    BY <2>1, <2>2
<1>10. Window'
  BY <1>1 DEF Window
<1>11. mode = "None" /\ running' = p
  BY <1>3, <1>7, <1>8
<1> QED
  BY <1>1, <1>2, <1>6, <1>9, <1>10, <1>11, WakesKeeps

(* The host's steps that leave the processes as they are. *)
LEMMA ProcsStay ==
  ASSUME DebuggerAssumption, IInv, UNCHANGED <<procs, running, doIt, held, acts, asked>>,
         methods' \in [Selectors -> Int], installs' \in Nat, Recording', Window'
  PROVE  IInv' /\ Answered
<1>1. Types'
  BY DEF IInv, Types
<1>2. \A p \in Pids: Process(p)'
  BY DEF IInv, Process, Chained
<1>3. Marked'
  BY DEF IInv, Marked
<1>4. Answered
  <2>1. SourcesGo /\ DeadStay
    BY DEF SourcesGo, DeadStay
  <2>2. StepsAsked
    <3>1. \A p \in Pids: running = p => procs[p].state = "live"
      BY DEF IInv, Process
    <3> QED
      BY <3>1 DEF StepsAsked
  <2> QED
    BY <2>1, <2>2 DEF Answered
<1> QED
  BY <1>1, <1>2, <1>3, <1>4 DEF IInv

LEMMA OpensKeeps == DebuggerAssumption /\ IInv /\ Opens => IInv' /\ Answered
<1> SUFFICES ASSUME DebuggerAssumption, IInv, Opens PROVE IInv' /\ Answered
  OBVIOUS
<1>1. AtRest /\ UNCHANGED <<procs, running, methods, accept, doIt, held, acts, installs, asked>>
  BY DEF Opens
<1>2. PICK p \in Pids: Halted(p) /\ view' = [pid |-> p, rows |-> Rows(p)]
  BY DEF Opens
<1>3. methods' \in [Selectors -> Int] /\ installs' \in Nat
  BY <1>1 DEF IInv, Types
<1>4. Recording'
  BY <1>1 DEF Recording, AtRest
<1>5. Window'
  <2>1. view'.pid = p /\ view'.rows = Rows(p)
    BY <1>2
  <2>2. Halted(p)' /\ AnyRows(p)' = AnyRows(p)
    BY <1>1, <1>2 DEF Halted, AnyRows, RowsAs, DepthOf
  <2>3. Rows(p) \in AnyRows(p)
    BY RowsAreAny
  <2> QED
    BY <2>1, <2>2, <2>3 DEF Window, Halted, AnyRows, RowsAs, DepthOf
<1> QED
  BY <1>1, <1>3, <1>4, <1>5, ProcsStay

LEMMA EditsKeeps == DebuggerAssumption /\ IInv /\ Edits => IInv' /\ Answered
<1> SUFFICES ASSUME DebuggerAssumption, IInv, Edits PROVE IInv' /\ Answered
  OBVIOUS
<1>1. AtRest /\ UNCHANGED <<procs, running, accept, doIt, held, view, acts, asked>>
  BY DEF Edits
<1>2. methods' \in [Selectors -> Int] /\ installs' \in Nat
  BY DEF Edits, IInv, Types, Missing
<1>3. Recording'
  BY <1>1 DEF Recording, AtRest
<1>4. Window'
  BY <1>1, WindowStays
<1> QED
  BY <1>1, <1>2, <1>3, <1>4, ProcsStay

-------------------------------------------------------------------------------
\* An evaluation begins

LEMMA EvaluatesKeeps == DebuggerAssumption /\ IInv /\ Evaluates => IInv' /\ Answered
<1> SUFFICES ASSUME DebuggerAssumption, IInv, Evaluates PROVE IInv' /\ Answered
  OBVIOUS
<1> DEFINE doItFrame == ChainFrame(acts + 1, "doIt", 0, 0, TRUE)
           start == [NoProc EXCEPT !.state = "live", !.frames = <<doItFrame>>]
<1>1. PICK p \in Pids, debugIt \in BOOLEAN:
        /\ procs[p].state = "none"
        /\ IF debugIt THEN procs' = [procs EXCEPT ![p] = HaltedAt(start, start.frames, "none", "debug it")]
                           /\ UNCHANGED running
                      ELSE procs' = [procs EXCEPT ![p] = start] /\ running' = p
        /\ held' = Retired /\ doIt' = p
  BY DEF Evaluates
<1>2. /\ AtRest /\ running = 0 /\ accept = None /\ acts \in Nat /\ acts' = acts + 1 /\ asked' = "proceed" /\ p # 0
      /\ UNCHANGED <<methods, accept, view, installs>>
  BY Kinds DEF Evaluates, AtRest
<1>3. PICK fs \in Seq(FrameSet): fs = <<doItFrame>> /\ fs # <<>> /\ Chained(fs)'
  <2>1. PICK a \in Nat: a = acts + 1
    BY <1>2
  <2>2. PICK z \in Nat: z = 0
    OBVIOUS
  <2>3. PICK sel \in Selectors \union {"doIt", "block"}: sel = "doIt"
    OBVIOUS
  <2>4. PICK f: f = ChainFrame(a, sel, z, z, TRUE)
    OBVIOUS
  <2>5. f \in FrameSet /\ f.act = a
    BY <2>4, FrameIs
  <2>6. <<f>> \in Seq(FrameSet) /\ Len(<<f>>) = 1 /\ <<f>>[1] = f /\ <<f>> # <<>>
    BY <2>5
  <2>7. Chained(<<f>>)'
    BY <1>2, <2>1, <2>5, <2>6 DEF Chained
  <2>8. f = doItFrame
    BY <2>1, <2>2, <2>3, <2>4
  <2> HIDE DEF doItFrame
  <2> QED
    BY <2>6, <2>7, <2>8
<1>4. PICK s \in Procs: s = start /\ s.state = "live" /\ s.frames = fs /\ s.mode = "None"
  <2>1. start = [NoProc EXCEPT !.state = "live", !.frames = fs]
    BY <1>3
  <2>2. PICK n \in Procs: n = NoProc /\ n.mode = "None"
    BY NoProcIs
  <2>3. PICK t: t = [n EXCEPT !.state = "live", !.frames = fs]
    OBVIOUS
  <2>4. t \in Procs
    BY <2>3 DEF Procs
  <2>5. t.state = "live" /\ t.mode = n.mode
    BY <2>3 DEF Procs
  <2>6. t.frames = fs
    BY <2>3 DEF Procs
  <2>7. t = start
    BY <2>1, <2>2, <2>3
  <2> HIDE DEF start
  <2> QED
    BY <2>2, <2>4, <2>5, <2>6, <2>7
<1> HIDE DEF start, doItFrame
<1>5. PICK q \in Procs: /\ procs' = [procs EXCEPT ![p] = q] /\ q.frames = fs /\ q.mode = "None"
                        /\ q.state \in {"live", "halted"} /\ (q.state = "live" <=> running' = p)
                        /\ running' \in {0, p}
  <2>1. CASE debugIt
    <3>1. PICK sel \in InFlight, why \in Reasons: sel = "none" /\ why = "debug it"
      BY DEF InFlight, Reasons
    <3>2. PICK h \in Procs: h = HaltedAt(s, fs, sel, why)
      BY HaltedAtIs
    <3>3. h.state = "halted" /\ h.frames = fs /\ h.mode = "None"
      BY <3>2, HaltedAtIs
    <3>4. procs' = [procs EXCEPT ![p] = h] /\ running' = 0
      BY <1>1, <1>2, <1>4, <2>1, <3>1, <3>2
    <3> QED
      BY <1>2, <3>3, <3>4
  <2>2. CASE ~debugIt
    <3>1. procs' = [procs EXCEPT ![p] = s] /\ running' = p
      BY <1>1, <1>4, <2>2
    <3> QED
      BY <1>4, <3>1
  <2> QED
    BY <2>1, <2>2
<1>6. SourcesGo /\ held' \subseteq Pids /\ doIt' \in Pids \union {0}
  <2>1. held' = {r \in held \union {doIt}: Halted(r)} /\ doIt' = p
    BY <1>1 DEF Retired
  <2>2. \A r \in held': Halted(r) /\ r \in held \union {doIt} /\ r # 0
    BY <2>1 DEF Halted
  <2> QED
    BY <2>1, <2>2 DEF SourcesGo, IInv, Types
<1>7. \A r \in Pids: r # p /\ procs[r].state \in {"live", "halted"} /\ r \in held \union {doIt}
         => r \in held' \union {doIt'}
  <2>1. ASSUME NEW r \in Pids, procs[r].state \in {"live", "halted"}, r \in held \union {doIt}
        PROVE  r \in held'
    <3>1. Process(r) /\ r # 0
      BY Kinds
    <3>2. procs[r].state = "halted"
      BY <1>2, <2>1, <3>1 DEF Process
    <3> QED
      BY <1>1, <2>1, <3>1, <3>2 DEF Retired, Halted
  <2> QED
    BY <2>1
<1>8. Window'
  <2>1. view # NoView => procs'[view.pid] = procs[view.pid]
    BY <1>1, <1>5 DEF IInv, Types, Window, Halted
  <2> QED
    BY <1>2, <2>1, WindowStays
<1>9. IInv'
  <2>1. /\ running \in {0, p} /\ running' \in {0, p} /\ acts' \in Nat /\ acts <= acts'
        /\ methods' = methods /\ installs' = installs /\ accept' = None
    BY <1>2, <1>5
  <2>2. /\ q.state \in {"live", "halted"} <=> q.frames # <<>>
        /\ p \in held' \union {doIt'} /\ q.mode = "None"
    BY <1>1, <1>3, <1>5
  <2>3. Chained(q.frames)'
    BY <1>3, <1>5 DEF Chained
  <2> QED
    BY <1>5, <1>6, <1>7, <1>8, <2>1, <2>2, <2>3, StepKeeps
<1>10. Answered
  <2>1. procs[p].state # "dead" /\ running \in {0, p} /\ running # p
    BY <1>1, <1>2
  <2> QED
    BY <1>5, <1>6, <2>1, AnsweredIs
<1> QED
  BY <1>9, <1>10

-------------------------------------------------------------------------------
\* Accept

(* The row of a frame names it: activations on a chain differ. *)
LEMMA HomeIs ==
  ASSUME DebuggerAssumption, IInv, NEW p \in Pids, Halted(p), NEW k \in 1 .. DepthOf(p)
  PROVE  HomeOf(p, procs[p].frames[k].act)
           = IF procs[p].frames[k].home = 0 THEN procs[p].frames[k].act ELSE procs[p].frames[k].home
<1>1. PICK fs \in Seq(FrameSet): fs = procs[p].frames /\ Chained(fs)
  BY HaltedIs
<1>2. PICK a: a = fs[k].act
  OBVIOUS
<1> DEFINE I == {j \in 1 .. Len(fs): fs[j].act = a}
<1>3. k \in 1 .. Len(fs) /\ Len(fs) \in Nat
  BY <1>1, LenProperties DEF DepthOf
<1>4. I = {k}
  <2>1. ASSUME NEW j \in 1 .. Len(fs), j # k PROVE fs[j].act # a
    <3>1. /\ j < k => fs[k].act < fs[j].act
          /\ k < j => fs[j].act < fs[k].act
          /\ fs[j].act \in 1 .. acts /\ fs[k].act \in 1 .. acts
      BY <1>1, <1>3, <2>1 DEF Chained
    <3> QED
      BY <1>2, <1>3, <2>1, <3>1, Kinds
  <2> QED
    BY <1>2, <1>3, <2>1
<1>5. Min({k}) = k
  BY <1>3 DEF Min
<1>6. SelectInSeq(fs, LAMBDA f: f.act = a) = IF I # {} THEN Min(I) ELSE 0
  BY DEF SelectInSeq
<1>7. SelectInSeq(fs, LAMBDA f: f.act = a) = k
  BY <1>4, <1>5, <1>6
<1>8. HomeOf(p, a) = IF k = 0 THEN 0 ELSE IF fs[k].home = 0 THEN a ELSE fs[k].home
  BY <1>1, <1>7 DEF HomeOf
<1> HIDE DEF I
<1> QED
  BY <1>1, <1>2, <1>3, <1>7, <1>8

(* What acceptTarget finds is on the chain, and the home of the row's frame. *)
LEMMA TargetIs ==
  ASSUME DebuggerAssumption, IInv, NEW p \in Pids, Halted(p), NEW i \in Nat, AcceptTarget(p, i) # 0
  PROVE  /\ FrameAt(p, i) # 0 /\ FrameAt(p, i) \in 1 .. DepthOf(p) /\ AcceptTarget(p, i) \in 1 .. DepthOf(p)
         /\ procs[p].frames[AcceptTarget(p, i)].act = HomeOf(p, procs[p].frames[FrameAt(p, i)].act)
<1>1. PICK k: k = FrameAt(p, i)
  OBVIOUS
<1>2. k # 0 /\ AcceptTarget(p, i) = HomeAt(p, k) /\ HomeAt(p, k) # 0
  BY <1>1 DEF AcceptTarget
<1>3. k \in 1 .. DepthOf(p)
  BY <1>1, <1>2 DEF FrameAt
<1>4. CASE procs[p].frames[k].home = 0
  <2>1. HomeAt(p, k) = k
    BY <1>4 DEF HomeAt
  <2> QED
    BY <1>1, <1>2, <1>3, <1>4, <2>1, HomeIs
<1>5. CASE procs[p].frames[k].home # 0
  <2>1. PICK homes: homes = {j \in 1 .. DepthOf(p): procs[p].frames[j].act = procs[p].frames[k].home}
    OBVIOUS
  <2>2. homes # {} /\ HomeAt(p, k) = CHOOSE j \in homes: TRUE
    BY <1>2, <1>5, <2>1 DEF HomeAt
  <2>3. HomeAt(p, k) \in homes
    BY <2>2
  <2> QED
    BY <1>1, <1>2, <1>3, <1>5, <2>1, <2>3, HomeIs
<1> QED
  BY <1>4, <1>5

LEMMA AcceptInstallsKeeps == DebuggerAssumption /\ IInv /\ AcceptInstalls => IInv' /\ Answered
<1> SUFFICES ASSUME DebuggerAssumption, IInv, AcceptInstalls PROVE IInv' /\ Answered
  OBVIOUS
<1>1. /\ AtRest /\ WindowShows /\ installs' = installs + 1 /\ view' = NoView
      /\ UNCHANGED <<procs, running, doIt, held, acts, asked>>
  BY DEF AcceptInstalls
<1>2. PICK p \in Pids: p = view.pid /\ Halted(p)
  <2>1. view # NoView
    BY <1>1 DEF WindowShows, NoView
  <2> QED
    BY <2>1 DEF IInv, Window
<1>3. PICK i \in 0 .. Len(view.rows) - 1:
        LET k  == AcceptTarget(p, i)
            fs == StartedOver(procs[p].frames, k)
        IN /\ k # 0
           /\ accept' = [pid |-> p, chain |-> [fs EXCEPT ![1].method = installs + 1]]
           /\ methods' = [methods EXCEPT ![fs[1].sel] = installs + 1]
  BY <1>2 DEF AcceptInstalls
<1>4. PICK fs \in Seq(FrameSet): fs = procs[p].frames /\ Chained(fs)
  BY <1>2, HaltedIs
<1>5. PICK k: k = AcceptTarget(p, i)
  OBVIOUS
<1>6. k \in 1 .. Len(fs) /\ fs[k].act = HomeOf(p, procs[p].frames[FrameAt(p, i)].act) /\ FrameAt(p, i) # 0
  <2>1. i \in Nat /\ k # 0
    BY <1>3, <1>5
  <2> QED
    BY <1>2, <1>4, <1>5, <2>1, TargetIs DEF DepthOf
<1>7. PICK gs \in Seq(FrameSet): /\ gs = StartedOver(fs, k) /\ gs # <<>> /\ Chained(gs)
                                 /\ gs[1].act = fs[k].act /\ gs[1].sel = fs[k].sel
  BY <1>4, <1>6, StartedOverIs
<1>8. /\ accept' = [pid |-> p, chain |-> [gs EXCEPT ![1].method = installs + 1]]
      /\ methods' = [methods EXCEPT ![gs[1].sel] = installs + 1]
  BY <1>3, <1>4, <1>5, <1>7
<1>9. methods' \in [Selectors -> Int] /\ installs' \in Nat
  <2>1. installs + 1 \in Int /\ installs + 1 \in Nat
    BY DEF IInv, Types
  <2>2. methods \in [Selectors -> Int]
    BY DEF IInv, Types
  <2> QED
    BY <1>1, <1>8, <2>1, <2>2
<1>10. PICK cs: cs = [gs EXCEPT ![1].method = installs + 1]
  OBVIOUS
<1>11. cs \in Seq(FrameSet) /\ cs # <<>> /\ Chained(cs)
  <2>1. 1 \in 1 .. Len(gs) /\ Len(gs) \in Nat
    BY <1>7, EmptySeq, LenProperties
  <2>2. gs[1] \in FrameSet /\ installs + 1 \in Nat
    BY <2>1, ElementOfSeq DEF IInv, Types
  <2>3. PICK f: f = [gs[1] EXCEPT !.method = installs + 1]
    OBVIOUS
  <2>4. f \in FrameSet
    BY <2>2, <2>3 DEF FrameSet
  <2>5. f.act = gs[1].act
    BY <2>2, <2>3 DEF FrameSet
  <2>6. cs = [gs EXCEPT ![1] = f]
    BY <1>10, <2>1, <2>3
  <2>7. cs \in Seq(FrameSet) /\ Len(cs) = Len(gs) /\ \A j \in 1 .. Len(gs): cs[j] = IF j = 1 THEN f ELSE gs[j]
    BY <2>1, <2>4, <2>6, ExceptSeq
  <2>8. \A j \in 1 .. Len(gs): cs[j].act = gs[j].act
    BY <2>5, <2>7
  <2>9. Chained(cs)
    BY <1>7, <2>7, <2>8 DEF Chained
  <2> QED
    BY <2>1, <2>7, <2>9
<1>12. Recording'
  <2>1. accept'.pid = p /\ accept'.chain = cs /\ running' = 0 /\ view' = NoView
    BY <1>1, <1>8, <1>10 DEF AtRest
  <2>2. Chained(cs)'
    BY <1>1, <1>11 DEF Chained
  <2> QED
    BY <1>11, <2>1, <2>2 DEF Recording, Chained
<1>13. Window'
  BY <1>1 DEF Window
<1> QED
  BY <1>1, <1>9, <1>12, <1>13, ProcsStay

LEMMA AcceptEndsKeeps == DebuggerAssumption /\ IInv /\ AcceptEnds => IInv' /\ Answered
<1> SUFFICES ASSUME DebuggerAssumption, IInv, AcceptEnds PROVE IInv' /\ Answered
  OBVIOUS
<1>1. /\ accept # None /\ accept' = None
      /\ procs' = IF StillHalted
                  THEN [procs EXCEPT ![accept.pid] = HaltedAt(@, accept.chain, "none", "accepted")]
                  ELSE procs
      /\ UNCHANGED <<running, methods, doIt, held, view, acts, installs, asked>>
  BY DEF AcceptEnds
<1>2. running = 0 /\ view = NoView
  BY <1>1 DEF IInv, Recording
<1>3. PICK p \in Pids, cs \in Seq(FrameSet): accept.pid = p /\ accept.chain = cs /\ cs # <<>> /\ Chained(cs)
  BY <1>1 DEF IInv, Recording
<1>4. Window'
  BY <1>1, <1>2 DEF Window
<1>5. methods' \in [Selectors -> Int] /\ installs' \in Nat /\ acts \in Nat /\ acts' = acts
  BY <1>1 DEF IInv, Types
<1>6. CASE ~StillHalted
  <2>1. UNCHANGED <<procs, running, doIt, held, acts, asked>>
    BY <1>1, <1>6
  <2>2. Recording'
    BY <1>1 DEF Recording
  <2> QED
    BY <1>4, <1>5, <2>1, <2>2, ProcsStay
<1>7. CASE StillHalted
  <2>1. Halted(p)
    BY <1>3, <1>7 DEF StillHalted
  <2>2. PICK q \in Procs: q = procs[p] /\ q.state = "halted" /\ p \in held \union {doIt} /\ p # 0
    BY <2>1, HaltedIs
  <2>3. PICK sel \in InFlight, why \in Reasons: sel = "none" /\ why = "accepted"
    BY DEF InFlight, Reasons
  <2>4. PICK h \in Procs: h = HaltedAt(q, cs, sel, why)
    BY HaltedAtIs
  <2>5. h.state = "halted" /\ h.frames = cs /\ h.mode = "None" /\ h.reason = why
    BY <2>4, HaltedAtIs
  <2>6. procs' = [procs EXCEPT ![p] = h]
    <3>1. procs' = [procs EXCEPT ![p] = HaltedAt(procs[p], cs, "none", "accepted")]
      BY <1>1, <1>3, <1>7
    <3> QED
      BY <2>2, <2>3, <2>4, <3>1
  <2>7. SourcesGo /\ held' \subseteq Pids /\ doIt' \in Pids \union {0}
    BY <1>1 DEF SourcesGo, IInv, Types
  <2>8. Chained(h.frames)'
    <3>1. Chained(cs)'
      BY <1>3, <1>5, ChainLater
    <3> QED
      BY <2>5, <3>1 DEF Chained
  <2>9. IInv'
    <3>1. /\ running \in {0, p} /\ running' \in {0, p} /\ acts' \in Nat /\ acts <= acts'
          /\ methods' = methods /\ installs' = installs /\ accept' = None /\ running' # p
      BY <1>1, <1>2, <1>5, <2>2
    <3>2. \A r \in Pids: r # p /\ procs[r].state \in {"live", "halted"} /\ r \in held \union {doIt}
             => r \in held' \union {doIt'}
      BY <1>1
    <3>3. /\ h.state = "live" <=> running' = p
          /\ h.state \in {"live", "halted"} <=> h.frames # <<>>
          /\ p \in held' \union {doIt'}
      BY <1>1, <1>3, <2>2, <2>5, <3>1
    <3> QED
      BY <1>4, <2>5, <2>6, <2>7, <2>8, <3>1, <3>2, <3>3, StepKeeps
  <2>10. Answered
    <3>1. procs[p].state # "dead" /\ running \in {0, p} /\ running # p
      BY <1>2, <2>2
    <3> QED
      BY <2>6, <2>7, <3>1, AnsweredIs
  <2> QED
    BY <2>9, <2>10
<1> QED
  BY <1>6, <1>7

-------------------------------------------------------------------------------
\* The theorems

LEMMA InitHolds == DebuggerAssumption /\ DebugInit => IInv
<1> SUFFICES ASSUME DebuggerAssumption, DebugInit PROVE IInv
  OBVIOUS
<1>1. PICK n \in Procs: n = NoProc /\ n.state = "none" /\ n.frames = <<>> /\ n.mode = "None"
  BY NoProcIs
<1>2. /\ procs = [p \in Pids |-> n] /\ running = 0 /\ accept = None /\ view = NoView
      /\ doIt = 0 /\ held = {} /\ acts = 0 /\ installs = 1
  BY <1>1 DEF DebugInit
<1>3. methods \in [Selectors -> Int]
  BY DEF DebugInit, Missing, Native
<1>4. Types
  BY <1>2, <1>3 DEF Types
<1>5. \A p \in Pids: Process(p)
  <2> TAKE p \in Pids
  <2>1. procs[p] = n /\ running # p
    BY <1>2 DEF DebuggerAssumption
  <2>2. Chained(n.frames)
    BY <1>1, EmptySeq DEF Chained
  <2> QED
    BY <1>1, <2>1, <2>2 DEF Process
<1>6. Marked
  BY <1>1, <1>2 DEF Marked
<1> QED
  BY <1>2, <1>4, <1>5, <1>6 DEF IInv, Recording, Window

LEMMA NextKeeps == DebuggerAssumption /\ IInv /\ [DebugNext]_debugVars => IInv' /\ Answered
<1> SUFFICES ASSUME DebuggerAssumption, IInv, [DebugNext]_debugVars PROVE IInv' /\ Answered
  OBVIOUS
<1>1. CASE Evaluates
  BY <1>1, EvaluatesKeeps
<1>2. CASE Calls
  BY <1>2, CallsKeeps
<1>3. CASE GoesOn
  BY <1>3, GoesKeeps
<1>4. CASE Fails
  BY <1>4, FailsKeeps
<1>5. CASE Resumes
  BY <1>5, ResumesKeeps
<1>6. CASE Opens
  BY <1>6, OpensKeeps
<1>7. CASE RestartsRow
  BY <1>7, RestartsKeeps
<1>8. CASE AcceptInstalls
  BY <1>8, AcceptInstallsKeeps
<1>9. CASE AcceptEnds
  BY <1>9, AcceptEndsKeeps
<1>10. CASE Terminates
  BY <1>10, TerminatesKeeps
<1>11. CASE Edits
  BY <1>11, EditsKeeps
<1>12. CASE UNCHANGED debugVars
  <2>1. UNCHANGED <<procs, running, doIt, held, acts, asked, methods, installs, accept, view>>
    BY <1>12 DEF debugVars
  <2>2. methods' \in [Selectors -> Int] /\ installs' \in Nat
    BY <2>1 DEF IInv, Types
  <2>3. Recording'
    BY <2>1 DEF IInv, Recording, Chained
  <2>4. Window'
    BY <2>1, WindowStays DEF IInv, Window
  <2> QED
    BY <2>1, <2>2, <2>3, <2>4, ProcsStay
<1> QED
  BY <1>1, <1>2, <1>3, <1>4, <1>5, <1>6, <1>7, <1>8, <1>9, <1>10, <1>11, <1>12 DEF DebugNext

(* While anything is done in the debugger, processes, chains, marks and windows
   agree, with or without edits in the Browser. *)
THEOREM Invariant == ASSUME DebuggerAssumption PROVE DebugSpec => []IInv
<1>1. DebugInit => IInv
  BY InitHolds
<1>2. IInv /\ [DebugNext]_debugVars => IInv'
  BY NextKeeps
<1> QED
  BY <1>1, <1>2, PTL DEF DebugSpec

(* Rows show whether they were read with a synthesized frame: no activation is 0. *)
LEMMA ReadAs ==
  ASSUME DebuggerAssumption, IInv, NEW p \in Pids, Halted(p), NEW b \in BOOLEAN
  PROVE  RowsAs(p, b) # <<>> /\ (RowsAs(p, b)[1] = 0 <=> b)
<1>1. PICK fs \in Seq(FrameSet): fs = procs[p].frames /\ fs # <<>> /\ Chained(fs)
  BY HaltedIs
<1>2. PICK n \in Nat: n = Len(fs) /\ n # 0
  BY <1>1, LenProperties, EmptySeq
<1>3. acts \in Nat /\ \A k \in 1 .. n: fs[k].act \in 1 .. acts
  BY <1>1, <1>2 DEF IInv, Types, Chained
<1> DEFINE tail == [k \in 1 .. n |-> fs[k].act]
<1>4. tail \in Seq(Nat) /\ Len(tail) = n /\ tail[1] # 0
  <2>1. \A k \in 1 .. n: fs[k].act \in Nat
    BY <1>3
  <2>2. 1 \in 1 .. n
    BY <1>2
  <2> QED
    BY <1>2, <1>3, <2>1, <2>2, IsASeq
<1>5. RowsAs(p, b) = (IF b THEN <<0>> ELSE <<>>) \o tail
  BY <1>1, <1>2 DEF RowsAs, DepthOf
<1> HIDE DEF tail
<1>6. CASE b
  <2>1. PICK z \in Seq(Nat): z = <<0>> /\ Len(z) = 1 /\ z[1] = 0
    <3>1. PICK m \in Nat: m = 0
      OBVIOUS
    <3>2. <<m>> \in Seq(Nat) /\ Len(<<m>>) = 1 /\ <<m>>[1] = m
      OBVIOUS
    <3> QED
      BY <3>1, <3>2
  <2>2. Len(z \o tail) = 1 + n /\ (z \o tail)[1] = z[1]
    BY <1>2, <1>4, <2>1, ConcatProperties
  <2>3. z \o tail # <<>>
    BY <1>2, <2>2
  <2> QED
    BY <1>5, <1>6, <2>1, <2>2, <2>3
<1>7. CASE ~b
  <2>1. RowsAs(p, b) = tail
    BY <1>4, <1>5, <1>7, ConcatEmptySeq
  <2>2. tail # <<>>
    BY <1>2, <1>4
  <2> QED
    BY <1>4, <1>7, <2>1, <2>2
<1> QED
  BY <1>6, <1>7

LEMMA RowsStandHolds ==
  ASSUME DebuggerAssumption, IInv, AtRest, WindowShows, ReadSynthesized = Synthesizes(view.pid)
  PROVE  \A i \in 0 .. Len(view.rows) - 1:
           /\ FrameAt(view.pid, i) # 0
                => procs[view.pid].frames[FrameAt(view.pid, i)].act = view.rows[i + 1]
           /\ AcceptTarget(view.pid, i) # 0
                => procs[view.pid].frames[AcceptTarget(view.pid, i)].act = HomeOf(view.pid, view.rows[i + 1])
<1>1. PICK p \in Pids: p = view.pid /\ Halted(p) /\ view.rows \in AnyRows(p)
  BY DEF WindowShows, NoView, IInv, Window
<1>2. PICK b \in BOOLEAN: view.rows = RowsAs(p, b)
  BY <1>1 DEF AnyRows
<1>3. ReadSynthesized <=> b
  BY <1>1, <1>2, ReadAs DEF ReadSynthesized
<1>4. view.rows = Rows(p)
  <2>1. b = Synthesizes(p)
    BY <1>1, <1>3 DEF ReadSynthesized, Synthesizes
  <2> QED
    BY <1>2, <2>1 DEF Rows
<1>5. ASSUME NEW i \in 0 .. Len(view.rows) - 1, FrameAt(p, i) # 0
      PROVE  procs[p].frames[FrameAt(p, i)].act = view.rows[i + 1]
  BY <1>4, <1>5, RowIs
<1>6. ASSUME NEW i \in 0 .. Len(view.rows) - 1, AcceptTarget(p, i) # 0
      PROVE  procs[p].frames[AcceptTarget(p, i)].act = HomeOf(p, view.rows[i + 1])
  <2>1. i \in Nat
    OBVIOUS
  <2>2. /\ procs[p].frames[AcceptTarget(p, i)].act = HomeOf(p, procs[p].frames[FrameAt(p, i)].act)
        /\ FrameAt(p, i) # 0
    BY <1>1, <1>6, <2>1, TargetIs
  <2> QED
    BY <1>5, <2>2
<1> QED
  BY <1>1, <1>5, <1>6

LEMMA IsKept == DebuggerAssumption /\ IInv => WindowKept
<1> SUFFICES ASSUME DebuggerAssumption, IInv PROVE WindowKept
  OBVIOUS
<1>1. DebugTypeOK
  <2>1. \A p \in Pids: procs[p].state \in {"none", "live", "halted", "dead"}
    BY Kinds, ProcFields
  <2>2. \A p \in Pids: /\ procs[p].state = "live" <=> running = p
                       /\ procs[p].state \in {"live", "halted"} <=> procs[p].frames # <<>>
    BY DEF IInv, Process
  <2> QED
    BY <2>1, <2>2 DEF DebugTypeOK, IInv, Types
<1>2. DoItSourceKept
  BY HaltedIs DEF DoItSourceKept
<1>3. WindowShows => RowsStand
  BY RowsStandHolds DEF RowsStand, RestartsShownRow
<1> QED
  BY <1>1, <1>2, <1>3 DEF WindowKept

(* While a process is halted its doIt's source stays, and the rows its window read
   name the activations its buttons act on, unless a Browser edit changed meanwhile
   whether the failed send finds a method: through resumes, steps, restarts,
   accepts and ends of any evaluation and edits of other methods, or of that one
   taken back (frameAt, acceptTarget, retireDoItDebug). *)
THEOREM WindowsAreKept ==
  ASSUME DebuggerAssumption
  PROVE  DebugSpec => []WindowKept
<1>1. DebugSpec => []IInv
  BY Invariant
<1>2. IInv => WindowKept
  BY IsKept
<1> QED
  BY <1>1, <1>2, PTL

(* A mark left by a step stops no later Proceed, the sources of the doIts that are
   over go at the next evaluation, and no Accept revives a process that ended
   meanwhile (Scheduler::halt, retireDoItDebug, stillHalted). *)
THEOREM HaltsAreAnswered == ASSUME DebuggerAssumption PROVE DebugSpec => HaltsEndAsAsked
<1>1. DebugSpec => []IInv
  BY Invariant
<1>2. IInv /\ [DebugNext]_debugVars => [StepsAsked]_debugVars
  BY NextKeeps DEF Answered
<1>3. IInv /\ [DebugNext]_debugVars => [SourcesGo]_debugVars
  BY NextKeeps DEF Answered
<1>4. IInv /\ [DebugNext]_debugVars => [DeadStay]_debugVars
  BY NextKeeps DEF Answered
<1>5. DebugSpec => [][StepsAsked]_debugVars
  BY <1>1, <1>2, PTL DEF DebugSpec
<1>6. DebugSpec => [][SourcesGo]_debugVars
  BY <1>1, <1>3, PTL DEF DebugSpec
<1>7. DebugSpec => [][DeadStay]_debugVars
  BY <1>1, <1>4, PTL DEF DebugSpec
<1> QED
  BY <1>5, <1>6, <1>7, PTL DEF HaltsEndAsAsked, StepWasAsked, DoItSourceGoes, AcceptsOnlyHalted,
                               StepsAsked, SourcesGo, DeadStay

=================================================================================
