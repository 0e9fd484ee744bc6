------------------------------- MODULE Debugger -------------------------------
(* The debugger on halted evaluations (Session.cpp, DebugSnapshot.cpp): the    *)
(* frames a host reads and then names by their row, Proceed and the steps,     *)
(* Restart, and Accept, which runs Smalltalk between reading the halted frame  *)
(* and starting it over; beside them the sources of the doIts kept meanwhile.  *)
(* Unwind has the unwinding of a restart, Scheduler the switches; here one     *)
(* process runs at a time, inside one entry.                                   *)
EXTENDS Integers, Sequences, FiniteSets, SequencesExt

CONSTANTS Pids,        \* 1 .. the number of evaluations
          MaxFrames,   \* bound: activations on a chain
          MaxActs,     \* bound: activations in all
          MaxInstalls  \* bound: methods installed

DebuggerAssumption ==
  /\ Pids \subseteq Nat \ {0} /\ MaxFrames \in Nat \ {0}
  /\ MaxActs \in Nat /\ MaxInstalls \in Nat

VARIABLES
  procs,    \* the evaluating processes
  running,  \* the one that runs, 0 when the host does
  methods,  \* what lookup finds for a selector: Missing, Native, or a method's number
  accept,   \* the ao_debug_accept that records its change, or None
  doIt,     \* doItDebug: the process of the last evaluation's entry, 0 when there is none
  held,     \* heldDoIts: the processes of the earlier ones
  view,     \* the rows a debugger window read last, and of which process
  acts, installs,   \* so far
  asked     \* history: what the last resume was: "proceed" or a step

debugVars == <<procs, running, methods, accept, doIt, held, view, acts, installs, asked>>

Missing == 0
Native  == -1
Selectors == {"halt", "foo"}
None   == [pid |-> 0, chain |-> <<>>]
NoView == [pid |-> 0, rows |-> <<>>]

(* A frame: its activation, its selector and method, the home activation of a
   block (0 of a method), and whether its pc starts a statement.  The chain has
   the innermost first; a doIt's is last. *)
ChainFrame(act, sel, method, home, stmt) ==
  [act |-> act, sel |-> sel, method |-> method, home |-> home, stmt |-> stmt]

(* `inflight`: the selector of the innermost frame's send in flight, "none"
   without one. *)
NoProc == [state |-> "none", frames |-> <<>>, inflight |-> "none", reason |-> "none",
           mode |-> "None", depth |-> 0]

Halted(p) == p # 0 /\ procs[p].state = "halted"
AtRest    == running = 0 /\ accept = None
DepthOf(p)  == Len(procs[p].frames)
Acts(fs)  == {fs[k].act : k \in 1 .. Len(fs)}

-------------------------------------------------------------------------------
\* LiveFrames

(* synthesizesNative: the send in flight finds a native now, or nothing. *)
Synthesizes(p) == procs[p].inflight # "none" /\ methods[procs[p].inflight] \in {Missing, Native}

(* The rows, 0 for the synthesized frame. *)
RowsAs(p, synth) == (IF synth THEN <<0>> ELSE <<>>) \o [k \in 1 .. DepthOf(p) |-> procs[p].frames[k].act]
Rows(p) == RowsAs(p, Synthesizes(p))

FrameAtPlain(p, i) == IF i + 1 \in 1 .. DepthOf(p) THEN i + 1 ELSE 0

(* frameAt: the position on the chain of row i (from 0), 0 when there is none. *)
FrameAt(p, i) == LET k == IF Synthesizes(p) THEN i ELSE i + 1
                 IN IF k \in 1 .. DepthOf(p) THEN k ELSE 0

(* acceptTarget: the frame, or the home activation of a block, when its method is
   an accepted one that its class still holds; 0 otherwise. *)
HomeAt(p, k) == LET f == procs[p].frames[k]
                    homes == {j \in 1 .. DepthOf(p): procs[p].frames[j].act = f.home}
                IN IF f.home = 0 THEN k ELSE IF homes = {} THEN 0 ELSE CHOOSE j \in homes: TRUE

Accepted(f) == f.sel \in Selectors /\ methods[f.sel] = f.method

AcceptTarget(p, i) ==
  LET k == IF FrameAt(p, i) = 0 THEN 0 ELSE HomeAt(p, FrameAt(p, i))
  IN IF k # 0 /\ Accepted(procs[p].frames[k]) THEN k ELSE 0

-------------------------------------------------------------------------------
\* The running process

(* stepCheck, before each instruction but the one a halt was at. *)
Reached(p, fs) ==
  LET d == Len(fs)  q == procs[p]
  IN CASE q.mode \in {"DebugIt", "Accepted"} -> TRUE
       [] q.mode = "Into" -> d # q.depth \/ Head(fs).stmt
       [] q.mode = "Over" -> d < q.depth \/ (d = q.depth /\ Head(fs).stmt)
       [] q.mode = "Out"  -> d < q.depth
       [] OTHER -> FALSE

ModeAfterHalt(q) == "None"


(* Scheduler::halt: any halt ends a step. *)
HaltedAt(q, fs, inflight, reason) ==
  [q EXCEPT !.state = "halted", !.frames = fs, !.inflight = inflight, !.reason = reason,
            !.mode = ModeAfterHalt(q), !.depth = 0]

(* An instruction that leaves the chain fs; the check of the next one follows. *)
Executes(fs) ==
  LET p == running
  IN IF fs = <<>> THEN procs' = [procs EXCEPT ![p] = [NoProc EXCEPT !.state = "dead"]] /\ running' = 0
     ELSE IF Reached(p, fs)
     THEN /\ procs' = [procs EXCEPT ![p] = HaltedAt(@, fs, "none", "step")] /\ running' = 0
     ELSE procs' = [procs EXCEPT ![p].frames = fs, ![p].inflight = "none"] /\ UNCHANGED running

Chain == procs[running].frames

Calls ==
  /\ running # 0 /\ DepthOf(running) < MaxFrames /\ acts < MaxActs /\ acts' = acts + 1
  /\ \/ \E sel \in Selectors:
          /\ methods[sel] > 0
          /\ Executes(<<ChainFrame(acts + 1, sel, methods[sel], 0, TRUE)>> \o Chain)
     \/ \E home \in 1 .. acts:            \* a block, its home returned or not
          Executes(<<ChainFrame(acts + 1, "block", 0, home, TRUE)>> \o Chain)
  /\ UNCHANGED <<methods, accept, doIt, held, view, installs, asked>>

GoesOn ==
  /\ running # 0
  /\ \/ \E stmt \in BOOLEAN: Executes(<<[Head(Chain) EXCEPT !.stmt = stmt]>> \o Tail(Chain))
     \/ Executes(Tail(Chain))
  /\ UNCHANGED <<methods, accept, doIt, held, view, acts, installs, asked>>

(* The native halt, or a message not understood, halts the process in its send. *)
Fails ==
  /\ running # 0
  /\ \E sel \in Selectors:
       /\ methods[sel] \in {Missing, Native}
       /\ procs' = [procs EXCEPT ![running] = HaltedAt(@, Chain, sel, "failure")]
  /\ running' = 0
  /\ UNCHANGED <<methods, accept, doIt, held, view, acts, installs, asked>>

-------------------------------------------------------------------------------
\* The host's entries

(* retireDoItDebug: the entries of evaluations that are still halted stay. *)
Retired == {p \in held \union {doIt}: Halted(p)}

Evaluates ==
  /\ AtRest /\ acts < MaxActs
  /\ \E p \in Pids, debugIt \in BOOLEAN:
       /\ procs[p].state = "none" /\ \A q \in Pids: q < p => procs[q].state # "none"
       /\ LET start == [NoProc EXCEPT !.state = "live", !.frames = <<ChainFrame(acts + 1, "doIt", 0, 0, TRUE)>>]
          IN IF debugIt THEN procs' = [procs EXCEPT ![p] = HaltedAt(start, start.frames, "none", "debug it")]
                             /\ UNCHANGED running
                        ELSE procs' = [procs EXCEPT ![p] = start] /\ running' = p
       /\ held' = Retired /\ doIt' = p
  /\ acts' = acts + 1 /\ asked' = "proceed"
  /\ UNCHANGED <<methods, accept, view, installs>>

(* Proceed, and the steps with their mark at the halted depth. *)
Resumes ==
  /\ AtRest
  /\ \E p \in Pids, mode \in {"None", "Into", "Over", "Out"}:
       /\ Halted(p) /\ running' = p
       /\ procs' = [procs EXCEPT ![p].state = "live", ![p].inflight = "none", ![p].mode = mode,
                                 ![p].depth = IF mode = "None" THEN 0 ELSE DepthOf(p)]
       /\ asked' = IF mode = "None" THEN "proceed" ELSE "step"
       /\ view' = IF view.pid = p THEN NoView ELSE view
  /\ UNCHANGED <<methods, accept, doIt, held, acts, installs>>

(* DebuggerWindow reads every row when it opens, and again after each resume. *)
Opens ==
  /\ AtRest
  /\ \E p \in Pids: Halted(p) /\ view' = [pid |-> p, rows |-> Rows(p)]
  /\ UNCHANGED <<procs, running, methods, accept, doIt, held, acts, installs, asked>>

WindowShows == view.pid # 0 /\ Halted(view.pid)

(* The chain from position k on, its first frame at its start. *)
StartedOver(fs, k) == <<[fs[k] EXCEPT !.stmt = TRUE]>> \o SubSeq(fs, k + 1, Len(fs))

(* ao_debug_restart of the row the user chose. *)
RestartsRow ==
  /\ AtRest /\ WindowShows
  /\ \E i \in 0 .. Len(view.rows) - 1:
       LET p == view.pid  k == FrameAt(p, i)
       IN /\ k # 0
          /\ procs' = [procs EXCEPT ![p].state = "live", ![p].inflight = "none",
                                    ![p].frames = StartedOver(@, k)]
          /\ running' = p
  /\ view' = NoView /\ asked' = "proceed"
  /\ UNCHANGED <<methods, accept, doIt, held, acts, installs>>

(* ao_debug_accept: the method is compiled and installed; the change set then
   records it by sends on the base. *)
AcceptInstalls ==
  /\ AtRest /\ WindowShows /\ installs < MaxInstalls
  /\ \E i \in 0 .. Len(view.rows) - 1:
       LET p == view.pid  k == AcceptTarget(p, i)
           fs == StartedOver(procs[p].frames, k)
       IN /\ k # 0
          /\ accept' = [pid |-> p, chain |-> [fs EXCEPT ![1].method = installs + 1]]
          /\ methods' = [methods EXCEPT ![fs[1].sel] = installs + 1]
  /\ installs' = installs + 1 /\ view' = NoView
  /\ UNCHANGED <<procs, running, doIt, held, acts, asked>>

StillHaltedUnread == TRUE

(* stillHalted: on the same chain the target is still there. *)
StillHalted == Halted(accept.pid) /\ Head(accept.chain).act \in Acts(procs[accept.pid].frames)

(* The restart with the new method, which halts before its first instruction. *)
AcceptEnds ==
  /\ accept # None /\ accept' = None
  /\ procs' = IF StillHalted
              THEN [procs EXCEPT ![accept.pid] = HaltedAt(@, accept.chain, "none", "accepted")]
              ELSE procs
  /\ UNCHANGED <<running, methods, doIt, held, view, acts, installs, asked>>

(* A halted process is ended: ao_debug_abort, a terminate in a drain, or one the
   model of the change set sends while the accept is recorded. *)
Terminates ==
  /\ running = 0
  /\ \E p \in Pids: /\ Halted(p) /\ procs' = [procs EXCEPT ![p] = [NoProc EXCEPT !.state = "dead"]]
                   /\ view' = IF view.pid = p THEN NoView ELSE view
  /\ UNCHANGED <<running, methods, accept, doIt, held, acts, installs, asked>>

(* A method is accepted, or removed, in the Browser. *)
Edits ==
  /\ AtRest
  /\ \E sel \in Selectors:
       \/ installs < MaxInstalls /\ installs' = installs + 1 /\ methods' = [methods EXCEPT ![sel] = installs + 1]
       \/ methods[sel] > 0 /\ methods' = [methods EXCEPT ![sel] = Missing] /\ UNCHANGED installs
  /\ UNCHANGED <<procs, running, accept, doIt, held, view, acts, asked>>

-------------------------------------------------------------------------------
(* foo is a method, or is not understood; halt is Object's native. *)
DebugInit ==
  /\ procs = [p \in Pids |-> NoProc] /\ running = 0 /\ accept = None
  /\ methods \in [Selectors -> {Missing, Native, 1}]
  /\ methods["halt"] = Native /\ methods["foo"] # Native
  /\ doIt = 0 /\ held = {} /\ view = NoView
  /\ acts = 0 /\ installs = 1 /\ asked = "proceed"

DebugNext ==
  \/ Evaluates \/ Calls \/ GoesOn \/ Fails
  \/ Resumes \/ Opens \/ RestartsRow \/ AcceptInstalls \/ AcceptEnds \/ Terminates \/ Edits

DebugSpec == DebugInit /\ [][DebugNext]_debugVars

-------------------------------------------------------------------------------
\* Properties

DebugTypeOK ==
  /\ running \in Pids \union {0} /\ held \subseteq Pids /\ doIt \in Pids \union {0}
  /\ \A p \in Pids: /\ procs[p].state \in {"none", "live", "halted", "dead"}
                    /\ procs[p].state = "live" <=> running = p
                    /\ procs[p].state \in {"live", "halted"} <=> procs[p].frames # <<>>

(* retireDoItDebug: a process that is halted, whichever evaluation it is of and
   however often it was resumed, still has its doIt's source entry. *)
DoItSourceKept == \A p \in Pids: Halted(p) => p \in held \union {doIt}

(* SPEC 3.13: "each goes at the first ao_eval that finds its process no longer
   halted": entries do not pile up over evaluations. *)
DoItSourceGoes == [][held' # held => \A p \in held': Halted(p)]_debugVars

(* Scheduler::halt: a mark left by a step that met another halt does not stop a
   later Proceed. *)
StepWasAsked ==
  [][\A p \in Pids: running = p /\ procs'[p].state = "halted" /\ procs'[p].reason = "step"
                     => asked = "step"]_debugVars

(* The activation a row's Accept is of: its own, or of a block's row its home. *)
HomeOf(p, act) == LET k == SelectInSeq(procs[p].frames, LAMBDA f: f.act = act)
                  IN IF k = 0 THEN 0 ELSE IF procs[p].frames[k].home = 0 THEN act ELSE procs[p].frames[k].home

(* SPEC 3.13 Restart, Accept: a button pressed on a row the window shows starts
   over the activation of that row, or its home.  A row's number is all the
   window passes, and LiveFrames counts again (DebugSnapshot.cpp:246): a Browser
   edit between reading and pressing breaks it. *)
RestartsShownRow ==
  AtRest /\ WindowShows =>
    LET p == view.pid  fs == procs[p].frames
    IN \A i \in 0 .. Len(view.rows) - 1:
         /\ FrameAt(p, i) # 0 => fs[FrameAt(p, i)].act = view.rows[i + 1]
         /\ AcceptTarget(p, i) # 0 => fs[AcceptTarget(p, i)].act = HomeOf(p, view.rows[i + 1])

(* Whether the rows were read with a synthesized frame on top. *)
ReadSynthesized == view.rows # <<>> /\ view.rows[1] = 0

(* LiveFrames, synthesizesNative: Browser edits that leave the failed send without
   a method, or with one, as it was when the rows were read move no row: neither
   edits of others, nor edits taken back, nor resumes and ends of other processes. *)
RowsStand == ReadSynthesized = Synthesizes(view.pid) => RestartsShownRow

(* sessionDebugAccept: an Accept ends in its process halted at the new method's
   start with the chain below as it was, or in nothing: no process that ended
   meanwhile comes back. *)
AcceptsOnlyHalted ==
  [][\A p \in Pids: procs[p].state = "dead" => procs'[p].state = "dead"]_debugVars

(* What a window reads of a halted evaluation is kept while it is halted: the
   source of its doIt, and its rows as long as the failed send is not edited. *)
WindowKept == DebugTypeOK /\ DoItSourceKept /\ (WindowShows => RowsStand)

(* A halt ends only in what the user asked for. *)
HaltsEndAsAsked == StepWasAsked /\ DoItSourceGoes /\ AcceptsOnlyHalted

===============================================================================
