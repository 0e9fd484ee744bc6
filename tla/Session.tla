------------------------------- MODULE Session --------------------------------
(* The C ABI in front of one session (abi.cpp) and what the session keeps      *)
(* between its entries (Session.cpp): the failure snapshot and its generation, *)
(* the last result, the interrupt request, the capture setting and where it is *)
(* copied to.  Smalltalk code calls host hooks, and a hook calls the ABI again *)
(* while an entry runs; a second thread may call it too.                       *)
EXTENDS Integers, Sequences, FiniteSets

CONSTANTS Threads,    \* the host's threads
          MaxNest,    \* bound: ABI calls inside one another on a thread
          MaxEvals,   \* bound: evaluations
          MaxMade,    \* bound: sessions made
          MaxGen      \* bound: debug generations

ASSUME SessionAssumption ==
  MaxNest \in Nat \ {0} /\ MaxEvals \in Nat /\ MaxMade \in Nat /\ MaxGen \in Nat

VARIABLES
  entered,      \* g_entered
  calls,        \* per thread its ABI calls, the innermost last: [op, at]
  session,      \* g_session, or NoSession
  next,         \* the session ao_image_load makes, until it replaces the current one
  running,      \* the process that runs: its name, and CallContext::debug of its context
  capture,      \* g_debugCapture
  debugEntries, \* g_debugEntries
  generation,   \* g_debugGeneration
  interrupt,    \* g_interruptRequested, with the evaluation it was raised in
  direct,       \* the host itself sends on the base, through no entry
  evals, made,  \* evaluations and sessions so far
  blamed,       \* history: an entry's own failure was captured since the last clear
  struck        \* history: the pairs <<raised in, halted>> of evaluations interrupted

vars == <<entered, calls, session, next, running, capture, debugEntries, generation,
          interrupt, direct, evals, made, blamed, struck>>

(* The entries, by what they do: those that replace the session; evaluations and
   resumes of halted ones; the debugger's prints; sends on the base that keep the
   snapshot and the result (file-in, accept, remove, workspace reset). *)
Replacing  == {"boot", "shutdown", "load"}
Evaluating == {"eval"}
Debugging  == {"print", "clear"}
Sending    == {"filein"}
Ops == Replacing \union Evaluating \union Debugging \union Sending

NoSession == [id |-> 0, sink |-> FALSE, snap |-> "empty", result |-> 0]

(* A session as installEmptyCache leaves it.  `sink`: the base's
   CallContext::debug is the session.  `result` is the evaluation whose
   printString evalResult holds; 0 when it is empty, negative when too long. *)
NewSession == [NoSession EXCEPT !.id = made + 1, !.sink = capture]

Live == session # NoSession

Idle == [who |-> "none", sink |-> FALSE]
Base(s) == [who |-> "base", sink |-> s.sink]
(* switchTo: a process takes the base's sink over each time it is switched to. *)
Switched(who) == [who |-> who, sink |-> session.sink]

Top(t)      == IF calls[t] = <<>> THEN [op |-> "none", at |-> "host"] ELSE calls[t][Len(calls[t])]
At(t, op, at) == Top(t) = [op |-> op, at |-> at]
Goes(t, at) == calls' = [calls EXCEPT ![t][Len(calls[t])].at = at]

(* Between two calls, or in a hook that the innermost call runs. *)
InHost(t) == Top(t).at \in {"host", "run", "drain"}

Bumped == generation' = generation + 1 /\ generation < MaxGen

-------------------------------------------------------------------------------
\* AbiEntry

Refuses == entered = 1

(* The compare-exchange.  The entries without AbiEntry are the settings below
   and the reads, which change nothing. *)
Enters(t, op) ==
  /\ InHost(t) /\ Len(calls[t]) < MaxNest
  /\ entered' = 1
  /\ calls' = [calls EXCEPT ![t] = Append(@, [op |-> op, at |-> IF Refuses THEN "refused" ELSE "taken"])]
  /\ UNCHANGED <<session, next, running, capture, debugEntries, generation, interrupt, direct,
                 evals, made, blamed, struck>>

(* interpreterRunning, read with the entry taken. *)
BusyUnread == FALSE
Busy == Live /\ (direct \/ running.who # "none")

GivenBack == 0

TestsBusy(t) ==
  /\ Top(t).at = "taken"
  /\ IF Busy THEN Goes(t, "refused") /\ entered' = GivenBack
             ELSE Goes(t, "begin") /\ UNCHANGED entered
  /\ UNCHANGED <<session, next, running, capture, debugEntries, generation, interrupt, direct,
                 evals, made, blamed, struck>>

(* The destructor of an entry that got in. *)
Returns(t) ==
  /\ Top(t).at \in {"refused", "done"}
  /\ entered' = IF Top(t).at = "done" THEN 0 ELSE entered
  /\ calls' = [calls EXCEPT ![t] = SubSeq(@, 1, Len(@) - 1)]
  /\ UNCHANGED <<session, next, running, capture, debugEntries, generation, interrupt, direct,
                 evals, made, blamed, struck>>

(* C++ code of the host that sends on the base context itself. *)
SendsDirectly ==
  /\ Live /\ entered = 0 /\ direct' = ~direct
  /\ UNCHANGED <<entered, calls, session, next, running, capture, debugEntries, generation,
                 interrupt, evals, made, blamed, struck>>

-------------------------------------------------------------------------------
\* The settings, which need no entry

(* Inside ao_debug_* prints the setting is only recorded; ~DebugEntry applies it. *)
CaptureAppliedNow(on) ==
  session' = IF Live THEN [session EXCEPT !.sink = on] ELSE session
CaptureApplied(on) ==
  session' = IF Live /\ debugEntries = 0 THEN [session EXCEPT !.sink = on] ELSE session

SetsCapture(t) ==
  /\ InHost(t)
  /\ capture' = ~capture
  /\ CaptureApplied(~capture)
  /\ running' = IF running.who = "base" /\ next = NoSession
                THEN [running EXCEPT !.sink = session'.sink] ELSE running
  /\ UNCHANGED <<entered, calls, next, debugEntries, generation, interrupt, direct, evals, made,
                 blamed, struck>>

(* The evaluation that runs now, 0 when none does. *)
Current == IF \E t \in Threads, i \in 1 .. MaxNest:
                i <= Len(calls[t]) /\ calls[t][i].op = "eval" /\ calls[t][i].at \in {"run", "drain"}
           THEN evals ELSE 0

RequestsInterrupt(t) ==
  /\ InHost(t) /\ Live
  /\ interrupt' = [on |-> TRUE, raised |-> Current]
  /\ UNCHANGED <<entered, calls, session, next, running, capture, debugEntries, generation,
                 direct, evals, made, blamed, struck>>

NoRequest == [on |-> FALSE, raised |-> 0]

ClearInterrupt == interrupt' = NoRequest

StartsAsked == UNCHANGED interrupt

(* sessionEval: a request made before is not carried into this evaluation. *)
StartsUnasked == ClearInterrupt

-------------------------------------------------------------------------------
\* Boot, shutdown, load

(* The bootstrap's Dictionary class>>new is a native: nothing calls the host
   before the workspace is there.  When it aborts the session captures it
   before it is dropped. *)
Boots(t) ==
  /\ At(t, "boot", "begin") /\ Goes(t, "done")
  /\ \/ /\ Live /\ UNCHANGED <<session, made, generation>>
     \/ /\ ~Live /\ made < MaxMade /\ session' = NewSession /\ made' = made + 1
        /\ UNCHANGED generation
     \/ /\ ~Live /\ UNCHANGED <<session, made>> /\ capture /\ Bumped
  /\ UNCHANGED <<entered, next, running, capture, debugEntries, interrupt, direct, evals, blamed, struck>>

Cleared(s) == [s EXCEPT !.snap = "empty"]

ShutsDown(t) ==
  /\ At(t, "shutdown", "begin") /\ Goes(t, "done")
  /\ session' = NoSession /\ blamed' = FALSE
  /\ IF Live THEN Bumped ELSE UNCHANGED generation
  /\ UNCHANGED <<entered, next, running, capture, debugEntries, interrupt, direct, evals, made, struck>>

(* The new session's workspace and its probes are Smalltalk code of the image. *)
LoadBegins(t) ==
  /\ At(t, "load", "begin")
  /\ \/ /\ Goes(t, "done") /\ UNCHANGED <<next, running, made>>
     \/ /\ Live /\ made < MaxMade /\ Goes(t, "run")
        /\ next' = NewSession /\ made' = made + 1 /\ running' = Base(NewSession)
  /\ UNCHANGED <<entered, session, capture, debugEntries, generation, interrupt, direct, evals,
                 blamed, struck>>

(* The swap comes only after the probes passed; nothing calls the host from
   there to the clear. *)
LoadEnds(t) ==
  /\ At(t, "load", "run") /\ Goes(t, "done")
  /\ \/ UNCHANGED <<session, generation, blamed>>
     \/ session' = Cleared(next) /\ blamed' = FALSE /\ Bumped
  /\ next' = NoSession /\ running' = Idle
  /\ UNCHANGED <<entered, capture, debugEntries, interrupt, direct, evals, made, struck>>

-------------------------------------------------------------------------------
\* Evaluations, and the resumes of halted ones, which start alike

EvalStarted == [Cleared(session) EXCEPT !.result = 0]

EvalBegins(t) ==
  /\ At(t, "eval", "begin") /\ evals < MaxEvals
  /\ evals' = evals + 1 /\ StartsUnasked
  /\ IF Live
     THEN /\ session' = EvalStarted /\ blamed' = FALSE /\ Bumped
          /\ \/ Goes(t, "done") /\ UNCHANGED running            \* a compile error
             \/ /\ Goes(t, "run")                               \* post-mortem, or live
                /\ running' \in {Base(session), Switched("eval")}
     ELSE Goes(t, "done") /\ UNCHANGED <<session, blamed, generation, running>>
  /\ UNCHANGED <<entered, next, capture, debugEntries, direct, made, struck>>

(* The scheduler lets another process run while the base, or the evaluating
   process, waits; in the drain only others run. *)
Switches(t) ==
  /\ next = NoSession
  /\ \/ /\ At(t, "eval", "drain") /\ running' = Switched("other")
     \/ /\ At(t, "eval", "run") /\ running.who \in {"eval", "other"}
        /\ running' \in {Switched("eval"), Switched("other")}
     \/ /\ Top(t).op \in {"print", "filein"} /\ Top(t).at = "run"
        /\ running' \in {Base(session), Switched("other")}
  /\ running' # running
  /\ UNCHANGED <<entered, calls, session, next, capture, debugEntries, generation, interrupt,
                 direct, evals, made, blamed, struck>>

(* checkInterrupt: only the evaluating process, in live mode, takes the request. *)
TakesRequest == running.who = "eval"

Interrupted(t) ==
  /\ At(t, "eval", "run") /\ interrupt.on /\ TakesRequest
  /\ ClearInterrupt /\ struck' = struck \union {<<interrupt.raised, evals>>}
  /\ Goes(t, "drain") /\ running' = Idle
  /\ UNCHANGED <<entered, session, next, capture, debugEntries, generation, direct, evals, made, blamed>>

(* The evaluation ended, by its value, an abort or a halt: the drain runs. *)
EvalDrains(t) ==
  /\ At(t, "eval", "run") /\ running.who \in {"base", "eval"}
  /\ Goes(t, "drain") /\ running' = Idle
  /\ UNCHANGED <<entered, session, next, capture, debugEntries, generation, interrupt, direct,
                 evals, made, blamed, struck>>

(* finishEval after the drain: only AO_OK and AO_ERR_RANGE put a result in. *)
EvalEnds(t) ==
  /\ At(t, "eval", "drain") /\ Goes(t, "done")
  /\ ClearInterrupt /\ running' = Idle
  /\ \E r \in {session.result, evals, -evals}: session' = [session EXCEPT !.result = r]
  /\ UNCHANGED <<entered, next, capture, debugEntries, generation, direct, evals, made, blamed, struck>>

-------------------------------------------------------------------------------
\* The debugger's prints, file-ins and accepts, the clear

DebugFree == [session EXCEPT !.sink = FALSE]

PrintBegins(t) ==
  /\ At(t, "print", "begin")
  /\ IF Live THEN /\ session' = DebugFree /\ debugEntries' = debugEntries + 1
                  /\ running' = Base(session') /\ Goes(t, "run")
             ELSE Goes(t, "done") /\ UNCHANGED <<session, debugEntries, running>>
  /\ UNCHANGED <<entered, next, capture, generation, interrupt, direct, evals, made, blamed, struck>>

EndDebugFree ==
  /\ debugEntries' = debugEntries - 1
  /\ session' = IF debugEntries' = 0 THEN [session EXCEPT !.sink = capture] ELSE session

PrintEnds(t) ==
  /\ At(t, "print", "run") /\ Goes(t, "done") /\ running' = Idle
  /\ EndDebugFree
  /\ UNCHANGED <<entered, next, capture, generation, interrupt, direct, evals, made, blamed, struck>>

FileInRuns(t) ==
  /\ \/ /\ At(t, "filein", "begin")
        /\ IF Live THEN Goes(t, "run") /\ running' = Base(session)
                   ELSE Goes(t, "done") /\ UNCHANGED running
     \/ At(t, "filein", "run") /\ Goes(t, "done") /\ running' = Idle
  /\ UNCHANGED <<entered, session, next, capture, debugEntries, generation, interrupt, direct,
                 evals, made, blamed, struck>>

Clears(t) ==
  /\ At(t, "clear", "begin") /\ Goes(t, "done")
  /\ IF Live THEN session' = Cleared(session) /\ blamed' = FALSE /\ Bumped
             ELSE UNCHANGED <<session, blamed, generation>>
  /\ UNCHANGED <<entered, next, running, capture, debugEntries, interrupt, direct, evals, made, struck>>

-------------------------------------------------------------------------------
\* Failures

(* onAbort ignores a session that is not the current one. *)
Captures == next = NoSession

(* The base's failure and the evaluating process's replace the snapshot; another
   process's only fills it. *)
Own      == running.who \in {"base", "eval"}
Replaces == Own \/ session.snap = "empty"

Aborts(t) ==
  /\ Top(t).at \in {"run", "drain"} /\ running.sink
  /\ IF Captures
     THEN /\ Replaces
          /\ session' = [session EXCEPT !.snap = IF Own THEN "own" ELSE "other"]
          /\ blamed' = (blamed \/ Own)
     ELSE UNCHANGED <<session, blamed>>
  /\ IF Captures THEN Bumped ELSE UNCHANGED generation
  /\ UNCHANGED <<entered, calls, next, running, capture, debugEntries, interrupt, direct, evals,
                 made, struck>>

(* A hook throws: guarded() ends the call, after the destructors of its frames. *)
Throws(t) ==
  /\ Top(t).at \in {"run", "drain"}
  /\ Goes(t, "done") /\ running' = Idle /\ next' = NoSession
  /\ IF Top(t).op = "print" THEN EndDebugFree ELSE UNCHANGED <<session, debugEntries>>
  /\ UNCHANGED <<entered, capture, generation, interrupt, direct, evals, made, blamed, struck>>

-------------------------------------------------------------------------------
Init ==
  /\ entered = 0 /\ calls = [t \in Threads |-> <<>>]
  /\ session = NoSession /\ next = NoSession /\ running = Idle
  /\ capture = FALSE /\ debugEntries = 0 /\ generation = 0
  /\ interrupt = NoRequest /\ direct = FALSE
  /\ evals = 0 /\ made = 0 /\ blamed = FALSE /\ struck = {}

Thread(t) ==
  \/ \E op \in Ops: Enters(t, op)
  \/ TestsBusy(t) \/ Returns(t)
  \/ SetsCapture(t) \/ RequestsInterrupt(t)
  \/ Boots(t) \/ ShutsDown(t) \/ LoadBegins(t) \/ LoadEnds(t)
  \/ EvalBegins(t) \/ Switches(t) \/ Interrupted(t) \/ EvalDrains(t) \/ EvalEnds(t)
  \/ PrintBegins(t) \/ PrintEnds(t) \/ FileInRuns(t) \/ Clears(t)
  \/ Aborts(t) \/ Throws(t)

Next == SendsDirectly \/ \E t \in Threads: Thread(t)

Spec == Init /\ [][Next]_vars

-------------------------------------------------------------------------------
\* Properties

TypeOK ==
  /\ entered \in {0, 1} /\ generation \in 0 .. MaxGen /\ debugEntries \in 0 .. MaxNest
  /\ \A t \in Threads: \A i \in 1 .. Len(calls[t]): calls[t][i].op \in Ops
  /\ {session.snap, next.snap} \subseteq {"empty", "own", "other"}
  /\ session.result \in -MaxEvals .. MaxEvals
  /\ running.who \in {"none", "base", "eval", "other"} /\ running.sink \in BOOLEAN

Holders == {h \in Threads \X (1 .. MaxNest):
              /\ h[2] <= Len(calls[h[1]])
              /\ calls[h[1]][h[2]].at \in {"begin", "run", "drain", "done"}}

(* abi.cpp AbiEntry: of the calls inside one another, and of two threads' calls,
   at most one is past the busy test, and none while the host itself sends. *)
OneInside == Cardinality(Holders) + (IF direct THEN 1 ELSE 0) <= 1

(* abi.cpp "a refused call leaves it as it found it": the mark is set exactly
   while some call holds the entry, so no refusal opens it or leaves it shut. *)
EntryHeld == entered = 1 <=> \/ Holders # {}
                             \/ \E t \in Threads: Top(t).at = "taken"

(* SPEC 3.10: evalResult is the last evaluation's or empty, and empty for as long
   as one runs, also when that one is cut short by an exception. *)
ResultIsLast == session.result # 0 => session.result \in {evals, -evals} /\ Current = 0

Snap == session.snap

(* ao_debug_generation: while its number stays, what the snapshot reads is the
   same, over clears, captures, loads, shutdowns and boots. *)
GenerationTells == [][generation' = generation => Snap' = Snap]_vars

(* sessionImageLoad: until the new session replaces it, the current one keeps
   its snapshot, its generation and its result, whatever the probes do. *)
LoadAllOrNothing ==
  [][next # NoSession =>
       \/ session'.id = next.id
       \/ generation' = generation /\ [session' EXCEPT !.sink = session.sink] = session]_vars

(* Session::onAbort: a background process's failure never hides the entry's own. *)
OwnFailureShown == session.snap = "other" => ~blamed

(* DebugEntry: no print and no inspect of the debugger replaces what it shows,
   even when a hook of its own turns capture on meanwhile. *)
PrintsKeepSnapshot == [][debugEntries > 0 => Snap' = Snap]_vars

(* SPEC 3.10: an interrupt request halts only the evaluation it was made in; it
   is neither carried into the next one nor left by one a hook's exception ended. *)
InterruptsOwn == \A p \in struck: p[1] = p[2]

(* abi.cpp "gives it to this session and every later one (boot, load)": outside
   the prints the current session captures exactly when the setting says so. *)
SinkFollowsSetting == Live /\ debugEntries = 0 => session.sink = capture

(* SPEC 3.10 "while disabled nothing is captured". *)
NothingCapturedWhileOff == [][~capture => Snap' \in {Snap, "empty"}]_vars

(* The entries exclude one another, and what they answer is the last evaluation's. *)
EntriesSound == TypeOK /\ OneInside /\ EntryHeld /\ ResultIsLast /\ OwnFailureShown

(* What a debugger window read stays true until the generation says otherwise. *)
SnapshotKept == GenerationTells /\ LoadAllOrNothing /\ PrintsKeepSnapshot

===============================================================================
