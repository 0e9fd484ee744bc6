# A verification of Ao Smalltalk

Ao Smalltalk is a Smalltalk-80 system in C++ (compiler, object memory, bytecode
interpreter, processes, images) with a C ABI (`bridge/ao_abi.h`) under a macOS app.
`SPEC.md` is its authority. This directory holds TLA+ models of the parts whose
correctness depends on the order in which things happen, the TLC configurations that
check them on small instances, and TLAPS proofs about them for every instance.

Paths below are relative to the repository's `runtime/src` unless they name another
directory.

## The system

| component | state | operations | how it meets the others |
|---|---|---|---|
| Scheduler (`Scheduler.cpp`, natives in `kernel/Process.cpp`) | process records, the ready queue and its Smalltalk mirror `quiescentProcesses`, `linkedList` and `excessSignals` of Semaphores, contents of SharedQueues, the awaited evaluation | fork, yield, wait, signal, suspend, resume, terminate, nextPut:, next; halt, proceed, abortHalted; awaitEval, drain, terminateAll | natives of the Kernel send its operations; the session drives it from the base process; every switch moves the heap's out-of-memory mark and the LIFO roots |
| Fibers (`Fiber.cpp`) | a stack and registers for each process | init, switch, final switch, release | the scheduler only |
| Unwinding (`Send.cpp`, `kernel/BlockContext.cpp`, `Interpreter.cpp`) | per process: aborting and its reason, a `^` in flight and its home, a restart and its frame | abort, `^`, restart, `ensure:`, `ifCurtailed:`, clearUnwinding | aborts come from errors, from the scheduler (terminate, deadlock, abandon) and from the debugger (restart) |
| Session and ABI (`Session.cpp`, `abi.cpp`) | the one session, busy flag, evaluation result, debug mode, interrupt flag, failure snapshot, generation | boot, shutdown, eval, proceed, step, restart, accept, abort, save, load, file-in | the app calls it, hooks call back while it runs |
| Debugger (`DebugSnapshot.cpp`, `Session.cpp`) | rows of a halted process, step modes, an accept in progress, the doIts kept | capture, frames, proceed, step, restart, accept | captures from onAbort; reads halted fibers |
| Object memory (`Heap.cpp`, `Gc.cpp`, `HandleScope.cpp`, `VirtualRegion.cpp`) | nursery semispaces, old space, thresholds, holes, the out-of-memory mark | allocate, scavenge with promotion, mark-compact around immovable objects, weak slots | every allocation of every other part may collect and move objects |
| Roots (`Roots.cpp`) | LIFO roots per process, pinned ranges, handles, inline caches | add, remove, pin, switchStack | the scheduler parks and activates a process's roots |
| Lookup and classes (`Lookup.cpp`, `Send.cpp`, `Compile.cpp`, `ClassPool.cpp`, `Globals.cpp`) | classes, method dictionaries, the class/selector cache, IDs, method sources | lookup, install, remove, define, reshape, remove a class | accept and file-in install; every send reads |
| Hashed collections (`HashedCollection.cpp`, `kernel/Dictionary.cpp`) | open-addressing tables with a tally and a generation | lookup (with a user's `=` between probes), put, remove with backward shift, grow | Smalltalk code |
| Image (`ImageSave.cpp`, `ImageLoad.cpp`, `ImageFormat.cpp`) | the file, and a session built beside the current one | save (temporary file, fsync, rename), load (build, probe, swap) | session; refused while a process is halted |
| Compiler (`compiler/src/Codegen.cpp`) and interpreter (`Interpreter.cpp`) | none between calls; activations | analysis, layout, emission; the bytecodes | eval, accept, file-in |
| Change sets, Kernel natives, test runner, vendor extraction, command line, app | logs, data, files, windows | | clients of the above |

What makes the system hard to test is that control moves only at a few operations, but
what it finds there multiplies: a process that was terminated, suspended, aborted by a
deadlock or halted meanwhile; a hook that calls the ABI again; a collection inside any
allocation; a user's `=` between two probes; a crash between two system calls.
`PROJECT.json` lists these places under "hazards", each at its line with the properties
that watch it.

## Modules

| module | models |
|---|---|
| `ProcessTable` | `Scheduler::Record`, the queues and lists, and the helpers of `Scheduler.cpp`, each as an operator from the scheduler's state to the state after the call |
| `Scheduler` | the operations, the body of a fiber, and the loops the base runs for the host |
| `Session` | the ABI's entry and its busy test, and what the session keeps between entries |
| `Unwind`, `Evaluation` | one process's activations, cleanups, aborts, returns and restarts; what an evaluation promises about aborts |
| `Debugger` | rows, steps, restart and accept of halted evaluations |
| `Compaction` | the full collection of the old space, word by word |
| `Scavenge`, `ObjectMemory` | allocation, nursery, promotion, limits and roots; a memory that never moves anything |
| `HashTable`, `PartialMap` | probing, growth, removal, re-entrance; what a Dictionary or Set promises |
| `Classes` | lookup and its cache, methods, definitions, changes of shape, names, IDs, sources |
| `Codegen`, `Interpreter`, `SmalltalkMeaning` | the code generator, the loop that runs its code, and what the source means |
| `Image` | trace, save, check and load of an image |
| `ImageFile`, `AtomicFile` | how the bytes replace the file; a file that changes at one instant |
| `MC*` | the constants of the configurations; `MCExecution`, `MCSave` and `MCTables` put components together that never act together, `Classes` four times over, a behaviour being of one of them |
| `SchedulerProofs`, `AnswersProofs` | the scheduler's invariants and theorems, the second module on the first |
| other `*Proofs` | the inductive invariants and the theorems of the component in the name |

### Scheduler

The scheduler is cooperative and runs on one thread, so a step of the model is one
operation up to the point where it switches. The C++ stack of a process is reduced to
where it stands (`vm.frame`): not started, in Smalltalk code, inside an operation that
returns when it is switched to, or inside `next`, which looks at the queue again. What
`afterResume` and the rest of the operation do when control comes back is the action
`Resumes`; `runFiber` is `Begins` and `Ends`.

`vm.state`, `resumeTo`, `awaiting`, `condemned`, `terminated`, `abandoned`,
`deadlocked`, `evals`, `marked`, `waitingOn` and `signaledBy` are the fields of
`Scheduler::Record` (awaitingTerminate, terminateRequested, abandon, deadlockPending,
isEval and outOfMemory become sets of processes). `ready` is `ready_`;
`quiescent`, `myList`, `linkedList`, `excess` and `contents` are the Smalltalk objects
kept in step with it. A pid is used once, as in the code, and pids order the records.

The Smalltalk program is arbitrary: the running process performs any operation in
`CodeOps`, on any process it could name, and while it unwinds any operation in
`CleanupOps`. An error in the code is the operation `trouble`: it halts a live
evaluation that may halt and aborts anything else. An allocation may fail wherever the
code allocates (`OutOfMemory`), and leaves exactly what the code has done by then. A
failing `enqueue` has pushed to `ready_` by then, and takes it back (`Pushed`,
`PoppedBack`, `EnqueueFails`), whichever operation it is called from.

The base process runs the host's calls. `host.at` is where the call stands: `eval`
(Smalltalk runs on the base), `await` (awaitEval), `drain`, `terminate` (a pass of
terminateAll), `abandon` (abandonAll). The entries are `eval` (an ao_eval without the
live debugger, then its drain), `live` (an ao_eval of the live debugger), `debug`
(Proceed, Step, Restart and Accept of a halted process, and its Abort), `test` (a file
of `ao --test`), `send` (the debugger's and the change set's sends to the image) and
`close` (shutdown and the end of a replaced session).

### Session

Each thread has a stack of ABI calls; a call is refused at the compare-exchange of
`AbiEntry`, or taken, tested for a busy interpreter, and then works. Settings and reads
need no entry and may come from a hook at any moment. `running` is the process that
runs, with the capture sink its context took at the switch to it; `snap` is the failure
snapshot and `generation` what `ao_debug_generation` answers. `blamed` and `struck`
are history.

### Unwinding and the debugger

`Unwind` has the activations of one evaluation as a sequence. `ctl` says whether the
last one runs, a native is about to call its block, or an answer arrives; `ctx` is
CallContext's part in unwinding. The program is arbitrary again. `Evaluation` says what
is promised: the abort that began first ends the evaluation with its reason.

`Debugger` has whole frames of several halted evaluations, rows as a window read them,
and the code between two host calls as arbitrary instructions of the chain. The Browser
accepts and removes methods between any two of the host's calls (`Edits`), whatever
windows are open.

### Memory

`Compaction` shares nothing with the scheduler: a collection runs inside one
allocation, while no process moves. The old space is a function from word addresses to
words, so that an overlapping move can destroy something; an object is its header of
two words and its payload. Each loop of `collectOld` is an action per turn or, where
the order of the turns cannot matter, one action. `Release` stands for the program
between two collections. `was` and `held` are ghosts. Every caller of `collectOld` has
just run a scavenge, so a collection may assume that all of the nursery is reachable
(`Scavenged`).

`Scavenge` is the layer above: objects at addresses with a size in words, the trace of
a scavenge one object at a time, promotion that may fail, the retry of
`HandleScope.cpp`, weak slots, and the roots of several processes; a full collection is
one step of it. Its counters are kept as what the code compares. It implements
`ObjectMemory`, in which objects have identities and never move.

### Collections, classes, code, images

`HashTable` has entries in an array with an identity and a generation, and callers that
stand between two probes while a user's `=` runs others. `Classes` runs one handler
after another. `Codegen` works on the syntax tree; a node is named by its path, and its
output is the list of instructions with their patched jumps, which `Interpreter` runs;
`SmalltalkMeaning` evaluates the tree itself. `Image` has a heap small enough to lay
out, trace and damage word by word. `ImageFile` has directory, page cache and disk
apart, any number of savers, and a kill or power loss at any point.

## Runs

| run | question | distinct states |
|---|---|---|
| `processes` | Are the lists, pointers, waiters and answers exact for any program of a base and three forked processes under any host calls? | 582,473 |
| `queue` | Does a SharedQueue lose a signal or a claim, a mark move to another process, or a waiter sleep beside a signal, or the two ready queues part, with failures, halts, terminates and failing allocations? | 683,888 |
| `calls_return` | Does every call of the host return, and every terminate come back to its sender? | 53,761 |
| `compaction` | Does a full collection keep every object, reference and pin, and lose exactly what it must? | 983,219 |
| `scavenge` | Do allocations near the limits keep what the program can reach? | 506,565 |
| `session` | Does one call at a time get in, and do results, interrupts and snapshots belong to it? | 1,205,840 |
| `execution` | Does compiled code mean its source; do cleanups, aborts, returns and restarts arrive; do halts end as asked, and do windows keep what they show? | 908,559 |
| `tables` | Does every entry of a hashed table stay reachable, and every answer agree with a map; does a send find what is installed; are IDs, names and shapes exact; are changes whole? | 563,314 |
| `save` | Does a saved program load as it was, in another build too; is the file always whole? | 339,408 |
| `lost_claim` | Is an element always claimed, when readers are suspended? | violated |
| `image_pairs` | Does every image that was saved load? | violated |
| `rows_stale` | Does a button pressed on a row act on the activation the row shows? | violated |

All passing runs hold.

### Bounds

- `processes`, `queue`, `calls_return`: two or three processes besides the base. Every
  relation in the code involves at most three processes (one that terminates, one
  terminated, one that waits for the first). `MaxFibers` 2 (256 in the code),
  `MaxHalted` 1 (8), `MaxExcess` 1 (the largest SmallInteger) are only compared with a
  count: small limits meet the same branches. `DrainRounds` 1 (1000) reaches both
  ends of the loops. Two elements with two readers are the smallest case in which a
  reader takes an element another was signalled for. Two failing allocations let a
  process fail while another carries its mark, and an `enqueue` fail in a fork, a
  yield, a signal, a terminate, a nextPut: and the base's loops (in `queue`; the other
  two have none). The one of `resume`, which `queue` leaves out since nothing is
  suspended there, and of terminateAll are in the theorem `QueueIsExact`. `Strangers` is a Process of a loaded
  image in front of a waiter.
- `compaction`: every row of four old objects, each without a slot, with one, or
  immovable with one, and every chain of references up or down the space from one root
  that ends or turns back; and two old objects (plain, weak or bytes, with classes) and
  one of the nursery with every assignment of references.
- `scavenge`: three heaps: weak objects with an old space of one word; two processes,
  a handle and classes; large objects and an old space of one object and a bit. `ScavengeAssumption` asks for a
  first old space of two halves, as in the product (1 MiB and 4 MiB), or one that cannot
  grow, as in these heaps.
- `session`: two threads, two calls inside one another (a third can never get further
  than the second: see the proof of `Nesting`), two evaluations, two sessions, three
  generations.
- `execution`: the programs of `MCExecution` (two statements from the interesting ones
  inside each expanded and real form, every condition and loop, cascades, assignments
  to every kind of name); five activations with a reserve of two, two errors and a
  restart; two evaluations of three frames, with three activations in all and two methods
  accepted on top of the one there is, in the Browser or the debugger.
- `tables`, hashed: two equal keys, one of their hash, and a neighbour around the end of the
  array; two callers. Each kind of collection gets three writes; an IdentityDictionary
  four, of which one may be of its tally, so that a table fills up and is removed from
  while full.
- `tables`, classes, in four parts: sends along a chain; names and IDs; shapes and
  classPools, with sources that read an instance variable; and with a `subclass:` of the
  user's that may answer anything, with sources that read a class variable.
- `save`: three kinds of programs (weak slots and natives near the limit of the old
  space; classes, instances and sources; files with a word changed), six operations at
  most, two orders of natives; two savers, two temporary names, two blocks and one power
  loss.

Symmetry is used where names are interchangeable: threads of `session`, callers of
`tables`. Deadlock is not checked where the bounds end the behaviours.

### Fairness

`calls_return` uses `FairSpec`. Weak fairness on the machine's steps says that the one
thread keeps executing. Weak fairness on the host's loops says the same of the base's
C++ loops: they are enabled exactly while the base is in a call and runs. Strong
fairness on the end of each process's body says that its Smalltalk code is finite: a
body that runs again and again reaches its end. Without it a program that loops for
ever keeps awaitEval from returning, as it does in the code. Nothing is assumed of
programs that wait, suspend themselves or halt: the code's deadlock rules must and do
get the base back from those. No other run needs fairness.

## What the code does not keep

Three runs show it, each with the shortest history TLC found.

1. `lost_claim` (`Scheduler.cpp:1203`). A reader that was signalled, then suspended,
   then switched to only to be aborted with the deadlock drops its signal: only
   `terminate` gives it back. The element stays while readSynch is zero, so the
   comment at `kernel/Process.cpp:154` does not hold.
2. `image_pairs` (`ImageLoad.cpp:872`). A save checks its bytes with the load's own
   checks, but not the fixed globals: a program that changes one through Smalltalk's
   array saves an image no runtime loads, against `include/ao/Image.hpp:36`.
3. `rows_stale` (`DebugSnapshot.cpp:246`). Whether a halted process's failed send has a
   row of its own is decided at every read, by looking its selector up again, but the
   window reads its rows when it opens and at the next halt. Once the Browser has
   accepted a method for that selector, the top row, which cannot be restarted, restarts
   the sender, and every other row the activation further out, against `SPEC.md:1824`.
   `WindowKept` is what holds: the rows act on what they show whenever the send is
   synthesized, or not, as when they were read (`RowsStand`), and the doIt's source stays.

Six more are violations of properties under constants that no run uses; of them only
`AwaiterReturns` is also checked by a passing run and proved, for cleanups that neither
terminate nor suspend:

- `HaltAnswered` (`Session.cpp:1376`): the base's own out-of-memory mark, from a yield
  inside awaitEval, makes finishEval answer AO_ERR_EVAL for an evaluation that halted,
  against `bridge/ao_abi.h:236`.
- `SinkFollowsSetting` (`Session.cpp:384`): a hook of a load's probes that sets the
  capture leaves the loaded session with the old setting, against `abi.cpp:267`.
- `NothingCapturedWhileOff` (`Session.cpp:385`): a live evaluation whose hook turns
  capture off is still captured, against `SPEC.md:1504`.
- `AwaiterReturns` with `terminate` in `CleanupOps` (`Scheduler.cpp:794`): a terminate
  of a process another one waits for takes the earlier waiter's pointer away, against
  `SPEC.md:363`. With `suspend` there a cleanup can take away the process it returns to.
- `SourcesInstalled` with `Chunks` (`Compile.cpp:412`) and `NativesKept` with
  `Overrides` (`Compile.cpp:1160`): a methodsFor: chunk leaves the source of the method
  it replaces; a reshape into a Kernel class hides its natives, against `SPEC.md:1389`
  and the comment at `Compile.cpp:217`.

## Proofs

TLAPS checks the theorems for every value of the constants that satisfies the named
assumptions of the module proved about (at least one process, finite limits, and the
like). Each is the invariance of an inductive formula that says why the property holds;
TLC checked each of those formulas on small instances before it was proved.

**The scheduler.** Each invariant on the one before.

- `SchedulerProofs` (`TypeCorrect`, `QueueIsExact`, `OneProcessRuns`), first part:
  `IInv == TypeOK /\ Sound(vm) /\ AwaitsFiber`. `Sound` says that the ready queue is
  exact, that who waits, for a Semaphore or a process, waits for one thing, and that only
  `current` runs. What each helper of `Scheduler.cpp` does to the table is a lemma.
  `PopsBack` shows that an `enqueue` that fails leaves every field as it was, and the
  lemmas `ForkIs` to `TerminateNextIs` what that makes of the operations that call it.
- `SchedulerProofs`, second part (`WaitersAreExact`, `NothingDangles`,
  `NoneWaitsBesideASignal`, `HaltedStaysHalted`): `IPlaces` adds `Places == Listed /\ Pointed /\ Ranked`: a list
  holds who waits in it; a pointer leads to a process that waits for one to return, and no
  two to the same; the base never ends nor halts, and what halted had begun.
- `AnswersProofs` (`HostIsAnswered`, `MarksAreOwn`, `SignalsAreKept`,
  `ElementsAreClaimed`): `IAnswers` adds `Whole /\ Owes /\ Calm /\ Bounded`. `Whole` is
  about the processes: only the one that runs is in its code or has an unwinding to do
  (`Settles`), whoever a signal took out of its wait is on its way back to that wait
  (`Signaled`), halts are of evaluations (`HaltsEval`), marks are of processes that failed
  to allocate (`Marked`), and, while nothing suspends or abandons, elements are claimed
  (`Claimed`). `Owes`, `Calm` and `Bounded` are about the host's loops: what awaitEval
  still has to answer, that the base is at rest between two calls, and the limits.
  `SignalsAreKept` assumes that no program suspends, and `ElementsAreClaimed` also that
  the host abandons no process, as in `MCQueue.cfg`:
  `lost_claim` is what happens with suspend, and abandonAll drops signals on purpose.
- `AwaitersReturn`, in the same module: `IReturns` adds `Linked`, who switched to whom:
  a pointer is held by the running process or by one that waits itself; each waiter is
  pointed at by a live process; behind a process that unwinds only the base waits, and
  while the running process does not unwind only the base is waited for. The hypothesis
  (no `terminate` and no `suspend` in a cleanup) is needed: with either TLC finds a
  violation, with `suspend` from three processes on. `MCLive.cfg` satisfies it.

**The full collection.** `CompactionProofs` follows one collection.

- `CollectionTyped`, `PlanIsSound`, `MovesDestroyNothing`, `HeapIsKept`: `MarkInv`,
  `PlanInv` and `MoveInv` say what has been marked, planned and moved so far: addresses
  planned never run into one another or past the scan, immovable objects keep theirs, and
  the objects still to be moved lie above everything written.
- `GraphIsKept`: `GInv` relates the heap under the collection to `was`, the heap it began
  with. Marking reaches only what the program can (`Exact`), and at its end all of it
  (`MarkComplete`); after the weak slots are cleared, the marked objects are as they were
  found but for the slots cleared (`Sifted`), then for references replaced by the planned
  addresses (`Forwarded`); moves and fillers carry that to the end (`Filled`).

**The session.** `SessionProofs` (`Entries`, `Interrupts`, `Kept`). The invariant says
what each call on each thread's stack knows of the entry, the evaluation and the snapshot.
The lemma `Nesting` shows that a thread is never more than two calls deep, so `MaxNest` 2
loses nothing.

**The image file.** `ImageFileProofs` (`FileIsWhole`, `FileIsReplaced`):
`IInv == Types /\ Directory /\ Saving /\ Own /\ Reading`. `Directory` holds for every
prefix of the directory's changes, since a loss of power may keep any: each names a file
that was synced, or a link where a link was. `FileIsReplaced` is the refinement of
`AtomicFile`, step by step.

**Unwinding.** `UnwindProofs` (`FieldsAgree`, `WaysOutArrive`, `EndsWithFirstAbort`):
`IInv == Types /\ Layers /\ Control /\ Armed /\ HandlesAre /\ HandlesDiffer /\
HandlesApart /\ FirstAbort`. `Layers` says what lies beneath each kind of activation,
`Control` what CallContext's fields must be while the last one runs, `Armed` that a
restart's target is on the stack, the next three that the handles are those of the abort
in flight and of the ones set aside, each of another, and `FirstAbort` that while none is
under way there was none.
`EndsWithFirstAbort` is the refinement of `Evaluation`. It assumes a reserve of at least
one activation, as the code has: a cleanup that finds no room has another beneath it.

**The debugger.** `DebuggerProofs` (`WindowsAreKept`, `HaltsAreAnswered`): a
conjunct for each process (its frames and doIt agree), who is marked for a step, what an
accept records, and the window: its rows are the process's frames with or without a
synthesized one (`Window`). Both hold whatever the Browser edits meanwhile; that the
rows stand without the condition of `RowsStand` is what `rows_stale` refutes.

**Hashed collections.** `HashTableProofs` (`TableIsSound`, `IsAMap`):
`IInv == Typed /\ Sound(table) /\ TallyCounts /\ CallsFit`.

- `Sound` says that a probe for any stored entry passes taken entries only (`Near`), that
  no two stored keys are equal (`Apart`), and that what is stored was put there. `CallsFit`
  says what a caller that waits for a user's `=`, or stands in a `do:`, may still believe
  if array and generation are the ones it saw: nothing it probed equals its key
  (`AsksAt`), nothing it passed is missing from what it visited (`HasVisited`).
- `Removal`: the backward shift ends, since every move brings an entry nearer its home and
  every other turn comes nearer the hole (`Cost`), and leaves a table that reads the same
  entries less one (`Shifting`, `ShiftLeaves`).
- `Growth`: by induction over the entries up to the capacity, the new array reads exactly
  those re-inserted so far, and has room for the next (`Growing`).
- `IsAMap` is the refinement of `PartialMap`: `MapChanges` says what a put, a removal or an
  overwritten value does to the map, and each step of an operation is one step of the map
  or none.

The loops are proved as recursive functions, with induction written out over sets of
naturals (`UpTo`, `LoopExists`, `LoopKeeps`): the cited facts are about sets, not operators.

**Only model-checked.** Liveness (`CallsReturn`) and ENABLED are outside what TLAPS
proves. `SmalltalkMeaning`, `Codegen` and `Interpreter` are recursive over the syntax
tree, and what they compute needs induction over data, which the installed provers cannot
instantiate. The copies of one trace and the sums of sizes in `Scavenge`, and the trace of
`Image`, are folds too; an induction as written out for `HashTable` has not been made for
them. The properties of these modules (`CompiledMeansSource`, `CodeRuns`,
`RejectsExactly`, `HeapSound`, `ImplementsMemory`, `ProgramKept`, `LoadedRuns`) stay with
TLC, as do those of `Classes`, which `MCTables` instantiates four times
(`InstalledExact`, `ClassesExact`, `ChangesWhole`) and which no proof has been written for.

## Not modelled

Fiber switching in assembly, the byte layout of images and methods, scanning and
parsing, formatting, LargeInteger arithmetic, streams, change sets, vendor extraction,
the command line and the app's windows. C++ exceptions (`std::bad_alloc` from the ready
queue) are not modelled; failures of the Smalltalk heap are, except one that lasts for
ever. Of the modelled parts:

- Compaction: the stress mode; sizes of bytes objects that are no multiple of a word.
- Scavenge: a failing commit of the old space, immovable holes, pinned ranges and the
  stack walker; sizes are in words; a full collection is one step.
- HashTable: a hash is its top bits; empty and damaged shapes; one enumeration at a
  time.
- Classes: a metaclass's chain goes from Object's on to Object only; one row of the
  cache; a source reads one variable; compile errors; a class's slots written in place;
  inline caches, which the product does not use.
- Codegen: source spans, the pc map, limits of 255 on indexes and the byte widths of
  operands. Interpreter: super sends, sends to user methods (Unwind has those).
- Image: one fixed global besides Smalltalk; sizes in words; `ensureKernelNatives` with
  missing natives and `adoptImage`; `MaxDepth` stands for 1024.
- ImageFile: changes of the directory reach the disk in order; one reader at a time;
  permissions are a call that may fail.
- Debugger: what a row prints. Session: the table of class IDs is in Classes.
