------------------------------ MODULE Compaction ------------------------------
(***************************************************************************)
(* The full collection of the old space (Gc::collectOld): mark from the    *)
(* roots through old space and nursery, clear the weak slots whose object  *)
(* died, plan where each live object goes, forward every reference, slide  *)
(* the objects down around the immovable ones, and fill the gaps.  No      *)
(* Smalltalk code runs meanwhile.                                          *)
(*                                                                         *)
(* The old space is a sequence of 8-byte words, so that a move that        *)
(* overlaps what is not moved yet would destroy it.  An object is a header *)
(* of two words (the class; size, flags and hash) and its payload.         *)
(***************************************************************************)
EXTENDS Integers, Sequences, FiniteSets, SequencesExt

CONSTANTS
  OldMax,      \* words of the old space
  MaxYoung,    \* objects in the nursery; a full collection moves none of them
  RootSlots,   \* the registered root slots,
  Registered,  \* and the order in which Roots::visitAll meets them: one may come
               \* twice
  Heaps        \* the heaps a collection may find

Addr  == 0 .. OldMax - 1
Young == OldMax + 1 .. OldMax + MaxYoung
Nil   == -1
Refs  == Addr \cup Young \cup {Nil}

HeaderWords == 2
Flags == {"bytes", "weak", "immovable", "marked"}

\* The first word of a header holds the class (ref), the second size, flags and
\* hash; a word of the payload a reference (ref), or bytes.
Words == [ref : Refs, size : Nat, flags : SUBSET Flags, hash : Nat]

YoungObjects == [klass : Refs, slots : Seq(Refs), weak : BOOLEAN]

Size(m, a)     == HeaderWords + m[a + 1].size
Is(m, a, f)    == f \in m[a + 1].flags
Slots(m, a)    == IF Is(m, a, "bytes") THEN {} ELSE a + HeaderWords .. a + Size(m, a) - 1
RefWords(m, a) == {a} \cup Slots(m, a)

\* The words holding references that keep their object alive.
StrongWords(m, a) == IF Is(m, a, "weak") THEN {a} ELSE RefWords(m, a)

YoungRefs(o)   == {o.klass} \cup ToSet(o.slots)
YoungStrong(o) == IF o.weak THEN {o.klass} ELSE YoungRefs(o)

-----------------------------------------------------------------------------
(* What a heap is.                                                           *)

\* Objects fill the old space from its start to the bump: starts are the addresses
\* the walk over the headers visits.
Parsed(h) ==
  /\ h.bump \in 0 .. OldMax
  /\ h.starts \subseteq 0 .. h.bump - HeaderWords
  /\ 0 \in h.starts \cup {h.bump}
  /\ \A a \in h.starts : a + Size(h.mem, a) \in h.starts \cup {h.bump}
  /\ \A a, b \in h.starts : a < b => a + Size(h.mem, a) <= b

Objects(h) == h.starts \cup Young

\* No object is marked, and every reference names an object.
IsHeap(h) ==
  /\ h.mem \in [Addr -> Words]
  /\ h.roots \in [RootSlots -> Refs]
  /\ h.young \in [Young -> YoungObjects]
  /\ Parsed(h)
  /\ \A a \in h.starts : ~Is(h.mem, a, "marked")
  /\ \A r \in RootSlots : h.roots[r] \in Objects(h) \cup {Nil}
  /\ \A a \in h.starts : \A x \in RefWords(h.mem, a) :
       h.mem[x].ref \in Objects(h) \cup {Nil}
  /\ \A y \in Young : YoungRefs(h.young[y]) \subseteq Objects(h) \cup {Nil}

Strong(h, x) == IF x \in Young THEN YoungStrong(h.young[x])
                ELSE {h.mem[w].ref : w \in StrongWords(h.mem, x)}

\* S holds what the roots name and what its members hold on to.
Closed(h, S) ==
  /\ \A r \in RootSlots : h.roots[r] \in Objects(h) => h.roots[r] \in S
  /\ \A x \in S : Strong(h, x) \cap Objects(h) \subseteq S

\* The objects the program can reach: the least closed set.
Live(h) == {x \in Objects(h) : \A S \in SUBSET Objects(h) : Closed(h, S) => x \in S}

\* Every caller of collectOld has just scavenged, so the nursery holds no garbage.
Scavenged(h) == \A y \in Young, S \in SUBSET Objects(h) : Closed(h, S) => y \in S

ASSUME SpaceAssumption == OldMax \in Nat /\ MaxYoung \in Nat
ASSUME RootsAssumption == Registered \in Seq(RootSlots) /\ ToSet(Registered) = RootSlots
ASSUME HeapsAssumption == \A h \in Heaps : IsHeap(h) /\ Scavenged(h)

-----------------------------------------------------------------------------
VARIABLES
  phase,   \* where collectOld stands
  mem,     \* the old space,
  bump,    \* and oldBump_
  starts,  \* where its objects start
  roots,   \* what the root slots hold
  young,   \* the nursery
  stack,   \* the mark stack
  seen,    \* nurserySeen
  scan,    \* the object the plan looks at
  dest,    \* where the next object goes
  objs,    \* the live objects: where from, where to, and how long
  moved,   \* how many of them are in their place
  was,     \* ghost: the heap the collection found
  held     \* ghost: the old space when the moves began

vars == <<phase, mem, bump, starts, roots, young, stack, seen, scan, dest, objs,
          moved, was, held>>

Phases == {"idle", "mark", "plan", "move", "done"}
Moves  == [from : Addr, to : Addr, size : Nat]

\* The heap as it stands.
Now == [mem |-> mem, bump |-> bump, starts |-> starts, roots |-> roots, young |-> young]

Init ==
  \E h \in Heaps :
    /\ phase = "idle"
    /\ mem = h.mem /\ bump = h.bump /\ starts = h.starts
    /\ roots = h.roots /\ young = h.young
    /\ stack = <<>> /\ seen = {}
    /\ scan = 0 /\ dest = 0 /\ objs = <<>> /\ moved = 0
    /\ was = h
    /\ held = h.mem

-----------------------------------------------------------------------------
(* Marking.                                                                  *)

Collect ==
  /\ phase = "idle"
  /\ phase' = "mark"
  /\ stack' = [i \in DOMAIN Registered |-> roots[Registered[i]]]
  /\ seen' = {}
  /\ UNCHANGED <<mem, bump, starts, roots, young, scan, dest, objs, moved, was, held>>

Top == Last(stack)

\* Mutated form: weak slots are followed like others.
OldPushWeak(a) ==
  IF Is(mem, a, "bytes") THEN <<mem[a].ref>>
  ELSE <<mem[a].ref>> \o [i \in 1 .. mem[a + 1].size |-> mem[a + 1 + i].ref]

\* What marking an old object pushes: its class and, unless it is bytes or weak, its
\* slots.
OldPush(a) ==
  IF Is(mem, a, "bytes") \/ Is(mem, a, "weak") THEN <<mem[a].ref>>
  ELSE <<mem[a].ref>> \o [i \in 1 .. mem[a + 1].size |-> mem[a + 1 + i].ref]

YoungPush(o) == IF o.weak THEN <<o.klass>> ELSE <<o.klass>> \o o.slots

Marking == phase = "mark" /\ stack # <<>>

MarkOld ==
  /\ Marking
  /\ Top \in Addr
  /\ ~Is(mem, Top, "marked")
  /\ mem' = [mem EXCEPT ![Top + 1].flags = @ \cup {"marked"}]
  /\ stack' = Front(stack) \o OldPush(Top)
  /\ UNCHANGED <<phase, bump, starts, roots, young, seen, scan, dest, objs, moved, was, held>>

MarkYoung ==
  /\ Marking
  /\ Top \in Young
  /\ Top \notin seen
  /\ seen' = seen \cup {Top}
  /\ stack' = Front(stack) \o YoungPush(young[Top])
  /\ UNCHANGED <<phase, mem, bump, starts, roots, young, scan, dest, objs, moved, was, held>>

MarkNothing ==
  /\ Marking
  /\ \/ Top = Nil
     \/ Top \in Addr /\ Is(mem, Top, "marked")
     \/ Top \in seen
  /\ stack' = Front(stack)
  /\ UNCHANGED <<phase, mem, bump, starts, roots, young, seen, scan, dest, objs, moved,
                 was, held>>

-----------------------------------------------------------------------------
(* Weak slots.                                                               *)

Marked == {a \in starts : Is(mem, a, "marked")}

Cleared(r) == IF r \in Addr /\ ~Is(mem, r, "marked") THEN Nil ELSE r

WeakSlots == UNION {Slots(mem, a) : a \in {b \in Marked : Is(mem, b, "weak")}}

YoungCleared(o) ==
  IF o.weak THEN [o EXCEPT !.slots = [i \in DOMAIN @ |-> Cleared(@[i])]] ELSE o

ClearWeak ==
  /\ phase = "mark"
  /\ stack = <<>>
  /\ mem' = [x \in Addr |-> IF x \in WeakSlots THEN [mem[x] EXCEPT !.ref = Cleared(@)]
                             ELSE mem[x]]
  /\ young' = [y \in Young |-> YoungCleared(young[y])]
  /\ phase' = "plan"
  /\ scan' = 0 /\ dest' = 0 /\ objs' = <<>> /\ moved' = 0
  /\ UNCHANGED <<bump, starts, roots, stack, seen, was, held>>

-----------------------------------------------------------------------------
(* The plan: one pass over the old space in address order.                   *)

Pins == {a \in Marked : Is(mem, a, "immovable")}

\* n words at d overlap no pin, and leave before the next one either nothing or room
\* for the header of a filler.
Fits(d, n) ==
  /\ \A p \in Pins : d + n <= p \/ p + Size(mem, p) <= d
  /\ \A p \in Pins : (p >= d + n /\ \A q \in Pins : q >= d => p <= q) =>
       p - (d + n) = 0 \/ p - (d + n) >= HeaderWords

\* The search walks from d over the ends of the pins to the first place that fits.
Place(d, n) ==
  CHOOSE e \in {d} \cup {p + Size(mem, p) : p \in Pins} :
    /\ e >= d
    /\ Fits(e, n)
    /\ \A f \in {d} \cup {p + Size(mem, p) : p \in Pins} : f >= d /\ Fits(f, n) => e <= f

Planning == phase = "plan" /\ scan < bump

PlanDead ==
  /\ Planning
  /\ ~Is(mem, scan, "marked")
  /\ scan' = scan + Size(mem, scan)
  /\ UNCHANGED <<phase, mem, bump, starts, roots, young, stack, seen, dest, objs, moved,
                 was, held>>

\* Mutated form: a pin goes to the next free place like any other object.
PinTargetSlid == dest

PinTarget == scan

PlanPin ==
  /\ Planning
  /\ scan \in Pins
  /\ LET n == Size(mem, scan)
     IN /\ objs' = Append(objs, [from |-> scan, to |-> PinTarget, size |-> n])
        /\ dest' = IF dest < scan + n THEN scan + n ELSE dest
        /\ scan' = scan + n
  /\ UNCHANGED <<phase, mem, bump, starts, roots, young, stack, seen, moved, was, held>>

\* Mutated form: the next object goes over the end of this one.
AfterPayload(to, n) == to + n - HeaderWords

\* Mutated form: a word is left between two objects.
AfterPadded(to, n) == to + n + 1

After(to, n) == to + n

PlanMove ==
  /\ Planning
  /\ Is(mem, scan, "marked") /\ ~Is(mem, scan, "immovable")
  /\ LET n == Size(mem, scan)
         to == Place(dest, n)
     IN /\ objs' = Append(objs, [from |-> scan, to |-> to, size |-> n])
        /\ dest' = After(to, n)
        /\ scan' = scan + n
  /\ UNCHANGED <<phase, mem, bump, starts, roots, young, stack, seen, moved, was, held>>

-----------------------------------------------------------------------------
(* Forwarding.                                                               *)

\* Where the object at r goes; a reference to anything else stays as it is.
Forward(r) ==
  IF \E i \in DOMAIN objs : objs[i].from = r
  THEN objs[CHOOSE i \in DOMAIN objs : objs[i].from = r].to
  ELSE r

\* Every registered slot is forwarded once, however often it is registered.
ForwardRoot(r) == Forward(roots[r])

Update ==
  /\ phase = "plan"
  /\ scan = bump
  /\ roots' = [r \in RootSlots |-> ForwardRoot(r)]
  /\ young' = [y \in Young |->
                 [young[y] EXCEPT !.klass = Forward(@),
                                  !.slots = [i \in DOMAIN @ |-> Forward(@[i])]]]
  /\ LET words == UNION {RefWords(mem, a) : a \in Marked}
     IN mem' = [x \in Addr |-> IF x \in words THEN [mem[x] EXCEPT !.ref = Forward(@)]
                               ELSE mem[x]]
  /\ phase' = "move"
  /\ held' = mem'
  /\ UNCHANGED <<bump, starts, stack, seen, scan, dest, objs, moved, was>>

-----------------------------------------------------------------------------
(* Moving, in address order, and filling.                                    *)

Unmarked(w) == [w EXCEPT !.flags = @ \ {"marked"}]

\* The length is read from the header again.
MoveOne ==
  /\ phase = "move"
  /\ moved < Len(objs)
  /\ LET o == objs[moved + 1]
         n == Size(mem, o.from)
     IN mem' = [x \in Addr |->
                 IF x \notin o.to .. o.to + n - 1 THEN mem[x]
                 ELSE IF x = o.to + 1 THEN Unmarked(mem[o.from + 1])
                 ELSE mem[o.from + (x - o.to)]]
  /\ moved' = moved + 1
  /\ UNCHANGED <<phase, bump, starts, roots, young, stack, seen, scan, dest, objs, was,
                 held>>

End(i) == IF i = 0 THEN 0 ELSE objs[i].to + objs[i].size

\* The live ranges are sorted already: the hole before the i-th goes from the end of
\* the one before to its start, and takes a filler when a header fits.
Hole(i)  == objs[i].to - End(i - 1)
Holes    == {i \in DOMAIN objs : Hole(i) >= HeaderWords}
Fillers  == {End(i - 1) : i \in Holes}
Filler(a) == CHOOSE i \in Holes : End(i - 1) = a

\* Mutated form: the filler's header is not taken off its size.
FillerSizeWhole(i) == Hole(i)

FillerSize(i) == Hole(i) - HeaderWords

Fill ==
  /\ phase = "move"
  /\ moved = Len(objs)
  /\ mem' = [x \in Addr |->
              IF x \in Fillers THEN [mem[x] EXCEPT !.ref = Nil]
              ELSE IF x - 1 \in Fillers
              THEN [mem[x] EXCEPT !.size = FillerSize(Filler(x - 1)),
                                  !.flags = {"bytes"}, !.hash = 0]
              ELSE mem[x]]
  /\ bump' = End(Len(objs))
  /\ starts' = {objs[i].to : i \in DOMAIN objs} \cup Fillers
  /\ phase' = "done"
  /\ UNCHANGED <<roots, young, stack, seen, scan, dest, objs, moved, was, held>>

\* Between two collections the program lets go of some of its roots.
Release(gone) ==
  /\ phase = "done"
  /\ roots' = [r \in RootSlots |-> IF r \in gone THEN Nil ELSE roots[r]]
  /\ was' = [Now EXCEPT !.roots = roots']
  /\ Scavenged(was')
  /\ phase' = "idle"
  /\ UNCHANGED <<mem, bump, starts, young, stack, seen, scan, dest, objs, moved, held>>

CollectOld == MarkOld \/ MarkYoung \/ MarkNothing \/ ClearWeak \/ PlanDead \/ PlanPin
              \/ PlanMove \/ Update \/ MoveOne \/ Fill

Next == Collect \/ CollectOld \/ \E gone \in SUBSET RootSlots : Release(gone)

\* Nothing interrupts a collection once it has begun.
Spec == Init /\ [][Next]_vars /\ WF_vars(CollectOld)

-----------------------------------------------------------------------------
(* Properties.                                                               *)

TypeOK ==
  /\ phase \in Phases
  /\ mem \in [Addr -> Words]
  /\ bump \in 0 .. OldMax
  /\ starts \subseteq Addr
  /\ roots \in [RootSlots -> Refs]
  /\ young \in [Young -> YoungObjects]
  /\ stack \in Seq(Refs)
  /\ seen \subseteq Young
  /\ scan \in 0 .. OldMax
  /\ dest \in 0 .. scan
  /\ objs \in Seq(Moves)
  /\ moved \in 0 .. Len(objs)
  /\ held \in [Addr -> Words]

\* Every plan slides down without overlap: an object goes to its own place or a lower
\* one, a pin to its own; targets follow one another; and no hole is too small for the
\* header of a filler, so that the walk over the old space can cross it.
PlanSound ==
  phase \in {"plan", "move"} =>
    \A i \in DOMAIN objs :
      /\ objs[i].to <= objs[i].from
      /\ Is(was.mem, objs[i].from, "immovable") => objs[i].to = objs[i].from
      /\ Hole(i) = 0 \/ Hole(i) >= HeaderWords

\* A move destroys nothing that is still to be moved: what has been moved stands at its
\* target as it was when the moves began, unmarked, and what has not is untouched.
MovesKeepObjects ==
  phase = "move" =>
    \A i \in DOMAIN objs : \A k \in 0 .. objs[i].size - 1 :
      IF i <= moved
      THEN mem[objs[i].to + k] = IF k = 1 THEN Unmarked(held[objs[i].from + 1])
                                 ELSE held[objs[i].from + k]
      ELSE mem[objs[i].from + k] = held[objs[i].from + k]

\* Between collections the old space is a heap: its headers parse from the start to the
\* bump, fillers included, no mark is left, and every reference of every object, root
\* and nursery object names an object.
HeapAgain == phase \in {"idle", "done"} => IsHeap(Now)

\* An object is known by its hash, a nursery object by its address.
Name(h, r) == IF r \in Addr THEN <<"old", h.mem[r + 1].hash>> ELSE <<"other", r>>

\* What a slot of a weak object may hold after the collection.
WeakName(h, r) == IF r \in Addr /\ r \notin Live(h) THEN Name(h, Nil) ELSE Name(h, r)

\* The collection keeps exactly the objects the program can reach, with the same class,
\* flags, bytes and references between them; a weak slot loses the object that nothing
\* else reaches and no other; the roots name what they named; and an immovable object,
\* whose address may be held outside the heap, is where it was.  (No object has a
\* filler's hash, 0: Heap::initObject skips it.)
GraphKept ==
  phase = "done" =>
    /\ \A a \in Live(was) \ Young : Is(was.mem, a, "immovable") =>
         a \in starts /\ mem[a + 1] = was.mem[a + 1]
    /\ \A r \in RootSlots : Name(Now, roots[r]) = Name(was, was.roots[r])
    /\ {mem[a + 1].hash : a \in starts} \ {0} =
       {was.mem[a + 1].hash : a \in Live(was) \ Young} \ {0}
    /\ \A a \in Live(was) \ Young : \E b \in starts :
         LET old == was.mem[a + 1]
         IN /\ mem[b + 1] = old
            /\ Name(Now, mem[b].ref) = Name(was, was.mem[a].ref)
            /\ \A k \in 2 .. Size(was.mem, a) - 1 :
                 IF "bytes" \in old.flags THEN mem[b + k] = was.mem[a + k]
                 ELSE Name(Now, mem[b + k].ref) =
                        IF "weak" \in old.flags THEN WeakName(was, was.mem[a + k].ref)
                        ELSE Name(was, was.mem[a + k].ref)
    /\ \A y \in Live(was) \cap Young :
         LET old == was.young[y]
         IN /\ Name(Now, young[y].klass) = Name(was, old.klass)
            /\ \A i \in DOMAIN old.slots :
                 Name(Now, young[y].slots[i]) =
                   IF old.weak THEN WeakName(was, old.slots[i])
                   ELSE Name(was, old.slots[i])
=============================================================================
