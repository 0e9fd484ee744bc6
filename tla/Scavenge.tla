------------------------------- MODULE Scavenge -------------------------------
(* The nursery and its collections, and the allocation that runs them (Heap.cpp, *)
(* Gc.cpp, HandleScope.cpp), on the roots a program moves (Roots.cpp).  Objects  *)
(* stand at addresses; what a collection of the old space does inside is module  *)
(* Compaction.  Counters are kept as what the code compares: whether a full      *)
(* collection ran since the last scavenge, and how many in this call.            *)
EXTENDS Integers, Sequences, FiniteSets, SequencesExt, FiniteSetsExt, Functions, Folds

CONSTANTS Procs,       \* the processes
          Half,        \* words of a nursery half
          Large,       \* from this size on an object goes to the old space
          MaxIds,      \* bound: objects there are at a time
          Heaps        \* the heaps of the behaviours, and what their programs may do

(* Of a heap: the words of the old space, at first and at most; the shapes allocated,
   [slots, words, weak], and whether an object may have a class; the processes that run;
   and the bounds on the objects, the roots of a process and the handles. *)
HeapsOf(shapes) ==
  [initial: Nat, limit: Nat, shapes: SUBSET shapes, classes: BOOLEAN, procs: SUBSET Procs,
   ids: 1 .. MaxIds, stack: Nat, handles: Nat]

(* 2 * Half <= initial: the product's heap has 1 MiB and 4 MiB. *)
ScavengeAssumption ==
  /\ {Half, Large, MaxIds} \subseteq Nat /\ Large <= Half
  /\ Heaps \subseteq HeapsOf([slots: 0 .. 2, words: 1 .. 4, weak: BOOLEAN])
  /\ \A h \in Heaps: h.initial <= h.limit /\ (2 * Half <= h.initial \/ h.initial = h.limit)

VARIABLES
  heap,      \* which of the heaps this behaviour has
  mem,       \* the objects, by address
  from,      \* the half in use: 0 or 1
  fromBump, toBump, oldBump,   \* words used of each space
  threshold, \* oldThreshold_
  retained,  \* scavengeRetained_
  fullSince, \* oldCollections_ # oldCollectionsAtScavenge_
  stack,     \* the running roots
  parked,    \* the attached Stacks, the running process's own one empty
  current,   \* the process that runs
  handles, free,  \* the handle table: objects or Free, and the indexes to reuse
  gc,        \* the collection: phase, stack, traced addresses, old words traced
  call       \* the allocation: place, class, shape, full collections in it

space   == <<mem, from, fromBump, toBump, oldBump, threshold, retained, fullSince>>
roots   == <<stack, parked, current, handles, free>>
vars    == <<heap, mem, from, fromBump, toBump, oldBump, threshold, retained, fullSince,
             stack, parked, current, handles, free, gc, call>>

-------------------------------------------------------------------------------
\* Spaces and objects.  An address is above 0; 0 is nil.

Nil  == 0
Free == -1
OldInitial == heap.initial
OldMax == heap.limit
Start(half) == 1 + half * Half
FromAddrs == Start(from) .. Start(from) + Half - 1
ToAddrs   == Start(1 - from) .. Start(1 - from) + Half - 1
OldStart  == 1 + 2 * Half
InOld(a)  == a >= OldStart

Size(o) == o.words                      \* objectBytes
FitsOld(bump, n) == n <= OldMax - bump

New(id, klass, shape) == [id |-> id, klass |-> klass, slots |-> [k \in 1 .. shape.slots |-> Nil],
                          weak |-> shape.weak, words |-> shape.words,
                          forwarded |-> FALSE]
Ids == {mem[a].id: a \in DOMAIN mem}
FreeId == Min((1 .. MaxIds) \ Ids)

Handled == SelectSeq(handles, LAMBDA r: r # Free)
RootRefs == stack \o FoldLeft(LAMBDA s, p: s \o parked[p], <<>>, SetToSeq(Procs)) \o Handled \o <<call.klass>>

(* Every slot visitAll visits becomes F of it. *)
VisitAll(F(_)) ==
  /\ stack' = [k \in DOMAIN stack |-> F(stack[k])]
  /\ parked' = [p \in Procs |-> [k \in DOMAIN parked[p] |-> F(parked[p][k])]]
  /\ handles' = [i \in DOMAIN handles |-> IF handles[i] = Free THEN Free ELSE F(handles[i])]
  /\ UNCHANGED <<current, free>>

-------------------------------------------------------------------------------
\* Scavenging

Copies == [mem |-> mem, toBump |-> toBump, oldBump |-> oldBump]

Stays(h, r) == r \notin FromAddrs \/ h.mem[r].forwarded

(* copy: an object goes to the old space, or to the other half when the old space is
   at its limit; its header then says where. *)
Copy(h, r) ==
  IF Stays(h, r) THEN h
  ELSE LET n == Size(h.mem[r])
           old == FitsOld(h.oldBump, n)
           dest == IF old THEN OldStart + h.oldBump ELSE Start(1 - from) + h.toBump
       IN [mem |-> dest :> h.mem[r] @@ [h.mem EXCEPT ![r].forwarded = TRUE, ![r].klass = dest],
           toBump |-> IF old THEN h.toBump ELSE h.toBump + n,
           oldBump |-> IF old THEN h.oldBump + n ELSE h.oldBump]
CopyAll(refs) == FoldLeft(Copy, Copies, refs)

Forwarded(h, r) == IF r \in FromAddrs THEN h.mem[r].klass ELSE r
Takes(h) == toBump' = h.toBump /\ oldBump' = h.oldBump

(* collectNursery begins with the roots. *)
Scavenges ==
  LET h == CopyAll(RootRefs)
      f(r) == Forwarded(h, r)
  IN /\ mem' = h.mem /\ Takes(h)
     /\ VisitAll(f)
     /\ gc' = [at |-> "trace", stack |-> {f(r): r \in Range(RootRefs)} \ {Nil}, traced |-> {}, oldLive |-> 0]
     /\ UNCHANGED <<from, fromBump, threshold, retained, fullSince>>

(* What a traced object holds on to. *)
Slots(o) == IF o.weak THEN <<o.klass>> ELSE <<o.klass>> \o o.slots

Traces ==
  /\ gc.at = "trace" /\ gc.stack # {}
  /\ LET a == Max(gc.stack)
         refs == Slots(mem[a])
         h == CopyAll(refs)
         f(r) == Forwarded(h, r)
         o == [mem[a] EXCEPT !.klass = f(@),
                             !.slots = IF mem[a].weak THEN @ ELSE [k \in DOMAIN @ |-> f(@[k])]]
     IN /\ mem' = [h.mem EXCEPT ![a] = o] /\ Takes(h)
        /\ gc' = [gc EXCEPT !.traced = @ \union {a},
                            !.stack = (@ \union {f(r): r \in Range(refs)}) \ (gc.traced \union {a, Nil}),
                            !.oldLive = IF InOld(a) THEN @ + Size(mem[a]) ELSE @]
  /\ UNCHANGED <<from, fromBump, threshold, retained, fullSince, roots, call>>

(* clearWeakAfterNursery: an old object the scavenge did not trace is dead, though it
   is still there, and what it names was not forwarded. *)
AliveInOldAll(r) == TRUE
AliveInOld(r) == r \in gc.traced
Fixed(r) == IF r = Nil THEN Nil
            ELSE IF InOld(r) THEN (IF AliveInOld(r) THEN r ELSE Nil)
            ELSE IF r \notin FromAddrs THEN r
            ELSE IF mem[r].forwarded THEN mem[r].klass ELSE Nil
FixedWeak(o) == IF o.weak THEN [o EXCEPT !.slots = [k \in DOMAIN @ |-> Fixed(@[k])]] ELSE o

(* Whether collectNursery goes on with a full collection. *)
OldHasDead == oldBump > gc.oldLive
NeedsFull == oldBump > threshold \/ (toBump > 0 /\ OldHasDead)

(* The weak slots, the flip, and what of the old half is left. *)
Flips ==
  /\ gc.at = "trace" /\ gc.stack = {}
  /\ mem' = [a \in DOMAIN mem \ FromAddrs |-> FixedWeak(mem[a])]
  /\ from' = 1 - from /\ fromBump' = toBump /\ toBump' = 0
  /\ retained' = toBump /\ fullSince' = FALSE
  /\ gc' = [gc EXCEPT !.at = IF NeedsFull THEN "full" ELSE "none", !.traced = {}, !.oldLive = 0]
  /\ UNCHANGED <<oldBump, threshold, roots, call>>

-------------------------------------------------------------------------------
\* A full collection, as one step

Marks(o) == {o.klass} \union IF o.weak THEN {} ELSE Range(o.slots)
Closure(S) == FoldLeft(LAMBDA s, k: s \union (UNION {Marks(mem[a]): a \in s} \ {Nil}),
                       S \ {Nil}, [k \in 1 .. Cardinality(DOMAIN mem) |-> k])
Reachable == Closure(Range(RootRefs))
SumOf(as) == FoldSet(LAMBDA a, n: n + Size(mem[a]), 0, as)

Clamp(n) == IF n < OldInitial THEN OldInitial ELSE IF n > OldMax THEN OldMax ELSE n

Collects ==
  /\ gc.at = "full"
  /\ LET live == {a \in Reachable: InOld(a)}
         left == live \union {a \in DOMAIN mem: ~InOld(a)}
         to(a) == IF InOld(a) THEN OldStart + SumOf({b \in live: b < a}) ELSE a
         f(r) == IF r \in live THEN to(r) ELSE r
         kept(o, r) == IF o.weak /\ InOld(r) /\ r \notin live THEN Nil ELSE f(r)
         o2(o) == [o EXCEPT !.klass = f(@), !.slots = [k \in DOMAIN @ |-> kept(o, @[k])]]
     IN /\ mem' = [b \in {to(a): a \in left} |-> o2(mem[CHOOSE a \in left: to(a) = b])]
        /\ VisitAll(f) /\ call' = [call EXCEPT !.klass = f(@), !.full = IF call.at = "idle" THEN 0 ELSE @ + 1]
        /\ oldBump' = SumOf(live) /\ threshold' = Clamp(2 * SumOf(live))
  /\ fullSince' = TRUE /\ gc' = [gc EXCEPT !.at = "none"]
  /\ UNCHANGED <<from, fromBump, toBump, retained>>

-------------------------------------------------------------------------------
\* Allocation

At(place) == call.at = place /\ gc.at = "none"
Going(place) == [call EXCEPT !.at = place]
Words == call.shape.words

(* allocate: the nursery, or the old space for a large object. *)
InNursery(n) == n < Large /\ n <= Half - fromBump
Placed(at) ==
  /\ mem' = at :> New(FreeId, call.klass, call.shape) @@ mem
  /\ stack' = Append(stack, at)
  /\ call' = [call EXCEPT !.at = "idle", !.klass = Nil, !.full = 0]
  /\ UNCHANGED <<from, toBump, threshold, retained, fullSince, parked, current, handles, free, gc>>
PlacedNew == /\ Placed(Start(from) + fromBump) /\ fromBump' = fromBump + Words /\ UNCHANGED oldBump
PlacedOld == /\ Placed(OldStart + oldBump) /\ oldBump' = oldBump + Words /\ UNCHANGED fromBump

(* allocateRetry is asked for an object: its class is a root from here on. *)
Asks(place) ==
  /\ At("idle") /\ Len(stack) < heap.stack /\ Cardinality(Ids) < heap.ids
  /\ \E shape \in heap.shapes, klass \in {Nil} \union IF heap.classes THEN Range(stack) ELSE {}:
       call' = [at |-> IF place = "first" /\ shape.words >= Large THEN "before" ELSE place,
                klass |-> klass, shape |-> shape, full |-> 0]
  /\ UNCHANGED <<space, roots, gc>>

(* collectBeforeTenured, and what it does after its scavenge. *)
ScavengesThen(place) ==
  LET f(r) == Forwarded(CopyAll(RootRefs), r)
  IN Scavenges /\ call' = [call EXCEPT !.at = place, !.klass = f(@)]
RunsFullThen(place) ==
  /\ gc' = [gc EXCEPT !.at = "full"] /\ call' = Going(place) /\ UNCHANGED <<space, roots>>
Goes(place) == call' = Going(place) /\ UNCHANGED <<space, roots, gc>>

BeforeTenured ==
  /\ At("before")
  /\ IF Words > OldMax THEN Goes("refused")
     ELSE IF oldBump + Words <= threshold THEN Goes("first") ELSE ScavengesThen("after")

AfterScavenge ==
  /\ At("after")
  /\ IF call.full = 0 /\ oldBump + Words > threshold THEN RunsFullThen("first") ELSE Goes("first")

First ==
  /\ At("first")
  /\ IF InNursery(Words) THEN PlacedNew
     ELSE IF Words >= Large /\ FitsOld(oldBump, Words) THEN PlacedOld
     ELSE ScavengesThen("retry")

(* The one more full collection, unless one ran in this call. *)
OnceMore == call.full = 0

Retry ==
  /\ At("retry")
  /\ IF InNursery(Words) THEN PlacedNew
     ELSE IF FitsOld(oldBump, Words) THEN PlacedOld
     ELSE IF Words <= OldMax /\ OnceMore THEN RunsFullThen("last") ELSE Goes("refused")

Last1 == /\ At("last") /\ IF FitsOld(oldBump, Words) THEN PlacedOld ELSE Goes("refused")

(* allocateNoGc: the nursery, then the old space, and no collection. *)
NoGc ==
  /\ At("nogc")
  /\ IF InNursery(Words) THEN PlacedNew ELSE IF FitsOld(oldBump, Words) THEN PlacedOld ELSE Goes("failed")

(* The out-of-memory flag is set and the caller gives up. *)
GivesUp ==
  /\ At("refused") \/ At("failed")
  /\ call' = [call EXCEPT !.at = "idle", !.klass = Nil, !.full = 0]
  /\ UNCHANGED <<space, roots, gc>>

(* safepoint: with little room left, unless the last scavenge left as much and nothing
   happened since. *)
CanProgress == retained = 0 \/ fromBump # retained \/ fullSince
Safepoint ==
  /\ At("idle") /\ 8 * (Half - fromBump) < Half /\ CanProgress
  /\ Scavenges /\ UNCHANGED call

-------------------------------------------------------------------------------
\* The program, on its roots

Mutates == At("idle") /\ UNCHANGED <<from, fromBump, toBump, oldBump, threshold, retained, fullSince, gc, call>>
Others  == UNCHANGED <<parked, current, handles, free>>

Reads == /\ Mutates /\ Others /\ UNCHANGED mem /\ Len(stack) < heap.stack
         /\ \E a \in Range(stack) \ {Nil}: \E r \in Range(mem[a].slots) \ Range(stack): stack' = Append(stack, r)
Writes == /\ Mutates /\ Others /\ UNCHANGED stack
          /\ \E a \in Range(stack) \ {Nil}, b \in Range(stack) \union {Nil}: \E k \in DOMAIN mem[a].slots:
               mem' = [mem EXCEPT ![a].slots[k] = b]
Pops == /\ Mutates /\ Others /\ UNCHANGED mem /\ stack # <<>> /\ stack' = Front(stack)

(* switchStack: the running roots go to their process's Stack, another's come. *)
SwitchedOnce(p) == <<parked[p], [parked EXCEPT ![p] = stack]>>
Switched(p) == <<parked[p], [parked EXCEPT ![current] = stack, ![p] = <<>>]>>
Switches ==
  /\ Mutates /\ UNCHANGED <<mem, handles, free>>
  /\ \E p \in heap.procs \ {current}: /\ current' = p
                                      /\ stack' = Switched(p)[1] /\ parked' = Switched(p)[2]

(* pushHandle: a free index first. *)
Hands ==
  /\ Mutates /\ UNCHANGED <<mem, stack, parked, current>>
  /\ \E r \in Range(stack):
       IF free # <<>> THEN handles' = [handles EXCEPT ![Last(free)] = r] /\ free' = Front(free)
       ELSE /\ Len(handles) < heap.handles
            /\ handles' = Append(handles, r) /\ UNCHANGED free
Dropped(i) == [handles EXCEPT ![i] = Free]
Drops ==
  /\ Mutates /\ UNCHANGED <<mem, stack, parked, current>>
  /\ \E i \in DOMAIN handles: handles[i] # Free /\ handles' = Dropped(i) /\ free' = Append(free, i)

-------------------------------------------------------------------------------
Init ==
  /\ heap \in Heaps
  /\ mem = [a \in {} |-> 0] /\ from = 0 /\ fromBump = 0 /\ toBump = 0 /\ oldBump = 0
  /\ threshold = OldInitial /\ retained = 0 /\ fullSince = FALSE
  /\ stack = <<>> /\ parked = [p \in Procs |-> <<>>] /\ current = CHOOSE p \in heap.procs: TRUE
  /\ handles = <<>> /\ free = <<>>
  /\ gc = [at |-> "none", stack |-> {}, traced |-> {}, oldLive |-> 0]
  /\ call = [at |-> "idle", klass |-> Nil, shape |-> CHOOSE s \in heap.shapes: TRUE, full |-> 0]

Allocates == BeforeTenured \/ AfterScavenge \/ First \/ Retry \/ Last1 \/ NoGc \/ GivesUp
Program == Reads \/ Writes \/ Pops \/ Switches \/ Hands \/ Drops
Next == /\ Asks("first") \/ Asks("nogc") \/ Allocates \/ Safepoint \/ Traces \/ Flips \/ Collects \/ Program
        /\ UNCHANGED heap

Spec == Init /\ [][Next]_vars

-------------------------------------------------------------------------------
\* Properties

TypeOK ==
  /\ DOMAIN mem \subseteq 1 .. OldStart + OldMax
  /\ \A a \in DOMAIN mem: mem[a].id \in 1 .. MaxIds /\ mem[a].forwarded \in BOOLEAN
  /\ fromBump \in 0 .. Half /\ oldBump \in 0 .. OldMax /\ threshold \in OldInitial .. OldMax
  /\ parked[current] = <<>> /\ \A i \in DOMAIN free: handles[free[i]] = Free

(* Every edge, weak ones too, followed where a header was forwarded. *)
Node(a) == IF mem[a].forwarded THEN mem[mem[a].klass] ELSE mem[a]
Edges(a) == {Node(a).klass} \union Range(Node(a).slots)
Rooted == Range(stack) \union UNION {Range(parked[p]): p \in Procs} \union Range(handles) \union {call.klass}
Leads(S) == /\ Rooted \cap DOMAIN mem \subseteq S
            /\ \A b \in S: Edges(b) \cap DOMAIN mem \subseteq S
Known == CHOOSE S \in SUBSET DOMAIN mem: Leads(S) /\ \A T \in SUBSET S: Leads(T) => T = S

(* Gc.cpp 181: whatever the program can find is an object that is there, in the half in
   use or in the old space, after every collection: no weak slot leads to what was freed
   or to an old object whose own slots were not forwarded. *)
NoDangling ==
  gc.at # "trace" =>
    \A a \in (Rooted \union UNION {Edges(b): b \in Known}) \ {Nil, Free}:
      a \in DOMAIN mem /\ ~mem[a].forwarded /\ a \notin ToAddrs

(* Gc.cpp 62: what a scavenge cannot promote always fits in the other half, also when the
   old space fills up in the middle of it. *)
ToSpaceSuffices == toBump <= Half

(* A full collection finds no garbage in the nursery: Compaction starts from there. *)
ScavengedFirst ==
  gc.at = "full" => \A a \in DOMAIN mem: ~InOld(a) => a \in Reachable

(* SPEC 3.2: an allocation fails only when there is no room: the old space holds nothing
   dead, and the object does not fit in it nor in the nursery. *)
RefusedOnlyFull ==
  call.at = "refused" =>
    /\ OldMax - SumOf({a \in Reachable: InOld(a)}) < Words
    /\ Words < Large => Half - SumOf({a \in Reachable: ~InOld(a)}) < Words

(* SPEC 3.2: an allocation runs one full collection at most. *)
OneFull == call.full <= 1

(* SPEC 3.2: a full collection that a scavenge runs because it could not promote frees
   something. *)
FullFrees ==
  gc.at = "full" /\ oldBump <= threshold /\ call.at \in {"idle", "after", "retry"} =>
    SumOf({a \in Reachable: InOld(a)}) < oldBump

(* What the program sees: objects by their identity, wherever they are. *)
IdOf(r) == IF r = Nil THEN Nil ELSE IF r \in DOMAIN mem THEN mem[r].id ELSE -1
IdsOf(st) == [k \in DOMAIN st |-> IdOf(st[k])]
SeenAt(a) == [klass |-> IdOf(Node(a).klass), slots |-> IdsOf(Node(a).slots), weak |-> mem[a].weak]
Seen == [i \in {mem[a].id: a \in Known} |-> SeenAt(CHOOSE a \in DOMAIN mem: mem[a].id = i)]
Memory == INSTANCE ObjectMemory WITH
  objects <- Seen,
  stacks  <- [p \in Procs |-> IdsOf(IF p = current THEN stack ELSE parked[p])],
  handles <- [i \in DOMAIN handles |-> IF handles[i] = Free THEN Nil ELSE IdOf(handles[i])]

(* A program cannot tell that collections run: every object keeps its class, its slots and
   its identity, and a weak slot loses exactly what no strong path reaches. *)
ImplementsMemory == Memory!Spec

(* At every step of a program and of a collection the heap is one the program can go on
   with, and an allocation fails only for want of room. *)
HeapSound == /\ TypeOK /\ NoDangling /\ ToSpaceSuffices /\ ScavengedFirst
             /\ RefusedOnlyFull /\ OneFull /\ FullFrees
===============================================================================
