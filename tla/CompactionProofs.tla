--------------------------- MODULE CompactionProofs ---------------------------
(***************************************************************************)
(* A full collection of any heap, of any size, with any references in it   *)
(* and any number of pins: the plan slides every object down without       *)
(* overlap, the moves destroy nothing, what is left is a heap again - its  *)
(* headers parse and no reference dangles - and it holds the objects the   *)
(* program can reach, as they were.                                        *)
(*                                                                         *)
(* The invariant follows the phases.  Marking: all that is marked refers   *)
(* to what is marked or on the stack.  Plan: the next free word is the     *)
(* scan itself or at least a header below it, which is why no object ever  *)
(* has to step over a pin.  Moves: an object's source lies above every     *)
(* target before it.                                                       *)
(*                                                                         *)
(* A second invariant says what is kept.  Marking reaches nothing the      *)
(* program cannot; when it ends, what is marked is the old part of what    *)
(* the program can reach.  From there on each reachable object is as it    *)
(* was found but for its references, and each of these is what the weak    *)
(* clearing, and later the forwarding, makes of the one that was there.    *)
(***************************************************************************)
EXTENDS Compaction, TLAPS

\* The heap the collection found is the one at hand but for the marks.
Found ==
  /\ IsHeap(was) /\ Scavenged(was)
  /\ was.starts = starts /\ was.bump = bump
  /\ was.roots = roots /\ was.young = young
  /\ \A x \in Addr : /\ mem[x].ref = was.mem[x].ref
                     /\ mem[x].size = was.mem[x].size
                     /\ mem[x].flags \ {"marked"} = was.mem[x].flags \ {"marked"}

Reached == {Nil} \cup Marked \cup seen \cup ToSet(stack)

MarkInv ==
  /\ Found
  /\ ToSet(stack) \subseteq {Nil} \cup starts \cup Young
  /\ \A r \in RootSlots : roots[r] \in Reached
  /\ \A a \in Marked : \A w \in StrongWords(mem, a) : mem[w].ref \in Reached
  /\ \A y \in seen : \A r \in YoungStrong(young[y]) : r \in Reached

\* Whatever the program can reach names what is kept.
RefsKept(kept) ==
  /\ \A r \in RootSlots : roots[r] \in kept
  /\ \A y \in Young : YoungRefs(young[y]) \subseteq kept

Ordered ==
  \A i \in DOMAIN objs :
    /\ objs[i].to <= objs[i].from
    /\ objs[i].size >= HeaderWords
    /\ objs[i].from + objs[i].size <= OldMax
    /\ Is(was.mem, objs[i].from, "immovable") => objs[i].to = objs[i].from
    /\ Hole(i) = 0 \/ Hole(i) >= HeaderWords
    /\ \A j \in DOMAIN objs :
         i < j => /\ objs[i].from + objs[i].size <= objs[j].from
                  /\ objs[i].to + objs[i].size <= objs[j].to

MarkedRefs == {Nil} \cup Young \cup Marked

PlanInv ==
  /\ Parsed(Now)
  /\ Ordered
  /\ moved = 0
  /\ \A a \in starts : Is(was.mem, a, "immovable") = Is(mem, a, "immovable")
  /\ RefsKept(MarkedRefs)
  /\ \A a \in Marked : \A w \in RefWords(mem, a) : mem[w].ref \in MarkedRefs
  /\ scan \in starts \cup {bump}
  /\ dest = End(Len(objs))
  /\ dest = scan \/ dest + HeaderWords <= scan
  /\ \A i \in DOMAIN objs : /\ objs[i].from \in Marked
                            /\ objs[i].size = Size(mem, objs[i].from)
                            /\ objs[i].from + objs[i].size <= scan
                            /\ End(i) <= dest
  /\ \A a \in Marked : a < scan => \E i \in DOMAIN objs : objs[i].from = a

Targets    == {objs[i].to : i \in DOMAIN objs}
TargetRefs == {Nil} \cup Young \cup Targets

MoveInv ==
  /\ Ordered
  /\ RefsKept(TargetRefs)
  /\ \A i \in DOMAIN objs :
       /\ objs[i].size = Size(held, objs[i].from)
       /\ \A w \in RefWords(held, objs[i].from) : held[w].ref \in TargetRefs
  /\ MovesKeepObjects

IInv ==
  /\ TypeOK
  /\ phase = "idle" => Found /\ IsHeap(Now)
  /\ phase = "mark" => MarkInv
  /\ phase = "plan" => PlanInv
  /\ phase = "move" => MoveInv
  /\ phase = "done" => IsHeap(Now)

-----------------------------------------------------------------------------
\* Sequences used as stacks.

LEMMA StackParts ==
  ASSUME NEW S, NEW s \in Seq(S), s # <<>>
  PROVE  /\ Front(s) \in Seq(S)
         /\ Last(s) \in S
         /\ Last(s) \in ToSet(s)
         /\ ToSet(Front(s)) \subseteq ToSet(s)
         /\ ToSet(s) \subseteq ToSet(Front(s)) \cup {Last(s)}
<1>1. Len(s) \in Nat /\ Len(s) >= 1 /\ DOMAIN s = 1 .. Len(s)
  OBVIOUS
<1>2. /\ Front(s) \in Seq(S) /\ Len(Front(s)) = Len(s) - 1
      /\ \A i \in 1 .. Len(s) - 1 : Front(s)[i] = s[i]
  BY <1>1 DEF Front
<1>3. Last(s) = s[Len(s)] /\ Len(s) \in DOMAIN s
  BY <1>1 DEF Last
<1>4. ToSet(Front(s)) = {s[i] : i \in 1 .. Len(s) - 1}
  BY <1>1, <1>2 DEF ToSet
<1>5. ToSet(s) = {s[i] : i \in 1 .. Len(s)}
  BY <1>1 DEF ToSet
<1>6. ToSet(Front(s)) \subseteq ToSet(s)
  BY <1>1, <1>4, <1>5
<1>7. ToSet(s) \subseteq ToSet(Front(s)) \cup {Last(s)}
  BY <1>1, <1>3, <1>4, <1>5
<1> QED
  BY <1>1, <1>2, <1>3, <1>5, <1>6, <1>7

LEMMA PushParts ==
  ASSUME NEW S, NEW s \in Seq(S), NEW t \in Seq(S)
  PROVE  /\ s \o t \in Seq(S)
         /\ ToSet(s \o t) = ToSet(s) \cup ToSet(t)
<1>1. s \o t \in Seq(S)
  OBVIOUS
<1>2. ToSet(s \o t) \subseteq ToSet(s) \cup ToSet(t)
  BY SMTT(30) DEF ToSet
<1>3. ToSet(s) \subseteq ToSet(s \o t)
  BY SMTT(30) DEF ToSet
<1>4. ToSet(t) \subseteq ToSet(s \o t)
  <2> SUFFICES ASSUME NEW i \in 1 .. Len(t)
               PROVE  t[i] \in ToSet(s \o t)
    BY DEF ToSet
  <2>1. Len(s) + i \in 1 .. Len(s \o t) /\ (s \o t)[Len(s) + i] = t[i]
    OBVIOUS
  <2> QED
    BY <2>1 DEF ToSet
<1> QED
  BY <1>1, <1>2, <1>3, <1>4

LEMMA ConsParts ==
  ASSUME NEW S, NEW x \in S, NEW t \in Seq(S)
  PROVE  /\ <<x>> \o t \in Seq(S)
         /\ ToSet(<<x>> \o t) = {x} \cup ToSet(t)
<1> DEFINE one == <<x>>
<1>1. one \in Seq(S)
  OBVIOUS
<1>2. ToSet(one) = {x}
  BY DEF ToSet
<1> HIDE DEF one
<1>3. one \o t \in Seq(S) /\ ToSet(one \o t) = {x} \cup ToSet(t)
  BY <1>1, <1>2, PushParts
<1> QED
  BY <1>3 DEF one

-----------------------------------------------------------------------------
\* An object lies inside the old space, with its header and its slots.
LEMMA ObjectInside ==
  ASSUME NEW h, Parsed(h), h.mem \in [Addr -> Words], NEW a \in h.starts
  PROVE  /\ a \in Addr /\ a + 1 \in Addr /\ a \in Int
         /\ h.mem[a + 1] \in Words
         /\ Size(h.mem, a) \in Nat /\ Size(h.mem, a) >= HeaderWords
         /\ a + Size(h.mem, a) <= h.bump /\ h.bump <= OldMax
         /\ RefWords(h.mem, a) \subseteq a .. a + Size(h.mem, a) - 1
         /\ RefWords(h.mem, a) \subseteq Addr
         /\ a + 1 \notin RefWords(h.mem, a)
<1>1. /\ a \in Int /\ 0 <= a /\ a + 2 <= h.bump /\ h.bump <= OldMax /\ h.bump \in Int
  BY SpaceAssumption DEF Parsed, HeaderWords
<1>2. a \in Addr /\ a + 1 \in Addr
  BY <1>1, SpaceAssumption DEF Addr
<1>3. h.mem[a + 1] \in Words /\ h.mem[a + 1].size \in Nat
  BY <1>2 DEF Words
<1>4. Size(h.mem, a) \in Nat /\ Size(h.mem, a) >= HeaderWords
  BY <1>3 DEF Size, HeaderWords
<1>5. a + Size(h.mem, a) <= h.bump
  BY <1>1, <1>4 DEF Parsed, HeaderWords
<1>6. /\ RefWords(h.mem, a) \subseteq a .. a + Size(h.mem, a) - 1
      /\ a + 1 \notin RefWords(h.mem, a)
  BY <1>1, <1>4 DEF RefWords, Slots, HeaderWords
<1>7. a .. a + Size(h.mem, a) - 1 \subseteq Addr
  BY <1>1, <1>4, <1>5, SpaceAssumption DEF Addr
<1> QED
  BY <1>1, <1>2, <1>3, <1>4, <1>5, <1>6, <1>7

\* The kinds of reference: nil, an old object or one of the nursery.
LEMMA KindsOfRef ==
  /\ Addr \cap Young = {} /\ Nil \notin Addr /\ Nil \notin Young
  /\ Refs = Addr \cup Young \cup {Nil}
  /\ Addr \subseteq Int /\ Young \subseteq Int /\ Nil \in Int
BY SpaceAssumption DEF Addr, Young, Nil, Refs

LEMMA MoveNumbers ==
  ASSUME NEW o \in Moves
  PROVE  /\ o.from \in Int /\ o.to \in Int /\ o.size \in Nat
         /\ o.from \in Addr /\ o.to \in Addr
BY KindsOfRef DEF Moves

-----------------------------------------------------------------------------
\* What the heap at hand shares with the heap that was found.

KnownRefs == {Nil} \cup starts \cup Young

LEMMA FoundNow ==
  ASSUME TypeOK, Found
  PROVE  /\ Parsed(Now)
         /\ \A a \in starts :
              /\ Size(mem, a) = Size(was.mem, a)
              /\ \A f \in Flags \ {"marked"} : Is(mem, a, f) = Is(was.mem, a, f)
              /\ RefWords(mem, a) = RefWords(was.mem, a)
              /\ \A w \in RefWords(mem, a) : mem[w].ref \in KnownRefs
         /\ \A r \in RootSlots : roots[r] \in KnownRefs
         /\ \A y \in Young : YoungRefs(young[y]) \subseteq KnownRefs
<1>1. Parsed(was) /\ was.mem \in [Addr -> Words]
  BY DEF Found, IsHeap
<1>2. ASSUME NEW a \in starts
      PROVE  /\ a \in Addr /\ a + 1 \in Addr
             /\ Size(mem, a) = Size(was.mem, a)
             /\ \A f \in Flags \ {"marked"} : Is(mem, a, f) = Is(was.mem, a, f)
             /\ RefWords(mem, a) = RefWords(was.mem, a)
  <2>1. a \in Addr /\ a + 1 \in Addr
    BY <1>1, ObjectInside DEF Found
  <2>2. Size(mem, a) = Size(was.mem, a)
    BY <2>1 DEF Found, Size
  <2>3. \A f \in Flags \ {"marked"} : Is(mem, a, f) = Is(was.mem, a, f)
    BY <2>1 DEF Found, Is
  <2>4. RefWords(mem, a) = RefWords(was.mem, a)
    BY <2>2, <2>3 DEF RefWords, Slots, Flags
  <2> QED
    BY <2>1, <2>2, <2>3, <2>4
<1>3. Parsed(Now)
  BY <1>1, <1>2 DEF Found, Parsed, Now
<1>4. ASSUME NEW a \in starts, NEW w \in RefWords(mem, a)
      PROVE  mem[w].ref \in KnownRefs
  <2>1. a \in was.starts /\ w \in RefWords(was.mem, a)
    BY <1>2 DEF Found
  <2>2. w \in Addr
    BY <2>1, <1>1, ObjectInside
  <2>3. was.mem[w].ref \in Objects(was) \cup {Nil}
    BY <2>1 DEF Found, IsHeap
  <2> QED
    BY <2>2, <2>3 DEF Found, Objects, KnownRefs
<1>5. \A r \in RootSlots : roots[r] \in KnownRefs
  BY DEF Found, IsHeap, Objects, KnownRefs
<1>6. \A y \in Young : YoungRefs(young[y]) \subseteq KnownRefs
  BY DEF Found, IsHeap, Objects, KnownRefs
<1> QED
  BY <1>2, <1>3, <1>4, <1>5, <1>6

LEMMA StrongAreRefWords ==
  ASSUME NEW m, NEW a PROVE StrongWords(m, a) \subseteq RefWords(m, a)
BY DEF StrongWords, RefWords

-----------------------------------------------------------------------------
\* The heaps the collector starts from.
LEMMA InitKeeps == Init => IInv
<1> SUFFICES ASSUME Init PROVE IInv
  OBVIOUS
<1>1. PICK h \in Heaps :
        /\ phase = "idle"
        /\ mem = h.mem /\ bump = h.bump /\ starts = h.starts
        /\ roots = h.roots /\ young = h.young
        /\ stack = <<>> /\ seen = {}
        /\ scan = 0 /\ dest = 0 /\ objs = <<>> /\ moved = 0
        /\ was = h
        /\ held = h.mem
  BY DEF Init
<1>2. IsHeap(h) /\ Scavenged(h)
  BY HeapsAssumption
<1>3. Parsed(h) /\ h.mem \in [Addr -> Words]
  BY <1>2 DEF IsHeap
<1>4. starts \subseteq Addr
  BY <1>1, <1>3, ObjectInside
<1>5. bump \in 0 .. OldMax
  BY <1>1, <1>3 DEF Parsed
<1>6. TypeOK
  BY <1>1, <1>2, <1>3, <1>4, <1>5, SpaceAssumption DEF TypeOK, IsHeap, Phases
<1>7. Found
  BY <1>1, <1>2 DEF Found
<1>8. IsHeap(Now)
  BY <1>1, <1>2 DEF IsHeap, Now, Parsed, Objects
<1> QED
  BY <1>1, <1>6, <1>7, <1>8 DEF IInv

-----------------------------------------------------------------------------
\* Marking.

LEMMA CollectKeeps == IInv /\ Collect => IInv'
<1> SUFFICES ASSUME IInv, Collect PROVE IInv'
  OBVIOUS
<1> USE DEF Collect
<1>1. TypeOK /\ Found /\ IsHeap(Now)
  BY DEF IInv
<1>2. /\ stack' \in Seq(Refs)
      /\ \A r \in RootSlots : roots[r] \in ToSet(stack')
      /\ ToSet(stack') \subseteq {roots[r] : r \in RootSlots}
  <2>1. /\ Registered \in Seq(RootSlots) /\ DOMAIN Registered = 1 .. Len(Registered)
        /\ \A i \in DOMAIN Registered : Registered[i] \in RootSlots
        /\ \A r \in RootSlots : \E i \in DOMAIN Registered : Registered[i] = r
    BY RootsAssumption DEF ToSet
  <2>2. DOMAIN stack' = DOMAIN Registered
    BY <2>1
  <2>3. \A i \in DOMAIN Registered : stack'[i] = roots[Registered[i]]
    BY <2>1
  <2>4. \A i \in DOMAIN Registered : stack'[i] \in Refs
    BY <1>1, <2>1, <2>3 DEF TypeOK
  <2>5. stack' \in Seq(Refs)
    BY <2>1, <2>4
  <2> QED
    BY <2>1, <2>2, <2>3, <2>5 DEF ToSet
<1>3. TypeOK'
  BY <1>1, <1>2 DEF TypeOK, Phases
<1>4. Found'
  BY <1>1 DEF Found
<1>5. Marked' = {}
  BY <1>1 DEF Marked, IsHeap, Now
<1>6. ToSet(stack') \subseteq {Nil} \cup starts \cup Young
  BY <1>1, <1>2, FoundNow DEF KnownRefs
<1>7. MarkInv'
  BY <1>2, <1>4, <1>5, <1>6 DEF MarkInv, Reached
<1> QED
  BY <1>3, <1>7 DEF IInv

LEMMA TopParts ==
  ASSUME TypeOK, MarkInv, Marking
  PROVE  /\ Top \in {Nil} \cup starts \cup Young
         /\ Front(stack) \in Seq(Refs)
         /\ ToSet(Front(stack)) \subseteq {Nil} \cup starts \cup Young
         /\ ToSet(stack) \subseteq ToSet(Front(stack)) \cup {Top}
<1>1. stack \in Seq(Refs) /\ stack # <<>>
  BY DEF TypeOK, Marking
<1> QED
  BY <1>1, StackParts DEF Top, MarkInv

\* What marking pushes is what the object holds on to.
LEMMA OldPushParts ==
  ASSUME TypeOK, MarkInv, NEW a \in starts
  PROVE  /\ OldPush(a) \in Seq(Refs)
         /\ ToSet(OldPush(a)) = {mem[w].ref : w \in StrongWords(mem, a)}
<1>1. Parsed(Now) /\ mem \in [Addr -> Words]
  BY FoundNow DEF MarkInv, TypeOK
<1> DEFINE n == mem[a + 1].size
<1>2. /\ a \in Addr /\ a \in Int /\ n \in Nat
      /\ RefWords(mem, a) \subseteq Addr
  BY <1>1, ObjectInside DEF Now, Words
<1>3. Size(mem, a) = HeaderWords + n
  BY DEF Size
<1>4. mem[a].ref \in Refs
  BY <1>1, <1>2 DEF Words
<1>5. CASE Is(mem, a, "bytes") \/ Is(mem, a, "weak")
  <2>1. OldPush(a) = <<mem[a].ref>>
    BY <1>5 DEF OldPush
  <2>2. StrongWords(mem, a) = {a}
    BY <1>5 DEF StrongWords, RefWords, Slots
  <2> QED
    BY <1>4, <2>1, <2>2 DEF ToSet
<1>6. CASE ~Is(mem, a, "bytes") /\ ~Is(mem, a, "weak")
  <2> DEFINE t == [i \in 1 .. n |-> mem[a + 1 + i].ref]
  <2>1. OldPush(a) = <<mem[a].ref>> \o t
    BY <1>6 DEF OldPush
  <2>2. StrongWords(mem, a) = {a} \cup (a + 2 .. a + 2 + n - 1)
    BY <1>2, <1>3, <1>6 DEF StrongWords, RefWords, Slots, HeaderWords
  <2>3. StrongWords(mem, a) \subseteq Addr
    BY <1>2, StrongAreRefWords
  <2>4. \A i \in 1 .. n : a + 1 + i \in a + 2 .. a + 2 + n - 1
    BY <1>2
  <2>5. \A i \in 1 .. n : mem[a + 1 + i].ref \in Refs
    BY <1>1, <2>2, <2>3, <2>4 DEF Words
  <2>6. t \in Seq(Refs) /\ DOMAIN t = 1 .. n
    BY <1>2, <2>5
  <2>7. ToSet(t) = {mem[w].ref : w \in a + 2 .. a + 2 + n - 1}
    <3>1. \A w \in a + 2 .. a + 2 + n - 1 : w - a - 1 \in 1 .. n /\ a + 1 + (w - a - 1) = w
      BY <1>2
    <3>2. ToSet(t) = {mem[a + 1 + i].ref : i \in 1 .. n}
      BY <2>6 DEF ToSet
    <3> QED
      BY <3>1, <3>2, <2>4
  <2> HIDE DEF t
  <2>8. /\ <<mem[a].ref>> \o t \in Seq(Refs)
        /\ ToSet(<<mem[a].ref>> \o t) = {mem[a].ref} \cup ToSet(t)
    BY <1>4, <2>6, ConsParts
  <2> QED
    BY <2>1, <2>2, <2>7, <2>8
<1> QED
  BY <1>5, <1>6

LEMMA YoungPushParts ==
  ASSUME TypeOK, NEW y \in Young
  PROVE  /\ YoungPush(young[y]) \in Seq(Refs)
         /\ ToSet(YoungPush(young[y])) = YoungStrong(young[y])
<1>1. young[y] \in YoungObjects
  BY DEF TypeOK
<1>2. young[y].klass \in Refs /\ young[y].slots \in Seq(Refs)
  BY <1>1 DEF YoungObjects
<1>3. CASE young[y].weak
  BY <1>2, <1>3 DEF YoungPush, YoungStrong, ToSet
<1>4. CASE ~young[y].weak
  <2>1. YoungPush(young[y]) = <<young[y].klass>> \o young[y].slots
    BY <1>4 DEF YoungPush
  <2>2. YoungStrong(young[y]) = {young[y].klass} \cup ToSet(young[y].slots)
    BY <1>4 DEF YoungStrong, YoungRefs
  <2> QED
    BY <1>2, <2>1, <2>2, ConsParts
<1> QED
  BY <1>3, <1>4


LEMMA MarkOldKeeps == IInv /\ MarkOld => IInv'
<1> SUFFICES ASSUME IInv, MarkOld PROVE IInv'
  OBVIOUS
<1> DEFINE a == Top
<1>1. TypeOK /\ MarkInv /\ Found /\ Marking
  BY DEF IInv, MarkOld, Marking, MarkInv
<1>2. a \in starts /\ a \in Addr /\ ~Is(mem, a, "marked")
  BY <1>1, TopParts, KindsOfRef DEF MarkOld
<1>3. Parsed(Now) /\ mem \in [Addr -> Words]
  BY <1>1, FoundNow DEF TypeOK
<1>4. \A b \in starts : b \in Int /\ b \in Addr /\ b + 1 \in Addr /\ RefWords(mem, b) \subseteq Addr
  BY <1>3, ObjectInside DEF Now
<1>5. /\ mem' \in [Addr -> Words]
      /\ \A x \in Addr : /\ mem'[x].ref = mem[x].ref
                         /\ mem'[x].size = mem[x].size
                         /\ mem'[x].flags \ {"marked"} = mem[x].flags \ {"marked"}
      /\ mem'[a + 1].flags = mem[a + 1].flags \cup {"marked"}
      /\ \A x \in Addr : x # a + 1 => mem'[x] = mem[x]
  BY <1>2, <1>3, <1>4 DEF MarkOld, Words, Flags
<1>6. \A b \in starts : StrongWords(mem', b) = StrongWords(mem, b)
  <2> SUFFICES ASSUME NEW b \in starts PROVE StrongWords(mem', b) = StrongWords(mem, b)
    OBVIOUS
  <2>1. Size(mem', b) = Size(mem, b)
    BY <1>4, <1>5 DEF Size
  <2>2. \A f : f # "marked" => Is(mem', b, f) = Is(mem, b, f)
    BY <1>4, <1>5 DEF Is
  <2> QED
    BY <2>1, <2>2 DEF StrongWords, RefWords, Slots
<1>7. Marked' = Marked \cup {a}
  <2>1. \A b \in starts : Is(mem', b, "marked") = (b = a \/ Is(mem, b, "marked"))
    BY <1>2, <1>4, <1>5 DEF Is
  <2>2. starts' = starts
    BY DEF MarkOld
  <2> QED
    BY <1>2, <2>1, <2>2 DEF Marked
<1>8. /\ stack' \in Seq(Refs)
      /\ ToSet(stack') = ToSet(Front(stack)) \cup {mem[w].ref : w \in StrongWords(mem, a)}
  <2>1. stack' = Front(stack) \o OldPush(a)
    BY DEF MarkOld
  <2> QED
    BY <2>1, <1>1, <1>2, OldPushParts, TopParts, PushParts
<1>9. Reached \subseteq Reached'
  BY <1>1, <1>7, <1>8, TopParts DEF Reached, MarkOld
<1>10. TypeOK'
  BY <1>1, <1>5, <1>8 DEF TypeOK, MarkOld
<1>11. Found'
  BY <1>1, <1>5 DEF Found, MarkOld
<1>12. ToSet(stack') \subseteq {Nil} \cup starts \cup Young
  BY <1>1, <1>2, <1>8, TopParts, FoundNow, StrongAreRefWords DEF KnownRefs
<1>13. \A b \in Marked' : \A w \in StrongWords(mem', b) : mem'[w].ref \in Reached'
  <2> SUFFICES ASSUME NEW b \in Marked', NEW w \in StrongWords(mem', b)
               PROVE  mem'[w].ref \in Reached'
    OBVIOUS
  <2>1. b \in starts /\ w \in StrongWords(mem, b)
    BY <1>2, <1>6, <1>7 DEF Marked
  <2>2. mem'[w].ref = mem[w].ref
    BY <2>1, <1>4, <1>5, StrongAreRefWords
  <2>3. CASE b = a
    BY <1>8, <2>1, <2>2, <2>3 DEF Reached
  <2>4. CASE b # a
    BY <1>1, <1>7, <1>9, <2>1, <2>2, <2>4 DEF MarkInv
  <2> QED
    BY <2>3, <2>4
<1>14. MarkInv'
  BY <1>1, <1>9, <1>11, <1>12, <1>13 DEF MarkInv, MarkOld
<1> QED
  BY <1>1, <1>10, <1>14 DEF IInv, MarkOld, Marking

LEMMA MarkYoungKeeps == IInv /\ MarkYoung => IInv'
<1> SUFFICES ASSUME IInv, MarkYoung PROVE IInv'
  OBVIOUS
<1> DEFINE y == Top
<1>1. TypeOK /\ MarkInv /\ Found /\ Marking /\ y \in Young
  BY DEF IInv, MarkYoung, Marking, MarkInv
<1>2. /\ stack' \in Seq(Refs)
      /\ ToSet(stack') = ToSet(Front(stack)) \cup YoungStrong(young[y])
  <2>1. stack' = Front(stack) \o YoungPush(young[y])
    BY DEF MarkYoung
  <2> QED
    BY <2>1, <1>1, YoungPushParts, TopParts, PushParts
<1>3. Marked' = Marked /\ seen' = seen \cup {y}
  BY DEF Marked, MarkYoung
<1>4. Reached \subseteq Reached'
  BY <1>1, <1>2, <1>3, TopParts DEF Reached
<1>5. TypeOK'
  BY <1>1, <1>2, <1>3 DEF TypeOK, MarkYoung
<1>6. Found'
  BY <1>1 DEF Found, MarkYoung
<1>7. ToSet(stack') \subseteq {Nil} \cup starts \cup Young
  <2>1. YoungStrong(young[y]) \subseteq YoungRefs(young[y])
    BY DEF YoungStrong, YoungRefs
  <2> QED
    BY <2>1, <1>1, <1>2, TopParts, FoundNow DEF KnownRefs
<1>8. \A z \in seen' : \A r \in YoungStrong(young[z]) : r \in Reached'
  BY <1>1, <1>2, <1>3, <1>4 DEF MarkInv, Reached
<1>9. MarkInv'
  BY <1>1, <1>3, <1>4, <1>6, <1>7, <1>8 DEF MarkInv, MarkYoung
<1> QED
  BY <1>1, <1>5, <1>9 DEF IInv, MarkYoung, Marking

LEMMA MarkNothingKeeps == IInv /\ MarkNothing => IInv'
<1> SUFFICES ASSUME IInv, MarkNothing PROVE IInv'
  OBVIOUS
<1>1. TypeOK /\ MarkInv /\ Found /\ Marking
  BY DEF IInv, MarkNothing, Marking, MarkInv
<1>2. stack' \in Seq(Refs) /\ ToSet(stack') \subseteq {Nil} \cup starts \cup Young
  BY <1>1, TopParts DEF MarkNothing
<1>3. Top \in {Nil} \cup Marked \cup seen
  BY <1>1, TopParts, KindsOfRef DEF MarkNothing, Marked, TypeOK
<1>4. Marked' = Marked
  BY DEF Marked, MarkNothing
<1>5. Reached \subseteq Reached'
  BY <1>1, <1>3, <1>4, TopParts DEF Reached, MarkNothing
<1>6. TypeOK'
  BY <1>1, <1>2 DEF TypeOK, MarkNothing
<1>7. Found'
  BY <1>1 DEF Found, MarkNothing
<1>8. MarkInv'
  BY <1>1, <1>2, <1>4, <1>5, <1>7 DEF MarkInv, MarkNothing
<1> QED
  BY <1>1, <1>6, <1>8 DEF IInv, MarkNothing, Marking


-----------------------------------------------------------------------------
\* The mark is complete: with nothing left on the stack, what is marked or seen is
\* closed, so it holds every object the program can reach.
LEMMA MarkComplete ==
  ASSUME TypeOK, MarkInv, stack = <<>>
  PROVE  /\ Marked \cup seen \subseteq Objects(was)
         /\ Closed(was, Marked \cup seen)
<1> DEFINE S == Marked \cup seen
<1>1. Found /\ Scavenged(was) /\ Reached = {Nil} \cup S
  BY DEF MarkInv, Found, Reached, ToSet
<1>2. S \subseteq Objects(was) /\ Marked \subseteq Addr /\ seen \subseteq Young
  BY <1>1 DEF Marked, Objects, Found, TypeOK
<1>3. Closed(was, S)
  <2>1. \A r \in RootSlots : was.roots[r] \in Objects(was) => was.roots[r] \in S
    <3>1. Nil \notin Objects(was)
      BY <1>1, KindsOfRef DEF Objects, Found, TypeOK
    <3> QED
      BY <3>1, <1>1 DEF MarkInv, Found
  <2>2. ASSUME NEW x \in S
        PROVE  Strong(was, x) \cap Objects(was) \subseteq S
    <3>1. Nil \notin Objects(was)
      BY <1>1, KindsOfRef DEF Objects, Found, TypeOK
    <3>2. CASE x \in Young
      <4>1. x \in seen
        BY <1>2, <3>2, KindsOfRef
      <4>2. Strong(was, x) = YoungStrong(young[x])
        BY <1>1, <3>2 DEF Strong, Found
      <4> QED
        BY <4>1, <4>2, <3>1, <1>1 DEF MarkInv
    <3>3. CASE x \notin Young
      <4>1. x \in Marked /\ x \in starts
        BY <1>2, <3>3 DEF Marked
      <4>2. /\ RefWords(mem, x) = RefWords(was.mem, x)
            /\ Is(mem, x, "weak") = Is(was.mem, x, "weak")
        BY <4>1, <1>1, FoundNow DEF Flags
      <4>3. StrongWords(mem, x) = StrongWords(was.mem, x)
        BY <4>2 DEF StrongWords
      <4>4. RefWords(was.mem, x) \subseteq Addr
        BY <4>1, <1>1, ObjectInside DEF Found, IsHeap
      <4>5. \A w \in StrongWords(was.mem, x) : was.mem[w].ref = mem[w].ref
        BY <4>4, <1>1, StrongAreRefWords DEF Found
      <4>6. Strong(was, x) = {was.mem[w].ref : w \in StrongWords(was.mem, x)}
        BY <3>3 DEF Strong
      <4> QED
        BY <4>1, <4>3, <4>5, <4>6, <3>1, <1>1 DEF MarkInv
    <3> QED
      BY <3>2, <3>3
  <2> QED
    BY <2>1, <2>2 DEF Closed
<1> QED
  BY <1>2, <1>3

\* It holds the whole nursery too.
LEMMA NurserySeen ==
  ASSUME TypeOK, MarkInv, stack = <<>>
  PROVE  Young \subseteq seen
<1> DEFINE S == Marked \cup seen
<1>1. S \subseteq Objects(was) /\ Closed(was, S) /\ Scavenged(was) /\ Marked \subseteq Addr
  BY MarkComplete DEF MarkInv, Found, Marked, TypeOK
<1> HIDE DEF S
<1>2. \A y \in Young : y \in S
  BY <1>1 DEF Scavenged
<1> QED
  BY <1>1, <1>2, KindsOfRef DEF S

\* The weak slots of what is marked are cleared of what is not.
LEMMA ClearedIsKept ==
  ASSUME NEW r \in KnownRefs, starts \subseteq Addr
  PROVE  Cleared(r) \in MarkedRefs
BY DEF KnownRefs, MarkedRefs, Cleared, Marked

LEMMA ClearWeakKeeps == IInv /\ ClearWeak => IInv'
<1> SUFFICES ASSUME IInv, ClearWeak PROVE IInv'
  OBVIOUS
<1>1. TypeOK /\ MarkInv /\ Found /\ stack = <<>>
  BY DEF IInv, ClearWeak, MarkInv
<1>2. Parsed(Now) /\ mem \in [Addr -> Words] /\ starts \subseteq Addr
  BY <1>1, FoundNow DEF TypeOK
<1>3. \A a \in starts : a \in Addr /\ a + 1 \in Addr /\ RefWords(mem, a) \subseteq Addr
  BY <1>2, ObjectInside DEF Now
<1>4. Young = seen /\ Reached = MarkedRefs
  <2>1. ToSet(stack) = {}
    BY <1>1 DEF ToSet
  <2> QED
    BY <1>1, <2>1, NurserySeen DEF Reached, MarkedRefs, TypeOK
<1>5. \A r \in Refs : Cleared(r) \in Refs
  BY DEF Cleared, Refs
<1>6. /\ mem' \in [Addr -> Words]
      /\ \A x \in Addr :
           /\ mem'[x].size = mem[x].size
           /\ mem'[x].flags = mem[x].flags
           /\ mem'[x].ref = IF x \in WeakSlots THEN Cleared(mem[x].ref) ELSE mem[x].ref
  <2>1. \A x \in Addr : mem[x] \in Words /\ mem[x].ref \in Refs
    BY <1>2 DEF Words
  <2>2. \A x \in Addr : mem'[x] = IF x \in WeakSlots THEN [mem[x] EXCEPT !.ref = Cleared(@)]
                                  ELSE mem[x]
    BY DEF ClearWeak
  <2>3. \A x \in Addr : [mem[x] EXCEPT !.ref = Cleared(@)] \in Words
    BY <2>1, <1>5 DEF Words
  <2>4. mem' \in [Addr -> Words]
    BY <2>1, <2>2, <2>3 DEF ClearWeak
  <2> QED
    BY <2>1, <2>2, <2>4 DEF Words
<1>7. \A a \in starts : /\ Size(mem', a) = Size(mem, a)
                        /\ \A f : Is(mem', a, f) = Is(mem, a, f)
                        /\ RefWords(mem', a) = RefWords(mem, a)
  <2> SUFFICES ASSUME NEW a \in starts
               PROVE  /\ Size(mem', a) = Size(mem, a)
                      /\ \A f : Is(mem', a, f) = Is(mem, a, f)
                      /\ RefWords(mem', a) = RefWords(mem, a)
    OBVIOUS
  <2>1. Size(mem', a) = Size(mem, a) /\ \A f : Is(mem', a, f) = Is(mem, a, f)
    BY <1>3, <1>6 DEF Size, Is
  <2> QED
    BY <2>1 DEF RefWords, Slots
<1>8. Marked' = Marked /\ starts' = starts /\ MarkedRefs' = MarkedRefs
  BY <1>7 DEF Marked, MarkedRefs, ClearWeak
<1>9. \A a \in Marked' : \A w \in RefWords(mem', a) : mem'[w].ref \in MarkedRefs
  <2> SUFFICES ASSUME NEW a \in Marked, NEW w \in RefWords(mem, a)
               PROVE  mem'[w].ref \in MarkedRefs
    BY <1>7, <1>8 DEF Marked
  <2>1. a \in starts /\ w \in Addr /\ mem[w].ref \in KnownRefs
    BY <1>1, <1>3, FoundNow DEF Marked
  <2>2. CASE w \in WeakSlots
    BY <2>1, <2>2, <1>2, <1>6, ClearedIsKept
  <2>3. CASE w \notin WeakSlots
    <3>1. w \in StrongWords(mem, a)
      BY <2>3 DEF WeakSlots, StrongWords, RefWords
    <3> QED
      BY <3>1, <2>1, <2>3, <1>1, <1>4, <1>6 DEF MarkInv
  <2> QED
    BY <2>2, <2>3
<1>10. ASSUME NEW y \in Young
       PROVE  YoungCleared(young[y]) \in YoungObjects /\ YoungRefs(YoungCleared(young[y])) \subseteq MarkedRefs
  <2> DEFINE o == young[y]
             t == [i \in DOMAIN o.slots |-> Cleared(o.slots[i])]
  <2>1. o \in YoungObjects /\ o.slots \in Seq(Refs) /\ o.klass \in Refs /\ o.weak \in BOOLEAN
    BY <1>1 DEF TypeOK, YoungObjects
  <2>2. \A r \in YoungStrong(o) : r \in MarkedRefs
    BY <1>1, <1>4 DEF MarkInv
  <2>3. CASE ~o.weak
    BY <2>1, <2>2, <2>3 DEF YoungStrong, YoungCleared
  <2>4. CASE o.weak
    <3>1. \A i \in DOMAIN o.slots : o.slots[i] \in Refs /\ o.slots[i] \in KnownRefs
      <4>1. \A i \in DOMAIN o.slots : o.slots[i] \in YoungRefs(o)
        BY DEF YoungRefs, ToSet
      <4> QED
        BY <4>1, <2>1, <1>1, FoundNow
    <3>2. \A i \in DOMAIN o.slots : Cleared(o.slots[i]) \in Refs /\ Cleared(o.slots[i]) \in MarkedRefs
      BY <3>1, <1>2, <1>5, ClearedIsKept
    <3>3. DOMAIN o.slots = 1 .. Len(o.slots) /\ Len(o.slots) \in Nat
      BY <2>1
    <3>4. t \in Seq(Refs) /\ ToSet(t) \subseteq MarkedRefs
      <4>1. DOMAIN t = DOMAIN o.slots /\ \A i \in DOMAIN t : t[i] \in Refs /\ t[i] \in MarkedRefs
        BY <3>2
      <4> HIDE DEF t
      <4>2. t \in Seq(Refs)
        <5>1. PICK N : N = Len(o.slots) /\ N \in Nat /\ DOMAIN o.slots = 1 .. N
          BY <3>3
        <5>2. t = [i \in 1 .. N |-> t[i]]
          BY <5>1 DEF t
        <5>3. \A i \in 1 .. N : t[i] \in Refs
          BY <4>1, <5>1
        <5> QED
          BY <5>1, <5>2, <5>3
      <4> QED
        BY <4>1, <4>2 DEF ToSet
    <3>5. YoungCleared(o) = [o EXCEPT !.slots = t]
      BY <2>4 DEF YoungCleared
    <3> HIDE DEF t
    <3>6. YoungCleared(o) = [klass |-> o.klass, slots |-> t, weak |-> o.weak]
      BY <3>5, <2>1 DEF YoungObjects
    <3>7. o.klass \in MarkedRefs
      BY <2>2, <2>4 DEF YoungStrong
    <3> QED
      BY <3>4, <3>6, <3>7, <2>1 DEF YoungObjects, YoungRefs
  <2> QED
    BY <2>3, <2>4
<1>11. TypeOK'
  <2>1. young' \in [Young -> YoungObjects]
    BY <1>10 DEF ClearWeak
  <2> QED
    BY <1>1, <1>6, <2>1, SpaceAssumption DEF TypeOK, ClearWeak, Phases
<1>12. Parsed(Now')
  BY <1>2, <1>7, <1>8 DEF Parsed, Now, ClearWeak
<1>13. RefsKept(MarkedRefs)'
  <2>1. \A r \in RootSlots : roots'[r] \in MarkedRefs
    BY <1>1, <1>4 DEF MarkInv, ClearWeak
  <2>2. \A y \in Young : YoungRefs(young'[y]) \subseteq MarkedRefs
    BY <1>10 DEF ClearWeak
  <2> QED
    BY <2>1, <2>2, <1>8 DEF RefsKept
<1>14. \A a \in starts' : Is(was'.mem, a, "immovable") = Is(mem', a, "immovable")
  BY <1>1, <1>7, <1>8, FoundNow DEF ClearWeak, Flags
<1>15. scan' \in starts' \cup {bump'}
  BY <1>2 DEF Parsed, Now, ClearWeak
<1>16. PlanInv'
  <2>1. objs' = <<>> /\ scan' = 0 /\ dest' = 0 /\ moved' = 0
    BY DEF ClearWeak
  <2>2. End(Len(objs))' = 0
    BY <2>1 DEF End
  <2>3. \A a \in Marked' : a >= 0
    BY <1>2, <1>8, SpaceAssumption DEF Marked, Addr
  <2>4. DOMAIN objs' = {}
    BY <2>1
  <2>5. Ordered'
    BY <2>4 DEF Ordered
  <2>6. Parsed(Now)' /\ RefsKept(MarkedRefs)'
    BY <1>12, <1>13
  <2>7. \A a \in Marked' : ~(a < scan')
    BY <2>1, <2>3, <1>2, <1>8 DEF Marked, Addr
  <2> QED
    BY <2>1, <2>2, <2>4, <2>5, <2>6, <2>7, <1>8, <1>9, <1>14, <1>15 DEF PlanInv
<1> QED
  BY <1>11, <1>16 DEF IInv, ClearWeak


-----------------------------------------------------------------------------
\* The plan.

\* What the plan knows of the object under the scan and of those before it.
LEMMA ScanParts ==
  ASSUME TypeOK, PlanInv, Planning
  PROVE  /\ scan \in starts /\ scan \in Addr /\ scan \in Int
         /\ Size(mem, scan) \in Nat /\ Size(mem, scan) >= HeaderWords
         /\ scan + Size(mem, scan) \in starts \cup {bump}
         /\ scan + Size(mem, scan) <= bump /\ bump <= OldMax
         /\ \A a \in starts : a < scan + Size(mem, scan) => a <= scan
         /\ objs \in Seq(Moves) /\ Len(objs) \in Nat /\ DOMAIN objs = 1 .. Len(objs)
         /\ dest \in Nat /\ dest <= scan
<1>1. Parsed(Now) /\ mem \in [Addr -> Words]
  BY DEF PlanInv, TypeOK
<1>2. scan \in starts
  BY DEF PlanInv, Planning, TypeOK
<1>3. /\ scan \in Addr /\ scan \in Int
      /\ Size(mem, scan) \in Nat /\ Size(mem, scan) >= HeaderWords
      /\ scan + Size(mem, scan) <= bump /\ bump <= OldMax
  BY <1>1, <1>2, ObjectInside DEF Now
<1>4. \A a \in starts : a \in Int
  BY <1>1, ObjectInside DEF Now
<1>5. \A a \in starts : a < scan + Size(mem, scan) => a <= scan
  BY <1>1, <1>2, <1>3, <1>4 DEF Parsed, Now
<1>6. scan + Size(mem, scan) \in starts \cup {bump}
  BY <1>1, <1>2 DEF Parsed, Now
<1>7. objs \in Seq(Moves) /\ Len(objs) \in Nat /\ DOMAIN objs = 1 .. Len(objs)
  BY DEF TypeOK
<1>8. dest \in Nat /\ dest <= scan
  BY <1>3 DEF TypeOK
<1> QED
  BY <1>2, <1>3, <1>5, <1>6, <1>7, <1>8

\* The step over an object, when what is appended to the plan fits it.
LEMMA PlanStep ==
  ASSUME TypeOK, PlanInv, Planning,
         NEW to \in Nat, dest <= to, to <= scan,
         to = dest \/ to >= dest + HeaderWords,
         Is(mem, scan, "immovable") => to = scan,
         Is(mem, scan, "marked"),
         to + Size(mem, scan) = scan + Size(mem, scan) \/
           to + Size(mem, scan) + HeaderWords <= scan + Size(mem, scan),
         objs' = Append(objs, [from |-> scan, to |-> to, size |-> Size(mem, scan)]),
         dest' = to + Size(mem, scan),
         scan' = scan + Size(mem, scan),
         UNCHANGED <<phase, mem, bump, starts, roots, young, stack, seen, moved, was, held>>
  PROVE  TypeOK' /\ PlanInv'
<1> DEFINE n == Size(mem, scan)
           o == [from |-> scan, to |-> to, size |-> n]
<1>0. PICK N \in Nat : N = Len(objs)
  BY ScanParts
<1>1. /\ scan \in starts /\ scan \in Addr /\ scan \in Int /\ 0 <= scan
      /\ n \in Nat /\ n >= HeaderWords
      /\ scan + n \in starts \cup {bump}
      /\ scan + n <= bump /\ bump <= OldMax
      /\ \A a \in starts : a < scan + n => a <= scan
      /\ objs \in Seq(Moves) /\ N \in Nat /\ DOMAIN objs = 1 .. N
      /\ dest \in Nat /\ dest <= scan
  BY <1>0, ScanParts, SpaceAssumption DEF Addr
<1>2. to \in Addr
  BY <1>1, SpaceAssumption DEF Addr
<1>3. o \in Moves
  BY <1>1, <1>2 DEF Moves
<1> HIDE DEF o
<1>4. /\ objs' \in Seq(Moves) /\ Len(objs') = N + 1 /\ DOMAIN objs' = 1 .. N + 1
      /\ \A i \in 1 .. N : objs'[i] = objs[i]
      /\ objs'[N + 1] = o
  BY <1>1, <1>3 DEF o
<1>5. o.from = scan /\ o.to = to /\ o.size = n
  BY DEF o
<1>6. /\ \A i \in 0 .. N : End(i)' = End(i)
      /\ End(N + 1)' = to + n
  <2>1. \A i \in 0 .. N : End(i)' = End(i)
    BY <1>1, <1>4 DEF End
  <2>2. End(N + 1)' = to + n
    BY <1>1, <1>4, <1>5 DEF End
  <2> QED
    BY <2>1, <2>2
<1>7. \A i \in 1 .. N : /\ objs[i].from \in Int /\ objs[i].to \in Int /\ objs[i].size \in Nat
                        /\ objs[i].from \in Marked
                        /\ objs[i].size = Size(mem, objs[i].from)
                        /\ objs[i].from + objs[i].size <= scan
                        /\ End(i) = objs[i].to + objs[i].size
                        /\ End(i) <= dest
  <2> SUFFICES ASSUME NEW i \in 1 .. N
               PROVE  /\ objs[i].from \in Int /\ objs[i].to \in Int /\ objs[i].size \in Nat
                      /\ objs[i].from \in Marked
                      /\ objs[i].size = Size(mem, objs[i].from)
                      /\ objs[i].from + objs[i].size <= scan
                      /\ End(i) = objs[i].to + objs[i].size
                      /\ End(i) <= dest
    OBVIOUS
  <2>1. objs[i] \in Moves
    BY <1>1
  <2>2. i # 0
    OBVIOUS
  <2>3. End(i) = objs[i].to + objs[i].size
    BY <2>2 DEF End
  <2>4. objs[i].from \in Int /\ objs[i].to \in Int /\ objs[i].size \in Nat
    BY <2>1, MoveNumbers
  <2>5. i \in DOMAIN objs
    BY <1>1
  <2> QED
    BY <2>3, <2>4, <2>5 DEF PlanInv
<1>8. dest = End(N)
  BY <1>0 DEF PlanInv
<1>9. Hole(N + 1)' = to - dest
  BY <1>1, <1>4, <1>5, <1>6, <1>8 DEF Hole
<1>10. \A i \in 1 .. N : Hole(i)' = Hole(i)
  BY <1>1, <1>4, <1>6, SMTT(30) DEF Hole
<1>11. Ordered'
  <2> SUFFICES ASSUME NEW i \in 1 .. N + 1
               PROVE  /\ objs'[i].to <= objs'[i].from
                      /\ objs'[i].size >= HeaderWords
                      /\ objs'[i].from + objs'[i].size <= OldMax
                      /\ Is(was.mem, objs'[i].from, "immovable") => objs'[i].to = objs'[i].from
                      /\ Hole(i)' = 0 \/ Hole(i)' >= HeaderWords
                      /\ \A j \in 1 .. N + 1 :
                           i < j => /\ objs'[i].from + objs'[i].size <= objs'[j].from
                                    /\ objs'[i].to + objs'[i].size <= objs'[j].to
    BY <1>4 DEF Ordered
  <2>1. CASE i \in 1 .. N
    <3>1. /\ objs[i].to <= objs[i].from
          /\ objs[i].size >= HeaderWords
          /\ objs[i].from + objs[i].size <= OldMax
          /\ Is(was.mem, objs[i].from, "immovable") => objs[i].to = objs[i].from
          /\ Hole(i) = 0 \/ Hole(i) >= HeaderWords
          /\ \A j \in 1 .. N : i < j => /\ objs[i].from + objs[i].size <= objs[j].from
                                        /\ objs[i].to + objs[i].size <= objs[j].to
      BY <1>1, <2>1 DEF PlanInv, Ordered
    <3>2. objs[i].from + objs[i].size <= scan /\ objs[i].to + objs[i].size <= to
      BY <1>1, <1>7, <2>1, SMTT(30)
    <3>3. \A j \in 1 .. N + 1 : j \in 1 .. N \/ j = N + 1
      BY <1>1
    <3> QED
      BY <3>1, <3>2, <3>3, <2>1, <1>4, <1>5, <1>10
  <2>2. CASE i = N + 1
    <3>1. Is(was.mem, scan, "immovable") => to = scan
      BY <1>1 DEF PlanInv
    <3>2. \A j \in 1 .. N + 1 : ~(N + 1 < j)
      BY <1>1
    <3>3. Hole(i)' = 0 \/ Hole(i)' >= HeaderWords
      BY <2>2, <1>1, <1>9 DEF HeaderWords
    <3>4. scan + n <= OldMax
      BY <1>1, SpaceAssumption DEF TypeOK
    <3> QED
      BY <2>2, <3>1, <3>2, <3>3, <3>4, <1>1, <1>4, <1>5
  <2> QED
    BY <1>1, <2>1, <2>2
<1>12. TypeOK'
  <2>1. scan' \in 0 .. OldMax /\ dest' \in 0 .. scan'
    BY <1>1, SpaceAssumption DEF TypeOK
  <2>2. moved' \in 0 .. Len(objs')
    BY <1>1, <1>4 DEF PlanInv
  <2> QED
    BY <2>1, <2>2, <1>4 DEF TypeOK
<1>13. Marked' = Marked /\ MarkedRefs' = MarkedRefs /\ Parsed(Now)' /\ RefsKept(MarkedRefs)'
  BY DEF Marked, MarkedRefs, Parsed, Now, PlanInv, RefsKept
<1>14. scan \in Marked
  BY <1>1 DEF Marked
<1>15. \A i \in DOMAIN objs' : /\ objs'[i].from \in Marked
                               /\ objs'[i].size = Size(mem, objs'[i].from)
                               /\ objs'[i].from + objs'[i].size <= scan'
                               /\ End(i)' <= dest'
  <2> SUFFICES ASSUME NEW i \in 1 .. N + 1
               PROVE  /\ objs'[i].from \in Marked
                      /\ objs'[i].size = Size(mem, objs'[i].from)
                      /\ objs'[i].from + objs'[i].size <= scan'
                      /\ End(i)' <= dest'
    BY <1>4
  <2>1. CASE i \in 1 .. N
    <3>1. End(i)' = End(i) /\ objs'[i] = objs[i]
      BY <1>1, <1>4, <1>6, <2>1
    <3>2. End(i) \in Int
      BY <1>7, <2>1, SMTT(30)
    <3>3. End(i)' <= dest'
      BY <3>1, <3>2, <1>1, <1>7, <2>1
    <3>4. objs[i].from + objs[i].size <= scan'
      BY <1>1, <1>7, <2>1, SMTT(30)
    <3> QED
      BY <1>7, <2>1, <3>1, <3>3, <3>4
  <2>2. CASE i = N + 1
    BY <2>2, <1>1, <1>4, <1>5, <1>6, <1>14
  <2> QED
    BY <1>1, <2>1, <2>2
<1>16. \A a \in Marked : a < scan' => \E i \in DOMAIN objs' : objs'[i].from = a
  <2> SUFFICES ASSUME NEW a \in Marked, a < scan'
               PROVE  \E i \in 1 .. N + 1 : objs'[i].from = a
    BY <1>4
  <2>1. a <= scan /\ a \in Int
    BY <1>1 DEF Marked, TypeOK, Addr
  <2>2. CASE a = scan
    BY <2>2, <1>1, <1>4, <1>5
  <2>3. CASE a < scan
    <3>1. PICK i \in 1 .. N : objs[i].from = a
      BY <1>1, <2>3 DEF PlanInv
    <3>2. i \in 1 .. N + 1 /\ objs'[i] = objs[i]
      BY <1>1, <1>4
    <3> QED
      BY <3>1, <3>2
  <2> QED
    BY <1>1, <2>1, <2>2, <2>3
<1>17. dest' = End(Len(objs))' /\ (dest' = scan' \/ dest' + HeaderWords <= scan')
  BY <1>4, <1>6
<1>18. /\ \A a \in starts' : Is(was'.mem, a, "immovable") = Is(mem', a, "immovable")
       /\ \A a \in Marked' : \A w \in RefWords(mem', a) : mem'[w].ref \in MarkedRefs'
  BY <1>13 DEF PlanInv
<1>19. moved' = 0 /\ scan' \in starts' \cup {bump'}
  BY <1>1 DEF PlanInv
<1>20. PlanInv'
  BY <1>11, <1>13, <1>15, <1>16, <1>17, <1>18, <1>19 DEF PlanInv
<1> QED
  BY <1>12, <1>20

\* An object never steps over a pin: those behind it end at dest or below, those ahead
\* begin where it ends or above, and no hole before them is too small.
LEMMA PlaceIsDest ==
  ASSUME TypeOK, PlanInv, Planning, ~Is(mem, scan, "immovable")
  PROVE  Place(dest, Size(mem, scan)) = dest
<1> DEFINE n == Size(mem, scan)
           places == {dest} \cup {p + Size(mem, p) : p \in Pins}
<1>1. /\ scan \in starts /\ scan \in Int /\ n \in Nat /\ n >= HeaderWords
      /\ scan + n \in starts \cup {bump}
      /\ \A a \in starts : a < scan + n => a <= scan
      /\ DOMAIN objs = 1 .. Len(objs)
      /\ dest \in Nat /\ dest <= scan
  BY ScanParts
<1>2. Parsed(Now) /\ mem \in [Addr -> Words]
  BY DEF PlanInv, TypeOK
<1>3. \A p \in starts : p \in Int /\ Size(mem, p) \in Nat /\ Size(mem, p) >= HeaderWords
                        /\ p + Size(mem, p) <= bump
  BY <1>2, ObjectInside DEF Now
<1>4. ASSUME NEW p \in Pins
      PROVE  (p < scan /\ p + Size(mem, p) <= dest) \/ p >= scan + n
  <2>1. p \in starts /\ p \in Marked /\ p # scan /\ p \in Int
    BY <1>3 DEF Pins, Marked
  <2>2. CASE p < scan
    <3>1. PICK i \in DOMAIN objs : objs[i].from = p
      BY <2>1, <2>2 DEF PlanInv
    <3>2. Is(was.mem, p, "immovable")
      BY <2>1 DEF PlanInv, Pins
    <3>3. objs[i].to = p /\ objs[i].size = Size(mem, p) /\ End(i) <= dest /\ i # 0
      BY <1>1, <3>1, <3>2 DEF PlanInv, Ordered
    <3>4. End(i) = p + Size(mem, p)
      BY <3>3 DEF End
    <3> QED
      BY <2>2, <3>3, <3>4
  <2>3. CASE ~(p < scan)
    BY <1>1, <2>1, <2>3
  <2> QED
    BY <2>2, <2>3
<1>5. \A p \in Pins : p \in starts
  BY DEF Pins, Marked
<1>6. \A p \in Pins : dest + n <= p \/ p + Size(mem, p) <= dest
  <2> TAKE p \in Pins
  <2>1. p \in Int /\ Size(mem, p) \in Nat
    BY <1>3, <1>5
  <2> QED
    BY <1>1, <1>4, <2>1
<1>7. ASSUME NEW p \in Pins, p >= dest + n
      PROVE  p - (dest + n) = 0 \/ p - (dest + n) >= HeaderWords
  <2>1. p \in starts /\ p \in Int /\ p < bump
    <3>1. p \in starts
      BY DEF Pins, Marked
    <3> QED
      BY <3>1, <1>3, <1>2 DEF HeaderWords, Parsed, Now
  <2>2. p >= scan + n
    <3>1. Size(mem, p) \in Nat
      BY <1>3, <1>5
    <3> QED
      BY <1>1, <1>4, <1>7, <2>1, <3>1 DEF HeaderWords
  <2>3. p = scan + n \/ p >= scan + n + HeaderWords
    <3>1. CASE scan + n \in starts
      <4>1. p > scan + n => scan + n + Size(mem, scan + n) <= p
        BY <1>2, <2>1, <3>1 DEF Parsed, Now
      <4>2. PICK e, z : e = scan + n /\ z = Size(mem, scan + n) /\ e \in Int /\ z \in Nat /\ z >= 2
        BY <3>1, <1>1, <1>3 DEF HeaderWords
      <4>3. p = e \/ e + z <= p
        BY <4>1, <4>2, <2>1, <2>2
      <4> QED
        BY <4>2, <4>3, <2>1 DEF HeaderWords
    <3>2. CASE scan + n = bump
      BY <3>2, <2>1, <2>2, <1>1
    <3> QED
      BY <1>1, <3>1, <3>2
  <2>4. dest = scan \/ dest + HeaderWords <= scan
    BY DEF PlanInv
  <2> QED
    BY <1>1, <2>1, <2>3, <2>4 DEF HeaderWords
<1> HIDE DEF n
<1>8. Fits(dest, n)
  BY <1>6, <1>7 DEF Fits
<1>9. dest \in places /\ dest >= dest
  BY <1>1
<1>10. \A e \in places : e \in Int
  BY <1>1, <1>3, <1>5
<1>11. Place(dest, n) = CHOOSE e \in places :
         e >= dest /\ Fits(e, n) /\ \A f \in places : f >= dest /\ Fits(f, n) => e <= f
  BY DEF Place
<1> HIDE DEF places
<1>12. \A e \in places : (e >= dest /\ Fits(e, n) /\ \A f \in places : f >= dest /\ Fits(f, n) => e <= f)
                          <=> e = dest
  BY <1>1, <1>8, <1>9, <1>10
<1> QED
  BY <1>9, <1>11, <1>12 DEF n

LEMMA PlanDeadKeeps == IInv /\ PlanDead => IInv'
<1> SUFFICES ASSUME IInv, PlanDead PROVE IInv'
  OBVIOUS
<1> DEFINE n == Size(mem, scan)
<1>1. TypeOK /\ PlanInv /\ Planning
  BY DEF IInv, PlanDead, Planning
<1>2. /\ scan \in starts /\ scan \in Int /\ n \in Nat /\ n >= HeaderWords
      /\ scan + n \in starts \cup {bump}
      /\ scan + n <= bump /\ bump <= OldMax /\ bump \in Int
      /\ \A a \in starts : a < scan + n => a <= scan
      /\ DOMAIN objs = 1 .. Len(objs)
      /\ dest \in Nat /\ dest <= scan
  BY <1>1, ScanParts DEF TypeOK
<1>3. scan' = scan + n
  BY DEF PlanDead
<1>4. scan' \in 0 .. OldMax /\ dest' \in 0 .. scan'
  BY <1>1, <1>2, <1>3, SpaceAssumption DEF TypeOK, PlanDead
<1>5. TypeOK'
  BY <1>1, <1>4 DEF TypeOK, PlanDead
<1>6. /\ Marked' = Marked /\ MarkedRefs' = MarkedRefs /\ Parsed(Now)'
      /\ RefsKept(MarkedRefs)' /\ Ordered'
      /\ End(Len(objs))' = End(Len(objs))
      /\ \A i \in DOMAIN objs : End(i)' = End(i)
  BY <1>1 DEF Marked, MarkedRefs, Parsed, Now, PlanInv, RefsKept, Ordered, Hole, End, PlanDead
<1>7. dest' = End(Len(objs))' /\ (dest' = scan' \/ dest' + HeaderWords <= scan')
  BY <1>1, <1>2, <1>3, <1>6 DEF PlanInv, PlanDead, HeaderWords
<1>8. \A i \in DOMAIN objs : objs[i].from + objs[i].size <= scan'
  <2>1. \A i \in DOMAIN objs : objs[i] \in Moves
    BY <1>1 DEF TypeOK
  <2>2. \A i \in DOMAIN objs : objs[i].from \in Int /\ objs[i].size \in Int
    BY <2>1, MoveNumbers
  <2> QED
    BY <2>2, <1>1, <1>2, <1>3 DEF PlanInv
<1>9. \A a \in Marked : a < scan' => \E i \in DOMAIN objs : objs[i].from = a
  <2> SUFFICES ASSUME NEW a \in Marked, a < scan'
               PROVE  \E i \in DOMAIN objs : objs[i].from = a
    OBVIOUS
  <2>1. a \in starts /\ a \in Int /\ a # scan
    BY <1>1 DEF Marked, TypeOK, Addr, PlanDead
  <2> QED
    BY <2>1, <1>1, <1>2, <1>3 DEF PlanInv
<1>10. PlanInv'
  BY <1>1, <1>2, <1>3, <1>6, <1>7, <1>8, <1>9 DEF PlanInv, PlanDead
<1> QED
  BY <1>1, <1>5, <1>10 DEF IInv, PlanDead, Planning

LEMMA PlanPinKeeps == IInv /\ PlanPin => IInv'
<1> SUFFICES ASSUME IInv, PlanPin PROVE IInv'
  OBVIOUS
<1> DEFINE n == Size(mem, scan)
<1>1. TypeOK /\ PlanInv /\ Planning
  BY DEF IInv, PlanPin, Planning
<1>2. /\ scan \in Nat /\ n \in Nat /\ n >= HeaderWords
      /\ dest \in Nat /\ dest <= scan
      /\ dest = scan \/ dest + HeaderWords <= scan
  BY <1>1, ScanParts, SpaceAssumption DEF PlanInv, Addr
<1>3. /\ objs' = Append(objs, [from |-> scan, to |-> scan, size |-> n])
      /\ dest' = scan + n
      /\ scan' = scan + n
      /\ UNCHANGED <<phase, mem, bump, starts, roots, young, stack, seen, moved, was, held>>
  BY <1>2 DEF PlanPin, PinTarget, HeaderWords
<1>4. Is(mem, scan, "marked")
  BY DEF PlanPin, Pins, Marked
<1>5. scan = dest \/ scan >= dest + HeaderWords
  BY <1>2 DEF HeaderWords
<1> HIDE DEF n
<1>6. TypeOK' /\ PlanInv'
  BY <1>1, <1>2, <1>3, <1>4, <1>5, PlanStep DEF n
<1> QED
  BY <1>1, <1>3, <1>6 DEF IInv, Planning

LEMMA PlanMoveKeeps == IInv /\ PlanMove => IInv'
<1> SUFFICES ASSUME IInv, PlanMove PROVE IInv'
  OBVIOUS
<1> DEFINE n == Size(mem, scan)
<1>1. TypeOK /\ PlanInv /\ Planning
  BY DEF IInv, PlanMove, Planning
<1>2. /\ scan \in Nat /\ n \in Nat /\ n >= HeaderWords
      /\ dest \in Nat /\ dest <= scan
      /\ dest = scan \/ dest + HeaderWords <= scan
  BY <1>1, ScanParts, SpaceAssumption DEF PlanInv, Addr
<1>3. Place(dest, n) = dest
  BY <1>1, PlaceIsDest DEF PlanMove
<1>4. /\ objs' = Append(objs, [from |-> scan, to |-> dest, size |-> n])
      /\ dest' = dest + n
      /\ scan' = scan + n
      /\ UNCHANGED <<phase, mem, bump, starts, roots, young, stack, seen, moved, was, held>>
  BY <1>3 DEF PlanMove, After
<1>5. Is(mem, scan, "marked") /\ ~Is(mem, scan, "immovable")
  BY DEF PlanMove
<1>6. dest + n = scan + n \/ dest + n + HeaderWords <= scan + n
  BY <1>2 DEF HeaderWords
<1> HIDE DEF n
<1>7. TypeOK' /\ PlanInv'
  BY <1>1, <1>2, <1>4, <1>5, <1>6, PlanStep DEF n
<1> QED
  BY <1>1, <1>4, <1>7 DEF IInv, Planning


-----------------------------------------------------------------------------
\* Forwarding.

LEMMA ForwardKept ==
  ASSUME TypeOK
  PROVE  /\ \A r \in Refs : Forward(r) \in Refs
         /\ PlanInv /\ scan = bump => \A r \in MarkedRefs : Forward(r) \in TargetRefs
<1>1. \A i \in DOMAIN objs : objs[i] \in Moves
  BY DEF TypeOK
<1>2. \A i \in DOMAIN objs : objs[i].from \in Addr /\ objs[i].to \in Addr
  BY <1>1, MoveNumbers
<1>3. \A r : (\E i \in DOMAIN objs : objs[i].from = r) => Forward(r) \in Targets
  <2> SUFFICES ASSUME NEW r, \E i \in DOMAIN objs : objs[i].from = r
               PROVE  Forward(r) \in Targets
    OBVIOUS
  <2>1. PICK i \in DOMAIN objs : i = CHOOSE j \in DOMAIN objs : objs[j].from = r
    OBVIOUS
  <2> QED
    BY <2>1 DEF Forward, Targets
<1>4. \A r : ~(\E i \in DOMAIN objs : objs[i].from = r) => Forward(r) = r
  BY DEF Forward
<1>5. \A r \in Refs : Forward(r) \in Refs
  BY <1>2, <1>3, <1>4 DEF Targets, Refs
<1>6. ASSUME PlanInv, scan = bump, NEW r \in MarkedRefs
      PROVE  Forward(r) \in TargetRefs
  <2>1. CASE r \in Marked
    <3>1. r < bump
      <4>1. Parsed(Now) /\ mem \in [Addr -> Words] /\ r \in starts
        BY <1>6, <2>1 DEF PlanInv, TypeOK, Marked
      <4>2. r \in Int /\ Size(mem, r) \in Nat /\ Size(mem, r) >= 2 /\ r + Size(mem, r) <= bump
        BY <4>1, ObjectInside DEF Now, HeaderWords
      <4> QED
        BY <4>2 DEF TypeOK
    <3>2. \E i \in DOMAIN objs : objs[i].from = r
      BY <1>6, <2>1, <3>1 DEF PlanInv
    <3> QED
      BY <3>2, <1>3 DEF TargetRefs
  <2>2. CASE r \in {Nil} \cup Young
    <3>1. r \notin Addr
      BY <2>2, KindsOfRef
    <3> QED
      BY <3>1, <2>2, <1>2, <1>4 DEF TargetRefs
  <2> QED
    BY <1>6, <2>1, <2>2 DEF MarkedRefs
<1> QED
  BY <1>5, <1>6

LEMMA UpdateKeeps == IInv /\ Update => IInv'
<1> SUFFICES ASSUME IInv, Update PROVE IInv'
  OBVIOUS
<1> DEFINE words == UNION {RefWords(mem, a) : a \in Marked}
<1>1. TypeOK /\ PlanInv /\ scan = bump
  BY DEF IInv, Update
<1>2. Parsed(Now) /\ mem \in [Addr -> Words]
  BY <1>1 DEF PlanInv, TypeOK
<1>3. \A a \in starts : a + 1 \in Addr /\ RefWords(mem, a) \subseteq Addr
  BY <1>2, ObjectInside DEF Now
<1>4. /\ \A r \in Refs : Forward(r) \in Refs
      /\ \A r \in MarkedRefs : Forward(r) \in TargetRefs
  BY <1>1, ForwardKept
<1>5. /\ mem' \in [Addr -> Words]
      /\ \A x \in Addr :
           /\ mem'[x].size = mem[x].size
           /\ mem'[x].flags = mem[x].flags
           /\ x \in words => mem'[x].ref = Forward(mem[x].ref)
  <2>1. \A x \in Addr : mem[x] \in Words /\ mem[x].ref \in Refs
    BY <1>2 DEF Words
  <2>2. \A x \in Addr : mem'[x] = IF x \in words THEN [mem[x] EXCEPT !.ref = Forward(@)]
                                  ELSE mem[x]
    BY DEF Update
  <2>3. \A x \in Addr : [mem[x] EXCEPT !.ref = Forward(@)] \in Words
    BY <2>1, <1>4 DEF Words
  <2>4. mem' \in [Addr -> Words]
    BY <2>1, <2>2, <2>3 DEF Update
  <2> HIDE DEF words
  <2> QED
    BY <2>1, <2>2, <2>4 DEF Words
<1>6. \A a \in starts : Size(mem', a) = Size(mem, a) /\ RefWords(mem', a) = RefWords(mem, a)
  BY <1>3, <1>5 DEF Size, RefWords, Slots, Is
<1>7. ASSUME NEW y \in Young
      PROVE  young'[y] \in YoungObjects /\ YoungRefs(young'[y]) \subseteq TargetRefs
  <2> DEFINE o == young[y]
             t == [i \in DOMAIN o.slots |-> Forward(o.slots[i])]
  <2>1. o \in YoungObjects /\ o.slots \in Seq(Refs) /\ o.klass \in Refs /\ o.weak \in BOOLEAN
    BY <1>1 DEF TypeOK, YoungObjects
  <2>2. YoungRefs(o) \subseteq MarkedRefs
    BY <1>1 DEF PlanInv, RefsKept
  <2>3. /\ DOMAIN o.slots = 1 .. Len(o.slots) /\ Len(o.slots) \in Nat
        /\ \A i \in DOMAIN o.slots : o.slots[i] \in Refs /\ o.slots[i] \in MarkedRefs
    BY <2>1, <2>2 DEF YoungRefs, ToSet
  <2>4. DOMAIN t = DOMAIN o.slots /\ \A i \in DOMAIN t : t[i] \in Refs /\ t[i] \in TargetRefs
    BY <2>3, <1>4
  <2>5. young'[y] = [o EXCEPT !.klass = Forward(@), !.slots = t]
    BY DEF Update
  <2>6. young'[y] = [klass |-> Forward(o.klass), slots |-> t, weak |-> o.weak]
    BY <2>1, <2>5 DEF YoungObjects
  <2>7. t = [i \in 1 .. Len(o.slots) |-> t[i]]
    BY <2>3
  <2> HIDE DEF t
  <2>8. t \in Seq(Refs) /\ ToSet(t) \subseteq TargetRefs
    BY <2>3, <2>4, <2>7 DEF ToSet
  <2>9. Forward(o.klass) \in Refs /\ Forward(o.klass) \in TargetRefs
    BY <1>4, <2>1, <2>2 DEF YoungRefs
  <2> QED
    BY <2>1, <2>6, <2>8, <2>9 DEF YoungObjects, YoungRefs
<1>8. \A r \in RootSlots : roots'[r] \in Refs /\ roots'[r] \in TargetRefs
  BY <1>1, <1>4 DEF Update, ForwardRoot, TypeOK, PlanInv, RefsKept
<1>9. TypeOK'
  <2>1. roots' \in [RootSlots -> Refs]
    BY <1>8 DEF Update
  <2>2. young' \in [Young -> YoungObjects]
    BY <1>7 DEF Update
  <2> QED
    BY <1>1, <1>5, <2>1, <2>2 DEF TypeOK, Update, Phases
<1>10. TargetRefs' = TargetRefs /\ Ordered'
  <2>1. objs' = objs /\ was' = was
    BY DEF Update
  <2>2. TargetRefs' = TargetRefs
    BY <2>1 DEF TargetRefs, Targets
  <2>3. Ordered
    BY <1>1 DEF PlanInv
  <2>4. Ordered'
    BY <2>1, <2>3 DEF Ordered, Hole, End
  <2> QED
    BY <2>2, <2>4
<1>11. RefsKept(TargetRefs)'
  BY <1>7, <1>8, <1>10 DEF RefsKept
<1>12. ASSUME NEW i \in DOMAIN objs
       PROVE  /\ objs[i].size = Size(held', objs[i].from)
              /\ \A w \in RefWords(held', objs[i].from) : held'[w].ref \in TargetRefs
  <2> DEFINE a == objs[i].from
  <2>1. a \in Marked /\ a \in starts /\ objs[i].size = Size(mem, a)
    BY <1>1 DEF PlanInv, Marked
  <2> HIDE DEF a
  <2>2. held' = mem'
    BY DEF Update
  <2>3. \A w \in RefWords(mem, a) : w \in Addr /\ w \in words /\ mem[w].ref \in MarkedRefs
    BY <2>1, <1>1, <1>3 DEF PlanInv
  <2> HIDE DEF words
  <2>4. \A w \in RefWords(mem, a) : mem'[w].ref \in TargetRefs
    BY <2>3, <1>4, <1>5
  <2>5. objs[i].size = Size(held', a) /\ \A w \in RefWords(held', a) : held'[w].ref \in TargetRefs
    BY <2>1, <2>2, <2>4, <1>6
  <2> QED
    BY <2>5 DEF a
<1>13. MovesKeepObjects'
  <2>1. moved' = 0 /\ held' = mem' /\ objs' = objs
    BY <1>1 DEF Update, PlanInv
  <2>2. \A i \in DOMAIN objs : i \in Nat /\ ~(i <= 0)
    BY <1>1 DEF TypeOK
  <2> QED
    BY <2>1, <2>2 DEF MovesKeepObjects
<1>14. MoveInv'
  <2>1. objs' = objs
    BY DEF Update
  <2> QED
    BY <2>1, <1>10, <1>11, <1>12, <1>13 DEF MoveInv
<1> QED
  BY <1>9, <1>14 DEF IInv, Update


-----------------------------------------------------------------------------
\* The moves.

\* Where a planned object comes from and goes to.
LEMMA PlannedParts ==
  ASSUME TypeOK, Ordered, NEW i \in DOMAIN objs
  PROVE  /\ i \in Nat /\ 1 <= i /\ i <= Len(objs)
         /\ objs[i].from \in Int /\ objs[i].to \in Int /\ objs[i].size \in Int
         /\ 0 <= objs[i].to /\ objs[i].to <= objs[i].from
         /\ objs[i].size >= 2
         /\ objs[i].from + objs[i].size <= OldMax
         /\ End(i) = objs[i].to + objs[i].size
         /\ \A k \in 0 .. objs[i].size - 1 : /\ objs[i].from + k \in Addr
                                             /\ objs[i].to + k \in Addr
<1>1. objs[i] \in Moves /\ i \in Nat /\ 1 <= i /\ i <= Len(objs)
  BY DEF TypeOK
<1>2. objs[i].from \in Int /\ objs[i].to \in Int /\ objs[i].size \in Nat /\ objs[i].to \in Addr
  BY <1>1, MoveNumbers
<1>3. /\ objs[i].to <= objs[i].from /\ objs[i].size >= 2
      /\ objs[i].from + objs[i].size <= OldMax
  BY DEF Ordered, HeaderWords
<1>4. 0 <= objs[i].to
  BY <1>2, SpaceAssumption DEF Addr
<1>5. End(i) = objs[i].to + objs[i].size
  BY <1>1 DEF End
<1>6. \A k \in 0 .. objs[i].size - 1 : /\ objs[i].from + k \in Addr
                                       /\ objs[i].to + k \in Addr
  BY <1>2, <1>3, <1>4, SpaceAssumption DEF Addr
<1> QED
  BY <1>1, <1>2, <1>3, <1>4, <1>5, <1>6

LEMMA MoveOneKeeps == IInv /\ MoveOne => IInv'
<1> SUFFICES ASSUME IInv, MoveOne PROVE IInv'
  OBVIOUS
<1>1. TypeOK /\ MoveInv /\ Ordered /\ MovesKeepObjects /\ phase = "move"
  BY DEF IInv, MoveOne, MoveInv
<1>2. PICK c : c = moved + 1 /\ c \in DOMAIN objs /\ moved \in Nat
  BY <1>1 DEF MoveOne, TypeOK
<1> DEFINE o == objs[c]
           n == o.size
<1>3. /\ o.from \in Int /\ o.to \in Int /\ n \in Int
      /\ 0 <= o.to /\ o.to <= o.from /\ n >= 2
      /\ \A k \in 0 .. n - 1 : o.from + k \in Addr /\ o.to + k \in Addr
  BY <1>1, <1>2, PlannedParts
<1>4. \A k \in 0 .. n - 1 : mem[o.from + k] = held[o.from + k]
  BY <1>1, <1>2 DEF MovesKeepObjects
<1>5. Size(mem, o.from) = n
  <2>1. mem[o.from + 1] = held[o.from + 1]
    BY <1>3, <1>4
  <2> QED
    BY <2>1, <1>1, <1>2 DEF Size, MoveInv
<1>6. \A x \in Addr : mem'[x] = IF x \notin o.to .. o.to + n - 1 THEN mem[x]
                                ELSE IF x = o.to + 1 THEN Unmarked(mem[o.from + 1])
                                ELSE mem[o.from + (x - o.to)]
  BY <1>2, <1>5 DEF MoveOne
<1>7. mem' \in [Addr -> Words]
  <2>1. ASSUME NEW x \in Addr PROVE mem'[x] \in Words
    <3>1. CASE x \notin o.to .. o.to + n - 1
      BY <3>1, <1>1, <1>6 DEF TypeOK
    <3>2. CASE x \in o.to .. o.to + n - 1
      <4>1. x - o.to \in 0 .. n - 1
        BY <1>3, <3>2
      <4>2. o.from + (x - o.to) \in Addr /\ o.from + 1 \in Addr
        BY <1>3, <4>1
      <4>3. mem[o.from + (x - o.to)] \in Words /\ mem[o.from + 1] \in Words
        BY <4>2, <1>1 DEF TypeOK
      <4>4. Unmarked(mem[o.from + 1]) \in Words
        BY <4>3 DEF Unmarked, Words
      <4> HIDE DEF o
      <4> QED
        BY <3>2, <4>3, <4>4, <1>6
    <3> QED
      BY <3>1, <3>2
  <2>2. mem' = [x \in Addr |-> mem'[x]]
    BY DEF MoveOne
  <2> QED
    BY <2>1, <2>2
<1>8. moved' = moved + 1 /\ objs' = objs /\ held' = held /\ phase' = "move"
  BY <1>1 DEF MoveOne
<1>9. TypeOK'
  BY <1>1, <1>2, <1>7, <1>8 DEF TypeOK, MoveOne
<1>10. ASSUME NEW i \in DOMAIN objs, NEW k \in 0 .. objs[i].size - 1
       PROVE  IF i <= moved + 1
              THEN mem'[objs[i].to + k] = IF k = 1 THEN Unmarked(held[objs[i].from + 1])
                                          ELSE held[objs[i].from + k]
              ELSE mem'[objs[i].from + k] = held[objs[i].from + k]
  <2>1. /\ i \in Nat /\ objs[i].from \in Int /\ objs[i].to \in Int /\ objs[i].size \in Int
        /\ objs[i].to + k \in Addr /\ objs[i].from + k \in Addr
        /\ objs[i].to <= objs[i].from
    BY <1>1, PlannedParts
  <2>2. CASE i = c
    <3>1. /\ o.to + k \in Addr /\ o.to + k \in o.to .. o.to + n - 1
          /\ o.from + ((o.to + k) - o.to) = o.from + k
          /\ (o.to + k = o.to + 1) = (k = 1)
      BY <2>1, <2>2, <1>3
    <3>2. mem'[o.to + k] = IF k = 1 THEN Unmarked(mem[o.from + 1]) ELSE mem[o.from + k]
      BY <3>1, <1>6
    <3>3. mem[o.from + k] = held[o.from + k] /\ mem[o.from + 1] = held[o.from + 1]
      BY <2>2, <1>3, <1>4
    <3>4. i <= moved + 1
      BY <2>2, <1>2
    <3> QED
      BY <2>2, <3>2, <3>3, <3>4
  <2>3. CASE i < c
    <3>1. objs[i].to + objs[i].size <= o.to
      BY <1>1, <1>2, <2>3 DEF Ordered
    <3>2. objs[i].to + k \notin o.to .. o.to + n - 1
      BY <3>1, <1>3, <2>1
    <3>3. mem'[objs[i].to + k] = mem[objs[i].to + k]
      BY <3>2, <1>6, <2>1
    <3>4. i <= moved /\ i <= moved + 1
      BY <2>1, <2>3, <1>2
    <3> QED
      BY <3>3, <3>4, <1>1 DEF MovesKeepObjects
  <2>4. CASE c < i
    <3>1. o.from + n <= objs[i].from
      BY <1>1, <1>2, <2>4 DEF Ordered
    <3>2. objs[i].from + k \notin o.to .. o.to + n - 1
      BY <3>1, <1>3, <2>1
    <3>3. mem'[objs[i].from + k] = mem[objs[i].from + k]
      BY <3>2, <1>6, <2>1
    <3>4. ~(i <= moved) /\ ~(i <= moved + 1)
      BY <2>1, <2>4, <1>2
    <3> QED
      BY <3>3, <3>4, <1>1 DEF MovesKeepObjects
  <2> QED
    BY <2>1, <2>2, <2>3, <2>4, <1>2
<1>11. MovesKeepObjects'
  BY <1>8, <1>10 DEF MovesKeepObjects
<1>12. Ordered' /\ TargetRefs' = TargetRefs /\ RefsKept(TargetRefs)'
  BY <1>1, <1>8 DEF MoveInv, Ordered, Hole, End, TargetRefs, Targets, RefsKept, MoveOne
<1>13. MoveInv'
  BY <1>1, <1>8, <1>11, <1>12 DEF MoveInv
<1> QED
  BY <1>8, <1>9, <1>13 DEF IInv


-----------------------------------------------------------------------------
\* The holes.

\* Ends grow with the plan, and a hole lies between two objects of it.
LEMMA HoleParts ==
  ASSUME TypeOK, Ordered
  PROVE  /\ End(0) = 0
         /\ \A i \in 0 .. Len(objs) : End(i) \in Nat /\ End(i) <= OldMax
         /\ \A i \in DOMAIN objs : /\ i - 1 \in 0 .. Len(objs)
                                   /\ End(i - 1) + Hole(i) = objs[i].to
                                   /\ Hole(i) = 0 \/ Hole(i) >= 2
         /\ \A i \in 0 .. Len(objs), j \in DOMAIN objs : i < j => End(i) <= objs[j].to
         /\ \A i, j \in 0 .. Len(objs) : i <= j => End(i) <= End(j)
<1> DEFINE N == Len(objs)
<1>1. N \in Nat /\ DOMAIN objs = 1 .. N
  BY DEF TypeOK
<1>2. End(0) = 0
  BY DEF End
<1>3. \A i \in 1 .. N : /\ objs[i].to \in Int /\ objs[i].size \in Int
                        /\ 0 <= objs[i].to /\ objs[i].to <= objs[i].from /\ objs[i].size >= 2
                        /\ objs[i].from \in Int /\ objs[i].from + objs[i].size <= OldMax
                        /\ End(i) = objs[i].to + objs[i].size
  BY <1>1, PlannedParts
<1>4. ASSUME NEW i \in 0 .. N PROVE End(i) \in Nat /\ End(i) <= OldMax
  <2>1. CASE i = 0
    BY <2>1, <1>2, SpaceAssumption
  <2>2. CASE i # 0
    <3>1. i \in 1 .. N
      BY <2>2, <1>1
    <3>2. PICK f, t, n : f = objs[i].from /\ t = objs[i].to /\ n = objs[i].size
      OBVIOUS
    <3>3. /\ f \in Int /\ t \in Int /\ n \in Int /\ 0 <= t /\ t <= f /\ n >= 2
          /\ f + n <= OldMax /\ End(i) = t + n
      BY <3>1, <3>2, <1>3
    <3> QED
      BY <3>3, SpaceAssumption
  <2> QED
    BY <2>1, <2>2
<1>5. ASSUME NEW i \in 0 .. N, NEW j \in 1 .. N, i < j
      PROVE  End(i) <= objs[j].to
  <2>1. CASE i = 0
    BY <2>1, <1>2, <1>3
  <2>2. CASE i # 0
    <3>1. i \in 1 .. N
      BY <2>2, <1>1
    <3> QED
      BY <3>1, <1>1, <1>3, <1>5 DEF Ordered
  <2> QED
    BY <2>1, <2>2
<1>6. ASSUME NEW i \in 0 .. N, NEW j \in 0 .. N, i <= j
      PROVE  End(i) <= End(j)
  <2>1. CASE i = j
    BY <2>1, <1>4
  <2>2. CASE i < j
    <3>1. j \in 1 .. N
      BY <2>2, <1>1
    <3>2. End(i) <= objs[j].to
      BY <3>1, <2>2, <1>5
    <3> QED
      BY <3>1, <3>2, <1>3, <1>4
  <2> QED
    BY <1>6, <2>1, <2>2
<1>7. ASSUME NEW i \in 1 .. N
      PROVE  /\ i - 1 \in 0 .. N
             /\ End(i - 1) + Hole(i) = objs[i].to
             /\ Hole(i) = 0 \/ Hole(i) >= 2
  <2>1. i - 1 \in 0 .. N
    BY <1>1
  <2>2. End(i - 1) \in Nat /\ objs[i].to \in Int
    BY <2>1, <1>3, <1>4
  <2>3. Hole(i) = objs[i].to - End(i - 1)
    BY DEF Hole
  <2>4. Hole(i) = 0 \/ Hole(i) >= 2
    BY <1>1 DEF Ordered, HeaderWords
  <2> QED
    BY <2>1, <2>2, <2>3, <2>4
<1> QED
  BY <1>1, <1>2, <1>4, <1>5, <1>6, <1>7

\* A filler starts where the object before its hole ends, and ends where the next one
\* starts.
LEMMA FillerParts ==
  ASSUME TypeOK, Ordered, NEW i \in Holes
  PROVE  /\ i \in DOMAIN objs /\ i - 1 \in 0 .. Len(objs) /\ i \in Nat
         /\ End(i - 1) \in Fillers /\ End(i - 1) \in Nat
         /\ Filler(End(i - 1)) = i
         /\ Hole(i) \in Nat /\ Hole(i) >= 2
         /\ End(i - 1) + Hole(i) = objs[i].to
         /\ \A j \in Holes : i < j => End(i - 1) + 2 <= End(j - 1)
<1>1. \A j \in Holes : /\ j \in DOMAIN objs /\ j - 1 \in 0 .. Len(objs) /\ j \in Nat
                       /\ End(j - 1) \in Nat /\ objs[j].to \in Int
                       /\ Hole(j) \in Nat /\ Hole(j) >= 2
                       /\ End(j - 1) + Hole(j) = objs[j].to
  <2> SUFFICES ASSUME NEW j \in Holes
               PROVE  /\ j \in DOMAIN objs /\ j - 1 \in 0 .. Len(objs) /\ j \in Nat
                      /\ End(j - 1) \in Nat /\ objs[j].to \in Int
                      /\ Hole(j) \in Nat /\ Hole(j) >= 2
                      /\ End(j - 1) + Hole(j) = objs[j].to
    OBVIOUS
  <2>1. j \in DOMAIN objs /\ Hole(j) >= 2
    BY DEF Holes, HeaderWords
  <2>2. j - 1 \in 0 .. Len(objs) /\ End(j - 1) + Hole(j) = objs[j].to
    BY <2>1, HoleParts
  <2>3. End(j - 1) \in Nat
    BY <2>2, HoleParts
  <2>4. objs[j].to \in Int /\ j \in Nat
    BY <2>1, PlannedParts
  <2>5. Hole(j) \in Nat
    BY <2>1, <2>3, <2>4 DEF Hole
  <2> QED
    BY <2>1, <2>2, <2>3, <2>4, <2>5
<1>2. \A j, l \in Holes : j < l => End(j - 1) + 2 <= End(l - 1)
  <2> SUFFICES ASSUME NEW j \in Holes, NEW l \in Holes, j < l
               PROVE  End(j - 1) + 2 <= End(l - 1)
    OBVIOUS
  <2>a. /\ j \in Nat /\ j \in DOMAIN objs /\ End(j - 1) \in Nat
        /\ Hole(j) \in Nat /\ Hole(j) >= 2 /\ End(j - 1) + Hole(j) = objs[j].to
        /\ objs[j].to \in Int
    BY <1>1
  <2>b. l \in Nat /\ End(l - 1) \in Nat /\ l - 1 \in 0 .. Len(objs)
    BY <1>1
  <2>c. j <= Len(objs)
    BY <2>a, PlannedParts
  <2>d. Len(objs) \in Nat
    BY DEF TypeOK
  <2>0. /\ j \in Nat /\ l \in Nat /\ j <= Len(objs) /\ Len(objs) \in Nat
        /\ End(j - 1) \in Nat /\ End(l - 1) \in Nat
        /\ Hole(j) \in Nat /\ Hole(j) >= 2 /\ End(j - 1) + Hole(j) = objs[j].to
        /\ objs[j].to \in Int /\ l - 1 \in 0 .. Len(objs)
    BY <2>a, <2>b, <2>c, <2>d
  <2>1. j <= l - 1 /\ j \in 0 .. Len(objs)
    BY <2>0
  <2>2. End(j) <= End(l - 1)
    BY <2>0, <2>1, HoleParts
  <2>3. End(j) = objs[j].to + objs[j].size /\ objs[j].size >= 2 /\ objs[j].size \in Int
    BY <1>1, PlannedParts
  <2> QED
    BY <2>0, <2>2, <2>3, SMTT(30)
<1>3. End(i - 1) \in Fillers
  BY DEF Fillers
<1>4. Filler(End(i - 1)) = i
  <2>1. \A j \in Holes : End(j - 1) = End(i - 1) => j = i
    <3> TAKE j \in Holes
    <3>1. j < i => End(j - 1) + 2 <= End(i - 1)
      BY <1>2
    <3>2. i < j => End(i - 1) + 2 <= End(j - 1)
      BY <1>2
    <3> QED
      BY <3>1, <3>2, <1>1, SMTT(30)
  <2> QED
    BY <2>1 DEF Filler
<1> QED
  BY <1>1, <1>2, <1>3, <1>4

\* What filling writes: the headers of the fillers, and nothing over an object.
LEMMA FillWrites ==
  ASSUME TypeOK, MoveInv, Fill
  PROVE  /\ mem' \in [Addr -> Words]
         /\ \A i \in Holes : /\ End(i - 1) \in Addr /\ End(i - 1) + 1 \in Addr
                             /\ mem'[End(i - 1)].ref = Nil
                             /\ mem'[End(i - 1) + 1].size = Hole(i) - 2
                             /\ mem'[End(i - 1) + 1].flags = {"bytes"}
                             /\ mem'[End(i - 1) + 1].hash = 0
         /\ \A i \in DOMAIN objs : \A k \in 0 .. objs[i].size - 1 :
              mem'[objs[i].to + k] = IF k = 1 THEN Unmarked(held[objs[i].from + 1])
                                     ELSE held[objs[i].from + k]
<1>1. Ordered /\ MovesKeepObjects /\ phase = "move" /\ moved = Len(objs)
  BY DEF MoveInv, Fill
<1>2. \A x \in Addr :
        mem'[x] = IF x \in Fillers THEN [mem[x] EXCEPT !.ref = Nil]
                  ELSE IF x - 1 \in Fillers
                  THEN [mem[x] EXCEPT !.size = FillerSize(Filler(x - 1)),
                                      !.flags = {"bytes"}, !.hash = 0]
                  ELSE mem[x]
  BY DEF Fill
<1>3. \A x \in Addr : mem[x] \in Words
  BY DEF TypeOK
<1>4. \A a \in Fillers : \E i \in Holes : a = End(i - 1) /\ Filler(a) = i /\ FillerSize(i) \in Nat
  <2> SUFFICES ASSUME NEW i \in Holes
               PROVE  Filler(End(i - 1)) = i /\ FillerSize(i) \in Nat
    BY DEF Fillers
  <2> QED
    BY <1>1, FillerParts DEF FillerSize, HeaderWords
<1>5. mem' \in [Addr -> Words]
  <2>1. ASSUME NEW x \in Addr PROVE mem'[x] \in Words
    <3>1. CASE x \in Fillers
      <4>1. mem'[x] = [mem[x] EXCEPT !.ref = Nil]
        BY <3>1, <1>2
      <4> QED
        BY <4>1, <1>3 DEF Words, Refs
    <3>2. CASE x \notin Fillers /\ x - 1 \in Fillers
      <4>1. FillerSize(Filler(x - 1)) \in Nat
        BY <3>2, <1>4
      <4>2. mem'[x] = [mem[x] EXCEPT !.size = FillerSize(Filler(x - 1)),
                                     !.flags = {"bytes"}, !.hash = 0]
        BY <3>2, <1>2
      <4>3. mem[x] \in Words
        BY <1>3
      <4>4. mem'[x] = [ref |-> mem[x].ref, size |-> FillerSize(Filler(x - 1)),
                       flags |-> {"bytes"}, hash |-> 0]
        BY <4>2, <4>3 DEF Words
      <4> QED
        BY <4>1, <4>3, <4>4 DEF Words, Flags
    <3>3. CASE x \notin Fillers /\ x - 1 \notin Fillers
      BY <3>3, <1>2, <1>3
    <3> QED
      BY <3>1, <3>2, <3>3
  <2>2. mem' = [x \in Addr |-> mem'[x]]
    BY DEF Fill
  <2> QED
    BY <2>1, <2>2
<1>6. ASSUME NEW i \in Holes
      PROVE  /\ End(i - 1) \in Addr /\ End(i - 1) + 1 \in Addr
             /\ mem'[End(i - 1)].ref = Nil
             /\ mem'[End(i - 1) + 1].size = Hole(i) - 2
             /\ mem'[End(i - 1) + 1].flags = {"bytes"}
             /\ mem'[End(i - 1) + 1].hash = 0
  <2> DEFINE a == End(i - 1)
  <2>1. /\ i \in DOMAIN objs /\ a \in Fillers /\ a \in Nat /\ Filler(a) = i
        /\ Hole(i) \in Nat /\ Hole(i) >= 2 /\ a + Hole(i) = objs[i].to
    BY <1>1, FillerParts
  <2>2. objs[i].to \in Int /\ objs[i].size \in Int /\ objs[i].size >= 2
        /\ objs[i].to + objs[i].size <= OldMax
    <3>1. /\ objs[i].to \in Int /\ objs[i].size \in Int /\ objs[i].size >= 2
          /\ objs[i].from \in Int /\ objs[i].to <= objs[i].from
          /\ objs[i].from + objs[i].size <= OldMax
      BY <1>1, <2>1, PlannedParts
    <3> QED
      BY <3>1, SpaceAssumption
  <2>3. a \in Addr /\ a + 1 \in Addr
    BY <2>1, <2>2, SpaceAssumption DEF Addr
  <2>4. a + 1 \notin Fillers
    <3> SUFFICES ASSUME NEW j \in Holes, a + 1 = End(j - 1)
                 PROVE  FALSE
      BY DEF Fillers
    <3>1. j \in Nat /\ End(j - 1) \in Nat /\ i \in Nat
      BY <1>1, FillerParts
    <3>2. i < j => a + 2 <= End(j - 1)
      BY <1>1, FillerParts
    <3>3. j < i => End(j - 1) + 2 <= a
      BY <1>1, FillerParts
    <3> QED
      BY <3>1, <3>2, <3>3, <2>1
  <2> HIDE DEF a
  <2>5. mem'[a] = [mem[a] EXCEPT !.ref = Nil]
    BY <2>1, <2>3, <1>2
  <2>6. mem'[a + 1] = [mem[a + 1] EXCEPT !.size = FillerSize(i), !.flags = {"bytes"}, !.hash = 0]
    <3>1. (a + 1) - 1 = a
      BY <2>1
    <3> QED
      BY <3>1, <2>1, <2>3, <2>4, <1>2
  <2>7. mem[a] \in Words /\ mem[a + 1] \in Words
    BY <2>3, <1>3
  <2>8. mem'[a].ref = Nil
    BY <2>5, <2>7 DEF Words
  <2>9. /\ mem'[a + 1].size = Hole(i) - 2 /\ mem'[a + 1].flags = {"bytes"}
        /\ mem'[a + 1].hash = 0
    BY <2>6, <2>7 DEF Words, FillerSize, HeaderWords
  <2> QED
    BY <2>3, <2>8, <2>9 DEF a
<1>7. ASSUME NEW i \in DOMAIN objs, NEW k \in 0 .. objs[i].size - 1
      PROVE  mem'[objs[i].to + k] = IF k = 1 THEN Unmarked(held[objs[i].from + 1])
                                    ELSE held[objs[i].from + k]
  <2> DEFINE x == objs[i].to + k
  <2>1. /\ i \in Nat /\ i <= moved /\ x \in Addr /\ objs[i].to \in Int /\ objs[i].size \in Int
        /\ k \in Int /\ 0 <= k /\ k < objs[i].size /\ x = objs[i].to + k /\ x \in Int
        /\ End(i) = objs[i].to + objs[i].size
    BY <1>1, PlannedParts
  <2> HIDE DEF x
  <2>2. ASSUME NEW j \in Holes
        PROVE  x # End(j - 1) /\ x - 1 # End(j - 1)
    <3>1. /\ j \in DOMAIN objs /\ j \in Nat /\ End(j - 1) \in Nat /\ Hole(j) \in Nat /\ Hole(j) >= 2
          /\ End(j - 1) + Hole(j) = objs[j].to /\ j - 1 \in 0 .. Len(objs)
      BY <1>1, FillerParts
    <3>2. CASE i < j
      <4>1. i \in 0 .. Len(objs) /\ i <= j - 1
        BY <2>1, <3>1, <3>2, <1>1
      <4>2. End(i) <= End(j - 1)
        BY <4>1, <3>1, <1>1, HoleParts
      <4>3. PICK e : e = End(j - 1) /\ e \in Nat
        BY <3>1
      <4>4. PICK s : s = objs[i].to + objs[i].size /\ s \in Int /\ x < s
        BY <2>1
      <4>5. s <= e
        BY <4>2, <4>3, <4>4, <2>1
      <4>6. x # e /\ x - 1 # e
        BY <4>3, <4>4, <4>5, <2>1
      <4> QED
        BY <4>3, <4>6
    <3>3. CASE j <= i
      <4>1. objs[j].to <= objs[i].to
        <5>1. CASE j = i
          BY <5>1, <2>1
        <5>2. CASE j < i
          <6>1. objs[j].to + objs[j].size <= objs[i].to
            BY <5>2, <3>1, <1>1 DEF Ordered
          <6>2. objs[j].to \in Int /\ objs[j].size \in Int /\ objs[j].size >= 2
            BY <3>1, <1>1, PlannedParts
          <6> QED
            BY <6>1, <6>2, <2>1
        <5> QED
          BY <5>1, <5>2, <3>1, <3>3, <2>1
      <4>2. objs[j].to \in Int
        BY <3>1, <1>1, PlannedParts
      <4>3. PICK e : e = End(j - 1) /\ e \in Nat
        BY <3>1
      <4>4. e + 2 <= objs[j].to
        BY <4>2, <4>3, <3>1
      <4>5. objs[i].to <= x
        BY <2>1
      <4>6. x # e /\ x - 1 # e
        BY <4>1, <4>2, <4>3, <4>4, <4>5, <2>1
      <4> QED
        BY <4>3, <4>6
    <3> QED
      BY <3>1, <3>2, <3>3, <2>1
  <2>3. x \notin Fillers /\ x - 1 \notin Fillers
    BY <2>2 DEF Fillers
  <2>4. mem'[x] = mem[x]
    BY <2>1, <2>3, <1>2
  <2> QED
    BY <2>1, <2>4, <1>1 DEF MovesKeepObjects, x
<1> QED
  BY <1>5, <1>6, <1>7


\* An object in its place: as long as planned, unmarked, and with references to other
\* targets only.
LEMMA TargetParts ==
  ASSUME TypeOK, MoveInv, Fill, NEW i \in DOMAIN objs
  PROVE  /\ Size(mem', objs[i].to) = objs[i].size
         /\ ~Is(mem', objs[i].to, "marked")
         /\ \A w \in RefWords(mem', objs[i].to) : mem'[w].ref \in TargetRefs
<1> DEFINE N == objs[i].size
<1>1. Ordered /\ held \in [Addr -> Words]
  BY DEF MoveInv, TypeOK
<1>2. PICK f, t, n : f = objs[i].from /\ t = objs[i].to /\ n = objs[i].size
  OBVIOUS
<1>3. /\ f \in Int /\ t \in Int /\ n \in Int /\ n >= 2
      /\ \A k \in 0 .. n - 1 : f + k \in Addr /\ t + k \in Addr
  BY <1>1, <1>2, PlannedParts
<1>4. \A k \in 0 .. n - 1 : mem'[t + k] = IF k = 1 THEN Unmarked(held[f + 1]) ELSE held[f + k]
  BY <1>2, FillWrites
<1>5. mem'[t + 1] = Unmarked(held[f + 1]) /\ held[f + 1] \in Words
  BY <1>1, <1>3, <1>4
<1>6. /\ mem'[t + 1].size = held[f + 1].size
      /\ mem'[t + 1].flags = held[f + 1].flags \ {"marked"}
  BY <1>5 DEF Unmarked, Words
<1>7. n = Size(held, f) /\ \A w \in RefWords(held, f) : held[w].ref \in TargetRefs
  BY <1>2 DEF MoveInv
<1>8. Size(mem', t) = n
  BY <1>6, <1>7 DEF Size
<1>9. ~Is(mem', t, "marked") /\ Is(mem', t, "bytes") = Is(held, f, "bytes")
  BY <1>6 DEF Is
<1>10. ASSUME NEW w \in RefWords(mem', t) PROVE mem'[w].ref \in TargetRefs
  <2>1. w \in Int /\ t <= w /\ w < t + n /\ w # t + 1
    BY <1>3, <1>8, <1>10 DEF RefWords, Slots, HeaderWords
  <2>2. PICK k \in 0 .. n - 1 : w = t + k /\ k # 1
    <3>1. w - t \in 0 .. n - 1 /\ w = t + (w - t) /\ w - t # 1
      BY <1>3, <2>1
    <3> QED
      BY <3>1
  <2>3. mem'[w] = held[f + k]
    BY <1>4, <2>2
  <2>4. f + k \in RefWords(held, f)
    <3>1. CASE k = 0
      BY <3>1, <1>3 DEF RefWords
    <3>2. CASE k # 0
      <4>1. w \in Slots(mem', t)
        BY <3>2, <2>2, <1>3, <1>10 DEF RefWords
      <4>2. ~Is(mem', t, "bytes")
        BY <4>1 DEF Slots
      <4>3. f + k \in f + HeaderWords .. f + Size(held, f) - 1
        BY <3>2, <2>2, <1>3, <1>7 DEF HeaderWords
      <4> QED
        BY <4>2, <4>3, <1>9 DEF RefWords, Slots
    <3> QED
      BY <3>1, <3>2
  <2> QED
    BY <2>3, <2>4, <1>7
<1> QED
  BY <1>2, <1>8, <1>9, <1>10

\* The walk over the headers meets the targets and the fillers in turn.
LEMMA WalkParts ==
  ASSUME TypeOK, Ordered
  PROVE  /\ \A i \in 0 .. Len(objs) :
              End(i) \in Targets \cup Fillers \cup {End(Len(objs))}
         /\ \A i \in DOMAIN objs :
              /\ objs[i].to \in 0 .. End(Len(objs)) - 2
              /\ \A b \in Targets \cup Fillers : objs[i].to < b => End(i) <= b
         /\ \A i \in Holes :
              /\ End(i - 1) \in 0 .. End(Len(objs)) - 2
              /\ \A b \in Targets \cup Fillers : End(i - 1) < b => objs[i].to <= b
<1>1. PICK N : N = Len(objs) /\ N \in Nat /\ DOMAIN objs = 1 .. N
  BY DEF TypeOK
<1>2. /\ \A i \in 0 .. N : End(i) \in Nat
      /\ \A i \in 1 .. N : i - 1 \in 0 .. N /\ (Hole(i) = 0 \/ Hole(i) >= 2)
      /\ \A i \in 1 .. N : End(i - 1) + Hole(i) = objs[i].to
      /\ \A i \in 0 .. N, j \in 1 .. N : i < j => End(i) <= objs[j].to
      /\ \A i, j \in 0 .. N : i <= j => End(i) <= End(j)
  BY <1>1, HoleParts
<1>3. \A i \in 1 .. N : /\ objs[i].to \in Int /\ objs[i].size \in Int /\ objs[i].size >= 2
                        /\ 0 <= objs[i].to /\ End(i) = objs[i].to + objs[i].size
  BY <1>1, PlannedParts
<1>4. \A i \in Holes : /\ i \in 1 .. N /\ Hole(i) \in Nat /\ Hole(i) >= 2
                       /\ End(i - 1) \in Nat /\ End(i - 1) + Hole(i) = objs[i].to
  BY <1>1, FillerParts
<1>5. ASSUME NEW i \in 0 .. N PROVE End(i) \in Targets \cup Fillers \cup {End(N)}
  <2>1. CASE i = N
    BY <2>1
  <2>2. CASE i # N
    <3>1. PICK j : j = i + 1 /\ j \in 1 .. N /\ j - 1 = i
      BY <1>1, <2>2
    <3>2. CASE Hole(j) = 0
      <4>1. End(i) \in Nat /\ End(i) + Hole(j) = objs[j].to
        BY <3>1, <1>2
      <4>2. End(i) = objs[j].to
        BY <3>2, <4>1
      <4> QED
        BY <4>2, <3>1, <1>1 DEF Targets
    <3>3. CASE Hole(j) >= 2
      <4>1. j \in Holes
        BY <3>1, <3>3, <1>1 DEF Holes, HeaderWords
      <4> QED
        BY <4>1, <3>1 DEF Fillers
    <3> QED
      BY <3>1, <3>2, <3>3, <1>2
  <2> QED
    BY <2>1, <2>2
<1>6. ASSUME NEW i \in 1 .. N
      PROVE  /\ objs[i].to \in 0 .. End(N) - 2
             /\ \A b \in Targets \cup Fillers : objs[i].to < b => End(i) <= b
  <2>1. End(i) <= End(N) /\ End(N) \in Nat /\ End(i - 1) \in Nat /\ End(i) \in Nat
    BY <1>1, <1>2
  <2>2. objs[i].to \in 0 .. End(N) - 2
    BY <2>1, <1>3
  <2>3. ASSUME NEW j \in 1 .. N, objs[i].to < objs[j].to
        PROVE  End(i) <= objs[j].to
    <3>1. j < i => End(j) <= objs[i].to
      BY <1>2
    <3>2. i < j => End(i) <= objs[j].to
      BY <1>2
    <3> QED
      BY <3>1, <3>2, <2>3, <1>3
  <2>4. ASSUME NEW j \in Holes, objs[i].to < End(j - 1)
        PROVE  End(i) <= End(j - 1)
    <3>1. j \in 1 .. N /\ End(j - 1) \in Nat /\ j - 1 \in 0 .. N /\ i \in 0 .. N
      BY <1>2, <1>4
    <3>2. i <= j - 1 => End(i) <= End(j - 1)
      BY <3>1, <1>2
    <3>3. j - 1 < i => End(j - 1) <= objs[i].to
      BY <3>1, <1>2
    <3>4. i <= j - 1 \/ j - 1 < i
      BY <3>1
    <3>5. ~(End(j - 1) <= objs[i].to)
      BY <3>1, <2>4, <1>3
    <3> QED
      BY <3>2, <3>3, <3>4, <3>5
  <2> QED
    BY <2>2, <2>3, <2>4, <1>1 DEF Targets, Fillers
<1>7. ASSUME NEW i \in Holes
      PROVE  /\ End(i - 1) \in 0 .. End(N) - 2
             /\ \A b \in Targets \cup Fillers : End(i - 1) < b => objs[i].to <= b
  <2>1. /\ i \in 1 .. N /\ Hole(i) \in Nat /\ Hole(i) >= 2 /\ End(i - 1) \in Nat
        /\ End(i - 1) + Hole(i) = objs[i].to
    BY <1>4
  <2>2. objs[i].to \in 0 .. End(N) - 2 /\ End(N) \in Nat
    BY <2>1, <1>1, <1>2, <1>6
  <2>3. End(i - 1) \in 0 .. End(N) - 2
    BY <2>1, <2>2
  <2>4. ASSUME NEW j \in 1 .. N, End(i - 1) < objs[j].to
        PROVE  objs[i].to <= objs[j].to
    <3>1. End(i) = objs[i].to + objs[i].size /\ objs[i].size >= 2 /\ objs[i].size \in Int
      BY <2>1, <1>3
    <3>2. i < j => End(i) <= objs[j].to
      BY <2>1, <1>2
    <3>3. j < i => End(j) <= End(i - 1)
      <4>1. j < i => j \in 0 .. N /\ i - 1 \in 0 .. N /\ j <= i - 1
        BY <2>1, <1>1
      <4> QED
        BY <4>1, <1>2
    <3>4. End(j) = objs[j].to + objs[j].size /\ objs[j].size >= 2 /\ objs[j].size \in Int
          /\ objs[j].to \in Int /\ objs[i].to \in Int
      BY <2>1, <1>3
    <3>5. ~(j < i)
      <4>1. PICK e : e = End(i - 1) /\ e \in Nat /\ e < objs[j].to
        BY <2>1, <2>4
      <4> QED
        BY <4>1, <3>3, <3>4
    <3>6. i = j \/ i < j
      BY <3>5, <2>1
    <3> QED
      BY <3>1, <3>2, <3>4, <3>6
  <2>5. ASSUME NEW j \in Holes, End(i - 1) < End(j - 1)
        PROVE  objs[i].to <= End(j - 1)
    <3>1. j \in 1 .. N /\ End(j - 1) \in Nat /\ j - 1 \in 0 .. N /\ i - 1 \in 0 .. N
          /\ i \in 0 .. N
      BY <2>1, <1>2, <1>4
    <3>2. End(i) = objs[i].to + objs[i].size /\ objs[i].size >= 2 /\ objs[i].size \in Int
          /\ objs[i].to \in Int
      BY <2>1, <1>3
    <3>3. i <= j - 1 => End(i) <= End(j - 1)
      BY <3>1, <1>2
    <3>4. j - 1 <= i - 1 => End(j - 1) <= End(i - 1)
      BY <3>1, <1>2
    <3>5. i <= j - 1 \/ j - 1 <= i - 1
      BY <3>1, <2>1
    <3>6. ~(End(j - 1) <= End(i - 1))
      <4>1. PICK d, e : d = End(i - 1) /\ e = End(j - 1) /\ d \in Nat /\ e \in Nat /\ d < e
        BY <2>1, <2>5, <3>1
      <4> QED
        BY <4>1
    <3>7. End(i) <= End(j - 1)
      BY <3>3, <3>4, <3>5, <3>6
    <3>8. PICK e : e = End(j - 1) /\ e \in Nat
      BY <3>1
    <3> QED
      BY <3>2, <3>7, <3>8
  <2> QED
    BY <2>3, <2>4, <2>5, <1>1 DEF Targets, Fillers
<1> QED
  BY <1>1, <1>5, <1>6, <1>7


LEMMA FillKeeps == IInv /\ Fill => IInv'
<1> SUFFICES ASSUME IInv, Fill PROVE IInv'
  OBVIOUS
<1>1. TypeOK /\ MoveInv /\ Ordered /\ RefsKept(TargetRefs)
  BY DEF IInv, Fill, MoveInv
<1>2. PICK N : N = Len(objs) /\ N \in Nat /\ DOMAIN objs = 1 .. N
  BY <1>1 DEF TypeOK
<1> DEFINE S == Targets \cup Fillers
           B == End(N)
           H == [mem |-> mem', bump |-> B, starts |-> S, roots |-> roots, young |-> young]
<1>3. bump' = B /\ starts' = S /\ phase' = "done"
  BY <1>2 DEF Fill, Targets
<1>4. mem' \in [Addr -> Words]
  BY <1>1, FillWrites
<1>5. /\ B \in Nat /\ B <= OldMax
      /\ End(0) = 0
      /\ \A i \in 0 .. N : End(i) \in S \cup {B}
      /\ \A i \in 1 .. N : objs[i].to \in 0 .. B - 2 /\ \A b \in S : objs[i].to < b => End(i) <= b
      /\ \A i \in Holes : /\ End(i - 1) \in 0 .. B - 2
                          /\ \A b \in S : End(i - 1) < b => objs[i].to <= b
  <2>1. End(0) = 0 /\ B \in Nat /\ B <= OldMax
    BY <1>1, <1>2, HoleParts
  <2> QED
    BY <2>1, <1>1, <1>2, WalkParts
<1>6. ASSUME NEW i \in 1 .. N
      PROVE  /\ objs[i].to + Size(mem', objs[i].to) = End(i)
             /\ ~Is(mem', objs[i].to, "marked")
             /\ \A w \in RefWords(mem', objs[i].to) : mem'[w].ref \in TargetRefs
  <2>1. Size(mem', objs[i].to) = objs[i].size
    BY <1>1, <1>2, TargetParts
  <2>2. End(i) = objs[i].to + objs[i].size
    BY <1>1, <1>2, PlannedParts
  <2>3. /\ ~Is(mem', objs[i].to, "marked")
        /\ \A w \in RefWords(mem', objs[i].to) : mem'[w].ref \in TargetRefs
    BY <1>1, <1>2, TargetParts
  <2> QED
    BY <2>1, <2>2, <2>3
<1>7. ASSUME NEW i \in Holes
      PROVE  /\ End(i - 1) + Size(mem', End(i - 1)) = objs[i].to
             /\ objs[i].to \in Targets
             /\ ~Is(mem', End(i - 1), "marked")
             /\ \A w \in RefWords(mem', End(i - 1)) : mem'[w].ref \in TargetRefs
  <2>1. /\ mem'[End(i - 1)].ref = Nil
        /\ mem'[End(i - 1) + 1].size = Hole(i) - 2
        /\ mem'[End(i - 1) + 1].flags = {"bytes"}
    BY <1>1, FillWrites
  <2>2. /\ i \in DOMAIN objs /\ End(i - 1) \in Nat /\ Hole(i) \in Nat
        /\ End(i - 1) + Hole(i) = objs[i].to
    BY <1>1, FillerParts
  <2>3. Size(mem', End(i - 1)) = Hole(i)
    BY <2>1, <2>2 DEF Size, HeaderWords
  <2>4. RefWords(mem', End(i - 1)) = {End(i - 1)} /\ ~Is(mem', End(i - 1), "marked")
    BY <2>1 DEF RefWords, Slots, Is
  <2> QED
    BY <2>1, <2>2, <2>3, <2>4 DEF Targets, TargetRefs
<1>8. \A a \in S : \/ \E i \in 1 .. N : a = objs[i].to
                   \/ \E i \in Holes : a = End(i - 1)
  BY <1>2 DEF Targets, Fillers
<1>9. S \subseteq 0 .. B - 2
  BY <1>5, <1>8
<1>10. ASSUME NEW a \in S
       PROVE  /\ a + Size(mem', a) \in S \cup {B}
              /\ \A b \in S : a < b => a + Size(mem', a) <= b
              /\ ~Is(mem', a, "marked")
              /\ \A w \in RefWords(mem', a) : mem'[w].ref \in TargetRefs
  <2>1. CASE \E i \in 1 .. N : a = objs[i].to
    <3>1. PICK i \in 1 .. N : a = objs[i].to
      BY <2>1
    <3>2. i \in 0 .. N
      BY <1>2
    <3> HIDE DEF S, B
    <3> QED
      BY <3>1, <3>2, <1>5, <1>6
  <2>2. CASE \E i \in Holes : a = End(i - 1)
    <3>1. PICK i \in Holes : a = End(i - 1)
      BY <2>2
    <3>2. objs[i].to \in S
      BY <1>7
    <3> HIDE DEF S, B
    <3> QED
      BY <3>1, <3>2, <1>5, <1>7
  <2> QED
    BY <2>1, <2>2, <1>8
<1>11. 0 \in S \cup {B}
  <2>1. 0 \in 0 .. N
    BY <1>2
  <2> HIDE DEF S, B
  <2> QED
    BY <2>1, <1>5
<1>12. TargetRefs \subseteq Objects(H) \cup {Nil}
  BY DEF TargetRefs, Objects
<1> HIDE DEF S, B
<1>13. /\ H.mem = mem' /\ H.bump = B /\ H.starts = S /\ H.roots = roots /\ H.young = young
  OBVIOUS
<1> HIDE DEF H
<1>14. Parsed(H)
  <2>1. B \in 0 .. OldMax
    BY <1>5, SpaceAssumption
  <2> QED
    BY <2>1, <1>9, <1>10, <1>11, <1>13 DEF Parsed, HeaderWords
<1>15. IsHeap(H)
  <2>1. /\ roots \in [RootSlots -> Refs] /\ young \in [Young -> YoungObjects]
        /\ \A r \in RootSlots : roots[r] \in TargetRefs
        /\ \A y \in Young : YoungRefs(young[y]) \subseteq TargetRefs
    BY <1>1 DEF TypeOK, RefsKept
  <2>2. \A a \in S : \A w \in RefWords(mem', a) : mem'[w].ref \in TargetRefs
    BY <1>10
  <2>3. \A a \in S : ~Is(mem', a, "marked")
    BY <1>10
  <2> HIDE DEF TargetRefs
  <2>4. /\ \A r \in RootSlots : H.roots[r] \in Objects(H) \cup {Nil}
        /\ \A y \in Young : YoungRefs(H.young[y]) \subseteq Objects(H) \cup {Nil}
        /\ \A a \in H.starts : \A w \in RefWords(H.mem, a) :
             H.mem[w].ref \in Objects(H) \cup {Nil}
    BY <2>1, <2>2, <1>12, <1>13
  <2> QED
    BY <2>1, <2>3, <2>4, <1>4, <1>13, <1>14 DEF IsHeap
<1>16. Now' = H
  BY <1>3 DEF Now, Fill, H
<1>17. IsHeap(Now)'
  <2>1. IsHeap(Now') 
    BY <1>15, <1>16
  <2> QED
    BY <2>1
<1>18. TypeOK'
  <2>1. B \in 0 .. OldMax /\ S \subseteq Addr
    BY <1>5, <1>9, SpaceAssumption DEF Addr
  <2> QED
    BY <2>1, <1>1, <1>3, <1>4 DEF TypeOK, Fill, Phases
<1> QED
  BY <1>3, <1>17, <1>18 DEF IInv

-----------------------------------------------------------------------------
\* The next collection finds the heap the last one left.

LEMMA ReleaseKeeps == ASSUME NEW gone PROVE IInv /\ Release(gone) => IInv'
<1> SUFFICES ASSUME IInv, Release(gone) PROVE IInv'
  OBVIOUS
<1>1. TypeOK /\ IsHeap(Now)
  BY DEF IInv, Release
<1>2. /\ roots' \in [RootSlots -> Refs]
      /\ \A r \in RootSlots : roots'[r] = roots[r] \/ roots'[r] = Nil
  BY <1>1 DEF Release, TypeOK, Refs
<1>3. /\ mem' = mem /\ bump' = bump /\ starts' = starts /\ young' = young
      /\ phase' = "idle" /\ was' = [Now EXCEPT !.roots = roots'] /\ Scavenged(was')
  BY DEF Release
<1>4. /\ was'.mem = mem /\ was'.bump = bump /\ was'.starts = starts
      /\ was'.young = young /\ was'.roots = roots'
  BY <1>3 DEF Now
<1>5. Objects(was') = Objects(Now)
  BY <1>4 DEF Objects, Now
<1>6. \A r \in RootSlots : roots'[r] \in Objects(Now) \cup {Nil}
  BY <1>1, <1>2 DEF IsHeap, Now
<1>7. /\ Now.mem = mem /\ Now.bump = bump /\ Now.starts = starts /\ Now.young = young
  BY DEF Now
<1>8. IsHeap(was')
  <2>1. Parsed(was')
    BY <1>1, <1>4, <1>7 DEF IsHeap, Parsed
  <2> QED
    BY <2>1, <1>1, <1>2, <1>4, <1>5, <1>6, <1>7 DEF IsHeap
<1>9. Now' = was'
  BY <1>3 DEF Now
<1>10. IsHeap(Now)'
  <2>1. IsHeap(Now')
    BY <1>8, <1>9
  <2> QED
    BY <2>1
<1>11. Found'
  <2>1. IsHeap(was') /\ Scavenged(was') /\ was'.starts = starts' /\ was'.bump = bump'
        /\ was'.roots = roots' /\ was'.young = young'
    BY <1>3, <1>4, <1>8
  <2> QED
    BY <2>1, <1>3, <1>4 DEF Found
<1>12. TypeOK'
  BY <1>1, <1>2, <1>3 DEF TypeOK, Release, Phases
<1> QED
  BY <1>3, <1>10, <1>11, <1>12 DEF IInv


-----------------------------------------------------------------------------
(* Every step, and what follows.                                             *)

LEMMA StutterKeeps == IInv /\ UNCHANGED vars => IInv'
<1> SUFFICES ASSUME IInv, UNCHANGED vars PROVE IInv'
  OBVIOUS
<1> USE DEF vars
<1>1. TypeOK'
  BY DEF IInv, TypeOK
<1>2. Found => Found'
  BY DEF Found
<1>3. Now' = Now
  BY DEF Now
<1>4. IsHeap(Now) => IsHeap(Now)'
  <2>1. IsHeap(Now) => IsHeap(Now')
    BY <1>3
  <2> QED
    BY <2>1
<1>5. MarkInv => MarkInv'
  BY <1>2 DEF MarkInv, Reached, Marked
<1>6. Ordered => Ordered'
  BY DEF Ordered, Hole, End
<1>7. Parsed(Now) => Parsed(Now)'
  <2>1. Parsed(Now) => Parsed(Now')
    BY <1>3
  <2> QED
    BY <2>1
<1>8. PlanInv => PlanInv'
  BY <1>6, <1>7 DEF PlanInv, RefsKept, MarkedRefs, Marked, End
<1>9. MoveInv => MoveInv'
  BY <1>6 DEF MoveInv, RefsKept, TargetRefs, Targets, MovesKeepObjects
<1> QED
  BY <1>1, <1>2, <1>4, <1>5, <1>8, <1>9 DEF IInv

LEMMA StepKeeps == IInv /\ [Next]_vars => IInv'
<1> SUFFICES ASSUME IInv, [Next]_vars PROVE IInv'
  OBVIOUS
<1>1. CASE Collect
  BY <1>1, CollectKeeps
<1>2. CASE MarkOld
  BY <1>2, MarkOldKeeps
<1>3. CASE MarkYoung
  BY <1>3, MarkYoungKeeps
<1>4. CASE MarkNothing
  BY <1>4, MarkNothingKeeps
<1>5. CASE ClearWeak
  BY <1>5, ClearWeakKeeps
<1>6. CASE PlanDead
  BY <1>6, PlanDeadKeeps
<1>7. CASE PlanPin
  BY <1>7, PlanPinKeeps
<1>8. CASE PlanMove
  BY <1>8, PlanMoveKeeps
<1>9. CASE Update
  BY <1>9, UpdateKeeps
<1>10. CASE MoveOne
  BY <1>10, MoveOneKeeps
<1>11. CASE Fill
  BY <1>11, FillKeeps
<1>12. ASSUME NEW gone \in SUBSET RootSlots, Release(gone) PROVE IInv'
  BY <1>12, ReleaseKeeps
<1>13. CASE UNCHANGED vars
  BY <1>13, StutterKeeps
<1> QED
  BY <1>1, <1>2, <1>3, <1>4, <1>5, <1>6, <1>7, <1>8, <1>9, <1>10, <1>11, <1>12, <1>13
     DEF Next, CollectOld

LEMMA Invariance == Spec => []IInv
BY InitKeeps, StepKeeps, PTL DEF Spec

\* Every state of a collection is well typed: no address leaves the old space, and the
\* next free word never passes the scan (Gc::collectOld).
THEOREM CollectionTyped == Spec => []TypeOK
<1>1. IInv => TypeOK
  BY DEF IInv
<1> QED
  BY <1>1, Invariance, PTL

\* Whatever the heap and its pins, the plan moves nothing up, moves no pin, and leaves
\* no hole too small for a filler (Gc::collectOld, its second phase).
THEOREM PlanIsSound == Spec => []PlanSound
<1>1. IInv => PlanSound
  <2> SUFFICES ASSUME IInv, phase \in {"plan", "move"} PROVE PlanSound
    BY DEF PlanSound
  <2>1. Ordered
    BY DEF IInv, PlanInv, MoveInv
  <2> QED
    BY <2>1 DEF PlanSound, Ordered
<1> QED
  BY <1>1, Invariance, PTL

\* Sliding the objects down in address order overwrites nothing that is still to be
\* moved (the memmove of Gc::collectOld).
THEOREM MovesDestroyNothing == Spec => []MovesKeepObjects
<1>1. IInv => MovesKeepObjects
  BY DEF IInv, MoveInv, MovesKeepObjects
<1> QED
  BY <1>1, Invariance, PTL

\* After every collection the old space is a heap again: it parses, fillers included,
\* no mark is left, and no reference dangles (Gc::collectOld).
THEOREM HeapIsKept == Spec => []HeapAgain
<1>1. IInv => HeapAgain
  BY DEF IInv, HeapAgain
<1> QED
  BY <1>1, Invariance, PTL
-----------------------------------------------------------------------------
(* What a collection keeps: the objects the program can reach, and what they *)
(* hold.                                                                     *)

LiveOld == Live(was) \ Young

\* While the heap is marked only the marks set it apart from the heap found, and
\* nothing is reached that the program cannot reach.
Exact ==
  /\ Reached \subseteq {Nil} \cup Live(was)
  /\ \A x \in Addr : x - 1 \notin Marked => mem[x] = was.mem[x]
  /\ \A a \in Marked : Unmarked(mem[a + 1]) = was.mem[a + 1]

\* What the clearing of the weak slots leaves of a reference.
Left(weak, r) == IF weak /\ r \in Addr /\ r \notin Live(was) THEN Nil ELSE r

\* The reachable objects as they were found, but for their references: each has become
\* what turned makes of it.
Same(m, y, rts, turned) ==
  /\ \A a \in LiveOld :
       /\ Unmarked(m[a + 1]) = was.mem[a + 1]
       /\ m[a].ref = turned[was.mem[a].ref]
       /\ \A k \in 2 .. Size(was.mem, a) - 1 :
            IF Is(was.mem, a, "bytes") THEN m[a + k] = was.mem[a + k]
            ELSE m[a + k].ref = turned[Left(Is(was.mem, a, "weak"), was.mem[a + k].ref)]
  /\ \A n \in Young :
       /\ y[n].klass = turned[was.young[n].klass]
       /\ DOMAIN y[n].slots = DOMAIN was.young[n].slots
       /\ \A i \in DOMAIN was.young[n].slots :
            y[n].slots[i] = turned[Left(was.young[n].weak, was.young[n].slots[i])]
  /\ \A r \in RootSlots : rts[r] = turned[was.roots[r]]

Unturned == [r \in Refs |-> r]
Turned   == [r \in Refs |-> Forward(r)]

Sifted ==
  /\ Marked = LiveOld /\ starts = was.starts
  /\ \A a \in LiveOld : /\ RefWords(mem, a) = RefWords(was.mem, a)
                        /\ Size(mem, a) = Size(was.mem, a)
  /\ Same(mem, young, roots, Unturned)

Forwarded ==
  /\ {objs[i].from : i \in DOMAIN objs} = LiveOld
  /\ \A i \in DOMAIN objs : objs[i].size = Size(was.mem, objs[i].from)
  /\ Same(held, young, roots, Turned)

GInv ==
  /\ IsHeap(was)
  /\ phase = "idle" => mem = was.mem
  /\ phase = "mark" => Exact
  /\ phase = "plan" => Sifted
  /\ phase = "move" => Forwarded
  /\ GraphKept

\* What the program can reach is closed, and no closed set is smaller.
LEMMA LiveParts ==
  ASSUME NEW h
  PROVE  /\ Live(h) \subseteq Objects(h)
         /\ Closed(h, Live(h))
         /\ \A S \in SUBSET Objects(h) : Closed(h, S) => Live(h) \subseteq S
<1>1. /\ Live(h) \subseteq Objects(h)
      /\ \A S \in SUBSET Objects(h) : Closed(h, S) => Live(h) \subseteq S
  BY DEF Live
<1>2. \A r \in RootSlots : h.roots[r] \in Objects(h) => h.roots[r] \in Live(h)
  BY DEF Live, Closed
<1>3. ASSUME NEW x \in Live(h), NEW z \in Strong(h, x) \cap Objects(h)
      PROVE  z \in Live(h)
  <2>1. ASSUME NEW S \in SUBSET Objects(h), Closed(h, S)
        PROVE  z \in S
    BY <2>1, <1>1, <1>3 DEF Closed
  <2> QED
    BY <2>1, <1>3 DEF Live
<1> QED
  BY <1>1, <1>2, <1>3 DEF Closed

\* What the reachable objects of a heap refer to, and where its words lie.
LEMMA LiveRefs ==
  ASSUME NEW h, IsHeap(h)
  PROVE  /\ \A r \in RootSlots : h.roots[r] \in {Nil} \cup Live(h)
         /\ Live(h) \ Young \subseteq h.starts
         /\ \A a \in Live(h) \ Young : \A w \in StrongWords(h.mem, a) :
              h.mem[w].ref \in {Nil} \cup Live(h)
         /\ \A y \in Live(h) \cap Young : YoungStrong(h.young[y]) \subseteq {Nil} \cup Live(h)
<1>1. Live(h) \subseteq Objects(h) /\ Closed(h, Live(h))
  BY LiveParts
<1>2. \A r \in RootSlots : h.roots[r] \in {Nil} \cup Live(h)
  BY <1>1 DEF IsHeap, Closed
<1>3. Live(h) \ Young \subseteq h.starts
  BY <1>1 DEF Objects
<1>4. ASSUME NEW a \in Live(h) \ Young, NEW w \in StrongWords(h.mem, a)
      PROVE  h.mem[w].ref \in {Nil} \cup Live(h)
  <2>1. h.mem[w].ref \in Objects(h) \cup {Nil}
    BY <1>3, <1>4, StrongAreRefWords DEF IsHeap
  <2>2. h.mem[w].ref \in Strong(h, a)
    BY <1>4 DEF Strong
  <2> QED
    BY <1>1, <1>4, <2>1, <2>2 DEF Closed
<1>5. ASSUME NEW y \in Live(h) \cap Young
      PROVE  YoungStrong(h.young[y]) \subseteq {Nil} \cup Live(h)
  <2>1. YoungStrong(h.young[y]) \subseteq Objects(h) \cup {Nil}
    BY <1>5 DEF IsHeap, YoungStrong, YoungRefs
  <2>2. Strong(h, y) = YoungStrong(h.young[y])
    BY <1>5 DEF Strong
  <2>3. Strong(h, y) \cap Objects(h) \subseteq Live(h)
    BY <1>1, <1>5 DEF Closed
  <2> QED
    BY <2>1, <2>2, <2>3
<1> QED
  BY <1>2, <1>3, <1>4, <1>5

\* Two objects share no word.
LEMMA Apart ==
  ASSUME NEW h, Parsed(h), h.mem \in [Addr -> Words],
         NEW a \in h.starts, NEW b \in h.starts, NEW w,
         w \in a .. a + Size(h.mem, a) - 1, w \in b .. b + Size(h.mem, b) - 1
  PROVE  a = b
<1>1. /\ a \in Int /\ b \in Int /\ Size(h.mem, a) \in Nat /\ Size(h.mem, b) \in Nat
  BY ObjectInside
<1>2. a < b => a + Size(h.mem, a) <= b
  BY DEF Parsed
<1>3. b < a => b + Size(h.mem, b) <= a
  BY DEF Parsed
<1>4. PICK p, q : p = Size(h.mem, a) /\ q = Size(h.mem, b) /\ p \in Nat /\ q \in Nat
  BY <1>1
<1> QED
  BY <1>1, <1>2, <1>3, <1>4
-----------------------------------------------------------------------------
LEMMA GraphInit == Init => GInv
<1> SUFFICES ASSUME Init PROVE GInv
  OBVIOUS
<1>1. was \in Heaps /\ mem = was.mem /\ phase = "idle"
  BY DEF Init
<1>2. IsHeap(was)
  BY <1>1, HeapsAssumption
<1> QED
  BY <1>1, <1>2 DEF GInv, GraphKept

LEMMA CollectGraph == IInv /\ GInv /\ Collect => GInv'
<1> SUFFICES ASSUME IInv, GInv, Collect PROVE GInv'
  OBVIOUS
<1>1. TypeOK /\ Found /\ IsHeap(Now) /\ IsHeap(was) /\ mem = was.mem
  BY DEF IInv, GInv, Collect
<1>2. /\ mem' = mem /\ starts' = starts /\ was' = was /\ seen' = {}
      /\ stack' = [i \in DOMAIN Registered |-> roots[Registered[i]]]
      /\ phase' = "mark"
  BY DEF Collect
<1>3. Marked' = {}
  BY <1>1, <1>2 DEF Marked, IsHeap, Now
<1>4. ToSet(stack') \subseteq {roots[r] : r \in RootSlots}
  <2>1. \A i \in DOMAIN Registered : Registered[i] \in RootSlots
    BY RootsAssumption
  <2> QED
    BY <1>2, <2>1 DEF ToSet
<1>5. \A r \in RootSlots : roots[r] \in {Nil} \cup Live(was)
  BY <1>1, LiveRefs DEF Found
<1>6. Reached' \subseteq {Nil} \cup Live(was)
  BY <1>2, <1>3, <1>4, <1>5 DEF Reached
<1>7. Exact'
  BY <1>1, <1>2, <1>3, <1>6 DEF Exact
<1> QED
  BY <1>1, <1>2, <1>7 DEF GInv, GraphKept

-----------------------------------------------------------------------------
\* Marking reaches only what the program can.

LEMMA StrongFound ==
  ASSUME TypeOK, Found
  PROVE  /\ \A a \in starts : {mem[w].ref : w \in StrongWords(mem, a)} = Strong(was, a)
         /\ \A y \in Young : YoungStrong(young[y]) = Strong(was, y)
<1>1. ASSUME NEW a \in starts
      PROVE  {mem[w].ref : w \in StrongWords(mem, a)} = Strong(was, a)
  <2>1. /\ RefWords(mem, a) = RefWords(was.mem, a)
        /\ Is(mem, a, "weak") = Is(was.mem, a, "weak")
    BY FoundNow DEF Flags
  <2>2. StrongWords(mem, a) = StrongWords(was.mem, a)
    BY <2>1 DEF StrongWords
  <2>3. a \in Addr /\ RefWords(was.mem, a) \subseteq Addr
    BY ObjectInside DEF Found, IsHeap
  <2>4. \A w \in StrongWords(was.mem, a) : was.mem[w].ref = mem[w].ref
    BY <2>3, StrongAreRefWords DEF Found
  <2>5. a \notin Young
    BY <2>3, KindsOfRef
  <2> QED
    BY <2>2, <2>4, <2>5 DEF Strong
<1>2. \A y \in Young : YoungStrong(young[y]) = Strong(was, y)
  BY DEF Strong, Found
<1> QED
  BY <1>1, <1>2

\* What a reachable object holds on to can be reached.
LEMMA StrongLive ==
  ASSUME TypeOK, Found
  PROVE  /\ \A a \in starts : a \in Live(was) =>
              {mem[w].ref : w \in StrongWords(mem, a)} \subseteq {Nil} \cup Live(was)
         /\ \A y \in Young : y \in Live(was) =>
              YoungStrong(young[y]) \subseteq {Nil} \cup Live(was)
<1>1. IsHeap(was) /\ was.young = young
  BY DEF Found
<1>2. \A y \in Young : y \in Live(was) => YoungStrong(young[y]) \subseteq {Nil} \cup Live(was)
  BY <1>1, LiveRefs
<1>3. ASSUME NEW a \in starts, a \in Live(was)
      PROVE  {mem[w].ref : w \in StrongWords(mem, a)} \subseteq {Nil} \cup Live(was)
  <2>1. a \notin Young
    BY KindsOfRef DEF TypeOK
  <2>2. Strong(was, a) = {was.mem[w].ref : w \in StrongWords(was.mem, a)}
    BY <2>1 DEF Strong
  <2>3. \A w \in StrongWords(was.mem, a) : was.mem[w].ref \in {Nil} \cup Live(was)
    BY <1>1, <1>3, <2>1, LiveRefs
  <2>4. {mem[w].ref : w \in StrongWords(mem, a)} = Strong(was, a)
    BY StrongFound
  <2> QED
    BY <2>2, <2>3, <2>4
<1> QED
  BY <1>2, <1>3

LEMMA MarkOldGraph == IInv /\ GInv /\ MarkOld => GInv'
<1> SUFFICES ASSUME IInv, GInv, MarkOld PROVE GInv'
  OBVIOUS
<1> DEFINE a == Top
<1>1. TypeOK /\ MarkInv /\ Found /\ Marking /\ Exact /\ phase = "mark"
  BY DEF IInv, GInv, MarkOld, Marking, MarkInv
<1>2. a \in starts /\ a \in Addr /\ ~Is(mem, a, "marked")
  BY <1>1, TopParts, KindsOfRef DEF MarkOld
<1>3. Parsed(Now) /\ mem \in [Addr -> Words]
  BY <1>1, FoundNow DEF TypeOK
<1>4. \A b \in starts : b \in Int /\ b \in Addr /\ b + 1 \in Addr
  BY <1>3, ObjectInside DEF Now
<1>5. /\ mem'[a + 1] = [mem[a + 1] EXCEPT !.flags = @ \cup {"marked"}]
      /\ \A x \in Addr : x # a + 1 => mem'[x] = mem[x]
  BY <1>2, <1>3, <1>4 DEF MarkOld
<1>6. mem[a + 1] \in Words
  BY <1>2, <1>3, <1>4
<1>7. /\ was' = was /\ starts' = starts /\ phase' = "mark" /\ seen' = seen
      /\ stack' = Front(stack) \o OldPush(a)
  BY <1>1 DEF MarkOld
<1>8. Marked' = Marked \cup {a}
  <2>1. Is(mem', a, "marked")
    BY <1>5, <1>6 DEF Is, Words
  <2>2. \A b \in starts : b # a => Is(mem', b, "marked") = Is(mem, b, "marked")
    BY <1>2, <1>4, <1>5 DEF Is
  <2> QED
    BY <1>2, <1>7, <2>1, <2>2 DEF Marked
<1>9. a \in Live(was)
  <2>1. a \in Reached
    BY <1>1, StackParts DEF Reached, Top, Marking, TypeOK
  <2>2. a # Nil
    BY <1>2, KindsOfRef
  <2> QED
    BY <1>1, <2>1, <2>2 DEF Exact
<1>10. ToSet(stack') \subseteq ToSet(stack) \cup {Nil} \cup Live(was)
  <2>1. Front(stack) \in Seq(Refs) /\ ToSet(Front(stack)) \subseteq ToSet(stack)
    BY <1>1, StackParts DEF Marking, TypeOK
  <2>2. /\ OldPush(a) \in Seq(Refs)
        /\ ToSet(OldPush(a)) = {mem[w].ref : w \in StrongWords(mem, a)}
    BY <1>1, <1>2, OldPushParts
  <2>3. ToSet(OldPush(a)) \subseteq {Nil} \cup Live(was)
    BY <1>1, <1>2, <1>9, <2>2, StrongLive
  <2>4. ToSet(stack') = ToSet(Front(stack)) \cup ToSet(OldPush(a))
    BY <1>7, <2>1, <2>2, PushParts
  <2> QED
    BY <2>1, <2>3, <2>4
<1>11. Reached' \subseteq {Nil} \cup Live(was)
  BY <1>1, <1>7, <1>8, <1>9, <1>10 DEF Reached, Exact
<1>12. ASSUME NEW x \in Addr, x - 1 \notin Marked'
       PROVE  mem'[x] = was.mem[x]
  <2>1. x # a + 1 /\ x - 1 \notin Marked
    BY <1>2, <1>4, <1>8, <1>12 DEF Addr
  <2> QED
    BY <2>1, <1>1, <1>5 DEF Exact
<1>13. ASSUME NEW b \in Marked'
       PROVE  Unmarked(mem'[b + 1]) = was.mem[b + 1]
  <2>1. CASE b = a
    <3>1. mem[a + 1] = was.mem[a + 1]
      <4>1. a + 1 \in Addr /\ (a + 1) - 1 = a /\ a \notin Marked
        BY <1>2, <1>4 DEF Marked
      <4> QED
        BY <4>1, <1>1 DEF Exact
    <3>2. "marked" \notin mem[a + 1].flags
      BY <1>2 DEF Is
    <3>3. Unmarked([mem[a + 1] EXCEPT !.flags = @ \cup {"marked"}]) = mem[a + 1]
      BY <1>6, <3>2 DEF Unmarked, Words
    <3> QED
      BY <2>1, <3>1, <3>3, <1>5
  <2>2. CASE b # a
    <3>1. b \in Marked /\ b \in starts
      BY <2>2, <1>8, <1>13 DEF Marked
    <3>2. b + 1 \in Addr /\ b + 1 # a + 1
      BY <2>2, <3>1, <1>2, <1>4
    <3> QED
      BY <3>1, <3>2, <1>1, <1>5 DEF Exact
  <2> QED
    BY <2>1, <2>2
<1>14. Exact'
  BY <1>7, <1>11, <1>12, <1>13 DEF Exact
<1> QED
  BY <1>7, <1>14 DEF GInv, GraphKept

LEMMA MarkYoungGraph == IInv /\ GInv /\ MarkYoung => GInv'
<1> SUFFICES ASSUME IInv, GInv, MarkYoung PROVE GInv'
  OBVIOUS
<1> DEFINE y == Top
<1>1. TypeOK /\ MarkInv /\ Found /\ Marking /\ Exact /\ phase = "mark" /\ y \in Young
  BY DEF IInv, GInv, MarkYoung, Marking, MarkInv
<1>2. /\ was' = was /\ starts' = starts /\ mem' = mem /\ phase' = "mark"
      /\ seen' = seen \cup {y} /\ stack' = Front(stack) \o YoungPush(young[y])
  BY <1>1 DEF MarkYoung
<1>3. Marked' = Marked
  BY <1>2 DEF Marked
<1>4. y \in Live(was)
  <2>1. y \in Reached
    BY <1>1, StackParts DEF Reached, Top, Marking, TypeOK
  <2>2. y # Nil
    BY <1>1, KindsOfRef
  <2> QED
    BY <1>1, <2>1, <2>2 DEF Exact
<1>5. ToSet(stack') \subseteq ToSet(stack) \cup {Nil} \cup Live(was)
  <2>1. Front(stack) \in Seq(Refs) /\ ToSet(Front(stack)) \subseteq ToSet(stack)
    BY <1>1, StackParts DEF Marking, TypeOK
  <2>2. /\ YoungPush(young[y]) \in Seq(Refs)
        /\ ToSet(YoungPush(young[y])) = YoungStrong(young[y])
    BY <1>1, YoungPushParts
  <2>3. YoungStrong(young[y]) \subseteq {Nil} \cup Live(was)
    BY <1>1, <1>4, StrongLive
  <2>4. ToSet(stack') = ToSet(Front(stack)) \cup ToSet(YoungPush(young[y]))
    BY <1>2, <2>1, <2>2, PushParts
  <2> QED
    BY <2>1, <2>2, <2>3, <2>4
<1>6. Reached' \subseteq {Nil} \cup Live(was)
  BY <1>1, <1>2, <1>3, <1>4, <1>5 DEF Reached, Exact
<1>7. Exact'
  BY <1>1, <1>2, <1>3, <1>6 DEF Exact
<1> QED
  BY <1>2, <1>7 DEF GInv, GraphKept

LEMMA MarkNothingGraph == IInv /\ GInv /\ MarkNothing => GInv'
<1> SUFFICES ASSUME IInv, GInv, MarkNothing PROVE GInv'
  OBVIOUS
<1>1. TypeOK /\ Marking /\ Exact /\ phase = "mark"
  BY DEF IInv, GInv, MarkNothing, Marking
<1>2. /\ was' = was /\ starts' = starts /\ mem' = mem /\ phase' = "mark"
      /\ seen' = seen /\ stack' = Front(stack)
  BY <1>1 DEF MarkNothing
<1>3. Marked' = Marked
  BY <1>2 DEF Marked
<1>4. ToSet(Front(stack)) \subseteq ToSet(stack)
  BY <1>1, StackParts DEF Marking, TypeOK
<1>5. Reached' \subseteq {Nil} \cup Live(was)
  BY <1>1, <1>2, <1>3, <1>4 DEF Reached, Exact
<1>6. Exact'
  BY <1>1, <1>2, <1>3, <1>5 DEF Exact
<1> QED
  BY <1>2, <1>6 DEF GInv, GraphKept
-----------------------------------------------------------------------------
\* The weak slots.

\* Where the reference words of an object lie: in it, and in no other.
LEMMA OwnWords ==
  ASSUME NEW h, Parsed(h), h.mem \in [Addr -> Words],
         NEW a \in h.starts, NEW b \in h.starts, NEW w,
         w \in a .. a + Size(h.mem, a) - 1, w \in RefWords(h.mem, b)
  PROVE  b = a
<1>1. w \in b .. b + Size(h.mem, b) - 1
  BY ObjectInside
<1> QED
  BY <1>1, Apart

\* The words of an object are its class, its second header word and its payload.
LEMMA WordsOf ==
  ASSUME NEW h, Parsed(h), h.mem \in [Addr -> Words], NEW a \in h.starts
  PROVE  /\ a \in a .. a + Size(h.mem, a) - 1
         /\ a + 1 \in a .. a + Size(h.mem, a) - 1
         /\ \A k \in 2 .. Size(h.mem, a) - 1 :
              /\ a + k \in a .. a + Size(h.mem, a) - 1
              /\ a + k \in Addr /\ (a + k) - 1 \notin h.starts
              /\ ~Is(h.mem, a, "bytes") => a + k \in Slots(h.mem, a)
<1>1. PICK n : n = Size(h.mem, a) /\ n \in Nat /\ n >= 2
  BY ObjectInside DEF HeaderWords
<1>2. a \in Int /\ a \in Addr /\ a + n <= OldMax
  <2>1. a \in Int /\ a \in Addr /\ a + n <= h.bump /\ h.bump <= OldMax
    BY <1>1, ObjectInside
  <2>2. h.bump \in Int
    BY SpaceAssumption DEF Parsed
  <2> QED
    BY <1>1, <2>1, <2>2, SpaceAssumption
<1>3. /\ a \in a .. a + n - 1 /\ a + 1 \in a .. a + n - 1
  BY <1>1, <1>2
<1>4. ASSUME NEW k \in 2 .. n - 1
      PROVE  /\ a + k \in a .. a + n - 1
             /\ a + k \in Addr /\ (a + k) - 1 \notin h.starts
             /\ ~Is(h.mem, a, "bytes") => a + k \in Slots(h.mem, a)
  <2>1. a + k \in a .. a + n - 1 /\ a + k \in Addr
    BY <1>1, <1>2, SpaceAssumption DEF Addr
  <2>2. (a + k) - 1 \notin h.starts
    <3>1. PICK b : b = (a + k) - 1 /\ a < b /\ b < a + n
      BY <1>1, <1>2
    <3>2. b \in h.starts => a + n <= b
      BY <1>1, <3>1 DEF Parsed
    <3>3. b \in Int
      BY <3>1, <1>2
    <3> QED
      BY <1>1, <1>2, <3>1, <3>2, <3>3
  <2>3. ~Is(h.mem, a, "bytes") => a + k \in Slots(h.mem, a)
    BY <1>1, <1>2 DEF Slots, HeaderWords
  <2> QED
    BY <2>1, <2>2, <2>3
<1> QED
  BY <1>1, <1>3, <1>4

LEMMA ClearWeakGraph == IInv /\ IInv' /\ GInv /\ ClearWeak => GInv'
<1> SUFFICES ASSUME IInv, GInv, ClearWeak PROVE GInv'
  OBVIOUS
<1>1. /\ TypeOK /\ MarkInv /\ Found /\ Exact /\ stack = <<>> /\ phase = "mark"
      /\ IsHeap(was) /\ was.starts = starts
  BY DEF IInv, GInv, ClearWeak, MarkInv, Found
<1>2. Parsed(Now) /\ Now.mem = mem /\ Now.starts = starts /\ mem \in [Addr -> Words]
  BY <1>1, FoundNow DEF TypeOK, Now
<1>3. \A a \in starts : a \in Addr /\ a + 1 \in Addr /\ a \in Int /\ Size(mem, a) \in Nat
  BY <1>2, ObjectInside
<1>4. /\ was' = was /\ starts' = starts /\ roots' = roots /\ phase' = "plan"
      /\ \A x \in Addr : x \notin WeakSlots => mem'[x] = mem[x]
      /\ \A x \in Addr : x \in WeakSlots => mem'[x] = [mem[x] EXCEPT !.ref = Cleared(@)]
      /\ \A y \in Young : young'[y] = YoungCleared(young[y])
  BY DEF ClearWeak
<1>5. Marked = LiveOld
  <2>1. Marked \subseteq Live(was)
    <3>1. \A a \in Marked : a # Nil /\ a \in Reached
      BY <1>1, <1>3, KindsOfRef DEF Marked, Reached
    <3> QED
      BY <3>1, <1>1 DEF Exact
  <2>2. Live(was) \subseteq Marked \cup seen
    BY <1>1, MarkComplete, LiveParts
  <2> QED
    BY <2>1, <2>2, <1>1, <1>3, KindsOfRef DEF LiveOld, Marked, TypeOK
<1>6. ASSUME NEW a \in starts, NEW w \in a .. a + Size(mem, a) - 1, w \in WeakSlots
      PROVE  Is(mem, a, "weak") /\ w \in Slots(mem, a)
  <2>1. PICK b \in Marked : Is(mem, b, "weak") /\ w \in Slots(mem, b)
    BY <1>6 DEF WeakSlots
  <2>2. b \in starts /\ w \in RefWords(mem, b)
    BY <2>1 DEF Marked, RefWords
  <2>3. b = a
    BY <2>2, <1>2, <1>6, OwnWords
  <2> QED
    BY <2>1, <2>3
<1>7. ASSUME NEW a \in starts
      PROVE  mem'[a] = mem[a] /\ mem'[a + 1] = mem[a + 1]
  <2>1. a \notin Slots(mem, a) /\ a + 1 \notin Slots(mem, a)
    BY <1>3 DEF Slots, HeaderWords
  <2>2. a \in a .. a + Size(mem, a) - 1 /\ a + 1 \in a .. a + Size(mem, a) - 1
    BY <1>2, WordsOf
  <2>3. a \notin WeakSlots /\ a + 1 \notin WeakSlots
    BY <2>1, <2>2, <1>6
  <2> QED
    BY <2>3, <1>3, <1>4
<1>8. \A a \in starts : /\ Size(mem', a) = Size(mem, a) /\ Size(mem, a) = Size(was.mem, a)
                        /\ RefWords(mem', a) = RefWords(mem, a)
                        /\ RefWords(mem, a) = RefWords(was.mem, a)
                        /\ Is(mem', a, "marked") = Is(mem, a, "marked")
                        /\ Is(mem, a, "weak") = Is(was.mem, a, "weak")
                        /\ Is(mem, a, "bytes") = Is(was.mem, a, "bytes")
  <2>1. \A a \in starts : /\ Size(mem', a) = Size(mem, a)
                          /\ RefWords(mem', a) = RefWords(mem, a)
                          /\ Is(mem', a, "marked") = Is(mem, a, "marked")
    BY <1>7 DEF Size, RefWords, Slots, Is
  <2>2. \A a \in starts : /\ Size(mem, a) = Size(was.mem, a)
                          /\ RefWords(mem, a) = RefWords(was.mem, a)
                          /\ Is(mem, a, "weak") = Is(was.mem, a, "weak")
                          /\ Is(mem, a, "bytes") = Is(was.mem, a, "bytes")
    BY <1>1, FoundNow DEF Flags
  <2> QED
    BY <2>1, <2>2
<1>9. \A r \in KnownRefs : Cleared(r) = Left(TRUE, r) /\ r \in Refs /\ Cleared(r) \in Refs
  <2> SUFFICES ASSUME NEW r \in KnownRefs
               PROVE  Cleared(r) = Left(TRUE, r) /\ r \in Refs /\ Cleared(r) \in Refs
    OBVIOUS
  <2>1. r \in Addr => r \in starts
    BY KindsOfRef DEF KnownRefs
  <2>2. r \in Addr => (Is(mem, r, "marked") <=> r \in Live(was))
    BY <2>1, <1>5, KindsOfRef DEF Marked, LiveOld
  <2>3. r \in Refs /\ Cleared(r) \in Refs
    BY <1>3 DEF KnownRefs, Refs, Cleared
  <2> QED
    BY <2>2, <2>3 DEF Cleared, Left
<1>10. \A r \in Refs : Unturned[r] = r /\ Left(FALSE, r) = r
  BY DEF Unturned, Left
<1>11. ASSUME NEW a \in LiveOld
       PROVE  /\ Unmarked(mem'[a + 1]) = was.mem[a + 1]
              /\ mem'[a].ref = Unturned[was.mem[a].ref]
              /\ \A k \in 2 .. Size(was.mem, a) - 1 :
                   IF Is(was.mem, a, "bytes") THEN mem'[a + k] = was.mem[a + k]
                   ELSE mem'[a + k].ref
                          = Unturned[Left(Is(was.mem, a, "weak"), was.mem[a + k].ref)]
  <2>1. a \in starts /\ a \in Marked
    BY <1>5 DEF Marked
  <2>2. Unmarked(mem'[a + 1]) = was.mem[a + 1]
    BY <2>1, <1>1, <1>7 DEF Exact
  <2>3. mem'[a].ref = Unturned[was.mem[a].ref]
    <3>1. mem'[a].ref = was.mem[a].ref /\ mem[a].ref \in Refs
      BY <2>1, <1>1, <1>2, <1>3, <1>7 DEF Found, Words
    <3> QED
      BY <3>1, <2>1, <1>7, <1>10
  <2>4. ASSUME NEW k \in 2 .. Size(was.mem, a) - 1
        PROVE  IF Is(was.mem, a, "bytes") THEN mem'[a + k] = was.mem[a + k]
               ELSE mem'[a + k].ref
                      = Unturned[Left(Is(was.mem, a, "weak"), was.mem[a + k].ref)]
    <3>1. /\ a + k \in a .. a + Size(mem, a) - 1
          /\ a + k \in Addr /\ (a + k) - 1 \notin starts
          /\ ~Is(mem, a, "bytes") => a + k \in Slots(mem, a)
      BY <2>1, <1>2, <1>8, WordsOf
    <3>2. mem[a + k] = was.mem[a + k]
      BY <3>1, <1>1 DEF Exact, Marked
    <3>3. mem[a + k] \in Words /\ mem[a + k].ref \in Refs
      BY <3>1, <1>2 DEF Words
    <3>4. CASE Is(was.mem, a, "bytes")
      <4>1. a + k \notin WeakSlots
        BY <2>1, <3>1, <3>4, <1>6, <1>8 DEF Slots
      <4> QED
        BY <4>1, <3>1, <3>2, <3>4, <1>4
    <3>5. CASE ~Is(was.mem, a, "bytes") /\ Is(was.mem, a, "weak")
      <4>1. a + k \in WeakSlots
        BY <2>1, <3>1, <3>5, <1>8 DEF WeakSlots
      <4>2. mem'[a + k].ref = Cleared(mem[a + k].ref)
        BY <4>1, <3>1, <3>3, <1>4 DEF Words
      <4>3. mem[a + k].ref \in KnownRefs
        <5>1. a + k \in RefWords(mem, a)
          BY <2>1, <3>1, <3>5, <1>8 DEF RefWords
        <5> QED
          BY <5>1, <2>1, <1>1, FoundNow
      <4>4. Is(was.mem, a, "weak") = TRUE
        BY <3>5 DEF Is
      <4> QED
        BY <4>2, <4>3, <4>4, <3>2, <3>5, <1>9, <1>10
    <3>6. CASE ~Is(was.mem, a, "bytes") /\ ~Is(was.mem, a, "weak")
      <4>1. a + k \notin WeakSlots
        BY <2>1, <3>1, <3>6, <1>6, <1>8
      <4>2. mem'[a + k] = mem[a + k]
        BY <4>1, <3>1, <1>4
      <4>3. Left(Is(was.mem, a, "weak"), was.mem[a + k].ref) = was.mem[a + k].ref
        BY <3>6 DEF Left
      <4> QED
        BY <4>2, <4>3, <3>2, <3>3, <3>6, <1>10
    <3> QED
      BY <3>4, <3>5, <3>6
  <2> QED
    BY <2>2, <2>3, <2>4
<1>12. ASSUME NEW n \in Young
       PROVE  /\ young'[n].klass = Unturned[was.young[n].klass]
              /\ DOMAIN young'[n].slots = DOMAIN was.young[n].slots
              /\ \A i \in DOMAIN was.young[n].slots :
                   young'[n].slots[i] = Unturned[Left(was.young[n].weak, was.young[n].slots[i])]
  <2> DEFINE o == young[n]
  <2>1. /\ was.young[n] = o /\ o \in YoungObjects /\ o.klass \in Refs /\ o.slots \in Seq(Refs)
        /\ o.weak \in BOOLEAN /\ young'[n] = YoungCleared(o)
        /\ YoungRefs(o) \subseteq KnownRefs
    BY <1>1, <1>4, FoundNow DEF Found, TypeOK, YoungObjects
  <2> HIDE DEF o
  <2>2. \A i \in DOMAIN o.slots : o.slots[i] \in Refs /\ o.slots[i] \in KnownRefs
    BY <2>1 DEF YoungRefs, ToSet
  <2>3. CASE ~o.weak
    <3>1. young'[n] = o
      BY <2>1, <2>3 DEF YoungCleared
    <3>2. \A i \in DOMAIN o.slots : Unturned[Left(o.weak, o.slots[i])] = o.slots[i]
      BY <2>2, <2>3, <1>10 DEF Left
    <3>3. Unturned[o.klass] = o.klass
      BY <2>1, <1>10
    <3> QED
      BY <3>1, <3>2, <3>3, <2>1
  <2>4. CASE o.weak
    <3>1. young'[n] = [o EXCEPT !.slots = [i \in DOMAIN o.slots |-> Cleared(o.slots[i])]]
      BY <2>1, <2>4 DEF YoungCleared
    <3>2. /\ young'[n].klass = o.klass
          /\ DOMAIN young'[n].slots = DOMAIN o.slots
          /\ \A i \in DOMAIN o.slots : young'[n].slots[i] = Cleared(o.slots[i])
      BY <3>1, <2>1 DEF YoungObjects
    <3>3. \A i \in DOMAIN o.slots : Unturned[Left(o.weak, o.slots[i])] = Cleared(o.slots[i])
      <4>1. o.weak = TRUE
        BY <2>1, <2>4
      <4> QED
        BY <4>1, <2>2, <1>9, <1>10
    <3>4. Unturned[o.klass] = o.klass
      BY <2>1, <1>10
    <3> QED
      BY <3>2, <3>3, <3>4, <2>1
  <2> QED
    BY <2>3, <2>4
<1>13. \A r \in RootSlots : roots'[r] = Unturned[was.roots[r]]
  BY <1>1, <1>4, <1>10 DEF Found, TypeOK
<1>14. LiveOld' = LiveOld /\ Unturned' = Unturned
  BY <1>4 DEF LiveOld, Unturned
<1>15. Same(mem, young, roots, Unturned)'
  BY <1>4, <1>11, <1>12, <1>13, <1>14 DEF Same, Left
<1>16. Marked' = LiveOld'
  BY <1>4, <1>5, <1>8, <1>14 DEF Marked
<1>17. \A a \in LiveOld' : /\ RefWords(mem, a)' = RefWords(was.mem, a)'
                           /\ Size(mem, a)' = Size(was.mem, a)'
  BY <1>4, <1>5, <1>8, <1>14 DEF Marked
<1>18. Sifted'
  BY <1>1, <1>4, <1>15, <1>16, <1>17 DEF Sifted
<1> QED
  BY <1>1, <1>4, <1>18 DEF GInv, GraphKept
-----------------------------------------------------------------------------
\* The plan reads only.
LEMMA PlanGraph == GInv /\ (PlanDead \/ PlanPin \/ PlanMove) => GInv'
<1> SUFFICES ASSUME GInv, PlanDead \/ PlanPin \/ PlanMove PROVE GInv'
  OBVIOUS
<1>1. /\ phase = "plan" /\ phase' = phase /\ mem' = mem /\ starts' = starts /\ roots' = roots
      /\ young' = young /\ was' = was
  BY DEF PlanDead, PlanPin, PlanMove, Planning
<1>2. Sifted
  BY <1>1 DEF GInv
<1>3. Marked' = Marked /\ LiveOld' = LiveOld /\ Unturned' = Unturned
  BY <1>1 DEF Marked, LiveOld, Unturned
<1>4. Same(mem, young, roots, Unturned)'
  BY <1>1, <1>2, <1>3 DEF Sifted, Same, Left
<1>5. Sifted'
  BY <1>1, <1>2, <1>3, <1>4 DEF Sifted
<1> QED
  BY <1>1, <1>5 DEF GInv, GraphKept

\* Every reachable object has its place in the plan, and no other has.
LEMMA PlannedAreLive ==
  ASSUME TypeOK, PlanInv, Sifted, scan = bump
  PROVE  /\ {objs[i].from : i \in DOMAIN objs} = LiveOld
         /\ \A i \in DOMAIN objs : objs[i].size = Size(was.mem, objs[i].from)
<1>1. \A i \in DOMAIN objs : /\ objs[i].from \in Marked
                             /\ objs[i].size = Size(mem, objs[i].from)
  BY DEF PlanInv
<1>2. ASSUME NEW a \in Marked PROVE \E i \in DOMAIN objs : objs[i].from = a
  <2>1. Parsed(Now) /\ mem \in [Addr -> Words] /\ a \in starts
    BY DEF PlanInv, TypeOK, Marked
  <2>2. a \in Int /\ Size(mem, a) \in Nat /\ Size(mem, a) >= 2 /\ a + Size(mem, a) <= bump
    BY <2>1, ObjectInside DEF Now, HeaderWords
  <2>3. a < scan
    BY <2>2 DEF TypeOK
  <2> QED
    BY <2>3 DEF PlanInv
<1> QED
  BY <1>1, <1>2 DEF Sifted

LEMMA UpdateGraph == IInv /\ GInv /\ Update => GInv'
<1> SUFFICES ASSUME IInv, GInv, Update PROVE GInv'
  OBVIOUS
<1> DEFINE words == UNION {RefWords(mem, a) : a \in Marked}
<1>1. /\ TypeOK /\ PlanInv /\ Sifted /\ scan = bump /\ phase = "plan" /\ IsHeap(was)
      /\ Same(mem, young, roots, Unturned)
  BY DEF IInv, GInv, Update, Sifted
<1>2. Parsed(Now) /\ Now.mem = mem /\ Now.starts = starts /\ mem \in [Addr -> Words]
  BY <1>1 DEF PlanInv, TypeOK, Now
<1>3. /\ was' = was /\ objs' = objs /\ phase' = "move" /\ held' = mem'
      /\ \A x \in Addr : x \notin words => mem'[x] = mem[x]
      /\ \A x \in Addr : x \in words => mem'[x] = [mem[x] EXCEPT !.ref = Forward(@)]
      /\ \A r \in RootSlots : roots'[r] = Forward(roots[r])
      /\ \A y \in Young :
           young'[y] = [young[y] EXCEPT !.klass = Forward(@),
                                        !.slots = [i \in DOMAIN @ |-> Forward(@[i])]]
  BY DEF Update, ForwardRoot
<1>4. \A a \in starts : a \in Addr /\ a + 1 \in Addr /\ RefWords(mem, a) \subseteq Addr
                        /\ a + 1 \notin RefWords(mem, a) /\ Size(mem, a) \in Nat
                        /\ a \in Int
  BY <1>2, ObjectInside
<1>5. ASSUME NEW a \in starts, NEW w \in a .. a + Size(mem, a) - 1, w \in words
      PROVE  w \in RefWords(mem, a)
  <2>1. PICK b \in Marked : w \in RefWords(mem, b)
    BY <1>5
  <2>2. b = a
    BY <2>1, <1>2, <1>5, OwnWords DEF Marked
  <2> QED
    BY <2>1, <2>2
<1>6. \A a \in Marked : \A w \in RefWords(mem, a) : w \in words
  OBVIOUS
<1> HIDE DEF words
<1>7. \A r \in Refs : Unturned[r] = r /\ Turned[r] = Forward(r)
  BY DEF Unturned, Turned
<1>8. \A weak, r : r \in Refs => Left(weak, r) \in Refs
  BY DEF Left, Refs
<1>9. ASSUME NEW a \in LiveOld
      PROVE  /\ Unmarked(mem'[a + 1]) = was.mem[a + 1]
             /\ mem'[a].ref = Turned[was.mem[a].ref]
             /\ \A k \in 2 .. Size(was.mem, a) - 1 :
                  IF Is(was.mem, a, "bytes") THEN mem'[a + k] = was.mem[a + k]
                  ELSE mem'[a + k].ref
                         = Turned[Left(Is(was.mem, a, "weak"), was.mem[a + k].ref)]
  <2>1. /\ a \in Marked /\ a \in starts /\ a \in was.starts
        /\ RefWords(mem, a) = RefWords(was.mem, a) /\ Size(mem, a) = Size(was.mem, a)
    BY <1>1 DEF Sifted, Marked
  <2>2. /\ Unmarked(mem[a + 1]) = was.mem[a + 1]
        /\ mem[a].ref = Unturned[was.mem[a].ref]
        /\ \A k \in 2 .. Size(was.mem, a) - 1 :
             IF Is(was.mem, a, "bytes") THEN mem[a + k] = was.mem[a + k]
             ELSE mem[a + k].ref = Unturned[Left(Is(was.mem, a, "weak"), was.mem[a + k].ref)]
    BY <1>1 DEF Same
  <2>3. a \in a .. a + Size(mem, a) - 1 /\ a + 1 \in a .. a + Size(mem, a) - 1
    BY <2>1, <1>2, WordsOf
  <2>4. mem'[a + 1] = mem[a + 1]
    BY <2>1, <2>3, <1>3, <1>4, <1>5
  <2>5. mem'[a].ref = Turned[was.mem[a].ref]
    <3>1. a \in words
      BY <2>1, <1>6 DEF RefWords
    <3>2. mem[a] \in Words /\ was.mem[a] \in Words /\ mem[a].ref \in Refs /\ was.mem[a].ref \in Refs
      BY <2>1, <1>1, <1>2, <1>4 DEF IsHeap, Words
    <3>3. mem'[a].ref = Forward(mem[a].ref)
      BY <3>1, <3>2, <2>1, <1>3, <1>4 DEF Words
    <3> QED
      BY <3>2, <3>3, <2>2, <1>7
  <2>6. ASSUME NEW k \in 2 .. Size(was.mem, a) - 1
        PROVE  IF Is(was.mem, a, "bytes") THEN mem'[a + k] = was.mem[a + k]
               ELSE mem'[a + k].ref
                      = Turned[Left(Is(was.mem, a, "weak"), was.mem[a + k].ref)]
    <3>1. a + k \in a .. a + Size(mem, a) - 1 /\ a + k \in Addr
      BY <2>1, <1>2, WordsOf
    <3>2. mem[a + k] \in Words /\ was.mem[a + k] \in Words /\ was.mem[a + k].ref \in Refs
      BY <3>1, <1>1, <1>2 DEF IsHeap, Words
    <3>3. CASE Is(was.mem, a, "bytes")
      <4>1. a + k \notin RefWords(mem, a)
        <5>1. RefWords(was.mem, a) = {a}
          BY <3>3 DEF RefWords, Slots
        <5>2. a + k # a
          <6>1. PICK n : n = Size(was.mem, a) /\ n \in Nat
            BY <2>1, <1>4
          <6>2. k \in 2 .. n - 1
            BY <6>1
          <6>3. a \in Int
            BY <2>1, <1>4
          <6> QED
            BY <6>1, <6>2, <6>3
        <5> QED
          BY <5>1, <5>2, <2>1
      <4>2. mem'[a + k] = mem[a + k]
        BY <4>1, <3>1, <2>1, <1>3, <1>5
      <4> QED
        BY <4>2, <2>2, <3>3
    <3>4. CASE ~Is(was.mem, a, "bytes")
      <4>1. a + k \in RefWords(was.mem, a)
        BY <2>1, <3>4, <1>1, WordsOf DEF RefWords, IsHeap
      <4>2. a + k \in words
        BY <4>1, <2>1, <1>6
      <4>3. mem'[a + k].ref = Forward(mem[a + k].ref)
        BY <4>2, <3>1, <3>2, <1>3 DEF Words
      <4>4. PICK r : r = Left(Is(was.mem, a, "weak"), was.mem[a + k].ref) /\ r \in Refs
        BY <3>2, <1>8
      <4>5. mem[a + k].ref = r
        BY <4>4, <3>4, <2>2, <1>7
      <4> QED
        BY <4>3, <4>4, <4>5, <3>4, <1>7
    <3> QED
      BY <3>3, <3>4
  <2> QED
    BY <2>2, <2>4, <2>5, <2>6
<1>10. ASSUME NEW n \in Young
       PROVE  /\ young'[n].klass = Turned[was.young[n].klass]
              /\ DOMAIN young'[n].slots = DOMAIN was.young[n].slots
              /\ \A i \in DOMAIN was.young[n].slots :
                   young'[n].slots[i] = Turned[Left(was.young[n].weak, was.young[n].slots[i])]
  <2>1. young[n] \in YoungObjects /\ was.young[n] \in YoungObjects
    BY <1>1 DEF TypeOK, IsHeap
  <2>2. /\ was.young[n].klass \in Refs
        /\ \A i \in DOMAIN was.young[n].slots : was.young[n].slots[i] \in Refs
    BY <2>1 DEF YoungObjects
  <2>3. /\ young[n].klass = was.young[n].klass
        /\ DOMAIN young[n].slots = DOMAIN was.young[n].slots
        /\ \A i \in DOMAIN was.young[n].slots :
             young[n].slots[i] = Left(was.young[n].weak, was.young[n].slots[i])
    BY <2>2, <1>1, <1>7, <1>8 DEF Same
  <2>4. /\ young'[n].klass = Forward(young[n].klass)
        /\ young'[n].slots = [i \in DOMAIN young[n].slots |-> Forward(young[n].slots[i])]
    BY <2>1, <1>3 DEF YoungObjects
  <2>5. young'[n].klass = Turned[was.young[n].klass]
    BY <2>2, <2>3, <2>4, <1>7
  <2>6. ASSUME NEW i \in DOMAIN was.young[n].slots
        PROVE  young'[n].slots[i] = Turned[Left(was.young[n].weak, was.young[n].slots[i])]
    <3>1. PICK r : r = Left(was.young[n].weak, was.young[n].slots[i]) /\ r \in Refs
      BY <2>2, <1>8
    <3>2. young'[n].slots[i] = Forward(r)
      BY <2>3, <2>4, <3>1
    <3> QED
      BY <3>1, <3>2, <1>7
  <2> QED
    BY <2>3, <2>4, <2>5, <2>6
<1>11. ASSUME NEW r \in RootSlots PROVE roots'[r] = Turned[was.roots[r]]
  <2>1. was.roots[r] \in Refs
    BY <1>1 DEF IsHeap
  <2>2. roots[r] = was.roots[r]
    BY <2>1, <1>1, <1>7 DEF Same
  <2>3. roots'[r] = Forward(roots[r])
    BY <1>3
  <2>4. Turned[was.roots[r]] = Forward(was.roots[r])
    BY <2>1, <1>7
  <2> QED
    BY <2>2, <2>3, <2>4
<1>12. LiveOld' = LiveOld /\ Turned' = Turned
  BY <1>3 DEF LiveOld, Turned, Forward
<1> HIDE DEF Turned, LiveOld
<1>13. Same(held, young, roots, Turned)'
  <2>1. \A weak, r : Left(weak, r)' = Left(weak, r)
    BY <1>3 DEF Left
  <2>2. was' = was /\ held' = mem'
    BY <1>3
  <2> HIDE DEF Left
  <2> QED
    BY <2>1, <2>2, <1>9, <1>10, <1>11, <1>12 DEF Same
<1>14. Forwarded'
  BY <1>1, <1>3, <1>12, <1>13, PlannedAreLive DEF Forwarded
<1> QED
  BY <1>1, <1>3, <1>14 DEF GInv, GraphKept

LEMMA MoveOneGraph == GInv /\ MoveOne => GInv'
<1> SUFFICES ASSUME GInv, MoveOne PROVE GInv'
  OBVIOUS
<1>1. /\ phase = "move" /\ phase' = phase /\ roots' = roots /\ young' = young /\ was' = was
      /\ objs' = objs /\ held' = held
  BY DEF MoveOne
<1>2. Forwarded
  BY <1>1 DEF GInv
<1>3. LiveOld' = LiveOld /\ Turned' = Turned
  BY <1>1 DEF LiveOld, Turned, Forward
<1>4. Same(held, young, roots, Turned)'
  BY <1>1, <1>2, <1>3 DEF Forwarded, Same, Left
<1>5. Forwarded'
  BY <1>1, <1>2, <1>3, <1>4 DEF Forwarded
<1> QED
  BY <1>1, <1>5 DEF GInv, GraphKept
-----------------------------------------------------------------------------
\* The end of the collection.

\* What the old space holds once it is filled.  A reference to a reachable object, to
\* the nursery or to nothing names after the collection what it named before.
LEMMA Filled ==
  ASSUME IInv, IInv', GInv, Fill
  PROVE  /\ starts' = Targets \cup Fillers
         /\ \A x \in Fillers : mem'[x + 1].hash = 0
         /\ \A a \in LiveOld : \E i \in DOMAIN objs : objs[i].from = a
         /\ \A i \in DOMAIN objs :
              LET a == objs[i].from
                  b == objs[i].to
              IN /\ a \in LiveOld /\ b \in Addr
                 /\ mem'[b + 1] = was.mem[a + 1]
                 /\ mem'[b] = held[a]
                 /\ \A k \in 2 .. Size(was.mem, a) - 1 : mem'[b + k] = held[a + k]
         /\ \A r \in {Nil} \cup Young \cup Live(was) :
              r \in Refs /\ Name(Now, Turned[r])' = Name(was, r)
<1>1. /\ TypeOK /\ MoveInv /\ Ordered /\ Forwarded /\ IsHeap(was)
      /\ Same(held, young, roots, Turned)
  BY DEF IInv, GInv, Fill, MoveInv, Forwarded
<1>2. starts' = Targets \cup Fillers /\ objs' = objs /\ was' = was
  BY DEF Fill, Targets
<1>3. \A x \in Fillers : mem'[x + 1].hash = 0
  BY <1>1, FillWrites DEF Fillers
<1>4. \A a \in LiveOld : \E i \in DOMAIN objs : objs[i].from = a
  BY <1>1 DEF Forwarded
<1>5. ASSUME NEW i \in DOMAIN objs
      PROVE  /\ objs[i].from \in LiveOld /\ objs[i].to \in Addr
             /\ mem'[objs[i].to + 1] = was.mem[objs[i].from + 1]
             /\ mem'[objs[i].to] = held[objs[i].from]
             /\ \A k \in 2 .. Size(was.mem, objs[i].from) - 1 :
                  mem'[objs[i].to + k] = held[objs[i].from + k]
  <2>1. PICK a, b, n : a = objs[i].from /\ b = objs[i].to /\ n = objs[i].size
    OBVIOUS
  <2>2. /\ a \in LiveOld /\ n = Size(was.mem, a)
        /\ a \in Int /\ b \in Int /\ n \in Int /\ n >= 2
        /\ \A k \in 0 .. n - 1 : b + k \in Addr
    BY <2>1, <1>1, PlannedParts DEF Forwarded
  <2>3. \A k \in 0 .. n - 1 : mem'[b + k] = IF k = 1 THEN Unmarked(held[a + 1]) ELSE held[a + k]
    BY <2>1, <1>1, FillWrites
  <2>4. mem'[b + 1] = Unmarked(held[a + 1]) /\ mem'[b + 0] = held[a + 0] /\ b + 0 \in Addr
    BY <2>2, <2>3
  <2>5. Unmarked(held[a + 1]) = was.mem[a + 1]
    BY <2>2, <1>1 DEF Same
  <2>7. \A k \in 2 .. n - 1 : mem'[b + k] = held[a + k]
    BY <2>2, <2>3
  <2>8. mem'[b] = held[a] /\ b \in Addr
    BY <2>2, <2>4
  <2> QED
    BY <2>1, <2>2, <2>4, <2>5, <2>7, <2>8
<1>7. ASSUME NEW r \in {Nil} \cup Young \cup Live(was)
      PROVE  r \in Refs /\ Name(Now, Turned[r])' = Name(was, r)
  <2>1. Turned' = Turned /\ Now'.mem = mem'
    BY <1>2 DEF Turned, Forward, Now
  <2>2. CASE r \in LiveOld
    <3>1. \E i \in DOMAIN objs : objs[i].from = r
      BY <2>2, <1>4
    <3>2. PICK j \in DOMAIN objs : objs[j].from = r /\ Forward(r) = objs[j].to
      BY <3>1 DEF Forward
    <3>3. r \in Addr
      BY <3>2, <1>1, MoveNumbers DEF TypeOK
    <3>4. r \in Refs /\ Turned[r] = objs[j].to
      BY <3>2, <3>3 DEF Turned, Refs
    <3>5. Name(was, r) = <<"old", was.mem[r + 1].hash>>
      BY <3>3 DEF Name
    <3>6. /\ objs[j].to \in Addr
          /\ mem'[objs[j].to + 1] = was.mem[r + 1]
      BY <3>2, <1>5
    <3>7. Name(Now', objs[j].to) = <<"old", mem'[objs[j].to + 1].hash>>
      BY <3>6, <2>1 DEF Name
    <3>8. Name(Now', Turned[r]) = Name(was, r)
      BY <3>4, <3>5, <3>6, <3>7
    <3> QED
      BY <3>4, <3>8, <2>1
  <2>3. CASE r \in {Nil} \cup Young
    <3>1. r \notin Addr /\ r \in Refs
      BY <2>3, KindsOfRef
    <3>2. \A i \in DOMAIN objs : objs[i].from \in Addr
      BY <1>1, MoveNumbers DEF TypeOK
    <3>3. Turned[r] = r
      BY <3>1, <3>2 DEF Turned, Forward
    <3>4. Name(Now', r) = Name(was, r)
      BY <3>1 DEF Name
    <3>5. Name(Now', Turned[r]) = Name(was, r)
      BY <3>3, <3>4
    <3> QED
      BY <3>1, <3>5, <2>1
  <2> QED
    BY <2>2, <2>3 DEF LiveOld
<1> QED
  BY <1>2, <1>3, <1>4, <1>5, <1>7

\* A weak reference names what it named, or nothing when that died.
LEMMA WeakFilled ==
  ASSUME IInv, IInv', GInv, Fill, NEW r \in {Nil} \cup Objects(was)
  PROVE  Name(Now, Turned[Left(TRUE, r)])' = WeakName(was, r)
<1>1. \A s \in {Nil} \cup Young \cup Live(was) :
        s \in Refs /\ Name(Now, Turned[s])' = Name(was, s)
  BY Filled
<1>2. Left(TRUE, r)' = Left(TRUE, r)
  BY DEF Fill, Left
<1>3. CASE r \in Addr /\ r \notin Live(was)
  <2>1. Left(TRUE, r) = Nil /\ WeakName(was, r) = Name(was, Nil)
    BY <1>3 DEF Left, WeakName
  <2> QED
    BY <2>1, <1>1, <1>2
<1>4. CASE ~(r \in Addr /\ r \notin Live(was))
  <2>1. Left(TRUE, r) = r /\ WeakName(was, r) = Name(was, r)
    BY <1>4 DEF Left, WeakName
  <2>2. r \in {Nil} \cup Young \cup Live(was)
    <3>1. was.starts \subseteq Addr
      BY ObjectInside DEF GInv, IsHeap
    <3> QED
      BY <3>1, <1>4 DEF Objects
  <2> QED
    BY <2>1, <2>2, <1>1, <1>2
<1> QED
  BY <1>3, <1>4
LEMMA FilledObjects ==
  ASSUME IInv, IInv', GInv, Fill, NEW i \in DOMAIN objs
  PROVE  LET a   == objs[i].from
             b   == objs[i].to
             old == was.mem[a + 1]
         IN /\ b \in starts' /\ mem'[b + 1] = old
            /\ Name(Now', mem'[b].ref) = Name(was, was.mem[a].ref)
            /\ \A k \in 2 .. Size(was.mem, a) - 1 :
                 IF "bytes" \in old.flags THEN mem'[b + k] = was.mem[a + k]
                 ELSE Name(Now', mem'[b + k].ref) =
                        IF "weak" \in old.flags THEN WeakName(was, was.mem[a + k].ref)
                        ELSE Name(was, was.mem[a + k].ref)
<1>1. PICK a, b : a = objs[i].from /\ b = objs[i].to
  OBVIOUS
<1>2. /\ IsHeap(was) /\ Same(held, young, roots, Turned) /\ was' = was /\ objs' = objs
  BY DEF GInv, Fill, Forwarded
<1>3. /\ a \in LiveOld
      /\ mem'[b + 1] = was.mem[a + 1]
      /\ mem'[b] = held[a]
      /\ \A k \in 2 .. Size(was.mem, a) - 1 : mem'[b + k] = held[a + k]
  BY <1>1, Filled
<1>4. b \in starts'
  BY <1>1, Filled DEF Targets
<1>5. /\ held[a].ref = Turned[was.mem[a].ref]
      /\ \A k \in 2 .. Size(was.mem, a) - 1 :
           IF Is(was.mem, a, "bytes") THEN held[a + k] = was.mem[a + k]
           ELSE held[a + k].ref = Turned[Left(Is(was.mem, a, "weak"), was.mem[a + k].ref)]
  BY <1>2, <1>3 DEF Same
<1>6. \A r \in {Nil} \cup Young \cup Live(was) :
        r \in Refs /\ Name(Now', Turned[r]) = Name(was, r)
  <2>1. Turned' = Turned
    BY <1>2 DEF Turned, Forward
  <2>2. \A r \in {Nil} \cup Young \cup Live(was) :
          r \in Refs /\ Name(Now, Turned[r])' = Name(was, r)
    BY Filled
  <2> QED
    BY <2>1, <2>2
<1>7. a \in was.starts /\ a \in Live(was) \ Young
  BY <1>2, <1>3, LiveRefs DEF LiveOld
<1>8. \A w \in StrongWords(was.mem, a) : was.mem[w].ref \in {Nil} \cup Young \cup Live(was)
  BY <1>2, <1>7, LiveRefs
<1>9. Name(Now', mem'[b].ref) = Name(was, was.mem[a].ref)
  <2>1. a \in StrongWords(was.mem, a)
    BY DEF StrongWords, RefWords
  <2> QED
    BY <2>1, <1>3, <1>5, <1>6, <1>8
<1>10. ASSUME NEW k \in 2 .. Size(was.mem, a) - 1
       PROVE  IF Is(was.mem, a, "bytes") THEN mem'[b + k] = was.mem[a + k]
              ELSE Name(Now', mem'[b + k].ref) =
                     IF Is(was.mem, a, "weak") THEN WeakName(was, was.mem[a + k].ref)
                     ELSE Name(was, was.mem[a + k].ref)
  <2>1. CASE Is(was.mem, a, "bytes")
    BY <2>1, <1>3, <1>5
  <2>2. CASE ~Is(was.mem, a, "bytes")
    <3>1. a + k \in RefWords(was.mem, a)
      BY <2>2, <1>2, <1>7, WordsOf DEF RefWords, IsHeap
    <3>2. was.mem[a + k].ref \in {Nil} \cup Objects(was)
      BY <3>1, <1>2, <1>7 DEF IsHeap
    <3>3. mem'[b + k].ref = Turned[Left(Is(was.mem, a, "weak"), was.mem[a + k].ref)]
      BY <2>2, <1>3, <1>5
    <3>4. CASE Is(was.mem, a, "weak")
      <4>1. Is(was.mem, a, "weak") = TRUE
        BY <3>4 DEF Is
      <4>2. Turned' = Turned /\ Left(TRUE, was.mem[a + k].ref)' = Left(TRUE, was.mem[a + k].ref)
        BY <1>2 DEF Turned, Forward, Left
      <4>3. \A r \in {Nil} \cup Objects(was) :
              Name(Now, Turned[Left(TRUE, r)])' = WeakName(was, r)
        BY WeakFilled
      <4>4. \A r : Left(TRUE, r)' = Left(TRUE, r)
        BY <1>2 DEF Left
      <4>5. Name(Now', Turned[Left(TRUE, was.mem[a + k].ref)]) = WeakName(was, was.mem[a + k].ref)
        BY <3>2, <4>2, <4>3, <4>4
      <4> QED
        BY <2>2, <3>3, <3>4, <4>1, <4>5
    <3>5. CASE ~Is(was.mem, a, "weak")
      <4>1. a + k \in StrongWords(was.mem, a)
        BY <3>1, <3>5 DEF StrongWords
      <4>2. Left(Is(was.mem, a, "weak"), was.mem[a + k].ref) = was.mem[a + k].ref
        BY <3>5 DEF Left
      <4> QED
        BY <2>2, <3>3, <3>5, <4>1, <4>2, <1>6, <1>8
    <3> QED
      BY <3>4, <3>5
  <2> QED
    BY <2>1, <2>2
<1>11. \A k \in 2 .. Size(was.mem, a) - 1 :
         IF "bytes" \in was.mem[a + 1].flags THEN mem'[b + k] = was.mem[a + k]
         ELSE Name(Now', mem'[b + k].ref) =
                IF "weak" \in was.mem[a + 1].flags THEN WeakName(was, was.mem[a + k].ref)
                ELSE Name(was, was.mem[a + k].ref)
  BY <1>10 DEF Is
<1> QED
  BY <1>1, <1>3, <1>4, <1>9, <1>11

LEMMA FilledNursery ==
  ASSUME IInv, IInv', GInv, Fill, NEW y \in Live(was) \cap Young
  PROVE  LET old == was.young[y]
         IN /\ Name(Now', young'[y].klass) = Name(was, old.klass)
            /\ \A i \in DOMAIN old.slots :
                 Name(Now', young'[y].slots[i]) =
                   IF old.weak THEN WeakName(was, old.slots[i])
                   ELSE Name(was, old.slots[i])
<1>1. /\ IsHeap(was) /\ Same(held, young, roots, Turned) /\ was' = was /\ young' = young
  BY DEF GInv, Fill, Forwarded
<1>2. Turned' = Turned
  BY DEF Turned, Forward, Fill
<1>3. \A r \in {Nil} \cup Young \cup Live(was) :
        r \in Refs /\ Name(Now', Turned[r]) = Name(was, r)
  <2>1. \A r \in {Nil} \cup Young \cup Live(was) :
          r \in Refs /\ Name(Now, Turned[r])' = Name(was, r)
    BY Filled
  <2> QED
    BY <1>2, <2>1
<1>4. PICK old : old = was.young[y]
  OBVIOUS
<1>5. /\ young[y].klass = Turned[old.klass]
      /\ \A i \in DOMAIN old.slots : young[y].slots[i] = Turned[Left(old.weak, old.slots[i])]
      /\ old.weak \in BOOLEAN
  BY <1>1, <1>4 DEF Same, IsHeap, YoungObjects
<1>6. YoungStrong(old) \subseteq {Nil} \cup Young \cup Live(was)
  BY <1>1, <1>4, LiveRefs
<1>7. Name(Now', young[y].klass) = Name(was, old.klass)
  BY <1>3, <1>5, <1>6 DEF YoungStrong, YoungRefs
<1>8. ASSUME NEW i \in DOMAIN old.slots
      PROVE  Name(Now', young[y].slots[i]) =
               IF old.weak THEN WeakName(was, old.slots[i]) ELSE Name(was, old.slots[i])
  <2>1. old.slots[i] \in YoungRefs(old)
    BY DEF YoungRefs, ToSet
  <2>2. old.slots[i] \in {Nil} \cup Objects(was)
    BY <2>1, <1>1, <1>4 DEF IsHeap
  <2>3. CASE old.weak
    <3>1. old.weak = TRUE
      BY <2>3, <1>5
    <3>2. \A r \in {Nil} \cup Objects(was) :
            Name(Now, Turned[Left(TRUE, r)])' = WeakName(was, r)
      BY WeakFilled
    <3>3. \A r : Left(TRUE, r)' = Left(TRUE, r)
      BY <1>1 DEF Left
    <3>4. Name(Now', Turned[Left(TRUE, old.slots[i])]) = WeakName(was, old.slots[i])
      BY <2>2, <3>2, <3>3, <1>2
    <3> QED
      BY <3>1, <3>4, <1>5
  <2>4. CASE ~old.weak
    <3>1. Left(old.weak, old.slots[i]) = old.slots[i]
      BY <2>4 DEF Left
    <3>2. old.slots[i] \in YoungStrong(old)
      BY <2>1, <2>4 DEF YoungStrong
    <3> QED
      BY <3>1, <3>2, <2>4, <1>3, <1>5, <1>6
  <2> QED
    BY <2>3, <2>4
<1>9. Name(Now', young'[y].klass) = Name(was, old.klass)
  BY <1>1, <1>7
<1>10. \A i \in DOMAIN old.slots :
         Name(Now', young'[y].slots[i]) =
           IF old.weak THEN WeakName(was, old.slots[i]) ELSE Name(was, old.slots[i])
  BY <1>1, <1>8
<1> QED
  BY <1>4, <1>9, <1>10
LEMMA FillGraph == IInv /\ IInv' /\ GInv /\ Fill => GInv'
<1> SUFFICES ASSUME IInv, IInv', GInv, Fill PROVE GInv'
  OBVIOUS
<1>1. /\ TypeOK /\ MoveInv /\ Ordered /\ RefsKept(TargetRefs)
      /\ IsHeap(was) /\ Same(held, young, roots, Turned)
  BY DEF IInv, GInv, Fill, Forwarded, MoveInv
<1>2. /\ was' = was /\ objs' = objs /\ young' = young /\ roots' = roots /\ phase' = "done"
      /\ Turned' = Turned
  BY DEF Fill, Turned, Forward
<1>3. /\ starts' = Targets \cup Fillers
      /\ \A x \in Fillers : mem'[x + 1].hash = 0
      /\ \A a \in LiveOld : \E i \in DOMAIN objs : objs[i].from = a
      /\ \A i \in DOMAIN objs : /\ objs[i].from \in LiveOld
                                /\ mem'[objs[i].to + 1] = was.mem[objs[i].from + 1]
  BY Filled
<1>4. ASSUME NEW a \in LiveOld, Is(was.mem, a, "immovable")
      PROVE  a \in starts' /\ mem'[a + 1] = was.mem[a + 1]
  <2>1. PICK i \in DOMAIN objs : objs[i].from = a
    BY <1>3
  <2>2. objs[i].to = a
    BY <2>1, <1>1, <1>4 DEF Ordered
  <2> QED
    BY <2>1, <2>2, <1>3 DEF Targets
<1>5. ASSUME NEW r \in RootSlots
      PROVE  Name(Now', roots'[r]) = Name(was, was.roots[r])
  <2>1. \A s \in {Nil} \cup Young \cup Live(was) : Name(Now, Turned[s])' = Name(was, s)
    BY Filled
  <2>2. was.roots[r] \in {Nil} \cup Young \cup Live(was)
    BY <1>1, LiveRefs
  <2>3. roots[r] = Turned[was.roots[r]]
    BY <1>1 DEF Same
  <2> QED
    BY <2>1, <2>2, <2>3, <1>2
<1>6. {mem'[a + 1].hash : a \in starts'} \ {0} = {was.mem[a + 1].hash : a \in LiveOld} \ {0}
  <2>1. {mem'[a + 1].hash : a \in starts'} \ {0} = {mem'[a + 1].hash : a \in Targets} \ {0}
    BY <1>3
  <2>2. {mem'[a + 1].hash : a \in Targets} = {mem'[objs[i].to + 1].hash : i \in DOMAIN objs}
    BY DEF Targets
  <2>3. {mem'[objs[i].to + 1].hash : i \in DOMAIN objs}
          = {was.mem[objs[i].from + 1].hash : i \in DOMAIN objs}
    BY <1>3
  <2>4. {was.mem[objs[i].from + 1].hash : i \in DOMAIN objs}
          = {was.mem[a + 1].hash : a \in LiveOld}
    BY <1>3
  <2> QED
    BY <2>1, <2>2, <2>3, <2>4
<1>7. ASSUME NEW a \in LiveOld
      PROVE  \E b \in starts' :
               LET old == was.mem[a + 1]
               IN /\ mem'[b + 1] = old
                  /\ Name(Now', mem'[b].ref) = Name(was, was.mem[a].ref)
                  /\ \A k \in 2 .. Size(was.mem, a) - 1 :
                       IF "bytes" \in old.flags THEN mem'[b + k] = was.mem[a + k]
                       ELSE Name(Now', mem'[b + k].ref) =
                              IF "weak" \in old.flags THEN WeakName(was, was.mem[a + k].ref)
                              ELSE Name(was, was.mem[a + k].ref)
  <2>1. PICK i \in DOMAIN objs : objs[i].from = a
    BY <1>3
  <2>2. PICK b : b = objs[i].to
    OBVIOUS
  <2> QED
    BY <2>1, <2>2, FilledObjects
<1>8. GraphKept'
  <2> DEFINE LiveNow == Live(was) \ Young
  <2>1. LiveNow = LiveOld
    BY DEF LiveOld
  <2>2. \A a \in LiveNow : Is(was.mem, a, "immovable") => a \in starts' /\ mem'[a + 1] = was.mem[a + 1]
    BY <2>1, <1>4
  <2>3. {mem'[a + 1].hash : a \in starts'} \ {0} = {was.mem[a + 1].hash : a \in LiveNow} \ {0}
    BY <2>1, <1>6
  <2>4. \A a \in LiveNow : \E b \in starts' :
           LET old == was.mem[a + 1]
           IN /\ mem'[b + 1] = old
              /\ Name(Now', mem'[b].ref) = Name(was, was.mem[a].ref)
              /\ \A k \in 2 .. Size(was.mem, a) - 1 :
                   IF "bytes" \in old.flags THEN mem'[b + k] = was.mem[a + k]
                   ELSE Name(Now', mem'[b + k].ref) =
                          IF "weak" \in old.flags THEN WeakName(was, was.mem[a + k].ref)
                          ELSE Name(was, was.mem[a + k].ref)
    BY <2>1, <1>7
  <2>5. \A y \in Live(was) \cap Young :
           LET old == was.young[y]
           IN /\ Name(Now', young'[y].klass) = Name(was, old.klass)
              /\ \A i \in DOMAIN old.slots :
                   Name(Now', young'[y].slots[i]) =
                     IF old.weak THEN WeakName(was, old.slots[i])
                     ELSE Name(was, old.slots[i])
    BY FilledNursery
  <2>6. \A r \in RootSlots : Name(Now', roots'[r]) = Name(was, was.roots[r])
    BY <1>5
  <2> QED
    BY <2>2, <2>3, <2>4, <2>5, <2>6, <1>2 DEF GraphKept
<1> QED
  BY <1>1, <1>2, <1>8 DEF GInv

-----------------------------------------------------------------------------
\* The next collection.
LEMMA ReleaseGraph == ASSUME NEW gone PROVE IInv' /\ Release(gone) => GInv'
<1> SUFFICES ASSUME IInv', Release(gone) PROVE GInv'
  OBVIOUS
<1>1. phase' = "idle" /\ mem' = mem /\ was'.mem = mem
  BY DEF Release, Now
<1>2. IsHeap(was')
  BY <1>1 DEF IInv, Found
<1> QED
  BY <1>1, <1>2 DEF GInv, GraphKept

LEMMA StutterGraph == GInv /\ UNCHANGED vars => GInv'
<1> SUFFICES ASSUME GInv, UNCHANGED vars PROVE GInv'
  OBVIOUS
<1> USE DEF vars
<1>1. /\ Marked' = Marked /\ Reached' = Reached /\ LiveOld' = LiveOld /\ Now' = Now
      /\ Unturned' = Unturned /\ Turned' = Turned
  BY DEF Marked, Reached, LiveOld, Now, Unturned, Turned, Forward
<1>2. Exact => Exact'
  BY <1>1 DEF Exact
<1>3. Sifted => Sifted'
  <2>1. Same(mem, young, roots, Unturned) => Same(mem, young, roots, Unturned)'
    BY <1>1 DEF Same, Left
  <2> QED
    BY <2>1, <1>1 DEF Sifted
<1>4. Forwarded => Forwarded'
  <2>1. Same(held, young, roots, Turned) => Same(held, young, roots, Turned)'
    BY <1>1 DEF Same, Left
  <2> QED
    BY <2>1, <1>1 DEF Forwarded
<1>5. GraphKept => GraphKept'
  BY <1>1 DEF GraphKept
<1> QED
  BY <1>2, <1>3, <1>4, <1>5 DEF GInv

LEMMA GraphStep == IInv /\ IInv' /\ GInv /\ [Next]_vars => GInv'
<1> SUFFICES ASSUME IInv, IInv', GInv, [Next]_vars PROVE GInv'
  OBVIOUS
<1>1. CASE Collect
  BY <1>1, CollectGraph
<1>2. CASE MarkOld
  BY <1>2, MarkOldGraph
<1>3. CASE MarkYoung
  BY <1>3, MarkYoungGraph
<1>4. CASE MarkNothing
  BY <1>4, MarkNothingGraph
<1>5. CASE ClearWeak
  BY <1>5, ClearWeakGraph
<1>6. CASE PlanDead \/ PlanPin \/ PlanMove
  BY <1>6, PlanGraph
<1>7. CASE Update
  BY <1>7, UpdateGraph
<1>8. CASE MoveOne
  BY <1>8, MoveOneGraph
<1>9. CASE Fill
  BY <1>9, FillGraph
<1>10. ASSUME NEW gone \in SUBSET RootSlots, Release(gone) PROVE GInv'
  BY <1>10, ReleaseGraph
<1>11. CASE UNCHANGED vars
  BY <1>11, StutterGraph
<1> QED
  BY <1>1, <1>2, <1>3, <1>4, <1>5, <1>6, <1>7, <1>8, <1>9, <1>10, <1>11 DEF Next, CollectOld

\* A collection keeps exactly the objects the program can reach, as they were: class,
\* flags, bytes, the references between them; weak slots lose what nothing else reaches;
\* immovable objects stay (Gc::collectOld).
THEOREM GraphIsKept == Spec => []GraphKept
<1>1. Init => GInv
  BY GraphInit
<1>2. GInv => GraphKept
  BY DEF GInv
<1> QED
  BY <1>1, <1>2, GraphStep, Invariance, PTL DEF Spec

=============================================================================
