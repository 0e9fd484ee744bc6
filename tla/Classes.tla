-------------------------------- MODULE Classes --------------------------------
(* Classes and their methods while the image runs: lookup and the class method *)
(* cache (Lookup.cpp, Send.cpp), accepting, filing in and removing methods and *)
(* classes (Compile.cpp), the classPools (ClassPool.cpp), Smalltalk's names    *)
(* (Globals.cpp), and the session's tables of sources and class IDs            *)
(* (Session.cpp).  A handler runs to its end before the next: they run on the  *)
(* base, inside one entry.  A class-side override of subclass: is user code    *)
(* and may answer, or fail, in several ways.                                   *)
EXTENDS Integers, Sequences, FiniteSets, SequencesExt, Functions

CONSTANTS UserNames,   \* names that are not fixed globals
          Kernel,      \* number of Kernel classes, classes 1 .. Kernel, each below the one before
          Sides,       \* "inst", "meta"
          Selectors,   \* Object has a native for "native"
          Texts,       \* the variable a method's source reads, "none" for none
          Shapes,      \* instance variables a definition may give
          Pools,       \* class variables a definition may give
          Overrides,   \* whether a user class may override subclass:
          Chunks,      \* whether methodsFor: chunks install methods without sources
          Memory,      \* whether an allocation may fail
          MaxClasses, MaxMethods, MaxOps   \* bounds

ClassesAssumption ==
  /\ Kernel \in Nat \ {0} /\ Sides \subseteq {"inst", "meta"} /\ "inst" \in Sides
  /\ {Overrides, Chunks, Memory} \subseteq BOOLEAN
  /\ {MaxClasses, MaxMethods, MaxOps} \subseteq Nat /\ MaxClasses > Kernel

VARIABLES
  cls,      \* the class objects: name, superclass, own instance variables, classPool, dictionary
  meth,     \* the methods: class, side, selector, source text, and what the text compiled to
  bound,    \* Smalltalk: a class, or 0, for each name
  held,     \* classes of instances that a variable, or a halted frame, keeps
  cache,    \* the class method cache, one row of it
  sources,  \* methodSources: <<method, text>>
  ids,      \* classIds: <<ID, class>>
  nextId,   \* nextClassId
  ops,      \* operations so far
  seen,     \* history: the rows <<ID, class>> the Browser was ever given
  removed,  \* history: for a class removed or reshaped, how many classes there were
  last      \* history: the last operation and whether it was refused

vars == <<cls, meth, bound, held, cache, sources, ids, nextId, ops, seen, removed, last>>

Names == UserNames \union {"Object", "Int"}
KernelName(k) == IF k = 1 THEN "Object" ELSE "Int"

-------------------------------------------------------------------------------
\* Lookup, over a table t of classes

(* SuperclassWalk: a class was made after its superclass. *)
Chain(t, c) == LET chain[k \in 0 .. Len(t)] == IF k = 0 THEN <<>> ELSE <<k>> \o chain[t[k].super]
               IN chain[c]

Below(t, c, d) == d \in Range(Chain(t, c))         \* chainIncludes

Holds(t, c, side, sel) == <<side, sel>> \in DOMAIN t[c].dict

(* lookup: the nearest method on the chain.  A metaclass's chain goes on from
   Object's metaclass to the classes of classes and Object. *)
Lookup(t, c, side, sel) ==
  LET k == SelectInSeq(Chain(t, c), LAMBDA d: Holds(t, d, side, sel))
  IN IF k # 0 THEN t[Chain(t, c)[k]].dict[<<side, sel>>]
     ELSE IF side = "meta" /\ Holds(t, 1, "inst", sel) THEN t[1].dict[<<"inst", sel>>] ELSE 0

(* namedSlotNames: the superclass's variables come first. *)
Layout(t, c) == FlattenSeq(Reverse([k \in DOMAIN Chain(t, c) |-> t[Chain(t, c)[k]].own]))

(* visibleBinding: of the nearest classPool with the name. *)
Binding(t, c, v) == LET k == SelectInSeq(Chain(t, c), LAMBDA d: v \in DOMAIN t[d].pool)
                    IN IF k = 0 THEN <<>> ELSE t[Chain(t, c)[k]].pool[v]
Visible(t, c) == UNION {DOMAIN t[d].pool: d \in Range(Chain(t, c))}     \* visibleNames

(* What a source that reads v compiles to: a slot, a binding, or a global. *)
Code(t, c, side, v) ==
  IF v = "none" THEN <<"none", 0>>
  ELSE IF side = "inst" /\ v \in Range(Layout(t, c)) THEN <<"slot", SelectInSeq(Layout(t, c), LAMBDA w: w = v)>>
  ELSE IF v \in Visible(t, c) THEN <<"binding", Binding(t, c, v)>> ELSE <<"global", 0>>

Method(t, c, side, sel, text) ==
  [cls |-> c, side |-> side, sel |-> sel, text |-> text, code |-> Code(t, c, side, text)]

(* MethodDictionary::at, atPut and removeKey. *)
OldMethod(c, side, sel) == IF Holds(cls, c, side, sel) THEN cls[c].dict[<<side, sel>>] ELSE 0
WithMethod(c, side, sel, m) == [cls EXCEPT ![c].dict = (<<side, sel>> :> m) @@ @]
WithoutMethod(c, side, sel) == [cls EXCEPT ![c].dict = Restrict(@, DOMAIN @ \ {<<side, sel>>})]

(* Globals: a name is bound, or unbound. *)
Bound(n, c) == [bound EXCEPT ![n] = c]
Unbound(n)  == [bound EXCEPT ![n] = 0]

IsKernel(c)   == c \in 1 .. Kernel
IsNative(m)   == m # 0 /\ meth[m].code = <<"native", 0>>
MethodsOf(c)  == Range(cls[c].dict)

(* liveClasses: what a name, an instance or a frame reaches; the cache and the
   session's tables are no start of the trace. *)
BoundLive == UNION {Range(Chain(cls, c)): c \in Range(bound) \ {0}}
Live == UNION {Range(Chain(cls, c)): c \in (Range(bound) \ {0}) \union held}

-------------------------------------------------------------------------------
\* The class method cache

(* invalidateMethodCache for one selector: whatever class its entries are of. *)
FlushedOwn(c, sel) == {e \in cache: e.sel # sel \/ e.cls # c}
Flushed(c, sel) == {e \in cache: e.sel # sel}

Sends ==
  /\ \E c \in Live, side \in Sides, sel \in Selectors:
       /\ Lookup(cls, c, side, sel) # 0
       /\ IF \E e \in cache: e.cls = c /\ e.side = side /\ e.sel = sel THEN UNCHANGED cache
          ELSE cache' = {[cls |-> c, side |-> side, sel |-> sel, method |-> Lookup(cls, c, side, sel)]}
  /\ UNCHANGED <<cls, meth, bound, held, sources, ids, nextId, ops, seen, removed, last>>

-------------------------------------------------------------------------------
\* The class IDs

NextIdReused == Cardinality({e \in ids: e[2] \in Range(bound)}) + 1
NextId == nextId

(* assignClassIds: an entry whose class no name binds goes, a new class gets an ID. *)
Pruned == {e \in ids: e[2] \in Range(bound)}
Unlisted == SetToSortSeq((Range(bound) \ {0}) \ {e[2]: e \in Pruned}, <)
Listed == Pruned \union {<<NextId + k - 1, Unlisted[k]>>: k \in DOMAIN Unlisted}

(* classRows, which every entry that takes an ID reads again. *)
Rows ==
  /\ ids' = Listed /\ nextId' = nextId + Len(Unlisted) /\ seen' = seen \union Listed

(* sessionClassForId. *)
ClassFor(id) == IF \E e \in Listed: e[1] = id THEN (CHOOSE e \in Listed: e[1] = id)[2] ELSE 0

Starts == ops < MaxOps /\ ops' = ops + 1
Ended(op, ok) == last' = [op |-> op, ok |-> ok]

Lists == Starts /\ Rows /\ Ended("list", TRUE)
         /\ UNCHANGED <<cls, meth, bound, held, cache, sources, removed>>

-------------------------------------------------------------------------------
\* Methods

(* hidesNative: in a Kernel class a native the superclasses have is not hidden either. *)
HidesNative(c, side, sel) ==
  IsNative(IF IsKernel(c) THEN Lookup(cls, c, side, sel) ELSE OldMethod(c, side, sel))

Forgotten(ms) == {e \in sources: e[1] \notin ms}

(* acceptInto and applyMethodsFor: the method goes into the dictionary, its
   selector out of the cache, and its text takes the place of the replaced one's.
   Without the memory for the entry, or as a chunk, it has none. *)
Installs(c, side, sel, text, keeps) ==
  /\ Len(meth) < MaxMethods
  /\ meth' = Append(meth, Method(cls, c, side, sel, text))
  /\ cls' = WithMethod(c, side, sel, Len(meth) + 1)
  /\ cache' = Flushed(c, sel)
  /\ sources' = IF keeps = "chunk" THEN sources
                ELSE Forgotten({OldMethod(c, side, sel)})
                       \union IF keeps = "entry" THEN {<<Len(meth) + 1, text>>} ELSE {}

Keeps == {"entry"} \union IF Memory THEN {"no memory"} ELSE {}

(* ao_accept_method_id. *)
AcceptsMethod ==
  /\ Starts /\ Rows
  /\ \E row \in seen, side \in Sides, sel \in Selectors, text \in Texts:
       LET c == ClassFor(row[1])
       IN IF c = 0 \/ HidesNative(c, side, sel)
          THEN Ended("accept", FALSE) /\ UNCHANGED <<cls, meth, cache, sources>>
          ELSE \E keeps \in Keeps: Installs(c, side, sel, text, keeps) /\ Ended("accept", TRUE)
  /\ UNCHANGED <<bound, held, removed>>

(* A methodsFor: chunk names its class: of File In..., judged as an Accept, or of
   ao_accept_class, which refuses a Kernel class and keeps no source. *)
FilesIn ==
  /\ Starts
  /\ \E n \in Names, side \in Sides, sel \in Selectors, text \in Texts, recorded \in BOOLEAN:
       LET c == bound[n]
       IN /\ recorded \/ Chunks
          /\ c # 0 /\ ~HidesNative(c, side, sel) /\ (recorded \/ ~IsKernel(c))
          /\ \E keeps \in IF recorded THEN Keeps ELSE {"chunk"}: Installs(c, side, sel, text, keeps)
  /\ Ended("filein", TRUE)
  /\ UNCHANGED <<bound, held, ids, nextId, seen, removed>>

(* ao_remove_method. *)
RemovesMethod ==
  /\ Starts /\ Rows
  /\ \E row \in seen, side \in Sides, sel \in Selectors:
       LET c == ClassFor(row[1])  m == IF c = 0 THEN 0 ELSE OldMethod(c, side, sel)
       IN IF m = 0 \/ IsNative(m) THEN Ended("remove", FALSE) /\ UNCHANGED <<cls, cache, sources>>
          ELSE /\ cls' = WithoutMethod(c, side, sel)
               /\ cache' = Flushed(c, sel)
               /\ sources' = Forgotten({m}) /\ Ended("remove", TRUE)
  /\ UNCHANGED <<meth, bound, held, removed>>

(* probeSubclasses: a live class below, named or not. *)
HasSubclass(c) == \E d \in Live: d # c /\ Below(cls, d, c)

(* ao_remove_class: only its own name goes, and only while it binds the class. *)
RemovesClass ==
  /\ Starts /\ Rows
  /\ \E row \in seen:
       LET c == ClassFor(row[1])
       IN IF c = 0 \/ IsKernel(c) \/ bound[cls[c].name] # c \/ HasSubclass(c)
          THEN Ended("remove", FALSE) /\ UNCHANGED <<bound, cache, sources, removed>>
          ELSE /\ bound' = Unbound(cls[c].name)
               /\ cache' = {}
               /\ sources' = Forgotten(MethodsOf(c))
               /\ removed' = [removed EXCEPT ![c] = Len(cls)] /\ Ended("remove", TRUE)
  /\ UNCHANGED <<cls, meth, held>>

-------------------------------------------------------------------------------
\* Class definitions

(* A fresh binding for each name. *)
MadePool(vs) == [v \in vs |-> <<v, ops + 1>>]

NewClass(n, super, own, vs) ==
  [name |-> n, super |-> super, own |-> own, pool |-> MadePool(vs), dict |-> <<>>]

(* What the send of subclass: left: the classes, the class bound to the name,
   and whether it answered a class. *)
Sent(t, c, answered) == [t |-> t, c |-> c, answered |-> answered]

Made(n, super, own, vs) == Sent(Append(cls, NewClass(n, super, own, vs)), Len(cls) + 1, TRUE)

Duplicate(super, own) == Range(own) \cap Range(Layout(cls, super)) # {}

SubclassSends(n, super, own, vs) ==
  (IF Duplicate(super, own) THEN {} ELSE {Made(n, super, own, vs)})
    \union (IF Memory \/ Duplicate(super, own) THEN {Sent(cls, bound[n], FALSE)} ELSE {})
    \union (IF Overrides /\ ~IsKernel(super)
            THEN {Sent(cls, bound[n], FALSE), [Made(n, super, own, vs) EXCEPT !.answered = FALSE]}
                   \union {Made(n, super, s, p): s \in {x \in Shapes: ~Duplicate(super, x)}, p \in Pools}
                   \union {Sent(cls, e, TRUE): e \in Live \ {super}}
            ELSE {})

(* usedRemovedVariable: a variable the method read as it was compiled, whatever its
   source would mean now. *)
UsesVariable(m, slots, classVars) ==
  \/ meth[m].code[1] = "slot" /\ meth[m].text \notin slots
  \/ meth[m].code[1] = "binding" /\ meth[m].text \notin classVars

(* compileCarried: an old method reads a variable the new class does not have. *)
UsesRemoved(old, layout, visible) == \E m \in MethodsOf(old): UsesVariable(m, Range(layout), visible)

(* reshapeClass's checks before anything changes. *)
ReshapeRefused(old, super, own, vs) ==
  \/ \E d \in Live: cls[d].super = old
  \/ \E m \in MethodsOf(old): m \notin {e[1]: e \in sources}
  \/ UsesRemoved(old, Layout(cls, super) \o own, vs \union Visible(cls, super))

(* adopt: a name the old classPool has keeps its binding. *)
Adopted(new, old) == [v \in DOMAIN new |-> IF v \in DOMAIN old THEN old[v] ELSE new[v]]

Carried(old) == SetToSeq(DOMAIN cls[old].dict)
NumberOf(old, key) == Len(meth) + CHOOSE k \in DOMAIN Carried(old): Carried(old)[k] = key

MovedMethod(t, f, m) == Method(t, f, meth[m].side, meth[m].sel, meth[m].text)

(* The move into class f of table t: its classPool, the methods compiled again
   for it, and its dictionary. *)
WithPool(t, f, old) == [t EXCEPT ![f].pool = Adopted(@, cls[old].pool)]
MovedMethods(t, f, old) ==
  [k \in DOMAIN Carried(old) |-> MovedMethod(WithPool(t, f, old), f, cls[old].dict[Carried(old)[k]])]
Moved(t, f, old) ==
  [WithPool(t, f, old) EXCEPT ![f].dict = [key \in DOMAIN cls[old].dict |-> NumberOf(old, key)] @@ @]

(* putBack: the class the send answered gets its own objects again. *)
PutBackDict(t, f, was) == [t EXCEPT ![f].dict = was.dict]
PutBack(t, f, was) == [t EXCEPT ![f].dict = was.dict, ![f].pool = was.pool]

MovedSources(old) ==
  {IF e[1] \in MethodsOf(old)
   THEN <<NumberOf(old, <<meth[e[1]].side, meth[e[1]].sel>>), e[2]>>
   ELSE e: e \in sources}

(* rebindClassName: after a send that failed, or a class that cannot take the methods. *)
NameGoesBack(n, old) == bound

Reshapes(n, old, super, own, vs) ==
  IF ReshapeRefused(old, super, own, vs)
  THEN Ended("reshape", FALSE) /\ UNCHANGED <<cls, meth, bound, cache, sources, removed>>
  ELSE \E s \in SubclassSends(n, super, own, vs):
    /\ Len(s.t) <= MaxClasses /\ Len(meth) + Cardinality(DOMAIN cls[old].dict) <= MaxMethods
    /\ cache' = IF s = Sent(cls, old, FALSE) THEN cache ELSE {}
    /\ IF ~s.answered \/ s.c = old \/ UsesRemoved(old, Layout(s.t, s.c), Visible(s.t, s.c))
       THEN cls' = s.t /\ bound' = NameGoesBack(n, old) /\ Ended("reshape", FALSE)
            /\ UNCHANGED <<meth, sources, removed>>
       ELSE /\ meth' = meth \o MovedMethods(s.t, s.c, old)
            /\ \/ /\ cls' = Moved(s.t, s.c, old)
                  /\ bound' = Bound(n, s.c) /\ sources' = MovedSources(old)
                  /\ removed' = [removed EXCEPT ![old] = Len(cls)] /\ Ended("reshape", TRUE)
               \/ /\ Memory /\ cls' = PutBack(Moved(s.t, s.c, old), s.c, s.t[s.c])
                  /\ bound' = NameGoesBack(n, old) /\ Ended("reshape", FALSE)
                  /\ UNCHANGED <<sources, removed>>

HoldsBinding(m, b) == meth[m].code = <<"binding", b>>

(* methodHoldingDropped: a method of any live class holds a dropped binding. *)
HoldsDropped(c, vs) ==
  \E d \in Live: \E m \in MethodsOf(d), v \in DOMAIN cls[c].pool \ vs: HoldsBinding(m, cls[c].pool[v])

Recategorizes(c, vs) ==
  /\ IF HoldsDropped(c, vs) THEN UNCHANGED cls /\ Ended("define", FALSE)
     ELSE cls' = [cls EXCEPT ![c].pool = Adopted(MadePool(vs), @)] /\ Ended("define", TRUE)
  /\ UNCHANGED <<meth, bound, cache, sources, removed>>

(* applyClassDef: the name means the new class from now on. *)
Applies(n, super, own, vs) ==
  /\ \E s \in SubclassSends(n, super, own, vs):
       /\ Len(s.t) <= MaxClasses
       /\ cls' = s.t /\ bound' = Bound(n, s.c)
       /\ cache' = IF s.t = cls THEN cache ELSE {}
       /\ Ended("define", s.answered)
  /\ UNCHANGED <<meth, sources, removed>>

(* acceptClassDef: ao_accept_class and File In.... *)
AcceptsClass ==
  /\ Starts
  /\ \E n \in UserNames, sn \in Names, own \in Shapes, vs \in Pools:
       LET old == bound[n]  super == bound[sn]
       IN /\ super # 0
          /\ IF old = 0 THEN Applies(n, super, own, vs)
             ELSE IF Below(cls, super, old)
             THEN Ended("define", FALSE) /\ UNCHANGED <<cls, meth, bound, cache, sources, removed>>
             ELSE IF IsKernel(old) \/ cls[old].name # n THEN Applies(n, super, own, vs)
             ELSE IF cls[old].super = super /\ cls[old].own = own THEN Recategorizes(old, vs)
             ELSE Reshapes(n, old, super, own, vs)
  /\ UNCHANGED <<held, ids, nextId, seen>>

(* subclass: from a program, which makes a new class whatever the name meant. *)
Subclasses ==
  /\ Starts
  /\ \E n \in UserNames, super \in Live, own \in Shapes, vs \in Pools:
       Applies(n, super, own, vs)
  /\ UNCHANGED <<held, ids, nextId, seen>>

(* Smalltalk at:put: of a class, or of something else. *)
Binds ==
  /\ Starts
  /\ \E n \in UserNames, c \in Live \union {0}: bound[n] # c /\ bound' = Bound(n, c)
  /\ Ended("bind", TRUE)
  /\ UNCHANGED <<cls, meth, held, cache, sources, ids, nextId, seen, removed>>

(* An instance is kept, or the last one goes. *)
Keeping ==
  /\ Starts
  /\ \/ \E c \in Live \ held: held' = held \union {c}
     \/ \E c \in held: held' = held \ {c}
  /\ Ended("keep", TRUE)
  /\ UNCHANGED <<cls, meth, bound, cache, sources, ids, nextId, seen, removed>>

-------------------------------------------------------------------------------
Init ==
  /\ cls = [k \in 1 .. Kernel |->
              [name |-> KernelName(k), super |-> k - 1, own |-> <<>>, pool |-> <<>>,
               dict |-> IF k = 1 THEN <<"inst", "native">> :> 1 ELSE <<>>]]
  /\ meth = <<[cls |-> 1, side |-> "inst", sel |-> "native", text |-> "none", code |-> <<"native", 0>>]>>
  /\ bound = [n \in Names |-> IF n = "Object" THEN 1 ELSE IF n = "Int" /\ Kernel > 1 THEN 2 ELSE 0]
  /\ held = {} /\ cache = {} /\ sources = {}
  /\ ids = {} /\ nextId = 1 /\ ops = 0 /\ seen = {}
  /\ removed = [c \in 1 .. MaxClasses |-> 0]
  /\ last = [op |-> "none", ok |-> TRUE]

Next ==
  \/ Sends \/ Lists \/ AcceptsMethod \/ FilesIn \/ RemovesMethod \/ RemovesClass
  \/ AcceptsClass \/ Subclasses \/ Binds \/ Keeping

Spec == Init /\ [][Next]_vars

-------------------------------------------------------------------------------
\* Properties

TypeOK ==
  /\ \A c \in DOMAIN cls: /\ cls[c].super \in 0 .. c - 1
                          /\ \A key \in DOMAIN cls[c].dict: cls[c].dict[key] \in DOMAIN meth
  /\ \A m \in DOMAIN meth: meth[m].cls \in DOMAIN cls
  /\ bound \in [Names -> 0 .. Len(cls)] /\ held \subseteq DOMAIN cls
  /\ \A e \in sources: e[1] \in DOMAIN meth
  /\ \A e \in ids: e[1] < nextId /\ e[2] \in DOMAIN cls

(* SPEC 3.3: a send right after a method was replaced or removed, or a class
   redefined, applies the new one, cached or not: for a subclass's receiver too. *)
CacheExact == \A e \in cache: e.method = Lookup(cls, e.cls, e.side, e.sel)

(* SPEC 3.10: no Accept and no File In..., under whatever name the class goes, takes a
   native away from a Kernel class that found it at boot. *)
NativesKept == \A k \in 1 .. Kernel: Lookup(cls, k, "inst", "native") = 1

(* SPEC 3.10, class IDs: the ID of a row the Browser read earlier names that row's
   class or nothing, also after the name was rebound, removed or defined again. *)
IdsName == \A row \in seen, e \in ids: e[1] = row[1] => e = row

(* SPEC 3.9: when a class goes (removed, or reshaped into another) no class a
   program can still reach is below it; only a class made later can be. *)
NoOrphan == \A d \in Live, c \in DOMAIN cls:
              d # c /\ Below(cls, d, c) /\ removed[c] # 0 => d > removed[c]

(* SPEC 3.9: an installed method reads the slot of its class that has the name its
   source says, through every change of shape. *)
SlotsFit ==
  \A c \in DOMAIN cls: \A m \in MethodsOf(c):
    meth[m].code[1] = "slot" => Layout(cls, c)[meth[m].code[2]] = meth[m].text

(* SPEC 3.9: no method of a live class goes on with a class variable whose binding
   left the classPools it can see. *)
BindingsSeen ==
  \A c \in Live: \A m \in MethodsOf(c):
    meth[m].code[1] = "binding" => \E d \in Range(Chain(cls, c)): meth[m].code[2] \in Range(cls[d].pool)

(* SPEC 3.9: a definition that is refused, or stops in the middle of the move, leaves the
   name, and every class's methods and class variables, as they were. *)
RefusedUndone ==
  [][last'.op = "reshape" /\ ~last'.ok /\ ops' # ops =>
       /\ bound' = bound /\ sources' = sources
       /\ \A c \in DOMAIN cls: cls'[c] = cls[c]]_vars

(* SPEC 3.10: an entry goes only with its method, or when its class loses its name; the text
   of a method that moves to another shape moves with it. *)
SourcesFollow ==
  [][\A e \in sources \ sources':
       LET m == meth[e[1]]  key == <<m.side, m.sel>>  n == cls[m.cls].name
       IN \/ key \notin DOMAIN cls'[m.cls].dict \/ cls'[m.cls].dict[key] # e[1]
          \/ /\ bound'[n] # m.cls
             /\ bound'[n] # 0 => <<cls'[bound'[n]].dict[key], e[2]>> \in sources']_vars

(* SPEC 3.10: the pair of a method that was replaced leaves the table. *)
SourcesInstalled ==
  \A e \in sources: LET m == meth[e[1]]
                    IN Holds(cls, m.cls, m.side, m.sel) /\ OldMethod(m.cls, m.side, m.sel) = e[1]

(* What the Browser and the user's classes go by: names and IDs, slots and bindings. *)
NamesExact  == IdsName /\ NoOrphan
ShapesExact == SlotsFit /\ BindingsSeen

(* What a send applies and what a source shows is what is installed. *)
InstalledExact == CacheExact /\ NativesKept /\ SourcesInstalled

(* A definition happens as a whole or not at all, and takes the sources along. *)
ChangesWhole == RefusedUndone /\ SourcesFollow
===============================================================================
