--------------------------------- MODULE Image ---------------------------------
(* Saving and loading an image (ImageSave.cpp, ImageLoad.cpp, ImageFormat.cpp, *)
(* and the session around them): the heap is traced without the session's own  *)
(* roots, laid out, checked by the load's own checks and written; a load, in a *)
(* process whose natives may be numbered otherwise, checks a file again, moves *)
(* it into the old space, binds its names and restores its sources.            *)
(* How the bytes reach the disk is module ImageFile.                           *)
EXTENDS Integers, Sequences, FiniteSets, SequencesExt, FiniteSetsExt, Functions, Folds

CONSTANTS Programs,    \* what the programs of the behaviours may do, and the bounds on them
          Registries,  \* the indexes a process may register the named natives at
          MaxDepth     \* superclasses a chain is followed

(* Of a program: the objects it makes, the old space's limit in words, whether it writes a
   class's format, or the array of Smalltalk's pairs, in place, whether a word of its file
   may change, and how many objects and operations there may be. *)
ProgramsOf(kinds) ==
  [makes: SUBSET kinds, oldMax: Nat, formats: BOOLEAN, pairs: BOOLEAN, damage: BOOLEAN,
   objects: Nat, ops: Nat]

ImageAssumption ==
  /\ Programs \subseteq ProgramsOf({"plain", "inst", "class", "weak", "thunk", "lost"})
  /\ \A r \in Registries: DOMAIN r = {"ao_a", "ao_b"} /\ IsInjective(r)
  /\ MaxDepth \in Nat

VARIABLES
  program,    \* what this behaviour's program may do
  heap,       \* the objects, by address
  wk,         \* the well-known slots
  workspace,  \* what only the Workspace's bindings hold
  frame,      \* what only a halted process's frames hold
  sources,    \* methodSources: pairs <<method, text>>
  registry,   \* this process's native functions, by name
  file,       \* the image file
  damaged,    \* history: whether the file is other than a save left it
  saved,      \* history: heap, wk and sources when the file was saved
  last,       \* history: the outcome of the last operation
  ops

vars == <<program, heap, wk, workspace, frame, sources, registry, file, damaged, saved, last, ops>>

-------------------------------------------------------------------------------
\* Words and objects.  A word above 0 is the address (in a file, the offset) of an object.

Nil == 0
Bad == -99                              \* a bit pattern decodeNonHeap refuses
IsHeap(w)  == w > 0
Decodes(w) == w <= 0 /\ w # Bad

Fixed(n)  == -1 - n                     \* class formats: n named slots,
Indexable == -10                        \* slots at will,
Bytes     == -11                        \* or bytes
Index(i)  == -20 - i                    \* a native's registry index

InstSize(f)    == IF f \in {Fixed(n): n \in 0 .. 8} THEN -1 - f ELSE 0
IsIndexable(f) == f \in {Indexable, Bytes}

Object(klass, flags, text, slots) == [klass |-> klass, flags |-> flags, text |-> text, slots |-> slots]
Class(super, dict, format) == Object(2, {}, "", <<super, dict, format>>)
Symbol(name)               == Object(3, {"bytes"}, name, <<>>)

Super(h, c)  == h[c].slots[1]
Dict(h, c)   == h[c].slots[2]
Format(h, c) == h[c].slots[3]
IsBytes(o) == "bytes" \in o.flags
IsWeak(o)  == "weak" \in o.flags

WellKnownSlots == <<"Behavior", "Class", "Symbol", "NativeMethod", "MethodDictionary",
                    "CompiledMethod", "Smalltalk", "Processor">>
WellKnownNames == Range(WellKnownSlots)
ClassNames == WellKnownNames \ {"Smalltalk", "Processor"}
KernelWk == [n \in WellKnownNames |->
              CASE n = "Behavior" -> 1 [] n = "Class" -> 2 [] n = "Symbol" -> 3 [] n = "NativeMethod" -> 4
                [] n = "MethodDictionary" -> 5 [] n = "CompiledMethod" -> 6 [] n = "Smalltalk" -> 10
                [] OTHER -> 15]

(* The heap of a boot: the classes, Smalltalk with its pairs, their Symbols,
   Processor, and a class with one native. *)
Booted(r) ==
  << Class(Nil, Nil, Fixed(3)), Class(1, Nil, Fixed(3)), Class(Nil, Nil, Bytes),
     Class(Nil, Nil, Fixed(2)), Class(Nil, Nil, Fixed(1)), Class(Nil, Nil, Fixed(1)),
     Class(Nil, Nil, Fixed(1)), Class(Nil, Nil, Indexable), Class(Nil, 17, Fixed(1)),
     Object(7, {}, "", <<11>>), Object(8, {}, "", <<12, 10, 13, 15, 14, Nil>>),
     Symbol("Smalltalk"), Symbol("Processor"), Symbol("V"),
     Object(9, {}, "", <<Nil>>), Object(4, {}, "", <<18, Index(r["ao_a"])>>),
     Object(5, {}, "", <<19>>), Object(Nil, {"bytes"}, "ao_a", <<>>), Object(Nil, {}, "", <<16>>) >>

(* Globals: the value bound to a name, through the Symbol the name finds. *)
FindSymbol(h, w, n) == {a \in DOMAIN h: h[a].klass = w["Symbol"] /\ h[a].text = n}
IsDictionary(h, w) ==
  /\ w["Smalltalk"] \in DOMAIN h /\ Len(h[w["Smalltalk"]].slots) = 1
  /\ h[w["Smalltalk"]].slots[1] \in DOMAIN h
PairsOf(h, w) == h[h[w["Smalltalk"]].slots[1]].slots
Lookup(h, w, n) ==
  LET at == {i \in DOMAIN PairsOf(h, w): i % 2 = 1 /\ PairsOf(h, w)[i] \in FindSymbol(h, w, n)}
  IN IF at = {} THEN Bad ELSE PairsOf(h, w)[Min(at) + 1]

-------------------------------------------------------------------------------
\* Saving

(* remember: an object is written once, at the end of what is there so far. *)
Remember(order, w) == IF IsHeap(w) /\ w \notin Range(order) THEN Append(order, w) ELSE order
RememberAll(order, ws) == FoldLeft(Remember, order, ws)

(* traceStrong: classes and slots, except the slots of bytes and weak objects. *)
Strong(o) == IF IsBytes(o) \/ IsWeak(o) THEN <<o.klass>> ELSE <<o.klass>> \o o.slots
Trace(h, roots) ==
  FoldLeft(LAMBDA order, k: IF k > Len(order) THEN order ELSE RememberAll(order, Strong(h[order[k]])),
           RememberAll(<<>>, roots), [k \in 1 .. Cardinality(DOMAIN h) |-> k])

Words(o) == 2 + IF IsBytes(o) THEN 1 ELSE Len(o.slots)
(* The offsets of the objects after the filler's 2 words, and where the last one ends. *)
Offsets(objects) == FoldLeft(LAMBDA at, o: Append(at, Last(at) + Words(o)), <<2>>, objects)
EndOf(objects) == Last(Offsets(objects))

(* encodeOop: what the trace did not reach is nil in a weak slot. *)
Encode(at, w) == IF ~IsHeap(w) THEN w ELSE IF w \in DOMAIN at THEN at[w] ELSE Nil

(* The roots an image holds: the session's own are dropped while it is saved. *)
RootsHidden == <<>>
WellKnownRoots == [k \in DOMAIN WellKnownSlots |-> wk[WellKnownSlots[k]]]
SaveRoots == WellKnownRoots \o RootsHidden

(* appendSources: the pairs whose methods are written, one for each. *)
WrittenSources(at) ==
  LET kept == SelectSeq(sources, LAMBDA s: s[1] \in DOMAIN at)
  IN [k \in DOMAIN kept |-> <<Encode(at, kept[k][1]), kept[k][2]>>]

Written ==
  LET order == Trace(heap, SaveRoots)
      objects == [k \in DOMAIN order |-> heap[order[k]]]
      offsets == Offsets(objects)
      at == [a \in Range(order) |-> offsets[CHOOSE k \in DOMAIN order: order[k] = a]]
      enc(w) == Encode(at, w)
  IN [version |-> 4,
      objects |-> [k \in DOMAIN order |->
                    LET o == objects[k]
                    IN [o EXCEPT !.klass = enc(o.klass), !.slots = [i \in DOMAIN o.slots |-> enc(o.slots[i])]]],
      wk |-> [n \in DOMAIN wk |-> enc(wk[n])],
      globals |-> [n \in {"Processor"} |-> enc(Lookup(heap, wk, n))],
      sources |-> WrittenSources(at)]

-------------------------------------------------------------------------------
\* The load's checks, on a file

(* The objects of the file, by offset. *)
Section(f) == LET offsets == Front(Offsets(f.objects))
              IN [s \in Range(offsets) |-> f.objects[CHOOSE k \in DOMAIN offsets: offsets[k] = s]]

HeaderOk(f) == f.version \in {3, 4} /\ (f.version = 3 => f.sources = <<>>)
               /\ EndOf(f.objects) <= program.oldMax

WordOk(h, w) == IF IsHeap(w) THEN w \in DOMAIN h ELSE Decodes(w)

FlagsOk(h) == \A a \in DOMAIN h: h[a].flags \subseteq {"bytes", "weak"}

WordsOk(f, h) ==
  /\ \A n \in DOMAIN f.wk: WordOk(h, f.wk[n])
  /\ \A n \in DOMAIN f.globals: WordOk(h, f.globals[n])
  /\ \A a \in DOMAIN h: WordOk(h, h[a].klass) /\ \A i \in DOMAIN h[a].slots: WordOk(h, h[a].slots[i])

SymbolsOk(f, h) ==
  LET symbols == {a \in DOMAIN h: h[a].klass = f.wk["Symbol"]}
  IN /\ \A a \in symbols: IsBytes(h[a])
     /\ \A a, b \in symbols: h[a].text = h[b].text => a = b

(* precheck: a native's name is bytes without a class that this process registered. *)
NamesOk(f, h, reg) ==
  \A a \in DOMAIN h: h[a].klass = f.wk["NativeMethod"] =>
    /\ ~IsBytes(h[a]) /\ Len(h[a].slots) >= 2
    /\ LET name == h[a].slots[1]
       IN name \in DOMAIN h /\ IsBytes(h[name]) /\ h[name].klass = Nil /\ h[name].text \in DOMAIN reg

(* ObjectRules: the shapes the runtime reads without checking. *)
ClassShaped(h, w) == IsHeap(w) /\ w \in DOMAIN h /\ ~IsBytes(h[w]) /\ Len(h[w].slots) >= 3

(* The classes whose superclasses, as far as class-shaped links go, reach Behavior. *)
InheritBehavior(f, h) ==
  LET shaped == {c \in DOMAIN h: ClassShaped(h, c)}
  IN FoldLeft(LAMBDA s, k: s \union {c \in shaped: Super(h, c) \in s},
              {f.wk["Behavior"]} \cap shaped, [k \in 1 .. MaxDepth |-> k])
BehaviorObject(h, inherit, w) == IsHeap(w) /\ w \in DOMAIN h /\ h[w].klass \in inherit

Fits(h, o) ==
  LET format == Format(h, o.klass)
  IN /\ ~IsWeak(o)
     /\ IsBytes(o) <=> format = Bytes
     /\ ~IsBytes(o) => /\ Len(o.slots) >= InstSize(format)
                       /\ ~IsIndexable(format) => Len(o.slots) = InstSize(format)

ObjectOk(f, h, inherit, a) ==
  LET o == h[a]
  IN o.klass # Nil =>
       /\ ClassShaped(h, o.klass) /\ BehaviorObject(h, inherit, o.klass)
       /\ o.klass \in inherit =>
            /\ ~IsBytes(o) /\ Len(o.slots) >= 3
            /\ Dict(h, a) # Nil => IsHeap(Dict(h, a)) /\ h[Dict(h, a)].klass = f.wk["MethodDictionary"]
            /\ Super(h, a) # Nil => BehaviorObject(h, inherit, Super(h, a))
       /\ Fits(h, o)
       /\ o.klass = f.wk["MethodDictionary"] =>
            /\ ~IsBytes(o) /\ Len(o.slots) >= 1
            /\ o.slots[1] # Nil => IsHeap(o.slots[1]) /\ ~IsBytes(h[o.slots[1]])
       /\ o.klass = f.wk["CompiledMethod"] => ~IsBytes(o) /\ Len(o.slots) >= 1

RulesOk(f, h) ==
  LET inherit == InheritBehavior(f, h)
  IN /\ ClassShaped(h, f.wk["Behavior"])
     /\ \A n \in ClassNames: BehaviorObject(h, inherit, f.wk[n])
     /\ \A a \in DOMAIN h: ObjectOk(f, h, inherit, a)

SourcesOk(f, h) ==
  /\ \A k \in DOMAIN f.sources: LET m == f.sources[k][1]
                                IN m \in DOMAIN h /\ h[m].klass = f.wk["CompiledMethod"]
  /\ \A j, k \in DOMAIN f.sources: f.sources[j][1] = f.sources[k][1] => j = k

(* Image::check. *)
Checks(f, h, reg) ==     \* h is the file's Section
  /\ HeaderOk(f)
  /\ FlagsOk(h) /\ WordsOk(f, h) /\ SymbolsOk(f, h) /\ NamesOk(f, h, reg)
  /\ RulesOk(f, h) /\ SourcesOk(f, h)

(* checkGlobals, which only the load runs, on the heap it adopted. *)
GlobalsOk(f, h) ==
  /\ IsDictionary(h, f.wk) /\ Lookup(h, f.wk, "Smalltalk") = f.wk["Smalltalk"]
  /\ \A n \in DOMAIN f.globals: Lookup(h, f.wk, n) = f.globals[n] /\ f.globals[n] = f.wk[n]

-------------------------------------------------------------------------------
\* The session's operations

NoFile == [version |-> 0]

Begins == ops < program.ops /\ ops' = ops + 1 /\ UNCHANGED program

(* The save runs the load's checks on the bytes it is about to write. *)
SaveChecked(f) == \E h \in {Section(f)}: Checks(f, h, registry)

(* Image::save: with a halted process, an unbound fixed global or a heap the load
   would refuse, nothing is written. *)
Saves ==
  /\ Begins
  /\ \E f \in {Written}:
       IF /\ frame = Nil /\ IsDictionary(heap, wk) /\ Lookup(heap, wk, "Processor") # Bad
          /\ SaveChecked(f)
       THEN /\ file' = f /\ damaged' = FALSE
            /\ saved' = [heap |-> heap, wk |-> wk, sources |-> sources] /\ last' = "saved"
       ELSE UNCHANGED <<file, damaged, saved>> /\ last' = "unsaved"
  /\ UNCHANGED <<heap, wk, workspace, frame, sources, registry>>

(* relocate: an offset becomes an address; base tells where a collection left them. *)
Moved(base, w) == IF IsHeap(w) THEN base + w ELSE w

(* bindAll: a native gets the index of its name in this process. *)
KeptIndex(h, o, reg) == o.slots[2]
BoundIndex(h, o, reg) == Index(reg[h[o.slots[1]].text])

Loaded(f, h, base, reg) ==
  [a \in {base + s: s \in DOMAIN h} |->
    LET o == h[a - base]
    IN IF o.klass = f.wk["NativeMethod"]
       THEN [o EXCEPT !.klass = Moved(base, o.klass), !.slots = <<Moved(base, o.slots[1]), BoundIndex(h, o, reg)>>]
       ELSE [o EXCEPT !.klass = Moved(base, o.klass), !.slots = [i \in DOMAIN o.slots |-> Moved(base, o.slots[i])]]]

(* PinnedMethods: the pairs' methods follow what a collection moves before the
   sources are back.  Without memory, the pairs from there on have none. *)
Unpinned(base, m) == m
Pinned(base, m) == Moved(base, m)
Restored(f, base, n) == [k \in 1 .. n |-> <<Pinned(base, f.sources[k][1]), f.sources[k][2]>>]

(* Image::load into a new session, which takes the old one's place when all is well. *)
Loads ==
  /\ Begins /\ file # NoFile
  /\ \E h \in {Section(file)}, reg \in Registries:
       IF Checks(file, h, reg) /\ GlobalsOk(file, h)
       THEN /\ \E base \in {0, 100}:
                 /\ heap' = Loaded(file, h, base, reg)
                 /\ wk' = [n \in DOMAIN wk |-> Moved(base, file.wk[n])]
                 /\ \E n \in 0 .. Len(file.sources): sources' = Restored(file, base, n)
            /\ workspace' = Nil /\ frame' = Nil
            /\ registry' = reg /\ last' = "loaded"
       ELSE last' = "refused" /\ UNCHANGED <<heap, wk, workspace, frame, sources, registry>>
  /\ UNCHANGED <<file, damaged, saved>>

(* An image saved before version 4 has no sources. *)
Ages ==
  /\ Begins /\ file # NoFile /\ file.version = 4
  /\ file' = [file EXCEPT !.version = 3, !.sources = <<>>] /\ saved' = [saved EXCEPT !.sources = <<>>]
  /\ last' = "none"
  /\ UNCHANGED <<heap, wk, workspace, frame, sources, registry, damaged>>

(* One word of the file is another: a class, a slot, flags, a record, a pair, the
   version.  A load follows, and nothing after it. *)
Breaks ==
  /\ program.damage /\ ops < program.ops - 1 /\ ops' = program.ops - 1 /\ UNCHANGED program
  /\ file # NoFile /\ ~damaged
  /\ \/ \E v \in {2, 3}: file' = [file EXCEPT !.version = v]
     \/ \E k \in DOMAIN file.objects, w \in {Bad, 3} \union {Offsets(file.objects)[4], Offsets(file.objects)[9]}:
          \/ file' = [file EXCEPT !.objects[k].klass = w]
          \/ \E i \in DOMAIN file.objects[k].slots: file' = [file EXCEPT !.objects[k].slots[i] = w]
     \/ \E k \in DOMAIN file.objects, fl \in SUBSET {"bytes", "weak", "marked"}:
          Len(file.objects[k].slots) <= 1 /\ file' = [file EXCEPT !.objects[k].flags = fl]
     \/ \E n \in WellKnownNames, w \in {Nil, 3, Offsets(file.objects)[6]}: file' = [file EXCEPT !.wk[n] = w]
     \/ \E k \in DOMAIN file.sources, w \in {3, Offsets(file.objects)[9]}: file' = [file EXCEPT !.sources[k][1] = w]
  /\ damaged' = TRUE /\ last' = "none"
  /\ UNCHANGED <<heap, wk, workspace, frame, sources, registry, saved>>

-------------------------------------------------------------------------------
\* The program

NewAddress == Max(DOMAIN heap) + 1
SlotV == <<heap[wk["Smalltalk"]].slots[1], 6>>        \* of Smalltalk's pairs: the global V
ValueV == heap[SlotV[1]].slots[SlotV[2]]
Plain == heap[wk["Processor"]].klass
UserClass == IF ValueV \in DOMAIN heap /\ heap[ValueV].klass = wk["Class"] THEN ValueV ELSE Nil

(* The objects a program may hold: those it made. *)
User == {a \in DOMAIN heap: \/ heap[a].klass \in {Plain, UserClass} \ {Nil} /\ a # wk["Processor"]
                            \/ IsWeak(heap[a]) \/ a = UserClass}

Made(kind, a) ==
  CASE kind = "plain" -> a :> Object(Plain, {}, "", <<Nil>>)
    [] kind = "inst"  -> a :> Object(UserClass, {}, "", [i \in 1 .. InstSize(Format(heap, UserClass)) |-> Nil])
    [] kind = "class" -> a :> Object(wk["Class"], {}, "", <<Nil, a + 1, Fixed(1)>>)
                          @@ (a + 1) :> Object(wk["MethodDictionary"], {}, "", <<a + 2>>)
                          @@ (a + 2) :> Object(Nil, {}, "", <<Nil>>)
    [] kind = "weak"  -> a :> Object(Nil, {"weak"}, "", <<Nil>>)
    [] OTHER          -> a :> Object(wk["NativeMethod"], {}, "",
                               <<a + 1, Index(IF kind = "thunk" THEN registry["ao_b"] ELSE 9)>>)
                          @@ (a + 1) :> Object(Nil, {"bytes"}, IF kind = "thunk" THEN "ao_b" ELSE "ao_NativeBlock_thunk", <<>>)

(* Somewhere the program can put a value: V, the Workspace, a halted frame, a slot. *)
Puts(h, w) ==
  \/ heap' = [h EXCEPT ![SlotV[1]].slots[SlotV[2]] = w] /\ UNCHANGED <<workspace, frame>>
  \/ workspace' = w /\ heap' = h /\ UNCHANGED frame
  \/ frame' = w /\ heap' = h /\ UNCHANGED workspace
  \/ \E a \in User \ {UserClass}: /\ Len(h[a].slots) > 0
                                  /\ heap' = [h EXCEPT ![a].slots[1] = w] /\ UNCHANGED <<workspace, frame>>

Makes ==
  /\ Begins
  /\ \E kind \in program.makes: /\ kind = "inst" => UserClass # Nil
                        /\ Cardinality(DOMAIN heap) + Cardinality(DOMAIN Made(kind, NewAddress)) <= program.objects
                        /\ Puts(Made(kind, NewAddress) @@ heap, NewAddress)
  /\ last' = "none" /\ UNCHANGED <<wk, sources, registry, file, damaged, saved>>

Stores ==
  /\ Begins /\ \E w \in User \union {Nil}: Puts(heap, w)
  /\ last' = "none" /\ UNCHANGED <<wk, sources, registry, file, damaged, saved>>

(* A method is accepted into the class V is bound to; its text is the history of
   what it was compiled from. *)
Accepts ==
  /\ Begins /\ UserClass # Nil /\ Cardinality(DOMAIN heap) < program.objects
  /\ LET array == heap[Dict(heap, UserClass)].slots[1]  m == NewAddress  text == <<"a", "b", "c", "d", "e", "f">>[ops + 1]
     IN /\ heap' = m :> Object(wk["CompiledMethod"], {}, text, <<Nil>>) @@ [heap EXCEPT ![array].slots[1] = m]
        /\ sources' = Append(SelectSeq(sources, LAMBDA s: s[1] # heap[array].slots[1]), <<m, text>>)
  /\ last' = "none" /\ UNCHANGED <<wk, workspace, frame, registry, file, damaged, saved>>

(* instVarAt:put: on a class, or on Smalltalk's own array. *)
Reformats ==
  /\ Begins /\ program.formats /\ UserClass # Nil
  /\ \E n \in {1, 2}: heap' = [heap EXCEPT ![UserClass].slots[3] = Fixed(n)]
  /\ last' = "none" /\ UNCHANGED <<wk, workspace, frame, sources, registry, file, damaged, saved>>

WritesPairs ==
  /\ Begins /\ program.pairs
  /\ \E w \in User \union {Nil}: heap' = [heap EXCEPT ![SlotV[1]].slots[4] = w]
  /\ last' = "none" /\ UNCHANGED <<wk, workspace, frame, sources, registry, file, damaged, saved>>

-------------------------------------------------------------------------------
Init ==
  /\ program \in Programs /\ registry \in Registries
  /\ heap = Booted(registry) /\ wk = KernelWk
  /\ workspace = Nil /\ frame = Nil /\ sources = <<>>
  /\ file = NoFile /\ damaged = FALSE /\ saved = NoFile /\ last = "none" /\ ops = 0

Next == Saves \/ Loads \/ Ages \/ Breaks \/ Makes \/ Stores \/ Accepts \/ Reformats \/ WritesPairs

Spec == Init /\ [][Next]_vars

-------------------------------------------------------------------------------
\* Properties

TypeOK ==
  /\ \A a \in DOMAIN heap: /\ heap[a].flags \subseteq {"bytes", "weak", "marked"}
                           /\ heap[a].klass \in DOMAIN heap \union {Nil}
  /\ Range(wk) \subseteq DOMAIN heap \union {Nil}
  /\ {workspace, frame} \subseteq DOMAIN heap \union {Nil}
  /\ \A k \in DOMAIN sources: sources[k][1] \in DOMAIN heap
  /\ registry \in Registries

(* SPEC 3.11: an image a save wrote is one a load of the same runtime always reads. *)
SaveLoads == last = "refused" => damaged

(* The pairs of objects one path reaches in the saved heap and in the loaded one. *)
PairsFrom(h1, h2, ps) ==
  ps \union UNION {LET o1 == h1[p[1]]  o2 == h2[p[2]]
                       n == IF IsBytes(o1) \/ IsWeak(o1) THEN 0 ELSE Min({Len(o1.slots), Len(o2.slots)})
                   IN {<<o1.klass, o2.klass>>} \union {<<o1.slots[i], o2.slots[i]>>: i \in 1 .. n}:
                   p \in {q \in ps: q[1] \in DOMAIN h1 /\ q[2] \in DOMAIN h2}}
Alike(h1, w1, h2, w2) ==
  FoldLeft(LAMBDA ps, k: PairsFrom(h1, h2, ps), {<<w1[n], w2[n]>>: n \in DOMAIN w1}, [k \in 1 .. 6 |-> k])

SameWord(ps, u, v) == IF IsHeap(u) THEN <<u, v>> \in ps ELSE u = v
SameSlot(ps, o1, o2, i) ==
  \/ SameWord(ps, o1.slots[i], o2.slots[i])
  \/ IsWeak(o1) /\ o2.slots[i] = Nil /\ o1.slots[i] \notin {p[1]: p \in ps}
  \/ o1.slots[i] < Bytes /\ o2.slots[i] < Bytes           \* a native's index

(* SPEC 3.11: what a program finds on every path from the names is what it was when the
   image was saved, shared where it was shared; a weak slot is nil when nothing else
   held its object. *)
LoadIsSame ==
  last = "loaded" /\ ~damaged =>
    LET ps == Alike(saved.heap, saved.wk, heap, wk)
        heaps == {p \in ps: IsHeap(p[1])}
    IN /\ \A p, q \in heaps: p[1] = q[1] <=> p[2] = q[2]
       /\ \A p \in ps \ heaps: p[1] = p[2] \/ p[1] < Bytes
       /\ \A p \in heaps: p[2] \in DOMAIN heap
       /\ \A p \in heaps: LET o1 == saved.heap[p[1]]  o2 == heap[p[2]]
                          IN /\ o1.flags = o2.flags /\ o1.text = o2.text /\ Len(o1.slots) = Len(o2.slots)
                             /\ \A i \in DOMAIN o1.slots: SameSlot(ps, o1, o2, i)

(* SPEC 3.10, 3.11: an image holds nothing that only the Workspace, the source table or a
   halted process reaches: a loaded heap has no object the names do not reach. *)
NothingExtra ==
  last = "loaded" /\ ~damaged =>
    DOMAIN heap \subseteq {p[2]: p \in Alike(heap, wk, heap, wk)}

(* SPEC 3.11: after a load every native runs the function its name says, however this
   process numbers them. *)
NativesRun ==
  last = "loaded" =>
    \A a \in DOMAIN heap: heap[a].klass = wk["NativeMethod"] =>
      heap[a].slots[2] = Index(registry[heap[heap[a].slots[1]].text])

(* SPEC 3.10 (P18): a restored source is its method's own, though a collection ran
   before the table was filled, and the pairs are in the order saved. *)
SourcesOwn ==
  last = "loaded" /\ ~damaged =>
    /\ \A k \in DOMAIN sources: /\ sources[k][1] \in DOMAIN heap
                                /\ heap[sources[k][1]].klass = wk["CompiledMethod"]
                                /\ heap[sources[k][1]].text = sources[k][2]
    /\ \A k \in DOMAIN sources: sources[k][2] \in {s[2]: s \in Range(saved.sources)}

(* SPEC 3.11: whatever file a load takes, the runtime can walk the heap: no mark, no
   dangling word, and every object's class is one lookup can start at. *)
LoadedWalks ==
  last = "loaded" =>
    \A a \in DOMAIN heap:
      /\ "marked" \notin heap[a].flags
      /\ heap[a].klass # Nil => /\ heap[a].klass \in DOMAIN heap /\ ClassShaped(heap, heap[a].klass)
                                /\ Dict(heap, heap[a].klass) \in DOMAIN heap \union {Nil}
      /\ ~IsBytes(heap[a]) => \A i \in DOMAIN heap[a].slots:
                                IsHeap(heap[a].slots[i]) => heap[a].slots[i] \in DOMAIN heap

(* A save and the load of what it wrote keep the program: all of it, and nothing else; of a
   program that does not write the array of Smalltalk's pairs in place. *)
ProgramKept == TypeOK /\ (~program.pairs => SaveLoads /\ LoadIsSame /\ NothingExtra /\ SourcesOwn)

(* What a load lets in, of any file, can be run. *)
LoadedRuns == NativesRun /\ LoadedWalks
===============================================================================
