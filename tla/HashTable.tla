------------------------------- MODULE HashTable -------------------------------
(* The open-addressed table of Dictionary and Set (runtime/src/                *)
(* HashedCollection.cpp, kernel/Dictionary.cpp): linear probing from a key's    *)
(* home, removal by backward shift, growth, and the re-entrance of the user's   *)
(* =, which runs between two probes and, with the processes it lets run, may    *)
(* read and write the same table.                                               *)
EXTENDS Integers, Sequences, FiniteSets, SequencesExt

CONSTANTS Keys,            \* keys of the operations
          Class,           \* the keys that are = have one class
          Hash,            \* the hash of a key's class, as the top bits of its product
          HashRange,       \* hashes are in 0 .. HashRange - 1, a power of two
          MinCapacity,     \* kMinCapacity, a power of two
          ValuesOf,        \* the values put under each key
          Kinds,           \* among Dictionary, Set, IdentityDictionary, IdentitySet
          Callers,         \* operations that can be under way together
          None,            \* no key: a free entry
          MaxWrites,       \* bound, for each kind: insertions, removals and writes of the tally
          MaxLies          \* bound, for each kind: writes of the tally that do not fit the entries

ASSUME HashTableAssumption ==
  /\ MinCapacity \in Nat \ {0} /\ HashRange \in Nat \ {0}
  /\ \A k \in Keys: Hash[k] \in 0 .. HashRange - 1
  /\ \A k, l \in Keys: Class[k] = Class[l] => Hash[k] = Hash[l]
  /\ None \notin Keys /\ \A k \in Keys: Class[k] # None /\ None \notin ValuesOf[k]

VARIABLES table,     \* the array: its identity, generation and entries
          tally,     \* the tally slot
          kind,      \* "Dictionary", "Set", or their Identity versions
          calls,     \* what each caller is doing
          answer,    \* the operation that ended last
          arrays, writes, lies

vars == <<table, tally, kind, calls, answer, arrays, writes, lies>>

-------------------------------------------------------------------------------
\* Hashed::

Capacity(t) == Len(t.entries)
Free == [key |-> None, value |-> None, hash |-> 0]
NewArray(capacity, id) == [id |-> id, gen |-> 0, entries |-> [i \in 1 .. capacity |-> Free]]

(* Entries are numbered from 0, as in the code. *)
EntryAt(t, i) == t.entries[i + 1]
IsFree(t, i) == EntryAt(t, i).key = None

(* home: the top bits of the hash's product, as many as the capacity has. *)
Home(hash, capacity) == (hash * capacity) \div HashRange

Nth(t, hash, n) == (Home(hash, Capacity(t)) + n) % Capacity(t)

First(ns) == CHOOSE n \in ns: \A m \in ns: n <= m

NoEntry == -1

FreeEntry(t, hash) ==
  LET free == {n \in 0 .. Capacity(t) - 1: IsFree(t, Nth(t, hash, n))}
  IN IF free = {} THEN NoEntry ELSE Nth(t, hash, First(free))

Bump(t) == [t EXCEPT !.gen = @ + 1]

PutEntry(t, i, key, value) ==
  Bump([t EXCEPT !.entries[i + 1] = [key |-> key, value |-> value, hash |-> Hash[key]]])

StaysFlat(hole, h, j) == hole < h /\ h <= j      \* mutant

(* The entry at j stays when its home lies cyclically in (hole, j]. *)
Stays(hole, h, j) == IF hole <= j THEN hole < h /\ h <= j ELSE hole < h \/ h <= j

(* The loop of the shift: the entries so far, the hole, and the entry it looks at. *)
Shifts(t) == [entries: [1 .. Capacity(t) -> Range(t.entries)],
              hole: 0 .. Capacity(t) - 1, j: 0 .. Capacity(t) - 1]
ShiftEnds(s) == s.j = s.hole \/ s.entries[s.j + 1].key = None
ShiftStep(t, s) ==
  LET e == s.entries[s.j + 1]
      next == (s.j + 1) % Capacity(t)
  IN IF Stays(s.hole, Home(e.hash, Capacity(t)), s.j) THEN [s EXCEPT !.j = next]
     ELSE [entries |-> [s.entries EXCEPT ![s.hole + 1] = e], hole |-> s.j, j |-> next]
Shifted(t) == LET shift[s \in Shifts(t)] == IF ShiftEnds(s) THEN s ELSE shift[ShiftStep(t, s)]
              IN shift

RemoveEntry(t, i) ==
  LET s == Shifted(t)[[entries |-> t.entries, hole |-> i, j |-> (i + 1) % Capacity(t)]]
  IN Bump([t EXCEPT !.entries = [s.entries EXCEPT ![s.hole + 1] = Free]])

MustGrow(t, n) == (n + 1) * 4 > Capacity(t) * 3

Taken(t) == {i \in 0 .. Capacity(t) - 1: ~IsFree(t, i)}

(* grow: the entries in their order, each where the probe from its home first finds room. *)
Place(new, e) == IF e.key = None THEN new ELSE [new EXCEPT !.entries[FreeEntry(new, e.hash) + 1] = e]
Placed(t, id) ==
  LET place[n \in 0 .. Capacity(t)] ==
        IF n = 0 THEN NewArray(Capacity(t) * 2, id) ELSE Place(place[n - 1], t.entries[n])
  IN place
Grow(t, id) == Placed(t, id)[Capacity(t)]

-------------------------------------------------------------------------------
\* probe

Idle == [op |-> "idle"]
Identity == kind \in {"IdentityDictionary", "IdentitySet"}
Same(k, l) == IF Identity THEN k = l ELSE Class[k] = Class[l]

(* The probes at which the search for key stops, from the n-th on: at a free entry, at
   the key itself, or to send = to a key of the same hash. *)
Stops(key, n) ==
  {m \in n .. Capacity(table) - 1:
     LET e == EntryAt(table, Nth(table, Hash[key], m))
     IN e.key = None \/ (e.hash = Hash[key] /\ (e.key = key \/ ~Identity))}

(* Where the search stands: absent, found at an entry, or asking = at one. *)
Search(key, n) ==
  IF Stops(key, n) = {} THEN [is |-> "absent"]
  ELSE LET m == First(Stops(key, n))
           i == Nth(table, Hash[key], m)
       IN IF IsFree(table, i) THEN [is |-> "absent"]
          ELSE IF EntryAt(table, i).key = key THEN [is |-> "found", at |-> i]
          ELSE [is |-> "asks", n |-> m, at |-> i]

-------------------------------------------------------------------------------
\* The operations, from where their probe ended

Ends(c, call, value) ==
  /\ answer' = [op |-> call.op, key |-> call.key, value |-> value]
  /\ calls' = [calls EXCEPT ![c] = Idle]

(* insertAbsent; a new array may be refused, and then nothing is inserted. *)
Grows(key) == MustGrow(table, tally) \/ FreeEntry(table, Hash[key]) = NoEntry

Inserted(t, call) == PutEntry(t, FreeEntry(t, Hash[call.key]), call.key, call.value)

Inserts(c, call) ==
  \/ /\ ~Grows(call.key)
     /\ table' = Inserted(table, call) /\ tally' = tally + 1 /\ writes' = writes + 1
     /\ Ends(c, call, call.value) /\ UNCHANGED arrays
  \/ /\ Grows(call.key)
     /\ table' = Inserted(Grow(table, arrays + 1), call) /\ arrays' = arrays + 1
     /\ tally' = Cardinality(Taken(table)) + 1 /\ writes' = writes + 1
     /\ Ends(c, call, call.value)
  \/ Grows(call.key) /\ Ends(c, call, "failed") /\ UNCHANGED <<table, tally, arrays, writes>>

Found(c, call, i) ==
  LET old == EntryAt(table, i).value
  IN CASE call.op = "at:put:" ->
            /\ table' = [table EXCEPT !.entries[i + 1].value = call.value]
            /\ Ends(c, call, call.value) /\ UNCHANGED <<tally, arrays, writes>>
       [] call.op = "add:" -> Ends(c, call, call.value) /\ UNCHANGED <<table, tally, arrays, writes>>
       [] call.op = "removeKey:" ->
            /\ table' = RemoveEntry(table, i)
            /\ tally' = IF tally > 0 THEN tally - 1 ELSE 0
            /\ writes' = writes + 1
            /\ Ends(c, call, old) /\ UNCHANGED arrays
       [] call.op = "at:" -> Ends(c, call, old) /\ UNCHANGED <<table, tally, arrays, writes>>

Absent(c, call) ==
  IF call.op \in {"at:put:", "add:"} THEN Inserts(c, call)
  ELSE Ends(c, call, None) /\ UNCHANGED <<table, tally, arrays, writes>>

ComparedGone(call) == EntryAt(table, call.at).key # call.compared

RestartedByArray(call) == table.id # call.array      \* mutant

(* The probe starts over when = let another array or generation in, or the compared key go. *)
Restarted(call) == table.id # call.array \/ table.gen # call.gen \/ ComparedGone(call)

(* = is sent at the n-th probe: what it compares, in which array and generation. *)
Asks(c, call, s) ==
  /\ calls' = [calls EXCEPT ![c] = [op |-> call.op, key |-> call.key, value |-> call.value, n |-> s.n,
                                    at |-> s.at, array |-> table.id, gen |-> table.gen,
                                    compared |-> EntryAt(table, s.at).key]]
  /\ UNCHANGED <<table, tally, arrays, writes, answer>>

Continues(c, call, n) ==
  LET s == Search(call.key, n)
  IN CASE s.is = "absent" -> Absent(c, call)
       [] s.is = "found" -> Found(c, call, s.at)
       [] s.is = "asks" -> Asks(c, call, s)

Operations == IF kind \in {"Set", "IdentitySet"} THEN {"add:", "at:"} ELSE {"at:put:", "removeKey:", "at:"}

(* An operation begins: hash was sent, and nothing of the table read before it. *)
Begins(c) ==
  /\ calls[c] = Idle /\ writes + lies < MaxWrites[kind]
  /\ \E op \in Operations, k \in Keys: \E v \in ValuesOf[k]: Continues(c, [op |-> op, key |-> k, value |-> v], 0)
  /\ UNCHANGED <<kind, lies>>

(* = answers, or it unwinds or answers no Boolean. *)
Asking(c) == calls[c].op \notin {"idle", "do:"}

Replies(c) ==
  /\ Asking(c)
  /\ LET call == calls[c]
     IN IF Restarted(call) THEN Continues(c, call, 0)
        ELSE IF Same(call.key, call.compared) THEN Found(c, call, call.at)
        ELSE Continues(c, call, call.n + 1)
  /\ UNCHANGED <<kind, lies>>

EqualsFails(c) ==
  /\ Asking(c)
  /\ Ends(c, calls[c], "failed")
  /\ UNCHANGED <<table, tally, kind, arrays, writes, lies>>

-------------------------------------------------------------------------------
\* do: and the other enumerations

Enumeration == [op |-> "do:", done |-> FALSE, i |-> 0, visited |-> <<>>, array |-> table.id, gen |-> table.gen]

BeginsDo(c) ==     \* bound: one enumeration at a time
  /\ calls[c] = Idle /\ \A d \in Callers: calls[d].op # "do:"
  /\ calls' = [calls EXCEPT ![c] = Enumeration]
  /\ UNCHANGED <<table, tally, kind, answer, arrays, writes, lies>>

(* The next taken entry from i on, in the table as it is now. *)
Visits(c) ==
  LET call == calls[c]
      next == {i \in call.i .. Capacity(table) - 1: ~IsFree(table, i)}
  IN /\ call.op = "do:" /\ ~call.done
     /\ IF next = {} THEN calls' = [calls EXCEPT ![c].done = TRUE]
        ELSE calls' = [calls EXCEPT ![c].i = First(next) + 1,
                                    ![c].visited = Append(@, EntryAt(table, First(next)).key)]
     /\ UNCHANGED <<table, tally, kind, answer, arrays, writes, lies>>

DoEnds(c) ==
  /\ calls[c].op = "do:" /\ calls[c].done
  /\ calls' = [calls EXCEPT ![c] = Idle]
  /\ UNCHANGED <<table, tally, kind, answer, arrays, writes, lies>>

(* instVarAt:put: writes a tally that is not the number of entries. *)
Lies ==
  /\ lies < MaxLies[kind] /\ lies' = lies + 1
  /\ \E n \in 0 .. Capacity(table): tally' = n
  /\ UNCHANGED <<table, kind, calls, answer, arrays, writes>>

-------------------------------------------------------------------------------
Init ==
  /\ kind \in Kinds
  /\ table = NewArray(MinCapacity, 1) /\ arrays = 1 /\ tally = 0
  /\ calls = [c \in Callers |-> Idle]
  /\ answer = [op |-> "none", key |-> None, value |-> None]
  /\ writes = 0 /\ lies = 0

Call(c) == Replies(c) \/ Visits(c) \/ DoEnds(c)

Next == (\E c \in Callers: Begins(c) \/ BeginsDo(c) \/ Call(c) \/ EqualsFails(c)) \/ Lies

Spec == Init /\ [][Next]_vars
-------------------------------------------------------------------------------
TypeOK ==
  /\ Capacity(table) >= MinCapacity /\ table.gen \in Nat /\ tally \in 0 .. Capacity(table)
  /\ \A e \in Range(table.entries): e.key \in Keys => e.hash = Hash[e.key]

(* Every entry is where a probe for its key comes to it before any free entry, and no two
   entries have equal keys, whatever ran between the probes of an insertion. *)
EntriesReachable ==
  \A i \in 0 .. Capacity(table) - 1:
    ~IsFree(table, i) =>
      LET e == EntryAt(table, i)
          n == First({m \in 0 .. Capacity(table) - 1: Nth(table, e.hash, m) = i})
      IN /\ \A m \in 0 .. n - 1: ~IsFree(table, Nth(table, e.hash, m))
         /\ \A j \in 0 .. Capacity(table) - 1: (~IsFree(table, j) /\ j # i) => ~Same(EntryAt(table, j).key, e.key)

(* The tally counts the entries, and a quarter of the table stays free, unless the tally was
   written over. *)
TallyCounts ==
  lies = 0 => tally = Cardinality(Taken(table)) /\ Cardinality(Taken(table)) * 4 <= Capacity(table) * 3

(* An enumeration during which no entry came or went has visited each key once. *)
EnumeratesAll ==
  \A c \in Callers:
    (calls[c].op = "do:" /\ calls[c].done /\ table.id = calls[c].array /\ table.gen = calls[c].gen) =>
      /\ Len(calls[c].visited) = Cardinality(Taken(table))
      /\ Range(calls[c].visited) = {EntryAt(table, i).key: i \in Taken(table)}

(* Between any two steps, of a growth, a shift or a probe that = interrupted, the table is one
   that every probe and enumeration reads right. *)
TableSound == TypeOK /\ EntriesReachable /\ TallyCounts /\ EnumeratesAll

ClassOf(k) == IF k = None THEN None ELSE IF Identity THEN k ELSE Class[k]
Holds(c) == {i \in DOMAIN table.entries: ClassOf(table.entries[i].key) = c}
ValueIn(held) == IF held = {} THEN None ELSE table.entries[First(held)].value
MapOf == [c \in {Class[k]: k \in Keys} \union Keys |-> ValueIn(Holds(c))]

P == INSTANCE PartialMap WITH
       Classes <- {Class[k]: k \in Keys} \union Keys,
       Values  <- UNION {ValuesOf[k]: k \in Keys},
       map     <- MapOf,
       answer  <- [op |-> answer.op, class |-> ClassOf(answer.key), value |-> answer.value]

(* The table is a map from classes of equal keys to values, and every operation takes effect at
   one moment, in spite of the writes that = makes between its probes. *)
ImplementsMap == P!Spec
=================================================================================
