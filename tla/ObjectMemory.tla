----------------------------- MODULE ObjectMemory -----------------------------
(* What the object memory promises a program: objects with an identity of their *)
(* own, roots that keep what they name, and nothing a collection may change but *)
(* a weak slot whose object no strong path reaches.                             *)
EXTENDS Integers, Sequences, FiniteSets, Functions, SequencesExt, FiniteSetsExt, Folds

CONSTANTS Procs,      \* the processes, each with a stack of roots
          MaxIds      \* objects a program may make

VARIABLES
  objects,   \* what a program can still find: [id -> [klass, slots, weak]]
  stacks,    \* the root stack of each process
  handles,   \* the handle table: [index -> object]
  current    \* the process that runs

memory == <<objects, stacks, handles, current>>

Nil == 0
Edges(os, a)  == {os[a].klass} \union Range(os[a].slots)
Strong(os, a) == IF os[a].weak THEN {os[a].klass} ELSE Edges(os, a)

(* The least set that holds what from names and what its members lead to. *)
ClosedIn(os, from, Next(_), S) ==
  from \cap DOMAIN os \subseteq S /\ \A b \in S: Next(b) \cap DOMAIN os \subseteq S
Reached(os, from, Next(_)) ==
  CHOOSE S \in SUBSET DOMAIN os:
    /\ ClosedIn(os, from, Next, S)
    /\ \A T \in SUBSET S: ClosedIn(os, from, Next, T) => T = S

RootsOf(st, hs) == UNION {Range(st[p]): p \in Procs} \union Range(hs)
KnownIn(os, st, hs) == LET Next(a) == Edges(os, a)  IN Reached(os, RootsOf(st, hs), Next)
LiveIn(os, st, hs)  == LET Next(a) == Strong(os, a) IN Reached(os, RootsOf(st, hs), Next)

Pushed(r) == [stacks EXCEPT ![current] = Append(@, r)]

Init == /\ objects = [a \in {} |-> 0] /\ stacks = [p \in Procs |-> <<>>]
        /\ handles = <<>> /\ current \in Procs

(* The program goes from the objects os to os2, with these roots: it goes on with what
   it can find.  The actions are operators of both so that a checker reads them once. *)
Becomes(os2, left, st, hs) ==
  /\ stacks' = st /\ handles' = hs
  /\ os2 = Restrict(left, KnownIn(left, st, hs))

(* A new object, of a class the program holds, its slots nil. *)
Makes(os, os2) ==
  \E a \in 1 .. MaxIds \ DOMAIN os:
    /\ stacks' = Pushed(a)
    /\ \E klass \in DOMAIN os \union {Nil}, n \in 0 .. 3, weak \in BOOLEAN:
         Becomes(os2, a :> [klass |-> klass, slots |-> [k \in 1 .. n |-> Nil], weak |-> weak] @@ os,
                 Pushed(a), handles)

Reads(os, os2) ==
  \E a \in Range(stacks[current]) \ {Nil}: \E k \in DOMAIN os[a].slots:
    Becomes(os2, os, Pushed(os[a].slots[k]), handles)

Writes(os, os2) ==
  /\ stacks' = stacks
  /\ \E a \in Range(stacks[current]) \ {Nil}, b \in Range(stacks[current]) \union {Nil}:
       \E k \in DOMAIN os[a].slots: Becomes(os2, [os EXCEPT ![a].slots[k] = b], stacks, handles)

Pops(os, os2) ==
  stacks[current] # <<>> /\ Becomes(os2, os, [stacks EXCEPT ![current] = Front(@)], handles)

Holds(os, os2) == \E r \in Range(stacks[current]): Becomes(os2, os, stacks, Append(handles, r))
Drops(os, os2) == \E i \in DOMAIN handles: Becomes(os2, os, stacks, [handles EXCEPT ![i] = Nil])
Fills(os, os2) ==
  \E i \in DOMAIN handles, r \in Range(stacks[current]):
    handles[i] = Nil /\ Becomes(os2, os, stacks, [handles EXCEPT ![i] = r])

(* Weak slots lose what nothing else holds, all of them at once. *)
Collects(os, os2) ==
  /\ stacks' = stacks /\ handles' = handles
  /\ \E live \in {LiveIn(os, stacks, handles)}:
       LET left(a) == IF os[a].weak
                      THEN [os[a] EXCEPT !.slots = [k \in DOMAIN @ |-> IF @[k] \in live THEN @[k] ELSE Nil]]
                      ELSE os[a]
       IN Becomes(os2, [a \in DOMAIN os |-> left(a)], stacks, handles)

Runs == \E os \in {objects}, os2 \in {objects'}:
           \/ Makes(os, os2) \/ Reads(os, os2) \/ Writes(os, os2) \/ Pops(os, os2)
           \/ Holds(os, os2) \/ Drops(os, os2) \/ Fills(os, os2) \/ Collects(os, os2)

Next == \/ current' = current /\ Runs
        \/ \E p \in Procs: current' = p /\ UNCHANGED <<objects, stacks, handles>>

Spec == Init /\ [][Next]_memory
===============================================================================
