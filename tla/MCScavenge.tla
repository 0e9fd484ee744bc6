------------------------------ MODULE MCScavenge ------------------------------
(* Small heaps for Scavenge: objects of one slot, and large ones without slots. *)
EXTENDS Scavenge

CONSTANTS p, q

Cell == [slots |-> 1, words |-> 1, weak |-> FALSE]
Weak == [slots |-> 1, words |-> 1, weak |-> TRUE]
Blob == [slots |-> 0, words |-> 4, weak |-> FALSE]

MCHeaps ==
  {\* weak objects, one of which the old space has room for
   [initial |-> 1, limit |-> 1, shapes |-> {Cell, Weak}, classes |-> FALSE, procs |-> {p},
    ids |-> 3, stack |-> 2, handles |-> 0],
   \* two processes, a handle and classes
   [initial |-> 1, limit |-> 1, shapes |-> {Cell}, classes |-> TRUE, procs |-> {p, q},
    ids |-> 3, stack |-> 1, handles |-> 1],
   \* large objects, in an old space of one and a bit
   [initial |-> 4, limit |-> 5, shapes |-> {Cell, Blob}, classes |-> FALSE, procs |-> {p},
    ids |-> 3, stack |-> 2, handles |-> 0]}

ASSUME ScavengeAssumption
===============================================================================
