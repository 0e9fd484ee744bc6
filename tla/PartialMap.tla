------------------------------- MODULE PartialMap -------------------------------
(* What a Dictionary or a Set promises: one value for each class of equal keys. *)
(* An operation takes effect at one moment and answers by the contents then.    *)
EXTENDS Naturals

CONSTANTS Classes, Values, None

VARIABLES map,      \* the value of each class of keys, None where there is none
          answer    \* the operation that ended last: its name, key class and answer

Answer(op, c, v) == /\ answer'.op = op /\ answer'.class = c
                    /\ answer' = [op |-> op, class |-> c, value |-> v]

Init == map = [c \in Classes |-> None] /\ answer = [op |-> "none", class |-> None, value |-> None]

Put(c, v) == Answer("at:put:", c, v) /\ map' = [map EXCEPT ![c] = v]
Add(c, v) == Answer("add:", c, v) /\ map' = [map EXCEPT ![c] = IF @ = None THEN v ELSE @]
Remove(c) == Answer("removeKey:", c, map[c]) /\ map' = [map EXCEPT ![c] = None]
Find(c)   == Answer("at:", c, map[c]) /\ map' = map

(* An operation that aborts, or for which there is no memory, changes nothing. *)
Fails(op, c) == Answer(op, c, "failed") /\ map' = map

Operation(c) == \/ Remove(c) \/ Find(c)
                \/ \E v \in Values: Put(c, v) \/ Add(c, v)
                \/ \E op \in {"at:put:", "add:", "removeKey:", "at:"}: Fails(op, c)

Next == \E c \in Classes: answer'.class = c /\ Operation(c)

Spec == Init /\ [][Next]_<<map, answer>>
=================================================================================
