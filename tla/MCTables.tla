------------------------------- MODULE MCTables -------------------------------
(* The tables a program reaches: the open-addressed one of Dictionary and Set, and *)
(* those of the classes and their methods.  A behaviour is of one of five parts, *)
(* and the others rest: a hashed table; and four small instances of Classes: sends *)
(* and methods along a chain of classes; names, IDs and removed classes; changes of *)
(* shape and classPools; and the same with a subclass: of the user's, which may   *)
(* answer any class or none.                                                      *)
EXTENDS HashTable

(* Two equal keys, one of their hash that is not equal, and neighbours of theirs *)
(* around the end of the table.                                                  *)
MCKeys == {"a", "b", "c", "d"}
MCClass == [k \in MCKeys |-> IF k = "b" THEN "a" ELSE k]
MCHash == [a |-> 7, b |-> 7, c |-> 7, d |-> 5]
MCValuesOf == [k \in MCKeys |-> {k}]
CallerSymmetry == Permutations(Callers)

(* Three entries and a removal need four writes, where no = multiplies the states; there
   one of them may be of the tally, so that a table fills up. *)
MCMaxWrites == [k \in Kinds |-> IF k = "IdentityDictionary" THEN 4 ELSE 3]
MCMaxLies   == [k \in Kinds |-> IF k = "IdentityDictionary" THEN 1 ELSE 0]

-------------------------------------------------------------------------------
VARIABLES part, cls, meth, bound, held, cache, sources, ids, nextId, ops, seen, removed, last

classVars == <<cls, meth, bound, held, cache, sources, ids, nextId, ops, seen, removed, last>>

MCNames == {"A", "B"}

L == INSTANCE Classes WITH
       UserNames <- MCNames, Kernel <- 2, Sides <- {"inst"}, Selectors <- {"native", "m"},
       Texts <- {"none"}, Shapes <- {<<>>}, Pools <- {{}},
       Overrides <- FALSE, Chunks <- FALSE, Memory <- FALSE,
       MaxClasses <- 4, MaxMethods <- 4, MaxOps <- 4

N == INSTANCE Classes WITH
       UserNames <- MCNames, Kernel <- 1, Sides <- {"inst"}, Selectors <- {},
       Texts <- {"none"}, Shapes <- {<<>>}, Pools <- {{}},
       Overrides <- FALSE, Chunks <- FALSE, Memory <- FALSE,
       MaxClasses <- 4, MaxMethods <- 1, MaxOps <- 5

S == INSTANCE Classes WITH
       UserNames <- MCNames, Kernel <- 1, Sides <- {"inst"}, Selectors <- {"m"},
       Texts <- {"x"}, Shapes <- {<<"x">>, <<"y", "x">>}, Pools <- {{}, {"v"}},
       Overrides <- FALSE, Chunks <- TRUE, Memory <- TRUE,
       MaxClasses <- 3, MaxMethods <- 4, MaxOps <- 4

O == INSTANCE Classes WITH
       UserNames <- MCNames, Kernel <- 1, Sides <- {"inst"}, Selectors <- {"m"},
       Texts <- {"v"}, Shapes <- {<<>>}, Pools <- {{}, {"v"}},
       Overrides <- TRUE, Chunks <- TRUE, Memory <- TRUE,
       MaxClasses <- 4, MaxMethods <- 4, MaxOps <- 4

ASSUME L!ClassesAssumption /\ N!ClassesAssumption /\ S!ClassesAssumption /\ O!ClassesAssumption

Resting == Init /\ kind = "Dictionary"

MCInit == \/ part = "hashed" /\ Init /\ N!Init
          \/ part = "lookup" /\ L!Init /\ Resting
          \/ part = "names"  /\ N!Init /\ Resting
          \/ part = "shapes" /\ S!Init /\ Resting
          \/ part = "overrides" /\ O!Init /\ Resting

Hashes   == part = "hashed" /\ Next /\ UNCHANGED <<part, classVars>>
Lookups  == part = "lookup" /\ L!Next /\ UNCHANGED <<part, vars>>
Renames  == part = "names" /\ N!Next /\ UNCHANGED <<part, vars>>
Reshapes == part = "shapes" /\ S!Next /\ UNCHANGED <<part, vars>>
Answers  == part = "overrides" /\ O!Next /\ UNCHANGED <<part, vars>>

MCSpec == MCInit /\ [][Hashes \/ Lookups \/ Renames \/ Reshapes \/ Answers]_<<part, vars, classVars>>

-------------------------------------------------------------------------------
(* InstalledExact, NamesExact and ShapesExact of Classes, each in the instance that  *)
(* has what they are about, with Classes' type invariant.                            *)
InstalledExact == part = "lookup" => L!TypeOK /\ L!InstalledExact
ClassesExact   == /\ part = "names" => N!TypeOK /\ N!NamesExact
                  /\ part = "shapes" => S!TypeOK /\ S!ShapesExact
                  /\ part = "overrides" => O!TypeOK /\ O!ShapesExact
ChangesWhole   == S!ChangesWhole
===============================================================================
