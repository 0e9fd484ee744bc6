-------------------------------- MODULE MCSave --------------------------------
(* Saving side by side: Image, of three small programs, and the file an image is  *)
(* written to (ImageFile).  A behaviour is of one of the two; the other rests.    *)
EXTENDS Image, ImageFile

CONSTANTS Parts    \* "image", "file"

VARIABLE part

\* Two processes' numbers of the natives.
TwoBuilds == {[n \in {"ao_a", "ao_b"} |-> IF n = "ao_a" THEN 1 ELSE 2],
              [n \in {"ao_a", "ao_b"} |-> IF n = "ao_a" THEN 2 ELSE 1]}

\* Weak slots, natives and lost objects, near the limit of the old space.
Small == [makes |-> {"plain", "weak", "thunk", "lost"}, oldMax |-> 92, formats |-> FALSE,
          pairs |-> FALSE, damage |-> FALSE, objects |-> 22, ops |-> 4]

\* Classes of the user's, their instances and sources.
Users == [makes |-> {"class", "inst"}, oldMax |-> 200, formats |-> TRUE,
          pairs |-> FALSE, damage |-> FALSE, objects |-> 25, ops |-> 6]

\* Files that are not as a save left them.
Worn  == [makes |-> {"class", "thunk"}, oldMax |-> 200, formats |-> FALSE,
          pairs |-> TRUE, damage |-> TRUE, objects |-> 23, ops |-> 4]

Unpaired == {Small, Users, Worn}
Paired == {[makes |-> {"plain"}, oldMax |-> 200, formats |-> FALSE,
            pairs |-> TRUE, damage |-> FALSE, objects |-> 20, ops |-> 4]}

ASSUME ImageAssumption
ASSUME ImageFileAssumption

MCInit == /\ part \in Parts /\ FileInit /\ Init
          /\ part = "file" => program = CHOOSE p \in Programs: TRUE

Images  == part = "image" /\ Next /\ UNCHANGED <<part, fileVars>>
Writing == part = "file" /\ FileNext /\ UNCHANGED <<part, vars>>

MCSpec == MCInit /\ [][Images \/ Writing]_<<part, vars, fileVars>>
===============================================================================
