------------------------------ MODULE Evaluation ------------------------------
(* What an evaluation promises about aborts (SPEC 3.3, 3.4): an abort that has *)
(* begun ends the evaluation and nothing the cleanups do takes it back; the    *)
(* reason is that of the abort that began first; the debugger's capture, where *)
(* there is one, shows that abort.  Unwind implements it.                      *)
EXTENDS Naturals

VARIABLES phase,      \* "running", "aborting" or "ended"
          reason,     \* the abort that ends the evaluation, by its number; 0 without one
          captured    \* the abort the debugger's snapshot shows; 0 without one

promised == <<phase, reason, captured>>

Init == phase = "running" /\ reason = 0 /\ captured = 0

Begins == /\ phase = "running"
          /\ phase' = "aborting"
          /\ reason' \in Nat \ {0}
          /\ captured' \in {0, reason'}

Ends == /\ phase \in {"running", "aborting"}
        /\ phase' = "ended"
        /\ UNCHANGED <<reason, captured>>

Next == Begins \/ Ends

Spec == Init /\ [][Next]_promised
=============================================================================
