------------------------------- MODULE AtomicFile -------------------------------
(* What a save promises of the file it replaces: the file holds one save's image, *)
(* whole, from one instant to the next another's, and a save that answers success *)
(* had its instant and one that answers failure had none.  A power loss may bring *)
(* back an image from before.                                                     *)
CONSTANTS Savers, NoImage

VARIABLES content,   \* the save whose image the file holds, or NoImage
          past,      \* what it held before
          call       \* each save: "idle", "begun", "taken", "ok", "failed", "dead"

Init == content = NoImage /\ past = {} /\ call = [s \in Savers |-> "idle"]

Moves(s, from, to) == call[s] = from /\ call' = [call EXCEPT ![s] = to]

Begins(s)  == Moves(s, "idle", "begun") /\ UNCHANGED <<content, past>>
Takes(s)   == Moves(s, "begun", "taken") /\ content' = s /\ past' = past \union {content}
Answers(s) == (Moves(s, "taken", "ok") \/ Moves(s, "begun", "failed")) /\ UNCHANGED <<content, past>>
Dies(s)    == (Moves(s, "taken", "dead") \/ Moves(s, "begun", "dead")) /\ UNCHANGED <<content, past>>

Ended(s) == IF call[s] \in {"begun", "taken"} THEN "dead" ELSE call[s]
Loses == /\ content' \in past \union {content} /\ past' = past
         /\ call' = [s \in Savers |-> Ended(s)]

Next == Loses \/ \E s \in Savers: Begins(s) \/ Takes(s) \/ Answers(s) \/ Dies(s)

Spec == Init /\ [][Next]_<<content, past, call>>
===============================================================================
