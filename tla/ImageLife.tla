------------------------------ MODULE ImageLife ------------------------------
(***************************************************************************)
(* What L3.4 promises those who ask GET /image/{id}: an image appears      *)
(* once, is settled once, and an image that was shown stays until a DELETE *)
(* for it has come; what is gone stays away.                               *)
(***************************************************************************)
CONSTANTS
    Images,
    Undoable   \* images that cannot be processed as asked

VARIABLES
    answer,    \* image -> what GET says; "broken" is a ready image without its file
    removing,  \* images a DELETE has found
    withdrawn  \* images whose upload was refused or broke off

vars == <<answer, removing, withdrawn>>

Init == /\ answer = [i \in Images |-> "new"]
        /\ removing = {} /\ withdrawn = {}

Turn(i, from, to) == answer[i] \in from /\ answer' = [answer EXCEPT ![i] = to]

Appear(i) == Turn(i, {"new"}, "processing") /\ UNCHANGED <<removing, withdrawn>>

Withdraw(i) ==
    /\ withdrawn' = withdrawn \cup {i}
    /\ \/ UNCHANGED answer
       \/ Turn(i, {"new"}, "processing") \/ Turn(i, {"new"}, "gone")
    /\ UNCHANGED removing

Settle(i) ==
    /\ \/ i \notin Undoable /\ Turn(i, {"processing"}, "ready")
       \/ Turn(i, {"processing"}, "failed")
    /\ UNCHANGED <<removing, withdrawn>>

\* A DELETE goes on in steps, a worker that still has the image may undo one of them.
BeginRemove(i) == /\ answer[i] \notin {"new", "gone"}
                  /\ removing' = removing \cup {i}
                  /\ UNCHANGED <<answer, withdrawn>>

Remove(i) == /\ \/ i \in removing /\ Turn(i, {"ready"}, "broken")
                \/ i \in removing /\ Turn(i, {"broken"}, "ready")
                \/ i \in removing \cup withdrawn
                   /\ Turn(i, {"processing", "ready", "failed", "broken"}, "gone")
             /\ UNCHANGED <<removing, withdrawn>>

\* Most of what the program does shows in none of this.
Next == \/ UNCHANGED vars
        \/ \E i \in Images : Appear(i) \/ Withdraw(i) \/ Settle(i) \/ BeginRemove(i) \/ Remove(i)

Spec == Init /\ [][Next]_vars
=============================================================================
