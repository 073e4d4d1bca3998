----------------------------- MODULE VectorStore -----------------------------
(***************************************************************************)
(* What an index promises its caller, whatever graph lies below: an id     *)
(* names the vector it was handed out for until it is deleted, no id is    *)
(* handed out twice, and a snapshot brings back what was live when it was  *)
(* taken, into the same store or another one. Closed, it holds nothing and *)
(* takes nothing.                                                          *)
(***************************************************************************)
EXTENDS Integers

CONSTANT Vectors

VARIABLES live,   \* id -> vector, of the ids that are not deleted
          next,   \* the next id to hand out
          saved,  \* the last snapshot: a record of both
          closed

vars == <<live, next, saved, closed>>

\* There is a snapshot of one vector from before.
Init == /\ closed = TRUE /\ live = <<>> /\ next = 0
        /\ \E v \in Vectors : saved = [live |-> [i \in {0} |-> v], next |-> 1]

Put == /\ next' = next + 1
       /\ \E v \in Vectors :
            live' = [i \in DOMAIN live \union {next} |-> IF i = next THEN v ELSE live[i]]
       /\ UNCHANGED saved

\* Several at once, with consecutive ids.
PutTwo == /\ next' = next + 2
          /\ \E v, w \in Vectors :
               live' = [i \in DOMAIN live \union {next, next + 1} |->
                          IF i = next THEN v ELSE IF i = next + 1 THEN w ELSE live[i]]
          /\ UNCHANGED saved

Drop(id) == /\ id \in DOMAIN live
            /\ live' = [i \in DOMAIN live \ {id} |-> live[i]]
            /\ UNCHANGED <<next, saved>>

Save == saved' = [live |-> live, next |-> next] /\ UNCHANGED <<live, next>>

Load == live' = saved.live /\ next' = saved.next /\ UNCHANGED saved

\* It may be saved as it is closed.
Close == /\ closed' = TRUE /\ live' = <<>> /\ next' = 0
         /\ saved' \in {saved, [live |-> live, next |-> next]}

\* A store is opened empty, with two vectors, or as it was saved.
Open == closed' = FALSE /\ (PutTwo \/ Load \/ UNCHANGED <<live, next, saved>>)

Use == \/ Put
       \/ PutTwo
       \/ \E id \in DOMAIN live : Drop(id)
       \/ Save
       \/ Load
Next == \/ ~closed /\ Use /\ UNCHANGED closed
        \/ ~closed /\ Close
        \/ closed /\ Open

Spec == Init /\ [][Next]_vars
=============================================================================
