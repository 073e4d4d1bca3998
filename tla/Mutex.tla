------------------------------- MODULE Mutex -------------------------------
(***************************************************************************)
(* What the journal's writers are promised by withLock: at most one of     *)
(* them is inside, for as long as the promise stands.  It stops standing   *)
(* (Void) when a lock is taken from somebody who is still using it; the    *)
(* comments of journal.mjs name the circumstances in which that may        *)
(* happen.  JournalLock implements this module.                            *)
(***************************************************************************)
CONSTANT Procs

VARIABLES
    inside, \* the processes between the return of link and the end of withLock
    sound   \* the promise still stands

mutexVars == <<inside, sound>>

Init == inside = {} /\ sound = TRUE

Enter(p) ==
    /\ p \notin inside
    /\ sound => inside = {}
    /\ inside' = inside \cup {p}
    /\ UNCHANGED sound

\* A process leaves by releasing, or by dying with the lock in hand.
Leave(p) ==
    /\ p \in inside
    /\ inside' = inside \ {p}
    /\ UNCHANGED sound

Void ==
    /\ sound
    /\ sound' = FALSE
    /\ UNCHANGED inside

Next == Void \/ \E p \in Procs : Enter(p) \/ Leave(p)

Spec == Init /\ [][Next]_mutexVars
=============================================================================
