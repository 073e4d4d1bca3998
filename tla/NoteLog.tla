------------------------------ MODULE NoteLog ------------------------------
(***************************************************************************)
(* What a journal is to those who use it: a log of records that only grows *)
(* at its end, by one note at a time.  A note's id is its position, so it  *)
(* never changes; nothing that folds, clears or repairs the files behind   *)
(* the log shows.  Only an explicit replacement starts it over.            *)
(***************************************************************************)
EXTENDS Naturals, Sequences

CONSTANTS
    Notes, \* the notes that may be written
    Seed   \* the record an empty journal starts with

VARIABLES
    log,     \* the records, by id
    reported \* the <<note, id>> pairs writers have been told of

logVars == <<log, reported>>

\* A note has an id when the log holds it there; ids count from 0.
HasId(n, id) == id + 1 \in 1 .. Len(log) /\ log[id + 1] = n

\* There may be no journal yet.
Init == log \in {<<>>, <<Seed>>} /\ reported = {}

Create == log = <<>> /\ log' = <<Seed>> /\ UNCHANGED reported

Write(n) ==
    /\ \A i \in 1 .. Len(log) : log[i] # n
    /\ log' = Append(log, n)
    /\ UNCHANGED reported

Report(n, id) ==
    /\ HasId(n, id)
    /\ reported' = reported \cup {<<n, id>>}
    /\ UNCHANGED log

Replace == log' = <<Seed>> /\ reported' = {}

Next ==
    \/ \E n \in Notes : Write(n)
    \/ \E n \in Notes : \E id \in 0 .. Len(log) : Report(n, id)
    \/ Create
    \/ Replace

Spec == Init /\ [][Next]_logVars
=============================================================================
