------------------------------ MODULE Journal ------------------------------
(***************************************************************************)
(* A journal directory and the processes that write to it: appendNote,     *)
(* compactJournal and initJournal of src/packages/pikelet/src/journal.mjs. *)
(*                                                                         *)
(* Every call that changes the directory is an action of its own, so a     *)
(* process may fail or die before any of them and another may look at what *)
(* it left.  withLock is the abstract mutex of module Mutex, which         *)
(* JournalLock is shown to implement.                                      *)
(*                                                                         *)
(* A chain file is its contents: for every segment of its chain, up to and *)
(* including its own, the records a chain that ends there holds.  Two      *)
(* files have the same contents exactly when they have the same identity,  *)
(* since a layer's manifest pins its base and its parent by hash.          *)
(***************************************************************************)
EXTENDS Naturals, Sequences, SequencesExt

CONSTANTS
    Writers,  \* processes
    MaxDepth, \* MAX_DEPTH: layers on a base
    MaxOps,   \* bound: operations begun by all writers together
    Existing, \* the directory already holds a journal at the start
    Forces,   \* which of FALSE, TRUE a call of initJournal gives for --force
    Seed,     \* the record createJournalFiles starts a journal with
    None

\* A note is told from every other by who wrote it and when.
Notes == Writers \X (0 .. MaxOps)

Files == Nat \X Nat
Contents == Seq(Seq(Notes \cup {Seed}))
States == [gen : Nat, members : Seq(Files)]

ASSUME BoundsAssumption == MaxDepth \in Nat \ {0} /\ MaxOps \in Nat
ASSUME SwitchesAssumption == Existing \in BOOLEAN /\ Forces \subseteq BOOLEAN
ASSUME SeedAssumption == Seed \notin Notes
ASSUME NoneAssumption == None \notin Writers /\ None \notin States

VARIABLES
    journal,   \* journal.json: generation and members, or None
    disk,      \* the chain files, by name
    holder,    \* who is inside withLock, or None
    pc,
    job,       \* the operation each writer is carrying out
    state,     \* the journal state it has read or written
    buf,       \* the contents of the file it is writing
    todo,      \* the files it has yet to remove
    ops,       \* how many operations have been begun
    reported,  \* history: the <<note, id>> pairs appendNote has returned
    replacing  \* history: a forced init has begun to clear the journal and nothing
               \* has been committed since

localVars == <<job, state, buf, todo>>
histVars == <<reported, replacing>>
vars == <<journal, disk, holder, pc, job, state, buf, todo, ops, reported, replacing>>

\* base-GGGG.pikelet is <<g, 0>>, its layer base-GGGG.LLLL.pikelet is <<g, l>>.
Base(g) == <<g, 0>>
LayerFile(s) == <<s.members[1][1], Len(s.members)>>

\* A file that exists and is not (or no longer) whole.
Torn == <<>>

Put(f, contents) == [g \in DOMAIN disk \cup {f} |-> IF g = f THEN contents ELSE disk[g]]
Drop(f) == [g \in DOMAIN disk \ {f} |-> disk[g]]

\* openPikeletChain: every member is there, is a layer of the one below it,
\* and the lowest is a base.
Readable(members) ==
    /\ members # <<>>
    /\ \A i \in DOMAIN members :
        /\ members[i] \in DOMAIN disk
        /\ Len(disk[members[i]]) = i
    /\ \A i \in 1 .. Len(members) - 1 :
        disk[members[i]] = Front(disk[members[i + 1]])

Identity(members) == disk[Last(members)]

\* The records of a chain, by id.
RecordsOf(contents) == IF contents = <<>> THEN <<>> ELSE Last(contents)
Records(members) == RecordsOf(Identity(members))

\* What a layer with one record makes of the chain below it.
WithLayer(contents, note) == Append(contents, Append(RecordsOf(contents), note))

\* chain-global id of a new layer's only record
RowBase(contents) == Len(RecordsOf(Front(contents)))

Init ==
    /\ IF Existing
       THEN /\ journal = [gen |-> 1, members |-> <<Base(1)>>]
            /\ disk = [f \in {Base(1)} |-> <<<<Seed>>>>]
       ELSE journal = None /\ disk = [f \in {} |-> Torn]
    /\ holder = None
    /\ pc = [w \in Writers |-> "idle"]
    /\ job = [w \in Writers |-> None]
    /\ state = [w \in Writers |-> None]
    /\ buf = [w \in Writers |-> Torn]
    /\ todo = [w \in Writers |-> {}]
    /\ ops = 0
    /\ reported = {}
    /\ replacing = FALSE

Goto(w, from, to) == pc[w] = from /\ pc' = [pc EXCEPT ![w] = to]

\* The operation ends, with or without an error, and lets go of the lock.
Done(w) ==
    /\ pc' = [pc EXCEPT ![w] = "idle"]
    /\ job' = [job EXCEPT ![w] = None]
    /\ state' = [state EXCEPT ![w] = None]
    /\ buf' = [buf EXCEPT ![w] = Torn]
    /\ todo' = [todo EXCEPT ![w] = {}]
    /\ holder' = IF holder = w THEN None ELSE holder

Begin(w, operation, to) ==
    /\ ops < MaxOps
    /\ ops' = ops + 1
    /\ Goto(w, "idle", to)
    /\ job' = [job EXCEPT ![w] = operation]
    /\ UNCHANGED <<journal, disk, holder, state, buf, todo, histVars>>

BeginAppend(w) == Begin(w, [op |-> "append", note |-> <<w, ops>>], "lock")

BeginCompact(w) == Begin(w, [op |-> "compact"], "lock")

(***************************************************************************)
(* initJournal                                                             *)
(***************************************************************************)

\* The first look at journal.json; without --force it must not be there.
BeginInit(w, force) ==
    /\ force \/ journal = None
    /\ Begin(w, [op |-> "init", force |-> force], "lookAgain")

\* The second look, after mkdir and makePrivate: a journal is replaced under
\* the lock, a new one is created without it.
LookAgain(w) ==
    /\ Goto(w, "lookAgain", IF journal # None THEN "lock" ELSE "create")
    /\ UNCHANGED <<journal, disk, holder, localVars, ops, histVars>>

ListOldFiles(w) ==
    /\ Goto(w, "listOld", "clearOld")
    /\ todo' = [todo EXCEPT ![w] = DOMAIN disk]
    /\ UNCHANGED <<journal, disk, holder, job, state, buf, ops, histVars>>

\* In no particular order.  The journal starts over, and with it the history,
\* when a forced init removes one of its members.
ClearOldFile(w) ==
    /\ pc[w] = "clearOld"
    /\ \E f \in todo[w] :
        /\ disk' = Drop(f)
        /\ todo' = [todo EXCEPT ![w] = @ \ {f}]
        /\ IF job[w].force /\ f \in ToSet(journal.members)
           THEN reported' = {} /\ replacing' = TRUE
           ELSE UNCHANGED histVars
    /\ UNCHANGED <<journal, holder, pc, job, state, buf, ops>>

OldFilesCleared(w) ==
    /\ todo[w] = {}
    /\ Goto(w, "clearOld", "create")
    /\ UNCHANGED <<journal, disk, holder, localVars, ops, histVars>>

\* createJournalFiles copies a freshly compiled seed base over base-0001.
CreateSeedFile(w) ==
    /\ Goto(w, "create", "writeSeed")
    /\ disk' = Put(Base(1), Torn)
    /\ UNCHANGED <<journal, holder, localVars, ops, histVars>>

WriteSeedFile(w) ==
    /\ Goto(w, "writeSeed", "commitSeed")
    /\ disk' = Put(Base(1), <<<<Seed>>>>)
    /\ UNCHANGED <<journal, holder, localVars, ops, histVars>>

CommitSeed(w) ==
    /\ pc[w] = "commitSeed"
    /\ journal' = [gen |-> 1, members |-> <<Base(1)>>]
    /\ IF job[w].force
       THEN reported' = {} /\ replacing' = FALSE
       ELSE UNCHANGED histVars
    /\ Done(w)
    /\ UNCHANGED <<disk, ops>>

(***************************************************************************)
(* withLock, readState                                                     *)
(***************************************************************************)

Enter(w) ==
    /\ holder = None
    /\ holder' = w
    /\ Goto(w, "lock", IF job[w].op = "init" THEN "listOld" ELSE "readState")
    /\ UNCHANGED <<journal, disk, localVars, ops, histVars>>

\* What follows compactLocked, or its being unnecessary.
AfterFold(w) == IF job[w].op = "append" THEN "clearOrphan" ELSE "end"

\* appendNote compacts at the depth limit; compactJournal unless there is
\* nothing to fold.
ReadState(w) ==
    /\ journal # None
    /\ state' = [state EXCEPT ![w] = journal]
    /\ LET layers == Len(journal.members) - 1
           fold == layers >= (IF job[w].op = "append" THEN MaxDepth ELSE 1)
       IN  Goto(w, "readState", IF fold THEN "compact" ELSE AfterFold(w))
    /\ UNCHANGED <<journal, disk, holder, job, buf, todo, ops, histVars>>

(***************************************************************************)
(* compactLocked                                                           *)
(***************************************************************************)

\* compactChain opens the chain and, having folded it, starts on the new base,
\* over a file of that name if there is one.
FoldChain(w) ==
    /\ Goto(w, "compact", "writeBase")
    /\ Readable(state[w].members)
    /\ buf' = [buf EXCEPT ![w] = <<Records(state[w].members)>>]
    /\ disk' = Put(Base(state[w].gen + 1), Torn)
    /\ UNCHANGED <<journal, holder, job, state, todo, ops, histVars>>

\* Mutant: the folded files are removed before journal.json stops naming them.
WriteBase_RemoveOld(w) ==
    /\ Goto(w, "writeBase", "commitBase")
    /\ disk' = [f \in (DOMAIN disk \ ToSet(state[w].members)) \cup {Base(state[w].gen + 1)} |->
                    IF f = Base(state[w].gen + 1) THEN buf[w] ELSE disk[f]]
    /\ UNCHANGED <<journal, holder, localVars, ops, histVars>>

WriteBase(w) ==
    /\ Goto(w, "writeBase", "commitBase")
    /\ disk' = Put(Base(state[w].gen + 1), buf[w])
    /\ UNCHANGED <<journal, holder, localVars, ops, histVars>>

CommitBase(w) ==
    /\ Goto(w, "commitBase", "removeOld")
    /\ LET next == [gen |-> state[w].gen + 1, members |-> <<Base(state[w].gen + 1)>>]
       IN  /\ journal' = next
           /\ state' = [state EXCEPT ![w] = next]
    /\ todo' = [todo EXCEPT ![w] = ToSet(state[w].members)]
    /\ UNCHANGED <<disk, holder, job, buf, ops, histVars>>

\* The folded files go one by one, base first.
RemoveOld(w) ==
    /\ pc[w] = "removeOld"
    /\ \E f \in todo[w] :
        /\ \A g \in todo[w] : f[2] <= g[2]
        /\ disk' = Drop(f)
        /\ todo' = [todo EXCEPT ![w] = @ \ {f}]
    /\ UNCHANGED <<journal, holder, pc, job, state, buf, ops, histVars>>

OldRemoved(w) ==
    /\ todo[w] = {}
    /\ Goto(w, "removeOld", AfterFold(w))
    /\ UNCHANGED <<journal, disk, holder, localVars, ops, histVars>>

(***************************************************************************)
(* appendNote                                                              *)
(***************************************************************************)

\* Mutant: what an interrupted write left stays.
ClearOrphan_Leave(w) ==
    /\ Goto(w, "clearOrphan", "append")
    /\ UNCHANGED <<journal, disk, holder, localVars, ops, histVars>>

\* A layer left by a write that died before it was committed.
ClearOrphan(w) ==
    /\ Goto(w, "clearOrphan", "append")
    /\ disk' = Drop(LayerFile(state[w]))
    /\ UNCHANGED <<journal, holder, localVars, ops, histVars>>

\* appendLayer: refuses to overwrite, opens the parent chain, writes the file.
CanAppend(w) ==
    /\ LayerFile(state[w]) \notin DOMAIN disk
    /\ Readable(state[w].members)

CreateLayer(w) ==
    /\ Goto(w, "append", "writeLayer")
    /\ CanAppend(w)
    /\ buf' = [buf EXCEPT ![w] = WithLayer(Identity(state[w].members), job[w].note)]
    /\ disk' = Put(LayerFile(state[w]), Torn)
    /\ UNCHANGED <<journal, holder, job, state, todo, ops, histVars>>

\* Mutant: the citation is given out once the layer is on disk, before
\* journal.json names it.
WriteLayer_ReportEarly(w) ==
    /\ Goto(w, "writeLayer", "commitLayer")
    /\ disk' = Put(LayerFile(state[w]), buf[w])
    /\ reported' = reported \cup {<<job[w].note, RowBase(buf[w])>>}
    /\ UNCHANGED <<journal, holder, localVars, ops, replacing>>

WriteLayer(w) ==
    /\ Goto(w, "writeLayer", "commitLayer")
    /\ disk' = Put(LayerFile(state[w]), buf[w])
    /\ UNCHANGED <<journal, holder, localVars, ops, histVars>>

CommitLayer(w) ==
    /\ Goto(w, "commitLayer", "report")
    /\ journal' = [gen |-> state[w].gen,
                   members |-> Append(state[w].members, LayerFile(state[w]))]
    /\ replacing' = FALSE
    /\ UNCHANGED <<disk, holder, localVars, ops, reported>>

\* The note's citation goes back to the caller.
Report(w) ==
    /\ pc[w] = "report"
    /\ reported' = reported \cup {<<job[w].note, RowBase(buf[w])>>}
    /\ Done(w)
    /\ UNCHANGED <<journal, disk, ops, replacing>>

End(w) ==
    /\ pc[w] = "end"
    /\ Done(w)
    /\ UNCHANGED <<journal, disk, ops, histVars>>

\* A call throws (a file system error, the lock's deadline, no journal, an
\* unreadable chain, a file in the way), or the process dies and its lock is
\* broken by the next writer.  Either way what is on disk stays.
Abort(w) ==
    /\ pc[w] # "idle"
    /\ Done(w)
    /\ UNCHANGED <<journal, disk, ops, histVars>>

Step(w) ==
    \/ LookAgain(w) \/ ListOldFiles(w) \/ ClearOldFile(w) \/ OldFilesCleared(w)
    \/ CreateSeedFile(w) \/ WriteSeedFile(w) \/ CommitSeed(w)
    \/ Enter(w) \/ ReadState(w)
    \/ FoldChain(w) \/ WriteBase(w) \/ CommitBase(w) \/ RemoveOld(w) \/ OldRemoved(w)
    \/ ClearOrphan(w) \/ CreateLayer(w) \/ WriteLayer(w) \/ CommitLayer(w)
    \/ Report(w) \/ End(w)

Next == \E w \in Writers :
    \/ BeginAppend(w)
    \/ BeginCompact(w)
    \/ \E force \in Forces : BeginInit(w, force)
    \/ Step(w)
    \/ Abort(w)

Spec == Init /\ [][Next]_vars

-----------------------------------------------------------------------------
(***************************************************************************)
(* Properties                                                              *)
(***************************************************************************)

Jobs == [op : {"append"}, note : Notes] \cup [op : {"compact"}]
        \cup [op : {"init"}, force : BOOLEAN]
Points == {"idle", "lock", "lookAgain", "listOld", "clearOld", "create", "writeSeed",
           "commitSeed", "readState", "compact", "writeBase", "commitBase", "removeOld",
           "clearOrphan", "append", "writeLayer", "commitLayer", "report", "end"}

TypeOK ==
    /\ journal \in States \cup {None}
    /\ DOMAIN disk \subseteq Files
    /\ \A f \in DOMAIN disk : disk[f] \in Contents
    /\ holder \in Writers \cup {None}
    /\ pc \in [Writers -> Points]
    /\ job \in [Writers -> Jobs \cup {None}]
    /\ state \in [Writers -> States \cup {None}]
    /\ buf \in [Writers -> Contents]
    /\ todo \in [Writers -> SUBSET Files]
    /\ ops \in 0 .. MaxOps
    /\ reported \subseteq Notes \X Nat
    /\ replacing \in BOOLEAN

\* At every point at which the process may die, journal.json names a chain
\* that is whole: its members are there, each on top of the one before.  Only
\* a replacement in progress, or one that died, has taken them away.
ChainIntact == journal # None /\ ~replacing => Readable(journal.members)

\* The chain is never deeper than appendLayer accepts.
DepthBounded == journal # None => Len(journal.members) - 1 <= MaxDepth

\* Whatever was interrupted, what journal.json names is a chain that readers
\* open and that the next append accepts.
ChainSound == TypeOK /\ ChainIntact /\ DepthBounded

\* What an interrupted write left behind never blocks a later one: when
\* appendLayer is called there is no file in its way and the chain opens.
NothingInTheWay ==
    ~replacing => \A w \in Writers : pc[w] = "append" => CanAppend(w)

\* The records that the journal shows: a replacement that has begun counts.
Shown ==
    IF replacing THEN <<Seed>> ELSE IF journal = None THEN <<>> ELSE Records(journal.members)

\* The journal is a log of notes that only grows at its end; compactions,
\* crashes and their repair do not show, and a note that a writer was told is
\* written is at the id it was told ("the id stays this note's id as the
\* journal grows and compacts").
Log == INSTANCE NoteLog WITH log <- Shown

ImplementsNoteLog == Log!Spec
=============================================================================
