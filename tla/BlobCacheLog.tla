--------------------------- MODULE BlobCacheLog ---------------------------
(****************************************************************************)
(* The log of small entries of the disk blob cache                          *)
(* (src/packages/pikelet-wasm/complete/blob-cache.node.mjs), shared by      *)
(* several processes, together with its only reader: blobCacheGet and       *)
(* blobCachePut of pikelet-artifact-common.js.                              *)
(*                                                                          *)
(* Records go to the newest of a few append-only files, the generations;    *)
(* each process keeps in memory where it has seen which key.  No process    *)
(* locks anything: another one may append, rotate, remove a generation, die *)
(* in the middle of a record, or create a removed generation once more      *)
(* between any two of the file operations below.                            *)
(****************************************************************************)
EXTENDS Integers, Sequences, FiniteSets, FiniteSetsExt

CONSTANTS
    Procs,
    Keys,        \* digests of small entries
    Generations, \* GENERATIONS
    GenCells,    \* the size of a generation that calls for the next, in cells
    MaxLookups,  \* bound: lookups of all processes together
    MaxFaults,   \* bound: deaths, short writes and failed file operations
    None

ASSUME SizesAssumption == Generations \in Nat \ {0} /\ GenCells \in Nat \ {0}
ASSUME BoundsAssumption == MaxLookups \in Nat /\ MaxFaults \in Nat

\* A file is a sequence of cells.  A record is two: its header, which says
\* which key and how many bytes follow, and its data.
Head1(k) == <<k, "header">>
Body(k) == <<k, "data">>
Cells == Keys \X {"header", "data"}

VARIABLES
    files,   \* contents of every log file ever created, oldest first
    names,   \* generation -> the file of that name, an index of files
    index,   \* index: key -> generation, cell (and, as history, the file if
             \*        the process has read the record back there itself)
    handles, \* handles: generation -> file
    current, \* current
    sealed,  \* sealed
    queue,   \* queue: <<key, data>> pairs
    flush,   \* flushSmall: where it is
    look,    \* the lookup the reader has under way
    looked,  \* how many lookups have begun
    faults,
    torn,    \* history: the files a process's start-up scan found to end in a
             \*          torn record
    tornLater \* history: the ones it has found so since, which the code forgets

memory == <<index, handles, current, sealed, queue, flush, torn, tornLater>>
vars == <<files, names, memory, look, looked, faults>>

NoEntries == [k \in Keys |-> None]
Without(f, x) == [y \in DOMAIN f \ {x} |-> f[y]]
With(f, x, v) == [y \in DOMAIN f \cup {x} |-> IF y = x THEN v ELSE f[y]]
\* The records of a batch, one after the other.
Serialized(batch) ==
    [i \in 1 .. 2 * Len(batch) |-> IF i % 2 = 1 THEN Head1(batch[(i + 1) \div 2][1]) ELSE batch[i \div 2][2]]
Newest(gens) == Max(gens \cup {0})

\* scan stops at the first record that does not parse: how many cells it gets
\* through.  A header is taken to be followed by its data whatever follows.
Parsed(cells) ==
    LET Parses(n) == \A i \in 1 .. n : i % 2 = 1 => cells[i][2] = "header"
    IN  Max({n \in 0 .. Len(cells) : n % 2 = 0 /\ Parses(n)})

\* What scan leaves in the index: later records override earlier ones.
Scanned(entries, gen, cells) ==
    [k \in Keys |->
        LET at == {i \in 1 .. Parsed(cells) : i % 2 = 1 /\ cells[i] = Head1(k)}
        IN  IF at = {} THEN entries[k] ELSE [gen |-> gen, at |-> Max(at) + 1, file |-> None]]

\* forgetGen
Forgotten(entries, gen) ==
    [k \in Keys |-> IF entries[k] # None /\ entries[k].gen = gen THEN None ELSE entries[k]]

Off == [phase |-> "off"]
Idle == [phase |-> "idle"]

\* A process that has just started.
Started(p) ==
    /\ index' = [index EXCEPT ![p] = NoEntries]
    /\ handles' = [handles EXCEPT ![p] = <<>>]
    /\ current' = [current EXCEPT ![p] = 0]
    /\ sealed' = [sealed EXCEPT ![p] = FALSE]
    /\ queue' = [queue EXCEPT ![p] = <<>>]
    /\ flush' = [flush EXCEPT ![p] = [phase |-> "start"]]
    /\ torn' = [torn EXCEPT ![p] = {}]
    /\ tornLater' = [tornLater EXCEPT ![p] = {}]
    /\ look' = [look EXCEPT ![p] = Idle]

Init ==
    /\ files = <<>>
    /\ names = <<>>
    /\ index = [p \in Procs |-> NoEntries]
    /\ handles = [p \in Procs |-> <<>>]
    /\ current = [p \in Procs |-> 0]
    /\ sealed = [p \in Procs |-> FALSE]
    /\ queue = [p \in Procs |-> <<>>]
    /\ flush = [p \in Procs |-> [phase |-> "start"]]
    /\ look = [p \in Procs |-> Idle]
    /\ looked = 0
    /\ faults = 0
    /\ torn = [p \in Procs |-> {}]
    /\ tornLater = [p \in Procs |-> {}]

Goto(p, from, to) == flush[p].phase = from /\ flush' = [flush EXCEPT ![p] = to]

(***************************************************************************)
(* smallReady                                                              *)
(***************************************************************************)

\* The generations are listed, and the oldest beyond GENERATIONS removed.
Kept(gens) == {g \in gens : Cardinality({h \in gens : h > g}) < Generations}

ListGens(p) ==
    /\ Goto(p, "start", [phase |-> "scan", todo |-> Kept(DOMAIN names)])
    /\ names' = [g \in Kept(DOMAIN names) |-> names[g]]
    /\ current' = [current EXCEPT ![p] = Newest(DOMAIN names)]
    /\ UNCHANGED <<files, index, handles, sealed, queue, look, looked, faults, torn, tornLater>>

\* One generation after the other is read and indexed; the last decides sealed.
ScanGen(p) ==
    /\ flush[p].phase = "scan" /\ flush[p].todo # {}
    /\ LET g == Min(flush[p].todo)
           there == g \in DOMAIN names
           whole == there => Parsed(files[names[g]]) = Len(files[names[g]])
       IN  /\ index' = [index EXCEPT ![p] = IF there THEN Scanned(@, g, files[names[g]]) ELSE @]
           /\ sealed' = [sealed EXCEPT ![p] = ~whole]
           /\ torn' = [torn EXCEPT ![p] = IF whole THEN @ ELSE @ \cup {names[g]}]
    /\ flush' = [flush EXCEPT ![p].todo = @ \ {Min(@)}]
    /\ UNCHANGED <<files, names, handles, current, queue, tornLater, look, looked, faults>>

Ready(p) ==
    /\ flush[p].phase = "scan" /\ flush[p].todo = {}
    /\ flush' = [flush EXCEPT ![p] = Off]
    /\ UNCHANGED <<files, names, index, handles, current, sealed, queue, look, looked, faults, torn, tornLater>>

(***************************************************************************)
(* blobCacheGet, get, readSmall                                            *)
(***************************************************************************)

Looking(p, from, to) == look[p].phase = from /\ look' = [look EXCEPT ![p] = to]
Miss(k) == [phase |-> "miss", key |-> k]

\* get looks the key up; a generation already open is read through its handle.
Lookup(p, k) ==
    /\ flush[p].phase \notin {"start", "scan"}
    /\ looked < MaxLookups
    /\ looked' = looked + 1
    /\ LET entry == index[p][k]
       IN  Looking(p, "idle",
               IF entry = None THEN Miss(k)
               ELSE IF entry.gen \in DOMAIN handles[p]
               THEN [phase |-> "read", key |-> k, entry |-> entry, file |-> handles[p][entry.gen]]
               ELSE [phase |-> "open", key |-> k, entry |-> entry])
    /\ UNCHANGED <<files, names, memory, faults>>

\* The generation is opened for reading; one that is gone is forgotten.
OpenGen(p) ==
    /\ look[p].phase = "open"
    /\ LET k == look[p].key  g == look[p].entry.gen
       IN  IF g \in DOMAIN names
           THEN /\ handles' = [handles EXCEPT ![p] = With(@, g, names[g])]
                /\ look' = [look EXCEPT ![p] = [phase |-> "read", key |-> k,
                                entry |-> look[p].entry, file |-> names[g]]]
                /\ UNCHANGED index
           ELSE /\ handles' = [handles EXCEPT ![p] = Without(@, g)]
                /\ look' = [look EXCEPT ![p] = Miss(k)]
                /\ index' = [index EXCEPT ![p] = Forgotten(@, g)]
    /\ UNCHANGED <<files, names, current, sealed, queue, flush, torn, tornLater, looked, faults>>

\* enqueue: a key that is in the newest generation is not written again.
Enqueued(p, k, data) ==
    IF index[p][k] # None /\ index[p][k].gen = current[p] THEN queue[p]
    ELSE Append(queue[p], <<k, data>>)

\* flushing ??= ...: a flush is started unless one is under way.
Flushing(p) == IF flush[p] = Off THEN [phase |-> "on"] ELSE flush[p]

\* A short read is a miss; a hit in an older generation is queued for the
\* newest, whatever was read.
ReadEntry(p) ==
    /\ look[p].phase = "read"
    /\ LET k == look[p].key  entry == look[p].entry  cells == files[look[p].file]
       IN  IF entry.at <= Len(cells)
           THEN /\ look' = [look EXCEPT ![p] = [phase |-> "check", key |-> k,
                                data |-> cells[entry.at], entry |-> entry]]
                /\ IF entry.gen # current[p]
                   THEN /\ queue' = [queue EXCEPT ![p] = Enqueued(p, k, cells[entry.at])]
                        /\ flush' = [flush EXCEPT ![p] = Flushing(p)]
                   ELSE UNCHANGED <<queue, flush>>
                /\ UNCHANGED index
           ELSE /\ look' = [look EXCEPT ![p] = Miss(k)]
                /\ index' = [index EXCEPT ![p][k] = None]
                /\ UNCHANGED <<queue, flush>>
    /\ UNCHANGED <<files, names, handles, current, sealed, torn, tornLater, looked, faults>>

\* The handle was closed by forgetGen before the read began.
ReadFails(p) ==
    /\ look[p].phase = "read"
    /\ look[p].entry.gen \notin DOMAIN handles[p]
    /\ look' = [look EXCEPT ![p] = Miss(look[p].key)]
    /\ UNCHANGED <<files, names, memory, looked, faults>>

\* What does not hash to the key is dropped from the cache, and a miss.
CheckHash(p) ==
    LET k == look[p].key
    IN  /\ look[p].phase = "check"
        /\ IF look[p].data = Body(k)
           THEN /\ look' = [look EXCEPT ![p] = [phase |-> "hit", key |-> k, data |-> Body(k)]]
                /\ UNCHANGED index
           ELSE /\ look' = [look EXCEPT ![p] = Miss(k)]
                /\ index' = [index EXCEPT ![p][k] = None]
        /\ UNCHANGED <<files, names, handles, current, sealed, queue, flush, torn, tornLater, looked, faults>>

\* The reader goes on.
Use(p) ==
    /\ Looking(p, "hit", Idle)
    /\ UNCHANGED <<files, names, memory, looked, faults>>

\* A miss is fetched from the pack's source, verified, and put.
Refetch(p) ==
    /\ look[p].phase = "miss"
    /\ queue' = [queue EXCEPT ![p] = Enqueued(p, look[p].key, Body(look[p].key))]
    /\ flush' = [flush EXCEPT ![p] = IF queue'[p] = queue[p] THEN @ ELSE Flushing(p)]
    /\ look' = [look EXCEPT ![p] = Idle]
    /\ UNCHANGED <<files, names, index, handles, current, sealed, torn, tornLater, looked, faults>>

(***************************************************************************)
(* flushSmall and rotate                                                   *)
(***************************************************************************)

At(phase, batch) == [phase |-> phase, batch |-> batch]

\* The newest generation is there, and the batch would not overfill it.
Room(p, batch) ==
    /\ current[p] # 0 /\ ~sealed[p]
    /\ current[p] \in DOMAIN names
    /\ Len(files[names[current[p]]]) + 2 * Len(batch) <= GenCells

\* The loop of flushSmall: everything queued is one batch.
TakeBatch(p) ==
    /\ queue[p] # <<>>
    /\ Goto(p, "on", At(IF Room(p, queue[p]) THEN "open" ELSE "rotate", queue[p]))
    /\ queue' = [queue EXCEPT ![p] = <<>>]
    /\ UNCHANGED <<files, names, index, handles, current, sealed, torn, tornLater, look, looked, faults>>

Drained(p) ==
    /\ queue[p] = <<>>
    /\ Goto(p, "on", Off)
    /\ UNCHANGED <<files, names, index, handles, current, sealed, queue, torn, tornLater, look, looked, faults>>

\* rotate: the generation after the newest that anyone has made.
NextGen(p) ==
    /\ Goto(p, "rotate", At("create", flush[p].batch))
    /\ current' = [current EXCEPT ![p] = Newest(DOMAIN names \cup {@}) + 1]
    /\ UNCHANGED <<files, names, index, handles, sealed, queue, torn, tornLater, look, looked, faults>>

\* The file of generation g, made if there is none.
Make(g) ==
    IF g \in DOMAIN names THEN UNCHANGED <<files, names>>
    ELSE /\ files' = Append(files, <<>>)
         /\ names' = With(names, g, Len(files) + 1)

CreateGen(p) ==
    /\ Goto(p, "create", At("list", flush[p].batch))
    /\ Make(current[p])
    /\ UNCHANGED <<index, handles, current, sealed, queue, torn, tornLater, look, looked, faults>>

\* Mutant: one generation too many is kept.
Old_OffByOne(p) == {g \in DOMAIN names : g < current[p] - Generations}

Old(p) == {g \in DOMAIN names : g <= current[p] - Generations}

\* The directory is listed once more, for what is past the limit.
ListOld(p) ==
    /\ Goto(p, "list", [phase |-> "prune", batch |-> flush[p].batch, todo |-> Old(p)])
    /\ UNCHANGED <<files, names, index, handles, current, sealed, queue, torn, tornLater, look, looked, faults>>

\* One after the other is forgotten and removed, if it is still there.
PruneGen(p) ==
    /\ flush[p].phase = "prune" /\ flush[p].todo # {}
    /\ LET g == Min(flush[p].todo)
       IN  /\ index' = [index EXCEPT ![p] = Forgotten(@, g)]
           /\ handles' = [handles EXCEPT ![p] = Without(@, g)]
           /\ names' = Without(names, g)
           /\ flush' = [flush EXCEPT ![p].todo = @ \ {g}]
    /\ UNCHANGED <<files, current, sealed, queue, torn, tornLater, look, looked, faults>>

Pruned(p) ==
    /\ flush[p].phase = "prune" /\ flush[p].todo = {}
    /\ flush' = [flush EXCEPT ![p] = At("open", flush[p].batch)]
    /\ sealed' = [sealed EXCEPT ![p] = FALSE]
    /\ UNCHANGED <<files, names, index, handles, current, queue, torn, tornLater, look, looked, faults>>

\* fs.open(..., 'a+') makes a file that has been removed meanwhile once more.
OpenForAppend(p) ==
    /\ flush[p].phase = "open"
    /\ Make(current[p])
    /\ flush' = [flush EXCEPT ![p] = [phase |-> "write", batch |-> @.batch, file |-> names'[current[p]]]]
    /\ UNCHANGED <<index, handles, current, sealed, queue, torn, tornLater, look, looked, faults>>

\* The batch is appended; with a fault, only the beginning of it.
WriteBatch(p) ==
    LET cells == Serialized(flush[p].batch)
    IN  /\ flush[p].phase = "write"
        /\ \E n \in 1 .. Len(cells) :
            /\ IF n = Len(cells) THEN UNCHANGED faults
               ELSE faults < MaxFaults /\ faults' = faults + 1
            /\ files' = [files EXCEPT ![flush[p].file] = @ \o SubSeq(cells, 1, n)]
        /\ flush' = [flush EXCEPT ![p].phase = "verify"]
        /\ UNCHANGED <<names, index, handles, current, sealed, queue, torn, tornLater, look, looked>>

\* Where the records of a batch are when it starts after cell number base.
Indexed(p, base) ==
    LET batch == flush[p].batch
        Last1(k) == Max({i \in DOMAIN batch : batch[i][1] = k})
    IN  [k \in Keys |->
            IF \E i \in DOMAIN batch : batch[i][1] = k
            THEN [gen |-> current[p], at |-> base + 2 * Last1(k), file |-> flush[p].file]
            ELSE index[p][k]]

\* Mutant: the batch is taken to be what the file ends in.
VerifyBatch_TrustSize(p) ==
    LET base == Len(files[flush[p].file]) - 2 * Len(flush[p].batch)
    IN  /\ flush[p].phase = "verify"
        /\ IF base >= 0
           THEN index' = [index EXCEPT ![p] = Indexed(p, base)] /\ flush' = [flush EXCEPT ![p] = [phase |-> "on"]]
           ELSE flush' = [flush EXCEPT ![p].phase = "rescan"] /\ UNCHANGED index
        /\ UNCHANGED <<files, names, handles, current, sealed, queue, torn, tornLater, look, looked, faults>>

\* The batch is read back where it should end the file, and then indexed.
VerifyBatch(p) ==
    LET cells == files[flush[p].file]
        batch == Serialized(flush[p].batch)
        base == Len(cells) - Len(batch)
    IN  /\ flush[p].phase = "verify"
        /\ IF base >= 0 /\ SubSeq(cells, base + 1, Len(cells)) = batch
           THEN index' = [index EXCEPT ![p] = Indexed(p, base)] /\ flush' = [flush EXCEPT ![p] = [phase |-> "on"]]
           ELSE flush' = [flush EXCEPT ![p].phase = "rescan"] /\ UNCHANGED index
        /\ UNCHANGED <<files, names, handles, current, sealed, queue, torn, tornLater, look, looked, faults>>

\* The end has moved: the generation is read by name and scanned.  Whether it
\* ends in a torn record is not asked, and sealed stays as it is.
Rescan(p) ==
    LET g == current[p]
        cells == files[names[g]]
    IN  /\ Goto(p, "rescan", [phase |-> "on"])
        /\ index' = [index EXCEPT ![p] = IF g \in DOMAIN names THEN Scanned(@, g, cells) ELSE @]
        /\ tornLater' = [tornLater EXCEPT ![p] =
                            IF g \in DOMAIN names /\ Parsed(cells) # Len(cells)
                            THEN @ \cup {names[g]} ELSE @]
        /\ UNCHANGED <<files, names, handles, current, sealed, queue, torn, look, looked, faults>>

\* A file operation of flushSmall fails: the batch is given up, and what has
\* been queued since waits for the next enqueue.
FlushFails(p) ==
    /\ flush[p].phase \in {"create", "list", "prune", "open", "write", "verify"}
    /\ faults < MaxFaults /\ faults' = faults + 1
    /\ flush' = [flush EXCEPT ![p] = Off]
    /\ UNCHANGED <<files, names, index, handles, current, sealed, queue, torn, tornLater, look, looked>>

\* The process dies; another one starts on the same directory.
Die(p) ==
    /\ flush[p].phase # "start"
    /\ faults < MaxFaults /\ faults' = faults + 1
    /\ Started(p)
    /\ UNCHANGED <<files, names, looked>>

Starting(p) == ListGens(p) \/ ScanGen(p) \/ Ready(p)
Reading(p) == OpenGen(p) \/ ReadEntry(p) \/ ReadFails(p) \/ CheckHash(p) \/ Use(p) \/ Refetch(p)
Writing(p) ==
    \/ TakeBatch(p) \/ Drained(p) \/ NextGen(p) \/ CreateGen(p) \/ ListOld(p) \/ PruneGen(p)
    \/ Pruned(p) \/ OpenForAppend(p) \/ WriteBatch(p) \/ VerifyBatch(p) \/ Rescan(p)

Next ==
    \E p \in Procs :
        \/ Starting(p) \/ Reading(p) \/ Writing(p) \/ FlushFails(p) \/ Die(p)
        \/ \E k \in Keys : Lookup(p, k)

Spec == Init /\ [][Next]_vars

-----------------------------------------------------------------------------
(***************************************************************************)
(* Properties                                                              *)
(***************************************************************************)

Entries == [gen : Nat \ {0}, at : Nat \ {0}, file : DOMAIN files \cup {None}]
Phases == {"start", "scan", "off", "on", "rotate", "create", "list", "prune", "open", "write",
           "verify", "rescan"}

TypeOK ==
    /\ files \in Seq(Seq(Cells))
    /\ DOMAIN names \subseteq Nat \ {0} /\ \A g \in DOMAIN names : names[g] \in DOMAIN files
    /\ index \in [Procs -> [Keys -> Entries \cup {None}]]
    /\ \A p \in Procs : \A g \in DOMAIN handles[p] : handles[p][g] \in DOMAIN files
    /\ current \in [Procs -> Nat]
    /\ sealed \in [Procs -> BOOLEAN]
    /\ queue \in [Procs -> Seq(Keys \X Cells)]
    /\ \A p \in Procs : flush[p].phase \in Phases
    /\ \A p \in Procs : look[p].phase \in {"idle", "open", "read", "check", "hit", "miss"}
    /\ \A p \in Procs : look[p].phase \in {"check", "hit"} => look[p].data \in Cells
    /\ looked \in 0 .. MaxLookups
    /\ faults \in 0 .. MaxFaults
    /\ torn \in [Procs -> SUBSET DOMAIN files]
    /\ tornLater \in [Procs -> SUBSET DOMAIN files]

\* The header's promise: torn writes, two processes appending to one log, and
\* generations removed and made again cost a refetch, never a wrong byte.
NeverAWrongByte ==
    \A p \in Procs : look[p].phase = "hit" => look[p].data = Body(look[p].key)

\* A record its writer has read back is where the index says, in the file it
\* was written to, whoever appended to that file before, between and after.
\* (What was written may itself have been read from a torn record.)
OffsetsRight ==
    \A p \in Procs, k \in Keys :
        index[p][k] # None /\ index[p][k].file # None =>
            files[index[p][k].file][index[p][k].at - 1] = Head1(k)

\* Only the last GENERATIONS files stay, whoever rotates.  One that is older
\* is about to be removed, is left by a rotation that a fault cut short, or
\* has been made again by an append that was late: then it is a newer file
\* than the newest generation, and the next rotation removes it.
OldGenerationsGo ==
    \A g \in DOMAIN names :
        g <= Newest(DOMAIN names) - Generations =>
            \/ \E p \in Procs : flush[p].phase \in {"list", "prune"}
            \/ names[g] > names[Newest(DOMAIN names)]
            \/ faults > 0

\* A process that starts on a torn tail writes to a fresh generation instead:
\* it never appends to a file its start-up scan found torn, however often it
\* rotates and whatever the others do.
TornAtStartIsLeft ==
    \A p \in Procs : flush[p].phase \in {"write", "verify"} => flush[p].file \notin torn[p]

\* Whatever processes share the log, and wherever they die: what is handed out
\* is of the key, the index of each process leads to whole records of the files
\* it knows, and none writes past a tail that was torn when it started
\* (blob-cache.node.mjs 107-270).
LogSound == TypeOK /\ NeverAWrongByte /\ OffsetsRight /\ TornAtStartIsLeft

\* The comment of sealed (blob-cache.node.mjs 114-117) says more: a scan stops
\* at a torn write, so nothing is appended after one, and writing resumes in a
\* fresh generation.  The scan with which flushSmall looks for a batch it did
\* not find at the end (235-243) comes upon torn records too, those of its own
\* short writes first, and what it finds does not reach sealed.
NotPastATornTail ==
    \A p \in Procs :
        flush[p].phase \in {"write", "verify"} => flush[p].file \notin torn[p] \cup tornLater[p]
=============================================================================
