--------------------------- MODULE CompleteReader ---------------------------
(***************************************************************************)
(* openPikeletFile (src/packages/pikelet-wasm/complete/index.mjs): opening *)
(* a pack, its encoder and scan kernel that arrive in the background,      *)
(* concurrent queries and their verified reads of records, and close(),    *)
(* which releases what was made while queries may be under way.            *)
(*                                                                         *)
(* Bytes are "good", those the manifest commits to, or "bad".  A query is  *)
(* followed from its encoder to the one record it hydrates.                *)
(***************************************************************************)
EXTENDS Integers, Sequences, FiniteSets, SequencesExt

CONSTANTS
    Queries,     \* queries that may be under way at the same time
    Records,     \* number of records
    PageRecords, \* manifest.corpus.pageRecords
    DigestPages, \* DIGEST_PAGE_CACHE
    RecordCache, \* RECORD_CACHE
    Encoders,    \* the ways an encoder may come, among those below
    MaxQueries,  \* bound: queries of all together
    MaxFaults    \* bound: reads that fail or return other bytes

\* inline: within the open; deferred: fetched in the background; lazy: by the
\* first query (prefetchEncoder: false); student: no buffers of its own.
ASSUME EncodersAssumption == Encoders \subseteq {"inline", "deferred", "lazy", "student"}
ASSUME LimitsAssumption ==
    /\ Records \in Nat \ {0} /\ PageRecords \in Nat \ {0} /\ DigestPages \in Nat \ {0}
    /\ RecordCache \in Nat \ {0} /\ MaxQueries \in Nat /\ MaxFaults \in Nat

\* close() too waits for the encoder, among the queries that do.
Release == "release"
ASSUME ReleaseAssumption == Release \notin Queries

Ids == 1 .. Records
PageOf(id) == (id - 1) \div PageRecords
Parts == {"query-interp", "sketch", "tables", "lexical"}

VARIABLES
    kind,         \* how the encoder comes
    cached,       \* options.blobCache was given
    phase,        \* "head", "wave", "encoder", "tables", "open", "release", "scanner", "source", "closed"
    failed,       \* the open failed: what is released is thrown as its error
    wave,         \* reads of the open's concurrent wave still out
    encoder,      \* "none", "loading", "ready", "failed", "freed"
    scanner,      \* "none", "staging", "ready", "failed", "freed"
    source,       \* the file: "open" or "closed"
    waiters,      \* who awaits encoderPending, in the order they began to
    query,        \* each query: where it is, and what it has in hand
    digestPages,  \* digestPages, least recently used first: numbers of fetches
    fetches,      \* the fetches of digest pages so far
    recordCache,  \* recordCache, least recently used first: ids
    queries,
    faults,
    causes,       \* history: for each query, faults and closing when it began
    answers,      \* history: the bytes of the records queries returned
    freedUse      \* history: something read a freed encoder or scanner

resourceVars == <<encoder, scanner, source, waiters>>
cacheVars == <<digestPages, fetches, recordCache>>
boundVars == <<queries, faults, causes>>
histVars == <<answers, freedUse>>
vars == <<kind, cached, phase, failed, wave, resourceVars, query, cacheVars, boundVars, histVars>>

Idle == [at |-> "idle", id |-> 0, fetch |-> 0, bytes |-> "none"]

Init ==
    /\ kind \in Encoders /\ cached \in BOOLEAN
    /\ phase = "head" /\ failed = FALSE /\ wave = {}
    /\ encoder = "none" /\ scanner = "none" /\ source = "open" /\ waiters = <<>>
    /\ query = [q \in Queries |-> Idle]
    /\ digestPages = <<>> /\ fetches = <<>> /\ recordCache = <<>>
    /\ queries = 0 /\ faults = 0 /\ causes = [q \in Queries |-> 0]
    /\ answers = {} /\ freedUse = FALSE

\* A read gives bytes, or fails when the file is closed or the host or disk does.
CanFail == source = "closed" \/ faults < MaxFaults
Fail == CanFail /\ faults' = IF source = "closed" THEN faults ELSE faults + 1
Read == source = "open" /\ UNCHANGED faults

(***************************************************************************)
(* Opening                                                                 *)
(***************************************************************************)

BeginRelease(isFailure) ==
    /\ failed' = isFailure
    /\ phase' = "release"
    /\ waiters' = IF encoder = "none" THEN waiters ELSE Append(waiters, Release)

OpenFails(from) ==
    /\ phase = from /\ Fail
    /\ BeginRelease(TRUE)
    /\ UNCHANGED <<kind, cached, wave, encoder, scanner, source, query, cacheVars, queries, causes, histVars>>

\* Header, manifest against the identity, segment table.
ReadHead ==
    /\ phase = "head" /\ Read
    /\ phase' = "wave" /\ wave' = Parts
    /\ UNCHANGED <<kind, cached, failed, resourceVars, query, cacheVars, queries, causes, histVars>>

\* One of the wave's reads is in; with the last one the open goes on.
ReadPart(part) ==
    /\ part \in wave /\ wave' = wave \ {part}
    /\ IF phase = "wave"
       THEN /\ Read
            /\ IF wave' # {}
               THEN UNCHANGED <<phase, encoder>>
               ELSE /\ phase' = IF kind = "inline" THEN "encoder" ELSE "tables"
                    /\ encoder' = IF kind \in {"inline", "deferred"} THEN "loading" ELSE encoder
       ELSE UNCHANGED <<phase, encoder, faults>>
    /\ UNCHANGED <<kind, cached, failed, scanner, source, waiters, query, cacheVars, queries, causes, histVars>>

\* The first that fails fails the open; the others are left to end.
PartFails(part) ==
    /\ part \in wave /\ wave' = wave \ {part}
    /\ phase = "wave" /\ Fail
    /\ BeginRelease(TRUE)
    /\ UNCHANGED <<kind, cached, encoder, scanner, source, query, cacheVars, queries, causes, histVars>>

\* An encoder within the open is waited for.
EncoderOpened ==
    /\ phase = "encoder" /\ encoder \in {"ready", "failed"}
    /\ IF encoder = "ready"
       THEN phase' = "tables" /\ UNCHANGED <<failed, waiters>>
       ELSE BeginRelease(TRUE)
    /\ UNCHANGED <<kind, cached, wave, encoder, scanner, source, query, cacheVars, boundVars, histVars>>

\* The scan kernel is staged in the background, where the corpus warrants one;
\* then the corpus tables are checked.
StageScanner ==
    /\ phase = "tables" /\ scanner = "none"
    /\ scanner' = "staging"
    /\ UNCHANGED <<kind, cached, phase, failed, wave, encoder, source, waiters, query, cacheVars, boundVars, histVars>>

Opened ==
    /\ phase = "tables" /\ phase' = "open"
    /\ UNCHANGED <<kind, cached, failed, wave, resourceVars, query, cacheVars, boundVars, histVars>>

(***************************************************************************)
(* What arrives in the background                                          *)
(***************************************************************************)

\* From the file or the blob cache, against the segment's digest and the
\* slices read at open; then the kernel, and its verification vectors.
EncoderLoads ==
    /\ encoder = "loading"
    /\ \/ /\ Read \/ (cached /\ UNCHANGED faults)
          /\ encoder' = "ready"
       \/ Fail /\ encoder' = "failed"
    /\ UNCHANGED <<kind, cached, phase, failed, wave, scanner, source, waiters, query, cacheVars, queries, causes, histVars>>

\* The engine's scan kernel is staged, or cannot be: the JS scan serves then.
ScannerStaged ==
    /\ scanner = "staging"
    /\ scanner' \in {"ready", "failed"}
    /\ UNCHANGED <<kind, cached, phase, failed, wave, encoder, source, waiters, query, cacheVars, boundVars, histVars>>

(***************************************************************************)
(* A query                                                                 *)
(***************************************************************************)

Goto(q, at) == query' = [query EXCEPT ![q].at = at]

\* What could make a query fail: something since it began.
Cause == faults + (IF phase \in {"release", "scanner", "source", "closed"} THEN 1 ELSE 0)

Query(q) ==
    /\ query[q].at = "idle" /\ phase = "open"
    /\ queries < MaxQueries /\ queries' = queries + 1
    /\ causes' = [causes EXCEPT ![q] = Cause]
    /\ IF kind = "student"
       THEN Goto(q, "lexical") /\ UNCHANGED <<encoder, waiters>>
       ELSE /\ Goto(q, "encode")
            /\ encoder' = IF encoder = "none" THEN "loading" ELSE encoder
            /\ waiters' = Append(waiters, q)
    /\ UNCHANGED <<kind, cached, phase, failed, wave, scanner, source, cacheVars, faults, histVars>>

\* Mutant: a failed encoder's error does not reach those who wait for it.
Encode_Swallow(q) ==
    /\ encoder # "loading" /\ waiters # <<>> /\ Head(waiters) = q
    /\ waiters' = Tail(waiters)
    /\ Goto(q, IF encoder = "failed" THEN "encode" ELSE "lexical")
    /\ freedUse' = (freedUse \/ encoder = "freed")
    /\ UNCHANGED <<kind, cached, phase, failed, wave, encoder, scanner, source, cacheVars, boundVars, answers>>

\* encoderPending has settled: its reactions run in the order they were made.
\* The encoder runs to the end of the text without a pause.
Encode(q) ==
    /\ encoder # "loading" /\ waiters # <<>> /\ Head(waiters) = q
    /\ waiters' = Tail(waiters)
    /\ Goto(q, IF encoder = "failed" THEN "failed" ELSE "lexical")
    /\ freedUse' = (freedUse \/ encoder = "freed")
    /\ UNCHANGED <<kind, cached, phase, failed, wave, encoder, scanner, source, cacheVars, boundVars, answers>>

\* The kernel refuses once it is disposed; without it the JS scan runs.
Scan(q) ==
    /\ Goto(q, IF scanner = "freed" THEN "failed" ELSE "rows")
    /\ UNCHANGED freedUse

\* The lexical index answers, and the resident scan runs at once.
LexicalRead(q) ==
    /\ query[q].at = "lexical" /\ Read
    /\ Scan(q)
    /\ UNCHANGED <<kind, cached, phase, failed, wave, resourceVars, cacheVars, queries, causes, answers>>

ReadFails(q) ==
    /\ query[q].at \in {"lexical", "rows", "record"} /\ Fail
    /\ Goto(q, "failed")
    /\ UNCHANGED <<kind, cached, phase, failed, wave, resourceVars, cacheVars, queries, causes, histVars>>

Answer(q, bytes) ==
    /\ query' = [query EXCEPT ![q] = Idle]
    /\ answers' = answers \cup {bytes}

Touched(seq, x) == Append(RemoveFirst(seq, x), x)

\* One entry over the limit: the least recently used one goes.
Bounded(seq, n) == IF Len(seq) > n THEN Tail(seq) ELSE seq

\* pageDigests: the page in hand, the fetch under way, or a new fetch.
AwaitPage(q, id, bytes) ==
    LET known == {f \in ToSet(digestPages) : fetches[f].page = PageOf(id)}
        next == Len(fetches) + 1
        fetch == IF known = {} THEN next ELSE CHOOSE f \in known : TRUE
    IN  /\ query' = [query EXCEPT ![q] = [at |-> "page", id |-> id, fetch |-> fetch, bytes |-> bytes]]
        /\ digestPages' = IF known = {} THEN Bounded(Append(digestPages, next), DigestPages)
                          ELSE Touched(digestPages, fetch)
        /\ fetches' = IF known = {} THEN Append(fetches, [page |-> PageOf(id), state |-> "pending"])
                      ELSE fetches

\* The rows are in and verified; the record that comes first is hydrated.
\* With a blob cache its digest is wanted first, without one its bytes are.
RowsRead(q) ==
    /\ query[q].at = "rows" /\ Read
    /\ \E id \in Ids :
        IF id \in ToSet(recordCache)
        THEN /\ recordCache' = Touched(recordCache, id)
             /\ Answer(q, "good")
             /\ UNCHANGED <<digestPages, fetches>>
        ELSE /\ IF cached
                THEN AwaitPage(q, id, "none")
                ELSE /\ query' = [query EXCEPT ![q].at = "record", ![q].id = id]
                     /\ UNCHANGED <<digestPages, fetches>>
             /\ UNCHANGED <<recordCache, answers>>
    /\ UNCHANGED <<kind, cached, phase, failed, wave, resourceVars, queries, causes, freedUse>>

\* The digest page is in: from the blob cache, or read and verified.
PageRead(f) ==
    /\ fetches[f].state = "pending"
    /\ Read \/ (cached /\ UNCHANGED faults)
    /\ fetches' = [fetches EXCEPT ![f].state = "ok"]
    /\ UNCHANGED <<kind, cached, phase, failed, wave, resourceVars, query, digestPages, recordCache, queries, causes, histVars>>

\* Mutant: the rejected promise stays in the cache.
PageFails_Keep(f) ==
    /\ fetches[f].state = "pending" /\ Fail
    /\ fetches' = [fetches EXCEPT ![f].state = "failed"]
    /\ UNCHANGED <<kind, cached, phase, failed, wave, resourceVars, query, digestPages, recordCache, queries, causes, histVars>>

\* A page that could not be read or verified is evicted, so that the next
\* hydration tries again; on a hash mismatch whatever fetch has its place is.
PageFails(f) ==
    /\ fetches[f].state = "pending" /\ Fail
    /\ fetches' = [fetches EXCEPT ![f].state = "failed"]
    /\ \E g \in {f} \cup {h \in ToSet(digestPages) : fetches[h].page = fetches[f].page} :
        digestPages' = RemoveFirst(digestPages, g)
    /\ UNCHANGED <<kind, cached, phase, failed, wave, resourceVars, query, recordCache, queries, causes, histVars>>

\* cacheRecord
Keep(id) == recordCache' = Bounded(Touched(recordCache, id), RecordCache)

\* The record's bytes against its digest in the page.
CheckRecord(q, bytes) ==
    IF bytes = "good"
    THEN Keep(query[q].id) /\ Answer(q, bytes)
    ELSE Goto(q, "failed") /\ UNCHANGED <<recordCache, answers>>

\* The digest is known: the record may be in the blob cache, is still to be
\* read, or is there to be checked.
HavePage(q) ==
    /\ query[q].at = "page" /\ fetches[query[q].fetch].state # "pending"
    /\ IF fetches[query[q].fetch].state = "failed"
       THEN Goto(q, "failed") /\ UNCHANGED <<recordCache, answers>>
       ELSE IF query[q].bytes = "none"
       THEN \/ Keep(query[q].id) /\ Answer(q, "good")
            \/ Goto(q, "record") /\ UNCHANGED <<recordCache, answers>>
       ELSE CheckRecord(q, query[q].bytes)
    /\ UNCHANGED <<kind, cached, phase, failed, wave, resourceVars, digestPages, fetches, boundVars, freedUse>>

\* Its bytes are in, good or not.
RecordRead(q) ==
    /\ query[q].at = "record" /\ source = "open"
    /\ \E bytes \in {"good", "bad"} :
        /\ IF bytes = "bad" THEN Fail ELSE Read
        /\ IF cached
           THEN CheckRecord(q, bytes) /\ UNCHANGED <<digestPages, fetches>>
           ELSE AwaitPage(q, query[q].id, bytes) /\ UNCHANGED <<recordCache, answers>>
    /\ UNCHANGED <<kind, cached, phase, failed, wave, resourceVars, queries, causes, freedUse>>

Throw(q) ==
    /\ query[q].at = "failed" /\ query' = [query EXCEPT ![q] = Idle]
    /\ UNCHANGED <<kind, cached, phase, failed, wave, resourceVars, cacheVars, boundVars, histVars>>

(***************************************************************************)
(* close(), and what an open that failed does                              *)
(***************************************************************************)

Close ==
    /\ phase = "open"
    /\ BeginRelease(FALSE)
    /\ UNCHANGED <<kind, cached, wave, encoder, scanner, source, query, cacheVars, boundVars, histVars>>

\* Mutant: what is not there yet is not waited for.
ReleaseEncoder_AtOnce ==
    /\ phase = "release"
    /\ waiters' = SelectSeq(waiters, LAMBDA w : w # Release)
    /\ encoder' = IF encoder = "ready" THEN "freed" ELSE encoder
    /\ phase' = "scanner"
    /\ UNCHANGED <<kind, cached, failed, wave, scanner, source, query, cacheVars, boundVars, histVars>>

\* An encoder on its way is waited for, so that it does not outlive the reader.
ReleaseEncoder ==
    /\ phase = "release"
    /\ IF encoder = "none" THEN UNCHANGED waiters
       ELSE /\ encoder # "loading" /\ waiters # <<>> /\ Head(waiters) = Release
            /\ waiters' = Tail(waiters)
    /\ encoder' = IF encoder = "ready" THEN "freed" ELSE encoder
    /\ phase' = "scanner"
    /\ UNCHANGED <<kind, cached, failed, wave, scanner, source, query, cacheVars, boundVars, histVars>>

ReleaseScanner ==
    /\ phase = "scanner" /\ scanner # "staging"
    /\ scanner' = IF scanner = "ready" THEN "freed" ELSE scanner
    /\ phase' = "source"
    /\ UNCHANGED <<kind, cached, failed, wave, encoder, source, waiters, query, cacheVars, boundVars, histVars>>

\* The sketch's window is closed, and then the file, which waits for the reads
\* it has begun.
CloseSource ==
    /\ phase = "source" /\ phase' = "closed"
    /\ source' = "closed"
    /\ UNCHANGED <<kind, cached, failed, wave, encoder, scanner, waiters, query, cacheVars, boundVars, histVars>>

OpenStep ==
    \/ ReadHead \/ EncoderOpened \/ StageScanner \/ Opened
    \/ \E part \in Parts : ReadPart(part) \/ PartFails(part)
    \/ \E from \in {"head", "tables"} : OpenFails(from)
BackgroundStep ==
    \/ EncoderLoads \/ ScannerStaged
    \/ \E f \in DOMAIN fetches : PageRead(f) \/ PageFails(f)
QueryStep(q) ==
    \/ Encode(q) \/ LexicalRead(q) \/ ReadFails(q) \/ RowsRead(q) \/ HavePage(q)
    \/ RecordRead(q) \/ Throw(q)
ReleaseStep == ReleaseEncoder \/ ReleaseScanner \/ CloseSource

Next ==
    \/ OpenStep \/ BackgroundStep \/ ReleaseStep \/ Close
    \/ \E q \in Queries : Query(q) \/ QueryStep(q)

\* Reads of a file end, in bytes or an error, and promises are continued.
Fairness ==
    /\ WF_vars(BackgroundStep) /\ WF_vars(ReleaseStep)
    /\ \A q \in Queries : WF_vars(QueryStep(q))
Spec == Init /\ [][Next]_vars /\ Fairness

-----------------------------------------------------------------------------
(***************************************************************************)
(* Properties                                                              *)
(***************************************************************************)

Places == {"idle", "encode", "lexical", "rows", "page", "record", "failed"}

TypeOK ==
    /\ encoder \in {"none", "loading", "ready", "failed", "freed"}
    /\ scanner \in {"none", "staging", "ready", "failed", "freed"}
    /\ \A q \in Queries : query[q].at \in Places /\ query[q].id \in Ids \cup {0}
    /\ Len(digestPages) <= DigestPages /\ ToSet(digestPages) \subseteq DOMAIN fetches
    /\ Len(recordCache) <= RecordCache /\ ToSet(recordCache) \subseteq Ids
    /\ \A w \in ToSet(waiters) : w = Release \/ query[w].at = "encode"

\* No query returns bytes of a record other than the committed ones, whatever
\* the reads of the record and of its digests gave, in either order of the two.
OnlyVerifiedRecords == answers \subseteq {"good"}

\* "The query surface refuses use after close instead of reading through a
\* freed encoder": also for queries that were under way when close was called,
\* at whatever point they were.
NoReadThroughFreed == ~freedUse

\* A query fails only for something that happened since it began: a fetch that
\* failed for an earlier one is not served to it again.  (A failed encoder is:
\* its promise stays, and every later query fails.)
FailuresHaveACause ==
    \A q \in Queries :
        query[q].at = "failed" => encoder = "failed" \/ Cause > causes[q]

\* A query is answered with what the manifest commits to, or fails for a reason
\* of its own.
AnswersHonest == OnlyVerifiedRecords /\ FailuresHaveACause

\* What the reader made is released when close() or a failed open is done, also
\* what was still on its way at the time.
EverythingReleased ==
    phase = "closed" =>
        encoder \notin {"loading", "ready"} /\ scanner \notin {"staging", "ready"} /\ source = "closed"

\* Nothing is freed while it is in use, and everything is in the end.
FreedOnceUnused == TypeOK /\ NoReadThroughFreed /\ EverythingReleased

\* close() ends, and so does every query, whichever of them waits for which.
EverythingEnds ==
    /\ phase = "release" ~> phase = "closed"
    /\ \A q \in Queries : query[q].at # "idle" ~> query[q].at = "idle"
=============================================================================
