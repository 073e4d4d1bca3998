# Formal models of Pikelet

Pikelet packs a searchable corpus (index, texts, query encoder, calibration)
into one immutable file that is read in place, from disk or over HTTP ranges.
Packs grow by *layers*: a layer is a file of its own that adds records to, or
deletes records from, the chain below it. A *journal* is a directory holding
such a chain, to which coding agents append notes through the `pikelet mcp`
server while other sessions write to it and compact it. Around this there are
a mutable index with an HNSW engine, the builder that makes packs and whole
search sites from sources, and the workers that serve them.

This directory holds TLA+ models of these parts. TLC checks them on small
instances; TLAPS proves theorems about some of them for every value of the
constants. Line numbers are those of the sources below `src/packages/`;
`PROJECT.json` maps every definition to the lines it stands for.

## The system's parts

| Part | State it keeps | What is hard | What makes it correct | Modules |
|---|---|---|---|---|
| Journal lock (`pikelet/src/journal.mjs` 108-216) | the files `.lock`, `.lock.break` | processes whose every file operation is a step; deaths; staleness by age or pid | one holder at a time; a dead holder never blocks for good | JournalLock, Mutex |
| Journal directory (`journal.mjs`) | `journal.json`, chain files | a crash between any two file operations, what it leaves; two inits | `journal.json` names a whole chain; a reported note is never lost or renumbered | Journal, NoteLog |
| Journal in the MCP server (`pikelet/src/mcp.mjs` 635-763) | the open chain, its members | opening runs without the lock, member by member | the view is the log at some moment, moves only forward, holds what was reported | JournalServer |
| MCP loop and mounts (`mcp.mjs` 1042-1254) | mounts in flight, engines, session | mounts run while requests are answered; grace period; partial failure | a call waits for every mount; a provisional list is followed up; the exit status tells | McpServer, ServedPacks |
| Layered profile (`pikelet-wasm/complete/layer-*.mjs`, `pikelet/src/append.mjs`, `compact.mjs`) | immutable artifacts | forks, deletions and replacements on both sides, ids reused above a fork | readers accept what tools write; a citation goes on naming its record | LayerChain |
| Chain reader, locator, layer encoder | artifacts and where they are | redirects, moved files, layers of another make | only the chain that was meant is mounted | ChainMount, LayerChain |
| Blob cache (`complete/blob-cache.node.mjs`) | log generations, entry files, a reader's index | torn records, concurrent appends, rotations and evictions | "costs a refetch, never a wrong byte" | BlobCacheLog, BlobCacheFiles, BlobCache |
| HTTP range sources (`complete/sources.mjs`) | resolved address, pinned ETag, full copy | renewal, retries and fallback shared by concurrent reads | all bytes come from one artifact | HttpRangeSource |
| Complete reader (`complete/index.mjs`) | lazy sections, encoder, scanner, caches | close while a query runs; failures while opening | verified records only; nothing is used once freed | CompleteReader, Container, Lexical, Retrieval |
| Pikelet core and engine (`src/core/pikelet-core.js`, `engine/float_hnsw.hpp`) | the graph, both id maps | deletion, compaction with repair, ids that outlive rows | an id names its vector; what may be exported imports | Hnsw, PikeletIndex, VectorStore |
| Range and sketch artifacts (`pikelet-artifact-*.js`) | caches of a reader | concurrent searches over shared caches; staged opening | the published index answers as the engine would | RangeArtifact, SketchArtifact, SearchArtifacts |
| Ingestion (`pikelet/src/ingest.mjs`) | queue, seen set, budget | redirects, cut-offs, merged chunks | nothing lost, every chunk says where it is from | Crawl, Chunks |
| Embedding workers (`embed.mjs`, `embed-worker.mjs`) | rows dealt, vectors | a worker fails or ends early | a vector is at its own row | EmbedPool |
| Builder and CLI (`build.mjs`, `cli.mjs`, `complete-build.mjs`, `calibrate.mjs`) | directories, files, a fit | a failure in any step, deaths | an old project survives; a pack passes its own tests | SiteBuild, ProjectInstall, CompleteBuild, Calibration |
| Workers (`templates`, `examples/legacy`) | globals, a bucket | resets and restores between two awaits of a request | answers from one load; what was acknowledged is kept | SearchWorker, ReferenceWorker |
| Docusaurus plugin and client, benchmarks, other examples, docs | | | | not modelled |

The parts call each other top down: the MCP server calls `appendNote` and
opens chains with `openPikeletChain`; `appendNote` and `compactJournal` run
inside `withLock` and call `appendLayer` and `compactChain`; those open the
chain they extend. An open pack reads through a source, and a source through
the blob cache. The builder uses the core to make what the readers open.
Processes share files only.

## Modules

| Module | Role |
|---|---|
| `Mutex`, `NoteLog`, `VectorStore` | abstract: what the lock, the journal and the index promise |
| `JournalLock`, `Journal`, `JournalServer` | the lock; the journal over it; servers that keep it open (EXTENDS Journal) |
| `McpServer` | the protocol loop with its mounts |
| `LayerChain`, `ChainMount`, `Container`, `Lexical`, `ServedPacks` | what files say and become |
| `PackFiles` | EXTENDS the previous row: one of them at a time |
| `BlobCacheLog`, `BlobCacheFiles`, `BlobCache` | the two stores of the cache, and both |
| `HttpRangeSource`, `CompleteReader` | reading |
| `Hnsw`, `PikeletIndex`, `RangeArtifact`, `SketchArtifact`, `SearchArtifacts` | the engine, the index, its two published forms, all of them |
| `Crawl`, `Chunks`, `EmbedPool`, `ProjectInstall`, `SiteBuild` | the stages of a site's build, and the build |
| `Calibration`, `CompleteBuild` | `pikelet compile` |
| `SearchWorker`, `ReferenceWorker`, `Retrieval`, `Site` | serving; Site EXTENDS all that is about a site |
| `JournalLockProofs`, `JournalProofs`, `BlobCacheProofs`, `HttpRangeSourceProofs`, `CompleteReaderProofs`, `LayerChainProofs`, `McpServerProofs`, `SiteBuildProofs` | theorems |
| `MC...` | instances for TLC, where a .cfg cannot say them |

Where several components share no memory, one run holds them and its first
state chooses which one it is about (`part` of PackFiles and Site, `kind` of
BlobCache): the components are those of their own modules, unchanged.

### JournalLock

A file is the holder record in it, or `None`. A record is the pair of its
process and the number of the call, since its token is random. `Seeking`,
`Holding` and `Breaking` are the parts of the code between the start of
`withLock` and the link, between the link and the release, and between the
link of `.lock.break` and its removal. A reading (`raw`, `other`) is kept until
it is used, and any number of steps of others may come in between.

Time is abstract. `stale` and `staleBreak` hold the records for which
`isStaleLock` answers true; a record gets there when its process dies (unless
its pid is taken over by another) or when its age passes the limit, which
`AgeLock` and `AgeBreak` let happen at any moment, to the living and the dead.
`GiveUp` is the deadline of the wait and may come in any round.

Exclusion is not unconditional and the code does not say it is. `windows`
records how it may be lost: a breaker's `.lock.break` is removed while it is
at work (`breakRobbed`), or a live holder's record ages (`holderAged`). Both
need a live process to stall, for 10 seconds in the first case and for
`STALE_LOCK_MS` in the second. `ExclusiveAccess` says exclusion holds while
neither has happened; the death of a breaker alone does not break it.
`Journal` does not repeat the protocol: it enters and leaves the lock in one
step each, which `ImplementsMutex` (checked and proved) entitles it to.

### Journal and JournalServer

A chain file is its contents, the list of its chain's segments, so that "layer
*n* is built on this very parent" is that the parent's contents are all but the
last segment: the hashes in a layer's manifest pin exactly that. A file in the
middle of being written is `Torn`. Every `fs` call that changes the directory
is an action: the seed base, `journal.json`, each removal, each layer. `Abort`
ends a call anywhere, as an exception or as the process's death does; what it
wrote stays. `journal.json` is replaced by a rename, one step (`writeState`).

`reported` is the history of what `appendNote` returned; `replacing` holds
between the first removal by a forced init of a file the journal needs and the
next commit. During that time, and after a forced init that died in it, the
journal is not readable; every property is about the rest of the time.

A server's `mounted` chain is its contents when it was opened: files stay
readable when they are removed (as on Linux, which the comment at `mcp.mjs`
682-683 relies on). `call` records what had been reported before the call came
in and whether its check or reopen succeeded. `OpenFails` covers every way in
which the refresh and the reopen may fail; both keep the chain that is open.
`ViewNeverShrinks` compares the records a server shows before and after a step,
while the journal its chain is of has not been replaced: after a forced init
the old chain stays open until the next call, and what replaces it is shorter.
`present` and `InBounds` only bound a run; they stand for no code.

### LayerChain

An artifact never changes once it is written, so the state is the sequence
`packs` of the artifacts written so far, and an artifact's identity is its place
in it. A layer's identity covers its parent's, and so fixes the whole chain
below it: `members` is that chain, base first, the artifact itself last. Any
artifact may be a parent or a head at any time, which is how forks come about.
A record is known by the append or compile that wrote it (`FreshRows`); rebase
and compact copy it, and no property needs more of its content than that.

| Definition | Code |
|---|---|
| `Owns`, `OwnerOf`, `Row` | interval table and `ownerOf` |
| `Supersessions`, `Immediate`, `Latest`, `Current` | `buildSupersessionMap`, `resolveSupersession` |
| `LinkAccepted`, `Opens` | `validateAgainstParent`, `openPikeletChain` |
| `AppendLayer` | `planLayer`, `buildLayerSegments` |
| `Rebase`, `Delta`, `ForkRowBase`, `Moved` | `rebaseLayer`, `planRebase`, `forkPoint` |
| `Compact`, `LineageOf`, `LineageAccepted` | `compactChain`, `planCompaction`, `buildLineageSegment` |
| `ResolveCitation`, `TranslateCitation` | `resolveCitation`, `translateCitation` |

The mask of a pack is its cumulative bitset; `rebased` is a history variable
with the layer and the head of the rebase that wrote it. Limits that a user may
lower by a flag (`--max-depth`) only refuse more often and are left out here.

### ChainMount, Container, Lexical, ServedPacks

`ChainMount` is what is in the files of a chain and where they are: what append
puts into a layer and what it refuses (`Appendable`, `Embeds`, `DriftAllowed`),
how `walkToBase` finds the members from the head along parent locators,
redirects, shelves and operator mappings, what `validateLayerObject` and
`openPikeletChain` demand. An artifact stands for its identity, which is a
digest over all of it. `MountSound` says that whatever the addresses lead to,
what mounts is the chain that was written and of one make.

`Container` builds a `.pikelet` file from its segments and reads it again, with
every segment of each profile there or not; a digest is taken for the bytes it
is of. An encoder comes in the file as tables or as a transformer, or from the
host: `EncoderSoundFor` says that whatever the open admits embeds as the check
vectors of the manifest say, or is refused before a query is answered. `Lexical` is the lexical segment and both its readers: the lazy one's
`findTerm` aims by hash into windows of a sorted table, through two caches of
reads that are still on their way, and a read may fail while others wait for it.
`ServedPacks` is what `pikelet mcp` makes of its packs: names, shelves, which
packs a query asks, what `read` and `list` answer and what `install` writes.

### McpServer

`mount`, `ready` and `serving` are the mounts; the loop reads lines one after
the other, and its `now` is the point it has reached in the one it is at.
Mount steps, warm-ups, the journal's other writers and the client interleave
with it wherever it awaits. `engines` are the readers that are open, so that
using a closed one, or leaving one open, can be seen. Three histories serve the
properties: `answers`, what each request had when it was answered; what the
status would have to tell; `provisional`.

### BlobCacheLog, BlobCacheFiles, BlobCache

A log file is a sequence of cells, a record a header cell and a data cell, so
that a torn record is one without its data, and a short write one cell. File
operations of the processes interleave; `index`, `handles`, `current`, `sealed`
and `queue` are each process's own. Two histories keep which files a process
found torn: `torn` at start-up, which the code remembers in `sealed`, and
`tornLater` in the scan after an append (`Rescan`), which it forgets. The files of the large entries are a
list by recency; a put is a temporary file, a rename, and an eviction.
`BlobCache` holds both, as the class does, and TLC's symmetry.

### HttpRangeSource

What a read returns is abstracted to the version of the artifact it is from.
`resolved`, `resolving`, `pinned`, `etag`, `full` are the closure's variables;
a read's steps are those between two awaits. The host issues signed URLs,
expires them, replaces the artifact, answers 429 or 503, and fails probes; one
of five kinds of host is chosen at the start: strong, weak or no ETags, ranges
honoured or ignored, redirects followed by the walk, hidden from a browser, or
refused by a guard.

### CompleteReader

The open is followed read by read, the encoder and the scan kernel arrive in
the background in one of the four ways an encoder may come, queries read
records through digest pages they share, and close() may come at any moment.
What is freed is a state of its own, so use after it can be seen. `AnswersHonest`
says that only verified bytes are answered and that no failed fetch is served to
anyone later.

### Hnsw, PikeletIndex, and what is published

A graph is a value, an operation a function of it: `Hnsw` has insertion (with
the selection heuristic), beam search, filtered search, soft deletion,
compaction with backfill, reconnection and rebuild, and what import demands.
The seeded generator's levels are an argument. `PikeletIndex` adds the ids that
outlive rows, batches, export and import, and the ways an index comes about and
ends: `create`, `fromVectors`, `restore` and disposal. A snapshot's file has a
version, and a configuration in the envelope and in the engine's own bytes; the
old formats, without ids, and the refusals of a file that is for another
configuration or too large are the code's. It implements `VectorStore`. `RangeArtifact` lays a snapshot out as records at computed
addresses and follows concurrent searches that fetch them; `SketchArtifact`
follows concurrent searches over coarse sketches whose rows are fetched and
verified. `SearchArtifacts` publishes an index as either; its `IndexSpec` is
the index alone.

### From sources to a served site

`Crawl`, `Chunks`, `EmbedPool` and `ProjectInstall` are the stages of
`SiteBuild`, each with its own failures. `Chunks` follows every token of a
document to the chunks it ends up in. `CompleteBuild` is `pikelet compile`:
refusals, the weights, check vectors, a draft, the calibration, the pack, its
golden queries, the copy; each step may fail, and what is left behind is the
code's. `Calibration` is the fit as a function of a corpus: questions, noise,
samples, gates, thresholds and golden queries; the encoder is abstracted by
which words are near each other, and the logistic regression by the difference
of the class means. The pack that answers its golden queries scores them first, as its
reader does: what is below its hard threshold gets nothing and is dropped
(`Withheld`). `SearchWorker` has both templates and the docs worker,
whose requests read globals again after each await; `ReferenceWorker` one isolate
with its mutation queue, restores beside it and a bucket. `Retrieval` has no
steps: it is `retrieveCandidates` and the chain's `query` as functions, against
what they should return.

## What the runs check

| Run | Instance | Distinct states | Checks |
|---|---|---|---|
| `journal_lock` | 2 processes, 1 call each, files left by earlier deaths | 31k | `ExclusiveAccess`, `WaiterGetsIn`, `ImplementsMutex` |
| `journal` | 2 writers and 5 operations, or a server with 2 calls, a writer and 3 operations; depth 2, forced inits | 1,046k | `ChainSound`, `NothingInTheWay`, `ImplementsNoteLog`, `AnswersCurrent`, `ViewNeverShrinks` |
| `pack_files` | chains of 5 artifacts and 5 ids, depth 3; 836 containers; ~5,600 mounts; ~1,900 servers; 2 lexical searches | 261k | `OnlyDepthIsRefused`, `CitationsStable`, `EditsFaithful`, `ContainerSound`, `MountSound`, `TermSearchSound`, `ServingSound` |
| `blob_cache` | 2 processes and 2 stores, 2 small keys and 3 blobs, 2 generations | 224k | `LogSound`, `DirectorySound`, `OldGenerationsGo` |
| `torn_tail` | the same | violation | `NotPastATornTail`: a torn record is only left behind at start-up |
| `http_source` | 2 readers, 3 reads, 5 hosts, 2 uploads, 3 signed URLs, 2 faults | 101k | `PinnedBytesOnly`, `AddressSound`, `ReadsEnd` |
| `http_mixed` | the same | violation | `NeverMixed`: a failed first probe leaves nothing to compare |
| `mcp_server` | 1 pack and a journal, 3 requests, 3 states of the journal | 267k | `AnswersComplete`, `ProvisionalListFollowed`, `ReopeningSafe`, `ExitTellsFailures`, `EverythingEnds` |
| `reader` | 2 queries, 3 records, caches of 1, 1 fault, 4 kinds of encoder | 259k | `AnswersHonest`, `FreedOnceUnused`, `EverythingEnds` |
| `engine` | up to 6 vectors on two or three levels; 2 concurrent searches of each artifact | 321k | `GraphSound`, `SearchesFind`, `SearchesAgree`, `ImplementsStore` |
| `index_split` | a line of 6 vectors, the index alone | violation | `CompactionReaches`: a compaction can split the graph |
| `site_build` | 4 sites, documents of up to 3 pieces, 3 threads; workers; packs | 249k | `SourcesFaithful`, `VectorsInPlace`, `ProjectSurvives`, `ServersSound`, `RetrievalSound`, `PackBuildSound`, `EverythingEnds` |

Each property has a mutant of the model (`LinkLock_CreateEmpty`,
`ProbeOk_Adopt`, ...): the code with one plausible mistake, under which it
fails. `EditsFaithful` is `RebaseFaithful` and `CompactionSound`;
`ChainSound` the type, `ChainIntact` and `DepthBounded`; `LogSound` the type,
`NeverAWrongByte`, `OffsetsRight` and `TornAtStartIsLeft`; `DirectorySound`
`EntriesWhole` and `BudgetKept`; `SearchesAgree` `RangeAgrees` and
`SketchAnswers`; `ServersSound` `WorkersSound` and `AcknowledgedSurvives`;
`PackBuildSound` `CompileTidy`, `ShippedTested` and `CalibrationSoundFor`.

The bounds, and why they are enough:

- *The lock.* Two processes of which each may have left files behind before
  the run: the race the code guards against is of a slow breaker, a fast
  breaker and a new holder, and the last two may be one process. The theorems
  have no bound.
- *The journal.* At most one writer is inside the lock, so a third could only
  wait, or be outside in `initJournal`, of which two suffice for its race.
  Depth 2 is the shortest at which a chain has a middle member (the code's
  limit is 8). Five operations fill a chain, fold it and fill it again, or let
  one operation die, another clear up and a third build on it. One run has both
  cases, chosen by `present`, the two processes at work: two plain writers do
  up to five operations; where one is the server, whose openings multiply the
  states, three are enough to append, fold and append behind it. Servers share
  nothing but the directory; another server is to this one a writer.
- *Chains.* A base, two layers on each side of a fork and a rebase or compaction of the
  result; or a compaction, a layer on it and another compaction. A second edge
  for an id, an edge onto a record deleted later, a dropped foreign id, a
  rebased rebase all occur. One record and one retraction an append are
  enough for these; that several are treated one by one can be read off
  `Rebase`. The theorems have no bound.
- *Files, mounts, servers.* Functions of their input: three profiles with every
  optional segment there or not and 0, 1 or 3 records; chains of up to two
  layers on bases of each kind (1 to 3) with members moved, redirected or of another make;
  one or two packs, or a shelf, with and without a journal. For the lexical
  index windows of 2 entries, and tables of at most `Tries` windows: see below.
- *The cache.* Two processes, two generations and three cells a generation
  make rotation happen with a handle open elsewhere; three lookups find,
  miss and rewrite.
- *HTTP.* Two reads at a time on each host, of which one renews the address while the
  other holds the old one; the third begins after either. Two versions make mixing possible.
- *MCP.* One pack that may fail beside the journal that may: three requests are one
  before the mounts end, one during, one after.
- *The reader.* Two queries that share the one digest page the cache has room for.
- *The engine.* M of 2 makes the selection heuristic drop neighbours at five
  rows; caches of 2 records instead of 64 and 256; kernels for 2 and 4
  candidates; a reader's cache is cleared or its source closed, not both; the index published
  took no other snapshot. Vectors are on a line or two levels of a cluster
  with an outlier, where compaction has something to repair.
- *The site.* About 70k states are builds, 141k the reference worker (3
  requests, 1 trouble; 4 requests were checked once without liveness, 5.8M
  states), 11k the templates' workers, 6k their rate limit (2 addresses,
  windows of 2), 21k `pikelet compile` (corpora of 2 to 5 chunks with the
  constants of `calibrate.mjs` scaled down, all flags on a small one; in 28 of the
  235 fits the pack turns a golden query away, and in one the bar of "strong" is
  capped at 95), and 720
  packs of 3 or 4 records split into chains in every way. The cross-validation
  and weight gates of the calibration are modelled, but no instance fails them.

Deadlock is not checked: every model ends when its calls or files are used up.
Symmetry is used on the writers that are no servers (`journal`), on processes, keys, stores
(`blob_cache`) and the lexical searches (`pack_files`), which those modules treat alike; in these runs no
property is a liveness property.

### Fairness

Fairness is weak, and stands for promises that are continued once what they wait for
has come, and for file and network operations that end, in success or failure.

- JournalLock: each process's steps once its call has begun, and the two ageing
  actions (clocks advance). Nothing obliges a process to call, to die or to
  reach its deadline. `WaiterGetsIn` is that what the dead left never shuts a
  waiter out once the others' calls are over; it is not starvation freedom: the
  retry loop has no queue, and its deadline ends the wait.
- HttpRangeSource: the walk and each reader. Nothing makes URLs expire.
- McpServer: the loop only. That a mount ends is not assumed, since a stalled
  host may hold it: `EverythingEnds` says what follows once they have.
- CompleteReader: each read, background load and query; not that close() is called.
- Site: the build's stages, threads, file operations, loads, embeddings,
  bucket operations, the compile. Requests are finitely many, so `EverythingEnds` there is that
  from some time on nothing is under way.

## What is proved

All theorems hold for every value of the constants their modules' assumptions
allow; where these modules bound something for TLC (`MaxOps`, `MaxRequests`,
...), the bound is any natural number.

`JournalLockProofs`, for any set of processes and any number of calls:

- `TypeCorrect`, `Exclusion` (`Spec => []ExclusiveAccess`), and
  `LockImplementsMutex`, the refinement of `Mutex`.

Exclusion is not inductive: that a new holder comes in only when `.lock` is
absent says nothing of who removed it. The inductive invariant `IInv` adds
why a removal never takes a live holder's record. `Unpublished`: the record of
a call that has not got the lock is in nobody's hands, so one found stale
cannot come back as a live lock. `JudgedStale`: what a breaker has judged is
stale. `BreakerNamed`: `.lock.break` holds the record of whoever is breaking.
`RemovesWhatItJudged`: between its second look and its removal, `.lock` still
holds what it judged; only another breaker, or a stale holder's release, could
have changed it. `HolderNamed`: a process inside has its record in `.lock`, and
it is not stale unless `holderAged`.

`JournalProofs`, for any writers, depth, operations and deaths:

- `ChainStaysSound`, `NothingBlocks`, and `JournalIsALog`, the refinement of `NoteLog`.

`JournalInvariant` proves their inductive invariant, in three parts. `Control`:
only the holder of the lock is past `withLock`, the state it has read is the
one `journal.json` holds, and its job fits its place in the code. `Whole`: the
chain is whole and within its depth, and of each writer what it may still do is
harmless: what it clears (`ClearingSound`) is not a member, what it folds or
layers (`FoldingSound`, `LayeringSound`) continues the chain it read. `Fresh`:
no note still to come is shown or reported. `ShownStep` then says what each
action does to the notes shown, which makes the refinement a case split. The
assumption `Existing` (a journal is there at first) is needed: without it two
inits that do not force race outside the lock (`journal.mjs` 261, 269).

On top of them, in the same module, for any servers and calls:

- `AnswersStayCurrent` (`ServerSpec => []AnswersCurrent`) and `ServersNeverGoBack`
  (`ServerSpec => ViewNeverShrinks`).

A server reads `journal.json` once and then opens the members by name, without
the lock, while they are appended to, folded and removed. `ServerInvariant`
says why no mixture can come of it: the head it is after is, or was,
`journal.json`'s, so that no file will get its name before a forced init
(`Settled`); if the file is there it is the one that was meant, and its records
are a beginning of the log (`Serves`), which only grows (`JournalIsALog`). What
a call must have seen is of notes that nobody is writing any more (`DueTold`),
and is in whatever the server may still come to serve (`OpeningSound`,
`AnswerSound`). A replacement starts another epoch, of which nothing is owed
to a call that came before (`InTime`, `CitesSound`). Assumed besides: `Servers`
are writers, since a server writes its notes itself, and `NoCall` is no call.

`BlobCacheProofs`, for any processes, keys, lookups and faults, and generations
of any size:

- `LogStaysSound` (`CacheSpec => []LogSound`): what is handed out is of the key, an
  index leads to whole records, and a file torn at start-up is not written to; and `OldGenerationsAreRemoved`
  (`CacheSpec => []OldGenerationsGo`).

Nobody locks, so `LogInvariant` is about what one process may still believe
after the others' steps. Files only grow (`Grown`), and a name goes or is given
to a new file (`Renamed`); from that, everything a process knows is kept by
the steps of others (`OthersStay`). An entry that was read back stays where it
is (`EntryRight`). A file that was found torn at start-up has, if any, a name before the
generation that is written to, unless the process is to rotate first (`TornBehind`): the
scan ends with the newest, whose seal is the one that counts, and a rotation goes
past all names there are. A generation past the limit is a newer file than the
newest, or the maker of the newest has still to remove it (`OldGo`); that holds
because only a rotation makes a generation the newest, and `open(..., 'a+')`
only makes older ones again. The assumption is that `Generations` is positive.

`HttpRangeSourceProofs`, for any readers, kinds of host, signed URLs, uploads,
faults and retries:

- `PinnedBytes` (`Spec => []PinnedBytesOnly`): with strong ETags, once the first
  probe was answered, all bytes are of one artifact;
- `AddressIsSound` (`Spec => []AddressSound`): the front door is charged once
  per signed URL, and nothing comes from behind a guard that refuses.

`PinnedBytesOnly` is not inductive: a read has its If-Range from when it began,
which may be before the first probe, so that its answer is compared with
nothing. `SourceInvariant` adds why that does no harm. Such a read is alone
(`OneOpens`) and nothing has been delivered; should what it returns be newer
than the ETag (`Overtaken`), then so is every address in use (`TargetSound`,
`AnswerSound`), and every later range, which must match the ETag, is refused.
Only a URL that is alive or the URL as given is ever resolved, and both lead to
what is no older than the ETag (`Hosted`). `ChargedSound` counts: a walk is
charged against none before it or against the expiry of the URL a refused read
had, which by then is dead. The lemmas follow one read (`OneRead`, `Delivers`)
or the walk that reads share (`Resolves`, `Rejects`); the actions are instances.
Assumed: `None` is no version and no target, and a version and a URL are allowed.

`CompleteReaderProofs`, for any number of queries, records, pages, faults and
cache sizes:

- `NothingFreedIsUsed` (`Spec => []FreedOnceUnused`): no query reads through a
  freed encoder wherever close() finds it, the caches keep their limits, and a
  closed reader holds nothing;
- `AnswersAreHonest` (`Spec => []AnswersHonest`): only verified bytes are
  answered, and a query fails only for something newer than itself, or because
  the encoder could not be loaded.

`ReaderInvariant` needs three things that no property says. Those who await
the encoder stand in line, each once, and close() is the last, since a query
needs an open reader (`Lined`): when the encoder is freed, nobody is left
to use it. What exists follows the phase (`Phased`). Of a page at most one fetch
is kept, and none that failed (`Cached`), so that evicting one entry is enough
whichever fetch holds the page's place; so whatever a query holds that will make
it fail is newer than the query (`HasCause`). The lemmas say what
one entry's removal leaves of a cache in order of use (`RemoveFirstIs`,
`LostKeeps`, `TouchKeeps`, `FetchKeeps`, `FailKeeps`); there is one lemma per
conjunct of the invariant and in it one step per action. Assumed: the limits
are positive, and `Release`, close()'s place in the line, is no query.

`LayerChainProofs`, for any base sizes, ceilings and numbers of artifacts:

- `CitationsAreStable`: an id, once given, names the same row under every later
  head of its history, whatever is appended, rebased and compacted around it.
- `OnlyDepthRefused`: of the checks `openPikeletChain` makes, depth is the only
  one that what the tools write can fail.

- `EditsAreFaithful` (`Spec => []EditsFaithful`): a rebase replays exactly what
  its layer recorded, apart from what the resolution of a conflict drops, and
  what was a record's successor in the layer or in the new head still leads to
  the same record; a compaction numbers the live records densely and in order,
  translates every citation made against any head of the chain it folded to
  the record that chain would have answered with, and is possible wherever a
  ceiling can ask for it.

None is inductive: what a chain serves depends on every artifact below its
head. `ChainInvariant` says of each artifact that its fields fit each other
(`WellFormed`), its chain is closed under ancestors (`Closed`), the intervals
of its members are disjoint and cover its ids (`Disjoint`, `Covered`), and each
link is one a reader accepts (`Linked`). A new artifact leaves the others sound
(`EarlierSound`); `LayerSound` says what a layer has to satisfy (`LayerFits`),
and `AppendFits` and `RebaseFits` that append and rebase see to it, for rebase
because what survives lies below the fork (`ForkBound`).

`FullInvariant` adds what `EditsFaithful` needs. `TreeInv`: chains are paths of
one tree, and masks only grow along them. `ToldInv`: an artifact that says it
is of a rebase or a compaction is the one these made (`RebaseOf`, `Compacted`);
that stays true because whatever they were made from is still there, and all
that they compute is a function of it (`RebaseKept`, `LineageKept`,
`CopiedKept`). The rest is about one state. Two chains share their rows below
the fork (`SharedRows`), so what rebase calls foreign is so (`ReplaysOwn`).
The walk along supersessions is a recursive function, about which nothing can
be proved by induction over it; `WalkExists` takes the least id at which a walk
would be missing instead, since every edge leads upwards. From it, `Current`
is where the walk ends (`LatestFacts`, `CurrentSteps`), and translating
through a lineage gives what walking gave (`TranslateWalks`, `FateIs`). A live
id's record is at its place among the live ids (`Places`), which makes compaction
dense. Assumed: no base is empty or larger than the ceiling on ids, and
`MaxPacks` is positive.

`McpServerProofs`, for any number of packs, requests and journal changes:

- `CallsAnsweredInTurn`, `ProvisionalListIsFollowed`, `ReopeningIsSafe`,
  `ExitTells`: the four safety properties of the run.

`ServerInvariant` is their invariant: requests are in one place each, in the
order they came (`InOrder`); the open engines are those that serve, plus a
journal being reopened (`Served`); a call in progress has every mount behind it
(`Reached`); a provisional list is remembered until it is followed up
(`Provisional`); after the end nothing is open (`Ended`). `StepTalks` sorts the
actions by what they say to the client, so that the properties about answers
need three cases instead of one per action.

`SiteBuildProofs`, on the two stages of a build where order matters, and on what
serves the site:

- `PoolKeepsOrder`: for any threads and rows, a slot holds its own row's vector
  and a finished pool has them all (`PoolInv`: a row is with one thread, and
  completed answers count the filled slots);
- `InstallLosesNothing`: for any number of failures, an old project is whole at
  the target or beside it (`InstallInv`: what each place of the code may find in the three directories);
- `ServersStaySound`: `ServersSound` for any number of searches, addresses,
  requests and failures.

The last rests on three invariants of parts that share no variable.
`WorkerInv`: the globals are there all or none, a load under way begins with
none, and a search that no reset disturbed finds what it waited for.
`LimitInv`: what is kept of an address's times is the end of all of them and
the rest has left the window (`EndKept`), since times are in order and the
sweep takes them from the front. `RefInv`: mutations run one at a time and in
the order they came (`InTurn`, from which `Alone` and `NoOtherPut`), so a
snapshot on its way is of the index that is in memory and has the newest key
(`PutSound`); every sequence of operations about was begun by a request that
was let through, or an earlier isolate (`AllKnown`), so an init outranks all
acknowledged before it; and what a restore comes back with covers what is
acknowledged, unless the index is there or the generation has moved on
(`RestoreSound`), which is what the comparison of generations is for. `Persisted`
and `Quiet` do the work that actions share. Assumed: the limit and the window
are positive, and `NoIndex` is no index.

Only model-checked:

- liveness, everywhere: the prover has no rules for fairness and ENABLED;
- what is computed by a fold, a sum or a recursion over data, where a proof
  would be an induction over the data, which the installed provers cannot do:
  the layout of a container and its tables (`ContainerSound`), the hashed search
  in a term table (`TermSearchSound`), the walk to the base and the drift of a
  chain (`MountSound`), the tools' merged answers (`ServingSound`), the
  eviction of large entries by their total size (`DirectorySound`), the graph (`GraphSound`, `SearchesFind`, `SearchesAgree`,
  `ImplementsStore`), chunks (`SourcesFaithful`), ranking and calibration
  (`RetrievalSound`, `PackBuildSound`).

## Where code and documentation part

As runs, with a counterexample:

- `http_mixed`: the README of pikelet (236-238) says reads fail with
  `ARTIFACT_CHANGED` rather than mixing bytes of two artifacts. When the first
  HEAD fails (`sources.mjs` 119), no ETag is adopted later, and reads after a
  replacement return ranges of both.
- `torn_tail`: `blob-cache.node.mjs` 114-117 says that writing resumes in a fresh
  generation after a torn write, as a scan would not index what follows one. That
  is so at start-up. When an append is cut short, the scan that looks for it (241)
  stops at the torn record, `sealed` stays false, and the next batch goes after it.
- `index_split`: `float_hnsw.hpp` 573-577 reconnects a survivor only when it
  lost all its neighbours. Two that kept each other are left as a part of their own.

Met while modelling, and modelled as the code has it:

- A live breaker that stalls for `BREAK_STALE_MS` is enough for the window that
  `journal.mjs` 190-192 ascribes to a breaker that died (`journal.mjs` 204).
- `initJournal` looks for a journal twice and takes `--force` into account the
  first time only (`journal.mjs` 261, 269): two inits and an append can lose a note.
- `docs/agent-journal.md` 336-338: a server sees other sessions' changes by
  comparing members. Names come back when a journal is replaced by force
  (`mcp.mjs` 690), and then the comparison finds nothing.
- `layer-rebase.mjs` 56-58: a rebase never emits a layer a reader would refuse.
  Nothing compares the depth it reaches with the ceiling (`compact.mjs` 424).
- `LAYERED_PROFILE.md` 3.5: only a keep-both rebase gives an id edges in two
  layers. `pikelet append --supersede` does too (`layer-append.mjs` 146).
- `LAYERED_PROFILE.md` 5.6: a citation against a retired head is translated
  when the mounted base lists it. A chain's `citation` looks at the mounted
  ancestry only (`layer-reader.mjs` 609).
- `mcp.mjs` 671-672: a remount may close the chain a warm-up query runs on.
- `common.js` 101-104: the floor of the row cache covers a search's neighbours
  only while M0 is at most 64.
- The range artifact drops the id mapping: its hits are rows, not ids.
- Docs worker: `abstentionModel` is assigned (1019) before the check that may
  throw (1024); a reset during the load leaves a warm worker unscored.
- Reference worker: when another restore or init won, `restoreIndex` answers
  false and a search 503 though there is an index; an old promise's `finally`
  clears a newer `restorePromise`.
- Phrase pinning exists in packs but not in chains. With a row map and a small
  explicit rerank a query may answer fewer than k records, and a record may be
  scored by a row that is not its best.
- Append always writes a lexical segment (`append.mjs` 306), so a chain on a
  base without one cannot be mounted. Bases of kind 2 pass `planAppendability`,
  but `append.mjs` 252-255 refuses new records on them.
- `ingest.mjs` 256-258 keeps filtered links from taking places in the budget of a
  crawl. A link that is there twice takes two: `extractLinks` (506-516) keeps
  repetitions, and only what was fetched or filtered is known as seen (259-266).
- `calibrate.mjs` 1028-1031: the bar of "strong" clears the off-topic mass, capped
  at the positives' median. It is also capped at .95 (1042), which lets more than a
  twentieth of the off-topic pass on a saturated fit; and a row at the bar itself
  is "strong" to the reader.
- `complete-build.mjs`: between its two try blocks a failure leaves the
  embedder undisposed. Under `--force` a copy that fails tears the old output.

Seen, and in no property: `journal.mjs` 263, 435 (leftovers of a failed init
and fold), `mcp.mjs` 676, 729, `sources.mjs` 172, `index.mjs` 988 (a failed
lazy encoder is not loaded again), `ingest.mjs` 243, 327, 746, `cli.mjs` 475,
795, 805 (a rebuild in place that fails midway leaves mixed assets),
`docusaurus/client/search.js` 137. `findTerm` of `lexical.mjs` aims ten times and
covers only ten windows when hashes are skewed; tables in the model are within
that.

## Plan

The modules above are the plan's; what is left is to prove more:

1. VectorStore's refinement from the id maps alone, with the graph's
   operations assumed to keep the rows they say they keep.

## Not modelled

- Scores, embeddings, tokenisation, quantisation arithmetic (affine scale and
  offset, cosine), BM25's exact weights, gradient descent: numeric code. The
  uint8 engine repeats the float one's structure. Memory that runs out in a
  rebuild; abstention in `Retrieval` (of a pack that replays its golden queries it
  is modelled).
- Byte layouts: what a round trip tests.
- Parsing of sources (Markdown, HTML, git, conversations), sentence windows,
  source routes, the shape of notes, ordering in `latestNotes`.
- Routes, authorisation and request parsing of the workers; most flags of the
  CLI, `doctor`, scaffolding; file permissions (`makePrivate`), whose failure
  is one of the causes of `Abort`; telemetry.
- Docusaurus: the plugin calls the modelled build, the client's state is a
  browser's. Benchmarks, examples, docs, docs site: not part of the program.
- Vendored and generated code.
