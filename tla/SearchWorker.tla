---------------------------- MODULE SearchWorker ----------------------------
(***************************************************************************)
(* A worker that serves a built site: the two templates a project is made  *)
(* from (packages/pikelet/templates) and the one behind the project's own  *)
(* docs (examples/legacy/03-edge-docs-search/worker.js). Its assets are    *)
(* part of the worker. What it makes of them is loaded by the first        *)
(* search, kept in globals, and dropped by /reset_cache; requests wait in  *)
(* between and read the globals again after each wait.                     *)
(*                                                                         *)
(* The templates' limit on requests per address is at the end; it shares   *)
(* no state with the rest.                                                 *)
(***************************************************************************)
EXTENDS Integers, Sequences, FiniteSets, FiniteSetsExt

CONSTANTS Calls,     \* requests
          MaxWrecks  \* bound: loads and embeddings that fail

VARIABLES
    flavour,    \* "snapshot", "artifact" or "docs"
    engine,     \* index, or artifact, is loaded
    manifest,   \* so is manifest
    texts,      \* corpus and corpusById
    student,    \* studentModel, of the docs worker
    scorer,     \* its abstentionModel: "none", "good", or "stale"
    calibrated, \* the abstention asset it came with, of the same kinds
    loading,    \* what the load under way waits for, or "no"
    interrupted, \* history: a reset came during that load, or the last
    call,       \* the requests
    wrecked     \* loads and embeddings that failed

workerVars == <<flavour, engine, manifest, texts, student, scorer, calibrated, loading, interrupted, call, wrecked>>
globals == <<engine, manifest, texts, student, scorer>>

Fresh == [kind |-> "none", step |-> "none", disturbed |-> FALSE, named |-> TRUE]

WorkerInit ==
  /\ flavour \in {"snapshot", "artifact", "docs"}
  /\ calibrated \in IF flavour = "docs" THEN {"none", "good", "stale"} ELSE {"none"}
  /\ engine = FALSE /\ manifest = FALSE /\ texts = FALSE /\ student = FALSE /\ scorer = "none"
  /\ loading = "no" /\ interrupted = FALSE /\ wrecked = 0
  /\ call = [c \in Calls |-> Fresh]

Ended(c) == call[c].step \in {"ok", "failed", "unavailable"}
Steps(c, step) == call' = [call EXCEPT ![c].step = step]
\* A reset or a failure that requests under way may be told of.
Disturb(f) == [c \in Calls |-> IF f[c] = Fresh \/ Ended(c) THEN f[c] ELSE [f[c] EXCEPT !.disturbed = TRUE]]
Wrecks == wrecked < MaxWrecks /\ wrecked' = wrecked + 1

CallArrives(c) ==
  /\ call[c] = Fresh
  /\ \E kind \in {"search", "reset"} : call' = [call EXCEPT ![c].kind = kind, ![c].step = "arrived"]
  /\ UNCHANGED <<flavour, interrupted, globals, calibrated, loading, wrecked>>

-----------------------------------------------------------------------------
\* ensureLoaded: a load under way is everybody's.
HasAssets == engine /\ IF flavour = "docs" THEN student ELSE manifest
FirstWait == CASE flavour = "docs" -> "student" [] flavour = "snapshot" -> "restore" [] OTHER -> "open"

EnsureLoaded(c) ==
  /\ call[c].step = "arrived" /\ call[c].kind = "search"
  /\ IF HasAssets THEN Steps(c, "loaded") /\ UNCHANGED loading
     ELSE Steps(c, "waits") /\ loading' = IF loading = "no" THEN FirstWait ELSE loading
  /\ UNCHANGED <<flavour, interrupted, globals, calibrated, wrecked>>

\* The load is over, and those who wait for it go on.
LoadEnds(step) ==
  /\ loading' = "no"
  /\ call' = [c \in Calls |-> IF call[c].step = "waits" THEN [call[c] EXCEPT !.step = step] ELSE call[c]]

RestoreAssets ==
  /\ loading = "restore"
  /\ texts' = TRUE /\ manifest' = TRUE /\ engine' = TRUE
  /\ LoadEnds("loaded")
  /\ UNCHANGED <<flavour, interrupted, student, scorer, calibrated, wrecked>>

LoadAssets ==
  /\ loading = "open"
  /\ texts' = TRUE /\ manifest' = TRUE /\ engine' = TRUE
  /\ LoadEnds("loaded")
  /\ UNCHANGED <<flavour, interrupted, student, scorer, calibrated, wrecked>>

\* The docs worker waits for a digest of the student, for one of the scorer if
\* there is one, and for the index. A scorer older than the corpus is reported
\* as disabled, but it is assigned before it is found to be.
DocsStudent ==
  /\ loading = "student"
  /\ scorer' = "none" /\ interrupted' = FALSE
  /\ loading' = IF calibrated = "none" THEN "index" ELSE "scorer"
  /\ UNCHANGED <<flavour, engine, manifest, texts, student, calibrated, call, wrecked>>
DocsScorer ==
  /\ loading = "scorer"
  /\ scorer' = calibrated
  /\ loading' = "index"
  /\ UNCHANGED <<flavour, interrupted, engine, manifest, texts, student, calibrated, call, wrecked>>
DocsIndex ==
  /\ loading = "index"
  /\ texts' = TRUE /\ manifest' = TRUE /\ student' = TRUE /\ engine' = TRUE
  /\ LoadEnds("loaded")
  /\ UNCHANGED <<flavour, interrupted, scorer, calibrated, wrecked>>

\* The engine cannot be loaded, or the assets do not fit each other.
LoadFails ==
  /\ loading # "no" /\ Wrecks
  /\ loading' = "no"
  /\ call' = [c \in Calls |-> IF call[c].step = "waits" THEN [Disturb(call)[c] EXCEPT !.step = "failed"] ELSE call[c]]
  /\ UNCHANGED <<flavour, interrupted, globals, calibrated>>

-----------------------------------------------------------------------------
\* A property of null: an error, answered 500.
Null(c) == Steps(c, "failed")
Answered(c) == call' = [call EXCEPT ![c].step = "ok", ![c].named = texts]

\* embedQuery reads the manifest before it waits.
EmbedQuery(c) ==
  /\ call[c].step = "loaded" /\ flavour # "docs"
  /\ IF manifest THEN Steps(c, "embeds") ELSE Null(c)
  /\ UNCHANGED <<flavour, interrupted, globals, calibrated, loading, wrecked>>
EmbedFails(c) ==
  /\ call[c].step = "embeds" /\ Wrecks
  /\ Steps(c, "unavailable")
  /\ UNCHANGED <<flavour, interrupted, globals, calibrated, loading>>

\* The engine's search does not wait; the answer names the manifest's dims.
SearchIndex(c) ==
  /\ call[c].step = "embeds" /\ flavour = "snapshot"
  /\ IF engine /\ manifest THEN Answered(c) ELSE Null(c)
  /\ UNCHANGED <<flavour, interrupted, globals, calibrated, loading, wrecked>>

\* The artifact's does; its statistics are read from the global on both sides.
SearchArtifact(c) ==
  /\ call[c].step = "embeds" /\ flavour = "artifact"
  /\ IF engine THEN Steps(c, "searches") ELSE Null(c)
  /\ UNCHANGED <<flavour, interrupted, globals, calibrated, loading, wrecked>>
AnswerFromArtifact(c) ==
  /\ call[c].step = "searches"
  /\ IF engine /\ manifest THEN Answered(c) ELSE Null(c)
  /\ UNCHANGED <<flavour, interrupted, globals, calibrated, loading, wrecked>>

\* The docs worker embeds and searches without waiting; a query the scorer
\* finds hopeless is not searched for, so the index is not touched.
SearchDocs(c) ==
  /\ call[c].step = "loaded" /\ flavour = "docs"
  /\ \/ IF student /\ engine THEN Answered(c) ELSE Null(c)
     \/ student /\ scorer # "none" /\ Answered(c)
  /\ UNCHANGED <<flavour, interrupted, globals, calibrated, loading, wrecked>>

\* reset_cache. The artifact is closed first, and closing is waited for.
ClearGlobals(c) ==
  /\ engine' = FALSE /\ manifest' = FALSE /\ texts' = FALSE
  /\ call' = [Disturb(call) EXCEPT ![c].step = "ok"]
  /\ interrupted' = (interrupted \/ loading # "no")
  /\ UNCHANGED <<flavour, calibrated, loading, wrecked>>
Resets(c, step) == call[c].kind = "reset" /\ call[c].step = step
ResetIndex(c) ==
  /\ Resets(c, "arrived") /\ flavour = "snapshot"
  /\ ClearGlobals(c) /\ UNCHANGED <<student, scorer>>
CloseArtifact(c) ==
  /\ Resets(c, "arrived") /\ flavour = "artifact"
  /\ Steps(c, "closes")
  /\ UNCHANGED <<flavour, interrupted, globals, calibrated, loading, wrecked>>
ResetArtifact(c) ==
  /\ Resets(c, "closes")
  /\ ClearGlobals(c) /\ UNCHANGED <<student, scorer>>
ResetDocs(c) ==
  /\ Resets(c, "arrived") /\ flavour = "docs"
  /\ ClearGlobals(c) /\ student' = FALSE /\ scorer' = "none"

LoadStep == RestoreAssets \/ LoadAssets \/ DocsStudent \/ DocsScorer \/ DocsIndex \/ LoadFails
CallStep(c) == \/ EnsureLoaded(c) \/ EmbedQuery(c) \/ EmbedFails(c) \/ SearchIndex(c)
               \/ SearchArtifact(c) \/ AnswerFromArtifact(c) \/ SearchDocs(c)
               \/ ResetIndex(c) \/ CloseArtifact(c) \/ ResetArtifact(c) \/ ResetDocs(c)
WorkerNext == LoadStep \/ \E c \in Calls : CallArrives(c) \/ CallStep(c)

-----------------------------------------------------------------------------
\* isRateLimited: the times of the requests let through, per address.
CONSTANTS Addresses, Rpm,  \* RATE_LIMIT_RPM
          Window,          \* RATE_LIMIT_WINDOW_MS
          MaxTime          \* bound: the clock

ASSUME RateAssumption == Rpm \in Nat \ {0} /\ Window \in Nat \ {0} /\ MaxTime \in Nat

VARIABLES clock, entries,
          granted  \* history: all requests let through

limitVars == <<clock, entries, granted>>
LimitInit == clock = 0 /\ entries = [a \in Addresses |-> <<>>] /\ granted = [a \in Addresses |-> <<>>]

\* What has left the window is shifted out, of every address.
Recent(times) == {i \in DOMAIN times : clock - times[i] < Window}
Swept(times) == IF Recent(times) = {} THEN <<>> ELSE SubSeq(times, Min(Recent(times)), Len(times))
Limited(a) == Len(Swept(entries[a])) >= Rpm

LetThrough(a) ==
  /\ ~Limited(a)
  /\ entries' = [b \in Addresses |-> IF b = a THEN Append(Swept(entries[b]), clock) ELSE Swept(entries[b])]
  /\ granted' = [granted EXCEPT ![a] = Append(@, clock)]
  /\ UNCHANGED clock
TurnAway(a) ==
  /\ Limited(a)
  /\ entries' = [b \in Addresses |-> Swept(entries[b])]
  /\ UNCHANGED <<clock, granted>>
TimePasses == clock < MaxTime /\ clock' = clock + 1 /\ UNCHANGED <<entries, granted>>

LimitNext == TimePasses \/ \E a \in Addresses : LetThrough(a) \/ TurnAway(a)

-----------------------------------------------------------------------------
\* An answer names every hit by the corpus that belongs to the index: a reset
\* in the middle of a search makes it fail, it does not strip its answer. And
\* nothing but a reset or a failure makes a request fail.
AnswersNamed ==
  \A c \in Calls : /\ call[c].step = "ok" => call[c].named
                   /\ call[c].step = "failed" => call[c].disturbed

\* What is loaded is loaded whole. Only a reset during a load leaves the docs
\* worker without its scorer, and answers unscored, until the next reset.
LoadedWhole ==
  /\ engine = texts /\ engine = manifest /\ (flavour = "docs" => engine = student)
  /\ engine /\ scorer # calibrated => interrupted

\* In no window does an address get more than its limit, and it is turned away
\* only when it has got that much.
RateHeld ==
  \A a \in Addresses :
    LET recent == Cardinality(Recent(granted[a]))
    IN recent <= Rpm /\ (Limited(a) <=> recent = Rpm)

\* The workers of built sites, whatever resets, failures and other requests
\* come between two waits of a search (worker.js 166-194, 218-265, 306-316;
\* worker.artifact.js 189-221, 275-312, 354-364; 03-edge-docs-search/worker.js
\* 965-1080).
WorkersSound == AnswersNamed /\ LoadedWhole /\ RateHeld
=============================================================================
