--------------------------- MODULE ReferenceWorker ---------------------------
(***************************************************************************)
(* The reference worker (examples/legacy/reference-worker/worker.js): one  *)
(* isolate that keeps a mutable index in memory and writes snapshots of it *)
(* to a bucket, or only to its own memory when no bucket is bound. Its     *)
(* mutations run one after the other; searches, and the restores either    *)
(* start, run beside them. The isolate may be replaced at any moment, and  *)
(* then only the bucket is left.                                           *)
(*                                                                         *)
(* Requests are numbered as they arrive. What an index holds is the        *)
(* sequence of the requests that made it, its init (or import) first.      *)
(***************************************************************************)
EXTENDS Integers, Sequences, FiniteSets, SequencesExt, FiniteSetsExt, Functions

CONSTANTS MaxAsked,     \* bound: requests
          MaxTroubles,  \* bound: bucket operations that fail, and lost isolates
          NoIndex

ASSUME AskedAssumption == MaxAsked \in Nat /\ MaxTroubles \in Nat
ASSUME NoIndexAssumption == NoIndex \notin [ops : Seq(Nat), ghosts : BOOLEAN]

\* init stands for import, add for add_batch, compact for export, which compacts
\* first as well; search for stats. Health and readiness change nothing.
Mutations == {"init", "add", "delete", "compact", "reset"}
RequestKinds == Mutations \cup {"search"}

VARIABLES
    bucket,         \* INDEX_BUCKET is bound
    stored,         \* the snapshots in it, by key
    lastKey,        \* the last key given out: keys carry the time
    index,          \* the index in memory, with its ghosts
    localSnapshot,  \* what was exported last
    generation,     \* restoreGeneration
    restorePromise, \* the restore callers wait for, by who started it, or 0
    restores,       \* those under way, also ones nobody would wait for any more
    req,            \* the requests
    acked,          \* history: the last index a caller was told is persisted
    troubles

refVars == <<bucket, stored, lastKey, index, localSnapshot, generation, restorePromise,
             restores, req, acked, troubles>>
memory == <<index, localSnapshot, generation, restorePromise, restores>>

NotYet == [kind |-> "none", step |-> "none", waits |-> 0, key |-> 0, ops |-> <<>>]

\* A bucket is empty at first, or holds what an earlier isolate wrote.
RefInit ==
  /\ bucket \in BOOLEAN
  /\ stored \in IF bucket THEN {<<>>, <<<<0>>>>} ELSE {<<>>}
  /\ lastKey = Len(stored)
  /\ index = NoIndex /\ localSnapshot = <<>>
  /\ generation = 0 /\ restorePromise = 0 /\ restores = <<>>
  /\ req = [r \in 1..MaxAsked |-> NotYet]
  /\ acked = IF stored = <<>> THEN <<>> ELSE <<0>>
  /\ troubles = 0

Over(r) == req[r].step \in {"ok", "missing", "refused", "failed", "lost"}
To(r, step) == req' = [req EXCEPT ![r].step = step]

\* The function f, and v at x.
Extended(f, x, v) == [y \in DOMAIN f \union {x} |-> IF y = x THEN v ELSE f[y]]

Trouble == troubles < MaxTroubles /\ troubles' = troubles + 1

RequestArrives ==
  \E r \in 1..MaxAsked, kind \in RequestKinds :
    /\ req[r] = NotYet /\ \A s \in 1..(r - 1) : req[s] # NotYet
    /\ req' = [req EXCEPT ![r].kind = kind, ![r].step = "arrived"]
    /\ UNCHANGED <<bucket, stored, lastKey, memory, acked, troubles>>

\* The promise of the mutation before resolves when that one is over, however
\* it ended. A search does not wait.
MayRun(r) == req[r].kind = "search" \/ \A s \in 1..(r - 1) : req[s].kind \in Mutations => Over(s)

-----------------------------------------------------------------------------
\* The newest snapshot, by its key.
LatestSnapshot == IF DOMAIN stored = {} THEN <<>> ELSE stored[Max(DOMAIN stored)]

\* ensureIndex, up to where restoreIndex first waits: for the listing of the
\* bucket, or for the engine to load what memory holds.
EnsureIndex(r) ==
  /\ req[r].step = "arrived" /\ MayRun(r) /\ req[r].kind \notin {"init", "reset"}
  /\ IF index # NoIndex THEN To(r, "body") /\ UNCHANGED <<restorePromise, restores>>
     ELSE IF restorePromise # 0
     THEN req' = [req EXCEPT ![r].step = "waiting", ![r].waits = restorePromise] /\ UNCHANGED <<restorePromise, restores>>
     ELSE IF bucket \/ localSnapshot # <<>>
     THEN /\ restorePromise' = r
          /\ restores' = Extended(restores, r,
                           [generation |-> generation, ops |-> IF bucket THEN <<>> ELSE localSnapshot,
                            at |-> IF bucket THEN "list" ELSE "load"])
          /\ req' = [req EXCEPT ![r].step = "waiting", ![r].waits = r]
     ELSE To(r, "missing") /\ UNCHANGED <<restorePromise, restores>>
  /\ UNCHANGED <<bucket, stored, lastKey, index, localSnapshot, generation, acked, troubles>>

\* A restore is over: whoever waits for it goes on, and restorePromise is
\* cleared, though it may be a later one by now.
RestoreEnds(i, step) ==
  /\ restores' = Restrict(restores, DOMAIN restores \ {i})
  /\ restorePromise' = 0
  /\ req' = [r \in DOMAIN req |-> IF req[r].step = "waiting" /\ req[r].waits = i
                                  THEN [req[r] EXCEPT !.step = step] ELSE req[r]]

RestoreLists(i) ==
  /\ restores[i].at = "list"
  /\ IF LatestSnapshot = <<>> THEN RestoreEnds(i, "missing")
     ELSE /\ restores' = [restores EXCEPT ![i].at = "load", ![i].ops = LatestSnapshot]
          /\ UNCHANGED <<restorePromise, req>>
  /\ UNCHANGED <<bucket, stored, lastKey, index, localSnapshot, generation, acked, troubles>>

\* Mutant: a restore does not notice that the index was reset meanwhile.
RestoreLoads_Late(i) ==
  /\ restores[i].at = "load"
  /\ IF index # NoIndex THEN RestoreEnds(i, "missing") /\ UNCHANGED index
     ELSE RestoreEnds(i, "body") /\ index' = [ops |-> restores[i].ops, ghosts |-> FALSE]
  /\ UNCHANGED <<bucket, stored, lastKey, localSnapshot, generation, acked, troubles>>

\* What was restored is used if nothing reset or replaced the index meanwhile.
RestoreLoads(i) ==
  /\ restores[i].at = "load"
  /\ IF restores[i].generation # generation \/ index # NoIndex
     THEN RestoreEnds(i, "missing") /\ UNCHANGED index
     ELSE RestoreEnds(i, "body") /\ index' = [ops |-> restores[i].ops, ghosts |-> FALSE]
  /\ UNCHANGED <<bucket, stored, lastKey, localSnapshot, generation, acked, troubles>>

\* A bucket operation fails, or the snapshot is refused.
RestoreFails(i) ==
  /\ Trouble /\ RestoreEnds(i, "failed")
  /\ UNCHANGED <<bucket, stored, lastKey, index, localSnapshot, generation, acked>>

-----------------------------------------------------------------------------
\* persistIndex on the index as the request has left it. A failure of the put
\* is found in PutEnds.
Persist(r, next, compact) ==
  IF next.ghosts /\ ~compact
  THEN /\ index' = next
       /\ To(r, "ok") /\ UNCHANGED <<lastKey, localSnapshot, acked>>
  ELSE /\ index' = [next EXCEPT !.ghosts = FALSE]
       /\ localSnapshot' = next.ops
       /\ IF bucket
          THEN /\ lastKey' = lastKey + 1
               /\ req' = [req EXCEPT ![r].step = "put", ![r].key = lastKey + 1, ![r].ops = next.ops]
               /\ UNCHANGED acked
          ELSE To(r, "ok") /\ acked' = next.ops /\ UNCHANGED lastKey

\* The body has been read, and for an init the engine is there: the part of
\* each handler that runs without waiting, up to the put.
InitIndex(r) ==
  /\ req[r].step = "arrived" /\ req[r].kind = "init" /\ MayRun(r)
  /\ generation' = generation + 1
  /\ Persist(r, [ops |-> <<r>>, ghosts |-> FALSE], TRUE)
  /\ UNCHANGED <<bucket, stored, restorePromise, restores, troubles>>

Reset(r) ==
  /\ req[r].step = "arrived" /\ req[r].kind = "reset" /\ MayRun(r)
  /\ generation' = generation + 1 /\ restorePromise' = 0 /\ index' = NoIndex
  /\ To(r, "ok")
  /\ UNCHANGED <<bucket, stored, lastKey, localSnapshot, restores, acked, troubles>>

\* A call of a method of null is an error.
IndexGone(r) ==
  /\ req[r].step = "body" /\ index = NoIndex
  /\ To(r, "failed")
  /\ UNCHANGED <<bucket, stored, lastKey, memory, acked, troubles>>

Acts(r, kind) == req[r].step = "body" /\ req[r].kind = kind /\ index # NoIndex

Add(r) ==
  /\ Acts(r, "add") /\ Persist(r, [index EXCEPT !.ops = Append(@, r)], FALSE)
  /\ UNCHANGED <<bucket, stored, generation, restorePromise, restores, troubles>>

Delete(r) ==
  /\ Acts(r, "delete")
  /\ index' = [ops |-> Append(index.ops, r), ghosts |-> TRUE]
  /\ To(r, "ok")
  /\ UNCHANGED <<bucket, stored, lastKey, localSnapshot, generation, restorePromise, restores, acked, troubles>>

Compact(r) ==
  /\ Acts(r, "compact") /\ Persist(r, [index EXCEPT !.ghosts = FALSE], TRUE)
  /\ UNCHANGED <<bucket, stored, generation, restorePromise, restores, troubles>>

SearchMemory(r) ==
  /\ Acts(r, "search") /\ To(r, "ok")
  /\ UNCHANGED <<bucket, stored, lastKey, memory, acked, troubles>>

\* The body is not acceptable, or the engine refuses what it asks for.
Refuse(r) ==
  /\ \/ Acts(r, "add") \/ Acts(r, "delete") \/ Acts(r, "search")
     \/ req[r].step = "arrived" /\ req[r].kind = "init" /\ MayRun(r)
  /\ To(r, "refused")
  /\ UNCHANGED <<bucket, stored, lastKey, memory, acked, troubles>>

PutEnds(r) ==
  /\ req[r].step = "put"
  /\ \E lands \in BOOLEAN, told \in BOOLEAN :
       /\ stored' = IF lands THEN Extended(stored, req[r].key, req[r].ops) ELSE stored
       /\ IF lands /\ told THEN acked' = req[r].ops /\ To(r, "ok") /\ UNCHANGED troubles
          ELSE ~told /\ Trouble /\ To(r, "failed") /\ UNCHANGED acked
  /\ UNCHANGED <<bucket, lastKey, memory>>

\* The isolate is gone and with it all requests; a put on its way may land.
\* Without a bucket nothing outlives it, and nobody was told otherwise.
IsolateLost ==
  /\ Trouble
  /\ \/ \E r \in DOMAIN req : req[r].step = "put" /\ stored' = Extended(stored, req[r].key, req[r].ops)
     \/ UNCHANGED stored
  /\ index' = NoIndex /\ localSnapshot' = <<>> /\ generation' = 0 /\ restorePromise' = 0 /\ restores' = <<>>
  /\ req' = [r \in DOMAIN req |-> IF req[r] = NotYet \/ Over(r) THEN req[r] ELSE [req[r] EXCEPT !.step = "lost"]]
  /\ acked' = IF bucket THEN acked ELSE <<>>
  /\ UNCHANGED <<bucket, lastKey>>

Serve(r) == \/ EnsureIndex(r) \/ InitIndex(r) \/ Reset(r) \/ IndexGone(r) \/ Add(r) \/ Delete(r)
            \/ Compact(r) \/ SearchMemory(r) \/ Refuse(r) \/ PutEnds(r)
RestoreGoesOn(i) == RestoreLists(i) \/ RestoreLoads(i) \/ RestoreFails(i)

RefNext ==
  \/ RequestArrives \/ IsolateLost
  \/ \E r \in 1..MaxAsked : Serve(r)
  \/ \E i \in DOMAIN restores : RestoreGoesOn(i)

-----------------------------------------------------------------------------
\* An index holds all that another does, or was made by a later init.
Covers(ops, others) == IsPrefix(others, ops) \/ (ops # <<>> /\ others # <<>> /\ ops[1] > others[1])

\* What a caller was told is persisted is in every index that is served after,
\* whatever restores are still under way, and is what the next isolate will
\* find; and a mutation never finds its index taken away while it runs
\* (restoreGeneration and runMutation, worker.js 17, 344-429, 492-502). A search
\* may: it answers 500 when a reset comes between its restore and its body.
AcknowledgedSurvives ==
  /\ index # NoIndex => Covers(index.ops, acked)
  /\ bucket => Covers(LatestSnapshot, acked)
  /\ \A r \in DOMAIN req : req[r].step = "body" /\ req[r].kind \in Mutations => index # NoIndex
=============================================================================
