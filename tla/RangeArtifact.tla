---------------------------- MODULE RangeArtifact ----------------------------
(***************************************************************************)
(* The range artifact (pikelet-artifact-range.js): a snapshot's graph laid *)
(* out as records at computed addresses, and the reader that searches it   *)
(* by fetching records. Searches are asynchronous: several run at once     *)
(* over the reader's two caches, taking turns wherever one awaits.         *)
(*                                                                         *)
(* An address is a record's place in the file, counted in records: first   *)
(* those of the rows above level 0 (the router), then the others.          *)
(* A cache holds row ids: a record is only kept under the id it carries,   *)
(* once that id leads to the address it was read from.                     *)
(***************************************************************************)
EXTENDS Hnsw

CONSTANTS Jobs,          \* searches: name -> [q, k, ef, batch, gap, parallel]
          CacheRecords,  \* records the lazy cache holds (64 at the least in the code)
          MaxRange       \* records a coalesced read is split at

ASSUME RangeAssumption == /\ CacheRecords \in Nat \ {0}
                          /\ MaxRange \in Nat \ {0}
                          /\ \A s \in DOMAIN Jobs : Jobs[s].k > 0 /\ Jobs[s].batch > 0 /\ Jobs[s].parallel > 0

VARIABLES artifact,   \* the file, and whether the reader keeps its router resident
          cache,      \* ids of the records resident for good: the router's
          lazyCache,  \* ids of records fetched, least recently used first
          reload,     \* clearCache: not called, waiting for the router, over
          closed,     \* the source is closed
          job,        \* search -> where it is
          disturbed   \* searches that ran beside another one or a clearCache

rangeVars == <<artifact, cache, lazyCache, reload, closed, job, disturbed>>

-----------------------------------------------------------------------------
(* Building.                                                               *)

\* Breadth first from the row of the smallest degree not reached yet,
\* neighbours by degree; the order reversed.
reverseCuthillMckeePermutation(g) ==
  LET degree(i) == Len(Edges(g, i, 0))
      ByDegree(S) == SetToSortSeq(S, LAMBDA i, j : degree(i) < degree(j) \/ (degree(i) = degree(j) /\ i < j))
      Take(s) == IF s.queue = <<>> THEN s
                 ELSE LET new == ToSet(Edges(g, Head(s.queue), 0)) \ s.visited
                      IN  [order |-> Append(s.order, Head(s.queue)),
                           queue |-> Tail(s.queue) \o ByDegree(new),
                           visited |-> s.visited \union new]
      Sweep(s, start) == IF start \in s.visited THEN s
                         ELSE FoldLeft(LAMBDA t, i : Take(t),
                                       [s EXCEPT !.queue = <<start>>, !.visited = @ \union {start}],
                                       [i \in Rows(g) |-> i])
  IN  Reverse(FoldLeft(Sweep, [order |-> <<>>, queue |-> <<>>, visited |-> {}], ByDegree(Rows(g))).order)

writeNodeRecord(g, id) ==
  [id |-> id, level |-> Level(g, id), vec |-> g.vec[id], base |-> Edges(g, id, 0),
   upper |-> [l \in 1..g.max |-> IF l <= Level(g, id) THEN Edges(g, id, l) ELSE <<>>]]

\* Where a row's record is: which segment, and its ordinal there.
\* Mutant: ordinals are those of the permutation, not those of the segment.
exportSplitArtifact_Ordinals(g) ==
  LET order  == reverseCuthillMckeePermutation(g)
      router == SelectSeq(order, LAMBDA i : Level(g, i) > 0)
      base   == SelectSeq(order, LAMBDA i : Level(g, i) = 0)
      ids    == router \o base
      Place(id) == [router |-> Contains(router, id),
                    ordinal |-> CHOOSE i \in DOMAIN order : order[i] = id]
  IN  [file |-> [a \in DOMAIN ids |-> writeNodeRecord(g, ids[a])],
       idMap |-> [id \in Rows(g) |-> Place(id)],
       router |-> Len(router), entry |-> g.entry, max |-> g.max, resident |-> FALSE]
exportSplitArtifact(g) ==
  LET order  == reverseCuthillMckeePermutation(g)
      router == SelectSeq(order, LAMBDA i : Level(g, i) > 0)
      base   == SelectSeq(order, LAMBDA i : Level(g, i) = 0)
      ids    == router \o base
      In(segment, id) == CHOOSE i \in DOMAIN segment : segment[i] = id
      Place(id) == IF Contains(router, id) THEN [router |-> TRUE, ordinal |-> In(router, id)]
                   ELSE [router |-> FALSE, ordinal |-> In(base, id)]
  IN  [file |-> [a \in DOMAIN ids |-> writeNodeRecord(g, ids[a])],
       idMap |-> [id \in Rows(g) |-> Place(id)],
       router |-> Len(router), entry |-> g.entry, max |-> g.max, resident |-> FALSE]

-----------------------------------------------------------------------------
(* Reading.                                                                *)
Count == Len(artifact.file)

recordAddressForId(id) ==
  LET at == artifact.idMap[id]
  IN  IF at.router THEN at.ordinal ELSE artifact.router + at.ordinal

Node(id) == artifact.file[recordAddressForId(id)]
Distances(q) == [id \in 1..Count |-> L2(q, Node(id).vec)]

\* The bounds a record is decoded under.
decodeNode(r) ==
  /\ r.level <= artifact.max /\ Len(r.base) <= M0
  /\ \A l \in DOMAIN r.upper : Len(r.upper[l]) <= M /\ ToSet(r.upper[l]) \subseteq 1..Count
  /\ ToSet(r.base) \subseteq 1..Count
Accepted(a) == LET r == artifact.file[a]
               IN  r.id \in 1..Count /\ recordAddressForId(r.id) = a /\ decodeNode(r)

Cached(id) == id \in cache \/ Contains(lazyCache, id)
Touch(lru, id) == IF Contains(lru, id) /\ id \notin cache
                  THEN Append(SelectSeq(lru, LAMBDA i : i # id), id) ELSE lru
cacheLazyNode(lru, id) ==
  LET grown == Append(lru, id)
  IN  IF Len(grown) > CacheRecords /\ Len(grown) > 1 THEN Tail(grown) ELSE grown

\* The runs of records to fetch: addresses no farther apart than the gap are
\* read together, a run longer than MaxRange in pieces, and as many pieces at
\* a time as the search allows.
Coalesce(addresses, gap) ==
  FoldLeft(LAMBDA runs, a : IF runs # <<>> /\ a <= Last(runs)[2] + 1 + gap
                            THEN Front(runs) \o <<<<Last(runs)[1], a>>>>
                            ELSE Append(runs, <<a, a>>),
           <<>>, addresses)
Split(run) ==
  LET pieces == (run[2] - run[1]) \div MaxRange + 1
      End(i) == run[1] + i * MaxRange - 1
  IN  [i \in 1..pieces |-> <<run[1] + (i - 1) * MaxRange, IF End(i) < run[2] THEN End(i) ELSE run[2]>>]
Batches(ranges, n) ==
  [i \in 1..((Len(ranges) + n - 1) \div n) |->
     SubSeq(ranges, (i - 1) * n + 1, IF i * n < Len(ranges) THEN i * n ELSE Len(ranges))]

\* prefetch: what is not cached is asked for; a closed source refuses. `one`
\* says that readNode fetches a single record it did not find.
prefetch(s, j, ids, one) ==
  LET missing == SetToSortSeq({recordAddressForId(id) : id \in {i \in ToSet(ids) : ~Cached(i)}}, <)
      gap == IF one THEN 0 ELSE Jobs[s].gap
      ranges == FoldLeft(LAMBDA rs, run : rs \o Split(run), <<>>, Coalesce(missing, gap))
  IN  IF missing = <<>> THEN [j EXCEPT !.pc = "reading"]
      ELSE IF closed THEN [j EXCEPT !.pc = "failed"]
      ELSE [j EXCEPT !.pc = "fetching", !.one = one,
                     !.batches = Batches(ranges, IF one THEN 1 ELSE Jobs[s].parallel)]
Round(s, j, ids) == prefetch(s, [j EXCEPT !.todo = ids], ids, FALSE)

\* decodeRange, for every range of a batch: the records between those asked
\* for are kept too. (A record that is refused ends the search.)
Decode(lru, range) ==
  FoldLeft(LAMBDA c, a : LET id == artifact.file[a].id
                         IN  IF id \in cache \/ Contains(c, id) THEN c ELSE cacheLazyNode(c, id),
           lru, [i \in 1..(range[2] - range[1] + 1) |-> range[1] + i - 1])

-----------------------------------------------------------------------------
(* A search between its awaits. Greedy descent, then the beam; the heaps   *)
(* are sets, taken from by (distance, id).                                 *)
Start0 == [pc |-> "reading", stage |-> "entry", todo |-> <<>>, batches |-> <<>>, one |-> FALSE,
           at |-> None, level |-> 0, changed |-> FALSE,
           open |-> {}, visited |-> {}, results |-> {}, toVisit |-> <<>>, answer |-> <<>>]

Ef(s) == LET k == IF Jobs[s].k < Count THEN Jobs[s].k ELSE Count
         IN  IF Jobs[s].ef > k THEN Jobs[s].ef ELSE k

\* The next candidates: nearest first, none farther than the worst result of
\* a full beam. None left: the search answers.
ExpandBatch(s, j) ==
  LET d == Distances(Jobs[s].q)
      near == SelectSeq(ByDistance(d, j.open),
                        LAMBDA c : ~(Cardinality(j.results) >= Ef(s) /\ d[c] > d[Farthest(d, j.results)]))
      batch == SubSeq(near, 1, IF Jobs[s].batch < Len(near) THEN Jobs[s].batch ELSE Len(near))
      found == ByDistance(d, j.results)
  IN  IF batch = <<>>
      THEN [j EXCEPT !.pc = "done",
                     !.answer = SubSeq(found, 1, IF Jobs[s].k < Len(found) THEN Jobs[s].k ELSE Len(found))]
      ELSE [j EXCEPT !.pc = "reading", !.stage = "expand", !.todo = batch,
                     !.open = @ \ ToSet(batch), !.toVisit = <<>>]

\* Down to the next level at which the current row has neighbours.
NextLevel(s, j, level) ==
  LET below == {l \in 1..level : Node(j.at).upper[l] # <<>>}
      l == CHOOSE x \in below : \A y \in below : y <= x
  IN  IF below = {} THEN [j EXCEPT !.pc = "reading", !.stage = "start", !.todo = <<j.at>>]
      ELSE Round(s, [j EXCEPT !.stage = "climb", !.level = l, !.changed = FALSE], Node(j.at).upper[l])

\* What a search does with the record of the row it read.
TakeEntry(s, j, id) == NextLevel(s, [j EXCEPT !.at = id], artifact.max)
TakeClimb(s, j, id) ==
  LET d == Distances(Jobs[s].q)
      next == IF d[id] < d[j.at] THEN [j EXCEPT !.at = id, !.changed = TRUE] ELSE j
  IN  IF j.todo # <<>> THEN next ELSE NextLevel(s, next, IF next.changed THEN j.level ELSE j.level - 1)
TakeStart(s, j, id) == ExpandBatch(s, [j EXCEPT !.open = {id}, !.visited = {id}, !.results = {id}])
TakeExpand(s, j, id) ==
  LET next == FoldLeft(LAMBDA t, n : IF n \in t.visited THEN t
                                     ELSE [t EXCEPT !.visited = @ \union {n}, !.toVisit = Append(@, n)],
                       j, Node(id).base)
  IN  IF j.todo # <<>> THEN next
      ELSE IF next.toVisit = <<>> THEN ExpandBatch(s, next)
      ELSE Round(s, [next EXCEPT !.stage = "visit"], next.toVisit)
TakeVisit(s, j, id) ==
  LET d == Distances(Jobs[s].q)
      found == j.results \union {id}
      next == IF Cardinality(j.results) < Ef(s) \/ d[id] < d[Farthest(d, j.results)]
              THEN [j EXCEPT !.open = @ \union {id},
                             !.results = IF Cardinality(found) > Ef(s) THEN found \ {Farthest(d, found)} ELSE found]
              ELSE j
  IN  IF j.todo # <<>> THEN next ELSE ExpandBatch(s, next)
Took(s, j) ==
  LET id == Head(j.todo)
      rest == [j EXCEPT !.todo = Tail(@), !.pc = "reading"]
  IN  CASE j.stage = "entry"  -> TakeEntry(s, rest, id)
        [] j.stage = "climb"  -> TakeClimb(s, rest, id)
        [] j.stage = "start"  -> TakeStart(s, rest, id)
        [] j.stage = "expand" -> TakeExpand(s, rest, id)
        [] j.stage = "visit"  -> TakeVisit(s, rest, id)

-----------------------------------------------------------------------------
Idle == [s \in DOMAIN Jobs |-> [Start0 EXCEPT !.pc = "idle"]]
Unopened == [file |-> <<>>, idMap |-> <<>>, router |-> 0, entry |-> None, max |-> 0, resident |-> FALSE]

RangeInit ==
  /\ artifact = Unopened
  /\ cache = {}
  /\ lazyCache = <<>>
  /\ reload = "none"
  /\ closed = FALSE
  /\ job = Idle
  /\ disturbed = {}

\* The router segment, verified and decoded; nothing of it without loadRouter.
loadRouterSegment(art) == IF art.resident THEN {art.file[a].id : a \in 1..art.router} ELSE {}

\* open: the header, the id map and the router segment are read and verified
\* before anybody has the reader.
OpenRange(file, loadRouter) ==
  /\ artifact' = [file EXCEPT !.resident = loadRouter]
  /\ cache' = loadRouterSegment(artifact')
  /\ UNCHANGED <<lazyCache, reload, closed, job, disturbed>>

Running == {s \in DOMAIN Jobs : job[s].pc \notin {"idle", "done", "failed"}}

RangeSearch(s) ==
  /\ job[s].pc = "idle"
  /\ job' = [job EXCEPT ![s] = Round(s, Start0, <<artifact.entry>>)]
  /\ disturbed' = IF Running = {} THEN disturbed ELSE disturbed \union Running \union {s}
  /\ UNCHANGED <<artifact, cache, lazyCache, reload, closed>>

\* A batch of reads is complete and decoded; the next one is asked for.
Arrive(s) ==
  LET j == job[s]
      rest == Tail(j.batches)
      sound == \A r \in ToSet(Head(j.batches)) : \A a \in r[1]..r[2] : Accepted(a)
  IN  /\ j.pc = "fetching"
      /\ lazyCache' = IF sound THEN FoldLeft(Decode, lazyCache, Head(j.batches)) ELSE lazyCache
      /\ job' = [job EXCEPT ![s].batches = rest,
                            ![s].pc = IF ~sound \/ (rest # <<>> /\ closed) THEN "failed"
                                      ELSE IF rest # <<>> THEN "fetching"
                                      ELSE IF j.one THEN "checking" ELSE "reading"]
      /\ UNCHANGED <<artifact, cache, reload, closed, disturbed>>

\* readNode: a record that is not cached, or not any more, is fetched.
readNode(s) ==
  LET id == Head(job[s].todo)
  IN  /\ job[s].pc = "reading"
      /\ lazyCache' = Touch(lazyCache, id)
      /\ job' = [job EXCEPT ![s] = IF Cached(id) THEN Took(s, @) ELSE prefetch(s, @, <<id>>, TRUE)]
      /\ UNCHANGED <<artifact, cache, reload, closed, disturbed>>

\* ... and looked up once more. It may have gone again by then.
Recheck(s) ==
  LET id == Head(job[s].todo)
  IN  /\ job[s].pc = "checking"
      /\ lazyCache' = Touch(lazyCache, id)
      /\ job' = [job EXCEPT ![s] = IF Cached(id) THEN Took(s, @) ELSE [@ EXCEPT !.pc = "failed"]]
      /\ UNCHANGED <<artifact, cache, reload, closed, disturbed>>

\* Both caches are emptied at once; the router comes back by and by. (Bound:
\* called once.)
clearCache ==
  /\ reload = "none" /\ ~closed
  /\ cache' = {}
  /\ lazyCache' = <<>>
  /\ reload' = IF artifact.resident /\ artifact.router > 0 /\ ~closed THEN "loading" ELSE "over"
  /\ disturbed' = disturbed \union Running
  /\ UNCHANGED <<artifact, closed, job>>
RouterArrives ==
  /\ reload = "loading"
  /\ reload' = "over"
  /\ cache' = cache \union loadRouterSegment(artifact)
  /\ UNCHANGED <<artifact, lazyCache, closed, job, disturbed>>

CloseRange ==
  /\ ~closed /\ reload = "none"
  /\ closed' = TRUE
  /\ UNCHANGED <<artifact, cache, lazyCache, reload, job, disturbed>>

RangeNext ==
  \/ \E s \in DOMAIN Jobs : RangeSearch(s) \/ Arrive(s) \/ readNode(s) \/ Recheck(s)
  \/ clearCache \/ RouterArrives \/ CloseRange
=============================================================================
