--------------------------- MODULE SketchArtifact ---------------------------
(****************************************************************************)
(* The sketch artifact (pikelet-artifact-sketch.js): coarse sketches of     *)
(* all rows, resident, choose the candidates of a search; their rows are    *)
(* fetched, verified and ranked exactly. A staged open serves from a        *)
(* coarser tier until the sketches are there. Searches are asynchronous     *)
(* and share the reader's row cache and the blob cache of the host.         *)
(*                                                                          *)
(* A vector is a sequence of integers, its row. A sketch pools neighbouring *)
(* coordinates into their rounded mean and, in four bits, keeps a multiple  *)
(* of Step (17 in the code). The scale and offset of a row are left out:    *)
(* they are the same for a row and its sketches. Bytes in transit or in     *)
(* the blob cache may be damaged, and every hash tells.                     *)
(****************************************************************************)
EXTENDS Integers, FiniteSets, SequencesExt

CONSTANTS SketchDims, MicroDims,  \* how many values a row is pooled into, per tier
          Step,                   \* four-bit sketches keep multiples of it
          RowsPerBlock,           \* rows that share a digest page
          CacheRows,              \* rows the cache holds (256 at the least in the code)
          Boost,                  \* microBoost
          Recommended,            \* recommendedRerank of the header; 0 for none
          MaxReranks,             \* what kernels are made for
          Asks                    \* searches: name -> [q, k, rerank, exclude, extra, scanners]

ASSUME SketchAssumption ==
  /\ SketchDims \in Nat \ {0} /\ MicroDims \in Nat \ {0} /\ SketchDims % MicroDims = 0
  /\ MicroDims < SketchDims /\ Step \in Nat \ {0} /\ RowsPerBlock \in Nat \ {0}
  /\ CacheRows \in Nat \ {0} /\ Boost \in Nat \ {0}
  /\ Recommended \in Nat /\ MaxReranks \subseteq Nat \ {0}

VARIABLES sketch,    \* the file: [rows, full, micro]
          tier,      \* what candidates are chosen by: "micro" or "full"
          stage2,    \* the rest of a staged open: none, pending, failed, done
          rowCache,  \* rows kept, least recently used first
          blobs,     \* what the host's blob cache holds: <<"page", b>>, <<"row", id>>
          scanners,  \* scan kernels made: tier -> their maxRerank
          ask        \* search -> where it is

sketchVars == <<sketch, tier, stage2, rowCache, blobs, scanners, ask>>

-----------------------------------------------------------------------------
Sum(s) == FoldLeft(LAMBDA a, x : a + x, 0, s)
Square(x) == x * x

\* Sums of neighbouring coordinates, one per sketch dimension.
Pooled(v, dims) ==
  LET pool == Len(v) \div dims
  IN  [d \in 1..dims |-> Sum(SubSeq(v, (d - 1) * pool + 1, d * pool))]
Rounded(x, y) == (2 * x + y) \div (2 * y)

\* exportSketchArtifact: the full tier in four bits, the micro tier in eight.
Sketch(v, dims, step) ==
  [d \in 1..dims |-> step * Rounded(Rounded(Pooled(v, dims)[d], Len(v) \div dims), step)]
exportSketchArtifact(rows) ==
  [rows |-> rows,
   full |-> [i \in DOMAIN rows |-> Sketch(rows[i], SketchDims, Step)],
   micro |-> [i \in DOMAIN rows |-> Sketch(rows[i], MicroDims, 1)]]

AllRows == DOMAIN sketch.rows
Block(id) == (id - 1) \div RowsPerBlock
Page(b) == <<"page", b>>
Row(id) == <<"row", id>>

\* How far a row is from a query by the sketches of a tier (in units of the
\* pool, squared), and exactly.
activeTier(t) == IF t = "micro" THEN sketch.micro ELSE sketch.full
TierDims(t) == IF t = "micro" THEN MicroDims ELSE SketchDims
Coarse(q, t) ==
  LET dims == TierDims(t)
      pool == Len(q) \div dims
      qPool == Pooled(q, dims)
  IN  [i \in AllRows |-> Sum([d \in 1..dims |-> Square(qPool[d] - pool * activeTier(t)[i][d])])]
Exact(q) == [i \in AllRows |-> Sum([d \in DOMAIN q |-> Square(q[d] - sketch.rows[i][d])])]
Nearer(d, i, j) == d[i] < d[j] \/ (d[i] = d[j] /\ i < j)
Ranked(d, S) == SetToSortSeq(S, LAMBDA i, j : Nearer(d, i, j))
Least(a, b) == IF a < b THEN a ELSE b
Most(a, b) == IF a < b THEN b ELSE a
First(n, s) == SubSeq(s, 1, Least(n, Len(s)))

-----------------------------------------------------------------------------
(* Choosing the candidates.                                                *)

\* How many. Masked rows do not count.
PoolSize(a, t) ==
  LET recommended == IF Recommended > 0 THEN Recommended ELSE Most(100, 10 * a.k)
      want == IF a.rerank > 0 THEN a.rerank ELSE IF t = "micro" THEN recommended * Boost ELSE recommended
  IN  Least(Cardinality(AllRows \ a.exclude), Most(Least(a.k, Cardinality(AllRows)), want))

\* The scan in JavaScript: a row nearer than the farthest of c slots takes the
\* first slot as far as that one. Masked rows are passed over.
Scan(q, t, c, live) ==
  LET d == Coarse(q, t)
      Far(slots) == CHOOSE j \in DOMAIN slots : /\ \A i \in DOMAIN slots : d[slots[i]] <= d[slots[j]]
                                                /\ \A i \in 1..(j - 1) : d[slots[i]] < d[slots[j]]
      Offer(slots, i) ==
        IF i \notin live THEN slots
        ELSE IF Len(slots) < c THEN Append(slots, i)
        ELSE IF d[i] < d[slots[Far(slots)]] THEN [slots EXCEPT ![Far(slots)] = i]
        ELSE slots
  IN  FoldLeft(Offer, <<>>, [i \in AllRows |-> i])

\* The scan kernel knows no mask: the c nearest of all rows, nearest first.
Kernel(q, t, c) == First(c, Ranked(Coarse(q, t), AllRows))

\* The kernel a search uses, if any: one of the tier searched, with room for
\* what it is to return: masked rows come on top of the candidates.
Overfetch(a, t) == PoolSize(a, t) + Cardinality(a.exclude)
KernelFits(a, t) ==
  /\ t \in a.scanners \intersect DOMAIN scanners
  /\ PoolSize(a, t) <= scanners[t]
  /\ a.exclude # {} => Overfetch(a, t) <= Least(Cardinality(AllRows), scanners[t])

Candidates(a, t) ==
  LET c == PoolSize(a, t)
      live == AllRows \ a.exclude
  IN  IF KernelFits(a, t) THEN First(c, SelectSeq(Kernel(a.q, t, Overfetch(a, t)), LAMBDA i : i \in live))
      ELSE IF c >= Cardinality(live) THEN SetToSortSeq(live, <)
      ELSE Scan(a.q, t, c, live)

\* Candidates from elsewhere join, masked or not.
Joined(a, t) == Candidates(a, t) \o SelectSeq(a.extra, LAMBDA i : ~Contains(Candidates(a, t), i))

-----------------------------------------------------------------------------
Unasked == [pc |-> "idle", tier |-> "none", ids |-> <<>>, need |-> {}, answer |-> <<>>]
NoSketch == [rows |-> <<>>, full |-> <<>>, micro |-> <<>>]

SketchInit ==
  /\ sketch = NoSketch
  /\ tier = "none"
  /\ stage2 = "none"
  /\ rowCache = <<>>
  /\ blobs = {}
  /\ scanners = <<>>
  /\ ask = [s \in DOMAIN Asks |-> Unasked]

\* open: what is needed first is read and verified before anybody has the
\* reader; the rest of a staged open follows in the background.
OpenSketch(file, staged) ==
  /\ sketch' = file
  /\ tier' = IF staged THEN "micro" ELSE "full"
  /\ stage2' = IF staged THEN "pending" ELSE "none"
  /\ UNCHANGED <<rowCache, blobs, scanners, ask>>

\* The second stage is verified as a whole before any of it is adopted.
Stage2 ==
  /\ stage2 = "pending"
  /\ \/ stage2' = "done" /\ tier' = "full"
     \/ stage2' = "failed" /\ UNCHANGED tier
  /\ UNCHANGED <<sketch, rowCache, blobs, scanners, ask>>

\* createSketchScanner copies a tier into the engine's heap: there has to be
\* the tier, and the room.
createSketchScanner(t, maxRerank) ==
  /\ t \notin DOMAIN scanners
  /\ t = "full" => tier = "full"
  /\ scanners' = (t :> maxRerank) @@ scanners
  /\ UNCHANGED <<sketch, tier, stage2, rowCache, blobs, ask>>

TouchRow(lru, id) == IF Contains(lru, id) THEN Append(SelectSeq(lru, LAMBDA i : i # id), id) ELSE lru
cacheRow(lru, id) ==
  IF Contains(lru, id) THEN lru
  ELSE LET grown == Append(lru, id) IN IF Len(grown) > CacheRows /\ Len(grown) > 1 THEN Tail(grown) ELSE grown
Keep(lru, ids) == FoldLeft(cacheRow, lru, ids)

\* Everything up to the first await: the tier is the one of this moment.
SketchSearch(s) ==
  LET a == Asks[s]
      ids == Joined(a, tier)
  IN  /\ ask[s].pc = "idle"
      /\ rowCache' = FoldLeft(TouchRow, rowCache, ids)
      /\ ask' = [ask EXCEPT ![s] =
                   IF AllRows \subseteq a.exclude THEN [@ EXCEPT !.pc = "done", !.tier = tier]
                   ELSE [@ EXCEPT !.pc = "blobs", !.tier = tier, !.ids = ids,
                                  !.need = ToSet(ids) \ ToSet(rowCache)]]
      /\ UNCHANGED <<sketch, tier, stage2, blobs, scanners>>

\* What the blob cache has: a row is found by its digest in its page, so the
\* page has to be there too. A damaged piece is a miss, and dropped.
ReadBlobs(s) ==
  LET due == {id \in ask[s].need : Page(Block(id)) \in blobs /\ Row(id) \in blobs}
  IN  /\ ask[s].pc = "blobs"
      /\ \E damaged \in SUBSET {x \in blobs : \E id \in ask[s].need : x \in {Page(Block(id)), Row(id)}} :
           LET hits == {id \in due : damaged \intersect {Page(Block(id)), Row(id)} = {}}
           IN  /\ Cardinality(damaged) <= 1
               /\ blobs' = blobs \ damaged
               /\ rowCache' = Keep(rowCache, SetToSortSeq(hits, <))
               /\ ask' = [ask EXCEPT ![s].pc = "rows", ![s].need = @ \ hits]
      /\ UNCHANGED <<sketch, tier, stage2, scanners>>

\* The rest is fetched block by block, each page and each row verified before
\* it is kept. What is damaged ends the search; what came before it is kept,
\* the page of a damaged row as well.
ReadRows(s) ==
  LET need == SetToSortSeq(ask[s].need, <)
  IN  /\ ask[s].pc = "rows"
      /\ \E n \in 0..Len(need), paged \in BOOLEAN :
           LET good == First(n, need)
               seen == First(IF paged THEN n + 1 ELSE n, need)
           IN  /\ rowCache' = Keep(rowCache, good)
               /\ blobs' = blobs \union {Row(id) : id \in ToSet(good)} \union {Page(Block(id)) : id \in ToSet(seen)}
               /\ ask' = [ask EXCEPT ![s].pc = IF n = Len(need) THEN "rank" ELSE "failed",
                                     ![s].need = {}]
      /\ UNCHANGED <<sketch, tier, stage2, scanners>>

\* The exact ranking.
Rank(s) ==
  /\ ask[s].pc = "rank"
  /\ ask' = [ask EXCEPT ![s].pc = "done",
                        ![s].answer = First(Asks[s].k, Ranked(Exact(Asks[s].q), ToSet(ask[s].ids)))]
  /\ UNCHANGED <<sketch, tier, stage2, rowCache, blobs, scanners>>

clearRowCache ==
  /\ rowCache # <<>>
  /\ rowCache' = <<>>
  /\ UNCHANGED <<sketch, tier, stage2, blobs, scanners, ask>>

SketchNext ==
  \/ Stage2
  \/ \E t \in {"micro", "full"}, m \in MaxReranks : createSketchScanner(t, m)
  \/ \E s \in DOMAIN Asks : SketchSearch(s) \/ ReadBlobs(s) \/ ReadRows(s) \/ Rank(s)
  \/ clearRowCache

-----------------------------------------------------------------------------
\* A search answers with the exactly nearest of its candidates, and the
\* candidates are as many of the nearest live rows, by the tier it began with,
\* as it is to consider: whether a kernel or the plain scan chose them, and
\* however many rows are masked. No masked row is among them unless the caller
\* named it.
SketchAnswers ==
  \A s \in DOMAIN Asks :
    LET a == Asks[s]
        live == AllRows \ a.exclude
        extra == ToSet(a.extra)
        d == Coarse(a.q, ask[s].tier)
    IN  ask[s].pc = "done" =>
          \E chosen \in SUBSET live :
            /\ Cardinality(chosen) = PoolSize(a, ask[s].tier)
            /\ \A i \in chosen, j \in live \ chosen : d[i] <= d[j]
            /\ ask[s].answer =
                 (IF live = {} THEN <<>> ELSE First(a.k, Ranked(Exact(a.q), chosen \union extra)))
=============================================================================
