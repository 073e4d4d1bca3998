----------------------------- MODULE Retrieval -----------------------------
(****************************************************************************)
(* How a query chooses and orders records (packages/pikelet-wasm/complete): *)
(* retrieveCandidates of index.mjs for a pack, query of layer-reader.mjs    *)
(* for a chain, and what both call: search of lexical.mjs and               *)
(* fuseCandidates of fusion.mjs. All of it is a function of what is asked   *)
(* and of the pack, so there are no steps here; the reads of a query are    *)
(* CompleteReader's, and the search of the sketch index SketchArtifact's,   *)
(* of which what matters here is repeated.                                  *)
(*                                                                          *)
(* One query is fixed. A record has, for each of its rows, how far it is    *)
(* from it and how near its sketch looks, the terms of the query it has,    *)
(* and whether it has all of its text verbatim. How often a term occurs,    *)
(* and how long a record is, are left out of its score. The global ids of   *)
(* a chain are those of its records one after the other.                    *)
(****************************************************************************)
EXTENDS Integers, FiniteSets, SequencesExt, FiniteSetsExt

CONSTANTS RrfK,               \* rrfK of FUSION_DEFAULTS
          LexicalCandidates,  \* LEXICAL_CANDIDATES
          Packs               \* [records, masked]

VARIABLE pack

Records == pack.records
AllIds == DOMAIN Records
Terms == UNION {Records[i].terms : i \in AllIds}
Modes == {"hybrid", "augmented", "vector", "lexical"}
\* The members of a set by a strict total order.
Sorted(S, Op(_, _)) == [n \in 1..Cardinality(S) |-> CHOOSE x \in S : Cardinality({y \in S : Op(y, x)}) = n - 1]
FirstOf(n, s) == SubSeq(s, 1, IF n < Len(s) THEN n ELSE Len(s))

-----------------------------------------------------------------------------
(* BM25, over the records of one member.                                   *)

documentFrequencies(ids) == [t \in Terms |-> Cardinality({i \in ids : t \in Records[i].terms})]

\* The idf of a term falls as more records have it.
Score(i, docCount, df) == MapThenSumSet(LAMBDA t : docCount + 1 - df[t], Records[i].terms)
Better(a, b) == a.score > b.score \/ (a.score = b.score /\ a.id < b.id)

\* Excluded records take none of the places.
LexicalSearch(ids, exclude, docCount, df) ==
  LET found == {[id |-> i, score |-> Score(i, docCount, df)] : i \in {j \in ids \ exclude : Records[j].terms # {}}}
  IN  FirstOf(LexicalCandidates, Sorted(found, Better))

\* Hits far below the best say nothing: LEXICAL_CUTOFF is 3/2.
Cutoff(hits) == SelectSeq(hits, LAMBDA h : 3 * h.score >= 2 * hits[1].score)
IdsOf(hits) == [n \in DOMAIN hits |-> hits[n].id]

-----------------------------------------------------------------------------
(* The sketch index: rows are <<record, row>>.                             *)

RowsOf(ids) == UNION {{<<i, r>> : r \in DOMAIN Records[i].rows} : i \in ids}
RowAt(row) == Records[row[1]].rows[row[2]]
Before(a, b) == a[1] < b[1] \/ (a[1] = b[1] /\ a[2] < b[2])
LooksNearer(a, b) == RowAt(a).near < RowAt(b).near \/ (RowAt(a).near = RowAt(b).near /\ Before(a, b))
Nearer(a, b) == RowAt(a).dist < RowAt(b).dist \/ (RowAt(a).dist = RowAt(b).dist /\ Before(a, b))

\* As many of the live rows as look nearest; the extra ones join them, masked
\* or not. All are ranked by their distance.
SketchSearch(ids, exclude, k, rerank, extra) ==
  LET live == RowsOf(ids \ exclude)
      candidates == FirstOf(IF rerank > k THEN rerank ELSE k, Sorted(live, LooksNearer))
  IN  Sorted(ToSet(candidates) \cup RowsOf(extra), Nearer)

\* Records in the order of the first of their rows, with its distance.
Collapse(rows) ==
  FoldLeft(LAMBDA out, row : IF \E n \in DOMAIN out : out[n].id = row[1] THEN out
                             ELSE Append(out, [id |-> row[1], distance |-> RowAt(row).dist]),
           <<>>, rows)

-----------------------------------------------------------------------------
(* Fusion.                                                                 *)

RankIn(s, id) == CHOOSE n \in DOMAIN s : s[n] = id

\* 1/(K + v) + 1/2 / (K + l), as a fraction; l is there for lexical hits only.
\* Ranks count from 0 in the code.
RrfScore(v, lexical, id) ==
  LET rank == RrfK + v - 1
  IN  IF ~Contains(lexical, id) THEN <<1, rank>>
      ELSE LET l == RrfK + RankIn(lexical, id) - 1 IN <<2 * l + rank, 2 * l * rank>>

\* The hit that is nearer than the next by a twentieth of its distance is first.
Leads(hits) == LET a == hits[1].distance
                   b == hits[2].distance
               IN  IF a > 0 THEN 20 * (b - a) >= a ELSE b > 0
ToFront(hits, id) == SelectSeq(hits, LAMBDA h : h.id = id) \o SelectSeq(hits, LAMBDA h : h.id # id)

fuseCandidates(hits, lexical) ==
  LET score == [v \in DOMAIN hits |-> RrfScore(v, lexical, hits[v].id)]
      order == Sorted(DOMAIN hits, LAMBDA v, w :
                 LET a == score[v][1] * score[w][2]
                     b == score[w][1] * score[v][2]
                 IN  a > b \/ (a = b /\ v < w))
      fused == [n \in DOMAIN hits |-> hits[order[n]]]
  IN  IF lexical = <<>> THEN hits
      ELSE IF Len(hits) > 1 /\ Leads(hits) THEN ToFront(fused, hits[1].id) ELSE fused

-----------------------------------------------------------------------------
\* What is asked: [retrieval, k, rerank, phrase]; phrase when the query has
\* three words or more. The order of a mode, and the whole of it.
Pin(hits, lexical) ==
  LET verbatim == SelectSeq(FirstOf(3, lexical), LAMBDA i : Records[i].verbatim)
  IN  IF verbatim = <<>> THEN hits ELSE ToFront(hits, verbatim[1])
InLexicalOrder(hits, lexical) ==
  LET ranked == SelectSeq(lexical, LAMBDA i : Contains(IdsOf(hits), i))
  IN  [n \in DOMAIN ranked |-> hits[RankIn(IdsOf(hits), ranked[n])]]

\* retrieveCandidates of a pack.
Retrieve(q) ==
  LET ids == AllIds
      df == documentFrequencies(ids)
      raw == IF q.retrieval = "vector" THEN <<>> ELSE LexicalSearch(ids, pack.masked, Len(Records), df)
      lexical == IdsOf(Cutoff(raw))
      rows == Cardinality(RowsOf(ids))
      searchK == (q.k * rows + Len(Records) - 1) \div Len(Records)
      searched == Collapse(SketchSearch(ids, pack.masked, searchK, q.rerank, ToSet(lexical)))
      full == CASE q.retrieval = "lexical" -> InLexicalOrder(searched, lexical)
                [] q.retrieval # "augmented" /\ lexical # <<>> ->
                     IF q.phrase THEN Pin(fuseCandidates(searched, lexical), lexical)
                     ELSE fuseCandidates(searched, lexical)
                [] OTHER -> searched
  IN  [lexical |-> lexical, searched |-> searched, full |-> full, results |-> FirstOf(q.k, full)]

\* query of a chain: tiers are the members with records, each the ids it has.
projectMask(tier) == tier \intersect pack.masked

\* Mutant: the mask is applied to the merged hits of the tiers.
ChainLexical_MaskLate(tiers) ==
  LET df == [t \in Terms |-> MapThenSumSet(LAMBDA tier : documentFrequencies(tier)[t], tiers)]
      merged == UNION {ToSet(LexicalSearch(tier, {}, Len(Records), df)) : tier \in tiers}
      live == {h \in merged : h.id \notin pack.masked}
  IN  FirstOf(LexicalCandidates, Cutoff(Sorted(live, Better)))

ChainLexical(tiers) ==
  LET df == [t \in Terms |-> MapThenSumSet(LAMBDA tier : documentFrequencies(tier)[t], tiers)]
      merged == UNION {ToSet(LexicalSearch(tier, projectMask(tier), Len(Records), df)) : tier \in tiers}
  IN  FirstOf(LexicalCandidates, Cutoff(Sorted(merged, Better)))

ChainRetrieve(tiers, q) ==
  LET lexical == IF q.retrieval = "vector" THEN <<>> ELSE IdsOf(ChainLexical(tiers))
      Extra(tier) == {i \in ToSet(lexical) \intersect tier : i \notin projectMask(tier)}
      Tier(tier) == ToSet(SketchSearch(tier, projectMask(tier),
                            IF q.k < Cardinality(tier) THEN q.k ELSE Cardinality(tier), q.rerank, Extra(tier)))
      rows == Sorted(UNION {Tier(tier) : tier \in tiers}, Nearer)
      searched == [n \in DOMAIN rows |-> [id |-> rows[n][1], distance |-> RowAt(rows[n]).dist]]
      full == CASE q.retrieval = "lexical" -> InLexicalOrder(searched, lexical)
                [] q.retrieval = "hybrid" -> fuseCandidates(searched, lexical)
                [] OTHER -> searched
  IN  [lexical |-> lexical, searched |-> searched, full |-> full, results |-> FirstOf(q.k, full)]

NoPack == [records |-> <<>>, masked |-> {}]

-----------------------------------------------------------------------------
\* A phrase matters to the hybrid order only.
Queries == {q \in [retrieval : Modes, k : 1..2, rerank : {1, Cardinality(RowsOf(AllIds))}, phrase : BOOLEAN] :
              q.phrase => q.retrieval = "hybrid"}
Everything(q) == q.rerank > 1

\* The ways to spread the records over the members of a chain; only a pack
\* with a row per record can be in one.
Chains ==
  IF \E i \in AllIds : Len(Records[i].rows) > 1 THEN {}
  ELSE {{{i \in AllIds : \A c \in cuts : (i < c) = (j < c)} : j \in AllIds} : cuts \in SUBSET (AllIds \ {1})}

\* However its records are spread over layers and whatever is tombstoned, a
\* chain answers as one pack of all of them would with those left out, when
\* every row is ranked; and when only some are, what it ranks is no farther.
LayersDoNotMatter(q, one, chain) ==
  /\ chain.lexical = one.lexical
  /\ Everything(q) /\ ~q.phrase => chain.results = one.results
  /\ Len(chain.searched) >= Len(one.searched)
  /\ \A n \in DOMAIN one.searched : chain.searched[n].distance <= one.searched[n].distance

\* No tombstoned or excluded record is answered, and none twice; what the words
\* of a query find is ranked by its best row, whatever the sketches left out;
\* and who is nearer than the next by a twentieth is first, or a verbatim hit.
RankingSound(q, a) ==
  LET answered == {a.full[n].id : n \in DOMAIN a.full}
  IN  /\ answered \intersect pack.masked = {}
      /\ Cardinality(answered) = Len(a.full)
      /\ ToSet(a.lexical) \subseteq answered
      /\ \A n \in DOMAIN a.full : a.full[n].id \in ToSet(a.lexical) =>
           \A r \in DOMAIN Records[a.full[n].id].rows : a.full[n].distance <= Records[a.full[n].id].rows[r].dist
      /\ q.retrieval = "hybrid" /\ Len(a.searched) > 1
         /\ 20 * a.searched[2].distance >= 21 * a.searched[1].distance /\ a.searched[2].distance > 0 =>
           a.full[1] = a.searched[1] \/ (q.phrase /\ Records[a.full[1].id].verbatim)

\* Who is nearer and matches the words no worse is not ranked behind, unless
\* by the two rules that put one hit first.
FusionMonotone(a) ==
  \A m, n \in DOMAIN a.full :
    LET i == a.full[m].id
        j == a.full[n].id
        Ahead(s) == Contains(s, i) /\ (Contains(s, j) => RankIn(s, i) < RankIn(s, j))
    IN  n # 1 /\ Ahead(IdsOf(a.searched)) /\ (Ahead(a.lexical) \/ ~Contains(a.lexical, j)) => m < n

\* Queries are answered by what was asked for, not by how the records came to
\* be where they are (search of lexical.mjs, 203-213; layer-reader.mjs 410-515;
\* fusion.mjs 12-18).
RetrievalSound ==
  pack # NoPack => \A q \in Queries :
    LET one == Retrieve(q)
        chains == {ChainRetrieve(tiers, q) : tiers \in Chains}
    IN  /\ \A chain \in chains : LayersDoNotMatter(q, one, chain)
        /\ \A a \in chains \cup {one} : RankingSound(q, a) /\ (q.retrieval = "hybrid" => FusionMonotone(a))
=============================================================================
