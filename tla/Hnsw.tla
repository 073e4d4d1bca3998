-------------------------------- MODULE Hnsw --------------------------------
(***************************************************************************)
(* The HNSW graph of the engine (float_hnsw.hpp): inserting a vector,      *)
(* searching, soft deletion, compaction, and what a snapshot must satisfy  *)
(* to be loaded. A graph is a value and every operation a function of it;  *)
(* PikeletIndex runs them one after the other.                             *)
(*                                                                         *)
(*   vec      the vectors, row i of the graph at position i (ids count     *)
(*            from 1 here, from 0 in the code; 0 is the code's UINT32_MAX) *)
(*   edges    per row, its neighbour list of every level up to its own     *)
(*            (the code keeps level 0 in fixed slots of M0 entries)        *)
(*   deleted  the ghosts: rows deleted and not compacted away              *)
(*   entry    the row where searches start, max its level                  *)
(*   drawn    how many levels the random generator has given out           *)
(*                                                                         *)
(* Vectors are points of the plane under the squared L2 metric, compared   *)
(* exactly. The levels the seeded generator draws are an argument, levs: a *)
(* sequence the generator follows from its start whenever it is seeded.    *)
(***************************************************************************)
EXTENDS Integers, FiniteSets, SequencesExt

CONSTANTS M,              \* most neighbours above level 0
          EfConstruction  \* beam width of an insertion

ASSUME ConfigAssumption == M \in Nat /\ M >= 2 /\ EfConstruction \in Nat \ {0}

None == 0
M0 == 2 * M
Cap(l) == IF l = 0 THEN M0 ELSE M

EmptyGraph == [vec |-> <<>>, edges |-> <<>>, deleted |-> {}, entry |-> None, max |-> 0, drawn |-> 0]

Rows(g)    == 1..Len(g.vec)
Level(g, i) == Len(g.edges[i]) - 1
Edges(g, i, l) == g.edges[i][l + 1]
SetEdges(g, i, l, es) == [g EXCEPT !.edges[i][l + 1] = es]
L2(u, v) == (u[1] - v[1]) * (u[1] - v[1]) + (u[2] - v[2]) * (u[2] - v[2])
Dist(g, i, j) == L2(g.vec[i], g.vec[j])

\* Pairs (distance, id) compare as in std::pair: by distance, ties by id.
Before(d, i, j) == d[i] < d[j] \/ (d[i] = d[j] /\ i < j)
Nearest(d, S)  == CHOOSE i \in S : \A j \in S \ {i} : Before(d, i, j)
Farthest(d, S) == CHOOSE i \in S : \A j \in S \ {i} : Before(d, j, i)
ByDistance(d, S) == SetToSortSeq(S, LAMBDA i, j : Before(d, i, j))
From(g, q) == [i \in Rows(g) |-> L2(q, g.vec[i])]

-----------------------------------------------------------------------------
(* Keep a candidate that is no closer to a kept one than to the node, at   *)
(* most m of them; then fill up with the closest of the others.            *)
Diverse(g, node, m, kept, c) ==
  IF /\ Len(kept) < m
     /\ \A i \in 1..Len(kept) : Dist(g, c, kept[i]) >= Dist(g, node, c)
  THEN Append(kept, c) ELSE kept
Fill(m, kept, c) ==
  IF Len(kept) < m /\ ~Contains(kept, c) THEN Append(kept, c) ELSE kept
select_neighbors_heuristic(g, node, cands, m) ==
  FoldLeft(LAMBDA kept, c : Fill(m, kept, c),
           FoldLeft(LAMBDA kept, c : Diverse(g, node, m, kept, c), <<>>, cands),
           cands)

\* A neighbour list in the order std::sort gives its (distance, id) pairs.
Sorted(g, node, es) ==
  LET d == From(g, g.vec[node])
  IN  SortSeq(es, LAMBDA i, j : Before(d, i, j))

prune_neighbors(g, node, l, m) ==
  SetEdges(g, node, l, select_neighbors_heuristic(g, node, Sorted(g, node, Edges(g, node, l)), m))

\* A list above level 0 grows past its cap, and its caller prunes it.
append_neighbor(g, node, l, nb) ==
  LET es == Edges(g, node, l)
  IN  IF l > 0 \/ Len(es) < M0 THEN SetEdges(g, node, l, Append(es, nb))
      ELSE IF Contains(es, nb) THEN g
      ELSE SetEdges(g, node, 0, select_neighbors_heuristic(g, node, Sorted(g, node, Append(es, nb)), M0))

Connect(g, node, l, nb) ==
  LET h == append_neighbor(g, node, l, nb)
  IN  IF Len(Edges(h, node, l)) > Cap(l) THEN prune_neighbors(h, node, l, Cap(l)) ELSE h

-----------------------------------------------------------------------------
(* One step of the beam: expand the nearest open candidate, unless it is   *)
(* farther than the worst of ef results. Rows outside shown are walked     *)
(* through and never become results.                                       *)
\* Mutant: a row that may not be a result is not walked through either.
Visit_LiveOnly(d, ef, shown, b, n) ==
  IF n \in b.visited \/ n \notin shown THEN b
  ELSE LET found == b.results \union {n}
       IN  IF Cardinality(b.results) < ef \/ d[n] < d[Farthest(d, b.results)]
           THEN [b EXCEPT !.visited = @ \union {n}, !.open = @ \union {n},
                          !.results = IF Cardinality(found) > ef
                                      THEN found \ {Farthest(d, found)} ELSE found]
           ELSE [b EXCEPT !.visited = @ \union {n}]
Visit(d, ef, shown, b, n) ==
  IF n \in b.visited THEN b
  ELSE LET worst == Farthest(d, b.results)
           found == b.results \union ({n} \intersect shown)
       IN  IF Cardinality(b.results) < ef \/ d[n] < d[worst]
           THEN [b EXCEPT !.visited = @ \union {n}, !.open = @ \union {n},
                          !.results = IF Cardinality(found) > ef
                                      THEN found \ {Farthest(d, found)} ELSE found]
           ELSE [b EXCEPT !.visited = @ \union {n}]
Expand(g, d, ef, l, shown, b) ==
  IF b.open = {} THEN b
  ELSE LET c == Nearest(d, b.open)
       IN  IF Cardinality(b.results) >= ef /\ d[c] > d[Farthest(d, b.results)]
           THEN [b EXCEPT !.open = {}]
           ELSE FoldLeft(LAMBDA s, n : Visit(d, ef, shown, s, n),
                         [b EXCEPT !.open = @ \ {c}], Edges(g, c, l))

\* Every row is opened at most once, so as many steps as rows finish it.
Beam(g, d, entry, ef, l, shown) ==
  LET start == [open |-> {entry}, visited |-> {entry}, results |-> {entry} \intersect shown]
      end == FoldLeft(LAMBDA b, i : Expand(g, d, ef, l, shown, b), start,
                      [i \in 1..Len(g.vec) |-> i])
  IN  ByDistance(d, end.results)

\* Hill climbing on one level, until no edge of the current row improves on it.
Closer(d, at, n) == IF d[n] < d[at] THEN n ELSE at
Climb(g, d, at, l) ==
  FoldLeft(LAMBDA a, i : FoldLeft(LAMBDA c, n : Closer(d, c, n), a, Edges(g, a, l)),
           at, [i \in 1..Len(g.vec) |-> i])
Descend(g, d, top, bottom, at) ==
  FoldLeft(LAMBDA a, i : Climb(g, d, a, top + 1 - i), at, [i \in 1..(top - bottom) |-> i])

-----------------------------------------------------------------------------
(* Link a new row into one level: its neighbours from a beam search, and   *)
(* itself into the list of each of them.                                   *)
LinkLevel(s, id, l) ==
  LET g == s.g
      cands == Beam(g, From(g, g.vec[id]), s.at, EfConstruction, l, Rows(g))
      nbs == select_neighbors_heuristic(g, id, cands, Cap(l))
  IN  [g  |-> FoldLeft(LAMBDA h, n : Connect(h, n, l, id), SetEdges(g, id, l, nbs), nbs),
       at |-> cands[1]]

\* FloatHNSW::insert: the caller has checked the capacity.
insert(g, v, levs) ==
  LET id == Len(g.vec) + 1
      lev == levs[g.drawn + 1]
      g1 == [g EXCEPT !.vec = Append(@, v), !.drawn = @ + 1,
                      !.edges = Append(@, [l \in 1..(lev + 1) |-> <<>>])]
      top == IF lev < g.max THEN lev ELSE g.max
      at == Descend(g1, From(g1, v), g.max, top, g.entry)
      g2 == FoldLeft(LAMBDA s, i : LinkLevel(s, id, top + 1 - i), [g |-> g1, at |-> at],
                     [i \in 1..(top + 1) |-> i]).g
  IN  IF g.entry = None THEN [g1 EXCEPT !.entry = id, !.max = lev]
      ELSE IF lev > g.max THEN [g2 EXCEPT !.entry = id, !.max = lev]
      ELSE g2

search(g, q, k, ef) ==
  LET d == From(g, q)
      at == Descend(g, d, g.max, 0, g.entry)
      found == Beam(g, d, at, IF ef > k THEN ef ELSE k, 0, Rows(g) \ g.deleted)
  IN  IF g.vec = <<>> THEN <<>> ELSE SubSeq(found, 1, IF k < Len(found) THEN k ELSE Len(found))

mark_delete(g, id) == [g EXCEPT !.deleted = @ \union {id}]

-----------------------------------------------------------------------------
(* Filtered search: every row is walked through, only live rows of the     *)
(* filter become results, and it ends once k are found and the nearest     *)
(* open row is farther than the worst of them; a list is left as soon as   *)
(* k are found and no row is open. (The code widens its beam when it has   *)
(* as many results as the beam holds and fewer than k: the beam holds at   *)
(* least 2k, so that never happens.)                                       *)
VisitFiltered(d, k, ef, passes, b, n) ==
  LET found == b.results \union ({n} \intersect passes)
      next == IF Cardinality(b.results) >= ef /\ d[n] > d[Farthest(d, b.results)]
              THEN [b EXCEPT !.visited = @ \union {n}]
              ELSE [b EXCEPT !.visited = @ \union {n}, !.open = @ \union {n},
                             !.results = IF Cardinality(found) > ef
                                         THEN found \ {Farthest(d, found)} ELSE found]
  IN  IF b.stop \/ n \in b.visited THEN b
      ELSE [next EXCEPT !.stop = Cardinality(next.results) >= k /\ next.open = {}]
ExpandFiltered(g, d, k, ef, passes, b) ==
  IF b.open = {} THEN b
  ELSE LET c == Nearest(d, b.open)
       IN  IF /\ Cardinality(b.results) >= k
              /\ b.results # {}
              /\ d[c] > d[Farthest(d, b.results)]
           THEN [b EXCEPT !.open = {}]
           ELSE FoldLeft(LAMBDA s, n : VisitFiltered(d, k, ef, passes, s, n),
                         [b EXCEPT !.open = @ \ {c}, !.stop = FALSE], Edges(g, c, 0))
search_filtered(g, q, k, allowed, ef) ==
  LET d == From(g, q)
      passes == allowed \ g.deleted
      at == Descend(g, d, g.max, 0, g.entry)
      start == [open |-> {at}, visited |-> {at}, results |-> {at} \intersect passes, stop |-> FALSE]
      end == FoldLeft(LAMBDA b, i : ExpandFiltered(g, d, k, IF ef > 2 * k THEN ef ELSE 2 * k, passes, b),
                      start, [i \in 1..Len(g.vec) |-> i])
      found == ByDistance(d, end.results)
  IN  IF g.vec = <<>> THEN <<>> ELSE SubSeq(found, 1, IF k < Len(found) THEN k ELSE Len(found))

-----------------------------------------------------------------------------
(* Compaction. Live rows keep their order and close the gaps; the remap    *)
(* gives every old row its new id, or None.                                *)
Ghosts(g) == Cardinality(g.deleted)
Remap(g) == [i \in Rows(g) |-> IF i \in g.deleted THEN None
                               ELSE i - Cardinality({j \in g.deleted : j < i})]
Live(g) == SelectSeq([i \in Rows(g) |-> i], LAMBDA i : i \notin g.deleted)

\* Once half of the rows are ghosts the graph is rebuilt from the live vectors
\* with the seed it was made with.
Rebuild(g, levs) == FoldLeft(LAMBDA h, i : insert(h, g.vec[i], levs), EmptyGraph, Live(g))

\* Phases 1 and 2: move the live rows down and strip the edges to ghosts.
Strip(g) ==
  LET live == Live(g)
      map == Remap(g)
      Mapped(es) == LET kept == SelectSeq(es, LAMBDA n : map[n] # None)
                    IN  [i \in 1..Len(kept) |-> map[kept[i]]]
  IN  [g EXCEPT !.vec = [i \in 1..Len(live) |-> g.vec[live[i]]],
                !.edges = [i \in 1..Len(live) |->
                             [l \in 1..Len(g.edges[live[i]]) |-> Mapped(g.edges[live[i]][l])]],
                !.deleted = {}]

\* Phase 3: a row with room takes neighbours of its neighbours into account,
\* and enters the lists of the neighbours it gained.
Backfill(g, i, l) ==
  LET old == ToSet(Edges(g, i, l))
      beyond == UNION {ToSet(Edges(g, n, l)) : n \in old} \ (old \union {i})
      cands == Sorted(g, i, Edges(g, i, l) \o SetToSeq(beyond))
      h == SetEdges(g, i, l, select_neighbors_heuristic(g, i, cands, Cap(l)))
  IN  IF Len(Edges(g, i, l)) >= Cap(l) \/ beyond = {} THEN g
      ELSE FoldLeft(LAMBDA s, n : IF n \in old THEN s ELSE Connect(s, n, l, i), h, Edges(h, i, l))
BackfillRow(g, i) == FoldLeft(LAMBDA h, l : Backfill(h, i, l - 1), g, [l \in 1..Len(g.edges[i]) |-> l])

\* Put nb into the base list of node whatever the heuristic says: in place of
\* the farthest entry when the list is full.
ensure_base_neighbor(g, node, nb) ==
  LET h == append_neighbor(g, node, 0, nb)
      es == Edges(h, node, 0)
      far == CHOOSE i \in 1..Len(es) :
               /\ \A j \in 1..Len(es) : Dist(h, node, es[j]) <= Dist(h, node, es[i])
               /\ \A j \in 1..(i - 1) : Dist(h, node, es[j]) < Dist(h, node, es[i])
  IN  IF Contains(Edges(g, node, 0), nb) THEN g
      ELSE IF Contains(es, nb) THEN h
      ELSE IF Len(es) < M0 THEN SetEdges(h, node, 0, Append(es, nb))
      ELSE SetEdges(h, node, 0, [es EXCEPT ![far] = nb])

\* Phase 3b: a row left without base edges picks its neighbours among all
\* rows and asks each to link back. When the last ones refused and none of
\* those that refused before was nearer, the nearest of them is made to.
AskBack(s, i, n) ==
  LET h == Connect(s.g, n, 0, i)
      d == Dist(h, i, n)
  IN  IF Contains(Edges(h, n, 0), i) THEN [s EXCEPT !.g = h, !.anchor = None]
      ELSE IF s.best = {} \/ \A b \in s.best : d < b THEN [g |-> h, anchor |-> n, best |-> {d}]
      ELSE [s EXCEPT !.g = h]
\* Mutant: a row left without neighbours stays so.
Reconnect_Skipped(g, i) == g
Reconnect(g, i) ==
  LET cands == ByDistance(From(g, g.vec[i]), Rows(g) \ {i})
      h == SetEdges(g, i, 0, select_neighbors_heuristic(g, i, cands, M0))
      asked == FoldLeft(LAMBDA s, n : AskBack(s, i, n), [g |-> h, anchor |-> None, best |-> {}],
                        Edges(h, i, 0))
  IN  IF Edges(g, i, 0) # <<>> THEN g
      ELSE IF asked.anchor = None THEN asked.g
      ELSE ensure_base_neighbor(asked.g, asked.anchor, i)

\* Phase 4: the first row of the highest level is where searches start.
NewEntry(g) ==
  LET top == CHOOSE i \in Rows(g) : /\ \A j \in Rows(g) : Level(g, j) <= Level(g, i)
                                    /\ \A j \in 1..(i - 1) : Level(g, j) < Level(g, i)
  IN  [g EXCEPT !.entry = top, !.max = Level(g, top)]

\* FloatHNSW::compact; the remap is Remap of the graph before.
RebuildDue(g) == Ghosts(g) >= (Len(g.vec) + 1) \div 2
Repair(g) ==
  LET ids(h) == [i \in Rows(h) |-> i]
      filled == FoldLeft(LAMBDA h, i : BackfillRow(h, i), Strip(g), ids(Strip(g)))
      joined == FoldLeft(LAMBDA h, i : Reconnect(h, i), filled, ids(filled))
  IN  NewEntry(IF Len(filled.vec) > 1 THEN joined ELSE filled)
compact(g, levs) ==
  IF g.deleted = {} THEN g ELSE IF RebuildDue(g) THEN Rebuild(g, levs) ELSE Repair(g)

\* What deserialize demands of the graph in a snapshot.
Loads(g) ==
  /\ g.vec = <<>> <=> g.entry = None
  /\ g.vec # <<>> => g.entry \in Rows(g) /\ Level(g, g.entry) = g.max
  /\ \A i \in Rows(g) : Level(g, i) <= g.max
  /\ \A i \in Rows(g) : \A l \in 0..Level(g, i) :
        /\ Len(Edges(g, i, l)) <= Cap(l)
        /\ \A n \in ToSet(Edges(g, i, l)) : n \in Rows(g) /\ Level(g, n) >= l
=============================================================================
