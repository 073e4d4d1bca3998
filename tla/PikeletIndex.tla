---------------------------- MODULE PikeletIndex ----------------------------
(***************************************************************************)
(* The index a program uses (pikelet-core.js) over the engine's graph: it  *)
(* gives out ids of its own, which stay what they are when compaction      *)
(* renumbers the graph, and translates between the two at every call.      *)
(* A call runs to its end before the next one (the engine is synchronous), *)
(* so an action is a call; a call that is refused changes nothing and is   *)
(* no action.                                                              *)
(***************************************************************************)
EXTENDS Hnsw

CONSTANTS Feeds,        \* what a caller adds, in this order, the levels drawn, and
                        \* version and configuration of the file that an earlier
                        \* release left of the first vector
          MaxElements,  \* the capacity the wasm heap has room for
          Capacities,   \* the capacities a program asks for
          Configs,      \* what is fixed when an index is made: dimension, metric,
                        \* coding, M and efConstruction, as one value
          Config,       \* the one a program asks for
          SnapIds,      \* bound: ids handed out when a snapshot is taken
          EfSearch      \* beam width of a query

ASSUME IndexAssumption == /\ MaxElements \in Nat \ {0}
                          /\ SnapIds \in Nat
                          /\ EfSearch \in Nat \ {0}
                          /\ Capacities \subseteq Nat \ {0}
                          /\ Config \in Configs
                          /\ \A f \in Feeds : /\ Len(f.level) >= Len(f.vec)
                                                /\ f.old \in (0..2) \X Configs

VARIABLES feed,        \* the caller's vectors, and the levels the engine's seed gives
          g,           \* the engine's graph
          intToExt,    \* row -> id: a sequence over the rows
          extToInt,    \* id -> row
          deletedExt,  \* ids deleted and not compacted away
          nextExt,     \* the next id
          snap,        \* the snapshot at hand: a file
          capacity,    \* rows the index may hold, deleted ones included
          config,      \* what the index takes the engine to be made for
          disposed     \* there is no index, or not any more

maps == <<intToExt, extToInt, deletedExt, nextExt>>
made == <<capacity, config, disposed>>
vars == <<feed, g, maps, snap, made>>

\* A snapshot's file: the engine's own bytes (version 0), in an envelope that
\* repeats the configuration (1, 2), and with the ids (3). The generator of
\* levels is no part of it: it is seeded afresh with every load.
Saved(h) == [h EXCEPT !.drawn = 0]
File(version, cfg, h, map, next) ==
  [version |-> version, envelope |-> cfg, raw |-> cfg, g |-> Saved(h), map |-> map, next |-> next]

OldFile(f) == File(f.old[1], f.old[2], insert(EmptyGraph, f.vec[1], f.level), <<>>, 0)

Init == /\ feed \in Feeds
        /\ snap = OldFile(feed)
        /\ g = EmptyGraph
        /\ intToExt = <<>>
        /\ extToInt = <<>>
        /\ deletedExt = {}
        /\ nextExt = 0
        /\ capacity = 0
        /\ config = None
        /\ disposed = TRUE

\* The inverse of a translation.
RowOf(map) == [id \in ToSet(map) |-> CHOOSE i \in DOMAIN map : map[i] = id]

\* _recordInsertedRange: the new rows get the next ids.
Record(n) ==
  LET first == Len(g.vec)
  IN  /\ intToExt' = intToExt \o [i \in 1..n |-> nextExt + i - 1]
      /\ extToInt' = [id \in DOMAIN extToInt \union nextExt..(nextExt + n - 1) |->
                        IF id < nextExt THEN extToInt[id] ELSE first + id - nextExt + 1]
      /\ nextExt' = nextExt + n
      /\ UNCHANGED <<feed, deletedExt, snap>>

add ==
  /\ Len(g.vec) < capacity
  /\ nextExt < Len(feed.vec)
  /\ g' = insert(g, feed.vec[nextExt + 1], feed.level)
  /\ Record(1)

\* A batch is refused as a whole when it does not fit.
addBatch(n) ==
  /\ Len(g.vec) + n <= capacity
  /\ nextExt + n <= Len(feed.vec)
  /\ g' = FoldLeft(LAMBDA h, v : insert(h, v, feed.level), g,
                   SubSeq(feed.vec, nextExt + 1, nextExt + n))
  /\ Record(n)

delete(id) ==
  /\ id \notin deletedExt
  /\ g' = mark_delete(g, extToInt[id])
  /\ deletedExt' = deletedExt \union {id}
  /\ UNCHANGED <<feed, intToExt, extToInt, nextExt, snap>>

\* The new translation is read off the remap the engine returns.
Translate(map) ==
  [j \in 1..Cardinality({i \in DOMAIN map : map[i] # None}) |->
     intToExt[CHOOSE i \in DOMAIN map : map[i] = j]]
Compact ==
  /\ g' = compact(g, feed.level)
  /\ intToExt' = Translate(Remap(g))
  /\ extToInt' = RowOf(intToExt')
  /\ deletedExt' = {}
  /\ UNCHANGED <<feed, nextExt, snap>>

\* export refuses while ghosts are resident.
Exported == File(3, config, g, intToExt, nextExt)
Export ==
  /\ g.deleted = {}
  /\ nextExt = SnapIds
  /\ snap' = Exported
  /\ UNCHANGED <<feed, g, maps>>

\* Files without ids give the rows their numbers.
IdentityMap(n) == [i \in 1..n |-> i - 1]
MapOf(file) == IF file.version = 3 THEN file.map ELSE IdentityMap(Len(file.g.vec))
\* Mutant: counting goes on from the number of rows.
NextId_Count(file) == Len(file.g.vec)
NextId(file) == IF file.version = 3 THEN file.next ELSE Len(file.g.vec)

\* _validateV3Mappings: one id for every row, no id twice, and none to come.
ValidMapping(file) ==
  /\ Len(file.map) = Len(file.g.vec)
  /\ IsInjective(file.map)
  /\ file.next >= Len(file.g.vec)
  /\ \A i \in DOMAIN file.map : file.map[i] \in 0..(file.next - 1)

\* The envelope and the engine's own header are both held against the index:
\* the engine goes by the header.
Accepts(file, cap, cfg) ==
  /\ file.version > 0 => file.envelope = cfg
  /\ file.raw = cfg
  /\ Len(file.g.vec) <= cap
  /\ file.version = 3 => ValidMapping(file)
  /\ Loads(file.g)

\* The graph loaded takes the place of the one there was.
Loaded(file) ==
  /\ g' = file.g
  /\ intToExt' = MapOf(file)
  /\ extToInt' = RowOf(MapOf(file))
  /\ deletedExt' = {}
  /\ nextExt' = NextId(file)
  /\ UNCHANGED <<feed, snap>>
Import == Accepts(snap, capacity, config) /\ Loaded(snap)

\* inspectSnapshotMetadata: a file that contradicts itself is refused.
Inspects(file) ==
  /\ file.version > 0 => file.envelope = file.raw
  /\ NextId(file) >= Len(file.g.vec)

\* An index is made empty, of as many vectors as it has room for unless more is
\* asked for, or of a snapshot, whose configuration it takes. What is asked for
\* may not contradict the snapshot, and must be said where its file has no
\* envelope. When loading fails the new index is disposed of at once.
\* (One index at a time is followed.)
Made(cap, cfg) ==
  /\ disposed
  /\ cap <= MaxElements
  /\ capacity' = cap
  /\ config' = cfg
  /\ disposed' = FALSE

create(cap) ==
  /\ Made(cap, Config)
  /\ g' = EmptyGraph
  /\ UNCHANGED <<feed, maps, snap>>

fromVectors(n, cap) ==
  /\ Made(cap, Config)
  /\ n <= cap /\ n <= Len(feed.vec)
  /\ g' = FoldLeft(LAMBDA h, v : insert(h, v, feed.level), EmptyGraph, SubSeq(feed.vec, 1, n))
  /\ Record(n)

restore(cap, asked) ==
  /\ Made(cap, snap.raw)
  /\ Inspects(snap)
  /\ asked # snap.raw => asked = None /\ snap.version > 0
  /\ Accepts(snap, cap, snap.raw)
  /\ Loaded(snap)

\* The capacity an index of n vectors gets when none is asked for.
Fitting(n) == IF n = 0 THEN 1 ELSE n

\* A search changes nothing: it answers with the ids of the rows found, and
\* the ids of a filter are translated the other way.
Ids(found) == [i \in 1..Len(found) |-> intToExt[found[i]]]
Search(q, k) == Ids(search(g, q, k, EfSearch))
SearchFiltered(q, k, allowed) ==
  LET passes == {extToInt[id] : id \in (allowed \intersect DOMAIN extToInt) \ deletedExt}
  IN  IF allowed = {} THEN <<>> ELSE Ids(search_filtered(g, q, k, passes, 1))

\* The graph is freed with the engine's handle; every later call is refused.
\* (The translation, which no call reads any more, is forgotten here.)
Closed ==
  /\ ~disposed
  /\ disposed' = TRUE
  /\ capacity' = 0
  /\ config' = None
  /\ g' = EmptyGraph
  /\ intToExt' = <<>>
  /\ extToInt' = <<>>
  /\ deletedExt' = {}
  /\ nextExt' = 0
  /\ UNCHANGED feed
dispose == Closed /\ UNCHANGED snap

Call == \/ add
        \/ addBatch(2)
        \/ \E id \in DOMAIN extToInt : delete(id)
        \/ Compact
        \/ Export
        \/ Import
Make == \/ \E cap \in Capacities : create(cap)
        \/ fromVectors(2, Fitting(2))
        \/ \E asked \in Configs \union {None} : restore(Fitting(Len(snap.g.vec)), asked)
Next == \/ ~disposed /\ Call /\ UNCHANGED made
        \/ dispose
        \/ Make

Spec == Init /\ [][Next]_vars

-----------------------------------------------------------------------------
TypeOK ==
  /\ feed \in Feeds
  /\ capacity \in 0..MaxElements
  /\ Len(g.vec) <= capacity /\ Len(g.edges) = Len(g.vec)
  /\ g.deleted \subseteq Rows(g)
  /\ DOMAIN intToExt = Rows(g)
  /\ DOMAIN extToInt = ToSet(intToExt)
  /\ deletedExt \subseteq DOMAIN extToInt
  /\ nextExt \in 0..Len(feed.vec)

\* An index without ghosts can be exported: what export writes is what import
\* accepts, so no list outgrows its slots, no edge leads to a row below its
\* level (a traversal reads that row's list of the level unchecked), searches
\* start at a row of the highest level, and no id of the file is one that the
\* restored index will hand out.
SnapshotLoads ==
  g.deleted = {} => Inspects(Exported) /\ Accepts(Exported, capacity, config)

\* No row is left without neighbours, whatever was compacted away around it.
NoLonelyRow ==
  g.deleted = {} /\ Len(g.vec) > 1 => \A i \in Rows(g) : Edges(g, i, 0) # <<>>

\* What insertion, deletion and compaction leave behind is a graph that can be
\* searched and saved.
GraphSound == TypeOK /\ SnapshotLoads /\ NoLonelyRow

\* The ids that are live, the vector an id leads to, and the queries asked.
LiveIds == DOMAIN extToInt \ deletedExt
Named(id) == IF extToInt[id] \in Rows(g) THEN g.vec[extToInt[id]] ELSE <<>>
Queries == {feed.vec[1], feed.vec[Len(feed.vec)]}

\* Deleting hides rows and nothing else: a search wide enough to see the whole
\* graph returns what it would return had nothing been deleted, less the
\* ghosts. In particular what is only reached through a ghost, the entry point
\* included, stays found.
GhostsOnlyHide ==
  \A q \in Queries : LET n == Len(g.vec) IN
    search(g, q, n, EfSearch)
      = SelectSeq(search([g EXCEPT !.deleted = {}], q, n, EfSearch), LAMBDA i : i \notin g.deleted)

\* A filtered search returns live rows of the filter only, nearest first, and
\* as many of them as an unfiltered search would have found, up to k.
FilteredFinds ==
  g.vec # <<>> => \A q \in Queries :
    LET seen == ToSet(Search(q, Len(g.vec)))
        d(id) == L2(q, Named(id))
    IN  \A allowed \in {{nextExt - 1}, {intToExt[1]}, DOMAIN extToInt} :
          LET found == SearchFiltered(q, 2, allowed)
              due == Cardinality(allowed \intersect seen)
          IN  /\ ToSet(found) \subseteq allowed \intersect seen
              /\ Len(found) = IF due < 2 THEN due ELSE 2
              /\ \A i \in 1..(Len(found) - 1) : d(found[i]) <= d(found[i + 1])

\* Neither what was deleted nor what a filter excludes stands in the way of the
\* rest.
SearchesFind == GhostsOnlyHide /\ FilteredFinds

\* Through every compaction and reload an id names the vector it was handed out
\* for: the index implements a plain store of vectors.
Store == INSTANCE VectorStore WITH
    Vectors <- UNION {ToSet(f.vec) : f \in Feeds},
    live <- [id \in LiveIds |-> Named(id)],
    next <- nextExt,
    closed <- disposed,
    saved <- [live |-> [id \in ToSet(MapOf(snap)) |-> snap.g.vec[RowOf(MapOf(snap))[id]]],
              next |-> NextId(snap)]
ImplementsStore == Store!Spec

\* Compaction cuts nothing off: if searches could reach every row before it,
\* they can reach every row after it.
Neighbours(h, S) == S \union UNION {UNION {ToSet(es) : es \in ToSet(h.edges[i])} : i \in S}
Reached(h) == FoldLeft(LAMBDA S, i : Neighbours(h, S), {h.entry}, [i \in Rows(h) |-> i])
CompactionReaches ==
  [][Rows(g) \subseteq Reached(g) /\ Compact /\ g'.vec # <<>>
       => Rows(g') \subseteq Reached(g')]_vars
=============================================================================
