----------------------------- MODULE LayerChain -----------------------------
(***************************************************************************)
(* The layered profile of src/packages/pikelet-wasm/complete and the       *)
(* commands of src/packages/pikelet that write it: append, rebase and      *)
(* compact produce artifacts, openPikeletChain admits them, and citations  *)
(* into them are resolved through tombstones, supersessions and lineages.  *)
(*                                                                         *)
(* An artifact never changes once it is written, so the state is the       *)
(* sequence of the artifacts written so far and an artifact's identity is  *)
(* its place in it.  An identity is a hash over the parent's identity, so  *)
(* an artifact fixes the whole chain below it: members lists that chain,   *)
(* base first, the artifact itself last.  A record's content is a value    *)
(* unique to the append or compile that wrote it; rebase and compact copy  *)
(* it.                                                                     *)
(***************************************************************************)
EXTENDS Integers, Sequences, FiniteSets

CONSTANTS
    BaseRows,   \* how many records a compiled base may have
    MaxDepth,   \* the format's ceiling on depth, which is the reader's limit
    MaxRecords, \* the format's ceiling on the ids of a chain
    MaxPacks,   \* bound: artifacts written
    MaxNew,     \* bound: records of one append
    MaxRetract  \* bound: ids one append removes or supersedes

ASSUME BaseAssumption == BaseRows \subseteq Nat \ {0}
ASSUME CeilingAssumption ==
    /\ MaxDepth \in Nat
    /\ MaxRecords \in Nat
    /\ \A n \in BaseRows : n <= MaxRecords
ASSUME BoundAssumption == MaxPacks \in Nat \ {0} /\ MaxNew \in Nat /\ MaxRetract \in Nat

VARIABLE packs

Packs == DOMAIN packs
NoLineage == [heads |-> <<>>, mask |-> {}, edges |-> {}]

-----------------------------------------------------------------------------
\* Reading a chain, named by its head

Members(p) == {packs[p].members[i] : i \in DOMAIN packs[p].members}
Parent(p) == packs[p].members[Len(packs[p].members) - 1]
Records(p) == Len(packs[p].rows)
RowTotal(p) == packs[p].rowBase + Records(p)
Ids(p) == 0 .. RowTotal(p) - 1
Live(p) == Ids(p) \ packs[p].mask

\* The member of p's chain whose interval holds id; a layer without records
\* owns none.
Owns(m, id) == packs[m].rowBase <= id /\ id < RowTotal(m)
OwnerOf(p, id) == CHOOSE m \in Members(p) : Owns(m, id)

\* What an id stands for: a row of an artifact, and the content of that row.
Row(p, id) == LET m == OwnerOf(p, id) IN <<m, id - packs[m].rowBase>>
Content(p, id) == LET m == OwnerOf(p, id) IN packs[m].rows[id - packs[m].rowBase + 1]

\* The union supersession map of p's chain: <<old, new, depth of the layer>>.
Supersessions(p) ==
    UNION {{<<e[1], e[2], packs[m].depth>> : e \in packs[m].edges} : m \in Members(p)}

From(edges, id) == {e \in edges : e[1] = id}
Immediate(edges, id) == (CHOOSE e \in From(edges, id) : \A f \in From(edges, id) : e[3] <= f[3])[2]
Latest(edges, id) == (CHOOSE e \in From(edges, id) : \A f \in From(edges, id) : e[3] >= f[3])[2]

\* The end of the walk along greatest-depth edges, id itself when it has none.
Current(p, id) ==
    LET edges == Supersessions(p)
        end[x \in Ids(p)] == IF From(edges, x) = {} THEN x ELSE end[Latest(edges, x)]
    IN  end[id]

-----------------------------------------------------------------------------
\* What a reader admits

LinkAccepted(parent, child) ==
    LET c == packs[child]
    IN  /\ c.depth = packs[parent].depth + 1
        /\ c.rowBase = RowTotal(parent)
        /\ RowTotal(child) <= MaxRecords
        /\ c.mask \subseteq 0 .. c.rowBase - 1
        /\ packs[parent].mask \subseteq c.mask
        /\ Records(child) = 0 => c.mask # packs[parent].mask
        /\ \A e \in c.edges : e[1] \in c.mask /\ Owns(child, e[2])
        /\ \A e, f \in c.edges : e[1] = f[1] => e = f

Opens(p) ==
    /\ Len(packs[p].members) - 1 <= MaxDepth
    /\ \A i \in 2 .. Len(packs[p].members) :
           LinkAccepted(packs[p].members[i - 1], packs[p].members[i])

\* A lineage is written and read only if it passes these checks.
LineageAccepted(l) ==
    LET last == Len(l.heads)
        total(i) == l.heads[i].rowTotal
    IN  /\ \A i \in 2 .. last : total(i - 1) <= total(i)
        /\ \A i, j \in 1 .. last : l.heads[i].pack = l.heads[j].pack => i = j
        /\ l.mask \subseteq 0 .. total(last) - 1
        /\ \A e \in l.edges :
               /\ e[1] \in l.mask /\ e[1] < e[2]
               /\ e[3] \in 1 .. last - 1
               /\ total(e[3]) <= e[2] /\ e[2] < total(e[3] + 1)
        /\ \A e, f \in l.edges : e[1] = f[1] /\ e[3] = f[3] => e = f

LineageOf(h) ==
    [heads |-> [i \in DOMAIN packs[h].members |->
                    [pack |-> packs[h].members[i], rowTotal |-> RowTotal(packs[h].members[i])]],
     mask  |-> packs[h].mask,
     edges |-> Supersessions(h)]

-----------------------------------------------------------------------------
\* Citations

NotOnThisHistory == <<"not-on-this-history">>
Postdates == <<"id-postdates-that-head">>
Deleted == <<"deleted">>
Unreadable == <<"unreadable">>

\* A compacted base's citation(identity, id) looks in its lineage, unless that
\* does not pass the checks: a live id loses one position per tombstone below
\* it, a dead one is followed along greatest-depth edges to the first successor
\* that is live.
TranslateCitation(base, cited, id) ==
    LET l == packs[base].lineage
        entries == {i \in DOMAIN l.heads : l.heads[i].pack = cited}
        newId(x) == x - Cardinality({y \in l.mask : y < x})
        fate[x \in 0 .. l.heads[Len(l.heads)].rowTotal - 1] ==
            IF x \notin l.mask
            THEN <<IF x = id THEN "live" ELSE "superseded", newId(x)>>
            ELSE IF From(l.edges, x) = {} THEN Deleted ELSE fate[Latest(l.edges, x)]
    IN  IF ~LineageAccepted(l) THEN Unreadable
        ELSE IF entries = {} THEN NotOnThisHistory
        ELSE IF \A i \in entries : id >= l.heads[i].rowTotal THEN Postdates
        ELSE fate[id]

-----------------------------------------------------------------------------
\* Producers

Publish(new) == packs' = Append(packs, new)

\* Mutant: the next id is the number of live records.
Layer_LiveRowBase(parent, rows, mask, edges, rebased) ==
    [members |-> Append(packs[parent].members, Len(packs) + 1),
     depth   |-> Len(packs[parent].members),
     rowBase |-> Cardinality(Live(parent)),
     rows    |-> rows,
     mask    |-> mask,
     edges   |-> edges,
     lineage |-> NoLineage,
     rebased |-> rebased]

\* A history variable in each pack: rebased is <<layer, new head>> of the
\* rebase that wrote it.
Layer(parent, rows, mask, edges, rebased) ==
    [members |-> Append(packs[parent].members, Len(packs) + 1),
     depth   |-> Len(packs[parent].members),
     rowBase |-> RowTotal(parent),
     rows    |-> rows,
     mask    |-> mask,
     edges   |-> edges,
     lineage |-> NoLineage,
     rebased |-> rebased]

Base(self, rows, lineage) ==
    [members |-> <<self>>, depth |-> 0, rowBase |-> 0, rows |-> rows,
     mask |-> {}, edges |-> {}, lineage |-> lineage, rebased |-> <<>>]

FreshRows(self, n) == [i \in 1 .. n |-> <<self, i>>]

\* Mutant: the mask does not start from the parent's.
AppendLayer_OwnMask(head, n, remove, supersede) ==
    LET rowBase == RowTotal(head)
        retracted == remove \cup {s[1] : s \in supersede}
    IN  /\ Opens(head)
        /\ packs[head].depth + 1 <= MaxDepth
        /\ rowBase + n <= MaxRecords
        /\ \A id \in retracted : id < rowBase
        /\ \A s, t \in supersede : s[1] = t[1] <=> s[2] = t[2]
        /\ n = 0 => ~(retracted \subseteq packs[head].mask)
        /\ Publish(Layer(head, FreshRows(Len(packs) + 1, n), retracted,
                         {<<s[1], rowBase + s[2]>> : s \in supersede}, <<>>))

\* pikelet append: a layer of n records over head that removes ids and
\* supersedes others, pairs <<old id, local index>>.
AppendLayer(head, n, remove, supersede) ==
    LET rowBase == RowTotal(head)
        retracted == remove \cup {s[1] : s \in supersede}
    IN  /\ Opens(head)
        /\ packs[head].depth + 1 <= MaxDepth
        /\ rowBase + n <= MaxRecords
        /\ \A id \in retracted : id < rowBase
        /\ \A s, t \in supersede : s[1] = t[1] <=> s[2] = t[2]
        /\ n = 0 => ~(retracted \subseteq packs[head].mask)
        /\ Publish(Layer(head, FreshRows(Len(packs) + 1, n),
                         packs[head].mask \cup retracted,
                         {<<s[1], rowBase + s[2]>> : s \in supersede},
                         <<>>))

\* Mutant: all the layer's tombstones, its ancestors' included.
Delta_Cumulative(layer) == packs[layer].mask

\* The deletions a layer performed itself.
Delta(layer) == packs[layer].mask \ packs[Parent(layer)].mask

\* The ids two chains share: those of their longest common prefix.
SharedPrefix(p, q) ==
    LET m == packs[p].members
        n == packs[q].members
        common == {i \in DOMAIN m \cap DOMAIN n : \A j \in 1 .. i : m[j] = n[j]}
    IN  CHOOSE i \in common : \A j \in common : j <= i

ForkRowBase(p, q) == RowTotal(packs[p].members[SharedPrefix(p, q)])

\* An edge of layer, its new id moved to layer's place in a chain of newRowBase
\* rows: old ids are ancestors' and stay.
Moved(layer, e, newRowBase) == <<e[1], newRowBase + (e[2] - packs[layer].rowBase)>>

\* The ids layer deleted or superseded that head does not share, the edges that
\* are left without them, and those of them for which head has edges too.
Foreign(layer, head) ==
    {x \in Delta(layer) \cup {e[1] : e \in packs[layer].edges} : x >= ForkRowBase(Parent(layer), head)}
Surviving(layer, head) == {e \in packs[layer].edges : e[1] \notin Foreign(layer, head)}
Conflicts(layer, head) == {e \in Surviving(layer, head) : From(Supersessions(head), e[1]) # {}}

\* What the rebased layer has of the edges and of the deletions.
Recorded(layer, head, onConflict) ==
    IF onConflict = "keep-both" THEN Surviving(layer, head)
    ELSE Surviving(layer, head) \ Conflicts(layer, head)
RebasedMask(layer, head, onConflict) ==
    packs[head].mask \cup (Delta(layer) \ Foreign(layer, head))
        \cup {e[1] : e \in Recorded(layer, head, onConflict)}

\* pikelet rebase: replay what layer did on top of head.
Rebase(layer, head, onForeign, onConflict) ==
    LET newRowBase == RowTotal(head)
        recorded == Recorded(layer, head, onConflict)
        mask == RebasedMask(layer, head, onConflict)
    IN  /\ packs[layer].depth >= 1
        /\ Opens(Parent(layer)) /\ Opens(head)
        /\ packs[head].members[1] = packs[layer].members[1]
        /\ onForeign = "refuse" => Foreign(layer, head) = {}
        /\ onConflict = "refuse" => Conflicts(layer, head) = {}
        /\ Records(layer) = 0 => mask # packs[head].mask
        /\ newRowBase + Records(layer) <= MaxRecords
        /\ Publish(Layer(head, packs[layer].rows, mask,
                         {Moved(layer, e, newRowBase) : e \in recorded},
                         <<layer, head>>))

\* The live ids of a chain in ascending order.
LiveIds(p) ==
    [i \in 1 .. Cardinality(Live(p)) |->
        CHOOSE x \in Live(p) : Cardinality({y \in Live(p) : y < x}) = i - 1]

\* The rows of these ids, from wherever in the chain they are, in their order.
CopiedRows(p, ids) == [i \in DOMAIN ids |-> Content(p, ids[i])]

\* pikelet compact: a base of the live records of head.
Compact(head) ==
    /\ Opens(head)
    /\ packs[head].depth >= 1
    /\ Live(head) # {}
    /\ LineageAccepted(LineageOf(head))
    /\ Publish(Base(Len(packs) + 1, CopiedRows(head, LiveIds(head)), LineageOf(head)))

-----------------------------------------------------------------------------
Init == \E n \in BaseRows : packs = <<Base(1, FreshRows(1, n), NoLineage)>>

\* The subsets of S with at most MaxRetract elements.
Few(S) == {{}} \cup {{f[i] : i \in 1 .. MaxRetract} : f \in [1 .. MaxRetract -> S]}

Room == Len(packs) < MaxPacks

Next ==
    \/ /\ Room
       /\ \E head \in Packs, n \in 0 .. MaxNew :
              \E remove \in Few(Ids(head)), supersede \in Few(Ids(head) \X (0 .. n - 1)) :
                  /\ Cardinality(remove) + Cardinality(supersede) <= MaxRetract
                  /\ AppendLayer(head, n, remove, supersede)
    \/ /\ Room
       /\ \E layer, head \in Packs, onForeign \in {"refuse", "drop"},
             onConflict \in {"refuse", "skip", "keep-both"} :
                  Rebase(layer, head, onForeign, onConflict)
    \/ /\ Room
       /\ \E head \in Packs : Compact(head)

Spec == Init /\ [][Next]_packs
-----------------------------------------------------------------------------
\* Properties

Edge == Nat \X Nat
Lineages ==
    [heads : Seq([pack : Packs, rowTotal : Nat]),
     mask  : SUBSET Nat,
     edges : SUBSET (Nat \X Nat \X Nat)]

\* Every artifact has the parts its kind has.
TypeOK ==
    /\ Len(packs) <= MaxPacks
    /\ \A p \in Packs :
        /\ DOMAIN packs[p] = {"members", "depth", "rowBase", "rows", "mask",
                              "edges", "lineage", "rebased"}
        /\ packs[p].members \in Seq(Packs)
        /\ packs[p].depth \in Nat /\ packs[p].rowBase \in Nat
        /\ packs[p].rows \in Seq(Packs \X Nat)
        /\ packs[p].mask \subseteq Nat /\ packs[p].edges \subseteq Edge
        /\ packs[p].lineage \in Lineages
        /\ packs[p].rebased \in Seq(Packs)

\* Depth is the only thing producers get wrong: masks stay cumulative, row
\* bases contiguous and edges in range through any appends, rebases and
\* compactions.
OnlyDepthIsRefused == \A p \in Packs : packs[p].depth <= MaxDepth => Opens(p)

\* An id, once given on a history, goes on naming the same row under every
\* later head of that history, and exactly one member of the chain holds it
\* (buildAncestry and ownerOf: a citation against H3 still resolves under H8).
CitationsStable ==
    \A p \in Packs : \A id \in Ids(p) :
        LET row == Row(p, id)
        IN  /\ \E m \in Members(p) : {o \in Members(p) : Owns(o, id)} = {m}
            /\ \A a \in Members(p) : id < RowTotal(a) => Row(a, id) = row

DeletedRows(p) == {Row(p, id) : id \in packs[p].mask}
Rows(p) == {Row(p, id) : id \in Ids(p)}

\* A rebase replays what the layer itself did and nothing it inherited: the
\* result deletes the rows the new head deletes and those of the head's rows
\* that the layer deleted or superseded, and it carries the layer's records.
RebaseReplaysOwn ==
    \A p \in Packs : packs[p].rebased # <<>> =>
        LET layer == packs[p].rebased[1]
            head == packs[p].rebased[2]
            did == (DeletedRows(layer) \ DeletedRows(Parent(layer)))
                   \cup {Row(layer, e[1]) : e \in packs[layer].edges}
        IN  /\ DeletedRows(p) = DeletedRows(head) \cup (did \cap Rows(head))
            /\ Parent(p) = head
            /\ packs[p].rows = packs[layer].rows

\* A row the layer superseded and the new head has keeps a successor: the
\* layer's replacement, in which case the head's own, if any, stays the
\* immediate one, or, when the head had one and conflicts are skipped, the
\* head's.  The replacement is a copy of the record it was in the layer.
RebaseKeepsSuccessors ==
    \A p \in Packs : packs[p].rebased # <<>> =>
        LET layer == packs[p].rebased[1]
            head == packs[p].rebased[2]
            before(x) == From(Supersessions(head), x)
        IN  \A e \in packs[layer].edges : Row(layer, e[1]) \in Rows(head) =>
                LET x == e[1]
                    replaced == /\ Content(p, Current(p, x)) = Content(layer, e[2])
                                /\ OwnerOf(p, Current(p, x)) = p
                IN  IF before(x) = {} THEN replaced
                    ELSE /\ Immediate(Supersessions(p), x) = Immediate(Supersessions(head), x)
                         /\ \/ replaced
                            \/ From(Supersessions(p), x) = before(x)

\* A rebased layer does on its new head what it did on its old one.
RebaseFaithful == RebaseReplaysOwn /\ RebaseKeepsSuccessors

\* Following a citation through a compaction gives what following it in the
\* folded chain gave: a live id its own record, a superseded one the record
\* of its current successor if that is live, and nothing otherwise; whichever
\* head of the chain the citation was made against.
CompactionKeepsCitations ==
    \A base \in Packs : packs[base].lineage # NoLineage =>
        LET heads == packs[base].lineage.heads
            head == heads[Len(heads)].pack
        IN  \A cited \in Members(head) : \A id \in Ids(cited) :
                LET answer == TranslateCitation(base, cited, id)
                    now == Current(head, id)
                IN  IF now \in Live(head)
                    THEN /\ answer[1] = IF now = id THEN "live" ELSE "superseded"
                         /\ answer[2] \in Ids(base)
                         /\ Content(base, answer[2]) = Content(head, now)
                    ELSE answer = Deleted

\* Compaction renumbers the live ids densely and in order (planCompaction):
\* through the lineage, different live ids go to different records of the base
\* and every record of the base is reached from one.
CompactionIsDense ==
    \A base \in Packs : packs[base].lineage # NoLineage =>
        LET heads == packs[base].lineage.heads
            head == heads[Len(heads)].pack
            to(id) == TranslateCitation(base, head, id)[2]
        IN  /\ \A x, y \in Live(head) : x < y => to(x) < to(y)
            /\ {to(id) : id \in Live(head)} = Ids(base)

\* A chain that opens and has a live record can be compacted, which is what
\* the refusals at every ceiling tell the user to do: its lineage passes the
\* checks of buildLineageSegment.
CompactionPossible ==
    \A p \in Packs : Opens(p) => LineageAccepted(LineageOf(p))

\* Compaction is possible wherever a ceiling asks for it, and no citation is
\* the worse for it.
CompactionSound ==
    TypeOK /\ CompactionKeepsCitations /\ CompactionIsDense /\ CompactionPossible

\* Rebases and compactions lose nothing that was recorded, and tell of what they
\* drop.
EditsFaithful == RebaseFaithful /\ CompactionSound
=============================================================================
