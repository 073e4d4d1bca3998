----------------------------- MODULE ChainMount -----------------------------
(****************************************************************************)
(* How a chain of layers is written, found and mounted: what append         *)
(* (src/packages/pikelet/src/append.mjs, complete/layer-append.mjs) puts    *)
(* into a layer, how walkToBase (complete/layer-reader.mjs) finds the       *)
(* members of a chain from its head, and what openPikeletChain demands of   *)
(* them. LayerChain is about what becomes of ids over many appends; here it *)
(* is what is in the files, and where they are.                             *)
(*                                                                          *)
(* An artifact's identity is a digest over all of it, and two artifacts are *)
(* the same when their identities are: an artifact stands for its identity. *)
(* A record is the one word that only it has. Sets of at most one element   *)
(* stand for what may be absent.                                            *)
(****************************************************************************)
EXTENDS Integers, Sequences, FiniteSets, SequencesExt

CONSTANTS MaxDepth, MaxRecords,  \* of layer-manifest.mjs
          DriftLimit             \* readerDriftLimit, in percent

IsLayer(a) == a.profile = "layer-v1"
RowBase(a) == IF IsLayer(a) THEN a.rowBase ELSE 0
RowTotal(a) == RowBase(a) + Len(a.rows)
Depth(a) == IF IsLayer(a) THEN a.depth ELSE 0
BaseOf(a) == IF IsLayer(a) THEN a.base ELSE a
MaskOf(a) == IF IsLayer(a) THEN a.mask.bits ELSE {}

\* A bloom is over words; its geometry decides which others it can be joined to.
BloomOf(a) == IF IsLayer(a) THEN a.qi.bloom ELSE {f.bloom : f \in a.fit}
Geometry(blooms) == {b.bits : b \in blooms}
UnionBloom(ms) == UNION {UNION {b.words : b \in BloomOf(ms[i])} : i \in DOMAIN ms}

-----------------------------------------------------------------------------
\* What a member has to be like

\* validateLayerObject
LayerObjectSound(a) ==
  /\ IsLayer(a)
  /\ a.depth \in 1..MaxDepth
  /\ a.rowBase \in 0..MaxRecords /\ a.records \in 0..MaxRecords - a.rowBase
  /\ a.tombstones \in 0..a.rowBase /\ a.supersessions \in 0..a.tombstones
  /\ a.records = 0 => a.supersessions = 0 /\ ~a.index
  /\ a.records > 0 => a.index
  /\ Len(a.rows) = a.records

\* validateAgainstParent: locators and fields are hints, the parent that was
\* opened decides.
FitsParent(a, p) ==
  /\ LayerObjectSound(a)
  /\ a.parent = p /\ a.base = BaseOf(p)
  /\ a.rowBase = RowTotal(p) /\ a.depth = Depth(p) + 1
  /\ a.encoder = p.encoder

\* chainIngestDeclaration and validateIngestAgainstChain: the base declares how
\* records were cut or, when it does not, the first layer asserts it.
IngestOf(ms) == IF ms[1].ingest # {} THEN ms[1].ingest ELSE ms[2].ingest
IngestAgrees(ms) ==
  \A i \in 2..Len(ms) : ms[i].ingest = IngestOf(ms) /\ ms[i].asserted = (ms[1].ingest = {})

\* parseInheritedQuerySegment: the encoder is the base's.
InheritsFrom(a, base) ==
  /\ a.qi.kind = 4
  /\ a.qi.inheritFrom = a.base /\ a.qi.of = base.qi
  /\ Geometry(a.qi.bloom) \subseteq Geometry(BloomOf(base))

\* parseTombstoneSegment
MaskSound(a) ==
  LET edges == a.mask.edges
  IN  /\ a.mask.rowBase = a.rowBase
      /\ a.mask.bits \subseteq 0..a.rowBase - 1
      /\ a.mask.count = Cardinality(a.mask.bits) /\ a.mask.count = a.tombstones
      /\ Len(edges) = a.supersessions
      /\ \A n \in DOMAIN edges :
           /\ edges[n][1] \in a.mask.bits
           /\ n > 1 => edges[n - 1][1] < edges[n][1]
           /\ edges[n][2] \in a.rowBase..a.rowBase + a.records - 1

\* firstSupersetViolation; and a layer without records has to delete something.
MaskGrows(a, p) ==
  /\ MaskOf(p) \subseteq MaskOf(a)
  /\ a.records = 0 => Cardinality(MaskOf(a)) > Cardinality(MaskOf(p))

\* openPikeletChain, of members that open.
Mounts(ms) ==
  /\ Len(ms) - 1 <= MaxDepth
  /\ ~IsLayer(ms[1])
  /\ \A i \in DOMAIN ms : ~ms[i].rowMap
  /\ \A i \in 2..Len(ms) :
       /\ FitsParent(ms[i], ms[i - 1]) /\ InheritsFrom(ms[i], ms[1])
       /\ ms[i].records > 0 => ms[i].lexical = ms[1].lexical
       /\ MaskSound(ms[i]) /\ MaskGrows(ms[i], ms[i - 1])
  /\ Len(ms) > 1 => IngestAgrees(ms)

\* calibrationDrift, in percent of the base's records, and calibrationStatus.
Appended(ms) == RowTotal(Last(ms)) - Len(ms[1].rows)
Drifts(base, appended, deleted) ==
  \E limit \in {DriftLimit} \cup UNION {f.envelope : f \in base.fit} :
    100 * (appended + deleted) > limit * Len(base.rows)
Status(ms) ==
  IF ms[1].fit = {} THEN "none"
  ELSE IF Drifts(ms[1], Appended(ms), Cardinality(MaskOf(Last(ms))))
          \/ \E i \in 2..Len(ms) : ms[i].records > 0 /\ ms[i].qi.bloom = {} THEN "drift-exceeded"
  ELSE "inherited"

-----------------------------------------------------------------------------
\* append: [rows, remove, supersede, assert, allowDrift]. A pair of
\* supersede is an id and which of the new records takes its place.

\* __head: what an append is told of the chain it is made to.
HeadOf(ms) ==
  LET base == ms[1]
      head == Last(ms)
  IN  [is |-> head, depth |-> Depth(head), rowTotal |-> RowTotal(head), mask |-> MaskOf(head),
       base |-> base, kind |-> base.qi.kind, encoder |-> base.encoder, qi |-> base.qi,
       appended |-> Appended(ms), geometry |-> Geometry(BloomOf(base)),
       declared |-> base.ingest, asserted |-> IF base.ingest = {} /\ Len(ms) > 1 THEN ms[2].ingest ELSE {}]

\* planAppendability, by the base's declaration or by the one asserted for it,
\* now or by the first layer.
Appendable(head, what) ==
  /\ head.kind \in {2, 3}
  /\ IF head.declared # {} THEN what.assert = {}
     ELSE /\ what.assert \cup head.asserted # {}
          /\ head.asserted # {} => what.assert \subseteq head.asserted

NewMask(head, what) == head.mask \cup what.remove \cup {what.supersede[n][1] : n \in DOMAIN what.supersede}

\* planLayer
Planned(head, what) ==
  LET at == head.rowTotal
      pairs == what.supersede
  IN  /\ head.depth < MaxDepth
      /\ at + Len(what.rows) <= MaxRecords
      /\ what.remove \subseteq 0..at - 1
      /\ \A n \in DOMAIN pairs : pairs[n][1] < at /\ pairs[n][2] < Len(what.rows)
      /\ \A n, m \in DOMAIN pairs : n # m => pairs[n][1] # pairs[m][1] /\ pairs[n][2] # pairs[m][2]
      /\ what.rows # <<>> \/ NewMask(head, what) # head.mask

\* checkAppendDrift
DriftAllowed(head, what) ==
  what.allowDrift \/ ~Drifts(head.base, head.appended + Len(what.rows), Cardinality(NewMask(head, what)))

\* New records are embedded by the encoder that the base carries: a base of
\* kind 2 names one only, and takes tombstones alone.
Embeds(head, what) == what.rows # <<>> => head.kind = 3

Appends(ms, what) ==
  LET head == HeadOf(ms) IN Mounts(ms) /\ Appendable(head, what) /\ Planned(head, what) /\ DriftAllowed(head, what) /\ Embeds(head, what)

Edges(pairs, at) ==
  LET sorted == SortSeq(pairs, LAMBDA a, b : a[1] < b[1])
  IN  [n \in DOMAIN sorted |-> <<sorted[n][1], at + sorted[n][2]>>]

\* The bloom of a layer's own words has the base's geometry; without records a
\* layer has none, and no index, corpus or lexical segment either.
BloomFor(head, rows) == IF rows = <<>> THEN {} ELSE {[bits |-> g, words |-> ToSet(rows)] : g \in head.geometry}

\* What appendLayer writes: buildLayerSegments, buildTombstoneSegment and
\* buildInheritedQuerySegment.
AppendLayer(ms, what, locator) ==
  LET head == HeadOf(ms)
      mask == NewMask(head, what)
      n == Len(what.rows)
  IN  [profile |-> "layer-v1", rows |-> what.rows, records |-> n, index |-> n > 0, lexical |-> n > 0,
       rowMap |-> FALSE, parent |-> head.is, locator |-> locator, base |-> head.base, encoder |-> head.encoder,
       depth |-> head.depth + 1, rowBase |-> head.rowTotal,
       tombstones |-> Cardinality(mask), supersessions |-> Len(what.supersede),
       ingest |-> IF head.declared # {} THEN head.declared ELSE head.asserted \cup what.assert,
       asserted |-> head.declared = {},
       qi |-> [kind |-> 4, inheritFrom |-> head.base, of |-> head.qi, bloom |-> BloomFor(head, what.rows)],
       mask |-> [rowBase |-> head.rowTotal, count |-> Cardinality(mask), bits |-> mask,
                 edges |-> Edges(what.supersede, head.rowTotal)]]

-----------------------------------------------------------------------------
\* Places are [host, dir, name], dir a sequence. A locator is [form, dir, name];
\* forms other than "relative" are those validateLocatorShape refuses.
Under(place, dir) == IsPrefix(dir, place.dir)
Confined(target, child) == target.host = child.host /\ Under(target, child.dir)
Named(child, locator) == [child EXCEPT !.dir = @ \o locator.dir, !.name = locator.name]

\* parentLocatorFor: the way from a layer's directory down to its parent.
LocatorFor(parent, out) ==
  IF parent.host = out.host /\ Under(parent, out.dir)
  THEN {[form |-> "relative", dir |-> SubSeq(parent.dir, Len(out.dir) + 1, Len(parent.dir)), name |-> parent.name]}
  ELSE {}

\* A world is [files, leads, web]: what is at a place, to which place a place
\* leads on (a redirect, or a symbolic link), and whether it is fetched. The
\* places on the way from one:
Way(world, place) ==
  LET way[n \in 0..Cardinality(world.leads)] ==
        IF n = 0 THEN <<place>>
        ELSE way[n - 1] \o SetToSeq({l[2] : l \in {l \in world.leads : l[1] = Last(way[n - 1])}})
  IN  way[Cardinality(world.leads)]

\* Mutant: redirects on the way to a parent are followed anywhere.
Allowed_AnyRedirect(world, child, p) == world.web \/ Confined(p, child)

\* resolveLocatorUrl, resolveLocatorPath, assertConfined: what a locator leads
\* to stays below its child, at every redirect and through links.
Allowed(world, child, p) == Confined(p, child)

\* What is asked on the way to a parent. Of a file only the real path is looked
\* at; the redirect guard comes before each request.
Asked(world, child, candidate) ==
  LET way == Way(world, candidate.place)
      steps == IF world.web THEN way ELSE <<Last(way)>>
      Ok(n) == candidate.via # "locator" \/ \A m \in 1..n : Allowed(world, child, steps[m])
  IN  [places |-> {steps[n] : n \in {n \in DOMAIN steps : Ok(n)}}, arrives |-> Ok(Len(steps)), last |-> Last(way)]

\* resolveParentLocation: [lineage, resolve, host] is what the operator gave. A
\* locator that is refused is not made up for by the resolver of the host.
ParentPlace(a, child, opts) ==
  LET Known(table) == {e[2] : e \in {t \in table : t[1] = a.parent}}
      Candidates(via, places) == {[via |-> via, place |-> p] : p \in places}
  IN  IF Known(opts.lineage) # {} THEN Candidates("lineage", Known(opts.lineage))
      ELSE IF a.locator # {} THEN
        Candidates("locator", {Named(child, l) : l \in {x \in a.locator : x.form = "relative" /\ opts.resolve}})
      ELSE Candidates("host", Known(opts.host))

\* walkToBase: what was found, base first, where, and every place asked. A file
\* is from then on known by the place its links lead to, a page by its address.
WalkOn(world, opts, so) ==
  LET a == so.members[1]
      child == so.at[1]
      parents == ParentPlace(a, child, opts)
      candidate == CHOOSE x \in parents : TRUE
      answer == Asked(world, child, candidate)
  IN  IF so.lost \/ ~IsLayer(a) THEN so
      ELSE IF parents = {} THEN [so EXCEPT !.lost = TRUE]
      ELSE IF ~answer.arrives \/ answer.last \notin DOMAIN world.files \/ world.files[answer.last] # a.parent
           THEN [so EXCEPT !.lost = TRUE, !.asked = @ \cup answer.places]
      ELSE [members |-> <<a.parent>> \o so.members,
            at |-> <<IF world.web THEN candidate.place ELSE answer.last>> \o so.at,
            asked |-> so.asked \cup answer.places, lost |-> FALSE]
WalkToBase(world, head, opts) ==
  LET start == [members |-> <<world.files[Last(Way(world, head))]>>, at |-> <<head>>,
               asked |-> ToSet(Way(world, head)), lost |-> FALSE]
      walk == FoldLeft(LAMBDA so, n : WalkOn(world, opts, so), start, [n \in 1..MaxDepth |-> n])
  IN  [walk EXCEPT !.lost = @ \/ IsLayer(walk.members[1])]

-----------------------------------------------------------------------------
\* A chain is [base, appends, places]: where each of its members is written.

Written(chain) ==
  LET Grown(ms, what) ==
        IF Appends(ms, what)
        THEN Append(ms, AppendLayer(ms, what, LocatorFor(chain.places[Len(ms)], chain.places[Len(ms) + 1])))
        ELSE ms
  IN  FoldLeft(Grown, <<chain.base>>, chain.appends)

\* Other artifacts that may be where one should be.
Altered(a) ==
  IF ~IsLayer(a) THEN {[a EXCEPT !.rows = Append(@, "x")], [a EXCEPT !.encoder = "other"], [a EXCEPT !.qi.kind = 1],
                       [a EXCEPT !.ingest = {}], [a EXCEPT !.fit = {}], [a EXCEPT !.lexical = ~@]}
  ELSE {[a EXCEPT !.rows = <<>>, !.records = 0, !.index = FALSE], [a EXCEPT !.records = @ + 1],
        [a EXCEPT !.depth = @ + 1], [a EXCEPT !.rowBase = @ + 1], [a EXCEPT !.tombstones = @ + 1],
        [a EXCEPT !.mask.count = 0, !.mask.bits = {}, !.tombstones = 0],
        [a EXCEPT !.mask.bits = @ \cup {a.rowBase}], [a EXCEPT !.mask.rowBase = @ + 1],
        [a EXCEPT !.mask.edges = @ \o @], [a EXCEPT !.supersessions = 0, !.mask.edges = <<>>],
        [a EXCEPT !.mask.edges = [n \in DOMAIN @ |-> <<@[n][1], 0>>]],
        [a EXCEPT !.parent = a.base], [a EXCEPT !.base = a.parent], [a EXCEPT !.encoder = "other"],
        [a EXCEPT !.qi.of.kind = 1], [a EXCEPT !.qi.inheritFrom = a], [a EXCEPT !.qi.bloom = {}],
        [a EXCEPT !.ingest = {"other"}], [a EXCEPT !.asserted = ~@], [a EXCEPT !.lexical = ~@],
        [a EXCEPT !.locator = {}]}

\* Everything served of a chain is accounted for: what is deleted stays so, a
\* successor is a record of the layer that names it, and when the chain is
\* scored every word of its records is known.
Served(ms) ==
  /\ \A i \in 2..Len(ms) : MaskOf(ms[i - 1]) \subseteq MaskOf(ms[i]) /\ MaskOf(ms[i]) \subseteq 0..RowTotal(ms[i - 1]) - 1
  /\ \A i \in 2..Len(ms) : \A n \in DOMAIN ms[i].mask.edges :
       /\ ms[i].mask.edges[n][1] \in MaskOf(ms[i])
       /\ ms[i].mask.edges[n][2] \in RowTotal(ms[i - 1])..RowTotal(ms[i]) - 1
  /\ \A i \in DOMAIN ms : ms[i].encoder = ms[1].encoder /\ RowTotal(ms[i]) <= MaxRecords

\* The places of a chain as it was written, or some of its members moved and
\* what leads there left in their place.
Setting(setting, chain, ms) ==
  LET place(i) == chain.places[i]
      moved(p) == {l[2] : l \in {l \in setting.moved : l[1] = p}}
      now(i) == IF moved(place(i)) = {} THEN place(i) ELSE CHOOSE p \in moved(place(i)) : TRUE
  IN  [files |-> [p \in {now(i) : i \in DOMAIN ms} |-> ms[CHOOSE i \in DOMAIN ms : now(i) = p]],
       leads |-> setting.moved, web |-> setting.web]

\* What append writes mounts, and stays scored unless drift was asked for; no
\* member but the head of a chain can be another. A head is walked to its own
\* base or to none, and on the way nothing is asked but what the operator named
\* and what is below that.
MountSoundFor(chain, settings, operators) ==
  LET ms == Written(chain)
      scored == \A n \in DOMAIN chain.appends : ~chain.appends[n].allowDrift
      head == chain.places[Len(ms)]
  IN  /\ Mounts(ms) /\ Served(ms)
      /\ chain.base.fit # {} =>
           /\ \A i \in DOMAIN ms : ToSet(ms[i].rows) \subseteq UnionBloom(ms)
           /\ scored => Status(ms) = "inherited"
      /\ \A i \in DOMAIN ms : \A x \in Altered(ms[i]) : x # ms[i] =>
           LET other == [ms EXCEPT ![i] = x] IN Mounts(other) => i = Len(ms) /\ Served(other)
      /\ \A i \in 1..Len(ms) - 1 : ~Mounts(RemoveAt(ms, i))
      /\ \A setting \in settings : \A operator \in operators :
           LET world == Setting(setting, chain, ms)
               opts == [operator EXCEPT !.lineage = {<<ms[e[1]], e[2]>> : e \in {e \in @ : e[1] \in DOMAIN ms}},
                                        !.host = {<<ms[e[1]], e[2]>> : e \in {e \in @ : e[1] \in DOMAIN ms}}]
               walk == WalkToBase(world, head, opts)
               trusted == UNION {ToSet(Way(world, p)) : p \in {head} \cup {e[2] : e \in opts.lineage \cup opts.host}}
           IN  /\ ~walk.lost => walk.members = ms
               /\ \A p \in walk.asked : p \in trusted \/ \E t \in trusted : Confined(p, t)
               \* A chain written into one directory is found from its head.
               /\ (setting.moved = {} /\ opts.lineage = {} /\ \A i \in 1..Len(ms) - 1 : Confined(chain.places[i], chain.places[i + 1]))
                    => ~walk.lost \/ ~operator.resolve
=============================================================================
