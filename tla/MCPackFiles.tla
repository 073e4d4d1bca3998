----------------------------- MODULE MCPackFiles -----------------------------
(***************************************************************************)
(* Instances of PackFiles for TLC: the files, chains, segments and servers *)
(* the parts are about.                                                    *)
(***************************************************************************)
EXTENDS PackFiles, TLC

MCSymmetry == Permutations(Searches)

-----------------------------------------------------------------------------
\* Files: every profile, with and without each segment that may be absent.

Optional(profile, records) ==
  CASE profile = "layer-v1" /\ records = <<>> -> {}
    [] records = <<>> -> {"evaluation", "lineage", "extra"}
    [] OTHER -> {"lexical", "rowmap", "evaluation", "lineage", "extra"}
Required(profile, records) ==
  CASE profile = "layer-v1" /\ records = <<>> -> <<"query-interp", "tombstones">>
    [] profile = "layer-v1" -> <<"index", "corpus", "query-interp", "tombstones">>
    [] OTHER -> <<"query-interp", "index", "corpus">>
Of(profile, records, page, extras, big, encoder) ==
  [profile |-> profile, records |-> records, page |-> page, extras |-> extras, big |-> big,
   order |-> Required(profile, records) \o SetToSeq(extras),
   dim |-> 384, kind |-> encoder.kind, encoder |-> encoder.is, sound |-> encoder.sound, hosts |-> encoder.hosts]

\* Encoders of every kind, sound or with one thing wrong.
Vectors(model, dim) == File!buildInlineTestVectors(model, dim, <<"t", "u">>)
Sound(kind, is, hosts) == [kind |-> kind, is |-> is, sound |-> TRUE, hosts |-> hosts]
Unsound(kind, is, hosts) == [kind |-> kind, is |-> is, sound |-> FALSE, hosts |-> hosts]
Sized(e) == e @@ [blob |-> File!expectedBlobBytes(e)]
Inline(layers, bits, block) ==
  Sized([model |-> "m", dim |-> 384, layers |-> layers, bits |-> bits, block |-> block, maxTokens |-> {512},
         vocab |-> 30522, spare |-> 0, vectors |-> Vectors("m", 384)])
MiniLM == Inline(6, 8, 64)
Inherited == Sound(4, [model |-> "m", dim |-> 384], {})
Inlines ==
  {Sound(3, e, {}) : e \in {MiniLM, Inline(12, 4, 32), [MiniLM EXCEPT !.maxTokens = {}], [MiniLM EXCEPT !.vectors = <<>>]}}
  \cup {Unsound(3, e, {}) : e \in {Inline(13, 8, 64), Inline(0, 8, 64), Inline(6, 4, 64), [MiniLM EXCEPT !.dim = 128],
           [MiniLM EXCEPT !.maxTokens = {7}], [MiniLM EXCEPT !.maxTokens = {513}], [MiniLM EXCEPT !.vocab = 30523],
           [MiniLM EXCEPT !.spare = 1], [MiniLM EXCEPT !.layers = 5], [MiniLM EXCEPT !.bits = 4, !.block = 32],
           [MiniLM EXCEPT !.model = "n"], [MiniLM EXCEPT !.vectors = Vectors("m", 128)]}}
Student(hidden, dim, blob) ==
  [model |-> "m", buckets |-> 6, hidden |-> hidden, dim |-> dim, features |-> 9, blob |-> blob, vectors |-> <<>>]
Students == {Sound(1, Student(2, 384, 3908), {}), Unsound(1, Student(2, 383, 3898), {}), Unsound(1, Student(3, 384, 3908), {}),
             Unsound(1, Student(0, 384, 3128), {})}
Hosts == [model : {"m", "n"}, dim : {128, 384}]
Externals == {Sound(2, [model |-> "m", dim |-> 384, vectors |-> Vectors("m", 384)], Hosts)}
             \cup {Unsound(2, [model |-> "m", dim |-> d, vectors |-> v], Hosts) :
                     d \in {128, 384}, v \in {<<>>, Vectors("m", 128), Vectors("n", 384)}}
MCContainers ==
  UNION {{Of(p, r, g, x, b, IF p = "layer-v1" THEN Inherited ELSE Sound(3, MiniLM, {})) :
            g \in {1, 2}, x \in SUBSET Optional(p, r), b \in BOOLEAN} :
         p \in {"complete-v1", "complete-v2", "layer-v1"}, r \in {<<>>, <<<<"a">>>>, <<<<"a">>, <<"b", "b">>, <<"c">>>>}}
  \cup {Of(p, <<<<"a">>>>, 1, {}, b, e) : p \in {"complete-v1", "complete-v2"}, b \in BOOLEAN, e \in Inlines \cup Students \cup Externals}
  \cup {[Of("complete-v2", <<<<"a">>>>, 1, {}, b, Sound(3, MiniLM, {})) EXCEPT !.dim = 128, !.sound = FALSE] : b \in BOOLEAN}

-----------------------------------------------------------------------------
\* Chains: one or two appends of up to two records in one directory, and up to
\* two layers with members at other places, moved, and looked for in any way.

PlaceOf(h, d, n) == [host |-> h, dir |-> d, name |-> n]
BaseFile(fit, ingest, kind) ==
  [profile |-> "complete-v2", rows |-> <<"a", "b", "c">>, rowMap |-> FALSE, encoder |-> "e", ingest |-> ingest,
   qi |-> [kind |-> kind], lexical |-> TRUE,
   fit |-> IF fit THEN {[bloom |-> [bits |-> 8, words |-> {"a", "b", "c"}], envelope |-> {100}]} ELSE {}]
What(rows, remove, supersede, assert, allow) ==
  [rows |-> rows, remove |-> remove, supersede |-> supersede, assert |-> assert, allowDrift |-> allow]
Pairs(n) == {<<>>} \cup (IF n > 0 THEN {<<<<0, 0>>>>, <<<<2, 0>>>>} ELSE {})
            \cup (IF n > 1 THEN {<<<<2, 0>>, <<1, 1>>>>, <<<<1, 0>>, <<2, 1>>>>, <<<<1, 0>>, <<1, 1>>>>} ELSE {})
Firsts == UNION {{What(SubSeq(<<"d", "e">>, 1, n), remove, pairs, assert, allow) :
                    remove \in {{}, {0}, {4}}, pairs \in Pairs(n), assert \in {{}, {"cut"}}, allow \in BOOLEAN} : n \in 0..2}
Seconds == {What(rows, remove, pairs, {}, allow) :
              rows \in {<<>>, <<"f">>}, remove \in {{}, {0}, {3}}, pairs \in {<<>>, <<<<3, 0>>>>}, allow \in BOOLEAN}
Once == {<<a>> : a \in Firsts}
\* A second append to what no first one can be made to shows nothing more.
Twice(ingest) ==
  {<<a, b>> : a \in {a \in Firsts : a.rows # <<>> /\ 4 \notin a.remove /\ a.assert # ingest}, b \in Seconds}

Together == <<PlaceOf("h", <<>>, "base"), PlaceOf("h", <<>>, "l1"), PlaceOf("h", <<>>, "l2")>>
Apart == {<<PlaceOf("h", <<"s">>, "base"), PlaceOf("h", <<>>, "l1"), PlaceOf("h", <<>>, "l2")>>,
          <<PlaceOf("h", <<"s">>, "base"), PlaceOf("h", <<"s">>, "l1"), PlaceOf("h", <<>>, "l2")>>,
          <<PlaceOf("g", <<>>, "base"), PlaceOf("h", <<>>, "l1"), PlaceOf("h", <<"s">>, "l2")>>}
Leads == {{}, {<<PlaceOf("h", <<"s">>, "base"), PlaceOf("h", <<"s", "t">>, "base2")>>},
          {<<PlaceOf("h", <<"s">>, "base"), PlaceOf("g", <<>>, "base")>>},
          {<<PlaceOf("h", <<>>, "l1"), PlaceOf("h", <<"s">>, "q")>>},
          {<<PlaceOf("h", <<>>, "l1"), PlaceOf("h", <<"s">>, "q")>>, <<PlaceOf("h", <<"s">>, "base"), PlaceOf("h", <<>>, "base")>>}}
Elsewhere == {{}, {<<1, PlaceOf("g", <<>>, "base")>>}}
ChainOf(fit, ingest, kind, places, appends) == [base |-> BaseFile(fit, ingest, kind), places |-> places, appends |-> appends]
MCChains ==
  {[chain |-> ChainOf(f, i, k, Together, a), settings |-> {}, operators |-> {}] :
     f \in BOOLEAN, i \in {{}, {"cut"}}, k \in 1..3, a \in Once}
  \cup {[chain |-> ChainOf(f, {"cut"}, 3, Together, a), settings |-> {}, operators |-> {}] : f \in BOOLEAN, a \in Twice({"cut"})}
  \cup {[chain |-> ChainOf(f, {}, 3, Together, a), settings |-> {}, operators |-> {}] : f \in BOOLEAN, a \in Twice({})}
  \cup {[chain |-> ChainOf(TRUE, {"cut"}, 3, places, [m \in 1..n |-> What(<<"d">>, {m}, <<>>, {}, TRUE)]),
         settings |-> {[moved |-> leads, web |-> web]}, operators |-> {[lineage |-> lineage, resolve |-> resolve, host |-> host]}] :
     n \in 0..2, places \in {Together} \cup Apart, leads \in Leads, web \in BOOLEAN,
     lineage \in Elsewhere, resolve \in BOOLEAN, host \in Elsewhere}

-----------------------------------------------------------------------------
\* Segments: three shelves of texts, and a segment whose table says otherwise.

Word(a, b) == [hash |-> <<a, b>>, stop |-> FALSE]
StopWord == [hash |-> <<9, 9>>, stop |-> TRUE]
Texts == <<<<Word(0, 1), Word(7, 0), StopWord>>, <<Word(7, 1), Word(7, 1), Word(7, 2)>>, <<>>,
           <<Word(0, 1), Word(9, 1), Word(7, 0), Word(7, 3), Word(7, 0)>>>>
Otherwise(seg) == {[seg EXCEPT !.table[1].rel = @ + 40], [seg EXCEPT !.table[1].len = @ + 3], [seg EXCEPT !.table[2].rel = 0]}
MCShelves == {[texts |-> texts, segment |-> buildLexicalSegment(texts)] : texts \in {Texts, <<<<Word(4, 1)>>, <<Word(4, 1)>>>>, <<>>}}
             \cup {[texts |-> Texts, segment |-> seg] : seg \in Otherwise(buildLexicalSegment(Texts))}
MCQueryTexts == {<<Word(0, 1), Word(7, 0)>>, <<Word(7, 0), Word(9, 1)>>, <<Word(8, 3)>>}

-----------------------------------------------------------------------------
\* Servers: one or two packs of several kinds, or a shelf, with a journal or
\* without one, started here and installed to be started elsewhere.

Rel(name) == [abs |-> FALSE, dir |-> "", name |-> name]
Abs(dir, name) == [abs |-> TRUE, dir |-> dir, name |-> name]
PackFile(identity, members, named, encoder, records, answers, evaluation) ==
  [identity |-> identity, members |-> members, named |-> named, encoder |-> encoder,
   status |-> "inherited", records |-> records, answers |-> answers, evaluation |-> evaluation]
Three == 0 :> [text |-> "x", deleted |-> FALSE] @@ 1 :> [text |-> "y", deleted |-> FALSE] @@ 2 :> [text |-> "z", deleted |-> FALSE]
Answer(quality, ids) == [quality |-> quality, ids |-> ids]
Answers(a, b) == "a" :> Answer(a, <<1, 2>>) @@ "b" :> Answer(b, <<2>>)
Golden(text, expectId) == [text |-> text, expectId |-> expectId]
Tests(broken, goldens, probes) == [broken |-> broken, goldens |-> goldens, probes |-> probes]
Goldens == <<Golden("a", {1}), Golden("b", {2}), Golden("a", {}), Golden("b", {0})>>
Probes == <<[text |-> "a", expect |-> "abstain"], [text |-> "b", expect |-> "abstain"]>>

Docs == Serve!Built(PackFile("id1", <<>>, {}, TRUE, Three, Answers("strong", "none"), Tests(FALSE, Goldens, <<>>)))
Wiki == Serve!Built(PackFile("id2", <<>>, {<<"docs">>}, TRUE, Three, Answers("unscored", "unscored"), Tests(TRUE, Goldens, <<>>)))
Probed == Serve!Built(PackFile("id5", <<>>, {<<"docs", 2>>}, TRUE, Three, Answers("none", "weak"), Tests(FALSE, Goldens, Probes)))
Layered == PackFile("id3", <<"id1">>, {}, TRUE, [Three EXCEPT ![1].deleted = TRUE],
                    "a" :> Answer("weak", <<2>>) @@ "b" :> Answer("none", <<2, 0>>), Docs.evaluation)
Outgrown == [Layered EXCEPT !.identity = "id6", !.status = "drift-exceeded"]
NoEncoder == PackFile("id4", <<>>, {}, FALSE, Three, Answers("strong", "none"), Tests(FALSE, <<>>, <<>>))
Notes == [PackFile("idj", <<"j1", "j2">>, {}, TRUE, Three, Answers("strong", "none"), Tests(FALSE, <<>>, <<>>)) EXCEPT !.status = "none"]
World == Abs("d", <<"docs">>) :> Docs @@ Abs("d", <<"wiki">>) :> Wiki @@ Abs("d", <<"docs", "layer", 2>>) :> Layered
         @@ Abs("e", <<"docs">>) :> Wiki @@ Abs("d", <<"host">>) :> NoEncoder @@ Abs("d", <<"probed">>) :> Probed
         @@ Abs("e", <<"lost">>) :> Layered @@ Abs("d", <<"grown">>) :> Outgrown

Given == {[location |-> l, identity |-> i] : l \in {Rel(<<"docs">>), Abs("e", <<"docs">>), Rel(<<"docs", "layer", 2>>), Rel(<<"probed">>)},
                                             i \in {{}, {"id1"}}}
         \cup {[location |-> l, identity |-> {}] : l \in {Rel(<<"host">>), Rel(<<"grown">>), Abs("e", <<"lost">>), Rel(<<"gone">>)}}
ShelfEntry(target, identity, name, lineage) == [target |-> target, identity |-> identity, name |-> name, lineage |-> lineage]
Below(location, identity) == [location |-> location, identity |-> identity]
Lineage1 == <<Below(Rel(<<"docs">>), "id1")>>
ShelfFiles ==
  {[location |-> Rel(<<"shelf">>), entries |-> e] : e \in
     {<<>>, <<ShelfEntry({Rel(<<"wiki">>)}, {}, {<<"docs">>}, <<>>)>>, <<ShelfEntry({}, {}, {}, <<>>)>>,
      <<ShelfEntry({Rel(<<"docs">>)}, {"malformed"}, {}, <<>>)>>, <<ShelfEntry({Rel(<<"docs", "layer", 2>>)}, {}, {}, Lineage1)>>}
     \cup {<<ShelfEntry({Rel(<<"docs", "layer", 2>>)}, {"id3"}, {<<"docs", 2>>}, l), ShelfEntry({Rel(<<"docs">>)}, {}, {}, <<>>)>> :
             l \in {Lineage1, <<Below(Rel(<<"docs">>), "id3")>>, <<Below(Rel(<<"wiki">>), "id1")>>, Lineage1 \o Lineage1,
                    <<Below(Rel(<<"docs">>), "id1"), Below(Rel(<<"wiki">>), "id2")>>}}}
Asked(given, from, journal) == [packs |-> given, shelf |-> from, journal |-> journal]
Journals == {{}, {Notes}, {[Notes EXCEPT !.encoder = FALSE]}}
Singles == {<<>>} \cup {<<given>> : given \in Given}
Was(name) == Asked(<<[location |-> Abs("d", <<name>>), identity |-> {}]>>, {}, {})
MCServings ==
  {[world |-> World, asked |-> asked, dir |-> "d", elsewhere |-> "e", config |-> config] :
     asked \in {Asked(p, {}, j) : p \in Singles \cup (Given \X Given), j \in Journals}
               \cup {Asked(p, {s}, j) : p \in Singles, s \in ShelfFiles, j \in Journals},
     config \in {<<>>, "other" :> Was("wiki") @@ "knowledge" :> Was("docs")}}
=============================================================================
