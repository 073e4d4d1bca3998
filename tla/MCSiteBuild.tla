---------------------------- MODULE MCSiteBuild ----------------------------
(* Four sites, a pool of three threads, every document of up to three pieces *)
(* followed by one that begins with an undersized section, and a flat one.   *)
EXTENDS Site

Piece(d, h, b) == [depth |-> d, heading |-> h, body |-> b]
Doc(name, kind, raw) == [name |-> name, title |-> "T", kind |-> kind, raw |-> raw]

\* Pages of a site. Seeds: a redirect to a fragment, a filtered page, redirects
\* in a circle, and a refresh to another origin.
Pages == {"a", "b", "c", "t", "r", "s", "x", "o", "p"}
Content == [page \in Pages |->
             Doc(page, "html", <<Piece(1, "T", <<>>), Piece(2, "U", <<3>>), Piece(2, "V", <<1>>)>>)]
Site(seed) ==
  [seed     |-> Url(seed),
   origin   |-> [page \in Pages |-> IF page \in {"o", "p"} THEN 2 ELSE 1],
   kind     |-> [page \in Pages |-> CASE page = "t" -> "thin" [] page = "o" -> "rich"
                                       [] page \in {"r", "s"} -> "redirect"
                                       [] OTHER -> "html"],
   to       |-> [page \in Pages |-> CASE page = "r" -> [page |-> "a", frag |-> TRUE]
                                       [] page = "s" -> [page |-> "s", frag |-> TRUE]
                                       [] page = "t" -> [page |-> "c", frag |-> TRUE]
                                       [] OTHER -> Url("p")],
   links    |-> [page \in Pages |-> CASE page = "a" -> <<"b", "x", "o", "b", "t">>
                                       [] page = "b" -> <<"a", "c">>
                                       [] page = "x" -> <<"c", "a", "b">>
                                       [] page = "p" -> <<"o", "a">>
                                       [] OTHER -> <<>>],
   filtered |-> {"x"}]

Bodies == {<<>>, <<1>>, <<3>>, <<3, 3>>, <<8>>}
Raws == [{1} -> {Piece(0, "", <<1>>), Piece(1, "T", <<>>), Piece(1, "T", <<1>>)}
                \union {Piece(d, "U", b) : d \in 1..2, b \in Bodies}]
Rest3 == {Piece(d, h, b) : d \in 1..3, h \in {"U"}, b \in Bodies}
Folders == {<<a[1], b, c>> : a \in Raws, b \in Rest3, c \in Rest3}

Second == Doc("e", "html", <<Piece(2, "V", <<>>), Piece(1, "W", <<>>), Piece(1, "X", <<1>>)>>)
Flat   == Doc("f", "flat", <<Piece(0, "", <<5>>)>>)
Folder(kind, raw) == [d |-> Doc("d", kind, raw), e |-> Second, f |-> Flat]

MCBuilds ==
  {[site |-> Site(seed), docs |-> <<>>, content |-> Content, crew |-> {}, replacing |-> FALSE, spent |-> 1] :
     seed \in {"r", "x", "s", "t", "o"}}
  \union
  {[site |-> Site("a"), docs |-> <<"d", "e", "f">>, content |-> Folder(kind, raw), crew |-> {},
    replacing |-> FALSE, spent |-> MaxMishaps] : kind \in {"html", "md"}, raw \in Folders}
  \union
  {[site |-> Site("a"), docs |-> <<"d", "f">>, content |-> Folder("md", <<Piece(1, "U", <<3>>), Piece(1, "V", <<3>>), Piece(1, "W", <<3>>)>>),
    crew |-> Workers, replacing |-> TRUE, spent |-> 0]}

MCNoVector == <<>>
MCTexts == Seq((Pages \union {"d", "e", "f"}) \X (1..3) \X (0..9)) \ {<<>>}

\* Packs of three records in any order, some with a fourth, some with several
\* rows per record.
At(d, n) == [dist |-> d, near |-> n]
Rec(atRows, terms, verbatim) == [rows |-> atRows, terms |-> terms, verbatim |-> verbatim]
Perfect == Rec(<<At(0, 2)>>, {}, FALSE)
Near    == Rec(<<At(40, 1)>>, {}, FALSE)
Named   == Rec(<<At(42, 2)>>, {1}, FALSE)
Quoted  == Rec(<<At(41, 3)>>, {1, 2}, TRUE)
Far     == Rec(<<At(60, 1)>>, {2}, FALSE)
Split   == Rec(<<At(40, 3), At(60, 1)>>, {1}, FALSE)
Long    == Rec(<<At(60, 1), At(50, 2), At(0, 3)>>, {2}, FALSE)
Shelf(recs, masks) == {[records |-> r, masked |-> m] : r \in recs, m \in masks}
MCPacks == Shelf([1..3 -> {Perfect, Near, Named, Quoted, Far}], {{}, {1}, {2}, {1, 2}})
           \union Shelf({Append(r, Far) : r \in [1..3 -> {Near, Named, Quoted}]}, {{}, {1}, {2}, {1, 3}})
           \union Shelf([1..3 -> {Near, Quoted, Split, Long}], {{}, {2}})

\* Corpora of two to five chunks, all calibrated; one compiled in every way. In
\* that of Sun and Moon a question of another domain scores above 95.
MCScale == [templates |-> 1, questions |-> 8, budget |-> 3, positives |-> 3, negatives |-> 3, human |-> 2, goldens |-> 4,
            k |-> 2, rank |-> 2, passages |-> 2, common |-> 3, deep |-> 4, weak |-> 2]
Paragraph(title, body) == [title |-> title, body |-> body]
Net  == Paragraph(<<"net">>, <<"cable", "port", "Bo">>)
Net2 == Paragraph(<<"net">>, <<"switch", "port">>)
Tea  == Paragraph(<<"tea">>, <<"leaf", "cup", "Al">>)
Pot  == Paragraph(<<"pot">>, <<"tea", "mug", "lid">>)
Mug  == Paragraph(<<"mug">>, <<"cup", "clay">>)
Sea  == Paragraph(<<"sea", "salt">>, <<"wave", "cup", "Cy">>)
Sun  == Paragraph(<<"sun", "wood", "den", "hut">>, <<"fox">>)
Moon == Paragraph(<<"moon", "lair", "owl", "elm">>, <<"nest">>)
By(words, source) == Question(words, source, "human")
ByPeople == {<<>>, <<By(<<"xx", "yy">>, {0}), By(<<"zz", "clay">>, {1})>>, <<By(<<"wave", "cup">>, {2}), By(<<"cup">>, {}), By(<<"port">>, {7})>>,
             <<By(<<"leaf">>, {0}), By(<<"cup">>, {0}), By(<<"tea">>, {0}), By(<<"mug">>, {1}), By(<<"clay">>, {1})>>}
Corpus(cs, kin, haze, names, questions, others, noise) ==
  [chunks |-> cs, kin |-> kin, haze |-> haze, names |-> names, questions |-> questions, foreign |-> others, gibberish |-> noise]
Others == {<<<<"tax", "form">>, <<"loan", "port">>, <<"visa">>>>, <<<<"cup", "cake">>, <<"tea", "net">>, <<"salt", "tax">>>>}
Noise == <<<<"qx", "zv">>, <<"vv">>, <<"ww">>>>
Corpora ==
  {Corpus(cs, kin, haze, names, questions, others, Noise) :
     cs \in {<<Net, Tea, Sea>>, <<Net, Net2, Tea, Mug>>, <<Tea, Mug, Sea, Net, Net2>>, <<Pot, Tea, Mug, Sea>>},
     kin \in {{{"leaf", "clay"}, {"port", "wave"}}, {{"cable", "switch"}, {"net", "sea"}, {"tea", "mug"}}},
     haze \in {0, 70}, names \in {{}, {"net", "tea", "Al"}}, questions \in ByPeople, others \in Others}
  \union {Corpus(<<Sun, Moon>>, {{"sun", "moon"}, {"den", "lair"}}, 0, {}, <<>>, <<<<"sun", "wood", "den", "hut", "moon">>>>, SubSeq(Noise, 1, 2))}
  \union {Corpus(cs, {}, 100, {}, <<>>, others, SubSeq(Noise, 1, n)) : cs \in {<<Net, Net2>>, <<Tea, Mug>>}, others \in Others, n \in 1..2}
Compile(c, d, given, skip, model, weights, force, there, have) ==
  [corpus |-> c, declared |-> d, calibration |-> given, skip |-> skip, model |-> model, weights |-> weights, force |-> force,
   there |-> there, have |-> have]
Small(others) == Corpus(<<Tea, Mug, Sea, Net>>, {}, 0, {}, <<By(<<"cup">>, {0})>>, others, Noise)
MCCompiles ==
  {Compile(c, TRUE, FALSE, FALSE, FALSE, FALSE, TRUE, TRUE, TRUE) : c \in Corpora}
  \union {Compile(Small(others), d, given, skip, FALSE, FALSE, TRUE, there, have) :
            others \in Others, d, given, skip, there, have \in BOOLEAN}
  \union {Compile(Small(others), TRUE, FALSE, FALSE, model, weights, force, there, have) :
            others \in Others, model, weights, force, there, have \in BOOLEAN}
=============================================================================
