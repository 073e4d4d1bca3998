-------------------------------- MODULE Chunks --------------------------------
(***************************************************************************)
(* From documents to the rows of the index (ingest.mjs): the sections of   *)
(* a document with their heading paths and anchors, the chunks made of     *)
(* them, and the removal of repeated chunks.                               *)
(*                                                                         *)
(* A document is [name, title, kind, raw]; raw is the sequence of its      *)
(* heading-delimited pieces [depth, heading, body], depth 0 for what comes *)
(* before the first heading, and body gives the length of each paragraph.  *)
(* A "flat" document has one piece of depth 0 and no sections.             *)
(* A token is <<name, piece, n>>, n = 0 for the heading (one token). A     *)
(* text is a sequence of paragraphs, a paragraph a sequence of tokens.     *)
(***************************************************************************)
EXTENDS Integers, FiniteSets, Sequences, SequencesExt, TLC

CONSTANTS MinTokens,  \* MIN_CHUNK_TOKENS
          Target,     \* chunking.targetTokens
          Overlap,    \* tokens by which windows overlap (less than the code takes)
          KeepMax     \* a section up to this long stays whole

ASSUME ChunksAssumption ==
  /\ MinTokens \in Nat \ {0} /\ Target \in Nat /\ MinTokens <= Target
  /\ Overlap \in 0..(Target - MinTokens)
  /\ KeepMax \in Nat /\ Target <= KeepMax

-----------------------------------------------------------------------------
Total(lengths) == FoldLeft(LAMBDA a, b : a + b, 0, lengths)
\* The pieces of a document.
BodyOf(doc, i) ==
  LET piece == doc.raw[i]
      before(p) == Total(SubSeq(piece.body, 1, p - 1))
  IN [p \in DOMAIN piece.body |-> [k \in 1..piece.body[p] |-> <<doc.name, i, before(p) + k>>]]

\* Two texts with a single line break between them: the last paragraph of the
\* first goes on with the first paragraph of the second.
Joined(a, b) ==
  IF a = <<>> THEN b
  ELSE IF b = <<>> THEN a
  ELSE Front(a) \o <<Last(a) \o Head(b)>> \o Tail(b)

\* textOf: the heading is the first line. In Markdown a blank line follows it,
\* HTML is flattened so that the body follows at once.
TextOf(doc, i) ==
  IF doc.raw[i].depth = 0 THEN BodyOf(doc, i)
  ELSE LET heading == <<<<<<doc.name, i, 0>>>>>>
       IN IF doc.kind = "html" THEN Joined(heading, BodyOf(doc, i)) ELSE heading \o BodyOf(doc, i)

\* The n-th use of a heading gets an anchor of its own (makeSlugger).
Anchor(doc, i) ==
  <<doc.raw[i].heading, Cardinality({j \in 1..(i - 1) : doc.raw[j].depth > 0 /\ doc.raw[j].heading = doc.raw[i].heading})>>

\* sectionize: a path has the section's own heading and those it is under; the
\* first heading of depth 1 stays out of the paths when it is the title.
Sectionize(doc) ==
  LET Step(acc, i) ==
        LET piece == doc.raw[i]
            under == SelectSeq(acc.stack, LAMBDA e : e.depth < piece.depth)
            title == piece.depth = 1 /\ ~acc.sawH1 /\ piece.heading = doc.title
            path  == IF title THEN <<>>
                     ELSE [k \in 1..Len(SelectSeq(under, LAMBDA e : ~e.title)) |->
                             SelectSeq(under, LAMBDA e : ~e.title)[k].heading] \o <<piece.heading>>
        IN IF piece.depth = 0
           THEN IF piece.body = <<>> THEN acc
                ELSE [acc EXCEPT !.out = Append(@, [path |-> <<>>, anchor |-> <<>>, headed |-> FALSE,
                                                    text |-> TextOf(doc, i)])]
           ELSE [stack |-> Append(under, [depth |-> piece.depth, heading |-> piece.heading, title |-> title]),
                 sawH1 |-> acc.sawH1 \/ piece.depth = 1,
                 out |-> Append(acc.out, [path |-> path, anchor |-> Anchor(doc, i),
                                          headed |-> piece.body # <<>>, text |-> TextOf(doc, i)])]
  IN FoldLeft(Step, [stack |-> <<>>, sawH1 |-> FALSE, out |-> <<>>], [i \in DOMAIN doc.raw |-> i]).out

-----------------------------------------------------------------------------
\* The chunks of a document.
Tokens(text) == FlattenSeq(text)
Size(text) == Len(Tokens(text))
IsChildOf(parent, child) == Len(child) = Len(parent) + 1 /\ IsPrefix(parent, child)

\* attributeMerge: the longest path that is true of all contributors with a
\* provenance, and the anchor of the one that owns it, if any.
AttributeMerge(from) ==
  LET real == SelectSeq(from, LAMBDA s : s.headed)
      lcp  == FoldLeft(LAMBDA p, s : LongestCommonPrefix({p, s.path}), Head(real).path, Tail(real))
      own  == SelectSeq(real, LAMBDA s : s.path = lcp)
  IN IF real = <<>> THEN [path |-> <<>>, anchor |-> <<>>]
     ELSE [path |-> lcp, anchor |-> IF own = <<>> THEN <<>> ELSE Head(own).anchor]

Group(from) == [text |-> FoldLeft(LAMBDA t, s : Joined(t, s.text), <<>>, from), from |-> from]

\* An undersized section goes with the one after it when that is its child, or
\* when it comes first in the document.
CarryForward(secs) ==
  LET Step(acc, i) ==
        LET small == Size(secs[i].text) < MinTokens
        IN IF small /\ \/ i < Len(secs) /\ IsChildOf(secs[i].path, secs[i + 1].path)
                       \/ acc.out = <<>> /\ acc.carry = <<>>
           THEN [acc EXCEPT !.carry = Append(@, secs[i])]
           ELSE [out |-> Append(acc.out, Group(Append(acc.carry, secs[i]))), carry |-> <<>>]
      end == FoldLeft(Step, [out |-> <<>>, carry |-> <<>>], [i \in DOMAIN secs |-> i])
  IN IF end.carry = <<>> THEN end.out ELSE Append(end.out, Group(end.carry))

\* Token windows: each starts before the end of the one before it, and the
\* last is the first to reach the end.
Windows(words) ==
  LET step == IF Target - Overlap > 1 THEN Target - Overlap ELSE 1
      more == IF Len(words) <= Target THEN 0 ELSE (Len(words) - Target + step - 1) \div step
      to(i) == IF i * step + Target < Len(words) THEN i * step + Target ELSE Len(words)
  IN [i \in 1..(more + 1) |-> SubSeq(words, (i - 1) * step + 1, to(i - 1))]

\* An oversized section is cut between paragraphs, an oversized paragraph into
\* windows.
Pieces(text) ==
  LET Flushed(acc) == IF acc.piece = <<>> THEN acc.out ELSE Append(acc.out, acc.piece)
      Step(acc, para) ==
        IF para = <<>> THEN acc
        ELSE IF Len(para) > KeepMax THEN [out |-> Flushed(acc) \o Windows(para), piece |-> <<>>]
        ELSE IF Len(acc.piece) + Len(para) > Target THEN [out |-> Flushed(acc), piece |-> para]
        ELSE [acc EXCEPT !.piece = @ \o para]
  IN IF Size(text) <= KeepMax THEN <<Tokens(text)>>
     ELSE Flushed(FoldLeft(Step, [out |-> <<>>, piece |-> <<>>], text))

\* An undersized section merges into the chunk before it in its document.
Mergeable_Any(chunks, n) == chunks # <<>>
Mergeable(chunks, n) == chunks # <<>> /\ Last(chunks).doc = n
Place(chunks, sec, n) ==
  LET tokens == Tokens(sec.text)
      small  == Len(tokens) < MinTokens
      cut    == IF small THEN <<tokens>> ELSE Pieces(sec.text)
      prev   == Last(chunks)
  IN IF tokens = <<>> THEN chunks
     ELSE IF small /\ Mergeable(chunks, n)
     THEN Append(Front(chunks), [doc |-> prev.doc, text |-> prev.text \o tokens, from |-> prev.from \o sec.from])
     ELSE chunks \o [i \in DOMAIN cut |-> [doc |-> n, text |-> cut[i], from |-> sec.from]]

\* A document without sections is cut into windows; a window that is too short
\* goes with the chunk before it, of whatever document.
PlaceWindow(chunks, window, n) ==
  IF Len(window) < MinTokens /\ chunks # <<>>
  THEN Append(Front(chunks), [Last(chunks) EXCEPT !.text = @ \o window])
  ELSE Append(chunks, [doc |-> n, text |-> window, from |-> <<>>])

\* chunkDocs: documents under the minimum are dropped.
DocText(doc) == FlattenSeq([i \in DOMAIN doc.raw |-> Tokens(TextOf(doc, i))])
ChunkDocs(docs) ==
  LET Step(chunks, n) ==
        IF Len(DocText(docs[n])) < MinTokens THEN chunks
        ELSE IF docs[n].kind = "flat"
        THEN FoldLeft(LAMBDA c, w : PlaceWindow(c, w, n), chunks, Windows(DocText(docs[n])))
        ELSE FoldLeft(LAMBDA c, s : Place(c, s, n), chunks, CarryForward(Sectionize(docs[n])))
      all == FoldLeft(Step, <<>>, [n \in DOMAIN docs |-> n])
  IN [i \in DOMAIN all |-> [doc |-> all[i].doc, text |-> all[i].text] @@ AttributeMerge(all[i].from)]

\* dedupeChunks: the first of the chunks with the same text.
Dedupe(chunks) ==
  FoldLeft(LAMBDA out, c : IF \E i \in DOMAIN out : out[i].text = c.text THEN out ELSE Append(out, c),
           <<>>, chunks)

-----------------------------------------------------------------------------
\* The headings a piece of a document is under, and its own, read off the
\* document: a piece is under an earlier one of smaller depth when no piece
\* between them has that depth or a smaller one.
Under(doc, i) ==
  {j \in 1..i : /\ doc.raw[j].depth > 0
                /\ j < i => doc.raw[j].depth < doc.raw[i].depth
                /\ \A k \in (j + 1)..i : doc.raw[k].depth > doc.raw[j].depth}
IsTitle(doc, j) ==
  /\ doc.raw[j].depth = 1 /\ doc.raw[j].heading = doc.title
  /\ \A k \in 1..(j - 1) : doc.raw[k].depth # 1
TruePath(doc, i) ==
  LET js == SetToSortSeq({j \in Under(doc, i) : ~IsTitle(doc, j)}, <)
  IN [k \in DOMAIN js |-> doc.raw[js[k]].heading]
=============================================================================
