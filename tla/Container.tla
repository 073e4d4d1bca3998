----------------------------- MODULE Container -----------------------------
(****************************************************************************)
(* The .pikelet container: the file that assemblePikeletFile                *)
(* (src/packages/pikelet-wasm/complete/builder.mjs) puts together, and what *)
(* openPikeletFile (complete/index.mjs) accepts of a file and serves of it. *)
(*                                                                          *)
(* A segment's bytes are a record that says of what kind they are and what  *)
(* its reader finds in them; a digest is taken for the bytes it is of.      *)
(****************************************************************************)
EXTENDS Integers, Sequences, FiniteSets, SequencesExt

Digest(bytes) == [sha256 |-> bytes]
Align16(n) == ((n + 15) \div 16) * 16
CeilDiv(a, b) == (a + b - 1) \div b

Kinds == {"index", "corpus", "query-interp", "evaluation", "lexical", "tombstones", "lineage", "rowmap"}
HeaderBytes == 64
EntryBytes == 48
SketchHeaderBytes == 256
LazyBytes == 4000   \* LAZY_QI_BYTES and LAZY_LEXICAL_BYTES

FormatVersion(profile) == CASE profile = "complete-v1" -> 1
                            [] profile \in {"complete-v2", "layer-v1"} -> 2
                            [] OTHER -> 0

-----------------------------------------------------------------------------
\* Building

\* Where each of the things of these sizes ends when one follows the other.
Ends(from, sizes) ==
  LET end[i \in 0..Len(sizes)] == IF i = 0 THEN from ELSE end[i - 1] + sizes[i] IN end

\* The digests of record digests, a page at a time.
PageTable(digests, page) ==
  [p \in 1..CeilDiv(Len(digests), page) |->
     Digest(SubSeq(digests, (p - 1) * page + 1, IF p * page < Len(digests) THEN p * page ELSE Len(digests)))]

\* records-v2: offsets, page table and record digests before the records.
RecordsAt(n, page) == 8 + 8 * (n + 1) + 32 * CeilDiv(n, page) + 32 * n
buildCorpusSegment(records, page) ==
  LET digests == [i \in DOMAIN records |-> Digest(records[i])]
      ends == Ends(RecordsAt(Len(records), page), [i \in DOMAIN records |-> Len(records[i])])
  IN  [of |-> "corpus", count |-> Len(records), page |-> page,
       offsets |-> [i \in 1..Len(records) + 1 |-> ends[i - 1]],
       table |-> PageTable(digests, page), digests |-> digests,
       area |-> FlattenSeq(records), size |-> ends[Len(records)]]

\* Layout 1: offsets and records.
buildCorpusSegmentFromBuffers(records) ==
  LET ends == Ends(4 + 8 * (Len(records) + 1), [i \in DOMAIN records |-> Len(records[i])])
  IN  [of |-> "corpus", count |-> Len(records), page |-> 0,
       offsets |-> [i \in 1..Len(records) + 1 |-> ends[i - 1]], table |-> <<>>, digests |-> <<>>,
       area |-> FlattenSeq(records), size |-> ends[Len(records)]]

\* What assemblePikeletFile refuses.
Assembles(fields, segments) ==
  LET version == FormatVersion(fields.profile)
      tombstonesOnly == fields.profile = "layer-v1" /\ fields.records = 0
  IN  /\ version # 0
      /\ version = 2 => (fields.layout = "records-v2") = ~tombstonesOnly
      /\ version = 1 => fields.layout = "none"
      /\ version = 2 /\ ~tombstonesOnly =>
           \E i \in DOMAIN segments : segments[i].of = "index" /\ segments[i].size >= SketchHeaderBytes

\* The file: manifest, table, then every segment on a multiple of 16.
assemblePikeletFile(fields, segments) ==
  LET n == Len(segments)
      version == FormatVersion(fields.profile)
      manifestBytes == 100 + 100 * n
      offset[i \in 1..n] == IF i = 1 THEN Align16(HeaderBytes + manifestBytes + n * EntryBytes)
                            ELSE Align16(offset[i - 1] + segments[i - 1].size)
      index == SelectSeq(segments, LAMBDA s : s.of = "index")
      manifest == [fields |-> fields,
                   header |-> IF version = 2 /\ index # <<>> THEN Digest(index[1].header) ELSE Digest(<<>>),
                   segments |-> [i \in 1..n |-> [kind |-> segments[i].of, sha256 |-> Digest(segments[i]),
                                                 bytes |-> segments[i].size]]]
  IN  [magic |-> "PSF1", version |-> version, manifestBytes |-> manifestBytes, count |-> n,
       fileBytes |-> offset[n] + segments[n].size, size |-> offset[n] + segments[n].size,
       identity |-> Digest(manifest), manifest |-> manifest,
       table |-> [i \in 1..n |-> [kind |-> IF segments[i].of \in Kinds THEN segments[i].of ELSE "unknown",
                                  offset |-> offset[i], length |-> segments[i].size]],
       placed |-> [i \in 1..n |-> [offset |-> offset[i], bytes |-> segments[i]]]]

-----------------------------------------------------------------------------
\* Opening

Noise(offset, length) == [of |-> "noise", at |-> offset, size |-> length]

\* A range that is no segment of the file holds what happens to be there.
BytesAt(f, offset, length) ==
  LET here == {p \in DOMAIN f.placed : f.placed[p].offset = offset /\ f.placed[p].bytes.size = length}
  IN  IF here = {} THEN Noise(offset, length) ELSE f.placed[CHOOSE p \in here : TRUE].bytes

HeaderPlausible(f) ==
  /\ f.magic = "PSF1" /\ f.version \in 1..2 /\ f.count \in 1..64
  /\ f.size = f.fileBytes
  /\ HeaderBytes + f.manifestBytes + f.count * EntryBytes <= f.fileBytes

\* A pinned pack is refused by its header; the manifest is what the header says.
ManifestSound(f, opts) ==
  LET profile == f.manifest.fields.profile
  IN  /\ opts.pins \subseteq {f.identity}
      /\ Digest(f.manifest) = f.identity
      /\ \/ profile \in {"complete-v1", "complete-v2"} /\ FormatVersion(profile) = f.version
         \/ profile = "layer-v1" /\ f.version = 2 /\ opts.member
      /\ Len(f.manifest.segments) = f.count

\* The table is outside of the identity: every entry has to say what the
\* manifest says, and where one segment ends the next begins.
parseSegmentTable(f) ==
  \A i \in 1..f.count :
    LET entry == f.table[i]
        declared == f.manifest.segments[i]
    IN  /\ declared.bytes = entry.length
        /\ entry.offset = IF i = 1 THEN Align16(HeaderBytes + f.manifestBytes + f.count * EntryBytes)
                          ELSE Align16(f.table[i - 1].offset + f.table[i - 1].length)
        /\ entry.offset + entry.length <= f.fileBytes
        /\ IF entry.kind = "unknown" THEN declared.kind \notin Kinds
           ELSE declared.kind = entry.kind /\ \A j \in 1..i - 1 : f.table[j].kind # entry.kind

Has(f, kind) == \E i \in 1..f.count : f.table[i].kind = kind
Entry(f, kind) == CHOOSE i \in 1..f.count : f.table[i].kind = kind
\* The bytes of g, a later state of the file, where f has the segment.
BytesOf(f, g, kind) == BytesAt(g, f.table[Entry(f, kind)].offset, f.table[Entry(f, kind)].length)
Verified(f, g, kind) == Digest(BytesOf(f, g, kind)) = f.manifest.segments[Entry(f, kind)].sha256

FirstRecordAt(f) ==
  IF f.version = 2 THEN RecordsAt(f.manifest.fields.records, f.manifest.fields.page) ELSE 4 + 8 * (f.manifest.fields.records + 1)

\* What the manifest says of the records has to fit their segment,
CorpusDeclared(f) ==
  LET corpus == BytesOf(f, f, "corpus")
  IN  /\ (f.version = 2) = (f.manifest.fields.layout = "records-v2")
      /\ FirstRecordAt(f) <= corpus.size
      /\ corpus.of = "corpus"

\* and so has what stands before them there.
TablesSound(f) ==
  LET corpus == BytesOf(f, f, "corpus")
  IN  /\ corpus.count = f.manifest.fields.records
      /\ f.version = 2 => corpus.page = f.manifest.fields.page
      /\ corpus.offsets[1] = FirstRecordAt(f)
      /\ \A i \in DOMAIN corpus.offsets :
           /\ corpus.offsets[i] <= corpus.size
           /\ i > 1 => corpus.offsets[i - 1] <= corpus.offsets[i]
      /\ f.version = 2 => Digest(corpus.table) = f.manifest.fields.table

-----------------------------------------------------------------------------
\* Encoders: kind 1 is a student model, kind 2 the declaration of a model the
\* host has to have, kind 3 a transformer for the reader's own kernel, kind 4
\* the base's. A vector is what a model makes of a text.

Embedding(model, dim, text) == [model |-> model, dim |-> dim, text |-> text]
buildInlineTestVectors(model, dim, texts) ==
  [i \in DOMAIN texts |-> [text |-> texts[i], embedding |-> Embedding(model, dim, texts[i])]]
\* Every verification vector is one, and is what the model makes of its text.
Agrees(vectors, model, dim) == \A i \in DOMAIN vectors : vectors[i].embedding = Embedding(model, dim, vectors[i].text)

loadStudentModel(e) ==
  LET head == 32 + 4 * e.buckets + e.buckets * e.hidden
  IN  /\ 0 \notin {e.buckets, e.hidden, e.dim, e.features}
      /\ e.blob = ((head + 3) \div 4) * 4 + 8 * e.dim + e.dim * e.hidden

\* KERNEL_LAYOUT: what is compiled into the kernel, but for layers and weights.
KernelVocab == 30522
KernelDim == 384
KernelInner == 1536
kernelLayers(e) == e.layers \in 1..12
kernelWeightBits(e) == <<e.bits, e.block>> \in {<<8, 64>>, <<4, 32>>}
expectedBlobBytes(e) ==
  LET Quant(rows, cols) == (rows * cols * e.bits) \div 8 + rows * (cols \div e.block) * 8
      layer == 4 * Quant(KernelDim, KernelDim) + Quant(KernelInner, KernelDim) + Quant(KernelDim, KernelInner)
               + 36 * KernelDim + 4 * KernelInner
  IN  Quant(KernelVocab + 512 + 2, KernelDim) + 8 * KernelDim + e.layers * layer

buildInlineTransformerEncoderSegment(e) == e.blob = expectedBlobBytes(e)
parseInlineTransformerEncoder(e) ==
  /\ e.spare = 0
  /\ kernelLayers(e) /\ kernelWeightBits(e)
  /\ e.dim = KernelDim /\ e.maxTokens \subseteq 8..512
  /\ e.blob = expectedBlobBytes(e)
createInlineTransformerEmbedder(e, verify) ==
  e.vocab <= KernelVocab /\ (verify => Agrees(e.vectors, e.model, e.dim))

\* loadEmbedder, of the verified bytes.
InlineLoads(e, dim, opts) ==
  parseInlineTransformerEncoder(e) /\ e.dim = dim /\ createInlineTransformerEmbedder(e, opts.verify)

verifyHostEncoder(e, host, dim) == e.vectors # <<>> /\ e.dim = dim /\ Agrees(e.vectors, host.model, host.dim)
HostAdmitted(e, dim, opts) ==
  opts.verify => \A host \in opts.host :
    IF e.vectors # <<>> THEN verifyHostEncoder(e, host, dim) ELSE opts.unverified

-----------------------------------------------------------------------------
\* The sketch's header is committed to, and its resident part by its header.
IndexSound(f) ==
  LET index == BytesOf(f, f, "index")
  IN  /\ index.of = "index"
      /\ f.version = 2 => index.size >= SketchHeaderBytes /\ Digest(index.header) = f.manifest.header
      /\ Digest(index.resident) = index.header.resident

\* A big encoder is fetched later; only the segment's head and its calibration
\* are read.
Deferred(qi) == qi.kind = 3 /\ qi.size > LazyBytes
QueryInterpSound(f, opts) ==
  LET qi == BytesOf(f, f, "query-interp")
      dim == f.manifest.fields.dim
  IN  /\ qi.of = "query-interp"
      /\ qi.kind \in {1, 2, 3} \/ (qi.kind = 4 /\ f.manifest.fields.profile = "layer-v1")
      /\ ~Deferred(qi) =>
           /\ Verified(f, f, "query-interp")
           /\ qi.kind = 1 => loadStudentModel(qi.encoder)
           /\ qi.kind = 2 => HostAdmitted(qi.encoder, dim, opts)
           /\ qi.kind = 3 => InlineLoads(qi.encoder, dim, opts)

RowMapSound(f) ==
  LET fields == f.manifest.fields
      map == BytesOf(f, f, "rowmap")
      rows == BytesOf(f, f, "index").header.count
  IN  /\ fields.rowMap = Has(f, "rowmap")
      /\ BytesOf(f, f, "index").header.dim = fields.dim
      /\ IF ~fields.rowMap THEN rows = fields.records
         ELSE /\ Verified(f, f, "rowmap") /\ map.of = "rowmap"
              /\ Len(map.offsets) = fields.records + 1
              /\ map.offsets[1] = 0 /\ map.offsets[fields.records + 1] = rows
              /\ \A i \in 1..fields.records : map.offsets[i] < map.offsets[i + 1]

\* A big lexical index is read by the term, its records alone are counted.
LexicalSound(f) ==
  Has(f, "lexical") =>
    /\ BytesOf(f, f, "lexical").size <= LazyBytes => Verified(f, f, "lexical")
    /\ BytesOf(f, f, "lexical").of = "lexical" /\ BytesOf(f, f, "lexical").docs = f.manifest.fields.records

\* Mutant: the table is believed.
Opens_AnyTable(f, opts) ==
  /\ HeaderPlausible(f) /\ ManifestSound(f, opts)
  /\ \A kind \in {"index", "corpus", "query-interp"} : Has(f, kind)
  /\ CorpusDeclared(f) /\ TablesSound(f) /\ IndexSound(f) /\ QueryInterpSound(f, opts) /\ LexicalSound(f) /\ RowMapSound(f)

\* openPikeletFile.
Opens(f, opts) ==
  LET layer == f.manifest.fields.profile = "layer-v1"
  IN  /\ HeaderPlausible(f) /\ ManifestSound(f, opts) /\ parseSegmentTable(f)
      /\ layer => f.manifest.fields.records # 0
      /\ \A kind \in {"index", "corpus", "query-interp"} \cup (IF layer THEN {"tombstones"} ELSE {}) : Has(f, kind)
      /\ CorpusDeclared(f) /\ TablesSound(f) /\ IndexSound(f) /\ QueryInterpSound(f, opts) /\ LexicalSound(f) /\ RowMapSound(f)

\* readChainMemberShell: a layer of tombstones alone.
OpensAsShell(f) ==
  /\ HeaderPlausible(f) /\ Digest(f.manifest) = f.identity
  /\ f.manifest.fields.profile = "layer-v1" /\ f.version = 2 /\ f.manifest.fields.records = 0
  /\ Len(f.manifest.segments) = f.count /\ parseSegmentTable(f)
  /\ Has(f, "query-interp") /\ Has(f, "tombstones")
  /\ ~Has(f, "index") /\ ~Has(f, "corpus") /\ ~Has(f, "lexical")

-----------------------------------------------------------------------------
\* Serving: a file opened as f, whose bytes are by now those of g.

\* What is served is a set: of one thing, or empty when it is refused.
Refused == {}

\* readRecordBytes: offsets and page table of the open, a page of digests and
\* the record from the file as it is.
readRecordBytes(f, g, id) ==
  LET tables == BytesOf(f, f, "corpus")
      now == BytesOf(f, g, "corpus")
      page == CeilDiv(id, tables.page)
      last == IF page * tables.page < tables.count THEN page * tables.page ELSE tables.count
      digests == SubSeq(now.digests, (page - 1) * tables.page + 1, last)
      from == tables.offsets[id] - tables.offsets[1]
      bytes == SubSeq(now.area, from + 1, tables.offsets[id + 1] - tables.offsets[1])
  IN  IF now.of # "corpus" THEN Refused
      ELSE IF Digest(digests) # tables.table[page] THEN Refused
      ELSE IF Digest(bytes) # digests[id - (page - 1) * tables.page] THEN Refused
      ELSE {bytes}

\* loadEmbedder: what was read at the open has to be in the verified segment.
loadEmbedder(f, g) ==
  LET opened == BytesOf(f, f, "query-interp")
      full == BytesOf(f, g, "query-interp")
  IN  IF ~Deferred(opened) THEN {opened.encoder}
      ELSE IF ~Verified(f, g, "query-interp") THEN Refused
      ELSE IF full.calibration # opened.calibration \/ full.kind # opened.kind THEN Refused
      ELSE {full.encoder}

\* What embeds the queries of f, and whether it is known to be as declared.
\* It is not known of a student, and of no host that was not looked at.
Embedder(f, g, opts) ==
  LET kind == BytesOf(f, f, "query-interp").kind
      dim == f.manifest.fields.dim
      By(model, verified) == [model |-> model, verified |-> verified]
  IN  UNION {CASE kind = 1 -> {By(e.model, FALSE) : d \in {e.dim} \cap {dim}}
               [] kind = 2 -> {By(h.model, opts.verify /\ e.vectors # <<>>) : h \in {h \in opts.host : h.dim = dim}}
               [] kind = 3 /\ InlineLoads(e, dim, opts) -> {By(e.model, opts.verify /\ e.vectors # <<>>)}
               [] OTHER -> Refused : e \in loadEmbedder(f, g)}

\* readEvaluationSegment and readLineageSegment.
readOnDemand(f, g, kind) ==
  IF Has(f, kind) /\ Verified(f, g, kind) THEN {BytesOf(f, g, kind)} ELSE Refused

\* What a reader gets to see.
Served(f, g) ==
  [records |-> [id \in 1..f.manifest.fields.records |-> readRecordBytes(f, g, id)],
   encoder |-> loadEmbedder(f, g),
   calibration |-> IF loadEmbedder(f, g) = Refused THEN Refused ELSE {BytesOf(f, f, "query-interp").calibration},
   evaluation |-> readOnDemand(f, g, "evaluation"),
   lineage |-> readOnDemand(f, g, "lineage"),
   lexical |-> IF Has(f, "lexical") THEN {BytesOf(f, f, "lexical")} ELSE {},
   resident |-> BytesOf(f, f, "index").resident,
   rows |-> IF Has(f, "rowmap") THEN {BytesOf(f, f, "rowmap")} ELSE {}]

-----------------------------------------------------------------------------
\* Packs and what may become of them

buildQueryInterpSegment(packed) ==
  [of |-> "query-interp", size |-> IF packed.big THEN LazyBytes + 100 ELSE 100,
   kind |-> packed.kind, encoder |-> packed.encoder, calibration |-> [c |-> 1]]
Segment(kind, packed) ==
  LET n == Len(packed.records)
      rows == IF "rowmap" \in packed.extras THEN n + 1 ELSE n
  IN  CASE kind = "index" -> [of |-> "index", size |-> 300, header |-> [count |-> rows, dim |-> packed.dim, resident |-> Digest(<<rows>>)],
                              resident |-> <<rows>>]
        [] kind = "corpus" -> IF packed.profile = "complete-v1" THEN buildCorpusSegmentFromBuffers(packed.records)
                              ELSE buildCorpusSegment(packed.records, packed.page)
        [] kind = "query-interp" -> buildQueryInterpSegment(packed)
        [] kind = "lexical" -> [of |-> kind, size |-> IF packed.big THEN LazyBytes + 100 ELSE 100, docs |-> n, terms |-> 1]
        [] kind = "rowmap" -> [of |-> kind, size |-> 100, offsets |-> [i \in 1..n + 1 |-> IF i = 1 THEN 0 ELSE i]]
        [] OTHER -> [of |-> kind, size |-> 100, text |-> 1]

Fields(packed) ==
  LET n == Len(packed.records)
      v2 == packed.profile # "complete-v1" /\ ~(packed.profile = "layer-v1" /\ n = 0)
  IN  [profile |-> packed.profile, records |-> n, dim |-> packed.dim, layout |-> IF v2 THEN "records-v2" ELSE "none",
       page |-> IF v2 THEN packed.page ELSE 0, rowMap |-> "rowmap" \in packed.extras,
       table |-> IF v2 THEN Digest(buildCorpusSegment(packed.records, packed.page).table) ELSE Digest(<<>>)]

Segments(packed) == [i \in DOMAIN packed.order |-> Segment(packed.order[i], packed)]

\* The same bytes with one field of what they hold changed.
Altered(bytes) ==
  CASE bytes.of = "corpus" ->
         {[bytes EXCEPT !.count = @ + 1], [bytes EXCEPT !.page = @ + 1]}
         \cup {[bytes EXCEPT !.offsets[i] = @ + d] : i \in DOMAIN bytes.offsets, d \in {-1, 1}}
         \cup {[bytes EXCEPT !.table[p] = Digest(<<>>)] : p \in DOMAIN bytes.table}
         \cup {[bytes EXCEPT !.digests[i] = Digest(<<"z">>)] : i \in DOMAIN bytes.digests}
         \cup {[bytes EXCEPT !.area[i] = "z"] : i \in DOMAIN bytes.area}
         \cup {[bytes EXCEPT !.area[i] = "z", !.digests = [j \in DOMAIN @ |-> Digest(<<"z">>)]] : i \in DOMAIN bytes.area}
    [] bytes.of = "index" -> {[bytes EXCEPT !.header.count = @ + 1], [bytes EXCEPT !.header.dim = @ + 1], [bytes EXCEPT !.resident = <<0>>],
                              [bytes EXCEPT !.resident = <<0>>, !.header.resident = Digest(<<0>>)]}
    [] bytes.of = "query-interp" -> {[bytes EXCEPT !.encoder.model = "z"], [bytes EXCEPT !.calibration = [c |-> 2]],
                                     [bytes EXCEPT !.kind = 1]}
    [] bytes.of = "lexical" -> {[bytes EXCEPT !.docs = @ + 1], [bytes EXCEPT !.terms = 2]}
    [] bytes.of = "rowmap" -> {[bytes EXCEPT !.offsets[i] = @ + 1] : i \in DOMAIN bytes.offsets}
    [] OTHER -> {[bytes EXCEPT !.text = 2]}

Swapped(s, i, j) == [k \in DOMAIN s |-> IF k = i THEN s[j] ELSE IF k = j THEN s[i] ELSE s[k]]

\* Other bytes that may be served for a file.
Variants(f) ==
  {[f EXCEPT !.version = 3 - @], [f EXCEPT !.size = @ - 1], [f EXCEPT !.fileBytes = @ + 16, !.size = @ + 16],
   [f EXCEPT !.count = @ - 1], [f EXCEPT !.manifestBytes = @ + 1],
   [f EXCEPT !.manifest.fields.rowMap = ~@],
   [f EXCEPT !.manifest.fields.rowMap = ~@, !.identity = Digest([f.manifest EXCEPT !.fields.rowMap = ~@])]}
  \cup {[f EXCEPT !.table[i].kind = k] : i \in DOMAIN f.table, k \in Kinds \cup {"unknown"}}
  \cup {[f EXCEPT !.table[i].offset = @ + d] : i \in DOMAIN f.table, d \in {-16, 16}}
  \cup {[f EXCEPT !.table[i].length = @ - 1] : i \in DOMAIN f.table}
  \cup UNION {{[f EXCEPT !.table = Swapped(@, i, j)],
               [f EXCEPT !.table[i].offset = f.table[j].offset, !.table[j].offset = f.table[i].offset],
               [f EXCEPT !.placed[i].offset = f.table[j].offset, !.placed[j].offset = f.table[i].offset]} :
                i, j \in DOMAIN f.table}
  \cup UNION {{[f EXCEPT !.placed[i].bytes = b] : b \in Altered(f.placed[i].bytes)} : i \in DOMAIN f.placed}

Readers(packed) ==
  [host : {{}} \cup {{h} : h \in packed.hosts}, verify : BOOLEAN, unverified : BOOLEAN]

\* Queries are embedded by what the pack declares. Whoever verifies gets a model
\* that agrees with every vector declared, or none; one that declares none is
\* served to those who asked for that; what was sound when it was built loads,
\* and nothing else that comes with the pack; and an encoder that is fetched
\* later is taken or refused as one that is read at once (index.mjs 279-312,
\* 886-1010; inline-transformer.mjs 24-137, 318-361).
EncoderSoundFor(packed) ==
  LET File(big) == LET p == [packed EXCEPT !.big = big] IN assemblePikeletFile(Fields(p), Segments(p))
      e == packed.encoder
      Used(big, reader) == IF Opens(File(big), reader) THEN Embedder(File(big), File(big), reader) ELSE Refused
  IN  \A r \in Readers(packed) :
        LET reader == r @@ [pins |-> {}, member |-> packed.profile = "layer-v1"]
            used == Used(packed.big, reader)
        IN  /\ used = Used(~packed.big, reader)
            /\ packed.kind = 3 /\ ~buildInlineTransformerEncoderSegment(e) => used = Refused
            /\ packed.kind = 4 \/ (packed.kind # 2 /\ ~packed.sound /\ r.verify) => used = Refused
            /\ \A x \in used :
                 /\ packed.kind # 2 => x.model = e.model
                 /\ packed.kind = 2 => x.model \in {h.model : h \in r.host}
                 /\ x.verified => e.vectors # <<>> /\ Agrees(e.vectors, x.model, packed.dim)
                 /\ packed.kind = 2 /\ r.verify => x.verified \/ (r.unverified /\ e.vectors = <<>>)
            /\ packed.sound /\ packed.kind # 4 /\ (packed.kind = 2 => \E h \in r.host : h.model = e.model /\ h.dim = packed.dim) => used # Refused

\* What a pack was built of is what its readers are served: whatever other bytes
\* are there when it is opened, and whatever others when a record is read, they
\* see the same or are refused, once they name the pack they want. A layer is
\* not taken for a pack (openPikeletFile, index.mjs 521-1129, 1175-1209).
ContainerSoundFor(packed) ==
  LET fields == Fields(packed)
      f == assemblePikeletFile(fields, Segments(packed))
      layer == packed.profile = "layer-v1"
      opts == [pins |-> {f.identity}, member |-> layer, host |-> {}, verify |-> TRUE, unverified |-> FALSE]
      truth == Served(f, f)
      later == {f} \cup Variants(f)
      Keeps(seen, built) == seen \subseteq built
  IN  /\ Assembles(fields, Segments(packed))
      /\ (~layer \/ packed.records # <<>>) /\ packed.sound => Opens(f, opts)
      /\ layer => ~Opens(f, [opts EXCEPT !.member = FALSE])
      /\ OpensAsShell(f) = (layer /\ packed.records = <<>>)
      /\ f.version = 2 /\ Opens(f, opts) =>
           /\ truth.records = [id \in DOMAIN packed.records |-> {packed.records[id]}]
           /\ truth.encoder # Refused /\ (Has(f, "evaluation") => truth.evaluation # Refused)
           /\ (Has(f, "lineage") => truth.lineage # Refused)
           /\ \A g \in later : Opens(g, opts) =>
                \A h \in {f, g} :
                  LET seen == Served(g, h)
                  IN  /\ seen.rows = truth.rows /\ seen.resident = truth.resident
                      /\ ~packed.big => seen.lexical = truth.lexical
                      /\ Keeps(seen.encoder, truth.encoder) /\ Keeps(seen.calibration, truth.calibration)
                      /\ Keeps(seen.evaluation, truth.evaluation) /\ Keeps(seen.lineage, truth.lineage)
                      /\ \A id \in DOMAIN packed.records : Keeps(seen.records[id], {packed.records[id]})
           /\ \A h \in later : \A id \in DOMAIN packed.records : Keeps(readRecordBytes(f, h, id), {packed.records[id]})
=============================================================================
