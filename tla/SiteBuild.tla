------------------------------ MODULE SiteBuild ------------------------------
(***************************************************************************)
(* A build from sources to a project in its place (runBuild of build.mjs,  *)
(* createProject of cli.mjs): the crawl or the documents of a folder, the  *)
(* chunks, their vectors, the move. The stages follow one another; inside  *)
(* the second and the last two, things fail, and threads answer in any     *)
(* order. A stage that fails ends the build, and an old project stays.     *)
(***************************************************************************)
EXTENDS Crawl, Chunks, EmbedPool, ProjectInstall

CONSTANT Builds    \* what is built: [site, docs, content, crew, replacing, spent]

VARIABLES phase,     \* the stage the build is in
          build,     \* the member of Builds
          chunks

vars == <<phase, build, chunks, crawlVars, poolVars, installVars>>

InitOf(b) ==
  /\ build = b
  /\ chunks = <<>>
  /\ CrawlInit(b.site, b.docs)
  /\ PoolInit
  /\ InstallInit(b.replacing, b.spent)
Init == \E b \in Builds : InitOf(b) /\ phase = IF b.docs = <<>> THEN "seed" ELSE "chunk"

Documents == [i \in DOMAIN docs |-> build.content[docs[i]]]

Seed   == phase = "seed" /\ FollowSeed /\ UNCHANGED <<phase, build, chunks, poolVars, installVars>>
Start  == phase = "seed" /\ StartCrawl /\ phase' = "crawl" /\ UNCHANGED <<build, chunks, poolVars, installVars>>
Crawler ==
  /\ phase = "crawl"
  /\ Skip \/ FetchFails \/ Fetched
  /\ UNCHANGED <<phase, build, chunks, poolVars, installVars>>

\* The crawl is over. Nothing found is an error.
Ingested ==
  /\ phase = "crawl" /\ ~Crawling
  /\ phase' = IF docs = <<>> THEN "abandon" ELSE "chunk"
  /\ UNCHANGED <<build, chunks, crawlVars, poolVars, installVars>>
Chunk ==
  /\ phase = "chunk"
  /\ chunks' = Dedupe(ChunkDocs(Documents))
  /\ phase' = IF chunks' = <<>> THEN "abandon" ELSE "rows"
  /\ UNCHANGED <<build, crawlVars, poolVars, installVars>>
Embed ==
  /\ phase = "rows"
  /\ EmbedRows([i \in DOMAIN chunks |-> chunks[i].text], build.crew)
  /\ phase' = "embed"
  /\ UNCHANGED <<build, chunks, crawlVars, installVars>>
Pool ==
  /\ phase = "embed"
  /\ PoolNext
  /\ UNCHANGED <<phase, build, chunks, crawlVars, installVars>>

\* The rest of the build, up to its files; or its end.
Finish ==
  /\ phase = "embed" /\ pool = "done"
  /\ phase' = "install"
  /\ Built
  /\ UNCHANGED <<build, chunks, crawlVars, poolVars>>
Abandon ==
  /\ phase = "abandon" \/ (phase = "embed" /\ pool = "failed")
  /\ phase' = "over"
  /\ BuildFailed
  /\ UNCHANGED <<build, chunks, crawlVars, poolVars>>
Install ==
  /\ phase \in {"rows", "install"}
  /\ InstallNext
  /\ phase' = IF install' \in {"done", "failed", "dead"} THEN "over" ELSE phase
  /\ UNCHANGED <<build, chunks, crawlVars, poolVars>>

Next == Seed \/ Start \/ Crawler \/ Ingested \/ Chunk \/ Embed \/ Pool \/ Finish \/ Abandon \/ Install

Spec == Init /\ [][Next]_vars

\* Fetches, embeddings and file operations end, one way or another, and no
\* stage can go round in a circle: it is enough that each goes on. (Chunk is
\* the only step that leaves its phase.)
Fairness ==
  /\ WF_vars(Seed \/ Start) /\ WF_vars(Crawler) /\ WF_vars(Ingested)
  /\ WF_phase(phase = "chunk" /\ phase' \in {"rows", "abandon"})
  /\ WF_vars(Embed) /\ WF_vars(Pool) /\ WF_vars(Finish) /\ WF_vars(Abandon) /\ WF_vars(Install)
FairSpec == Spec /\ Fairness

-----------------------------------------------------------------------------
TypeOK ==
  /\ phase \in {"seed", "crawl", "chunk", "rows", "embed", "install", "abandon", "over"}
  /\ Range(docs) \subseteq DOMAIN build.content
  /\ hops \in 0..MaxHops /\ failures \in 0..MaxFailures /\ mishaps \in 0..MaxMishaps
  /\ {target, backup, built} \subseteq {"none", "old", "new", "part", "theirs"}
  /\ PoolTypeOK

\* A document long enough to be kept is kept whole: each of its tokens is in
\* some chunk, whatever was carried, merged, cut and dropped as repeated.
NothingLeftOut ==
  phase = "rows" =>
    \A d \in Range(Documents) :
      Len(DocText(d)) >= MinTokens =>
        Range(DocText(d)) \subseteq UNION {Range(chunks[c].text) : c \in DOMAIN chunks}

\* What a chunk says of where it is from is true of all of it: it is from one
\* document, its headings are ones that each headed part of it is under, and
\* its anchor is that of a heading of the document with exactly this path. (The
\* heading need not be in the chunk: an undersized section carried onto an
\* oversized one lends its anchor to every piece the two are cut into.)
ProvenanceTrue ==
  phase = "rows" =>
    \A c \in Range(chunks) :
      LET doc   == Documents[c.doc]
          parts == {t[2] : t \in Range(c.text)}
          real  == {i \in parts : doc.raw[i].depth > 0 /\ doc.raw[i].body # <<>>}
      IN /\ \A t \in Range(c.text) : t[1] = doc.name
         /\ doc.kind # "flat" => \A i \in real : IsPrefix(c.path, TruePath(doc, i))
         /\ c.anchor # <<>> => \E i \in DOMAIN doc.raw : TruePath(doc, i) = c.path /\ Anchor(doc, i) = c.anchor

\* What a build works on is what there is: a crawl finds all it should within
\* its limits (ingestUrl, ingest.mjs 199-270), and chunks hold the text of their
\* documents and tell truly where it is from (chunkDocs, ingest.mjs 711-873).
SourcesFaithful == TypeOK /\ CrawlIsThorough /\ NothingLeftOut /\ ProvenanceTrue
=============================================================================
