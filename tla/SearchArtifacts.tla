--------------------------- MODULE SearchArtifacts ---------------------------
(***************************************************************************)
(* An index and what is published of it. Once its rows are all there and   *)
(* no ghost is resident, a snapshot is made into a file and the index      *)
(* disposed of; from then on readers search the file.                      *)
(***************************************************************************)
EXTENDS PikeletIndex, RangeArtifact, SketchArtifact

CONSTANT PublishRows   \* bound: an index of so many rows is published

VARIABLES published,  \* what was made of the index: nothing, range, sketch
          of          \* the graph it was made of

allVars == <<vars, published, of, rangeVars, sketchVars>>

ArtifactsInit == Init /\ published = "nothing" /\ of = EmptyGraph /\ RangeInit /\ SketchInit

Index ==
  /\ published = "nothing"
  /\ Next
  /\ UNCHANGED <<published, of, rangeVars, sketchVars>>

\* The index is exported, which it refuses while ghosts are resident, made into
\* a file and disposed of. (Bound: an index that took no other snapshot.)
Publish(kind) ==
  /\ published = "nothing"
  /\ g.deleted = {} /\ Len(g.vec) = PublishRows /\ snap.version # 3 /\ Loads(g)
  /\ published' = kind
  /\ of' = Saved(g)
  /\ snap' = Exported
  /\ Closed

buildRangeArtifact(loadRouter) ==
  /\ Publish("range")
  /\ OpenRange(exportSplitArtifact(g), loadRouter)
  /\ UNCHANGED sketchVars

\* A sketch artifact takes the rows of the snapshot only.
buildSketchArtifact(staged) ==
  /\ Publish("sketch")
  /\ OpenSketch(exportSketchArtifact(g.vec), staged)
  /\ UNCHANGED rangeVars

SearchRange == published = "range" /\ RangeNext /\ UNCHANGED <<vars, published, of, sketchVars>>
SearchSketch == published = "sketch" /\ SketchNext /\ UNCHANGED <<vars, published, of, rangeVars>>

ArtifactsNext ==
  \/ Index
  \/ \E early \in BOOLEAN : buildRangeArtifact(early) \/ buildSketchArtifact(early)
  \/ SearchRange \/ SearchSketch

ArtifactsSpec == ArtifactsInit /\ [][ArtifactsNext]_allVars

-----------------------------------------------------------------------------
\* A search of a range artifact that answers, answers what the engine answers
\* for the index the artifact was made of, whatever the caches held and other
\* searches did meanwhile. (A wider expansion may find more than the engine's
\* beam; it is compared where both see everything.) It fails only if the reader
\* was closed, or something else was going on in the reader beside it: then its
\* record may have been evicted again before it was looked at.
RangeAgrees ==
  published = "range" =>
    \A s \in DOMAIN Jobs :
      /\ job[s].pc = "done" => job[s].answer = search(of, Jobs[s].q, Jobs[s].k, Ef(s))
      /\ job[s].pc = "failed" => closed \/ s \in disturbed

\* Both kinds of artifact answer what they should, however their searches
\* share what the reader keeps (search of pikelet-artifact.js, and of
\* pikelet-artifact-sketch.js, 897-1108).
SearchesAgree == RangeAgrees /\ SketchAnswers
=============================================================================
