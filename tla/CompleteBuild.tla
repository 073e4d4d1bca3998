--------------------------- MODULE CompleteBuild ---------------------------
(***************************************************************************)
(* pikelet compile (compileArtifact of src/packages/pikelet/src/cli.mjs,   *)
(* buildCompleteArtifact of complete-build.mjs): the encoder's check       *)
(* vectors, an uncalibrated draft of the pack that the calibration asks,   *)
(* the pack, the replay of its golden queries, and the copy to where it    *)
(* was asked for. Any step may fail; what then is undone is the code's.    *)
(***************************************************************************)
EXTENDS Calibration

\* What is compiled: a corpus, if the encoder's declaration has check vectors,
\* what the command line says (calibration, skip, model, weights, force), and
\* which files are there (the output, the weights).
CONSTANT Compiles

VARIABLE compile

\* A calibration, and a file: whole with what is in it, or not.
Made(from, asset) == [from |-> from, asset |-> asset]
Unscored == Made("none", {})
Packed(goldens, calibration) == [is |-> "whole", goldens |-> goldens, calibration |-> calibration]
NotWhole(is) == [is |-> is, goldens |-> <<>>, calibration |-> Unscored]
NotCompiling ==
  [pc |-> "over", what |-> {}, weights |-> FALSE, partial |-> FALSE, embedder |-> "none", draft |-> FALSE, readers |-> {},
   calibration |-> Unscored, goldens |-> <<>>, kept |-> <<>>, pack |-> NotWhole("none"), dir |-> FALSE,
   out |-> NotWhole("unasked"), found |-> {}, failed |-> {}]
OutBefore(what) == NotWhole(IF what.there THEN "old" ELSE "unasked")
Wants(what) == IF what.calibration THEN "given" ELSE IF what.skip THEN "skip" ELSE "auto"

\* What cannot be meant, or would be overwritten, is refused first. What the
\* calibration finds depends on the corpus only.
CompileInit(what) ==
  LET meant == /\ ~(what.calibration /\ what.skip)
               /\ what.model => what.weights
               /\ what.there => what.force
      asked == [NotCompiling EXCEPT !.what = what, !.weights = what.have, !.out = OutBefore(what)]
  IN  compile = IF ~meant THEN [asked EXCEPT !.failed = {"asked"}]
                ELSE [asked EXCEPT !.pc = "inputs", !.dir = TRUE,
                                   !.found = IF Wants(what) = "auto" THEN calibrateRetrievalAbstention(what.corpus) ELSE {}]

Reached(pc) == compile.pc = pc
Breaks(next) == [compile EXCEPT !.pc = next, !.failed = @ \cup {compile.pc}]
Goes(next) == [compile EXCEPT !.pc = next]
WithEmbedder == IF compile.embedder = "none" THEN "live" ELSE compile.embedder

\* The encoder's weights: only the packaged ones are fetched, what is fetched is
\* what was pinned, and it gets its name when all of it is there.
ResolveInputs ==
  /\ Reached("inputs")
  /\ \/ compile.weights /\ compile' = Goes("vectors")
     \/ ~compile.weights /\ ~compile.what.model
        /\ compile' \in {[Goes("vectors") EXCEPT !.weights = TRUE], [Breaks("leave") EXCEPT !.partial = TRUE]}
     \/ compile' = Breaks("leave")

\* The declaration's check vectors, if it has none; the embedder is disposed of
\* when they fail.
TestVectors ==
  /\ Reached("vectors")
  /\ \/ compile.what.declared /\ compile' = Goes("sketch")
     \/ ~compile.what.declared /\ compile' = [Goes("sketch") EXCEPT !.embedder = "live"]
     \/ ~compile.what.declared /\ \E e \in {"none", "disposed"} : compile' = [Breaks("leave") EXCEPT !.embedder = e]

\* The index and the other segments: not within a try of theirs.
Sketch == Reached("sketch") /\ compile' \in {Goes("calibration"), Breaks("leave")}

\* A calibration given, none wanted, or one to be made.
ChooseCalibration ==
  /\ Reached("calibration")
  /\ CASE Wants(compile.what) = "given" -> compile' \in {[Goes("dispose") EXCEPT !.calibration = Made("given", {})], Breaks("dispose")}
       [] Wants(compile.what) = "skip" -> compile' = Goes("dispose")
       [] Wants(compile.what) = "auto" -> compile' = Goes("draft")
AssembleDraft ==
  /\ Reached("draft")
  /\ \/ compile' = [Goes("open") EXCEPT !.draft = TRUE]
     \/ \E left \in BOOLEAN : compile' = [Breaks("remove") EXCEPT !.draft = left]
OpenDraft == Reached("open") /\ compile' \in {[Goes("calibrate") EXCEPT !.readers = @ \cup {"draft"}], Breaks("remove")}
Calibrate ==
  /\ Reached("calibrate")
  /\ \/ \E c \in compile.found :
          compile' = [Goes("close") EXCEPT !.embedder = WithEmbedder, !.calibration = Made("auto", {c.asset}), !.goldens = c.goldens]
     \/ /\ compile.found = {}
        /\ compile' = [Goes("close") EXCEPT !.embedder = WithEmbedder]
     \/ \E e \in {compile.embedder, WithEmbedder} : compile' = [Breaks("close") EXCEPT !.embedder = e]

\* Each of the three is done whatever became of the one before.
CloseDraft ==
  /\ Reached("close")
  /\ compile' \in {[Goes("remove") EXCEPT !.readers = @ \ {"draft"}], [Breaks("remove") EXCEPT !.readers = @ \ {"draft"}]}
RemoveDraft == Reached("remove") /\ compile' = [Goes("dispose") EXCEPT !.draft = FALSE]
DisposeEmbedder ==
  /\ Reached("dispose")
  /\ compile' = [Goes(IF compile.failed = {} THEN "assemble" ELSE "leave") EXCEPT
                   !.embedder = IF @ = "live" THEN "disposed" ELSE @]

Assemble ==
  /\ Reached("assemble")
  /\ \/ compile' = [Goes(IF compile.goldens = <<>> THEN "copy" ELSE "reopen") EXCEPT
                      !.pack = Packed(compile.goldens, compile.calibration)]
     \/ compile' \in {Breaks("leave"), [Breaks("leave") EXCEPT !.pack = NotWhole("torn")]}

\* The pack's reader scores a question before it answers: what scores below
\* the hard threshold gets nothing. A pack without a fit answers all.
Withheld(calibration, corpus, words) ==
  LET sig == signalsFor(corpus, words, Evidence(corpus, words, {}))
  IN  \E fit \in calibration.asset : prob(fit.model, [sig |-> sig]) < fit.thresholds.hard
Reproduces(calibration, corpus, golden) ==
  /\ ~Withheld(calibration, corpus, golden.q.words)
  /\ ToSet(Sample(Evidence(corpus, golden.q.words, {}).fused, Scale.k)) \cap golden.q.source # {}

\* The pack answers its own golden queries; with those that it does it is
\* assembled again.
OpenPack == Reached("reopen") /\ compile' \in {[Goes("replay") EXCEPT !.readers = @ \cup {"pack"}], Breaks("leave")}
Replayed(calibration) ==
  [Goes("closePack") EXCEPT
     !.kept = SelectSeq(compile.goldens, LAMBDA g : Reproduces(calibration, compile.what.corpus, g))]
\* Mutant: the draft, which is not calibrated yet, answers them.
Replay_Draft == Reached("replay") /\ compile' \in {Replayed(Unscored), Breaks("closePack")}
Replay == Reached("replay") /\ compile' \in {Replayed(compile.pack.calibration), Breaks("closePack")}
ClosePack ==
  /\ Reached("closePack")
  /\ LET closed == [compile EXCEPT !.readers = @ \ {"pack"}]
         on == IF compile.failed # {} THEN "leave" ELSE IF compile.kept = compile.goldens THEN "copy" ELSE "again"
     IN  compile' \in {[closed EXCEPT !.pc = on], [closed EXCEPT !.pc = "leave", !.failed = @ \cup {"closePack"}]}
Reassemble ==
  /\ Reached("again")
  /\ compile' \in {[Goes("copy") EXCEPT !.pack = Packed(compile.kept, compile.calibration)],
                   Breaks("leave"), [Breaks("leave") EXCEPT !.pack = NotWhole("torn")]}

\* A copy over what was there; the directory goes in any case.
CopyOut ==
  /\ Reached("copy")
  /\ compile' \in {[Goes("leave") EXCEPT !.out = compile.pack], Breaks("leave"), [Breaks("leave") EXCEPT !.out = NotWhole("torn")]}
RemoveDir == Reached("leave") /\ compile' = [Goes("over") EXCEPT !.dir = FALSE, !.draft = FALSE, !.pack = NotWhole("none")]

CompileNext ==
  \/ ResolveInputs \/ TestVectors \/ Sketch \/ ChooseCalibration \/ AssembleDraft \/ OpenDraft \/ Calibrate \/ CloseDraft \/ RemoveDraft
  \/ DisposeEmbedder \/ Assemble \/ OpenPack \/ Replay \/ ClosePack \/ Reassemble \/ CopyOut \/ RemoveDir

-----------------------------------------------------------------------------
\* What is left of a build: no draft goes with the pack, no reader of a file
\* that is gone or half written, and no embedder but one that the segments
\* failed under, and that one has its weights; what was asked for is replaced by
\* a whole build's pack only, or torn by a copy that failed, and not at all
\* unless it was new or it was to be.
CompileTidy ==
  /\ compile.draft => compile.pc \in {"open", "calibrate", "close", "remove"}
  /\ "draft" \in compile.readers => compile.draft
  /\ compile.embedder # "none" => compile.weights /\ ~compile.partial
  /\ compile.out.is \in {"whole", "torn"} => compile.what.force \/ ~compile.what.there
  /\ "pack" \in compile.readers => compile.pack = Packed(compile.goldens, compile.calibration)
  /\ Reached("over") =>
       /\ compile.readers = {} /\ ~compile.dir
       /\ compile.embedder = "live" => compile.failed = {"sketch"}
       /\ IF compile.failed = {} THEN compile.out.is \in {"unasked", "whole"}
          ELSE compile.out = OutBefore(compile.what) \/ (compile.out.is = "torn" /\ compile.failed = {"copy"})

\* What is shipped passes its own tests with the calibration it is shipped
\* with, which may turn away some of the questions that made it, and loses none
\* that it would pass;
\* a pack without a calibration made for it has none.
ShippedTested ==
  (Reached("over") /\ compile.out.is = "whole") =>
    LET golden == ToSet(compile.out.goldens)
        corpus == compile.what.corpus
        passes(g) == Reproduces(compile.out.calibration, corpus, g)
    IN  /\ \A g \in golden : passes(g)
        /\ \A g \in ToSet(compile.goldens) : passes(g) => g \in golden
        /\ golden # {} => compile.out.calibration.asset # {}
        /\ compile.out.calibration.from \in {"none", Wants(compile.what)}

\* The calibration a pack ships is one to trust, and the pack passes its own
\* tests or is not there: whatever fails on the way, the file asked for stays
\* what it was until a whole build has passed (calibrate.mjs 599-1213;
\* complete-build.mjs 14-312; cli.mjs 787-803).
PackBuildSound ==
  /\ CompileTidy /\ ShippedTested
  /\ (Reached("close") /\ compile.failed = {}) => CalibrationSoundFor(compile.what.corpus)
=============================================================================
