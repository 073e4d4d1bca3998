-------------------------------- MODULE Site --------------------------------
(***************************************************************************)
(* A site's search, from its sources to its answers: the build of          *)
(* SiteBuild, the compilation and calibration of a pack, the workers a     *)
(* built site is served by, the reference worker whose index changes while *)
(* it serves, and how a query ranks records.                               *)
(* These share files, never memory: a behaviour is about one of them.      *)
(***************************************************************************)
EXTENDS SiteBuild, CompleteBuild, SearchWorker, ReferenceWorker, Retrieval

VARIABLE part  \* what the behaviour is about

siteVars == <<part, vars, compile, workerVars, limitVars, refVars, pack>>

\* What a behaviour is not about stays as it is.
NoBuild == [site |-> [seed |-> ""], docs |-> <<>>, content |-> <<>>, crew |-> {}, replacing |-> FALSE, spent |-> 0]
SiteInit ==
  /\ part \in {"build", "compile", "worker", "limit", "reference", "query"}
  /\ IF part = "build" THEN Init ELSE InitOf(NoBuild) /\ phase = "over"
  /\ IF part = "compile" THEN \E what \in Compiles : CompileInit(what) ELSE compile = NotCompiling
  /\ IF part = "query" THEN pack \in Packs ELSE pack = NoPack
  /\ WorkerInit /\ (part = "worker" \/ (flavour = "snapshot" /\ calibrated = "none"))
  /\ RefInit /\ (part = "reference" \/ ~bucket)
  /\ LimitInit

BuildStep == part = "build" /\ Next /\ UNCHANGED <<part, compile, workerVars, limitVars, refVars, pack>>
CompileStep == part = "compile" /\ CompileNext /\ UNCHANGED <<part, vars, workerVars, limitVars, refVars, pack>>
WorkerStep == part = "worker" /\ WorkerNext /\ UNCHANGED <<part, vars, compile, limitVars, refVars, pack>>
LimitStep == part = "limit" /\ LimitNext /\ UNCHANGED <<part, vars, compile, workerVars, refVars, pack>>
RefStep == part = "reference" /\ RefNext /\ UNCHANGED <<part, vars, compile, workerVars, limitVars, pack>>

SiteNext == BuildStep \/ CompileStep \/ WorkerStep \/ LimitStep \/ RefStep
SiteSpec == SiteInit /\ [][SiteNext]_siteVars

\* Loads, embeddings and bucket operations end, one way or another, and every
\* request gets its turn.
SiteFairness ==
  /\ Fairness
  /\ WF_compile(CompileNext)
  /\ WF_workerVars(LoadStep) /\ \A c \in Calls : WF_workerVars(CallStep(c))
  /\ WF_refVars(\E i \in DOMAIN restores : RestoreGoesOn(i))
  /\ \A r \in 1..MaxAsked : WF_refVars(Serve(r))
FairSiteSpec == SiteSpec /\ SiteFairness

\* The templates' workers answer from what they loaded and the reference worker
\* keeps what it acknowledged, whatever resets come between the waits of a
\* request.
ServersSound == WorkersSound /\ AcknowledgedSurvives

\* Every build comes to an end, also when threads of its pool or steps of it
\* fail; every
\* request to a worker is answered, whatever load, restore or mutation it waits
\* for is cut short by a reset (embed.mjs 146-220; templates/worker.js 184-194;
\* reference-worker/worker.js 421-429, 492-502). There are finitely many, so
\* in the end none is left unanswered.
EverythingEnds ==
  <>[](/\ phase = "over" /\ compile.pc = "over"
       /\ \A c \in Calls : call[c] = Fresh \/ Ended(c)
       /\ \A r \in 1..MaxAsked : req[r] = NotYet \/ Over(r))
=============================================================================
