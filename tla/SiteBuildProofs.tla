-------------------------- MODULE SiteBuildProofs --------------------------
(***************************************************************************)
(* Two stages of building a site, and what serves it: the result of the    *)
(* embedding pool does not depend on the order in which its threads        *)
(* answer, for any number of threads and rows; replacing a project loses   *)
(* it at no moment, for any number of failures; and the workers stay       *)
(* whole and keep what they acknowledged, for any number of requests,      *)
(* resets, restores and lost isolates.                                     *)
(***************************************************************************)
EXTENDS Site, FiniteSetTheorems, WellFoundedInduction, NaturalsInduction, TLAPS

(***************************************************************************)
(* The embedding pool.                                                     *)
(***************************************************************************)

EmbedAny == \E given \in Seq(Texts), crew \in SUBSET Workers : EmbedRows(given, crew)
PoolSpec == PoolInit /\ [][EmbedAny \/ PoolNext]_poolVars

(***************************************************************************)
(* The inductive invariant: a thread that has a row, or whose vector is on *)
(* its way, has one that was given out; and no thread is left when the     *)
(* pool has given way to the main thread or the result is complete.        *)
(***************************************************************************)
WithRow == {"busy", "vector"}

RowsGivenOut == \A w \in Workers : worker[w].state \in WithRow => worker[w].row \in 1..next

NoneLeft == pool \in {"idle", "sequential", "done", "failed"} => \A w \in Workers : worker[w] = Idle

SlotsInPlace == \A i \in 1..Len(rows) : vectors[i] \in {NoVector, rows[i]}

Complete == pool = "done" => vectors = rows

PoolInv == PoolTypeOK /\ RowsGivenOut /\ NoneLeft /\ SlotsInPlace /\ Complete

WorkerType == [Workers -> [state : {"idle", "starting", "ready", "busy", "vector", "error", "failed", "closed"},
                           row : Nat]]

LEMMA InitInv == PoolInit => PoolInv
<1> SUFFICES ASSUME PoolInit PROVE PoolInv
  OBVIOUS
<1>1. rows = <<>> /\ vectors = <<>> /\ worker = [w \in Workers |-> Idle] /\ pool = "idle"
      /\ next = 0 /\ completed = 0 /\ rejected = FALSE
  BY DEF PoolInit
<1>2. <<>> \in Seq(Texts) /\ <<>> \in Seq(Texts \union {NoVector}) /\ Len(<<>>) = 0
  OBVIOUS
<1>3. PoolTypeOK
  <2>1. rows \in Seq(Texts) /\ vectors \in Seq(Texts \union {NoVector}) /\ Len(vectors) = Len(rows)
    BY <1>1, <1>2
  <2>2. worker \in WorkerType /\ next \in 0..Len(rows) /\ completed \in Nat
    BY <1>1, <1>2 DEF Idle, WorkerType
  <2>3. rejected \in BOOLEAN /\ pool \in {"idle", "running", "stopping", "sequential", "done", "failed"}
    BY <1>1
  <2> QED
    BY <2>1, <2>2, <2>3 DEF PoolTypeOK, WorkerType
<1> QED
  BY <1>1, <1>2, <1>3 DEF PoolInv, RowsGivenOut, NoneLeft, SlotsInPlace, Complete, WithRow, Idle

\* A result without an empty slot is that of the sequential path.
LEMMA FullIsComplete ==
  ASSUME PoolTypeOK, SlotsInPlace, \A i \in DOMAIN vectors : vectors[i] # NoVector
  PROVE  vectors = rows
BY DEF PoolTypeOK, SlotsInPlace

\* What dispatch hands out is a row that was not handed out before.
LEMMA DispatchInv ==
  ASSUME PoolTypeOK, RowsGivenOut, NEW w \in Workers, Dispatch(w), rows' = rows
  PROVE  worker' \in WorkerType /\ next' \in 0..Len(rows) /\ RowsGivenOut'
<1> USE DEF PoolTypeOK, RowsGivenOut, WithRow, Busy, Closed, WorkerType
<1>0. Len(rows) \in Nat
  OBVIOUS
<1>1. CASE next >= Len(rows)
  <2>1. worker' = [worker EXCEPT ![w] = Closed] /\ next' = next
    BY <1>1 DEF Dispatch
  <2>2. Closed \in [state : {"idle", "starting", "ready", "busy", "vector", "error", "failed", "closed"}, row : Nat]
    OBVIOUS
  <2>3. worker' \in WorkerType /\ next' \in 0..Len(rows)
    BY <2>1, <2>2
  <2>4. RowsGivenOut'
    BY <2>1, <2>2
  <2> QED
    BY <2>3, <2>4
<1>2. CASE ~(next >= Len(rows))
  <2>1. worker' = [worker EXCEPT ![w] = Busy(next + 1)] /\ next' = next + 1
    BY <1>2 DEF Dispatch
  <2>2. next' \in 0..Len(rows) /\ next + 1 \in Nat
    BY <1>0, <1>2, <2>1
  <2>3. Busy(next + 1) \in [state : {"idle", "starting", "ready", "busy", "vector", "error", "failed", "closed"}, row : Nat]
    BY <2>2
  <2>4. worker' \in WorkerType
    BY <2>1, <2>3
  <2>5. RowsGivenOut'
    BY <2>1, <2>2
  <2> QED
    BY <2>2, <2>4, <2>5
<1> QED
  BY <1>1, <1>2

LEMMA StepInv == PoolInv /\ [EmbedAny \/ PoolNext]_poolVars => PoolInv'
<1> SUFFICES ASSUME PoolInv, [EmbedAny \/ PoolNext]_poolVars PROVE PoolInv'
  OBVIOUS
<1> USE DEF PoolInv, PoolTypeOK, RowsGivenOut, NoneLeft, SlotsInPlace, Complete, WithRow,
            Idle, Starting, Ready, Busy, Vector, Error, Failed, Closed
<1>1. CASE UNCHANGED poolVars
  BY <1>1 DEF poolVars
<1>2. ASSUME NEW given \in Seq(Texts), NEW crew \in SUBSET Workers, EmbedRows(given, crew)
      PROVE  PoolInv'
  <2>1. rows' \in Seq(Texts) /\ Len(rows') \in Nat /\ next' = 0 /\ completed' = 0 /\ rejected' = FALSE
    BY <1>2 DEF EmbedRows
  <2>2. vectors' \in Seq(Texts \union {NoVector}) /\ Len(vectors') = Len(rows')
        /\ \A i \in 1..Len(rows') : vectors'[i] = NoVector
    BY <1>2 DEF EmbedRows
  <2>3. worker' \in WorkerType /\ \A w \in Workers : worker'[w].state \in {"idle", "starting"}
    BY <1>2 DEF EmbedRows, WorkerType
  <2>4. pool' \in {"sequential", "running"} /\ (pool' = "sequential" => \A w \in Workers : worker'[w] = Idle)
    BY <1>2 DEF EmbedRows
  <2>5. rejected' \in BOOLEAN
    BY <2>1
  <2>6. completed' \in Nat /\ next' \in 0..Len(rows')
    BY <2>1
  <2>7. PoolTypeOK'
    BY <2>1, <2>2, <2>3, <2>4, <2>5, <2>6 DEF WorkerType
  <2>8. RowsGivenOut' /\ NoneLeft' /\ SlotsInPlace' /\ Complete'
    BY <2>1, <2>2, <2>3, <2>4
  <2> QED
    BY <2>7, <2>8
<1>3. ASSUME NEW w \in Workers, Loaded(w) PROVE PoolInv'
  BY <1>3 DEF Loaded
<1>4. ASSUME NEW w \in Workers, Embedded(w) PROVE PoolInv'
  BY <1>4 DEF Embedded
<1>5. ASSUME NEW w \in Workers, Fails(w) PROVE PoolInv'
  BY <1>5 DEF Fails
<1>6. ASSUME NEW w \in Workers, OnReady(w) PROVE PoolInv'
  <2>1. worker' \in WorkerType /\ next' \in 0..Len(rows) /\ RowsGivenOut'
    BY <1>6, DispatchInv DEF OnReady
  <2>2. pool \in {"running", "stopping"}
    BY <1>6 DEF OnReady
  <2> QED
    BY <1>6, <2>1, <2>2 DEF OnReady, WorkerType
<1>7. ASSUME NEW w \in Workers, OnVector(w) PROVE PoolInv'
  <2>1. worker[w].row \in 1..Len(rows) /\ pool \in {"running", "stopping"}
    BY <1>7 DEF OnVector
  <2>2. vectors' \in Seq(Texts \union {NoVector}) /\ Len(vectors') = Len(rows) /\ SlotsInPlace'
    BY <1>7, <2>1 DEF OnVector
  <2>3. worker' \in WorkerType /\ next' \in 0..Len(rows) /\ RowsGivenOut'
    BY <1>7, DispatchInv DEF OnVector
  <2> QED
    BY <1>7, <2>1, <2>2, <2>3 DEF OnVector, WorkerType
<1>8. ASSUME NEW w \in Workers, OnError(w) PROVE PoolInv'
  BY <1>8 DEF OnError
<1>9. CASE AllClosed
  BY <1>9 DEF AllClosed
<1>10. CASE Stopped
  <2>1. pool' = "done" => vectors = rows
    BY <1>10, FullIsComplete DEF Stopped
  <2> QED
    BY <1>10, <2>1 DEF Stopped
<1>11. CASE Sequential
  BY <1>11 DEF Sequential
<1> QED
  BY <1>1, <1>2, <1>3, <1>4, <1>5, <1>6, <1>7, <1>8, <1>9, <1>10, <1>11 DEF EmbedAny, PoolNext

LEMMA InvImplies == PoolInv => VectorsInPlace
BY DEF PoolInv, PoolTypeOK, SlotsInPlace, Complete, VectorsInPlace

\* However many threads embed however many rows, and in whatever order they
\* answer or fail, a slot of the result holds nothing or its own row's vector,
\* and a finished result is the one of the sequential path (embed.mjs).
THEOREM PoolKeepsOrder == PoolSpec => []VectorsInPlace
<1>1. PoolInv /\ [EmbedAny \/ PoolNext]_poolVars => PoolInv'
  BY StepInv
<1> QED
  BY InitInv, <1>1, InvImplies, PTL DEF PoolSpec

-----------------------------------------------------------------------------
(***************************************************************************)
(* Replacing a project.                                                    *)
(***************************************************************************)

InstallStep == Built \/ BuildFailed \/ InstallNext
InstallSpec == (\E old \in BOOLEAN : InstallInit(old, 0)) /\ [][InstallStep]_installVars

(****************************************************************************)
(* The inductive invariant says, for each step of the move, where the old   *)
(* project and the new one are, and how many failures it takes to be there. *)
(****************************************************************************)
NewIsBuilt == install \in {"set_aside", "move", "copy", "copying"} => built = "new"
InPlace   == install \in {"cleanup", "done"} => target = "new"
NoBackup  == ~replacing \/ install = "done" => backup = "none"

OldIsSafe ==
  replacing =>
    /\ install \in {"build", "set_aside"} => target = "old" /\ backup = "none"
    /\ install \in {"move", "copy", "copying", "clear", "restore", "cleanup"} => backup = "old"
    /\ install \in {"move", "copy"} => target = "none"
    /\ install = "clear" => mishaps >= 1
    /\ install = "restore" => mishaps >= 1 /\ (target = "none" \/ mishaps >= 2)
    /\ install = "failed" => target \in {"old", "new"} \/ (backup = "old" /\ mishaps >= 2)
    /\ install = "dead" => target \in {"old", "new"} \/ backup = "old"

InstallInv ==
  /\ mishaps \in Nat /\ replacing \in BOOLEAN
  /\ install \in {"build", "set_aside", "move", "copy", "copying", "clear", "restore", "cleanup",
                  "done", "failed", "dead"}
  /\ install = "set_aside" => replacing
  /\ NewIsBuilt /\ InPlace /\ NoBackup /\ OldIsSafe

LEMMA InstallInitInv == (\E old \in BOOLEAN : InstallInit(old, 0)) => InstallInv
BY DEF InstallInit, InstallInv, NewIsBuilt, InPlace, NoBackup, OldIsSafe

LEMMA InstallStepInv == InstallInv /\ [InstallStep]_installVars => InstallInv'
<1> SUFFICES ASSUME InstallInv, [InstallStep]_installVars PROVE InstallInv'
  OBVIOUS
<1> USE DEF InstallInv, NewIsBuilt, InPlace, NoBackup, OldIsSafe, Mishap, Discard
<1>1. CASE UNCHANGED installVars
  BY <1>1 DEF installVars
<1>2. CASE Built
  BY <1>2 DEF Built
<1>3. CASE BuildFailed
  BY <1>3 DEF BuildFailed
<1>4. CASE Intrude
  BY <1>4 DEF Intrude
<1>5. CASE SetAside
  BY <1>5 DEF SetAside
<1>6. CASE Move
  BY <1>6 DEF Move
<1>7. CASE CopyBegins
  BY <1>7 DEF CopyBegins
<1>8. CASE CopyEnds
  BY <1>8 DEF CopyEnds
<1>9. CASE Clear
  BY <1>9 DEF Clear
<1>10. CASE Restore
  BY <1>10 DEF Restore
<1>11. CASE CleanUp
  BY <1>11 DEF CleanUp
<1>12. CASE Die
  BY <1>12 DEF Die
<1> QED
  BY <1>1, <1>2, <1>3, <1>4, <1>5, <1>6, <1>7, <1>8, <1>9, <1>10, <1>11, <1>12
  DEF InstallStep, InstallNext

LEMMA InstallInvImplies == InstallInv => ProjectSurvives
BY DEF InstallInv, InPlace, NoBackup, OldIsSafe, ProjectSurvives

\* However many file operations fail and wherever the process dies, a project
\* that create --force replaces is whole at its place or beside it; one failure
\* leaves a whole one at its place; and success means the new one is there
\* (installProject of cli.mjs).
THEOREM InstallLosesNothing == InstallSpec => []ProjectSurvives
<1>1. InstallInv /\ [InstallStep]_installVars => InstallInv'
  BY InstallStepInv
<1> QED
  BY InstallInitInv, <1>1, InstallInvImplies, PTL DEF InstallSpec

-----------------------------------------------------------------------------
(***************************************************************************)
(* The workers of built sites.                                             *)
(***************************************************************************)
CallSteps == {"none", "arrived", "waits", "loaded", "embeds", "searches", "closes",
              "ok", "failed", "unavailable"}

CallTyped ==
  call \in [Calls -> [kind : {"none", "search", "reset"}, step : CallSteps,
                      disturbed : BOOLEAN, named : BOOLEAN]]

WorkerTyped ==
  /\ flavour \in {"snapshot", "artifact", "docs"}
  /\ engine \in BOOLEAN /\ manifest \in BOOLEAN /\ texts \in BOOLEAN /\ student \in BOOLEAN
  /\ interrupted \in BOOLEAN
  /\ CallTyped

\* A load is of the worker's own kind, and begins with nothing loaded.
OwnLoad ==
  /\ loading \in {"no", "restore", "open", "student", "scorer", "index"}
  /\ loading \in {"student", "scorer", "index"} => flavour = "docs"
  /\ loading \in {"restore", "open"} => flavour # "docs"
  /\ loading # "no" => ~engine

\* What is loaded is loaded whole; the scorer is the calibrated one before the
\* docs worker has its index, unless a reset came in between.
Whole ==
  /\ engine = texts /\ engine = manifest /\ (flavour = "docs" => engine = student)
  /\ flavour # "docs" => scorer = "none" /\ calibrated = "none"
  /\ (engine \/ loading = "index") /\ scorer # calibrated => interrupted

\* A search under way that nothing has disturbed finds what it waited for.
Undisturbed ==
  \A c \in Calls :
    /\ call[c].named
    /\ call[c].step \in {"loaded", "embeds", "searches"} => engine \/ call[c].disturbed
    /\ call[c].step = "failed" => call[c].disturbed
    /\ call[c].step = "closes" => flavour = "artifact"

WorkerInv == WorkerTyped /\ OwnLoad /\ Whole /\ Undisturbed

LEMMA WorkerInitInv == WorkerInit => WorkerInv
<1> SUFFICES ASSUME WorkerInit PROVE WorkerInv
  OBVIOUS
<1>1. WorkerTyped
  BY DEF WorkerInit, WorkerTyped, CallTyped, CallSteps, Fresh
<1>2. OwnLoad
  BY DEF WorkerInit, OwnLoad
<1>3. Whole
  BY DEF WorkerInit, Whole
<1>4. Undisturbed
  BY DEF WorkerInit, Undisturbed, Fresh
<1> QED
  BY <1>1, <1>2, <1>3, <1>4 DEF WorkerInv

\* One request takes a step.
LEMMA CallMoves ==
  ASSUME WorkerInv, NEW c \in Calls, NEW step \in CallSteps, Steps(c, step),
         UNCHANGED <<engine, flavour>>, step = "closes" => flavour = "artifact",
         step \in {"loaded", "embeds", "searches"} => engine \/ call[c].disturbed,
         step = "failed" => call[c].disturbed
  PROVE  CallTyped' /\ Undisturbed'
<1>1. CallTyped'
  BY DEF WorkerInv, WorkerTyped, CallTyped, Steps
<1>2. ASSUME NEW d \in Calls
      PROVE  /\ call'[d].named
             /\ call'[d].step \in {"loaded", "embeds", "searches"} => engine \/ call'[d].disturbed
             /\ call'[d].step = "failed" => call'[d].disturbed
             /\ call'[d].step = "closes" => flavour = "artifact"
  <2>1. CASE d = c
    BY <2>1 DEF WorkerInv, WorkerTyped, CallTyped, Steps, Undisturbed
  <2>2. CASE d # c
    BY <2>2 DEF WorkerInv, WorkerTyped, CallTyped, Steps, Undisturbed
  <2> QED
    BY <2>1, <2>2
<1> QED
  BY <1>1, <1>2 DEF Undisturbed

LEMMA CallAnswered ==
  ASSUME WorkerInv, NEW c \in Calls, Answered(c), texts, UNCHANGED <<engine, flavour>>
  PROVE  CallTyped' /\ Undisturbed'
<1>1. CallTyped'
  BY DEF WorkerInv, WorkerTyped, CallTyped, Answered, CallSteps
<1>2. ASSUME NEW d \in Calls
      PROVE  /\ call'[d].named
             /\ call'[d].step \in {"loaded", "embeds", "searches"} => engine \/ call'[d].disturbed
             /\ call'[d].step = "failed" => call'[d].disturbed
             /\ call'[d].step = "closes" => flavour = "artifact"
  <2>1. CASE d = c
    BY <2>1 DEF WorkerInv, WorkerTyped, CallTyped, Answered, Undisturbed
  <2>2. CASE d # c
    BY <2>2 DEF WorkerInv, WorkerTyped, CallTyped, Answered, Undisturbed
  <2> QED
    BY <2>1, <2>2
<1> QED
  BY <1>1, <1>2 DEF Undisturbed

\* A load is over, well or not.
LEMMA LoadOver ==
  ASSUME WorkerInv,
         \/ LoadEnds("loaded") /\ engine' /\ UNCHANGED flavour
         \/ LoadFails
  PROVE  CallTyped' /\ Undisturbed'
<1> DEFINE Now(c, step) == /\ call'[c] \in [kind : {"none", "search", "reset"}, step : CallSteps, disturbed : BOOLEAN, named : BOOLEAN]
                           /\ call'[c].named
                           /\ call'[c].step \in {"loaded", "embeds", "searches"} => engine' \/ call'[c].disturbed
                           /\ call'[c].step = "failed" => call'[c].disturbed
                           /\ call'[c].step = "closes" => flavour' = "artifact"
<1>1. CASE LoadEnds("loaded") /\ engine' /\ UNCHANGED flavour
  <2>1. call' = [c \in Calls |-> IF call[c].step = "waits" THEN [call[c] EXCEPT !.step = "loaded"] ELSE call[c]]
    BY <1>1 DEF LoadEnds
  <2>2. ASSUME NEW c \in Calls PROVE Now(c, "loaded")
    BY <2>1, <1>1 DEF WorkerInv, WorkerTyped, CallTyped, Undisturbed, CallSteps
  <2> QED
    BY <2>1, <2>2 DEF CallTyped, Undisturbed
<1>2. CASE LoadFails
  <2>1. call' = [c \in Calls |-> IF call[c].step = "waits" THEN [Disturb(call)[c] EXCEPT !.step = "failed"] ELSE call[c]]
    BY <1>2 DEF LoadFails
  <2>2. engine' = engine /\ flavour' = flavour
    BY <1>2 DEF LoadFails, globals
  <2>3. ASSUME NEW c \in Calls PROVE Now(c, "failed")
    <3>1. CASE call[c].step = "waits"
      <4>1. call'[c] = [call[c] EXCEPT !.disturbed = TRUE, !.step = "failed"]
        <5>1. call[c] # Fresh /\ ~Ended(c)
          BY <3>1 DEF Fresh, Ended
        <5>2. Disturb(call)[c] = [call[c] EXCEPT !.disturbed = TRUE]
          BY <5>1 DEF Disturb
        <5> QED
          BY <2>1, <3>1, <5>2
      <4> QED
        BY <4>1 DEF WorkerInv, WorkerTyped, CallTyped, Undisturbed, CallSteps
    <3>2. CASE call[c].step # "waits"
      BY <2>1, <2>2, <3>2 DEF WorkerInv, WorkerTyped, CallTyped, Undisturbed
    <3> QED
      BY <3>1, <3>2
  <2> QED
    BY <2>1, <2>3 DEF CallTyped, Undisturbed
<1> QED
  BY <1>1, <1>2

LEMMA GlobalsCleared ==
  ASSUME WorkerInv, NEW c \in Calls, ClearGlobals(c)
  PROVE  CallTyped' /\ Undisturbed'
<1>1. call' = [Disturb(call) EXCEPT ![c].step = "ok"]
  BY DEF ClearGlobals
<1>2. ASSUME NEW d \in Calls
      PROVE  /\ call'[d] \in [kind : {"none", "search", "reset"}, step : CallSteps, disturbed : BOOLEAN, named : BOOLEAN]
             /\ call'[d].named
             /\ call'[d].step \in {"loaded", "embeds", "searches"} => call'[d].disturbed
             /\ call'[d].step = "failed" => call'[d].disturbed
             /\ call'[d].step = "closes" => flavour = "artifact"
  <2>1. call'[d] = IF d = c THEN [Disturb(call)[d] EXCEPT !.step = "ok"] ELSE Disturb(call)[d]
    BY <1>1 DEF Disturb
  <2>2. Disturb(call)[d] = IF call[d] = Fresh \/ Ended(d) THEN call[d] ELSE [call[d] EXCEPT !.disturbed = TRUE]
    BY DEF Disturb
  <2>3. CASE call[d] = Fresh \/ Ended(d)
    BY <2>1, <2>2, <2>3 DEF WorkerInv, WorkerTyped, CallTyped, Undisturbed, CallSteps, Fresh, Ended
  <2>4. CASE ~(call[d] = Fresh \/ Ended(d))
    <3>1. Disturb(call)[d] = [call[d] EXCEPT !.disturbed = TRUE]
      BY <2>2, <2>4
    <3> QED
      <4>1. /\ call[d] \in [kind : {"none", "search", "reset"}, step : CallSteps, disturbed : BOOLEAN, named : BOOLEAN]
            /\ call[d].named
            /\ call[d].step = "closes" => flavour = "artifact"
        BY DEF WorkerInv, WorkerTyped, CallTyped, Undisturbed
      <4>2. CASE d = c
        <5>1. call'[d] = [[call[d] EXCEPT !.disturbed = TRUE] EXCEPT !.step = "ok"]
          BY <2>1, <3>1, <4>2
        <5> QED
          BY <4>1, <5>1 DEF CallSteps
      <4>3. CASE d # c
        BY <2>1, <3>1, <4>1, <4>3 DEF CallSteps
      <4> QED
        BY <4>2, <4>3
  <2> QED
    BY <2>3, <2>4
<1>3. DOMAIN call' = Calls /\ call' = [d \in Calls |-> call'[d]]
  BY <1>1 DEF Disturb
<1>4. UNCHANGED flavour
  BY DEF ClearGlobals
<1> QED
  BY <1>2, <1>3, <1>4 DEF CallTyped, Undisturbed

LEMMA WorkerStepInv == WorkerInv /\ [WorkerNext]_workerVars => WorkerInv'
<1> SUFFICES ASSUME WorkerInv, [WorkerNext]_workerVars PROVE WorkerInv'
  OBVIOUS
<1> USE DEF CallSteps
<1>1. CASE UNCHANGED workerVars
  BY <1>1 DEF WorkerInv, WorkerTyped, CallTyped, OwnLoad, Whole, Undisturbed, workerVars, globals
<1>2. ASSUME NEW c \in Calls, CallArrives(c) PROVE WorkerInv'
  <2>1. PICK kind \in {"search", "reset"} : call' = [call EXCEPT ![c].kind = kind, ![c].step = "arrived"]
    BY <1>2 DEF CallArrives
  <2>2. CallTyped'
    BY <2>1 DEF WorkerInv, WorkerTyped, CallTyped
  <2>3. UNCHANGED <<flavour, interrupted, engine, manifest, texts, student, scorer, calibrated, loading>>
    BY <1>2 DEF CallArrives, globals
  <2>4. Undisturbed'
    BY <2>1, <2>3 DEF WorkerInv, WorkerTyped, CallTyped, Undisturbed
  <2> QED
    BY <2>2, <2>3, <2>4 DEF WorkerInv, WorkerTyped, OwnLoad, Whole
<1>3. CASE RestoreAssets \/ LoadAssets \/ DocsIndex
  <2>1. LoadEnds("loaded") /\ engine' /\ UNCHANGED flavour
    BY <1>3 DEF RestoreAssets, LoadAssets, DocsIndex
  <2>2. CallTyped' /\ Undisturbed'
    BY <2>1, LoadOver
  <2>3. /\ texts' /\ manifest' /\ engine' /\ loading' = "no"
        /\ UNCHANGED <<flavour, interrupted, scorer, calibrated>>
        /\ student' \in BOOLEAN /\ (flavour = "docs" => student')
    BY <1>3 DEF RestoreAssets, LoadAssets, DocsIndex, LoadEnds, WorkerInv, OwnLoad, WorkerTyped
  <2>4. texts' = TRUE /\ manifest' = TRUE /\ engine' = TRUE /\ (flavour = "docs" => student' = TRUE)
    BY <1>3 DEF RestoreAssets, LoadAssets, DocsIndex, WorkerInv, OwnLoad
  <2>5. flavour = "docs" => loading = "index"
    BY <1>3 DEF RestoreAssets, LoadAssets, DocsIndex, WorkerInv, OwnLoad
  <2>6. Whole'
    BY <2>3, <2>4, <2>5 DEF WorkerInv, Whole
  <2> QED
    BY <2>2, <2>3, <2>4, <2>6 DEF WorkerInv, WorkerTyped, OwnLoad
<1>4. CASE DocsStudent \/ DocsScorer
  <2>1. /\ UNCHANGED <<flavour, engine, manifest, texts, student, calibrated, call>>
        /\ interrupted' \in BOOLEAN
        /\ loading' \in {"scorer", "index"} /\ loading \in {"student", "scorer"}
        /\ loading' = "index" => scorer' = calibrated
    BY <1>4 DEF DocsStudent, DocsScorer, WorkerInv, WorkerTyped
  <2>2. flavour = "docs" /\ ~engine
    BY <2>1 DEF WorkerInv, OwnLoad
  <2> QED
    BY <2>1, <2>2 DEF WorkerInv, WorkerTyped, CallTyped, OwnLoad, Whole, Undisturbed
<1>5. CASE LoadFails
  <2>1. CallTyped' /\ Undisturbed'
    BY <1>5, LoadOver
  <2> QED
    BY <1>5, <2>1 DEF LoadFails, WorkerInv, WorkerTyped, OwnLoad, Whole, globals
<1>6. ASSUME NEW c \in Calls, EnsureLoaded(c) PROVE WorkerInv'
  <2>1. CallTyped' /\ Undisturbed'
    <3>1. CASE HasAssets
      BY <1>6, <3>1, CallMoves DEF EnsureLoaded, HasAssets, globals
    <3>2. CASE ~HasAssets
      BY <1>6, <3>2, CallMoves DEF EnsureLoaded, globals
    <3> QED
      BY <3>1, <3>2
  <2>2. UNCHANGED <<flavour, interrupted, engine, manifest, texts, student, scorer, calibrated>>
    BY <1>6 DEF EnsureLoaded, globals
  <2>3. OwnLoad' /\ (loading' = "index" => loading = "index")
    <3>1. CASE UNCHANGED loading
      BY <3>1, <2>2 DEF WorkerInv, OwnLoad
    <3>2. CASE loading' # loading
      <4>1. ~HasAssets /\ loading' = FirstWait
        BY <1>6, <3>2 DEF EnsureLoaded
      <4>2. ~engine
        BY <4>1 DEF HasAssets, WorkerInv, Whole
      <4> QED
        BY <4>1, <4>2, <2>2 DEF FirstWait, WorkerInv, WorkerTyped, OwnLoad
    <3> QED
      BY <3>1, <3>2
  <2> QED
    BY <2>1, <2>2, <2>3 DEF WorkerInv, WorkerTyped, Whole
<1>7. ASSUME NEW c \in Calls,
             EmbedQuery(c) \/ EmbedFails(c) \/ SearchIndex(c) \/ SearchArtifact(c)
             \/ AnswerFromArtifact(c) \/ SearchDocs(c) \/ CloseArtifact(c)
      PROVE WorkerInv'
  <2>1. UNCHANGED <<flavour, interrupted, engine, manifest, texts, student, scorer, calibrated, loading>>
    BY <1>7 DEF EmbedQuery, EmbedFails, SearchIndex, SearchArtifact, AnswerFromArtifact, SearchDocs, CloseArtifact, globals
  <2>2. CallTyped' /\ Undisturbed'
    <3>1. CASE EmbedQuery(c)
      BY <3>1, <2>1, CallMoves DEF EmbedQuery, Null, WorkerInv, Whole, Undisturbed
    <3>2. CASE EmbedFails(c)
      BY <3>2, <2>1, CallMoves DEF EmbedFails
    <3>3. CASE SearchIndex(c) \/ AnswerFromArtifact(c)
      BY <3>3, <2>1, CallMoves, CallAnswered DEF SearchIndex, AnswerFromArtifact, Null, WorkerInv, Whole, Undisturbed
    <3>4. CASE SearchArtifact(c)
      BY <3>4, <2>1, CallMoves DEF SearchArtifact, Null, WorkerInv, Undisturbed
    <3>5. CASE SearchDocs(c)
      BY <3>5, <2>1, CallMoves, CallAnswered DEF SearchDocs, Null, WorkerInv, Whole, Undisturbed
    <3>6. CASE CloseArtifact(c)
      BY <3>6, <2>1, CallMoves DEF CloseArtifact, Resets
    <3> QED
      BY <1>7, <3>1, <3>2, <3>3, <3>4, <3>5, <3>6
  <2> QED
    BY <2>1, <2>2 DEF WorkerInv, WorkerTyped, OwnLoad, Whole
<1>8. ASSUME NEW c \in Calls, ResetIndex(c) \/ ResetArtifact(c) \/ ResetDocs(c) PROVE WorkerInv'
  <2>1. ClearGlobals(c)
    BY <1>8 DEF ResetIndex, ResetArtifact, ResetDocs
  <2>2. CallTyped' /\ Undisturbed'
    BY <2>1, GlobalsCleared
  <2>3. /\ engine' = FALSE /\ manifest' = FALSE /\ texts' = FALSE
        /\ interrupted' = (interrupted \/ loading # "no")
        /\ UNCHANGED <<flavour, calibrated, loading>>
    BY <2>1 DEF ClearGlobals
  <2>4. \/ student' = FALSE /\ scorer' = "none"
        \/ UNCHANGED <<student, scorer>> /\ flavour # "docs"
    <3>1. ResetArtifact(c) => flavour = "artifact"
      BY DEF ResetArtifact, Resets, WorkerInv, Undisturbed
    <3>2. CASE ResetIndex(c) \/ ResetArtifact(c)
      BY <3>1, <3>2 DEF ResetIndex, ResetArtifact
    <3>3. CASE ResetDocs(c)
      BY <3>3 DEF ResetDocs
    <3> QED
      BY <1>8, <3>2, <3>3
  <2> QED
    BY <2>2, <2>3, <2>4 DEF WorkerInv, WorkerTyped, OwnLoad, Whole
<1> QED
  BY <1>1, <1>2, <1>3, <1>4, <1>5, <1>6, <1>7, <1>8 DEF WorkerNext, LoadStep, CallStep

LEMMA WorkerInvImplies == WorkerInv => AnswersNamed /\ LoadedWhole
BY DEF WorkerInv, Whole, Undisturbed, AnswersNamed, LoadedWhole

-----------------------------------------------------------------------------
(***************************************************************************)
(* The limit of requests per address.                                      *)
(***************************************************************************)
Ordered(times) ==
  /\ times \in Seq(Nat)
  /\ \A i, j \in 1..Len(times) : i <= j => times[i] <= times[j]

\* A sequence is the end of another, after its first k.
EndsAt(all, times, k) ==
  /\ k \in Nat /\ Len(all) = k + Len(times)
  /\ \A i \in 1..Len(times) : times[i] = all[k + i]

\* The first k of some times have left the window.
Past(all, k) == \A i \in 1..k : clock - all[i] >= Window

\* What is kept of the times let through is the end of them; the rest is past.
EndKept(a) == \E k : EndsAt(granted[a], entries[a], k) /\ Past(granted[a], k)

LimitInv ==
  /\ clock \in Nat
  /\ entries \in [Addresses -> Seq(Nat)] /\ granted \in [Addresses -> Seq(Nat)]
  /\ \A a \in Addresses :
       /\ Ordered(granted[a]) /\ \A i \in 1..Len(granted[a]) : granted[a][i] <= clock
       /\ EndKept(a)
       /\ Len(entries[a]) <= Rpm

LEMMA LeastOf ==
  ASSUME NEW T \in SUBSET Nat, T # {}
  PROVE  \E t \in T : \A u \in T : t <= u
<1> DEFINE less == OpToRel(<, Nat)
<1>1. IsWellFoundedOn(less, Nat)
  BY NatLessThanWellFounded
<1>2. PICK t \in T : \A u \in T : <<u, t>> \notin less
  <2> HIDE DEF less
  <2> QED
    BY <1>1, WFMin
<1>3. \A u \in T : ~(u < t)
  BY <1>2 DEF OpToRel
<1>4. \A u \in T : t <= u
  BY <1>3
<1> QED
  BY <1>4

\* Of times in order, sweeping leaves those within the window.
LEMMA SweptIs ==
  ASSUME NEW times, Ordered(times), clock \in Nat
  PROVE  \E m \in 0..Len(times) :
           /\ Swept(times) = SubSeq(times, m + 1, Len(times))
           /\ Recent(times) = (m + 1)..Len(times)
<1>1. times \in Seq(Nat) /\ Len(times) \in Nat /\ DOMAIN times = 1..Len(times) /\ Window \in Nat
  BY RateAssumption DEF Ordered
<1>2. CASE Recent(times) = {}
  <2>1. SubSeq(times, Len(times) + 1, Len(times)) = <<>>
    BY <1>1
  <2>2. (Len(times) + 1)..Len(times) = {}
    BY <1>1
  <2> QED
    BY <1>1, <1>2, <2>1, <2>2 DEF Swept
<1>3. CASE Recent(times) # {}
  <2>1. Recent(times) \in SUBSET Nat
    BY <1>1 DEF Recent
  <2>2. \E t \in Recent(times) : \A u \in Recent(times) : t <= u
    BY <1>3, <2>1, LeastOf
  <2>3. PICK t \in Recent(times) : t = Min(Recent(times)) /\ \A u \in Recent(times) : t <= u
    BY <2>2 DEF Min
  <2>4. t \in 1..Len(times) /\ clock - times[t] < Window
    BY <1>1, <2>3 DEF Recent
  <2>5. Recent(times) = t..Len(times)
    <3>1. ASSUME NEW i \in t..Len(times) PROVE i \in Recent(times)
      <4>1. i \in 1..Len(times) /\ times[t] <= times[i] /\ times[t] \in Nat /\ times[i] \in Nat
        BY <1>1, <2>4, <3>1 DEF Ordered
      <4> QED
        BY <1>1, <2>4, <4>1 DEF Recent
    <3>2. ASSUME NEW i \in Recent(times) PROVE i \in t..Len(times)
      BY <1>1, <2>3, <2>4, <3>2 DEF Recent
    <3> QED
      BY <3>1, <3>2
  <2>6. t - 1 \in 0..Len(times) /\ (t - 1) + 1 = t
    BY <1>1, <2>4
  <2> QED
    BY <1>3, <2>3, <2>5, <2>6 DEF Swept
<1> QED
  BY <1>2, <1>3

LEMMA EntriesInOrder ==
  ASSUME LimitInv, NEW a \in Addresses
  PROVE  Ordered(entries[a])
<1>1. entries[a] \in Seq(Nat) /\ Len(entries[a]) \in Nat /\ granted[a] \in Seq(Nat) /\ Len(granted[a]) \in Nat
  BY DEF LimitInv
<1>2. PICK k : EndsAt(granted[a], entries[a], k)
  BY DEF LimitInv, EndKept
<1>3. ASSUME NEW i \in 1..Len(entries[a]), NEW j \in 1..Len(entries[a]), i <= j
      PROVE  entries[a][i] <= entries[a][j]
  <2>1. k \in Nat /\ Len(granted[a]) = k + Len(entries[a])
    BY <1>2 DEF EndsAt
  <2>2. k + i \in 1..Len(granted[a]) /\ k + j \in 1..Len(granted[a]) /\ k + i <= k + j
    BY <1>1, <1>3, <2>1
  <2>3. granted[a][k + i] <= granted[a][k + j]
    BY <2>2 DEF LimitInv, Ordered
  <2>4. entries[a][i] = granted[a][k + i] /\ entries[a][j] = granted[a][k + j]
    BY <1>2 DEF EndsAt
  <2> QED
    BY <2>3, <2>4
<1> QED
  BY <1>1, <1>3 DEF Ordered

LEMMA TailIs ==
  ASSUME NEW times \in Seq(Nat), NEW m \in 0..Len(times)
  PROVE  /\ SubSeq(times, m + 1, Len(times)) \in Seq(Nat)
         /\ Len(SubSeq(times, m + 1, Len(times))) = Len(times) - m
         /\ EndsAt(times, SubSeq(times, m + 1, Len(times)), m)
<1>1. SubSeq(times, m + 1, Len(times)) \in Seq(Nat)
  OBVIOUS
<1>2. Len(SubSeq(times, m + 1, Len(times))) = Len(times) - m
  OBVIOUS
<1>3. \A i \in 1..(Len(times) - m) : SubSeq(times, m + 1, Len(times))[i] = times[m + i]
  OBVIOUS
<1> QED
  BY <1>1, <1>2, <1>3 DEF EndsAt

LEMMA EndOfEnd ==
  ASSUME NEW all \in Seq(Nat), NEW times \in Seq(Nat), NEW end \in Seq(Nat), NEW k, NEW m,
         EndsAt(all, times, k), EndsAt(times, end, m)
  PROVE  EndsAt(all, end, k + m)
<1>1. /\ k \in Nat /\ m \in Nat /\ Len(all) = k + Len(times) /\ Len(times) = m + Len(end)
      /\ Len(end) \in Nat
  BY DEF EndsAt
<1>2. k + m \in Nat /\ Len(all) = (k + m) + Len(end)
  BY <1>1
<1>3. ASSUME NEW i \in 1..Len(end) PROVE end[i] = all[(k + m) + i]
  <2>1. m + i \in 1..Len(times) /\ k + (m + i) = (k + m) + i
    BY <1>1
  <2>2. end[i] = times[m + i]
    BY DEF EndsAt
  <2>3. times[m + i] = all[k + (m + i)]
    BY <2>1 DEF EndsAt
  <2> QED
    BY <2>1, <2>2, <2>3
<1> QED
  BY <1>2, <1>3 DEF EndsAt

LEMMA EndGrows ==
  ASSUME NEW all \in Seq(Nat), NEW times \in Seq(Nat), NEW k, EndsAt(all, times, k), NEW t \in Nat
  PROVE  EndsAt(Append(all, t), Append(times, t), k)
<1>1. k \in Nat /\ Len(all) = k + Len(times) /\ Len(times) \in Nat /\ Len(all) \in Nat
  BY DEF EndsAt
<1>2. Len(Append(all, t)) = Len(all) + 1 /\ Len(Append(times, t)) = Len(times) + 1
  OBVIOUS
<1>3. ASSUME NEW i \in 1..(Len(times) + 1) PROVE Append(times, t)[i] = Append(all, t)[k + i]
  <2>1. CASE i = Len(times) + 1
    <3>1. k + i = Len(all) + 1
      BY <1>1, <2>1
    <3>2. Append(times, t)[Len(times) + 1] = t /\ Append(all, t)[Len(all) + 1] = t
      OBVIOUS
    <3> QED
      BY <2>1, <3>1, <3>2
  <2>2. CASE i # Len(times) + 1
    <3>1. i \in 1..Len(times) /\ k + i \in 1..Len(all)
      BY <1>1, <2>2
    <3>2. Append(times, t)[i] = times[i] /\ Append(all, t)[k + i] = all[k + i]
      BY <3>1
    <3>3. times[i] = all[k + i]
      BY <3>1 DEF EndsAt
    <3> QED
      BY <3>2, <3>3
  <2> QED
    BY <2>1, <2>2
<1> QED
  BY <1>1, <1>2, <1>3 DEF EndsAt

LEMMA RecentAtEnd ==
  ASSUME NEW all \in Seq(Nat), NEW times \in Seq(Nat), NEW k, NEW m \in 0..Len(times),
         EndsAt(all, times, k), Past(all, k), clock \in Nat, Window \in Nat,
         Recent(times) = (m + 1)..Len(times)
  PROVE  Recent(all) = (k + m + 1)..Len(all) /\ Past(all, k + m)
<1>1. /\ DOMAIN all = 1..Len(all) /\ DOMAIN times = 1..Len(times) /\ Len(all) \in Nat /\ Len(times) \in Nat
      /\ k \in Nat /\ Len(all) = k + Len(times)
  BY DEF EndsAt
<1>2. ASSUME NEW i \in 1..Len(all)
      PROVE  i \in Recent(all) <=> i > k + m
  <2>1. i \in Int /\ all[i] \in Nat /\ (i \in Recent(all) <=> clock - all[i] < Window)
    BY DEF Recent
  <2>2. CASE i <= k
    <3>1. clock - all[i] >= Window
      BY <1>1, <2>1, <2>2 DEF Past
    <3>2. ~(i > k + m)
      BY <1>1, <2>1, <2>2
    <3> QED
      BY <2>1, <3>1, <3>2
  <2>3. CASE i > k
    <3>1. i - k \in 1..Len(times) /\ k + (i - k) = i
      BY <1>1, <2>1, <2>3
    <3>2. all[i] = times[i - k]
      BY <3>1 DEF EndsAt
    <3>3. clock - times[i - k] < Window <=> i - k \in Recent(times)
      BY <1>1, <3>1 DEF Recent
    <3>4. i - k \in Recent(times) <=> i - k >= m + 1
      BY <1>1, <3>1
    <3>5. i - k >= m + 1 <=> i > k + m
      BY <1>1, <2>1
    <3> QED
      BY <2>1, <3>2, <3>3, <3>4, <3>5
  <2> QED
    BY <1>1, <2>1, <2>2, <2>3
<1>3. Past(all, k + m)
  <2> SUFFICES ASSUME NEW i \in 1..(k + m) PROVE clock - all[i] >= Window
    BY DEF Past
  <2>1. i \in 1..Len(all) /\ ~(i > k + m)
    BY <1>1
  <2>2. i \notin Recent(all) /\ all[i] \in Nat
    BY <1>2, <2>1
  <2> QED
    BY <1>1, <2>1, <2>2 DEF Recent
<1>4. \A i \in Recent(all) : i \in (k + m + 1)..Len(all)
  <2> SUFFICES ASSUME NEW i \in Recent(all) PROVE i \in (k + m + 1)..Len(all)
    OBVIOUS
  <2>1. i \in 1..Len(all)
    BY <1>1 DEF Recent
  <2>2. i > k + m
    BY <1>2, <2>1
  <2> QED
    BY <1>1, <2>1, <2>2
<1>5. \A i \in (k + m + 1)..Len(all) : i \in Recent(all)
  <2> SUFFICES ASSUME NEW i \in (k + m + 1)..Len(all) PROVE i \in Recent(all)
    OBVIOUS
  <2>1. i \in 1..Len(all) /\ i > k + m
    BY <1>1
  <2> QED
    BY <1>2, <2>1
<1> QED
  BY <1>3, <1>4, <1>5

\* Sweeping keeps what is said of the times kept.
SweptTo(a, n) ==
  /\ Swept(entries[a]) \in Seq(Nat) /\ Len(Swept(entries[a])) <= Rpm
  /\ EndsAt(granted[a], Swept(entries[a]), n) /\ Past(granted[a], n)
  /\ Recent(granted[a]) = (n + 1)..Len(granted[a])

LEMMA SweepKeeps ==
  ASSUME LimitInv, NEW a \in Addresses
  PROVE  \E n : SweptTo(a, n)
<1>1. /\ entries[a] \in Seq(Nat) /\ granted[a] \in Seq(Nat) /\ clock \in Nat /\ Window \in Nat
      /\ Rpm \in Nat /\ Len(entries[a]) \in Nat /\ Len(entries[a]) <= Rpm
  BY RateAssumption DEF LimitInv
<1>2. PICK m \in 0..Len(entries[a]) :
           /\ Swept(entries[a]) = SubSeq(entries[a], m + 1, Len(entries[a]))
           /\ Recent(entries[a]) = (m + 1)..Len(entries[a])
  BY <1>1, EntriesInOrder, SweptIs
<1>3. PICK k : EndsAt(granted[a], entries[a], k) /\ Past(granted[a], k)
  BY DEF LimitInv, EndKept
<1>4. /\ Swept(entries[a]) \in Seq(Nat) /\ Len(Swept(entries[a])) = Len(entries[a]) - m
      /\ EndsAt(entries[a], Swept(entries[a]), m)
  BY <1>1, <1>2, TailIs
<1>5. EndsAt(granted[a], Swept(entries[a]), k + m)
  BY <1>1, <1>3, <1>4, EndOfEnd
<1>6. Recent(granted[a]) = (k + m + 1)..Len(granted[a]) /\ Past(granted[a], k + m)
  BY <1>1, <1>2, <1>3, RecentAtEnd
<1>7. Len(Swept(entries[a])) <= Rpm
  BY <1>1, <1>4
<1>8. SweptTo(a, k + m)
  BY <1>4, <1>5, <1>6, <1>7 DEF SweptTo
<1> QED
  BY <1>8

LEMMA LimitInitInv == LimitInit => LimitInv
<1> SUFFICES ASSUME LimitInit PROVE LimitInv
  OBVIOUS
<1>1. /\ entries \in [Addresses -> Seq(Nat)] /\ granted \in [Addresses -> Seq(Nat)] /\ clock \in Nat
      /\ \A a \in Addresses : entries[a] = <<>> /\ granted[a] = <<>>
  BY DEF LimitInit
<1>2. Len(<<>>) = 0 /\ 0 <= Rpm
  BY RateAssumption
<1>3. EndsAt(<<>>, <<>>, 0) /\ Past(<<>>, 0)
  BY <1>2 DEF EndsAt, Past
<1> QED
  BY <1>1, <1>2, <1>3 DEF LimitInv, EndKept, Ordered

\* An address whose times are swept, and no more.
LEMMA SweptSound ==
  ASSUME LimitInv, NEW a \in Addresses, entries'[a] = Swept(entries[a]), UNCHANGED clock,
         granted'[a] = granted[a]
  PROVE  EndKept(a)' /\ Len(entries'[a]) <= Rpm /\ entries'[a] \in Seq(Nat)
<1>1. PICK n : SweptTo(a, n)
  BY SweepKeeps
<1> QED
  BY <1>1 DEF EndKept, SweptTo, Past

LEMMA OrderGrows ==
  ASSUME NEW all, Ordered(all), NEW t \in Nat, \A i \in 1..Len(all) : all[i] <= t
  PROVE  Ordered(Append(all, t)) /\ \A i \in 1..Len(Append(all, t)) : Append(all, t)[i] <= t
<1>1. all \in Seq(Nat) /\ Len(all) \in Nat /\ Append(all, t) \in Seq(Nat) /\ Len(Append(all, t)) = Len(all) + 1
  BY DEF Ordered
<1>2. \A i \in 1..Len(all) : Append(all, t)[i] = all[i] /\ all[i] \in Nat
  BY <1>1
<1>3. Append(all, t)[Len(all) + 1] = t
  BY <1>1
<1>4. \A i \in 1..(Len(all) + 1) : i \in 1..Len(all) \/ i = Len(all) + 1
  BY <1>1
<1>5. \A i \in 1..(Len(all) + 1) : Append(all, t)[i] <= t
  BY <1>2, <1>3, <1>4
<1>6. ASSUME NEW i \in 1..(Len(all) + 1), NEW j \in 1..(Len(all) + 1), i <= j
      PROVE  Append(all, t)[i] <= Append(all, t)[j]
  <2>1. CASE j = Len(all) + 1
    BY <1>3, <1>5, <2>1
  <2>2. CASE j # Len(all) + 1
    <3>1. i \in 1..Len(all) /\ j \in 1..Len(all)
      BY <1>1, <1>6, <2>2
    <3>2. all[i] <= all[j]
      BY <1>6, <3>1 DEF Ordered
    <3> QED
      BY <1>2, <3>1, <3>2
  <2> QED
    BY <2>1, <2>2
<1> QED
  BY <1>1, <1>5, <1>6 DEF Ordered

LEMMA LimitStepInv == LimitInv /\ [LimitNext]_limitVars => LimitInv'
<1> SUFFICES ASSUME LimitInv, [LimitNext]_limitVars PROVE LimitInv'
  OBVIOUS
<1>1. CASE UNCHANGED limitVars
  BY <1>1 DEF LimitInv, EndKept, Past, limitVars
<1>2. CASE TimePasses
  <2>1. UNCHANGED <<entries, granted>> /\ clock' = clock + 1 /\ clock \in Nat /\ Window \in Nat
    BY <1>2, RateAssumption DEF TimePasses, LimitInv
  <2>2. ASSUME NEW a \in Addresses
        PROVE  (\A i \in 1..Len(granted[a]) : granted[a][i] <= clock') /\ EndKept(a)'
    <3>1. granted[a] \in Seq(Nat) /\ entries[a] \in Seq(Nat)
      BY DEF LimitInv
    <3>2. \A i \in 1..Len(granted[a]) : granted[a][i] \in Nat /\ granted[a][i] <= clock
      BY <3>1 DEF LimitInv
    <3>3. \A i \in 1..Len(granted[a]) : granted[a][i] <= clock'
      BY <2>1, <3>2
    <3>4. PICK k : EndsAt(granted[a], entries[a], k) /\ Past(granted[a], k)
      BY DEF LimitInv, EndKept
    <3>5. \A i \in 1..k : i \in 1..Len(granted[a])
      BY <3>1, <3>4 DEF EndsAt
    <3>6. \A i \in 1..k : clock - granted[a][i] >= Window
      BY <3>4 DEF Past
    <3>7. \A i \in 1..k : clock' - granted[a][i] >= Window
      BY <2>1, <3>2, <3>5, <3>6
    <3>8. Past(granted[a], k)'
      BY <2>1, <3>7 DEF Past
    <3> QED
      BY <2>1, <3>3, <3>4, <3>8 DEF EndKept
  <2> QED
    BY <2>1, <2>2 DEF LimitInv
<1>3. ASSUME NEW a \in Addresses, TurnAway(a) PROVE LimitInv'
  <2>1. /\ UNCHANGED <<clock, granted>> /\ entries' = [b \in Addresses |-> Swept(entries[b])]
    BY <1>3 DEF TurnAway
  <2>2. \A b \in Addresses : EndKept(b)' /\ Len(entries'[b]) <= Rpm /\ entries'[b] \in Seq(Nat)
    BY <2>1, SweptSound
  <2> QED
    BY <2>1, <2>2 DEF LimitInv
<1>4. ASSUME NEW a \in Addresses, LetThrough(a) PROVE LimitInv'
  <2>1. /\ ~Limited(a) /\ UNCHANGED clock
        /\ entries' = [b \in Addresses |-> IF b = a THEN Append(Swept(entries[b]), clock) ELSE Swept(entries[b])]
        /\ granted' = [granted EXCEPT ![a] = Append(granted[a], clock)]
    BY <1>4 DEF LetThrough
  <2>2. /\ clock \in Nat /\ Rpm \in Nat /\ granted \in [Addresses -> Seq(Nat)]
    BY RateAssumption DEF LimitInv
  <2>3. ASSUME NEW b \in Addresses
        PROVE  /\ EndKept(b)' /\ Len(entries'[b]) <= Rpm /\ entries'[b] \in Seq(Nat)
               /\ Ordered(granted'[b]) /\ \A i \in 1..Len(granted'[b]) : granted'[b][i] <= clock
    <3>1. granted[b] \in Seq(Nat) /\ Ordered(granted[b]) /\ \A i \in 1..Len(granted[b]) : granted[b][i] <= clock
      BY DEF LimitInv
    <3>2. CASE b # a
      <4>1. entries'[b] = Swept(entries[b]) /\ granted'[b] = granted[b]
        BY <2>1, <2>2, <3>2
      <4> QED
        BY <2>1, <3>1, <4>1, SweptSound
    <3>3. CASE b = a
      <4>1. PICK n : SweptTo(b, n)
        BY SweepKeeps
      <4>2. entries'[b] = Append(Swept(entries[b]), clock) /\ granted'[b] = Append(granted[b], clock)
        BY <2>1, <2>2, <3>3
      <4>3. Swept(entries[b]) \in Seq(Nat) /\ Len(Swept(entries[b])) < Rpm
        BY <2>1, <2>2, <3>3, <4>1 DEF Limited, SweptTo
      <4>4. EndsAt(granted'[b], entries'[b], n)
        BY <2>2, <3>1, <4>1, <4>2, <4>3, EndGrows DEF SweptTo
      <4>5. Past(granted[b], n) /\ n \in Nat /\ n <= Len(granted[b])
        BY <3>1, <4>1, <4>3 DEF SweptTo, EndsAt
      <4>6. \A i \in 1..n : i \in 1..Len(granted[b])
        BY <3>1, <4>5
      <4>7. \A i \in 1..Len(granted[b]) : granted'[b][i] = granted[b][i]
        BY <2>2, <3>1, <4>2
      <4>8. Past(granted[b], n)'
        BY <2>1, <4>5, <4>6, <4>7 DEF Past
      <4>9. Len(entries'[b]) <= Rpm /\ entries'[b] \in Seq(Nat)
        BY <2>2, <4>2, <4>3
      <4> QED
        BY <2>2, <3>1, <4>2, <4>4, <4>8, <4>9, OrderGrows DEF EndKept
    <3> QED
      BY <3>2, <3>3
  <2>4. entries' = [b \in Addresses |-> entries'[b]] /\ granted' = [b \in Addresses |-> granted'[b]]
    BY <2>1, <2>2
  <2>5. entries' \in [Addresses -> Seq(Nat)] /\ granted' \in [Addresses -> Seq(Nat)]
    BY <2>3, <2>4 DEF Ordered
  <2> QED
    BY <2>1, <2>2, <2>3, <2>5 DEF LimitInv
<1> QED
  BY <1>1, <1>2, <1>3, <1>4 DEF LimitNext

LEMMA LimitInvImplies == LimitInv => RateHeld
<1> SUFFICES ASSUME LimitInv, NEW a \in Addresses
             PROVE  /\ Cardinality(Recent(granted[a])) <= Rpm
                    /\ Limited(a) <=> Cardinality(Recent(granted[a])) = Rpm
  BY DEF RateHeld
<1>1. PICK n : SweptTo(a, n)
  BY SweepKeeps
<1>2. PICK x, y : x = Len(granted[a]) /\ y = Len(Swept(entries[a])) /\ Recent(granted[a]) = (n + 1)..x
  BY <1>1 DEF SweptTo
<1>3. n \in Nat /\ y \in Nat /\ x = n + y /\ y <= Rpm /\ Rpm \in Nat
  BY <1>1, <1>2, RateAssumption DEF SweptTo, EndsAt
<1>4. n + 1 \in Int /\ x \in Int
  BY <1>3
<1>5. Cardinality((n + 1)..x) = IF n + 1 > x THEN 0 ELSE x - (n + 1) + 1
  BY <1>4, FS_Interval
<1>6. Cardinality(Recent(granted[a])) = y
  BY <1>2, <1>3, <1>5
<1> QED
  BY <1>2, <1>3, <1>6 DEF Limited

-----------------------------------------------------------------------------
(***************************************************************************)
(* The reference worker.                                                   *)
(***************************************************************************)
OverSteps == {"ok", "missing", "refused", "failed", "lost"}
ReqSteps == OverSteps \union {"none", "arrived", "waiting", "body", "put"}
Requests == [kind : RequestKinds \union {"none"}, step : ReqSteps, waits : Nat, key : Nat, ops : Seq(Nat)]
Indexes == [ops : Seq(Nat), ghosts : BOOLEAN]

RefTyped ==
  /\ bucket \in BOOLEAN
  /\ lastKey \in Nat
  /\ DOMAIN stored \subseteq 0..lastKey /\ \A k \in DOMAIN stored : stored[k] \in Seq(Nat)
  /\ index \in Indexes \union {NoIndex}
  /\ localSnapshot \in Seq(Nat) /\ acked \in Seq(Nat)
  /\ generation \in Nat /\ restorePromise \in Nat
  /\ \A i \in DOMAIN restores : restores[i] \in [generation : Nat, ops : Seq(Nat), at : {"list", "load"}]
  /\ req \in [1..MaxAsked -> Requests]

\* A mutation that its predecessors no longer hold up, and one not yet over.
Begun(r) == r \in 1..MaxAsked /\ req[r].kind \in Mutations /\ req[r].step \notin {"none", "arrived"}
Running(r) == Begun(r) /\ ~Over(r)

\* Requests come in the order of their numbers and mutations run in it.
InTurn ==
  /\ \A r \in 1..MaxAsked : req[r].step = "none" => req[r] = NotYet
  /\ \A r, s \in 1..MaxAsked : r < s /\ req[r] = NotYet => req[s] = NotYet
  /\ \A r, s \in 1..MaxAsked : Begun(s) /\ r < s /\ req[r].kind \in Mutations => Over(r)

\* What an index holds was begun by a mutation, or is from an earlier isolate.
Known(ops) == ops # <<>> => ops[1] = 0 \/ Begun(ops[1])
AllKnown ==
  /\ Known(acked) /\ Known(localSnapshot)
  /\ index # NoIndex => Known(index.ops)
  /\ \A k \in DOMAIN stored : Known(stored[k])
  /\ \A i \in DOMAIN restores : Known(restores[i].ops)

\* A snapshot on its way is of the index, which stays till it is there, and the
\* newest.
PutSound(r) == req[r].step = "put" =>
  /\ bucket /\ Running(r)
  /\ index # NoIndex /\ req[r].ops = index.ops
  /\ req[r].key = lastKey /\ lastKey \notin DOMAIN stored

\* What a restore comes back with is used only if it holds what is acknowledged.
RestoreSound(i) ==
  /\ restores[i].generation <= generation
  /\ restores[i].at = "list" => bucket
  /\ restores[i].at = "load" /\ index = NoIndex /\ restores[i].generation = generation =>
       Covers(restores[i].ops, acked)

\* The snapshot of the greatest key holds what is acknowledged.
StoreSound ==
  /\ DOMAIN stored = {} => (bucket => acked = <<>>)
  /\ DOMAIN stored # {} => \E k \in DOMAIN stored :
       (\A j \in DOMAIN stored : j <= k) /\ (bucket => Covers(stored[k], acked))
  /\ ~bucket => acked = localSnapshot

RefInv ==
  /\ RefTyped /\ InTurn /\ AllKnown /\ StoreSound
  /\ index # NoIndex => Covers(index.ops, acked)
  /\ \A r \in 1..MaxAsked : PutSound(r)
  /\ \A i \in DOMAIN restores : RestoreSound(i)
  /\ \A r \in 1..MaxAsked : req[r].step = "body" /\ req[r].kind \in Mutations => index # NoIndex

-----------------------------------------------------------------------------
LEMMA CoversSelf == ASSUME NEW ops \in Seq(Nat) PROVE Covers(ops, ops)
BY DEF Covers, IsPrefix

LEMMA CoversNothing == ASSUME NEW ops \in Seq(Nat) PROVE Covers(ops, <<>>)
<1>1. Len(<<>>) <= Len(ops)
  OBVIOUS
<1>2. SubSeq(<<>>, 1, Len(<<>>)) = <<>> /\ SubSeq(ops, 1, Len(<<>>)) = <<>>
  OBVIOUS
<1> QED
  BY <1>1, <1>2 DEF Covers, IsPrefix

LEMMA NothingCovered == ASSUME NEW ops \in Seq(Nat), Covers(<<>>, ops) PROVE ops = <<>>
BY DEF Covers, IsPrefix

LEMMA CoversGrows ==
  ASSUME NEW ops \in Seq(Nat), NEW others \in Seq(Nat), NEW r \in Nat, Covers(ops, others)
  PROVE  Covers(Append(ops, r), others)
<1>1. Append(ops, r) \in Seq(Nat) /\ Len(Append(ops, r)) = Len(ops) + 1 /\ Len(ops) \in Nat /\ Len(others) \in Nat
  OBVIOUS
<1>2. \A i \in 1..Len(ops) : Append(ops, r)[i] = ops[i]
  OBVIOUS
<1>3. CASE IsPrefix(others, ops)
  <2>1. Len(others) <= Len(ops) /\ SubSeq(others, 1, Len(others)) = SubSeq(ops, 1, Len(others))
    BY <1>3 DEF IsPrefix
  <2>2. SubSeq(Append(ops, r), 1, Len(others)) = SubSeq(ops, 1, Len(others))
    BY <1>1, <1>2, <2>1
  <2> QED
    BY <1>1, <2>1, <2>2 DEF Covers, IsPrefix
<1>4. CASE ~IsPrefix(others, ops)
  <2>1. ops # <<>> /\ others # <<>> /\ ops[1] > others[1]
    BY <1>4 DEF Covers
  <2>2. Append(ops, r) # <<>> /\ Append(ops, r)[1] = ops[1]
    BY <1>1, <1>2, <2>1
  <2> QED
    BY <2>1, <2>2 DEF Covers
<1> QED
  BY <1>3, <1>4

LEMMA RefInitInv == RefInit => RefInv
<1> SUFFICES ASSUME RefInit PROVE RefInv
  OBVIOUS
<1>1. req = [r \in 1..MaxAsked |-> NotYet] /\ restores = <<>> /\ index = NoIndex /\ restorePromise = 0
  BY DEF RefInit
<1>2. \A r \in 1..MaxAsked : req[r] = NotYet /\ req[r].step = "none" /\ req[r].kind = "none"
  BY <1>1 DEF NotYet
<1>3. CASE stored = <<>>
  <2>1. lastKey = 0 /\ DOMAIN stored = {} /\ acked = <<>> /\ localSnapshot = <<>> /\ generation = 0 /\ bucket \in BOOLEAN
    BY <1>3 DEF RefInit
  <2>2. RefTyped
    BY <1>1, <2>1 DEF RefTyped, Requests, ReqSteps, NotYet
  <2>3. InTurn /\ AllKnown /\ StoreSound
    BY <1>1, <1>2, <2>1 DEF InTurn, AllKnown, StoreSound, Begun, Mutations, Known
  <2> QED
    BY <1>1, <1>2, <2>2, <2>3 DEF RefInv, PutSound, RestoreSound
<1>4. CASE stored # <<>>
  <2>1. stored = <<<<0>>>> /\ bucket = TRUE
    BY <1>4 DEF RefInit
  <2>2. lastKey = 1 /\ DOMAIN stored = {1} /\ acked = <<0>> /\ localSnapshot = <<>> /\ generation = 0 /\ stored[1] = <<0>>
    BY <2>1 DEF RefInit
  <2>3. RefTyped
    <3>1. <<0>> \in Seq(Nat) /\ <<>> \in Seq(Nat) /\ DOMAIN restores = {}
      BY <1>1
    <3>2. req \in [1..MaxAsked -> Requests]
      BY <1>1 DEF Requests, ReqSteps, NotYet
    <3>3. DOMAIN stored \subseteq 0..lastKey /\ \A k \in DOMAIN stored : stored[k] \in Seq(Nat)
      <4>1. \A k \in DOMAIN stored : k = 1
        BY <2>2
      <4>2. 1 \in 0..lastKey /\ stored[1] \in Seq(Nat)
        BY <2>2, <3>1
      <4> QED
        BY <4>1, <4>2
    <3>4. bucket \in BOOLEAN /\ lastKey \in Nat /\ generation \in Nat
      BY <2>1, <2>2
    <3>5. localSnapshot \in Seq(Nat) /\ acked \in Seq(Nat)
      BY <2>2, <3>1
    <3>6. \A i \in DOMAIN restores : restores[i] \in [generation : Nat, ops : Seq(Nat), at : {"list", "load"}]
      BY <3>1
    <3> QED
      BY <1>1, <3>2, <3>3, <3>4, <3>5, <3>6 DEF RefTyped
  <2>4. Covers(stored[1], acked)
    <3>1. <<0>> \in Seq(Nat)
      OBVIOUS
    <3> QED
      BY <2>2, <3>1, CoversSelf
  <2>5. InTurn /\ AllKnown /\ StoreSound
    BY <1>1, <1>2, <2>1, <2>2, <2>4 DEF InTurn, AllKnown, StoreSound, Begun, Mutations, Known
  <2> QED
    BY <1>1, <1>2, <2>3, <2>5 DEF RefInv, PutSound, RestoreSound
<1> QED
  BY <1>3, <1>4

\* The newest snapshot holds what is acknowledged.
LEMMA Latest ==
  ASSUME RefInv
  PROVE  LatestSnapshot \in Seq(Nat) /\ Known(LatestSnapshot) /\ (bucket => Covers(LatestSnapshot, acked))
<1>1. CASE DOMAIN stored = {}
  BY <1>1, CoversSelf DEF RefInv, StoreSound, LatestSnapshot, RefTyped, Known
<1>2. CASE DOMAIN stored # {}
  <2>1. PICK k \in DOMAIN stored : (\A j \in DOMAIN stored : j <= k) /\ (bucket => Covers(stored[k], acked))
    BY <1>2 DEF RefInv, StoreSound
  <2>2. \A j \in DOMAIN stored : j \in Nat
    BY DEF RefInv, RefTyped
  <2>3. Max(DOMAIN stored) = k
    BY <2>1, <2>2 DEF Max
  <2>4. LatestSnapshot = stored[k]
    BY <1>2, <2>3 DEF LatestSnapshot
  <2> QED
    BY <2>1, <2>4 DEF RefInv, RefTyped, AllKnown
<1> QED
  BY <1>1, <1>2

LEMMA RefInvImplies == RefInv => AcknowledgedSurvives
<1> SUFFICES ASSUME RefInv PROVE AcknowledgedSurvives
  OBVIOUS
<1>1. bucket => Covers(LatestSnapshot, acked)
  BY Latest
<1>2. DOMAIN req = 1..MaxAsked
  BY DEF RefInv, RefTyped
<1> QED
  BY <1>1, <1>2 DEF RefInv, AcknowledgedSurvives
-----------------------------------------------------------------------------
\* Of mutations that may run and are not over there is one at a time.
LEMMA Alone ==
  ASSUME RefInv, NEW r \in 1..MaxAsked, req[r].kind \in Mutations, ~Over(r),
         Begun(r) \/ (req[r].step = "arrived" /\ MayRun(r)),
         NEW s, Running(s)
  PROVE  s = r
<1>1. MaxAsked \in Nat /\ s \in 1..MaxAsked /\ Begun(s) /\ ~Over(s) /\ InTurn
  BY AskedAssumption DEF Running, Begun, RefInv
<1>2. CASE s < r
  <2>1. Begun(r) => Over(s)
    BY <1>1, <1>2 DEF InTurn, Begun
  <2>2. MayRun(r) => Over(s)
    <3>1. s \in 1..(r - 1) /\ req[s].kind \in Mutations /\ req[r].kind # "search"
      BY <1>1, <1>2 DEF Begun, Mutations
    <3> QED
      BY <3>1 DEF MayRun
  <2> QED
    BY <1>1, <2>1, <2>2
<1>3. CASE r < s
  BY <1>1, <1>3 DEF InTurn
<1> QED
  BY <1>1, <1>2, <1>3

\* Requests go forward only, and mutations in turn.
Forward ==
  /\ req' \in [1..MaxAsked -> Requests]
  /\ \A q \in 1..MaxAsked :
       /\ req'[q].kind = req[q].kind
       /\ req[q].step = "none" => req'[q] = req[q]
       /\ req[q].step # "none" => req'[q].step # "none"
       /\ req[q].step \notin {"none", "arrived"} => req'[q].step \notin {"none", "arrived"}
       /\ req[q].step \in OverSteps => req'[q].step \in OverSteps
       /\ req[q].step = "arrived" /\ req'[q].step # "arrived" /\ req[q].kind \in Mutations =>
            \A s \in 1..MaxAsked : s < q /\ req[s].kind \in Mutations => req'[s].step \in OverSteps

LEMMA ForwardTurn ==
  ASSUME RefInv, Forward
  PROVE  InTurn' /\ \A q : Begun(q) => Begun(q)'
<1>1. InTurn /\ \A r \in 1..MaxAsked : Over(r) <=> req[r].step \in OverSteps
  BY DEF RefInv, Over, OverSteps
<1>2. \A r \in 1..MaxAsked : Over(r)' <=> req'[r].step \in OverSteps
  BY DEF Over, OverSteps
<1>3. ASSUME NEW q, Begun(q) PROVE Begun(q)'
  BY <1>3 DEF Forward, Begun
<1>4. ASSUME NEW r \in 1..MaxAsked, req'[r].step = "none" PROVE req'[r] = NotYet /\ req[r] = NotYet
  BY <1>1, <1>4 DEF Forward, InTurn
<1>5. ASSUME NEW r \in 1..MaxAsked, NEW s \in 1..MaxAsked, r < s, req'[r] = NotYet PROVE req'[s] = NotYet
  <2>1. req'[r].step = "none"
    BY <1>5 DEF NotYet
  <2>2. req[s] = NotYet
    BY <1>1, <1>4, <1>5, <2>1 DEF InTurn
  <2>3. req[s].step = "none"
    BY <2>2 DEF NotYet
  <2> QED
    BY <2>2, <2>3 DEF Forward
<1>6. ASSUME NEW r \in 1..MaxAsked, NEW s \in 1..MaxAsked, Begun(s)', r < s, req'[r].kind \in Mutations
      PROVE  req'[r].step \in OverSteps
  <2>1. req[r].kind \in Mutations /\ req[s].kind \in Mutations /\ req'[s].step \notin {"none", "arrived"}
    BY <1>6 DEF Begun, Forward
  <2>2. CASE Begun(s)
    BY <1>1, <1>6, <2>1, <2>2 DEF InTurn, Forward
  <2>3. CASE ~Begun(s)
    <3>1. req[s].step \in {"none", "arrived"}
      BY <2>1, <2>3 DEF Begun
    <3>2. req[s].step = "arrived"
      BY <2>1, <3>1 DEF Forward
    <3> QED
      BY <1>6, <2>1, <3>2 DEF Forward
  <2> QED
    BY <2>2, <2>3
<1> QED
  BY <1>2, <1>3, <1>4, <1>5, <1>6 DEF InTurn

\* A request that may goes on alone.
LEMMA GoesOn ==
  ASSUME RefInv, NEW r \in 1..MaxAsked, NEW new \in Requests, req' = [req EXCEPT ![r] = new],
         new.kind = req[r].kind, new.step \notin {"none", "arrived"},
         req[r].step \notin OverSteps \union {"none"},
         req[r].step = "arrived" => MayRun(r)
  PROVE  Forward
<1>1. req \in [1..MaxAsked -> Requests] /\ MaxAsked \in Nat
  BY AskedAssumption DEF RefInv, RefTyped
<1>2. req' \in [1..MaxAsked -> Requests]
  BY <1>1
<1>3. \A q \in 1..MaxAsked : req'[q] = IF q = r THEN new ELSE req[q]
  BY <1>1
<1>4. ASSUME req[r].step = "arrived", req[r].kind \in Mutations,
             NEW s \in 1..MaxAsked, s < r, req[s].kind \in Mutations
      PROVE  req'[s].step \in OverSteps
  <2>1. s \in 1..(r - 1) /\ req[r].kind # "search"
    BY <1>1, <1>4 DEF Mutations
  <2>2. Over(s)
    BY <1>4, <2>1 DEF MayRun
  <2> QED
    BY <1>3, <1>4, <2>2 DEF Over, OverSteps
<1> QED
  BY <1>2, <1>3, <1>4 DEF Forward, OverSteps

\* A step that leaves the index and the bucket alone.
LEMMA Quiet ==
  ASSUME RefInv, InTurn', \A q : Begun(q) => Begun(q)', req' \in [1..MaxAsked -> Requests], restorePromise' \in Nat,
         UNCHANGED <<bucket, stored, lastKey, index, localSnapshot, generation, acked>>,
         \A i \in DOMAIN restores' :
           /\ restores'[i] \in [generation : Nat, ops : Seq(Nat), at : {"list", "load"}]
           /\ Known(restores'[i].ops) /\ RestoreSound(i)',
         \A s \in 1..MaxAsked :
           /\ req'[s].step = "put" => req'[s] = req[s]
           /\ req'[s].step = "body" => req'[s] = req[s] \/ index # NoIndex
  PROVE  RefInv'
<1>1. RefTyped'
  BY DEF RefInv, RefTyped
<1>2. AllKnown'
  BY DEF RefInv, AllKnown, Known
<1>3. StoreSound'
  BY DEF RefInv, StoreSound
<1>4. ASSUME NEW r \in 1..MaxAsked PROVE PutSound(r)'
  BY DEF RefInv, PutSound, Running, Begun, Over
<1>5. ASSUME NEW r \in 1..MaxAsked, req'[r].step = "body", req'[r].kind \in Mutations PROVE index' # NoIndex
  BY <1>5 DEF RefInv
<1> QED
  BY <1>1, <1>2, <1>3, <1>4, <1>5 DEF RefInv

\* The index is persisted as a mutation has left it.
LEMMA Persisted ==
  ASSUME RefInv, NEW r \in 1..MaxAsked, req[r].kind \in Mutations,
         (req[r].step = "arrived" /\ MayRun(r)) \/ req[r].step = "body",
         NEW left \in Indexes, NEW compact, Persist(r, left, compact),
         left.ops # <<>> => left.ops[1] \in {0, r} \/ Begun(left.ops[1]),
         Covers(left.ops, acked),
         UNCHANGED <<bucket, stored, restorePromise, restores>>, generation' \in Nat, generation <= generation'
  PROVE  RefInv'
<1>1. /\ req \in [1..MaxAsked -> Requests] /\ bucket \in BOOLEAN /\ lastKey \in Nat /\ acked \in Seq(Nat)
      /\ left.ops \in Seq(Nat) /\ left.ghosts \in BOOLEAN /\ localSnapshot \in Seq(Nat)
      /\ ~Over(r) /\ generation \in Nat /\ DOMAIN stored \subseteq 0..lastKey
  BY DEF RefInv, RefTyped, Indexes, Over
<1>2. /\ index' \in Indexes /\ index'.ops = left.ops
      /\ lastKey' \in {lastKey, lastKey + 1}
      /\ localSnapshot' \in {localSnapshot, left.ops}
      /\ acked' \in {acked, left.ops}
  BY <1>1 DEF Persist, Indexes
<1>3. index' # NoIndex
  BY <1>2, NoIndexAssumption DEF Indexes
<1>4. PICK new \in Requests :
        /\ req' = [req EXCEPT ![r] = new] /\ new.kind = req[r].kind /\ new.step \in {"ok", "put"}
        /\ new.step = "put" => /\ bucket /\ new.ops = left.ops
                               /\ new.key = lastKey + 1 /\ lastKey' = lastKey + 1
                               /\ acked' = acked
        /\ new.step = "ok" => lastKey' = lastKey
  <2>1. CASE req' = [req EXCEPT ![r].step = "ok"] /\ lastKey' = lastKey
    <3> DEFINE new == [req[r] EXCEPT !.step = "ok"]
    <3>1. new \in Requests /\ new.kind = req[r].kind /\ new.step = "ok"
      BY <1>1 DEF Requests, ReqSteps, OverSteps
    <3>2. req' = [req EXCEPT ![r] = new]
      BY <1>1, <2>1
    <3> QED
      BY <2>1, <3>1, <3>2
  <2>2. CASE /\ bucket /\ lastKey' = lastKey + 1 /\ acked' = acked
             /\ req' = [req EXCEPT ![r].step = "put", ![r].key = lastKey + 1, ![r].ops = left.ops]
    <3> DEFINE new == [req[r] EXCEPT !.step = "put", !.key = lastKey + 1, !.ops = left.ops]
    <3>1. new \in Requests /\ new.kind = req[r].kind /\ new.step = "put" /\ new.key = lastKey + 1 /\ new.ops = left.ops
      <4>1. req[r] \in Requests
        BY <1>1
      <4>2. lastKey + 1 \in Nat
        BY <1>1
      <4>3. left.ops \in Seq(Nat) /\ "put" \in ReqSteps
        BY <1>1 DEF ReqSteps
      <4> QED
        BY <4>1, <4>2, <4>3 DEF Requests
    <3>2. req' = [req EXCEPT ![r] = new]
      BY <1>1, <2>2
    <3> QED
      BY <2>2, <3>1, <3>2
  <2> QED
    BY <2>1, <2>2 DEF Persist, To
<1>5. \A q \in 1..MaxAsked : req'[q] = IF q = r THEN new ELSE req[q]
  BY <1>1, <1>4
<1>6. Forward
  BY <1>1, <1>4, GoesOn DEF OverSteps
<1>7. InTurn' /\ Begun(r)' /\ \A q : Begun(q) => Begun(q)'
  BY <1>4, <1>5, <1>6, ForwardTurn DEF Begun
<1>8. \A s \in 1..MaxAsked : s # r => req[s].step # "put"
  <2> SUFFICES ASSUME NEW s \in 1..MaxAsked, req[s].step = "put" PROVE s = r
    OBVIOUS
  <2>1. Running(s)
    BY DEF RefInv, PutSound
  <2>2. Begun(r) \/ (req[r].step = "arrived" /\ MayRun(r))
    BY DEF Begun
  <2> QED
    BY <1>1, <2>1, <2>2, Alone
<1>9. RefTyped'
  <2>1. DOMAIN stored' \subseteq 0..lastKey' /\ lastKey' \in Nat
    BY <1>1, <1>2
  <2>2. localSnapshot' \in Seq(Nat) /\ acked' \in Seq(Nat)
    BY <1>1, <1>2
  <2> QED
    BY <1>2, <1>6, <2>1, <2>2 DEF RefInv, RefTyped, Forward
<1>10. (left.ops # <<>> => left.ops[1] = 0 \/ Begun(left.ops[1])') /\ Known(acked)' /\ Known(localSnapshot)'
  <2>1. left.ops # <<>> => left.ops[1] = 0 \/ Begun(left.ops[1])'
    BY <1>7
  <2>2. Known(acked) /\ Known(localSnapshot)
    BY DEF RefInv, AllKnown
  <2>3. Known(acked)'
    <3>1. CASE acked' = acked
      BY <1>7, <2>2, <3>1 DEF Known
    <3>2. CASE acked' = left.ops
      BY <2>1, <3>2 DEF Known
    <3> QED
      BY <1>2, <3>1, <3>2
  <2>4. Known(localSnapshot)'
    <3>1. CASE localSnapshot' = localSnapshot
      BY <1>7, <2>2, <3>1 DEF Known
    <3>2. CASE localSnapshot' = left.ops
      BY <2>1, <3>2 DEF Known
    <3> QED
      BY <1>2, <3>1, <3>2
  <2> QED
    BY <2>1, <2>3, <2>4
<1>11. AllKnown'
  BY <1>2, <1>7, <1>10 DEF RefInv, AllKnown, Known
<1>12. Covers(left.ops, left.ops)
  BY <1>1, CoversSelf
<1>13. Covers(index'.ops, acked')
  BY <1>2, <1>12
<1>14. StoreSound'
  <2>1. bucket => acked' = acked
    BY DEF Persist
  <2>2. ~bucket => acked' = localSnapshot'
    BY DEF Persist, RefInv, StoreSound
  <2> QED
    BY <2>1, <2>2 DEF RefInv, StoreSound
<1>15. ASSUME NEW s \in 1..MaxAsked PROVE PutSound(s)'
  <2>1. CASE s # r
    BY <1>5, <1>8, <2>1 DEF PutSound
  <2>2. CASE s = r /\ new.step = "put"
    <3>1. lastKey + 1 \notin DOMAIN stored
      BY <1>1
    <3>2. Running(r)'
      BY <1>4, <1>5, <1>7, <2>2 DEF Running, Over
    <3> QED
      BY <1>2, <1>3, <1>4, <1>5, <2>2, <3>1, <3>2 DEF PutSound
  <2>3. CASE s = r /\ new.step # "put"
    BY <1>5, <2>3 DEF PutSound
  <2> QED
    BY <2>1, <2>2, <2>3
<1>16. ASSUME NEW i \in DOMAIN restores' PROVE RestoreSound(i)'
  <2>1. restores[i].generation \in Nat /\ restores[i].generation <= generation /\ (restores[i].at = "list" => bucket)
    BY DEF RefInv, RefTyped, RestoreSound
  <2> QED
    BY <1>1, <1>3, <2>1 DEF RestoreSound
<1> QED
  BY <1>3, <1>7, <1>9, <1>11, <1>13, <1>14, <1>15, <1>16 DEF RefInv

\* A request that may goes to another step, and the others stay.
LEMMA StepsTo ==
  ASSUME RefInv, NEW r \in 1..MaxAsked, NEW s \in {"ok", "missing", "refused", "failed", "body"}, To(r, s),
         req[r].step \notin OverSteps \union {"none"},
         req[r].step = "arrived" => MayRun(r)
  PROVE  /\ Forward
         /\ \A q \in 1..MaxAsked : q # r => req'[q] = req[q]
         /\ req'[r].step = s /\ req'[r].kind = req[r].kind
<1> DEFINE new == [req[r] EXCEPT !.step = s]
<1>1. req \in [1..MaxAsked -> Requests] /\ req[r] \in Requests
  BY DEF RefInv, RefTyped
<1>2. new \in Requests /\ new.kind = req[r].kind /\ new.step = s
  BY <1>1 DEF Requests, ReqSteps, OverSteps
<1>3. req' = [req EXCEPT ![r] = new]
  BY <1>1 DEF To
<1> HIDE DEF new
<1>4. Forward
  BY <1>2, <1>3, GoesOn
<1> QED
  BY <1>1, <1>2, <1>3, <1>4

\* The restores stay as they are.
LEMMA SameRestores ==
  ASSUME RefInv, UNCHANGED <<bucket, index, generation, acked>>,
         \A i \in DOMAIN restores' : i \in DOMAIN restores /\ restores'[i] = restores[i]
  PROVE  \A i \in DOMAIN restores' :
           /\ restores'[i] \in [generation : Nat, ops : Seq(Nat), at : {"list", "load"}]
           /\ Known(restores'[i].ops) /\ RestoreSound(i)'
<1> SUFFICES ASSUME NEW i \in DOMAIN restores'
             PROVE  /\ restores'[i] \in [generation : Nat, ops : Seq(Nat), at : {"list", "load"}]
                    /\ Known(restores'[i].ops) /\ RestoreSound(i)'
  OBVIOUS
<1>1. restores'[i] = restores[i] /\ i \in DOMAIN restores /\ RestoreSound(i) /\ Known(restores[i].ops)
  BY DEF RefInv, AllKnown
<1>2. RestoreSound(i)'
  BY <1>1 DEF RestoreSound
<1> QED
  BY <1>1, <1>2 DEF RefInv, RefTyped

LEMMA ArrivesStep == ASSUME RefInv, RequestArrives PROVE RefInv'
<1>1. PICK r \in 1..MaxAsked, kind \in RequestKinds :
        /\ req[r] = NotYet /\ \A s \in 1..(r - 1) : req[s] # NotYet
        /\ req' = [req EXCEPT ![r].kind = kind, ![r].step = "arrived"]
        /\ UNCHANGED <<bucket, stored, lastKey, index, localSnapshot, generation, restorePromise, restores, acked>>
  BY DEF RequestArrives, memory
<1>2. req \in [1..MaxAsked -> Requests] /\ req[r] \in Requests /\ MaxAsked \in Nat /\ InTurn
  BY AskedAssumption DEF RefInv, RefTyped
<1>3. PICK new \in Requests : req' = [req EXCEPT ![r] = new] /\ new.step = "arrived"
  <2> DEFINE new == [req[r] EXCEPT !.kind = kind, !.step = "arrived"]
  <2>1. new \in Requests /\ new.step = "arrived"
    BY <1>2 DEF Requests, ReqSteps
  <2>2. req' = [req EXCEPT ![r] = new]
    BY <1>1, <1>2
  <2> QED
    BY <2>1, <2>2
<1>4. \A q \in 1..MaxAsked : req'[q] = IF q = r THEN new ELSE req[q]
  BY <1>2, <1>3
<1>5. req' \in [1..MaxAsked -> Requests]
  BY <1>2, <1>3
<1>6. req[r].step = "none" /\ req[r].kind = "none" /\ NotYet.step = "none"
  BY <1>1 DEF NotYet
<1>7. \A q : Begun(q) <=> Begun(q)'
  BY <1>3, <1>4, <1>6 DEF Begun
<1>8. InTurn'
  <2>1. ASSUME NEW q \in 1..MaxAsked, req'[q].step = "none" PROVE req'[q] = NotYet
    BY <1>2, <1>3, <1>4, <2>1 DEF InTurn
  <2>2. ASSUME NEW q \in 1..MaxAsked, NEW s \in 1..MaxAsked, q < s, req'[q] = NotYet PROVE req'[s] = NotYet
    <3>1. q # r /\ req[q] = NotYet
      BY <1>3, <1>4, <1>6, <2>2
    <3>2. s # r
      <4>1. s = r => q \in 1..(r - 1)
        BY <1>2, <2>2
      <4> QED
        BY <1>1, <3>1, <4>1
    <3> QED
      BY <1>2, <1>4, <2>2, <3>1, <3>2 DEF InTurn
  <2>3. ASSUME NEW q \in 1..MaxAsked, NEW s \in 1..MaxAsked, Begun(s)', q < s, req'[q].kind \in Mutations PROVE Over(q)'
    <3>1. Begun(s)
      BY <1>7, <2>3
    <3>2. req[s] # NotYet
      BY <1>6, <3>1 DEF Begun
    <3>3. q # r
      BY <1>1, <1>2, <2>3, <3>2 DEF InTurn
    <3>4. Over(q) /\ req'[q] = req[q]
      BY <1>2, <1>4, <2>3, <3>1, <3>3 DEF InTurn
    <3> QED
      BY <3>4 DEF Over
  <2> QED
    BY <2>1, <2>2, <2>3 DEF InTurn
<1>9. \A i \in DOMAIN restores' :
        /\ restores'[i] \in [generation : Nat, ops : Seq(Nat), at : {"list", "load"}]
        /\ Known(restores'[i].ops) /\ RestoreSound(i)'
  BY <1>1, SameRestores
<1>10. restorePromise' \in Nat
  BY <1>1 DEF RefInv, RefTyped
<1>11. \A q \in 1..MaxAsked :
        /\ req'[q].step = "put" => req'[q] = req[q]
        /\ req'[q].step = "body" => req'[q] = req[q] \/ index # NoIndex
  BY <1>3, <1>4
<1> QED
  BY <1>1, <1>5, <1>7, <1>8, <1>9, <1>10, <1>11, Quiet

\* A request that may goes on and changes nothing else.
LEMMA OnlyGoesOn ==
  ASSUME RefInv, NEW r \in 1..MaxAsked, NEW s \in {"ok", "missing", "refused", "failed", "body"}, To(r, s),
         req[r].step \notin OverSteps \union {"none"},
         req[r].step = "arrived" => MayRun(r),
         s = "body" => index # NoIndex,
         UNCHANGED <<bucket, stored, lastKey, index, localSnapshot, generation, restores, acked>>,
         restorePromise' \in Nat
  PROVE  RefInv'
<1>1. /\ Forward
      /\ \A q \in 1..MaxAsked : q # r => req'[q] = req[q]
      /\ req'[r].step = s
  BY StepsTo
<1>2. \A i \in DOMAIN restores' :
        /\ restores'[i] \in [generation : Nat, ops : Seq(Nat), at : {"list", "load"}]
        /\ Known(restores'[i].ops) /\ RestoreSound(i)'
  BY SameRestores
<1>3. InTurn' /\ (\A q : Begun(q) => Begun(q)') /\ req' \in [1..MaxAsked -> Requests]
  BY <1>1, ForwardTurn DEF Forward
<1>4. \A q \in 1..MaxAsked :
        /\ req'[q].step = "put" => req'[q] = req[q]
        /\ req'[q].step = "body" => req'[q] = req[q] \/ index # NoIndex
  BY <1>1
<1> QED
  BY <1>2, <1>3, <1>4, Quiet

LEMMA EnsureStep == ASSUME RefInv, NEW r \in 1..MaxAsked, EnsureIndex(r) PROVE RefInv'
<1>1. /\ req[r].step = "arrived" /\ MayRun(r)
      /\ UNCHANGED <<bucket, stored, lastKey, index, localSnapshot, generation, acked>>
      /\ req \in [1..MaxAsked -> Requests] /\ req[r] \in Requests
      /\ r \in Nat /\ restorePromise' \in Nat
  BY AskedAssumption DEF EnsureIndex, RefInv, RefTyped
<1>2. req[r].step \notin OverSteps \union {"none"}
  BY <1>1 DEF OverSteps
<1>3. CASE index # NoIndex /\ To(r, "body") /\ UNCHANGED restores
  BY <1>1, <1>2, <1>3, OnlyGoesOn
<1>4. CASE To(r, "missing") /\ UNCHANGED restores
  BY <1>1, <1>2, <1>4, OnlyGoesOn
<1>5. ASSUME NEW w \in Nat, req' = [req EXCEPT ![r].step = "waiting", ![r].waits = w],
             \A i \in DOMAIN restores' :
               /\ restores'[i] \in [generation : Nat, ops : Seq(Nat), at : {"list", "load"}]
               /\ Known(restores'[i].ops) /\ RestoreSound(i)'
      PROVE  RefInv'
  <2> DEFINE new == [req[r] EXCEPT !.step = "waiting", !.waits = w]
  <2>1. new \in Requests /\ new.kind = req[r].kind /\ new.step = "waiting"
    BY <1>1 DEF Requests, ReqSteps
  <2>2. req' = [req EXCEPT ![r] = new]
    BY <1>1, <1>5
  <2> HIDE DEF new
  <2>3. Forward
    BY <1>1, <1>2, <2>1, <2>2, GoesOn DEF OverSteps
  <2>4. \A q \in 1..MaxAsked : req'[q] = IF q = r THEN new ELSE req[q]
    BY <1>1, <2>2
  <2>5. InTurn' /\ (\A q : Begun(q) => Begun(q)') /\ req' \in [1..MaxAsked -> Requests]
    BY <2>3, ForwardTurn DEF Forward
  <2> QED
    BY <1>1, <1>5, <2>1, <2>4, <2>5, Quiet
<1>6. CASE /\ restorePromise # 0
           /\ req' = [req EXCEPT ![r].step = "waiting", ![r].waits = restorePromise] /\ UNCHANGED restores
  <2>1. restorePromise \in Nat
    BY DEF RefInv, RefTyped
  <2>2. \A i \in DOMAIN restores' :
          /\ restores'[i] \in [generation : Nat, ops : Seq(Nat), at : {"list", "load"}]
          /\ Known(restores'[i].ops) /\ RestoreSound(i)'
    BY <1>1, <1>6, SameRestores
  <2> QED
    BY <1>5, <1>6, <2>1, <2>2
<1>7. CASE /\ index = NoIndex
           /\ restores' = Extended(restores, r,
                           [generation |-> generation, ops |-> IF bucket THEN <<>> ELSE localSnapshot,
                            at |-> IF bucket THEN "list" ELSE "load"])
           /\ req' = [req EXCEPT ![r].step = "waiting", ![r].waits = r]
  <2>1. PICK new : /\ restores' = Extended(restores, r, new)
                   /\ new = [generation |-> generation, ops |-> IF bucket THEN <<>> ELSE localSnapshot,
                             at |-> IF bucket THEN "list" ELSE "load"]
    BY <1>7
  <2>2. new \in [generation : Nat, ops : Seq(Nat), at : {"list", "load"}]
    BY <2>1 DEF RefInv, RefTyped
  <2>3. Known(new.ops)
    BY <2>1 DEF RefInv, AllKnown, Known
  <2>4. DOMAIN restores' = DOMAIN restores \union {r}
        /\ \A i \in DOMAIN restores' : restores'[i] = IF i = r THEN new ELSE restores[i]
    BY <2>1 DEF Extended
  <2>5. ASSUME NEW i \in DOMAIN restores' PROVE RestoreSound(i)'
    <3>1. CASE i = r
      <4>1. restores'[i] = new /\ new.generation = generation /\ generation \in Nat /\ (new.at = "list" <=> bucket)
        BY <2>1, <2>4, <3>1 DEF RefInv, RefTyped
      <4>2. new.at = "load" => new.ops = acked
        BY <2>1, <4>1 DEF RefInv, StoreSound
      <4>3. acked \in Seq(Nat) => Covers(acked, acked)
        BY CoversSelf
      <4> QED
        BY <1>1, <4>1, <4>2, <4>3 DEF RestoreSound, RefInv, RefTyped
    <3>2. CASE i # r
      <4>1. restores'[i] = restores[i] /\ RestoreSound(i)
        BY <2>4, <3>2 DEF RefInv
      <4> QED
        BY <1>1, <4>1 DEF RestoreSound
    <3> QED
      BY <3>1, <3>2
  <2>6. \A i \in DOMAIN restores' :
          /\ restores'[i] \in [generation : Nat, ops : Seq(Nat), at : {"list", "load"}]
          /\ Known(restores'[i].ops) /\ RestoreSound(i)'
    BY <2>2, <2>3, <2>4, <2>5 DEF RefInv, RefTyped, AllKnown
  <2> QED
    BY <1>1, <1>5, <1>7, <2>6
<1> QED
  BY <1>3, <1>4, <1>6, <1>7 DEF EnsureIndex

\* A restore that is over sends those who waited for it on, or back.
LEMMA EndsForward ==
  ASSUME RefInv, NEW i \in DOMAIN restores, NEW step \in {"missing", "failed", "body"}, RestoreEnds(i, step)
  PROVE  /\ Forward /\ restorePromise' \in Nat
         /\ \A q \in 1..MaxAsked : req'[q] = req[q] \/ req'[q].step = step
         /\ \A j \in DOMAIN restores' : j \in DOMAIN restores /\ restores'[j] = restores[j]
<1>1. req \in [1..MaxAsked -> Requests] /\ DOMAIN req = 1..MaxAsked
  BY DEF RefInv, RefTyped
<1>2. \A q \in 1..MaxAsked : req'[q] = IF req[q].step = "waiting" /\ req[q].waits = i
                                       THEN [req[q] EXCEPT !.step = step] ELSE req[q]
  BY <1>1 DEF RestoreEnds
<1>3. \A q \in 1..MaxAsked :
        \/ req'[q] = req[q]
        \/ /\ req[q].step = "waiting" /\ req'[q] \in Requests
           /\ req'[q].step = step /\ req'[q].kind = req[q].kind
  <2> SUFFICES ASSUME NEW q \in 1..MaxAsked, req[q].step = "waiting" /\ req[q].waits = i
               PROVE  /\ req'[q] \in Requests /\ req'[q].step = step /\ req'[q].kind = req[q].kind
    BY <1>2
  <2>1. req[q] \in Requests /\ req'[q] = [req[q] EXCEPT !.step = step]
    BY <1>1, <1>2
  <2> QED
    BY <2>1 DEF Requests, ReqSteps, OverSteps
<1>4. req' \in [1..MaxAsked -> Requests]
  <2>1. req' = [r \in 1..MaxAsked |-> IF req[r].step = "waiting" /\ req[r].waits = i
                                      THEN [req[r] EXCEPT !.step = step] ELSE req[r]]
    BY <1>1 DEF RestoreEnds
  <2>2. \A q \in 1..MaxAsked : req'[q] \in Requests
    BY <1>1, <1>3
  <2> QED
    BY <2>1, <2>2
<1>5. Forward
  BY <1>3, <1>4 DEF Forward, OverSteps
<1>6. restorePromise' \in Nat
  BY DEF RestoreEnds
<1>7. \A j \in DOMAIN restores' : j \in DOMAIN restores /\ restores'[j] = restores[j]
  BY DEF RestoreEnds, Restrict
<1> QED
  BY <1>3, <1>5, <1>6, <1>7

\* A restore that gives nothing changes nothing else.
LEMMA EndsQuiet ==
  ASSUME RefInv, NEW i \in DOMAIN restores, NEW step \in {"missing", "failed"}, RestoreEnds(i, step),
         UNCHANGED <<bucket, stored, lastKey, index, localSnapshot, generation, acked>>
  PROVE  RefInv'
<1>1. /\ Forward /\ restorePromise' \in Nat
      /\ \A q \in 1..MaxAsked : req'[q] = req[q] \/ req'[q].step = step
      /\ \A j \in DOMAIN restores' : j \in DOMAIN restores /\ restores'[j] = restores[j]
  BY EndsForward
<1>2. \A j \in DOMAIN restores' :
        /\ restores'[j] \in [generation : Nat, ops : Seq(Nat), at : {"list", "load"}]
        /\ Known(restores'[j].ops) /\ RestoreSound(j)'
  BY <1>1, SameRestores
<1>3. InTurn' /\ (\A q : Begun(q) => Begun(q)') /\ req' \in [1..MaxAsked -> Requests]
  BY <1>1, ForwardTurn DEF Forward
<1>4. \A q \in 1..MaxAsked :
        /\ req'[q].step = "put" => req'[q] = req[q]
        /\ req'[q].step = "body" => req'[q] = req[q] \/ index # NoIndex
  BY <1>1
<1> QED
  BY <1>1, <1>2, <1>3, <1>4, Quiet

LEMMA ListsStep == ASSUME RefInv, NEW i \in DOMAIN restores, RestoreLists(i) PROVE RefInv'
<1>1. /\ restores[i].at = "list" /\ RestoreSound(i) /\ bucket
      /\ restores[i] \in [generation : Nat, ops : Seq(Nat), at : {"list", "load"}]
      /\ UNCHANGED <<bucket, stored, lastKey, index, localSnapshot, generation, acked>>
  BY DEF RestoreLists, RefInv, RefTyped, RestoreSound
<1>2. CASE LatestSnapshot = <<>>
  BY <1>1, <1>2, EndsQuiet DEF RestoreLists
<1>3. CASE LatestSnapshot # <<>>
  <2>1. PICK new : /\ new = [restores[i] EXCEPT !.at = "load", !.ops = LatestSnapshot]
                   /\ restores' = [restores EXCEPT ![i] = new]
    BY <1>3 DEF RestoreLists
  <2>2. LatestSnapshot \in Seq(Nat) /\ Known(LatestSnapshot) /\ Covers(LatestSnapshot, acked)
    BY <1>1, Latest
  <2>3. /\ new \in [generation : Nat, ops : Seq(Nat), at : {"list", "load"}] /\ Known(new.ops)
        /\ Covers(new.ops, acked) /\ new.generation = restores[i].generation /\ new.at = "load"
    BY <1>1, <2>1, <2>2
  <2>4. DOMAIN restores' = DOMAIN restores
        /\ \A j \in DOMAIN restores' : restores'[j] = IF j = i THEN new ELSE restores[j]
    BY <2>1
  <2>5. ASSUME NEW j \in DOMAIN restores' PROVE RestoreSound(j)'
    <3>1. CASE j = i
      BY <1>1, <2>3, <2>4, <3>1 DEF RestoreSound
    <3>2. CASE j # i
      <4>1. restores'[j] = restores[j] /\ RestoreSound(j)
        BY <2>4, <3>2 DEF RefInv
      <4> QED
        BY <1>1, <4>1 DEF RestoreSound
    <3> QED
      BY <3>1, <3>2
  <2>6. \A j \in DOMAIN restores' :
          /\ restores'[j] \in [generation : Nat, ops : Seq(Nat), at : {"list", "load"}]
          /\ Known(restores'[j].ops) /\ RestoreSound(j)'
    BY <2>3, <2>4, <2>5 DEF RefInv, RefTyped, AllKnown
  <2>7. req' = req /\ restorePromise' = restorePromise
    BY <1>3 DEF RestoreLists
  <2>8. InTurn' /\ (\A q : Begun(q) => Begun(q)') /\ req' \in [1..MaxAsked -> Requests] /\ restorePromise' \in Nat
    BY <2>7 DEF RefInv, RefTyped, InTurn, Begun, Over
  <2> QED
    BY <1>1, <2>6, <2>7, <2>8, Quiet
<1> QED
  BY <1>2, <1>3

LEMMA LoadsStep == ASSUME RefInv, NEW i \in DOMAIN restores, RestoreLoads(i) PROVE RefInv'
<1>1. /\ restores[i].at = "load" /\ RestoreSound(i)
      /\ restores[i] \in [generation : Nat, ops : Seq(Nat), at : {"list", "load"}]
      /\ UNCHANGED <<bucket, stored, lastKey, localSnapshot, generation, acked>>
  BY DEF RestoreLoads, RefInv, RefTyped
<1>2. CASE RestoreEnds(i, "missing") /\ index' = index
  BY <1>1, <1>2, EndsQuiet
<1>3. CASE /\ restores[i].generation = generation /\ index = NoIndex
           /\ RestoreEnds(i, "body") /\ index' = [ops |-> restores[i].ops, ghosts |-> FALSE]
  <2>1. /\ Forward /\ restorePromise' \in Nat
        /\ \A q \in 1..MaxAsked : req'[q] = req[q] \/ req'[q].step = "body"
        /\ \A j \in DOMAIN restores' : j \in DOMAIN restores /\ restores'[j] = restores[j]
    BY <1>3, EndsForward
  <2>2. InTurn' /\ (\A q : Begun(q) => Begun(q)') /\ req' \in [1..MaxAsked -> Requests]
    BY <2>1, ForwardTurn DEF Forward
  <2>3. index' \in Indexes /\ index' # NoIndex /\ index'.ops = restores[i].ops
    <3>1. restores[i].ops \in Seq(Nat)
      BY <1>1
    <3>2. index' \in Indexes /\ index'.ops = restores[i].ops
      BY <1>3, <3>1 DEF Indexes
    <3> QED
      BY <3>2, NoIndexAssumption DEF Indexes
  <2>4. Covers(index'.ops, acked')
    <3>1. Covers(restores[i].ops, acked)
      BY <1>1, <1>3 DEF RestoreSound
    <3> QED
      BY <1>1, <2>3, <3>1
  <2>5. RefTyped'
    BY <1>1, <2>1, <2>2, <2>3 DEF RefInv, RefTyped
  <2>6. AllKnown'
    BY <1>1, <2>1, <2>2, <2>3 DEF RefInv, AllKnown, Known
  <2>7. StoreSound'
    BY <1>1 DEF RefInv, StoreSound
  <2>8. ASSUME NEW s \in 1..MaxAsked PROVE PutSound(s)'
    <3>1. req[s].step # "put"
      BY <1>3 DEF RefInv, PutSound
    <3> QED
      BY <2>1, <3>1 DEF PutSound
  <2>9. ASSUME NEW j \in DOMAIN restores' PROVE RestoreSound(j)'
    <3>1. restores'[j] = restores[j] /\ RestoreSound(j)
      BY <2>1 DEF RefInv
    <3> QED
      BY <1>1, <2>3, <3>1 DEF RestoreSound
  <2> QED
    BY <2>2, <2>3, <2>4, <2>5, <2>6, <2>7, <2>8, <2>9 DEF RefInv
<1> QED
  BY <1>2, <1>3 DEF RestoreLoads

LEMMA FailsStep == ASSUME RefInv, NEW i \in DOMAIN restores, RestoreFails(i) PROVE RefInv'
BY EndsQuiet DEF RestoreFails

-----------------------------------------------------------------------------
LEMMA InitStep == ASSUME RefInv, NEW r \in 1..MaxAsked, InitIndex(r) PROVE RefInv'
<1>1. /\ req[r].step = "arrived" /\ req[r].kind \in Mutations /\ req[r].kind # "search" /\ MayRun(r)
      /\ UNCHANGED <<bucket, stored, restorePromise, restores>>
      /\ generation' \in Nat /\ generation <= generation' /\ acked \in Seq(Nat) /\ r \in Nat /\ MaxAsked \in Nat
  BY AskedAssumption DEF InitIndex, Mutations, RefInv, RefTyped
<1>2. PICK left, compact : left = [ops |-> <<r>>, ghosts |-> FALSE] /\ Persist(r, left, compact)
  BY DEF InitIndex
<1>3. left \in Indexes /\ left.ops = <<r>> /\ left.ops # <<>> /\ left.ops[1] = r
  <2>1. <<r>> \in Seq(Nat) /\ <<r>> # <<>> /\ <<r>>[1] = r
    BY <1>1
  <2> QED
    BY <1>2, <2>1 DEF Indexes
<1>4. Covers(left.ops, acked)
  <2>1. CASE acked = <<>>
    <3>1. left.ops \in Seq(Nat)
      BY <1>3 DEF Indexes
    <3> QED
      BY <2>1, <3>1, CoversNothing
  <2>2. CASE acked # <<>>
    <3>1. acked[1] \in Nat /\ (acked[1] = 0 \/ Begun(acked[1]))
      BY <1>1, <2>2 DEF RefInv, AllKnown, Known
    <3>2. acked[1] < r
      <4>1. CASE acked[1] = 0
        BY <1>1, <4>1
      <4>2. CASE Begun(acked[1])
        <5>1. acked[1] \in 1..MaxAsked /\ ~Begun(r) /\ ~Over(r) /\ acked[1] # r
          BY <1>1, <4>2 DEF Begun, Over
        <5>2. ~(r < acked[1])
          BY <1>1, <4>2, <5>1 DEF RefInv, InTurn
        <5> QED
          BY <1>1, <5>1, <5>2
      <4> QED
        BY <3>1, <4>1, <4>2
    <3> QED
      BY <1>1, <1>3, <2>2, <3>1, <3>2 DEF Covers
  <2> QED
    BY <2>1, <2>2
<1> QED
  BY <1>1, <1>2, <1>3, <1>4, Persisted

LEMMA AddStep == ASSUME RefInv, NEW r \in 1..MaxAsked, Add(r) PROVE RefInv'
<1>1. /\ req[r].step = "body" /\ req[r].kind \in Mutations /\ index # NoIndex /\ index \in Indexes
      /\ UNCHANGED <<bucket, stored, generation, restorePromise, restores>>
      /\ generation' \in Nat /\ generation <= generation' /\ acked \in Seq(Nat) /\ r \in Nat
  BY AskedAssumption DEF Add, Acts, Mutations, RefInv, RefTyped
<1>2. PICK left, compact : left = [index EXCEPT !.ops = Append(@, r)] /\ Persist(r, left, compact)
  BY DEF Add
<1>3. index.ops \in Seq(Nat) /\ Append(index.ops, r) \in Seq(Nat)
  BY <1>1 DEF Indexes
<1>4. left \in Indexes /\ left.ops = Append(index.ops, r)
  BY <1>1, <1>2, <1>3 DEF Indexes
<1>5. Begun(r)
  BY <1>1 DEF Begun
<1>6. left.ops[1] \in {0, r} \/ Begun(left.ops[1])
  <2>1. CASE index.ops = <<>>
    BY <1>1, <1>4, <2>1
  <2>2. CASE index.ops # <<>>
    <3>1. left.ops[1] = index.ops[1]
      BY <1>1, <1>3, <1>4, <2>2
    <3>2. index.ops[1] = 0 \/ Begun(index.ops[1])
      BY <1>1, <2>2 DEF RefInv, AllKnown, Known
    <3> QED
      BY <3>1, <3>2
  <2> QED
    BY <2>1, <2>2
<1>7. Covers(left.ops, acked)
  <2>1. Covers(index.ops, acked)
    BY <1>1 DEF RefInv
  <2> QED
    BY <1>1, <1>3, <1>4, <2>1, CoversGrows
<1> QED
  BY <1>1, <1>2, <1>4, <1>6, <1>7, Persisted

LEMMA CompactStep == ASSUME RefInv, NEW r \in 1..MaxAsked, Compact(r) PROVE RefInv'
<1>1. /\ req[r].step = "body" /\ req[r].kind \in Mutations /\ index # NoIndex /\ index \in Indexes
      /\ UNCHANGED <<bucket, stored, generation, restorePromise, restores>>
      /\ generation' \in Nat /\ generation <= generation'
  BY DEF Compact, Acts, Mutations, RefInv, RefTyped
<1>2. PICK left, compact : left = [index EXCEPT !.ghosts = FALSE] /\ Persist(r, left, compact)
  BY DEF Compact
<1>3. left \in Indexes /\ left.ops = index.ops
  BY <1>1, <1>2 DEF Indexes
<1>4. left.ops # <<>> => left.ops[1] \in {0, r} \/ Begun(left.ops[1])
  BY <1>1, <1>3 DEF RefInv, AllKnown, Known
<1>5. Covers(left.ops, acked)
  BY <1>1, <1>3 DEF RefInv
<1> QED
  BY <1>1, <1>2, <1>3, <1>4, <1>5, Persisted

\* Only the mutation that runs has a put on its way.
LEMMA NoOtherPut ==
  ASSUME RefInv, NEW r \in 1..MaxAsked, req[r].kind \in Mutations, ~Over(r),
         Begun(r) \/ (req[r].step = "arrived" /\ MayRun(r)),
         NEW s \in 1..MaxAsked, s # r
  PROVE  req[s].step # "put" /\ ~(req[s].step = "body" /\ req[s].kind \in Mutations)
<1>1. req[s].step = "put" => Running(s)
  BY DEF RefInv, PutSound
<1>2. req[s].step = "body" /\ req[s].kind \in Mutations => Running(s)
  BY DEF Running, Begun, Over
<1> QED
  BY <1>1, <1>2, Alone

LEMMA ResetStep == ASSUME RefInv, NEW r \in 1..MaxAsked, Reset(r) PROVE RefInv'
<1>1. /\ req[r].step = "arrived" /\ req[r].kind \in Mutations /\ MayRun(r) /\ To(r, "ok")
      /\ UNCHANGED <<bucket, stored, lastKey, localSnapshot, restores, acked>>
      /\ generation' = generation + 1 /\ generation \in Nat /\ restorePromise' = 0 /\ index' = NoIndex
  BY DEF Reset, Mutations, RefInv, RefTyped
<1>2. ~Over(r) /\ req[r].step \notin OverSteps \union {"none"}
  BY <1>1 DEF Over, OverSteps
<1>3. /\ Forward
      /\ \A q \in 1..MaxAsked : q # r => req'[q] = req[q]
      /\ req'[r].step = "ok"
  BY <1>1, <1>2, StepsTo
<1>4. InTurn' /\ (\A q : Begun(q) => Begun(q)') /\ req' \in [1..MaxAsked -> Requests]
  BY <1>3, ForwardTurn DEF Forward
<1>5. RefTyped'
  BY <1>1, <1>4 DEF RefInv, RefTyped
<1>6. AllKnown'
  BY <1>1, <1>4 DEF RefInv, AllKnown, Known
<1>7. StoreSound'
  BY <1>1 DEF RefInv, StoreSound
<1>8. ASSUME NEW s \in 1..MaxAsked
      PROVE  req'[s].step # "put" /\ ~(req'[s].step = "body" /\ req'[s].kind \in Mutations)
  BY <1>1, <1>2, <1>3, NoOtherPut
<1>9. ASSUME NEW i \in DOMAIN restores' PROVE RestoreSound(i)'
  <2>1. RestoreSound(i) /\ restores[i].generation \in Nat
    BY <1>1 DEF RefInv, RefTyped
  <2> QED
    BY <1>1, <2>1 DEF RestoreSound
<1>10. \A s \in 1..MaxAsked : PutSound(s)'
  BY <1>8 DEF PutSound
<1> QED
  BY <1>1, <1>4, <1>5, <1>6, <1>7, <1>8, <1>9, <1>10 DEF RefInv

LEMMA DeleteStep == ASSUME RefInv, NEW r \in 1..MaxAsked, Delete(r) PROVE RefInv'
<1>1. /\ req[r].step = "body" /\ req[r].kind \in Mutations /\ To(r, "ok")
      /\ UNCHANGED <<bucket, stored, lastKey, localSnapshot, generation, restorePromise, restores, acked>>
      /\ index # NoIndex /\ index \in Indexes /\ acked \in Seq(Nat) /\ r \in Nat
      /\ index' = [ops |-> Append(index.ops, r), ghosts |-> TRUE]
  BY AskedAssumption DEF Delete, Acts, Mutations, RefInv, RefTyped
<1>2. ~Over(r) /\ Begun(r) /\ req[r].step \notin OverSteps \union {"none"} /\ req[r].step # "arrived"
  BY <1>1 DEF Over, Begun, OverSteps
<1>3. /\ Forward
      /\ \A q \in 1..MaxAsked : q # r => req'[q] = req[q]
      /\ req'[r].step = "ok"
  BY <1>1, <1>2, StepsTo
<1>4. InTurn' /\ (\A q : Begun(q) => Begun(q)') /\ req' \in [1..MaxAsked -> Requests]
  BY <1>3, ForwardTurn DEF Forward
<1>5. index.ops \in Seq(Nat) /\ Append(index.ops, r) \in Seq(Nat)
  BY <1>1 DEF Indexes
<1>6. index' \in Indexes /\ index'.ops = Append(index.ops, r)
  BY <1>1, <1>5 DEF Indexes
<1>7. index' # NoIndex
  BY <1>6, NoIndexAssumption DEF Indexes
<1>8. RefTyped'
  BY <1>1, <1>4, <1>6 DEF RefInv, RefTyped
<1>9. AllKnown'
  <2>1. PICK first : first = index'.ops[1]
    OBVIOUS
  <2>2. first = 0 \/ Begun(first)
    <3>1. CASE index.ops = <<>>
      BY <1>1, <1>2, <1>6, <2>1, <3>1
    <3>2. CASE index.ops # <<>>
      <4>1. first = index.ops[1]
        BY <1>1, <1>5, <1>6, <2>1, <3>2
      <4> QED
        BY <1>1, <3>2, <4>1 DEF RefInv, AllKnown, Known
    <3> QED
      BY <3>1, <3>2
  <2>3. first = 0 \/ Begun(first)'
    BY <1>4, <2>2
  <2>4. index'.ops[1] = 0 \/ Begun(index.ops[1])'
    BY <2>1, <2>3
  <2> QED
    BY <1>1, <1>4, <2>4 DEF RefInv, AllKnown, Known
<1>10. StoreSound'
  BY <1>1 DEF RefInv, StoreSound
<1>11. Covers(index'.ops, acked')
  <2>1. Covers(index.ops, acked)
    BY <1>1 DEF RefInv
  <2>2. Covers(Append(index.ops, r), acked)
    BY <1>1, <1>5, <2>1, CoversGrows
  <2> QED
    BY <1>1, <1>6, <2>2
<1>12. ASSUME NEW s \in 1..MaxAsked PROVE PutSound(s)'
  <2>1. req'[s].step # "put"
    BY <1>1, <1>2, <1>3, NoOtherPut
  <2> QED
    BY <2>1 DEF PutSound
<1>13. ASSUME NEW i \in DOMAIN restores' PROVE RestoreSound(i)'
  <2>1. RestoreSound(i) /\ restores'[i] = restores[i]
    BY <1>1 DEF RefInv
  <2> QED
    BY <1>1, <1>7, <2>1 DEF RestoreSound
<1> QED
  BY <1>4, <1>7, <1>8, <1>9, <1>10, <1>11, <1>12, <1>13 DEF RefInv

\* What the bucket holds when a put lands: the snapshot is of the index, and the newest.
LEMMA Landed ==
  ASSUME RefInv, NEW r \in 1..MaxAsked, req[r].step = "put",
         stored' = Extended(stored, req[r].key, req[r].ops), lastKey' = lastKey
  PROVE  /\ DOMAIN stored' \subseteq 0..lastKey /\ DOMAIN stored' # {}
         /\ \A k \in DOMAIN stored' : stored'[k] \in Seq(Nat) /\ Known(stored'[k])
         /\ \A j \in DOMAIN stored' : j <= lastKey
         /\ lastKey \in DOMAIN stored' /\ stored'[lastKey] = index.ops
<1>1. /\ req[r].ops = index.ops /\ req[r].key = lastKey /\ lastKey \in Nat /\ index # NoIndex
      /\ index \in Indexes /\ DOMAIN stored \subseteq 0..lastKey
  BY DEF RefInv, RefTyped, PutSound
<1>2. index.ops \in Seq(Nat) /\ Known(index.ops)
  BY <1>1 DEF Indexes, RefInv, AllKnown
<1>3. /\ DOMAIN stored' = DOMAIN stored \union {lastKey}
      /\ \A k \in DOMAIN stored' : stored'[k] = IF k = lastKey THEN index.ops ELSE stored[k]
  BY <1>1 DEF Extended
<1>4. \A k \in DOMAIN stored' : stored'[k] \in Seq(Nat) /\ Known(stored'[k])
  BY <1>2, <1>3 DEF RefInv, RefTyped, AllKnown
<1>5. DOMAIN stored' \subseteq 0..lastKey
  BY <1>1, <1>3
<1>6. \A j \in DOMAIN stored' : j <= lastKey
  BY <1>1, <1>5
<1> QED
  BY <1>3, <1>4, <1>5, <1>6

LEMMA PutStep == ASSUME RefInv, NEW r \in 1..MaxAsked, PutEnds(r) PROVE RefInv'
<1>1. /\ req[r].step = "put" /\ bucket /\ Running(r)
      /\ index # NoIndex /\ req[r].ops = index.ops /\ index \in Indexes
      /\ UNCHANGED <<bucket, lastKey, index, localSnapshot, generation, restorePromise, restores>>
  BY DEF PutEnds, memory, RefInv, RefTyped, PutSound
<1>2. \/ stored' = Extended(stored, req[r].key, req[r].ops) /\ acked' \in {acked, index.ops}
      \/ stored' = stored /\ acked' = acked
  BY <1>1 DEF PutEnds
<1>3. PICK s \in {"ok", "failed"} : To(r, s)
  BY DEF PutEnds
<1>4. req[r].kind \in Mutations /\ Begun(r) /\ ~Over(r) /\ req[r].step \notin OverSteps \union {"none", "arrived"}
  BY <1>1 DEF Running, Begun, OverSteps
<1>5. /\ Forward
      /\ \A q \in 1..MaxAsked : q # r => req'[q] = req[q]
      /\ req'[r].step = s
  BY <1>3, <1>4, StepsTo
<1>6. InTurn' /\ (\A q : Begun(q) => Begun(q)') /\ req' \in [1..MaxAsked -> Requests]
  BY <1>5, ForwardTurn DEF Forward
<1>7. index.ops \in Seq(Nat) /\ Known(index.ops) /\ Covers(index.ops, acked) /\ Covers(index.ops, index.ops)
  BY <1>1, CoversSelf DEF Indexes, RefInv, AllKnown
<1>8. acked' \in Seq(Nat) /\ Known(acked') /\ Covers(index.ops, acked')
  BY <1>2, <1>7 DEF RefInv, RefTyped, AllKnown
<1>9. /\ DOMAIN stored' \subseteq 0..lastKey
      /\ \A k \in DOMAIN stored' : stored'[k] \in Seq(Nat) /\ Known(stored'[k])
  BY <1>1, <1>2, Landed DEF RefInv, RefTyped, AllKnown
<1>10. RefTyped'
  BY <1>1, <1>6, <1>8, <1>9 DEF RefInv, RefTyped
<1>11. AllKnown'
  BY <1>1, <1>6, <1>8, <1>9 DEF RefInv, AllKnown, Known
<1>12. StoreSound'
  <2>1. CASE stored' = Extended(stored, req[r].key, req[r].ops)
    BY <1>1, <1>8, <2>1, Landed DEF StoreSound
  <2>2. CASE stored' = stored /\ acked' = acked
    BY <1>1, <2>2 DEF RefInv, StoreSound
  <2> QED
    BY <1>2, <2>1, <2>2
<1>13. ASSUME NEW q \in 1..MaxAsked PROVE PutSound(q)'
  <2>1. req'[q].step # "put"
    BY <1>3, <1>4, <1>5, NoOtherPut
  <2> QED
    BY <2>1 DEF PutSound
<1>14. ASSUME NEW i \in DOMAIN restores' PROVE RestoreSound(i)'
  <2>1. RestoreSound(i) /\ restores'[i] = restores[i]
    BY <1>1 DEF RefInv
  <2> QED
    BY <1>1, <2>1 DEF RestoreSound
<1> QED
  BY <1>1, <1>6, <1>8, <1>10, <1>11, <1>12, <1>13, <1>14 DEF RefInv

LEMMA LostStep == ASSUME RefInv, IsolateLost PROVE RefInv'
<1>1. /\ index' = NoIndex /\ localSnapshot' = <<>> /\ generation' = 0 /\ restorePromise' = 0 /\ restores' = <<>>
      /\ acked' = (IF bucket THEN acked ELSE <<>>) /\ UNCHANGED <<bucket, lastKey>>
      /\ req \in [1..MaxAsked -> Requests] /\ DOMAIN req = 1..MaxAsked /\ InTurn /\ MaxAsked \in Nat
  BY AskedAssumption DEF IsolateLost, RefInv, RefTyped
<1>2. \/ stored' = stored
      \/ \E r \in 1..MaxAsked : req[r].step = "put" /\ stored' = Extended(stored, req[r].key, req[r].ops)
  BY <1>1 DEF IsolateLost
<1>3. \A q \in 1..MaxAsked : req'[q] = IF req[q] = NotYet \/ Over(q) THEN req[q] ELSE [req[q] EXCEPT !.step = "lost"]
  BY <1>1 DEF IsolateLost
<1>4. ASSUME NEW q \in 1..MaxAsked
      PROVE  /\ req'[q] \in Requests /\ req'[q].kind = req[q].kind
             /\ req'[q] = req[q] \/ req'[q].step = "lost"
             /\ req[q].step = "none" => req'[q] = req[q]
             /\ req[q] # NotYet => req'[q].step \in OverSteps
  <2>1. CASE req[q] = NotYet \/ Over(q)
    BY <1>1, <1>3, <2>1 DEF Over, OverSteps
  <2>2. CASE ~(req[q] = NotYet \/ Over(q))
    <3>1. req[q] \in Requests /\ req'[q] = [req[q] EXCEPT !.step = "lost"]
      BY <1>1, <1>3, <2>2
    <3>2. req[q].step # "none"
      BY <1>1, <2>2 DEF InTurn
    <3> QED
      BY <3>1, <3>2 DEF Requests, ReqSteps, OverSteps
  <2> QED
    BY <2>1, <2>2
<1>5. req' \in [1..MaxAsked -> Requests]
  <2>1. req' = [r \in 1..MaxAsked |-> IF req[r] = NotYet \/ Over(r) THEN req[r] ELSE [req[r] EXCEPT !.step = "lost"]]
    BY <1>1 DEF IsolateLost
  <2>2. \A q \in 1..MaxAsked : req'[q] \in Requests
    BY <1>4
  <2> QED
    BY <2>1, <2>2
<1>6. NotYet.step = "none" /\ NotYet.kind \notin Mutations
  BY DEF NotYet, Mutations
<1>7. Forward
  BY <1>4, <1>5, <1>6 DEF Forward, OverSteps
<1>8. InTurn' /\ (\A q : Begun(q) => Begun(q)')
  BY <1>7, ForwardTurn
<1>9. /\ DOMAIN stored' \subseteq 0..lastKey
      /\ \A k \in DOMAIN stored' : stored'[k] \in Seq(Nat) /\ Known(stored'[k])
  BY <1>1, <1>2, Landed DEF RefInv, RefTyped, AllKnown
<1>10. <<>> \in Seq(Nat) /\ DOMAIN restores' = {} /\ acked' \in Seq(Nat) /\ Known(acked')
  BY <1>1 DEF RefInv, RefTyped, AllKnown, Known
<1>11. RefTyped'
  BY <1>1, <1>5, <1>9, <1>10 DEF RefInv, RefTyped
<1>12. AllKnown'
  BY <1>1, <1>8, <1>9, <1>10 DEF AllKnown, Known
<1>13. StoreSound'
  <2>1. CASE stored' = stored
    BY <1>1, <2>1 DEF RefInv, StoreSound
  <2>2. ASSUME NEW r \in 1..MaxAsked, req[r].step = "put", stored' = Extended(stored, req[r].key, req[r].ops)
        PROVE  StoreSound'
    <3>1. bucket /\ Covers(index.ops, acked)
      BY <2>2 DEF RefInv, PutSound
    <3> QED
      BY <1>1, <2>2, <3>1, Landed DEF StoreSound
  <2> QED
    BY <1>2, <2>1, <2>2
<1>14. ASSUME NEW q \in 1..MaxAsked PROVE req'[q].step # "put" /\ req'[q].step # "body"
  <2>1. req[q] = NotYet => req'[q].step = "none"
    BY <1>4, <1>6
  <2> QED
    BY <1>4, <2>1 DEF OverSteps
<1>15. \A q \in 1..MaxAsked : PutSound(q)'
  BY <1>14 DEF PutSound
<1> QED
  BY <1>1, <1>8, <1>10, <1>11, <1>12, <1>13, <1>14, <1>15 DEF RefInv

LEMMA RefStepInv == RefInv /\ [RefNext]_refVars => RefInv'
<1> SUFFICES ASSUME RefInv, [RefNext]_refVars PROVE RefInv'
  OBVIOUS
<1>1. ASSUME NEW r \in 1..MaxAsked, IndexGone(r) PROVE RefInv'
  BY <1>1, OnlyGoesOn DEF IndexGone, memory, OverSteps, RefInv, RefTyped
<1>2. ASSUME NEW r \in 1..MaxAsked, SearchMemory(r) PROVE RefInv'
  BY <1>2, OnlyGoesOn DEF SearchMemory, Acts, memory, OverSteps, RefInv, RefTyped
<1>3. ASSUME NEW r \in 1..MaxAsked, Refuse(r) PROVE RefInv'
  <2>1. /\ To(r, "refused") /\ restorePromise' \in Nat
        /\ UNCHANGED <<bucket, stored, lastKey, index, localSnapshot, generation, restores, acked>>
    BY <1>3 DEF Refuse, memory, RefInv, RefTyped
  <2>2. req[r].step = "body" \/ (req[r].step = "arrived" /\ MayRun(r))
    BY <1>3 DEF Refuse, Acts
  <2> QED
    BY <2>1, <2>2, OnlyGoesOn DEF OverSteps
<1>4. ASSUME NEW r \in 1..MaxAsked, Serve(r) PROVE RefInv'
  BY <1>1, <1>2, <1>3, <1>4, EnsureStep, InitStep, ResetStep, AddStep, DeleteStep, CompactStep, PutStep DEF Serve
<1>5. CASE UNCHANGED refVars
  BY <1>5 DEF refVars, RefInv, RefTyped, InTurn, AllKnown, Known, StoreSound, PutSound, RestoreSound, Begun, Running, Over
<1> QED
  BY <1>4, <1>5, ArrivesStep, LostStep, ListsStep, LoadsStep, FailsStep DEF RefNext, RestoreGoesOn

-----------------------------------------------------------------------------
\* However many searches, addresses and requests there are, whatever fails and
\* whatever resets and lost isolates come between two steps of a request: what
\* a template's worker serves is loaded whole and named by its own manifest, no
\* address gets more than its share, and what the reference worker acknowledged
\* is in the index it serves and in the bucket's newest snapshot
\* (templates/worker.js, templates/worker.artifact.js, reference-worker/worker.js).
THEOREM ServersStaySound == SiteSpec => []ServersSound
<1> DEFINE Servers == WorkerInv /\ LimitInv /\ RefInv
<1>1. SiteInit => Servers
  BY WorkerInitInv, LimitInitInv, RefInitInv DEF SiteInit
<1>2. Servers /\ [SiteNext]_siteVars => Servers'
  <2> SUFFICES ASSUME Servers, [SiteNext]_siteVars PROVE Servers'
    OBVIOUS
  <2>1. [WorkerNext]_workerVars
    BY DEF SiteNext, BuildStep, CompileStep, WorkerStep, LimitStep, RefStep, siteVars
  <2>2. [LimitNext]_limitVars
    BY DEF SiteNext, BuildStep, CompileStep, WorkerStep, LimitStep, RefStep, siteVars
  <2>3. [RefNext]_refVars
    BY DEF SiteNext, BuildStep, CompileStep, WorkerStep, LimitStep, RefStep, siteVars
  <2> QED
    BY <2>1, <2>2, <2>3, WorkerStepInv, LimitStepInv, RefStepInv
<1>3. Servers => ServersSound
  BY WorkerInvImplies, LimitInvImplies, RefInvImplies DEF ServersSound, WorkersSound
<1> QED
  BY <1>1, <1>2, <1>3, PTL DEF SiteSpec
=============================================================================
