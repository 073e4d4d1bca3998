-------------------------- MODULE HttpRangeSource --------------------------
(****************************************************************************)
(* httpRangeSource (src/packages/pikelet-wasm/complete/sources.mjs) over    *)
(* nodeFetch (node-fetch.mjs): concurrent range reads of one artifact on a  *)
(* host that may redirect to signed URLs, let them expire, replace the      *)
(* artifact, ignore Range, answer 429 or 503, and fail a probe.             *)
(*                                                                          *)
(* What is read is abstracted to the version of the artifact it comes from. *)
(* Locations are 0, the URL as given, and the signed URLs 1, 2, ... in the  *)
(* order the host issues them.                                              *)
(****************************************************************************)
EXTENDS Integers, Sequences, FiniteSets

CONSTANTS
    Readers,     \* reads that may be under way at the same time
    Hosts,       \* the kinds of host to consider, see HostKinds
    MaxRetries,  \* maxRetries
    MaxReads,    \* bound: reads of all readers together
    MaxSigned,   \* bound: signed URLs issued
    MaxVersions, \* bound: uploads of the artifact
    MaxFaults,   \* bound: probes that fail and requests answered 429 or 503
    None

\* front: what the given URL answers (opaque: a browser that hides it).
\* guard: what redirectGuard says of the signed URLs, if there is one.
HostKinds == [front : {"direct", "signed", "opaque"}, etag : {"strong", "weak", "none"},
              ranges : BOOLEAN, guard : {"none", "allows", "refuses"}]

ASSUME HostsAssumption == Hosts \subseteq HostKinds
ASSUME LimitsAssumption ==
    /\ MaxRetries \in Nat /\ MaxReads \in Nat /\ MaxSigned \in Nat \ {0}
    /\ MaxVersions \in Nat \ {0} /\ MaxFaults \in Nat
Targets == [loc : 0 .. MaxSigned, via : BOOLEAN]
ASSUME NoneAssumption == None \notin 1 .. MaxVersions /\ None \notin Targets

VARIABLES
    host,      \* which kind of host it is
    version,   \* the artifact it has now
    signed,    \* the signed URLs: the version each serves, and whether it is live
    resolved,  \* resolvedTarget
    resolving, \* resolving: where its HEAD walk is, or None
    pinned,    \* pinnedOnce
    etag,      \* stats.etag: the version it was given for, or None
    full,      \* full: the version downloaded whole, or None
    read,      \* the read, or call of init, each reader has under way
    opened,    \* the opener's first call has succeeded: reads may overlap
    reads,
    faults,
    delivered, \* history: the versions reads have returned bytes of
    charged    \* history: HEAD walks begun, less the signed URLs that have expired

hostVars == <<host, version, signed>>
sourceVars == <<resolved, resolving, pinned, etag, full>>
vars == <<hostVars, sourceVars, read, opened, reads, faults, delivered, charged>>

Newest == Len(signed)
Idle == [at |-> "idle"]

\* The version that a GET of a location gets to see, or None past its expiry.
Serves(loc) == IF loc = 0 THEN version
               ELSE IF signed[loc].live THEN signed[loc].version ELSE None

Init ==
    /\ host \in Hosts
    /\ version = 1
    /\ signed = <<[version |-> 1, live |-> TRUE]>>
    /\ resolved = None /\ resolving = None /\ pinned = FALSE /\ etag = None /\ full = None
    /\ read = [r \in Readers |-> Idle]
    /\ opened = FALSE /\ reads = 0 /\ faults = 0 /\ delivered = {} /\ charged = 0

(***************************************************************************)
(* The host                                                                *)
(***************************************************************************)

\* A signed URL expires; the front door hands out a fresh one from then on.
Expire(t) ==
    /\ host.front # "direct" /\ signed[t].live
    /\ IF t = Newest
       THEN /\ Newest < MaxSigned
            /\ signed' = Append([signed EXCEPT ![t].live = FALSE], [version |-> version, live |-> TRUE])
       ELSE signed' = [signed EXCEPT ![t].live = FALSE]
    /\ charged' = charged - 1
    /\ UNCHANGED <<host, version, sourceVars, read, opened, reads, faults, delivered>>

\* The artifact is replaced under its name.  URLs signed before go on serving
\* the object they were signed for.
Replace ==
    /\ version < MaxVersions /\ Newest < MaxSigned
    /\ version' = version + 1
    /\ signed' = Append(signed, [version |-> version + 1, live |-> TRUE])
    /\ UNCHANGED <<host, sourceVars, read, opened, reads, faults, delivered, charged>>

Fault == faults < MaxFaults /\ faults' = faults + 1

(***************************************************************************)
(* resolveTarget                                                           *)
(***************************************************************************)

Target(loc, via) == [loc |-> loc, via |-> via]

\* A read that needs a target begins the walk or joins the one under way.
AwaitWith(r, call) ==
    /\ read' = [read EXCEPT ![r] = call]
    /\ IF resolving = None
       THEN resolving' = Target(0, FALSE) /\ charged' = charged + 1
       ELSE UNCHANGED <<resolving, charged>>

\* Every read that awaits the walk goes on with what it returns.
Resolve(target) ==
    /\ opened' = (opened \/ \E r \in Readers : read[r].at = "resolve" /\ read[r].init)
    /\ resolved' = target /\ resolving' = None /\ pinned' = TRUE
    /\ read' = [r \in Readers |->
                    IF read[r].at # "resolve" THEN read[r]
                    ELSE IF read[r].init THEN Idle
                    ELSE [read[r] EXCEPT !.at = "get", !.target = target,
                            !.pinned = IF read[r].pinned = None THEN target ELSE @]]

\* Mutant: a refused walk fails the reads for which it was the first one only.
RejectResolve_First ==
    /\ resolving' = None
    /\ read' = [r \in Readers |-> IF read[r].at # "resolve" \/ read[r].again THEN read[r]
                                  ELSE [read[r] EXCEPT !.at = "failed"]]
    /\ UNCHANGED <<resolved, pinned, etag, opened>>

\* A refused hop or a replaced artifact fails every read that awaits the walk.
RejectResolve ==
    /\ resolving' = None
    /\ read' = [r \in Readers |-> IF read[r].at # "resolve" THEN read[r]
                                  ELSE [read[r] EXCEPT !.at = "failed"]]
    /\ UNCHANGED <<resolved, pinned, etag, opened>>

\* HEAD of the given URL finds a redirect; the guard is asked before it is followed.
FollowHop ==
    /\ resolving # None /\ resolving.loc = 0 /\ host.front = "signed"
    /\ IF host.guard = "refuses"
       THEN RejectResolve
       ELSE /\ resolving' = Target(Newest, TRUE)
            /\ UNCHANGED <<resolved, pinned, etag, read, opened>>
    /\ UNCHANGED <<hostVars, full, reads, faults, delivered, charged>>

\* A browser cannot see the redirect: the reads follow it themselves.
OpaqueHop ==
    /\ resolving # None /\ host.front = "opaque"
    /\ Resolve(Target(0, FALSE))
    /\ UNCHANGED <<hostVars, etag, full, reads, faults, delivered, charged>>

\* HEAD answers 200: the first such answer is what every later one must match.
AtEnd == resolving # None /\ (resolving.loc # 0 \/ host.front = "direct")

\* Mutant: what a later walk finds replaces what the first one did.
ProbeOk_Adopt ==
    /\ AtEnd /\ Serves(resolving.loc) # None
    /\ Resolve(resolving)
    /\ etag' = IF host.etag # "none" THEN Serves(resolving.loc) ELSE None
    /\ UNCHANGED <<hostVars, full, reads, faults, delivered, charged>>

ProbeOk ==
    LET v == Serves(resolving.loc)
    IN  /\ AtEnd /\ v # None
        /\ IF pinned
           THEN IF etag # None /\ v # etag THEN RejectResolve
                ELSE Resolve(resolving) /\ UNCHANGED etag
           ELSE /\ Resolve(resolving)
                /\ etag' = IF host.etag # "none" THEN v ELSE None
        /\ UNCHANGED <<hostVars, full, reads, faults, delivered, charged>>

\* The end of the walk answers an error: it is pinned all the same, with
\* nothing known about it.
ProbeNotOk ==
    /\ AtEnd
    /\ IF Serves(resolving.loc) = None THEN UNCHANGED faults ELSE Fault
    /\ Resolve(resolving)
    /\ UNCHANGED <<hostVars, etag, full, reads, delivered, charged>>

\* HEAD is blocked or the connection fails: back to the given URL.
ProbeThrows ==
    /\ resolving # None /\ Fault
    /\ Resolve(Target(0, FALSE))
    /\ UNCHANGED <<hostVars, etag, full, reads, delivered, charged>>

(***************************************************************************)
(* read                                                                    *)
(***************************************************************************)

\* Openers call init, or read the header on its own, before they read in
\* parallel.
MayBegin == opened \/ \A s \in Readers : read[s] = Idle

Call(init) ==
    [at |-> "resolve", init |-> init, ifRange |-> IF host.etag = "strong" THEN etag ELSE None,
     pinned |-> None, target |-> None, again |-> FALSE, attempt |-> 0, answer |-> None]

\* If-Range takes a strong ETag, and the one known when the read begins.
Begin(r) ==
    /\ read[r] = Idle /\ full = None /\ MayBegin
    /\ reads < MaxReads /\ reads' = reads + 1
    /\ IF resolved = None
       THEN AwaitWith(r, Call(FALSE))
       ELSE /\ read' = [read EXCEPT ![r] = [Call(FALSE) EXCEPT !.at = "get", !.pinned = resolved, !.target = resolved]]
            /\ UNCHANGED <<resolving, charged>>
    /\ UNCHANGED <<hostVars, resolved, pinned, etag, full, opened, faults, delivered>>

\* init, for those openers that call it first.
InitSource(r) ==
    /\ read[r] = Idle /\ MayBegin /\ ~pinned
    /\ reads < MaxReads /\ reads' = reads + 1
    /\ AwaitWith(r, Call(TRUE))
    /\ UNCHANGED <<hostVars, resolved, pinned, etag, full, opened, faults, delivered>>

\* Once the artifact has been downloaded whole reads are served from memory.
ReadFull(r) ==
    /\ read[r] = Idle /\ full # None
    /\ reads < MaxReads /\ reads' = reads + 1
    /\ delivered' = delivered \cup {full}
    /\ UNCHANGED <<hostVars, sourceVars, read, opened, faults, charged>>

Answered(r, status, v) ==
    read' = [read EXCEPT ![r].at = "answer", ![r].answer = [status |-> status, version |-> v]]

\* A read of the given URL follows its redirect, except under a guard.
GetFollows(r) == host.front # "direct" /\ read[r].target.loc = 0 /\ host.guard = "none"

\* The version a GET reaches: fetch fails where a redirect may not be followed.
Reaches(r) ==
    IF GetFollows(r) THEN signed[Newest].version
    ELSE IF read[r].target.loc = 0 /\ host.front # "direct" THEN None
    ELSE Serves(read[r].target.loc)

\* The host answers a GET: a range, the whole file, or no to an expired URL.
Get(r) ==
    /\ read[r].at = "get"
    /\ LET v == Reaches(r)
       IN  IF v = None /\ read[r].target.loc = 0
           THEN read' = [read EXCEPT ![r].at = "failed"]
           ELSE IF v = None THEN Answered(r, 403, None)
           ELSE IF host.ranges /\ read[r].ifRange \in {None, v} THEN Answered(r, 206, v)
           ELSE Answered(r, 200, v)
    /\ UNCHANGED <<hostVars, sourceVars, opened, reads, faults, delivered, charged>>

GetBusy(r) ==
    /\ read[r].at = "get" /\ Fault
    /\ Answered(r, 429, None)
    /\ UNCHANGED <<hostVars, sourceVars, opened, reads, delivered, charged>>

\* Mutant: whatever target is pinned now is given up.
Expired_Any(r) ==
    /\ read[r].at = "answer" /\ read[r].answer.status = 403
    /\ read[r].pinned.via /\ ~read[r].again /\ read[r].attempt = 0
    /\ resolved' = None
    /\ AwaitWith(r, [read[r] EXCEPT !.again = TRUE, !.at = "resolve"])
    /\ UNCHANGED <<hostVars, pinned, etag, full, opened, reads, faults, delivered>>

\* The signed URL was refused: once per read, the URL is resolved again,
\* unless another read has already seen to that.
Expired(r) ==
    /\ read[r].at = "answer" /\ read[r].answer.status = 403
    /\ read[r].pinned.via /\ ~read[r].again /\ read[r].attempt = 0
    /\ LET target == IF resolved = read[r].pinned THEN None ELSE resolved
       IN  /\ resolved' = target
           /\ IF target # None
              THEN /\ read' = [read EXCEPT ![r].again = TRUE, ![r].at = "get", ![r].target = target]
                   /\ UNCHANGED <<resolving, charged>>
              ELSE AwaitWith(r, [read[r] EXCEPT !.again = TRUE, !.at = "resolve"])
    /\ UNCHANGED <<hostVars, pinned, etag, full, opened, reads, faults, delivered>>

\* 429, 502, 503, 504: after a pause, the target pinned by then.
Backoff(r) ==
    /\ read[r].at = "answer" /\ read[r].answer.status = 429 /\ read[r].attempt < MaxRetries
    /\ read' = [read EXCEPT ![r].at = "get", ![r].attempt = @ + 1,
                    ![r].target = IF resolved # None THEN resolved ELSE read[r].pinned]
    /\ UNCHANGED <<hostVars, sourceVars, opened, reads, faults, delivered, charged>>

GiveUp(r) ==
    /\ read[r].at = "answer"
    /\ \/ read[r].answer.status = 429 /\ read[r].attempt >= MaxRetries
       \/ read[r].answer.status = 403 /\ (~read[r].pinned.via \/ read[r].again \/ read[r].attempt > 0)
    /\ read' = [read EXCEPT ![r].at = "failed"]
    /\ UNCHANGED <<hostVars, sourceVars, opened, reads, faults, delivered, charged>>

Range206(r) ==
    /\ read[r].at = "answer" /\ read[r].answer.status = 206
    /\ delivered' = delivered \cup {read[r].answer.version}
    /\ read' = [read EXCEPT ![r] = Idle]
    /\ opened' = TRUE
    /\ UNCHANGED <<hostVars, sourceVars, reads, faults, charged>>

\* 200: the artifact was replaced, or the host ignores Range and everything is
\* downloaded (when its size is known and within the limit).
Whole200(r) ==
    /\ read[r].at = "answer" /\ read[r].answer.status = 200
    /\ IF etag # None /\ read[r].answer.version # etag
       THEN /\ read' = [read EXCEPT ![r].at = "failed"]
            /\ UNCHANGED <<full, delivered, opened>>
       ELSE /\ full' = read[r].answer.version
            /\ delivered' = delivered \cup {full'}
            /\ read' = [read EXCEPT ![r] = Idle]
            /\ opened' = TRUE
    /\ UNCHANGED <<hostVars, resolved, resolving, pinned, etag, reads, faults, charged>>

Throw(r) ==
    /\ read[r].at = "failed"
    /\ read' = [read EXCEPT ![r] = Idle]
    /\ UNCHANGED <<hostVars, sourceVars, opened, reads, faults, delivered, charged>>

WalkStep == FollowHop \/ OpaqueHop \/ ProbeOk \/ ProbeNotOk \/ ProbeThrows
ReadStep(r) ==
    \/ Get(r) \/ GetBusy(r) \/ Expired(r) \/ Backoff(r) \/ GiveUp(r)
    \/ Range206(r) \/ Whole200(r) \/ Throw(r)

Next ==
    \/ \E t \in DOMAIN signed : Expire(t)
    \/ Replace
    \/ WalkStep
    \/ \E r \in Readers : Begin(r) \/ InitSource(r) \/ ReadFull(r) \/ ReadStep(r)

\* Requests are answered or fail, and promises are continued.
Fairness == WF_vars(WalkStep) /\ \A r \in Readers : WF_vars(ReadStep(r))
Spec == Init /\ [][Next]_vars /\ Fairness

-----------------------------------------------------------------------------
(***************************************************************************)
(* Properties                                                              *)
(***************************************************************************)

TypeOK ==
    /\ host \in Hosts /\ version \in 1 .. MaxVersions
    /\ signed \in Seq([version : 1 .. MaxVersions, live : BOOLEAN])
    /\ resolved \in Targets \cup {None} /\ resolving \in Targets \cup {None}
    /\ pinned \in BOOLEAN
    /\ etag \in (1 .. MaxVersions) \cup {None} /\ full \in (1 .. MaxVersions) \cup {None}
    /\ \A r \in Readers : /\ read[r].at \in {"idle", "resolve", "get", "answer", "failed"}
                         /\ read[r].at \in {"get", "answer"} => read[r].target \in Targets
    /\ delivered \subseteq 1 .. MaxVersions

\* "reads fail with ARTIFACT_CHANGED rather than mixing bytes from two
\* artifacts" (README of pikelet), on a host with strong ETags, as soon as the
\* first probe was answered: through expiry, replacement, retries, failed
\* probes and full downloads, whatever reads run at the same time.
PinnedBytesOnly == etag # None /\ host.etag = "strong" => Cardinality(delivered) <= 1

\* The same, whatever the first probe was answered.
NeverMixed == host.etag = "strong" /\ host.front = "signed" => Cardinality(delivered) <= 1

\* Concurrent reads share the resolution of the redirect: the front door is
\* charged once, and once more per URL that expired, not per read.
FrontDoorCharged ==
    version = 1 /\ host.guard # "refuses" => charged <= 1

\* Under a redirectGuard no read returns bytes from a location it refuses.
GuardHolds == host.guard = "refuses" /\ host.front # "direct" => delivered = {}

\* The address is looked up as seldom as it may and never where the guard
\* forbids.
AddressSound == TypeOK /\ FrontDoorCharged /\ GuardHolds

\* Every read ends, in bytes or an error; no read awaits a walk that another
\* one gave up or finished.
ReadsEnd == \A r \in Readers : read[r] # Idle ~> read[r] = Idle
=============================================================================
