----------------------- MODULE HttpRangeSourceProofs -----------------------
(****************************************************************************)
(* Theorems about HttpRangeSource: for any number of readers, hosts, signed *)
(* URLs, uploads and faults, all bytes come from one artifact once the      *)
(* first probe was answered, the front door is charged once per signed URL, *)
(* and a guard holds.                                                       *)
(****************************************************************************)
EXTENDS HttpRangeSource, FiniteSetTheorems, TLAPS

(***************************************************************************)
(* The inductive invariant                                                 *)
(***************************************************************************)

Versions == 1 .. MaxVersions
Urls == [version : Versions, live : BOOLEAN]
Answers == [status : {200, 206, 403, 429}, version : Versions \cup {None}]
Calls == [at : {"resolve", "get", "answer", "failed"}, init : BOOLEAN, ifRange : Versions \cup {None},
          pinned : Targets \cup {None}, target : Targets \cup {None}, again : BOOLEAN, attempt : Nat,
          answer : Answers \cup {None}]

Types ==
    /\ host \in Hosts /\ version \in Versions
    /\ signed \in Seq(Urls)
    /\ resolved \in Targets \cup {None} /\ resolving \in Targets \cup {None}
    /\ pinned \in BOOLEAN
    /\ etag \in Versions \cup {None} /\ full \in Versions \cup {None}
    /\ read \in [Readers -> {Idle} \cup Calls]
    /\ opened \in BOOLEAN
    /\ delivered \subseteq Versions
    /\ charged \in Int

\* Signed URLs are of versions up to the current one; the newest is live.
Hosted ==
    /\ Newest \in 1 .. MaxSigned
    /\ signed[Newest].version = version /\ signed[Newest].live
    /\ \A t \in 1 .. Newest : signed[t].version <= version
    /\ etag # None => etag <= version

\* What a location leads to, now or before it expired.
VersionAt(loc) == IF loc = 0 THEN version ELSE signed[loc].version

Strong == host.etag = "strong" /\ etag # None
Shut == host.guard = "refuses" /\ host.front # "direct"
\* What was read first was newer than what the first probe had found.
Overtaken == \E v \in delivered : v # etag

\* A target in use: never older than what is pinned, and newer once newer
\* bytes were read; under a guard that refuses, the URL as given.
TargetSound(target) ==
    target # None =>
        /\ target.loc <= Newest
        /\ target.via <=> target.loc # 0
        /\ Shut => target.loc = 0
        /\ Strong => VersionAt(target.loc) >= etag
        /\ Strong /\ Overtaken => VersionAt(target.loc) > etag

AnswerSound(call) ==
    LET answer == call.answer
    IN  call.at = "answer" =>
            /\ answer \in Answers
            /\ answer.status \in {200, 206} =>
                   /\ ~Shut /\ answer.version # None
                   /\ answer.version <= VersionAt(call.target.loc)
                   /\ Strong => answer.version >= etag
                   /\ Strong /\ Overtaken => answer.version > etag
            /\ answer.status = 206 /\ call.ifRange # None => answer.version = call.ifRange
            /\ answer.status = 403 => call.target.loc # 0 /\ ~signed[call.target.loc].live

\* A read under way. One that began before the first probe was answered has no
\* ETag to ask for, and then it is the first of all.
CallSound(call) ==
    /\ TargetSound(call.pinned) /\ TargetSound(call.target)
    /\ AnswerSound(call)
    /\ call.at = "resolve" => call.attempt = 0 /\ (call.pinned # None => call.again)
    /\ call.at \in {"get", "answer"} =>
           /\ call.pinned # None /\ call.target # None /\ pinned
           /\ ~call.again /\ call.attempt = 0 => call.target = call.pinned
           /\ ~opened => call.target = resolved
    /\ call.ifRange # None => call.ifRange = etag
    /\ Strong /\ call.ifRange = None => ~opened /\ delivered = {}
    /\ ~pinned => call.pinned = None /\ call.target = None

ReadsSound == \A r \in Readers : read[r] # Idle => CallSound(read[r])

\* Until one call has succeeded there is at most one at a time.
OneOpens == ~opened => \A r, s \in Readers : read[r] # Idle /\ read[s] # Idle => r = s

SourceSound ==
    /\ TargetSound(resolved) /\ TargetSound(resolving)
    /\ resolved # None => resolving = None
    /\ ~pinned => resolved = None /\ etag = None /\ full = None /\ delivered = {} /\ ~opened
    /\ Shut => delivered = {}
    /\ full # None => full \in delivered
    /\ \A v \in delivered : v <= version
    /\ Strong => \E v \in Versions : v >= etag /\ delivered \subseteq {v}
    /\ Strong /\ full # None => full = etag /\ delivered = {etag}

\* What a walk was charged for is paid for when the address it found expires.
Dead(target) == target # None /\ target.loc # 0 /\ ~signed[target.loc].live
ChargedSound ==
    version = 1 /\ host.guard # "refuses" =>
        /\ charged <= 1
        /\ resolved = None /\ resolving = None => charged <= 0
        /\ Dead(resolved) \/ Dead(resolving) => charged <= 0

IInv == Types /\ Hosted /\ ReadsSound /\ OneOpens /\ SourceSound /\ ChargedSound

-----------------------------------------------------------------------------
\* A read that is under way is a call.
LEMMA UnderWay == ASSUME Types, NEW r \in Readers
                  PROVE  /\ read[r] = Idle \/ read[r] \in Calls
                         /\ read[r].at # "idle" => read[r] \in Calls
                         /\ read[r] # Idle <=> read[r] \in Calls
                         /\ read[r] \in Calls => read[r].at # "idle"
<1>1. read[r] \in {Idle} \cup Calls
  BY DEF Types
<1>2. Idle.at = "idle"
  BY DEF Idle
<1>3. \A c \in Calls : c.at # "idle"
  BY DEF Calls
<1> QED
  BY <1>1, <1>2, <1>3

\* Init starts in the invariant.
LEMMA Starts == Init => IInv
<1> SUFFICES ASSUME Init PROVE IInv
  OBVIOUS
<1> USE HostsAssumption, LimitsAssumption, NoneAssumption DEF Init
<1>1. Len(signed) = 1 /\ signed[1] = [version |-> 1, live |-> TRUE]
  OBVIOUS
<1>2. Types
  <2>1. [version |-> 1, live |-> TRUE] \in Urls /\ 1 \in Versions
    BY DEF Urls, Versions
  <2>2. signed \in Seq(Urls)
    BY <2>1
  <2>3. read \in [Readers -> {Idle} \cup Calls]
    OBVIOUS
  <2>5. host \in Hosts /\ version \in Versions
    BY <2>1
  <2>6. resolved \in Targets \cup {None} /\ resolving \in Targets \cup {None}
    OBVIOUS
  <2>8. etag \in Versions \cup {None} /\ full \in Versions \cup {None}
    OBVIOUS
  <2>9. delivered \subseteq Versions
    OBVIOUS
  <2>7. pinned \in BOOLEAN /\ opened \in BOOLEAN
    BY Zenon
  <2>10. charged \in Int
    OBVIOUS
  <2> QED
    BY <2>2, <2>3, <2>5, <2>6, <2>7, <2>8, <2>9, <2>10 DEF Types
<1>3. Hosted
  BY <1>1 DEF Hosted, Newest
<1>4. ReadsSound /\ OneOpens
  BY DEF ReadsSound, OneOpens
<1>5. SourceSound
  BY DEF SourceSound, TargetSound, Strong, Shut, Overtaken
<1>6. ChargedSound
  BY DEF ChargedSound, Dead
<1> QED
  BY <1>2, <1>3, <1>4, <1>5, <1>6 DEF IInv

(***************************************************************************)
(* The host                                                                *)
(***************************************************************************)

\* What a host does leaves the source alone.  It only adds newer versions and
\* kills URLs, so that what holds of a target or of an answer goes on to hold.
HostOnly == UNCHANGED <<host, sourceVars, read, opened, delivered>>
UrlsKept == \A t \in 1 .. Newest : /\ signed'[t].version = signed[t].version
                                   /\ ~signed[t].live => ~signed'[t].live
LEMMA HostMoves == ASSUME IInv, HostOnly, UrlsKept, Hosted', version' \in Versions,
                          version' >= version, Newest' >= Newest
                   PROVE  ReadsSound' /\ OneOpens' /\ SourceSound'
<1> USE DEF IInv, sourceVars, HostOnly, UrlsKept
<1>1. Newest \in Nat /\ Newest' \in Nat /\ version \in Nat /\ version' \in Nat
  BY DEF Newest, Hosted, Types, Versions
<1>2. \A loc \in 0 .. Newest : VersionAt(loc)' >= VersionAt(loc) /\ VersionAt(loc) \in Int /\ VersionAt(loc)' \in Int
  <2> SUFFICES ASSUME NEW loc \in 0 .. Newest
               PROVE  VersionAt(loc)' >= VersionAt(loc) /\ VersionAt(loc) \in Int /\ VersionAt(loc)' \in Int
    OBVIOUS
  <2>1. CASE loc = 0
    BY <1>1, <2>1 DEF VersionAt
  <2>2. CASE loc \in 1 .. Newest
    <3>1. signed[loc] \in Urls
      BY <2>2 DEF Types, Newest
    <3> QED
      BY <2>2, <3>1 DEF VersionAt, Versions, Urls
  <2> QED
    BY <1>1, <2>1, <2>2
<1>3. ASSUME NEW target \in Targets \cup {None}, TargetSound(target)
      PROVE  TargetSound(target)'
  <2>1. target # None => target.loc \in Nat /\ target.loc \in 0 .. Newest
    BY <1>1, <1>3, LimitsAssumption DEF TargetSound, Targets
  <2>2. etag \in Int \/ etag = None
    BY DEF Types, Versions
  <2> QED
    BY <1>1, <1>2, <1>3, <2>1, <2>2 DEF TargetSound, Shut, Strong, Overtaken
<1>4. ASSUME NEW r \in Readers, read[r] # Idle
      PROVE  CallSound(read[r])'
  <2>1. CallSound(read[r]) /\ read[r] \in Calls
    BY <1>4, UnderWay DEF ReadsSound
  <2>2. TargetSound(read[r].pinned)' /\ TargetSound(read[r].target)'
    BY <1>3, <2>1 DEF CallSound, Calls
  <2>3. AnswerSound(read[r])'
    <3> SUFFICES ASSUME read[r].at = "answer"
                 PROVE  AnswerSound(read[r])'
      BY DEF AnswerSound
    <3>1. read[r].target # None /\ TargetSound(read[r].target) /\ read[r].target \in Targets
      BY <2>1 DEF CallSound, Calls
    <3>2. read[r].target.loc \in 0 .. Newest
      BY <1>1, <3>1, LimitsAssumption DEF TargetSound, Targets
    <3>3. VersionAt(read[r].target.loc)' >= VersionAt(read[r].target.loc)
          /\ VersionAt(read[r].target.loc) \in Int /\ VersionAt(read[r].target.loc)' \in Int
      BY <1>2, <3>2
    <3>4. read[r].answer \in Answers /\ (read[r].answer.version \in Int \/ read[r].answer.version = None)
      BY <2>1 DEF CallSound, AnswerSound, Answers, Versions
    <3>5. read[r].target.loc # 0 /\ ~signed[read[r].target.loc].live => ~signed'[read[r].target.loc].live
      BY <1>1, <3>2
    <3> QED
      BY <2>1, <3>3, <3>4, <3>5 DEF CallSound, AnswerSound, Shut, Strong, Overtaken
  <2> QED
    BY <2>1, <2>2, <2>3 DEF CallSound, Strong
<1>5. ReadsSound' /\ OneOpens'
  BY <1>4 DEF ReadsSound, OneOpens
<1>6. SourceSound'
  <2>1. TargetSound(resolved)' /\ TargetSound(resolving)'
    BY <1>3 DEF SourceSound, Types
  <2>2. \A v \in delivered : v <= version'
    <3>1. \A v \in delivered : v <= version /\ v \in Int
      BY DEF SourceSound, Types, Versions
    <3> QED
      BY <1>1, <3>1
  <2> QED
    BY <2>1, <2>2 DEF SourceSound, Shut, Strong
<1> QED
  BY <1>5, <1>6

LEMMA ExpireStep == ASSUME IInv, NEW t \in DOMAIN signed, Expire(t)
                    PROVE  IInv'
<1> USE DEF IInv
<1> DEFINE dead == [signed EXCEPT ![t].live = FALSE]
<1>1. /\ host' = host /\ version' = version /\ UNCHANGED <<sourceVars, read, opened, delivered>>
      /\ charged' = charged - 1 /\ signed[t].live
  BY DEF Expire
<1>2. /\ t \in 1 .. Newest /\ Newest = Len(signed) /\ Newest \in Nat
      /\ \A u \in 1 .. Newest : signed[u] \in Urls
  BY DEF Types, Newest
<1>3. /\ dead \in Seq(Urls) /\ Len(dead) = Newest
      /\ \A u \in 1 .. Newest : /\ dead[u].version = signed[u].version
                                /\ dead[u].live = (signed[u].live /\ u # t)
  <2>0. DOMAIN signed = 1 .. Newest
    BY DEF Types, Newest
  <2>1. \A u \in 1 .. Newest : dead[u] = IF u = t THEN [signed[u] EXCEPT !.live = FALSE] ELSE signed[u]
    BY <2>0
  <2>2. \A u \in 1 .. Newest : signed[u].live \in BOOLEAN /\ dead[u] \in Urls
    BY <1>2, <2>1 DEF Urls
  <2>3. \A u \in 1 .. Newest : /\ dead[u].version = signed[u].version
                                /\ dead[u].live = (signed[u].live /\ u # t)
    BY <1>2, <2>1 DEF Urls
  <2>4. Len(dead) = Newest /\ DOMAIN dead = 1 .. Newest
    BY <1>2 DEF Types, Newest
  <2>5. dead = [u \in 1 .. Newest |-> dead[u]]
    BY <2>4
  <2> HIDE DEF dead
  <2> QED
    BY <1>2, <2>2, <2>3, <2>4, <2>5
<1> HIDE DEF dead
<1> DEFINE fresh == [version |-> version, live |-> TRUE]
<1>f. fresh \in Urls /\ fresh.version = version /\ fresh.live
  BY DEF Types, Urls
<1> HIDE DEF fresh
<1>g. DOMAIN signed = 1 .. Newest /\ version \in Int
      /\ \A u \in 1 .. Newest : signed[u].version \in Int /\ signed[u].version <= version
  BY <1>2 DEF Types, Newest, Hosted, Versions, Urls
<1>4. \/ t = Newest /\ Newest < MaxSigned /\ signed' = Append(dead, fresh)
      \/ t # Newest /\ signed' = dead
  BY DEF Expire, dead, fresh
<1>5. ASSUME t = Newest
      PROVE  Hosted' /\ UrlsKept /\ signed' \in Seq(Urls) /\ Newest' >= Newest
  <2>1. Newest < MaxSigned /\ signed' = Append(dead, fresh)
    BY <1>4, <1>5
  <2>2. signed' \in Seq(Urls) /\ Len(signed') = Newest + 1
    BY <1>3, <1>f, <2>1
  <2>6. signed'[Newest + 1] = fresh /\ \A u \in 1 .. Newest : signed'[u] = dead[u]
    BY <1>3, <1>f, <2>1
  <2>3. Newest' = Newest + 1 /\ Newest' \in 1 .. MaxSigned
    BY <1>2, <2>1, <2>2, LimitsAssumption DEF Newest
  <2>4. UrlsKept
    BY <1>3, <2>6 DEF UrlsKept
  <2>5. Hosted'
    <3>1. signed'[Newest'].version = version' /\ signed'[Newest'].live
      BY <1>1, <1>f, <2>2, <2>6, <2>3
    <3>2. \A u \in 1 .. Newest' : signed'[u].version <= version'
      BY <1>1, <1>2, <1>3, <1>f, <1>g, <2>2, <2>6, <2>3
    <3>3. etag' # None => etag' <= version'
      BY <1>1 DEF Hosted, sourceVars
    <3> QED
      BY <2>3, <3>1, <3>2, <3>3 DEF Hosted
  <2> QED
    BY <1>2, <2>2, <2>3, <2>4, <2>5
<1>6. ASSUME t # Newest
      PROVE  Hosted' /\ UrlsKept /\ signed' \in Seq(Urls) /\ Newest' >= Newest
  <2>1. signed' = dead /\ Newest' = Newest
    BY <1>3, <1>4, <1>6 DEF Newest
  <2>2. UrlsKept
    BY <1>3, <2>1 DEF UrlsKept
  <2>3. Hosted'
    <3>1. Newest \in 1 .. Newest
      BY DEF Hosted, Newest
    <3>2. signed'[Newest'].version = version' /\ signed'[Newest'].live
      BY <1>1, <1>3, <1>6, <2>1, <3>1 DEF Hosted
    <3>3. \A u \in 1 .. Newest' : signed'[u].version <= version'
      BY <1>1, <1>3, <1>g, <2>1
    <3>4. etag' # None => etag' <= version'
      BY <1>1 DEF Hosted, sourceVars
    <3> QED
      BY <2>1, <3>2, <3>3, <3>4 DEF Hosted
  <2> QED
    BY <1>2, <1>3, <2>1, <2>2, <2>3
<1>7. Hosted' /\ UrlsKept /\ signed' \in Seq(Urls) /\ Newest' >= Newest
  <2>1. CASE t = Newest
    BY <1>5, <2>1
  <2>2. CASE t # Newest
    BY <1>6, <2>2
  <2> QED
    BY <2>1, <2>2
<1>9. ReadsSound' /\ OneOpens' /\ SourceSound'
  <2>1. HostOnly /\ version' \in Versions /\ version' >= version
    BY <1>1, <1>g DEF HostOnly, Types
  <2> QED
    BY <1>7, <2>1, HostMoves
<1>10. Types'
  BY <1>1, <1>7 DEF Types, sourceVars
<1>8. ChargedSound'
  <2>1. SourceSound /\ charged \in Int
    BY DEF Types
  <2> QED
    BY <1>1, <2>1 DEF ChargedSound, sourceVars
<1> QED
  BY <1>7, <1>8, <1>9, <1>10

LEMMA ReplaceStep == ASSUME IInv, Replace
                     PROVE  IInv'
<1> USE DEF IInv
<1> DEFINE fresh == [version |-> version + 1, live |-> TRUE]
<1>1. /\ host' = host /\ version' = version + 1 /\ version < MaxVersions /\ Newest < MaxSigned
      /\ signed' = Append(signed, fresh)
      /\ UNCHANGED <<sourceVars, read, opened, delivered, charged>>
  BY DEF Replace
<1>2. version' \in Versions /\ version \in Nat /\ fresh \in Urls /\ Newest \in Nat
      /\ fresh.version = version + 1 /\ fresh.live
  BY <1>1, LimitsAssumption DEF Types, Versions, Newest, Urls
<1> HIDE DEF fresh
<1>3. /\ signed' \in Seq(Urls) /\ Newest' = Newest + 1
      /\ signed'[Newest'] = fresh
      /\ \A u \in 1 .. Newest : signed'[u] = signed[u]
  BY <1>1, <1>2 DEF Types, Newest
<1>4. Hosted'
  <2>1. \A u \in 1 .. Newest : signed[u].version <= version /\ signed[u].version \in Int
    <3>1. \A u \in 1 .. Newest : signed[u] \in Urls
      BY DEF Types, Newest
    <3> QED
      BY <3>1 DEF Hosted, Urls, Versions
  <2>2. etag' # None => etag' <= version'
    <3>1. etag = None \/ (etag \in Int /\ etag <= version)
      BY DEF Hosted, Types, Versions
    <3> QED
      BY <1>1, <1>2, <3>1 DEF sourceVars
  <2>3. signed'[Newest'].version = version' /\ signed'[Newest'].live
    BY <1>1, <1>2, <1>3
  <2>4. \A u \in 1 .. Newest' : signed'[u].version <= version'
    BY <1>1, <1>2, <1>3, <2>1
  <2>5. Newest' \in 1 .. MaxSigned
    BY <1>1, <1>2, <1>3, LimitsAssumption
  <2> QED
    BY <2>2, <2>3, <2>4, <2>5 DEF Hosted
<1>5. ReadsSound' /\ OneOpens' /\ SourceSound'
  <2>1. HostOnly /\ UrlsKept
    BY <1>1, <1>3 DEF HostOnly, UrlsKept
  <2>2. version' >= version /\ Newest' >= Newest
    BY <1>1, <1>2, <1>3
  <2> QED
    BY <1>2, <1>4, <2>1, <2>2, HostMoves
<1>6. Types'
  BY <1>1, <1>2, <1>3 DEF Types, sourceVars
<1>7. ChargedSound'
  BY <1>1, <1>2 DEF ChargedSound, Types, Versions
<1> QED
  BY <1>4, <1>5, <1>6, <1>7
(***************************************************************************)
(* One read                                                                *)
(***************************************************************************)

Kept == UNCHANGED <<host, version, signed, etag>> /\ (Strong /\ Overtaken' => Overtaken)

\* A target stays sound while the host and the ETag do, and nothing newer is
\* delivered.
LEMMA TargetKept == ASSUME NEW target, TargetSound(target), Kept
                    PROVE  TargetSound(target)'
<1> QED
  BY DEF TargetSound, Kept, Newest, VersionAt, Shut, Strong

\* The URL as given is always a sound target.
LEMMA GivenIsSound == ASSUME IInv
                      PROVE  /\ Target(0, FALSE) \in Targets /\ Target(0, FALSE) # None
                             /\ TargetSound(Target(0, FALSE))
<1>1. Target(0, FALSE) \in Targets /\ Target(0, FALSE) # None
  <2>1. 0 \in 0 .. MaxSigned /\ FALSE \in BOOLEAN
    BY LimitsAssumption
  <2>2. Target(0, FALSE) \in Targets
    BY <2>1 DEF Target, Targets
  <2> QED
    BY <2>2, NoneAssumption
<1>2. Target(0, FALSE).loc = 0 /\ Target(0, FALSE).via = FALSE
  BY DEF Target
<1>3. 0 <= Newest /\ VersionAt(0) = version /\ version \in Int
  BY DEF IInv, Hosted, VersionAt, Types, Versions
<1>4. Strong => version >= etag /\ etag \in Int
  BY <1>3 DEF IInv, Hosted, Strong, Types, Versions
<1>5. Strong /\ Overtaken => version > etag
  <2> SUFFICES ASSUME Strong, Overtaken
               PROVE  version > etag
    OBVIOUS
  <2>1. PICK v \in delivered : v # etag
    BY DEF Overtaken
  <2>2. v >= etag /\ v <= version /\ v \in Int
    BY <2>1 DEF IInv, SourceSound, Types, Versions
  <2> QED
    BY <1>3, <1>4, <2>1, <2>2
<1> QED
  BY <1>1, <1>2, <1>3, <1>4, <1>5 DEF TargetSound

\* One reader's step: the others go on as they were, for either they have what
\* they need of the source or, before the first success, there are none.
Others(r) ==
    \/ opened /\ opened' /\ (Strong /\ Overtaken' => Overtaken)
    \/ /\ ~opened /\ ~opened' /\ resolved' = resolved /\ (Strong => delivered' = delivered)
    \/ ~opened /\ read[r] # Idle

LEMMA OneRead == ASSUME IInv, NEW r \in Readers, NEW c \in {Idle} \cup Calls,
                        read' = [read EXCEPT ![r] = c], c # Idle => CallSound(c)',
                        UNCHANGED <<host, version, signed, etag, pinned>>, Others(r),
                        c # Idle => read[r] # Idle \/ opened' \/ \A s \in Readers : read[s] = Idle
                 PROVE  ReadsSound' /\ OneOpens' /\ read' \in [Readers -> {Idle} \cup Calls]
<1> USE DEF IInv
<1>1. read \in [Readers -> {Idle} \cup Calls]
  BY DEF Types
<1>2. read' \in [Readers -> {Idle} \cup Calls] /\ read'[r] = c
      /\ \A s \in Readers : s # r => read'[s] = read[s]
  BY <1>1
<1>3. ASSUME NEW s \in Readers, s # r, read[s] # Idle
      PROVE  CallSound(read[s])'
  <2>1. CallSound(read[s]) /\ read'[s] = read[s]
    BY <1>2, <1>3 DEF ReadsSound
  <2>2. CASE opened /\ opened' /\ (Strong /\ Overtaken' => Overtaken)
    <3>1. Kept
      BY <2>2 DEF Kept
    <3>2. TargetSound(read[s].pinned)' /\ TargetSound(read[s].target)'
      BY <2>1, <3>1, TargetKept DEF CallSound
    <3>3. AnswerSound(read[s])'
      BY <2>1, <3>1 DEF CallSound, AnswerSound, Kept, VersionAt, Shut, Strong
    <3> QED
      BY <2>1, <2>2, <3>2, <3>3 DEF CallSound, Strong
  <2>3. CASE /\ ~opened /\ ~opened' /\ resolved' = resolved /\ (Strong => delivered' = delivered)
    <3>1. Kept
      BY <2>3 DEF Kept, Overtaken
    <3>2. TargetSound(read[s].pinned)' /\ TargetSound(read[s].target)'
      BY <2>1, <3>1, TargetKept DEF CallSound
    <3>3. AnswerSound(read[s])'
      BY <2>1, <3>1 DEF CallSound, AnswerSound, Kept, VersionAt, Shut, Strong
    <3> QED
      BY <2>1, <2>3, <3>2, <3>3 DEF CallSound, Strong
  <2>4. CASE ~opened /\ read[r] # Idle
    BY <1>3, <2>4 DEF OneOpens
  <2> QED
    BY <2>2, <2>3, <2>4 DEF Others
<1>4. ReadsSound'
  <2> SUFFICES ASSUME NEW s \in Readers, read'[s] # Idle
               PROVE  CallSound(read[s])'
    BY DEF ReadsSound
  <2>1. CASE s = r
    BY <1>2, <2>1
  <2>2. CASE s # r
    BY <1>2, <1>3, <2>2
  <2> QED
    BY <2>1, <2>2
<1>5. OneOpens'
  <2> SUFFICES ASSUME ~opened', NEW s \in Readers, NEW q \in Readers, read'[s] # Idle, read'[q] # Idle
               PROVE  s = q
    BY DEF OneOpens
  <2>1. ~opened
    BY DEF Others
  <2> QED
    BY <1>2, <2>1 DEF OneOpens
<1> QED
  BY <1>2, <1>4, <1>5

\* A step that changes one read and nothing else.
LEMMA OnlyRead == ASSUME IInv, NEW r \in Readers, NEW c \in {Idle} \cup Calls,
                         read' = [read EXCEPT ![r] = c], c # Idle => CallSound(c),
                         UNCHANGED <<host, version, signed, sourceVars, opened, delivered, charged>>,
                         c # Idle => read[r] # Idle \/ opened \/ \A s \in Readers : read[s] = Idle
                  PROVE  IInv'
<1>1. UNCHANGED <<resolved, resolving, pinned, etag, full>>
  BY DEF sourceVars
<1>2. Kept
  BY <1>1 DEF Kept, Overtaken
<1>3. ASSUME c # Idle
      PROVE  CallSound(c)'
  <2>1. TargetSound(c.pinned)' /\ TargetSound(c.target)'
    BY <1>2, <1>3, TargetKept DEF CallSound
  <2>2. AnswerSound(c)'
    BY <1>1, <1>2, <1>3 DEF CallSound, AnswerSound, Kept, VersionAt, Shut, Strong
  <2> QED
    BY <1>1, <1>3, <2>1, <2>2 DEF CallSound, Strong
<1>4. Others(r)
  BY <1>1, <1>2 DEF Others, Kept, Overtaken
<1>5. ReadsSound' /\ OneOpens' /\ read' \in [Readers -> {Idle} \cup Calls]
  BY <1>1, <1>3, <1>4, OneRead
<1>6. TargetSound(resolved)' /\ TargetSound(resolving)'
  BY <1>1, <1>2, TargetKept DEF IInv, SourceSound
<1>7. SourceSound'
  BY <1>1, <1>6 DEF IInv, SourceSound, Shut, Strong
<1>8. Types' /\ Hosted' /\ ChargedSound'
  BY <1>1, <1>5 DEF IInv, Types, Hosted, Newest, ChargedSound, Dead
<1> QED
  BY <1>5, <1>7, <1>8 DEF IInv
\* What a GET is answered is kept with the call; a call tried again is a call.
HeardAs(c, a, d) ==
    /\ d = [c EXCEPT !.at = "answer", !.answer = a]
    /\ d.at = "answer" /\ d.pinned = c.pinned /\ d.target = c.target /\ d.answer = a
    /\ d.ifRange = c.ifRange /\ d.again = c.again /\ d.attempt = c.attempt
LEMMA Heard == ASSUME NEW c \in Calls, NEW a \in Answers
               PROVE  \E d \in Calls : HeardAs(c, a, d)
<1> DEFINE d == [c EXCEPT !.at = "answer", !.answer = a]
<1>1. a \in Answers \cup {None}
  OBVIOUS
<1>2. d \in Calls
  BY <1>1 DEF Calls
<1>3. /\ d.at = "answer" /\ d.pinned = c.pinned /\ d.target = c.target /\ d.answer = a
      /\ d.ifRange = c.ifRange /\ d.again = c.again /\ d.attempt = c.attempt
  BY DEF Calls
<1> HIDE DEF d
<1>4. HeardAs(c, a, d)
  BY <1>3 DEF HeardAs, d
<1> QED
  BY <1>2, <1>4

RetriedAs(c, target, d) ==
    /\ d = [c EXCEPT !.at = "get", !.attempt = c.attempt + 1, !.target = target]
    /\ d.at = "get" /\ d.pinned = c.pinned /\ d.target = target
    /\ d.ifRange = c.ifRange /\ d.again = c.again
    /\ d.attempt = c.attempt + 1 /\ c.attempt \in Nat
LEMMA Retried == ASSUME NEW c \in Calls, NEW target \in Targets \cup {None}
                 PROVE  \E d \in Calls : RetriedAs(c, target, d)
<1> DEFINE d == [c EXCEPT !.at = "get", !.attempt = c.attempt + 1, !.target = target]
<1>1. c.attempt \in Nat /\ c.attempt + 1 \in Nat
  BY DEF Calls
<1>2. d \in Calls
  BY <1>1 DEF Calls
<1>3. /\ d.at = "get" /\ d.pinned = c.pinned /\ d.target = target
      /\ d.ifRange = c.ifRange /\ d.again = c.again
      /\ d.attempt = c.attempt + 1
  BY DEF Calls
<1> HIDE DEF d
<1>4. RetriedAs(c, target, d)
  BY <1>1, <1>3 DEF RetriedAs, d
<1> QED
  BY <1>2, <1>4

\* A read that fails.
LEMMA Fails == ASSUME IInv, NEW r \in Readers, read[r].at \in {"get", "answer"},
                      read' = [read EXCEPT ![r].at = "failed"],
                      UNCHANGED <<host, version, signed, sourceVars, opened, delivered, charged>>
               PROVE  IInv'
<1>1. read[r] \in Calls /\ read[r] # Idle
  BY UnderWay DEF IInv
<1>2. PICK c \in Calls : /\ read' = [read EXCEPT ![r] = c]
                         /\ c = [read[r] EXCEPT !.at = "failed"]
  BY <1>1 DEF IInv, Types, Calls
<1>3. /\ c.at = "failed" /\ c.pinned = read[r].pinned /\ c.target = read[r].target
      /\ c.ifRange = read[r].ifRange
  BY <1>1, <1>2 DEF Calls
<1>4. CallSound(c)
  BY <1>1, <1>3 DEF IInv, ReadsSound, CallSound, AnswerSound
<1> QED
  BY <1>1, <1>2, <1>4, OnlyRead
\* What a GET gets to see is what its location leads to, and never behind a
\* guard that refuses; it is told 403 for a signed URL that has expired.
LEMMA Reached == ASSUME IInv, NEW r \in Readers, read[r].at = "get"
                 PROVE  /\ read[r].target \in Targets /\ read[r].target # None
                        /\ TargetSound(read[r].target)
                        /\ Reaches(r) # None => /\ Reaches(r) = VersionAt(read[r].target.loc)
                                                /\ Reaches(r) \in Versions /\ ~Shut
                        /\ Reaches(r) = None /\ read[r].target.loc # 0 => ~signed[read[r].target.loc].live
<1> USE DEF IInv
<1> DEFINE loc == read[r].target.loc
<1>1. read[r] \in Calls /\ CallSound(read[r])
  BY UnderWay DEF ReadsSound
<1>2. read[r].target \in Targets /\ read[r].target # None /\ TargetSound(read[r].target)
  BY <1>1 DEF CallSound, Calls
<1>3. loc \in 0 .. Newest /\ Newest \in Nat
  BY <1>2, LimitsAssumption DEF TargetSound, Targets, Hosted
<1>4. CASE GetFollows(r)
  BY <1>2, <1>4 DEF GetFollows, Reaches, VersionAt, Shut, Hosted, Types
<1>5. CASE ~GetFollows(r) /\ loc = 0
  BY <1>2, <1>5 DEF Reaches, Serves, VersionAt, Shut, Types
<1>6. CASE loc # 0
  <2>1. ~GetFollows(r) /\ Reaches(r) = Serves(loc) /\ ~Shut
    BY <1>2, <1>6 DEF GetFollows, Reaches, TargetSound
  <2>2. signed[loc] \in Urls
    BY <1>3, <1>6 DEF Types, Newest
  <2>3. signed[loc].version \in Versions /\ signed[loc].version # None
    BY <2>2, NoneAssumption DEF Urls, Versions
  <2>4. Serves(loc) = IF signed[loc].live THEN signed[loc].version ELSE None
    BY <1>6 DEF Serves
  <2> QED
    BY <1>2, <1>6, <2>1, <2>3, <2>4 DEF VersionAt
<1> HIDE DEF loc
<1> QED
  BY <1>4, <1>5, <1>6 DEF loc

LEMMA IsAnswered == ASSUME IInv, NEW r \in Readers, read[r].at = "get", NEW a \in Answers,
                           Answered(r, a.status, a.version),
                           UNCHANGED <<host, version, signed, sourceVars, opened, delivered, charged>>,
                           a.status \in {200, 206} => a.version = Reaches(r) /\ a.version # None,
                           a.status = 206 => read[r].ifRange \in {None, a.version},
                           a.status = 403 => Reaches(r) = None /\ read[r].target.loc # 0
                    PROVE  IInv'
<1>1. read[r] \in Calls /\ read[r] # Idle /\ CallSound(read[r])
  BY UnderWay DEF IInv, ReadsSound
<1>6. PICK c \in Calls : HeardAs(read[r], a, c)
  BY <1>1, Heard
<1>2. /\ c = [read[r] EXCEPT !.at = "answer", !.answer = a]
      /\ c.at = "answer" /\ c.pinned = read[r].pinned /\ c.target = read[r].target /\ c.answer = a
      /\ c.ifRange = read[r].ifRange /\ c.again = read[r].again /\ c.attempt = read[r].attempt
  BY <1>6 DEF HeardAs
<1>3. AnswerSound(c)
  <2>1. a.status \in {200, 206} => /\ ~Shut /\ a.version = VersionAt(c.target.loc) /\ a.version \in Int
                                   /\ TargetSound(c.target) /\ c.target # None
    BY <1>2, Reached DEF Versions
  <2>2. a.status \in {200, 206} => /\ a.version <= VersionAt(c.target.loc) /\ (Strong => a.version >= etag)
                                   /\ Strong /\ Overtaken => a.version > etag
    BY <2>1 DEF TargetSound
  <2>3. a.status = 403 => c.target.loc # 0 /\ ~signed[c.target.loc].live
    BY <1>2, Reached
  <2>4. a.status = 206 /\ c.ifRange # None => a.version = c.ifRange
    BY <1>2
  <2> QED
    BY <1>2, <2>1, <2>2, <2>3, <2>4 DEF AnswerSound
<1>4. CallSound(c)
  BY <1>1, <1>2, <1>3 DEF CallSound
<1>5. read' = [read EXCEPT ![r] = c]
  <2>1. a = [status |-> a.status, version |-> a.version]
    BY DEF Answers
  <2>2. read' = [read EXCEPT ![r].at = "answer", ![r].answer = a] /\ r \in DOMAIN read
    BY <2>1 DEF Answered, IInv, Types
  <2> QED
    BY <1>2, <2>2
<1> QED
  BY <1>1, <1>4, <1>5, OnlyRead

LEMMA AnswerIs == ASSUME NEW status \in {200, 206, 403, 429}, NEW v \in Versions \cup {None}
                  PROVE  \E a \in Answers : a.status = status /\ a.version = v
<1>1. [status |-> status, version |-> v] \in Answers
  BY DEF Answers
<1> QED
  BY <1>1

LEMMA GetStep == ASSUME IInv, NEW r \in Readers, Get(r)
                 PROVE  IInv'
<1>1. read[r].at = "get"
      /\ UNCHANGED <<host, version, signed, sourceVars, opened, delivered, charged>>
  BY DEF Get, hostVars
<1>2. PICK v \in Versions \cup {None} : v = Reaches(r)
  BY <1>1, Reached
<1>3. CASE read' = [read EXCEPT ![r].at = "failed"]
  BY <1>1, <1>3, Fails
<1>4. CASE v = None /\ read[r].target.loc # 0 /\ Answered(r, 403, None)
  <2>1. PICK a \in Answers : a.status = 403 /\ a.version = v
    BY AnswerIs
  <2>2. Answered(r, a.status, a.version)
    BY <1>4, <2>1
  <2>3. Reaches(r) = None /\ read[r].target.loc # 0
    BY <1>2, <1>4
  <2> QED
    BY <1>1, <2>1, <2>2, <2>3, IsAnswered
<1>5. CASE v # None /\ read[r].ifRange \in {None, v} /\ Answered(r, 206, v)
  <2>1. PICK a \in Answers : a.status = 206 /\ a.version = v
    BY AnswerIs
  <2> QED
    BY <1>1, <1>2, <1>5, <2>1, IsAnswered
<1>6. CASE v # None /\ Answered(r, 200, v)
  <2>1. PICK a \in Answers : a.status = 200 /\ a.version = v
    BY AnswerIs
  <2> QED
    BY <1>1, <1>2, <1>6, <2>1, IsAnswered
<1> QED
  BY <1>2, <1>3, <1>4, <1>5, <1>6 DEF Get

LEMMA GetBusyStep == ASSUME IInv, NEW r \in Readers, GetBusy(r)
                     PROVE  IInv'
<1>1. read[r].at = "get" /\ Answered(r, 429, None)
      /\ UNCHANGED <<host, version, signed, sourceVars, opened, delivered, charged>>
  BY DEF GetBusy, hostVars
<1>2. PICK a \in Answers : a.status = 429 /\ a.version = None
  BY AnswerIs
<1>3. Answered(r, a.status, a.version)
  BY <1>1, <1>2
<1> QED
  BY <1>1, <1>2, <1>3, IsAnswered

LEMMA BackoffStep == ASSUME IInv, NEW r \in Readers, Backoff(r)
                     PROVE  IInv'
<1>1. read[r] \in Calls /\ read[r] # Idle /\ CallSound(read[r]) /\ read[r].at = "answer"
  BY UnderWay DEF Backoff, IInv, ReadsSound
<1>2. UNCHANGED <<host, version, signed, sourceVars, opened, delivered, charged>>
  BY DEF Backoff, hostVars
<1>3. PICK target \in Targets \cup {None} : target = IF resolved # None THEN resolved ELSE read[r].pinned
  BY <1>1 DEF Calls, IInv, Types
<1>4. target # None /\ TargetSound(target) /\ (~opened => target = resolved)
  BY <1>1, <1>3 DEF CallSound, IInv, SourceSound
<1>5. PICK c \in Calls : RetriedAs(read[r], target, c)
  BY <1>1, Retried
<1>6. CallSound(c)
  BY <1>1, <1>4, <1>5 DEF RetriedAs, CallSound, AnswerSound
<1>7. read' = [read EXCEPT ![r] = c]
  <2>1. /\ read' = [read EXCEPT ![r].at = "get", ![r].attempt = @ + 1, ![r].target = target]
        /\ r \in DOMAIN read
    BY <1>3 DEF Backoff, IInv, Types
  <2>2. c = [read[r] EXCEPT !.at = "get", !.attempt = read[r].attempt + 1, !.target = target]
    BY <1>5 DEF RetriedAs
  <2> QED
    BY <2>1, <2>2
<1> QED
  BY <1>1, <1>2, <1>6, <1>7, OnlyRead

LEMMA ThrowStep == ASSUME IInv, NEW r \in Readers, Throw(r)
                   PROVE  IInv'
<1>1. UNCHANGED <<host, version, signed, sourceVars, opened, delivered, charged>>
      /\ read' = [read EXCEPT ![r] = Idle]
  BY DEF Throw, hostVars
<1> QED
  BY <1>1, OnlyRead

LEMMA GiveUpStep == ASSUME IInv, NEW r \in Readers, GiveUp(r)
                    PROVE  IInv'
<1>1. UNCHANGED <<host, version, signed, sourceVars, opened, delivered, charged>>
      /\ read' = [read EXCEPT ![r].at = "failed"] /\ read[r].at \in {"get", "answer"}
  BY DEF GiveUp, hostVars
<1> QED
  BY <1>1, Fails
\* A read that begins, or begins again, joins the walk; if there is none it
\* pays for one that a URL's expiry, or nobody before it, has paid for.
LEMMA Awaits == ASSUME IInv, NEW r \in Readers, NEW c \in Calls, AwaitWith(r, c),
                       c.at = "resolve" /\ CallSound(c), resolved' = None, ~opened => read[r] # Idle \/ resolved = None,
                       UNCHANGED <<host, version, signed, pinned, etag, full, opened, delivered>>,
                       read[r] # Idle \/ opened \/ \A s \in Readers : read[s] = Idle,
                       version = 1 /\ host.guard # "refuses" /\ resolving = None => charged <= 0
                PROVE  IInv'
<1> USE DEF IInv
<1>1. Kept
  BY DEF Kept, Overtaken
<1>2. read' = [read EXCEPT ![r] = c]
  BY DEF AwaitWith
<1>3. /\ resolving' = IF resolving = None THEN Target(0, FALSE) ELSE resolving
      /\ charged' = IF resolving = None THEN charged + 1 ELSE charged
  BY DEF AwaitWith
<1>4. CallSound(c)'
  <2>1. TargetSound(c.pinned)' /\ TargetSound(c.target)'
    BY <1>1, TargetKept DEF CallSound
  <2>2. AnswerSound(c)'
    BY DEF AnswerSound
  <2> QED
    BY <2>1, <2>2 DEF CallSound, Strong
<1>5. Others(r)
  BY <1>1 DEF Others, Kept
<1>6. ReadsSound' /\ OneOpens' /\ read' \in [Readers -> {Idle} \cup Calls]
  BY <1>2, <1>4, <1>5, OneRead
<1>7. /\ resolving' \in Targets \cup {None} /\ resolving' # None /\ TargetSound(resolving)
      /\ charged \in Int /\ charged' \in Int
  <2>1. resolving \in Targets \cup {None} /\ charged \in Int /\ TargetSound(resolving)
    BY DEF Types, SourceSound
  <2>2. resolving' \in Targets \cup {None} /\ resolving' # None
    BY <1>3, <2>1, GivenIsSound
  <2>3. charged' \in Int
    BY <1>3, <2>1
  <2> QED
    BY <2>1, <2>2, <2>3
<1>8. Types'
  BY <1>6, <1>7 DEF Types
<1>9. TargetSound(resolving)'
  <2>1. PICK t : t = IF resolving = None THEN Target(0, FALSE) ELSE resolving
    OBVIOUS
  <2>2. TargetSound(t)
    BY <1>7, <2>1, GivenIsSound
  <2>3. TargetSound(t)'
    BY <1>1, <2>2, TargetKept
  <2> QED
    BY <1>3, <2>1, <2>3
<1>10. SourceSound'
  BY <1>7, <1>9 DEF SourceSound, TargetSound, Shut, Strong
<1>11. ChargedSound'
  <2>1. CASE resolving = None
    <3>1. resolving' = Target(0, FALSE) /\ Target(0, FALSE).loc = 0
      BY <1>3, <2>1 DEF Target
    <3>2. charged' = charged + 1 /\ charged \in Int
      BY <1>3, <1>7, <2>1
    <3>3. version' = 1 /\ host'.guard # "refuses" => charged' <= 1
      BY <2>1, <3>2
    <3>4. ~Dead(resolved)' /\ ~Dead(resolving)' /\ resolving' # None
      BY <1>7, <3>1 DEF Dead
    <3>5. version' = 1 /\ host'.guard # "refuses" /\ Dead(resolving)' => charged' <= 0
      BY <3>4
    <3> QED
      BY <3>3, <3>4, <3>5 DEF ChargedSound
  <2>2. CASE resolving # None
    BY <1>3, <2>2 DEF ChargedSound, Dead
  <2> QED
    BY <2>1, <2>2
<1>12. Hosted'
  BY DEF Hosted, Newest
<1> QED
  BY <1>6, <1>8, <1>10, <1>11, <1>12

\* A new call has the ETag if it may use one.
LEMMA NewCall == ASSUME IInv, NEW init \in BOOLEAN
                 PROVE  Call(init) \in Calls /\ CallSound(Call(init)) /\ Call(init).at = "resolve"
<1>1. Call(init).ifRange \in Versions \cup {None}
  BY DEF Call, IInv, Types
<1>2. Call(init) \in Calls /\ Call(init).at = "resolve"
  BY <1>1 DEF Call, Calls
<1>3. CallSound(Call(init))
  BY DEF Call, CallSound, TargetSound, AnswerSound, Strong
<1> QED
  BY <1>2, <1>3

LEMMA BeginStep == ASSUME IInv, NEW r \in Readers, Begin(r)
                   PROVE  IInv'
<1>1. /\ read[r] = Idle /\ MayBegin
      /\ UNCHANGED <<host, version, signed, resolved, pinned, etag, full, opened, delivered>>
  BY DEF Begin, hostVars
<1>2. opened \/ \A s \in Readers : read[s] = Idle
  BY <1>1 DEF MayBegin
<1>3. PICK c \in Calls : c = Call(FALSE) /\ CallSound(c) /\ c.at = "resolve"
  BY NewCall
<1>4. CASE resolved = None
  <2>1. AwaitWith(r, c)
    BY <1>3, <1>4 DEF Begin
  <2>2. version = 1 /\ host.guard # "refuses" /\ resolving = None => charged <= 0
    BY <1>4 DEF IInv, ChargedSound
  <2> QED
    BY <1>1, <1>2, <1>3, <1>4, <2>1, <2>2, Awaits
<1>5. CASE resolved # None
  <2>1. read' = [read EXCEPT ![r] = [c EXCEPT !.at = "get", !.pinned = resolved, !.target = resolved]]
        /\ UNCHANGED <<resolving, charged>>
    BY <1>3, <1>5 DEF Begin
  <2>2. PICK d \in Calls : d = [c EXCEPT !.at = "get", !.pinned = resolved, !.target = resolved]
    BY DEF IInv, Types, Calls
  <2>3. d.at = "get" /\ d.pinned = resolved /\ d.target = resolved /\ d.ifRange = c.ifRange
    BY <2>2 DEF Calls
  <2>4. CallSound(d)
    BY <1>3, <1>5, <2>3 DEF CallSound, AnswerSound, IInv, SourceSound
  <2> QED
    BY <1>1, <1>2, <2>1, <2>2, <2>4, OnlyRead DEF sourceVars
<1> QED
  BY <1>4, <1>5

LEMMA InitSourceStep == ASSUME IInv, NEW r \in Readers, InitSource(r)
                        PROVE  IInv'
<1>1. /\ read[r] = Idle /\ MayBegin /\ ~pinned
      /\ UNCHANGED <<host, version, signed, resolved, pinned, etag, full, opened, delivered>>
  BY DEF InitSource, hostVars
<1>2. opened \/ \A s \in Readers : read[s] = Idle
  BY <1>1 DEF MayBegin
<1>3. PICK c \in Calls : c = Call(TRUE) /\ CallSound(c) /\ c.at = "resolve"
  BY NewCall
<1>4. AwaitWith(r, c)
  BY <1>3 DEF InitSource
<1>5. resolved = None
  BY <1>1 DEF IInv, SourceSound
<1>6. version = 1 /\ host.guard # "refuses" /\ resolving = None => charged <= 0
  BY <1>5 DEF IInv, ChargedSound
<1> QED
  BY <1>1, <1>2, <1>3, <1>4, <1>5, <1>6, Awaits

LEMMA ExpiredStep == ASSUME IInv, NEW r \in Readers, Expired(r)
                     PROVE  IInv'
<1> DEFINE target == IF resolved = read[r].pinned THEN None ELSE resolved
<1>1. read[r] \in Calls /\ read[r] # Idle /\ CallSound(read[r]) /\ read[r].at = "answer"
  BY UnderWay DEF Expired, IInv, ReadsSound
<1>2. /\ read[r].answer.status = 403 /\ ~read[r].again /\ read[r].attempt = 0
      /\ UNCHANGED <<host, version, signed, pinned, etag, full, opened, delivered>>
      /\ resolved' = target
  BY DEF Expired, hostVars
<1>3. read[r].target = read[r].pinned /\ read[r].target # None /\ Dead(read[r].target)
  BY <1>1, <1>2 DEF CallSound, AnswerSound, Dead
<1>4. CASE target # None
  <2>1. target = resolved /\ resolved # None
    BY <1>4
  <2>2. /\ UNCHANGED <<resolving, charged>>
        /\ read' = [read EXCEPT ![r].again = TRUE, ![r].at = "get", ![r].target = resolved]
    BY <1>4 DEF Expired
  <2>3. PICK c \in Calls : /\ read' = [read EXCEPT ![r] = c]
                           /\ c = [read[r] EXCEPT !.again = TRUE, !.at = "get", !.target = resolved]
    BY <1>1, <2>2 DEF IInv, Types, Calls
  <2>4. /\ c.at = "get" /\ c.pinned = read[r].pinned /\ c.target = resolved /\ c.again = TRUE
        /\ c.ifRange = read[r].ifRange /\ c.attempt = read[r].attempt
    BY <1>1, <2>3 DEF Calls
  <2>5. CallSound(c)
    BY <1>1, <2>1, <2>4 DEF CallSound, AnswerSound, IInv, SourceSound
  <2>6. read' = [read EXCEPT ![r] = c] /\ c \in {Idle} \cup Calls
    BY <2>3
  <2>7. UNCHANGED <<host, version, signed, sourceVars, opened, delivered, charged>>
    BY <1>2, <2>1, <2>2 DEF sourceVars
  <2> QED
    BY <1>1, <2>5, <2>6, <2>7, OnlyRead
<1>5. CASE target = None
  <2>1. AwaitWith(r, [read[r] EXCEPT !.again = TRUE, !.at = "resolve"]) /\ resolved' = None
    BY <1>5 DEF Expired
  <2>2. PICK c \in Calls : c = [read[r] EXCEPT !.again = TRUE, !.at = "resolve"]
    BY <1>1 DEF Calls
  <2>3. /\ c.at = "resolve" /\ c.pinned = read[r].pinned /\ c.target = read[r].target /\ c.again = TRUE
        /\ c.ifRange = read[r].ifRange /\ c.attempt = read[r].attempt
    BY <1>1, <2>2 DEF Calls
  <2>4. CallSound(c)
    BY <1>1, <1>2, <2>3 DEF CallSound, AnswerSound
  <2>5. AwaitWith(r, c)
    BY <2>1, <2>2
  <2>6. version = 1 /\ host.guard # "refuses" /\ resolving = None => charged <= 0
    <3>1. resolved = None \/ Dead(resolved)
      BY <1>3, <1>5
    <3> QED
      BY <3>1 DEF IInv, ChargedSound
  <2> QED
    BY <1>1, <1>2, <2>1, <2>3, <2>4, <2>5, <2>6, Awaits
<1> HIDE DEF target
<1> QED
  BY <1>4, <1>5

LEMMA ReadFullStep == ASSUME IInv, NEW r \in Readers, ReadFull(r)
                      PROVE  IInv'
<1>1. /\ UNCHANGED <<host, version, signed, sourceVars, read, opened, charged>>
      /\ full \in delivered /\ delivered' = delivered
  BY DEF ReadFull, hostVars, IInv, SourceSound
<1>2. read' = [read EXCEPT ![r] = Idle]
  <2>1. read[r] = Idle /\ read \in [Readers -> {Idle} \cup Calls]
    BY DEF ReadFull, IInv, Types
  <2> QED
    BY <1>1, <2>1
<1> QED
  BY <1>1, <1>2, OnlyRead

\* What an answer says of the bytes it carries.
LEMMA Told == ASSUME IInv, NEW r \in Readers, read[r].at = "answer", read[r].answer.status \in {200, 206}
              PROVE  LET v == read[r].answer.version
                     IN  /\ v \in Versions /\ v <= version /\ ~Shut /\ pinned
                         /\ Strong => v >= etag /\ etag \in Int
                         /\ Strong /\ Overtaken => v > etag
                         /\ Strong /\ read[r].answer.status = 206 => v = etag \/ (~opened /\ delivered = {})
                         /\ ~opened => /\ resolved # None /\ resolved = read[r].target
                                       /\ VersionAt(resolved.loc) >= v /\ VersionAt(resolved.loc) \in Int
<1> USE DEF IInv
<1> DEFINE loc == read[r].target.loc
<1>1. read[r] \in Calls /\ CallSound(read[r]) /\ read[r] # Idle
  BY UnderWay DEF ReadsSound
<1>2. /\ read[r].answer \in Answers /\ ~Shut /\ read[r].answer.version # None
      /\ read[r].answer.version <= VersionAt(loc) /\ pinned
      /\ Strong => read[r].answer.version >= etag
      /\ Strong /\ Overtaken => read[r].answer.version > etag
      /\ read[r].target # None /\ (~opened => read[r].target = resolved)
      /\ read[r].target \in Targets /\ TargetSound(read[r].target)
  BY <1>1 DEF CallSound, AnswerSound, Calls
<1>3. read[r].answer.version \in Versions /\ read[r].answer.version \in Int
  BY <1>2 DEF Answers, Versions
<1>4. loc \in 0 .. Newest
  BY <1>2, LimitsAssumption DEF TargetSound, Targets, Hosted
<1>5. VersionAt(loc) \in Int /\ VersionAt(loc) <= version /\ version \in Int
  <2>1. CASE loc = 0
    BY <2>1 DEF VersionAt, Types, Versions
  <2>2. CASE loc # 0
    <3>1. signed[loc] \in Urls /\ signed[loc].version <= version
      BY <1>4, <2>2 DEF Types, Newest, Hosted
    <3> HIDE DEF loc
    <3> QED
      BY <2>2, <3>1 DEF VersionAt, Urls, Versions, Types
  <2> QED
    BY <2>1, <2>2
<1>6. Strong /\ read[r].answer.status = 206 => read[r].answer.version = etag \/ (~opened /\ delivered = {})
  BY <1>1 DEF CallSound, AnswerSound
<1>7. Strong => etag \in Int
  BY DEF Strong, Types, Versions
<1>8. read[r].answer.version <= version
  BY <1>2, <1>3, <1>5
<1>9. ~opened => /\ resolved # None /\ resolved = read[r].target
                 /\ VersionAt(resolved.loc) >= read[r].answer.version /\ VersionAt(resolved.loc) \in Int
  BY <1>2, <1>3, <1>5
<1> HIDE DEF loc
<1> QED
  BY <1>2, <1>3, <1>6, <1>7, <1>8, <1>9

\* A read returns bytes of a version: of the pinned one, or it is the first of
\* all and what it returns is newer than the probe, as is the address it used.
LEMMA Delivers == ASSUME IInv, NEW r \in Readers, read[r].at = "answer", NEW v \in Versions,
                         read' = [read EXCEPT ![r] = Idle], opened' = TRUE, delivered' = delivered \cup {v},
                         UNCHANGED <<host, version, signed, resolved, resolving, pinned, etag, charged>>,
                         full' = full \/ (full' = v /\ (Strong => v = etag)),
                         v <= version, ~Shut, pinned, Strong => v >= etag /\ etag \in Int,
                         Strong /\ Overtaken => v > etag,
                         Strong => v = etag \/ (~opened /\ delivered = {}),
                         ~opened => /\ resolved # None
                                    /\ VersionAt(resolved.loc) >= v /\ VersionAt(resolved.loc) \in Int
                  PROVE  IInv'
<1> USE DEF IInv
<1>1. read[r] # Idle
  BY UnderWay
<1>2. Strong /\ v = etag => ~Overtaken /\ delivered \subseteq {etag} /\ ~Overtaken'
  <2> SUFFICES ASSUME Strong, v = etag
               PROVE  ~Overtaken /\ delivered \subseteq {etag} /\ ~Overtaken'
    OBVIOUS
  <2>1. ~Overtaken /\ v \in Int
    BY DEF Versions
  <2> QED
    BY <2>1 DEF Overtaken
<1>3. Strong => \/ v = etag /\ ~Overtaken' /\ delivered' = {etag}
                \/ v > etag /\ ~opened /\ delivered = {} /\ delivered' = {v} /\ full = None
  <2> SUFFICES ASSUME Strong, v # etag
               PROVE  v > etag /\ ~opened /\ delivered = {} /\ delivered' = {v} /\ full = None
    BY <1>2
  <2>1. v > etag
    BY DEF Versions
  <2> QED
    BY <2>1 DEF SourceSound
<1>4. Others(r)
  BY <1>1, <1>3 DEF Others, Types
<1>5. ReadsSound' /\ OneOpens' /\ read' \in [Readers -> {Idle} \cup Calls]
  BY <1>4, OneRead
<1>6. TargetSound(resolved)' /\ TargetSound(resolving)'
  <2>1. CASE Strong => v = etag
    <3>1. Kept
      BY <1>3, <2>1 DEF Kept
    <3> QED
      BY <3>1, TargetKept DEF SourceSound
  <2>2. CASE Strong /\ v # etag
    <3>1. resolved # None /\ resolving = None /\ TargetSound(resolved)
      BY <1>3, <2>2 DEF SourceSound
    <3>2. VersionAt(resolved.loc) > etag
      BY <1>3, <2>2 DEF Versions
    <3> QED
      BY <3>1, <3>2 DEF TargetSound, VersionAt, Newest, Shut, Strong
  <2> QED
    BY <2>1, <2>2
<1>7. SourceSound'
  <2>1. /\ resolved' # None => resolving' = None
        /\ pinned' /\ ~Shut'
        /\ full' # None => full' \in delivered'
    BY DEF SourceSound, Shut
  <2>2. \A w \in delivered' : w <= version'
    BY DEF SourceSound
  <2>3. Strong' => /\ \E w \in Versions : w >= etag' /\ delivered' \subseteq {w}
                   /\ full' # None => full' = etag' /\ delivered' = {etag'}
    <3> SUFFICES ASSUME Strong
                 PROVE  /\ \E w \in Versions : w >= etag /\ delivered' \subseteq {w}
                        /\ full' # None => full' = etag /\ delivered' = {etag}
      BY DEF Strong
    <3>1. CASE v = etag
      BY <1>3, <3>1 DEF SourceSound
    <3>2. CASE v # etag
      BY <1>3, <3>2
    <3> QED
      BY <3>1, <3>2
  <2> QED
    BY <1>6, <2>1, <2>2, <2>3 DEF SourceSound
<1>8. Types'
  <2>1. delivered' \subseteq Versions /\ opened' \in BOOLEAN
    BY Zenon DEF Types
  <2>2. full' \in Versions \cup {None}
    BY DEF Types
  <2> QED
    BY <1>5, <2>1, <2>2 DEF Types
<1>9. Hosted' /\ ChargedSound'
  BY DEF Hosted, Newest, ChargedSound, Dead
<1> QED
  BY <1>5, <1>7, <1>8, <1>9

LEMMA Range206Step == ASSUME IInv, NEW r \in Readers, Range206(r)
                      PROVE  IInv'
<1>1. PICK v : v = read[r].answer.version
  OBVIOUS
<1>2. /\ read[r].at = "answer" /\ read[r].answer.status = 206
      /\ read' = [read EXCEPT ![r] = Idle] /\ opened' = TRUE /\ delivered' = delivered \cup {v}
      /\ UNCHANGED <<host, version, signed, resolved, resolving, pinned, etag, full, charged>>
  BY <1>1 DEF Range206, hostVars, sourceVars
<1>3. /\ v \in Versions /\ v <= version /\ ~Shut /\ pinned
      /\ Strong => v >= etag /\ etag \in Int
      /\ Strong /\ Overtaken => v > etag
      /\ Strong => v = etag \/ (~opened /\ delivered = {})
      /\ ~opened => /\ resolved # None
                    /\ VersionAt(resolved.loc) >= v /\ VersionAt(resolved.loc) \in Int
  BY <1>1, <1>2, Told
<1> QED
  BY <1>2, <1>3, Delivers

LEMMA Whole200Step == ASSUME IInv, NEW r \in Readers, Whole200(r)
                      PROVE  IInv'
<1>1. PICK v : v = read[r].answer.version
  OBVIOUS
<1>2. /\ read[r].at = "answer" /\ read[r].answer.status = 200
      /\ UNCHANGED <<host, version, signed, resolved, resolving, pinned, etag, charged>>
  BY DEF Whole200, hostVars
<1>3. CASE etag # None /\ v # etag
  <2>1. /\ read' = [read EXCEPT ![r].at = "failed"]
        /\ UNCHANGED <<host, version, signed, sourceVars, opened, delivered, charged>>
    BY <1>1, <1>2, <1>3 DEF Whole200, sourceVars
  <2> QED
    BY <1>2, <2>1, Fails
<1>4. CASE ~(etag # None /\ v # etag)
  <2>1. /\ read' = [read EXCEPT ![r] = Idle] /\ opened' = TRUE
        /\ full' = v /\ delivered' = delivered \cup {v}
    BY <1>1, <1>4 DEF Whole200
  <2>2. Strong => v = etag
    BY <1>4 DEF Strong
  <2>3. /\ v \in Versions /\ v <= version /\ ~Shut /\ pinned
        /\ Strong => v >= etag /\ etag \in Int
        /\ Strong /\ Overtaken => v > etag
        /\ ~opened => /\ resolved # None
                      /\ VersionAt(resolved.loc) >= v /\ VersionAt(resolved.loc) \in Int
    BY <1>1, <1>2, Told
  <2> QED
    BY <1>2, <2>1, <2>2, <2>3, Delivers
<1> QED
  BY <1>3, <1>4

(***************************************************************************)
(* The walk                                                                *)
(***************************************************************************)

\* The walk ends at a target: the one it is at, or the URL as given.  All reads
\* that await it go on with that, and an ETag is kept of the first end only.
LEMMA Resolves == ASSUME IInv, resolving # None, NEW target \in Targets, Resolve(target),
                         UNCHANGED <<host, version, signed, full, delivered, charged>>,
                         TargetSound(target), target = resolving \/ target.loc = 0, target # None,
                         \/ etag' = etag
                         \/ ~pinned /\ etag' \in Versions \cup {None}
                            /\ (etag' # None => etag' <= version /\ VersionAt(target.loc) >= etag')
                  PROVE  IInv'
<1> USE DEF IInv
<1>1. /\ opened' = (opened \/ \E r \in Readers : read[r].at = "resolve" /\ read[r].init)
      /\ resolved' = target /\ resolving' = None /\ pinned' = TRUE
      /\ \A r \in Readers : read'[r] = IF read[r].at # "resolve" THEN read[r]
                                       ELSE IF read[r].init THEN Idle
                                       ELSE [read[r] EXCEPT !.at = "get", !.target = target,
                                               !.pinned = IF read[r].pinned = None THEN target ELSE @]
      /\ DOMAIN read' = Readers /\ read' = [r \in Readers |-> read'[r]]
  BY DEF Resolve
<1>0. Idle.at # "resolve"
  BY DEF Idle
<1>2. etag' # etag => /\ ~pinned /\ etag = None /\ delivered = {} /\ ~opened /\ full = None
                      /\ etag' \in Versions /\ etag' <= version /\ VersionAt(target.loc) >= etag'
  BY DEF SourceSound
<1>3. etag' \in Versions \cup {None} /\ (Overtaken' /\ Strong' => Overtaken /\ Strong)
  <2>1. CASE etag' = etag
    BY <2>1 DEF Types, Overtaken, Strong
  <2>2. CASE etag' # etag
    BY <1>2, <2>2 DEF Overtaken
  <2> QED
    BY <2>1, <2>2
<1>4. ASSUME NEW t, t = None \/ etag' = etag, TargetSound(t)
      PROVE  TargetSound(t)'
  BY <1>3, <1>4 DEF TargetSound, Newest, VersionAt, Shut, Strong, Overtaken
<1>5. TargetSound(target)'
  <2>1. CASE etag' = etag
    BY <1>4, <2>1
  <2>2. CASE etag' # etag
    BY <1>2, <1>3, <2>2 DEF TargetSound, Newest, VersionAt, Shut, Strong, Overtaken
  <2> QED
    BY <2>1, <2>2
<1>6. opened' # opened => \A r \in Readers : read'[r] = Idle
  <2> SUFFICES ASSUME opened' # opened, NEW r \in Readers
               PROVE  read'[r] = Idle
    OBVIOUS
  <2>1. PICK s \in Readers : read[s].at = "resolve" /\ read[s].init
    BY <1>1 DEF Types
  <2>2. ~opened /\ read[s] # Idle
    BY <1>1, <2>1, UnderWay DEF Types, Idle
  <2>3. CASE r = s
    BY <1>1, <2>1, <2>3
  <2>4. CASE r # s
    <3>1. read[r] = Idle
      BY <2>2, <2>4 DEF OneOpens
    <3> QED
      BY <1>0, <1>1, <3>1
  <2> QED
    BY <2>3, <2>4
<1>7. ASSUME NEW r \in Readers, read'[r] # Idle
      PROVE  read'[r] \in Calls /\ read[r] # Idle /\ CallSound(read[r])'
  <2>1. opened' = opened
    BY <1>6, <1>7
  <2>2. read[r] # Idle
    BY <1>0, <1>1, <1>7
  <2>3. read[r] \in Calls /\ CallSound(read[r])
    BY <2>2, UnderWay DEF ReadsSound
  <2>4. etag' # etag => read[r].pinned = None /\ read[r].target = None /\ read[r].ifRange = None
    BY <1>2, <2>3 DEF CallSound
  <2>5. TargetSound(read[r].pinned) /\ TargetSound(read[r].target)
    BY <2>3 DEF CallSound
  <2>6. CASE read[r].at = "resolve"
    <3>1. PICK c \in Calls : c = [read[r] EXCEPT !.at = "get", !.target = target,
                                    !.pinned = IF read[r].pinned = None THEN target ELSE @]
      BY <2>3 DEF Calls
    <3>2. /\ c.at = "get" /\ c.target = target /\ c.ifRange = read[r].ifRange
          /\ c.again = read[r].again /\ c.attempt = read[r].attempt
          /\ c.pinned = IF read[r].pinned = None THEN target ELSE read[r].pinned
      BY <2>3, <3>1 DEF Calls
    <3>3. read'[r] = c
      BY <1>1, <1>7, <2>6, <3>1
    <3>4. PICK p : p = c.pinned
      OBVIOUS
    <3>5. TargetSound(p)' /\ p # None
      <4>1. CASE read[r].pinned = None
        BY <1>5, <3>2, <3>4, <4>1
      <4>2. CASE read[r].pinned # None
        BY <1>4, <2>4, <2>5, <3>2, <3>4, <4>2
      <4> QED
        BY <4>1, <4>2
    <3>6. ~c.again => c.pinned = c.target
      BY <2>3, <2>6, <3>2 DEF CallSound
    <3>7. c.ifRange # None => c.ifRange = etag'
      BY <2>3, <2>4, <3>2 DEF CallSound
    <3>8. Strong' /\ c.ifRange = None => ~opened' /\ delivered' = {}
      <4>1. CASE etag' = etag
        BY <2>1, <2>3, <3>2, <4>1 DEF CallSound, Strong
      <4>2. CASE etag' # etag
        BY <1>2, <2>1, <4>2
      <4> QED
        BY <4>1, <4>2
    <3>9. CallSound(c)'
      <4>1. TargetSound(c.target)' /\ TargetSound(c.pinned)'
        BY <1>5, <3>2, <3>4, <3>5
      <4>2. AnswerSound(c)'
        BY <3>2 DEF AnswerSound
      <4> QED
        BY <1>1, <3>2, <3>4, <3>5, <3>6, <3>7, <3>8, <4>1, <4>2 DEF CallSound
    <3> QED
      BY <2>2, <3>3, <3>9
  <2>7. CASE read[r].at # "resolve"
    <3>1. PICK c \in Calls : c = read[r]
      BY <2>3
    <3>2. read'[r] = c
      BY <1>1, <2>7, <3>1
    <3>3. CallSound(c) /\ c.at # "resolve" /\ (~pinned => c.at = "failed")
      BY <2>3, <2>7, <3>1 DEF CallSound, Calls
    <3>4. TargetSound(c.pinned)' /\ TargetSound(c.target)'
      BY <1>4, <2>4, <2>5, <3>1
    <3>5. AnswerSound(c)'
      <4>1. CASE etag' = etag
        BY <1>3, <3>3, <4>1 DEF CallSound, AnswerSound, Shut, VersionAt, Strong, Overtaken
      <4>2. CASE etag' # etag
        BY <1>2, <3>3, <4>2 DEF AnswerSound
      <4> QED
        BY <4>1, <4>2
    <3>6. c.at \in {"get", "answer"} => opened' /\ pinned
      <4> SUFFICES ASSUME c.at \in {"get", "answer"}
                   PROVE  opened' /\ pinned
        OBVIOUS
      <4>1. c.target # None /\ pinned /\ (~opened => c.target = resolved)
        BY <3>3 DEF CallSound
      <4>2. resolved = None
        BY DEF SourceSound
      <4> QED
        BY <1>1, <4>1, <4>2
    <3>7. c.ifRange # None => c.ifRange = etag'
      BY <2>4, <3>1, <3>3 DEF CallSound
    <3>8. Strong' /\ c.ifRange = None => ~opened' /\ delivered' = {}
      <4>1. CASE etag' = etag
        BY <2>1, <3>3, <4>1 DEF CallSound, Strong
      <4>2. CASE etag' # etag
        BY <1>2, <2>1, <4>2
      <4> QED
        BY <4>1, <4>2
    <3>9. CallSound(c)'
      BY <1>1, <3>3, <3>4, <3>5, <3>6, <3>7, <3>8 DEF CallSound
    <3> QED
      BY <2>2, <2>3, <3>1, <3>2, <3>9
  <2> QED
    BY <2>6, <2>7
<1>8. ReadsSound'
  BY <1>7 DEF ReadsSound
<1>9. OneOpens'
  <2> SUFFICES ASSUME ~opened', NEW r \in Readers, NEW s \in Readers, read'[r] # Idle, read'[s] # Idle
               PROVE  r = s
    BY DEF OneOpens
  <2>1. ~opened /\ read[r] # Idle /\ read[s] # Idle
    BY <1>1, <1>7
  <2> QED
    BY <2>1 DEF OneOpens
<1>10. SourceSound'
  <2>1. TargetSound(resolved)' /\ TargetSound(resolving)'
    BY <1>1, <1>5 DEF TargetSound
  <2>2. Strong' => /\ \E v \in Versions : v >= etag' /\ delivered' \subseteq {v}
                   /\ full' # None => full' = etag' /\ delivered' = {etag'}
    <3>1. CASE etag' = etag
      BY <3>1 DEF SourceSound, Strong
    <3>2. CASE etag' # etag
      <4>1. etag' >= etag' /\ delivered' \subseteq {etag'} /\ etag' \in Versions /\ full' = None
        BY <1>2, <3>2 DEF Versions
      <4> QED
        BY <4>1
    <3> QED
      BY <3>1, <3>2
  <2>3. /\ Shut' => delivered' = {}
        /\ full' # None => full' \in delivered'
        /\ \A v \in delivered' : v <= version'
    BY DEF SourceSound, Shut
  <2> QED
    BY <1>1, <2>1, <2>2, <2>3 DEF SourceSound
<1>11. Types'
  <2>1. read' \in [Readers -> {Idle} \cup Calls]
    BY <1>1, <1>7
  <2>2. opened' \in BOOLEAN /\ pinned' \in BOOLEAN
    BY <1>1, Zenon DEF Types
  <2>3. resolved' \in Targets \cup {None} /\ resolving' \in Targets \cup {None}
    BY <1>1
  <2> QED
    BY <1>3, <2>1, <2>2, <2>3 DEF Types
<1>12. Hosted'
  BY <1>2 DEF Hosted, Newest
<1>13. ChargedSound'
  <2>1. resolved' # None /\ (Dead(resolved)' => Dead(resolving)) /\ ~Dead(resolving)'
    BY <1>1 DEF Dead
  <2> QED
    BY <2>1 DEF ChargedSound
<1> QED
  BY <1>8, <1>9, <1>10, <1>11, <1>12, <1>13

\* Nobody goes on from a walk that was refused: all who await it fail.
LEMMA Rejects == ASSUME IInv, resolving # None, RejectResolve,
                        UNCHANGED <<host, version, signed, full, delivered, charged>>,
                        version # 1 \/ host.guard = "refuses"
                 PROVE  IInv'
<1> USE DEF IInv
<1>1. /\ UNCHANGED <<resolved, pinned, etag, opened>> /\ resolving' = None
      /\ \A r \in Readers : read'[r] = IF read[r].at # "resolve" THEN read[r]
                                       ELSE [read[r] EXCEPT !.at = "failed"]
      /\ DOMAIN read' = Readers /\ read' = [r \in Readers |-> read'[r]]
  BY DEF RejectResolve
<1>2. Idle.at # "resolve"
  BY DEF Idle
<1>3. Kept
  BY <1>1 DEF Kept, Overtaken
<1>4. ASSUME NEW r \in Readers, read'[r] # Idle
      PROVE  read'[r] \in Calls /\ read[r] # Idle /\ CallSound(read[r])'
  <2>1. read[r] # Idle
    BY <1>1, <1>2, <1>4
  <2>2. read[r] \in Calls /\ CallSound(read[r])
    BY <2>1, UnderWay DEF ReadsSound
  <2>3. PICK c \in Calls : /\ c = IF read[r].at # "resolve" THEN read[r] ELSE [read[r] EXCEPT !.at = "failed"]
                           /\ CallSound(c)
    <3>1. CASE read[r].at # "resolve"
      BY <2>2, <3>1
    <3>2. CASE read[r].at = "resolve"
      <4>1. PICK c \in Calls : c = [read[r] EXCEPT !.at = "failed"]
        BY <2>2 DEF Calls
      <4>2. /\ c.at = "failed" /\ c.pinned = read[r].pinned /\ c.target = read[r].target
            /\ c.ifRange = read[r].ifRange
        BY <2>2, <4>1 DEF Calls
      <4>3. CallSound(c)
        BY <2>2, <4>2 DEF CallSound, AnswerSound
      <4> QED
        BY <3>2, <4>1, <4>3
    <3> QED
      BY <3>1, <3>2
  <2>4. read'[r] = c
    BY <1>1, <2>3
  <2>5. TargetSound(c.pinned)' /\ TargetSound(c.target)'
    BY <1>3, <2>3, TargetKept DEF CallSound
  <2>6. AnswerSound(c)'
    BY <1>1, <1>3, <2>3 DEF CallSound, AnswerSound, Kept, VersionAt, Shut, Strong
  <2>7. CallSound(c)'
    BY <1>1, <2>3, <2>5, <2>6 DEF CallSound, Strong
  <2> QED
    BY <2>1, <2>4, <2>7
<1>5. ReadsSound' /\ OneOpens'
  BY <1>1, <1>4 DEF ReadsSound, OneOpens
<1>6. SourceSound'
  <2>1. TargetSound(resolved)' /\ TargetSound(resolving)'
    BY <1>1, <1>3, TargetKept DEF SourceSound, TargetSound
  <2> QED
    BY <1>1, <2>1 DEF SourceSound, Shut, Strong
<1>7. Types'
  <2>1. read' \in [Readers -> {Idle} \cup Calls]
    BY <1>1, <1>4
  <2> QED
    BY <1>1, <2>1 DEF Types
<1>8. Hosted' /\ ChargedSound'
  BY <1>1 DEF Hosted, Newest, ChargedSound
<1> QED
  BY <1>5, <1>6, <1>7, <1>8

LEMMA GivesUp == ASSUME IInv, resolving # None, Resolve(Target(0, FALSE)),
                        UNCHANGED <<host, version, signed, etag, full, delivered, charged>>
                 PROVE  IInv'
<1>1. PICK target \in Targets : target = Target(0, FALSE)
  BY GivenIsSound
<1>2. target # None /\ TargetSound(target) /\ target.loc = 0
  BY <1>1, GivenIsSound DEF Target
<1> QED
  BY <1>1, <1>2, Resolves

LEMMA FollowHopStep == ASSUME IInv, FollowHop
                       PROVE  IInv'
<1>1. resolving # None /\ resolving.loc = 0 /\ host.front = "signed"
      /\ UNCHANGED <<host, version, signed, full, delivered, charged>>
  BY DEF FollowHop, hostVars
<1>2. CASE host.guard = "refuses"
  <2>1. RejectResolve
    BY <1>2 DEF FollowHop
  <2> QED
    BY <1>1, <1>2, <2>1, Rejects
<1>3. CASE host.guard # "refuses"
  <2>1. UNCHANGED <<resolved, pinned, etag, read, opened>> /\ resolving' = Target(Newest, TRUE)
    BY <1>3 DEF FollowHop
  <2>2. PICK t : t = Target(Newest, TRUE)
    OBVIOUS
  <2>3. t.loc = Newest /\ t.via = TRUE /\ t \in Targets /\ t # None
    <3>1. Newest \in 0 .. MaxSigned
      BY LimitsAssumption DEF IInv, Hosted
    <3>2. t \in Targets
      BY <2>2, <3>1 DEF Target, Targets
    <3> QED
      BY <2>2, <3>2, NoneAssumption DEF Target
  <2>4. Newest # 0 /\ Newest <= Newest /\ VersionAt(Newest) = VersionAt(0)
    BY DEF IInv, Hosted, VersionAt
  <2>5. TargetSound(t)
    <3>1. TargetSound(Target(0, FALSE)) /\ Target(0, FALSE) # None /\ Target(0, FALSE).loc = 0
      BY GivenIsSound DEF Target
    <3>2. ~Shut
      BY <1>3 DEF Shut
    <3>3. /\ Strong => VersionAt(0) >= etag
          /\ Strong /\ Overtaken => VersionAt(0) > etag
      BY <3>1 DEF TargetSound
    <3> QED
      BY <2>3, <2>4, <3>2, <3>3 DEF TargetSound
  <2>6. Kept
    BY <1>1, <2>1 DEF Kept, Overtaken
  <2>7. TargetSound(t)'
    BY <2>5, <2>6, TargetKept
  <2>8. TargetSound(resolved)' /\ TargetSound(resolving)'
    <3>1. TargetSound(resolved)'
      BY <2>1, <2>6, TargetKept DEF IInv, SourceSound
    <3> QED
      BY <2>1, <2>2, <2>7, <3>1
  <2>9. resolved = None
    BY <1>1 DEF IInv, SourceSound
  <2>10. SourceSound'
    BY <1>1, <2>1, <2>8, <2>9 DEF IInv, SourceSound, Shut, Strong
  <2>11. ReadsSound' /\ OneOpens'
    <3>1. ASSUME NEW r \in Readers, read[r] # Idle
          PROVE  CallSound(read[r])'
      <4>1. PICK c : c = read[r]
        OBVIOUS
      <4>2. CallSound(c)
        BY <3>1, <4>1 DEF IInv, ReadsSound
      <4>3. TargetSound(c.pinned)' /\ TargetSound(c.target)'
        BY <2>6, <4>2, TargetKept DEF CallSound
      <4>4. AnswerSound(c)'
        BY <1>1, <2>1, <2>6, <4>2 DEF CallSound, AnswerSound, Kept, VersionAt, Shut, Strong
      <4>5. CallSound(c)'
        BY <1>1, <2>1, <4>2, <4>3, <4>4 DEF CallSound, Strong
      <4> QED
        BY <2>1, <4>1, <4>5
    <3> QED
      BY <2>1, <3>1 DEF IInv, ReadsSound, OneOpens
  <2>12. Types' /\ Hosted'
    BY <1>1, <2>1, <2>2, <2>3 DEF IInv, Types, Hosted, Newest
  <2>13. ChargedSound'
    <3>1. ~Dead(resolved)' /\ ~Dead(resolving)' /\ resolving' # None
      BY <1>1, <2>1, <2>2, <2>3, <2>9 DEF Dead, IInv, Hosted
    <3> QED
      BY <1>1, <3>1 DEF IInv, ChargedSound
  <2> QED
    BY <2>10, <2>11, <2>12, <2>13 DEF IInv
<1> QED
  BY <1>2, <1>3

LEMMA OpaqueHopStep == ASSUME IInv, OpaqueHop
                       PROVE  IInv'
  BY GivesUp DEF OpaqueHop, hostVars

LEMMA ProbeThrowsStep == ASSUME IInv, ProbeThrows
                         PROVE  IInv'
  BY GivesUp DEF ProbeThrows, hostVars

LEMMA ProbeNotOkStep == ASSUME IInv, ProbeNotOk
                        PROVE  IInv'
<1>1. /\ resolving # None /\ Resolve(resolving)
      /\ UNCHANGED <<host, version, signed, etag, full, delivered, charged>>
  BY DEF ProbeNotOk, AtEnd, hostVars
<1>2. PICK target \in Targets : target = resolving
  BY <1>1 DEF IInv, Types
<1>3. target # None /\ TargetSound(target)
  BY <1>1, <1>2 DEF IInv, SourceSound
<1> QED
  BY <1>1, <1>2, <1>3, Resolves

LEMMA ProbeOkStep == ASSUME IInv, ProbeOk
                     PROVE  IInv'
<1>1. PICK v : v = Serves(resolving.loc)
  OBVIOUS
<1>2. /\ resolving # None /\ v # None
      /\ UNCHANGED <<host, version, signed, full, delivered, charged>>
  BY <1>1 DEF ProbeOk, AtEnd, hostVars
<1>3. PICK target \in Targets : target = resolving
  BY <1>2 DEF IInv, Types
<1>4. target # None /\ TargetSound(target)
  BY <1>2, <1>3 DEF IInv, SourceSound
<1>5. v \in Versions /\ v <= version /\ VersionAt(target.loc) = v /\ v \in Int
  <2>1. CASE target.loc = 0
    BY <1>1, <1>3, <2>1 DEF Serves, VersionAt, IInv, Types, Versions
  <2>2. CASE target.loc # 0
    <3>1. target.loc \in 1 .. Newest
      BY <1>4, <2>2, LimitsAssumption DEF TargetSound, Targets, IInv, Hosted
    <3>2. signed[target.loc] \in Urls /\ signed[target.loc].version <= version
      BY <3>1 DEF IInv, Types, Newest, Hosted
    <3>3. v = signed[target.loc].version
      BY <1>1, <1>2, <1>3, <2>2 DEF Serves
    <3> QED
      BY <2>2, <3>2, <3>3 DEF VersionAt, Urls, Versions
  <2> QED
    BY <2>1, <2>2
<1>6. CASE RejectResolve /\ pinned /\ etag # None /\ v # etag
  <2>1. etag \in Versions /\ etag <= version /\ v <= version /\ version \in Int
    BY <1>5, <1>6 DEF IInv, Types, Hosted, Versions
  <2>2. version # 1
    BY <1>5, <1>6, <2>1 DEF Versions
  <2> QED
    BY <1>2, <1>6, <2>2, Rejects
<1>7. CASE Resolve(resolving) /\ etag' = etag
  BY <1>2, <1>3, <1>4, <1>7, Resolves
<1>8. CASE Resolve(resolving) /\ ~pinned /\ etag' = IF host.etag # "none" THEN v ELSE None
  <2>1. etag' \in Versions \cup {None} /\ (etag' # None => etag' <= version /\ VersionAt(target.loc) >= etag')
    BY <1>5, <1>8
  <2> QED
    BY <1>2, <1>3, <1>4, <1>8, <2>1, Resolves
<1>9. \/ RejectResolve /\ pinned /\ etag # None /\ v # etag
      \/ Resolve(resolving) /\ etag' = etag
      \/ Resolve(resolving) /\ ~pinned /\ etag' = IF host.etag # "none" THEN v ELSE None
  BY <1>1 DEF ProbeOk
<1> QED
  BY <1>6, <1>7, <1>8, <1>9

(***************************************************************************)
(* The theorems                                                            *)
(***************************************************************************)

\* Every step keeps the invariant.
LEMMA StepKeeps == ASSUME IInv, [Next]_vars
                   PROVE  IInv'
<1>1. CASE \E t \in DOMAIN signed : Expire(t)
  BY <1>1, ExpireStep
<1>2. CASE Replace
  BY <1>2, ReplaceStep
<1>3. CASE WalkStep
  BY <1>3, FollowHopStep, OpaqueHopStep, ProbeOkStep, ProbeNotOkStep, ProbeThrowsStep DEF WalkStep
<1>4. CASE \E r \in Readers : Begin(r) \/ InitSource(r) \/ ReadFull(r) \/ ReadStep(r)
  BY <1>4, BeginStep, InitSourceStep, ReadFullStep, GetStep, GetBusyStep, ExpiredStep, BackoffStep,
     GiveUpStep, Range206Step, Whole200Step, ThrowStep DEF ReadStep
<1>5. CASE UNCHANGED vars
  <2>1. UNCHANGED <<host, version, signed, resolved, resolving, pinned, etag, full, read, opened, delivered, charged>>
    BY <1>5 DEF vars, hostVars, sourceVars
  <2> QED
    BY <2>1 DEF IInv, Types, Hosted, Newest, ReadsSound, CallSound, AnswerSound, TargetSound, VersionAt, Strong,
       Shut, Overtaken, OneOpens, SourceSound, ChargedSound, Dead
<1> QED
  BY <1>1, <1>2, <1>3, <1>4, <1>5 DEF Next

\* For any number of readers, hosts, signed URLs, uploads and faults: what the
\* source has pinned and its reads hold is never older than what the first
\* probe found, and what was charged is accounted for.
THEOREM SourceInvariant == Spec => []IInv
<1>1. Init => IInv
  BY Starts
<1>2. IInv /\ [Next]_vars => IInv'
  BY StepKeeps
<1> QED
  BY <1>1, <1>2, PTL DEF Spec

\* "reads fail with ARTIFACT_CHANGED rather than mixing bytes from two
\* artifacts", on a host with strong ETags once the first probe was answered.
THEOREM PinnedBytes == Spec => []PinnedBytesOnly
<1>1. IInv => PinnedBytesOnly
  <2> SUFFICES ASSUME IInv, etag # None, host.etag = "strong"
               PROVE  Cardinality(delivered) <= 1
    BY DEF PinnedBytesOnly
  <2>1. PICK v \in Versions : delivered \subseteq {v}
    BY DEF IInv, SourceSound, Strong
  <2>2. CASE delivered = {}
    BY <2>2, FS_EmptySet
  <2>3. CASE delivered = {v}
    BY <2>3, FS_Singleton
  <2> QED
    BY <2>1, <2>2, <2>3
<1> QED
  BY <1>1, SourceInvariant, PTL

\* The front door is charged once, and once more per URL that expired, however
\* many reads there are; and no read returns bytes from behind a guard that
\* refuses.
THEOREM AddressIsSound == Spec => []AddressSound
<1>1. IInv => TypeOK
  <2> SUFFICES ASSUME IInv
               PROVE  TypeOK
    OBVIOUS
  <2>1. ASSUME NEW r \in Readers
        PROVE  /\ read[r].at \in {"idle", "resolve", "get", "answer", "failed"}
               /\ read[r].at \in {"get", "answer"} => read[r].target \in Targets
    <3>1. CASE read[r] = Idle
      BY <3>1 DEF Idle
    <3>2. CASE read[r] \in Calls
      <4>1. read[r] # Idle
        BY <3>2, UnderWay DEF IInv
      <4>2. CallSound(read[r])
        BY <4>1 DEF IInv, ReadsSound
      <4> QED
        BY <3>2, <4>2 DEF CallSound, Calls
    <3> QED
      BY <3>1, <3>2, UnderWay DEF IInv
  <2> QED
    BY <2>1 DEF TypeOK, IInv, Types, Versions, Urls
<1>2. IInv => FrontDoorCharged
  BY DEF IInv, ChargedSound, FrontDoorCharged
<1>3. IInv => GuardHolds
  BY DEF IInv, SourceSound, Shut, GuardHolds
<1>4. IInv => AddressSound
  BY <1>1, <1>2, <1>3 DEF AddressSound
<1> QED
  BY <1>4, SourceInvariant, PTL
=============================================================================
