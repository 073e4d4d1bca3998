-------------------------- MODULE BlobCacheProofs --------------------------
(***************************************************************************)
(* The log of the blob cache, for any number of processes, keys, lookups   *)
(* and faults, and generations of any size: nobody gets a wrong byte, and  *)
(* old generations are removed.                                            *)
(***************************************************************************)
EXTENDS BlobCache, FiniteSetTheorems, SequenceTheorems, WellFoundedInduction, NaturalsInduction, TLAPS

(***************************************************************************)
(* Maxima of sets of naturals.                                             *)
(***************************************************************************)
LEMMA LeastOf ==
  ASSUME NEW S \in SUBSET Nat, S # {}
  PROVE  Min(S) \in S /\ \A x \in S : Min(S) <= x
<1> DEFINE less == OpToRel(<, Nat)
<1>1. IsWellFoundedOn(less, Nat)
  BY NatLessThanWellFounded
<1>2. PICK m \in S : \A n \in S : <<n, m>> \notin less
  <2> HIDE DEF less
  <2> QED
    BY <1>1, WFMin
<1>3. \A n \in S : ~(n < m)
  BY <1>2 DEF OpToRel
<1>4. \A n \in S : m <= n
  BY <1>3
<1> QED
  BY <1>4 DEF Min

LEMMA GreatestOf ==
  ASSUME NEW b \in Nat, NEW S \in SUBSET (0 .. b), S # {}
  PROVE  Max(S) \in S /\ \A x \in S : x <= Max(S)
<1> DEFINE Above == {n \in Nat : \A x \in S : x <= n}
<1>1. b \in Above /\ Above \in SUBSET Nat /\ Above # {}
  OBVIOUS
<1>2. PICK m : m \in Above /\ \A n \in Above : m <= n
  <2> HIDE DEF Above
  <2> QED
    BY <1>1, LeastOf
<1>3. m \in S
  <2>1. SUFFICES ASSUME m \notin S PROVE FALSE
    OBVIOUS
  <2>2. PICK x \in S : TRUE
    OBVIOUS
  <2>3. m \in Nat /\ x \in Nat /\ x < m
    BY <1>2, <2>1
  <2>4. \A y \in S : y <= m - 1
    BY <1>2, <2>1, <2>3
  <2>5. m - 1 \in Above
    BY <2>3, <2>4
  <2> QED
    BY <1>2, <2>3, <2>5
<1>4. \A x \in S : x <= m /\ x \in Int
  BY <1>2
<1> QED
  BY <1>3, <1>4 DEF Max

LEMMA NewestOf ==
  ASSUME NEW b \in Nat, NEW gens \in SUBSET (0 .. b)
  PROVE  /\ Newest(gens) \in Nat /\ Newest(gens) \in gens \cup {0}
         /\ \A g \in gens : g <= Newest(gens)
<1>1. gens \cup {0} \in SUBSET (0 .. b) /\ gens \cup {0} # {}
  OBVIOUS
<1>2. Max(gens \cup {0}) \in gens \cup {0} /\ \A x \in gens \cup {0} : x <= Max(gens \cup {0})
  BY <1>1, GreatestOf
<1>3. \A g \in gens : g <= Newest(gens)
  BY <1>2 DEF Newest
<1>4. Newest(gens) \in gens \cup {0}
  BY <1>2 DEF Newest
<1>5. \A x \in gens \cup {0} : x \in Nat
  OBVIOUS
<1> QED
  BY <1>3, <1>4, <1>5

LEMMA ParsedIs ==
  ASSUME NEW cells \in Seq(Cells)
  PROVE  Parsed(cells) \in 0 .. Len(cells)
<1> DEFINE Parses(n) == \A i \in 1 .. n : i % 2 = 1 => cells[i][2] = "header"
           S == {n \in 0 .. Len(cells) : n % 2 = 0 /\ Parses(n)}
<1>1. Len(cells) \in Nat /\ S \in SUBSET (0 .. Len(cells))
  OBVIOUS
<1>2. 0 \in S
  BY <1>1
<1>3. Parsed(cells) = Max(S)
  BY DEF Parsed
<1> HIDE DEF S
<1> QED
  BY <1>1, <1>2, <1>3, GreatestOf

(***************************************************************************)
(* The inductive invariant.                                                *)
(***************************************************************************)
Pairs == Keys \X Cells
Gens == Nat \ {0}
EntryType == [gen : Gens, at : Gens, file : Nat \cup {None}]

FlushType ==
    [phase : {"start", "off", "on"}]
    \cup [phase : {"scan"}, todo : SUBSET Gens]
    \cup [phase : {"rotate", "create", "list", "open"}, batch : Seq(Pairs)]
    \cup [phase : {"prune"}, batch : Seq(Pairs), todo : SUBSET Gens]
    \cup [phase : {"write", "verify", "rescan"}, batch : Seq(Pairs), file : Nat]

LookType ==
    [phase : {"idle"}] \cup [phase : {"miss"}, key : Keys]
    \cup [phase : {"open"}, key : Keys, entry : EntryType]
    \cup [phase : {"read"}, key : Keys, entry : EntryType, file : Nat]
    \cup [phase : {"check"}, key : Keys, data : Cells, entry : EntryType]
    \cup [phase : {"hit"}, key : Keys, data : Cells]

Typed ==
    /\ index \in [Procs -> [Keys -> EntryType \cup {None}]]
    /\ DOMAIN handles = Procs
    /\ current \in [Procs -> Nat]
    /\ sealed \in [Procs -> BOOLEAN]
    /\ queue \in [Procs -> Seq(Pairs)]
    /\ flush \in [Procs -> FlushType]
    /\ look \in [Procs -> LookType]
    /\ torn \in [Procs -> SUBSET Nat]
    /\ looked \in 0 .. MaxLookups
    /\ faults \in 0 .. MaxFaults

\* A file has one name at most, and a new one is a file of its own.
Named ==
    /\ files \in Seq(Seq(Cells))
    /\ \E b \in Nat : DOMAIN names \subseteq 1 .. b
    /\ \A g \in DOMAIN names : names[g] \in DOMAIN files
    /\ \A g, h \in DOMAIN names : names[g] = names[h] => g = h

\* What a process knows of files is of files there have been.
FilesThere(p) ==
    /\ flush[p].phase \in {"write", "verify", "rescan"} => flush[p].file \in DOMAIN files
    /\ look[p].phase = "read" => look[p].file \in DOMAIN files
    /\ \A g \in DOMAIN handles[p] : handles[p][g] \in DOMAIN files
    /\ torn[p] \subseteq DOMAIN files

\* An entry read back is where the index says.
EntryRight(p, k) ==
    index[p][k] # None /\ index[p][k].file # None =>
        /\ index[p][k].file \in DOMAIN files
        /\ index[p][k].at - 1 \in 1 .. Len(files[index[p][k].file])
        /\ files[index[p][k].file][index[p][k].at - 1] = Head1(k)

HitRight(p) == look[p].phase = "hit" => look[p].data = Body(look[p].key)

\* A file that was found torn has a name before the one written to, unless the
\* process will rotate before it writes.
Fresh(p) == flush[p].phase \in {"create", "list", "prune", "open"}
Past(p, g) ==
    \/ g < current[p]
    \/ g = current[p] /\ sealed[p] /\ ~Fresh(p) /\ (flush[p].phase = "scan" => flush[p].todo = {})
TornBehind(p) == \A g \in DOMAIN names : names[g] \in torn[p] => Past(p, g)

\* Where the flush of a process is, against the generations there are.
InPlace(p) ==
    /\ flush[p].phase = "start" => torn[p] = {}
    /\ flush[p].phase = "scan" => /\ \A g \in flush[p].todo : g <= current[p]
                                  /\ flush[p].todo # {} => current[p] \in flush[p].todo
    /\ flush[p].phase \in {"open", "write", "verify", "rescan"} => ~sealed[p]
    /\ Fresh(p) \/ flush[p].phase \in {"write", "verify", "rescan"} => current[p] # 0
    /\ flush[p].phase \in {"list", "prune", "open"} => current[p] <= Newest(DOMAIN names)
    /\ flush[p].phase = "prune" => \A g \in flush[p].todo : g <= current[p] - Generations
    /\ flush[p].phase \in {"write", "verify"} => flush[p].file \notin torn[p]

ProcSound(p) ==
    FilesThere(p) /\ (\A k \in Keys : EntryRight(p, k)) /\ HitRight(p) /\ TornBehind(p) /\ InPlace(p)

\* The newest generation's maker is about to remove an older one, which
\* otherwise is a newer file.
Removes(q, g) ==
    /\ current[q] = Newest(DOMAIN names)
    /\ flush[q].phase = "list" \/ (flush[q].phase = "prune" /\ g \in flush[q].todo)
OldGo ==
    faults = 0 => \A g \in DOMAIN names : g <= Newest(DOMAIN names) - Generations =>
        names[g] > names[Newest(DOMAIN names)] \/ \E q \in Procs : Removes(q, g)

LogInv == Typed /\ Named /\ (\A p \in Procs : ProcSound(p)) /\ OldGo

-----------------------------------------------------------------------------
(***************************************************************************)
(* What a step of one process leaves to the others.                        *)
(***************************************************************************)

\* Files grow at their ends, and in number.
Grown ==
    /\ DOMAIN files \subseteq DOMAIN files'
    /\ \A f \in DOMAIN files :
        /\ Len(files[f]) \in Nat /\ Len(files'[f]) \in Nat /\ Len(files[f]) <= Len(files'[f])
        /\ \A i \in 1 .. Len(files[f]) : files'[f][i] = files[f][i]

\* Names go, or are given to new files, and the newest generation stays.
Renamed ==
    /\ \A g \in DOMAIN names' : (g \in DOMAIN names /\ names'[g] = names[g]) \/ names'[g] \notin DOMAIN files
    /\ Newest(DOMAIN names) \in Nat /\ Newest(DOMAIN names') \in Nat
    /\ Newest(DOMAIN names) <= Newest(DOMAIN names')

Same(q) ==
    /\ index'[q] = index[q] /\ handles'[q] = handles[q] /\ current'[q] = current[q]
    /\ sealed'[q] = sealed[q] /\ flush'[q] = flush[q] /\ look'[q] = look[q] /\ torn'[q] = torn[q]

LEMMA NewestIs ==
  ASSUME Named
  PROVE  /\ Newest(DOMAIN names) \in Nat /\ \A g \in DOMAIN names : g \in Gens /\ g <= Newest(DOMAIN names)
         /\ DOMAIN names # {} => Newest(DOMAIN names) \in DOMAIN names
         /\ DOMAIN names = {} => Newest(DOMAIN names) = 0
<1>1. PICK b \in Nat : DOMAIN names \subseteq 1 .. b
  BY DEF Named
<1>2. \A g \in DOMAIN names : g \in Gens
  BY <1>1 DEF Gens
<1>3. DOMAIN names \in SUBSET (0 .. b)
  BY <1>1
<1>4. /\ Newest(DOMAIN names) \in Nat /\ Newest(DOMAIN names) \in DOMAIN names \cup {0}
      /\ \A g \in DOMAIN names : g <= Newest(DOMAIN names)
  BY <1>3, NewestOf
<1>5. ASSUME NEW g \in DOMAIN names PROVE Newest(DOMAIN names) \in DOMAIN names
  <2>1. Newest(DOMAIN names) # 0
    BY <1>2, <1>4 DEF Gens
  <2> QED
    BY <1>4, <2>1
<1> QED
  BY <1>2, <1>4, <1>5

LEMMA EntryStays ==
  ASSUME Grown, NEW q, NEW k, EntryRight(q, k), index'[q][k] = index[q][k]
  PROVE  EntryRight(q, k)'
BY DEF EntryRight, Grown

LEMMA OthersStay ==
  ASSUME LogInv, Grown, Renamed, NEW q \in Procs, Same(q)
  PROVE  ProcSound(q)'
<1>1. /\ FilesThere(q) /\ (\A k \in Keys : EntryRight(q, k)) /\ HitRight(q) /\ TornBehind(q) /\ InPlace(q)
      /\ current[q] \in Nat
  BY DEF LogInv, ProcSound, Typed
<1>2. FilesThere(q)'
  BY <1>1 DEF FilesThere, Grown, Same
<1>3. \A k \in Keys : EntryRight(q, k)'
  BY <1>1, EntryStays DEF Same
<1>4. HitRight(q)'
  BY <1>1 DEF HitRight, Same
<1>5. TornBehind(q)'
  <2> SUFFICES ASSUME NEW g \in DOMAIN names', names'[g] \in torn'[q] PROVE Past(q, g)'
    BY DEF TornBehind
  <2>1. names'[g] \in DOMAIN files
    BY <1>1 DEF FilesThere, Same
  <2>2. g \in DOMAIN names /\ names[g] \in torn[q]
    BY <2>1 DEF Renamed, Same
  <2>3. Past(q, g)
    BY <1>1, <2>2 DEF TornBehind
  <2> QED
    BY <2>3 DEF Past, Fresh, Same
<1>6. InPlace(q)'
  <2>1. current[q] <= Newest(DOMAIN names) => current[q] <= Newest(DOMAIN names')
    BY <1>1 DEF Renamed
  <2> QED
    BY <1>1, <2>1 DEF InPlace, Fresh, Same
<1> QED
  BY <1>2, <1>3, <1>4, <1>5, <1>6 DEF ProcSound

LEMMA FilesStay ==
  ASSUME LogInv, UNCHANGED <<files, names>>
  PROVE  Grown /\ Renamed /\ Named'
<1>1. \A f \in DOMAIN files : Len(files[f]) \in Nat
  BY DEF LogInv, Named
<1>2. Newest(DOMAIN names) \in Nat
  BY NewestIs DEF LogInv
<1> QED
  BY <1>1, <1>2 DEF Grown, Renamed, LogInv, Named

\* Names at most go, and the process still removes what it was about to.
LEMMA StillGo ==
  ASSUME LogInv, NEW p \in Procs, \A q \in Procs \ {p} : Same(q), faults' # 0 \/ faults' = faults,
         \A g \in DOMAIN names' : g \in DOMAIN names /\ names'[g] = names[g],
         Newest(DOMAIN names') = Newest(DOMAIN names),
         names'[Newest(DOMAIN names)] = names[Newest(DOMAIN names)],
         faults' = 0 => \A g \in DOMAIN names' :
             g <= Newest(DOMAIN names) - Generations /\ Removes(p, g) => Removes(p, g)'
  PROVE  OldGo'
<1> SUFFICES ASSUME faults' = 0, NEW g \in DOMAIN names', g <= Newest(DOMAIN names') - Generations,
                    ~(names'[g] > names'[Newest(DOMAIN names')])
             PROVE  \E q \in Procs : Removes(q, g)'
  BY DEF OldGo
<1>1. PICK q \in Procs : Removes(q, g)
  BY DEF LogInv, OldGo
<1>2. CASE q = p
  BY <1>1, <1>2
<1>3. CASE q # p
  BY <1>1, <1>3 DEF Removes, Same
<1> QED
  BY <1>2, <1>3

LEMMA StepOf ==
  ASSUME LogInv, NEW p \in Procs, Typed', Named', Grown, Renamed, \A q \in Procs \ {p} : Same(q),
         ProcSound(p)', OldGo'
  PROVE  LogInv'
<1>1. \A q \in Procs \ {p} : ProcSound(q)'
  BY OthersStay
<1> QED
  BY <1>1 DEF LogInv

-----------------------------------------------------------------------------
(***************************************************************************)
(* Reading.                                                                *)
(***************************************************************************)

\* A step that writes nothing, and learns of no entry.
LEMMA ReadingStep ==
  ASSUME LogInv, NEW p \in Procs, Typed', UNCHANGED <<files, names, current, sealed, torn, faults>>,
         \A q \in Procs \ {p} : Same(q),
         \A k \in Keys : index'[p][k] \in {index[p][k], None},
         flush'[p] = flush[p] \/ (flush[p].phase \in {"scan", "on", "off"} /\ flush'[p].phase \in {"on", "off"}
                                  /\ (flush[p].phase = "scan" => flush[p].todo = {})),
         look'[p].phase = "read" => look'[p].file \in DOMAIN files,
         \A g \in DOMAIN handles'[p] : handles'[p][g] \in DOMAIN files,
         HitRight(p)'
  PROVE  LogInv'
<1>1. Grown /\ Renamed /\ Named'
  BY FilesStay
<1>2. FilesThere(p) /\ (\A k \in Keys : EntryRight(p, k)) /\ TornBehind(p) /\ InPlace(p)
  BY DEF LogInv, ProcSound
<1>3. FilesThere(p)'
  BY <1>2 DEF FilesThere
<1>4. ASSUME NEW k \in Keys PROVE EntryRight(p, k)'
  <2>1. CASE index'[p][k] = None
    BY <2>1 DEF EntryRight
  <2>2. CASE index'[p][k] = index[p][k]
    BY <1>1, <1>2, <2>2, EntryStays
  <2> QED
    BY <2>1, <2>2
<1>5. TornBehind(p)'
  BY <1>2 DEF TornBehind, Past, Fresh
<1>6. InPlace(p)'
  BY <1>2 DEF InPlace, Fresh
<1>7. ProcSound(p)'
  BY <1>3, <1>4, <1>5, <1>6 DEF ProcSound
<1>8. OldGo'
  <2>1. \A g \in DOMAIN names : Removes(p, g) => Removes(p, g)'
    BY DEF Removes
  <2> QED
    BY <2>1, StillGo
<1> QED
  BY <1>1, <1>7, <1>8, StepOf

\* The parts of an index, a flush and a lookup.
LEMMA ShapesOf ==
  ASSUME Typed, NEW p \in Procs
  PROVE  /\ index[p] \in [Keys -> EntryType \cup {None}] /\ flush[p] \in FlushType /\ look[p] \in LookType
         /\ queue[p] \in Seq(Pairs) /\ current[p] \in Nat /\ sealed[p] \in BOOLEAN /\ torn[p] \in SUBSET Nat
         /\ flush[p].phase = "scan" => flush[p].todo \in SUBSET Gens
         /\ flush[p].phase \in {"rotate", "create", "list", "open", "prune", "write", "verify", "rescan"} =>
              flush[p].batch \in Seq(Pairs)
         /\ flush[p].phase = "prune" => flush[p].todo \in SUBSET Gens
         /\ flush[p].phase \in {"write", "verify", "rescan"} => flush[p].file \in Nat
         /\ look[p].phase \notin {"idle"} => look[p].key \in Keys
         /\ look[p].phase \in {"open", "read", "check"} => look[p].entry \in EntryType
         /\ look[p].phase = "read" => look[p].file \in Nat
         /\ look[p].phase \in {"check", "hit"} => look[p].data \in Cells
<1>1. /\ index[p] \in [Keys -> EntryType \cup {None}] /\ flush[p] \in FlushType /\ look[p] \in LookType
      /\ queue[p] \in Seq(Pairs) /\ current[p] \in Nat /\ sealed[p] \in BOOLEAN /\ torn[p] \in SUBSET Nat
  BY DEF Typed
<1>2. /\ flush[p].phase = "scan" => flush[p].todo \in SUBSET Gens
      /\ flush[p].phase \in {"rotate", "create", "list", "open", "prune", "write", "verify", "rescan"} =>
           flush[p].batch \in Seq(Pairs)
      /\ flush[p].phase = "prune" => flush[p].todo \in SUBSET Gens
      /\ flush[p].phase \in {"write", "verify", "rescan"} => flush[p].file \in Nat
  BY <1>1 DEF FlushType
<1>3. /\ look[p].phase \notin {"idle"} => look[p].key \in Keys
      /\ look[p].phase \in {"open", "read", "check"} => look[p].entry \in EntryType
      /\ look[p].phase = "read" => look[p].file \in Nat
      /\ look[p].phase \in {"check", "hit"} => look[p].data \in Cells
  BY <1>1 DEF LookType
<1> QED
  BY <1>1, <1>2, <1>3

LEMMA EnqueuedTyped ==
  ASSUME Typed, NEW p \in Procs, NEW k \in Keys, NEW data \in Cells
  PROVE  Enqueued(p, k, data) \in Seq(Pairs) /\ Flushing(p) \in FlushType
<1>1. queue[p] \in Seq(Pairs) /\ flush[p] \in FlushType /\ <<k, data>> \in Pairs
  BY ShapesOf DEF Pairs
<1>2. [phase |-> "on"] \in FlushType
  BY DEF FlushType
<1> QED
  BY <1>1, <1>2 DEF Enqueued, Flushing

LEMMA ForgottenTyped ==
  ASSUME NEW entries0 \in [Keys -> EntryType \cup {None}], NEW g
  PROVE  /\ Forgotten(entries0, g) \in [Keys -> EntryType \cup {None}]
         /\ \A k \in Keys : Forgotten(entries0, g)[k] \in {entries0[k], None}
BY DEF Forgotten

LEMMA LookupStep == ASSUME LogInv, NEW p \in Procs, NEW k \in Keys, Lookup(p, k) PROVE LogInv'
<1>1. /\ UNCHANGED <<files, names, index, handles, current, sealed, queue, flush, torn, faults>>
      /\ Typed /\ DOMAIN look = Procs /\ look \in [Procs -> LookType] /\ looked' \in 0 .. MaxLookups
      /\ index[p][k] \in EntryType \cup {None}
      /\ \A g \in DOMAIN handles[p] : handles[p][g] \in DOMAIN files
  BY BoundsAssumption DEF Lookup, memory, LogInv, Typed, ProcSound, FilesThere
<1>2. PICK new : look' = [look EXCEPT ![p] = new] /\
        \/ new = Miss(k)
        \/ /\ index[p][k] # None /\ index[p][k].gen \in DOMAIN handles[p]
           /\ new = [phase |-> "read", key |-> k, entry |-> index[p][k], file |-> handles[p][index[p][k].gen]]
        \/ /\ index[p][k] # None
           /\ new = [phase |-> "open", key |-> k, entry |-> index[p][k]]
  BY DEF Lookup, Looking
<1>3. DOMAIN files \subseteq Nat
  BY DEF LogInv, Named
<1>4. /\ new \in LookType /\ new.phase # "hit"
      /\ new.phase = "read" => new.file \in DOMAIN files
  <2>1. CASE new = Miss(k)
    BY <2>1 DEF Miss, LookType
  <2>2. CASE /\ index[p][k] # None /\ index[p][k].gen \in DOMAIN handles[p]
             /\ new = [phase |-> "read", key |-> k, entry |-> index[p][k], file |-> handles[p][index[p][k].gen]]
    <3>1. index[p][k] \in EntryType /\ handles[p][index[p][k].gen] \in DOMAIN files
      BY <1>1, <2>2
    <3> QED
      BY <1>3, <2>2, <3>1 DEF LookType
  <2>3. CASE index[p][k] # None /\ new = [phase |-> "open", key |-> k, entry |-> index[p][k]]
    <3>1. index[p][k] \in EntryType
      BY <1>1, <2>3
    <3> QED
      BY <2>3, <3>1 DEF LookType
  <2> QED
    BY <1>2, <2>1, <2>2, <2>3
<1>5. look'[p] = new /\ \A q \in Procs \ {p} : look'[q] = look[q]
  BY <1>1, <1>2
<1>6. Typed'
  BY <1>1, <1>2, <1>4 DEF Typed
<1>7. HitRight(p)'
  BY <1>4, <1>5 DEF HitRight
<1> QED
  BY <1>1, <1>4, <1>5, <1>6, <1>7, ReadingStep DEF Same

\* A lookup goes on, and at most forgets an entry.
LEMMA LookingStep ==
  ASSUME LogInv, NEW p \in Procs, NEW new \in LookType, look' = [look EXCEPT ![p] = new],
         NEW i \in [Keys -> EntryType \cup {None}], \A k \in Keys : i[k] \in {index[p][k], None},
         index' = index \/ index' = [index EXCEPT ![p] = i],
         UNCHANGED <<files, names, current, sealed, queue, flush, torn, looked, faults>>,
         DOMAIN handles' = Procs, \A q \in Procs \ {p} : handles'[q] = handles[q],
         \A g \in DOMAIN handles'[p] : handles'[p][g] \in DOMAIN files,
         new.phase = "read" => new.file \in DOMAIN files,
         new.phase = "hit" => new.data = Body(new.key)
  PROVE  LogInv'
<1>1. Typed
  BY DEF LogInv
<1>2. Typed'
  BY <1>1 DEF Typed
<1>3. /\ look'[p] = new /\ \A q \in Procs \ {p} : look'[q] = look[q] /\ index'[q] = index[q]
      /\ \A k \in Keys : index'[p][k] \in {index[p][k], None}
  BY <1>1 DEF Typed
<1>4. HitRight(p)'
  BY <1>3 DEF HitRight
<1> QED
  BY <1>2, <1>3, <1>4, ReadingStep DEF Same

LEMMA OpenStep == ASSUME LogInv, NEW p \in Procs, OpenGen(p) PROVE LogInv'
<1>1. PICK k, g : k = look[p].key /\ g = look[p].entry.gen
  OBVIOUS
<1>2. /\ UNCHANGED <<files, names, current, sealed, queue, flush, torn, looked, faults>>
      /\ Typed /\ DOMAIN handles = Procs /\ look[p].phase = "open"
      /\ k \in Keys /\ look[p].entry \in EntryType /\ index[p] \in [Keys -> EntryType \cup {None}]
      /\ \A h \in DOMAIN handles[p] : handles[p][h] \in DOMAIN files
      /\ \A h \in DOMAIN names : names[h] \in DOMAIN files
      /\ DOMAIN files \subseteq Nat
  BY <1>1, ShapesOf DEF OpenGen, LogInv, Typed, ProcSound, FilesThere, Named
<1>3. CASE g \in DOMAIN names
  <2>1. PICK new : /\ look' = [look EXCEPT ![p] = new]
                   /\ new = [phase |-> "read", key |-> k, entry |-> look[p].entry, file |-> names[g]]
    BY <1>1, <1>3 DEF OpenGen
  <2>2. new \in LookType /\ new.phase = "read" /\ new.file \in DOMAIN files
    BY <1>2, <1>3, <2>1 DEF LookType
  <2>3. handles' = [handles EXCEPT ![p] = With(@, g, names[g])] /\ index' = index
    BY <1>1, <1>3 DEF OpenGen
  <2>4. \A h \in DOMAIN handles'[p] : handles'[p][h] \in DOMAIN files
    BY <1>2, <1>3, <2>3 DEF With
  <2>5. DOMAIN handles' = Procs /\ \A q \in Procs \ {p} : handles'[q] = handles[q]
    BY <1>2, <2>3
  <2>6. index' = index /\ (\A l \in Keys : index[p][l] \in {index[p][l], None}) /\ new.phase # "hit"
    BY <2>2, <2>3
  <2> QED
    BY <1>2, <2>1, <2>2, <2>4, <2>5, <2>6, LookingStep
<1>4. CASE g \notin DOMAIN names
  <2>1. /\ look' = [look EXCEPT ![p] = Miss(k)] /\ handles' = [handles EXCEPT ![p] = Without(@, g)]
        /\ index' = [index EXCEPT ![p] = Forgotten(@, g)]
    BY <1>1, <1>4 DEF OpenGen
  <2>2. PICK i : i = Forgotten(index[p], g) /\ index' = [index EXCEPT ![p] = i]
    BY <2>1
  <2>3. i \in [Keys -> EntryType \cup {None}] /\ \A l \in Keys : i[l] \in {index[p][l], None}
    BY <1>2, <2>2, ForgottenTyped
  <2>4. \A h \in DOMAIN handles'[p] : handles'[p][h] \in DOMAIN files
    BY <1>2, <2>1 DEF Without
  <2>5. DOMAIN handles' = Procs /\ \A q \in Procs \ {p} : handles'[q] = handles[q]
    BY <1>2, <2>1
  <2>6. Miss(k) \in LookType /\ Miss(k).phase = "miss"
    BY <1>2 DEF Miss, LookType
  <2> QED
    BY <1>2, <2>1, <2>2, <2>3, <2>4, <2>5, <2>6, LookingStep
<1> QED
  BY <1>3, <1>4

LEMMA ReadStep == ASSUME LogInv, NEW p \in Procs, ReadEntry(p) PROVE LogInv'
<1>1. PICK k, entry, cells : k = look[p].key /\ entry = look[p].entry /\ cells = files[look[p].file]
  OBVIOUS
<1>2. /\ UNCHANGED <<files, names, handles, current, sealed, torn, looked, faults>>
      /\ Typed /\ DOMAIN handles = Procs /\ look[p].phase = "read"
      /\ k \in Keys /\ entry \in EntryType /\ index[p] \in [Keys -> EntryType \cup {None}]
      /\ \A h \in DOMAIN handles[p] : handles[p][h] \in DOMAIN files
      /\ look[p].file \in DOMAIN files /\ files \in Seq(Seq(Cells))
  BY <1>1, ShapesOf DEF ReadEntry, LogInv, Typed, ProcSound, FilesThere, Named
<1>5. cells \in Seq(Cells)
  BY <1>1, <1>2
<1>3. CASE entry.at <= Len(cells)
  <2>1. cells[entry.at] \in Cells
    <3>1. entry.at \in 1 .. Len(cells)
      BY <1>2, <1>3, <1>5 DEF EntryType, Gens
    <3> QED
      BY <1>5, <3>1
  <2>2. PICK new : /\ look' = [look EXCEPT ![p] = new]
                   /\ new = [phase |-> "check", key |-> k, data |-> cells[entry.at], entry |-> entry]
    BY <1>1, <1>3 DEF ReadEntry
  <2>3. new \in LookType /\ new.phase = "check"
    BY <1>2, <2>1, <2>2 DEF LookType
  <2>4. index' = index
    BY <1>1, <1>3 DEF ReadEntry
  <2>5. PICK added, going :
          /\ added \in Seq(Pairs) /\ going \in FlushType
          /\ going = flush[p] \/ (flush[p].phase = "off" /\ going.phase = "on")
          /\ \/ queue' = [queue EXCEPT ![p] = added] /\ flush' = [flush EXCEPT ![p] = going]
             \/ UNCHANGED <<queue, flush>>
    <3>1. CASE entry.gen # current[p]
      <4>1. queue' = [queue EXCEPT ![p] = Enqueued(p, k, cells[entry.at])] /\ flush' = [flush EXCEPT ![p] = Flushing(p)]
        BY <1>1, <1>3, <3>1 DEF ReadEntry
      <4>2. Enqueued(p, k, cells[entry.at]) \in Seq(Pairs) /\ Flushing(p) \in FlushType
        BY <1>2, <2>1, EnqueuedTyped
      <4>3. Flushing(p) = flush[p] \/ (flush[p].phase = "off" /\ Flushing(p).phase = "on")
        BY DEF Flushing, Off
      <4> QED
        BY <4>1, <4>2, <4>3
    <3>2. CASE entry.gen = current[p]
      <4>1. UNCHANGED <<queue, flush>>
        BY <1>1, <1>3, <3>2 DEF ReadEntry
      <4> QED
        BY <1>2, <4>1, ShapesOf
    <3> QED
      BY <3>1, <3>2
  <2>6. Typed'
    BY <1>2, <2>2, <2>3, <2>4, <2>5 DEF Typed
  <2>7. /\ look'[p] = new /\ \A q \in Procs \ {p} : look'[q] = look[q] /\ flush'[q] = flush[q]
        /\ flush'[p] = flush[p] \/ (flush[p].phase = "off" /\ flush'[p].phase = "on")
    BY <1>2, <2>2, <2>5 DEF Typed
  <2>8. HitRight(p)'
    BY <2>3, <2>7 DEF HitRight
  <2> QED
    BY <1>2, <2>3, <2>4, <2>6, <2>7, <2>8, ReadingStep DEF Same
<1>4. CASE ~(entry.at <= Len(cells))
  <2>1. /\ look' = [look EXCEPT ![p] = Miss(k)] /\ index' = [index EXCEPT ![p][k] = None]
        /\ UNCHANGED <<queue, flush>>
    BY <1>1, <1>4 DEF ReadEntry
  <2>2. PICK i : i = [index[p] EXCEPT ![k] = None] /\ index' = [index EXCEPT ![p] = i]
    BY <2>1
  <2>3. i \in [Keys -> EntryType \cup {None}] /\ \A l \in Keys : i[l] \in {index[p][l], None}
    BY <1>2, <2>2
  <2>4. Miss(k) \in LookType /\ Miss(k).phase = "miss"
    BY <1>2 DEF Miss, LookType
  <2> QED
    BY <1>2, <2>1, <2>2, <2>3, <2>4, LookingStep
<1> QED
  BY <1>3, <1>4

LEMMA ReadFailsStep == ASSUME LogInv, NEW p \in Procs, ReadFails(p) PROVE LogInv'
<1>1. /\ UNCHANGED <<files, names, index, handles, current, sealed, queue, flush, torn, looked, faults>>
      /\ DOMAIN handles = Procs /\ look[p].key \in Keys /\ index[p] \in [Keys -> EntryType \cup {None}]
      /\ \A h \in DOMAIN handles[p] : handles[p][h] \in DOMAIN files
      /\ look' = [look EXCEPT ![p] = Miss(look[p].key)]
  BY ShapesOf DEF ReadFails, memory, LogInv, Typed, ProcSound, FilesThere
<1>2. Miss(look[p].key) \in LookType /\ Miss(look[p].key).phase = "miss"
  BY <1>1 DEF Miss, LookType
<1> QED
  BY <1>1, <1>2, LookingStep

LEMMA CheckStep == ASSUME LogInv, NEW p \in Procs, CheckHash(p) PROVE LogInv'
<1>1. PICK k : k = look[p].key
  OBVIOUS
<1>2. /\ UNCHANGED <<files, names, handles, current, sealed, queue, flush, torn, looked, faults>>
      /\ DOMAIN handles = Procs /\ k \in Keys /\ index[p] \in [Keys -> EntryType \cup {None}]
      /\ \A h \in DOMAIN handles[p] : handles[p][h] \in DOMAIN files
  BY <1>1, ShapesOf DEF CheckHash, LogInv, Typed, ProcSound, FilesThere
<1>3. CASE look' = [look EXCEPT ![p] = [phase |-> "hit", key |-> k, data |-> Body(k)]] /\ index' = index
  <2>1. PICK new : new = [phase |-> "hit", key |-> k, data |-> Body(k)] /\ look' = [look EXCEPT ![p] = new]
    BY <1>3
  <2>2. new \in LookType /\ new.phase = "hit" /\ new.data = Body(new.key)
    <3>1. Body(k) \in Cells
      BY <1>2 DEF Body, Cells
    <3> QED
      BY <1>2, <2>1, <3>1 DEF LookType
  <2> QED
    BY <1>2, <1>3, <2>1, <2>2, LookingStep
<1>4. CASE look' = [look EXCEPT ![p] = Miss(k)] /\ index' = [index EXCEPT ![p][k] = None]
  <2>1. PICK i : i = [index[p] EXCEPT ![k] = None] /\ index' = [index EXCEPT ![p] = i]
    BY <1>4
  <2>2. i \in [Keys -> EntryType \cup {None}] /\ \A l \in Keys : i[l] \in {index[p][l], None}
    BY <1>2, <2>1
  <2>3. Miss(k) \in LookType /\ Miss(k).phase = "miss"
    BY <1>2 DEF Miss, LookType
  <2> QED
    BY <1>2, <1>4, <2>1, <2>2, <2>3, LookingStep
<1> QED
  BY <1>1, <1>3, <1>4 DEF CheckHash

LEMMA UseStep == ASSUME LogInv, NEW p \in Procs, Use(p) PROVE LogInv'
<1>1. /\ UNCHANGED <<files, names, index, handles, current, sealed, queue, flush, torn, looked, faults>>
      /\ DOMAIN handles = Procs /\ index[p] \in [Keys -> EntryType \cup {None}]
      /\ \A h \in DOMAIN handles[p] : handles[p][h] \in DOMAIN files
      /\ look' = [look EXCEPT ![p] = Idle]
  BY ShapesOf DEF Use, Looking, memory, LogInv, Typed, ProcSound, FilesThere
<1>2. Idle \in LookType /\ Idle.phase = "idle"
  BY DEF Idle, LookType
<1> QED
  BY <1>1, <1>2, LookingStep

LEMMA RefetchStep == ASSUME LogInv, NEW p \in Procs, Refetch(p) PROVE LogInv'
<1>1. PICK k : k = look[p].key
  OBVIOUS
<1>2. /\ UNCHANGED <<files, names, index, handles, current, sealed, torn, looked, faults>>
      /\ Typed /\ k \in Keys /\ Body(k) \in Cells /\ look' = [look EXCEPT ![p] = Idle]
      /\ queue' = [queue EXCEPT ![p] = Enqueued(p, k, Body(k))]
      /\ \A h \in DOMAIN handles[p] : handles[p][h] \in DOMAIN files
  BY <1>1, ShapesOf DEF Refetch, LogInv, ProcSound, FilesThere, Body, Cells
<1>3. PICK going : /\ flush' = [flush EXCEPT ![p] = going] /\ going \in FlushType
                   /\ going = flush[p] \/ (flush[p].phase = "off" /\ going.phase = "on")
  <2>1. Flushing(p) \in FlushType /\ flush[p] \in FlushType
    BY <1>2, EnqueuedTyped, ShapesOf
  <2>2. Flushing(p) = flush[p] \/ (flush[p].phase = "off" /\ Flushing(p).phase = "on")
    BY DEF Flushing, Off
  <2> QED
    BY <2>1, <2>2 DEF Refetch
<1>4. Enqueued(p, k, Body(k)) \in Seq(Pairs) /\ Idle \in LookType /\ Idle.phase = "idle"
  BY <1>2, EnqueuedTyped DEF Idle, LookType
<1>5. Typed'
  BY <1>2, <1>3, <1>4 DEF Typed
<1>6. /\ look'[p] = Idle /\ \A q \in Procs \ {p} : look'[q] = look[q] /\ flush'[q] = flush[q]
      /\ flush'[p] = flush[p] \/ (flush[p].phase = "off" /\ flush'[p].phase = "on")
  BY <1>2, <1>3 DEF Typed
<1>7. HitRight(p)'
  BY <1>4, <1>6 DEF HitRight
<1> QED
  BY <1>2, <1>4, <1>5, <1>6, <1>7, ReadingStep DEF Same

\* Flushing and starting up are over.
LEMMA OffStep == ASSUME LogInv, NEW p \in Procs, Drained(p) \/ Ready(p) PROVE LogInv'
<1>1. /\ UNCHANGED <<files, names, index, handles, current, sealed, queue, look, looked, faults, torn>>
      /\ Typed /\ flush' = [flush EXCEPT ![p] = Off]
      /\ flush[p].phase \in {"scan", "on"} /\ (flush[p].phase = "scan" => flush[p].todo = {})
      /\ FilesThere(p) /\ HitRight(p)
  BY DEF Drained, Ready, Goto, LogInv, ProcSound
<1>2. Off \in FlushType /\ Off.phase = "off"
  BY DEF Off, FlushType
<1>3. Typed'
  BY <1>1, <1>2 DEF Typed
<1>4. flush'[p] = Off /\ \A q \in Procs \ {p} : flush'[q] = flush[q]
  BY <1>1 DEF Typed
<1>5. HitRight(p)'
  BY <1>1 DEF HitRight
<1> QED
  BY <1>1, <1>2, <1>3, <1>4, <1>5, ReadingStep DEF Same, FilesThere

-----------------------------------------------------------------------------
(***************************************************************************)
(* Starting, and writing without a change of the files.                    *)
(***************************************************************************)
LEMMA ScannedTyped ==
  ASSUME NEW entries0 \in [Keys -> EntryType \cup {None}], NEW g \in Gens, NEW cells \in Seq(Cells)
  PROVE  /\ Scanned(entries0, g, cells) \in [Keys -> EntryType \cup {None}]
         /\ \A k \in Keys : \/ Scanned(entries0, g, cells)[k] = entries0[k]
                            \/ Scanned(entries0, g, cells)[k].file = None
<1>1. PICK new : new = Scanned(entries0, g, cells)
  OBVIOUS
<1>2. Parsed(cells) \in Nat
  BY ParsedIs
<1>3. ASSUME NEW k \in Keys
      PROVE  new[k] \in EntryType \cup {None} /\ (new[k] = entries0[k] \/ new[k].file = None)
  <2>1. PICK at : at = {i \in 1 .. Parsed(cells) : i % 2 = 1 /\ cells[i] = Head1(k)}
    OBVIOUS
  <2>2. new[k] = IF at = {} THEN entries0[k] ELSE [gen |-> g, at |-> Max(at) + 1, file |-> None]
    BY <1>1, <2>1 DEF Scanned
  <2>3. CASE at = {}
    BY <2>2, <2>3
  <2>4. CASE at # {}
    <3>1. at \in SUBSET (0 .. Parsed(cells))
      BY <1>2, <2>1
    <3>2. Max(at) \in at
      BY <1>2, <2>4, <3>1, GreatestOf
    <3>3. PICK m : m = Max(at)
      OBVIOUS
    <3>5. m \in 0 .. Parsed(cells)
      BY <3>1, <3>2, <3>3
    <3>6. m \in Nat /\ m + 1 \in Gens
      BY <1>2, <3>5 DEF Gens
    <3>4. Max(at) + 1 \in Gens
      BY <3>3, <3>6
    <3> QED
      BY <2>2, <2>4, <3>4 DEF EntryType
  <2> QED
    BY <2>3, <2>4
<1>4. new = [k \in Keys |-> new[k]]
  BY <1>1 DEF Scanned
<1>5. new \in [Keys -> EntryType \cup {None}]
  BY <1>3, <1>4
<1> QED
  BY <1>1, <1>3, <1>5

LEMMA ScannedRight ==
  ASSUME LogInv, NEW p \in Procs, NEW k \in Keys, files' = files,
         index'[p][k] = index[p][k] \/ index'[p][k].file = None
  PROVE  EntryRight(p, k)'
<1>1. EntryRight(p, k)
  BY DEF LogInv, ProcSound
<1> QED
  BY <1>1 DEF EntryRight

LEMMA ScanStep == ASSUME LogInv, NEW p \in Procs, ScanGen(p) PROVE LogInv'
<1>1. /\ flush[p].phase = "scan" /\ flush[p].todo # {} /\ flush[p].todo \in SUBSET Gens
      /\ UNCHANGED <<files, names, handles, current, queue, look, looked, faults>>
      /\ Typed /\ Named /\ current[p] \in Nat
  BY ShapesOf DEF ScanGen, LogInv
<1>2. PICK g : g = Min(flush[p].todo)
  OBVIOUS
<1>3. g \in flush[p].todo /\ (\A h \in flush[p].todo : g <= h) /\ g \in Gens
  BY <1>1, <1>2, LeastOf DEF Gens
<1>4. /\ FilesThere(p) /\ HitRight(p) /\ TornBehind(p)
      /\ \A h \in flush[p].todo : h <= current[p]
      /\ current[p] \in flush[p].todo
  BY <1>1 DEF LogInv, ProcSound, InPlace
<1>5. PICK whole \in BOOLEAN :
        /\ index' = [index EXCEPT ![p] = IF g \in DOMAIN names THEN Scanned(@, g, files[names[g]]) ELSE @]
        /\ sealed' = [sealed EXCEPT ![p] = ~whole]
        /\ torn' = [torn EXCEPT ![p] = IF whole THEN @ ELSE @ \cup {names[g]}]
        /\ ~whole => g \in DOMAIN names
        /\ flush' = [flush EXCEPT ![p].todo = @ \ {g}]
  BY <1>2 DEF ScanGen
<1>6. PICK i : /\ i \in [Keys -> EntryType \cup {None}] /\ index' = [index EXCEPT ![p] = i]
               /\ \A k \in Keys : i[k] = index[p][k] \/ i[k].file = None
  <2>1. index[p] \in [Keys -> EntryType \cup {None}]
    BY <1>1 DEF Typed
  <2>2. CASE g \in DOMAIN names
    <3>1. PICK cells : cells = files[names[g]]
      OBVIOUS
    <3>2. cells \in Seq(Cells)
      BY <1>1, <2>2, <3>1 DEF Named
    <3>3. PICK i : i = Scanned(index[p], g, cells)
      OBVIOUS
    <3>4. i \in [Keys -> EntryType \cup {None}] /\ \A k \in Keys : i[k] = index[p][k] \/ i[k].file = None
      BY <1>3, <2>1, <3>2, <3>3, ScannedTyped
    <3>5. index' = [index EXCEPT ![p] = i]
      BY <1>5, <2>2, <3>1, <3>3
    <3> QED
      BY <3>4, <3>5
  <2>3. CASE g \notin DOMAIN names
    BY <1>5, <2>1, <2>3
  <2> QED
    BY <2>2, <2>3
<1>7. PICK tears : /\ tears \in SUBSET Nat /\ torn' = [torn EXCEPT ![p] = tears]
                   /\ tears = torn[p] \/ (~whole /\ g \in DOMAIN names /\ tears = torn[p] \cup {names[g]})
                   /\ tears \subseteq DOMAIN files
  <2>1. torn[p] \in SUBSET Nat /\ DOMAIN files \subseteq Nat /\ torn[p] \subseteq DOMAIN files
    BY <1>1, <1>4 DEF Typed, Named, FilesThere
  <2>2. \A h \in DOMAIN names : names[h] \in DOMAIN files
    BY <1>1 DEF Named
  <2>3. CASE whole
    BY <1>5, <2>1, <2>3
  <2>4. CASE ~whole
    BY <1>5, <2>1, <2>2, <2>4
  <2> QED
    BY <2>3, <2>4
<1>8. PICK going : /\ flush' = [flush EXCEPT ![p] = going] /\ going \in FlushType
                   /\ going.phase = "scan" /\ going.todo = flush[p].todo \ {g}
  <2>1. flush[p] = [phase |-> "scan", todo |-> flush[p].todo]
    BY <1>1 DEF Typed, FlushType
  <2>2. PICK going : going = [flush[p] EXCEPT !.todo = @ \ {g}] /\ flush' = [flush EXCEPT ![p] = going]
    BY <1>5
  <2>3. going = [phase |-> "scan", todo |-> flush[p].todo \ {g}]
    BY <2>1, <2>2
  <2>4. going \in FlushType
    BY <1>1, <2>3 DEF FlushType
  <2> QED
    BY <2>2, <2>3, <2>4
<1>18. PICK seal \in BOOLEAN : seal = ~whole
  OBVIOUS
<1>9. Typed'
  <2>1. sealed' \in [Procs -> BOOLEAN]
    BY <1>1, <1>5, <1>18 DEF Typed
  <2>2. index' \in [Procs -> [Keys -> EntryType \cup {None}]]
    BY <1>1, <1>6 DEF Typed
  <2>3. torn' \in [Procs -> SUBSET Nat] /\ flush' \in [Procs -> FlushType]
    BY <1>1, <1>7, <1>8 DEF Typed
  <2> QED
    BY <1>1, <2>1, <2>2, <2>3 DEF Typed
<1>10. /\ index'[p] = i /\ sealed'[p] = ~whole /\ torn'[p] = tears /\ flush'[p] = going
       /\ \A q \in Procs \ {p} : Same(q)
  BY <1>1, <1>5, <1>6, <1>7, <1>8 DEF Typed, Same
<1>11. Grown /\ Renamed /\ Named'
  BY <1>1, FilesStay
<1>12. FilesThere(p)'
  BY <1>1, <1>4, <1>7, <1>8, <1>10 DEF FilesThere
<1>13. \A k \in Keys : EntryRight(p, k)'
  BY <1>1, <1>6, <1>10, ScannedRight
<1>14. HitRight(p)'
  BY <1>1, <1>4 DEF HitRight
<1>15. TornBehind(p)'
  <2> SUFFICES ASSUME NEW h \in DOMAIN names, names[h] \in tears PROVE Past(p, h)'
    BY <1>1, <1>10 DEF TornBehind
  <2>1. h \in Gens
    BY <1>1, NewestIs
  <2>2. CASE names[h] \in torn[p]
    <3>1. h < current[p]
      BY <1>1, <1>4, <2>2 DEF TornBehind, Past
    <3> QED
      BY <1>1, <3>1 DEF Past
  <2>3. CASE names[h] \notin torn[p]
    <3>1. h = g /\ ~whole
      BY <1>1, <1>7, <2>3 DEF Named
    <3>2. CASE g < current[p]
      BY <1>1, <3>1, <3>2 DEF Past
    <3>3. CASE ~(g < current[p])
      <4>1. g = current[p]
        BY <1>1, <1>3, <1>4, <2>1, <3>1, <3>3 DEF Gens
      <4>2. \A x \in flush[p].todo : x = g
        <5>1. \A x \in flush[p].todo : x \in Nat /\ x <= g /\ g <= x
          BY <1>1, <1>3, <1>4, <4>1 DEF Gens
        <5> QED
          BY <1>1, <4>1, <5>1
      <4>3. going.todo = {}
        BY <1>8, <4>2
      <4> QED
        BY <1>1, <1>8, <1>10, <3>1, <4>1, <4>3 DEF Past, Fresh
    <3> QED
      BY <3>2, <3>3
  <2> QED
    BY <2>2, <2>3
<1>16. InPlace(p)'
  <2>1. going.todo # {} => current[p] \in going.todo
    <3>1. ASSUME NEW x \in going.todo PROVE current[p] # g
      <4>1. x \in Nat /\ g \in Nat /\ x # g /\ g <= x /\ x <= current[p]
        BY <1>1, <1>3, <1>4, <1>8, <3>1 DEF Gens
      <4> QED
        BY <1>1, <4>1
    <3> QED
      BY <1>4, <1>8, <3>1
  <2> QED
    BY <1>1, <1>4, <1>8, <1>10, <2>1 DEF InPlace, Fresh
<1>17. OldGo'
  BY <1>1, <1>10, StillGo DEF Removes
<1> QED
  BY <1>9, <1>10, <1>11, <1>12, <1>13, <1>14, <1>15, <1>16, <1>17, StepOf DEF ProcSound

\* A step of the flush that leaves the files, and what is read, alone.
LEMMA WritingStep ==
  ASSUME LogInv, NEW p \in Procs, Typed', UNCHANGED <<files, names, handles, look, torn>>,
         \A q \in Procs \ {p} : Same(q),
         \A k \in Keys : EntryRight(p, k)',
         flush'[p].phase \in {"write", "verify", "rescan"} => flush'[p].file \in DOMAIN files,
         TornBehind(p)', InPlace(p)', faults' # 0 \/ faults' = faults,
         faults' = 0 => \A g \in DOMAIN names :
             g <= Newest(DOMAIN names) - Generations /\ Removes(p, g) => Removes(p, g)'
  PROVE  LogInv'
<1>1. Grown /\ Renamed /\ Named'
  BY FilesStay
<1>2. FilesThere(p) /\ HitRight(p)
  BY DEF LogInv, ProcSound
<1>3. FilesThere(p)' /\ HitRight(p)'
  BY <1>2 DEF FilesThere, HitRight
<1>4. OldGo'
  BY StillGo
<1> QED
  BY <1>1, <1>3, <1>4, StepOf DEF ProcSound

\* What stays of the entries when only the flush moves.
LEMMA EntriesStay ==
  ASSUME LogInv, NEW p \in Procs, UNCHANGED <<files, index>>
  PROVE  \A k \in Keys : EntryRight(p, k)'
BY DEF LogInv, ProcSound, EntryRight

\* A process about to write has all torn files behind it.
LEMMA StrictlyBehind ==
  ASSUME LogInv, NEW p \in Procs,
         ~sealed[p] \/ Fresh(p) \/ flush[p].phase \in {"write", "verify", "rescan"},
         NEW g \in DOMAIN names, names[g] \in torn[p]
  PROVE  g < current[p]
BY DEF LogInv, ProcSound, TornBehind, Past, InPlace

\* The flush moves on; the process's number, seal and queue may change with it.
LEMMA FlushStep ==
  ASSUME LogInv, NEW p \in Procs, NEW new \in FlushType, NEW c \in Nat, NEW s \in BOOLEAN, NEW waiting \in Seq(Pairs),
         flush' = [flush EXCEPT ![p] = new],
         current' = current \/ current' = [current EXCEPT ![p] = c],
         sealed' = sealed \/ sealed' = [sealed EXCEPT ![p] = s],
         queue' = queue \/ queue' = [queue EXCEPT ![p] = waiting],
         UNCHANGED <<files, names, index, handles, look, looked, torn>>,
         faults' \in 0 .. MaxFaults, faults' # 0 \/ faults' = faults,
         new.phase \in {"write", "verify", "rescan"} => new.file \in DOMAIN files,
         TornBehind(p)', InPlace(p)',
         faults' = 0 => \A g \in DOMAIN names :
             g <= Newest(DOMAIN names) - Generations /\ Removes(p, g) => Removes(p, g)'
  PROVE  LogInv'
<1>1. Typed
  BY DEF LogInv
<1>2. Typed'
  <2>1. current' \in [Procs -> Nat]
    BY <1>1 DEF Typed
  <2>2. sealed' \in [Procs -> BOOLEAN]
    BY <1>1 DEF Typed
  <2>3. queue' \in [Procs -> Seq(Pairs)]
    BY <1>1 DEF Typed
  <2>4. flush' \in [Procs -> FlushType]
    BY <1>1 DEF Typed
  <2> QED
    BY <1>1, <2>1, <2>2, <2>3, <2>4 DEF Typed
<1>3. flush'[p] = new
  BY <1>1 DEF Typed
<1>4. ASSUME NEW q \in Procs \ {p} PROVE Same(q)
  BY <1>1 DEF Typed, Same
<1>5. \A k \in Keys : EntryRight(p, k)'
  BY EntriesStay
<1> QED
  BY <1>2, <1>3, <1>4, <1>5, WritingStep

LEMMA TakeStep == ASSUME LogInv, NEW p \in Procs, TakeBatch(p) PROVE LogInv'
<1>1. /\ UNCHANGED <<files, names, index, handles, current, sealed, torn, look, looked, faults>>
      /\ queue' = [queue EXCEPT ![p] = <<>>] /\ flush[p].phase = "on"
      /\ Typed /\ Named /\ queue[p] \in Seq(Pairs) /\ current[p] \in Nat /\ sealed[p] \in BOOLEAN
      /\ TornBehind(p) /\ InPlace(p)
  BY ShapesOf DEF TakeBatch, Goto, LogInv, ProcSound
<1>2. PICK phase \in {"open", "rotate"} : /\ flush' = [flush EXCEPT ![p] = At(phase, queue[p])]
                                          /\ phase = "open" => Room(p, queue[p])
  BY DEF TakeBatch, Goto
<1>3. PICK new : new = At(phase, queue[p])
  OBVIOUS
<1>4. new \in FlushType /\ new.phase = phase /\ <<>> \in Seq(Pairs)
  BY <1>1, <1>2, <1>3 DEF At, FlushType
<1>5. flush'[p] = new
  BY <1>1, <1>2, <1>3 DEF Typed
<1>6. TornBehind(p)'
  <2> SUFFICES ASSUME NEW g \in DOMAIN names, names[g] \in torn[p] PROVE Past(p, g)'
    BY <1>1 DEF TornBehind
  <2>1. CASE phase = "open"
    <3>1. g < current[p]
      BY <1>2, <2>1, StrictlyBehind DEF Room
    <3> QED
      BY <1>1, <3>1 DEF Past
  <2>2. CASE phase = "rotate"
    BY <1>1, <1>4, <1>5, <2>2 DEF TornBehind, Past, Fresh
  <2> QED
    BY <1>2, <2>1, <2>2
<1>7. InPlace(p)'
  <2>1. CASE phase = "open"
    <3>1. current[p] # 0 /\ ~sealed[p] /\ current[p] <= Newest(DOMAIN names)
      BY <1>1, <1>2, <2>1, NewestIs DEF Room
    <3> QED
      BY <1>1, <1>4, <1>5, <2>1, <3>1 DEF InPlace, Fresh
  <2>2. CASE phase = "rotate"
    BY <1>1, <1>4, <1>5, <2>2 DEF InPlace, Fresh
  <2> QED
    BY <1>2, <2>1, <2>2
<1>8. \A g \in DOMAIN names : ~Removes(p, g)
  BY <1>1 DEF Removes
<1>9. new.phase \notin {"write", "verify", "rescan"} /\ faults' \in 0 .. MaxFaults
  BY <1>1, <1>2, <1>4 DEF Typed
<1> QED
  BY <1>1, <1>2, <1>3, <1>4, <1>6, <1>7, <1>8, <1>9, FlushStep

LEMMA NextGenStep == ASSUME LogInv, NEW p \in Procs, NextGen(p) PROVE LogInv'
<1>1. /\ UNCHANGED <<files, names, index, handles, sealed, queue, torn, look, looked, faults>>
      /\ flush[p].phase = "rotate" /\ flush[p].batch \in Seq(Pairs)
      /\ Typed /\ Named /\ current[p] \in Nat /\ sealed[p] \in BOOLEAN /\ queue[p] \in Seq(Pairs)
      /\ TornBehind(p) /\ InPlace(p)
  BY ShapesOf DEF NextGen, Goto, LogInv, ProcSound
<1>2. PICK new : new = At("create", flush[p].batch) /\ flush' = [flush EXCEPT ![p] = new]
  BY DEF NextGen, Goto
<1>3. new \in FlushType /\ new.phase = "create"
  BY <1>1, <1>2 DEF At, FlushType
<1>4. PICK c : c = Newest(DOMAIN names \cup {current[p]}) + 1 /\ current' = [current EXCEPT ![p] = c]
  BY DEF NextGen
<1>5. c \in Nat /\ c # 0 /\ \A g \in DOMAIN names : g < c
  <2>1. PICK b \in Nat : DOMAIN names \subseteq 1 .. b
    BY <1>1 DEF Named
  <2>2. b + current[p] \in Nat /\ DOMAIN names \cup {current[p]} \in SUBSET (0 .. (b + current[p]))
    BY <1>1, <2>1
  <2>3. PICK n : n = Newest(DOMAIN names \cup {current[p]})
    OBVIOUS
  <2>4. n \in Nat /\ \A g \in DOMAIN names : g <= n
    BY <2>2, <2>3, NewestOf
  <2>5. \A g \in DOMAIN names : g \in Nat
    BY <2>1
  <2> QED
    BY <1>4, <2>3, <2>4, <2>5
<1>6. flush'[p] = new /\ current'[p] = c
  BY <1>1, <1>2, <1>4 DEF Typed
<1>7. TornBehind(p)'
  BY <1>1, <1>5, <1>6 DEF TornBehind, Past
<1>8. InPlace(p)'
  BY <1>3, <1>5, <1>6 DEF InPlace, Fresh
<1>9. \A g \in DOMAIN names : ~Removes(p, g)
  BY <1>1 DEF Removes
<1>10. faults' \in 0 .. MaxFaults
  BY <1>1 DEF Typed
<1> QED
  BY <1>1, <1>2, <1>3, <1>4, <1>5, <1>7, <1>8, <1>9, <1>10, FlushStep

LEMMA ListOldStep == ASSUME LogInv, NEW p \in Procs, ListOld(p) PROVE LogInv'
<1>1. /\ UNCHANGED <<files, names, index, handles, current, sealed, queue, torn, look, looked, faults>>
      /\ flush[p].phase = "list" /\ flush[p].batch \in Seq(Pairs)
      /\ Typed /\ Named /\ current[p] \in Nat /\ sealed[p] \in BOOLEAN /\ queue[p] \in Seq(Pairs)
      /\ TornBehind(p) /\ InPlace(p)
  BY ShapesOf DEF ListOld, Goto, LogInv, ProcSound
<1>2. PICK new : /\ new = [phase |-> "prune", batch |-> flush[p].batch, todo |-> Old(p)]
                 /\ flush' = [flush EXCEPT ![p] = new]
  BY DEF ListOld, Goto
<1>3. Old(p) \in SUBSET Gens /\ \A g \in Old(p) : g <= current[p] - Generations
  BY <1>1, NewestIs DEF Old
<1>4. new \in FlushType /\ new.phase = "prune" /\ new.todo = Old(p)
  BY <1>1, <1>2, <1>3 DEF FlushType
<1>5. flush'[p] = new
  BY <1>1, <1>2 DEF Typed
<1>6. TornBehind(p)'
  BY <1>1, <1>4, <1>5 DEF TornBehind, Past, Fresh
<1>7. InPlace(p)'
  BY <1>1, <1>3, <1>4, <1>5 DEF InPlace, Fresh
<1>8. \A g \in DOMAIN names : g <= Newest(DOMAIN names) - Generations /\ Removes(p, g) => Removes(p, g)'
  BY <1>1, <1>4, <1>5 DEF Removes, Old
<1>9. faults' \in 0 .. MaxFaults
  BY <1>1 DEF Typed
<1> QED
  BY <1>1, <1>2, <1>4, <1>6, <1>7, <1>8, <1>9, FlushStep

LEMMA PrunedStep == ASSUME LogInv, NEW p \in Procs, Pruned(p) PROVE LogInv'
<1>1. /\ UNCHANGED <<files, names, index, handles, current, queue, torn, look, looked, faults>>
      /\ flush[p].phase = "prune" /\ flush[p].todo = {} /\ flush[p].batch \in Seq(Pairs)
      /\ sealed' = [sealed EXCEPT ![p] = FALSE]
      /\ Typed /\ Named /\ current[p] \in Nat /\ queue[p] \in Seq(Pairs)
      /\ TornBehind(p) /\ InPlace(p)
  BY ShapesOf DEF Pruned, LogInv, ProcSound
<1>2. PICK new : new = At("open", flush[p].batch) /\ flush' = [flush EXCEPT ![p] = new]
  BY DEF Pruned
<1>3. new \in FlushType /\ new.phase = "open"
  BY <1>1, <1>2 DEF At, FlushType
<1>4. flush'[p] = new /\ sealed'[p] = FALSE
  BY <1>1, <1>2 DEF Typed
<1>5. TornBehind(p)'
  <2> SUFFICES ASSUME NEW g \in DOMAIN names, names[g] \in torn[p] PROVE Past(p, g)'
    BY <1>1 DEF TornBehind
  <2>1. g < current[p]
    BY <1>1, StrictlyBehind DEF Fresh
  <2> QED
    BY <1>1, <2>1 DEF Past
<1>6. InPlace(p)'
  BY <1>1, <1>3, <1>4 DEF InPlace, Fresh
<1>7. \A g \in DOMAIN names : ~Removes(p, g)
  BY <1>1 DEF Removes
<1>8. faults' \in 0 .. MaxFaults /\ FALSE \in BOOLEAN
  BY <1>1 DEF Typed
<1> QED
  BY <1>1, <1>2, <1>3, <1>5, <1>6, <1>7, <1>8, FlushStep

LEMMA FlushFailsStep == ASSUME LogInv, NEW p \in Procs, FlushFails(p) PROVE LogInv'
<1>1. /\ UNCHANGED <<files, names, index, handles, current, sealed, queue, torn, look, looked>>
      /\ flush[p].phase \in {"create", "list", "prune", "open", "write", "verify"}
      /\ flush' = [flush EXCEPT ![p] = Off]
      /\ Typed /\ current[p] \in Nat /\ sealed[p] \in BOOLEAN /\ queue[p] \in Seq(Pairs)
  BY ShapesOf DEF FlushFails, LogInv
<1>2. faults' \in 0 .. MaxFaults /\ faults' # 0
  BY BoundsAssumption, <1>1 DEF FlushFails, Typed
<1>3. Off \in FlushType /\ Off.phase = "off"
  BY DEF Off, FlushType
<1>4. flush'[p] = Off
  BY <1>1 DEF Typed
<1>5. TornBehind(p)'
  <2> SUFFICES ASSUME NEW g \in DOMAIN names, names[g] \in torn[p] PROVE Past(p, g)'
    BY <1>1 DEF TornBehind
  <2>1. g < current[p]
    BY <1>1, StrictlyBehind DEF Fresh
  <2> QED
    BY <1>1, <2>1 DEF Past
<1>6. InPlace(p)'
  BY <1>3, <1>4 DEF InPlace, Fresh
<1> QED
  BY <1>1, <1>2, <1>3, <1>5, <1>6, FlushStep

\* A step that indexes what it has read.
LEMMA IndexStep ==
  ASSUME LogInv, NEW p \in Procs, NEW new \in FlushType, flush' = [flush EXCEPT ![p] = new],
         NEW i \in [Keys -> EntryType \cup {None}], index' = [index EXCEPT ![p] = i],
         UNCHANGED <<files, names, handles, current, sealed, queue, look, looked, torn, faults>>,
         flush[p].phase \in {"verify", "rescan"}, new.phase = "on",
         \A k \in Keys : EntryRight(p, k)'
  PROVE  LogInv'
<1>1. Typed /\ InPlace(p)
  BY DEF LogInv, ProcSound
<1>2. Typed'
  <2>1. index' \in [Procs -> [Keys -> EntryType \cup {None}]] /\ flush' \in [Procs -> FlushType]
    BY <1>1 DEF Typed
  <2> QED
    BY <1>1, <2>1 DEF Typed
<1>3. flush'[p] = new
  BY <1>1 DEF Typed
<1>4. ASSUME NEW q \in Procs \ {p} PROVE Same(q)
  BY <1>1 DEF Typed, Same
<1>5. TornBehind(p)'
  <2> SUFFICES ASSUME NEW g \in DOMAIN names, names[g] \in torn[p] PROVE Past(p, g)'
    BY <1>1 DEF TornBehind
  <2>1. g < current[p]
    BY <1>1, StrictlyBehind
  <2> QED
    BY <1>1, <2>1 DEF Past
<1>6. InPlace(p)'
  BY <1>3 DEF InPlace, Fresh
<1>7. \A g \in DOMAIN names : ~Removes(p, g)
  BY DEF Removes
<1> QED
  BY <1>2, <1>3, <1>4, <1>5, <1>6, <1>7, WritingStep

LEMMA RescanStep == ASSUME LogInv, NEW p \in Procs, Rescan(p) PROVE LogInv'
<1>1. /\ UNCHANGED <<files, names, handles, current, sealed, queue, torn, look, looked, faults>>
      /\ flush[p].phase = "rescan"
      /\ Typed /\ Named /\ current[p] \in Gens /\ index[p] \in [Keys -> EntryType \cup {None}]
  BY ShapesOf DEF Rescan, Goto, LogInv, ProcSound, InPlace, Gens
<1>2. PICK new : new = [phase |-> "on"] /\ flush' = [flush EXCEPT ![p] = new]
  BY DEF Rescan, Goto
<1>3. new \in FlushType /\ new.phase = "on"
  BY <1>2 DEF FlushType
<1>4. PICK i : /\ i \in [Keys -> EntryType \cup {None}] /\ index' = [index EXCEPT ![p] = i]
               /\ \A k \in Keys : i[k] = index[p][k] \/ i[k].file = None
  <2>1. CASE current[p] \in DOMAIN names
    <3>1. PICK cells, g : cells = files[names[current[p]]] /\ g = current[p]
      OBVIOUS
    <3>2. cells \in Seq(Cells)
      BY <1>1, <2>1, <3>1 DEF Named
    <3>3. PICK i : i = Scanned(index[p], g, cells)
      OBVIOUS
    <3>4. i \in [Keys -> EntryType \cup {None}] /\ \A k \in Keys : i[k] = index[p][k] \/ i[k].file = None
      BY <1>1, <3>1, <3>2, <3>3, ScannedTyped
    <3>5. index' = [index EXCEPT ![p] = i]
      BY <2>1, <3>1, <3>3 DEF Rescan
    <3> QED
      BY <3>4, <3>5
  <2>2. CASE current[p] \notin DOMAIN names
    BY <1>1, <2>2 DEF Rescan
  <2> QED
    BY <2>1, <2>2
<1>5. index'[p] = i
  BY <1>1, <1>4 DEF Typed
<1>6. \A k \in Keys : EntryRight(p, k)'
  BY <1>1, <1>4, <1>5, ScannedRight
<1> QED
  BY <1>1, <1>2, <1>3, <1>4, <1>6, IndexStep

\* The records of a batch.
LEMMA SerializedIs ==
  ASSUME NEW batch \in Seq(Pairs)
  PROVE  /\ Serialized(batch) \in Seq(Cells) /\ Len(Serialized(batch)) = 2 * Len(batch)
         /\ \A i \in 1 .. Len(batch) : Serialized(batch)[2 * i - 1] = Head1(batch[i][1])
<1>1. Len(batch) \in Nat /\ \A i \in 1 .. Len(batch) : batch[i] \in Pairs
  OBVIOUS
<1>2. \A i \in 1 .. Len(batch) : Head1(batch[i][1]) \in Cells /\ batch[i][2] \in Cells
  BY <1>1 DEF Pairs, Cells, Head1
<1>3. ASSUME NEW i \in 1 .. 2 * Len(batch)
      PROVE  (i % 2 = 1 => (i + 1) \div 2 \in 1 .. Len(batch)) /\ (i % 2 # 1 => i \div 2 \in 1 .. Len(batch))
  BY <1>1
<1>4. \A i \in 1 .. 2 * Len(batch) : Serialized(batch)[i] \in Cells
  BY <1>2, <1>3 DEF Serialized
<1>5. Serialized(batch) = [i \in 1 .. 2 * Len(batch) |-> Serialized(batch)[i]]
  BY DEF Serialized
<1>6. 2 * Len(batch) \in Nat
  BY <1>1
<1>7. Serialized(batch) \in Seq(Cells) /\ Len(Serialized(batch)) = 2 * Len(batch)
  BY <1>4, <1>5, <1>6
<1>8. ASSUME NEW i \in 1 .. Len(batch)
      PROVE  2 * i - 1 \in 1 .. 2 * Len(batch) /\ (2 * i - 1) % 2 = 1 /\ (2 * i - 1 + 1) \div 2 = i
  BY <1>1
<1> QED
  BY <1>7, <1>8 DEF Serialized

LEMMA VerifyStep == ASSUME LogInv, NEW p \in Procs, VerifyBatch(p) PROVE LogInv'
<1>1. PICK cells, given, file :
        /\ cells = files[flush[p].file] /\ given = flush[p].batch /\ file = flush[p].file
  OBVIOUS
<1>2. /\ UNCHANGED <<files, names, handles, current, sealed, queue, torn, look, looked, faults>>
      /\ flush[p].phase = "verify" /\ Typed /\ Named /\ InPlace(p) /\ TornBehind(p)
      /\ given \in Seq(Pairs) /\ file \in DOMAIN files /\ file \in Nat /\ cells \in Seq(Cells)
      /\ current[p] \in Gens /\ index[p] \in [Keys -> EntryType \cup {None}]
      /\ sealed[p] \in BOOLEAN /\ queue[p] \in Seq(Pairs)
  BY <1>1, ShapesOf DEF VerifyBatch, LogInv, ProcSound, FilesThere, InPlace, Named, Gens
<1>3. PICK batch, base : batch = Serialized(given) /\ base = Len(cells) - Len(batch)
  OBVIOUS
<1>4. \/ /\ base >= 0 /\ SubSeq(cells, base + 1, Len(cells)) = batch
         /\ index' = [index EXCEPT ![p] = Indexed(p, base)] /\ flush' = [flush EXCEPT ![p] = [phase |-> "on"]]
      \/ flush' = [flush EXCEPT ![p].phase = "rescan"] /\ UNCHANGED index
  BY <1>1, <1>3 DEF VerifyBatch
<1>5. /\ batch \in Seq(Cells) /\ Len(batch) = 2 * Len(given) /\ Len(given) \in Nat /\ Len(cells) \in Nat
      /\ \A i \in 1 .. Len(given) : batch[2 * i - 1] = Head1(given[i][1])
  BY <1>2, <1>3, SerializedIs
<1>6. CASE /\ base >= 0 /\ SubSeq(cells, base + 1, Len(cells)) = batch
           /\ index' = [index EXCEPT ![p] = Indexed(p, base)] /\ flush' = [flush EXCEPT ![p] = [phase |-> "on"]]
  <2>1. PICK i, new : i = Indexed(p, base) /\ new = [phase |-> "on"]
    OBVIOUS
  <2>2. base \in Nat
    BY <1>3, <1>5, <1>6
  <2>3. ASSUME NEW k \in Keys
        PROVE  /\ i[k] \in EntryType \cup {None}
               /\ \/ i[k] = index[p][k]
                  \/ /\ i[k].file = file
                     /\ i[k].at - 1 \in 1 .. Len(cells) /\ cells[i[k].at - 1] = Head1(k)
    <3>1. PICK at : at = {n \in DOMAIN given : given[n][1] = k}
      OBVIOUS
    <3>2. CASE at = {}
      BY <1>1, <1>2, <2>1, <3>1, <3>2 DEF Indexed
    <3>3. CASE at # {}
      <4>1. at \in SUBSET (0 .. Len(given)) /\ DOMAIN given = 1 .. Len(given)
        BY <1>2, <3>1
      <4>2. PICK n : n = Max(at)
        OBVIOUS
      <4>3. n \in 1 .. Len(given) /\ given[n][1] = k
        BY <1>5, <3>1, <3>3, <4>1, <4>2, GreatestOf
      <4>4. i[k] = [gen |-> current[p], at |-> base + 2 * n, file |-> file]
        <5>1. i[k] = [gen |-> current[p], at |-> base + 2 * Max(at), file |-> file]
          BY <1>1, <2>1, <3>1, <3>3 DEF Indexed
        <5> QED
          BY <4>2, <5>1
      <4>5. base + 2 * n \in Gens /\ base + 2 * n - 1 \in 1 .. Len(cells)
        BY <1>3, <1>5, <2>2, <4>3 DEF Gens
      <4>6. cells[base + 2 * n - 1] = Head1(k)
        <5>1. 2 * n - 1 \in 1 .. Len(batch) /\ base + 1 \in 1 .. Len(cells) + 1 /\ Len(cells) - (base + 1) + 1 = Len(batch)
          BY <1>3, <1>5, <2>2, <4>3
        <5>2. SubSeq(cells, base + 1, Len(cells))[2 * n - 1] = cells[(base + 1) + (2 * n - 1) - 1]
          <6>1. \A x \in base + 1 .. Len(cells) : cells[x] \in Cells
            BY <1>2, <1>5, <2>2
          <6>2. base + 1 \in Int /\ Len(cells) \in Int
            BY <1>5, <2>2
          <6>3. \A x \in 1 .. Len(cells) - (base + 1) + 1 :
                  SubSeq(cells, base + 1, Len(cells))[x] = cells[(base + 1) + x - 1]
            BY <6>1, <6>2, SubSeqProperties
          <6> QED
            BY <5>1, <6>3
        <5>3. (base + 1) + (2 * n - 1) - 1 = base + 2 * n - 1
          BY <1>5, <2>2, <4>3
        <5>4. batch[2 * n - 1] = Head1(k)
          BY <1>5, <4>3
        <5> QED
          BY <1>6, <5>2, <5>3, <5>4
      <4>7. i[k] \in EntryType
        BY <1>2, <4>4, <4>5 DEF EntryType
      <4>8. i[k].file = file /\ i[k].at = base + 2 * n
        BY <4>4
      <4>9. i[k].at - 1 = base + 2 * n - 1
        <5>1. PICK x \in Nat : x = base + 2 * n
          BY <4>5 DEF Gens
        <5>2. i[k].at - 1 = x - 1
          BY <4>8, <5>1
        <5> QED
          BY <2>2, <1>5, <4>3, <5>1, <5>2
      <4> QED
        BY <4>5, <4>6, <4>7, <4>8, <4>9
    <3> QED
      BY <3>2, <3>3
  <2>4. i \in [Keys -> EntryType \cup {None}]
    <3>1. i = [k \in Keys |-> i[k]]
      BY <2>1 DEF Indexed
    <3> QED
      BY <2>3, <3>1
  <2>5. index'[p] = i
    BY <1>2, <1>6, <2>1 DEF Typed
  <2>6. ASSUME NEW k \in Keys PROVE EntryRight(p, k)'
    <3>1. CASE i[k] = index[p][k]
      <4>1. EntryRight(p, k)
        BY DEF LogInv, ProcSound
      <4> QED
        BY <1>2, <2>5, <3>1, <4>1 DEF EntryRight
    <3>2. CASE i[k] # index[p][k]
      BY <1>1, <1>2, <2>3, <2>5, <3>2 DEF EntryRight
    <3> QED
      BY <3>1, <3>2
  <2>7. new \in FlushType /\ new.phase = "on"
    BY <2>1 DEF FlushType
  <2> QED
    BY <1>2, <1>6, <2>1, <2>4, <2>6, <2>7, IndexStep
<1>7. CASE flush' = [flush EXCEPT ![p].phase = "rescan"] /\ index' = index
  <2>1. flush[p] = [phase |-> "verify", batch |-> given, file |-> file]
    BY <1>1, <1>2 DEF Typed, FlushType
  <2>2. PICK new : new = [flush[p] EXCEPT !.phase = "rescan"] /\ flush' = [flush EXCEPT ![p] = new]
    BY <1>7
  <2>3. new = [phase |-> "rescan", batch |-> given, file |-> file]
    BY <2>1, <2>2
  <2>4. new \in FlushType /\ new.phase = "rescan" /\ new.file = file
    BY <1>2, <2>3 DEF FlushType
  <2>5. flush'[p] = new
    BY <1>2, <2>2 DEF Typed
  <2>6. TornBehind(p)'
    <3> SUFFICES ASSUME NEW g \in DOMAIN names, names[g] \in torn[p] PROVE Past(p, g)'
      BY <1>2 DEF TornBehind
    <3>1. g < current[p]
      BY <1>2, StrictlyBehind
    <3> QED
      BY <1>2, <3>1 DEF Past
  <2>7. InPlace(p)'
    BY <1>2, <2>4, <2>5 DEF InPlace, Fresh
  <2>8. \A g \in DOMAIN names : ~Removes(p, g)
    BY <1>2 DEF Removes
  <2>9. faults' \in 0 .. MaxFaults /\ current[p] \in Nat
    BY <1>2 DEF Typed, Gens
  <2> QED
    BY <1>2, <1>7, <2>2, <2>4, <2>6, <2>7, <2>8, <2>9, FlushStep
<1> QED
  BY <1>4, <1>6, <1>7

LEMMA DieStep == ASSUME LogInv, NEW p \in Procs, Die(p) PROVE LogInv'
<1>1. UNCHANGED <<files, names, looked>> /\ Typed /\ Started(p)
  BY DEF Die, LogInv
<1>2. faults' \in 0 .. MaxFaults /\ faults' # 0
  BY <1>1, BoundsAssumption DEF Die, Typed
<1>3. PICK new \in FlushType : new = [phase |-> "start"]
  <2>1. [phase |-> "start"] \in FlushType
    BY DEF FlushType
  <2> QED
    BY <2>1
<1>4. Idle \in LookType /\ Idle.phase = "idle" /\ NoEntries \in [Keys -> EntryType \cup {None}]
  BY DEF Idle, LookType, NoEntries
<1>5. Typed'
  <2>1. index' \in [Procs -> [Keys -> EntryType \cup {None}]] /\ DOMAIN handles' = Procs
    BY <1>1, <1>4 DEF Started, Typed
  <2>2. current' \in [Procs -> Nat] /\ sealed' \in [Procs -> BOOLEAN] /\ queue' \in [Procs -> Seq(Pairs)]
    BY <1>1 DEF Started, Typed
  <2>3. flush' \in [Procs -> FlushType] /\ look' \in [Procs -> LookType]
    BY <1>1, <1>3, <1>4 DEF Started, Typed
  <2>4. torn' \in [Procs -> SUBSET Nat]
    BY <1>1 DEF Started, Typed
  <2> QED
    BY <1>1, <1>2, <2>1, <2>2, <2>3, <2>4 DEF Typed
<1>6. /\ index'[p] = NoEntries /\ handles'[p] = <<>> /\ flush'[p] = new /\ look'[p] = Idle /\ torn'[p] = {}
      /\ \A q \in Procs \ {p} : Same(q)
  BY <1>1, <1>3 DEF Started, Typed, Same
<1>7. Grown /\ Renamed /\ Named'
  BY <1>1, FilesStay
<1>8. FilesThere(p)' /\ HitRight(p)' /\ TornBehind(p)' /\ InPlace(p)'
  BY <1>3, <1>4, <1>6 DEF FilesThere, HitRight, TornBehind, InPlace, Fresh
<1>9. \A k \in Keys : EntryRight(p, k)'
  BY <1>6 DEF EntryRight, NoEntries
<1>10. OldGo'
  BY <1>2 DEF OldGo
<1> QED
  BY <1>5, <1>6, <1>7, <1>8, <1>9, <1>10, StepOf DEF ProcSound

-----------------------------------------------------------------------------
(***************************************************************************)
(* Steps that change what there is in the directory.                       *)
(***************************************************************************)

\* The newest generation of a directory that keeps it, or gains one.
LEMMA NewestKept ==
  ASSUME Named, NEW gens \in SUBSET DOMAIN names, DOMAIN names # {} => Newest(DOMAIN names) \in gens
  PROVE  Newest(gens) = Newest(DOMAIN names)
<1>1. PICK b \in Nat : DOMAIN names \subseteq 1 .. b
  BY DEF Named
<1>2. /\ Newest(DOMAIN names) \in Nat /\ Newest(gens) \in Nat /\ Newest(gens) \in gens \cup {0}
      /\ \A g \in gens : g <= Newest(gens)
  <2>1. gens \in SUBSET (0 .. b) /\ DOMAIN names \in SUBSET (0 .. b)
    BY <1>1
  <2> QED
    BY <2>1, NewestOf
<1>3. CASE DOMAIN names = {}
  <2>1. gens = DOMAIN names
    BY <1>3
  <2> QED
    BY <2>1
<1>4. CASE DOMAIN names # {}
  <2>1. Newest(DOMAIN names) <= Newest(gens)
    BY <1>2, <1>4
  <2>2. Newest(gens) <= Newest(DOMAIN names)
    BY <1>2, NewestIs
  <2> QED
    BY <1>2, <2>1, <2>2
<1> QED
  BY <1>3, <1>4

LEMMA NewestMade ==
  ASSUME Named, NEW c \in Gens
  PROVE  /\ Newest(DOMAIN names \cup {c}) = IF c > Newest(DOMAIN names) THEN c ELSE Newest(DOMAIN names)
         /\ \E b \in Nat : DOMAIN names \cup {c} \subseteq 1 .. b
<1>1. PICK b \in Nat : DOMAIN names \subseteq 1 .. b
  BY DEF Named
<1>2. b + c \in Nat /\ DOMAIN names \cup {c} \subseteq 1 .. (b + c)
  BY <1>1 DEF Gens
<1>3. PICK n : n = Newest(DOMAIN names \cup {c})
  OBVIOUS
<1>4. /\ n \in Nat /\ n \in DOMAIN names \cup {c, 0}
      /\ \A g \in DOMAIN names \cup {c} : g <= n
  <2>1. DOMAIN names \cup {c} \in SUBSET (0 .. (b + c))
    BY <1>2
  <2> QED
    BY <1>2, <1>3, <2>1, NewestOf
<1>5. /\ Newest(DOMAIN names) \in Nat /\ \A g \in DOMAIN names : g \in Nat /\ g <= Newest(DOMAIN names)
      /\ Newest(DOMAIN names) \in DOMAIN names \cup {0}
  BY NewestIs DEF Gens
<1>6. c \in Nat /\ c # 0
  BY DEF Gens
<1>7. Newest(DOMAIN names) <= n /\ c <= n
  BY <1>4, <1>5
<1>8. n = c \/ n <= Newest(DOMAIN names)
  BY <1>4, <1>5, <1>6
<1>9. n = IF c > Newest(DOMAIN names) THEN c ELSE Newest(DOMAIN names)
  BY <1>4, <1>5, <1>6, <1>7, <1>8
<1> QED
  BY <1>2, <1>3, <1>9

\* The directory loses some files, and never its newest.
LEMMA DirectoryShrinks ==
  ASSUME LogInv, NEW gens \in SUBSET DOMAIN names, names' = [g \in gens |-> names[g]], files' = files,
         DOMAIN names # {} => Newest(DOMAIN names) \in gens
  PROVE  Grown /\ Renamed /\ Named' /\ Newest(DOMAIN names') = Newest(DOMAIN names)
<1>1. Named
  BY DEF LogInv
<1>2. DOMAIN names' = gens
  OBVIOUS
<1>3. Newest(gens) = Newest(DOMAIN names)
  BY <1>1, NewestKept
<1>4. Newest(DOMAIN names') = Newest(DOMAIN names) /\ Newest(DOMAIN names) \in Nat
  BY <1>1, <1>2, <1>3, NewestIs
<1>5. Renamed
  BY <1>2, <1>4 DEF Renamed
<1>6. Grown
  <2>1. \A f \in DOMAIN files : Len(files[f]) \in Nat
    BY <1>1 DEF Named
  <2> QED
    BY <2>1 DEF Grown
<1>7. Named'
  <2>1. PICK b \in Nat : DOMAIN names \subseteq 1 .. b
    BY <1>1 DEF Named
  <2>2. DOMAIN names' \subseteq 1 .. b
    BY <1>2, <2>1
  <2>3. files' \in Seq(Seq(Cells))
    BY <1>1 DEF Named
  <2>4. \A g \in DOMAIN names' : names'[g] \in DOMAIN files'
    BY <1>1, <1>2 DEF Named
  <2>5. \A g, h \in DOMAIN names' : names'[g] = names'[h] => g = h
    BY <1>1, <1>2 DEF Named
  <2> QED
    BY <2>1, <2>2, <2>3, <2>4, <2>5 DEF Named
<1> QED
  BY <1>4, <1>5, <1>6, <1>7

LEMMA ListStep == ASSUME LogInv, NEW p \in Procs, ListGens(p) PROVE LogInv'
<1>1. PICK gens : gens = Kept(DOMAIN names)
  OBVIOUS
<1>2. /\ UNCHANGED <<files, index, handles, sealed, queue, look, looked, faults, torn>>
      /\ flush[p].phase = "start" /\ names' = [g \in gens |-> names[g]]
      /\ Typed /\ Named /\ FilesThere(p) /\ HitRight(p) /\ InPlace(p)
  BY <1>1 DEF ListGens, Goto, LogInv, ProcSound
<1>3. PICK new : new = [phase |-> "scan", todo |-> gens] /\ flush' = [flush EXCEPT ![p] = new]
  BY <1>1 DEF ListGens, Goto
<1>4. PICK c : c = Newest(DOMAIN names) /\ current' = [current EXCEPT ![p] = c]
  BY DEF ListGens
<1>5. gens \in SUBSET DOMAIN names
  BY <1>1 DEF Kept
<1>6. /\ c \in Nat /\ \A g \in DOMAIN names : g \in Gens /\ g <= c
      /\ DOMAIN names # {} => c \in DOMAIN names
  BY <1>2, <1>4, NewestIs
<1>7. DOMAIN names # {} => c \in gens
  <2>1. {h \in DOMAIN names : h > c} = {}
    BY <1>6 DEF Gens
  <2>2. Cardinality({h \in DOMAIN names : h > c}) = 0
    BY <2>1, FS_EmptySet
  <2> QED
    BY <1>1, <1>6, <2>2, SizesAssumption DEF Kept
<1>8. Grown /\ Renamed /\ Named' /\ Newest(DOMAIN names') = Newest(DOMAIN names)
  BY <1>2, <1>4, <1>5, <1>7, DirectoryShrinks
<1>9. new \in FlushType /\ new.phase = "scan" /\ new.todo = gens
  BY <1>3, <1>5, <1>6 DEF FlushType
<1>10. flush'[p] = new /\ current'[p] = c /\ \A q \in Procs \ {p} : Same(q)
  BY <1>2, <1>3, <1>4 DEF Typed, Same
<1>11. Typed'
  <2>1. flush' \in [Procs -> FlushType] /\ current' \in [Procs -> Nat]
    BY <1>2, <1>3, <1>4, <1>6, <1>9 DEF Typed
  <2> QED
    BY <1>2, <2>1 DEF Typed
<1>12. torn'[p] = {}
  BY <1>2 DEF InPlace
<1>13. FilesThere(p)' /\ HitRight(p)' /\ TornBehind(p)'
  BY <1>2, <1>9, <1>10, <1>12 DEF FilesThere, HitRight, TornBehind
<1>14. InPlace(p)'
  BY <1>5, <1>6, <1>7, <1>9, <1>10 DEF InPlace, Fresh
<1>15. \A k \in Keys : EntryRight(p, k)'
  BY <1>2, EntriesStay
<1>16. OldGo'
  <2>1. CASE DOMAIN names = {}
    <3>1. DOMAIN names' = {}
      BY <1>2, <1>5, <2>1
    <3> QED
      BY <3>1 DEF OldGo
  <2>2. CASE DOMAIN names # {}
    <3>1. \A g \in DOMAIN names' : g \in DOMAIN names /\ names'[g] = names[g]
      BY <1>2, <1>5
    <3>2. names'[Newest(DOMAIN names)] = names[Newest(DOMAIN names)]
      BY <1>2, <1>4, <1>7, <2>2
    <3>3. \A g : ~Removes(p, g)
      BY <1>2 DEF Removes
    <3> QED
      BY <1>2, <1>8, <1>10, <3>1, <3>2, <3>3, StillGo
  <2> QED
    BY <2>1, <2>2
<1> QED
  BY <1>8, <1>10, <1>11, <1>13, <1>14, <1>15, <1>16, StepOf DEF ProcSound

LEMMA PruneStep == ASSUME LogInv, NEW p \in Procs, PruneGen(p) PROVE LogInv'
<1>1. PICK g : g = Min(flush[p].todo)
  OBVIOUS
<1>2. /\ UNCHANGED <<files, current, sealed, queue, torn, look, looked, faults>>
      /\ flush[p].phase = "prune" /\ flush[p].todo # {} /\ flush[p].todo \in SUBSET Gens
      /\ flush[p].batch \in Seq(Pairs)
      /\ handles' = [handles EXCEPT ![p] = Without(@, g)] /\ names' = Without(names, g)
      /\ Typed /\ Named /\ FilesThere(p) /\ HitRight(p) /\ TornBehind(p) /\ InPlace(p) /\ current[p] \in Nat
      /\ index[p] \in [Keys -> EntryType \cup {None}]
  BY <1>1, ShapesOf DEF PruneGen, LogInv, ProcSound
<1>3. PICK i : i = Forgotten(index[p], g) /\ index' = [index EXCEPT ![p] = i]
  BY <1>1 DEF PruneGen
<1>4. i \in [Keys -> EntryType \cup {None}] /\ \A k \in Keys : i[k] \in {index[p][k], None}
  BY <1>2, <1>3, ForgottenTyped
<1>5. PICK new : new = [flush[p] EXCEPT !.todo = @ \ {g}] /\ flush' = [flush EXCEPT ![p] = new]
  BY <1>1 DEF PruneGen
<1>6. /\ new \in FlushType /\ new.phase = "prune" /\ new.todo = flush[p].todo \ {g}
  <2>1. flush[p] = [phase |-> "prune", batch |-> flush[p].batch, todo |-> flush[p].todo]
    BY <1>2 DEF Typed, FlushType
  <2>2. new = [phase |-> "prune", batch |-> flush[p].batch, todo |-> flush[p].todo \ {g}]
    BY <1>5, <2>1
  <2> QED
    BY <1>2, <2>2 DEF FlushType
<1>7. PICK gens : gens = DOMAIN names \ {g}
  OBVIOUS
<1>8. gens \in SUBSET DOMAIN names /\ names' = [h \in gens |-> names[h]]
  BY <1>2, <1>7 DEF Without
<1>9. g \in flush[p].todo /\ g \in Nat /\ g <= current[p] - Generations
  BY <1>1, <1>2, LeastOf DEF InPlace, Gens
<1>10. PICK n : n = Newest(DOMAIN names)
  OBVIOUS
<1>11. /\ n \in Nat /\ current[p] <= n /\ current[p] # 0
       /\ (DOMAIN names = {} => n = 0) /\ (DOMAIN names # {} => n \in DOMAIN names)
  BY <1>2, <1>10, NewestIs DEF InPlace, Fresh
<1>12. g # n /\ n # 0
  BY <1>2, <1>9, <1>11, SizesAssumption
<1>13. n \in gens
  BY <1>7, <1>11, <1>12
<1>14. Grown /\ Renamed /\ Named' /\ Newest(DOMAIN names') = n
  BY <1>2, <1>8, <1>10, <1>13, DirectoryShrinks
<1>15. /\ index'[p] = i /\ handles'[p] = Without(handles[p], g) /\ flush'[p] = new
       /\ \A q \in Procs \ {p} : Same(q)
  BY <1>2, <1>3, <1>5 DEF Typed, Same
<1>16. Typed'
  <2>1. index' \in [Procs -> [Keys -> EntryType \cup {None}]] /\ flush' \in [Procs -> FlushType]
    BY <1>2, <1>3, <1>4, <1>5, <1>6 DEF Typed
  <2>2. DOMAIN handles' = Procs
    BY <1>2 DEF Typed
  <2> QED
    BY <1>2, <2>1, <2>2 DEF Typed
<1>17. FilesThere(p)' /\ HitRight(p)'
  BY <1>2, <1>6, <1>15 DEF FilesThere, HitRight, Without
<1>18. ASSUME NEW k \in Keys PROVE EntryRight(p, k)'
  <2>1. CASE i[k] = None
    BY <1>15, <2>1 DEF EntryRight
  <2>2. CASE i[k] = index[p][k]
    <3>1. EntryRight(p, k)
      BY DEF LogInv, ProcSound
    <3> QED
      BY <1>14, <1>15, <2>2, <3>1, EntryStays
  <2> QED
    BY <1>4, <2>1, <2>2
<1>19. TornBehind(p)'
  BY <1>2, <1>6, <1>8, <1>15 DEF TornBehind, Past, Fresh
<1>20. InPlace(p)'
  BY <1>2, <1>6, <1>10, <1>14, <1>15 DEF InPlace, Fresh
<1>21. OldGo'
  <2>1. \A h \in DOMAIN names' : h \in DOMAIN names /\ names'[h] = names[h] /\ h # g
    BY <1>7, <1>8
  <2>2. names'[n] = names[n]
    BY <1>8, <1>13
  <2>3. \A h \in DOMAIN names' : Removes(p, h) => Removes(p, h)'
    BY <1>2, <1>6, <1>10, <1>14, <1>15, <2>1 DEF Removes
  <2> QED
    BY <1>2, <1>10, <1>14, <1>15, <2>1, <2>2, <2>3, StillGo
<1> QED
  BY <1>14, <1>15, <1>16, <1>17, <1>18, <1>19, <1>20, <1>21, StepOf DEF ProcSound

\* What making a file, or finding it there, does to the directory.
LEMMA Made ==
  ASSUME LogInv, NEW c \in Gens, Make(c)
  PROVE  /\ Grown /\ Renamed /\ Named'
         /\ DOMAIN names' = DOMAIN names \cup {c} /\ \A g \in DOMAIN names : names'[g] = names[g]
         /\ names'[c] \in DOMAIN files' /\ (c \notin DOMAIN names => names'[c] = Len(files) + 1)
         /\ Newest(DOMAIN names') = IF c > Newest(DOMAIN names) THEN c ELSE Newest(DOMAIN names)
<1>1. Named /\ Newest(DOMAIN names) \in Nat
  BY NewestIs DEF LogInv
<1>2. CASE c \in DOMAIN names
  <2>1. UNCHANGED <<files, names>>
    BY <1>2 DEF Make
  <2>2. Grown /\ Renamed /\ Named'
    BY <2>1, FilesStay
  <2>3. c <= Newest(DOMAIN names) /\ c \in Nat
    BY <1>1, <1>2, NewestIs DEF Gens
  <2>4. ~(c > Newest(DOMAIN names))
    BY <1>1, <2>3
  <2>5. DOMAIN names \cup {c} = DOMAIN names /\ names[c] \in DOMAIN files
    BY <1>1, <1>2 DEF Named
  <2> QED
    BY <1>2, <2>1, <2>2, <2>4, <2>5
<1>3. CASE c \notin DOMAIN names
  <2>1. files' = Append(files, <<>>) /\ names' = With(names, c, Len(files) + 1)
    BY <1>3 DEF Make
  <2>2. files \in Seq(Seq(Cells)) /\ Len(files) \in Nat /\ DOMAIN files = 1 .. Len(files)
    BY <1>1 DEF Named
  <2>3. /\ files' \in Seq(Seq(Cells)) /\ DOMAIN files' = 1 .. Len(files) + 1
        /\ \A f \in DOMAIN files : files'[f] = files[f]
    BY <2>1, <2>2
  <2>4. /\ DOMAIN names' = DOMAIN names \cup {c} /\ names'[c] = Len(files) + 1
        /\ \A g \in DOMAIN names : names'[g] = names[g]
    BY <1>3, <2>1 DEF With
  <2>5. /\ Newest(DOMAIN names') = IF c > Newest(DOMAIN names) THEN c ELSE Newest(DOMAIN names)
        /\ \E b \in Nat : DOMAIN names' \subseteq 1 .. b
    BY <1>1, <2>4, NewestMade
  <2>6. c \in Nat /\ Newest(DOMAIN names') \in Nat /\ Newest(DOMAIN names) <= Newest(DOMAIN names')
    BY <1>1, <2>5 DEF Gens
  <2>7. Len(files) + 1 \notin DOMAIN files /\ Len(files) + 1 \in DOMAIN files' /\ DOMAIN files \subseteq DOMAIN files'
    BY <2>2, <2>3
  <2>8. Renamed
    BY <1>1, <2>4, <2>6, <2>7 DEF Renamed
  <2>9. Grown
    <3>1. \A f \in DOMAIN files : Len(files[f]) \in Nat
      BY <2>2
    <3> QED
      BY <2>3, <2>7, <3>1 DEF Grown
  <2>10. Named'
    <3>1. \A g \in DOMAIN names' : names'[g] \in DOMAIN files'
      BY <1>1, <2>4, <2>7 DEF Named
    <3>2. \A g, h \in DOMAIN names' : names'[g] = names'[h] => g = h
      BY <1>1, <2>4, <2>7 DEF Named
    <3> QED
      BY <2>3, <2>5, <3>1, <3>2 DEF Named
  <2> QED
    BY <1>3, <2>4, <2>5, <2>7, <2>8, <2>9, <2>10
<1> QED
  BY <1>2, <1>3

\* A file made again under an old name is newer than the newest generation; a
\* new generation's maker is going to remove the oldest.
LEMMA MadeGo ==
  ASSUME LogInv, NEW p \in Procs, NEW c \in Gens, Make(c), UNCHANGED faults, \A q \in Procs \ {p} : Same(q),
         \A g : ~Removes(p, g),
         c > Newest(DOMAIN names) => current'[p] = c /\ flush'[p].phase = "list"
  PROVE  OldGo'
<1>1. PICK n : n = Newest(DOMAIN names)
  OBVIOUS
<1>2. PICK m : m = Newest(DOMAIN names')
  OBVIOUS
<1>3. /\ DOMAIN names' = DOMAIN names \cup {c} /\ \A g \in DOMAIN names : names'[g] = names[g]
      /\ c \notin DOMAIN names => names'[c] = Len(files) + 1
      /\ m = IF c > n THEN c ELSE n
  BY <1>1, <1>2, Made
<1>4. Named /\ n \in Nat /\ (DOMAIN names # {} => n \in DOMAIN names) /\ (DOMAIN names = {} => n = 0) /\ c \in Nat /\ c # 0
  BY <1>1, NewestIs DEF LogInv, Gens
<1> SUFFICES ASSUME faults' = 0, NEW g \in DOMAIN names', g <= m - Generations, ~(names'[g] > names'[m])
             PROVE  \E q \in Procs : Removes(q, g)'
  BY <1>2 DEF OldGo
<1>5. CASE c > n
  <2>1. Removes(p, g)'
    BY <1>1, <1>2, <1>3, <1>5 DEF Removes
  <2> QED
    BY <2>1
<1>6. CASE ~(c > n)
  <2>1. m = n /\ n \in DOMAIN names
    BY <1>3, <1>4, <1>6
  <2>2. names'[m] = names[n] /\ names[n] \in 1 .. Len(files) /\ Len(files) \in Nat
    BY <1>3, <1>4, <2>1 DEF Named
  <2>3. g \in DOMAIN names
    <3>1. SUFFICES ASSUME g \notin DOMAIN names PROVE FALSE
      OBVIOUS
    <3>2. names'[g] = Len(files) + 1
      BY <1>3, <3>1
    <3> QED
      BY <2>2, <3>2
  <2>4. PICK q \in Procs : Removes(q, g)
    BY <1>1, <1>3, <2>1, <2>2, <2>3 DEF LogInv, OldGo
  <2>5. q # p
    BY <2>4
  <2>6. Removes(q, g)'
    BY <1>1, <1>2, <2>1, <2>4, <2>5 DEF Removes, Same
  <2> QED
    BY <2>6
<1> QED
  BY <1>5, <1>6

\* A process makes a file, and its flush goes on.
LEMMA MakeStep ==
  ASSUME LogInv, NEW p \in Procs, Make(current[p]), flush[p].phase \in {"create", "open"},
         NEW new \in FlushType, flush' = [flush EXCEPT ![p] = new],
         \/ flush[p].phase = "create" /\ new.phase = "list"
         \/ flush[p].phase = "open" /\ new.phase = "write" /\ new.file = names'[current[p]],
         UNCHANGED <<index, handles, current, sealed, queue, torn, look, looked, faults>>
  PROVE  LogInv'
<1>1. PICK c : c = current[p]
  OBVIOUS
<1>2. Typed /\ Named /\ FilesThere(p) /\ HitRight(p) /\ TornBehind(p) /\ InPlace(p)
  BY DEF LogInv, ProcSound
<1>3. c \in Gens
  BY <1>1, <1>2 DEF Typed, InPlace, Fresh, Gens
<1>4. /\ Grown /\ Renamed /\ Named'
      /\ DOMAIN names' = DOMAIN names \cup {c} /\ \A g \in DOMAIN names : names'[g] = names[g]
      /\ names'[c] \in DOMAIN files' /\ (c \notin DOMAIN names => names'[c] = Len(files) + 1)
      /\ Newest(DOMAIN names') = IF c > Newest(DOMAIN names) THEN c ELSE Newest(DOMAIN names)
  BY <1>1, <1>3, Made
<1>5. flush'[p] = new /\ \A q \in Procs \ {p} : Same(q)
  BY <1>2 DEF Typed, Same
<1>6. Typed'
  <2>1. flush' \in [Procs -> FlushType]
    BY <1>2 DEF Typed
  <2> QED
    BY <1>2, <2>1 DEF Typed
<1>7. Newest(DOMAIN names) \in Nat /\ c \in Nat /\ c # 0
  BY <1>2, <1>3, NewestIs DEF Gens
<1>8. ASSUME NEW g \in DOMAIN names', names'[g] \in torn[p] PROVE g \in DOMAIN names /\ g < c
  <2>1. names'[g] \in DOMAIN files
    BY <1>2, <1>8 DEF FilesThere
  <2>2. Len(files) + 1 \notin DOMAIN files
    BY <1>2 DEF Named
  <2>3. g \in DOMAIN names
    BY <1>4, <2>1, <2>2
  <2>4. names[g] \in torn[p] /\ Fresh(p)
    BY <1>4, <1>8, <2>3 DEF Fresh
  <2>5. g < current[p]
    BY <2>3, <2>4, StrictlyBehind
  <2> QED
    BY <1>1, <2>3, <2>5
<1>9. FilesThere(p)'
  <2>1. flush'[p].phase \in {"write", "verify", "rescan"} => flush'[p].file \in DOMAIN files'
    BY <1>1, <1>4, <1>5
  <2> QED
    BY <1>2, <1>4, <2>1 DEF FilesThere, Grown
<1>10. HitRight(p)'
  BY <1>2 DEF HitRight
<1>11. TornBehind(p)'
  BY <1>1, <1>8 DEF TornBehind, Past
<1>12. InPlace(p)'
  <2>1. c <= Newest(DOMAIN names')
    BY <1>4, <1>7
  <2>2. CASE flush[p].phase = "create" /\ new.phase = "list"
    BY <1>1, <1>5, <1>7, <2>1, <2>2 DEF InPlace, Fresh
  <2>3. CASE flush[p].phase = "open" /\ new.phase = "write" /\ new.file = names'[current[p]]
    <3>1. names'[c] \notin torn[p]
      BY <1>4, <1>7, <1>8
    <3>2. ~sealed[p]
      BY <1>2, <2>3 DEF InPlace
    <3> QED
      BY <1>1, <1>5, <1>7, <2>3, <3>1, <3>2 DEF InPlace, Fresh
  <2> QED
    BY <2>2, <2>3
<1>13. \A k \in Keys : EntryRight(p, k)'
  <2>1. \A k \in Keys : EntryRight(p, k)
    BY DEF LogInv, ProcSound
  <2> QED
    BY <1>4, <2>1, EntryStays
<1>14. OldGo'
  <2>1. \A g : ~Removes(p, g)
    BY DEF Removes
  <2>2. c > Newest(DOMAIN names) => current'[p] = c /\ flush'[p].phase = "list"
    <3>1. CASE flush[p].phase = "create" /\ new.phase = "list"
      BY <1>1, <1>5, <3>1
    <3>2. CASE flush[p].phase = "open"
      <4>1. c <= Newest(DOMAIN names)
        BY <1>1, <1>2, <3>2 DEF InPlace
      <4> QED
        BY <1>7, <4>1
    <3> QED
      BY <3>1, <3>2
  <2> QED
    BY <1>1, <1>3, <1>5, <2>1, <2>2, MadeGo
<1> QED
  BY <1>4, <1>5, <1>6, <1>9, <1>10, <1>11, <1>12, <1>13, <1>14, StepOf DEF ProcSound

LEMMA CreateStep == ASSUME LogInv, NEW p \in Procs, CreateGen(p) PROVE LogInv'
<1>1. /\ UNCHANGED <<index, handles, current, sealed, queue, torn, look, looked, faults>>
      /\ flush[p].phase = "create" /\ Make(current[p]) /\ flush[p].batch \in Seq(Pairs)
  BY ShapesOf DEF CreateGen, Goto, LogInv
<1>2. PICK new : new = At("list", flush[p].batch) /\ flush' = [flush EXCEPT ![p] = new]
  BY DEF CreateGen, Goto
<1>3. new \in FlushType /\ new.phase = "list"
  BY <1>1, <1>2 DEF At, FlushType
<1> QED
  BY <1>1, <1>2, <1>3, MakeStep

LEMMA AppendStep == ASSUME LogInv, NEW p \in Procs, OpenForAppend(p) PROVE LogInv'
<1>1. /\ UNCHANGED <<index, handles, current, sealed, queue, torn, look, looked, faults>>
      /\ flush[p].phase = "open" /\ Make(current[p]) /\ flush[p].batch \in Seq(Pairs)
      /\ Typed /\ InPlace(p)
  BY ShapesOf DEF OpenForAppend, LogInv, ProcSound
<1>2. PICK new : /\ new = [phase |-> "write", batch |-> flush[p].batch, file |-> names'[current[p]]]
                 /\ flush' = [flush EXCEPT ![p] = new]
  BY <1>1 DEF OpenForAppend
<1>3. names'[current[p]] \in Nat
  <2>1. PICK c : c = current[p]
    OBVIOUS
  <2>2. c \in Gens
    BY <1>1, <2>1 DEF Typed, InPlace, Fresh, Gens
  <2>3. names'[c] \in DOMAIN files' /\ Named'
    BY <1>1, <2>1, <2>2, Made
  <2>4. DOMAIN files' \subseteq Nat
    BY <2>3 DEF Named
  <2> QED
    BY <2>1, <2>3, <2>4
<1>4. new \in FlushType /\ new.phase = "write" /\ new.file = names'[current[p]]
  BY <1>1, <1>2, <1>3 DEF FlushType
<1> QED
  BY <1>1, <1>2, <1>4, MakeStep

LEMMA WriteStep == ASSUME LogInv, NEW p \in Procs, WriteBatch(p) PROVE LogInv'
<1>1. PICK f, cells : f = flush[p].file /\ cells = Serialized(flush[p].batch)
  OBVIOUS
<1>2. /\ UNCHANGED <<names, index, handles, current, sealed, queue, torn, look, looked>>
      /\ flush[p].phase = "write" /\ flush[p].batch \in Seq(Pairs) /\ f \in Nat /\ f \in DOMAIN files
      /\ Typed /\ Named /\ FilesThere(p) /\ HitRight(p) /\ TornBehind(p) /\ InPlace(p)
  BY <1>1, ShapesOf DEF WriteBatch, LogInv, ProcSound, FilesThere
<1>3. PICK n \in 1 .. Len(cells) :
        /\ IF n = Len(cells) THEN UNCHANGED faults ELSE faults < MaxFaults /\ faults' = faults + 1
        /\ files' = [files EXCEPT ![f] = @ \o SubSeq(cells, 1, n)]
  BY <1>1 DEF WriteBatch
<1>4. cells \in Seq(Cells)
  BY <1>1, <1>2, SerializedIs
<1>5. PICK tail, grown : tail = SubSeq(cells, 1, n) /\ grown = files[f] \o tail
  OBVIOUS
<1>6. tail \in Seq(Cells)
  <2>1. n \in Int /\ 1 \in Int /\ \A x \in 1 .. n : cells[x] \in Cells
    BY <1>4
  <2> QED
    BY <1>5, <2>1, SubSeqProperties
<1>7. files \in Seq(Seq(Cells)) /\ files[f] \in Seq(Cells) /\ Len(files[f]) \in Nat /\ Len(tail) \in Nat
  BY <1>2, <1>6 DEF Named
<1>8. /\ grown \in Seq(Cells) /\ Len(grown) \in Nat /\ Len(files[f]) <= Len(grown)
      /\ \A x \in 1 .. Len(files[f]) : grown[x] = files[f][x]
  BY <1>5, <1>6, <1>7
<1>9. files' = [files EXCEPT ![f] = grown]
  BY <1>3, <1>5
<1>10. files' \in Seq(Seq(Cells)) /\ DOMAIN files' = DOMAIN files /\ files'[f] = grown
       /\ \A x \in DOMAIN files \ {f} : files'[x] = files[x]
  BY <1>2, <1>7, <1>8, <1>9
<1>11. Grown
  <2>1. \A x \in DOMAIN files : Len(files[x]) \in Nat
    BY <1>7
  <2> QED
    BY <1>8, <1>10, <2>1 DEF Grown
<1>12. Renamed
  BY <1>2, NewestIs DEF Renamed
<1>13. Named'
  BY <1>2, <1>10 DEF Named
<1>14. faults' \in 0 .. MaxFaults /\ (faults' = faults \/ faults' # 0)
  BY <1>2, <1>3, BoundsAssumption DEF Typed
<1>15. PICK new : new = [flush[p] EXCEPT !.phase = "verify"] /\ flush' = [flush EXCEPT ![p] = new]
  BY DEF WriteBatch
<1>16. new \in FlushType /\ new.phase = "verify" /\ new.file = f
  <2>1. flush[p] = [phase |-> "write", batch |-> flush[p].batch, file |-> f]
    BY <1>1, <1>2 DEF Typed, FlushType
  <2>2. new = [phase |-> "verify", batch |-> flush[p].batch, file |-> f]
    BY <1>15, <2>1
  <2> QED
    BY <1>2, <2>2 DEF FlushType
<1>17. flush'[p] = new /\ \A q \in Procs \ {p} : Same(q)
  BY <1>2, <1>15 DEF Typed, Same
<1>18. Typed'
  <2>1. flush' \in [Procs -> FlushType]
    BY <1>2, <1>15, <1>16 DEF Typed
  <2> QED
    BY <1>2, <1>14, <2>1 DEF Typed
<1>19. FilesThere(p)' /\ HitRight(p)'
  BY <1>2, <1>10, <1>16, <1>17 DEF FilesThere, HitRight
<1>20. TornBehind(p)'
  <2> SUFFICES ASSUME NEW g \in DOMAIN names, names[g] \in torn[p] PROVE Past(p, g)'
    BY <1>2 DEF TornBehind
  <2>1. g < current[p]
    BY <1>2, StrictlyBehind
  <2> QED
    BY <1>2, <2>1 DEF Past
<1>21. InPlace(p)'
  BY <1>1, <1>2, <1>16, <1>17 DEF InPlace, Fresh
<1>22. \A k \in Keys : EntryRight(p, k)'
  <2>1. \A k \in Keys : EntryRight(p, k)
    BY DEF LogInv, ProcSound
  <2> QED
    BY <1>2, <1>11, <2>1, EntryStays
<1>23. OldGo'
  <2>1. \A g : ~Removes(p, g)
    BY <1>2 DEF Removes
  <2> QED
    BY <1>2, <1>14, <1>17, <2>1, StillGo
<1> QED
  BY <1>11, <1>12, <1>13, <1>17, <1>18, <1>19, <1>20, <1>21, <1>22, <1>23, StepOf DEF ProcSound

-----------------------------------------------------------------------------
(***************************************************************************)
(* The theorems.                                                           *)
(***************************************************************************)
LEMMA LogInit == Init => LogInv
<1> SUFFICES ASSUME Init PROVE LogInv
  OBVIOUS
<1>1. /\ [phase |-> "start"] \in FlushType /\ Idle \in LookType /\ NoEntries \in [Keys -> EntryType \cup {None}]
      /\ Idle.phase = "idle"
  BY DEF FlushType, LookType, Idle, NoEntries
<1>2. Typed
  BY <1>1, BoundsAssumption DEF Init, Typed
<1>3. Named
  <2>1. DOMAIN names = {} /\ files = <<>>
    BY DEF Init
  <2>2. DOMAIN names \subseteq 1 .. 0
    BY <2>1
  <2> QED
    BY <2>1, <2>2 DEF Named
<1>4. ASSUME NEW p \in Procs PROVE ProcSound(p)
  <2>1. /\ index[p] = NoEntries /\ handles[p] = <<>> /\ flush[p] = [phase |-> "start"] /\ look[p] = Idle
        /\ torn[p] = {}
    BY DEF Init
  <2>2. FilesThere(p) /\ HitRight(p) /\ TornBehind(p) /\ InPlace(p)
    BY <1>1, <2>1 DEF FilesThere, HitRight, TornBehind, InPlace, Fresh
  <2>3. \A k \in Keys : EntryRight(p, k)
    BY <2>1 DEF EntryRight, NoEntries
  <2> QED
    BY <2>2, <2>3 DEF ProcSound
<1>5. OldGo
  <2>1. DOMAIN names = {}
    BY DEF Init
  <2> QED
    BY <2>1 DEF OldGo
<1> QED
  BY <1>2, <1>3, <1>4, <1>5 DEF LogInv

LEMMA LogUnchanged == ASSUME LogInv, UNCHANGED vars PROVE LogInv'
<1>1. UNCHANGED <<files, names, index, handles, current, sealed, queue, flush, torn, look, looked, faults>>
  BY DEF vars, memory
<1>2. Typed'
  BY <1>1 DEF LogInv, Typed
<1>3. Grown /\ Renamed /\ Named'
  BY <1>1, FilesStay
<1>4. \A q \in Procs : ProcSound(q)'
  BY <1>1, <1>3, OthersStay DEF Same
<1>5. OldGo'
  BY <1>1 DEF LogInv, OldGo, Removes
<1> QED
  BY <1>2, <1>3, <1>4, <1>5 DEF LogInv

LEMMA LogNext == ASSUME LogInv, Next PROVE LogInv'
<1>1. PICK p \in Procs : \/ Starting(p) \/ Reading(p) \/ Writing(p) \/ FlushFails(p) \/ Die(p)
                         \/ \E k \in Keys : Lookup(p, k)
  BY DEF Next
<1>2. CASE Starting(p)
  BY <1>2, ListStep, ScanStep, OffStep DEF Starting
<1>3. CASE Reading(p)
  BY <1>3, OpenStep, ReadStep, ReadFailsStep, CheckStep, UseStep, RefetchStep DEF Reading
<1>4. CASE Writing(p)
  BY <1>4, TakeStep, OffStep, NextGenStep, CreateStep, ListOldStep, PruneStep, PrunedStep, AppendStep,
     WriteStep, VerifyStep, RescanStep DEF Writing
<1>5. CASE FlushFails(p) \/ Die(p)
  BY <1>5, FlushFailsStep, DieStep
<1>6. CASE \E k \in Keys : Lookup(p, k)
  BY <1>6, LookupStep
<1> QED
  BY <1>1, <1>2, <1>3, <1>4, <1>5, <1>6

\* What later scans find are files there have been.
Later == tornLater \in [Procs -> SUBSET DOMAIN files]

LEMMA LaterNext == ASSUME LogInv, Later, Next PROVE Later'
<1>1. PICK p \in Procs : \/ Starting(p) \/ Reading(p) \/ Writing(p) \/ FlushFails(p) \/ Die(p)
                         \/ \E k \in Keys : Lookup(p, k)
  BY DEF Next
<1>2. files \in Seq(Seq(Cells)) /\ \A g \in DOMAIN names : names[g] \in DOMAIN files
  BY DEF LogInv, Named
<1>3. ASSUME NEW g, Make(g) PROVE DOMAIN files \subseteq DOMAIN files'
  BY <1>2, <1>3 DEF Make
<1>4. CASE Starting(p) \/ Reading(p) \/ FlushFails(p) \/ \E k \in Keys : Lookup(p, k)
  <2>1. UNCHANGED <<files, tornLater>>
    BY <1>4 DEF Starting, ListGens, ScanGen, Ready, Reading, OpenGen, ReadEntry, ReadFails, CheckHash,
       Use, Refetch, FlushFails, Lookup, memory
  <2> QED
    BY <2>1 DEF Later
<1>5. CASE CreateGen(p) \/ OpenForAppend(p)
  <2>1. UNCHANGED tornLater /\ Make(current[p])
    BY <1>5 DEF CreateGen, OpenForAppend
  <2> QED
    BY <1>3, <2>1 DEF Later
<1>6. CASE WriteBatch(p)
  <2>1. UNCHANGED tornLater /\ DOMAIN files \subseteq DOMAIN files'
    BY <1>2, <1>6 DEF WriteBatch
  <2> QED
    BY <2>1 DEF Later
<1>7. CASE Rescan(p)
  <2>1. PICK found \in SUBSET DOMAIN files : tornLater' = [tornLater EXCEPT ![p] = found]
    <3>1. CASE /\ current[p] \in DOMAIN names
               /\ Parsed(files[names[current[p]]]) # Len(files[names[current[p]]])
      <4>1. tornLater' = [tornLater EXCEPT ![p] = tornLater[p] \cup {names[current[p]]}]
        BY <1>7, <3>1 DEF Rescan, Later
      <4>2. tornLater[p] \cup {names[current[p]]} \in SUBSET DOMAIN files
        BY <1>2, <3>1 DEF Later
      <4> QED
        BY <4>1, <4>2
    <3>2. CASE ~(/\ current[p] \in DOMAIN names
                 /\ Parsed(files[names[current[p]]]) # Len(files[names[current[p]]]))
      <4>1. tornLater' = [tornLater EXCEPT ![p] = tornLater[p]]
        BY <1>7, <3>2 DEF Rescan, Later
      <4>2. tornLater[p] \in SUBSET DOMAIN files
        BY DEF Later
      <4> QED
        BY <4>1, <4>2
    <3> QED
      BY <3>1, <3>2
  <2>2. UNCHANGED files
    BY <1>7 DEF Rescan
  <2> QED
    BY <2>1, <2>2 DEF Later
<1>8. CASE Die(p)
  <2>1. UNCHANGED files /\ tornLater' = [tornLater EXCEPT ![p] = {}]
    BY <1>8 DEF Die, Started
  <2> QED
    BY <2>1 DEF Later
<1>9. CASE \/ TakeBatch(p) \/ Drained(p) \/ NextGen(p) \/ ListOld(p) \/ PruneGen(p) \/ Pruned(p)
           \/ VerifyBatch(p)
  <2>1. UNCHANGED <<files, tornLater>>
    BY <1>9 DEF TakeBatch, Drained, NextGen, ListOld, PruneGen, Pruned, VerifyBatch
  <2> QED
    BY <2>1 DEF Later
<1> QED
  BY <1>1, <1>4, <1>5, <1>6, <1>7, <1>8, <1>9 DEF Writing

LEMMA LogInvMeans == LogInv /\ Later => LogSound /\ OldGenerationsGo
<1> SUFFICES ASSUME LogInv, Later PROVE LogSound /\ OldGenerationsGo
  OBVIOUS
<1>1. Typed /\ Named
  BY DEF LogInv
<1>2. \A p \in Procs : /\ FilesThere(p) /\ (\A k \in Keys : EntryRight(p, k)) /\ HitRight(p) /\ InPlace(p)
  BY DEF LogInv, ProcSound
<1>3. TypeOK
  <2>1. index \in [Procs -> [Keys -> Entries \cup {None}]]
    <3>1. ASSUME NEW p \in Procs, NEW k \in Keys PROVE index[p][k] \in Entries \cup {None}
      <4>1. index[p][k] \in EntryType \cup {None}
        BY <1>1 DEF Typed
      <4>2. index[p][k] # None /\ index[p][k].file # None => index[p][k].file \in DOMAIN files
        BY <1>2 DEF EntryRight
      <4> QED
        BY <4>1, <4>2 DEF Entries, EntryType, Gens
    <3>2. index \in [Procs -> [Keys -> EntryType \cup {None}]]
      BY <1>1 DEF Typed
    <3>3. \A p \in Procs : index[p] \in [Keys -> Entries \cup {None}]
      BY <3>1, <3>2
    <3> QED
      BY <3>2, <3>3
  <2>2. torn \in [Procs -> SUBSET DOMAIN files]
    BY <1>1, <1>2 DEF Typed, FilesThere
  <2>3. \A p \in Procs : flush[p].phase \in Phases
    <3>1. \A p \in Procs : flush[p] \in FlushType
      BY <1>1 DEF Typed
    <3> QED
      BY <3>1 DEF FlushType, Phases
  <2>4. \A p \in Procs : /\ look[p].phase \in {"idle", "open", "read", "check", "hit", "miss"}
                         /\ look[p].phase \in {"check", "hit"} => look[p].data \in Cells
    <3>1. \A p \in Procs : look[p] \in LookType
      BY <1>1 DEF Typed
    <3> QED
      BY <3>1 DEF LookType
  <2>5. DOMAIN names \subseteq Nat \ {0} /\ \A g \in DOMAIN names : names[g] \in DOMAIN files
    BY <1>1 DEF Named
  <2>6. \A p \in Procs : \A g \in DOMAIN handles[p] : handles[p][g] \in DOMAIN files
    BY <1>2 DEF FilesThere
  <2>7. files \in Seq(Seq(Cells))
    BY <1>1 DEF Named
  <2>8. queue \in [Procs -> Seq(Keys \X Cells)]
    BY <1>1 DEF Typed, Pairs
  <2>9. /\ current \in [Procs -> Nat] /\ sealed \in [Procs -> BOOLEAN]
        /\ looked \in 0 .. MaxLookups /\ faults \in 0 .. MaxFaults
    BY <1>1 DEF Typed
  <2> QED
    BY <2>1, <2>2, <2>3, <2>4, <2>5, <2>6, <2>7, <2>8, <2>9 DEF TypeOK, Later
<1>4. NeverAWrongByte
  BY <1>2 DEF NeverAWrongByte, HitRight
<1>5. OffsetsRight
  BY <1>2 DEF OffsetsRight, EntryRight
<1>6. TornAtStartIsLeft
  BY <1>2 DEF TornAtStartIsLeft, InPlace
<1>7. OldGenerationsGo
  <2>1. faults \in Nat
    BY <1>1, BoundsAssumption DEF Typed
  <2>2. CASE faults = 0
    BY <2>2 DEF LogInv, OldGo, OldGenerationsGo, Removes
  <2>3. CASE faults # 0
    BY <2>1, <2>3 DEF OldGenerationsGo
  <2> QED
    BY <2>2, <2>3
<1> QED
  BY <1>3, <1>4, <1>5, <1>6, <1>7 DEF LogSound

\* Whatever the processes do between each other's file operations, what each
\* knows of the directory stays true enough to act on.
THEOREM LogInvariant == CacheSpec => [](LogInv /\ Later)
<1>1. CacheInit => LogInv /\ Later
  BY LogInit DEF CacheInit, Init, Later
<1>2. LogInv /\ Later /\ [SmallStep \/ LargeStep]_cacheVars => (LogInv /\ Later)'
  <2> SUFFICES ASSUME LogInv, Later, [SmallStep \/ LargeStep]_cacheVars PROVE (LogInv /\ Later)'
    OBVIOUS
  <2>1. Next \/ UNCHANGED vars
    BY DEF SmallStep, LargeStep, cacheVars
  <2>2. UNCHANGED vars => Later'
    BY DEF vars, memory, Later
  <2> QED
    BY <2>1, <2>2, LogNext, LaterNext, LogUnchanged
<1> QED
  BY <1>1, <1>2, PTL DEF CacheSpec

\* Any number of processes, lookups and faults, generations of any size: a hit
\* is of the key that was asked for, an entry read back leads to its record, and
\* nothing is written past a tail found torn.
THEOREM LogStaysSound == CacheSpec => []LogSound
BY LogInvariant, LogInvMeans, PTL

\* Without a fault, a generation past the limit is about to be removed by the
\* maker of the newest, or was made again after it.
THEOREM OldGenerationsAreRemoved == CacheSpec => []OldGenerationsGo
BY LogInvariant, LogInvMeans, PTL
=============================================================================
