------------------------ MODULE CompleteReaderProofs ------------------------
(***************************************************************************)
(* Proofs about CompleteReader: for any number of queries, records, pages, *)
(* cache sizes and faults, nothing that was freed is used, everything is   *)
(* released, and a query is answered with committed bytes or fails for a   *)
(* reason of its own.                                                      *)
(***************************************************************************)
EXTENDS CompleteReader, SequenceTheorems, WellFoundedInduction, TLAPS

Phases == {"head", "wave", "encoder", "tables", "open", "release", "scanner", "source", "closed"}
Fetched == [page : {PageOf(id) : id \in Ids}, state : {"pending", "ok", "failed"}]
\* What a query has in hand; once it wants a record, which.
Held ==
    {h \in [at : Places, id : Ids \cup {0}, fetch : Nat, bytes : {"none", "good", "bad"}] :
        h.at \in {"page", "record"} => h.id \in Ids}

Typed ==
    /\ phase \in Phases /\ source \in {"open", "closed"}
    /\ encoder \in {"none", "loading", "ready", "failed", "freed"}
    /\ scanner \in {"none", "staging", "ready", "failed", "freed"}
    /\ waiters \in Seq(Queries \cup {Release})
    /\ query \in [Queries -> Held]
    /\ fetches \in Seq(Fetched)
    /\ faults \in Nat /\ causes \in [Queries -> Nat]

\* The encoder is released: close() is past its wait for it.
Past == {"scanner", "source", "closed"}

\* Who waits for the encoder: queries, each once, and after the last of them
\* close() itself, which no query can come behind.
Lined ==
    /\ encoder = "none" => waiters = <<>>
    /\ \A i, j \in 1 .. Len(waiters) : waiters[i] = waiters[j] => i = j
    /\ \A i \in 1 .. Len(waiters) : waiters[i] # Release => query[waiters[i]].at = "encode"
    /\ phase # "release" => \A i \in 1 .. Len(waiters) : waiters[i] # Release
    /\ phase = "release" /\ encoder # "none" =>
           Len(waiters) > 0 /\ waiters[Len(waiters)] = Release
    /\ phase \in Past => waiters = <<>>

\* What is there to use, and what is released, follows the phase.
Phased ==
    /\ phase \in {"head", "wave"} => encoder = "none"
    /\ encoder = "freed" => phase \in Past
    /\ phase \in Past => encoder \notin {"loading", "ready"}
    /\ scanner = "freed" => phase \in {"source", "closed"}
    /\ phase \in {"source", "closed"} => scanner \notin {"staging", "ready"}
    /\ source = "closed" <=> phase = "closed"

\* Fetches that are kept: at most one of a page, none of them failed.
OnePerPage(kept, from) ==
    /\ kept \in Seq(Nat) /\ Len(kept) <= DigestPages
    /\ \A i \in 1 .. Len(kept) : kept[i] \in 1 .. Len(from) /\ from[kept[i]].state # "failed"
    /\ \A i, j \in 1 .. Len(kept) : from[kept[i]].page = from[kept[j]].page => i = j

Cached ==
    /\ OnePerPage(digestPages, fetches)
    /\ recordCache \in Seq(Ids) /\ Len(recordCache) <= RecordCache

\* A query that fails, or will, has a cause that is newer than the query.
HasCause(q) ==
    /\ query[q].at = "failed" => encoder = "failed" \/ Cause > causes[q]
    /\ query[q].at = "page" =>
           /\ query[q].fetch \in 1 .. Len(fetches)
           /\ fetches[query[q].fetch].state = "failed" \/ query[q].bytes = "bad" => Cause > causes[q]

Caused == \A q \in Queries : causes[q] <= faults /\ HasCause(q)

\* The inductive invariant.
ReaderInv == Typed /\ Lined /\ Phased /\ Cached /\ Caused /\ OnlyVerifiedRecords /\ NoReadThroughFreed

-----------------------------------------------------------------------------
(***************************************************************************)
(* The caches, which keep the order of their last use                      *)
(***************************************************************************)

\* r is s without its first x, or s when it has none.
Lost(r, s, x) ==
    \/ r = s /\ \A i \in 1 .. Len(s) : s[i] # x
    \/ \E c \in 1 .. Len(s) :
        /\ s[c] = x /\ Len(r) = Len(s) - 1
        /\ \A j \in 1 .. Len(r) : r[j] = s[IF j < c THEN j ELSE j + 1]

LEMMA RemoveAtIs ==
    ASSUME NEW S, NEW s \in Seq(S), NEW c \in 1 .. Len(s)
    PROVE  /\ RemoveAt(s, c) \in Seq(S) /\ Len(RemoveAt(s, c)) = Len(s) - 1
           /\ \A j \in 1 .. Len(RemoveAt(s, c)) : RemoveAt(s, c)[j] = s[IF j < c THEN j ELSE j + 1]
<1> DEFINE a == SubSeq(s, 1, c - 1)
           b == SubSeq(s, c + 1, Len(s))
<1>1. /\ Len(s) \in Nat /\ c \in Nat
      /\ a \in Seq(S) /\ Len(a) = c - 1 /\ \A j \in 1 .. c - 1 : a[j] = s[j]
      /\ b \in Seq(S) /\ Len(b) = Len(s) - c /\ \A j \in 1 .. Len(s) - c : b[j] = s[c + j]
  OBVIOUS
<1> HIDE DEF a, b
<1>2. /\ a \o b \in Seq(S) /\ Len(a \o b) = Len(s) - 1
      /\ \A j \in 1 .. Len(s) - 1 : (a \o b)[j] = IF j <= c - 1 THEN a[j] ELSE b[j - (c - 1)]
  <2>1. a \o b \in Seq(S) /\ Len(a \o b) = Len(a) + Len(b)
        /\ \A i \in 1 .. Len(a) + Len(b) : (a \o b)[i] = IF i <= Len(a) THEN a[i] ELSE b[i - Len(a)]
    BY <1>1, ConcatProperties, Zenon
  <2> QED BY <1>1, <2>1
<1>3. \A j \in 1 .. Len(s) - 1 : (a \o b)[j] = s[IF j < c THEN j ELSE j + 1]
  BY <1>1, <1>2
<1> QED BY <1>2, <1>3 DEF RemoveAt, a, b

LEMMA NatLeast ==
    ASSUME NEW I \in SUBSET Nat, I # {}
    PROVE  \E m \in I : \A n \in I : m <= n
<1>1. PICK m \in I : \A n \in I : <<n, m>> \notin OpToRel(<, Nat)
  BY NatLessThanWellFounded, WFMin
<1>2. ASSUME NEW n \in I, n < m PROVE FALSE
  <2>1. <<n, m>> \in Nat \X Nat /\ <<n, m>>[1] < <<n, m>>[2]
    BY <1>2
  <2>2. <<n, m>> \in OpToRel(<, Nat)
    BY <2>1 DEF OpToRel
  <2> QED BY <1>1, <2>2
<1>3. m \in Nat /\ \A n \in I : n \in Nat
  OBVIOUS
<1> QED BY <1>2, <1>3

\* RemoveFirst, whose index is the least of those that hold x.
LEMMA RemoveFirstIs ==
    ASSUME NEW S, NEW s \in Seq(S), NEW x
    PROVE  /\ RemoveFirst(s, x) \in Seq(S)
           /\ Lost(RemoveFirst(s, x), s, x)
<1> DEFINE I == {i \in 1 .. Len(s) : s[i] = x}
<1>1. CASE \E i \in 1 .. Len(s) : s[i] = x
  <2> DEFINE c == SelectInSeq(s, LAMBDA v : v = x)
  <2>1. c = Min(I)
    BY <1>1 DEF SelectInSeq
  <2>2. I \subseteq Int /\ I # {} /\ \E m \in I : \A n \in I : m <= n
    <3>1. I # {} /\ I \subseteq Nat
      BY <1>1
    <3>2. PICK m \in I : \A n \in I : m <= n
      BY <3>1, NatLeast
    <3> QED BY <3>1, <3>2
  <2>3. c \in I
    BY <2>1, <2>2 DEF Min
  <2>4. RemoveFirst(s, x) = RemoveAt(s, c)
    BY <1>1 DEF RemoveFirst
  <2> HIDE DEF c
  <2>5. c \in 1 .. Len(s) /\ s[c] = x
    BY <2>3
  <2>6. /\ RemoveAt(s, c) \in Seq(S) /\ Len(RemoveAt(s, c)) = Len(s) - 1
        /\ \A j \in 1 .. Len(RemoveAt(s, c)) : RemoveAt(s, c)[j] = s[IF j < c THEN j ELSE j + 1]
    BY <2>5, RemoveAtIs
  <2> QED BY <2>4, <2>5, <2>6 DEF Lost
<1>2. CASE ~ \E i \in 1 .. Len(s) : s[i] = x
  BY <1>2 DEF RemoveFirst, Lost
<1> QED BY <1>1, <1>2


LEMMA TouchedIs ==
    ASSUME NEW S, NEW s \in Seq(S), NEW x \in S
    PROVE  /\ Touched(s, x) \in Seq(S)
           /\ Len(Touched(s, x)) <= Len(s) + 1
           /\ (\E i \in 1 .. Len(s) : s[i] = x) => Len(Touched(s, x)) = Len(s)
<1>1. RemoveFirst(s, x) \in Seq(S) /\ Lost(RemoveFirst(s, x), s, x)
  BY RemoveFirstIs
<1>2. Len(s) \in Nat /\ Len(RemoveFirst(s, x)) <= Len(s)
  BY <1>1 DEF Lost
<1>3. (\E i \in 1 .. Len(s) : s[i] = x) => Len(RemoveFirst(s, x)) = Len(s) - 1
  BY <1>1 DEF Lost
<1>4. Touched(s, x) \in Seq(S) /\ Len(Touched(s, x)) = Len(RemoveFirst(s, x)) + 1
  BY <1>1, AppendProperties DEF Touched
<1>5. Len(RemoveFirst(s, x)) \in Nat
  BY <1>1
<1> QED BY <1>2, <1>3, <1>4, <1>5

LEMMA BoundedIs ==
    ASSUME NEW S, NEW s \in Seq(S), NEW n \in Nat \ {0}, Len(s) <= n + 1
    PROVE  Bounded(s, n) \in Seq(S) /\ Len(Bounded(s, n)) <= n
<1>1. Len(s) > n => Tail(s) \in Seq(S) /\ Len(Tail(s)) = Len(s) - 1
  BY HeadTailProperties
<1> QED BY <1>1 DEF Bounded

\* What is left when one goes is as it was.
LEMMA LostKeeps ==
    ASSUME NEW kept, NEW from, OnePerPage(kept, from), NEW g
    PROVE  OnePerPage(RemoveFirst(kept, g), from)
<1> DEFINE r == RemoveFirst(kept, g)
<1>1. kept \in Seq(Nat)
  BY DEF OnePerPage
<1>2. r \in Seq(Nat) /\ Lost(r, kept, g)
  BY <1>1, RemoveFirstIs
<1> HIDE DEF r
<1>3. CASE r = kept
  BY <1>3 DEF r
<1>4. ASSUME NEW c \in 1 .. Len(kept), Len(r) = Len(kept) - 1,
             \A j \in 1 .. Len(r) : r[j] = kept[IF j < c THEN j ELSE j + 1]
      PROVE  OnePerPage(r, from)
  <2> DEFINE k(j) == IF j < c THEN j ELSE j + 1
  <2>1. Len(kept) \in Nat /\ Len(r) \in Nat
    BY <1>1, <1>2
  <2>2. \A j \in 1 .. Len(r) : k(j) \in 1 .. Len(kept) /\ r[j] = kept[k(j)]
    BY <2>1, <1>4
  <2>3. \A i, j \in 1 .. Len(r) : k(i) = k(j) => i = j
    BY <2>1
  <2> HIDE DEF k
  <2>4. \A i \in 1 .. Len(r) : r[i] \in 1 .. Len(from) /\ from[r[i]].state # "failed"
    BY <2>2 DEF OnePerPage
  <2>5. \A i, j \in 1 .. Len(r) : from[r[i]].page = from[r[j]].page => i = j
    <3> SUFFICES ASSUME NEW i \in 1 .. Len(r), NEW j \in 1 .. Len(r), from[r[i]].page = from[r[j]].page
                 PROVE  i = j
      OBVIOUS
    <3>1. from[kept[k(i)]].page = from[kept[k(j)]].page
      BY <2>2
    <3>2. k(i) = k(j)
      BY <2>2, <3>1 DEF OnePerPage
    <3> QED BY <2>3, <3>2
  <2>6. Len(r) <= DigestPages
    BY <2>1, <1>4, LimitsAssumption DEF OnePerPage
  <2> QED BY <1>2, <2>4, <2>5, <2>6 DEF OnePerPage
<1>5. OnePerPage(r, from)
  BY <1>2, <1>3, <1>4 DEF Lost
<1> QED BY <1>5 DEF r


LEMMA TouchKeeps ==
    ASSUME NEW kept, NEW from, OnePerPage(kept, from), NEW c \in 1 .. Len(kept)
    PROVE  OnePerPage(Touched(kept, kept[c]), from)
<1> DEFINE x == kept[c]
           r == RemoveFirst(kept, x)
           t == Touched(kept, x)
<1>1. kept \in Seq(Nat) /\ x \in Nat
  BY DEF OnePerPage
<1>2. r \in Seq(Nat) /\ Lost(r, kept, x) /\ OnePerPage(r, from)
  BY <1>1, RemoveFirstIs, LostKeeps
<1>3. t \in Seq(Nat) /\ Len(t) = Len(kept)
  BY <1>1, TouchedIs
<1>4. /\ Len(t) = Len(r) + 1 /\ t[Len(r) + 1] = x
      /\ \A i \in 1 .. Len(r) : t[i] = r[i]
  BY <1>1, <1>2, AppendProperties DEF Touched
<1>5. \A i \in 1 .. Len(r) : from[r[i]].page # from[x].page
  <2>1. PICK d \in 1 .. Len(kept) :
            /\ kept[d] = x /\ Len(r) = Len(kept) - 1
            /\ \A j \in 1 .. Len(r) : r[j] = kept[IF j < d THEN j ELSE j + 1]
    BY <1>2 DEF Lost
  <2>2. Len(kept) \in Nat
    BY <1>1
  <2> SUFFICES ASSUME NEW i \in 1 .. Len(r), from[r[i]].page = from[x].page
               PROVE  FALSE
    OBVIOUS
  <2> DEFINE k == IF i < d THEN i ELSE i + 1
  <2>3. k \in 1 .. Len(kept) /\ k # d /\ r[i] = kept[k]
    BY <2>1, <2>2
  <2> HIDE DEF k
  <2>4. from[kept[k]].page = from[kept[d]].page
    BY <2>1, <2>3
  <2> QED BY <2>3, <2>4 DEF OnePerPage
<1> HIDE DEF r, t, x
<1>6. Len(r) \in Nat
  BY <1>2
<1>7. \A i \in 1 .. Len(t) : t[i] \in 1 .. Len(from) /\ from[t[i]].state # "failed"
  <2>1. x \in 1 .. Len(from) /\ from[x].state # "failed"
    BY DEF x, OnePerPage
  <2>2. \A i \in 1 .. Len(r) : r[i] \in 1 .. Len(from) /\ from[r[i]].state # "failed"
    BY <1>2 DEF OnePerPage
  <2>3. \A i \in 1 .. Len(t) : i \in 1 .. Len(r) \/ i = Len(r) + 1
    BY <1>4, <1>6
  <2> QED BY <1>4, <2>1, <2>2, <2>3
<1>8. \A i, j \in 1 .. Len(t) : from[t[i]].page = from[t[j]].page => i = j
  <2> SUFFICES ASSUME NEW i \in 1 .. Len(t), NEW j \in 1 .. Len(t), from[t[i]].page = from[t[j]].page
               PROVE  i = j
    OBVIOUS
  <2>1. \A k \in 1 .. Len(t) : (k \in 1 .. Len(r) /\ t[k] = r[k]) \/ (k = Len(r) + 1 /\ t[k] = x)
    <3>1. \A k \in 1 .. Len(t) : k \in 1 .. Len(r) \/ k = Len(r) + 1
      BY <1>4, <1>6
    <3> QED BY <1>4, <3>1
  <2>2. CASE i \in 1 .. Len(r) /\ t[i] = r[i] /\ j \in 1 .. Len(r) /\ t[j] = r[j]
    BY <1>2, <2>2 DEF OnePerPage
  <2>3. CASE i \in 1 .. Len(r) /\ t[i] = r[i] /\ t[j] = x
    BY <1>5, <2>3
  <2>4. CASE t[i] = x /\ j \in 1 .. Len(r) /\ t[j] = r[j]
    BY <1>5, <2>4
  <2> QED BY <2>1, <2>2, <2>3, <2>4
<1>9. Len(t) <= DigestPages
  BY <1>3 DEF OnePerPage
<1> QED BY <1>3, <1>7, <1>8, <1>9 DEF OnePerPage, t, x

\* A new fetch, of a page that none was kept of; the oldest may go for it.
LEMMA FetchKeeps ==
    ASSUME NEW kept, NEW from \in Seq(Fetched), OnePerPage(kept, from),
           NEW new \in Fetched, new.state = "pending",
           \A i \in 1 .. Len(kept) : from[kept[i]].page # new.page
    PROVE  OnePerPage(Bounded(Append(kept, Len(from) + 1), DigestPages), Append(from, new))
<1> DEFINE n == Len(from) + 1
           t == Append(kept, n)
           w == Append(from, new)
<1>1. kept \in Seq(Nat) /\ Len(kept) \in Nat /\ Len(from) \in Nat /\ n \in Nat
  BY DEF OnePerPage
<1>2. /\ t \in Seq(Nat) /\ Len(t) = Len(kept) + 1 /\ t[Len(kept) + 1] = n
      /\ \A i \in 1 .. Len(kept) : t[i] = kept[i]
  BY <1>1, AppendProperties
<1>3. Len(w) = n /\ w[n] = new /\ \A f \in 1 .. Len(from) : w[f] = from[f]
  BY <1>1, AppendProperties
<1> HIDE DEF n, t, w
<1>4. \A i \in 1 .. Len(t) : (i \in 1 .. Len(kept) /\ t[i] = kept[i]) \/ (i = Len(kept) + 1 /\ t[i] = n)
  <2>1. \A i \in 1 .. Len(t) : i \in 1 .. Len(kept) \/ i = Len(kept) + 1
    BY <1>1, <1>2
  <2> QED BY <1>2, <2>1
<1>5. \A i \in 1 .. Len(kept) :
          kept[i] \in 1 .. Len(from) /\ w[kept[i]] = from[kept[i]] /\ from[kept[i]].state # "failed"
  BY <1>3 DEF OnePerPage
<1>6. \A i \in 1 .. Len(t) : t[i] \in 1 .. Len(w) /\ w[t[i]].state # "failed"
  <2>1. n \in 1 .. Len(w) /\ w[n].state # "failed"
    BY <1>1, <1>3 DEF n
  <2>2. \A f \in 1 .. Len(from) : f \in 1 .. Len(w)
    BY <1>1, <1>3 DEF n
  <2> QED BY <1>4, <1>5, <2>1, <2>2
<1>7. \A i, j \in 1 .. Len(t) : w[t[i]].page = w[t[j]].page => i = j
  <2> SUFFICES ASSUME NEW i \in 1 .. Len(t), NEW j \in 1 .. Len(t), w[t[i]].page = w[t[j]].page
               PROVE  i = j
    OBVIOUS
  <2>1. CASE i \in 1 .. Len(kept) /\ t[i] = kept[i] /\ j \in 1 .. Len(kept) /\ t[j] = kept[j]
    <3>1. from[kept[i]].page = from[kept[j]].page
      BY <1>5, <2>1
    <3> QED BY <2>1, <3>1 DEF OnePerPage
  <2>2. CASE i \in 1 .. Len(kept) /\ t[i] = kept[i] /\ t[j] = n
    BY <1>3, <1>5, <2>2
  <2>3. CASE t[i] = n /\ j \in 1 .. Len(kept) /\ t[j] = kept[j]
    BY <1>3, <1>5, <2>3
  <2> QED BY <1>4, <2>1, <2>2, <2>3
<1>8. Len(t) <= DigestPages + 1
  BY <1>1, <1>2, LimitsAssumption DEF OnePerPage
<1>9. Bounded(t, DigestPages) \in Seq(Nat) /\ Len(Bounded(t, DigestPages)) <= DigestPages
  BY <1>2, <1>8, BoundedIs, LimitsAssumption
<1>10. CASE Bounded(t, DigestPages) = t
  BY <1>6, <1>7, <1>9, <1>10 DEF OnePerPage, n, t, w
<1>11. CASE Bounded(t, DigestPages) = Tail(t)
  <2>1. /\ Len(Tail(t)) = Len(t) - 1 /\ Len(t) \in Nat
        /\ \A i \in 1 .. Len(Tail(t)) : i + 1 \in 1 .. Len(t) /\ Tail(t)[i] = t[i + 1]
    BY <1>1, <1>2, HeadTailProperties
  <2>2. \A i \in 1 .. Len(Tail(t)) : Tail(t)[i] \in 1 .. Len(w) /\ w[Tail(t)[i]].state # "failed"
    BY <1>6, <2>1
  <2>3. \A i, j \in 1 .. Len(Tail(t)) : w[Tail(t)[i]].page = w[Tail(t)[j]].page => i = j
    <3> SUFFICES ASSUME NEW i \in 1 .. Len(Tail(t)), NEW j \in 1 .. Len(Tail(t)),
                        w[Tail(t)[i]].page = w[Tail(t)[j]].page
                 PROVE  i = j
      OBVIOUS
    <3>1. i + 1 = j + 1
      BY <1>7, <2>1
    <3> QED BY <2>1, <3>1
  <2> QED BY <1>9, <1>11, <2>2, <2>3 DEF OnePerPage, n, t, w
<1> QED BY <1>10, <1>11 DEF Bounded

\* A fetch ends; of one that fails, none is kept of its page.
LEMMA FailKeeps ==
    ASSUME NEW kept, NEW from \in Seq(Fetched), OnePerPage(kept, from),
           NEW f \in 1 .. Len(from), NEW g \in Nat,
           g = f \/ ((\E i \in 1 .. Len(kept) : kept[i] = g) /\ from[g].page = from[f].page),
           NEW w \in Seq(Fetched), Len(w) = Len(from),
           \A h \in 1 .. Len(from) : w[h].page = from[h].page /\ (h # f => w[h] = from[h])
    PROVE  OnePerPage(RemoveFirst(kept, g), w)
<1> DEFINE r == RemoveFirst(kept, g)
<1>1. kept \in Seq(Nat) /\ Len(kept) \in Nat
  BY DEF OnePerPage
<1>2. r \in Seq(Nat) /\ Lost(r, kept, g) /\ OnePerPage(r, from)
  BY <1>1, RemoveFirstIs, LostKeeps
<1> HIDE DEF r
<1>3. \A i \in 1 .. Len(r) : \E k \in 1 .. Len(kept) : r[i] = kept[k]
  <2>1. CASE r = kept
    BY <2>1
  <2>2. CASE \E c \in 1 .. Len(kept) :
                /\ kept[c] = g /\ Len(r) = Len(kept) - 1
                /\ \A j \in 1 .. Len(r) : r[j] = kept[IF j < c THEN j ELSE j + 1]
    <3> SUFFICES ASSUME NEW i \in 1 .. Len(r)
                 PROVE  \E k \in 1 .. Len(kept) : r[i] = kept[k]
      OBVIOUS
    <3>1. PICK c \in 1 .. Len(kept) : Len(r) = Len(kept) - 1 /\ r[i] = kept[IF i < c THEN i ELSE i + 1]
      BY <2>2
    <3>2. (IF i < c THEN i ELSE i + 1) \in 1 .. Len(kept)
      BY <1>1, <3>1
    <3> QED BY <3>1, <3>2
  <2> QED BY <1>2, <2>1, <2>2 DEF Lost
<1>4. \A i \in 1 .. Len(r) : r[i] # f
  <2> SUFFICES ASSUME NEW i \in 1 .. Len(r), r[i] = f
               PROVE  FALSE
    OBVIOUS
  <2>1. PICK k \in 1 .. Len(kept) : kept[k] = f
    BY <1>3
  <2>2. g = f
    <3>1. CASE \E j \in 1 .. Len(kept) : kept[j] = g /\ from[g].page = from[f].page
      BY <2>1, <3>1 DEF OnePerPage
    <3> QED BY <3>1
  <2>3. PICK c \in 1 .. Len(kept) :
            /\ kept[c] = f /\ Len(r) = Len(kept) - 1
            /\ \A j \in 1 .. Len(r) : r[j] = kept[IF j < c THEN j ELSE j + 1]
    BY <1>2, <2>1, <2>2 DEF Lost
  <2> DEFINE m == IF i < c THEN i ELSE i + 1
  <2>4. m \in 1 .. Len(kept) /\ m # c /\ kept[m] = f
    <3>1. i \in 1 .. Len(kept) - 1 /\ r[i] = kept[m]
      BY <2>3
    <3>2. m \in 1 .. Len(kept) /\ m # c
      BY <1>1, <2>3, <3>1
    <3> QED BY <3>1, <3>2
  <2> HIDE DEF m
  <2>5. from[kept[m]].page = from[kept[c]].page
    BY <2>3, <2>4
  <2> QED BY <2>4, <2>5 DEF OnePerPage
<1>5. \A i \in 1 .. Len(r) :
          r[i] \in 1 .. Len(from) /\ w[r[i]] = from[r[i]] /\ from[r[i]].state # "failed"
  BY <1>2, <1>4 DEF OnePerPage
<1>6. \A i, j \in 1 .. Len(r) : w[r[i]].page = w[r[j]].page => i = j
  BY <1>2, <1>5 DEF OnePerPage
<1>7. Len(r) <= DigestPages
  BY <1>2 DEF OnePerPage
<1>8. OnePerPage(r, w)
  BY <1>2, <1>5, <1>6, <1>7 DEF OnePerPage
<1> QED BY <1>8 DEF r


-----------------------------------------------------------------------------
(***************************************************************************)
(* What the parts of a step do                                             *)
(***************************************************************************)

\* Query q, and no other, moves on to another place.
GoesTo(q, at) ==
    /\ query' \in [Queries -> Held]
    /\ query'[q].at = at /\ query'[q].fetch = query[q].fetch /\ query'[q].bytes = query[q].bytes
    /\ \A p \in Queries \ {q} : query'[p] = query[p]

LEMMA GotoIs ==
    ASSUME Typed, NEW q \in Queries, NEW at \in Places, Goto(q, at),
           at = "page" => FALSE, at = "record" => query[q].at = "page"
    PROVE  GoesTo(q, at)
<1>1. query \in [Queries -> Held] /\ query[q] \in Held
  BY DEF Typed
<1>2. query' = [query EXCEPT ![q] = [query[q] EXCEPT !.at = at]]
  BY DEF Goto
<1>3. PICK h \in Held : h = [query[q] EXCEPT !.at = at]
  BY <1>1 DEF Held
<1>4. h.at = at /\ h.fetch = query[q].fetch /\ h.bytes = query[q].bytes
  BY <1>1, <1>3 DEF Held
<1>5. query' \in [Queries -> Held] /\ query'[q] = h /\ \A p \in Queries \ {q} : query'[p] = query[p]
  BY <1>1, <1>2, <1>3
<1> QED BY <1>4, <1>5 DEF GoesTo

LEMMA RecordIs ==
    ASSUME Typed, NEW q \in Queries, NEW id \in Ids,
           query' = [query EXCEPT ![q].at = "record", ![q].id = id]
    PROVE  GoesTo(q, "record")
<1>1. query \in [Queries -> Held] /\ query[q] \in Held
  BY DEF Typed
<1>2. PICK h \in Held : h = [query[q] EXCEPT !.at = "record", !.id = id]
  BY <1>1 DEF Held, Places
<1>3. h.at = "record" /\ h.fetch = query[q].fetch /\ h.bytes = query[q].bytes
  BY <1>1, <1>2 DEF Held
<1>4. query' = [query EXCEPT ![q] = h]
  BY <1>1, <1>2 DEF Held
<1>5. query' \in [Queries -> Held] /\ query'[q] = h /\ \A p \in Queries \ {q} : query'[p] = query[p]
  BY <1>1, <1>4
<1> QED BY <1>3, <1>5 DEF GoesTo

\* Query q ends.
Ends(q) ==
    /\ query' \in [Queries -> Held]
    /\ query'[q].at = "idle"
    /\ \A p \in Queries \ {q} : query'[p] = query[p]

LEMMA IdleIs ==
    ASSUME Typed, NEW q \in Queries, query' = [query EXCEPT ![q] = Idle]
    PROVE  Ends(q)
<1>1. query \in [Queries -> Held]
  BY DEF Typed
<1>2. Idle \in Held /\ Idle.at = "idle"
  BY DEF Idle, Held, Places
<1>3. query' \in [Queries -> Held] /\ query'[q] = Idle /\ \A p \in Queries \ {q} : query'[p] = query[p]
  BY <1>1, <1>2
<1> QED BY <1>2, <1>3 DEF Ends

\* A fetch ends in a state.
Settles(f, state) ==
    /\ fetches' \in Seq(Fetched) /\ Len(fetches') = Len(fetches)
    /\ fetches'[f].state = state
    /\ \A h \in 1 .. Len(fetches) :
           fetches'[h].page = fetches[h].page /\ (h # f => fetches'[h] = fetches[h])

LEMMA SettledIs ==
    ASSUME Typed, NEW f \in DOMAIN fetches, NEW state \in {"ok", "failed"},
           fetches' = [fetches EXCEPT ![f].state = state]
    PROVE  f \in 1 .. Len(fetches) /\ Settles(f, state)
<1>1. fetches \in Seq(Fetched) /\ f \in 1 .. Len(fetches)
  BY DEF Typed
<1>2. fetches[f] \in Fetched
  BY <1>1
<1>3. PICK r \in Fetched : r = [fetches[f] EXCEPT !.state = state]
  BY <1>2 DEF Fetched
<1>4. r.page = fetches[f].page /\ r.state = state
  BY <1>2, <1>3 DEF Fetched
<1>5. fetches' = [fetches EXCEPT ![f] = r]
  BY <1>3
<1>6. /\ fetches' \in Seq(Fetched) /\ Len(fetches') = Len(fetches) /\ fetches'[f] = r
      /\ \A h \in 1 .. Len(fetches) : h # f => fetches'[h] = fetches[h]
  BY <1>1, <1>5, ExceptSeq
<1> QED BY <1>1, <1>4, <1>6 DEF Settles

\* A query awaits a page that is there, on its way, or fetched for it.
Awaits(q, bytes) ==
    /\ query' \in [Queries -> Held]
    /\ query'[q].at = "page" /\ query'[q].bytes = bytes
    /\ query'[q].fetch \in 1 .. Len(fetches') /\ fetches'[query'[q].fetch].state # "failed"
    /\ \A p \in Queries \ {q} : query'[p] = query[p]
    /\ fetches' \in Seq(Fetched) /\ Len(fetches) <= Len(fetches')
    /\ \A f \in 1 .. Len(fetches) : fetches'[f] = fetches[f]
    /\ OnePerPage(digestPages', fetches')

LEMMA AwaitIs ==
    ASSUME Typed, Cached, NEW q \in Queries, NEW id \in Ids,
           NEW bytes \in {"none", "good", "bad"}, AwaitPage(q, id, bytes)
    PROVE  Awaits(q, bytes)
<1> DEFINE known == {f \in ToSet(digestPages) : fetches[f].page = PageOf(id)}
           next == Len(fetches) + 1
           fetch == IF known = {} THEN next ELSE CHOOSE f \in known : TRUE
           new == [page |-> PageOf(id), state |-> "pending"]
           h == [at |-> "page", id |-> id, fetch |-> fetch, bytes |-> bytes]
<1>1. /\ query \in [Queries -> Held] /\ fetches \in Seq(Fetched) /\ OnePerPage(digestPages, fetches)
      /\ digestPages \in Seq(Nat) /\ Len(fetches) \in Nat /\ Len(digestPages) \in Nat
  <2>1. query \in [Queries -> Held] /\ fetches \in Seq(Fetched) /\ OnePerPage(digestPages, fetches)
    BY DEF Typed, Cached
  <2>2. digestPages \in Seq(Nat)
    BY <2>1 DEF OnePerPage
  <2> QED BY <2>1, <2>2
<1>2. query' = [query EXCEPT ![q] = h]
  BY DEF AwaitPage
<1>3. new \in Fetched /\ new.state = "pending" /\ new.page = PageOf(id)
  BY DEF Fetched
<1>4. ASSUME fetch \in 1 .. Len(fetches'), fetches'[fetch].state # "failed",
             fetches' \in Seq(Fetched), Len(fetches) <= Len(fetches'),
             \A f \in 1 .. Len(fetches) : fetches'[f] = fetches[f],
             OnePerPage(digestPages', fetches')
      PROVE  Awaits(q, bytes)
  <2> HIDE DEF fetch
  <2>1. fetch \in Nat
    BY <1>4
  <2>2. PICK g \in Held : g = h
    BY <2>1 DEF Held, Places
  <2>3. g.at = "page" /\ g.fetch = fetch /\ g.bytes = bytes
    BY <2>2
  <2>4. query' \in [Queries -> Held] /\ query'[q] = g /\ \A p \in Queries \ {q} : query'[p] = query[p]
    BY <1>1, <1>2, <2>2
  <2> QED BY <1>4, <2>3, <2>4 DEF Awaits
<1>5. CASE known = {}
  <2>1. /\ digestPages' = Bounded(Append(digestPages, next), DigestPages)
        /\ fetches' = Append(fetches, new) /\ fetch = next
    BY <1>5 DEF AwaitPage
  <2>2. \A i \in 1 .. Len(digestPages) : fetches[digestPages[i]].page # new.page
    BY <1>1, <1>3, <1>5 DEF ToSet
  <2>3. OnePerPage(digestPages', fetches')
    BY <1>1, <1>3, <2>1, <2>2, FetchKeeps
  <2>4. /\ fetches' \in Seq(Fetched) /\ Len(fetches') = Len(fetches) + 1 /\ fetches'[next] = new
        /\ \A f \in 1 .. Len(fetches) : fetches'[f] = fetches[f]
    BY <1>1, <1>3, <2>1, AppendProperties
  <2> HIDE DEF new, known
  <2>5. fetch \in 1 .. Len(fetches') /\ Len(fetches) <= Len(fetches') /\ fetches'[fetch].state # "failed"
    BY <1>1, <1>3, <2>1, <2>4
  <2> QED BY <1>4, <2>3, <2>4, <2>5
<1>6. CASE known # {}
  <2>1. digestPages' = Touched(digestPages, fetch) /\ fetches' = fetches
    BY <1>6 DEF AwaitPage
  <2>2. fetch \in known
    BY <1>6
  <2>3. PICK c \in 1 .. Len(digestPages) : digestPages[c] = fetch
    <3>1. fetch \in ToSet(digestPages)
      BY <2>2
    <3> HIDE DEF fetch
    <3> QED BY <1>1, <3>1 DEF ToSet
  <2> HIDE DEF fetch
  <2>4. OnePerPage(digestPages', fetches')
    BY <1>1, <2>1, <2>3, TouchKeeps
  <2>5. fetch \in 1 .. Len(fetches) /\ fetches[fetch].state # "failed"
    BY <1>1, <2>3 DEF OnePerPage
  <2> QED BY <1>1, <1>4, <2>1, <2>4, <2>5
<1> QED BY <1>5, <1>6

LEMMA FailIs ==
    ASSUME Typed, Fail
    PROVE  faults' \in Nat /\ faults <= faults' /\ (source = "closed" \/ faults' = faults + 1)
BY DEF Typed, Fail

LEMMA KeepIs ==
    ASSUME Cached, NEW id \in Ids, Keep(id)
    PROVE  recordCache' \in Seq(Ids) /\ Len(recordCache') <= RecordCache
<1>1. recordCache \in Seq(Ids) /\ Len(recordCache) <= RecordCache /\ Len(recordCache) \in Nat
  BY DEF Cached
<1>2. Touched(recordCache, id) \in Seq(Ids) /\ Len(Touched(recordCache, id)) <= Len(recordCache) + 1
  BY <1>1, TouchedIs
<1>3. Len(Touched(recordCache, id)) \in Nat
  BY <1>2
<1>4. Len(Touched(recordCache, id)) <= RecordCache + 1
  BY <1>1, <1>2, <1>3, LimitsAssumption
<1> QED BY <1>2, <1>4, BoundedIs, LimitsAssumption DEF Keep

\* The head of those who wait goes.
LEMMA HeadGoes ==
    ASSUME NEW S, NEW s \in Seq(S), s # <<>>
    PROVE  /\ Tail(s) \in Seq(S) /\ Len(s) > 0 /\ Len(s) \in Nat /\ Len(Tail(s)) = Len(s) - 1
           /\ Head(s) = s[1]
           /\ \A i \in 1 .. Len(Tail(s)) : i + 1 \in 1 .. Len(s) /\ Tail(s)[i] = s[i + 1]
BY HeadTailProperties


LEMMA ReleaseIs ==
    ASSUME Typed, NEW isFailure \in BOOLEAN, BeginRelease(isFailure)
    PROVE  /\ phase' = "release"
           /\ waiters' \in Seq(Queries \cup {Release})
           /\ encoder = "none" => waiters' = waiters
           /\ encoder # "none" => waiters' = Append(waiters, Release)
<1>1. waiters \in Seq(Queries \cup {Release}) /\ Release \in Queries \cup {Release}
  BY DEF Typed
<1>2. Append(waiters, Release) \in Seq(Queries \cup {Release})
  BY <1>1, AppendProperties
<1> QED BY <1>1, <1>2 DEF BeginRelease

-----------------------------------------------------------------------------
(***************************************************************************)
(* Each part of the invariant is kept by every step                        *)
(***************************************************************************)

\* A step of one query leaves the others where they are.
LEMMA OthersStay ==
    ASSUME Typed, NEW q \in Queries,
           LexicalRead(q) \/ ReadFails(q) \/ RowsRead(q) \/ HavePage(q) \/ RecordRead(q) \/ Throw(q)
    PROVE  \A p \in Queries \ {q} : query'[p] = query[p]
<1>1. \A at : Goto(q, at) => \A p \in Queries \ {q} : query'[p] = query[p]
  BY DEF Goto, Typed
<1>2. \A bytes : Answer(q, bytes) => \A p \in Queries \ {q} : query'[p] = query[p]
  BY DEF Answer, Typed
<1>3. \A id, bytes : AwaitPage(q, id, bytes) => \A p \in Queries \ {q} : query'[p] = query[p]
  BY DEF AwaitPage, Typed
<1>4. \A bytes : CheckRecord(q, bytes) => \A p \in Queries \ {q} : query'[p] = query[p]
  BY <1>1, <1>2 DEF CheckRecord
<1>5. CASE LexicalRead(q) \/ ReadFails(q)
  BY <1>1, <1>5 DEF LexicalRead, ReadFails, Scan
<1>6. CASE RowsRead(q)
  <2>1. PICK id \in Ids : \/ Answer(q, "good") \/ AwaitPage(q, id, "none")
                          \/ query' = [query EXCEPT ![q].at = "record", ![q].id = id]
    BY <1>6 DEF RowsRead
  <2>2. CASE query' = [query EXCEPT ![q].at = "record", ![q].id = id]
    BY <2>2 DEF Typed
  <2> QED BY <1>2, <1>3, <2>1, <2>2
<1>7. CASE HavePage(q)
  BY <1>1, <1>2, <1>4, <1>7 DEF HavePage
<1>8. CASE RecordRead(q)
  BY <1>3, <1>4, <1>8 DEF RecordRead
<1>9. CASE Throw(q)
  BY <1>9 DEF Throw, Typed
<1> QED BY <1>5, <1>6, <1>7, <1>8, <1>9

LEMMA TypedStep ==
    ASSUME Typed, Cached, Next
    PROVE  Typed'
<1> USE DEF resourceVars, cacheVars, boundVars, histVars
<1>1. CASE ReadHead
  BY <1>1 DEF ReadHead, Read, Typed, Phases
<1>2. CASE EncoderOpened
  <2>1. phase' \in Phases /\ waiters' \in Seq(Queries \cup {Release})
    BY <1>2, ReleaseIs DEF EncoderOpened, Typed, Phases
  <2> QED BY <1>2, <2>1 DEF EncoderOpened, Typed
<1>3. CASE StageScanner
  BY <1>3 DEF StageScanner, Typed, Phases
<1>4. CASE Opened
  BY <1>4 DEF Opened, Typed, Phases
<1>5. ASSUME NEW part \in Parts, ReadPart(part)
      PROVE  Typed'
  BY <1>5 DEF ReadPart, Read, Typed, Phases
<1>6. ASSUME NEW part \in Parts, PartFails(part)
      PROVE  Typed'
  <2>1. faults' \in Nat
    BY <1>6, FailIs DEF PartFails
  <2> QED BY <1>6, <2>1 DEF PartFails, BeginRelease, Typed, Phases
<1>7. ASSUME NEW from \in {"head", "tables"}, OpenFails(from)
      PROVE  Typed'
  <2>1. faults' \in Nat
    BY <1>7, FailIs DEF OpenFails
  <2> QED BY <1>7, <2>1 DEF OpenFails, BeginRelease, Typed, Phases
<1>8. CASE EncoderLoads
  <2>1. faults' \in Nat
    BY <1>8, FailIs DEF EncoderLoads, Read, Typed
  <2> QED BY <1>8, <2>1 DEF EncoderLoads, Typed
<1>9. CASE ScannerStaged
  BY <1>9 DEF ScannerStaged, Typed
<1>10. ASSUME NEW f \in DOMAIN fetches, PageRead(f)
       PROVE  Typed'
  <2>1. fetches' \in Seq(Fetched)
    BY <1>10, SettledIs DEF PageRead, Settles
  <2> QED BY <1>10, <2>1 DEF PageRead, Read, Typed
<1>11. ASSUME NEW f \in DOMAIN fetches, PageFails(f)
       PROVE  Typed'
  <2>1. fetches' \in Seq(Fetched)
    BY <1>11, SettledIs DEF PageFails, Settles
  <2>2. faults' \in Nat
    BY <1>11, FailIs DEF PageFails
  <2> QED BY <1>11, <2>1, <2>2 DEF PageFails, Typed
<1>12. CASE ReleaseEncoder
  <2>1. waiters' \in Seq(Queries \cup {Release})
    BY <1>12, HeadGoes DEF ReleaseEncoder, Typed
  <2> QED BY <1>12, <2>1 DEF ReleaseEncoder, Typed, Phases
<1>13. CASE ReleaseScanner
  BY <1>13 DEF ReleaseScanner, Typed, Phases
<1>14. CASE CloseSource
  BY <1>14 DEF CloseSource, Typed, Phases
<1>15. CASE Close
  BY <1>15 DEF Close, BeginRelease, Typed, Phases
<1>16. ASSUME NEW q \in Queries, Query(q)
       PROVE  Typed'
  <2>1. query' \in [Queries -> Held]
    BY <1>16, GotoIs DEF Query, GoesTo, Places
  <2>2. waiters' \in Seq(Queries \cup {Release})
    <3>1. waiters \in Seq(Queries \cup {Release}) /\ q \in Queries \cup {Release}
      BY DEF Typed
    <3>2. Append(waiters, q) \in Seq(Queries \cup {Release})
      BY <3>1, AppendProperties
    <3> QED BY <1>16, <3>1, <3>2 DEF Query
  <2>3. causes' \in [Queries -> Nat]
    BY <1>16 DEF Query, Cause, Typed
  <2> QED BY <1>16, <2>1, <2>2, <2>3 DEF Query, Typed
<1>17. ASSUME NEW q \in Queries, Encode(q)
       PROVE  Typed'
  <2>1. query' \in [Queries -> Held]
    BY <1>17, GotoIs DEF Encode, GoesTo, Places
  <2>2. waiters' \in Seq(Queries \cup {Release})
    BY <1>17, HeadGoes DEF Encode, Typed
  <2> QED BY <1>17, <2>1, <2>2 DEF Encode, Typed
<1>18. ASSUME NEW q \in Queries, LexicalRead(q)
       PROVE  Typed'
  <2>1. query' \in [Queries -> Held]
    BY <1>18, GotoIs DEF LexicalRead, Scan, GoesTo, Places
  <2> QED BY <1>18, <2>1 DEF LexicalRead, Read, Typed
<1>19. ASSUME NEW q \in Queries, ReadFails(q)
       PROVE  Typed'
  <2>1. query' \in [Queries -> Held]
    BY <1>19, GotoIs DEF ReadFails, GoesTo, Places
  <2>2. faults' \in Nat
    BY <1>19, FailIs DEF ReadFails
  <2> QED BY <1>19, <2>1, <2>2 DEF ReadFails, Typed
<1>20. ASSUME NEW q \in Queries, RowsRead(q)
       PROVE  Typed'
  <2>1. query' \in [Queries -> Held] /\ fetches' \in Seq(Fetched)
    <3>1. PICK id \in Ids :
              IF id \in ToSet(recordCache)
              THEN Answer(q, "good") /\ fetches' = fetches
              ELSE IF cached THEN AwaitPage(q, id, "none")
              ELSE query' = [query EXCEPT ![q].at = "record", ![q].id = id] /\ fetches' = fetches
      BY <1>20 DEF RowsRead
    <3>2. CASE Answer(q, "good") /\ fetches' = fetches
      BY <3>2, IdleIs DEF Answer, Ends, Typed
    <3>3. CASE AwaitPage(q, id, "none")
      BY <3>3, AwaitIs DEF Awaits
    <3>4. CASE query' = [query EXCEPT ![q].at = "record", ![q].id = id] /\ fetches' = fetches
      BY <3>4, RecordIs DEF GoesTo, Typed
    <3> QED BY <3>1, <3>2, <3>3, <3>4
  <2> QED BY <1>20, <2>1 DEF RowsRead, Read, Typed
<1>21. ASSUME NEW q \in Queries, HavePage(q)
       PROVE  Typed'
  <2>1. /\ Goto(q, "failed") \/ Goto(q, "record") \/ query' = [query EXCEPT ![q] = Idle]
        /\ query[q].at = "page"
    BY <1>21 DEF HavePage, CheckRecord, Answer
  <2>2. query' \in [Queries -> Held]
    BY <2>1, GotoIs, IdleIs DEF GoesTo, Ends, Places
  <2> QED BY <1>21, <2>2 DEF HavePage, Typed
<1>22. ASSUME NEW q \in Queries, RecordRead(q)
       PROVE  Typed'
  <2>1. PICK bytes \in {"good", "bad"} :
            /\ IF bytes = "bad" THEN Fail ELSE Read
            /\ IF cached THEN CheckRecord(q, bytes) /\ fetches' = fetches
               ELSE AwaitPage(q, query[q].id, bytes)
    BY <1>22 DEF RecordRead
  <2>2. faults' \in Nat
    BY <2>1, FailIs DEF Read, Typed
  <2>3. query' \in [Queries -> Held] /\ fetches' \in Seq(Fetched)
    <3>1. CASE CheckRecord(q, bytes) /\ fetches' = fetches
      <4>1. Goto(q, "failed") \/ query' = [query EXCEPT ![q] = Idle]
        BY <3>1 DEF CheckRecord, Answer
      <4> QED BY <3>1, <4>1, GotoIs, IdleIs DEF GoesTo, Ends, Places, Typed
    <3>2. CASE AwaitPage(q, query[q].id, bytes)
      <4>1. query[q].id \in Ids
        BY <1>22 DEF RecordRead, Typed, Held
      <4> QED BY <3>2, <4>1, AwaitIs DEF Awaits
    <3> QED BY <2>1, <3>1, <3>2
  <2> QED BY <1>22, <2>2, <2>3 DEF RecordRead, Typed
<1>23. ASSUME NEW q \in Queries, Throw(q)
       PROVE  Typed'
  <2>1. query' \in [Queries -> Held]
    BY <1>23, IdleIs DEF Throw, Ends
  <2> QED BY <1>23, <2>1 DEF Throw, Typed
<1> QED
  BY <1>1, <1>2, <1>3, <1>4, <1>5, <1>6, <1>7, <1>8, <1>9, <1>10, <1>11, <1>12, <1>13, <1>14, <1>15,
     <1>16, <1>17, <1>18, <1>19, <1>20, <1>21, <1>22, <1>23
     DEF Next, OpenStep, BackgroundStep, ReleaseStep, QueryStep


\* The line stands, and whoever waits still does.
LEMMA LineStands ==
    ASSUME Typed, Lined, waiters' = waiters,
           \A q \in Queries : query[q].at = "encode" => query'[q].at = "encode",
           encoder' = "none" => encoder = "none",
           \/ phase' = phase /\ (encoder = "none" => encoder' = "none")
           \/ phase # "release" /\ phase' # "release" /\ (phase' \in Past => phase \in Past)
    PROVE  Lined'
<1>1. \A i \in 1 .. Len(waiters) : waiters[i] # Release => query'[waiters[i]].at = "encode"
  BY DEF Typed, Lined
<1> QED BY <1>1 DEF Lined

\* close() or a failure joins the end of the line.
LEMMA ReleaseJoins ==
    ASSUME Typed, Lined, NEW isFailure \in BOOLEAN, BeginRelease(isFailure),
           phase # "release", phase \notin Past, encoder' = encoder, query' = query
    PROVE  Lined'
<1>1. /\ waiters \in Seq(Queries \cup {Release}) /\ Len(waiters) \in Nat
      /\ Release \in Queries \cup {Release}
  BY DEF Typed
<1>2. phase' = "release" /\ phase' \notin Past
  BY ReleaseIs DEF Past
<1>3. CASE encoder = "none"
  <2>1. waiters' = waiters
    BY <1>3, ReleaseIs
  <2> QED BY <1>2, <1>3, <2>1 DEF Lined
<1>4. CASE encoder # "none"
  <2>1. waiters' = Append(waiters, Release)
    BY <1>4, ReleaseIs
  <2>2. /\ Len(waiters') = Len(waiters) + 1 /\ waiters'[Len(waiters) + 1] = Release
        /\ \A i \in 1 .. Len(waiters) : waiters'[i] = waiters[i] /\ waiters[i] # Release
    BY <1>1, <2>1, AppendProperties DEF Lined
  <2>3. \A i \in 1 .. Len(waiters') : i \in 1 .. Len(waiters) \/ i = Len(waiters) + 1
    BY <1>1, <2>2
  <2>4. \A i, j \in 1 .. Len(waiters') : waiters'[i] = waiters'[j] => i = j
    BY <2>2, <2>3 DEF Lined
  <2>5. \A i \in 1 .. Len(waiters') : waiters'[i] # Release => query'[waiters'[i]].at = "encode"
    BY <2>2, <2>3 DEF Lined
  <2>6. Len(waiters') > 0 /\ waiters'[Len(waiters')] = Release
    BY <1>1, <2>2
  <2> QED BY <1>2, <1>4, <2>4, <2>5, <2>6 DEF Lined
<1> QED BY <1>3, <1>4

LEMMA LinedStep ==
    ASSUME Typed, Lined, Phased, Cached, Next
    PROVE  Lined'
<1> USE DEF resourceVars, cacheVars, boundVars, histVars
<1> DEFINE Still == waiters' = waiters /\ query' = query
<1>1. CASE ReadHead
  <2>1. Still /\ encoder' = encoder /\ phase = "head" /\ phase' = "wave"
    BY <1>1 DEF ReadHead
  <2> QED BY <2>1, LineStands DEF Past
<1>2. CASE EncoderOpened
  <2>1. phase = "encoder" /\ encoder' = encoder /\ query' = query
    BY <1>2 DEF EncoderOpened
  <2>2. BeginRelease(TRUE) \/ (phase' = "tables" /\ waiters' = waiters)
    BY <1>2 DEF EncoderOpened
  <2> QED BY <2>1, <2>2, LineStands, ReleaseJoins DEF Past
<1>3. CASE StageScanner \/ EncoderLoads \/ ScannerStaged
  <2>1. Still /\ phase' = phase /\ (encoder' = "none" <=> encoder = "none")
    BY <1>3 DEF StageScanner, EncoderLoads, ScannerStaged
  <2> QED BY <2>1, LineStands
<1>4. CASE Opened
  <2>1. Still /\ encoder' = encoder /\ phase = "tables" /\ phase' = "open"
    BY <1>4 DEF Opened
  <2> QED BY <2>1, LineStands DEF Past
<1>5. ASSUME NEW part \in Parts, ReadPart(part)
      PROVE  Lined'
  <2>1. Still
    BY <1>5 DEF ReadPart
  <2>2. CASE phase = "wave"
    <3>1. phase' \in {"wave", "encoder", "tables"} /\ (encoder' = "none" => encoder = "none")
      BY <1>5, <2>2 DEF ReadPart
    <3> QED BY <2>1, <2>2, <3>1, LineStands DEF Past
  <2>3. CASE phase # "wave"
    <3>1. phase' = phase /\ encoder' = encoder
      BY <1>5, <2>3 DEF ReadPart
    <3> QED BY <2>1, <3>1, LineStands
  <2> QED BY <2>2, <2>3
<1>6. ASSUME NEW part \in Parts, PartFails(part)
      PROVE  Lined'
  <2>1. BeginRelease(TRUE) /\ phase = "wave" /\ encoder' = encoder /\ query' = query
    BY <1>6 DEF PartFails
  <2> QED BY <2>1, ReleaseJoins DEF Past
<1>7. ASSUME NEW from \in {"head", "tables"}, OpenFails(from)
      PROVE  Lined'
  <2>1. BeginRelease(TRUE) /\ phase \in {"head", "tables"} /\ encoder' = encoder /\ query' = query
    BY <1>7 DEF OpenFails
  <2> QED BY <2>1, ReleaseJoins DEF Past
<1>8. ASSUME NEW f \in DOMAIN fetches, PageRead(f) \/ PageFails(f)
      PROVE  Lined'
  <2>1. Still /\ phase' = phase /\ encoder' = encoder
    BY <1>8 DEF PageRead, PageFails
  <2> QED BY <2>1, LineStands
<1>9. CASE ReleaseEncoder
  <2>1. phase = "release" /\ phase' = "scanner" /\ query' = query
    BY <1>9 DEF ReleaseEncoder
  <2>2. waiters' = <<>>
    <3>1. CASE encoder = "none"
      BY <1>9, <3>1 DEF ReleaseEncoder, Lined
    <3>2. CASE encoder # "none"
      <4>1. waiters \in Seq(Queries \cup {Release}) /\ waiters # <<>>
            /\ Head(waiters) = Release /\ waiters' = Tail(waiters)
        BY <1>9, <3>2 DEF ReleaseEncoder, Typed
      <4>2. Len(waiters) \in Nat /\ Len(waiters) > 0 /\ waiters[1] = Release /\ waiters[Len(waiters)] = Release
        BY <2>1, <3>2, <4>1, HeadGoes DEF Lined
      <4>3. Len(waiters) = 1
        <5>1. 1 \in 1 .. Len(waiters) /\ Len(waiters) \in 1 .. Len(waiters) /\ waiters[1] = waiters[Len(waiters)]
          BY <4>2
        <5> QED BY <5>1 DEF Lined
      <4> QED BY <4>1, <4>3, HeadGoes
    <3> QED BY <3>1, <3>2
  <2> QED BY <2>1, <2>2 DEF Lined
<1>10. CASE ReleaseScanner \/ CloseSource
  <2>1. Still /\ encoder' = encoder /\ phase \in Past /\ phase # "release" /\ phase' # "release"
    BY <1>10 DEF ReleaseScanner, CloseSource, Past
  <2> QED BY <2>1, LineStands
<1>11. CASE Close
  <2>1. BeginRelease(FALSE) /\ phase = "open" /\ encoder' = encoder /\ query' = query
    BY <1>11 DEF Close
  <2> QED BY <2>1, ReleaseJoins DEF Past
<1>12. ASSUME NEW q \in Queries, Query(q)
       PROVE  Lined'
  <2>1. phase = "open" /\ phase' = "open" /\ phase \notin Past /\ query[q].at = "idle"
    BY <1>12 DEF Query, Past
  <2>2. CASE kind = "student"
    <3>1. waiters' = waiters /\ encoder' = encoder /\ GoesTo(q, "lexical")
      BY <1>12, <2>2, GotoIs DEF Query, Places
    <3>2. \A p \in Queries : query[p].at = "encode" => query'[p].at = "encode"
      BY <2>1, <3>1 DEF GoesTo
    <3> QED BY <2>1, <3>1, <3>2, LineStands
  <2>3. CASE kind # "student"
    <3>1. waiters' = Append(waiters, q) /\ encoder' # "none" /\ GoesTo(q, "encode")
      BY <1>12, <2>3, GotoIs DEF Query, Places
    <3>2. /\ waiters \in Seq(Queries \cup {Release}) /\ Len(waiters) \in Nat
          /\ q \in Queries \cup {Release} /\ q # Release
      BY ReleaseAssumption DEF Typed
    <3>3. /\ Len(waiters') = Len(waiters) + 1 /\ waiters'[Len(waiters) + 1] = q
          /\ \A i \in 1 .. Len(waiters) : waiters'[i] = waiters[i]
      BY <3>1, <3>2, AppendProperties
    <3>4. \A i \in 1 .. Len(waiters) :
              waiters[i] \in Queries /\ waiters[i] # Release /\ waiters[i] # q
              /\ query'[waiters[i]].at = "encode"
      <4> SUFFICES ASSUME NEW i \in 1 .. Len(waiters)
                   PROVE  waiters[i] \in Queries /\ waiters[i] # Release /\ waiters[i] # q
                          /\ query'[waiters[i]].at = "encode"
        OBVIOUS
      <4>1. waiters[i] # Release /\ waiters[i] \in Queries /\ query[waiters[i]].at = "encode"
        BY <2>1, <3>2 DEF Lined
      <4>2. waiters[i] # q
        BY <2>1, <4>1
      <4>3. query'[waiters[i]] = query[waiters[i]]
        BY <3>1, <4>1, <4>2 DEF GoesTo
      <4> QED BY <4>1, <4>2, <4>3
    <3>5. \A i \in 1 .. Len(waiters') : i \in 1 .. Len(waiters) \/ i = Len(waiters) + 1
      BY <3>2, <3>3
    <3>6. \A i, j \in 1 .. Len(waiters') : waiters'[i] = waiters'[j] => i = j
      BY <3>3, <3>4, <3>5 DEF Lined
    <3>7. \A i \in 1 .. Len(waiters') : waiters'[i] # Release /\ query'[waiters'[i]].at = "encode"
      BY <3>1, <3>2, <3>3, <3>4, <3>5 DEF GoesTo
    <3> QED BY <2>1, <3>1, <3>6, <3>7 DEF Lined
  <2> QED BY <2>2, <2>3
<1>13. ASSUME NEW q \in Queries, Encode(q)
       PROVE  Lined'
  <2>1. /\ waiters # <<>> /\ Head(waiters) = q /\ waiters' = Tail(waiters)
        /\ phase' = phase /\ encoder' = encoder
        /\ GoesTo(q, "failed") \/ GoesTo(q, "lexical")
    BY <1>13, GotoIs DEF Encode, Places
  <2>2. waiters \in Seq(Queries \cup {Release}) /\ q # Release
    BY ReleaseAssumption DEF Typed
  <2>3. /\ Len(waiters) > 0 /\ Len(waiters) \in Nat /\ Len(waiters') = Len(waiters) - 1 /\ waiters[1] = q
        /\ \A i \in 1 .. Len(waiters') : i + 1 \in 1 .. Len(waiters) /\ waiters'[i] = waiters[i + 1]
    BY <2>1, <2>2, HeadGoes
  <2>4. \A i, j \in 1 .. Len(waiters') : waiters'[i] = waiters'[j] => i = j
    BY <2>3 DEF Lined
  <2>5. \A i \in 1 .. Len(waiters') : waiters'[i] # Release => query'[waiters'[i]].at = "encode"
    <3> SUFFICES ASSUME NEW i \in 1 .. Len(waiters'), waiters'[i] # Release
                 PROVE  query'[waiters'[i]].at = "encode"
      OBVIOUS
    <3>1. waiters'[i] \in Queries /\ query[waiters'[i]].at = "encode"
      BY <2>2, <2>3 DEF Lined
    <3>2. waiters'[i] # q
      BY <2>3 DEF Lined
    <3> QED BY <2>1, <3>1, <3>2 DEF GoesTo
  <2>6. phase \notin Past /\ encoder # "none"
    BY <2>1 DEF Lined
  <2>7. phase # "release" => \A i \in 1 .. Len(waiters') : waiters'[i] # Release
    BY <2>3 DEF Lined
  <2>8. phase = "release" => Len(waiters') > 0 /\ waiters'[Len(waiters')] = Release
    BY <2>2, <2>3, <2>6 DEF Lined
  <2> QED BY <2>1, <2>4, <2>5, <2>6, <2>7, <2>8 DEF Lined
<1>14. ASSUME NEW q \in Queries,
              LexicalRead(q) \/ ReadFails(q) \/ RowsRead(q) \/ HavePage(q) \/ RecordRead(q) \/ Throw(q)
       PROVE  Lined'
  <2>1. waiters' = waiters /\ phase' = phase /\ encoder' = encoder
    BY <1>14 DEF LexicalRead, ReadFails, RowsRead, HavePage, RecordRead, Throw
  <2>2. query[q].at # "encode"
    BY <1>14 DEF LexicalRead, ReadFails, RowsRead, HavePage, RecordRead, Throw
  <2>3. \A p \in Queries \ {q} : query'[p] = query[p]
    BY <1>14, OthersStay
  <2> QED BY <2>1, <2>2, <2>3, LineStands
<1> QED
  BY <1>1, <1>2, <1>3, <1>4, <1>5, <1>6, <1>7, <1>8, <1>9, <1>10, <1>11, <1>12, <1>13, <1>14
     DEF Next, OpenStep, BackgroundStep, ReleaseStep, QueryStep


LEMMA PhasedStep ==
    ASSUME Typed, Lined, Phased, Next
    PROVE  Phased'
<1> USE DEF resourceVars, cacheVars, boundVars, histVars
<1>1. CASE ReadHead
  BY <1>1 DEF ReadHead, Phased, Past
<1>2. CASE EncoderOpened
  <2>1. /\ phase = "encoder" /\ phase' \in {"tables", "release"}
        /\ UNCHANGED <<encoder, scanner, source>>
    BY <1>2 DEF EncoderOpened, BeginRelease
  <2> QED BY <2>1 DEF Phased, Past
<1>3. CASE StageScanner \/ Opened
  BY <1>3 DEF StageScanner, Opened, Phased, Past
<1>4. ASSUME NEW part \in Parts, ReadPart(part)
      PROVE  Phased'
  <2>1. CASE phase = "wave"
    <3>1. /\ UNCHANGED <<scanner, source>> /\ phase' \in {"wave", "encoder", "tables"}
          /\ encoder' \in {encoder, "loading"} /\ (phase' = "wave" => encoder' = encoder)
      BY <1>4, <2>1 DEF ReadPart
    <3> QED BY <2>1, <3>1 DEF Phased, Past
  <2>2. CASE phase # "wave"
    BY <1>4, <2>2 DEF ReadPart, Phased
  <2> QED BY <2>1, <2>2
<1>5. ASSUME NEW part \in Parts, PartFails(part)
      PROVE  Phased'
  BY <1>5 DEF PartFails, BeginRelease, Phased, Past
<1>6. ASSUME NEW from \in {"head", "tables"}, OpenFails(from)
      PROVE  Phased'
  BY <1>6 DEF OpenFails, BeginRelease, Phased, Past
<1>7. CASE EncoderLoads
  <2>1. encoder = "loading" /\ encoder' \in {"ready", "failed"} /\ UNCHANGED <<phase, scanner, source>>
    BY <1>7 DEF EncoderLoads
  <2> QED BY <2>1 DEF Phased
<1>8. CASE ScannerStaged
  BY <1>8 DEF ScannerStaged, Phased
<1>9. ASSUME NEW f \in DOMAIN fetches, PageRead(f) \/ PageFails(f)
      PROVE  Phased'
  BY <1>9 DEF PageRead, PageFails, Phased
<1>10. CASE ReleaseEncoder
  <2>1. /\ phase = "release" /\ phase' = "scanner" /\ encoder # "loading" /\ UNCHANGED <<scanner, source>>
        /\ encoder' = IF encoder = "ready" THEN "freed" ELSE encoder
    BY <1>10 DEF ReleaseEncoder
  <2> QED BY <2>1 DEF Phased, Past
<1>11. CASE ReleaseScanner
  BY <1>11 DEF ReleaseScanner, Phased, Past
<1>12. CASE CloseSource
  BY <1>12 DEF CloseSource, Phased, Past
<1>13. CASE Close
  BY <1>13 DEF Close, BeginRelease, Phased, Past
<1>14. ASSUME NEW q \in Queries, Query(q)
       PROVE  Phased'
  <2>1. /\ phase = "open" /\ UNCHANGED <<phase, scanner, source>>
        /\ encoder' = encoder \/ encoder' = "loading"
    BY <1>14 DEF Query
  <2> QED BY <2>1 DEF Phased, Past
<1>15. ASSUME NEW q \in Queries, QueryStep(q)
       PROVE  Phased'
  <2>1. UNCHANGED <<phase, encoder, scanner, source>>
    BY <1>15 DEF QueryStep, Encode, LexicalRead, ReadFails, RowsRead, HavePage, RecordRead, Throw
  <2> QED BY <2>1 DEF Phased
<1> QED
  BY <1>1, <1>2, <1>3, <1>4, <1>5, <1>6, <1>7, <1>8, <1>9, <1>10, <1>11, <1>12, <1>13, <1>14, <1>15
     DEF Next, OpenStep, BackgroundStep, ReleaseStep

LEMMA CachedStep ==
    ASSUME Typed, Cached, Next
    PROVE  Cached'
<1> USE DEF resourceVars, cacheVars, boundVars, histVars
<1>0. ASSUME UNCHANGED cacheVars
      PROVE  Cached'
  BY <1>0 DEF Cached, OnePerPage
<1>1. CASE OpenStep
  BY <1>0, <1>1 DEF OpenStep, ReadHead, EncoderOpened, StageScanner, Opened, ReadPart, PartFails, OpenFails
<1>2. CASE EncoderLoads \/ ScannerStaged \/ ReleaseStep \/ Close
  BY <1>0, <1>2 DEF EncoderLoads, ScannerStaged, ReleaseStep, ReleaseEncoder, ReleaseScanner, CloseSource, Close
<1>3. ASSUME NEW f \in DOMAIN fetches, PageRead(f)
      PROVE  Cached'
  <2>1. f \in 1 .. Len(fetches) /\ Settles(f, "ok") /\ UNCHANGED <<digestPages, recordCache>>
    BY <1>3, SettledIs DEF PageRead
  <2>2. \A h \in 1 .. Len(fetches) :
            fetches'[h].page = fetches[h].page /\ (fetches[h].state # "failed" => fetches'[h].state # "failed")
    BY <2>1 DEF Settles
  <2>3. OnePerPage(digestPages, fetches) /\ Len(fetches') = Len(fetches)
    BY <2>1 DEF Cached, Settles
  <2>4. OnePerPage(digestPages, fetches')
    BY <2>2, <2>3 DEF OnePerPage
  <2> QED BY <2>1, <2>4 DEF Cached
<1>4. ASSUME NEW f \in DOMAIN fetches, PageFails(f)
      PROVE  Cached'
  <2>1. f \in 1 .. Len(fetches) /\ Settles(f, "failed") /\ recordCache' = recordCache
    BY <1>4, SettledIs DEF PageFails
  <2>2. OnePerPage(digestPages, fetches)
    BY DEF Cached
  <2>3. PICK g \in {f} \cup {h \in ToSet(digestPages) : fetches[h].page = fetches[f].page} :
            digestPages' = RemoveFirst(digestPages, g)
    BY <1>4 DEF PageFails
  <2>4. digestPages \in Seq(Nat)
    BY <2>2 DEF OnePerPage
  <2>5. g \in Nat /\ (g = f \/ ((\E i \in 1 .. Len(digestPages) : digestPages[i] = g)
                              /\ fetches[g].page = fetches[f].page))
    BY <2>1, <2>3, <2>4 DEF ToSet
  <2>6. fetches \in Seq(Fetched) /\ fetches' \in Seq(Fetched) /\ Len(fetches') = Len(fetches)
        /\ \A h \in 1 .. Len(fetches) :
               fetches'[h].page = fetches[h].page /\ (h # f => fetches'[h] = fetches[h])
    BY <2>1 DEF Typed, Settles
  <2>7. OnePerPage(RemoveFirst(digestPages, g), fetches')
    BY <2>1, <2>2, <2>5, <2>6, FailKeeps
  <2> QED BY <2>1, <2>3, <2>7 DEF Cached
<1>5. ASSUME NEW q \in Queries,
             Query(q) \/ Encode(q) \/ LexicalRead(q) \/ ReadFails(q) \/ Throw(q)
      PROVE  Cached'
  BY <1>0, <1>5 DEF Query, Encode, LexicalRead, ReadFails, Throw
<1>6. ASSUME NEW q \in Queries, RowsRead(q)
      PROVE  Cached'
  <2>1. PICK id \in Ids :
            IF id \in ToSet(recordCache)
            THEN recordCache' = Touched(recordCache, id) /\ UNCHANGED <<digestPages, fetches>>
            ELSE /\ AwaitPage(q, id, "none") \/ UNCHANGED <<digestPages, fetches>>
                 /\ recordCache' = recordCache
    BY <1>6 DEF RowsRead
  <2>2. CASE id \in ToSet(recordCache)
    <3>1. recordCache \in Seq(Ids) /\ \E i \in 1 .. Len(recordCache) : recordCache[i] = id
      BY <2>2 DEF ToSet, Cached
    <3>2. recordCache' \in Seq(Ids) /\ Len(recordCache') = Len(recordCache)
      BY <2>1, <2>2, <3>1, TouchedIs
    <3> QED BY <2>1, <2>2, <3>2 DEF Cached
  <2>3. CASE id \notin ToSet(recordCache)
    <3>1. OnePerPage(digestPages', fetches')
      BY <2>1, <2>3, AwaitIs DEF Awaits, Cached
    <3> QED BY <2>1, <2>3, <3>1 DEF Cached
  <2> QED BY <2>2, <2>3
<1>7. ASSUME NEW q \in Queries, HavePage(q)
      PROVE  Cached'
  <2>1. Keep(query[q].id) \/ recordCache' = recordCache
    BY <1>7 DEF HavePage, CheckRecord
  <2>2. query[q].id \in Ids /\ UNCHANGED <<digestPages, fetches>>
    BY <1>7 DEF HavePage, Typed, Held
  <2>3. recordCache' \in Seq(Ids) /\ Len(recordCache') <= RecordCache
    BY <2>1, <2>2, KeepIs DEF Cached
  <2> QED BY <2>2, <2>3 DEF Cached
<1>8. ASSUME NEW q \in Queries, RecordRead(q)
      PROVE  Cached'
  <2>1. query[q].id \in Ids
    BY <1>8 DEF RecordRead, Typed, Held
  <2>2. PICK bytes \in {"good", "bad"} :
            IF cached THEN CheckRecord(q, bytes) /\ UNCHANGED <<digestPages, fetches>>
            ELSE AwaitPage(q, query[q].id, bytes) /\ recordCache' = recordCache
    BY <1>8 DEF RecordRead
  <2>3. CASE CheckRecord(q, bytes) /\ UNCHANGED <<digestPages, fetches>>
    <3>1. recordCache' \in Seq(Ids) /\ Len(recordCache') <= RecordCache
      BY <2>1, <2>3, KeepIs DEF CheckRecord, Cached
    <3> QED BY <2>3, <3>1 DEF Cached
  <2>4. CASE AwaitPage(q, query[q].id, bytes) /\ recordCache' = recordCache
    <3>1. OnePerPage(digestPages', fetches')
      BY <2>1, <2>4, AwaitIs DEF Awaits
    <3> QED BY <2>4, <3>1 DEF Cached
  <2> QED BY <2>2, <2>3, <2>4
<1> QED
  BY <1>1, <1>2, <1>3, <1>4, <1>5, <1>6, <1>7, <1>8 DEF Next, BackgroundStep, QueryStep


\* close() was called, or the open failed.
Late == phase \in {"release", "scanner", "source", "closed"}

\* Causes only grow in number.
Grows ==
    /\ faults' \in Nat /\ faults <= faults'
    /\ Late => Late'
    /\ encoder = "failed" => encoder' = "failed"
    /\ causes' = causes

LEMMA CauseGrows ==
    ASSUME Typed, Grows
    PROVE  Cause \in Nat /\ Cause' \in Nat /\ Cause <= Cause'
<1>1. faults \in Nat /\ faults' \in Nat /\ faults <= faults'
  BY DEF Typed, Grows
<1>2. \A f, g \in Nat : f <= g =>
          /\ f + 0 \in Nat /\ f + 1 \in Nat
          /\ f + 0 <= g + 0 /\ f + 0 <= g + 1 /\ f + 1 <= g + 1
  OBVIOUS
<1>3. Late => Late'
  BY DEF Grows
<1>4. /\ Cause = IF Late THEN faults + 1 ELSE faults + 0
      /\ Cause' = IF Late' THEN faults' + 1 ELSE faults' + 0
  BY DEF Cause, Late
<1>5. faults' <= faults'
  BY <1>1
<1> QED BY <1>1, <1>2, <1>3, <1>4, <1>5, Zenon

\* A query that stays where it is, over fetches none of which fails without a
\* cause, keeps its cause.
LEMMA CausesStay ==
    ASSUME Typed, Caused, Grows,
           Len(fetches) \in Nat, Len(fetches') \in Nat, Len(fetches) <= Len(fetches'),
           \A f \in 1 .. Len(fetches) : fetches'[f].state = "failed" =>
               fetches[f].state = "failed" \/ \A p \in Queries : Cause' > causes[p],
           NEW q \in Queries, query'[q] = query[q]
    PROVE  causes'[q] <= faults' /\ HasCause(q)'
<1>1. /\ causes' = causes /\ causes[q] \in Nat /\ causes[q] <= faults
      /\ faults \in Nat /\ faults' \in Nat /\ faults <= faults' /\ HasCause(q)
  BY DEF Typed, Caused, Grows
<1>2. Cause \in Nat /\ Cause' \in Nat /\ Cause <= Cause'
  BY CauseGrows
<1>3. Cause > causes[q] => Cause' > causes'[q]
  BY <1>1, <1>2
<1>4. query'[q].at = "failed" => encoder' = "failed" \/ Cause' > causes'[q]
  BY <1>1, <1>3 DEF HasCause, Grows
<1>5. ASSUME query'[q].at = "page"
      PROVE  /\ query'[q].fetch \in 1 .. Len(fetches')
             /\ fetches'[query'[q].fetch].state = "failed" \/ query'[q].bytes = "bad" =>
                    Cause' > causes'[q]
  <2>1. /\ query[q].fetch \in 1 .. Len(fetches)
        /\ fetches[query[q].fetch].state = "failed" \/ query[q].bytes = "bad" => Cause > causes[q]
    BY <1>1, <1>5 DEF HasCause
  <2>2. query'[q].fetch \in 1 .. Len(fetches')
    BY <2>1
  <2> QED BY <1>1, <1>3, <2>1, <2>2
<1>6. HasCause(q)'
  BY <1>4, <1>5 DEF HasCause
<1>7. causes'[q] <= faults'
  BY <1>1
<1> QED BY <1>6, <1>7

\* Something failed: every query has its cause.
LEMMA FailBlames ==
    ASSUME Typed, Caused, Phased, Fail, UNCHANGED <<phase, encoder, causes>> \/ Late'
    PROVE  \A p \in Queries : Cause' > causes[p]
<1> SUFFICES ASSUME NEW p \in Queries
             PROVE  Cause' > causes[p]
  OBVIOUS
<1>1. causes[p] \in Nat /\ causes[p] <= faults /\ faults \in Nat
  BY DEF Typed, Caused
<1>2. faults' \in Nat /\ faults <= faults' /\ (source = "closed" \/ faults' = faults + 1)
  BY FailIs
<1>3. source = "closed" => Late
  BY DEF Phased, Late
<1>4. CASE Late'
  BY <1>1, <1>2, <1>4 DEF Cause, Late
<1>5. CASE phase' = phase /\ ~Late
  BY <1>1, <1>2, <1>3, <1>5 DEF Cause, Late
<1>6. CASE phase' = phase /\ Late
  BY <1>4, <1>6 DEF Late
<1> QED BY <1>4, <1>5, <1>6

\* A step that moves no query and ends no fetch.
LEMMA NobodyMoves ==
    ASSUME Typed, Caused, Grows, query' = query, fetches' = fetches
    PROVE  Caused'
<1>1. Len(fetches) \in Nat
  BY DEF Typed
<1>2. \A q \in Queries : causes'[q] <= faults' /\ HasCause(q)'
  BY <1>1, CausesStay
<1> QED BY <1>2 DEF Caused

\* A step that moves one query, and fails no fetch.
LEMMA OneMoves ==
    ASSUME Typed, Caused, Grows, NEW q \in Queries, HasCause(q)',
           \A p \in Queries \ {q} : query'[p] = query[p],
           Len(fetches) \in Nat, Len(fetches') \in Nat, Len(fetches) <= Len(fetches'),
           \A f \in 1 .. Len(fetches) : fetches'[f] = fetches[f]
    PROVE  Caused'
<1>1. \A p \in Queries \ {q} : causes'[p] <= faults' /\ HasCause(p)'
  BY CausesStay
<1>2. causes'[q] <= faults'
  BY DEF Typed, Caused, Grows
<1> QED BY <1>1, <1>2 DEF Caused

LEMMA CausedStep ==
    ASSUME Typed, Phased, Cached, Caused, Next
    PROVE  Caused'
<1> USE DEF resourceVars, cacheVars, boundVars, histVars
<1>0. faults \in Nat /\ fetches \in Seq(Fetched) /\ Len(fetches) \in Nat
  BY DEF Typed
<1>1. CASE ReadHead \/ EncoderOpened \/ StageScanner \/ Opened \/ ScannerStaged
  <2>1. query' = query /\ fetches' = fetches
    BY <1>1 DEF ReadHead, EncoderOpened, StageScanner, Opened, ScannerStaged
  <2>2. Grows
    BY <1>0, <1>1
       DEF ReadHead, Read, EncoderOpened, BeginRelease, StageScanner, Opened, ScannerStaged, Grows, Late
  <2> QED BY <2>1, <2>2, NobodyMoves
<1>2. ASSUME NEW part \in Parts, ReadPart(part)
      PROVE  Caused'
  <2>1. query' = query /\ fetches' = fetches /\ causes' = causes
    BY <1>2 DEF ReadPart
  <2>2. Grows
    <3>1. CASE phase = "wave"
      BY <1>0, <1>2, <3>1 DEF ReadPart, Read, Phased, Grows, Late
    <3>2. CASE phase # "wave"
      BY <1>0, <1>2, <3>2 DEF ReadPart, Grows, Late
    <3> QED BY <3>1, <3>2
  <2> QED BY <2>1, <2>2, NobodyMoves
<1>3. ASSUME NEW part \in Parts, PartFails(part)
      PROVE  Caused'
  BY <1>3, FailIs, NobodyMoves DEF PartFails, BeginRelease, Grows, Late
<1>4. ASSUME NEW from \in {"head", "tables"}, OpenFails(from)
      PROVE  Caused'
  BY <1>4, FailIs, NobodyMoves DEF OpenFails, BeginRelease, Grows, Late
<1>5. CASE EncoderLoads
  <2>1. /\ query' = query /\ fetches' = fetches /\ causes' = causes /\ phase' = phase
        /\ encoder = "loading" /\ (Fail \/ faults' = faults)
    BY <1>5 DEF EncoderLoads, Read
  <2>2. Grows
    BY <1>0, <2>1, FailIs DEF Grows, Late
  <2> QED BY <2>1, <2>2, NobodyMoves
<1>6. ASSUME NEW f \in DOMAIN fetches, PageRead(f)
      PROVE  Caused'
  <2>1. /\ f \in 1 .. Len(fetches) /\ Settles(f, "ok") /\ query' = query
        /\ UNCHANGED <<phase, encoder, causes>> /\ faults' = faults
    BY <1>6, SettledIs DEF PageRead, Read
  <2>2. Grows
    BY <1>0, <2>1 DEF Grows, Late
  <2>3. /\ Len(fetches') = Len(fetches)
        /\ \A h \in 1 .. Len(fetches) : fetches'[h].state = "failed" => fetches[h].state = "failed"
    BY <2>1 DEF Settles
  <2>4. \A q \in Queries : causes'[q] <= faults' /\ HasCause(q)'
    BY <1>0, <2>1, <2>2, <2>3, CausesStay
  <2> QED BY <2>4 DEF Caused
<1>7. ASSUME NEW f \in DOMAIN fetches, PageFails(f)
      PROVE  Caused'
  <2>1. /\ f \in 1 .. Len(fetches) /\ Settles(f, "failed") /\ query' = query
        /\ UNCHANGED <<phase, encoder, causes>> /\ Fail
    BY <1>7, SettledIs DEF PageFails
  <2>2. Grows
    BY <2>1, FailIs DEF Grows, Late
  <2>3. \A p \in Queries : Cause' > causes[p]
    BY <2>1, FailBlames
  <2>4. Len(fetches') = Len(fetches)
    BY <2>1 DEF Settles
  <2>5. \A q \in Queries : causes'[q] <= faults' /\ HasCause(q)'
    BY <1>0, <2>1, <2>2, <2>3, <2>4, CausesStay
  <2> QED BY <2>5 DEF Caused
<1>8. CASE ReleaseEncoder \/ ReleaseScanner \/ CloseSource \/ Close
  <2>1. query' = query /\ fetches' = fetches
    BY <1>8 DEF ReleaseEncoder, ReleaseScanner, CloseSource, Close
  <2>2. Grows
    BY <1>0, <1>8 DEF ReleaseEncoder, ReleaseScanner, CloseSource, Close, BeginRelease, Grows, Late
  <2> QED BY <2>1, <2>2, NobodyMoves
<1>9. ASSUME NEW q \in Queries, Query(q)
      PROVE  Caused'
  <2>1. /\ phase = "open" /\ phase' = "open" /\ fetches' = fetches /\ faults' = faults
        /\ encoder = "failed" => encoder' = "failed"
        /\ causes' = [causes EXCEPT ![q] = Cause]
        /\ GoesTo(q, "lexical") \/ GoesTo(q, "encode")
    BY <1>9, GotoIs DEF Query, Places
  <2>2. Cause = faults /\ Cause' = faults
    BY <1>0, <2>1 DEF Cause
  <2>3. causes \in [Queries -> Nat] /\ causes'[q] = faults /\ \A p \in Queries \ {q} : causes'[p] = causes[p]
    BY <2>1, <2>2 DEF Typed
  <2>4. HasCause(q)'
    BY <2>1 DEF HasCause, GoesTo
  <2>5. ASSUME NEW p \in Queries \ {q}
        PROVE  causes'[p] <= faults' /\ HasCause(p)'
    <3>1. query'[p] = query[p] /\ causes[p] <= faults /\ HasCause(p)
      BY <2>1 DEF GoesTo, Caused
    <3>2. HasCause(p)'
      BY <2>1, <2>2, <2>3, <3>1 DEF HasCause
    <3> QED BY <2>1, <2>3, <3>1, <3>2
  <2>6. causes'[q] <= faults'
    BY <1>0, <2>1, <2>3
  <2> QED BY <2>4, <2>5, <2>6 DEF Caused
<1>10. ASSUME NEW q \in Queries, Encode(q) \/ LexicalRead(q) \/ Throw(q)
       PROVE  Caused'
  <2>1. UNCHANGED <<phase, encoder, fetches, causes, faults>>
    BY <1>10 DEF Encode, LexicalRead, Read, Throw
  <2>2. Grows
    BY <1>0, <2>1 DEF Grows, Late
  <2>3. /\ \A p \in Queries \ {q} : query'[p] = query[p]
        /\ \/ query'[q].at \in {"lexical", "rows", "idle"}
           \/ query'[q].at = "failed" /\ (encoder = "failed" \/ scanner = "freed")
    <3>1. CASE Encode(q)
      BY <3>1, GotoIs DEF Encode, GoesTo, Places
    <3>2. CASE LexicalRead(q)
      BY <3>2, GotoIs DEF LexicalRead, Scan, GoesTo, Places
    <3>3. CASE Throw(q)
      BY <3>3, IdleIs DEF Throw, Ends
    <3> QED BY <1>10, <3>1, <3>2, <3>3
  <2>4. scanner = "freed" => Cause' > causes'[q]
    BY <1>0, <2>1 DEF Phased, Caused, Typed, Cause
  <2>5. HasCause(q)'
    BY <2>1, <2>3, <2>4 DEF HasCause
  <2> QED BY <1>0, <2>1, <2>2, <2>3, <2>5, OneMoves
<1>11. ASSUME NEW q \in Queries, ReadFails(q)
       PROVE  Caused'
  <2>1. UNCHANGED <<phase, encoder, fetches, causes>> /\ Fail /\ GoesTo(q, "failed")
    BY <1>11, GotoIs DEF ReadFails, Places
  <2>2. Grows
    BY <2>1, FailIs DEF Grows, Late
  <2>3. Cause' > causes[q]
    BY <2>1, FailBlames
  <2>4. HasCause(q)'
    BY <2>1, <2>3 DEF HasCause, GoesTo
  <2>5. \A p \in Queries \ {q} : query'[p] = query[p]
    BY <2>1 DEF GoesTo
  <2> QED BY <1>0, <2>1, <2>2, <2>4, <2>5, OneMoves
<1>12. ASSUME NEW q \in Queries, RowsRead(q)
       PROVE  Caused'
  <2>1. UNCHANGED <<phase, encoder, causes, faults>>
    BY <1>12 DEF RowsRead, Read
  <2>2. Grows
    BY <1>0, <2>1 DEF Grows, Late
  <2>3. PICK id \in Ids :
            IF id \in ToSet(recordCache)
            THEN Answer(q, "good") /\ fetches' = fetches
            ELSE IF cached THEN AwaitPage(q, id, "none")
            ELSE query' = [query EXCEPT ![q].at = "record", ![q].id = id] /\ fetches' = fetches
    BY <1>12 DEF RowsRead
  <2>4. CASE Answer(q, "good") /\ fetches' = fetches
    <3>1. Ends(q)
      BY <2>4, IdleIs DEF Answer
    <3>2. HasCause(q)' /\ \A p \in Queries \ {q} : query'[p] = query[p]
      BY <3>1 DEF HasCause, Ends
    <3> QED BY <1>0, <2>2, <2>4, <3>2, OneMoves
  <2>5. CASE AwaitPage(q, id, "none")
    <3>1. Awaits(q, "none")
      BY <2>5, AwaitIs
    <3>2. /\ \A p \in Queries \ {q} : query'[p] = query[p]
          /\ Len(fetches') \in Nat /\ Len(fetches) <= Len(fetches')
          /\ \A f \in 1 .. Len(fetches) : fetches'[f] = fetches[f]
      BY <3>1 DEF Awaits
    <3>3. HasCause(q)'
      BY <3>1 DEF HasCause, Awaits
    <3> QED BY <1>0, <2>2, <3>2, <3>3, OneMoves
  <2>6. CASE query' = [query EXCEPT ![q].at = "record", ![q].id = id] /\ fetches' = fetches
    <3>1. GoesTo(q, "record")
      BY <2>6, RecordIs
    <3>2. HasCause(q)' /\ \A p \in Queries \ {q} : query'[p] = query[p]
      BY <3>1 DEF HasCause, GoesTo
    <3>3. fetches' = fetches
      BY <2>6
    <3> QED BY <1>0, <2>2, <3>2, <3>3, OneMoves
  <2> QED BY <2>3, <2>4, <2>5, <2>6
<1>13. ASSUME NEW q \in Queries, HavePage(q)
       PROVE  Caused'
  <2>1. UNCHANGED <<phase, encoder, fetches, causes, faults>> /\ query[q].at = "page"
    BY <1>13 DEF HavePage
  <2>2. Grows
    BY <1>0, <2>1 DEF Grows, Late
  <2>3. query[q].bytes \in {"none", "good", "bad"}
    BY DEF Typed, Held
  <2>4. \/ Goto(q, "failed") /\ (fetches[query[q].fetch].state = "failed" \/ query[q].bytes = "bad")
        \/ Goto(q, "record") \/ query' = [query EXCEPT ![q] = Idle]
    BY <1>13, <2>3 DEF HavePage, CheckRecord, Answer
  <2>5. fetches[query[q].fetch].state = "failed" \/ query[q].bytes = "bad" => Cause > causes[q]
    BY <2>1 DEF Caused, HasCause
  <2>6. Cause' = Cause
    BY <2>1 DEF Cause
  <2>7. CASE Goto(q, "failed") /\ (fetches[query[q].fetch].state = "failed" \/ query[q].bytes = "bad")
    <3>1. GoesTo(q, "failed")
      BY <2>7, GotoIs DEF Places
    <3>2. HasCause(q)' /\ \A p \in Queries \ {q} : query'[p] = query[p]
      BY <2>1, <2>5, <2>6, <2>7, <3>1 DEF HasCause, GoesTo
    <3> QED BY <1>0, <2>1, <2>2, <3>2, OneMoves
  <2>8. CASE Goto(q, "record")
    <3>1. GoesTo(q, "record")
      BY <2>1, <2>8, GotoIs DEF Places
    <3>2. HasCause(q)' /\ \A p \in Queries \ {q} : query'[p] = query[p]
      BY <3>1 DEF HasCause, GoesTo
    <3> QED BY <1>0, <2>1, <2>2, <3>2, OneMoves
  <2>9. CASE query' = [query EXCEPT ![q] = Idle]
    <3>1. Ends(q)
      BY <2>9, IdleIs
    <3>2. HasCause(q)' /\ \A p \in Queries \ {q} : query'[p] = query[p]
      BY <3>1 DEF HasCause, Ends
    <3> QED BY <1>0, <2>1, <2>2, <3>2, OneMoves
  <2> QED BY <2>4, <2>7, <2>8, <2>9
<1>14. ASSUME NEW q \in Queries, RecordRead(q)
       PROVE  Caused'
  <2>1. UNCHANGED <<phase, encoder, causes>> /\ query[q].at = "record"
    BY <1>14 DEF RecordRead
  <2>2. query[q].id \in Ids
    BY <2>1 DEF Typed, Held
  <2>3. PICK bytes \in {"good", "bad"} :
            /\ IF bytes = "bad" THEN Fail ELSE Read
            /\ IF cached THEN CheckRecord(q, bytes) /\ fetches' = fetches
               ELSE AwaitPage(q, query[q].id, bytes)
    BY <1>14 DEF RecordRead
  <2>4. Grows
    BY <1>0, <2>1, <2>3, FailIs DEF Read, Grows, Late
  <2>5. bytes = "bad" => Cause' > causes'[q]
    BY <2>1, <2>3, FailBlames
  <2>6. CASE CheckRecord(q, bytes) /\ fetches' = fetches
    <3>1. \/ bytes = "bad" /\ GoesTo(q, "failed")
          \/ Ends(q)
      BY <2>6, GotoIs, IdleIs DEF CheckRecord, Answer, Places
    <3>2. HasCause(q)' /\ \A p \in Queries \ {q} : query'[p] = query[p]
      BY <2>5, <3>1 DEF HasCause, GoesTo, Ends
    <3> QED BY <1>0, <2>4, <2>6, <3>2, OneMoves
  <2>7. CASE AwaitPage(q, query[q].id, bytes)
    <3>1. Awaits(q, bytes)
      BY <2>2, <2>7, AwaitIs
    <3>2. /\ \A p \in Queries \ {q} : query'[p] = query[p]
          /\ Len(fetches') \in Nat /\ Len(fetches) <= Len(fetches')
          /\ \A f \in 1 .. Len(fetches) : fetches'[f] = fetches[f]
      BY <3>1 DEF Awaits
    <3>3. HasCause(q)'
      BY <2>5, <3>1 DEF HasCause, Awaits
    <3> QED BY <1>0, <2>4, <3>2, <3>3, OneMoves
  <2> QED BY <2>3, <2>6, <2>7
<1> QED
  BY <1>1, <1>2, <1>3, <1>4, <1>5, <1>6, <1>7, <1>8, <1>9, <1>10, <1>11, <1>12, <1>13, <1>14
     DEF Next, OpenStep, BackgroundStep, ReleaseStep, QueryStep


\* Only what was verified is answered, and nothing freed is read.
LEMMA HistoryStep ==
    ASSUME Typed, Lined, Phased, OnlyVerifiedRecords, NoReadThroughFreed, Next
    PROVE  OnlyVerifiedRecords' /\ NoReadThroughFreed'
<1> USE DEF resourceVars, cacheVars, boundVars, histVars, OnlyVerifiedRecords, NoReadThroughFreed
<1>0. ASSUME UNCHANGED histVars
      PROVE  OnlyVerifiedRecords' /\ NoReadThroughFreed'
  BY <1>0
<1>1. CASE OpenStep
  BY <1>0, <1>1 DEF OpenStep, ReadHead, EncoderOpened, StageScanner, Opened, ReadPart, PartFails, OpenFails
<1>2. CASE BackgroundStep
  BY <1>0, <1>2 DEF BackgroundStep, EncoderLoads, ScannerStaged, PageRead, PageFails
<1>3. CASE ReleaseStep \/ Close
  BY <1>0, <1>3 DEF ReleaseStep, ReleaseEncoder, ReleaseScanner, CloseSource, Close
<1>4. ASSUME NEW q \in Queries, Query(q) \/ ReadFails(q) \/ Throw(q)
      PROVE  OnlyVerifiedRecords' /\ NoReadThroughFreed'
  BY <1>0, <1>4 DEF Query, ReadFails, Throw
<1>5. ASSUME NEW q \in Queries, Encode(q)
      PROVE  OnlyVerifiedRecords' /\ NoReadThroughFreed'
  <2>1. waiters # <<>> /\ answers' = answers /\ (freedUse' = (freedUse \/ encoder = "freed"))
    BY <1>5 DEF Encode
  <2>2. encoder # "freed"
    BY <2>1 DEF Lined, Phased
  <2> QED BY <2>1, <2>2
<1>6. ASSUME NEW q \in Queries, LexicalRead(q)
      PROVE  OnlyVerifiedRecords' /\ NoReadThroughFreed'
  BY <1>6 DEF LexicalRead, Scan
<1>7. ASSUME NEW q \in Queries, RowsRead(q) \/ HavePage(q) \/ RecordRead(q)
      PROVE  OnlyVerifiedRecords' /\ NoReadThroughFreed'
  <2>1. freedUse' = freedUse
    BY <1>7 DEF RowsRead, HavePage, RecordRead
  <2>2. answers' = answers \/ answers' = answers \cup {"good"}
    <3>1. \A bytes : CheckRecord(q, bytes) => answers' = answers \/ answers' = answers \cup {"good"}
      BY DEF CheckRecord, Answer
    <3>2. CASE RowsRead(q)
      BY <3>2 DEF RowsRead, Answer
    <3>3. CASE HavePage(q)
      BY <3>1, <3>3 DEF HavePage, Answer
    <3>4. CASE RecordRead(q)
      BY <3>1, <3>4 DEF RecordRead
    <3> QED BY <1>7, <3>2, <3>3, <3>4
  <2> QED BY <2>1, <2>2
<1> QED BY <1>1, <1>2, <1>3, <1>4, <1>5, <1>6, <1>7 DEF Next, QueryStep

-----------------------------------------------------------------------------
(***************************************************************************)
(* Theorems                                                                *)
(***************************************************************************)

\* The invariant the others follow from: who waits for the encoder and in what
\* order, what is there in which phase, what the caches keep, and why a query
\* fails, in openPikeletFile.
THEOREM ReaderInvariant == Spec => []ReaderInv
<1>1. Init => ReaderInv
  <2> SUFFICES ASSUME Init
               PROVE  ReaderInv
    OBVIOUS
  <2>1. \A S : <<>> \in Seq(S)
    BY EmptySeq
  <2>2. Idle \in Held /\ Idle.at = "idle"
    BY DEF Idle, Held, Places
  <2>3. query \in [Queries -> Held] /\ \A q \in Queries : query[q].at = "idle"
    BY <2>2 DEF Init
  <2>4. Typed
    BY <2>1, <2>3 DEF Init, Typed, Phases
  <2>5. Lined /\ Phased
    BY DEF Init, Lined, Phased, Past
  <2>6. Cached
    BY <2>1, LimitsAssumption DEF Init, Cached, OnePerPage
  <2>7. Caused
    BY <2>3 DEF Init, Caused, HasCause
  <2>8. OnlyVerifiedRecords /\ NoReadThroughFreed
    BY DEF Init, OnlyVerifiedRecords, NoReadThroughFreed
  <2> QED BY <2>4, <2>5, <2>6, <2>7, <2>8 DEF ReaderInv
<1>2. ReaderInv /\ [Next]_vars => ReaderInv'
  <2> SUFFICES ASSUME ReaderInv, [Next]_vars
               PROVE  ReaderInv'
    OBVIOUS
  <2>1. CASE Next
    <3>1. Typed /\ Lined /\ Phased /\ Cached /\ Caused /\ OnlyVerifiedRecords /\ NoReadThroughFreed
      BY DEF ReaderInv
    <3>2. Typed' /\ Lined' /\ Phased' /\ Cached' /\ Caused'
      BY <2>1, <3>1, TypedStep, LinedStep, PhasedStep, CachedStep, CausedStep
    <3>3. OnlyVerifiedRecords' /\ NoReadThroughFreed'
      BY <2>1, <3>1, HistoryStep
    <3> QED BY <3>2, <3>3 DEF ReaderInv
  <2>2. CASE UNCHANGED vars
    <3>1. UNCHANGED <<phase, source, encoder, scanner, waiters, query, fetches, faults, causes,
                      digestPages, recordCache, answers, freedUse>>
      BY <2>2 DEF vars, resourceVars, cacheVars, boundVars, histVars
    <3>2. Typed' /\ Lined' /\ Phased'
      BY <3>1 DEF ReaderInv, Typed, Lined, Phased
    <3>3. Cached'
      BY <3>1 DEF ReaderInv, Cached
    <3>4. Caused'
      BY <3>1 DEF ReaderInv, Caused, HasCause, Cause
    <3>5. OnlyVerifiedRecords' /\ NoReadThroughFreed'
      BY <3>1 DEF ReaderInv, OnlyVerifiedRecords, NoReadThroughFreed
    <3> QED BY <3>2, <3>3, <3>4, <3>5 DEF ReaderInv
  <2> QED BY <2>1, <2>2
<1> QED BY <1>1, <1>2, PTL DEF Spec

\* "The query surface refuses use after close instead of reading through a freed
\* encoder", and close() leaves nothing behind: for any number of queries under
\* way, wherever close() finds them.
THEOREM NothingFreedIsUsed == Spec => []FreedOnceUnused
<1>1. ReaderInv => FreedOnceUnused
  <2> SUFFICES ASSUME ReaderInv
               PROVE  FreedOnceUnused
    OBVIOUS
  <2>1. Typed /\ Lined /\ Phased /\ Cached /\ NoReadThroughFreed
    BY DEF ReaderInv
  <2>2. EverythingReleased
    BY <2>1 DEF Phased, Past, EverythingReleased
  <2>3. \A q \in Queries : query[q].at \in Places /\ query[q].id \in Ids \cup {0}
    BY <2>1 DEF Typed, Held
  <2>4. Len(digestPages) <= DigestPages /\ ToSet(digestPages) \subseteq DOMAIN fetches
    <3>1. /\ digestPages \in Seq(Nat) /\ fetches \in Seq(Fetched) /\ Len(digestPages) <= DigestPages
          /\ \A i \in 1 .. Len(digestPages) : digestPages[i] \in 1 .. Len(fetches)
      BY <2>1 DEF Typed, Cached, OnePerPage
    <3> QED BY <3>1 DEF ToSet
  <2>5. Len(recordCache) <= RecordCache /\ ToSet(recordCache) \subseteq Ids
    BY <2>1 DEF Cached, ToSet
  <2>6. \A w \in ToSet(waiters) : w = Release \/ query[w].at = "encode"
    BY <2>1 DEF Typed, Lined, ToSet
  <2>7. TypeOK
    BY <2>1, <2>3, <2>4, <2>5, <2>6 DEF Typed, TypeOK
  <2> QED BY <2>1, <2>2, <2>7 DEF FreedOnceUnused
<1> QED BY <1>1, ReaderInvariant, PTL

\* A query returns the bytes the manifest commits to, or fails for something
\* that happened since it began: a page that could not be read is evicted before
\* anybody who comes later can be given it (pageDigests).
THEOREM AnswersAreHonest == Spec => []AnswersHonest
<1>1. ReaderInv => AnswersHonest
  BY DEF ReaderInv, Caused, HasCause, FailuresHaveACause, AnswersHonest
<1> QED BY <1>1, ReaderInvariant, PTL

=============================================================================
