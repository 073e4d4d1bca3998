------------------------------ MODULE Lexical ------------------------------
(****************************************************************************)
(* The lexical segment of an artifact: how builder.mjs writes it            *)
(* (buildLexicalSegment), and the two readers of complete/lexical.mjs, the  *)
(* eager one over a segment in memory and the lazy one of big segments,     *)
(* which looks a term up by guessing where in the sorted table it is and    *)
(* reads windows of the table and postings by range, through two caches of  *)
(* reads that are still on their way.                                       *)
(*                                                                          *)
(* A word is [hash, stop], its hash a pair of high and low half. A score is *)
(* a whole number that grows and falls with what BM25's does.               *)
(****************************************************************************)
EXTENDS Integers, Sequences, FiniteSets, SequencesExt

CONSTANTS
  HashMax,     \* the halves of a hash are 0..HashMax
  Radix,       \* of a varint's digits
  Window,      \* WINDOW, entries of the table read at once
  Tries,       \* how often findTerm aims
  WindowsKept, \* entries of windowCache
  CacheBytes,  \* POSTINGS_CACHE_BYTES
  MaxEntry,    \* POSTINGS_CACHE_MAX_ENTRY
  Searches,    \* searches of the lazy reader
  Shelves,     \* [texts, segment]: the texts of records and the segment at hand
  QueryTexts,  \* what may be searched for
  MaxReadFaults \* bound: reads that fail

ASSUME LexicalAssumption ==
  /\ HashMax \in Nat /\ Radix \in Nat \ {0, 1} /\ Window \in Nat \ {0} /\ Tries \in Nat \ {0}
  /\ WindowsKept \in Nat \ {0} /\ MaxReadFaults \in Nat

VARIABLES
  shelf,  \* the segment at hand, and what it was built from
  lazy,   \* [windows, lists, bytes, reads]: windowCache, postingsCache and
          \* postingsCachedBytes, oldest first, and every read there has been
  search  \* what becomes of each search

lexicalVars == <<shelf, lazy, search>>

-----------------------------------------------------------------------------
\* Building

HashLess(a, b) == a[1] < b[1] \/ (a[1] = b[1] /\ a[2] < b[2])
Ascending(S, Less(_, _)) == [n \in 1..Cardinality(S) |-> CHOOSE x \in S : Cardinality({y \in S : Less(y, x)}) = n - 1]

\* varintBytes: digits, all but the last marked.
Varint(n) ==
  LET digits[k \in Nat] == IF k < Radix THEN <<k>> ELSE <<(k % Radix) + Radix>> \o digits[k \div Radix] IN digits[n]

Tokens(text) == [n \in DOMAIN SelectSeq(text, LAMBDA w : ~w.stop) |-> SelectSeq(text, LAMBDA w : ~w.stop)[n].hash]
Frequency(text, hash) == Cardinality({n \in DOMAIN Tokens(text) : Tokens(text)[n] = hash})
SumTo(sizes, n) == FoldLeft(LAMBDA sum, size : sum + size, 0, SubSeq(sizes, 1, n))

\* Terms by hash; the postings of a term are the distances from record to
\* record and how often each has it. Records are numbered from 0.
buildLexicalSegment(texts) ==
  LET terms == Ascending(UNION {ToSet(Tokens(texts[d])) : d \in DOMAIN texts}, HashLess)
      docs == [t \in DOMAIN terms |-> Ascending({d - 1 : d \in {d \in DOMAIN texts : Frequency(texts[d], terms[t]) > 0}}, <)]
      list == [t \in DOMAIN terms |-> FlattenSeq(
                [n \in DOMAIN docs[t] |-> Varint(IF n = 1 THEN docs[t][n] ELSE docs[t][n] - docs[t][n - 1])
                                          \o Varint(Frequency(texts[docs[t][n] + 1], terms[t]))])]
      sizes == [t \in DOMAIN terms |-> Len(list[t])]
      doclens == [d \in DOMAIN texts |-> Len(Tokens(texts[d]))]
  IN  [docCount |-> Len(texts), termCount |-> Len(terms), doclens |-> doclens,
       totalTokens |-> SumTo(doclens, Len(texts)),
       table |-> [t \in DOMAIN terms |-> [hash |-> terms[t], rel |-> SumTo(sizes, t - 1), len |-> sizes[t], df |-> Len(docs[t])]],
       postings |-> FlattenSeq(list)]

-----------------------------------------------------------------------------
\* Reading what is there

\* Binary search in the entries lo..hi, counted from 0; -1 when it is not there.
Bisect(seg, hash, from, to) ==
  LET find[lo \in 0..seg.termCount, hi \in -1..seg.termCount] ==
        LET mid == (lo + hi) \div 2
            here == seg.table[mid + 1].hash
        IN  IF lo > hi THEN -1
            ELSE IF here = hash THEN mid
            ELSE IF HashLess(here, hash) THEN find[mid + 1, hi] ELSE find[lo, mid - 1]
  IN  find[from, to]

\* readVarint at a place of a list: [ok, value, at], where the next one begins.
ReadVarint(bytes, at) ==
  LET ends == {p \in at..Len(bytes) : bytes[p] < Radix /\ p <= at + 5}
      last == CHOOSE p \in ends : \A q \in ends : p <= q
      value == FoldRight(LAMBDA digit, v : (v * Radix) + (digit % Radix), SubSeq(bytes, at, last), 0)
  IN  IF ends = {} THEN [ok |-> FALSE, value |-> 0, at |-> at] ELSE [ok |-> TRUE, value |-> value, at |-> last + 1]

\* The postings of an entry, [id, tf]; {} when they are not well formed.
ReadPostings(seg, bytes, df) ==
  LET Next1(so, n) ==
        LET gap == ReadVarint(bytes, so.at)
            tf == ReadVarint(bytes, gap.at)
            id == so.id + gap.value
        IN  IF so.ok /\ gap.ok /\ tf.ok /\ id < seg.docCount
            THEN [ok |-> TRUE, at |-> tf.at, id |-> id, out |-> Append(so.out, [id |-> id, tf |-> tf.value])]
            ELSE [so EXCEPT !.ok = FALSE]
      all == FoldLeft(Next1, [ok |-> TRUE, at |-> 1, id |-> 0, out |-> <<>>], [n \in 1..df |-> n])
  IN  IF all.ok THEN {all.out} ELSE {}

\* Grows with a term's rarity and its frequency, falls with a record's length.
Weight(stats, df, tf, doclen) ==
  (60 * tf * (stats.docCount - df + 1)) \div (tf + 1 + (doclen * stats.docCount) \div (IF stats.total = 0 THEN 1 ELSE stats.total))

OwnStats(seg) == [docCount |-> seg.docCount, total |-> seg.totalTokens]
NoOptions(seg) == [excluded |-> {}, stats |-> OwnStats(seg), df |-> <<>>]

\* The records' scores, best first, of the entries found and their postings.
Ranked(seg, entries, lists, options) ==
  LET Df(e) == IF e.hash \in DOMAIN options.df THEN options.df[e.hash] ELSE e.df
      hits == UNION {{p.id : p \in ToSet(lists[n])} : n \in DOMAIN entries} \ options.excluded
      Of(n, id) == FoldLeft(LAMBDA sum, p : IF p.id = id THEN sum + Weight(options.stats, Df(entries[n]), p.tf, seg.doclens[id + 1]) ELSE sum,
                            0, lists[n])
      scored == {[id |-> id, score |-> FoldLeft(LAMBDA sum, n : sum + Of(n, id), 0, [n \in DOMAIN entries |-> n])] : id \in hits}
  IN  Ascending(scored, LAMBDA a, b : a.score > b.score \/ (a.score = b.score /\ a.id < b.id))

\* documentFrequencies
documentFrequencies(seg, hashes) ==
  [h \in {h \in hashes : Bisect(seg, h, 0, seg.termCount - 1) >= 0} |-> seg.table[Bisect(seg, h, 0, seg.termCount - 1) + 1].df]

\* search of openLexicalIndex: what it answers, {} when it throws.
EagerSearch(seg, hashes, options) ==
  LET Found(h) == Bisect(seg, h, 0, seg.termCount - 1) + 1
      ListOf(e) == ReadPostings(seg, SubSeq(seg.postings, e.rel + 1, e.rel + e.len), e.df)
      Answer(entries, lists) ==
        IF \E n \in DOMAIN entries : entries[n].rel + entries[n].len > Len(seg.postings) \/ lists[n] = {}
             \/ (entries[n].hash \in DOMAIN options.df /\ options.df[entries[n].hash] < entries[n].df)
        THEN {} ELSE {Ranked(seg, entries, [n \in DOMAIN entries |-> CHOOSE l \in lists[n] : TRUE], options)}
  IN  UNION {Answer(entries, [n \in DOMAIN entries |-> ListOf(entries[n])]) :
               entries \in {Ascending({seg.table[n] : n \in {Found(h) : h \in hashes} \ {0}}, LAMBDA a, b : HashLess(a.hash, b.hash))}}

-----------------------------------------------------------------------------
\* The caches of the lazy reader. Both hold reads, not what they gave.

Pending(c, what) == [c EXCEPT !.reads = Append(@, [what |-> what, state |-> "pending"]), !.got = Len(c.reads) + 1]
Renewed(entries, n) == Append(RemoveAt(entries, n), entries[n])

readWindow(c, start, count) ==
  LET hit == {n \in DOMAIN c.windows : c.windows[n].start = start /\ c.windows[n].count = count}
      n == CHOOSE n \in hit : TRUE
      new == Pending(c, [of |-> "window", from |-> start, len |-> count])
      kept == IF Len(c.windows) >= WindowsKept THEN Tail(c.windows) ELSE c.windows
  IN  IF hit # {} THEN [c EXCEPT !.windows = Renewed(@, n), !.got = c.windows[n].read]
      ELSE [new EXCEPT !.windows = Append(kept, [start |-> start, count |-> count, read |-> new.got])]

\* Evicts the oldest lists until the rest fits, never the last.
Shrunk(c) ==
  LET sizes == [n \in DOMAIN c.lists |-> c.lists[n].len]
      Fits(gone) == c.bytes - SumTo(sizes, gone) <= CacheBytes \/ gone = Len(sizes) - 1
      gone == CHOOSE g \in 0..Len(sizes) - 1 : Fits(g) /\ \A f \in 0..g - 1 : ~Fits(f)
  IN  [c EXCEPT !.lists = SubSeq(@, gone + 1, Len(@)), !.bytes = @ - SumTo(sizes, gone)]

\* A list at the same place but of another length replaces the one kept.
readPostings(c, rel, len) ==
  LET hit == {n \in DOMAIN c.lists : c.lists[n].rel = rel}
      n == CHOOSE n \in hit : TRUE
      new == Pending(c, [of |-> "postings", from |-> rel, len |-> len])
      entry == [rel |-> rel, len |-> len, read |-> new.got]
  IN  IF hit # {} /\ c.lists[n].len = len THEN [c EXCEPT !.lists = Renewed(@, n), !.got = c.lists[n].read]
      ELSE IF len > MaxEntry THEN new
      ELSE IF hit # {} THEN Shrunk([new EXCEPT !.lists[n] = entry, !.bytes = @ - c.lists[n].len + len])
      ELSE Shrunk([new EXCEPT !.lists = Append(@, entry), !.bytes = @ + len])

\* Mutant: a read that fails is left in the caches.
Evicted_Keep(c, r) == c

\* The next query retries what failed.
Evicted(c, r) ==
  LET failed == {n \in DOMAIN c.lists : c.lists[n].read = r}
  IN  [c EXCEPT !.windows = SelectSeq(@, LAMBDA w : w.read # r), !.lists = SelectSeq(@, LAMBDA l : l.read # r),
                !.bytes = @ - SumTo([n \in DOMAIN c.lists |-> IF n \in failed THEN c.lists[n].len ELSE 0], Len(c.lists))]

-----------------------------------------------------------------------------
\* A search of the lazy reader

\* findTerm: [lo, hi] is where the term still may be, [loHash, hiHash] what is
\* known of the hashes there.
Aim(c, look) ==
  LET seg == shelf.segment
      span == IF look.hiHash > look.loHash THEN look.hiHash - look.loHash ELSE 1
      Within(n, from, to) == IF n < from THEN from ELSE IF n > to THEN to ELSE n
      guess == Within(look.lo + ((look.hi - look.lo) * (look.hash[1] - look.loHash)) \div span, look.lo, look.hi)
      latest == IF look.hi - Window + 1 > look.lo THEN look.hi - Window + 1 ELSE look.lo
      start == Within(guess - Window \div 2, look.lo, latest)
      count == IF look.hi - start + 1 < Window THEN look.hi - start + 1 ELSE Window
      asked == readWindow(c, start, count)
  IN  IF look.aimed = Tries \/ look.lo > look.hi THEN [c |-> c, look |-> [look EXCEPT !.at = "absent"]]
      ELSE [c |-> asked, look |-> [look EXCEPT !.aimed = @ + 1, !.start = start, !.count = count, !.read = asked.got]]

NoLook == [at |-> "reading", hash |-> <<0, 0>>, lo |-> 0, hi |-> 0, loHash |-> 0, hiHash |-> HashMax, aimed |-> 0,
           start |-> 0, count |-> 0, read |-> 0, entry |-> 0]
Unasked == [at |-> "unasked", looks |-> <<>>, lists |-> <<>>, answer |-> {}]

LexicalInit ==
  /\ shelf \in Shelves
  /\ lazy = [windows |-> <<>>, lists |-> <<>>, bytes |-> 0, reads |-> <<>>, got |-> 0]
  /\ search = [s \in Searches |-> Unasked]

\* Every term is aimed at before the search waits for the first time.
Ask(s, text) ==
  LET hashes == SetToSeq({text[n].hash : n \in DOMAIN text})
      AimNext(so, hash) ==
        LET one == Aim(so.c, [NoLook EXCEPT !.hash = hash, !.hi = shelf.segment.termCount - 1])
        IN  [c |-> one.c, looks |-> Append(so.looks, one.look)]
      aimed == FoldLeft(AimNext, [c |-> lazy, looks |-> <<>>], hashes)
  IN  /\ search[s].at = "unasked"
      /\ IF hashes = <<>> \/ shelf.segment.docCount = 0
         THEN search' = [search EXCEPT ![s] = [@ EXCEPT !.at = "answered", !.answer = {<<>>}]] /\ UNCHANGED lazy
         ELSE search' = [search EXCEPT ![s] = [@ EXCEPT !.at = "finding", !.looks = aimed.looks]] /\ lazy' = aimed.c
      /\ UNCHANGED shelf

\* A window has come, or failed: the term is in it, before it, behind it or
\* nowhere. The other terms of a search that failed are looked up all the same.
Look(s, n) ==
  LET look == search[s].looks[n]
      seg == shelf.segment
      first == seg.table[look.start + 1].hash
      last == seg.table[look.start + look.count].hash
      here == Bisect(seg, look.hash, look.start, look.start + look.count - 1)
      again == Aim(lazy, IF HashLess(look.hash, first) THEN [look EXCEPT !.hi = look.start - 1, !.hiHash = first[1]]
                         ELSE [look EXCEPT !.lo = look.start + look.count, !.loHash = last[1]])
      Becomes(l) == search' = [search EXCEPT ![s].looks[n] = l]
  IN  /\ look.at = "reading" /\ lazy.reads[look.read].state # "pending"
      /\ IF lazy.reads[look.read].state = "failed"
         THEN /\ search' = [search EXCEPT ![s].looks[n].at = "failed", ![s].at = IF @ = "finding" THEN "failed" ELSE @]
              /\ UNCHANGED lazy
         ELSE IF HashLess(look.hash, first) \/ HashLess(last, look.hash)
         THEN Becomes(again.look) /\ lazy' = again.c
         ELSE /\ Becomes([look EXCEPT !.at = IF here >= 0 THEN "found" ELSE "absent", !.entry = here + 1])
              /\ UNCHANGED lazy
      /\ UNCHANGED shelf

FoundBy(s) == SelectSeq(search[s].looks, LAMBDA look : look.at = "found")
EntriesOf(s) == [n \in DOMAIN FoundBy(s) |-> shelf.segment.table[FoundBy(s)[n].entry]]

\* What an entry says is held against the segment before its postings are read.
InBounds(e) ==
  e.rel + e.len <= Len(shelf.segment.postings) /\ e.df <= shelf.segment.docCount /\ e.len <= 12 * e.df

Fetch(s) ==
  LET entries == EntriesOf(s)
      FetchNext(so, e) == LET one == readPostings(so.c, e.rel, e.len) IN [c |-> one, lists |-> Append(so.lists, one.got)]
      fetched == FoldLeft(FetchNext, [c |-> lazy, lists |-> <<>>], entries)
  IN  /\ search[s].at = "finding" /\ \A n \in DOMAIN search[s].looks : search[s].looks[n].at \in {"found", "absent"}
      /\ IF entries = <<>> THEN search' = [search EXCEPT ![s].at = "answered", ![s].answer = {<<>>}] /\ UNCHANGED lazy
         ELSE IF \E n \in DOMAIN entries : ~InBounds(entries[n])
         THEN search' = [search EXCEPT ![s].at = "refused"] /\ UNCHANGED lazy
         ELSE search' = [search EXCEPT ![s].at = "fetching", ![s].lists = fetched.lists] /\ lazy' = fetched.c
      /\ UNCHANGED shelf

\* The postings are in, or one of them failed.
Rank(s) ==
  LET entries == EntriesOf(s)
      seg == shelf.segment
      states == {lazy.reads[r].state : r \in ToSet(search[s].lists)}
      Given(n) == LET what == lazy.reads[search[s].lists[n]].what IN SubSeq(seg.postings, what.from + 1, what.from + what.len)
      lists == [n \in DOMAIN entries |-> ReadPostings(seg, Given(n), entries[n].df)]
  IN  /\ search[s].at = "fetching"
      /\ IF "failed" \in states THEN search' = [search EXCEPT ![s].at = "failed"]
         ELSE /\ "pending" \notin states
              /\ search' = IF \E n \in DOMAIN lists : lists[n] = {} THEN [search EXCEPT ![s].at = "refused"]
                           ELSE [search EXCEPT ![s].at = "answered",
                                   ![s].answer = {Ranked(seg, entries, [n \in DOMAIN lists |-> CHOOSE l \in lists[n] : TRUE], NoOptions(seg))}]
      /\ UNCHANGED <<shelf, lazy>>

\* A read gives its bytes, or fails: then whoever waits for it fails.
ReadEnds(r) ==
  /\ lazy.reads[r].state = "pending"
  /\ \/ lazy' = [lazy EXCEPT !.reads[r].state = "done"]
     \/ /\ Cardinality({n \in DOMAIN lazy.reads : lazy.reads[n].state = "failed"}) < MaxReadFaults
        /\ lazy' = Evicted([lazy EXCEPT !.reads[r].state = "failed"], r)
  /\ UNCHANGED <<shelf, search>>

LexicalNext ==
  \/ \E s \in Searches : \/ \E text \in QueryTexts : Ask(s, text)
                         \/ \E n \in DOMAIN search[s].looks : Look(s, n)
                         \/ Fetch(s) \/ Rank(s)
  \/ \E r \in DOMAIN lazy.reads : ReadEnds(r)

-----------------------------------------------------------------------------
\* Properties

\* However the records are split, and with the statistics of all of them, a
\* search of the parts finds what a search of the whole finds.
PartsMakeTheWhole ==
  \A cut \in 0..Len(shelf.texts), text \in QueryTexts :
    \A whole \in {buildLexicalSegment(shelf.texts)}, left \in {buildLexicalSegment(SubSeq(shelf.texts, 1, cut))},
       right \in {buildLexicalSegment(SubSeq(shelf.texts, cut + 1, Len(shelf.texts)))}, hashes \in {{text[n].hash : n \in DOMAIN text}} :
    \A dfL \in {documentFrequencies(left, hashes)}, dfR \in {documentFrequencies(right, hashes)} :
    \A df \in {[h \in DOMAIN dfL \cup DOMAIN dfR |->
                  (IF h \in DOMAIN dfL THEN dfL[h] ELSE 0) + (IF h \in DOMAIN dfR THEN dfR[h] ELSE 0)]} :
      LET Hits(part) == UNION {ToSet(a) : a \in EagerSearch(part, hashes, [excluded |-> {}, stats |-> OwnStats(whole), df |-> df])}
      IN  UNION {ToSet(a) : a \in EagerSearch(whole, hashes, NoOptions(whole))} =
            Hits(left) \cup {[h EXCEPT !.id = @ + cut] : h \in Hits(right)}

\* The lazy reader of a sound segment finds what the eager one does, in any
\* table that Tries windows cover; it fails only when a read of its own failed,
\* and no failed read is kept for the next search (lexical.mjs 101-146,
\* 161-203); the bytes kept are counted right; and whatever a segment says, no
\* byte outside its table and postings is asked for (248-262).
TermsFound ==
  LET seg == shelf.segment
      sound == seg = buildLexicalSegment(shelf.texts)
      ReadsOf(s) == {search[s].looks[n].read : n \in DOMAIN search[s].looks} \cup ToSet(search[s].lists)
  IN  /\ \A s \in Searches : search[s].at = "answered" /\ sound /\ seg.termCount <= Tries * Window =>
           search[s].answer = EagerSearch(seg, {search[s].looks[n].hash : n \in DOMAIN search[s].looks}, NoOptions(seg))
      /\ \A s \in Searches : search[s].at = "failed" => \E r \in ReadsOf(s) : lazy.reads[r].state = "failed"
      /\ \A s \in Searches : search[s].at = "refused" => ~sound
      /\ \A e \in ToSet(lazy.windows) \cup ToSet(lazy.lists) : lazy.reads[e.read].state # "failed"
      /\ Len(lazy.windows) <= WindowsKept
      /\ lazy.bytes = SumTo([n \in DOMAIN lazy.lists |-> lazy.lists[n].len], Len(lazy.lists))
      /\ lazy.bytes <= CacheBytes \/ Len(lazy.lists) = 1
      /\ \A r \in DOMAIN lazy.reads :
           LET what == lazy.reads[r].what
           IN  what.from >= 0 /\ what.from + what.len <= IF what.of = "window" THEN seg.termCount ELSE Len(seg.postings)

LexicalSound == TermsFound /\ (lazy.reads = <<>> => PartsMakeTheWhole)
=============================================================================
