---------------------------- MODULE Calibration ----------------------------
(***************************************************************************)
(* calibrateRetrievalAbstention (src/packages/pikelet/src/calibrate.mjs):  *)
(* questions made from a corpus, what retrieval answers to them, the fit   *)
(* of a relevance model to that, the gates it has to pass, its thresholds  *)
(* and the golden queries the pack is tested with.                         *)
(*                                                                         *)
(* A text is a sequence of words without the words that only make it a     *)
(* question. A corpus is its chunks [title, body], the words that mean     *)
(* nearly the same (kin), how near the encoder puts words to texts they    *)
(* are not in (haze), those written as names, the questions people asked   *)
(* of it, and questions of other domains or of none. Percentages are       *)
(* integers; a Bloom filter is its set of words; samples are in order.     *)
(***************************************************************************)
EXTENDS Integers, Sequences, FiniteSets, SequencesExt, FiniteSetsExt, TLC

CONSTANT Scale  \* how many: the constants of calibrate.mjs 20-76, for small corpora

Least(a, b) == IF a < b THEN a ELSE b
Most(a, b) == IF a > b THEN a ELSE b
Sample(items, n) == SubSeq(items, 1, Least(n, Len(items)))
Each(op(_), items) == [i \in DOMAIN items |-> op(items[i])] \o <<>>
\* What an operator gives for a value that it uses in many places.
Knowing(value, Op(_)) == CHOOSE result \in {Op(v) : v \in {value}} : TRUE
Sum(values) == FoldLeft(LAMBDA sum, v : sum + v, 0, values)
MeanOf(values) == IF values = <<>> THEN 0 ELSE Sum(values) \div Len(values)
quantile(values, percent) ==
  LET sorted == SortSeq(values, <)
  IN  sorted[Least(Len(values) - 1, (percent * Len(values)) \div 100) + 1]

-----------------------------------------------------------------------------
\* The corpus

Ids(corpus) == 0..Len(corpus.chunks) - 1
TitleOf(corpus, id) == corpus.chunks[id + 1].title
BodyWords(corpus, id) == ToSet(corpus.chunks[id + 1].body)
WordsOf(corpus, id) == ToSet(TitleOf(corpus, id)) \cup BodyWords(corpus, id)
Vocabulary(corpus) == UNION {WordsOf(corpus, id) : id \in Ids(corpus)}
Titled(corpus, title) == {id \in Ids(corpus) : TitleOf(corpus, id) = title}
Titles(corpus) ==
  FoldLeft(LAMBDA ts, c : IF \E i \in DOMAIN ts : ts[i] = c.title THEN ts ELSE Append(ts, c.title), <<>>, corpus.chunks)
Common(corpus) == {w \in Vocabulary(corpus) : Cardinality({id \in Ids(corpus) : w \in WordsOf(corpus, id)}) > Scale.common}
Kin(corpus, w) == {v \in Vocabulary(corpus) : v # w /\ {v, w} \in corpus.kin}

Question(words, source, class) == [words |-> words, source |-> source, class |-> class]
titleQuestions(corpus, titles, n, class) ==
  IF titles = <<>> THEN <<>>
  ELSE LET per == Least(Scale.templates, Most(1, n \div Len(titles)))
       IN  Sample(FlattenSeq([i \in DOMAIN titles |-> [j \in 1..per |-> Question(titles[i], Titled(corpus, titles[i]), class)]]), n)

contentWordQuestions(corpus, n) ==
  LET wordy == SelectSeq([i \in 1..Len(corpus.chunks) |-> i - 1], LAMBDA id : Cardinality(WordsOf(corpus, id)) >= 3)
  IN  Sample([i \in DOMAIN wordy |->
                Question(Sample(corpus.chunks[wordy[i] + 1].title \o corpus.chunks[wordy[i] + 1].body, 3), {wordy[i]}, "positive")], n)

\* Why a question people asked names no record.
Matched(corpus, q) == q.source # {} /\ q.source \subseteq Ids(corpus)

-----------------------------------------------------------------------------
\* What the uncalibrated pack retrieves, and what is read off it

Closeness(corpus, w, id) ==
  CASE w \in WordsOf(corpus, id) -> 100
    [] w \notin WordsOf(corpus, id) /\ Kin(corpus, w) \cap WordsOf(corpus, id) # {} -> 60
    [] OTHER -> corpus.haze
Distance(corpus, words, id) == 100 - MeanOf([i \in DOMAIN words |-> Closeness(corpus, words[i], id)])
Shared(corpus, words, id) == Cardinality(ToSet(words) \cap WordsOf(corpus, id))

\* By distance, and by the words they share and then distance; without some
\* records.
Ranking(left, distance, shared) ==
  LET nearer(a, b) == distance[a] < distance[b] \/ (distance[a] = distance[b] /\ a < b)
  IN  [vector |-> LET near == SortSeq(left, nearer) IN Each(LAMBDA id : [id |-> id, distance |-> distance[id]], near),
       fused |-> SortSeq(left, LAMBDA a, b : shared[a] > shared[b] \/ (shared[a] = shared[b] /\ nearer(a, b)))]
Evidence(corpus, words, excluded) ==
  Knowing([id \in Ids(corpus) |-> Distance(corpus, words, id)], LAMBDA distance :
    Ranking(SetToSeq(Ids(corpus) \ excluded), distance, [id \in Ids(corpus) |-> Shared(corpus, words, id)]))
TopK(ev) == Sample(ev.vector, Scale.k)

\* A word counts in full in a passage's body and half in its heading; common
\* words count a third; the best passage counts.
coverageFrac(corpus, words, passages) ==
  LET weight(w) == IF w \in Common(corpus) THEN 1 ELSE 3
      credit(w, id) == IF w \in BodyWords(corpus, id) THEN 2 ELSE IF w \in ToSet(TitleOf(corpus, id)) THEN 1 ELSE 0
      share(id) == (100 * Sum([i \in DOMAIN words |-> credit(words[i], id) * weight(words[i])]))
                   \div (2 * Sum([i \in DOMAIN words |-> weight(words[i])]))
  IN  IF words = <<>> THEN 0 ELSE Max({0} \cup {share(id) : id \in ToSet(passages)})
knownFrac(corpus, words) ==
  IF words = <<>> THEN 0 ELSE MeanOf([i \in DOMAIN words |-> IF words[i] \in Vocabulary(corpus) THEN 100 ELSE 0])

FEATS == {"d0", "margin", "mean", "known", "coverage"}
PerFeature(op(_)) == [d0 |-> op("d0"), margin |-> op("margin"), mean |-> op("mean"), known |-> op("known"), coverage |-> op("coverage")]
signalsFor(corpus, words, ev) ==
  Knowing(TopK(ev), LAMBDA top :
    LET d0 == IF top = <<>> THEN 100 ELSE top[1].distance
    IN  [d0 |-> d0,
         margin |-> IF Len(top) > 1 THEN top[Least(Scale.rank, Len(top))].distance - d0 ELSE 0,
         mean |-> IF top = <<>> THEN 100 ELSE MeanOf([i \in DOMAIN top |-> top[i].distance]),
         known |-> knownFrac(corpus, words),
         coverage |-> coverageFrac(corpus, words, Sample(ev.fused, Scale.passages))])

verify(ev, source) == \E i \in DOMAIN TopK(ev) : TopK(ev)[i].id \in source
Probe(corpus, q, excluded) ==
  Knowing(Evidence(corpus, q.words, excluded), LAMBDA ev :
    [q |-> q, verified |-> verify(ev, q.source), sig |-> signalsFor(corpus, q.words, ev),
     rank |-> LET at == {i \in DOMAIN ev.vector : ev.vector[i].id \in q.source} IN IF at = {} THEN 0 ELSE Min(at)])
Probes(corpus, qs) == Each(LAMBDA q : Probe(corpus, q, {}), qs)
IsVerified(r) == r.verified

-----------------------------------------------------------------------------
\* The probes

Base(corpus) ==
  SelectSeq(Probes(corpus, titleQuestions(corpus, Titles(corpus), Scale.questions \div 2, "positive")
                           \o contentWordQuestions(corpus, Scale.questions \div 2)), IsVerified)
MedianD0(base) == SortSeq(Each(LAMBDA r : r.sig.d0, base), <)[Len(base) \div 2 + 1]

\* Words replaced by near ones that the source does not have; kept when its
\* source is still found.
Substituted(corpus, base) ==
  LET near(q, w) == Kin(corpus, w) \ UNION {WordsOf(corpus, id) : id \in q.source}
      swap(q) == [i \in DOMAIN q.words |-> IF near(q, q.words[i]) = {} THEN q.words[i] ELSE CHOOSE v \in near(q, q.words[i]) : TRUE]
      changed == SelectSeq(Sample(base, Scale.budget), LAMBDA r : swap(r.q) # r.q.words)
  IN  SelectSeq(Probes(corpus, Each(LAMBDA r : Question(swap(r.q), r.q.source, "substituted"), changed)), IsVerified)

Asked(corpus) ==
  SelectSeq(Probes(corpus, SelectSeq(corpus.questions, LAMBDA q : Matched(corpus, q))), IsVerified)

\* A question of another domain that is as near as half of the positives, or
\* mostly in a passage, is not off-topic here.
Overlaps(r, median) == r.sig.d0 <= median \/ r.sig.coverage >= 50
OffTopic(corpus, texts) == Probes(corpus, Each(LAMBDA words : Question(words, {}, "easy"), texts))
Foreign(corpus) == OffTopic(corpus, corpus.foreign)
Gibberish(corpus) == OffTopic(corpus, corpus.gibberish)

\* The positives' texts without what answered them, unless something else does.
Ablated(corpus, positives) ==
  LET pairs == Each(LAMBDA r : [was |-> r, now |-> Probe(corpus, [r.q EXCEPT !.class = "hard"], r.q.source)],
                    SelectSeq(positives, LAMBDA r : Ids(corpus) \ r.q.source # {}))
      answered(p) == \/ p.now.sig.d0 <= p.was.sig.d0 + 5
                     \/ p.now.sig.coverage >= 75
                     \/ p.was.sig.coverage >= 50 /\ 100 * p.now.sig.coverage >= 75 * p.was.sig.coverage
  IN  Each(LAMBDA p : p.now, SelectSeq(pairs, LAMBDA p : ~answered(p)))

\* The words that are written as names, and in not too many of the chunks.
Entities(corpus) ==
  LET many == Most(2, (4 * Len(corpus.chunks) + 9) \div 10)
  IN  {w \in corpus.names \cap Vocabulary(corpus) : Cardinality({id \in Ids(corpus) : w \in WordsOf(corpus, id)}) <= many}

\* A name in them for another one, unless their source is found all the same.
EntitySwapped(corpus, positives) ==
  LET entities == Entities(corpus)
      named == SelectSeq(positives, LAMBDA r : ToSet(r.q.words) \cap entities # {})
      swap(r) == LET from == CHOOSE w \in ToSet(r.q.words) : w \in entities
                     apart == entities \ ({from} \cup UNION {WordsOf(corpus, id) : id \in r.q.source})
                     to == CHOOSE w \in (IF apart = {} THEN entities \ {from} ELSE apart) : TRUE
                 IN  Question([i \in DOMAIN r.q.words |-> IF r.q.words[i] = from THEN to ELSE r.q.words[i]], r.q.source, "hard")
  IN  IF Cardinality(entities) < 2 THEN <<>>
      ELSE SelectSeq(Probes(corpus, Each(swap, named)), LAMBDA r : ~r.verified)

\* Whole documents held out: at least two, and two are left.
chooseHeldOutTitles(titles) == IF Len(titles) < 3 THEN <<>> ELSE Sample(titles, Least(2, Len(titles) - 2))
HeldOut(corpus, median) ==
  LET qs == SelectSeq(titleQuestions(corpus, chooseHeldOutTitles(Titles(corpus)), Scale.questions, "hard"),
                      LAMBDA q : Ids(corpus) \ q.source # {})
  IN  SelectSeq(Each(LAMBDA q : Probe(corpus, q, q.source), qs), LAMBDA r : r.sig.d0 > median)

Weak(corpus) ==
  IF Len(corpus.chunks) < Scale.deep THEN <<>>
  ELSE Sample(SelectSeq(Probes(corpus, titleQuestions(corpus, Titles(corpus), Scale.questions, "weak")),
                        LAMBDA r : r.rank \in Scale.rank..Scale.k), Scale.weak)

-----------------------------------------------------------------------------
\* The fit

IsPositive(r) == r.q.class \in {"positive", "substituted", "human"}
\* Mutant: people's questions join the fit they are to check.
Fit_WithQuestions(positives, human, easy, hard) == positives \o human \o easy
Fit(positives, human, easy, hard) == positives \o easy

\* Logistic regression, for which the difference of the classes' means stands:
\* each class counts as much as the other, however many rows it has.
scorerFor(rows) ==
  LET pos == SelectSeq(rows, IsPositive)
      neg == SelectSeq(rows, LAMBDA r : ~IsPositive(r))
      mean(side, f) == MeanOf(Each(LAMBDA r : r.sig[f], side))
      on == PerFeature(LAMBDA f : mean(pos, f))
      off == PerFeature(LAMBDA f : mean(neg, f))
  IN  [weight |-> PerFeature(LAMBDA f : on[f] - off[f]), middle |-> PerFeature(LAMBDA f : (on[f] + off[f]) \div 2)]
prob(model, r) ==
  LET sum == MapThenSumSet(LAMBDA f : model.weight[f] * (r.sig[f] - model.middle[f]), FEATS)
      spread == MapThenSumSet(LAMBDA f : model.weight[f] * model.weight[f], FEATS)
  IN  IF spread = 0 THEN 50 ELSE Most(0, Least(100, 50 + (90 * sum) \div spread))
Probs(model, rows) == Each(LAMBDA r : prob(model, r), rows)

\* Of a hundred, the pairs in which the positive scores higher.
aucFor(pos, neg) ==
  LET score == Sum([i \in DOMAIN pos |-> Sum([j \in DOMAIN neg |->
                 IF pos[i] > neg[j] THEN 2 ELSE IF pos[i] = neg[j] THEN 1 ELSE 0])])
  IN  IF pos = <<>> \/ neg = <<>> THEN -1 ELSE (50 * score) \div (Len(pos) * Len(neg))

\* Five folds, each scored by a model of the others.
crossValidated(fit) ==
  LET fold(k, in) == Each(LAMBDA i : fit[i], SelectSeq([i \in DOMAIN fit |-> i], LAMBDA i : ((i - 1) % 5 = k) = in))
      both(train) == {IsPositive(train[i]) : i \in DOMAIN train} = BOOLEAN
      tested(k) == IF both(fold(k, FALSE)) THEN fold(k, TRUE) ELSE <<>>
      models == [k \in 0..4 |-> scorerFor(fold(k, FALSE))]
      heldout == FlattenSeq([n \in 1..5 |-> Each(LAMBDA r : [is |-> IsPositive(r), p |-> prob(models[n - 1], r)], tested(n - 1))])
      of(is) == Each(LAMBDA r : r.p, SelectSeq(heldout, LAMBDA r : r.is = is))
  IN  aucFor(of(TRUE), of(FALSE))

\* Where "none" ends and "strong" begins.
thresholds(pos, off, weakP) ==
  LET posFloor == quantile(pos, 5)
      hardCeil == quantile(off, 95)
      hard == Least(hardCeil, 50)
      adjacent == SelectSeq(weakP, LAMBDA p : p > Most(hardCeil, 5))
      weakCeil == IF adjacent = <<>> THEN 0 ELSE quantile(adjacent, 90)
      root(n) == Max({x \in 0..100 : x * x <= n})
      between == IF weakCeil > hard /\ weakCeil < posFloor THEN root(weakCeil * posFloor) ELSE (9 * posFloor) \div 10
      weakRaw == Least(Most(between, Most(hardCeil, hard)), Most(quantile(pos, 50), hard))
  IN  [hard |-> hard, weak |-> Least(95, Most(weakRaw, hard + 8))]

\* People's questions first, and of the positives as many as there is room for,
\* evenly.
goldenSample(human, positives) ==
  LET rest == Most(0, Scale.goldens - Len(human))
  IN  human \o (IF Len(positives) <= rest THEN positives
                ELSE [i \in 1..rest |-> positives[((i - 1) * Len(positives)) \div rest + 1]])

\* A fit to trust tells the two apart on rows it did not see, by distance, and
\* does not turn away people's questions.
Separates(model, fit, positives, easy) ==
  LET cvAuc == crossValidated(fit)
      gateAuc == IF cvAuc = -1 THEN aucFor(Probs(model, positives), Probs(model, easy)) ELSE cvAuc
  IN  gateAuc >= 85 /\ model.weight["d0"] <= 0
Welcomes(model, limits, human) ==
  LET abstained == Len(SelectSeq(human, LAMBDA r : prob(model, r) < limits.hard))
  IN  ~(Len(human) >= Scale.human /\ 3 * abstained > Len(human))

Easy(corpus, median) == SelectSeq(Foreign(corpus), LAMBDA r : ~Overlaps(r, median)) \o Gibberish(corpus)
Hard(corpus, positives, median) ==
  Ablated(corpus, positives) \o EntitySwapped(corpus, positives) \o HeldOut(corpus, median)

Judged(positives, human, easy, fit, model, limits) ==
  IF Separates(model, fit, positives, easy) /\ Welcomes(model, limits, human)
  THEN {[asset |-> [model |-> model, thresholds |-> limits], goldens |-> goldenSample(human, positives),
         positives |-> positives, human |-> human, easy |-> easy]}
  ELSE {}

\* {} when the corpus supports no such fit.
calibrateRetrievalAbstention(corpus) ==
  Knowing(Base(corpus), LAMBDA base :
    IF Len(Titles(corpus)) < 2 \/ Len(base) < Scale.positives THEN {}
    ELSE Knowing(MedianD0(base), LAMBDA median :
         Knowing(base \o Substituted(corpus, base), LAMBDA positives :
         Knowing(Asked(corpus), LAMBDA human :
         Knowing(Easy(corpus, median), LAMBDA easy :
           IF Len(easy) < Scale.negatives THEN {}
           ELSE Knowing(Fit(positives, human, easy, Hard(corpus, positives, median)), LAMBDA fit :
                Knowing(scorerFor(fit), LAMBDA model :
                Knowing(thresholds(Probs(model, positives), Probs(model, easy), Probs(model, Weak(corpus))), LAMBDA limits :
                  Judged(positives, human, easy, fit, model, limits)))))))))

-----------------------------------------------------------------------------
\* What a calibration promises of a corpus: people's questions and those that
\* only look answerable can stop it and never shift it; of what it takes for
\* off-topic no more than a twentieth scores above the bar of "strong", unless
\* the bar would have had to be above half of the positives, or above 95, where
\* it is capped; the bar of "none" is below it; and the golden queries are
\* questions that were answered, each once, people's among them.
CalibrationSoundFor(corpus) ==
  LET alone == calibrateRetrievalAbstention([corpus EXCEPT !.questions = <<>>, !.names = {}])
  IN  \A c \in calibrateRetrievalAbstention(corpus) :
        LET off == Probs(c.asset.model, c.easy)
            on == Probs(c.asset.model, c.positives)
        IN  /\ c.asset \in {a.asset : a \in alone}
            /\ 20 * Len(SelectSeq(off, LAMBDA p : p > c.asset.thresholds.weak)) <= Len(off)
               \/ quantile(off, 95) > Least(quantile(on, 50), 95)
            /\ c.asset.thresholds.hard < c.asset.thresholds.weak
            /\ \A i \in DOMAIN c.goldens :
                 /\ c.goldens[i].verified
                 /\ \A j \in DOMAIN c.goldens : c.goldens[i] = c.goldens[j] => c.goldens[i] \in ToSet(c.human) \/ i = j
            /\ ToSet(c.human) \subseteq ToSet(c.goldens)
=============================================================================
