---------------------------- MODULE ServedPacks ----------------------------
(****************************************************************************)
(* What `pikelet mcp` serves of the packs it is asked for                   *)
(* (src/packages/pikelet/src/mcp.mjs): which of them mount and under which  *)
(* names, what its tools answer from them, and the configuration that       *)
(* `pikelet mcp install` leaves for a client. McpServer is about when these *)
(* things happen; here it is what they come to.                             *)
(*                                                                          *)
(* A location is [abs, dir, name]; when it is not absolute its directory is *)
(* that of whoever resolves it. A name is a sequence, so that "docs-2" is   *)
(* <<"docs", 2>>. Sets of at most one element stand for what may be absent. *)
(****************************************************************************)
EXTENDS Integers, Sequences, FiniteSets, SequencesExt

MaxK == 20

Resolve(location, dir) == IF location.abs THEN location ELSE [location EXCEPT !.abs = TRUE, !.dir = dir]

-----------------------------------------------------------------------------
\* What to mount: [location, identity, name, lineage]

\* loadShelf: an entry's places are relative to the shelf; a lineage needs the
\* identity of its head, names nobody twice and not the head itself.
EntrySound(entry) ==
  LET lineage == entry.lineage
  IN  /\ entry.target # {} /\ entry.identity # {"malformed"}
      /\ lineage # <<>> => entry.identity # {}
      /\ \A i \in DOMAIN lineage : lineage[i].identity # "malformed" /\ {lineage[i].identity} # entry.identity
      /\ \A i, j \in DOMAIN lineage : lineage[i].identity = lineage[j].identity => i = j
loadShelf(shelf, dir) ==
  LET at == Resolve(shelf.location, dir).dir
      Spec(entry) == [location |-> Resolve(CHOOSE t \in entry.target : TRUE, at), identity |-> entry.identity,
                      name |-> entry.name,
                      lineage |-> [i \in DOMAIN entry.lineage |-> [location |-> Resolve(entry.lineage[i].location, at),
                                                                   identity |-> entry.lineage[i].identity]]]
  IN  IF shelf.entries = <<>> \/ \E i \in DOMAIN shelf.entries : ~EntrySound(shelf.entries[i]) THEN {}
      ELSE {[i \in DOMAIN shelf.entries |-> Spec(shelf.entries[i])]}

\* What is given on the command line: packs, pinned or not, then a shelf's.
PackSpec(raw, dir) == [location |-> Resolve(raw.location, dir), identity |-> raw.identity, name |-> {}, lineage |-> <<>>]
Specs(asked, dir) ==
  {[i \in DOMAIN asked.packs |-> PackSpec(asked.packs[i], dir)] \o shelved :
     shelved \in IF asked.shelf = {} THEN {<<>>} ELSE UNION {loadShelf(s, dir) : s \in asked.shelf}}

-----------------------------------------------------------------------------
\* Mounting

\* The files at a location of the world; what a name is without the number of a
\* layer; and the members of a chain that is walked from its head.
At(world, location) == IF location \in DOMAIN world THEN {world[location]} ELSE {}

\* Mutant: a pack of a name that is taken takes its place.
mountName_Shadow(packs, name) == name

\* mountName: a name that is taken gets the first number that is free.
mountName(packs, name) ==
  LET taken == {packs[i].name : i \in DOMAIN packs}
      free == {n \in 2..Len(packs) + 2 : Append(name, n) \notin taken}
  IN  IF name \in taken THEN Append(name, CHOOSE n \in free : \A m \in free : n <= m) ELSE name

Named(spec, file, chain) ==
  IF spec.name # {} THEN CHOOSE n \in spec.name : TRUE
  ELSE IF file.named # {} THEN CHOOSE n \in file.named : TRUE
  ELSE IF chain THEN <<spec.location.name[1]>> ELSE spec.location.name

\* mountPack, mountChain: refused is what is not there, is not what was pinned,
\* is not the chain that was listed, or cannot embed a query.
Mountable(world, spec) ==
  LET lineage == spec.lineage
      listed == [i \in DOMAIN lineage |-> lineage[i].identity]
      found == UNION {At(world, lineage[i].location) : i \in DOMAIN lineage}
  IN  {file \in At(world, spec.location) :
         /\ spec.identity \subseteq {file.identity}
         /\ file.encoder
         /\ IF lineage # <<>> THEN /\ listed = file.members
                                  /\ \A i \in DOMAIN lineage : \E f \in At(world, lineage[i].location) : f.identity = file.members[i]
            ELSE \A i \in DOMAIN file.members : \E p \in DOMAIN world : world[p].identity = file.members[i] /\ p.dir = spec.location.dir}

\* Where list_packs says a journal is that cannot be mounted.
JournalPlace == [abs |-> TRUE, dir |-> "", name |-> <<"journal">>]

\* The packs that are mounted, in the order asked for, and what could not be;
\* the journal last. A place of packs is what Map.set leaves there.
Mounted(world, specs, journal) ==
  LET Put(packs, pack) ==
        LET there == {i \in DOMAIN packs : packs[i].name = pack.name}
        IN  IF there = {} THEN Append(packs, pack) ELSE [packs EXCEPT ![CHOOSE i \in there : TRUE] = pack]
      Mount(so, spec) ==
        LET files == Mountable(world, spec)
            file == CHOOSE f \in files : TRUE
            chain == file.members # <<>> \/ spec.lineage # <<>>
        IN  IF files = {} THEN [so EXCEPT !.failures = Append(@, spec.location)]
            ELSE [so EXCEPT !.packs = Put(@, [name |-> mountName(@, Named(spec, file, chain)), file |-> file, chain |-> chain, journal |-> FALSE])]
      all == FoldLeft(Mount, [packs |-> <<>>, failures |-> <<>>], specs)
  IN  IF journal = {} THEN all
      ELSE LET notes == CHOOSE j \in journal : TRUE
           IN  IF ~notes.encoder THEN [all EXCEPT !.failures = Append(@, JournalPlace)]
               ELSE [all EXCEPT !.packs = Put(@, [name |-> mountName(@, <<"journal">>), file |-> notes, chain |-> TRUE, journal |-> TRUE])]

-----------------------------------------------------------------------------
\* Tools. What a tool throws is no answer: {}.

PackTools == {"search", "list_packs", "verify_pack", "get_record"}
JournalTools == {"write_note", "latest"}
Journals(packs) == SelectSeq(packs, LAMBDA p : p.journal)
Corpora(packs) == SelectSeq(packs, LAMBDA p : ~p.journal)
Names(packs) == {packs[i].name : i \in DOMAIN packs}
NamedPack(packs, name) == packs[CHOOSE i \in DOMAIN packs : packs[i].name = name]

\* Before the mounts have settled the tools are those of the journal to come.
toolDefinitions(packs, mounting, journalPending) ==
  [tools |-> PackTools \cup (IF Journals(packs) # <<>> \/ journalPending THEN JournalTools ELSE {}),
   packs |-> IF mounting THEN {} ELSE Names(packs)]

\* A tool for a single pack takes the only one that is not the journal.
resolvePack(packs, requested, single) ==
  IF requested # {} THEN SelectSeq(packs, LAMBDA p : p.name \in requested)
  ELSE IF single /\ Len(Corpora(packs)) = 1 THEN Corpora(packs) ELSE packs

\* provenanced: a record with where it comes from and, of a chain, what became
\* of it.
Provenanced(pack, id) ==
  [pack |-> pack.name, identity |-> pack.file.identity, id |-> id, text |-> pack.file.records[id].text,
   tombstoned |-> pack.chain /\ pack.file.records[id].deleted, agentWritten |-> pack.journal]

\* query() of a reader: a verdict and the live records, nearest first, that are
\* withheld when the verdict is that there is none and nobody asks to see them.
Answered(quality, ids, k, showAbstained) ==
  [quality |-> quality,
   results |-> IF quality = "none" /\ ~showAbstained THEN <<>> ELSE SubSeq(ids, 1, IF Len(ids) < k THEN Len(ids) ELSE k)]
FileQuery(file, text, k, showAbstained) == Answered(file.answers[text].quality, file.answers[text].ids, k, showAbstained)

\* Of a chain: the base's scorer gives the verdict while its fit is inherited;
\* a fit that the chain has outgrown, or that is not there, gives none and
\* withholds nothing.
ChainQuery(file, text, k, showAbstained) ==
  Answered(IF file.status = "inherited" THEN file.answers[text].quality ELSE "unscored", file.answers[text].ids, k, showAbstained)
Query(pack, text, k, showAbstained) ==
  IF pack.chain THEN ChainQuery(pack.file, text, k, showAbstained) ELSE FileQuery(pack.file, text, k, showAbstained)

callSearch(packs, args) ==
  LET searched == resolvePack(packs, args.pack, FALSE)
      Section(pack) ==
        LET out == Query(pack, args.query, args.k, args.showAbstained)
        IN  [pack |-> pack.name, identity |-> pack.file.identity, journal |-> pack.journal, quality |-> out.quality,
             results |-> [n \in DOMAIN out.results |-> Provenanced(pack, out.results[n])]]
      sections == [i \in DOMAIN searched |-> Section(searched[i])]
      Of(qualities) == {i \in DOMAIN sections : sections[i].quality \in qualities}
  IN  IF args.k \notin 1..MaxK \/ ~args.pack \subseteq Names(packs) THEN {}
      ELSE {[query |-> args.query, sections |-> sections,
             note |-> IF Of({"strong", "weak"}) = {} /\ Of({"none"}) # {} THEN {IF args.showAbstained THEN "shown" ELSE "withheld"} ELSE {},
             unscored |-> {sections[i].pack : i \in {i \in Of({"unscored"}) : ~sections[i].journal}},
             journals |-> {sections[i].pack : i \in {i \in DOMAIN sections : sections[i].journal}}]}

callGetRecord(packs, args) ==
  LET one == resolvePack(packs, args.pack, TRUE)
  IN  IF ~args.pack \subseteq Names(packs) \/ Len(one) # 1 THEN {}
      ELSE IF args.id \notin DOMAIN one[1].file.records THEN {} ELSE {Provenanced(one[1], args.id)}

\* A golden query names its record, or only has to be answered; on a chain one
\* whose record is gone is skipped.
Skipped(pack, golden) ==
  pack.chain /\ golden.expectId # {} /\ \E id \in golden.expectId : id \in DOMAIN pack.file.records /\ pack.file.records[id].deleted
GoldenPasses(pack, golden) ==
  LET results == ToSet(Query(pack, golden.text, 10, FALSE).results)
  IN  IF golden.expectId # {} THEN golden.expectId \subseteq results ELSE results # {}
ProbePasses(pack, probe) == (pack.file.answers[probe.text].quality = "none") = (probe.expect = "abstain")

\* A build keeps the candidates that its finished pack reproduces.
Replayed(pack, candidates) == SelectSeq(candidates, LAMBDA g : GoldenPasses(pack, g))

callVerifyPack(packs, args) ==
  LET one == resolvePack(packs, args.pack, TRUE)
      pack == one[1]
      evaluation == pack.file.evaluation
      Run(tests) == {tests[n] : n \in {n \in DOMAIN tests : n <= args.limit}}
      goldens == {g \in Run(evaluation.goldens) : ~Skipped(pack, g)}
      probes == Run(evaluation.probes)
      failed == {g \in goldens : ~GoldenPasses(pack, g)} \cup {p \in probes : ~ProbePasses(pack, p)}
  IN  IF ~args.pack \subseteq Names(packs) \/ Len(one) # 1 THEN {}
      ELSE IF evaluation.broken THEN {}
      ELSE {[pack |-> pack.name, identity |-> pack.file.identity,
             verdict |-> IF failed # {} THEN "fail" ELSE IF goldens \cup probes # {} THEN "pass" ELSE "no-tests"]}

callListPacks(mounted) ==
  [unavailable |-> ToSet(mounted.failures),
   packs |-> [i \in DOMAIN mounted.packs |->
                LET p == mounted.packs[i]
                IN  [name |-> p.name, identity |-> p.file.identity, writable |-> p.journal, chain |-> p.file.members # <<>>,
                     records |-> Cardinality({id \in DOMAIN p.file.records : ~p.file.records[id].deleted})]]]

-----------------------------------------------------------------------------
\* installMcpConfig: places absolute, pins as given, what else the client has
\* configured left alone. A server of the same name is replaced by force only.

Installed(config, asked, serverName, dir, force) ==
  LET pinned == [asked EXCEPT !.packs = [i \in DOMAIN @ |-> [@[i] EXCEPT !.location = Resolve(@, dir)]],
                               !.shelf = {[s EXCEPT !.location = Resolve(@, dir)] : s \in @}]
  IN  IF asked.packs = <<>> /\ asked.shelf = {} /\ asked.journal = {} THEN {}
      ELSE IF serverName \in DOMAIN config /\ ~force THEN {}
      ELSE {[s \in DOMAIN config \cup {serverName} |-> IF s = serverName THEN pinned ELSE config[s]]}

-----------------------------------------------------------------------------
\* A setting is [world, asked, dir, elsewhere, config]; the packs of a world
\* are built, so that their goldens are those that were kept.
Built(file) == [file EXCEPT !.evaluation.goldens =
                  Replayed([name |-> <<>>, file |-> file, chain |-> file.members # <<>>, journal |-> FALSE], @)]

Texts(packs) == IF packs = <<>> THEN {} ELSE DOMAIN packs[1].file.answers
Searched(packs) == UNION {callSearch(packs, [query |-> t, pack |-> p, k |-> k, showAbstained |-> s]) :
                            t \in Texts(packs), p \in {{}} \cup {{n} : n \in Names(packs)}, k \in 1..2, s \in BOOLEAN}

\* Every pack that was asked for is served under a name of its own or reported
\* missing, and what was pinned or listed is what is served (mcp.mjs 565-611,
\* 803-867, 1051-1080).
MountsAccounted(mounted, specs, journal) ==
  /\ Cardinality(Names(mounted.packs)) = Len(mounted.packs)
  /\ Len(mounted.packs) + Len(mounted.failures) = Len(specs) + Cardinality(journal)
  /\ \A i \in DOMAIN specs :
       \/ specs[i].location \in callListPacks(mounted).unavailable
       \/ \E p \in ToSet(mounted.packs) : /\ specs[i].identity \subseteq {p.file.identity}
                                         /\ specs[i].lineage # <<>> => p.file.members = [n \in DOMAIN specs[i].lineage |-> specs[i].lineage[n].identity]

\* A result is cited by pack and id and is found again under them, labelled as
\* what it is; nothing is withheld unasked or without a word; and no section
\* without a score goes without its warning (mcp.mjs 243-271, 291-359).
ResultsCitable(packs) ==
  \A answer \in Searched(packs) :
    /\ \A section \in ToSet(answer.sections) : \A r \in ToSet(section.results) :
         /\ callGetRecord(packs, [pack |-> {r.pack}, id |-> r.id]) = {r}
         /\ ~r.tombstoned /\ r.agentWritten = section.journal
    /\ \A section \in ToSet(answer.sections) :
         /\ section.quality = "unscored" => section.pack \in answer.unscored \cup answer.journals
         /\ section.results = <<>> /\ NamedPack(packs, section.pack).file.answers[answer.query].ids # <<>> => section.quality = "none"
         /\ section.quality = "none" => answer.note # {} \/ \E other \in ToSet(answer.sections) : other.quality \in {"strong", "weak"}

\* To add a journal to a server of one pack changes what no call for that pack
\* means; a broken evaluation is never a pass, nor is a test that fails; and a
\* tool that is listed can be called, of the packs that are named (174-228,
\* 273-290, 377-470).
ToolsMeanTheSame(mounted, journal) ==
  LET packs == mounted.packs
      alone == Corpora(packs)
      Id(args) == callGetRecord(packs, args) = callGetRecord(alone, args)
      limits == {1, 24}
  IN  /\ Len(alone) = 1 =>
           /\ \A id \in 0..4 : Id([pack |-> {}, id |-> id])
           /\ \A limit \in limits : callVerifyPack(packs, [pack |-> {}, limit |-> limit]) = callVerifyPack(alone, [pack |-> {}, limit |-> limit])
      /\ \A p \in ToSet(packs), limit \in limits : \A v \in callVerifyPack(packs, [pack |-> {p.name}, limit |-> limit]) :
           /\ ~p.file.evaluation.broken
           /\ ~p.chain /\ p.file.evaluation.probes = <<>> => v.verdict # "fail"
           /\ v.verdict = "pass" => \A n \in DOMAIN p.file.evaluation.goldens : n > limit \/ Skipped(p, p.file.evaluation.goldens[n]) \/ GoldenPasses(p, p.file.evaluation.goldens[n])
      /\ (journal # {} /\ Journals(packs) # <<>>) =>
           toolDefinitions(packs, FALSE, FALSE).tools = toolDefinitions(<<>>, TRUE, TRUE).tools

\* A client that starts what was installed, wherever it does, gets what the
\* command would have served where it was given, and keeps its other servers.
InstallServesTheSame(setting) ==
  \A force \in BOOLEAN, name \in {"knowledge", "other"} :
    \A config \in Installed(setting.config, setting.asked, name, setting.dir, force) :
      /\ \A server \in DOMAIN setting.config \ {name} : config[server] = setting.config[server]
      /\ name \in DOMAIN setting.config => force
      /\ \A here \in Specs(setting.asked, setting.dir), there \in Specs(config[name], setting.elsewhere) :
           Mounted(setting.world, here, setting.asked.journal) = Mounted(setting.world, there, config[name].journal)

ServingSoundFor(setting) ==
  /\ InstallServesTheSame(setting)
  /\ \A specs \in Specs(setting.asked, setting.dir) :
       LET mounted == Mounted(setting.world, specs, setting.asked.journal)
       IN  /\ MountsAccounted(mounted, specs, setting.asked.journal)
           /\ ResultsCitable(mounted.packs)
           /\ ToolsMeanTheSame(mounted, setting.asked.journal)
=============================================================================
