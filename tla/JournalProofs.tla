--------------------------- MODULE JournalProofs ---------------------------
(***************************************************************************)
(* A journal directory that holds a journal (Existing) stays whole and is  *)
(* a log of notes, for any number of writers, operations and layers; and   *)
(* what MCP servers answer from it is current, for any number of servers   *)
(* and calls.                                                              *)
(***************************************************************************)
EXTENDS JournalServer, SequenceTheorems, TLAPS

(***************************************************************************)
(* The inductive invariant.  Everything but the two looks at journal.json  *)
(* happens under the lock, so what its holder has read is still so: its    *)
(* state is journal.json's, and the files it writes, clears or removes are *)
(* none that journal.json names, save where a forced init takes them away. *)
(***************************************************************************)

Clearing == {"listOld", "clearOld"}
Seeding == {"create", "writeSeed", "commitSeed"}
Folding == {"compact", "writeBase", "commitBase"}
Layering == {"clearOrphan", "append", "writeLayer", "commitLayer"}
Working == Folding \cup {"removeOld"} \cup Layering
Holding == Clearing \cup Seeding \cup {"readState", "report", "end"} \cup Working

Locked == \A w \in Writers : pc[w] \in Holding => holder = w

JobFit(w) ==
    /\ pc[w] # "idle" => job[w] \in Jobs
    /\ pc[w] \in {"lookAgain"} \cup Clearing \cup Seeding => job[w].op = "init"
    /\ pc[w] \in {"readState"} \cup Working => job[w].op # "init"
    /\ pc[w] \in Layering \cup {"report"} => job[w].op = "append"
    /\ pc[w] # "idle" /\ job[w].op = "init" => job[w].force
    /\ pc[w] # "idle" /\ job[w].op = "append" =>
        job[w].note[1] = w /\ job[w].note[2] < ops

JobFits == \A w \in Writers : JobFit(w)

\* The members are a generation's base and its layers, lowest first.
Named ==
    /\ journal # None
    /\ journal.members # <<>>
    /\ \A i \in DOMAIN journal.members : journal.members[i] = <<journal.gen, i - 1>>

StateRead == \A w \in Writers : pc[w] \in Working => state[w] = journal

\* A replacement that died leaves nothing that opens, or the seed alone.
Started ==
    replacing /\ Readable(journal.members) =>
        journal.members = <<Base(1)>> /\ disk[Base(1)] = <<<<Seed>>>>

ClearingSound(w) ==
    /\ pc[w] = "clearOld" => todo[w] = DOMAIN disk
    /\ pc[w] \in Seeding => replacing
    /\ pc[w] = "create" => DOMAIN disk = {}
    /\ pc[w] = "writeSeed" => DOMAIN disk = {Base(1)}
    /\ pc[w] = "commitSeed" => DOMAIN disk = {Base(1)} /\ disk[Base(1)] = <<<<Seed>>>>

FoldingSound(w) ==
    /\ pc[w] \in Folding => Len(journal.members) > 1
    /\ pc[w] \in {"writeBase", "commitBase"} =>
        /\ Readable(journal.members)
        /\ buf[w] = <<Records(journal.members)>>
    /\ pc[w] = "commitBase" =>
        Base(journal.gen + 1) \in DOMAIN disk /\ disk[Base(journal.gen + 1)] = buf[w]
    /\ pc[w] = "removeOld" =>
        Len(journal.members) = 1 /\ todo[w] \cap ToSet(journal.members) = {}

LayeringSound(w) ==
    /\ pc[w] \in Layering => Len(journal.members) <= MaxDepth
    /\ pc[w] = "append" => LayerFile(journal) \notin DOMAIN disk
    /\ pc[w] \in {"writeLayer", "commitLayer"} =>
        /\ Readable(journal.members)
        /\ buf[w] = WithLayer(Identity(journal.members), job[w].note)
    /\ pc[w] = "commitLayer" =>
        LayerFile(journal) \in DOMAIN disk /\ disk[LayerFile(journal)] = buf[w]

\* What a writer is told is what it wrote.
ReportSound(w) == pc[w] = "report" =>
    /\ ~replacing
    /\ Identity(journal.members) = buf[w]
    /\ Len(RecordsOf(buf[w])) = RowBase(buf[w]) + 1
    /\ RecordsOf(buf[w])[RowBase(buf[w]) + 1] = job[w].note

WriterSound(w) == ClearingSound(w) /\ FoldingSound(w) /\ LayeringSound(w) /\ ReportSound(w)

Whole == ChainIntact /\ DepthBounded /\ Started /\ \A w \in Writers : WriterSound(w)

\* A note that has yet to be committed is in nobody's log: notes are numbered.
Pending(w) == pc[w] \notin {"idle", "report"} /\ job[w].op = "append"

Fresh ==
    /\ \A i \in 1 .. Len(Shown) : Shown[i] # Seed => Shown[i][2] < ops
    /\ \A w \in Writers : Pending(w) => \A i \in 1 .. Len(Shown) : Shown[i] # job[w].note

Control == TypeOK /\ Named /\ Locked /\ JobFits /\ StateRead

IInv == Control /\ Whole /\ Fresh

-----------------------------------------------------------------------------
(***************************************************************************)
(* The contents of chain files.                                            *)
(***************************************************************************)

Lists == Seq(Notes \cup {Seed})

\* What is in front of a chain file's own records is the chain below it.
LEMMA ContentsFacts ==
    ASSUME NEW c \in Contents
    PROVE  /\ Len(c) \in Nat
           /\ RecordsOf(c) \in Lists
           /\ c # <<>> => Front(c) \in Contents /\ Len(Front(c)) = Len(c) - 1
<1>1. c \in Seq(Lists)
  BY DEF Contents, Lists
<1>2. Len(c) \in Nat /\ (c # <<>> => Len(c) \in Nat \ {0})
  BY <1>1, EmptySeq
<1>3. CASE c = <<>>
  BY <1>2, <1>3 DEF RecordsOf, Lists
<1>4. CASE c # <<>>
  <2>1. Last(c) \in Lists
    BY <1>1, <1>2, <1>4, ElementOfSeq DEF Last
  <2>2. \A i \in 1 .. Len(c) - 1 : c[i] \in Lists
    BY <1>1, <1>2, ElementOfSeq
  <2> DEFINE n == Len(c)
             T == Front(c)
  <2>3. T \in Seq(Lists) /\ Len(T) = IF 1 <= n - 1 THEN (n - 1) - 1 + 1 ELSE 0
    <3>1. 1 \in Int /\ n - 1 \in Int
      BY <1>2
    <3> QED
      BY <3>1, <2>2, SubSeqProperties DEF Front
  <2>4. n \in Nat \ {0}
    BY <1>2, <1>4
  <2> HIDE DEF n, T
  <2>5. Len(T) = n - 1
    BY <2>3, <2>4
  <2>6. RecordsOf(c) = Last(c)
    BY <1>4 DEF RecordsOf
  <2> QED
    BY <1>2, <2>1, <2>3, <2>5, <2>6 DEF n, T, Contents, Lists
<1> QED
  BY <1>3, <1>4

LEMMA RowBaseType == ASSUME NEW c \in Contents PROVE RowBase(c) \in Nat
<1>1. Front(c) \in Contents
  <2>1. CASE c = <<>>
    <3>1. Len(c) = 0
      BY <2>1
    <3>2. Front(c) = <<>>
      BY <3>1, SubSeqEmpty, 1 \in Int, -1 \in Int, 0 - 1 = -1, -1 < 1 DEF Front
    <3> QED
      BY <3>2 DEF Contents
  <2> QED
    BY <2>1, ContentsFacts
<1>2. RecordsOf(Front(c)) \in Lists
  BY <1>1, ContentsFacts
<1> QED
  BY <1>2, LenProperties DEF RowBase, Lists

\* A layer adds its note behind the records of the chain below it.
LEMMA WithLayerFacts ==
    ASSUME NEW c \in Contents, NEW note \in Notes
    PROVE  /\ WithLayer(c, note) \in Contents
           /\ Len(WithLayer(c, note)) = Len(c) + 1
           /\ Front(WithLayer(c, note)) = c
           /\ RecordsOf(WithLayer(c, note)) = Append(RecordsOf(c), note)
<1> DEFINE R == Append(RecordsOf(c), note)
           W == Append(c, R)
<1>1. RecordsOf(c) \in Lists
  BY ContentsFacts
<1>2. R \in Lists
  BY <1>1 DEF Lists
<1> HIDE DEF R
<1>3. c \in Seq(Lists) /\ Len(c) \in Nat
  BY ContentsFacts DEF Contents, Lists
<1>4. /\ W \in Seq(Lists)
      /\ W # <<>>
      /\ Len(W) = Len(c) + 1
      /\ \A i \in 1 .. Len(c) : W[i] = c[i]
      /\ W[Len(c) + 1] = R
  BY <1>2, <1>3, AppendProperties
<1> HIDE DEF W
<1>5. Front(W) = c
  <2>1. \A i \in 1 .. Len(W) - 1 : W[i] \in Lists
    BY <1>3, <1>4, ElementOfSeq
  <2>2. /\ Front(W) \in Seq(Lists)
        /\ Len(Front(W)) = Len(c)
        /\ \A i \in 1 .. Len(c) : Front(W)[i] = W[i]
    BY <1>3, <1>4, <2>1, SubSeqProperties DEF Front
  <2> QED
    BY <1>3, <1>4, <2>2, SeqEqual
<1>6. RecordsOf(W) = R
  BY <1>4 DEF RecordsOf, Last
<1>7. W = WithLayer(c, note)
  BY DEF W, R, WithLayer
<1> QED
  BY <1>4, <1>5, <1>6, <1>7 DEF R, Contents, Lists

-----------------------------------------------------------------------------
(***************************************************************************)
(* Who does what: the lock, the operations and what their writers read.    *)
(***************************************************************************)

\* Whoever holds the lock is the only one that works on the directory.
LEMMA StatesAreSome == \A s \in States : s # None
BY NoneAssumption

LEMMA JobTypes ==
    /\ [op |-> "compact"] \in Jobs
    /\ \A note \in Notes : [op |-> "append", note |-> note] \in Jobs
    /\ \A force \in BOOLEAN : [op |-> "init", force |-> force] \in Jobs
    /\ \A j \in Jobs : /\ j.op \in {"append", "compact", "init"}
                       /\ j.op = "append" => j.note \in Notes
                       /\ j.op = "init" => j.force \in BOOLEAN
BY DEF Jobs

\* Every variable keeps its type.
LEMMA TypeStep == Existing /\ Control /\ [Next]_vars => TypeOK'
<1> SUFFICES ASSUME Existing, Control, [Next]_vars PROVE TypeOK'
  OBVIOUS
<1> USE BoundsAssumption, SwitchesAssumption, NoneAssumption
    DEF Control, TypeOK, Points, Goto, localVars, histVars
<1>a. \A f \in Files, c \in Contents :
        /\ DOMAIN Put(f, c) \subseteq Files
        /\ \A g \in DOMAIN Put(f, c) : Put(f, c)[g] \in Contents
  BY DEF Put
<1>b. \A f : /\ DOMAIN Drop(f) \subseteq Files
             /\ \A g \in DOMAIN Drop(f) : Drop(f)[g] \in Contents
  BY DEF Drop
<1>c. \A g \in Nat : Base(g) \in Files
  BY DEF Base, Files
<1>d. Torn \in Contents /\ <<<<Seed>>>> \in Contents
  BY DEF Torn, Contents
<1>e. ASSUME NEW s \in States, s.members # <<>> PROVE LayerFile(s) \in Files
  BY <1>e DEF LayerFile, States, Files
<1>1. CASE UNCHANGED vars
  BY <1>1 DEF vars
<1>2. ASSUME NEW w \in Writers, Done(w), journal' \in States \cup {None}, disk' = disk,
        ops' = ops, reported' \subseteq Notes \X Nat, replacing' \in BOOLEAN
      PROVE TypeOK'
  BY <1>2, <1>d DEF Done
<1>4. ASSUME NEW w \in Writers, BeginAppend(w) PROVE TypeOK'
  BY <1>4, JobTypes DEF BeginAppend, Begin, Notes
<1>5. ASSUME NEW w \in Writers, BeginCompact(w) PROVE TypeOK'
  BY <1>5, JobTypes DEF BeginCompact, Begin
<1>6. ASSUME NEW w \in Writers, NEW force \in Forces, BeginInit(w, force) PROVE TypeOK'
  BY <1>6, JobTypes DEF BeginInit, Begin
<1>7. ASSUME NEW w \in Writers, Abort(w) PROVE TypeOK'
  BY <1>7, <1>2 DEF Abort
<1>8. ASSUME NEW w \in Writers, Step(w) PROVE TypeOK'
  <2> USE DEF StateRead, JobFits, JobFit, Named, Clearing, Seeding, Folding, Layering, Working, Holding
  <2>1. CASE LookAgain(w) BY <2>1 DEF LookAgain
  <2>2. CASE ListOldFiles(w) BY <2>2 DEF ListOldFiles
  <2>3. CASE ClearOldFile(w)
    <3>1. PICK f \in todo[w] : /\ disk' = Drop(f)
                               /\ todo' = [todo EXCEPT ![w] = @ \ {f}]
      BY <2>3 DEF ClearOldFile
    <3>2. reported' \subseteq Notes \X Nat /\ replacing' \in BOOLEAN
      BY <2>3 DEF ClearOldFile
    <3> QED
      BY <2>3, <3>1, <3>2, <1>b DEF ClearOldFile
  <2>4. CASE OldFilesCleared(w) BY <2>4 DEF OldFilesCleared
  <2>5. CASE CreateSeedFile(w) BY <2>5, <1>a, <1>c, <1>d DEF CreateSeedFile
  <2>6. CASE WriteSeedFile(w) BY <2>6, <1>a, <1>c, <1>d DEF WriteSeedFile
  <2>7. CASE CommitSeed(w)
    <3>1. [gen |-> 1, members |-> <<Base(1)>>] \in States
      BY <1>c DEF States
    <3> QED
      BY <2>7, <3>1, <1>2 DEF CommitSeed
  <2>8. CASE Enter(w) BY <2>8 DEF Enter
  <2>9. CASE ReadState(w) BY <2>9 DEF ReadState, AfterFold
  <2>10. CASE FoldChain(w)
    <3>1. state[w].gen \in Nat /\ state[w].members \in Seq(Files)
      BY <2>10 DEF FoldChain, States
    <3>2. <<Records(state[w].members)>> \in Contents
      <4>1. Identity(state[w].members) \in Contents
        BY <3>1, <2>10 DEF FoldChain, Readable, Identity, Last
      <4>2. Records(state[w].members) \in Lists
        BY <4>1, ContentsFacts DEF Records
      <4> QED
        BY <4>2 DEF Contents, Lists
    <3> QED
      BY <2>10, <3>1, <3>2, <1>a, <1>c, <1>d DEF FoldChain
  <2>11. CASE WriteBase(w)
    <3>1. state[w].gen \in Nat
      BY <2>11 DEF WriteBase, States
    <3> QED
      BY <2>11, <3>1, <1>a, <1>c DEF WriteBase
  <2>12. CASE CommitBase(w)
    <3>1. state[w].gen \in Nat /\ state[w].members \in Seq(Files)
      BY <2>12 DEF CommitBase, States
    <3>2. [gen |-> state[w].gen + 1, members |-> <<Base(state[w].gen + 1)>>] \in States
      BY <3>1, <1>c DEF States
    <3>3. ToSet(state[w].members) \in SUBSET Files
      BY <3>1, ElementOfSeq DEF ToSet
    <3> QED
      BY <2>12, <3>2, <3>3 DEF CommitBase
  <2>13. CASE RemoveOld(w) BY <2>13, <1>b DEF RemoveOld
  <2>14. CASE OldRemoved(w) BY <2>14 DEF OldRemoved, AfterFold
  <2>15. CASE ClearOrphan(w) BY <2>15, <1>b DEF ClearOrphan
  <2>16. CASE CreateLayer(w)
    <3>1. state[w] \in States /\ state[w].members # <<>> /\ state[w].members \in Seq(Files)
      BY <2>16 DEF CreateLayer, States
    <3>2. Identity(state[w].members) \in Contents
      BY <3>1, <2>16 DEF CreateLayer, CanAppend, Readable, Identity, Last
    <3>3. WithLayer(Identity(state[w].members), job[w].note) \in Contents
      BY <3>2, <2>16, WithLayerFacts, JobTypes DEF CreateLayer
    <3> QED
      BY <2>16, <3>1, <3>3, <1>a, <1>d, <1>e DEF CreateLayer
  <2>17. CASE WriteLayer(w)
    <3>1. state[w] \in States /\ state[w].members # <<>>
      BY <2>17 DEF WriteLayer
    <3> QED
      BY <2>17, <3>1, <1>a, <1>e DEF WriteLayer
  <2>18. CASE CommitLayer(w)
    <3>1. state[w] \in States /\ state[w].members # <<>>
      BY <2>18 DEF CommitLayer
    <3>2. [gen |-> state[w].gen, members |-> Append(state[w].members, LayerFile(state[w]))] \in States
      BY <3>1, <1>e DEF States
    <3> QED
      BY <2>18, <3>2 DEF CommitLayer
  <2>19. CASE Report(w)
    <3>1. <<job[w].note, RowBase(buf[w])>> \in Notes \X Nat
      <4>1. job[w].note \in Notes
        BY <2>19, JobTypes DEF Report
      <4>2. RowBase(buf[w]) \in Nat
        BY RowBaseType
      <4> QED
        BY <4>1, <4>2
    <3> QED
      BY <2>19, <3>1, <1>2 DEF Report
  <2>20. CASE End(w) BY <2>20, <1>2 DEF End
  <2>. QED BY <1>8, <2>1, <2>2, <2>3, <2>4, <2>5, <2>6, <2>7, <2>8, <2>9, <2>10, <2>11, <2>12,
              <2>13, <2>14, <2>15, <2>16, <2>17, <2>18, <2>19, <2>20 DEF Step
<1>. QED BY <1>1, <1>4, <1>5, <1>6, <1>7, <1>8 DEF Next

\* Nothing but its holder works under the lock, and what it has read of
\* journal.json is what journal.json says.
LEMMA ControlStep == Existing /\ Control /\ [Next]_vars => Control'
<1> SUFFICES ASSUME Existing, Control, [Next]_vars PROVE Control'
  OBVIOUS
<1> DEFINE Rest == Named /\ Locked /\ JobFits /\ StateRead
<1>t. TypeOK'
  BY TypeStep
<1> USE BoundsAssumption, SwitchesAssumption, NoneAssumption, JobTypes
    DEF Control, Locked, JobFits, JobFit, StateRead, Named, Goto, localVars, histVars,
        Clearing, Seeding, Folding, Layering, Working, Holding
<1>1. CASE UNCHANGED vars
  <2>1. Named' /\ Locked' BY <1>1 DEF vars
  <2>2. JobFits' BY <1>1 DEF vars
  <2>3. StateRead' BY <1>1 DEF vars
  <2> QED BY <1>t, <2>1, <2>2, <2>3
<1>2. ASSUME NEW w \in Writers, Done(w), Named', ops' = ops, journal' = journal \/ pc[w] \in Holding
      PROVE Rest'
  BY <1>2 DEF Done, TypeOK
<1>4. ASSUME NEW w \in Writers, BeginAppend(w) PROVE Rest'
  <2>1. <<w, ops>> \in Notes
    BY DEF TypeOK, Notes
  <2>2. Named' /\ Locked' BY <1>4, <2>1 DEF BeginAppend, Begin, TypeOK
  <2>3. JobFits'
    <3> SUFFICES ASSUME NEW v \in Writers PROVE JobFit(v)'
      OBVIOUS
    <3>1. CASE v = w BY <3>1, <1>4, <2>1 DEF BeginAppend, Begin, TypeOK
    <3>2. CASE v # w
      <4>1. pc'[v] = pc[v] /\ job'[v] = job[v] /\ ops \in Nat /\ ops' = ops + 1
        BY <3>2, <1>4, <2>1 DEF BeginAppend, Begin, TypeOK
      <4>2. pc[v] # "idle" /\ job[v].op = "append" => job[v].note[2] \in Nat
        BY DEF Notes
      <4> QED
        BY <4>1, <4>2
    <3> QED BY <3>1, <3>2
  <2>4. StateRead' BY <1>4, <2>1 DEF BeginAppend, Begin, TypeOK
  <2> QED BY <2>2, <2>3, <2>4
<1>5. ASSUME NEW w \in Writers, BeginCompact(w) PROVE Rest'
  <2>2. Named' /\ Locked' BY <1>5 DEF BeginCompact, Begin, TypeOK
  <2>3. JobFits'
    <3> SUFFICES ASSUME NEW v \in Writers PROVE JobFit(v)'
      OBVIOUS
    <3>1. CASE v = w BY <3>1, <1>5 DEF BeginCompact, Begin, TypeOK
    <3>2. CASE v # w
      <4>1. pc'[v] = pc[v] /\ job'[v] = job[v] /\ ops \in Nat /\ ops' = ops + 1
        BY <3>2, <1>5 DEF BeginCompact, Begin, TypeOK
      <4>2. pc[v] # "idle" /\ job[v].op = "append" => job[v].note[2] \in Nat
        BY DEF Notes
      <4> QED
        BY <4>1, <4>2
    <3> QED BY <3>1, <3>2
  <2>4. StateRead' BY <1>5 DEF BeginCompact, Begin, TypeOK
  <2> QED BY <2>2, <2>3, <2>4
<1>6. ASSUME NEW w \in Writers, NEW force \in Forces, BeginInit(w, force) PROVE Rest'
  <2>2. Named' /\ Locked' BY <1>6 DEF BeginInit, Begin, TypeOK
  <2>3. JobFits'
    <3> SUFFICES ASSUME NEW v \in Writers PROVE JobFit(v)'
      OBVIOUS
    <3>1. CASE v = w BY <3>1, <1>6 DEF BeginInit, Begin, TypeOK
    <3>2. CASE v # w
      <4>1. pc'[v] = pc[v] /\ job'[v] = job[v] /\ ops \in Nat /\ ops' = ops + 1
        BY <3>2, <1>6 DEF BeginInit, Begin, TypeOK
      <4>2. pc[v] # "idle" /\ job[v].op = "append" => job[v].note[2] \in Nat
        BY DEF Notes
      <4> QED
        BY <4>1, <4>2
    <3> QED BY <3>1, <3>2
  <2>4. StateRead' BY <1>6 DEF BeginInit, Begin, TypeOK
  <2> QED BY <2>2, <2>3, <2>4
<1>7. ASSUME NEW w \in Writers, Abort(w) PROVE Rest'
  BY <1>7, <1>2 DEF Abort
<1>8. ASSUME NEW w \in Writers, Step(w) PROVE Rest'
  <2> USE DEF TypeOK
  <2>1. CASE LookAgain(w) BY <2>1 DEF LookAgain
  <2>2. CASE ListOldFiles(w) BY <2>2 DEF ListOldFiles
  <2>3. CASE ClearOldFile(w) BY <2>3 DEF ClearOldFile
  <2>4. CASE OldFilesCleared(w) BY <2>4 DEF OldFilesCleared
  <2>5. CASE CreateSeedFile(w) BY <2>5 DEF CreateSeedFile
  <2>6. CASE WriteSeedFile(w) BY <2>6 DEF WriteSeedFile
  <2>7. CASE CommitSeed(w)
    <3>1. [gen |-> 1, members |-> <<Base(1)>>] \in States
      BY DEF States, Base, Files
    <3>2. Named'
      BY <2>7, <3>1 DEF CommitSeed, Base
    <3> QED
      BY <2>7, <3>2, <1>2 DEF CommitSeed
  <2>8. CASE Enter(w) BY <2>8 DEF Enter
  <2>9. CASE ReadState(w) BY <2>9 DEF ReadState, AfterFold
  <2>10. CASE FoldChain(w) BY <2>10 DEF FoldChain
  <2>11. CASE WriteBase(w) BY <2>11 DEF WriteBase
  <2>12. CASE CommitBase(w)
    <3>1. state[w].gen \in Nat
      BY <2>12 DEF CommitBase, States
    <3>2. [gen |-> state[w].gen + 1, members |-> <<Base(state[w].gen + 1)>>] \in States
      BY <3>1 DEF States, Base, Files
    <3>3. Named'
      <4>1. journal' = [gen |-> state[w].gen + 1, members |-> <<Base(state[w].gen + 1)>>]
        BY <2>12 DEF CommitBase
      <4>2. journal' # None
        BY <3>2, <4>1, NoneAssumption
      <4> QED
        BY <4>1, <4>2 DEF Base
    <3>4. Locked' /\ JobFits'
      BY <2>12 DEF CommitBase
    <3>5. StateRead'
      BY <2>12 DEF CommitBase
    <3> QED
      BY <3>3, <3>4, <3>5
  <2>13. CASE RemoveOld(w) BY <2>13 DEF RemoveOld
  <2>14. CASE OldRemoved(w) BY <2>14 DEF OldRemoved, AfterFold
  <2>15. CASE ClearOrphan(w) BY <2>15 DEF ClearOrphan
  <2>16. CASE CreateLayer(w) BY <2>16 DEF CreateLayer
  <2>17. CASE WriteLayer(w) BY <2>17 DEF WriteLayer
  <2>18. CASE CommitLayer(w)
    <3>1. state[w] = journal /\ journal.gen \in Nat /\ journal.members \in Seq(Files)
      BY <2>18 DEF CommitLayer, States
    <3>2. LayerFile(journal) = <<journal.gen, Len(journal.members)>>
      BY <3>1 DEF LayerFile
    <3>3. [gen |-> journal.gen, members |-> Append(journal.members, LayerFile(journal))] \in States
      BY <3>1, <3>2 DEF States, Files
    <3>4. Named'
      <4>1. journal'.gen = journal.gen /\ journal'.members = Append(journal.members, LayerFile(journal))
        BY <2>18, <3>1 DEF CommitLayer
      <4>2. journal' # None
        <5>1. journal' = [gen |-> journal.gen, members |-> Append(journal.members, LayerFile(journal))]
          BY <2>18, <3>1 DEF CommitLayer
        <5>2. journal' \in States
          BY <5>1, <3>3, Zenon
        <5> QED
          BY <5>2, StatesAreSome
      <4>3. \A i \in 1 .. Len(journal.members) + 1 :
               journal'.members[i] = <<journal.gen, i - 1>>
        <5>1. LayerFile(journal) \in Files
          BY <3>1, <3>2 DEF Files
        <5>2. \A i \in 1 .. Len(journal.members) :
                 Append(journal.members, LayerFile(journal))[i] = <<journal.gen, i - 1>>
          BY <3>1, <5>1, AppendProperties, LenProperties
        <5>3. Append(journal.members, LayerFile(journal))[Len(journal.members) + 1] = LayerFile(journal)
          BY <3>1, <5>1, AppendProperties
        <5> QED
          BY <4>1, <3>1, <3>2, <5>2, <5>3, LenProperties
      <4> QED
        BY <4>1, <4>2, <4>3, <3>1, <3>2, AppendProperties, LenProperties
    <3>5. Locked' /\ JobFits'
      BY <2>18 DEF CommitLayer
    <3>6. StateRead'
      BY <2>18 DEF CommitLayer
    <3> QED
      BY <3>4, <3>5, <3>6
  <2>19. CASE Report(w) BY <2>19, <1>2 DEF Report
  <2>20. CASE End(w) BY <2>20, <1>2 DEF End
  <2>. QED BY <1>8, <2>1, <2>2, <2>3, <2>4, <2>5, <2>6, <2>7, <2>8, <2>9, <2>10, <2>11, <2>12,
              <2>13, <2>14, <2>15, <2>16, <2>17, <2>18, <2>19, <2>20 DEF Step
<1>. QED BY <1>t, <1>1, <1>4, <1>5, <1>6, <1>7, <1>8 DEF Next

-----------------------------------------------------------------------------
(***************************************************************************)
(* The chain that journal.json names.                                      *)
(***************************************************************************)

\* A folded base and the next layer get names that journal.json does not have.
LEMMA Names ==
    ASSUME Control
    PROVE  /\ journal.gen \in Nat
           /\ journal.members \in Seq(Files)
           /\ Len(journal.members) \in Nat \ {0}
           /\ DOMAIN journal.members = 1 .. Len(journal.members)
           /\ Base(journal.gen + 1) \notin ToSet(journal.members)
           /\ LayerFile(journal) = <<journal.gen, Len(journal.members)>>
           /\ LayerFile(journal) \notin ToSet(journal.members)
           /\ \A i \in 1 .. Len(journal.members) : journal.members[i] \in ToSet(journal.members)
<1>1. journal \in States
  BY DEF Control, TypeOK, Named
<1>2. journal.gen \in Nat /\ journal.members \in Seq(Files)
  BY <1>1 DEF States
<1>3. Len(journal.members) \in Nat \ {0} /\ DOMAIN journal.members = 1 .. Len(journal.members)
  BY <1>2, LenProperties, EmptySeq DEF Control, Named
<1>4. \A i \in 1 .. Len(journal.members) : journal.members[i] = <<journal.gen, i - 1>>
  BY <1>3 DEF Control, Named
<1>5. LayerFile(journal) = <<journal.gen, Len(journal.members)>>
  BY <1>3, <1>4 DEF LayerFile
<1>6. \A f \in ToSet(journal.members) : f[1] = journal.gen /\ f[2] < Len(journal.members)
  BY <1>3, <1>4 DEF ToSet
<1>7. Base(journal.gen + 1)[1] = journal.gen + 1
  BY DEF Base
<1>8. LayerFile(journal)[2] = Len(journal.members)
  BY <1>5
<1>9. \A i \in 1 .. Len(journal.members) : journal.members[i] \in ToSet(journal.members)
  BY <1>3 DEF ToSet
<1> QED
  BY <1>2, <1>3, <1>5, <1>6, <1>7, <1>8, <1>9

\* A base alone is a chain.
LEMMA BaseReadable ==
    ASSUME NEW f \in DOMAIN disk, Len(disk[f]) = 1
    PROVE  Readable(<<f>>)
<1> DEFINE m == <<f>>
<1>1. Len(m) = 1 /\ m[1] = f /\ DOMAIN m = 1 .. 1 /\ m # <<>>
  OBVIOUS
<1> HIDE DEF m
<1>2. Readable(m)
  BY <1>1 DEF Readable
<1> QED
  BY <1>2 DEF m

\* Nothing happened to the files that journal.json names.
SameChain ==
    /\ journal' = journal
    /\ \A f \in ToSet(journal.members) :
        /\ f \in DOMAIN disk' <=> f \in DOMAIN disk
        /\ f \in DOMAIN disk => disk'[f] = disk[f]

LEMMA ChainKept ==
    ASSUME Control, SameChain
    PROVE  /\ Readable(journal.members)' <=> Readable(journal.members)
           /\ Readable(journal.members) =>
                /\ Identity(journal.members)' = Identity(journal.members)
                /\ Records(journal.members)' = Records(journal.members)
           /\ LayerFile(journal)' = LayerFile(journal)
<1> USE Names
<1>1. journal'.members = journal.members /\ journal' = journal
  BY DEF SameChain
<1>2. \A i \in 1 .. Len(journal.members) :
        /\ journal.members[i] \in DOMAIN disk' <=> journal.members[i] \in DOMAIN disk
        /\ journal.members[i] \in DOMAIN disk =>
              disk'[journal.members[i]] = disk[journal.members[i]]
  BY DEF SameChain
<1>3. Readable(journal.members)' <=> Readable(journal.members)
  BY <1>1, <1>2 DEF Readable
<1>4. Readable(journal.members) => Identity(journal.members)' = Identity(journal.members)
  BY <1>1, <1>2 DEF Readable, Identity, Last
<1> QED
  BY <1>1, <1>3, <1>4 DEF Records, LayerFile

\* The head of a chain that opens is a file as long as the chain.
LEMMA HeadFacts ==
    ASSUME Control, Readable(journal.members)
    PROVE  /\ Identity(journal.members) \in Contents
           /\ Len(Identity(journal.members)) = Len(journal.members)
           /\ Records(journal.members) \in Lists
<1>1. /\ Identity(journal.members) \in Contents
      /\ Len(Identity(journal.members)) = Len(journal.members)
  BY Names DEF Readable, Identity, Last, Control, TypeOK
<1> QED
  BY <1>1, ContentsFacts DEF Records

\* Writing a file that journal.json does not name, or removing it.
LEMMA OtherFile ==
    ASSUME Control, NEW f, f \notin ToSet(journal.members), journal' = journal,
           disk' = Drop(f) \/ \E c : disk' = Put(f, c)
    PROVE  SameChain
BY DEF SameChain, Drop, Put

-----------------------------------------------------------------------------
(***************************************************************************)
(* Every step keeps the chain whole.                                       *)
(***************************************************************************)

LEMMA NotHoldingSound ==
    ASSUME NEW w \in Writers, pc[w] \notin Holding
    PROVE  WriterSound(w)
BY DEF WriterSound, ClearingSound, FoldingSound, LayeringSound, ReportSound,
       Clearing, Seeding, Folding, Layering, Working, Holding

\* While one writer works under the lock there is nothing to say of the others.
LEMMA OthersSound ==
    ASSUME Control, NEW w \in Writers, pc[w] \in Holding, NEW v \in Writers, v # w, pc'[v] = pc[v]
    PROVE  WriterSound(v)'
<1>1. pc'[v] \notin Holding
  BY DEF Control, Locked
<1> QED
  BY <1>1 DEF WriterSound, ClearingSound, FoldingSound, LayeringSound, ReportSound,
       Clearing, Seeding, Folding, Layering, Working, Holding

\* Steps that leave the directory and journal.json alone.
LEMMA Unmoved ==
    ASSUME Control, Whole, UNCHANGED <<journal, disk, replacing>>
    PROVE  /\ ChainIntact' /\ DepthBounded' /\ Started'
           /\ \A v \in Writers : pc'[v] = pc[v] /\ job'[v] = job[v] /\ buf'[v] = buf[v] /\ todo'[v] = todo[v]
                  => WriterSound(v)'
<1>1. ChainIntact' /\ DepthBounded' /\ Started'
  BY DEF Whole, ChainIntact, DepthBounded, Started, Readable
<1>2. ASSUME NEW v \in Writers, pc'[v] = pc[v], job'[v] = job[v], buf'[v] = buf[v], todo'[v] = todo[v]
      PROVE WriterSound(v)'
  <2>1. ClearingSound(v)' BY <1>2 DEF Whole, WriterSound, ClearingSound
  <2>2. FoldingSound(v)' BY <1>2 DEF Whole, WriterSound, FoldingSound, Readable, Records, Identity
  <2>3. LayeringSound(v)' BY <1>2 DEF Whole, WriterSound, LayeringSound, Readable, Identity, LayerFile
  <2>4. ReportSound(v)' BY <1>2 DEF Whole, WriterSound, ReportSound, Identity
  <2> QED BY <2>1, <2>2, <2>3, <2>4 DEF WriterSound
<1> QED
  BY <1>1, <1>2

\* Steps under the lock that do nothing to the files that journal.json names.
LEMMA Beside ==
    ASSUME Control, Whole, SameChain, replacing' = replacing
    PROVE  ChainIntact' /\ DepthBounded' /\ Started'
<1>1. ChainIntact' /\ DepthBounded'
  BY ChainKept DEF Whole, ChainIntact, DepthBounded, SameChain
<1>2. Started'
  <2> SUFFICES ASSUME replacing, Readable(journal.members)
               PROVE  journal.members = <<Base(1)>> /\ disk'[Base(1)] = <<<<Seed>>>>
    BY ChainKept DEF Started, SameChain
  <2>1. journal.members = <<Base(1)>> /\ disk[Base(1)] = <<<<Seed>>>>
    BY DEF Whole, Started
  <2>2. Base(1) \in ToSet(journal.members) /\ Base(1) \in DOMAIN disk
    BY <2>1 DEF ToSet, Readable
  <2> QED
    BY <2>1, <2>2 DEF SameChain
<1> QED
  BY <1>1, <1>2

\* A step under the lock has to be looked at for its own writer alone.
LEMMA OneWriter ==
    ASSUME Control, NEW w \in Writers, pc[w] \in Holding,
           \A v \in Writers : v # w => pc'[v] = pc[v],
           ChainIntact', DepthBounded', Started', WriterSound(w)'
    PROVE  Whole'
BY OthersSound DEF Whole

\* An operation that ends, or has yet to get the lock, leaves the rest as it is.
LEMMA LeavesWhole ==
    ASSUME Control, Whole, NEW w \in Writers, UNCHANGED <<journal, disk, replacing>>,
           pc'[w] \notin Holding,
           \A v \in Writers : v # w => /\ pc'[v] = pc[v] /\ job'[v] = job[v]
                                      /\ buf'[v] = buf[v] /\ todo'[v] = todo[v]
    PROVE  Whole'
<1>1. WriterSound(w)'
  BY DEF WriterSound, ClearingSound, FoldingSound, LayeringSound, ReportSound,
       Clearing, Seeding, Folding, Layering, Working, Holding
<1> QED
  BY <1>1, Unmoved DEF Whole

LEMMA ClearingSteps ==
    ASSUME Existing, Control, Whole, NEW w \in Writers,
           \/ ListOldFiles(w) \/ ClearOldFile(w) \/ OldFilesCleared(w)
           \/ CreateSeedFile(w) \/ WriteSeedFile(w) \/ CommitSeed(w)
    PROVE  Whole'
<1> USE DEF Goto, localVars, histVars, Clearing, Seeding, Folding, Layering, Working, Holding
<1>w. WriterSound(w)
  BY DEF Whole
<1>p. pc \in [Writers -> Points] /\ todo \in [Writers -> SUBSET Files]
  BY DEF Control, TypeOK
<1>1. CASE ListOldFiles(w)
  <2>1. pc[w] \in Holding /\ pc'[w] = "clearOld" /\ \A v \in Writers : v # w => pc'[v] = pc[v]
    BY <1>1, <1>p DEF ListOldFiles
  <2>2. ChainIntact' /\ DepthBounded' /\ Started'
    BY <1>1, Unmoved DEF ListOldFiles
  <2>3. WriterSound(w)'
    BY <1>1, <1>p, <2>1 DEF ListOldFiles, WriterSound, ClearingSound, FoldingSound, LayeringSound, ReportSound
  <2> QED
    BY <2>1, <2>2, <2>3, OneWriter
<1>2. CASE ClearOldFile(w)
  <2>1. pc[w] = "clearOld" /\ pc' = pc /\ journal' = journal
    BY <1>2 DEF ClearOldFile
  <2>2. PICK f \in todo[w] :
          /\ disk' = Drop(f)
          /\ todo' = [todo EXCEPT ![w] = @ \ {f}]
          /\ IF job[w].force /\ f \in ToSet(journal.members)
             THEN reported' = {} /\ replacing' = TRUE
             ELSE UNCHANGED histVars
    BY <1>2 DEF ClearOldFile
  <2>3. job[w].force
    BY <2>1 DEF Control, JobFits, JobFit
  <2>4. todo[w] = DOMAIN disk
    BY <1>w, <2>1 DEF WriterSound, ClearingSound
  <2>5. WriterSound(w)'
    BY <1>p, <2>1, <2>2, <2>4 DEF WriterSound, ClearingSound, FoldingSound, LayeringSound, ReportSound, Drop
  <2>6. ChainIntact' /\ DepthBounded' /\ Started'
    <3>1. CASE f \in ToSet(journal.members)
      <4>1. replacing' /\ f \notin DOMAIN disk'
        BY <2>2, <2>3, <3>1 DEF Drop
      <4>2. ~Readable(journal.members)'
        BY <3>1, <4>1, <2>1 DEF Readable, ToSet
      <4> QED
        BY <4>1, <4>2, <2>1 DEF Whole, ChainIntact, DepthBounded, Started
    <3>2. CASE f \notin ToSet(journal.members)
      <4>1. SameChain /\ replacing' = replacing
        BY <2>1, <2>2, <3>2, OtherFile
      <4> QED
        BY <4>1, Beside
    <3> QED
      BY <3>1, <3>2
  <2> QED
    BY <2>1, <2>5, <2>6, OneWriter
<1>3. CASE OldFilesCleared(w)
  <2>1. /\ pc[w] = "clearOld" /\ pc'[w] = "create" /\ todo[w] = {}
        /\ \A v \in Writers : v # w => pc'[v] = pc[v]
    BY <1>3, <1>p DEF OldFilesCleared
  <2>2. ChainIntact' /\ DepthBounded' /\ Started'
    BY <1>3, Unmoved DEF OldFilesCleared
  <2>3. DOMAIN disk = {}
    BY <1>w, <2>1 DEF WriterSound, ClearingSound
  <2>4. replacing
    BY <2>3, Names DEF Whole, ChainIntact, Readable, Control, Named
  <2>5. WriterSound(w)'
    BY <1>3, <2>1, <2>3, <2>4 DEF OldFilesCleared, WriterSound, ClearingSound, FoldingSound, LayeringSound, ReportSound
  <2> QED
    BY <2>1, <2>2, <2>5, OneWriter
<1>4. CASE CreateSeedFile(w)
  <2>1. /\ pc[w] = "create" /\ pc'[w] = "writeSeed" /\ journal' = journal /\ replacing' = replacing
        /\ disk' = Put(Base(1), Torn)
        /\ \A v \in Writers : v # w => pc'[v] = pc[v]
    BY <1>4, <1>p DEF CreateSeedFile
  <2>2. DOMAIN disk = {} /\ replacing
    BY <1>w, <2>1 DEF WriterSound, ClearingSound
  <2>3. DOMAIN disk' = {Base(1)} /\ disk'[Base(1)] = Torn
    BY <2>1, <2>2 DEF Put
  <2>4. ~Readable(journal.members)'
    BY <2>1, <2>3, Names DEF Readable, Torn
  <2>5. ChainIntact' /\ DepthBounded' /\ Started'
    BY <2>1, <2>2, <2>4 DEF Whole, ChainIntact, DepthBounded, Started
  <2>6. WriterSound(w)'
    BY <2>1, <2>2, <2>3 DEF WriterSound, ClearingSound, FoldingSound, LayeringSound, ReportSound
  <2> QED
    BY <2>1, <2>5, <2>6, OneWriter
<1>5. CASE WriteSeedFile(w)
  <2>1. /\ pc[w] = "writeSeed" /\ pc'[w] = "commitSeed" /\ journal' = journal /\ replacing' = replacing
        /\ disk' = Put(Base(1), <<<<Seed>>>>)
        /\ \A v \in Writers : v # w => pc'[v] = pc[v]
    BY <1>5, <1>p DEF WriteSeedFile
  <2>2. DOMAIN disk = {Base(1)} /\ replacing
    BY <1>w, <2>1 DEF WriterSound, ClearingSound
  <2>3. DOMAIN disk' = {Base(1)} /\ disk'[Base(1)] = <<<<Seed>>>>
    BY <2>1, <2>2 DEF Put
  <2>4. ASSUME Readable(journal.members)' PROVE journal.members = <<Base(1)>>
    <3>1. \A i \in 1 .. Len(journal.members) : journal.members[i] = <<1, 0>> /\ journal.members[i] = <<journal.gen, i - 1>>
      BY <2>1, <2>3, <2>4, Names DEF Readable, Base, Control, Named
    <3>2. Len(journal.members) = 1
      <4>1. 2 \notin 1 .. Len(journal.members)
        BY <3>1
      <4>2. Len(journal.members) \in Nat \ {0}
        BY Names
      <4>3. \A n \in Nat \ {0} : 2 \notin 1 .. n => n = 1
        OBVIOUS
      <4> QED
        BY <4>1, <4>2, <4>3
    <3> QED
      BY <3>1, <3>2, Names DEF Base
  <2>5. ChainIntact' /\ DepthBounded' /\ Started'
    BY <2>1, <2>2, <2>3, <2>4 DEF Whole, ChainIntact, DepthBounded, Started
  <2>6. WriterSound(w)'
    BY <2>1, <2>2, <2>3 DEF WriterSound, ClearingSound, FoldingSound, LayeringSound, ReportSound
  <2> QED
    BY <2>1, <2>5, <2>6, OneWriter
<1>6. CASE CommitSeed(w)
  <2>1. /\ pc[w] = "commitSeed" /\ pc'[w] = "idle" /\ disk' = disk
        /\ journal' = [gen |-> 1, members |-> <<Base(1)>>]
        /\ \A v \in Writers : v # w => pc'[v] = pc[v]
    BY <1>6, <1>p DEF CommitSeed, Done
  <2>2. ~replacing'
    BY <1>6, <2>1 DEF CommitSeed, Control, JobFits, JobFit
  <2>3. disk[Base(1)] = <<<<Seed>>>> /\ Base(1) \in DOMAIN disk
    BY <1>w, <2>1 DEF WriterSound, ClearingSound
  <2>4. Readable(journal.members)'
    <3>1. Readable(<<Base(1)>>)
      BY <2>3, BaseReadable
    <3>2. journal'.members = <<Base(1)>>
      BY <2>1
    <3> QED
      BY <2>1, <3>1, <3>2 DEF Readable
  <2>5. ChainIntact' /\ DepthBounded' /\ Started'
    BY <2>1, <2>2, <2>4, BoundsAssumption DEF ChainIntact, DepthBounded, Started
  <2>6. WriterSound(w)'
    BY <2>1 DEF WriterSound, ClearingSound, FoldingSound, LayeringSound, ReportSound
  <2> QED
    BY <2>1, <2>5, <2>6, OneWriter
<1> QED
  BY <1>1, <1>2, <1>3, <1>4, <1>5, <1>6

LEMMA FoldingSteps ==
    ASSUME Existing, Control, Whole, NEW w \in Writers,
           FoldChain(w) \/ WriteBase(w) \/ CommitBase(w) \/ RemoveOld(w) \/ OldRemoved(w)
    PROVE  Whole'
<1> USE DEF Goto, localVars, histVars, Clearing, Seeding, Folding, Layering, Working, Holding
<1>w. WriterSound(w)
  BY DEF Whole
<1>p. /\ pc \in [Writers -> Points] /\ todo \in [Writers -> SUBSET Files]
      /\ buf \in [Writers -> Contents]
  BY DEF Control, TypeOK
<1>s. pc[w] \in Working => state[w] = journal
  BY DEF Control, StateRead
<1>1. CASE FoldChain(w)
  <2>1. /\ pc[w] = "compact" /\ pc'[w] = "writeBase" /\ journal' = journal /\ replacing' = replacing
        /\ Readable(journal.members)
        /\ buf'[w] = <<Records(journal.members)>>
        /\ disk' = Put(Base(journal.gen + 1), Torn)
        /\ \A v \in Writers : v # w => pc'[v] = pc[v]
    BY <1>1, <1>p, <1>s DEF FoldChain
  <2>2. SameChain
    BY <2>1, Names, OtherFile
  <2>3. WriterSound(w)'
    BY <1>w, <2>1, <2>2, ChainKept DEF WriterSound, ClearingSound, FoldingSound, LayeringSound, ReportSound
  <2> QED
    BY <2>1, <2>2, <2>3, Beside, OneWriter
<1>2. CASE WriteBase(w)
  <2>1. /\ pc[w] = "writeBase" /\ pc'[w] = "commitBase" /\ journal' = journal /\ replacing' = replacing
        /\ buf' = buf
        /\ disk' = Put(Base(journal.gen + 1), buf[w])
        /\ \A v \in Writers : v # w => pc'[v] = pc[v]
    BY <1>2, <1>p, <1>s DEF WriteBase
  <2>2. SameChain
    BY <2>1, Names, OtherFile
  <2>3. Base(journal.gen + 1) \in DOMAIN disk' /\ disk'[Base(journal.gen + 1)] = buf[w]
    BY <2>1 DEF Put
  <2>4. WriterSound(w)'
    BY <1>w, <2>1, <2>2, <2>3, ChainKept DEF WriterSound, ClearingSound, FoldingSound, LayeringSound, ReportSound
  <2> QED
    BY <2>1, <2>2, <2>4, Beside, OneWriter
<1>3. CASE CommitBase(w)
  <2> DEFINE b == Base(journal.gen + 1)
  <2>1. /\ pc[w] = "commitBase" /\ pc'[w] = "removeOld" /\ disk' = disk /\ replacing' = replacing
        /\ journal' = [gen |-> journal.gen + 1, members |-> <<b>>]
        /\ todo'[w] = ToSet(journal.members)
        /\ \A v \in Writers : v # w => pc'[v] = pc[v]
    BY <1>3, <1>p, <1>s DEF CommitBase
  <2>2. /\ Readable(journal.members) /\ Len(journal.members) > 1
        /\ b \in DOMAIN disk /\ disk[b] = <<Records(journal.members)>>
    BY <1>w, <2>1 DEF WriterSound, FoldingSound
  <2>3. ~replacing
    <3>1. Len(<<Base(1)>>) = 1
      OBVIOUS
    <3>2. replacing => journal.members = <<Base(1)>>
      BY <2>2 DEF Whole, Started
    <3>3. Len(journal.members) # 1
      BY <2>2, Names
    <3> QED
      BY <3>1, <3>2, <3>3
  <2>4. journal'.members = <<b>> /\ Len(<<b>>) = 1 /\ <<b>>[1] = b /\ Len(disk[b]) = 1
    BY <2>1, <2>2
  <2>5. Readable(journal.members)'
    <3>1. Readable(<<b>>)
      BY <2>2, <2>4, BaseReadable
    <3> QED
      BY <2>1, <2>4, <3>1 DEF Readable
  <2>6. ChainIntact' /\ DepthBounded' /\ Started'
    BY <2>1, <2>3, <2>4, <2>5, BoundsAssumption DEF ChainIntact, DepthBounded, Started
  <2>7. ToSet(<<b>>) = {b}
    BY DEF ToSet
  <2>8. WriterSound(w)'
    BY <2>1, <2>4, <2>7, Names DEF WriterSound, ClearingSound, FoldingSound, LayeringSound, ReportSound
  <2> QED
    BY <2>1, <2>6, <2>8, OneWriter
<1>4. CASE RemoveOld(w)
  <2>1. pc[w] = "removeOld" /\ pc' = pc /\ journal' = journal /\ replacing' = replacing
    BY <1>4 DEF RemoveOld
  <2>2. PICK f \in todo[w] : disk' = Drop(f) /\ todo' = [todo EXCEPT ![w] = @ \ {f}]
    BY <1>4 DEF RemoveOld
  <2>3. Len(journal.members) = 1 /\ todo[w] \cap ToSet(journal.members) = {}
    BY <1>w, <2>1 DEF WriterSound, FoldingSound
  <2>4. SameChain
    BY <2>1, <2>2, <2>3, OtherFile
  <2>5. WriterSound(w)'
    BY <1>p, <2>1, <2>2, <2>3 DEF WriterSound, ClearingSound, FoldingSound, LayeringSound, ReportSound
  <2> QED
    BY <2>1, <2>4, <2>5, Beside, OneWriter
<1>5. CASE OldRemoved(w)
  <2>1. /\ pc[w] = "removeOld" /\ pc'[w] \in {"clearOrphan", "end"} /\ UNCHANGED <<journal, disk, replacing>>
        /\ \A v \in Writers : v # w => pc'[v] = pc[v]
    BY <1>5, <1>p DEF OldRemoved, AfterFold
  <2>2. Len(journal.members) = 1
    BY <1>w, <2>1 DEF WriterSound, FoldingSound
  <2>3. WriterSound(w)'
    BY <2>1, <2>2, BoundsAssumption DEF WriterSound, ClearingSound, FoldingSound, LayeringSound, ReportSound
  <2> QED
    BY <2>1, <2>3, Unmoved, OneWriter
<1> QED
  BY <1>1, <1>2, <1>3, <1>4, <1>5

LEMMA LayeringSteps ==
    ASSUME Existing, Control, Whole, NEW w \in Writers,
           \/ ClearOrphan(w) \/ CreateLayer(w) \/ WriteLayer(w) \/ CommitLayer(w)
    PROVE  Whole'
<1> USE DEF Goto, localVars, histVars, Clearing, Seeding, Folding, Layering, Working, Holding
<1>w. WriterSound(w)
  BY DEF Whole
<1>p. /\ pc \in [Writers -> Points] /\ buf \in [Writers -> Contents]
  BY DEF Control, TypeOK
<1>s. pc[w] \in Working => state[w] = journal
  BY DEF Control, StateRead
<1>1. CASE ClearOrphan(w)
  <2>1. /\ pc[w] = "clearOrphan" /\ pc'[w] = "append" /\ journal' = journal /\ replacing' = replacing
        /\ disk' = Drop(LayerFile(journal))
        /\ \A v \in Writers : v # w => pc'[v] = pc[v]
    BY <1>1, <1>p, <1>s DEF ClearOrphan
  <2>2. SameChain
    BY <2>1, Names, OtherFile
  <2>3. LayerFile(journal)' = LayerFile(journal) /\ LayerFile(journal) \notin DOMAIN disk'
    BY <2>1 DEF Drop, LayerFile
  <2>4. WriterSound(w)'
    BY <1>w, <2>1, <2>3 DEF WriterSound, ClearingSound, FoldingSound, LayeringSound, ReportSound
  <2> QED
    BY <2>1, <2>2, <2>4, Beside, OneWriter
<1>2. CASE CreateLayer(w)
  <2>1. /\ pc[w] = "append" /\ pc'[w] = "writeLayer" /\ journal' = journal /\ replacing' = replacing /\ job' = job
        /\ Readable(journal.members)
        /\ buf'[w] = WithLayer(Identity(journal.members), job[w].note)
        /\ disk' = Put(LayerFile(journal), Torn)
        /\ \A v \in Writers : v # w => pc'[v] = pc[v]
    BY <1>2, <1>p, <1>s DEF CreateLayer, CanAppend
  <2>2. SameChain
    BY <2>1, Names, OtherFile
  <2>3. WriterSound(w)'
    BY <1>w, <2>1, <2>2, ChainKept DEF WriterSound, ClearingSound, FoldingSound, LayeringSound, ReportSound
  <2> QED
    BY <2>1, <2>2, <2>3, Beside, OneWriter
<1>3. CASE WriteLayer(w)
  <2>1. /\ pc[w] = "writeLayer" /\ pc'[w] = "commitLayer" /\ journal' = journal /\ replacing' = replacing
        /\ job' = job /\ buf' = buf
        /\ disk' = Put(LayerFile(journal), buf[w])
        /\ \A v \in Writers : v # w => pc'[v] = pc[v]
    BY <1>3, <1>p, <1>s DEF WriteLayer
  <2>2. SameChain
    BY <2>1, Names, OtherFile
  <2>3. LayerFile(journal)' = LayerFile(journal)
        /\ LayerFile(journal) \in DOMAIN disk' /\ disk'[LayerFile(journal)] = buf[w]
    BY <2>1 DEF Put, LayerFile
  <2>4. WriterSound(w)'
    BY <1>w, <2>1, <2>2, <2>3, ChainKept DEF WriterSound, ClearingSound, FoldingSound, LayeringSound, ReportSound
  <2> QED
    BY <2>1, <2>2, <2>4, Beside, OneWriter
<1>4. CASE CommitLayer(w)
  <2> DEFINE f == LayerFile(journal)
             id == Identity(journal.members)
             n == Len(journal.members)
  <2>1. /\ pc[w] = "commitLayer" /\ pc'[w] = "report" /\ disk' = disk /\ ~replacing'
        /\ job' = job /\ buf' = buf
        /\ journal' = [gen |-> journal.gen, members |-> Append(journal.members, f)]
        /\ \A v \in Writers : v # w => pc'[v] = pc[v]
    BY <1>4, <1>p, <1>s DEF CommitLayer
  <2>2. /\ Readable(journal.members) /\ n <= MaxDepth
        /\ buf[w] = WithLayer(id, job[w].note)
        /\ f \in DOMAIN disk /\ disk[f] = buf[w]
    BY <1>w, <2>1 DEF WriterSound, LayeringSound
  <2>3. job[w].note \in Notes
    BY <2>1, JobTypes DEF Control, JobFits, JobFit
  <2>4. id \in Contents /\ Len(id) = n /\ n \in Nat \ {0}
    BY <2>2, HeadFacts, Names
  <2>5. /\ Len(disk[f]) = n + 1 /\ Front(disk[f]) = id
        /\ RecordsOf(disk[f]) = Append(RecordsOf(id), job[w].note)
    BY <2>2, <2>3, <2>4, WithLayerFacts
  <2>6. /\ Len(journal'.members) = n + 1
        /\ \A i \in 1 .. n : journal'.members[i] = journal.members[i]
        /\ journal'.members[n + 1] = f
        /\ DOMAIN journal'.members = 1 .. n + 1
        /\ journal'.members # <<>>
    <3>1. f \in Files
      BY Names DEF Files
    <3> QED
      BY <2>1, <3>1, Names, AppendProperties, LenProperties
  <2>7. Readable(journal.members)'
    <3>1. /\ \A i \in 1 .. n : journal.members[i] \in DOMAIN disk /\ Len(disk[journal.members[i]]) = i
          /\ \A i \in 1 .. n - 1 : disk[journal.members[i]] = Front(disk[journal.members[i + 1]])
          /\ disk[journal.members[n]] = id
      BY <2>2, Names DEF Readable, Identity, Last
    <3> HIDE DEF n, f, id
    <3>2. ASSUME NEW i \in 1 .. n + 1
          PROVE  journal'.members[i] \in DOMAIN disk /\ Len(disk[journal'.members[i]]) = i
      <4>1. CASE i \in 1 .. n
        BY <2>6, <3>1, <4>1
      <4>2. CASE i = n + 1
        BY <2>2, <2>5, <2>6, <4>2
      <4> QED
        BY <2>4, <4>1, <4>2
    <3>3. ASSUME NEW i \in 1 .. n
          PROVE  disk[journal'.members[i]] = Front(disk[journal'.members[i + 1]])
      <4>1. CASE i \in 1 .. n - 1
        <5>1. i + 1 \in 1 .. n
          BY <2>4, <4>1
        <5> QED
          BY <2>6, <3>1, <4>1, <5>1
      <4>2. CASE i = n
        BY <2>5, <2>6, <3>1, <4>2
      <4> QED
        BY <2>4, <4>1, <4>2
    <3>4. 1 .. Len(journal'.members) - 1 = 1 .. n /\ disk' = disk
      BY <2>1, <2>4, <2>6
    <3> QED
      BY <2>6, <3>2, <3>3, <3>4 DEF Readable
  <2>8. ChainIntact' /\ DepthBounded' /\ Started'
    BY <2>1, <2>2, <2>4, <2>6, <2>7, BoundsAssumption DEF ChainIntact, DepthBounded, Started
  <2>9. Identity(journal.members)' = buf[w]
    BY <2>1, <2>2, <2>6 DEF Identity, Last
  <2>10. RowBase(buf[w]) = Len(RecordsOf(id)) /\ RecordsOf(id) \in Lists
    BY <2>2, <2>4, <2>5, ContentsFacts DEF RowBase
  <2>11. /\ Len(RecordsOf(buf[w])) = RowBase(buf[w]) + 1
         /\ RecordsOf(buf[w])[RowBase(buf[w]) + 1] = job[w].note
    BY <2>2, <2>3, <2>5, <2>10, AppendProperties DEF Lists
  <2>12. WriterSound(w)'
    BY <2>1, <2>9, <2>11 DEF WriterSound, ClearingSound, FoldingSound, LayeringSound, ReportSound
  <2> QED
    BY <2>1, <2>8, <2>12, OneWriter
<1> QED
  BY <1>1, <1>2, <1>3, <1>4

\* Every step leaves the chain whole.
LEMMA WholeStep == Existing /\ Control /\ Whole /\ [Next]_vars => Whole'
<1> SUFFICES ASSUME Existing, Control, Whole, [Next]_vars PROVE Whole'
  OBVIOUS
<1> USE DEF Goto, localVars, histVars
<1>p. pc \in [Writers -> Points] /\ journal \in States
  BY DEF Control, TypeOK, Named
<1>1. CASE UNCHANGED vars
  BY <1>1, Unmoved DEF vars, Whole
<1>2. ASSUME NEW w \in Writers, NEW operation, NEW to \in {"lock", "lookAgain"}, Begin(w, operation, to) PROVE Whole'
  <2>1. \A v \in Writers : v # w => pc'[v] = pc[v] /\ job'[v] = job[v]
    BY <1>2, <1>p DEF Begin, Control, TypeOK
  <2> QED
    BY <1>2, <1>p, <2>1, LeavesWhole DEF Begin, Clearing, Seeding, Folding, Layering, Working, Holding
<1>3. ASSUME NEW w \in Writers, Done(w), UNCHANGED <<journal, disk, replacing>> PROVE Whole'
  <2>1. /\ pc'[w] \notin Holding
        /\ \A v \in Writers : v # w => /\ pc'[v] = pc[v] /\ job'[v] = job[v]
                                       /\ buf'[v] = buf[v] /\ todo'[v] = todo[v]
    BY <1>3 DEF Done, Clearing, Seeding, Folding, Layering, Working, Holding, Control, TypeOK
  <2> QED
    BY <1>3, <2>1, LeavesWhole
<1>4. ASSUME NEW w \in Writers, LookAgain(w) PROVE Whole'
  <2>1. pc'[w] \notin Holding
    BY <1>4, <1>p DEF LookAgain, Clearing, Seeding, Folding, Layering, Working, Holding, Control, Named
  <2> QED
    BY <1>4, <1>p, <2>1, LeavesWhole DEF LookAgain
<1>5. ASSUME NEW w \in Writers, Enter(w) PROVE Whole'
  <2>1. /\ pc'[w] \in {"listOld", "readState"} /\ UNCHANGED <<journal, disk, replacing>>
        /\ \A v \in Writers : v # w => /\ pc'[v] = pc[v] /\ job'[v] = job[v]
                                       /\ buf'[v] = buf[v] /\ todo'[v] = todo[v]
    BY <1>5, <1>p DEF Enter
  <2>2. WriterSound(w)'
    BY <2>1 DEF WriterSound, ClearingSound, FoldingSound, LayeringSound, ReportSound,
                Clearing, Seeding, Folding, Layering, Working, Holding
  <2> QED
    BY <2>1, <2>2, Unmoved DEF Whole
<1>6. ASSUME NEW w \in Writers, ReadState(w) PROVE Whole'
  <2>1. /\ pc[w] = "readState" /\ UNCHANGED <<journal, disk, replacing>>
        /\ \A v \in Writers : v # w => pc'[v] = pc[v]
        /\ \/ pc'[w] = "compact" /\ Len(journal.members) > 1
           \/ pc'[w] = "end"
           \/ pc'[w] = "clearOrphan" /\ Len(journal.members) <= MaxDepth
    BY <1>6, <1>p, Names, BoundsAssumption DEF ReadState, AfterFold
  <2>2. WriterSound(w)'
    BY <2>1 DEF WriterSound, ClearingSound, FoldingSound, LayeringSound, ReportSound,
                Clearing, Seeding, Folding, Layering, Working, Holding
  <2>3. pc[w] \in Holding
    BY <2>1 DEF Holding
  <2> QED
    BY <2>1, <2>2, <2>3, Unmoved, OneWriter
<1>7. ASSUME NEW w \in Writers, Step(w) PROVE Whole'
  BY <1>7, <1>3, <1>4, <1>5, <1>6, ClearingSteps, FoldingSteps, LayeringSteps DEF Step, Report, End
<1> QED
  BY <1>1, <1>2, <1>3, <1>7 DEF Next, BeginAppend, BeginCompact, BeginInit, Abort

-----------------------------------------------------------------------------
(***************************************************************************)
(* What a step does to the log.                                            *)
(***************************************************************************)

\* Whenever the chain opens, it holds the records that are shown.
LEMMA ShownFacts ==
    ASSUME Control, Whole
    PROVE  /\ Shown \in Lists
           /\ Readable(journal.members) => Shown = Records(journal.members)
<1>1. journal # None
  BY DEF Control, Named
<1>2. <<Seed>> \in Lists
  BY DEF Lists
<1>3. CASE ~replacing
  <2>1. Readable(journal.members)
    BY <1>1, <1>3 DEF Whole, ChainIntact
  <2> QED
    BY <1>1, <1>3, <2>1, HeadFacts DEF Shown
<1>4. ASSUME replacing, Readable(journal.members) PROVE Records(journal.members) = <<Seed>>
  <2>1. journal.members = <<Base(1)>> /\ disk[Base(1)] = <<<<Seed>>>>
    BY <1>4 DEF Whole, Started
  <2> QED
    BY <2>1 DEF Records, RecordsOf, Identity, Last
<1> QED
  BY <1>2, <1>3, <1>4 DEF Shown

\* Most steps do not show.
LEMMA ShownKept ==
    ASSUME Control, Whole, SameChain, replacing' = replacing
    PROVE  Shown' = Shown
<1>1. journal # None /\ journal' = journal
  BY DEF Control, Named, SameChain
<1>2. CASE ~replacing
  <2>1. Readable(journal.members)
    BY <1>1, <1>2 DEF Whole, ChainIntact
  <2> QED
    BY <1>1, <1>2, <2>1, ChainKept DEF Shown
<1> QED
  BY <1>1, <1>2 DEF Shown

Hidden == UNCHANGED <<Shown, reported>>

LEMMA FoldHidden == ASSUME Control, Whole, NEW w \in Writers, CommitBase(w) PROVE Hidden
<1> DEFINE b == Base(journal.gen + 1)
<1>1. pc[w] = "commitBase" /\ state[w] = journal
  BY DEF CommitBase, Goto, Control, StateRead, Working, Folding
<1>2. /\ disk' = disk /\ reported' = reported /\ replacing' = replacing
      /\ journal' = [gen |-> journal.gen + 1, members |-> <<b>>]
  BY <1>1 DEF CommitBase, histVars
<1>3. Readable(journal.members) /\ Len(journal.members) > 1 /\ disk[b] = <<Records(journal.members)>>
  BY <1>1 DEF Whole, WriterSound, FoldingSound, Folding
<1>4. Records(journal.members)' = Records(journal.members)
  <2>1. Identity(journal.members)' = disk[b]
    BY <1>2 DEF Identity, Last
  <2> QED
    BY <1>3, <2>1 DEF Records, RecordsOf, Last
<1>5. journal # None /\ journal' # None
  <2>1. [gen |-> journal.gen + 1, members |-> <<b>>] \in States
    BY Names DEF States, Base, Files
  <2> QED
    BY <1>2, <2>1, StatesAreSome DEF Control, Named
<1>6. ~replacing
  <2>1. Len(<<Base(1)>>) = 1
    OBVIOUS
  <2>2. Len(journal.members) # 1
    BY <1>3, Names
  <2>3. replacing => journal.members = <<Base(1)>>
    BY <1>3 DEF Whole, Started
  <2> QED
    BY <2>1, <2>2, <2>3
<1> QED
  BY <1>2, <1>4, <1>5, <1>6 DEF Hidden, Shown

\* A committed layer puts its note at the end.
Writes(w) ==
    /\ pc[w] = "commitLayer" /\ pc'[w] = "report"
    /\ job[w].note \in Notes
    /\ Shown' = Append(Shown, job[w].note)
    /\ reported' = reported

LEMMA LayerShows == ASSUME Control, Whole, Whole', NEW w \in Writers, CommitLayer(w) PROVE Writes(w)
<1>1. pc[w] = "commitLayer" /\ pc'[w] = "report" /\ state[w] = journal
  BY DEF CommitLayer, Goto, Control, TypeOK, StateRead, Working, Layering
<1>2. /\ disk' = disk /\ job' = job /\ buf' = buf /\ reported' = reported /\ ~replacing'
  BY DEF CommitLayer, localVars
<1>3. job[w].note \in Notes
  BY <1>1, JobTypes DEF Control, JobFits, JobFit, Layering
<1>4. /\ Readable(journal.members)
      /\ buf[w] = WithLayer(Identity(journal.members), job[w].note)
  BY <1>1 DEF Whole, WriterSound, LayeringSound
<1>5. RecordsOf(buf[w]) = Append(Records(journal.members), job[w].note)
  BY <1>3, <1>4, HeadFacts, WithLayerFacts DEF Records
<1>6. Identity(journal.members)' = buf[w]
  BY <1>1, <1>2 DEF Whole, WriterSound, ReportSound
<1>7. journal' # None
  <2>1. journal' = [gen |-> journal.gen, members |-> Append(journal.members, LayerFile(journal))]
    BY <1>1 DEF CommitLayer
  <2>2. [gen |-> journal.gen, members |-> Append(journal.members, LayerFile(journal))] \in States
    BY Names DEF States, Files
  <2>3. journal' \in States
    BY <2>1, <2>2, Zenon
  <2> QED
    BY <2>3, StatesAreSome
<1>8. Shown' = RecordsOf(buf[w])
  BY <1>2, <1>6, <1>7 DEF Shown, Records
<1> QED
  BY <1>1, <1>2, <1>3, <1>4, <1>5, <1>8, ShownFacts DEF Writes

\* A replacement begins, goes on or is done.
Replaces == Shown' = <<Seed>> /\ reported' = {} /\ (replacing \/ replacing')

LEMMA SeedShows == ASSUME Control, Whole, NEW w \in Writers, CommitSeed(w) PROVE Replaces
<1>1. pc[w] = "commitSeed" /\ job[w].force
  BY DEF CommitSeed, Control, JobFits, JobFit, Seeding
<1>2. /\ disk' = disk /\ journal' = [gen |-> 1, members |-> <<Base(1)>>]
      /\ reported' = {} /\ ~replacing'
  BY <1>1 DEF CommitSeed
<1>3. disk[Base(1)] = <<<<Seed>>>> /\ replacing
  BY <1>1 DEF Whole, WriterSound, ClearingSound, Seeding
<1>4. Records(journal.members)' = <<Seed>>
  <2>1. Identity(journal.members)' = disk[Base(1)]
    BY <1>2 DEF Identity, Last
  <2> QED
    BY <1>3, <2>1 DEF Records, RecordsOf, Last
<1>5. journal' # None
  <2>1. [gen |-> 1, members |-> <<Base(1)>>] \in States
    BY DEF States, Base, Files
  <2> QED
    BY <1>2, <2>1, StatesAreSome
<1> QED
  BY <1>2, <1>3, <1>4, <1>5 DEF Replaces, Shown

LEMMA ClearingShows == ASSUME Control, Whole, NEW w \in Writers, ClearOldFile(w) PROVE Hidden \/ Replaces
<1>1. pc[w] = "clearOld" /\ journal' = journal
  BY DEF ClearOldFile
<1>2. job[w].force
  BY <1>1 DEF Control, JobFits, JobFit, Clearing
<1>3. PICK f \in todo[w] :
        /\ disk' = Drop(f)
        /\ IF f \in ToSet(journal.members)
           THEN reported' = {} /\ replacing' = TRUE
           ELSE UNCHANGED histVars
  BY <1>2 DEF ClearOldFile
<1>4. CASE f \in ToSet(journal.members)
  BY <1>3, <1>4 DEF Replaces, Shown
<1>5. CASE f \notin ToSet(journal.members)
  BY <1>1, <1>3, <1>5, OtherFile, ShownKept DEF Hidden, histVars
<1> QED
  BY <1>4, <1>5

\* A note is reported where it is.
Reports(w) ==
    /\ Shown' = Shown
    /\ reported' = reported \cup {<<job[w].note, RowBase(buf[w])>>}
    /\ job[w].note \in Notes
    /\ RowBase(buf[w]) \in 0 .. Len(Shown)
    /\ Log!HasId(job[w].note, RowBase(buf[w]))

LEMMA ReportShows == ASSUME Control, Whole, NEW w \in Writers, Report(w) PROVE Reports(w)
<1>1. /\ pc[w] = "report" /\ journal' = journal /\ disk' = disk /\ replacing' = replacing
      /\ reported' = reported \cup {<<job[w].note, RowBase(buf[w])>>}
  BY DEF Report
<1>2. /\ ~replacing
      /\ Identity(journal.members) = buf[w]
      /\ Len(RecordsOf(buf[w])) = RowBase(buf[w]) + 1
      /\ RecordsOf(buf[w])[RowBase(buf[w]) + 1] = job[w].note
  BY <1>1 DEF Whole, WriterSound, ReportSound
<1>3. Shown = RecordsOf(buf[w])
  BY <1>2 DEF Shown, Records, Control, Named
<1>4. job[w].note \in Notes
  BY <1>1, JobTypes DEF Control, JobFits, JobFit
<1>5. RowBase(buf[w]) \in Nat
  BY RowBaseType DEF Control, TypeOK
<1>6. Shown' = Shown
  BY <1>1 DEF Shown, Records, Identity
<1> QED
  BY <1>1, <1>2, <1>3, <1>4, <1>5, <1>6 DEF Reports, Log!HasId

\* The steps that readers of the journal see are those of a log.
LEMMA ShownStep ==
    ASSUME Existing, Control, Whole, Whole', [Next]_vars
    PROVE  \/ Hidden
           \/ Replaces
           \/ \E w \in Writers : Writes(w)
           \/ \E w \in Writers : Reports(w)
<1>1. ASSUME UNCHANGED <<journal, disk, replacing, reported>> PROVE Hidden
  BY <1>1 DEF Hidden, Shown, Records, Identity
<1>2. CASE UNCHANGED vars
  BY <1>1, <1>2 DEF vars
<1>3. ASSUME NEW w \in Writers, Step(w)
      PROVE  Hidden \/ Replaces \/ Writes(w) \/ Reports(w)
  <2>1. CASE CommitSeed(w)
    BY <2>1, SeedShows
  <2>2. CASE CreateSeedFile(w) \/ WriteSeedFile(w)
    <3>1. replacing
      BY <2>2 DEF CreateSeedFile, WriteSeedFile, Goto, Whole, WriterSound, ClearingSound, Seeding
    <3> QED
      BY <2>2, <3>1 DEF CreateSeedFile, WriteSeedFile, Hidden, Shown, histVars
  <2>3. CASE ClearOldFile(w)
    BY <2>3, ClearingShows
  <2>4. CASE FoldChain(w) \/ WriteBase(w) \/ ClearOrphan(w) \/ CreateLayer(w) \/ WriteLayer(w)
    <3>1. state[w] = journal
      BY <2>4 DEF FoldChain, WriteBase, ClearOrphan, CreateLayer, WriteLayer, Goto,
                  Control, StateRead, Working, Folding, Layering
    <3>2. SameChain
      BY <2>4, <3>1, Names, OtherFile DEF FoldChain, WriteBase, ClearOrphan, CreateLayer, WriteLayer
    <3> QED
      BY <2>4, <3>2, ShownKept DEF FoldChain, WriteBase, ClearOrphan, CreateLayer, WriteLayer, Hidden, histVars
  <2>5. CASE RemoveOld(w)
    <3>1. todo[w] \cap ToSet(journal.members) = {}
      BY <2>5 DEF RemoveOld, Whole, WriterSound, FoldingSound
    <3>2. SameChain
      BY <2>5, <3>1, OtherFile DEF RemoveOld
    <3> QED
      BY <2>5, <3>2, ShownKept DEF RemoveOld, Hidden, histVars
  <2>6. CASE CommitBase(w)
    BY <2>6, FoldHidden
  <2>7. CASE CommitLayer(w)
    BY <2>7, LayerShows
  <2>8. CASE Report(w)
    BY <2>8, ReportShows
  <2>9. CASE \/ LookAgain(w) \/ ListOldFiles(w) \/ OldFilesCleared(w) \/ Enter(w) \/ ReadState(w)
             \/ OldRemoved(w) \/ End(w)
    BY <1>1, <2>9 DEF LookAgain, ListOldFiles, OldFilesCleared, Enter, ReadState, OldRemoved, End, histVars
  <2> QED
    BY <1>3, <2>1, <2>2, <2>3, <2>4, <2>5, <2>6, <2>7, <2>8, <2>9 DEF Step
<1>4. ASSUME NEW w \in Writers, \/ BeginAppend(w) \/ BeginCompact(w) \/ Abort(w)
                               \/ \E force \in Forces : BeginInit(w, force)
      PROVE  Hidden
  BY <1>1, <1>4 DEF BeginAppend, BeginCompact, BeginInit, Begin, Abort, histVars
<1> QED
  BY <1>2, <1>3, <1>4 DEF Next

\* A note is pending because it was, or because its operation has just begun.
LEMMA PendingStep ==
    ASSUME Existing, Control, [Next]_vars
    PROVE  /\ ops \in Nat /\ ops' \in {ops, ops + 1}
           /\ \A w \in Writers : Pending(w)' =>
                \/ Pending(w) /\ job'[w] = job[w]
                \/ job'[w].note = <<w, ops>> /\ job'[w].note # Seed
<1> USE DEF Goto, localVars, histVars
<1>p. /\ pc \in [Writers -> Points] /\ job \in [Writers -> Jobs \cup {None}] /\ ops \in Nat
  BY BoundsAssumption DEF Control, TypeOK
<1>1. CASE UNCHANGED vars
  BY <1>p, <1>1 DEF vars, Pending
<1>2. ASSUME NEW w \in Writers, BeginAppend(w)
      PROVE  /\ ops' \in {ops, ops + 1}
             /\ \A v \in Writers : Pending(v)' =>
                  \/ Pending(v) /\ job'[v] = job[v]
                  \/ job'[v].note = <<v, ops>> /\ job'[v].note # Seed
  <2>1. <<w, ops>> # Seed
    BY SeedAssumption DEF Notes, Control, TypeOK
  <2> QED
    BY <1>p, <1>2, <2>1 DEF BeginAppend, Begin, Pending
<1>3. ASSUME NEW w \in Writers, BeginCompact(w) \/ \E force \in Forces : BeginInit(w, force)
      PROVE  /\ ops' \in {ops, ops + 1}
             /\ \A v \in Writers : Pending(v)' => Pending(v) /\ job'[v] = job[v]
  BY <1>p, <1>3 DEF BeginCompact, BeginInit, Begin, Pending
<1>4. ASSUME NEW w \in Writers, Done(w), ops' = ops
      PROVE  \A v \in Writers : Pending(v)' => Pending(v) /\ job'[v] = job[v]
  BY <1>p, <1>4 DEF Done, Pending
<1>5. ASSUME NEW w \in Writers, Step(w)
      PROVE  ops' = ops /\ \A v \in Writers : Pending(v)' => Pending(v) /\ job'[v] = job[v]
  <2>1. CASE CommitSeed(w) \/ Report(w) \/ End(w)
    BY <1>4, <2>1 DEF CommitSeed, Report, End
  <2>2. CASE LookAgain(w) BY <1>p, <2>2 DEF LookAgain, Pending
  <2>3. CASE ListOldFiles(w) BY <1>p, <2>3 DEF ListOldFiles, Pending
  <2>4. CASE ClearOldFile(w) BY <1>p, <2>4 DEF ClearOldFile, Pending
  <2>5. CASE OldFilesCleared(w) BY <1>p, <2>5 DEF OldFilesCleared, Pending
  <2>6. CASE CreateSeedFile(w) BY <1>p, <2>6 DEF CreateSeedFile, Pending
  <2>7. CASE WriteSeedFile(w) BY <1>p, <2>7 DEF WriteSeedFile, Pending
  <2>8. CASE Enter(w) BY <1>p, <2>8 DEF Enter, Pending
  <2>9. CASE ReadState(w) BY <1>p, <2>9 DEF ReadState, Pending
  <2>10. CASE FoldChain(w) BY <1>p, <2>10 DEF FoldChain, Pending
  <2>11. CASE WriteBase(w) BY <1>p, <2>11 DEF WriteBase, Pending
  <2>12. CASE CommitBase(w) BY <1>p, <2>12 DEF CommitBase, Pending
  <2>13. CASE RemoveOld(w) BY <1>p, <2>13 DEF RemoveOld, Pending
  <2>14. CASE OldRemoved(w) BY <1>p, <2>14 DEF OldRemoved, Pending
  <2>15. CASE ClearOrphan(w) BY <1>p, <2>15 DEF ClearOrphan, Pending
  <2>16. CASE CreateLayer(w) BY <1>p, <2>16 DEF CreateLayer, Pending
  <2>17. CASE WriteLayer(w) BY <1>p, <2>17 DEF WriteLayer, Pending
  <2>18. CASE CommitLayer(w) BY <1>p, <2>18 DEF CommitLayer, Pending
  <2> QED
    BY <1>5, <2>1, <2>2, <2>3, <2>4, <2>5, <2>6, <2>7, <2>8, <2>9, <2>10, <2>11, <2>12, <2>13,
       <2>14, <2>15, <2>16, <2>17, <2>18 DEF Step
<1>6. ASSUME NEW w \in Writers, Abort(w)
      PROVE  ops' = ops /\ \A v \in Writers : Pending(v)' => Pending(v) /\ job'[v] = job[v]
  BY <1>4, <1>6 DEF Abort
<1> QED
  BY <1>p, <1>1, <1>2, <1>3, <1>5, <1>6 DEF Next

\* A pending note is a note, numbered below ops.
LEMMA PendingFacts ==
    ASSUME Control, NEW w \in Writers, Pending(w)
    PROVE  /\ job[w].note \in Notes
           /\ job[w].note[1] = w
           /\ job[w].note[2] \in Nat /\ job[w].note[2] < ops
           /\ job[w].note # Seed
BY JobTypes, SeedAssumption DEF Control, JobFits, JobFit, Pending, Notes

LEMMA FreshStep == Existing /\ IInv /\ Control' /\ Whole' /\ [Next]_vars => Fresh'
<1> SUFFICES ASSUME Existing, IInv, Control', Whole', [Next]_vars PROVE Fresh'
  OBVIOUS
<1>1. Control /\ Whole /\ Fresh
  BY DEF IInv
<1>2. /\ ops \in Nat /\ ops' \in {ops, ops + 1}
      /\ \A w \in Writers : Pending(w)' =>
           \/ Pending(w) /\ job'[w] = job[w]
           \/ job'[w].note = <<w, ops>> /\ job'[w].note # Seed
  BY <1>1, PendingStep
<1>3. \A i \in 1 .. Len(Shown) : Shown[i] = Seed \/ Shown[i][2] \in 0 .. ops - 1
  <2>1. Shown \in Lists
    BY <1>1, ShownFacts
  <2>2. \A i \in 1 .. Len(Shown) : Shown[i] \in Notes \cup {Seed}
    BY <2>1, ElementOfSeq DEF Lists
  <2> QED
    BY <1>1, <1>2, <2>2 DEF Fresh, Notes
<1>4. CASE Shown' = Shown
  <2>1. \A i \in 1 .. Len(Shown) : Shown[i] # Seed => Shown[i][2] < ops'
    BY <1>2, <1>3
  <2>2. ASSUME NEW w \in Writers, Pending(w)', NEW i \in 1 .. Len(Shown) PROVE Shown[i] # job'[w].note
    <3>1. CASE Pending(w) /\ job'[w] = job[w]
      BY <1>1, <3>1 DEF Fresh
    <3>2. CASE job'[w].note = <<w, ops>> /\ job'[w].note # Seed
      <4>1. job'[w].note[2] = ops
        BY <3>2
      <4>2. CASE Shown[i] = Seed
        BY <3>2, <4>2
      <4>3. CASE Shown[i][2] \in 0 .. ops - 1
        <5>1. Shown[i][2] # ops
          BY <1>2, <4>3
        <5> QED
          BY <4>1, <5>1
      <4> QED
        BY <1>3, <2>2, <4>2, <4>3
    <3> QED
      BY <1>2, <2>2, <3>1, <3>2
  <2> QED
    BY <1>4, <2>1, <2>2 DEF Fresh
<1>5. CASE Shown' = <<Seed>>
  BY <1>1, <1>2, <1>5, PendingFacts DEF Fresh
<1>6. ASSUME NEW w \in Writers, Writes(w) PROVE Fresh'
  <2> DEFINE n == job[w].note
  <2>1. /\ Pending(w) /\ ~Pending(w)'
    BY <1>1, <1>6 DEF Writes, Pending, Control, JobFits, JobFit, Layering
  <2>2. n \in Notes /\ n[1] = w /\ n[2] \in Nat /\ n[2] < ops
    BY <1>1, <2>1, PendingFacts
  <2>3. /\ Len(Shown') = Len(Shown) + 1
        /\ \A i \in 1 .. Len(Shown) : Shown'[i] = Shown[i]
        /\ Shown'[Len(Shown) + 1] = n
        /\ Len(Shown) \in Nat
    <3>1. Shown \in Lists
      BY <1>1, ShownFacts
    <3> QED
      BY <1>6, <2>2, <3>1, AppendProperties, LenProperties DEF Writes, Lists
  <2> HIDE DEF n
  <2>4. \A i \in 1 .. Len(Shown') : i \in 1 .. Len(Shown) \/ i = Len(Shown) + 1
    BY <2>3
  <2>5. \A i \in 1 .. Len(Shown') : Shown'[i] # Seed => Shown'[i][2] < ops'
    BY <1>2, <1>3, <2>2, <2>3, <2>4
  <2>6. ASSUME NEW v \in Writers, Pending(v)', NEW i \in 1 .. Len(Shown') PROVE Shown'[i] # job'[v].note
    <3>1. CASE Pending(v) /\ job'[v] = job[v]
      <4>1. job[v].note[1] = v /\ v # w
        BY <1>1, <2>1, <2>6, <3>1, PendingFacts
      <4>2. i \in 1 .. Len(Shown) => Shown[i] # job[v].note
        BY <1>1, <3>1 DEF Fresh
      <4> QED
        BY <2>2, <2>3, <2>4, <3>1, <4>1, <4>2
    <3>2. CASE job'[v].note = <<v, ops>> /\ job'[v].note # Seed
      <4>1. job'[v].note[2] = ops
        BY <3>2
      <4>2. Shown'[i] = Seed \/ Shown'[i][2] \in 0 .. ops - 1
        BY <1>2, <1>3, <2>2, <2>3, <2>4
      <4>3. CASE Shown'[i] = Seed
        BY <3>2, <4>3
      <4>4. CASE Shown'[i][2] \in 0 .. ops - 1
        <5>1. Shown'[i][2] # ops
          BY <1>2, <4>4
        <5> QED
          BY <4>1, <5>1
      <4> QED
        BY <4>2, <4>3, <4>4
    <3> QED
      BY <1>2, <2>6, <3>1, <3>2
  <2> QED
    BY <2>5, <2>6 DEF Fresh
<1> QED
  BY <1>1, <1>4, <1>5, <1>6, ShownStep DEF Hidden, Replaces, Reports

-----------------------------------------------------------------------------
(***************************************************************************)
(* The theorems.                                                           *)
(***************************************************************************)

LEMMA InitShown == Existing /\ Init => Shown = <<Seed>>
<1> SUFFICES ASSUME Existing, Init PROVE Shown = <<Seed>>
  OBVIOUS
<1> DEFINE s == [gen |-> 1, members |-> <<Base(1)>>]
<1>1. journal = s /\ disk = [f \in {Base(1)} |-> <<<<Seed>>>>] /\ replacing = FALSE
  BY DEF Init
<1>2. s \in States
  BY DEF States, Base, Files
<1>3. journal # None /\ journal.members = <<Base(1)>>
  BY <1>1, <1>2, StatesAreSome
<1> QED
  BY <1>1, <1>3 DEF Shown, Records, RecordsOf, Identity, Last

LEMMA InitIInv == Existing /\ Init => IInv
<1> SUFFICES ASSUME Existing, Init PROVE IInv
  OBVIOUS
<1> DEFINE s == [gen |-> 1, members |-> <<Base(1)>>]
<1>1. /\ journal = s /\ disk = [f \in {Base(1)} |-> <<<<Seed>>>>]
      /\ holder = None /\ pc = [w \in Writers |-> "idle"] /\ job = [w \in Writers |-> None]
      /\ state = [w \in Writers |-> None] /\ buf = [w \in Writers |-> Torn]
      /\ todo = [w \in Writers |-> {}] /\ ops = 0 /\ reported = {} /\ replacing = FALSE
  BY DEF Init
<1>2. s \in States /\ Base(1) \in Files /\ <<<<Seed>>>> \in Contents /\ Torn \in Contents
  BY DEF States, Base, Files, Contents, Torn
<1>3. journal # None /\ journal.members = <<Base(1)>> /\ journal.gen = 1
  BY <1>1, <1>2, StatesAreSome
<1>4. TypeOK
  <2>1. /\ journal \in States \cup {None}
        /\ DOMAIN disk \subseteq Files
        /\ \A f \in DOMAIN disk : disk[f] \in Contents
    <3> HIDE DEF s
    <3> QED
      BY <1>1, <1>2
  <2>2. /\ holder \in Writers \cup {None}
        /\ pc \in [Writers -> Points]
        /\ job \in [Writers -> Jobs \cup {None}]
        /\ state \in [Writers -> States \cup {None}]
    BY <1>1 DEF Points
  <2>3. /\ buf \in [Writers -> Contents]
        /\ todo \in [Writers -> SUBSET Files]
        /\ ops \in 0 .. MaxOps
        /\ reported \subseteq Notes \X Nat
        /\ replacing \in BOOLEAN
    <3>1. /\ ops \in 0 .. MaxOps
          /\ reported \subseteq Notes \X Nat
      BY <1>1, BoundsAssumption
    <3>2. /\ buf \in [Writers -> Contents]
          /\ todo \in [Writers -> SUBSET Files]
          /\ replacing \in BOOLEAN
      <4> HIDE DEF s
      <4> QED
        BY <1>1, <1>2, Zenon
    <3> QED
      BY <3>1, <3>2
  <2> QED
    BY <2>1, <2>2, <2>3 DEF TypeOK
<1>5. Named
  BY <1>3 DEF Named, Base
<1>6. Locked /\ JobFits /\ StateRead
  BY <1>1 DEF Locked, JobFits, JobFit, StateRead, Clearing, Seeding, Folding, Layering, Working, Holding
<1>7. Readable(journal.members)
  BY <1>1, <1>3, BaseReadable
<1>8. ChainIntact /\ DepthBounded /\ Started
  BY <1>1, <1>3, <1>7, BoundsAssumption DEF ChainIntact, DepthBounded, Started
<1>9. \A w \in Writers : WriterSound(w)
  <2>1. \A w \in Writers : pc[w] \notin Holding
    BY <1>1 DEF Clearing, Seeding, Folding, Layering, Working, Holding
  <2> QED
    BY <2>1, NotHoldingSound
<1>10. Shown = <<Seed>>
  BY InitShown
<1>11. Fresh
  BY <1>1, <1>10 DEF Fresh, Pending
<1> QED
  BY <1>4, <1>5, <1>6, <1>8, <1>9, <1>11 DEF IInv, Control, Whole

LEMMA StepIInv == Existing /\ IInv /\ [Next]_vars => IInv'
<1> SUFFICES ASSUME Existing, IInv, [Next]_vars PROVE IInv'
  OBVIOUS
<1>1. Control'
  BY ControlStep DEF IInv
<1>2. Whole'
  BY WholeStep DEF IInv
<1> QED
  BY <1>1, <1>2, FreshStep DEF IInv

\* The inductive invariant of a directory that holds a journal.
THEOREM JournalInvariant == ASSUME Existing PROVE Spec => []IInv
<1>1. Init => IInv
  BY InitIInv
<1>2. IInv /\ [Next]_vars => IInv'
  BY StepIInv
<1> QED
  BY <1>1, <1>2, PTL DEF Spec

\* Whatever appendNote, compactJournal and a forced initJournal do at once and
\* wherever they are interrupted, what journal.json names is a whole chain of at
\* most MaxDepth layers, unless a replacement took it away.
THEOREM ChainStaysSound == ASSUME Existing PROVE Spec => []ChainSound
<1>1. IInv => ChainSound
  BY DEF IInv, Control, Whole, ChainSound
<1> QED
  BY <1>1, JournalInvariant, PTL

\* An interrupted write never blocks a later one: appendLayer finds no file in
\* its way and a chain that opens.
THEOREM NothingBlocks == ASSUME Existing PROVE Spec => []NothingInTheWay
<1>1. IInv => NothingInTheWay
  <2> SUFFICES ASSUME IInv, ~replacing, NEW w \in Writers, pc[w] = "append" PROVE CanAppend(w)
    BY DEF NothingInTheWay
  <2>1. state[w] = journal /\ journal # None
    BY DEF IInv, Control, StateRead, Named, Working, Layering
  <2>2. LayerFile(journal) \notin DOMAIN disk
    BY DEF IInv, Whole, WriterSound, LayeringSound
  <2> QED
    BY <2>1, <2>2 DEF CanAppend, IInv, Whole, ChainIntact
<1> QED
  BY <1>1, JournalInvariant, PTL

\* A journal is a log of notes that grows at its end, one note at a time, with
\* every note at the id its writer was told: folding, crashes and their repair
\* do not show.
THEOREM JournalIsALog == ASSUME Existing PROVE Spec => ImplementsNoteLog
<1>1. Init => Log!Init
  BY InitShown DEF Log!Init, Init
<1>2. IInv /\ IInv' /\ [Next]_vars => [Log!Next]_Log!logVars
  <2> SUFFICES ASSUME IInv, IInv', [Next]_vars PROVE [Log!Next]_Log!logVars
    OBVIOUS
  <2>1. CASE Hidden
    BY <2>1 DEF Hidden, Log!logVars
  <2>2. CASE Replaces
    BY <2>2 DEF Replaces, Log!Next, Log!Replace
  <2>3. ASSUME NEW w \in Writers, Writes(w) PROVE Log!Next
    <3>1. Pending(w)
      BY <2>3 DEF Writes, Pending, IInv, Control, JobFits, JobFit, Layering
    <3>2. \A i \in 1 .. Len(Shown) : Shown[i] # job[w].note
      BY <3>1 DEF IInv, Fresh
    <3>3. Log!Write(job[w].note)
      BY <2>3, <3>2 DEF Writes, Log!Write
    <3> QED
      BY <2>3, <3>3 DEF Writes, Log!Next
  <2>4. ASSUME NEW w \in Writers, Reports(w) PROVE Log!Next
    <3>1. Log!Report(job[w].note, RowBase(buf[w]))
      BY <2>4 DEF Reports, Log!Report
    <3> QED
      BY <2>4, <3>1 DEF Reports, Log!Next
  <2> QED
    BY <2>1, <2>2, <2>3, <2>4, ShownStep DEF IInv
<1> QED
  BY <1>1, <1>2, JournalInvariant, PTL DEF Spec, ImplementsNoteLog, Log!Spec

-----------------------------------------------------------------------------
(***************************************************************************)
(* The inductive invariant of servers.  A server opens files by name,      *)
(* without the lock.  That is safe because a name journal.json has had is  *)
(* never given to another file until a forced init: a file of that name is *)
(* gone or is the one that was meant.                                      *)
(***************************************************************************)

\* The log holds the note of a citation at its id.
Holds(records, r) == r[2] + 1 \in 1 .. Len(records) /\ records[r[2] + 1] = r[1]

Begins(records, longer) ==
    Len(records) <= Len(longer) /\ \A i \in 1 .. Len(records) : records[i] = longer[i]

\* The journal has not been replaced since journal.json was read for a chain.
InTime(chain) == chain.epoch = epoch /\ ~replacing

\* Its head is, or was, one of journal.json's: no file is to get its name.
Settled(members) ==
    /\ members # <<>>
    /\ Last(members)[1] < journal.gen \/ Last(members) \in ToSet(journal.members)

\* The operation of w may yet report its note.
Active(w) == pc[w] # "idle" /\ job[w].op = "append"

\* The note of a citation is a past one, that nobody is writing.
Closed(r) == r[1][2] < ops /\ \A w \in Writers : Active(w) => r[1] # job[w].note

\* What s must have seen when it answers.
Due(s) == call[s].before \cup call[s].cites

\* Citations are of the log.
Told ==
    /\ replacing => reported = {}
    /\ \A r \in reported : Holds(Shown, r)
    /\ \A r \in reported : Closed(r)

DueTold(s) == at[s] # "ready" => \A r \in Due(s) : Closed(r)

OpeningTyped(s) ==
    /\ mounted[s].epoch <= epoch
    /\ at[s] = "open" =>
        /\ opening[s] \in Chains
        /\ mounted[s].epoch <= opening[s].epoch /\ opening[s].epoch <= epoch

\* The chain that s has open.
MountedSound(s) == InTime(mounted[s]) =>
    /\ Settled(mounted[s].members)
    /\ Begins(View(s), Shown)
    /\ mounted[s].members = journal.members => mounted[s].contents = Identity(journal.members)

\* Records that s may come to serve.
Serves(s, records) ==
    /\ Begins(records, Shown)
    /\ mounted[s].epoch = epoch => Begins(View(s), records)
    /\ \A r \in Due(s) \cap reported : Holds(records, r)

\* The chain that s is opening.
OpeningSound(s) == at[s] = "open" /\ InTime(opening[s]) =>
    /\ Settled(opening[s].members)
    /\ Last(opening[s].members) \in DOMAIN disk =>
        Serves(s, RecordsOf(disk[Last(opening[s].members)]))
    /\ Len(opening[s].contents) = Len(opening[s].members) =>
        /\ Serves(s, RecordsOf(opening[s].contents))
        /\ opening[s].members = journal.members => opening[s].contents = Identity(journal.members)

\* A note that is still cited has been written since the last replacement.
CitesSound(s) == at[s] # "ready" =>
    /\ call[s].cites # {} => at[s] \in {"reopen", "open", "answer"}
    /\ call[s].cites \cap reported # {} =>
        /\ at[s] = "open" => opening[s].epoch = epoch
        /\ at[s] = "answer" /\ call[s].refreshed => mounted[s].epoch = epoch

AnswerSound(s) == at[s] = "answer" /\ call[s].refreshed /\ InTime(mounted[s]) =>
    \A r \in Due(s) \cap reported : Holds(View(s), r)

ServerSound(s) ==
    OpeningTyped(s) /\ DueTold(s) /\ MountedSound(s) /\ OpeningSound(s) /\ CitesSound(s) /\ AnswerSound(s)

SInv ==
    /\ ServerTypeOK
    /\ epoch \in Nat
    /\ Told
    /\ \A s \in Servers : ServerSound(s)

-----------------------------------------------------------------------------
(***************************************************************************)
(* What the writers' steps do, as far as a server can tell.                *)
(***************************************************************************)

LEMMA JournalStep ==
    ASSUME [ServerNext]_allVars
    PROVE  /\ [Next]_vars
           /\ epoch' = IF replacing' = replacing THEN epoch ELSE epoch + 1
<1>1. CASE UNCHANGED allVars
  BY <1>1 DEF allVars, serverVars, vars
<1>2. ASSUME NEW s \in Servers, ServerStep(s)
      PROVE  [Next]_vars /\ UNCHANGED <<replacing, epoch>>
  <2>1. s \in Writers
    BY ServersAssumption
  <2>2. CASE \E tool \in {"search", "write_note"} : Take(s, tool)
    BY <2>2 DEF Take, vars
  <2>3. CASE CompareMembers(s) \/ ReadMembers(s) \/ OpenMember(s) \/ Remount(s) \/ OpenFails(s) \/ Answer(s)
    BY <2>3 DEF CompareMembers, ReadMembers, OpenMember, Remount, OpenFails, Answer, vars
  <2>4. CASE StartWrite(s)
    BY <2>1, <2>4 DEF StartWrite, Next, BeginAppend, Begin, histVars
  <2>5. CASE NoteWritten(s)
    BY <2>1, <2>5 DEF NoteWritten, Next, Step, Report
  <2>6. CASE WriteFails(s)
    BY <2>1, <2>6 DEF WriteFails, Next, Abort, histVars
  <2> QED
    BY <1>2, <2>2, <2>3, <2>4, <2>5, <2>6 DEF ServerStep
<1>3. ASSUME NEW w \in Writers, WriterStep(w)
      PROVE  Next /\ epoch' = IF replacing' = replacing THEN epoch ELSE epoch + 1
  BY <1>3 DEF WriterStep, Next, Step
<1> QED
  BY <1>1, <1>2, <1>3 DEF ServerNext

\* What writers were told changes when one is told of its note, and when a
\* forced init starts the journal over.
LEMMA ReportedStep ==
    ASSUME IInv, [Next]_vars
    PROVE  \/ UNCHANGED reported /\ (replacing' => replacing)
           \/ reported' = {}
           \/ \E w \in Writers : Report(w)
<1>1. CASE UNCHANGED vars
  BY <1>1 DEF vars
<1>2. ASSUME NEW w \in Writers, \/ BeginAppend(w) \/ BeginCompact(w) \/ Abort(w)
                               \/ \E force \in Forces : BeginInit(w, force)
      PROVE  UNCHANGED <<reported, replacing>>
  BY <1>2 DEF BeginAppend, BeginCompact, BeginInit, Begin, Abort, histVars
<1>3. ASSUME NEW w \in Writers, Step(w)
      PROVE  \/ UNCHANGED reported /\ (replacing' => replacing)
             \/ reported' = {}
             \/ Report(w)
  <2>1. CASE \/ LookAgain(w) \/ ListOldFiles(w) \/ OldFilesCleared(w) \/ Enter(w) \/ ReadState(w)
             \/ OldRemoved(w) \/ End(w) \/ CreateSeedFile(w) \/ WriteSeedFile(w)
    BY <2>1 DEF LookAgain, ListOldFiles, OldFilesCleared, Enter, ReadState, OldRemoved, End,
                CreateSeedFile, WriteSeedFile, histVars
  <2>2. CASE \/ FoldChain(w) \/ WriteBase(w) \/ CommitBase(w) \/ RemoveOld(w) \/ ClearOrphan(w)
             \/ CreateLayer(w) \/ WriteLayer(w)
    BY <2>2 DEF FoldChain, WriteBase, CommitBase, RemoveOld, ClearOrphan, CreateLayer, WriteLayer, histVars
  <2>3. CASE CommitLayer(w)
    BY <2>3 DEF CommitLayer
  <2>4. CASE ClearOldFile(w)
    BY <2>4 DEF ClearOldFile, histVars
  <2>5. CASE CommitSeed(w)
    BY <2>5 DEF CommitSeed, histVars
  <2> QED
    BY <1>3, <2>1, <2>2, <2>3, <2>4, <2>5 DEF Step
<1> QED
  BY <1>1, <1>2, <1>3 DEF Next

\* An operation under way was, with the same note, or has just been numbered.
LEMMA ActiveStep ==
    ASSUME IInv, [Next]_vars
    PROVE  /\ ops \in Nat /\ ops' \in {ops, ops + 1}
           /\ \A w \in Writers : Active(w)' =>
                \/ Active(w) /\ job'[w] = job[w]
                \/ job'[w].note = <<w, ops>>
<1> USE DEF Goto, localVars, Active
<1>p. /\ pc \in [Writers -> Points] /\ job \in [Writers -> Jobs \cup {None}] /\ ops \in Nat
  BY BoundsAssumption DEF IInv, Control, TypeOK
<1>1. CASE UNCHANGED vars
  BY <1>p, <1>1 DEF vars
<1>2. ASSUME NEW w \in Writers, BeginAppend(w)
      PROVE  /\ ops' = ops + 1
             /\ \A v \in Writers : Active(v)' =>
                  \/ Active(v) /\ job'[v] = job[v]
                  \/ job'[v].note = <<v, ops>>
  BY <1>p, <1>2 DEF BeginAppend, Begin
<1>3. ASSUME NEW w \in Writers, BeginCompact(w) \/ \E force \in Forces : BeginInit(w, force)
      PROVE  /\ ops' = ops + 1
             /\ \A v \in Writers : Active(v)' => Active(v) /\ job'[v] = job[v]
  BY <1>p, <1>3 DEF BeginCompact, BeginInit, Begin
<1>4. ASSUME NEW w \in Writers, Step(w) \/ Abort(w)
      PROVE  /\ ops' = ops
             /\ \A v \in Writers : Active(v)' => Active(v) /\ job'[v] = job[v]
  <2>1. CASE Abort(w) \/ Report(w) \/ End(w) \/ CommitSeed(w)
    BY <1>p, <2>1 DEF Abort, Report, End, CommitSeed, Done
  <2>2. CASE \/ LookAgain(w) \/ ListOldFiles(w) \/ OldFilesCleared(w) \/ Enter(w) \/ ReadState(w)
             \/ OldRemoved(w) \/ CreateSeedFile(w) \/ WriteSeedFile(w) \/ ClearOldFile(w)
    BY <1>p, <2>2 DEF LookAgain, ListOldFiles, OldFilesCleared, Enter, ReadState, OldRemoved,
                CreateSeedFile, WriteSeedFile, ClearOldFile
  <2>3. CASE \/ FoldChain(w) \/ WriteBase(w) \/ CommitBase(w) \/ RemoveOld(w) \/ ClearOrphan(w)
             \/ CreateLayer(w) \/ WriteLayer(w) \/ CommitLayer(w)
    BY <1>p, <2>3 DEF FoldChain, WriteBase, CommitBase, RemoveOld, ClearOrphan, CreateLayer, WriteLayer, CommitLayer
  <2> QED
    BY <1>4, <2>1, <2>2, <2>3 DEF Step
<1> QED
  BY <1>p, <1>1, <1>2, <1>3, <1>4 DEF Next

\* Notes are told apart: one that has been cited is nobody's any more.
LEMMA ActiveNotes ==
    ASSUME IInv, NEW w \in Writers, Active(w)
    PROVE  job[w].note \in Notes /\ job[w].note[1] = w /\ job[w].note[2] < ops
BY JobTypes DEF IInv, Control, JobFits, JobFit, Active

LEMMA ClosedStep ==
    ASSUME IInv, [Next]_vars, NEW r \in Notes \X Nat, Closed(r)
    PROVE  Closed(r)'
<1>1. ops \in Nat /\ ops' \in {ops, ops + 1}
  BY ActiveStep
<1>2. r[1][2] \in Nat /\ r[1][2] < ops
  BY BoundsAssumption DEF Notes, Closed
<1>3. ASSUME NEW w \in Writers, Active(w)' PROVE r[1] # job'[w].note
  <2>1. CASE Active(w) /\ job'[w] = job[w]
    BY <2>1 DEF Closed
  <2>2. CASE job'[w].note = <<w, ops>>
    <3>1. job'[w].note[2] = ops
      BY <2>2
    <3>2. r[1][2] # ops
      BY <1>1, <1>2
    <3> QED
      BY <3>1, <3>2
  <2> QED
    BY <1>3, <2>1, <2>2, ActiveStep
<1>4. r[1][2] < ops'
  BY <1>1, <1>2
<1> QED
  BY <1>3, <1>4 DEF Closed

\* Having been told of its note, a writer no longer writes it.
LEMMA ReportCloses ==
    ASSUME IInv, NEW w \in Writers, Report(w), NEW r, r = <<job[w].note, RowBase(buf[w])>>
    PROVE  /\ pc[w] = "report" /\ Active(w) /\ r[1] = job[w].note
           /\ r \in Notes \X Nat
           /\ reported' = reported \cup {r}
           /\ Closed(r)'
           /\ Holds(Shown', r)
           /\ ~replacing
           /\ UNCHANGED <<replacing, journal, disk, Shown>>
<1>1. /\ pc[w] = "report" /\ pc' = [pc EXCEPT ![w] = "idle"] /\ job' = [job EXCEPT ![w] = None]
      /\ ops' = ops /\ reported' = reported \cup {r}
      /\ UNCHANGED <<replacing, journal, disk>>
  BY DEF Report, Done
<1>2. Active(w)
  BY <1>1 DEF Active, IInv, Control, JobFits, JobFit
<1>3. r[1] = job[w].note /\ r[1] \in Notes /\ r[1][1] = w /\ r[1][2] < ops
  BY <1>2, ActiveNotes
<1>4. \A v \in Writers : Active(v)' => r[1] # job'[v].note
  <2> SUFFICES ASSUME NEW v \in Writers, Active(v)' PROVE r[1] # job'[v].note
    OBVIOUS
  <2>1. v # w
    BY <1>1 DEF Active, IInv, Control, TypeOK
  <2>2. Active(v) /\ job'[v] = job[v]
    BY <1>1, <2>1 DEF Active, IInv, Control, TypeOK
  <2> QED
    BY <1>3, <2>1, <2>2, ActiveNotes
<1>5. Reports(w)
  BY ReportShows DEF IInv
<1>6. r[2] \in Nat
  BY RowBaseType DEF IInv, Control, TypeOK
<1>7. ~replacing
  BY <1>1 DEF IInv, Whole, WriterSound, ReportSound
<1>8. Closed(r)'
  BY <1>1, <1>3, <1>4 DEF Closed
<1>9. Holds(Shown', r) /\ Shown' = Shown
  BY <1>5 DEF Reports, Log!HasId, Holds
<1>10. r \in Notes \X Nat
  BY <1>3, <1>6
<1> QED
  BY <1>1, <1>2, <1>3, <1>7, <1>8, <1>9, <1>10

\* Behind a log there may be more.
LEMMA BeginsFacts ==
    /\ \A a \in Lists : Begins(a, a)
    /\ \A a, b, c \in Lists : Begins(a, b) /\ Begins(b, c) => Begins(a, c)
    /\ \A a, b \in Lists, r \in Notes \X Nat : Begins(a, b) /\ Holds(a, r) => Holds(b, r)
    /\ \A a \in Lists, n \in Notes : Append(a, n) \in Lists /\ Begins(a, Append(a, n))
<1>1. \A a \in Lists : Len(a) \in Nat
  BY LenProperties DEF Lists
<1>2. \A a \in Lists, n \in Notes : Append(a, n) \in Lists /\ Begins(a, Append(a, n))
  BY AppendProperties DEF Lists, Begins
<1>3. \A a \in Lists : Begins(a, a)
  BY <1>1 DEF Begins
<1>4. \A a, b, c \in Lists : Begins(a, b) /\ Begins(b, c) => Begins(a, c)
  BY <1>1 DEF Begins
<1>5. \A a, b \in Lists, r \in Notes \X Nat : Begins(a, b) /\ Holds(a, r) => Holds(b, r)
  BY <1>1 DEF Begins, Holds
<1> QED
  BY <1>2, <1>3, <1>4, <1>5

LEMMA PrefixIs == ASSUME NEW a \in Lists, NEW b \in Lists, Begins(a, b) PROVE IsPrefix(a, b)
<1>1. Len(a) \in Nat /\ Len(b) \in Nat /\ Len(a) <= Len(b)
  BY LenProperties DEF Lists, Begins
<1>2. \A i \in 1 .. Len(a) : a[i] \in Notes \cup {Seed} /\ b[i] \in Notes \cup {Seed}
  BY <1>1, ElementOfSeq DEF Lists
<1>3. /\ SubSeq(a, 1, Len(a)) \in Seq(Notes \cup {Seed}) /\ SubSeq(b, 1, Len(a)) \in Seq(Notes \cup {Seed})
      /\ Len(SubSeq(a, 1, Len(a))) = Len(a) /\ Len(SubSeq(b, 1, Len(a))) = Len(a)
      /\ \A i \in 1 .. Len(a) : SubSeq(a, 1, Len(a))[i] = a[i] /\ SubSeq(b, 1, Len(a))[i] = b[i]
  BY <1>1, <1>2, SubSeqProperties
<1>4. SubSeq(a, 1, Len(a)) = SubSeq(b, 1, Len(a))
  BY <1>1, <1>3, SeqEqual DEF Begins
<1> QED
  BY <1>1, <1>4 DEF IsPrefix

\* Between two replacements the log only grows.
LEMMA ShownGrows ==
    ASSUME Existing, IInv, IInv', [Next]_vars, ~replacing, ~replacing'
    PROVE  Begins(Shown, Shown') /\ Shown \in Lists /\ Shown' \in Lists
<1>1. Shown \in Lists
  BY ShownFacts DEF IInv
<1>2. CASE Hidden
  BY <1>1, <1>2, BeginsFacts DEF Hidden
<1>3. ASSUME NEW w \in Writers, Writes(w) PROVE Begins(Shown, Shown') /\ Shown' \in Lists
  BY <1>1, <1>3, BeginsFacts DEF Writes
<1>4. ASSUME NEW w \in Writers, Reports(w) PROVE Begins(Shown, Shown') /\ Shown' \in Lists
  BY <1>1, <1>4, BeginsFacts DEF Reports
<1>5. ~Replaces
  BY DEF Replaces
<1> QED
  BY <1>1, <1>2, <1>3, <1>4, <1>5, ShownStep DEF IInv

\* Every citation stays one of the log, until the log starts over.
LEMMA ToldStep == ASSUME Existing, IInv, IInv', Told, [Next]_vars PROVE Told'
<1>t. reported \subseteq Notes \X Nat
  BY DEF IInv, Control, TypeOK
<1>1. CASE reported' = {}
  BY <1>1 DEF Told
<1>2. ASSUME UNCHANGED reported, replacing' => replacing PROVE Told'
  <2>1. CASE reported = {}
    BY <1>2, <2>1 DEF Told
  <2>2. CASE reported # {}
    <3>1. ~replacing /\ ~replacing'
      BY <1>2, <2>2 DEF Told
    <3>2. Begins(Shown, Shown') /\ Shown \in Lists /\ Shown' \in Lists
      BY <3>1, ShownGrows
    <3>3. ASSUME NEW r \in reported PROVE Holds(Shown', r)
      BY <1>t, <3>2, <3>3, BeginsFacts DEF Told
    <3>4. ASSUME NEW r \in reported PROVE Closed(r)'
      BY <1>t, <3>4, ClosedStep DEF Told
    <3> QED
      BY <1>2, <3>1, <3>3, <3>4 DEF Told
  <2> QED
    BY <2>1, <2>2
<1>3. ASSUME NEW w \in Writers, Report(w) PROVE Told'
  <2>1. PICK r : r = <<job[w].note, RowBase(buf[w])>>
    OBVIOUS
  <2>2. reported' = reported \cup {r} /\ Closed(r)' /\ Holds(Shown', r) /\ ~replacing'
        /\ Shown' = Shown
    BY <1>3, <2>1, ReportCloses
  <2>3. ASSUME NEW q \in reported PROVE Closed(q)'
    BY <1>t, <2>3, ClosedStep DEF Told
  <2> QED
    BY <2>2, <2>3 DEF Told
<1> QED
  BY <1>1, <1>2, <1>3, ReportedStep

\* What steps do to the directory, from one replacement to the next: files go,
\* one is written under a name journal.json does not have, or it gets a new head.
LEMMA DirectoryStep ==
    ASSUME IInv, [Next]_vars, ~replacing, ~replacing'
    PROVE  \/ /\ journal' = journal
              /\ \/ disk' = disk
                 \/ \E f : disk' = Drop(f)
                 \/ \E f \in {Base(journal.gen + 1), LayerFile(journal)} : \E c : disk' = Put(f, c)
           \/ /\ disk' = disk
              /\ journal' = [gen |-> journal.gen + 1, members |-> <<Base(journal.gen + 1)>>]
           \/ /\ disk' = disk
              /\ journal' = [gen |-> journal.gen,
                             members |-> Append(journal.members, LayerFile(journal))]
<1>1. CASE UNCHANGED vars
  BY <1>1 DEF vars
<1>2. ASSUME NEW w \in Writers, \/ BeginAppend(w) \/ BeginCompact(w) \/ Abort(w)
                               \/ \E force \in Forces : BeginInit(w, force)
      PROVE  UNCHANGED <<journal, disk>>
  BY <1>2 DEF BeginAppend, BeginCompact, BeginInit, Begin, Abort
<1>3. ASSUME NEW w \in Writers, \/ LookAgain(w) \/ ListOldFiles(w) \/ OldFilesCleared(w) \/ Enter(w)
                               \/ ReadState(w) \/ OldRemoved(w) \/ Report(w) \/ End(w)
      PROVE  UNCHANGED <<journal, disk>>
  BY <1>3 DEF LookAgain, ListOldFiles, OldFilesCleared, Enter, ReadState, OldRemoved, Report, End
<1>4. ASSUME NEW w \in Writers, CreateSeedFile(w) \/ WriteSeedFile(w) \/ CommitSeed(w)
      PROVE  FALSE
  BY <1>4 DEF CreateSeedFile, WriteSeedFile, CommitSeed, Goto, IInv, Whole, WriterSound, ClearingSound, Seeding
<1>5. ASSUME NEW w \in Writers, pc[w] \in Working PROVE state[w] = journal
  BY <1>5 DEF IInv, Control, StateRead
<1>6. ASSUME NEW w \in Writers, ClearOldFile(w) \/ RemoveOld(w) \/ ClearOrphan(w)
      PROVE  journal' = journal /\ \E f : disk' = Drop(f)
  BY <1>6 DEF ClearOldFile, RemoveOld, ClearOrphan
<1>7. ASSUME NEW w \in Writers, FoldChain(w) \/ WriteBase(w) \/ CreateLayer(w) \/ WriteLayer(w)
      PROVE  /\ journal' = journal
             /\ \E f \in {Base(journal.gen + 1), LayerFile(journal)} : \E c : disk' = Put(f, c)
  <2>1. state[w] = journal
    BY <1>5, <1>7 DEF FoldChain, WriteBase, CreateLayer, WriteLayer, Goto, Working, Folding, Layering
  <2> QED
    BY <1>7, <2>1 DEF FoldChain, WriteBase, CreateLayer, WriteLayer
<1>8. ASSUME NEW w \in Writers, CommitBase(w)
      PROVE  disk' = disk /\ journal' = [gen |-> journal.gen + 1, members |-> <<Base(journal.gen + 1)>>]
  <2>1. state[w] = journal
    BY <1>5, <1>8 DEF CommitBase, Goto, Working, Folding
  <2> QED
    BY <1>8, <2>1 DEF CommitBase
<1>9. ASSUME NEW w \in Writers, CommitLayer(w)
      PROVE  /\ disk' = disk
             /\ journal' = [gen |-> journal.gen, members |-> Append(journal.members, LayerFile(journal))]
  <2>1. state[w] = journal
    BY <1>5, <1>9 DEF CommitLayer, Goto, Working, Layering
  <2> QED
    BY <1>9, <2>1 DEF CommitLayer
<1> QED
  BY <1>1, <1>2, <1>3, <1>4, <1>6, <1>7, <1>8, <1>9 DEF Next, Step

\* A name that journal.json has had keeps its file, while it has one, and never
\* becomes its head again.
NameKept(members) ==
    /\ Settled(members)'
    /\ Last(members) \in DOMAIN disk' =>
        Last(members) \in DOMAIN disk /\ disk'[Last(members)] = disk[Last(members)]
    /\ members = journal'.members =>
        members = journal.members /\ Identity(journal.members)' = Identity(journal.members)

LEMMA NamesKept ==
    ASSUME IInv, IInv', [Next]_vars, ~replacing, ~replacing', NEW members \in Seq(Files), Settled(members)
    PROVE  NameKept(members)
<1> DEFINE f == Last(members)
<1>n. /\ journal.gen \in Nat /\ Len(journal.members) \in Nat \ {0}
      /\ journal.members \in Seq(Files)
      /\ Base(journal.gen + 1) \notin ToSet(journal.members)
      /\ LayerFile(journal) = <<journal.gen, Len(journal.members)>>
      /\ LayerFile(journal) \notin ToSet(journal.members)
  BY Names DEF IInv
<1>m. members # <<>> /\ (f[1] < journal.gen \/ f \in ToSet(journal.members))
  BY DEF Settled
<1>b. f # Base(journal.gen + 1)
  BY <1>n, <1>m DEF Base
<1>l. f # LayerFile(journal)
  BY <1>n, <1>m
<1>1. ASSUME journal' = journal,
             \/ disk' = disk
             \/ \E g : disk' = Drop(g)
             \/ \E g \in {Base(journal.gen + 1), LayerFile(journal)} : \E c : disk' = Put(g, c)
      PROVE  NameKept(members)
  <2>1. f \in DOMAIN disk' => f \in DOMAIN disk /\ disk'[f] = disk[f]
    <3>1. ASSUME NEW g, disk' = Drop(g) PROVE f \in DOMAIN disk' => f \in DOMAIN disk /\ disk'[f] = disk[f]
      BY <3>1 DEF Drop
    <3>2. ASSUME NEW g, g # f, NEW c, disk' = Put(g, c)
          PROVE  f \in DOMAIN disk' => f \in DOMAIN disk /\ disk'[f] = disk[f]
      BY <3>2 DEF Put
    <3> HIDE DEF f
    <3> QED
      BY <1>1, <1>b, <1>l, <3>1, <3>2
  <2>2. ASSUME members = journal'.members PROVE Identity(journal.members)' = Identity(journal.members)
    <3>1. Readable(journal.members)'
      BY DEF IInv, Whole, ChainIntact, Control, Named
    <3>2. f \in DOMAIN disk'
      <4>1. Len(journal'.members) \in DOMAIN journal'.members
        BY <1>1, <1>n
      <4> QED
        BY <2>2, <3>1, <4>1 DEF Readable, Last
    <3> QED
      BY <1>1, <2>1, <2>2, <3>2 DEF Identity
  <2> QED
    BY <1>1, <1>m, <2>1, <2>2 DEF NameKept, Settled
<1>2. ASSUME disk' = disk, NEW g, journal'.members \in Seq(Files), journal'.members # <<>>,
             Last(journal'.members) = g, g # f, journal'.gen >= journal.gen, journal'.gen \in Nat,
             f[1] < journal'.gen \/ f \in ToSet(journal'.members)
      PROVE  NameKept(members)
  BY <1>2, <1>m DEF NameKept, Settled
<1>3. CASE /\ disk' = disk
           /\ journal' = [gen |-> journal.gen + 1, members |-> <<Base(journal.gen + 1)>>]
  <2>1. journal'.gen = journal.gen + 1 /\ journal'.members = <<Base(journal.gen + 1)>>
    BY <1>3
  <2>2. journal'.members \in Seq(Files) /\ journal'.members # <<>>
        /\ Last(journal'.members) = Base(journal.gen + 1)
    BY <1>n, <2>1 DEF Base, Files, Last
  <2>3. f[1] < journal'.gen
    <3>1. CASE f[1] < journal.gen
      <4>1. f[1] \in Nat
        BY <1>m, LenProperties, EmptySeq, ElementOfSeq DEF Last, Files
      <4> QED
        BY <1>n, <2>1, <3>1, <4>1
    <3>2. CASE f \in ToSet(journal.members)
      <4>1. f[1] = journal.gen
        BY <3>2 DEF IInv, Control, Named, ToSet
      <4> QED
        BY <1>n, <2>1, <4>1
    <3> QED
      BY <1>m, <3>1, <3>2
  <2> QED
    BY <1>3, <1>2, <1>b, <1>n, <2>1, <2>2, <2>3
<1>4. CASE /\ disk' = disk
           /\ journal' = [gen |-> journal.gen,
                          members |-> Append(journal.members, LayerFile(journal))]
  <2>1. journal'.gen = journal.gen /\ journal'.members = Append(journal.members, LayerFile(journal))
    BY <1>4
  <2>2. LayerFile(journal) \in Files
    BY <1>n DEF Files
  <2>3. /\ journal'.members \in Seq(Files) /\ journal'.members # <<>>
        /\ Last(journal'.members) = LayerFile(journal)
        /\ \A i \in 1 .. Len(journal.members) :
              i \in DOMAIN journal'.members /\ journal'.members[i] = journal.members[i]
    BY <1>n, <2>1, <2>2, AppendProperties DEF Last
  <2>4. f \in ToSet(journal.members) => f \in ToSet(journal'.members)
    BY <1>n, <2>3 DEF ToSet
  <2> QED
    BY <1>4, <1>2, <1>l, <1>m, <1>n, <2>1, <2>3, <2>4
<1> QED
  BY <1>1, <1>3, <1>4, DirectoryStep

-----------------------------------------------------------------------------
(***************************************************************************)
(* A server that does not move, while writers and other servers do.        *)
(***************************************************************************)

\* The steps that the invariant is to survive.
Context ==
    /\ Existing /\ IInv /\ IInv' /\ Told /\ Told'
    /\ [Next]_vars
    /\ epoch' = IF replacing' = replacing THEN epoch ELSE epoch + 1
    /\ ServerTypeOK /\ epoch \in Nat

LEMMA ContextFacts == ASSUME Context PROVE epoch' \in Nat /\ epoch <= epoch'
BY DEF Context

LEMMA CallFacts ==
    ASSUME ServerTypeOK, NEW s \in Servers, at[s] # "ready"
    PROVE  call[s] \in Calls /\ Due(s) \subseteq Notes \X Nat
BY DEF ServerTypeOK, Calls, Due

LEMMA ChainFacts ==
    ASSUME NEW chain \in Chains
    PROVE  /\ chain.members \in Seq(Files) /\ chain.contents \in Contents /\ chain.epoch \in Nat
           /\ RecordsOf(chain.contents) \in Lists
BY ContentsFacts DEF Chains

LEMMA MountedTyped ==
    ASSUME ServerTypeOK, NEW s \in Servers PROVE mounted[s] \in Chains /\ View(s) \in Lists
<1>1. mounted[s] \in Chains
  BY DEF ServerTypeOK
<1> QED
  BY <1>1, ChainFacts DEF View

\* A chain in time after a step was so before it.
LEMMA InTimeBefore ==
    ASSUME Context, NEW chain, chain.epoch \in Nat, chain.epoch <= epoch, chain.epoch = epoch', ~replacing'
    PROVE  epoch' = epoch /\ ~replacing /\ InTime(chain)
<1>1. epoch' = epoch
  BY DEF Context
<1>2. replacing' = replacing
  BY <1>1 DEF Context
<1> QED
  BY <1>1, <1>2 DEF InTime

\* Nobody is told again of a past note.
LEMMA NotToldAgain ==
    ASSUME Context, NEW r, Closed(r), r \in reported'
    PROVE  r \in reported
<1>1. ASSUME NEW w \in Writers, Report(w) PROVE r \in reported
  <2>1. PICK q : q = <<job[w].note, RowBase(buf[w])>>
    OBVIOUS
  <2>2. reported' = reported \cup {q} /\ Active(w) /\ q[1] = job[w].note
    BY <1>1, <2>1, ReportCloses DEF Context
  <2>3. r # q
    BY <2>2 DEF Closed
  <2> QED
    BY <2>2, <2>3
<1> QED
  BY <1>1, ReportedStep DEF Context

LEMMA DueKept ==
    ASSUME Context, NEW s \in Servers, DueTold(s), at[s] # "ready", Due(s)' = Due(s)
    PROVE  DueTold(s)' /\ Due(s) \cap reported' \subseteq reported
<1>1. Due(s) \subseteq Notes \X Nat
  BY CallFacts DEF Context
<1>2. ASSUME NEW r \in Due(s) PROVE Closed(r)' /\ (r \in reported' => r \in reported)
  BY <1>1, <1>2, ClosedStep, NotToldAgain DEF Context, DueTold
<1> QED
  BY <1>2 DEF DueTold

LEMMA MountedKept ==
    ASSUME Context, NEW s \in Servers, OpeningTyped(s), MountedSound(s), mounted'[s] = mounted[s]
    PROVE  MountedSound(s)'
<1> SUFFICES ASSUME mounted[s].epoch = epoch', ~replacing' PROVE MountedSound(s)'
  BY DEF MountedSound, InTime
<1>1. mounted[s] \in Chains /\ View(s) \in Lists
  BY MountedTyped DEF Context
<1>2. mounted[s].members \in Seq(Files) /\ mounted[s].epoch \in Nat
  BY <1>1, ChainFacts
<1>3. ~replacing /\ InTime(mounted[s])
  BY <1>2, InTimeBefore DEF OpeningTyped
<1>4. NameKept(mounted[s].members)
  BY <1>2, <1>3, NamesKept DEF Context, MountedSound
<1>5. View(s)' = View(s)
  BY DEF View
<1>6. Begins(View(s), Shown')
  <2>1. Begins(Shown, Shown') /\ Shown \in Lists /\ Shown' \in Lists
    BY <1>3, ShownGrows DEF Context
  <2> QED
    BY <1>1, <1>3, <2>1, BeginsFacts DEF MountedSound
<1>7. Begins(View(s), Shown)'
  BY <1>5, <1>6 DEF Begins
<1> QED
  BY <1>3, <1>4, <1>7 DEF MountedSound, NameKept, Settled

\* Records that s might have served it still may.
LEMMA ServesKept ==
    ASSUME Context, ~replacing, ~replacing', epoch' = epoch,
           NEW s \in Servers, at[s] # "ready", DueTold(s), call'[s] = call[s], mounted'[s] = mounted[s],
           NEW records \in Lists, Serves(s, records)
    PROVE  /\ Begins(records, Shown')
           /\ mounted'[s].epoch = epoch' => Begins(View(s)', records)
           /\ \A r \in Due(s)' \cap reported' : Holds(records, r)
<1>1. Begins(records, Shown')
  <2>1. Begins(Shown, Shown') /\ Shown \in Lists /\ Shown' \in Lists
    BY ShownGrows DEF Context
  <2> QED
    BY <2>1, BeginsFacts DEF Serves
<1>2. View(s)' = View(s)
  BY DEF View
<1>3. Due(s)' = Due(s)
  BY DEF Due
<1>4. Due(s) \cap reported' \subseteq reported
  BY <1>3, DueKept
<1> QED
  BY <1>1, <1>2, <1>3, <1>4 DEF Serves

LEMMA OpeningKept ==
    ASSUME Context, NEW s \in Servers, ServerSound(s), at[s] = "open",
           at'[s] = at[s], call'[s] = call[s], mounted'[s] = mounted[s], opening'[s] = opening[s]
    PROVE  OpeningSound(s)'
<1> DEFINE f == Last(opening[s].members)
<1> SUFFICES ASSUME opening[s].epoch = epoch', ~replacing' PROVE OpeningSound(s)'
  BY DEF OpeningSound, InTime
<1>1. /\ opening[s] \in Chains /\ opening[s].members \in Seq(Files) /\ opening[s].epoch \in Nat
      /\ RecordsOf(opening[s].contents) \in Lists
  BY ChainFacts DEF ServerSound, OpeningTyped
<1>2. epoch' = epoch /\ ~replacing /\ InTime(opening[s])
  BY <1>1, InTimeBefore DEF ServerSound, OpeningTyped
<1>3. /\ Settled(opening[s].members)
      /\ f \in DOMAIN disk => Serves(s, RecordsOf(disk[f]))
      /\ Len(opening[s].contents) = Len(opening[s].members) =>
            /\ Serves(s, RecordsOf(opening[s].contents))
            /\ opening[s].members = journal.members => opening[s].contents = Identity(journal.members)
  BY <1>2 DEF ServerSound, OpeningSound
<1>4. NameKept(opening[s].members)
  BY <1>1, <1>2, <1>3, NamesKept DEF Context
<1>5. ASSUME NEW records \in Lists, Serves(s, records)
      PROVE  /\ Begins(records, Shown')
             /\ mounted'[s].epoch = epoch' => Begins(View(s)', records)
             /\ \A r \in Due(s)' \cap reported' : Holds(records, r)
  BY <1>2, <1>5, ServesKept DEF ServerSound
<1>6. ASSUME f \in DOMAIN disk'
      PROVE  /\ Begins(RecordsOf(disk'[f]), Shown')
             /\ mounted'[s].epoch = epoch' => Begins(View(s)', RecordsOf(disk'[f]))
             /\ \A r \in Due(s)' \cap reported' : Holds(RecordsOf(disk'[f]), r)
  <2>1. f \in DOMAIN disk /\ disk'[f] = disk[f]
    BY <1>4, <1>6 DEF NameKept
  <2>2. RecordsOf(disk[f]) \in Lists
    BY <2>1, ContentsFacts DEF Context, IInv, Control, TypeOK
  <2> QED
    BY <1>3, <1>5, <2>1, <2>2
<1>7. f \in DOMAIN disk' => Serves(s, RecordsOf(disk[f]))'
  BY <1>6 DEF Serves, RecordsOf
<1>8. Len(opening[s].contents) = Len(opening[s].members) =>
        /\ Serves(s, RecordsOf(opening[s].contents))'
        /\ opening[s].members = journal'.members => opening[s].contents = Identity(journal.members)'
  <2> SUFFICES ASSUME Len(opening[s].contents) = Len(opening[s].members)
               PROVE  /\ Serves(s, RecordsOf(opening[s].contents))'
                      /\ opening[s].members = journal'.members =>
                            opening[s].contents = Identity(journal.members)'
    OBVIOUS
  <2>1. Serves(s, RecordsOf(opening[s].contents))'
    BY <1>1, <1>3, <1>5 DEF Serves, RecordsOf
  <2>2. opening[s].members = journal'.members => opening[s].contents = Identity(journal.members)'
    BY <1>3, <1>4 DEF NameKept
  <2> QED
    BY <2>1, <2>2
<1> QED
  BY <1>3, <1>4, <1>7, <1>8 DEF OpeningSound, NameKept

LEMMA CitesKept ==
    ASSUME Context, NEW s \in Servers, ServerSound(s), at[s] # "ready",
           at'[s] = at[s], call'[s] = call[s], mounted'[s] = mounted[s], opening'[s] = opening[s]
    PROVE  CitesSound(s)'
<1> SUFFICES ASSUME NEW r \in call[s].cites, r \in reported'
             PROVE  UNCHANGED epoch /\ r \in reported
  BY DEF ServerSound, CitesSound
<1>1. r \in reported
  <2>1. Due(s)' = Due(s) /\ r \in Due(s)
    BY DEF Due
  <2> QED
    BY <2>1, DueKept DEF ServerSound
<1>2. ~replacing /\ ~replacing'
  BY <1>1 DEF Context, Told
<1>3. replacing \in BOOLEAN /\ replacing' \in BOOLEAN
  BY DEF Context, IInv, Control, TypeOK
<1> QED
  BY <1>1, <1>2, <1>3 DEF Context

LEMMA AnswerKept ==
    ASSUME Context, NEW s \in Servers, ServerSound(s), at[s] # "ready",
           at'[s] = at[s], call'[s] = call[s], mounted'[s] = mounted[s]
    PROVE  AnswerSound(s)'
<1> SUFFICES ASSUME at[s] = "answer", call[s].refreshed, mounted[s].epoch = epoch', ~replacing',
                    NEW r \in Due(s), r \in reported'
             PROVE  Holds(View(s)', r)
  BY DEF AnswerSound, InTime, Due
<1>1. mounted[s].epoch \in Nat
  BY MountedTyped, ChainFacts DEF Context
<1>2. InTime(mounted[s])
  BY <1>1, InTimeBefore DEF ServerSound, OpeningTyped
<1>3. r \in reported
  <2>1. Due(s)' = Due(s)
    BY DEF Due
  <2> QED
    BY <2>1, DueKept DEF ServerSound
<1>4. Holds(View(s), r)
  BY <1>2, <1>3 DEF ServerSound, AnswerSound
<1> QED
  BY <1>4 DEF View, Holds

\* Whatever the others do, a server that stays where it is stays sound.
LEMMA SoundKept ==
    ASSUME Context, NEW s \in Servers, ServerSound(s),
           at'[s] = at[s], call'[s] = call[s], mounted'[s] = mounted[s], opening'[s] = opening[s]
    PROVE  ServerSound(s)'
<1>1. OpeningTyped(s)'
  <2>1. /\ epoch \in Nat /\ epoch' \in Nat /\ epoch <= epoch'
        /\ mounted[s].epoch \in Nat /\ (at[s] = "open" => opening[s].epoch \in Nat)
    BY ContextFacts, MountedTyped, ChainFacts DEF Context, ServerSound, OpeningTyped
  <2> QED
    BY <2>1 DEF ServerSound, OpeningTyped
<1>2. MountedSound(s)'
  BY MountedKept DEF ServerSound
<1>3. DueTold(s)' /\ CitesSound(s)' /\ AnswerSound(s)'
  <2>1. CASE at[s] = "ready"
    BY <2>1 DEF DueTold, CitesSound, AnswerSound
  <2>2. CASE at[s] # "ready"
    <3>1. Due(s)' = Due(s)
      BY DEF Due
    <3> QED
      BY <2>2, <3>1, DueKept, CitesKept, AnswerKept DEF ServerSound
  <2> QED
    BY <2>1, <2>2
<1>4. OpeningSound(s)'
  <2>1. CASE at[s] = "open"
    BY <2>1, OpeningKept
  <2>2. CASE at[s] # "open"
    BY <2>2 DEF OpeningSound
  <2> QED
    BY <2>1, <2>2
<1> QED
  BY <1>1, <1>2, <1>3, <1>4 DEF ServerSound

-----------------------------------------------------------------------------
(***************************************************************************)
(* A server that takes a step.                                             *)
(***************************************************************************)

LEMMA CallUpdates ==
    ASSUME NEW c \in Calls
    PROVE  /\ \A b \in BOOLEAN :
                /\ [c EXCEPT !.refreshed = b] \in Calls
                /\ [c EXCEPT !.refreshed = b].tool = c.tool
                /\ [c EXCEPT !.refreshed = b].before = c.before
                /\ [c EXCEPT !.refreshed = b].cites = c.cites
                /\ [c EXCEPT !.refreshed = b].refreshed = b
           /\ \A k \in SUBSET (Notes \X Nat) :
                /\ [c EXCEPT !.cites = k] \in Calls
                /\ [c EXCEPT !.cites = k].before = c.before
                /\ [c EXCEPT !.cites = k].cites = k
BY DEF Calls

LEMMA ChainUpdates ==
    ASSUME NEW c \in Chains, NEW contents \in Contents
    PROVE  /\ [c EXCEPT !.contents = contents] \in Chains
           /\ [c EXCEPT !.contents = contents].members = c.members
           /\ [c EXCEPT !.contents = contents].epoch = c.epoch
           /\ [c EXCEPT !.contents = contents].contents = contents
BY DEF Chains

LEMMA ServerTypes ==
    ASSUME ServerTypeOK
    PROVE  /\ at \in [Servers -> {"ready", "refresh", "reopen", "open", "write", "writing", "answer"}]
           /\ call \in [Servers -> Calls \cup {None}]
           /\ \A s \in Servers : call[s] = None <=> at[s] = "ready"
           /\ mounted \in [Servers -> Chains]
           /\ opening \in [Servers -> Chains \cup {None}]
           /\ calls \in [Servers -> 0 .. MaxCalls]
           /\ \A c \in Calls : c # None
BY NoCallAssumption DEF ServerTypeOK

LEMMA NewCall ==
    ASSUME IInv, NEW tool \in {"search", "write_note"}
    PROVE  [tool |-> tool, before |-> reported, cites |-> {}, refreshed |-> FALSE] \in Calls
<1>1. reported \in SUBSET (Notes \X Nat) /\ {} \in SUBSET (Notes \X Nat)
  BY DEF IInv, Control, TypeOK
<1> QED
  BY <1>1 DEF Calls

\* A call that comes in.
LEMMA TakeSound ==
    ASSUME Context, NEW s \in Servers, ServerSound(s), NEW tool \in {"search", "write_note"}, Take(s, tool)
    PROVE  ServerSound(s)'
<1> DEFINE c == [tool |-> tool, before |-> reported, cites |-> {}, refreshed |-> FALSE]
<1>1. /\ at'[s] = "refresh" /\ call'[s].before = reported /\ call'[s].cites = {}
      /\ UNCHANGED <<vars, mounted, opening, epoch>>
  BY ServerTypes DEF Take, Move, Context
<1>2. DueTold(s)'
  BY <1>1 DEF DueTold, Due, Context, Told, vars
<1>3. OpeningTyped(s)'
  BY <1>1 DEF OpeningTyped, ServerSound
<1>4. MountedSound(s)'
  BY <1>1, MountedKept DEF ServerSound
<1>5. OpeningSound(s)' /\ CitesSound(s)' /\ AnswerSound(s)'
  BY <1>1 DEF OpeningSound, CitesSound, AnswerSound
<1> QED
  BY <1>2, <1>3, <1>4, <1>5 DEF ServerSound

\* After a look at journal.json, or an attempt to open the chain it names.
LEMMA AfterOpenIs ==
    ASSUME ServerTypeOK, NEW s \in Servers, at[s] # "ready"
    PROVE  /\ AfterOpen(s) \in {"write", "answer"}
           /\ call[s].cites # {} => AfterOpen(s) = "answer"
BY DEF AfterOpen

\* The chain that journal.json names holds the log.
LEMMA HeadIsLog ==
    ASSUME IInv, ~replacing
    PROVE  /\ Identity(journal.members) \in Contents
           /\ RecordsOf(Identity(journal.members)) = Shown /\ Shown \in Lists
           /\ Last(journal.members) \in DOMAIN disk
           /\ Identity(journal.members) = disk[Last(journal.members)]
           /\ Settled(journal.members)
<1>1. Control /\ Whole /\ Readable(journal.members)
  BY DEF IInv, Whole, ChainIntact, Control, Named
<1>2. Identity(journal.members) \in Contents
  BY <1>1, HeadFacts
<1>3. RecordsOf(Identity(journal.members)) = Shown /\ Shown \in Lists
  BY <1>1, ShownFacts DEF Records
<1>4. /\ journal.members # <<>> /\ Last(journal.members) \in ToSet(journal.members)
      /\ Last(journal.members) \in DOMAIN disk
  BY <1>1, Names DEF Readable, Last
<1> QED
  BY <1>2, <1>3, <1>4 DEF Identity, Settled

LEMMA CompareSound ==
    ASSUME Context, NEW s \in Servers, ServerSound(s), CompareMembers(s)
    PROVE  ServerSound(s)'
<1>1. /\ at[s] = "refresh" /\ at'[s] # "open" /\ at'[s] # "ready" /\ call[s] \in Calls
      /\ UNCHANGED <<vars, mounted, opening, epoch>>
      /\ call'[s].before = call[s].before /\ call'[s].cites = call[s].cites
  <2>1. at[s] = "refresh" /\ call[s] \in Calls
    BY CallFacts DEF CompareMembers, Move, Context
  <2> QED
    BY <2>1, ServerTypes, CallUpdates, AfterOpenIs DEF CompareMembers, Move, Context
<1>2. call[s].cites = {}
  BY <1>1 DEF ServerSound, CitesSound
<1>3. DueTold(s)'
  <2>1. Due(s)' = Due(s)
    BY <1>1 DEF Due
  <2> QED
    BY <1>1, <2>1, DueKept DEF ServerSound
<1>4. OpeningTyped(s)'
  BY <1>1 DEF OpeningTyped, ServerSound
<1>5. MountedSound(s)'
  BY <1>1, MountedKept DEF ServerSound
<1>6. OpeningSound(s)' /\ CitesSound(s)'
  BY <1>1, <1>2 DEF OpeningSound, CitesSound
<1>7. AnswerSound(s)'
  <2> SUFFICES ASSUME at'[s] = "answer", InTime(mounted[s]), NEW r \in Due(s), r \in reported
               PROVE  Holds(View(s), r)
    BY <1>1 DEF AnswerSound, InTime, Due, View, vars, Holds
  <2>1. journal.members = mounted[s].members
    BY <1>1, ServerTypes DEF CompareMembers, Move, Context
  <2>2. mounted[s].contents = Identity(journal.members) /\ ~replacing
    BY <2>1 DEF ServerSound, MountedSound, InTime
  <2>3. View(s) = Shown
    BY <2>2, HeadIsLog DEF View, Context
  <2> QED
    BY <2>3 DEF Context, Told
<1> QED
  BY <1>3, <1>4, <1>5, <1>6, <1>7 DEF ServerSound

\* journal.json is read: the chain it names is the log, if nothing replaces it.
LEMMA ReadSound ==
    ASSUME Context, NEW s \in Servers, ServerSound(s), ReadMembers(s)
    PROVE  ServerSound(s)'
<1> DEFINE o == Opened(journal.members, <<>>)
<1>1. /\ at[s] = "reopen" /\ at'[s] = "open" /\ call[s] \in Calls /\ opening'[s] = o
      /\ UNCHANGED <<vars, call, mounted, epoch>>
  BY ServerTypes, CallFacts DEF ReadMembers, Move, Context
<1>2. /\ o.members = journal.members /\ o.contents = <<>> /\ o.epoch = epoch /\ o \in Chains
  <2>1. journal.members \in Seq(Files) /\ <<>> \in Contents /\ epoch \in Nat
    BY Names DEF Context, IInv, Contents
  <2> QED
    BY <2>1 DEF Opened, Chains
<1> HIDE DEF o
<1>3. DueTold(s)'
  <2>1. Due(s)' = Due(s)
    BY <1>1 DEF Due
  <2> QED
    BY <1>1, <2>1, DueKept DEF ServerSound
<1>4. OpeningTyped(s)'
  BY <1>1, <1>2 DEF OpeningTyped, ServerSound, Context
<1>5. MountedSound(s)'
  BY <1>1, MountedKept DEF ServerSound
<1>6. CitesSound(s)' /\ AnswerSound(s)'
  BY <1>1, <1>2 DEF CitesSound, AnswerSound
<1>7. OpeningSound(s)'
  <2> SUFFICES ASSUME ~replacing
               PROVE  /\ Settled(journal.members)
                      /\ Serves(s, RecordsOf(disk[Last(journal.members)]))
                      /\ Len(<<>>) # Len(journal.members)
    BY <1>1, <1>2 DEF OpeningSound, InTime, vars, Settled, Serves, Begins, View, Due, Shown,
        Records, RecordsOf, Identity
  <2>1. RecordsOf(disk[Last(journal.members)]) = Shown /\ Shown \in Lists /\ Settled(journal.members)
    BY HeadIsLog DEF Context
  <2>2. mounted[s].epoch = epoch => Begins(View(s), Shown)
    BY DEF ServerSound, MountedSound, InTime
  <2>3. \A r \in Due(s) \cap reported : Holds(Shown, r)
    BY DEF Context, Told
  <2>4. Len(<<>>) # Len(journal.members)
    BY Names DEF Context, IInv
  <2> QED
    BY <2>1, <2>2, <2>3, <2>4, BeginsFacts DEF Serves
<1> QED
  BY <1>3, <1>4, <1>5, <1>6, <1>7 DEF ServerSound

\* A member is opened; the last one makes the chain whole.
LEMMA OpenSound ==
    ASSUME Context, NEW s \in Servers, ServerSound(s), OpenMember(s)
    PROVE  ServerSound(s)'
<1> DEFINE n == Len(opening[s].contents) + 1
           f == opening[s].members[n]
<1>1. /\ at[s] = "open" /\ at'[s] = "open" /\ f \in DOMAIN disk /\ Len(disk[f]) = n
      /\ opening' = [opening EXCEPT ![s].contents = disk[f]]
      /\ UNCHANGED <<vars, at, call, mounted, epoch>>
  BY DEF OpenMember
<1>2. opening[s] \in Chains /\ disk[f] \in Contents
  BY <1>1 DEF ServerSound, OpeningTyped, Context, IInv, Control, TypeOK
<1>3. /\ opening'[s] \in Chains /\ opening'[s].members = opening[s].members
      /\ opening'[s].epoch = opening[s].epoch /\ opening'[s].contents = disk[f]
  <2>1. opening'[s] = [opening[s] EXCEPT !.contents = disk[f]]
    BY <1>1, ServerTypes DEF Context
  <2> QED
    BY <1>2, <2>1, ChainUpdates
<1> HIDE DEF f, n
<1>4. DueTold(s)'
  <2>1. Due(s)' = Due(s)
    BY <1>1 DEF Due
  <2> QED
    BY <1>1, <2>1, DueKept DEF ServerSound
<1>5. OpeningTyped(s)'
  BY <1>1, <1>3 DEF OpeningTyped, ServerSound
<1>6. MountedSound(s)'
  BY <1>1, MountedKept DEF ServerSound
<1>7. CitesSound(s)' /\ AnswerSound(s)'
  BY <1>1, <1>3 DEF ServerSound, CitesSound, AnswerSound, vars
<1>8. OpeningSound(s)'
  <2> DEFINE m == opening[s].members
  <2>1. SUFFICES ASSUME InTime(opening[s])
        PROVE  /\ Settled(m)
               /\ Last(m) \in DOMAIN disk => Serves(s, RecordsOf(disk[Last(m)]))
               /\ Len(disk[f]) = Len(m) =>
                    /\ Serves(s, RecordsOf(disk[f]))
                    /\ m = journal.members => disk[f] = Identity(journal.members)
    BY <1>1, <1>3 DEF OpeningSound, InTime, vars, Settled, Serves, Begins, View, Due, Shown,
        Records, RecordsOf, Identity
  <2>2. Settled(m) /\ (Last(m) \in DOMAIN disk => Serves(s, RecordsOf(disk[Last(m)])))
    BY <1>1, <2>1 DEF ServerSound, OpeningSound
  <2>3. Len(disk[f]) = Len(m) => f = Last(m)
    BY <1>1 DEF Last, f
  <2> QED
    BY <1>1, <2>2, <2>3 DEF Identity
<1> QED
  BY <1>4, <1>5, <1>6, <1>7, <1>8 DEF ServerSound

\* The whole chain takes the place of the one before.
LEMMA RemountSound ==
    ASSUME Context, NEW s \in Servers, ServerSound(s), Remount(s)
    PROVE  ServerSound(s)' /\ (Current(s) => Begins(View(s), View(s)'))
<1>1. /\ at[s] = "open" /\ at'[s] = AfterOpen(s)
      /\ call[s] \in Calls /\ call'[s] = [call[s] EXCEPT !.refreshed = TRUE]
      /\ Len(opening[s].contents) = Len(opening[s].members)
      /\ mounted'[s] = opening[s]
      /\ UNCHANGED <<vars, epoch>>
  <2>1. at[s] = "open" /\ call[s] \in Calls
    BY CallFacts DEF Remount, Move, Context
  <2> QED
    BY <2>1, ServerTypes DEF Remount, Move, Context
<1>2. /\ call'[s].before = call[s].before /\ call'[s].cites = call[s].cites
      /\ AfterOpen(s) \in {"write", "answer"} /\ (call[s].cites # {} => AfterOpen(s) = "answer")
  BY <1>1, CallUpdates, AfterOpenIs DEF Context
<1>3. /\ opening[s] \in Chains /\ opening[s].epoch \in Nat
      /\ mounted[s].epoch <= opening[s].epoch /\ opening[s].epoch <= epoch
      /\ mounted[s].epoch \in Nat /\ epoch \in Nat
  BY <1>1, ChainFacts, MountedTyped DEF ServerSound, OpeningTyped, Context
<1>4. InTime(opening[s]) =>
        /\ Settled(opening[s].members)
        /\ Serves(s, RecordsOf(opening[s].contents))
        /\ opening[s].members = journal.members => opening[s].contents = Identity(journal.members)
  BY <1>1 DEF ServerSound, OpeningSound
<1>5. View(s)' = RecordsOf(opening[s].contents)
  BY <1>1 DEF View, RecordsOf
<1>6. DueTold(s)'
  <2>1. Due(s)' = Due(s)
    BY <1>2 DEF Due
  <2> QED
    BY <1>1, <2>1, DueKept DEF ServerSound
<1>7. OpeningTyped(s)' /\ OpeningSound(s)'
  BY <1>1, <1>2, <1>3 DEF OpeningTyped, OpeningSound
<1>8. MountedSound(s)'
  BY <1>1, <1>4, <1>5 DEF MountedSound, InTime, vars, Settled, Serves, Begins, Shown, Records, RecordsOf, Identity
<1>9. CitesSound(s)'
  <2>1. call[s].cites \cap reported # {} => opening[s].epoch = epoch
    BY <1>1 DEF ServerSound, CitesSound
  <2> QED
    BY <1>1, <1>2, <2>1 DEF CitesSound, vars
<1>10. AnswerSound(s)'
  BY <1>1, <1>2, <1>4, <1>5 DEF AnswerSound, InTime, Serves, Due, vars, Holds
<1>11. ASSUME Current(s) PROVE Begins(View(s), View(s)')
  <2>1. opening[s].epoch = epoch /\ mounted[s].epoch = epoch /\ ~replacing
    BY <1>3, <1>11 DEF Current
  <2> QED
    BY <1>4, <1>5, <2>1 DEF InTime, Serves
<1> QED
  BY <1>6, <1>7, <1>8, <1>9, <1>10, <1>11 DEF ServerSound

\* The chain cannot be opened: the one that is open goes on serving.
LEMMA FailSound ==
    ASSUME Context, NEW s \in Servers, ServerSound(s), OpenFails(s)
    PROVE  ServerSound(s)'
<1>1. /\ at[s] \in {"refresh", "reopen", "open"} /\ at'[s] = AfterOpen(s)
      /\ call[s] \in Calls /\ call'[s] = [call[s] EXCEPT !.refreshed = FALSE]
      /\ UNCHANGED <<vars, mounted, epoch>>
  <2>1. at[s] \in {"refresh", "reopen", "open"} /\ call[s] \in Calls
    BY CallFacts DEF OpenFails, Context
  <2> QED
    BY <2>1, ServerTypes DEF OpenFails, Move, Context
<1>2. /\ call'[s].before = call[s].before /\ call'[s].cites = call[s].cites /\ ~call'[s].refreshed
      /\ AfterOpen(s) \in {"write", "answer"} /\ (call[s].cites # {} => AfterOpen(s) = "answer")
  BY <1>1, CallUpdates, AfterOpenIs DEF Context
<1>3. DueTold(s)'
  <2>1. Due(s)' = Due(s)
    BY <1>2 DEF Due
  <2> QED
    BY <1>1, <2>1, DueKept DEF ServerSound
<1>4. OpeningTyped(s)' /\ OpeningSound(s)'
  BY <1>1, <1>2 DEF OpeningTyped, OpeningSound, ServerSound
<1>5. MountedSound(s)'
  BY <1>1, MountedKept DEF ServerSound
<1>6. CitesSound(s)' /\ AnswerSound(s)'
  BY <1>1, <1>2 DEF CitesSound, AnswerSound, vars
<1> QED
  BY <1>3, <1>4, <1>5, <1>6 DEF ServerSound

\* write_note: appendNote is called, returns or throws, and a call is answered.
LEMMA WriteSound ==
    ASSUME Context, NEW s \in Servers, ServerSound(s),
           StartWrite(s) \/ WriteFails(s) \/ Answer(s) \/ NoteWritten(s)
    PROVE  ServerSound(s)'
<1>1. at[s] # "ready" /\ mounted' = mounted /\ epoch' = epoch
  BY DEF StartWrite, WriteFails, Answer, NoteWritten, Move
<1>2. MountedSound(s)'
  BY <1>1, MountedKept DEF ServerSound
<1>3. CASE WriteFails(s) \/ Answer(s)
  <2>1. at'[s] = "ready"
    BY <1>3, ServerTypes DEF WriteFails, Answer, Idle, Context
  <2> QED
    BY <1>1, <1>2, <2>1 DEF ServerSound, OpeningTyped, OpeningSound, DueTold, CitesSound, AnswerSound
<1>4. CASE StartWrite(s)
  <2>1. at[s] = "write" /\ at'[s] = "writing" /\ call' = call
    BY <1>4, ServerTypes DEF StartWrite, Move, Context
  <2>2. DueTold(s)'
    <3>1. Due(s)' = Due(s)
      BY <2>1 DEF Due
    <3> QED
      BY <2>1, <3>1, DueKept DEF ServerSound
  <2>3. CitesSound(s)'
    BY <2>1 DEF CitesSound, ServerSound
  <2> QED
    BY <1>1, <1>2, <2>1, <2>2, <2>3 DEF ServerSound, OpeningTyped, OpeningSound, AnswerSound
<1>5. CASE NoteWritten(s)
  <2>1. PICK r : r = <<job[s].note, RowBase(buf[s])>>
    OBVIOUS
  <2>2. Report(s) /\ s \in Writers
    BY <1>5, ServersAssumption DEF NoteWritten
  <2>3. r \in Notes \X Nat /\ r \in reported' /\ Closed(r)'
    BY <2>1, <2>2, ReportCloses DEF Context
  <2>4. /\ call[s] \in Calls /\ at'[s] = "reopen"
        /\ call'[s] = [call[s] EXCEPT !.cites = {r}]
    BY <1>1, <1>5, <2>1, ServerTypes, CallFacts DEF NoteWritten, Move, Context
  <2>5. call'[s].before = call[s].before /\ call'[s].cites = {r}
    <3>1. {r} \in SUBSET (Notes \X Nat)
      BY <2>3
    <3> QED
      BY <2>4, <3>1, CallUpdates
  <2>6. \A q \in call[s].before : Closed(q)'
    <3>1. Due(s) \subseteq Notes \X Nat
      BY <1>1, CallFacts DEF Context
    <3>2. ASSUME NEW q \in Due(s) PROVE Closed(q)'
      BY <1>1, <3>1, <3>2, ClosedStep DEF Context, ServerSound, DueTold
    <3> QED
      BY <3>2 DEF Due
  <2>7. DueTold(s)'
    BY <2>3, <2>5, <2>6 DEF DueTold, Due
  <2>8. CitesSound(s)'
    BY <2>4 DEF CitesSound
  <2> QED
    BY <1>1, <1>2, <2>4, <2>7, <2>8 DEF ServerSound, OpeningTyped, OpeningSound, AnswerSound
<1> QED
  BY <1>3, <1>4, <1>5

-----------------------------------------------------------------------------
(***************************************************************************)
(* Every step keeps the invariant.                                         *)
(***************************************************************************)

\* A server's step is its own.
LEMMA OthersStay ==
    ASSUME ServerTypeOK, NEW s \in Servers, ServerStep(s), NEW v \in Servers, v # s
    PROVE  at'[v] = at[v] /\ call'[v] = call[v] /\ mounted'[v] = mounted[v] /\ opening'[v] = opening[v]
<1> USE ServerTypes
<1>1. CASE \E tool \in {"search", "write_note"} : Take(s, tool)
  BY <1>1 DEF Take, Move
<1>2. CASE CompareMembers(s) \/ ReadMembers(s)
  BY <1>2 DEF CompareMembers, ReadMembers, Move
<1>3. CASE OpenMember(s) \/ Remount(s) \/ OpenFails(s)
  BY <1>3 DEF OpenMember, Remount, OpenFails, Move
<1>4. CASE StartWrite(s) \/ NoteWritten(s)
  BY <1>4 DEF StartWrite, NoteWritten, Move
<1>5. CASE WriteFails(s) \/ Answer(s)
  BY <1>5 DEF WriteFails, Answer, Idle
<1> QED
  BY <1>1, <1>2, <1>3, <1>4, <1>5 DEF ServerStep

LEMMA WritersStay ==
    ASSUME NEW w \in Writers, WriterStep(w)
    PROVE  UNCHANGED <<at, call, mounted, opening, calls>>
BY DEF WriterStep

LEMMA OwnStepSound ==
    ASSUME Context, NEW s \in Servers, ServerSound(s), ServerStep(s)
    PROVE  ServerSound(s)'
BY TakeSound, CompareSound, ReadSound, OpenSound, RemountSound, FailSound, WriteSound DEF ServerStep

\* The call that a server handles keeps its type, and a server is ready
\* exactly when it handles none.
LEMMA CallTypeStep ==
    ASSUME IInv, ServerTypeOK, NEW s \in Servers, ServerStep(s)
    PROVE  /\ call' \in [Servers -> Calls \cup {None}]
           /\ \A v \in Servers : call'[v] = None <=> at'[v] = "ready"
           /\ at' \in [Servers -> {"ready", "refresh", "reopen", "open", "write", "writing", "answer"}]
<1> DEFINE P == /\ call' \in [Servers -> Calls \cup {None}]
                /\ \A v \in Servers : call'[v] = None <=> at'[v] = "ready"
                /\ at' \in [Servers -> {"ready", "refresh", "reopen", "open", "write", "writing", "answer"}]
<1> USE ServerTypes
<1>1. ASSUME NEW a \in {"refresh", "reopen", "open", "write", "writing", "answer"}, NEW c \in Calls,
             at' = [at EXCEPT ![s] = a], call' = [call EXCEPT ![s] = c]
      PROVE  P
  BY <1>1
<1>2. ASSUME NEW a \in {"refresh", "reopen", "open", "write", "writing", "answer"}, at[s] # "ready",
             at' = [at EXCEPT ![s] = a], call' = call
      PROVE  P
  BY <1>2
<1>3. ASSUME Idle(s) PROVE P
  BY <1>3 DEF Idle
<1>4. ASSUME at[s] # "ready" PROVE call[s] \in Calls
  BY <1>4
<1>5. ASSUME NEW b \in BOOLEAN, at[s] # "ready",
             NEW a \in {"refresh", "reopen", "open", "write", "writing", "answer"},
             at' = [at EXCEPT ![s] = a], call' = [call EXCEPT ![s].refreshed = b]
      PROVE  P
  <2>1. PICK c : c = [call[s] EXCEPT !.refreshed = b]
    OBVIOUS
  <2>2. c \in Calls
    BY <1>4, <1>5, <2>1, CallUpdates
  <2>3. call' = [call EXCEPT ![s] = c]
    BY <1>5, <2>1
  <2> HIDE DEF P
  <2> QED
    BY <1>1, <1>5, <2>2, <2>3
<1> SUFFICES P
  OBVIOUS
<1> HIDE DEF P
<1>6. CASE \E tool \in {"search", "write_note"} : Take(s, tool)
  <2>1. PICK tool \in {"search", "write_note"} : Take(s, tool)
    BY <1>6
  <2>2. PICK c : c = [tool |-> tool, before |-> reported, cites |-> {}, refreshed |-> FALSE]
    OBVIOUS
  <2>3. c \in Calls
    BY <2>2, NewCall
  <2> QED
    BY <1>1, <2>1, <2>2, <2>3 DEF Take, Move
<1>7. CASE CompareMembers(s)
  BY <1>2, <1>5, <1>7, AfterOpenIs DEF CompareMembers, Move
<1>8. CASE ReadMembers(s)
  BY <1>2, <1>8 DEF ReadMembers, Move
<1>9. CASE OpenMember(s)
  <2>1. at[s] = "open" /\ call' = call /\ at' = at
    BY <1>9 DEF OpenMember
  <2> QED
    BY <2>1 DEF P
<1>10. CASE Remount(s)
  BY <1>5, <1>10, AfterOpenIs DEF Remount, Move
<1>11. CASE OpenFails(s)
  BY <1>5, <1>11, AfterOpenIs DEF OpenFails, Move
<1>12. CASE StartWrite(s)
  BY <1>2, <1>12 DEF StartWrite, Move
<1>13. CASE NoteWritten(s)
  <2>1. PICK r : r = <<job[s].note, RowBase(buf[s])>>
    OBVIOUS
  <2>2. r \in Notes \X Nat
    BY <1>13, <2>1, ServersAssumption, ReportCloses DEF NoteWritten
  <2>3. {r} \in SUBSET (Notes \X Nat) /\ call[s] \in Calls
    BY <1>4, <1>13, <2>2 DEF NoteWritten, Move
  <2>4. PICK c : c = [call[s] EXCEPT !.cites = {r}]
    OBVIOUS
  <2>5. c \in Calls
    BY <2>3, <2>4, CallUpdates
  <2>6. call' = [call EXCEPT ![s] = c]
    BY <1>13, <2>1, <2>4 DEF NoteWritten
  <2> QED
    BY <1>1, <1>13, <2>5, <2>6 DEF NoteWritten, Move
<1>14. CASE WriteFails(s) \/ Answer(s)
  BY <1>3, <1>14 DEF WriteFails, Answer
<1> QED
  BY <1>6, <1>7, <1>8, <1>9, <1>10, <1>11, <1>12, <1>13, <1>14 DEF ServerStep

\* What a server has open, or is opening, keeps its type.
LEMMA ChainTypeStep ==
    ASSUME IInv, epoch \in Nat, ServerTypeOK, NEW s \in Servers, OpeningTyped(s), ServerStep(s)
    PROVE  /\ mounted' \in [Servers -> Chains]
           /\ opening' \in [Servers -> Chains \cup {None}]
           /\ calls' \in [Servers -> 0 .. MaxCalls]
<1> USE ServerTypes
<1>1. CASE \E tool \in {"search", "write_note"} : Take(s, tool)
  BY <1>1, ServersAssumption DEF Take
<1>2. CASE ReadMembers(s)
  <2>1. Opened(journal.members, <<>>) \in Chains
    <3>1. journal.members \in Seq(Files) /\ <<>> \in Contents
      BY Names DEF IInv, Contents
    <3> QED
      BY <3>1 DEF Opened, Chains
  <2> QED
    BY <1>2, <2>1 DEF ReadMembers
<1>3. CASE OpenMember(s)
  <2>1. PICK f \in DOMAIN disk : at[s] = "open" /\ opening' = [opening EXCEPT ![s].contents = disk[f]]
    BY <1>3 DEF OpenMember
  <2>2. PICK c : c = [opening[s] EXCEPT !.contents = disk[f]]
    OBVIOUS
  <2>3. c \in Chains
    BY <2>1, <2>2, ChainUpdates DEF OpeningTyped, IInv, Control, TypeOK
  <2>4. opening' = [opening EXCEPT ![s] = c]
    BY <2>1, <2>2
  <2> QED
    BY <1>3, <2>3, <2>4 DEF OpenMember
<1>4. CASE Remount(s)
  <2>1. opening[s] \in Chains
    BY <1>4 DEF Remount, OpeningTyped
  <2> QED
    BY <1>4, <2>1 DEF Remount
<1>5. CASE CompareMembers(s) \/ OpenFails(s) \/ StartWrite(s) \/ NoteWritten(s) \/ WriteFails(s) \/ Answer(s)
  BY <1>5 DEF CompareMembers, OpenFails, StartWrite, NoteWritten, WriteFails, Answer
<1> QED
  BY <1>1, <1>2, <1>3, <1>4, <1>5 DEF ServerStep

LEMMA ServerTypeStep ==
    ASSUME IInv, SInv, [ServerNext]_allVars
    PROVE  ServerTypeOK'
<1>0. present' = present
  BY DEF ServerNext, allVars
<1>1. ASSUME UNCHANGED <<at, call, mounted, opening, calls>> PROVE ServerTypeOK'
  BY <1>0, <1>1 DEF SInv, ServerTypeOK
<1>2. CASE UNCHANGED allVars
  BY <1>1, <1>2 DEF allVars, serverVars
<1>3. ASSUME NEW w \in Writers, WriterStep(w) PROVE ServerTypeOK'
  BY <1>1, <1>3, WritersStay
<1>4. ASSUME NEW s \in Servers, ServerStep(s) PROVE ServerTypeOK'
  <2>1. ServerTypeOK /\ epoch \in Nat /\ OpeningTyped(s)
    BY <1>4 DEF SInv, ServerSound
  <2>2. present' \subseteq Writers
    BY <1>0, <2>1 DEF ServerTypeOK
  <2> QED
    BY <1>4, <2>1, <2>2, CallTypeStep, ChainTypeStep DEF ServerTypeOK
<1> QED
  BY <1>2, <1>3, <1>4 DEF ServerNext

LEMMA StepContext ==
    ASSUME Existing, IInv, IInv', SInv, [ServerNext]_allVars
    PROVE  Context
BY JournalStep, ToldStep DEF Context, SInv

LEMMA StepSInv ==
    ASSUME Existing, IInv, IInv', SInv, [ServerNext]_allVars
    PROVE  SInv'
<1>1. Context
  BY StepContext
<1>2. ServerTypeOK' /\ epoch' \in Nat /\ Told'
  BY <1>1, ServerTypeStep, ContextFacts DEF Context
<1>3. ASSUME NEW v \in Servers PROVE ServerSound(v)'
  <2>0. ServerSound(v)
    BY <1>3 DEF SInv
  <2>1. CASE at'[v] = at[v] /\ call'[v] = call[v] /\ mounted'[v] = mounted[v] /\ opening'[v] = opening[v]
    BY <1>1, <1>3, <2>0, <2>1, SoundKept
  <2>2. CASE UNCHANGED allVars
    BY <2>1, <2>2 DEF allVars, serverVars
  <2>3. ASSUME NEW w \in Writers, WriterStep(w) PROVE ServerSound(v)'
    BY <2>1, <2>3, WritersStay
  <2>4. ASSUME NEW s \in Servers, ServerStep(s) PROVE ServerSound(v)'
    <3>1. CASE v = s
      BY <1>1, <2>0, <2>4, <3>1, OwnStepSound
    <3>2. CASE v # s
      BY <1>3, <2>1, <2>4, <3>2, OthersStay DEF SInv
    <3> QED
      BY <3>1, <3>2
  <2> QED
    BY <2>2, <2>3, <2>4 DEF ServerNext
<1> QED
  BY <1>2, <1>3 DEF SInv

LEMMA InitSInv == ASSUME ServerInit PROVE IInv /\ SInv
<1> DEFINE c == Opened(journal.members, Identity(journal.members))
<1>1. Existing /\ Init
  BY ServedJournalAssumption DEF ServerInit
<1>2. IInv
  BY <1>1, InitIInv
<1>3. ~replacing /\ reported = {}
  BY <1>1 DEF Init
<1>4. /\ Identity(journal.members) \in Contents
      /\ RecordsOf(Identity(journal.members)) = Shown /\ Shown \in Lists
      /\ Settled(journal.members)
  BY <1>2, <1>3, HeadIsLog
<1>5. c \in Chains /\ c.members = journal.members /\ c.contents = Identity(journal.members) /\ c.epoch = 0
  <2>1. journal.members \in Seq(Files) /\ epoch = 0
    BY <1>2, Names DEF IInv, ServerInit
  <2> QED
    BY <1>4, <2>1 DEF Opened, Chains
<1>6. \A s \in Servers : mounted[s] = c /\ at[s] = "ready"
  BY DEF ServerInit
<1>7. ServerTypeOK
  <2>1. mounted \in [Servers -> Chains]
    BY <1>5 DEF ServerInit
  <2> QED
    BY <2>1, ServersAssumption DEF ServerTypeOK, ServerInit
<1> HIDE DEF c
<1>8. epoch = 0
  BY DEF ServerInit
<1>9. Told
  BY <1>3 DEF Told
<1>10. ASSUME NEW s \in Servers PROVE ServerSound(s)
  <2>1. at[s] = "ready" /\ mounted[s] = c
    BY <1>6
  <2>2. View(s) = Shown
    BY <1>4, <1>5, <2>1 DEF View
  <2>3. MountedSound(s)
    BY <1>4, <1>5, <2>1, <2>2, BeginsFacts DEF MountedSound
  <2> QED
    BY <1>5, <1>8, <2>1, <2>3 DEF ServerSound, OpeningTyped, DueTold, OpeningSound, CitesSound, AnswerSound
<1> QED
  BY <1>2, <1>7, <1>8, <1>9, <1>10 DEF SInv

\* The inductive invariant of the servers of a journal.
THEOREM ServerInvariant == ServerSpec => [](IInv /\ SInv)
<1>1. ServerInit => IInv /\ SInv
  BY InitSInv
<1>2. (IInv /\ SInv) /\ [ServerNext]_allVars => (IInv /\ SInv)'
  <2> SUFFICES ASSUME IInv, SInv, [ServerNext]_allVars PROVE IInv' /\ SInv'
    OBVIOUS
  <2>1. IInv'
    BY JournalStep, StepIInv, ServedJournalAssumption
  <2> QED
    BY <2>1, StepSInv, ServedJournalAssumption
<1> QED
  BY <1>1, <1>2, PTL DEF ServerSpec

\* Whatever compacts, replaces or writes to the journal meanwhile, and however
\* openings fail: a server's chain is one the journal was, and an answer from it
\* shows every note reported before the call came in and the note the call wrote.
THEOREM AnswersStayCurrent == ServerSpec => []AnswersCurrent
<1>1. IInv /\ SInv => AnswersCurrent
  <2> SUFFICES ASSUME IInv, SInv PROVE AnswersCurrent
    OBVIOUS
  <2>1. ServerTypeOK /\ \A s \in Servers : ServerSound(s)
    BY DEF SInv
  <2>2. ViewIsOfTheLog
    <3> SUFFICES ASSUME Readable(journal.members), NEW s \in Servers, Current(s)
                 PROVE  IsPrefix(View(s), Records(journal.members))
      BY DEF ViewIsOfTheLog
    <3>1. Shown = Records(journal.members) /\ Shown \in Lists
      BY ShownFacts DEF IInv
    <3>2. Begins(View(s), Shown)
      BY <2>1 DEF ServerSound, MountedSound, InTime, Current
    <3> QED
      BY <2>1, <3>1, <3>2, MountedTyped, PrefixIs
  <2>3. ASSUME NEW s \in Servers, NEW r, Holds(View(s), r) PROVE Shows(s, r[1], r[2])
    <3>1. View(s) \in Lists
      BY <2>1, MountedTyped
    <3>2. DOMAIN View(s) = 1 .. Len(View(s))
      BY <3>1, LenProperties DEF Lists
    <3> QED
      BY <2>3, <3>2 DEF Shows, Holds
  <2>4. CallsSeeReportedNotes
    <3> SUFFICES ASSUME NEW s \in Servers, at[s] = "answer", call[s].refreshed, Current(s),
                        NEW r \in call[s].before \cap reported
                 PROVE  Holds(View(s), r)
      BY <2>3 DEF CallsSeeReportedNotes
    <3> QED
      BY <2>1 DEF ServerSound, AnswerSound, InTime, Current, Due
  <2>5. WrittenNoteShown
    <3> SUFFICES ASSUME NEW s \in Servers, at[s] = "answer", call[s].refreshed, ~replacing,
                        NEW r \in call[s].cites \cap reported
                 PROVE  Holds(View(s), r)
      BY <2>3 DEF WrittenNoteShown
    <3>1. mounted[s].epoch = epoch
      BY <2>1 DEF ServerSound, CitesSound
    <3> QED
      BY <2>1, <3>1 DEF ServerSound, AnswerSound, InTime, Due
  <2> QED
    BY <2>1, <2>2, <2>4, <2>5 DEF AnswersCurrent
<1> QED
  BY <1>1, ServerInvariant, PTL

\* A server never goes back to an older chain while the journal is not replaced.
THEOREM ServersNeverGoBack == ServerSpec => ViewNeverShrinks
<1>1. (IInv /\ SInv) /\ (IInv /\ SInv)' /\ [ServerNext]_allVars
        => [\A s \in Servers : Current(s) => IsPrefix(View(s), View(s)')]_allVars
  <2> SUFFICES ASSUME IInv, SInv, IInv', SInv', [ServerNext]_allVars, NEW s \in Servers, Current(s)
               PROVE  IsPrefix(View(s), View(s)')
    OBVIOUS
  <2>1. Context /\ ServerTypeOK /\ ServerSound(s)
    BY StepContext, ServedJournalAssumption DEF SInv
  <2>2. View(s) \in Lists /\ mounted[s] \in Chains
    BY <2>1, MountedTyped
  <2>3. ASSUME mounted'[s] = mounted[s] PROVE Begins(View(s), View(s)') /\ View(s)' \in Lists
    BY <2>2, <2>3, BeginsFacts DEF View
  <2>4. CASE Remount(s)
    <3>1. Begins(View(s), View(s)')
      BY <2>1, <2>4, RemountSound
    <3>2. View(s)' \in Lists
      <4>1. mounted'[s] \in Chains
        BY DEF SInv, ServerTypeOK
      <4> QED
        BY <4>1, ChainFacts DEF View
    <3> QED
      BY <2>2, <3>1, <3>2, PrefixIs
  <2>5. CASE ~Remount(s)
    <3>1. mounted'[s] = mounted[s]
      <4>1. CASE UNCHANGED allVars
        BY <4>1 DEF allVars, serverVars
      <4>2. ASSUME NEW w \in Writers, WriterStep(w) PROVE mounted'[s] = mounted[s]
        BY <4>2, WritersStay
      <4>3. ASSUME NEW v \in Servers, ServerStep(v), v # s PROVE mounted'[s] = mounted[s]
        BY <2>1, <4>3, OthersStay
      <4>4. CASE ServerStep(s)
        BY <2>5, <4>4 DEF ServerStep, Take, CompareMembers, ReadMembers, OpenMember, OpenFails,
            StartWrite, NoteWritten, WriteFails, Answer
      <4> QED
        BY <4>1, <4>2, <4>3, <4>4 DEF ServerNext
    <3> QED
      BY <2>2, <2>3, <3>1, PrefixIs
  <2> QED
    BY <2>4, <2>5
<1> QED
  BY <1>1, ServerInvariant, PTL DEF ServerSpec, ViewNeverShrinks
=============================================================================
