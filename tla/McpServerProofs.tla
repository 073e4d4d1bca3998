-------------------------- MODULE McpServerProofs --------------------------
(****************************************************************************)
(* The safety of the MCP server for any number of packs, requests, notes    *)
(* and journals that change underneath it.                                  *)
(****************************************************************************)
EXTENDS McpServer, FiniteSetTheorems, SequenceTheorems, TLAPS

(****************************************************************************)
(* The inductive invariant.                                                 *)
(****************************************************************************)

Places == {"idle", "refresh", "run", "reopen"} \cup Kinds
Replies == {"pong", "result", "error", "provisional", "written", "list_changed"}
Lines == [id : Nat, kind : Kinds]
Messages == [kind : Replies, id : Nat, packs : SUBSET Mounts]

Types ==
    /\ mount \in [Mounts -> {"pending", "ok", "failed"}] /\ ready \in {"pending", "done", "faulted"}
    /\ serving \in [Mounts -> Nat] /\ engines \subseteq Mounts \X Nat
    /\ warming \subseteq Mounts \X (Nat \ {0})
    /\ members \in 1 .. MaxMembers /\ view \in 0 .. members
    /\ stdin \in Seq(Lines) /\ closed \in BOOLEAN /\ sent \in Nat
    /\ now \in [at : Places, id : Nat, kind : Kinds \cup {"none"}]
    /\ provisional \in BOOLEAN /\ written \in 0 .. Notes
    /\ status \in {"running", "draining", "0", "1"}
    /\ out \in Seq(Messages) /\ appended \in Nat

\* The requests are answered, in hand and waiting, in this order.
InHand == IF now = Idle THEN 0 ELSE 1
InOrder ==
    /\ now # Idle => now.id = Answered(Len(out)) + 1 /\ now.at # "idle"
    /\ \A i \in 1 .. Len(stdin) : stdin[i].id = Answered(Len(out)) + InHand + i
    /\ sent = Answered(Len(out)) + InHand + Len(stdin)

\* A pack is served when its mount went well, and the journal while it reopens.
Served ==
    /\ \A m \in Mounts : mount[m] = "ok" <=> serving[m] # 0
    /\ Settled => \A m \in Mounts : mount[m] # "pending"
    /\ engines = IF status \in {"0", "1"} THEN {} ELSE {Engine(m) : m \in Mounted}

\* What the loop has got to know where it is.
Reached ==
    /\ status # "running" => now = Idle
    /\ now.at \in {"refresh", "run", "reopen"} => Settled
    /\ now.at \in {"refresh", "reopen"} => mount[Journal] = "ok"
    /\ now.at = "reopen" => written < Notes
    /\ \A i \in 1 .. Len(out) : out[i].kind \in {"result", "written"} => Settled

\* A provisional list is remembered until it is followed up.
Provisional ==
    /\ (\E i \in 1 .. Len(out) : out[i].kind = "provisional") => provisional
    /\ Settled /\ Open /\ provisional => \E i \in 1 .. Len(out) : out[i].kind = "list_changed"

Ended ==
    /\ status \in {"0", "1"} => Settled
    /\ status = "0" => Failures = {}

IInv ==
    /\ Types /\ InOrder /\ Served /\ Reached /\ Provisional /\ Ended
    /\ AnsweredInOrder /\ CallsSeeEveryMount /\ WrittenIsReported

-----------------------------------------------------------------------------
(****************************************************************************)
(* Counting messages.                                                       *)
(****************************************************************************)

LEMMA Counts ==
    ASSUME NEW n \in Nat, NEW S \in SUBSET (1 .. n)
    PROVE  /\ IsFiniteSet(S) /\ Cardinality(S) \in Nat
           /\ Cardinality(S \cup {n + 1}) = Cardinality(S) + 1
<1>1. IsFiniteSet(1 .. n)
  BY FS_Interval
<1>2. IsFiniteSet(S)
  BY <1>1, FS_Subset
<1>3. n + 1 \notin S
  OBVIOUS
<1> QED
  BY <1>2, <1>3, FS_CardinalityType, FS_AddElement

LEMMA Numbers ==
    ASSUME Types, NEW n \in Nat
    PROVE  Answered(n) \in Nat /\ Reported(n) \in Nat
BY Counts DEF Answered, Reported

\* One more message.
LEMMA OneMore ==
    ASSUME Types, NEW msg \in Messages, out' = Append(out, msg)
    PROVE  /\ Len(out) \in Nat /\ Len(out') = Len(out) + 1 /\ out' \in Seq(Messages)
           /\ \A i \in 1 .. Len(out) : out'[i] = out[i]
           /\ out'[Len(out) + 1] = msg
           /\ \A i \in 0 .. Len(out) : Answered(i)' = Answered(i)
           /\ Answered(Len(out))' = Answered(Len(out)) + (IF msg.id # 0 THEN 1 ELSE 0)
           /\ Reported(Len(out))' = Reported(Len(out)) + (IF msg.kind = "written" THEN 1 ELSE 0)
<1>n. PICK n : n = Len(out)
  OBVIOUS
<1>1. /\ n \in Nat /\ Len(out') = n + 1 /\ out' \in Seq(Messages)
      /\ \A i \in 1 .. n : out'[i] = out[i]
      /\ out'[n + 1] = msg
  BY <1>n, AppendProperties DEF Types
<1>2. ASSUME NEW i \in 0 .. n PROVE Answered(i)' = Answered(i) /\ Reported(i)' = Reported(i)
  <2>1. \A j \in 1 .. i : out'[j] = out[j]
    BY <1>1
  <2>2. {j \in 1 .. i : out'[j].id # 0} = {j \in 1 .. i : out[j].id # 0}
    BY <2>1
  <2>3. {j \in 1 .. i : out'[j].kind = "written"} = {j \in 1 .. i : out[j].kind = "written"}
    BY <2>1
  <2> QED
    BY <2>2, <2>3 DEF Answered, Reported
<1>3. 1 .. n + 1 = (1 .. n) \cup {n + 1}
  BY <1>1
<1>4. Answered(n + 1)' = Answered(n) + (IF msg.id # 0 THEN 1 ELSE 0)
  <2> DEFINE S == {j \in 1 .. n : out[j].id # 0}
  <2>1. {j \in 1 .. n + 1 : out'[j].id # 0} = IF msg.id # 0 THEN S \cup {n + 1} ELSE S
    BY <1>1, <1>3
  <2>2. /\ S \in SUBSET (1 .. n)
        /\ Cardinality(S) \in Nat /\ Cardinality(S \cup {n + 1}) = Cardinality(S) + 1
    BY <1>1, Counts
  <2>3. Answered(n) = Cardinality(S)
    BY DEF Answered
  <2>4. Answered(n + 1)' = Cardinality(IF msg.id # 0 THEN S \cup {n + 1} ELSE S)
    BY <2>1 DEF Answered
  <2> HIDE DEF S
  <2> QED
    BY <2>2, <2>3, <2>4
<1>5. Reported(n + 1)' = Reported(n) + (IF msg.kind = "written" THEN 1 ELSE 0)
  <2> DEFINE S == {j \in 1 .. n : out[j].kind = "written"}
  <2>1. {j \in 1 .. n + 1 : out'[j].kind = "written"} = IF msg.kind = "written" THEN S \cup {n + 1} ELSE S
    BY <1>1, <1>3
  <2>2. /\ S \in SUBSET (1 .. n)
        /\ Cardinality(S) \in Nat /\ Cardinality(S \cup {n + 1}) = Cardinality(S) + 1
    BY <1>1, Counts
  <2>3. Reported(n) = Cardinality(S)
    BY DEF Reported
  <2>4. Reported(n + 1)' = Cardinality(IF msg.kind = "written" THEN S \cup {n + 1} ELSE S)
    BY <2>1 DEF Reported
  <2> HIDE DEF S
  <2> QED
    BY <2>2, <2>3, <2>4
<1>6. Answered(Len(out))' = Answered(n + 1)' /\ Reported(Len(out))' = Reported(n + 1)'
  BY <1>1 DEF Answered, Reported
<1> QED
  BY <1>n, <1>1, <1>2, <1>4, <1>5, <1>6

-----------------------------------------------------------------------------
(****************************************************************************)
(* What a step does to the conversation: nothing, a notice, an answer to    *)
(* the request in hand, some way with it, or one more line read or sent.    *)
(****************************************************************************)

talkVars == <<out, now, stdin, sent>>

Notice == out' = Append(out, ListChanged) /\ UNCHANGED <<now, stdin, sent>>

Reply ==
    /\ now # Idle /\ now' = Idle /\ UNCHANGED <<stdin, sent>>
    /\ \E kind \in Replies \ {"list_changed"} :
        /\ out' = Append(out, [kind |-> kind, id |-> now.id, packs |-> Mounted])
        /\ kind \in {"result", "written"} => Settled
        /\ kind = "written" <=> now.at = "reopen"
        /\ kind = "provisional" => provisional' /\ ~Settled
    /\ appended' = appended

Way ==
    /\ now # Idle /\ now' # Idle /\ now'.id = now.id /\ now'.at # "idle"
    /\ UNCHANGED <<out, stdin, sent>>
    /\ \/ now.at # "reopen" /\ now'.at # "reopen" /\ appended' = appended
       \/ now.at # "reopen" /\ now'.at = "reopen" /\ appended' = appended + 1

Read ==
    /\ now = Idle /\ stdin # <<>> /\ stdin' = Tail(stdin) /\ UNCHANGED <<out, sent>>
    /\ now'.id = Head(stdin).id /\ now'.at \in Kinds
    /\ appended' = appended

Sent ==
    /\ sent' = sent + 1 /\ UNCHANGED <<out, now>>
    /\ \E kind \in Kinds : stdin' = Append(stdin, [id |-> sent + 1, kind |-> kind])
    /\ appended' = appended

Talk ==
    \/ UNCHANGED <<talkVars, appended>>
    \/ Notice /\ appended' = appended
    \/ Reply \/ Way \/ Read \/ Sent

LEMMA StepTalks == IInv /\ [Next]_vars => Talk
<1> SUFFICES ASSUME IInv, [Next]_vars PROVE Talk
  OBVIOUS
<1> USE DEF talkVars, mountVars, readerVars, clientVars, loopVars
<1>t. Types /\ Reached
  BY DEF IInv
<1>1. CASE UNCHANGED vars
  BY <1>1 DEF vars, Talk
<1>2. CASE \/ OtherWrites \/ CloseStdin \/ LoopEnds \/ Exit
           \/ \E m \in Mounts : MountOk(m) \/ MountFails(m)
           \/ \E e \in warming : WarmupEnds(e)
  BY <1>2 DEF OtherWrites, CloseStdin, LoopEnds, Exit, MountOk, MountFails, WarmupEnds, Talk
<1>3. CASE MountsDone \/ MountsFault
  BY <1>3 DEF MountsDone, MountsFault, Settle, Talk, Notice
<1>4. CASE \E kind \in Kinds : Send(kind)
  BY <1>4 DEF Send, Talk, Sent
<1>5. CASE ReadLine
  <2>1. stdin # <<>> /\ Head(stdin) \in Lines
    BY <1>5, <1>t, HeadTailProperties DEF ReadLine, Types
  <2> QED
    BY <1>5, <2>1 DEF ReadLine, Talk, Read, Lines
<1>6. CASE Ping \/ ListTools \/ GraceExpires \/ Search \/ WriteFails \/ ReopenWritten
  <2>1. now # Idle
    BY <1>6 DEF Ping, ListTools, GraceExpires, Search, WriteFails, ReopenWritten, Idle
  <2>2. CASE Ping
    BY <2>1, <2>2 DEF Ping, Answer, Talk, Reply, Replies
  <2>3. CASE ListTools
    BY <2>1, <2>3 DEF ListTools, Answer, Talk, Reply, Replies
  <2>4. CASE GraceExpires
    BY <2>1, <2>4 DEF GraceExpires, Answer, Talk, Reply, Replies
  <2>5. CASE Search
    BY <2>1, <2>5, <1>t DEF Search, Answer, Talk, Reply, Replies, Reached
  <2>6. CASE WriteFails
    BY <2>1, <2>6 DEF WriteFails, Answer, Talk, Reply, Replies
  <2>7. CASE ReopenWritten
    BY <2>1, <2>7, <1>t DEF ReopenWritten, Answer, Talk, Reply, Replies, Reached
  <2> QED
    BY <1>6, <2>2, <2>3, <2>4, <2>5, <2>6, <2>7
<1>7. CASE MountsUsable
  <2>1. now # Idle
    BY <1>7 DEF MountsUsable, Idle
  <2>2. CASE NoneUsable
    BY <1>7, <2>1, <2>2 DEF MountsUsable, Answer, Talk, Reply, Replies
  <2>3. CASE ~NoneUsable
    BY <1>7, <1>t, <2>1, <2>3 DEF MountsUsable, Goto, Talk, Way, Types, Idle
  <2> QED
    BY <2>2, <2>3
<1>8. CASE Refresh
  BY <1>8, <1>t DEF Refresh, Goto, Talk, Way, Types, Idle
<1>9. CASE AppendNote
  BY <1>9, <1>t DEF AppendNote, Goto, Talk, Way, Types, Idle
<1> QED
  BY <1>1, <1>2, <1>3, <1>4, <1>5, <1>6, <1>7, <1>8, <1>9 DEF Next, MountStep, LoopStep

-----------------------------------------------------------------------------
(****************************************************************************)
(* Each part of the invariant is kept.                                      *)
(****************************************************************************)

LEMMA MessageTypes ==
    ASSUME Types
    PROVE  /\ ListChanged \in Messages
           /\ \A kind \in Replies, id \in Nat : [kind |-> kind, id |-> id, packs |-> Mounted] \in Messages
BY DEF ListChanged, Messages, Replies, Mounted

LEMMA TalkTypes ==
    ASSUME Types, Talk
    PROVE  /\ out' \in Seq(Messages) /\ stdin' \in Seq(Lines) /\ sent' \in Nat /\ appended' \in Nat
<1>1. CASE Notice /\ appended' = appended
  <2>1. out' \in Seq(Messages)
    BY <1>1, MessageTypes, OneMore DEF Notice
  <2> QED
    BY <1>1, <2>1 DEF Notice, Types
<1>2. CASE Reply
  <2>1. PICK msg \in Messages : out' = Append(out, msg)
    BY <1>2, MessageTypes DEF Reply, Types
  <2> QED
    BY <1>2, <2>1, OneMore DEF Reply, Types
<1>3. CASE Read
  BY <1>3, HeadTailProperties DEF Read, Types
<1>4. CASE Sent
  BY <1>4, AppendProperties DEF Sent, Types, Lines
<1> QED
  BY <1>1, <1>2, <1>3, <1>4 DEF Talk, talkVars, Way, Types, Notice

LEMMA TypesStep == IInv /\ [Next]_vars => Types'
<1> SUFFICES ASSUME IInv, [Next]_vars PROVE Types'
  OBVIOUS
<1> USE DEF mountVars, readerVars, clientVars, loopVars
<1>t. Types /\ Served /\ Reached
  BY DEF IInv
<1>m. Journal \in Mounts /\ MaxMembers \in Nat /\ Notes \in Nat
  BY LimitsAssumption DEF Journal, Mounts
<1>1. out' \in Seq(Messages) /\ stdin' \in Seq(Lines) /\ sent' \in Nat /\ appended' \in Nat
  BY <1>t, StepTalks, TalkTypes
<1>2. CASE UNCHANGED vars
  BY <1>t, <1>2 DEF vars, Types
<1>3. ASSUME NEW m \in Mounts, MountOk(m) \/ MountFails(m) PROVE Types'
  <2>1. CASE MountOk(m)
    <3>1. /\ mount' \in [Mounts -> {"pending", "ok", "failed"}] /\ serving' \in [Mounts -> Nat]
          /\ engines' \subseteq Mounts \X Nat
      BY <1>t, <2>1 DEF MountOk, Types
    <3>2. view' \in 0 .. members /\ members' = members
      BY <1>t, <1>m, <2>1 DEF MountOk, Types
    <3> QED
      BY <1>t, <1>1, <2>1, <3>1, <3>2 DEF MountOk, Types
  <2>2. CASE MountFails(m)
    BY <1>t, <1>1, <2>2 DEF MountFails, Types
  <2> QED
    BY <1>3, <2>1, <2>2
<1>4. CASE MountsDone \/ MountsFault
  <2>1. warming' \subseteq Mounts \X (Nat \ {0})
    BY <1>t, <1>4 DEF MountsDone, MountsFault, Engine, Mounted, Types
  <2> QED
    BY <1>t, <1>1, <1>4, <2>1 DEF MountsDone, MountsFault, Settle, Types
<1>5. CASE OtherWrites \/ CloseStdin \/ \E e \in warming : WarmupEnds(e)
  <2>1. CASE OtherWrites
    BY <1>t, <1>m, <1>1, <2>1 DEF OtherWrites, Types
  <2>2. CASE CloseStdin
    BY <1>t, <1>1, <2>2 DEF CloseStdin, Types
  <2>3. CASE \E e \in warming : WarmupEnds(e)
    BY <1>t, <1>1, <2>3 DEF WarmupEnds, Types
  <2> QED
    BY <1>5, <2>1, <2>2, <2>3
<1>6. CASE \E kind \in Kinds : Send(kind)
  BY <1>t, <1>1, <1>6 DEF Send, Types
<1>7. CASE ReadLine
  <2>1. Head(stdin) \in Lines
    BY <1>7, <1>t, HeadTailProperties DEF ReadLine, Types
  <2> QED
    BY <1>t, <1>1, <1>7, <2>1 DEF ReadLine, Types, Lines, Places
<1>8. CASE Ping \/ ListTools \/ GraceExpires \/ Search \/ WriteFails \/ MountsUsable
  <2>1. now' \in [at : Places, id : Nat, kind : Kinds \cup {"none"}] /\ status' = status
    BY <1>t, <1>8
    DEF Ping, ListTools, GraceExpires, Search, WriteFails, MountsUsable, Answer, Goto, Idle, Types, Places
  <2> QED
    BY <1>t, <1>1, <1>8, <2>1 DEF Ping, ListTools, GraceExpires, Search, WriteFails, MountsUsable, Types
<1>9. ASSUME NEW opens \in BOOLEAN, Reopen(opens)
      PROVE  /\ serving' \in [Mounts -> Nat] /\ engines' \subseteq Mounts \X Nat /\ warming' = warming
             /\ view' \in {view, members}
  <2>1. CASE opens
    <3>1. serving' = [serving EXCEPT ![Journal] = @ + 1] /\ view' = members /\ warming' = warming
          /\ engines' = (engines \ {Engine(Journal)}) \cup {<<Journal, serving[Journal] + 1>>}
      BY <1>9, <2>1 DEF Reopen
    <3>2. serving[Journal] + 1 \in Nat
      BY <1>t, <1>m DEF Types
    <3> QED
      BY <1>t, <1>m, <3>1, <3>2 DEF Types
  <2>2. CASE ~opens
    BY <1>t, <1>9, <2>2 DEF Reopen, Types
  <2> QED
    BY <2>1, <2>2
<1>10. CASE Refresh
  <2>1. now' \in [at : Places, id : Nat, kind : Kinds \cup {"none"}] /\ status' = status
    BY <1>t, <1>10 DEF Refresh, Goto, Types, Places
  <2>2. /\ serving' \in [Mounts -> Nat] /\ engines' \subseteq Mounts \X Nat /\ warming' = warming
        /\ view' \in {view, members}
    BY <1>t, <1>9, <1>10 DEF Refresh, Types
  <2>3. view' \in 0 .. members /\ members' = members
    BY <1>t, <1>10, <2>2 DEF Refresh, Types
  <2> QED
    BY <1>t, <1>1, <1>10, <2>1, <2>2, <2>3 DEF Refresh, Types
<1>11. CASE AppendNote
  <2>1. now' \in [at : Places, id : Nat, kind : Kinds \cup {"none"}] /\ status' = status
    BY <1>t, <1>11 DEF AppendNote, Goto, Types, Places
  <2>2. members' \in 1 .. MaxMembers /\ view' \in 0 .. members'
    BY <1>t, <1>m, <1>11 DEF AppendNote, Types
  <2> QED
    BY <1>t, <1>1, <1>11, <2>1, <2>2 DEF AppendNote, Types
<1>12. CASE ReopenWritten
  <2>1. now' \in [at : Places, id : Nat, kind : Kinds \cup {"none"}] /\ status' = status
    BY <1>12 DEF ReopenWritten, Answer, Idle, Places
  <2>2. /\ serving' \in [Mounts -> Nat] /\ engines' \subseteq Mounts \X Nat /\ warming' = warming
        /\ view' \in {view, members}
    BY <1>9, <1>12 DEF ReopenWritten
  <2>3. view' \in 0 .. members /\ members' = members
    BY <1>t, <1>12, <2>2 DEF ReopenWritten, Types
  <2>4. written' \in 0 .. Notes
    BY <1>t, <1>m, <1>12 DEF ReopenWritten, Types, Reached
  <2> QED
    BY <1>t, <1>1, <1>12, <2>1, <2>2, <2>3, <2>4 DEF ReopenWritten, Types
<1>13. CASE LoopEnds
  BY <1>t, <1>1, <1>13 DEF LoopEnds, Types
<1>14. CASE Exit
  BY <1>t, <1>1, <1>14 DEF Exit, Types
<1> QED
  BY <1>2, <1>3, <1>4, <1>5, <1>6, <1>7, <1>8, <1>10, <1>11, <1>12, <1>13, <1>14
  DEF Next, MountStep, LoopStep

\* Every request is in one place: answered, in hand or waiting.
LEMMA OrderStep == IInv /\ [Next]_vars => InOrder' /\ AnsweredInOrder' /\ WrittenIsReported'
<1> SUFFICES ASSUME IInv, [Next]_vars PROVE InOrder' /\ AnsweredInOrder' /\ WrittenIsReported'
  OBVIOUS
<1>t. Types /\ InOrder /\ AnsweredInOrder /\ WrittenIsReported /\ Types'
  BY TypesStep DEF IInv
<1>n. /\ Len(out) \in Nat /\ Len(stdin) \in Nat /\ DOMAIN out = 1 .. Len(out)
      /\ Answered(Len(out)) \in Nat /\ Reported(Len(out)) \in Nat
  BY <1>t, Numbers, LenProperties DEF Types
<1> USE DEF InHand
<1>1. CASE UNCHANGED <<talkVars, appended>>
  BY <1>t, <1>1 DEF talkVars, InOrder, AnsweredInOrder, WrittenIsReported, Answered, Reported
<1>2. CASE Notice /\ appended' = appended
  <2>1. ListChanged \in Messages /\ ListChanged.id = 0 /\ ListChanged.kind # "written"
    BY <1>t, MessageTypes DEF ListChanged
  <2>2. /\ Len(out') = Len(out) + 1 /\ DOMAIN out' = 1 .. Len(out) + 1
        /\ \A i \in 1 .. Len(out) : out'[i] = out[i] /\ Answered(i)' = Answered(i)
        /\ out'[Len(out) + 1].id = 0
        /\ (Answered(Len(out)))' = Answered(Len(out))
        /\ (Reported(Len(out)))' = Reported(Len(out))
    <3>1. out' = Append(out, ListChanged)
      BY <1>2 DEF Notice
    <3>2. /\ Len(out') = Len(out) + 1 /\ out' \in Seq(Messages)
          /\ \A i \in 1 .. Len(out) : out'[i] = out[i]
          /\ out'[Len(out) + 1] = ListChanged
          /\ \A i \in 0 .. Len(out) : Answered(i)' = Answered(i)
          /\ (Answered(Len(out)))' = Answered(Len(out)) + 0
          /\ (Reported(Len(out)))' = Reported(Len(out)) + 0
      BY <1>t, <2>1, <3>1, OneMore
    <3> QED
      BY <1>n, <2>1, <3>2, LenProperties
  <2>3. InOrder'
    BY <1>t, <1>2, <2>2 DEF InOrder, Notice
  <2>4. AnsweredInOrder'
    BY <1>t, <1>n, <2>2 DEF AnsweredInOrder
  <2> QED
    BY <1>t, <1>2, <2>2, <2>3, <2>4 DEF WrittenIsReported, Notice
<1>3. CASE Reply
  <2>1. PICK kind \in Replies \ {"list_changed"} :
              /\ out' = Append(out, [kind |-> kind, id |-> now.id, packs |-> Mounted])
              /\ kind = "written" <=> now.at = "reopen"
    BY <1>3 DEF Reply
  <2> DEFINE msg == [kind |-> kind, id |-> now.id, packs |-> Mounted]
  <2>2. /\ now.id = Answered(Len(out)) + 1 /\ now # Idle /\ now' = Idle /\ now'.at # "reopen"
        /\ stdin' = stdin /\ sent' = sent /\ appended' = appended
    BY <1>t, <1>3 DEF Reply, InOrder, Idle
  <2>3. msg \in Messages /\ msg.id # 0 /\ msg.kind = kind /\ msg.id = now.id
    BY <1>t, <1>n, <2>2, MessageTypes DEF Types
  <2>4. /\ Len(out') = Len(out) + 1 /\ DOMAIN out' = 1 .. Len(out) + 1
        /\ \A i \in 1 .. Len(out) : out'[i] = out[i] /\ Answered(i)' = Answered(i)
        /\ out'[Len(out) + 1].id = now.id
        /\ (Answered(Len(out)))' = Answered(Len(out)) + 1
        /\ (Reported(Len(out)))' = Reported(Len(out)) + (IF now.at = "reopen" THEN 1 ELSE 0)
    <3>1. out' = Append(out, msg) /\ (msg.kind = "written" <=> now.at = "reopen")
      BY <2>1
    <3> HIDE DEF msg
    <3>2. /\ Len(out') = Len(out) + 1 /\ out' \in Seq(Messages)
          /\ \A i \in 1 .. Len(out) : out'[i] = out[i]
          /\ out'[Len(out) + 1] = msg
          /\ \A i \in 0 .. Len(out) : Answered(i)' = Answered(i)
          /\ (Answered(Len(out)))' = Answered(Len(out)) + (IF msg.id # 0 THEN 1 ELSE 0)
          /\ (Reported(Len(out)))' = Reported(Len(out)) + (IF msg.kind = "written" THEN 1 ELSE 0)
      BY <1>t, <2>3, <3>1, OneMore
    <3> QED
      BY <1>n, <2>3, <3>1, <3>2, LenProperties
  <2>5. InOrder'
    BY <1>t, <1>n, <2>2, <2>4 DEF InOrder
  <2>6. AnsweredInOrder'
    <3>n. PICK n : n = Len(out) + 1
      OBVIOUS
    <3>1. (Answered(Len(out)))' = Answered(n)'
      BY <2>4, <3>n DEF Answered
    <3> QED
      BY <1>t, <1>n, <2>2, <2>4, <3>n, <3>1 DEF AnsweredInOrder
  <2> QED
    BY <1>t, <1>n, <2>2, <2>4, <2>5, <2>6 DEF WrittenIsReported
<1>4. CASE Way
  <2>1. UNCHANGED <<out, stdin, sent>> /\ now # Idle /\ now' # Idle /\ now'.id = now.id /\ now'.at # "idle"
    BY <1>4 DEF Way
  <2>2. InOrder' /\ AnsweredInOrder'
    BY <1>t, <2>1 DEF InOrder, AnsweredInOrder, Answered
  <2>3. (Reported(Len(out)))' = Reported(Len(out))
    BY <2>1 DEF Reported
  <2> QED
    BY <1>t, <1>n, <1>4, <2>2, <2>3 DEF Way, WrittenIsReported
<1>5. CASE Read
  <2>1. /\ Len(stdin') = Len(stdin) - 1 /\ Len(stdin) > 0 /\ Head(stdin) = stdin[1]
        /\ \A i \in 1 .. Len(stdin') : stdin'[i] = stdin[i + 1]
    BY <1>t, <1>5, HeadTailProperties DEF Read, Types
  <2>2. now'.id = stdin[1].id /\ now' # Idle /\ now'.at # "reopen" /\ now'.at # "idle" /\ now.at # "reopen"
    BY <1>5, <2>1 DEF Read, Idle, Kinds
  <2>3. InOrder'
    <3>1. out' = out /\ sent' = sent /\ now = Idle /\ (Answered(Len(out)))' = Answered(Len(out))
      BY <1>5 DEF Read, Answered
    <3>2. \A i \in 1 .. Len(stdin) : stdin[i].id = Answered(Len(out)) + i
      BY <1>t, <1>n, <3>1 DEF InOrder
    <3>3. \A i \in 1 .. Len(stdin') : i + 1 \in 1 .. Len(stdin) /\ stdin'[i] = stdin[i + 1]
      BY <1>n, <2>1
    <3>4. \A i \in 1 .. Len(stdin') : stdin'[i].id = Answered(Len(out)) + 1 + i
      BY <1>n, <3>2, <3>3
    <3>5. stdin[1].id = Answered(Len(out)) + 1
      BY <1>n, <2>1, <3>2
    <3>6. sent = Answered(Len(out)) + 0 + Len(stdin)
      BY <1>t, <3>1 DEF InOrder
    <3> QED
      <4>1. InHand' = 1
        BY <2>2
      <4>2. now'.id = Answered(Len(out)) + 1
        BY <2>2, <3>5
      <4>3. sent' = Answered(Len(out)) + 1 + Len(stdin')
        BY <1>n, <2>1, <3>1, <3>6
      <4> QED
        BY <2>2, <3>1, <3>4, <4>1, <4>2, <4>3 DEF InOrder
  <2> QED
    BY <1>t, <1>5, <2>2, <2>3 DEF Read, AnsweredInOrder, WrittenIsReported, Answered, Reported
<1>6. CASE Sent
  <2>1. /\ Len(stdin') = Len(stdin) + 1
        /\ \A i \in 1 .. Len(stdin) : stdin'[i] = stdin[i]
        /\ stdin'[Len(stdin) + 1].id = sent + 1
    BY <1>t, <1>6, AppendProperties DEF Sent, Types, Lines
  <2>2. InOrder'
    <3>1. out' = out /\ sent' = sent + 1 /\ now' = now /\ (Answered(Len(out)))' = Answered(Len(out))
      BY <1>6 DEF Sent, Answered
    <3>2. \A i \in 1 .. Len(stdin') : stdin'[i].id = Answered(Len(out)) + InHand + i
      <4>1. \A i \in 1 .. Len(stdin) : stdin[i].id = Answered(Len(out)) + InHand + i
        BY <1>t DEF InOrder
      <4>2. stdin'[Len(stdin) + 1].id = Answered(Len(out)) + InHand + (Len(stdin) + 1)
        <5>1. stdin'[Len(stdin) + 1].id = sent + 1 /\ sent = Answered(Len(out)) + InHand + Len(stdin)
          BY <1>t, <2>1 DEF InOrder
        <5>2. InHand \in Nat
          OBVIOUS
        <5> HIDE DEF InHand
        <5> QED
          BY <1>n, <5>1, <5>2
      <4>3. \A i \in 1 .. Len(stdin') : i \in 1 .. Len(stdin) \/ i = Len(stdin) + 1
        BY <1>n, <2>1
      <4> QED
        BY <2>1, <4>1, <4>2, <4>3
    <3> QED
      BY <1>t, <1>n, <2>1, <3>1, <3>2 DEF InOrder
  <2> QED
    BY <1>t, <1>6, <2>2 DEF Sent, AnsweredInOrder, WrittenIsReported, Answered, Reported
<1> QED
  BY <1>1, <1>2, <1>3, <1>4, <1>5, <1>6, StepTalks DEF Talk

\* The engines that are open are those that serve, until the process exits.
LEMMA ServedStep == IInv /\ [Next]_vars => Served'
<1> SUFFICES ASSUME IInv, [Next]_vars PROVE Served'
  OBVIOUS
<1> USE DEF mountVars, readerVars, clientVars, loopVars
<1>t. Types /\ Served /\ Reached
  BY DEF IInv
<1>m. Journal \in Mounts
  BY LimitsAssumption DEF Journal, Mounts
<1>1. ASSUME UNCHANGED <<mount, ready, serving, engines>>, status' \in {status, "draining"}, status' = status \/ Open
      PROVE  Served'
  BY <1>t, <1>1 DEF Served, Settled, Engine, Mounted, Open
<1>2. ASSUME NEW opens \in BOOLEAN, Reopen(opens), UNCHANGED <<mount, ready, status>>,
             mount[Journal] = "ok", status = "running"
      PROVE  Served'
  <2>1. CASE opens
    <3>1. /\ serving' = [serving EXCEPT ![Journal] = @ + 1]
          /\ engines' = (engines \ {Engine(Journal)}) \cup {<<Journal, serving[Journal] + 1>>}
      BY <1>2, <2>1 DEF Reopen
    <3>2. serving[Journal] \in Nat \ {0} /\ serving[Journal] + 1 # 0
      BY <1>t, <1>m, <1>2 DEF Served, Types
    <3>3. \A m \in Mounts : serving'[m] = IF m = Journal THEN serving[Journal] + 1 ELSE serving[m]
      BY <1>t, <1>m, <3>1 DEF Types
    <3>4. Mounted' = Mounted
      BY <1>m, <3>2, <3>3 DEF Mounted
    <3>5. engines' = {Engine(m)' : m \in Mounted'}
      <4>1. engines = {<<m, serving[m]>> : m \in Mounted}
        BY <1>t, <1>2 DEF Served, Engine
      <4>2. Journal \in Mounted /\ Mounted \subseteq Mounts
        BY <1>m, <3>2 DEF Mounted
      <4>3. engines' = {<<m, serving'[m]>> : m \in Mounted}
        BY <3>1, <3>3, <4>1, <4>2 DEF Engine
      <4> QED
        BY <3>4, <4>3 DEF Engine
    <3> QED
      BY <1>t, <1>2, <3>2, <3>3, <3>5 DEF Served, Settled
  <2>2. CASE ~opens
    BY <1>1, <1>2, <2>2 DEF Reopen
  <2> QED
    BY <2>1, <2>2
<1>3. CASE UNCHANGED vars
  BY <1>1, <1>3 DEF vars
<1>4. ASSUME NEW m \in Mounts, MountOk(m) PROVE Served'
  <2>1. /\ mount' = [mount EXCEPT ![m] = "ok"] /\ serving' = [serving EXCEPT ![m] = 1]
        /\ engines' = engines \cup {<<m, 1>>} /\ mount[m] = "pending"
        /\ UNCHANGED <<ready, status>>
    BY <1>4 DEF MountOk, IsNext
  <2>2. ~Settled /\ status \notin {"0", "1"} /\ serving[m] = 0
    BY <1>t, <2>1 DEF Served, IInv, Ended
  <2>3. \A l \in Mounts : serving'[l] = IF l = m THEN 1 ELSE serving[l]
    BY <1>t, <2>1 DEF Types
  <2>4. Mounted' = Mounted \cup {m}
    BY <2>3 DEF Mounted
  <2>5. engines' = {Engine(l)' : l \in Mounted'}
    <3>1. engines = {<<l, serving[l]>> : l \in Mounted} /\ Mounted \subseteq Mounts /\ m \notin Mounted
      BY <1>t, <2>2 DEF Served, Engine, Mounted
    <3>2. {<<l, serving'[l]>> : l \in Mounted \cup {m}} = {<<l, serving[l]>> : l \in Mounted} \cup {<<m, 1>>}
      BY <2>3, <3>1
    <3> QED
      BY <2>1, <2>4, <3>1, <3>2 DEF Engine
  <2>6. \A l \in Mounts : mount'[l] = "ok" <=> serving'[l] # 0
    BY <1>t, <2>1, <2>3 DEF Served, Types
  <2> QED
    BY <2>1, <2>2, <2>5, <2>6 DEF Served, Settled
<1>5. ASSUME NEW m \in Mounts, MountFails(m) PROVE Served'
  <2>1. ~Settled /\ serving[m] = 0
    BY <1>t, <1>5 DEF MountFails, IsNext, Served
  <2> QED
    BY <1>t, <1>5, <2>1 DEF MountFails, Served, Types, Settled, Engine, Mounted
<1>6. CASE MountsDone \/ MountsFault
  BY <1>t, <1>6 DEF MountsDone, MountsFault, Settle, Served, Engine, Mounted
<1>7. CASE OtherWrites \/ CloseStdin \/ ReadLine \/ AppendNote \/ \E e \in warming : WarmupEnds(e)
  BY <1>1, <1>7 DEF OtherWrites, CloseStdin, ReadLine, AppendNote, Goto, WarmupEnds
<1>8. CASE \E kind \in Kinds : Send(kind)
  BY <1>1, <1>8 DEF Send
<1>9. CASE Ping \/ ListTools \/ GraceExpires \/ Search \/ WriteFails \/ MountsUsable
  BY <1>1, <1>9 DEF Ping, ListTools, GraceExpires, Search, WriteFails, MountsUsable, Answer, Goto
<1>10. CASE Refresh
  <2>1. mount[Journal] = "ok" /\ status = "running" /\ UNCHANGED <<mount, ready, status>>
    BY <1>t, <1>10 DEF Refresh, Goto, Reached, Idle
  <2> QED
    BY <1>1, <1>2, <1>10, <2>1 DEF Refresh
<1>11. CASE ReopenWritten
  <2>1. mount[Journal] = "ok" /\ status = "running" /\ UNCHANGED <<mount, ready, status>>
    BY <1>t, <1>11 DEF ReopenWritten, Answer, Reached, Idle
  <2> QED
    BY <1>2, <1>11, <2>1 DEF ReopenWritten
<1>12. CASE LoopEnds
  BY <1>1, <1>12 DEF LoopEnds
<1>13. CASE Exit
  <2>1. status' \in {"0", "1"} /\ engines' = {} /\ UNCHANGED <<mount, ready, serving>>
    BY <1>t, <1>13 DEF Exit, Served
  <2> QED
    BY <1>t, <2>1 DEF Served, Settled
<1> QED
  BY <1>3, <1>4, <1>5, <1>6, <1>7, <1>8, <1>9, <1>10, <1>11, <1>12, <1>13 DEF Next, MountStep, LoopStep

\* The mounts are over for good, and what was mounted then stays.
LEMMA Stays == IInv /\ [Next]_vars => /\ Settled => Settled' /\ mount' = mount /\ Mounted' = Mounted
                                      /\ Open' => Open
                                      /\ provisional => provisional'
<1> SUFFICES ASSUME IInv, [Next]_vars
             PROVE  /\ Settled => Settled' /\ mount' = mount /\ Mounted' = Mounted
                    /\ Open' => Open
                    /\ provisional => provisional'
  OBVIOUS
<1> USE DEF mountVars, readerVars, clientVars, loopVars
<1>1. Served /\ Served' /\ Types
  BY ServedStep DEF IInv
<1>2. /\ (ready' = ready /\ mount' = mount) \/ ~Settled
      /\ Open' => Open
      /\ provisional => provisional'
  <2>1. CASE UNCHANGED vars
    BY <2>1 DEF vars, Open
  <2>2. CASE MountStep
    <3>1. ~Settled
      BY <1>1, <2>2 DEF MountStep, MountsDone, MountsFault, Settle, MountOk, MountFails, IsNext, Served, Settled
    <3> QED
      BY <2>2, <3>1 DEF MountStep, MountsDone, MountsFault, Settle, MountOk, MountFails, Open
  <2>3. CASE LoopStep
    BY <2>3 DEF LoopStep, ReadLine, Ping, ListTools, GraceExpires, MountsUsable, Refresh, Search, WriteFails,
                AppendNote, ReopenWritten, LoopEnds, Exit, Answer, Goto, Open, Settled
  <2>4. CASE OtherWrites \/ CloseStdin \/ (\E kind \in Kinds : Send(kind)) \/ \E e \in warming : WarmupEnds(e)
    <3>1. UNCHANGED <<ready, mount, status, provisional>>
      BY <2>4 DEF OtherWrites, CloseStdin, Send, WarmupEnds
    <3> QED
      BY <3>1 DEF Open
  <2> QED
    BY <2>1, <2>2, <2>3, <2>4 DEF Next
<1>3. Mounted = {m \in Mounts : mount[m] = "ok"} /\ Mounted' = {m \in Mounts : mount'[m] = "ok"}
  BY <1>1 DEF Served, Mounted
<1> QED
  BY <1>2, <1>3 DEF Settled

LEMMA ReachedStep == IInv /\ [Next]_vars => Reached' /\ CallsSeeEveryMount'
<1> SUFFICES ASSUME IInv, [Next]_vars PROVE Reached' /\ CallsSeeEveryMount'
  OBVIOUS
<1> USE DEF mountVars, readerVars, clientVars, loopVars
<1>t. Types /\ Reached /\ CallsSeeEveryMount /\ Types'
  BY TypesStep DEF IInv
<1>n. Len(out) \in Nat /\ DOMAIN out = 1 .. Len(out) /\ Len(out') \in Nat /\ DOMAIN out' = 1 .. Len(out')
  BY <1>t, LenProperties DEF Types
\* The messages.
<1>1. /\ \A i \in 1 .. Len(out') : out'[i].kind \in {"result", "written"} => Settled'
      /\ CallsSeeEveryMount'
  <2>1. CASE UNCHANGED <<talkVars, appended>> \/ Way \/ Read \/ Sent
    BY <1>t, <1>n, <2>1, Stays DEF talkVars, Way, Read, Sent, Reached, CallsSeeEveryMount
  <2>2. CASE \/ Notice
             \/ Reply
    <3>1. PICK msg \in Messages : /\ out' = Append(out, msg)
                                  /\ msg.kind \in {"result", "written"} => Settled /\ msg.packs = Mounted
      <4>1. CASE Notice
        BY <1>t, <4>1, MessageTypes DEF Notice, ListChanged
      <4>2. CASE Reply
        <5>1. PICK kind \in Replies :
                    /\ out' = Append(out, [kind |-> kind, id |-> now.id, packs |-> Mounted])
                    /\ kind \in {"result", "written"} => Settled
                    /\ kind = "provisional" => provisional' /\ ~Settled
          BY <4>2 DEF Reply
        <5>2. [kind |-> kind, id |-> now.id, packs |-> Mounted] \in Messages
          BY <1>t, MessageTypes DEF Types
        <5> QED
          BY <5>1, <5>2
      <4> QED
        BY <2>2, <4>1, <4>2
    <3>2. /\ Len(out') = Len(out) + 1
          /\ \A i \in 1 .. Len(out) : out'[i] = out[i]
          /\ out'[Len(out) + 1] = msg
      BY <1>t, <3>1, OneMore
    <3>3. \A i \in 1 .. Len(out') : i \in 1 .. Len(out) \/ i = Len(out) + 1
      BY <1>n, <3>2
    <3> QED
      BY <1>t, <1>n, <3>1, <3>2, <3>3, Stays DEF Reached, CallsSeeEveryMount
  <2> QED
    BY <2>1, <2>2, StepTalks DEF Talk
\* The loop.
<1>2. /\ status' # "running" => now' = Idle
      /\ now'.at \in {"refresh", "run", "reopen"} => Settled'
      /\ now'.at \in {"refresh", "reopen"} => mount'[Journal] = "ok"
      /\ now'.at = "reopen" => written' < Notes
  <2>1. CASE UNCHANGED vars
    BY <1>t, <2>1 DEF vars, Reached, Settled
  <2>2. CASE MountStep
    <3>1. UNCHANGED <<now, status, written>>
      BY <2>2 DEF MountStep, MountsDone, MountsFault, Settle, MountOk, MountFails
    <3> QED
      BY <1>t, <3>1, Stays DEF Reached
  <2>3. CASE OtherWrites \/ CloseStdin \/ (\E kind \in Kinds : Send(kind)) \/ \E e \in warming : WarmupEnds(e)
    <3>1. UNCHANGED <<now, status, written, ready, mount>>
      BY <2>3 DEF OtherWrites, CloseStdin, Send, WarmupEnds
    <3> QED
      BY <1>t, <3>1 DEF Reached, Settled
  <2>4. CASE ReadLine
    <3>1. now'.at \in Kinds
      <4>1. stdin \in Seq(Lines) /\ stdin # <<>> /\ now'.at = Head(stdin).kind
        BY <1>t, <2>4 DEF ReadLine, Types
      <4>2. Head(stdin) \in Lines
        BY <4>1, HeadTailProperties
      <4> QED
        BY <4>1, <4>2 DEF Lines
    <3> QED
      BY <2>4, <3>1 DEF ReadLine, Open, Kinds
  <2>5. CASE Ping \/ ListTools \/ GraceExpires \/ Search \/ WriteFails \/ ReopenWritten
    BY <2>5 DEF Ping, ListTools, GraceExpires, Search, WriteFails, ReopenWritten, Answer, Idle
  <2>6. CASE MountsUsable
    BY <1>t, <2>6 DEF MountsUsable, Answer, Goto, Idle, Types, Reached, Settled
  <2>7. CASE Refresh
    BY <1>t, <2>7 DEF Refresh, Goto, Idle, Types, Reached, Settled
  <2>8. CASE AppendNote
    BY <1>t, <2>8 DEF AppendNote, CanWrite, Goto, Idle, Types, Reached, Settled
  <2>9. CASE LoopEnds \/ Exit
    BY <1>t, <2>9 DEF LoopEnds, Exit, Idle, Reached, Settled
  <2> QED
    BY <2>1, <2>2, <2>3, <2>4, <2>5, <2>6, <2>7, <2>8, <2>9 DEF Next, LoopStep
<1> QED
  BY <1>1, <1>2 DEF Reached

LEMMA ProvisionalStep == IInv /\ [Next]_vars => Provisional'
<1> SUFFICES ASSUME IInv, [Next]_vars PROVE Provisional'
  OBVIOUS
<1> USE DEF mountVars, readerVars, clientVars, loopVars
<1>t. Types /\ Reached /\ Provisional
  BY DEF IInv
<1>n. Len(out) \in Nat
  BY <1>t, LenProperties DEF Types
<1>1. /\ \A i \in 1 .. Len(out) : out'[i] = out[i]
      /\ \/ Len(out') = Len(out)
         \/ /\ Len(out') = Len(out) + 1
            /\ out'[Len(out) + 1].kind = "provisional" => provisional' /\ ~Settled
  <2>1. CASE UNCHANGED <<talkVars, appended>> \/ Way \/ Read \/ Sent
    BY <2>1 DEF talkVars, Way, Read, Sent
  <2>2. CASE \/ Notice
             \/ Reply
    <3>1. PICK msg \in Messages : /\ out' = Append(out, msg)
                                  /\ msg.kind = "provisional" => provisional' /\ ~Settled
      <4>1. CASE Notice
        BY <1>t, <4>1, MessageTypes DEF Notice, ListChanged
      <4>2. CASE Reply
        <5>1. PICK kind \in Replies :
                    /\ out' = Append(out, [kind |-> kind, id |-> now.id, packs |-> Mounted])
                    /\ kind \in {"result", "written"} => Settled
                    /\ kind = "provisional" => provisional' /\ ~Settled
          BY <4>2 DEF Reply
        <5>2. [kind |-> kind, id |-> now.id, packs |-> Mounted] \in Messages
          BY <1>t, MessageTypes DEF Types
        <5> QED
          BY <5>1, <5>2
      <4> QED
        BY <2>2, <4>1, <4>2
    <3> QED
      BY <1>t, <3>1, OneMore
  <2> QED
    BY <2>1, <2>2, StepTalks DEF Talk
<1>2. (\E i \in 1 .. Len(out') : out'[i].kind = "provisional") => provisional'
  <2> SUFFICES ASSUME NEW i \in 1 .. Len(out'), out'[i].kind = "provisional" PROVE provisional'
    OBVIOUS
  <2>1. i \in 1 .. Len(out) \/ (i = Len(out) + 1 /\ Len(out') = Len(out) + 1)
    BY <1>n, <1>1
  <2> QED
    BY <1>t, <1>1, <2>1, Stays DEF Provisional
<1>3. Settled' /\ Open' /\ provisional' => \E i \in 1 .. Len(out') : out'[i].kind = "list_changed"
  <2> SUFFICES ASSUME Settled', Open', provisional'
               PROVE  \E i \in 1 .. Len(out') : out'[i].kind = "list_changed"
    OBVIOUS
  <2>1. CASE Settled
    <3>1. provisional' = provisional \/ GraceExpires
      BY DEF vars, Next, MountStep, MountsDone, MountsFault, Settle, MountOk, MountFails, OtherWrites, CloseStdin, Send,
             WarmupEnds, LoopStep, ReadLine, Ping, ListTools, MountsUsable, Refresh, Search, WriteFails, AppendNote,
             ReopenWritten, LoopEnds, Exit, Answer, Goto
    <3>2. provisional /\ Open
      BY <2>1, <3>1, Stays DEF GraceExpires
    <3>3. PICK i \in 1 .. Len(out) : out[i].kind = "list_changed"
      BY <1>t, <2>1, <3>2 DEF Provisional
    <3> QED
      BY <1>n, <1>1, <3>3
  <2>2. CASE ~Settled
    <3>1. MountsDone \/ MountsFault
      BY <2>2 DEF vars, Next, MountStep, MountOk, MountFails, OtherWrites, CloseStdin, Send, WarmupEnds, LoopStep,
                  ReadLine, Ping, ListTools, GraceExpires, MountsUsable, Refresh, Search, WriteFails, AppendNote,
                  ReopenWritten, LoopEnds, Exit, Answer, Goto, Settled
    <3>2. out' = Append(out, ListChanged)
      BY <3>1, Stays DEF MountsDone, MountsFault, Settle, Open
    <3> QED
      BY <1>t, <1>n, <3>2, MessageTypes, OneMore DEF ListChanged
  <2> QED
    BY <2>1, <2>2
<1> QED
  BY <1>2, <1>3 DEF Provisional

LEMMA EndedStep == IInv /\ [Next]_vars => Ended'
<1> SUFFICES ASSUME IInv, [Next]_vars PROVE Ended'
  OBVIOUS
<1>1. Ended
  BY DEF IInv
<1>2. status' \in {status, "draining"} \/ Exit
  BY DEF vars, Next, MountStep, MountsDone, MountsFault, Settle, MountOk, MountFails, OtherWrites, CloseStdin, Send,
         WarmupEnds, LoopStep, ReadLine, Ping, ListTools, GraceExpires, MountsUsable, Refresh, Search, WriteFails,
         AppendNote, ReopenWritten, LoopEnds, Answer, Goto, mountVars, readerVars, clientVars, loopVars
<1>3. CASE Exit
  <2>1. Settled /\ (status' = "0" => Failures = {})
    BY <1>3 DEF Exit
  <2> QED
    BY <2>1, Stays DEF Ended, Failures
<1>4. CASE status' \in {status, "draining"}
  BY <1>1, <1>4, Stays DEF Ended, Failures
<1> QED
  BY <1>2, <1>3, <1>4

-----------------------------------------------------------------------------
(****************************************************************************)
(* The theorems.                                                            *)
(****************************************************************************)

LEMMA InitIInv == Init => IInv
<1> SUFFICES ASSUME Init PROVE IInv
  OBVIOUS
<1> USE LimitsAssumption DEF Init, Idle
<1>1. Len(out) = 0 /\ Len(stdin) = 0 /\ out \in Seq(Messages) /\ stdin \in Seq(Lines)
  OBVIOUS
<1>2. {i \in 1 .. Len(out) : out[i].id # 0} = {} /\ {i \in 1 .. Len(out) : out[i].kind = "written"} = {}
  BY <1>1
<1>3. Answered(Len(out)) = 0 /\ Reported(Len(out)) = 0
  BY <1>2, FS_EmptySet DEF Answered, Reported
<1>4. Types
  <2>1. /\ mount \in [Mounts -> {"pending", "ok", "failed"}] /\ ready \in {"pending", "done", "faulted"}
        /\ serving \in [Mounts -> Nat] /\ engines \subseteq Mounts \X Nat
        /\ warming \subseteq Mounts \X (Nat \ {0})
    OBVIOUS
  <2>2. /\ members \in 1 .. MaxMembers /\ view \in 0 .. members /\ written \in 0 .. Notes
        /\ sent \in Nat /\ appended \in Nat
    OBVIOUS
  <2>3. now \in [at : Places, id : Nat, kind : Kinds \cup {"none"}]
    BY DEF Places
  <2> QED
    BY <1>1, <2>1, <2>2, <2>3 DEF Types
<1>5. InOrder
  BY <1>1, <1>3 DEF InOrder, InHand
<1>6. Served
  BY DEF Served, Settled, Mounted
<1>7. Reached /\ Provisional /\ Ended
  BY <1>1 DEF Reached, Provisional, Ended, Settled
<1>8. AnsweredInOrder /\ CallsSeeEveryMount /\ WrittenIsReported
  BY <1>1, <1>3 DEF AnsweredInOrder, CallsSeeEveryMount, WrittenIsReported
<1> QED
  BY <1>4, <1>5, <1>6, <1>7, <1>8 DEF IInv

\* The inductive invariant of the server.
THEOREM ServerInvariant == Spec => []IInv
<1>1. IInv /\ [Next]_vars => IInv'
  BY TypesStep, OrderStep, ServedStep, ReachedStep, ProvisionalStep, EndedStep DEF IInv
<1> QED
  BY InitIInv, <1>1, PTL DEF Spec

\* Every request is answered once and in turn, and every tool call from all
\* packs that mount, whenever the mounts and the grace period are over.
THEOREM CallsAnsweredInTurn == Spec => []AnswersComplete
<1>1. IInv => AnswersComplete
  <2> SUFFICES ASSUME IInv PROVE AnswersComplete
    OBVIOUS
  <2>t. Types /\ InOrder /\ Served /\ AnsweredInOrder /\ CallsSeeEveryMount
    BY DEF IInv
  <2>1. \A e \in engines \cup warming : e[1] \in Mounts /\ e[2] \in Nat \ {0}
    <3>1. \A e \in engines : e[1] \in Mounts /\ e[2] \in Nat \ {0}
      BY <2>t DEF Served, Engine, Mounted, Types
    <3> QED
      BY <2>t, <3>1 DEF Types
  <2>2. \A i \in DOMAIN out : out[i].id \in 0 .. sent
    <3>1. Len(out) \in Nat /\ Len(stdin) \in Nat /\ DOMAIN out = 1 .. Len(out)
          /\ \A i \in 1 .. Len(out) : out[i] \in Messages
      BY <2>t, LenProperties, ElementOfSeq DEF Types
    <3>2. ASSUME NEW i \in 1 .. Len(out) PROVE Answered(i) <= Answered(Len(out))
      <4>1. {j \in 1 .. i : out[j].id # 0} \subseteq {j \in 1 .. Len(out) : out[j].id # 0}
        BY <3>1
      <4>2. IsFiniteSet({j \in 1 .. Len(out) : out[j].id # 0})
        BY <3>1, Counts
      <4> QED
        BY <4>1, <4>2, FS_Subset DEF Answered
    <3>3. sent \in Nat /\ Answered(Len(out)) <= sent
      <4>1. sent = Answered(Len(out)) + InHand + Len(stdin) /\ InHand \in Nat /\ Answered(Len(out)) \in Nat
        BY <2>t, <3>1, Numbers DEF InOrder, InHand
      <4> QED
        BY <3>1, <4>1
    <3>4. ASSUME NEW i \in 1 .. Len(out) PROVE out[i].id \in 0 .. sent
      <4>1. out[i].id \in Nat /\ (out[i].id # 0 => out[i].id = Answered(i))
        BY <2>t, <3>1 DEF AnsweredInOrder, Messages
      <4>2. i \in Nat /\ Answered(i) \in Nat /\ Answered(Len(out)) \in Nat
        BY <2>t, <3>1, Numbers
      <4> QED
        BY <3>2, <3>3, <4>1, <4>2
    <3> QED
      BY <3>1, <3>4
  <2>3. TypeOK
    BY <2>t, <2>1, <2>2 DEF TypeOK, Types
  <2> QED
    BY <2>t, <2>3 DEF AnswersComplete
<1> QED
  BY <1>1, ServerInvariant, PTL

\* A client that was answered provisionally is told when the list is known.
THEOREM ProvisionalListIsFollowed == Spec => []ProvisionalListFollowed
<1>1. IInv => ProvisionalListFollowed
  BY LenProperties DEF IInv, Types, Provisional, ProvisionalListFollowed
<1> QED
  BY <1>1, ServerInvariant, PTL

\* A journal that is reopened, or cannot be, costs no call its readers and no
\* write its answer.
THEOREM ReopeningIsSafe == Spec => []ReopeningSafe
<1>1. IInv => ReopeningSafe
  BY DEF IInv, Served, Reached, ReopeningSafe, CallsReadOpenEngines, Idle
<1> QED
  BY <1>1, ServerInvariant, PTL

\* The exit status tells of every mount that failed, and no reader is left open.
THEOREM ExitTells == Spec => []ExitTellsFailures
<1>1. IInv => ExitTellsFailures
  BY DEF IInv, Served, Ended, ExitTellsFailures
<1> QED
  BY <1>1, ServerInvariant, PTL
=============================================================================
