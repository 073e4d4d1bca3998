----------------------------- MODULE McpServer -----------------------------
(****************************************************************************)
(* runMcpServer (src/packages/pikelet/src/mcp.mjs): packs are mounted while *)
(* the protocol loop already answers; tool calls wait for the mounts,       *)
(* tools/list waits a grace period and answers provisionally past it; every *)
(* tool call reopens the journal if its members changed; a warm-up query    *)
(* runs on every pack; the process exits once stdin has closed.             *)
(*                                                                          *)
(* An engine <<m, g>> is the g-th reader opened for mount m.  The journal   *)
(* is the last mount; what other sessions do to it is OtherWrites.          *)
(****************************************************************************)
EXTENDS Integers, Sequences, FiniteSets

CONSTANTS
    Packs,        \* number of packs listed before the journal
    Notes,        \* MAX_NOTES_PER_SESSION
    MaxRequests,  \* bound: requests the client sends
    MaxMembers    \* bound: states of the journal on disk

ASSUME LimitsAssumption ==
    Packs \in Nat /\ Notes \in Nat /\ MaxRequests \in Nat /\ MaxMembers \in Nat \ {0}

Journal == Packs + 1
Mounts == 1 .. Journal
Kinds == {"ping", "list", "search", "write"}

VARIABLES
    mount,       \* mounts: "pending", "ok" or "failed"; the loop opens them in order
    ready,       \* mountsReady: "pending", "done", or "faulted" when warming up threw
    serving,     \* packs: the engine registered for each mount, 0 when there is none
    engines,     \* engines opened and not closed
    warming,     \* engines a warm-up query runs on
    members,     \* the journal's members on disk, a number
    view,        \* the members the registered journal chain was opened with
    stdin,       \* lines not read yet
    closed,      \* the client has closed stdin
    sent,        \* bound: requests sent
    now,         \* what the loop is doing
    provisional, \* provisionalListServed
    written,     \* session.written
    status,      \* "running", "draining" or the exit status, 0 or 1
    out,         \* messages sent
    appended     \* history: notes this session put in the journal

mountVars == <<mount, ready>>
readerVars == <<serving, engines, warming, view>>
clientVars == <<stdin, closed, sent>>
loopVars == <<now, provisional, written, status, out>>
vars == <<mountVars, readerVars, members, clientVars, loopVars, appended>>

Idle == [at |-> "idle", id |-> 0, kind |-> "none"]
Open == status = "running"
Settled == ready # "pending"
Failures == {m \in Mounts : mount[m] = "failed"}
Mounted == {m \in Mounts : serving[m] # 0}

Init ==
    /\ mount = [m \in Mounts |-> "pending"] /\ ready = "pending"
    /\ serving = [m \in Mounts |-> 0] /\ engines = {} /\ warming = {}
    /\ members = 1 /\ view = 0
    /\ stdin = <<>> /\ closed = FALSE /\ sent = 0
    /\ now = Idle /\ provisional = FALSE /\ written = 0 /\ status = "running" /\ out = <<>>
    /\ appended = 0

(***************************************************************************)
(* The mounts                                                              *)
(***************************************************************************)

IsNext(m) == mount[m] = "pending" /\ \A l \in Mounts : l < m => mount[l] # "pending"

MountOk(m) ==
    /\ IsNext(m) /\ mount' = [mount EXCEPT ![m] = "ok"]
    /\ serving' = [serving EXCEPT ![m] = 1]
    /\ engines' = engines \cup {<<m, 1>>}
    /\ view' = IF m = Journal THEN members ELSE view
    /\ UNCHANGED <<ready, warming, members, clientVars, loopVars, appended>>

\* Unreachable, refused, of another profile, without an encoder: what had been
\* opened is closed again, and the other mounts go on.
MountFails(m) ==
    /\ IsNext(m) /\ mount' = [mount EXCEPT ![m] = "failed"]
    /\ UNCHANGED <<ready, readerVars, members, clientVars, loopVars, appended>>

ListChanged == [kind |-> "list_changed", id |-> 0, packs |-> {}]

\* onMountsSettled.
Settle(outcome) ==
    /\ ready = "pending" /\ \A m \in Mounts : mount[m] # "pending"
    /\ ready' = outcome
    /\ out' = IF (provisional /\ Open) THEN Append(out, ListChanged) ELSE out
    /\ UNCHANGED <<mount, serving, engines, view, members, clientVars, now, provisional, written, status, appended>>

Engine(m) == <<m, serving[m]>>

\* Every pack is warmed up in the background once all are mounted.
MountsDone == Settle("done") /\ warming' = {Engine(m) : m \in Mounted}

\* Mutant: the reaction is registered for success only.
MountsFault_Unseen ==
    /\ ready = "pending" /\ \A m \in Mounts : mount[m] # "pending"
    /\ Mounted # {}
    /\ ready' = "faulted"
    /\ \E m \in Mounted : warming' = {Engine(l) : l \in {k \in Mounted : k < m}}
    /\ UNCHANGED <<mount, serving, engines, view, members, clientVars, loopVars, appended>>

\* info() of one of them throws.
MountsFault ==
    /\ Settle("faulted")
    /\ \E m \in Mounted : warming' = {Engine(l) : l \in {k \in Mounted : k < m}}

WarmupEnds(e) ==
    /\ e \in warming /\ warming' = warming \ {e}
    /\ UNCHANGED <<mountVars, serving, engines, view, members, clientVars, loopVars, appended>>

(***************************************************************************)
(* The client, and the other sessions of the journal                       *)
(***************************************************************************)

Send(kind) ==
    /\ ~closed /\ sent < MaxRequests
    /\ sent' = sent + 1
    /\ stdin' = Append(stdin, [id |-> sent', kind |-> kind])
    /\ UNCHANGED <<mountVars, readerVars, members, closed, loopVars, appended>>

CloseStdin ==
    /\ ~closed /\ closed' = TRUE
    /\ UNCHANGED <<mountVars, readerVars, members, stdin, sent, loopVars, appended>>

OtherWrites ==
    /\ members < MaxMembers /\ members' = members + 1
    /\ UNCHANGED <<mountVars, readerVars, clientVars, loopVars, appended>>

(***************************************************************************)
(* The loop: one line at a time                                            *)
(***************************************************************************)

\* The answer to the line in hand, after which the next one is read.
Answer(kind) ==
    /\ out' = Append(out, [kind |-> kind, id |-> now.id, packs |-> Mounted])
    /\ now' = Idle
    /\ UNCHANGED status

Goto(at) == now' = [now EXCEPT !.at = at] /\ UNCHANGED <<status, out>>

ReadLine ==
    /\ Open /\ now = Idle /\ stdin # <<>>
    /\ now' = [at |-> Head(stdin).kind, id |-> Head(stdin).id, kind |-> Head(stdin).kind]
    /\ stdin' = Tail(stdin)
    /\ UNCHANGED <<mountVars, readerVars, members, closed, sent, provisional, written, status, out, appended>>

\* initialize, server/discover and ping need no pack.
Ping ==
    /\ now.at = "ping" /\ Answer("pong")
    /\ UNCHANGED <<mountVars, readerVars, members, clientVars, provisional, written, appended>>

NoneUsable == ready = "faulted" \/ (Mounted = {} /\ Failures # {})

ListTools ==
    /\ now.at = "list" /\ Settled
    /\ Answer(IF NoneUsable THEN "error" ELSE "result")
    /\ UNCHANGED <<mountVars, readerVars, members, clientVars, provisional, written, appended>>

\* Mutant: the list is answered provisionally, and again once it can be.
GraceExpires_Both ==
    /\ now.at = "list" /\ ~Settled
    /\ out' = Append(out, [kind |-> "provisional", id |-> now.id, packs |-> Mounted])
    /\ provisional' = TRUE
    /\ UNCHANGED <<mountVars, readerVars, members, clientVars, now, status, written, appended>>

GraceExpires ==
    /\ now.at = "list" /\ ~Settled
    /\ Answer("provisional") /\ provisional' = TRUE
    /\ UNCHANGED <<mountVars, readerVars, members, clientVars, written, appended>>

\* A tool call waits for the mounts.
MountsUsable ==
    /\ now.at \in {"search", "write"} /\ Settled
    /\ IF NoneUsable THEN Answer("error")
       ELSE Goto(IF mount[Journal] = "ok" THEN "refresh" ELSE "run")
    /\ UNCHANGED <<mountVars, readerVars, members, clientVars, provisional, written, appended>>

\* Mutant: the chain in use is closed before the new one is open.
Reopen_CloseFirst(opens) ==
    /\ engines' = (engines \ {Engine(Journal)})
                    \cup (IF opens THEN {<<Journal, serving[Journal] + 1>>} ELSE {})
    /\ IF opens
       THEN serving' = [serving EXCEPT ![Journal] = @ + 1] /\ view' = members
       ELSE UNCHANGED <<serving, view>>
    /\ UNCHANGED warming

\* remountJournal: the new chain takes the name, then the old one is closed;
\* nothing changes when the new one cannot be opened.
Reopen(opens) ==
    IF opens
    THEN /\ serving' = [serving EXCEPT ![Journal] = @ + 1]
         /\ view' = members
         /\ engines' = (engines \ {Engine(Journal)}) \cup {<<Journal, serving[Journal] + 1>>}
         /\ UNCHANGED warming
    ELSE UNCHANGED readerVars

\* refreshJournal, whose failures are logged.
Refresh ==
    /\ now.at = "refresh"
    /\ IF view = members THEN UNCHANGED readerVars
       ELSE \E opens \in BOOLEAN : Reopen(opens)
    /\ Goto("run")
    /\ UNCHANGED <<mountVars, members, clientVars, provisional, written, appended>>

\* search, list_packs, get_record, verify_pack, latest; or the tool throws.
Search ==
    /\ now.at = "run" /\ now.kind = "search"
    /\ \E kind \in {"result", "error"} : Answer(kind)
    /\ UNCHANGED <<mountVars, readerVars, members, clientVars, provisional, written, appended>>

CanWrite == mount[Journal] = "ok" /\ written < Notes

\* No journal, the session's limit, a note that is refused, or appendNote throws.
WriteFails ==
    /\ now.at = "run" /\ now.kind = "write"
    /\ Answer("error")
    /\ UNCHANGED <<mountVars, readerVars, members, clientVars, provisional, written, appended>>

AppendNote ==
    /\ now.at = "run" /\ now.kind = "write" /\ CanWrite /\ members < MaxMembers
    /\ members' = members + 1 /\ appended' = appended + 1
    /\ Goto("reopen")
    /\ UNCHANGED <<mountVars, readerVars, clientVars, provisional, written>>

\* The note is in the journal from here, whether the chain reopens or not.
ReopenWritten ==
    /\ now.at = "reopen"
    /\ \E opens \in BOOLEAN : Reopen(opens)
    /\ Answer("written")
    /\ written' = written + 1
    /\ UNCHANGED <<mountVars, members, clientVars, provisional, appended>>

\* The lines are exhausted; the mounts are waited for before they are judged.
LoopEnds ==
    /\ Open /\ now = Idle /\ stdin = <<>> /\ closed
    /\ status' = "draining"
    /\ UNCHANGED <<mountVars, readerVars, members, clientVars, now, provisional, written, out, appended>>

\* Mutant: the failures are counted as soon as the loop has ended.
Exit_AtOnce ==
    /\ status = "draining"
    /\ engines' = engines \ {Engine(m) : m \in Mounted}
    /\ status' = IF Failures # {} \/ ready = "faulted" THEN "1" ELSE "0"
    /\ UNCHANGED <<mountVars, serving, warming, view, members, clientVars, now, provisional, written, out, appended>>

\* Mutant: the rejection of mountsReady is not caught here.
Exit_Uncaught ==
    /\ status = "draining" /\ ready = "done"
    /\ engines' = engines \ {Engine(m) : m \in Mounted}
    /\ status' = IF Failures # {} THEN "1" ELSE "0"
    /\ UNCHANGED <<mountVars, serving, warming, view, members, clientVars, now, provisional, written, out, appended>>

Exit ==
    /\ status = "draining" /\ Settled
    /\ engines' = engines \ {Engine(m) : m \in Mounted}
    /\ status' = IF Failures # {} \/ ready = "faulted" THEN "1" ELSE "0"
    /\ UNCHANGED <<mountVars, serving, warming, view, members, clientVars, now, provisional, written, out, appended>>

MountStep == MountsDone \/ MountsFault \/ \E m \in Mounts : MountOk(m) \/ MountFails(m)
LoopStep ==
    \/ ReadLine \/ Ping \/ ListTools \/ GraceExpires \/ MountsUsable \/ Refresh
    \/ Search \/ WriteFails \/ AppendNote \/ ReopenWritten \/ LoopEnds \/ Exit

Next ==
    \/ MountStep \/ LoopStep \/ OtherWrites \/ CloseStdin
    \/ \E kind \in Kinds : Send(kind)
    \/ \E e \in warming : WarmupEnds(e)

\* The event loop runs what is ready.  Opening a pack is not fair: requests have
\* no time limit, and a host may never answer.
Fairness == WF_vars(LoopStep)
Spec == Init /\ [][Next]_vars /\ Fairness

-----------------------------------------------------------------------------
(***************************************************************************)
(* Properties                                                              *)
(***************************************************************************)

TypeOK ==
    /\ mount \in [Mounts -> {"pending", "ok", "failed"}] /\ ready \in {"pending", "done", "faulted"}
    /\ serving \in [Mounts -> Nat] /\ \A e \in engines \cup warming : e[1] \in Mounts /\ e[2] \in Nat \ {0}
    /\ members \in 1 .. MaxMembers /\ view \in 0 .. members
    /\ written \in 0 .. Notes /\ provisional \in BOOLEAN
    /\ status \in {"running", "draining", "0", "1"}
    /\ \A i \in DOMAIN out : out[i].id \in 0 .. sent

\* How many of the first n messages are answers.
Answered(n) == Cardinality({i \in 1 .. n : out[i].id # 0})

\* Each request gets one answer, in the order the requests came, whichever of
\* the mounts and the grace period is over first.
AnsweredInOrder == \A i \in DOMAIN out : out[i].id # 0 => out[i].id = Answered(i)

\* A tool call never sees some of the packs: what it is answered from is every
\* pack that mounts at all.
CallsSeeEveryMount ==
    \A i \in DOMAIN out : out[i].kind \in {"result", "written"} => out[i].packs = Mounted

\* Answers come in order and from all packs.
AnswersComplete == TypeOK /\ AnsweredInOrder /\ CallsSeeEveryMount

\* A client that got the list without the packs' names is told to fetch it
\* again when they are known, however the mounts ended.
ProvisionalListFollowed ==
    Settled /\ Open /\ (\E i \in DOMAIN out : out[i].kind = "provisional")
        => \E i \in DOMAIN out : out[i].kind = "list_changed"

\* A call reads engines that are open, through reopening and its failures.
CallsReadOpenEngines ==
    now.at = "run" => \A m \in Mounted : Engine(m) \in engines

\* A note that is in the journal was reported as written, so that it is not
\* written twice.
Reported(n) == Cardinality({i \in 1 .. n : out[i].kind = "written"})
WrittenIsReported == appended = Reported(Len(out)) + (IF now.at = "reopen" THEN 1 ELSE 0)

\* What a reopening that fails must not cost: the open readers, and the answer
\* to the write before it.
ReopeningSafe == CallsReadOpenEngines /\ WrittenIsReported

\* The exit status tells of every mount that failed, also when stdin closes
\* while packs are still being opened, and every engine is closed by then.
ExitTellsFailures ==
    /\ status = "0" => Failures = {} /\ engines = {}
    /\ status = "1" => engines = {}

Pending(id) == now.id = id \/ \E i \in DOMAIN stdin : stdin[i].id = id
CallPending(id) ==
    \/ now.id = id /\ now.kind \in {"search", "write"}
    \/ \E i \in DOMAIN stdin : stdin[i].id = id /\ stdin[i].kind \in {"search", "write"}

\* Every request is answered when the mounts are over; and before that, however
\* long they take, unless it is a tool call or behind one.
EveryRequestAnswered ==
    \A id \in 1 .. MaxRequests :
        Pending(id) /\ (Settled \/ \A l \in 1 .. id : ~CallPending(l))
            ~> \E i \in DOMAIN out : out[i].id = id

\* The process ends once the client has closed stdin and the mounts are over.
ServerEnds == closed /\ Settled ~> status \in {"0", "1"}

\* Requests and the process come to an end, whatever the mounts do.
EverythingEnds == EveryRequestAnswered /\ ServerEnds
=============================================================================
