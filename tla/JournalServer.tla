-------------------------- MODULE JournalServer ---------------------------
(***************************************************************************)
(* MCP servers that serve a journal (src/packages/pikelet/src/mcp.mjs),    *)
(* among the processes of module Journal that write to it.                 *)
(*                                                                         *)
(* A server keeps the journal's chain open between tool calls.  Its files  *)
(* stay readable when they are removed, so what it has open is the chain's *)
(* contents at the time it was opened.  Calls are handled one at a time:   *)
(* each first compares journal.json with what is open and reopens on a     *)
(* difference, then reads, or writes a note and reopens once more.         *)
(* Opening reads journal.json and then the members one by one, without the *)
(* lock, so a compaction or a replacement may run in between.              *)
(***************************************************************************)
EXTENDS Journal

CONSTANTS
    Servers,    \* the writers that are MCP servers
    MaxCalls,   \* bound: tool calls to each server
    MaxPresent, \* bound: processes at work in a behaviour, of the writers
    MaxServed   \* bound: operations begun where one of them is a server

ASSUME ServersAssumption == Servers \subseteq Writers /\ MaxCalls \in Nat

\* `pikelet mcp --journal` refuses to start on a directory without a journal.
ASSUME ServedJournalAssumption == Existing

Chains == [members : Seq(Files), contents : Contents, epoch : Nat]
Calls == [tool : {"search", "write_note"}, before : SUBSET (Notes \X Nat),
          cites : SUBSET (Notes \X Nat), refreshed : BOOLEAN]

ASSUME NoCallAssumption == None \notin Calls

VARIABLES
    at,      \* where each server is in the call it handles
    call,    \* the call: what it does, and when it began
    mounted, \* the chain it has open: member names, contents
    opening, \* the chain it is opening, as far as it has got
    calls,   \* how many calls it has taken
    epoch,   \* history: grows when a forced init begins and ends replacing the journal
    present  \* the processes at work; the others do nothing

serverVars == <<at, call, mounted, opening, calls, epoch>>
allVars == <<vars, serverVars, present>>

\* Bound: the smaller number of operations where a server is at work.
InBounds == Servers \cap present # {} => ops < MaxServed

\* epoch: when journal.json was read for it.
Opened(members, contents) ==
    [members |-> members, contents |-> contents, epoch |-> epoch]
View(s) == RecordsOf(mounted[s].contents)
Shows(s, note, id) == id + 1 \in DOMAIN View(s) /\ View(s)[id + 1] = note

ServerInit ==
    /\ Init
    /\ epoch = 0
    /\ at = [s \in Servers |-> "ready"]
    /\ call = [s \in Servers |-> None]
    /\ mounted = [s \in Servers |-> Opened(journal.members, Identity(journal.members))]
    /\ opening = [s \in Servers |-> None]
    /\ calls = [s \in Servers |-> 0]
    /\ present \in {some \in SUBSET Writers : Cardinality(some) = MaxPresent}

Move(s, from, to) == at[s] = from /\ at' = [at EXCEPT ![s] = to]

\* refreshed: this call has found or made the chain open current.
\* before: what had been reported to any writer when the call came in.
\* cites: the pairs the call itself has been given.
Take(s, tool) ==
    /\ calls[s] < MaxCalls
    /\ calls' = [calls EXCEPT ![s] = @ + 1]
    /\ Move(s, "ready", "refresh")
    /\ call' = [call EXCEPT ![s] =
                    [tool |-> tool, before |-> reported, cites |-> {}, refreshed |-> FALSE]]
    /\ UNCHANGED <<vars, mounted, opening, epoch>>

\* What follows an attempt to reopen: the tool after the refresh; the answer
\* after the write.
AfterOpen(s) ==
    IF call[s].tool = "write_note" /\ call[s].cites = {} THEN "write" ELSE "answer"

\* Mutant: the members are compared by their number alone.
CompareMembers_Length(s) ==
    /\ IF Len(journal.members) = Len(mounted[s].members)
       THEN /\ Move(s, "refresh", AfterOpen(s))
            /\ call' = [call EXCEPT ![s].refreshed = TRUE]
       ELSE /\ Move(s, "refresh", "reopen")
            /\ UNCHANGED call
    /\ UNCHANGED <<vars, mounted, opening, calls, epoch>>

\* refreshJournal: journal.json is read and its member names compared.
CompareMembers(s) ==
    /\ IF journal.members = mounted[s].members
       THEN /\ Move(s, "refresh", AfterOpen(s))
            /\ call' = [call EXCEPT ![s].refreshed = TRUE]
       ELSE /\ Move(s, "refresh", "reopen")
            /\ UNCHANGED call
    /\ UNCHANGED <<vars, mounted, opening, calls, epoch>>

\* mountJournal reads journal.json again.
ReadMembers(s) ==
    /\ Move(s, "reopen", "open")
    /\ opening' = [opening EXCEPT ![s] = Opened(journal.members, <<>>)]
    /\ UNCHANGED <<vars, call, mounted, calls, epoch>>

\* openPikeletChain opens the members base first; each must be on disk, whole,
\* and a layer of the one opened before it.
OpenMember(s) ==
    LET next == Len(opening[s].contents) + 1
        f == opening[s].members[next]
    IN  /\ at[s] = "open"
        /\ next \in DOMAIN opening[s].members
        /\ f \in DOMAIN disk
        /\ Len(disk[f]) = next
        /\ Front(disk[f]) = opening[s].contents
        /\ opening' = [opening EXCEPT ![s].contents = disk[f]]
        /\ UNCHANGED <<vars, at, call, mounted, calls, epoch>>

\* The chain is open: it takes the place of the one before, which is closed.
Remount(s) ==
    /\ at[s] = "open"
    /\ Len(opening[s].contents) = Len(opening[s].members)
    /\ Move(s, "open", AfterOpen(s))
    /\ mounted' = [mounted EXCEPT ![s] = opening[s]]
    /\ call' = [call EXCEPT ![s].refreshed = TRUE]
    /\ opening' = [opening EXCEPT ![s] = None]
    /\ UNCHANGED <<vars, calls, epoch>>

\* Mutant: a chain that could not be opened to its head is served as it is.
OpenFails_ServePart(s) ==
    /\ at[s] \in {"refresh", "reopen", "open"}
    /\ Move(s, at[s], AfterOpen(s))
    /\ call' = [call EXCEPT ![s].refreshed = FALSE]
    /\ opening' = [opening EXCEPT ![s] = None]
    /\ mounted' = [mounted EXCEPT ![s] = IF opening[s] = None THEN @ ELSE opening[s]]
    /\ UNCHANGED <<vars, calls, epoch>>

\* Reading journal.json or a member fails, or the chain is not whole.  A
\* failed refresh is logged and a failed reopening after a write only makes
\* the answer carry a warning; either way the open chain keeps serving.
OpenFails(s) ==
    /\ at[s] \in {"refresh", "reopen", "open"}
    /\ Move(s, at[s], AfterOpen(s))
    /\ call' = [call EXCEPT ![s].refreshed = FALSE]
    /\ opening' = [opening EXCEPT ![s] = None]
    /\ UNCHANGED <<vars, mounted, calls, epoch>>

\* callWriteNote calls appendNote, and waits for it.
StartWrite(s) ==
    /\ Move(s, "write", "writing")
    /\ InBounds
    /\ BeginAppend(s)
    /\ UNCHANGED <<call, mounted, opening, calls, epoch>>

\* appendNote returned: the chain is reopened whatever journal.json says.
NoteWritten(s) ==
    /\ Move(s, "writing", "reopen")
    /\ Report(s)
    /\ call' = [call EXCEPT ![s].cites = {<<job[s].note, RowBase(buf[s])>>}]
    /\ UNCHANGED <<mounted, opening, calls, epoch>>

Idle(s) ==
    /\ at' = [at EXCEPT ![s] = "ready"]
    /\ call' = [call EXCEPT ![s] = None]

\* appendNote threw: the answer is an error.
WriteFails(s) ==
    /\ at[s] = "writing"
    /\ Abort(s)
    /\ Idle(s)
    /\ UNCHANGED <<mounted, opening, calls, epoch>>

Answer(s) ==
    /\ at[s] = "answer"
    /\ Idle(s)
    /\ UNCHANGED <<vars, mounted, opening, calls, epoch>>

ServerStep(s) ==
    \/ \E tool \in {"search", "write_note"} : Take(s, tool)
    \/ CompareMembers(s) \/ ReadMembers(s) \/ OpenMember(s) \/ Remount(s) \/ OpenFails(s)
    \/ StartWrite(s) \/ NoteWritten(s) \/ WriteFails(s) \/ Answer(s)

\* A step of appendNote, or of a writer that is no server.
WriterStep(w) ==
    /\ \/ w \notin Servers /\ InBounds /\ (BeginAppend(w) \/ BeginCompact(w))
       \/ w \notin Servers /\ InBounds /\ \E force \in Forces : BeginInit(w, force)
       \/ w \notin Servers /\ (Report(w) \/ Abort(w))
       \/ pc[w] # "report" /\ Step(w)
    /\ epoch' = IF replacing' = replacing THEN epoch ELSE epoch + 1
    /\ UNCHANGED <<at, call, mounted, opening, calls>>

ServerNext ==
    /\ \/ \E s \in Servers \cap present : ServerStep(s)
       \/ \E w \in Writers \cap present : WriterStep(w)
    /\ UNCHANGED present

ServerSpec == ServerInit /\ [][ServerNext]_allVars

\* Writers that are no servers are alike: a run need not tell them apart.
OtherWriters == Permutations(Writers \ Servers)

-----------------------------------------------------------------------------
(***************************************************************************)
(* Properties                                                              *)
(***************************************************************************)

ServerTypeOK ==
    /\ at \in [Servers -> {"ready", "refresh", "reopen", "open", "write", "writing", "answer"}]
    /\ call \in [Servers -> Calls \cup {None}]
    /\ \A s \in Servers : call[s] = None <=> at[s] = "ready"
    /\ mounted \in [Servers -> Chains]
    /\ opening \in [Servers -> Chains \cup {None}]
    /\ calls \in [Servers -> 0 .. MaxCalls]
    /\ present \subseteq Writers

\* The journal has not been replaced since journal.json was read for the chain
\* that s has open.
Current(s) == mounted[s].epoch = epoch /\ ~replacing

\* What a server serves was the journal's log at some moment, whole: even when
\* its opening ran into a compaction it has no chain put together from two.
ViewIsOfTheLog ==
    Readable(journal.members) =>
        \A s \in Servers : Current(s) => IsPrefix(View(s), Records(journal.members))

\* A call whose check of journal.json went through is answered from a chain
\* that holds every note reported to any writer before the call came in, and
\* not replaced since ("a long-running server sees notes and compactions from
\* other sessions", docs/agent-journal.md), at the id its writer cites it by.
CallsSeeReportedNotes ==
    \A s \in Servers :
        at[s] = "answer" /\ call[s].refreshed /\ Current(s) =>
            \A r \in call[s].before \cap reported : Shows(s, r[1], r[2])

\* When a write's answer carries no warning the server already shows the note
\* it cites, even if the journal was folded or replaced while it reopened it
\* ("searches may not show it until the next call" is the warning's text).
WrittenNoteShown ==
    \A s \in Servers :
        at[s] = "answer" /\ call[s].refreshed /\ ~replacing =>
            \A r \in call[s].cites \cap reported : Shows(s, r[1], r[2])

\* The chain a server has open is one the journal was, and an answer from it
\* shows what the journal held when the call came in and what the call wrote.
AnswersCurrent == ServerTypeOK /\ ViewIsOfTheLog /\ CallsSeeReportedNotes /\ WrittenNoteShown

\* A server never goes back to an older chain than one it has served: what a
\* search has found, a later get_record still finds, until the journal is
\* replaced.
ViewNeverShrinks ==
    [][\A s \in Servers : Current(s) => IsPrefix(View(s), View(s)')]_allVars
=============================================================================
