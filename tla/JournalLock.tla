---------------------------- MODULE JournalLock ----------------------------
(***************************************************************************)
(* The journal's cross-process lock: withLock, isStaleLock and             *)
(* breakStaleLock of src/packages/pikelet/src/journal.mjs.                 *)
(*                                                                         *)
(* The only shared state is two files, .lock and .lock.break.  A file is   *)
(* its contents: the holder record written by one call of withLock, or     *)
(* None.  Every file system call is one action, so any number of other     *)
(* processes' calls may fall between two of them, and a process may die    *)
(* between any two.  The private files a record is linked from are not     *)
(* modelled: only their writer ever names them.                            *)
(***************************************************************************)
EXTENDS Naturals

CONSTANTS
    Procs,    \* the processes that write to the journal
    MaxCalls, \* bound: calls of withLock per process
    None      \* a file that is not there

\* A holder record {pid, at, token} is unique to a call: token is random.
Bodies == Procs \X Nat

ASSUME CallsAssumption == MaxCalls \in Nat
ASSUME NoneAssumption == None \notin Bodies

VARIABLES
    lock,       \* contents of .lock
    brk,        \* contents of .lock.break
    pc,         \* what each process is about to do
    calls,      \* how many calls of withLock each process has made
    raw,        \* what the process last read from .lock
    other,      \* what the process last read from .lock.break
    stale,      \* records isStaleLock(_, STALE_LOCK_MS) is true of
    staleBreak, \* records isStaleLock(_, BREAK_STALE_MS) is true of in .lock.break
    windows     \* history: which of the ways to lose exclusion have been opened

fileVars == <<lock, brk>>
localVars == <<calls, raw, other>>
ageVars == <<stale, staleBreak>>
vars == <<lock, brk, pc, calls, raw, other, stale, staleBreak, windows>>

Breaking == {"recheck", "rmLock", "readOwnBreak", "rmOwnBreak"}
Holding == {"locked", "readOwn", "rmOwn"}
Seeking == {"link", "readLock", "judge", "breakLink", "readBreak",
            "judgeBreak", "rmBreak", "wait"}
Windows == {"breakRobbed", "holderAged"}

Body(p) == <<p, calls[p]>>

TypeOK ==
    /\ lock \in Bodies \cup {None}
    /\ brk \in Bodies \cup {None}
    /\ pc \in [Procs -> {"idle"} \cup Seeking \cup Breaking \cup Holding]
    /\ calls \in [Procs -> Nat]
    /\ raw \in [Procs -> Bodies \cup {None}]
    /\ other \in [Procs -> Bodies \cup {None}]
    /\ stale \in SUBSET Bodies
    /\ staleBreak \in SUBSET Bodies
    /\ windows \in SUBSET Windows

\* A journal may be found with the files of processes that died before, whose
\* records count as call 0 and read as stale now or when they have aged.
Init ==
    /\ lock \in {None} \cup (Procs \X {0})
    /\ brk \in {None} \cup (Procs \X {0})
    /\ pc = [p \in Procs |-> "idle"]
    /\ calls = [p \in Procs |-> 0]
    /\ raw = [p \in Procs |-> None]
    /\ other = [p \in Procs |-> None]
    /\ stale = {}
    /\ staleBreak = {}
    /\ windows = {}

Goto(p, from, to) ==
    /\ pc[p] = from
    /\ pc' = [pc EXCEPT ![p] = to]

\* What was read is local to one round of the loop and one call of
\* breakStaleLock.
Forget(p) ==
    /\ raw' = [raw EXCEPT ![p] = None]
    /\ other' = [other EXCEPT ![p] = None]

(***************************************************************************)
(* withLock                                                                *)
(***************************************************************************)

\* A call begins: a fresh record.
Begin(p) ==
    /\ calls[p] < MaxCalls
    /\ Goto(p, "idle", "link")
    /\ calls' = [calls EXCEPT ![p] = @ + 1]
    /\ UNCHANGED <<fileVars, raw, other, ageVars, windows>>

\* Mutant: the record is renamed into place, over whatever is there.
LinkLock_Rename(p) ==
    /\ lock' = Body(p)
    /\ Goto(p, "link", "locked")
    /\ UNCHANGED <<brk, localVars, ageVars, windows>>

\* fs.link(mine, .lock): atomic, EEXIST when .lock is there.
LinkLock(p) ==
    /\ \/ /\ lock = None
          /\ lock' = Body(p)
          /\ Goto(p, "link", "locked")
       \/ /\ lock # None
          /\ Goto(p, "link", "readLock")
          /\ UNCHANGED lock
    /\ UNCHANGED <<brk, localVars, ageVars, windows>>

\* The lock released since our link: link again at once.
ReadLock(p) ==
    /\ IF lock = None THEN Goto(p, "readLock", "link") ELSE Goto(p, "readLock", "judge")
    /\ raw' = [raw EXCEPT ![p] = lock]
    /\ UNCHANGED <<fileVars, calls, other, ageVars, windows>>

\* isStaleLock of what was read, which .lock may no longer hold.
JudgeLock(p) ==
    /\ \/ /\ raw[p] \in stale
          /\ Goto(p, "judge", "breakLink")
          /\ UNCHANGED <<raw, other>>
       \/ /\ raw[p] \notin stale
          /\ Goto(p, "judge", "wait")
          /\ Forget(p)
    /\ UNCHANGED <<fileVars, calls, ageVars, windows>>

\* After a pause, try again.
Retry(p) ==
    /\ Goto(p, "wait", "link")
    /\ UNCHANGED <<fileVars, localVars, ageVars, windows>>

\* The deadline (waitMs) is past: the call throws.  How much time the steps
\* before took is not modelled, so this may happen in any round.
GiveUp(p) ==
    /\ Goto(p, "wait", "idle")
    /\ UNCHANGED <<fileVars, localVars, ageVars, windows>>

\* fn returned or threw; release only a lock that is still ours.
Finish(p) ==
    /\ Goto(p, "locked", "readOwn")
    /\ UNCHANGED <<fileVars, localVars, ageVars, windows>>

ReadOwnLock(p) ==
    /\ IF lock = Body(p) THEN Goto(p, "readOwn", "rmOwn") ELSE Goto(p, "readOwn", "idle")
    /\ UNCHANGED <<fileVars, localVars, ageVars, windows>>

RemoveOwnLock(p) ==
    /\ Goto(p, "rmOwn", "idle")
    /\ lock' = None
    /\ UNCHANGED <<brk, localVars, ageVars, windows>>

(***************************************************************************)
(* breakStaleLock                                                          *)
(***************************************************************************)

\* A breaker's record is as old as this link, so what was said of an earlier
\* one of the same call does not apply to it.
LinkBreak(p) ==
    /\ \/ /\ brk = None
          /\ brk' = Body(p)
          /\ staleBreak' = staleBreak \ {Body(p)}
          /\ Goto(p, "breakLink", "recheck")
       \/ /\ brk # None
          /\ Goto(p, "breakLink", "readBreak")
          /\ UNCHANGED <<brk, staleBreak>>
    /\ UNCHANGED <<lock, localVars, stale, windows>>

ReadBreak(p) ==
    /\ \/ /\ brk = None
          /\ Goto(p, "readBreak", "wait")
          /\ Forget(p)
       \/ /\ brk # None
          /\ Goto(p, "readBreak", "judgeBreak")
          /\ other' = [other EXCEPT ![p] = brk]
          /\ UNCHANGED raw
    /\ UNCHANGED <<fileVars, calls, ageVars, windows>>

\* Mutant: a .lock.break is waited for, whoever left it.
JudgeBreak_Wait(p) ==
    /\ Goto(p, "judgeBreak", "wait")
    /\ Forget(p)
    /\ UNCHANGED <<fileVars, calls, ageVars, windows>>

JudgeBreak(p) ==
    /\ \/ /\ other[p] \in staleBreak
          /\ Goto(p, "judgeBreak", "rmBreak")
          /\ UNCHANGED <<raw, other>>
       \/ /\ other[p] \notin staleBreak
          /\ Goto(p, "judgeBreak", "wait")
          /\ Forget(p)
    /\ UNCHANGED <<fileVars, calls, ageVars, windows>>

\* fs.rm(.lock.break), whatever it holds by now.
RemoveStaleBreak(p) ==
    /\ Goto(p, "rmBreak", "wait")
    /\ brk' = None
    /\ Forget(p)
    /\ windows' = IF \E q \in Procs : pc[q] \in Breaking /\ brk = Body(q)
                  THEN windows \cup {"breakRobbed"} ELSE windows
    /\ UNCHANGED <<lock, calls, ageVars>>

\* Mutant: the stale lock is removed on the strength of the first reading.
Recheck_Trust(p) ==
    /\ Goto(p, "recheck", "rmLock")
    /\ UNCHANGED <<fileVars, localVars, ageVars, windows>>

\* The breaker looks at .lock again before it removes it.
Recheck(p) ==
    /\ IF lock = raw[p] THEN Goto(p, "recheck", "rmLock") ELSE Goto(p, "recheck", "readOwnBreak")
    /\ UNCHANGED <<fileVars, localVars, ageVars, windows>>

RemoveStaleLock(p) ==
    /\ Goto(p, "rmLock", "readOwnBreak")
    /\ lock' = None
    /\ UNCHANGED <<brk, localVars, ageVars, windows>>

ReadOwnBreak(p) ==
    /\ IF brk = Body(p)
       THEN Goto(p, "readOwnBreak", "rmOwnBreak")
       ELSE Goto(p, "readOwnBreak", "link")
    /\ Forget(p)
    /\ UNCHANGED <<fileVars, calls, ageVars, windows>>

RemoveOwnBreak(p) ==
    /\ Goto(p, "rmOwnBreak", "link")
    /\ brk' = None
    /\ UNCHANGED <<lock, localVars, ageVars, windows>>

(***************************************************************************)
(* The surroundings: deaths, the clock                                     *)
(***************************************************************************)

\* The records somebody has read or may yet read.
Read == ({lock} \cup {raw[p] : p \in Procs}) \ {None}
ReadBreaks == ({brk} \cup {other[p] : p \in Procs}) \ {None}

\* The process of p ends, in a call or between two.  From then on its records
\* read as stale, unless its pid already names another live process.
Crash(p) ==
    /\ pc' = [pc EXCEPT ![p] = "idle"]
    /\ Forget(p)
    /\ \/ /\ stale' = stale \cup {b \in Read : b[1] = p}
          /\ staleBreak' = staleBreak \cup {b \in ReadBreaks : b[1] = p}
       \/ UNCHANGED ageVars
    /\ UNCHANGED <<fileVars, calls, windows>>

\* The record in .lock passes STALE_LOCK_MS, its writer dead or not.
AgeLock ==
    /\ lock # None /\ lock \notin stale
    /\ stale' = stale \cup {lock}
    /\ windows' = IF \E p \in Procs : pc[p] \in Holding /\ lock = Body(p)
                  THEN windows \cup {"holderAged"} ELSE windows
    /\ UNCHANGED <<fileVars, pc, localVars, staleBreak>>

\* The record in .lock.break passes BREAK_STALE_MS, its writer dead or not.
AgeBreak ==
    /\ brk # None /\ brk \notin staleBreak
    /\ staleBreak' = staleBreak \cup {brk}
    /\ UNCHANGED <<fileVars, pc, localVars, stale, windows>>

\* The steps a live process takes by itself once its call has begun.
Step(p) ==
    \/ LinkLock(p) \/ ReadLock(p) \/ JudgeLock(p) \/ Retry(p)
    \/ Finish(p) \/ ReadOwnLock(p) \/ RemoveOwnLock(p)
    \/ LinkBreak(p) \/ ReadBreak(p) \/ JudgeBreak(p) \/ RemoveStaleBreak(p)
    \/ Recheck(p) \/ RemoveStaleLock(p) \/ ReadOwnBreak(p) \/ RemoveOwnBreak(p)

Next ==
    \/ \E p \in Procs : Begin(p) \/ Step(p) \/ GiveUp(p) \/ Crash(p)
    \/ AgeLock
    \/ AgeBreak

Spec == Init /\ [][Next]_vars

\* A live process keeps running and the clock keeps moving; nobody has to call
\* withLock, to die, or to give up.
Fairness ==
    /\ \A p \in Procs : WF_vars(Step(p))
    /\ WF_vars(AgeLock)
    /\ WF_vars(AgeBreak)

FairSpec == Spec /\ Fairness
-----------------------------------------------------------------------------
(***************************************************************************)
(* Properties                                                              *)
(***************************************************************************)

Trusted == windows = {}

\* Two writers are never between link and release at once ("One writer at a
\* time: two local sessions appending to the same journal would otherwise fork
\* the chain"), unless a breaker at work had .lock.break removed under it or a
\* live holder outlasted STALE_LOCK_MS.
MutualExclusion ==
    Trusted => \A p, q \in Procs :
                   pc[p] \in Holding /\ pc[q] \in Holding => p = q

\* Between its check of .lock and its removal, a breaker is the only one that
\* could free .lock ("no other breaker can free .lock for a new holder").
BreakersExclusive ==
    Trusted => \A p, q \in Procs :
                   pc[p] \in Breaking /\ pc[q] \in Breaking => p = q

\* Taking the lock and breaking a stale one are each done by one process at a
\* time.
ExclusiveAccess == MutualExclusion /\ BreakersExclusive

\* What dead processes left behind never shuts a waiter out: a call of withLock
\* that neither dies nor reaches its deadline gets in, whatever .lock and
\* .lock.break held when it came (once the others' calls, of which there are
\* MaxCalls each, have ended).
WaiterGetsIn ==
    \A p \in Procs :
        pc[p] \in Seeking ~> pc[p] \in Holding \cup {"idle"}

\* withLock implements the abstract mutex.
Abstract == INSTANCE Mutex WITH
    inside <- {p \in Procs : pc[p] \in Holding},
    sound <- Trusted

ImplementsMutex == Abstract!Spec
=============================================================================
