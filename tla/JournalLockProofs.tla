------------------------- MODULE JournalLockProofs -------------------------
(***************************************************************************)
(* Mutual exclusion of JournalLock for any set of processes and any number *)
(* of calls.                                                               *)
(***************************************************************************)
EXTENDS JournalLock, TLAPS

(***************************************************************************)
(* The inductive invariant.  A record is published in .lock at most once,  *)
(* so a record that was ever found stale cannot come back as somebody's    *)
(* live lock; the removal of a stale lock is exclusive to the breaker that *)
(* holds .lock.break; and what it is about to remove is still the record   *)
(* it judged.                                                              *)
(***************************************************************************)

\* No record of a call that has not begun is known to anybody.
Bounded == \A b \in Read \cup stale : b[2] <= calls[b[1]]

\* The record of a call that has not got the lock is not known either.
Unpublished ==
    \A p \in Procs : pc[p] \in Seeking \cup Breaking =>
        /\ lock # Body(p)
        /\ Body(p) \notin stale
        /\ \A q \in Procs : raw[q] # Body(p)

HolderNamed ==
    Trusted => \A p \in Procs : pc[p] \in Holding =>
                   lock = Body(p) /\ Body(p) \notin stale

BreakerNamed ==
    Trusted => \A p \in Procs : pc[p] \in Breaking => brk = Body(p)

JudgedStale ==
    \A p \in Procs :
        pc[p] \in {"breakLink", "readBreak", "judgeBreak", "rmBreak", "recheck", "rmLock"}
            => raw[p] \in stale

RemovesWhatItJudged ==
    Trusted => \A p \in Procs : pc[p] = "rmLock" => lock = raw[p]

IInv ==
    /\ TypeOK
    /\ Bounded
    /\ Unpublished
    /\ HolderNamed
    /\ BreakerNamed
    /\ JudgedStale
    /\ RemovesWhatItJudged

\* Every variable keeps its type.
THEOREM TypeCorrect == Spec => []TypeOK
<1>1. Init => TypeOK
  BY DEF Init, TypeOK, Bodies, Windows
<1>2. TypeOK /\ [Next]_vars => TypeOK'
  <2> SUFFICES ASSUME TypeOK, [Next]_vars PROVE TypeOK'
    OBVIOUS
  <2> USE DEF TypeOK, Bodies, Windows, Goto, Forget, Body, Seeking, Breaking, Holding,
              fileVars, localVars, ageVars
  <2>1. CASE UNCHANGED vars
    BY <2>1 DEF vars
  <2>2. CASE AgeLock
    BY <2>2 DEF AgeLock
  <2>3. CASE AgeBreak
    BY <2>3 DEF AgeBreak
  <2>4. ASSUME NEW p \in Procs, Begin(p) PROVE TypeOK'
    BY <2>4 DEF Begin
  <2>5. ASSUME NEW p \in Procs, GiveUp(p) PROVE TypeOK'
    BY <2>5 DEF GiveUp
  <2>6. ASSUME NEW p \in Procs, Crash(p) PROVE TypeOK'
    BY <2>6 DEF Crash, Read, ReadBreaks
  <2>7. ASSUME NEW p \in Procs, Step(p) PROVE TypeOK'
    <3>1. CASE LinkLock(p) BY <3>1 DEF LinkLock
    <3>2. CASE ReadLock(p) BY <3>2 DEF ReadLock
    <3>3. CASE JudgeLock(p) BY <3>3 DEF JudgeLock
    <3>4. CASE Retry(p) BY <3>4 DEF Retry
    <3>5. CASE Finish(p) BY <3>5 DEF Finish
    <3>6. CASE ReadOwnLock(p) BY <3>6 DEF ReadOwnLock
    <3>7. CASE RemoveOwnLock(p) BY <3>7 DEF RemoveOwnLock
    <3>8. CASE LinkBreak(p) BY <3>8 DEF LinkBreak
    <3>9. CASE ReadBreak(p) BY <3>9 DEF ReadBreak
    <3>10. CASE JudgeBreak(p) BY <3>10 DEF JudgeBreak
    <3>11. CASE RemoveStaleBreak(p) BY <3>11 DEF RemoveStaleBreak
    <3>12. CASE Recheck(p) BY <3>12 DEF Recheck
    <3>13. CASE RemoveStaleLock(p) BY <3>13 DEF RemoveStaleLock
    <3>14. CASE ReadOwnBreak(p) BY <3>14 DEF ReadOwnBreak
    <3>15. CASE RemoveOwnBreak(p) BY <3>15 DEF RemoveOwnBreak
    <3>. QED BY <2>7, <3>1, <3>2, <3>3, <3>4, <3>5, <3>6, <3>7, <3>8, <3>9, <3>10,
                <3>11, <3>12, <3>13, <3>14, <3>15 DEF Step
  <2>. QED BY <2>1, <2>2, <2>3, <2>4, <2>5, <2>6, <2>7 DEF Next
<1>. QED BY <1>1, <1>2, PTL DEF Spec

\* At most one process is between taking and releasing the lock, for any number
\* of processes and calls, unless a breaker at work lost .lock.break or a live
\* holder's record aged past STALE_LOCK_MS.
THEOREM ExclusionInvariant == Spec => []IInv
<1> USE DEF Seeking, Breaking, Holding, Body, Trusted, Windows
<1>1. Init => IInv
  BY NoneAssumption DEF Init, IInv, TypeOK, Bodies, Bounded, Read, Unpublished,
     HolderNamed, BreakerNamed, JudgedStale, RemovesWhatItJudged
<1>2. IInv /\ TypeOK' /\ [Next]_vars => IInv'
  <2> SUFFICES ASSUME IInv, TypeOK', [Next]_vars PROVE IInv'
    OBVIOUS
  <2> USE NoneAssumption DEF IInv, TypeOK, Bodies, Goto, Forget, fileVars, localVars, ageVars
  <2>1. CASE UNCHANGED vars
    BY <2>1 DEF vars, Bounded, Read, Unpublished, HolderNamed, BreakerNamed, JudgedStale,
                RemovesWhatItJudged
  <2>2. CASE AgeLock
    <3>1. Bounded' BY <2>2 DEF AgeLock, Bounded, Read
    <3>2. Unpublished' BY <2>2 DEF AgeLock, Unpublished
    <3>3. HolderNamed' BY <2>2 DEF AgeLock, HolderNamed
    <3>4. BreakerNamed' BY <2>2 DEF AgeLock, BreakerNamed
    <3>5. JudgedStale' BY <2>2 DEF AgeLock, JudgedStale
    <3>6. RemovesWhatItJudged' BY <2>2 DEF AgeLock, RemovesWhatItJudged
    <3>. QED BY <3>1, <3>2, <3>3, <3>4, <3>5, <3>6
  <2>3. CASE AgeBreak
    BY <2>3 DEF AgeBreak, Bounded, Read, Unpublished, HolderNamed, BreakerNamed, JudgedStale,
                RemovesWhatItJudged
  <2>4. ASSUME NEW p \in Procs, Begin(p) PROVE IInv'
    <3>1. Bounded' BY <2>4 DEF Begin, Bounded, Read
    <3>2. Unpublished' BY <2>4 DEF Begin, Unpublished, Bounded, Read
    <3>3. HolderNamed' BY <2>4 DEF Begin, HolderNamed
    <3>4. BreakerNamed' BY <2>4 DEF Begin, BreakerNamed
    <3>5. JudgedStale' BY <2>4 DEF Begin, JudgedStale
    <3>6. RemovesWhatItJudged' BY <2>4 DEF Begin, RemovesWhatItJudged
    <3>. QED BY <3>1, <3>2, <3>3, <3>4, <3>5, <3>6
  <2>5. ASSUME NEW p \in Procs, GiveUp(p) PROVE IInv'
    BY <2>5 DEF GiveUp, Bounded, Read, Unpublished, HolderNamed, BreakerNamed, JudgedStale,
                RemovesWhatItJudged
  <2>6. ASSUME NEW p \in Procs, Crash(p) PROVE IInv'
    <3>1. Bounded' BY <2>6 DEF Crash, Bounded, Read
    <3>2. Unpublished' BY <2>6 DEF Crash, Unpublished, Read
    <3>3. HolderNamed' BY <2>6 DEF Crash, HolderNamed, Read
    <3>4. BreakerNamed' BY <2>6 DEF Crash, BreakerNamed
    <3>5. JudgedStale' BY <2>6 DEF Crash, JudgedStale
    <3>6. RemovesWhatItJudged' BY <2>6 DEF Crash, RemovesWhatItJudged
    <3>. QED BY <3>1, <3>2, <3>3, <3>4, <3>5, <3>6
  <2>7. ASSUME NEW p \in Procs, Step(p) PROVE IInv'
    <3> USE DEF Bounded, Read, Unpublished, HolderNamed, BreakerNamed, JudgedStale,
                RemovesWhatItJudged
    <3>1. CASE LinkLock(p) BY <3>1 DEF LinkLock
    <3>2. CASE ReadLock(p) BY <3>2 DEF ReadLock
    <3>3. CASE JudgeLock(p) BY <3>3 DEF JudgeLock
    <3>4. CASE Retry(p) BY <3>4 DEF Retry
    <3>5. CASE Finish(p) BY <3>5 DEF Finish
    <3>6. CASE ReadOwnLock(p) BY <3>6 DEF ReadOwnLock
    <3>7. CASE RemoveOwnLock(p)
      <4>1. Trusted => lock = <<p, calls[p]>> /\ lock \notin stale
        <5>1. pc[p] \in Holding
          BY <3>7 DEF RemoveOwnLock
        <5> HIDE DEF Holding, Trusted, TypeOK, Bounded, Read, Unpublished, BreakerNamed,
                     JudgedStale, RemovesWhatItJudged
        <5>. QED BY <5>1
      <4>2. HolderNamed'
        BY <3>7, <4>1 DEF RemoveOwnLock
      <4>3. RemovesWhatItJudged'
        \* A lock about to be removed as stale would be this holder's.
        <5> SUFFICES ASSUME Trusted, NEW q \in Procs, pc'[q] = "rmLock" PROVE FALSE
          BY <3>7 DEF RemoveOwnLock
        <5>1. lock = raw[q] /\ raw[q] \in stale
          BY <3>7 DEF RemoveOwnLock
        <5>. QED BY <4>1, <5>1
      <4>. QED BY <3>7, <4>2, <4>3 DEF RemoveOwnLock
    <3>8. CASE LinkBreak(p) BY <3>8 DEF LinkBreak
    <3>9. CASE ReadBreak(p) BY <3>9 DEF ReadBreak
    <3>10. CASE JudgeBreak(p) BY <3>10 DEF JudgeBreak
    <3>11. CASE RemoveStaleBreak(p) BY <3>11 DEF RemoveStaleBreak
    <3>12. CASE Recheck(p) BY <3>12 DEF Recheck
    <3>13. CASE RemoveStaleLock(p) BY <3>13 DEF RemoveStaleLock
    <3>14. CASE ReadOwnBreak(p) BY <3>14 DEF ReadOwnBreak
    <3>15. CASE RemoveOwnBreak(p) BY <3>15 DEF RemoveOwnBreak
    <3>. QED BY <2>7, <3>1, <3>2, <3>3, <3>4, <3>5, <3>6, <3>7, <3>8, <3>9, <3>10,
                <3>11, <3>12, <3>13, <3>14, <3>15 DEF Step
  <2>. QED BY <2>1, <2>2, <2>3, <2>4, <2>5, <2>6, <2>7 DEF Next
<1>. QED BY <1>1, <1>2, TypeCorrect, PTL DEF Spec

\* Two writers never hold the journal's lock at once, nor do two breakers work on
\* it at once.
THEOREM Exclusion == Spec => []ExclusiveAccess
<1>1. IInv => MutualExclusion
  <2> SUFFICES ASSUME IInv, Trusted, NEW p \in Procs, NEW q \in Procs,
                      pc[p] \in Holding, pc[q] \in Holding
               PROVE  p = q
    BY DEF MutualExclusion
  <2>1. <<p, calls[p]>> = <<q, calls[q]>>
    BY DEF IInv, HolderNamed, Body
  <2>. QED BY <2>1
<1>2. IInv => BreakersExclusive
  BY DEF IInv, BreakerNamed, BreakersExclusive, Body
<1>3. IInv => ExclusiveAccess
  BY <1>1, <1>2 DEF ExclusiveAccess
<1>. QED BY <1>3, ExclusionInvariant, PTL

\* withLock keeps the promise the journal's operations rely on: every step is a
\* step of the abstract mutex or leaves it alone.
THEOREM LockImplementsMutex == Spec => ImplementsMutex
<1> DEFINE inside == {p \in Procs : pc[p] \in Holding}
<1>1. Init => Abstract!Init
  BY DEF Init, Abstract!Init, Holding, Trusted
<1>2. IInv /\ [Next]_vars => [Abstract!Next]_(Abstract!mutexVars)
  <2> SUFFICES ASSUME IInv, [Next]_vars
               PROVE  [Abstract!Next]_(Abstract!mutexVars)
    OBVIOUS
  <2>1. TypeOK /\ HolderNamed
    BY DEF IInv
  <2>2. ASSUME inside' = inside, Trusted' => Trusted
        PROVE  [Abstract!Next]_(Abstract!mutexVars)
    <3>1. CASE Trusted' = Trusted
      BY <2>2, <3>1 DEF Abstract!mutexVars
    <3>2. CASE Trusted' # Trusted
      BY <2>2, <3>2 DEF Abstract!Next, Abstract!Void, Trusted
    <3>. QED BY <3>1, <3>2
  <2>3. ASSUME NEW p \in Procs, pc[p] \in Holding, pc' = [pc EXCEPT ![p] = "idle"],
               Trusted' = Trusted
        PROVE  [Abstract!Next]_(Abstract!mutexVars)
    <3>1. p \in inside /\ inside' = inside \ {p}
      BY <2>1, <2>3 DEF TypeOK, Holding
    <3>2. Abstract!Leave(p)
      BY <2>3, <3>1 DEF Abstract!Leave
    <3>. QED BY <3>2 DEF Abstract!Next
  <2>4. ASSUME NEW p \in Procs, LinkLock(p), lock = None
        PROVE  [Abstract!Next]_(Abstract!mutexVars)
    <3>1. Trusted => inside = {}
      <4> SUFFICES ASSUME Trusted, NEW q \in Procs, pc[q] \in Holding PROVE FALSE
        OBVIOUS
      <4>1. None = <<q, calls[q]>>
        BY <2>1, <2>4 DEF HolderNamed, Body
      <4>2. calls[q] \in Nat
        BY <2>1 DEF TypeOK
      <4>. QED BY <4>1, <4>2, NoneAssumption DEF Bodies
    <3>2. p \notin inside /\ inside' = inside \cup {p}
      BY <2>1, <2>4 DEF LinkLock, Goto, TypeOK, Holding
    <3>3. Trusted' = Trusted
      BY <2>4 DEF LinkLock, Trusted
    <3>4. Abstract!Enter(p)
      BY <3>1, <3>2, <3>3 DEF Abstract!Enter
    <3>. QED BY <3>4 DEF Abstract!Next
  <2>5. ASSUME NEW p \in Procs, NEW to \in {"idle"} \cup Seeking \cup Breaking,
               pc[p] \notin Holding, pc' = [pc EXCEPT ![p] = to]
        PROVE  inside' = inside
    BY <2>1, <2>5 DEF TypeOK, Holding, Seeking, Breaking
  <2>6. CASE UNCHANGED vars
    BY <2>2, <2>6 DEF vars, Trusted
  <2>7. CASE AgeLock
    BY <2>2, <2>7 DEF AgeLock, Trusted
  <2>8. CASE AgeBreak
    BY <2>2, <2>8 DEF AgeBreak, Trusted
  <2>9. ASSUME NEW p \in Procs, Begin(p)
        PROVE  [Abstract!Next]_(Abstract!mutexVars)
    <3>1. pc[p] \notin Holding /\ pc' = [pc EXCEPT ![p] = "link"]
      BY <2>9 DEF Begin, Goto, Holding
    <3>2. inside' = inside
      BY <2>5, <3>1 DEF Seeking
    <3>. QED BY <2>2, <2>9, <3>2 DEF Begin, Trusted
  <2>10. ASSUME NEW p \in Procs, GiveUp(p)
         PROVE  [Abstract!Next]_(Abstract!mutexVars)
    <3>1. pc[p] \notin Holding /\ pc' = [pc EXCEPT ![p] = "idle"]
      BY <2>10 DEF GiveUp, Goto, Holding
    <3>2. inside' = inside
      BY <2>5, <3>1
    <3>. QED BY <2>2, <2>10, <3>2 DEF GiveUp, Trusted
  <2>11. ASSUME NEW p \in Procs, Crash(p)
         PROVE  [Abstract!Next]_(Abstract!mutexVars)
    <3>1. Trusted' = Trusted
      BY <2>1, <2>11 DEF Crash, Trusted, TypeOK, Windows
    <3>2. CASE pc[p] \in Holding
      BY <2>3, <2>11, <3>1, <3>2 DEF Crash
    <3>3. CASE pc[p] \notin Holding
      <4>1. inside' = inside
        BY <2>5, <2>11, <3>3 DEF Crash
      <4>. QED BY <2>2, <3>1, <4>1
    <3>. QED BY <3>2, <3>3
  <2>12. ASSUME NEW p \in Procs, Finish(p) \/ (ReadOwnLock(p) /\ lock = Body(p))
         PROVE  [Abstract!Next]_(Abstract!mutexVars)
    <3>1. inside' = inside
      BY <2>1, <2>12 DEF Finish, ReadOwnLock, Goto, Holding, TypeOK
    <3>. QED BY <2>2, <2>12, <3>1 DEF Finish, ReadOwnLock, Trusted
  <2>13. ASSUME NEW p \in Procs, RemoveOwnLock(p) \/ (ReadOwnLock(p) /\ lock # Body(p))
         PROVE  [Abstract!Next]_(Abstract!mutexVars)
    <3>1. pc[p] \in Holding /\ pc' = [pc EXCEPT ![p] = "idle"] /\ Trusted' = Trusted
      BY <2>13 DEF RemoveOwnLock, ReadOwnLock, Goto, Holding, Trusted
    <3>. QED BY <2>3, <3>1
  <2>14. ASSUME NEW p \in Procs,
                \/ LinkLock(p) /\ lock # None
                \/ ReadLock(p) \/ JudgeLock(p) \/ Retry(p) \/ LinkBreak(p) \/ ReadBreak(p)
                \/ JudgeBreak(p) \/ RemoveStaleBreak(p) \/ Recheck(p) \/ RemoveStaleLock(p)
                \/ ReadOwnBreak(p) \/ RemoveOwnBreak(p)
         PROVE  [Abstract!Next]_(Abstract!mutexVars)
    \* The steps that seek the lock or break one.
    <3>1. \E to \in {"idle"} \cup Seeking \cup Breaking :
             pc[p] \notin Holding /\ pc' = [pc EXCEPT ![p] = to]
      BY <2>14 DEF LinkLock, ReadLock, JudgeLock, Retry, LinkBreak, ReadBreak, JudgeBreak,
         RemoveStaleBreak, Recheck, RemoveStaleLock, ReadOwnBreak, RemoveOwnBreak, Goto,
         Holding, Seeking, Breaking
    <3>2. inside' = inside
      BY <2>5, <3>1
    <3>3. Trusted' => Trusted
      BY <2>14 DEF LinkLock, ReadLock, JudgeLock, Retry, LinkBreak, ReadBreak, JudgeBreak,
         RemoveStaleBreak, Recheck, RemoveStaleLock, ReadOwnBreak, RemoveOwnBreak, Trusted
    <3>. QED BY <2>2, <3>2, <3>3
  <2>. QED BY <2>4, <2>6, <2>7, <2>8, <2>9, <2>10, <2>11, <2>12, <2>13, <2>14 DEF Next, Step
<1>. QED BY <1>1, <1>2, ExclusionInvariant, PTL DEF Spec, ImplementsMutex, Abstract!Spec
=============================================================================
