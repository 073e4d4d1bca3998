------------------------------ MODULE EmbedPool ------------------------------
(***************************************************************************)
(* Embedding the rows of a build (embed.mjs) on worker threads             *)
(* (embed-worker.mjs), and on the main thread when the pool fails.         *)
(*                                                                         *)
(* The main thread gives each worker one row at a time, numbers the rows   *)
(* as it gives them out, and puts a vector where its number says; whatever *)
(* order the workers answer in, the result is that of the sequential path. *)
(* A worker thread ends with an error event when it cannot load its kernel *)
(* or runs out of memory; an embedding that throws is answered with an     *)
(* error message. Any of these gives up the pool: its workers are stopped, *)
(* what they computed is thrown away, and the main thread starts over.     *)
(*                                                                         *)
(* The vector of a text is the text itself: what matters is which row's    *)
(* text a vector was computed from.                                        *)
(***************************************************************************)
EXTENDS Integers, Sequences

CONSTANTS Workers,  \* the threads of the largest pool
          Texts,    \* the texts of rows
          NoVector  \* a slot that holds no vector yet

ASSUME NoVectorAssumption == NoVector \notin Texts

VARIABLES rows,       \* the texts to embed
          pool,       \* "idle", "running", "stopping", "sequential", "done" or "failed"
          rejected,   \* the pool's promise has been rejected
          worker,     \* what each thread does, or has sent and is not handled yet
          next,       \* how many rows have been given out
          completed,  \* how many answers have been stored
          vectors     \* the result, by row

poolVars == <<rows, pool, rejected, worker, next, completed, vectors>>

Idle     == [state |-> "idle", row |-> 0]     \* no thread
Starting == [state |-> "starting", row |-> 0] \* loading its kernel
Ready    == [state |-> "ready", row |-> 0]    \* its ready message is on its way
Busy(i)  == [state |-> "busy", row |-> i]
Vector(i) == [state |-> "vector", row |-> i]  \* a vector is on its way
Error    == [state |-> "error", row |-> 0]    \* an error message or event is
Failed   == [state |-> "failed", row |-> 0]   \* given up, with whatever it had
Closed   == [state |-> "closed", row |-> 0]   \* told that no rows are left

PoolInit == /\ rows = <<>>
            /\ pool = "idle"
            /\ rejected = FALSE
            /\ worker = [w \in Workers |-> Idle]
            /\ next = 0
            /\ completed = 0
            /\ vectors = <<>>

\* embedWithInlineKernel: a pool when more than one worker is called for.
EmbedRows(texts, crew) ==
  /\ pool = "idle"
  /\ rows' = texts
  /\ pool' = IF crew = {} THEN "sequential" ELSE "running"
  /\ worker' = [w \in Workers |-> IF w \in crew THEN Starting ELSE Idle]
  /\ vectors' = [i \in 1..Len(texts) |-> NoVector]
  /\ rejected' = FALSE /\ next' = 0 /\ completed' = 0

\* A thread at work. It may fail at any of its steps.
Loaded(w) ==
  /\ worker[w] = Starting
  /\ worker' = [worker EXCEPT ![w] = Ready]
  /\ UNCHANGED <<rows, pool, rejected, next, completed, vectors>>
Embedded(w) ==
  /\ worker[w].state = "busy"
  /\ worker' = [worker EXCEPT ![w] = Vector(@.row)]
  /\ UNCHANGED <<rows, pool, rejected, next, completed, vectors>>
Fails(w) ==
  /\ worker[w].state \in {"starting", "busy"}
  /\ worker' = [worker EXCEPT ![w] = Error]
  /\ UNCHANGED <<rows, pool, rejected, next, completed, vectors>>

\* dispatch: the next row for this worker, or the word that none is left.
Dispatch(w) ==
  IF next >= Len(rows) THEN worker' = [worker EXCEPT ![w] = Closed] /\ UNCHANGED next
  ELSE worker' = [worker EXCEPT ![w] = Busy(next + 1)] /\ next' = next + 1

\* The handlers of the main thread. They run on while a failed pool is being
\* stopped: what a thread had sent is still delivered.
OnReady(w) ==
  /\ worker[w] = Ready
  /\ Dispatch(w)
  /\ UNCHANGED <<rows, pool, rejected, completed, vectors>>
OnVector_InTurn(w) ==
  /\ worker[w].state = "vector"
  /\ vectors' = [vectors EXCEPT ![completed + 1] = rows[worker[w].row]]
  /\ completed' = completed + 1
  /\ Dispatch(w)
  /\ UNCHANGED <<rows, pool, rejected>>
OnVector(w) ==
  /\ worker[w].state = "vector"
  /\ vectors' = [vectors EXCEPT ![worker[w].row] = rows[worker[w].row]]
  /\ completed' = completed + 1
  /\ Dispatch(w)
  /\ UNCHANGED <<rows, pool, rejected>>
OnError_Logged(w) ==
  /\ worker[w] = Error
  /\ worker' = [worker EXCEPT ![w] = Failed]
  /\ UNCHANGED <<rows, pool, rejected, next, completed, vectors>>
OnError(w) ==
  /\ worker[w] = Error
  /\ worker' = [worker EXCEPT ![w] = Failed]
  /\ rejected' = TRUE
  /\ pool' = "stopping"
  /\ UNCHANGED <<rows, next, completed, vectors>>

\* All threads of a pool have been told that nothing is left: stop them.
AllClosed ==
  /\ pool = "running"
  /\ \A w \in Workers : worker[w] \in {Idle, Closed}
  /\ pool' = "stopping"
  /\ UNCHANGED <<rows, rejected, worker, next, completed, vectors>>

\* The threads are gone. A pool that failed, or left a slot empty, gives way to
\* the main thread.
Stopped ==
  /\ pool = "stopping"
  /\ worker' = [w \in Workers |-> Idle]
  /\ pool' = IF rejected \/ \E i \in DOMAIN vectors : vectors[i] = NoVector
             THEN "sequential" ELSE "done"
  /\ UNCHANGED <<rows, rejected, next, completed, vectors>>

\* The main thread embeds row after row into a new result, or fails the build.
Sequential ==
  /\ pool = "sequential"
  /\ \/ pool' = "done" /\ vectors' = rows
     \/ pool' = "failed" /\ UNCHANGED vectors
  /\ UNCHANGED <<rows, rejected, worker, next, completed>>

PoolNext ==
  \/ \E w \in Workers : \/ Loaded(w) \/ Embedded(w) \/ Fails(w)
                        \/ OnReady(w) \/ OnVector(w) \/ OnError(w)
  \/ AllClosed
  \/ Stopped
  \/ Sequential

-----------------------------------------------------------------------------
PoolTypeOK ==
  /\ rows \in Seq(Texts)
  /\ pool \in {"idle", "running", "stopping", "sequential", "done", "failed"}
  /\ rejected \in BOOLEAN
  /\ worker \in [Workers -> [state : {"idle", "starting", "ready", "busy", "vector", "error", "failed", "closed"},
                             row : Nat]]
  /\ next \in 0..Len(rows)
  /\ completed \in Nat
  /\ vectors \in Seq(Texts \union {NoVector}) /\ Len(vectors) = Len(rows)

\* However many threads there are and in whatever order they answer, a slot
\* holds nothing or the vector of its own row, and a finished build has all of
\* them: the artifact is the one the sequential path would have made.
VectorsInPlace ==
  /\ \A i \in DOMAIN vectors : vectors[i] \in {NoVector, rows[i]}
  /\ pool = "done" => vectors = rows
=============================================================================
