-------------------------- MODULE BlobCacheFiles --------------------------
(***************************************************************************)
(* The large entries of the disk blob cache (put, get and evict in         *)
(* src/packages/pikelet-wasm/complete/blob-cache.node.mjs): one file per   *)
(* key, written under another name and renamed, the least recently used    *)
(* removed past a budget.  Processes share the directory without a lock.   *)
(***************************************************************************)
EXTENDS Integers, Sequences, FiniteSets, SequencesExt, FiniteSetsExt, Functions

CONSTANTS
    Stores,    \* processes with the cache open
    Blobs,     \* digests of large entries
    BlobSize,  \* their sizes
    MaxBytes,  \* maxBytes
    MaxPuts,   \* bound: puts and gets of all processes together
    MaxCrashes \* bound: processes that die

ASSUME BudgetAssumption == MaxBytes \in Nat /\ BlobSize \in [Blobs -> Nat \ {0}]
ASSUME FileBoundsAssumption == MaxPuts \in Nat /\ MaxCrashes \in Nat

VARIABLES
    entries,  \* the entry files, least recently touched first, as <<key, whole>>
    store,    \* what each process is putting, and how far it is
    leftover, \* temporary files of processes that died
    puts,
    crashes

fileVars == <<entries, store, leftover, puts, crashes>>

Free == [at |-> "free"]
KeysOf(es) == {es[i][1] : i \in DOMAIN es}
Others(k) == SelectSeq(entries, LAMBDA e : e[1] # k)
Bytes(keys) == MapThenSumSet(LAMBDA k : BlobSize[k], keys)

FilesInit ==
    /\ entries = <<>>
    /\ store = [s \in Stores |-> Free]
    /\ leftover = 0
    /\ puts = 0
    /\ crashes = 0

\* An entry larger than the whole budget is not stored.
BeginPut(s, k) ==
    /\ store[s] = Free
    /\ puts < MaxPuts /\ puts' = puts + 1
    /\ BlobSize[k] <= MaxBytes
    /\ store' = [store EXCEPT ![s] = [at |-> "temp", key |-> k]]
    /\ UNCHANGED <<entries, leftover, crashes>>

\* Mutant: the entry is written under its own name.
WriteTemp_InPlace(s) ==
    /\ store[s].at = "temp"
    /\ store' = [store EXCEPT ![s].at = "rename"]
    /\ entries' = Append(Others(store[s].key), <<store[s].key, FALSE>>)
    /\ UNCHANGED <<leftover, puts, crashes>>

WriteTemp(s) ==
    /\ store[s].at = "temp"
    /\ store' = [store EXCEPT ![s].at = "rename"]
    /\ UNCHANGED <<entries, leftover, puts, crashes>>

Rename(s) ==
    /\ store[s].at = "rename"
    /\ store' = [store EXCEPT ![s].at = "list"]
    /\ entries' = Append(Others(store[s].key), <<store[s].key, TRUE>>)
    /\ UNCHANGED <<leftover, puts, crashes>>

\* evict lists the entries with their sizes, and sorts them by time.
ListEntries(s) ==
    /\ store[s].at = "list"
    /\ store' = [store EXCEPT ![s] = [at |-> "evict", key |-> @.key,
                    todo |-> [i \in DOMAIN entries |-> entries[i][1]], total |-> Bytes(KeysOf(entries))]]
    /\ UNCHANGED <<entries, leftover, puts, crashes>>

\* The oldest are removed until what was listed fits, but not the new entry.
EvictOldest(s) ==
    /\ store[s].at = "evict" /\ store[s].todo # <<>> /\ store[s].total > MaxBytes
    /\ LET k == Head(store[s].todo)
       IN  IF k = store[s].key
           THEN /\ store' = [store EXCEPT ![s].todo = Tail(@)]
                /\ UNCHANGED entries
           ELSE /\ store' = [store EXCEPT ![s].todo = Tail(@), ![s].total = @ - BlobSize[k]]
                /\ entries' = Others(k)
    /\ UNCHANGED <<leftover, puts, crashes>>

EndPut(s) ==
    /\ store[s].at = "evict" /\ (store[s].todo = <<>> \/ store[s].total <= MaxBytes)
    /\ store' = [store EXCEPT ![s] = Free]
    /\ UNCHANGED <<entries, leftover, puts, crashes>>

\* get reads the file and then sets its time, whether it is still there or not.
Touch(k) ==
    /\ puts < MaxPuts /\ puts' = puts + 1
    /\ k \in KeysOf(entries)
    /\ entries' = Append(Others(k), CHOOSE e \in Range(entries) : e[1] = k)
    /\ UNCHANGED <<store, leftover, crashes>>

\* The reader found bytes of another digest, or none, and drops the key.
Delete(k) ==
    /\ puts < MaxPuts /\ puts' = puts + 1
    /\ entries' = Others(k)
    /\ UNCHANGED <<store, leftover, crashes>>

\* Writing fails: the temporary file is removed.
PutFails(s) ==
    /\ store[s].at \in {"temp", "rename"}
    /\ store' = [store EXCEPT ![s] = Free]
    /\ UNCHANGED <<entries, leftover, puts, crashes>>

\* Nothing ever removes the temporary file of a process that died.
Crash(s) ==
    /\ store[s] # Free
    /\ crashes < MaxCrashes /\ crashes' = crashes + 1
    /\ leftover' = leftover + (IF store[s].at = "rename" THEN 1 ELSE 0)
    /\ store' = [store EXCEPT ![s] = Free]
    /\ UNCHANGED <<entries, puts>>

FilesNext ==
    \/ \E s \in Stores :
        \/ \E k \in Blobs : BeginPut(s, k)
        \/ WriteTemp(s) \/ Rename(s) \/ ListEntries(s) \/ EvictOldest(s) \/ EndPut(s)
        \/ PutFails(s) \/ Crash(s)
    \/ \E k \in Blobs : Touch(k) \/ Delete(k)

FilesSpec == FilesInit /\ [][FilesNext]_fileVars

-----------------------------------------------------------------------------
\* A reader in another process sees no entry or a whole one.
EntriesWhole == \A i \in DOMAIN entries : entries[i][2]

\* Whoever put what at the same time, and whatever was touched or removed
\* while one listed and another evicted: when no put is under way the entries
\* fit the budget, unless a process died before it had evicted.
BudgetKept ==
    (\A s \in Stores : store[s] = Free) /\ crashes = 0 => Bytes(KeysOf(entries)) <= MaxBytes

\* The directory of large blobs holds whole entries, within the budget.
DirectorySound == EntriesWhole /\ BudgetKept
=============================================================================
