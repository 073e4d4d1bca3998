----------------------------- MODULE BlobCache -----------------------------
(***************************************************************************)
(* diskBlobCache (src/packages/pikelet-wasm/complete/blob-cache.node.mjs): *)
(* an entry goes to the log or into a file of its own by its size, put and *)
(* get of the one share nothing with those of the other but the root       *)
(* directory.  A behaviour exercises one of the two stores.                *)
(***************************************************************************)
EXTENDS BlobCacheLog, BlobCacheFiles, TLC

VARIABLE
    kind      \* the size of the entries: "small" or "large"

cacheVars == <<kind, vars, fileVars>>

CacheInit == kind \in {"small", "large"} /\ Init /\ FilesInit

SmallStep == kind = "small" /\ Next /\ UNCHANGED <<kind, fileVars>>
LargeStep == kind = "large" /\ FilesNext /\ UNCHANGED <<kind, vars>>

CacheSpec == CacheInit /\ [][SmallStep \/ LargeStep]_cacheVars

-----------------------------------------------------------------------------
\* For TLC: entries of one, two and three units, and what is interchangeable.
BlobSizes == CHOOSE f \in [Blobs -> 1 .. 3] : IsInjective(f)
Symmetry == Permutations(Procs) \cup Permutations(Keys) \cup Permutations(Stores)
=============================================================================
