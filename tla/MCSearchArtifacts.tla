-------------------------- MODULE MCSearchArtifacts --------------------------
(* A small instance of SearchArtifacts: an outlier followed by a cluster, on *)
(* two levels and three, and a line; a narrow search beside an exhaustive    *)
(* one; a masked search beside one that is handed a candidate.               *)
EXTENDS SearchArtifacts

CONSTANTS l2, cosine   \* two configurations

\* Points on a line, which the heuristic thins out most.
Line(n) == [i \in 1..n |-> <<3 * i, 0>>]
Flat == <<0, 0, 0, 0, 0, 0, 0>>
LongLine == {[vec |-> Line(7), level |-> Flat, old |-> <<2, l2>>]}

Cluster == <<<<9, 9>>, <<0, 0>>, <<1, 0>>, <<0, 1>>, <<1, 1>>, <<2, 1>>>>
MCFeeds == {[vec |-> Line(6), level |-> Flat, old |-> <<0, l2>>],
            [vec |-> Cluster, level |-> <<1, 1, 0, 1, 1, 1, 1>>, old |-> <<2, cosine>>],
            [vec |-> Cluster, level |-> <<0, 1, 0, 2, 1, 0, 0>>, old |-> <<1, cosine>>]}

MCJobs == [s \in {"narrow", "wide"} |->
  IF s = "narrow" THEN [q |-> <<9, 8>>, k |-> 1, ef |-> 1, batch |-> 1, gap |-> 0, parallel |-> 1]
  ELSE [q |-> <<0, 0>>, k |-> 2, ef |-> 6, batch |-> 3, gap |-> 1, parallel |-> 2]]

MCAsks == [s \in {"masked", "hybrid"} |->
  IF s = "masked"
  THEN [q |-> <<1, 0>>, k |-> 1, rerank |-> 0, exclude |-> {2}, extra |-> <<>>, scanners |-> {"micro", "full"}]
  ELSE [q |-> <<1, 1>>, k |-> 2, rerank |-> 3, exclude |-> {}, extra |-> <<1>>, scanners |-> {"full"}]]

\* The index on its own: nothing of it is published.
IndexSpec == ArtifactsInit /\ [][Index]_allVars
==============================================================================
