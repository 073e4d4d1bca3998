------------------------- MODULE MCHttpRangeSource -------------------------
(***************************************************************************)
(* Instances of HttpRangeSource for TLC.                                   *)
(***************************************************************************)
EXTENDS HttpRangeSource

Kind(front, etag_, ranges, guard) == [front |-> front, etag |-> etag_, ranges |-> ranges, guard |-> guard]

MCHosts ==
    {Kind("signed", "strong", TRUE, "none"), Kind("signed", "strong", TRUE, "refuses"),
     Kind("direct", "strong", FALSE, "none"), Kind("opaque", "weak", TRUE, "none"),
     Kind("signed", "none", FALSE, "allows")}
=============================================================================
