--------------------------- MODULE MCBoundTreeApi ---------------------------
(* boundTree's calls on five addresses, with trees of up to four ranges.   *)
EXTENDS BoundTreeApi
=============================================================================
