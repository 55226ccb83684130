--------------------------- MODULE MCWikidataDump ---------------------------
(***************************************************************************)
(* WikidataDump on a small clock: two pieces to a dump, so that a download *)
(* can be cut in the middle, and a clock that passes the cooldown twice.   *)
(***************************************************************************)
EXTENDS WikidataDump
=============================================================================
