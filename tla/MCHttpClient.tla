---------------------------- MODULE MCHttpClient ----------------------------
(***************************************************************************)
(* HttpClient with two or three clones: enough retries for the backoff to  *)
(* reach its cap, and a gap during which the other threads queue.          *)
(***************************************************************************)
EXTENDS HttpClient
=============================================================================
