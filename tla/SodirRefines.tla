---------------------------- MODULE SodirRefines ----------------------------
(***************************************************************************)
(* SodirRefresh implements SodirPromise.  The pool, the queue, the index   *)
(* and its file are hidden; a catalog stem is pending from pass 1 until    *)
(* the calling thread has put it in a bucket.                              *)
(***************************************************************************)
EXTENDS SodirRefresh

Stage ==
  IF phase = "idle" THEN "idle" ELSE IF Finishing THEN "done" ELSE "running"

Pending == (needed \intersect Catalog) \ Reported

Promise == INSTANCE SodirPromise WITH stage <- Stage, pending <- Pending

\* To its caller the threaded refresh looks like one that answers the stems one
\* by one ("every needed stem lands in exactly one bucket", orchestrator.rs:28):
\* no CSV is replaced after its stem was answered, none that was not asked for,
\* a stem is reported as fetched or unchanged only with the CSV to match, also
\* after a failed save, and the report is complete when the run reaches its end.
PromiseKept == Promise!Spec

\* Only needed stems are jobs, also while an aborted run waits for its threads:
\* the part of the bookkeeping the proof needs beyond PoolInv and FreshInv.
JobsNeeded == StemsIn(work) \subseteq needed
=============================================================================
