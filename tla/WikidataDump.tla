---------------------------- MODULE WikidataDump ----------------------------
(***************************************************************************)
(* The Wikidata loader: `ensure_dump` with its resumable `.part` file, the *)
(* freshness decision, the disk-graph build and the process-local cache,   *)
(* as one call of `open` or `fetch_truthy` after another drives them.      *)
(*                                                                         *)
(* The dump server publishes new versions at any tick; a version is named  *)
(* by its Last-Modified.  A file is the sequence of the versions its       *)
(* pieces came from, with the tick of its last write: what the mtime       *)
(* comparisons and the Range request can tell apart.  All versions have    *)
(* the same number of pieces.  The process may be killed at any step, and  *)
(* every request may fail.                                                 *)
(***************************************************************************)
EXTENDS Integers, Sequences

CONSTANTS
  Size,       \* pieces of a dump
  Cooldown,   \* cooldown_days, in ticks
  MaxNow,     \* bound: the clock stops here
  None        \* Option::None, a missing file, a JSON null

Times == 0 .. MaxNow
Pieces == UNION {[1 .. n -> Times] : n \in 0 .. Size}
File == [pieces : Pieces, at : Times]
Meta == [remote : Times \union {None}, source : Times]
Graph == [pieces : Pieces, at : Times, whole : BOOLEAN, meta : Meta \union {None}]

ASSUME NumbersAssumption ==
  Size \in Nat \ {0} /\ Cooldown \in Nat \ {0} /\ MaxNow \in Nat
ASSUME NoneAssumption == None \notin Times \union File \union Meta \union Graph

VARIABLES
  now,      \* the clock
  remote,   \* the version the server has
  dump,     \* latest-truthy.nt.bz2
  part,     \* the .part file
  graph,    \* the committed graph directory; not `whole` while rmtree runs
  cache,    \* this workdir's entry of _PROCESS_CACHE
  pc,       \* where the call is
  call,     \* "open", "force" (open with force_rebuild) or "fetch" (fetch_truthy,
            \* and open in memory mode, which then only reads the dump)
  probe,    \* the Last-Modified of the last HEAD of this call
  stamp,    \* mtime_to_record
  serving,  \* the version the GET in progress is answered from
  asked,    \* history: this call got an answer from the server
  fetched   \* history: when the last completed download was written

diskVars == <<dump, part, graph>>
callVars == <<call, probe, stamp, serving, asked>>
vars == <<now, remote, diskVars, cache, pc, callVars, fetched>>

Steps == {"idle", "entry", "probe", "decide", "load", "rmtree", "head", "ensure",
          "get", "read", "rename", "clean", "save", "meta"}

Age(t) == now - t
-----------------------------------------------------------------------------
Init ==
  /\ now = 0
  /\ remote = 0
  /\ dump = None
  /\ part = None
  /\ graph = None
  /\ cache = None
  /\ pc = "idle"
  /\ call = "open"
  /\ probe = None
  /\ stamp = None
  /\ serving = None
  /\ asked = FALSE
  /\ fetched = None

\* The call returns, with a result or an exception.
Return ==
  /\ pc' = "idle"
  /\ call' = "open"
  /\ probe' = None
  /\ stamp' = None
  /\ serving' = None
  /\ asked' = FALSE

Call(c) ==
  /\ pc = "idle"
  /\ call' = c
  /\ pc' = IF c = "fetch" THEN "head" ELSE "entry"
  /\ UNCHANGED <<now, remote, diskVars, cache, probe, stamp, serving, asked, fetched>>
-----------------------------------------------------------------------------
(* wikidata.open in disk mode.                                             *)

\* Variant: the marker's mtime is not compared.
CacheHitAlways == call # "force" /\ graph # None /\ cache # None

CacheHit == call # "force" /\ graph # None /\ cache # None /\ cache.at = graph.at

ProcessHit ==
  /\ pc = "entry"
  /\ CacheHit
  /\ Return
  /\ UNCHANGED <<now, remote, diskVars, cache, fetched>>

ProcessMiss ==
  /\ pc = "entry"
  /\ ~CacheHit
  /\ pc' = IF call = "force" THEN "decide" ELSE "probe"
  /\ UNCHANGED <<now, remote, diskVars, cache, callVars, fetched>>

\* A HEAD request: the server's Last-Modified, or None.
Ask(to) ==
  /\ probe' \in {remote, None}
  /\ asked' = (asked \/ probe' # None)
  /\ pc' = to
  /\ UNCHANGED <<now, remote, diskVars, cache, call, stamp, serving, fetched>>

ProbeRemote == pc = "probe" /\ Ask("decide")

\* read_remote_mtime_from_source_meta: a JSON null is a value that is not a
\* string, so the key is found and source_mtime_iso is never looked at.
Embedded(g) == IF g.meta = None THEN None ELSE g.meta.remote

Decide ==
  IF call = "force" \/ graph = None THEN "build"
  ELSE IF Age(graph.at) < Cooldown \/ probe = None THEN "load"
  ELSE IF Embedded(graph) # None /\ probe <= Embedded(graph) THEN "load"
  ELSE "rebuild"

\* Variant: a rebuild deletes the old graph first.
DecideStepEager ==
  /\ pc = "decide"
  /\ pc' = CASE Decide = "load" -> "load"
             [] graph # None -> "rmtree"
             [] OTHER -> "head"
  /\ UNCHANGED <<now, remote, diskVars, cache, callVars, fetched>>

DecideStep ==
  /\ pc = "decide"
  /\ pc' = CASE Decide = "load" -> "load"
             [] Decide = "build" /\ graph # None -> "rmtree"
             [] OTHER -> "head"
  /\ UNCHANGED <<now, remote, diskVars, cache, callVars, fetched>>

\* Variant: a graph that does not re-open is decided upon again.
LoadCachedRetry ==
  /\ pc = "load"
  /\ IF graph.whole
     THEN /\ cache' = [pieces |-> graph.pieces, at |-> graph.at]
          /\ Return
     ELSE /\ cache' = None
          /\ pc' = "probe"
          /\ UNCHANGED callVars
  /\ UNCHANGED <<now, remote, diskVars, fetched>>

\* A graph that does not re-open is dropped from the cache and rebuilt.
LoadCached ==
  /\ pc = "load"
  /\ IF graph.whole
     THEN /\ cache' = [pieces |-> graph.pieces, at |-> graph.at]
          /\ Return
     ELSE /\ cache' = None
          /\ pc' = "head"
          /\ UNCHANGED callVars
  /\ UNCHANGED <<now, remote, diskVars, fetched>>

\* rmtree in its two halves: something is gone, everything is gone.
Break == graph' = [graph EXCEPT !.whole = FALSE]

RmtreeForced ==
  /\ pc = "rmtree"
  /\ \/ graph.whole /\ Break /\ UNCHANGED <<pc, cache>>
     \/ ~graph.whole /\ graph' = None /\ pc' = "head" /\ cache' = None
  /\ UNCHANGED <<now, remote, dump, part, callVars, fetched>>

RmtreeOld ==
  /\ pc = "clean"
  /\ \/ graph = None /\ pc' = "save" /\ UNCHANGED graph
     \/ graph # None /\ graph.whole /\ Break /\ UNCHANGED pc
     \/ graph # None /\ ~graph.whole /\ graph' = None /\ UNCHANGED pc
  /\ UNCHANGED <<now, remote, dump, part, cache, callVars, fetched>>

\* load_ntriples and g.save, which publishes CURRENT atomically.
Save ==
  /\ pc = "save"
  /\ graph' = [pieces |-> dump.pieces, at |-> now, whole |-> TRUE, meta |-> None]
  /\ pc' = "meta"
  /\ UNCHANGED <<now, remote, dump, part, cache, callVars, fetched>>

WriteMeta ==
  /\ pc = "meta"
  /\ graph' = [graph EXCEPT !.meta = [remote |-> stamp, source |-> dump.at]]
  /\ cache' = [pieces |-> graph.pieces, at |-> graph.at]
  /\ Return
  /\ UNCHANGED <<now, remote, dump, part, fetched>>
-----------------------------------------------------------------------------
(* ensure_dump.                                                            *)

HeadDump == pc = "head" /\ Ask("ensure")

\* What follows ensure_dump: the build, or the return of fetch_truthy.
Resolved(s) ==
  IF call = "fetch" THEN Return
  ELSE /\ pc' = "clean"
       /\ stamp' = s
       /\ UNCHANGED <<call, probe, serving, asked>>

Outdated == dump # None /\ probe # None /\ probe > dump.at

\* Variant: the local mtime is recorded also when the server was asked.
KeepDumpLocal ==
  /\ pc = "ensure"
  /\ dump # None
  /\ ~Outdated \/ Age(dump.at) < Cooldown
  /\ Resolved(dump.at)
  /\ UNCHANGED <<now, remote, diskVars, cache, fetched>>

KeepDump ==
  /\ pc = "ensure"
  /\ dump # None
  /\ \/ ~Outdated /\ Resolved(probe)
     \/ Outdated /\ Age(dump.at) < Cooldown /\ Resolved(dump.at)
  /\ UNCHANGED <<now, remote, diskVars, cache, fetched>>

\* Variant: a newer version is downloaded whatever the age of the local one.
DropDumpEager ==
  /\ pc = "ensure"
  /\ Outdated
  /\ dump' = None
  /\ part' = None
  /\ pc' = "get"
  /\ UNCHANGED <<now, remote, graph, cache, callVars, fetched>>

DropDump ==
  /\ pc = "ensure"
  /\ Outdated
  /\ Age(dump.at) >= Cooldown
  /\ dump' = None
  /\ part' = None
  /\ pc' = "get"
  /\ UNCHANGED <<now, remote, graph, cache, callVars, fetched>>

NoDump ==
  /\ pc = "ensure"
  /\ dump = None
  /\ part' = IF part # None /\ Age(part.at) >= Cooldown THEN None ELSE part
  /\ pc' = "get"
  /\ UNCHANGED <<now, remote, dump, graph, cache, callVars, fetched>>

Start == IF part = None THEN 0 ELSE Len(part.pieces)

\* A 206 leaves the .part to be appended to; a 200 starts it again; a Range
\* from the end of the file is a 416, an error like any failed request.
Get ==
  /\ pc = "get"
  /\ \/ /\ Start > 0 /\ Start < Size
        /\ part' = part
     \/ part' = [pieces |-> <<>>, at |-> now]
  /\ serving' = remote
  /\ pc' = "read"
  /\ UNCHANGED <<now, remote, dump, graph, cache, call, probe, stamp, asked, fetched>>

\* Variant: nothing ends the reading at the end of the file.
ReadPieceOver ==
  /\ pc = "read"
  /\ part' = [pieces |-> Append(part.pieces, serving), at |-> now]
  /\ UNCHANGED <<now, remote, dump, graph, cache, pc, callVars, fetched>>

ReadPiece ==
  /\ pc = "read"
  /\ Len(part.pieces) < Size
  /\ part' = [pieces |-> Append(part.pieces, serving), at |-> now]
  /\ UNCHANGED <<now, remote, dump, graph, cache, pc, callVars, fetched>>

\* Variant: a connection that ends early is taken for the end of the file.
ReadEndEarly ==
  /\ pc = "read"
  /\ pc' = "rename"
  /\ UNCHANGED <<now, remote, diskVars, cache, callVars, fetched>>

ReadEnd ==
  /\ pc = "read"
  /\ Len(part.pieces) = Size
  /\ pc' = "rename"
  /\ UNCHANGED <<now, remote, diskVars, cache, callVars, fetched>>

\* A rename keeps the mtime of the last write.
RenamePart ==
  /\ pc = "rename"
  /\ dump' = part
  /\ part' = None
  /\ fetched' = part.at
  /\ Resolved(probe)
  /\ UNCHANGED <<now, remote, graph, cache>>

\* A request or a file operation that fails ends the call with an error; the
\* files, and the process with its cache, stay.
CallFails ==
  /\ pc \in {"get", "read", "rename", "rmtree", "clean", "save", "meta"}
  /\ Return
  /\ UNCHANGED <<now, remote, diskVars, cache, fetched>>
-----------------------------------------------------------------------------
(* The world outside the call.                                             *)

\* Time passes; a new version may appear, dated when it was generated.
Tick ==
  /\ now < MaxNow
  /\ now' = now + 1
  /\ remote' \in remote .. now + 1
  /\ UNCHANGED <<diskVars, cache, pc, callVars, fetched>>

Crash ==
  /\ pc # "idle" \/ cache # None
  /\ cache' = None
  /\ Return
  /\ UNCHANGED <<now, remote, diskVars, fetched>>

CacheClear ==
  /\ pc = "idle"
  /\ cache # None
  /\ cache' = None
  /\ UNCHANGED <<now, remote, diskVars, pc, callVars, fetched>>

\* Between two calls, another process with this workdir forces a rebuild from
\* the dump that is there.  An mtime is finer than a tick.
Rival ==
  /\ pc = "idle"
  /\ dump # None
  /\ graph # None => graph.at < now
  /\ \E p \in {remote, None} :
       LET newer == p # None /\ p > dump.at IN
       /\ newer => Age(dump.at) < Cooldown
       /\ graph' = [pieces |-> dump.pieces, at |-> now, whole |-> TRUE,
                    meta |-> [remote |-> IF newer THEN dump.at ELSE p,
                              source |-> dump.at]]
  /\ UNCHANGED <<now, remote, dump, part, cache, pc, callVars, fetched>>

Open ==
  \/ ProcessHit \/ ProcessMiss \/ ProbeRemote \/ DecideStep \/ LoadCached
  \/ RmtreeForced \/ RmtreeOld \/ Save \/ WriteMeta

Ensure ==
  \/ HeadDump \/ KeepDump \/ DropDump \/ NoDump \/ Get \/ ReadPiece \/ ReadEnd
  \/ RenamePart \/ CallFails

Next ==
  \/ \E c \in {"open", "force", "fetch"} : Call(c)
  \/ Open
  \/ Ensure
  \/ Tick \/ Crash \/ CacheClear \/ Rival

Spec == Init /\ [][Next]_vars

\* Where the call waits for the server, which no deadline limits: the client is
\* made without one, since a dump takes hours.
Waiting == {"probe", "head", "get", "read"}

\* A call that can go on does, except that a request need never be answered.
FairSpec == Spec /\ WF_vars((Open \/ Ensure) /\ pc \notin Waiting)

\* An assumption on the server, no guarantee of the code: no call waits for ever
\* in one request.
ServerAnswers == \A request \in Waiting : []<>(pc # request)
-----------------------------------------------------------------------------
(* Properties.                                                             *)

\* Every variable holds a value of its kind.
TypeOK ==
  /\ now \in Times
  /\ remote \in Times
  /\ dump \in File \union {None}
  /\ part \in File \union {None}
  /\ graph \in Graph \union {None}
  /\ cache \in File \union {None}
  /\ pc \in Steps
  /\ call \in {"open", "force", "fetch"}
  /\ probe \in Times \union {None}
  /\ stamp \in Times \union {None}
  /\ serving \in Times \union {None}
  /\ asked \in BOOLEAN
  /\ fetched \in Times \union {None}

\* Nobody ever sees an incomplete dump, whenever the download was cut, killed
\* or resumed: not as latest-truthy.nt.bz2, not inside a graph, and no half of a
\* download lies beside a dump (client.rs:84, cache.rs:68).
WholeDump ==
  /\ dump # None => Len(dump.pieces) = Size /\ part = None
  /\ graph # None => Len(graph.pieces) = Size
  /\ cache # None => Len(cache.pieces) = Size

\* A graph is never stamped ahead of the server, so every version published
\* after its build compares as newer in `decide` and gets its rebuild: also when
\* the local file's mtime is recorded in place of a Last-Modified (cache.rs:57).
StampNotAhead ==
  graph # None /\ graph.meta # None /\ graph.meta.remote # None =>
    graph.meta.remote <= remote

\* The instance kept in _PROCESS_CACHE is handed out only while the committed
\* graph is the one it was built or loaded from (wikidata.py:105), also when a
\* rebuild failed after its new graph was published, or another process made it.
CacheCurrent ==
  CacheHit => cache.pieces = graph.pieces

\* The 10-20 GB download is not repeated within cooldown_days: a download
\* completes a cooldown after the one before, whatever calls, failures and
\* kills came between.
DownloadsSpaced ==
  [][fetched' # fetched =>
       fetched = None \/ Age(fetched) >= Cooldown]_vars

\* The committed graph is touched only when a complete dump is there to replace
\* it, or the caller forced a rebuild: any other refresh that fails half-way, or
\* meets a server that is down, leaves the old graph to load until the new dump
\* is complete.
RefreshKeepsGraph ==
  [][graph # None /\ graph.whole /\ graph' # graph =>
       call = "force" \/ dump # None]_vars

\* Only the server can keep a call from returning: unless one of its requests is
\* never answered, every call returns, also when the committed graph does not
\* re-open (_cache.py:71), a download is cut or a file operation fails.  Without
\* the assumption it is false: open waits for a HEAD even with a graph to load.
CallReturns == ServerAnswers => []<>(pc = "idle")

\* "Local dump matches latest remote." (cache.rs:46): when ensure_dump says so,
\* the dump is the version the server announced.
LocalMatchesRemote ==
  pc = "ensure" /\ dump # None /\ probe # None /\ probe <= dump.at =>
    \A i \in DOMAIN dump.pieces : dump.pieces[i] = probe
=============================================================================
