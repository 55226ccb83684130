---------------------------- MODULE SodirRefresh ----------------------------
(***************************************************************************)
(* The Sodir CSV refresh: `fetch_all_with_enhancement` up to the saved     *)
(* index, `refresh_csvs` with its two passes, and `sodir_index.json`.      *)
(*                                                                         *)
(* Pass 1 classifies the needed stems without network.  Pass 2 runs a      *)
(* scoped pool of worker threads that claim jobs from a shared cursor and  *)
(* send their outcome to the main thread, which alone mutates the index    *)
(* and writes it out after every completion.  The process may be killed    *)
(* at any step; files survive, everything else is lost.                    *)
(*                                                                         *)
(* Time is a day counter that moves between runs only (a run is short      *)
(* against the cooldowns, which are counted in days).  A CSV is its row    *)
(* count and the day it was renamed into place: what the count probe and   *)
(* the cooldowns can tell apart.                                           *)
(***************************************************************************)
EXTENDS Integers, Sequences, FiniteSets

CONSTANTS
  Stems,            \* every dataset stem a blueprint can name
  Catalog,          \* those the REST catalog knows (catalog::is_known)
  Workers,          \* the pool: concurrency.max(1) threads
  NeededSets,       \* the stem sets callers ask for
  IndexCooldown,    \* index_cooldown_days
  DatasetCooldown,  \* dataset_cooldown_days
  MaxRows,          \* bound: row counts are 0 .. MaxRows
  MaxDay,           \* bound: the clock stops here
  MaxMoves,         \* bound: edits, deletions, failed saves and kills together
  None,             \* Option::None, a missing file, an absent key
  Torn              \* an index file that is truncated but not yet rewritten

Rows == 0 .. MaxRows
Csv == [rows : Rows, at : Nat]
Entry == [rows : Rows, fetched : Nat, checked : Nat]
Index == [sweep : Nat \union {None},
          entries : [Stems -> Entry \union {None}]]
Job == [stem : Stems, action : {"Probe", "Fetch"}, prior : Rows \union {None}]
Message == [stem : Stems, kind : {"Fetched", "Unchanged", "Error"}, rows : Rows]
Buckets == {"fetched", "unchanged", "user_supplied", "cached", "unfetchable",
            "errors"}

ASSUME StemsAssumption ==
  /\ IsFiniteSet(Stems)
  /\ Catalog \subseteq Stems
  /\ NeededSets \subseteq SUBSET Stems
ASSUME WorkersAssumption == Workers # {}
ASSUME NumbersAssumption ==
  /\ IndexCooldown \in Nat
  /\ DatasetCooldown \in Nat
  /\ MaxRows \in Nat
  /\ MaxDay \in Nat
  /\ MaxMoves \in Nat
ASSUME SentinelAssumption ==
  /\ None \notin Nat \union Csv \union Entry \union Index \union Message
  /\ Torn \notin Index \union {None}

VARIABLES
  day,       \* the clock
  moves,     \* edits, deletions, failed saves and kills so far
  remote,    \* row count of each dataset at the FactMaps service
  csv,       \* csv/{stem}.csv; a catalog file under 5 bytes counts as missing
  file,      \* sodir_index.json: None, Torn, or a parsable index
  phase,     \* where the calling thread is
  needed,    \* the stems of this run
  index,     \* `index`, owned by the calling thread
  report,    \* RefreshReport
  sweepDue,  \* `sweep_due`, computed once at the start
  work,      \* the sorted job list
  next,      \* the shared cursor (AtomicUsize), 1-based
  abort,     \* the shared AtomicBool
  channel,   \* the mpsc queue
  pc,        \* where each worker is
  job,       \* the position in `work` each worker claimed, 0 for none
  outcome    \* the message each worker is about to send

diskVars == <<remote, csv, file>>
runVars == <<needed, sweepDue, work>>
poolVars == <<next, abort, channel, pc, job, outcome>>
vars == <<day, moves, diskVars, phase, runVars, index, report, poolVars>>

MainPhases == {"idle", "recv", "flush", "flushWrite", "finish", "finishWrite",
               "join"}
WorkerSteps == {"check", "claim", "probe", "fetch", "send", "exited"}

NoEntries == [s \in Stems |-> None]
EmptyIndex == [sweep |-> None, entries |-> NoEntries]
EmptyReport == [b \in Buckets |-> {}]
-----------------------------------------------------------------------------
(* Cooldown decisions (index.rs).                                          *)

SweepDue(ix) == ix.sweep = None \/ day - ix.sweep >= IndexCooldown

\* Variant: a dataset exactly at its cooldown counts as fresh.
DecideActionLate(e, c, due) ==
  IF e = None \/ c = None THEN "Fetch"
  ELSE IF day - e.fetched > DatasetCooldown THEN "Fetch"
  ELSE IF due THEN "Probe"
  ELSE "Skip"

DecideAction(e, c, due) ==
  IF e = None \/ c = None THEN "Fetch"
  ELSE IF day - e.fetched >= DatasetCooldown THEN "Fetch"
  ELSE IF due THEN "Probe"
  ELSE "Skip"

SizeHint(ix, s) == IF ix.entries[s] = None THEN 0 ELSE ix.entries[s].rows

\* The stems of S in an order sort_by_key(Reverse(size_hint)) may give.
LargestFirst(S, ix) ==
  {q \in [1 .. Cardinality(S) -> S] :
     /\ \A s \in S : \E i \in DOMAIN q : q[i] = s
     /\ \A i, j \in DOMAIN q : i < j =>
          q[i] # q[j] /\ SizeHint(ix, q[i]) >= SizeHint(ix, q[j])}

JobFor(ix, s, due) ==
  [stem |-> s,
   action |-> DecideAction(ix.entries[s], csv[s], due),
   prior |-> IF ix.entries[s] = None THEN None ELSE ix.entries[s].rows]

\* Variant: the sweep is stamped during classification.
WithSuppliedStamped(ix, S) ==
  [sweep |-> day,
   entries |-> [s \in Stems |->
     IF s \in S /\ ix.entries[s] = None
     THEN [rows |-> csv[s].rows, fetched |-> day, checked |-> day]
     ELSE ix.entries[s]]]

\* The user-supplied CSVs get an index entry unless they have one.
WithSupplied(ix, S) ==
  [ix EXCEPT !.entries =
     [s \in Stems |->
        IF s \in S /\ ix.entries[s] = None
        THEN [rows |-> csv[s].rows, fetched |-> day, checked |-> day]
        ELSE ix.entries[s]]]

Stamped(ix, due) == IF due THEN [ix EXCEPT !.sweep = day] ELSE ix
-----------------------------------------------------------------------------
Init ==
  /\ day = 0
  /\ moves = 0
  /\ remote = [s \in Catalog |-> MaxRows]
  /\ csv = [s \in Stems |-> None]
  /\ file = None
  /\ phase = "idle"
  /\ needed = {}
  /\ index = EmptyIndex
  /\ report = EmptyReport
  /\ sweepDue = FALSE
  /\ work = <<>>
  /\ next = 1
  /\ abort = FALSE
  /\ channel = <<>>
  /\ pc = [w \in Workers |-> "exited"]
  /\ job = [w \in Workers |-> 0]
  /\ outcome = [w \in Workers |-> None]

\* One of the bounded moves.
Move ==
  /\ moves < MaxMoves
  /\ moves' = moves + 1

\* The call is over, by return or by death: its locals and threads are gone.
Leave ==
  /\ phase' = "idle"
  /\ needed' = {}
  /\ index' = EmptyIndex
  /\ report' = EmptyReport
  /\ sweepDue' = FALSE
  /\ work' = <<>>
  /\ next' = 1
  /\ abort' = FALSE
  /\ channel' = <<>>
  /\ pc' = [w \in Workers |-> "exited"]
  /\ job' = [w \in Workers |-> 0]
  /\ outcome' = [w \in Workers |-> None]
-----------------------------------------------------------------------------
(* The calling thread.                                                     *)

\* index::load of a torn file is a decode error: the call returns at once.
LoadFails ==
  /\ phase = "idle"
  /\ file = Torn
  /\ UNCHANGED vars

\* index::load, then pass 1.
StartRun(stems) ==
  LET loaded == IF file = None THEN EmptyIndex ELSE file
      due == SweepDue(loaded)
      supplied == {s \in stems \ Catalog : csv[s] # None}
      ix == WithSupplied(loaded, supplied)
      known == stems \intersect Catalog
      skip == {s \in known : DecideAction(ix.entries[s], csv[s], due) = "Skip"}
  IN
  /\ phase = "idle"
  /\ file # Torn
  /\ needed' = stems
  /\ sweepDue' = due
  /\ report' = [EmptyReport EXCEPT !["user_supplied"] = supplied,
                                   !["unfetchable"] = (stems \ Catalog) \ supplied,
                                   !["cached"] = skip]
  /\ \E q \in LargestFirst(known \ skip, ix) :
       work' = [i \in DOMAIN q |-> JobFor(ix, q[i], due)]
  /\ IF known = skip
     THEN /\ phase' = "finish"
          /\ index' = Stamped(ix, due)
          /\ pc' = pc
     ELSE /\ phase' = "recv"
          /\ index' = ix
          /\ pc' = [w \in Workers |-> "check"]
  /\ UNCHANGED <<moves, day, diskVars, next, channel, job, outcome, abort>>

Receive ==
  LET m == Head(channel)
      s == m.stem
      e == index.entries[s]
  IN
  /\ phase = "recv"
  /\ channel # <<>>
  /\ channel' = Tail(channel)
  /\ phase' = "flush"
  /\ \/ /\ m.kind = "Fetched"
        /\ index' = [index EXCEPT !.entries[s] =
                       [rows |-> m.rows, fetched |-> day, checked |-> day]]
        /\ report' = [report EXCEPT !["fetched"] = @ \union {s}]
     \/ /\ m.kind = "Unchanged"
        /\ index' = IF e = None THEN index
                    ELSE [index EXCEPT !.entries[s] = [e EXCEPT !.checked = day]]
        /\ report' = [report EXCEPT !["unchanged"] = @ \union {s}]
     \/ /\ m.kind = "Error"
        /\ index' = index
        /\ report' = [report EXCEPT !["errors"] = @ \union {s}]
  /\ UNCHANGED <<moves, day, diskVars, runVars, next, pc, job, outcome, abort>>

\* Variant: the index is written once, at the end.
SaveTruncateAtEnd ==
  /\ \/ phase = "flush" /\ phase' = "recv" /\ file' = file
     \/ phase = "finish" /\ phase' = "finishWrite" /\ file' = Torn
  /\ UNCHANGED <<moves, day, remote, csv, runVars, index, report, poolVars>>

\* index::save is fs::write: open-and-truncate, then write the text.
SaveTruncate ==
  /\ \/ phase = "flush" /\ phase' = "flushWrite"
     \/ phase = "finish" /\ phase' = "finishWrite"
  /\ file' = Torn
  /\ UNCHANGED <<moves, day, remote, csv, runVars, index, report, poolVars>>

FlushWrite ==
  /\ phase = "flushWrite"
  /\ file' = index
  /\ phase' = "recv"
  /\ UNCHANGED <<moves, day, remote, csv, runVars, index, report, poolVars>>

\* Either half of a per-completion save fails: abort, and wait in the scope.
\* Returning from the closure drops the receiver with whatever it holds.
FlushFails ==
  /\ Move
  /\ phase \in {"flush", "flushWrite"}
  /\ abort' = TRUE
  /\ channel' = <<>>
  /\ phase' = "join"
  /\ UNCHANGED <<day, diskVars, runVars, index, report, next, pc, job, outcome>>

\* Variant: one worker running out of work ends the pool.
SomeExited == \E w \in Workers : pc[w] = "exited"

AllExited == \A w \in Workers : pc[w] = "exited"

\* Every sender is gone and the queue is empty: the receive loop ends.
PoolDrained ==
  /\ phase = "recv"
  /\ channel = <<>>
  /\ AllExited
  /\ index' = Stamped(index, sweepDue)
  /\ phase' = "finish"
  /\ UNCHANGED <<moves, day, diskVars, runVars, report, poolVars>>

\* The scope has joined its threads after an abort; the error is returned.
ScopeJoined ==
  /\ phase = "join"
  /\ AllExited
  /\ Leave
  /\ UNCHANGED <<moves, day, diskVars>>

FinishWrite ==
  /\ phase = "finishWrite"
  /\ file' = index
  /\ Leave
  /\ UNCHANGED <<moves, day, remote, csv>>

FinishFails ==
  /\ Move
  /\ phase \in {"finish", "finishWrite"}
  /\ Leave
  /\ UNCHANGED <<day, diskVars>>
-----------------------------------------------------------------------------
(* A worker thread.                                                        *)

Goto(w, from, to) ==
  /\ pc[w] = from
  /\ pc' = [pc EXCEPT ![w] = to]

CheckAbort(w) ==
  /\ IF abort THEN Goto(w, "check", "exited") ELSE Goto(w, "check", "claim")
  /\ UNCHANGED <<moves, day, diskVars, phase, runVars, index, report, next, channel,
                 job, outcome, abort>>

\* Variant: the cursor is read and written back in two steps, so an increment
\* can be lost.
ClaimRacy(w) ==
  /\ next' \in {next, next + 1}
  /\ IF next \in DOMAIN work
     THEN /\ job' = [job EXCEPT ![w] = next]
          /\ Goto(w, "claim", IF work[next].action = "Probe" THEN "probe" ELSE "fetch")
     ELSE /\ job' = job
          /\ Goto(w, "claim", "exited")
  /\ UNCHANGED <<moves, day, diskVars, phase, runVars, index, report, channel, outcome,
                 abort>>

Claim(w) ==
  /\ next' = next + 1
  /\ IF next \in DOMAIN work
     THEN /\ job' = [job EXCEPT ![w] = next]
          /\ Goto(w, "claim", IF work[next].action = "Probe" THEN "probe" ELSE "fetch")
     ELSE /\ job' = job
          /\ Goto(w, "claim", "exited")
  /\ UNCHANGED <<moves, day, diskVars, phase, runVars, index, report, channel, outcome,
                 abort>>

JobStem(w) == work[job[w]].stem

Finish(w, kind, n) ==
  /\ pc' = [pc EXCEPT ![w] = "send"]
  /\ outcome' = [outcome EXCEPT ![w] =
                   [stem |-> JobStem(w), kind |-> kind, rows |-> n]]

\* fetch::count.  A body without "count" reads as 0; a request that failed
\* after its retries is an error.  Any other count means the dataset drifted.
Probe(w) ==
  /\ pc[w] = "probe"
  /\ \/ /\ work[job[w]].prior \in {remote[JobStem(w)], 0}
        /\ Finish(w, "Unchanged", 0)
     \/ /\ \E n \in {remote[JobStem(w)], 0} : work[job[w]].prior # n
        /\ Goto(w, "probe", "fetch")
        /\ outcome' = outcome
     \/ Finish(w, "Error", 0)
  /\ UNCHANGED <<moves, day, diskVars, phase, runVars, index, report, next, channel,
                 job, abort>>

\* Variant: an empty answer is recorded but leaves the CSV alone.
FetchOkKeepIfEmpty(w) ==
  /\ pc[w] = "fetch"
  /\ \E n \in 0 .. remote[JobStem(w)] :
       /\ Finish(w, "Fetched", n)
       /\ csv' = IF n = 0 /\ csv[JobStem(w)] # None THEN csv
                 ELSE [csv EXCEPT ![JobStem(w)] = [rows |-> n, at |-> day]]
  /\ UNCHANGED <<moves, day, remote, file, phase, runVars, index, report, next, channel,
                 job, abort>>

\* Variant: the message carries the service's count, not the rows written.
FetchOkServiceCount(w) ==
  /\ pc[w] = "fetch"
  /\ \E n \in 0 .. remote[JobStem(w)] :
       /\ Finish(w, "Fetched", remote[JobStem(w)])
       /\ csv' = [csv EXCEPT ![JobStem(w)] = [rows |-> n, at |-> day]]
  /\ UNCHANGED <<moves, day, remote, file, phase, runVars, index, report, next, channel,
                 job, abort>>

\* Variant: two pages overlap in a row, which is written twice.
FetchOkOverlap(w) ==
  /\ pc[w] = "fetch"
  /\ \E n \in 0 .. remote[JobStem(w)] + 1 :
       /\ Finish(w, "Fetched", n)
       /\ csv' = [csv EXCEPT ![JobStem(w)] = [rows |-> n, at |-> day]]
  /\ UNCHANGED <<moves, day, remote, file, phase, runVars, index, report, next, channel,
                 job, abort>>

\* fetch::fetch_to_csv: all pages in memory, then a .tmp file renamed over the
\* CSV.  A page without "features" ends the loop, so n may fall short of the
\* service's count.
FetchOk(w) ==
  /\ pc[w] = "fetch"
  /\ \E n \in 0 .. remote[JobStem(w)] :
       /\ Finish(w, "Fetched", n)
       /\ csv' = [csv EXCEPT ![JobStem(w)] = [rows |-> n, at |-> day]]
  /\ UNCHANGED <<moves, day, remote, file, phase, runVars, index, report, next, channel,
                 job, abort>>

\* Variant: the old CSV is removed before the download.
FetchFailsClobbering(w) ==
  /\ pc[w] = "fetch"
  /\ Finish(w, "Error", 0)
  /\ csv' = [csv EXCEPT ![JobStem(w)] = None]
  /\ UNCHANGED <<moves, day, remote, file, phase, runVars, index, report, next, channel,
                 job, abort>>

FetchFails(w) ==
  /\ pc[w] = "fetch"
  /\ Finish(w, "Error", 0)
  /\ UNCHANGED <<moves, day, diskVars, phase, runVars, index, report, next, channel,
                 job, abort>>

\* Variant: a bounded queue nobody reads any more blocks the sender.
SendBlocking(w) ==
  /\ phase # "join"
  /\ Goto(w, "send", "check")
  /\ channel' = Append(channel, outcome[w])
  /\ job' = [job EXCEPT ![w] = 0]
  /\ outcome' = [outcome EXCEPT ![w] = None]
  /\ UNCHANGED <<moves, day, diskVars, phase, runVars, index, report, next, abort>>

\* tx.send fails once the receiver is gone, and the worker stops.
Send(w) ==
  /\ IF phase = "join"
     THEN /\ Goto(w, "send", "exited")
          /\ channel' = channel
     ELSE /\ Goto(w, "send", "check")
          /\ channel' = Append(channel, outcome[w])
  /\ job' = [job EXCEPT ![w] = 0]
  /\ outcome' = [outcome EXCEPT ![w] = None]
  /\ UNCHANGED <<moves, day, diskVars, phase, runVars, index, report, next, abort>>
-----------------------------------------------------------------------------
(* The world outside the run.                                              *)

\* The process is killed.
Crash ==
  /\ Move
  /\ phase # "idle"
  /\ Leave
  /\ UNCHANGED <<day, diskVars>>

RemoteEdit(s) ==
  /\ Move
  /\ \E n \in Rows : n # remote[s] /\ remote' = [remote EXCEPT ![s] = n]
  /\ UNCHANGED <<day, csv, file, phase, runVars, index, report, poolVars>>

NextDay ==
  /\ phase = "idle"
  /\ day < MaxDay
  /\ day' = day + 1
  /\ UNCHANGED <<moves, diskVars, phase, runVars, index, report, poolVars>>

\* The user puts a CSV of their own in csv/ (outside the catalog), or deletes
\* one, or deletes the index by hand.
SupplyCsv(s) ==
  /\ Move
  /\ phase = "idle"
  /\ s \notin Catalog
  /\ \E n \in Rows : csv' = [csv EXCEPT ![s] = [rows |-> n, at |-> day]]
  /\ UNCHANGED <<day, remote, file, phase, runVars, index, report, poolVars>>

DeleteCsv(s) ==
  /\ Move
  /\ phase = "idle"
  /\ csv[s] # None
  /\ csv' = [csv EXCEPT ![s] = None]
  /\ UNCHANGED <<day, remote, file, phase, runVars, index, report, poolVars>>

DeleteIndex ==
  /\ Move
  /\ phase = "idle"
  /\ file # None
  /\ file' = None
  /\ UNCHANGED <<day, remote, csv, phase, runVars, index, report, poolVars>>
-----------------------------------------------------------------------------
Worker(w) ==
  \/ CheckAbort(w) \/ Claim(w) \/ Probe(w) \/ FetchOk(w) \/ FetchFails(w) \/ Send(w)

Main ==
  \/ Receive \/ SaveTruncate \/ FlushWrite \/ PoolDrained \/ ScopeJoined \/ FinishWrite

Environment ==
  \/ Crash \/ FlushFails \/ FinishFails \/ NextDay \/ DeleteIndex
  \/ \E s \in Catalog : RemoteEdit(s)
  \/ \E s \in Stems : SupplyCsv(s) \/ DeleteCsv(s)

Next ==
  \/ \E stems \in NeededSets : StartRun(stems)
  \/ LoadFails
  \/ Main
  \/ \E w \in Workers : Worker(w)
  \/ Environment

Spec == Init /\ [][Next]_vars

\* Threads that can run do run, and every request ends (it has a deadline and
\* a bounded number of retries); nobody has to call, fail or be killed.
Fairness == WF_vars(Main) /\ \A w \in Workers : WF_vars(Worker(w))

FairSpec == Spec /\ Fairness
-----------------------------------------------------------------------------
(* Properties.                                                             *)

\* Every variable holds a value of its kind.
TypeOK ==
  /\ day \in Nat
  /\ moves \in Nat
  /\ remote \in [Catalog -> Rows]
  /\ csv \in [Stems -> Csv \union {None}]
  /\ file \in Index \union {None, Torn}
  /\ phase \in MainPhases
  /\ needed \in SUBSET Stems
  /\ index \in Index
  /\ report \in [Buckets -> SUBSET Stems]
  /\ sweepDue \in BOOLEAN
  /\ work \in Seq(Job)
  /\ next \in Nat \ {0}
  /\ abort \in BOOLEAN
  /\ channel \in Seq(Message)
  /\ pc \in [Workers -> WorkerSteps]
  /\ job \in [Workers -> Nat]
  /\ outcome \in [Workers -> Message \union {None}]

Busy(w) == pc[w] \in {"probe", "fetch", "send"}
StemsIn(q) == {q[i].stem : i \in DOMAIN q}
NoRepeat(q) == \A i, j \in DOMAIN q : i # j => q[i].stem # q[j].stem
ChannelStems == StemsIn(channel)
Reported == UNION {report[b] : b \in Buckets}
BucketsDisjoint ==
  \A a, b \in Buckets : a # b => report[a] \intersect report[b] = {}
Finishing == phase \in {"finish", "finishWrite"}

\* No dataset is in two places at once: two workers never run the same stem
\* (two renames over one CSV), no stem is queued twice, and none is still
\* running or queued when the report already has it.  The shared cursor
\* (orchestrator.rs:153) is all that keeps the threads apart.
ExclusiveClaim ==
  /\ \A v, w \in Workers : v # w /\ Busy(v) /\ Busy(w) => JobStem(v) # JobStem(w)
  /\ \A w \in Workers : Busy(w) => JobStem(w) \notin ChannelStems \union Reported
  /\ NoRepeat(channel)
  /\ ChannelStems \intersect Reported = {}

\* "every needed stem lands in exactly one bucket" (orchestrator.rs:28): the
\* buckets never overlap, and a refresh that gets as far as its final save has
\* put every needed stem, and nothing else, in one.
OneBucketEach ==
  /\ BucketsDisjoint
  /\ Finishing => Reported = needed

\* "a Ctrl-C never loses progress" (orchestrator.rs:15): whenever the main
\* thread is back at the channel, the file on disk holds the entry of every
\* dataset completed so far, so a kill then costs only what is in flight.
ProgressSaved ==
  phase = "recv" =>
    \A s \in report["fetched"] \union report["unchanged"] :
      /\ file \notin {None, Torn}
      /\ file.entries[s] = index.entries[s]

\* The row count a later probe is compared with is that of the CSV in place:
\* no other worker replaced the file between its rename and the moment the
\* main thread recorded it.
RecordedRowsMatch ==
  \A s \in report["fetched"] :
    csv[s] # None /\ csv[s].rows = index.entries[s].rows

\* A catalog entry, in memory or on disk, never claims a fetch newer than the
\* CSV it stands for, whatever kill or error came between rename and save.
EntryBacked ==
  \A s \in Catalog :
    /\ index.entries[s] # None /\ csv[s] # None => csv[s].at >= index.entries[s].fetched
    /\ file \notin {None, Torn} /\ csv[s] # None =>
         (file.entries[s] # None => csv[s].at >= file.entries[s].fetched)

\* dataset_cooldown_days is a hard bound (wrapper.py:15): when a refresh ends,
\* each needed catalog CSV is there and younger than the cooldown, or from this
\* run, or its fetch is reported as an error.
HardRefreshBound ==
  Finishing =>
    \A s \in (needed \intersect Catalog) \ report["errors"] :
      /\ csv[s] # None
      /\ day - csv[s].at < DatasetCooldown \/ csv[s].at = day

\* A sweep is marked as done only when every job has been answered: as long as
\* the pool runs, a kill leaves an index for which the sweep is still due.
SweepMarkedLast ==
  sweepDue /\ ~Finishing =>
    /\ SweepDue(index)
    /\ file \notin {None, Torn} => SweepDue(file)

\* Every refresh comes to an end, also when a save fails while workers are
\* blocked in requests or sending: nobody waits for anybody for ever.
RefreshEnds == phase # "idle" ~> phase = "idle"

\* The index that survives a kill can be read: "so a Ctrl-C never loses
\* progress - the next run resumes from here" (orchestrator.rs:192).
IndexLoadable == phase = "idle" => file # Torn

\* "cheap row-count probe per dataset" every index_cooldown_days
\* (kglite_datasets/sodir/wrapper.py:13): a dataset the refresh leaves as it is
\* has been compared with the service within that time.
ProbeCadence ==
  Finishing =>
    \A s \in report["cached"] : day - index.entries[s].checked < IndexCooldown

\* "Datasets probed and found unchanged" (orchestrator.rs:34): the CSV in place
\* has the row count the probe compared with.
UnchangedSameRows ==
  \A s \in report["unchanged"] : csv[s].rows = index.entries[s].rows

\* A failed fetch keeps the CSV of the earlier fetch: during a run no CSV
\* disappears, and one whose stem is reported as an error is not replaced by
\* anyone any more.
FailedFetchKeepsCsv ==
  [][phase # "idle" =>
       \A s \in Stems :
         /\ csv[s] # None => csv'[s] # None
         /\ s \in report["errors"] => csv'[s] = csv[s]]_vars
-----------------------------------------------------------------------------
(* The inductive invariant behind the proofs.                              *)

Running == phase \notin {"idle", "join"}

\* Control: who holds which job, when threads exit, what the queue is once
\* nobody is left.
HoldsJob ==
  \A w \in Workers : Busy(w) => job[w] \in DOMAIN work /\ job[w] < next
DistinctJobs ==
  \A v, w \in Workers : v # w /\ Busy(v) /\ Busy(w) => job[v] # job[w]
CarriesOutcome ==
  \A w \in Workers : pc[w] = "send" => outcome[w] # None /\ outcome[w].stem = JobStem(w)
ExitsLate ==
  Running => \A w \in Workers : pc[w] = "exited" => Len(work) < next
AbortJoins == abort => phase = "join"
Quiet ==
  /\ Finishing \/ phase = "idle" => AllExited /\ channel = <<>>
  /\ phase = "idle" => next = 1 /\ work = <<>>

ControlInv ==
  /\ HoldsJob
  /\ DistinctJobs
  /\ CarriesOutcome
  /\ ExitsLate
  /\ AbortJoins
  /\ Quiet
  /\ NoRepeat(work)
  /\ StemsIn(work) \subseteq Catalog

\* Place: an unclaimed stem is nowhere yet, and a stem that is queued or
\* reported is nowhere else.
Unclaimed ==
  \A k \in DOMAIN work : next <= k => work[k].stem \notin ChannelStems \union Reported
InHand ==
  \A w \in Workers : Busy(w) => JobStem(w) \notin ChannelStems \union Reported

PlaceInv ==
  /\ Unclaimed
  /\ InHand
  /\ NoRepeat(channel)
  /\ ChannelStems \intersect Reported = {}
  /\ BucketsDisjoint

\* Cover: until an abort no needed stem is lost on its way to a bucket.
Accounted ==
  \A k \in DOMAIN work : k < next =>
    \/ work[k].stem \in ChannelStems \union Reported
    \/ \E w \in Workers : Busy(w) /\ job[w] = k

CoverInv ==
  Running =>
    /\ needed = Reported \union ChannelStems \union StemsIn(work)
    /\ Accounted

PoolInv == ControlInv /\ PlaceInv /\ CoverInv

\* No timestamp is in the future, and index entries are backed.
BackedBy(ix) ==
  \A s \in Catalog : ix.entries[s] # None =>
    /\ ix.entries[s].fetched <= day
    /\ csv[s] # None => csv[s].at >= ix.entries[s].fetched

Fresh(s) == csv[s] # None /\ (day - csv[s].at < DatasetCooldown \/ csv[s].at = day)

\* What a message says is true of the CSV it is about.
Truthful(m) ==
  /\ m.stem \in Catalog
  /\ m.kind = "Fetched" => csv[m.stem] # None /\ csv[m.stem].at = day
  /\ m.kind = "Unchanged" => Fresh(m.stem)

EntriesBacked ==
  /\ BackedBy(index)
  /\ file \notin {None, Torn} => BackedBy(file)
ProbesFresh ==
  \A k \in DOMAIN work : work[k].action = "Probe" => Fresh(work[k].stem)
AnswersTrue ==
  \A w \in Workers :
    /\ pc[w] = "probe" => work[job[w]].action = "Probe"
    /\ pc[w] = "send" => Truthful(outcome[w])
QueueTrue == \A i \in DOMAIN channel : Truthful(channel[i])
ReportFresh ==
  /\ \A s \in report["fetched"] \union report["unchanged"] \union report["cached"] :
       s \in Catalog /\ Fresh(s)
  /\ (report["user_supplied"] \union report["unfetchable"]) \intersect Catalog = {}
  /\ phase = "idle" => report = EmptyReport

FreshInv ==
  /\ EntriesBacked
  /\ ProbesFresh
  /\ AnswersTrue
  /\ QueueTrue
  /\ ReportFresh
=============================================================================
