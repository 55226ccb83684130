------------------------ MODULE SodirRefines_proofs ------------------------
(***************************************************************************)
(* SodirRefresh implements SodirPromise under the mapping of SodirRefines, *)
(* for any stems, workers, cooldowns and bounds: every step of the         *)
(* threaded refresh is one step of the promise, or none.                   *)
(***************************************************************************)
EXTENDS SodirRefines, SodirRefresh_proofs

\* The two modules write the same buckets.
LEMMA SameReport == Promise!Buckets = Buckets /\ Promise!EmptyReport = EmptyReport
<1>1. Promise!Buckets = Buckets
  BY DEF Promise!Buckets, Promise!Answers, Buckets
<1> QED
  BY <1>1 DEF Promise!EmptyReport, EmptyReport

\* Jobs are needed stems: inductive without further help.
LEMMA JobsNeededStep ==
  ASSUME TypeOK, JobsNeeded, [Next]_vars
  PROVE  JobsNeeded'
<1>1. ASSUME Leave
      PROVE  JobsNeeded'
  BY <1>1 DEF Leave, JobsNeeded, StemsIn
<1>2. ASSUME UNCHANGED <<work, needed>>
      PROVE  JobsNeeded'
  BY <1>2 DEF JobsNeeded, StemsIn
<1>3. CASE UNCHANGED vars
  BY <1>2, <1>3 DEF vars, runVars
<1>4. CASE \E stems \in NeededSets : StartRun(stems)
  BY <1>4, StartRunWork DEF JobsNeeded
<1>5. CASE Main
  BY <1>1, <1>2, <1>5 DEF Main, Receive, SaveTruncate, FlushWrite, PoolDrained, ScopeJoined,
     FinishWrite, runVars
<1>6. CASE \E w \in Workers : Worker(w)
  BY <1>2, <1>6 DEF Worker, CheckAbort, Claim, Probe, FetchOk, FetchFails, Send, runVars
<1>7. CASE Environment
  BY <1>1, <1>2, <1>7 DEF Environment, Crash, FlushFails, FinishFails, NextDay, DeleteIndex,
     RemoteEdit, SupplyCsv, DeleteCsv, runVars
<1> QED
  BY <1>2, <1>3, <1>4, <1>5, <1>6, <1>7 DEF Next, LoadFails

\* No job is ever of a stem that the caller did not ask for.
LEMMA JobsAreNeeded == Spec => []JobsNeeded
<1>1. Init => JobsNeeded
  BY DEF Init, JobsNeeded, StemsIn
<1>2. PoolIInv /\ JobsNeeded /\ [Next]_vars => JobsNeeded'
  BY JobsNeededStep DEF PoolIInv
<1> QED
  BY <1>1, <1>2, PoolCorrect, PTL DEF Spec

\* A step that changes none of what the caller can see is a stutter.
LEMMA HiddenStep ==
  ASSUME UNCHANGED <<day, csv, needed, report>>, Stage' = Stage
  PROVE  UNCHANGED Promise!vars
BY DEF Promise!vars, Pending, Reported

\* Leaving the call is the promise's End.
LEMMA LeaveMaps ==
  ASSUME Leave, phase # "idle", UNCHANGED <<day, csv>>
  PROVE  Promise!End
<1>1. Stage # "idle" /\ Stage' = "idle"
  BY DEF Leave, Stage
<1>2. Pending' = {} /\ report' = EmptyReport
  BY DEF Leave, Pending
<1> QED
  BY <1>1, <1>2, SameReport DEF Promise!End

\* Pass 1 is the promise's Start: what it leaves alone is fresh.
LEMMA StartRunMaps ==
  ASSUME TypeOK, ControlInv, FreshInv, NEW stems \in NeededSets, StartRun(stems)
  PROVE  Promise!Start(stems)
<1> DEFINE supplied == {s \in stems \ Catalog : csv[s] # None}
           cached == report'["cached"]
           known == stems \intersect Catalog
<1>1. report' = [EmptyReport EXCEPT !["user_supplied"] = supplied,
                   !["unfetchable"] = (stems \ Catalog) \ supplied,
                   !["cached"] = cached]
  <2>1. PICK skip :
          report' = [EmptyReport EXCEPT !["user_supplied"] = supplied,
                       !["unfetchable"] = (stems \ Catalog) \ supplied,
                       !["cached"] = skip]
    BY DEF StartRun
  <2>2. skip = cached
    BY <2>1 DEF EmptyReport, Buckets
  <2> QED
    BY <2>1, <2>2
<1>2. /\ cached \subseteq known
      /\ UNCHANGED <<day, csv>>
      /\ needed' = stems
      /\ phase = "idle"
  BY StartRunWork DEF StartRun, diskVars
<1>3. phase' = IF known = cached THEN "finish" ELSE "recv"
  <2>1. PICK skip :
          /\ report' = [EmptyReport EXCEPT !["user_supplied"] = supplied,
                          !["unfetchable"] = (stems \ Catalog) \ supplied,
                          !["cached"] = skip]
          /\ phase' = IF known = skip THEN "finish" ELSE "recv"
    BY DEF StartRun
  <2>2. skip = cached
    BY <2>1 DEF EmptyReport, Buckets
  <2> QED
    BY <2>1, <2>2
<1>4. \A s \in cached : Promise!Fresh(s)
  <2>1. FreshInv'
    BY StartRunFresh
  <2>2. \A s \in cached : Fresh(s)'
    BY <2>1 DEF FreshInv, ReportFresh
  <2> QED
    BY <1>2, <2>2 DEF Fresh, Promise!Fresh
<1>5. Pending' = known \ cached
  <2>1. Reported' = UNION {report'["fetched"], report'["unchanged"], report'["errors"],
                           report'["cached"], report'["user_supplied"],
                           report'["unfetchable"]}
    BY DEF Reported, Buckets
  <2>2. Reported' = cached \union (stems \ Catalog)
    BY <2>1, StartRunWork
  <2> QED
    BY <1>2, <2>2 DEF Pending
<1>6. Stage = "idle" /\ Stage' = IF Pending' = {} THEN "done" ELSE "running"
  <2>1. known = cached <=> Pending' = {}
    BY <1>2, <1>5
  <2> QED
    BY <1>2, <1>3, <2>1 DEF Stage, Finishing
<1>7. cached \in SUBSET {s \in known : Promise!Fresh(s)}
  BY <1>2, <1>4
<1> HIDE DEF cached
<1> QED
  BY <1>1, <1>2, <1>5, <1>6, <1>7, SameReport DEF Promise!Start

\* Taking a message off the queue answers its stem, truthfully.
LEMMA ReceiveMaps ==
  ASSUME TypeOK, PlaceInv, CoverInv, FreshInv, Receive
  PROVE  \E s \in Stems, b \in Promise!Answers : Promise!Answer(s, b)
<1> DEFINE m == Head(channel)
<1>1. /\ channel \in Seq(Message) /\ channel # <<>> /\ m \in Message
      /\ report \in [Buckets -> SUBSET Stems]
  BY DEF TypeOK, Receive
<1>2. m.stem \in ChannelStems /\ Truthful(m)
  BY <1>1 DEF ChannelStems, StemsIn, FreshInv, QueueTrue
<1>3. m.stem \in Pending
  <2>1. m.stem \in needed
    BY <1>2 DEF Receive, CoverInv, Running
  <2> QED
    BY <1>2, <2>1 DEF Pending, Truthful, PlaceInv
<1>4. PICK b \in Promise!Answers :
        /\ report' = [report EXCEPT ![b] = @ \union {m.stem}]
        /\ b = "fetched" => m.kind = "Fetched"
        /\ b = "unchanged" => m.kind = "Unchanged"
  BY DEF Receive, Promise!Answers
<1>5. /\ phase = "recv" /\ phase' = "flush"
      /\ UNCHANGED <<day, csv, needed>>
  BY DEF Receive, diskVars, runVars
<1>6. Stage = "running" /\ Stage' = "running"
  BY <1>5 DEF Stage, Finishing
<1> HIDE DEF m
<1>7. Pending' = Pending \ {m.stem}
  <2>1. b \in Buckets
    BY DEF Promise!Answers, Buckets
  <2>2. Reported' = Reported \union {m.stem}
    BY <1>1, <1>4, <2>1 DEF Reported
  <2> QED
    BY <1>5, <2>2 DEF Pending
<1>8. b = "fetched" => Promise!Today(m.stem)
  BY <1>2, <1>4 DEF Truthful, Promise!Today
<1>9. b = "unchanged" => Promise!Fresh(m.stem)
  BY <1>2, <1>4 DEF Truthful, Fresh, Promise!Fresh
<1>10. Promise!Answer(m.stem, b)
  BY <1>3, <1>4, <1>5, <1>6, <1>7, <1>8, <1>9 DEF Promise!Answer
<1>11. m.stem \in Stems
  BY <1>2, StemsAssumption DEF Truthful
<1> QED
  BY <1>10, <1>11

\* The drained pool completes the report: nothing is pending at the final save.
LEMMA PoolDrainedMaps ==
  ASSUME OneBucketEach', PoolDrained
  PROVE  Promise!Complete
<1>1. /\ phase = "recv" /\ phase' = "finish"
      /\ UNCHANGED <<day, csv, needed, report>>
  BY DEF PoolDrained, diskVars, runVars
<1>2. Stage = "running" /\ Stage' = "done"
  BY <1>1 DEF Stage, Finishing
<1>3. Pending' = {}
  BY <1>1 DEF OneBucketEach, Pending, Finishing
<1>4. Pending' = Pending
  BY <1>1 DEF Pending, Reported
<1> QED
  BY <1>1, <1>2, <1>3, <1>4 DEF Promise!Complete

\* A step of the calling thread is an answer, the completion, the end, or hidden.
LEMMA MainMaps ==
  ASSUME TypeOK, PlaceInv, CoverInv, FreshInv, OneBucketEach', Main
  PROVE  [Promise!Next]_(Promise!vars)
<1>1. CASE Receive
  BY <1>1, ReceiveMaps DEF Promise!Next
<1>2. CASE SaveTruncate \/ FlushWrite
  <2>1. UNCHANGED <<day, csv, needed, report>> /\ Stage' = Stage
    BY <1>2 DEF SaveTruncate, FlushWrite, runVars, Stage, Finishing
  <2> QED
    BY <2>1, HiddenStep
<1>3. CASE PoolDrained
  BY <1>3, PoolDrainedMaps DEF Promise!Next
<1>4. CASE ScopeJoined \/ FinishWrite
  <2>1. Leave /\ phase # "idle" /\ UNCHANGED <<day, csv>>
    BY <1>4 DEF ScopeJoined, FinishWrite, diskVars
  <2> QED
    BY <2>1, LeaveMaps DEF Promise!Next
<1> QED
  BY <1>1, <1>2, <1>3, <1>4 DEF Main

\* A worker is hidden but for its rename, which replaces a pending stem's CSV.
LEMMA WorkerMaps ==
  ASSUME TypeOK, ControlInv, PlaceInv, JobsNeeded, NEW w \in Workers, Worker(w)
  PROVE  [Promise!Next]_(Promise!vars)
<1>1. UNCHANGED <<day, phase, needed, report>>
  BY DEF Worker, CheckAbort, Claim, Probe, FetchOk, FetchFails, Send, runVars, diskVars
<1>2. Stage' = Stage
  BY <1>1 DEF Stage, Finishing
<1>3. CASE csv' = csv
  BY <1>1, <1>2, <1>3, HiddenStep
<1>4. CASE FetchOk(w)
  <2>1. pc[w] = "fetch" /\ Busy(w)
    BY <1>4 DEF FetchOk, Busy
  <2>2. Stage = "running"
    BY <2>1 DEF ControlInv, Quiet, AllExited, Stage
  <2>3. JobStem(w) \in StemsIn(work) /\ JobStem(w) \in Catalog
    BY <2>1 DEF ControlInv, HoldsJob, StemsIn, JobStem
  <2>4. JobStem(w) \in Pending
    BY <2>1, <2>3 DEF JobsNeeded, PlaceInv, InHand, Pending
  <2>5. \E n \in Rows : csv' = [csv EXCEPT ![JobStem(w)] = [rows |-> n, at |-> day]]
    <3>1. PICK n \in 0 .. remote[JobStem(w)] :
            csv' = [csv EXCEPT ![JobStem(w)] = [rows |-> n, at |-> day]]
      BY <1>4 DEF FetchOk
    <3>2. n \in Rows
      BY <2>3, NumbersAssumption DEF TypeOK, Rows
    <3> QED
      BY <3>1, <3>2
  <2>6. Pending' = Pending
    BY <1>1 DEF Pending, Reported
  <2>7. Promise!Replace(JobStem(w))
    BY <1>1, <1>2, <2>2, <2>4, <2>5, <2>6 DEF Promise!Replace
  <2> QED
    BY <2>3, <2>7, StemsAssumption DEF Promise!Next
<1> QED
  BY <1>3, <1>4 DEF Worker, CheckAbort, Claim, Probe, FetchFails, Send, diskVars

\* The world outside ends the call, moves the clock or changes the user's files;
\* the service's edits, a failed save and the index file are hidden.
LEMMA EnvironmentMaps ==
  ASSUME Environment
  PROVE  [Promise!Next]_(Promise!vars)
<1>1. CASE Crash \/ FinishFails
  <2>1. Leave /\ phase # "idle" /\ UNCHANGED <<day, csv>>
    BY <1>1 DEF Crash, FinishFails, diskVars
  <2> QED
    BY <2>1, LeaveMaps DEF Promise!Next
<1>2. CASE FlushFails \/ DeleteIndex \/ \E s \in Catalog : RemoteEdit(s)
  <2>1. UNCHANGED <<day, csv, needed, report>> /\ Stage' = Stage
    BY <1>2 DEF FlushFails, DeleteIndex, RemoteEdit, diskVars, runVars, Stage, Finishing
  <2> QED
    BY <2>1, HiddenStep
<1>3. CASE NextDay
  <2>1. /\ phase = "idle" /\ day' = day + 1
        /\ UNCHANGED <<csv, phase, needed, report>>
    BY <1>3 DEF NextDay, diskVars, runVars
  <2>2. Promise!NextDay
    BY <2>1 DEF Promise!NextDay, Stage, Finishing, Pending, Reported
  <2> QED
    BY <2>2 DEF Promise!Next
<1>4. CASE \E s \in Stems : SupplyCsv(s) \/ DeleteCsv(s)
  <2>1. PICK s \in Stems :
          /\ phase = "idle"
          /\ \/ /\ s \notin Catalog
                /\ \E n \in Rows : csv' = [csv EXCEPT ![s] = [rows |-> n, at |-> day]]
             \/ csv' = [csv EXCEPT ![s] = None]
          /\ UNCHANGED <<day, phase, needed, report>>
    BY <1>4 DEF SupplyCsv, DeleteCsv, runVars
  <2>2. Promise!UserChange(s)
    BY <2>1 DEF Promise!UserChange, Stage, Finishing, Pending, Reported
  <2> QED
    BY <2>2 DEF Promise!Next
<1> QED
  BY <1>1, <1>2, <1>3, <1>4 DEF Environment

\* Every step of the refresh is a step of the promise, or hidden.
LEMMA PromiseStep ==
  PoolIInv /\ FreshInv /\ JobsNeeded /\ OneBucketEach' /\ [Next]_vars
    => [Promise!Next]_(Promise!vars)
<1> SUFFICES ASSUME TypeOK, ControlInv, PlaceInv, CoverInv, FreshInv, JobsNeeded,
                    OneBucketEach', [Next]_vars
             PROVE  [Promise!Next]_(Promise!vars)
  BY DEF PoolIInv, PoolInv
<1>1. CASE UNCHANGED vars \/ LoadFails
  <2>1. UNCHANGED <<day, csv, needed, report, phase>>
    BY <1>1 DEF LoadFails, vars, diskVars, runVars
  <2> QED
    BY <2>1, HiddenStep DEF Stage, Finishing
<1>2. CASE \E stems \in NeededSets : StartRun(stems)
  BY <1>2, StartRunMaps DEF Promise!Next
<1>3. CASE Main
  BY <1>3, MainMaps
<1>4. CASE \E w \in Workers : Worker(w)
  BY <1>4, WorkerMaps
<1>5. CASE Environment
  BY <1>5, EnvironmentMaps
<1> QED
  BY <1>1, <1>2, <1>3, <1>4, <1>5 DEF Next

\* The initial state is the promise's.
LEMMA PromiseInit == Init => Promise!Init
BY SameReport DEF Init, Promise!Init, Stage, Pending

\* The threaded refresh, its queue and its index implement the promise
\* (PromiseKept; orchestrator.rs:28): for any number of workers and stems, no
\* CSV changes once its stem is answered, and no answer is false.
THEOREM Refinement == Spec => PromiseKept
BY PromiseInit, PromiseStep, PoolCorrect, FreshCorrect, JobsAreNeeded, BucketsExact,
   PTL DEF Spec, PromiseKept, Promise!Spec

\* What the promise says of CSVs during a call: only a pending one is replaced.
LEMMA OnlyPendingReplaced ==
  ASSUME TypeOK, [Promise!Next]_(Promise!vars), phase # "idle", NEW s \in Stems
  PROVE  /\ csv[s] # None => csv'[s] # None
         /\ s \in report["errors"] => csv'[s] = csv[s]
<1>1. Stage # "idle"
  BY DEF Stage
<1>2. csv' = csv \/ \E r \in Stems : Promise!Replace(r)
  BY <1>1 DEF Promise!Next, Promise!vars, Promise!Start, Promise!UserChange, Promise!Answer,
     Promise!Complete, Promise!End, Promise!NextDay
<1>3. CASE csv' = csv
  BY <1>3
<1>4. CASE \E r \in Stems : Promise!Replace(r)
  <2>1. PICK r \in Stems, n \in Rows :
          /\ r \in Pending
          /\ csv' = [csv EXCEPT ![r] = [rows |-> n, at |-> day]]
    BY <1>4 DEF Promise!Replace
  <2>2. [rows |-> n, at |-> day] \in Csv
    BY <2>1 DEF Csv, TypeOK
  <2>3. [rows |-> n, at |-> day] # None
    BY <2>2, SentinelAssumption
  <2>4. s \in report["errors"] => s # r
    BY <2>1 DEF Pending, Reported, Buckets
  <2> QED
    BY <2>1, <2>3, <2>4 DEF TypeOK
<1> QED
  BY <1>2, <1>3, <1>4

\* A failed fetch leaves the CSV of the earlier fetch in place, and nobody else
\* replaces it later in the run (FailedFetchKeepsCsv; fetch.rs:56).
THEOREM FailedFetchKept == Spec => FailedFetchKeepsCsv
<1> DEFINE Kept == phase # "idle" =>
                     \A s \in Stems :
                       /\ csv[s] # None => csv'[s] # None
                       /\ s \in report["errors"] => csv'[s] = csv[s]
<1>1. TypeOK /\ [Promise!Next]_(Promise!vars) => Kept
  BY OnlyPendingReplaced
<1>2. PoolIInv /\ FreshInv /\ JobsNeeded /\ OneBucketEach' /\ [Next]_vars => [Kept]_vars
  BY <1>1, PromiseStep DEF PoolIInv
<1>3. Spec => [][Kept]_vars
  <2> HIDE DEF Kept
  <2> QED
    BY <1>2, PoolCorrect, FreshCorrect, JobsAreNeeded, BucketsExact, PTL DEF Spec
<1> QED
  BY <1>3 DEF FailedFetchKeepsCsv
=============================================================================
