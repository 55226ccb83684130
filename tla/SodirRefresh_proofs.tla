------------------------ MODULE SodirRefresh_proofs ------------------------
(***************************************************************************)
(* Proofs about SodirRefresh, for any set of stems and workers, any        *)
(* cooldowns and any bounds.                                               *)
(***************************************************************************)
EXTENDS SodirRefresh, Functions, FiniteSetTheorems, TLAPS

(***************************************************************************)
(* Types of the helpers.                                                   *)
(***************************************************************************)
USE DEF Rows

\* A job order is a sequence of the stems it orders, each of them once.
LEMMA LargestFirstType ==
  ASSUME NEW S \in SUBSET Stems, NEW ix, NEW q \in LargestFirst(S, ix)
  PROVE  /\ q \in Seq(S)
         /\ DOMAIN q = 1 .. Len(q)
         /\ S = {q[i] : i \in DOMAIN q}
         /\ IsInjective(q)
<1>1. Cardinality(S) \in Nat
  BY StemsAssumption, FS_Subset, FS_CardinalityType
<1>2. q \in [1 .. Cardinality(S) -> S]
  BY DEF LargestFirst
<1>3. q \in Seq(S) /\ Len(q) = Cardinality(S)
  BY <1>1, <1>2
<1>4. \A i, j \in DOMAIN q : i # j => q[i] # q[j]
  <2> SUFFICES ASSUME NEW i \in DOMAIN q, NEW j \in DOMAIN q, i # j
               PROVE  q[i] # q[j]
    OBVIOUS
  <2>1. i \in Int /\ j \in Int
    BY <1>1, <1>2
  <2>2. CASE i < j
    BY <2>2 DEF LargestFirst
  <2>3. CASE j < i
    BY <2>3 DEF LargestFirst
  <2> QED
    BY <2>1, <2>2, <2>3
<1>5. S = {q[i] : i \in DOMAIN q}
  BY <1>2 DEF LargestFirst
<1> QED
  BY <1>2, <1>3, <1>4, <1>5 DEF IsInjective

\* A job of a catalog stem is a job: its prior count is a row count or missing.
LEMMA JobForType ==
  ASSUME TypeOK, NEW ix \in Index, NEW s \in Stems, NEW due \in BOOLEAN,
         DecideAction(ix.entries[s], csv[s], due) # "Skip"
  PROVE  JobFor(ix, s, due) \in Job
<1>1. ix.entries[s] = None \/ ix.entries[s] \in Entry
  BY DEF Index
<1>2. DecideAction(ix.entries[s], csv[s], due) \in {"Probe", "Fetch"}
  BY DEF DecideAction
<1>3. (IF ix.entries[s] = None THEN None ELSE ix.entries[s].rows) \in Rows \union {None}
  BY <1>1 DEF Entry
<1> QED
  BY <1>2, <1>3 DEF JobFor, Job

\* Adding the user-supplied CSVs to an index gives an index.
LEMMA WithSuppliedType ==
  ASSUME TypeOK, NEW ix \in Index, NEW S \in SUBSET Stems,
         \A s \in S : csv[s] # None
  PROVE  /\ WithSupplied(ix, S) \in Index
         /\ WithSupplied(ix, S).sweep = ix.sweep
         /\ \A s \in Stems \ S : WithSupplied(ix, S).entries[s] = ix.entries[s]
<1> DEFINE E == [s \in Stems |->
                   IF s \in S /\ ix.entries[s] = None
                   THEN [rows |-> csv[s].rows, fetched |-> day, checked |-> day]
                   ELSE ix.entries[s]]
<1>1. E \in [Stems -> Entry \union {None}]
  <2> SUFFICES ASSUME NEW s \in Stems
               PROVE  E[s] \in Entry \union {None}
    OBVIOUS
  <2>1. CASE s \in S /\ ix.entries[s] = None
    BY <2>1 DEF TypeOK, Csv, Entry
  <2>2. CASE ~(s \in S /\ ix.entries[s] = None)
    BY <2>2 DEF Index
  <2> QED
    BY <2>1, <2>2
<1>2. WithSupplied(ix, S) = [ix EXCEPT !.entries = E]
  BY DEF WithSupplied
<1> QED
  BY <1>1, <1>2 DEF Index

\* Stamping the sweep changes nothing else.
LEMMA StampedType ==
  ASSUME TypeOK, NEW ix \in Index, NEW due \in BOOLEAN
  PROVE  /\ Stamped(ix, due) \in Index
         /\ Stamped(ix, due).entries = ix.entries
BY DEF Stamped, Index, TypeOK

\* An index with one entry replaced is an index.
LEMMA PutEntryType ==
  ASSUME NEW ix \in Index, NEW s \in Stems, NEW e \in Entry
  PROVE  /\ [ix EXCEPT !.entries[s] = e] \in Index
         /\ [ix EXCEPT !.entries[s] = e].sweep = ix.sweep
         /\ [ix EXCEPT !.entries[s] = e].entries = [ix.entries EXCEPT ![s] = e]
BY DEF Index

\* The index of a fresh workdir is an index.
LEMMA EmptyIndexType == EmptyIndex \in Index /\ NoEntries \in [Stems -> {None}]
BY DEF EmptyIndex, NoEntries, Index

\* The state a finished call leaves behind is well typed.
LEMMA LeaveType ==
  ASSUME Leave, day' \in Nat, moves' \in Nat, remote' \in [Catalog -> Rows],
         csv' \in [Stems -> Csv \union {None}], file' \in Index \union {None, Torn}
  PROVE  TypeOK'
<1>1. /\ phase' = "idle"
      /\ needed' = {}
      /\ index' = EmptyIndex
      /\ report' = EmptyReport
      /\ sweepDue' = FALSE
      /\ work' = <<>>
      /\ next' = 1
      /\ abort' = FALSE
      /\ channel' = <<>>
      /\ pc' = [w \in Workers |-> "exited"]
      /\ job' = [w \in Workers |-> 0]
      /\ outcome' = [w \in Workers |-> None]
  BY DEF Leave
<1>2. index' \in Index
  BY <1>1, EmptyIndexType
<1>3. report' \in [Buckets -> SUBSET Stems]
  BY <1>1 DEF EmptyReport
<1>4. work' \in Seq(Job) /\ channel' \in Seq(Message)
  BY <1>1
<1>5. /\ pc' \in [Workers -> WorkerSteps]
      /\ job' \in [Workers -> Nat]
      /\ outcome' \in [Workers -> Message \union {None}]
  BY <1>1 DEF WorkerSteps
<1>6. phase' \in MainPhases /\ needed' \in SUBSET Stems /\ next' \in Nat \ {0}
  BY <1>1 DEF MainPhases
<1>7. sweepDue' \in BOOLEAN /\ abort' \in BOOLEAN
  BY <1>1
<1> QED
  BY <1>2, <1>3, <1>4, <1>5, <1>6, <1>7 DEF TypeOK
-----------------------------------------------------------------------------
(***************************************************************************)
(* Type correctness.                                                       *)
(***************************************************************************)
\* Type correctness, initially.
LEMMA TypeInit == Init => TypeOK
<1> SUFFICES ASSUME Init PROVE TypeOK
  OBVIOUS
<1>1. index \in Index
  BY EmptyIndexType DEF Init
<1>2. report \in [Buckets -> SUBSET Stems]
  BY DEF Init, EmptyReport
<1>3. /\ pc \in [Workers -> WorkerSteps]
      /\ job \in [Workers -> Nat]
      /\ outcome \in [Workers -> Message \union {None}]
  BY DEF Init, WorkerSteps
<1>4. /\ remote \in [Catalog -> Rows]
      /\ csv \in [Stems -> Csv \union {None}]
      /\ work \in Seq(Job)
      /\ channel \in Seq(Message)
      /\ next \in Nat \ {0}
  BY NumbersAssumption DEF Init
<1>5. sweepDue \in BOOLEAN /\ abort \in BOOLEAN
  BY DEF Init
<1>6. day \in Nat /\ moves \in Nat /\ needed \in SUBSET Stems
      /\ phase \in MainPhases /\ file \in Index \union {None, Torn}
  BY DEF Init, MainPhases
<1> QED
  BY <1>1, <1>2, <1>3, <1>4, <1>5, <1>6 DEF TypeOK

\* What StartRun's definitions are, by type.
LEMMA StartRunType ==
  ASSUME TypeOK, NEW stems \in NeededSets, StartRun(stems)
  PROVE  TypeOK'
<1> DEFINE loaded == IF file = None THEN EmptyIndex ELSE file
           due == SweepDue(loaded)
           supplied == {s \in stems \ Catalog : csv[s] # None}
           ix == WithSupplied(loaded, supplied)
           known == stems \intersect Catalog
           skip == {s \in known : DecideAction(ix.entries[s], csv[s], due) = "Skip"}
<1>1. loaded \in Index /\ due \in BOOLEAN
  BY EmptyIndexType DEF StartRun, TypeOK, SweepDue
<1>2. stems \in SUBSET Stems
  BY StemsAssumption
<1>3. supplied \in SUBSET Stems /\ known \ skip \in SUBSET Stems
  BY <1>2
<1>4. ix \in Index
  <2> HIDE DEF loaded
  <2>1. \A s \in supplied : csv[s] # None
    OBVIOUS
  <2> QED
    BY <1>1, <1>3, <2>1, WithSuppliedType
<1> HIDE DEF loaded, due, ix
<1>5. work' \in Seq(Job)
  <2>1. PICK q \in LargestFirst(known \ skip, ix) :
          work' = [i \in DOMAIN q |-> JobFor(ix, q[i], due)]
    BY DEF StartRun, loaded, due, ix
  <2>2. q \in Seq(known \ skip) /\ DOMAIN q = 1 .. Len(q)
    BY <1>3, LargestFirstType
  <2>3. ASSUME NEW i \in DOMAIN q
        PROVE  JobFor(ix, q[i], due) \in Job
    <3>1. q[i] \in known \ skip
      BY <2>2
    <3>2. q[i] \in Stems /\ DecideAction(ix.entries[q[i]], csv[q[i]], due) # "Skip"
      BY <1>3, <3>1
    <3> QED
      BY <1>1, <1>4, <3>2, JobForType
  <2> QED
    BY <2>1, <2>2, <2>3
<1>6. report' \in [Buckets -> SUBSET Stems]
  <2>1. report' = [EmptyReport EXCEPT !["user_supplied"] = supplied,
                     !["unfetchable"] = (stems \ Catalog) \ supplied,
                     !["cached"] = skip]
    BY DEF StartRun, loaded, due, ix
  <2>2. EmptyReport \in [Buckets -> SUBSET Stems]
    BY DEF EmptyReport
  <2> QED
    BY <1>2, <2>1, <2>2 DEF Buckets
<1>7. /\ needed' = stems
      /\ sweepDue' = due
      /\ phase' \in MainPhases
      /\ index' \in {ix, Stamped(ix, due)}
      /\ pc' \in {pc, [w \in Workers |-> "check"]}
      /\ UNCHANGED <<moves, day, remote, csv, file, next, channel, job, outcome, abort>>
  BY DEF StartRun, loaded, due, ix, diskVars, MainPhases
<1>8. index' \in Index
  BY <1>1, <1>4, <1>7, StampedType
<1>9. pc' \in [Workers -> WorkerSteps]
  BY <1>7 DEF TypeOK, WorkerSteps
<1>10. needed' \in SUBSET Stems /\ sweepDue' \in BOOLEAN
  BY <1>1, <1>2, <1>7
<1> QED
  BY <1>5, <1>6, <1>7, <1>8, <1>9, <1>10 DEF TypeOK

\* Receiving a message keeps the types: the entry it makes is an entry.
LEMMA ReceiveType ==
  ASSUME TypeOK, Receive
  PROVE  TypeOK'
<1> DEFINE m == Head(channel)
<1>1. m \in Message /\ channel' \in Seq(Message)
  BY DEF TypeOK, Receive
<1>2. m.stem \in Stems /\ m.rows \in Rows
  BY <1>1 DEF Message
<1>3. index.entries[m.stem] = None \/ index.entries[m.stem] \in Entry
  BY <1>2 DEF TypeOK, Index
<1>4. \/ index' = index
      \/ index' = [index EXCEPT !.entries[m.stem] =
                      [rows |-> m.rows, fetched |-> day, checked |-> day]]
      \/ /\ index.entries[m.stem] # None
         /\ index' = [index EXCEPT !.entries[m.stem] =
                         [index.entries[m.stem] EXCEPT !.checked = day]]
  BY DEF Receive
<1>5. index' \in Index
  <2>1. [rows |-> m.rows, fetched |-> day, checked |-> day] \in Entry
    BY <1>2 DEF TypeOK, Entry
  <2>2. ASSUME index.entries[m.stem] # None
        PROVE  [index.entries[m.stem] EXCEPT !.checked = day] \in Entry
    BY <1>3, <2>2 DEF TypeOK, Entry
  <2> HIDE DEF m
  <2>3. index \in Index
    BY DEF TypeOK
  <2> QED
    BY <1>2, <1>4, <2>1, <2>2, <2>3, PutEntryType
<1>6. \E b \in Buckets : report' = [report EXCEPT ![b] = @ \union {m.stem}]
  BY DEF Receive, Buckets
<1>7. report' \in [Buckets -> SUBSET Stems]
  BY <1>2, <1>6 DEF TypeOK
<1>8. /\ phase' \in MainPhases
      /\ UNCHANGED <<moves, day, remote, csv, file, needed, sweepDue, work, next,
                     pc, job, outcome, abort>>
  BY DEF Receive, diskVars, runVars, MainPhases
<1> QED
  BY <1>1, <1>5, <1>7, <1>8 DEF TypeOK

\* The stem of a busy worker's job is a stem.
LEMMA JobStemType ==
  ASSUME TypeOK, NEW w \in Workers, job[w] \in DOMAIN work
  PROVE  work[job[w]] \in Job /\ JobStem(w) \in Stems
<1>1. work[job[w]] \in Job
  BY DEF TypeOK
<1> QED
  BY <1>1 DEF JobStem, Job

\* A worker that works on its job either goes on to fetch or has an answer
\* about that job's stem.
LEMMA AnswerShape ==
  ASSUME TypeOK, ControlInv, NEW w \in Workers, Probe(w) \/ FetchOk(w) \/ FetchFails(w)
  PROVE  /\ pc[w] \in {"probe", "fetch"}
         /\ UNCHANGED <<moves, day, remote, file, phase, runVars, index, report, next,
                        channel, job, abort>>
         /\ csv' \in [Stems -> Csv \union {None}]
         /\ \/ pc' = [pc EXCEPT ![w] = "fetch"] /\ outcome' = outcome
            \/ \E m \in Message :
                 /\ m.stem = JobStem(w)
                 /\ pc' = [pc EXCEPT ![w] = "send"]
                 /\ outcome' = [outcome EXCEPT ![w] = m]
<1>1. /\ pc[w] \in {"probe", "fetch"}
      /\ UNCHANGED <<moves, day, remote, file, phase, runVars, index, report, next,
                     channel, job, abort>>
  BY DEF Probe, FetchOk, FetchFails, Goto, diskVars
<1>2. JobStem(w) \in Stems /\ JobStem(w) \in Catalog
  BY <1>1, JobStemType DEF Busy, ControlInv, HoldsJob, StemsIn, JobStem
<1>3. ASSUME NEW kind \in {"Fetched", "Unchanged", "Error"}, NEW n \in Rows,
             Finish(w, kind, n)
      PROVE  \E m \in Message :
               /\ m.stem = JobStem(w)
               /\ pc' = [pc EXCEPT ![w] = "send"]
               /\ outcome' = [outcome EXCEPT ![w] = m]
  <2>1. [stem |-> JobStem(w), kind |-> kind, rows |-> n] \in Message
    BY <1>2 DEF Message
  <2> QED
    BY <1>3, <2>1 DEF Finish
<1>4. 0 \in Rows
  BY NumbersAssumption
<1>5. CASE FetchOk(w)
  <2>1. PICK n \in 0 .. remote[JobStem(w)] :
          /\ Finish(w, "Fetched", n)
          /\ csv' = [csv EXCEPT ![JobStem(w)] = [rows |-> n, at |-> day]]
    BY <1>5 DEF FetchOk
  <2>2. n \in Rows
    BY <1>2, NumbersAssumption DEF TypeOK
  <2>3. csv' \in [Stems -> Csv \union {None}]
    BY <2>1, <2>2 DEF TypeOK, Csv
  <2> QED
    BY <1>1, <1>3, <2>1, <2>2, <2>3
<1>6. CASE Probe(w) \/ FetchFails(w)
  <2>1. csv' = csv
    BY <1>6 DEF Probe, FetchFails, diskVars
  <2>2. \/ Finish(w, "Unchanged", 0)
        \/ Finish(w, "Error", 0)
        \/ pc' = [pc EXCEPT ![w] = "fetch"] /\ outcome' = outcome
    BY <1>6 DEF Probe, FetchFails, Goto
  <2> QED
    BY <1>1, <1>3, <1>4, <2>1, <2>2 DEF TypeOK
<1> QED
  BY <1>5, <1>6

\* A step of a worker keeps the types.
LEMMA WorkerType ==
  ASSUME TypeOK, ControlInv, NEW w \in Workers, Worker(w)
  PROVE  TypeOK'
<1>1. CASE CheckAbort(w)
  <2>1. /\ pc' \in [Workers -> WorkerSteps]
        /\ UNCHANGED <<moves, day, diskVars, phase, runVars, index, report, next,
                       channel, job, outcome, abort>>
    BY <1>1 DEF CheckAbort, Goto, TypeOK, WorkerSteps
  <2> QED
    BY <2>1 DEF TypeOK, diskVars, runVars
<1>2. CASE Claim(w)
  <2>1. next' \in Nat \ {0}
    BY <1>2 DEF Claim, TypeOK
  <2>2. pc' \in [Workers -> WorkerSteps]
    BY <1>2 DEF Claim, Goto, TypeOK, WorkerSteps
  <2>3. job' \in [Workers -> Nat]
    BY <1>2 DEF Claim, TypeOK
  <2>4. UNCHANGED <<moves, day, diskVars, phase, runVars, index, report, channel,
                    outcome, abort>>
    BY <1>2 DEF Claim
  <2> QED
    BY <2>1, <2>2, <2>3, <2>4 DEF TypeOK, diskVars, runVars
<1>3. CASE Send(w)
  <2>1. pc' \in [Workers -> WorkerSteps]
    BY <1>3 DEF Send, Goto, TypeOK, WorkerSteps
  <2>2. outcome[w] \in Message
    BY <1>3 DEF Send, Goto, TypeOK, ControlInv, CarriesOutcome
  <2>3. channel' \in Seq(Message)
    <3>1. channel \in Seq(Message)
      BY DEF TypeOK
    <3>2. channel' = channel \/ channel' = Append(channel, outcome[w])
      BY <1>3 DEF Send
    <3> QED
      BY <2>2, <3>1, <3>2
  <2>4. job' \in [Workers -> Nat] /\ outcome' \in [Workers -> Message \union {None}]
    BY <1>3 DEF Send, TypeOK
  <2>5. UNCHANGED <<moves, day, diskVars, phase, runVars, index, report, next, abort>>
    BY <1>3 DEF Send
  <2> QED
    BY <2>1, <2>3, <2>4, <2>5 DEF TypeOK, diskVars, runVars
<1>4. CASE Probe(w) \/ FetchOk(w) \/ FetchFails(w)
  <2>1. /\ pc' \in [Workers -> WorkerSteps]
        /\ outcome' \in [Workers -> Message \union {None}]
    <3>1. CASE pc' = [pc EXCEPT ![w] = "fetch"] /\ outcome' = outcome
      BY <3>1 DEF TypeOK, WorkerSteps
    <3>2. CASE \E m \in Message : /\ pc' = [pc EXCEPT ![w] = "send"]
                                 /\ outcome' = [outcome EXCEPT ![w] = m]
      BY <3>2 DEF TypeOK, WorkerSteps
    <3> QED
      BY <1>4, <3>1, <3>2, AnswerShape
  <2>2. /\ csv' \in [Stems -> Csv \union {None}]
        /\ UNCHANGED <<moves, day, remote, file, phase, runVars, index, report, next,
                       channel, job, abort>>
    BY <1>4, AnswerShape
  <2> QED
    BY <2>1, <2>2 DEF TypeOK, runVars
<1> QED
  BY <1>1, <1>2, <1>3, <1>4 DEF Worker

\* A step of the calling thread keeps the types.
LEMMA MainType ==
  ASSUME TypeOK, ControlInv, Main
  PROVE  TypeOK'
<1>1. CASE Receive
  BY <1>1, ReceiveType
<1>2. CASE SaveTruncate
  BY <1>2 DEF SaveTruncate, TypeOK, MainPhases, runVars, poolVars
<1>3. CASE FlushWrite
  BY <1>3 DEF FlushWrite, TypeOK, MainPhases, runVars, poolVars
<1>4. CASE PoolDrained
  <2>1. index' \in Index
    BY <1>4, StampedType DEF PoolDrained, TypeOK
  <2> QED
    BY <1>4, <2>1 DEF PoolDrained, TypeOK, MainPhases, diskVars, runVars, poolVars
<1>5. CASE ScopeJoined
  BY <1>5, LeaveType DEF ScopeJoined, TypeOK, diskVars
<1>6. CASE FinishWrite
  BY <1>6, LeaveType DEF FinishWrite, TypeOK
<1> QED
  BY <1>1, <1>2, <1>3, <1>4, <1>5, <1>6 DEF Main

\* A step of the world outside keeps the types.
LEMMA EnvironmentType ==
  ASSUME TypeOK, Environment
  PROVE  TypeOK'
<1>1. CASE Crash
  BY <1>1, LeaveType DEF Crash, Move, TypeOK, diskVars
<1>2. CASE FlushFails
  <2>1. channel' \in Seq(Message) /\ abort' \in BOOLEAN
    BY <1>2 DEF FlushFails
  <2> QED
    BY <1>2, <2>1 DEF FlushFails, Move, TypeOK, MainPhases, diskVars, runVars
<1>3. CASE FinishFails
  BY <1>3, LeaveType DEF FinishFails, Move, TypeOK, diskVars
<1>4. CASE NextDay
  BY <1>4 DEF NextDay, TypeOK, diskVars, runVars, poolVars
<1>5. CASE DeleteIndex
  BY <1>5 DEF DeleteIndex, Move, TypeOK, runVars, poolVars
<1>6. ASSUME NEW s \in Catalog, RemoteEdit(s)
      PROVE  TypeOK'
  <2>1. remote' \in [Catalog -> Rows]
    BY <1>6 DEF RemoteEdit, TypeOK
  <2> QED
    BY <1>6, <2>1 DEF RemoteEdit, Move, TypeOK, runVars, poolVars
<1>7. ASSUME NEW s \in Stems, SupplyCsv(s)
      PROVE  TypeOK'
  <2>1. csv' \in [Stems -> Csv \union {None}]
    BY <1>7 DEF SupplyCsv, TypeOK, Csv
  <2> QED
    BY <1>7, <2>1 DEF SupplyCsv, Move, TypeOK, runVars, poolVars
<1>8. ASSUME NEW s \in Stems, DeleteCsv(s)
      PROVE  TypeOK'
  <2>1. csv' \in [Stems -> Csv \union {None}]
    BY <1>8 DEF DeleteCsv, TypeOK
  <2> QED
    BY <1>8, <2>1 DEF DeleteCsv, Move, TypeOK, runVars, poolVars
<1> QED
  BY <1>1, <1>2, <1>3, <1>4, <1>5, <1>6, <1>7, <1>8 DEF Environment

\* Type correctness is inductive.
LEMMA TypeStep ==
  ASSUME TypeOK, ControlInv, [Next]_vars
  PROVE  TypeOK'
<1>1. CASE UNCHANGED vars
  BY <1>1 DEF TypeOK, vars, diskVars, runVars, poolVars
<1>2. CASE LoadFails
  BY <1>1, <1>2 DEF LoadFails
<1>3. CASE \E stems \in NeededSets : StartRun(stems)
  BY <1>3, StartRunType
<1>4. CASE Main
  BY <1>4, MainType
<1>5. CASE \E w \in Workers : Worker(w)
  BY <1>5, WorkerType
<1>6. CASE Environment
  BY <1>6, EnvironmentType
<1> QED
  BY <1>1, <1>2, <1>3, <1>4, <1>5, <1>6 DEF Next
-----------------------------------------------------------------------------
(***************************************************************************)
(* Control.                                                                *)
(***************************************************************************)
\* The control part of the invariant, initially.
LEMMA ControlInit == Init => ControlInv
BY DEF Init, ControlInv, HoldsJob, DistinctJobs, CarriesOutcome, ExitsLate, AbortJoins,
       Quiet, AllExited, NoRepeat, StemsIn, Busy, Running, Finishing

\* What pass 1 leaves in the report and in the job list.
LEMMA StartRunWork ==
  ASSUME TypeOK, NEW stems \in NeededSets, StartRun(stems)
  PROVE  /\ NoRepeat(work')
         /\ StemsIn(work') = (stems \intersect Catalog) \ report'["cached"]
         /\ report'["cached"] \subseteq stems \intersect Catalog
         /\ report'["user_supplied"] \union report'["unfetchable"] = stems \ Catalog
         /\ report'["user_supplied"] \intersect report'["unfetchable"] = {}
         /\ \A b \in {"fetched", "unchanged", "errors"} : report'[b] = {}
         /\ \/ phase' = "finish" /\ work' = <<>> /\ pc' = pc
            \/ phase' = "recv" /\ pc' = [w \in Workers |-> "check"]
         /\ needed' = stems
         /\ UNCHANGED <<moves, day, diskVars, next, channel, job, outcome, abort>>
<1> DEFINE loaded == IF file = None THEN EmptyIndex ELSE file
           due == SweepDue(loaded)
           supplied == {s \in stems \ Catalog : csv[s] # None}
           ix == WithSupplied(loaded, supplied)
           known == stems \intersect Catalog
           skip == {s \in known : DecideAction(ix.entries[s], csv[s], due) = "Skip"}
<1>1. PICK q \in LargestFirst(known \ skip, ix) :
        work' = [i \in DOMAIN q |-> JobFor(ix, q[i], due)]
  BY DEF StartRun
<1>2. known \ skip \in SUBSET Stems
  BY StemsAssumption
<1>3. report' = [EmptyReport EXCEPT !["user_supplied"] = supplied,
                   !["unfetchable"] = (stems \ Catalog) \ supplied,
                   !["cached"] = skip]
  BY DEF StartRun
<1>4. /\ report'["cached"] = skip
      /\ report'["user_supplied"] = supplied
      /\ report'["unfetchable"] = (stems \ Catalog) \ supplied
      /\ \A b \in {"fetched", "unchanged", "errors"} : report'[b] = {}
  BY <1>3 DEF EmptyReport, Buckets
<1>5. /\ \/ known = skip /\ phase' = "finish" /\ pc' = pc
         \/ phase' = "recv" /\ pc' = [w \in Workers |-> "check"]
      /\ needed' = stems
      /\ UNCHANGED <<moves, day, diskVars, next, channel, job, outcome, abort>>
  BY DEF StartRun
<1> HIDE DEF ix, due, skip
<1>6. /\ q \in Seq(known \ skip) /\ DOMAIN q = 1 .. Len(q)
      /\ known \ skip = {q[i] : i \in DOMAIN q}
      /\ IsInjective(q)
  BY <1>2, LargestFirstType
<1>7. DOMAIN work' = DOMAIN q /\ \A i \in DOMAIN q : work'[i].stem = q[i]
  BY <1>1 DEF JobFor
<1>8. NoRepeat(work') /\ StemsIn(work') = known \ skip
  BY <1>6, <1>7 DEF NoRepeat, StemsIn, IsInjective
<1>9. known = skip => work' = <<>>
  <2> SUFFICES ASSUME known = skip PROVE work' = <<>>
    OBVIOUS
  <2>1. q \in Seq({})
    BY <1>6
  <2>2. q = <<>>
    BY <2>1
  <2> QED
    BY <1>1, <2>2
<1>10. skip \subseteq known
  BY DEF skip
<1> QED
  BY <1>4, <1>5, <1>8, <1>9, <1>10

\* A run starts with an unclaimed job list of distinct catalog stems.
LEMMA StartRunControl ==
  ASSUME TypeOK, ControlInv, NEW stems \in NeededSets, StartRun(stems)
  PROVE  ControlInv'
<1>1. phase = "idle" /\ next = 1 /\ channel = <<>> /\ ~abort
      /\ \A w \in Workers : pc[w] = "exited"
  BY DEF StartRun, ControlInv, Quiet, AbortJoins, AllExited
<1>2. \A w \in Workers : ~Busy(w)'
  BY <1>1, StartRunWork DEF Busy
<1>3. HoldsJob' /\ DistinctJobs' /\ CarriesOutcome'
  BY <1>2 DEF HoldsJob, DistinctJobs, CarriesOutcome, Busy
<1>4. next' = 1 /\ channel' = <<>> /\ ~abort'
  BY <1>1, StartRunWork
<1>5. ExitsLate'
  <2>1. CASE work' = <<>>
    BY <1>4, <2>1 DEF ExitsLate
  <2>2. CASE pc' = [w \in Workers |-> "check"]
    BY <2>2 DEF ExitsLate
  <2> QED
    BY <2>1, <2>2, StartRunWork
<1>6. AbortJoins' /\ Quiet'
  BY <1>1, <1>4, StartRunWork DEF AbortJoins, Quiet, AllExited, Finishing
<1>7. NoRepeat(work)' /\ (StemsIn(work) \subseteq Catalog)'
  BY StartRunWork
<1> QED
  BY <1>3, <1>5, <1>6, <1>7 DEF ControlInv

\* A finished call leaves nobody holding anything.
LEMMA LeaveControl ==
  ASSUME Leave
  PROVE  ControlInv'
BY DEF Leave, ControlInv, HoldsJob, DistinctJobs, CarriesOutcome, ExitsLate, AbortJoins,
       Quiet, AllExited, NoRepeat, StemsIn, Busy, Running, Finishing

\* The calling thread does not touch jobs, and leaves only a drained pool.
LEMMA MainControl ==
  ASSUME TypeOK, ControlInv, Main \/ FlushFails
  PROVE  ControlInv'
<1>1. CASE ScopeJoined \/ FinishWrite
  BY <1>1, LeaveControl DEF ScopeJoined, FinishWrite
<1>2. CASE Receive \/ SaveTruncate \/ FlushWrite \/ PoolDrained \/ FlushFails
  <2>1. UNCHANGED <<work, next, pc, job, outcome>> /\ phase # "idle" /\ phase' # "idle"
    BY <1>2 DEF Receive, SaveTruncate, FlushWrite, PoolDrained, FlushFails, Move, runVars,
                poolVars
  <2>2. HoldsJob' /\ DistinctJobs' /\ CarriesOutcome'
    BY <2>1 DEF ControlInv, HoldsJob, DistinctJobs, CarriesOutcome, Busy, JobStem
  <2>3. ExitsLate'
    BY <1>2, <2>1 DEF ControlInv, ExitsLate, Running, Receive, SaveTruncate, FlushWrite,
                      PoolDrained, FlushFails
  <2>4. AbortJoins'
    BY <1>2 DEF ControlInv, AbortJoins, Receive, SaveTruncate, FlushWrite, PoolDrained,
                FlushFails, poolVars
  <2>5. Quiet'
    <3>1. Finishing' => AllExited /\ channel = <<>> /\ channel' = channel
      BY <1>2 DEF ControlInv, Quiet, Finishing, Receive, SaveTruncate, FlushWrite,
                  PoolDrained, FlushFails, poolVars
    <3> QED
      BY <2>1, <3>1 DEF Quiet, AllExited
  <2>6. NoRepeat(work)' /\ (StemsIn(work) \subseteq Catalog)'
    BY <2>1 DEF ControlInv, NoRepeat, StemsIn
  <2> QED
    BY <2>2, <2>3, <2>4, <2>5, <2>6 DEF ControlInv
<1> QED
  BY <1>1, <1>2 DEF Main

\* Nor does the world outside, short of ending the call.
LEMMA EnvironmentControl ==
  ASSUME TypeOK, ControlInv, Environment
  PROVE  ControlInv'
<1>1. CASE Crash \/ FinishFails
  BY <1>1, LeaveControl DEF Crash, FinishFails
<1>2. CASE FlushFails
  BY <1>2, MainControl
<1>3. CASE \/ NextDay \/ DeleteIndex
           \/ \E s \in Catalog : RemoteEdit(s)
           \/ \E s \in Stems : SupplyCsv(s) \/ DeleteCsv(s)
  <2>1. UNCHANGED <<phase, runVars, poolVars>>
    BY <1>3 DEF NextDay, DeleteIndex, RemoteEdit, SupplyCsv, DeleteCsv
  <2> QED
    BY <2>1 DEF runVars, poolVars, ControlInv, HoldsJob, DistinctJobs, CarriesOutcome,
                ExitsLate, AbortJoins, Quiet, AllExited, NoRepeat, StemsIn, Busy, JobStem,
                Running, Finishing
<1> QED
  BY <1>1, <1>2, <1>3 DEF Environment

\* A claim moves the cursor past the job it takes, so nobody takes it again.
LEMMA ClaimControl ==
  ASSUME TypeOK, ControlInv, NEW w \in Workers, Claim(w), Running \/ phase = "join"
  PROVE  HoldsJob' /\ DistinctJobs' /\ CarriesOutcome' /\ ExitsLate'
<1>1. /\ pc[w] = "claim" /\ next' = next + 1 /\ work' = work /\ outcome' = outcome
      /\ \A v \in Workers \ {w} : pc'[v] = pc[v] /\ job'[v] = job[v]
      /\ \/ /\ next \in DOMAIN work /\ job'[w] = next
            /\ pc'[w] \in {"probe", "fetch"}
         \/ next \notin DOMAIN work /\ pc'[w] = "exited"
      /\ phase' = phase
  BY DEF Claim, Goto, TypeOK, runVars
<1>2. next \in Nat \ {0} /\ work \in Seq(Job) /\ job \in [Workers -> Nat]
  BY DEF TypeOK
<1>3. \A v \in Workers \ {w} : Busy(v)' <=> Busy(v)
  BY <1>1 DEF Busy
<1>4. HoldsJob'
  BY <1>1, <1>2, <1>3 DEF ControlInv, HoldsJob, Busy
<1>5. DistinctJobs'
  <2> SUFFICES ASSUME NEW u \in Workers, NEW v \in Workers, u # v, Busy(u)', Busy(v)'
               PROVE  job'[u] # job'[v]
    BY DEF DistinctJobs
  <2>1. \A x \in Workers \ {w} : Busy(x)' => job'[x] < next
    BY <1>1, <1>3 DEF ControlInv, HoldsJob
  <2>2. Busy(w)' => job'[w] = next
    BY <1>1 DEF Busy
  <2>3. CASE u = w \/ v = w
    BY <1>2, <2>1, <2>2, <2>3
  <2>4. CASE u # w /\ v # w
    BY <1>1, <1>3, <2>4 DEF ControlInv, DistinctJobs
  <2> QED
    BY <2>3, <2>4
<1>6. CarriesOutcome'
  BY <1>1 DEF ControlInv, CarriesOutcome, JobStem
<1>7. ExitsLate'
  BY <1>1, <1>2 DEF ControlInv, ExitsLate, Running
<1> QED
  BY <1>4, <1>5, <1>6, <1>7

\* A worker keeps its own job to itself, and exits only past the end of the list.
LEMMA WorkerControl ==
  ASSUME TypeOK, ControlInv, NEW w \in Workers, Worker(w)
  PROVE  ControlInv'
<1>0. /\ pc \in [Workers -> WorkerSteps]
      /\ job \in [Workers -> Nat]
      /\ outcome \in [Workers -> Message \union {None}]
      /\ abort \in BOOLEAN
  BY DEF TypeOK
<1>1. pc[w] # "exited"
  BY DEF Worker, CheckAbort, Claim, Probe, FetchOk, FetchFails, Send, Goto
<1>2. phase \notin {"idle", "finish", "finishWrite"}
  BY <1>1 DEF ControlInv, Quiet, AllExited, Finishing
<1>3. UNCHANGED <<phase, runVars, abort>>
  BY DEF Worker, CheckAbort, Claim, Probe, FetchOk, FetchFails, Send
<1>4. AbortJoins' /\ Quiet'
  BY <1>2, <1>3 DEF ControlInv, AbortJoins, Quiet, Finishing
<1>5. NoRepeat(work)' /\ (StemsIn(work) \subseteq Catalog)'
  BY <1>3 DEF ControlInv, NoRepeat, StemsIn, runVars
<1>6. HoldsJob' /\ DistinctJobs' /\ CarriesOutcome' /\ ExitsLate'
  <2>1. CASE Claim(w)
    BY <1>2, <2>1, ClaimControl DEF Running
  <2>2. CASE CheckAbort(w)
    <3>1. /\ UNCHANGED <<next, work, job, outcome>>
          /\ \A v \in Workers \ {w} : pc'[v] = pc[v]
          /\ pc'[w] = "claim" \/ (pc'[w] = "exited" /\ abort)
      <4>1. UNCHANGED <<next, work, job, outcome>>
        BY <2>2 DEF CheckAbort, runVars
      <4>2. \/ pc' = [pc EXCEPT ![w] = "claim"]
            \/ pc' = [pc EXCEPT ![w] = "exited"] /\ abort
        BY <2>2, Zenon DEF CheckAbort, Goto
      <4> QED
        BY <1>0, <4>1, <4>2
    <3>2. ~Busy(w)' /\ \A v \in Workers \ {w} : Busy(v)' <=> Busy(v)
      BY <3>1 DEF Busy
    <3>3. HoldsJob' /\ DistinctJobs'
      <4>1. HoldsJob'
        BY <3>1, <3>2 DEF ControlInv, HoldsJob
      <4>2. DistinctJobs'
        BY <3>1, <3>2 DEF ControlInv, DistinctJobs
      <4> QED
        BY <4>1, <4>2
    <3>4. CarriesOutcome'
      BY <3>1 DEF ControlInv, CarriesOutcome, JobStem
    <3>5. ExitsLate'
      BY <1>3, <3>1 DEF ControlInv, ExitsLate, AbortJoins, Running
    <3> QED
      BY <3>3, <3>4, <3>5
  <2>3. CASE Probe(w) \/ FetchOk(w) \/ FetchFails(w)
    <3>1. /\ UNCHANGED <<next, work, job>>
          /\ pc[w] \in {"probe", "fetch"}
          /\ \A v \in Workers \ {w} : pc'[v] = pc[v] /\ outcome'[v] = outcome[v]
          /\ \/ pc'[w] = "fetch"
             \/ pc'[w] = "send" /\ outcome'[w].stem = JobStem(w) /\ outcome'[w] # None
      <4>1. \A m \in Message : m # None
        BY SentinelAssumption
      <4> QED
        BY <2>3, <4>1, AnswerShape DEF TypeOK, runVars
    <3>2. \A v \in Workers : Busy(v)' <=> Busy(v)
      BY <3>1 DEF Busy
    <3>3. HoldsJob' /\ DistinctJobs'
      <4>1. HoldsJob'
        BY <3>1, <3>2 DEF ControlInv, HoldsJob
      <4>2. DistinctJobs'
        BY <3>1, <3>2 DEF ControlInv, DistinctJobs
      <4> QED
        BY <4>1, <4>2
    <3>4. CarriesOutcome'
      BY <3>1 DEF ControlInv, CarriesOutcome, JobStem
    <3>5. ExitsLate'
      BY <1>3, <3>1 DEF ControlInv, ExitsLate, Running
    <3> QED
      BY <3>3, <3>4, <3>5
  <2>4. CASE Send(w)
    <3>1. /\ UNCHANGED <<next, work>>
          /\ \A v \in Workers \ {w} : pc'[v] = pc[v] /\ job'[v] = job[v]
                                                /\ outcome'[v] = outcome[v]
          /\ pc'[w] = "check" \/ (pc'[w] = "exited" /\ phase = "join")
      <4>1. \/ pc' = [pc EXCEPT ![w] = "check"]
            \/ pc' = [pc EXCEPT ![w] = "exited"] /\ phase = "join"
        BY <2>4 DEF Send, Goto
      <4>2. /\ UNCHANGED <<next, work>>
            /\ job' = [job EXCEPT ![w] = 0]
            /\ outcome' = [outcome EXCEPT ![w] = None]
        BY <2>4 DEF Send, runVars
      <4> QED
        BY <1>0, <4>1, <4>2
    <3>2. ~Busy(w)' /\ \A v \in Workers \ {w} : Busy(v)' <=> Busy(v)
      BY <3>1 DEF Busy
    <3>3. HoldsJob' /\ DistinctJobs'
      <4>1. HoldsJob'
        BY <3>1, <3>2 DEF ControlInv, HoldsJob
      <4>2. DistinctJobs'
        BY <3>1, <3>2 DEF ControlInv, DistinctJobs
      <4> QED
        BY <4>1, <4>2
    <3>4. CarriesOutcome'
      BY <3>1 DEF ControlInv, CarriesOutcome, JobStem
    <3>5. ExitsLate'
      BY <1>3, <3>1 DEF ControlInv, ExitsLate, Running
    <3> QED
      BY <3>3, <3>4, <3>5
  <2> QED
    BY <2>1, <2>2, <2>3, <2>4 DEF Worker
<1> QED
  BY <1>4, <1>5, <1>6 DEF ControlInv
-----------------------------------------------------------------------------
(***************************************************************************)
(* Where each stem is.                                                     *)
(***************************************************************************)
\* The stems of a queue with one message more.
LEMMA AppendStems ==
  ASSUME NEW q \in Seq(Message), NEW m \in Message
  PROVE  /\ StemsIn(Append(q, m)) = StemsIn(q) \union {m.stem}
         /\ NoRepeat(q) /\ m.stem \notin StemsIn(q) => NoRepeat(Append(q, m))
<1> DEFINE r == Append(q, m)
<1>1. /\ DOMAIN r = DOMAIN q \union {Len(q) + 1}
      /\ Len(q) + 1 \notin DOMAIN q
      /\ r[Len(q) + 1] = m
      /\ \A i \in DOMAIN q : r[i] = q[i]
  OBVIOUS
<1> HIDE DEF r
<1>2. StemsIn(r) = StemsIn(q) \union {m.stem}
  BY <1>1 DEF StemsIn
<1>3. NoRepeat(q) /\ m.stem \notin StemsIn(q) => NoRepeat(r)
  BY <1>1 DEF NoRepeat, StemsIn
<1> QED
  BY <1>2, <1>3 DEF r

\* The stems of a queue without its oldest message, when no stem repeats.
LEMMA TailStems ==
  ASSUME NEW q \in Seq(Message), q # <<>>
  PROVE  /\ StemsIn(q) = StemsIn(Tail(q)) \union {Head(q).stem}
         /\ NoRepeat(q) => NoRepeat(Tail(q)) /\ Head(q).stem \notin StemsIn(Tail(q))
<1> DEFINE r == Tail(q)
<1>1. /\ Len(q) \in Nat \ {0} /\ DOMAIN q = 1 .. Len(q)
      /\ DOMAIN r = 1 .. Len(q) - 1
      /\ q[1] = Head(q)
      /\ \A i \in DOMAIN r : r[i] = q[i + 1]
  OBVIOUS
<1> HIDE DEF r
<1>2. \A i \in DOMAIN r : i + 1 \in DOMAIN q /\ i + 1 # 1 /\ 1 \in DOMAIN q
  BY <1>1
<1>3. StemsIn(q) = StemsIn(r) \union {Head(q).stem}
  <2>1. ASSUME NEW i \in DOMAIN q
        PROVE  q[i].stem \in StemsIn(r) \union {Head(q).stem}
    <3>1. CASE i = 1
      BY <1>1, <3>1
    <3>2. CASE i # 1
      <4>1. i - 1 \in DOMAIN r /\ (i - 1) + 1 = i
        BY <1>1, <3>2
      <4>2. r[i - 1] = q[i]
        BY <1>1, <4>1
      <4> QED
        BY <4>1, <4>2 DEF StemsIn
    <3> QED
      BY <3>1, <3>2
  <2>2. StemsIn(r) \union {Head(q).stem} \subseteq StemsIn(q)
    BY <1>1, <1>2 DEF StemsIn
  <2> QED
    BY <2>1, <2>2 DEF StemsIn
<1>4. ASSUME NoRepeat(q)
      PROVE  NoRepeat(r) /\ Head(q).stem \notin StemsIn(r)
  <2>1. ASSUME NEW i \in DOMAIN r, NEW j \in DOMAIN r, i # j
        PROVE  r[i].stem # r[j].stem
    <3>1. i + 1 \in DOMAIN q /\ j + 1 \in DOMAIN q /\ i + 1 # j + 1
      BY <1>1, <2>1
    <3> QED
      BY <1>1, <1>4, <3>1 DEF NoRepeat
  <2>2. \A i \in DOMAIN r : r[i].stem # Head(q).stem
    BY <1>1, <1>2, <1>4 DEF NoRepeat
  <2> QED
    BY <2>1, <2>2 DEF NoRepeat, StemsIn
<1> QED
  BY <1>3, <1>4 DEF r

\* What a step of a worker can do to the whereabouts of stems.
LEMMA WorkerMoves ==
  ASSUME TypeOK, ControlInv, NEW w \in Workers, Worker(w)
  PROVE  /\ UNCHANGED <<phase, needed, work, report>>
         /\ \A v \in Workers \ {w} : (Busy(v)' <=> Busy(v)) /\ job'[v] = job[v]
         /\ \/ /\ UNCHANGED <<next, job, channel>>
               /\ Busy(w)' <=> Busy(w)
            \/ /\ Claim(w)
               /\ channel' = channel
               /\ next' = next + 1
               /\ ~Busy(w)
               /\ Busy(w)' => next \in DOMAIN work
               /\ next \in DOMAIN work => Busy(w)' /\ job'[w] = next
            \/ /\ Send(w)
               /\ next' = next
               /\ Busy(w)
               /\ ~Busy(w)'
               /\ phase # "join" => channel' = Append(channel, outcome[w])
               /\ phase = "join" => channel' = channel
<1>0. /\ pc \in [Workers -> WorkerSteps]
      /\ job \in [Workers -> Nat]
  BY DEF TypeOK
<1>1. UNCHANGED <<phase, needed, work, report>>
  BY DEF Worker, CheckAbort, Claim, Probe, FetchOk, FetchFails, Send, runVars
<1>2. CASE CheckAbort(w)
  <2>1. /\ UNCHANGED <<next, job, channel>>
        /\ pc[w] = "check"
        /\ pc' = [pc EXCEPT ![w] = "claim"] \/ pc' = [pc EXCEPT ![w] = "exited"]
    BY <1>2 DEF CheckAbort, Goto
  <2> QED
    BY <1>0, <1>1, <2>1 DEF Busy
<1>3. CASE Claim(w)
  BY <1>0, <1>1, <1>3 DEF Claim, Goto, Busy
<1>4. CASE Send(w)
  <2>1. /\ pc[w] = "send"
        /\ pc' = [pc EXCEPT ![w] = "check"] \/ pc' = [pc EXCEPT ![w] = "exited"]
        /\ job' = [job EXCEPT ![w] = 0]
        /\ next' = next
        /\ phase # "join" => channel' = Append(channel, outcome[w])
        /\ phase = "join" => channel' = channel
    BY <1>4 DEF Send, Goto
  <2> QED
    BY <1>0, <1>1, <1>4, <2>1 DEF Busy
<1>5. CASE Probe(w) \/ FetchOk(w) \/ FetchFails(w)
  BY <1>0, <1>1, <1>5, AnswerShape DEF Busy
<1> QED
  BY <1>2, <1>3, <1>4, <1>5 DEF Worker

\* Place and cover, initially.
LEMMA PlaceInit == Init => PlaceInv /\ CoverInv
BY DEF Init, PlaceInv, CoverInv, Unclaimed, InHand, BucketsDisjoint, NoRepeat, ChannelStems,
       StemsIn, Reported, EmptyReport, Busy, Running

\* A finished call leaves no stem anywhere.
LEMMA LeavePlace ==
  ASSUME Leave
  PROVE  PlaceInv' /\ CoverInv'
<1>1. ChannelStems' = {} /\ NoRepeat(channel)' /\ work' = <<>> /\ phase' = "idle"
  BY DEF Leave, ChannelStems, StemsIn, NoRepeat
<1>2. \A w \in Workers : pc'[w] = "exited"
  BY DEF Leave
<1>3. BucketsDisjoint'
  BY DEF Leave, EmptyReport, BucketsDisjoint
<1> QED
  BY <1>1, <1>2, <1>3 DEF PlaceInv, CoverInv, Unclaimed, InHand, Busy, Running

\* Pass 1 puts every needed stem in one bucket or in the job list.
LEMMA StartRunPlace ==
  ASSUME TypeOK, ControlInv, NEW stems \in NeededSets, StartRun(stems)
  PROVE  PlaceInv' /\ CoverInv'
<1>1. phase = "idle" /\ next = 1 /\ channel = <<>>
      /\ \A w \in Workers : pc[w] = "exited"
  BY DEF StartRun, ControlInv, Quiet, AllExited
<1>2. next' = 1 /\ channel' = <<>> /\ \A w \in Workers : ~Busy(w)'
  BY <1>1, StartRunWork DEF Busy
<1>3. ChannelStems' = {} /\ NoRepeat(channel)'
  BY <1>2 DEF ChannelStems, StemsIn, NoRepeat
<1>4. Reported' = report'["cached"] \union (stems \ Catalog)
  <2>1. Reported' = UNION {report'["fetched"], report'["unchanged"], report'["errors"],
                           report'["cached"], report'["user_supplied"],
                           report'["unfetchable"]}
    BY DEF Reported, Buckets
  <2> QED
    BY <2>1, StartRunWork
<1>5. StemsIn(work)' \intersect Reported' = {}
  BY <1>4, StartRunWork
<1>6. Unclaimed' /\ InHand'
  BY <1>2, <1>3, <1>5 DEF Unclaimed, InHand, StemsIn
<1>7. BucketsDisjoint'
  <2>1. /\ \A b \in {"fetched", "unchanged", "errors"} : report'[b] = {}
        /\ report'["user_supplied"] \intersect report'["unfetchable"] = {}
        /\ report'["cached"] \intersect report'["unfetchable"] = {}
        /\ report'["cached"] \intersect report'["user_supplied"] = {}
    BY StartRunWork
  <2> QED
    BY <2>1 DEF BucketsDisjoint, Buckets
<1>8. CoverInv'
  <2>1. needed' = Reported' \union ChannelStems' \union StemsIn(work)'
    BY <1>3, <1>4, StartRunWork
  <2>2. Accounted'
    <3>1. work' \in Seq(Job)
      BY StartRunType DEF TypeOK
    <3> QED
      BY <1>2, <3>1 DEF Accounted
  <2> QED
    BY <2>1, <2>2 DEF CoverInv
<1> QED
  BY <1>3, <1>6, <1>7, <1>8 DEF PlaceInv

\* Receiving moves the stem of the oldest message from the queue to a bucket.
LEMMA ReceivePlace ==
  ASSUME TypeOK, ControlInv, PlaceInv, CoverInv, Receive
  PROVE  PlaceInv' /\ CoverInv'
<1> DEFINE m == Head(channel)
<1>1. PICK b \in Buckets : report' = [report EXCEPT ![b] = @ \union {m.stem}]
  BY DEF Receive, Buckets
<1>2. channel \in Seq(Message) /\ channel # <<>> /\ report \in [Buckets -> SUBSET Stems]
  BY DEF Receive, TypeOK
<1>3. UNCHANGED <<needed, work, next, pc, job>> /\ phase = "recv" /\ channel' = Tail(channel)
  BY DEF Receive, runVars
<1>4. NoRepeat(channel)
  BY DEF PlaceInv
<1>5. /\ ChannelStems = ChannelStems' \union {m.stem}
      /\ NoRepeat(channel)'
      /\ m.stem \notin ChannelStems'
  BY <1>2, <1>3, <1>4, TailStems DEF ChannelStems
<1> HIDE DEF m
<1>6. Reported' = Reported \union {m.stem} /\ m.stem \notin Reported
  <2>1. Reported' = Reported \union {m.stem}
    BY <1>1, <1>2 DEF Reported
  <2>2. m.stem \notin Reported
    BY <1>5 DEF PlaceInv
  <2> QED
    BY <2>1, <2>2
<1>7. ChannelStems' \union Reported' = ChannelStems \union Reported
  BY <1>5, <1>6
<1>8. Unclaimed' /\ InHand'
  BY <1>3, <1>7 DEF PlaceInv, Unclaimed, InHand, Busy, JobStem
<1>9. ChannelStems' \intersect Reported' = {}
  BY <1>5, <1>6 DEF PlaceInv
<1>10. BucketsDisjoint'
  <2>1. \A a \in Buckets : m.stem \notin report[a]
    BY <1>6 DEF Reported
  <2>2. \A a \in Buckets : report'[a] = report[a] \/ (a = b /\ report'[a] = report[a] \union {m.stem})
    BY <1>1, <1>2
  <2> QED
    BY <2>1, <2>2 DEF PlaceInv, BucketsDisjoint
<1>11. CoverInv'
  <2>1. Running /\ StemsIn(work)' = StemsIn(work)
    BY <1>3 DEF Running, StemsIn
  <2>2. needed' = Reported' \union ChannelStems' \union StemsIn(work)'
    BY <1>3, <1>7, <2>1 DEF CoverInv
  <2>3. Accounted'
    BY <1>3, <1>7, <2>1 DEF CoverInv, Accounted, Busy
  <2> QED
    BY <2>2, <2>3 DEF CoverInv
<1> QED
  BY <1>5, <1>8, <1>9, <1>10, <1>11 DEF PlaceInv

\* A step of the calling thread moves at most one stem, from queue to bucket.
LEMMA MainPlace ==
  ASSUME TypeOK, ControlInv, PlaceInv, CoverInv, Main \/ FlushFails
  PROVE  PlaceInv' /\ CoverInv'
<1>1. CASE ScopeJoined \/ FinishWrite
  BY <1>1, LeavePlace DEF ScopeJoined, FinishWrite
<1>2. CASE Receive
  BY <1>2, ReceivePlace
<1>3. CASE SaveTruncate \/ FlushWrite \/ PoolDrained
  <2>1. UNCHANGED <<needed, work, report, next, channel, pc, job>> /\ Running
    BY <1>3 DEF SaveTruncate, FlushWrite, PoolDrained, runVars, poolVars, Running
  <2> QED
    BY <2>1 DEF PlaceInv, CoverInv, Unclaimed, InHand, BucketsDisjoint, Accounted,
                NoRepeat, ChannelStems, StemsIn, Reported, Busy, JobStem
<1>4. CASE FlushFails
  <2>1. /\ UNCHANGED <<work, report, next, pc, job>>
        /\ channel' = <<>>
        /\ phase' = "join"
    BY <1>4 DEF FlushFails, runVars
  <2>2. ChannelStems' = {} /\ NoRepeat(channel)' /\ ~Running'
    BY <2>1 DEF ChannelStems, StemsIn, NoRepeat, Running
  <2>3. Reported' = Reported /\ BucketsDisjoint'
    BY <2>1 DEF Reported, BucketsDisjoint, PlaceInv
  <2>4. Unclaimed' /\ InHand'
    BY <2>1, <2>2, <2>3 DEF PlaceInv, Unclaimed, InHand, Busy, JobStem
  <2> QED
    BY <2>2, <2>3, <2>4 DEF PlaceInv, CoverInv
<1> QED
  BY <1>1, <1>2, <1>3, <1>4 DEF Main

\* The world outside moves no stem; an abort drops the queue, with no claim on cover.
LEMMA EnvironmentPlace ==
  ASSUME TypeOK, ControlInv, PlaceInv, CoverInv, Environment
  PROVE  PlaceInv' /\ CoverInv'
<1>1. CASE Crash \/ FinishFails
  BY <1>1, LeavePlace DEF Crash, FinishFails
<1>2. CASE FlushFails
  BY <1>2, MainPlace
<1>3. CASE \/ NextDay \/ DeleteIndex
           \/ \E s \in Catalog : RemoteEdit(s)
           \/ \E s \in Stems : SupplyCsv(s) \/ DeleteCsv(s)
  <2>1. UNCHANGED <<phase, runVars, report, poolVars>>
    BY <1>3 DEF NextDay, DeleteIndex, RemoteEdit, SupplyCsv, DeleteCsv
  <2> QED
    BY <2>1 DEF runVars, poolVars, PlaceInv, CoverInv, Unclaimed, InHand, BucketsDisjoint,
                Accounted, NoRepeat, ChannelStems, StemsIn, Reported, Busy, JobStem, Running
<1> QED
  BY <1>1, <1>2, <1>3 DEF Environment

\* A claim turns an unclaimed stem into one in hand.
LEMMA ClaimPlace ==
  ASSUME TypeOK, ControlInv, PlaceInv, CoverInv, NEW w \in Workers, Worker(w), Claim(w)
  PROVE  PlaceInv' /\ CoverInv'
<1>1. /\ UNCHANGED <<phase, needed, work, report, channel>>
      /\ next' = next + 1 /\ next \in Nat \ {0} /\ work \in Seq(Job)
      /\ \A v \in Workers \ {w} : (Busy(v)' <=> Busy(v)) /\ job'[v] = job[v]
      /\ ~Busy(w)
      /\ Busy(w)' => next \in DOMAIN work
      /\ next \in DOMAIN work => Busy(w)' /\ job'[w] = next
  BY WorkerMoves DEF TypeOK, Claim, Goto, Send, Busy
<1>2. ChannelStems' = ChannelStems /\ Reported' = Reported /\ NoRepeat(channel)'
      /\ BucketsDisjoint' /\ StemsIn(work)' = StemsIn(work)
  BY <1>1 DEF ChannelStems, StemsIn, Reported, NoRepeat, BucketsDisjoint, PlaceInv
<1>3. Unclaimed'
  BY <1>1, <1>2 DEF PlaceInv, Unclaimed
<1>4. InHand'
  <2> SUFFICES ASSUME NEW v \in Workers, Busy(v)'
               PROVE  JobStem(v)' \notin ChannelStems \union Reported
    BY <1>2 DEF InHand
  <2>1. CASE v = w
    BY <1>1, <2>1 DEF PlaceInv, Unclaimed, JobStem
  <2>2. CASE v # w
    BY <1>1, <2>2 DEF PlaceInv, InHand, JobStem
  <2> QED
    BY <2>1, <2>2
<1>5. CoverInv'
  <2> SUFFICES ASSUME Running, CoverInv, NEW k \in DOMAIN work, k < next'
               PROVE  \/ work[k].stem \in ChannelStems \union Reported
                      \/ \E v \in Workers : Busy(v)' /\ job'[v] = k
    BY <1>1, <1>2 DEF CoverInv, Accounted, Running
  <2>1. CASE k = next
    BY <1>1, <2>1
  <2>2. CASE k < next
    <3>1. \/ work[k].stem \in ChannelStems \union Reported
          \/ \E v \in Workers : Busy(v) /\ job[v] = k
      BY <2>2 DEF CoverInv, Accounted
    <3> QED
      BY <1>1, <3>1
  <2> QED
    BY <1>1, <2>1, <2>2
<1> QED
  BY <1>2, <1>3, <1>4, <1>5 DEF PlaceInv

\* A send moves the stem in hand to the queue.
LEMMA SendPlace ==
  ASSUME TypeOK, ControlInv, PlaceInv, CoverInv, NEW w \in Workers, Worker(w), Send(w)
  PROVE  PlaceInv' /\ CoverInv'
<1>1. /\ UNCHANGED <<phase, needed, work, report, next>>
      /\ work \in Seq(Job) /\ next \in Nat
      /\ \A v \in Workers \ {w} : (Busy(v)' <=> Busy(v)) /\ job'[v] = job[v]
      /\ Busy(w) /\ ~Busy(w)'
      /\ phase # "join" => channel' = Append(channel, outcome[w])
      /\ phase = "join" => channel' = channel
  <2>1. work \in Seq(Job) /\ next \in Nat
    BY DEF TypeOK
  <2>2. ~Claim(w) /\ Busy(w)
    BY DEF Claim, Send, Goto, Busy
  <2>3. ~Busy(w)'
    BY DEF Send, Goto, TypeOK, Busy
  <2> QED
    BY <2>1, <2>2, <2>3, WorkerMoves
<1>2. outcome[w] \in Message /\ outcome[w].stem = JobStem(w) /\ channel \in Seq(Message)
  BY DEF TypeOK, ControlInv, CarriesOutcome, Send, Goto
<1>3. Reported' = Reported /\ BucketsDisjoint' /\ StemsIn(work)' = StemsIn(work)
  BY <1>1 DEF Reported, BucketsDisjoint, PlaceInv, StemsIn
<1>4. JobStem(w) \notin ChannelStems \union Reported
  BY <1>1 DEF PlaceInv, InHand
<1>5. CASE phase = "join"
  <2>1. ChannelStems' = ChannelStems /\ NoRepeat(channel)'
    BY <1>1, <1>5 DEF ChannelStems, StemsIn, NoRepeat, PlaceInv
  <2>2. Unclaimed' /\ ~Running'
    BY <1>1, <1>3, <1>5, <2>1 DEF PlaceInv, Unclaimed, Running
  <2>3. InHand'
    BY <1>1, <1>3, <2>1 DEF PlaceInv, InHand, JobStem
  <2> QED
    BY <1>3, <2>1, <2>2, <2>3 DEF PlaceInv, CoverInv
<1>6. CASE phase # "join"
  <2>1. ChannelStems' = ChannelStems \union {JobStem(w)} /\ NoRepeat(channel)'
    BY <1>1, <1>2, <1>4, <1>6, AppendStems DEF ChannelStems, PlaceInv
  <2>2. /\ job[w] \in DOMAIN work /\ job[w] < next
        /\ JobStem(w) = work[job[w]].stem
        /\ \A k \in DOMAIN work : k # job[w] => work[k].stem # JobStem(w)
    BY <1>1 DEF ControlInv, HoldsJob, NoRepeat, JobStem
  <2>3. Unclaimed'
    <3> SUFFICES ASSUME NEW k \in DOMAIN work, next <= k
                 PROVE  work[k].stem \notin ChannelStems' \union Reported
      BY <1>1, <1>3 DEF Unclaimed
    <3>1. k # job[w]
      BY <1>1, <2>2
    <3> QED
      BY <2>1, <2>2, <3>1 DEF PlaceInv, Unclaimed
  <2>4. InHand'
    <3> SUFFICES ASSUME NEW v \in Workers \ {w}, Busy(v)
                 PROVE  JobStem(v) \notin ChannelStems' \union Reported
      BY <1>1, <1>3 DEF InHand, JobStem
    <3>1. job[v] # job[w] /\ job[v] \in DOMAIN work
      BY <1>1 DEF ControlInv, DistinctJobs, HoldsJob
    <3>2. JobStem(v) # JobStem(w)
      BY <2>2, <3>1 DEF JobStem
    <3> QED
      BY <2>1, <3>2 DEF PlaceInv, InHand
  <2>5. ChannelStems' \intersect Reported' = {}
    BY <1>3, <1>4, <2>1 DEF PlaceInv
  <2>6. CoverInv'
    <3> SUFFICES ASSUME Running PROVE CoverInv'
      BY <1>1 DEF CoverInv, Running
    <3>1. needed' = Reported' \union ChannelStems' \union StemsIn(work)'
      <4>1. JobStem(w) \in StemsIn(work)
        BY <2>2 DEF StemsIn
      <4> QED
        BY <1>1, <1>3, <2>1, <4>1 DEF CoverInv
    <3>2. ASSUME NEW k \in DOMAIN work, k < next
          PROVE  \/ work[k].stem \in ChannelStems' \union Reported
                 \/ \E v \in Workers : Busy(v)' /\ job'[v] = k
      <4>1. \/ work[k].stem \in ChannelStems \union Reported
            \/ \E v \in Workers : Busy(v) /\ job[v] = k
        BY <3>2 DEF CoverInv, Accounted
      <4> QED
        BY <1>1, <2>1, <2>2, <4>1
    <3> QED
      BY <1>1, <1>3, <3>1, <3>2 DEF CoverInv, Accounted
  <2> QED
    BY <1>3, <2>1, <2>3, <2>4, <2>5, <2>6 DEF PlaceInv
<1> QED
  BY <1>5, <1>6

\* Every step of a worker keeps place and cover.
LEMMA WorkerPlace ==
  ASSUME TypeOK, ControlInv, PlaceInv, CoverInv, NEW w \in Workers, Worker(w)
  PROVE  PlaceInv' /\ CoverInv'
<1>1. CASE Claim(w)
  BY <1>1, ClaimPlace
<1>2. CASE Send(w)
  BY <1>2, SendPlace
<1>3. CASE ~Claim(w) /\ ~Send(w)
  <2>1. /\ UNCHANGED <<phase, needed, work, report, next, job, channel>>
        /\ \A v \in Workers : Busy(v)' <=> Busy(v)
    BY <1>3, WorkerMoves
  <2>2. /\ ChannelStems' = ChannelStems /\ Reported' = Reported /\ NoRepeat(channel)'
        /\ BucketsDisjoint' /\ StemsIn(work)' = StemsIn(work)
        /\ Running' <=> Running
    BY <2>1 DEF ChannelStems, StemsIn, Reported, NoRepeat, BucketsDisjoint, PlaceInv, Running
  <2>3. Unclaimed' /\ InHand'
    BY <2>1, <2>2 DEF PlaceInv, Unclaimed, InHand, JobStem
  <2>4. CoverInv'
    BY <2>1, <2>2 DEF CoverInv, Accounted
  <2> QED
    BY <2>2, <2>3, <2>4 DEF PlaceInv
<1> QED
  BY <1>1, <1>2, <1>3
-----------------------------------------------------------------------------
(***************************************************************************)
(* Freshness.                                                              *)
(***************************************************************************)

\* What every step inside a run does to the CSVs: it keeps them, or renames a
\* new one into place today.
KeepsFresh ==
  /\ day' = day
  /\ \A s \in Catalog :
       csv'[s] = csv[s] \/ (csv'[s] # None /\ csv'[s].at = day)

\* A CSV stays fresh when nothing changes, or when CSVs are only replaced by newer ones.
LEMMA FreshKept ==
  ASSUME KeepsFresh
  PROVE  /\ \A s \in Catalog : Fresh(s) => Fresh(s)'
         /\ \A m : Truthful(m) => Truthful(m)'
<1>1. \A s \in Catalog : Fresh(s) => Fresh(s)'
  BY DEF KeepsFresh, Fresh
<1>2. ASSUME NEW m, Truthful(m)
      PROVE  Truthful(m)'
  <2>1. m.stem \in Catalog
    BY <1>2 DEF Truthful
  <2>2. m.kind = "Fetched" => csv'[m.stem] # None /\ csv'[m.stem].at = day'
    BY <1>2, <2>1 DEF Truthful, KeepsFresh
  <2>3. m.kind = "Unchanged" => Fresh(m.stem)'
    BY <1>1, <1>2, <2>1 DEF Truthful
  <2> QED
    BY <2>1, <2>2, <2>3 DEF Truthful
<1> QED
  BY <1>1, <1>2

\* An index keeps being backed as its CSVs are replaced by newer ones.
LEMMA BackedKept ==
  ASSUME TypeOK, KeepsFresh, NEW ix \in Index, BackedBy(ix)
  PROVE  \A s \in Catalog : ix.entries[s] # None =>
           /\ ix.entries[s].fetched <= day'
           /\ csv'[s] # None => csv'[s].at >= ix.entries[s].fetched
<1> SUFFICES ASSUME NEW s \in Catalog, ix.entries[s] # None
             PROVE  /\ ix.entries[s].fetched <= day'
                    /\ csv'[s] # None => csv'[s].at >= ix.entries[s].fetched
  OBVIOUS
<1>1. ix.entries[s] \in Entry /\ day \in Nat
  BY StemsAssumption DEF Index, TypeOK
<1>2. ix.entries[s].fetched \in Nat
  BY <1>1 DEF Entry
<1>3. /\ ix.entries[s].fetched <= day
      /\ csv[s] # None => csv[s].at >= ix.entries[s].fetched
  BY DEF BackedBy
<1> QED
  BY <1>1, <1>2, <1>3 DEF KeepsFresh

\* The cooldown test: what pass 1 does not fetch has a fresh CSV.
LEMMA DecidedFresh ==
  ASSUME TypeOK, NEW ix \in Index, BackedBy(ix), NEW s \in Catalog, NEW due,
         DecideAction(ix.entries[s], csv[s], due) # "Fetch"
  PROVE  Fresh(s)
<1>1. /\ ix.entries[s] # None /\ csv[s] # None
      /\ ~(day - ix.entries[s].fetched >= DatasetCooldown)
  BY DEF DecideAction
<1>2. ix.entries[s].fetched \in Nat /\ csv[s].at \in Nat /\ day \in Nat
  BY <1>1, StemsAssumption DEF Index, Entry, TypeOK, Csv
<1>3. csv[s].at >= ix.entries[s].fetched
  BY <1>1 DEF BackedBy
<1> QED
  BY <1>1, <1>2, <1>3, NumbersAssumption DEF Fresh

\* Freshness, initially.
LEMMA FreshInit == Init => FreshInv
<1> SUFFICES ASSUME Init PROVE FreshInv
  OBVIOUS
<1>1. \A s \in Catalog : index.entries[s] = None
  BY StemsAssumption DEF Init, EmptyIndex, NoEntries
<1>2. EntriesBacked
  BY <1>1 DEF Init, EntriesBacked, BackedBy
<1>3. ReportFresh
  BY DEF Init, ReportFresh, EmptyReport, Buckets
<1> QED
  BY <1>2, <1>3 DEF Init, FreshInv, ProbesFresh, AnswersTrue, QueueTrue

\* The end of a call drops everything but the files.
LEMMA LeaveFresh ==
  ASSUME Leave, file' \notin {None, Torn} => BackedBy(file)'
  PROVE  FreshInv'
<1>1. \A s \in Catalog : index'.entries[s] = None
  BY StemsAssumption DEF Leave, EmptyIndex, NoEntries
<1>2. EntriesBacked'
  BY <1>1 DEF EntriesBacked, BackedBy
<1>3. ReportFresh'
  BY DEF Leave, ReportFresh, EmptyReport, Buckets
<1> QED
  BY <1>2, <1>3 DEF Leave, FreshInv, ProbesFresh, AnswersTrue, QueueTrue

\* Pass 1: what is probed or skipped is fresh, and the index is still backed.
LEMMA StartRunFresh ==
  ASSUME TypeOK, ControlInv, FreshInv, NEW stems \in NeededSets, StartRun(stems)
  PROVE  FreshInv'
<1> DEFINE loaded == IF file = None THEN EmptyIndex ELSE file
           due == SweepDue(loaded)
           supplied == {s \in stems \ Catalog : csv[s] # None}
           ix == WithSupplied(loaded, supplied)
           known == stems \intersect Catalog
           skip == {s \in known : DecideAction(ix.entries[s], csv[s], due) = "Skip"}
<1>1. loaded \in Index /\ due \in BOOLEAN
  BY EmptyIndexType DEF StartRun, TypeOK, SweepDue
<1>2. supplied \in SUBSET Stems /\ supplied \intersect Catalog = {}
      /\ \A s \in supplied : csv[s] # None
  BY StemsAssumption
<1>3. BackedBy(loaded)
  <2>1. CASE file = None
    BY <2>1, StemsAssumption DEF BackedBy, EmptyIndex, NoEntries
  <2>2. CASE file # None
    BY <2>2 DEF FreshInv, EntriesBacked, StartRun
  <2> QED
    BY <2>1, <2>2
<1>4. /\ UNCHANGED <<day, csv, file, channel>>
      /\ phase = "idle"
      /\ index' \in {ix, Stamped(ix, due)}
      /\ report'["cached"] = skip
      /\ phase' # "idle"
  BY DEF StartRun, diskVars, EmptyReport, Buckets
<1>5. PICK q \in LargestFirst(known \ skip, ix) :
        work' = [i \in DOMAIN q |-> JobFor(ix, q[i], due)]
  BY DEF StartRun
<1> HIDE DEF loaded, due
<1>6. ix \in Index /\ \A s \in Catalog : ix.entries[s] = loaded.entries[s]
  <2> HIDE DEF supplied
  <2> QED
    BY <1>1, <1>2, WithSuppliedType, StemsAssumption
<1> HIDE DEF ix, supplied
<1>7. BackedBy(ix)
  BY <1>3, <1>6 DEF BackedBy
<1>8. EntriesBacked'
  <2>1. index'.entries = ix.entries
    BY <1>1, <1>4, <1>6, StampedType
  <2> QED
    BY <1>4, <1>7, <2>1 DEF EntriesBacked, BackedBy, FreshInv
<1>9. known \ skip \in SUBSET Stems /\ known \subseteq Catalog
  BY StemsAssumption
<1> HIDE DEF known
<1>10. ProbesFresh'
  <2>1. q \in Seq(known \ skip) /\ DOMAIN q = 1 .. Len(q)
    BY <1>9, LargestFirstType
  <2>2. ASSUME NEW k \in DOMAIN work', work'[k].action = "Probe"
        PROVE  Fresh(work'[k].stem)
    <3>1. k \in DOMAIN q /\ work'[k] = JobFor(ix, q[k], due)
      BY <1>5, <2>2
    <3>2. q[k] \in Catalog /\ work'[k].stem = q[k]
          /\ work'[k].action = DecideAction(ix.entries[q[k]], csv[q[k]], due)
      BY <1>9, <2>1, <3>1 DEF JobFor
    <3> QED
      BY <1>6, <1>7, <2>2, <3>2, DecidedFresh
  <2> QED
    BY <1>4, <2>2 DEF ProbesFresh, Fresh
<1>11. ReportFresh'
  <2>1. \A s \in skip : s \in Catalog /\ Fresh(s)
    BY <1>6, <1>7, <1>9, DecidedFresh
  <2>2. /\ report'["fetched"] = {} /\ report'["unchanged"] = {}
        /\ report'["user_supplied"] \union report'["unfetchable"] = stems \ Catalog
    BY StartRunWork
  <2> QED
    BY <1>4, <2>1, <2>2 DEF ReportFresh, Fresh
<1>12. AnswersTrue'
  BY <1>4, StartRunWork DEF AnswersTrue, ControlInv, Quiet, AllExited
<1>13. QueueTrue'
  BY <1>4 DEF QueueTrue, ControlInv, Quiet
<1> QED
  BY <1>8, <1>10, <1>11, <1>12, <1>13 DEF FreshInv

\* The entry made from a truthful message is backed, and its bucket is right.
LEMMA ReceiveFresh ==
  ASSUME TypeOK, ControlInv, FreshInv, Receive
  PROVE  FreshInv'
<1> DEFINE m == Head(channel)
<1>1. /\ UNCHANGED <<day, csv, file, work, pc, job, outcome>>
      /\ channel # <<>> /\ channel' = Tail(channel) /\ phase' # "idle"
  BY DEF Receive, runVars, diskVars
<1>2. m \in Message /\ m = channel[1] /\ 1 \in DOMAIN channel
  BY <1>1 DEF TypeOK
<1>3. Truthful(m) /\ m.stem \in Catalog
  BY <1>2 DEF FreshInv, QueueTrue, Truthful
<1>4. day \in Nat /\ index \in Index /\ BackedBy(index) /\ report \in [Buckets -> SUBSET Stems]
  BY DEF TypeOK, FreshInv, EntriesBacked
<1> HIDE DEF m
<1>5. \/ /\ index' = index
         /\ m.kind = "Unchanged"
         /\ report' = [report EXCEPT !["unchanged"] = @ \union {m.stem}]
      \/ /\ index' = index
         /\ report' = [report EXCEPT !["errors"] = @ \union {m.stem}]
      \/ /\ m.kind = "Fetched"
         /\ index' = [index EXCEPT !.entries[m.stem] =
                         [rows |-> m.rows, fetched |-> day, checked |-> day]]
         /\ report' = [report EXCEPT !["fetched"] = @ \union {m.stem}]
      \/ /\ m.kind = "Unchanged"
         /\ index.entries[m.stem] # None
         /\ index' = [index EXCEPT !.entries[m.stem] =
                         [index.entries[m.stem] EXCEPT !.checked = day]]
         /\ report' = [report EXCEPT !["unchanged"] = @ \union {m.stem}]
  BY DEF Receive, m
<1>6. BackedBy(index)'
  <2>1. CASE index' = index
    BY <1>1, <1>4, <2>1 DEF BackedBy
  <2>2. CASE /\ m.kind = "Fetched"
             /\ index' = [index EXCEPT !.entries[m.stem] =
                            [rows |-> m.rows, fetched |-> day, checked |-> day]]
    <3>1. /\ \A s \in Catalog \ {m.stem} : index'.entries[s] = index.entries[s]
          /\ index'.entries[m.stem].fetched = day
      BY <1>3, <1>4, <2>2, StemsAssumption DEF Index
    <3>2. csv[m.stem].at = day
      BY <1>3, <2>2 DEF Truthful
    <3> QED
      BY <1>1, <1>4, <3>1, <3>2 DEF BackedBy
  <2>3. CASE /\ index.entries[m.stem] # None
             /\ index' = [index EXCEPT !.entries[m.stem] =
                            [index.entries[m.stem] EXCEPT !.checked = day]]
    <3>1. index.entries[m.stem] \in Entry
      BY <1>3, <1>4, <2>3, StemsAssumption DEF Index
    <3>2. /\ \A s \in Catalog \ {m.stem} : index'.entries[s] = index.entries[s]
          /\ index'.entries[m.stem].fetched = index.entries[m.stem].fetched
      BY <1>3, <1>4, <2>3, <3>1, StemsAssumption DEF Index, Entry
    <3> QED
      BY <1>1, <1>4, <2>3, <3>2 DEF BackedBy
  <2> QED
    BY <1>5, <2>1, <2>2, <2>3
<1>7. EntriesBacked'
  BY <1>1, <1>6 DEF EntriesBacked, BackedBy, FreshInv
<1>8. ReportFresh'
  <2>1. m.kind \in {"Fetched", "Unchanged"} => Fresh(m.stem)
    BY <1>3 DEF Truthful, Fresh
  <2>2. /\ report'["cached"] = report["cached"]
        /\ report'["user_supplied"] = report["user_supplied"]
        /\ report'["unfetchable"] = report["unfetchable"]
        /\ \A b \in {"fetched", "unchanged"} :
             \/ report'[b] = report[b]
             \/ report'[b] = report[b] \union {m.stem} /\ m.kind \in {"Fetched", "Unchanged"}
    BY <1>4, <1>5 DEF Buckets
  <2> QED
    BY <1>1, <1>3, <2>1, <2>2 DEF ReportFresh, Fresh, FreshInv
<1>9. QueueTrue'
  <2>1. \A i \in DOMAIN channel' : \E j \in DOMAIN channel : channel'[i] = channel[j]
    <3>1. channel \in Seq(Message)
      BY DEF TypeOK
    <3>2. ASSUME NEW i \in DOMAIN channel'
          PROVE  i + 1 \in DOMAIN channel /\ channel'[i] = channel[i + 1]
      BY <1>1, <3>1, <3>2
    <3> QED
      BY <3>2
  <2> QED
    BY <1>1, <2>1 DEF QueueTrue, FreshInv, Truthful, Fresh
<1> QED
  BY <1>1, <1>7, <1>8, <1>9 DEF FreshInv, ProbesFresh, AnswersTrue, Truthful, Fresh

\* A step of the calling thread keeps freshness.
LEMMA MainFresh ==
  ASSUME TypeOK, ControlInv, FreshInv, Main \/ FlushFails
  PROVE  FreshInv'
<1>1. CASE Receive
  BY <1>1, ReceiveFresh
<1>2. CASE ScopeJoined
  BY <1>2, LeaveFresh DEF ScopeJoined, diskVars, FreshInv, EntriesBacked, BackedBy
<1>3. CASE FinishWrite
  BY <1>3, LeaveFresh DEF FinishWrite, FreshInv, EntriesBacked, BackedBy
<1>4. CASE SaveTruncate \/ FlushWrite \/ PoolDrained \/ FlushFails
  <2>1. /\ UNCHANGED <<day, csv, work, report, pc, job, outcome>>
        /\ phase' # "idle"
        /\ channel' = channel \/ channel' = <<>>
    BY <1>4 DEF SaveTruncate, FlushWrite, PoolDrained, FlushFails, runVars, poolVars, diskVars
  <2>2. /\ index'.entries = index.entries
        /\ file' \in {file, Torn, index}
    BY <1>4, StampedType DEF SaveTruncate, FlushWrite, PoolDrained, FlushFails, TypeOK, diskVars
  <2>3. EntriesBacked'
    BY <2>1, <2>2 DEF FreshInv, EntriesBacked, BackedBy
  <2>4. ReportFresh'
    BY <2>1 DEF FreshInv, ReportFresh, Fresh
  <2> QED
    BY <2>1, <2>3, <2>4 DEF FreshInv, ProbesFresh, AnswersTrue, QueueTrue, Truthful, Fresh
<1> QED
  BY <1>1, <1>2, <1>3, <1>4 DEF Main

\* A worker only renames CSVs of today into place, and answers truthfully.
LEMMA WorkerFresh ==
  ASSUME TypeOK, ControlInv, FreshInv, NEW w \in Workers, Worker(w)
  PROVE  FreshInv'
<1>0. /\ pc \in [Workers -> WorkerSteps]
      /\ job \in [Workers -> Nat]
      /\ outcome \in [Workers -> Message \union {None}]
      /\ csv \in [Stems -> Csv \union {None}]
      /\ day \in Nat /\ index \in Index /\ file \in Index \union {None, Torn}
  BY DEF TypeOK
<1>1. /\ UNCHANGED <<day, file, phase, work, index, report>>
      /\ phase # "idle"
  <2>1. pc[w] # "exited"
    BY DEF Worker, CheckAbort, Claim, Probe, FetchOk, FetchFails, Send, Goto
  <2> QED
    BY <2>1 DEF Worker, CheckAbort, Claim, Probe, FetchOk, FetchFails, Send, diskVars, runVars,
                ControlInv, Quiet, AllExited
<1>2. KeepsFresh
  <2>1. CASE FetchOk(w)
    <3>1. PICK n \in 0 .. remote[JobStem(w)] :
            csv' = [csv EXCEPT ![JobStem(w)] = [rows |-> n, at |-> day]]
      BY <2>1 DEF FetchOk
    <3>2. [rows |-> n, at |-> day] # None
      <4>1. JobStem(w) \in Catalog
        BY <2>1 DEF FetchOk, Busy, ControlInv, HoldsJob, StemsIn, JobStem
      <4>2. n \in Rows
        BY <4>1, NumbersAssumption DEF TypeOK
      <4> QED
        BY <1>0, <4>2, SentinelAssumption DEF Csv
    <3> QED
      BY <1>0, <1>1, <3>1, <3>2, StemsAssumption DEF KeepsFresh
  <2>2. CASE ~FetchOk(w)
    BY <1>1, <2>2 DEF Worker, CheckAbort, Claim, Probe, FetchFails, Send, diskVars, KeepsFresh
  <2> QED
    BY <2>1, <2>2
<1>3. EntriesBacked'
  <2>1. BackedBy(index)'
    BY <1>0, <1>1, <1>2, BackedKept DEF BackedBy, FreshInv, EntriesBacked
  <2>2. ASSUME file \notin {None, Torn} PROVE BackedBy(file)'
    BY <1>0, <1>1, <1>2, <2>2, BackedKept DEF BackedBy, FreshInv, EntriesBacked
  <2> QED
    BY <1>1, <2>1, <2>2 DEF EntriesBacked
<1>4. ProbesFresh'
  BY <1>1, <1>2, FreshKept DEF ProbesFresh, FreshInv, ControlInv, StemsIn
<1>5. ReportFresh'
  BY <1>1, <1>2, FreshKept DEF ReportFresh, FreshInv
<1>6. AnswersTrue' /\ QueueTrue'
  <2>1. CASE CheckAbort(w)
    <3>1. /\ UNCHANGED <<channel, job, outcome>>
          /\ pc' = [pc EXCEPT ![w] = "claim"] \/ pc' = [pc EXCEPT ![w] = "exited"]
      BY <2>1 DEF CheckAbort, Goto
    <3> QED
      BY <1>0, <1>1, <1>2, <3>1, FreshKept DEF FreshInv, AnswersTrue, QueueTrue
  <2>2. CASE Claim(w)
    <3>1. /\ UNCHANGED <<channel, outcome>>
          /\ \A v \in Workers \ {w} : pc'[v] = pc[v] /\ job'[v] = job[v]
          /\ pc'[w] # "send"
          /\ pc'[w] = "probe" => job'[w] = next /\ work[next].action = "Probe"
      BY <1>0, <2>2 DEF Claim, Goto
    <3> QED
      BY <1>1, <1>2, <3>1, FreshKept DEF FreshInv, AnswersTrue, QueueTrue
  <2>3. CASE Send(w)
    <3>1. /\ \A v \in Workers \ {w} : pc'[v] = pc[v] /\ job'[v] = job[v]
                                          /\ outcome'[v] = outcome[v]
          /\ pc'[w] \notin {"send", "probe"}
          /\ pc[w] = "send"
          /\ channel' = channel \/ channel' = Append(channel, outcome[w])
      BY <1>0, <2>3 DEF Send, Goto
    <3>2. AnswersTrue'
      BY <1>1, <1>2, <3>1, FreshKept DEF FreshInv, AnswersTrue
    <3>3. Truthful(outcome[w]) /\ channel \in Seq(Message)
      BY <3>1 DEF FreshInv, AnswersTrue, TypeOK
    <3>4. \A i \in DOMAIN channel' :
            (i \in DOMAIN channel /\ channel'[i] = channel[i]) \/ channel'[i] = outcome[w]
      BY <3>1, <3>3
    <3>5. \A i \in DOMAIN channel' : Truthful(channel'[i])
      BY <3>3, <3>4 DEF FreshInv, QueueTrue
    <3>6. QueueTrue'
      BY <1>2, <3>5, FreshKept DEF QueueTrue
    <3> QED
      BY <3>2, <3>6
  <2>4. CASE Probe(w) \/ FetchOk(w) \/ FetchFails(w)
    <3>1. UNCHANGED <<channel, job>>
      BY <2>4, AnswerShape
    <3>2. JobStem(w) \in Catalog
      BY <2>4, AnswerShape DEF Busy, ControlInv, HoldsJob, StemsIn, JobStem
    <3>3. \/ pc' = [pc EXCEPT ![w] = "fetch"] /\ outcome' = outcome
          \/ \E kind, n :
               /\ Finish(w, kind, n)
               /\ kind = "Fetched" => csv'[JobStem(w)] # None /\ csv'[JobStem(w)].at = day
               /\ kind = "Unchanged" => pc[w] = "probe"
      <4>1. CASE FetchOk(w)
        <5>1. PICK n \in 0 .. remote[JobStem(w)] :
                /\ Finish(w, "Fetched", n)
                /\ csv' = [csv EXCEPT ![JobStem(w)] = [rows |-> n, at |-> day]]
          BY <4>1 DEF FetchOk
        <5>2. csv'[JobStem(w)] = [rows |-> n, at |-> day]
          BY <1>0, <3>2, <5>1, StemsAssumption
        <5>3. [rows |-> n, at |-> day] # None
          <6>1. n \in Rows
            BY <3>2, NumbersAssumption DEF TypeOK
          <6> QED
            BY <1>0, <6>1, SentinelAssumption DEF Csv
        <5> QED
          BY <5>1, <5>2, <5>3
      <4>2. CASE Probe(w) \/ FetchFails(w)
        BY <4>2 DEF Probe, FetchFails, Goto
      <4> QED
        BY <2>4, <4>1, <4>2
    <3>4. CASE pc' = [pc EXCEPT ![w] = "fetch"] /\ outcome' = outcome
      BY <1>0, <1>1, <1>2, <3>1, <3>4, FreshKept DEF FreshInv, AnswersTrue, QueueTrue
    <3>5. ASSUME NEW kind, NEW n, Finish(w, kind, n),
                 kind = "Fetched" => csv'[JobStem(w)] # None /\ csv'[JobStem(w)].at = day,
                 kind = "Unchanged" => pc[w] = "probe"
          PROVE  AnswersTrue'
      <4>1. /\ \A v \in Workers \ {w} : pc'[v] = pc[v] /\ outcome'[v] = outcome[v]
            /\ pc'[w] = "send"
            /\ outcome'[w] = [stem |-> JobStem(w), kind |-> kind, rows |-> n]
        BY <1>0, <3>5 DEF Finish
      <4>2. pc[w] = "probe" => Fresh(JobStem(w))
        BY DEF FreshInv, AnswersTrue, ProbesFresh, JobStem, ControlInv, HoldsJob, Busy
      <4>3. \A s \in Catalog : s = JobStem(w) /\ kind = "Unchanged" => Fresh(s)'
        <5>1. \A s \in Catalog : Fresh(s) => Fresh(s)'
          BY <1>2, FreshKept
        <5>2. kind = "Unchanged" => Fresh(JobStem(w))
          BY <3>5, <4>2
        <5> QED
          BY <5>1, <5>2
      <4>4. Truthful(outcome[w])'
        <5>1. outcome'[w].stem = JobStem(w) /\ outcome'[w].kind = kind /\ day' = day
          BY <1>1, <4>1
        <5>2. kind = "Unchanged" => Fresh(outcome[w].stem)'
          BY <3>2, <4>3, <5>1 DEF Fresh
        <5> QED
          BY <3>2, <3>5, <5>1, <5>2 DEF Truthful
      <4> QED
        <5>1. \A v \in Workers \ {w} : pc'[v] = "send" => Truthful(outcome[v])'
          BY <1>2, <4>1, FreshKept DEF FreshInv, AnswersTrue
        <5>2. \A v \in Workers : pc'[v] = "probe" => work'[job'[v]].action = "Probe"
          BY <1>1, <3>1, <4>1 DEF FreshInv, AnswersTrue
        <5> QED
          BY <4>4, <5>1, <5>2 DEF AnswersTrue
    <3>6. QueueTrue'
      BY <1>2, <3>1, FreshKept DEF FreshInv, QueueTrue
    <3> QED
      BY <3>3, <3>4, <3>5, <3>6
  <2> QED
    BY <2>1, <2>2, <2>3, <2>4 DEF Worker
<1> QED
  BY <1>3, <1>4, <1>5, <1>6 DEF FreshInv

\* A step of the world outside keeps freshness: days pass only between runs.
LEMMA EnvironmentFresh ==
  ASSUME TypeOK, ControlInv, FreshInv, Environment
  PROVE  FreshInv'
<1>1. CASE Crash \/ FinishFails
  BY <1>1, LeaveFresh DEF Crash, FinishFails, diskVars, FreshInv, EntriesBacked, BackedBy
<1>2. CASE FlushFails
  BY <1>2, MainFresh
<1>3. CASE \E s \in Catalog : RemoteEdit(s)
  BY <1>3 DEF RemoteEdit, runVars, poolVars, FreshInv, EntriesBacked, BackedBy, ProbesFresh,
              AnswersTrue, QueueTrue, ReportFresh, Truthful, Fresh
<1>4. CASE NextDay \/ DeleteIndex \/ \E s \in Stems : SupplyCsv(s) \/ DeleteCsv(s)
  <2>1. /\ phase = "idle" /\ UNCHANGED <<phase, index, report, work, channel, pc>>
        /\ day' \in {day, day + 1} /\ file' \in {file, None}
    BY <1>4 DEF NextDay, DeleteIndex, SupplyCsv, DeleteCsv, runVars, poolVars, diskVars
  <2>2. \A s \in Catalog : csv'[s] = csv[s] \/ csv'[s] = None
    <3>1. CASE NextDay \/ DeleteIndex
      BY <3>1 DEF NextDay, DeleteIndex, diskVars
    <3>2. CASE \E s \in Stems : SupplyCsv(s) \/ DeleteCsv(s)
      <4>1. PICK s \in Stems : SupplyCsv(s) \/ DeleteCsv(s)
        BY <3>2
      <4>2. \/ \E n \in Rows : csv' = [csv EXCEPT ![s] = [rows |-> n, at |-> day]]
               /\ s \notin Catalog
            \/ csv' = [csv EXCEPT ![s] = None]
        BY <4>1 DEF SupplyCsv, DeleteCsv
      <4> QED
        BY <4>2, StemsAssumption DEF TypeOK
    <3> QED
      BY <1>4, <3>1, <3>2
  <2>3. ASSUME NEW ix \in Index, BackedBy(ix)
        PROVE  BackedBy(ix)'
    <3> SUFFICES ASSUME NEW s \in Catalog, ix.entries[s] # None
                 PROVE  /\ ix.entries[s].fetched <= day'
                        /\ csv'[s] # None => csv'[s].at >= ix.entries[s].fetched
      BY DEF BackedBy
    <3>1. ix.entries[s].fetched \in Nat /\ day \in Nat
      BY StemsAssumption DEF Index, Entry, TypeOK
    <3> QED
      BY <2>1, <2>2, <2>3, <3>1 DEF BackedBy
  <2>4. EntriesBacked'
    <3>1. index \in Index /\ file \in Index \union {None, Torn}
      BY DEF TypeOK
    <3>2. BackedBy(index)'
      BY <2>1, <2>3, <3>1 DEF FreshInv, EntriesBacked, BackedBy
    <3>3. file' \notin {None, Torn} => BackedBy(file)'
      BY <2>1, <2>3, <3>1 DEF FreshInv, EntriesBacked, BackedBy
    <3> QED
      BY <3>2, <3>3 DEF EntriesBacked
  <2>5. /\ work = <<>> /\ channel = <<>> /\ report = EmptyReport
        /\ \A w \in Workers : pc[w] = "exited"
    BY <2>1 DEF ControlInv, Quiet, AllExited, FreshInv, ReportFresh
  <2>6. ReportFresh'
    BY <2>1, <2>5 DEF ReportFresh, EmptyReport, Buckets
  <2> QED
    BY <2>1, <2>4, <2>5, <2>6 DEF FreshInv, ProbesFresh, AnswersTrue, QueueTrue
<1> QED
  BY <1>1, <1>2, <1>3, <1>4 DEF Environment
-----------------------------------------------------------------------------
(***************************************************************************)
(* The theorems.                                                           *)
(***************************************************************************)
PoolIInv == TypeOK /\ PoolInv

\* Types, control, place and cover are inductive together.
LEMMA PoolStep == PoolIInv /\ [Next]_vars => PoolIInv'
<1> SUFFICES ASSUME TypeOK, ControlInv, PlaceInv, CoverInv, [Next]_vars
             PROVE  TypeOK' /\ ControlInv' /\ PlaceInv' /\ CoverInv'
  BY DEF PoolIInv, PoolInv
<1>1. TypeOK'
  BY TypeStep
<1>2. CASE UNCHANGED vars
  BY <1>1, <1>2 DEF vars, runVars, poolVars, ControlInv, HoldsJob, DistinctJobs,
     CarriesOutcome, ExitsLate, AbortJoins, Quiet, AllExited, PlaceInv, CoverInv, Unclaimed,
     InHand, BucketsDisjoint, Accounted, NoRepeat, ChannelStems, StemsIn, Reported, Busy,
     JobStem, Running, Finishing
<1>3. CASE LoadFails
  BY <1>2, <1>3 DEF LoadFails
<1>4. CASE \E stems \in NeededSets : StartRun(stems)
  BY <1>1, <1>4, StartRunControl, StartRunPlace
<1>5. CASE Main
  BY <1>1, <1>5, MainControl, MainPlace
<1>6. CASE \E w \in Workers : Worker(w)
  BY <1>1, <1>6, WorkerControl, WorkerPlace
<1>7. CASE Environment
  BY <1>1, <1>7, EnvironmentControl, EnvironmentPlace
<1> QED
  BY <1>2, <1>3, <1>4, <1>5, <1>6, <1>7 DEF Next

\* TypeOK and the pool's bookkeeping hold in every reachable state, for any
\* number of workers and stems.
THEOREM PoolCorrect == Spec => []PoolIInv
<1>1. Init => PoolIInv
  BY TypeInit, ControlInit, PlaceInit DEF PoolIInv, PoolInv
<1> QED
  BY <1>1, PoolStep, PTL DEF Spec

\* Jobs, workers, queue and report agree about every needed stem (PoolInv): the
\* cursor hands each job out once and no stem is lost on its way to a bucket.
THEOREM PoolAgrees == Spec => []PoolInv
BY PoolCorrect, PTL DEF PoolIInv

\* Every variable keeps its type (TypeOK), whatever the constants.
THEOREM TypeCorrect == Spec => []TypeOK
<1>1. PoolIInv => TypeOK
  BY DEF PoolIInv
<1> QED
  BY <1>1, PoolCorrect, PTL

\* No two workers ever run the same dataset, and a dataset that is queued or
\* reported is not running (ExclusiveClaim; the cursor of orchestrator.rs:153).
THEOREM ClaimsExclusive == Spec => []ExclusiveClaim
<1>1. PoolIInv => ExclusiveClaim
  <2> SUFFICES ASSUME PoolIInv PROVE ExclusiveClaim
    OBVIOUS
  <2>1. ASSUME NEW v \in Workers, NEW w \in Workers, v # w, Busy(v), Busy(w)
        PROVE  JobStem(v) # JobStem(w)
    BY <2>1 DEF PoolIInv, PoolInv, ControlInv, DistinctJobs, HoldsJob, NoRepeat, JobStem
  <2> QED
    BY <2>1 DEF PoolIInv, PoolInv, PlaceInv, InHand, ExclusiveClaim
<1> QED
  BY <1>1, PoolCorrect, PTL

\* When the refresh reaches its final save, every needed stem is in exactly one
\* bucket of the report (OneBucketEach; orchestrator.rs:28).
THEOREM BucketsExact == Spec => []OneBucketEach
<1>1. PoolIInv => OneBucketEach
  <2> SUFFICES ASSUME PoolIInv, Finishing PROVE Reported = needed
    BY DEF PoolIInv, PoolInv, PlaceInv, OneBucketEach
  <2>1. Running /\ AllExited /\ channel = <<>>
    BY DEF Finishing, Running, PoolIInv, PoolInv, ControlInv, Quiet
  <2>2. ChannelStems = {} /\ \A w \in Workers : ~Busy(w)
    BY <2>1 DEF ChannelStems, StemsIn, AllExited, Busy
  <2>3. PICK w \in Workers : TRUE
    BY WorkersAssumption
  <2>4. Len(work) < next /\ work \in Seq(Job) /\ next \in Nat
    BY <2>1, <2>3 DEF AllExited, PoolIInv, PoolInv, ControlInv, ExitsLate, TypeOK
  <2>5. StemsIn(work) \subseteq Reported
    BY <2>1, <2>2, <2>4 DEF PoolIInv, PoolInv, CoverInv, Accounted, StemsIn
  <2> QED
    BY <2>1, <2>2, <2>5 DEF PoolIInv, PoolInv, CoverInv
<1> QED
  BY <1>1, PoolCorrect, PTL

\* Freshness is inductive, given the pool invariant.
LEMMA FreshStep == PoolIInv /\ FreshInv /\ [Next]_vars => FreshInv'
<1> SUFFICES ASSUME TypeOK, ControlInv, FreshInv, [Next]_vars
             PROVE  FreshInv'
  BY DEF PoolIInv, PoolInv
<1>1. CASE UNCHANGED vars
  BY <1>1 DEF vars, diskVars, runVars, poolVars, FreshInv, EntriesBacked, BackedBy,
              ProbesFresh, AnswersTrue, QueueTrue, ReportFresh, Truthful, Fresh
<1>2. CASE LoadFails
  BY <1>1, <1>2 DEF LoadFails
<1>3. CASE \E stems \in NeededSets : StartRun(stems)
  BY <1>3, StartRunFresh
<1>4. CASE Main
  BY <1>4, MainFresh
<1>5. CASE \E w \in Workers : Worker(w)
  BY <1>5, WorkerFresh
<1>6. CASE Environment
  BY <1>6, EnvironmentFresh
<1> QED
  BY <1>1, <1>2, <1>3, <1>4, <1>5, <1>6 DEF Next

\* No index entry claims a later fetch than its CSV, and no answer of a worker
\* says more than the CSV it is about shows (FreshInv).
THEOREM FreshCorrect == Spec => []FreshInv
<1>1. Init => FreshInv
  BY FreshInit
<1> QED
  BY <1>1, FreshStep, PoolCorrect, PTL DEF Spec

\* No index entry, in memory or in a readable sodir_index.json, claims a fetch
\* newer than the CSV it stands for, whatever was killed or failed in between
\* (EntryBacked; fetch.rs:40, orchestrator.rs:192).
THEOREM EntriesNeverAhead == Spec => []EntryBacked
<1>1. FreshInv => EntryBacked
  BY DEF FreshInv, EntriesBacked, BackedBy, EntryBacked
<1> QED
  BY <1>1, FreshCorrect, PTL

\* dataset_cooldown_days is a hard bound (HardRefreshBound; wrapper.py:15): a
\* refresh that reaches its final save leaves no needed catalog CSV older than
\* the cooldown, except those it reports as errors.
THEOREM HardRefresh == Spec => []HardRefreshBound
<1>1. OneBucketEach /\ FreshInv => HardRefreshBound
  <2> SUFFICES ASSUME OneBucketEach, FreshInv, Finishing,
                      NEW s \in (needed \intersect Catalog) \ report["errors"]
               PROVE  Fresh(s)
    BY DEF HardRefreshBound, Fresh
  <2>1. s \in UNION {report[b] : b \in Buckets}
    BY DEF OneBucketEach, Reported
  <2>2. s \in report["fetched"] \union report["unchanged"] \union report["cached"]
    BY <2>1 DEF FreshInv, ReportFresh, Buckets
  <2> QED
    BY <2>2 DEF FreshInv, ReportFresh
<1> QED
  BY <1>1, BucketsExact, FreshCorrect, PTL

(***************************************************************************)
(* That a kill of the refresh costs only what is in flight: what is saved  *)
(* when, when a sweep counts as done, and that the recorded row counts are *)
(* those of the CSVs.                                                      *)
(***************************************************************************)

(***************************************************************************)
(* The sweep.                                                              *)
(***************************************************************************)
\* No sweep is in progress between calls, when the days pass.
SweepInv == SweepMarkedLast /\ (phase = "idle" => ~sweepDue)

\* No sweep is in progress initially.
LEMMA SweepInit == Init => SweepInv
BY DEF Init, SweepInv, SweepMarkedLast

\* Pass 1 leaves the stamp of the index alone unless nothing is to be done.
LEMMA StartRunSweep ==
  ASSUME TypeOK, NEW stems \in NeededSets, StartRun(stems)
  PROVE  SweepInv'
<1> DEFINE loaded == IF file = None THEN EmptyIndex ELSE file
           supplied == {s \in stems \ Catalog : csv[s] # None}
           ix == WithSupplied(loaded, supplied)
<1>1. file # Torn /\ file \in Index \union {None} /\ loaded \in Index
  BY EmptyIndexType DEF TypeOK, StartRun
<1>2. ix.sweep = loaded.sweep
  BY <1>1 DEF WithSupplied, Index
<1> HIDE DEF loaded, ix
<1>3. /\ sweepDue' = SweepDue(loaded)
      /\ phase' = "finish" \/ (phase' = "recv" /\ index' = ix)
      /\ UNCHANGED <<day, file>>
  BY DEF StartRun, loaded, ix, supplied, diskVars
<1>4. SweepDue(loaded) /\ index' = ix => SweepDue(index)' /\ (file \notin {None, Torn} => SweepDue(file)')
  BY <1>2, <1>3 DEF SweepDue, loaded
<1> QED
  BY <1>3, <1>4 DEF SweepInv, SweepMarkedLast, Finishing

\* The stamp is set only by a step that ends the pool, and saved after it.
LEMMA SweepStep == TypeOK /\ SweepInv /\ [Next]_vars => SweepInv'
<1> SUFFICES ASSUME TypeOK, SweepInv, [Next]_vars PROVE SweepInv'
  OBVIOUS
<1>1. CASE \E stems \in NeededSets : StartRun(stems)
  BY <1>1, StartRunSweep
<1>2. CASE Crash \/ FinishFails \/ ScopeJoined \/ FinishWrite
  BY <1>2 DEF Crash, FinishFails, ScopeJoined, FinishWrite, Leave, SweepInv, SweepMarkedLast
<1>3. CASE Receive
  <2>1. index'.sweep = index.sweep
    BY <1>3 DEF Receive, TypeOK, Index
  <2> QED
    BY <1>3, <2>1 DEF Receive, diskVars, runVars, SweepInv, SweepMarkedLast, SweepDue, Finishing
<1>4. CASE PoolDrained
  BY <1>4 DEF PoolDrained, SweepInv, SweepMarkedLast, Finishing
<1>5. CASE SaveTruncate \/ FlushWrite \/ FlushFails
  BY <1>5 DEF SaveTruncate, FlushWrite, FlushFails, diskVars, runVars, SweepInv, SweepMarkedLast,
              SweepDue, Finishing
<1>6. CASE \E w \in Workers : Worker(w)
  <2>1. UNCHANGED <<day, file, phase, index, sweepDue>>
    BY <1>6 DEF Worker, CheckAbort, Claim, Probe, FetchOk, FetchFails, Send, diskVars, runVars
  <2> QED
    BY <2>1 DEF SweepInv, SweepMarkedLast, SweepDue, Finishing
<1>7. CASE \E s \in Catalog : RemoteEdit(s)
  BY <1>7 DEF RemoteEdit, runVars, SweepInv, SweepMarkedLast, SweepDue, Finishing
<1>8. CASE NextDay \/ DeleteIndex \/ \E s \in Stems : SupplyCsv(s) \/ DeleteCsv(s)
  BY <1>8 DEF NextDay, DeleteIndex, SupplyCsv, DeleteCsv, runVars, SweepInv, SweepMarkedLast
<1>9. CASE UNCHANGED vars \/ LoadFails
  BY <1>9 DEF LoadFails, vars, diskVars, runVars, SweepInv, SweepMarkedLast, SweepDue, Finishing
<1> QED
  BY <1>1, <1>2, <1>3, <1>4, <1>5, <1>6, <1>7, <1>8, <1>9 DEF Next, Main, Environment

\* A sweep counts as done, in memory and on disk, only when every job of it
\* was answered: a kill before leaves it due (SweepMarkedLast;
\* orchestrator.rs:205).
THEOREM SweepLast == Spec => []SweepMarkedLast
<1>1. SweepInv => SweepMarkedLast
  BY DEF SweepInv
<1> QED
  BY <1>1, SweepInit, SweepStep, TypeCorrect, PTL DEF Spec
-----------------------------------------------------------------------------
(***************************************************************************)
(* The saves.                                                              *)
(***************************************************************************)
\* Back at the channel, the file is the index, unless nothing is complete.
SavedInv ==
  phase = "recv" => file = index \/ report["fetched"] \union report["unchanged"] = {}

\* The save of each completion follows it before the next is received.
LEMMA SavedStep == TypeOK /\ SavedInv /\ [Next]_vars => SavedInv'
<1> SUFFICES ASSUME TypeOK, SavedInv, [Next]_vars PROVE SavedInv'
  OBVIOUS
<1>1. CASE \E stems \in NeededSets : StartRun(stems)
  BY <1>1 DEF StartRun, EmptyReport, Buckets, SavedInv
<1>2. CASE FlushWrite
  BY <1>2 DEF FlushWrite, SavedInv
<1>3. CASE Crash \/ FinishFails \/ ScopeJoined \/ FinishWrite \/ Receive \/ PoolDrained
             \/ SaveTruncate \/ FlushFails
  BY <1>3 DEF Crash, FinishFails, ScopeJoined, FinishWrite, Leave, Receive, PoolDrained,
              SaveTruncate, FlushFails, SavedInv
<1>4. CASE \E w \in Workers : Worker(w)
  BY <1>4 DEF Worker, CheckAbort, Claim, Probe, FetchOk, FetchFails, Send, diskVars, SavedInv
<1>5. CASE \E s \in Catalog : RemoteEdit(s)
  BY <1>5 DEF RemoteEdit, SavedInv
<1>6. CASE NextDay \/ DeleteIndex \/ \E s \in Stems : SupplyCsv(s) \/ DeleteCsv(s)
  BY <1>6 DEF NextDay, DeleteIndex, SupplyCsv, DeleteCsv, SavedInv
<1>7. CASE UNCHANGED vars \/ LoadFails
  BY <1>7 DEF LoadFails, vars, diskVars, SavedInv
<1> QED
  BY <1>1, <1>2, <1>3, <1>4, <1>5, <1>6, <1>7 DEF Next, Main, Environment

\* "a Ctrl-C never loses progress": whenever the calling thread waits at the
\* channel, every completed dataset is in the file (ProgressSaved;
\* orchestrator.rs:192).
THEOREM ProgressKept == Spec => []ProgressSaved
<1>1. Init => SavedInv
  BY DEF Init, SavedInv
<1>2. TypeOK /\ SavedInv => ProgressSaved
  BY SentinelAssumption DEF TypeOK, SavedInv, ProgressSaved
<1> QED
  BY <1>1, <1>2, SavedStep, TypeCorrect, PTL DEF Spec
-----------------------------------------------------------------------------
(***************************************************************************)
(* The row counts.                                                         *)
(***************************************************************************)
\* An answer "fetched" has the row count of the CSV in place.
Counted(m) == m.kind = "Fetched" => csv[m.stem] # None /\ csv[m.stem].rows = m.rows

CountInv ==
  /\ RecordedRowsMatch
  /\ \A w \in Workers : pc[w] = "send" => Counted(outcome[w])
  /\ \A i \in DOMAIN channel : Counted(channel[i])

CountVars == <<csv, report, index, pc, outcome, channel>>

\* What the count is about is in the report, the queue or the hands of a worker.
LEMMA CountKept ==
  ASSUME CountInv, UNCHANGED CountVars
  PROVE  CountInv'
BY DEF CountInv, CountVars, RecordedRowsMatch, Counted

\* A call that ends leaves nothing to count.
LEMMA LeaveCount ==
  ASSUME Leave
  PROVE  CountInv'
BY DEF Leave, EmptyReport, Buckets, CountInv, RecordedRowsMatch

\* The answer recorded is that of the queue, and of a dataset not yet recorded.
LEMMA ReceiveCount ==
  ASSUME TypeOK, PlaceInv, FreshInv, CountInv, Receive
  PROVE  CountInv'
<1> DEFINE m == Head(channel)
<1>1. /\ UNCHANGED <<csv, pc, outcome>>
      /\ channel # <<>> /\ channel' = Tail(channel) /\ channel \in Seq(Message)
      /\ index \in Index /\ report \in [Buckets -> SUBSET Stems]
  BY DEF Receive, diskVars, TypeOK
<1>2. m \in Message /\ m = channel[1] /\ 1 \in DOMAIN channel
  BY <1>1
<1>3. m.stem \in Stems /\ Counted(m) /\ m.stem \notin report["fetched"]
  BY <1>2 DEF CountInv, PlaceInv, ChannelStems, StemsIn, Reported, Buckets, Message
<1> HIDE DEF m
<1>4. \/ /\ report'["fetched"] = report["fetched"]
         /\ \A s \in Stems \ {m.stem} : index'.entries[s] = index.entries[s]
      \/ /\ m.kind = "Fetched"
         /\ report'["fetched"] = report["fetched"] \union {m.stem}
         /\ index'.entries = [index.entries EXCEPT ![m.stem] =
                                [rows |-> m.rows, fetched |-> day, checked |-> day]]
  BY <1>1 DEF Receive, m, Buckets, Index
<1>5. RecordedRowsMatch'
  <2>1. \A s \in report["fetched"] : s \in Stems /\ s # m.stem
    BY <1>1, <1>3 DEF Buckets
  <2>2. CASE /\ report'["fetched"] = report["fetched"]
             /\ \A s \in Stems \ {m.stem} : index'.entries[s] = index.entries[s]
    BY <1>1, <2>1, <2>2 DEF CountInv, RecordedRowsMatch
  <2>3. CASE /\ m.kind = "Fetched"
             /\ report'["fetched"] = report["fetched"] \union {m.stem}
             /\ index'.entries = [index.entries EXCEPT ![m.stem] =
                                    [rows |-> m.rows, fetched |-> day, checked |-> day]]
    <3>1. index'.entries[m.stem].rows = m.rows
      BY <1>1, <1>3, <2>3 DEF Index
    <3>2. \A s \in report["fetched"] : index'.entries[s] = index.entries[s]
      BY <1>1, <2>1, <2>3 DEF Index
    <3> QED
      BY <1>1, <1>3, <2>3, <3>1, <3>2 DEF CountInv, RecordedRowsMatch, Counted
  <2> QED
    BY <1>4, <2>2, <2>3
<1>6. \A i \in DOMAIN channel' : Counted(channel'[i])
  <2>1. ASSUME NEW i \in DOMAIN channel'
        PROVE  i + 1 \in DOMAIN channel /\ channel'[i] = channel[i + 1]
    BY <1>1, <2>1
  <2> QED
    BY <2>1 DEF CountInv
<1> QED
  BY <1>1, <1>5, <1>6 DEF CountInv, Counted

\* A rename cannot touch a dataset that is queued, reported or in another
\* worker's hands.
LEMMA FetchCount ==
  ASSUME TypeOK, ControlInv, PlaceInv, FreshInv, CountInv, NEW w \in Workers, FetchOk(w)
  PROVE  CountInv'
<1>1. /\ pc[w] = "fetch" /\ UNCHANGED <<report, index, channel>>
      /\ pc \in [Workers -> WorkerSteps] /\ outcome \in [Workers -> Message \union {None}]
      /\ csv \in [Stems -> Csv \union {None}]
      /\ day \in Nat
  BY DEF FetchOk, TypeOK
<1>2. JobStem(w) \in Catalog /\ JobStem(w) \in Stems
  BY <1>1, StemsAssumption DEF Busy, ControlInv, HoldsJob, StemsIn, JobStem
<1>3. PICK n \in 0 .. remote[JobStem(w)] :
        /\ Finish(w, "Fetched", n)
        /\ csv' = [csv EXCEPT ![JobStem(w)] = [rows |-> n, at |-> day]]
  BY DEF FetchOk
<1>4. [rows |-> n, at |-> day] # None
  <2>1. n \in Rows
    BY <1>2, NumbersAssumption DEF TypeOK, Rows
  <2> QED
    BY <1>1, <2>1, SentinelAssumption DEF Csv
<1>5. /\ csv'[JobStem(w)] = [rows |-> n, at |-> day]
      /\ \A s \in Stems \ {JobStem(w)} : csv'[s] = csv[s]
  BY <1>1, <1>2, <1>3
<1>6. JobStem(w) \notin ChannelStems \union Reported
  BY <1>1 DEF PlaceInv, InHand, Busy
<1>7. RecordedRowsMatch'
  <2>1. \A s \in report["fetched"] : s \in Stems \ {JobStem(w)}
    BY <1>6 DEF Reported, Buckets, TypeOK
  <2> QED
    BY <1>1, <1>5, <2>1 DEF CountInv, RecordedRowsMatch
<1>8. \A i \in DOMAIN channel' : Counted(channel[i])'
  <2> SUFFICES ASSUME NEW i \in DOMAIN channel PROVE Counted(channel[i])'
    BY <1>1
  <2>1. channel[i] \in Message
    BY DEF TypeOK
  <2>2. channel[i].stem \in Stems \ {JobStem(w)}
    BY <1>6, <2>1 DEF ChannelStems, StemsIn, Message
  <2>3. channel'[i] = channel[i] /\ csv'[channel[i].stem] = csv[channel[i].stem]
    BY <1>1, <1>5, <2>2
  <2> QED
    BY <2>3 DEF CountInv, Counted
<1>9. ASSUME NEW v \in Workers, pc'[v] = "send"
      PROVE  Counted(outcome[v])'
  <2>1. CASE v = w
    <3>1. outcome'[w] = [stem |-> JobStem(w), kind |-> "Fetched", rows |-> n]
      BY <1>1, <1>3 DEF Finish
    <3>2. /\ outcome'[v].stem = JobStem(w) /\ outcome'[v].rows = n
          /\ csv'[JobStem(w)] # None /\ csv'[JobStem(w)].rows = n
      BY <1>4, <1>5, <2>1, <3>1
    <3> QED
      BY <3>2 DEF Counted
  <2>2. CASE v # w
    <3>1. pc[v] = "send" /\ outcome'[v] = outcome[v]
      BY <1>1, <1>3, <1>9, <2>2 DEF Finish
    <3>2. JobStem(v) # JobStem(w)
      BY <1>1, <2>2, <3>1 DEF ControlInv, DistinctJobs, HoldsJob, NoRepeat, JobStem, Busy
    <3>3. outcome[v].stem = JobStem(v) /\ outcome[v].stem \in Stems
      BY <3>1, <2>2, JobStemType DEF ControlInv, CarriesOutcome, HoldsJob, Busy
    <3>4. csv'[outcome[v].stem] = csv[outcome[v].stem]
      BY <1>5, <3>2, <3>3
    <3> QED
      BY <3>1, <3>4 DEF CountInv, Counted
  <2> QED
    BY <2>1, <2>2
<1> QED
  BY <1>7, <1>8, <1>9 DEF CountInv

\* The other steps of a worker rename nothing and claim nothing fetched.
LEMMA WorkerCount ==
  ASSUME TypeOK, ControlInv, PlaceInv, FreshInv, CountInv, NEW w \in Workers, Worker(w)
  PROVE  CountInv'
<1>0. pc \in [Workers -> WorkerSteps] /\ outcome \in [Workers -> Message \union {None}]
  BY DEF TypeOK
<1>1. CASE FetchOk(w)
  BY <1>1, FetchCount
<1>2. CASE CheckAbort(w) \/ Claim(w)
  <2>1. /\ UNCHANGED <<csv, report, index, outcome, channel>>
        /\ \A v \in Workers \ {w} : pc'[v] = pc[v]
        /\ pc'[w] # "send"
    BY <1>0, <1>2 DEF CheckAbort, Claim, Goto, diskVars
  <2> QED
    BY <2>1 DEF CountInv, RecordedRowsMatch, Counted
<1>3. CASE Probe(w) \/ FetchFails(w)
  <2>1. /\ UNCHANGED <<csv, report, index, channel>>
        /\ \A v \in Workers \ {w} : pc'[v] = pc[v] /\ outcome'[v] = outcome[v]
        /\ pc'[w] = "send" => outcome'[w].kind # "Fetched"
    BY <1>0, <1>3 DEF Probe, FetchFails, Finish, Goto, diskVars
  <2> QED
    BY <2>1 DEF CountInv, RecordedRowsMatch, Counted
<1>4. CASE Send(w)
  <2>1. /\ UNCHANGED <<csv, report, index>>
        /\ pc[w] = "send" /\ pc'[w] # "send"
        /\ \A v \in Workers \ {w} : pc'[v] = pc[v] /\ outcome'[v] = outcome[v]
        /\ channel' = channel \/ channel' = Append(channel, outcome[w])
    BY <1>0, <1>4 DEF Send, Goto, diskVars
  <2>2. Counted(outcome[w]) /\ channel \in Seq(Message)
    BY <2>1 DEF CountInv, TypeOK
  <2>3. \A i \in DOMAIN channel' :
          (i \in DOMAIN channel /\ channel'[i] = channel[i]) \/ channel'[i] = outcome[w]
    BY <2>1, <2>2
  <2>4. \A i \in DOMAIN channel' : Counted(channel'[i])
    BY <2>2, <2>3 DEF CountInv
  <2> QED
    BY <2>1, <2>4 DEF CountInv, RecordedRowsMatch, Counted
<1> QED
  BY <1>1, <1>2, <1>3, <1>4 DEF Worker

\* The counts are inductive, given the pool's bookkeeping.
LEMMA CountStep == PoolIInv /\ FreshInv /\ CountInv /\ [Next]_vars => CountInv'
<1> SUFFICES ASSUME TypeOK, ControlInv, PlaceInv, FreshInv, CountInv, [Next]_vars
             PROVE  CountInv'
  BY DEF PoolIInv, PoolInv
<1>1. CASE \E stems \in NeededSets : StartRun(stems)
  <2>1. /\ UNCHANGED <<channel, outcome>>
        /\ report'["fetched"] = {}
        /\ \A w \in Workers : pc[w] = "exited"
        /\ channel = <<>>
    BY <1>1 DEF StartRun, EmptyReport, Buckets, ControlInv, Quiet, AllExited
  <2>2. \A w \in Workers : pc'[w] # "send"
    BY <1>1, <2>1 DEF StartRun
  <2> QED
    BY <2>1, <2>2 DEF CountInv, RecordedRowsMatch
<1>2. CASE Crash \/ FinishFails \/ ScopeJoined \/ FinishWrite
  BY <1>2, LeaveCount DEF Crash, FinishFails, ScopeJoined, FinishWrite
<1>3. CASE Receive
  BY <1>3, ReceiveCount
<1>4. CASE PoolDrained
  <2>1. index'.entries = index.entries
    BY <1>4, StampedType DEF PoolDrained, TypeOK
  <2> QED
    BY <1>4, <2>1 DEF PoolDrained, diskVars, poolVars, CountInv, RecordedRowsMatch, Counted
<1>5. CASE SaveTruncate \/ FlushWrite \/ UNCHANGED vars \/ LoadFails
             \/ \E s \in Catalog : RemoteEdit(s)
  BY <1>5, CountKept DEF SaveTruncate, FlushWrite, LoadFails, vars, diskVars, poolVars, RemoteEdit,
     CountVars
<1>6. CASE FlushFails
  BY <1>6 DEF FlushFails, diskVars, CountInv, RecordedRowsMatch, Counted
<1>7. CASE \E w \in Workers : Worker(w)
  BY <1>7, WorkerCount
<1>8. CASE NextDay \/ DeleteIndex \/ \E s \in Stems : SupplyCsv(s) \/ DeleteCsv(s)
  <2>1. phase = "idle" /\ UNCHANGED <<report, channel, pc, outcome>>
    BY <1>8 DEF NextDay, DeleteIndex, SupplyCsv, DeleteCsv, poolVars
  <2>2. report["fetched"] = {} /\ channel = <<>> /\ \A w \in Workers : pc[w] = "exited"
    BY <2>1 DEF FreshInv, ReportFresh, EmptyReport, Buckets, ControlInv, Quiet, AllExited
  <2> QED
    BY <2>1, <2>2 DEF CountInv, RecordedRowsMatch
<1> QED
  BY <1>1, <1>2, <1>3, <1>4, <1>5, <1>6, <1>7, <1>8 DEF Next, Main, Environment

\* The row count recorded for a fetched dataset, with which the next probe
\* compares, is that of the CSV in place (RecordedRowsMatch;
\* orchestrator.rs:176).
THEOREM CountsMatch == Spec => []RecordedRowsMatch
<1>1. Init => CountInv
  BY DEF Init, EmptyReport, Buckets, CountInv, RecordedRowsMatch
<1>2. CountInv => RecordedRowsMatch
  BY DEF CountInv
<1> QED
  BY <1>1, <1>2, CountStep, PoolCorrect, FreshCorrect, PTL DEF Spec
============================================================================
