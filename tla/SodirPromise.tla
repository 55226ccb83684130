---------------------------- MODULE SodirPromise ----------------------------
(***************************************************************************)
(* What a Sodir refresh promises to its caller, with no pool, queue, index *)
(* or cursor: a set of datasets is pending, each leaves it once for the    *)
(* bucket that tells the truth about its CSV, a CSV is touched only while  *)
(* its dataset is pending, and the report is complete only when nothing is *)
(* pending.  The call may end early at any point; the CSVs stay.           *)
(***************************************************************************)
EXTENDS Integers

CONSTANTS
  Stems,            \* every dataset stem
  Catalog,          \* those the refresh can download
  NeededSets,       \* the stem sets callers ask for
  Rows,             \* row counts
  DatasetCooldown,  \* the age, in days, a CSV may reach
  None              \* a missing CSV

VARIABLES
  day,      \* the clock
  csv,      \* csv/{stem}.csv
  stage,    \* "idle", "running", or "done": the report is complete
  pending,  \* the datasets not answered yet
  report    \* RefreshReport

vars == <<day, csv, stage, pending, report>>

Answers == {"fetched", "unchanged", "errors"}
Buckets == Answers \union {"user_supplied", "cached", "unfetchable"}
EmptyReport == [b \in Buckets |-> {}]

Today(s) == csv[s] # None /\ csv[s].at = day
Fresh(s) == csv[s] # None /\ (day - csv[s].at < DatasetCooldown \/ csv[s].at = day)

Init ==
  /\ day = 0
  /\ csv = [s \in Stems |-> None]
  /\ stage = "idle"
  /\ pending = {}
  /\ report = EmptyReport

\* What the catalog does not know is the user's, or missing; of the rest only
\* fresh CSVs may be left alone.
Start(stems) ==
  LET supplied == {s \in stems \ Catalog : csv[s] # None} IN
  /\ stage = "idle"
  /\ \E cached \in SUBSET {s \in stems \intersect Catalog : Fresh(s)} :
       /\ report' = [EmptyReport EXCEPT !["user_supplied"] = supplied,
                       !["unfetchable"] = (stems \ Catalog) \ supplied,
                       !["cached"] = cached]
       /\ pending' = (stems \intersect Catalog) \ cached
  /\ stage' = IF pending' = {} THEN "done" ELSE "running"
  /\ UNCHANGED <<day, csv>>

Replace(s) ==
  /\ stage = "running"
  /\ s \in pending
  /\ \E n \in Rows : csv' = [csv EXCEPT ![s] = [rows |-> n, at |-> day]]
  /\ UNCHANGED <<day, stage, pending, report>>

Answer(s, b) ==
  /\ stage = "running"
  /\ s \in pending
  /\ b = "fetched" => Today(s)
  /\ b = "unchanged" => Fresh(s)
  /\ report' = [report EXCEPT ![b] = @ \union {s}]
  /\ pending' = pending \ {s}
  /\ UNCHANGED <<day, csv, stage>>

Complete ==
  /\ stage = "running"
  /\ pending = {}
  /\ stage' = "done"
  /\ UNCHANGED <<day, csv, pending, report>>

\* The call returns, fails or dies.
End ==
  /\ stage # "idle"
  /\ stage' = "idle"
  /\ pending' = {}
  /\ report' = EmptyReport
  /\ UNCHANGED <<day, csv>>

NextDay ==
  /\ stage = "idle"
  /\ day' = day + 1
  /\ UNCHANGED <<csv, stage, pending, report>>

\* Between calls the user supplies a CSV of their own or deletes one.
UserChange(s) ==
  /\ stage = "idle"
  /\ \/ s \notin Catalog /\ \E n \in Rows : csv' = [csv EXCEPT ![s] = [rows |-> n, at |-> day]]
     \/ csv' = [csv EXCEPT ![s] = None]
  /\ UNCHANGED <<day, stage, pending, report>>

Next ==
  \/ \E stems \in NeededSets : Start(stems)
  \/ \E s \in Stems : Replace(s) \/ UserChange(s) \/ \E b \in Answers : Answer(s, b)
  \/ Complete \/ End \/ NextDay

Spec == Init /\ [][Next]_vars
=============================================================================
