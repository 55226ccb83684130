---------------------------- MODULE SodirDerived ----------------------------
(***************************************************************************)
(* The derived outputs of sodir/derived/: status timelines, reserves       *)
(* version chains, and the lifecycle windows and snapshots of the anchor   *)
(* tables.  Each is a function of the tables in the CSV directory.         *)
(***************************************************************************)
EXTENDS SodirTables, Integers

CONSTANT NumberOf   \* the number a version text is parsed as, for the texts that are numbers

ASSUME NumberOfAssumption ==
    DOMAIN NumberOf \subseteq Nat \ {0} /\ NumberOf \in [DOMAIN NumberOf -> Nat \ {0}]

YearOf(day) == day \div YearDays
Jan1(year) == year * YearDays

\* event_date and fact_date: a day before the first year of activity (1960
\* in the code) is Sodir's spelling of "unknown".
FactDay(day) == IF YearOf(day) >= 1 THEN day ELSE NoDate
YearStart(year) == IF year >= 1 THEN Jan1(year) ELSE NoDate

MinDay(days) == LET known == days \ {NoDate} IN IF known = {} THEN NoDate ELSE Min(known)

NewTable(cols, rows) == [cols |-> cols, rows |-> rows]

(***************************************************************************)
(* Status timelines.                                                       *)
(***************************************************************************)
WellEvents ==
    <<[col |-> "wlbDrillPerApprovedPermitDate", label |-> "PERMITTED"],
      [col |-> "wlbEntryPreDrillDate",          label |-> "PREDRILLING"],
      [col |-> "wlbCompPreDrillDate",           label |-> "PREDRILLED"],
      [col |-> "wlbEntryDate",                  label |-> "DRILLING"],
      [col |-> "wlbCompletionDate",             label |-> "COMPLETED"],
      [col |-> "wlbDateReclass",                label |-> "RE-CLASS"],
      [col |-> "wlbPluggedDate",                label |-> "PLUGGED"],
      [col |-> "wlbPluggedAbandonDate",         label |-> "P&A"]>>

FacilityEvents ==
    <<[col |-> "fclStartupDate",  label |-> "IN SERVICE"],
      [col |-> "fclDateShutdown", label |-> "SHUT DOWN"],
      [col |-> "fclDateRemoved",  label |-> "REMOVED"]>>

ReclassStatuses == {"RE-CLASS TO DEV", "RE-CLASS TO TEST"}
WellOutcomes == {"JUNKED", "BLOWOUT"}
FacilityPreService == {"FUTURE", "FABRICATION", "INSTALLATION"}

Outcome(status) == IF status \in WellOutcomes THEN status ELSE Blank

\* Variant of Dated: events stay in the order of the columns.
DatedByColumn(days, labels, current) ==
    LET order == InOrder({i \in DOMAIN days : days[i] # NoDate}, <)
    IN  [n \in DOMAIN order |->
           [from   |-> days[order[n]],
            status |-> IF labels[order[n]] = "RE-CLASS" THEN current ELSE labels[order[n]],
            basis  |-> "reported"]]

\* The dated events in order of day, events of one day in lifecycle order.
\* The re-class event carries the current status and counts only under one.
Dated(days, labels, current) ==
    LET Counted(i) == days[i] # NoDate /\ (labels[i] = "RE-CLASS" => current \in ReclassStatuses)
        Sooner(i, j) == days[i] < days[j] \/ (days[i] = days[j] /\ i < j)
        order == InOrder({i \in DOMAIN days : Counted(i)}, Sooner)
    IN  [n \in DOMAIN order |->
           [from   |-> days[order[n]],
            status |-> IF labels[order[n]] = "RE-CLASS" THEN current ELSE labels[order[n]],
            basis  |-> "reported"]]

\* The current status closes a timeline that does not end in it: in place of
\* a final COMPLETED period, else from the last event's day.
Closed(dated, current) ==
    LET n == Len(dated)
        already == current \in ReclassStatuses /\ \E i \in 1..n : dated[i].status = current
        inferred == [from |-> dated[n].from, status |-> current, basis |-> "inferred-start"]
    IN  IF n = 0 \/ current = Blank \/ dated[n].status = current \/ already
          THEN dated
          ELSE IF dated[n].status = "COMPLETED"
                 THEN [dated EXCEPT ![n] = inferred]
                 ELSE Append(dated, inferred)

Timeline(days, labels, current) ==
    LET events == Closed(Dated(days, labels, current), current)
    IN  [i \in DOMAIN events |->
           [from   |-> events[i].from,
            to     |-> IF i < Len(events) THEN events[i + 1].from ELSE NoDate,
            status |-> events[i].status,
            basis  |-> events[i].basis]]

WellTimeline(row) ==
    LET status == Cell(row, "wlbStatus")
    IN  Timeline([i \in DOMAIN WellEvents |-> FactDay(Day(row, WellEvents[i].col))],
                 [i \in DOMAIN WellEvents |-> WellEvents[i].label],
                 IF status \in WellOutcomes THEN Blank ELSE status)

\* A startup date on a facility not yet in service is a plan.
FacilityTimeline(row) ==
    LET phase == Cell(row, "fclPhase")
        EventDay(i) == IF i = 1 /\ phase \in FacilityPreService
                         THEN NoDate
                         ELSE FactDay(Day(row, FacilityEvents[i].col))
    IN  Timeline([i \in DOMAIN FacilityEvents |-> EventDay(i)],
                 [i \in DOMAIN FacilityEvents |-> FacilityEvents[i].label],
                 phase)

PipelinePeriods(row) ==
    LET from == FactDay(Day(row, "pplCurrentPhaseFromDate"))
        phase == Cell(row, "pplCurrentPhase")
    IN  IF from = NoDate \/ phase = Blank THEN <<>>
          ELSE <<[from |-> from, to |-> NoDate, status |-> phase, basis |-> "reported"]>>

PeriodCols(key) == {key, "status", "validFrom", "validTo", "basis"}

PeriodRow(key, id, p) ==
    [c \in PeriodCols(key) |->
        CASE c = "status" -> p.status [] c = "validFrom" -> p.from
          [] c = "validTo" -> p.to    [] c = "basis" -> p.basis [] OTHER -> id]

PeriodTable(rows, key, Periods(_)) ==
    NewTable(PeriodCols(key),
          FlatRows([i \in DOMAIN rows |->
              LET ps == Periods(rows[i])
              IN  [j \in DOMAIN ps |-> PeriodRow(key, rows[i][key], ps[j])]]))

WellboreStatusHst(dir) == PeriodTable(Rows(dir, "wellbore"), "wlbNpdidWellbore", WellTimeline)
FacilityStatusHst(dir) == PeriodTable(Rows(dir, "facility"), "fclNpdidFacility", FacilityTimeline)
PipelineStatusHst(dir) == PeriodTable(Rows(dir, "pipeline"), "pplNpdidPipeline", PipelinePeriods)

StatusesOf(rows, Periods(_)) ==
    UNION {LET ps == Periods(rows[i]) IN {ps[j].status : j \in DOMAIN ps} : i \in DOMAIN rows}

\* The status nodes: the lifecycle list, then whatever else the timelines use.
WellStatusOrder ==
    {"PERMITTED", "PREDRILLING", "PREDRILLED", "DRILLING", "COMPLETED", "ONLINE/OPERATIONAL",
     "PRODUCING", "INJECTING", "PRODUCING/INJECTING", "SUSPENDED", "CLOSED", "PLUGGED", "P&A",
     "WILL NEVER BE DRILLED"} \cup ReclassStatuses

WellStatus(dir) == WellStatusOrder \cup StatusesOf(Rows(dir, "wellbore"), WellTimeline)

FacilityStatus(dir) ==
    StatusesOf(Rows(dir, "facility"), FacilityTimeline)
        \cup StatusesOf(Rows(dir, "pipeline"), PipelinePeriods)

\* The wellbore's window opens with its first period and stays open; a well
\* with no dated event gets an empty window on its register date (2000-01-01
\* in the code when it has none).
WellboreFallback == Jan1(2)

Wellbore(dir) ==
    LET t == dir["wellbore"]
        Periods(i) == WellTimeline(t.rows[i])
        Anchor(i) == LET d == Day(t.rows[i], "wlbDateUpdated")
                     IN  IF d = NoDate THEN WellboreFallback ELSE d
        Derived(i, col) ==
            CASE col = "wlbOutcome" -> Outcome(Cell(t.rows[i], "wlbStatus"))
              [] Periods(i) = <<>>  -> Anchor(i)
              [] col = "existsFrom" -> Periods(i)[1].from
              [] col = "existsTo"   -> NoDate
    IN  SetColumns(t, {"wlbOutcome", "existsFrom", "existsTo"}, Derived)

(***************************************************************************)
(* Reserves version chains: a version is in force from its date to the     *)
(* entity's next version.  A version text is its place in the order of     *)
(* texts, 0 a blank one; a number is its place in the order of numbers, 1  *)
(* is i64::MIN.  The chain orders the versions of one date by number, none *)
(* first, and then by text; the snapshot of a field takes i64::MIN for no  *)
(* number and does not look at the text.                                   *)
(***************************************************************************)
Chains ==
    [field_reserves |-> [entity |-> "fldNpdidField", date |-> "fldDateOffResEstDisplay",
                         order |-> "fldVersion"],
     discovery_reserves |-> [entity |-> "dscNpdidDiscovery", date |-> "dscDateOffResEstDisplay",
                             order |-> "none"],
     field_reserves_company |-> [entity |-> "fldNpdidField", date |-> "cmpDateOffResEstDisplay",
                                 order |-> "none"]]

\* The text parsed as f64, cast to i64; 0: it is no number.
VersionNumber(text) == IF text \in DOMAIN NumberOf THEN NumberOf[text] ELSE 0

Version(row, spec) ==
    LET text == Day(row, spec.order) IN <<Day(row, spec.date), VersionNumber(text), text>>

VersionBefore(v, w) ==
    \/ v[1] < w[1]
    \/ v[1] = w[1] /\ v[2] < w[2]
    \/ v[1] = w[1] /\ v[2] = w[2] /\ v[3] < w[3]

NextVersionDay(rows, spec, i) ==
    LET v == Version(rows[i], spec)
        later == {w \in {Version(rows[j], spec) :
                           j \in {j \in DOMAIN rows : /\ rows[j][spec.entity] = rows[i][spec.entity]
                                                      /\ Day(rows[j], spec.date) # NoDate}} :
                    VersionBefore(v, w)}
    IN  MinDay({w[1] : w \in later})

ReservesChain(dir, stem) ==
    LET t == dir[stem]
        spec == Chains[stem]
        FromDay(i) == Day(t.rows[i], spec.date)
        ToDay(i) == IF FromDay(i) = NoDate THEN NoDate ELSE NextVersionDay(t.rows, spec, i)
    IN  SetColumn(SetColumn(t, "existsFrom", FromDay), "existsTo", ToDay)

\* Variant of LatestReserves: versions of one date are not told apart.
LatestByDate(rows, field) ==
    LET DayOf(i) == Day(rows[i], "fldDateOffResEstDisplay")
        dated == {i \in DOMAIN rows : rows[i]["fldNpdidField"] = field /\ DayOf(i) # NoDate}
        best == {i \in dated : \A j \in dated : DayOf(j) <= DayOf(i)}
    IN  IF best = {} THEN 0 ELSE Min(best)

RankNumber(text) == IF VersionNumber(text) = 0 THEN 1 ELSE VersionNumber(text)

ReservesRank(row) == <<Day(row, "fldDateOffResEstDisplay"), RankNumber(Day(row, "fldVersion"))>>

RankBefore(v, w) == v[1] < w[1] \/ (v[1] = w[1] /\ v[2] < w[2])

\* 0: no snapshot; else the first of the rows with the highest rank.
LatestReserves(rows, field) ==
    LET dated == {i \in DOMAIN rows : /\ rows[i]["fldNpdidField"] = field
                                      /\ Day(rows[i], "fldDateOffResEstDisplay") # NoDate}
        best == {i \in dated : \A j \in dated :
                   ~RankBefore(ReservesRank(rows[i]), ReservesRank(rows[j]))}
    IN  IF best = {} THEN 0 ELSE Min(best)

(***************************************************************************)
(* Anchors: the lifecycle windows of licence, discovery, survey and field. *)
(***************************************************************************)
\* Per key, the first day its history names, rows kglite would refuse aside.
Earliest(dir, stem, key, id, from, to) ==
    LET rows == Rows(dir, stem)
    IN  IF id = NoId THEN NoDate
          ELSE MinDay({FactDay(Day(rows[i], from)) :
                        i \in {i \in DOMAIN rows : /\ Id(rows[i], key) = id
                                                    /\ ~Inverted(rows[i], from, to)}})

WithWindow(t, FromDay(_), ToDay(_)) ==
    SetColumn(SetColumn(UpperMainAreas(t), "existsFrom", FromDay), "existsTo", ToDay)

OpenEnd(i) == NoDate

\* Valid to the day after the closed bound, never before the grant.
Licence(dir) ==
    LET t == dir["licence"]
        Granted(i) == FactDay(Day(t.rows[i], "prlDateGranted"))
        Last(i) == FactDay(Day(t.rows[i], "prlDateValidTo"))
        ToDay(i) == IF Last(i) = NoDate THEN NoDate
                      ELSE Max({Last(i) + 1, Granted(i)})
    IN  WithWindow(t, Granted, ToDay)

\* The completion of the discovery well (its last dated row) counts in the
\* discovery year only; an operator period or a field inclusion may start
\* earlier.
WellDone(dir, well) ==
    LET rows == Rows(dir, "wellbore")
        Done(i) == FactDay(Day(rows[i], "wlbCompletionDate"))
        hits == {i \in DOMAIN rows : rows[i]["wlbNpdidWellbore"] = well /\ Done(i) # NoDate}
    IN  IF hits = {} THEN NoDate ELSE Done(Max(hits))

Discovery(dir) ==
    LET t == dir["discovery"]
        Jan1Of(i) == YearStart(Day(t.rows[i], "dscDiscoveryYear"))
        DoneOf(i) == WellDone(dir, Id(t.rows[i], "wlbNpdidWellbore"))
        Base(i) == IF /\ DoneOf(i) # NoDate
                      /\ Jan1Of(i) # NoDate
                      /\ YearOf(DoneOf(i)) = YearOf(Jan1Of(i))
                     THEN DoneOf(i) ELSE Jan1Of(i)
        First(i, stem) == Earliest(dir, stem, "dscNpdidDiscovery", t.rows[i]["dscNpdidDiscovery"],
                                   Intervals[stem].from, Intervals[stem].to)
        FromDay(i) == MinDay({Base(i), First(i, "discovery_operator_hst"),
                              First(i, "field_discoveries_incl_hst")})
    IN  WithWindow(t, FromDay, OpenEnd)

Survey(dir) ==
    LET t == dir["seismic_acquisition"]
        FromDay(i) == MinDay({FactDay(Day(t.rows[i], "seaDateStarting")),
                              FactDay(Day(t.rows[i], "seaPlanFromDate"))})
    IN  WithWindow(t, FromDay, OpenEnd)

\* Variant of FieldHistories: the licensees are forgotten.
HistoriesNoLicensee ==
    {"field_activity_status_hst", "field_operator_hst", "field_owner_hst",
     "field_discoveries_incl_hst"}

FieldHistories ==
    {"field_activity_status_hst", "field_licensee_hst", "field_operator_hst",
     "field_owner_hst", "field_discoveries_incl_hst"}

FieldFirstFact(dir, id) ==
    MinDay({Earliest(dir, s, "fldNpdidField", id, Intervals[s].from, Intervals[s].to) :
              s \in FieldHistories})

\* Net production of a field: its monthly rows only.
ProducedOE(dir, id) ==
    LET rows == Rows(dir, "profiles")
        months == {i \in DOMAIN rows : /\ rows[i]["prfPeriod"] = "month"
                                       /\ rows[i]["prfInformationCarrierKind"] = "FIELD"
                                       /\ rows[i]["prfNpdidInformationCarrier"] = id}
    IN  MapThenSumSet(LAMBDA i : rows[i]["prfPrdOeNetMillSm3"], months)

\* Two of the fourteen columns a field takes from its latest reserves row.
FieldReserveColumns == {"fldRecoverableOE", "fldRemainingOE"}

\* The snapshot columns are empty without a dated reserves row, the produced
\* volume unless positive.
Field(dir) ==
    LET t == dir["field"]
        FieldId(i) == t.rows[i]["fldNpdidField"]
        reserves == Rows(dir, "field_reserves")
        FromLatest(i, col) == LET n == LatestReserves(reserves, FieldId(i))
                              IN  IF n = 0 THEN NoDate ELSE Day(reserves[n], col)
        Derived(i, col) ==
            CASE col = "fldReservesDate"    -> FromLatest(i, "fldDateOffResEstDisplay")
              [] col = "fldReservesVersion" -> FromLatest(i, "fldVersion")
              [] col = "fldProducedOE"      -> ProducedOE(dir, FieldId(i))
              [] OTHER                      -> FromLatest(i, col)
        FromDay(i) == LET d == FieldFirstFact(dir, FieldId(i))
                      IN  IF d = NoDate THEN YearStart(Day(t.rows[i], "fldDiscoveryYear")) ELSE d
    IN  WithWindow(SetColumns(t, FieldReserveColumns
                                   \cup {"fldReservesDate", "fldReservesVersion", "fldProducedOE"},
                              Derived),
                   FromDay, OpenEnd)
=============================================================================
