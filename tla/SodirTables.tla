---------------------------- MODULE SodirTables ----------------------------
(***************************************************************************)
(* The CSV tables of a Sodir workdir and what preprocessing does to them:  *)
(* the four foreign-key joins (sodir/preprocess.rs) and the valid-time     *)
(* copies (sodir/temporal.rs).                                             *)
(*                                                                         *)
(* A table is a record of its columns and its rows, a row a function from  *)
(* columns to cells.  A directory is a function from the stems of the      *)
(* files that exist to their tables.  A cell of a date column holds what   *)
(* parse_date reads from it, a day number, or NoDate for a cell it cannot  *)
(* read; a column of numeric ids holds numbers, NoId when empty; every     *)
(* other cell is a string, Blank when empty.                               *)
(***************************************************************************)
EXTENDS Lists, TLC

CONSTANT YearDays   \* days of a (short) year of the model

ASSUME YearDaysAssumption == YearDays \in Nat \ {0}

NoDate == 0
NoId == 0
Blank == ""

Put(dir, stem, table) ==
    [s \in DOMAIN dir \cup {stem} |-> IF s = stem THEN table ELSE dir[s]]

Remove(dir, stem) == [s \in DOMAIN dir \ {stem} |-> dir[s]]

\* The directory as seen by code that opens these files only.
Only(dir, stems) == [s \in DOMAIN dir \cap stems |-> dir[s]]

Rows(dir, stem) == IF stem \in DOMAIN dir THEN dir[stem].rows ELSE <<>>

RowSet(dir, stem) == LET rows == Rows(dir, stem) IN {rows[i] : i \in DOMAIN rows}

\* read_csv as the getters see it: a missing column reads as empty.
Cell(row, col) == IF col \in DOMAIN row THEN row[col] ELSE Blank
Day(row, col) == IF col \in DOMAIN row THEN row[col] ELSE NoDate
Id(row, col) == IF col \in DOMAIN row THEN row[col] ELSE NoId

SetColumns(t, cols, CellOf(_, _)) ==
    [cols |-> t.cols \cup cols,
     rows |-> [i \in DOMAIN t.rows |->
                 [c \in t.cols \cup cols |->
                    IF c \in cols THEN CellOf(i, c) ELSE t.rows[i][c]]]]

SetColumn(t, col, CellOf(_)) == SetColumns(t, {col}, LAMBDA i, c : CellOf(i))

ColumnHasValue(t, col) ==
    col \in t.cols /\ \E i \in DOMAIN t.rows : t.rows[i][col] # Blank

(***************************************************************************)
(* The joins.  Lookup keeps the last of several rows with one key, and no  *)
(* entry for an empty key or value.                                        *)
(***************************************************************************)
Lookup(t, key, val) ==
    LET Hits(k) == {i \in DOMAIN t.rows : t.rows[i][key] = k /\ t.rows[i][val] # Blank}
        keys == IF {key, val} \subseteq t.cols
                  THEN {t.rows[i][key] : i \in DOMAIN t.rows} \ {Blank}
                  ELSE {}
    IN  [k \in {k \in keys : Hits(k) # {}} |-> t.rows[Max(Hits(k))][val]]

MapColumn(t, keyCol, lookup, newCol) ==
    SetColumn(t, newCol,
              LAMBDA i : LET k == Cell(t.rows[i], keyCol)
                         IN  IF k \in DOMAIN lookup THEN lookup[k] ELSE Blank)

LicenceChildren ==
    <<"petreg_licence_message", "petreg_licence_licensee", "petreg_licence_operator">>

\* The parent's key is the position of the row at the time it is added.
NumberLicences(dir) ==
    IF "petreg_licence" \in DOMAIN dir /\ "ptl_id" \notin dir["petreg_licence"].cols
      THEN Put(dir, "petreg_licence",
               SetColumn(dir["petreg_licence"], "ptl_id", LAMBDA i : ToString(i)))
      ELSE dir

\* A child is joined once: from then on the column is there.
JoinLicenceChild(dir, child) ==
    IF /\ {"petreg_licence", child} \subseteq DOMAIN dir
       /\ "ptl_id" \notin dir[child].cols
      THEN Put(dir, child,
               MapColumn(dir[child], "ptlPetregLicenceID",
                         Lookup(dir["petreg_licence"], "ptlPetregLicenceID", "ptl_id"),
                         "ptl_id"))
      ELSE dir

\* The other three joins run again while the column holds no value.
JoinByName(dir, parent, nameCol, idCol, child, refCol, fkCol) ==
    IF /\ {parent, child} \subseteq DOMAIN dir
       /\ ~ColumnHasValue(dir[child], fkCol)
      THEN Put(dir, child,
               MapColumn(dir[child], refCol, Lookup(dir[parent], nameCol, idCol), fkCol))
      ELSE dir

AddSeismicProgressFk(dir) ==
    JoinByName(dir, "seismic_acquisition", "seaName", "seaNpdidSurvey",
               "seismic_acquisition_progress", "seaSurveyName", "seaNpdidSurvey")

AddChronoParentFk(dir) ==
    IF /\ "strat_chrono" \in DOMAIN dir
       /\ {"strat_chrono_name", "strat_chrono_parent_name"} \subseteq dir["strat_chrono"].cols
      THEN JoinByName(dir, "strat_chrono", "strat_chrono_name", "NPDID_strat_chrono",
                      "strat_chrono", "strat_chrono_parent_name", "strat_chrono_parent_npdid")
      ELSE dir

AddAnnouncedBlockFk(dir) ==
    JoinByName(dir, "block", "blcName", "blcNpdidBlock",
               "announced_history", "block", "blcNpdidBlock")

(***************************************************************************)
(* Valid-time copies.  An interval table names the columns of its closed   *)
(* bounds and the entity whose history its rows are.                       *)
(***************************************************************************)
ClosedInterval(from, to, entity) == [from |-> from, to |-> to, entity |-> entity]

Intervals ==
    [field_licensee_hst                |-> ClosedInterval("fldLicenseeFrom", "fldLicenseeTo", "fldNpdidField"),
     field_operator_hst                |-> ClosedInterval("fldOperatorFrom", "fldOperatorTo", "fldNpdidField"),
     field_discoveries_incl_hst        |-> ClosedInterval("fldDiscoveryInclFromDate", "fldDiscoveryInclToDate", "fldNpdidField"),
     field_activity_status_hst         |-> ClosedInterval("fldStatusFromDate", "fldStatusToDate", "fldNpdidField"),
     field_owner_hst                   |-> ClosedInterval("fldOwnershipFromDate", "fldOwnershipToDate", "fldNpdidField"),
     discovery_operator_hst            |-> ClosedInterval("dscOperatorFrom", "dscOperatorTo", "dscNpdidDiscovery"),
     discovery_poly_hst                |-> ClosedInterval("dscDateValidFrom", "dscDateValidTo", "dscNpdidDiscovery"),
     licence_licensee_hst              |-> ClosedInterval("prlLicenseeDateValidFrom", "prlLicenseeDateValidTo", "prlNpdidLicence"),
     licence_operator_hst              |-> ClosedInterval("prlOperDateValidFrom", "prlOperDateValidTo", "prlNpdidLicence"),
     licence_phase_hst                 |-> ClosedInterval("prlDatePhaseValidFrom", "prlDatePhaseValidTo", "prlNpdidLicence"),
     licence_area_poly_hst             |-> ClosedInterval("prlAreaPolyDateValidFrom", "prlAreaPolyDateValidTo", "prlNpdidLicence"),
     tuf                               |-> ClosedInterval("tufDateValidFrom", "tufDateValidTo", "tufNpdidTuf"),
     tuf_operator_hst                  |-> ClosedInterval("tufOperDateValidFrom", "tufOperDateValidTo", "tufNpdidTuf"),
     tuf_owner_hst                     |-> ClosedInterval("tufOwnerDateValidFrom", "tufOwnerDateValidTo", "tufNpdidTuf"),
     business_arrangement_area         |-> ClosedInterval("baaDateValidFrom", "baaDateValidTo", "baaNpdidBsnsArrArea"),
     business_arrangement_history      |-> ClosedInterval("baaAreaPolyDateValidFrom", "baaAreaPolyDateValidTo", "baaNpdidBsnsArrArea"),
     business_arrangement_licensee_hst |-> ClosedInterval("baaLicenseeDateValidFrom", "baaLicenseeDateValidTo", "baaNpdidBsnsArrArea"),
     business_arrangement_operator     |-> ClosedInterval("baaOperatorDateValidFrom", "baaOperatorDateValidTo", "baaNpdidBsnsArrArea"),
     afex_area                         |-> ClosedInterval("afxDateValidFrom", "afxDateValidTo", "afxNpdidAfexArea"),
     afex_area_history                 |-> ClosedInterval("afxAreaPolyDateValidFrom", "afxAreaPolyDateValidTo", "afxNpdidAfexArea"),
     petreg_licence                    |-> ClosedInterval("ptlDateValidFrom", "ptlDateValidTo", "ptlPetregLicenceID"),
     seismic_acquisition_fishery       |-> ClosedInterval("seaFisheryExpertFromDate", "seaFisheryExpertToDate", "seaNpdidSurvey")]

TemporalStems == DOMAIN Intervals

(***************************************************************************)
(* A table as the service publishes it: numbers in the columns of ids and  *)
(* days and in fldVersion (the place of its text, see SodirDerived), and   *)
(* the columns that name its entities.                                     *)
(***************************************************************************)
DayColumns == UNION {{Intervals[s].from, Intervals[s].to} : s \in TemporalStems}

NumberColumns ==
    DayColumns \cup
    {"fldNpdidField", "dscNpdidDiscovery", "fldDateOffResEstDisplay", "fldVersion",
     "dscDateFromInclInField", "dscDiscoveryYear",
     "wlbDrillPerApprovedPermitDate", "wlbEntryPreDrillDate", "wlbCompPreDrillDate", "wlbEntryDate",
     "wlbCompletionDate", "wlbDateReclass", "wlbPluggedDate", "wlbPluggedAbandonDate",
     "fclStartupDate", "fclDateShutdown", "fclDateRemoved"}

IsTable(t) ==
    /\ DOMAIN t = {"cols", "rows"}
    /\ t.rows \in Seq({t.rows[i] : i \in DOMAIN t.rows})
    /\ \A i \in DOMAIN t.rows :
         /\ DOMAIN t.rows[i] = t.cols
         /\ \A c \in NumberColumns \cap t.cols : t.rows[i][c] \in Nat

KeyColumns(stem) ==
    CASE stem = "field"          -> {"fldNpdidField"}
      [] stem = "discovery"      -> {"dscNpdidDiscovery"}
      [] stem = "wellbore"       -> {"wlbNpdidWellbore"}
      [] stem = "facility"       -> {"fclNpdidFacility"}
      [] stem = "field_reserves" ->
           {"fldNpdidField", "fldDateOffResEstDisplay", "fldVersion", "fldRecoverableOE"}
      [] stem = "field_discoveries_incl_hst" -> {"fldNpdidField", "dscNpdidDiscovery"}
      [] stem \in TemporalStems \ {"field_discoveries_incl_hst"} -> {Intervals[stem].entity}
      [] OTHER -> {}

CopyOf(stem) == "_derived_temporal_" \o stem
Rejects == "_derived_temporal_rejects"

\* source_for_derived
SourceOfCopy(stem) == {s \in TemporalStems : CopyOf(s) = stem}

\* More than a day short: kglite would refuse the interval.
Inverted(row, from, to) ==
    LET f == Day(row, from)
        t == Day(row, to)
    IN  f # NoDate /\ t # NoDate /\ t + 1 < f

\* A table without its bound columns is copied unchanged.
Keeps(t, stem, row) ==
    LET iv == Intervals[stem]
    IN  {iv.from, iv.to} \subseteq t.cols => ~Inverted(row, iv.from, iv.to)

MainAreaColumns == {"fldMainArea", "nmaName", "prlMainArea", "blcMainArea"}

Upper(area) ==
    CASE area = "North sea" -> "NORTH SEA" [] area = "Barents Sea" -> "BARENTS SEA"
      [] OTHER -> area

UpperMainAreas(t) ==
    [t EXCEPT !.rows = [i \in DOMAIN @ |->
        [c \in DOMAIN @[i] |-> IF c \in MainAreaColumns THEN Upper(@[i][c]) ELSE @[i][c]]]]

FilterTable(t, stem) ==
    [t EXCEPT !.rows = Select(@, LAMBDA row : Keeps(t, stem, row))]

\* The log names each removed row by its table, line and entity.
RejectRows(dir, targets) ==
    UNION {LET Row(i) == dir[s].rows[i]
           IN  {[table |-> s, row |-> i, entity |-> Cell(Row(i), Intervals[s].entity)] :
                  i \in {i \in DOMAIN dir[s].rows : ~Keeps(dir[s], s, Row(i))}} :
           s \in targets \cap DOMAIN dir}

TemporalCopy(t, stem) == UpperMainAreas(FilterTable(t, stem))

\* A copy whose source is gone is removed, not left stale.
WriteCopy(dir, stem) ==
    IF stem \in DOMAIN dir
      THEN Put(dir, CopyOf(stem), TemporalCopy(dir[stem], stem))
      ELSE Remove(dir, CopyOf(stem))
=============================================================================
