----------------------------- MODULE SodirVolume -----------------------------
(***************************************************************************)
(* The volume projection of sodir/volume.rs: one row per discovery, of     *)
(* which those that carry a volume are meant not to overlap.  The          *)
(* components of a volume are two of the five; NoValue is a missing one,   *)
(* zero a reported one.                                                    *)
(***************************************************************************)
EXTENDS SodirEnhance

NoValue == -1

Components == {"Oil", "Gas"}
DiscoveryColumn(c) == CASE c = "Oil" -> "dscRecoverableOil" [] c = "Gas" -> "dscRecoverableGas"
FieldColumn(c) == CASE c = "Oil" -> "fldRecoverableOil" [] c = "Gas" -> "fldRecoverableGas"

Values(row, field) ==
    [c \in Components |->
        LET col == IF field THEN FieldColumn(c) ELSE DiscoveryColumn(c)
        IN  IF col \in DOMAIN row THEN row[col] ELSE NoValue]

NoVolume == [c \in Components |-> NoValue]

(***************************************************************************)
(* Snapshots.  Rows of one date with the same class and values count once; *)
(* a class with two sets of values makes the date invalid, as do rows with *)
(* no value at all.  The latest valid date is taken.                       *)
(***************************************************************************)
NoSnapshot == [date |-> NoDate, values |-> NoVolume, classes |-> {}, duplicates |-> 0]

Sums(semantic) ==
    [c \in Components |->
        LET present == {s \in semantic : s[2][c] # NoValue}
        IN  IF present = {} THEN NoValue ELSE MapThenSumSet(LAMBDA s : s[2][c], present)]

SnapshotOf(date, count, semantic, sums) ==
    IF sums = NoVolume \/ \E s, r \in semantic : s[1] = r[1] /\ s # r
      THEN NoSnapshot
      ELSE [date |-> date, values |-> sums, classes |-> {s[1] : s \in semantic} \ {Blank},
            duplicates |-> count - Cardinality(semantic)]

SnapshotAt(rows, field, date) ==
    LET Class(row) == IF field THEN Blank ELSE Cell(row, "dscReservesRC")
        semantic == {<<Class(rows[i]), Values(rows[i], field)>> : i \in DOMAIN rows}
    IN  SnapshotOf(date, Len(rows), semantic, Sums(semantic))

Latest(snapshots) ==
    IF snapshots = {} THEN NoSnapshot
      ELSE CHOOSE s \in snapshots : \A r \in snapshots : r.date <= s.date

LatestSnapshot(rows, dateCol, field) ==
    Latest({SnapshotAt(Select(rows, LAMBDA row : Day(row, dateCol) = d), field, d) :
              d \in {Day(rows[i], dateCol) : i \in DOMAIN rows} \ {NoDate}} \ {NoSnapshot})

FieldSnapshot(dir, f) ==
    LatestSnapshot(Select(Rows(dir, "field_reserves"), LAMBDA row : row["fldNpdidField"] = f),
                   "fldDateOffResEstDisplay", TRUE)

(***************************************************************************)
(* Redirects: a discovery's reserves may be included in another's.  A      *)
(* chain that leaves the known discoveries or closes on itself has no root *)
(* and drops its reserves rows; the discovery then stands for itself.      *)
(***************************************************************************)
KnownIds(dir) == DiscoveryIds(dir) \ {NoId}

RedirectIn(rows, d) ==
    LET n == LastRow({i \in DOMAIN rows : /\ rows[i]["dscNpdidDiscovery"] = d
                                          /\ Id(rows[i], "dscNpdidResInclInDisc") # NoId})
    IN  IF n = 0 THEN d ELSE rows[n]["dscNpdidResInclInDisc"]

RedirectMap(dir) == [d \in DiscoveryIds(dir) |-> RedirectIn(Rows(dir, "discovery"), d)]

ReportingRoot(redirect, known, d) ==
    LET Toward(c) == IF c \notin known \/ redirect[c] = c THEN c
                       ELSE IF redirect[c] \in known THEN redirect[c] ELSE NoId
        Follow[n \in 0..Cardinality(known)] == IF n = 0 THEN d ELSE Toward(Follow[n - 1])
        end == Follow[Cardinality(known)]
    IN  IF Toward(end) = end THEN end ELSE NoId

RootMap(redirect, known, ids) == [d \in ids |-> ReportingRoot(redirect, known, d)]

ReservesOf(rows, d) == Select(rows, LAMBDA row : row["dscNpdidDiscovery"] = d)

(***************************************************************************)
(* Chronology: which discovery of a field came first.                      *)
(***************************************************************************)
\* Discoveries are sorted by id; of several rows the first is kept.
RowOf(dir, d) == DiscoveryRows(dir, d)[1]

InclusionDay(dir, f, d) ==
    LET rows == RowSet(dir, "field_discoveries_incl_hst")
    IN  MinDay({Day(row, "fldDiscoveryInclFromDate") :
                  row \in {row \in rows : f # NoId /\ row["fldNpdidField"] = f
                                          /\ row["dscNpdidDiscovery"] = d}})

CompletionDay(dir, well) ==
    LET wells == Rows(dir, "wellbore")
        n == LastRow({i \in DOMAIN wells : /\ well # NoId
                                           /\ wells[i]["wlbNpdidWellbore"] = well
                                           /\ Day(wells[i], "wlbCompletionDate") # NoDate})
    IN  IF n = 0 THEN NoDate ELSE wells[n]["wlbCompletionDate"]

ChronologyBases ==
    <<"discovery_field_inclusion", "field_inclusion_history", "designated_well_completion",
      "discovery_year">>

ChronologyDay(dir, row, basis) ==
    CASE basis = "discovery_field_inclusion"  -> Day(row, "dscDateFromInclInField")
      [] basis = "field_inclusion_history"    ->
           InclusionDay(dir, Id(row, "fldNpdidField"), row["dscNpdidDiscovery"])
      [] basis = "designated_well_completion" -> CompletionDay(dir, Id(row, "wlbNpdidWellbore"))
      [] basis = "discovery_year"             ->
           LET y == Day(row, "dscDiscoveryYear") IN IF y = NoDate THEN NoDate ELSE Jan1(y)

FirstKnown(days) ==
    LET known == {n \in DOMAIN days : days[n] # NoDate}
    IN  IF known = {} THEN [date |-> NoDate, basis |-> "discovery_id"]
          ELSE [date |-> days[Min(known)], basis |-> ChronologyBases[Min(known)]]

Chronology(dir, row) ==
    FirstKnown([n \in DOMAIN ChronologyBases |-> ChronologyDay(dir, row, ChronologyBases[n])])

(***************************************************************************)
(* What the projection knows of every discovery, each map built once.      *)
(***************************************************************************)
OwnSnapshot(rows) == LatestSnapshot(rows, "dscDateOffResEstDisplay", FALSE)

\* The root's own rows if it has any, else the rows redirected to it.
RootSnapshot(reserves, roots, d) ==
    LET Counts(row) == /\ row["dscNpdidDiscovery"] # NoId
                       /\ roots[row["dscNpdidDiscovery"]] = d
        Own(row) == row["dscNpdidDiscovery"] = d
        direct == \E i \in DOMAIN reserves : Counts(reserves[i]) /\ Own(reserves[i])
    IN  OwnSnapshot(Select(reserves, LAMBDA row : Counts(row) /\ (direct => Own(row))))

FactsOf(dir, known, reserves, roots) ==
    [known    |-> known,
     field    |-> [d \in known |-> Id(RowOf(dir, d), "fldNpdidField")],
     root     |-> [d \in known |-> IF roots[d] = NoId THEN d ELSE roots[d]],
     rooted   |-> [d \in known |-> RootSnapshot(reserves, roots, d)],
     own      |-> [d \in known |-> OwnSnapshot(ReservesOf(reserves, d))],
     fallback |-> [d \in known |-> FieldSnapshot(dir, Id(RowOf(dir, d), "fldNpdidField"))],
     came     |-> [d \in known |-> Chronology(dir, RowOf(dir, d))]]

Facts(dir) ==
    LET reserves == Rows(dir, "discovery_reserves")
    IN  FactsOf(dir, KnownIds(dir), reserves,
                RootMap(RedirectMap(dir), KnownIds(dir),
                        KnownIds(dir) \cup {reserves[i]["dscNpdidDiscovery"] : i \in DOMAIN reserves}))

\* Dated before undated, then by day, then by id.
CameBefore(facts, d, e) ==
    LET dd == facts.came[d].date
        ed == facts.came[e].date
    IN  \/ dd # NoDate /\ (ed = NoDate \/ dd < ed)
        \/ dd = ed /\ d < e

IsEarliest(facts, d) ==
    /\ facts.field[d] # NoId
    /\ \A e \in facts.known \ {d} : facts.field[e] = facts.field[d] => CameBefore(facts, d, e)

(***************************************************************************)
(* Projection.                                                             *)
(***************************************************************************)
EmitsOwn(facts, d) ==
    /\ facts.field[d] = NoId \/ IsEarliest(facts, d)
    /\ facts.root[d] = d
    /\ facts.rooted[d] # NoSnapshot

\* Variant of EmitsFieldFallback: the reporting discovery is not asked.
EmitsFallbackAlways(facts, d) ==
    /\ IsEarliest(facts, d)
    /\ ~EmitsOwn(facts, d)
    /\ facts.fallback[d] # NoSnapshot

EmitsFieldFallback(facts, d) ==
    /\ IsEarliest(facts, d)
    /\ ~EmitsOwn(facts, d)
    /\ facts.root[d] \in facts.known => ~EmitsOwn(facts, facts.root[d])
    /\ facts.fallback[d] # NoSnapshot

NullReason(facts, d) ==
    CASE facts.field[d] # NoId /\ ~IsEarliest(facts, d) -> "later_field_discovery"
      [] facts.root[d] # d /\ EmitsOwn(facts, facts.root[d]) -> "included_in_reporting_discovery"
      [] OTHER -> "no_structured_volume"

VolumeRow(facts, d, method, snapshot, reason) ==
    [dscNpdidDiscovery |-> d, source_discovery_id |-> facts.root[d],
     fldNpdidField |-> facts.field[d], method |-> method, usable |-> method # "no_volume",
     generated |-> method = "field_reserves_fallback",
     estimate_date |-> snapshot.date, recoverable |-> snapshot.values,
     source_duplicate_count |-> snapshot.duplicates, unresolved_reason |-> reason,
     chronology |-> facts.came[d], latest |-> facts.own[d]]

Project(facts, d) ==
    IF EmitsOwn(facts, d)
      THEN VolumeRow(facts, d, "discovery_reserves", facts.rooted[d], Blank)
      ELSE IF EmitsFieldFallback(facts, d)
             THEN VolumeRow(facts, d, "field_reserves_fallback", facts.fallback[d], Blank)
             ELSE VolumeRow(facts, d, "no_volume", NoSnapshot, NullReason(facts, d))

VolumeStem == "_derived_discovery_volume"
VolumeCols ==
    {"dscNpdidDiscovery", "source_discovery_id", "fldNpdidField", "method", "usable",
     "generated", "estimate_date", "recoverable", "source_duplicate_count",
     "unresolved_reason", "chronology", "latest"}

Projected(facts) ==
    LET order == InOrder(facts.known, <) IN [n \in DOMAIN order |-> Project(facts, order[n])]

VolumeSources ==
    {"discovery", "wellbore", "discovery_reserves", "field_reserves",
     "field_discoveries_incl_hst"}

Volumes(dir) == Projected(Facts(Only(dir, VolumeSources)))

\* Without discovery.csv the table is left as it is.
WriteVolumes(dir) ==
    IF "discovery" \in DOMAIN dir
      THEN Put(dir, VolumeStem, NewTable(VolumeCols, Volumes(dir)))
      ELSE dir
=============================================================================
