----------------------------- MODULE SodirEnrich -----------------------------
(***************************************************************************)
(* Public enrichment (sodir/derived/enrich.rs) and the registry of derived *)
(* outputs (sodir/derived/mod.rs): structural elements with unique ids,    *)
(* what encloses what, and the formations of discoveries and plays.        *)
(*                                                                         *)
(* A geometry is the set of grid cells it covers: a polygon covers at      *)
(* least two, a point one, and the empty set stands for a geometry that is *)
(* missing or cannot be parsed.  STRUCTID, KODE and LEVEL are numbers;     *)
(* codes are numbered in their alphabetical order.                         *)
(***************************************************************************)
EXTENDS SodirDerived

(***************************************************************************)
(* Structural elements: one per published id and code, in the order of     *)
(* their first rows.  The id stays with the code alone at the lowest       *)
(* level; every other element gets a negative one.                         *)
(***************************************************************************)
NoStructId == 0
NoLevel == 99

ElementKey(row) == <<row["STRUCTID"], row["KODE"]>>

FirstParts(rows) ==
    {i \in DOMAIN rows : \A j \in 1..(i - 1) : ElementKey(rows[j]) # ElementKey(rows[i])}

Level(row) == IF row["LEVEL"] = NoDate THEN NoLevel ELSE row["LEVEL"]

KeepsId(rows, i) ==
    LET sharing == {j \in FirstParts(rows) : rows[j]["STRUCTID"] = rows[i]["STRUCTID"]}
        top == Min({Level(rows[j]) : j \in sharing})
    IN  /\ rows[i]["STRUCTID"] # NoStructId
        /\ sharing = {i} \/ {j \in sharing : Level(rows[j]) = top} = {i}

\* New ids count down from -1 in the order of the published id and code.
NewId(rows, i) ==
    LET reassigned == {j \in FirstParts(rows) : ~KeepsId(rows, j)}
        Before(j) == LET k == ElementKey(rows[j])
                         own == ElementKey(rows[i])
                     IN  k[1] < own[1] \/ (k[1] = own[1] /\ k[2] < own[2])
    IN  -(Cardinality({j \in reassigned : Before(j)}) + 1)

Parts(rows, i) == {j \in DOMAIN rows : ElementKey(rows[j]) = ElementKey(rows[i])}

MergedGeometry(rows, i) == UNION {rows[j]["wkt_geometry"] : j \in Parts(rows, i)}

Elements(dir) ==
    LET rows == Rows(dir, "structural_elements")
        order == InOrder(FirstParts(rows), LAMBDA i, j : i < j)
    IN  [n \in DOMAIN order |->
           LET i == order[n]
           IN  [id |-> IF KeepsId(rows, i) THEN rows[i]["STRUCTID"] ELSE NewId(rows, i),
                published |-> rows[i]["STRUCTID"],
                first |-> i,
                area |-> MergedGeometry(rows, i)]]

WithElements(t, es) ==
    LET Cells(n, col) == CASE col = "STRUCTID"        -> es[n].id
                           [] col = "STRUCTID_SOURCE" -> es[n].published
                           [] col = "wkt_geometry"    -> es[n].area
    IN  SetColumns([t EXCEPT !.rows = [n \in DOMAIN es |-> t.rows[es[n].first]]],
                   {"STRUCTID", "STRUCTID_SOURCE", "wkt_geometry"}, Cells)

StructuralElements(dir) == WithElements(dir["structural_elements"], Elements(dir))

(***************************************************************************)
(* Containment.                                                            *)
(***************************************************************************)
IsPolygon(area) == Cardinality(area) > 1

Contains(outer, inner) == IsPolygon(outer) /\ inner # {} /\ inner \subseteq outer

ElementAreas(dir) == LET es == Elements(dir) IN {es[n] : n \in DOMAIN es}

Enclosed(areas, rows, key, label) ==
    {[target_type |-> label, target_id |-> p[2][key], STRUCTID |-> p[1].id] :
       p \in {p \in areas \X rows : Contains(p[1].area, p[2]["wkt_geometry"])}}

StructuralEncloses(dir) ==
    LET Within(areas) ==
            Enclosed(areas, RowSet(dir, "wellbore"), "wlbNpdidWellbore", "Wellbore")
              \cup Enclosed(areas, RowSet(dir, "discovery"), "dscNpdidDiscovery", "Discovery")
    IN  NewTable({"STRUCTID", "target_type", "target_id"}, AsRows(Within(ElementAreas(dir))))

PlayEncloses(dir) ==
    NewTable({"plyNPDID", "STRUCTID"},
             AsRows({[plyNPDID |-> p[1]["plyNPDID"], STRUCTID |-> p[2].id] :
                       p \in {p \in RowSet(dir, "play") \X ElementAreas(dir) :
                                Contains(p[1]["wkt_geometry"], p[2].area)}}))

(***************************************************************************)
(* Formations: a name resolves as it is, else with the suffix Sodir's      *)
(* stratigraphy uses, else with the suffix before its qualifier.           *)
(***************************************************************************)
Qualified(name) == CASE name = "X (Y)" -> "X FM (Y)" [] OTHER -> name

Spellings(name) == <<name, name \o " FM", Qualified(name)>>

LastRow(hits) == IF hits = {} THEN 0 ELSE Max(hits)

LastNamed(rows, col, name) == LastRow({i \in DOMAIN rows : Cell(rows[i], col) = name})

Resolve(dir, name) ==
    LET strat == Rows(dir, "strat_litho")
        found == {n \in 1..3 : LastNamed(strat, "lsuName", Spellings(name)[n]) # 0}
    IN  IF name = Blank \/ found = {} THEN Blank
          ELSE strat[LastNamed(strat, "lsuName", Spellings(name)[Min(found)])]["lsuNpdidLithoStrat"]

HcColumns == <<"wlbFormationWithHc1", "wlbFormationWithHc2", "wlbFormationWithHc3">>

\* The discovery wellbore by id, else by name: a row of wellbore, or 0.
WellOf(dir, row) ==
    LET wells == Rows(dir, "wellbore")
        byId == LastRow({i \in DOMAIN wells : Id(wells[i], "wlbNpdidWellbore") = Id(row, "wlbNpdidWellbore")})
    IN  IF byId # 0 THEN byId ELSE LastNamed(wells, "wlbWellboreName", Cell(row, "wlbName"))

\* Every resolved slot of the discovery's wells, in row and slot order.
HcSlots(dir, id) ==
    LET wells == Rows(dir, "wellbore")
        rows == Select(Rows(dir, "discovery"),
                          LAMBDA row : row["dscNpdidDiscovery"] = id /\ WellOf(dir, row) # 0)
        Slots(row) == [slot \in 1..3 |->
            [slot |-> slot, strat |-> Resolve(dir, Cell(wells[WellOf(dir, row)], HcColumns[slot]))]]
    IN  Select(FlatRows([i \in DOMAIN rows |-> Slots(rows[i])]),
                  LAMBDA link : link.strat # Blank)

\* A formation counts once per discovery, at the first slot that names it.
FirstSlots(slots) ==
    {slots[i] : i \in {i \in DOMAIN slots :
                         \A j \in 1..(i - 1) : slots[j].strat # slots[i].strat}}

DiscoveryFormations(dir, id) == FirstSlots(HcSlots(dir, id))

DiscoveryIds(dir) == {row["dscNpdidDiscovery"] : row \in RowSet(dir, "discovery")}

HcInFormation(dir) ==
    NewTable({"dscNpdidDiscovery", "lsuNpdidLithoStrat", "hc_rank"},
             AsRows(UNION {{[dscNpdidDiscovery |-> id, lsuNpdidLithoStrat |-> link.strat,
                             hc_rank |-> link.slot] : link \in DiscoveryFormations(dir, id)} :
                           id \in DiscoveryIds(dir)}))

\* The formations the discovery-play links carry to their plays: those of
\* the matched slots, or of every slot when the link records none.
Carried(dir) ==
    UNION {{<<link["plyNPDID"], hc.strat, link["dscNpdidDiscovery"]>> :
              hc \in {hc \in DiscoveryFormations(dir, link["dscNpdidDiscovery"]) :
                        \/ link["matched_hc_slots"] = {}
                        \/ hc.slot \in link["matched_hc_slots"]}} :
           link \in RowSet(dir, "_derived_discovery_play")}

CountDiscoveries(carried) ==
    {[plyNPDID |-> t[1], lsuNpdidLithoStrat |-> t[2],
      discovery_count |-> Cardinality({u \in carried : u[1] = t[1] /\ u[2] = t[2]})] : t \in carried}

PlayHasFormation(dir) ==
    NewTable({"plyNPDID", "lsuNpdidLithoStrat", "discovery_count"},
             AsRows(CountDiscoveries(Carried(dir))))

(***************************************************************************)
(* The registry: each output, the source that must exist for it, in the    *)
(* order they are built.                                                   *)
(***************************************************************************)
Outputs ==
    <<[stem |-> "_derived_wellbore",                source |-> "wellbore"],
      [stem |-> "_derived_wellbore_status_hst",     source |-> "wellbore"],
      [stem |-> "_derived_well_status",             source |-> "wellbore"],
      [stem |-> "_derived_facility_status_hst",     source |-> "facility"],
      [stem |-> "_derived_pipeline_status_hst",     source |-> "pipeline"],
      [stem |-> "_derived_facility_status",         source |-> "facility"],
      [stem |-> "_derived_field_reserves",          source |-> "field_reserves"],
      [stem |-> "_derived_discovery_reserves",      source |-> "discovery_reserves"],
      [stem |-> "_derived_field_reserves_company",  source |-> "field_reserves_company"],
      [stem |-> "_derived_field",                   source |-> "field"],
      [stem |-> "_derived_licence",                 source |-> "licence"],
      [stem |-> "_derived_licence_task",            source |-> "licence_task"],
      [stem |-> "_derived_discovery",               source |-> "discovery"],
      [stem |-> "_derived_seismic_acquisition",     source |-> "seismic_acquisition"],
      [stem |-> "_derived_block",                   source |-> "block"],
      [stem |-> "_derived_structural_elements",     source |-> "structural_elements"],
      [stem |-> "_derived_structural_encloses",     source |-> "structural_elements"],
      [stem |-> "_derived_play_encloses",           source |-> "play"],
      [stem |-> "_derived_hc_in_formation",         source |-> "discovery"],
      [stem |-> "_derived_play_has_formation",      source |-> "discovery"]>>

DerivedStems == {Outputs[i].stem : i \in DOMAIN Outputs}
DerivedSource(stem) == (CHOOSE o \in {Outputs[i] : i \in DOMAIN Outputs} : o.stem = stem).source

Names(S) == NewTable({"name"}, AsRows({[name |-> s] : s \in S}))

Build(dir, stem) ==
    CASE stem = "_derived_wellbore"               -> Wellbore(dir)
      [] stem = "_derived_wellbore_status_hst"    -> WellboreStatusHst(dir)
      [] stem = "_derived_well_status"            -> Names(WellStatus(dir))
      [] stem = "_derived_facility_status_hst"    -> FacilityStatusHst(dir)
      [] stem = "_derived_pipeline_status_hst"    -> PipelineStatusHst(dir)
      [] stem = "_derived_facility_status"        -> Names(FacilityStatus(dir))
      [] stem = "_derived_field_reserves"         -> ReservesChain(dir, "field_reserves")
      [] stem = "_derived_discovery_reserves"     -> ReservesChain(dir, "discovery_reserves")
      [] stem = "_derived_field_reserves_company" -> ReservesChain(dir, "field_reserves_company")
      [] stem = "_derived_field"                  -> Field(dir)
      [] stem = "_derived_licence"                -> Licence(dir)
      [] stem = "_derived_licence_task"           -> UpperMainAreas(dir["licence_task"])
      [] stem = "_derived_discovery"              -> Discovery(dir)
      [] stem = "_derived_seismic_acquisition"    -> Survey(dir)
      [] stem = "_derived_block"                  -> UpperMainAreas(dir["block"])
      [] stem = "_derived_structural_elements"    -> StructuralElements(dir)
      [] stem = "_derived_structural_encloses"    -> StructuralEncloses(dir)
      [] stem = "_derived_play_encloses"          -> PlayEncloses(dir)
      [] stem = "_derived_hc_in_formation"        -> HcInFormation(dir)
      [] stem = "_derived_play_has_formation"     -> PlayHasFormation(dir)

\* What a builder opens besides its source, when it is cached.
AlsoReads(stem) ==
    CASE stem = "_derived_facility_status"     -> {"pipeline"}
      [] stem = "_derived_field"               -> {"field_reserves", "profiles"} \cup FieldHistories
      [] stem = "_derived_discovery"           ->
           {"wellbore", "discovery_operator_hst", "field_discoveries_incl_hst"}
      [] stem = "_derived_structural_encloses" -> {"wellbore", "discovery"}
      [] stem = "_derived_play_encloses"       -> {"structural_elements"}
      [] stem = "_derived_hc_in_formation"     -> {"strat_litho", "wellbore"}
      [] stem = "_derived_play_has_formation"  ->
           {"strat_litho", "wellbore", "_derived_discovery_play"}
      [] OTHER -> {}

Reads(stem) == {DerivedSource(stem)} \cup AlsoReads(stem)

\* What an output holds when it is built from the tables there are now.
Output(dir, stem) == Build(Only(dir, Reads(stem)), stem)

\* An output whose source is gone is removed, not left stale.
WriteOutput(dir, stem) ==
    IF DerivedSource(stem) \in DOMAIN dir
      THEN Put(dir, stem, Output(dir, stem))
      ELSE Remove(dir, stem)
=============================================================================
