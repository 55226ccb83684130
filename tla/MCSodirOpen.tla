----------------------------- MODULE MCSodirOpen -----------------------------
(***************************************************************************)
(* SodirOpen on small worlds.  "life" is one small corpus with calls of    *)
(* every kind, kills and edits; "full" builds every derived output; the    *)
(* other worlds vary the content of some tables and make one call.  Where  *)
(* entities do not interact one table holds every combination of the cells *)
(* that matter; volumes, where they do, have one world per combination.    *)
(***************************************************************************)
EXTENDS SodirOpen

Table(rows) == [cols |-> UNION {DOMAIN rows[i] : i \in DOMAIN rows}, rows |-> rows]

\* A table with one row per element of a set of parameters.
TableOf(S, Row(_, _)) ==
    LET params == AsRows(S) IN Table([i \in DOMAIN params |-> Row(i, params[i])])

Nodes(stems) == [p \in {<<"nodes", s, "csv">> : s \in stems} |-> p[2]]

(***************************************************************************)
(* Wellbores and facilities: every combination of a few dates and states.  *)
(***************************************************************************)
Well(id, more) ==
    more @@ [wlbNpdidWellbore |-> id, wlbWellboreName |-> "w", wlbStatus |-> Blank,
             wlbEntryDate |-> 0, wlbCompletionDate |-> 0, wlbDateReclass |-> 0,
             wlbPluggedDate |-> 0, wlbDateUpdated |-> 0, wkt_geometry |-> {1},
             wlbFormationWithHc1 |-> Blank, wlbFormationWithHc2 |-> Blank,
             wlbFormationWithHc3 |-> Blank, wlbAgeWithHc1 |-> Blank,
             wlbAgeWithHc2 |-> Blank, wlbAgeWithHc3 |-> Blank]

WellStatuses == {Blank, "PLUGGED", "COMPLETED", "SUSPENDED", "JUNKED", "RE-CLASS TO DEV"}

StatusWells(status) ==
    TableOf({0, 1, 8, 9} \X {0, 8, 9} \X {0, 8, 12},
            LAMBDA i, p : Well(i, [wlbEntryDate |-> p[1], wlbCompletionDate |-> p[2],
                                   wlbDateReclass |-> p[3], wlbPluggedDate |-> p[2],
                                   wlbStatus |-> status]))

StatusFacilities ==
    TableOf({0, 1, 8} \X {0, 8, 9} \X {0, 8} \X {Blank, "FUTURE", "IN SERVICE", "REMOVED", "SHUT DOWN"},
            LAMBDA i, p : [fclNpdidFacility |-> i, fclStartupDate |-> p[1], fclDateShutdown |-> p[2],
                           fclDateRemoved |-> p[3], fclPhase |-> p[4]])

StatusPipelines ==
    TableOf({0, 1, 8} \X {Blank, "IN SERVICE"},
            LAMBDA i, p : [pplNpdidPipeline |-> i, pplCurrentPhaseFromDate |-> p[1],
                           pplCurrentPhase |-> p[2]])

StatusServer(status) == [wellbore |-> StatusWells(status), facility |-> StatusFacilities,
                    pipeline |-> StatusPipelines]

StatusBlueprint ==
    Nodes({"_derived_wellbore", "_derived_wellbore_status_hst", "_derived_well_status",
           "_derived_facility_status_hst", "_derived_pipeline_status_hst",
           "_derived_facility_status"})

(***************************************************************************)
(* Fields, their reserves versions and histories.  Of the version texts 1  *)
(* and 2 spell one number, 3 a greater one, and 4 and the blank none.      *)
(***************************************************************************)
MCNumberOf == <<2, 2, 3>>
Versions == {<<0, 1>>, <<8, 0>>, <<8, 1>>, <<8, 2>>, <<8, 3>>, <<8, 4>>, <<9, 1>>}
VersionTriples(first) == AsRows({first} \X Versions \X Versions)

FieldReserveRows(triples) ==
    FlatRows([f \in DOMAIN triples |->
        [n \in 1..3 |-> [fldNpdidField |-> f, fldDateOffResEstDisplay |-> triples[f][n][1],
                         fldVersion |-> triples[f][n][2],
                         fldRecoverableOE |-> n, fldRemainingOE |-> n]]])

Spans == {0, 1, 8, 9} \X {0, 7, 8, 9}

FieldServer(v) ==
    [field |-> TableOf(1..49, LAMBDA i, p : [fldNpdidField |-> i, fldMainArea |-> "North sea",
                                             fldDiscoveryYear |-> i % 3]),
     field_reserves |-> Table(FieldReserveRows(VersionTriples(v))),
     field_operator_hst |->
        TableOf(Spans, LAMBDA i, p : [fldNpdidField |-> i, fldOperatorFrom |-> p[1], fldOperatorTo |-> p[2]]),
     field_licensee_hst |->
        TableOf(Spans, LAMBDA i, p : [fldNpdidField |-> 1 + (i % 5), fldLicenseeFrom |-> p[1],
                                      fldLicenseeTo |-> p[2]]),
     profiles |->
        Table(<<[prfNpdidInformationCarrier |-> 1, prfInformationCarrierKind |-> "FIELD",
                 prfPeriod |-> "month", prfPrdOeNetMillSm3 |-> 2],
                [prfNpdidInformationCarrier |-> 1, prfInformationCarrierKind |-> "FIELD",
                 prfPeriod |-> "year", prfPrdOeNetMillSm3 |-> 2]>>)]

FieldBlueprint ==
    Nodes({"_derived_field", "_derived_field_reserves", "profiles",
           CopyOf("field_operator_hst"), CopyOf("field_licensee_hst")})

(***************************************************************************)
(* Discoveries and plays.  Play 2 has two rows; discovery 1 has a          *)
(* published play; the last discovery has rows that disagree.              *)
(***************************************************************************)
PlayTable ==
    Table(<<[plyNPDID |-> 1, plyName |-> "nru,jm-1", plyAge |-> "Middle Jurassic", wkt_geometry |-> {1, 2}],
            [plyNPDID |-> 2, plyName |-> "b", plyAge |-> "Middle-Upper Jurassic", wkt_geometry |-> {2, 3}],
            [plyNPDID |-> 2, plyName |-> "b", plyAge |-> "Middle-Upper Jurassic", wkt_geometry |-> {5, 6}],
            [plyNPDID |-> 3, plyName |-> "c", plyAge |-> "Triassic, Lower-Middle Jurassic",
             wkt_geometry |-> {5, 6}],
            [plyNPDID |-> 4, plyName |-> "d", plyAge |-> Blank, wkt_geometry |-> {1, 2}]>>)

WellAges == {Blank, "JURASSIC", "MIDDLE JURASSIC", "OXFORDIAN"}

WellCases == AsRows(({{}} \cup {{c} : c \in 1..6}) \X {Blank, "LATE TRIASSIC"})

PlayWells(age) ==
    Table([i \in DOMAIN WellCases |->
             Well(i, [wkt_geometry |-> WellCases[i][1], wlbAgeWithHc1 |-> age,
                      wlbAgeWithHc3 |-> WellCases[i][2]])])

Discovered(id, more) ==
    more @@ [dscNpdidDiscovery |-> id, dscName |-> "d", fldNpdidField |-> NoId, fldName |-> Blank,
             wlbNpdidWellbore |-> id, wlbName |-> "w", dscDiscoveryYear |-> 0,
             dscNpdidResInclInDisc |-> NoId, dscDateFromInclInField |-> 0, wkt_geometry |-> {1, 2}]

PlayDiscoveries ==
    Table([i \in 1..Len(WellCases) |->
             Discovered(i, IF i = 1 THEN [dscName |-> "25/2-5 LILLE FROY", fldName |-> "STATFJORD",
                                          fldNpdidField |-> 1]
                             ELSE [dscName |-> "d"])]
            \o <<Discovered(Len(WellCases), [fldNpdidField |-> 2])>>)

PlayServer(age) == [play |-> PlayTable, wellbore |-> PlayWells(age), discovery |-> PlayDiscoveries]

\* Only the tables of the inference.
PlayBlueprint == Nodes({"play", "wellbore", "discovery"} \cup EnhanceStems)

(***************************************************************************)
(* Volumes: discoveries 1 to 3, each in field 9 or in none, each perhaps   *)
(* included in another's reserves, with or without reserves of their own.  *)
(***************************************************************************)
VolumeCases ==
    {0, 2, 3} \X {0, 1, 3} \X {0, 1} \X {0, 9} \X {0, 9} \X (SUBSET {1, 2, 3})
       \X {0, 5}

VolumeServer(c) ==
    LET Field9(d) == CASE d = 1 -> 9 [] d = 2 -> c[4] [] d = 3 -> c[5]
        dated == AsRows(c[6])
    IN  [discovery |->
           Table([d \in 1..3 |->
             Discovered(d, [fldNpdidField |-> Field9(d), dscNpdidResInclInDisc |-> c[d],
                            dscDiscoveryYear |-> 2])]),
         wellbore |-> Table(<<Well(1, [wlbCompletionDate |-> 12])>>),
         play |-> PlayTable,
         discovery_reserves |->
           Table([i \in DOMAIN dated |->
                    [dscNpdidDiscovery |-> dated[i], dscDateOffResEstDisplay |-> 8,
                     dscReservesRC |-> "4F", dscRecoverableOil |-> dated[i], dscRecoverableGas |-> NoValue]]),
         field_discoveries_incl_hst |->
           Table(<<[fldNpdidField |-> 9, dscNpdidDiscovery |-> 3, fldDiscoveryInclFromDate |-> c[7],
                    fldDiscoveryInclToDate |-> 0]>>),
         field_reserves |->
           Table(<<[fldNpdidField |-> 9, fldDateOffResEstDisplay |-> 8, fldVersion |-> 1, fldRecoverableOE |-> 7,
                    fldRecoverableOil |-> 7, fldRecoverableGas |-> NoValue]>>)]

VolumeBlueprint ==
    Nodes({"discovery", "wellbore", "discovery_reserves", "field_discoveries_incl_hst",
           "field_reserves", VolumeStem})

(***************************************************************************)
(* Every output at once.                                                   *)
(***************************************************************************)
FullServer ==
    [wellbore |->
       Table(<<Well(1, [wlbEntryDate |-> 8, wlbCompletionDate |-> 9, wlbStatus |-> "PLUGGED",
                        wlbAgeWithHc1 |-> "LATE TRIASSIC", wlbAgeWithHc3 |-> "MIDDLE JURASSIC",
                        wlbFormationWithHc1 |-> "HUGIN", wlbFormationWithHc2 |-> "X (Y)",
                        wlbFormationWithHc3 |-> "BRENT"]),
               Well(2, [wkt_geometry |-> {5}, wlbFormationWithHc1 |-> "HUGIN"])>>),
     facility |-> Table(<<[fclNpdidFacility |-> 1, fclPhase |-> "FUTURE", fclStartupDate |-> 9]>>),
     pipeline |-> Table(<<[pplNpdidPipeline |-> 1, pplCurrentPhase |-> "IN SERVICE",
                           pplCurrentPhaseFromDate |-> 8]>>),
     field |-> Table(<<[fldNpdidField |-> 1, fldDiscoveryYear |-> 2, fldMainArea |-> "North sea"]>>),
     field_reserves |-> Table(<<[fldNpdidField |-> 1, fldDateOffResEstDisplay |-> 9, fldVersion |-> 1,
                                 fldRecoverableOE |-> 3, fldRemainingOE |-> 1, fldRecoverableOil |-> 3]>>),
     field_reserves_company |-> Table(<<[fldNpdidField |-> 1, cmpDateOffResEstDisplay |-> 9]>>),
     field_operator_hst |-> Table(<<[fldNpdidField |-> 1, fldOperatorFrom |-> 8, fldOperatorTo |-> 0],
                                    [fldNpdidField |-> 1, fldOperatorFrom |-> 7, fldOperatorTo |-> 5]>>),
     field_discoveries_incl_hst |->
       Table(<<[fldNpdidField |-> 1, dscNpdidDiscovery |-> 1, fldDiscoveryInclFromDate |-> 8,
                fldDiscoveryInclToDate |-> 0]>>),
     discovery |-> Table(<<Discovered(1, [fldNpdidField |-> 1, dscDiscoveryYear |-> 2]),
                           Discovered(2, [wlbNpdidWellbore |-> 7, wkt_geometry |-> {5, 6}])>>),
     discovery_reserves |-> Table(<<[dscNpdidDiscovery |-> 1, dscDateOffResEstDisplay |-> 8,
                                     dscReservesRC |-> "4F", dscRecoverableOil |-> 2]>>),
     discovery_operator_hst |-> Table(<<[dscNpdidDiscovery |-> 1, dscOperatorFrom |-> 7, dscOperatorTo |-> 9]>>),
     licence |-> Table(<<[prlNpdidLicence |-> 1, prlDateGranted |-> 8, prlDateValidTo |-> 4,
                          prlMainArea |-> "Barents Sea"]>>),
     licence_task |-> Table(<<[prlNpdidLicence |-> 1, prlMainArea |-> "North sea"]>>),
     seismic_acquisition |-> Table(<<[seaName |-> "s", seaNpdidSurvey |-> "s1", seaDateStarting |-> 9,
                                      seaPlanFromDate |-> 8]>>),
     seismic_acquisition_progress |-> Table(<<[seaSurveyName |-> "s"], [seaSurveyName |-> "t"]>>),
     block |-> Table(<<[blcName |-> "b", blcNpdidBlock |-> "b1", blcMainArea |-> "North sea"]>>),
     announced_history |-> Table(<<[block |-> "b"]>>),
     strat_chrono |-> Table(<<[strat_chrono_name |-> "c", strat_chrono_parent_name |-> Blank,
                               NPDID_strat_chrono |-> "c1"],
                              [strat_chrono_name |-> "e", strat_chrono_parent_name |-> "c",
                               NPDID_strat_chrono |-> "e1"]>>),
     strat_litho |-> Table(<<[lsuName |-> "HUGIN FM", lsuNpdidLithoStrat |-> "l1"],
                             [lsuName |-> "BRENT", lsuNpdidLithoStrat |-> "l2"],
                             [lsuName |-> "X FM (Y)", lsuNpdidLithoStrat |-> "l3"]>>),
     structural_elements |->
       Table(<<[STRUCTID |-> 1, KODE |-> 1, LEVEL |-> 1, wkt_geometry |-> {1, 2}],
               [STRUCTID |-> 1, KODE |-> 2, LEVEL |-> 2, wkt_geometry |-> {5, 6}],
               [STRUCTID |-> 1, KODE |-> 1, LEVEL |-> 1, wkt_geometry |-> {3}],
               [STRUCTID |-> 0, KODE |-> 3, LEVEL |-> 0, wkt_geometry |-> {6}]>>),
     play |-> PlayTable]

FullBlueprint ==
    Nodes(DerivedStems \cup EnhanceStems
            \cup {VolumeStem, "play", "strat_litho", "strat_chrono", "seismic_acquisition_progress",
                  "announced_history", CopyOf("field_operator_hst"),
                  CopyOf("discovery_operator_hst"), CopyOf("field_discoveries_incl_hst")})

(***************************************************************************)
(* The life of one workdir.                                                *)
(***************************************************************************)
LifeTables(n) ==
    [petreg_licence |->
       Table(<<[ptlPetregLicenceID |-> "g1", ptlDateValidFrom |-> 9, ptlDateValidTo |-> 4],
               [ptlPetregLicenceID |-> "g2", ptlDateValidFrom |-> 8, ptlDateValidTo |-> 0]>>),
     petreg_licence_message |-> Table(<<[ptlPetregLicenceID |-> "g2"]>>),
     field |-> Table(<<[fldNpdidField |-> 1, fldDiscoveryYear |-> n, fldMainArea |-> "North sea"]>>)]

LifePackaged ==
    (<<"nodes", "PetregLicence", "csv">> :> CopyOf("petreg_licence"))
      @@ (<<"nodes", "PetregLicence", "sub_nodes", "Message", "csv">> :> "petreg_licence_message")
      @@ (<<"nodes", "Field", "csv">> :> "_derived_field")
      @@ (<<"nodes", "Field", "connections", "junction_edges", "IN_PLAY", "csv">> :> "_derived_field_play")

LifeComplement == <<"nodes", "Field", "csv">> :> "field"

MCComplements == "comp" :> LifeComplement

Call(kind, storage, base, incoming, use, overrides, force) ==
    [kind |-> kind, storage |-> storage, base |-> base, incoming |-> incoming, use |-> use,
     overrides |-> overrides, force |-> force]

Open1 == Call("open", "memory", Packaged, NoFile, TRUE, FALSE, FALSE)

LifeCalls ==
    {Call("open", "disk", Packaged, NoFile, TRUE, TRUE, FALSE),
     Call("open", "disk", Packaged, NoFile, TRUE, TRUE, TRUE),
     Call("open", "disk", Packaged, "comp", TRUE, TRUE, FALSE),
     Call("open", "disk", Packaged, NoFile, FALSE, FALSE, FALSE),
     Call("open", "disk", "custom", NoFile, FALSE, FALSE, FALSE),
     Call("open", "memory", Packaged, NoFile, TRUE, FALSE, FALSE),
     Call("fetch_all", "memory", Packaged, NoFile, FALSE, FALSE, FALSE)}

Missing == [stems |-> {}, missing |-> TRUE]

World(servers, bases, calls, batches, deletable, opens, kills, edits) ==
    [server |-> servers, bases |-> bases, calls |-> calls, batches |-> batches,
     deletable |-> deletable, opens |-> opens, kills |-> kills, edits |-> edits]

Single(tables, blueprint) ==
    World(<<tables>>, Packaged :> blueprint, {Open1}, {Missing}, {}, 1, 0, 0)

LifeBatches ==
    {Missing, [stems |-> {}, missing |-> FALSE],
     [stems |-> {"field", "petreg_licence"}, missing |-> TRUE]}

Life(calls, batches, opens, kills, edits) ==
    World(<<LifeTables(1), LifeTables(2)>>,
          (Packaged :> LifePackaged) @@ ("custom" :> LifeComplement),
          calls, batches, {"field", "petreg_licence"}, opens, kills, edits)

\* Every kind of call, twice, with an edit between.
WideLife == Life(LifeCalls, LifeBatches, 2, 1, 1)

\* Two kinds of calls, three times: a graph, a call cut short over it, and a
\* call for the first graph again.
LongLife ==
    Life({c \in LifeCalls : c.kind = "open" /\ c.storage = "disk" /\ ~c.force /\ c.incoming = NoFile /\ ~c.use},
         {Missing}, 3, 1, 1)

MCWorlds ==
    {WideLife, LongLife, Single(FullServer, FullBlueprint)}
      \cup {Single(StatusServer(status), StatusBlueprint) : status \in WellStatuses}
      \cup {Single(FieldServer(v), FieldBlueprint) : v \in Versions}
      \cup {Single(PlayServer(age), PlayBlueprint) : age \in WellAges}
      \cup {Single(VolumeServer(c), VolumeBlueprint) : c \in VolumeCases}

(***************************************************************************)
(* A licence published ahead of the one there was: only the table of the   *)
(* licences has a new count and is fetched again.                          *)
(***************************************************************************)
LicenceTables(ids) ==
    [petreg_licence |-> Table([i \in DOMAIN ids |->
                          [ptlPetregLicenceID |-> ids[i], ptlDateValidFrom |-> 8, ptlDateValidTo |-> 0]]),
     petreg_licence_message |-> Table(<<[ptlPetregLicenceID |-> "g2"]>>)]

LicenceWorlds ==
    {World(<<LicenceTables(<<"g2">>), LicenceTables(<<"g1", "g2">>)>>,
           Packaged :> Nodes({"petreg_licence", "petreg_licence_message"}), {Open1},
           {Missing, [stems |-> {"petreg_licence"}, missing |-> TRUE]}, {}, 2, 0, 1)}

=============================================================================
