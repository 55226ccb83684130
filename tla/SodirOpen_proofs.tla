--------------------------- MODULE SodirOpen_proofs ---------------------------
(***************************************************************************)
(* That open answers with a graph of the blueprint it was asked for, for   *)
(* all worlds: whatever tables, blueprints, complements, cooldowns, kills  *)
(* and edits there are.                                                    *)
(***************************************************************************)
EXTENDS SodirOpen, SodirTables_proofs

GraphFields == {"body", "torn", "day", "meta"}

\* A stamp on a graph that an rmtree has not touched is that of its build.
StampInv == graph.meta # {} /\ ~graph.torn => graph.body = graph.meta

\* Between the rmtree and the stamp, the directory holds this call's build.
BuildInv ==
    /\ pc = "save" => graph = NoGraph
    /\ pc = "meta" => graph.body = {Digest(merged, version)}

DayInv == today \in Nat /\ graph.day \in Nat

GraphInv == DOMAIN graph = GraphFields /\ DayInv /\ StampInv /\ BuildInv

\* The steps that write in graph/.
Builds == CleanGraph \/ SaveGraph \/ WriteMeta \/ BuildFails

\* The empty directory.
LEMMA InitGraph == Init => GraphInv
BY DEF Init, GraphInv, GraphFields, DayInv, StampInv, BuildInv, NoGraph

\* A kill or a failed build leaves a graph whose stamp, if it is left, is
\* not believed.
LEMMA TornIsUnstamped ==
    ASSUME GraphInv, NEW g \in {graph} \cup TornGraphs
    PROVE  /\ DOMAIN g = GraphFields
           /\ g.day \in Nat
           /\ g.meta # {} /\ ~g.torn => g.body = g.meta
<1>1. CASE g = graph BY <1>1 DEF GraphInv, DayInv, StampInv
<1>2. CASE g \in TornGraphs
  <2>1. CASE pc = "clean"
    <3>1. PICK d \in {graph.day, 0}, m \in {graph.meta, {}} :
             g = [graph EXCEPT !.torn = TRUE, !.day = d, !.meta = m]
      BY <1>2, <2>1 DEF TornGraphs
    <3> QED BY <3>1 DEF GraphInv, GraphFields, DayInv
  <2>2. CASE pc = "save"
    <3>1. g = [graph EXCEPT !.torn = TRUE] BY <1>2, <2>2 DEF TornGraphs
    <3> QED BY <3>1 DEF GraphInv, GraphFields, DayInv
  <2> QED BY <1>2, <2>1, <2>2 DEF TornGraphs
<1> QED BY <1>1, <1>2

\* The build writes body and stamp of one digest.
LEMMA BuildKeeps == GraphInv /\ Builds => GraphInv'
<1> SUFFICES ASSUME GraphInv, Builds PROVE GraphInv' OBVIOUS
<1>1. CASE CleanGraph
  BY <1>1 DEF CleanGraph, GraphInv, GraphFields, DayInv, StampInv, BuildInv, NoGraph
<1>2. CASE SaveGraph
  <2>1. graph = NoGraph BY <1>2 DEF SaveGraph, GraphInv, BuildInv
  <2>2. graph' = [body |-> {Digest(merged, version)}, torn |-> FALSE, day |-> today, meta |-> {}]
    BY <1>2, <2>1 DEF SaveGraph, NoGraph
  <2>3. pc' = "meta" /\ UNCHANGED <<today, merged, version>> BY <1>2 DEF SaveGraph
  <2>4. Digest(merged, version)' = Digest(merged, version) BY <2>3 DEF Digest
  <2> QED BY <2>2, <2>3, <2>4 DEF GraphInv, GraphFields, DayInv, StampInv, BuildInv
<1>3. CASE WriteMeta
  <2>1. /\ graph'.meta = {Digest(merged, version)} /\ graph'.body = graph.body
        /\ graph'.day = graph.day /\ DOMAIN graph' = GraphFields
    BY <1>3 DEF WriteMeta, GraphInv, GraphFields
  <2>2. graph.body = {Digest(merged, version)} BY <1>3 DEF WriteMeta, GraphInv, BuildInv
  <2>3. pc' = "idle" /\ today' = today BY <1>3 DEF WriteMeta, Return
  <2> QED BY <2>1, <2>2, <2>3 DEF GraphInv, DayInv, StampInv, BuildInv
<1>4. CASE BuildFails
  BY <1>4, TornIsUnstamped DEF BuildFails, Return, GraphInv, DayInv, StampInv, BuildInv
<1> QED BY <1>1, <1>2, <1>3, <1>4 DEF Builds

\* Nothing else writes in graph/ or enters the build behind the rmtree.
LEMMA OthersLeaveGraph ==
    ASSUME Next, ~Builds, ~Kill
    PROVE  graph' = graph /\ today' \in {today, today + 1} /\ pc' \notin {"save", "meta"}
BY DEF Next, Builds, Step, StartCall, Register, ResolveBlueprint, ResolveFails, ServeCached,
       CacheMiss, Refresh, RefreshFails, Write, WriteFails, Written, BuildMemory, NextDay,
       Upgrade, Publish, DeleteCsv, remove_complement, Edit, Return

\* Every step keeps what the graph directory shows true.
LEMMA StepKeeps == GraphInv /\ [Next]_vars => GraphInv'
<1> SUFFICES ASSUME GraphInv, [Next]_vars PROVE GraphInv' OBVIOUS
<1>1. CASE Builds BY <1>1, BuildKeeps
<1>2. CASE Kill
  BY <1>2, TornIsUnstamped DEF Kill, GraphInv, DayInv, StampInv, BuildInv
<1>3. ASSUME Next, ~Builds, ~Kill PROVE GraphInv'
  BY <1>3, OthersLeaveGraph DEF GraphInv, DayInv, StampInv, BuildInv
<1>4. CASE UNCHANGED vars
  BY <1>4 DEF vars, GraphInv, DayInv, StampInv, BuildInv, Digest
<1> QED BY <1>1, <1>2, <1>3, <1>4

\* A stamp that is read belongs to the graph beside it, and while a build is
\* in progress the directory holds that build and no other (wrapper.py:98).
THEOREM GraphCorrect == Spec => []GraphInv
<1> QED BY InitGraph, StepKeeps, PTL DEF Spec

\* open returns a graph of the blueprint it was asked for and of the
\* installed enhancement, and from the cache only within the cooldown
\* (ServesItsBlueprint; wrapper.py:98).
THEOREM BlueprintServed == Spec => ServesItsBlueprint
<1> DEFINE Serves ==
      pc # "idle" /\ pc' = "idle" /\ served'.kind \in {"cached", "built"} =>
        /\ served'.graph = {Digest(merged, version)}
        /\ served'.kind = "cached" => today < graph.day + Cooldown
<1>1. GraphInv /\ [Next]_vars => [Serves]_vars
  <2> SUFFICES ASSUME GraphInv, Next PROVE Serves OBVIOUS
  <2>1. CASE ServeCached
    <3>1. graph.body = {Digest(merged, version)} /\ Age < Cooldown
      BY <2>1 DEF ServeCached, CacheValid, GraphInv, StampInv
    <3>2. today < graph.day + Cooldown
      BY <3>1, CooldownAssumption DEF Age, GraphInv, DayInv
    <3> QED BY <2>1, <3>1, <3>2 DEF ServeCached, Return
  <2>2. CASE BuildMemory BY <2>2 DEF BuildMemory, Return
  <2>3. CASE WriteMeta BY <2>3 DEF WriteMeta, Return, GraphInv, BuildInv
  <2>4. CASE ~ServeCached /\ ~BuildMemory /\ ~WriteMeta
    BY <2>4 DEF Next, Step, StartCall, Register, ResolveBlueprint, ResolveFails, CacheMiss,
         Refresh, RefreshFails, Write, WriteFails, Written, BuildFails, CleanGraph, SaveGraph,
         Kill, NextDay, Upgrade, Publish, DeleteCsv, remove_complement, Edit, Return, Failed,
         NoAnswer
  <2> QED BY <2>1, <2>2, <2>3, <2>4
<1> QED BY <1>1, GraphCorrect, PTL DEF Spec, ServesItsBlueprint

(***************************************************************************)
(* What follows is about the tables.  First, the names of the files.       *)
(***************************************************************************)
LEMMA OutputStems ==
    DerivedStems =
      {"_derived_wellbore", "_derived_wellbore_status_hst", "_derived_well_status",
       "_derived_facility_status_hst", "_derived_pipeline_status_hst",
       "_derived_facility_status", "_derived_field_reserves", "_derived_discovery_reserves",
       "_derived_field_reserves_company", "_derived_field", "_derived_licence",
       "_derived_licence_task", "_derived_discovery", "_derived_seismic_acquisition",
       "_derived_block", "_derived_structural_elements", "_derived_structural_encloses",
       "_derived_play_encloses", "_derived_hc_in_formation", "_derived_play_has_formation"}
BY DEF DerivedStems, Outputs

OutputSources == {Outputs[i].source : i \in DOMAIN Outputs}

LEMMA OutputSourcesAre ==
    OutputSources =
      {"wellbore", "facility", "pipeline", "field_reserves", "discovery_reserves",
       "field_reserves_company", "field", "licence", "licence_task", "discovery",
       "seismic_acquisition", "block", "structural_elements", "play"}
BY DEF OutputSources, Outputs

LEMMA SourceOfOutput ==
    ASSUME NEW s \in DerivedStems
    PROVE  \E i \in DOMAIN Outputs : Outputs[i].stem = s /\ DerivedSource(s) = Outputs[i].source
BY DEF DerivedStems, DerivedSource

LEMMA SomeSources ==
    /\ DerivedSource("_derived_field") = "field"
    /\ DerivedSource("_derived_discovery") = "discovery"
    /\ DerivedSource("_derived_field_reserves") = "field_reserves"
    /\ DerivedSource("_derived_licence_task") = "licence_task"
    /\ DerivedSource("_derived_block") = "block"
    /\ DerivedSource("_derived_wellbore") = "wellbore"
    /\ DerivedSource("_derived_wellbore_status_hst") = "wellbore"
    /\ DerivedSource("_derived_facility_status_hst") = "facility"
<1>1. {"_derived_field", "_derived_discovery", "_derived_field_reserves",
       "_derived_licence_task", "_derived_block", "_derived_wellbore",
       "_derived_wellbore_status_hst", "_derived_facility_status_hst"} \subseteq DerivedStems
  BY OutputStems
<1>2. \A i \in DOMAIN Outputs :
        /\ Outputs[i].stem = "_derived_field" => Outputs[i].source = "field"
        /\ Outputs[i].stem = "_derived_discovery" => Outputs[i].source = "discovery"
        /\ Outputs[i].stem = "_derived_field_reserves" => Outputs[i].source = "field_reserves"
        /\ Outputs[i].stem = "_derived_licence_task" => Outputs[i].source = "licence_task"
        /\ Outputs[i].stem = "_derived_block" => Outputs[i].source = "block"
        /\ Outputs[i].stem = "_derived_wellbore" => Outputs[i].source = "wellbore"
        /\ Outputs[i].stem = "_derived_wellbore_status_hst" => Outputs[i].source = "wellbore"
        /\ Outputs[i].stem = "_derived_facility_status_hst" => Outputs[i].source = "facility"
  BY DEF Outputs
<1> QED BY <1>1, <1>2, SourceOfOutput

CopyStems == {CopyOf(s) : s \in TemporalStems}
MadeStems == EnhanceStems \cup {VolumeStem, Rejects}
JoinedStems == {JoinWrites[i] : i \in DOMAIN JoinWrites}

\* What the outputs read that is not made here itself.
OutputReads ==
    OutputSources \cup FieldHistories \cup
    {"pipeline", "field_reserves", "profiles", "wellbore", "discovery_operator_hst", "discovery",
     "structural_elements", "strat_litho"}

LEMMA ReadsAre ==
    ASSUME NEW s \in DerivedStems
    PROVE  Reads(s) \subseteq OutputReads \cup {"_derived_discovery_play"}
<1>1. DerivedSource(s) \in OutputSources BY SourceOfOutput DEF OutputSources
<1>2. AlsoReads(s) \subseteq OutputReads \cup {"_derived_discovery_play"}
  <2>1. "field_discoveries_incl_hst" \in FieldHistories BY DEF FieldHistories
  <2> QED BY <2>1, OutputStems DEF AlsoReads, OutputReads
<1> QED BY <1>1, <1>2 DEF Reads, OutputReads

LEMMA JoinsAre ==
    /\ IsRows(JoinWrites)
    /\ JoinedStems = {"petreg_licence", "petreg_licence_message", "petreg_licence_licensee",
                      "petreg_licence_operator", "seismic_acquisition_progress", "strat_chrono",
                      "announced_history"}
<1>1. PICK a, b, c, d :
        /\ a = <<"petreg_licence">> /\ b = LicenceChildren
        /\ c = <<"seismic_acquisition_progress", "strat_chrono", "announced_history">>
        /\ d = a \o b
  OBVIOUS
<1>2. /\ IsRows(a) /\ SetOf(a) = {"petreg_licence"}
      /\ IsRows(b) /\ SetOf(b) = {"petreg_licence_message", "petreg_licence_licensee",
                                  "petreg_licence_operator"}
      /\ IsRows(c) /\ SetOf(c) = {"seismic_acquisition_progress", "strat_chrono",
                                  "announced_history"}
  BY <1>1 DEF IsRows, SetOf, LicenceChildren
<1>3. IsRows(d) /\ SetOf(d) = SetOf(a) \cup SetOf(b) BY <1>1, <1>2, Concatenated DEF Follows
<1>4. JoinWrites = d \o c BY <1>1, Zenon DEF JoinWrites
<1>5. IsRows(JoinWrites) /\ SetOf(JoinWrites) = SetOf(d) \cup SetOf(c)
  BY <1>2, <1>3, <1>4, Concatenated DEF Follows
<1> QED BY <1>2, <1>3, <1>5 DEF JoinedStems, SetOf

LEMMA MadeAre ==
    MadeStems = {"_derived_discovery_play", "_derived_discovery_play_candidate",
                 "_derived_field_play", "_derived_discovery_volume", "_derived_temporal_rejects"}
BY DEF MadeStems, EnhanceStems, EnhanceCols, VolumeStem, Rejects

LEMMA TemporalStemsAre ==
    TemporalStems =
      {"field_licensee_hst", "field_operator_hst", "field_discoveries_incl_hst",
       "field_activity_status_hst", "field_owner_hst", "discovery_operator_hst",
       "discovery_poly_hst", "licence_licensee_hst", "licence_operator_hst",
       "licence_phase_hst", "licence_area_poly_hst", "tuf", "tuf_operator_hst", "tuf_owner_hst",
       "business_arrangement_area", "business_arrangement_history",
       "business_arrangement_licensee_hst", "business_arrangement_operator", "afex_area",
       "afex_area_history", "petreg_licence", "seismic_acquisition_fishery"}
BY DEF TemporalStems, Intervals

\* No table the service publishes is written here, but for its joined column;
\* of the tables written here the outputs read the links alone.
LEMMA SourcesAreNotOwn ==
    /\ (TemporalStems \cup EnhanceSources \cup VolumeSources \cup JoinedStems) \cap OwnStems = {}
    /\ \A s \in DerivedStems : Reads(s) \cap OwnStems \subseteq {"_derived_discovery_play"}
<1>1. TemporalStems \cap DerivedStems = {} /\ TemporalStems \cap MadeStems = {}
  <2> SUFFICES ASSUME NEW s \in TemporalStems PROVE s \notin DerivedStems /\ s \notin MadeStems
    OBVIOUS
  <2>1. s \in TemporalStems BY DEF TemporalStems
  <2> QED BY <2>1, OutputStems, MadeAre, TemporalStemsAre
<1>2. OutputReads \cap DerivedStems = {} /\ OutputReads \cap MadeStems = {}
  BY OutputStems, MadeAre, OutputSourcesAre DEF OutputReads, FieldHistories
<1>3. /\ (EnhanceSources \cup VolumeSources \cup JoinedStems) \cap DerivedStems = {}
      /\ (EnhanceSources \cup VolumeSources \cup JoinedStems) \cap MadeStems = {}
  BY OutputStems, MadeAre, JoinsAre DEF EnhanceSources, VolumeSources
<1>4. /\ (TemporalStems \cup EnhanceSources \cup VolumeSources \cup JoinedStems) \cap CopyStems = {}
      /\ \A s \in DerivedStems : Reads(s) \cap CopyStems = {}
  <2>1. PICK R : R = {Reads(s) : s \in DerivedStems} OBVIOUS
  <2>2. CopyStems \cap (DerivedStems \cup EnhanceStems \cup {VolumeStem, Rejects}
                          \cup TemporalStems \cup EnhanceSources \cup VolumeSources
                          \cup (UNION R) \cup JoinedStems) = {}
    BY <2>1, CopyNames, Zenon DEF CopyStems, JoinedStems
  <2>3. \A s \in DerivedStems : Reads(s) \subseteq UNION R BY <2>1
  <2>4. CopyStems \cap UNION R = {} BY <2>2
  <2>5. (TemporalStems \cup EnhanceSources \cup VolumeSources \cup JoinedStems) \cap CopyStems = {}
    <3>1. \A x \in CopyStems : x \notin TemporalStems /\ x \notin EnhanceSources
                               /\ x \notin VolumeSources /\ x \notin JoinedStems
      BY <2>2, Zenon
    <3> QED BY <3>1
  <2> QED BY <2>3, <2>4, <2>5
<1>5. OwnStems = DerivedStems \cup MadeStems \cup CopyStems BY DEF OwnStems, MadeStems, CopyStems
<1> QED BY <1>1, <1>2, <1>3, <1>4, <1>5, ReadsAre

\* No two kinds of file written here share a name.
LEMMA OwnStemsApart ==
    /\ DerivedStems \cap MadeStems = {} /\ CopyStems \cap MadeStems = {}
    /\ CopyStems \cap DerivedStems = {}
    /\ VolumeStem \notin EnhanceStems /\ Rejects \notin EnhanceStems /\ VolumeStem # Rejects
    /\ OwnStems = DerivedStems \cup MadeStems \cup CopyStems
<1>1. DerivedStems \cap MadeStems = {} BY OutputStems, MadeAre
<1>2. CopyStems \cap MadeStems = {} /\ CopyStems \cap DerivedStems = {}
  BY CopyNames DEF CopyStems, MadeStems
<1>3. VolumeStem \notin EnhanceStems /\ Rejects \notin EnhanceStems /\ VolumeStem # Rejects
  BY DEF EnhanceStems, EnhanceCols, VolumeStem, Rejects
<1> QED BY <1>1, <1>2, <1>3 DEF OwnStems, MadeStems, CopyStems

(***************************************************************************)
(* A write replaces one file, and what it makes true depends on the files  *)
(* it reads: those that a later write replaces are not among them.         *)
(***************************************************************************)
IsWrite(w) ==
    \/ w.kind = "join" /\ w.stem \in JoinedStems
    \/ w.kind = "enhance" /\ w.stem \in EnhanceStems
    \/ w.kind = "volume" /\ w.stem = VolumeStem
    \/ w.kind = "copy" /\ w.stem \in Targets(Requested)
    \/ w.kind = "rejects" /\ w.stem = Rejects
    \/ w.kind = "derived" /\ w.stem \in DerivedStems

\* What a write has made of its file, when the ones after it are done.
Holds(d, w) ==
    /\ w.kind = "enhance" =>
         IF EnhanceSources \subseteq DOMAIN d
           THEN /\ w.stem \in DOMAIN d
                /\ d[w.stem] = NewTable(EnhanceCols[w.stem], AsRows(Enhancement(d, w.stem)))
           ELSE Rows(d, w.stem) = <<>>
    /\ w.kind = "volume" /\ "discovery" \in DOMAIN d =>
         VolumeStem \in DOMAIN d /\ d[VolumeStem] = NewTable(VolumeCols, Volumes(d))
    /\ w.kind = "copy" =>
         IF w.stem \in DOMAIN d
           THEN CopyOf(w.stem) \in DOMAIN d /\ d[CopyOf(w.stem)] = TemporalCopy(d[w.stem], w.stem)
           ELSE CopyOf(w.stem) \notin DOMAIN d
    /\ w.kind = "rejects" =>
         Rejects \in DOMAIN d /\ d[Rejects] = RejectLog(d, Targets(Requested))
    /\ w.kind = "derived" =>
         IF DerivedSource(w.stem) \in DOMAIN d
           THEN w.stem \in DOMAIN d /\ d[w.stem] = Output(d, w.stem)
           ELSE w.stem \notin DOMAIN d

\* The files this depends on, next to the one it is about.
ReadBy(w) ==
    CASE w.kind = "enhance" -> EnhanceSources
      [] w.kind = "volume"  -> VolumeSources
      [] w.kind = "copy"    -> {w.stem}
      [] w.kind = "rejects" -> Targets(Requested)
      [] w.kind = "derived" -> Reads(w.stem)
      [] OTHER              -> {}

Agree(d, e, stems) ==
    \A s \in stems : /\ s \in DOMAIN d <=> s \in DOMAIN e
                     /\ s \in DOMAIN d => d[s] = e[s]

LEMMA TargetsAreTemporal == Targets(Requested) \subseteq TemporalStems
BY DEF Targets, SourceOfCopy

LEMMA AgreeOnly ==
    ASSUME NEW d, NEW e, NEW stems, Agree(d, e, stems)
    PROVE  /\ Only(d, stems) = Only(e, stems)
           /\ stems \subseteq DOMAIN d <=> stems \subseteq DOMAIN e
BY OnlyUnchanged DEF Agree

\* A write holds while its sources and its file stay as they are.
LEMMA HoldsIsLocal ==
    ASSUME NEW d, NEW e, NEW w, IsWrite(w), Agree(d, e, ReadBy(w) \cup {FileOf(w)}), Holds(d, w)
    PROVE  Holds(e, w)
<1>1. Only(d, ReadBy(w)) = Only(e, ReadBy(w)) /\ (ReadBy(w) \subseteq DOMAIN d <=> ReadBy(w) \subseteq DOMAIN e)
  <2>1. Agree(d, e, ReadBy(w)) BY DEF Agree
  <2> QED BY <2>1, AgreeOnly
<1>2. /\ FileOf(w) \in DOMAIN d <=> FileOf(w) \in DOMAIN e
      /\ FileOf(w) \in DOMAIN d => d[FileOf(w)] = e[FileOf(w)]
  BY DEF Agree
<1>3. \A s \in ReadBy(w) : /\ s \in DOMAIN d <=> s \in DOMAIN e
                           /\ s \in DOMAIN d => d[s] = e[s]
  BY DEF Agree
<1>4. CASE w.kind = "enhance"
  <2>1. ReadBy(w) = EnhanceSources /\ FileOf(w) = w.stem BY <1>4 DEF ReadBy, FileOf
  <2>2. Enhancement(d, w.stem) = Enhancement(e, w.stem) BY <1>1, <2>1 DEF Enhancement
  <2> QED BY <1>1, <1>2, <1>4, <2>1, <2>2 DEF Holds, Rows
<1>5. CASE w.kind = "volume"
  <2>1. ReadBy(w) = VolumeSources /\ FileOf(w) = VolumeStem
    BY <1>5 DEF ReadBy, FileOf, IsWrite
  <2>2. Volumes(d) = Volumes(e) BY <1>1, <2>1 DEF Volumes
  <2>3. "discovery" \in VolumeSources BY DEF VolumeSources
  <2> QED BY <1>2, <1>3, <1>5, <2>1, <2>2, <2>3 DEF Holds
<1>6. CASE w.kind = "copy"
  <2>1. ReadBy(w) = {w.stem} /\ FileOf(w) = CopyOf(w.stem) BY <1>6 DEF ReadBy, FileOf
  <2> QED BY <1>2, <1>3, <1>6, <2>1 DEF Holds
<1>7. CASE w.kind = "rejects"
  <2>1. ReadBy(w) = Targets(Requested) /\ FileOf(w) = Rejects
    BY <1>7 DEF ReadBy, FileOf, IsWrite
  <2>2. RejectLog(d, Targets(Requested)) = RejectLog(e, Targets(Requested))
    BY <1>1, <2>1 DEF RejectLog
  <2> QED BY <1>2, <1>7, <2>1, <2>2 DEF Holds
<1>8. CASE w.kind = "derived"
  <2>1. ReadBy(w) = Reads(w.stem) /\ FileOf(w) = w.stem BY <1>8 DEF ReadBy, FileOf
  <2>2. Output(d, w.stem) = Output(e, w.stem) BY <1>1, <2>1 DEF Output
  <2>3. DerivedSource(w.stem) \in Reads(w.stem) BY DEF Reads
  <2> QED BY <1>2, <1>3, <1>8, <2>1, <2>2, <2>3 DEF Holds
<1>9. CASE w.kind = "join" BY <1>9 DEF Holds
<1> QED BY <1>4, <1>5, <1>6, <1>7, <1>8, <1>9 DEF IsWrite

\* The joins come first, then the enhancement, then the rest.
Rank(w) == CASE w.kind = "join" -> 1 [] w.kind = "enhance" -> 2 [] OTHER -> 3

\* A later write that replaces a file of an earlier one is that same write.
LEMMA LaterWritesElsewhere ==
    ASSUME NEW w, IsWrite(w), NEW v, IsWrite(v), Rank(w) <= Rank(v),
           FileOf(v) \in ReadBy(w) \cup {FileOf(w)}
    PROVE  w.kind = "join" \/ (w.kind = v.kind /\ w.stem = v.stem)
<1> SUFFICES ASSUME w.kind # "join" PROVE w.kind = v.kind /\ w.stem = v.stem OBVIOUS
<1>1. FileOf(v) \in OwnStems /\ (v.kind = "enhance" => w.kind = "enhance")
  <2>1. v.kind # "join" /\ (v.kind = "enhance" => w.kind = "enhance")
    BY DEF Rank, IsWrite
  <2>2. \A t \in TemporalStems : CopyOf(t) \in CopyStems BY DEF CopyStems
  <2> QED BY <2>1, <2>2, OwnStemsApart, TargetsAreTemporal DEF IsWrite, FileOf, MadeStems
<1>2. FileOf(v) \notin ReadBy(w)
  <2>1. CASE w.kind = "enhance"
    BY <1>1, <2>1, SourcesAreNotOwn DEF ReadBy
  <2>2. CASE w.kind = "volume"
    BY <1>1, <2>2, SourcesAreNotOwn DEF ReadBy
  <2>3. CASE w.kind = "copy"
    BY <1>1, <2>3, SourcesAreNotOwn, TargetsAreTemporal DEF ReadBy, IsWrite
  <2>4. CASE w.kind = "rejects"
    BY <1>1, <2>4, SourcesAreNotOwn, TargetsAreTemporal DEF ReadBy
  <2>5. CASE w.kind = "derived"
    <3> SUFFICES ASSUME FileOf(v) \in ReadBy(w) PROVE FALSE OBVIOUS
    <3>1. FileOf(v) = "_derived_discovery_play" BY <1>1, <2>5, SourcesAreNotOwn DEF ReadBy, IsWrite
    <3>2. "_derived_discovery_play" \in EnhanceStems BY DEF EnhanceStems, EnhanceCols
    <3>3. FileOf(v) \in DerivedStems \cup {VolumeStem, Rejects} \cup CopyStems
      <4>1. v.kind # "join" /\ v.kind # "enhance" BY <1>1, <2>5 DEF Rank, IsWrite
      <4>2. \A t \in TemporalStems : CopyOf(t) \in CopyStems BY DEF CopyStems
      <4> QED BY <4>1, <4>2, TargetsAreTemporal DEF IsWrite, FileOf
    <3> QED BY <3>1, <3>2, <3>3, OwnStemsApart DEF MadeStems
  <2> QED BY <2>1, <2>2, <2>3, <2>4, <2>5 DEF IsWrite
<1>3. FileOf(v) = FileOf(w) BY <1>2
<1>4. v.kind # "join" BY DEF Rank, IsWrite
<1>5. \A t \in TemporalStems : CopyOf(t) \in CopyStems BY DEF CopyStems
<1>6. \A s, t \in TemporalStems : CopyOf(s) = CopyOf(t) => s = t BY CopyNames
<1>7. w.kind = v.kind
  BY <1>3, <1>4, <1>5, OwnStemsApart, TargetsAreTemporal DEF IsWrite, FileOf, MadeStems
<1> QED BY <1>3, <1>6, <1>7, TargetsAreTemporal DEF IsWrite, FileOf

\* A write leaves every other file as it is.
LEMMA WriteIsLocal ==
    ASSUME NEW d, NEW w, IsWrite(w), NEW stems, FileOf(w) \notin stems
    PROVE  Agree(d, Perform(d, w), stems)
<1>1. ASSUME NEW stem, NEW t, stem \notin stems
      PROVE  Agree(d, Put(d, stem, t), stems) /\ Agree(d, Remove(d, stem), stems)
  <2>1. PICK p, r : p = Put(d, stem, t) /\ r = Remove(d, stem) OBVIOUS
  <2>2. /\ DOMAIN p = DOMAIN d \cup {stem} /\ DOMAIN r = DOMAIN d \ {stem}
        /\ \A s \in DOMAIN d : s # stem => p[s] = d[s] /\ r[s] = d[s]
    <3>1. /\ DOMAIN p = DOMAIN d \cup {stem}
          /\ \A s \in DOMAIN d : s # stem => p[s] = d[s]
      BY <2>1 DEF Put
    <3>2. /\ DOMAIN r = DOMAIN d \ {stem}
          /\ \A s \in DOMAIN d : s # stem => r[s] = d[s]
      BY <2>1 DEF Remove
    <3> QED BY <3>1, <3>2
  <2>3. Agree(d, p, stems) /\ Agree(d, r, stems) BY <1>1, <2>2 DEF Agree
  <2> QED BY <2>1, <2>3
<1>2. Agree(d, d, stems) BY DEF Agree
<1>3. CASE w.kind = "join"
  <2>1. w.stem \notin stems /\ Perform(d, w) = Join(d, w.stem) BY <1>3 DEF FileOf, Perform
  <2>2. \A parent, nameCol, idCol, refCol, fkCol :
          Agree(d, JoinByName(d, parent, nameCol, idCol, w.stem, refCol, fkCol), stems)
    BY <1>1, <1>2, <2>1 DEF JoinByName
  <2>3. CASE w.stem = "petreg_licence"
    BY <1>1, <1>2, <2>1, <2>3 DEF Join, NumberLicences
  <2>4. CASE w.stem = "seismic_acquisition_progress"
    BY <2>1, <2>2, <2>4 DEF Join, AddSeismicProgressFk
  <2>5. CASE w.stem = "strat_chrono"
    BY <1>2, <2>1, <2>2, <2>5 DEF Join, AddChronoParentFk
  <2>6. CASE w.stem = "announced_history"
    <3>1. Join(d, w.stem) = AddAnnouncedBlockFk(d) BY <2>6 DEF Join
    <3>2. Agree(d, AddAnnouncedBlockFk(d), stems) BY <2>2, <2>6 DEF AddAnnouncedBlockFk
    <3> QED BY <2>1, <3>1, <3>2
  <2>7. CASE w.stem \in {LicenceChildren[i] : i \in DOMAIN LicenceChildren}
    BY <1>1, <1>2, <2>1, <2>7 DEF Join, JoinLicenceChild, LicenceChildren
  <2> QED BY <1>3, <2>3, <2>4, <2>5, <2>6, <2>7, JoinsAre DEF IsWrite, LicenceChildren
<1>4. CASE w.kind = "enhance" BY <1>1, <1>2, <1>4 DEF FileOf, Perform, WriteEnhanced
<1>5. CASE w.kind = "volume" BY <1>1, <1>2, <1>5 DEF FileOf, Perform, WriteVolumes, IsWrite
<1>6. CASE w.kind = "copy" BY <1>1, <1>6 DEF FileOf, Perform, WriteCopy
<1>7. CASE w.kind = "rejects" BY <1>1, <1>7 DEF FileOf, Perform, IsWrite
<1>8. CASE w.kind = "derived" BY <1>1, <1>8 DEF FileOf, Perform, WriteOutput
<1> QED BY <1>3, <1>4, <1>5, <1>6, <1>7, <1>8 DEF IsWrite

(***************************************************************************)
(* The tables of the workdir: those of the service are tables, those made  *)
(* here have the columns they are given, and the volumes do not overlap,   *)
(* those of an earlier call included.                                      *)
(***************************************************************************)
TableFields == {"cols", "rows"}

TablesInv(d) ==
    /\ \A s \in DOMAIN d : s \notin OwnStems => IsTable(d[s]) /\ KeyColumns(s) \subseteq d[s].cols
    /\ \A s \in DOMAIN d : DOMAIN d[s] = TableFields
    /\ \A s \in EnhanceStems \cap DOMAIN d : d[s].cols = EnhanceCols[s]
    /\ VolumeStem \in DOMAIN d =>
         IsRows(d[VolumeStem].rows) /\ DisjointVolumes(d[VolumeStem].rows)

LEMMA SourcesAreSound ==
    ASSUME NEW d, TablesInv(d), NEW stems, stems \cap OwnStems = {}
    PROVE  Sound(d, stems)
BY DEF TablesInv, Sound

LEMMA OutputIsTable ==
    ASSUME NEW d, NEW s \in DerivedStems, DerivedSource(s) \in DOMAIN d,
           DOMAIN d[DerivedSource(s)] = TableFields
    PROVE  DOMAIN Output(d, s) = TableFields
<1>1. PICK e : e = Only(d, Reads(s)) OBVIOUS
<1>2. DerivedSource(s) \in DOMAIN e /\ DOMAIN e[DerivedSource(s)] = TableFields
  <2>1. DerivedSource(s) \in Reads(s) BY DEF Reads
  <2> QED BY <1>1, <2>1 DEF Only
<1>3. \A cols, rows : DOMAIN NewTable(cols, rows) = TableFields BY DEF NewTable, TableFields
<1>4. s = "_derived_block" => DOMAIN UpperMainAreas(e["block"]) = TableFields
  BY <1>2, SomeSources DEF UpperMainAreas
<1>5. s = "_derived_licence_task" => DOMAIN UpperMainAreas(e["licence_task"]) = TableFields
  BY <1>2, SomeSources DEF UpperMainAreas
<1>6. /\ DOMAIN Wellbore(e) = TableFields
      /\ DOMAIN Field(e) = TableFields /\ DOMAIN Licence(e) = TableFields
      /\ DOMAIN Discovery(e) = TableFields /\ DOMAIN Survey(e) = TableFields
      /\ DOMAIN StructuralElements(e) = TableFields
      /\ \A stem : DOMAIN ReservesChain(e, stem) = TableFields
  BY DEF Wellbore, Field, Licence, Discovery, Survey, StructuralElements, WithElements,
         ReservesChain, WithWindow, SetColumn, SetColumns, TableFields
<1>7. /\ DOMAIN WellboreStatusHst(e) = TableFields /\ DOMAIN FacilityStatusHst(e) = TableFields
      /\ DOMAIN PipelineStatusHst(e) = TableFields /\ \A S : DOMAIN Names(S) = TableFields
      /\ DOMAIN StructuralEncloses(e) = TableFields /\ DOMAIN PlayEncloses(e) = TableFields
      /\ DOMAIN HcInFormation(e) = TableFields /\ DOMAIN PlayHasFormation(e) = TableFields
  BY <1>3 DEF WellboreStatusHst, FacilityStatusHst, PipelineStatusHst, PeriodTable, Names,
         StructuralEncloses, PlayEncloses, HcInFormation, PlayHasFormation
<1>8. Output(d, s) = Build(e, s) BY <1>1 DEF Output
<1> QED BY <1>4, <1>5, <1>6, <1>7, <1>8, OutputStems DEF Build

\* The volumes written now do not overlap.
LEMMA VolumesWritten ==
    ASSUME NEW d, TablesInv(d)
    PROVE  IsRows(Volumes(d)) /\ DisjointVolumes(Volumes(d))
<1>1. Sound(Only(d, VolumeSources), VolumeSources)
  BY SourcesAreNotOwn, SourcesAreSound, OnlyIsSound
<1>2. DisjointVolumes(Volumes(d)) BY <1>1, VolumesAreDisjoint DEF Volumes
<1>3. PICK facts : facts = Facts(Only(d, VolumeSources)) OBVIOUS
<1>4. facts.known = KnownIds(Only(d, VolumeSources)) BY <1>3 DEF Facts, FactsOf
<1>5. IsFiniteSet(facts.known) BY <1>1, <1>4, KnownDiscoveries
<1>6. PICK n : n = Cardinality(facts.known) OBVIOUS
<1>7. n \in Nat BY <1>5, <1>6, FiniteCount
<1>8. PICK order : order = InOrder(facts.known, <) OBVIOUS
<1>9. DOMAIN order = 1..n BY <1>6, <1>8, InOrderIsNth
<1>10. PICK rows : rows = Projected(facts) OBVIOUS
<1>11. rows = [i \in DOMAIN order |-> Project(facts, order[i])]
  BY <1>8, <1>10, Zenon DEF Projected
<1>12. rows = [i \in 1..n |-> rows[i]] BY <1>9, <1>11
<1>13. IsRows(rows) BY <1>7, <1>12, NumberedAreRows
<1> QED BY <1>2, <1>3, <1>10, <1>13 DEF Volumes

LEMMA JoinKeepsSources ==
    ASSUME NEW d, NEW stem \in JoinedStems, NEW stems, Sound(d, stems)
    PROVE  Sound(Join(d, stem), stems)
<1>1. {"seaNpdidSurvey", "strat_chrono_parent_npdid", "blcNpdidBlock"} \subseteq JoinColumns
  BY DEF JoinColumns
<1>2. CASE stem = "petreg_licence" BY <1>2, JoinsAreSound DEF Join
<1>3. CASE stem = "seismic_acquisition_progress"
  BY <1>1, <1>3, JoinsAreSound DEF Join, AddSeismicProgressFk
<1>4. CASE stem = "strat_chrono"
  BY <1>1, <1>4, JoinsAreSound DEF Join, AddChronoParentFk
<1>5. CASE stem = "announced_history"
  BY <1>1, <1>5, JoinsAreSound DEF Join, AddAnnouncedBlockFk
<1>6. CASE stem \notin {"petreg_licence", "seismic_acquisition_progress", "strat_chrono",
                        "announced_history"}
  BY <1>6, JoinsAreSound DEF Join
<1> QED BY <1>2, <1>3, <1>4, <1>5, <1>6

LEMMA WriteKeepsTables ==
    ASSUME NEW d, TablesInv(d), NEW w, IsWrite(w), NEW e, e = Perform(d, w)
    PROVE  TablesInv(e)
<1> DEFINE file == FileOf(w)
<1>1. \A s : s # file => /\ s \in DOMAIN d <=> s \in DOMAIN e
                         /\ s \in DOMAIN d => d[s] = e[s]
  <2> TAKE s
  <2> HAVE s # file
  <2>1. Agree(d, e, {s}) BY WriteIsLocal
  <2> QED BY <2>1 DEF Agree
<1>2. CASE w.kind = "join"
  <2>1. w.stem \in JoinedStems /\ w.stem \notin OwnStems /\ file = w.stem /\ e = Join(d, w.stem)
    BY <1>2, SourcesAreNotOwn DEF IsWrite, FileOf, Perform
  <2>2. PICK stems : stems = (DOMAIN d \cup {file}) \ OwnStems OBVIOUS
  <2>3. Sound(e, stems) BY <2>1, <2>2, SourcesAreSound, JoinKeepsSources
  <2>4. \A s \in DOMAIN e : s \notin OwnStems => s \in stems BY <1>1, <2>1, <2>2
  <2>5. \A s \in DOMAIN e : s \notin OwnStems => IsTable(e[s]) /\ KeyColumns(s) \subseteq e[s].cols
    BY <2>3, <2>4 DEF Sound
  <2>6. \A s \in OwnStems : s # file BY <2>1
  <2>7. \A s \in DOMAIN e : DOMAIN e[s] = TableFields
    BY <1>1, <2>5, <2>6 DEF TablesInv, IsTable, TableFields
  <2>8. EnhanceStems \subseteq OwnStems /\ VolumeStem \in OwnStems BY OwnStemsApart DEF MadeStems
  <2>9. \A s \in EnhanceStems \cap DOMAIN e : e[s].cols = EnhanceCols[s]
    BY <1>1, <2>6, <2>8 DEF TablesInv
  <2>10. VolumeStem \in DOMAIN e =>
           IsRows(e[VolumeStem].rows) /\ DisjointVolumes(e[VolumeStem].rows)
    BY <1>1, <2>6, <2>8 DEF TablesInv
  <2> QED BY <2>5, <2>7, <2>9, <2>10 DEF TablesInv
<1>3. CASE w.kind # "join"
  <2>1. file \in OwnStems
    <3>1. \A t \in TemporalStems : CopyOf(t) \in CopyStems BY DEF CopyStems
    <3> QED BY <1>3, <3>1, OwnStemsApart, TargetsAreTemporal DEF IsWrite, FileOf, MadeStems
  <2>2. /\ file \in DOMAIN e => e[file] = d[file] \/ DOMAIN e[file] = TableFields
        /\ file \in EnhanceStems /\ file \in DOMAIN e =>
             \/ file \in DOMAIN d /\ e[file] = d[file]
             \/ e[file].cols = EnhanceCols[file]
        /\ file = VolumeStem /\ file \in DOMAIN e =>
             \/ file \in DOMAIN d /\ e[file] = d[file]
             \/ e[file].rows = Volumes(d)
        /\ file \in DOMAIN e /\ file \notin DOMAIN d => DOMAIN e[file] = TableFields
    <3>1. \A cols, rows : /\ DOMAIN NewTable(cols, rows) = TableFields
                          /\ NewTable(cols, rows).cols = cols /\ NewTable(cols, rows).rows = rows
      BY DEF NewTable, TableFields
    <3>2. \A t : /\ file \in DOMAIN Put(d, file, t) /\ Put(d, file, t)[file] = t
                 /\ file \notin DOMAIN Remove(d, file)
      BY DEF Put, Remove
    <3>3. CASE w.kind = "enhance"
      <4>1. file = w.stem /\ file \in EnhanceStems /\ file # VolumeStem
        BY <3>3, OwnStemsApart DEF FileOf, IsWrite
      <4>2. \/ e = d
            \/ \E rows : e = Put(d, file, NewTable(EnhanceCols[file], rows))
        BY <3>3, <4>1 DEF Perform, WriteEnhanced
      <4> QED BY <3>1, <3>2, <4>1, <4>2
    <3>4. CASE w.kind = "volume"
      <4>1. file = VolumeStem /\ file \notin EnhanceStems
        BY <3>4, OwnStemsApart DEF FileOf, IsWrite
      <4>2. e = d \/ e = Put(d, file, NewTable(VolumeCols, Volumes(d)))
        BY <3>4, <4>1 DEF Perform, WriteVolumes
      <4> QED BY <3>1, <3>2, <4>1, <4>2
    <3>5. CASE w.kind = "copy"
      <4>1. /\ file = CopyOf(w.stem) /\ w.stem \in TemporalStems
            /\ file \notin EnhanceStems /\ file # VolumeStem
        <5>1. file = CopyOf(w.stem) /\ w.stem \in TemporalStems
          BY <3>5, TargetsAreTemporal DEF FileOf, IsWrite
        <5>2. file \in CopyStems BY <5>1 DEF CopyStems
        <5> QED BY <5>1, <5>2, OwnStemsApart DEF MadeStems
      <4>2. e = IF w.stem \in DOMAIN d THEN Put(d, file, TemporalCopy(d[w.stem], w.stem))
                  ELSE Remove(d, file)
        BY <3>5, <4>1 DEF Perform, WriteCopy
      <4>3. w.stem \in DOMAIN d => DOMAIN TemporalCopy(d[w.stem], w.stem) = TableFields
        <5>1. w.stem \notin OwnStems BY <4>1, SourcesAreNotOwn
        <5>2. w.stem \in DOMAIN d => IsTable(d[w.stem]) BY <5>1 DEF TablesInv
        <5> QED BY <5>2, CopyRows DEF TableFields
      <4> QED BY <3>2, <4>1, <4>2, <4>3
    <3>6. CASE w.kind = "rejects"
      <4>1. file = Rejects /\ file \notin EnhanceStems /\ file # VolumeStem
        BY <3>6, OwnStemsApart DEF FileOf, IsWrite
      <4>2. e = Put(d, file, RejectLog(d, Targets(Requested)))
        BY <3>6, <4>1 DEF Perform, Requested
      <4>3. DOMAIN RejectLog(d, Targets(Requested)) = TableFields BY <3>1 DEF RejectLog
      <4> QED BY <3>2, <4>1, <4>2, <4>3
    <3>7. CASE w.kind = "derived"
      <4>1. /\ file = w.stem /\ w.stem \in DerivedStems
            /\ file \notin EnhanceStems /\ file # VolumeStem
        BY <3>7, OwnStemsApart DEF FileOf, IsWrite, MadeStems
      <4>2. e = IF DerivedSource(file) \in DOMAIN d THEN Put(d, file, Output(d, file))
                  ELSE Remove(d, file)
        BY <3>7, <4>1 DEF Perform, WriteOutput
      <4>3. DerivedSource(file) \in DOMAIN d => DOMAIN Output(d, file) = TableFields
        BY <4>1, OutputIsTable DEF TablesInv
      <4> QED BY <3>2, <4>1, <4>2, <4>3
    <3> QED BY <1>3, <3>3, <3>4, <3>5, <3>6, <3>7 DEF IsWrite
  <2>3. \A s \in DOMAIN e : s \notin OwnStems => IsTable(e[s]) /\ KeyColumns(s) \subseteq e[s].cols
    BY <1>1, <2>1 DEF TablesInv
  <2>4. \A s \in DOMAIN e : DOMAIN e[s] = TableFields
    BY <1>1, <2>2 DEF TablesInv
  <2>5. \A s \in EnhanceStems \cap DOMAIN e : e[s].cols = EnhanceCols[s]
    BY <1>1, <2>2 DEF TablesInv
  <2>6. VolumeStem \in DOMAIN e =>
          IsRows(e[VolumeStem].rows) /\ DisjointVolumes(e[VolumeStem].rows)
    BY <1>1, <2>2, VolumesWritten DEF TablesInv
  <2> QED BY <2>3, <2>4, <2>5, <2>6 DEF TablesInv
<1> QED BY <1>2, <1>3

\* Each write makes its own promise true.
LEMMA WriteHolds ==
    ASSUME NEW d, TablesInv(d), NEW w, IsWrite(w), NEW e, e = Perform(d, w)
    PROVE  Holds(e, w)
<1> DEFINE file == FileOf(w)
<1>1. w.kind # "join" => file \notin ReadBy(w)
  <2> SUFFICES ASSUME w.kind # "join" PROVE file \notin ReadBy(w) OBVIOUS
  <2>1. file \in OwnStems
    <3>1. \A t \in TemporalStems : CopyOf(t) \in CopyStems BY DEF CopyStems
    <3> QED BY <3>1, OwnStemsApart, TargetsAreTemporal DEF IsWrite, FileOf, MadeStems
  <2>2. w.kind # "derived" => ReadBy(w) \cap OwnStems = {}
    BY SourcesAreNotOwn, TargetsAreTemporal DEF ReadBy, IsWrite
  <2>3. CASE w.kind = "derived"
    <3>1. file \in DerivedStems /\ ReadBy(w) = Reads(file) BY <2>3 DEF ReadBy, IsWrite, FileOf
    <3>2. "_derived_discovery_play" \in EnhanceStems BY DEF EnhanceStems, EnhanceCols
    <3> QED BY <2>1, <3>1, <3>2, SourcesAreNotOwn, OwnStemsApart DEF MadeStems
  <2> QED BY <2>1, <2>2, <2>3
<1>2. CASE w.kind = "join" BY <1>2 DEF Holds
<1>3. ASSUME w.kind # "join"
      PROVE  /\ Only(d, ReadBy(w)) = Only(e, ReadBy(w))
             /\ ReadBy(w) \subseteq DOMAIN d <=> ReadBy(w) \subseteq DOMAIN e
             /\ \A s \in ReadBy(w) : /\ s \in DOMAIN d <=> s \in DOMAIN e
                                     /\ s \in DOMAIN d => d[s] = e[s]
  <2>1. Agree(d, e, ReadBy(w)) BY <1>1, <1>3, WriteIsLocal
  <2> QED BY <2>1, AgreeOnly DEF Agree
<1>4. \A t : /\ file \in DOMAIN Put(d, file, t) /\ Put(d, file, t)[file] = t
             /\ file \notin DOMAIN Remove(d, file)
  BY DEF Put, Remove
<1>5. CASE w.kind = "enhance"
  <2>1. file = w.stem /\ file \in EnhanceStems /\ ReadBy(w) = EnhanceSources
    BY <1>5 DEF FileOf, IsWrite, ReadBy
  <2>2. Enhancement(d, w.stem) = Enhancement(e, w.stem) BY <1>3, <1>5, <2>1 DEF Enhancement
  <2>3. CASE EnhanceSources \subseteq DOMAIN d
    <3>1. e = Put(d, file, NewTable(EnhanceCols[w.stem], AsRows(Enhancement(d, w.stem))))
      BY <1>5, <2>1, <2>3 DEF Perform, WriteEnhanced
    <3>2. /\ file \in DOMAIN e
          /\ e[file] = NewTable(EnhanceCols[w.stem], AsRows(Enhancement(d, w.stem)))
      BY <1>4, <3>1
    <3> HIDE DEF file
    <3> QED BY <1>3, <1>5, <2>1, <2>2, <2>3, <3>2 DEF Holds
  <2>4. CASE ~(EnhanceSources \subseteq DOMAIN d) /\ file \in DOMAIN d
    <3>1. IsOwned(d, file) BY <2>1, <2>4 DEF TablesInv, IsOwned
    <3>2. e = Put(d, file, NewTable(EnhanceCols[w.stem], <<>>))
      BY <1>5, <2>1, <2>4, <3>1 DEF Perform, WriteEnhanced
    <3>3. Rows(e, w.stem) = <<>> BY <1>4, <2>1, <3>2 DEF Rows, NewTable
    <3> QED BY <1>3, <1>5, <2>1, <2>4, <3>3 DEF Holds
  <2>5. CASE ~(EnhanceSources \subseteq DOMAIN d) /\ file \notin DOMAIN d
    <3>1. e = d BY <1>5, <2>1, <2>5 DEF Perform, WriteEnhanced, IsOwned
    <3>2. Rows(e, w.stem) = <<>> BY <2>1, <2>5, <3>1 DEF Rows
    <3> QED BY <1>3, <1>5, <2>1, <2>5, <3>2 DEF Holds
  <2> QED BY <2>3, <2>4, <2>5
<1>6. CASE w.kind = "volume"
  <2>1. file = VolumeStem /\ ReadBy(w) = VolumeSources /\ "discovery" \in VolumeSources
    BY <1>6 DEF FileOf, IsWrite, ReadBy, VolumeSources
  <2>2. Volumes(d) = Volumes(e) BY <1>3, <1>6, <2>1 DEF Volumes
  <2>3. "discovery" \in DOMAIN d => e = Put(d, file, NewTable(VolumeCols, Volumes(d)))
    BY <1>6, <2>1 DEF Perform, WriteVolumes
  <2> QED BY <1>3, <1>4, <1>6, <2>1, <2>2, <2>3 DEF Holds
<1>7. CASE w.kind = "copy"
  <2>1. file = CopyOf(w.stem) /\ ReadBy(w) = {w.stem} BY <1>7 DEF FileOf, ReadBy
  <2>2. e = IF w.stem \in DOMAIN d THEN Put(d, file, TemporalCopy(d[w.stem], w.stem))
              ELSE Remove(d, file)
    BY <1>7, <2>1 DEF Perform, WriteCopy
  <2> QED BY <1>3, <1>4, <1>7, <2>1, <2>2 DEF Holds
<1>8. CASE w.kind = "rejects"
  <2>1. file = Rejects /\ ReadBy(w) = Targets(Requested) BY <1>8 DEF FileOf, IsWrite, ReadBy
  <2>2. e = Put(d, file, RejectLog(d, Targets(Requested)))
    BY <1>8, <2>1 DEF Perform, Requested
  <2>3. RejectLog(d, Targets(Requested)) = RejectLog(e, Targets(Requested))
    BY <1>3, <1>8, <2>1 DEF RejectLog
  <2> QED BY <1>4, <1>8, <2>1, <2>2, <2>3 DEF Holds
<1>9. CASE w.kind = "derived"
  <2>1. file = w.stem /\ ReadBy(w) = Reads(w.stem) /\ DerivedSource(w.stem) \in Reads(w.stem)
    BY <1>9 DEF FileOf, ReadBy, Reads
  <2>2. e = IF DerivedSource(w.stem) \in DOMAIN d THEN Put(d, file, Output(d, w.stem))
              ELSE Remove(d, file)
    BY <1>9, <2>1 DEF Perform, WriteOutput
  <2>3. Output(d, w.stem) = Output(e, w.stem) BY <1>3, <1>9, <2>1 DEF Output
  <2> QED BY <1>3, <1>4, <1>9, <2>1, <2>2, <2>3 DEF Holds
<1> QED BY <1>2, <1>5, <1>6, <1>7, <1>8, <1>9 DEF IsWrite

(***************************************************************************)
(* The plan: which writes there are, the joins before the enhancement and  *)
(* the enhancement before the rest.                                        *)
(***************************************************************************)
WritesOf(kind, stems) == {[kind |-> kind, stem |-> s] : s \in stems}

Planned ==
    WritesOf("join", JoinedStems)
      \cup (IF Enhanced(call)
              THEN WritesOf("enhance", EnhanceStems) \cup WritesOf("volume", {VolumeStem}) ELSE {})
      \cup WritesOf("copy", Targets(Requested))
      \cup (IF Targets(Requested) = {} THEN {} ELSE WritesOf("rejects", {Rejects}))
      \cup WritesOf("derived", DerivedStems \cap Requested)

LEMMA PlannedAreWrites == \A w \in Planned : IsWrite(w)
BY DEF Planned, WritesOf, IsWrite

\* A planned write is told by its kind and stem.
LEMMA SameWrite ==
    ASSUME NEW w \in Planned, NEW v \in Planned, w.kind = v.kind, w.stem = v.stem
    PROVE  w = v
<1>1. \A x \in Planned : x = [kind |-> x.kind, stem |-> x.stem] BY DEF Planned, WritesOf
<1> QED BY <1>1

Sorted(writes) == \A i, j \in DOMAIN writes : i <= j => Rank(writes[i]) <= Rank(writes[j])

\* writes is one block of the plan, or two that follow one another.
Block(writes, S) == IsRows(writes) /\ Sorted(writes) /\ SetOf(writes) = S

LEMMA WritesAre ==
    ASSUME NEW kind, NEW stems, IsRows(stems)
    PROVE  Block(Writes(kind, stems), WritesOf(kind, SetOf(stems)))
<1>1. PICK b : b = Writes(kind, stems) OBVIOUS
<1>2. b = [i \in DOMAIN stems |-> [kind |-> kind, stem |-> stems[i]]] BY <1>1 DEF Writes
<1>3. IsRows(b) /\ DOMAIN b = DOMAIN stems
  <2>1. b = [i \in DOMAIN stems |-> b[i]] BY <1>2
  <2> QED BY <2>1, RowsMapped
<1>4. SetOf(b) = WritesOf(kind, SetOf(stems)) BY <1>2, <1>3 DEF SetOf, WritesOf
<1>5. \A i \in DOMAIN b : b[i].kind = kind BY <1>2, <1>3
<1>6. Sorted(b)
  <2> SUFFICES ASSUME NEW i \in DOMAIN b, NEW j \in DOMAIN b PROVE Rank(b[i]) <= Rank(b[j])
    BY DEF Sorted
  <2>1. b[i].kind = kind /\ b[j].kind = kind BY <1>5
  <2>2. Rank(b[i]) = Rank(b[j]) /\ Rank(b[i]) \in {1, 2, 3} BY <2>1 DEF Rank
  <2> QED BY <2>2
<1> QED BY <1>1, <1>3, <1>4, <1>6 DEF Block

LEMMA BlocksFollow ==
    ASSUME NEW a, NEW S, Block(a, S), NEW b, NEW T, Block(b, T),
           \A x \in S, y \in T : Rank(x) <= Rank(y),
           NEW c, c = a \o b
    PROVE  Block(c, S \cup T)
<1>1. IsRows(a) /\ IsRows(b) /\ SetOf(a) = S /\ SetOf(b) = T BY DEF Block
<1>0. Follows(c, a, b) BY <1>1, Concatenated
<1>2. /\ IsRows(c) /\ SetOf(c) = SetOf(a) \cup SetOf(b) /\ Len(c) = Len(a) + Len(b)
      /\ \A i \in 1..Len(a) : c[i] = a[i]
      /\ \A i \in (Len(a) + 1)..Len(c) : i - Len(a) \in DOMAIN b /\ c[i] = b[i - Len(a)]
  BY <1>0 DEF Follows
<1>3. /\ Len(a) \in Nat /\ DOMAIN a = 1..Len(a) /\ Len(b) \in Nat /\ DOMAIN b = 1..Len(b)
      /\ DOMAIN c = 1..Len(c)
  BY <1>1, <1>2, RowsAreNumbered
<1>4. ASSUME NEW i \in DOMAIN c, NEW j \in DOMAIN c, i <= j PROVE Rank(c[i]) <= Rank(c[j])
  <2>1. CASE j <= Len(a)
    <3>1. c[i] = a[i] /\ c[j] = a[j] /\ i \in DOMAIN a /\ j \in DOMAIN a BY <1>2, <1>3, <1>4, <2>1
    <3> QED BY <1>4, <3>1 DEF Block, Sorted
  <2>2. CASE i <= Len(a) /\ j > Len(a)
    <3>1. c[i] = a[i] /\ i \in DOMAIN a BY <1>2, <1>3, <2>2
    <3>2. c[j] = b[j - Len(a)] /\ j - Len(a) \in DOMAIN b BY <1>2, <1>3, <2>2
    <3>3. c[i] \in S /\ c[j] \in T BY <1>1, <3>1, <3>2 DEF SetOf
    <3> QED BY <3>3
  <2>3. CASE i > Len(a)
    <3>1. /\ c[i] = b[i - Len(a)] /\ i - Len(a) \in DOMAIN b
          /\ c[j] = b[j - Len(a)] /\ j - Len(a) \in DOMAIN b /\ i - Len(a) <= j - Len(a)
      BY <1>2, <1>3, <1>4, <2>3
    <3> QED BY <3>1 DEF Block, Sorted
  <2> QED BY <1>3, <2>1, <2>2, <2>3
<1>5. Sorted(c) BY <1>4 DEF Sorted
<1> QED BY <1>1, <1>2, <1>5 DEF Block

LEMMA EmptyBlock == Block(<<>>, {})
BY DEF Block, IsRows, Sorted, SetOf

LEMMA TemporalFinite == IsFiniteSet(TemporalStems) /\ IsFiniteSet(EnhanceStems)
<1>1. PICK A, B, C, D :
        /\ A = {"field_licensee_hst", "field_operator_hst", "field_discoveries_incl_hst",
                "field_activity_status_hst", "field_owner_hst", "discovery_operator_hst"}
        /\ B = {"discovery_poly_hst", "licence_licensee_hst", "licence_operator_hst",
                "licence_phase_hst", "licence_area_poly_hst", "tuf"}
        /\ C = {"tuf_operator_hst", "tuf_owner_hst", "business_arrangement_area",
                "business_arrangement_history", "business_arrangement_licensee_hst",
                "business_arrangement_operator"}
        /\ D = {"afex_area", "afex_area_history", "petreg_licence", "seismic_acquisition_fishery"}
  OBVIOUS
<1>0. IsFiniteSet(1..6)
  <2>1. 1 \in Int /\ 6 \in Int OBVIOUS
  <2> QED BY <2>1, FS_Interval
<1>2. ASSUME NEW a, NEW b, NEW c, NEW d, NEW e, NEW f PROVE IsFiniteSet({a, b, c, d, e, f})
  <2>1. PICK f0 : f0 = [i \in 1..6 |-> CASE i = 1 -> a [] i = 2 -> b [] i = 3 -> c
                                          [] i = 4 -> d [] i = 5 -> e [] i = 6 -> f]
    OBVIOUS
  <2>2. {1, 2, 3, 4, 5, 6} \subseteq 1..6 OBVIOUS
  <2>3. f0[1] = a /\ f0[2] = b /\ f0[3] = c /\ f0[4] = d /\ f0[5] = e /\ f0[6] = f
    BY <2>1, <2>2
  <2>4. {a, b, c, d, e, f} \subseteq {f0[i] : i \in 1..6} BY <2>2, <2>3
  <2> QED BY <1>0, <2>4, CoveredFinite
<1>3. IsFiniteSet(A) /\ IsFiniteSet(B) /\ IsFiniteSet(C) BY <1>1, <1>2
<1>4. IsFiniteSet(D)
  <2>1. D = {"afex_area", "afex_area_history", "petreg_licence", "seismic_acquisition_fishery",
             "afex_area", "afex_area"}
    BY <1>1
  <2> QED BY <1>2, <2>1
<1>5. TemporalStems = (A \cup B) \cup (C \cup D) BY <1>1, TemporalStemsAre
<1>6. IsFiniteSet(TemporalStems) BY <1>3, <1>4, <1>5, FS_Union
<1>7. IsFiniteSet(EnhanceStems)
  <2>1. EnhanceStems = {"_derived_discovery_play", "_derived_discovery_play_candidate"}
                         \cup {"_derived_field_play"}
    BY DEF EnhanceStems, EnhanceCols
  <2>2. IsFiniteSet({"_derived_discovery_play"}) /\ IsFiniteSet({"_derived_discovery_play_candidate"})
        /\ IsFiniteSet({"_derived_field_play"})
    BY FS_Singleton
  <2>3. {"_derived_discovery_play", "_derived_discovery_play_candidate"}
          = {"_derived_discovery_play"} \cup {"_derived_discovery_play_candidate"}
    OBVIOUS
  <2> QED BY <2>1, <2>2, <2>3, FS_Union
<1> QED BY <1>6, <1>7

\* The registry's outputs that are needed, each once or not at all.
LEMMA OutputsAre ==
    ASSUME NEW needed
    PROVE  IsRows(OutputsIn(needed)) /\ SetOf(OutputsIn(needed)) = DerivedStems \cap needed
<1>1. PICK stems : stems = [i \in DOMAIN Outputs |-> Outputs[i].stem] OBVIOUS
<1>2. PICK K : K = {i \in DOMAIN stems : stems[i] \in needed} OBVIOUS
<1>3. IsRows(Outputs)
  <2>1. Outputs = [i \in 1..20 |-> Outputs[i]] BY DEF Outputs
  <2>2. 20 \in Nat OBVIOUS
  <2> QED BY <2>1, <2>2, NumberedAreRows
<1>4. IsRows(stems) /\ DOMAIN stems = DOMAIN Outputs
  <2>1. stems = [i \in DOMAIN Outputs |-> stems[i]] BY <1>1
  <2> QED BY <1>3, <2>1, RowsMapped
<1>5. OutputsIn(needed) = Kept(stems, K)
  <2>1. Select(stems, LAMBDA s : s \in needed) = SelectedAt(stems, K)
    BY <1>2, Zenon DEF Select, SelectedAt
  <2> QED BY <1>1, <2>1, SelectIsKept, Zenon DEF OutputsIn
<1>6. K \in SUBSET (DOMAIN stems) BY <1>2
<1>7. IsRows(Kept(stems, K)) /\ SetOf(Kept(stems, K)) = {stems[i] : i \in K}
  BY <1>4, <1>6, KeptRows
<1>8. {stems[i] : i \in K} = DerivedStems \cap needed
  BY <1>1, <1>2, <1>4 DEF DerivedStems
<1> QED BY <1>5, <1>7, <1>8

\* The plan of a call has these writes, in the order of their ranks.
LEMMA PlanIs == Block(Plan(call, Requested), Planned)
<1>1. PICK E : E = IF Enhanced(call)
                     THEN WritesOf("enhance", EnhanceStems) \cup WritesOf("volume", {VolumeStem})
                     ELSE {}
  OBVIOUS
<1>2. PICK R : R = IF Targets(Requested) = {} THEN {} ELSE WritesOf("rejects", {Rejects})
  OBVIOUS
<1>3. \A s : /\ IsRows(<<s>>) /\ SetOf(<<s>>) = {s}
  BY DEF IsRows, SetOf
<1>4. PICK e : e = IF Enhanced(call)
                     THEN Writes("enhance", AsRows(EnhanceStems)) \o Writes("volume", <<VolumeStem>>)
                     ELSE <<>>
  OBVIOUS
<1>5. PICK r : r = IF Targets(Requested) = {} THEN <<>> ELSE Writes("rejects", <<Rejects>>)
  OBVIOUS
<1>6. PICK c : c = Writes("copy", AsRows(Targets(Requested))) OBVIOUS
<1>7. PICK o : o = Writes("derived", OutputsIn(Requested)) OBVIOUS
<1>8. PICK j : j = Writes("join", JoinWrites) OBVIOUS
<1>9. \A x \in Planned \cup E : x.kind \in {"join", "enhance", "volume", "copy", "rejects", "derived"}
  BY <1>1 DEF Planned, WritesOf
<1>10. \A kind, S : \A x \in WritesOf(kind, S) : x.kind = kind BY DEF WritesOf
<1>11. Block(j, WritesOf("join", JoinedStems))
  <2>1. JoinedStems = SetOf(JoinWrites) BY DEF JoinedStems, SetOf
  <2> QED BY <1>8, <2>1, JoinsAre, WritesAre
<1>12. Block(e, E)
  <2>1. CASE Enhanced(call)
    <3>1. PICK a, b : a = Writes("enhance", AsRows(EnhanceStems)) /\ b = Writes("volume", <<VolumeStem>>)
      OBVIOUS
    <3>2. IsListOf(AsRows(EnhanceStems), EnhanceStems) BY TemporalFinite, AsRowsElements
    <3>3. Block(a, WritesOf("enhance", EnhanceStems))
      BY <3>1, <3>2, WritesAre DEF IsListOf, IsRows
    <3>4. Block(b, WritesOf("volume", {VolumeStem})) BY <1>3, <3>1, WritesAre
    <3>5. \A x \in WritesOf("enhance", EnhanceStems), y \in WritesOf("volume", {VolumeStem}) :
            Rank(x) <= Rank(y)
      BY <1>10 DEF Rank
    <3>6. e = a \o b BY <1>4, <2>1, <3>1
    <3>7. Block(e, WritesOf("enhance", EnhanceStems) \cup WritesOf("volume", {VolumeStem}))
      BY <3>3, <3>4, <3>5, <3>6, BlocksFollow
    <3> QED BY <1>1, <2>1, <3>7
  <2>2. CASE ~Enhanced(call) BY <1>1, <1>4, <2>2, EmptyBlock
  <2> QED BY <2>1, <2>2
<1>13. Block(c, WritesOf("copy", Targets(Requested)))
  <2>1. IsFiniteSet(Targets(Requested)) BY TemporalFinite, TargetsAreTemporal, FS_Subset
  <2>2. IsListOf(AsRows(Targets(Requested)), Targets(Requested)) BY <2>1, AsRowsElements
  <2> QED BY <1>6, <2>2, WritesAre DEF IsListOf, IsRows
<1>14. Block(r, R)
  <2>1. Block(Writes("rejects", <<Rejects>>), WritesOf("rejects", {Rejects})) BY <1>3, WritesAre
  <2> QED BY <1>2, <1>5, <2>1, EmptyBlock
<1>15. Block(o, WritesOf("derived", DerivedStems \cap Requested)) BY <1>7, OutputsAre, WritesAre
<1>16. /\ \A x \in E \cup R : x.kind \in {"enhance", "volume", "rejects"}
       /\ \A x \in E : x.kind \in {"enhance", "volume"}
       /\ \A x \in R : x.kind = "rejects"
  BY <1>1, <1>2, <1>10
<1>17. PICK J, C, O : /\ J = WritesOf("join", JoinedStems) /\ C = WritesOf("copy", Targets(Requested))
                      /\ O = WritesOf("derived", DerivedStems \cap Requested)
  OBVIOUS
<1>18. /\ \A x \in J : Rank(x) = 1
       /\ \A x \in E : Rank(x) \in {2, 3}
       /\ \A x \in C \cup R \cup O : Rank(x) = 3
  BY <1>10, <1>16, <1>17 DEF Rank
<1>19. PICK s1, s2, s3, s4 : /\ s1 = j \o e /\ s2 = s1 \o c /\ s3 = s2 \o r /\ s4 = s3 \o o
  OBVIOUS
<1>20. Block(s1, J \cup E)
  <2>1. \A x \in J, y \in E : Rank(x) <= Rank(y) BY <1>18
  <2> QED BY <1>11, <1>12, <1>17, <1>19, <2>1, BlocksFollow
<1>21. Block(s2, (J \cup E) \cup C)
  <2>1. \A x \in J \cup E, y \in C : Rank(x) <= Rank(y) BY <1>18
  <2> QED BY <1>13, <1>17, <1>19, <1>20, <2>1, BlocksFollow
<1>22. Block(s3, ((J \cup E) \cup C) \cup R)
  <2>1. \A x \in (J \cup E) \cup C, y \in R : Rank(x) <= Rank(y) BY <1>18
  <2> QED BY <1>14, <1>19, <1>21, <2>1, BlocksFollow
<1>23. Block(s4, (((J \cup E) \cup C) \cup R) \cup O)
  <2>1. \A x \in ((J \cup E) \cup C) \cup R, y \in O : Rank(x) <= Rank(y) BY <1>18
  <2> QED BY <1>15, <1>17, <1>19, <1>22, <2>1, BlocksFollow
<1>24. Plan(call, Requested) = s4
  BY <1>4, <1>5, <1>6, <1>7, <1>8, <1>19, Zenon DEF Plan
<1>25. Planned = (((J \cup E) \cup C) \cup R) \cup O BY <1>1, <1>2, <1>17, Zenon DEF Planned
<1> QED BY <1>23, <1>24, <1>25

(***************************************************************************)
(* The types of the wrapper's state.                                       *)
(***************************************************************************)
Stages ==
    {"idle", "register", "resolve", "cache", "refresh", "write", "memory", "clean", "save", "meta"}

IsDigest(g) == \E m, v : v \in 1..version /\ g = Digest(m, v)

\* At most one digest.
AtMostOne(S) == S = {} \/ \E g : S = {g} /\ IsDigest(g)

TypeInv ==
    /\ world \in Worlds /\ server \in 1..Len(world.server)
    /\ saved \in DOMAIN Complements \cup {NoFile, Torn}
    /\ pc # "idle" => call \in world.calls
    /\ today \in Nat \ {0} /\ version \in Nat \ {0} /\ graph.day \in 0..today
    /\ AtMostOne(graph.body) /\ AtMostOne(graph.meta)
    /\ pc \in Stages
    /\ todo.left # <<>> => pc = "write"

LEMMA ServerVersions ==
    ASSUME NEW w \in Worlds
    PROVE  Len(w.server) \in Nat \ {0} /\ DOMAIN w.server = 1..Len(w.server)
<1>1. w.server # <<>> /\ w.server \in Seq({w.server[v] : v \in DOMAIN w.server})
  BY WorldsAssumption
<1>2. PICK s, S : s = w.server /\ S = {w.server[v] : v \in DOMAIN w.server} OBVIOUS
<1>3. s \in Seq(S) /\ s # <<>> BY <1>1, <1>2
<1>4. Len(s) \in Nat /\ DOMAIN s = 1..Len(s) BY <1>3, LenProperties
<1>5. Len(s) # 0 BY <1>3, EmptySeq
<1> QED BY <1>2, <1>4, <1>5

LEMMA InitTypes == Init => TypeInv
<1> SUFFICES ASSUME Init PROVE TypeInv OBVIOUS
<1>1. server \in 1..Len(world.server) BY ServerVersions DEF Init
<1> QED BY <1>1 DEF Init, TypeInv, AtMostOne, NoGraph, NoWrites, Stages

\* A digest of the build, in place of what was there or beside nothing.
LEMMA DigestsStay ==
    ASSUME TypeInv, NEW S, AtMostOne(S), version' \in {version, version + 1}
    PROVE  AtMostOne(S)'
<1>1. 1..version \subseteq 1..version' BY DEF TypeInv
<1>2. ASSUME NEW g, IsDigest(g) PROVE IsDigest(g)'
  <2>1. PICK m, v : v \in 1..version /\ g = Digest(m, v) BY <1>2 DEF IsDigest
  <2>2. v \in 1..version' BY <1>1, <2>1
  <2> QED BY <2>1, <2>2 DEF IsDigest
<1>3. CASE S = {} BY <1>3 DEF AtMostOne
<1>4. CASE S # {}
  <2>1. PICK g : S = {g} /\ IsDigest(g) BY <1>4 DEF AtMostOne
  <2>2. IsDigest(g)' BY <1>2, <2>1
  <2> QED BY <2>1, <2>2 DEF AtMostOne
<1> QED BY <1>3, <1>4

LEMMA OwnDigest == TypeInv => AtMostOne({Digest(merged, version)})
<1> SUFFICES ASSUME TypeInv PROVE AtMostOne({Digest(merged, version)}) OBVIOUS
<1>1. version \in 1..version BY DEF TypeInv
<1>2. IsDigest(Digest(merged, version)) BY <1>1 DEF IsDigest
<1> QED BY <1>2 DEF AtMostOne

\* What a kill or a failed build leaves of the graph.
LEMMA TornTypes ==
    ASSUME GraphInv, TypeInv, NEW g \in {graph} \cup TornGraphs
    PROVE  AtMostOne(g.body) /\ AtMostOne(g.meta) /\ g.day \in 0..today
<1>1. CASE g = graph BY <1>1 DEF TypeInv
<1>2. CASE g \in TornGraphs
  <2>1. CASE pc = "clean"
    <3>1. PICK d \in {graph.day, 0}, m \in {graph.meta, {}} :
             g = [graph EXCEPT !.torn = TRUE, !.day = d, !.meta = m]
      BY <1>2, <2>1 DEF TornGraphs
    <3>2. g.body = graph.body /\ g.meta = m /\ g.day = d BY <3>1 DEF GraphInv, GraphFields
    <3> QED BY <3>1, <3>2 DEF TypeInv, AtMostOne
  <2>2. CASE pc = "save"
    <3>1. g = [graph EXCEPT !.torn = TRUE] BY <1>2, <2>2 DEF TornGraphs
    <3> QED BY <3>1 DEF GraphInv, GraphFields, TypeInv
  <2> QED BY <1>2, <2>1, <2>2 DEF TornGraphs
<1> QED BY <1>1, <1>2


\* Every step keeps the types: a register saves the complement it is given,
\* an upgrade keeps the digests of the versions before it.
LEMMA TypesStay == GraphInv /\ TypeInv /\ [Next]_vars => TypeInv'
<1> SUFFICES ASSUME GraphInv, TypeInv, [Next]_vars PROVE TypeInv' OBVIOUS
<1>1. CASE UNCHANGED vars
  BY <1>1 DEF vars, TypeInv, AtMostOne, IsDigest
<1>2. CASE StartCall
  BY <1>2 DEF StartCall, TypeInv, AtMostOne, IsDigest, Stages
<1>3. CASE Register
  <2>1. call.incoming \in DOMAIN Complements \cup {NoFile}
    BY <1>3, WorldsAssumption DEF Register, TypeInv, NoFile
  <2> QED BY <1>3, <2>1 DEF Register, TypeInv, AtMostOne, IsDigest, Stages
<1>4. CASE ResolveBlueprint \/ CacheMiss \/ Written
  <2>1. /\ UNCHANGED <<world, server, saved, graph, today, version>>
        /\ pc # "idle" /\ pc' \in Stages /\ (pc' # "idle" => call' = call)
        /\ todo'.left # <<>> => pc' = "write"
    BY <1>4 DEF ResolveBlueprint, CacheMiss, Written, Return, Stages, TypeInv, NoWrites
  <2> QED BY <2>1 DEF TypeInv, AtMostOne, IsDigest
<1>5. CASE ResolveFails \/ ServeCached \/ RefreshFails \/ WriteFails \/ BuildMemory
  <2>1. UNCHANGED <<world, server, saved, graph, today, version>> /\ pc' = "idle" /\ todo' = NoWrites
    BY <1>5 DEF ResolveFails, ServeCached, RefreshFails, WriteFails, BuildMemory, Return
  <2> QED BY <2>1 DEF TypeInv, AtMostOne, IsDigest, Stages, NoWrites
<1>6. CASE Refresh \/ Write
  <2>1. /\ UNCHANGED <<world, server, saved, graph, today, version, call>>
        /\ pc # "idle" /\ pc' = "write"
    BY <1>6 DEF Refresh, Write
  <2> QED BY <2>1 DEF TypeInv, AtMostOne, IsDigest, Stages
<1>7. CASE BuildFails
  <2>1. /\ UNCHANGED <<world, server, saved, today, version>> /\ pc' = "idle" /\ todo' = NoWrites
        /\ graph' \in {graph} \cup TornGraphs
    BY <1>7 DEF BuildFails, Return
  <2>2. AtMostOne(graph'.body) /\ AtMostOne(graph'.meta) /\ graph'.day \in 0..today
    BY <2>1, TornTypes
  <2>3. AtMostOne(graph.body)' /\ AtMostOne(graph.meta)'
    BY <2>1, <2>2 DEF AtMostOne, IsDigest
  <2> QED BY <2>1, <2>2, <2>3 DEF TypeInv, Stages, NoWrites
<1>8. CASE CleanGraph
  BY <1>8 DEF CleanGraph, TypeInv, NoGraph, AtMostOne, Stages
<1>9. CASE SaveGraph \/ WriteMeta
  <2>1. /\ UNCHANGED <<world, server, saved, today, version>>
        /\ graph'.body \in {graph.body, {Digest(merged, version)}}
        /\ graph'.meta \in {graph.meta, {Digest(merged, version)}}
        /\ graph'.day \in {graph.day, today}
    BY <1>9 DEF SaveGraph, WriteMeta, GraphInv, GraphFields
  <2>2. pc \notin {"idle", "write"} /\ pc' \in Stages /\ (pc' # "idle" => call' = call)
        /\ todo'.left = <<>>
    BY <1>9 DEF SaveGraph, WriteMeta, Return, Stages, TypeInv, NoWrites
  <2>3. AtMostOne(graph'.body) /\ AtMostOne(graph'.meta) BY <2>1, OwnDigest DEF TypeInv
  <2>4. AtMostOne(graph.body)' /\ AtMostOne(graph.meta)' BY <2>1, <2>3 DEF AtMostOne, IsDigest
  <2> QED BY <2>1, <2>2, <2>4 DEF TypeInv
<1>10. CASE Kill
  <2>1. /\ UNCHANGED <<world, server, today, version>> /\ pc' = "idle" /\ todo' = NoWrites
        /\ graph' \in {graph} \cup TornGraphs /\ saved' \in {saved, Torn}
    BY <1>10 DEF Kill
  <2>2. AtMostOne(graph'.body) /\ AtMostOne(graph'.meta) /\ graph'.day \in 0..today
    BY <2>1, TornTypes
  <2>3. AtMostOne(graph.body)' /\ AtMostOne(graph.meta)'
    BY <2>1, <2>2 DEF AtMostOne, IsDigest
  <2> QED BY <2>1, <2>2, <2>3 DEF TypeInv, Stages, NoWrites
<1>11. CASE NextDay \/ DeleteCsv \/ remove_complement
  <2>1. /\ UNCHANGED <<world, server, graph, version, pc, call, todo>> /\ pc = "idle"
        /\ today' \in {today, today + 1} /\ saved' \in {saved, NoFile}
    BY <1>11 DEF NextDay, DeleteCsv, remove_complement, Edit
  <2>2. today' \in Nat \ {0} /\ graph'.day \in 0..today' BY <2>1 DEF TypeInv
  <2>3. AtMostOne(graph.body)' /\ AtMostOne(graph.meta)' BY <2>1 DEF TypeInv, AtMostOne, IsDigest
  <2> QED BY <2>1, <2>2, <2>3 DEF TypeInv
<1>12. CASE Publish
  <2>1. /\ UNCHANGED <<world, saved, graph, today, version, pc, call, todo>> /\ pc = "idle"
        /\ server' = server + 1 /\ server < Len(world.server)
    BY <1>12 DEF Publish, Edit
  <2>2. Len(world.server) \in Nat BY ServerVersions DEF TypeInv
  <2>3. server' \in 1..Len(world'.server) BY <2>1, <2>2 DEF TypeInv
  <2>4. AtMostOne(graph.body)' /\ AtMostOne(graph.meta)' BY <2>1 DEF TypeInv, AtMostOne, IsDigest
  <2> QED BY <2>1, <2>3, <2>4 DEF TypeInv
<1>13. CASE Upgrade
  <2>1. /\ UNCHANGED <<world, server, saved, graph, today, pc, call, todo>> /\ pc = "idle"
        /\ version' = version + 1
    BY <1>13 DEF Upgrade, Edit
  <2>2. \A S : AtMostOne(S) => AtMostOne(S)' BY <2>1, DigestsStay
  <2>3. AtMostOne(graph.body)' /\ AtMostOne(graph.meta)'
    <3>1. PICK B, M : B = graph.body /\ M = graph.meta OBVIOUS
    <3>2. AtMostOne(B)' /\ AtMostOne(M)' BY <2>2, <3>1 DEF TypeInv
    <3>3. graph'.body = B /\ graph'.meta = M BY <2>1, <3>1
    <3> QED BY <3>2, <3>3 DEF AtMostOne
  <2> QED BY <2>1, <2>3 DEF TypeInv
<1> QED
  BY <1>1, <1>2, <1>3, <1>4, <1>5, <1>6, <1>7, <1>8, <1>9, <1>10, <1>11, <1>12, <1>13 DEF Next, Step

(***************************************************************************)
(* The workdir's tables, step by step.                                     *)
(***************************************************************************)
IsPrefix(p, rows) ==
    /\ IsRows(p) /\ SetOf(p) \subseteq SetOf(rows)
    /\ DOMAIN p \subseteq DOMAIN rows
    /\ \A i \in DOMAIN p : p[i] = rows[i]

LEMMA Prefix ==
    ASSUME NEW rows, IsRows(rows), NEW n \in 0..(Len(rows) - 1), NEW p, p = SubSeq(rows, 1, n)
    PROVE  IsPrefix(p, rows)
<1>1. Len(rows) \in Nat /\ DOMAIN rows = 1..Len(rows) BY RowsAreNumbered
<1>2. PICK S : S = SetOf(rows) OBVIOUS
<1>3. rows \in Seq(S) /\ n \in Nat /\ n <= Len(rows) BY <1>1, <1>2 DEF IsRows
<1>4. p \in Seq(S) /\ Len(p) = n /\ \A i \in 1..n : p[i] = rows[i]
  BY <1>3
<1>5. DOMAIN p = 1..n BY <1>4, LenProperties
<1>6. p = [i \in 1..n |-> p[i]] BY <1>4, <1>5
<1>7. IsRows(p) BY <1>3, <1>6, NumberedAreRows
<1>8. 1..n \subseteq 1..Len(rows) BY <1>1, <1>3
<1> QED BY <1>1, <1>4, <1>5, <1>7, <1>8 DEF SetOf, IsPrefix

LEMMA PrefixIsTable ==
    ASSUME NEW t, IsTable(t), NEW u \in Prefixes(t)
    PROVE  IsTable(u) /\ u.cols = t.cols
<1>1. PICK n \in 0..(Len(t.rows) - 1) : u = [t EXCEPT !.rows = SubSeq(@, 1, n)] BY DEF Prefixes
<1>2. PICK p : p = SubSeq(t.rows, 1, n) OBVIOUS
<1>3. DOMAIN u = {"cols", "rows"} /\ u.cols = t.cols /\ u.rows = p BY <1>1, <1>2 DEF IsTable
<1>4. IsPrefix(p, t.rows) BY <1>2, TableRows, Prefix
<1>5. \A i \in DOMAIN t.rows : /\ DOMAIN t.rows[i] = t.cols
                               /\ \A c \in NumberColumns \cap t.cols : t.rows[i][c] \in Nat
  BY DEF IsTable
<1>6. u.rows \in Seq({u.rows[i] : i \in DOMAIN u.rows}) BY <1>3, <1>4 DEF IsPrefix, IsRows, SetOf
<1> QED BY <1>3, <1>4, <1>5, <1>6 DEF IsPrefix, IsTable

\* A kill inside a write leaves tables.
LEMMA TornTables ==
    ASSUME TablesInv(dir), NEW d \in {dir} \cup TornWrites
    PROVE  TablesInv(d)
<1>1. CASE d = dir BY <1>1
<1>2. CASE d \in TornWrites
  <2>1. todo.file \in DOMAIN dir BY <1>2 DEF TornWrites
  <2>2. PICK f, t : f = todo.file /\ t = dir[f] OBVIOUS
  <2>3. PICK u \in Prefixes(t) : d = Put(dir, f, u) BY <1>2, <2>1, <2>2 DEF TornWrites
  <2>4. DOMAIN t = TableFields BY <2>1, <2>2 DEF TablesInv
  <2>5. PICK n \in 0..(Len(t.rows) - 1) : u = [t EXCEPT !.rows = SubSeq(@, 1, n)]
    BY DEF Prefixes
  <2>6. DOMAIN u = TableFields /\ u.cols = t.cols /\ u.rows = SubSeq(t.rows, 1, n)
    BY <2>4, <2>5 DEF TableFields
  <2>7. /\ DOMAIN d = DOMAIN dir /\ d[f] = u
        /\ \A s \in DOMAIN dir : s # f => d[s] = dir[s]
    BY <2>1, <2>2, <2>3 DEF Put
  <2>8. \A s \in DOMAIN d : s \notin OwnStems => IsTable(d[s]) /\ KeyColumns(s) \subseteq d[s].cols
    <3> SUFFICES ASSUME NEW s \in DOMAIN d, s \notin OwnStems
                 PROVE  IsTable(d[s]) /\ KeyColumns(s) \subseteq d[s].cols
      OBVIOUS
    <3>1. IsTable(dir[s]) /\ KeyColumns(s) \subseteq dir[s].cols BY <2>7 DEF TablesInv
    <3>2. CASE s = f BY <2>2, <2>7, <3>1, <3>2, PrefixIsTable
    <3> QED BY <2>7, <3>1, <3>2
  <2>9. \A s \in DOMAIN d : DOMAIN d[s] = TableFields BY <2>6, <2>7 DEF TablesInv
  <2>10. \A s \in EnhanceStems \cap DOMAIN d : d[s].cols = EnhanceCols[s]
    BY <2>2, <2>6, <2>7 DEF TablesInv
  <2>11. ASSUME VolumeStem \in DOMAIN d
         PROVE  IsRows(d[VolumeStem].rows) /\ DisjointVolumes(d[VolumeStem].rows)
    <3>1. IsRows(dir[VolumeStem].rows) /\ DisjointVolumes(dir[VolumeStem].rows)
      BY <2>7, <2>11 DEF TablesInv
    <3>2. CASE f = VolumeStem
      <4>1. PICK rows, p : rows = t.rows /\ p = u.rows OBVIOUS
      <4>2. IsRows(rows) /\ DisjointVolumes(rows) BY <2>2, <3>1, <3>2, <4>1
      <4>3. IsRows(p) /\ SetOf(p) \subseteq SetOf(rows) BY <2>6, <4>1, <4>2, Prefix DEF IsPrefix
      <4>4. DisjointVolumes(p) BY <4>2, <4>3 DEF DisjointVolumes
      <4> QED BY <2>7, <3>2, <4>1, <4>3, <4>4
    <3> QED BY <2>7, <2>11, <3>1, <3>2
  <2> QED BY <2>8, <2>9, <2>10, <2>11 DEF TablesInv
<1> QED BY <1>1, <1>2

(***************************************************************************)
(* The writes of a call: those that are done hold, and are not undone by   *)
(* those to come.                                                          *)
(***************************************************************************)
Done == Planned \ SetOf(todo.left)

WritesInv ==
    /\ pc = "write" =>
         /\ IsRows(todo.left) /\ Sorted(todo.left) /\ SetOf(todo.left) \subseteq Planned
         /\ \A w \in Done : Holds(dir, w) /\ \A v \in SetOf(todo.left) : Rank(w) <= Rank(v)
    /\ AboutToBuild => \A w \in Planned : Holds(dir, w)

LEMMA HeadAndTail ==
    ASSUME NEW left, IsRows(left), Sorted(left), left # <<>>, NEW t, t = Tail(left)
    PROVE  /\ Head(left) \in SetOf(left) /\ IsRows(t) /\ Sorted(t)
           /\ SetOf(left) = {Head(left)} \cup SetOf(t)
           /\ \A v \in SetOf(t) : Rank(Head(left)) <= Rank(v)
<1>1. PICK S : S = SetOf(left) OBVIOUS
<1>2. left \in Seq(S) BY <1>1 DEF IsRows
<1>3. Len(left) \in Nat /\ DOMAIN left = 1..Len(left) BY RowsAreNumbered
<1>4. Len(left) # 0 BY <1>2, EmptySeq
<1>5. t \in Seq(S) /\ Len(t) = Len(left) - 1 /\ \A i \in 1..Len(t) : t[i] = left[i + 1]
  BY <1>2, HeadTailProperties
<1>6. Head(left) = left[1] BY <1>2
<1>7. DOMAIN t = 1..Len(t) /\ Len(t) \in Nat /\ t = [i \in 1..Len(t) |-> t[i]]
  <2>1. DOMAIN t = 1..Len(t) /\ Len(t) \in Nat /\ t \in [1..Len(t) -> S] BY <1>5, LenProperties
  <2> QED BY <2>1
<1>8. IsRows(t) BY <1>7, NumberedAreRows
<1>9. \A i \in DOMAIN t : i + 1 \in DOMAIN left /\ t[i] = left[i + 1] BY <1>3, <1>5, <1>7
<1>10. 1 \in DOMAIN left /\ \A i \in DOMAIN left : i = 1 \/ i - 1 \in DOMAIN t
  BY <1>3, <1>4, <1>5, <1>7
<1>11. SetOf(left) = {Head(left)} \cup SetOf(t)
  <2>1. ASSUME NEW x \in SetOf(left) PROVE x = Head(left) \/ x \in SetOf(t)
    <3>1. PICK i \in DOMAIN left : x = left[i] BY DEF SetOf
    <3>2. CASE i = 1 BY <1>6, <3>1, <3>2
    <3>3. CASE i # 1
      <4>1. i - 1 \in DOMAIN t /\ t[i - 1] = left[i] BY <1>3, <1>9, <1>10, <3>3
      <4> QED BY <3>1, <4>1 DEF SetOf
    <3> QED BY <3>2, <3>3
  <2>2. Head(left) \in SetOf(left) BY <1>6, <1>10 DEF SetOf
  <2>3. \A x \in SetOf(t) : x \in SetOf(left) BY <1>9 DEF SetOf
  <2> QED BY <2>1, <2>2, <2>3
<1>12. Sorted(t)
  <2> SUFFICES ASSUME NEW i \in DOMAIN t, NEW j \in DOMAIN t, i <= j
               PROVE  Rank(t[i]) <= Rank(t[j])
    BY DEF Sorted
  <2>1. i + 1 <= j + 1 BY <1>7
  <2> QED BY <1>9, <2>1 DEF Sorted
<1>13. ASSUME NEW v \in SetOf(t) PROVE Rank(Head(left)) <= Rank(v)
  <2>1. PICK i \in DOMAIN t : v = t[i] BY DEF SetOf
  <2>2. v = left[i + 1] /\ i + 1 \in DOMAIN left /\ 1 <= i + 1 BY <1>7, <1>9, <2>1
  <2> QED BY <1>6, <1>10, <2>2 DEF Sorted
<1> QED BY <1>8, <1>11, <1>12, <1>13

\* Holds as it will be read in the next state.
LEMMA HoldsNext ==
    ASSUME UNCHANGED <<call, merged>>
    PROVE  /\ Planned' = Planned
           /\ \A w : Holds(dir', w) <=> Holds(dir, w)'
<1>1. Requested' = Requested /\ Enhanced(call)' = Enhanced(call) BY DEF Requested, Enhanced
<1>2. Planned' = Planned BY <1>1 DEF Planned
<1>3. \A w : Holds(dir', w) <=> Holds(dir, w)' BY <1>1 DEF Holds
<1> QED BY <1>2, <1>3

LEMMA WriteKeepsWrites ==
    ASSUME TablesInv(dir), WritesInv, Write
    PROVE  WritesInv'
<1> DEFINE w == Head(todo.left)
<1>1. /\ pc = "write" /\ pc' = "write" /\ todo.left # <<>>
      /\ dir' = Perform(dir, w) /\ todo'.left = Tail(todo.left) /\ UNCHANGED <<call, merged>>
  BY DEF Write
<1>2. /\ IsRows(todo.left) /\ Sorted(todo.left) /\ SetOf(todo.left) \subseteq Planned
      /\ \A v \in Done : Holds(dir, v) /\ \A u \in SetOf(todo.left) : Rank(v) <= Rank(u)
  BY <1>1 DEF WritesInv
<1>3. PICK t : t = Tail(todo.left) OBVIOUS
<1>4. /\ w \in SetOf(todo.left) /\ IsRows(t) /\ Sorted(t)
      /\ SetOf(todo.left) = {w} \cup SetOf(t) /\ \A v \in SetOf(t) : Rank(w) <= Rank(v)
  BY <1>1, <1>2, <1>3, HeadAndTail
<1>5. w \in Planned /\ IsWrite(w) BY <1>2, <1>4, PlannedAreWrites
<1> HIDE DEF w
<1>6. ASSUME NEW v \in Planned, v \notin SetOf(t)
      PROVE  Holds(dir', v) /\ \A u \in SetOf(t) : Rank(v) <= Rank(u)
  <2>1. CASE v = w BY <1>1, <1>4, <1>5, <2>1, WriteHolds
  <2>2. CASE v # w
    <3>1. v \in Done BY <1>4, <1>6, <2>2 DEF Done
    <3>2. Holds(dir, v) /\ \A u \in SetOf(todo.left) : Rank(v) <= Rank(u) BY <1>2, <3>1
    <3>3. IsWrite(v) BY PlannedAreWrites
    <3>4. CASE FileOf(w) \in ReadBy(v) \cup {FileOf(v)}
      <4>1. v.kind = "join" \/ (v.kind = w.kind /\ v.stem = w.stem)
        BY <1>4, <1>5, <3>2, <3>3, <3>4, LaterWritesElsewhere
      <4>2. v.kind = "join" BY <1>5, <2>2, <4>1, SameWrite
      <4>3. Holds(dir', v) BY <4>2 DEF Holds
      <4> QED BY <1>4, <3>2, <4>3
    <3>5. CASE FileOf(w) \notin ReadBy(v) \cup {FileOf(v)}
      <4>1. Agree(dir, dir', ReadBy(v) \cup {FileOf(v)}) BY <1>1, <1>5, <3>5, WriteIsLocal
      <4>2. Holds(dir', v) BY <3>2, <3>3, <4>1, HoldsIsLocal
      <4> QED BY <1>4, <3>2, <4>2
    <3> QED BY <3>4, <3>5
  <2> QED BY <2>1, <2>2
<1>7. Planned' = Planned /\ \A v : Holds(dir', v) <=> Holds(dir, v)' BY <1>1, HoldsNext
<1>8. todo'.left = t BY <1>1, <1>3
<1>9. SetOf(t) \subseteq Planned BY <1>2, <1>4
<1>10. \A v \in Planned' \ SetOf(todo'.left) :
         Holds(dir, v)' /\ \A u \in SetOf(todo'.left) : Rank(v) <= Rank(u)
  BY <1>6, <1>7, <1>8
<1> QED BY <1>1, <1>4, <1>7, <1>8, <1>9, <1>10 DEF WritesInv, Done, AboutToBuild

\* The other steps: a refresh plans every write, and the build starts when
\* none is left.
LEMMA WritesStay == TablesInv(dir) /\ WritesInv /\ [Next]_vars => WritesInv'
<1> SUFFICES ASSUME TablesInv(dir), WritesInv, [Next]_vars PROVE WritesInv' OBVIOUS
<1>1. CASE Write BY <1>1, WriteKeepsWrites
<1>2. CASE Refresh
  <2>1. /\ pc' = "write" /\ UNCHANGED <<call, merged>>
        /\ todo'.left = Plan(call, Requested)
    BY <1>2 DEF Refresh, Requested
  <2>2. Planned' = Planned BY <2>1, HoldsNext
  <2>3. PICK p : p = Plan(call, Requested) OBVIOUS
  <2>4. IsRows(p) /\ Sorted(p) /\ SetOf(p) = Planned BY <2>3, PlanIs DEF Block
  <2>5. /\ IsRows(todo'.left) /\ Sorted(todo'.left) /\ SetOf(todo'.left) = Planned'
    BY <2>1, <2>2, <2>3, <2>4
  <2> QED BY <2>1, <2>5 DEF WritesInv, Done, AboutToBuild
<1>3. CASE Written
  <2>1. pc = "write" /\ todo.left = <<>> /\ dir' = dir /\ pc' \in {"idle", "memory", "clean"}
    BY <1>3 DEF Written, Return
  <2>2. SetOf(todo.left) = {} BY <2>1 DEF SetOf
  <2>3. \A w \in Planned : Holds(dir, w) BY <2>1, <2>2 DEF WritesInv, Done
  <2>4. CASE pc' # "idle"
    <3>1. UNCHANGED <<call, merged>> BY <1>3, <2>4 DEF Written, Return
    <3>2. Planned' = Planned /\ \A v : Holds(dir', v) <=> Holds(dir, v)' BY <3>1, HoldsNext
    <3> QED BY <2>1, <2>3, <2>4, <3>2 DEF WritesInv
  <2>5. CASE pc' = "idle" BY <2>5 DEF WritesInv, AboutToBuild
  <2> QED BY <2>4, <2>5
<1>4. ASSUME Next, ~Write, ~Refresh, ~Written
      PROVE  pc' \notin {"write", "memory", "clean"}
  BY <1>4 DEF Next, Step, StartCall, Register, ResolveBlueprint, ResolveFails, ServeCached,
       CacheMiss, RefreshFails, WriteFails, BuildMemory, BuildFails, CleanGraph, SaveGraph,
       WriteMeta, Kill, NextDay, Upgrade, Publish, DeleteCsv, remove_complement, Edit, Return
<1>5. CASE pc' \notin {"write", "memory", "clean"} BY <1>5 DEF WritesInv, AboutToBuild
<1>6. CASE UNCHANGED vars
  <2>1. UNCHANGED <<call, merged>> /\ dir' = dir /\ pc' = pc /\ todo' = todo BY <1>6 DEF vars
  <2>2. Planned' = Planned /\ \A v : Holds(dir', v) <=> Holds(dir, v)' BY <2>1, HoldsNext
  <2> QED BY <2>1, <2>2 DEF WritesInv, Done, AboutToBuild
<1> QED BY <1>1, <1>2, <1>3, <1>4, <1>5, <1>6

\* What the service publishes are tables, and no step makes them less.
LEMMA TablesStay ==
    ASSUME TypeInv, TablesInv(dir), WritesInv, [Next]_vars
    PROVE  TablesInv(dir')
<1>1. CASE dir' = dir BY <1>1
<1>2. CASE Refresh
  <2>1. PICK batch, got :
          /\ batch \in world.batches
          /\ got \subseteq DOMAIN Remote
          /\ dir' = [s \in DOMAIN dir \cup got |-> IF s \in got THEN Remote[s] ELSE dir[s]]
    <3>1. PICK batch \in world.batches :
            LET got == {s \in Fetched(Needed(call, merged)) \cap DOMAIN Remote :
                          s \in batch.stems \/ (batch.missing /\ s \notin DOMAIN dir)}
            IN  dir' = [s \in DOMAIN dir \cup got |-> IF s \in got THEN Remote[s] ELSE dir[s]]
      BY <1>2 DEF Refresh
    <3> QED BY <3>1
  <2>2. /\ DOMAIN Remote \cap OwnStems = {}
        /\ \A s \in DOMAIN Remote : IsTable(Remote[s]) /\ KeyColumns(s) \subseteq Remote[s].cols
    <3>1. server \in DOMAIN world.server BY ServerVersions DEF TypeInv
    <3> QED BY <3>1, WorldsAssumption DEF TypeInv, Remote
  <2>3. \A s \in DOMAIN dir' : \/ s \in DOMAIN Remote /\ dir'[s] = Remote[s]
                               \/ s \in DOMAIN dir /\ dir'[s] = dir[s]
    BY <2>1
  <2>4. \A s \in DOMAIN Remote : s \notin OwnStems /\ DOMAIN Remote[s] = TableFields
    BY <2>2 DEF IsTable, TableFields
  <2>5. EnhanceStems \subseteq OwnStems /\ VolumeStem \in OwnStems BY OwnStemsApart DEF MadeStems
  <2> QED BY <2>2, <2>3, <2>4, <2>5 DEF TablesInv
<1>3. CASE Write
  <2>1. /\ IsRows(todo.left) /\ Sorted(todo.left) /\ SetOf(todo.left) \subseteq Planned
        /\ todo.left # <<>> /\ dir' = Perform(dir, Head(todo.left))
    BY <1>3 DEF Write, WritesInv
  <2>2. Head(todo.left) \in SetOf(todo.left) BY <2>1, HeadAndTail
  <2>3. IsWrite(Head(todo.left)) BY <2>1, <2>2, PlannedAreWrites
  <2> QED BY <2>1, <2>3, WriteKeepsTables
<1>4. CASE Kill BY <1>4, TornTables DEF Kill
<1>5. CASE DeleteCsv
  <2>1. PICK s : dir' = Remove(dir, s) BY <1>5 DEF DeleteCsv
  <2>2. DOMAIN dir' \subseteq DOMAIN dir /\ \A r \in DOMAIN dir' : dir'[r] = dir[r]
    BY <2>1 DEF Remove
  <2> QED BY <2>2 DEF TablesInv
<1>6. ASSUME Next, ~Refresh, ~Write, ~Kill, ~DeleteCsv PROVE dir' = dir
  BY <1>6 DEF Next, Step, StartCall, Register, ResolveBlueprint, ResolveFails, ServeCached,
       CacheMiss, RefreshFails, WriteFails, Written, BuildMemory, BuildFails, CleanGraph,
       SaveGraph, WriteMeta, NextDay, Upgrade, Publish, remove_complement, Edit
<1>7. CASE UNCHANGED vars BY <1>7 DEF vars
<1> QED BY <1>1, <1>2, <1>3, <1>4, <1>5, <1>6, <1>7

WorkdirInv == GraphInv /\ TypeInv /\ TablesInv(dir) /\ WritesInv

LEMMA InitWorkdir == Init => WorkdirInv
<1> SUFFICES ASSUME Init PROVE WorkdirInv OBVIOUS
<1>1. TablesInv(dir) BY DEF Init, TablesInv
<1>2. WritesInv BY DEF Init, WritesInv, AboutToBuild
<1> QED BY <1>1, <1>2, InitGraph, InitTypes DEF WorkdirInv

LEMMA WorkdirStays == WorkdirInv /\ [Next]_vars => WorkdirInv'
<1> SUFFICES ASSUME WorkdirInv, [Next]_vars PROVE WorkdirInv' OBVIOUS
<1>1. GraphInv' BY StepKeeps DEF WorkdirInv
<1>2. TypeInv' BY TypesStay DEF WorkdirInv
<1>3. TablesInv(dir') BY TablesStay DEF WorkdirInv
<1>4. WritesInv' BY WritesStay DEF WorkdirInv
<1>5. TablesInv(dir)' BY <1>3 DEF TablesInv
<1> QED BY <1>1, <1>2, <1>4, <1>5 DEF WorkdirInv

\* What the files of the workdir hold, at every step of every call: what is
\* left of the plan, what is done of it, and tables as they are published.
THEOREM WorkdirCorrect == Spec => []WorkdirInv
<1> QED BY InitWorkdir, WorkdirStays, PTL DEF Spec

(***************************************************************************)
(* What this says of the properties of SodirOpen.                          *)
(***************************************************************************)
LEMMA DigestsKnown ==
    ASSUME TypeInv, NEW S \in {graph.body, graph.meta}
    PROVE  S \subseteq Digests /\ Cardinality(S) <= 1
<1>1. AtMostOne(S) BY DEF TypeInv
<1>2. CASE S = {}
  <2>1. Cardinality(S) = 0 BY <1>2, FS_EmptySet
  <2> QED BY <1>2, <2>1
<1>3. CASE S # {}
  <2>1. PICK g : S = {g} /\ IsDigest(g) BY <1>1, <1>3 DEF AtMostOne
  <2>2. PICK m, v : v \in 1..version /\ g = Digest(m, v) BY <2>1 DEF IsDigest
  <2>3. g.blueprint = m BY <2>2 DEF Digest
  <2>4. g \in graph.body \cup graph.meta BY <2>1
  <2>5. m \in {merged} \cup {h.blueprint : h \in graph.body \cup graph.meta} BY <2>3, <2>4
  <2>6. g \in Digests BY <2>2, <2>5 DEF Digests
  <2>7. Cardinality(S) = 1 BY <2>1, FS_Singleton
  <2> QED BY <2>1, <2>6, <2>7
<1> QED BY <1>2, <1>3

\* The wrapper's state has its types, and the graph directory at most one
\* build and one stamp (TypeOK).
THEOREM WrapperTypes == Spec => []TypeOK
<1>1. WorkdirInv => TypeOK
  <2> SUFFICES ASSUME WorkdirInv PROVE TypeOK OBVIOUS
  <2>1. TypeInv /\ TablesInv(dir) BY DEF WorkdirInv
  <2>2. \A s \in DOMAIN dir : DOMAIN dir[s] = {"cols", "rows"} BY <2>1 DEF TablesInv, TableFields
  <2>3. /\ graph.body \subseteq Digests /\ Cardinality(graph.body) <= 1
        /\ graph.meta \subseteq Digests /\ Cardinality(graph.meta) <= 1
    BY <2>1, DigestsKnown
  <2> QED BY <2>1, <2>2, <2>3 DEF TypeOK, TypeInv, Stages
<1> QED BY <1>1, WorkdirCorrect, PTL

\* Usable volumes do not overlap, those of an earlier call included
\* (VolumesDisjoint; volume.rs).
THEOREM VolumesNeverOverlap == Spec => []VolumesDisjoint
<1>1. WorkdirInv => VolumesDisjoint
  <2> SUFFICES ASSUME TablesInv(dir),
                      NEW v \in RowSet(dir, VolumeStem), v.usable,
                      NEW w \in RowSet(dir, VolumeStem), w.usable, v # w
               PROVE  /\ v.fldNpdidField = w.fldNpdidField => v.fldNpdidField = NoId
                      /\ v.source_discovery_id = w.dscNpdidDiscovery =>
                           w.method # "discovery_reserves"
    BY DEF WorkdirInv, VolumesDisjoint
  <2>1. VolumeStem \in DOMAIN dir BY DEF RowSet, Rows
  <2>2. RowSet(dir, VolumeStem) = SetOf(dir[VolumeStem].rows) BY <2>1 DEF RowSet, Rows, SetOf
  <2>3. DisjointVolumes(dir[VolumeStem].rows) BY <2>1 DEF TablesInv
  <2>4. ~Overlap(v, w) BY <2>2, <2>3 DEF DisjointVolumes
  <2> QED BY <2>4 DEF Overlap
<1> QED BY <1>1, WorkdirCorrect, PTL

LEMMA BuildReads ==
    ASSUME WorkdirInv, AboutToBuild
    PROVE  /\ \A w \in Planned : Holds(dir, w)
           /\ Sound(dir, EnhanceSources) /\ Sound(Only(dir, EnhanceSources), EnhanceSources)
           /\ \A s \in Targets(Requested) \cap DOMAIN dir : IsTable(dir[s])
<1>1. \A w \in Planned : Holds(dir, w) BY DEF WorkdirInv, WritesInv
<1>2. Sound(dir, EnhanceSources)
  <2>1. EnhanceSources \cap OwnStems = {} BY SourcesAreNotOwn
  <2> QED BY <2>1, SourcesAreSound DEF WorkdirInv
<1>3. \A s \in Targets(Requested) \cap DOMAIN dir : IsTable(dir[s])
  <2>1. \A s \in Targets(Requested) : s \notin OwnStems BY TargetsAreTemporal, SourcesAreNotOwn
  <2> QED BY <2>1 DEF WorkdirInv, TablesInv
<1> QED BY <1>1, <1>2, <1>3, OnlyIsSound

\* The tables of the enhancement hold its rows.
LEMMA EnhancedNow ==
    ASSUME WorkdirInv, AboutToBuild, Enhanced(call), NEW s \in EnhanceStems
    PROVE  /\ EnhanceSources \subseteq DOMAIN dir => RowSet(dir, s) = Enhancement(dir, s)
           /\ ~(EnhanceSources \subseteq DOMAIN dir) => RowSet(dir, s) = {}
<1>1. PICK w : w = [kind |-> "enhance", stem |-> s] OBVIOUS
<1>2. w \in Planned BY <1>1 DEF Planned, WritesOf
<1>3. Holds(dir, w) /\ w.kind = "enhance" /\ w.stem = s BY <1>1, <1>2, BuildReads
<1>4. CASE EnhanceSources \subseteq DOMAIN dir
  <2>1. s \in DOMAIN dir /\ dir[s] = NewTable(EnhanceCols[s], AsRows(Enhancement(dir, s)))
    BY <1>3, <1>4 DEF Holds
  <2>2. IsFiniteSet(Enhancement(dir, s)) BY BuildReads, EnhancedFinite DEF Enhancement
  <2>3. IsListOf(AsRows(Enhancement(dir, s)), Enhancement(dir, s)) BY <2>2, AsRowsElements
  <2>4. Rows(dir, s) = AsRows(Enhancement(dir, s)) BY <2>1 DEF Rows, NewTable
  <2>5. RowSet(dir, s) = SetOf(Rows(dir, s)) BY DEF RowSet, SetOf
  <2>6. SetOf(AsRows(Enhancement(dir, s))) = Enhancement(dir, s) BY <2>3 DEF IsListOf
  <2> QED BY <1>4, <2>4, <2>5, <2>6
<1>5. CASE ~(EnhanceSources \subseteq DOMAIN dir)
  <2>1. Rows(dir, s) = <<>> BY <1>3, <1>5 DEF Holds
  <2> QED BY <1>5, <2>1 DEF RowSet
<1> QED BY <1>4, <1>5

\* An assigned discovery and play are never a candidate pair as well
\* (LinksDisjoint; enhance.rs).
THEOREM AssignedNeverCandidate == Spec => []LinksDisjoint
<1>1. WorkdirInv => LinksDisjoint
  <2> SUFFICES ASSUME WorkdirInv, AboutToBuild, Enhanced(call),
                      NEW l \in RowSet(dir, "_derived_discovery_play"),
                      NEW c \in RowSet(dir, "_derived_discovery_play_candidate"),
                      Cardinality({i \in LoadPlays(dir) :
                                     Rows(dir, "play")[i]["plyNPDID"] = l["plyNPDID"]}) <= 1
               PROVE  <<l["dscNpdidDiscovery"], l["plyNPDID"]>>
                        # <<c["dscNpdidDiscovery"], c["plyNPDID"]>>
    BY DEF LinksDisjoint
  <2>1. {"_derived_discovery_play", "_derived_discovery_play_candidate"} \subseteq EnhanceStems
    BY DEF EnhanceStems, EnhanceCols
  <2>2. EnhanceSources \subseteq DOMAIN dir BY <2>1, EnhancedNow
  <2>3. PICK e : e = Only(dir, EnhanceSources) OBVIOUS
  <2>4. /\ l \in EnhancedRows(e, "_derived_discovery_play")
        /\ c \in EnhancedRows(e, "_derived_discovery_play_candidate")
    BY <2>1, <2>2, <2>3, EnhancedNow DEF Enhancement
  <2>5. Rows(e, "play") = Rows(dir, "play")
    <3>1. "play" \in EnhanceSources BY DEF EnhanceSources
    <3> QED BY <2>3, <3>1, OnlyIsWhatItReads
  <2>6. Cardinality(CatalogRows(e, l["plyNPDID"])) <= 1
    BY <2>5 DEF CatalogRows, LoadPlays
  <2>7. IsRows(Rows(e, "play")) BY <2>3, BuildReads, RowsOfTable DEF EnhanceSources
  <2> QED BY <2>4, <2>6, <2>7, LinksAreDisjoint
<1> QED BY <1>1, WorkdirCorrect, PTL

\* The derived outputs that were asked for are built from the tables there are.
LEMMA OutputNow ==
    ASSUME WorkdirInv, AboutToBuild, NEW s \in DerivedStems \cap Requested
    PROVE  IF DerivedSource(s) \in DOMAIN dir
             THEN s \in DOMAIN dir /\ dir[s] = Output(dir, s)
             ELSE s \notin DOMAIN dir
<1>1. PICK w : w = [kind |-> "derived", stem |-> s] OBVIOUS
<1>2. w \in Planned BY <1>1 DEF Planned, WritesOf
<1>3. Holds(dir, w) /\ w.kind = "derived" /\ w.stem = s BY <1>1, <1>2, BuildReads
<1> QED BY <1>3 DEF Holds

\* The copies that were asked for are those of the tables there are.
LEMMA CopyNow ==
    ASSUME WorkdirInv, AboutToBuild, NEW t \in Targets(Requested)
    PROVE  IF t \in DOMAIN dir
             THEN CopyOf(t) \in DOMAIN dir /\ dir[CopyOf(t)] = TemporalCopy(dir[t], t)
             ELSE CopyOf(t) \notin DOMAIN dir
<1>1. PICK w : w = [kind |-> "copy", stem |-> t] OBVIOUS
<1>2. w \in Planned BY <1>1 DEF Planned, WritesOf
<1>3. Holds(dir, w) /\ w.kind = "copy" /\ w.stem = t BY <1>1, <1>2, BuildReads
<1> QED BY <1>3 DEF Holds

\* The log has the rows that the copies leave out.
LEMMA RejectsNow ==
    ASSUME WorkdirInv, AboutToBuild, NEW targets, targets = Targets(Requested), targets # {}
    PROVE  /\ RowSet(dir, Rejects) = RejectRows(Only(dir, targets), targets)
           /\ \A t \in targets \cap DOMAIN dir :
                Len(dir[t].rows) = Cardinality(KeptAt(dir[t], t))
                  + Cardinality({r \in RowSet(dir, Rejects) : r.table = t})
<1>1. PICK w : w = [kind |-> "rejects", stem |-> Rejects] OBVIOUS
<1>2. w \in Planned BY <1>1 DEF Planned, WritesOf
<1>3. Holds(dir, w) /\ w.kind = "rejects" BY <1>1, <1>2, BuildReads
<1>4. PICK e, R : e = Only(dir, targets) /\ R = RejectRows(e, targets) OBVIOUS
<1>5. Rejects \in DOMAIN dir /\ dir[Rejects] = NewTable({"table", "row", "entity"}, AsRows(R))
  BY <1>3, <1>4 DEF Holds, RejectLog
<1>6. \A t \in targets : /\ t \in DOMAIN e <=> t \in DOMAIN dir
                         /\ t \in DOMAIN dir => e[t] = dir[t]
  BY <1>4, OnlyIsWhatItReads
<1>7. \A s \in targets \cap DOMAIN e : IsTable(e[s]) BY <1>6, BuildReads
<1>8. IsFiniteSet(targets) BY TemporalFinite, TargetsAreTemporal, FS_Subset
<1>9. /\ IsFiniteSet(R)
      /\ \A t \in targets \cap DOMAIN e :
           Len(e[t].rows) = Cardinality(KeptAt(e[t], t)) + Cardinality({r \in R : r.table = t})
  BY <1>4, <1>7, <1>8, RejectsShareOut
<1>10. RowSet(dir, Rejects) = R
  <2>1. IsListOf(AsRows(R), R) BY <1>9, AsRowsElements
  <2>2. Rows(dir, Rejects) = AsRows(R) BY <1>5 DEF Rows, NewTable
  <2>3. RowSet(dir, Rejects) = SetOf(Rows(dir, Rejects)) BY DEF RowSet, SetOf
  <2> QED BY <2>1, <2>2, <2>3 DEF IsListOf
<1>11. \A t \in targets \cap DOMAIN dir :
         Len(dir[t].rows) = Cardinality(KeptAt(dir[t], t)) + Cardinality({r \in R : r.table = t})
  BY <1>6, <1>9
<1> QED BY <1>4, <1>10, <1>11

\* When the build starts, every table it asked for is the one its sources
\* give now, and none stands whose source is gone (OutputsCurrent;
\* preprocess.rs:66, the order of apply_with_derived).
THEOREM TablesCurrent == Spec => []OutputsCurrent
<1>1. WorkdirInv => OutputsCurrent
  <2> SUFFICES ASSUME WorkdirInv, AboutToBuild PROVE OutputsCurrent BY DEF OutputsCurrent
  <2>1. \A s \in DerivedStems \cap Requested :
          IF DerivedSource(s) \in DOMAIN dir
            THEN s \in DOMAIN dir /\ dir[s] = Output(dir, s)
            ELSE s \notin DOMAIN dir
    BY OutputNow
  <2>2. \A t \in Targets(Requested) :
          IF t \in DOMAIN dir
            THEN /\ CopyOf(t) \in DOMAIN dir
                 /\ Len(dir[t].rows) = Len(dir[CopyOf(t)].rows)
                      + Cardinality({r \in RowSet(dir, Rejects) : r.table = t})
            ELSE CopyOf(t) \notin DOMAIN dir
    <3> SUFFICES ASSUME NEW t \in Targets(Requested), t \in DOMAIN dir
                 PROVE  /\ CopyOf(t) \in DOMAIN dir
                        /\ Len(dir[t].rows) = Len(dir[CopyOf(t)].rows)
                             + Cardinality({r \in RowSet(dir, Rejects) : r.table = t})
      BY CopyNow
    <3>1. CopyOf(t) \in DOMAIN dir /\ dir[CopyOf(t)] = TemporalCopy(dir[t], t) BY CopyNow
    <3>2. IsTable(dir[t]) BY BuildReads
    <3>3. Len(dir[CopyOf(t)].rows) = Cardinality(KeptAt(dir[t], t)) BY <3>1, <3>2, CopyRows
    <3>4. PICK targets : targets = Targets(Requested) OBVIOUS
    <3>5. Len(dir[t].rows) = Cardinality(KeptAt(dir[t], t))
            + Cardinality({r \in RowSet(dir, Rejects) : r.table = t})
      BY <3>4, RejectsNow
    <3> QED BY <3>1, <3>3, <3>5
  <2>3. Enhanced(call) /\ EnhanceSources \subseteq DOMAIN dir =>
          /\ \A s \in EnhanceStems : RowSet(dir, s) = Enhancement(dir, s)
          /\ dir[VolumeStem].rows = Volumes(dir)
    <3> SUFFICES ASSUME Enhanced(call), EnhanceSources \subseteq DOMAIN dir
                 PROVE  /\ \A s \in EnhanceStems : RowSet(dir, s) = Enhancement(dir, s)
                        /\ dir[VolumeStem].rows = Volumes(dir)
      OBVIOUS
    <3>1. PICK w : w = [kind |-> "volume", stem |-> VolumeStem] OBVIOUS
    <3>2. w \in Planned BY <3>1 DEF Planned, WritesOf
    <3>3. Holds(dir, w) /\ w.kind = "volume" BY <3>1, <3>2, BuildReads
    <3>4. "discovery" \in DOMAIN dir BY DEF EnhanceSources
    <3>5. dir[VolumeStem] = NewTable(VolumeCols, Volumes(dir)) BY <3>3, <3>4 DEF Holds
    <3> QED BY <3>5, EnhancedNow DEF NewTable
  <2> QED BY <2>1, <2>2, <2>3 DEF OutputsCurrent
<1> QED BY <1>1, WorkdirCorrect, PTL

LEMMA FieldStems ==
    /\ {"_derived_field", "_derived_field_reserves", "_derived_discovery"} \subseteq DerivedStems
    /\ Reads("_derived_field") = {"field", "field_reserves", "profiles"} \cup FieldHistories
    /\ Reads("_derived_discovery") =
         {"discovery", "wellbore", "discovery_operator_hst", "field_discoveries_incl_hst"}
    /\ "field_reserves" \in Reads("_derived_field_reserves")
<1>1. {"_derived_field", "_derived_field_reserves", "_derived_discovery"} \subseteq DerivedStems
  BY OutputStems
<1>2. Reads("_derived_field") = {"field", "field_reserves", "profiles"} \cup FieldHistories
  BY SomeSources DEF Reads, AlsoReads
<1>3. Reads("_derived_discovery") =
        {"discovery", "wellbore", "discovery_operator_hst", "field_discoveries_incl_hst"}
  BY SomeSources DEF Reads, AlsoReads
<1>4. "field_reserves" \in Reads("_derived_field_reserves") BY SomeSources DEF Reads
<1> QED BY <1>1, <1>2, <1>3, <1>4

\* What the tables of fields and discoveries are built from.
LEMMA AnchorsSound ==
    ASSUME WorkdirInv, NEW s \in {"_derived_field", "_derived_field_reserves", "_derived_discovery"}
    PROVE  Sound(Only(dir, Reads(s)), Reads(s))
<1>1. "_derived_discovery_play" \notin Reads(s)
  BY FieldStems, SomeSources DEF Reads, AlsoReads, FieldHistories
<1>2. Reads(s) \cap OwnStems = {} BY <1>1, FieldStems, SourcesAreNotOwn
<1>3. Sound(dir, Reads(s)) BY <1>2, SourcesAreSound DEF WorkdirInv
<1> QED BY <1>3, OnlyIsSound

LEMMA SoundPart ==
    ASSUME NEW d, NEW stems, Sound(d, stems), NEW part \in SUBSET stems
    PROVE  Sound(d, part)
BY DEF Sound


LEMMA ChainIsItsTable ==
    ASSUME NEW d, NEW e, NEW stem, d[stem] = e[stem]
    PROVE  ReservesChain(d, stem) = ReservesChain(e, stem)
<1>1. PICK t : t = d[stem] /\ t = e[stem] OBVIOUS
<1> QED BY <1>1 DEF ReservesChain

\* reserves.rs and anchors.rs agree on the reserves in force on a field: on their
\* date and number for any dates, version texts and ties, and on the row itself
\* when no two texts of that date have the number in force (SnapshotInForce).
THEOREM SnapshotIsInForce == Spec => []SnapshotInForce
<1>1. WorkdirInv => SnapshotInForce
  <2> SUFFICES ASSUME WorkdirInv, AboutToBuild,
                      {"_derived_field", "_derived_field_reserves"} \subseteq Requested,
                      NEW f \in RowSet(dir, "_derived_field")
               PROVE  SnapshotAgrees(f, RowSet(dir, "_derived_field_reserves"))
    BY Zenon DEF SnapshotInForce, SnapshotAgrees
  <2>1. PICK e : e = Only(dir, Reads("_derived_field")) OBVIOUS
  <2>2. "_derived_field" \in DOMAIN dir BY DEF RowSet, Rows
  <2>3. "field" \in DOMAIN dir /\ dir["_derived_field"] = Output(dir, "_derived_field")
    BY <2>2, FieldStems, SomeSources, OutputNow
  <2>4. dir["_derived_field"] = Field(e) BY <2>1, <2>3 DEF Output, Build
  <2>5. f \in SetOf(Field(e).rows) BY <2>2, <2>4 DEF RowSet, Rows, SetOf
  <2>6. Sound(e, {"field", "field_reserves"})
    <3>1. {"field", "field_reserves"} \in SUBSET Reads("_derived_field") BY FieldStems
    <3> QED BY <2>1, <3>1, AnchorsSound, SoundPart
  <2>7. /\ "field" \in DOMAIN e
        /\ "field_reserves" \in DOMAIN e <=> "field_reserves" \in DOMAIN dir
        /\ "field_reserves" \in DOMAIN dir => e["field_reserves"] = dir["field_reserves"]
    <3>1. "field" \in Reads("_derived_field") /\ "field_reserves" \in Reads("_derived_field")
      BY FieldStems
    <3> QED BY <2>1, <2>3, <3>1, OnlyIsWhatItReads
  <2>8. RowSet(dir, "_derived_field_reserves")
          = IF "field_reserves" \in DOMAIN e
              THEN SetOf(ReservesChain(e, "field_reserves").rows) ELSE {}
    <3>1. CASE "field_reserves" \in DOMAIN dir
      <4>1. PICK g : g = Only(dir, Reads("_derived_field_reserves")) OBVIOUS
      <4>2. /\ "_derived_field_reserves" \in DOMAIN dir
            /\ dir["_derived_field_reserves"] = Output(dir, "_derived_field_reserves")
        BY <3>1, FieldStems, SomeSources, OutputNow
      <4>3. dir["_derived_field_reserves"] = ReservesChain(g, "field_reserves")
        BY <4>1, <4>2 DEF Output, Build
      <4>4. g["field_reserves"] = dir["field_reserves"]
        BY <3>1, <4>1, FieldStems, OnlyIsWhatItReads
      <4>5. ReservesChain(g, "field_reserves") = ReservesChain(e, "field_reserves")
        BY <2>7, <3>1, <4>4, ChainIsItsTable
      <4> QED BY <2>7, <3>1, <4>2, <4>3, <4>5 DEF RowSet, Rows, SetOf
    <3>2. CASE "field_reserves" \notin DOMAIN dir
      <4>1. "_derived_field_reserves" \notin DOMAIN dir
        BY <3>2, FieldStems, SomeSources, OutputNow
      <4> QED BY <2>7, <3>2, <4>1 DEF RowSet, Rows
    <3> QED BY <3>1, <3>2
  <2> QED BY <2>5, <2>6, <2>7, <2>8, SnapshotsAgree
<1> QED BY <1>1, WorkdirCorrect, PTL

LEMMA CopyRowsNow ==
    ASSUME WorkdirInv, AboutToBuild, NEW t \in Targets(Requested),
           NEW row \in RowSet(dir, CopyOf(t))
    PROVE  t \in DOMAIN dir /\ row \in SetOf(TemporalCopy(dir[t], t).rows)
<1>1. CopyOf(t) \in DOMAIN dir BY DEF RowSet, Rows
<1> QED BY <1>1, CopyNow DEF RowSet, Rows, SetOf

\* The window of an anchor covers every interval kept in the copies of its
\* histories (FactsWithinWindow; anchors.rs against temporal.rs).
THEOREM FactsInWindow == Spec => []FactsWithinWindow
<1>1. ASSUME WorkdirInv, AboutToBuild
      PROVE  WindowCovers("_derived_field", "fldNpdidField",
                      {"field_activity_status_hst", "field_licensee_hst", "field_operator_hst",
                       "field_owner_hst", "field_discoveries_incl_hst"})
  <2> SUFFICES ASSUME "_derived_field" \in Requested, NEW a \in RowSet(dir, "_derived_field"),
                      NEW t \in FieldHistories \cap Targets(Requested),
                      NEW row \in RowSet(dir, CopyOf(t)),
                      a["fldNpdidField"] # NoId, row["fldNpdidField"] = a["fldNpdidField"],
                      FactDay(Day(row, Intervals[t].from)) # NoDate
               PROVE  a["existsFrom"] # NoDate /\ a["existsFrom"] <= Day(row, Intervals[t].from)
    BY DEF WindowCovers, FieldHistories
  <2>1. PICK e : e = Only(dir, Reads("_derived_field")) OBVIOUS
  <2>2. "_derived_field" \in DOMAIN dir BY DEF RowSet, Rows
  <2>3. "field" \in DOMAIN dir /\ dir["_derived_field"] = Output(dir, "_derived_field")
    BY <2>2, <1>1, FieldStems, SomeSources, OutputNow
  <2>4. dir["_derived_field"] = Field(e) BY <2>1, <2>3 DEF Output, Build
  <2>5. a \in SetOf(Field(e).rows) BY <2>2, <2>4 DEF RowSet, Rows, SetOf
  <2>6. Sound(e, {"field"} \cup FieldHistories)
    <3>1. {"field"} \cup FieldHistories \in SUBSET Reads("_derived_field") BY FieldStems
    <3> QED BY <1>1, <2>1, <3>1, AnchorsSound, SoundPart
  <2>7. t \in DOMAIN dir /\ row \in SetOf(TemporalCopy(dir[t], t).rows)
    BY <1>1, CopyRowsNow
  <2>8. "field" \in DOMAIN e /\ t \in DOMAIN e /\ e[t] = dir[t]
    <3>1. "field" \in Reads("_derived_field") /\ t \in Reads("_derived_field") BY FieldStems
    <3> QED BY <2>1, <2>3, <2>7, <3>1, OnlyIsWhatItReads
  <2>9. row \in SetOf(TemporalCopy(e[t], t).rows) BY <2>7, <2>8
  <2> QED BY <2>5, <2>6, <2>8, <2>9, FieldCovers
<1>2. ASSUME WorkdirInv, AboutToBuild
      PROVE  WindowCovers("_derived_discovery", "dscNpdidDiscovery",
                      {"discovery_operator_hst", "field_discoveries_incl_hst"})
  <2> SUFFICES ASSUME "_derived_discovery" \in Requested, NEW a \in RowSet(dir, "_derived_discovery"),
                      NEW t \in {"discovery_operator_hst", "field_discoveries_incl_hst"}
                                  \cap Targets(Requested),
                      NEW row \in RowSet(dir, CopyOf(t)),
                      a["dscNpdidDiscovery"] # NoId,
                      row["dscNpdidDiscovery"] = a["dscNpdidDiscovery"],
                      FactDay(Day(row, Intervals[t].from)) # NoDate
               PROVE  a["existsFrom"] # NoDate /\ a["existsFrom"] <= Day(row, Intervals[t].from)
    BY DEF WindowCovers
  <2>1. PICK e : e = Only(dir, Reads("_derived_discovery")) OBVIOUS
  <2>2. "_derived_discovery" \in DOMAIN dir BY DEF RowSet, Rows
  <2>3. "discovery" \in DOMAIN dir /\ dir["_derived_discovery"] = Output(dir, "_derived_discovery")
    BY <2>2, <1>2, FieldStems, SomeSources, OutputNow
  <2>4. dir["_derived_discovery"] = Discovery(e) BY <2>1, <2>3 DEF Output, Build
  <2>5. a \in SetOf(Discovery(e).rows) BY <2>2, <2>4 DEF RowSet, Rows, SetOf
  <2>6. Sound(e, DiscoveryTables)
    BY <1>2, <2>1, FieldStems, AnchorsSound DEF DiscoveryTables
  <2>7. t \in DOMAIN dir /\ row \in SetOf(TemporalCopy(dir[t], t).rows)
    BY <1>2, CopyRowsNow
  <2>8. "discovery" \in DOMAIN e /\ t \in DOMAIN e /\ e[t] = dir[t]
    <3>1. "discovery" \in Reads("_derived_discovery") /\ t \in Reads("_derived_discovery")
      BY FieldStems
    <3> QED BY <2>1, <2>3, <2>7, <3>1, OnlyIsWhatItReads
  <2>9. row \in SetOf(TemporalCopy(e[t], t).rows) BY <2>7, <2>8
  <2> QED BY <2>5, <2>6, <2>8, <2>9, DiscoveryCovers
<1>3. WorkdirInv => FactsWithinWindow BY <1>1, <1>2 DEF FactsWithinWindow
<1> QED BY <1>3, WorkdirCorrect, PTL

LEMMA TimelineStems ==
    /\ {"_derived_wellbore", "_derived_wellbore_status_hst", "_derived_facility_status_hst"}
         \subseteq DerivedStems
    /\ Reads("_derived_wellbore") = {"wellbore"}
    /\ Reads("_derived_wellbore_status_hst") = {"wellbore"}
    /\ Reads("_derived_facility_status_hst") = {"facility"}
<1>1. {"_derived_wellbore", "_derived_wellbore_status_hst", "_derived_facility_status_hst"}
        \subseteq DerivedStems
  BY OutputStems
<1> QED BY <1>1, SomeSources DEF Reads, AlsoReads

LEMMA AboutIs ==
    ASSUME NEW stem, NEW key, NEW id
    PROVE  About(stem, key, id) = RowsOf(Rows(dir, stem), key, id)
BY Zenon DEF About, Select, RowsOf, SelectedAt

\* The only row about an entity.
LEMMA OneRow ==
    ASSUME NEW rows, IsRows(rows), NEW key, NEW k \in DOMAIN rows, NEW id, id = rows[k][key],
           Len(RowsOf(rows, key, id)) = 1
    PROVE  Single(rows, key, k)
<1>1. PICK K : K = {i \in DOMAIN rows : rows[i][key] = id} OBVIOUS
<1>2. K \in SUBSET (DOMAIN rows) /\ k \in K BY <1>1
<1>3. RowsOf(rows, key, id) = Kept(rows, K) BY <1>1, SelectIsKept DEF RowsOf
<1>4. IsFiniteSet(K) /\ Cardinality(K) = 1 BY <1>2, <1>3, KeptRows
<1>5. \E x : K = {x} BY <1>4, FS_Singleton
<1>6. \A i \in DOMAIN rows : rows[i][key] = rows[k][key] => i = k BY <1>1, <1>2, <1>5
<1> QED BY <1>6 DEF Single

\* The rows of periods that tile are tiled.
LEMMA PeriodRowsTiled ==
    ASSUME NEW ps, Tiles(ps), NEW key, key \notin PeriodColumns, NEW id, NEW rows,
           rows = PeriodRows(key, id, ps), rows # <<>>
    PROVE  /\ ps # <<>> /\ Tiled(rows) /\ rows[1]["validFrom"] = ps[1].from
           /\ rows[Len(rows)]["status"] = ps[Len(ps)].status
<1>1. IsRows(ps) BY DEF Tiles
<1>2. /\ Len(rows) = Len(ps) /\ DOMAIN rows = 1..Len(ps)
      /\ \A j \in 1..Len(ps) : /\ rows[j]["status"] = ps[j].status
                               /\ rows[j]["validFrom"] = ps[j].from
                               /\ rows[j]["validTo"] = ps[j].to
  BY <1>1, PeriodRowsAre
<1>3. Len(ps) \in Nat /\ rows \in Seq(SetOf(rows)) BY <1>1, PeriodRowsAre, RowsAreNumbered DEF IsRows
<1>4. Len(ps) # 0 BY <1>2, <1>3
<1>5. ps # <<>> BY <1>4
<1>6. 1 \in 1..Len(ps) /\ Len(ps) \in 1..Len(ps) BY <1>3, <1>4
<1>7. ASSUME NEW i \in 1..(Len(rows) - 1)
      PROVE  /\ rows[i]["validTo"] = rows[i + 1]["validFrom"]
             /\ rows[i]["validFrom"] <= rows[i + 1]["validFrom"]
  <2>1. i \in 1..Len(ps) /\ i + 1 \in 1..Len(ps) /\ i \in 1..(Len(ps) - 1) BY <1>2, <1>3
  <2>2. ps[i].to = ps[i + 1].from /\ ps[i].from <= ps[i + 1].from BY <2>1 DEF Tiles
  <2> QED BY <1>2, <2>1, <2>2
<1>8. rows[Len(rows)]["validTo"] = NoDate BY <1>2, <1>5, <1>6 DEF Tiles
<1> QED BY <1>2, <1>5, <1>6, <1>7, <1>8 DEF Tiled

WellTiled(w, status, ps) ==
    /\ Tiled(ps)
    /\ w["existsFrom"] = ps[1]["validFrom"] /\ w["existsTo"] = NoDate
    /\ \/ status \in {Blank} \cup WellOutcomes \cup ReclassStatuses
       \/ ps[Len(ps)]["status"] = status

FacilityTiled(phase, ps) == Tiled(ps) /\ (phase # Blank => ps[Len(ps)]["status"] = phase)

\* The status periods of a wellbore or a facility tile its history, and the
\* window computed apart from them opens with the first (HistoryTiled;
\* status.rs against anchors.rs).
THEOREM HistoriesTiled == Spec => []HistoryTiled
<1>1. ASSUME WorkdirInv, AboutToBuild, NEW s \in {"wellbore", "facility"}
      PROVE  Sound(dir, {s}) /\ Sound(Only(dir, {s}), {s})
  <2>1. {s} \cap OwnStems = {}
    <3>1. \A t \in DerivedStems : Reads(t) \cap OwnStems \subseteq {"_derived_discovery_play"}
      BY SourcesAreNotOwn
    <3> QED BY <3>1, TimelineStems
  <2> QED BY <1>1, <2>1, SourcesAreSound, OnlyIsSound DEF WorkdirInv
<1>2. ASSUME WorkdirInv, AboutToBuild,
             {"_derived_wellbore", "_derived_wellbore_status_hst"} \subseteq Requested,
             NEW w \in RowSet(dir, "_derived_wellbore"), NEW id, id = w["wlbNpdidWellbore"],
             NEW status, status = Cell(w, "wlbStatus"), NEW ps,
             ps = About("_derived_wellbore_status_hst", "wlbNpdidWellbore", id),
             Len(About("wellbore", "wlbNpdidWellbore", id)) = 1, ps # <<>>
      PROVE  /\ Tiled(ps)
             /\ w["existsFrom"] = ps[1]["validFrom"] /\ w["existsTo"] = NoDate
             /\ \/ status \in {Blank} \cup WellOutcomes \cup ReclassStatuses
                \/ ps[Len(ps)]["status"] = status
  <2>1. PICK e : e = Only(dir, {"wellbore"}) OBVIOUS
  <2>2. PICK key : key = "wlbNpdidWellbore" OBVIOUS
  <2>3. PICK rows : rows = Rows(e, "wellbore") OBVIOUS
  <2>4. rows = Rows(dir, "wellbore") BY <2>1, <2>3, OnlyIsWhatItReads
  <2>5. "_derived_wellbore" \in DOMAIN dir BY DEF RowSet, Rows
  <2>6. "wellbore" \in DOMAIN dir /\ dir["_derived_wellbore"] = Output(dir, "_derived_wellbore")
    BY <1>2, <2>5, TimelineStems, SomeSources, OutputNow
  <2>7. dir["_derived_wellbore"] = Wellbore(e) BY <2>1, <2>6, TimelineStems DEF Output, Build
  <2>8. Rows(dir, "_derived_wellbore_status_hst") = WellboreStatusHst(e).rows
    <3>1. /\ "_derived_wellbore_status_hst" \in DOMAIN dir
          /\ dir["_derived_wellbore_status_hst"] = Output(dir, "_derived_wellbore_status_hst")
      BY <1>2, <2>6, TimelineStems, SomeSources, OutputNow
    <3>2. dir["_derived_wellbore_status_hst"] = WellboreStatusHst(e)
      BY <2>1, <3>1, TimelineStems DEF Output, Build
    <3> QED BY <3>1, <3>2 DEF Rows
  <2>9. Sound(e, {"wellbore"}) /\ "wellbore" \in DOMAIN e
    BY <1>1, <1>2, <2>1, <2>6, OnlyIsWhatItReads
  <2>10. w \in SetOf(Wellbore(e).rows) BY <2>5, <2>7 DEF RowSet, Rows, SetOf
  <2>11. PICK k \in DOMAIN rows :
           /\ id = rows[k][key] /\ status = Cell(rows[k], "wlbStatus")
           /\ WellTimeline(rows[k]) # <<>> =>
                w["existsFrom"] = WellTimeline(rows[k])[1].from /\ w["existsTo"] = NoDate
    BY <1>2, <2>2, <2>3, <2>9, <2>10, WellWindow
  <2>12. IsRows(rows) /\ \A c \in NumberColumns : Day(rows[k], c) \in Nat
    BY <2>3, <2>9, <2>11, RowsOfTable
  <2>13. Single(rows, key, k)
    <3>1. Len(RowsOf(rows, key, id)) = 1 BY <1>2, <2>2, <2>4, AboutIs
    <3> QED BY <2>11, <2>12, <3>1, OneRow
  <2>14. PICK periods : periods = WellTimeline(rows[k]) OBVIOUS
  <2>15. ps = PeriodRows(key, id, periods)
    <3>1. ps = RowsOf(WellboreStatusHst(e).rows, key, id) BY <1>2, <2>2, <2>8, AboutIs
    <3> QED BY <2>2, <2>3, <2>9, <2>11, <2>13, <2>14, <3>1, WellPeriods
  <2>16. /\ Tiles(periods)
         /\ periods # <<>> =>
              \/ status \in {Blank} \cup WellOutcomes \cup ReclassStatuses
              \/ periods[Len(periods)].status = status
    BY <2>11, <2>12, <2>14, WellTimelineTiles
  <2>17. key \notin PeriodColumns BY <2>2 DEF PeriodColumns
  <2>18. /\ periods # <<>> /\ Tiled(ps) /\ ps[1]["validFrom"] = periods[1].from
         /\ ps[Len(ps)]["status"] = periods[Len(periods)].status
    BY <1>2, <2>15, <2>16, <2>17, PeriodRowsTiled
  <2> QED BY <2>11, <2>14, <2>16, <2>18
<1>3. ASSUME WorkdirInv, AboutToBuild, "_derived_facility_status_hst" \in Requested,
             NEW f \in RowSet(dir, "facility"), NEW id, id = f["fclNpdidFacility"],
             NEW phase, phase = Cell(f, "fclPhase"), NEW ps,
             ps = About("_derived_facility_status_hst", "fclNpdidFacility", id),
             Len(About("facility", "fclNpdidFacility", id)) = 1, ps # <<>>
      PROVE  Tiled(ps) /\ (phase # Blank => ps[Len(ps)]["status"] = phase)
  <2>1. PICK e : e = Only(dir, {"facility"}) OBVIOUS
  <2>2. PICK key : key = "fclNpdidFacility" OBVIOUS
  <2>3. PICK rows : rows = Rows(e, "facility") OBVIOUS
  <2>4. rows = Rows(dir, "facility") BY <2>1, <2>3, OnlyIsWhatItReads
  <2>5. "facility" \in DOMAIN dir BY <1>3 DEF RowSet, Rows
  <2>6. Rows(dir, "_derived_facility_status_hst") = FacilityStatusHst(e).rows
    <3>1. /\ "_derived_facility_status_hst" \in DOMAIN dir
          /\ dir["_derived_facility_status_hst"] = Output(dir, "_derived_facility_status_hst")
      BY <1>3, <2>5, TimelineStems, SomeSources, OutputNow
    <3>2. dir["_derived_facility_status_hst"] = FacilityStatusHst(e)
      BY <2>1, <3>1, TimelineStems DEF Output, Build
    <3> QED BY <3>1, <3>2 DEF Rows
  <2>7. Sound(e, {"facility"}) BY <1>1, <1>3, <2>1
  <2>8. PICK k \in DOMAIN rows : f = rows[k] BY <1>3, <2>4 DEF RowSet
  <2>9. IsRows(rows) /\ \A c \in NumberColumns : Day(rows[k], c) \in Nat
    BY <2>3, <2>7, <2>8, RowsOfTable
  <2>10. id = rows[k][key] /\ phase = Cell(rows[k], "fclPhase") BY <1>3, <2>2, <2>8
  <2>11. Single(rows, key, k)
    <3>1. Len(RowsOf(rows, key, id)) = 1 BY <1>3, <2>2, <2>4, AboutIs
    <3> QED BY <2>8, <2>9, <2>10, <3>1, OneRow
  <2>12. PICK periods : periods = FacilityTimeline(rows[k]) OBVIOUS
  <2>13. ps = PeriodRows(key, id, periods)
    <3>1. ps = RowsOf(FacilityStatusHst(e).rows, key, id) BY <1>3, <2>2, <2>6, AboutIs
    <3> QED BY <2>2, <2>3, <2>7, <2>10, <2>11, <2>12, <3>1, FacilityPeriods
  <2>14. /\ Tiles(periods)
         /\ periods # <<>> /\ phase # Blank => periods[Len(periods)].status = phase
    BY <2>9, <2>10, <2>12, FacilityTimelineTiles
  <2>15. key \notin PeriodColumns BY <2>2 DEF PeriodColumns
  <2>16. /\ periods # <<>> /\ Tiled(ps)
         /\ ps[Len(ps)]["status"] = periods[Len(periods)].status
    BY <1>3, <2>13, <2>14, <2>15, PeriodRowsTiled
  <2> QED BY <2>14, <2>16
<1>4. WorkdirInv => HistoryTiled
  <2> SUFFICES ASSUME WorkdirInv, AboutToBuild PROVE HistoryTiled BY DEF HistoryTiled
  <2>1. ASSUME {"_derived_wellbore", "_derived_wellbore_status_hst"} \subseteq Requested,
               NEW w \in RowSet(dir, "_derived_wellbore"),
               Len(About("wellbore", "wlbNpdidWellbore", w["wlbNpdidWellbore"])) = 1,
               About("_derived_wellbore_status_hst", "wlbNpdidWellbore", w["wlbNpdidWellbore"]) # <<>>
        PROVE  WellTiled(w, Cell(w, "wlbStatus"),
                         About("_derived_wellbore_status_hst", "wlbNpdidWellbore", w["wlbNpdidWellbore"]))
    <3>1. PICK id : id = w["wlbNpdidWellbore"] OBVIOUS
    <3>2. PICK status : status = Cell(w, "wlbStatus") OBVIOUS
    <3>3. PICK ps : ps = About("_derived_wellbore_status_hst", "wlbNpdidWellbore", id) OBVIOUS
    <3>4. WellTiled(w, status, ps) BY <1>2, <2>1, <3>1, <3>2, <3>3 DEF WellTiled
    <3> QED BY <3>1, <3>2, <3>3, <3>4, Zenon
  <2>2. ASSUME "_derived_facility_status_hst" \in Requested,
               NEW f \in RowSet(dir, "facility"),
               Len(About("facility", "fclNpdidFacility", f["fclNpdidFacility"])) = 1,
               About("_derived_facility_status_hst", "fclNpdidFacility", f["fclNpdidFacility"]) # <<>>
        PROVE  FacilityTiled(Cell(f, "fclPhase"),
                             About("_derived_facility_status_hst", "fclNpdidFacility", f["fclNpdidFacility"]))
    <3>1. PICK id : id = f["fclNpdidFacility"] OBVIOUS
    <3>2. PICK phase : phase = Cell(f, "fclPhase") OBVIOUS
    <3>3. PICK ps : ps = About("_derived_facility_status_hst", "fclNpdidFacility", id) OBVIOUS
    <3>4. FacilityTiled(phase, ps) BY <1>3, <2>2, <3>1, <3>2, <3>3 DEF FacilityTiled
    <3> QED BY <3>1, <3>2, <3>3, <3>4, Zenon
  <2> QED BY <2>1, <2>2, Zenon DEF HistoryTiled, WellTiled, FacilityTiled
<1> QED BY <1>4, WorkdirCorrect, PTL


=============================================================================
