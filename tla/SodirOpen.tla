------------------------------ MODULE SodirOpen ------------------------------
(***************************************************************************)
(* The life of a Sodir workdir: open and fetch_all of the Python wrapper   *)
(* (sodir/wrapper.py) over the refresh of its CSVs and the tables written  *)
(* after it.  One process, killed at any step; the user edits the workdir  *)
(* and the packages between calls.  The refresh itself, SodirRefresh's     *)
(* subject, is one step here: it brings in some of the tables it is asked  *)
(* for, or fails.                                                          *)
(*                                                                         *)
(* A blueprint is a function from the paths of its leaves to their values; *)
(* at a path that ends in "csv" the value is the stem of the file.         *)
(***************************************************************************)
EXTENDS SodirVolume

CONSTANTS
  Cooldown,     \* dataset_cooldown_days
  Complements,  \* name |-> complement blueprint
  Worlds        \* what one behaviour may meet, a set of records: the versions of the
                \* service's tables, the base blueprints, the calls, the
                \* batches a refresh brings in, the tables the user deletes,
                \* and how many calls, kills and edits there are

ASSUME CooldownAssumption == Cooldown \in Nat

\* The files written here; the service has none of these names.
OwnStems ==
    DerivedStems \cup EnhanceStems \cup {VolumeStem, Rejects} \cup {CopyOf(s) : s \in TemporalStems}

ASSUME WorldsAssumption ==
    \A w \in Worlds :
      /\ w.server # <<>> /\ w.server \in Seq({w.server[v] : v \in DOMAIN w.server})
      /\ \A v \in DOMAIN w.server :
           /\ DOMAIN w.server[v] \cap OwnStems = {}
           /\ \A s \in DOMAIN w.server[v] :
                IsTable(w.server[v][s]) /\ KeyColumns(s) \subseteq w.server[v][s].cols
      /\ \A c \in w.calls : c.incoming \in DOMAIN Complements \cup {"none"}

VARIABLES
  world,     \* the world of this behaviour
  server,    \* version of the service's tables
  dir,       \* csv/
  saved,     \* blueprint_complement.json
  graph,     \* graph/: body, day of the commit marker, sodir_source.json
  today,
  version,   \* enhancement_version of the installed package
  pc, call, merged, todo, served,
  budget     \* what is left of the world's bounds

vars == <<world, server, dir, saved, graph, today, version, pc, call, merged, todo, served, budget>>

Packaged == "packaged"
NoFile == "none"
Torn == "torn"

(***************************************************************************)
(* Blueprints (sodir/blueprint.rs).                                        *)
(***************************************************************************)
Under(p, q) == Len(p) <= Len(q) /\ SubSeq(q, 1, Len(p)) = p

\* One is a leaf where the other has a leaf or an object.
Collide(p, q) == Under(p, q) \/ Under(q, p)

deep_merge(base, comp, overrides) ==
    LET lost(own, other) == {p \in DOMAIN own : \E q \in DOMAIN other : Collide(p, q)}
        b == IF overrides THEN DOMAIN base \ lost(base, comp) ELSE DOMAIN base
        c == IF overrides THEN DOMAIN comp ELSE DOMAIN comp \ lost(comp, base)
    IN  [p \in b \cup c |-> IF p \in b THEN base[p] ELSE comp[p]]

\* A node's table, its junction edges' and its sub-nodes'.
IsCsvPath(p) ==
    /\ p[1] = "nodes"
    /\ p[Len(p)] = "csv"
    /\ \/ Len(p) = 3
       \/ Len(p) = 6 /\ p[3] = "connections" /\ p[4] = "junction_edges"
       \/ Len(p) = 5 /\ p[3] = "sub_nodes"

datasets_used(blueprint) == {blueprint[p] : p \in {p \in DOMAIN blueprint : IsCsvPath(p)}}

\* With enhancement on, its tables are built here and never fetched.
Enhanced(c) == c.base = Packaged

Needed(c, blueprint) ==
    IF Enhanced(c) THEN datasets_used(blueprint) \ (EnhanceStems \cup {VolumeStem})
      ELSE datasets_used(blueprint)

source_stem(stem) ==
    IF SourceOfCopy(stem) # {} THEN CHOOSE s \in SourceOfCopy(stem) : TRUE
      ELSE IF stem \in DerivedStems THEN DerivedSource(stem) ELSE stem

Fetched(needed) == {source_stem(s) : s \in needed}
Targets(needed) == UNION {SourceOfCopy(s) : s \in needed}

(***************************************************************************)
(* What follows the refresh, write by write (apply_with_derived): the      *)
(* joins, the enhancement and the volumes, the valid-time copies and their *)
(* reject log, the derived outputs in registry order.                      *)
(***************************************************************************)
Writes(kind, stems) == [i \in DOMAIN stems |-> [kind |-> kind, stem |-> stems[i]]]

OutputsIn(needed) ==
    Select([i \in DOMAIN Outputs |-> Outputs[i].stem], LAMBDA s : s \in needed)

JoinWrites ==
    <<"petreg_licence">> \o LicenceChildren
      \o <<"seismic_acquisition_progress", "strat_chrono", "announced_history">>

\* The names of the copies tell their sources, and no copy is read here.
ASSUME CopyNames ==
    /\ \A s, t \in TemporalStems : CopyOf(s) = CopyOf(t) => s = t
    /\ {CopyOf(s) : s \in TemporalStems} \cap
         (DerivedStems \cup EnhanceStems \cup {VolumeStem, Rejects} \cup TemporalStems
            \cup EnhanceSources \cup VolumeSources \cup (UNION {Reads(s) : s \in DerivedStems})
            \cup {JoinWrites[i] : i \in DOMAIN JoinWrites}) = {}

\* Variant of Plan: the derived outputs come before the tables they read.
PlanDerivedFirst(c, needed) ==
    Writes("join", JoinWrites)
      \o Writes("derived", OutputsIn(needed))
      \o (IF Enhanced(c)
            THEN Writes("enhance", AsRows(EnhanceStems)) \o Writes("volume", <<VolumeStem>>)
            ELSE <<>>)
      \o Writes("copy", AsRows(Targets(needed)))
      \o (IF Targets(needed) = {} THEN <<>> ELSE Writes("rejects", <<Rejects>>))

Plan(c, needed) ==
    Writes("join", JoinWrites)
      \o (IF Enhanced(c)
            THEN Writes("enhance", AsRows(EnhanceStems)) \o Writes("volume", <<VolumeStem>>)
            ELSE <<>>)
      \o Writes("copy", AsRows(Targets(needed)))
      \o (IF Targets(needed) = {} THEN <<>> ELSE Writes("rejects", <<Rejects>>))
      \o Writes("derived", OutputsIn(needed))

Join(d, stem) ==
    CASE stem = "petreg_licence"               -> NumberLicences(d)
      [] stem = "seismic_acquisition_progress" -> AddSeismicProgressFk(d)
      [] stem = "strat_chrono"                 -> AddChronoParentFk(d)
      [] stem = "announced_history"            -> AddAnnouncedBlockFk(d)
      [] OTHER                                 -> JoinLicenceChild(d, stem)

RejectLog(d, targets) ==
    NewTable({"table", "row", "entity"}, AsRows(RejectRows(Only(d, targets), targets)))

Perform(d, w) ==
    CASE w.kind = "join"    -> Join(d, w.stem)
      [] w.kind = "enhance" -> WriteEnhanced(d, w.stem)
      [] w.kind = "volume"  -> WriteVolumes(d)
      [] w.kind = "copy"    -> WriteCopy(d, w.stem)
      [] w.kind = "rejects" -> Put(d, Rejects, RejectLog(d, Targets(Needed(call, merged))))
      [] w.kind = "derived" -> WriteOutput(d, w.stem)

\* The file a write is about to replace.
FileOf(w) == IF w.kind = "copy" THEN CopyOf(w.stem) ELSE w.stem

\* The enhancement's and the volumes' files are renamed into place, the
\* others rewritten where they stand.
InPlace(w) == w.kind \notin {"enhance", "volume"}

(***************************************************************************)
(* Calls.  graph.body and graph.meta hold at most one digest, of the build *)
(* and of sodir_source.json; day 0 stands for no commit marker.            *)
(***************************************************************************)
NoGraph == [body |-> {}, torn |-> FALSE, day |-> 0, meta |-> {}]

\* Of the merged blueprint and the version, what sodir_source.json digests.
Digest(blueprint, v) == [blueprint |-> blueprint, version |-> v]

Age == today - graph.day

\* The writes to go, and the file the one before them rewrote in place.
NoWrites == [left |-> <<>>, file |-> NoFile]

NoAnswer == [kind |-> "none"]
Failed == [kind |-> "error"]

Init ==
    /\ world \in Worlds
    /\ server = 1
    /\ dir = <<>>
    /\ saved = NoFile
    /\ graph = NoGraph
    /\ today = 1
    /\ version = 1
    /\ pc = "idle"
    /\ call = NoAnswer
    /\ merged = <<>>
    /\ todo = NoWrites
    /\ served = NoAnswer
    /\ budget = [opens |-> world.opens, kills |-> world.kills,
                 edits |-> world.edits]

Return(answer) ==
    /\ served' = answer
    /\ pc' = "idle"
    /\ todo' = NoWrites
    /\ UNCHANGED <<call, merged>>

StartCall ==
    /\ pc = "idle"
    /\ budget.opens > 0
    /\ budget' = [budget EXCEPT !.opens = @ - 1]
    /\ call' \in world.calls
    /\ served' = NoAnswer
    /\ pc' = "register"
    /\ UNCHANGED <<world, server, dir, saved, graph, today, version, merged, todo>>

\* An incoming complement is saved; an existing one is overwritten in place.
Register ==
    /\ pc = "register"
    /\ saved' = IF call.incoming = NoFile THEN saved ELSE call.incoming
    /\ pc' = "resolve"
    /\ UNCHANGED <<world, server, dir, graph, today, version, call, merged, todo, served, budget>>

ResolveBlueprint ==
    /\ pc = "resolve"
    /\ ~(call.use /\ saved = Torn)
    /\ merged' = IF call.use /\ saved # NoFile
                   THEN deep_merge(world.bases[call.base], Complements[saved], call.overrides)
                   ELSE world.bases[call.base]
    /\ pc' = IF call.kind = "open" /\ call.storage = "disk" /\ ~call.force
               THEN "cache" ELSE "refresh"
    /\ UNCHANGED <<world, server, dir, saved, graph, today, version, call, todo, served, budget>>

\* Variant of ResolveFails: tries again from the start.
ResolveRetries ==
    /\ pc = "resolve"
    /\ call.use /\ saved = Torn
    /\ pc' = "register"
    /\ UNCHANGED <<world, server, dir, saved, graph, today, version, call, merged, todo, served, budget>>

\* A complement cut short by a kill does not parse.
ResolveFails ==
    /\ pc = "resolve"
    /\ call.use /\ saved = Torn
    /\ Return(Failed)
    /\ UNCHANGED <<world, server, dir, saved, graph, today, version, budget>>

\* Variant of CacheValid: looks at the age alone.
CacheYoung == graph.day # 0 /\ Age < Cooldown

\* A graph without its commit marker has no age.
CacheValid ==
    /\ graph.day # 0
    /\ Age < Cooldown
    /\ graph.meta = {Digest(merged, version)}

ServeCached ==
    /\ pc = "cache"
    /\ CacheValid
    /\ ~graph.torn
    /\ Return([kind |-> "cached", graph |-> graph.body])
    /\ UNCHANGED <<world, server, dir, saved, graph, today, version, budget>>

\* Also when load raises, whatever the reason.
CacheMiss ==
    /\ pc = "cache"
    /\ pc' = "refresh"
    /\ UNCHANGED <<world, server, dir, saved, graph, today, version, call, merged, todo, served, budget>>

Remote == world.server[server]

\* A refresh brings in the missing tables and, past their cooldown, one of
\* the batches of the world; a fetch that fails leaves its table as it is.
Refresh ==
    /\ pc = "refresh"
    /\ LET fetch == Fetched(Needed(call, merged))
       IN  \E batch \in world.batches :
             LET got == {s \in fetch \cap DOMAIN Remote :
                           s \in batch.stems \/ (batch.missing /\ s \notin DOMAIN dir)}
             IN  dir' = [s \in DOMAIN dir \cup got |-> IF s \in got THEN Remote[s] ELSE dir[s]]
    /\ todo' = [left |-> Plan(call, Needed(call, merged)), file |-> NoFile]
    /\ pc' = "write"
    /\ UNCHANGED <<world, server, saved, graph, today, version, call, merged, served, budget>>

RefreshFails ==
    /\ pc = "refresh"
    /\ Return(Failed)
    /\ UNCHANGED <<world, server, dir, saved, graph, today, version, budget>>

Write ==
    /\ pc = "write"
    /\ todo.left # <<>>
    /\ dir' = Perform(dir, Head(todo.left))
    /\ todo' = [left |-> Tail(todo.left),
                file |-> IF dir' # dir /\ InPlace(Head(todo.left)) THEN FileOf(Head(todo.left)) ELSE NoFile]
    /\ UNCHANGED <<world, server, saved, graph, today, version, pc, call, merged, served, budget>>

\* A join, copy or output that raises leaves the rest unwritten.
WriteFails ==
    /\ pc = "write"
    /\ todo.left # <<>>
    /\ Return(Failed)
    /\ UNCHANGED <<world, server, dir, saved, graph, today, version, budget>>

\* Variant of Written: the build starts with writes outstanding.
WrittenEarly ==
    /\ pc = "write"
    /\ call.kind = "open"
    /\ pc' = IF call.storage = "memory" THEN "memory" ELSE "clean"
    /\ UNCHANGED <<world, server, dir, saved, graph, today, version, call, merged, todo, served, budget>>

\* fetch_all stops here; open builds the graph.
Written ==
    /\ pc = "write"
    /\ todo.left = <<>>
    /\ \/ /\ call.kind = "fetch_all"
          /\ Return([kind |-> "index"])
       \/ /\ call.kind = "open"
          /\ pc' = IF call.storage = "memory" THEN "memory" ELSE "clean"
          /\ todo' = NoWrites
          /\ UNCHANGED <<call, merged, served>>
    /\ UNCHANGED <<world, server, dir, saved, graph, today, version, budget>>

BuildMemory ==
    /\ pc = "memory"
    /\ Return([kind |-> "built", graph |-> {Digest(merged, version)}])
    /\ UNCHANGED <<world, server, dir, saved, graph, today, version, budget>>

\* An rmtree cut short may leave any part of the old graph.
TornGraphs ==
    CASE pc = "clean" -> {[graph EXCEPT !.torn = TRUE, !.day = d, !.meta = m] :
                            d \in {graph.day, 0}, m \in {graph.meta, {}}}
      [] pc = "save"  -> {[graph EXCEPT !.torn = TRUE]}
      [] OTHER        -> {}

\* from_blueprint raises; on disk a part of the graph stays.
BuildFails ==
    /\ pc \in {"memory", "save"}
    /\ graph' \in {graph} \cup TornGraphs
    /\ Return(Failed)
    /\ UNCHANGED <<world, server, dir, saved, today, version, budget>>

\* rmtree and mkdir.
CleanGraph ==
    /\ pc = "clean"
    /\ graph' = NoGraph
    /\ pc' = "save"
    /\ UNCHANGED <<world, server, dir, saved, today, version, call, merged, todo, served, budget>>

\* from_blueprint writes the graph and its commit marker last.
SaveGraph ==
    /\ pc = "save"
    /\ graph' = [graph EXCEPT !.body = {Digest(merged, version)}, !.day = today]
    /\ pc' = "meta"
    /\ UNCHANGED <<world, server, dir, saved, today, version, call, merged, todo, served, budget>>

WriteMeta ==
    /\ pc = "meta"
    /\ graph' = [graph EXCEPT !.meta = {Digest(merged, version)}]
    /\ Return([kind |-> "built", graph |-> graph.body])
    /\ UNCHANGED <<world, server, dir, saved, today, version, budget>>

(***************************************************************************)
(* The environment.                                                        *)
(***************************************************************************)
\* A kill inside a write, seen from its end, leaves the file without its last
\* rows.
Prefixes(t) == {[t EXCEPT !.rows = SubSeq(@, 1, n)] : n \in 0..(Len(t.rows) - 1)}

TornWrites ==
    IF todo.file \in DOMAIN dir THEN {Put(dir, todo.file, t) : t \in Prefixes(dir[todo.file])} ELSE {}

Kill ==
    /\ pc # "idle"
    /\ budget.kills > 0
    /\ budget' = [budget EXCEPT !.kills = @ - 1]
    /\ dir' \in {dir} \cup TornWrites
    /\ graph' \in {graph} \cup TornGraphs
    /\ saved' \in IF pc = "register" /\ call.incoming # NoFile THEN {saved, Torn} ELSE {saved}
    /\ pc' = "idle"
    /\ todo' = NoWrites
    /\ served' = NoAnswer
    /\ UNCHANGED <<world, server, today, version, call, merged>>

Edit ==
    /\ pc = "idle"
    /\ budget.opens > 0
    /\ budget.edits > 0
    /\ budget' = [budget EXCEPT !.edits = @ - 1]
    /\ UNCHANGED <<world, pc, call, merged, todo, served>>

NextDay == Edit /\ today' = today + 1 /\ UNCHANGED <<server, dir, saved, graph, version>>

Upgrade == Edit /\ version' = version + 1 /\ UNCHANGED <<server, dir, saved, graph, today>>

Publish ==
    /\ Edit
    /\ server < Len(world.server)
    /\ server' = server + 1
    /\ UNCHANGED <<dir, saved, graph, today, version>>

DeleteCsv ==
    /\ Edit
    /\ \E s \in DOMAIN dir \cap world.deletable : dir' = Remove(dir, s)
    /\ UNCHANGED <<server, saved, graph, today, version>>

remove_complement ==
    /\ Edit
    /\ saved' = NoFile
    /\ UNCHANGED <<server, dir, graph, today, version>>

Step ==
    \/ Register \/ ResolveBlueprint \/ ResolveFails
    \/ ServeCached \/ CacheMiss
    \/ Refresh \/ RefreshFails \/ Write \/ WriteFails \/ Written
    \/ BuildMemory \/ BuildFails \/ CleanGraph \/ SaveGraph \/ WriteMeta

Next ==
    \/ StartCall \/ Step
    \/ Kill \/ NextDay \/ Upgrade \/ Publish \/ DeleteCsv \/ remove_complement

\* A call that runs goes on running: WF_vars(Step), with ENABLED <<Step>>_vars
\* written as pc # "idle" so that TLC need not build every table to test it.
Fairness == []<>(pc = "idle") \/ []<><<Step>>_<<pc, todo>>

Spec == Init /\ [][Next]_vars /\ Fairness

-----------------------------------------------------------------------------
(***************************************************************************)
(* Properties.                                                             *)
(***************************************************************************)
Digests == {Digest(m, v) : m \in {merged} \cup {g.blueprint : g \in graph.body \cup graph.meta},
                           v \in 1..version}

\* The types of the wrapper's state: a graph directory holds the digest of at
\* most one build and one stamp, of a version installed so far.
TypeOK ==
    /\ server \in 1..Len(world.server)
    /\ \A s \in DOMAIN dir : DOMAIN dir[s] = {"cols", "rows"}
    /\ saved \in DOMAIN Complements \cup {NoFile, Torn}
    /\ graph.body \subseteq Digests /\ Cardinality(graph.body) <= 1
    /\ graph.meta \subseteq Digests /\ Cardinality(graph.meta) <= 1
    /\ graph.day \in 0..today
    /\ pc \in {"idle", "register", "resolve", "cache", "refresh", "write", "memory", "clean",
              "save", "meta"}
    /\ (todo.left # <<>> => pc = "write")

\* open returns a graph of the blueprint it was asked for and of the installed
\* enhancement, and from the cache only within the cooldown: whatever calls
\* with other blueprints, upgrades, days and kills came between (wrapper.py's
\* short-circuit, rebuild and stamp).
ServesItsBlueprint ==
    [][pc # "idle" /\ pc' = "idle" /\ served'.kind \in {"cached", "built"} =>
         /\ served'.graph = {Digest(merged, version)}
         /\ served'.kind = "cached" => today < graph.day + Cooldown]_vars

AboutToBuild == pc \in {"memory", "clean"}

Requested == Needed(call, merged)

\* When the build starts, every table it asked for is the one its sources
\* give now, and none stands whose source is gone: after kills inside earlier
\* writes, deleted files and tables of older versions (preprocess.rs, the
\* order of apply_with_derived).  A copy and the log of rejects share out the
\* rows of the source.
OutputsCurrent ==
    AboutToBuild =>
      /\ \A s \in DerivedStems \cap Requested :
           IF DerivedSource(s) \in DOMAIN dir
             THEN s \in DOMAIN dir /\ dir[s] = Output(dir, s)
             ELSE s \notin DOMAIN dir
      /\ \A t \in Targets(Requested) :
           IF t \in DOMAIN dir
             THEN /\ CopyOf(t) \in DOMAIN dir
                  /\ Len(dir[t].rows) = Len(dir[CopyOf(t)].rows)
                       + Cardinality({r \in RowSet(dir, Rejects) : r.table = t})
             ELSE CopyOf(t) \notin DOMAIN dir
      /\ Enhanced(call) /\ EnhanceSources \subseteq DOMAIN dir =>
           /\ \A s \in EnhanceStems : RowSet(dir, s) = Enhancement(dir, s)
           /\ dir[VolumeStem].rows = Volumes(dir)

\* The rows of a table about one entity, in the order of the table.
About(stem, key, id) == Select(Rows(dir, stem), LAMBDA row : row[key] = id)

Tiled(periods) ==
    /\ \A i \in 1..(Len(periods) - 1) :
         /\ periods[i]["validTo"] = periods[i + 1]["validFrom"]
         /\ periods[i]["validFrom"] <= periods[i + 1]["validFrom"]
    /\ periods[Len(periods)]["validTo"] = NoDate

\* The status periods of a wellbore or a facility that the catalog has once
\* follow one another without gap or overlap, only the last is open, and it
\* carries the current status (status.rs); the wellbore's own window opens
\* with the first of them (_derived_wellbore is computed apart from the
\* periods' table).
HistoryTiled ==
    AboutToBuild =>
      /\ {"_derived_wellbore", "_derived_wellbore_status_hst"} \subseteq Requested =>
           \A w \in RowSet(dir, "_derived_wellbore") :
             LET id == w["wlbNpdidWellbore"]
                 status == Cell(w, "wlbStatus")
                 ps == About("_derived_wellbore_status_hst", "wlbNpdidWellbore", id)
             IN  Len(About("wellbore", "wlbNpdidWellbore", id)) = 1 /\ ps # <<>> =>
                   /\ Tiled(ps)
                   /\ w["existsFrom"] = ps[1]["validFrom"] /\ w["existsTo"] = NoDate
                   /\ \/ status \in {Blank} \cup WellOutcomes \cup ReclassStatuses
                      \/ ps[Len(ps)]["status"] = status
      /\ "_derived_facility_status_hst" \in Requested =>
           \A f \in RowSet(dir, "facility") :
             LET id == f["fclNpdidFacility"]
                 phase == Cell(f, "fclPhase")
                 ps == About("_derived_facility_status_hst", "fclNpdidFacility", id)
             IN  Len(About("facility", "fclNpdidFacility", id)) = 1 /\ ps # <<>> =>
                   /\ Tiled(ps)
                   /\ phase # Blank => ps[Len(ps)]["status"] = phase

\* The snapshot on a field is the version of its reserves chain that is still
\* in force, on every dataset whose newest versions are told apart by date and
\* number: reserves.rs and anchors.rs, which rank versions apart from each other,
\* agree.  When two texts of one date spell one number, or no number, the chain
\* goes by the text and the snapshot by the place in the file; they then agree
\* on the date and on the number only.
SnapshotInForce ==
    AboutToBuild /\ {"_derived_field", "_derived_field_reserves"} \subseteq Requested =>
      \A f \in RowSet(dir, "_derived_field") :
        LET chain == {r \in RowSet(dir, "_derived_field_reserves") :
                        r["fldNpdidField"] = f["fldNpdidField"] /\ r["existsFrom"] # NoDate}
            inForce == {r \in chain : r["existsTo"] = NoDate}
            SameRank(r) == /\ r["existsFrom"] = f["fldReservesDate"]
                           /\ RankNumber(r["fldVersion"]) = RankNumber(f["fldReservesVersion"])
            toldApart == \A r \in chain : SameRank(r) => r["fldVersion"] = f["fldReservesVersion"]
        IN  IF chain = {} THEN f["fldReservesDate"] = NoDate
              ELSE /\ inForce # {}
                   /\ \A r \in inForce : SameRank(r)
                   /\ toldApart => \E r \in inForce : r["fldRecoverableOE"] = f["fldRecoverableOE"]

\* No interval kept in a copy starts before the window of its field or
\* discovery, so that no dated fact of the graph is hidden by its endpoint
\* (anchors.rs against temporal.rs).
WindowCovers(anchor, key, histories) ==
    anchor \in Requested =>
      \A a \in RowSet(dir, anchor), t \in histories \cap Targets(Requested) :
        \A row \in RowSet(dir, CopyOf(t)) :
          a[key] # NoId /\ row[key] = a[key] /\ FactDay(Day(row, Intervals[t].from)) # NoDate =>
            a["existsFrom"] # NoDate /\ a["existsFrom"] <= Day(row, Intervals[t].from)

FactsWithinWindow ==
    AboutToBuild =>
      /\ WindowCovers("_derived_field", "fldNpdidField",
                      {"field_activity_status_hst", "field_licensee_hst", "field_operator_hst",
                       "field_owner_hst", "field_discoveries_incl_hst"})
      /\ WindowCovers("_derived_discovery", "dscNpdidDiscovery",
                      {"discovery_operator_hst", "field_discoveries_incl_hst"})

\* An assigned discovery and play never also appear as a candidate pair
\* (docs/loaders/sodir.md, "Unassigned alternatives"), for the plays that the
\* catalog has once: enhance.rs compares rows of plays, so that one row of a
\* repeated play can be assigned and another be a candidate.
LinksDisjoint ==
    AboutToBuild /\ Enhanced(call) =>
      \A l \in RowSet(dir, "_derived_discovery_play"),
         c \in RowSet(dir, "_derived_discovery_play_candidate") :
        Cardinality({i \in LoadPlays(dir) : Rows(dir, "play")[i]["plyNPDID"] = l["plyNPDID"]}) <= 1 =>
          <<l["dscNpdidDiscovery"], l["plyNPDID"]>> # <<c["dscNpdidDiscovery"], c["plyNPDID"]>>

\* Volumes may be summed: a field has at most one usable row, that of its
\* earliest discovery, and a discovery whose reserves are included in another
\* that reports them has none (docs/loaders/sodir.md, "Discovery volumes").
VolumesDisjoint ==
    AboutToBuild /\ Enhanced(call) =>
      LET usable == {v \in RowSet(dir, VolumeStem) : v.usable}
      IN  \A v, w \in usable : v # w =>
            /\ v.fldNpdidField = w.fldNpdidField => v.fldNpdidField = NoId
            /\ v.source_discovery_id = w.dscNpdidDiscovery => w.method # "discovery_reserves"

\* A licence's messages, licensees and operators carry the number of the
\* licence with their GUID: the join is "on the natural key" (preprocess.rs).
\* The code breaks it when the licences are fetched anew, and numbered anew,
\* while their children keep the numbers of an earlier call.
LicencesJoined ==
    AboutToBuild =>
      \A child \in {LicenceChildren[i] : i \in DOMAIN LicenceChildren} \cap DOMAIN dir :
        \A row \in RowSet(dir, child) :
          row["ptl_id"] # Blank =>
            \E licence \in RowSet(dir, "petreg_licence") :
              /\ licence["ptl_id"] = row["ptl_id"]
              /\ licence["ptlPetregLicenceID"] = row["ptlPetregLicenceID"]

\* Every call returns or is killed.
CallReturns == pc # "idle" ~> pc = "idle"
=============================================================================
