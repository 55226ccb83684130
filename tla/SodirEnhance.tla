---------------------------- MODULE SodirEnhance ----------------------------
(***************************************************************************)
(* The discovery-play inference of the packaged enhancement                *)
(* (sodir/enhance.rs), over the age vocabulary (ages.rs) and the published *)
(* examples (play_examples.rs).  Distances are counted in grid cells on a  *)
(* line; a well at distance zero lies in the play.                         *)
(***************************************************************************)
EXTENDS SodirEnrich

(***************************************************************************)
(* Ages.  The atoms are numbered from Pre-Devonian (1) to Holocene (19);   *)
(* every label the code knows names a contiguous run of them.              *)
(***************************************************************************)
Normalize(label) ==
    CASE label = "PRE-DEVONIAN" -> 1..1
      [] label = "DEVONIAN" -> 2..2
      [] label \in {"CARBONIFEROUS", "LATE CARBONIFEROUS", "Carboniferous"} -> 3..3
      [] label \in {"PERMIAN", "EARLY PERMIAN", "LATE PERMIAN", "Permian"} -> 4..4
      [] label \in {"EARLY TRIASSIC", "Triassic, Lower"} -> 5..5
      [] label = "MIDDLE TRIASSIC" -> 6..6
      [] label \in {"LATE TRIASSIC", "RHAETIAN", "Triassic, Upper"} -> 7..7
      [] label \in {"TRIAS", "TRIASSIC"} -> 5..7
      [] label = "EARLY JURASSIC" -> 8..8
      [] label \in {"MIDDLE JURASSIC", "CALLOVIAN", "Middle Jurassic"} -> 9..9
      [] label \in {"LATE JURASSIC", "OXFORDIAN", "Upper Jurassic"} -> 10..10
      [] label \in {"EARLY/MID JURASSIC", "Lower-Middle Jurassic"} -> 8..9
      [] label = "JURASSIC" -> 8..10
      [] label = "JURASSIC/TRIASSIC" -> 5..10
      [] label \in {"EARLY CRETACEOUS", "Lower Cretaceous"} -> 11..11
      [] label \in {"LATE CRETACEOUS", "CAMPANIAN", "Upper Cretaceous"} -> 12..12
      [] label \in {"CRETACEOUS", "Cretaceous"} -> 11..12
      [] label \in {"DANIAN", "EARLY PALEOCENE", "LATE PALEOCENE", "PALEOCENE", "Paleocene"} -> 13..13
      [] label \in {"EARLY EOCENE", "EOCENE", "Eocene"} -> 14..14
      [] label = "OLIGOCENE" -> 15..15
      [] label \in {"EARLY MIOCENE", "MIOCENE", "Miocen"} -> 16..16
      [] label = "PLIOCENE" -> 17..17
      [] label \in {"PLEISTOCENE", "Pleistocene"} -> 18..18
      [] label = "TERTIARY" -> 13..17
      [] label = "Carboniferous-Permian" -> 3..4
      [] label = "Middle-Upper Jurassic" -> 9..10
      [] label = "Permian-Palaeocene" -> 4..13
      [] label = "Post Palaeocene" -> 14..19
      [] label = "Pre-Jurassic" -> 1..7
      [] label = "Pre-Triassic" -> 1..4
      [] label = "Triassic, Lower-Middle" -> 5..6
      [] label = "Triassic, Lower-Middle Jurassic" -> 5..9
      [] OTHER -> {}

\* The atoms a well slot and a play share; full when they are all the slot's.
Shared(wellAge, playAge) == Normalize(wellAge) \cap Normalize(playAge)
Full(wellAge, playAge) == Shared(wellAge, playAge) = Normalize(wellAge)

(***************************************************************************)
(* Published examples.  A pair is taken when the discovery (or field) has  *)
(* both the name and the id, and the play catalog has the play under that  *)
(* name.  The packaged lists are abstracted to three of their shapes.      *)
(***************************************************************************)
PublishedFieldExamples ==
    {[name |-> "STATFJORD", id |-> 1, play |-> 1, playName |-> "nru,jm-1"]}

PublishedDiscoveryExamples ==
    {[name |-> "25/2-5 LILLE FROY", id |-> 1, play |-> 1, playName |-> "nru,jm-1"],
     [name |-> "25/2-5 LILLE FROY", id |-> 1, play |-> 2, playName |-> "renamed"]}

ExamplesFor(examples, name, id) == {e \in examples : e.name = name /\ e.id = id}

\* The last row that names a play names it.
InCatalog(dir, e) ==
    LET plays == Rows(dir, "play")
        n == LastRow({i \in DOMAIN plays : /\ plays[i]["plyNPDID"] = e.play
                                           /\ plays[i]["plyName"] # Blank})
    IN  n # 0 /\ plays[n]["plyName"] = e.playName

\* The first row of the entity that names it decides.
Published(dir, examples, idCol, nameCol, id) ==
    LET rows == Rows(dir, "discovery")
        named == {i \in DOMAIN rows : Id(rows[i], idCol) = id /\ Cell(rows[i], nameCol) # Blank}
    IN  IF named = {} THEN {}
          ELSE {e.play : e \in {e \in ExamplesFor(examples, rows[Min(named)][nameCol], id) :
                                  InCatalog(dir, e)}}

PublishedPlays(dir, id) ==
    Published(dir, PublishedDiscoveryExamples, "dscNpdidDiscovery", "dscName", id)

FieldIds(dir) == {Id(row, "fldNpdidField") : row \in RowSet(dir, "discovery")} \ {NoId}

FieldLinks(dir) ==
    UNION {{[fldNpdidField |-> f, plyNPDID |-> p, match_method |-> "published_example"] :
              p \in Published(dir, PublishedFieldExamples, "fldNpdidField", "fldName", f)} :
           f \in FieldIds(dir)}

(***************************************************************************)
(* Candidates: the plays compatible with any hydrocarbon slot of the well. *)
(***************************************************************************)
AgeColumns == <<"wlbAgeWithHc1", "wlbAgeWithHc2", "wlbAgeWithHc3">>

\* The last row of the well that has a point; 0 without one.
LoadWell(dir, id) ==
    LET wells == Rows(dir, "wellbore")
    IN  LastRow({i \in DOMAIN wells : /\ wells[i]["wlbNpdidWellbore"] = id
                                      /\ id # NoId
                                      /\ Cardinality(wells[i]["wkt_geometry"]) = 1})

LoadPlays(dir) ==
    LET plays == Rows(dir, "play")
    IN  {i \in DOMAIN plays : /\ plays[i]["plyNPDID"] # NoId
                              /\ plays[i]["plyAge"] # Blank
                              /\ IsPolygon(plays[i]["wkt_geometry"])}

Distance(cell, area) == Min({IF c >= cell THEN c - cell ELSE cell - c : c \in area})

Candidate(dir, well, i) ==
    LET w == Rows(dir, "wellbore")[well]
        p == Rows(dir, "play")[i]
        slots == {s \in 1..3 : Shared(Cell(w, AgeColumns[s]), p["plyAge"]) # {}}
        point == CHOOSE c \in w["wkt_geometry"] : TRUE
    IN  [row |-> i,
         play |-> p["plyNPDID"],
         slots |-> slots,
         atoms |-> UNION {Shared(w[AgeColumns[s]], p["plyAge"]) : s \in slots},
         compatibility |-> IF \E s \in slots : Full(w[AgeColumns[s]], p["plyAge"])
                             THEN "full" ELSE "partial",
         distance |-> Distance(point, p["wkt_geometry"])]

Candidates(dir, well) ==
    IF well = 0 THEN {}
      ELSE {c \in {Candidate(dir, well, i) : i \in LoadPlays(dir)} : c.slots # {}}

Containing(cs) == {c \in cs : c.distance = 0}
Nearest(cs) == {c \in cs : \A d \in cs : c.distance <= d.distance}

\* Links and diagnostics are de-duplicated per discovery and play; the
\* nearest row of a play comes first.
FirstPerPlay(cs) ==
    {c \in cs : \A d \in cs : d.play = c.play =>
                  \/ c.distance < d.distance
                  \/ c.distance = d.distance /\ c.row <= d.row}

(***************************************************************************)
(* Assignment of one discovery.  Published plays hold; every containing    *)
(* candidate is added; the nearest are a fallback for a discovery with     *)
(* neither.  The rest are diagnostics.                                     *)
(***************************************************************************)
DiscoveryRows(dir, id) ==
    Select(Rows(dir, "discovery"), LAMBDA row : row["dscNpdidDiscovery"] = id)

Conflicting(dir, id) ==
    LET rows == DiscoveryRows(dir, id)
    IN  Cardinality({<<Id(rows[i], "wlbNpdidWellbore"), Id(rows[i], "fldNpdidField")>> :
                       i \in DOMAIN rows}) # 1

CandidatesOf(dir, id) ==
    Candidates(dir, LoadWell(dir, Id(DiscoveryRows(dir, id)[1], "wlbNpdidWellbore")))

Assigned(cs, published) ==
    IF Containing(cs) # {} THEN {c \in Containing(cs) : c.play \notin published}
      ELSE IF published = {} THEN Nearest(cs) ELSE {}

\* Variant of Unassigned: published plays are not held back.
UnassignedAll(cs, published) ==
    IF Containing(cs) # {} THEN cs \ Containing(cs)
      ELSE IF published = {} THEN cs \ Nearest(cs) ELSE {}

Unassigned(cs, published) ==
    IF Containing(cs) # {} THEN {c \in cs \ Containing(cs) : c.play \notin published}
      ELSE IF published = {} THEN cs \ Nearest(cs) ELSE {}

InferredLink(id, cs, c) ==
    LET ties == Cardinality(IF c.distance = 0 THEN Containing(cs) ELSE Nearest(cs))
    IN  [dscNpdidDiscovery |-> id, plyNPDID |-> c.play,
         match_method |-> IF c.distance = 0 THEN "contains" ELSE "nearest",
         distance_m |-> c.distance, age_compatibility |-> c.compatibility,
         matched_ages |-> c.atoms, matched_hc_slots |-> c.slots,
         candidate_tie_count |-> ties, ambiguous |-> c.distance # 0 /\ ties > 1]

PublishedLink(id, play) ==
    [dscNpdidDiscovery |-> id, plyNPDID |-> play, match_method |-> "published_discovery_example",
     distance_m |-> 0, age_compatibility |-> Blank, matched_ages |-> {},
     matched_hc_slots |-> {}, candidate_tie_count |-> 1, ambiguous |-> FALSE]

LinksOf(id, cs, published) ==
    {PublishedLink(id, p) : p \in published}
      \cup {InferredLink(id, cs, c) : c \in FirstPerPlay(Assigned(cs, published))}

Diagnostic(id, play, reason, distance) ==
    [dscNpdidDiscovery |-> id, plyNPDID |-> play, rejection_reason |-> reason,
     distance_m |-> distance]

DiagnosticsOf(id, cs, published) ==
    {Diagnostic(id, c.play,
                IF Containing(cs) # {} THEN "not_containing" ELSE "farther_fallback_candidate",
                c.distance) : c \in FirstPerPlay(Unassigned(cs, published))}

ConflictOf(id) == Diagnostic(id, NoId, "conflicting_discovery_rows", 0)

(***************************************************************************)
(* The three tables.  Without one of the sources each table that carries   *)
(* our header is emptied, a user's table of that name is left.             *)
(***************************************************************************)
EnhanceSources == {"discovery", "wellbore", "play"}

LinkCols ==
    {"dscNpdidDiscovery", "plyNPDID", "match_method", "distance_m", "age_compatibility",
     "matched_ages", "matched_hc_slots", "candidate_tie_count", "ambiguous"}
CandidateCols == {"dscNpdidDiscovery", "plyNPDID", "rejection_reason", "distance_m"}
FieldLinkCols == {"fldNpdidField", "plyNPDID", "match_method"}

EnhanceCols ==
    [_derived_discovery_play           |-> LinkCols,
     _derived_discovery_play_candidate |-> CandidateCols,
     _derived_field_play               |-> FieldLinkCols]

EnhanceStems == DOMAIN EnhanceCols

\* A discovery whose rows conflict has a diagnostic and nothing else.
EnhancedRows(dir, stem) ==
    LET ids == DiscoveryIds(dir) \ {NoId}
        settled == {id \in ids : ~Conflicting(dir, id)}
        OfEach(Rows3(_, _, _)) ==
            UNION {Rows3(id, CandidatesOf(dir, id), PublishedPlays(dir, id)) : id \in settled}
    IN  CASE stem = "_derived_discovery_play" -> OfEach(LinksOf)
          [] stem = "_derived_discovery_play_candidate" ->
               OfEach(DiagnosticsOf) \cup {ConflictOf(id) : id \in ids \ settled}
          [] stem = "_derived_field_play" -> FieldLinks(dir)

\* The inference over the three sources.
Enhancement(dir, stem) == EnhancedRows(Only(dir, EnhanceSources), stem)

IsOwned(dir, stem) == stem \in DOMAIN dir /\ dir[stem].cols = EnhanceCols[stem]

WriteEnhanced(dir, stem) ==
    IF EnhanceSources \subseteq DOMAIN dir
      THEN Put(dir, stem, NewTable(EnhanceCols[stem], AsRows(Enhancement(dir, stem))))
      ELSE IF IsOwned(dir, stem) THEN Put(dir, stem, NewTable(EnhanceCols[stem], <<>>)) ELSE dir
=============================================================================
