-------------------------- MODULE SodirTables_proofs --------------------------
(***************************************************************************)
(* What the tables of a Sodir workdir contain: lemmas about the tables     *)
(* built by each part of preprocessing, enhancement and derivation.        *)
(***************************************************************************)
EXTENDS SodirVolume, Lists_proofs

\* The first known day is one of the days, and no known one is before it.
LEMMA MinDayIsFirst ==
    ASSUME NEW days \in SUBSET Nat
    PROVE  /\ MinDay(days) \in Nat
           /\ MinDay(days) # NoDate => MinDay(days) \in days
           /\ \A d \in days : d # NoDate => MinDay(days) # NoDate /\ MinDay(days) <= d
<1>1. CASE days \ {NoDate} = {} BY <1>1 DEF MinDay, NoDate
<1>2. CASE days \ {NoDate} # {}
  <2>1. MinDay(days) = Min(days \ {NoDate}) BY <1>2 DEF MinDay
  <2>2. /\ Min(days \ {NoDate}) \in days \ {NoDate}
        /\ \A m \in days \ {NoDate} : Min(days \ {NoDate}) <= m
    BY <1>2, MinIsLeast
  <2> QED BY <2>1, <2>2
<1> QED BY <1>1, <1>2

(***************************************************************************)
(* Directories and the tables in them.                                     *)
(***************************************************************************)
LEMMA OnlyIsWhatItReads ==
    ASSUME NEW dir, NEW stems, NEW s \in stems
    PROVE  /\ s \in DOMAIN Only(dir, stems) <=> s \in DOMAIN dir
           /\ s \in DOMAIN dir => Only(dir, stems)[s] = dir[s]
           /\ Rows(Only(dir, stems), s) = Rows(dir, s)
           /\ RowSet(Only(dir, stems), s) = RowSet(dir, s)
BY DEF Only, Rows, RowSet

\* What is read does not change when only other files do.
LEMMA OnlyUnchanged ==
    ASSUME NEW dir, NEW other, NEW stems,
           \A s \in stems : /\ s \in DOMAIN dir <=> s \in DOMAIN other
                            /\ s \in DOMAIN dir => dir[s] = other[s]
    PROVE  Only(dir, stems) = Only(other, stems)
<1>1. DOMAIN dir \cap stems = DOMAIN other \cap stems OBVIOUS
<1>2. \A s \in DOMAIN dir \cap stems : dir[s] = other[s] OBVIOUS
<1> QED BY <1>1, <1>2 DEF Only

LEMMA PutAndRemove ==
    ASSUME NEW dir, NEW stem, NEW t
    PROVE  /\ DOMAIN Put(dir, stem, t) = DOMAIN dir \cup {stem}
           /\ Put(dir, stem, t)[stem] = t
           /\ \A s \in DOMAIN dir : s # stem => Put(dir, stem, t)[s] = dir[s]
           /\ DOMAIN Remove(dir, stem) = DOMAIN dir \ {stem}
           /\ \A s \in DOMAIN dir : s # stem => Remove(dir, stem)[s] = dir[s]
BY DEF Put, Remove

LEMMA TableRows == ASSUME NEW t, IsTable(t) PROVE IsRows(t.rows)
BY DEF IsTable, IsRows, SetOf

\* u is t with the column col set.
SetsColumn(u, t, col) ==
    /\ DOMAIN u = {"cols", "rows"}
    /\ u.cols = t.cols \cup {col}
    /\ IsRows(u.rows) /\ DOMAIN u.rows = DOMAIN t.rows
    /\ \A i \in DOMAIN t.rows :
         /\ DOMAIN u.rows[i] = u.cols
         /\ \A c \in t.cols : c # col => u.rows[i][c] = t.rows[i][c]

\* If the column holds no numbers, a table is one still.
LEMMA ColumnSet ==
    ASSUME NEW t, IsTable(t), NEW col, col \notin NumberColumns, NEW u, SetsColumn(u, t, col)
    PROVE  IsTable(u) /\ t.cols \subseteq u.cols
<1>1. ASSUME NEW i \in DOMAIN u.rows
      PROVE  /\ DOMAIN u.rows[i] = u.cols
             /\ \A c \in NumberColumns \cap u.cols : u.rows[i][c] \in Nat
  BY <1>1 DEF IsTable, SetsColumn
<1>2. u.rows \in Seq({u.rows[i] : i \in DOMAIN u.rows}) BY DEF IsRows, SetOf, SetsColumn
<1>3. DOMAIN u = {"cols", "rows"} /\ t.cols \subseteq u.cols BY DEF SetsColumn
<1>4. IsTable(u) BY <1>1, <1>2, <1>3, Zenon DEF IsTable
<1> QED BY <1>3, <1>4

LEMMA RowsMapped ==
    ASSUME NEW rows, IsRows(rows), NEW other, other = [i \in DOMAIN rows |-> other[i]]
    PROVE  IsRows(other) /\ DOMAIN other = DOMAIN rows /\ Len(other) = Len(rows)
<1>1. Len(rows) \in Nat /\ DOMAIN rows = 1..Len(rows) BY RowsAreNumbered
<1>2. other = [i \in 1..Len(rows) |-> other[i]] BY <1>1
<1>3. DOMAIN other = 1..Len(rows) BY <1>2, Zenon
<1> QED BY <1>1, <1>2, <1>3, NumberedAreRows

LEMMA MapColumnIsTable ==
    ASSUME NEW t, IsTable(t), NEW keyCol, NEW lookup, NEW newCol, newCol \notin NumberColumns
    PROVE  /\ IsTable(MapColumn(t, keyCol, lookup, newCol))
           /\ t.cols \subseteq MapColumn(t, keyCol, lookup, newCol).cols
<1>1. PICK u : u = MapColumn(t, keyCol, lookup, newCol) OBVIOUS
<1>2. DOMAIN u = {"cols", "rows"} /\ u.cols = t.cols \cup {newCol}
  BY <1>1 DEF MapColumn, SetColumn, SetColumns
<1>3. /\ u.rows = [i \in DOMAIN t.rows |-> u.rows[i]]
      /\ \A i \in DOMAIN t.rows :
           /\ DOMAIN u.rows[i] = u.cols
           /\ \A c \in t.cols : c # newCol => u.rows[i][c] = t.rows[i][c]
  BY <1>1 DEF MapColumn, SetColumn, SetColumns
<1>4. SetsColumn(u, t, newCol)
  <2>1. IsRows(u.rows) /\ DOMAIN u.rows = DOMAIN t.rows BY <1>3, TableRows, RowsMapped
  <2> QED BY <1>2, <1>3, <2>1 DEF SetsColumn
<1>5. IsTable(u) /\ t.cols \subseteq u.cols BY <1>4, ColumnSet
<1> QED BY <1>1, <1>5

\* The tables of these files are as published, but for columns added.
Sound(dir, stems) ==
    \A s \in stems \cap DOMAIN dir : IsTable(dir[s]) /\ KeyColumns(s) \subseteq dir[s].cols

JoinColumns == {"ptl_id", "seaNpdidSurvey", "strat_chrono_parent_npdid", "blcNpdidBlock"}

LEMMA JoinColumnsHoldNoNumbers == \A c \in JoinColumns : c \notin NumberColumns
BY DEF JoinColumns, NumberColumns, DayColumns, TemporalStems, Intervals, ClosedInterval

LEMMA ExtendedIsSound ==
    ASSUME NEW dir, NEW stems, Sound(dir, stems), NEW stem, NEW t,
           stem \in stems => IsTable(t) /\ KeyColumns(stem) \subseteq t.cols
    PROVE  Sound(Put(dir, stem, t), stems)
<1>1. PICK d : d = Put(dir, stem, t) OBVIOUS
<1>2. DOMAIN d = DOMAIN dir \cup {stem} /\ d[stem] = t BY <1>1 DEF Put
<1>3. \A s \in DOMAIN dir : s # stem => d[s] = dir[s] BY <1>1 DEF Put
<1>4. ASSUME NEW s \in stems \cap DOMAIN d PROVE IsTable(d[s]) /\ KeyColumns(s) \subseteq d[s].cols
  BY <1>2, <1>3 DEF Sound
<1> QED BY <1>1, <1>4 DEF Sound

\* The joins keep the tables sound.
LEMMA JoinsAreSound ==
    ASSUME NEW dir, NEW stems, Sound(dir, stems)
    PROVE  /\ Sound(NumberLicences(dir), stems)
           /\ \A child : Sound(JoinLicenceChild(dir, child), stems)
           /\ \A fkCol \in JoinColumns : \A parent, nameCol, idCol, child, refCol :
                Sound(JoinByName(dir, parent, nameCol, idCol, child, refCol, fkCol), stems)
<1>1. ASSUME NEW stem \in DOMAIN dir, NEW keyCol, NEW lookup, NEW newCol \in JoinColumns
      PROVE  Sound(Put(dir, stem, MapColumn(dir[stem], keyCol, lookup, newCol)), stems)
  <2>1. newCol \notin NumberColumns BY JoinColumnsHoldNoNumbers
  <2>2. ASSUME stem \in stems
        PROVE  /\ IsTable(MapColumn(dir[stem], keyCol, lookup, newCol))
               /\ KeyColumns(stem) \subseteq MapColumn(dir[stem], keyCol, lookup, newCol).cols
    <3>1. IsTable(dir[stem]) /\ KeyColumns(stem) \subseteq dir[stem].cols BY <2>2 DEF Sound
    <3> QED BY <2>1, <3>1, MapColumnIsTable
  <2> QED BY <2>2, ExtendedIsSound
<1>2. Sound(NumberLicences(dir), stems)
  <2> DEFINE s == "petreg_licence"
  <2>1. PICK u : u = SetColumn(dir[s], "ptl_id", LAMBDA i : ToString(i)) OBVIOUS
  <2>2. ASSUME s \in DOMAIN dir, s \in stems PROVE IsTable(u) /\ KeyColumns(s) \subseteq u.cols
    <3>1. IsTable(dir[s]) /\ KeyColumns(s) \subseteq dir[s].cols BY <2>2 DEF Sound
    <3>2. DOMAIN u = {"cols", "rows"} /\ u.cols = dir[s].cols \cup {"ptl_id"}
      BY <2>1 DEF SetColumn, SetColumns
    <3>3. /\ u.rows = [i \in DOMAIN dir[s].rows |-> u.rows[i]]
          /\ \A i \in DOMAIN dir[s].rows :
               /\ DOMAIN u.rows[i] = u.cols
               /\ \A c \in dir[s].cols : c # "ptl_id" => u.rows[i][c] = dir[s].rows[i][c]
      BY <2>1 DEF SetColumn, SetColumns
    <3>4. IsRows(u.rows) /\ DOMAIN u.rows = DOMAIN dir[s].rows BY <3>1, <3>3, TableRows, RowsMapped
    <3>5. SetsColumn(u, dir[s], "ptl_id") BY <3>2, <3>3, <3>4 DEF SetsColumn
    <3>6. "ptl_id" \notin NumberColumns BY JoinColumnsHoldNoNumbers DEF JoinColumns
    <3> QED BY <3>1, <3>5, <3>6, ColumnSet
  <2>3. NumberLicences(dir) \in {dir, Put(dir, s, u)} /\ (s \in DOMAIN dir \/ NumberLicences(dir) = dir)
    BY <2>1, Zenon DEF NumberLicences
  <2> QED BY <2>2, <2>3, ExtendedIsSound
<1>3. ASSUME NEW child PROVE Sound(JoinLicenceChild(dir, child), stems)
  BY <1>1 DEF JoinLicenceChild, JoinColumns
<1>4. ASSUME NEW fkCol \in JoinColumns, NEW parent, NEW nameCol, NEW idCol, NEW child, NEW refCol
      PROVE  Sound(JoinByName(dir, parent, nameCol, idCol, child, refCol, fkCol), stems)
  BY <1>1 DEF JoinByName
<1> QED BY <1>2, <1>3, <1>4

(***************************************************************************)
(* The copies of the interval tables.                                      *)
(***************************************************************************)
KeptAt(t, stem) == {i \in DOMAIN t.rows : Keeps(t, stem, t.rows[i])}

\* A row of a copy is a row of the table but for the spelling of areas.
LEMMA CopyRows ==
    ASSUME NEW t, IsTable(t), NEW stem
    PROVE  /\ DOMAIN TemporalCopy(t, stem) = {"cols", "rows"}
           /\ Len(TemporalCopy(t, stem).rows) = Cardinality(KeptAt(t, stem))
           /\ IsFiniteSet(KeptAt(t, stem))
           /\ \A row \in SetOf(TemporalCopy(t, stem).rows) :
                \E i \in KeptAt(t, stem) :
                  /\ DOMAIN row = DOMAIN t.rows[i]
                  /\ \A c \in DOMAIN row : c \notin MainAreaColumns => row[c] = t.rows[i][c]
<1>1. PICK k : k = Kept(t.rows, KeptAt(t, stem)) OBVIOUS
<1>2. KeptAt(t, stem) \in SUBSET (DOMAIN t.rows) BY DEF KeptAt
<1>3. /\ IsFiniteSet(KeptAt(t, stem)) /\ IsRows(k) /\ Len(k) = Cardinality(KeptAt(t, stem))
      /\ SetOf(k) = {t.rows[i] : i \in KeptAt(t, stem)}
  BY <1>1, <1>2, TableRows, KeptRows
<1>4. FilterTable(t, stem) = [t EXCEPT !.rows = k]
  <2>1. Select(t.rows, LAMBDA row : Keeps(t, stem, row)) = SelectedAt(t.rows, KeptAt(t, stem))
    BY Zenon DEF Select, SelectedAt, KeptAt
  <2> QED BY <1>1, <2>1, SelectIsKept, Zenon DEF FilterTable
<1>5. PICK u : u = TemporalCopy(t, stem) OBVIOUS
<1>6. DOMAIN u = {"cols", "rows"} BY <1>4, <1>5 DEF TemporalCopy, UpperMainAreas, IsTable
<1>7. u.rows = [i \in DOMAIN k |->
                  [c \in DOMAIN k[i] |-> IF c \in MainAreaColumns THEN Upper(k[i][c]) ELSE k[i][c]]]
  BY <1>4, <1>5 DEF TemporalCopy, UpperMainAreas, IsTable
<1>8. DOMAIN u.rows = DOMAIN k /\ Len(u.rows) = Len(k)
  <2>1. u.rows = [i \in DOMAIN k |-> u.rows[i]] BY <1>7
  <2> QED BY <2>1, <1>3, RowsMapped
<1>9. ASSUME NEW row \in SetOf(u.rows)
      PROVE  \E i \in KeptAt(t, stem) :
               /\ DOMAIN row = DOMAIN t.rows[i]
               /\ \A c \in DOMAIN row : c \notin MainAreaColumns => row[c] = t.rows[i][c]
  <2>1. PICK n \in DOMAIN k : row = u.rows[n] BY <1>8 DEF SetOf
  <2>2. PICK i \in KeptAt(t, stem) : k[n] = t.rows[i] BY <1>3 DEF SetOf
  <2> QED BY <2>1, <2>2, <1>7
<1> QED BY <1>3, <1>5, <1>6, <1>8, <1>9

DroppedAt(t, stem) == {i \in DOMAIN t.rows : ~Keeps(t, stem, t.rows[i])}

RejectsOf(dir, s) ==
    {[table |-> s, row |-> i, entity |-> Cell(dir[s].rows[i], Intervals[s].entity)] :
       i \in DroppedAt(dir[s], s)}

LEMMA RejectsByTable ==
    ASSUME NEW dir, NEW targets
    PROVE  RejectRows(dir, targets) = UNION {RejectsOf(dir, s) : s \in targets \cap DOMAIN dir}
BY Zenon DEF RejectRows, RejectsOf, DroppedAt

\* Every row of a table that is copied is in the copy or in the log.
LEMMA RejectsShareOut ==
    ASSUME NEW dir, NEW targets, IsFiniteSet(targets),
           \A s \in targets \cap DOMAIN dir : IsTable(dir[s])
    PROVE  /\ IsFiniteSet(RejectRows(dir, targets))
           /\ \A t \in targets \cap DOMAIN dir :
                Len(dir[t].rows) = Cardinality(KeptAt(dir[t], t))
                  + Cardinality({r \in RejectRows(dir, targets) : r.table = t})
<1>1. ASSUME NEW s \in targets \cap DOMAIN dir
      PROVE  /\ IsFiniteSet(RejectsOf(dir, s))
             /\ Len(dir[s].rows) = Cardinality(KeptAt(dir[s], s)) + Cardinality(RejectsOf(dir, s))
  <2>1. /\ Len(dir[s].rows) \in Nat /\ DOMAIN dir[s].rows = 1..Len(dir[s].rows)
        /\ IsFiniteSet(DOMAIN dir[s].rows)
    BY TableRows, RowsAreNumbered
  <2>2. Cardinality(DOMAIN dir[s].rows) = Len(dir[s].rows) BY <2>1, FS_Interval
  <2> DEFINE D == DroppedAt(dir[s], s)
             K == KeptAt(dir[s], s)
             f == [i \in D |-> [table |-> s, row |-> i,
                                entity |-> Cell(dir[s].rows[i], Intervals[s].entity)]]
  <2>3. D = DOMAIN dir[s].rows \ K /\ K \in SUBSET (DOMAIN dir[s].rows) BY DEF DroppedAt, KeptAt
  <2>4. f \in Surjection(D, RejectsOf(dir, s)) BY DEF Surjection, RejectsOf
  <2>5. f \in Injection(D, RejectsOf(dir, s)) BY <2>4 DEF Injection, IsInjective, Surjection
  <2> HIDE DEF f, D, K
  <2>6. IsFiniteSet(D) /\ Cardinality(D) = Len(dir[s].rows) - Cardinality(K)
    <3>1. DOMAIN dir[s].rows \cap K = K BY <2>3
    <3>2. PICK M : M = DOMAIN dir[s].rows OBVIOUS
    <3>3. IsFiniteSet(M) BY <2>1, <3>2
    <3>4. IsFiniteSet(M \ K) /\ Cardinality(M \ K) = Cardinality(M) - Cardinality(M \cap K)
      BY <3>3, FS_Difference
    <3> QED BY <2>2, <2>3, <3>1, <3>2, <3>4
  <2>7. IsFiniteSet(RejectsOf(dir, s)) /\ Cardinality(RejectsOf(dir, s)) = Cardinality(D)
    BY <2>4, <2>5, <2>6, FS_Surjection
  <2>8. Cardinality(K) \in Nat BY <2>1, <2>3, FS_Subset, FiniteCount
  <2> QED BY <2>1, <2>6, <2>7, <2>8 DEF K
<1>2. IsFiniteSet(RejectRows(dir, targets))
  <2> DEFINE T == targets \cap DOMAIN dir
             f == [s \in T |-> RejectsOf(dir, s)]
  <2>1. IsFiniteSet(T) BY FS_Subset
  <2>2. \A s \in T : IsFiniteSet(f[s]) BY <1>1
  <2>3. {f[s] : s \in T} = {RejectsOf(dir, s) : s \in T} OBVIOUS
  <2> HIDE DEF f, T
  <2>4. IsFiniteSet(UNION {f[s] : s \in T}) BY <2>1, <2>2, UnionFinite
  <2> QED BY <2>3, <2>4, RejectsByTable DEF T
<1>3. ASSUME NEW t \in targets \cap DOMAIN dir
      PROVE  {r \in RejectRows(dir, targets) : r.table = t} = RejectsOf(dir, t)
  <2>1. \A s, r : r \in RejectsOf(dir, s) => r.table = s BY DEF RejectsOf
  <2> QED BY <2>1, RejectsByTable
<1> QED BY <1>1, <1>2, <1>3

\* A cell of a number column is a number, 0 if there is no such column.
LEMMA DayIsNumber ==
    ASSUME NEW t, IsTable(t), NEW i \in DOMAIN t.rows, NEW col \in NumberColumns
    PROVE  Day(t.rows[i], col) \in Nat /\ Id(t.rows[i], col) \in Nat
BY DEF IsTable, Day, Id, NoDate, NoId

LEMMA RowsOfTable ==
    ASSUME NEW dir, NEW stems, Sound(dir, stems), NEW s \in stems
    PROVE  /\ IsRows(Rows(dir, s)) /\ RowSet(dir, s) = SetOf(Rows(dir, s))
           /\ \A i \in DOMAIN Rows(dir, s) :
                /\ s \in DOMAIN dir
                /\ Rows(dir, s)[i] = dir[s].rows[i] /\ i \in DOMAIN dir[s].rows
                /\ KeyColumns(s) \subseteq DOMAIN Rows(dir, s)[i]
                /\ \A col \in NumberColumns : Day(Rows(dir, s)[i], col) \in Nat
                /\ \A col \in NumberColumns \cap DOMAIN Rows(dir, s)[i] :
                     Rows(dir, s)[i][col] \in Nat
<1>1. RowSet(dir, s) = SetOf(Rows(dir, s)) BY DEF RowSet, SetOf
<1>2. CASE s \in DOMAIN dir
  <2>1. IsTable(dir[s]) /\ KeyColumns(s) \subseteq dir[s].cols BY <1>2 DEF Sound
  <2>2. Rows(dir, s) = dir[s].rows BY <1>2 DEF Rows
  <2>3. IsRows(dir[s].rows) BY <2>1, TableRows
  <2>4. ASSUME NEW i \in DOMAIN dir[s].rows
        PROVE  /\ KeyColumns(s) \subseteq DOMAIN dir[s].rows[i]
               /\ \A col \in NumberColumns : Day(dir[s].rows[i], col) \in Nat
               /\ \A col \in NumberColumns \cap DOMAIN dir[s].rows[i] : dir[s].rows[i][col] \in Nat
    BY <2>1, DayIsNumber DEF IsTable
  <2> QED BY <1>1, <1>2, <2>2, <2>3, <2>4
<1>3. CASE s \notin DOMAIN dir
  <2>1. Rows(dir, s) = <<>> BY <1>3 DEF Rows
  <2>2. IsRows(<<>>) /\ DOMAIN <<>> = {} BY DEF IsRows
  <2> QED BY <1>1, <2>1, <2>2
<1> QED BY <1>2, <1>3

(***************************************************************************)
(* Volumes.                                                                *)
(***************************************************************************)
Overlap(v, w) ==
    \/ v.fldNpdidField = w.fldNpdidField /\ v.fldNpdidField # NoId
    \/ v.source_discovery_id = w.dscNpdidDiscovery /\ w.method = "discovery_reserves"

DisjointVolumes(rows) ==
    \A v, w \in {v \in SetOf(rows) : v.usable} : v # w => ~Overlap(v, w)

\* A discovery has one row; of a field only the earliest discovery has a
\* usable one, and a reporting discovery that has one keeps the discoveries
\* included in it from falling back on their field.
LEMMA ProjectionIsDisjoint ==
    ASSUME NEW facts, facts.known \in SUBSET Nat, IsFiniteSet(facts.known),
           \A d \in facts.known : facts.came[d].date \in Nat
    PROVE  DisjointVolumes(Projected(facts))
<1>1. ASSUME NEW v \in SetOf(Projected(facts))
      PROVE  \E d \in facts.known : v = Project(facts, d)
  <2>1. PICK order : order = InOrder(facts.known, <) OBVIOUS
  <2>2. order = [n \in 1..Cardinality(facts.known) |-> Nth(facts.known, n)]
    BY <2>1, InOrderIsNth
  <2>3. \A n \in 1..Cardinality(facts.known) : Nth(facts.known, n) \in facts.known BY NthOrders
  <2>4. Projected(facts) = [n \in DOMAIN order |-> Project(facts, order[n])]
    BY <2>1 DEF Projected
  <2> QED BY <2>2, <2>3, <2>4 DEF SetOf
<1>2. ASSUME NEW d \in facts.known
      PROVE  /\ Project(facts, d).dscNpdidDiscovery = d
             /\ Project(facts, d).source_discovery_id = facts.root[d]
             /\ Project(facts, d).fldNpdidField = facts.field[d]
             /\ Project(facts, d).method = "discovery_reserves" => EmitsOwn(facts, d)
             /\ Project(facts, d).usable =>
                  EmitsOwn(facts, d) \/ EmitsFieldFallback(facts, d)
  BY DEF Project, VolumeRow
<1>3. ASSUME NEW d \in facts.known, NEW e \in facts.known, d # e,
             IsEarliest(facts, d), IsEarliest(facts, e)
      PROVE  facts.field[d] # facts.field[e]
  <2>1. ASSUME facts.field[d] = facts.field[e] PROVE FALSE
    <3>1. CameBefore(facts, d, e) /\ CameBefore(facts, e, d) BY <1>3, <2>1 DEF IsEarliest
    <3>2. facts.came[d].date \in Nat /\ facts.came[e].date \in Nat /\ d \in Nat /\ e \in Nat
      OBVIOUS
    <3> QED BY <3>1, <3>2 DEF CameBefore, NoDate
  <2> QED BY <2>1
<1>4. ASSUME NEW v \in SetOf(Projected(facts)), NEW w \in SetOf(Projected(facts)),
             v.usable, w.usable, v # w, Overlap(v, w)
      PROVE  FALSE
  <2>1. PICK d \in facts.known : v = Project(facts, d) BY <1>1
  <2>2. PICK e \in facts.known : w = Project(facts, e) BY <1>1
  <2>3. d # e BY <1>4, <2>1, <2>2
  <2>4. CASE facts.field[d] = facts.field[e] /\ facts.field[d] # NoId
    <3>1. IsEarliest(facts, d) /\ IsEarliest(facts, e)
      BY <1>2, <1>4, <2>1, <2>2, <2>4 DEF EmitsOwn, EmitsFieldFallback
    <3> QED BY <1>3, <2>3, <2>4, <3>1
  <2>5. CASE facts.root[d] = e /\ EmitsOwn(facts, e)
    <3>1. ~EmitsOwn(facts, d) BY <2>3, <2>5 DEF EmitsOwn
    <3>2. ~EmitsFieldFallback(facts, d) BY <2>5 DEF EmitsFieldFallback
    <3> QED BY <1>2, <1>4, <2>1, <3>1, <3>2
  <2> QED BY <1>2, <1>4, <2>1, <2>2, <2>4, <2>5 DEF Overlap
<1> QED BY <1>4 DEF DisjointVolumes

VolumeNumbers ==
    {"fldNpdidField", "dscNpdidDiscovery", "fldDiscoveryInclFromDate", "wlbCompletionDate",
     "dscDateFromInclInField", "dscDiscoveryYear"}

LEMMA VolumeColumnsAreNumbers == VolumeNumbers \subseteq NumberColumns
BY DEF VolumeNumbers, NumberColumns, DayColumns, TemporalStems, Intervals, ClosedInterval

LEMMA StemsOfHistories ==
    /\ \A s \in {"field", "discovery", "field_reserves", "wellbore", "play", "discovery_reserves"} :
         s \notin TemporalStems
    /\ \A s \in FieldHistories : s \in TemporalStems
    /\ "discovery_operator_hst" \in TemporalStems
BY DEF TemporalStems, Intervals, FieldHistories

LEMMA DiscoveryKey == "dscNpdidDiscovery" \in KeyColumns("discovery")
BY StemsOfHistories DEF KeyColumns

LEMMA KnownDiscoveries ==
    ASSUME NEW dir, Sound(dir, VolumeSources)
    PROVE  /\ KnownIds(dir) \in SUBSET Nat /\ IsFiniteSet(KnownIds(dir))
           /\ \A d \in KnownIds(dir) : \E i \in DOMAIN Rows(dir, "discovery") :
                RowOf(dir, d) = Rows(dir, "discovery")[i]
<1> DEFINE rows == Rows(dir, "discovery")
           key == "dscNpdidDiscovery"
<1>1. "discovery" \in VolumeSources BY DEF VolumeSources
<1>2. /\ IsRows(rows) /\ RowSet(dir, "discovery") = SetOf(rows)
      /\ \A i \in DOMAIN rows : /\ KeyColumns("discovery") \subseteq DOMAIN rows[i]
                                /\ \A col \in NumberColumns \cap DOMAIN rows[i] : rows[i][col] \in Nat
  BY <1>1, RowsOfTable
<1>3. \A i \in DOMAIN rows : rows[i][key] \in Nat
  <2>1. key \in NumberColumns BY VolumeColumnsAreNumbers DEF VolumeNumbers
  <2> QED BY <1>2, <2>1, DiscoveryKey
<1>4. KnownIds(dir) = {rows[i][key] : i \in DOMAIN rows} \ {NoId}
  BY <1>2 DEF KnownIds, DiscoveryIds, SetOf
<1>5. IsFiniteSet(KnownIds(dir))
  <2> DEFINE f == [i \in DOMAIN rows |-> rows[i][key]]
  <2>1. IsFiniteSet(DOMAIN rows) BY <1>2, RowsAreNumbered
  <2>2. {f[i] : i \in DOMAIN rows} = {rows[i][key] : i \in DOMAIN rows} OBVIOUS
  <2> HIDE DEF f
  <2>3. IsFiniteSet({f[i] : i \in DOMAIN rows}) BY <2>1, ImageFinite
  <2>4. PICK S : S = {rows[i][key] : i \in DOMAIN rows} OBVIOUS
  <2>5. IsFiniteSet(S \ {NoId}) BY <2>2, <2>3, <2>4, FS_RemoveElement
  <2> QED BY <1>4, <2>4, <2>5
<1>6. ASSUME NEW d \in KnownIds(dir)
      PROVE  \E i \in DOMAIN rows : RowOf(dir, d) = rows[i]
  <2> DEFINE K == {i \in DOMAIN rows : rows[i][key] = d}
  <2>1. DiscoveryRows(dir, d) = SelectedAt(rows, K)
    BY Zenon DEF DiscoveryRows, Select, SelectedAt
  <2>2. K # {} /\ K \in SUBSET (DOMAIN rows) BY <1>4
  <2>3. /\ IsFiniteSet(K) /\ Cardinality(K) \in Nat
        /\ SetOf(Kept(rows, K)) = {rows[i] : i \in K}
    BY <1>2, <2>2, KeptRows
  <2> HIDE DEF K
  <2>4. Cardinality(K) # 0 BY <2>2, <2>3, FS_EmptySet
  <2>5. 1 \in DOMAIN Kept(rows, K) BY <2>3, <2>4 DEF Kept
  <2>6. Kept(rows, K)[1] \in {rows[i] : i \in K} BY <2>3, <2>5 DEF SetOf
  <2>7. RowOf(dir, d) = Kept(rows, K)[1] BY <2>1, SelectIsKept DEF RowOf
  <2> QED BY <2>2, <2>6, <2>7
<1>7. KnownIds(dir) \in SUBSET Nat BY <1>3, <1>4
<1> QED BY <1>5, <1>6, <1>7

\* Whatever says which discovery came first is a day.
LEMMA ChronologyIsDay ==
    ASSUME NEW dir, Sound(dir, VolumeSources), NEW i \in DOMAIN Rows(dir, "discovery"), NEW row,
           row = Rows(dir, "discovery")[i]
    PROVE  Chronology(dir, row).date \in Nat
<1>1. \A col \in VolumeNumbers : Day(row, col) \in Nat
  BY RowsOfTable, VolumeColumnsAreNumbers DEF VolumeSources
<1>2. \A f, d : InclusionDay(dir, f, d) \in Nat
  <2> DEFINE s == "field_discoveries_incl_hst"
  <2>1. \A r \in RowSet(dir, s) : Day(r, "fldDiscoveryInclFromDate") \in Nat
    <3>1. "fldDiscoveryInclFromDate" \in NumberColumns BY VolumeColumnsAreNumbers DEF VolumeNumbers
    <3>2. s \in VolumeSources BY DEF VolumeSources
    <3> QED BY <3>1, <3>2, RowsOfTable DEF SetOf
  <2>2. ASSUME NEW f, NEW d PROVE InclusionDay(dir, f, d) \in Nat
    <3>1. PICK days : days = {Day(r, "fldDiscoveryInclFromDate") :
                               r \in {r \in RowSet(dir, s) : f # NoId /\ r["fldNpdidField"] = f
                                                             /\ r["dscNpdidDiscovery"] = d}}
      OBVIOUS
    <3>2. days \in SUBSET Nat BY <2>1, <3>1
    <3>3. InclusionDay(dir, f, d) = MinDay(days) BY <3>1 DEF InclusionDay
    <3> QED BY <3>2, <3>3, MinDayIsFirst
  <2> QED BY <2>2
<1>3. \A well : CompletionDay(dir, well) \in Nat
  <2> DEFINE wells == Rows(dir, "wellbore")
             col == "wlbCompletionDate"
  <2>1. /\ IsRows(wells)
        /\ \A n \in DOMAIN wells : \A c \in NumberColumns \cap DOMAIN wells[n] : wells[n][c] \in Nat
    BY RowsOfTable DEF VolumeSources
  <2>2. ASSUME NEW well PROVE CompletionDay(dir, well) \in Nat
    <3>1. PICK H : H = {n \in DOMAIN wells : /\ well # NoId
                                             /\ wells[n]["wlbNpdidWellbore"] = well
                                             /\ Day(wells[n], col) # NoDate}
      OBVIOUS
    <3>2. H \in SUBSET Nat /\ IsFiniteSet(H) BY <2>1, <3>1, RowsAreNumbered, FS_Subset
    <3>3. CompletionDay(dir, well) = IF LastRow(H) = 0 THEN NoDate ELSE wells[LastRow(H)][col]
      BY <3>1 DEF CompletionDay
    <3>4. CASE H = {} BY <3>3, <3>4 DEF LastRow, NoDate
    <3>5. CASE H # {}
      <4>1. LastRow(H) \in H BY <3>2, <3>5, MaxIsGreatest DEF LastRow
      <4>2. col \in DOMAIN wells[LastRow(H)] BY <3>1, <4>1 DEF Day
      <4>3. col \in NumberColumns BY VolumeColumnsAreNumbers DEF VolumeNumbers
      <4> QED BY <2>1, <3>1, <3>3, <4>1, <4>2, <4>3 DEF NoDate
    <3> QED BY <3>4, <3>5
  <2> QED BY <2>2
<1>4. PICK days : days = [n \in DOMAIN ChronologyBases |-> ChronologyDay(dir, row, ChronologyBases[n])]
  OBVIOUS
<1>5. DOMAIN ChronologyBases = 1..4 BY DEF ChronologyBases
<1>6. ASSUME NEW n \in 1..4 PROVE days[n] \in Nat
  <2>1. days[n] = ChronologyDay(dir, row, ChronologyBases[n]) BY <1>4, <1>5
  <2>2. CASE n = 1
    <3>1. ChronologyBases[n] = "discovery_field_inclusion" BY <2>2 DEF ChronologyBases
    <3> QED BY <1>1, <2>1, <3>1 DEF ChronologyDay, VolumeNumbers
  <2>3. CASE n = 2
    <3>1. ChronologyBases[n] = "field_inclusion_history" BY <2>3 DEF ChronologyBases
    <3> QED BY <1>2, <2>1, <3>1 DEF ChronologyDay
  <2>4. CASE n = 3
    <3>1. ChronologyBases[n] = "designated_well_completion" BY <2>4 DEF ChronologyBases
    <3> QED BY <1>3, <2>1, <3>1 DEF ChronologyDay
  <2>5. CASE n = 4
    <3>1. ChronologyBases[n] = "discovery_year" BY <2>5 DEF ChronologyBases
    <3>2. PICK y \in Nat : y = Day(row, "dscDiscoveryYear") BY <1>1 DEF VolumeNumbers
    <3>3. y * YearDays \in Nat BY <3>2, YearDaysAssumption
    <3>4. days[n] = IF y = NoDate THEN NoDate ELSE Jan1(y) BY <2>1, <3>1, <3>2 DEF ChronologyDay
    <3> QED BY <3>3, <3>4 DEF Jan1, NoDate
  <2> QED BY <2>2, <2>3, <2>4, <2>5
<1>7. PICK known : known = {n \in DOMAIN days : days[n] # NoDate} OBVIOUS
<1>8. known # {} => Min(known) \in known
  <2>1. known \in SUBSET Nat BY <1>4, <1>5, <1>7
  <2> QED BY <2>1, MinIsLeast
<1>9. FirstKnown(days).date \in Nat
  <2>1. CASE known = {}
    <3>1. FirstKnown(days).date = NoDate BY <1>7, <2>1 DEF FirstKnown
    <3> QED BY <3>1 DEF NoDate
  <2>2. CASE known # {}
    <3>1. FirstKnown(days).date = days[Min(known)] BY <1>7, <2>2 DEF FirstKnown
    <3> QED BY <1>4, <1>5, <1>6, <1>7, <1>8, <2>2, <3>1
  <2> QED BY <2>1, <2>2
<1> QED BY <1>4, <1>9 DEF Chronology

\* The volumes of a workdir may be summed.
LEMMA VolumesAreDisjoint ==
    ASSUME NEW dir, Sound(dir, VolumeSources)
    PROVE  DisjointVolumes(Projected(Facts(dir)))
<1>1. PICK facts : facts = Facts(dir) OBVIOUS
<1>2. facts.known = KnownIds(dir) BY <1>1 DEF Facts, FactsOf
<1>3. \A d \in KnownIds(dir) : facts.came[d] = Chronology(dir, RowOf(dir, d))
  BY <1>1 DEF Facts, FactsOf
<1>4. ASSUME NEW d \in KnownIds(dir) PROVE facts.came[d].date \in Nat
  <2>1. PICK i \in DOMAIN Rows(dir, "discovery") : RowOf(dir, d) = Rows(dir, "discovery")[i]
    BY KnownDiscoveries
  <2> QED BY <1>3, <2>1, ChronologyIsDay
<1>5. KnownIds(dir) \in SUBSET Nat /\ IsFiniteSet(KnownIds(dir)) BY KnownDiscoveries
<1>6. DisjointVolumes(Projected(facts)) BY <1>2, <1>4, <1>5, ProjectionIsDisjoint
<1> QED BY <1>1, <1>6

(***************************************************************************)
(* Lifecycle windows.                                                      *)
(***************************************************************************)
LEMMA BoundsAreNumbers ==
    ASSUME NEW s \in TemporalStems
    PROVE  Intervals[s].from \in NumberColumns /\ Intervals[s].to \in NumberColumns
BY DEF NumberColumns, DayColumns

LEMMA NumbersAreNotAreas == \A c \in NumberColumns : c \notin MainAreaColumns
BY DEF MainAreaColumns, NumberColumns, DayColumns, TemporalStems, Intervals, ClosedInterval

\* The earliest day of a history is not after a row that its copy keeps.
LEMMA EarliestCovers ==
    ASSUME NEW dir, NEW stems, Sound(dir, stems), NEW s \in stems, s \in TemporalStems,
           s \in DOMAIN dir, NEW key \in NumberColumns, key \in KeyColumns(s),
           NEW row \in SetOf(TemporalCopy(dir[s], s).rows), row[key] # NoId,
           FactDay(Day(row, Intervals[s].from)) # NoDate, NEW e,
           e = Earliest(dir, s, key, row[key], Intervals[s].from, Intervals[s].to)
    PROVE  /\ e \in Nat /\ e # NoDate /\ e <= Day(row, Intervals[s].from)
           /\ Day(row, Intervals[s].from) \in Nat
<1> DEFINE from == Intervals[s].from
           to == Intervals[s].to
           rows == dir[s].rows
<1>1. IsTable(dir[s]) /\ KeyColumns(s) \subseteq dir[s].cols BY DEF Sound
<1>2. from \in NumberColumns /\ to \in NumberColumns BY BoundsAreNumbers
<1>3. PICK i \in KeptAt(dir[s], s) :
        /\ DOMAIN row = DOMAIN rows[i]
        /\ \A c \in DOMAIN row : c \notin MainAreaColumns => row[c] = rows[i][c]
  BY <1>1, CopyRows
<1>4. i \in DOMAIN rows /\ DOMAIN rows[i] = dir[s].cols BY <1>1, <1>3 DEF KeptAt, IsTable
<1>5. key \in DOMAIN rows[i] /\ row[key] = rows[i][key]
  BY <1>1, <1>3, <1>4, NumbersAreNotAreas
<1>6. Day(row, from) = Day(rows[i], from)
  BY <1>2, <1>3, NumbersAreNotAreas DEF Day
<1>7. ~Inverted(rows[i], from, to)
  <2>1. CASE {from, to} \subseteq dir[s].cols BY <1>3, <2>1 DEF KeptAt, Keeps
  <2>2. CASE ~({from, to} \subseteq dir[s].cols) BY <1>4, <2>2 DEF Inverted, Day
  <2> QED BY <2>1, <2>2
<1>8. PICK days : days = {FactDay(Day(rows[j], from)) :
                            j \in {j \in DOMAIN rows : /\ Id(rows[j], key) = row[key]
                                                       /\ ~Inverted(rows[j], from, to)}}
  OBVIOUS
<1>9. e = MinDay(days) BY <1>8 DEF Earliest, Rows
<1>10. days \in SUBSET Nat
  <2>1. \A j \in DOMAIN rows : Day(rows[j], from) \in Nat BY <1>1, <1>2, DayIsNumber
  <2> QED BY <1>8, <2>1 DEF FactDay, NoDate
<1>11. FactDay(Day(row, from)) \in days
  <2>1. Id(rows[i], key) = row[key] BY <1>5 DEF Id
  <2> QED BY <1>4, <1>6, <1>7, <1>8, <2>1
<1>12. FactDay(Day(row, from)) = Day(row, from) BY DEF FactDay
<1> HIDE DEF from
<1>13. Day(row, from) \in Nat BY <1>10, <1>11, <1>12
<1> QED BY <1>9, <1>10, <1>11, <1>12, <1>13, MinDayIsFirst DEF from

\* Where the cells of _derived_field come from.
FromLatest(dir, id, col) ==
    LET n == LatestReserves(Rows(dir, "field_reserves"), id)
    IN  IF n = 0 THEN NoDate ELSE Day(Rows(dir, "field_reserves")[n], col)

FieldCell(dir, i, col) ==
    LET id == dir["field"].rows[i]["fldNpdidField"]
    IN  CASE col = "fldReservesDate"    -> FromLatest(dir, id, "fldDateOffResEstDisplay")
          [] col = "fldReservesVersion" -> FromLatest(dir, id, "fldVersion")
          [] col = "fldProducedOE"      -> ProducedOE(dir, id)
          [] OTHER                      -> FromLatest(dir, id, col)

FieldCellColumns ==
    FieldReserveColumns \cup {"fldReservesDate", "fldReservesVersion", "fldProducedOE"}

FieldFrom(dir, i) ==
    LET d == FieldFirstFact(dir, dir["field"].rows[i]["fldNpdidField"])
    IN  IF d = NoDate THEN YearStart(Day(dir["field"].rows[i], "fldDiscoveryYear")) ELSE d

Windowed(t, from) ==
    SetColumn(SetColumn(UpperMainAreas(t), "existsFrom", LAMBDA i : from[i]), "existsTo", OpenEnd)

RowsHaveColumns(t) ==
    DOMAIN t = {"cols", "rows"} /\ \A i \in DOMAIN t.rows : DOMAIN t.rows[i] = t.cols

\* A window leaves the other columns as they are, the spelling of areas aside.
LEMMA WindowedRows ==
    ASSUME NEW t, RowsHaveColumns(t), NEW from, NEW row \in SetOf(Windowed(t, from).rows)
    PROVE  \E i \in DOMAIN t.rows :
             /\ row["existsFrom"] = from[i]
             /\ \A c \in t.cols : c \notin MainAreaColumns \cup {"existsFrom", "existsTo"} =>
                  row[c] = t.rows[i][c]
<1>1. PICK v : v = UpperMainAreas(t) OBVIOUS
<1>2. /\ v.cols = t.cols /\ DOMAIN v.rows = DOMAIN t.rows
      /\ \A i \in DOMAIN t.rows : \A c \in t.cols :
           c \notin MainAreaColumns => v.rows[i][c] = t.rows[i][c]
  BY <1>1 DEF UpperMainAreas, RowsHaveColumns
<1>3. PICK w : w = SetColumn(v, "existsFrom", LAMBDA i : from[i]) OBVIOUS
<1>4. /\ w.cols = v.cols \cup {"existsFrom"} /\ DOMAIN w.rows = DOMAIN v.rows
      /\ \A i \in DOMAIN v.rows :
           /\ w.rows[i]["existsFrom"] = from[i]
           /\ \A c \in v.cols : c # "existsFrom" => w.rows[i][c] = v.rows[i][c]
  BY <1>3 DEF SetColumn, SetColumns
<1>5. PICK u : u = SetColumn(w, "existsTo", OpenEnd) OBVIOUS
<1>6. /\ DOMAIN u.rows = DOMAIN w.rows
      /\ \A i \in DOMAIN w.rows : \A c \in w.cols : c # "existsTo" => u.rows[i][c] = w.rows[i][c]
  BY <1>5 DEF SetColumn, SetColumns, OpenEnd
<1>7. Windowed(t, from) = u BY <1>1, <1>3, <1>5, Zenon DEF Windowed
<1>8. PICK i \in DOMAIN u.rows : row = u.rows[i] BY <1>7 DEF SetOf
<1>9. i \in DOMAIN t.rows /\ row["existsFrom"] = from[i] BY <1>2, <1>4, <1>6, <1>8
<1>10. ASSUME NEW c \in t.cols, c \notin MainAreaColumns \cup {"existsFrom", "existsTo"}
       PROVE  row[c] = t.rows[i][c]
  BY <1>2, <1>4, <1>6, <1>8, <1>10
<1> QED BY <1>9, <1>10

LEMMA FieldRows ==
    ASSUME NEW dir, IsTable(dir["field"]), "fldNpdidField" \in dir["field"].cols,
           NEW row \in SetOf(Field(dir).rows)
    PROVE  \E i \in DOMAIN dir["field"].rows :
             /\ row["fldNpdidField"] = dir["field"].rows[i]["fldNpdidField"]
             /\ row["existsFrom"] = FieldFrom(dir, i)
             /\ \A c \in FieldCellColumns : row[c] = FieldCell(dir, i, c)
<1> DEFINE t == dir["field"]
<1>1. PICK u : u = SetColumns(t, FieldCellColumns, LAMBDA i, c : FieldCell(dir, i, c)) OBVIOUS
<1>2. /\ DOMAIN u = {"cols", "rows"} /\ u.cols = t.cols \cup FieldCellColumns
      /\ DOMAIN u.rows = DOMAIN t.rows
      /\ \A i \in DOMAIN t.rows :
           /\ DOMAIN u.rows[i] = u.cols
           /\ \A c \in FieldCellColumns : u.rows[i][c] = FieldCell(dir, i, c)
           /\ \A c \in t.cols \ FieldCellColumns : u.rows[i][c] = t.rows[i][c]
  BY <1>1 DEF SetColumns
<1>3. PICK from : from = [i \in DOMAIN t.rows |-> FieldFrom(dir, i)] OBVIOUS
<1>4. Field(dir) = SetColumn(SetColumn(UpperMainAreas(u), "existsFrom",
                                       LAMBDA i : FieldFrom(dir, i)), "existsTo", OpenEnd)
  BY <1>1, Zenon DEF Field, WithWindow, FieldCell, FieldCellColumns, FieldFrom, FromLatest
<1>5. Field(dir) = Windowed(u, from)
  <2>1. PICK v : v = UpperMainAreas(u) OBVIOUS
  <2>2. DOMAIN v.rows = DOMAIN t.rows BY <1>2, <2>1 DEF UpperMainAreas
  <2>3. SetColumn(v, "existsFrom", LAMBDA i : FieldFrom(dir, i))
          = SetColumn(v, "existsFrom", LAMBDA i : from[i])
    BY <1>3, <2>2 DEF SetColumn, SetColumns
  <2> QED BY <1>4, <2>1, <2>3, Zenon DEF Windowed
<1>6. RowsHaveColumns(u) BY <1>2 DEF RowsHaveColumns
<1>7. PICK i \in DOMAIN u.rows :
        /\ row["existsFrom"] = from[i]
        /\ \A c \in u.cols : c \notin MainAreaColumns \cup {"existsFrom", "existsTo"} =>
             row[c] = u.rows[i][c]
  BY <1>5, <1>6, WindowedRows
<1>8. \A c \in FieldCellColumns \cup {"fldNpdidField"} :
         c \notin MainAreaColumns \cup {"existsFrom", "existsTo"}
  BY DEF FieldCellColumns, FieldReserveColumns, MainAreaColumns
<1>9. "fldNpdidField" \notin FieldCellColumns BY DEF FieldCellColumns, FieldReserveColumns
<1> QED BY <1>2, <1>3, <1>7, <1>8, <1>9

LEMMA HistoryKeys ==
    /\ \A s \in FieldHistories : "fldNpdidField" \in KeyColumns(s)
    /\ \A s \in {"discovery_operator_hst", "field_discoveries_incl_hst"} :
         "dscNpdidDiscovery" \in KeyColumns(s) /\ s \in TemporalStems
BY DEF FieldHistories, KeyColumns, TemporalStems, Intervals, ClosedInterval

LEMMA KeysAreNumbers == "fldNpdidField" \in NumberColumns /\ "dscNpdidDiscovery" \in NumberColumns
BY VolumeColumnsAreNumbers DEF VolumeNumbers

LEMMA EarliestIsDay ==
    ASSUME NEW dir, NEW stems, Sound(dir, stems), NEW s \in stems, s \in TemporalStems,
           NEW key, NEW id
    PROVE  Earliest(dir, s, key, id, Intervals[s].from, Intervals[s].to) \in Nat
<1> DEFINE from == Intervals[s].from
           to == Intervals[s].to
           rows == Rows(dir, s)
<1>1. PICK days : days = {FactDay(Day(rows[i], from)) :
                            i \in {i \in DOMAIN rows : /\ Id(rows[i], key) = id
                                                       /\ ~Inverted(rows[i], from, to)}}
  OBVIOUS
<1>2. days \in SUBSET Nat
  <2>1. \A i \in DOMAIN rows : Day(rows[i], from) \in Nat BY RowsOfTable, BoundsAreNumbers
  <2> QED BY <1>1, <2>1 DEF FactDay, NoDate
<1>3. Earliest(dir, s, key, id, from, to) = IF id = NoId THEN NoDate ELSE MinDay(days)
  BY <1>1 DEF Earliest
<1>4. MinDay(days) \in Nat BY <1>2, MinDayIsFirst
<1> QED BY <1>3, <1>4 DEF NoDate

\* The window of a field covers the histories of its facts.
LEMMA FieldCovers ==
    ASSUME NEW dir, Sound(dir, {"field"} \cup FieldHistories), "field" \in DOMAIN dir,
           NEW a \in SetOf(Field(dir).rows), a["fldNpdidField"] # NoId,
           NEW s \in FieldHistories, s \in DOMAIN dir,
           NEW row \in SetOf(TemporalCopy(dir[s], s).rows),
           row["fldNpdidField"] = a["fldNpdidField"],
           FactDay(Day(row, Intervals[s].from)) # NoDate
    PROVE  a["existsFrom"] # NoDate /\ a["existsFrom"] <= Day(row, Intervals[s].from)
<1> DEFINE stems == {"field"} \cup FieldHistories
           key == "fldNpdidField"
           First(h) == Earliest(dir, h, key, a[key], Intervals[h].from, Intervals[h].to)
<1>1. /\ First(s) \in Nat /\ First(s) # NoDate /\ First(s) <= Day(row, Intervals[s].from)
      /\ Day(row, Intervals[s].from) \in Nat
  BY StemsOfHistories, HistoryKeys, KeysAreNumbers, EarliestCovers
<1>2. PICK days : days = {First(h) : h \in FieldHistories} OBVIOUS
<1>3. days \in SUBSET Nat
  <2>1. \A h \in FieldHistories : First(h) \in Nat BY StemsOfHistories, EarliestIsDay
  <2> QED BY <1>2, <2>1
<1>4. FieldFirstFact(dir, a[key]) = MinDay(days) BY <1>2 DEF FieldFirstFact
<1>5. PICK i \in DOMAIN dir["field"].rows :
        a[key] = dir["field"].rows[i][key] /\ a["existsFrom"] = FieldFrom(dir, i)
  <2>1. IsTable(dir["field"]) /\ KeyColumns("field") \subseteq dir["field"].cols BY DEF Sound
  <2>2. key \in KeyColumns("field") BY StemsOfHistories DEF KeyColumns
  <2> QED BY <2>1, <2>2, FieldRows
<1>6. MinDay(days) \in Nat /\ MinDay(days) # NoDate /\ MinDay(days) <= First(s)
  BY <1>1, <1>2, <1>3, MinDayIsFirst
<1>7. a["existsFrom"] = MinDay(days) BY <1>4, <1>5, <1>6 DEF FieldFrom
<1> HIDE DEF First
<1> QED BY <1>1, <1>6, <1>7

\* Where the window of a discovery starts.
DiscoveryBase(dir, i) ==
    LET t == dir["discovery"]
        jan1 == YearStart(Day(t.rows[i], "dscDiscoveryYear"))
        done == WellDone(dir, Id(t.rows[i], "wlbNpdidWellbore"))
    IN  IF /\ done # NoDate
           /\ jan1 # NoDate
           /\ YearOf(done) = YearOf(jan1)
          THEN done ELSE jan1

DiscoveryFirst(dir, id, s) ==
    Earliest(dir, s, "dscNpdidDiscovery", id, Intervals[s].from, Intervals[s].to)

DiscoveryFrom(dir, i) ==
    LET id == dir["discovery"].rows[i]["dscNpdidDiscovery"]
    IN  MinDay({DiscoveryBase(dir, i), DiscoveryFirst(dir, id, "discovery_operator_hst"),
                DiscoveryFirst(dir, id, "field_discoveries_incl_hst")})

DiscoveryTables ==
    {"discovery", "wellbore", "discovery_operator_hst", "field_discoveries_incl_hst"}

LEMMA DiscoveryBaseIsDay ==
    ASSUME NEW dir, Sound(dir, DiscoveryTables), "discovery" \in DOMAIN dir,
           NEW i \in DOMAIN dir["discovery"].rows
    PROVE  DiscoveryBase(dir, i) \in Nat
<1> DEFINE row == dir["discovery"].rows[i]
           wells == Rows(dir, "wellbore")
           Done(n) == FactDay(Day(wells[n], "wlbCompletionDate"))
<1>1. YearStart(Day(row, "dscDiscoveryYear")) \in Nat
  <2>1. IsTable(dir["discovery"]) BY DEF Sound, DiscoveryTables
  <2>2. "dscDiscoveryYear" \in NumberColumns BY VolumeColumnsAreNumbers DEF VolumeNumbers
  <2>3. PICK y \in Nat : y = Day(row, "dscDiscoveryYear") BY <2>1, <2>2, DayIsNumber
  <2>4. y * YearDays \in Nat BY YearDaysAssumption
  <2> QED BY <2>3, <2>4 DEF YearStart, Jan1, NoDate
<1>2. \A well : WellDone(dir, well) \in Nat
  <2>1. IsRows(wells) /\ \A n \in DOMAIN wells : Day(wells[n], "wlbCompletionDate") \in Nat
    <3>1. "wlbCompletionDate" \in NumberColumns BY VolumeColumnsAreNumbers DEF VolumeNumbers
    <3> QED BY <3>1, RowsOfTable DEF DiscoveryTables
  <2>2. \A n \in DOMAIN wells : Done(n) \in Nat BY <2>1 DEF FactDay, NoDate
  <2>3. ASSUME NEW well PROVE WellDone(dir, well) \in Nat
    <3>1. PICK H : H = {n \in DOMAIN wells : wells[n]["wlbNpdidWellbore"] = well /\ Done(n) # NoDate}
      OBVIOUS
    <3>2. H \in SUBSET Nat /\ IsFiniteSet(H) /\ H \subseteq DOMAIN wells
      BY <2>1, <3>1, RowsAreNumbered, FS_Subset
    <3>3. WellDone(dir, well) = IF H = {} THEN NoDate ELSE Done(Max(H)) BY <3>1 DEF WellDone
    <3>4. H # {} => Max(H) \in H BY <3>2, MaxIsGreatest
    <3>5. H # {} => Done(Max(H)) \in Nat BY <2>2, <3>2, <3>4
    <3> HIDE DEF Done
    <3> QED BY <3>3, <3>5 DEF NoDate
  <2> QED BY <2>3
<1> QED BY <1>1, <1>2 DEF DiscoveryBase

LEMMA DiscoveryRowsWindowed ==
    ASSUME NEW dir, IsTable(dir["discovery"]), "dscNpdidDiscovery" \in dir["discovery"].cols,
           NEW row \in SetOf(Discovery(dir).rows)
    PROVE  \E i \in DOMAIN dir["discovery"].rows :
             /\ row["dscNpdidDiscovery"] = dir["discovery"].rows[i]["dscNpdidDiscovery"]
             /\ row["existsFrom"] = DiscoveryFrom(dir, i)
<1> DEFINE t == dir["discovery"]
<1>1. PICK from : from = [i \in DOMAIN t.rows |-> DiscoveryFrom(dir, i)] OBVIOUS
<1>2. Discovery(dir) = SetColumn(SetColumn(UpperMainAreas(t), "existsFrom",
                                           LAMBDA i : DiscoveryFrom(dir, i)), "existsTo", OpenEnd)
  BY Zenon DEF Discovery, WithWindow, DiscoveryFrom, DiscoveryBase, DiscoveryFirst
<1>3. RowsHaveColumns(t) BY DEF RowsHaveColumns, IsTable
<1>4. Discovery(dir) = Windowed(t, from)
  <2>1. PICK v : v = UpperMainAreas(t) OBVIOUS
  <2>2. DOMAIN v.rows = DOMAIN t.rows BY <1>3, <2>1 DEF UpperMainAreas, RowsHaveColumns
  <2>3. SetColumn(v, "existsFrom", LAMBDA i : DiscoveryFrom(dir, i))
          = SetColumn(v, "existsFrom", LAMBDA i : from[i])
    BY <1>1, <2>2 DEF SetColumn, SetColumns
  <2> QED BY <1>2, <2>1, <2>3, Zenon DEF Windowed
<1>5. PICK i \in DOMAIN t.rows :
        /\ row["existsFrom"] = from[i]
        /\ \A c \in t.cols : c \notin MainAreaColumns \cup {"existsFrom", "existsTo"} =>
             row[c] = t.rows[i][c]
  BY <1>3, <1>4, WindowedRows
<1> QED BY <1>1, <1>5 DEF MainAreaColumns

\* The window of a discovery covers the histories of its facts.
LEMMA DiscoveryCovers ==
    ASSUME NEW dir, Sound(dir, DiscoveryTables), "discovery" \in DOMAIN dir,
           NEW a \in SetOf(Discovery(dir).rows), a["dscNpdidDiscovery"] # NoId,
           NEW s \in {"discovery_operator_hst", "field_discoveries_incl_hst"}, s \in DOMAIN dir,
           NEW row \in SetOf(TemporalCopy(dir[s], s).rows),
           row["dscNpdidDiscovery"] = a["dscNpdidDiscovery"],
           FactDay(Day(row, Intervals[s].from)) # NoDate
    PROVE  a["existsFrom"] # NoDate /\ a["existsFrom"] <= Day(row, Intervals[s].from)
<1> DEFINE key == "dscNpdidDiscovery"
           First(h) == DiscoveryFirst(dir, a[key], h)
<1>1. /\ First(s) \in Nat /\ First(s) # NoDate /\ First(s) <= Day(row, Intervals[s].from)
      /\ Day(row, Intervals[s].from) \in Nat
  BY HistoryKeys, KeysAreNumbers, EarliestCovers DEF DiscoveryFirst, DiscoveryTables
<1>2. \A h \in {"discovery_operator_hst", "field_discoveries_incl_hst"} : First(h) \in Nat
  BY HistoryKeys, EarliestIsDay DEF DiscoveryFirst, DiscoveryTables
<1>3. PICK i \in DOMAIN dir["discovery"].rows :
        a[key] = dir["discovery"].rows[i][key] /\ a["existsFrom"] = DiscoveryFrom(dir, i)
  <2>1. IsTable(dir["discovery"]) /\ KeyColumns("discovery") \subseteq dir["discovery"].cols
    BY DEF Sound, DiscoveryTables
  <2> QED BY <2>1, DiscoveryKey, DiscoveryRowsWindowed
<1>4. PICK days : days = {DiscoveryBase(dir, i), First("discovery_operator_hst"),
                          First("field_discoveries_incl_hst")}
  OBVIOUS
<1>5. days \in SUBSET Nat /\ First(s) \in days BY <1>2, <1>4, DiscoveryBaseIsDay
<1>6. a["existsFrom"] = MinDay(days) BY <1>3, <1>4 DEF DiscoveryFrom
<1> HIDE DEF First
<1>7. MinDay(days) \in Nat /\ MinDay(days) # NoDate /\ MinDay(days) <= First(s)
  BY <1>1, <1>5, MinDayIsFirst
<1> QED BY <1>1, <1>6, <1>7

(***************************************************************************)
(* The reserves version chain of a field.                                  *)
(***************************************************************************)
ReservesSpec == Chains["field_reserves"]

DatedAt(rows, id) ==
    {i \in DOMAIN rows : rows[i]["fldNpdidField"] = id
                            /\ Day(rows[i], "fldDateOffResEstDisplay") # NoDate}

\* The versions that come after row i.
LaterAt(rows, id, i) ==
    {j \in DatedAt(rows, id) :
       VersionBefore(Version(rows[i], ReservesSpec), Version(rows[j], ReservesSpec))}

LastAt(rows, id) == {i \in DatedAt(rows, id) : LaterAt(rows, id, i) = {}}

HasVersions(rows) ==
    /\ IsRows(rows)
    /\ \A i \in DOMAIN rows : /\ Day(rows[i], "fldDateOffResEstDisplay") \in Nat
                              /\ Day(rows[i], "fldVersion") \in Nat

\* The rows the snapshot of a field chooses from.
TopAt(rows, id) ==
    {i \in DatedAt(rows, id) :
       \A j \in DatedAt(rows, id) : ~RankBefore(ReservesRank(rows[i]), ReservesRank(rows[j]))}

LEMMA NumbersOfTexts ==
    ASSUME NEW text
    PROVE  /\ VersionNumber(text) \in Nat
           /\ RankNumber(text) = IF VersionNumber(text) = 0 THEN 1 ELSE VersionNumber(text)
BY NumberOfAssumption DEF VersionNumber, RankNumber

LEMMA VersionOrder ==
    ASSUME NEW u \in Nat \X Nat \X Nat, NEW v \in Nat \X Nat \X Nat, NEW w \in Nat \X Nat \X Nat
    PROVE  /\ ~VersionBefore(v, v)
           /\ VersionBefore(u, v) /\ VersionBefore(v, w) => VersionBefore(u, w)
BY DEF VersionBefore

LEMMA VersionIsTriple ==
    ASSUME NEW rows, HasVersions(rows), NEW i \in DOMAIN rows
    PROVE  /\ Version(rows[i], ReservesSpec) \in Nat \X Nat \X Nat
           /\ Version(rows[i], ReservesSpec)
                = <<Day(rows[i], "fldDateOffResEstDisplay"),
                    VersionNumber(Day(rows[i], "fldVersion")), Day(rows[i], "fldVersion")>>
<1>1. ReservesSpec.date = "fldDateOffResEstDisplay" /\ ReservesSpec.order = "fldVersion"
  BY DEF ReservesSpec, Chains
<1>2. VersionNumber(Day(rows[i], "fldVersion")) \in Nat BY NumbersOfTexts
<1> QED BY <1>1, <1>2 DEF HasVersions, Version

\* A field with a dated row has a last version.
LEMMA LastVersion ==
    ASSUME NEW rows, HasVersions(rows), NEW id
    PROVE  /\ DatedAt(rows, id) \in SUBSET Nat
           /\ 0 \notin DatedAt(rows, id)
           /\ DatedAt(rows, id) # {} => LastAt(rows, id) # {}
<1> DEFINE S == DatedAt(rows, id)
           V(i) == Version(rows[i], ReservesSpec)
<1>1. S \subseteq DOMAIN rows /\ IsFiniteSet(S) /\ S \in SUBSET Nat /\ 0 \notin S
  <2>1. S \subseteq DOMAIN rows BY DEF DatedAt
  <2> QED BY <2>1, RowsAreNumbered, FS_Subset DEF HasVersions
<1>2. \A i \in S : V(i) \in Nat \X Nat \X Nat BY <1>1, VersionIsTriple
<1>3. PICK gt : gt = [i \in S |-> LaterAt(rows, id, i)] OBVIOUS
<1>4. gt \in [S -> SUBSET S] BY <1>3 DEF LaterAt
<1>5. \A i, j \in S : j \in gt[i] <=> VersionBefore(V(i), V(j)) BY <1>3 DEF LaterAt
<1> HIDE DEF V
<1>6. \A i \in S : i \notin gt[i] BY <1>2, <1>5, VersionOrder
<1>7. \A i \in S : \A j \in gt[i] : gt[j] \subseteq gt[i] BY <1>2, <1>4, <1>5, VersionOrder
<1>8. S # {} => \E i \in S : gt[i] = {} BY <1>1, <1>4, <1>6, <1>7, Greatest
<1>9. \A i \in S : i \in LastAt(rows, id) <=> gt[i] = {} BY <1>3 DEF LastAt
<1> QED BY <1>1, <1>8, <1>9

\* The last version has the highest rank; of the rows with that rank, those of
\* its text are the last version.
LEMMA LastIsTop ==
    ASSUME NEW rows, HasVersions(rows), NEW id
    PROVE  /\ LastAt(rows, id) \subseteq TopAt(rows, id)
           /\ \A i, j \in TopAt(rows, id) :
                /\ Day(rows[i], "fldDateOffResEstDisplay") = Day(rows[j], "fldDateOffResEstDisplay")
                /\ RankNumber(Day(rows[i], "fldVersion")) = RankNumber(Day(rows[j], "fldVersion"))
           /\ \A i \in LastAt(rows, id), j \in TopAt(rows, id) :
                Day(rows[i], "fldVersion") = Day(rows[j], "fldVersion") => j \in LastAt(rows, id)
<1> DEFINE D(i) == Day(rows[i], "fldDateOffResEstDisplay")
           T(i) == Day(rows[i], "fldVersion")
           V(i) == Version(rows[i], ReservesSpec)
<1>1. \A i \in DatedAt(rows, id) : i \in DOMAIN rows BY DEF DatedAt
<1>2. \A i \in DatedAt(rows, id) : V(i) = <<D(i), VersionNumber(T(i)), T(i)>>
  BY <1>1, VersionIsTriple
<1>3. \A i \in DatedAt(rows, id) : ReservesRank(rows[i]) = <<D(i), RankNumber(T(i))>> BY DEF ReservesRank
<1>4. \A i \in DatedAt(rows, id) : D(i) \in Nat BY <1>1 DEF HasVersions
<1>5. LastAt(rows, id) \subseteq DatedAt(rows, id) /\ TopAt(rows, id) \subseteq DatedAt(rows, id)
  BY DEF LastAt, TopAt
<1>6. \A i \in LastAt(rows, id), j \in DatedAt(rows, id) : ~VersionBefore(V(i), V(j))
  BY DEF LastAt, LaterAt
<1>7. \A i \in TopAt(rows, id), j \in DatedAt(rows, id) :
        ~RankBefore(ReservesRank(rows[i]), ReservesRank(rows[j]))
  BY DEF TopAt
<1> HIDE DEF V
<1>8. \A i, j \in DatedAt(rows, id) :
        RankBefore(ReservesRank(rows[i]), ReservesRank(rows[j])) => VersionBefore(V(i), V(j))
  <2> HIDE DEF D, T
  <2> SUFFICES ASSUME NEW i \in DatedAt(rows, id), NEW j \in DatedAt(rows, id),
                      RankBefore(ReservesRank(rows[i]), ReservesRank(rows[j]))
               PROVE  VersionBefore(V(i), V(j))
    OBVIOUS
  <2>1. D(i) < D(j) \/ (D(i) = D(j) /\ RankNumber(T(i)) < RankNumber(T(j)))
    BY <1>3 DEF RankBefore
  <2>2. RankNumber(T(i)) < RankNumber(T(j)) => VersionNumber(T(i)) < VersionNumber(T(j))
    BY NumbersOfTexts
  <2> QED BY <1>2, <2>1, <2>2 DEF VersionBefore
<1>9. LastAt(rows, id) \subseteq TopAt(rows, id) BY <1>5, <1>6, <1>8 DEF TopAt
<1>10. ASSUME NEW i \in TopAt(rows, id), NEW j \in TopAt(rows, id)
       PROVE  D(i) = D(j) /\ RankNumber(T(i)) = RankNumber(T(j))
  <2> HIDE DEF D, T
  <2>1. /\ ~RankBefore(ReservesRank(rows[i]), ReservesRank(rows[j]))
        /\ ~RankBefore(ReservesRank(rows[j]), ReservesRank(rows[i]))
    BY <1>5, <1>7
  <2>2. RankNumber(T(i)) \in Nat /\ RankNumber(T(j)) \in Nat BY NumbersOfTexts
  <2> QED BY <1>3, <1>4, <1>5, <2>1, <2>2 DEF RankBefore
<1>11. ASSUME NEW i \in LastAt(rows, id), NEW j \in TopAt(rows, id), T(i) = T(j)
       PROVE  j \in LastAt(rows, id)
  <2>1. V(j) = V(i) BY <1>2, <1>5, <1>9, <1>10, <1>11
  <2>2. \A k \in DatedAt(rows, id) : ~VersionBefore(V(j), V(k)) BY <1>6, <2>1
  <2> QED BY <1>5, <2>2 DEF LastAt, LaterAt, V
<1> QED BY <1>9, <1>10, <1>11

\* A version stays in force just when no other comes after it.
LEMMA InForceIsLast ==
    ASSUME NEW rows, HasVersions(rows), NEW id, NEW i \in DatedAt(rows, id)
    PROVE  NextVersionDay(rows, ReservesSpec, i) = NoDate <=> LaterAt(rows, id, i) = {}
<1> DEFINE V(j) == Version(rows[j], ReservesSpec)
<1>1. PICK days : days = {V(j)[1] : j \in LaterAt(rows, id, i)} OBVIOUS
<1>2. NextVersionDay(rows, ReservesSpec, i) = MinDay(days)
  <2>1. /\ rows[i]["fldNpdidField"] = id
        /\ ReservesSpec.entity = "fldNpdidField"
        /\ ReservesSpec.date = "fldDateOffResEstDisplay"
    BY DEF DatedAt, ReservesSpec, Chains
  <2>2. PICK dated : dated = {j \in DOMAIN rows :
                                /\ rows[j][ReservesSpec.entity] = rows[i][ReservesSpec.entity]
                                /\ Day(rows[j], ReservesSpec.date) # NoDate}
    OBVIOUS
  <2>3. dated = DatedAt(rows, id) BY <2>1, <2>2 DEF DatedAt
  <2>4. PICK later : later = {w \in {V(j) : j \in dated} : VersionBefore(V(i), w)} OBVIOUS
  <2>5. NextVersionDay(rows, ReservesSpec, i) = MinDay({w[1] : w \in later})
    BY <2>2, <2>4, Zenon DEF NextVersionDay
  <2>6. {w[1] : w \in later} = days
    <3>1. later = {V(j) : j \in LaterAt(rows, id, i)} BY <2>3, <2>4 DEF LaterAt
    <3> HIDE DEF V
    <3> QED BY <1>1, <3>1
  <2> QED BY <2>5, <2>6
<1>3. \A j \in LaterAt(rows, id, i) : V(j)[1] \in Nat /\ V(j)[1] # NoDate
  <2>1. \A j \in LaterAt(rows, id, i) : j \in DatedAt(rows, id) /\ j \in DOMAIN rows
    BY DEF LaterAt, DatedAt
  <2> QED BY <2>1, VersionIsTriple DEF DatedAt, HasVersions
<1> HIDE DEF V
<1>4. days \in SUBSET Nat /\ NoDate \notin days BY <1>1, <1>3
<1>5. MinDay(days) # NoDate => MinDay(days) \in days BY <1>4, MinDayIsFirst
<1>6. \A d \in days : MinDay(days) # NoDate BY <1>4, MinDayIsFirst
<1> QED BY <1>1, <1>2, <1>5, <1>6

\* The cells of a row of the chain.
LEMMA ChainRows ==
    ASSUME NEW dir, IsTable(dir["field_reserves"]),
           KeyColumns("field_reserves") \subseteq dir["field_reserves"].cols,
           NEW t, t = dir["field_reserves"], NEW u, u = ReservesChain(dir, "field_reserves")
    PROVE  /\ DOMAIN u.rows = DOMAIN t.rows
           /\ \A i \in DOMAIN t.rows :
                /\ \A c \in KeyColumns("field_reserves") : u.rows[i][c] = t.rows[i][c]
                /\ u.rows[i]["existsFrom"] = Day(t.rows[i], "fldDateOffResEstDisplay")
                /\ u.rows[i]["existsFrom"] # NoDate =>
                     u.rows[i]["existsTo"] = NextVersionDay(t.rows, ReservesSpec, i)
<1> DEFINE own == dir["field_reserves"]
           From(i) == Day(own.rows[i], ReservesSpec.date)
           To(i) == IF From(i) = NoDate THEN NoDate ELSE NextVersionDay(own.rows, ReservesSpec, i)
<1>1. ReservesSpec.date = "fldDateOffResEstDisplay" BY DEF ReservesSpec, Chains
<1>2. u = SetColumn(SetColumn(own, "existsFrom", From), "existsTo", To)
  BY Zenon DEF ReservesChain, ReservesSpec
<1>3. own = t BY Zenon
<1>4. \A i \in DOMAIN t.rows : DOMAIN t.rows[i] = t.cols BY DEF IsTable
<1>5. /\ "existsFrom" \notin KeyColumns("field_reserves")
      /\ "existsTo" \notin KeyColumns("field_reserves")
  BY StemsOfHistories DEF KeyColumns
<1>6. \A i : From(i) = Day(t.rows[i], "fldDateOffResEstDisplay") BY <1>1, <1>3
<1>7. \A i : To(i) = IF From(i) = NoDate THEN NoDate ELSE NextVersionDay(t.rows, ReservesSpec, i)
  BY <1>3, Zenon
<1> HIDE DEF From, To
<1>8. PICK v : v = SetColumn(own, "existsFrom", From) OBVIOUS
<1>9. /\ DOMAIN v.rows = DOMAIN t.rows /\ v.cols = t.cols \cup {"existsFrom"}
      /\ \A i \in DOMAIN t.rows :
           /\ v.rows[i]["existsFrom"] = From(i)
           /\ \A c \in t.cols \ {"existsFrom"} : v.rows[i][c] = t.rows[i][c]
  BY <1>3, <1>8 DEF SetColumn, SetColumns
<1>10. u = SetColumn(v, "existsTo", To) BY <1>2, <1>8, Zenon
<1>11. /\ DOMAIN u.rows = DOMAIN t.rows
       /\ \A i \in DOMAIN t.rows :
            /\ u.rows[i]["existsTo"] = To(i)
            /\ \A c \in v.cols \ {"existsTo"} : u.rows[i][c] = v.rows[i][c]
  BY <1>9, <1>10 DEF SetColumn, SetColumns
<1> QED BY <1>5, <1>6, <1>7, <1>9, <1>11

SnapshotAgrees(f, rows) ==
    LET chain == {r \in rows : r["fldNpdidField"] = f["fldNpdidField"] /\ r["existsFrom"] # NoDate}
        inForce == {r \in chain : r["existsTo"] = NoDate}
        SameRank(r) == /\ r["existsFrom"] = f["fldReservesDate"]
                       /\ RankNumber(r["fldVersion"]) = RankNumber(f["fldReservesVersion"])
        toldApart == \A r \in chain : SameRank(r) => r["fldVersion"] = f["fldReservesVersion"]
    IN  IF chain = {} THEN f["fldReservesDate"] = NoDate
          ELSE /\ inForce # {}
               /\ \A r \in inForce : SameRank(r)
               /\ toldApart => \E r \in inForce : r["fldRecoverableOE"] = f["fldRecoverableOE"]

LEMMA ReservesHaveVersions ==
    ASSUME NEW t, IsTable(t), KeyColumns("field_reserves") \subseteq t.cols
    PROVE  HasVersions(t.rows)
<1>1. /\ "fldDateOffResEstDisplay" \in NumberColumns /\ "fldVersion" \in NumberColumns
  BY DEF NumberColumns
<1> QED BY <1>1, TableRows, DayIsNumber DEF HasVersions

\* The snapshot columns of a field, from the rows of the highest rank.
LEMMA SnapshotCells ==
    ASSUME NEW dir, NEW i, NEW id, id = dir["field"].rows[i]["fldNpdidField"],
           NEW rows, rows = Rows(dir, "field_reserves"), HasVersions(rows)
    PROVE  LET top == TopAt(rows, id)
           IN  \E n : /\ top # {} => n \in top
                      /\ \A c : FromLatest(dir, id, c) = IF top = {} THEN NoDate ELSE Day(rows[n], c)
                      /\ FieldCell(dir, i, "fldReservesDate")
                           = FromLatest(dir, id, "fldDateOffResEstDisplay")
                      /\ FieldCell(dir, i, "fldReservesVersion") = FromLatest(dir, id, "fldVersion")
                      /\ FieldCell(dir, i, "fldRecoverableOE")
                           = FromLatest(dir, id, "fldRecoverableOE")
<1> DEFINE top == TopAt(rows, id)
<1>1. top # {} => Min(top) \in top /\ Min(top) # 0
  <2>1. top \subseteq DatedAt(rows, id) BY DEF TopAt
  <2> HIDE DEF top
  <2> QED BY <2>1, LastVersion, MinIsLeast
<1>2. LatestReserves(rows, id) = IF top = {} THEN 0 ELSE Min(top)
  <2>1. PICK dated : dated = {j \in DOMAIN rows :
                                /\ rows[j]["fldNpdidField"] = id
                                /\ Day(rows[j], "fldDateOffResEstDisplay") # NoDate}
    OBVIOUS
  <2>2. PICK best : best = {j \in dated : \A k \in dated :
                              ~RankBefore(ReservesRank(rows[j]), ReservesRank(rows[k]))}
    OBVIOUS
  <2>3. LatestReserves(rows, id) = IF best = {} THEN 0 ELSE Min(best)
    BY <2>1, <2>2, Zenon DEF LatestReserves
  <2>4. best = top BY <2>1, <2>2 DEF TopAt, DatedAt
  <2> QED BY <2>3, <2>4
<1>3. \A col : FromLatest(dir, id, col) = IF top = {} THEN NoDate ELSE Day(rows[Min(top)], col)
  <2> HIDE DEF top
  <2> QED BY <1>1, <1>2 DEF FromLatest
<1>4. /\ FieldCell(dir, i, "fldReservesDate") = FromLatest(dir, id, "fldDateOffResEstDisplay")
      /\ FieldCell(dir, i, "fldReservesVersion") = FromLatest(dir, id, "fldVersion")
      /\ FieldCell(dir, i, "fldRecoverableOE") = FromLatest(dir, id, "fldRecoverableOE")
  BY DEF FieldCell
<1> QED BY <1>1, <1>3, <1>4

\* reserves.rs and anchors.rs agree on the version in force.
LEMMA SnapshotsAgree ==
    ASSUME NEW dir, Sound(dir, {"field", "field_reserves"}), "field" \in DOMAIN dir,
           NEW f \in SetOf(Field(dir).rows), NEW chained,
           chained = IF "field_reserves" \in DOMAIN dir
                       THEN SetOf(ReservesChain(dir, "field_reserves").rows) ELSE {}
    PROVE  SnapshotAgrees(f, chained)
<1> DEFINE rows == Rows(dir, "field_reserves")
<1>1. "fldNpdidField" \in dir["field"].cols
  BY StemsOfHistories DEF Sound, KeyColumns
<1>2. PICK i \in DOMAIN dir["field"].rows :
        /\ f["fldNpdidField"] = dir["field"].rows[i]["fldNpdidField"]
        /\ \A c \in FieldCellColumns : f[c] = FieldCell(dir, i, c)
  BY <1>1, FieldRows DEF Sound
<1>3. PICK id : id = dir["field"].rows[i]["fldNpdidField"] OBVIOUS
<1>4. /\ f["fldReservesDate"] = FieldCell(dir, i, "fldReservesDate")
      /\ f["fldReservesVersion"] = FieldCell(dir, i, "fldReservesVersion")
      /\ f["fldRecoverableOE"] = FieldCell(dir, i, "fldRecoverableOE")
  BY <1>2 DEF FieldCellColumns, FieldReserveColumns
<1>5. CASE "field_reserves" \notin DOMAIN dir
  <2>1. LatestReserves(<<>>, id) = 0
    <3>1. \A T : {j \in DOMAIN <<>> : T} = {} OBVIOUS
    <3> QED BY <3>1 DEF LatestReserves
  <2>2. FieldCell(dir, i, "fldReservesDate") = NoDate
    BY <1>3, <1>5, <2>1 DEF FieldCell, FromLatest, Rows
  <2> QED BY <1>4, <1>5, <2>2 DEF SnapshotAgrees
<1>6. CASE "field_reserves" \in DOMAIN dir
  <2>1. PICK t : t = dir["field_reserves"] OBVIOUS
  <2>2. PICK u : u = ReservesChain(dir, "field_reserves") OBVIOUS
  <2>3. IsTable(t) /\ KeyColumns("field_reserves") \subseteq t.cols /\ t.rows = rows
    BY <1>6, <2>1 DEF Sound, Rows
  <2>4. HasVersions(rows) BY <2>3, ReservesHaveVersions
  <2> HIDE DEF rows
  <2>5. PICK last : last = LastAt(rows, id) OBVIOUS
  <2>6. /\ DOMAIN u.rows = DOMAIN rows
        /\ \A j \in DOMAIN rows :
             /\ \A c \in KeyColumns("field_reserves") : u.rows[j][c] = rows[j][c]
             /\ u.rows[j]["existsFrom"] = Day(rows[j], "fldDateOffResEstDisplay")
             /\ u.rows[j]["existsFrom"] # NoDate =>
                  u.rows[j]["existsTo"] = NextVersionDay(rows, ReservesSpec, j)
    BY <2>1, <2>2, <2>3, ChainRows
  <2>7. {"fldNpdidField", "fldVersion", "fldRecoverableOE"} \subseteq KeyColumns("field_reserves")
    BY StemsOfHistories DEF KeyColumns
  <2>8. \A j \in DOMAIN rows : /\ u.rows[j]["fldNpdidField"] = rows[j]["fldNpdidField"]
                               /\ u.rows[j]["fldVersion"] = Day(rows[j], "fldVersion")
                               /\ u.rows[j]["fldRecoverableOE"] = Day(rows[j], "fldRecoverableOE")
    BY <2>3, <2>6, <2>7 DEF IsTable, Day
  <2>9. \A j \in DOMAIN rows : u.rows[j]["fldNpdidField"] = id /\ u.rows[j]["existsFrom"] # NoDate
                                 <=> j \in DatedAt(rows, id)
    BY <2>6, <2>8 DEF DatedAt
  <2>10. \A j \in DatedAt(rows, id) : u.rows[j]["existsTo"] = NoDate <=> j \in last
    <3>1. \A j \in DatedAt(rows, id) :
            NextVersionDay(rows, ReservesSpec, j) = NoDate <=> LaterAt(rows, id, j) = {}
      BY <2>4, InForceIsLast
    <3>2. \A j \in DatedAt(rows, id) : j \in DOMAIN rows BY DEF DatedAt
    <3> QED BY <2>5, <2>6, <2>9, <3>1, <3>2 DEF LastAt
  <2>11. PICK chain : chain = {r \in chained : r["fldNpdidField"] = id /\ r["existsFrom"] # NoDate}
    OBVIOUS
  <2>12. chain = {u.rows[j] : j \in DatedAt(rows, id)}
    <3>1. chained = {u.rows[j] : j \in DOMAIN rows} BY <1>6, <2>2, <2>6 DEF SetOf
    <3>2. DatedAt(rows, id) \subseteq DOMAIN rows BY DEF DatedAt
    <3> QED BY <2>9, <2>11, <3>1, <3>2
  <2>13. PICK inForce : inForce = {r \in chain : r["existsTo"] = NoDate} OBVIOUS
  <2>14. inForce = {u.rows[j] : j \in last}
    <3>1. last \subseteq DatedAt(rows, id) BY <2>5 DEF LastAt
    <3> QED BY <2>10, <2>12, <2>13, <3>1
  <2>15. PICK top : top = TopAt(rows, id) OBVIOUS
  <2>16. /\ last \subseteq top /\ top \subseteq DatedAt(rows, id) /\ top \subseteq DOMAIN rows
         /\ DatedAt(rows, id) # {} => last # {}
    <3>1. top \subseteq DatedAt(rows, id) /\ DatedAt(rows, id) \subseteq DOMAIN rows
      BY <2>15 DEF TopAt, DatedAt
    <3> QED BY <2>4, <2>5, <2>15, <3>1, LastVersion, LastIsTop
  <2>17. PICK n : /\ top # {} => n \in top
                  /\ \A c : FromLatest(dir, id, c) = IF top = {} THEN NoDate ELSE Day(rows[n], c)
                  /\ f["fldReservesDate"] = FromLatest(dir, id, "fldDateOffResEstDisplay")
                  /\ f["fldReservesVersion"] = FromLatest(dir, id, "fldVersion")
                  /\ f["fldRecoverableOE"] = FromLatest(dir, id, "fldRecoverableOE")
    <3>1. rows = Rows(dir, "field_reserves") BY DEF rows
    <3>2. PICK n : /\ top # {} => n \in top
                   /\ \A c : FromLatest(dir, id, c) = IF top = {} THEN NoDate ELSE Day(rows[n], c)
                   /\ FieldCell(dir, i, "fldReservesDate")
                        = FromLatest(dir, id, "fldDateOffResEstDisplay")
                   /\ FieldCell(dir, i, "fldReservesVersion") = FromLatest(dir, id, "fldVersion")
                   /\ FieldCell(dir, i, "fldRecoverableOE") = FromLatest(dir, id, "fldRecoverableOE")
      BY <1>3, <2>4, <2>15, <3>1, SnapshotCells, Zenon
    <3> QED BY <1>4, <3>2, Zenon
  <2>18. f["fldNpdidField"] = id BY <1>2, <1>3
  <2>19. CASE top = {}
    <3>1. DatedAt(rows, id) = {} BY <2>16, <2>19
    <3>2. chain = {} BY <2>12, <3>1
    <3> QED BY <2>11, <2>17, <2>18, <2>19, <3>2 DEF SnapshotAgrees
  <2>20. CASE top # {}
    <3>1. /\ n \in top /\ n \in DatedAt(rows, id) /\ n \in DOMAIN rows
          /\ f["fldReservesDate"] = Day(rows[n], "fldDateOffResEstDisplay")
          /\ f["fldReservesVersion"] = Day(rows[n], "fldVersion")
          /\ f["fldRecoverableOE"] = Day(rows[n], "fldRecoverableOE")
      BY <2>16, <2>17, <2>20
    <3>2. PICK j \in last : TRUE BY <2>16, <3>1
    <3>3. chain # {} /\ inForce # {} BY <2>12, <2>14, <3>1, <3>2
    <3> DEFINE SameRank(r) == /\ r["existsFrom"] = f["fldReservesDate"]
                              /\ RankNumber(r["fldVersion"]) = RankNumber(f["fldReservesVersion"])
    <3>4. \A k \in top : SameRank(u.rows[k]) BY <2>4, <2>6, <2>8, <2>15, <2>16, <3>1, LastIsTop
    <3>5. \A r \in inForce : SameRank(r) BY <2>14, <2>16, <3>4
    <3>6. ASSUME \A r \in chain : SameRank(r) => r["fldVersion"] = f["fldReservesVersion"]
          PROVE  \E r \in inForce : r["fldRecoverableOE"] = f["fldRecoverableOE"]
      <4>1. j \in DatedAt(rows, id) /\ j \in DOMAIN rows BY <2>16
      <4>2. u.rows[j]["fldVersion"] = f["fldReservesVersion"]
        BY <2>12, <2>16, <3>4, <3>6, <4>1
      <4>3. Day(rows[j], "fldVersion") = Day(rows[n], "fldVersion") BY <2>8, <3>1, <4>1, <4>2
      <4>4. n \in last BY <2>4, <2>5, <2>15, <3>1, <4>3, LastIsTop
      <4> QED BY <2>8, <2>14, <3>1, <4>4
    <3> HIDE DEF SameRank
    <3>7. /\ inForce # {}
          /\ \A r \in inForce : SameRank(r)
          /\ (\A r \in chain : SameRank(r) => r["fldVersion"] = f["fldReservesVersion"])
               => \E r \in inForce : r["fldRecoverableOE"] = f["fldRecoverableOE"]
      BY <3>3, <3>5, <3>6
    <3> QED BY <2>11, <2>13, <2>18, <3>3, <3>7 DEF SnapshotAgrees, SameRank
  <2> QED BY <2>19, <2>20
<1> QED BY <1>5, <1>6

(***************************************************************************)
(* The links and candidates of the enhancement.                            *)
(***************************************************************************)
LEMMA OnlyIsSound ==
    ASSUME NEW dir, NEW stems, Sound(dir, stems)
    PROVE  Sound(Only(dir, stems), stems)
BY OnlyIsWhatItReads DEF Sound

Known(dir) == DiscoveryIds(dir) \ {NoId}
Settled(dir) == {id \in Known(dir) : ~Conflicting(dir, id)}

LinksFor(dir, id) == LinksOf(id, CandidatesOf(dir, id), PublishedPlays(dir, id))
DiagnosticsFor(dir, id) == DiagnosticsOf(id, CandidatesOf(dir, id), PublishedPlays(dir, id))

LEMMA EnhancedAre ==
    ASSUME NEW dir
    PROVE  /\ EnhancedRows(dir, "_derived_discovery_play")
                = UNION {LinksFor(dir, id) : id \in Settled(dir)}
           /\ EnhancedRows(dir, "_derived_discovery_play_candidate")
                = (UNION {DiagnosticsFor(dir, id) : id \in Settled(dir)})
                    \cup {ConflictOf(id) : id \in Known(dir) \ Settled(dir)}
           /\ EnhancedRows(dir, "_derived_field_play") = FieldLinks(dir)
<1>1. PICK links : links = UNION {LinksFor(dir, id) : id \in Settled(dir)} OBVIOUS
<1>2. PICK candidates : candidates = (UNION {DiagnosticsFor(dir, id) : id \in Settled(dir)})
                            \cup {ConflictOf(id) : id \in Known(dir) \ Settled(dir)}
  OBVIOUS
<1>3. ASSUME NEW stem
      PROVE  EnhancedRows(dir, stem) =
               CASE stem = "_derived_discovery_play" ->
                      UNION {LinksFor(dir, id) : id \in Settled(dir)}
                 [] stem = "_derived_discovery_play_candidate" ->
                      (UNION {DiagnosticsFor(dir, id) : id \in Settled(dir)})
                        \cup {ConflictOf(id) : id \in Known(dir) \ Settled(dir)}
                 [] stem = "_derived_field_play" -> FieldLinks(dir)
  BY Zenon DEF EnhancedRows, LinksFor, DiagnosticsFor, Settled, Known
<1>4. ASSUME NEW stem
      PROVE  EnhancedRows(dir, stem) =
               CASE stem = "_derived_discovery_play" -> links
                 [] stem = "_derived_discovery_play_candidate" -> candidates
                 [] stem = "_derived_field_play" -> FieldLinks(dir)
  BY <1>1, <1>2, <1>3, Zenon
<1>5. /\ EnhancedRows(dir, "_derived_discovery_play") = links
      /\ EnhancedRows(dir, "_derived_discovery_play_candidate") = candidates
      /\ EnhancedRows(dir, "_derived_field_play") = FieldLinks(dir)
  BY <1>4
<1> QED BY <1>1, <1>2, <1>5, Zenon

\* A candidate and an assignment of one play are the same row of the catalog.
LEMMA AssignedOrNot ==
    ASSUME NEW cs, NEW published
    PROVE  /\ Assigned(cs, published) \subseteq cs /\ Unassigned(cs, published) \subseteq cs
           /\ Assigned(cs, published) \cap Unassigned(cs, published) = {}
           /\ \A c \in Unassigned(cs, published) : c.play \notin published
BY DEF Assigned, Unassigned, Containing, Nearest

LEMMA LinkPlays ==
    ASSUME NEW id, NEW cs, NEW published, NEW l \in LinksOf(id, cs, published)
    PROVE  /\ l["dscNpdidDiscovery"] = id
           /\ \/ l["plyNPDID"] \in published
              \/ \E c \in Assigned(cs, published) : l["plyNPDID"] = c.play
<1>1. CASE \E p \in published : l = PublishedLink(id, p) BY <1>1 DEF PublishedLink
<1>2. CASE \E c \in FirstPerPlay(Assigned(cs, published)) : l = InferredLink(id, cs, c)
  BY <1>2 DEF InferredLink, FirstPerPlay
<1> QED BY <1>1, <1>2 DEF LinksOf

LEMMA DiagnosticPlays ==
    ASSUME NEW id, NEW cs, NEW published, NEW d \in DiagnosticsOf(id, cs, published)
    PROVE  /\ d["dscNpdidDiscovery"] = id
           /\ \E c \in Unassigned(cs, published) : d["plyNPDID"] = c.play
BY DEF DiagnosticsOf, Diagnostic, FirstPerPlay

CatalogRows(dir, play) == {i \in LoadPlays(dir) : Rows(dir, "play")[i]["plyNPDID"] = play}

LEMMA CandidatesOfPlay ==
    ASSUME NEW dir, IsRows(Rows(dir, "play")), NEW well,
           NEW c \in Candidates(dir, well), NEW d \in Candidates(dir, well), c.play = d.play,
           Cardinality(CatalogRows(dir, c.play)) <= 1
    PROVE  c = d
<1>1. PICK i \in LoadPlays(dir) : c = Candidate(dir, well, i) BY DEF Candidates
<1>2. PICK j \in LoadPlays(dir) : d = Candidate(dir, well, j) BY DEF Candidates
<1>3. c.play = Rows(dir, "play")[i]["plyNPDID"] /\ d.play = Rows(dir, "play")[j]["plyNPDID"]
  BY <1>1, <1>2 DEF Candidate
<1>4. {i, j} \subseteq CatalogRows(dir, c.play) BY <1>3 DEF CatalogRows
<1>5. IsFiniteSet(CatalogRows(dir, c.play))
  <2>1. CatalogRows(dir, c.play) \subseteq DOMAIN Rows(dir, "play")
    BY DEF CatalogRows, LoadPlays
  <2> QED BY <2>1, RowsAreNumbered, FS_Subset
<1>6. i = j
  <2> SUFFICES ASSUME i # j PROVE FALSE OBVIOUS
  <2>1. Cardinality({i, j}) = 2
    <3>1. IsFiniteSet({i}) /\ Cardinality({i}) = 1 BY FS_Singleton
    <3>2. Cardinality({i} \cup {j}) = Cardinality({i}) + 1 BY <3>1, FS_AddElement
    <3>3. {i} \cup {j} = {i, j} OBVIOUS
    <3> QED BY <3>1, <3>2, <3>3
  <2>2. Cardinality({i, j}) <= Cardinality(CatalogRows(dir, c.play)) BY <1>4, <1>5, FS_Subset
  <2>3. Cardinality(CatalogRows(dir, c.play)) \in Nat BY <1>5, FiniteCount
  <2> QED BY <2>1, <2>2, <2>3
<1> QED BY <1>1, <1>2, <1>6

\* An assigned pair is never a candidate pair.
LEMMA LinksAreDisjoint ==
    ASSUME NEW dir, IsRows(Rows(dir, "play")),
           NEW l \in EnhancedRows(dir, "_derived_discovery_play"),
           NEW c \in EnhancedRows(dir, "_derived_discovery_play_candidate"),
           Cardinality(CatalogRows(dir, l["plyNPDID"])) <= 1
    PROVE  <<l["dscNpdidDiscovery"], l["plyNPDID"]>> # <<c["dscNpdidDiscovery"], c["plyNPDID"]>>
<1> SUFFICES ASSUME l["dscNpdidDiscovery"] = c["dscNpdidDiscovery"], l["plyNPDID"] = c["plyNPDID"]
             PROVE  FALSE
  OBVIOUS
<1>1. PICK id \in Settled(dir) : l \in LinksFor(dir, id) BY EnhancedAre
<1> DEFINE cs == CandidatesOf(dir, id)
           published == PublishedPlays(dir, id)
<1>2. /\ l["dscNpdidDiscovery"] = id
      /\ \/ l["plyNPDID"] \in published
         \/ \E a \in Assigned(cs, published) : l["plyNPDID"] = a.play
  BY <1>1, LinkPlays DEF LinksFor
<1>3. c \notin {ConflictOf(other) : other \in Known(dir) \ Settled(dir)}
  <2> SUFFICES ASSUME NEW other \in Known(dir) \ Settled(dir), c = ConflictOf(other) PROVE FALSE
    OBVIOUS
  <2>1. c["dscNpdidDiscovery"] = other BY DEF ConflictOf, Diagnostic
  <2> QED BY <1>2, <2>1
<1>4. PICK other \in Settled(dir) : c \in DiagnosticsFor(dir, other)
  <2>1. PICK A, B : /\ A = {DiagnosticsFor(dir, other) : other \in Settled(dir)}
                    /\ B = {ConflictOf(other) : other \in Known(dir) \ Settled(dir)}
    OBVIOUS
  <2>2. c \in (UNION A) \cup B BY <2>1, EnhancedAre, Zenon
  <2>3. c \notin B BY <1>3, <2>1, Zenon
  <2>4. PICK D \in A : c \in D BY <2>2, <2>3
  <2> QED BY <2>1, <2>4
<1>5. c["dscNpdidDiscovery"] = other BY <1>4, DiagnosticPlays DEF DiagnosticsFor
<1>6. PICK u \in Unassigned(cs, published) : c["plyNPDID"] = u.play
  <2>1. other = id BY <1>2, <1>5
  <2>2. c \in DiagnosticsOf(id, cs, published) BY <1>4, <2>1 DEF DiagnosticsFor
  <2> HIDE DEF cs, published
  <2> QED BY <2>2, DiagnosticPlays
<1>7. PICK a \in Assigned(cs, published) : a.play = u.play BY <1>2, <1>6, AssignedOrNot
<1>8. a \in cs /\ u \in cs /\ a # u BY AssignedOrNot
<1>9. a = u BY <1>6, <1>7, <1>8, CandidatesOfPlay DEF CandidatesOf
<1> QED BY <1>8, <1>9

LEMMA CoveredFinite ==
    ASSUME NEW S, IsFiniteSet(S), NEW f, NEW T, T \subseteq {f[x] : x \in S}
    PROVE  IsFiniteSet(T)
<1>1. PICK U : U = {f[x] : x \in S} OBVIOUS
<1>2. IsFiniteSet(U) BY <1>1, ImageFinite
<1> QED BY <1>1, <1>2, FS_Subset

LEMMA RowSetFinite ==
    ASSUME NEW dir, NEW stems, Sound(dir, stems), NEW s \in stems
    PROVE  IsFiniteSet(RowSet(dir, s))
<1>1. RowSet(dir, s) = {Rows(dir, s)[i] : i \in DOMAIN Rows(dir, s)} BY DEF RowSet
<1>2. IsFiniteSet(DOMAIN Rows(dir, s)) BY RowsOfTable, RowsAreNumbered
<1> QED BY <1>1, <1>2, ImageFinite

LEMMA CandidatesFinite ==
    ASSUME NEW dir, IsRows(Rows(dir, "play")), NEW well
    PROVE  IsFiniteSet(Candidates(dir, well))
<1>1. IsFiniteSet(LoadPlays(dir))
  <2>1. LoadPlays(dir) \subseteq DOMAIN Rows(dir, "play") BY DEF LoadPlays
  <2> QED BY <2>1, RowsAreNumbered, FS_Subset
<1>2. PICK f : f = [i \in LoadPlays(dir) |-> Candidate(dir, well, i)] OBVIOUS
<1>3. Candidates(dir, well) \subseteq {f[i] : i \in LoadPlays(dir)} BY <1>2 DEF Candidates
<1> QED BY <1>1, <1>3, CoveredFinite

LEMMA PublishedFinite ==
    ASSUME NEW dir, NEW idCol, NEW nameCol, NEW id,
           NEW examples \in {PublishedDiscoveryExamples, PublishedFieldExamples}
    PROVE  IsFiniteSet(Published(dir, examples, idCol, nameCol, id))
<1>1. IsFiniteSet(examples)
  <2>1. PICK a, b, c : /\ PublishedDiscoveryExamples = {a, b} /\ PublishedFieldExamples = {c}
    BY DEF PublishedDiscoveryExamples, PublishedFieldExamples
  <2>2. IsFiniteSet({a} \cup {b}) /\ IsFiniteSet({c}) BY FS_Singleton, FS_AddElement
  <2>3. {a} \cup {b} = {a, b} OBVIOUS
  <2> QED BY <2>1, <2>2, <2>3
<1>2. PICK f : f = [e \in examples |-> e.play] OBVIOUS
<1>3. Published(dir, examples, idCol, nameCol, id) \subseteq {f[e] : e \in examples}
  BY <1>2 DEF Published, ExamplesFor
<1> QED BY <1>1, <1>3, CoveredFinite

LEMMA LinksFinite ==
    ASSUME NEW id, NEW cs, IsFiniteSet(cs), NEW published, IsFiniteSet(published)
    PROVE  IsFiniteSet(LinksOf(id, cs, published)) /\ IsFiniteSet(DiagnosticsOf(id, cs, published))
<1>1. PICK f : f = [p \in published |-> PublishedLink(id, p)] OBVIOUS
<1>2. PICK g : g = [c \in cs |-> InferredLink(id, cs, c)] OBVIOUS
<1>3. PICK h : h = [c \in cs |-> Diagnostic(id, c.play,
                IF Containing(cs) # {} THEN "not_containing" ELSE "farther_fallback_candidate",
                c.distance)] OBVIOUS
<1>4. /\ FirstPerPlay(Assigned(cs, published)) \subseteq cs
      /\ FirstPerPlay(Unassigned(cs, published)) \subseteq cs
  BY AssignedOrNot DEF FirstPerPlay
<1>5. PICK A : A = {PublishedLink(id, p) : p \in published} OBVIOUS
<1>6. PICK B : B = {InferredLink(id, cs, c) : c \in FirstPerPlay(Assigned(cs, published))} OBVIOUS
<1>7. A \subseteq {f[p] : p \in published} BY <1>1, <1>5
<1>8. B \subseteq {g[c] : c \in cs} BY <1>2, <1>4, <1>6
<1>9. DiagnosticsOf(id, cs, published) \subseteq {h[c] : c \in cs} BY <1>3, <1>4 DEF DiagnosticsOf
<1>10. IsFiniteSet(A \cup B) BY <1>7, <1>8, CoveredFinite, FS_Union
<1>11. IsFiniteSet(DiagnosticsOf(id, cs, published)) BY <1>9, CoveredFinite
<1> QED BY <1>5, <1>6, <1>10, <1>11 DEF LinksOf

LEMMA EnhancedFinite ==
    ASSUME NEW dir, Sound(dir, EnhanceSources), NEW stem \in EnhanceStems
    PROVE  IsFiniteSet(EnhancedRows(dir, stem))
<1>1. IsFiniteSet(RowSet(dir, "discovery")) /\ IsRows(Rows(dir, "play"))
  BY RowSetFinite, RowsOfTable DEF EnhanceSources
<1>2. IsFiniteSet(Known(dir)) /\ IsFiniteSet(FieldIds(dir))
  <2>1. PICK f : f = [row \in RowSet(dir, "discovery") |-> row["dscNpdidDiscovery"]] OBVIOUS
  <2>2. PICK g : g = [row \in RowSet(dir, "discovery") |-> Id(row, "fldNpdidField")] OBVIOUS
  <2>3. Known(dir) \subseteq {f[row] : row \in RowSet(dir, "discovery")}
    BY <2>1 DEF Known, DiscoveryIds
  <2>4. FieldIds(dir) \subseteq {g[row] : row \in RowSet(dir, "discovery")}
    BY <2>2 DEF FieldIds
  <2> QED BY <1>1, <2>3, <2>4, CoveredFinite
<1>3. \A id : IsFiniteSet(LinksFor(dir, id)) /\ IsFiniteSet(DiagnosticsFor(dir, id))
  BY <1>1, CandidatesFinite, PublishedFinite, LinksFinite
     DEF LinksFor, DiagnosticsFor, CandidatesOf, PublishedPlays
<1>4. IsFiniteSet(Settled(dir))
  BY <1>2, FS_Subset DEF Settled
<1>5. IsFiniteSet(UNION {LinksFor(dir, id) : id \in Settled(dir)})
  <2>1. PICK f : f = [id \in Settled(dir) |-> LinksFor(dir, id)] OBVIOUS
  <2>2. {LinksFor(dir, id) : id \in Settled(dir)} = {f[id] : id \in Settled(dir)} BY <2>1
  <2>3. \A id \in Settled(dir) : IsFiniteSet(f[id]) BY <1>3, <2>1
  <2>4. IsFiniteSet(UNION {f[id] : id \in Settled(dir)}) BY <1>4, <2>3, UnionFinite
  <2> QED BY <2>2, <2>4, Zenon
<1>6. IsFiniteSet(UNION {DiagnosticsFor(dir, id) : id \in Settled(dir)})
  <2>1. PICK f : f = [id \in Settled(dir) |-> DiagnosticsFor(dir, id)] OBVIOUS
  <2>2. {DiagnosticsFor(dir, id) : id \in Settled(dir)} = {f[id] : id \in Settled(dir)} BY <2>1
  <2>3. \A id \in Settled(dir) : IsFiniteSet(f[id]) BY <1>3, <2>1
  <2>4. IsFiniteSet(UNION {f[id] : id \in Settled(dir)}) BY <1>4, <2>3, UnionFinite
  <2> QED BY <2>2, <2>4, Zenon
<1>7. IsFiniteSet({ConflictOf(id) : id \in Known(dir) \ Settled(dir)})
  <2>1. PICK f : f = [id \in Known(dir) |-> ConflictOf(id)] OBVIOUS
  <2>2. {ConflictOf(id) : id \in Known(dir) \ Settled(dir)} \subseteq {f[id] : id \in Known(dir)}
    BY <2>1
  <2> QED BY <1>2, <2>2, CoveredFinite
<1>8. IsFiniteSet(FieldLinks(dir))
  <2> DEFINE Plays(f) == Published(dir, PublishedFieldExamples, "fldNpdidField", "fldName", f)
             LinksIn(f) == {[fldNpdidField |-> f, plyNPDID |-> p,
                             match_method |-> "published_example"] : p \in Plays(f)}
  <2>1. \A f : IsFiniteSet(LinksIn(f))
    <3> TAKE f
    <3>1. IsFiniteSet(Plays(f)) BY PublishedFinite
    <3>2. PICK g : g = [p \in Plays(f) |-> [fldNpdidField |-> f, plyNPDID |-> p,
                                            match_method |-> "published_example"]]
      OBVIOUS
    <3>3. LinksIn(f) \subseteq {g[p] : p \in Plays(f)} BY <3>2
    <3> HIDE DEF Plays, LinksIn
    <3> QED BY <3>1, <3>3, CoveredFinite
  <2>2. FieldLinks(dir) = UNION {LinksIn(f) : f \in FieldIds(dir)} BY Zenon DEF FieldLinks
  <2> HIDE DEF LinksIn
  <2>3. PICK g : g = [f \in FieldIds(dir) |-> LinksIn(f)] OBVIOUS
  <2>4. {LinksIn(f) : f \in FieldIds(dir)} = {g[f] : f \in FieldIds(dir)} BY <2>3
  <2>5. \A f \in FieldIds(dir) : IsFiniteSet(g[f]) BY <2>1, <2>3
  <2>6. IsFiniteSet(UNION {g[f] : f \in FieldIds(dir)}) BY <1>2, <2>5, UnionFinite
  <2> QED BY <2>2, <2>4, <2>6, Zenon
<1>9. stem \in {"_derived_discovery_play", "_derived_discovery_play_candidate",
                "_derived_field_play"}
  BY DEF EnhanceStems, EnhanceCols
<1>10. PICK A, B : /\ A = UNION {DiagnosticsFor(dir, id) : id \in Settled(dir)}
                   /\ B = {ConflictOf(id) : id \in Known(dir) \ Settled(dir)}
  OBVIOUS
<1>11. IsFiniteSet(A \cup B) BY <1>6, <1>7, <1>10, FS_Union
<1>12. EnhancedRows(dir, "_derived_discovery_play_candidate") = A \cup B
  <2>1. EnhancedRows(dir, "_derived_discovery_play_candidate")
          = (UNION {DiagnosticsFor(dir, id) : id \in Settled(dir)})
              \cup {ConflictOf(id) : id \in Known(dir) \ Settled(dir)}
    BY EnhancedAre, Zenon
  <2> QED BY <1>10, <2>1, Zenon
<1>13. /\ EnhancedRows(dir, "_derived_discovery_play")
            = UNION {LinksFor(dir, id) : id \in Settled(dir)}
       /\ EnhancedRows(dir, "_derived_field_play") = FieldLinks(dir)
  BY EnhancedAre, Zenon
<1>14. /\ IsFiniteSet(EnhancedRows(dir, "_derived_discovery_play"))
       /\ IsFiniteSet(EnhancedRows(dir, "_derived_discovery_play_candidate"))
       /\ IsFiniteSet(EnhancedRows(dir, "_derived_field_play"))
  BY <1>5, <1>8, <1>11, <1>12, <1>13, Zenon
<1> QED BY <1>9, <1>14(***************************************************************************)
(* Status timelines (status.rs).                                           *)
(***************************************************************************)
\* Events in order of day.
AreEvents(es) ==
    /\ IsRows(es)
    /\ \A i \in DOMAIN es : es[i].from \in Nat
    /\ \A i, j \in DOMAIN es : i < j => es[i].from <= es[j].from

\* The dates of a timeline, counted ones at Counted, in order of day and column.
SoonerOf(days, K) == {p \in K \X K : days[p[1]] < days[p[2]] \/ (days[p[1]] = days[p[2]] /\ p[1] < p[2])}

SoonerThan(days, K, x) == {y \in K : days[y] < days[x] \/ (days[y] = days[x] /\ y < x)}

SoonestAt(days, K, n) == CHOOSE x \in K : Cardinality(SoonerThan(days, K, x)) = n - 1

CountedOf(days, labels, current) ==
    {i \in DOMAIN days : days[i] # NoDate /\ (labels[i] = "RE-CLASS" => current \in ReclassStatuses)}

EventsAt(days, labels, current, K) ==
    [n \in 1..Cardinality(K) |->
        [from   |-> days[NthBy(SoonerOf(days, K), K, n)],
         status |-> IF labels[NthBy(SoonerOf(days, K), K, n)] = "RE-CLASS"
                      THEN current ELSE labels[NthBy(SoonerOf(days, K), K, n)],
         basis  |-> "reported"]]

LEMMA SoonerOrders ==
    ASSUME NEW K \in SUBSET Nat, NEW days, \A i \in K : days[i] \in Nat
    PROVE  Orders(SoonerOf(days, K), K)
<1>1. \A x, y \in K : <<x, y>> \in SoonerOf(days, K)
                        <=> days[x] < days[y] \/ (days[x] = days[y] /\ x < y)
  BY DEF SoonerOf
<1> QED BY <1>1 DEF Orders

LEMMA DatedIs ==
    ASSUME NEW days, NEW labels, NEW current, NEW K, K = CountedOf(days, labels, current)
    PROVE  Dated(days, labels, current) = EventsAt(days, labels, current, K)
<1> DEFINE Sooner(i, j) == days[i] < days[j] \/ (days[i] = days[j] /\ i < j)
<1>1. PICK order : order = InOrder(K, Sooner) BY Zenon
<1>2. order = [n \in 1..Cardinality(K) |-> NthBy(SoonerOf(days, K), K, n)]
  <2>1. \A x \in K : SoonerThan(days, K, x) = Ahead(SoonerOf(days, K), K, x)
    BY DEF SoonerThan, SoonerOf, Ahead
  <2>2. \A n : SoonestAt(days, K, n) = NthBy(SoonerOf(days, K), K, n)
    BY <2>1, Zenon DEF SoonestAt, NthBy
  <2>3. order = [n \in 1..Cardinality(K) |-> SoonestAt(days, K, n)]
    BY <1>1, Zenon DEF InOrder, SoonestAt, SoonerThan
  <2> QED BY <2>2, <2>3, Zenon
<1>3. Dated(days, labels, current) =
        [n \in DOMAIN order |->
           [from   |-> days[order[n]],
            status |-> IF labels[order[n]] = "RE-CLASS" THEN current ELSE labels[order[n]],
            basis  |-> "reported"]]
  BY <1>1, Zenon DEF Dated, CountedOf
<1> QED BY <1>2, <1>3, Zenon DEF EventsAt

\* The events that are counted, in order of day; each has the label of its
\* column, or the current status under RE-CLASS.
LEMMA DatedAscends ==
    ASSUME NEW days, DOMAIN days \subseteq Nat, IsFiniteSet(DOMAIN days),
           \A i \in DOMAIN days : days[i] \in Nat, NEW labels, NEW current, NEW es,
           es = Dated(days, labels, current)
    PROVE  /\ AreEvents(es)
           /\ \A n \in DOMAIN es : \E i \in DOMAIN days :
                es[n].status = IF labels[i] = "RE-CLASS" THEN current ELSE labels[i]
<1>1. PICK K : K = CountedOf(days, labels, current) OBVIOUS
<1>2. PICK before : before = SoonerOf(days, K) OBVIOUS
<1>3. K \in SUBSET (DOMAIN days) BY <1>1 DEF CountedOf
<1>4. IsFiniteSet(K) /\ K \in SUBSET Nat BY <1>3, FS_Subset
<1>5. Orders(before, K) BY <1>2, <1>3, <1>4, SoonerOrders
<1>6. PICK C : C = Cardinality(K) OBVIOUS
<1>7. /\ C \in Nat
      /\ \A n \in 1..C : NthBy(before, K, n) \in K
      /\ \A m, n \in 1..C : m < n => <<NthBy(before, K, m), NthBy(before, K, n)>> \in before
  BY <1>4, <1>5, <1>6, NthByOrders
<1>8. es = EventsAt(days, labels, current, K) BY <1>1, DatedIs
<1>9. /\ DOMAIN es = 1..C /\ es = [n \in 1..C |-> es[n]]
      /\ \A n \in 1..C :
           /\ es[n].from = days[NthBy(before, K, n)]
           /\ es[n].status = IF labels[NthBy(before, K, n)] = "RE-CLASS"
                               THEN current ELSE labels[NthBy(before, K, n)]
  BY <1>2, <1>6, <1>8 DEF EventsAt
<1>10. IsRows(es) BY <1>7, <1>9, NumberedAreRows
<1>11. \A n \in DOMAIN es : es[n].from \in Nat BY <1>3, <1>7, <1>9
<1>12. ASSUME NEW m \in DOMAIN es, NEW n \in DOMAIN es, m < n PROVE es[m].from <= es[n].from
  <2>1. <<NthBy(before, K, m), NthBy(before, K, n)>> \in before BY <1>7, <1>9, <1>12
  <2>2. \A x, y : <<x, y>> \in before => days[x] <= days[y] BY <1>2, <1>3 DEF SoonerOf
  <2> QED BY <1>9, <2>1, <2>2
<1>13. ASSUME NEW n \in DOMAIN es
       PROVE  \E i \in DOMAIN days :
                es[n].status = IF labels[i] = "RE-CLASS" THEN current ELSE labels[i]
  BY <1>3, <1>7, <1>9
<1> QED BY <1>10, <1>11, <1>12, <1>13 DEF AreEvents

\* The current status at the end of the events, unless it is none or has
\* been reached by a re-classification.
LEMMA ClosedAscends ==
    ASSUME NEW es, AreEvents(es), NEW current, NEW all, all = Closed(es, current)
    PROVE  /\ AreEvents(all) /\ (all = <<>> <=> es = <<>>)
           /\ all # <<>> =>
                \/ current = Blank \/ all[Len(all)].status = current
                \/ current \in ReclassStatuses /\ \E i \in DOMAIN es : es[i].status = current
<1>1. /\ Len(es) \in Nat /\ DOMAIN es = 1..Len(es) /\ es = [i \in 1..Len(es) |-> es[i]]
  BY RowsAreNumbered DEF AreEvents
<1>2. PICK n : n = Len(es) OBVIOUS
<1>3. es = <<>> <=> n = 0 BY <1>1, <1>2
<1>4. PICK last : last = [from |-> es[n].from, status |-> current, basis |-> "inferred-start"] OBVIOUS
<1>5. last.from = es[n].from /\ last.status = current BY <1>4
<1>6. CASE all = es /\ (\/ n = 0 \/ current = Blank \/ es[n].status = current
                        \/ current \in ReclassStatuses /\ \E i \in 1..n : es[i].status = current)
  BY <1>1, <1>2, <1>3, <1>6
<1>7. CASE n # 0 /\ all = [es EXCEPT ![n] = last]
  <2>1. /\ DOMAIN all = 1..n /\ all = [i \in 1..n |-> all[i]]
        /\ \A i \in 1..n : all[i] = IF i = n THEN last ELSE es[i]
    BY <1>1, <1>2, <1>7
  <2>2. IsRows(all) /\ Len(all) = n BY <1>1, <1>2, <2>1, NumberedAreRows
  <2>3. n \in 1..n BY <1>1, <1>2, <1>7
  <2>4. \A i \in 1..n : all[i].from = es[i].from BY <1>5, <2>1
  <2>5. AreEvents(all) BY <1>1, <1>2, <2>1, <2>2, <2>4 DEF AreEvents
  <2>6. all # <<>> BY <2>1, <2>3
  <2> QED BY <1>3, <1>5, <1>7, <2>1, <2>2, <2>3, <2>5, <2>6
<1>8. CASE n # 0 /\ all = Append(es, last)
  <2>1. es \in Seq(SetOf(es)) BY DEF AreEvents, IsRows
  <2>2. PICK S : S = SetOf(es) \cup {last} OBVIOUS
  <2>3. /\ all \in Seq(S) /\ Len(all) = n + 1
        /\ \A i \in 1..n : all[i] = es[i]
        /\ all[n + 1] = last
    <3>1. es \in Seq(S) /\ last \in S
      <4>1. SetOf(es) \subseteq S BY <2>2
      <4>2. \A i \in 1..Len(es) : es[i] \in S BY <1>1, <4>1 DEF SetOf
      <4> QED BY <1>1, <2>2, <4>2, SeqDef
    <3> QED BY <1>2, <1>8, <3>1, AppendProperties
  <2>4. DOMAIN all = 1..(n + 1) /\ all = [i \in 1..(n + 1) |-> all[i]]
    BY <2>3, LenProperties
  <2>5. n \in Nat /\ n + 1 \in Nat /\ n \in 1..n BY <1>1, <1>2, <1>8
  <2>6. IsRows(all) BY <2>4, <2>5, NumberedAreRows
  <2>7. \A i \in 1..(n + 1) : all[i].from = IF i = n + 1 THEN es[n].from ELSE es[i].from
    BY <1>5, <2>3, <2>5
  <2>8. AreEvents(all)
    <3>1. \A i \in 1..n : es[i].from \in Nat /\ es[i].from <= es[n].from
      BY <1>1, <1>2, <2>5 DEF AreEvents
    <3>2. \A i, j \in 1..n : i < j => es[i].from <= es[j].from BY <1>1, <1>2 DEF AreEvents
    <3>3. \A i \in DOMAIN all : all[i].from \in Nat BY <2>4, <2>5, <2>7, <3>1
    <3>4. ASSUME NEW i \in DOMAIN all, NEW j \in DOMAIN all, i < j PROVE all[i].from <= all[j].from
      <4>1. i \in 1..n /\ all[i].from = es[i].from BY <2>4, <2>5, <2>7, <3>4
      <4>2. CASE j = n + 1 BY <2>4, <2>7, <3>1, <4>1, <4>2
      <4>3. CASE j # n + 1
        <5>1. j \in 1..n /\ all[j].from = es[j].from BY <2>4, <2>5, <2>7, <4>3
        <5> QED BY <3>2, <3>4, <4>1, <5>1
      <4> QED BY <4>2, <4>3
    <3> QED BY <2>6, <3>3, <3>4 DEF AreEvents
  <2>9. all # <<>> BY <2>4, <2>5
  <2> QED BY <1>3, <1>5, <1>8, <2>3, <2>8, <2>9
<1>9. \/ all = es /\ (\/ n = 0 \/ current = Blank \/ es[n].status = current
                      \/ current \in ReclassStatuses /\ \E i \in 1..n : es[i].status = current)
      \/ n # 0 /\ all = [es EXCEPT ![n] = last]
      \/ n # 0 /\ all = Append(es, last)
  BY <1>2, <1>4, Zenon DEF Closed
<1> QED BY <1>6, <1>7, <1>8, <1>9

\* Periods without gap or overlap, of which the last is open.
Tiles(ps) ==
    /\ IsRows(ps)
    /\ \A i \in 1..(Len(ps) - 1) : ps[i].to = ps[i + 1].from /\ ps[i].from <= ps[i + 1].from
    /\ ps # <<>> => ps[Len(ps)].to = NoDate

\* The last period has the current status, unless that is none or a
\* re-classification that is or names an event of the timeline.
Reaches(ps, days, labels, current) ==
    \/ current = Blank
    \/ ps[Len(ps)].status = current
    \/ /\ current \in ReclassStatuses
       /\ \E i \in DOMAIN days : labels[i] \in {"RE-CLASS", current}

LEMMA TimelineTiles ==
    ASSUME NEW days, DOMAIN days \subseteq Nat, IsFiniteSet(DOMAIN days),
           \A i \in DOMAIN days : days[i] \in Nat, NEW labels, NEW current, NEW ps,
           ps = Timeline(days, labels, current)
    PROVE  Tiles(ps) /\ (ps # <<>> => Reaches(ps, days, labels, current))
<1>1. PICK dated : dated = Dated(days, labels, current) OBVIOUS
<1>2. PICK es : es = Closed(dated, current) OBVIOUS
<1>3. /\ AreEvents(dated)
      /\ \A n \in DOMAIN dated : \E i \in DOMAIN days :
           dated[n].status = IF labels[i] = "RE-CLASS" THEN current ELSE labels[i]
  BY <1>1, DatedAscends
<1>4. /\ AreEvents(es)
      /\ es # <<>> =>
           \/ current = Blank \/ es[Len(es)].status = current
           \/ current \in ReclassStatuses /\ \E n \in DOMAIN dated : dated[n].status = current
  BY <1>2, <1>3, ClosedAscends
<1>5. PICK N : N = Len(es) OBVIOUS
<1>6. N \in Nat /\ DOMAIN es = 1..N BY <1>4, <1>5, RowsAreNumbered DEF AreEvents
<1>7. ps = [i \in DOMAIN es |->
              [from   |-> es[i].from,
               to     |-> IF i < Len(es) THEN es[i + 1].from ELSE NoDate,
               status |-> es[i].status,
               basis  |-> es[i].basis]]
  BY <1>1, <1>2, Zenon DEF Timeline
<1>8. /\ DOMAIN ps = 1..N /\ ps = [i \in 1..N |-> ps[i]]
      /\ \A i \in 1..N : /\ ps[i].from = es[i].from /\ ps[i].status = es[i].status
                         /\ ps[i].to = IF i < N THEN es[i + 1].from ELSE NoDate
  BY <1>5, <1>6, <1>7
<1>9. IsRows(ps) /\ Len(ps) = N BY <1>6, <1>8, NumberedAreRows
<1>10. Tiles(ps)
  <2>1. ASSUME NEW i \in 1..(N - 1)
        PROVE  ps[i].to = ps[i + 1].from /\ ps[i].from <= ps[i + 1].from
    <3>1. i \in 1..N /\ i + 1 \in 1..N /\ i < i + 1 /\ i < N BY <1>6
    <3>2. es[i].from <= es[i + 1].from BY <1>4, <1>6, <3>1 DEF AreEvents
    <3> QED BY <1>8, <3>1, <3>2
  <2>2. ASSUME ps # <<>> PROVE ps[N].to = NoDate
    <3>1. N # 0 BY <1>8, <2>2
    <3>2. N \in 1..N /\ ~(N < N) BY <1>6, <3>1
    <3> QED BY <1>8, <3>2
  <2> QED BY <1>9, <2>1, <2>2 DEF Tiles
<1>11. ASSUME ps # <<>> PROVE Reaches(ps, days, labels, current)
  <2>1. N # 0 BY <1>8, <1>11
  <2>2. N \in 1..N /\ es # <<>> BY <1>6, <2>1
  <2>3. ps[Len(ps)].status = es[Len(es)].status BY <1>5, <1>8, <1>9, <2>2
  <2>4. ASSUME NEW n \in DOMAIN dated, dated[n].status = current
        PROVE  \E i \in DOMAIN days : labels[i] \in {"RE-CLASS", current}
    BY <1>3, <2>4
  <2> QED BY <1>4, <2>2, <2>3, <2>4 DEF Reaches
<1> QED BY <1>10, <1>11

\* The rows of one entity's periods.
PeriodRows(key, id, ps) == [j \in DOMAIN ps |-> PeriodRow(key, id, ps[j])]

PeriodColumns == {"status", "validFrom", "validTo", "basis"}

LEMMA PeriodRowIs ==
    ASSUME NEW key, key \notin PeriodColumns, NEW id, NEW p, NEW row, row = PeriodRow(key, id, p)
    PROVE  /\ row[key] = id /\ row["status"] = p.status
           /\ row["validFrom"] = p.from /\ row["validTo"] = p.to
BY DEF PeriodRow, PeriodCols, PeriodColumns

LEMMA PeriodRowsAre ==
    ASSUME NEW key, key \notin PeriodColumns, NEW id, NEW ps, IsRows(ps), NEW rows,
           rows = PeriodRows(key, id, ps)
    PROVE  /\ IsRows(rows) /\ Len(rows) = Len(ps) /\ DOMAIN rows = 1..Len(ps)
           /\ \A j \in 1..Len(ps) : /\ rows[j][key] = id /\ rows[j]["status"] = ps[j].status
                                    /\ rows[j]["validFrom"] = ps[j].from
                                    /\ rows[j]["validTo"] = ps[j].to
<1>1. Len(ps) \in Nat /\ DOMAIN ps = 1..Len(ps) BY RowsAreNumbered
<1>2. DOMAIN rows = 1..Len(ps) /\ rows = [j \in 1..Len(ps) |-> rows[j]]
      /\ \A j \in 1..Len(ps) : rows[j] = PeriodRow(key, id, ps[j])
  BY <1>1 DEF PeriodRows
<1>3. IsRows(rows) /\ Len(rows) = Len(ps) BY <1>1, <1>2, NumberedAreRows
<1> QED BY <1>2, <1>3, PeriodRowIs

\* In a table of periods, those of an entity the source has once are the
\* periods of its row.
LEMMA PeriodsOfOne ==
    ASSUME NEW rows, IsRows(rows), NEW key, key \notin PeriodColumns,
           NEW per, \A i \in DOMAIN rows : IsRows(per[i]),
           NEW seqs, seqs = [i \in DOMAIN rows |-> PeriodRows(key, rows[i][key], per[i])],
           NEW k \in DOMAIN rows, \A i \in DOMAIN rows : rows[i][key] = rows[k][key] => i = k,
           NEW flat, flat = FlatRows(seqs)
    PROVE  SelectedAt(flat, {i \in DOMAIN flat : flat[i][key] = rows[k][key]})
             = PeriodRows(key, rows[k][key], per[k])
<1>1. PICK N : N = Len(rows) OBVIOUS
<1>2. N \in Nat /\ DOMAIN rows = 1..N BY <1>1, RowsAreNumbered
<1>3. PICK id : id = rows[k][key] OBVIOUS
<1>4. \A i \in 1..N : seqs[i] = PeriodRows(key, rows[i][key], per[i]) BY <1>2
<1>5. Len(seqs) = N
  <2>1. seqs = [i \in 1..N |-> seqs[i]] BY <1>2
  <2> QED BY <1>2, <2>1, NumberedAreRows
<1>6. ASSUME NEW i \in 1..N
      PROVE  IsRows(seqs[i]) /\ \A r \in SetOf(seqs[i]) : r[key] = rows[i][key]
  <2>1. PICK a, v : a = seqs[i] /\ v = rows[i][key] OBVIOUS
  <2>2. IsRows(per[i]) /\ a = PeriodRows(key, v, per[i]) BY <1>2, <1>4, <2>1
  <2>3. IsRows(a) /\ DOMAIN a = 1..Len(per[i]) /\ \A j \in 1..Len(per[i]) : a[j][key] = v
    BY <2>2, PeriodRowsAre
  <2> QED BY <2>1, <2>3 DEF SetOf
<1>7. IsRows(flat) /\ SetOf(flat) = AllOf(seqs, N) BY <1>2, <1>5, <1>6, FlatElements
<1>8. PICK hits : hits = {r \in AllOf(seqs, N) : r[key] = id} OBVIOUS
<1>9. ASSUME NEW j \in 1..N, NEW r \in SetOf(seqs[j]) PROVE r \in hits <=> j = k
  <2>1. r \in AllOf(seqs, N) BY DEF AllOf
  <2>2. r[key] = rows[j][key] BY <1>6
  <2> QED BY <1>2, <1>3, <1>8, <2>1, <2>2
<1>10. SelectedAt(flat, Hits(flat, hits)) = seqs[k]
  <2>1. HitTable(seqs, N, k, hits) BY <1>2, <1>5, <1>6, <1>9 DEF HitTable
  <2> QED BY <2>1, SelectTable
<1>11. Hits(flat, hits) = {i \in DOMAIN flat : flat[i][key] = id}
  <2>1. \A i \in DOMAIN flat : flat[i] \in AllOf(seqs, N) BY <1>7 DEF SetOf
  <2> QED BY <1>8, <2>1 DEF Hits
<1> QED BY <1>2, <1>3, <1>4, <1>10, <1>11

WellDays(row) == [i \in DOMAIN WellEvents |-> FactDay(Day(row, WellEvents[i].col))]
WellLabels == [i \in DOMAIN WellEvents |-> WellEvents[i].label]
WellCurrent(row) ==
    IF Cell(row, "wlbStatus") \in WellOutcomes THEN Blank ELSE Cell(row, "wlbStatus")

FacilityDays(row) ==
    [i \in DOMAIN FacilityEvents |->
        IF i = 1 /\ Cell(row, "fclPhase") \in FacilityPreService
          THEN NoDate
          ELSE FactDay(Day(row, FacilityEvents[i].col))]
FacilityLabels == [i \in DOMAIN FacilityEvents |-> FacilityEvents[i].label]

LEMMA WellTimelineIs ==
    ASSUME NEW row
    PROVE  WellTimeline(row) = Timeline(WellDays(row), WellLabels, WellCurrent(row))
BY Zenon DEF WellTimeline, WellDays, WellLabels, WellCurrent

LEMMA FacilityTimelineIs ==
    ASSUME NEW row
    PROVE  FacilityTimeline(row) = Timeline(FacilityDays(row), FacilityLabels, Cell(row, "fclPhase"))
BY Zenon DEF FacilityTimeline, FacilityDays, FacilityLabels

LEMMA UptoFinite == ASSUME NEW n \in Nat PROVE IsFiniteSet(1..n)
BY FS_Interval

LEMMA FactDayIsDay == ASSUME NEW d \in Nat PROVE FactDay(d) \in Nat
BY DEF FactDay, NoDate

\* A well's timeline: without gap or overlap, and up to its current status.
LEMMA WellTimelineTiles ==
    ASSUME NEW row, \A c \in NumberColumns : Day(row, c) \in Nat, NEW ps, ps = WellTimeline(row)
    PROVE  /\ Tiles(ps)
           /\ ps # <<>> =>
                \/ Cell(row, "wlbStatus") \in {Blank} \cup WellOutcomes \cup ReclassStatuses
                \/ ps[Len(ps)].status = Cell(row, "wlbStatus")
<1>1. PICK days : days = WellDays(row) OBVIOUS
<1>2. DOMAIN WellEvents = 1..8 /\ IsFiniteSet(1..8)
  <2>1. DOMAIN WellEvents = 1..8 BY DEF WellEvents
  <2> QED BY <2>1, UptoFinite
<1>3. \A i \in 1..8 : WellEvents[i].col \in NumberColumns BY DEF WellEvents, NumberColumns
<1>4. DOMAIN days = 1..8 /\ \A i \in 1..8 : days[i] = FactDay(Day(row, WellEvents[i].col))
  BY <1>1, <1>2 DEF WellDays
<1>5. \A i \in DOMAIN days : days[i] \in Nat BY <1>3, <1>4, FactDayIsDay
<1>6. DOMAIN days \subseteq Nat /\ IsFiniteSet(DOMAIN days) BY <1>2, <1>4
<1>7. PICK current : current = WellCurrent(row) OBVIOUS
<1>8. ps = Timeline(days, WellLabels, current) BY <1>1, <1>7, WellTimelineIs
<1>9. Tiles(ps) /\ (ps # <<>> => Reaches(ps, days, WellLabels, current))
  BY <1>5, <1>6, <1>8, TimelineTiles
<1> QED BY <1>7, <1>9 DEF Reaches, WellCurrent

LEMMA FacilityTimelineTiles ==
    ASSUME NEW row, \A c \in NumberColumns : Day(row, c) \in Nat, NEW ps, ps = FacilityTimeline(row)
    PROVE  /\ Tiles(ps)
           /\ ps # <<>> /\ Cell(row, "fclPhase") # Blank =>
                ps[Len(ps)].status = Cell(row, "fclPhase")
<1>1. PICK days : days = FacilityDays(row) OBVIOUS
<1>2. DOMAIN FacilityEvents = 1..3 /\ IsFiniteSet(1..3)
  <2>1. DOMAIN FacilityEvents = 1..3 BY DEF FacilityEvents
  <2> QED BY <2>1, UptoFinite
<1>3. \A i \in 1..3 : /\ FacilityEvents[i].col \in NumberColumns
                      /\ FacilityEvents[i].label \in {"IN SERVICE", "SHUT DOWN", "REMOVED"}
  <2>1. \A i \in 1..3 :
          /\ FacilityEvents[i].col \in {"fclStartupDate", "fclDateShutdown", "fclDateRemoved"}
          /\ FacilityEvents[i].label \in {"IN SERVICE", "SHUT DOWN", "REMOVED"}
    <3>1. /\ FacilityEvents[1].col = "fclStartupDate" /\ FacilityEvents[1].label = "IN SERVICE"
          /\ FacilityEvents[2].col = "fclDateShutdown" /\ FacilityEvents[2].label = "SHUT DOWN"
          /\ FacilityEvents[3].col = "fclDateRemoved" /\ FacilityEvents[3].label = "REMOVED"
      BY DEF FacilityEvents
    <3>2. \A i \in 1..3 : i = 1 \/ i = 2 \/ i = 3 OBVIOUS
    <3> QED BY <3>1, <3>2
  <2> QED BY <2>1 DEF NumberColumns
<1>4. /\ DOMAIN days = 1..3
      /\ \A i \in 1..3 : days[i] \in {NoDate, FactDay(Day(row, FacilityEvents[i].col))}
  BY <1>1, <1>2 DEF FacilityDays
<1>5. \A i \in DOMAIN days : days[i] \in Nat
  <2>1. \A i \in 1..3 : FactDay(Day(row, FacilityEvents[i].col)) \in Nat BY <1>3, FactDayIsDay
  <2>2. NoDate \in Nat BY DEF NoDate
  <2> QED BY <1>4, <2>1, <2>2
<1>6. DOMAIN days \subseteq Nat /\ IsFiniteSet(DOMAIN days) BY <1>2, <1>4
<1>7. PICK current : current = Cell(row, "fclPhase") OBVIOUS
<1>8. ps = Timeline(days, FacilityLabels, current) BY <1>1, <1>7, FacilityTimelineIs
<1>9. Tiles(ps) /\ (ps # <<>> => Reaches(ps, days, FacilityLabels, current))
  BY <1>5, <1>6, <1>8, TimelineTiles
<1>10. \A i \in 1..3 : FacilityLabels[i] \in {"IN SERVICE", "SHUT DOWN", "REMOVED"}
  BY <1>2, <1>3 DEF FacilityLabels
<1>11. ASSUME current \in ReclassStatuses, NEW i \in DOMAIN days,
              FacilityLabels[i] \in {"RE-CLASS", current}
       PROVE  FALSE
  BY <1>4, <1>10, <1>11 DEF ReclassStatuses
<1> QED BY <1>7, <1>9, <1>11 DEF Reaches

\* The rows of a table at which the key is id.
RowsOf(rows, key, id) == SelectedAt(rows, {i \in DOMAIN rows : rows[i][key] = id})

\* Entity k is the only one of its id.
Single(rows, key, k) ==
    IsRows(rows) /\ k \in DOMAIN rows /\ \A i \in DOMAIN rows : rows[i][key] = rows[k][key] => i = k

LEMMA PeriodsOfSingle ==
    ASSUME NEW rows, NEW key, key \notin PeriodColumns, NEW k, Single(rows, key, k),
           NEW per, \A i \in DOMAIN rows : IsRows(per[i]),
           NEW seqs, seqs = [i \in DOMAIN rows |-> PeriodRows(key, rows[i][key], per[i])],
           NEW id, id = rows[k][key]
    PROVE  RowsOf(FlatRows(seqs), key, id) = PeriodRows(key, id, per[k])
<1>1. PICK flat : flat = FlatRows(seqs) OBVIOUS
<1>2. SelectedAt(flat, {i \in DOMAIN flat : flat[i][key] = rows[k][key]})
        = PeriodRows(key, rows[k][key], per[k])
  BY <1>1, PeriodsOfOne DEF Single
<1> QED BY <1>1, <1>2, Zenon DEF RowsOf

LEMMA WellPeriods ==
    ASSUME NEW d, Sound(d, {"wellbore"}), NEW rows, rows = Rows(d, "wellbore"),
           NEW k, Single(rows, "wlbNpdidWellbore", k), NEW id, id = rows[k]["wlbNpdidWellbore"]
    PROVE  RowsOf(WellboreStatusHst(d).rows, "wlbNpdidWellbore", id)
             = PeriodRows("wlbNpdidWellbore", id, WellTimeline(rows[k]))
<1>1. PICK key : key = "wlbNpdidWellbore" OBVIOUS
<1>2. key \notin PeriodColumns BY <1>1 DEF PeriodColumns
<1>3. PICK per : per = [i \in DOMAIN rows |-> WellTimeline(rows[i])] OBVIOUS
<1>4. PICK seqs : seqs = [i \in DOMAIN rows |-> PeriodRows(key, rows[i][key], per[i])] OBVIOUS
<1>5. WellboreStatusHst(d).rows = FlatRows(seqs)
  <2>1. seqs = [i \in DOMAIN rows |-> PeriodRows(key, rows[i][key], WellTimeline(rows[i]))]
    BY <1>3, <1>4
  <2>2. WellboreStatusHst(d) = NewTable(PeriodCols(key), FlatRows(seqs))
    BY <1>1, <2>1, Zenon DEF WellboreStatusHst, PeriodTable, PeriodRows
  <2> QED BY <2>2 DEF NewTable
<1>6. \A i \in DOMAIN rows : IsRows(per[i])
  <2>1. ASSUME NEW i \in DOMAIN rows PROVE IsRows(WellTimeline(rows[i]))
    <3>1. \A c \in NumberColumns : Day(rows[i], c) \in Nat BY RowsOfTable
    <3> QED BY <3>1, WellTimelineTiles DEF Tiles
  <2> QED BY <1>3, <2>1
<1>7. RowsOf(FlatRows(seqs), key, id) = PeriodRows(key, id, per[k])
  BY <1>1, <1>2, <1>4, <1>6, PeriodsOfSingle
<1>8. per[k] = WellTimeline(rows[k]) BY <1>3 DEF Single
<1> QED BY <1>1, <1>5, <1>7, <1>8

LEMMA FacilityPeriods ==
    ASSUME NEW d, Sound(d, {"facility"}), NEW rows, rows = Rows(d, "facility"),
           NEW k, Single(rows, "fclNpdidFacility", k), NEW id, id = rows[k]["fclNpdidFacility"]
    PROVE  RowsOf(FacilityStatusHst(d).rows, "fclNpdidFacility", id)
             = PeriodRows("fclNpdidFacility", id, FacilityTimeline(rows[k]))
<1>1. PICK key : key = "fclNpdidFacility" OBVIOUS
<1>2. key \notin PeriodColumns BY <1>1 DEF PeriodColumns
<1>3. PICK per : per = [i \in DOMAIN rows |-> FacilityTimeline(rows[i])] OBVIOUS
<1>4. PICK seqs : seqs = [i \in DOMAIN rows |-> PeriodRows(key, rows[i][key], per[i])] OBVIOUS
<1>5. FacilityStatusHst(d).rows = FlatRows(seqs)
  <2>1. seqs = [i \in DOMAIN rows |-> PeriodRows(key, rows[i][key], FacilityTimeline(rows[i]))]
    BY <1>3, <1>4
  <2>2. FacilityStatusHst(d) = NewTable(PeriodCols(key), FlatRows(seqs))
    BY <1>1, <2>1, Zenon DEF FacilityStatusHst, PeriodTable, PeriodRows
  <2> QED BY <2>2 DEF NewTable
<1>6. \A i \in DOMAIN rows : IsRows(per[i])
  <2>1. ASSUME NEW i \in DOMAIN rows PROVE IsRows(FacilityTimeline(rows[i]))
    <3>1. \A c \in NumberColumns : Day(rows[i], c) \in Nat BY RowsOfTable
    <3> QED BY <3>1, FacilityTimelineTiles DEF Tiles
  <2> QED BY <1>3, <2>1
<1>7. RowsOf(FlatRows(seqs), key, id) = PeriodRows(key, id, per[k])
  BY <1>1, <1>2, <1>4, <1>6, PeriodsOfSingle
<1>8. per[k] = FacilityTimeline(rows[k]) BY <1>3 DEF Single
<1> QED BY <1>1, <1>5, <1>7, <1>8

WellColumns == {"wlbOutcome", "existsFrom", "existsTo"}

WellCell(t, i, col) ==
    CASE col = "wlbOutcome" -> Outcome(Cell(t.rows[i], "wlbStatus"))
      [] WellTimeline(t.rows[i]) = <<>> ->
           (LET d == Day(t.rows[i], "wlbDateUpdated")
            IN  IF d = NoDate THEN WellboreFallback ELSE d)
      [] col = "existsFrom" -> WellTimeline(t.rows[i])[1].from
      [] col = "existsTo"   -> NoDate

LEMMA WellboreIs ==
    ASSUME NEW d
    PROVE  Wellbore(d) = SetColumns(d["wellbore"], WellColumns,
                                    LAMBDA i, c : WellCell(d["wellbore"], i, c))
BY Zenon DEF Wellbore, WellCell, WellColumns

LEMMA WellboreKey == "wlbNpdidWellbore" \in KeyColumns("wellbore")
<1>1. "wellbore" \notin TemporalStems BY DEF TemporalStems, Intervals
<1> QED BY <1>1 DEF KeyColumns

\* A row of _derived_wellbore: the catalog's, with the window of its timeline.
LEMMA WellWindow ==
    ASSUME NEW d, "wellbore" \in DOMAIN d, Sound(d, {"wellbore"}), NEW rows,
           rows = Rows(d, "wellbore"), NEW w \in SetOf(Wellbore(d).rows)
    PROVE  \E k \in DOMAIN rows :
             /\ w["wlbNpdidWellbore"] = rows[k]["wlbNpdidWellbore"]
             /\ Cell(w, "wlbStatus") = Cell(rows[k], "wlbStatus")
             /\ WellTimeline(rows[k]) # <<>> =>
                  w["existsFrom"] = WellTimeline(rows[k])[1].from /\ w["existsTo"] = NoDate
<1> DEFINE t == d["wellbore"]
<1>2. rows = t.rows BY DEF Rows
<1>3. IsTable(t) /\ "wlbNpdidWellbore" \in t.cols
  BY WellboreKey DEF Sound
<1>4. PICK u : u = Wellbore(d) OBVIOUS
<1>5. u = SetColumns(t, WellColumns, LAMBDA i, c : WellCell(t, i, c)) BY <1>4, WellboreIs, Zenon
<1>6. /\ DOMAIN u.rows = DOMAIN t.rows
      /\ \A i \in DOMAIN t.rows :
           /\ DOMAIN u.rows[i] = t.cols \cup WellColumns
           /\ \A c \in WellColumns : u.rows[i][c] = WellCell(t, i, c)
           /\ \A c \in t.cols \ WellColumns : u.rows[i][c] = t.rows[i][c]
  BY <1>5 DEF SetColumns
<1>7. PICK k \in DOMAIN rows : w = u.rows[k] BY <1>2, <1>4, <1>6 DEF SetOf
<1>8. {"existsFrom", "existsTo"} \subseteq WellColumns
      /\ "wlbNpdidWellbore" \notin WellColumns /\ "wlbStatus" \notin WellColumns
  BY DEF WellColumns
<1>9. w["wlbNpdidWellbore"] = rows[k]["wlbNpdidWellbore"] BY <1>2, <1>3, <1>6, <1>7, <1>8
<1>10. Cell(w, "wlbStatus") = Cell(rows[k], "wlbStatus")
  <2>1. DOMAIN rows[k] = t.cols BY <1>2, <1>3 DEF IsTable
  <2> QED BY <1>2, <1>6, <1>7, <1>8, <2>1 DEF Cell
<1>11. ASSUME WellTimeline(rows[k]) # <<>>
       PROVE  w["existsFrom"] = WellTimeline(rows[k])[1].from /\ w["existsTo"] = NoDate
  <2>1. WellCell(t, k, "existsFrom") = WellTimeline(rows[k])[1].from BY <1>2, <1>11 DEF WellCell
  <2>2. WellCell(t, k, "existsTo") = NoDate BY <1>2, <1>11 DEF WellCell
  <2> QED BY <1>2, <1>6, <1>7, <1>8, <2>1, <2>2
<1> QED BY <1>9, <1>10, <1>11


=============================================================================
