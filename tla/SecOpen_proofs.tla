---------------------------- MODULE SecOpen_proofs ----------------------------
(***************************************************************************)
(* For all calls, publications, documents and faults: a forced build never *)
(* uses tables it did not just extract; the tables of an extraction are    *)
(* anchored in its identities and its index; and a call about named        *)
(* companies gets all it asks for when nothing failed.                     *)
(***************************************************************************)
EXTENDS SecOpen, Lists_proofs

DiskFields ==
    {"tickers", "quarters", "zip", "raw", "dirs", "facts", "index", "csvs", "graph"}

\* The tables are those of this call's slice and of all it fetched.
Extracted ==
    /\ disk.csvs[1].whole
    /\ disk.csvs[1].slice = build_slice
    /\ disk.csvs[1].rows = Written.rows

\* A forced call comes to the build from an extraction of its own: nothing
\* is downloaded, and no table touched, between the two.
BuildInv ==
    /\ DOMAIN disk = DiskFields
    /\ pc = "build" /\ Forced => Extracted

\* Nothing is built yet.
LEMMA InitExtracted == Init => BuildInv
BY DEF Init, BuildInv, ColdDirectory, DiskFields

\* The parts of the directory, whatever a step writes in them.
LEMMA OpenFields ==
    ASSUME BuildInv, Step \/ Kill
    PROVE  DOMAIN disk' = DiskFields
<1>1. CASE Kill
  BY <1>1 DEF Kill, LeftBehind, BuildInv
<1>2. CASE UNCHANGED disk BY <1>2 DEF BuildInv
<1>3. CASE DownloadTickers \/ fetch_quarterly_master_idx \/ fetch_submissions_bulk
             \/ fetch_company_tickers
  BY <1>3 DEF BuildInv, DownloadTickers, fetch_quarterly_master_idx, fetch_submissions_bulk,
              fetch_company_tickers, Request
<1>4. CASE run_batch
  BY <1>4 DEF BuildInv, run_batch, FactsDone, FilingDone
<1>5. CASE OpenSinks \/ emit_from_submissions \/ run_all_at \/ _build_graph
  BY <1>5 DEF BuildInv, OpenSinks, emit_from_submissions, run_all_at, _build_graph
<1> QED BY <1>1, <1>2, <1>3, <1>4, <1>5
        DEF Step, ResolveCompanies, _load_cached_graph, Dispatch, DispatchDone, Extract

\* The extraction writes whole tables of all that is on disk.
LEMMA RunExtracts == BuildInv /\ run_all_at => BuildInv'
<1> SUFFICES ASSUME BuildInv, run_all_at PROVE BuildInv' OBVIOUS
<1>1. DOMAIN disk' = DiskFields BY OpenFields DEF Step
<1>2. disk'.csvs = <<[whole |-> TRUE, slice |-> build_slice,
                      ids |-> disk.csvs[1].ids \cup Written.ids, rows |-> Written.rows]>>
  BY DEF run_all_at, BuildInv, DiskFields
<1>3. disk'.raw = disk.raw /\ disk'.facts = disk.facts /\ disk'.index = disk.index /\ call' = call
  BY DEF run_all_at, BuildInv, DiskFields
<1>4. build_slice' = build_slice /\ Written' = Written BY <1>3 DEF build_slice, Written
<1> QED BY <1>1, <1>2, <1>4 DEF BuildInv, Extracted

\* A forced call reaches the build only through the extraction.
LEMMA StepExtracted == BuildInv /\ [Next]_vars => BuildInv'
<1> SUFFICES ASSUME BuildInv, [Next]_vars PROVE BuildInv' OBVIOUS
<1>1. CASE run_all_at BY <1>1, RunExtracts
<1>2. CASE Extract
  BY <1>2 DEF Extract, Goes, BuildInv, Forced
<1>3. ASSUME Step, ~run_all_at, ~Extract PROVE pc' # "build"
  BY <1>3 DEF Step, DownloadTickers, ResolveCompanies, _load_cached_graph,
       fetch_quarterly_master_idx, fetch_submissions_bulk, fetch_company_tickers, Dispatch,
       run_batch, DispatchDone, OpenSinks, emit_from_submissions, _build_graph,
       Goes, Raises, Returns, Request, AfterRaw
<1>4. CASE Step BY <1>1, <1>2, <1>3, <1>4, OpenFields DEF BuildInv
<1>5. CASE Kill BY <1>5, OpenFields DEF Kill, Raises, Returns, BuildInv
<1>6. ASSUME NEW c \in Calls, open(c) PROVE BuildInv'
  BY <1>6 DEF open, BuildInv
<1>7. CASE NextDay BY <1>7 DEF NextDay, BuildInv
<1>8. CASE UNCHANGED vars
  BY <1>8 DEF vars, BuildInv, Extracted, Forced, Written, build_slice
<1> QED BY <1>4, <1>5, <1>6, <1>7, <1>8 DEF Next

\* A forced call that is about to build has tables of its own extraction
\* (sec/wrapper.py:585).
THEOREM ExtractedInv == Spec => []BuildInv
<1> QED BY InitExtracted, StepExtracted, PTL DEF Spec

\* A call that must rebuild, or that fetches filings, builds from a whole
\* extraction of its own slice that saw everything it fetched (BuiltFresh;
\* sec/wrapper.py:585).
THEOREM ForcedBuildIsFresh == Spec => BuiltFresh
<1>1. BuildInv /\ [Next]_vars => [BuildsFresh]_vars
  <2> SUFFICES ASSUME BuildInv, Next, pc = "build", pc' = "idle", served' # <<>>, Forced
               PROVE  BuildsFresh
    BY DEF BuildsFresh, Forced
  <2>1. Extracted BY DEF BuildInv
  <2>2. _build_graph
    BY DEF Next, Step, Kill, Raises, Returns, open, NextDay, DownloadTickers, ResolveCompanies,
         _load_cached_graph, fetch_quarterly_master_idx, fetch_submissions_bulk,
         fetch_company_tickers, Dispatch, run_batch, DispatchDone, Extract, OpenSinks,
         emit_from_submissions, run_all_at
  <2>3. served'[1].of = disk.csvs[1] BY <2>2 DEF _build_graph, Returns
  <2> QED BY <2>1, <2>3 DEF BuildsFresh, Extracted
<1> QED BY <1>1, ExtractedInv, PTL DEF Spec, BuiltFresh

(***************************************************************************)
(* The rows an extraction writes.  A row is anchored when it has the       *)
(* columns of its table and they point into ids, at a company of cos and   *)
(* at a filing of accs.                                                    *)
(***************************************************************************)
Anchored(row, ids, cos, accs) ==
    /\ DOMAIN row.refs = Header(row.table) \cup {"filing"}
    /\ row.table = "metric_fact" \/ row.refs["filing"] \in accs
    /\ "company" \in DOMAIN row.refs => row.refs["company"] \in cos
    /\ "person" \in DOMAIN row.refs =>
         {<<"person", row.refs["person"]>>, <<"manager", row.refs["person"]>>} \cap ids # {}
    /\ \A column \in DOMAIN row.refs \cap {"manager", "security"} :
         <<column, row.refs[column]>> \in ids

AllAnchored(o, cos, accs) == \A row \in o.rows : Anchored(row, o.ids, cos, accs)

CompanyTables ==
    {"activist_filing", "holder_group", "subsidiary", "related_party_transaction", "auditor",
     "corporate_event", "ma_event", "vote_result", "auditor_change", "restatement",
     "earnings_release", "proposal", "pay_vs_performance", "ceo_pay_ratio", "audit_fees",
     "offering", "underwriter", "use_of_proceeds", "merger", "metric_fact"}

PersonTables ==
    {"insider_transaction", "holding", "role", "planned_sale", "officer_change", "compensation",
     "selling_stockholder"}

LEMMA HeadersAre ==
    /\ \A t \in CompanyTables : Header(t) = {"company"}
    /\ \A t \in PersonTables : Header(t) = {"person", "company"}
    /\ Header("institutional_holding") = {"manager", "security"}
BY DEF Header, Headers, OwnershipHeaders, InstitutionalHeaders, BeneficialHeaders,
       PeriodicHeaders, CurrentHeaders, ProxyHeaders, OfferingHeaders, MetricHeaders,
       CompanyTables, PersonTables

LEMMA RowIs ==
    ASSUME NEW table, NEW nid, NEW acc, NEW refs, NEW row, row = write_info_row(table, nid, acc, refs)
    PROVE  /\ row.table = table
           /\ DOMAIN row.refs = DOMAIN refs \cup {"filing"}
           /\ row.refs["filing"] = acc
           /\ \A c \in DOMAIN refs : c # "filing" => row.refs[c] = refs[c]
BY DEF write_info_row

LEMMA CompanyRowAnchored ==
    ASSUME NEW table \in CompanyTables, NEW nid, NEW acc, NEW cik, NEW ids, NEW cos, NEW accs,
           cik \in cos, acc \in accs \/ table = "metric_fact"
    PROVE  Anchored(write_info_row(table, nid, acc, [company |-> cik]), ids, cos, accs)
<1>1. PICK row : row = write_info_row(table, nid, acc, [company |-> cik]) OBVIOUS
<1>2. DOMAIN [company |-> cik] = {"company"} /\ [company |-> cik]["company"] = cik OBVIOUS
<1>3. /\ row.table = table /\ DOMAIN row.refs = {"company", "filing"}
      /\ row.refs["filing"] = acc /\ row.refs["company"] = cik
  BY <1>1, <1>2, RowIs
<1>4. Header(table) = {"company"} BY HeadersAre
<1> QED BY <1>1, <1>3, <1>4 DEF Anchored

LEMMA PersonRowAnchored ==
    ASSUME NEW table \in PersonTables, NEW nid, NEW acc, NEW cik, NEW key, NEW ids, NEW cos, NEW accs,
           cik \in cos, acc \in accs, <<"person", key>> \in ids \/ <<"manager", key>> \in ids
    PROVE  Anchored(write_info_row(table, nid, acc, [person |-> key, company |-> cik]), ids, cos, accs)
<1>1. PICK refs : refs = [person |-> key, company |-> cik] OBVIOUS
<1>2. PICK row : row = write_info_row(table, nid, acc, refs) OBVIOUS
<1>3. DOMAIN refs = {"person", "company"} /\ refs["person"] = key /\ refs["company"] = cik
  BY <1>1
<1>4. /\ row.table = table /\ DOMAIN row.refs = {"person", "company", "filing"}
      /\ row.refs["filing"] = acc /\ row.refs["person"] = key /\ row.refs["company"] = cik
  BY <1>2, <1>3, RowIs
<1>5. Header(table) = {"person", "company"} BY HeadersAre
<1> QED BY <1>1, <1>2, <1>4, <1>5 DEF Anchored

LEMMA ManagerRowAnchored ==
    ASSUME NEW nid, NEW acc, NEW key, NEW cusip, NEW ids, NEW cos, NEW accs,
           acc \in accs, <<"manager", key>> \in ids, <<"security", cusip>> \in ids
    PROVE  Anchored(write_info_row("institutional_holding", nid, acc,
                                   [manager |-> key, security |-> cusip]), ids, cos, accs)
<1>1. PICK refs : refs = [manager |-> key, security |-> cusip] OBVIOUS
<1>2. PICK row : row = write_info_row("institutional_holding", nid, acc, refs) OBVIOUS
<1>3. DOMAIN refs = {"manager", "security"} /\ refs["manager"] = key /\ refs["security"] = cusip
  BY <1>1
<1>4. /\ row.table = "institutional_holding" /\ DOMAIN row.refs = {"manager", "security", "filing"}
      /\ row.refs["filing"] = acc /\ row.refs["manager"] = key /\ row.refs["security"] = cusip
  BY <1>2, <1>3, RowIs
<1>5. Header("institutional_holding") = {"manager", "security"} BY HeadersAre
<1> QED BY <1>1, <1>2, <1>4, <1>5 DEF Anchored

(***************************************************************************)
(* The emitters.                                                           *)
(***************************************************************************)
\* A document filed under a company of cos, or about one, in a filing of accs.
Filed(cik, file, cos, accs) == cik \in cos /\ file.acc \in accs

LEMMA InsiderAnchored ==
    ASSUME NEW doc, NEW file, NEW ids, NEW cos, NEW accs, Filed(doc.issuer, file, cos, accs),
           <<"person", person_nid_from_cik(doc.reporter)>> \in ids
    PROVE  /\ \A table \in PersonTables : \A part, i :
                 Anchored(InsiderRow(table, doc, file, part, i), ids, cos, accs)
           /\ \A part : \A row \in HoldingRows(doc, file, part) : Anchored(row, ids, cos, accs)
           /\ \A since : \A row \in RoleRows(doc, file, since) : Anchored(row, ids, cos, accs)
           /\ \A row \in LotRows(doc, file) : Anchored(row, ids, cos, accs)
<1>1. "holding" \in PersonTables /\ "insider_transaction" \in PersonTables /\ "role" \in PersonTables
  BY DEF PersonTables
<1>2. ASSUME NEW table \in PersonTables, NEW part, NEW i
      PROVE  Anchored(InsiderRow(table, doc, file, part, i), ids, cos, accs)
  BY PersonRowAnchored DEF InsiderRow, Filed
<1>3. ASSUME NEW since, NEW row \in RoleRows(doc, file, since) PROVE Anchored(row, ids, cos, accs)
  BY <1>1, PersonRowAnchored DEF RoleRows, Filed
<1>4. ASSUME NEW part, NEW row \in HoldingRows(doc, file, part) PROVE Anchored(row, ids, cos, accs)
  BY <1>1, <1>2 DEF HoldingRows
<1>5. ASSUME NEW row \in LotRows(doc, file) PROVE Anchored(row, ids, cos, accs)
  BY <1>1, <1>2 DEF LotRows
<1> QED BY <1>2, <1>3, <1>4, <1>5

LEMMA CompanyRowsAnchored ==
    ASSUME NEW table \in CompanyTables, NEW cik, NEW file, NEW ids, NEW cos, NEW accs,
           Filed(cik, file, cos, accs)
    PROVE  /\ \A part, i : Anchored(CompanyRow(table, cik, file, part, i), ids, cos, accs)
           /\ \A part, count : \A row \in CompanyRows(table, cik, file, part, count) :
                 Anchored(row, ids, cos, accs)
<1>1. ASSUME NEW part, NEW i PROVE Anchored(CompanyRow(table, cik, file, part, i), ids, cos, accs)
  BY CompanyRowAnchored DEF CompanyRow, Filed
<1> QED BY <1>1 DEF CompanyRows

LEMMA NamedRowsAnchored ==
    ASSUME NEW table \in PersonTables, NEW names, NEW file, NEW ids, NEW cos, NEW accs, NEW part,
           Filed(file.cik, file, cos, accs),
           \A i \in DOMAIN names : <<"person", NamedPerson(names[i])>> \in ids,
           NEW row \in NamedRows(table, names, file, part)
    PROVE  Anchored(row, ids, cos, accs)
BY PersonRowAnchored DEF NamedRows, Filed

LEMMA OneAnchored ==
    ASSUME NEW doc, NEW file, NEW cos, NEW accs, Filed(doc.issuer, file, cos, accs)
    PROVE  AllAnchored(emit_one(doc, file), cos, accs)
<1>1. <<"person", person_nid_from_cik(doc.reporter)>> \in Reporter(doc) BY DEF Reporter, People
<1>2. "planned_sale" \in PersonTables /\ "insider_transaction" \in PersonTables
      /\ "offering" \in CompanyTables /\ "use_of_proceeds" \in CompanyTables
  BY DEF PersonTables, CompanyTables
<1>3. AllAnchored(emit_form3(doc, file), cos, accs)
  BY <1>1, InsiderAnchored DEF AllAnchored, emit_form3, Output
<1>4. AllAnchored(emit_form4(doc, file), cos, accs)
  BY <1>1, InsiderAnchored DEF AllAnchored, emit_form4, Output
<1>5. AllAnchored(emit_form5(doc, file), cos, accs)
  BY <1>1, InsiderAnchored DEF AllAnchored, emit_form5, Output
<1>6. AllAnchored(emit_form144(doc, file), cos, accs)
  BY <1>1, <1>2, InsiderAnchored DEF AllAnchored, emit_form144, Output
<1>7. AllAnchored(emit_formd(doc, file), cos, accs)
  BY <1>2, CompanyRowsAnchored DEF AllAnchored, emit_formd, Output
<1>8. emit_one(doc, file) \in {emit_form3(doc, file), emit_form4(doc, file), emit_form5(doc, file),
                              emit_form144(doc, file), emit_formd(doc, file)}
  BY DEF emit_one
<1> QED BY <1>3, <1>4, <1>5, <1>6, <1>7, <1>8

LEMMA ThirteenFAnchored ==
    ASSUME NEW doc, NEW file, NEW cos, NEW accs, file.acc \in accs
    PROVE  AllAnchored(emit_13f(doc, file), cos, accs)
<1> DEFINE manager == <<"cik", file.cik>>
           lots == {i \in DOMAIN doc.cusips : doc.cusips[i] # ""}
<1>1. PICK ids : ids = {<<"manager", manager>>} \cup {<<"security", doc.cusips[i]>> : i \in lots}
  OBVIOUS
<1>2. ASSUME NEW i \in lots, NEW nid
      PROVE  Anchored(write_info_row("institutional_holding", nid, file.acc,
                                     [manager |-> manager, security |-> doc.cusips[i]]),
                      ids, cos, accs)
  <2>1. <<"manager", manager>> \in ids /\ <<"security", doc.cusips[i]>> \in ids BY <1>1
  <2> QED BY <2>1, ManagerRowAnchored
<1> QED BY <1>1, <1>2 DEF emit_13f, AllAnchored, Output

LEMMA Schedule13Anchored ==
    ASSUME NEW doc, NEW file, NEW cos, NEW accs, Filed(file.cik, file, cos, accs)
    PROVE  AllAnchored(emit_sc13(doc, file), cos, accs)
<1> DEFINE Key(i) == ReportingPerson(doc.holders[i].name)
<1>1. PICK ids : ids = {<<IF doc.holders[i].entity THEN "manager" ELSE "person", Key(i)>> :
                          i \in DOMAIN doc.holders}
  OBVIOUS
<1>2. "activist_filing" \in CompanyTables /\ "holder_group" \in CompanyTables
      /\ "holding" \in PersonTables
  BY DEF CompanyTables, PersonTables
<1>3. ASSUME NEW i \in DOMAIN doc.holders, NEW nid
      PROVE  Anchored(write_info_row("holding", nid, file.acc,
                                     [person |-> Key(i), company |-> file.cik]), ids, cos, accs)
  <2>1. <<"person", Key(i)>> \in ids \/ <<"manager", Key(i)>> \in ids BY <1>1
  <2> QED BY <2>1, <1>2, PersonRowAnchored DEF Filed
<1>4. PICK held : held = {write_info_row("holding", Lot(file, "rp", i), file.acc,
                                         [person |-> Key(i), company |-> file.cik]) :
                            i \in DOMAIN doc.holders}
  OBVIOUS
<1>5. \A row \in held : Anchored(row, ids, cos, accs) BY <1>3, <1>4
<1>6. emit_sc13(doc, file) =
        Output(ids, {CompanyRow("activist_filing", file.cik, file, "act", i) : i \in DOMAIN doc.holders}
                    \cup held
                    \cup {CompanyRow("holder_group", file.cik, file, "grp", i) :
                            i \in DOMAIN doc.holders \ {1}})
  BY <1>1, <1>4, Zenon DEF emit_sc13
<1> QED BY <1>2, <1>5, <1>6, CompanyRowsAnchored DEF AllAnchored, Output

LEMMA ProxyAnchored ==
    ASSUME NEW doc, NEW file, NEW cos, NEW accs, Filed(file.cik, file, cos, accs)
    PROVE  AllAnchored(emit_def14a(doc, file), cos, accs)
<1> DEFINE insiders == {i \in DOMAIN OwnerNames(doc) : doc.owners[i].insider}
           roles == [i \in insiders |-> OwnerNames(doc)[i]]
<1>1. PICK ids : ids = People({NamedPerson(n) : n \in ToSet(OwnerNames(doc)) \cup ToSet(doc.compensation)})
  OBVIOUS
<1>2. "proposal" \in CompanyTables /\ "ceo_pay_ratio" \in CompanyTables
      /\ "audit_fees" \in CompanyTables /\ "related_party_transaction" \in CompanyTables
      /\ "holding" \in PersonTables /\ "role" \in PersonTables /\ "compensation" \in PersonTables
  BY DEF CompanyTables, PersonTables
<1>3. /\ \A i \in DOMAIN OwnerNames(doc) : <<"person", NamedPerson(OwnerNames(doc)[i])>> \in ids
      /\ \A i \in DOMAIN doc.compensation : <<"person", NamedPerson(doc.compensation[i])>> \in ids
      /\ \A i \in DOMAIN roles : <<"person", NamedPerson(roles[i])>> \in ids
  BY <1>1 DEF People, ToSet
<1>4. PICK named : named = NamedRows("holding", OwnerNames(doc), file, "own")
                           \cup NamedRows("role", roles, file, "role")
                           \cup NamedRows("compensation", doc.compensation, file, "comp")
  OBVIOUS
<1>5. \A row \in named : Anchored(row, ids, cos, accs)
  <2> HIDE DEF roles
  <2> QED BY <1>2, <1>3, <1>4, NamedRowsAnchored
<1>6. emit_def14a(doc, file) =
        Output(ids, named
          \cup CompanyRows("proposal", file.cik, file, "prop", doc.proposals)
          \cup CompanyRows("ceo_pay_ratio", file.cik, file, "payratio", One(doc.payratio))
          \cup CompanyRows("audit_fees", file.cik, file, "auditfees", One(doc.auditfees))
          \cup CompanyRows("related_party_transaction", file.cik, file, "rpt", doc.related))
  BY <1>1, <1>4, Zenon DEF emit_def14a
<1> QED BY <1>2, <1>5, <1>6, CompanyRowsAnchored DEF AllAnchored, Output

LEMMA EightKAnchored ==
    ASSUME NEW doc, NEW file, NEW cos, NEW accs, Filed(file.cik, file, cos, accs)
    PROVE  AllAnchored(emit_8k(doc, file), cos, accs)
<1>1. PICK ids : ids = People({NamedPerson(n) : n \in ToSet(doc.changes)}) OBVIOUS
<1>2. "corporate_event" \in CompanyTables /\ "officer_change" \in PersonTables
  BY DEF CompanyTables, PersonTables
<1>3. \A i \in DOMAIN doc.changes : <<"person", NamedPerson(doc.changes[i])>> \in ids
  BY <1>1 DEF People, ToSet
<1>4. \A row \in NamedRows("officer_change", doc.changes, file, "oc") : Anchored(row, ids, cos, accs)
  BY <1>2, <1>3, NamedRowsAnchored
<1> QED BY <1>1, <1>2, <1>4, CompanyRowsAnchored DEF emit_8k, AllAnchored, Output

LEMMA Item12Anchored ==
    ASSUME NEW doc, NEW file, NEW cos, NEW accs, Filed(file.cik, file, cos, accs)
    PROVE  AllAnchored(emit_item12(doc, file), cos, accs)
<1>1. PICK ids : ids = People({NamedPerson(n) : n \in ToSet(OwnerNames(doc))}) OBVIOUS
<1>2. "holding" \in PersonTables BY DEF PersonTables
<1>3. \A i \in DOMAIN OwnerNames(doc) : <<"person", NamedPerson(OwnerNames(doc)[i])>> \in ids
  BY <1>1 DEF People, ToSet
<1>4. \A row \in NamedRows("holding", OwnerNames(doc), file, "it12") : Anchored(row, ids, cos, accs)
  BY <1>2, <1>3, NamedRowsAnchored
<1> QED BY <1>1, <1>4 DEF emit_item12, AllAnchored, Output

LEMMA OfferingAnchored ==
    ASSUME NEW doc, NEW file, NEW cos, NEW accs, Filed(file.cik, file, cos, accs)
    PROVE  AllAnchored(emit_offering(doc, file), cos, accs)
<1>1. PICK ids : ids = People({NamedPerson(n) : n \in ToSet(doc.selling)}) OBVIOUS
<1>2. "offering" \in CompanyTables /\ "underwriter" \in CompanyTables
      /\ "use_of_proceeds" \in CompanyTables /\ "selling_stockholder" \in PersonTables
  BY DEF CompanyTables, PersonTables
<1>3. \A i \in DOMAIN doc.selling : <<"person", NamedPerson(doc.selling[i])>> \in ids
  BY <1>1 DEF People, ToSet
<1>4. \A row \in NamedRows("selling_stockholder", doc.selling, file, "ss") :
         Anchored(row, ids, cos, accs)
  BY <1>2, <1>3, NamedRowsAnchored
<1> QED BY <1>1, <1>2, <1>4, CompanyRowsAnchored DEF emit_offering, AllAnchored, Output

LEMMA CompanyDocumentsAnchored ==
    ASSUME NEW doc, NEW file, NEW cos, NEW accs, Filed(file.cik, file, cos, accs)
    PROVE  /\ AllAnchored(emit_earnings(doc, file), cos, accs)
           /\ AllAnchored(emit_item13(doc, file), cos, accs)
           /\ AllAnchored(emit_subsidiaries(doc, file), cos, accs)
<1>1. "earnings_release" \in CompanyTables /\ "related_party_transaction" \in CompanyTables
      /\ "subsidiary" \in CompanyTables
  BY DEF CompanyTables
<1>2. AllAnchored(emit_earnings(doc, file), cos, accs)
  BY <1>1, CompanyRowsAnchored DEF emit_earnings, AllAnchored, Output
<1>3. AllAnchored(emit_item13(doc, file), cos, accs)
  BY <1>1, CompanyRowsAnchored DEF emit_item13, AllAnchored, Output
<1>4. AllAnchored(emit_subsidiaries(doc, file), cos, accs)
  BY <1>1, CompanyRowAnchored DEF emit_subsidiaries, AllAnchored, Output, Filed
<1> QED BY <1>2, <1>3, <1>4

LEMMA FactRowsAnchored ==
    ASSUME NEW cik, NEW cos, NEW accs, cik \in cos
    PROVE  AllAnchored(emit_xbrl(cik), cos, accs)
<1>1. "metric_fact" \in CompanyTables BY DEF CompanyTables
<1> QED BY <1>1, CompanyRowAnchored DEF emit_xbrl, AllAnchored, Output

(***************************************************************************)
(* The extractors.                                                         *)
(***************************************************************************)
\* The companies the slice admits.
InScopeOf(slice) == {c \in Universe : InSlice(slice, c)}

EachAnchored(outputs, index, slice) ==
    \A o \in outputs : AllAnchored(o, InScopeOf(slice), Indexed(index))

Archived(raw) == \A f \in raw : InArchive(f)

\* A document whose form is known is in the index.
LEMMA FormIsIndexed ==
    ASSUME NEW raw, NEW index, NEW forms, "" \notin forms,
           NEW f \in walk_filings_of_form(raw, index, forms)
    PROVE  f \in raw /\ f.acc \in Indexed(index)
<1>1. f \in raw /\ load_form_index(index, f.acc) \in forms
  BY DEF walk_filings_of_form, walk_filings
<1>2. {i \in DOMAIN index : index[i].acc = f.acc} # {}
  BY <1>1 DEF load_form_index
<1> QED BY <1>1, <1>2 DEF Indexed

\* A walk within the scope yields documents filed under its companies.
LEMMA ScopeFiles ==
    ASSUME NEW raw, Archived(raw), NEW index, NEW slice, NEW walk,
           \A f \in walk : f \in raw /\ f.acc \in Indexed(index)
    PROVE  \A f \in InScope(walk, slice) : Filed(f.cik, f, InScopeOf(slice), Indexed(index))
BY DEF Archived, InArchive, InScope, InScopeOf, Filed

LEMMA IndexedWalk ==
    ASSUME NEW raw, Archived(raw), NEW index, NEW slice, NEW names
    PROVE  \A f \in InScope(walk_filings_in_index(raw, index, names), slice) :
              Filed(f.cik, f, InScopeOf(slice), Indexed(index))
<1>1. PICK walk : walk = walk_filings_in_index(raw, index, names) OBVIOUS
<1>2. \A f \in walk : f \in raw /\ f.acc \in Indexed(index)
  BY <1>1 DEF walk_filings_in_index, walk_filings
<1> QED BY <1>1, <1>2, ScopeFiles

LEMMA FormWalk ==
    ASSUME NEW raw, Archived(raw), NEW index, NEW slice, NEW forms, "" \notin forms
    PROVE  \A f \in InScope(walk_filings_of_form(raw, index, forms), slice) :
              Filed(f.cik, f, InScopeOf(slice), Indexed(index))
<1>1. PICK walk : walk = walk_filings_of_form(raw, index, forms) OBVIOUS
<1>2. \A f \in walk : f \in raw /\ f.acc \in Indexed(index) BY <1>1, FormIsIndexed
<1> QED BY <1>1, <1>2, ScopeFiles

LEMMA OwnershipAnchored ==
    ASSUME NEW raw, Archived(raw), NEW index, NEW slice
    PROVE  EachAnchored(ownership_extract(raw, index, slice), index, slice)
<1>1. ASSUME NEW f \in walk_filings_in_index(raw, index, is_ownership_xml), Content(f).issuer # "",
             InSlice(slice, Content(f).issuer)
      PROVE  AllAnchored(emit_one(Content(f), f), InScopeOf(slice), Indexed(index))
  <2>1. f \in raw /\ f.acc \in Indexed(index) BY DEF walk_filings_in_index, walk_filings
  <2>2. Content(f).issuer \in Universe
    BY <1>1, <2>1, ArchiveAssumption DEF Archived, InArchive, Content
  <2>3. Filed(Content(f).issuer, f, InScopeOf(slice), Indexed(index))
    BY <1>1, <2>1, <2>2 DEF Filed, InScopeOf
  <2> QED BY <2>3, OneAnchored
<1> QED BY <1>1 DEF EachAnchored, ownership_extract

LEMMA IndexedDocumentsAnchored ==
    ASSUME NEW raw, Archived(raw), NEW index, NEW slice
    PROVE  /\ EachAnchored(form13f_extract(raw, index, slice), index, slice)
           /\ EachAnchored(extract_subsidiaries(raw, index, slice), index, slice)
<1>1. EachAnchored(form13f_extract(raw, index, slice), index, slice)
  BY IndexedWalk, ThirteenFAnchored DEF EachAnchored, form13f_extract, Filed
<1>2. EachAnchored(extract_subsidiaries(raw, index, slice), index, slice)
  BY IndexedWalk, CompanyDocumentsAnchored DEF EachAnchored, extract_subsidiaries
<1> QED BY <1>1, <1>2

LEMMA FormDocumentsAnchored ==
    ASSUME NEW raw, Archived(raw), NEW index, NEW slice
    PROVE  /\ EachAnchored(schedule13_extract(raw, index, slice), index, slice)
           /\ EachAnchored(def14a_extract(raw, index, slice), index, slice)
           /\ EachAnchored(eightk_extract(raw, index, slice), index, slice)
           /\ EachAnchored(extract_earnings(raw, index, slice), index, slice)
           /\ EachAnchored(extract_item12(raw, index, slice), index, slice)
           /\ EachAnchored(extract_item13(raw, index, slice), index, slice)
           /\ EachAnchored(extract_offering_filings(raw, index, slice, S1Forms), index, slice)
           /\ EachAnchored(extract_offering_filings(raw, index, slice, ProspectusForms), index, slice)
<1>1. EachAnchored(schedule13_extract(raw, index, slice), index, slice)
  <2>1. PICK forms : forms = matching_forms.sc13d \cup matching_forms.sc13g OBVIOUS
  <2>2. "" \notin forms BY <2>1 DEF matching_forms
  <2>3. \A f \in InScope(walk_filings_of_form(raw, index, forms), slice) :
           AllAnchored(emit_sc13(Content(f), f), InScopeOf(slice), Indexed(index))
    BY <2>2, FormWalk, Schedule13Anchored
  <2> QED BY <2>1, <2>3 DEF EachAnchored, schedule13_extract
<1>2. EachAnchored(def14a_extract(raw, index, slice), index, slice)
  <2>1. "" \notin matching_forms.def14a BY DEF matching_forms
  <2> QED BY <2>1, FormWalk, ProxyAnchored DEF EachAnchored, def14a_extract
<1>3. /\ EachAnchored(eightk_extract(raw, index, slice), index, slice)
      /\ EachAnchored(extract_earnings(raw, index, slice), index, slice)
  <2>1. "" \notin matching_forms.form8k BY DEF matching_forms
  <2>2. EachAnchored(eightk_extract(raw, index, slice), index, slice)
    BY <2>1, FormWalk, EightKAnchored DEF EachAnchored, eightk_extract
  <2>3. EachAnchored(extract_earnings(raw, index, slice), index, slice)
    BY <2>1, FormWalk, CompanyDocumentsAnchored DEF EachAnchored, extract_earnings
  <2> QED BY <2>2, <2>3
<1>4. /\ EachAnchored(extract_item12(raw, index, slice), index, slice)
      /\ EachAnchored(extract_item13(raw, index, slice), index, slice)
  <2>1. "" \notin matching_forms.form10k BY DEF matching_forms
  <2>2. EachAnchored(extract_item12(raw, index, slice), index, slice)
    BY <2>1, FormWalk, Item12Anchored DEF EachAnchored, extract_item12
  <2>3. EachAnchored(extract_item13(raw, index, slice), index, slice)
    BY <2>1, FormWalk, CompanyDocumentsAnchored DEF EachAnchored, extract_item13
  <2> QED BY <2>2, <2>3
<1>5. ASSUME NEW forms, "" \notin forms
      PROVE  EachAnchored(extract_offering_filings(raw, index, slice, forms), index, slice)
  BY <1>5, FormWalk, OfferingAnchored DEF EachAnchored, extract_offering_filings
<1>6. "" \notin S1Forms /\ "" \notin ProspectusForms BY DEF S1Forms, ProspectusForms
<1> QED BY <1>1, <1>2, <1>3, <1>4, <1>5, <1>6

LEMMA FactsAreAnchored ==
    ASSUME NEW facts \in SUBSET Universe, NEW index, NEW slice
    PROVE  EachAnchored(xbrl_extract(facts, slice), index, slice)
BY FactRowsAnchored DEF EachAnchored, xbrl_extract, InScopeOf

\* Putting outputs together keeps every row anchored.
LEMMA TogetherAnchored ==
    ASSUME NEW outputs, NEW cos, NEW accs, \A o \in outputs : AllAnchored(o, cos, accs)
    PROVE  AllAnchored(Together(outputs), cos, accs)
<1>1. PICK ids : ids = UNION {o.ids : o \in outputs} OBVIOUS
<1>2. ASSUME NEW o \in outputs, NEW row \in o.rows PROVE Anchored(row, ids, cos, accs)
  <2>1. o.ids \subseteq ids /\ Anchored(row, o.ids, cos, accs) BY <1>1 DEF AllAnchored
  <2> QED BY <2>1 DEF Anchored
<1> QED BY <1>1, <1>2 DEF Together, AllAnchored, Output

\* All that the extractors write for documents of the archive.
LEMMA FormsAnchored ==
    ASSUME NEW raw, Archived(raw), NEW facts \in SUBSET Universe, NEW index, NEW slice
    PROVE  AllAnchored(Forms(raw, facts, index, slice), InScopeOf(slice), Indexed(index))
<1>1. EachAnchored(ownership_extract(raw, index, slice)
             \cup form13f_extract(raw, index, slice)
             \cup schedule13_extract(raw, index, slice)
             \cup def14a_extract(raw, index, slice)
             \cup eightk_extract(raw, index, slice)
             \cup extract_earnings(raw, index, slice)
             \cup extract_item12(raw, index, slice)
             \cup extract_item13(raw, index, slice)
             \cup extract_subsidiaries(raw, index, slice)
             \cup extract_offering_filings(raw, index, slice, S1Forms)
             \cup extract_offering_filings(raw, index, slice, ProspectusForms)
             \cup xbrl_extract(facts, slice), index, slice)
  BY OwnershipAnchored, IndexedDocumentsAnchored, FormDocumentsAnchored, FactsAreAnchored
     DEF EachAnchored
<1> QED BY <1>1, TogetherAnchored DEF Forms, EachAnchored

(***************************************************************************)
(* The index and the plan made from it: rows and requests about filers and *)
(* documents of the archive.                                               *)
(***************************************************************************)
Listed(row) == row.cik \in Universe /\ row.acc \in DOMAIN Docs

ListedRows(rows) == IsRows(rows) /\ \A row \in SetOf(rows) : Listed(row)

SoundTask(task) ==
    task.cik \in Universe /\ (task.fetcher # "facts" => task.acc \in DOMAIN Docs)

SoundTasks(tasks) == IsRows(tasks) /\ \A task \in SetOf(tasks) : SoundTask(task)

LEMMA SetsOfRows == \A rows : SetOf(rows) = ToSet(rows)
BY DEF SetOf, ToSet

LEMMA FilersListed ==
    /\ IsRows(Published)
    /\ \A i \in DOMAIN Published : ListedRows(Published[i].filings)
<1>1. IsRows(Published) BY ArchiveAssumption, SetsOfRows DEF IsRows
<1>2. ASSUME NEW i \in DOMAIN Published PROVE ListedRows(Published[i].filings)
  <2>1. PICK sub : sub = Published[i] OBVIOUS
  <2>2. sub \in ToSet(Published) /\ sub.cik \in Universe BY <2>1 DEF ToSet, Universe
  <2>3. /\ sub.filings \in Seq(ToSet(sub.filings))
        /\ \A filing \in ToSet(sub.filings) : filing.cik = sub.cik /\ filing.acc \in DOMAIN Docs
    BY <2>2, ArchiveAssumption
  <2>4. IsRows(sub.filings) BY <2>3, SetsOfRows DEF IsRows
  <2>5. \A filing \in SetOf(sub.filings) : Listed(filing) BY <2>2, <2>3, SetsOfRows DEF Listed
  <2> QED BY <2>1, <2>4, <2>5 DEF ListedRows
<1> QED BY <1>1, <1>2

LEMMA KeptListed ==
    ASSUME NEW rows, ListedRows(rows), NEW K \in SUBSET (DOMAIN rows)
    PROVE  ListedRows(SelectedAt(rows, K))
<1>1. /\ IsRows(SelectedAt(rows, K))
      /\ SetOf(SelectedAt(rows, K)) = {rows[i] : i \in K}
  BY SelectedRows DEF ListedRows
<1>2. \A i \in K : rows[i] \in SetOf(rows) BY DEF SetOf
<1> QED BY <1>1, <1>2 DEF ListedRows

LEMMA EmptyRows == IsRows(<<>>) /\ SetOf(<<>>) = {} /\ Len(<<>>) = 0
<1>1. SetOf(<<>>) = {} BY DEF SetOf
<1> QED BY <1>1 DEF IsRows

LEMMA EmittedListed ==
    ASSUME NEW filings, ListedRows(filings), NEW slice, NEW day
    PROVE  ListedRows(EmittedRows(filings, slice, day))
<1> DEFINE K == {i \in DOMAIN filings : filings[i].since <= day /\ SliceMatches(slice, filings[i])}
<1>1. EmittedRows(filings, slice, day) = SelectedAt(filings, K)
  BY Zenon DEF EmittedRows, Select, SelectedAt
<1>2. K \in SUBSET (DOMAIN filings) OBVIOUS
<1> HIDE DEF K
<1> QED BY <1>1, <1>2, KeptListed

LEMMA IndexListed ==
    ASSUME NEW emitted, NEW slice, NEW day
    PROVE  ListedRows(IndexRows(Published, emitted, slice, day))
<1>1. PICK seqs : seqs = [i \in DOMAIN Published |->
                            IF i \in emitted THEN EmittedRows(Published[i].filings, slice, day)
                            ELSE <<>>]
  OBVIOUS
<1>2. PICK N \in Nat : DOMAIN Published = 1..N BY FilersListed, RowsAreNumbered
<1>3. ASSUME NEW k \in 1..N PROVE ListedRows(seqs[k])
  <2>1. ListedRows(EmittedRows(Published[k].filings, slice, day))
    BY <1>2, FilersListed, EmittedListed
  <2>2. ListedRows(<<>>) BY EmptyRows DEF ListedRows
  <2> QED BY <1>1, <1>2, <2>1, <2>2
<1>4. Len(seqs) = N
  <2>1. seqs = [i \in 1..N |-> seqs[i]] BY <1>1, <1>2
  <2> QED BY <2>1, NumberedAreRows
<1>5. /\ IsRows(FlatRows(seqs))
      /\ \A row \in SetOf(FlatRows(seqs)) : \E k \in 1..N : row \in SetOf(seqs[k])
  <2>1. \A k \in 1..N : IsRows(seqs[k]) BY <1>3 DEF ListedRows
  <2> QED BY <2>1, <1>4, FlatElements DEF AllOf
<1>6. ListedRows(FlatRows(seqs)) BY <1>3, <1>5 DEF ListedRows
<1> QED BY <1>1, <1>6, Zenon DEF IndexRows

LEMMA PrefixListed ==
    ASSUME NEW rows, ListedRows(rows), NEW p \in Prefixes(rows)
    PROVE  ListedRows(p)
<1>1. PICK l \in 0..Len(rows) : p = SubSeq(rows, 1, l) BY DEF Prefixes
<1>2. /\ Len(rows) \in Nat /\ DOMAIN rows = 1..Len(rows) /\ rows \in Seq(SetOf(rows))
  BY RowsAreNumbered DEF ListedRows, IsRows
<1>3. l \in Nat /\ Len(p) = l /\ \A i \in 1..l : p[i] = rows[i] BY <1>1, <1>2
<1>4. p \in Seq(SetOf(rows)) BY <1>1, <1>2
<1>5. DOMAIN p = 1..l /\ p = [i \in 1..l |-> p[i]]
  <2>1. p \in [1..l -> SetOf(rows)] BY <1>3, <1>4, LenProperties
  <2> QED BY <2>1
<1>6. IsRows(p) BY <1>3, <1>5, NumberedAreRows
<1>7. \A i \in 1..l : p[i] \in SetOf(rows) BY <1>1, <1>2, <1>3 DEF SetOf
<1> QED BY <1>5, <1>6, <1>7 DEF ListedRows, SetOf

LEMMA PlanListed ==
    ASSUME NEW index, ListedRows(index), NEW companies, NEW window, NEW b \in ALL_BUCKETS
    PROVE  ListedRows(prepare_dispatch_plan(index, companies, window)[b])
<1>1. PICK kept : kept = Select(index, LAMBDA filing : Planned(companies, window, filing)) OBVIOUS
<1>2. PICK K : K = {i \in DOMAIN index : Planned(companies, window, index[i])} OBVIOUS
<1>3. kept = SelectedAt(index, K) BY <1>1, <1>2, Zenon DEF Select, SelectedAt
<1>4. ListedRows(kept) BY <1>2, <1>3, KeptListed
<1>5. PICK M : M = {i \in DOMAIN kept : kept[i].form \in matching_forms[b]} OBVIOUS
<1>6. ListedRows(SelectedAt(kept, M)) BY <1>4, <1>5, KeptListed
<1>7. PICK plan : plan = [c \in ALL_BUCKETS |->
                            Select(kept, LAMBDA filing : filing.form \in matching_forms[c])]
  OBVIOUS
<1>8. prepare_dispatch_plan(index, companies, window) = plan
  BY <1>1, <1>7, Zenon DEF prepare_dispatch_plan
<1>9. plan[b] = SelectedAt(kept, M) BY <1>5, <1>7, Zenon DEF Select, SelectedAt
<1> QED BY <1>6, <1>8, <1>9

LEMMA TasksSound ==
    ASSUME NEW fetcher, NEW filings, ListedRows(filings)
    PROVE  SoundTasks(Tasks(fetcher, filings))
<1>1. PICK ts : ts = Tasks(fetcher, filings) OBVIOUS
<1>2. PICK n \in Nat : DOMAIN filings = 1..n BY RowsAreNumbered DEF ListedRows
<1>3. DOMAIN ts = 1..n /\ \A i \in 1..n : ts[i] = Task(fetcher, filings[i])
  BY <1>1, <1>2 DEF Tasks
<1>4. ts = [i \in 1..n |-> ts[i]]
  BY <1>1, <1>2 DEF Tasks
<1>5. IsRows(ts) BY <1>4, NumberedAreRows
<1>6. \A i \in 1..n : SoundTask(ts[i])
  <2>1. \A i \in 1..n : Listed(filings[i]) BY <1>2 DEF ListedRows, SetOf
  <2> QED BY <2>1, <1>3 DEF Task, SoundTask, Listed
<1> QED BY <1>1, <1>3, <1>5, <1>6 DEF SoundTasks, SetOf

LEMMA FactsTasksSound ==
    ASSUME NEW ciks \in SUBSET Universe, IsFiniteSet(ciks)
    PROVE  SoundTasks(FactsTasks(ciks))
<1>1. PICK order : order = AsRows(ciks) OBVIOUS
<1>2. order \in Seq(ciks) /\ SetOf(order) = ciks BY <1>1, AsRowsElements DEF IsListOf
<1>3. PICK n \in Nat : DOMAIN order = 1..n /\ \A i \in 1..n : order[i] \in ciks
  BY <1>2, LenProperties DEF SetOf
<1>4. PICK ts : ts = FactsTasks(ciks) OBVIOUS
<1>5. ts = [i \in 1..n |-> [fetcher |-> "facts", cik |-> order[i], acc |-> "",
                            doc |-> [dir |-> "", name |-> ""]]]
  BY <1>1, <1>3, <1>4, Zenon DEF FactsTasks
<1>6. \A i \in 1..n : ts[i].fetcher = "facts" /\ ts[i].cik \in Universe BY <1>3, <1>5
<1>7. DOMAIN ts = 1..n /\ ts = [i \in 1..n |-> ts[i]] BY <1>5
<1>8. IsRows(ts) BY <1>7, NumberedAreRows
<1> QED BY <1>4, <1>6, <1>7, <1>8 DEF SoundTasks, SoundTask, SetOf

LEMMA ListedJoined ==
    ASSUME NEW a, NEW b, ListedRows(a), ListedRows(b)
    PROVE  ListedRows(a \o b)
<1>1. PICK c : c = a \o b OBVIOUS
<1>2. Follows(c, a, b) BY <1>1, Concatenated DEF ListedRows
<1> QED BY <1>1, <1>2 DEF Follows, ListedRows

LEMMA TasksJoined ==
    ASSUME NEW a, NEW b, SoundTasks(a), SoundTasks(b)
    PROVE  SoundTasks(a \o b)
<1>1. PICK c : c = a \o b OBVIOUS
<1>2. Follows(c, a, b) BY <1>1, Concatenated DEF SoundTasks
<1> QED BY <1>1, <1>2 DEF Follows, SoundTasks

LEMMA PairFinite == ASSUME NEW a, NEW b PROVE IsFiniteSet({a, b})
<1>1. IsFiniteSet({} \cup {a}) BY FS_EmptySet, FS_AddElement
<1>2. IsFiniteSet(({} \cup {a}) \cup {b}) BY <1>1, FS_AddElement
<1>3. {a, b} = ({} \cup {a}) \cup {b} OBVIOUS
<1> QED BY <1>2, <1>3

\* The companies of a plan are filers, and finitely many.
LEMMA PlanCiks ==
    ASSUME NEW plan, \A b \in ALL_BUCKETS : ListedRows(plan[b])
    PROVE  distinct_ciks(plan) \in SUBSET Universe /\ IsFiniteSet(distinct_ciks(plan))
<1>1. PICK of : of = [b \in ALL_BUCKETS |-> {plan[b][i].cik : i \in DOMAIN plan[b]}] OBVIOUS
<1>2. ASSUME NEW b \in ALL_BUCKETS PROVE IsFiniteSet(of[b]) /\ of[b] \in SUBSET Universe
  <2>1. IsFiniteSet(DOMAIN plan[b]) BY RowsAreNumbered DEF ListedRows
  <2>2. PICK cik : cik = [i \in DOMAIN plan[b] |-> plan[b][i].cik] OBVIOUS
  <2>3. of[b] = {cik[i] : i \in DOMAIN plan[b]} BY <1>1, <2>2
  <2>4. IsFiniteSet({cik[i] : i \in DOMAIN plan[b]}) BY <2>1, ImageFinite
  <2>5. \A i \in DOMAIN plan[b] : plan[b][i].cik \in Universe BY DEF ListedRows, SetOf, Listed
  <2> QED BY <1>1, <2>3, <2>4, <2>5
<1>3. IsFiniteSet(ALL_BUCKETS)
  <2>1. ALL_BUCKETS = {"form3", "form4", "form5", "form144", "form13f", "form8k", "sc13d", "sc13g",
                       "def14a", "form10k"}
    BY DEF ALL_BUCKETS, matching_forms
  <2>2. IsFiniteSet({"form3", "form4"} \cup {"form5", "form144"})
    BY PairFinite, FS_Union
  <2>3. IsFiniteSet({"form13f", "form8k"} \cup {"sc13d", "sc13g"})
    BY PairFinite, FS_Union
  <2>4. IsFiniteSet((({"form3", "form4"} \cup {"form5", "form144"})
                     \cup ({"form13f", "form8k"} \cup {"sc13d", "sc13g"})) \cup {"def14a", "form10k"})
    BY <2>2, <2>3, PairFinite, FS_Union
  <2>5. ALL_BUCKETS = (({"form3", "form4"} \cup {"form5", "form144"})
                       \cup ({"form13f", "form8k"} \cup {"sc13d", "sc13g"})) \cup {"def14a", "form10k"}
    BY <2>1
  <2> QED BY <2>4, <2>5
<1>4. IsFiniteSet(UNION {of[b] : b \in ALL_BUCKETS}) BY <1>2, <1>3, UnionFinite
<1>5. distinct_ciks(plan) = UNION {of[b] : b \in ALL_BUCKETS} BY <1>1 DEF distinct_ciks
<1> QED BY <1>2, <1>4, <1>5

\* What is requested is about filers and documents of the archive.
LEMMA DispatchSound ==
    ASSUME NEW c, NEW plan, \A b \in ALL_BUCKETS : ListedRows(plan[b]), NEW active
    PROVE  SoundTasks(_dispatch_per_filing_fetches(c, plan, active))
<1> DEFINE Of(b) == IF b \in active THEN plan[b] ELSE <<>>
<1>1. ListedRows(<<>>) BY EmptyRows DEF ListedRows
<1>2. /\ ListedRows(Of("form4")) /\ ListedRows(Of("form3")) /\ ListedRows(Of("form5"))
      /\ ListedRows(Of("form13f")) /\ ListedRows(Of("form8k")) /\ ListedRows(Of("sc13d"))
      /\ ListedRows(Of("sc13g")) /\ ListedRows(Of("def14a")) /\ ListedRows(Of("form144"))
      /\ ListedRows(Of("form10k")) /\ ListedRows(plan["form10k"])
  BY <1>1 DEF ALL_BUCKETS, matching_forms
<1> HIDE DEF Of
<1>3. PICK t1 : t1 = Tasks("form4", Of("form4") \o Of("form3") \o Of("form5")) OBVIOUS
<1>4. PICK t2 : t2 = Tasks("form13f", Of("form13f")) OBVIOUS
<1>5. PICK t3 : t3 = Tasks("primary", IF c.include_8k_events THEN Of("form8k") ELSE <<>>) OBVIOUS
<1>6. PICK t4 : t4 = Tasks("primary", Of("sc13d") \o Of("sc13g") \o Of("def14a") \o Of("form144"))
  OBVIOUS
<1>7. PICK t5 : t5 = Tasks("exhibit21",
                           IF c.include_subsidiaries THEN plan["form10k"] ELSE Of("form10k"))
  OBVIOUS
<1>8. PICK t6 : t6 = FactsTasks(IF c.include_xbrl_metrics THEN distinct_ciks(plan) ELSE {}) OBVIOUS
<1>9. SoundTasks(t1) BY <1>2, <1>3, ListedJoined, TasksSound
<1>10. SoundTasks(t2) BY <1>2, <1>4, TasksSound
<1>11. SoundTasks(t3) BY <1>1, <1>2, <1>5, TasksSound
<1>12. SoundTasks(t4) BY <1>2, <1>6, ListedJoined, TasksSound
<1>13. SoundTasks(t5) BY <1>2, <1>7, TasksSound
<1>14. SoundTasks(t6)
  <2>1. IsFiniteSet({}) BY FS_EmptySet
  <2> QED BY <2>1, <1>8, PlanCiks, FactsTasksSound
<1>15. SoundTasks(t1 \o t2 \o t3 \o t4 \o t5 \o t6)
  BY <1>9, <1>10, <1>11, <1>12, <1>13, <1>14, TasksJoined
<1>16. _dispatch_per_filing_fetches(c, plan, active) = t1 \o t2 \o t3 \o t4 \o t5 \o t6
  BY <1>3, <1>4, <1>5, <1>6, <1>7, <1>8 DEF _dispatch_per_filing_fetches, Of
<1> QED BY <1>15, <1>16

LEMMA NextTask ==
    ASSUME NEW tasks, SoundTasks(tasks), tasks # <<>>
    PROVE  SoundTask(Head(tasks)) /\ SoundTasks(Tail(tasks))
<1>1. tasks \in Seq(SetOf(tasks)) BY DEF SoundTasks, IsRows
<1>2. /\ Head(tasks) \in SetOf(tasks) /\ Tail(tasks) \in Seq(SetOf(tasks)) BY <1>1, HeadTailProperties
<1>3. IsRows(Tail(tasks)) /\ SetOf(Tail(tasks)) \subseteq SetOf(tasks)
  <2>1. PICK t : t = Tail(tasks) OBVIOUS
  <2>2. /\ Len(t) \in Nat /\ DOMAIN t = 1..Len(t) /\ t \in [1..Len(t) -> SetOf(tasks)]
    BY <1>2, <2>1, LenProperties
  <2>3. t = [i \in 1..Len(t) |-> t[i]] BY <2>2
  <2>4. IsRows(t) BY <2>2, <2>3, NumberedAreRows
  <2>5. \A i \in 1..Len(t) : t[i] \in SetOf(tasks) BY <2>2
  <2> QED BY <2>1, <2>2, <2>4, <2>5 DEF SetOf
<1> QED BY <1>2, <1>3 DEF SoundTasks

(***************************************************************************)
(* The invariant.  Every download is of the archive (SourceInv), and the   *)
(* tables of a finished extraction are anchored in the companies and the   *)
(* index written with them (TablesInv).                                    *)
(***************************************************************************)
Locations ==
    {"idle", "resolve", "cache", "quarters", "submissions", "tickers", "dispatch", "fetch",
     "extract", "sinks", "identity", "forms", "build"}

\* Without a company scope nothing is asked of the companies.
CompaniesWritten(ids, slice) ==
    slice.companies # <<>> => \A cik \in InScopeOf(slice) : <<"company", cik>> \in ids

SourceInv ==
    /\ DOMAIN disk = DiskFields
    /\ pc \in Locations
    /\ Archived(disk.raw) /\ disk.facts \subseteq Universe
    /\ {f.cik : f \in disk.raw} \subseteq disk.dirs
    /\ disk.index # <<>> => ListedRows(disk.index[1].rows)
    /\ SoundTasks(todo)
    /\ pc # "fetch" => todo = <<>>

\* tables: processed/; rows: the index.
WholeTables(tables, rows) ==
    /\ CompaniesWritten(tables.ids, tables.slice)
    /\ \A row \in tables.rows :
          Anchored(row, tables.ids, InScopeOf(tables.slice), Indexed(rows))

TablesInv ==
    /\ disk.csvs # <<>> => disk.csvs = <<disk.csvs[1]>>
    /\ disk.csvs # <<>> /\ ~disk.csvs[1].whole => disk.csvs[1].rows = {}
    /\ disk.index # <<>> => disk.csvs # <<>>
    /\ Whole => WholeTables(disk.csvs[1], disk.index[1].rows)
    /\ pc = "dispatch" => disk.index # <<>>
    /\ pc \in {"identity", "forms"} => disk.csvs # <<>> /\ ~disk.csvs[1].whole
    /\ pc = "forms" => disk.index # <<>> /\ CompaniesWritten(disk.csvs[1].ids, build_slice)

ScopeInv == SourceInv /\ TablesInv

LEMMA InitScope == Init => ScopeInv
<1> SUFFICES ASSUME Init PROVE ScopeInv OBVIOUS
<1>1. PICK seed \in Seeds : disk = ColdDirectory(seed) BY DEF Init
<1>2. /\ DOMAIN disk = DiskFields /\ disk.raw = seed /\ disk.dirs = {f.cik : f \in seed}
      /\ disk.facts = {} /\ disk.index = <<>> /\ disk.csvs = <<>>
  BY <1>1 DEF ColdDirectory, DiskFields
<1>3. Archived(disk.raw) BY <1>2, ArchiveAssumption DEF Archived
<1>4. SoundTasks(todo) BY EmptyRows DEF Init, SoundTasks
<1>5. SourceInv BY <1>2, <1>3, <1>4 DEF Init, SourceInv, Locations
<1>6. TablesInv BY <1>2 DEF Init, TablesInv, Whole
<1> QED BY <1>5, <1>6 DEF ScopeInv

(***************************************************************************)
(* The downloads.                                                          *)
(***************************************************************************)
\* A step that writes neither raw/ nor processed/.
Reads == /\ DOMAIN disk' = DOMAIN disk
         /\ disk'.raw = disk.raw /\ disk'.dirs = disk.dirs /\ disk'.facts = disk.facts
         /\ disk'.index = disk.index /\ disk'.csvs = disk.csvs

\* A step to a location that the extraction does not begin with.
Elsewhere == pc' \in Locations \ {"dispatch", "fetch", "identity", "forms"}

LEMMA ReadKeepsTables ==
    ASSUME TablesInv, disk'.index = disk.index, disk'.csvs = disk.csvs,
           pc' \notin {"identity", "forms"}, pc' = "dispatch" => disk.index # <<>>
    PROVE  TablesInv'
<1>1. Whole' = Whole BY DEF Whole
<1>2. WholeTables(disk.csvs[1], disk.index[1].rows)' = WholeTables(disk.csvs[1], disk.index[1].rows)
  OBVIOUS
<1> QED BY <1>1, <1>2 DEF TablesInv

LEMMA ReadKeepsScope ==
    ASSUME ScopeInv, Reads, pc # "fetch", UNCHANGED todo,
           Elsewhere \/ (pc' = "dispatch" /\ disk.index # <<>>)
    PROVE  ScopeInv'
<1>1. todo = <<>> BY DEF ScopeInv, SourceInv
<1>2. SourceInv' BY <1>1 DEF ScopeInv, SourceInv, Reads, Elsewhere, Locations
<1>3. TablesInv' BY ReadKeepsTables DEF ScopeInv, Reads, Elsewhere
<1> QED BY <1>2, <1>3 DEF ScopeInv

\* Steps before and after the downloads of the dispatch.
LEMMA PlainStepScope ==
    ASSUME ScopeInv,
           \/ DownloadTickers \/ ResolveCompanies \/ _load_cached_graph
           \/ fetch_quarterly_master_idx \/ fetch_submissions_bulk \/ fetch_company_tickers
           \/ Extract \/ _build_graph \/ \E c \in Calls : open(c)
           \/ NextDay
    PROVE  ScopeInv'
<1>0. DOMAIN disk = DiskFields BY DEF ScopeInv, SourceInv
<1>1. Reads
  BY <1>0 DEF Reads, DiskFields, DownloadTickers, ResolveCompanies, _load_cached_graph,
       fetch_quarterly_master_idx, fetch_submissions_bulk, fetch_company_tickers, Extract,
       _build_graph, open, NextDay, Request
<1>2. pc # "fetch" /\ UNCHANGED todo
  BY DEF DownloadTickers, ResolveCompanies, _load_cached_graph,
       fetch_quarterly_master_idx, fetch_submissions_bulk, fetch_company_tickers, Extract,
       _build_graph, open, NextDay
<1>3. ASSUME fetch_company_tickers
      PROVE  Elsewhere \/ (pc' = "dispatch" /\ disk.index # <<>>)
  BY <1>3 DEF fetch_company_tickers, Request, Goes, Raises, Returns, AfterRaw, Elsewhere, Locations
<1>4. ASSUME _load_cached_graph \/ ResolveCompanies
      PROVE  Elsewhere
  BY <1>4 DEF _load_cached_graph, ResolveCompanies, Goes, Raises, Returns, Elsewhere, Locations
<1>5. ASSUME DownloadTickers \/ fetch_quarterly_master_idx \/ fetch_submissions_bulk
      PROVE  Elsewhere
  BY <1>5 DEF DownloadTickers, fetch_quarterly_master_idx, fetch_submissions_bulk, Request, Goes,
       Raises, Returns, Elsewhere, Locations
<1>6. ASSUME Extract \/ _build_graph \/ NextDay \/ \E c \in Calls : open(c)
      PROVE  Elsewhere
  BY <1>6 DEF Extract, _build_graph, NextDay, open, Goes, Returns, Elsewhere, Locations
<1>7. Elsewhere \/ (pc' = "dispatch" /\ disk.index # <<>>)
  BY <1>3, <1>4, <1>5, <1>6
<1> QED BY <1>1, <1>2, <1>7, ReadKeepsScope

LEMMA DispatchScope ==
    ASSUME ScopeInv, Dispatch
    PROVE  ScopeInv'
<1>1. disk.index # <<>> /\ disk' = disk /\ pc' = "fetch" BY DEF ScopeInv, TablesInv, Dispatch, Goes
<1>2. PICK plan : plan = prepare_dispatch_plan(disk.index[1].rows, call.companies,
                                               Window(call, Calendar[today][1]))
  OBVIOUS
<1>3. \A b \in ALL_BUCKETS : ListedRows(plan[b])
  BY <1>1, <1>2, PlanListed DEF ScopeInv, SourceInv
<1>4. SoundTasks(todo')
  <2>1. todo' = _dispatch_per_filing_fetches(call, plan, resolve_fetch_buckets(call.forms))
    BY <1>2, Zenon DEF Dispatch
  <2> QED BY <2>1, <1>3, DispatchSound
<1>5. SourceInv' BY <1>1, <1>4 DEF ScopeInv, SourceInv, Locations
<1>6. TablesInv' BY <1>1, ReadKeepsTables DEF ScopeInv
<1> QED BY <1>5, <1>6 DEF ScopeInv

\* What a request brings is of the archive, under the directory it made.
LEMMA FilingSound ==
    ASSUME SourceInv, NEW task, SoundTask(task), task.fetcher # "facts"
    PROVE  /\ Archived(disk.raw \cup Brings(task))
           /\ {f.cik : f \in disk.raw \cup Brings(task)} \subseteq disk.dirs \cup Directory(task)
<1>1. ASSUME NEW f \in Targets(task) PROVE f.cik = task.cik /\ f.acc = task.acc
  <2>1. \A dir, name : /\ File(task, dir, name).cik = task.cik
                       /\ File(task, dir, name).acc = task.acc
    BY DEF File
  <2>2. \E dir, name : f = File(task, dir, name)
    <3>1. CASE task.fetcher = "form4" BY <3>1 DEF Targets
    <3>2. CASE task.fetcher = "form13f" BY <3>2 DEF Targets
    <3>3. CASE task.fetcher = "primary" BY <3>3 DEF Targets
    <3>4. CASE task.fetcher = "exhibit21" BY <3>4 DEF Targets
    <3> QED BY <3>1, <3>2, <3>3, <3>4 DEF Targets
  <2> QED BY <2>1, <2>2
<1>2. \A f \in Brings(task) : f \in Targets(task) /\ f.name \in DOMAIN Docs[task.acc]
  BY DEF Brings
<1>3. \A f \in Brings(task) : InArchive(f) BY <1>1, <1>2 DEF InArchive, SoundTask
<1>4. \A f \in Brings(task) : f \in disk.raw \/ f.cik \in Directory(task)
  BY <1>2 DEF Directory
<1> QED BY <1>3, <1>4 DEF SourceInv, Archived

LEMMA BatchScope ==
    ASSUME ScopeInv, run_batch
    PROVE  ScopeInv'
<1>1. PICK task : task = Head(todo) OBVIOUS
<1>2. SoundTask(task) /\ SoundTasks(todo') /\ pc = "fetch" /\ pc' = "fetch"
  BY <1>1, NextTask DEF ScopeInv, SourceInv, run_batch, Remaining
<1>3. DOMAIN disk = DiskFields BY DEF ScopeInv, SourceInv
<1>4. \/ task.fetcher = "facts" /\ FactsDone(task)
      \/ task.fetcher # "facts" /\ FilingDone(task)
      \/ \E made \in Made(task) : disk' = [disk EXCEPT !.dirs = @ \cup made]
  BY <1>1 DEF run_batch
<1>5. /\ DOMAIN disk' = DiskFields /\ disk'.index = disk.index /\ disk'.csvs = disk.csvs
  BY <1>3, <1>4 DEF FactsDone, FilingDone, DiskFields
<1>6. /\ Archived(disk'.raw) /\ disk'.facts \subseteq Universe
      /\ {f.cik : f \in disk'.raw} \subseteq disk'.dirs
  <2>1. CASE task.fetcher = "facts" /\ FactsDone(task)
    BY <2>1, <1>2, <1>3 DEF FactsDone, DiskFields, ScopeInv, SourceInv, SoundTask
  <2>2. CASE task.fetcher # "facts" /\ FilingDone(task)
    <3>1. /\ disk'.raw = disk.raw \cup Brings(task) /\ disk'.dirs = disk.dirs \cup Directory(task)
          /\ disk'.facts = disk.facts
      BY <2>2, <1>3 DEF FilingDone, DiskFields
    <3> QED BY <2>2, <3>1, <1>2, FilingSound DEF ScopeInv, SourceInv
  <2>3. CASE \E made \in Made(task) : disk' = [disk EXCEPT !.dirs = @ \cup made]
    BY <2>3, <1>3 DEF DiskFields, ScopeInv, SourceInv
  <2> QED BY <1>4, <2>1, <2>2, <2>3
<1>7. SourceInv' BY <1>2, <1>5, <1>6 DEF ScopeInv, SourceInv, Locations
<1>8. TablesInv' BY <1>2, <1>5, ReadKeepsTables DEF ScopeInv
<1> QED BY <1>7, <1>8 DEF ScopeInv

LEMMA BatchesDoneScope ==
    ASSUME ScopeInv, DispatchDone
    PROVE  ScopeInv'
<1>1. disk' = disk /\ todo' = <<>> /\ todo = <<>> /\ pc' = "extract" BY DEF DispatchDone, Goes
<1>2. SourceInv' BY <1>1 DEF ScopeInv, SourceInv, Locations
<1>3. TablesInv' BY <1>1, ReadKeepsTables DEF ScopeInv
<1> QED BY <1>2, <1>3 DEF ScopeInv

(***************************************************************************)
(* The extraction.                                                         *)
(***************************************************************************)
\* A step of the extraction leaves the downloads alone.
LEMMA ExtractionReads ==
    ASSUME SourceInv, OpenSinks \/ emit_from_submissions \/ run_all_at
    PROVE  /\ DOMAIN disk' = DiskFields
           /\ disk'.raw = disk.raw /\ disk'.dirs = disk.dirs /\ disk'.facts = disk.facts
           /\ todo' = <<>> /\ todo = <<>> /\ call' = call
BY DEF SourceInv, DiskFields, OpenSinks, emit_from_submissions, run_all_at

LEMMA SinksScope ==
    ASSUME ScopeInv, OpenSinks
    PROVE  ScopeInv'
<1>1. /\ DOMAIN disk' = DiskFields
      /\ disk'.raw = disk.raw /\ disk'.dirs = disk.dirs /\ disk'.facts = disk.facts
      /\ todo' = <<>> /\ todo = <<>>
  BY ExtractionReads DEF ScopeInv
<1>2. /\ disk'.csvs = <<Torn>> /\ disk'.index = disk.index /\ pc' = "identity"
  BY DEF ScopeInv, SourceInv, DiskFields, OpenSinks, Goes
<1>3. ~disk'.csvs[1].whole /\ disk'.csvs[1].rows = {} /\ disk'.csvs # <<>>
      /\ disk'.csvs = <<disk'.csvs[1]>>
  BY <1>2 DEF Torn
<1>4. SourceInv' BY <1>1, <1>2 DEF ScopeInv, SourceInv, Locations
<1>5. ~Whole' BY <1>3 DEF Whole
<1>6. TablesInv' BY <1>2, <1>3, <1>5 DEF TablesInv
<1> QED BY <1>4, <1>6 DEF ScopeInv

\* The identity pass writes a row for every filer of the scope.
LEMMA CompaniesOfScope == CompaniesWritten(CompanyIds(Published, IdentityScope), build_slice)
<1> SUFFICES ASSUME build_slice.companies # <<>>, NEW cik \in InScopeOf(build_slice)
             PROVE  <<"company", cik>> \in CompanyIds(Published, IdentityScope)
  BY DEF CompaniesWritten
<1>1. cik \in Universe /\ InSlice(build_slice, cik) BY DEF InScopeOf
<1>2. cik \in build_slice.companies[1] BY <1>1 DEF InSlice, Admits
<1>3. PICK i \in DOMAIN Published : cik = Published[i].cik BY <1>1 DEF Universe
<1>4. i \in IdentityScope BY <1>1, <1>2, <1>3 DEF IdentityScope, Emitted, EffectiveCiks
<1> QED BY <1>3, <1>4 DEF CompanyIds

LEMMA IdentityKeepsScope ==
    ASSUME ScopeInv, emit_from_submissions
    PROVE  ScopeInv'
<1>1. /\ DOMAIN disk' = DiskFields
      /\ disk'.raw = disk.raw /\ disk'.dirs = disk.dirs /\ disk'.facts = disk.facts
      /\ todo' = <<>> /\ todo = <<>> /\ build_slice' = build_slice
  BY ExtractionReads DEF ScopeInv, build_slice
<1>2. PICK ids : ids = CompanyIds(Published, IdentityScope) OBVIOUS
<1>3. /\ disk'.csvs = <<[Torn EXCEPT !.ids = ids]>> /\ disk'.index = <<NewIndex>> /\ pc' = "forms"
  BY <1>2 DEF ScopeInv, SourceInv, DiskFields, emit_from_submissions, Goes
<1>4. /\ ~disk'.csvs[1].whole /\ disk'.csvs[1].rows = {} /\ disk'.csvs[1].ids = ids
      /\ disk'.csvs # <<>> /\ disk'.csvs = <<disk'.csvs[1]>> /\ disk'.index # <<>>
  BY <1>3 DEF Torn
<1>5. ListedRows(disk'.index[1].rows) BY <1>3, IndexListed DEF NewIndex
<1>6. SourceInv' BY <1>1, <1>3, <1>5 DEF ScopeInv, SourceInv, Locations
<1>7. ~Whole' BY <1>4 DEF Whole
<1>8. CompaniesWritten(disk'.csvs[1].ids, build_slice')
  BY <1>1, <1>2, <1>4, CompaniesOfScope
<1>9. TablesInv' BY <1>3, <1>4, <1>7, <1>8 DEF TablesInv
<1> QED BY <1>6, <1>9 DEF ScopeInv

LEMMA RunKeepsScope ==
    ASSUME ScopeInv, run_all_at
    PROVE  ScopeInv'
<1>1. /\ DOMAIN disk' = DiskFields
      /\ disk'.raw = disk.raw /\ disk'.dirs = disk.dirs /\ disk'.facts = disk.facts
      /\ todo' = <<>> /\ todo = <<>>
  BY ExtractionReads DEF ScopeInv
<1>2. PICK old : old = disk.csvs[1].ids OBVIOUS
<1>3. PICK rows : rows = disk.index[1].rows OBVIOUS
<1>4. PICK new : new = [whole |-> TRUE, slice |-> build_slice,
                        ids |-> old \cup Written.ids, rows |-> Written.rows]
  OBVIOUS
<1>5. disk'.csvs = <<new>> /\ disk'.index = disk.index /\ pc' \in {"dispatch", "build"}
  BY <1>2, <1>4 DEF ScopeInv, SourceInv, DiskFields, run_all_at, Goes
<1>6. disk.index # <<>> /\ CompaniesWritten(old, build_slice)
  BY <1>2 DEF ScopeInv, TablesInv, run_all_at
<1>7. AllAnchored(Written, InScopeOf(build_slice), Indexed(rows))
  BY <1>3, FormsAnchored DEF ScopeInv, SourceInv, Written
<1>8. CompaniesWritten(new.ids, build_slice) BY <1>4, <1>6 DEF CompaniesWritten
<1>9. ASSUME NEW row \in new.rows
      PROVE  Anchored(row, new.ids, InScopeOf(build_slice), Indexed(rows))
  <2>1. Anchored(row, Written.ids, InScopeOf(build_slice), Indexed(rows))
    BY <1>4, <1>7 DEF AllAnchored
  <2>2. Written.ids \subseteq new.ids BY <1>4
  <2> QED BY <2>1, <2>2 DEF Anchored
<1>10. WholeTables(new, rows) BY <1>4, <1>8, <1>9 DEF WholeTables
<1>11. disk'.csvs[1] = new /\ disk'.csvs # <<>> /\ new.whole /\ disk'.index[1].rows = rows
  BY <1>3, <1>4, <1>5
<1>12. SourceInv' BY <1>1, <1>5 DEF ScopeInv, SourceInv, Locations
<1>13. TablesInv' BY <1>5, <1>6, <1>10, <1>11 DEF TablesInv
<1> QED BY <1>12, <1>13 DEF ScopeInv

\* A kill leaves at worst a prefix of the index, when no table is whole.
LEMMA KillKeepsScope ==
    ASSUME ScopeInv, Kill
    PROVE  ScopeInv'
<1>1. pc' = "idle" /\ todo' = <<>> BY DEF Kill, Raises, Returns
<1>2. DOMAIN disk = DiskFields BY DEF ScopeInv, SourceInv
<1>3. /\ DOMAIN disk' = DiskFields /\ disk'.raw = disk.raw /\ disk'.dirs = disk.dirs
      /\ disk'.facts = disk.facts /\ disk'.csvs = disk.csvs
  BY <1>2 DEF Kill, LeftBehind, DiskFields
<1>4. disk'.index = disk.index \/ (pc = "identity" /\ disk'.index \in TornIndexes)
  BY <1>2 DEF Kill, LeftBehind, DiskFields
<1>5. SoundTasks(<<>>) BY EmptyRows DEF SoundTasks
<1>6. CASE disk'.index = disk.index
  <2>1. SourceInv' BY <1>1, <1>3, <1>5, <1>6 DEF ScopeInv, SourceInv, Locations
  <2>2. TablesInv' BY <1>1, <1>3, <1>6, ReadKeepsTables DEF ScopeInv
  <2> QED BY <2>1, <2>2 DEF ScopeInv
<1>7. CASE pc = "identity" /\ disk'.index \in TornIndexes
  <2>1. PICK rows \in Prefixes(NewIndex.rows) :
           disk'.index = <<[NewIndex EXCEPT !.rows = rows, !.whole = FALSE]>>
    BY <1>7 DEF TornIndexes
  <2>2. ListedRows(NewIndex.rows) BY IndexListed DEF NewIndex
  <2>3. disk'.index[1].rows = rows /\ disk'.index # <<>>
    <3>1. PICK new : new = [NewIndex EXCEPT !.rows = rows, !.whole = FALSE] OBVIOUS
    <3>2. new.rows = rows BY <3>1 DEF NewIndex
    <3>3. disk'.index = <<new>> BY <2>1, <3>1, Zenon
    <3> QED BY <3>2, <3>3
  <2>4. ListedRows(disk'.index[1].rows) BY <2>2, <2>3, PrefixListed
  <2>5. disk.csvs # <<>> /\ ~disk.csvs[1].whole BY <1>7 DEF ScopeInv, TablesInv
  <2>6. SourceInv' BY <1>1, <1>3, <1>5, <2>4 DEF ScopeInv, SourceInv, Locations
  <2>7. ~Whole' BY <1>3, <2>5 DEF Whole
  <2>8. TablesInv' BY <1>1, <1>3, <2>3, <2>5, <2>7 DEF ScopeInv, TablesInv
  <2> QED BY <2>6, <2>8 DEF ScopeInv
<1> QED BY <1>4, <1>6, <1>7

LEMMA NextScope == ScopeInv /\ [Next]_vars => ScopeInv'
<1> SUFFICES ASSUME ScopeInv, [Next]_vars PROVE ScopeInv' OBVIOUS
<1>1. CASE UNCHANGED vars
  BY <1>1 DEF vars, ScopeInv, SourceInv, TablesInv, Whole, build_slice
<1>2. CASE Step
  BY <1>2, PlainStepScope, DispatchScope, BatchScope, BatchesDoneScope, SinksScope,
     IdentityKeepsScope, RunKeepsScope DEF Step
<1>3. CASE Kill BY <1>3, KillKeepsScope
<1>4. CASE NextDay \/ \E c \in Calls : open(c) BY <1>4, PlainStepScope
<1> QED BY <1>1, <1>2, <1>3, <1>4 DEF Next

\* Whatever a call downloads is of the archive, and the tables of a finished
\* extraction are anchored, after any calls, faults and kills.
THEOREM ScopeCorrect == Spec => []ScopeInv
<1> QED BY InitScope, NextScope, PTL DEF Spec

\* The types of the working directory and of the plan in progress (TypeOK).
THEOREM SecTypes == Spec => []TypeOK
<1>1. ScopeInv => TypeOK
  <2> SUFFICES ASSUME ScopeInv PROVE TypeOK OBVIOUS
  <2>1. ASSUME NEW c \in ToSet(disk.csvs), NEW row \in c.rows
        PROVE  DOMAIN row.refs = Header(row.table) \cup {"filing"}
    <3>1. disk.csvs # <<>> BY DEF ToSet
    <3>2. c = disk.csvs[1]
      <4>1. PICK t : disk.csvs = <<t>> BY <3>1 DEF ScopeInv, TablesInv
      <4> QED BY <4>1 DEF ToSet
    <3>3. c.whole /\ Whole BY <3>1, <3>2 DEF ScopeInv, TablesInv, Whole
    <3> QED BY <3>2, <3>3 DEF ScopeInv, TablesInv, WholeTables, Anchored
  <2> QED BY <2>1 DEF TypeOK, ScopeInv, SourceInv, TablesInv, Locations
<1> QED BY <1>1, ScopeCorrect, PTL

\* The fact tables of a finished extraction point only at rows of the identity
\* tables and of the index written with them, whatever other calls left on
\* disk (FactsAnchored; sec/extract/identity/mod.rs:53, sec/extract/util.rs:130).
THEOREM FactsStayAnchored == Spec => []FactsAnchored
<1>1. ScopeInv => FactsAnchored
  <2> SUFFICES ASSUME ScopeInv, Whole, NEW row \in disk.csvs[1].rows,
                      NEW column \in DOMAIN row.refs,
                      ~(column = "company" /\ disk.csvs[1].slice.companies = <<>>)
               PROVE  Resolves(disk.csvs[1].ids, row, column)
    BY DEF FactsAnchored
  <2> DEFINE tables == disk.csvs[1]
  <2>1. /\ CompaniesWritten(tables.ids, tables.slice)
        /\ Anchored(row, tables.ids, InScopeOf(tables.slice), Indexed(disk.index[1].rows))
    BY DEF ScopeInv, TablesInv, WholeTables
  <2>2. column \in {"filing", "person", "company", "manager", "security"}
    BY <2>1 DEF Anchored, Header
  <2>3. CASE column = "filing" BY <2>1, <2>3 DEF Anchored, Resolves
  <2>4. CASE column = "person" BY <2>1, <2>4 DEF Anchored, Resolves
  <2>5. CASE column = "company"
    BY <2>1, <2>5 DEF Anchored, Resolves, CompaniesWritten
  <2>6. CASE column \in {"manager", "security"} BY <2>1, <2>6 DEF Anchored, Resolves
  <2> QED BY <2>2, <2>3, <2>4, <2>5, <2>6
<1> QED BY <1>1, ScopeCorrect, PTL

(***************************************************************************)
(* What a call asks for, it gets: the index of a company scope lists its   *)
(* whole slice, the dispatch requests every filing of it, and what a       *)
(* filing says is in the tables of an extraction that finds it on disk.    *)
(***************************************************************************)
\* rows: an index.
ListsSlice(rows, slice, day) ==
    /\ SetOf(rows) \subseteq Filings
    /\ \A f \in Filings : f.since <= day /\ SliceMatches(slice, f) => f \in SetOf(rows)

LEMMA EmittedAre ==
    ASSUME NEW filings, IsRows(filings), NEW slice, NEW day
    PROVE  /\ IsRows(EmittedRows(filings, slice, day))
           /\ SetOf(EmittedRows(filings, slice, day))
                = {f \in SetOf(filings) : f.since <= day /\ SliceMatches(slice, f)}
<1> DEFINE K == {i \in DOMAIN filings : filings[i].since <= day /\ SliceMatches(slice, filings[i])}
<1>1. EmittedRows(filings, slice, day) = SelectedAt(filings, K)
  BY Zenon DEF EmittedRows, Select, SelectedAt
<1>2. K \in SUBSET (DOMAIN filings) OBVIOUS
<1>3. {filings[i] : i \in K}
        = {f \in SetOf(filings) : f.since <= day /\ SliceMatches(slice, f)}
  BY DEF SetOf
<1> HIDE DEF K
<1> QED BY <1>1, <1>2, <1>3, SelectedRows

\* The index of a company scope.
LEMMA IndexListsSlice ==
    ASSUME NEW slice, slice.companies # <<>>, NEW ciks, ciks = slice.companies[1], NEW day
    PROVE  ListsSlice(IndexRows(Published, Emitted(Published, slice, ciks), slice, day), slice, day)
<1>1. PICK emitted : emitted = Emitted(Published, slice, ciks) OBVIOUS
<1>2. PICK seqs : seqs = [i \in DOMAIN Published |->
                            IF i \in emitted THEN EmittedRows(Published[i].filings, slice, day)
                            ELSE <<>>]
  OBVIOUS
<1>3. PICK N \in Nat : DOMAIN Published = 1..N BY FilersListed, RowsAreNumbered
<1>4. ASSUME NEW k \in 1..N PROVE IsRows(Published[k].filings)
  BY <1>3, FilersListed DEF ListedRows
<1>5. \A k \in 1..N : IsRows(seqs[k]) BY <1>2, <1>3, <1>4, EmittedAre, EmptyRows
<1>6. Len(seqs) = N
  <2>1. seqs = [i \in 1..N |-> seqs[i]] BY <1>2, <1>3
  <2> QED BY <2>1, NumberedAreRows
<1>7. PICK rows : rows = IndexRows(Published, emitted, slice, day) OBVIOUS
<1>8. SetOf(rows) = AllOf(seqs, N)
  <2>1. rows = FlatRows(seqs) BY <1>2, <1>7, Zenon DEF IndexRows
  <2> QED BY <2>1, <1>5, <1>6, FlatElements
<1>9. ASSUME NEW f
      PROVE  f \in Filings <=> \E k \in 1..N : f \in SetOf(Published[k].filings)
  <2>1. ToSet(Published) = {Published[k] : k \in 1..N} BY <1>3 DEF ToSet
  <2> QED BY <2>1, SetsOfRows DEF Filings
<1>10. SetOf(rows) \subseteq Filings
  <2> SUFFICES ASSUME NEW f \in SetOf(rows) PROVE f \in Filings OBVIOUS
  <2>1. PICK k \in 1..N : f \in SetOf(seqs[k]) BY <1>8 DEF AllOf
  <2>2. f \in SetOf(Published[k].filings) BY <2>1, <1>2, <1>3, <1>4, EmittedAre, EmptyRows
  <2> QED BY <2>2, <1>9
<1>11. ASSUME NEW f \in Filings, f.since <= day, SliceMatches(slice, f) PROVE f \in SetOf(rows)
  <2>1. PICK k \in 1..N : f \in SetOf(Published[k].filings) BY <1>9
  <2>2. f.cik = Published[k].cik
    <3>1. Published[k] \in ToSet(Published) BY <1>3 DEF ToSet
    <3> QED BY <2>1, <3>1, SetsOfRows, ArchiveAssumption
  <2>3. k \in emitted
    BY <1>1, <1>3, <1>11, <2>2 DEF Emitted, InSlice, SliceMatches, Admits
  <2>4. f \in SetOf(EmittedRows(Published[k].filings, slice, day))
    BY <1>4, <1>11, <2>1, EmittedAre
  <2>5. f \in SetOf(seqs[k]) BY <1>2, <1>3, <2>3, <2>4
  <2> QED BY <1>8, <2>5 DEF AllOf
<1> QED BY <1>1, <1>7, <1>10, <1>11 DEF ListsSlice

LEMMA PlanHolds ==
    ASSUME NEW index, ListedRows(index), NEW companies, NEW window, NEW b \in ALL_BUCKETS,
           NEW f \in SetOf(index), Planned(companies, window, f), f.form \in matching_forms[b]
    PROVE  f \in SetOf(prepare_dispatch_plan(index, companies, window)[b])
<1>1. PICK kept : kept = Select(index, LAMBDA filing : Planned(companies, window, filing)) OBVIOUS
<1>2. PICK K : K = {i \in DOMAIN index : Planned(companies, window, index[i])} OBVIOUS
<1>3. kept = SelectedAt(index, K) BY <1>1, <1>2, Zenon DEF Select, SelectedAt
<1>4. IsRows(kept) /\ SetOf(kept) = {index[i] : i \in K}
  BY <1>2, <1>3, SelectedRows DEF ListedRows
<1>5. f \in SetOf(kept) BY <1>2, <1>4 DEF SetOf
<1>6. PICK M : M = {i \in DOMAIN kept : kept[i].form \in matching_forms[b]} OBVIOUS
<1>7. SetOf(SelectedAt(kept, M)) = {kept[i] : i \in M} BY <1>4, <1>6, SelectedRows
<1>8. f \in SetOf(SelectedAt(kept, M)) BY <1>5, <1>6, <1>7 DEF SetOf
<1>9. PICK plan : plan = [c \in ALL_BUCKETS |->
                            Select(kept, LAMBDA filing : filing.form \in matching_forms[c])]
  OBVIOUS
<1>10. prepare_dispatch_plan(index, companies, window) = plan
  BY <1>1, <1>9, Zenon DEF prepare_dispatch_plan
<1>11. plan[b] = SelectedAt(kept, M) BY <1>6, <1>9, Zenon DEF Select, SelectedAt
<1> QED BY <1>8, <1>10, <1>11

LEMMA TaskListed ==
    ASSUME NEW fetcher, NEW filings, NEW f \in SetOf(filings)
    PROVE  Task(fetcher, f) \in SetOf(Tasks(fetcher, filings))
<1>1. PICK ts : ts = Tasks(fetcher, filings) OBVIOUS
<1>2. DOMAIN ts = DOMAIN filings /\ \A i \in DOMAIN filings : ts[i] = Task(fetcher, filings[i])
  BY <1>1 DEF Tasks
<1>3. PICK i \in DOMAIN filings : f = filings[i] BY DEF SetOf
<1>4. ts[i] \in SetOf(ts) BY <1>2, <1>3 DEF SetOf
<1> QED BY <1>1, <1>2, <1>3, <1>4

LEMMA RowsJoined ==
    ASSUME NEW a, NEW b, ListedRows(a), ListedRows(b)
    PROVE  SetOf(a \o b) = SetOf(a) \cup SetOf(b)
<1>1. PICK c : c = a \o b OBVIOUS
<1>2. Follows(c, a, b) BY <1>1, Concatenated DEF ListedRows
<1> QED BY <1>1, <1>2 DEF Follows

LEMMA RequestsJoined ==
    ASSUME NEW a, NEW b, SoundTasks(a), SoundTasks(b)
    PROVE  SetOf(a \o b) = SetOf(a) \cup SetOf(b)
<1>1. PICK c : c = a \o b OBVIOUS
<1>2. Follows(c, a, b) BY <1>1, Concatenated DEF SoundTasks
<1> QED BY <1>1, <1>2 DEF Follows

\* Every request a planned filing calls for is made.
LEMMA DispatchAsks ==
    ASSUME NEW plan, \A b \in ALL_BUCKETS : ListedRows(plan[b]),
           NEW f, \A b \in from_form_string(f.form) : f \in SetOf(plan[b]),
           NEW task \in RequestsFor(f)
    PROVE  task \in SetOf(_dispatch_per_filing_fetches(call, plan, resolve_fetch_buckets(call.forms)))
<1>0. PICK active : active = resolve_fetch_buckets(call.forms) OBVIOUS
<1> DEFINE Of(b) == IF b \in active THEN plan[b] ELSE <<>>
           In(b) == f.form \in matching_forms[b] /\ b \in active
<1>1. ListedRows(<<>>) BY EmptyRows DEF ListedRows
<1>2. /\ ListedRows(Of("form4")) /\ ListedRows(Of("form3")) /\ ListedRows(Of("form5"))
      /\ ListedRows(Of("form13f")) /\ ListedRows(Of("form8k")) /\ ListedRows(Of("sc13d"))
      /\ ListedRows(Of("sc13g")) /\ ListedRows(Of("def14a")) /\ ListedRows(Of("form144"))
      /\ ListedRows(Of("form10k")) /\ ListedRows(plan["form10k"])
  BY <1>1 DEF ALL_BUCKETS, matching_forms
<1>3. \A b \in ALL_BUCKETS : In(b) => f \in SetOf(Of(b)) BY DEF from_form_string
<1>4. f.form \in matching_forms["form10k"] => f \in SetOf(plan["form10k"])
  BY DEF from_form_string, ALL_BUCKETS, matching_forms
<1>5. {"form3", "form4", "form5", "form144", "form13f", "form8k", "sc13d", "sc13g", "def14a",
       "form10k"} \subseteq ALL_BUCKETS
  BY DEF ALL_BUCKETS, matching_forms
<1>6. \/ task = Task("form4", f) /\ (In("form3") \/ In("form4") \/ In("form5"))
      \/ task = Task("form13f", f) /\ In("form13f")
      \/ task = Task("primary", f) /\ In("form8k") /\ call.include_8k_events
      \/ task = Task("primary", f) /\ (In("sc13d") \/ In("sc13g") \/ In("def14a") \/ In("form144"))
      \/ /\ task = Task("exhibit21", f)
         /\ \/ In("form10k")
            \/ f.form \in matching_forms["form10k"] /\ call.include_subsidiaries
  BY <1>0 DEF RequestsFor
<1> HIDE DEF Of, In
<1>7. PICK t1 : t1 = Tasks("form4", Of("form4") \o Of("form3") \o Of("form5")) OBVIOUS
<1>8. PICK t2 : t2 = Tasks("form13f", Of("form13f")) OBVIOUS
<1>9. PICK t3 : t3 = Tasks("primary", IF call.include_8k_events THEN Of("form8k") ELSE <<>>) OBVIOUS
<1>10. PICK t4 : t4 = Tasks("primary", Of("sc13d") \o Of("sc13g") \o Of("def14a") \o Of("form144"))
  OBVIOUS
<1>11. PICK t5 : t5 = Tasks("exhibit21",
                            IF call.include_subsidiaries THEN plan["form10k"] ELSE Of("form10k"))
  OBVIOUS
<1>12. PICK t6 : t6 = FactsTasks(IF call.include_xbrl_metrics THEN distinct_ciks(plan) ELSE {})
  OBVIOUS
<1>13. SoundTasks(t1) BY <1>2, <1>7, ListedJoined, TasksSound
<1>14. SoundTasks(t2) BY <1>2, <1>8, TasksSound
<1>15. SoundTasks(t3) BY <1>1, <1>2, <1>9, TasksSound
<1>16. SoundTasks(t4) BY <1>2, <1>10, ListedJoined, TasksSound
<1>17. SoundTasks(t5) BY <1>2, <1>11, TasksSound
<1>18. SoundTasks(t6)
  <2>1. IsFiniteSet({}) BY FS_EmptySet
  <2> QED BY <2>1, <1>12, PlanCiks, FactsTasksSound
<1>19. SetOf(t1 \o t2 \o t3 \o t4 \o t5 \o t6)
         = SetOf(t1) \cup SetOf(t2) \cup SetOf(t3) \cup SetOf(t4) \cup SetOf(t5) \cup SetOf(t6)
  BY <1>13, <1>14, <1>15, <1>16, <1>17, <1>18, TasksJoined, RequestsJoined
<1>20. task \in SetOf(t1) \cup SetOf(t2) \cup SetOf(t3) \cup SetOf(t4) \cup SetOf(t5)
  <2>1. CASE task = Task("form4", f) /\ (In("form3") \/ In("form4") \/ In("form5"))
    <3>1. f \in SetOf(Of("form4") \o Of("form3") \o Of("form5"))
      BY <2>1, <1>2, <1>3, <1>5, ListedJoined, RowsJoined
    <3> QED BY <2>1, <3>1, <1>7, TaskListed
  <2>2. CASE task = Task("form13f", f) /\ In("form13f")
    BY <2>2, <1>3, <1>5, <1>8, TaskListed
  <2>3. CASE task = Task("primary", f) /\ In("form8k") /\ call.include_8k_events
    BY <2>3, <1>3, <1>5, <1>9, TaskListed
  <2>4. CASE /\ task = Task("primary", f)
             /\ In("sc13d") \/ In("sc13g") \/ In("def14a") \/ In("form144")
    <3>1. f \in SetOf(Of("sc13d") \o Of("sc13g") \o Of("def14a") \o Of("form144"))
      BY <2>4, <1>2, <1>3, <1>5, ListedJoined, RowsJoined
    <3> QED BY <2>4, <3>1, <1>10, TaskListed
  <2>5. CASE task = Task("exhibit21", f) /\ In("form10k") /\ ~call.include_subsidiaries
    BY <2>5, <1>3, <1>5, <1>11, TaskListed
  <2>6. CASE task = Task("exhibit21", f) /\ f.form \in matching_forms["form10k"]
               /\ call.include_subsidiaries
    BY <2>6, <1>4, <1>11, TaskListed
  <2>7. In("form10k") => f.form \in matching_forms["form10k"] BY DEF In
  <2> QED BY <1>6, <2>1, <2>2, <2>3, <2>4, <2>5, <2>6, <2>7
<1>21. _dispatch_per_filing_fetches(call, plan, active) = t1 \o t2 \o t3 \o t4 \o t5 \o t6
  BY <1>7, <1>8, <1>9, <1>10, <1>11, <1>12 DEF _dispatch_per_filing_fetches, Of
<1> QED BY <1>0, <1>19, <1>20, <1>21

\* The form an index gives an accession it lists.
LEMMA FormOfListed ==
    ASSUME NEW rows, IsRows(rows), SetOf(rows) \subseteq Filings, NEW f \in SetOf(rows)
    PROVE  load_form_index(rows, f.acc) = f.form
<1>1. PICK n \in Nat : DOMAIN rows = 1..n BY RowsAreNumbered
<1>2. PICK listed : listed = {i \in DOMAIN rows : rows[i].acc = f.acc} OBVIOUS
<1>3. listed # {} /\ listed \in SUBSET (1..n) BY <1>1, <1>2 DEF SetOf
<1>4. IsFiniteSet(listed) /\ listed \in SUBSET Nat
  <2>1. IsFiniteSet(1..n) BY FS_Interval
  <2>2. IsFiniteSet(listed) BY <1>3, <2>1, FS_Subset
  <2>3. 1..n \in SUBSET Nat OBVIOUS
  <2> QED BY <1>3, <2>2, <2>3
<1>5. Max(listed) \in listed BY <1>3, <1>4, MaxIsGreatest
<1>6. rows[Max(listed)].form = f.form
  <2>1. rows[Max(listed)] \in Filings /\ f \in Filings /\ rows[Max(listed)].acc = f.acc
    BY <1>2, <1>5 DEF SetOf
  <2> QED BY <2>1, ArchiveAssumption
<1> QED BY <1>2, <1>3, <1>6 DEF load_form_index

LEMMA OneListed ==
    ASSUME NEW f, f \in Filings
    PROVE  /\ Indexed(<<f>>) = {f.acc}
           /\ load_form_index(<<f>>, f.acc) = f.form
           /\ \A acc : acc # f.acc => load_form_index(<<f>>, acc) = ""
<1>1. PICK rows : rows = <<f>> OBVIOUS
<1>2. DOMAIN rows = 1..1 /\ rows[1] = f BY <1>1
<1>3. IsRows(rows)
  <2>1. rows = [i \in 1..1 |-> rows[i]] BY <1>1
  <2> QED BY <2>1, NumberedAreRows
<1>4. SetOf(rows) = {f} BY <1>2 DEF SetOf
<1>5. load_form_index(rows, f.acc) = f.form BY <1>3, <1>4, FormOfListed
<1>6. ASSUME NEW acc, acc # f.acc PROVE load_form_index(rows, acc) = ""
  <2>1. {i \in DOMAIN rows : rows[i].acc = acc} = {} BY <1>2, <1>6
  <2> QED BY <2>1 DEF load_form_index
<1>7. Indexed(rows) = {f.acc} BY <1>2 DEF Indexed
<1> QED BY <1>1, <1>5, <1>6, <1>7

\* The walks of some files for one filing see what those of all do.
Among(some, raw, f, rows) ==
    some \subseteq raw /\ IsRows(rows) /\ SetOf(rows) \subseteq Filings /\ f \in SetOf(rows)

LEMMA WalksSee ==
    ASSUME NEW some, NEW raw, NEW f, NEW rows, Among(some, raw, f, rows), NEW slice
    PROVE  /\ \A names : InScope(walk_filings_in_index(some, <<f>>, names), slice)
                           \subseteq InScope(walk_filings_in_index(raw, rows, names), slice)
           /\ \A forms : "" \notin forms =>
                InScope(walk_filings_of_form(some, <<f>>, forms), slice)
                  \subseteq InScope(walk_filings_of_form(raw, rows, forms), slice)
<1>1. f \in Filings /\ f.acc \in Indexed(rows) /\ some \subseteq raw
  BY DEF Among, Indexed, SetOf
<1>2. load_form_index(rows, f.acc) = f.form BY FormOfListed DEF Among
<1>3. /\ Indexed(<<f>>) = {f.acc}
      /\ load_form_index(<<f>>, f.acc) = f.form
      /\ \A acc : acc # f.acc => load_form_index(<<f>>, acc) = ""
  BY <1>1, OneListed
<1>4. \A names : walk_filings_in_index(some, <<f>>, names)
                   \subseteq walk_filings_in_index(raw, rows, names)
  BY <1>1, <1>3 DEF walk_filings_in_index, walk_filings
<1>5. \A forms : "" \notin forms =>
         walk_filings_of_form(some, <<f>>, forms) \subseteq walk_filings_of_form(raw, rows, forms)
  BY <1>1, <1>2, <1>3 DEF walk_filings_of_form, walk_filings
<1> QED BY <1>4, <1>5 DEF InScope

LEMMA FormsSee ==
    ASSUME NEW some, NEW raw, NEW f, NEW rows, Among(some, raw, f, rows), NEW facts, NEW slice
    PROVE  Forms(some, {}, <<f>>, slice).rows \subseteq Forms(raw, facts, rows, slice).rows
<1>1. PICK one : one = <<f>> OBVIOUS
<1>2. \A names : InScope(walk_filings_in_index(some, one, names), slice)
                   \subseteq InScope(walk_filings_in_index(raw, rows, names), slice)
  BY <1>1, WalksSee
<1>3. \A forms : "" \notin forms =>
        InScope(walk_filings_of_form(some, one, forms), slice)
          \subseteq InScope(walk_filings_of_form(raw, rows, forms), slice)
  BY <1>1, WalksSee
<1>4. /\ "" \notin matching_forms.sc13d \cup matching_forms.sc13g
      /\ "" \notin matching_forms.def14a /\ "" \notin matching_forms.form8k
      /\ "" \notin matching_forms.form10k /\ "" \notin S1Forms /\ "" \notin ProspectusForms
  BY DEF matching_forms, S1Forms, ProspectusForms
<1>5. ownership_extract(some, one, slice) \subseteq ownership_extract(raw, rows, slice)
  <2>1. walk_filings_in_index(some, one, is_ownership_xml)
          \subseteq walk_filings_in_index(raw, rows, is_ownership_xml)
    <3>1. some \subseteq raw /\ f \in Filings /\ f.acc \in Indexed(rows)
      BY DEF Among, Indexed, SetOf
    <3>2. Indexed(one) = {f.acc} BY <1>1, <3>1, OneListed
    <3> QED BY <3>1, <3>2 DEF walk_filings_in_index, walk_filings
  <2> QED BY <2>1 DEF ownership_extract
<1>6. form13f_extract(some, one, slice) \subseteq form13f_extract(raw, rows, slice)
  BY <1>2 DEF form13f_extract
<1>7. extract_subsidiaries(some, one, slice) \subseteq extract_subsidiaries(raw, rows, slice)
  BY <1>2 DEF extract_subsidiaries
<1>8. schedule13_extract(some, one, slice) \subseteq schedule13_extract(raw, rows, slice)
  BY <1>3, <1>4 DEF schedule13_extract
<1>9. def14a_extract(some, one, slice) \subseteq def14a_extract(raw, rows, slice)
  BY <1>3, <1>4 DEF def14a_extract
<1>10. /\ eightk_extract(some, one, slice) \subseteq eightk_extract(raw, rows, slice)
       /\ extract_earnings(some, one, slice) \subseteq extract_earnings(raw, rows, slice)
  BY <1>3, <1>4 DEF eightk_extract, extract_earnings
<1>11. /\ extract_item12(some, one, slice) \subseteq extract_item12(raw, rows, slice)
       /\ extract_item13(some, one, slice) \subseteq extract_item13(raw, rows, slice)
  BY <1>3, <1>4 DEF extract_item12, extract_item13
<1>12. \A forms : "" \notin forms =>
         extract_offering_filings(some, one, slice, forms)
           \subseteq extract_offering_filings(raw, rows, slice, forms)
  BY <1>3 DEF extract_offering_filings
<1>13. xbrl_extract({}, slice) = {} BY DEF xbrl_extract
<1>14. \A P, Q : P \subseteq Q => Together(P).rows \subseteq Together(Q).rows
  BY DEF Together, Output
<1>15. PICK P : P = ownership_extract(some, one, slice)
                     \cup form13f_extract(some, one, slice)
                     \cup schedule13_extract(some, one, slice)
                     \cup def14a_extract(some, one, slice)
                     \cup eightk_extract(some, one, slice)
                     \cup extract_earnings(some, one, slice)
                     \cup extract_item12(some, one, slice)
                     \cup extract_item13(some, one, slice)
                     \cup extract_subsidiaries(some, one, slice)
                     \cup extract_offering_filings(some, one, slice, S1Forms)
                     \cup extract_offering_filings(some, one, slice, ProspectusForms)
                     \cup xbrl_extract({}, slice)
  OBVIOUS
<1>16. PICK Q : Q = ownership_extract(raw, rows, slice)
                     \cup form13f_extract(raw, rows, slice)
                     \cup schedule13_extract(raw, rows, slice)
                     \cup def14a_extract(raw, rows, slice)
                     \cup eightk_extract(raw, rows, slice)
                     \cup extract_earnings(raw, rows, slice)
                     \cup extract_item12(raw, rows, slice)
                     \cup extract_item13(raw, rows, slice)
                     \cup extract_subsidiaries(raw, rows, slice)
                     \cup extract_offering_filings(raw, rows, slice, S1Forms)
                     \cup extract_offering_filings(raw, rows, slice, ProspectusForms)
                     \cup xbrl_extract(facts, slice)
  OBVIOUS
<1>17. P \subseteq Q
  BY <1>4, <1>5, <1>6, <1>7, <1>8, <1>9, <1>10, <1>11, <1>12, <1>13, <1>15, <1>16
<1>18. Forms(some, {}, one, slice) = Together(P) /\ Forms(raw, facts, rows, slice) = Together(Q)
  BY <1>15, <1>16, Zenon DEF Forms
<1> QED BY <1>1, <1>14, <1>17, <1>18

(***************************************************************************)
(* What holds on the way of a call about named companies: until the        *)
(* dispatch nothing is planned; from there on, when it planned from an     *)
(* index of its own slice and no request failed, whatever a wanted filing  *)
(* calls for is on disk or still to do; and the tables are made with an    *)
(* index of this call.                                                     *)
(***************************************************************************)
Early == {"resolve", "cache", "quarters", "submissions", "tickers"}

Late == {"fetch", "extract", "sinks", "identity", "forms", "build"}

IndexComplete ==
    disk.index # <<>> /\ disk.index[1].whole /\ disk.index[1].slice.companies # <<>>
      => ListsSlice(disk.index[1].rows, disk.index[1].slice, disk.index[1].day)

IndexOwn ==
    /\ disk.index # <<>> /\ disk.index[1].whole
    /\ disk.index[1].slice = build_slice /\ disk.index[1].day = disk.zip

\* A call about named companies whose requests succeed, planned from an index
\* of its own.
Answered == NonEmpty(call.companies) # <<>> /\ ~missed /\ PlannedFromOwnIndex

Covered ==
    \A f \in Wanted : \A task \in RequestsFor(f) :
        task \in SetOf(todo) \/ Brings(task) \subseteq disk.raw

CompleteInv ==
    /\ IndexComplete
    /\ pc \in Early => basis = <<>>
    /\ pc = "forms" \/ (pc = "build" /\ Forced) => IndexOwn
    /\ pc \in Late /\ Answered => Covered

\* A step that reads the call, its index and its downloads only.
Unread == /\ UNCHANGED <<today, call, todo, missed, basis>>
          /\ disk'.raw = disk.raw /\ disk'.zip = disk.zip

LEMMA ReadKeepsCovered ==
    ASSUME Unread
    PROVE  (Answered' <=> Answered) /\ (Covered' <=> Covered) /\ (IndexOwn' <=> disk'.index # <<>>
             /\ disk'.index[1].whole /\ disk'.index[1].slice = build_slice /\ disk'.index[1].day = disk.zip)
<1>1. build_slice' = build_slice BY DEF Unread, build_slice
<1>2. Answered' <=> Answered BY <1>1 DEF Unread, Answered, PlannedFromOwnIndex
<1>3. Wanted' = Wanted BY <1>1 DEF Unread, Wanted
<1>4. \A f : RequestsFor(f)' = RequestsFor(f) BY DEF Unread, RequestsFor
<1>5. Covered' <=> Covered BY <1>3, <1>4 DEF Unread, Covered
<1>6. IndexOwn' <=> disk'.index # <<>> /\ disk'.index[1].whole
             /\ disk'.index[1].slice = build_slice /\ disk'.index[1].day = disk.zip
  BY <1>1 DEF Unread, IndexOwn
<1> QED BY <1>2, <1>5, <1>6

LEMMA InitComplete == Init => CompleteInv
<1> SUFFICES ASSUME Init PROVE CompleteInv OBVIOUS
<1>1. disk.index = <<>> BY DEF Init, ColdDirectory
<1> QED BY <1>1 DEF Init, CompleteInv, IndexComplete, Early, Late

\* Up to the dispatch, and between calls.
LEMMA EarlyStepComplete ==
    ASSUME ScopeInv, CompleteInv,
           \/ DownloadTickers \/ ResolveCompanies \/ _load_cached_graph
           \/ fetch_quarterly_master_idx \/ fetch_submissions_bulk \/ fetch_company_tickers
           \/ NextDay \/ \E c \in Calls : open(c)
    PROVE  CompleteInv'
<1>0. DOMAIN disk = DiskFields BY DEF ScopeInv, SourceInv
<1>1. disk'.index = disk.index
  BY <1>0 DEF DiskFields, DownloadTickers, ResolveCompanies, _load_cached_graph,
       fetch_quarterly_master_idx, fetch_submissions_bulk, fetch_company_tickers, open, NextDay,
       Request
<1>2. ASSUME fetch_company_tickers
      PROVE  pc \in Early /\ basis' = basis /\ pc' \in {"idle", "extract", "sinks", "dispatch"}
  BY <1>2 DEF fetch_company_tickers, Request, Goes, Raises, Returns, AfterRaw, Early
<1>3. ASSUME \/ DownloadTickers \/ ResolveCompanies \/ _load_cached_graph
             \/ fetch_quarterly_master_idx \/ fetch_submissions_bulk
      PROVE  pc \in Early /\ basis' = basis /\ pc' \in Early \cup {"idle"}
  BY <1>3 DEF DownloadTickers, ResolveCompanies, _load_cached_graph, fetch_quarterly_master_idx,
       fetch_submissions_bulk, Request, Goes, Raises, Returns, Early
<1>4. ASSUME NextDay \/ \E c \in Calls : open(c)
      PROVE  pc' = "idle" \/ (basis' = <<>> /\ pc' = "resolve")
  <2>1. CASE NextDay BY <2>1 DEF NextDay
  <2>2. CASE \E c \in Calls : open(c) BY <2>2 DEF open
  <2> QED BY <1>4, <2>1, <2>2
<1>5. \/ pc' = "idle"
      \/ basis' = <<>> /\ pc' \in Early \cup {"idle", "extract", "sinks", "dispatch"}
  BY <1>2, <1>3, <1>4 DEF CompleteInv, Early
<1>6. IndexComplete' BY <1>1 DEF CompleteInv, IndexComplete
<1>7. basis' = <<>> => ~Answered' BY DEF Answered, PlannedFromOwnIndex
<1> QED BY <1>5, <1>6, <1>7 DEF CompleteInv, Early, Late

\* A filing the call wants is planned for.
LEMMA WantedPlanned ==
    ASSUME NEW f \in Wanted, NEW task \in RequestsFor(f)
    PROVE  Planned(call.companies, Window(call, Calendar[today][1]), f)
<1>1. Admits(NonEmpty(call.companies), f.cik)
  BY DEF Wanted, SliceMatches, build_slice, from_optional_filters
<1>2. from_form_string(f.form) # {}
  BY DEF RequestsFor, from_form_string, ALL_BUCKETS, matching_forms
<1>3. InWindow(Window(call, Calendar[today][1]), f)
  <2>1. PICK y : y = Calendar[today][1] OBVIOUS
  <2>2. CASE call.years # <<>>
    BY <2>2 DEF Wanted, Window, InWindow
  <2>3. CASE call.years = <<>>
    <3>1. y + 1 - call.detailed <= f.year /\ f.year <= y BY <2>1, <2>3 DEF Wanted
    <3>2. FirstEdgarYear <= f.year BY ArchiveAssumption DEF Wanted
    <3> QED BY <2>1, <2>3, <3>1, <3>2 DEF Window, InWindow
  <2> QED BY <2>2, <2>3
<1> QED BY <1>1, <1>2, <1>3 DEF Planned

LEMMA DispatchComplete ==
    ASSUME ScopeInv, CompleteInv, Dispatch
    PROVE  CompleteInv'
<1>1. /\ disk' = disk /\ basis' = disk.index /\ pc' = "fetch" /\ disk.index # <<>>
      /\ UNCHANGED <<today, call, missed>>
  BY DEF ScopeInv, TablesInv, Dispatch, Goes
<1>2. PICK rows : rows = disk.index[1].rows OBVIOUS
<1>3. PICK plan : plan = prepare_dispatch_plan(rows, call.companies,
                                               Window(call, Calendar[today][1]))
  OBVIOUS
<1>4. ListedRows(rows) /\ \A b \in ALL_BUCKETS : ListedRows(plan[b])
  BY <1>1, <1>2, <1>3, PlanListed DEF ScopeInv, SourceInv
<1>5. todo' = _dispatch_per_filing_fetches(call, plan, resolve_fetch_buckets(call.forms))
  BY <1>2, <1>3, Zenon DEF Dispatch
<1>6. ASSUME Answered', NEW f \in Wanted, NEW task \in RequestsFor(f)
      PROVE  task \in SetOf(todo')
  <2>1. /\ disk.index[1].whole /\ disk.index[1].slice = build_slice
        /\ disk.index[1].day = disk.zip /\ NonEmpty(call.companies) # <<>>
    BY <1>1, <1>6 DEF Answered, PlannedFromOwnIndex, build_slice
  <2>2. build_slice.companies # <<>> BY <2>1 DEF build_slice, from_optional_filters
  <2>3. ListsSlice(rows, build_slice, disk.zip)
    BY <1>1, <1>2, <2>1, <2>2 DEF CompleteInv, IndexComplete
  <2>4. f \in SetOf(rows) BY <2>3 DEF ListsSlice, Wanted
  <2>5. Planned(call.companies, Window(call, Calendar[today][1]), f) BY WantedPlanned
  <2>6. \A b \in from_form_string(f.form) : f \in SetOf(plan[b])
    BY <1>3, <1>4, <2>4, <2>5, PlanHolds DEF from_form_string
  <2> QED BY <1>4, <1>5, <2>6, DispatchAsks
<1>7. Answered' => Covered'
  <2>1. build_slice' = build_slice BY <1>1 DEF build_slice
  <2>2. Wanted' = Wanted BY <1>1, <2>1 DEF Wanted
  <2>3. \A f : RequestsFor(f)' = RequestsFor(f) BY <1>1 DEF RequestsFor
  <2> QED BY <1>6, <2>2, <2>3 DEF Covered
<1>8. IndexComplete' BY <1>1 DEF CompleteInv, IndexComplete
<1> QED BY <1>1, <1>7, <1>8 DEF CompleteInv, Early

\* What was asked for first is done, or a request has failed.
LEMMA BatchComplete ==
    ASSUME ScopeInv, CompleteInv, run_batch
    PROVE  CompleteInv'
<1>0. DOMAIN disk = DiskFields BY DEF ScopeInv, SourceInv
<1>1. PICK task : task = Head(todo) OBVIOUS
<1>2. /\ pc = "fetch" /\ pc' = "fetch" /\ todo # <<>> /\ todo' = Tail(todo)
      /\ UNCHANGED <<today, call, basis>>
  BY DEF run_batch, Remaining
<1>3. \/ task.fetcher = "facts" /\ FactsDone(task) /\ missed' = missed
      \/ task.fetcher # "facts" /\ FilingDone(task) /\ missed' = missed
      \/ missed' = TRUE /\ \E made \in Made(task) : disk' = [disk EXCEPT !.dirs = @ \cup made]
  BY <1>1 DEF run_batch
<1>4. /\ disk'.index = disk.index /\ disk'.zip = disk.zip
      /\ disk.raw \subseteq disk'.raw
      /\ missed' # TRUE /\ task.fetcher # "facts" => disk'.raw = disk.raw \cup Brings(task)
  BY <1>0, <1>3 DEF FactsDone, FilingDone, DiskFields
<1>5. SetOf(todo) \subseteq {task} \cup SetOf(todo')
  <2>1. todo \in Seq(SetOf(todo)) BY DEF ScopeInv, SourceInv, SoundTasks, IsRows
  <2>2. /\ DOMAIN todo = 1..Len(todo) /\ Len(todo) \in Nat /\ Len(todo) # 0
    BY <1>2, <2>1, EmptySeq, LenProperties
  <2>3. PICK t : t = todo' OBVIOUS
  <2>4. DOMAIN t = 1..(Len(todo) - 1) /\ \A i \in 1..(Len(todo) - 1) : t[i] = todo[i + 1]
    BY <1>2, <2>1, <2>2, <2>3, HeadTailProperties
  <2>5. todo[1] = task BY <1>1
  <2>6. ASSUME NEW i \in 1..Len(todo) PROVE todo[i] \in {task} \cup SetOf(t)
    <3>1. CASE i = 1 BY <2>5, <3>1
    <3>2. CASE i # 1
      <4>1. i - 1 \in DOMAIN t /\ t[i - 1] = todo[i] BY <2>2, <2>4, <3>2
      <4> QED BY <4>1 DEF SetOf
    <3> QED BY <3>1, <3>2
  <2> QED BY <2>2, <2>3, <2>6 DEF SetOf
<1>6. build_slice' = build_slice BY <1>2 DEF build_slice
<1>7. Wanted' = Wanted /\ \A f : RequestsFor(f)' = RequestsFor(f)
  BY <1>2, <1>4, <1>6 DEF Wanted, RequestsFor
<1>8. ASSUME Answered' PROVE Covered'
  <2>1. Answered /\ missed' # TRUE
    <3>1. ~missed' /\ NonEmpty(call.companies)' # <<>> /\ PlannedFromOwnIndex'
      BY <1>8 DEF Answered
    <3>2. missed' # TRUE /\ missed' = missed BY <3>1, <1>3
    <3>3. NonEmpty(call.companies) # <<>> /\ PlannedFromOwnIndex
      BY <3>1, <1>2, <1>4, <1>6 DEF PlannedFromOwnIndex
    <3> QED BY <3>1, <3>2, <3>3 DEF Answered
  <2>2. Covered BY <1>2, <2>1 DEF CompleteInv, Late
  <2>3. ASSUME NEW f, NEW t \in RequestsFor(f) PROVE t.fetcher # "facts"
    BY <2>3 DEF RequestsFor, Task
  <2>4. ASSUME NEW f \in Wanted, NEW t \in RequestsFor(f)
        PROVE  t \in SetOf(todo') \/ Brings(t) \subseteq disk'.raw
    <3>1. t \in SetOf(todo) \/ Brings(t) \subseteq disk.raw BY <2>2 DEF Covered
    <3>2. CASE t = task BY <3>2, <2>1, <2>3, <1>4
    <3>3. CASE t # task BY <3>1, <3>3, <1>4, <1>5
    <3> QED BY <3>2, <3>3
  <2> QED BY <2>4, <1>7 DEF Covered
<1>9. IndexComplete' BY <1>4 DEF CompleteInv, IndexComplete
<1> QED BY <1>2, <1>8, <1>9 DEF CompleteInv, Early

\* The identity pass writes the index of this call.
LEMMA IdentityComplete ==
    ASSUME ScopeInv, CompleteInv, emit_from_submissions
    PROVE  CompleteInv'
<1>0. DOMAIN disk = DiskFields BY DEF ScopeInv, SourceInv
<1>1. PICK new : new = NewIndex OBVIOUS
<1>2. /\ disk'.index = <<new>> /\ disk'.raw = disk.raw /\ disk'.zip = disk.zip
      /\ pc = "identity" /\ pc' = "forms" /\ UNCHANGED <<today, call, todo, missed, basis>>
  BY <1>0, <1>1 DEF DiskFields, emit_from_submissions, Goes
<1>3. /\ new.rows = IndexRows(Published, IdentityScope, build_slice, disk.zip)
      /\ new.slice = build_slice /\ new.day = disk.zip /\ new.whole
  BY <1>1 DEF NewIndex
<1>4. disk'.index # <<>> /\ disk'.index[1] = new BY <1>2
<1>5. build_slice' = build_slice BY <1>2 DEF build_slice
<1>6. IndexOwn' BY <1>2, <1>3, <1>4, <1>5 DEF IndexOwn
<1>7. IndexComplete'
  <2> SUFFICES ASSUME build_slice.companies # <<>>
               PROVE  ListsSlice(new.rows, build_slice, disk.zip)
    BY <1>3, <1>4 DEF IndexComplete
  <2>1. PICK ciks : ciks = build_slice.companies[1] OBVIOUS
  <2>2. IdentityScope = Emitted(Published, build_slice, ciks)
    BY <2>1 DEF IdentityScope, EffectiveCiks
  <2> QED BY <1>3, <2>1, <2>2, IndexListsSlice
<1>8. Unread BY <1>2 DEF Unread
<1>9. Answered' => Covered' BY <1>2, <1>8, ReadKeepsCovered DEF CompleteInv, Late
<1> QED BY <1>2, <1>6, <1>7, <1>9 DEF CompleteInv, Early

\* The other steps from the last download to the tables.
LEMMA LateStepComplete ==
    ASSUME ScopeInv, CompleteInv, DispatchDone \/ Extract \/ OpenSinks \/ run_all_at
    PROVE  CompleteInv'
<1>0. DOMAIN disk = DiskFields BY DEF ScopeInv, SourceInv
<1>1. /\ Unread /\ disk'.index = disk.index /\ pc \in Late /\ pc' \notin Early
  BY <1>0 DEF DiskFields, DispatchDone, Extract, OpenSinks, run_all_at, Goes, Unread, Late, Early
<1>2. Answered' => Covered' BY <1>1, ReadKeepsCovered DEF CompleteInv
<1>3. IndexComplete' BY <1>1 DEF CompleteInv, IndexComplete
<1>4. Forced' = Forced BY <1>1 DEF Unread, Forced
<1>5. pc' = "forms" \/ (pc' = "build" /\ Forced') => IndexOwn'
  <2>1. pc' # "forms" BY DEF DispatchDone, Extract, OpenSinks, run_all_at, Goes
  <2>2. ASSUME pc' = "build", Forced PROVE pc = "forms"
    BY <2>2 DEF DispatchDone, Extract, OpenSinks, run_all_at, Goes
  <2>3. IndexOwn => IndexOwn'
    <3>1. build_slice' = build_slice BY <1>1 DEF Unread, build_slice
    <3> QED BY <1>1, <3>1 DEF Unread, IndexOwn
  <2> QED BY <2>1, <2>2, <2>3, <1>4 DEF CompleteInv
<1> QED BY <1>1, <1>2, <1>3, <1>5 DEF CompleteInv

\* A kill may leave the index torn, which is then not whole.
LEMMA EndComplete ==
    ASSUME ScopeInv, CompleteInv, Kill \/ _build_graph
    PROVE  CompleteInv'
<1>0. DOMAIN disk = DiskFields BY DEF ScopeInv, SourceInv
<1>1. pc' = "idle" BY DEF Kill, _build_graph, Raises, Returns
<1>2. disk'.index = disk.index \/ disk'.index \in TornIndexes
  BY <1>0 DEF DiskFields, Kill, LeftBehind, _build_graph
<1>3. ASSUME disk'.index \in TornIndexes PROVE ~disk'.index[1].whole
  <2>1. PICK rows : disk'.index = <<[NewIndex EXCEPT !.rows = rows, !.whole = FALSE]>>
    BY <1>3 DEF TornIndexes
  <2>2. PICK new : new = [NewIndex EXCEPT !.rows = rows, !.whole = FALSE] OBVIOUS
  <2>3. ~new.whole BY <2>2 DEF NewIndex
  <2>4. disk'.index = <<new>> BY <2>1, <2>2, Zenon
  <2> QED BY <2>3, <2>4
<1>4. IndexComplete' BY <1>2, <1>3 DEF CompleteInv, IndexComplete
<1> QED BY <1>1, <1>4 DEF CompleteInv, Early, Late

LEMMA NextComplete == ScopeInv /\ CompleteInv /\ [Next]_vars => CompleteInv'
<1> SUFFICES ASSUME ScopeInv, CompleteInv, [Next]_vars PROVE CompleteInv' OBVIOUS
<1>1. CASE UNCHANGED vars
  <2>1. Unread /\ disk' = disk /\ pc' = pc BY <1>1 DEF vars, Unread
  <2>2. IndexComplete' /\ (Forced' <=> Forced) BY <2>1 DEF CompleteInv, IndexComplete, Unread, Forced
  <2>3. IndexOwn => IndexOwn' BY <2>1 DEF Unread, IndexOwn, build_slice
  <2>4. (Answered' <=> Answered) /\ (Covered' <=> Covered) BY <2>1, ReadKeepsCovered
  <2>5. basis' = basis BY <2>1 DEF Unread
  <2> QED BY <2>1, <2>2, <2>3, <2>4, <2>5 DEF CompleteInv
<1>2. CASE Step
  BY <1>2, EarlyStepComplete, DispatchComplete, BatchComplete, LateStepComplete, IdentityComplete,
     EndComplete DEF Step
<1>3. CASE Kill BY <1>3, EndComplete
<1>4. CASE NextDay \/ \E c \in Calls : open(c) BY <1>4, EarlyStepComplete
<1> QED BY <1>1, <1>2, <1>3, <1>4 DEF Next

\* On the way of a call, what it asks for is on disk or still to do, and its
\* index lists the whole of a company scope.
THEOREM CallsComplete == Spec => []CompleteInv
<1> QED BY InitComplete, NextComplete, ScopeCorrect, PTL DEF Spec

\* A call about named companies whose requests all succeed, planned from an
\* index of its own slice, returns every filing of its slice and window, except
\* what nested documents say (RepeatCompletes; sec/wrapper.py:585, sec/dispatch.rs).
THEOREM RepeatsComplete == Spec => RepeatCompletes
<1>1. ASSUME ScopeInv, BuildInv, CompleteInv, Next, Rebuilds, NonEmpty(call.companies) # <<>>,
             PlannedFromOwnIndex
      PROVE  CompleteFor(served'[1].of.rows)
  <2>1. pc = "build" /\ Forced /\ ~missed /\ served' # <<>> BY <1>1 DEF Rebuilds, Forced
  <2>2. Extracted /\ IndexOwn /\ Covered /\ todo = <<>>
    BY <1>1, <2>1 DEF BuildInv, CompleteInv, Late, Answered, ScopeInv, SourceInv
  <2>3. _build_graph
    BY <1>1, <2>1 DEF Next, Step, Kill, Raises, Returns, open, NextDay, DownloadTickers,
         ResolveCompanies, _load_cached_graph, fetch_quarterly_master_idx, fetch_submissions_bulk,
         fetch_company_tickers, Dispatch, run_batch, DispatchDone, Extract, OpenSinks,
         emit_from_submissions, run_all_at
  <2>4. served'[1].of.rows = Written.rows BY <2>2, <2>3 DEF _build_graph, Returns, Extracted
  <2>5. build_slice.companies # <<>> BY <1>1 DEF build_slice, from_optional_filters
  <2>6. PICK rows : rows = disk.index[1].rows OBVIOUS
  <2>7. ListsSlice(rows, build_slice, disk.zip) /\ IsRows(rows)
    BY <1>1, <2>2, <2>5, <2>6 DEF CompleteInv, IndexComplete, IndexOwn, ScopeInv, SourceInv, ListedRows
  <2>8. ASSUME NEW f \in Wanted, NEW task \in RequestsFor(f)
        PROVE  /\ Brings(task) \subseteq disk.raw
               /\ Forms(Brings(task), {}, <<f>>, build_slice).rows \subseteq Written.rows
    <3>1. Brings(task) \subseteq disk.raw BY <2>2, EmptyRows DEF Covered
    <3>2. Among(Brings(task), disk.raw, f, rows)
      BY <2>7, <3>1 DEF Among, ListsSlice, Wanted
    <3> QED BY <2>6, <3>1, <3>2, FormsSee DEF Written
  <2> QED BY <2>4, <2>8 DEF CompleteFor
<1>2. ScopeInv /\ BuildInv /\ CompleteInv /\ [Next]_vars =>
        [Rebuilds /\ NonEmpty(call.companies) # <<>> /\ PlannedFromOwnIndex
           => CompleteFor(served'[1].of.rows)]_vars
  BY <1>1
<1> QED BY <1>2, ScopeCorrect, ExtractedInv, CallsComplete, PTL DEF Spec, RepeatCompletes

==============================================================================
