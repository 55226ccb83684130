------------------------------ MODULE SecForms ------------------------------
(***************************************************************************)
(* What an extraction writes for the documents on disk (sec/extract/): the *)
(* walks of raw/filings/{cik}/{accession}/, the choice of an extractor for *)
(* a document, and the identity and fact rows each extractor emits.        *)
(*                                                                         *)
(* A file is [cik, acc, dir, name]: dir is "" at the top of the accession's *)
(* directory, and a subdirectory otherwise.  Docs gives what a parser      *)
(* finds in it: a record with the fields of NoContent.                     *)
(*                                                                         *)
(* A row of a fact table is [table, nid, refs]: its node id and the keys   *)
(* in its reference columns.  Other cells are left out.  An identity is a  *)
(* pair <<table, key>>.                                                    *)
(***************************************************************************)
EXTENDS SecScope, TLC

CONSTANTS Docs,   \* accession -> file name -> parsed content
          Facts   \* CIK -> the accessions named by its company facts, in order

NoContent ==
    [schema |-> "", type |-> "", reporter |-> "", issuer |-> "", roles |-> {},
     trades |-> <<>>, holdings |-> 0, planned |-> 0, past |-> 0,
     economics |-> FALSE, proceeds |-> FALSE, cusips |-> <<>>, holders |-> <<>>,
     owners |-> <<>>, compensation |-> <<>>, proposals |-> 0, payratio |-> FALSE,
     auditfees |-> FALSE, related |-> 0, items |-> {}, changes |-> <<>>,
     earnings |-> FALSE, subsidiaries |-> 0, offering |-> FALSE, selling |-> <<>>,
     underwriters |-> 0]

(***************************************************************************)
(* Tables: pairs of a table and one of its reference columns.  Every row   *)
(* also carries the accession it comes from.                               *)
(***************************************************************************)
OwnershipHeaders ==
    {"insider_transaction", "holding", "role", "planned_sale"} \X {"person", "company"}

InstitutionalHeaders == {"institutional_holding"} \X {"manager", "security"}

BeneficialHeaders == {"activist_filing", "holder_group"} \X {"company"}

PeriodicHeaders ==
    {"subsidiary", "related_party_transaction", "auditor"} \X {"company"}

CurrentHeaders ==
    ({"corporate_event", "ma_event", "vote_result", "auditor_change",
      "restatement", "earnings_release"} \X {"company"})
    \cup ({"officer_change"} \X {"company", "person"})

ProxyHeaders ==
    ({"proposal", "pay_vs_performance", "ceo_pay_ratio", "audit_fees"} \X {"company"})
    \cup ({"compensation"} \X {"company", "person"})
    \cup ({"fund_vote"} \X {"manager", "security"})

OfferingHeaders ==
    ({"offering", "underwriter", "use_of_proceeds"} \X {"company"})
    \cup ({"selling_stockholder"} \X {"company", "person"})
    \cup ({"merger"} \X {"company"})

MetricHeaders == {"metric_fact"} \X {"company"}

Headers ==
    OwnershipHeaders \cup InstitutionalHeaders \cup BeneficialHeaders \cup PeriodicHeaders
    \cup CurrentHeaders \cup ProxyHeaders \cup OfferingHeaders \cup MetricHeaders

\* The reference columns of a table.
Header(table) ==
    {column \in {"person", "company", "manager", "security"} : <<table, column>> \in Headers}

\* Variant: a row without its provenance columns.
BareRow(table, nid, acc, refs) == [table |-> table, nid |-> nid, refs |-> refs]

\* Provenance is the accession of the document the row was read from.
write_info_row(table, nid, acc, refs) ==
    [table |-> table, nid |-> nid,
     refs |-> [column \in DOMAIN refs \cup {"filing"} |->
                  IF column = "filing" THEN acc ELSE refs[column]]]

(***************************************************************************)
(* Node ids.  A person is keyed by CIK or by name, and a name seen on a    *)
(* Schedule 13 cover has a key space of its own.                           *)
(***************************************************************************)
person_nid_from_cik(cik) == <<"cik", cik>>

NamedPerson(name) == <<"p", name>>

ReportingPerson(name) == <<"rp", name>>

Lot(file, part, i) == <<file.acc, part, i>>

(***************************************************************************)
(* Walks: the file names each looks for, and the files found.  Only files  *)
(* two levels below raw/filings are seen.                                  *)
(***************************************************************************)
is_ownership_xml == {"form4.xml", "13f-infotable.xml", "primary_doc.xml"}

is_13f_xml == {"13f-infotable.xml"}

is_exhibit21_name == {"ex21.htm"}

IsHtml == {"primary.htm", "ex21.htm"}

Indexed(index) == {index[i].acc : i \in DOMAIN index}

\* The form listed last for an accession, "" when it is not indexed.
load_form_index(index, acc) ==
    LET listed == {i \in DOMAIN index : index[i].acc = acc}
    IN  IF listed = {} THEN "" ELSE index[Max(listed)].form

walk_filings(raw, names) == {f \in raw : f.dir = "" /\ f.name \in names}

\* Variant: every document on disk is walked, in scope or not.
WalkAll(raw, index, names) == walk_filings(raw, names)

walk_filings_in_index(raw, index, names) ==
    {f \in walk_filings(raw, names) : f.acc \in Indexed(index)}

walk_filings_of_form(raw, index, forms) ==
    {f \in walk_filings(raw, IsHtml) : load_form_index(index, f.acc) \in forms}

Content(file) == Docs[file.acc][file.name]

(***************************************************************************)
(* Emitters: the identities and the rows of one document.                  *)
(***************************************************************************)
Output(ids, rows) == [ids |-> ids, rows |-> rows]

Together(outputs) ==
    Output(UNION {o.ids : o \in outputs}, UNION {o.rows : o \in outputs})

People(keys) == {<<"person", key>> : key \in keys}

RoleRows(doc, file, since) ==
    {write_info_row("role", <<doc.reporter, doc.issuer, since, role>>, file.acc,
                    [person |-> person_nid_from_cik(doc.reporter), company |-> doc.issuer]) :
        role \in doc.roles}

InsiderRow(table, doc, file, part, i) ==
    write_info_row(table, Lot(file, part, i), file.acc,
                   [person |-> person_nid_from_cik(doc.reporter), company |-> doc.issuer])

HoldingRows(doc, file, part) ==
    {InsiderRow("holding", doc, file, part, i) : i \in 1..doc.holdings}

Direction == [A |-> "purchase", D |-> "sale"]

\* Every lot leaves a holding; one with a known direction a transaction too.
LotRows(doc, file) ==
    {InsiderRow("holding", doc, file, "lot", i) : i \in DOMAIN doc.trades}
    \cup {InsiderRow("insider_transaction", doc, file, Direction[doc.trades[i]], i) :
            i \in {j \in DOMAIN doc.trades : doc.trades[j] \in DOMAIN Direction}}

Reporter(doc) == People({person_nid_from_cik(doc.reporter)})

emit_form3(doc, file) ==
    Output(Reporter(doc), RoleRows(doc, file, "initial") \cup HoldingRows(doc, file, "h"))

emit_form4(doc, file) ==
    Output(Reporter(doc), RoleRows(doc, file, "") \cup LotRows(doc, file))

emit_form5(doc, file) ==
    Output(Reporter(doc),
           RoleRows(doc, file, "") \cup LotRows(doc, file) \cup HoldingRows(doc, file, "sh"))

emit_form144(doc, file) ==
    Output(Reporter(doc),
           {InsiderRow("planned_sale", doc, file, "plan", i) : i \in 1..doc.planned}
           \cup {InsiderRow("insider_transaction", doc, file, "hist", i) : i \in 1..doc.past})

CompanyRow(table, cik, file, part, i) ==
    write_info_row(table, Lot(file, part, i), file.acc, [company |-> cik])

CompanyRows(table, cik, file, part, count) ==
    {CompanyRow(table, cik, file, part, i) : i \in 1..count}

One(condition) == IF condition THEN 1 ELSE 0

emit_formd(doc, file) ==
    Output({}, CompanyRows("offering", doc.issuer, file, "d", 1)
               \cup CompanyRows("use_of_proceeds", doc.issuer, file, "uop", One(doc.proceeds)))

\* A holding without a CUSIP is dropped.
emit_13f(doc, file) ==
    LET manager == <<"cik", file.cik>>
        lots == {i \in DOMAIN doc.cusips : doc.cusips[i] # ""}
    IN  Output({<<"manager", manager>>} \cup {<<"security", doc.cusips[i]>> : i \in lots},
               {write_info_row("institutional_holding", Lot(file, doc.cusips[i], i), file.acc,
                               [manager |-> manager, security |-> doc.cusips[i]]) : i \in lots})

\* An entity becomes a manager, an individual a person; the holding names
\* either in its person column.
emit_sc13(doc, file) ==
    LET Key(i) == ReportingPerson(doc.holders[i].name)
        all == DOMAIN doc.holders
    IN  Output({<<IF doc.holders[i].entity THEN "manager" ELSE "person", Key(i)>> : i \in all},
               {CompanyRow("activist_filing", file.cik, file, "act", i) : i \in all}
               \cup {write_info_row("holding", Lot(file, "rp", i), file.acc,
                                    [person |-> Key(i), company |-> file.cik]) : i \in all}
               \cup {CompanyRow("holder_group", file.cik, file, "grp", i) : i \in all \ {1}})

\* Rows about persons known by name.
NamedRows(table, names, file, part) ==
    {write_info_row(table, Lot(file, part, i), file.acc,
                    [person |-> NamedPerson(names[i]), company |-> file.cik]) :
        i \in DOMAIN names}

OwnerNames(doc) == [i \in DOMAIN doc.owners |-> doc.owners[i].name]

emit_def14a(doc, file) ==
    LET names == OwnerNames(doc)
        insiders == {i \in DOMAIN names : doc.owners[i].insider}
    IN  Output(People({NamedPerson(n) : n \in ToSet(names) \cup ToSet(doc.compensation)}),
               NamedRows("holding", names, file, "own")
               \cup NamedRows("role", [i \in insiders |-> names[i]], file, "role")
               \cup NamedRows("compensation", doc.compensation, file, "comp")
               \cup CompanyRows("proposal", file.cik, file, "prop", doc.proposals)
               \cup CompanyRows("ceo_pay_ratio", file.cik, file, "payratio", One(doc.payratio))
               \cup CompanyRows("audit_fees", file.cik, file, "auditfees", One(doc.auditfees))
               \cup CompanyRows("related_party_transaction", file.cik, file, "rpt", doc.related))

emit_8k(doc, file) ==
    Output(People({NamedPerson(n) : n \in ToSet(doc.changes)}),
           {CompanyRow("corporate_event", file.cik, file, item, 0) : item \in doc.items}
           \cup NamedRows("officer_change", doc.changes, file, "oc"))

emit_earnings(doc, file) ==
    Output({}, CompanyRows("earnings_release", file.cik, file, "earnings", 1))

emit_item12(doc, file) ==
    LET names == OwnerNames(doc)
    IN  Output(People({NamedPerson(n) : n \in ToSet(names)}),
               NamedRows("holding", names, file, "it12"))

emit_item13(doc, file) ==
    Output({}, CompanyRows("related_party_transaction", file.cik, file, "rpt", doc.related))

emit_subsidiaries(doc, file) ==
    Output({}, {write_info_row("subsidiary", <<file.cik, file.acc, i>>, file.acc,
                               [company |-> file.cik]) : i \in 1..doc.subsidiaries})

emit_offering(doc, file) ==
    Output(People({NamedPerson(n) : n \in ToSet(doc.selling)}),
           CompanyRows("offering", file.cik, file, "offering", One(doc.offering))
           \cup NamedRows("selling_stockholder", doc.selling, file, "ss")
           \cup CompanyRows("underwriter", file.cik, file, "uw", doc.underwriters)
           \cup CompanyRows("use_of_proceeds", file.cik, file, "uop", One(doc.proceeds)))

\* A fact names its own accession, which need not be in the index.
emit_xbrl(cik) ==
    Output({}, {write_info_row("metric_fact", <<Facts[cik][i], "fact", i>>, Facts[cik][i],
                               [company |-> cik]) : i \in DOMAIN Facts[cik]})

(***************************************************************************)
(* Extractors.                                                             *)
(***************************************************************************)
\* The slice keeps documents about its companies: the issuer a document
\* names, or the CIK it is filed under.
InSlice(slice, cik) == Admits(slice.companies, cik)

emit_one(doc, file) ==
    CASE doc.type \in matching_forms.form3 -> emit_form3(doc, file)
      [] doc.type \in matching_forms.form5 -> emit_form5(doc, file)
      [] doc.type \in matching_forms.form4 -> emit_form4(doc, file)
      [] doc.schema = "144" -> emit_form144(doc, file)
      [] OTHER -> emit_formd(doc, file)

OwnershipParsed(doc) ==
    \/ /\ \/ doc.type \in UNION {matching_forms[b] : b \in {"form3", "form4", "form5"}}
          \/ doc.schema = "144" /\ doc.planned + doc.past > 0
       /\ doc.reporter # ""
    \/ doc.schema = "D" /\ doc.economics

ownership_extract(raw, index, slice) ==
    {emit_one(Content(f), f) :
        f \in {g \in walk_filings_in_index(raw, index, is_ownership_xml) :
                   /\ OwnershipParsed(Content(g))
                   /\ Content(g).issuer # ""
                   /\ InSlice(slice, Content(g).issuer)}}

\* The files of a walk about the companies of the slice, one parser of which
\* must find something in.
InScope(walk, slice) == {f \in walk : InSlice(slice, f.cik)}

form13f_extract(raw, index, slice) ==
    LET walk == InScope(walk_filings_in_index(raw, index, is_13f_xml), slice)
    IN  {emit_13f(Content(f), f) : f \in {g \in walk : Content(g).cusips # <<>>}}

schedule13_extract(raw, index, slice) ==
    LET forms == matching_forms.sc13d \cup matching_forms.sc13g
        walk == InScope(walk_filings_of_form(raw, index, forms), slice)
    IN  {emit_sc13(Content(f), f) : f \in {g \in walk : Content(g).holders # <<>>}}

Def14aFinds(doc) ==
    \/ doc.owners # <<>> \/ doc.compensation # <<>>
    \/ doc.proposals + doc.related > 0
    \/ doc.payratio \/ doc.auditfees

def14a_extract(raw, index, slice) ==
    LET walk == InScope(walk_filings_of_form(raw, index, matching_forms.def14a), slice)
    IN  {emit_def14a(Content(f), f) : f \in {g \in walk : Def14aFinds(Content(g))}}

eightk_extract(raw, index, slice) ==
    LET walk == InScope(walk_filings_of_form(raw, index, matching_forms.form8k), slice)
    IN  {emit_8k(Content(f), f) : f \in {g \in walk : Content(g).items # {}}}

extract_earnings(raw, index, slice) ==
    LET walk == InScope(walk_filings_of_form(raw, index, matching_forms.form8k), slice)
    IN  {emit_earnings(Content(f), f) : f \in {g \in walk : Content(g).earnings}}

extract_item12(raw, index, slice) ==
    LET walk == InScope(walk_filings_of_form(raw, index, matching_forms.form10k), slice)
    IN  {emit_item12(Content(f), f) : f \in {g \in walk : Content(g).owners # <<>>}}

extract_item13(raw, index, slice) ==
    LET walk == InScope(walk_filings_of_form(raw, index, matching_forms.form10k), slice)
    IN  {emit_item13(Content(f), f) : f \in {g \in walk : Content(g).related > 0}}

extract_subsidiaries(raw, index, slice) ==
    LET walk == InScope(walk_filings_in_index(raw, index, is_exhibit21_name), slice)
    IN  {emit_subsidiaries(Content(f), f) : f \in {g \in walk : Content(g).subsidiaries > 0}}

S1Forms == {"S-1", "S-1/A"}

ProspectusForms == {"424B1", "424B2", "424B3", "424B4", "424B5", "424B7", "424B8"}

OfferingFinds(doc) ==
    doc.offering \/ doc.selling # <<>> \/ doc.underwriters > 0 \/ doc.proceeds

extract_offering_filings(raw, index, slice, forms) ==
    LET walk == InScope(walk_filings_of_form(raw, index, forms), slice)
    IN  {emit_offering(Content(f), f) : f \in {g \in walk : OfferingFinds(Content(g))}}

xbrl_extract(facts, slice) ==
    {emit_xbrl(cik) : cik \in {c \in facts : InSlice(slice, c) /\ Facts[c] # <<>>}}

\* Forms 10-Q, S-3, S-4 and N-PX have extractors that write nothing.
Forms(raw, facts, index, slice) ==
    Together(ownership_extract(raw, index, slice)
             \cup form13f_extract(raw, index, slice)
             \cup schedule13_extract(raw, index, slice)
             \cup def14a_extract(raw, index, slice)
             \cup eightk_extract(raw, index, slice)
             \cup extract_earnings(raw, index, slice)
             \cup extract_item12(raw, index, slice)
             \cup extract_item13(raw, index, slice)
             \cup extract_subsidiaries(raw, index, slice)
             \cup extract_offering_filings(raw, index, slice, S1Forms)
             \cup extract_offering_filings(raw, index, slice, ProspectusForms)
             \cup xbrl_extract(facts, slice))

(***************************************************************************)
(* The identity pass: the companies and the filing index.                  *)
(***************************************************************************)
discover_corpus_ciks(dirs, facts) == dirs \cup facts

\* The companies looked up: those of the slice, else those with files on
\* disk, else every one.
EffectiveCiks(slice, dirs, facts, universe) ==
    IF slice.companies # <<>> THEN slice.companies[1]
    ELSE IF discover_corpus_ciks(dirs, facts) # {} THEN discover_corpus_ciks(dirs, facts)
    ELSE universe

\* published: a sequence of [cik, filings], in the order they are read.  The
\* positions of those looked up.
Emitted(published, slice, ciks) ==
    {i \in DOMAIN published : published[i].cik \in ciks /\ InSlice(slice, published[i].cik)}

CompanyIds(published, emitted) == {<<"company", published[i].cik>> : i \in emitted}

\* What submissions.zip says on a day, of the slice.
EmittedRows(filings, slice, day) ==
    Select(filings, LAMBDA row : row.since <= day /\ SliceMatches(slice, row))

IndexRows(published, emitted, slice, day) ==
    FlatRows([i \in DOMAIN published |->
        IF i \in emitted THEN EmittedRows(published[i].filings, slice, day) ELSE <<>>])

=============================================================================
