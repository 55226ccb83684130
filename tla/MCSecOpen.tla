----------------------------- MODULE MCSecOpen ------------------------------
(***************************************************************************)
(* A small EDGAR: two companies, an insider, and one filing of each kind   *)
(* the extraction reads.                                                   *)
(***************************************************************************)
EXTENDS SecOpen

Plain(name) == [dir |-> "", name |-> name]
Rendered(name) == [dir |-> "xsl", name |-> name]

Filing(acc, cik, form, year, since, doc) ==
    [acc |-> acc, cik |-> cik, form |-> form, year |-> year, since |-> since, doc |-> doc]

MCCalendar == <<<<2024, 1>>, <<2025, 1>>>>

\* The insider's Form 4 is listed under the company and under the insider.
MCPublished ==
    <<[cik |-> "A", filings |->
         <<Filing("a8", "A", "8-K", 2025, 2, Plain("primary.htm")),
           Filing("a4", "A", "4", 2024, 1, Rendered("form4.xml")),
           Filing("ap", "A", "DEF 14A", 2024, 1, Plain("primary.htm")),
           Filing("ak", "A", "10-K", 2024, 1, Plain("primary.htm")),
           Filing("a3", "A", "3", 2023, 1, Rendered("form4.xml")),
           Filing("as", "A", "S-1", 2023, 1, Plain("primary.htm"))>>],
      [cik |-> "B", filings |->
         <<Filing("bq", "B", "13F-HR", 2024, 1, Plain("primary_doc.xml")),
           Filing("bg", "B", "SC 13G", 2024, 1, Plain("primary.htm")),
           Filing("bn", "B", "144", 2024, 1, Rendered("primary_doc.xml")),
           Filing("b0", "B", "8-K", 2024, 1, Plain("gone.htm")),
           Filing("b1", "B", "8-K/A", 2024, 1, Plain("gone.htm"))>>],
      [cik |-> "R", filings |-> <<Filing("a4", "R", "4", 2024, 1, Rendered("form4.xml"))>>]>>

Insider(type) ==
    [NoContent EXCEPT !.schema = "ownership", !.type = type, !.reporter = "R", !.issuer = "A",
                      !.roles = {"director"}]

Html(content) == "primary.htm" :> content

MCDocs ==
    [a8 |-> Html([NoContent EXCEPT !.items = {"2.02", "5.02"}, !.changes = <<"ann">>,
                                   !.earnings = TRUE]),
     a4 |-> "form4.xml" :> [Insider("4") EXCEPT !.trades = <<"A", "D", "">>],
     ap |-> Html([NoContent EXCEPT !.owners = <<[name |-> "ann", insider |-> TRUE],
                                                [name |-> "fund", insider |-> FALSE]>>,
                                   !.compensation = <<"ann", "bob">>, !.proposals = 1,
                                   !.payratio = TRUE, !.auditfees = TRUE, !.related = 1]),
     ak |-> Html([NoContent EXCEPT !.owners = <<[name |-> "ann", insider |-> TRUE]>>,
                                   !.related = 1])
            @@ "ex21.htm" :> [NoContent EXCEPT !.subsidiaries = 1],
     a3 |-> "form4.xml" :> [Insider("3") EXCEPT !.holdings = 1],
     as |-> Html([NoContent EXCEPT !.offering = TRUE, !.selling = <<"eve">>,
                                   !.underwriters = 1, !.proceeds = TRUE]),
     a5 |-> "form4.xml" :> [Insider("5") EXCEPT !.trades = <<"D">>, !.holdings = 1],
     ad |-> "primary_doc.xml" :> [NoContent EXCEPT !.schema = "D", !.issuer = "A",
                                                   !.economics = TRUE, !.proceeds = TRUE],
     bq |-> "13f-infotable.xml" :> [NoContent EXCEPT !.schema = "13f", !.cusips = <<"c1", "", "c2">>]
            @@ "primary_doc.xml" :> NoContent,
     bg |-> Html([NoContent EXCEPT !.holders = <<[name |-> "fund", entity |-> TRUE],
                                                 [name |-> "ann", entity |-> FALSE]>>]),
     bn |-> "primary_doc.xml" :> [NoContent EXCEPT !.schema = "144", !.reporter = "R",
                                                   !.issuer = "B", !.planned = 1, !.past = 1],
     b0 |-> "ex21.htm" :> NoContent,
     b1 |-> "ex21.htm" :> NoContent]

MCFacts == [A |-> <<"ak", "older">>, B |-> <<>>, R |-> <<>>]

MCTickers == <<[AA |-> "A"], [AA |-> "A", BB |-> "B"]>>

\* Documents no call of SEC.open fetches, but the crate's fetchers can.
Left(cik, acc, name) == [cik |-> cik, acc |-> acc, dir |-> "", name |-> name]

Seeded == {Left("A", "ak", "primary.htm"), Left("A", "as", "primary.htm"), Left("A", "a5", "form4.xml")}

MCSeeds == {{}, Seeded}

Default ==
    [companies |-> <<>>, tickers |-> {}, forms |-> <<>>, years |-> <<>>, span |-> 1,
     detailed |-> 2, mode |-> "", include_subsidiaries |-> FALSE,
     include_xbrl_metrics |-> FALSE, include_8k_events |-> TRUE,
     force_rebuild |-> FALSE, force_refetch |-> FALSE]

Everything ==
    [Default EXCEPT !.forms = <<UNION {matching_forms[b] : b \in ALL_BUCKETS}>>,
                    !.force_rebuild = TRUE, !.include_xbrl_metrics = TRUE]

MCCalls ==
    {Everything,
     [Default EXCEPT !.tickers = {"BB"}, !.force_rebuild = TRUE,
                     !.forms = <<{"SC 13G", "144", "8-K"}>>],
     [Default EXCEPT !.companies = <<{"A"}>>, !.forms = <<{"4", "DEF 14A", "10-K"}>>,
                     !.years = <<<<2023, 2024>>>>, !.force_refetch = TRUE],
     [Default EXCEPT !.companies = <<{"A"}>>, !.detailed = 0, !.mode = "disk", !.span = 0]}

\* Two calls of SEC.fetch, the second for another company.
OneDay == <<<<2024, 1>>>>

SliceCalls ==
    {[Default EXCEPT !.companies = <<{c}>>, !.forms = <<{"DEF 14A", "SC 13G"}>>, !.span = 2,
                     !.force_rebuild = (c = "B")] :
        c \in {"A", "B"}}

\* One call that asks for the Form 144 notices.
NoticeCalls == {[Default EXCEPT !.companies = <<{"B"}>>, !.forms = <<{"144"}>>]}

=============================================================================
