------------------------------ MODULE SecScope ------------------------------
(***************************************************************************)
(* What a call of the SEC loader asks for: the slice of filings it admits  *)
(* (sec/slicing.rs), the form buckets it downloads (sec/buckets.rs), the   *)
(* plan made from the filing index (sec/dispatch.rs, wrapper.py), and the  *)
(* storage mode picked for it (sec/planning.rs).                           *)
(*                                                                         *)
(* An optional argument is <<>> when it is None and <<value>> otherwise.   *)
(* A filing is a row of processed/filing_index.csv: its accession number,  *)
(* the CIK that lists it, its form, its year and its primary document.     *)
(***************************************************************************)
EXTENDS Lists, SequencesExt

FirstEdgarYear == 1993

Admits(filter, value) == filter = <<>> \/ value \in filter[1]

(***************************************************************************)
(* SliceSpec.  An empty list is no filter.                                 *)
(***************************************************************************)
NonEmpty(option) == IF option # <<>> /\ option[1] = {} THEN <<>> ELSE option

from_optional_filters(companies, forms, years) ==
    [companies |-> NonEmpty(companies), forms |-> NonEmpty(forms), years |-> years]

date_matches(slice, year) ==
    \/ slice.years = <<>>
    \/ slice.years[1][1] <= year /\ year <= slice.years[1][2]

SliceMatches(slice, filing) ==
    /\ Admits(slice.companies, filing.cik)
    /\ Admits(slice.forms, filing.form)
    /\ date_matches(slice, filing.year)

(***************************************************************************)
(* Form buckets.                                                           *)
(***************************************************************************)
matching_forms ==
    [form3   |-> {"3", "3/A"},
     form4   |-> {"4", "4/A"},
     form5   |-> {"5", "5/A"},
     form144 |-> {"144", "144/A"},
     form13f |-> {"13F-HR", "13F-HR/A"},
     form8k  |-> {"8-K", "8-K/A"},
     sc13d   |-> {"SC 13D", "SC 13D/A", "SCHEDULE 13D", "SCHEDULE 13D/A"},
     sc13g   |-> {"SC 13G", "SC 13G/A", "SCHEDULE 13G", "SCHEDULE 13G/A"},
     def14a  |-> {"DEF 14A", "DEFA14A", "PRE 14A"},
     form10k |-> {"10-K", "10-K/A"}]

ALL_BUCKETS == DOMAIN matching_forms

LEAN_FETCH_BUCKETS == {"form3", "form4", "form5", "form8k"}

\* The form's bucket, as a set: empty when no fetcher exists for the form.
from_form_string(form) == {b \in ALL_BUCKETS : form \in matching_forms[b]}

resolve_fetch_buckets(forms) ==
    IF forms = <<>> THEN LEAN_FETCH_BUCKETS
    ELSE UNION {from_form_string(form) : form \in forms[1]}

(***************************************************************************)
(* The dispatch plan.                                                      *)
(***************************************************************************)
\* The years whose filings a call downloads.
Window(call, year) ==
    IF call.years # <<>> THEN call.years[1]
    ELSE IF year + 1 < FirstEdgarYear + call.detailed THEN <<FirstEdgarYear, year>>
    ELSE <<year + 1 - call.detailed, year>>

\* Variant: the upper bound is taken as exclusive.
InWindowExclusive(window, filing) == window[1] <= filing.year /\ filing.year < window[2]

InWindow(window, filing) == window[1] <= filing.year /\ filing.year <= window[2]

Planned(companies, window, filing) ==
    /\ Admits(NonEmpty(companies), filing.cik)
    /\ InWindow(window, filing)
    /\ from_form_string(filing.form) # {}

prepare_dispatch_plan(index, companies, window) ==
    LET kept == Select(index, LAMBDA filing : Planned(companies, window, filing))
    IN  [b \in ALL_BUCKETS |->
            Select(kept, LAMBDA filing : filing.form \in matching_forms[b])]

distinct_ciks(plan) == UNION {{plan[b][i].cik : i \in DOMAIN plan[b]} : b \in ALL_BUCKETS}

Task(fetcher, filing) ==
    [fetcher |-> fetcher, cik |-> filing.cik, acc |-> filing.acc, doc |-> filing.doc]

Tasks(fetcher, filings) == [i \in DOMAIN filings |-> Task(fetcher, filings[i])]

\* The companies' facts, one request per company of the plan.
FactsTasks(ciks) ==
    LET order == AsRows(ciks)
    IN  [i \in DOMAIN order |->
            [fetcher |-> "facts", cik |-> order[i], acc |-> "", doc |-> [dir |-> "", name |-> ""]]]

\* What is requested, in the order of the batches.
_dispatch_per_filing_fetches(call, plan, active) ==
    LET Of(b) == IF b \in active THEN plan[b] ELSE <<>>
    IN  Tasks("form4", Of("form4") \o Of("form3") \o Of("form5"))
        \o Tasks("form13f", Of("form13f"))
        \o Tasks("primary", IF call.include_8k_events THEN Of("form8k") ELSE <<>>)
        \o Tasks("primary", Of("sc13d") \o Of("sc13g") \o Of("def14a") \o Of("form144"))
        \o Tasks("exhibit21",
                 IF call.include_subsidiaries THEN plan["form10k"] ELSE Of("form10k"))
        \o FactsTasks(IF call.include_xbrl_metrics THEN distinct_ciks(plan) ELSE {})

(***************************************************************************)
(* The storage mode.  Sizes are in units of 1/600 MB, which makes the      *)
(* share of the filer universe (6000 companies) exact.                     *)
(***************************************************************************)
FULL_UNIVERSE == 6000

PerGb == 100 * FULL_UNIVERSE

predict_graph_size(call) ==
    LET n == IF NonEmpty(call.companies) = <<>> THEN FULL_UNIVERSE
             ELSE Min({Cardinality(call.companies[1]), FULL_UNIVERSE})
        perYear == 60 + (IF call.include_xbrl_metrics THEN 400 ELSE 0)
                      + (IF call.include_8k_events THEN 100 ELSE 0)
                      + (IF call.include_subsidiaries THEN 5 ELSE 0)
    IN  n * (10 * call.span + call.detailed * perYear)

pick_storage_mode(size) ==
    CASE size < 4 * PerGb  -> "memory"
      [] size >= 4 * PerGb /\ size < 16 * PerGb -> "mapped"
      [] OTHER -> "disk"

=============================================================================
