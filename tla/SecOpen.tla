------------------------------- MODULE SecOpen ------------------------------
(***************************************************************************)
(* Calls of SEC.open on one working directory (sec/wrapper.py), with the   *)
(* downloads (sec/fetch.rs and the bindings in kglite-datasets-py) and the *)
(* extraction (sec/extract/) a call makes.                                 *)
(*                                                                         *)
(* EDGAR publishes between calls; a request may fail, and the process may  *)
(* be killed between any two steps.  A day stands for the 24 hours after   *)
(* which submissions.zip is stale.                                         *)
(***************************************************************************)
EXTENDS SecForms

CONSTANTS Calls,      \* the calls a user makes
          Published,  \* sequence of [cik, filings]; a filing appears on day "since"
          Tickers,    \* day -> ticker -> CIK
          Calendar,   \* day -> [year, quarter]
          Seeds,      \* sets of files left under raw/filings by other users of the crate
          MaxCalls,   \* how many calls are made
          MaxFaults   \* failed requests and kills, together

VARIABLES
    today,   \* the day
    disk,    \* the working directory
    pc,      \* what the call does next
    call,    \* the call
    todo,    \* the requests of the dispatch still to make
    missed,  \* one of them failed
    basis,   \* the index the dispatch planned from, <<>> before it
    served,  \* the graph the last call returned, <<>> when it raised
    calls,   \* how many calls were made
    faults   \* how many faults happened

vars == <<today, disk, pc, call, todo, missed, basis, served, calls, faults>>

Modes == {"memory", "mapped", "disk"}

Universe == {Published[i].cik : i \in DOMAIN Published}

Filings == UNION {ToSet(sub.filings) : sub \in ToSet(Published)}

\* A document of the archive, filed by someone the submissions list.
InArchive(f) == f.cik \in Universe /\ f.acc \in DOMAIN Docs /\ f.name \in DOMAIN Docs[f.acc]

\* What EDGAR's files have in common: a filing is listed under its filer, all
\* the listings of one accession give its form, nothing is older than EDGAR,
\* and the issuer a document names, when it names one, is a filer too.
ASSUME ArchiveAssumption ==
    /\ Published \in Seq(ToSet(Published))
    /\ \A sub \in ToSet(Published) :
          /\ sub.filings \in Seq(ToSet(sub.filings))
          /\ \A filing \in ToSet(sub.filings) : filing.cik = sub.cik /\ filing.acc \in DOMAIN Docs
    /\ \A f, g \in Filings : f.acc = g.acc => f.form = g.form
    /\ \A f \in Filings : FirstEdgarYear <= f.year
    /\ \A seed \in Seeds : \A f \in seed : InArchive(f)
    /\ \A acc \in DOMAIN Docs : \A name \in DOMAIN Docs[acc] :
          Docs[acc][name].issuer \in Universe \cup {""}

build_slice == from_optional_filters(call.companies, call.forms, call.years)

(***************************************************************************)
(* How a step ends: the call goes on, returns a graph, or raises.          *)
(***************************************************************************)
Goes(next) == pc' = next /\ UNCHANGED <<served, calls>>

Returns(graph) == pc' = "idle" /\ served' = graph /\ UNCHANGED calls

Raises == Returns(<<>>)

Fault == faults < MaxFaults /\ faults' = faults + 1

\* A step of the fetch phase that makes one request: its effect, or an error
\* that ends the call.
Request(effect, next) ==
    \/ effect /\ Goes(next) /\ UNCHANGED faults
    \/ Fault /\ Raises /\ UNCHANGED disk

(***************************************************************************)
(* The call, its companies and its storage mode.                           *)
(***************************************************************************)
open(c) ==
    /\ pc = "idle"
    /\ calls < MaxCalls /\ calls' = calls + 1
    /\ call' = c
    /\ missed' = FALSE
    /\ basis' = <<>>
    /\ pc' = "resolve"
    /\ served' = <<>>
    /\ UNCHANGED <<today, disk, todo, faults>>

\* company_tickers.json is <<>> when absent, <<0>> when torn, <<day>> else.
TickersNeeded == call.tickers # {} /\ disk.tickers = <<>>

DownloadTickers ==
    /\ pc = "resolve" /\ TickersNeeded
    /\ Request(disk' = [disk EXCEPT !.tickers = <<today>>], "resolve")
    /\ UNCHANGED <<today, call, todo, missed, basis>>

parse_tickers_json ==
    IF disk.tickers \in {<<>>, <<0>>} THEN <<>> ELSE Tickers[disk.tickers[1]]

_resolve_companies ==
    IF call.tickers = {} THEN call.companies
    ELSE <<UNION ToSet(call.companies) \cup {parse_tickers_json[t] : t \in call.tickers}>>

\* A ticker that is not in the file raises, and so does a torn file.
ResolveCompanies ==
    /\ pc = "resolve" /\ ~TickersNeeded
    /\ IF call.tickers \subseteq DOMAIN parse_tickers_json
       THEN LET resolved == [call EXCEPT !.companies = _resolve_companies, !.tickers = {}]
            IN  /\ call' = [resolved EXCEPT
                              !.mode = IF @ # "" THEN @
                                       ELSE pick_storage_mode(predict_graph_size(resolved))]
                /\ Goes("cache")
       ELSE Raises /\ UNCHANGED call
    /\ UNCHANGED <<today, disk, todo, missed, basis, faults>>

\* The cached graph is served whatever call built it.  One that does not
\* load counts as absent.
_load_cached_graph ==
    /\ pc = "cache"
    /\ LET cached == disk.graph[call.mode]
       IN  IF ~call.force_rebuild /\ cached # <<>> /\ cached[1].loads
           THEN Returns(cached)
           ELSE Goes("quarters")
    /\ UNCHANGED <<today, disk, call, todo, missed, basis, faults>>

(***************************************************************************)
(* raw/: the quarterly indexes, the submissions, the tickers.              *)
(***************************************************************************)
YearRange(first, last) ==
    ((first..last) \X (1..4)) \ {<<FirstEdgarYear, 1>>, <<FirstEdgarYear, 2>>}

Earlier(q, r) == q[1] < r[1] \/ (q[1] = r[1] /\ q[2] < r[2])

\* The quarters of the span that exist, a later one answering 404.
Quarters ==
    LET now == Calendar[today]
        first == IF now[1] + 1 < FirstEdgarYear + call.span THEN FirstEdgarYear
                 ELSE now[1] + 1 - call.span
    IN  IF call.span = 0 THEN {}
        ELSE {q \in YearRange(first, now[1]) : ~Earlier(now, q)}

\* The current quarter is always requested, the others when missing; a
\* failure leaves those before it.
fetch_quarterly_master_idx ==
    /\ pc = "quarters"
    /\ \/ /\ disk' = [disk EXCEPT !.quarters = @ \cup Quarters]
          /\ Goes("submissions")
          /\ UNCHANGED faults
       \/ \E failed \in Quarters \ (disk.quarters \ {Calendar[today]}) :
             /\ disk' = [disk EXCEPT !.quarters = @ \cup {q \in Quarters : Earlier(q, failed)}]
             /\ Fault /\ Raises
    /\ UNCHANGED <<today, call, todo, missed, basis>>

fetch_submissions_bulk ==
    /\ pc = "submissions"
    /\ IF disk.zip = today /\ ~call.force_refetch
       THEN Goes("tickers") /\ UNCHANGED <<disk, faults>>
       ELSE Request(disk' = [disk EXCEPT !.zip = today], "tickers")
    /\ UNCHANGED <<today, call, todo, missed, basis>>

AfterRaw == IF call.detailed = 0 THEN "extract"
            ELSE IF disk.index = <<>> THEN "sinks" ELSE "dispatch"

fetch_company_tickers ==
    /\ pc = "tickers"
    /\ IF disk.tickers # <<>> /\ ~call.force_refetch
       THEN Goes(AfterRaw) /\ UNCHANGED <<disk, faults>>
       ELSE Request(disk' = [disk EXCEPT !.tickers = <<today>>], AfterRaw)
    /\ UNCHANGED <<today, call, todo, missed, basis>>

(***************************************************************************)
(* The dispatch: plan from the index in place, then one request after the  *)
(* other.                                                                  *)
(***************************************************************************)
Dispatch ==
    /\ pc = "dispatch"
    /\ basis' = disk.index
    /\ todo' = _dispatch_per_filing_fetches(
                   call,
                   prepare_dispatch_plan(disk.index[1].rows, call.companies,
                                         Window(call, Calendar[today][1])),
                   resolve_fetch_buckets(call.forms))
    /\ Goes("fetch")
    /\ UNCHANGED <<today, disk, call, missed, faults>>

File(task, dir, name) == [cik |-> task.cik, acc |-> task.acc, dir |-> dir, name |-> name]

\* Where the request for a filing leaves what it brings.
Targets(task) ==
    CASE task.fetcher = "form4" -> {File(task, "", "form4.xml")}
      [] task.fetcher = "form13f" -> {File(task, "", "13f-infotable.xml")}
      [] task.fetcher = "primary" ->
           IF task.doc.name = "" THEN {} ELSE {File(task, task.doc.dir, task.doc.name)}
      [] task.fetcher = "exhibit21" ->
           {File(task, "", name) : name \in DOMAIN Docs[task.acc] \cap is_exhibit21_name}
      [] OTHER -> {}

\* The targets EDGAR has a document for.
Brings(task) == {f \in Targets(task) : f.name \in DOMAIN Docs[task.acc]}

\* The CIKs whose directory a request creates: it is made before the document
\* is requested, and for a 13F after its name was found in the filing's list.
Directory(task) ==
    {f.cik : f \in (IF task.fetcher = "form13f" THEN Brings(task) ELSE Targets(task)) \ disk.raw}

FilingDone(task) ==
    disk' = [disk EXCEPT !.raw = @ \cup Brings(task), !.dirs = @ \cup Directory(task)]

FactsDone(task) ==
    disk' = [disk EXCEPT !.facts = @ \cup {c \in {task.cik} : Facts[c] # <<>>}]

\* Nothing is requested for what is on disk, except the list of a 10-K's
\* attachments.
Requested(task) ==
    IF task.fetcher = "facts" THEN task.cik \notin disk.facts
    ELSE task.fetcher = "exhibit21" \/ ~(Targets(task) \subseteq disk.raw)

\* What a failed request leaves.  The list of a filing's documents is
\* requested before the directory is made.
Made(task) ==
    {Directory(task)} \cup (IF task.fetcher \in {"form13f", "exhibit21"} THEN {{}} ELSE {})

\* Variant: what EDGAR does not have is put back for another attempt.
RemainingRetried ==
    IF Brings(Head(todo)) = {} /\ Targets(Head(todo)) # {} THEN Append(Tail(todo), Head(todo))
    ELSE Tail(todo)

Remaining == Tail(todo)

run_batch ==
    /\ pc = "fetch" /\ todo # <<>>
    /\ LET task == Head(todo)
       IN  \/ /\ IF task.fetcher = "facts" THEN FactsDone(task) ELSE FilingDone(task)
              /\ UNCHANGED <<missed, faults>>
           \/ /\ Requested(task) /\ Fault
              /\ missed' = TRUE
              /\ \E made \in Made(task) : disk' = [disk EXCEPT !.dirs = @ \cup made]
    /\ todo' = Remaining
    /\ UNCHANGED <<today, pc, call, basis, served, calls>>

DispatchDone ==
    /\ pc = "fetch" /\ todo = <<>>
    /\ Goes("extract")
    /\ UNCHANGED <<today, disk, call, todo, missed, basis, faults>>

(***************************************************************************)
(* The extraction.                                                         *)
(***************************************************************************)
\* Variant: the payloads just fetched do not force an extraction.
ForcedByUser == call.force_rebuild

Forced == call.force_rebuild \/ call.detailed > 0

\* holding.csv stands for all tables.
Extract ==
    /\ pc = "extract"
    /\ Goes(IF ~Forced /\ disk.csvs # <<>> THEN "build" ELSE "sinks")
    /\ UNCHANGED <<today, disk, call, todo, missed, basis, faults>>

Torn == [whole |-> FALSE, slice |-> build_slice, ids |-> {}, rows |-> {}]

OpenSinks ==
    /\ pc = "sinks"
    /\ disk' = [disk EXCEPT !.csvs = <<Torn>>]
    /\ Goes("identity")
    /\ UNCHANGED <<today, call, todo, missed, basis, faults>>

IdentityScope ==
    Emitted(Published, build_slice,
            EffectiveCiks(build_slice, disk.dirs, disk.facts, Universe))

NewIndex ==
    [rows |-> IndexRows(Published, IdentityScope, build_slice, disk.zip),
     slice |-> build_slice, day |-> disk.zip, whole |-> TRUE]

emit_from_submissions ==
    /\ pc = "identity"
    /\ disk' = [disk EXCEPT !.index = <<NewIndex>>,
                            !.csvs = <<[Torn EXCEPT !.ids = CompanyIds(Published, IdentityScope)]>>]
    /\ Goes("forms")
    /\ UNCHANGED <<today, call, todo, missed, basis, faults>>

\* What the form extractors write for what is on disk.
Written == Forms(disk.raw, disk.facts, disk.index[1].rows, build_slice)

\* The first extraction of a cold directory only makes the index.
run_all_at ==
    /\ pc = "forms"
    /\ disk' = [disk EXCEPT !.csvs =
                  <<[whole |-> TRUE, slice |-> build_slice,
                     ids |-> @[1].ids \cup Written.ids, rows |-> Written.rows]>>]
    /\ Goes(IF call.detailed > 0 /\ basis = <<>> THEN "dispatch" ELSE "build")
    /\ UNCHANGED <<today, call, todo, missed, basis, faults>>

_build_graph ==
    /\ pc = "build"
    /\ disk' = [disk EXCEPT !.graph[call.mode] = <<[loads |-> TRUE, of |-> disk.csvs[1]]>>]
    /\ Returns(<<[loads |-> TRUE, of |-> disk.csvs[1]]>>)
    /\ UNCHANGED <<today, call, todo, missed, basis, faults>>

(***************************************************************************)
(* The process is killed.  Files written in place may be left torn.        *)
(***************************************************************************)
TornIndexes == {<<[NewIndex EXCEPT !.rows = p, !.whole = FALSE]>> : p \in Prefixes(NewIndex.rows)}

LeftBehind ==
    {disk}
    \cup (IF pc = "resolve" /\ TickersNeeded THEN {[disk EXCEPT !.tickers = <<0>>]} ELSE {})
    \cup (IF pc = "identity" THEN {[disk EXCEPT !.index = i] : i \in TornIndexes} ELSE {})
    \cup (IF pc = "build" /\ call.mode # "disk"
          THEN {[disk EXCEPT !.graph[call.mode] = <<[loads |-> FALSE, of |-> disk.csvs[1]]>>]}
          ELSE {})

Kill ==
    /\ pc # "idle"
    /\ Fault /\ Raises
    /\ disk' \in LeftBehind
    /\ todo' = <<>>
    /\ UNCHANGED <<today, call, missed, basis>>

\* EDGAR publishes; between calls.
NextDay ==
    /\ pc = "idle"
    /\ today + 1 \in DOMAIN Calendar
    /\ today' = today + 1
    /\ UNCHANGED <<disk, pc, call, todo, missed, basis, served, calls, faults>>

(***************************************************************************)
(* The specification.                                                      *)
(***************************************************************************)
ColdDirectory(seed) ==
    [tickers |-> <<>>, quarters |-> {}, zip |-> 0, raw |-> seed,
     dirs |-> {f.cik : f \in seed}, facts |-> {}, index |-> <<>>, csvs |-> <<>>,
     graph |-> [m \in Modes |-> <<>>]]

Init ==
    /\ today = 1
    /\ disk \in {ColdDirectory(seed) : seed \in Seeds}
    /\ pc = "idle"
    /\ call = CHOOSE c \in Calls : TRUE
    /\ todo = <<>>
    /\ missed = FALSE
    /\ basis = <<>>
    /\ served = <<>>
    /\ calls = 0
    /\ faults = 0

Step ==
    \/ DownloadTickers \/ ResolveCompanies \/ _load_cached_graph
    \/ fetch_quarterly_master_idx \/ fetch_submissions_bulk \/ fetch_company_tickers
    \/ Dispatch \/ run_batch \/ DispatchDone
    \/ Extract \/ OpenSinks \/ emit_from_submissions \/ run_all_at \/ _build_graph

Next ==
    \/ \E c \in Calls : open(c)
    \/ Step
    \/ Kill
    \/ NextDay

\* A process that is not killed goes on: WF_vars(Step), with ENABLED
\* <<Step>>_vars written as pc # "idle" so that TLC need not evaluate the
\* extraction to test it.
Fairness == []<>(pc = "idle") \/ []<><<Step>>_<<pc, todo, disk.tickers>>

Spec == Init /\ [][Next]_vars /\ Fairness

(***************************************************************************)
(* Properties.                                                             *)
(***************************************************************************)
Whole == disk.csvs # <<>> /\ disk.csvs[1].whole

Resolves(ids, row, column) ==
    LET key == row.refs[column]
    IN  CASE column = "filing" ->
               row.table = "metric_fact" \/ key \in Indexed(disk.index[1].rows)
          [] column = "person" -> {<<"person", key>>, <<"manager", key>>} \cap ids # {}
          [] OTHER -> <<column, key>> \in ids

\* The fact tables of a finished extraction point only at rows of the
\* identity tables and of the filing index written with them, whatever
\* earlier calls, with another scope, left under raw/.  Company facts name
\* filings of any year, a Schedule 13 holder may be a manager, and without a
\* company scope an insider's issuer may have no company row: these are the
\* exceptions (identity/mod.rs, util.rs walk_filings_in_index).
FactsAnchored ==
    Whole => \A row \in disk.csvs[1].rows : \A column \in DOMAIN row.refs :
                \/ column = "company" /\ disk.csvs[1].slice.companies = <<>>
                \/ Resolves(disk.csvs[1].ids, row, column)

\* A call that must rebuild, or that fetches filings, builds its graph from
\* an extraction of its own slice which saw everything it fetched, also when
\* a killed call left holding.csv behind (wrapper.py, step 3).
BuildsFresh ==
    (pc = "build" /\ pc' = "idle" /\ served' # <<>>
       /\ (call.force_rebuild \/ call.detailed > 0))
    => /\ served'[1].of.whole
       /\ served'[1].of.slice = build_slice
       /\ served'[1].of.rows = Written.rows

BuiltFresh == [][BuildsFresh]_vars

\* The filings a call asks for, of those published when submissions.zip was
\* downloaded.
Wanted ==
    {f \in Filings :
        /\ f.since <= disk.zip
        /\ SliceMatches(build_slice, f)
        /\ IF call.years # <<>>
           THEN f.year \in call.years[1][1]..call.years[1][2]
           ELSE f.year \in (Calendar[today][1] + 1 - call.detailed)..Calendar[today][1]}

\* The requests a filing calls for.
RequestsFor(f) ==
    LET active == resolve_fetch_buckets(call.forms)
        In(b) == f.form \in matching_forms[b] /\ b \in active
    IN  {Task(fetcher, f) : fetcher \in
          (IF \E b \in {"form3", "form4", "form5"} : In(b) THEN {"form4"} ELSE {})
          \cup (IF In("form13f") THEN {"form13f"} ELSE {})
          \cup (IF \/ (In("form8k") /\ call.include_8k_events)
                    \/ \E b \in {"sc13d", "sc13g", "def14a", "form144"} : In(b)
                THEN {"primary"} ELSE {})
          \cup (IF In("form10k") \/ (f.form \in matching_forms["form10k"] /\ call.include_subsidiaries)
                THEN {"exhibit21"} ELSE {})}

\* The document listed for the filing lies under a directory of its own, like
\* the rendered primary document of a Form 144, and is saved one level deeper
\* than the extractors look (NoticesExtracted).
Nested(task) == \E file \in Brings(task) : file.dir # ""

\* Every document the call asks for is on disk, and what it says is in the
\* graph the call returns, nested documents excepted.
CompleteFor(rows) ==
    \A f \in Wanted : \A task \in RequestsFor(f) :
        /\ Brings(task) \subseteq disk.raw
        /\ ~Nested(task) => Forms(Brings(task), {}, <<f>>, build_slice).rows \subseteq rows

Rebuilds == pc = "build" /\ pc' = "idle" /\ served' # <<>> /\ call.detailed > 0 /\ ~missed

PlannedFromOwnIndex ==
    /\ basis # <<>>
    /\ basis[1].whole
    /\ basis[1].slice = build_slice
    /\ basis[1].day = disk.zip

\* A call about named companies whose requests all succeed returns every
\* filing of its slice and window, when the index it planned from was made
\* for the same slice from the same submissions: on a cold directory, or when
\* it repeats (wrapper.py, steps 2 to 4).  Not so filings listed with a nested
\* document, which are fetched and not extracted.
RepeatCompletes ==
    [][Rebuilds /\ NonEmpty(call.companies) # <<>> /\ PlannedFromOwnIndex
         => CompleteFor(served'[1].of.rows)]_vars

\* "pass True when re-running with a changed forms / companies / years so the
\* new slice actually takes effect" (wrapper.py, SEC.fetch, force_rebuild).
NewSliceTakesEffect ==
    [][Rebuilds /\ call.force_rebuild /\ NonEmpty(call.companies) # <<>>
         => CompleteFor(served'[1].of.rows)]_vars

\* What the filing of a request says, when its document is read from the top of
\* the filing's directory.
Says(task, f) ==
    Forms({[file EXCEPT !.dir = ""] : file \in Brings(task)}, {}, <<f>>, build_slice).rows

\* "Emits ... planned_sale.csv - one row per securitiesToBeSoldInfo block" of the
\* XML the SEC mandates (form144.rs), which comes "down via the generic filing
\* fetcher" (wrapper.py) under "the original name", which "is what they expect",
\* the extract walkers (fetch.rs): the graph of a call that asks for Form 144 has
\* what its notices say, under the conditions of RepeatCompletes.
NoticesExtracted ==
    [][Rebuilds /\ NonEmpty(call.companies) # <<>> /\ PlannedFromOwnIndex
         => \A f \in Wanted : f.form \in matching_forms["form144"] =>
              \A task \in RequestsFor(f) : Says(task, f) \subseteq served'[1].of.rows]_vars

\* Every call returns or raises: a filing EDGAR does not have, a torn file or
\* an unknown ticker never holds it up (sec.rs run_batch).
CallReturns == pc # "idle" ~> pc = "idle"

TypeOK ==
    /\ pc \in {"idle", "resolve", "cache", "quarters", "submissions", "tickers", "dispatch",
               "fetch", "extract", "sinks", "identity", "forms", "build"}
    /\ \A c \in ToSet(disk.csvs) : \A row \in c.rows :
          DOMAIN row.refs = Header(row.table) \cup {"filing"}
    /\ pc = "idle" => todo = <<>>
    /\ disk.index # <<>> => disk.csvs # <<>>
    /\ {f.cik : f \in disk.raw} \subseteq disk.dirs

=============================================================================
