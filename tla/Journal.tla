-------------------------------- MODULE Journal --------------------------------
(* The recorded operations as four views list them: the change journal      *)
(* (operation-view.js), the status of a control in the library (product.js),*)
(* the history of a control (control-view.js), the evidence report          *)
(* (enterprise-center.js). Each orders and filters the same history itself. *)
EXTENDS ListPager, FiniteSets
LOCAL INSTANCE SequencesExt

CONSTANTS Control, Gpo,
          MaxHistory, MaxTime   \* bounds: runs recorded, moments told apart
VARIABLES history,              \* the runs as the server lists them, last recorded first
          journal               \* the journal's filter, order, search and page
journalVars == <<history, journal>>

JournalPage == 1                \* runs of a page: 50 in the code
Outcomes == {"open", "verified", "drift", "review", "rolled"}
Orders == {"newest", "oldest", "attention"}
Filters == {"ALL", "SUCCESS", "DRIFT", "FAILED", "ROLLED_BACK"}
\* classify().attention, and the patterns of the filter buttons.
needsReview(run) == run.outcome \in {"drift", "review"}
matchesFilter(run, filter) ==
    \/ filter = "ALL"
    \/ filter = "SUCCESS" /\ run.outcome = "verified"
    \/ filter = "DRIFT" /\ run.outcome = "drift"
    \/ filter = "FAILED" /\ run.outcome = "review"
    \/ filter = "ROLLED_BACK" /\ run.outcome = "rolled"
matchesQuery(run, query) == query = {} \/ run.control \in query

-----------------------------------------------------------------------------
\* Array.sort is stable: runs that compare equal keep the order they have.
StableSort(runs, Before(_, _)) ==
    LET order == SetToSortSeq(DOMAIN runs, LAMBDA i, j :
            Before(runs[i], runs[j]) \/ (~Before(runs[j], runs[i]) /\ i < j))
    IN [i \in DOMAIN runs |-> runs[order[i]]]
Newer(a, b) == a.at > b.at
sortedRuns(runs, order) ==
    LET First(a, b) ==
          IF order = "attention" /\ needsReview(a) # needsReview(b) THEN needsReview(a)
          ELSE IF order = "oldest" THEN Newer(b, a) ELSE Newer(a, b)
    IN StableSort(runs, First)
\* Variant: a run takes over from an equally old one.
LatestOnTies(runs) ==
    LET Take(latest, run) ==
          IF run.control \in DOMAIN latest /\ Newer(latest[run.control], run) THEN latest
          ELSE [c \in DOMAIN latest \cup {run.control} |-> IF c = run.control THEN run ELSE latest[c]]
    IN FoldLeft(Take, <<>>, runs)
latestByControl(runs) ==
    LET Take(latest, run) ==
          IF run.control \in DOMAIN latest /\ ~Newer(run, latest[run.control]) THEN latest
          ELSE [c \in DOMAIN latest \cup {run.control} |-> IF c = run.control THEN run ELSE latest[c]]
    IN FoldLeft(Take, <<>>, runs)
\* The history of a control, of one target where one is selected.
relevantHistory(runs, control, targets) ==
    StableSort(SelectSeq(runs, LAMBDA run : run.control = control /\ run.gpo \in targets), Newer)

-----------------------------------------------------------------------------
matching(filter, query) ==
    SelectSeq(history, LAMBDA run : matchesFilter(run, filter) /\ matchesQuery(run, query))
operationsView == sortedRuns(matching(journal.filter, journal.query), journal.order)
visible == page(operationsView, journal.page, JournalPage)
\* The numbers on the filter buttons ("metrics").
metric(filter) ==
    Cardinality({i \in DOMAIN history : matchesFilter(history[i], filter)})
reportStatusOf(run) ==
    IF needsReview(run) THEN "NEEDS_REVIEW"
    ELSE IF run.outcome = "verified" THEN "EVIDENCE_VERIFIED" ELSE "NOT_FULLY_VERIFIED"
\* The report under its GPO and status filters.
collect(gpos, statuses) ==
    LET entries == StableSort(SelectSeq(history, LAMBDA run :
                       run.gpo \in gpos /\ reportStatusOf(run) \in statuses), Newer)
        Count(wanted) == Len(SelectSeq(entries, LAMBDA run : reportStatusOf(run) = wanted))
    IN [entries |-> entries, tracked |-> {entries[i].control : i \in DOMAIN entries},
        verifiedEvidence |-> Count("EVIDENCE_VERIFIED"), reviewRequired |-> Count("NEEDS_REVIEW"),
        unverified |-> Count("NOT_FULLY_VERIFIED")]

-----------------------------------------------------------------------------
JournalInit ==
    /\ history = <<>>
    /\ journal = [filter |-> "ALL", order |-> "newest", query |-> {}, page |-> 0]
\* The history is read again after the server recorded or changed a run. A
\* change is never dated before an earlier one; marks of a batch share a date.
Dates == {t \in 1..MaxTime : \A i \in DOMAIN history : t >= history[i].at}
HistoryRead ==
    /\ \/ /\ Len(history) < MaxHistory
          /\ \E control \in Control, gpo \in Gpo, at \in Dates :
                history' = <<[control |-> control, gpo |-> gpo, outcome |-> "open", at |-> at]>> \o history
       \/ \E i \in DOMAIN history, outcome \in Outcomes, at \in Dates :
             history' = [history EXCEPT ![i].outcome = outcome, ![i].at = at]
    /\ UNCHANGED journal
SetFilter(filter) == journal' = [journal EXCEPT !.filter = filter, !.page = 0] /\ UNCHANGED history
SetOrder(order) == journal' = [journal EXCEPT !.order = order, !.page = 0] /\ UNCHANGED history
SearchRuns(query) == journal' = [journal EXCEPT !.query = query, !.page = 0] /\ UNCHANGED history
TurnJournalPage ==
    /\ \E n \in buttons(visible, operationsView, JournalPage) : journal' = [journal EXCEPT !.page = n]
    /\ UNCHANGED history
JournalNext ==
    \/ HistoryRead \/ TurnJournalPage
    \/ \E filter \in Filters : SetFilter(filter)
    \/ \E order \in Orders : SetOrder(order)
    \/ \E query \in {{}} \cup {{c} : c \in Control} : SearchRuns(query)
JournalSpec == JournalInit /\ [][JournalNext]_journalVars

-----------------------------------------------------------------------------
(* The four views agree. The run the library judges a control by is the     *)
(* first of its history and the first of it in the newest order, even where *)
(* a batch dated two runs alike. The journal's pages show each run that     *)
(* matches once and no page is empty while one matches; a filter button     *)
(* leads to as many runs as it says; runs that need a review come first     *)
(* when asked for. The report is the newest order and its counts add up.    *)
JournalAgrees ==
    /\ DOMAIN latestByControl(history) = {history[i].control : i \in DOMAIN history}
    /\ \A c \in DOMAIN latestByControl(history) :
          /\ latestByControl(history)[c] = Head(relevantHistory(history, c, Gpo))
          /\ latestByControl(history)[c] =
               Head(SelectSeq(sortedRuns(history, "newest"), LAMBDA run : run.control = c))
          /\ \A g \in Gpo : LET of == relevantHistory(history, c, {g}) IN
                of # <<>> => ~Newer(Head(of), latestByControl(history)[c])
    /\ AllPages(operationsView, JournalPage) = operationsView
    /\ operationsView # <<>> => visible.items # <<>>
    /\ journal.query = {} => Len(operationsView) = metric(journal.filter)
    /\ journal.order = "attention" => \A i, j \in DOMAIN operationsView :
          needsReview(operationsView[j]) /\ ~needsReview(operationsView[i]) => j < i
    /\ LET report == collect(Gpo, {"EVIDENCE_VERIFIED", "NEEDS_REVIEW", "NOT_FULLY_VERIFIED"}) IN
          /\ report.entries = sortedRuns(history, "newest")
          /\ report.verifiedEvidence = metric("SUCCESS")
          /\ report.reviewRequired = metric("DRIFT") + metric("FAILED")
          /\ report.tracked = DOMAIN latestByControl(history)
=============================================================================
