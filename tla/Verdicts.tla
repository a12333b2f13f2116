-------------------------------- MODULE Verdicts -------------------------------
(* What the views say of one recorded operation (ui-domain.js, product.js, *)
(* components.js, control-view.js, operation-view.js, the dashboard in     *)
(* workspace.js), and the records the server can leave behind: an Apply,   *)
(* verifications in one page or several, refreshes, restores, and each of  *)
(* them interrupted. Several functions classify the same record, each with *)
(* patterns of its own; texts are left out, the verdicts are kept.         *)
EXTENDS Naturals, FiniteSets

CONSTANT EndpointCount          \* pinned endpoints; a page holds one of them
ASSUME EndpointsAssumption == EndpointCount \in Nat \ {0}
VARIABLE record                 \* the run as stored
Pinned == 1..EndpointCount

Readings == {"VERIFIED", "MISMATCH", "UNAVAILABLE"}
InProgress == {"APPLYING", "VERIFYING", "REFRESHING", "ROLLBACKING"}

-----------------------------------------------------------------------------
(* The records. kind: "sample" has no pinned endpoints, "pinned" has, for  *)
(* "domain" the AD value on the DC is read instead.                        *)

NoEvidence == [published |-> FALSE, linked |-> FALSE, replication |-> "not_checked",
               effective |-> "UNKNOWN", checks |-> [e \in {} |-> "VERIFIED"],
               complete |-> TRUE, ad |-> "none"]
\* Verify-Published: effective as far as this page of endpoints shows it.
measured(kind, checks, complete, ad) ==
    LET states == {checks[e] : e \in DOMAIN checks} IN
    CASE kind = "domain" ->
           CASE ad = "match" -> "DOMAIN_VALUE_MATCHES_ON_SELECTED_DC"
             [] ad = "differs" -> "ENDPOINT_MISMATCH"
             [] OTHER -> "DOMAIN_POLICY_UNAVAILABLE"
      [] kind # "domain" /\ states = {} -> "GPO_VALUE_VERIFIED_ENDPOINT_PENDING"
      [] kind # "domain" /\ "MISMATCH" \in states -> "ENDPOINT_MISMATCH"
      [] kind # "domain" /\ states = {"VERIFIED"} /\ complete -> "VERIFIED_ON_SAMPLE"
      [] OTHER -> "ENDPOINT_VERIFICATION_PENDING"
\* A disabled half of the GPO counts as a value that is not published.
effectiveOf(published, linked, converged, read) ==
    IF ~published THEN "GPO_PUBLICATION_MISMATCH"
    ELSE IF ~linked THEN "GPO_LINK_MISMATCH"
    ELSE IF ~converged /\ read \notin {"ENDPOINT_MISMATCH", "DOMAIN_POLICY_UNAVAILABLE"}
         THEN "REPLICATION_PENDING"
    ELSE read
\* The loop over the pages: the last page's metadata, all pages' readings.
joined(published, linked, converged, checks, last) ==
    IF ~(published /\ linked /\ converged) THEN last
    ELSE IF \E e \in Pinned : checks[e] = "MISMATCH" THEN "ENDPOINT_MISMATCH"
    ELSE IF \A e \in Pinned : checks[e] = "VERIFIED" THEN "VERIFIED_ON_ALL_TARGETS"
    ELSE "ENDPOINT_VERIFICATION_PENDING"
\* What one verification reads of the endpoints s, n pages of them (none after
\* an Apply). The paging ends early only where GPO or link are found changed.
EndpointReading(kind, endpoints, p, l, c, s, n) ==
    LET pages == IF kind = "pinned" /\ ~(p /\ l) THEN 1..n ELSE Pinned
        checks == [e \in endpoints \cap pages |-> s[e]]
        all == kind # "pinned" \/ pages = Pinned
        last == effectiveOf(p, l, c,
           IF kind = "pinned" /\ endpoints # {}
           THEN measured(kind, [e \in {Cardinality(pages)} |-> s[e]], all, "none")
           ELSE measured(kind, checks, TRUE, "none"))
    IN [published |-> p, linked |-> l, ad |-> "none", checks |-> checks, complete |-> all,
        replication |-> IF c THEN "converged" ELSE "pending",
        effective |-> IF kind = "pinned" /\ endpoints # {}
                      THEN joined(p, l, c, checks, last) ELSE last]
EndpointEvidence(kind, endpoints) ==
    { EndpointReading(kind, endpoints, p, l, c, s, n) :
        p, l, c \in BOOLEAN, s \in [endpoints -> Readings], n \in Pinned }
DomainReading(p, l, c, ad) ==
    [published |-> p, linked |-> l, ad |-> ad, complete |-> TRUE,
     replication |-> IF c THEN "converged" ELSE "pending",
     checks |-> [e \in {1} |-> CASE ad = "match" -> "VERIFIED"
                                 [] ad = "differs" -> "MISMATCH" [] OTHER -> "UNAVAILABLE"],
     effective |-> effectiveOf(p, l, c, measured("domain", <<>>, TRUE, ad))]
DomainEvidence ==
    { DomainReading(p, l, c, ad) : p, l, c \in BOOLEAN, ad \in {"match", "differs", "none"} }
Evidence(kind, endpoints) ==
    IF kind = "domain" THEN DomainEvidence ELSE EndpointEvidence(kind, endpoints)
\* The first page of more.
FirstPage(v) ==
    LET first == [e \in {1} |-> v.checks[1]] IN
    [v EXCEPT !.checks = first, !.complete = FALSE,
       !.effective = effectiveOf(v.published, v.linked, v.replication = "converged",
                                 measured("pinned", first, FALSE, "none"))]
\* Verify-Rollback: endpoints are observed, not judged.
ObservedReading(kind, c, seen, ad) ==
    [NoEvidence EXCEPT !.replication = IF c THEN "converged" ELSE "pending",
       !.effective = "ROLLBACK_ENDPOINT_PENDING", !.ad = ad,
       !.checks = [e \in (IF kind = "domain" THEN {} ELSE {1}) |-> seen]]
Observed(kind) ==
    { ObservedReading(kind, c, seen, ad) :
        c \in BOOLEAN, seen \in {"OBSERVED", "UNAVAILABLE"},
        ad \in IF kind = "domain" THEN {"match", "differs", "none"} ELSE {"none"} }

Result(state, evidence, refresh) ==
    record' = [record EXCEPT !.state = state, !.evidence = evidence, !.refresh = refresh]
VerdictsInit ==
    record \in [kind : {"sample", "pinned", "domain"}, custom : BOOLEAN,
                state : {"APPLYING"}, backup : {FALSE}, refresh : {"none"},
                evidence : {[NoEvidence EXCEPT !.effective = "PENDING"]}]

ApplyEnds ==
    /\ record.state = "APPLYING"
    /\ \/ \E v \in Evidence(record.kind, {}) :
            /\ record' = [record EXCEPT !.backup = TRUE, !.evidence = v,
                  !.state = IF v.published /\ v.linked THEN "PUBLISHED" ELSE "VERIFY_MISMATCH"]
       \/ \E v \in Evidence(record.kind, {}) :
            v.published /\ v.linked /\ Result("NO_CHANGE", v, "none")
       \/ \E state \in {"FAILED_SAFE", "REVIEW_REQUIRED"} :
            record' = [record EXCEPT !.backup = TRUE, !.state = state, !.evidence = NoEvidence]
\* What the drawer offers (components.js).
busyState(r) == r.state \in InProgress
refreshAction(r) ==
    \/ r.state = "ROLLED_BACK"
    \/ /\ r.evidence.published /\ r.evidence.linked
       /\ r.state \in {"PUBLISHED", "NO_CHANGE", "REVIEW_REQUIRED", "REFRESH_COMPLETED",
                       "REFRESH_PARTIAL", "REFRESH_SCHEDULED"}
recovery(r) == r.backup /\ ~busyState(r) /\ r.state # "BATCH_ROLLED_BACK"
\* The previous result is kept while an operation runs. A refresh is let
\* through by the live read before it only.
Refreshable(r) ==
    \/ r.state = "ROLLED_BACK"
    \/ r.evidence.published /\ r.evidence.linked /\ r.state \in {"PUBLISHED", "NO_CHANGE"}
OperationStarts(state) ==
    /\ record.state \notin InProgress \cup {"BATCH_ROLLED_BACK"}
    /\ state = "ROLLBACKING" => recovery(record)
    /\ state = "REFRESHING" => refreshAction(record) /\ Refreshable(record)
    /\ record' = [record EXCEPT !.state = state]
\* That read is stored: one page of the pinned endpoints.
LiveRead ==
    /\ record.state \notin InProgress \cup {"BATCH_ROLLED_BACK", "ROLLED_BACK"}
    /\ \E v \in Evidence(record.kind, Pinned) :
          Result(IF v.published /\ v.linked THEN "PUBLISHED" ELSE "DRIFT_DETECTED",
                 IF record.kind = "pinned" THEN FirstPage(v) ELSE v, record.refresh)
VerifyPageEnds ==
    /\ record.state = "VERIFYING" /\ record.kind = "pinned"
    /\ \E v \in Evidence("pinned", Pinned) :
          v.published /\ v.linked /\ Result("VERIFYING", FirstPage(v), record.refresh)
VerifyEnds ==
    /\ record.state = "VERIFYING"
    /\ \/ \E v \in Evidence(record.kind, Pinned) :
            \E state \in IF v.published /\ v.linked THEN {"PUBLISHED", "NO_CHANGE", "REVIEW_REQUIRED"}
                         ELSE {"DRIFT_DETECTED", "REVIEW_REQUIRED"} :
               Result(state, v, record.refresh)
       \/ \E v \in Observed(record.kind) :
            \E state \in {"ROLLBACK_REVIEW_REQUIRED", "ROLLBACK_DRIFT_DETECTED"} :
               record.backup /\ Result(state, v, record.refresh)
       \/ \E v \in Observed(record.kind) :
            /\ record.backup /\ v.ad # "differs" /\ Result("ROLLED_BACK", v, record.refresh)
RecordRefreshed ==
    /\ record.state = "REFRESHING"
    /\ \E refresh \in {"COMPLETED", "SCHEDULED", "FAILED"} :
         \/ \E v \in Evidence(record.kind, {}) :
              Result(IF ~(v.published /\ v.linked) THEN "DRIFT_DETECTED"
                     ELSE CASE refresh = "COMPLETED" -> "REFRESH_COMPLETED"
                            [] refresh = "SCHEDULED" -> "REFRESH_SCHEDULED"
                            [] OTHER -> "REFRESH_PARTIAL", v, refresh)
         \/ \E v \in Observed(record.kind) :
              /\ record.backup
              /\ Result(IF v.ad # "differs" THEN "ROLLED_BACK" ELSE "ROLLBACK_DRIFT_DETECTED",
                        v, refresh)
    \/ \E v \in Evidence(record.kind, {}) :
         /\ record.state = "REFRESHING" /\ v.published /\ v.linked
         /\ Result("REFRESH_NOT_CONFIGURED", v, "none")
RollbackEnds ==
    /\ record.state = "ROLLBACKING"
    /\ \E v \in Observed(record.kind) :
         \/ v.ad # "differs" /\ Result("ROLLED_BACK", v, "none")
         \/ Result("ROLLBACK_REVIEW_REQUIRED", v, "none")
\* The batch's other records after its one restore.
BatchMarks ==
    /\ record.state \notin InProgress /\ record.backup
    /\ Result("BATCH_ROLLED_BACK", [NoEvidence EXCEPT !.effective = "ROLLBACK_ENDPOINT_PENDING"],
              "none")
\* The catch of ExecuteAsync and the recovery after a crash.
Interrupted ==
    /\ record.state \in InProgress
    /\ \E state \in {"FAILED_SAFE", "REVIEW_REQUIRED"} : record' = [record EXCEPT !.state = state]

VerdictsNext ==
    \/ ApplyEnds \/ VerifyPageEnds \/ VerifyEnds \/ RecordRefreshed \/ RollbackEnds
    \/ BatchMarks \/ Interrupted \/ LiveRead
    \/ \E state \in {"VERIFYING", "REFRESHING", "ROLLBACKING"} : OperationStarts(state)
VerdictsSpec == VerdictsInit /\ [][VerdictsNext]_record

-----------------------------------------------------------------------------
(* ui-domain.js. The patterns, as the statuses they match.                 *)

readingsOf(r) == {r.evidence.checks[e] : e \in DOMAIN r.evidence.checks}
bad(status) ==
    status \in {"FAILED_SAFE", "REVIEW_REQUIRED", "VERIFY_MISMATCH", "DRIFT_DETECTED",
                "ROLLBACK_REVIEW_REQUIRED", "ROLLBACK_DRIFT_DETECTED", "REFRESH_PARTIAL",
                "ENDPOINT_MISMATCH", "GPO_PUBLICATION_MISMATCH", "GPO_LINK_MISMATCH"}
effectiveVerified(status) ==
    status \in {"VERIFIED_ON_SAMPLE", "VERIFIED_ON_ALL_TARGETS",
                "DOMAIN_VALUE_MATCHES_ON_SELECTED_DC"}
restoredState(r) == r.state \in {"ROLLED_BACK", "BATCH_ROLLED_BACK"}
domainMismatch(r) == r.evidence.ad = "differs" /\ ~restoredState(r)
coverageVerified(r) ==
    \/ r.evidence.effective = "DOMAIN_VALUE_MATCHES_ON_SELECTED_DC"
    \/ /\ readingsOf(r) = {"VERIFIED"}
       /\ r.evidence.effective = "VERIFIED_ON_ALL_TARGETS" =>
            /\ r.kind = "pinned" /\ r.evidence.complete
            /\ DOMAIN r.evidence.checks = Pinned
publication(r) ==
    IF r.evidence.published THEN "published" ELSE IF bad(r.state) THEN "failed" ELSE "pending"
effect(r) ==
    IF domainMismatch(r) THEN "failed"
    ELSE IF effectiveVerified(r.evidence.effective) /\ coverageVerified(r) THEN "verified"
    ELSE IF bad(r.evidence.effective) THEN "failed" ELSE "pending"
\* Variant: only the state of the operation is looked at.
attentionByState(r) == bad(r.state) \/ publication(r) = "failed" \/ r.refresh = "FAILED"
attention(r) ==
    bad(r.state) \/ publication(r) = "failed" \/ effect(r) = "failed" \/ r.refresh = "FAILED"
\* Variant: what was published and replicated counts as verified.
evidencedStored(r) ==
    /\ publication(r) = "published" /\ r.evidence.linked
    /\ r.evidence.replication = "converged" /\ ~attention(r)
evidenced(r) ==
    /\ publication(r) = "published" /\ r.evidence.linked
    /\ r.evidence.replication = "converged" /\ effect(r) = "verified" /\ ~attention(r)
compliant(r) == ~restoredState(r) /\ ~r.custom /\ evidenced(r)

appliedState(r) ==
    /\ r.evidence.published /\ r.evidence.linked
    /\ r.state \in {"PUBLISHED", "NO_CHANGE", "REFRESH_COMPLETED", "REFRESH_SCHEDULED",
                    "REFRESH_PARTIAL"}
mismatched(r) ==
    /\ ~restoredState(r)
    /\ \/ domainMismatch(r) \/ r.evidence.effective = "ENDPOINT_MISMATCH"
       \/ "MISMATCH" \in readingsOf(r)
success(r) == ~busyState(r) /\ ~mismatched(r) /\ (restoredState(r) \/ appliedState(r))
title(r) ==
    CASE restoredState(r) -> "restored"
      [] ~restoredState(r) /\ busyState(r) -> "checking"
      [] ~restoredState(r) /\ ~busyState(r) /\ mismatched(r) -> "mismatch"
      [] success(r) /\ ~restoredState(r) -> IF evidenced(r) THEN "verified" ELSE "applied"
      [] OTHER -> IF attention(r) THEN "review" ELSE "unverified"
resultState(r) ==
    IF ~(restoredState(r) \/ busyState(r)) /\ mismatched(r) THEN "ENDPOINT_MISMATCH" ELSE r.state
workflowStep(r) ==
    IF restoredState(r) THEN 5 ELSE IF bad(r.state) \/ ~compliant(r)
    THEN IF r.evidence.published THEN 6 ELSE 5 ELSE 6

-----------------------------------------------------------------------------
(* The views.                                                              *)

\* components.js: the badge of a status, and that of an operation.
status(value) ==
    IF value = "ROLLED_BACK" THEN "neutral" ELSE IF bad(value) THEN "danger"
    ELSE IF effectiveVerified(value) THEN "success" ELSE "pending"
operationStatus(r, offline) ==
    IF ~offline /\ success(r) THEN "success" ELSE status(resultState(r))
endpointSummary(r) ==
    IF mismatched(r) THEN "bad"
    ELSE IF "UNAVAILABLE" \in readingsOf(r) \/ r.refresh = "FAILED" THEN "partial" ELSE "neutral"
\* product.js: the tone of the control in the catalog, and the drawer.
controlStatus(r) ==
    IF r.state = "ROLLED_BACK" \/ busyState(r) THEN "unknown"
    ELSE IF attention(r) \/ r.custom THEN "warning" ELSE IF compliant(r) THEN "good" ELSE "unknown"
inspector(r, offline) ==
    IF ~offline /\ success(r) THEN "success" ELSE IF attention(r) THEN "warning" ELSE "neutral"
\* control-view.js: the verification tab; a running operation hides it.
resultSummary(r, offline) ==
    IF offline THEN "neutral" ELSE IF busyState(r) THEN "pending"
    ELSE IF mismatched(r) THEN "danger" ELSE IF success(r) THEN "success"
    ELSE IF attention(r) THEN "danger" ELSE "pending"
stepConfirmed(r) == compliant(r)
\* workspace.js: the row of the dashboard; operation-view.js: its filters.
dashboardRow(r) ==
    IF busyState(r) \/ r.state \in {"ROLLED_BACK", "BATCH_ROLLED_BACK",
                         "ROLLBACK_REVIEW_REQUIRED", "ROLLBACK_DRIFT_DETECTED"}
    THEN resultState(r)
    ELSE IF compliant(r) THEN "VERIFIED_ON_SAMPLE"
    ELSE IF attention(r) THEN "REVIEW_REQUIRED" ELSE "ENDPOINT_VERIFICATION_PENDING"
needsAttention(r) ==
    attention(r) \/ (~busyState(r) /\ ~compliant(r) /\ dashboardRow(r) # r.state)
driftFilter(r) ==
    \E s \in {r.state, r.evidence.effective} :
       s \in {"DRIFT_DETECTED", "ROLLBACK_DRIFT_DETECTED", "VERIFY_MISMATCH", "ENDPOINT_MISMATCH",
              "GPO_PUBLICATION_MISMATCH", "GPO_LINK_MISMATCH"}
failedFilter(r) ==
    \E s \in {r.state, r.evidence.effective} :
       s \in {"FAILED_SAFE", "REVIEW_REQUIRED", "ROLLBACK_REVIEW_REQUIRED", "REFRESH_PARTIAL"}

needsAttentionCard(r) ==
    \/ driftFilter(r)
    \/ r.state \in {"FAILED_SAFE", "REVIEW_REQUIRED", "ROLLBACK_REVIEW_REQUIRED"}
\* components.js: the list of measured stages; GpoAssurance.Stages names them.
Stages(r) ==
    [configuration |-> IF r.evidence.published THEN "GPO_APPLIED" ELSE "NOT_VERIFIED",
     replication |-> CASE r.evidence.replication = "converged" -> "VERIFIED"
                       [] r.evidence.replication = "pending" -> "REPLICATION_PENDING"
                       [] OTHER -> "NOT_TESTED",
     processing |-> CASE r.refresh = "none" -> "NOT_TESTED"
                      [] r.refresh = "COMPLETED" -> "GPUPDATE_COMPLETED"
                      [] r.refresh = "SCHEDULED" -> "GPUPDATE_SCHEDULED" [] OTHER -> "FAILED",
     endpoint |-> IF domainMismatch(r) \/ "MISMATCH" \in readingsOf(r) THEN "ENDPOINT_MISMATCH"
                  ELSE IF \/ readingsOf(r) = {"VERIFIED"} /\ (r.kind = "pinned" =>
                                r.evidence.complete /\ DOMAIN r.evidence.checks = Pinned)
                          \/ r.evidence.effective = "DOMAIN_VALUE_MATCHES_ON_SELECTED_DC"
                  THEN "ENDPOINT_VERIFIED" ELSE "INSUFFICIENT_EVIDENCE"]
assuranceTone(stage, value, offline) ==
    CASE offline -> "neutral"
      [] ~offline /\ value \in {"GPO_APPLIED", "VERIFIED", "ENDPOINT_VERIFIED", "GPUPDATE_COMPLETED"} -> "good"
      [] ~offline /\ value \in {"FAILED", "ENDPOINT_MISMATCH", "PARTIAL_SUCCESS"} -> "bad"
      [] ~offline /\ stage = "processing" /\ value \in {"GPUPDATE_SCHEDULED", "NOT_TESTED"} -> "info"
      [] ~offline /\ value \in {"REPLICATION_PENDING", "INSUFFICIENT_EVIDENCE"} -> "pending"
      [] OTHER -> "neutral"
assuranceStages(r, offline) ==
    [stage \in DOMAIN Stages(r) |-> assuranceTone(stage, Stages(r)[stage], offline)]
\* The drawer's steps of a record that was not restored.
timeline(r) ==
    [preview |-> TRUE, backup |-> r.backup, written |-> r.evidence.published,
     linked |-> r.evidence.linked, replicated |-> r.evidence.replication = "converged",
     effective |-> effectiveVerified(r.evidence.effective)]
\* enterprise-center.js: the status a record is exported with, and its counts.
reportStatus(r) ==
    IF attention(r) THEN "NEEDS_REVIEW"
    ELSE IF evidenced(r) /\ ~restoredState(r) THEN "EVIDENCE_VERIFIED" ELSE "NOT_FULLY_VERIFIED"

Views(r, offline) ==
    [badge |-> operationStatus(r, offline), summary |-> resultSummary(r, offline),
     drawer |-> inspector(r, offline), catalog |-> controlStatus(r),
     row |-> status(dashboardRow(r)), report |-> reportStatus(r)]

(* A green verdict rests on measurements: the catalog, the dashboard, the  *)
(* stepper and the title call a control verified only when the GPO was read*)
(* back published and linked, the controllers had converged and every      *)
(* pinned endpoint (or the AD value) matched, in every page. The tab of the*)
(* control agrees, except after a refresh without an allowed host: outcome *)
(* does not know that state and says the application is not verified. The  *)
(* exported evidence says verified of such records only, and the list of   *)
(* stages marks each of their measured stages good.                        *)
MeasuredThroughout(r) ==
    /\ r.evidence.published /\ r.evidence.linked /\ r.evidence.replication = "converged"
    /\ IF r.kind = "domain" THEN r.evidence.ad = "match"
       ELSE readingsOf(r) = {"VERIFIED"} /\ (r.kind = "pinned" => DOMAIN r.evidence.checks = Pinned)
GreenIsMeasured ==
    /\ (controlStatus(record) = "good" \/ title(record) = "verified" \/ stepConfirmed(record))
         => MeasuredThroughout(record)
    /\ reportStatus(record) = "EVIDENCE_VERIFIED" =>
         /\ MeasuredThroughout(record) /\ timeline(record).effective
         /\ \A stage \in {"configuration", "replication", "endpoint"} :
               assuranceStages(record, FALSE)[stage] = "good"
    /\ controlStatus(record) = "good" /\ record.state # "REFRESH_NOT_CONFIGURED"
         => Views(record, FALSE).summary = "success"

(* A measured difference is not hidden by any view: every one of them, and *)
(* the filter an operator searches with, shows it. The exception is written*)
(* down: read in pages, a difference found on an earlier page is kept with *)
(* the readings, but the status is the last page's while the controllers   *)
(* have not converged, and the catalog and the dashboard go by the status. *)
PageForgotten(r) ==
    /\ r.kind = "pinned" /\ r.evidence.replication = "pending"
    /\ r.evidence.effective = "REPLICATION_PENDING" /\ Cardinality(DOMAIN r.evidence.checks) > 1
MismatchIsShown ==
    mismatched(record) /\ ~busyState(record) /\ ~PageForgotten(record) =>
      /\ Views(record, FALSE) = [badge |-> "danger", summary |-> "danger", drawer |-> "warning",
                                 catalog |-> "warning", row |-> "danger",
                                 report |-> "NEEDS_REVIEW"]
      /\ needsAttention(record) /\ needsAttentionCard(record)
      /\ driftFilter(record) \/ failedFilter(record)
      /\ readingsOf(record) # {} => assuranceStages(record, FALSE).endpoint = "bad"
=============================================================================
