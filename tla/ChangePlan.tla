------------------------------ MODULE ChangePlan -----------------------------
(* The control page of the browser client (workspace.js, control-view.js): *)
(* a target is chosen and checked for access, previewed into a plan, the   *)
(* plan is reviewed, confirmed and applied, and the change gate is opened  *)
(* on the way with one restart of the service. Clicks, typed fields, timers*)
(* and answers interleave; run() lets one task through at a time, but the  *)
(* page stays usable under it. A target stands for a control with its GPO, *)
(* scope and values; texts, layout and the tasks that do not concern the   *)
(* plan are left out.                                                      *)
EXTENDS Naturals, Sequences, FiniteSets

CONSTANTS Target,                   \* what the form can hold
          MaxPlan, MaxProcess       \* bounds of the instance
ASSUME PlanBound == MaxPlan \in Nat

VARIABLES planPage,    \* the page's state object
          doing,       \* the task run() holds
          accessCheck, \* the latest access check, waiting for its timer or its answer
          stored,      \* the write-resume record of the tab, or Unchosen
          backend,     \* the service: process, gate and delegated session
          plans,       \* every plan the server issued, their index is the id
          applied      \* history: plans the server was asked to apply
planVars == <<planPage, doing, accessCheck, stored, backend, plans, applied>>

Unchosen == "unchosen"
NoCheck == [sel |-> Unchosen, process |-> 0, signed |-> FALSE]
NotDoing == [kind |-> "none", sel |-> Unchosen, plan |-> 0, from |-> 0]

NewPage(process, writes, signed) ==
    [sel |-> Unchosen, plan |-> 0, reviewed |-> Unchosen,
     confirm |-> 0, back |-> Unchosen, blocked |-> FALSE,
     process |-> process, writes |-> writes, signed |-> signed]
PlanInit ==
    /\ \E open \in BOOLEAN :
          backend = [process |-> 1, up |-> TRUE, writes |-> open, session |-> FALSE]
    /\ planPage = NewPage(1, backend.writes, FALSE)
    /\ doing = NotDoing /\ accessCheck = NoCheck /\ stored = Unchosen
    /\ plans = <<>> /\ applied = {}

Busy == doing.kind # "none"
Previewing == doing.kind \in {"preview", "related", "final", "replan"}
\* The confirmation dialog makes the rest of the page inert.
Usable == planPage.confirm = 0
targetKey(p) == [sel |-> p.sel, process |-> p.process, signed |-> p.signed]
Plan(p) == plans[p.plan]
AccountGone(p) == [p EXCEPT !.signed = FALSE, !.plan = 0]    \* clearDelegatedState

\* The write-resume record: what is chosen, kept in the tab while the service
\* restarts; one that is older than half an hour is dropped when it is read.
saveWriteResume(p) == p.sel
readWriteResume == {stored, Unchosen}
clearWriteResume == Unchosen

-----------------------------------------------------------------------------
(* Choosing. Every way to another target drops the plan; what else it      *)
(* resets differs from one to the next.                                    *)

Clicked == UNCHANGED <<doing, stored, backend, plans, applied>>
\* Another control: its form is empty.
selectRule ==
    /\ Usable
    /\ planPage' = [planPage EXCEPT !.sel = Unchosen, !.plan = 0, !.reviewed = Unchosen]
    /\ Clicked /\ UNCHANGED accessCheck

\* queueTargetAccess: the timer is reset and the sequence number tells the
\* answers of earlier checks apart, so that only the latest one counts.
QueueAccess(p) ==
    /\ planPage' = p
    /\ accessCheck' = IF p.sel = Unchosen THEN NoCheck ELSE targetKey(p)

\* Variant: a GPO or a scope is chosen and the plan stays.
ChosenKeepingPlan(p, s) == [p EXCEPT !.sel = s]
ChosenTarget(p, s) == [p EXCEPT !.sel = s, !.plan = 0]
\* A GPO or a scope from the directory; the tick of the review stays.
ChooseTarget(s) ==
    /\ Usable /\ planPage.signed
    /\ IF s = planPage.sel THEN QueueAccess(planPage)
       ELSE QueueAccess(ChosenTarget(planPage, s))
    /\ Clicked
\* invalidateSelection: any field of the target form.
EditSelection(s) ==
    /\ Usable /\ planPage.signed
    /\ planPage' = [planPage EXCEPT !.sel = s, !.plan = 0, !.reviewed = Unchosen]
    /\ Clicked /\ UNCHANGED accessCheck
\* Recommended values, or the values of a reviewed control; the tick stays.
UseDefaults(s) ==
    /\ Usable /\ planPage.signed /\ planPage.sel # Unchosen
    /\ planPage' = ChosenTarget(planPage, s)
    /\ Clicked /\ UNCHANGED accessCheck
\* ensureSelection while rendering: a new inventory lacks the target.
ensureSelection ==
    /\ planPage.sel # Unchosen /\ planPage.signed
    /\ planPage' = [planPage EXCEPT !.sel = Unchosen, !.plan = 0,
                                    !.reviewed = IF planPage.plan = 0 THEN @ ELSE Unchosen]
    /\ Clicked /\ UNCHANGED accessCheck

-----------------------------------------------------------------------------
(* The access check behind the form, 300 ms after the choice: write access *)
(* confirmed, refused for the target it was asked for, or session expired. *)

targetAccess ==
    /\ accessCheck # NoCheck /\ accessCheck' = NoCheck
    /\ \/ backend.session /\ accessCheck.process = backend.process /\ UNCHANGED planPage
       \/ planPage' = IF accessCheck = targetKey(planPage)
                  THEN [planPage EXCEPT !.plan = 0, !.reviewed = Unchosen] ELSE planPage
       \/ backend.up /\ ~backend.session /\ planPage' = AccountGone(planPage)
    /\ UNCHANGED <<doing, stored, backend, plans, applied>>

-----------------------------------------------------------------------------
(* Previews.                                                               *)

\* Whatever run() is doing, the submission stops the access check.
SubmitSelection ==
    /\ Usable /\ planPage.signed /\ planPage.sel # Unchosen
    /\ accessCheck' = NoCheck
    /\ doing' = IF Busy THEN doing
                ELSE [NotDoing EXCEPT !.kind = "preview", !.sel = planPage.sel]
    /\ UNCHANGED <<planPage, stored, backend, plans, applied>>

\* completeDomainSignIn: the preview that follows the gate's restart.
FinalPlan(p) == [p EXCEPT !.reviewed = Unchosen]
\* A plan may be blocked by a related policy, and the connection may have
\* no write access to its target yet.
Issued(target, kind) ==
    Append(plans, [sel |-> target, process |-> backend.process, kind |-> kind])
Answerable == backend.up /\ backend.session /\ Len(plans) < MaxPlan
PlanReady ==
    /\ Previewing /\ Answerable
    /\ \E kind \in {"blocked", "readable", "authorized"} :
          plans' = Issued(doing.sel, kind)
    /\ LET shown == [planPage EXCEPT !.plan = Len(plans) + 1]
       IN planPage' = CASE doing.kind = "preview" ->
                         [shown EXCEPT !.blocked = FALSE]
                    [] doing.kind = "related" ->
                         IF doing.from = 1 THEN [shown EXCEPT !.back = Unchosen] ELSE shown
                    [] doing.kind = "final" ->
                         FinalPlan(shown)
                    [] doing.kind = "replan" ->
                         [shown EXCEPT !.sel = doing.sel, !.reviewed = Unchosen]
    /\ doing' = NotDoing
    /\ UNCHANGED <<accessCheck, stored, backend, applied>>

\* The dependency of a blocked plan, and the way back; from = 1 returns.
openDependencyPlan(target, returning) ==
    /\ Usable /\ ~Busy /\ planPage.signed
    /\ IF returning THEN planPage.back # Unchosen /\ target = planPage.back
       ELSE /\ planPage.plan # 0 /\ Plan(planPage).kind = "blocked"
            /\ target # Plan(planPage).sel
    /\ planPage' = [planPage EXCEPT !.back = IF returning THEN @ ELSE Plan(planPage).sel,
                  !.sel = target, !.plan = 0, !.reviewed = Unchosen]
    /\ doing' = [NotDoing EXCEPT !.kind = "related", !.sel = target,
                                 !.from = IF returning THEN 1 ELSE 0]
    /\ UNCHANGED <<accessCheck, stored, backend, plans, applied>>
\* A fresh plan for what a recorded operation changed.
Replan(target) ==
    /\ Usable /\ ~Busy /\ planPage.signed
    /\ \E id \in applied : plans[id].sel = target
    /\ doing' = [NotDoing EXCEPT !.kind = "replan", !.sel = target]
    /\ UNCHANGED <<planPage, accessCheck, stored, backend, plans, applied>>

\* run() catches: an access error blocks the plan of the target that the
\* form holds by now, any other error leaves the plan.
AccessDenied ==
    /\ Busy /\ backend.up /\ backend.session /\ doing.kind \in {"preview", "related",
                                             "final", "replan", "apply"}
    /\ planPage' = [planPage EXCEPT !.plan = 0]
    /\ accessCheck' = NoCheck /\ doing' = NotDoing
    /\ UNCHANGED <<stored, backend, plans, applied>>
\* The record of an opening is dropped when the gate was refused, and stays
\* when the configuration was.
TaskFails ==
    /\ Busy /\ doing.kind # "wait" /\ doing' = NotDoing
    /\ \/ UNCHANGED stored
       \/ doing.kind = "gate" /\ stored' = clearWriteResume
    /\ UNCHANGED <<planPage, accessCheck, backend, plans, applied>>
LoginRequired ==
    /\ Busy /\ backend.up /\ ~backend.session /\ doing.kind \notin {"sign-in", "wait"}
    /\ planPage' = AccountGone(planPage) /\ doing' = NotDoing
    /\ UNCHANGED <<accessCheck, stored, backend, plans, applied>>

-----------------------------------------------------------------------------
(* Review, confirmation, application (planBlock and its form).             *)

Reviewable == Usable /\ planPage.plan # 0 /\ Plan(planPage).kind # "blocked"
TickReviewed(b) ==
    /\ Reviewable
    /\ planPage' = [planPage EXCEPT !.reviewed = IF b THEN Plan(planPage).sel ELSE Unchosen]
    /\ Clicked /\ UNCHANGED accessCheck
Applicable ==
    Reviewable /\ planPage.reviewed # Unchosen /\ planPage.writes /\ Plan(planPage).kind = "authorized"
\* The form is filled in and submitted.
SubmitApply ==
    /\ Applicable /\ planPage' = [planPage EXCEPT !.confirm = planPage.plan]
    /\ Clicked /\ UNCHANGED accessCheck
CancelConfirm ==
    /\ planPage.confirm # 0 /\ planPage' = [planPage EXCEPT !.confirm = 0]
    /\ Clicked /\ UNCHANGED accessCheck

\* Variant: the plan of the dialog is not compared with the plan shown.
ConfirmableAny(p) == p.plan # 0
Confirmable(p) == p.plan = p.confirm
ConfirmRun ==
    /\ planPage.confirm # 0 /\ ~Busy
    /\ planPage' = [planPage EXCEPT !.confirm = 0]
    /\ IF Confirmable(planPage)
       THEN /\ doing' = [NotDoing EXCEPT !.kind = "apply", !.plan = planPage.confirm]
            /\ applied' = applied \cup {planPage.confirm}
       ELSE UNCHANGED <<doing, applied>>
    /\ UNCHANGED <<accessCheck, stored, backend, plans>>
ApplyAccepted ==
    /\ doing.kind = "apply" /\ backend.up /\ backend.session
    /\ planPage' = [planPage EXCEPT !.plan = 0] /\ doing' = NotDoing
    /\ UNCHANGED <<accessCheck, stored, backend, plans, applied>>

-----------------------------------------------------------------------------
(* The change gate: the authorization is narrowed to the plan, the gate is *)
(* opened, the service restarts once, and after the sign-in the preview is *)
(* made again.                                                             *)

enableWrites ==
    /\ Reviewable /\ ~Busy /\ planPage.signed /\ ~planPage.blocked
    /\ ~planPage.writes \/ Plan(planPage).kind = "readable"
    /\ doing' = [NotDoing EXCEPT !.kind = "narrow", !.from = planPage.process]
    /\ UNCHANGED <<planPage, accessCheck, stored, backend, plans, applied>>
\* The configuration is read, the record is saved before the first write.
GateNarrowed ==
    /\ doing.kind = "narrow" /\ backend.up
    /\ stored' = saveWriteResume(planPage)
    /\ doing' = [doing EXCEPT !.kind = "gate"]
    /\ UNCHANGED <<planPage, accessCheck, backend, plans, applied>>

\* Variant: the plan stays on the screen while the page waits.
WaitKeepingPlan(p) == [p EXCEPT !.reviewed = Unchosen]
Waiting(p) == [p EXCEPT !.plan = 0, !.reviewed = Unchosen]
GateOpened ==
    /\ doing.kind = "gate" /\ backend.up
    /\ \E scheduled \in BOOLEAN :
         /\ backend' = [backend EXCEPT !.writes = TRUE]
         /\ doing' = IF scheduled THEN [doing EXCEPT !.kind = "wait"] ELSE NotDoing
         /\ planPage' = IF scheduled THEN Waiting(planPage) ELSE planPage
    /\ UNCHANGED <<accessCheck, stored, plans, applied>>
RestartSeen ==
    /\ doing.kind = "wait" /\ backend.up /\ backend.process # doing.from
    /\ planPage' = [planPage EXCEPT !.process = backend.process, !.writes = backend.writes]
    /\ doing' = NotDoing
    /\ UNCHANGED <<accessCheck, stored, backend, plans, applied>>
WaitTimesOut ==
    /\ doing.kind = "wait" /\ doing' = NotDoing
    /\ UNCHANGED <<planPage, accessCheck, stored, backend, plans, applied>>

\* Offered without an account, and beside one (from = 1) when the last status
\* said that the service is stopping or saves its configuration.
SignIn ==
    /\ Usable /\ ~Busy
    /\ doing' = [NotDoing EXCEPT !.kind = "sign-in",
                                 !.from = IF planPage.signed THEN 1 ELSE 0]
    /\ UNCHANGED <<planPage, accessCheck, stored, backend, plans, applied>>
\* completeDomainSignIn: the record is consumed, its plan is never shown.
Resumed(p, kept) ==
    IF kept = Unchosen THEN [p EXCEPT !.blocked = FALSE]
    ELSE [p EXCEPT !.sel = kept, !.plan = 0, !.reviewed = Unchosen,
                   !.blocked = ~p.writes]
SignedIn(p) ==
    [p EXCEPT !.signed = TRUE, !.process = backend.process, !.writes = backend.writes]
SignInDone ==
    /\ doing.kind = "sign-in" /\ backend.up
    /\ backend' = [backend EXCEPT !.session = TRUE]
    /\ stored' = clearWriteResume
    /\ \E kept \in readWriteResume :
          /\ planPage' = Resumed(SignedIn(planPage), kept)
          /\ doing' = IF kept # Unchosen /\ backend.writes
                      THEN [NotDoing EXCEPT !.kind = "final", !.sel = kept]
                      ELSE NotDoing
    /\ UNCHANGED <<accessCheck, plans, applied>>
Disconnect ==
    /\ Usable /\ ~Busy /\ planPage.signed /\ backend.up
    /\ backend' = [backend EXCEPT !.session = FALSE]
    /\ planPage' = [AccountGone(planPage) EXCEPT !.blocked = FALSE]
    /\ stored' = clearWriteResume
    /\ UNCHANGED <<doing, accessCheck, plans, applied>>

-----------------------------------------------------------------------------
(* The service and what the page learns of it outside the task: the health *)
(* probe, the polls, a refresh and the fault handler of api().             *)

ServiceStops ==
    /\ backend.up /\ backend.process < MaxProcess
    /\ backend' = [backend EXCEPT !.up = FALSE, !.session = FALSE]
    /\ UNCHANGED <<planPage, doing, accessCheck, stored, plans, applied>>
ServiceRestarts ==
    /\ ~backend.up
    /\ backend' = [backend EXCEPT !.up = TRUE, !.process = @ + 1]
    /\ UNCHANGED <<planPage, doing, accessCheck, stored, plans, applied>>
SessionExpires ==
    /\ backend.session /\ backend' = [backend EXCEPT !.session = FALSE]
    /\ UNCHANGED <<planPage, doing, accessCheck, stored, plans, applied>>
LearnRestart ==
    /\ backend.up /\ backend.process # planPage.process
    /\ planPage' = [AccountGone(planPage) EXCEPT !.process = backend.process,
                                         !.writes = backend.writes]
    /\ UNCHANGED <<doing, accessCheck, stored, backend, plans, applied>>
LearnExpiry ==
    /\ backend.up /\ ~backend.session /\ planPage.signed
    /\ planPage' = AccountGone(planPage)
    /\ UNCHANGED <<doing, accessCheck, stored, backend, plans, applied>>
\* The tab is reloaded: only the record and the server's session survive.
ReloadPage ==
    /\ backend.up
    /\ \E kept \in readWriteResume :
         LET p == NewPage(backend.process, backend.writes, backend.session)
             resumes == kept # Unchosen /\ backend.session
         IN /\ planPage' = IF resumes THEN Resumed(p, kept) ELSE p
            /\ stored' = IF resumes THEN clearWriteResume ELSE kept
            /\ doing' = IF resumes /\ backend.writes
                        THEN [NotDoing EXCEPT !.kind = "final", !.sel = kept]
                        ELSE NotDoing
    /\ accessCheck' = NoCheck /\ UNCHANGED <<backend, plans, applied>>

PlanNext ==
    \/ selectRule
    \/ \E s \in Target : ChooseTarget(s) \/ EditSelection(s) \/ UseDefaults(s)
    \/ ensureSelection
    \/ targetAccess
    \/ SubmitSelection \/ PlanReady \/ AccessDenied \/ TaskFails \/ LoginRequired
    \/ \E target \in Target : \/ Replan(target)
                              \/ \E returning \in BOOLEAN : openDependencyPlan(target, returning)
    \/ \E b \in BOOLEAN : TickReviewed(b)
    \/ \/ SubmitApply \/ CancelConfirm \/ ConfirmRun \/ ApplyAccepted
    \/ enableWrites \/ GateNarrowed \/ GateOpened \/ RestartSeen \/ WaitTimesOut
    \/ SignIn \/ SignInDone \/ Disconnect
    \/ ServiceStops \/ ServiceRestarts \/ SessionExpires
    \/ LearnRestart \/ LearnExpiry \/ ReloadPage
PlanSpec == PlanInit /\ [][PlanNext]_planVars

-----------------------------------------------------------------------------
(* What the form and the records of the page can hold.                     *)
Choices == Target \cup {Unchosen}
PlanPages == [sel : Choices, plan : Nat, reviewed : Choices, confirm : Nat, back : Choices,
         blocked : BOOLEAN, process : Nat, writes : BOOLEAN, signed : BOOLEAN]
PlanTasks == [kind : {"none", "preview", "related", "final", "replan", "apply", "narrow",
                 "gate", "wait", "sign-in"}, sel : Choices, plan : Nat, from : Nat]
PlanServices == [process : Nat, up : BOOLEAN, writes : BOOLEAN, session : BOOLEAN]
IssuedPlans == [sel : Choices, process : Nat, kind : {"blocked", "readable", "authorized"}]
PlanTypeOK ==
    /\ planPage \in PlanPages /\ doing \in PlanTasks /\ backend \in PlanServices
    /\ accessCheck \in [sel : Choices, process : Nat, signed : BOOLEAN]
    /\ stored \in Choices
    /\ plans \in Seq(IssuedPlans) /\ applied \subseteq Nat

(* reviewed holds the target whose review was ticked.                      *)
(* The plan that is applied is the plan on the screen, confirmed as such:  *)
(* a plan that an answer, a click, a restart or a resumed record put there *)
(* while the dialog was open never goes out under the old confirmation.    *)
PlanReview == INSTANCE ReviewedChange WITH
    Change <- 1..MaxPlan, Nothing <- 0,
    shown <- planPage.plan,
    agreed <- IF planPage.plan \in {planPage.confirm, doing.plan} THEN planPage.plan ELSE 0,
    asked <- applied
PlanIsReviewed == PlanReview!ChangeSpec

(* No plan made by an earlier process is shown once the page knows of the  *)
(* restart, whoever restarted the service and however the page learned it: *)
(* the pre-restart plan is never eligible for Apply. The one exception is  *)
(* the end of a sign-in beside a live account: nothing on its way drops    *)
(* the plan when the service was restarted under the prompt.               *)
Outdated == planPage.plan # 0 /\ Plan(planPage).process < planPage.process
SignInBeside == doing.kind = "sign-in" /\ doing.from = 1 /\ SignInDone
NoPlanSurvivesRestart == [][Outdated' => Outdated \/ SignInBeside]_planVars

(* No click, answer, reload or resumed record takes the form to another     *)
(* target and leaves a plan for an earlier one beside it. The one way to    *)
(* have the two differ is the answer of a preview whose target was changed  *)
(* while it was under way (the busy layer lets clicks through): that step   *)
(* brings the plan, not the target.                                         *)
PlanFollowsForm ==
    [][planPage'.sel # planPage.sel =>
          planPage'.plan = 0 \/ plans'[planPage'.plan].sel = planPage'.sel]_planVars

(* The release notes: changing the target invalidates plan and approval.   *)
(* A ticked review therefore belongs to the target of the plan beside it.  *)
ApprovalIsForPlan ==
    planPage.plan # 0 => planPage.reviewed \in {Unchosen, Plan(planPage).sel}
=============================================================================
