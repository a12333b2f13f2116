--------------------------- MODULE ChangePlanProofs --------------------------
(***************************************************************************)
(* The control page implements ReviewedChange, for any set of targets, any *)
(* number of plans and of restarts.                                        *)
(***************************************************************************)
EXTENDS ChangePlan, TLAPS

-----------------------------------------------------------------------------
(* The inductive invariant.                                                *)

\* Every plan the page speaks of was issued; only an application holds one.
PlansIssued ==
    /\ Len(plans) <= MaxPlan
    /\ planPage.plan <= Len(plans) /\ planPage.confirm <= Len(plans)
    /\ doing.kind # "apply" => doing.plan = 0
    /\ doing.plan <= Len(plans)

\* While the service holds a session the page knows of it and of its process;
\* without an account, and while the page waits, there is no plan, and none
\* during a sign-in unless it began beside a live account.
PageFollowsService ==
    /\ backend.session => backend.up /\ planPage.signed /\ planPage.process = backend.process
    /\ planPage.process <= backend.process
    /\ ~planPage.signed => planPage.plan = 0
    /\ doing.kind = "wait" => planPage.plan = 0
    /\ doing.kind = "sign-in" /\ doing.from # 1 => planPage.plan = 0

PlanInv == PlanTypeOK /\ PlansIssued /\ PageFollowsService

\* The page starts in the invariant.
LEMMA PlanInitInv == PlanInit => PlanInv
<1> SUFFICES ASSUME PlanInit PROVE PlanInv
  OBVIOUS
<1>1. PlanTypeOK
  BY DEF PlanInit, PlanTypeOK, PlanPages, PlanTasks, PlanServices, NewPage, NotDoing, NoCheck, Choices
<1>2. PlansIssued /\ PageFollowsService
  <2>1. backend.process = 1 /\ ~backend.session
    BY DEF PlanInit
  <2>2. /\ planPage.plan = 0 /\ planPage.confirm = 0 /\ planPage.process = 1
        /\ doing.kind = "none" /\ doing.plan = 0 /\ Len(plans) = 0
    BY DEF PlanInit, NewPage, NotDoing
  <2> QED
    BY <2>1, <2>2, PlanBound DEF PlansIssued, PageFollowsService
<1> QED
  BY <1>1, <1>2 DEF PlanInv

-----------------------------------------------------------------------------
(* Steps keep the types.                                                    *)

\* What can be written into the page leaves it a page.
LEMMA PageUpdates ==
  ASSUME NEW p \in PlanPages
  PROVE  /\ \A s \in Choices : /\ [p EXCEPT !.sel = s, !.plan = 0] \in PlanPages
                            /\ [p EXCEPT !.plan = 0, !.reviewed = s] \in PlanPages
                            /\ [p EXCEPT !.reviewed = s] \in PlanPages
                            /\ [p EXCEPT !.back = s] \in PlanPages
         /\ \A s, r \in Choices : /\ [p EXCEPT !.sel = s, !.reviewed = r] \in PlanPages
                               /\ [p EXCEPT !.sel = s, !.plan = 0, !.reviewed = r] \in PlanPages
         /\ \A n \in Nat : /\ [p EXCEPT !.plan = n] \in PlanPages
                           /\ [p EXCEPT !.confirm = n] \in PlanPages
         /\ \A b \in BOOLEAN : [p EXCEPT !.blocked = b] \in PlanPages
         /\ [p EXCEPT !.signed = FALSE, !.plan = 0] \in PlanPages
  BY DEF PlanPages

\* The tasks that run() starts with a target or a plan are tasks.
LEMMA TaskUpdates ==
  /\ NotDoing \in PlanTasks
  /\ \A s \in Choices : [NotDoing EXCEPT !.kind = "final", !.sel = s] \in PlanTasks
  /\ \A n \in Nat : [NotDoing EXCEPT !.kind = "apply", !.plan = n] \in PlanTasks
  BY DEF NotDoing, PlanTasks, Choices

\* What a restart, the gate or a session changes leaves it a service.
LEMMA ServiceFields ==
  ASSUME NEW s \in PlanServices
  PROVE  /\ \A b \in BOOLEAN : /\ [s EXCEPT !.up = b] \in PlanServices
                                /\ [s EXCEPT !.writes = b] \in PlanServices
                                /\ [s EXCEPT !.session = b] \in PlanServices
         /\ [s EXCEPT !.process = @ + 1] \in PlanServices
  BY DEF PlanServices

\* A queued access check records the target, process and account of a page.
LEMMA QueueType ==
  ASSUME PlanInv, NEW p \in PlanPages, QueueAccess(p), Clicked
  PROVE  PlanTypeOK'
  BY DEF PlanInv, PlanTypeOK, QueueAccess, Clicked, targetKey, NoCheck, PlanPages, Choices

\* ChooseTarget keeps the types.
LEMMA Type_ChooseTarget ==
  ASSUME PlanInv, NEW s \in Target, ChooseTarget(s)
  PROVE  PlanTypeOK'
<1>1. ChosenTarget(planPage, s) \in PlanPages
  BY PageUpdates DEF PlanInv, PlanTypeOK, ChosenTarget, Choices
<1> QED
  BY <1>1, QueueType DEF PlanInv, PlanTypeOK, ChooseTarget

\* ensureSelection keeps the types.
LEMMA Type_ensureSelection ==
  ASSUME PlanInv, ensureSelection
  PROVE  PlanTypeOK'
<1>1. planPage' \in PlanPages
  <2>1. CASE planPage.plan = 0
    <3>1. planPage' = [planPage EXCEPT !.sel = Unchosen, !.plan = 0]
      BY <2>1 DEF PlanInv, PlanTypeOK, ensureSelection, PlanPages
    <3> QED
      BY <3>1, PageUpdates DEF PlanInv, PlanTypeOK, Choices
  <2>2. CASE planPage.plan # 0
    BY <2>2, PageUpdates DEF PlanInv, PlanTypeOK, ensureSelection, Choices
  <2> QED
    BY <2>1, <2>2
<1> QED
  BY <1>1 DEF PlanInv, PlanTypeOK, ensureSelection, Clicked

\* targetAccess keeps the types.
LEMMA Type_targetAccess ==
  ASSUME PlanInv, targetAccess
  PROVE  PlanTypeOK'
<1>1. planPage' \in PlanPages
  <2>1. Unchosen \in Choices
    BY DEF Choices
  <2>2. /\ [planPage EXCEPT !.plan = 0, !.reviewed = Unchosen] \in PlanPages
        /\ AccountGone(planPage) \in PlanPages
    BY <2>1, PageUpdates DEF PlanInv, PlanTypeOK, AccountGone
  <2> QED
    BY <2>2 DEF PlanInv, PlanTypeOK, targetAccess
<1> QED
  BY <1>1 DEF PlanInv, PlanTypeOK, targetAccess, NoCheck, Choices

\* PlanReady keeps the types.
LEMMA Type_PlanReady ==
  ASSUME PlanInv, PlanReady
  PROVE  PlanTypeOK'
<1>1. planPage' \in PlanPages
  <2>1. [planPage EXCEPT !.plan = Len(plans) + 1] \in PlanPages
    <3>1. Len(plans) + 1 \in Nat
      BY DEF PlanInv, PlanTypeOK
    <3> QED
      BY <3>1, PageUpdates DEF PlanInv, PlanTypeOK
  <2> DEFINE shown == [planPage EXCEPT !.plan = Len(plans) + 1]
  <2> HIDE DEF shown
  <2>2. /\ [shown EXCEPT !.blocked = FALSE] \in PlanPages
        /\ [shown EXCEPT !.back = Unchosen] \in PlanPages
        /\ FinalPlan(shown) \in PlanPages
        /\ [shown EXCEPT !.sel = doing.sel, !.reviewed = Unchosen] \in PlanPages
    BY <2>1, PageUpdates DEF shown, PlanInv, PlanTypeOK, PlanTasks, Choices, FinalPlan
  <2> QED
    BY <2>1, <2>2 DEF PlanReady, Previewing, shown
<1>2. plans' \in Seq(IssuedPlans)
  BY DEF PlanInv, PlanTypeOK, PlanReady, Issued, PlanTasks, PlanServices, IssuedPlans
<1> QED
  BY <1>1, <1>2 DEF PlanInv, PlanTypeOK, PlanReady, PlanTasks, NotDoing, Choices

\* A plan on the screen was made for a target the form can hold.
LEMMA PlanTarget ==
  ASSUME PlanInv, planPage.plan # 0
  PROVE  Plan(planPage).sel \in Choices
<1>1. planPage.plan \in 1..Len(plans)
  BY DEF PlanInv, PlanTypeOK, PlansIssued, PlanPages
<1>2. plans[planPage.plan] \in IssuedPlans
  BY <1>1 DEF PlanInv, PlanTypeOK
<1> QED
  BY <1>2 DEF Plan, IssuedPlans

\* openDependencyPlan keeps the types.
LEMMA Type_openDependencyPlan ==
  ASSUME PlanInv, NEW target \in Target, NEW returning \in BOOLEAN,
         openDependencyPlan(target, returning)
  PROVE  PlanTypeOK'
<1>1. planPage' \in PlanPages
  <2>1. CASE returning
    BY <2>1 DEF PlanInv, PlanTypeOK, openDependencyPlan, PlanPages, Choices
  <2>2. CASE ~returning
    BY <2>2, PlanTarget DEF PlanInv, PlanTypeOK, openDependencyPlan, PlanPages, Choices
  <2> QED
    BY <2>1, <2>2
<1> QED
  BY <1>1 DEF PlanInv, PlanTypeOK, openDependencyPlan, PlanTasks, NotDoing, Choices

\* TickReviewed keeps the types.
LEMMA Type_TickReviewed ==
  ASSUME PlanInv, NEW b \in BOOLEAN, TickReviewed(b)
  PROVE  PlanTypeOK'
<1>1. planPage' \in PlanPages
  BY PlanTarget, PageUpdates DEF PlanInv, PlanTypeOK, TickReviewed, Reviewable, Choices
<1> QED
  BY <1>1 DEF PlanInv, PlanTypeOK, TickReviewed, Clicked

\* GateOpened keeps the types.
LEMMA Type_GateOpened ==
  ASSUME PlanInv, GateOpened
  PROVE  PlanTypeOK'
<1>1. planPage' \in PlanPages
  <2>1. Unchosen \in Choices
    BY DEF Choices
  <2>2. Waiting(planPage) \in PlanPages
    BY <2>1, PageUpdates DEF PlanInv, PlanTypeOK, Waiting
  <2> QED
    BY <2>2 DEF PlanInv, PlanTypeOK, GateOpened
<1>2. backend' \in PlanServices
  BY ServiceFields DEF PlanInv, PlanTypeOK, GateOpened
<1> QED
  BY <1>1, <1>2 DEF PlanInv, PlanTypeOK, GateOpened, NotDoing, PlanTasks, Choices

\* Consuming the write-resume record leaves it a page.
LEMMA ResumedType ==
  ASSUME NEW p \in PlanPages, NEW kept \in Choices
  PROVE  Resumed(p, kept) \in PlanPages
<1>1. [p EXCEPT !.blocked = FALSE] \in PlanPages
  BY PageUpdates
<1>2. [p EXCEPT !.sel = kept, !.plan = 0, !.reviewed = Unchosen, !.blocked = ~p.writes] \in PlanPages
  BY DEF PlanPages, Choices
<1> QED
  BY <1>1, <1>2 DEF Resumed

\* A sign-in leaves it a page.
LEMMA SignedInType ==
  ASSUME PlanInv
  PROVE  SignedIn(planPage) \in PlanPages
  BY DEF PlanInv, PlanTypeOK, SignedIn, PlanPages, PlanServices

\* The write-resume record holds what the form held.
LEMMA KeptType ==
  ASSUME PlanInv, NEW kept \in readWriteResume
  PROVE  kept \in Choices
  BY DEF PlanInv, PlanTypeOK, readWriteResume, Choices

\* SignInDone keeps the types.
LEMMA Type_SignInDone ==
  ASSUME PlanInv, SignInDone
  PROVE  PlanTypeOK'
<1>1. backend' \in PlanServices
  BY ServiceFields DEF PlanInv, PlanTypeOK, SignInDone
<1>2. planPage' \in PlanPages
  BY ResumedType, SignedInType, KeptType DEF SignInDone
<1>3. doing' \in PlanTasks
  BY KeptType, TaskUpdates DEF SignInDone
<1> QED
  BY <1>1, <1>2, <1>3 DEF PlanInv, PlanTypeOK, SignInDone, clearWriteResume, Choices

\* ReloadPage keeps the types.
LEMMA Type_ReloadPage ==
  ASSUME PlanInv, ReloadPage
  PROVE  PlanTypeOK'
<1>1. NewPage(backend.process, backend.writes, backend.session) \in PlanPages
  BY DEF PlanInv, PlanTypeOK, NewPage, PlanPages, PlanServices, Choices
<1>2. planPage' \in PlanPages
  BY <1>1, ResumedType, KeptType DEF ReloadPage
<1>3. doing' \in PlanTasks
  BY KeptType, TaskUpdates DEF ReloadPage
<1>4. stored' \in Choices
  BY KeptType DEF ReloadPage, clearWriteResume, Choices
<1> QED
  BY <1>1, <1>2, <1>3, <1>4 DEF PlanInv, PlanTypeOK, ReloadPage, NoCheck, Choices

\* Every step of the page keeps the types.
LEMMA StepTypes ==
  ASSUME PlanInv, PlanNext
  PROVE  PlanTypeOK'
<1> USE DEF PlanInv, PlanTypeOK
<1>1. ASSUME selectRule PROVE PlanTypeOK'
  BY <1>1 DEF selectRule, Clicked, Usable, PlanPages, PlanTasks, PlanServices, Choices
<1>2. ASSUME NEW s \in Target, ChooseTarget(s) PROVE PlanTypeOK'
  BY <1>2, Type_ChooseTarget
<1>3. ASSUME NEW s \in Target, EditSelection(s) PROVE PlanTypeOK'
  BY <1>3 DEF EditSelection, Clicked, Usable, PlanPages, PlanTasks, PlanServices, Choices
<1>4. ASSUME NEW s \in Target, UseDefaults(s) PROVE PlanTypeOK'
  BY <1>4, PageUpdates, ServiceFields DEF UseDefaults, Clicked, ChosenTarget, Usable, Choices
<1>5. ASSUME ensureSelection PROVE PlanTypeOK'
  BY <1>5, Type_ensureSelection
<1>6. ASSUME targetAccess PROVE PlanTypeOK'
  BY <1>6, Type_targetAccess
<1>7. ASSUME SubmitSelection PROVE PlanTypeOK'
  BY <1>7 DEF SubmitSelection, Busy, Usable, NotDoing, NoCheck, PlanPages, PlanTasks, PlanServices, Choices
<1>8. ASSUME PlanReady PROVE PlanTypeOK'
  BY <1>8, Type_PlanReady
<1>9. ASSUME AccessDenied PROVE PlanTypeOK'
  BY <1>9 DEF AccessDenied, Busy, NotDoing, NoCheck, PlanPages, PlanTasks, PlanServices, Choices
<1>10. ASSUME TaskFails PROVE PlanTypeOK'
  BY <1>10 DEF TaskFails, Busy, NotDoing, clearWriteResume, PlanPages, PlanTasks, PlanServices, Choices
<1>11. ASSUME LoginRequired PROVE PlanTypeOK'
  BY <1>11 DEF LoginRequired, AccountGone, Busy, NotDoing, PlanPages, PlanTasks, PlanServices, Choices
<1>12. ASSUME NEW target \in Target, Replan(target) PROVE PlanTypeOK'
  BY <1>12 DEF Replan, Busy, Usable, NotDoing, PlanPages, PlanTasks, PlanServices, Choices
<1>13. ASSUME NEW target \in Target, NEW returning \in BOOLEAN, openDependencyPlan(target, returning) PROVE PlanTypeOK'
  BY <1>13, Type_openDependencyPlan
<1>14. ASSUME NEW b \in BOOLEAN, TickReviewed(b) PROVE PlanTypeOK'
  BY <1>14, Type_TickReviewed
<1>15. ASSUME SubmitApply PROVE PlanTypeOK'
  BY <1>15 DEF SubmitApply, Clicked, Applicable, Reviewable, Plan, Usable, PlanPages, PlanTasks, PlanServices, Choices
<1>16. ASSUME CancelConfirm PROVE PlanTypeOK'
  BY <1>16 DEF CancelConfirm, Clicked, PlanPages, PlanTasks, PlanServices, Choices
<1>17. ASSUME ConfirmRun PROVE PlanTypeOK'
  <2>1. planPage' \in PlanPages
    BY <1>17 DEF ConfirmRun, PlanPages
  <2>2. doing' \in PlanTasks
    <3>1. planPage.confirm \in Nat
      BY DEF PlanPages
    <3>2. [NotDoing EXCEPT !.kind = "apply", !.plan = planPage.confirm] \in PlanTasks
      BY <3>1, TaskUpdates
    <3> QED
      BY <1>17, <3>2 DEF ConfirmRun
  <2>3. applied' \subseteq Nat
    BY <1>17 DEF ConfirmRun, PlanPages
  <2> QED
    BY <1>17, <2>1, <2>2, <2>3 DEF ConfirmRun
<1>18. ASSUME ApplyAccepted PROVE PlanTypeOK'
  BY <1>18 DEF ApplyAccepted, NotDoing, PlanPages, PlanTasks, PlanServices, Choices
<1>19. ASSUME enableWrites PROVE PlanTypeOK'
  BY <1>19 DEF enableWrites, Reviewable, Busy, Plan, NotDoing, Usable, PlanPages, PlanTasks, PlanServices, Choices
<1>20. ASSUME GateNarrowed PROVE PlanTypeOK'
  BY <1>20 DEF GateNarrowed, saveWriteResume, PlanPages, PlanTasks, PlanServices, Choices
<1>21. ASSUME GateOpened PROVE PlanTypeOK'
  BY <1>21, Type_GateOpened
<1>22. ASSUME RestartSeen PROVE PlanTypeOK'
  BY <1>22 DEF RestartSeen, NotDoing, PlanPages, PlanTasks, PlanServices, Choices
<1>23. ASSUME WaitTimesOut PROVE PlanTypeOK'
  BY <1>23 DEF WaitTimesOut, NotDoing, PlanPages, PlanTasks, PlanServices, Choices
<1>24. ASSUME SignIn PROVE PlanTypeOK'
  BY <1>24 DEF SignIn, Busy, Usable, NotDoing, PlanPages, PlanTasks, PlanServices, Choices
<1>25. ASSUME SignInDone PROVE PlanTypeOK'
  BY <1>25, Type_SignInDone
<1>26. ASSUME Disconnect PROVE PlanTypeOK'
  BY <1>26 DEF Disconnect, AccountGone, Busy, Usable, clearWriteResume, PlanPages, PlanTasks, PlanServices, Choices
<1>27. ASSUME ServiceStops PROVE PlanTypeOK'
  BY <1>27, PageUpdates, ServiceFields DEF ServiceStops, Choices
<1>28. ASSUME ServiceRestarts PROVE PlanTypeOK'
  BY <1>28, PageUpdates, ServiceFields DEF ServiceRestarts, Choices
<1>29. ASSUME SessionExpires PROVE PlanTypeOK'
  BY <1>29, PageUpdates, ServiceFields DEF SessionExpires, Choices
<1>30. ASSUME LearnRestart PROVE PlanTypeOK'
  BY <1>30 DEF LearnRestart, AccountGone, PlanPages, PlanTasks, PlanServices, Choices
<1>31. ASSUME LearnExpiry PROVE PlanTypeOK'
  BY <1>31 DEF LearnExpiry, AccountGone, PlanPages, PlanTasks, PlanServices, Choices
<1>32. ASSUME ReloadPage PROVE PlanTypeOK'
  BY <1>32, Type_ReloadPage
<1> QED
  BY <1>1, <1>2, <1>3, <1>4, <1>5, <1>6, <1>7, <1>8, <1>9, <1>10, <1>11, <1>12, <1>13, <1>14, <1>15, <1>16, <1>17, <1>18, <1>19, <1>20, <1>21, <1>22, <1>23, <1>24, <1>25, <1>26, <1>27, <1>28, <1>29, <1>30, <1>31, <1>32 DEF PlanNext

-----------------------------------------------------------------------------
(* Steps keep the rest of the invariant.                                   *)

\* Every step of the page keeps the plans issued and the page behind the
\* service.
LEMMA StepSafe ==
  ASSUME PlanInv, PlanNext
  PROVE  PlansIssued' /\ PageFollowsService'
<1> DEFINE Safe == PlansIssued /\ PageFollowsService
<1> USE DEF PlanInv, PlanTypeOK, PlansIssued, PageFollowsService,
            PlanPages, PlanTasks, PlanServices, IssuedPlans
<1>1. ASSUME selectRule PROVE Safe'
  BY <1>1, PlanBound DEF selectRule, Clicked, Usable
<1>2. ASSUME NEW s \in Target, ChooseTarget(s) PROVE Safe'
  BY <1>2, PlanBound DEF ChooseTarget, Clicked, QueueAccess, ChosenTarget, Usable, targetKey, NoCheck
<1>3. ASSUME NEW s \in Target, EditSelection(s) PROVE Safe'
  BY <1>3, PlanBound DEF EditSelection, Clicked, Usable
<1>4. ASSUME NEW s \in Target, UseDefaults(s) PROVE Safe'
  BY <1>4, PlanBound DEF UseDefaults, Clicked, ChosenTarget, Usable
<1>5. ASSUME ensureSelection PROVE Safe'
  BY <1>5, PlanBound DEF ensureSelection, Clicked
<1>6. ASSUME targetAccess PROVE Safe'
  <2>1. CASE UNCHANGED planPage
    BY <1>6, <2>1 DEF targetAccess
  <2>2. CASE planPage' = [planPage EXCEPT !.plan = 0, !.reviewed = Unchosen]
    BY <1>6, <2>2 DEF targetAccess
  <2>3. CASE planPage' = AccountGone(planPage) /\ ~backend.session
    BY <1>6, <2>3 DEF targetAccess, AccountGone
  <2> QED
    BY <1>6, <2>1, <2>2, <2>3 DEF targetAccess
<1>7. ASSUME SubmitSelection PROVE Safe'
  BY <1>7, PlanBound DEF SubmitSelection, Busy, Usable, NotDoing, NoCheck
<1>8. ASSUME PlanReady PROVE Safe'
  BY <1>8, PlanBound DEF PlanReady, FinalPlan, Issued, Previewing, Answerable, NotDoing
<1>9. ASSUME AccessDenied PROVE Safe'
  BY <1>9, PlanBound DEF AccessDenied, Busy, NotDoing, NoCheck
<1>10. ASSUME TaskFails PROVE Safe'
  BY <1>10, PlanBound DEF TaskFails, Busy, NotDoing, clearWriteResume
<1>11. ASSUME LoginRequired PROVE Safe'
  BY <1>11, PlanBound DEF LoginRequired, AccountGone, Busy, NotDoing
<1>12. ASSUME NEW target \in Target, Replan(target) PROVE Safe'
  BY <1>12, PlanBound DEF Replan, Busy, Usable, NotDoing
<1>13. ASSUME NEW target \in Target, NEW returning \in BOOLEAN, openDependencyPlan(target, returning) PROVE Safe'
  BY <1>13, PlanBound DEF openDependencyPlan, Busy, Usable, NotDoing
<1>14. ASSUME NEW b \in BOOLEAN, TickReviewed(b) PROVE Safe'
  BY <1>14, PlanBound DEF TickReviewed, Clicked, Reviewable, Usable
<1>15. ASSUME SubmitApply PROVE Safe'
  BY <1>15, PlanBound DEF SubmitApply, Clicked, Applicable, Reviewable, Usable
<1>16. ASSUME CancelConfirm PROVE Safe'
  BY <1>16, PlanBound DEF CancelConfirm, Clicked
<1>17. ASSUME ConfirmRun PROVE Safe'
  BY <1>17, PlanBound DEF ConfirmRun, Busy, NotDoing, Confirmable
<1>18. ASSUME ApplyAccepted PROVE Safe'
  BY <1>18, PlanBound DEF ApplyAccepted, NotDoing
<1>19. ASSUME enableWrites PROVE Safe'
  BY <1>19, PlanBound DEF enableWrites, Reviewable, Busy, NotDoing, Usable
<1>20. ASSUME GateNarrowed PROVE Safe'
  BY <1>20, PlanBound DEF GateNarrowed, saveWriteResume
<1>21. ASSUME GateOpened PROVE Safe'
  BY <1>21, PlanBound DEF GateOpened, NotDoing, Waiting
<1>22. ASSUME RestartSeen PROVE Safe'
  BY <1>22, PlanBound DEF RestartSeen, NotDoing
<1>23. ASSUME WaitTimesOut PROVE Safe'
  BY <1>23, PlanBound DEF WaitTimesOut, NotDoing
<1>24. ASSUME SignIn PROVE Safe'
  BY <1>24, PlanBound DEF SignIn, Busy, Usable, NotDoing
<1>25. ASSUME SignInDone PROVE Safe'
  BY <1>25, PlanBound DEF SignInDone, NotDoing, Resumed, SignedIn, readWriteResume, clearWriteResume
<1>26. ASSUME Disconnect PROVE Safe'
  BY <1>26, PlanBound DEF Disconnect, AccountGone, Busy, Usable, clearWriteResume
<1>27. ASSUME ServiceStops PROVE Safe'
  BY <1>27, PlanBound DEF ServiceStops
<1>28. ASSUME ServiceRestarts PROVE Safe'
  <2>1. backend'.process = backend.process + 1 /\ backend'.session = backend.session
    BY <1>28 DEF ServiceRestarts
  <2> QED
    BY <1>28, <2>1 DEF ServiceRestarts
<1>29. ASSUME SessionExpires PROVE Safe'
  BY <1>29, PlanBound DEF SessionExpires
<1>30. ASSUME LearnRestart PROVE Safe'
  BY <1>30, PlanBound DEF LearnRestart, AccountGone
<1>31. ASSUME LearnExpiry PROVE Safe'
  BY <1>31, PlanBound DEF LearnExpiry, AccountGone
<1>32. ASSUME ReloadPage PROVE Safe'
  BY <1>32, PlanBound DEF ReloadPage, NotDoing, NoCheck, Resumed, readWriteResume, clearWriteResume, NewPage
<1> QED
  BY <1>1, <1>2, <1>3, <1>4, <1>5, <1>6, <1>7, <1>8, <1>9, <1>10, <1>11, <1>12, <1>13, <1>14, <1>15, <1>16, <1>17, <1>18, <1>19, <1>20, <1>21, <1>22, <1>23, <1>24, <1>25, <1>26, <1>27, <1>28, <1>29, <1>30, <1>31, <1>32 DEF PlanNext

-----------------------------------------------------------------------------
(* The form and its plan: PlanFollowsForm, one action at a time.            *)

\* A step that takes the form elsewhere leaves no plan for an earlier target.
LEMMA StepFollows ==
  ASSUME PlanInv, PlanNext
  PROVE  planPage'.sel # planPage.sel =>
            planPage'.plan = 0 \/ plans'[planPage'.plan].sel = planPage'.sel
<1> DEFINE Follows == planPage'.sel # planPage.sel =>
                         planPage'.plan = 0 \/ plans'[planPage'.plan].sel = planPage'.sel
<1> USE DEF PlanInv, PlanTypeOK, PlanPages, PlanTasks, PlanServices
<1>1. ASSUME selectRule PROVE Follows
  BY <1>1 DEF selectRule, Clicked
<1>2. ASSUME NEW s \in Target, ChooseTarget(s) PROVE Follows
  BY <1>2 DEF ChooseTarget, QueueAccess, ChosenTarget, Clicked
<1>3. ASSUME NEW s \in Target, EditSelection(s) PROVE Follows
  BY <1>3 DEF EditSelection, Clicked
<1>4. ASSUME NEW s \in Target, UseDefaults(s) PROVE Follows
  BY <1>4 DEF UseDefaults, ChosenTarget, Clicked
<1>5. ASSUME ensureSelection PROVE Follows
  BY <1>5 DEF ensureSelection, Clicked
<1>6. ASSUME targetAccess PROVE Follows
  BY <1>6 DEF targetAccess, AccountGone
<1>7. ASSUME SubmitSelection PROVE Follows
  BY <1>7 DEF SubmitSelection, NotDoing
<1>8. ASSUME PlanReady PROVE Follows
  BY <1>8 DEF PlanReady, Previewing, Issued, FinalPlan, NotDoing
<1>9. ASSUME AccessDenied PROVE Follows
  BY <1>9 DEF AccessDenied, NotDoing
<1>10. ASSUME TaskFails PROVE Follows
  BY <1>10 DEF TaskFails, NotDoing
<1>11. ASSUME LoginRequired PROVE Follows
  BY <1>11 DEF LoginRequired, AccountGone, NotDoing
<1>12. ASSUME NEW target \in Target, Replan(target) PROVE Follows
  BY <1>12 DEF Replan, NotDoing
<1>13. ASSUME NEW target \in Target, NEW returning \in BOOLEAN, openDependencyPlan(target, returning) PROVE Follows
  BY <1>13 DEF openDependencyPlan, NotDoing
<1>14. ASSUME NEW b \in BOOLEAN, TickReviewed(b) PROVE Follows
  BY <1>14 DEF TickReviewed, Clicked
<1>15. ASSUME SubmitApply PROVE Follows
  BY <1>15 DEF SubmitApply, Clicked
<1>16. ASSUME CancelConfirm PROVE Follows
  BY <1>16 DEF CancelConfirm, Clicked
<1>17. ASSUME ConfirmRun PROVE Follows
  BY <1>17 DEF ConfirmRun, NotDoing
<1>18. ASSUME ApplyAccepted PROVE Follows
  BY <1>18 DEF ApplyAccepted, NotDoing
<1>19. ASSUME enableWrites PROVE Follows
  BY <1>19 DEF enableWrites, NotDoing
<1>20. ASSUME GateNarrowed PROVE Follows
  BY <1>20 DEF GateNarrowed
<1>21. ASSUME GateOpened PROVE Follows
  BY <1>21 DEF GateOpened, NotDoing, Waiting
<1>22. ASSUME RestartSeen PROVE Follows
  BY <1>22 DEF RestartSeen, NotDoing
<1>23. ASSUME WaitTimesOut PROVE Follows
  BY <1>23 DEF WaitTimesOut, NotDoing
<1>24. ASSUME SignIn PROVE Follows
  BY <1>24 DEF SignIn, NotDoing
<1>25. ASSUME SignInDone PROVE Follows
  BY <1>25 DEF SignInDone, Resumed, SignedIn, NotDoing
<1>26. ASSUME Disconnect PROVE Follows
  BY <1>26 DEF Disconnect, AccountGone
<1>27. ASSUME ServiceStops PROVE Follows
  BY <1>27 DEF ServiceStops
<1>28. ASSUME ServiceRestarts PROVE Follows
  BY <1>28 DEF ServiceRestarts
<1>29. ASSUME SessionExpires PROVE Follows
  BY <1>29 DEF SessionExpires
<1>30. ASSUME LearnRestart PROVE Follows
  BY <1>30 DEF LearnRestart, AccountGone
<1>31. ASSUME LearnExpiry PROVE Follows
  BY <1>31 DEF LearnExpiry, AccountGone
<1>32. ASSUME ReloadPage PROVE Follows
  BY <1>32 DEF ReloadPage, NewPage, Resumed, NotDoing
<1> QED
  BY <1>1, <1>2, <1>3, <1>4, <1>5, <1>6, <1>7, <1>8, <1>9, <1>10, <1>11, <1>12, <1>13, <1>14, <1>15, <1>16, <1>17, <1>18, <1>19, <1>20, <1>21, <1>22, <1>23, <1>24, <1>25, <1>26, <1>27, <1>28, <1>29, <1>30, <1>31, <1>32 DEF PlanNext

-----------------------------------------------------------------------------
(* The plan and the process that made it: NoPlanSurvivesRestart, one action *)
(* at a time.                                                               *)

\* A step that leaves no plan leaves none of an earlier process.
LEMMA PlanGone ==
  ASSUME planPage'.plan = 0
  PROVE  Outdated' => Outdated \/ SignInBeside
  BY DEF Outdated

\* A step that keeps the plan and what the page knows of the process.
LEMMA PlanKept ==
  ASSUME planPage'.plan = planPage.plan, planPage'.process = planPage.process,
         plans' = plans
  PROVE  Outdated' => Outdated \/ SignInBeside
  BY DEF Outdated, Plan

\* Only the end of a sign-in beside a live account can leave a plan of an
\* earlier process on a page that knows of the restart.
LEMMA StepCurrent ==
  ASSUME PlanInv, PlanNext
  PROVE  Outdated' => Outdated \/ SignInBeside
<1> DEFINE Current == Outdated' => Outdated \/ SignInBeside
<1> USE DEF PlanInv, PlanTypeOK, PlanPages, PlanTasks, PlanServices
<1>1. ASSUME selectRule PROVE Current
  BY <1>1, PlanGone DEF selectRule
<1>2. ASSUME NEW s \in Target, ChooseTarget(s) PROVE Current
  <2>1. CASE s = planPage.sel
    BY <1>2, <2>1, PlanKept DEF ChooseTarget, QueueAccess, Clicked
  <2>2. CASE s # planPage.sel
    BY <1>2, <2>2, PlanGone DEF ChooseTarget, QueueAccess, ChosenTarget, Clicked
  <2> QED
    BY <2>1, <2>2
<1>3. ASSUME NEW s \in Target, EditSelection(s) PROVE Current
  BY <1>3, PlanGone DEF EditSelection
<1>4. ASSUME NEW s \in Target, UseDefaults(s) PROVE Current
  BY <1>4, PlanGone DEF UseDefaults, ChosenTarget
<1>5. ASSUME ensureSelection PROVE Current
  BY <1>5, PlanGone DEF ensureSelection
<1>6. ASSUME targetAccess PROVE Current
  <2>1. CASE planPage' = planPage
    BY <1>6, <2>1, PlanKept DEF targetAccess
  <2>2. CASE planPage' # planPage
    BY <1>6, <2>2, PlanGone DEF targetAccess, AccountGone
  <2> QED
    BY <2>1, <2>2
<1>7. ASSUME SubmitSelection PROVE Current
  BY <1>7, PlanKept DEF SubmitSelection
<1>8. ASSUME PlanReady PROVE Current
  <2>1. planPage'.plan = Len(plans) + 1 /\ planPage'.process = planPage.process
    BY <1>8 DEF PlanReady, Previewing, FinalPlan
  <2>2. plans'[Len(plans) + 1].process = backend.process
    BY <1>8 DEF PlanReady, Issued
  <2> QED
    BY <2>1, <2>2 DEF Outdated, Plan, PageFollowsService
<1>9. ASSUME AccessDenied PROVE Current
  BY <1>9, PlanGone DEF AccessDenied
<1>10. ASSUME TaskFails PROVE Current
  BY <1>10, PlanKept DEF TaskFails
<1>11. ASSUME LoginRequired PROVE Current
  BY <1>11, PlanGone DEF LoginRequired, AccountGone
<1>12. ASSUME NEW target \in Target, Replan(target) PROVE Current
  BY <1>12, PlanKept DEF Replan
<1>13. ASSUME NEW target \in Target, NEW returning \in BOOLEAN, openDependencyPlan(target, returning) PROVE Current
  BY <1>13, PlanGone DEF openDependencyPlan
<1>14. ASSUME NEW b \in BOOLEAN, TickReviewed(b) PROVE Current
  BY <1>14, PlanKept DEF TickReviewed, Clicked
<1>15. ASSUME SubmitApply PROVE Current
  BY <1>15, PlanKept DEF SubmitApply, Clicked
<1>16. ASSUME CancelConfirm PROVE Current
  BY <1>16, PlanKept DEF CancelConfirm, Clicked
<1>17. ASSUME ConfirmRun PROVE Current
  BY <1>17, PlanKept DEF ConfirmRun
<1>18. ASSUME ApplyAccepted PROVE Current
  BY <1>18, PlanGone DEF ApplyAccepted
<1>19. ASSUME enableWrites PROVE Current
  BY <1>19, PlanKept DEF enableWrites
<1>20. ASSUME GateNarrowed PROVE Current
  BY <1>20, PlanKept DEF GateNarrowed
<1>21. ASSUME GateOpened PROVE Current
  <2>1. CASE planPage' = planPage
    BY <1>21, <2>1, PlanKept DEF GateOpened
  <2>2. CASE planPage' = Waiting(planPage)
    BY <1>21, <2>2, PlanGone DEF GateOpened, Waiting
  <2> QED
    BY <1>21, <2>1, <2>2 DEF GateOpened
<1>22. ASSUME RestartSeen PROVE Current
  BY <1>22, PlanGone DEF RestartSeen, PageFollowsService
<1>23. ASSUME WaitTimesOut PROVE Current
  BY <1>23, PlanKept DEF WaitTimesOut
<1>24. ASSUME SignIn PROVE Current
  BY <1>24, PlanKept DEF SignIn
<1>25. ASSUME SignInDone PROVE Current
  <2>1. CASE planPage.plan = 0
    BY <1>25, <2>1, PlanGone DEF SignInDone, Resumed, SignedIn
  <2>2. CASE planPage.plan # 0
    <3>1. doing.kind = "sign-in" /\ doing.from = 1
      BY <1>25, <2>2 DEF SignInDone, PageFollowsService
    <3> QED
      BY <1>25, <3>1 DEF SignInBeside
  <2> QED
    BY <2>1, <2>2
<1>26. ASSUME Disconnect PROVE Current
  BY <1>26, PlanGone DEF Disconnect, AccountGone
<1>27. ASSUME ServiceStops PROVE Current
  BY <1>27, PlanKept DEF ServiceStops
<1>28. ASSUME ServiceRestarts PROVE Current
  BY <1>28, PlanKept DEF ServiceRestarts
<1>29. ASSUME SessionExpires PROVE Current
  BY <1>29, PlanKept DEF SessionExpires
<1>30. ASSUME LearnRestart PROVE Current
  BY <1>30, PlanGone DEF LearnRestart, AccountGone
<1>31. ASSUME LearnExpiry PROVE Current
  BY <1>31, PlanGone DEF LearnExpiry, AccountGone
<1>32. ASSUME ReloadPage PROVE Current
  BY <1>32, PlanGone DEF ReloadPage, NewPage, Resumed
<1> QED
  BY <1>1, <1>2, <1>3, <1>4, <1>5, <1>6, <1>7, <1>8, <1>9, <1>10, <1>11, <1>12, <1>13, <1>14, <1>15, <1>16, <1>17, <1>18, <1>19, <1>20, <1>21, <1>22, <1>23, <1>24, <1>25, <1>26, <1>27, <1>28, <1>29, <1>30, <1>31, <1>32 DEF PlanNext

-----------------------------------------------------------------------------
(* The page implements ReviewedChange.                                      *)

Agreed == IF planPage.plan \in {planPage.confirm, doing.plan} THEN planPage.plan ELSE 0
Implements == [PlanReview!ChangeNext]_(PlanReview!changeVars)

\* A step that removes the plan withdraws it.
LEMMA Withdrawn ==
  ASSUME planPage'.plan = 0, applied' = applied
  PROVE  Implements
  BY DEF Implements, PlanReview!ChangeNext, PlanReview!Withdraw

\* A step that keeps the plan keeps the agreement to it or retracts it.
LEMMA Held ==
  ASSUME planPage'.plan = planPage.plan, applied' = applied,
         planPage'.confirm \in {planPage.confirm, 0}, doing'.plan \in {doing.plan, 0}
  PROVE  Implements
<1>1. Agreed' \in {Agreed, 0}
  BY DEF Agreed
<1>2. CASE Agreed' = Agreed
  BY <1>2 DEF Agreed, Implements, PlanReview!changeVars
<1>3. CASE Agreed' = 0
  BY <1>3 DEF Agreed, Implements, PlanReview!ChangeNext, PlanReview!Retract
<1> QED
  BY <1>1, <1>2, <1>3

\* Every step of the page is a step of ReviewedChange or leaves it alone.
LEMMA StepRefines ==
  ASSUME PlanInv, PlanNext
  PROVE  Implements
<1> USE DEF PlanInv, PlanTypeOK, PlanPages, PlanTasks, PlanServices
<1>1. ASSUME selectRule PROVE Implements
  BY <1>1, Withdrawn DEF selectRule, Clicked
<1>2. ASSUME NEW s \in Target, ChooseTarget(s) PROVE Implements
  <2>1. CASE s = planPage.sel
    BY <1>2, <2>1, Held DEF ChooseTarget, QueueAccess, ChosenTarget, Clicked
  <2>2. CASE s # planPage.sel
    BY <1>2, <2>2, Withdrawn DEF ChooseTarget, QueueAccess, ChosenTarget, Clicked
  <2> QED
    BY <2>1, <2>2
<1>3. ASSUME NEW s \in Target, EditSelection(s) PROVE Implements
  BY <1>3, Withdrawn DEF EditSelection, Clicked
<1>4. ASSUME NEW s \in Target, UseDefaults(s) PROVE Implements
  BY <1>4, Withdrawn DEF UseDefaults, ChosenTarget, Clicked
<1>5. ASSUME ensureSelection PROVE Implements
  BY <1>5, Withdrawn DEF ensureSelection, Clicked
<1>6. ASSUME targetAccess PROVE Implements
  <2>1. CASE planPage' = planPage
    BY <1>6, <2>1, Held DEF targetAccess, AccountGone
  <2>2. CASE planPage' # planPage
    BY <1>6, <2>2, Withdrawn DEF targetAccess, AccountGone
  <2> QED
    BY <2>1, <2>2
<1>7. ASSUME SubmitSelection PROVE Implements
  BY <1>7, Held DEF SubmitSelection, NotDoing
<1>8. ASSUME PlanReady PROVE Implements
  <2>1. /\ planPage'.plan = Len(plans) + 1 /\ planPage'.confirm = planPage.confirm
        /\ doing'.plan = 0 /\ applied' = applied
    BY <1>8 DEF PlanReady, Previewing, FinalPlan, NotDoing
  <2>2. Len(plans) + 1 \in 1..MaxPlan
    BY <1>8, PlanBound DEF PlanReady, Answerable
  <2>3. Agreed' = 0
    BY <2>1, <2>2 DEF Agreed, PlansIssued
  <2>4. PlanReview!Show(Len(plans) + 1)
    BY <2>1, <2>3 DEF Agreed, PlanReview!Show
  <2> QED
    BY <2>2, <2>4 DEF Implements, PlanReview!ChangeNext
<1>9. ASSUME AccessDenied PROVE Implements
  BY <1>9, Withdrawn DEF AccessDenied, NotDoing
<1>10. ASSUME TaskFails PROVE Implements
  BY <1>10, Held DEF TaskFails, NotDoing
<1>11. ASSUME LoginRequired PROVE Implements
  BY <1>11, Withdrawn DEF LoginRequired, AccountGone, NotDoing
<1>12. ASSUME NEW target \in Target, Replan(target) PROVE Implements
  BY <1>12, Held DEF Replan, NotDoing
<1>13. ASSUME NEW target \in Target, NEW returning \in BOOLEAN, openDependencyPlan(target, returning) PROVE Implements
  BY <1>13, Withdrawn DEF openDependencyPlan, NotDoing
<1>14. ASSUME NEW b \in BOOLEAN, TickReviewed(b) PROVE Implements
  BY <1>14, Held DEF TickReviewed, Clicked
<1>15. ASSUME SubmitApply PROVE Implements
  <2>1. /\ planPage'.plan = planPage.plan /\ planPage'.confirm = planPage.plan
        /\ planPage.plan # 0 /\ UNCHANGED <<doing, applied>>
    BY <1>15 DEF SubmitApply, Applicable, Reviewable, Clicked
  <2>2. PlanReview!Agree
    BY <2>1 DEF PlanReview!Agree
  <2> QED
    BY <2>2 DEF Implements, PlanReview!ChangeNext
<1>16. ASSUME CancelConfirm PROVE Implements
  BY <1>16, Held DEF CancelConfirm, Clicked
<1>17. ASSUME ConfirmRun PROVE Implements
  <2>1. /\ planPage'.plan = planPage.plan /\ planPage'.confirm = 0
        /\ planPage.confirm # 0 /\ doing.plan = 0
    BY <1>17 DEF ConfirmRun, Busy, PlansIssued
  <2>2. CASE Confirmable(planPage)
    <3>1. doing'.plan = planPage.plan /\ applied' = applied \cup {planPage.plan}
      BY <1>17, <2>2 DEF ConfirmRun, Confirmable, NotDoing
    <3>2. PlanReview!Ask
      BY <2>1, <2>2, <3>1 DEF Confirmable, PlanReview!Ask
    <3> QED
      BY <3>2 DEF Implements, PlanReview!ChangeNext
  <2>3. CASE ~Confirmable(planPage)
    BY <1>17, <2>1, <2>3, Held DEF ConfirmRun
  <2> QED
    BY <2>2, <2>3
<1>18. ASSUME ApplyAccepted PROVE Implements
  BY <1>18, Withdrawn DEF ApplyAccepted, NotDoing
<1>19. ASSUME enableWrites PROVE Implements
  BY <1>19, Held DEF enableWrites, NotDoing
<1>20. ASSUME GateNarrowed PROVE Implements
  BY <1>20, Held DEF GateNarrowed
<1>21. ASSUME GateOpened PROVE Implements
  <2>1. applied' = applied /\ doing'.plan \in {doing.plan, 0}
    <3>1. [doing EXCEPT !.kind = "wait"].plan = doing.plan /\ NotDoing.plan = 0
      BY DEF NotDoing
    <3> QED
      BY <1>21, <3>1 DEF GateOpened
  <2>2. CASE planPage' = planPage
    BY <2>1, <2>2, Held
  <2>3. CASE planPage' = Waiting(planPage)
    BY <2>1, <2>3, Withdrawn DEF Waiting
  <2> QED
    BY <1>21, <2>2, <2>3 DEF GateOpened
<1>22. ASSUME RestartSeen PROVE Implements
  BY <1>22, Held DEF RestartSeen, NotDoing
<1>23. ASSUME WaitTimesOut PROVE Implements
  BY <1>23, Held DEF WaitTimesOut, NotDoing
<1>24. ASSUME SignIn PROVE Implements
  BY <1>24, Held DEF SignIn, NotDoing
<1>25. ASSUME SignInDone PROVE Implements
  <2>1. CASE planPage'.plan = planPage.plan
    BY <1>25, <2>1, Held DEF SignInDone, Resumed, SignedIn, NotDoing
  <2>2. CASE planPage'.plan # planPage.plan
    BY <1>25, <2>2, Withdrawn DEF SignInDone, Resumed, SignedIn, NotDoing
  <2> QED
    BY <2>1, <2>2
<1>26. ASSUME Disconnect PROVE Implements
  BY <1>26, Withdrawn DEF Disconnect, AccountGone
<1>27. ASSUME ServiceStops PROVE Implements
  BY <1>27, Held DEF ServiceStops
<1>28. ASSUME ServiceRestarts PROVE Implements
  BY <1>28, Held DEF ServiceRestarts
<1>29. ASSUME SessionExpires PROVE Implements
  BY <1>29, Held DEF SessionExpires
<1>30. ASSUME LearnRestart PROVE Implements
  BY <1>30, Withdrawn DEF LearnRestart, AccountGone
<1>31. ASSUME LearnExpiry PROVE Implements
  BY <1>31, Withdrawn DEF LearnExpiry, AccountGone
<1>32. ASSUME ReloadPage PROVE Implements
  BY <1>32, Withdrawn DEF ReloadPage, NewPage, Resumed, NotDoing
<1> QED
  BY <1>1, <1>2, <1>3, <1>4, <1>5, <1>6, <1>7, <1>8, <1>9, <1>10, <1>11, <1>12, <1>13, <1>14, <1>15, <1>16, <1>17, <1>18, <1>19, <1>20, <1>21, <1>22, <1>23, <1>24, <1>25, <1>26, <1>27, <1>28, <1>29, <1>30, <1>31, <1>32 DEF PlanNext

-----------------------------------------------------------------------------
(* The theorems.                                                            *)

\* The invariant of the proofs holds of every behaviour of the page.
THEOREM PlanInductive == PlanSpec => []PlanInv
<1>1. PlanInv /\ UNCHANGED planVars => PlanInv'
  BY DEF planVars, PlanInv, PlanTypeOK, PlansIssued, PageFollowsService
<1>2. PlanInv /\ PlanNext => PlanInv'
  BY StepTypes, StepSafe DEF PlanInv
<1> QED
  BY PlanInitInv, <1>1, <1>2, PTL DEF PlanSpec

\* No plan of an earlier process comes to stand on the screen of a page that
\* knows of the restart, whoever restarted the service, but at the end of a
\* sign-in beside a live account (NoPlanSurvivesRestart).
THEOREM PlansDoNotSurvive == PlanSpec => NoPlanSurvivesRestart
<1>1. PlanInv /\ [PlanNext]_planVars =>
         [Outdated' => Outdated \/ SignInBeside]_planVars
  BY StepCurrent
<1> QED
  BY PlanInductive, <1>1, PTL DEF PlanSpec, NoPlanSurvivesRestart

\* No click, answer, reload or resumed record leaves a plan for an earlier
\* target beside the form (PlanFollowsForm).
THEOREM PlanKeepsToForm == PlanSpec => PlanFollowsForm
<1>1. PlanInv /\ [PlanNext]_planVars =>
         [planPage'.sel # planPage.sel =>
             planPage'.plan = 0 \/ plans'[planPage'.plan].sel = planPage'.sel]_planVars
  BY StepFollows
<1> QED
  BY PlanInductive, <1>1, PTL DEF PlanSpec, PlanFollowsForm

\* The control page implements ReviewedChange: what it asks the server to
\* apply is the plan on the screen, confirmed as such (PlanIsReviewed).
THEOREM PlanRefines == PlanSpec => PlanIsReviewed
<1>1. PlanInit => PlanReview!ChangeInit
  BY DEF PlanInit, NewPage, NotDoing, PlanReview!ChangeInit
<1>2. PlanInv /\ [PlanNext]_planVars => [PlanReview!ChangeNext]_(PlanReview!changeVars)
  <2>1. UNCHANGED planVars => UNCHANGED PlanReview!changeVars
    BY DEF planVars, PlanReview!changeVars
  <2> QED
    BY <2>1, StepRefines DEF Implements
<1> QED
  BY PlanInductive, <1>1, <1>2, PTL DEF PlanSpec, PlanIsReviewed, PlanReview!ChangeSpec
=============================================================================
