-------------------------------- MODULE Targets --------------------------------
(* The form that chooses where a policy is written (control-view.js,        *)
(* workspace.js), and the three places that judge the choice afterwards:    *)
(* the mapping rules and the preview of the service                         *)
(* (ProductionGpoMappings.cs, GpoWorkflowService.cs) and the worker. The    *)
(* form has no validation of its own: it coerces one field when another one *)
(* changes, each time it is drawn and each time its inputs are read.        *)
EXTENDS Naturals

CONSTANTS Ou,                   \* organizational units of the domain
          DomainRoot,           \* its root
          NoScope               \* no scope, written as an empty name
ASSUME ScopesAssumption ==
    DomainRoot \notin Ou /\ NoScope \notin Ou /\ NoScope # DomainRoot
VARIABLES policy,               \* what the selected control configures
          choice,               \* state.selection
          offered,              \* scopes of state.inventory; {} without one
          recorded              \* selection of a recorded plan and its control
targetVars == <<policy, choice, offered, recorded>>

Scopes == Ou \cup {DomainRoot}
Controls == {"Computer", "User", "Account"}
NotRecorded == [control |-> "none"]
inventoryShown == offered # {}
Sensitive(c, s) == c = "Account" /\ s.scope \notin Ou

-----------------------------------------------------------------------------
(* The form.                                                                *)

accountsOf(c, domain) ==
    IF domain THEN "Domain" ELSE IF c = "User" THEN "Users" ELSE "LocalComputers"
\* Variant: the refresh strategy stays when the scope leaves the domain root.
EnsureKeepingRefresh(c, s, seen) ==
    LET domain == Sensitive(c, s)
        scope == IF seen = {} \/ s.scope \in seen THEN s.scope
                 ELSE IF domain THEN DomainRoot ELSE NoScope
    IN [s EXCEPT !.scope = scope,
                 !.accountScope = accountsOf(c, domain),
                 !.firstLink = domain \/ @,
                 !.endpoint = IF c # "User" THEN NoScope
                              ELSE IF seen = {} \/ @ \in seen THEN @ ELSE scope,
                 !.user = c = "User" /\ @]
\* ensureSelection, when the form is drawn.
ensureChoice(c, s, seen) ==
    LET domain == Sensitive(c, s)
        scope == IF seen = {} \/ s.scope \in seen THEN s.scope
                 ELSE IF domain THEN DomainRoot ELSE NoScope
    IN [scope |-> scope,
        accountScope |-> accountsOf(c, domain),
        refresh |-> IF s.refresh = (IF domain THEN "Scope" ELSE "Pdc") THEN "None" ELSE s.refresh,
        firstLink |-> domain \/ s.firstLink,
        endpoint |-> IF c # "User" THEN NoScope
                     ELSE IF seen = {} \/ s.endpoint \in seen THEN s.endpoint ELSE scope,
        user |-> c = "User" /\ s.user]
\* The radio buttons that the form draws.
RefreshShown(c, s) ==
    {"None", IF c = "Account" /\ s.accountScope = "Domain" THEN "Pdc" ELSE "Scope"}
\* captureForm: what the inputs of the drawn form say.
captureTarget(c, s) ==
    LET domain == Sensitive(c, s)
    IN [scope |-> IF s.scope \in offered THEN s.scope ELSE NoScope,
        accountScope |-> accountsOf(c, domain),
        refresh |-> IF s.refresh \in RefreshShown(c, s) THEN s.refresh ELSE "",
        firstLink |-> domain \/ s.firstLink,
        endpoint |-> IF c = "User" /\ s.endpoint \in offered THEN s.endpoint ELSE NoScope,
        user |-> c = "User" /\ s.user]
\* targetGuidance: the label on the form.
targetGuidance(c, s) ==
    IF c = "Account" /\ s.accountScope = "Domain" THEN "Domain"
    ELSE IF c = "User" THEN "User" ELSE "Computer"
SubmitShown == inventoryShown /\ choice.scope # NoScope
\* refreshChoices: what the dialog offers for a recorded plan.
refreshChoices(r) ==
    IF r.of.accountScope = "Users" \/ r.control = "User"
    THEN IF r.of.endpoint # NoScope THEN {"Scope"} ELSE {}
    ELSE IF r.of.scope \notin Ou /\ r.of.accountScope = "Domain" THEN {"Pdc"} ELSE {"Scope"}

-----------------------------------------------------------------------------
(* The service and the worker.                                              *)

\* Effective: an account policy below the root is a computer policy.
DomainPolicy(c, s) == c = "Account" /\ s.accountScope # "LocalComputers"
MappingScope(c, s) ==
    IF c # "Account" THEN c ELSE IF DomainPolicy(c, s) THEN "Domain" ELSE "Computer"
ValidateRefresh(c, s, refresh) ==
    /\ refresh \in {"None", "Pdc", "Scope"}
    /\ MappingScope(c, s) = "User" => refresh # "Pdc"
    /\ DomainPolicy(c, s) => refresh # "Scope"
    /\ ~DomainPolicy(c, s) /\ MappingScope(c, s) # "User" => refresh # "Pdc"
ValidateSelection(c, s) ==
    /\ ValidateRefresh(c, s, s.refresh) /\ s.scope # NoScope
    /\ IF MappingScope(c, s) = "User"
       THEN s.accountScope = "Users" /\ (s.refresh = "Scope" => s.endpoint # NoScope)
       ELSE /\ s.endpoint = NoScope /\ ~s.user
            /\ DomainPolicy(c, s) => s.accountScope = "Domain" /\ s.firstLink
            /\ ~DomainPolicy(c, s) => s.accountScope = "LocalComputers"
\* PreviewAsync: the endpoints of a user policy are an organizational unit.
EndpointsFound(c, s) == c = "User" /\ s.refresh = "Scope" => s.endpoint \in offered \cap Ou
ValidateTarget(c, s) ==
    /\ s.scope \in offered
    /\ DomainPolicy(c, s) => s.scope = DomainRoot
    /\ c = "Account" /\ s.accountScope = "LocalComputers" => s.scope \in Ou
WorkerValidates(c, s) ==
    /\ MappingScope(c, s) = "Computer" => s.refresh # "Pdc"
    /\ MappingScope(c, s) = "User" =>
           s.refresh # "Pdc" /\ (s.refresh = "Scope" => s.endpoint \in offered)
    /\ MappingScope(c, s) # "User" => s.endpoint = NoScope /\ ~s.user
    /\ DomainPolicy(c, s) => s.scope = DomainRoot /\ s.firstLink /\ s.refresh # "Scope"
Previews(c, s) ==
    ValidateSelection(c, s) /\ EndpointsFound(c, s) /\ ValidateTarget(c, s) /\ WorkerValidates(c, s)
\* ValidateSubmission and ExecuteAsync, then gpoRefresh and Refresh-Targets.
RefreshAccepted(r, refresh) ==
    /\ refresh \in {"Pdc", "Scope"} /\ ValidateRefresh(r.control, r.of, refresh)
    /\ MappingScope(r.control, r.of) = "User" => r.of.endpoint # NoScope
    /\ refresh = "Pdc" => DomainPolicy(r.control, r.of) /\ MappingScope(r.control, r.of) = "Domain"
    /\ refresh = "Scope" => ~DomainPolicy(r.control, r.of)

-----------------------------------------------------------------------------
(* What the operator does.                                                  *)
Unset == [scope |-> NoScope, accountScope |-> "Domain", refresh |-> "None",
          firstLink |-> FALSE, endpoint |-> NoScope, user |-> FALSE]
TargetsInit ==
    /\ policy \in Controls /\ choice = ensureChoice(policy, Unset, {})
    /\ offered = {} /\ recorded = NotRecorded
DrawnAs(s) == choice' = ensureChoice(policy, s, offered)

\* selectRule: ensures once, draws once.
OpenControl(c) ==
    /\ policy' = c
    /\ LET begun == [Unset EXCEPT !.accountScope = choice.accountScope]
       IN choice' = ensureChoice(c, ensureChoice(c, begun, offered), offered)
    /\ UNCHANGED <<offered, recorded>>
\* An inventory is read, or is dropped with the account.
Discovered(units) ==
    /\ offered' = units \cup {DomainRoot} /\ choice' = ensureChoice(policy, choice, offered')
    /\ UNCHANGED <<policy, recorded>>
InventoryDropped ==
    /\ inventoryShown /\ offered' = {} /\ choice' = ensureChoice(policy, choice, {})
    /\ UNCHANGED <<policy, recorded>>
\* The scope dialog; endpoints that followed the scope follow it again.
ChooseScopeDn(d) ==
    /\ inventoryShown /\ d \in offered
    /\ DrawnAs(ensureChoice(policy, IF d = choice.scope THEN choice
               ELSE [choice EXCEPT !.scope = d, !.user = FALSE,
                        !.endpoint = IF @ = choice.scope THEN d ELSE @], offered))
    /\ UNCHANGED <<policy, offered, recorded>>
ChooseEndpoint(d) ==
    /\ inventoryShown /\ policy = "User" /\ d \in offered \cap Ou
    /\ DrawnAs([choice EXCEPT !.endpoint = d]) /\ UNCHANGED <<policy, offered, recorded>>
\* data-scope-clear: the drawn form chooses the policy scope again.
ClearEndpoint ==
    /\ inventoryShown /\ policy = "User"
    /\ DrawnAs([choice EXCEPT !.endpoint = NoScope]) /\ UNCHANGED <<policy, offered, recorded>>
\* invalidateSelection: reads the inputs; the form is not drawn again.
EditInputs(s) ==
    /\ inventoryShown /\ choice' = captureTarget(policy, s) /\ UNCHANGED <<policy, offered, recorded>>
SetRefresh ==
    \E refresh \in RefreshShown(policy, choice) :
        EditInputs([choice EXCEPT !.refresh = refresh])
SetFirstLink ==
    /\ ~(policy = "Account" /\ choice.accountScope = "Domain")
    /\ EditInputs([choice EXCEPT !.firstLink = ~@])
SetUser == policy = "User" /\ EditInputs([choice EXCEPT !.user = ~@])
Preview ==
    /\ SubmitShown /\ DrawnAs(captureTarget(policy, choice))
    /\ recorded' = IF Previews(policy, captureTarget(policy, choice))
                   THEN [control |-> policy, of |-> captureTarget(policy, choice)] ELSE recorded
    /\ UNCHANGED <<policy, offered>>

\* The target of a recorded plan is chosen again and drawn: for the control a
\* plan depends on, back from there, for a replan, or after a restart. What was
\* drawn is then previewed as it is.
Reselect(c) ==
    /\ inventoryShown /\ recorded # NotRecorded
    /\ policy' = c /\ choice' = ensureChoice(c, recorded.of, offered)
    /\ \/ UNCHANGED recorded
       \/ Previews(c, choice') /\ recorded' = [control |-> c, of |-> choice']
    /\ UNCHANGED offered

TargetsNext ==
    \/ InventoryDropped \/ ClearEndpoint \/ SetRefresh \/ SetFirstLink \/ SetUser \/ Preview
    \/ \E c \in Controls : OpenControl(c) \/ Reselect(c)
    \/ \E units \in SUBSET Ou : Discovered(units)
    \/ \E d \in Scopes : ChooseScopeDn(d) \/ ChooseEndpoint(d)
TargetsSpec == TargetsInit /\ [][TargetsNext]_targetVars

-----------------------------------------------------------------------------
\* The one choice the form makes by itself and the preview refuses: the
\* endpoints of a user policy default to its scope, also to the domain root.
EndpointsAtRoot == policy = "User" /\ choice.refresh = "Scope" /\ choice.endpoint = DomainRoot
(* Whatever was chosen before, and for whatever control: a target that the  *)
(* form lets the operator submit passes every check of the service and the  *)
(* worker (but for EndpointsAtRoot), the label on the form names the policy *)
(* that will be written, and a refresh offered for a recorded plan is one   *)
(* that service and worker accept.                                          *)
FormMatchesService ==
    /\ SubmitShown => Previews(policy, captureTarget(policy, choice)) \/ EndpointsAtRoot
    /\ SubmitShown => targetGuidance(policy, choice) = MappingScope(policy, choice)
    /\ recorded # NotRecorded =>
           \A refresh \in refreshChoices(recorded) : RefreshAccepted(recorded, refresh)
=============================================================================
