---------------------------- MODULE ReviewedChange ---------------------------
(* What the browser client promises about a change, whichever screen it is *)
(* prepared on: the only thing it ever asks the server to apply is the     *)
(* plan on the screen, and only after the operator confirmed that plan.    *)
(* A plan that replaces another never inherits its confirmation.           *)
(* The batch dialog and the control page are shown to implement this.      *)

CONSTANTS Change,     \* everything that can be previewed
          Nothing     \* no plan

VARIABLES shown,      \* the plan on the screen
          agreed,     \* the plan the typed confirmation belongs to
          asked       \* the plans the server was asked to apply
changeVars == <<shown, agreed, asked>>

ChangeInit == shown = Nothing /\ agreed = Nothing /\ asked = {}

Show(c) == shown' = c /\ agreed' = Nothing /\ UNCHANGED asked
Withdraw == shown' = Nothing /\ agreed' = Nothing /\ UNCHANGED asked
Agree == shown # Nothing /\ agreed' = shown /\ UNCHANGED <<shown, asked>>
Retract == agreed' = Nothing /\ UNCHANGED <<shown, asked>>
Ask ==
    /\ agreed # Nothing /\ agreed = shown
    /\ asked' = asked \cup {agreed}
    /\ UNCHANGED <<shown, agreed>>

ChangeNext == (\E c \in Change : Show(c)) \/ Withdraw \/ Agree \/ Retract \/ Ask
ChangeSpec == ChangeInit /\ [][ChangeNext]_changeVars
=============================================================================
