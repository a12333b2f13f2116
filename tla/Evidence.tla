-------------------------------- MODULE Evidence --------------------------------
(* The page that reads target permissions and explains a recorded operation *)
(* (assurance.js). The operator goes on editing the form while a report is  *)
(* read; the answer is kept only where the form still asks for it. What     *)
(* belongs to an account is reset when the page is next drawn, not when the *)
(* account changes: an account that ends, or one that signs in, stands      *)
(* beside a page drawn for the one before until then.                       *)
EXTENDS Naturals

CONSTANTS Account,              \* domain, controller and identity of an inventory
          Subject,              \* GPOs, scopes, operations and endpoints to choose from
          NoOne                 \* nothing chosen, or no inventory
VARIABLES connectedAs,          \* state.inventory
          onPage,               \* the route is #/assurance
          context,              \* the account the page was last drawn for
          form,                 \* gpo, scope, intent (control and firstLink), operation, host
          answers,              \* access and explanation: what each is about, or no report
          reading,              \* run()'s task: a sign-in, or a report with its key and what it is about
          choosing              \* the scope dialog is open
evidenceVars == <<connectedAs, onPage, context, form, answers, reading, choosing>>

TargetFields == {"gpo", "scope", "intent"}
RunFields == {"operation", "host"}
FieldsOf == [access |-> TargetFields, explanation |-> RunFields]
NoReport == [account |-> NoOne, about |-> [f \in {} |-> NoOne]]
NoReading == [kind |-> "none", key |-> NoReport, of |-> NoReport]
SigningIn == [NoReading EXCEPT !.kind = "sign-in"]
busyReading == reading.kind # "none"
\* What a request of this kind, sent now, is about; the page's own key.
About(kind, who) == [account |-> who, about |-> [f \in FieldsOf[kind] |-> form[f]]]

-----------------------------------------------------------------------------
EvidenceInit ==
    /\ connectedAs \in Account \cup {NoOne} /\ context = NoOne /\ onPage = FALSE /\ choosing = FALSE
    /\ form = [f \in TargetFields \cup RunFields |-> NoOne]
    /\ answers = [kind \in DOMAIN FieldsOf |-> NoReport] /\ reading = NoReading
\* view(): draws what was written, and begins anew for another account.
Drawn(who, fields, reports) ==
    /\ context' = who
    /\ IF who = context THEN form' = fields /\ answers' = reports
       ELSE /\ form' = [f \in DOMAIN form |-> IF f = "intent" THEN fields[f] ELSE NoOne]
            /\ answers' = [kind \in DOMAIN answers |-> NoReport]
\* render(): another page has nothing of this one to draw.
Refreshed(reports) ==
    IF onPage THEN Drawn(connectedAs, form, reports)
    ELSE answers' = reports /\ UNCHANGED <<context, form>>
Navigate ==
    /\ onPage' = ~onPage
    /\ IF onPage THEN UNCHANGED <<context, form, answers>> ELSE Drawn(connectedAs, form, answers)
    /\ UNCHANGED <<connectedAs, reading, choosing>>
Redraw == Refreshed(answers) /\ UNCHANGED <<connectedAs, onPage, reading, choosing>>
\* An account ends at any time; the page may be drawn only later.
AccountEnds ==
    /\ connectedAs # NoOne /\ connectedAs' = NoOne
    /\ UNCHANGED <<onPage, context, form, answers, reading, choosing>>
\* A sign-in draws before it begins and after it ends; in between the account
\* is another one.
SignInBegins ==
    /\ ~busyReading /\ reading' = SigningIn /\ Refreshed(answers)
    /\ UNCHANGED <<connectedAs, onPage, choosing>>
AccountSignsIn(who) ==
    /\ reading = SigningIn /\ connectedAs' = who
    /\ UNCHANGED <<onPage, context, form, answers, reading, choosing>>

\* handleInput: a field changed; a changed operation forgets the endpoint.
Field(f, value) ==
    /\ onPage /\ f \in {"gpo", "intent", "operation", "host"}
    /\ Drawn(connectedAs,
             IF f = "operation" THEN [form EXCEPT !.operation = value, !.host = NoOne]
             ELSE [form EXCEPT ![f] = value],
             [kind \in DOMAIN answers |-> IF f \in FieldsOf[kind] THEN NoReport ELSE answers[kind]])
    /\ UNCHANGED <<connectedAs, onPage, reading, choosing>>
\* handleClick: the scope dialog.
OpenScopes ==
    /\ onPage /\ choosing' = TRUE /\ Refreshed(answers)
    /\ UNCHANGED <<connectedAs, onPage, reading>>
ChooseReportScope(value) ==
    /\ onPage /\ choosing /\ choosing' = FALSE
    /\ Drawn(connectedAs, [form EXCEPT !.scope = value], [answers EXCEPT !.access = NoReport])
    /\ UNCHANGED <<connectedAs, onPage, reading>>
\* The close button, or Escape on any page.
CloseScopes ==
    /\ choosing /\ choosing' = FALSE /\ Refreshed(answers)
    /\ UNCHANGED <<connectedAs, onPage, reading>>

\* handleSubmit through execute: the buttons were drawn with an inventory; run()
\* has one task, and draws before it begins.
Offered(kind) ==
    /\ ~busyReading /\ context # NoOne
    /\ \A f \in FieldsOf[kind] \ {"intent", "host"} : form[f] # NoOne
Ask(kind) ==
    /\ onPage /\ Offered(kind) /\ Drawn(connectedAs, form, answers)
    /\ UNCHANGED <<connectedAs, onPage, choosing>>
    /\ reading' = [kind |-> kind, key |-> About(kind, context)', of |-> About(kind, connectedAs)']
\* Variant: the key is not compared.
Compared(kind) == TRUE
StillAsked(kind) == reading.key = About(kind, context)
\* The service answers an account, and run() draws when its task is over.
ReportAnswered ==
    /\ reading.kind \in DOMAIN FieldsOf /\ reading.of.account # NoOne /\ reading' = NoReading
    /\ Refreshed(IF StillAsked(reading.kind)
                THEN [answers EXCEPT ![reading.kind] = reading.of] ELSE answers)
    /\ UNCHANGED <<connectedAs, onPage, choosing>>
TaskEnds ==
    /\ busyReading /\ reading' = NoReading /\ Refreshed(answers)
    /\ UNCHANGED <<connectedAs, onPage, choosing>>

\* The two reports as they are drawn; beside an explanation stands what the
\* selected operation recorded at its preview.
accessView == answers.access
explanationView == [report |-> answers.explanation, impact |-> form.operation]

EvidenceNext ==
    \/ Navigate \/ Redraw \/ AccountEnds \/ SignInBegins \/ OpenScopes \/ CloseScopes
    \/ ReportAnswered \/ TaskEnds
    \/ \E who \in Account : AccountSignsIn(who)
    \/ \E value \in Subject : ChooseReportScope(value)
    \/ \E f \in TargetFields \cup RunFields, value \in Subject \cup {NoOne} : Field(f, value)
    \/ \E kind \in DOMAIN FieldsOf : Ask(kind)
EvidenceSpec == EvidenceInit /\ [][EvidenceNext]_evidenceVars

-----------------------------------------------------------------------------
(* A permission report or an explanation on the page was read under the     *)
(* account the page was drawn for and is about exactly what the form shows, *)
(* whatever was edited, signed out or navigated while it was read; and that *)
(* account is the one that is connected, unless it has ended since or a     *)
(* sign-in is not over yet.                                                 *)
AnswerForSelection ==
    onPage =>
        /\ connectedAs \in {context, NoOne} \/ reading = SigningIn
        /\ accessView # NoReport => accessView = About("access", context)
        /\ explanationView.report # NoReport =>
               /\ explanationView.report = About("explanation", context)
               /\ explanationView.impact = explanationView.report.about.operation
=============================================================================
